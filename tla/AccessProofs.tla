----------------------------- MODULE AccessProofs -----------------------------
(***************************************************************************)
(* Proofs about who reads what and under which name: scopes and scoped      *)
(* reads, and the identity of a binding.                                    *)
(***************************************************************************)
EXTENDS ScopeAccess, BindingIdentity, SequenceTheorems,
        WellFoundedInduction, TLAPS

-----------------------------------------------------------------------------
(***************************************************************************)
(* Proofs about ScopeAccess, for every configuration, every slug function   *)
(* and any number of rows and edits.  The inductive invariant ties what was *)
(* resolved earlier (a writer's scope, a reader's list, the setting of its  *)
(* transaction) to the configuration in force, unless an edit came between. *)
(***************************************************************************)

(* What is marked fresh was resolved from the configuration in force.      *)
Resolved(r) ==
    r.fresh => /\ r.tree \in Registered(file)
               /\ r.scope = scope_for(file, r.tree)

RowsOK == Resolved(job) /\ \A r \in rows : Resolved(r)

ConnOK ==
    /\ conn.view = "none" => conn.setting = {}
    /\ conn.view # "none" =>
          /\ Dialect = "postgres" => conn.setting = conn.list
          /\ conn.fresh => conn.list = readable_scopes(file) /\ conn.list # {}

OutOK ==
    /\ out.by = "store" /\ out.fresh =>
          out.rows = Selected(readable_scopes(file)) /\ readable_scopes(file) # {}
    /\ out.by = "sql" /\ Dialect = "postgres" /\ out.view \in GatedViews => out.rows = {}

ScopeInv == RowsOK /\ ConnOK /\ OutOK

-----------------------------------------------------------------------------
(* scope_for refuses a tree that is not registered.                        *)
LEMMA ResolvedIsRegistered ==
    ASSUME NEW c, NEW t, scope_for(c, t) # NoScope PROVE t \in Registered(c)
BY DEF scope_for

(* Unless it raises, readable_scopes has the scope of every corpus tree and *)
(* nothing else.                                                            *)
LEMMA ReadableScopes ==
    ASSUME NEW c, readable_scopes(c) # {}
    PROVE  /\ readable_scopes(c) = {scope_for(c, t) : t \in CorpusTrees(c)}
           /\ \A t \in CorpusTrees(c) : scope_for(c, t) # NoScope
BY DEF readable_scopes

LEMMA NothingFresh ==
    /\ NoJob.fresh = FALSE
    /\ NoAnswer.by = "none"
    /\ Closed.view = "none" /\ Closed.setting = {} /\ Closed.fresh = FALSE
BY DEF NoJob, NoAnswer, Closed

(* The operator's edit makes everything resolved so far stale.             *)
LEMMA SaveInv == ASSUME ScopeInv, NEW c, Save(c) PROVE ScopeInv'
<1>1. RowsOK'
  BY DEF Save, Stale, RowsOK, Resolved
<1>2. ConnOK'
  BY DEF ScopeInv, Save, ConnOK
<1>3. OutOK'
  BY NothingFresh DEF Save, OutOK
<1> QED BY <1>1, <1>2, <1>3 DEF ScopeInv

LEMMA WriterInv ==
    ASSUME ScopeInv, Ingest \/ \E t \in Trees : Resolve(t) PROVE ScopeInv'
<1>1. file' = file /\ conn' = conn /\ out' = NoAnswer
  BY DEF Ingest, Resolve
<1>2. RowsOK'
  <2>1. CASE Ingest
    BY <2>1, NothingFresh DEF Ingest, ScopeInv, RowsOK, Resolved
  <2>2. ASSUME NEW t \in Trees, Resolve(t) PROVE RowsOK'
    BY <2>2, ResolvedIsRegistered DEF Resolve, ScopeInv, RowsOK, Resolved
  <2> QED BY <2>1, <2>2
<1>3. ConnOK' /\ OutOK'
  BY <1>1, NothingFresh DEF ScopeInv, ConnOK, OutOK
<1> QED BY <1>2, <1>3 DEF ScopeInv

LEMMA BeginInv ==
    ASSUME ScopeInv, NEW v \in Views, QueryBegin(v), v # "none" PROVE ScopeInv'
<1>1. RowsOK' /\ OutOK'
  BY NothingFresh DEF QueryBegin, ScopeInv, RowsOK, Resolved, OutOK
<1>2. ConnOK'
  BY DEF QueryBegin, ConnOK
<1> QED BY <1>1, <1>2 DEF ScopeInv

(* The store's own list is not narrowed by the setting it made itself.     *)
LEMMA RowsInv == ASSUME ScopeInv, QueryRows PROVE ScopeInv'
<1>1. RowsOK' /\ ConnOK'
  BY NothingFresh DEF QueryRows, ScopeInv, RowsOK, Resolved, ConnOK
<1>2. Gate(conn.view, conn.list, conn.setting) = conn.list
  BY DEF QueryRows, ScopeInv, ConnOK, Gate
<1>3. /\ file' = file /\ rows' = rows /\ out'.by = "store" /\ out'.fresh = conn.fresh
      /\ out'.rows = Selected(conn.list)
  BY <1>2 DEF QueryRows
<1>4. OutOK'
  BY <1>3 DEF QueryRows, ScopeInv, ConnOK, OutOK, Selected
<1> QED BY <1>1, <1>4 DEF ScopeInv

LEMMA FailInv == ASSUME ScopeInv, QueryFails PROVE ScopeInv'
BY NothingFresh DEF QueryFails, ScopeInv, RowsOK, Resolved, ConnOK, OutOK

LEMMA SqlInv == ASSUME ScopeInv, NEW v \in Views, ReadView(v) PROVE ScopeInv'
<1>1. RowsOK' /\ ConnOK'
  BY DEF ReadView, ScopeInv, RowsOK, Resolved, ConnOK
<1>2. conn.setting = {} /\ out'.by = "sql" /\ out'.view = v
      /\ out'.rows = Selected(Gate(v, Scopes, conn.setting))
  BY DEF ReadView, ScopeInv, ConnOK
<1>3. OutOK'
  BY <1>2 DEF OutOK, Gate, Selected
<1> QED BY <1>1, <1>3 DEF ScopeInv

LEMMA ScopeInductive == Spec => []ScopeInv
<1>1. Init => ScopeInv
  BY NothingFresh DEF Init, ScopeInv, RowsOK, Resolved, ConnOK, OutOK
<1>2. ScopeInv /\ [Next]_vars => ScopeInv'
  <2> SUFFICES ASSUME ScopeInv, [Next]_vars PROVE ScopeInv'
    OBVIOUS
  <2>1. \A v \in Views : v # "none"
    BY ScopeAssumption DEF FindingViews, EvidenceViews, GatedViews
  <2>2. ASSUME NEW m \in Modes, SetMode(m) PROVE ScopeInv'
    BY <2>2, SaveInv DEF SetMode
  <2>3. ASSUME NEW t \in Trees, NEW m \in Metas, SetTree(t, m) \/ AddEngagement(t, m)
        PROVE  ScopeInv'
    BY <2>3, SaveInv DEF SetTree, AddEngagement
  <2>4. ASSUME NEW t \in Trees, DropTree(t) PROVE ScopeInv'
    BY <2>4, SaveInv DEF DropTree
  <2>5. ASSUME NEW i \in DOMAIN file.engagements, DropEngagement(i) PROVE ScopeInv'
    BY <2>5, SaveInv DEF DropEngagement
  <2>6. CASE UNCHANGED vars
    BY <2>6 DEF vars, ScopeInv, RowsOK, Resolved, ConnOK, OutOK, Selected
  <2> QED BY <2>1, <2>2, <2>3, <2>4, <2>5, <2>6, WriterInv, BeginInv, RowsInv, FailInv,
             SqlInv DEF Next
<1> QED BY <1>1, <1>2, PTL DEF Spec

-----------------------------------------------------------------------------
(* readable_scopes and scope_for agree: a read that is not refused returns   *)
(* every row written under the same configuration for a corpus tree.         *)
THEOREM CorpusRead == Spec => []CorpusIsRead
<1>1. ScopeInv => CorpusIsRead
  <2> SUFFICES ASSUME ScopeInv, out.by = "store", out.fresh, NEW r \in rows, r.fresh,
                      tree_meta(file, r.tree).ownership # "harness-qa"
               PROVE  r \in out.rows
    BY DEF CorpusIsRead
  <2>1. /\ out.rows = Selected(readable_scopes(file)) /\ readable_scopes(file) # {}
        /\ r.tree \in Registered(file) /\ r.scope = scope_for(file, r.tree)
    BY DEF ScopeInv, OutOK, RowsOK, Resolved
  <2>2. r.tree \in CorpusTrees(file)
    BY <2>1 DEF CorpusTrees
  <2>3. r.scope \in readable_scopes(file)
    BY <2>1, <2>2, ReadableScopes
  <2> QED BY <2>1, <2>3 DEF Selected
<1> QED BY <1>1, ScopeInductive, PTL

(* No scope is opened to a reader because a harness-qa tree has it.          *)
THEOREM CorpusScopesOnly == Spec => []OnlyCorpusScopes
<1>1. ScopeInv => OnlyCorpusScopes
  BY ReadableScopes DEF ScopeInv, OutOK, OnlyCorpusScopes, Selected, CorpusTrees
<1> QED BY <1>1, ScopeInductive, PTL

(* A reader is refused when one corpus tree cannot be resolved.              *)
THEOREM WholeAnswers == Spec => []AnswersAreWhole
<1>1. ScopeInv => AnswersAreWhole
  BY ReadableScopes DEF ScopeInv, OutOK, AnswersAreWhole, CorpusTrees
<1> QED BY <1>1, ScopeInductive, PTL

(* The transaction-local setting of a read does not outlive it.              *)
THEOREM NoLeak == Spec => []ScopeDoesNotLeak
<1>1. ScopeInv => ScopeDoesNotLeak
  BY DEF ScopeInv, OutOK, ScopeDoesNotLeak
<1> QED BY <1>1, ScopeInductive, PTL

-----------------------------------------------------------------------------
(* A non-empty set of naturals has a least element.                          *)
LEMMA Least ==
    ASSUME NEW S \in SUBSET Nat, S # {} PROVE \E i \in S : \A j \in S : i <= j
<1>1. PICK i \in S : \A j \in S : <<j, i>> \notin OpToRel(<, Nat)
  BY NatLessThanWellFounded, WFMin
<1>2. ASSUME NEW j \in S PROVE i <= j
  <2>1. i \in Nat /\ j \in Nat  OBVIOUS
  <2>2. <<j, i>> \in Nat \X Nat  BY <2>1
  <2>3. ~(j < i)  BY <1>1, <2>2 DEF OpToRel
  <2> QED BY <2>1, <2>3
<1> QED BY <1>2

(* A registered tree's declaration is one that was written.                  *)
LEMMA MetaType ==
    ASSUME NEW c \in Config, NEW t \in Registered(c) PROVE tree_meta(c, t) \in Metas
<1>1. CASE t \in DOMAIN c.trees
  BY <1>1 DEF tree_meta, Config
<1>2. CASE t \notin DOMAIN c.trees
  <2>1. c.engagements \in Seq(Engagement)  BY DEF Config
  <2>2. DOMAIN c.engagements = 1..Len(c.engagements) /\ Len(c.engagements) \in Nat
    BY <2>1, LenProperties
  <2>3. EngagementsOf(c, t) \in SUBSET Nat /\ EngagementsOf(c, t) # {}
    BY <1>2, <2>2 DEF EngagementsOf, Registered
  <2> DEFINE first == CHOOSE i \in EngagementsOf(c, t) :
                          \A j \in EngagementsOf(c, t) : i <= j
  <2>4. first \in EngagementsOf(c, t)
    BY <2>3, Least
  <2>5. first \in 1..Len(c.engagements)
    BY <2>2, <2>4 DEF EngagementsOf
  <2> HIDE DEF first
  <2>6. c.engagements[first] \in Engagement
    BY <2>1, <2>5, ElementOfSeq
  <2>7. c.engagements[first].meta \in Metas
    BY <2>6 DEF Engagement
  <2> QED BY <1>2, <2>7 DEF tree_meta, first
<1> QED BY <1>1, <1>2

LEMMA ScopeType ==
    ASSUME NEW c \in Config, NEW t \in Trees PROVE scope_for(c, t) \in Scopes \cup {NoScope}
<1>1. CASE t \notin Registered(c)
  BY <1>1 DEF scope_for
<1>2. CASE t \in Registered(c)
  <2>1. tree_meta(c, t) \in Metas  BY <1>2, MetaType
  <2>2. tree_meta(c, t).scope_id \in Scopes \cup {NoScope}  BY <2>1, ScopeAssumption
  <2>3. Slug[tree_meta(c, t).business_unit] \in Scopes /\ Slug[t] \in Scopes
    BY <2>1, ScopeAssumption DEF Units
  <2>4. LocalScope \in Scopes  BY ScopeAssumption
  <2> QED BY <1>2, <2>2, <2>3, <2>4 DEF scope_for
<1> QED BY <1>1, <1>2

LEMMA ReadableType == ASSUME NEW c \in Config PROVE readable_scopes(c) \subseteq Scopes
<1>1. CorpusTrees(c) \subseteq Trees
  <2>1. DOMAIN c.trees \subseteq Trees  BY DEF Config
  <2>2. ASSUME NEW i \in DOMAIN c.engagements PROVE c.engagements[i].tree \in Trees
    <3>1. c.engagements \in Seq(Engagement)  BY DEF Config
    <3>2. i \in 1..Len(c.engagements)  BY <3>1, LenProperties
    <3>3. c.engagements[i] \in Engagement  BY <3>1, <3>2, ElementOfSeq
    <3> QED BY <3>3 DEF Engagement
  <2> QED BY <2>1, <2>2 DEF CorpusTrees, Registered
<1> QED BY <1>1, ScopeType DEF readable_scopes

(* What is resolved has the types of rows, lists and answers.                *)
LEMMA SaveType == ASSUME TypeOK, NEW c \in Config, Save(c) PROVE TypeOK'
<1>1. file' \in Config /\ edits' \in 0..MaxEdits
  <2>1. edits \in Nat /\ MaxEdits \in Nat  BY ScopeAssumption DEF TypeOK
  <2> QED BY <2>1 DEF TypeOK, Save
<1>0. \A r \in Row : Stale(r) \in Row
  BY DEF Stale, Row
<1>2. rows' \subseteq Row
  BY <1>0 DEF TypeOK, Save
<1>3. job' \in Row \cup {NoJob}
  <2>1. Stale(NoJob) = NoJob  BY DEF Stale, NoJob
  <2>2. job' = Stale(job) /\ job \in Row \cup {NoJob}  BY DEF TypeOK, Save
  <2> QED BY <1>0, <2>1, <2>2
<1>4. conn' \in [view : Views \cup {"none"}, list : SUBSET Scopes,
                 setting : SUBSET Scopes, fresh : BOOLEAN]
  BY DEF TypeOK, Save
<1>5. out' \in [by : {"none", "store", "sql"}, view : Views \cup {"none"},
                rows : SUBSET Row, fresh : BOOLEAN]
  BY DEF Save, NoAnswer
<1> QED BY <1>1, <1>2, <1>3, <1>4, <1>5 DEF TypeOK

LEMMA EditType ==
    ASSUME TypeOK,
           \/ \E m \in Modes : SetMode(m)
           \/ \E t \in Trees, m \in Metas : SetTree(t, m) \/ AddEngagement(t, m)
           \/ \E t \in Trees : DropTree(t)
           \/ \E i \in DOMAIN file.engagements : DropEngagement(i)
    PROVE  TypeOK'
<1> DEFINE Declared == UNION {[T -> Metas] : T \in SUBSET Trees}
<1>1. file.mode \in Modes /\ file.trees \in Declared /\ file.engagements \in Seq(Engagement)
  BY DEF TypeOK, Config
<1>2. PICK T \in SUBSET Trees : file.trees \in [T -> Metas]
  BY <1>1
<1>3. ASSUME NEW m \in Modes, SetMode(m) PROVE TypeOK'
  BY <1>1, <1>3, SaveType DEF SetMode, Config
<1>4. ASSUME NEW t \in Trees, NEW m \in Metas, SetTree(t, m) PROVE TypeOK'
  <2> DEFINE f == [u \in DOMAIN file.trees \cup {t} |-> IF u = t THEN m ELSE file.trees[u]]
  <2>1. f \in [T \cup {t} -> Metas]  BY <1>2
  <2>2. f \in Declared  BY <2>1
  <2> HIDE DEF f
  <2>3. [mode |-> file.mode, trees |-> f, engagements |-> file.engagements] \in Config
    BY <1>1, <2>2 DEF Config
  <2> QED BY <1>4, <2>3, SaveType DEF SetTree, f
<1>5. ASSUME NEW t \in Trees, NEW m \in Metas, AddEngagement(t, m) PROVE TypeOK'
  <2>1. [tree |-> t, meta |-> m] \in Engagement  BY DEF Engagement
  <2>2. Append(file.engagements, [tree |-> t, meta |-> m]) \in Seq(Engagement)
    BY <1>1, <2>1, AppendProperties
  <2> QED BY <1>1, <1>5, <2>2, SaveType DEF AddEngagement, Config
<1>6. ASSUME NEW t \in Trees, DropTree(t) PROVE TypeOK'
  <2> DEFINE f == [u \in DOMAIN file.trees \ {t} |-> file.trees[u]]
  <2>1. f \in [T \ {t} -> Metas]  BY <1>2
  <2>2. f \in Declared  BY <2>1
  <2> HIDE DEF f
  <2>3. [mode |-> file.mode, trees |-> f, engagements |-> file.engagements] \in Config
    BY <1>1, <2>2 DEF Config
  <2> QED BY <1>6, <2>3, SaveType DEF DropTree, f
<1>7. ASSUME NEW i \in DOMAIN file.engagements, DropEngagement(i) PROVE TypeOK'
  <2> DEFINE e == file.engagements
             g == [j \in 1..(Len(e) - 1) |-> IF j < i THEN e[j] ELSE e[j + 1]]
  <2>1. DOMAIN e = 1..Len(e) /\ Len(e) \in Nat /\ i \in 1..Len(e)
    BY <1>1, LenProperties
  <2>2. Len(e) - 1 \in Nat  BY <2>1
  <2>3. ASSUME NEW j \in 1..(Len(e) - 1)
        PROVE  e[j] \in Engagement /\ e[j + 1] \in Engagement
    <3>1. j \in 1..Len(e) /\ j + 1 \in 1..Len(e)  BY <2>1
    <3> QED BY <1>1, <3>1, ElementOfSeq
  <2>4. g \in [1..(Len(e) - 1) -> Engagement]  BY <2>3
  <2>5. g \in Seq(Engagement)  BY <2>2, <2>4, SeqDef
  <2> HIDE DEF g
  <2>6. [mode |-> file.mode, trees |-> file.trees, engagements |-> g] \in Config
    BY <1>1, <2>5 DEF Config
  <2> QED BY <1>7, <2>6, SaveType DEF DropEngagement, g
<1> QED BY <1>3, <1>4, <1>5, <1>6, <1>7

LEMMA UseType ==
    ASSUME TypeOK,
           \/ Ingest \/ QueryRows \/ QueryFails
           \/ \E t \in Trees : Resolve(t)
           \/ \E v \in Views : QueryBegin(v) \/ ReadView(v)
    PROVE  TypeOK'
<1> DEFINE Answers == [by : {"none", "store", "sql"}, view : Views \cup {"none"},
                       rows : SUBSET Row, fresh : BOOLEAN]
<1>1. file \in Config /\ rows \subseteq Row /\ NoAnswer \in Answers
  BY DEF TypeOK, NoAnswer
<1>2. Closed \in [view : Views \cup {"none"}, list : SUBSET Scopes,
                  setting : SUBSET Scopes, fresh : BOOLEAN]
  BY DEF Closed
<1>3. CASE Ingest
  BY <1>1, <1>3 DEF Ingest, TypeOK
<1>4. CASE QueryRows
  BY <1>1, <1>2, <1>4 DEF QueryRows, TypeOK, Selected
<1>5. CASE QueryFails
  BY <1>1, <1>2, <1>5 DEF QueryFails, TypeOK
<1>6. ASSUME NEW t \in Trees, Resolve(t) PROVE TypeOK'
  <2>1. scope_for(file, t) \in Scopes  BY <1>1, <1>6, ScopeType DEF Resolve
  <2>2. job' \in Row  BY <1>6, <2>1 DEF Resolve, Row
  <2> QED BY <1>1, <1>6, <2>2 DEF Resolve, TypeOK
<1>7. ASSUME NEW v \in Views, QueryBegin(v) PROVE TypeOK'
  <2>1. readable_scopes(file) \subseteq Scopes  BY <1>1, ReadableType
  <2> QED BY <1>1, <1>7, <2>1 DEF QueryBegin, TypeOK
<1>8. ASSUME NEW v \in Views, ReadView(v) PROVE TypeOK'
  BY <1>1, <1>8 DEF ReadView, TypeOK, Selected
<1> QED BY <1>3, <1>4, <1>5, <1>6, <1>7, <1>8

(* Whatever the operator writes, resolved scopes are scopes, and rows, lists *)
(* and answers keep their shapes (config.py, store.py).                      *)
THEOREM ScopeTypeCorrect == Spec => []TypeOK
<1>1. Init => TypeOK
  <2> SUFFICES ASSUME Init PROVE TypeOK
    OBVIOUS
  <2>1. <<>> \in Seq(Engagement)  BY EmptySeq
  <2>2. file \in Config  BY <2>1 DEF Init, FirstConfigs, Config
  <2>3. MaxEdits \in Nat  BY ScopeAssumption
  <2> QED BY <2>2, <2>3 DEF Init, TypeOK, NoJob, Closed, NoAnswer
<1>2. TypeOK /\ [Next]_vars => TypeOK'
  <2> SUFFICES ASSUME TypeOK, [Next]_vars PROVE TypeOK'
    OBVIOUS
  <2>1. CASE UNCHANGED vars  BY <2>1 DEF vars, TypeOK
  <2> QED BY <2>1, EditType, UseType DEF Next
<1> QED BY <1>1, <1>2, PTL DEF Spec

-----------------------------------------------------------------------------
(* The first engagement that names a tree is the only one that comes before  *)
(* every other.                                                              *)
LEMMA FirstIsOne ==
    ASSUME NEW c \in Config, NEW t, NEW f \in EngagementsOf(c, t),
           \A j \in EngagementsOf(c, t) : f <= j
    PROVE  f = CHOOSE i \in EngagementsOf(c, t) : \A j \in EngagementsOf(c, t) : i <= j
<1>1. c.engagements \in Seq(Engagement)  BY DEF Config
<1>2. EngagementsOf(c, t) \subseteq Nat
  BY <1>1, LenProperties DEF EngagementsOf
<1>3. ASSUME NEW i \in EngagementsOf(c, t), \A j \in EngagementsOf(c, t) : i <= j
      PROVE  i = f
  <2>1. i \in Nat /\ f \in Nat /\ i <= f /\ f <= i  BY <1>2, <1>3
  <2> QED BY <2>1
<1> QED BY <1>3

LEMMA FirstExists ==
    ASSUME NEW c \in Config, NEW t \in Registered(c), t \notin DOMAIN c.trees
    PROVE  \E f \in EngagementsOf(c, t) : \A j \in EngagementsOf(c, t) : f <= j
<1>1. c.engagements \in Seq(Engagement)  BY DEF Config
<1>2. EngagementsOf(c, t) \in SUBSET Nat /\ EngagementsOf(c, t) # {}
  BY <1>1, LenProperties DEF EngagementsOf, Registered
<1> QED BY <1>2, Least

(* What one more declaration may do: it registers at most the tree it names, *)
(* with the declaration m, and leaves every other tree's declaration alone.  *)
Registers(c, d, t, m) ==
    /\ d.mode = c.mode
    /\ Registered(d) = Registered(c) \cup {t}
    /\ \A u \in Registered(c) : tree_meta(d, u) = tree_meta(c, u)
    /\ t \notin Registered(c) => tree_meta(d, t) = m

(* An appended engagement comes after the one that declares its tree now.    *)
LEMMA AppendRegisters ==
    ASSUME NEW c \in Config, NEW t \in Trees, NEW m \in Metas, NEW d \in Config,
           d = [mode |-> c.mode, trees |-> c.trees,
                engagements |-> Append(c.engagements, [tree |-> t, meta |-> m])]
    PROVE  Registers(c, d, t, m)
<1> DEFINE e == c.engagements
           n == Len(e)
           x == [tree |-> t, meta |-> m]
<1>1. e \in Seq(Engagement) /\ x \in Engagement  BY DEF Config, Engagement
<1>2. n \in Nat /\ DOMAIN e = 1..n  BY <1>1, LenProperties
<1>3. /\ d.mode = c.mode /\ d.trees = c.trees /\ d.engagements = Append(e, x)
      /\ x.tree = t /\ x.meta = m
  OBVIOUS
<1>4. /\ Append(e, x) \in Seq(Engagement) /\ Len(Append(e, x)) = n + 1
      /\ \A i \in 1..n : Append(e, x)[i] = e[i]
      /\ Append(e, x)[n + 1] = x
  BY <1>1, AppendProperties
<1>5. DOMAIN Append(e, x) = 1..(n + 1)  BY <1>4, LenProperties
<1> HIDE DEF e, n, x
<1>6. DOMAIN d.engagements = 1..n \cup {n + 1} /\ n + 1 \notin 1..n
  BY <1>2, <1>3, <1>5
<1>7. /\ \A i \in 1..n : d.engagements[i] = c.engagements[i]
      /\ d.engagements[n + 1] = x
  BY <1>3, <1>4 DEF e
<1>8. DOMAIN c.engagements = 1..n  BY <1>2 DEF e
<1>9. Registered(d) = Registered(c) \cup {t}
  BY <1>3, <1>6, <1>7, <1>8 DEF Registered
<1>10. \A u : EngagementsOf(d, u) = EngagementsOf(c, u) \cup (IF u = t THEN {n + 1} ELSE {})
  BY <1>3, <1>6, <1>7, <1>8 DEF EngagementsOf
<1>11. ASSUME NEW u \in Registered(c) PROVE tree_meta(d, u) = tree_meta(c, u)
  <2>1. CASE u \in DOMAIN c.trees
    BY <2>1, <1>3 DEF tree_meta
  <2>2. CASE u \notin DOMAIN c.trees
    <3>1. PICK f \in EngagementsOf(c, u) : \A j \in EngagementsOf(c, u) : f <= j
      BY <2>2, FirstExists
    <3>2. f \in 1..n  BY <1>8 DEF EngagementsOf
    <3>3. f <= n + 1  BY <3>2, <1>2
    <3>4. f \in EngagementsOf(d, u) /\ \A j \in EngagementsOf(d, u) : f <= j
      BY <3>1, <3>3, <1>10
    <3>5. /\ tree_meta(c, u) = c.engagements[f].meta
      BY <3>1, <2>2, FirstIsOne DEF tree_meta
    <3>6. tree_meta(d, u) = d.engagements[f].meta
      BY <3>4, <2>2, <1>3, FirstIsOne DEF tree_meta
    <3> QED BY <3>2, <3>5, <3>6, <1>7
  <2> QED BY <2>1, <2>2
<1>12. ASSUME t \notin Registered(c) PROVE tree_meta(d, t) = m
  <2>1. EngagementsOf(c, t) = {} /\ t \notin DOMAIN d.trees
    BY <1>12, <1>3 DEF Registered, EngagementsOf
  <2>2. EngagementsOf(d, t) = {n + 1}  BY <2>1, <1>10
  <2>3. n + 1 \in EngagementsOf(d, t) /\ \A j \in EngagementsOf(d, t) : n + 1 <= j
    <3>1. n + 1 <= n + 1  BY <1>2
    <3> QED BY <2>2, <3>1
  <2>4. tree_meta(d, t) = d.engagements[n + 1].meta
    BY <2>1, <2>3, FirstIsOne DEF tree_meta
  <2> QED BY <2>4, <1>7, <1>3 DEF x
<1> QED BY <1>3, <1>9, <1>11, <1>12 DEF Registers

(* A tree declared under `trees` that nothing registered before.             *)
LEMMA SetRegisters ==
    ASSUME NEW c \in Config, NEW t \in Trees, NEW m \in Metas, t \notin Registered(c),
           NEW d \in Config,
           d = [mode |-> c.mode,
                trees |-> [u \in DOMAIN c.trees \cup {t} |-> IF u = t THEN m ELSE c.trees[u]],
                engagements |-> c.engagements]
    PROVE  Registers(c, d, t, m)
<1>1. /\ d.mode = c.mode /\ d.engagements = c.engagements
      /\ DOMAIN d.trees = DOMAIN c.trees \cup {t}
      /\ d.trees[t] = m
      /\ \A u \in DOMAIN c.trees : u # t => d.trees[u] = c.trees[u]
  OBVIOUS
<1>2. Registered(d) = Registered(c) \cup {t}
  BY <1>1 DEF Registered
<1>3. \A u : EngagementsOf(d, u) = EngagementsOf(c, u)
  BY <1>1 DEF EngagementsOf
<1>4. ASSUME NEW u \in Registered(c) PROVE tree_meta(d, u) = tree_meta(c, u)
  <2>1. u # t /\ t \notin DOMAIN c.trees  BY DEF Registered
  <2>2. CASE u \in DOMAIN c.trees
    BY <2>1, <2>2, <1>1 DEF tree_meta
  <2>3. CASE u \notin DOMAIN c.trees
    <3>1. u \notin DOMAIN d.trees /\ EngagementsOf(d, u) = EngagementsOf(c, u)
      BY <2>1, <2>3, <1>1, <1>3
    <3>2. PICK f \in EngagementsOf(c, u) : \A j \in EngagementsOf(c, u) : f <= j
      BY <2>3, FirstExists
    <3>3. tree_meta(c, u) = c.engagements[f].meta
      BY <3>2, <2>3, FirstIsOne DEF tree_meta
    <3>4. tree_meta(d, u) = d.engagements[f].meta
      BY <3>1, <3>2, FirstIsOne DEF tree_meta
    <3> QED BY <3>3, <3>4, <1>1
  <2> QED BY <2>2, <2>3
<1>5. tree_meta(d, t) = m
  BY <1>1 DEF tree_meta
<1> QED BY <1>1, <1>2, <1>4, <1>5 DEF Registers

(* A tree's scope is its own declaration's and the mode's; a new tree has one *)
(* as soon as mode explicit is given the scope_id it asks for.                *)
LEMMA RegisteringKeeps ==
    ASSUME NEW c \in Config, NEW d \in Config, NEW t \in Trees, NEW m \in Metas,
           Registers(c, d, t, m), c.mode \in SCOPE_MODES,
           c.mode = "explicit" => m.scope_id \notin {NoScope, EmptyScope},
           readable_scopes(c) # {}
    PROVE  readable_scopes(c) \subseteq readable_scopes(d)
<1>1. \A u \in Registered(c) : /\ u \in Registered(d)
                               /\ tree_meta(d, u) = tree_meta(c, u)
                               /\ scope_for(d, u) = scope_for(c, u)
  BY DEF Registers, scope_for
<1>2. CorpusTrees(c) \subseteq CorpusTrees(d)
  BY <1>1 DEF CorpusTrees
<1>3. ASSUME t \notin Registered(c) PROVE scope_for(d, t) # NoScope
  <2>1. t \in Registered(d) /\ tree_meta(d, t) = m /\ d.mode = c.mode
    BY <1>3 DEF Registers
  <2>2. /\ LocalScope # NoScope /\ Slug[t] # NoScope /\ Slug[m.business_unit] # NoScope
    BY ScopeAssumption DEF Units
  <2> QED BY <2>1, <2>2 DEF scope_for, SCOPE_MODES
<1>4. ASSUME NEW u \in CorpusTrees(d) PROVE scope_for(d, u) # NoScope
  <2>1. CASE u \in Registered(c)
    <3>1. u \in CorpusTrees(c)  BY <2>1, <1>1 DEF CorpusTrees
    <3> QED BY <3>1, <2>1, <1>1, ReadableScopes
  <2>2. CASE u \notin Registered(c)
    <3>1. u = t  BY <2>2 DEF CorpusTrees, Registers
    <3> QED BY <3>1, <2>2, <1>3
  <2> QED BY <2>1, <2>2
<1>5. readable_scopes(d) = {scope_for(d, u) : u \in CorpusTrees(d)}
  BY <1>4 DEF readable_scopes
<1>6. readable_scopes(c) = {scope_for(c, u) : u \in CorpusTrees(c)}
  BY ReadableScopes
<1>7. \A u \in CorpusTrees(c) : scope_for(d, u) = scope_for(c, u)
  BY <1>1 DEF CorpusTrees
<1> QED BY <1>2, <1>5, <1>6, <1>7

(* Registering a tree or an engagement, in any mode and beside any other      *)
(* declarations, never takes a readable scope away (CorpusConfig).            *)
THEOREM RegisteringAdds == Spec => RegisteringOnlyAdds
<1> DEFINE Adds(t, m) ==
      /\ \/ t \notin Registered(file) /\ SetTree(t, m)
         \/ AddEngagement(t, m)
      /\ Loads(file) /\ Loads(file')
      /\ file.mode = "explicit" => m.scope_id \notin {NoScope, EmptyScope}
<1>1. ASSUME TypeOK, TypeOK', NEW t \in Trees, NEW m \in Metas, Adds(t, m),
             NEW r \in rows, r.scope \in readable_scopes(file)
      PROVE  r.scope \in readable_scopes(file')
  <2>1. file \in Config /\ file' \in Config  BY <1>1 DEF TypeOK
  <2>2. Registers(file, file', t, m)
    <3>1. CASE t \notin Registered(file) /\ SetTree(t, m)
      BY <3>1, <2>1, SetRegisters DEF SetTree, Save
    <3>2. CASE AddEngagement(t, m)
      BY <3>2, <2>1, AppendRegisters DEF AddEngagement, Save
    <3> QED BY <1>1, <3>1, <3>2
  <2>3. file.mode \in SCOPE_MODES /\ readable_scopes(file) # {}
    BY <1>1 DEF Loads
  <2>4. readable_scopes(file) \subseteq readable_scopes(file')
    BY <1>1, <2>1, <2>2, <2>3, RegisteringKeeps
  <2> QED BY <1>1, <2>4
<1>2. TypeOK /\ TypeOK' =>
        \A t \in Trees, m \in Metas : Adds(t, m)
            => \A r \in rows : r.scope \in readable_scopes(file)
                                   => r.scope \in readable_scopes(file')
  BY <1>1
<1> QED BY <1>2, ScopeTypeCorrect, PTL DEF RegisteringOnlyAdds

-----------------------------------------------------------------------------
(***************************************************************************)
(* The bytes of binding_id determine its arguments. The argument is one of  *)
(* prefixes: a field that holds no NUL and ends with one can be cut off the *)
(* front of a buffer in one way only (CutText), so two buffers that agree   *)
(* are peeled in parallel, field after field.                               *)
(***************************************************************************)

-----------------------------------------------------------------------------
(* Cutting a field off the front of a byte sequence.                        *)

(* Byte sequences and their concatenation, for lemmas that must not look    *)
(* inside them.                                                             *)
Bytes == Seq(Byte)
Cat(s, t) == s \o t

NulFree(s) == \A i \in 1..Len(s) : s[i] # 0

(* A buffer that holds the text v, a NUL and then s.                        *)
LaidOut(L, v, s) ==
  /\ \A i \in 1..Len(v) : L[i] = v[i]
  /\ L[Len(v) + 1] = 0
  /\ Len(L) = Len(v) + 1 + Len(s)
  /\ \A i \in 1..Len(s) : L[Len(v) + 1 + i] = s[i]

(* Appending lays the bytes out that way.                                   *)
LEMMA Layout ==
  ASSUME NEW v \in Seq(Byte), NEW s \in Seq(Byte), NEW L, L = (v \o << 0 >>) \o s
  PROVE  LaidOut(L, v, s)
<1> DEFINE n == Len(v)
           m == Len(s)
           h == v \o <<0>>
<1>0. n \in Nat /\ m \in Nat  BY LenProperties
<1>1. h \in Seq(Byte) /\ Len(h) = n + 1
      /\ (\A i \in 1..n : h[i] = v[i])
      /\ h[n + 1] = 0
  BY DEF Byte
<1> HIDE DEF n, m, h
<1>2. L = h \o s  BY DEF h
<1>3. /\ Len(L) = n + 1 + m
      /\ \A i \in 1..n + 1 + m : L[i] = IF i <= n + 1 THEN h[i] ELSE s[i - (n + 1)]
  <2>1. /\ Len(h \o s) = Len(h) + Len(s)
        /\ \A i \in 1..Len(h) + Len(s) :
             (h \o s)[i] = IF i <= Len(h) THEN h[i] ELSE s[i - Len(h)]
    BY <1>1, ConcatProperties
  <2>2. Len(h) = n + 1 /\ Len(s) = m  BY <1>1 DEF m
  <2> QED BY <1>2, <2>1, <2>2
<1>4. \A i \in 1..n : L[i] = v[i]
  BY <1>0, <1>1, <1>3
<1>5. L[n + 1] = 0
  BY <1>0, <1>1, <1>3
<1>6. ASSUME NEW i \in 1..m PROVE L[n + 1 + i] = s[i]
  <2>1. n + 1 + i \in 1..n + 1 + m /\ ~(n + 1 + i <= n + 1) /\ (n + 1 + i) - (n + 1) = i
    BY <1>0
  <2> QED BY <2>1, <1>3
<1> QED BY <1>3, <1>4, <1>5, <1>6 DEF n, m, LaidOut

(* Texts that end with NUL and hold no other are cut off in one way.        *)
LEMMA CutText ==
  ASSUME NEW v \in Seq(Byte), NEW w \in Seq(Byte), NulFree(v), NulFree(w),
         NEW s \in Seq(Byte), NEW t \in Seq(Byte),
         NEW L, LaidOut(L, v, s), LaidOut(L, w, t)
  PROVE  v = w /\ s = t
<1>2. Len(v) \in Nat /\ Len(w) \in Nat /\ Len(s) \in Nat /\ Len(t) \in Nat
  BY LenProperties
<1>3. LaidOut(L, v, s)  OBVIOUS
<1>4. LaidOut(L, w, t)  OBVIOUS
<1>5. Len(v) = Len(w)
  <2>1. ASSUME Len(v) < Len(w) PROVE FALSE
    <3>1. Len(v) + 1 \in 1..Len(w)  BY <2>1, <1>2
    <3> QED BY <3>1, <1>3, <1>4 DEF NulFree, LaidOut
  <2>2. ASSUME Len(w) < Len(v) PROVE FALSE
    <3>1. Len(w) + 1 \in 1..Len(v)  BY <2>2, <1>2
    <3> QED BY <3>1, <1>3, <1>4 DEF NulFree, LaidOut
  <2> QED BY <2>1, <2>2, <1>2
<1>6. v = w
  <2>1. \A i \in 1..Len(v) : v[i] = w[i]  BY <1>3, <1>4, <1>5 DEF LaidOut
  <2> QED BY <2>1, <1>5, SeqEqual
<1>7. Len(s) = Len(t)  BY <1>2, <1>3, <1>4, <1>5 DEF LaidOut
<1>8. \A i \in 1..Len(s) : s[i] = t[i]  BY <1>3, <1>4, <1>5, <1>7 DEF LaidOut
<1>9. s = t  BY <1>7, <1>8, SeqEqual
<1> QED BY <1>6, <1>9

(* One leading byte is cut off in one way.                                  *)
LEMMA CutByte ==
  ASSUME NEW a \in Byte, NEW b \in Byte, NEW s \in Seq(Byte), NEW t \in Seq(Byte),
         <<a>> \o s = <<b>> \o t
  PROVE  a = b /\ s = t
<1>1. <<a>> \in Seq(Byte) /\ <<b>> \in Seq(Byte) /\ Len(<<a>>) = 1 /\ Len(<<b>>) = 1
  OBVIOUS
<1>2. /\ Len(<<a>> \o s) = 1 + Len(s)
      /\ \A i \in 1..1 + Len(s) : (<<a>> \o s)[i] = IF i <= 1 THEN <<a>>[i] ELSE s[i - 1]
  BY <1>1, ConcatProperties
<1>3. /\ Len(<<b>> \o t) = 1 + Len(t)
      /\ \A i \in 1..1 + Len(t) : (<<b>> \o t)[i] = IF i <= 1 THEN <<b>>[i] ELSE t[i - 1]
  BY <1>1, ConcatProperties
<1>4. Len(s) = Len(t)  BY <1>2, <1>3, LenProperties
<1>5. a = b
  <2>1. 1 \in 1..1 + Len(s) /\ 1 \in 1..1 + Len(t)  BY LenProperties
  <2>2. (<<a>> \o s)[1] = a /\ (<<b>> \o t)[1] = b  BY <1>2, <1>3, <2>1
  <2> QED BY <2>2
<1>6. \A i \in 1..Len(s) : s[i] = t[i]
  <2> SUFFICES ASSUME NEW i \in 1..Len(s) PROVE s[i] = t[i]
    OBVIOUS
  <2>1. i + 1 \in 1..1 + Len(s) /\ i + 1 \in 1..1 + Len(t) /\ ~(i + 1 <= 1)
    BY <1>4, LenProperties
  <2>2. (<<a>> \o s)[i + 1] = s[i] /\ (<<b>> \o t)[i + 1] = t[i]
    BY <1>2, <1>3, <2>1
  <2> QED BY <2>2
<1> QED BY <1>4, <1>5, <1>6, SeqEqual

-----------------------------------------------------------------------------
(* Cutting one field's bytes off.                                           *)

(* What Utf8 yields for an identifier.                                      *)
LEMMA IdentifierBytes ==
  ASSUME NEW v \in Identifier
  PROVE  Utf8[v] \in Seq(Byte) /\ NulFree(Utf8[v])
BY TextAssumption DEF Identifier, NulFree

(* The bytes of every field are bytes.                                      *)
LEMMA PieceType ==
  /\ \A v \in Identifier : RequiredBytes(v) \in Seq(Byte)
  /\ \A v \in Identifier \cup {None} : OptionalBytes(v) \in Seq(Byte) /\ RoleBytes(v) \in Seq(Byte)
<1>1. <<0>> \in Seq(Byte) /\ <<1>> \in Seq(Byte) /\ <<>> \in Seq(Byte)
  BY DEF Byte
<1>2. ASSUME NEW v \in Identifier
      PROVE  Utf8[v] \o <<0>> \in Seq(Byte) /\ (<<1>> \o Utf8[v]) \o <<0>> \in Seq(Byte)
  BY <1>1, IdentifierBytes, ConcatProperties
<1> QED BY <1>1, <1>2 DEF RequiredBytes, OptionalBytes, RoleBytes

(* A required field is cut off in one way.                                  *)
LEMMA CutRequired ==
  ASSUME NEW v \in Identifier, NEW w \in Identifier,
         NEW s \in Bytes, NEW t \in Bytes,
         Cat(RequiredBytes(v), s) = Cat(RequiredBytes(w), t)
  PROVE  v = w /\ s = t
<1> DEFINE L == RequiredBytes(v) \o s
           x == Utf8[v]
           y == Utf8[w]
<1>0. s \in Seq(Byte) /\ t \in Seq(Byte)  BY DEF Bytes
<1>1. L = (x \o <<0>>) \o s /\ L = (y \o <<0>>) \o t  BY DEF RequiredBytes, Cat
<1>2. /\ x \in Seq(Byte) /\ NulFree(x) /\ y \in Seq(Byte) /\ NulFree(y)
      /\ (x = y => v = w)
  BY IdentifierBytes, TextAssumption DEF Identifier
<1> HIDE DEF L, x, y
<1>3. x = y /\ s = t
  <2>1. LaidOut(L, x, s)  BY <1>0, <1>1, <1>2, Layout
  <2>2. LaidOut(L, y, t)  BY <1>0, <1>1, <1>2, Layout
  <2> QED BY <2>1, <2>2, <1>0, <1>2, CutText
<1> QED BY <1>2, <1>3

(* An optional field that is there: presence byte, text, NUL.               *)
LEMMA Present ==
  ASSUME NEW v \in Identifier, NEW s \in Seq(Byte)
  PROVE  /\ ((<<1>> \o Utf8[v]) \o <<0>>) \o s = <<1>> \o (RequiredBytes(v) \o s)
         /\ RequiredBytes(v) \o s \in Seq(Byte)
<1> DEFINE x == Utf8[v]
<1>1. x \in Seq(Byte)  BY IdentifierBytes
<1>2. <<0>> \in Seq(Byte) /\ <<1>> \in Seq(Byte)  BY DEF Byte
<1> HIDE DEF x
<1>3. (<<1>> \o x) \o <<0>> = <<1>> \o (x \o <<0>>)
  BY <1>1, <1>2, ConcatAssociative
<1>4. x \o <<0>> \in Seq(Byte)  BY <1>1, <1>2, ConcatProperties
<1>5. (<<1>> \o (x \o <<0>>)) \o s = <<1>> \o ((x \o <<0>>) \o s)
  BY <1>2, <1>4, ConcatAssociative
<1>6. (x \o <<0>>) \o s \in Seq(Byte)  BY <1>4, ConcatProperties
<1> QED BY <1>3, <1>5, <1>6 DEF x, RequiredBytes

(* An optional field is cut off in one way, absent or present.              *)
LEMMA CutOptional ==
  ASSUME NEW v \in Identifier \cup {None}, NEW w \in Identifier \cup {None},
         NEW s \in Bytes, NEW t \in Bytes,
         Cat(OptionalBytes(v), s) = Cat(OptionalBytes(w), t)
  PROVE  v = w /\ s = t
<1>a. s \in Seq(Byte) /\ t \in Seq(Byte) /\ OptionalBytes(v) \o s = OptionalBytes(w) \o t
  BY DEF Bytes, Cat
<1>0. None \notin Identifier /\ 0 \in Byte /\ 1 \in Byte
  BY TextAssumption DEF Identifier, Byte
<1>1. CASE v = None /\ w = None
  <2>1. <<0>> \o s = <<0>> \o t  BY <1>a, <1>1 DEF OptionalBytes
  <2> QED BY <1>a, <2>1, <1>0, <1>1, CutByte
<1>2. CASE v = None /\ w # None
  <2>1. <<0>> \o s = <<1>> \o (RequiredBytes(w) \o t) /\ RequiredBytes(w) \o t \in Seq(Byte)
    BY <1>2, <1>a, Present DEF OptionalBytes
  <2>2. 0 = 1  BY <1>a, <2>1, <1>0, CutByte
  <2> QED BY <2>2
<1>3. CASE v # None /\ w = None
  <2>1. <<1>> \o (RequiredBytes(v) \o s) = <<0>> \o t /\ RequiredBytes(v) \o s \in Seq(Byte)
    BY <1>3, <1>a, Present DEF OptionalBytes
  <2>2. 1 = 0  BY <1>a, <2>1, <1>0, CutByte
  <2> QED BY <2>2
<1>4. CASE v # None /\ w # None
  <2>1. /\ <<1>> \o (RequiredBytes(v) \o s) = <<1>> \o (RequiredBytes(w) \o t)
        /\ RequiredBytes(v) \o s \in Seq(Byte) /\ RequiredBytes(w) \o t \in Seq(Byte)
    BY <1>4, <1>a, Present DEF OptionalBytes
  <2>2. RequiredBytes(v) \o s = RequiredBytes(w) \o t
    <3> DEFINE p == RequiredBytes(v) \o s
               q == RequiredBytes(w) \o t
    <3>1. p \in Seq(Byte) /\ q \in Seq(Byte) /\ <<1>> \o p = <<1>> \o q  BY <2>1
    <3> HIDE DEF p, q
    <3>2. p = q  BY <3>1, <1>0, CutByte
    <3> QED BY <3>2 DEF p, q
  <2>3. Cat(RequiredBytes(v), s) = Cat(RequiredBytes(w), t)  BY <2>2 DEF Cat
  <2> QED BY <2>3, <1>4, CutRequired
<1> QED BY <1>1, <1>2, <1>3, <1>4

(* The bytes after the last optional field tell the role.                   *)
LEMMA CutRole ==
  ASSUME NEW v \in Identifier \cup {None}, NEW w \in Identifier \cup {None},
         RoleBytes(v) = RoleBytes(w)
  PROVE  v = w
<1>1. \A u \in Identifier : /\ RoleBytes(u) = OptionalBytes(u)
                            /\ RoleBytes(u) # <<>>
  <2> SUFFICES ASSUME NEW u \in Identifier
               PROVE  RoleBytes(u) = OptionalBytes(u) /\ RoleBytes(u) # <<>>
    OBVIOUS
  <2>1. u # None  BY TextAssumption DEF Identifier
  <2>2. RoleBytes(u) = (<<1>> \o Utf8[u]) \o <<0>>  BY <2>1 DEF RoleBytes
  <2>3. Utf8[u] \in Seq(Byte) /\ <<1>> \in Seq(Byte) /\ <<0>> \in Seq(Byte) /\ <<0>> # <<>>
    BY IdentifierBytes DEF Byte
  <2>4. (<<1>> \o Utf8[u]) \o <<0>> # <<>>
    BY <2>3, ConcatEqualIffEmpty, ConcatProperties
  <2> QED BY <2>1, <2>2, <2>4 DEF RoleBytes, OptionalBytes
<1>2. CASE v = None \/ w = None
  BY <1>1, <1>2 DEF RoleBytes
<1>3. CASE v # None /\ w # None
  <2>1. /\ OptionalBytes(v) = OptionalBytes(w)
        /\ OptionalBytes(v) \in Seq(Byte) /\ OptionalBytes(w) \in Seq(Byte)
    BY <1>1, <1>3, PieceType
  <2>2. Cat(OptionalBytes(v), <<>>) = Cat(OptionalBytes(w), <<>>) /\ <<>> \in Bytes
    BY <2>1 DEF Cat, Bytes
  <2> QED BY <2>2, CutOptional
<1> QED BY <1>2, <1>3

-----------------------------------------------------------------------------
(* The buffer after each field.                                             *)

B1(c) == Cat(BINDING_DOMAIN, RequiredBytes(c.artifact_digest))
B2(c) == Cat(B1(c), RequiredBytes(c.artifact_name))
B3(c) == Cat(B2(c), RequiredBytes(c.scope_id))
B4(c) == Cat(B3(c), OptionalBytes(c.subject_id))
B5(c) == Cat(B4(c), OptionalBytes(c.run_id))
B6(c) == Cat(B5(c), OptionalBytes(c.layer_id))
B7(c) == Cat(B6(c), RoleBytes(c.role))

(* Every field of the context is one _identifier_bytes accepts.             *)
Clean(c) ==
  /\ c.artifact_digest \in Identifier /\ c.artifact_name \in Identifier
  /\ c.scope_id \in Identifier
  /\ c.subject_id \in Identifier \cup {None} /\ c.run_id \in Identifier \cup {None}
  /\ c.layer_id \in Identifier \cup {None} /\ c.role \in Identifier \cup {None}

(* The domain prefix.                                                       *)
LEMMA DomainType == BINDING_DOMAIN \in Bytes
BY DEF BINDING_DOMAIN, Bytes, Byte

(* What is used of concatenation.                                           *)
LEMMA CatFacts ==
  /\ \A s, t \in Bytes : Cat(s, t) \in Bytes
  /\ \A g, p, s \in Bytes : Cat(Cat(g, p), s) = Cat(g, Cat(p, s))
  /\ \A s, t \in Bytes : Cat(BINDING_DOMAIN, s) = Cat(BINDING_DOMAIN, t) => s = t
<1>1. \A s, t \in Bytes : Cat(s, t) \in Bytes  BY ConcatProperties DEF Cat, Bytes
<1>2. \A g, p, s \in Bytes : Cat(Cat(g, p), s) = Cat(g, Cat(p, s))
  BY ConcatAssociative DEF Cat, Bytes
<1>3. \A g, s, t \in Bytes : Cat(g, s) = Cat(g, t) => s = t
  BY ConcatSimplifications, Zenon DEF Cat, Bytes
<1> QED BY <1>1, <1>2, <1>3, DomainType

(* What is used of the fields' bytes.                                       *)
LEMMA PieceFacts ==
  /\ \A v \in Identifier : RequiredBytes(v) \in Bytes
  /\ \A v \in Identifier \cup {None} : OptionalBytes(v) \in Bytes /\ RoleBytes(v) \in Bytes
BY PieceType DEF Bytes

(* Buffers are bytes.                                                       *)
LEMMA BufferType ==
  ASSUME NEW c, Clean(c)
  PROVE  /\ B1(c) \in Bytes /\ B2(c) \in Bytes /\ B3(c) \in Bytes
         /\ B4(c) \in Bytes /\ B5(c) \in Bytes /\ B6(c) \in Bytes
<1>1. B1(c) \in Bytes  BY DomainType, PieceFacts, CatFacts DEF B1, Clean
<1>2. B2(c) \in Bytes  BY <1>1, PieceFacts, CatFacts DEF B2, Clean
<1>3. B3(c) \in Bytes  BY <1>2, PieceFacts, CatFacts DEF B3, Clean
<1>4. B4(c) \in Bytes  BY <1>3, PieceFacts, CatFacts DEF B4, Clean
<1>5. B5(c) \in Bytes  BY <1>4, PieceFacts, CatFacts DEF B5, Clean
<1>6. B6(c) \in Bytes  BY <1>5, PieceFacts, CatFacts DEF B6, Clean
<1> QED BY <1>1, <1>2, <1>3, <1>4, <1>5, <1>6

(* Six fields are cut off in one way: peel them from the outside in, the    *)
(* remainder growing by one field's bytes each time.                        *)
LEMMA CutSix ==
  ASSUME NEW a, NEW b, Clean(a), Clean(b), NEW s6 \in Bytes, NEW t6 \in Bytes,
         Cat(B6(a), s6) = Cat(B6(b), t6)
  PROVE  /\ a.artifact_digest = b.artifact_digest /\ a.artifact_name = b.artifact_name
         /\ a.scope_id = b.scope_id /\ a.subject_id = b.subject_id
         /\ a.run_id = b.run_id /\ a.layer_id = b.layer_id
         /\ s6 = t6
<1> DEFINE s5 == Cat(OptionalBytes(a.layer_id), s6)
           t5 == Cat(OptionalBytes(b.layer_id), t6)
           s4 == Cat(OptionalBytes(a.run_id), s5)
           t4 == Cat(OptionalBytes(b.run_id), t5)
           s3 == Cat(OptionalBytes(a.subject_id), s4)
           t3 == Cat(OptionalBytes(b.subject_id), t4)
           s2 == Cat(RequiredBytes(a.scope_id), s3)
           t2 == Cat(RequiredBytes(b.scope_id), t3)
           s1 == Cat(RequiredBytes(a.artifact_name), s2)
           t1 == Cat(RequiredBytes(b.artifact_name), t2)
           s0 == Cat(RequiredBytes(a.artifact_digest), s1)
           t0 == Cat(RequiredBytes(b.artifact_digest), t1)
<1> HIDE DEF s5, t5, s4, t4, s3, t3, s2, t2, s1, t1, s0, t0
<1>p. /\ RequiredBytes(a.artifact_digest) \in Bytes /\ RequiredBytes(b.artifact_digest) \in Bytes
      /\ RequiredBytes(a.artifact_name) \in Bytes /\ RequiredBytes(b.artifact_name) \in Bytes
      /\ RequiredBytes(a.scope_id) \in Bytes /\ RequiredBytes(b.scope_id) \in Bytes
      /\ OptionalBytes(a.subject_id) \in Bytes /\ OptionalBytes(b.subject_id) \in Bytes
      /\ OptionalBytes(a.run_id) \in Bytes /\ OptionalBytes(b.run_id) \in Bytes
      /\ OptionalBytes(a.layer_id) \in Bytes /\ OptionalBytes(b.layer_id) \in Bytes
  BY PieceFacts DEF Clean
<1>q. /\ B1(a) \in Bytes /\ B2(a) \in Bytes /\ B3(a) \in Bytes /\ B4(a) \in Bytes /\ B5(a) \in Bytes
      /\ B1(b) \in Bytes /\ B2(b) \in Bytes /\ B3(b) \in Bytes /\ B4(b) \in Bytes /\ B5(b) \in Bytes
  BY BufferType
<1>5. Cat(B5(a), s5) = Cat(B5(b), t5) /\ s5 \in Bytes /\ t5 \in Bytes
  <2>1. s5 \in Bytes /\ t5 \in Bytes  BY <1>p, CatFacts DEF s5, t5
  <2>2. Cat(B6(a), s6) = Cat(B5(a), s5)  BY <1>p, <1>q, CatFacts DEF B6, s5
  <2>3. Cat(B6(b), t6) = Cat(B5(b), t5)  BY <1>p, <1>q, CatFacts DEF B6, t5
  <2> QED BY <2>1, <2>2, <2>3
<1>4. Cat(B4(a), s4) = Cat(B4(b), t4) /\ s4 \in Bytes /\ t4 \in Bytes
  <2>1. s4 \in Bytes /\ t4 \in Bytes  BY <1>5, <1>p, CatFacts DEF s4, t4
  <2>2. Cat(B5(a), s5) = Cat(B4(a), s4)  BY <1>5, <1>p, <1>q, CatFacts DEF B5, s4
  <2>3. Cat(B5(b), t5) = Cat(B4(b), t4)  BY <1>5, <1>p, <1>q, CatFacts DEF B5, t4
  <2> QED BY <1>5, <2>1, <2>2, <2>3
<1>3. Cat(B3(a), s3) = Cat(B3(b), t3) /\ s3 \in Bytes /\ t3 \in Bytes
  <2>1. s3 \in Bytes /\ t3 \in Bytes  BY <1>4, <1>p, CatFacts DEF s3, t3
  <2>2. Cat(B4(a), s4) = Cat(B3(a), s3)  BY <1>4, <1>p, <1>q, CatFacts DEF B4, s3
  <2>3. Cat(B4(b), t4) = Cat(B3(b), t3)  BY <1>4, <1>p, <1>q, CatFacts DEF B4, t3
  <2> QED BY <1>4, <2>1, <2>2, <2>3
<1>2. Cat(B2(a), s2) = Cat(B2(b), t2) /\ s2 \in Bytes /\ t2 \in Bytes
  <2>1. s2 \in Bytes /\ t2 \in Bytes  BY <1>3, <1>p, CatFacts DEF s2, t2
  <2>2. Cat(B3(a), s3) = Cat(B2(a), s2)  BY <1>3, <1>p, <1>q, CatFacts DEF B3, s2
  <2>3. Cat(B3(b), t3) = Cat(B2(b), t2)  BY <1>3, <1>p, <1>q, CatFacts DEF B3, t2
  <2> QED BY <1>3, <2>1, <2>2, <2>3
<1>1. Cat(B1(a), s1) = Cat(B1(b), t1) /\ s1 \in Bytes /\ t1 \in Bytes
  <2>1. s1 \in Bytes /\ t1 \in Bytes  BY <1>2, <1>p, CatFacts DEF s1, t1
  <2>2. Cat(B2(a), s2) = Cat(B1(a), s1)  BY <1>2, <1>p, <1>q, CatFacts DEF B2, s1
  <2>3. Cat(B2(b), t2) = Cat(B1(b), t1)  BY <1>2, <1>p, <1>q, CatFacts DEF B2, t1
  <2> QED BY <1>2, <2>1, <2>2, <2>3
<1>0. s0 = t0
  <2>1. Cat(BINDING_DOMAIN, s0) = Cat(BINDING_DOMAIN, t0) /\ s0 \in Bytes /\ t0 \in Bytes
    BY <1>1, DomainType, <1>p, CatFacts DEF B1, s0, t0
  <2> QED BY <2>1, CatFacts
<1>6. a.artifact_digest = b.artifact_digest /\ s1 = t1
  BY <1>0, <1>1, CutRequired DEF s0, t0, Clean
<1>7. a.artifact_name = b.artifact_name /\ s2 = t2
  BY <1>6, <1>2, CutRequired DEF s1, t1, Clean
<1>8. a.scope_id = b.scope_id /\ s3 = t3
  BY <1>7, <1>3, CutRequired DEF s2, t2, Clean
<1>9. a.subject_id = b.subject_id /\ s4 = t4
  BY <1>8, <1>4, CutOptional DEF s3, t3, Clean
<1>10. a.run_id = b.run_id /\ s5 = t5
  BY <1>9, <1>5, CutOptional DEF s4, t4, Clean
<1>11. a.layer_id = b.layer_id /\ s6 = t6
  BY <1>10, CutOptional DEF s5, t5, Clean
<1> QED BY <1>6, <1>7, <1>8, <1>9, <1>10, <1>11

(* The whole buffer determines the context.                                 *)
LEMMA Injective ==
  ASSUME NEW a \in Contexts, NEW b \in Contexts, Clean(a), Clean(b), B7(a) = B7(b)
  PROVE  a = b
<1>1. RoleBytes(a.role) \in Bytes /\ RoleBytes(b.role) \in Bytes
  BY PieceFacts DEF Clean
<1>2. Cat(B6(a), RoleBytes(a.role)) = Cat(B6(b), RoleBytes(b.role))
  BY DEF B7
<1>3. /\ a.artifact_digest = b.artifact_digest /\ a.artifact_name = b.artifact_name
      /\ a.scope_id = b.scope_id /\ a.subject_id = b.subject_id
      /\ a.run_id = b.run_id /\ a.layer_id = b.layer_id
      /\ RoleBytes(a.role) = RoleBytes(b.role)
  BY <1>1, <1>2, CutSix
<1>4. a.role = b.role  BY <1>3, CutRole DEF Clean
<1> QED BY <1>3, <1>4 DEF Contexts

-----------------------------------------------------------------------------
(* The inductive invariant: what the loops have appended so far, from       *)
(* fields they accepted, and what the calls before returned.                *)

BytesAt(c, k) ==
  CASE k = 1 -> BINDING_DOMAIN
    [] k = 2 -> B1(c)
    [] k = 3 -> B2(c)
    [] k = 4 -> B3(c)
    [] k = 5 -> B4(c)
    [] k = 6 -> B5(c)
    [] k = 7 -> B6(c)
    [] k = 8 -> B7(c)

CallOK ==
  ctx # None =>
    /\ ctx \in Context
    /\ field \in 1..8
    /\ encoded = BytesAt(ctx, field)
    /\ \A i \in 1..7 : i < field => ~Refused(ctx[Fields[i]])

IssuedOK ==
  \A x \in issued : /\ x.context \in Context
                    /\ Clean(x.context)
                    /\ x = [context |-> x.context, bytes |-> B7(x.context)]

IdentityInv == CallOK /\ IssuedOK

(* The fields in the order of the loops.                                    *)
LEMMA FieldNames ==
  /\ Fields[1] = "artifact_digest" /\ Fields[2] = "artifact_name" /\ Fields[3] = "scope_id"
  /\ Fields[4] = "subject_id" /\ Fields[5] = "run_id" /\ Fields[6] = "layer_id"
  /\ Fields[7] = "role"
BY DEF Fields, Required, Optional

(* A context none of whose fields was refused is clean.                     *)
LEMMA AllAccepted ==
  ASSUME NEW c \in Contexts, \A i \in 1..7 : ~Refused(c[Fields[i]])
  PROVE  Clean(c)
<1>1. /\ ~Refused(c.artifact_digest) /\ ~Refused(c.artifact_name) /\ ~Refused(c.scope_id)
      /\ ~Refused(c.subject_id) /\ ~Refused(c.run_id) /\ ~Refused(c.layer_id)
      /\ ~Refused(c.role)
  BY FieldNames
<1>2. c.artifact_digest # None /\ c.artifact_name # None /\ c.scope_id # None
  BY TextAssumption DEF Contexts
<1> QED BY <1>1, <1>2 DEF Refused, Clean

(* Extending the buffer of the call under way by its next field.            *)
LEMMA ExtendPreserves ==
  ASSUME IdentityInv, NEW bytes, ctx # None, field \in 1..7, ~Refused(Value), Extend(bytes),
         encoded \o bytes = BytesAt(ctx, field + 1)
  PROVE  IdentityInv'
<1>1. IssuedOK'  BY DEF IdentityInv, IssuedOK, Extend
<1>2. CallOK'
  <2>1. ctx' = ctx /\ field' = field + 1 /\ encoded' = encoded \o bytes  BY DEF Extend
  <2>2. \A i \in 1..7 : i < field + 1 => ~Refused(ctx[Fields[i]])
    BY DEF IdentityInv, CallOK, Value
  <2> QED BY <2>1, <2>2 DEF IdentityInv, CallOK
<1> QED BY <1>1, <1>2 DEF IdentityInv

LEMMA IdentityInductive == IdentitySpec => []IdentityInv
<1>1. IdentityInit => IdentityInv  BY DEF IdentityInit, IdentityInv, CallOK, IssuedOK
<1>2. IdentityInv /\ [IdentityNext]_identityVars => IdentityInv'
  <2> SUFFICES ASSUME IdentityInv, [IdentityNext]_identityVars PROVE IdentityInv'
    OBVIOUS
  <2>1. ASSUME NEW c \in Context, Call(c) PROVE IdentityInv'
    <3>1. CallOK'
      BY <2>1 DEF Call, CallOK, BytesAt
    <3>2. IssuedOK'  BY <2>1 DEF Call, IdentityInv, IssuedOK
    <3> QED BY <3>1, <3>2 DEF IdentityInv
  <2>2. CASE AppendRequired
    <3>1. encoded = BytesAt(ctx, field) /\ field \in 1..3  BY <2>2 DEF AppendRequired, IdentityInv, CallOK
    <3>2. encoded \o RequiredBytes(Value) = BytesAt(ctx, field + 1)
      <4>1. CASE field = 1  BY <3>1, <4>1, FieldNames DEF Value, BytesAt, Cat, B1
      <4>2. CASE field = 2  BY <3>1, <4>2, FieldNames DEF Value, BytesAt, Cat, B2
      <4>3. CASE field = 3  BY <3>1, <4>3, FieldNames DEF Value, BytesAt, Cat, B3
      <4> QED BY <3>1, <4>1, <4>2, <4>3
    <3> QED BY <2>2, <3>1, <3>2, ExtendPreserves DEF AppendRequired
  <2>3. CASE AppendOptional
    <3>1. encoded = BytesAt(ctx, field) /\ field \in 4..6  BY <2>3 DEF AppendOptional, IdentityInv, CallOK
    <3>2. encoded \o OptionalBytes(Value) = BytesAt(ctx, field + 1)
      <4>1. CASE field = 4  BY <3>1, <4>1, FieldNames DEF Value, BytesAt, Cat, B4
      <4>2. CASE field = 5  BY <3>1, <4>2, FieldNames DEF Value, BytesAt, Cat, B5
      <4>3. CASE field = 6  BY <3>1, <4>3, FieldNames DEF Value, BytesAt, Cat, B6
      <4> QED BY <3>1, <4>1, <4>2, <4>3
    <3> QED BY <2>3, <3>1, <3>2, ExtendPreserves DEF AppendOptional
  <2>4. CASE AppendRole
    <3>1. encoded = BytesAt(ctx, field) /\ field = 7  BY <2>4 DEF AppendRole, IdentityInv, CallOK
    <3>2. encoded \o RoleBytes(Value) = BytesAt(ctx, field + 1)
      BY <3>1, FieldNames DEF Value, BytesAt, Cat, B7
    <3> QED BY <2>4, <3>1, <3>2, ExtendPreserves DEF AppendRole
  <2>5. CASE Raise
    BY <2>5 DEF Raise, IdentityInv, CallOK, IssuedOK
  <2>6. CASE Return
    <3>1. ctx \in Context /\ ctx \in Contexts /\ encoded = B7(ctx)
      BY <2>6, ContextAssumption DEF Return, IdentityInv, CallOK, BytesAt
    <3>2. Clean(ctx)
      BY <2>6, <3>1, AllAccepted DEF Return, IdentityInv, CallOK
    <3>3. IssuedOK'
      BY <2>6, <3>1, <3>2 DEF Return, IdentityInv, IssuedOK
    <3>4. CallOK'  BY <2>6 DEF Return, CallOK
    <3> QED BY <3>3, <3>4 DEF IdentityInv
  <2>7. CASE UNCHANGED identityVars
    BY <2>7 DEF identityVars, IdentityInv, CallOK, IssuedOK
  <2> QED BY <2>1, <2>2, <2>3, <2>4, <2>5, <2>6, <2>7 DEF IdentityNext
<1> QED BY <1>1, <1>2, PTL DEF IdentitySpec

-----------------------------------------------------------------------------
(* binding_id returns the same identity for two calls exactly when their    *)
(* seven fields are equal.                                                  *)
THEOREM Distinct == IdentitySpec => []NoCollision
<1>1. IdentityInv => NoCollision
  <2> SUFFICES ASSUME IdentityInv, NEW x \in issued, NEW y \in issued
               PROVE  x.bytes = y.bytes <=> x.context = y.context
    BY DEF NoCollision
  <2>1. /\ x.context \in Contexts /\ Clean(x.context) /\ x.bytes = B7(x.context)
        /\ y.context \in Contexts /\ Clean(y.context) /\ y.bytes = B7(y.context)
    BY ContextAssumption DEF IdentityInv, IssuedOK
  <2> QED BY <2>1, Injective
<1> QED BY <1>1, IdentityInductive, PTL

(* A binding without a role hashes as it did before roles existed, and no   *)
(* binding with a role takes its identity.                                  *)
THEOREM Unmoved == IdentitySpec => []NoIdMoves
<1>1. IdentityInv => NoIdMoves
  <2> SUFFICES ASSUME IdentityInv, NEW x \in issued, NEW y \in issued, x.context.role = None
               PROVE  /\ x.bytes = BeforeRoles(x.context)
                      /\ y.context.role # None => y.bytes # x.bytes
    BY DEF NoIdMoves
  <2>1. /\ x.context \in Contexts /\ Clean(x.context) /\ x.bytes = B7(x.context)
        /\ y.context \in Contexts /\ Clean(y.context) /\ y.bytes = B7(y.context)
    BY ContextAssumption DEF IdentityInv, IssuedOK
  <2>2. x.bytes = B6(x.context) \o <<>>  BY <2>1 DEF B7, Cat, RoleBytes
  <2>3. x.bytes = B6(x.context)  BY <2>2, <2>1, BufferType, ConcatEmptySeq DEF Bytes
  <2>4. B6(x.context) = BeforeRoles(x.context)  BY DEF Cat, B1, B2, B3, B4, B5, B6, BeforeRoles
  <2> QED BY <2>1, <2>3, <2>4, Injective
<1> QED BY <1>1, IdentityInductive, PTL

=============================================================================
