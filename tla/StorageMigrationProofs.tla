----------------------- MODULE StorageMigrationProofs -----------------------
(***************************************************************************)
(* Proofs about StorageMigration.  The inductive invariant says, for each  *)
(* step of migrate(), how far the transaction's database is from the       *)
(* fresh one: views gone, younger tables in their current shape, older     *)
(* tables at the revision the deltas have reached.                         *)
(***************************************************************************)
EXTENDS StorageMigration, TLAPS

\* The columns when a database stamped s on its way to r has run the deltas up
\* to k: tables younger than s already have all of theirs.
Reached(s, r, k) ==
    {c \in Column : \/ Introduced[Of[c]] <= s /\ Added[c] <= k
                    \/ Introduced[Of[c]] > s /\ Added[c] <= r}

\* The database while the deltas run: k is the revision they have reached.
Halfway(s, r, k) ==
    [version |-> s.version, stamp |-> s.stamp, tables |-> Tables(r),
     columns |-> Reached(s.stamp, r, k), views |-> {}]

\* The fresh database of revision r before it is stamped.
Unstamped(s, r) ==
    [version |-> s.version, stamp |-> s.stamp, tables |-> Tables(r),
     columns |-> Columns(r), views |-> Views(r) \X {r}]

Upgrading(h) == db.stamp # 0 /\ db.version = Version[h] /\ db.stamp < Package[h]

\* What the transaction of h sees (w) when it stands at p, k revisions far.
WorkAt(h, p, w, k) ==
    /\ p = "meta" => w = db
    /\ p = "bootstrap" => w = db /\ db.stamp = 0
    /\ p = "drop" => Upgrading(h) /\ w = db
    /\ p = "create" => Upgrading(h) /\ w = [db EXCEPT !.views = {}]
    /\ p = "delta" =>
          /\ Upgrading(h) /\ db.stamp <= k /\ k <= Package[h]
          /\ w = Halfway(db, Package[h], k)
    /\ p = "rerun" => Upgrading(h) /\ w = Halfway(db, Package[h], Package[h])
    /\ p = "stamp" =>
          /\ db.stamp = 0 \/ Upgrading(h)
          /\ w = Unstamped(db, Package[h])
    /\ p = "commit" =>
          /\ db.stamp = 0 \/ (db.version = Version[h] /\ db.stamp <= Package[h])
          /\ w = Fresh(Version[h], Package[h])

WorkOK == \A h \in Host : WorkAt(h, pc[h], work[h], step[h])

Exclusive ==
    \A g, h \in Host : pc[g] \in Inside /\ pc[h] \in Inside => g = h

OpenOK == \A h \in open : db.version = Version[h] /\ db.stamp >= Package[h]

IInv ==
    /\ TypeOK
    /\ MigratedIsFresh
    /\ Exclusive
    /\ WorkOK
    /\ OpenOK

-----------------------------------------------------------------------------
(* Where there is no view, running the view files creates each of them. *)
LEMMA CreateAllViews ==
    ASSUME NEW v, NEW s, NEW t, NEW c, NEW r
    PROVE  CreateViews([version |-> v, stamp |-> s, tables |-> t, columns |-> c,
                        views |-> {}], r)
             = [version |-> v, stamp |-> s, tables |-> t, columns |-> c,
                views |-> Views(r) \X {r}]
<1>1. {w \in Views(r) : \A e \in {} : e[1] # w} = Views(r)
  OBVIOUS
<1>2. (IF Dialect = "sqlite" THEN {} ELSE {e \in {} : e[1] \notin Views(r)}) = {}
  OBVIOUS
<1>3. {} \cup Views(r) \X {r} = Views(r) \X {r}
  OBVIOUS
<1> QED BY <1>1, <1>2, <1>3 DEF CreateViews

(* What running the table files does to a database, field by field. *)
LEMMA CreateTablesFields ==
    ASSUME NEW v, NEW s, NEW t, NEW c, NEW w, NEW r
    PROVE  CreateTables([version |-> v, stamp |-> s, tables |-> t, columns |-> c,
                         views |-> w], r)
             = [version |-> v, stamp |-> s, tables |-> t \cup (Tables(r) \ t),
                columns |-> c \cup {x \in Columns(r) : Of[x] \in Tables(r) \ t},
                views |-> w]
BY DEF CreateTables

(* Running every bootstrap file on an empty database creates the fresh shape. *)
LEMMA BootstrapEmpty ==
    ASSUME NEW r \in Nat
    PROVE  RunBootstrapFiles(Empty, r) = Unstamped(Empty, r)
<1>1. {} \cup {c \in Columns(r) : Of[c] \in Tables(r) \ {}} = Columns(r)
  BY HistoryAssumption DEF Columns, Tables
<1>2. {} \cup (Tables(r) \ {}) = Tables(r)
  OBVIOUS
<1>3. CreateTables(Empty, r) = [version |-> Nil, stamp |-> 0, tables |-> Tables(r),
                                 columns |-> Columns(r), views |-> {}]
  BY <1>1, <1>2, CreateTablesFields DEF Empty
<1> QED BY <1>3, CreateAllViews DEF RunBootstrapFiles, Unstamped, Empty

(* Dropping the views of a newer package from a fresh database leaves none. *)
LEMMA DropFresh ==
    ASSUME NEW v, NEW s \in Nat, NEW r \in Nat, s <= r
    PROVE  DropViews(Fresh(v, s), r) = [Fresh(v, s) EXCEPT !.views = {}]
<1>1. {e \in Views(s) \X {s} : e[1] \notin Views(r)} = {}
  BY HistoryAssumption DEF Views
<1> QED BY <1>1 DEF DropViews, Fresh

(* The missing tables come in their current shape: the deltas start from the  *)
(* stamped revision.                                                          *)
LEMMA CreateOnFresh ==
    ASSUME NEW v, NEW s \in Nat, NEW r \in Nat, s <= r
    PROVE  CreateTables([Fresh(v, s) EXCEPT !.views = {}], r)
               = Halfway(Fresh(v, s), r, s)
<1>1. Tables(s) \cup (Tables(r) \ Tables(s)) = Tables(r)
  BY HistoryAssumption DEF Tables
<1>2. Columns(s) \cup {c \in Columns(r) : Of[c] \in Tables(r) \ Tables(s)}
        = Reached(s, r, s)
  BY HistoryAssumption DEF Tables, Columns, Reached
<1>3. [Fresh(v, s) EXCEPT !.views = {}]
        = [version |-> v, stamp |-> s, tables |-> Tables(s), columns |-> Columns(s),
           views |-> {}]
  BY DEF Fresh
<1>4. CreateTables([version |-> v, stamp |-> s, tables |-> Tables(s),
                    columns |-> Columns(s), views |-> {}], r)
        = [version |-> v, stamp |-> s, tables |-> Tables(r),
           columns |-> Reached(s, r, s), views |-> {}]
  BY <1>1, <1>2, CreateTablesFields
<1> QED BY <1>3, <1>4 DEF Fresh, Halfway

(* One delta file takes the older tables one revision further. *)
LEMMA DeltaStep ==
    ASSUME NEW s \in Nat, NEW r \in Nat, NEW k \in Nat, s <= k, k < r
    PROVE  Reached(s, r, k) \cup Delta(k) = Reached(s, r, k + 1)
BY HistoryAssumption DEF Reached, Delta

(* A delta never meets a missing table, nor on SQLite a column it repeats. *)
LEMMA DeltaFits ==
    ASSUME NEW s \in Shape, s.stamp # 0, NEW r \in Nat, NEW k \in Nat,
           s.stamp <= k, k < r
    PROVE  DeltaApplies(Halfway(s, r, k), k)
BY HistoryAssumption, BaselineAssumption
   DEF DeltaApplies, Halfway, Reached, Delta, Shape, Tables

(* Re-running the bootstrap files after the last delta gives the fresh shape. *)
LEMMA RerunHalfway ==
    ASSUME NEW s \in Shape, NEW r \in Nat
    PROVE  RunBootstrapFiles(Halfway(s, r, r), r) = Unstamped(s, r)
<1>1. Reached(s.stamp, r, r) = Columns(r)
  BY HistoryAssumption DEF Reached, Columns, Shape
<1>2. Tables(r) \cup (Tables(r) \ Tables(r)) = Tables(r)
  OBVIOUS
<1>3. Reached(s.stamp, r, r) \cup {c \in Columns(r) : Of[c] \in Tables(r) \ Tables(r)}
        = Reached(s.stamp, r, r)
  OBVIOUS
<1>4. CreateTables(Halfway(s, r, r), r) = Halfway(s, r, r)
  BY <1>2, <1>3 DEF CreateTables, Halfway
<1> QED BY <1>1, <1>4, CreateAllViews DEF RunBootstrapFiles, Unstamped, Halfway

-----------------------------------------------------------------------------
(* The schema of a package consists of tables, columns and views. *)
LEMMA PackageParts ==
    ASSUME NEW h \in Host, NEW s, NEW k
    PROVE  /\ Package[h] \in Nat
           /\ Tables(Package[h]) \subseteq Table
           /\ Columns(Package[h]) \subseteq Column
           /\ Reached(s, Package[h], k) \subseteq Column
           /\ Views(Package[h]) \X {Package[h]} \subseteq View \X Nat
<1>1. Package[h] \in Nat
  BY PackageAssumption
<1>2. /\ Tables(Package[h]) \subseteq Table
      /\ Columns(Package[h]) \subseteq Column
      /\ Reached(s, Package[h], k) \subseteq Column
  BY DEF Tables, Columns, Reached
<1>3. Views(Package[h]) \subseteq View
  BY DEF Views
<1>4. Views(Package[h]) \X {Package[h]} \subseteq View \X Nat
  BY <1>1, <1>3
<1> QED BY <1>1, <1>2, <1>4

(* Everything a transaction ever sees is a shape: at first, *)
LEMMA EmptyShape == Empty \in Shape
BY DEF Empty, Shape

(* without its views, *)
LEMMA NoViewsShape ==
    ASSUME NEW s \in Shape
    PROVE  [s EXCEPT !.views = {}] \in Shape
BY DEF Shape

(* between two deltas, *)
LEMMA HalfwayShape ==
    ASSUME NEW h \in Host, NEW s \in Shape, NEW k
    PROVE  Halfway(s, Package[h], k) \in Shape
<1>1. /\ Tables(Package[h]) \subseteq Table
      /\ Reached(s.stamp, Package[h], k) \subseteq Column
  BY PackageParts
<1> QED BY <1>1 DEF Shape, Halfway

(* after the last file *)
LEMMA UnstampedShape ==
    ASSUME NEW h \in Host, NEW s \in Shape
    PROVE  Unstamped(s, Package[h]) \in Shape
<1>1. /\ Tables(Package[h]) \subseteq Table
      /\ Columns(Package[h]) \subseteq Column
      /\ Views(Package[h]) \X {Package[h]} \subseteq View \X Nat
  BY PackageParts
<1> QED BY <1>1 DEF Shape, Unstamped

(* and once it is stamped. *)
LEMMA FreshShape ==
    ASSUME NEW h \in Host
    PROVE  Fresh(Version[h], Package[h]) \in Shape
<1>1. /\ Package[h] \in Nat
      /\ Tables(Package[h]) \subseteq Table
      /\ Columns(Package[h]) \subseteq Column
      /\ Views(Package[h]) \X {Package[h]} \subseteq View \X Nat
  BY PackageParts
<1> QED BY <1>1 DEF Shape, Fresh

(* A step that touches nothing but host h and its transaction. *)
LEMMA LocalStep ==
    ASSUME IInv, NEW h \in Host,
           NEW p \in Inside \cup {"idle", "waiting"},
           NEW o \in {"init", "migrate", Nil}, NEW w \in Shape, NEW k \in Nat,
           pc' = [pc EXCEPT ![h] = p], op' = [op EXCEPT ![h] = o],
           work' = [work EXCEPT ![h] = w], step' = [step EXCEPT ![h] = k],
           db' = db, open' \subseteq open,
           p \in Inside => pc[h] \in Inside \/ LockFree(h),
           WorkAt(h, p, w, k)
    PROVE  IInv'
<1>1. TypeOK'
  BY DEF IInv, TypeOK, WorkAt
<1>2. MigratedIsFresh'
  BY DEF IInv, MigratedIsFresh, Fresh, Empty
<1>3. Exclusive'
  BY DEF IInv, TypeOK, Exclusive, LockFree
<1>4. WorkOK'
  <2> SUFFICES ASSUME NEW g \in Host
               PROVE  WorkAt(g, pc[g], work[g], step[g])'
    BY DEF WorkOK
  <2>1. WorkAt(g, pc'[g], work'[g], step'[g])
    BY DEF IInv, TypeOK, WorkOK
  <2> QED BY <2>1 DEF WorkAt, Upgrading
<1>5. OpenOK'
  BY DEF IInv, OpenOK
<1> QED BY <1>1, <1>2, <1>3, <1>4, <1>5 DEF IInv

(* A step that moves host h on and changes nothing else. *)
LEMMA PcStep ==
    ASSUME IInv, NEW h \in Host, NEW p \in Inside \cup {"waiting"},
           pc' = [pc EXCEPT ![h] = p], UNCHANGED <<db, op, work, step, open>>,
           pc[h] \in Inside, WorkAt(h, p, work[h], step[h])
    PROVE  IInv'
<1>1. /\ op[h] \in {"init", "migrate", Nil} /\ work[h] \in Shape /\ step[h] \in Nat
      /\ op' = [op EXCEPT ![h] = op[h]] /\ step' = [step EXCEPT ![h] = step[h]]
      /\ work' = [work EXCEPT ![h] = work[h]]
      /\ open' \subseteq open /\ db' = db
  BY DEF IInv, TypeOK
<1>2. p \in Inside \cup {"idle", "waiting"}
  OBVIOUS
<1>3. p \in Inside => pc[h] \in Inside \/ LockFree(h)
  OBVIOUS
<1> DEFINE o == op[h]  w == work[h]  k == step[h]
<1>4. /\ o \in {"init", "migrate", Nil} /\ w \in Shape /\ k \in Nat
      /\ op' = [op EXCEPT ![h] = o] /\ work' = [work EXCEPT ![h] = w]
      /\ step' = [step EXCEPT ![h] = k] /\ WorkAt(h, p, w, k)
  BY <1>1
<1> HIDE DEF o, w, k
<1> QED BY <1>1, <1>2, <1>3, <1>4, LocalStep

\* Host h goes from one step of its transaction to the step p, with the
\* database as w shows it; nobody else sees anything of it.
LocalMove(h, p, w) ==
    /\ pc' = [pc EXCEPT ![h] = p]
    /\ work' = [work EXCEPT ![h] = w]
    /\ UNCHANGED <<db, op, step, open>>
    /\ pc[h] \in Inside /\ p \in Inside

(* Such a move keeps the invariant when w is what p promises. *)
LEMMA MoveStep ==
    ASSUME IInv, NEW h \in Host, NEW p, NEW w \in Shape,
           LocalMove(h, p, w), WorkAt(h, p, w, step[h])
    PROVE  IInv'
<1>1. /\ op[h] \in {"init", "migrate", Nil} /\ step[h] \in Nat
      /\ op' = [op EXCEPT ![h] = op[h]] /\ step' = [step EXCEPT ![h] = step[h]]
  BY DEF LocalMove, IInv, TypeOK
<1>2. /\ pc' = [pc EXCEPT ![h] = p] /\ work' = [work EXCEPT ![h] = w]
      /\ db' = db /\ open' \subseteq open
      /\ p \in Inside \cup {"idle", "waiting"}
      /\ p \in Inside => pc[h] \in Inside \/ LockFree(h)
  BY DEF LocalMove
<1> DEFINE o == op[h]  k == step[h]
<1>3. /\ o \in {"init", "migrate", Nil} /\ k \in Nat
      /\ op' = [op EXCEPT ![h] = o] /\ step' = [step EXCEPT ![h] = k]
      /\ WorkAt(h, p, w, k)
  BY <1>1
<1> HIDE DEF o, k
<1> QED BY <1>2, <1>3, LocalStep

(* The end of a call leaves nothing of its transaction. *)
LEMMA EndStep ==
    ASSUME IInv, NEW h \in Host, End(h), db' = db, open' \subseteq open
    PROVE  IInv'
<1>1. WorkAt(h, "idle", Empty, 0)
  BY DEF WorkAt
<1> QED BY <1>1, EmptyShape, LocalStep DEF End, Goto, Inside

(* Publishing the transaction of a host that stands at COMMIT. *)
LEMMA CommitStep ==
    ASSUME IInv, NEW h \in Host, pc[h] = "commit", db' = work[h], End(h),
           open' \in {open, open \cup {h}}
    PROVE  IInv'
<1>1. /\ db' = Fresh(Version[h], Package[h])
      /\ db.stamp = 0 \/ (db.version = Version[h] /\ db.stamp <= Package[h])
  BY DEF IInv, WorkOK, WorkAt
<1>2. db'.version = Version[h] /\ db'.stamp = Package[h]
  BY <1>1 DEF Fresh
<1>3. \A g \in Host : pc'[g] \notin Inside
  BY DEF IInv, TypeOK, Exclusive, End, Goto, Inside
<1>4. TypeOK'
  <2>1. db' \in Shape
    BY <1>1, FreshShape
  <2> QED BY <2>1, EmptyShape DEF IInv, TypeOK, End, Goto, Inside
<1>5. MigratedIsFresh'
  BY <1>1, <1>2, PackageAssumption DEF MigratedIsFresh
<1>6. Exclusive'
  BY <1>3 DEF Exclusive
<1>7. WorkOK'
  BY <1>3 DEF WorkOK, WorkAt, Inside
<1>8. OpenOK'
  BY <1>1, <1>2, PackageAssumption DEF IInv, TypeOK, OpenOK, Shape
<1> QED BY <1>4, <1>5, <1>6, <1>7, <1>8 DEF IInv

-----------------------------------------------------------------------------
(* What the statements of open transactions have left behind holds in every  *)
(* reachable state.                                                         *)
THEOREM Invariance == Spec => []IInv
<1>1. Init => IInv
  <2> SUFFICES ASSUME Init PROVE IInv
    OBVIOUS
  <2>1. TypeOK
    BY EmptyShape DEF Init, TypeOK, Inside
  <2> QED BY <2>1 DEF Init, IInv, MigratedIsFresh, Exclusive, WorkOK, WorkAt, OpenOK,
                      Empty, Inside
<1>2. IInv /\ [Next]_vars => IInv'
  <2> SUFFICES ASSUME IInv, [Next]_vars PROVE IInv'
    OBVIOUS
  <2>1. CASE UNCHANGED vars
    BY <2>1 DEF vars, IInv, TypeOK, MigratedIsFresh, Exclusive, WorkOK, WorkAt, Upgrading,
                OpenOK, Fresh, Empty, Halfway, Unstamped
  <2>2. ASSUME NEW h \in Host, Step(h) PROVE IInv'
    <3> USE DEF Goto
    <3>0. /\ db \in Shape /\ work[h] \in Shape /\ db.stamp \in Nat
          /\ op[h] \in {"init", "migrate", Nil}
          /\ step[h] \in Nat /\ Package[h] \in Nat /\ Package[h] # 0
          /\ op = [op EXCEPT ![h] = op[h]] /\ step = [step EXCEPT ![h] = step[h]]
          /\ work = [work EXCEPT ![h] = work[h]] /\ pc = [pc EXCEPT ![h] = pc[h]]
          /\ WorkAt(h, pc[h], work[h], step[h])
          /\ open \subseteq open
      BY PackageAssumption DEF IInv, TypeOK, WorkOK, Shape
    <3>s. /\ db \in Shape /\ work[h] \in Shape
          /\ step[h] \in Nat /\ Package[h] \in Nat
      BY <3>0
    <3>1. ASSUME NEW o \in {"init", "migrate"}, Call(h, o) PROVE IInv'
      <4> DEFINE w == work[h]  k == step[h]
      <4>1. WorkAt(h, "waiting", w, k)
        BY DEF WorkAt
      <4>2. /\ w \in Shape /\ k \in Nat
            /\ pc' = [pc EXCEPT ![h] = "waiting"] /\ op' = [op EXCEPT ![h] = o]
            /\ work' = [work EXCEPT ![h] = w] /\ step' = [step EXCEPT ![h] = k]
            /\ db' = db /\ open' \subseteq open
        BY <3>0, <3>1 DEF Call
      <4>3. "waiting" \notin Inside
        BY DEF Inside
      <4> HIDE DEF w, k
      <4> QED BY <4>1, <4>2, <4>3, LocalStep
    <3>2. CASE Begin(h)
      <4>1. WorkAt(h, "meta", db, step[h])
        BY DEF WorkAt
      <4> QED BY <3>0, <3>2, <4>1, LocalStep DEF Begin, Inside
    <3>3. CASE FoundNothing(h)
      <4>1. WorkAt(h, "bootstrap", work[h], step[h])
        BY <3>0, <3>3 DEF WorkAt, FoundNothing, ReadMeta, NoMeta
      <4> QED BY <3>3, <4>1, PcStep DEF FoundNothing, ReadMeta, Inside
    <3>4. CASE FoundCurrent(h)
      <4>1. WorkAt(h, "commit", work[h], step[h])
        BY <3>0, <3>4 DEF WorkAt, FoundCurrent, ReadMeta, NoMeta, Current, SameVersion,
                          IInv, MigratedIsFresh
      <4> QED BY <3>4, <4>1, PcStep DEF FoundCurrent, ReadMeta, Inside
    <3>5. CASE FoundOlder(h)
      <4>1. WorkAt(h, "drop", work[h], step[h])
        BY <3>0, <3>5 DEF WorkAt, FoundOlder, ReadMeta, NoMeta, Older, SameVersion, Upgrading
      <4> QED BY <3>5, <4>1, PcStep DEF FoundOlder, ReadMeta, Inside
    <3>6. CASE Refuse(h)
      BY <3>6, EndStep DEF Refuse
    <3>7. CASE Bootstrap(h)
      <4> DEFINE w == RunBootstrapFiles(work[h], Package[h])
      <4>1. db.stamp = 0 /\ work[h] = Empty /\ db = Empty
        BY <3>0, <3>7 DEF Bootstrap, WorkAt, IInv, MigratedIsFresh
      <4>2. w = Unstamped(db, Package[h])
        BY <3>s, <4>1, BootstrapEmpty
      <4>3. w \in Shape
        <5>1. Unstamped(db, Package[h]) \in Shape
          BY <3>s, UnstampedShape
        <5> QED BY <4>2, <5>1
      <4>4. WorkAt(h, "stamp", w, step[h])
        BY <4>1, <4>2 DEF WorkAt
      <4>5. LocalMove(h, "stamp", w)
        BY <3>0, <3>7 DEF Bootstrap, Inside, LocalMove
      <4> HIDE DEF w
      <4> QED BY <3>s, <4>3, <4>4, <4>5, MoveStep
    <3>8. CASE DropOwnViews(h)
      <4> DEFINE w == DropViews(work[h], Package[h])
      <4>1. /\ Upgrading(h) /\ work[h] = db
            /\ db = Fresh(db.version, db.stamp)
        BY <3>0, <3>8 DEF DropOwnViews, WorkAt, IInv, MigratedIsFresh, Upgrading
      <4>2. w = [db EXCEPT !.views = {}]
        <5>1. DropViews(Fresh(db.version, db.stamp), Package[h])
                = [Fresh(db.version, db.stamp) EXCEPT !.views = {}]
          <6>1. db.stamp <= Package[h]
            BY <3>0, <4>1 DEF Upgrading
          <6>2. db.stamp \in Nat
            BY <3>s DEF Shape
          <6> QED BY <3>s, <6>1, <6>2, DropFresh
        <5> QED BY <4>1, <5>1
      <4>3. w \in Shape
        <5>1. [db EXCEPT !.views = {}] \in Shape
          BY <3>s, NoViewsShape
        <5> QED BY <4>2, <5>1
      <4>4. WorkAt(h, "create", w, step[h])
        BY <4>1, <4>2 DEF WorkAt
      <4>5. LocalMove(h, "create", w)
        BY <3>0, <3>8 DEF DropOwnViews, Inside, LocalMove
      <4> HIDE DEF w
      <4> QED BY <3>s, <4>3, <4>4, <4>5, MoveStep
    <3>9. CASE CreateMissing(h)
      <4> DEFINE w == CreateTables(work[h], Package[h])
      <4>1. /\ Upgrading(h) /\ work[h] = [db EXCEPT !.views = {}]
            /\ db = Fresh(db.version, db.stamp)
        BY <3>0, <3>9 DEF CreateMissing, WorkAt, IInv, MigratedIsFresh, Upgrading
      <4>2. work[h].stamp = db.stamp
        BY <3>0, <4>1 DEF Shape
      <4>3. w = Halfway(db, Package[h], db.stamp)
        BY <3>0, <4>1, CreateOnFresh DEF Upgrading
      <4>4. w \in Shape
        <5>1. Halfway(db, Package[h], db.stamp) \in Shape
          BY <3>s, HalfwayShape
        <5> QED BY <4>3, <5>1
      <4>5. WorkAt(h, "delta", w, db.stamp)
        BY <3>0, <4>1, <4>3 DEF WorkAt, Upgrading
      <4> QED BY <3>0, <3>9, <4>2, <4>4, <4>5, LocalStep DEF CreateMissing, Inside
    <3>10. CASE ApplyDelta(h)
      <4> DEFINE w == [work[h] EXCEPT !.columns = @ \cup Delta(step[h])]
      <4>1. /\ Upgrading(h) /\ db.stamp <= step[h] /\ step[h] < Package[h]
            /\ work[h] = Halfway(db, Package[h], step[h])
        BY <3>0, <3>10 DEF ApplyDelta, WorkAt
      <4>2. w = Halfway(db, Package[h], step[h] + 1)
        <5>1. Reached(db.stamp, Package[h], step[h]) \cup Delta(step[h])
                = Reached(db.stamp, Package[h], step[h] + 1)
          BY <3>0, <4>1, DeltaStep
        <5> QED BY <4>1, <5>1 DEF Halfway
      <4>3. w \in Shape
        <5>1. Halfway(db, Package[h], step[h] + 1) \in Shape
          BY <3>s, HalfwayShape
        <5> QED BY <4>2, <5>1
      <4>4. WorkAt(h, "delta", w, step[h] + 1)
        BY <3>0, <4>1, <4>2 DEF WorkAt
      <4>5. /\ work' = [work EXCEPT ![h] = w] /\ pc' = [pc EXCEPT ![h] = "delta"]
            /\ step' = [step EXCEPT ![h] = step[h] + 1]
            /\ op' = [op EXCEPT ![h] = op[h]]
            /\ pc[h] \in Inside /\ "delta" \in Inside
            /\ db' = db /\ open' \subseteq open
            /\ step[h] + 1 \in Nat
        BY <3>0, <3>10 DEF ApplyDelta, Inside
      <4> HIDE DEF w
      <4> QED BY <3>0, <4>3, <4>4, <4>5, LocalStep
    <3>11. CASE DeltasDone(h)
      <4>1. WorkAt(h, "rerun", work[h], step[h])
        BY <3>0, <3>11 DEF DeltasDone, WorkAt
      <4> QED BY <3>11, <4>1, PcStep DEF DeltasDone, Inside
    <3>12. CASE Rerun(h)
      <4> DEFINE w == RunBootstrapFiles(work[h], Package[h])
      <4>1. Upgrading(h) /\ work[h] = Halfway(db, Package[h], Package[h])
        BY <3>0, <3>12 DEF Rerun, WorkAt
      <4>2. w = Unstamped(db, Package[h])
        <5>1. RunBootstrapFiles(Halfway(db, Package[h], Package[h]), Package[h])
                = Unstamped(db, Package[h])
          BY <3>s, RerunHalfway
        <5> QED BY <4>1, <5>1
      <4>3. w \in Shape
        <5>1. Unstamped(db, Package[h]) \in Shape
          BY <3>s, UnstampedShape
        <5> QED BY <4>2, <5>1
      <4>4. WorkAt(h, "stamp", w, step[h])
        BY <4>1, <4>2 DEF WorkAt
      <4>5. LocalMove(h, "stamp", w)
        BY <3>0, <3>12 DEF Rerun, Inside, LocalMove
      <4> HIDE DEF w
      <4> QED BY <3>s, <4>3, <4>4, <4>5, MoveStep
    <3>13. CASE Stamp(h)
      <4> DEFINE w == Stamped(work[h], Version[h], Package[h])
      <4>1. /\ db.stamp = 0 \/ Upgrading(h)
            /\ work[h] = Unstamped(db, Package[h])
        BY <3>0, <3>13 DEF Stamp, WorkAt
      <4>2. w = Fresh(Version[h], Package[h])
        BY <4>1 DEF Stamped, Unstamped, Fresh
      <4>3. w \in Shape
        <5>1. Fresh(Version[h], Package[h]) \in Shape
          BY FreshShape
        <5> QED BY <4>2, <5>1
      <4>4. WorkAt(h, "commit", w, step[h])
        BY <3>0, <4>1, <4>2 DEF WorkAt, Upgrading
      <4>5. LocalMove(h, "commit", w)
        BY <3>0, <3>13 DEF Stamp, Inside, LocalMove
      <4> HIDE DEF w
      <4> QED BY <3>s, <4>3, <4>4, <4>5, MoveStep
    <3>14. CASE Commit(h)
      BY <3>14, CommitStep DEF Commit
    <3>15. CASE CommitUnanswered(h)
      BY <3>15, CommitStep DEF CommitUnanswered
    <3>16. CASE Fail(h)
      BY <3>16, EndStep DEF Fail
    <3>17. CASE Crash(h)
      BY <3>17, EndStep DEF Crash
    <3> QED BY <2>2, <3>1, <3>2, <3>3, <3>4, <3>5, <3>6, <3>7, <3>8, <3>9, <3>10, <3>11,
               <3>12, <3>13, <3>14, <3>15, <3>16, <3>17 DEF Step
  <2> QED BY <2>1, <2>2 DEF Next
<1> QED BY <1>1, <1>2, PTL DEF Spec

(* The database and every transaction's view of it keep their types. *)
THEOREM TypeCorrect == Spec => []TypeOK
<1>1. IInv => TypeOK
  BY DEF IInv
<1> QED BY <1>1, Invariance, PTL

(* Store.migrate, whatever its history, gives what Store.init would. *)
THEOREM MigrationIsFresh == Spec => []MigratedIsFresh
<1>1. IInv => MigratedIsFresh
  BY DEF IInv
<1> QED BY <1>1, Invariance, PTL

(* Neither call ever takes the database back (store.py:703, 741-744). *)
THEOREM Monotone == Spec => RevisionsGrow
<1>1. IInv /\ [Next]_vars => [GrowStep]_vars
  <2> SUFFICES ASSUME IInv, NEW h \in Host, Step(h) PROVE GrowStep
    BY DEF Next
  <2>1. db' = db \/ (pc[h] = "commit" /\ db' = work[h])
    BY DEF Step, Call, Begin, FoundNothing, FoundCurrent, FoundOlder, Refuse, ReadMeta,
           Bootstrap, DropOwnViews, CreateMissing, ApplyDelta, DeltasDone, Rerun, Stamp,
           Commit, CommitUnanswered, Fail, Crash
  <2>2. CASE db' = db
    BY <2>2 DEF GrowStep, IInv, TypeOK, Shape
  <2>3. CASE pc[h] = "commit" /\ db' = work[h]
    <3>1. /\ db'.version = Version[h] /\ db'.stamp = Package[h]
          /\ db.stamp = 0 \/ (db.version = Version[h] /\ db.stamp <= Package[h])
      <4>1. /\ work[h] = Fresh(Version[h], Package[h])
            /\ db.stamp = 0 \/ (db.version = Version[h] /\ db.stamp <= Package[h])
        BY <2>3 DEF IInv, WorkOK, WorkAt
      <4> QED BY <2>3, <4>1 DEF Fresh
    <3> QED BY <3>1, PackageAssumption DEF GrowStep, IInv, TypeOK, Shape
  <2> QED BY <2>1, <2>2, <2>3
<1> QED BY <1>1, Invariance, PTL DEF Spec, RevisionsGrow

(* A host that is open keeps what its package needs while newer packages     *)
(* migrate the database under it.                                            *)
THEOREM OpenHostsFit == Spec => []OpenedFits
<1>1. IInv => OpenedFits
  <2> SUFFICES ASSUME IInv, NEW h \in open
               PROVE  /\ db.version = Version[h]
                      /\ Tables(Package[h]) \subseteq db.tables
                      /\ Columns(Package[h]) \subseteq db.columns
                      /\ \A v \in Views(Package[h]) :
                            \E r \in {e[2] : e \in db.views} :
                                r >= Package[h] /\ <<v, r>> \in db.views
    BY DEF OpenedFits
  <2>1. /\ db.version = Version[h] /\ db.stamp >= Package[h]
        /\ db.stamp \in Nat /\ Package[h] \in Nat /\ Package[h] # 0
    BY PackageAssumption DEF IInv, TypeOK, OpenOK, Shape
  <2>2. db = Fresh(db.version, db.stamp)
    BY <2>1 DEF IInv, MigratedIsFresh
  <2>3. /\ db.tables = Tables(db.stamp) /\ db.columns = Columns(db.stamp)
        /\ db.views = Views(db.stamp) \X {db.stamp}
    BY <2>2 DEF Fresh
  <2>4. /\ Tables(Package[h]) \subseteq Tables(db.stamp)
        /\ Columns(Package[h]) \subseteq Columns(db.stamp)
        /\ Views(Package[h]) \subseteq Views(db.stamp)
    BY <2>1, HistoryAssumption DEF Tables, Columns, Views
  <2>5. ASSUME NEW v \in Views(Package[h])
        PROVE  \E r \in {e[2] : e \in db.views} : r >= Package[h] /\ <<v, r>> \in db.views
    <3>1. <<v, db.stamp>> \in db.views
      BY <2>3, <2>4
    <3>2. db.stamp \in {e[2] : e \in db.views}
      BY <3>1
    <3> QED BY <2>1, <3>1, <3>2
  <2> QED BY <2>1, <2>3, <2>4, <2>5
<1> QED BY <1>1, Invariance, PTL

(* No delta file raises, from any starting revision. *)
THEOREM DeltasNeverRaise == Spec => []DeltasApply
<1>1. IInv => DeltasApply
  <2> SUFFICES ASSUME IInv, NEW h \in Host, pc[h] = "delta", step[h] < Package[h]
               PROVE  DeltaApplies(work[h], step[h])
    BY DEF DeltasApply
  <2>1. /\ db \in Shape /\ db.stamp # 0 /\ db.stamp <= step[h]
        /\ work[h] = Halfway(db, Package[h], step[h])
    BY DEF IInv, TypeOK, WorkOK, WorkAt, Upgrading
  <2>2. step[h] \in Nat /\ Package[h] \in Nat
    BY PackageAssumption DEF IInv, TypeOK
  <2> QED BY <2>1, <2>2, DeltaFits
<1> QED BY <1>1, Invariance, PTL

(* init() and migrate() implement the one-step upgrade of MigrationAbs: what *)
(* a committed transaction leaves is the schema of the package's own files,  *)
(* reached from nothing or from an earlier revision of the same version.     *)
THEOREM Refinement == Spec => ImplementsUpgrade
<1>1. Init => Abs!AbsInit
  <2>1. Tables(0) = {} /\ Views(0) = {}
    BY HistoryAssumption DEF Tables, Views
  <2>2. Columns(0) = {}
    <3>1. \A c \in Column : Added[c] > Introduced[Of[c]] /\ Introduced[Of[c]] \in Nat
                              /\ Added[c] \in Nat
      BY HistoryAssumption
    <3>2. \A c \in Column : ~ (Added[c] <= 0)
      BY <3>1
    <3> QED BY <3>2 DEF Columns
  <2>3. Views(0) \X {0} = {}
    BY <2>1
  <2> QED BY <2>1, <2>2, <2>3 DEF Init, Empty, Abs!AbsInit, FilesOf, Contents, Fresh
<1>2. IInv /\ [Next]_vars => [Abs!AbsNext]_(Abs!absVars)
  <2> SUFFICES ASSUME IInv, NEW h \in Host, Step(h),
                      ~ (db' = db /\ open' = open)
               PROVE  Abs!AbsNext
    BY DEF Next, vars, Abs!absVars
  <2>1. \/ Crash(h)
        \/ pc[h] = "commit" /\ db' = work[h] /\ open' \in {open, open \cup {h}}
    BY DEF Step, Call, Begin, FoundNothing, FoundCurrent, FoundOlder, Refuse, ReadMeta,
           Bootstrap, DropOwnViews, CreateMissing, ApplyDelta, DeltasDone, Rerun, Stamp,
           Commit, CommitUnanswered, Fail
  <2>2. CASE Crash(h)
    BY <2>2 DEF Crash, Abs!AbsNext, Abs!Close
  <2>3. CASE pc[h] = "commit" /\ db' = work[h] /\ open' \in {open, open \cup {h}}
    <3>1. /\ db' = Fresh(Version[h], Package[h])
          /\ db.stamp = 0 \/ (db.version = Version[h] /\ db.stamp <= Package[h])
      BY <2>3 DEF IInv, WorkOK, WorkAt
    <3>2. /\ db'.version = Version[h] /\ db'.stamp = Package[h]
          /\ Contents(db)' = FilesOf(Package[h])
      BY <3>1 DEF Fresh, Contents, FilesOf
    <3>3. Abs!Upgrade(h)
      BY <2>3, <3>1, <3>2 DEF Abs!Upgrade
    <3> QED BY <3>3 DEF Abs!AbsNext
  <2> QED BY <2>1, <2>2, <2>3
<1> QED BY <1>1, <1>2, Invariance, PTL DEF Spec, ImplementsUpgrade, Abs!AbsSpec
=============================================================================
