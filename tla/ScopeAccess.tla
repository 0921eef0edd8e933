----------------------------- MODULE ScopeAccess -----------------------------
(***************************************************************************)
(* The authorization partition of storage/v1, end to end: the corpus       *)
(* configuration that gives every corpus tree a scope (CorpusConfig of      *)
(* config.py), a writer that resolves a tree's scope and then ingests under *)
(* it, a reader that resolves the scopes it may query and then reads a      *)
(* dashboard view through the store (_query_view, query_findings_summary),  *)
(* and an operator who edits the configuration between any two of those     *)
(* steps.  A row carries the tree it came from and the scope it was written *)
(* under; `fresh` marks what was resolved from the configuration now in     *)
(* force, so that the properties can tell a stale answer from a wrong one.  *)
(***************************************************************************)
EXTENDS Naturals, Sequences, FiniteSets

CONSTANTS
    Trees,        \* names of analysis-results trees
    Metas,        \* declarations the operator writes: [ownership, business_unit, scope_id]
    Modes,        \* values the operator writes in scope.mode
    Scopes,       \* scope ids
    LocalScope,   \* the scope.id of the configuration ("local" unless it says otherwise)
    EmptyScope,   \* the scope id "", which a name without letters or digits slugs to
    NoScope,      \* what scope_for gives where the code raises; an absent scope_id
    Slug,         \* scope_slug over the names of trees and business units
    Views,        \* dashboard views the reader asks for
    Dialect,      \* "sqlite" or "postgres"
    MaxRows,      \* bound on the rows ingested
    MaxEdits      \* bound on the edits of the configuration

OWNERSHIP_TAGS == {"owned", "upstream", "external-bu", "harness-qa"}

SCOPE_MODES == {"single", "business_unit", "tree", "explicit"}

\* Every view a query_* method hands to _query_view.
FindingViews ==
    {"open_findings", "hardening_findings", "current_finding_detail",
     "distinct_exposure", "census_population", "finding_timeline",
     "exposure_trend", "sla_threshold", "finding_sla", "census_exposure",
     "pattern_exposure"}

EvidenceViews ==
    {"pqc_posture", "pqc_readiness_rollup", "threat_current",
     "threat_exposure", "advisory_exposure", "validation_exposure",
     "validation_current", "attack_coverage", "verification_current",
     "verification_regression_current", "remediation_current",
     "compliance_posture", "operator_privilege"}

\* The one view whose definition reads traust.scope_ids (PostgreSQL).
GatedViews == {"findings_summary"}

Units == {m.business_unit : m \in Metas}

ASSUME ScopeAssumption ==
    /\ LocalScope \in Scopes
    /\ EmptyScope \in Scopes
    /\ NoScope \notin Scopes
    /\ Slug \in [Trees \cup Units -> Scopes]
    /\ \A m \in Metas : /\ DOMAIN m = {"ownership", "business_unit", "scope_id"}
                        /\ m.scope_id \in Scopes \cup {NoScope}
    /\ Views \subseteq FindingViews \cup EvidenceViews \cup GatedViews
    /\ Dialect \in {"sqlite", "postgres"}
    /\ MaxRows \in Nat
    /\ MaxEdits \in Nat

VARIABLES
    file,    \* corpus-config.yaml: [mode, trees, engagements]
    rows,    \* stored rows: [tree, scope, fresh]
    job,     \* the writer between scope_for and ingest: NoJob or a row to be
    conn,    \* the reader's store connection
    out,     \* the last answer a reader got
    edits    \* edits made so far

vars == <<file, rows, job, conn, out, edits>>

-----------------------------------------------------------------------------
(* The configuration and what it resolves to.                              *)

Engagement == [tree : Trees, meta : Metas]

Config == [mode : Modes,
           trees : UNION {[T -> Metas] : T \in SUBSET Trees},
           engagements : Seq(Engagement)]

\* The deployment before its first engagement.
FirstConfigs == [mode : Modes,
                 trees : UNION {[T -> Metas] : T \in SUBSET Trees},
                 engagements : {<<>>}]

\* The field validators of TreeMeta and ScopeConfig: a file that names an
\* unknown ownership or mode does not load.
Loads(c) ==
    /\ c.mode \in SCOPE_MODES
    /\ \A t \in DOMAIN c.trees : c.trees[t].ownership \in OWNERSHIP_TAGS
    /\ \A i \in DOMAIN c.engagements : c.engagements[i].meta.ownership \in OWNERSHIP_TAGS

EngagementsOf(c, t) == {i \in DOMAIN c.engagements : c.engagements[i].tree = t}

Registered(c) == DOMAIN c.trees \cup {c.engagements[i].tree : i \in DOMAIN c.engagements}

\* Mutant: the last engagement that names a tree wins.
tree_meta_Last(c, t) ==
    IF t \in DOMAIN c.trees THEN c.trees[t]
    ELSE c.engagements[CHOOSE i \in EngagementsOf(c, t) :
                          \A j \in EngagementsOf(c, t) : i >= j].meta

\* The declaration of a registered tree: its own, or that of the first
\* engagement that names it.
tree_meta(c, t) ==
    IF t \in DOMAIN c.trees THEN c.trees[t]
    ELSE LET first == CHOOSE i \in EngagementsOf(c, t) :
                          \A j \in EngagementsOf(c, t) : i <= j
         IN  c.engagements[first].meta

\* The scope to write under; NoScope where the code raises (the tree is not
\* registered, or mode explicit and no scope_id, or an empty one).
scope_for(c, t) ==
    CASE t \notin Registered(c) -> NoScope
      [] t \in Registered(c) /\ c.mode = "single" -> LocalScope
      [] t \in Registered(c) /\ c.mode = "business_unit" -> Slug[tree_meta(c, t).business_unit]
      [] t \in Registered(c) /\ c.mode = "tree" -> Slug[t]
      [] OTHER -> IF tree_meta(c, t).scope_id = EmptyScope THEN NoScope
                  ELSE tree_meta(c, t).scope_id

\* Mutant: engagements are not looked at.
CorpusTrees_TreesOnly(c) == {t \in DOMAIN c.trees : c.trees[t].ownership # "harness-qa"}
CorpusTrees(c) == {t \in Registered(c) : tree_meta(c, t).ownership # "harness-qa"}

\* Mutant: a tree that cannot be resolved is left out.
readable_scopes_Partial(c) == {scope_for(c, t) : t \in CorpusTrees(c)} \ {NoScope}

\* Every scope a reader may query; empty where the code raises: no scope at
\* all, or a corpus tree that scope_for cannot resolve.
readable_scopes(c) ==
    LET scopes == {scope_for(c, t) : t \in CorpusTrees(c)}
    IN  IF NoScope \in scopes THEN {} ELSE scopes

-----------------------------------------------------------------------------
(* The store's side of a read.                                             *)

\* The scopes a query of a view lets through: its explicit list and, for the
\* gated view of PostgreSQL, the transaction's traust.scope_ids as well.
Gate(view, list, setting) ==
    IF Dialect = "postgres" /\ view \in GatedViews THEN list \cap setting ELSE list

Selected(scopes) == {r \in rows : r.scope \in scopes}

NoJob == [tree |-> "none", scope |-> NoScope, fresh |-> FALSE]

Row == [tree : Trees, scope : Scopes, fresh : BOOLEAN]

NoAnswer == [by |-> "none", view |-> "none", rows |-> {}, fresh |-> FALSE]

Closed == [view |-> "none", list |-> {}, setting |-> {}, fresh |-> FALSE]

TypeOK ==
    /\ file \in Config
    /\ rows \subseteq Row
    /\ job \in Row \cup {NoJob}
    /\ conn \in [view : Views \cup {"none"}, list : SUBSET Scopes,
                 setting : SUBSET Scopes, fresh : BOOLEAN]
    /\ out \in [by : {"none", "store", "sql"}, view : Views \cup {"none"},
                rows : SUBSET Row, fresh : BOOLEAN]
    /\ edits \in 0..MaxEdits

Init ==
    /\ file \in FirstConfigs
    /\ rows = {}
    /\ job = NoJob
    /\ conn = Closed
    /\ out = NoAnswer
    /\ edits = 0

-----------------------------------------------------------------------------
(* The operator.                                                           *)

Stale(r) == [tree |-> r.tree, scope |-> r.scope, fresh |-> FALSE]

\* What another file means for everything resolved so far.
Save(c) ==
    /\ edits < MaxEdits
    /\ c # file
    /\ edits' = edits + 1
    /\ file' = c
    /\ rows' = {Stale(r) : r \in rows}
    /\ job' = Stale(job)
    /\ conn' = [view |-> conn.view, list |-> conn.list, setting |-> conn.setting,
                fresh |-> FALSE]
    /\ out' = NoAnswer

SetMode(m) ==
    Save([mode |-> m, trees |-> file.trees, engagements |-> file.engagements])

\* A tree is added to the configuration, or declared anew.
SetTree(t, m) ==
    Save([mode |-> file.mode,
          trees |-> [u \in DOMAIN file.trees \cup {t} |-> IF u = t THEN m ELSE file.trees[u]],
          engagements |-> file.engagements])

DropTree(t) ==
    /\ t \in DOMAIN file.trees
    /\ Save([mode |-> file.mode,
             trees |-> [u \in DOMAIN file.trees \ {t} |-> file.trees[u]],
             engagements |-> file.engagements])

\* An engagement is appended: it comes after the ones already there.
AddEngagement(t, m) ==
    Save([mode |-> file.mode, trees |-> file.trees,
          engagements |-> Append(file.engagements, [tree |-> t, meta |-> m])])

DropEngagement(i) ==
    LET e == file.engagements
    IN  Save([mode |-> file.mode, trees |-> file.trees,
              engagements |-> [j \in 1..(Len(e) - 1) |-> IF j < i THEN e[j] ELSE e[j + 1]]])

-----------------------------------------------------------------------------
(* The writer.                                                             *)

Resolve(t) ==
    /\ job = NoJob
    /\ Loads(file)
    /\ scope_for(file, t) # NoScope
    /\ job' = [tree |-> t, scope |-> scope_for(file, t), fresh |-> TRUE]
    /\ out' = NoAnswer
    /\ UNCHANGED <<file, rows, conn, edits>>

\* The store refuses an empty scope id before it writes anything; any other
\* failure leaves no row either.
Ingest ==
    /\ job # NoJob
    /\ job' = NoJob
    /\ out' = NoAnswer
    /\ \/ /\ job.scope # EmptyScope
          /\ Cardinality(rows) < MaxRows
          /\ rows' = rows \cup {job}
       \/ rows' = rows
    /\ UNCHANGED <<file, conn, edits>>

-----------------------------------------------------------------------------
(* The reader.                                                             *)

\* load the configuration, resolve the readable scopes, open the read: BEGIN
\* and, on PostgreSQL, set_config('traust.scope_ids', ..., is_local = true).
QueryBegin(v) ==
    /\ conn.view = "none"
    /\ Loads(file)
    /\ readable_scopes(file) # {}
    /\ conn' = [view |-> v, list |-> readable_scopes(file),
                setting |-> IF Dialect = "postgres" THEN readable_scopes(file) ELSE {},
                fresh |-> TRUE]
    /\ out' = NoAnswer
    /\ UNCHANGED <<file, rows, job, edits>>

\* The SELECT and the COMMIT, which discards the local setting.
QueryRows ==
    /\ conn.view # "none"
    /\ out' = [by |-> "store", view |-> conn.view, fresh |-> conn.fresh,
               rows |-> Selected(Gate(conn.view, conn.list, conn.setting))]
    /\ conn' = Closed
    /\ UNCHANGED <<file, rows, job, edits>>

\* Mutant: the setting is not local to the transaction.
QueryFails_Keeps ==
    /\ conn.view # "none"
    /\ conn' = [view |-> "none", list |-> {}, setting |-> conn.setting, fresh |-> FALSE]
    /\ out' = NoAnswer
    /\ UNCHANGED <<file, rows, job, edits>>

\* The SELECT fails: ROLLBACK, which discards the setting too, and an error.
QueryFails ==
    /\ conn.view # "none"
    /\ conn' = Closed
    /\ out' = NoAnswer
    /\ UNCHANGED <<file, rows, job, edits>>

\* A consumer of the same connection reads the view in SQL between two calls
\* of the store, with no scope list of its own.
ReadView(v) ==
    /\ conn.view = "none"
    /\ out' = [by |-> "sql", view |-> v, fresh |-> TRUE,
               rows |-> Selected(Gate(v, Scopes, conn.setting))]
    /\ UNCHANGED <<file, rows, job, conn, edits>>

Next ==
    \/ \E m \in Modes : SetMode(m)
    \/ \E t \in Trees, m \in Metas : SetTree(t, m) \/ AddEngagement(t, m)
    \/ \E t \in Trees : DropTree(t) \/ Resolve(t)
    \/ \E i \in DOMAIN file.engagements : DropEngagement(i)
    \/ Ingest
    \/ \E v \in Views : QueryBegin(v) \/ ReadView(v)
    \/ QueryRows
    \/ QueryFails

Spec == Init /\ [][Next]_vars

-----------------------------------------------------------------------------
(* Properties.                                                             *)

\* A reader never silently misses a corpus tree: unless it raises, a read
\* under the configuration in force returns every row that was written under
\* it for a tree that is not harness-qa (readable_scopes and scope_for agree,
\* for trees and engagements, in every mode).
CorpusIsRead ==
    out.by = "store" /\ out.fresh =>
        \A r \in rows : r.fresh /\ tree_meta(file, r.tree).ownership # "harness-qa"
                            => r \in out.rows

\* What a read returns beyond the corpus trees' own rows shares a scope with
\* one of them: no scope is opened only because a harness-qa tree has it.
OnlyCorpusScopes ==
    out.by = "store" /\ out.fresh =>
        \A r \in out.rows : \E t \in Registered(file) :
            /\ tree_meta(file, t).ownership # "harness-qa"
            /\ scope_for(file, t) = r.scope

\* An answer is never about part of the corpus: when one corpus tree cannot
\* be resolved (mode explicit, no scope_id) the reader is refused, it does not
\* get the numbers of the others as if they were all.
AnswersAreWhole ==
    out.by = "store" /\ out.fresh =>
        \A t \in Registered(file) :
            tree_meta(file, t).ownership # "harness-qa" => scope_for(file, t) # NoScope

\* The scope setting of one store read is gone when the read has ended,
\* whether it committed or rolled back: the gated view then answers nothing.
ScopeDoesNotLeak ==
    Dialect = "postgres" /\ out.by = "sql" /\ out.view \in GatedViews => out.rows = {}

\* Registering a tree that was not registered, or one more engagement, never
\* hides what a reader could see: readable_scopes only grows, as long as the
\* file loads and mode explicit is given the scope_id it asks for.
RegisteringOnlyAdds ==
    [][\A t \in Trees, m \in Metas :
          /\ \/ t \notin Registered(file) /\ SetTree(t, m)
             \/ AddEngagement(t, m)
          /\ Loads(file) /\ Loads(file')
          /\ file.mode = "explicit" => m.scope_id \notin {NoScope, EmptyScope}
          => \A r \in rows : r.scope \in readable_scopes(file)
                                 => r.scope \in readable_scopes(file')]_vars
=============================================================================
