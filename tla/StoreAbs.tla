------------------------------ MODULE StoreAbs ------------------------------
(***************************************************************************)
(* What storage/v1 promises its callers, with no transactions, locks or    *)
(* failures in sight: an ingest binds evidence to its context and projects *)
(* it in one indivisible step, or only adds references to a binding that   *)
(* is already there, or changes nothing.                                   *)
(***************************************************************************)
EXTENDS BindingRules

VARIABLES
  evidence,     \* artifact_evidence: digests ingested
  bindings,     \* artifact_binding: rows
  locations,    \* artifact_location: <<binding id, reference>>
  projections,  \* every projection table: [binding, key, pos]
  registered    \* product_repo: registered identifiers

absVars == <<evidence, bindings, locations, projections, registered>>

AbsInit ==
  /\ evidence = {}
  /\ bindings = {}
  /\ locations = {}
  /\ projections = {}
  /\ registered = {}

(* A new binding appears with its evidence, its references and its whole   *)
(* projection; it conflicts with no earlier binding, its predecessor is an *)
(* earlier binding of the same context, its product_repo is registered.    *)
Bind(r) ==
  LET b == Row(r) IN
  /\ Valid(r)
  /\ Projectable(r.digest)
  /\ \A a \in bindings : ~Conflict(a, b)
  /\ b.supersedes # Nil => PredecessorOK(bindings, b)
  /\ b.productRepo # Nil => b.productRepo \in registered
  /\ evidence' = evidence \cup {r.digest}
  /\ bindings' = bindings \cup {b}
  /\ locations' = locations \cup References(r)
  /\ projections' = projections \cup Projection(b)
  /\ UNCHANGED registered

(* The exact binding is already there: only references are added.          *)
Rebind(r) ==
  /\ Row(r) \in bindings
  /\ locations' = locations \cup References(r)
  /\ UNCHANGED <<evidence, bindings, projections, registered>>

AbsRegister(p) ==
  /\ registered' = registered \cup {p}
  /\ UNCHANGED <<evidence, bindings, locations, projections>>

AbsNext ==
  \/ \E r \in Request : Bind(r) \/ Rebind(r)
  \/ \E p \in ProductRepo : AbsRegister(p)

AbsSpec == AbsInit /\ [][AbsNext]_absVars
=============================================================================
