---------------------------- MODULE BindingRules ----------------------------
(***************************************************************************)
(* The data of storage/v1 and the rules that relate one binding to another *)
(* (store.py, storage/v1/*/schema/artifact_binding.sql): what a call to    *)
(* Store.ingest asks for, which requests pass validation, the row a        *)
(* request writes, its identity, when two rows violate a unique index, and *)
(* which binding may be superseded.                                        *)
(*                                                                         *)
(* SHA-256 is taken to be injective, so a digest stands for the exact      *)
(* payload bytes and a binding identity is the tuple of the fields hashed  *)
(* by binding_id().                                                        *)
(***************************************************************************)
EXTENDS Integers, Sequences, FiniteSets

CONSTANTS
  Request,      \* the calls hosts make: artifact, bytes, binding, references
  Digest,       \* SHA-256 digests of payloads
  ProductRepo,  \* product_repo identifiers of the registry
  Nil,          \* SQL NULL / Python None
  Empty,        \* the empty string
  Roles,        \* profiles.json: artifact name -> roles it accepts
  Required,     \* profiles.json: artifact name -> context fields it requires
  SchemaValid,  \* artifact name -> digests whose document its schema accepts
  Key,          \* identifiers of projected items (finding ids, event ids...)
  Document      \* digest -> the items its projection walks, in order

-----------------------------------------------------------------------------
(* Requests, rows and identities.                                          *)

(* Binding plus the artifact name and payload digest of one call.          *)
Row(r) ==
  [digest |-> r.digest, name |-> r.name, role |-> r.role, scope |-> r.scope,
   subject |-> r.subject, run |-> r.run, layer |-> r.layer,
   supersedes |-> r.supersedes, productRepo |-> r.productRepo,
   commit |-> r.commit]

(* binding_id(): digest, name, scope, context and role; supersedes,        *)
(* product_repo and commit are attributes and stay out of the identity.    *)
BindingId(b) ==
  [digest |-> b.digest, name |-> b.name, scope |-> b.scope,
   subject |-> b.subject, run |-> b.run, layer |-> b.layer, role |-> b.role]

(* The artifact_location rows of a call.                                   *)
References(r) == {<<BindingId(Row(r)), x>> : x \in r.references}

(* Validation before BEGIN: the document satisfies the artifact's schema,  *)
(* the scope is not empty, a role is one the profile declares, every       *)
(* required field is present, and no reference is empty.                   *)
Valid(r) ==
  /\ r.name \in DOMAIN SchemaValid
  /\ r.digest \in SchemaValid[r.name]
  /\ r.scope # Empty
  /\ r.role # Nil => r.role \in Roles[r.name]
  /\ \A f \in Required[r.name] : r[f] # Nil
  /\ Empty \notin r.references

-----------------------------------------------------------------------------
(* Unique indexes of artifact_binding.                                     *)

CumulativeReport(b) ==
  /\ b.name = "report"
  /\ b.role = "cumulative"
  /\ b.productRepo # Nil

(* idx_artifact_binding_cumulative_root: the rows it indexes.              *)
CumulativeRoot(b) == CumulativeReport(b) /\ b.supersedes = Nil

(* Its key, one findings-current chain each.                               *)
Chain(b) == <<b.scope, b.productRepo, b.run>>

SamePrimaryKey(a, b) == BindingId(a) = BindingId(b)

(* idx_artifact_binding_successor: one direct successor per binding.       *)
SameSuccessor(a, b) == a.supersedes # Nil /\ a.supersedes = b.supersedes

(* Mutant: no index on chain roots.                                        *)
SameRoot_NoIndex(a, b) == FALSE

(* A NULL run would make two index entries distinct.                       *)
SameRoot(a, b) ==
  /\ CumulativeRoot(a) /\ CumulativeRoot(b)
  /\ a.run # Nil
  /\ Chain(a) = Chain(b)

Conflict(a, b) == SamePrimaryKey(a, b) \/ SameSuccessor(a, b) \/ SameRoot(a, b)

-----------------------------------------------------------------------------
(* Supersession.                                                           *)

SameContext(a, b) ==
  /\ a.name = b.name
  /\ a.scope = b.scope
  /\ a.subject = b.subject
  /\ a.run = b.run
  /\ a.layer = b.layer
  /\ a.role = b.role
  /\ a.productRepo = b.productRepo

(* _require_predecessor over the committed rows a transaction reads.       *)
PredecessorOK(rows, b) ==
  /\ b.supersedes # BindingId(b)
  /\ \E p \in rows : BindingId(p) = b.supersedes /\ SameContext(p, b)

-----------------------------------------------------------------------------
(* Projection: the rows written for one document. An item without an id is *)
(* skipped and a repeated id keeps its first row (ON CONFLICT DO NOTHING). *)

Item(d, i) == Document[d][i]
Items(d) == 1..Len(Document[d])

(* The rows the first n items leave behind.                                *)
FirstRows(b, n) ==
  {[binding |-> BindingId(b), key |-> Item(b.digest, i).key, pos |-> i] :
     i \in {j \in Items(b.digest) :
              /\ j <= n
              /\ Item(b.digest, j).key # Nil
              /\ \A k \in 1..(j - 1) : Item(b.digest, k).key # Item(b.digest, j).key}}

(* The whole projection of a binding.                                      *)
Projection(b) == FirstRows(b, Len(Document[b.digest]))

(* Every item converts: no item makes the projection raise.                *)
Projectable(d) == \A i \in Items(d) : ~Item(d, i).bad

-----------------------------------------------------------------------------
(* Views over a set of committed rows.                                     *)

(* binding_current.sql: no successor in the same scope.                    *)
Current(rows) ==
  {b \in rows : \A s \in rows : ~(s.supersedes = BindingId(b) /\ s.scope = b.scope)}

-----------------------------------------------------------------------------
(* Assumptions on the constants.                                           *)

RequestType ==
  \A r \in Request :
    /\ DOMAIN r = {"digest", "name", "role", "scope", "subject", "run", "layer",
                   "supersedes", "productRepo", "commit", "references"}
    /\ r.digest \in Digest

ASSUME RequestAssumption == RequestType

(* profiles.json requires run_id (and subject_id) of every report.         *)
ASSUME ReportAssumption ==
  "report" \in DOMAIN SchemaValid => "run" \in Required["report"]

ASSUME DocumentAssumption ==
  /\ Document \in [Digest -> Seq([key : Key \cup {Nil}, bad : BOOLEAN])]
  /\ Nil \notin Key

(* NULL is neither a request nor a binding identity.                       *)
ASSUME NilAssumption ==
  Nil \notin Request /\ \A r \in Request : BindingId(Row(r)) # Nil
=============================================================================
