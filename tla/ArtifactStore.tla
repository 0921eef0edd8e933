--------------------------- MODULE ArtifactStore ---------------------------
(***************************************************************************)
(* Store.ingest (store.py) as concurrent hosts run it against one shared   *)
(* database: one action per SQL statement, uncommitted rows kept apart     *)
(* from committed ones, the digest advisory lock and READ COMMITTED of     *)
(* PostgreSQL or the single writer of SQLite's BEGIN IMMEDIATE, inserts    *)
(* that wait for another transaction's conflicting row, and failures: a    *)
(* statement that raises, a host that dies, a COMMIT whose answer is lost. *)
(***************************************************************************)
EXTENDS BindingRules

CONSTANTS
  Host,         \* processes that own a connection and a Store
  Dialect,      \* "postgres" or "sqlite"
  LockKey       \* digest -> advisory lock key (its first eight bytes)

VARIABLES
  evidence,     \* artifact_evidence, committed
  bindings,     \* artifact_binding, committed rows
  locations,    \* artifact_location, committed <<binding id, reference>>
  projections,  \* every projection table, committed [binding, key, pos]
  registered,   \* product_repo, committed identifiers
  pc,           \* host -> the statement it executes next, or the last answer
  req,          \* host -> the request of the call in progress, Nil if none
  tx            \* host -> the rows its open transaction wrote, and the next item

tables == <<evidence, bindings, locations, projections, registered>>
vars == <<evidence, bindings, locations, projections, registered, pc, req, tx>>

-----------------------------------------------------------------------------
(* No call in progress: never called or crashed, or what the last one      *)
(* answered (IngestResult with already_bound False or True, IngestError).  *)
Idle == {"idle", "bound", "already", "failed"}

(* Inside the transaction and past the advisory lock.                      *)
Locked == {"lookup", "predecessor", "evidence", "bind", "locate", "project",
           "relocate", "recommit"}

InTx == {"lock"} \cup Locked
PC == Idle \cup {"begin"} \cup InTx

NoTx == [evidence |-> {}, bindings |-> {}, locations |-> {}, projections |-> {},
         next |-> 1]

ASSUME DialectAssumption == Dialect \in {"postgres", "sqlite"}
ASSUME LockAssumption == DOMAIN LockKey = Digest

(* The row the call of host h writes.                                      *)
B(h) == Row(req[h])

-----------------------------------------------------------------------------
(* What a statement of host h waits for: something host o holds until its  *)
(* transaction ends.                                                       *)

(* SQLite's only write lock.                                               *)
WriterHeld(h, o) == Dialect = "sqlite" /\ pc[o] \in InTx

(* Mutant: no advisory lock is taken.                                      *)
DigestHeld_NoLock(h, o) == FALSE

(* The advisory lock of h's digest.                                        *)
DigestHeld(h, o) ==
  pc[o] \in Locked /\ LockKey[req[o].digest] = LockKey[req[h].digest]

(* An uncommitted row with the same key in a unique index.                 *)
EvidenceHeld(h, o) == req[h].digest \in tx[o].evidence
BindingHeld(h, o) == \E b \in tx[o].bindings : Conflict(b, B(h))
LocationHeld(h, o) == References(req[h]) \cap tx[o].locations # {}

WaitsFor(h, o) ==
  /\ o # h
  /\ \/ pc[h] = "begin" /\ WriterHeld(h, o)
     \/ pc[h] = "lock" /\ DigestHeld(h, o)
     \/ pc[h] = "evidence" /\ EvidenceHeld(h, o)
     \/ pc[h] = "bind" /\ BindingHeld(h, o)
     \/ pc[h] \in {"locate", "relocate"} /\ LocationHeld(h, o)

Blocked(h) == \E o \in Host : WaitsFor(h, o)

-----------------------------------------------------------------------------
Init ==
  /\ evidence = {}
  /\ bindings = {}
  /\ locations = {}
  /\ projections = {}
  /\ registered = {}
  /\ pc = [h \in Host |-> "idle"]
  /\ req = [h \in Host |-> Nil]
  /\ tx = [h \in Host |-> NoTx]

(* register_product_repo by any host; Registry models the call itself.     *)
Register(p) ==
  /\ registered' = registered \cup {p}
  /\ UNCHANGED <<evidence, bindings, locations, projections, pc, req, tx>>

(* ingest on an idle connection, up to the end of validation.              *)
Call(h, r) ==
  /\ pc[h] \in Idle
  /\ Valid(r)
  /\ pc' = [pc EXCEPT ![h] = "begin"]
  /\ req' = [req EXCEPT ![h] = r]
  /\ UNCHANGED <<tables, tx>>

(* Validation raises before BEGIN.                                         *)
Reject(h, r) ==
  /\ pc[h] \in Idle
  /\ ~Valid(r)
  /\ pc' = [pc EXCEPT ![h] = "failed"]
  /\ UNCHANGED <<tables, req, tx>>

(* Mutant: the transaction is left open.                                   *)
Return_LeavesOpen(h, answer) ==
  /\ pc' = [pc EXCEPT ![h] = answer]
  /\ req' = [req EXCEPT ![h] = Nil]
  /\ UNCHANGED tx

(* The call returns or the host dies: nothing of it stays in the           *)
(* connection.                                                             *)
Return(h, answer) ==
  /\ pc' = [pc EXCEPT ![h] = answer]
  /\ req' = [req EXCEPT ![h] = Nil]
  /\ tx' = [tx EXCEPT ![h] = NoTx]

(* A statement raised: ROLLBACK, then IngestError.                         *)
Abort(h) == Return(h, "failed") /\ UNCHANGED tables

(* _begin: BEGIN IMMEDIATE takes SQLite's only write lock.                 *)
Begin(h) ==
  /\ pc[h] = "begin"
  /\ ~Blocked(h)
  /\ pc' = [pc EXCEPT ![h] = IF Dialect = "postgres" THEN "lock" ELSE "lookup"]
  /\ UNCHANGED <<tables, req, tx>>

(* pg_advisory_xact_lock: waits for the transaction holding the key.       *)
Lock(h) ==
  /\ pc[h] = "lock"
  /\ ~Blocked(h)
  /\ pc' = [pc EXCEPT ![h] = "lookup"]
  /\ UNCHANGED <<tables, req, tx>>

(* _binding_row found nothing.                                             *)
LookupNew(h) ==
  /\ pc[h] = "lookup"
  /\ \A b \in bindings : ~SamePrimaryKey(b, B(h))
  /\ pc' = [pc EXCEPT ![h] = IF req[h].supersedes = Nil THEN "evidence"
                                                        ELSE "predecessor"]
  /\ UNCHANGED <<tables, req, tx>>

(* _binding_row found the binding and _require_same_binding accepts it.    *)
LookupSame(h) ==
  /\ pc[h] = "lookup"
  /\ \E b \in bindings : SamePrimaryKey(b, B(h)) /\ b = B(h)
  /\ pc' = [pc EXCEPT ![h] = "relocate"]
  /\ UNCHANGED <<tables, req, tx>>

(* _require_same_binding raises: same identity, other attributes.          *)
LookupCollision(h) ==
  /\ pc[h] = "lookup"
  /\ \E b \in bindings : SamePrimaryKey(b, B(h)) /\ b # B(h)
  /\ Abort(h)

(* Mutant: the predecessor is not checked.                                 *)
RequirePredecessor_Unchecked(h) ==
  /\ pc[h] = "predecessor"
  /\ pc' = [pc EXCEPT ![h] = "evidence"]
  /\ UNCHANGED <<tables, req, tx>>

(* _require_predecessor reads the committed rows, or raises.               *)
RequirePredecessor(h) ==
  /\ pc[h] = "predecessor"
  /\ \/ /\ PredecessorOK(bindings, B(h))
        /\ pc' = [pc EXCEPT ![h] = "evidence"]
        /\ UNCHANGED <<tables, req, tx>>
     \/ /\ ~PredecessorOK(bindings, B(h))
        /\ Abort(h)

(* artifact_evidence.upsert: waits for an uncommitted row of the digest.   *)
InsertEvidence(h) ==
  /\ pc[h] = "evidence"
  /\ ~Blocked(h)
  /\ tx' = [tx EXCEPT ![h].evidence = {req[h].digest} \ evidence]
  /\ pc' = [pc EXCEPT ![h] = "bind"]
  /\ UNCHANGED <<tables, req>>

AlreadyBound(h) == \E b \in bindings : SamePrimaryKey(b, B(h))

(* Mutant: only the primary key is unique.                                 *)
ConstraintsOK_NoIndex(h) ==
  /\ \A b \in bindings : ~SamePrimaryKey(b, B(h))
  /\ B(h).productRepo # Nil => B(h).productRepo \in registered

(* The other unique indexes and the foreign key to product_repo.           *)
ConstraintsOK(h) ==
  /\ \A b \in bindings : ~Conflict(b, B(h))
  /\ B(h).productRepo # Nil => B(h).productRepo \in registered

(* artifact_binding.upsert, ON CONFLICT (binding_id) DO NOTHING.           *)
InsertBinding(h) ==
  /\ pc[h] = "bind"
  /\ ~Blocked(h)
  /\ AlreadyBound(h) \/ ConstraintsOK(h)
  /\ tx' = [tx EXCEPT ![h].bindings = IF AlreadyBound(h) THEN {} ELSE {B(h)}]
  /\ pc' = [pc EXCEPT ![h] = "locate"]
  /\ UNCHANGED <<tables, req>>

(* artifact_binding.upsert raises.                                         *)
RefuseBinding(h) ==
  /\ pc[h] = "bind"
  /\ ~Blocked(h)
  /\ ~AlreadyBound(h) /\ ~ConstraintsOK(h)
  /\ Abort(h)

(* Mutant: a second advisory lock is taken once rows are written.          *)
RegisterLocations_Relock(h) ==
  /\ pc[h] \in {"locate", "relocate"}
  /\ ~Blocked(h)
  /\ tx' = [tx EXCEPT ![h].locations = References(req[h]) \ locations]
  /\ pc' = [pc EXCEPT ![h] = "lock"]
  /\ UNCHANGED <<tables, req>>

(* _register_locations, on both paths; none of the rows waits for another  *)
(* transaction's once the digest is locked.                                *)
RegisterLocations(h) ==
  /\ pc[h] \in {"locate", "relocate"}
  /\ ~Blocked(h)
  /\ tx' = [tx EXCEPT ![h].locations = References(req[h]) \ locations]
  /\ pc' = [pc EXCEPT ![h] = IF pc[h] = "locate" THEN "project" ELSE "recommit"]
  /\ UNCHANGED <<tables, req>>

ProjectionRow(h) ==
  [binding |-> BindingId(B(h)),
   key |-> Item(req[h].digest, tx[h].next).key, pos |-> tx[h].next]

(* ON CONFLICT (binding_id, item key) DO NOTHING.                          *)
Upsert(rows, row, present) ==
  IF \E x \in rows \cup present : x.binding = row.binding /\ x.key = row.key
  THEN rows
  ELSE rows \cup {row}

(* The projected rows after the next item; one without an id is skipped.   *)
NextRows(h) ==
  IF Item(req[h].digest, tx[h].next).key = Nil
  THEN tx[h].projections
  ELSE Upsert(tx[h].projections, ProjectionRow(h), projections)

(* One iteration of _project: the item raises or leaves its rows.          *)
Project(h) ==
  /\ pc[h] = "project"
  /\ tx[h].next <= Len(Document[req[h].digest])
  /\ \/ /\ Item(req[h].digest, tx[h].next).bad
        /\ Abort(h)
     \/ /\ ~Item(req[h].digest, tx[h].next).bad
        /\ tx' = [tx EXCEPT ![h].next = @ + 1, ![h].projections = NextRows(h)]
        /\ UNCHANGED <<tables, pc, req>>

(* COMMIT makes the transaction's rows visible, all at once.               *)
Publish(h) ==
  /\ evidence' = evidence \cup tx[h].evidence
  /\ bindings' = bindings \cup tx[h].bindings
  /\ locations' = locations \cup tx[h].locations
  /\ projections' = projections \cup tx[h].projections
  /\ UNCHANGED registered

ReadyToCommit(h) ==
  \/ pc[h] = "recommit"
  \/ pc[h] = "project" /\ tx[h].next > Len(Document[req[h].digest])

Commit(h) ==
  /\ ReadyToCommit(h)
  /\ Publish(h)
  /\ Return(h, IF pc[h] = "recommit" THEN "already" ELSE "bound")

(* COMMIT took effect but its answer was lost: the caller gets IngestError.*)
CommitUnanswered(h) ==
  /\ ReadyToCommit(h)
  /\ Publish(h)
  /\ Return(h, "failed")

(* BEGIN, or any statement of the transaction, raises.                     *)
Fail(h) == pc[h] \in InTx \cup {"begin"} /\ Abort(h)

(* The host dies during the call; the server rolls its transaction back.   *)
Crash(h) ==
  /\ pc[h] \in InTx \cup {"begin"}
  /\ Return(h, "idle")
  /\ UNCHANGED tables

-----------------------------------------------------------------------------
(* The statements a live host and its database go on executing.            *)
Statement(h) ==
  \/ Begin(h) \/ Lock(h)
  \/ LookupNew(h) \/ LookupSame(h) \/ LookupCollision(h)
  \/ RequirePredecessor(h)
  \/ InsertEvidence(h)
  \/ InsertBinding(h) \/ RefuseBinding(h)
  \/ RegisterLocations(h)
  \/ Project(h)
  \/ Commit(h)

Fault(h) == CommitUnanswered(h) \/ Fail(h) \/ Crash(h)

Next ==
  \/ \E p \in ProductRepo : Register(p)
  \/ \E h \in Host : \/ \E r \in Request : Call(h, r) \/ Reject(h, r)
                     \/ Statement(h)
                     \/ Fault(h)

Spec == Init /\ [][Next]_vars

(* A live host executes its next statement; PostgreSQL queues waiters in   *)
(* arrival order, so a wait that is over again and again ends; SQLite's    *)
(* busy timeout raises, so a waiting BEGIN ends one way or the other.      *)
Fairness ==
  \A h \in Host :
    /\ WF_vars(Statement(h))
    /\ WF_vars(pc[h] = "begin" /\ (Begin(h) \/ Fail(h)))
    /\ SF_vars(Lock(h))
    /\ SF_vars(InsertBinding(h) \/ RefuseBinding(h))

LiveSpec == Spec /\ Fairness

-----------------------------------------------------------------------------
(* Properties.                                                             *)

TxType ==
  [evidence : SUBSET Digest,
   bindings : SUBSET {Row(r) : r \in Request},
   locations : SUBSET UNION {References(r) : r \in Request},
   projections : SUBSET [binding : {BindingId(Row(r)) : r \in Request},
                         key : Key, pos : Nat],
   next : Nat \ {0}]

(* Types of the tables and of every host's call.                           *)
TypeOK ==
  /\ evidence \subseteq Digest
  /\ bindings \subseteq {Row(r) : r \in Request}
  /\ locations \subseteq UNION {References(r) : r \in Request}
  /\ projections \subseteq [binding : {BindingId(Row(r)) : r \in Request},
                            key : Key, pos : Nat]
  /\ registered \subseteq ProductRepo
  /\ pc \in [Host -> PC]
  /\ req \in [Host -> Request \cup {Nil}]
  /\ tx \in [Host -> TxType]

(* Validate, bind and project atomically or write nothing: every committed *)
(* binding has its evidence and exactly its document's projection, and no  *)
(* evidence, reference or projected row is there without a binding.        *)
Whole ==
  /\ evidence = {b.digest : b \in bindings}
  /\ projections = UNION {Projection(b) : b \in bindings}
  /\ \A l \in locations : \E b \in bindings : l[1] = BindingId(b)

(* Supersession is linear and grounded: no binding has two direct          *)
(* successors, each predecessor is a stored binding of the same context,   *)
(* and there is no cycle (any set of bindings has one whose predecessor is *)
(* outside it).                                                            *)
Linear ==
  /\ \A a, b \in bindings : a.supersedes = b.supersedes /\ a.supersedes # Nil => a = b
  /\ \A b \in bindings : b.supersedes # Nil => PredecessorOK(bindings, b)
  /\ \A S \in SUBSET bindings :
       S # {} => \E b \in S : \A p \in S : b.supersedes # BindingId(p)

(* Exactly one cumulative report is current per scope, product_repo and    *)
(* run once any is stored, whatever hosts raced to start or to extend the  *)
(* chain.                                                                  *)
OneCurrent ==
  \A b \in bindings : CumulativeReport(b) =>
    \E c \in Current(bindings) :
      /\ CumulativeReport(c) /\ Chain(c) = Chain(b)
      /\ \A d \in Current(bindings) :
           CumulativeReport(d) /\ Chain(d) = Chain(b) => d = c

(* IngestResult tells the truth: already_bound is False only for the one   *)
(* call that stored the binding, True only for a binding stored before by  *)
(* an equal request, and in both cases the stored row is the requested one *)
(* and every reference passed is registered.                               *)
AnswerStep ==
  \A h \in Host :
    /\ pc[h] \notin Idle /\ pc'[h] = "bound" =>
         /\ \A b \in bindings : ~SamePrimaryKey(b, B(h))
         /\ B(h) \in bindings'
         /\ References(req[h]) \subseteq locations'
    /\ pc[h] \notin Idle /\ pc'[h] = "already" =>
         /\ B(h) \in bindings
         /\ References(req[h]) \subseteq locations'

(* AnswerStep of every step.                                               *)
AnswersTrue == [][AnswerStep]_vars

(* No wait cycle between transactions: in any set of hosts one waits for   *)
(* none of the others (digest lock first, then rows; nothing after the     *)
(* binding row waits).                                                     *)
NoWaitCycle ==
  \A S \in SUBSET Host :
    S # {} => \E h \in S : \A o \in S : ~WaitsFor(h, o)

(* Every ingest call ends, with a result or an error.                      *)
EveryCallEnds ==
  \A h \in Host : pc[h] \notin Idle ~> pc[h] \in Idle

(* The interleaved statements implement the one-step ingest of StoreAbs.   *)
Abs == INSTANCE StoreAbs
         WITH evidence <- evidence, bindings <- bindings, locations <- locations,
              projections <- projections, registered <- registered
ImplementsAbs == Abs!AbsSpec
=============================================================================
