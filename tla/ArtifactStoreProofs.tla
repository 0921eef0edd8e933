------------------------ MODULE ArtifactStoreProofs ------------------------
(***************************************************************************)
(* Proofs about ArtifactStore for any number of hosts, any requests, any   *)
(* documents and either dialect.                                           *)
(***************************************************************************)
EXTENDS ArtifactStore, SequenceTheorems, TLAPS

-----------------------------------------------------------------------------
(* Part 1: types.                                                          *)

(* A call in progress is for a request that passed validation.             *)
Calls == \A h \in Host : pc[h] \notin Idle => req[h] \in Request /\ Valid(req[h])

TypeInv == TypeOK /\ Calls

(* The item a projection loop looks at is a record with a key or Nil.      *)
LEMMA ItemType ==
  ASSUME NEW d \in Digest, NEW i \in Nat, 1 <= i, i <= Len(Document[d])
  PROVE  /\ Item(d, i).key \in Key \cup {Nil}
         /\ Item(d, i).bad \in BOOLEAN
<1>1. Document[d] \in Seq([key : Key \cup {Nil}, bad : BOOLEAN])
  BY DocumentAssumption
<1>2. Document[d][i] \in [key : Key \cup {Nil}, bad : BOOLEAN]
  <2> DEFINE S == [key : Key \cup {Nil}, bad : BOOLEAN]
  <2>1. Document[d] \in Seq(S)
    BY <1>1
  <2>2. i \in 1..Len(Document[d])
    BY <2>1, LenProperties
  <2> HIDE DEF S
  <2>3. Document[d][i] \in S
    BY <2>1, <2>2, ElementOfSeq
  <2> QED BY <2>3 DEF S
<1> QED BY <1>2 DEF Item

LEMMA RequestDigest ==
  ASSUME NEW r \in Request
  PROVE  r.digest \in Digest
BY RequestAssumption DEF RequestType

LEMMA NoTxType == NoTx \in TxType
BY DEF NoTx, TxType

(* Leaving a call keeps the types.                                         *)
LEMMA ReturnType ==
  ASSUME TypeInv, NEW h \in Host, NEW answer \in Idle, Return(h, answer)
  PROVE  /\ pc' \in [Host -> PC]
         /\ req' \in [Host -> Request \cup {Nil}]
         /\ tx' \in [Host -> TxType]
         /\ Calls'
<1>1. pc' \in [Host -> PC]
  BY DEF TypeInv, TypeOK, Return, PC
<1>2. req' \in [Host -> Request \cup {Nil}]
  BY DEF TypeInv, TypeOK, Return
<1>3. tx' \in [Host -> TxType]
  BY NoTxType DEF TypeInv, TypeOK, Return
<1>4. Calls'
  BY DEF TypeInv, TypeOK, Return, Calls
<1> QED BY <1>1, <1>2, <1>3, <1>4

(* Moving to the next statement keeps the types.                           *)
LEMMA AdvanceType ==
  ASSUME TypeInv, NEW h \in Host, pc[h] \notin Idle, NEW q \in PC,
         pc' = [pc EXCEPT ![h] = q], req' = req
  PROVE  pc' \in [Host -> PC] /\ req' \in [Host -> Request \cup {Nil}] /\ Calls'
BY DEF TypeInv, TypeOK, Calls

LEMMA TypeInit == Init => TypeInv
<1> SUFFICES ASSUME Init PROVE TypeInv
  OBVIOUS
<1>1. Calls
  BY DEF Init, Calls, Idle
<1>2. tx \in [Host -> TxType]
  BY NoTxType DEF Init
<1> QED BY <1>1, <1>2 DEF Init, TypeInv, TypeOK, PC, Idle

(* A commit keeps the types of the tables.                                 *)
LEMMA PublishType ==
  ASSUME TypeInv, NEW h \in Host, Publish(h)
  PROVE  /\ evidence' \subseteq Digest
         /\ bindings' \subseteq {Row(r) : r \in Request}
         /\ locations' \subseteq UNION {References(r) : r \in Request}
         /\ projections' \subseteq [binding : {BindingId(Row(r)) : r \in Request},
                                   key : Key, pos : Nat]
         /\ registered' \subseteq ProductRepo
<1> DEFINE Rows == {Row(r) : r \in Request}
           Locs == UNION {References(r) : r \in Request}
           Projs == [binding : {BindingId(Row(r)) : r \in Request}, key : Key, pos : Nat]
<1>1. tx[h] \in [evidence : SUBSET Digest, bindings : SUBSET Rows,
                 locations : SUBSET Locs, projections : SUBSET Projs,
                 next : Nat \ {0}]
  BY DEF TypeInv, TypeOK, TxType
<1>2. /\ evidence \subseteq Digest /\ bindings \subseteq Rows /\ locations \subseteq Locs
      /\ projections \subseteq Projs /\ registered \subseteq ProductRepo
  BY DEF TypeInv, TypeOK
<1> HIDE DEF Rows, Locs, Projs
<1>3. /\ tx[h].evidence \subseteq Digest /\ tx[h].bindings \subseteq Rows
      /\ tx[h].locations \subseteq Locs /\ tx[h].projections \subseteq Projs
  BY <1>1
<1>4. /\ evidence' \subseteq Digest /\ bindings' \subseteq Rows /\ locations' \subseteq Locs
      /\ projections' \subseteq Projs /\ registered' \subseteq ProductRepo
  BY <1>2, <1>3 DEF Publish
<1> QED BY <1>4 DEF Rows, Locs, Projs

(* Every step keeps the types and the validity of the calls in progress.   *)
LEMMA TypeStep == TypeInv /\ [Next]_vars => TypeInv'
<1> SUFFICES ASSUME TypeInv, [Next]_vars PROVE TypeInv'
  OBVIOUS
<1> USE DEF tables
<1>1. ASSUME NEW p \in ProductRepo, Register(p) PROVE TypeInv'
  BY <1>1 DEF Register, TypeInv, TypeOK, Calls
<1>2. ASSUME NEW h \in Host, NEW r \in Request, Call(h, r) PROVE TypeInv'
  <2>1. pc' \in [Host -> PC] /\ req' \in [Host -> Request \cup {Nil}]
    BY <1>2 DEF Call, TypeInv, TypeOK, PC
  <2>2. Calls'
    BY <1>2 DEF Call, TypeInv, TypeOK, Calls
  <2> QED BY <1>2, <2>1, <2>2 DEF Call, TypeInv, TypeOK
<1>3. ASSUME NEW h \in Host, NEW r \in Request, Reject(h, r) PROVE TypeInv'
  <2>1. pc' \in [Host -> PC]
    BY <1>3 DEF Reject, TypeInv, TypeOK, PC, Idle
  <2>2. Calls'
    BY <1>3 DEF Reject, TypeInv, TypeOK, Calls, Idle
  <2> QED BY <1>3, <2>1, <2>2 DEF Reject, TypeInv, TypeOK
<1>4. ASSUME NEW h \in Host, Abort(h) PROVE TypeInv'
  <2>1. "failed" \in Idle
    BY DEF Idle
  <2>2. Return(h, "failed") /\ UNCHANGED tables
    BY <1>4 DEF Abort
  <2> QED BY <2>1, <2>2, ReturnType DEF TypeInv, TypeOK
<1>5. ASSUME NEW h \in Host, pc[h] \notin Idle, NEW q \in PC,
             pc' = [pc EXCEPT ![h] = q], UNCHANGED <<tables, req, tx>>
      PROVE  TypeInv'
  BY <1>5, AdvanceType DEF TypeInv, TypeOK
<1>6. ASSUME NEW h \in Host, Begin(h) \/ Lock(h) \/ LookupNew(h) \/ LookupSame(h)
      PROVE  TypeInv'
  <2>1. PICK q \in PC : pc' = [pc EXCEPT ![h] = q]
    BY <1>6 DEF Begin, Lock, LookupNew, LookupSame, PC, InTx, Locked
  <2>2. pc[h] \notin Idle /\ UNCHANGED <<tables, req, tx>>
    BY <1>6 DEF Begin, Lock, LookupNew, LookupSame, Idle
  <2> QED BY <2>1, <2>2, <1>5
<1>7. ASSUME NEW h \in Host, LookupCollision(h) \/ RefuseBinding(h) \/ Fail(h) PROVE TypeInv'
  BY <1>7, <1>4 DEF LookupCollision, RefuseBinding, Fail
<1>8. ASSUME NEW h \in Host, RequirePredecessor(h) PROVE TypeInv'
  <2>1. "evidence" \in PC /\ "predecessor" \notin Idle
    BY DEF PC, InTx, Locked, Idle
  <2> QED BY <2>1, <1>8, <1>4, <1>5 DEF RequirePredecessor
<1>9. ASSUME NEW h \in Host, pc[h] \notin Idle, NEW q \in PC,
             pc' = [pc EXCEPT ![h] = q], UNCHANGED <<tables, req>>,
             tx' \in [Host -> TxType]
      PROVE  TypeInv'
  BY <1>9, AdvanceType DEF TypeInv, TypeOK
<1>10. ASSUME NEW h \in Host, InsertEvidence(h) PROVE TypeInv'
  <2>1. pc[h] \notin Idle /\ "bind" \in PC
    BY <1>10 DEF InsertEvidence, Idle, PC, InTx, Locked
  <2>2. req[h].digest \in Digest
    BY <2>1, RequestDigest DEF TypeInv, Calls
  <2>3. tx' \in [Host -> TxType]
    BY <1>10, <2>2 DEF InsertEvidence, TypeInv, TypeOK, TxType
  <2> QED BY <1>9, <1>10, <2>1, <2>3 DEF InsertEvidence
<1>11. ASSUME NEW h \in Host, InsertBinding(h) PROVE TypeInv'
  <2>1. pc[h] \notin Idle /\ "locate" \in PC
    BY <1>11 DEF InsertBinding, Idle, PC, InTx, Locked
  <2>2. B(h) \in {Row(r) : r \in Request}
    BY <2>1 DEF TypeInv, Calls, B
  <2>3. tx' \in [Host -> TxType]
    BY <1>11, <2>2 DEF InsertBinding, TypeInv, TypeOK, TxType
  <2> QED BY <1>9, <1>11, <2>1, <2>3 DEF InsertBinding
<1>12. ASSUME NEW h \in Host, RegisterLocations(h) PROVE TypeInv'
  <2>1. pc[h] \notin Idle /\ "project" \in PC /\ "recommit" \in PC
    BY <1>12 DEF RegisterLocations, Idle, PC, InTx, Locked
  <2>2. References(req[h]) \subseteq UNION {References(r) : r \in Request}
    BY <2>1 DEF TypeInv, Calls
  <2>3. tx' \in [Host -> TxType]
    BY <1>12, <2>2 DEF RegisterLocations, TypeInv, TypeOK, TxType
  <2> QED BY <1>9, <1>12, <2>1, <2>3 DEF RegisterLocations
<1>13. ASSUME NEW h \in Host, Project(h) PROVE TypeInv'
  <2> DEFINE n == tx[h].next
             d == req[h].digest
  <2>1. pc[h] \notin Idle /\ pc[h] \in PC
    BY <1>13 DEF Project, Idle, TypeInv, TypeOK, PC, InTx, Locked
  <2>2. req[h] \in Request /\ d \in Digest
    BY <2>1, RequestDigest DEF TypeInv, Calls
  <2>3. n \in Nat \ {0}
    BY DEF TypeInv, TypeOK, TxType
  <2>4. CASE Abort(h)
    BY <2>4, <1>4
  <2>5. CASE ~Abort(h)
    <3> DEFINE Projs == [binding : {BindingId(Row(r)) : r \in Request}, key : Key, pos : Nat]
               new == IF Item(d, n).key = Nil THEN tx[h].projections
                      ELSE Upsert(tx[h].projections, ProjectionRow(h), projections)
    <3>1. Item(d, n).key \in Key \cup {Nil}
      BY <1>13, <2>2, <2>3, ItemType DEF Project
    <3>2. tx[h].projections \subseteq Projs
      BY DEF TypeInv, TypeOK, TxType
    <3>3. Item(d, n).key # Nil => ProjectionRow(h) \in Projs
      BY <3>1, <2>2, <2>3 DEF ProjectionRow, B
    <3>4. new \subseteq Projs
      BY <3>2, <3>3 DEF Upsert
    <3>5. /\ tx' = [tx EXCEPT ![h].next = n + 1, ![h].projections = new]
          /\ UNCHANGED <<tables, pc, req>>
      BY <1>13, <2>5 DEF Project, NextRows
    <3>6. tx' \in [Host -> TxType]
      <4> DEFINE t == [tx[h] EXCEPT !.next = n + 1, !.projections = new]
      <4>1. n + 1 \in Nat \ {0}
        BY <2>3
      <4>2. tx[h] \in TxType /\ tx \in [Host -> TxType]
        BY DEF TypeInv, TypeOK
      <4>3. tx' = [tx EXCEPT ![h] = t]
        <5> HIDE DEF new, n
        <5> QED BY <3>5
      <4>4. t \in TxType
        <5> HIDE DEF new, n
        <5> QED BY <3>4, <4>1, <4>2 DEF TxType
      <4> HIDE DEF t
      <4> QED BY <4>2, <4>3, <4>4
    <3> QED BY <3>5, <3>6 DEF TypeInv, TypeOK, Calls
  <2> QED BY <2>4, <2>5
<1>14. ASSUME NEW h \in Host, Commit(h) \/ CommitUnanswered(h) PROVE TypeInv'
  <2>1. PICK answer \in Idle : Return(h, answer)
    BY <1>14 DEF Commit, CommitUnanswered, Idle
  <2>2. Publish(h)
    BY <1>14 DEF Commit, CommitUnanswered
  <2> QED BY <2>1, <2>2, ReturnType, PublishType DEF TypeInv, TypeOK
<1>15. ASSUME NEW h \in Host, Crash(h) PROVE TypeInv'
  <2>1. "idle" \in Idle
    BY DEF Idle
  <2>2. Return(h, "idle") /\ UNCHANGED tables
    BY <1>15 DEF Crash
  <2> QED BY <2>1, <2>2, ReturnType DEF TypeInv, TypeOK
<1>16. CASE UNCHANGED vars
  BY <1>16 DEF vars, TypeInv, TypeOK, Calls
<1> QED
  BY <1>1, <1>2, <1>3, <1>6, <1>7, <1>8, <1>10, <1>11, <1>12, <1>13, <1>14,
     <1>15, <1>16 DEF Next, Statement, Fault

(* Types are never violated, whatever the hosts, requests and documents.   *)
THEOREM TypeCorrect == Spec => []TypeOK
<1>1. TypeInv => TypeOK
  BY DEF TypeInv
<1> QED BY <1>1, TypeInit, TypeStep, PTL DEF Spec

-----------------------------------------------------------------------------
(* Part 2: the inductive invariant of the transactions.                    *)

(* What the projection loop has left after the items before the next one:  *)
(* the first row of each key, and a row for every key met.                 *)
Projected(h) ==
  /\ tx[h].projections = FirstRows(B(h), tx[h].next - 1)
  /\ tx[h].next <= Len(Document[req[h].digest]) + 1
  /\ \A i \in 1..(tx[h].next - 1) :
       /\ ~Item(req[h].digest, i).bad
       /\ Item(req[h].digest, i).key # Nil =>
            \E x \in tx[h].projections : x.key = Item(req[h].digest, i).key

(* The rows an open transaction holds, statement by statement.             *)
TxShape(h) ==
  /\ IF pc[h] \in {"bind", "locate", "project"}
     THEN /\ tx[h].evidence \subseteq {req[h].digest}
          /\ req[h].digest \in evidence \cup tx[h].evidence
     ELSE tx[h].evidence = {}
  /\ tx[h].bindings = IF pc[h] \in {"locate", "project"} THEN {B(h)} ELSE {}
  /\ IF pc[h] \in {"project", "recommit"}
     THEN /\ tx[h].locations \subseteq References(req[h])
          /\ References(req[h]) \subseteq locations \cup tx[h].locations
     ELSE tx[h].locations = {}
  /\ IF pc[h] = "project" THEN Projected(h)
                          ELSE tx[h].projections = {} /\ tx[h].next = 1

(* What the earlier statements of a call established still holds.          *)
Checked(h) ==
  /\ pc[h] \in {"predecessor", "evidence", "bind", "locate", "project"} => ~AlreadyBound(h)
  /\ pc[h] \in {"evidence", "bind", "locate", "project"} =>
       (B(h).supersedes # Nil => PredecessorOK(bindings, B(h)))
  /\ pc[h] \in {"locate", "project"} => ConstraintsOK(h)
  /\ pc[h] \in {"relocate", "recommit"} => B(h) \in bindings

(* Two transactions past the lock never work on the same digest; SQLite    *)
(* has one transaction at a time.                                          *)
Exclusive ==
  /\ \A h \in Host : pc[h] = "lock" => Dialect = "postgres"
  /\ \A h, o \in Host : h # o /\ pc[h] \in Locked /\ pc[o] \in Locked =>
       Dialect = "postgres" /\ LockKey[req[h].digest] # LockKey[req[o].digest]

(* Uncommitted rows do not conflict with one another.                      *)
InFlight ==
  \A h, o \in Host : h # o =>
    \A a \in tx[h].bindings, b \in tx[o].bindings : ~Conflict(a, b)

(* Every cumulative chain that has a report has its root.                  *)
Rooted ==
  \A b \in bindings : CumulativeReport(b) =>
    \E c \in bindings : CumulativeRoot(c) /\ Chain(c) = Chain(b) /\ c.run # Nil

NoConflict == \A a, b \in bindings : a # b => ~Conflict(a, b)

TablesInv == NoConflict /\ Rooted /\ Whole /\ Linear /\ OneCurrent

IInv ==
  /\ TypeInv
  /\ \A h \in Host : TxShape(h) /\ Checked(h)
  /\ Exclusive
  /\ InFlight
  /\ TablesInv

(* Everything one host does.                                               *)
HostAction(h) ==
  \/ \E r \in Request : Call(h, r) \/ Reject(h, r)
  \/ Statement(h)
  \/ Fault(h)

(* A host's step leaves the calls of the other hosts alone.                *)
LEMMA Frame ==
  ASSUME TypeInv, NEW h \in Host, HostAction(h), NEW g \in Host, g # h
  PROVE  pc'[g] = pc[g] /\ req'[g] = req[g] /\ tx'[g] = tx[g]
<1>1. ASSUME NEW q, Return(h, q) PROVE pc'[g] = pc[g] /\ req'[g] = req[g] /\ tx'[g] = tx[g]
  BY <1>1 DEF Return, TypeInv, TypeOK
<1>2. ASSUME Abort(h) PROVE pc'[g] = pc[g] /\ req'[g] = req[g] /\ tx'[g] = tx[g]
  BY <1>1, <1>2 DEF Abort
<1>3. ASSUME NEW r \in Request, Call(h, r) \/ Reject(h, r)
      PROVE pc'[g] = pc[g] /\ req'[g] = req[g] /\ tx'[g] = tx[g]
  BY <1>3 DEF Call, Reject, TypeInv, TypeOK
<1>4. ASSUME Begin(h) \/ Lock(h) \/ LookupNew(h) \/ LookupSame(h) \/ InsertEvidence(h)
             \/ InsertBinding(h) \/ RegisterLocations(h)
      PROVE pc'[g] = pc[g] /\ req'[g] = req[g] /\ tx'[g] = tx[g]
  BY <1>4 DEF Begin, Lock, LookupNew, LookupSame, InsertEvidence, InsertBinding,
              RegisterLocations, TypeInv, TypeOK
<1>5. ASSUME RequirePredecessor(h) \/ Project(h)
      PROVE pc'[g] = pc[g] /\ req'[g] = req[g] /\ tx'[g] = tx[g]
  BY <1>2, <1>5 DEF RequirePredecessor, Project, TypeInv, TypeOK
<1> QED
  BY <1>1, <1>2, <1>3, <1>4, <1>5
  DEF HostAction, Statement, Fault, LookupCollision, RefuseBinding, Commit,
      CommitUnanswered, Fail, Crash

(* A host's step leaves the tables alone or commits its transaction.       *)
LEMMA TablesStep ==
  ASSUME NEW h \in Host, HostAction(h)
  PROVE  \/ UNCHANGED tables
         \/ ReadyToCommit(h) /\ Publish(h) /\ \E q \in Idle : Return(h, q)
<1>1. ASSUME Commit(h) \/ CommitUnanswered(h)
      PROVE  ReadyToCommit(h) /\ Publish(h) /\ \E q \in Idle : Return(h, q)
  BY <1>1 DEF Commit, CommitUnanswered, Idle
<1> QED
  BY <1>1
  DEF HostAction, Statement, Fault, Call, Reject, Begin, Lock, LookupNew, LookupSame,
      LookupCollision, RequirePredecessor, InsertEvidence, InsertBinding, RefuseBinding,
      RegisterLocations, Project, Fail, Crash, Abort

(* The tables only grow.                                                   *)
LEMMA Grow ==
  ASSUME NEW h \in Host, HostAction(h)
  PROVE  /\ evidence \subseteq evidence' /\ bindings \subseteq bindings'
         /\ locations \subseteq locations' /\ registered' = registered
BY TablesStep DEF tables, Publish

(* A commit adds no binding, or the one row of a checked call.             *)
LEMMA NewBinding ==
  ASSUME IInv, NEW h \in Host, HostAction(h), NEW b \in bindings', b \notin bindings
  PROVE  /\ pc[h] = "project" /\ tx[h].next > Len(Document[req[h].digest])
         /\ b = B(h) /\ b \in tx[h].bindings
         /\ Publish(h)
<1>1. ReadyToCommit(h) /\ Publish(h)
  BY TablesStep DEF tables
<1>2. b \in tx[h].bindings
  BY <1>1 DEF Publish
<1>3. TxShape(h)
  BY DEF IInv
<1>4. pc[h] \in {"locate", "project"} /\ b = B(h)
  BY <1>2, <1>3 DEF TxShape
<1> QED BY <1>1, <1>2, <1>4 DEF ReadyToCommit

(* Other hosts' invariants survive a host's step.                          *)
LEMMA OtherStep ==
  ASSUME IInv, NEW h \in Host, HostAction(h), NEW g \in Host, g # h
  PROVE  TxShape(g)' /\ Checked(g)'
<1>1. pc'[g] = pc[g] /\ req'[g] = req[g] /\ tx'[g] = tx[g]
  BY Frame DEF IInv
<1>2. B(g)' = B(g)
  BY <1>1 DEF B
<1>3. TxShape(g) /\ Checked(g)
  BY DEF IInv
<1>4. TxShape(g)'
  <2>1. Projected(g)' = Projected(g)
    BY <1>1, <1>2 DEF Projected
  <2> QED BY <1>1, <1>2, <1>3, <2>1, Grow DEF TxShape
<1>5. ASSUME pc[g] \in {"predecessor", "evidence", "bind", "locate", "project"},
             NEW b \in bindings', b \notin bindings
      PROVE  ~SamePrimaryKey(b, B(g))
  <2>1. pc[h] \in Locked /\ pc[g] \in Locked /\ b = B(h)
    BY <1>5, NewBinding DEF Locked
  <2>2. LockKey[req[h].digest] # LockKey[req[g].digest]
    BY <2>1 DEF IInv, Exclusive
  <2>3. b.digest # B(g).digest
    BY <2>1, <2>2 DEF B, Row
  <2> QED BY <2>3 DEF SamePrimaryKey, BindingId
<1>6. pc[g] \in {"predecessor", "evidence", "bind", "locate", "project"} => ~AlreadyBound(g)'
  BY <1>2, <1>3, <1>5 DEF Checked, AlreadyBound
<1>7. PredecessorOK(bindings, B(g)) => PredecessorOK(bindings, B(g))'
  BY <1>2, Grow DEF PredecessorOK
<1>8. ASSUME pc[g] \in {"locate", "project"} PROVE ConstraintsOK(g)'
  <2>1. ASSUME NEW b \in bindings' PROVE ~Conflict(b, B(g))
    <3>1. CASE b \in bindings
      BY <1>3, <1>8, <3>1 DEF Checked, ConstraintsOK
    <3>2. CASE b \notin bindings
      <4>1. b \in tx[h].bindings
        BY <3>2, NewBinding
      <4>2. B(g) \in tx[g].bindings
        BY <1>3, <1>8 DEF TxShape
      <4> QED BY <4>1, <4>2 DEF IInv, InFlight
    <3> QED BY <3>1, <3>2
  <2> QED BY <1>2, <1>3, <1>8, <2>1, Grow DEF Checked, ConstraintsOK
<1>9. B(g) \in bindings => B(g)' \in bindings'
  BY <1>2, Grow
<1>10. Checked(g)'
  BY <1>1, <1>2, <1>3, <1>6, <1>7, <1>8, <1>9 DEF Checked
<1> QED BY <1>4, <1>10

(* The first-row-of-each-key reading of the projection loop: one more      *)
(* converted item extends FirstRows by its row exactly when its key is new.*)
LEMMA ProjectOne ==
  ASSUME IInv, NEW h \in Host, Project(h), ~Abort(h)
  PROVE  Projected(h)' /\ tx'[h].next \in Nat
<1> DEFINE n == tx[h].next
           d == req[h].digest
           row == ProjectionRow(h)
           old == tx[h].projections
           new == tx'[h].projections
<1>1. pc[h] = "project" /\ pc[h] \notin Idle /\ n <= Len(Document[d])
  BY DEF Project, Idle
<1>2. req[h] \in Request /\ d \in Digest /\ n \in Nat \ {0}
  BY <1>1, RequestDigest DEF IInv, TypeInv, TypeOK, Calls, TxType
<1>3. Len(Document[d]) \in Nat
  BY <1>2, DocumentAssumption, LenProperties
<1>4. /\ UNCHANGED <<tables, pc, req>>
      /\ ~Item(d, n).bad
      /\ tx' = [tx EXCEPT ![h].next = n + 1,
                          ![h].projections = IF Item(d, n).key = Nil THEN old
                                             ELSE Upsert(old, row, projections)]
  BY DEF Project, NextRows
<1>5. /\ tx'[h].next = n + 1
      /\ new = IF Item(d, n).key = Nil THEN old ELSE Upsert(old, row, projections)
  BY <1>4 DEF IInv, TypeInv, TypeOK, TxType
<1>6. B(h)' = B(h) /\ B(h).digest = d
  BY <1>4 DEF B, Row
<1>7. Projected(h)
  BY <1>1 DEF IInv, TxShape
<1>8. \A x \in projections : x.binding # row.binding
  <2> SUFFICES ASSUME NEW x \in projections, x.binding = row.binding PROVE FALSE
    OBVIOUS
  <2>1. PICK b \in bindings : x \in Projection(b)
    BY DEF IInv, TablesInv, Whole
  <2>2. x.binding = BindingId(b)
    BY <2>1 DEF Projection, FirstRows
  <2>3. SamePrimaryKey(b, B(h))
    BY <2>2 DEF SamePrimaryKey, ProjectionRow
  <2> QED BY <2>3, <1>1 DEF IInv, Checked, AlreadyBound
<1>9. \A x \in old : x.binding = row.binding
  BY <1>7 DEF Projected, FirstRows, ProjectionRow
<1>10. new = IF Item(d, n).key = Nil \/ \E x \in old : x.key = Item(d, n).key
             THEN old ELSE old \cup {row}
  <2>1. row.key = Item(d, n).key
    BY DEF ProjectionRow
  <2> QED BY <1>5, <1>8, <1>9, <2>1 DEF Upsert
<1>11. \A i \in 1..n : /\ ~Item(d, i).bad
                       /\ Item(d, i).key # Nil => \E x \in new : x.key = Item(d, i).key
  <2> SUFFICES ASSUME NEW i \in 1..n
               PROVE  /\ ~Item(d, i).bad
                      /\ Item(d, i).key # Nil => \E x \in new : x.key = Item(d, i).key
    OBVIOUS
  <2>1. CASE i \in 1..(n - 1)
    BY <2>1, <1>7, <1>10 DEF Projected
  <2>2. CASE i = n
    <3>1. row.key = Item(d, n).key
      BY DEF ProjectionRow
    <3> QED BY <2>2, <3>1, <1>4, <1>10
  <2> QED BY <2>1, <2>2, <1>2
<1>12. new = FirstRows(B(h), n)
  <2> DEFINE Fst(j) == /\ Item(d, j).key # Nil
                       /\ \A k \in 1..(j - 1) : Item(d, k).key # Item(d, j).key
             R(j) == [binding |-> BindingId(B(h)), key |-> Item(d, j).key, pos |-> j]
  <2>1. FirstRows(B(h), n) = {R(j) : j \in {i \in Items(d) : i <= n /\ Fst(i)}}
    BY <1>6 DEF FirstRows
  <2>2. old = {R(j) : j \in {i \in Items(d) : i <= n - 1 /\ Fst(i)}}
    BY <1>6, <1>7 DEF FirstRows, Projected
  <2>3. Items(d) = 1..Len(Document[d]) /\ n \in Items(d)
    BY <1>1, <1>2, <1>3 DEF Items
  <2>4. row = R(n)
    BY DEF ProjectionRow
  <2>5. Fst(n) <=> Item(d, n).key # Nil /\ ~\E x \in old : x.key = Item(d, n).key
    <3>1. ASSUME Fst(n), NEW x \in old, x.key = Item(d, n).key PROVE FALSE
      <4>1. PICK j \in Items(d) : j <= n - 1 /\ x = R(j)
        BY <2>2
      <4>2. j \in 1..(n - 1) /\ Item(d, j).key = Item(d, n).key
        BY <4>1, <3>1, <2>3, <1>2
      <4> QED BY <3>1, <4>2
    <3>2. ASSUME Item(d, n).key # Nil, ~Fst(n) PROVE \E x \in old : x.key = Item(d, n).key
      <4>1. PICK k \in 1..(n - 1) : Item(d, k).key = Item(d, n).key
        BY <3>2
      <4> QED BY <3>2, <4>1, <1>7 DEF Projected
    <3> QED BY <3>1, <3>2
  <2> HIDE DEF Fst, R
  <2>6. \A j \in Items(d) : j <= n <=> (j <= n - 1 \/ j = n)
    BY <2>3, <1>2, <1>3
  <2>7. FirstRows(B(h), n) = IF Fst(n) THEN old \cup {R(n)} ELSE old
    BY <2>1, <2>2, <2>3, <2>6, <1>2
  <2> QED BY <2>4, <2>5, <2>7, <1>10
<1>13. n + 1 - 1 = n /\ n + 1 <= Len(Document[d]) + 1 /\ n + 1 \in Nat
  BY <1>1, <1>2, <1>3
<1>14. Projected(h)'
  <2>5. req'[h] = req[h]
    BY <1>4
  <2>6. tx'[h].next - 1 = n
    <3>1. \A m : m = n + 1 => m - 1 = n
      BY <1>2
    <3> HIDE DEF n
    <3> QED BY <3>1, <1>5
  <2>1. req'[h] = req[h] /\ tx'[h].next - 1 = n
    BY <2>5, <2>6
  <2>2. tx'[h].projections = FirstRows(B(h)', tx'[h].next - 1)
    BY <2>1, <1>6, <1>12
  <2>3. tx'[h].next <= Len(Document[req'[h].digest]) + 1
    BY <2>1, <1>5, <1>13
  <2>4. \A i \in 1..(tx'[h].next - 1) :
          /\ ~Item(req'[h].digest, i).bad
          /\ Item(req'[h].digest, i).key # Nil =>
               \E x \in tx'[h].projections : x.key = Item(req'[h].digest, i).key
    BY <2>1, <1>11
  <2> QED BY <2>2, <2>3, <2>4 DEF Projected
<1> QED BY <1>5, <1>13, <1>14

(* The acting host's own invariants survive its step.                      *)
LEMMA OwnStep ==
  ASSUME IInv, NEW h \in Host, HostAction(h)
  PROVE  TxShape(h)' /\ Checked(h)'
<1> USE DEF tables
<1> DEFINE Own == TxShape(h)' /\ Checked(h)'
<1>1. TxShape(h) /\ Checked(h) /\ TypeInv
  BY DEF IInv
<1>2. pc \in [Host -> PC] /\ req \in [Host -> Request \cup {Nil}] /\ tx \in [Host -> TxType]
  BY <1>1 DEF TypeInv, TypeOK
<1>3. ASSUME NEW q \in Idle, Return(h, q) PROVE Own
  <2>1. pc'[h] \in Idle /\ tx'[h] = NoTx
    BY <1>2, <1>3 DEF Return
  <2> QED BY <2>1 DEF TxShape, Checked, NoTx, Idle
<1>4. ASSUME Abort(h) PROVE Own
  <2>1. "failed" \in Idle
    BY DEF Idle
  <2> QED BY <2>1, <1>3, <1>4 DEF Abort
<1>5. ASSUME NEW r \in Request, Call(h, r) \/ Reject(h, r) PROVE Own
  <2>1. pc'[h] \in {"begin", "failed"} /\ tx' = tx /\ pc[h] \in Idle
    BY <1>2, <1>5 DEF Call, Reject
  <2> QED BY <2>1, <1>1 DEF TxShape, Checked, Idle
<1>6. ASSUME Begin(h) \/ Lock(h) PROVE Own
  <2>1. pc'[h] \in {"lock", "lookup"} /\ tx' = tx /\ pc[h] \in {"begin", "lock"}
    BY <1>2, <1>6 DEF Begin, Lock
  <2> QED BY <2>1, <1>1 DEF TxShape, Checked
<1>7. ASSUME LookupNew(h) PROVE Own
  <2>1. /\ pc'[h] = IF req[h].supersedes = Nil THEN "evidence" ELSE "predecessor"
        /\ UNCHANGED <<tables, req, tx>> /\ pc[h] = "lookup" /\ ~AlreadyBound(h)
    BY <1>2, <1>7 DEF LookupNew, AlreadyBound
  <2>2. AlreadyBound(h)' = AlreadyBound(h) /\ B(h)' = B(h) /\ B(h).supersedes = req[h].supersedes
    BY <2>1 DEF AlreadyBound, B, Row
  <2> QED BY <2>1, <2>2, <1>1 DEF TxShape, Checked
<1>8. ASSUME LookupSame(h) PROVE Own
  <2>1. /\ pc'[h] = "relocate" /\ UNCHANGED <<tables, req, tx>> /\ pc[h] = "lookup"
        /\ B(h) \in bindings
    BY <1>2, <1>8 DEF LookupSame
  <2> QED BY <2>1, <1>1 DEF TxShape, Checked, B
<1>9. ASSUME RequirePredecessor(h) PROVE Own
  <2>1. CASE Abort(h)
    BY <2>1, <1>4
  <2>2. CASE ~Abort(h)
    <3>1. /\ pc'[h] = "evidence" /\ UNCHANGED <<tables, req, tx>> /\ pc[h] = "predecessor"
          /\ PredecessorOK(bindings, B(h))
      BY <1>2, <1>9, <2>2 DEF RequirePredecessor
    <3>2. /\ AlreadyBound(h)' = AlreadyBound(h)
          /\ PredecessorOK(bindings, B(h))' = PredecessorOK(bindings, B(h))
      BY <3>1 DEF AlreadyBound, PredecessorOK, B
    <3> QED BY <3>1, <3>2, <1>1 DEF TxShape, Checked
  <2> QED BY <2>1, <2>2
<1>10. ASSUME UNCHANGED <<tables, req>>
       PROVE  /\ AlreadyBound(h)' = AlreadyBound(h) /\ B(h)' = B(h)
              /\ PredecessorOK(bindings, B(h))' = PredecessorOK(bindings, B(h))
              /\ ConstraintsOK(h)' = ConstraintsOK(h)
  BY <1>10 DEF AlreadyBound, PredecessorOK, ConstraintsOK, B
<1>11. ASSUME InsertEvidence(h) PROVE Own
  <2>1. /\ pc'[h] = "bind" /\ UNCHANGED <<tables, req>> /\ pc[h] = "evidence"
        /\ tx'[h] = [tx[h] EXCEPT !.evidence = {req[h].digest} \ evidence]
    BY <1>2, <1>11 DEF InsertEvidence
  <2>2. /\ tx'[h].evidence = {req[h].digest} \ evidence
        /\ tx'[h].bindings = tx[h].bindings /\ tx'[h].locations = tx[h].locations
        /\ tx'[h].projections = tx[h].projections /\ tx'[h].next = tx[h].next
    BY <2>1, <1>2 DEF TxType
  <2>3. TxShape(h)'
    BY <2>1, <2>2, <1>1 DEF TxShape
  <2>4. Checked(h)'
    BY <2>1, <1>1, <1>10 DEF Checked
  <2> QED BY <2>3, <2>4
<1>12. ASSUME InsertBinding(h) PROVE Own
  <2>1. ~AlreadyBound(h) /\ ConstraintsOK(h)
    BY <1>1, <1>12 DEF InsertBinding, Checked
  <2>2. /\ pc'[h] = "locate" /\ UNCHANGED <<tables, req>> /\ pc[h] = "bind"
        /\ tx'[h] = [tx[h] EXCEPT !.bindings = {B(h)}]
    BY <1>2, <1>12, <2>1 DEF InsertBinding
  <2>3. /\ tx'[h].bindings = {B(h)} /\ tx'[h].evidence = tx[h].evidence
        /\ tx'[h].locations = tx[h].locations
        /\ tx'[h].projections = tx[h].projections /\ tx'[h].next = tx[h].next
    BY <2>2, <1>2 DEF TxType
  <2>4. TxShape(h)'
    BY <2>2, <2>3, <1>1, <1>10 DEF TxShape
  <2>5. Checked(h)'
    BY <2>1, <2>2, <1>1, <1>10 DEF Checked
  <2> QED BY <2>4, <2>5
<1>13. ASSUME RegisterLocations(h) PROVE Own
  <2>1. /\ pc[h] \in {"locate", "relocate"} /\ UNCHANGED <<tables, req>>
        /\ pc'[h] = IF pc[h] = "locate" THEN "project" ELSE "recommit"
        /\ tx'[h] = [tx[h] EXCEPT !.locations = References(req[h]) \ locations]
    BY <1>2, <1>13 DEF RegisterLocations
  <2>2. /\ tx'[h].locations = References(req[h]) \ locations
        /\ tx'[h].evidence = tx[h].evidence /\ tx'[h].bindings = tx[h].bindings
        /\ tx'[h].projections = tx[h].projections /\ tx'[h].next = tx[h].next
    BY <2>1, <1>2 DEF TxType
  <2>3. tx[h].projections = {} /\ tx[h].next = 1
    BY <2>1, <1>1 DEF TxShape
  <2>4. ASSUME pc[h] = "locate" PROVE Projected(h)'
    <3>1. req[h] \in Request
      BY <2>4, <1>1 DEF TypeInv, Calls, Idle
    <3>2. Len(Document[req[h].digest]) \in Nat
      BY <3>1, RequestDigest, DocumentAssumption, LenProperties
    <3>3. FirstRows(B(h), 0) = {}
      <4>1. B(h).digest = req[h].digest
        BY DEF B, Row
      <4>2. {j \in Items(B(h).digest) : j <= 0} = {}
        BY <4>1, <3>2 DEF Items
      <4> QED BY <4>2 DEF FirstRows
    <3>4. tx'[h].next - 1 = 0 /\ tx'[h].projections = {} /\ req'[h] = req[h] /\ B(h)' = B(h)
      BY <2>1, <2>2, <2>3, <1>10
    <3>5. tx'[h].projections = FirstRows(B(h)', tx'[h].next - 1)
      BY <3>3, <3>4
    <3>6. tx'[h].next <= Len(Document[req'[h].digest]) + 1
      BY <3>2, <3>4, <2>2, <2>3
    <3>7. 1..(tx'[h].next - 1) = {}
      BY <3>4
    <3> QED BY <3>5, <3>6, <3>7 DEF Projected
  <2>5. TxShape(h)'
    BY <2>1, <2>2, <2>3, <2>4, <1>1, <1>10 DEF TxShape
  <2>6. Checked(h)'
    BY <2>1, <1>1, <1>10 DEF Checked
  <2> QED BY <2>5, <2>6
<1>14. ASSUME Project(h) PROVE Own
  <2>1. CASE Abort(h)
    BY <2>1, <1>4
  <2>2. CASE ~Abort(h)
    <3>1. UNCHANGED <<tables, pc, req>> /\ pc[h] = "project"
      BY <1>14, <2>2 DEF Project
    <3>2. Projected(h)'
      BY <1>14, <2>2, ProjectOne
    <3>3. /\ tx'[h].locations = tx[h].locations
          /\ tx'[h].evidence = tx[h].evidence /\ tx'[h].bindings = tx[h].bindings
      BY <1>2, <1>14, <2>2 DEF Project, TxType
    <3>4. TxShape(h)'
      BY <3>1, <3>2, <3>3, <1>1, <1>10 DEF TxShape
    <3>5. Checked(h)'
      BY <3>1, <1>1, <1>10 DEF Checked
    <3> QED BY <3>4, <3>5
  <2> QED BY <2>1, <2>2
<1>15. ASSUME Commit(h) \/ CommitUnanswered(h) \/ Crash(h) PROVE Own
  <2>1. PICK q \in Idle : Return(h, q)
    BY <1>15 DEF Commit, CommitUnanswered, Crash, Idle
  <2> QED BY <2>1, <1>3
<1> HIDE DEF Own
<1>16. Own
  BY <1>4, <1>5, <1>6, <1>7, <1>8, <1>9, <1>11, <1>12, <1>13, <1>14, <1>15
  DEF HostAction, Statement, Fault, LookupCollision, RefuseBinding, Fail
<1> QED BY <1>16 DEF Own

(* A host enters the locked part of its transaction only through Begin     *)
(* (SQLite) or Lock (PostgreSQL), when nobody else is in its way.          *)
LEMMA Enter ==
  ASSUME IInv, NEW h \in Host, HostAction(h)
  PROVE  /\ pc'[h] \in Locked =>
              /\ req'[h] = req[h]
              /\ \/ pc[h] \in Locked
                 \/ pc[h] = "begin" /\ Dialect = "sqlite" /\ ~Blocked(h)
                 \/ pc[h] = "lock" /\ ~Blocked(h)
         /\ pc'[h] = "lock" => Dialect = "postgres"
<1> DEFINE Goal == /\ pc'[h] \in Locked =>
                        /\ req'[h] = req[h]
                        /\ \/ pc[h] \in Locked
                           \/ pc[h] = "begin" /\ Dialect = "sqlite" /\ ~Blocked(h)
                           \/ pc[h] = "lock" /\ ~Blocked(h)
                   /\ pc'[h] = "lock" => Dialect = "postgres"
<1>1. pc \in [Host -> PC] /\ req \in [Host -> Request \cup {Nil}] /\ tx \in [Host -> TxType]
  BY DEF IInv, TypeInv, TypeOK
<1>2. ASSUME NEW q \in Idle, Return(h, q) PROVE Goal
  <2>1. pc'[h] = q
    BY <1>1, <1>2 DEF Return
  <2> QED BY <2>1, <1>2 DEF Idle, Locked
<1>3. ASSUME Abort(h) PROVE Goal
  <2>1. "failed" \in Idle
    BY DEF Idle
  <2> QED BY <2>1, <1>2, <1>3 DEF Abort
<1>4. ASSUME NEW r \in Request, Call(h, r) \/ Reject(h, r) PROVE Goal
  BY <1>1, <1>4 DEF Call, Reject, Locked
<1>5. ASSUME Begin(h) \/ Lock(h) PROVE Goal
  BY <1>1, <1>5, DialectAssumption DEF Begin, Lock, Locked
<1>6. ASSUME LookupNew(h) \/ LookupSame(h) \/ InsertEvidence(h) \/ InsertBinding(h)
             \/ RegisterLocations(h)
      PROVE Goal
  BY <1>1, <1>6 DEF LookupNew, LookupSame, InsertEvidence, InsertBinding,
                    RegisterLocations, Locked
<1>7. ASSUME RequirePredecessor(h) \/ Project(h) PROVE Goal
  <2>1. CASE Abort(h)
    BY <2>1, <1>3
  <2>2. CASE ~Abort(h)
    BY <1>1, <1>7, <2>2 DEF RequirePredecessor, Project, Locked
  <2> QED BY <2>1, <2>2
<1>8. ASSUME Commit(h) \/ CommitUnanswered(h) \/ Crash(h) PROVE Goal
  <2>1. PICK q \in Idle : Return(h, q)
    BY <1>8 DEF Commit, CommitUnanswered, Crash, Idle
  <2> QED BY <2>1, <1>2
<1> HIDE DEF Goal
<1>9. Goal
  BY <1>3, <1>4, <1>5, <1>6, <1>7, <1>8
  DEF HostAction, Statement, Fault, LookupCollision, RefuseBinding, Fail
<1> QED BY <1>9 DEF Goal

LEMMA ExclusiveStep ==
  ASSUME IInv, NEW h \in Host, HostAction(h)
  PROVE  Exclusive'
<1>1. ASSUME NEW g \in Host, pc'[g] = "lock" PROVE Dialect = "postgres"
  BY <1>1, Enter, Frame DEF IInv, Exclusive
<1>2. ASSUME NEW g \in Host, g # h, pc'[h] \in Locked, pc'[g] \in Locked
      PROVE  Dialect = "postgres" /\ LockKey[req'[h].digest] # LockKey[req'[g].digest]
  <2>1. pc[g] \in Locked /\ req'[g] = req[g] /\ req'[h] = req[h]
    BY <1>2, Enter, Frame DEF IInv
  <2>2. CASE pc[h] \in Locked
    BY <2>1, <2>2, <1>2 DEF IInv, Exclusive
  <2>3. CASE pc[h] = "begin" /\ Dialect = "sqlite" /\ ~Blocked(h)
    <3>1. WaitsFor(h, g)
      BY <2>1, <2>3, <1>2 DEF WaitsFor, WriterHeld, InTx
    <3> QED BY <2>3, <3>1 DEF Blocked
  <2>4. CASE pc[h] = "lock" /\ ~Blocked(h)
    <3>1. ~DigestHeld(h, g)
      BY <2>4, <1>2 DEF Blocked, WaitsFor
    <3>2. Dialect = "postgres"
      BY <2>4 DEF IInv, Exclusive
    <3> QED BY <2>1, <3>1, <3>2 DEF DigestHeld
  <2> QED BY <1>2, <2>2, <2>3, <2>4, Enter
<1>3. ASSUME NEW g \in Host, NEW o \in Host, g # o, g # h, o # h,
             pc'[g] \in Locked, pc'[o] \in Locked
      PROVE  Dialect = "postgres" /\ LockKey[req'[g].digest] # LockKey[req'[o].digest]
  <2>1. pc'[g] = pc[g] /\ pc'[o] = pc[o] /\ req'[g] = req[g] /\ req'[o] = req[o]
    BY <1>3, Frame DEF IInv
  <2> QED BY <1>3, <2>1 DEF IInv, Exclusive
<1> QED BY <1>1, <1>2, <1>3 DEF Exclusive

LEMMA ConflictSymmetric ==
  ASSUME NEW a, NEW b, Conflict(a, b)
  PROVE  Conflict(b, a)
BY DEF Conflict, SamePrimaryKey, SameSuccessor, SameRoot, Chain

LEMMA InFlightStep ==
  ASSUME IInv, NEW h \in Host, HostAction(h)
  PROVE  InFlight'
<1>1. ASSUME NEW g \in Host, g # h, NEW a \in tx'[h].bindings, NEW b \in tx'[g].bindings
      PROVE  ~Conflict(a, b) /\ ~Conflict(b, a)
  <2>1. b \in tx[g].bindings
    BY <1>1, Frame DEF IInv
  <2>2. TxShape(h)' /\ TxShape(h)
    BY OwnStep DEF IInv
  <2>3. pc'[h] \in {"locate", "project"} /\ a = B(h)'
    BY <1>1, <2>2 DEF TxShape
  <2>4. B(h)' = B(h)
    BY <2>3, Enter DEF B, Locked
  <2>5. CASE a \in tx[h].bindings
    BY <1>1, <2>1, <2>5 DEF IInv, InFlight
  <2>6. CASE a \notin tx[h].bindings
    <3>1. pc[h] \notin {"locate", "project"}
      BY <2>2, <2>3, <2>4, <2>6 DEF TxShape
    <3>2. pc[h] = "bind" /\ ~Blocked(h)
      <4>1. pc \in [Host -> PC]
        BY DEF IInv, TypeInv, TypeOK
      <4>2. ASSUME NEW q \in Idle, Return(h, q) PROVE FALSE
        <5>1. pc'[h] = q
          BY <4>1, <4>2 DEF Return
        <5> QED BY <5>1, <4>2, <2>3 DEF Idle
      <4>3. ~Abort(h)
        BY <4>2 DEF Abort, Idle
      <4>4. InsertBinding(h) \/ RegisterLocations(h) \/ Project(h)
        <5>1. ~Commit(h) /\ ~CommitUnanswered(h) /\ ~Crash(h)
          BY <4>2 DEF Commit, CommitUnanswered, Crash, Idle
        <5>2. \A r \in Request : ~Call(h, r) /\ ~Reject(h, r)
          BY <4>1, <2>3 DEF Call, Reject
        <5>3. /\ ~Begin(h) /\ ~Lock(h) /\ ~LookupNew(h) /\ ~LookupSame(h)
              /\ ~InsertEvidence(h)
          BY <4>1, <2>3 DEF Begin, Lock, LookupNew, LookupSame, InsertEvidence
        <5>4. ~RequirePredecessor(h)
          BY <4>1, <4>3, <2>3 DEF RequirePredecessor
        <5> QED BY <4>3, <5>1, <5>2, <5>3, <5>4
                DEF HostAction, Statement, Fault, LookupCollision, RefuseBinding, Fail
      <4>5. ~RegisterLocations(h)
        BY <4>1, <3>1, <2>3 DEF RegisterLocations
      <4>6. ~Project(h)
        BY <3>1 DEF Project
      <4> QED BY <4>4, <4>5, <4>6 DEF InsertBinding
    <3>3. ~BindingHeld(h, g)
      BY <3>2, <1>1 DEF Blocked, WaitsFor
    <3>4. ~Conflict(b, a)
      BY <2>1, <2>3, <2>4, <3>3 DEF BindingHeld
    <3> QED BY <3>4, ConflictSymmetric
  <2>7. ~Conflict(a, b)
    BY <2>5, <2>6
  <2> QED BY <2>7, ConflictSymmetric
<1>2. ASSUME NEW g \in Host, NEW o \in Host, g # o, g # h, o # h,
             NEW a \in tx'[g].bindings, NEW b \in tx'[o].bindings
      PROVE  ~Conflict(a, b)
  <2>1. tx'[g] = tx[g] /\ tx'[o] = tx[o]
    BY <1>2, Frame DEF IInv
  <2> QED BY <1>2, <2>1 DEF IInv, InFlight
<1> QED BY <1>1, <1>2 DEF InFlight

-----------------------------------------------------------------------------
(* Part 3: what a commit does to the tables.                               *)

(* A checked request enters the tables whole: the one-step ingest.         *)
BindWhole(r) ==
  LET b == Row(r) IN
  /\ Valid(r)
  /\ Projectable(r.digest)
  /\ \A a \in bindings : ~Conflict(a, b)
  /\ b.supersedes # Nil => PredecessorOK(bindings, b)
  /\ b.productRepo # Nil => b.productRepo \in registered
  /\ evidence' = evidence \cup {r.digest}
  /\ bindings' = bindings \cup {b}
  /\ locations' = locations \cup References(r)
  /\ projections' = projections \cup Projection(b)
  /\ UNCHANGED registered

(* The commit of a new binding publishes its evidence, references and      *)
(* whole projection with it.                                               *)
LEMMA CommitBinds ==
  ASSUME IInv, NEW h \in Host, pc[h] = "project", ReadyToCommit(h), Publish(h)
  PROVE  req[h] \in Request /\ BindWhole(req[h])
<1>1. req[h] \in Request /\ Valid(req[h])
  BY DEF IInv, TypeInv, Calls, Idle
<1>2. TxShape(h) /\ Checked(h) /\ Projected(h)
  BY DEF IInv, TxShape
<1>3. B(h) = Row(req[h]) /\ B(h).digest = req[h].digest
  BY DEF B, Row
<1>4. tx[h].next \in Nat /\ Len(Document[req[h].digest]) \in Nat
  <2>1. tx[h].next \in Nat
    BY DEF IInv, TypeInv, TypeOK, TxType
  <2>2. Len(Document[req[h].digest]) \in Nat
    BY <1>1, RequestDigest, DocumentAssumption, LenProperties
  <2> QED BY <2>1, <2>2
<1>5. tx[h].next - 1 = Len(Document[req[h].digest])
  BY <1>2, <1>4 DEF ReadyToCommit, Projected
<1>6. tx[h].projections = Projection(B(h))
  BY <1>2, <1>3, <1>5 DEF Projected, Projection
<1>7. Projectable(req[h].digest)
  BY <1>2, <1>5 DEF Projected, Projectable, Items
<1>8. /\ evidence' = evidence \cup {req[h].digest}
      /\ bindings' = bindings \cup {B(h)}
      /\ locations' = locations \cup References(req[h])
      /\ projections' = projections \cup Projection(B(h))
      /\ UNCHANGED registered
  <2>1. evidence' = evidence \cup tx[h].evidence /\ tx[h].evidence \subseteq {req[h].digest}
        /\ req[h].digest \in evidence \cup tx[h].evidence
    BY <1>2 DEF Publish, TxShape
  <2>2. locations' = locations \cup tx[h].locations /\ tx[h].locations \subseteq References(req[h])
        /\ References(req[h]) \subseteq locations \cup tx[h].locations
    BY <1>2 DEF Publish, TxShape
  <2>3. bindings' = bindings \cup {B(h)} /\ UNCHANGED registered
    BY <1>2 DEF Publish, TxShape
  <2>4. projections' = projections \cup Projection(B(h))
    BY <1>6 DEF Publish
  <2>5. evidence' = evidence \cup {req[h].digest}
    BY <2>1
  <2>6. locations' = locations \cup References(req[h])
    BY <2>2
  <2> QED BY <2>3, <2>4, <2>5, <2>6
<1>9. /\ \A a \in bindings : ~Conflict(a, B(h))
      /\ B(h).supersedes # Nil => PredecessorOK(bindings, B(h))
      /\ B(h).productRepo # Nil => B(h).productRepo \in registered
  BY <1>2 DEF Checked, ConstraintsOK
<1> QED BY <1>1, <1>3, <1>7, <1>8, <1>9 DEF BindWhole

(* The commit of a retry only adds references.                             *)
LEMMA CommitRebinds ==
  ASSUME IInv, NEW h \in Host, pc[h] = "recommit", Publish(h)
  PROVE  /\ req[h] \in Request /\ B(h) \in bindings
         /\ locations' = locations \cup References(req[h])
         /\ UNCHANGED <<evidence, bindings, projections, registered>>
<1>1. req[h] \in Request
  BY DEF IInv, TypeInv, Calls, Idle
<1>2. TxShape(h) /\ Checked(h)
  BY DEF IInv
<1>3. /\ tx[h].evidence = {} /\ tx[h].bindings = {} /\ tx[h].projections = {}
      /\ tx[h].locations \subseteq References(req[h])
      /\ References(req[h]) \subseteq locations \cup tx[h].locations
  BY <1>2 DEF TxShape
<1> QED BY <1>1, <1>2, <1>3 DEF Publish, Checked

LEMMA BindNoConflict ==
  ASSUME TablesInv, NEW r \in Request, BindWhole(r)
  PROVE  NoConflict'
<1> DEFINE x == Row(r)
<1>1. bindings' = bindings \cup {x} /\ \A a \in bindings : ~Conflict(a, x)
  BY DEF BindWhole
<1>2. \A a \in bindings : ~Conflict(x, a)
  BY <1>1, ConflictSymmetric
<1> HIDE DEF x
<1> QED BY <1>1, <1>2 DEF NoConflict, TablesInv

(* Nothing stored before a new binding names it as its predecessor.        *)
LEMMA NoSuccessorYet ==
  ASSUME TablesInv, NEW r \in Request, BindWhole(r), NEW s \in bindings \cup {Row(r)}
  PROVE  s.supersedes # BindingId(Row(r))
<1> USE NilAssumption
<1>1. CASE s \in bindings /\ s.supersedes = BindingId(Row(r))
  <2>1. PICK p \in bindings : BindingId(p) = s.supersedes
    BY <1>1 DEF TablesInv, Linear, PredecessorOK
  <2>2. Conflict(p, Row(r))
    BY <1>1, <2>1 DEF Conflict, SamePrimaryKey
  <2> QED BY <2>2 DEF BindWhole
<1>2. CASE s = Row(r) /\ s.supersedes = BindingId(Row(r))
  BY <1>2 DEF BindWhole, PredecessorOK
<1> QED BY <1>1, <1>2

LEMMA BindKeepsWhole ==
  ASSUME TablesInv, NEW r \in Request, BindWhole(r)
  PROVE  Whole'
<1> DEFINE x == Row(r)
<1>1. /\ bindings' = bindings \cup {x} /\ evidence' = evidence \cup {x.digest}
      /\ projections' = projections \cup Projection(x)
      /\ locations' = locations \cup References(r)
  BY DEF BindWhole, Row
<1>2. \A l \in References(r) : l[1] = BindingId(x)
  BY DEF References
<1>3. /\ evidence = {b.digest : b \in bindings}
      /\ projections = UNION {Projection(b) : b \in bindings}
      /\ \A l \in locations : \E b \in bindings : l[1] = BindingId(b)
  BY DEF TablesInv, Whole
<1> HIDE DEF x
<1>4. evidence' = {b.digest : b \in bindings'}
  BY <1>1, <1>3
<1>5. projections' = UNION {Projection(b) : b \in bindings'}
  BY <1>1, <1>3
<1>6. \A l \in locations' : \E b \in bindings' : l[1] = BindingId(b)
  BY <1>1, <1>2, <1>3
<1> QED BY <1>4, <1>5, <1>6 DEF Whole

LEMMA BindKeepsLinear ==
  ASSUME TablesInv, NEW r \in Request, BindWhole(r)
  PROVE  Linear'
<1> DEFINE x == Row(r)
<1>1. /\ bindings' = bindings \cup {x} /\ \A a \in bindings : ~Conflict(a, x)
      /\ x.supersedes # Nil => PredecessorOK(bindings, x)
  BY DEF BindWhole
<1>2. \A s \in bindings \cup {x} : s.supersedes # BindingId(x)
  BY NoSuccessorYet
<1>3. /\ \A a, b \in bindings : a.supersedes = b.supersedes /\ a.supersedes # Nil => a = b
      /\ \A b \in bindings : b.supersedes # Nil => PredecessorOK(bindings, b)
      /\ \A S \in SUBSET bindings :
           S # {} => \E b \in S : \A p \in S : b.supersedes # BindingId(p)
  BY DEF TablesInv, Linear
<1> HIDE DEF x
<1>4. \A a, b \in bindings' : a.supersedes = b.supersedes /\ a.supersedes # Nil => a = b
  BY <1>1, <1>3 DEF Conflict, SameSuccessor
<1>5. \A b \in bindings' : b.supersedes # Nil => PredecessorOK(bindings', b)
  BY <1>1, <1>3 DEF PredecessorOK
<1>6. ASSUME NEW S \in SUBSET bindings', S # {}
      PROVE  \E b \in S : \A p \in S : b.supersedes # BindingId(p)
  <2>1. CASE S \subseteq bindings
    BY <2>1, <1>3, <1>6
  <2>2. CASE S = {x}
    BY <2>2, <1>2
  <2>3. CASE x \in S /\ S # {x}
    <3>1. S \ {x} \in SUBSET bindings /\ S \ {x} # {}
      BY <2>3, <1>1
    <3>2. PICK b \in S \ {x} : \A p \in S \ {x} : b.supersedes # BindingId(p)
      BY <3>1, <1>3
    <3>3. b.supersedes # BindingId(x)
      BY <3>1, <1>2
    <3> QED BY <3>2, <3>3
  <2> QED BY <2>1, <2>2, <2>3, <1>1, <1>6
<1> QED BY <1>4, <1>5, <1>6 DEF Linear

(* A valid cumulative report names its run.                                *)
LEMMA ReportHasRun ==
  ASSUME NEW r \in Request, Valid(r), CumulativeReport(Row(r))
  PROVE  Row(r).run # Nil
<1>1. r.name = "report" /\ Row(r).run = r.run
  BY DEF CumulativeReport, Row
<1>2. "run" \in Required["report"]
  BY <1>1, ReportAssumption DEF Valid
<1>3. r["run"] # Nil
  BY <1>1, <1>2 DEF Valid
<1> QED BY <1>1, <1>3

(* The predecessor of a cumulative report is one of the same chain.        *)
LEMMA SameChain ==
  ASSUME NEW a, NEW b, SameContext(a, b)
  PROVE  (CumulativeReport(a) <=> CumulativeReport(b)) /\ Chain(a) = Chain(b)
BY DEF SameContext, CumulativeReport, Chain

LEMMA BindKeepsRooted ==
  ASSUME TablesInv, NEW r \in Request, BindWhole(r)
  PROVE  Rooted'
<1> DEFINE x == Row(r)
<1>1. /\ bindings' = bindings \cup {x}
      /\ x.supersedes # Nil => PredecessorOK(bindings, x)
  BY DEF BindWhole
<1>2. CumulativeReport(x) => x.run # Nil
  BY ReportHasRun DEF BindWhole
<1>3. \A b \in bindings : CumulativeReport(b) =>
        \E c \in bindings : CumulativeRoot(c) /\ Chain(c) = Chain(b) /\ c.run # Nil
  BY DEF TablesInv, Rooted
<1> HIDE DEF x
<1>4. ASSUME CumulativeReport(x)
      PROVE  \E c \in bindings' : CumulativeRoot(c) /\ Chain(c) = Chain(x) /\ c.run # Nil
  <2>1. CASE x.supersedes = Nil
    BY <2>1, <1>1, <1>2, <1>4 DEF CumulativeRoot
  <2>2. CASE x.supersedes # Nil
    <3>1. PICK p \in bindings : SameContext(p, x)
      BY <2>2, <1>1 DEF PredecessorOK
    <3>2. CumulativeReport(p) /\ Chain(p) = Chain(x)
      BY <3>1, <1>4, SameChain
    <3> QED BY <3>2, <1>1, <1>3
  <2> QED BY <2>1, <2>2
<1> QED BY <1>1, <1>3, <1>4 DEF Rooted

(* The heart of the argument: a new cumulative report either starts a      *)
(* chain that had none, or takes over from the only current report.        *)
LEMMA BindKeepsOneCurrent ==
  ASSUME TypeInv, TablesInv, NEW r \in Request, BindWhole(r)
  PROVE  OneCurrent'
<1> DEFINE x == Row(r)
           Cur == Current(bindings)
           New == Current(bindings \cup {x})
<1>1. /\ bindings' = bindings \cup {x} /\ \A a \in bindings : ~Conflict(a, x)
      /\ x.supersedes # Nil => PredecessorOK(bindings, x)
  BY DEF BindWhole
<1>2. \A s \in bindings \cup {x} : s.supersedes # BindingId(x)
  BY NoSuccessorYet
<1>3. x \notin bindings
  BY <1>1 DEF Conflict, SamePrimaryKey
<1>4. New = {b \in Cur : ~(x.supersedes = BindingId(b) /\ x.scope = b.scope)} \cup {x}
  BY <1>2 DEF Current
<1>5. \A b \in bindings : CumulativeReport(b) =>
        \E c \in Cur :
          /\ CumulativeReport(c) /\ Chain(c) = Chain(b)
          /\ \A d \in Cur : CumulativeReport(d) /\ Chain(d) = Chain(b) => d = c
  BY DEF TablesInv, OneCurrent
<1>6. CumulativeRoot(x) => \A b \in bindings : CumulativeReport(b) => Chain(b) # Chain(x)
  <2> SUFFICES ASSUME CumulativeRoot(x), NEW b \in bindings, CumulativeReport(b),
                      Chain(b) = Chain(x)
               PROVE  FALSE
    OBVIOUS
  <2>1. PICK c \in bindings : CumulativeRoot(c) /\ Chain(c) = Chain(b) /\ c.run # Nil
    BY DEF TablesInv, Rooted
  <2>2. Conflict(c, x)
    BY <2>1 DEF Conflict, SameRoot
  <2> QED BY <2>2, <1>1
<1>7. ASSUME x.supersedes # Nil
      PROVE  \E p \in Cur : /\ x.supersedes = BindingId(p) /\ SameContext(p, x)
                            /\ New = (Cur \ {p}) \cup {x}
  <2>1. PICK p \in bindings : BindingId(p) = x.supersedes /\ SameContext(p, x)
    BY <1>1, <1>7 DEF PredecessorOK
  <2>2. p \in Cur
    <3>1. \A s \in bindings : s.supersedes # BindingId(p)
      BY <1>1, <1>7, <2>1 DEF Conflict, SameSuccessor
    <3> QED BY <3>1 DEF Current
  <2>3. \A b \in bindings : BindingId(b) = BindingId(p) => b = p
    BY DEF TablesInv, NoConflict, Conflict, SamePrimaryKey
  <2>4. \A b \in Cur : (x.supersedes = BindingId(b) /\ x.scope = b.scope) <=> b = p
    BY <2>1, <2>3 DEF Current, SameContext
  <2>5. New = (Cur \ {p}) \cup {x}
    BY <1>4, <2>4
  <2> QED BY <2>1, <2>2, <2>5
<1>8. x.supersedes = Nil => New = Cur \cup {x}
  <2>1. \A b \in bindings : BindingId(b) # Nil
    BY NilAssumption DEF TypeInv, TypeOK
  <2> QED BY <1>4, <2>1 DEF Current
<1>9. \A b \in Cur : b \in bindings
  BY DEF Current
<1> HIDE DEF x, Cur, New
<1>10. ASSUME NEW b \in bindings', CumulativeReport(b)
       PROVE  \E c \in New :
                /\ CumulativeReport(c) /\ Chain(c) = Chain(b)
                /\ \A d \in New : CumulativeReport(d) /\ Chain(d) = Chain(b) => d = c
  <2>1. CASE CumulativeReport(x) /\ Chain(x) = Chain(b) /\ x.supersedes = Nil
    BY <2>1, <1>6, <1>8, <1>9 DEF CumulativeRoot
  <2>2. CASE CumulativeReport(x) /\ Chain(x) = Chain(b) /\ x.supersedes # Nil
    <3>1. PICK p \in Cur : SameContext(p, x) /\ New = (Cur \ {p}) \cup {x}
      BY <2>2, <1>7
    <3>2. p \in bindings /\ CumulativeReport(p) /\ Chain(p) = Chain(b)
      BY <2>2, <3>1, <1>9, SameChain
    <3>3. \A d \in Cur : CumulativeReport(d) /\ Chain(d) = Chain(b) => d = p
      BY <3>1, <3>2, <1>5
    <3> QED BY <2>2, <3>1, <3>3
  <2>3. CASE ~(CumulativeReport(x) /\ Chain(x) = Chain(b))
    <3>1. b \in bindings
      BY <2>3, <1>1, <1>10
    <3>2. PICK c \in Cur : /\ CumulativeReport(c) /\ Chain(c) = Chain(b)
                           /\ \A d \in Cur : CumulativeReport(d) /\ Chain(d) = Chain(b) => d = c
      BY <3>1, <1>5, <1>10
    <3>3. c \in New
      <4>1. CASE x.supersedes = Nil
        BY <4>1, <1>8
      <4>2. CASE x.supersedes # Nil
        <5>1. PICK p \in Cur : SameContext(p, x) /\ New = (Cur \ {p}) \cup {x}
          BY <4>2, <1>7
        <5>2. p # c
          BY <5>1, <2>3, <3>2, SameChain
        <5> QED BY <5>1, <5>2
      <4> QED BY <4>1, <4>2
    <3>4. \A d \in New : d \in Cur \/ d = x
      BY <1>4
    <3> QED BY <3>2, <3>3, <3>4, <2>3
  <2> QED BY <2>1, <2>2, <2>3
<1>11. Current(bindings)' = New
  BY <1>1 DEF Current, New
<1> QED BY <1>10, <1>11 DEF OneCurrent

-----------------------------------------------------------------------------
(* Part 4: the invariant is inductive, and what follows from it.           *)

LEMMA IInit == Init => IInv
<1> SUFFICES ASSUME Init PROVE IInv
  OBVIOUS
<1>1. TypeInv
  BY TypeInit
<1>2. ASSUME NEW h \in Host PROVE TxShape(h) /\ Checked(h)
  <2>1. pc[h] = "idle" /\ tx[h] = NoTx
    BY DEF Init
  <2> QED BY <2>1 DEF TxShape, Checked, NoTx
<1>3. Exclusive /\ InFlight
  BY DEF Init, Exclusive, InFlight, Locked, NoTx
<1>4. NoConflict /\ Rooted /\ Linear /\ OneCurrent
  BY DEF Init, NoConflict, Rooted, Linear, OneCurrent
<1>5. Whole
  BY DEF Init, Whole
<1> QED BY <1>1, <1>2, <1>3, <1>4, <1>5 DEF IInv, TablesInv

(* A commit keeps the tables' invariants; other steps leave them alone.    *)
LEMMA TablesInvStep ==
  ASSUME IInv, NEW h \in Host, HostAction(h)
  PROVE  TablesInv'
<1>1. TablesInv /\ TypeInv
  BY DEF IInv
<1>2. CASE UNCHANGED tables
  BY <1>1, <1>2 DEF tables, TablesInv, NoConflict, Rooted, Whole, Linear, OneCurrent, Current
<1>3. CASE ReadyToCommit(h) /\ Publish(h)
  <2>1. CASE pc[h] = "project"
    <3>1. req[h] \in Request /\ BindWhole(req[h])
      BY <1>3, <2>1, CommitBinds
    <3> QED BY <1>1, <3>1, BindNoConflict, BindKeepsRooted, BindKeepsWhole,
               BindKeepsLinear, BindKeepsOneCurrent DEF TablesInv
  <2>2. CASE pc[h] = "recommit"
    <3>1. /\ B(h) \in bindings
          /\ locations' = locations \cup References(req[h])
          /\ UNCHANGED <<evidence, bindings, projections, registered>>
      BY <1>3, <2>2, CommitRebinds
    <3>2. NoConflict' /\ Rooted' /\ Linear' /\ OneCurrent'
      BY <1>1, <3>1 DEF TablesInv, NoConflict, Rooted, Linear, OneCurrent, Current
    <3>3. \A l \in References(req[h]) : l[1] = BindingId(B(h))
      BY DEF References, B
    <3>4. Whole'
      BY <1>1, <3>1, <3>3 DEF TablesInv, Whole
    <3> QED BY <3>2, <3>4 DEF TablesInv
  <2> QED BY <1>3, <2>1, <2>2 DEF ReadyToCommit
<1> QED BY <1>2, <1>3, TablesStep

(* Registering a product_repo only makes more requests acceptable.         *)
LEMMA RegisterStep ==
  ASSUME IInv, NEW p \in ProductRepo, Register(p)
  PROVE  IInv'
<1>1. /\ UNCHANGED <<evidence, bindings, locations, projections, pc, req, tx>>
      /\ registered \subseteq registered'
  BY DEF Register
<1>2. TypeInv'
  <2>1. TypeInv /\ [Next]_vars
    BY DEF IInv, Next
  <2> QED BY <2>1, TypeStep
<1>3. ASSUME NEW h \in Host PROVE TxShape(h)' /\ Checked(h)'
  <2>1. TxShape(h) /\ Checked(h)
    BY DEF IInv
  <2>2. B(h)' = B(h) /\ AlreadyBound(h)' = AlreadyBound(h) /\ Projected(h)' = Projected(h)
        /\ PredecessorOK(bindings, B(h))' = PredecessorOK(bindings, B(h))
    BY <1>1 DEF B, AlreadyBound, Projected, PredecessorOK
  <2>3. ConstraintsOK(h) => ConstraintsOK(h)'
    BY <1>1, <2>2 DEF ConstraintsOK
  <2>4. TxShape(h)'
    BY <1>1, <2>1, <2>2 DEF TxShape
  <2>5. Checked(h)'
    BY <1>1, <2>1, <2>2, <2>3 DEF Checked
  <2> QED BY <2>4, <2>5
<1>4. Exclusive' /\ InFlight'
  BY <1>1 DEF IInv, Exclusive, InFlight
<1>5. TablesInv'
  BY <1>1 DEF IInv, TablesInv, NoConflict, Rooted, Whole, Linear, OneCurrent, Current
<1> QED BY <1>2, <1>3, <1>4, <1>5 DEF IInv

LEMMA INext == IInv /\ [Next]_vars => IInv'
<1> SUFFICES ASSUME IInv, [Next]_vars PROVE IInv'
  OBVIOUS
<1>1. CASE UNCHANGED vars
  <2>1. TypeInv'
    BY TypeStep DEF IInv
  <2>2. ASSUME NEW h \in Host PROVE TxShape(h)' /\ Checked(h)'
    <3>1. TxShape(h) /\ Checked(h)
      BY DEF IInv
    <3> QED BY <1>1, <3>1 DEF vars, TxShape, Checked, Projected, AlreadyBound,
                              ConstraintsOK, PredecessorOK, B
  <2>3. Exclusive' /\ InFlight' /\ TablesInv'
    BY <1>1 DEF IInv, vars, Exclusive, InFlight, TablesInv, NoConflict, Rooted, Whole,
                Linear, OneCurrent, Current
  <2> QED BY <2>1, <2>2, <2>3 DEF IInv
<1>2. ASSUME NEW p \in ProductRepo, Register(p) PROVE IInv'
  BY <1>2, RegisterStep
<1>3. ASSUME NEW h \in Host, HostAction(h) PROVE IInv'
  <2>1. TypeInv'
    BY TypeStep DEF IInv
  <2>2. \A g \in Host : TxShape(g)' /\ Checked(g)'
    BY <1>3, OwnStep, OtherStep
  <2>3. Exclusive' /\ InFlight' /\ TablesInv'
    BY <1>3, ExclusiveStep, InFlightStep, TablesInvStep
  <2> QED BY <2>1, <2>2, <2>3 DEF IInv
<1> QED BY <1>1, <1>2, <1>3 DEF Next, HostAction

(* The transactions' invariant holds in every reachable state.             *)
THEOREM Invariance == Spec => []IInv
BY IInit, INext, PTL DEF Spec

(* Ingest is atomic: no committed binding lacks its evidence or any row of *)
(* its projection, and no row is there without its binding.                *)
THEOREM Atomicity == Spec => []Whole
<1>1. IInv => Whole
  BY DEF IInv, TablesInv
<1> QED BY <1>1, Invariance, PTL

(* Supersession is linear, grounded and within one context.                *)
THEOREM LinearSupersession == Spec => []Linear
<1>1. IInv => Linear
  BY DEF IInv, TablesInv
<1> QED BY <1>1, Invariance, PTL

(* Exactly one cumulative report is current per chain that has any.        *)
THEOREM OneCurrentReport == Spec => []OneCurrent
<1>1. IInv => OneCurrent
  BY DEF IInv, TablesInv
<1> QED BY <1>1, Invariance, PTL

(* Only the commit of a new binding answers "bound", only that of a retry  *)
(* answers "already".                                                      *)
LEMMA AnswerFrom ==
  ASSUME IInv, NEW h \in Host, HostAction(h), pc[h] \notin Idle,
         pc'[h] \in {"bound", "already"}
  PROVE  /\ ReadyToCommit(h) /\ Publish(h)
         /\ pc'[h] = IF pc[h] = "recommit" THEN "already" ELSE "bound"
<1>1. pc \in [Host -> PC] /\ req \in [Host -> Request \cup {Nil}] /\ tx \in [Host -> TxType]
  BY DEF IInv, TypeInv, TypeOK
<1>2. ~Abort(h) /\ ~CommitUnanswered(h) /\ ~Crash(h)
  BY <1>1 DEF Abort, CommitUnanswered, Crash, Return
<1>3. \A r \in Request : ~Call(h, r) /\ ~Reject(h, r)
  BY DEF Call, Reject
<1>4. /\ ~Begin(h) /\ ~Lock(h) /\ ~LookupNew(h) /\ ~LookupSame(h) /\ ~InsertEvidence(h)
      /\ ~InsertBinding(h) /\ ~RegisterLocations(h)
  BY <1>1 DEF Begin, Lock, LookupNew, LookupSame, InsertEvidence, InsertBinding,
              RegisterLocations
<1>5. ~RequirePredecessor(h) /\ ~Project(h)
  BY <1>1, <1>2 DEF RequirePredecessor, Project, Idle
<1>6. Commit(h)
  BY <1>2, <1>3, <1>4, <1>5
  DEF HostAction, Statement, Fault, LookupCollision, RefuseBinding, Fail
<1> QED BY <1>1, <1>6 DEF Commit, Return

LEMMA AnswerStepHolds == IInv /\ [Next]_vars => [AnswerStep]_vars
<1> SUFFICES ASSUME IInv, Next PROVE AnswerStep
  OBVIOUS
<1>1. ASSUME NEW p \in ProductRepo, Register(p) PROVE AnswerStep
  BY <1>1 DEF Register, AnswerStep, Idle
<1>2. ASSUME NEW h \in Host, HostAction(h) PROVE AnswerStep
  <2> SUFFICES ASSUME NEW g \in Host, pc[g] \notin Idle, pc'[g] \in {"bound", "already"}
               PROVE  /\ pc'[g] = "bound" =>
                           /\ \A b \in bindings : ~SamePrimaryKey(b, B(g))
                           /\ B(g) \in bindings'
                           /\ References(req[g]) \subseteq locations'
                      /\ pc'[g] = "already" =>
                           /\ B(g) \in bindings
                           /\ References(req[g]) \subseteq locations'
    BY DEF AnswerStep
  <2>1. g = h
    BY <1>2, Frame DEF IInv, Idle
  <2>2. /\ ReadyToCommit(h) /\ Publish(h)
        /\ pc'[h] = IF pc[h] = "recommit" THEN "already" ELSE "bound"
    BY <1>2, <2>1, AnswerFrom
  <2>3. CASE pc[h] = "recommit"
    BY <2>1, <2>2, <2>3, CommitRebinds
  <2>4. CASE pc[h] = "project"
    <3>1. BindWhole(req[h]) /\ ~AlreadyBound(h)
      BY <2>2, <2>4, CommitBinds DEF IInv, Checked
    <3> QED BY <2>1, <2>2, <2>4, <3>1 DEF BindWhole, AlreadyBound, B
  <2> QED BY <2>2, <2>3, <2>4 DEF ReadyToCommit
<1> QED BY <1>1, <1>2 DEF Next, HostAction

(* IngestResult tells the truth about who stored the binding.              *)
THEOREM TrueAnswers == Spec => AnswersTrue
BY Invariance, AnswerStepHolds, PTL DEF Spec, AnswersTrue

(* Waits only point down the order begin, digest lock, binding row, and    *)
(* nothing past the binding row waits.                                     *)
LEMMA WaitOrder ==
  ASSUME IInv, NEW h \in Host, NEW o \in Host, WaitsFor(h, o)
  PROVE  \/ pc[h] = "begin" /\ pc[o] \in InTx
         \/ pc[h] = "lock" /\ pc[o] \in Locked
         \/ pc[h] = "bind" /\ pc[o] \in {"locate", "project"}
<1>1. TxShape(o) /\ o # h
  BY DEF IInv, WaitsFor
<1>2. ASSUME pc[h] \in Locked, pc[o] \in Locked PROVE req[h].digest # req[o].digest
  BY <1>1, <1>2 DEF IInv, Exclusive
<1>3. CASE pc[h] = "evidence" /\ EvidenceHeld(h, o)
  <2>1. pc[o] \in {"bind", "locate", "project"} /\ req[h].digest = req[o].digest
    BY <1>1, <1>3 DEF TxShape, EvidenceHeld
  <2> QED BY <2>1, <1>2, <1>3 DEF Locked
<1>4. CASE pc[h] \in {"locate", "relocate"} /\ LocationHeld(h, o)
  <2>1. pc[o] \in {"project", "recommit"} /\ tx[o].locations \subseteq References(req[o])
    BY <1>1, <1>4 DEF TxShape, LocationHeld
  <2>2. PICK l : l \in References(req[h]) /\ l \in References(req[o])
    BY <2>1, <1>4 DEF LocationHeld
  <2>3. BindingId(Row(req[h])) = BindingId(Row(req[o]))
    BY <2>2 DEF References
  <2>4. req[h].digest = req[o].digest
    BY <2>3 DEF BindingId, Row
  <2> QED BY <2>1, <2>4, <1>2, <1>4 DEF Locked
<1>5. CASE pc[h] = "bind" /\ BindingHeld(h, o)
  BY <1>1, <1>5 DEF TxShape, BindingHeld
<1>6. CASE pc[h] = "begin" /\ WriterHeld(h, o)
  BY <1>6 DEF WriterHeld
<1>7. CASE pc[h] = "lock" /\ DigestHeld(h, o)
  BY <1>7 DEF DigestHeld
<1> QED BY <1>3, <1>4, <1>5, <1>6, <1>7 DEF WaitsFor

(* No set of hosts ever waits in a cycle, so the database never has to     *)
(* break a deadlock.                                                       *)
THEOREM DeadlockFree == Spec => []NoWaitCycle
<1>1. IInv => NoWaitCycle
  <2> SUFFICES ASSUME IInv, NEW S \in SUBSET Host, S # {}
               PROVE  \E h \in S : \A o \in S : ~WaitsFor(h, o)
    BY DEF NoWaitCycle
  <2>1. CASE \E h \in S : pc[h] \notin {"begin", "lock", "bind"}
    BY <2>1, WaitOrder
  <2>2. CASE (\A h \in S : pc[h] \in {"begin", "lock", "bind"}) /\ \E h \in S : pc[h] = "bind"
    BY <2>2, WaitOrder
  <2>3. CASE (\A h \in S : pc[h] \in {"begin", "lock"}) /\ \E h \in S : pc[h] = "lock"
    BY <2>3, WaitOrder DEF Locked
  <2>4. CASE \A h \in S : pc[h] = "begin"
    BY <2>4, WaitOrder DEF InTx, Locked
  <2> QED BY <2>1, <2>2, <2>3, <2>4
<1> QED BY <1>1, Invariance, PTL

(* Of two waits in a row, the second is for a call past its binding row.    *)
LEMMA SecondWait ==
  ASSUME IInv, NEW h \in Host, NEW o \in Host, NEW p \in Host,
         WaitsFor(h, o), WaitsFor(o, p)
  PROVE  pc[p] \in {"locate", "project"}
<1>1. o # p
  BY DEF WaitsFor
<1>2. CASE pc[h] = "begin"
  <2>1. Dialect = "sqlite" /\ pc[o] \in InTx
    BY <1>2 DEF WaitsFor, WriterHeld
  <2>2. Dialect # "postgres"
    BY <2>1
  <2>3. pc[o] # "lock" /\ ~(pc[o] \in Locked /\ pc[p] \in Locked)
    BY <1>1, <2>2 DEF IInv, Exclusive
  <2>4. pc[o] # "begin"
    BY <2>1 DEF InTx, Locked
  <2>5. pc[o] = "bind" => pc[o] \in Locked
    BY DEF Locked
  <2>6. pc[p] \in {"locate", "project"} => pc[p] \in Locked
    BY DEF Locked
  <2> QED BY <2>3, <2>4, <2>5, <2>6, WaitOrder
<1>3. CASE pc[h] # "begin"
  <2>1. pc[o] \in Locked
    BY <1>3, WaitOrder DEF Locked
  <2>2. pc[o] \notin {"begin", "lock"}
    BY <2>1 DEF Locked
  <2> QED BY <2>2, WaitOrder
<1> QED BY <1>2, <1>3

\* Whoever waits, waits for a call that waits for nobody, or for one that
\* waits for such a call.
WaitsLeadToWork ==
  \A h \in Host : Blocked(h) =>
    \E o \in Host :
      /\ pc[o] \notin Idle /\ ~Blocked(o)
      /\ WaitsFor(h, o) \/ \E p \in Host : WaitsFor(h, p) /\ WaitsFor(p, o)

(* A blocked call is at most two waits away from one that can go on: behind *)
(* the digest lock stands a transaction that may itself wait for a rival    *)
(* binding row, whose own transaction waits for nothing (store.py:1013).    *)
THEOREM WaitsAreShort == Spec => []WaitsLeadToWork
<1>1. IInv => WaitsLeadToWork
  <2> SUFFICES ASSUME IInv, NEW h \in Host, NEW o \in Host, WaitsFor(h, o)
               PROVE  \E r \in Host :
                        /\ pc[r] \notin Idle /\ ~Blocked(r)
                        /\ WaitsFor(h, r) \/ \E p \in Host : WaitsFor(h, p) /\ WaitsFor(p, r)
    BY DEF WaitsLeadToWork, Blocked
  <2>1. pc[o] \notin Idle
    BY WaitOrder DEF InTx, Locked, Idle
  <2>2. CASE ~Blocked(o)
    BY <2>1, <2>2
  <2>3. ASSUME NEW r \in Host, WaitsFor(o, r)
        PROVE  pc[r] \notin Idle /\ ~Blocked(r)
    <3>1. pc[r] \in {"locate", "project"}
      BY <2>3, SecondWait
    <3>2. ~Blocked(r)
      BY <3>1, WaitOrder DEF Blocked
    <3> QED BY <3>1, <3>2 DEF Idle
  <2>4. CASE Blocked(o)
    BY <2>3, <2>4 DEF Blocked
  <2> QED BY <2>2, <2>4
<1> QED BY <1>1, Invariance, PTL

-----------------------------------------------------------------------------
(* What a call has left to do.                                             *)

\* The statements from p on, the longest way, without the projection loop.
StatementsLeft(p) ==
  CASE p = "begin" -> 9 [] p = "lock" -> 8 [] p = "lookup" -> 7
    [] p = "predecessor" -> 6 [] p = "evidence" -> 5 [] p = "bind" -> 4
    [] p = "locate" -> 3 [] p = "relocate" -> 2 [] OTHER -> 1

\* The statements and the items of the document a call may still execute.
Left(h) ==
  IF pc[h] \in Idle THEN 0
  ELSE StatementsLeft(pc[h]) + (Len(Document[req[h].digest]) + 1 - tx[h].next)

(* A call is finite: it never has less than one statement left.            *)
LEMMA SomeLeft ==
  ASSUME IInv, NEW h \in Host, pc[h] \notin Idle
  PROVE  /\ StatementsLeft(pc[h]) \in 1..9
         /\ Len(Document[req[h].digest]) \in Nat
         /\ tx[h].next \in 1..(Len(Document[req[h].digest]) + 1)
         /\ Left(h) \in Nat \ {0}
<1>1. StatementsLeft(pc[h]) \in 1..9
  BY DEF StatementsLeft
<1>2. Len(Document[req[h].digest]) \in Nat
  <2>1. req[h].digest \in Digest
    BY RequestDigest DEF IInv, TypeInv, Calls
  <2>2. Document[req[h].digest] \in Seq([key : Key \cup {Nil}, bad : BOOLEAN])
    BY <2>1, DocumentAssumption
  <2> QED BY <2>2
<1>3. tx[h].next \in Nat \ {0}
  BY DEF IInv, TypeInv, TypeOK, TxType
<1>4. tx[h].next <= Len(Document[req[h].digest]) + 1
  <2>1. TxShape(h)
    BY DEF IInv
  <2>2. CASE pc[h] = "project"
    BY <2>1, <2>2 DEF TxShape, Projected
  <2>3. CASE pc[h] # "project"
    <3>1. tx[h].next = 1
      BY <2>1, <2>3 DEF TxShape
    <3> QED BY <1>2, <3>1
  <2> QED BY <2>2, <2>3
<1>5. Left(h) = StatementsLeft(pc[h]) + (Len(Document[req[h].digest]) + 1 - tx[h].next)
  BY DEF Left
<1> DEFINE a == StatementsLeft(pc[h])  n == Len(Document[req[h].digest])  k == tx[h].next
<1>6. a \in 1..9 /\ n \in Nat /\ k \in 1..(n + 1)
  BY <1>1, <1>2, <1>3, <1>4
<1>7. a + (n + 1 - k) \in Nat \ {0}
  <2> HIDE DEF a, n, k
  <2> QED BY <1>6
<1> QED BY <1>5, <1>6, <1>7

(* Every step of a call leaves less of it.                                 *)
LEMMA LessLeft ==
  ASSUME IInv, NEW h \in Host, HostAction(h), pc[h] \notin Idle
  PROVE  Left(h)' < Left(h)
<1> DEFINE n == Len(Document[req[h].digest])
<1>1. /\ StatementsLeft(pc[h]) \in 1..9 /\ n \in Nat /\ tx[h].next \in 1..(n + 1)
      /\ Left(h) \in Nat \ {0}
  BY SomeLeft
<1>2. /\ pc \in [Host -> PC] /\ tx \in [Host -> TxType]
      /\ Left(h) = StatementsLeft(pc[h]) + (n + 1 - tx[h].next)
  BY DEF IInv, TypeInv, TypeOK, Left
<1>3. ASSUME NEW q \in Idle, Return(h, q) PROVE Left(h)' < Left(h)
  <2>1. pc'[h] \in Idle
    BY <1>2, <1>3 DEF Return
  <2>2. Left(h)' = 0
    BY <2>1 DEF Left
  <2> QED BY <1>1, <2>2
<1>4. ASSUME Abort(h) PROVE Left(h)' < Left(h)
  <2>1. "failed" \in Idle
    BY DEF Idle
  <2> QED BY <1>3, <1>4, <2>1 DEF Abort
<1>5. ASSUME req' = req, tx'[h].next = tx[h].next, pc'[h] \notin Idle,
             StatementsLeft(pc'[h]) \in 1..9,
             StatementsLeft(pc'[h]) < StatementsLeft(pc[h])
      PROVE  Left(h)' < Left(h)
  <2>1. Left(h)' = StatementsLeft(pc'[h]) + (n + 1 - tx[h].next)
    BY <1>5 DEF Left, StatementsLeft
  <2> HIDE DEF n
  <2> QED BY <1>1, <1>2, <1>5, <2>1
<1>6. CASE Begin(h)
  <2>1. pc[h] = "begin" /\ pc'[h] \in {"lock", "lookup"} /\ req' = req /\ tx' = tx
    BY <1>2, <1>6 DEF Begin
  <2> QED BY <1>5, <2>1 DEF StatementsLeft, Idle
<1>7. CASE Lock(h)
  <2>1. pc[h] = "lock" /\ pc'[h] = "lookup" /\ req' = req /\ tx' = tx
    BY <1>2, <1>7 DEF Lock
  <2> QED BY <1>5, <2>1 DEF StatementsLeft, Idle
<1>8. CASE LookupNew(h) \/ LookupSame(h)
  <2>1. /\ pc[h] = "lookup" /\ pc'[h] \in {"predecessor", "evidence", "relocate"}
        /\ req' = req /\ tx' = tx
    BY <1>2, <1>8 DEF LookupNew, LookupSame
  <2> QED BY <1>5, <2>1 DEF StatementsLeft, Idle
<1>9. CASE RequirePredecessor(h)
  <2>1. CASE Abort(h)
    BY <1>4, <2>1
  <2>2. CASE ~Abort(h)
    <3>1. pc[h] = "predecessor" /\ pc'[h] = "evidence" /\ req' = req /\ tx' = tx
      BY <1>2, <1>9, <2>2 DEF RequirePredecessor
    <3> QED BY <1>5, <3>1 DEF StatementsLeft, Idle
  <2> QED BY <2>1, <2>2
<1>10. CASE InsertEvidence(h)
  <2>1. /\ pc[h] = "evidence" /\ pc'[h] = "bind" /\ req' = req
        /\ tx' = [tx EXCEPT ![h].evidence = {req[h].digest} \ evidence]
    BY <1>2, <1>10 DEF InsertEvidence
  <2>2. tx'[h].next = tx[h].next
    BY <1>2, <2>1 DEF TxType
  <2> QED BY <1>5, <2>1, <2>2 DEF StatementsLeft, Idle
<1>11. CASE InsertBinding(h)
  <2>1. pc[h] = "bind" /\ pc'[h] = "locate" /\ req' = req
    BY <1>2, <1>11 DEF InsertBinding
  <2>2. tx'[h].next = tx[h].next
    BY <1>2, <1>11 DEF InsertBinding, TxType
  <2> QED BY <1>5, <2>1, <2>2 DEF StatementsLeft, Idle
<1>12. CASE RegisterLocations(h)
  <2>1. /\ \/ pc[h] = "locate" /\ pc'[h] = "project"
           \/ pc[h] = "relocate" /\ pc'[h] = "recommit"
        /\ req' = req
    BY <1>2, <1>12 DEF RegisterLocations
  <2>2. tx'[h].next = tx[h].next
    BY <1>2, <1>12 DEF RegisterLocations, TxType
  <2> QED BY <1>5, <2>1, <2>2 DEF StatementsLeft, Idle
<1>13. CASE Project(h)
  <2>1. CASE Abort(h)
    BY <1>4, <2>1
  <2>2. CASE ~Abort(h)
    <3>1. /\ pc' = pc /\ req' = req /\ pc[h] = "project"
          /\ tx' = [tx EXCEPT ![h].next = @ + 1, ![h].projections = NextRows(h)]
      BY <1>13, <2>2 DEF Project
    <3>2. tx'[h].next = tx[h].next + 1
      BY <1>2, <3>1 DEF TxType
    <3>3. Left(h)' = StatementsLeft(pc[h]) + (n + 1 - (tx[h].next + 1))
      BY <3>1, <3>2 DEF Left
    <3> HIDE DEF n
    <3> QED BY <1>1, <1>2, <3>3
  <2> QED BY <2>1, <2>2
<1>14. CASE Commit(h) \/ CommitUnanswered(h) \/ Crash(h)
  <2>1. PICK q \in Idle : Return(h, q)
    BY <1>14 DEF Commit, CommitUnanswered, Crash, Idle
  <2> QED BY <1>3, <2>1
<1>15. \A r \in Request : ~Call(h, r) /\ ~Reject(h, r)
  BY DEF Call, Reject
<1> QED
  BY <1>4, <1>6, <1>7, <1>8, <1>9, <1>10, <1>11, <1>12, <1>13, <1>14, <1>15
  DEF HostAction, Statement, Fault, LookupCollision, RefuseBinding, Fail

\* No step gives a call in progress more to do, and its own steps less.
AdvanceStep ==
  \A h \in Host : pc[h] \notin Idle =>
    \/ Left(h)' < Left(h)
    \/ UNCHANGED <<pc[h], req[h], tx[h]>>

CallsAreFinite == \A h \in Host : Left(h) \in Nat /\ (pc[h] \notin Idle => Left(h) # 0)

(* A call runs at most nine statements and one iteration per item of its   *)
(* document: nothing is retried and no step of its own, of another host or *)
(* of a failure sends it back (store.py:1006-1064).  With WaitsAreShort,    *)
(* what is left of EveryCallEnds is fairness: that a statement nothing      *)
(* holds up is executed and a waiter is served.                            *)
THEOREM StatementsAdvance == Spec => []CallsAreFinite /\ [][AdvanceStep]_vars
<1>1. IInv => CallsAreFinite
  <2> SUFFICES ASSUME IInv, NEW h \in Host
               PROVE  Left(h) \in Nat /\ (pc[h] \notin Idle => Left(h) # 0)
    BY DEF CallsAreFinite
  <2>1. CASE pc[h] \in Idle
    BY <2>1 DEF Left
  <2>2. CASE pc[h] \notin Idle
    BY <2>2, SomeLeft
  <2> QED BY <2>1, <2>2
<1>2. IInv /\ [Next]_vars => [AdvanceStep]_vars
  <2> SUFFICES ASSUME IInv, Next, NEW g \in Host, pc[g] \notin Idle
               PROVE  Left(g)' < Left(g) \/ UNCHANGED <<pc[g], req[g], tx[g]>>
    BY DEF AdvanceStep
  <2>1. ASSUME NEW p \in ProductRepo, Register(p) PROVE UNCHANGED <<pc[g], req[g], tx[g]>>
    BY <2>1 DEF Register
  <2>2. ASSUME NEW h \in Host, HostAction(h)
        PROVE  Left(g)' < Left(g) \/ UNCHANGED <<pc[g], req[g], tx[g]>>
    <3>1. CASE g = h
      BY <2>2, <3>1, LessLeft
    <3>2. CASE g # h
      BY <2>2, <3>2, Frame DEF IInv
    <3> QED BY <3>1, <3>2
  <2> QED BY <2>1, <2>2 DEF Next, HostAction
<1> QED BY <1>1, <1>2, Invariance, PTL DEF Spec

-----------------------------------------------------------------------------
(* Part 5: the statements implement the one-step ingest.                   *)

LEMMA BindRefines ==
  ASSUME NEW r \in Request, BindWhole(r)
  PROVE  Abs!Bind(r)
BY DEF BindWhole, Abs!Bind, Abs!Row, Row, Abs!Valid, Valid, Abs!Projectable, Projectable,
       Abs!Items, Items, Abs!Item, Item, Abs!Conflict, Conflict, Abs!SamePrimaryKey,
       SamePrimaryKey, Abs!SameSuccessor, SameSuccessor, Abs!SameRoot, SameRoot,
       Abs!CumulativeRoot, CumulativeRoot, Abs!CumulativeReport, CumulativeReport,
       Abs!Chain, Chain, Abs!BindingId, BindingId, Abs!PredecessorOK, PredecessorOK,
       Abs!SameContext, SameContext, Abs!References, References, Abs!Projection,
       Projection, Abs!FirstRows, FirstRows

(* Every step of a host is a step of StoreAbs or leaves its variables.     *)
LEMMA RefineStep == IInv /\ [Next]_vars => [Abs!AbsNext]_(Abs!absVars)
<1> SUFFICES ASSUME IInv, [Next]_vars, ~UNCHANGED tables PROVE Abs!AbsNext
  BY DEF Abs!absVars, tables
<1>1. ASSUME NEW p \in ProductRepo, Register(p) PROVE Abs!AbsNext
  BY <1>1 DEF Register, Abs!AbsNext, Abs!AbsRegister
<1>2. ASSUME NEW h \in Host, HostAction(h) PROVE Abs!AbsNext
  <2>1. ReadyToCommit(h) /\ Publish(h)
    BY <1>2, TablesStep
  <2>2. CASE pc[h] = "project"
    <3>1. req[h] \in Request /\ BindWhole(req[h])
      BY <2>1, <2>2, CommitBinds
    <3>2. Abs!Bind(req[h])
      BY <3>1, BindRefines
    <3> QED BY <3>1, <3>2 DEF Abs!AbsNext
  <2>3. CASE pc[h] = "recommit"
    <3>1. /\ req[h] \in Request /\ Row(req[h]) \in bindings
          /\ locations' = locations \cup References(req[h])
          /\ UNCHANGED <<evidence, bindings, projections, registered>>
      BY <2>1, <2>3, CommitRebinds DEF B
    <3>2. Abs!Rebind(req[h])
      BY <3>1 DEF Abs!Rebind, Abs!Row, Row, Abs!References, References, Abs!BindingId, BindingId
    <3> QED BY <3>1, <3>2 DEF Abs!AbsNext
  <2> QED BY <2>1, <2>2, <2>3 DEF ReadyToCommit
<1>3. ~UNCHANGED vars
  BY DEF vars, tables
<1> QED BY <1>1, <1>2, <1>3 DEF Next, HostAction

(* Concurrent, failing, statement-by-statement ingest implements the       *)
(* atomic ingest that StoreAbs specifies.                                  *)
THEOREM Refinement == Spec => ImplementsAbs
<1>1. Init => Abs!AbsInit
  BY DEF Init, Abs!AbsInit
<1> QED BY <1>1, Invariance, RefineStep, PTL DEF Spec, ImplementsAbs, Abs!AbsSpec
=============================================================================
