--------------------------- MODULE RegistryProofs ---------------------------
(***************************************************************************)
(* Proofs about Registry.  The inductive invariant says what a host that   *)
(* is past its upsert has written (a new row under a key nobody else has,  *)
(* or a refreshed version of the stored row) and that no two transactions  *)
(* hold row versions under one natural key.                                *)
(***************************************************************************)
EXTENDS Registry, TLAPS

\* The upsert of call c wrote t, and the row under its key has identifier i.
Inserted(c, t, i) ==
    t = {c} /\ i = c.id /\ At(c.key, rows) = {} /\ ParentsIn(c.key, rows)

Updated(c, t, i) ==
    \E s \in rows : /\ s.key = c.key /\ s.id = i
                    /\ t = IF c.key.table = "repo" THEN {} ELSE {Refreshed(s, c.attr)}

Wrote(c, t, i) == Inserted(c, t, i) \/ Updated(c, t, i)

CallOK(c) == c \in Row /\ IF c.key.table \in Keyed THEN c.id \in Id ELSE c.id = Nil

\* Where a host stands (p), its call, its row version and what it read back.
HostAt(p, c, t, g) ==
    /\ IF p = "idle" THEN c = NoCall ELSE CallOK(c)
    /\ p \in {"idle", "begin", "upsert"} => t = {}
    /\ p # "commit" => g = {}
    /\ p = "readback" => \E i : Wrote(c, t, i)
    /\ p = "commit" => \E i : Wrote(c, t, i) /\ g = IF c.key.table \in Keyed THEN {i} ELSE {}

HostsOK == \A h \in Host : HostAt(pc[h], call[h], tx[h], got[h])

Exclusive ==
    \A g, h \in Host : \A r \in tx[g], s \in tx[h] : r.key = s.key => g = h

FreshIds ==
    \A h \in Host : call[h].id # Nil =>
        /\ \A r \in rows : r.id # call[h].id
        /\ \A g \in Host : call[g].id = call[h].id => g = h

\* Exactly the rows of the tables _register serves have an identifier.
IdsOK == \A r \in rows : IF r.key.table \in Keyed THEN r.id \in Id ELSE r.id = Nil

IInv ==
    /\ TypeOK
    /\ Consistent
    /\ IdsOK
    /\ AnswersStand
    /\ HostsOK
    /\ Exclusive
    /\ FreshIds

-----------------------------------------------------------------------------
(* A step that changes host h alone, and what callers know only by answers   *)
(* that are true.                                                            *)
LEMMA LocalStep ==
    ASSUME IInv, NEW h \in Host,
           NEW p \in InTx \cup {"idle", "begin"}, NEW c \in Row \cup {NoCall},
           NEW t \in SUBSET Row, NEW g \in SUBSET Id,
           pc' = [pc EXCEPT ![h] = p], call' = [call EXCEPT ![h] = c],
           tx' = [tx EXCEPT ![h] = t], got' = [got EXCEPT ![h] = g],
           rows' = rows, known' = known,
           \A r \in t : r.key = c.key,
           HostAt(p, c, t, g),
           \A r \in t, o \in Host \ {h} : At(r.key, tx[o]) = {},
           c.id = Nil \/ c.id = call[h].id \/ FreshId(c.id)
    PROVE  IInv'
<1>1. TypeOK'
  BY DEF IInv, TypeOK
<1>2. Consistent' /\ IdsOK' /\ AnswersStand'
  BY DEF IInv, Consistent, IdsOK, AnswersStand, ParentsIn, Parents
<1>3. HostsOK'
  <2> SUFFICES ASSUME NEW o \in Host
               PROVE  HostAt(pc[o], call[o], tx[o], got[o])'
    BY DEF HostsOK
  <2>1. HostAt(pc'[o], call'[o], tx'[o], got'[o])
    BY DEF IInv, TypeOK, HostsOK
  <2> QED BY <2>1 DEF HostAt, CallOK, Wrote, Inserted, Updated, At, ParentsIn, Row
<1>4. Exclusive'
  BY DEF IInv, TypeOK, Exclusive, At
<1>5. FreshIds'
  BY DEF IInv, TypeOK, FreshIds, FreshId
<1> QED BY <1>1, <1>2, <1>3, <1>4, <1>5 DEF IInv

(* The same with the call left as it is. *)
LEMMA MoveStep ==
    ASSUME IInv, NEW h \in Host,
           NEW p \in InTx \cup {"idle", "begin"},
           NEW t \in SUBSET Row, NEW g \in SUBSET Id,
           pc' = [pc EXCEPT ![h] = p], call' = call,
           tx' = [tx EXCEPT ![h] = t], got' = [got EXCEPT ![h] = g],
           rows' = rows, known' = known,
           \A r \in t : r.key = call[h].key,
           HostAt(p, call[h], t, g),
           \A r \in t, o \in Host \ {h} : At(r.key, tx[o]) = {}
    PROVE  IInv'
<1> DEFINE c == call[h]
<1>1. /\ c \in Row \cup {NoCall} /\ call' = [call EXCEPT ![h] = c]
      /\ \A r \in t : r.key = c.key
      /\ HostAt(p, c, t, g)
      /\ c.id = Nil \/ c.id = call[h].id \/ FreshId(c.id)
  BY DEF IInv, TypeOK
<1> HIDE DEF c
<1> QED BY <1>1, LocalStep

(* The invariant speaks of the tables and the hosts only: known may grow. *)
LEMMA Untouched ==
    ASSUME IInv, UNCHANGED <<rows, pc, call, tx, got>>
    PROVE  Consistent' /\ IdsOK' /\ HostsOK' /\ Exclusive' /\ FreshIds'
<1>1. Consistent' /\ IdsOK'
  BY DEF IInv, Consistent, IdsOK, ParentsIn, Parents
<1>2. HostsOK'
  <2> SUFFICES ASSUME NEW o \in Host
               PROVE  HostAt(pc[o], call[o], tx[o], got[o])'
    BY DEF HostsOK
  <2>1. HostAt(pc[o], call[o], tx[o], got[o])
    BY DEF IInv, HostsOK
  <2> QED BY <2>1 DEF HostAt, CallOK, Wrote, Inserted, Updated, At, ParentsIn, Row
<1>3. Exclusive'
  BY DEF IInv, Exclusive
<1>4. FreshIds'
  BY DEF IInv, FreshIds
<1> QED BY <1>1, <1>2, <1>3, <1>4

(* The end of a call leaves nothing of it. *)
LEMMA EndStep ==
    ASSUME IInv, NEW h \in Host, End(h), rows' = rows, known' = known
    PROVE  IInv'
<1>1. HostAt("idle", NoCall, {}, {})
  BY DEF HostAt
<1>2. NoCall.id = Nil
  BY DEF NoCall
<1>3. /\ "idle" \in InTx \cup {"idle", "begin"} /\ NoCall \in Row \cup {NoCall}
      /\ {} \in SUBSET Row /\ {} \in SUBSET Id
  OBVIOUS
<1>4. /\ pc' = [pc EXCEPT ![h] = "idle"] /\ call' = [call EXCEPT ![h] = NoCall]
      /\ tx' = [tx EXCEPT ![h] = {}] /\ got' = [got EXCEPT ![h] = {}]
  BY DEF End, Goto
<1>5. (\A r \in {} : r.key = NoCall.key) /\ (\A r \in {}, o \in Host \ {h} : At(r.key, tx[o]) = {})
  OBVIOUS
<1> QED BY <1>1, <1>2, <1>3, <1>4, <1>5, LocalStep

(* An insert publishes one more row. *)
LEMMA PublishInsert ==
    ASSUME NEW c, NEW t, NEW i, Inserted(c, t, i)
    PROVE  Merged(rows, t) = rows \cup {c}
BY DEF Inserted, Merged, At

(* A refresh publishes the stored row with other attributes. *)
LEMMA PublishUpdate ==
    ASSUME IInv, NEW c, NEW t, NEW s \in rows, s.key = c.key,
           t = IF c.key.table = "repo" THEN {} ELSE {Refreshed(s, c.attr)}
    PROVE  Merged(rows, t) = (rows \ {s}) \cup {Refreshed(s, c.attr)}
<1>0. s \in Row /\ \A r \in rows : r.key = s.key => r = s
  BY DEF IInv, TypeOK, Consistent
<1>1. CASE c.key.table = "repo"
  <2>1. Refreshed(s, c.attr) = s
    BY <1>0, <1>1 DEF Refreshed, Row
  <2> QED BY <1>1, <2>1 DEF Merged, At
<1>2. CASE c.key.table # "repo"
  <2>1. Refreshed(s, c.attr).key = s.key
    BY DEF Refreshed
  <2>2. t = {Refreshed(s, c.attr)}
    BY <1>2
  <2>3. \A r \in rows : At(r.key, t) = {} <=> r.key # s.key
    BY <2>1, <2>2 DEF At
  <2>4. \A r \in rows : r.key # s.key <=> r # s
    BY <1>0
  <2>5. {r \in rows : At(r.key, t) = {}} = rows \ {s}
    BY <2>3, <2>4
  <2> QED BY <2>2, <2>5 DEF Merged
<1> QED BY <1>1, <1>2

-----------------------------------------------------------------------------
(* Rows never lose their key or identifier, so parents stay where they are. *)
LEMMA ParentsStay ==
    ASSUME NEW k, ParentsIn(k, rows),
           \A r \in rows : \E q \in rows' : q.key = r.key /\ q.id = r.id
    PROVE  ParentsIn(k, rows')
BY DEF ParentsIn

(* What the commit of a host leaves to the others. *)
LEMMA OthersKeep ==
    ASSUME IInv, NEW h \in Host, NEW o \in Host \ {h}, End(h),
           \A r \in rows : \E q \in rows' : q.key = r.key /\ q.id = r.id,
           \A q \in rows' : q \in rows \/ (q.key = call[h].key /\ q \in tx[h]),
           \A r \in rows : r \in rows' \/ \E q \in tx[h] : q.key = r.key,
           \A q \in tx[h] : q.key.table = "repo" => At(q.key, rows) = {}
    PROVE  HostAt(pc[o], call[o], tx[o], got[o])'
<1>1. /\ pc'[o] = pc[o] /\ call'[o] = call[o] /\ tx'[o] = tx[o] /\ got'[o] = got[o]
  BY DEF End, Goto, IInv, TypeOK
<1>2. HostAt(pc[o], call[o], tx[o], got[o])
  BY DEF IInv, HostsOK
<1>3. \A r \in tx[o], q \in tx[h] : r.key # q.key
  BY DEF IInv, Exclusive
<1>4. ASSUME NEW i, Wrote(call[o], tx[o], i) PROVE Wrote(call[o], tx[o], i)'
  <2>1. CASE Inserted(call[o], tx[o], i)
    <3>1. At(call[o].key, rows') = {}
      <4>1. \A q \in tx[h] : q.key # call[o].key
        BY <1>3, <2>1 DEF Inserted
      <4> QED BY <2>1, <4>1 DEF Inserted, At
    <3>2. ParentsIn(call[o].key, rows')
      BY <2>1, ParentsStay DEF Inserted
    <3> QED BY <1>1, <2>1, <3>1, <3>2 DEF Wrote, Inserted, At, ParentsIn
  <2>2. CASE Updated(call[o], tx[o], i)
    <3>1. PICK s \in rows : /\ s.key = call[o].key /\ s.id = i
                            /\ tx[o] = IF call[o].key.table = "repo" THEN {}
                                       ELSE {Refreshed(s, call[o].attr)}
      BY <2>2 DEF Updated
    <3>2. s \in rows'
      <4>1. ASSUME NEW q \in tx[h], q.key = s.key PROVE FALSE
        <5>1. CASE call[o].key.table = "repo"
          BY <3>1, <4>1, <5>1 DEF At
        <5>2. CASE call[o].key.table # "repo"
          <6>1. Refreshed(s, call[o].attr) \in tx[o] /\ Refreshed(s, call[o].attr).key = s.key
            BY <3>1, <5>2 DEF Refreshed
          <6> QED BY <1>3, <4>1, <6>1
        <5> QED BY <5>1, <5>2
      <4> QED BY <4>1
    <3> QED BY <1>1, <3>1, <3>2 DEF Wrote, Updated, Refreshed
  <2> QED BY <1>4, <2>1, <2>2 DEF Wrote
<1>5. HostAt(pc[o], call[o], tx[o], got[o])'
         <=> /\ IF pc[o] = "idle" THEN call[o] = NoCall ELSE CallOK(call[o])
             /\ pc[o] \in {"idle", "begin", "upsert"} => tx[o] = {}
             /\ pc[o] # "commit" => got[o] = {}
             /\ pc[o] = "readback" => \E i : Wrote(call[o], tx[o], i)'
             /\ pc[o] = "commit" =>
                   \E i : /\ Wrote(call[o], tx[o], i)'
                         /\ got[o] = IF call[o].key.table \in Keyed THEN {i} ELSE {}
  BY <1>1 DEF HostAt, CallOK
<1> QED BY <1>2, <1>4, <1>5 DEF HostAt

(* A commit is one step of the registry and keeps the invariant. *)
LEMMA CommitStep ==
    ASSUME IInv, NEW h \in Host, Publish(h),
           known' \in {known, known \cup {<<call[h].key, j>> : j \in got[h]}}
    PROVE  IInv' /\ AbsNext
<1> DEFINE c == call[h]
<1>1. PICK i : /\ Wrote(c, tx[h], i)
               /\ got[h] = IF c.key.table \in Keyed THEN {i} ELSE {}
  BY DEF IInv, HostsOK, HostAt, Publish
<1>2. /\ CallOK(c) /\ c \in Row /\ c.key \in Key /\ c.attr \in Attr /\ End(h)
      /\ rows' = Merged(rows, tx[h])
  BY DEF IInv, HostsOK, HostAt, Publish, CallOK, Row
<1>3. (c.key.table \in Keyed => {<<c.key, j>> : j \in got[h]} = {<<c.key, i>>})
      /\ (c.key.table \notin Keyed => {<<c.key, j>> : j \in got[h]} = {})
  BY <1>1
<1>4. /\ pc' = [pc EXCEPT ![h] = "idle"] /\ call' = [call EXCEPT ![h] = NoCall]
      /\ tx' = [tx EXCEPT ![h] = {}] /\ got' = [got EXCEPT ![h] = {}]
  BY <1>2 DEF End, Goto
<1>5. HostAt(pc[h], call[h], tx[h], got[h])'
  BY <1>4 DEF HostAt, IInv, TypeOK
<1>6. Exclusive'
  BY <1>4 DEF Exclusive, IInv, TypeOK
<1>7. CASE Inserted(c, tx[h], i)
  <2>1. rows' = rows \cup {c} /\ tx[h] = {c} /\ i = c.id /\ At(c.key, rows) = {}
    BY <1>2, <1>7, PublishInsert DEF Inserted
  <2>2. \A r \in rows : \E q \in rows' : q.key = r.key /\ q.id = r.id
    BY <2>1
  <2>3. ParentsIn(c.key, rows)
    BY <1>7 DEF Inserted
  <2>4. \A s \in rows : s.key # c.key /\ (c.id # Nil => s.id # c.id)
    BY <2>1 DEF At, IInv, FreshIds
  <2>5. Consistent'
    <3>1. \A r, s \in rows' : r.key = s.key \/ (r.id = s.id /\ r.id # Nil) => r = s
      BY <2>1, <2>4 DEF IInv, Consistent
    <3>2. \A r \in rows' : ParentsIn(r.key, rows')
      BY <2>1, <2>2, <2>3, ParentsStay DEF IInv, Consistent
    <3> QED BY <3>1, <3>2 DEF Consistent, ParentsIn, Parents
  <2>6. IdsOK'
    BY <1>2, <2>1 DEF IInv, IdsOK, CallOK
  <2>7. TypeOK'
    <3>1. known' \subseteq Key \X Id
      <4>1. c.key.table \in Keyed => <<c.key, i>> \in Key \X Id
        BY <1>2, <2>1 DEF CallOK
      <4> QED BY <1>3, <4>1 DEF IInv, TypeOK
    <3> QED BY <1>2, <1>4, <2>1, <3>1 DEF IInv, TypeOK
  <2>8. AnswersStand'
    BY <1>3, <2>1, <2>2 DEF IInv, AnswersStand
  <2>9. HostsOK'
    <3>1. ASSUME NEW o \in Host \ {h} PROVE HostAt(pc[o], call[o], tx[o], got[o])'
      BY <1>2, <2>1, <2>2, OthersKeep
    <3> QED BY <1>5, <3>1 DEF HostsOK
  <2>10. FreshIds'
    BY <1>4, <2>1 DEF IInv, TypeOK, FreshIds, NoCall
  <2>11. AbsNext
    <3>1. c = [key |-> c.key, id |-> c.id, attr |-> c.attr]
      BY <1>2 DEF Row
    <3>2. Answer(c) = IF c.key.table \in Keyed THEN {<<c.key, c.id>>} ELSE {}
      BY DEF Answer
    <3>3. Insert(c.key, c.id, c.attr)
      <4>1. IF c.key.table \in Keyed THEN c.id \in Id /\ \A s \in rows : s.id # c.id
            ELSE c.id = Nil
        BY <1>2, <2>4, NilAssumption DEF CallOK
      <4>2. known' \in {known, known \cup Answer(c)}
        BY <1>3, <2>1, <3>2
      <4> QED BY <2>1, <2>3, <3>1, <4>1, <4>2 DEF Insert
    <3>4. c.id \in Id \cup {Nil}
      BY <1>2 DEF Row
    <3> QED BY <1>2, <3>3, <3>4 DEF AbsNext
  <2> QED BY <1>6, <2>5, <2>6, <2>7, <2>8, <2>9, <2>10, <2>11 DEF IInv
<1>8. CASE Updated(c, tx[h], i)
  <2>1. PICK s \in rows : /\ s.key = c.key /\ s.id = i
                          /\ tx[h] = IF c.key.table = "repo" THEN {} ELSE {Refreshed(s, c.attr)}
    BY <1>8 DEF Updated
  <2> DEFINE n == Refreshed(s, c.attr)
  <2>2. rows' = (rows \ {s}) \cup {n}
    BY <1>2, <2>1, PublishUpdate
  <2>3. n.key = s.key /\ n.id = s.id /\ n \in Row /\ s \in Row
    BY <1>2, <2>1 DEF Refreshed, IInv, TypeOK, Row
  <2>4. \A r \in rows : r # s => r.key # s.key /\ (r.id # Nil => r.id # s.id)
    BY DEF IInv, Consistent
  <2> HIDE DEF n
  <2>5. \A r \in rows : \E q \in rows' : q.key = r.key /\ q.id = r.id
    BY <2>2, <2>3
  <2>6. Consistent'
    <3>1. \A r, q \in rows' : r.key = q.key \/ (r.id = q.id /\ r.id # Nil) => r = q
      BY <2>2, <2>3, <2>4 DEF IInv, Consistent
    <3>2. \A r \in rows' : ParentsIn(r.key, rows)
      BY <2>2, <2>3 DEF IInv, Consistent
    <3>3. \A r \in rows' : ParentsIn(r.key, rows')
      BY <2>5, <3>2, ParentsStay
    <3> QED BY <3>1, <3>3 DEF Consistent, ParentsIn, Parents
  <2>7. IdsOK'
    BY <2>2, <2>3 DEF IInv, IdsOK
  <2>8. TypeOK'
    <3>1. known' \subseteq Key \X Id
      <4>1. c.key.table \in Keyed => <<c.key, i>> \in Key \X Id
        BY <1>2, <2>1 DEF IInv, IdsOK
      <4> QED BY <1>3, <4>1 DEF IInv, TypeOK
    <3> QED BY <1>2, <1>4, <2>2, <2>3, <3>1 DEF IInv, TypeOK
  <2>9. AnswersStand'
    BY <1>3, <2>1, <2>5 DEF IInv, AnswersStand
  <2>10. HostsOK'
    <3>1. \A q \in rows' : q \in rows \/ (q.key = c.key /\ q \in tx[h])
      <4>1. c.key.table = "repo" => n = s
        BY <2>1, <2>3 DEF n, Refreshed, Row
      <4> QED BY <2>1, <2>2, <2>3, <4>1 DEF n
    <3>2. \A r \in rows : r \in rows' \/ \E q \in tx[h] : q.key = r.key
      <4>1. c.key.table = "repo" => n = s
        BY <2>1, <2>3 DEF n, Refreshed, Row
      <4> QED BY <2>1, <2>2, <2>3, <4>1 DEF n
    <3>3. \A q \in tx[h] : q.key.table = "repo" => At(q.key, rows) = {}
      BY <2>1, <2>3 DEF n
    <3>4. ASSUME NEW o \in Host \ {h} PROVE HostAt(pc[o], call[o], tx[o], got[o])'
      BY <1>2, <2>5, <3>1, <3>2, <3>3, OthersKeep
    <3> QED BY <1>5, <3>4 DEF HostsOK
  <2>11. FreshIds'
    BY <1>4, <2>2, <2>3 DEF IInv, TypeOK, FreshIds, NoCall
  <2>12. AbsNext
    <3>1. Answer(s) = IF c.key.table \in Keyed THEN {<<c.key, i>>} ELSE {}
      BY <2>1 DEF Answer
    <3>2. known' \in {known, known \cup Answer(s)}
      BY <1>3, <3>1
    <3>3. Refresh(s, c.attr)
      BY <2>2, <3>2 DEF Refresh, n
    <3> QED BY <1>2, <3>3 DEF AbsNext
  <2> QED BY <1>6, <2>6, <2>7, <2>8, <2>9, <2>10, <2>11, <2>12 DEF IInv
<1> QED BY <1>1, <1>7, <1>8 DEF Wrote

(* find_product_repo hands out the identifier of a committed row. *)
LEMMA FindStep ==
    ASSUME IInv, NEW h \in Host, NEW p \in rows, NEW r \in rows, NEW q \in rows,
           FindProductRepo(h, p, r, q)
    PROVE  IInv' /\ AbsNext
<1>1. q.key.table \in Keyed /\ <<q.key, q.id>> \in Key \X Id
  BY DEF FindProductRepo, Keyed, IInv, IdsOK, TypeOK, Row
<1>2. known' = known \cup {<<q.key, q.id>>} /\ UNCHANGED <<rows, pc, call, tx, got>>
  BY DEF FindProductRepo
<1>3. TypeOK'
  BY <1>1, <1>2 DEF IInv, TypeOK
<1>4. AnswersStand'
  BY <1>2 DEF IInv, AnswersStand
<1>5. Consistent' /\ IdsOK' /\ HostsOK' /\ Exclusive' /\ FreshIds'
  BY <1>2, Untouched
<1>6. AbsNext
  BY <1>1, <1>2 DEF AbsNext, Find, Answer
<1> QED BY <1>3, <1>4, <1>5, <1>6 DEF IInv

(* Every step keeps the invariant, and is a step of the registry or none. *)
LEMMA Inductive ==
    ASSUME IInv, [Next]_vars
    PROVE  IInv' /\ [AbsNext]_absVars
<1>1. CASE UNCHANGED vars
  <2>1. TypeOK' /\ AnswersStand'
    BY <1>1 DEF vars, IInv, TypeOK, AnswersStand
  <2> QED BY <1>1, <2>1, Untouched DEF vars, absVars, IInv
<1>2. ASSUME NEW h \in Host, Step(h) PROVE IInv' /\ [AbsNext]_absVars
  <2> USE DEF Goto
  <2>0. /\ call[h] \in Row \cup {NoCall} /\ tx[h] \in SUBSET Row /\ got[h] \in SUBSET Id
        /\ HostAt(pc[h], call[h], tx[h], got[h])
        /\ call = [call EXCEPT ![h] = call[h]] /\ tx = [tx EXCEPT ![h] = tx[h]]
        /\ got = [got EXCEPT ![h] = got[h]]
        /\ \A r \in tx[h] : r.key = call[h].key
        /\ \A r \in tx[h], o \in Host \ {h} : At(r.key, tx[o]) = {}
    BY DEF IInv, TypeOK, HostsOK, Exclusive, At
  <2>1. ASSUME NEW k \in Key, NEW a \in Attr, NEW i \in Id \cup {Nil}, Call(h, k, a, i)
        PROVE  IInv' /\ UNCHANGED absVars
    <3> DEFINE c == [key |-> k, id |-> i, attr |-> a]
    <3>1. c \in Row /\ c.id = i /\ c.key = k
      BY DEF Row
    <3>2. tx[h] = {} /\ got[h] = {}
      BY <2>0, <2>1 DEF Call, HostAt
    <3>3. HostAt("begin", c, tx[h], got[h])
      BY <2>1, <3>1, <3>2 DEF HostAt, CallOK, Call
    <3>4. c.id = Nil \/ FreshId(c.id)
      BY <2>1, <3>1 DEF Call
    <3>5. /\ pc' = [pc EXCEPT ![h] = "begin"] /\ call' = [call EXCEPT ![h] = c]
          /\ tx' = [tx EXCEPT ![h] = tx[h]] /\ got' = [got EXCEPT ![h] = got[h]]
          /\ rows' = rows /\ known' = known
      BY <2>0, <2>1 DEF Call
    <3>6. \A r \in tx[h] : r.key = c.key
      BY <3>2
    <3> HIDE DEF c
    <3>10. IInv'
      <4> DEFINE t == tx[h]  g == got[h]
      <4>1. /\ t \in SUBSET Row /\ g \in SUBSET Id /\ tx' = [tx EXCEPT ![h] = t]
            /\ got' = [got EXCEPT ![h] = g] /\ HostAt("begin", c, t, g)
            /\ \A r \in t : r.key = c.key
            /\ \A r \in t, o \in Host \ {h} : At(r.key, tx[o]) = {}
            /\ c \in Row \cup {NoCall} /\ "begin" \in InTx \cup {"idle", "begin"}
            /\ pc' = [pc EXCEPT ![h] = "begin"] /\ call' = [call EXCEPT ![h] = c]
            /\ rows' = rows /\ known' = known
            /\ c.id = Nil \/ c.id = call[h].id \/ FreshId(c.id)
        BY <2>0, <3>1, <3>3, <3>4, <3>5, <3>6
      <4> HIDE DEF t, g
      <4> QED BY <4>1, LocalStep
    <3> QED BY <3>5, <3>10 DEF absVars
  <2>2. CASE Begin(h)
    <3>1. HostAt("upsert", call[h], tx[h], got[h])
      BY <2>0, <2>2 DEF Begin, HostAt
    <3>2. /\ pc' = [pc EXCEPT ![h] = "upsert"] /\ call' = [call EXCEPT ![h] = call[h]]
          /\ tx' = [tx EXCEPT ![h] = tx[h]] /\ got' = [got EXCEPT ![h] = got[h]]
          /\ rows' = rows /\ known' = known
      BY <2>0, <2>2 DEF Begin
    <3>3. "upsert" \in InTx \cup {"idle", "begin"}
      BY DEF InTx
    <3>10. IInv'
      <4> DEFINE t == tx[h]  g == got[h]
      <4>1. /\ t \in SUBSET Row /\ g \in SUBSET Id /\ tx' = [tx EXCEPT ![h] = t]
            /\ got' = [got EXCEPT ![h] = g] /\ HostAt("upsert", call[h], t, g)
            /\ \A r \in t : r.key = call[h].key
            /\ \A r \in t, o \in Host \ {h} : At(r.key, tx[o]) = {}
            /\ call' = call
        BY <2>0, <2>2, <3>1, <3>2 DEF Begin
      <4>2. /\ pc' = [pc EXCEPT ![h] = "upsert"] /\ rows' = rows /\ known' = known
            /\ "upsert" \in InTx \cup {"idle", "begin"}
        BY <3>2, <3>3
      <4> HIDE DEF t, g
      <4> QED BY <4>1, <4>2, MoveStep
    <3> QED BY <3>2, <3>10 DEF absVars
  <2>3. CASE UpsertInsert(h)
    <3> DEFINE c == call[h]
    <3>1. Inserted(c, {c}, c.id)
      BY <2>3 DEF UpsertInsert, Inserted, Stored
    <3>2. c \in Row /\ got[h] = {}
      BY <2>0, <2>3 DEF UpsertInsert, HostAt, CallOK
    <3>3. HostAt("readback", c, {c}, got[h])
      BY <2>0, <2>3, <3>1, <3>2 DEF UpsertInsert, HostAt, Wrote
    <3>4. /\ pc' = [pc EXCEPT ![h] = "readback"] /\ call' = [call EXCEPT ![h] = c]
          /\ tx' = [tx EXCEPT ![h] = {c}] /\ got' = [got EXCEPT ![h] = got[h]]
          /\ rows' = rows /\ known' = known
      BY <2>0, <2>3 DEF UpsertInsert
    <3>5. /\ \A r \in {c} : r.key = c.key
          /\ \A r \in {c}, o \in Host \ {h} : At(r.key, tx[o]) = {}
      BY <2>3 DEF UpsertInsert, KeyFree
    <3>6. "readback" \in InTx \cup {"idle", "begin"} /\ {c} \in SUBSET Row
      BY <3>2 DEF InTx
    <3>10. IInv'
      <4> DEFINE t == {c}  g == got[h]
      <4>1. /\ t \in SUBSET Row /\ g \in SUBSET Id /\ tx' = [tx EXCEPT ![h] = t]
            /\ got' = [got EXCEPT ![h] = g] /\ HostAt("readback", call[h], t, g)
            /\ \A r \in t : r.key = call[h].key
            /\ \A r \in t, o \in Host \ {h} : At(r.key, tx[o]) = {}
            /\ call' = call /\ pc' = [pc EXCEPT ![h] = "readback"]
            /\ rows' = rows /\ known' = known
            /\ "readback" \in InTx \cup {"idle", "begin"}
        BY <2>0, <2>3, <3>3, <3>4, <3>5, <3>6 DEF UpsertInsert
      <4> HIDE DEF t, g
      <4> QED BY <4>1, MoveStep
    <3> QED BY <3>4, <3>10 DEF absVars
  <2>4. CASE UpsertConflict(h)
    <3> DEFINE c == call[h]
               t == IF c.key.table = "repo" THEN {}
                    ELSE {Refreshed(r, c.attr) : r \in Stored(h)}
    <3>1. PICK s \in rows : s.key = c.key
      BY <2>4 DEF UpsertConflict, Stored, At
    <3>2. Stored(h) = {s}
      BY <3>1 DEF Stored, At, IInv, Consistent
    <3>3. t = IF c.key.table = "repo" THEN {} ELSE {Refreshed(s, c.attr)}
      BY <3>2
    <3>4. CallOK(c) /\ got[h] = {}
      BY <2>0, <2>4 DEF UpsertConflict, HostAt
    <3>5. Refreshed(s, c.attr) \in Row /\ Refreshed(s, c.attr).key = c.key
      BY <3>1, <3>4 DEF Refreshed, Row, CallOK, IInv, TypeOK
    <3>6. HostAt("readback", c, t, got[h])
      <4>1. Updated(c, t, s.id)
        BY <3>1, <3>3 DEF Updated
      <4> QED BY <3>4, <4>1 DEF HostAt, Wrote
    <3>7. /\ pc' = [pc EXCEPT ![h] = "readback"] /\ call' = [call EXCEPT ![h] = c]
          /\ tx' = [tx EXCEPT ![h] = t] /\ got' = [got EXCEPT ![h] = got[h]]
          /\ rows' = rows /\ known' = known
      BY <2>0, <2>4 DEF UpsertConflict
    <3>8. /\ \A r \in t : r.key = c.key
          /\ \A r \in t, o \in Host \ {h} : At(r.key, tx[o]) = {}
          /\ t \in SUBSET Row
      BY <2>4, <3>3, <3>5 DEF UpsertConflict, KeyFree
    <3>9. "readback" \in InTx \cup {"idle", "begin"}
      BY DEF InTx
    <3> HIDE DEF t
    <3>10. IInv'
      <4> DEFINE g == got[h]
      <4>1. /\ g \in SUBSET Id /\ got' = [got EXCEPT ![h] = g]
            /\ HostAt("readback", call[h], t, g)
            /\ \A r \in t : r.key = call[h].key
            /\ \A r \in t, o \in Host \ {h} : At(r.key, tx[o]) = {}
            /\ call' = call /\ tx' = [tx EXCEPT ![h] = t] /\ t \in SUBSET Row
            /\ pc' = [pc EXCEPT ![h] = "readback"] /\ rows' = rows /\ known' = known
            /\ "readback" \in InTx \cup {"idle", "begin"}
        BY <2>0, <2>4, <3>6, <3>7, <3>8, <3>9 DEF UpsertConflict
      <4> HIDE DEF g, c
      <4> QED BY <4>1, MoveStep
    <3> QED BY <3>7, <3>10 DEF absVars
  <2>5. CASE UpsertOrphan(h)
    BY <2>5, EndStep DEF UpsertOrphan, absVars
  <2>6. CASE ReadBack(h)
    <3> DEFINE c == call[h]
               found == {r.id : r \in At(c.key, Visible(h))}
               g == IF c.key.table \in Keyed THEN found ELSE got[h]
    <3>1. PICK i : Wrote(c, tx[h], i)
      BY <2>0, <2>6 DEF ReadBack, HostAt
    <3>2. CallOK(c) /\ got[h] = {}
      BY <2>0, <2>6 DEF ReadBack, HostAt
    <3>3. found = {i}
      <4>1. CASE Inserted(c, tx[h], i)
        <5>1. Visible(h) = rows \cup {c}
          BY <4>1, PublishInsert DEF Visible
        <5> QED BY <4>1, <5>1 DEF Inserted, At
      <4>2. CASE Updated(c, tx[h], i)
        <5>1. PICK s \in rows :
                 /\ s.key = c.key /\ s.id = i
                 /\ tx[h] = IF c.key.table = "repo" THEN {} ELSE {Refreshed(s, c.attr)}
          BY <4>2 DEF Updated
        <5>2. Visible(h) = (rows \ {s}) \cup {Refreshed(s, c.attr)}
          BY <5>1, PublishUpdate DEF Visible
        <5>3. Refreshed(s, c.attr).key = c.key /\ Refreshed(s, c.attr).id = i
          BY <5>1 DEF Refreshed
        <5>4. \A r \in rows \ {s} : r.key # c.key
          BY <5>1 DEF IInv, Consistent
        <5>5. At(c.key, Visible(h)) = {Refreshed(s, c.attr)}
          BY <5>2, <5>3, <5>4 DEF At
        <5> QED BY <5>3, <5>5
      <4> QED BY <3>1, <4>1, <4>2 DEF Wrote
    <3>4. g = IF c.key.table \in Keyed THEN {i} ELSE {}
      BY <3>2, <3>3
    <3>5. c.key.table \in Keyed => i \in Id
      <4>1. CASE Inserted(c, tx[h], i)
        BY <3>2, <4>1 DEF Inserted, CallOK
      <4>2. CASE Updated(c, tx[h], i)
        BY <4>2 DEF Updated, IInv, IdsOK
      <4> QED BY <3>1, <4>1, <4>2 DEF Wrote
    <3>6. HostAt("commit", c, tx[h], g)
      BY <3>1, <3>2, <3>4 DEF HostAt
    <3>7. /\ pc' = [pc EXCEPT ![h] = "commit"] /\ call' = [call EXCEPT ![h] = c]
          /\ tx' = [tx EXCEPT ![h] = tx[h]] /\ got' = [got EXCEPT ![h] = g]
          /\ rows' = rows /\ known' = known
      BY <2>0, <2>6 DEF ReadBack
    <3>8. "commit" \in InTx \cup {"idle", "begin"} /\ g \in SUBSET Id
      BY <3>4, <3>5 DEF InTx
    <3> HIDE DEF g
    <3>10. IInv'
      <4> DEFINE t == tx[h]
      <4>1. /\ t \in SUBSET Row /\ tx' = [tx EXCEPT ![h] = t]
            /\ HostAt("commit", call[h], t, g)
            /\ \A r \in t : r.key = call[h].key
            /\ \A r \in t, o \in Host \ {h} : At(r.key, tx[o]) = {}
            /\ call' = call
        BY <2>0, <2>6, <3>6, <3>7 DEF ReadBack
      <4> HIDE DEF t
      <4> QED BY <3>7, <3>8, <4>1, MoveStep
    <3> QED BY <3>7, <3>10 DEF absVars
  <2>7. CASE Commit(h)
    BY <2>7, CommitStep DEF Commit
  <2>8. CASE CommitUnanswered(h)
    BY <2>8, CommitStep DEF CommitUnanswered
  <2>9. ASSUME NEW p \in rows, NEW r \in rows, NEW q \in rows, FindProductRepo(h, p, r, q)
        PROVE  IInv' /\ AbsNext
    BY <2>9, FindStep
  <2>10. CASE Fail(h)
    BY <2>10, EndStep DEF Fail, absVars
  <2> QED BY <1>2, <2>1, <2>2, <2>3, <2>4, <2>5, <2>6, <2>7, <2>8, <2>9, <2>10 DEF Step
<1> QED BY <1>1, <1>2 DEF Next

LEMMA InitInv == Init => IInv
<1> SUFFICES ASSUME Init PROVE IInv
  OBVIOUS
<1>1. TypeOK
  BY DEF Init, AbsInit, TypeOK
<1>2. HostsOK
  BY DEF Init, HostsOK, HostAt
<1>3. FreshIds
  BY DEF Init, FreshIds, NoCall
<1> QED BY <1>1, <1>2, <1>3 DEF Init, AbsInit, IInv, Consistent, IdsOK, AnswersStand, Exclusive

(* What rows, hosts and identifiers owe each other holds in every state.     *)
THEOREM Invariance == Spec => []IInv
BY InitInv, Inductive, PTL DEF Spec

(* Tables and calls keep their types. *)
THEOREM TypeCorrect == Spec => []TypeOK
<1>1. IInv => TypeOK
  BY DEF IInv
<1> QED BY <1>1, Invariance, PTL

(* One row per natural key, one per identifier, and no dangling parent. *)
THEOREM RegistryConsistent == Spec => []Consistent
<1>1. IInv => Consistent
  BY DEF IInv
<1> QED BY <1>1, Invariance, PTL

(* What register_* or find_product_repo returned stays true. *)
THEOREM AnswersStay == Spec => []AnswersStand
<1>1. IInv => AnswersStand
  BY DEF IInv
<1> QED BY <1>1, Invariance, PTL

(* _write may take row[0]: the read-back finds the row of the natural key. *)
THEOREM ReadBackSucceeds == Spec => []ReadBackFinds
<1>1. IInv => ReadBackFinds
  <2> SUFFICES ASSUME IInv, NEW h \in Host, pc[h] = "readback"
               PROVE  At(call[h].key, Visible(h)) # {}
    BY DEF ReadBackFinds
  <2>1. PICK i : Wrote(call[h], tx[h], i)
    BY DEF IInv, HostsOK, HostAt
  <2>2. CASE Inserted(call[h], tx[h], i)
    BY <2>2 DEF Inserted, Visible, Merged, At
  <2>3. CASE Updated(call[h], tx[h], i)
    <3>1. PICK s \in rows : /\ s.key = call[h].key
                            /\ tx[h] = IF call[h].key.table = "repo" THEN {}
                                       ELSE {Refreshed(s, call[h].attr)}
      BY <2>3 DEF Updated
    <3>2. Refreshed(s, call[h].attr).key = call[h].key
      BY <3>1 DEF Refreshed
    <3>3. Refreshed(s, call[h].attr) \in Visible(h)
      <4>1. Visible(h) = (rows \ {s}) \cup {Refreshed(s, call[h].attr)}
        BY <3>1, PublishUpdate DEF Visible
      <4> QED BY <4>1
    <3> QED BY <3>2, <3>3 DEF At
  <2> QED BY <2>1, <2>2, <2>3 DEF Wrote
<1> QED BY <1>1, Invariance, PTL

(* The transactions of Registry implement the one-step registry. *)
THEOREM RegistryRefinement == Spec => ImplementsRegistry
<1>1. Init => AbsInit
  BY DEF Init
<1> QED BY <1>1, Inductive, Invariance, PTL DEF Spec, ImplementsRegistry, AbsSpec
=============================================================================
