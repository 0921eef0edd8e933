------------------------------ MODULE Registry ------------------------------
(***************************************************************************)
(* Store.register_* and Store.find_product_repo: hosts register products,  *)
(* repos, product_repos, versions and owners in one database.  Each call   *)
(* is a transaction of its own: an upsert on the natural key with a fresh  *)
(* uuid4, a read-back of the stored identifier, COMMIT.                    *)
(***************************************************************************)
EXTENDS RegistryAbs

CONSTANTS Host, Dialect,
          Stranger   \* an identifier that no row ever has

ASSUME StrangerAssumption == Stranger \notin Id \cup {Nil}
ASSUME DialectAssumption == Dialect \in {"postgres", "sqlite"}

VARIABLES pc,    \* host -> the statement it executes next
          call,  \* host -> the upsert's parameters [key, id, attr]
          tx,    \* host -> the row version its transaction wrote, if any
          got    \* host -> the identifier it read back

vars == <<rows, known, pc, call, tx, got>>

NoCall == [key |-> Nil, id |-> Nil, attr |-> Nil]
InTx == {"upsert", "readback", "commit"}

-----------------------------------------------------------------------------
Init ==
    /\ AbsInit
    /\ pc = [h \in Host |-> "idle"]
    /\ call = [h \in Host |-> NoCall]
    /\ tx = [h \in Host |-> {}]
    /\ got = [h \in Host |-> {}]

Goto(h, s) == pc' = [pc EXCEPT ![h] = s]

End(h) ==
    /\ Goto(h, "idle")
    /\ call' = [call EXCEPT ![h] = NoCall]
    /\ tx' = [tx EXCEPT ![h] = {}]
    /\ got' = [got EXCEPT ![h] = {}]

\* uuid4 never returns an identifier that is in use.
FreshId(i) ==
    /\ \A r \in rows : r.id # i
    /\ \A h \in Host : call[h].id # i

\* A caller passes identifiers of rows it can have seen, or made-up ones.
Passable(k) ==
    \A p \in Parents(k) : p[2] = Stranger \/ \E r \in rows : r.id = p[2]

Call(h, k, a, i) ==
    /\ pc[h] = "idle"
    /\ Passable(k)
    /\ IF k.table \in Keyed THEN i \in Id /\ FreshId(i) ELSE i = Nil
    /\ call' = [call EXCEPT ![h] = [key |-> k, id |-> i, attr |-> a]]
    /\ Goto(h, "begin")
    /\ UNCHANGED <<rows, known, tx, got>>

\* SQLite: BEGIN IMMEDIATE waits for the writer.
Begin(h) ==
    /\ pc[h] = "begin"
    /\ Dialect = "sqlite" => \A o \in Host \ {h} : pc[o] \notin InTx
    /\ Goto(h, "upsert")
    /\ UNCHANGED <<rows, known, call, tx, got>>

\* Mutant: the natural key has no unique index to wait at.
KeyFree_NoIndex(h) == TRUE

\* PostgreSQL: the upsert waits for a transaction that inserted or updated a
\* row with its natural key.
KeyFree(h) == \A o \in Host \ {h} : At(call[h].key, tx[o]) = {}

\* What the upsert finds committed when it stops waiting.
Stored(h) == At(call[h].key, rows)

UpsertInsert(h) ==
    /\ pc[h] = "upsert"
    /\ KeyFree(h)
    /\ Stored(h) = {}
    /\ ParentsIn(call[h].key, rows)
    /\ tx' = [tx EXCEPT ![h] = {call[h]}]
    /\ Goto(h, "readback")
    /\ UNCHANGED <<rows, known, call, got>>

\* Mutant: DO UPDATE also takes the new identifier.
UpsertConflict_ReplaceId(h) ==
    /\ pc[h] = "upsert"
    /\ KeyFree(h)
    /\ Stored(h) # {}
    /\ tx' = [tx EXCEPT ![h] = {call[h]}]
    /\ Goto(h, "readback")
    /\ UNCHANGED <<rows, known, call, got>>

UpsertConflict(h) ==
    /\ pc[h] = "upsert"
    /\ KeyFree(h)
    /\ Stored(h) # {}
    /\ tx' = [tx EXCEPT ![h] = IF call[h].key.table = "repo" THEN {}
                               ELSE {Refreshed(r, call[h].attr) : r \in Stored(h)}]
    /\ Goto(h, "readback")
    /\ UNCHANGED <<rows, known, call, got>>

\* The foreign key is violated: the statement raises.
UpsertOrphan(h) ==
    /\ pc[h] = "upsert"
    /\ KeyFree(h)
    /\ Stored(h) = {}
    /\ ~ ParentsIn(call[h].key, rows)
    /\ End(h)
    /\ UNCHANGED <<rows, known>>

\* The tables as host h sees them: READ COMMITTED plus its own row version.
Merged(rs, own) == {r \in rs : At(r.key, own) = {}} \cup own

Visible(h) == Merged(rows, tx[h])

\* Mutant: the call answers with the identifier it generated.
ReadBack_OwnId(h) ==
    /\ pc[h] = "readback"
    /\ got' = [got EXCEPT ![h] = {call[h].id} \ {Nil}]
    /\ Goto(h, "commit")
    /\ UNCHANGED <<rows, known, call, tx>>

ReadBack(h) ==
    /\ pc[h] = "readback"
    /\ LET found == {r.id : r \in At(call[h].key, Visible(h))}
       IN  IF call[h].key.table \in Keyed
           THEN found # {} /\ got' = [got EXCEPT ![h] = found]
           ELSE UNCHANGED got
    /\ Goto(h, "commit")
    /\ UNCHANGED <<rows, known, call, tx>>

Publish(h) ==
    /\ pc[h] = "commit"
    /\ rows' = Merged(rows, tx[h])
    /\ End(h)

Commit(h) ==
    /\ Publish(h)
    /\ known' = known \cup {<<call[h].key, i>> : i \in got[h]}

\* COMMIT took effect but its answer was lost.
CommitUnanswered(h) == Publish(h) /\ UNCHANGED known

\* find_product_repo: one SELECT over committed rows.
FindProductRepo(h, p, r, q) ==
    /\ pc[h] = "idle"
    /\ p.key.table = "product" /\ r.key.table = "repo" /\ q.key.table = "product_repo"
    /\ q.key.first = p.id /\ q.key.second = r.id
    /\ known' = known \cup {<<q.key, q.id>>}
    /\ UNCHANGED <<rows, pc, call, tx, got>>

\* A statement raises, BEGIN times out, or the process dies: rolled back.
Fail(h) ==
    /\ pc[h] # "idle"
    /\ End(h)
    /\ UNCHANGED <<rows, known>>

Step(h) ==
    \/ \E k \in Key, a \in Attr, i \in Id \cup {Nil} : Call(h, k, a, i)
    \/ Begin(h) \/ UpsertInsert(h) \/ UpsertConflict(h) \/ UpsertOrphan(h)
    \/ ReadBack(h) \/ Commit(h) \/ CommitUnanswered(h)
    \/ \E p, r, q \in rows : FindProductRepo(h, p, r, q)
    \/ Fail(h)

Next == \E h \in Host : Step(h)
Spec == Init /\ [][Next]_vars

-----------------------------------------------------------------------------
(* Properties. *)

Row == [key : Key, id : Id \cup {Nil}, attr : Attr]

(* Tables hold rows, and a host has written at most one row version, under  *)
(* the natural key of its call.                                             *)
TypeOK ==
    /\ rows \subseteq Row
    /\ known \subseteq Key \X Id
    /\ pc \in [Host -> InTx \cup {"idle", "begin"}]
    /\ call \in [Host -> Row \cup {NoCall}]
    /\ tx \in [Host -> SUBSET Row]
    /\ \A h \in Host : \A r \in tx[h] : r.key = call[h].key
    /\ got \in [Host -> SUBSET Id]

(* However many hosts register the same things at once, a natural key has   *)
(* one row, an identifier belongs to one row, and the product, repo or      *)
(* product_repo that a row names is there.                                  *)
Consistent ==
    /\ \A r, s \in rows : r.key = s.key \/ (r.id = s.id /\ r.id # Nil) => r = s
    /\ \A r \in rows : ParentsIn(r.key, rows)

(* An identifier that register_* or find_product_repo returned is the one   *)
(* stored under that natural key, whatever the other hosts do then.         *)
AnswersStand == \A a \in known : \E r \in rows : r.key = a[1] /\ r.id = a[2]

(* The read-back after the upsert always finds a row: _write may take       *)
(* row[0], and a call never fails because a rival registered the same key.  *)
ReadBackFinds ==
    \A h \in Host : pc[h] = "readback" => At(call[h].key, Visible(h)) # {}

(* Interleaved transactions with failures implement the one-step registry.  *)
ImplementsRegistry == AbsSpec
=============================================================================
