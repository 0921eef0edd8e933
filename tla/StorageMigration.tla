-------------------------- MODULE StorageMigration --------------------------
(***************************************************************************)
(* Store.init and Store.migrate: hosts with packages of different          *)
(* revisions open, bootstrap and upgrade one database.  A shape is what    *)
(* the revisions tell apart: the stamp in traust_storage_meta, the tables, *)
(* the columns that a delta file adds, and the views, each with the        *)
(* revision of the package that created it.                                *)
(***************************************************************************)
EXTENDS Integers

CONSTANTS Host, Dialect,
          Version,      \* Version[h]: CONTRACT_VERSION of the package of h
          Package,      \* Package[h]: its REVISION
          Table, Introduced,   \* the revision whose schema/ first has the table
          Column, Of, Added,   \* its table, the revision whose delta adds it
          View, Since,         \* the revision whose views/ first has it
          Nil

ASSUME DialectAssumption == Dialect \in {"postgres", "sqlite"}

ASSUME PackageAssumption ==
    /\ \A h \in Host : Package[h] \in Nat \ {0}
    /\ Package \in [Host -> Nat]
    /\ DOMAIN Version = Host /\ \A h \in Host : Version[h] # Nil

\* A delta file holds ALTERs only (a test rejects CREATE in one), so a column
\* it adds is younger than its table.
ASSUME HistoryAssumption ==
    /\ Introduced \in [Table -> Nat \ {0}]
    /\ Since \in [View -> Nat \ {0}]
    /\ Of \in [Column -> Table]
    /\ Added \in [Column -> Nat]
    /\ \A c \in Column : Added[c] > Introduced[Of[c]]

\* SQLite has no ADD COLUMN IF NOT EXISTS.  The deltas so far alter tables of
\* the revision-1 baseline only; see DeltasApply for why this matters.
ASSUME BaselineAssumption ==
    Dialect = "sqlite" => \A c \in Column : Introduced[Of[c]] = 1

VARIABLES db,    \* the committed database
          pc,    \* per host: the step of init() or migrate() it takes next
          op,    \* per host: which of the two it runs
          work,  \* per host: the database as its open transaction sees it
          step,  \* per host: the revision reached by the deltas
          open   \* hosts one of whose calls has returned normally

vars == <<db, pc, op, work, step, open>>

-----------------------------------------------------------------------------
(* What a package holds. *)

Tables(r)  == {t \in Table : Introduced[t] <= r}
Columns(r) == {c \in Column : Added[c] <= r}
Views(r)   == {v \in View : Since[v] <= r}

Empty == [version |-> Nil, stamp |-> 0, tables |-> {}, columns |-> {}, views |-> {}]

\* The database that running every bootstrap file of revision r creates.
Fresh(v, r) == [version |-> v, stamp |-> r, tables |-> Tables(r),
                columns |-> Columns(r), views |-> Views(r) \X {r}]

\* CREATE TABLE IF NOT EXISTS for every schema file: a missing table comes in
\* its current shape, an existing one is left as it is.
CreateTables(s, r) ==
    LET missing == Tables(r) \ s.tables
    IN  [version |-> s.version, stamp |-> s.stamp,
         tables |-> s.tables \cup missing,
         columns |-> s.columns \cup {c \in Columns(r) : Of[c] \in missing},
         views |-> s.views]

\* CREATE OR REPLACE VIEW on PostgreSQL; CREATE VIEW IF NOT EXISTS on SQLite.
CreateViews(s, r) ==
    LET kept == IF Dialect = "sqlite"
                THEN s.views
                ELSE {e \in s.views : e[1] \notin Views(r)}
    IN  [s EXCEPT !.views =
            kept \cup {v \in Views(r) : \A e \in kept : e[1] # v} \X {r}]

RunBootstrapFiles(s, r) == CreateViews(CreateTables(s, r), r)

\* Mutant: a migration that leaves the old views in place.
DropViews_None(s, r) == s

DropViews(s, r) == [s EXCEPT !.views = {e \in @ : e[1] \notin Views(r)}]

Delta(k) == {c \in Column : Added[c] = k + 1}

Stamped(s, v, r) == [version |-> v, stamp |-> r, tables |-> s.tables,
                     columns |-> s.columns, views |-> s.views]

\* ADD COLUMN of an existing column raises on SQLite and is skipped on
\* PostgreSQL (ADD COLUMN IF NOT EXISTS).
DeltaApplies(s, k) ==
    /\ \A c \in Delta(k) : Of[c] \in s.tables
    /\ Dialect = "sqlite" => Delta(k) \cap s.columns = {}

-----------------------------------------------------------------------------
Init ==
    /\ db = Empty
    /\ pc = [h \in Host |-> "idle"]
    /\ op = [h \in Host |-> Nil]
    /\ work = [h \in Host |-> Empty]
    /\ step = [h \in Host |-> 0]
    /\ open = {}

\* Past BEGIN and the lock.
Inside == {"meta", "bootstrap", "drop", "create", "delta", "rerun", "stamp",
           "commit"}

Goto(h, s) == pc' = [pc EXCEPT ![h] = s]

\* The call is over: nothing of its transaction is left.
End(h) ==
    /\ Goto(h, "idle")
    /\ op' = [op EXCEPT ![h] = Nil]
    /\ work' = [work EXCEPT ![h] = Empty]
    /\ step' = [step EXCEPT ![h] = 0]

Call(h, o) ==
    /\ pc[h] = "idle"
    /\ Goto(h, "waiting")
    /\ op' = [op EXCEPT ![h] = o]
    /\ UNCHANGED <<db, work, step, open>>

\* Mutant: no lock is taken.
LockFree_Unlocked(h) == TRUE

\* The bootstrap lock of PostgreSQL, or the single writer of SQLite, is free.
LockFree(h) == \A g \in Host \ {h} : pc[g] \notin Inside

Begin(h) ==
    /\ pc[h] = "waiting"
    /\ LockFree(h)
    /\ Goto(h, "meta")
    /\ work' = [work EXCEPT ![h] = db]
    /\ UNCHANGED <<db, op, step, open>>

\* The metadata row decides what the call does.
NoMeta(h)      == work[h].stamp = 0
SameVersion(h) == work[h].version = Version[h]
\* Mutant: init() accepts a database of an older revision.
Current_NotNewer(h) == SameVersion(h) /\ work[h].stamp <= Package[h]
Current(h)     == SameVersion(h) /\ work[h].stamp = Package[h]
Older(h)       == SameVersion(h) /\ work[h].stamp < Package[h]

ReadMeta(h, guard, s) ==
    /\ pc[h] = "meta"
    /\ guard
    /\ Goto(h, s)
    /\ UNCHANGED <<db, op, work, step, open>>

FoundNothing(h) == ReadMeta(h, NoMeta(h), "bootstrap")
FoundCurrent(h) == ReadMeta(h, ~ NoMeta(h) /\ Current(h), "commit")
FoundOlder(h)   == ReadMeta(h, ~ NoMeta(h) /\ Older(h) /\ op[h] = "migrate", "drop")

\* init() refuses every mismatch, migrate() another version or a newer revision.
Refuse(h) ==
    /\ pc[h] = "meta"
    /\ ~ NoMeta(h) /\ ~ Current(h)
    /\ Older(h) => op[h] = "init"
    /\ End(h)
    /\ UNCHANGED <<db, open>>

Bootstrap(h) ==
    /\ pc[h] = "bootstrap"
    /\ work' = [work EXCEPT ![h] = RunBootstrapFiles(@, Package[h])]
    /\ Goto(h, "stamp")
    /\ UNCHANGED <<db, op, step, open>>

DropOwnViews(h) ==
    /\ pc[h] = "drop"
    /\ work' = [work EXCEPT ![h] = DropViews(@, Package[h])]
    /\ Goto(h, "create")
    /\ UNCHANGED <<db, op, step, open>>

\* Mutant: the range of deltas starts one step early.
CreateMissing_Early(h) ==
    /\ pc[h] = "create"
    /\ work' = [work EXCEPT ![h] = CreateTables(@, Package[h])]
    /\ step' = [step EXCEPT ![h] = work[h].stamp - 1]
    /\ Goto(h, "delta")
    /\ UNCHANGED <<db, op, open>>

\* The deltas to run are those of range(stamped revision, REVISION).
CreateMissing(h) ==
    /\ pc[h] = "create"
    /\ work' = [work EXCEPT ![h] = CreateTables(@, Package[h])]
    /\ step' = [step EXCEPT ![h] = work[h].stamp]
    /\ Goto(h, "delta")
    /\ UNCHANGED <<db, op, open>>

ApplyDelta(h) ==
    /\ pc[h] = "delta"
    /\ step[h] < Package[h]
    /\ DeltaApplies(work[h], step[h])
    /\ work' = [work EXCEPT ![h].columns = @ \cup Delta(step[h])]
    /\ step' = [step EXCEPT ![h] = @ + 1]
    /\ UNCHANGED <<db, pc, op, open>>

DeltasDone(h) ==
    /\ pc[h] = "delta"
    /\ step[h] >= Package[h]
    /\ Goto(h, "rerun")
    /\ UNCHANGED <<db, op, work, step, open>>

Rerun(h) ==
    /\ pc[h] = "rerun"
    /\ work' = [work EXCEPT ![h] = RunBootstrapFiles(@, Package[h])]
    /\ Goto(h, "stamp")
    /\ UNCHANGED <<db, op, step, open>>

Stamp(h) ==
    /\ pc[h] = "stamp"
    /\ work' = [work EXCEPT ![h] = Stamped(@, Version[h], Package[h])]
    /\ Goto(h, "commit")
    /\ UNCHANGED <<db, op, step, open>>

Commit(h) ==
    /\ pc[h] = "commit"
    /\ db' = work[h]
    /\ open' = open \cup {h}
    /\ End(h)

\* COMMIT took effect but its answer was lost: the caller sees an error.
CommitUnanswered(h) ==
    /\ pc[h] = "commit"
    /\ db' = work[h]
    /\ End(h)
    /\ UNCHANGED open

\* A statement raises (an ADD COLUMN that does not apply among them), a delta
\* file is missing or BEGIN times out: the except clause rolls back.
Fail(h) ==
    /\ pc[h] # "idle"
    /\ End(h)
    /\ UNCHANGED <<db, open>>

\* The process dies: the server rolls its transaction back.
Crash(h) ==
    /\ End(h)
    /\ open' = open \ {h}
    /\ UNCHANGED db

Step(h) ==
    \/ \E o \in {"init", "migrate"} : Call(h, o)
    \/ Begin(h)
    \/ FoundNothing(h) \/ FoundCurrent(h) \/ FoundOlder(h) \/ Refuse(h)
    \/ Bootstrap(h)
    \/ DropOwnViews(h) \/ CreateMissing(h) \/ ApplyDelta(h) \/ DeltasDone(h)
    \/ Rerun(h)
    \/ Stamp(h) \/ Commit(h) \/ CommitUnanswered(h)
    \/ Fail(h) \/ Crash(h)

Next == \E h \in Host : Step(h)

Spec == Init /\ [][Next]_vars

-----------------------------------------------------------------------------
(* Properties. *)

Shape == [version : {Version[h] : h \in Host} \cup {Nil}, stamp : Nat,
          tables : SUBSET Table, columns : SUBSET Column,
          views : SUBSET (View \X Nat)]

(* The committed database and every transaction's view of it are shapes, and  *)
(* the deltas of migrate() never run past the package's own revision.         *)
TypeOK ==
    /\ db \in Shape
    /\ pc \in [Host -> Inside \cup {"idle", "waiting"}]
    /\ op \in [Host -> {"init", "migrate", Nil}]
    /\ work \in [Host -> Shape]
    /\ step \in [Host -> Nat]
    /\ \A h \in Host : pc[h] = "delta" => step[h] <= Package[h]
    /\ open \subseteq Host

(* However a stamped database came about (bootstrapped, or migrated any       *)
(* number of times by packages of any revisions, through failures and deaths  *)
(* between any two statements), it has exactly the tables, columns and views  *)
(* that init() of the stamped revision creates on an empty database; one that *)
(* is not stamped holds nothing.                                              *)
MigratedIsFresh ==
    IF db.stamp = 0 THEN db = Empty ELSE db = Fresh(db.version, db.stamp)

(* No init() or migrate() takes a database back to an earlier revision or to  *)
(* another contract version.                                                  *)
GrowStep ==
    /\ db'.stamp >= db.stamp
    /\ db.stamp # 0 => db'.version = db.version
RevisionsGrow == [][GrowStep]_vars

(* A host whose init() or migrate() returned works, for as long as it lives,  *)
(* on a database that has every table and column its package writes and every *)
(* view it reads in that shape or a later one, although newer packages        *)
(* migrate the database under it.                                             *)
OpenedFits ==
    \A h \in open :
        /\ db.version = Version[h]
        /\ Tables(Package[h]) \subseteq db.tables
        /\ Columns(Package[h]) \subseteq db.columns
        /\ \A v \in Views(Package[h]) :
              \E r \in {e[2] : e \in db.views} : r >= Package[h] /\ <<v, r>> \in db.views

(* No delta file raises, whatever revision the database starts from: the      *)
(* tables it alters exist and do not have its columns yet.  On SQLite this    *)
(* needs BaselineAssumption: a table younger than the stamped revision is     *)
(* created in its current shape before the deltas run, so a delta that alters *)
(* it would repeat a column.                                                  *)
DeltasApply ==
    \A h \in Host :
        pc[h] = "delta" /\ step[h] < Package[h] => DeltaApplies(work[h], step[h])

\* The schema of a database: its shape without the stamp.
Contents(s) == [tables |-> s.tables, columns |-> s.columns, views |-> s.views]
FilesOf(r) == Contents(Fresh(Nil, r))

(* The statements of init() and migrate(), interleaved, failing and dying     *)
(* anywhere, implement the one-step upgrade of MigrationAbs.                  *)
Abs == INSTANCE MigrationAbs
         WITH version <- db.version, revision <- db.stamp, schema <- Contents(db),
              Files <- FilesOf
ImplementsUpgrade == Abs!AbsSpec
=============================================================================
