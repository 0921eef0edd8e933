---------------------------- MODULE MigrationAbs ----------------------------
(***************************************************************************)
(* What init() and migrate() promise: the database belongs to one revision *)
(* of one contract version, with that revision's schema; a package takes   *)
(* it, in one step, from nothing or from an earlier revision of its own    *)
(* version to its own revision; a host is open only from such a step on.   *)
(***************************************************************************)
EXTENDS Integers

CONSTANTS Host, Version, Package, Nil,
          Files(_)    \* the schema that the files of a revision create

VARIABLES version, revision, schema, open

absVars == <<version, revision, schema, open>>

AbsInit ==
    /\ version = Nil /\ revision = 0 /\ schema = Files(0)
    /\ open = {}

\* The call returns, or its caller never hears that it took effect.
Upgrade(h) ==
    /\ revision = 0 \/ (version = Version[h] /\ revision <= Package[h])
    /\ version' = Version[h] /\ revision' = Package[h] /\ schema' = Files(Package[h])
    /\ open' \in {open, open \cup {h}}

Close(h) ==
    /\ open' = open \ {h}
    /\ UNCHANGED <<version, revision, schema>>

AbsNext == \E h \in Host : Upgrade(h) \/ Close(h)

AbsSpec == AbsInit /\ [][AbsNext]_absVars
=============================================================================
