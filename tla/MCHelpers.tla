------------------------------ MODULE MCHelpers ------------------------------
(***************************************************************************)
(* The parts that run alone, in one process: the walk behind the enum       *)
(* registry, the encoder of binding identities, the estate-data guard and   *)
(* the risk rating.  A behaviour is one of these machines; the others stay  *)
(* in their initial state.                                                  *)
(*                                                                          *)
(* Schemas: every way three schemas can refer to each other; each has a     *)
(* vocabulary of its own and up to two references, one perhaps in an `if`.  *)
(* Texts: their bytes look like the encoder's own: empty, U+0001 (the       *)
(* presence byte), text that ends or starts with it, a two-byte character,  *)
(* one with NUL and a lone surrogate.                                       *)
(* Files: three guarded ones, one with a space and one with a quote in its  *)
(* name, and the changelog; a plain line, a figure that one of them already *)
(* holds and one that none does; text, a symlink, a binary file.            *)
(***************************************************************************)
EXTENDS EnumReach, BindingIdentity, EstateGuard, RiskRating

CONSTANTS a, b, c, none

VARIABLE machine

\* ------------------------------------------------------------- schemas
MCSchemas == <<a, b, c>>
Sites == [n \in Node |-> CASE n = a -> {"grade"} [] n = b -> {"status"} [] OTHER -> {"colour"}]

MCItem(cond, vs, r) == [in_if |-> cond, values |-> vs, ref |-> r]
First(n) == {<<MCItem(FALSE, Sites[n], r)>> : r \in Node \cup {Nil}}
Second == {<<>>} \cup {<<MCItem(cond, {}, r)>> : cond \in BOOLEAN, r \in Node}
ItemsOf(n) == {f \o s : f \in First(n), s \in Second}

MCWalks == {w \in [Node -> UNION {ItemsOf(n) : n \in Node}] :
              \A n \in Node : w[n] \in ItemsOf(n)}

\* --------------------------------------------------------------- texts
MCText == {"", "a", "U+0001", "U+0001 a", "a U+0001", "e-acute", "a NUL a", "surrogate"}
MCUtf8 == [t \in MCText \ {"surrogate"} |->
             CASE t = "" -> <<>>
               [] t = "a" -> <<97>>
               [] t = "U+0001" -> <<1>>
               [] t = "U+0001 a" -> <<1, 97>>
               [] t = "a U+0001" -> <<97, 1>>
               [] t = "e-acute" -> <<195, 169>>
               [] OTHER -> <<97, 0, 97>>]

MCContext ==
  [artifact_digest : {"a"}, artifact_name : {"a", "a U+0001"},
   scope_id : {"", "U+0001"}, subject_id : {none, "", "U+0001 a"},
   run_id : {none, "", "e-acute"}, layer_id : {none, "U+0001"},
   role : {none, "", "a"}]
  \cup
  [artifact_digest : {"a", "surrogate"}, artifact_name : {"a"},
   scope_id : {"a"}, subject_id : {"a NUL a", "a"}, run_id : {none}, layer_id : {none, "a"},
   role : {none, "surrogate"}]

\* --------------------------------------------------------------- files
MCFiles == {"docs.md", "say \"so\".md", "CHANGELOG.md"}
MCQuoted == {"say \"so\".md"}
MCLines == {"prose", "old figure", "new figure"}
MCFigures == {"old figure", "new figure"}
MCDebt == {<<"docs.md", "old figure">>}

MCFile(kind, lines) == [kind |-> kind, lines |-> lines]
MCContents ==
    {MCFile("text", s) : s \in {<<"prose", "new figure">>, <<"prose", "old figure">>,
                                <<"old figure", "prose">>}}
    \cup {MCFile("link", <<"prose">>), MCFile("binary", <<"new figure">>)}

MCFirstTrees ==
    {[f \in MCFiles |-> CASE f = "docs.md" -> d
                         [] f = "CHANGELOG.md" -> MCFile("text", <<"prose", "new figure">>)
                         [] OTHER -> NoFile] :
        d \in {MCFile("link", <<"prose">>), MCFile("text", <<"prose", "old figure">>)}}

\* -------------------------------------------------------------- scores
\* Of 2.874 for 2.875 and 6.001 for 6.0, Python reports the second.
MCRoundsIn == {<<5748, 5750>>}

\* ------------------------------------------------------ one machine each
Machines == {"walk", "encoder", "guard", "rating"}

OneWalk == CHOOSE w \in Walks : TRUE
OneTree == CHOOSE t \in FirstTrees : TRUE

Init ==
    /\ machine \in Machines
    /\ walk \in IF machine = "walk" THEN Walks ELSE {OneWalk}
    /\ head \in IF machine = "guard" THEN FirstTrees ELSE {OneTree}
    /\ other = head    \* both branches start from one commit
    /\ ReachInit /\ IdentityInit /\ GuardInit /\ RatingInit

Next ==
    /\ UNCHANGED machine
    /\ \/ machine = "walk" /\ ReachNext /\ UNCHANGED <<identityVars, guardVars, ratingVars>>
       \/ machine = "encoder" /\ IdentityNext /\ UNCHANGED <<reachVars, guardVars, ratingVars>>
       \/ machine = "guard" /\ GuardNext /\ UNCHANGED <<reachVars, identityVars, ratingVars>>
       \/ machine = "rating" /\ RatingNext /\ UNCHANGED <<reachVars, identityVars, guardVars>>

Spec == Init /\ [][Next]_<<machine, reachVars, identityVars, guardVars, ratingVars>>
=============================================================================
