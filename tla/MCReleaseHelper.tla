-------------------------- MODULE MCReleaseHelper --------------------------
(* Where people choose versions or tag by hand there are more commands, and *)
(* fewer commits of fewer kinds: one that does not ask for a release and,   *)
(* where the gate is all there is, one that does.                           *)
EXTENDS ReleaseHelper

MCCommits == [p \in Practice |->
  CASE p = "by hand" -> 2 [] p = "any version" -> 3 [] OTHER -> 4]
MCVersions == [p \in Practice |->
  {<<0, 0, 0>>, <<0, 1, 0>>} \cup IF p = "by hand" THEN {} ELSE {<<0, 0, 1>>}]
MCKinds == [p \in Practice |->
  CASE p = "by hand" -> {"other"} [] p = "any version" -> {"fix", "other"} [] OTHER -> Kind]
MCFails == [p \in Practice |-> IF p = "by hand" THEN 1 ELSE 2]
=============================================================================
