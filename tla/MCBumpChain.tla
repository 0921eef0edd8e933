---------------------------- MODULE MCBumpChain ----------------------------
(* Instances of the pin chain for TLC: one hop with more of everybody      *)
(* else's steps, and a chain of two hops.                                  *)
EXTENDS BumpChain, TLC

MCCommits == 2 :> 3 @@ 3 :> 2
MCPrs == 2 :> 1 @@ 3 :> 1
MCTwoPrs == 2 :> 2
MCMoves == 2 :> 3 @@ 3 :> 2

=============================================================================
