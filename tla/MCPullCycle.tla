---------------------------- MODULE MCPullCycle ----------------------------
(* The pull cycle of a gateway with two nodes, the second with an alternate; *)
(* the database lacks one thing of the second node.                          *)
EXTENDS PullCycle

MCAlternates == [n \in 1..2 |-> n - 1]
MCLacking == {[n \in 1..2 |-> IF n = 1 THEN {} ELSE {k}] :
                k \in {"SILENCED", "INTERNAL_FV", "BLOCK_LOAD",
                       "INSTANTANEOUS_PROFILE"}}
MCRenewed == {[n \in 1..2 |-> {}]}
=============================================================================
