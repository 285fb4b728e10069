------------------------- MODULE MCPushReassembly --------------------------
(* Instances of PushReassembly for TLC. *)
EXTENDS PushReassembly

MCSource == {<<"m1", "BLP">>, <<"m1", "IP">>}
=============================================================================
