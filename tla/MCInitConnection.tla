------------------------- MODULE MCInitConnection --------------------------
(* Instances of InitConnection for TLC: node 3 is too far for a frame. *)
EXTENDS InitConnection

MCHop == [n \in 0..NodeCount |-> n - n \div 2]
MCConnected == <<3, 2, 1>>
MCSilencedRows == {{}, {1, 2, 3}}
MCPlateRows == {{0, 1}, {1, 3}, {0, 1, 2, 3}}
MCScalarQueues ==
  {<<>>, <<[node |-> 3, cmd |-> "IP"], [node |-> 0, cmd |-> "IP"],
           [node |-> 1, cmd |-> "IP"]>>}
=============================================================================
