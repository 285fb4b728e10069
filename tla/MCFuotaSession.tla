-------------------------- MODULE MCFuotaSession --------------------------
(***************************************************************************)
(* A gateway with two leaves and a router on the way to one of them; or    *)
(* alone, with two requests, or with two answers under way.                *)
(***************************************************************************)
EXTENDS FuotaSession

MCPath == [n \in {"router", "far", "near"} |->
             IF n = "far" THEN <<"router", "far">> ELSE <<n>>]
MCScopes ==
  {[nodes |-> <<"router", "far", "near">>, requests |-> 1, late |-> 1],
   [nodes |-> <<>>, requests |-> 2, late |-> 1],
   [nodes |-> <<>>, requests |-> 1, late |-> 2]}
=============================================================================
