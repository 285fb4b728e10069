-------------------------- MODULE MCGatewayRegistry --------------------------
(* GatewayRegistry for TLC.  Conns and Gateways are sets of model values    *)
(* given in the configuration.  No symmetry: the run checks liveness.       *)
EXTENDS GatewayRegistry
=============================================================================
