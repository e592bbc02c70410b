-------------------------- MODULE MCGatewayLifetime --------------------------
(* Instances of GatewayLifetime for TLC. *)
EXTENDS GatewayLifetime
=============================================================================
