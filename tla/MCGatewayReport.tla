-------------------------- MODULE MCGatewayReport --------------------------
(* GatewayReport on small instances.                                       *)
EXTENDS GatewayReport, TLC

(* Exchanges are told apart by their identifiers alone.                    *)
Interchangeable == Permutations(Exchanges)
============================================================================
