------------------------ MODULE MCGatewayLifecycle ------------------------
(* GatewayLifecycle on small instances.  The configurations differ in how  *)
(* many daemons may be spawned and how many shells run commands.           *)
EXTENDS GatewayLifecycle, TLC

(* Daemons and shells are told apart by their names alone.                 *)
Interchangeable == Permutations(Daemons) \cup Permutations(Commands)
===========================================================================
