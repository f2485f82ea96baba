---------------------------- MODULE GatewaySlot ----------------------------
(***************************************************************************)
(* What the gateway promises about one profile's proxy address, whatever   *)
(* the files, signals and commands behind it do.                           *)
(*                                                                         *)
(* The address is a slot that at most one daemon occupies.  A daemon takes *)
(* it once in its life and, once it has left, never comes back.  A command *)
(* tells its user that a daemon runs only if that daemon took the slot,    *)
(* and that a daemon is stopped only if that daemon has left it.           *)
(***************************************************************************)

CONSTANTS
    Daemons,        \* every daemon process that may ever be spawned
    Commands,       \* the shells that run commands
    Nobody          \* the daemon a silent command speaks of

VARIABLES
    slot,           \* the daemons that occupy the address
    left,           \* the daemons that occupied it and are out
    verdict         \* verdict[c]: what command c is telling its user, of whom

slotVars == <<slot, left, verdict>>

Silent == <<"none", Nobody>>

Init ==
    /\ slot = {}
    /\ left = {}
    /\ verdict = [c \in Commands |-> Silent]

Take(d) ==
    /\ slot = {}
    /\ d \notin left
    /\ slot' = {d}
    /\ UNCHANGED <<left, verdict>>

Leave(d) ==
    /\ d \in slot
    /\ slot' = slot \ {d}
    /\ left' = left \cup {d}
    /\ UNCHANGED verdict

SayRunning(c, d) ==
    /\ d \in slot \cup left
    /\ verdict' = [verdict EXCEPT ![c] = <<"running", d>>]
    /\ UNCHANGED <<slot, left>>

SayStopped(c, d) ==
    /\ d \in left
    /\ verdict' = [verdict EXCEPT ![c] = <<"stopped", d>>]
    /\ UNCHANGED <<slot, left>>

FallSilent(c) ==
    /\ verdict' = [verdict EXCEPT ![c] = Silent]
    /\ UNCHANGED <<slot, left>>

Next ==
    \/ \E d \in Daemons : Take(d) \/ Leave(d)
    \/ \E c \in Commands :
          \/ FallSilent(c)
          \/ \E d \in Daemons : SayRunning(c, d) \/ SayStopped(c, d)

Spec == Init /\ [][Next]_slotVars
============================================================================
