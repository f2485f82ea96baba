-------------------------- MODULE GatewayLifecycle --------------------------
(***************************************************************************)
(* One gateway profile: its configuration entry, its runtime state file,   *)
(* the daemons `tok gateway _serve` started for it, and the commands       *)
(* `tok gateway start | stop | status | remove` that find, start and stop  *)
(* daemons through the file.                                               *)
(*                                                                         *)
(* A command and a daemon are separate operating-system processes.  They   *)
(* share three things: the state file, which carries one daemon's identity *)
(* (PID, control address, control token, instance), the profile's listen   *)
(* address, which the system lets one process bind, and each daemon's      *)
(* control endpoint.  Every access to one of them is a step of its own, so *)
(* that whatever was read is old by the time it is used.                   *)
(*                                                                         *)
(* A daemon is identified by its process: the instance id and the control  *)
(* token are random, so that the health check succeeds for exactly the     *)
(* daemon whose identity the caller read.                                  *)
(***************************************************************************)

CONSTANTS
    Daemons,          \* the processes the commands may spawn
    Commands,         \* the shells that run commands, one after another
    Handlers,         \* shutdown goroutines a daemon's control endpoint may run
    Main,             \* the daemon's main goroutine, which also shuts down
    Nobody,           \* no state file
    Verbs,            \* the commands the shells run
    ProbeMayTimeOut   \* may a health check time out although the daemon lives

ASSUME IdentityAssumption == Nobody \notin Daemons
ASSUME GoroutineAssumption == Main \notin Handlers
ASSUME VerbAssumption == Verbs \subseteq {"start", "stop", "status", "remove"}
ASSUME ProbeAssumption == ProbeMayTimeOut \in BOOLEAN

Goroutines == Handlers \cup {Main}

VARIABLES
    configured,   \* is the profile in the configuration file
    stateFile,    \* the daemon the profile's state file names, or Nobody
    phase,        \* phase[d]: how far daemon d's main goroutine is
    listening,    \* the daemons whose proxy listener is open
    controlled,   \* the daemons whose control endpoint answers
    busy,         \* the daemons with an exchange in flight
    registered,   \* the daemons whose server maps still hold the profile
    task,         \* task[d][g]: progress of shutdown in goroutine g
    verb,         \* verb[c]: the command shell c runs
    pc,           \* pc[c]: its next step
    seen,         \* seen[c]: the identity it last read from the file
    child         \* child[c]: the daemon it spawned

daemonVars == <<phase, listening, controlled, busy, registered, task>>
commandVars == <<verb, pc, seen, child>>
vars == <<configured, stateFile, daemonVars, commandVars>>

(* "aborted" is a daemon that ended before it took the address. *)
Phases == {"unborn", "booting", "loaded", "bound", "failing", "serving",
           "aborted", "exited", "crashed"}

Progress == {"idle", "asked", "draining", "removing", "forgetting", "over"}

Steps == {"idle", "read", "probe", "reread", "clear", "spawn", "await",
          "probeOther", "clearOther", "probeOwn", "request", "waitStopped",
          "stopFinish", "dropConfig", "removeFinish", "toldRunning",
          "toldStopped"}

Init ==
    /\ configured = TRUE
    /\ stateFile = Nobody
    /\ phase = [d \in Daemons |-> "unborn"]
    /\ listening = {}
    /\ controlled = {}
    /\ busy = {}
    /\ registered = {}
    /\ task = [d \in Daemons |-> [g \in Goroutines |-> "idle"]]
    /\ verb = [c \in Commands |-> "none"]
    /\ pc = [c \in Commands |-> "idle"]
    /\ seen = [c \in Commands |-> Nobody]
    /\ child = [c \in Commands |-> Nobody]

-----------------------------------------------------------------------------
(* The daemon: GatewayServe and Runtime. *)

(* The process is gone: its sockets close and its goroutines end. *)
Vanish(d, how) ==
    /\ phase' = [phase EXCEPT ![d] = how]
    /\ listening' = listening \ {d}
    /\ controlled' = controlled \ {d}
    /\ busy' = busy \ {d}
    /\ registered' = registered \ {d}
    /\ task' = [task EXCEPT ![d] = [g \in Goroutines |-> "over"]]

WritesEarly(d) ==
    /\ phase[d] = "booting"
    /\ phase' = [phase EXCEPT ![d] = IF configured THEN "loaded" ELSE "aborted"]
    /\ stateFile' = IF configured THEN d ELSE stateFile
    /\ UNCHANGED <<configured, listening, controlled, busy, registered, task,
                   commandVars>>

LoadConfig(d) ==
    /\ phase[d] = "booting"
    /\ phase' = [phase EXCEPT ![d] = IF configured THEN "loaded" ELSE "aborted"]
    /\ UNCHANGED <<configured, stateFile, listening, controlled, busy,
                   registered, task, commandVars>>

(* Both listeners open, the servers run and the maps are filled; an address *)
(* somebody holds, or a control listener that cannot open, ends the daemon. *)
Bind(d) ==
    /\ phase[d] = "loaded"
    /\ listening = {}
    /\ phase' = [phase EXCEPT ![d] = "bound"]
    /\ listening' = listening \cup {d}
    /\ controlled' = controlled \cup {d}
    /\ registered' = registered \cup {d}
    /\ UNCHANGED <<configured, stateFile, busy, task, commandVars>>

BindFails(d) ==
    /\ phase[d] = "loaded"
    /\ phase' = [phase EXCEPT ![d] = "aborted"]
    /\ UNCHANGED <<configured, stateFile, listening, controlled, busy,
                   registered, task, commandVars>>

WriteState(d) ==
    /\ phase[d] = "bound"
    /\ stateFile' = d
    /\ phase' = [phase EXCEPT ![d] = "serving"]
    /\ UNCHANGED <<configured, listening, controlled, busy, registered, task,
                   commandVars>>

(* The state file cannot be written: the servers are shut down again, the   *)
(* proxy first, and the daemon ends when its exchanges have.                *)
WriteStateFails(d) ==
    /\ phase[d] = "bound"
    /\ phase' = [phase EXCEPT ![d] = "failing"]
    /\ listening' = listening \ {d}
    /\ UNCHANGED <<configured, stateFile, controlled, busy, registered, task,
                   commandVars>>

FailsApart(d) ==
    /\ phase[d] = "failing"
    /\ d \notin busy
    /\ Vanish(d, "failed")
    /\ UNCHANGED <<configured, stateFile, commandVars>>

FailedExit(d) ==
    /\ phase[d] = "failing"
    /\ d \notin busy
    /\ Vanish(d, "exited")
    /\ UNCHANGED <<configured, stateFile, commandVars>>

(* An exchange starts on the open listener, and ends; that the daemon has   *)
(* one or several in flight makes no difference to shutdown.  A request     *)
(* that arrives during the drain on a connection accepted before it is      *)
(* counted as begun before it.                                              *)
BeginExchange(d) ==
    /\ d \in listening
    /\ d \notin busy
    /\ busy' = busy \cup {d}
    /\ UNCHANGED <<configured, stateFile, phase, listening, controlled,
                   registered, task, commandVars>>

EndExchange(d) ==
    /\ d \in busy
    /\ busy' = busy \ {d}
    /\ UNCHANGED <<configured, stateFile, phase, listening, controlled,
                   registered, task, commandVars>>

(* Runtime.shutdown, run by a goroutine of the control endpoint or by main. *)
(* It takes the servers from the maps, closes the proxy's listener, waits   *)
(* for the exchanges, closes the control endpoint, removes the state file   *)
(* by the profile's name, and clears the maps.                              *)
Advance(d, g, to) == task' = [task EXCEPT ![d][g] = to]

ForgetsToDrain(d, g) ==
    /\ task[d][g] = "draining"
    /\ controlled' = controlled \ {d}
    /\ Advance(d, g, "removing")
    /\ UNCHANGED <<configured, stateFile, phase, listening, busy, registered,
                   commandVars>>

KeepsListening(d, g) ==
    /\ task[d][g] = "asked"
    /\ Advance(d, g, IF d \in registered THEN "draining" ELSE "over")
    /\ UNCHANGED <<configured, stateFile, phase, listening, controlled, busy,
                   registered, commandVars>>

BeginShutdown(d, g) ==
    /\ task[d][g] = "asked"
    /\ IF d \in registered
         THEN /\ listening' = listening \ {d}
              /\ Advance(d, g, "draining")
         ELSE /\ Advance(d, g, "over")
              /\ UNCHANGED listening
    /\ UNCHANGED <<configured, stateFile, phase, controlled, busy, registered,
                   commandVars>>

CloseControl(d, g) ==
    /\ task[d][g] = "draining"
    /\ d \notin busy
    /\ controlled' = controlled \ {d}
    /\ Advance(d, g, "removing")
    /\ UNCHANGED <<configured, stateFile, phase, listening, busy, registered,
                   commandVars>>

LeavesFile(d, g) ==
    /\ task[d][g] = "removing"
    /\ Advance(d, g, "forgetting")
    /\ UNCHANGED <<configured, stateFile, phase, listening, controlled, busy,
                   registered, commandVars>>

RemoveState(d, g) ==
    /\ task[d][g] = "removing"
    /\ stateFile' = Nobody
    /\ Advance(d, g, "forgetting")
    /\ UNCHANGED <<configured, phase, listening, controlled, busy, registered,
                   commandVars>>

ForgetsNothing(d, g) ==
    /\ task[d][g] = "forgetting"
    /\ Advance(d, g, "over")
    /\ UNCHANGED <<configured, stateFile, phase, listening, controlled, busy,
                   registered, commandVars>>

Forget(d, g) ==
    /\ task[d][g] = "forgetting"
    /\ registered' = registered \ {d}
    /\ Advance(d, g, "over")
    /\ UNCHANGED <<configured, stateFile, phase, listening, controlled, busy,
                   commandVars>>

(* Main waits for a signal or for the maps to empty, then shuts down what   *)
(* is left and ends the process, whatever the other goroutines are at.      *)
Interrupt(d) ==
    /\ phase[d] = "serving"
    /\ task[d][Main] = "idle"
    /\ Advance(d, Main, "asked")
    /\ UNCHANGED <<configured, stateFile, phase, listening, controlled, busy,
                   registered, commandVars>>

WaitReturns(d) ==
    /\ phase[d] = "serving"
    /\ d \notin registered
    /\ task[d][Main] = "idle"
    /\ Advance(d, Main, "asked")
    /\ UNCHANGED <<configured, stateFile, phase, listening, controlled, busy,
                   registered, commandVars>>

Exit(d) ==
    /\ phase[d] = "serving"
    /\ task[d][Main] = "over"
    /\ Vanish(d, "exited")
    /\ UNCHANGED <<configured, stateFile, commandVars>>

(* The process is killed; nothing it should have cleaned up is.             *)
Crash(d) ==
    /\ \/ /\ phase[d] \in {"booting", "loaded"}
          /\ Vanish(d, "aborted")
       \/ /\ phase[d] \in {"bound", "failing", "serving"}
          /\ Vanish(d, "crashed")
    /\ UNCHANGED <<configured, stateFile, commandVars>>

DaemonStep(d) ==
    \/ LoadConfig(d) \/ Bind(d) \/ BindFails(d)
    \/ WriteState(d) \/ WriteStateFails(d) \/ FailedExit(d)
    \/ WaitReturns(d) \/ Exit(d)
    \/ \E g \in Goroutines : \/ BeginShutdown(d, g) \/ CloseControl(d, g)
                             \/ RemoveState(d, g) \/ Forget(d, g)

-----------------------------------------------------------------------------
(* The commands: Manager.Start, Manager.Stop, Runtime.Status and            *)
(* App.GatewayRemove.  A command reports a daemon as running or stopped in  *)
(* the steps toldRunning and toldStopped, then returns to the shell; one    *)
(* that fails, or found no daemon to report, returns at once.               *)

Goto(c, step) ==
    /\ pc' = [pc EXCEPT ![c] = step]
    /\ UNCHANGED <<verb, seen, child>>

See(c, d, step) ==
    /\ pc' = [pc EXCEPT ![c] = step]
    /\ seen' = [seen EXCEPT ![c] = d]
    /\ UNCHANGED <<verb, child>>

(* The shell's prompt is back; what the command had read is gone with it.   *)
Return(c) ==
    /\ pc' = [pc EXCEPT ![c] = "idle"]
    /\ verb' = [verb EXCEPT ![c] = "none"]
    /\ seen' = [seen EXCEPT ![c] = Nobody]
    /\ child' = [child EXCEPT ![c] = Nobody]

Shared == <<configured, stateFile, daemonVars>>

(* start, stop and status refuse a profile that is not configured; remove   *)
(* skips the stop and the configuration for one.                            *)
Begin(c, v) ==
    /\ pc[c] = "idle"
    /\ v # "remove" => configured
    /\ verb' = [verb EXCEPT ![c] = v]
    /\ pc' = [pc EXCEPT ![c] = IF configured THEN "read" ELSE "removeFinish"]
    /\ UNCHANGED <<Shared, seen, child>>

(* `tok gateway setup` writes the profile back.                             *)
Setup ==
    /\ ~configured
    /\ configured' = TRUE
    /\ UNCHANGED <<stateFile, daemonVars, commandVars>>

(* A command that believes no daemon runs: start spawns one, remove goes on *)
(* to the configuration, stop and status report the profile as stopped.     *)
GoOnWithout(c) ==
    CASE verb[c] = "start"  -> Goto(c, "spawn")
      [] verb[c] = "remove" -> Goto(c, "dropConfig")
      [] OTHER              -> IF seen[c] = Nobody THEN Return(c)
                                                   ELSE Goto(c, "toldStopped")

Read(c) ==
    /\ pc[c] = "read"
    /\ IF stateFile = Nobody THEN GoOnWithout(c)
                             ELSE See(c, stateFile, "probe")
    /\ UNCHANGED Shared

(* The health check against the identity read: verifyRuntimeState.          *)
Answers(d) == d \in controlled
MayFail(d) == ProbeMayTimeOut \/ ~Answers(d)

ProbeSucceeds(c) ==
    /\ pc[c] = "probe"
    /\ Answers(seen[c])
    /\ Goto(c, CASE verb[c] = "start"  -> "toldRunning"
                 [] verb[c] = "status" -> "reread"
                 [] OTHER              -> "request")
    /\ UNCHANGED Shared

ProbeFails(c) ==
    /\ pc[c] = "probe"
    /\ MayFail(seen[c])
    /\ Goto(c, "clear")
    /\ UNCHANGED Shared

(* Status reads the file a second time for the PID and address it prints.   *)
Reread(c) ==
    /\ pc[c] = "reread"
    /\ IF stateFile = Nobody THEN Return(c)
                             ELSE See(c, stateFile, "toldRunning")
    /\ UNCHANGED Shared

(* The file is removed by the profile's name, whoever it names by now.      *)
Clear(c) ==
    /\ pc[c] = "clear"
    /\ stateFile' = Nobody
    /\ GoOnWithout(c)
    /\ UNCHANGED <<configured, daemonVars>>

(* Manager.startOne spawns a daemon and polls the file for its answer.      *)
Spawn(c) ==
    /\ pc[c] = "spawn"
    /\ \E d \in Daemons :
          /\ phase[d] = "unborn"
          /\ phase' = [phase EXCEPT ![d] = "booting"]
          /\ child' = [child EXCEPT ![c] = d]
    /\ pc' = [pc EXCEPT ![c] = "await"]
    /\ UNCHANGED <<configured, stateFile, listening, controlled, busy,
                   registered, task, verb, seen>>

SpawnFails(c) ==
    /\ pc[c] = "spawn"
    /\ Return(c)
    /\ UNCHANGED Shared

Await(c) ==
    /\ pc[c] = "await"
    /\ stateFile # Nobody
    /\ See(c, stateFile,
           IF stateFile = child[c] THEN "probeOwn" ELSE "probeOther")
    /\ UNCHANGED Shared

(* The wait ends with an error; the daemon it waited for stays.             *)
WaitsForever(c) == FALSE /\ UNCHANGED vars

AwaitTimesOut(c) ==
    /\ pc[c] = "await"
    /\ Return(c)
    /\ UNCHANGED Shared

AwaitSucceeds(c) ==
    /\ pc[c] \in {"probeOwn", "probeOther"}
    /\ Answers(seen[c])
    /\ Goto(c, "toldRunning")
    /\ UNCHANGED Shared

AwaitProbeFails(c) ==
    /\ pc[c] \in {"probeOwn", "probeOther"}
    /\ MayFail(seen[c])
    /\ Goto(c, IF pc[c] = "probeOther" THEN "clearOther" ELSE "await")
    /\ UNCHANGED Shared

ClearOther(c) ==
    /\ pc[c] = "clearOther"
    /\ stateFile' = Nobody
    /\ Goto(c, "await")
    /\ UNCHANGED <<configured, daemonVars>>

(* Manager.Stop asks the daemon it verified to shut down.  The control      *)
(* endpoint accepts and starts a goroutine; Handlers bounds how many, and a *)
(* request beyond the bound joins the shutdown already running.             *)
StartShutdown(d) ==
    \/ \E h \in Handlers : task[d][h] = "idle" /\ Advance(d, h, "asked")
    \/ /\ \A h \in Handlers : task[d][h] # "idle"
       /\ UNCHANGED task

Request(c) ==
    /\ pc[c] = "request"
    /\ Answers(seen[c])
    /\ StartShutdown(seen[c])
    /\ \/ Goto(c, "waitStopped")
       \/ ProbeMayTimeOut /\ Return(c)   \* the answer came too late
    /\ UNCHANGED <<configured, stateFile, phase, listening, controlled, busy,
                   registered>>

RequestFails(c) ==
    /\ pc[c] = "request"
    /\ MayFail(seen[c])
    /\ Return(c)
    /\ UNCHANGED Shared

(* waitStopped polls the health check until it fails or time is up.         *)
AssumesStopped(c) ==
    /\ pc[c] = "waitStopped"
    /\ Goto(c, "stopFinish")
    /\ UNCHANGED Shared

WaitStopped(c) ==
    /\ pc[c] = "waitStopped"
    /\ MayFail(seen[c])
    /\ Goto(c, "stopFinish")
    /\ UNCHANGED Shared

WaitTimesOut(c) ==
    /\ pc[c] = "waitStopped"
    /\ Return(c)
    /\ UNCHANGED Shared

StopFinish(c) ==
    /\ pc[c] = "stopFinish"
    /\ stateFile' = Nobody
    /\ GoOnWithout(c)
    /\ UNCHANGED <<configured, daemonVars>>

(* remove deletes the configuration entry and then, once more, the file.    *)
DropConfig(c) ==
    /\ pc[c] = "dropConfig"
    /\ configured' = FALSE
    /\ Goto(c, "removeFinish")
    /\ UNCHANGED <<stateFile, daemonVars>>

RemoveFinish(c) ==
    /\ pc[c] = "removeFinish"
    /\ stateFile' = Nobody
    /\ Return(c)
    /\ UNCHANGED <<configured, daemonVars>>

Report(c) ==
    /\ pc[c] \in {"toldRunning", "toldStopped"}
    /\ Return(c)
    /\ UNCHANGED Shared

CommandStep(c) ==
    \/ Read(c) \/ ProbeSucceeds(c) \/ ProbeFails(c) \/ Reread(c) \/ Clear(c)
    \/ Spawn(c) \/ SpawnFails(c) \/ Await(c) \/ AwaitSucceeds(c)
    \/ AwaitProbeFails(c) \/ ClearOther(c) \/ AwaitTimesOut(c)
    \/ Request(c) \/ RequestFails(c) \/ WaitStopped(c) \/ WaitTimesOut(c)
    \/ StopFinish(c) \/ DropConfig(c) \/ RemoveFinish(c) \/ Report(c)

-----------------------------------------------------------------------------
Next ==
    \/ Setup
    \/ \E d \in Daemons : \/ DaemonStep(d) \/ BeginExchange(d)
                          \/ EndExchange(d) \/ Interrupt(d) \/ Crash(d)
    \/ \E c \in Commands : \/ CommandStep(c)
                           \/ \E v \in Verbs : Begin(c, v)

Spec == Init /\ [][Next]_vars

(* Processes the system schedules keep running; a poll that time limits,    *)
(* is found over the limit at some poll: select picks among the ready cases *)
(* at random.  Nothing makes users type, daemons crash or exchanges end.    *)
Fairness ==
    /\ \A d \in Daemons : WF_vars(DaemonStep(d))
    /\ \A c \in Commands : WF_vars(CommandStep(c)) /\ SF_vars(AwaitTimesOut(c))

FairSpec == Spec /\ Fairness

-----------------------------------------------------------------------------
TypeOK ==
    /\ configured \in BOOLEAN
    /\ stateFile \in Daemons \cup {Nobody}
    /\ phase \in [Daemons -> Phases]
    /\ listening \subseteq Daemons
    /\ controlled \subseteq Daemons
    /\ busy \subseteq Daemons
    /\ registered \subseteq Daemons
    /\ task \in [Daemons -> [Goroutines -> Progress]]
    /\ verb \in [Commands -> Verbs \cup {"none"}]
    /\ pc \in [Commands -> Steps]
    /\ seen \in [Commands -> Daemons \cup {Nobody}]
    /\ child \in [Commands -> Daemons \cup {Nobody}]

Published == {d \in Daemons : phase[d] \in {"serving", "exited", "crashed"}}

(* The file only ever names a daemon that holds, or held, its listeners     *)
(* when it wrote it: a command that finds a name finds a daemon that was up *)
(* (the order of net.Listen and states.Write in Runtime.startOne).          *)
NamedDaemonWasUp == stateFile # Nobody => stateFile \in Published

(* A daemon that ended on its own, on request or on a signal, is not named  *)
(* by the file, whichever of its goroutines ran shutdown, and whichever     *)
(* commands ran meanwhile.                                                  *)
GracefulExitLeavesNoFile ==
    \A d \in Daemons : phase[d] = "exited" => stateFile # d

(* A command about to remove the file, because a health check failed, is    *)
(* right about the daemon it checked: that one accepts nothing any more and *)
(* has no exchange in flight.  A health check that times out on a live      *)
(* daemon breaks this, so it is stated for prompt ones.                     *)
JudgedDead ==
    ~ProbeMayTimeOut =>
        \A c \in Commands : pc[c] \in {"clear", "clearOther", "stopFinish"} =>
            seen[c] \notin controlled \cup listening \cup busy

(* A graceful exit cuts no exchange short: the process ends on its own only *)
(* after its last exchange has.                                             *)
ExitsDrained ==
    [][\A d \in Daemons :
          phase[d] # "exited" /\ phase'[d] = "exited" => d \notin busy]_vars

(* The daemons of one profile share its address as GatewaySlot says: one at *)
(* a time, once each; no command reports as running a daemon that never     *)
(* held the address, nor as stopped one that still holds it.                *)
Left == {d \in Daemons : phase[d] \in {"bound", "failing", "serving",
                                       "exited", "crashed"}} \ listening

Said(c) == CASE pc[c] = "toldRunning" -> <<"running", seen[c]>>
             [] pc[c] = "toldStopped" -> <<"stopped", seen[c]>>
             [] OTHER                 -> <<"none", Nobody>>

Slot == INSTANCE GatewaySlot WITH
    slot <- listening, left <- Left, verdict <- [c \in Commands |-> Said(c)]

SlotSpec == Slot!Spec

(* Every command returns to the shell, however the daemons behave.          *)
CommandsReturn == \A c \in Commands : pc[c] # "idle" ~> pc[c] = "idle"

(* A daemon asked to shut down is gone in the end, provided exchanges end:  *)
(* server.Shutdown waits for them without a limit.                          *)
ShutdownCompletes ==
    (\A d \in Daemons : []<>(d \notin busy)) =>
        \A d \in Daemons : \A g \in Goroutines :
            task[d][g] = "asked" ~> phase[d] \in {"exited", "crashed"}

(* start launches no daemon while one serves that nobody asked to stop: a   *)
(* start that finds no state file is right that none does.                  *)
Serves(d) == /\ phase[d] = "serving"
             /\ \A g \in Goroutines : task[d][g] = "idle"

NoDuplicateLaunch ==
    [][\A c \in Commands : pc[c] = "read" /\ pc'[c] = "spawn" =>
          \A d \in Daemons : ~Serves(d)]_vars
=============================================================================
