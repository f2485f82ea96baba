----------------------- MODULE GatewayLifecycleProofs -----------------------
(***************************************************************************)
(* Proofs about GatewayLifecycle, for any number of daemons, shells and    *)
(* shutdown goroutines.                                                    *)
(***************************************************************************)
EXTENDS GatewayLifecycle, TLAPS

-----------------------------------------------------------------------------
(* Type correctness. *)

(* The initial state is well typed.                                         *)
LEMMA InitTypeOK == Init => TypeOK
BY DEF Init, TypeOK, Phases, Progress, Steps

(* The end of a process keeps the types.                                    *)
LEMMA VanishTypeOK ==
    ASSUME TypeOK, NEW d \in Daemons, NEW how \in Phases, Vanish(d, how),
           UNCHANGED <<configured, stateFile, commandVars>>
    PROVE  TypeOK'
BY DEF TypeOK, Vanish, commandVars, Progress

(* So does every step of a daemon.                                          *)
LEMMA DaemonTypeOK ==
    ASSUME TypeOK, NEW d \in Daemons, DaemonStep(d)
    PROVE  TypeOK'
<1> USE DEF TypeOK, commandVars, Phases
<1>1. CASE LoadConfig(d)
  BY <1>1 DEF LoadConfig
<1>2. CASE Bind(d)
  BY <1>2 DEF Bind
<1>3. CASE BindFails(d)
  BY <1>3 DEF BindFails
<1>4. CASE WriteState(d)
  BY <1>4 DEF WriteState
<1>5. CASE WriteStateFails(d)
  BY <1>5 DEF WriteStateFails
<1>6. CASE FailedExit(d)
  BY <1>6, VanishTypeOK DEF FailedExit
<1>7. CASE WaitReturns(d)
  BY <1>7 DEF WaitReturns, Advance, Progress, Goroutines
<1>8. CASE Exit(d)
  BY <1>8, VanishTypeOK DEF Exit
<1>9. ASSUME NEW g \in Goroutines,
             \/ BeginShutdown(d, g) \/ CloseControl(d, g)
             \/ RemoveState(d, g) \/ Forget(d, g)
      PROVE  TypeOK'
  <2>1. CASE BeginShutdown(d, g)
    BY <2>1 DEF BeginShutdown, Advance, Progress
  <2>2. CASE CloseControl(d, g)
    BY <2>2 DEF CloseControl, Advance, Progress
  <2>3. CASE RemoveState(d, g)
    BY <2>3 DEF RemoveState, Advance, Progress
  <2>4. CASE Forget(d, g)
    BY <2>4 DEF Forget, Advance, Progress
  <2> QED BY <1>9, <2>1, <2>2, <2>3, <2>4
<1> QED
  BY <1>1, <1>2, <1>3, <1>4, <1>5, <1>6, <1>7, <1>8, <1>9 DEF DaemonStep

(* A request to shut down leaves the goroutines typed, whether or not one   *)
(* is free to take it.                                                      *)
LEMMA StartShutdownType ==
    ASSUME TypeOK, NEW d \in Daemons, StartShutdown(d)
    PROVE  task' \in [Daemons -> [Goroutines -> Progress]]
<1>1. ASSUME NEW h \in Handlers, Advance(d, h, "asked")
      PROVE  task' \in [Daemons -> [Goroutines -> Progress]]
  BY <1>1 DEF Advance, TypeOK, Goroutines, Progress
<1>2. CASE UNCHANGED task
  BY <1>2 DEF TypeOK
<1> QED
  BY <1>1, <1>2 DEF StartShutdown

(* Every step of a command keeps the types.                                 *)
LEMMA CommandTypeOK ==
    ASSUME TypeOK, NEW c \in Commands, CommandStep(c)
    PROVE  TypeOK'
<1> USE DEF TypeOK, Shared, daemonVars, Goto, See, Return, GoOnWithout, Steps
<1>1. CASE Read(c)
  BY <1>1 DEF Read
<1>2. CASE ProbeSucceeds(c)
  BY <1>2 DEF ProbeSucceeds
<1>3. CASE ProbeFails(c)
  BY <1>3 DEF ProbeFails
<1>4. CASE Reread(c)
  BY <1>4 DEF Reread
<1>5. CASE Clear(c)
  BY <1>5 DEF Clear
<1>6. CASE Spawn(c)
  BY <1>6 DEF Spawn, Phases
<1>7. CASE SpawnFails(c)
  BY <1>7 DEF SpawnFails
<1>8. CASE Await(c)
  BY <1>8 DEF Await
<1>9. CASE AwaitSucceeds(c)
  BY <1>9 DEF AwaitSucceeds
<1>10. CASE AwaitProbeFails(c)
  BY <1>10 DEF AwaitProbeFails
<1>11. CASE ClearOther(c)
  BY <1>11 DEF ClearOther
<1>12. CASE AwaitTimesOut(c)
  BY <1>12 DEF AwaitTimesOut
<1>13. CASE Request(c)
  <2>1. seen[c] \in Daemons
    BY <1>13 DEF Request, Answers
  <2>2. task' \in [Daemons -> [Goroutines -> Progress]]
    BY <1>13, <2>1, StartShutdownType DEF Request
  <2> QED
    BY <1>13, <2>2 DEF Request
<1>14. CASE RequestFails(c)
  BY <1>14 DEF RequestFails
<1>15. CASE WaitStopped(c)
  BY <1>15 DEF WaitStopped
<1>16. CASE WaitTimesOut(c)
  BY <1>16 DEF WaitTimesOut
<1>17. CASE StopFinish(c)
  BY <1>17 DEF StopFinish
<1>18. CASE DropConfig(c)
  BY <1>18 DEF DropConfig
<1>19. CASE RemoveFinish(c)
  BY <1>19 DEF RemoveFinish
<1>20. CASE Report(c)
  BY <1>20 DEF Report
<1> QED
  BY <1>1, <1>2, <1>3, <1>4, <1>5, <1>6, <1>7, <1>8, <1>9, <1>10,
     <1>11, <1>12, <1>13, <1>14, <1>15, <1>16, <1>17, <1>18, <1>19, <1>20
  DEF CommandStep

(* Every step, and stuttering, keeps the types.                             *)
LEMMA NextTypeOK ==
    ASSUME TypeOK, [Next]_vars
    PROVE  TypeOK'
<1>1. CASE Setup
  BY <1>1 DEF Setup, TypeOK, daemonVars, commandVars
<1>2. ASSUME NEW d \in Daemons, BeginExchange(d) \/ EndExchange(d)
      PROVE  TypeOK'
  BY <1>2 DEF BeginExchange, EndExchange, TypeOK, commandVars
<1>3. ASSUME NEW d \in Daemons, Interrupt(d)
      PROVE  TypeOK'
  BY <1>3 DEF Interrupt, Advance, TypeOK, commandVars, Progress, Goroutines
<1>4. ASSUME NEW d \in Daemons, Crash(d)
      PROVE  TypeOK'
  BY <1>4, VanishTypeOK DEF Crash, Phases
<1>5. ASSUME NEW c \in Commands, NEW v \in Verbs, Begin(c, v)
      PROVE  TypeOK'
  BY <1>5 DEF Begin, Shared, TypeOK, daemonVars, Steps
<1>6. CASE UNCHANGED vars
  BY <1>6 DEF vars, TypeOK, daemonVars, commandVars
<1> QED
  BY <1>1, <1>2, <1>3, <1>4, <1>5, <1>6, DaemonTypeOK, CommandTypeOK DEF Next

(* Every variable keeps its type: in particular the file names a daemon of  *)
(* this profile or nobody, and every goroutine is at a known point.         *)
THEOREM TypeCorrect == Spec => []TypeOK
<1>1. Init => TypeOK
  BY InitTypeOK
<1>2. TypeOK /\ [Next]_vars => TypeOK'
  BY NextTypeOK
<1> QED
  BY <1>1, <1>2, PTL DEF Spec
-----------------------------------------------------------------------------
(* The inductive invariant, in parts. *)

(* The steps at which a command uses the identity it read. *)
UsesSeen == {"probe", "reread", "clear", "probeOwn", "probeOther",
             "clearOther", "request", "waitStopped", "stopFinish",
             "toldRunning", "toldStopped"}

(* The address is held once.                                                *)
OneListener == \A d, e \in listening : d = e

(* Only a live daemon has sockets and exchanges; one whose proxy listener   *)
(* is open, or that has an exchange, still answers on its control endpoint. *)
SocketsOfLive ==
    \A d \in Daemons :
        /\ d \in listening => phase[d] \in {"bound", "serving"}
        /\ d \in controlled \cup busy \cup registered =>
              phase[d] \in {"bound", "failing", "serving"}
        /\ d \in listening \cup busy => d \in controlled
        /\ phase[d] = "bound" => d \in registered

(* No goroutine shuts a daemon down before it wrote the file.               *)
IdleUntilServing ==
    \A d \in Daemons : \A g \in Goroutines :
        phase[d] \in {"unborn", "booting", "loaded", "bound", "failing"} =>
            task[d][g] = "idle"

(* What a goroutine of shutdown has done by each of its steps, as long as   *)
(* the process lives.                                                       *)
ShutdownOrder ==
    \A d \in Daemons : \A g \in Goroutines :
        /\ task[d][g] \in {"draining", "removing", "forgetting"} =>
              d \notin listening
        /\ task[d][g] \in {"removing", "forgetting"} => d \notin controlled
        /\ task[d][g] = "forgetting" => stateFile # d
        /\ task[d][g] = "over" => d \notin registered

(* A daemon that has left the server maps is shut, and not in the file.     *)
ForgottenIsShut ==
    \A d \in Daemons :
        phase[d] = "serving" /\ d \notin registered =>
            d \notin controlled /\ stateFile # d

(* A command that uses an identity read one that was published.             *)
SeenWasUp ==
    \A c \in Commands :
        /\ seen[c] # Nobody => seen[c] \in Published
        /\ pc[c] \in UsesSeen => seen[c] # Nobody
        /\ pc[c] \in {"idle", "read"} => seen[c] = Nobody

DaemonInv ==
    /\ OneListener
    /\ SocketsOfLive
    /\ IdleUntilServing
    /\ ShutdownOrder
    /\ ForgottenIsShut
    /\ NamedDaemonWasUp
    /\ GracefulExitLeavesNoFile

IInv == TypeOK /\ DaemonInv /\ SeenWasUp /\ JudgedDead

(* The inductive invariant holds with nothing spawned.                      *)
LEMMA InitIInv == Init => IInv
<1>1. ASSUME Init PROVE DaemonInv
  BY <1>1 DEF Init, DaemonInv, OneListener, SocketsOfLive, IdleUntilServing,
              ShutdownOrder, ForgottenIsShut, NamedDaemonWasUp,
              GracefulExitLeavesNoFile
<1>2. ASSUME Init PROVE SeenWasUp /\ JudgedDead
  BY <1>2 DEF Init, SeenWasUp, JudgedDead, UsesSeen
<1> QED
  BY <1>1, <1>2, InitTypeOK DEF IInv

(* A process may end as long as the file does not name it, unless it was    *)
(* killed while the file did.                                               *)
LEMMA VanishInv ==
    ASSUME TypeOK, DaemonInv, NEW d \in Daemons,
           NEW how \in {"aborted", "exited", "crashed"}, Vanish(d, how),
           how # "crashed" => stateFile # d, UNCHANGED stateFile
    PROVE  DaemonInv'
BY IdentityAssumption
DEF Vanish, TypeOK, Progress, DaemonInv, OneListener, SocketsOfLive,
    IdleUntilServing, ShutdownOrder, ForgottenIsShut, NamedDaemonWasUp,
    GracefulExitLeavesNoFile, Published, Phases

(* Every step of a daemon keeps the daemons' part of the invariant.         *)
LEMMA DaemonStepInv ==
    ASSUME TypeOK, DaemonInv, NEW d \in Daemons, DaemonStep(d)
    PROVE  DaemonInv'
<1> USE IdentityAssumption
    DEF TypeOK, Progress, Advance, DaemonInv, OneListener, SocketsOfLive,
        IdleUntilServing, ShutdownOrder, ForgottenIsShut, NamedDaemonWasUp,
        GracefulExitLeavesNoFile, Published, Phases
<1>1. CASE LoadConfig(d)
  BY <1>1 DEF LoadConfig
<1>2. CASE Bind(d)
  BY <1>2 DEF Bind
<1>3. CASE BindFails(d)
  BY <1>3 DEF BindFails
<1>4. CASE WriteState(d)
  BY <1>4 DEF WriteState
<1>5. CASE WriteStateFails(d)
  BY <1>5 DEF WriteStateFails
<1>6. CASE FailedExit(d)
  <2>1. stateFile # d
    BY <1>6 DEF FailedExit
  <2> QED
    BY <1>6, <2>1, VanishInv DEF FailedExit
<1>7. CASE WaitReturns(d)
  BY <1>7 DEF WaitReturns, Goroutines
<1>8. CASE Exit(d)
  <2>1. stateFile # d
    BY <1>8 DEF Exit, Goroutines
  <2> QED
    BY <1>8, <2>1, VanishInv DEF Exit
<1>9. ASSUME NEW g \in Goroutines, BeginShutdown(d, g)
      PROVE  DaemonInv'
  <2>1. /\ listening' \subseteq listening
        /\ UNCHANGED <<stateFile, phase, controlled, busy, registered>>
    BY <1>9 DEF BeginShutdown
  <2>2. ShutdownOrder'
    BY <1>9, <2>1 DEF BeginShutdown
  <2>3. IdleUntilServing'
    BY <1>9, <2>1 DEF BeginShutdown
  <2>4. OneListener' /\ SocketsOfLive'
    BY <2>1
  <2>5. ForgottenIsShut' /\ NamedDaemonWasUp' /\ GracefulExitLeavesNoFile'
    BY <2>1
  <2> QED
    BY <2>2, <2>3, <2>4, <2>5
<1>10. ASSUME NEW g \in Goroutines, CloseControl(d, g)
       PROVE  DaemonInv'
  BY <1>10 DEF CloseControl
<1>11. ASSUME NEW g \in Goroutines, RemoveState(d, g)
       PROVE  DaemonInv'
  BY <1>11 DEF RemoveState
<1>12. ASSUME NEW g \in Goroutines, Forget(d, g)
       PROVE  DaemonInv'
  BY <1>12 DEF Forget
<1> QED
  BY <1>1, <1>2, <1>3, <1>4, <1>5, <1>6, <1>7, <1>8, <1>9, <1>10, <1>11, <1>12
  DEF DaemonStep

(* To the daemons, a command is one of four things: nothing, the removal of *)
(* the file, a new process, a request to shut down.                         *)
LEMMA CommandEffect ==
    ASSUME NEW c \in Commands, CommandStep(c)
    PROVE  \/ UNCHANGED <<stateFile, daemonVars>>
           \/ stateFile' = Nobody /\ UNCHANGED daemonVars
           \/ Spawn(c) \/ Request(c)
BY DEF CommandStep, Read, ProbeSucceeds, ProbeFails, Reread, Clear, SpawnFails,
       Await, AwaitSucceeds, AwaitProbeFails, ClearOther, AwaitTimesOut,
       RequestFails, WaitStopped, WaitTimesOut, StopFinish, DropConfig,
       RemoveFinish, Report, Shared

(* A command keeps the daemons' part; a request reaches a serving daemon.   *)
LEMMA CommandStepInv ==
    ASSUME TypeOK, DaemonInv, SeenWasUp, NEW c \in Commands, CommandStep(c)
    PROVE  DaemonInv'
<1> USE IdentityAssumption
    DEF TypeOK, DaemonInv, OneListener, SocketsOfLive, IdleUntilServing,
        ShutdownOrder, ForgottenIsShut, NamedDaemonWasUp,
        GracefulExitLeavesNoFile, Published, Phases
<1>1. CASE UNCHANGED <<stateFile, daemonVars>>
  BY <1>1 DEF daemonVars
<1>2. CASE stateFile' = Nobody /\ UNCHANGED daemonVars
  BY <1>2 DEF daemonVars
<1>3. CASE Spawn(c)
  BY <1>3 DEF Spawn
<1>4. CASE Request(c)
  <2>1. seen[c] \in Daemons /\ phase[seen[c]] = "serving"
    BY <1>4 DEF Request, Answers, SeenWasUp, UsesSeen
  <2>2. CASE UNCHANGED task
    BY <1>4, <2>2 DEF Request
  <2>3. ASSUME NEW h \in Handlers, task[seen[c]][h] = "idle",
               Advance(seen[c], h, "asked")
        PROVE  DaemonInv'
    BY <1>4, <2>1, <2>3 DEF Request, Advance, Progress, Goroutines
  <2> QED
    BY <1>4, <2>2, <2>3 DEF Request, StartShutdown
<1> QED
  BY <1>1, <1>2, <1>3, <1>4, CommandEffect

-----------------------------------------------------------------------------
(* The commands' part of the invariant. *)

(* What a command read stays true of the daemon: it was published, and its  *)
(* control endpoint does not come back once it is closed.                   *)
LEMMA PublishedStays ==
    ASSUME TypeOK, DaemonInv, NEW d \in Daemons, DaemonStep(d)
    PROVE  /\ Published \subseteq Published'
           /\ \A e \in Published : e \in controlled' => e \in controlled
           /\ \A e \in Published : e \in listening' => e \in listening
           /\ UNCHANGED commandVars
<1> USE DEF Published, TypeOK, Phases
<1>1. CASE LoadConfig(d)
  BY <1>1 DEF LoadConfig
<1>2. CASE Bind(d)
  BY <1>2 DEF Bind
<1>3. CASE BindFails(d)
  BY <1>3 DEF BindFails
<1>4. CASE WriteState(d)
  BY <1>4 DEF WriteState
<1>5. CASE WriteStateFails(d)
  BY <1>5 DEF WriteStateFails
<1>6. CASE FailedExit(d)
  BY <1>6 DEF FailedExit, Vanish
<1>7. CASE WaitReturns(d)
  BY <1>7 DEF WaitReturns
<1>8. CASE Exit(d)
  BY <1>8 DEF Exit, Vanish
<1>9. ASSUME NEW g \in Goroutines,
             \/ BeginShutdown(d, g) \/ CloseControl(d, g)
             \/ RemoveState(d, g) \/ Forget(d, g)
      PROVE  /\ listening' \subseteq listening
             /\ controlled' \subseteq controlled
             /\ UNCHANGED <<phase, commandVars>>
  BY <1>9 DEF BeginShutdown, CloseControl, RemoveState, Forget
<1> QED
  BY <1>1, <1>2, <1>3, <1>4, <1>5, <1>6, <1>7, <1>8, <1>9 DEF DaemonStep

(* Every step of a command keeps the commands' part of the invariant.       *)
LEMMA CommandSeen ==
    ASSUME IInv, NEW c \in Commands, CommandStep(c)
    PROVE  SeenWasUp' /\ JudgedDead'
<1> USE IdentityAssumption
    DEF IInv, TypeOK, DaemonInv, SeenWasUp, JudgedDead, NamedDaemonWasUp,
        SocketsOfLive, UsesSeen, Shared, daemonVars, Goto, See, Return,
        Published
<1>1. CASE Read(c)
  BY <1>1 DEF Read, GoOnWithout
<1>2. CASE ProbeSucceeds(c)
  BY <1>2 DEF ProbeSucceeds
<1>3. CASE ProbeFails(c)
  BY <1>3 DEF ProbeFails, MayFail, Answers
<1>4. CASE Reread(c)
  BY <1>4 DEF Reread
<1>5. CASE Clear(c)
  BY <1>5 DEF Clear, GoOnWithout
<1>6. CASE Spawn(c)
  BY <1>6 DEF Spawn
<1>7. CASE SpawnFails(c)
  BY <1>7 DEF SpawnFails
<1>8. CASE Await(c)
  BY <1>8 DEF Await
<1>9. CASE AwaitSucceeds(c)
  BY <1>9 DEF AwaitSucceeds
<1>10. CASE AwaitProbeFails(c)
  BY <1>10 DEF AwaitProbeFails, MayFail, Answers
<1>11. CASE ClearOther(c)
  BY <1>11 DEF ClearOther
<1>12. CASE AwaitTimesOut(c)
  BY <1>12 DEF AwaitTimesOut
<1>13. CASE Request(c)
  BY <1>13 DEF Request
<1>14. CASE RequestFails(c)
  BY <1>14 DEF RequestFails, MayFail, Answers
<1>15. CASE WaitStopped(c)
  BY <1>15 DEF WaitStopped, MayFail, Answers
<1>16. CASE WaitTimesOut(c)
  BY <1>16 DEF WaitTimesOut
<1>17. CASE StopFinish(c)
  BY <1>17 DEF StopFinish, GoOnWithout
<1>18. CASE DropConfig(c)
  BY <1>18 DEF DropConfig
<1>19. CASE RemoveFinish(c)
  BY <1>19 DEF RemoveFinish
<1>20. CASE Report(c)
  BY <1>20 DEF Report
<1> QED
  BY <1>1, <1>2, <1>3, <1>4, <1>5, <1>6, <1>7, <1>8, <1>9, <1>10,
     <1>11, <1>12, <1>13, <1>14, <1>15, <1>16, <1>17, <1>18, <1>19, <1>20
  DEF CommandStep

(* The steps of the world: setup, exchanges, signals, kills, typed commands. *)
LEMMA OtherStepsInv ==
    ASSUME IInv,
           \/ Setup
           \/ \E d \in Daemons : \/ BeginExchange(d) \/ EndExchange(d)
                                 \/ Interrupt(d) \/ Crash(d)
           \/ \E c \in Commands, v \in Verbs : Begin(c, v)
           \/ UNCHANGED vars
    PROVE  DaemonInv' /\ SeenWasUp' /\ JudgedDead'
<1> USE IdentityAssumption
    DEF IInv, TypeOK, DaemonInv, OneListener, SocketsOfLive, IdleUntilServing,
        ShutdownOrder, ForgottenIsShut, NamedDaemonWasUp,
        GracefulExitLeavesNoFile, SeenWasUp, JudgedDead, UsesSeen, Published,
        Phases, Progress, commandVars
<1>1. CASE Setup
  BY <1>1 DEF Setup, daemonVars
<1>2. ASSUME NEW d \in Daemons, BeginExchange(d)
      PROVE  DaemonInv' /\ SeenWasUp' /\ JudgedDead'
  BY <1>2 DEF BeginExchange
<1>3. ASSUME NEW d \in Daemons, EndExchange(d)
      PROVE  DaemonInv' /\ SeenWasUp' /\ JudgedDead'
  BY <1>3 DEF EndExchange
<1>4. ASSUME NEW d \in Daemons, Interrupt(d)
      PROVE  DaemonInv' /\ SeenWasUp' /\ JudgedDead'
  BY <1>4 DEF Interrupt, Advance, Goroutines
<1>5. ASSUME NEW d \in Daemons, Crash(d)
      PROVE  DaemonInv' /\ SeenWasUp' /\ JudgedDead'
  <2>1. DaemonInv'
    BY <1>5, VanishInv DEF Crash
  <2>2. SeenWasUp' /\ JudgedDead'
    BY <1>5 DEF Crash, Vanish
  <2> QED
    BY <2>1, <2>2
<1>6. ASSUME NEW c \in Commands, NEW v \in Verbs, Begin(c, v)
      PROVE  DaemonInv' /\ SeenWasUp' /\ JudgedDead'
  BY <1>6 DEF Begin, Shared, daemonVars
<1>7. CASE UNCHANGED vars
  BY <1>7 DEF vars, daemonVars
<1> QED
  BY <1>1, <1>2, <1>3, <1>4, <1>5, <1>6, <1>7

(* Every step keeps the invariant.                                          *)
LEMMA NextIInv ==
    ASSUME IInv, [Next]_vars
    PROVE  IInv'
<1>1. TypeOK'
  BY NextTypeOK DEF IInv
<1>2. ASSUME NEW d \in Daemons, DaemonStep(d)
      PROVE  DaemonInv' /\ SeenWasUp' /\ JudgedDead'
  <2>1. DaemonInv'
    BY <1>2, DaemonStepInv DEF IInv
  <2>2. SeenWasUp'
    BY <1>2, PublishedStays DEF IInv, SeenWasUp, commandVars
  <2>3. JudgedDead'
    BY <1>2, <2>1, PublishedStays
    DEF IInv, DaemonInv, SeenWasUp, SocketsOfLive, JudgedDead, UsesSeen,
        TypeOK, commandVars, Published
  <2> QED
    BY <2>1, <2>2, <2>3
<1>3. ASSUME NEW c \in Commands, CommandStep(c)
      PROVE  DaemonInv' /\ SeenWasUp' /\ JudgedDead'
  BY <1>3, CommandStepInv, CommandSeen DEF IInv
<1>4. DaemonInv' /\ SeenWasUp' /\ JudgedDead'
  BY <1>2, <1>3, OtherStepsInv DEF Next
<1> QED
  BY <1>1, <1>4 DEF IInv

(* The invariant holds in every reachable state.                            *)
LEMMA Invariance == Spec => []IInv
<1>1. Init => IInv
  BY InitIInv
<1>2. IInv /\ [Next]_vars => IInv'
  BY NextIInv
<1> QED
  BY <1>1, <1>2, PTL DEF Spec

-----------------------------------------------------------------------------
(* The safety invariants, as corollaries. *)

(* A name in the state file is that of a daemon which held its listeners    *)
(* when it wrote the file.                                                  *)
THEOREM NameIsOfADaemonThatWasUp == Spec => []NamedDaemonWasUp
<1>1. IInv => NamedDaemonWasUp
  BY DEF IInv, DaemonInv
<1> QED
  BY <1>1, Invariance, PTL

(* A daemon that ended gracefully is never again named by the state file,   *)
(* however its goroutines and the commands interleave.                      *)
THEOREM GracefulExitIsClean == Spec => []GracefulExitLeavesNoFile
<1>1. IInv => GracefulExitLeavesNoFile
  BY DEF IInv, DaemonInv
<1> QED
  BY <1>1, Invariance, PTL

(* With health checks that only fail on daemons that are gone, a command    *)
(* removes the file only after the daemon it read there is gone.            *)
THEOREM FileIsClearedOfTheDead == Spec => []JudgedDead
<1>1. IInv => JudgedDead
  BY DEF IInv
<1> QED
  BY <1>1, Invariance, PTL

(* A process ends on its own in two places only.                            *)
LEMMA OnlyTheseExit ==
    ASSUME TypeOK, Next, NEW d \in Daemons,
           phase[d] # "exited", phase'[d] = "exited"
    PROVE  FailedExit(d) \/ Exit(d)
<1> USE DEF TypeOK
<1>1. CASE Setup
  BY <1>1 DEF Setup, daemonVars
<1>2. ASSUME NEW e \in Daemons, DaemonStep(e)
      PROVE  FailedExit(d) \/ Exit(d)
  <2>1. CASE LoadConfig(e) \/ Bind(e) \/ BindFails(e) \/ WriteState(e)
    BY <2>1 DEF LoadConfig, Bind, BindFails, WriteState
  <2>2. CASE WriteStateFails(e) \/ WaitReturns(e)
    BY <2>2 DEF WriteStateFails, WaitReturns
  <2>3. CASE FailedExit(e) \/ Exit(e)
    BY <2>3 DEF FailedExit, Exit, Vanish
  <2>4. ASSUME NEW g \in Goroutines,
               \/ BeginShutdown(e, g) \/ CloseControl(e, g)
               \/ RemoveState(e, g) \/ Forget(e, g)
        PROVE  FALSE
    BY <2>4 DEF BeginShutdown, CloseControl, RemoveState, Forget
  <2> QED
    BY <1>2, <2>1, <2>2, <2>3, <2>4 DEF DaemonStep
<1>3. ASSUME NEW e \in Daemons,
             BeginExchange(e) \/ EndExchange(e) \/ Interrupt(e) \/ Crash(e)
      PROVE  FALSE
  BY <1>3 DEF BeginExchange, EndExchange, Interrupt, Crash, Vanish
<1>4. ASSUME NEW c \in Commands, CommandStep(c)
      PROVE  FALSE
  BY <1>4, CommandEffect DEF daemonVars, Spawn, Request
<1>5. ASSUME NEW c \in Commands, NEW v \in Verbs, Begin(c, v)
      PROVE  FALSE
  BY <1>5 DEF Begin, Shared, daemonVars
<1> QED
  BY <1>1, <1>2, <1>3, <1>4, <1>5 DEF Next

(* No process ends on its own with an exchange in flight.                   *)
THEOREM ExitIsDrained == Spec => ExitsDrained
<1> DEFINE Drained == \A d \in Daemons :
        phase[d] # "exited" /\ phase'[d] = "exited" => d \notin busy
<1>1. IInv /\ [Next]_vars => [Drained]_vars
  <2> SUFFICES ASSUME IInv, Next, NEW d \in Daemons,
                      phase[d] # "exited", phase'[d] = "exited"
               PROVE  d \notin busy
    BY DEF vars
  <2>2. FailedExit(d) \/ Exit(d)
    BY OnlyTheseExit DEF IInv
  <2>3. CASE FailedExit(d)
    BY <2>3 DEF FailedExit
  <2>4. CASE Exit(d)
    BY <2>4 DEF Exit, IInv, DaemonInv, ShutdownOrder, ForgottenIsShut,
                SocketsOfLive, Goroutines
  <2> QED
    BY <2>2, <2>3, <2>4
<1> QED
  BY <1>1, Invariance, PTL DEF Spec, ExitsDrained

-----------------------------------------------------------------------------
(* The refinement of GatewaySlot. *)

(* The initial states map to initial states.                                *)
LEMMA SlotInit == Init => Slot!Init
BY DEF Init, Slot!Init, Slot!Silent, Left, Said

(* What a daemon does is, for the address, taking it, leaving it or nothing. *)
SlotMove(d) == \/ Slot!Take(d) \/ Slot!Leave(d) \/ UNCHANGED Slot!slotVars

(* A step that leaves the commands alone changes no verdict.                *)
LEMMA SaidStays ==
    ASSUME UNCHANGED commandVars
    PROVE  UNCHANGED [c \in Commands |-> Said(c)]
BY DEF commandVars, Said

(* A process that ends leaves the address, if it had it.                    *)
LEMMA VanishMove ==
    ASSUME TypeOK, DaemonInv, NEW d \in Daemons,
           NEW how \in {"aborted", "exited", "crashed"}, Vanish(d, how),
           (how = "aborted") <=> (phase[d] \in {"booting", "loaded"}),
           phase[d] \notin {"unborn", "aborted"},
           UNCHANGED commandVars
    PROVE  SlotMove(d)
<1> USE DEF TypeOK, Left, Phases, Vanish, DaemonInv, OneListener, SocketsOfLive
<1>1. CASE d \in listening
  <2>1. listening' = listening \ {d}
    BY <1>1
  <2>2. Left' = Left \cup {d}
    BY <1>1
  <2> QED
    BY <1>1, <2>1, <2>2, SaidStays DEF SlotMove, Slot!Leave
<1>2. CASE d \notin listening
  <2>1. listening' = listening
    BY <1>2
  <2>2. Left' = Left
    BY <1>2
  <2> QED
    BY <2>1, <2>2, SaidStays DEF SlotMove, Slot!slotVars
<1> QED
  BY <1>1, <1>2

(* Every step of a daemon takes the address, leaves it or spares it.        *)
LEMMA DaemonMove ==
    ASSUME TypeOK, DaemonInv, NEW d \in Daemons,
           DaemonStep(d) \/ BeginExchange(d) \/ EndExchange(d)
              \/ Interrupt(d) \/ Crash(d)
    PROVE  SlotMove(d)
<1> USE DEF TypeOK, Left, Phases, DaemonInv, SocketsOfLive
<1>1. CASE LoadConfig(d) \/ BindFails(d)
  <2>1. Left' = Left /\ listening' = listening
    BY <1>1 DEF LoadConfig, BindFails
  <2> QED
    BY <1>1, <2>1, SaidStays DEF LoadConfig, BindFails, SlotMove, Slot!slotVars
<1>2. CASE Bind(d)
  <2>1. Left' = Left /\ d \notin Left /\ listening = {} /\ listening' = {d}
    BY <1>2 DEF Bind
  <2> QED
    BY <1>2, <2>1, SaidStays DEF Bind, SlotMove, Slot!Take
<1>3. CASE WriteState(d)
  <2>1. Left' = Left /\ listening' = listening
    BY <1>3 DEF WriteState
  <2> QED
    BY <1>3, <2>1, SaidStays DEF WriteState, SlotMove, Slot!slotVars
<1>4. CASE WriteStateFails(d)
  <2>1. listening' = listening \ {d} /\ Left' = Left \cup {d}
    BY <1>4 DEF WriteStateFails
  <2>2. CASE d \in listening
    BY <1>4, <2>1, <2>2, SaidStays DEF WriteStateFails, SlotMove, Slot!Leave
  <2>3. CASE d \notin listening
    <3>1. UNCHANGED <<listening, Left>>
      BY <1>4, <2>1, <2>3 DEF WriteStateFails
    <3> QED
      BY <1>4, <3>1, SaidStays DEF WriteStateFails, SlotMove, Slot!slotVars
  <2> QED
    BY <2>2, <2>3
<1>5. CASE FailedExit(d)
  BY <1>5, VanishMove DEF FailedExit
<1>6. CASE Exit(d)
  BY <1>6, VanishMove DEF Exit
<1>7. CASE Crash(d)
  BY <1>7, VanishMove DEF Crash
<1>8. ASSUME NEW g \in Goroutines, BeginShutdown(d, g)
      PROVE  SlotMove(d)
  <2>1. CASE listening' = listening
    <3>1. Left' = Left
      BY <1>8, <2>1 DEF BeginShutdown
    <3> QED
      BY <1>8, <2>1, <3>1, SaidStays DEF BeginShutdown, SlotMove, Slot!slotVars
  <2>2. CASE d \in listening /\ listening' = listening \ {d}
    <3>1. Left' = Left \cup {d}
      BY <1>8, <2>2 DEF BeginShutdown
    <3> QED
      BY <1>8, <2>2, <3>1, SaidStays DEF BeginShutdown, SlotMove, Slot!Leave
  <2> QED
    BY <1>8, <2>1, <2>2 DEF BeginShutdown
<1>9. ASSUME \/ WaitReturns(d) \/ BeginExchange(d) \/ EndExchange(d)
             \/ Interrupt(d)
             \/ \E g \in Goroutines :
                   CloseControl(d, g) \/ RemoveState(d, g) \/ Forget(d, g)
      PROVE  SlotMove(d)
  <2>1. UNCHANGED <<listening, phase, commandVars>>
    BY <1>9 DEF WaitReturns, BeginExchange, EndExchange, Interrupt,
                CloseControl, RemoveState, Forget
  <2> QED
    BY <2>1, SaidStays DEF SlotMove, Slot!slotVars
<1> QED
  BY <1>1, <1>2, <1>3, <1>4, <1>5, <1>6, <1>7, <1>8, <1>9 DEF DaemonStep

(* A command moves only its own step and reading.                           *)
LEMMA CommandLocal ==
    ASSUME TypeOK, NEW c \in Commands,
           CommandStep(c) \/ \E v \in Verbs : Begin(c, v)
    PROVE  /\ \A b \in Commands \ {c} : pc'[b] = pc[b] /\ seen'[b] = seen[b]
           /\ UNCHANGED <<listening, Left>>
<1>1. \A b \in Commands \ {c} : pc'[b] = pc[b] /\ seen'[b] = seen[b]
  BY DEF TypeOK, CommandStep, Begin, Goto, See, Return, GoOnWithout, Read,
         ProbeSucceeds, ProbeFails, Reread, Clear, Spawn, SpawnFails, Await,
         AwaitSucceeds, AwaitProbeFails, ClearOther, AwaitTimesOut, Request,
         RequestFails, WaitStopped, WaitTimesOut, StopFinish, DropConfig,
         RemoveFinish, Report, Shared
<1>2. UNCHANGED <<listening, Left>>
  <2>1. CASE Spawn(c)
    BY <2>1 DEF Spawn, Left, TypeOK
  <2>2. CASE UNCHANGED <<listening, phase>>
    BY <2>2 DEF Left
  <2> QED
    BY <2>1, <2>2, CommandEffect DEF Begin, Shared, Request, daemonVars
<1> QED
  BY <1>1, <1>2

(* Only a command that has just removed the file goes on to say "stopped".  *)
LEMMA SaysStopped ==
    ASSUME TypeOK, SeenWasUp, NEW c \in Commands,
           CommandStep(c) \/ \E v \in Verbs : Begin(c, v),
           pc'[c] = "toldStopped"
    PROVE  pc[c] \in {"clear", "stopFinish"} /\ seen'[c] = seen[c]
BY DEF TypeOK, SeenWasUp, CommandStep, Begin, Goto, See, Return, GoOnWithout,
       Read, ProbeSucceeds, ProbeFails, Reread, Clear, Spawn, SpawnFails,
       Await, AwaitSucceeds, AwaitProbeFails, ClearOther, AwaitTimesOut,
       Request, RequestFails, WaitStopped, WaitTimesOut, StopFinish,
       DropConfig, RemoveFinish, Report, Shared

(* Every step of a command says something true, or falls silent.            *)
LEMMA CommandMove ==
    ASSUME ~ProbeMayTimeOut, IInv, IInv', NEW c \in Commands,
           CommandStep(c) \/ \E v \in Verbs : Begin(c, v)
    PROVE  Slot!Next
<1> DEFINE V == [b \in Commands |-> Said(b)]
<1>1. V' = [V EXCEPT ![c] = Said(c)']
  BY CommandLocal DEF Said, IInv
<1>2. /\ UNCHANGED <<listening, Left>>
      /\ Published' \subseteq listening' \cup Left'
  BY CommandLocal DEF Published, Left, IInv
<1>3. CASE pc'[c] = "toldRunning"
  <2>1. Said(c)' = <<"running", seen'[c]>>
    BY <1>3 DEF Said
  <2>2. seen'[c] \in Published'
    BY <1>3 DEF IInv, SeenWasUp, UsesSeen
  <2>3. seen'[c] \in Daemons
    BY <2>2 DEF Published
  <2>4. Slot!SayRunning(c, seen'[c])
    BY <1>1, <1>2, <2>1, <2>2 DEF Slot!SayRunning
  <2> QED
    BY <2>3, <2>4 DEF Slot!Next
<1>4. CASE pc'[c] = "toldStopped"
  <2>1. Said(c)' = <<"stopped", seen'[c]>>
    BY <1>4 DEF Said
  <2>2. seen'[c] \in Published'
    BY <1>4 DEF IInv, SeenWasUp, UsesSeen
  <2>3. seen'[c] \notin listening
    BY <1>4, SaysStopped DEF IInv, JudgedDead
  <2>4. seen'[c] \in Daemons
    BY <2>2 DEF Published
  <2>5. Slot!SayStopped(c, seen'[c])
    BY <1>1, <1>2, <2>1, <2>2, <2>3 DEF Slot!SayStopped
  <2> QED
    BY <2>4, <2>5 DEF Slot!Next
<1>5. CASE pc'[c] \notin {"toldRunning", "toldStopped"}
  <2>1. Said(c)' = Slot!Silent
    BY <1>5 DEF Said, Slot!Silent
  <2>2. Slot!FallSilent(c)
    BY <1>1, <1>2, <2>1 DEF Slot!FallSilent
  <2> QED
    BY <2>2 DEF Slot!Next
<1> QED
  BY <1>3, <1>4, <1>5

(* The gateway keeps what GatewaySlot promises, if a health check fails     *)
(* only on a daemon that is gone: one daemon at a time, each once, and      *)
(* no command mistaken about the daemon it speaks of.                       *)
THEOREM ImplementsSlot ==
    ASSUME ~ProbeMayTimeOut
    PROVE  Spec => SlotSpec
<1>1. Init => Slot!Init
  BY SlotInit
<1>2. IInv /\ IInv' /\ [Next]_vars => [Slot!Next]_(Slot!slotVars)
  <2> SUFFICES ASSUME IInv, IInv', [Next]_vars
               PROVE  Slot!Next \/ UNCHANGED Slot!slotVars
    OBVIOUS
  <2>1. CASE Setup \/ UNCHANGED vars
    <3>1. UNCHANGED <<listening, phase, commandVars>>
      BY <2>1 DEF Setup, vars, daemonVars
    <3> QED
      BY <3>1, SaidStays DEF Left, Slot!slotVars
  <2>2. ASSUME NEW d \in Daemons,
               DaemonStep(d) \/ BeginExchange(d) \/ EndExchange(d)
                  \/ Interrupt(d) \/ Crash(d)
        PROVE  Slot!Next \/ UNCHANGED Slot!slotVars
    BY <2>2, DaemonMove DEF IInv, SlotMove, Slot!Next
  <2>3. ASSUME NEW c \in Commands,
               CommandStep(c) \/ \E v \in Verbs : Begin(c, v)
        PROVE  Slot!Next
    BY <2>3, CommandMove
  <2> QED
    BY <2>1, <2>2, <2>3 DEF Next
<1> QED
  BY <1>1, <1>2, Invariance, PTL DEF Spec, SlotSpec, Slot!Spec

=============================================================================
