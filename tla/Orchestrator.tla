------------------------------ MODULE Orchestrator ------------------------------
(* The life of the process (orchestrator/core.py, registry.py, pipeline.py):    *)
(* the main task boots, starts the modules in dependency order, runs cycles of  *)
(* stages and stops; the tasks that signals create stop it from outside.  Tasks *)
(* are asyncio tasks: what happens between two suspensions is one step, and a   *)
(* cancellation is delivered at a suspension.                                   *)
EXTENDS StateManager, FiniteSetsExt

CONSTANTS
    ModuleCount,    \* modules are numbered in startup order
    Dependencies,   \* of each module, all earlier in that order
    Critical,       \* modules whose failure fails the startup
    StageCount,     \* stages of a cycle that have a handler
    Trading,        \* those among them that need the safety check
    Signaller,      \* tasks of _async_signal_handler
    DrainExpires    \* whether the drain timeout may be shorter than the shutdown

Module == 1 .. ModuleCount
Stage == 1 .. StageCount
Main == "main"
Task == Signaller \cup {Main}

ASSUME OrchestratorAssumption ==
    /\ ModuleCount \in Nat /\ StageCount \in Nat
    /\ Dependencies \in [Module -> SUBSET Module]
    /\ \A m \in Module : \A d \in Dependencies[m] : d < m
    /\ Critical \subseteq Module
    /\ Trading \subseteq Stage
    /\ Main \notin Signaller
    /\ DrainExpires \in BOOLEAN

VARIABLES
    module,     \* ModuleInstance.status, "ABSENT" when the factory failed
    running,    \* Orchestrator._running
    shutdown,   \* Orchestrator._shutdown_requested
    mainLoop,   \* whether _main_loop_task is set
    cancelled,  \* tasks with a cancellation to be delivered
    pc,         \* where each task is suspended
    at,         \* the module each task is starting or stopping, Main's stage
    signalled   \* observation: this process was asked to stop

procVars == <<running, shutdown, mainLoop, cancelled, pc, at, signalled>>
vars == <<smVars, module, procVars>>

ModuleStatus == {"ABSENT", "NOT_STARTED", "STARTING", "RUNNING", "STOPPING",
                 "STOPPED", "ERROR"}
TaskPC == {"off", "idle", "booting", "starting", "stage", "sleep", "stopping", "halting",
           "draining", "done"}

Init ==
    /\ LifecycleInit
    /\ module = [m \in Module |-> "NOT_STARTED"]
    /\ running = FALSE /\ shutdown = FALSE /\ mainLoop = FALSE /\ signalled = FALSE
    /\ cancelled = {}
    /\ pc = [t \in Task |-> IF t = Main THEN "off" ELSE "idle"]
    /\ at = [t \in Task |-> 0]

Alive == pc[Main] \notin {"off", "done"}

\* every task of the process has returned
Exited == pc[Main] = "done" /\ \A t \in Signaller : pc[t] \in {"idle", "done"}

-------------------------------------------------------------------------------
(* Stopping: Orchestrator.stop and ModuleRegistry.stop_all                      *)

IsActive(s) == s \in {"RUNNING", "STARTING"}

Suspend(t, where, what) ==
    /\ pc' = [pc EXCEPT ![t] = where]
    /\ at' = [at EXCEPT ![t] = what]

\* A task returns.  When it is Main, asyncio.run cancels those still stopping modules.
Return(t) ==
    /\ Suspend(t, "done", 0)
    /\ cancelled' = IF t = Main
                    THEN {s \in Signaller : pc[s] = "stopping"}
                    ELSE cancelled \ {t}

\* stop_module, up to its suspension: a later module goes before an earlier one
StopModule(t, m, status, where) ==
    /\ module' = [status EXCEPT ![m] = "STOPPING"]
    /\ Suspend(t, where, m)

\* a mutant: the end of stop() writes the state without asking the table
StopCompletesAnyway(t, status) ==
    /\ module' = status
    /\ state' = "STOPPED" /\ PersistState("STOPPED") /\ UNCHANGED emergency
    /\ running' = FALSE
    /\ Return(t)

\* the rest of stop() once the modules were gone through; an invalid transition raises
StopCompletes(t, status) ==
    /\ module' = status
    /\ IF CanTransitionTo("STOPPED")
       THEN TransitionTo("STOPPED") /\ running' = FALSE
       ELSE UNCHANGED <<smVars, running>>
    /\ Return(t)

\* stop_all goes on below module m
StopBelow(t, m, status, pending) ==
    LET left == {n \in Module : n < m /\ IsActive(status[n])}
    IN  IF left = {} THEN StopCompletes(t, status)
        ELSE /\ StopModule(t, Max(left), status, "stopping")
             /\ cancelled' = pending
             /\ UNCHANGED <<smVars, running>>

\* stop(), up to its first suspension
Stop(t, looping) ==
    IF ~running THEN Return(t) /\ UNCHANGED <<smVars, module, running, shutdown>>
    ELSE /\ shutdown' = TRUE
         /\ IF looping
            THEN /\ Suspend(t, "draining", 0)
                 /\ cancelled' = (cancelled \ {t}) \cup {Main}
                 /\ UNCHANGED <<smVars, module, running>>
            ELSE StopBelow(t, ModuleCount + 1, module, cancelled \ {t})

\* a mutant: _main_loop_task outlives the loop, and stop() waits for itself
LeaveLoopRegistered == UNCHANGED <<mainLoop, signalled>> /\ Stop(Main, mainLoop)

\* run_forever ends, and run_application calls stop() on its way out
LeaveLoop == mainLoop' = FALSE /\ UNCHANGED signalled /\ Stop(Main, FALSE)

\* emergency_stop() by Main goes on below module m; when it completes, the loop ends
\* and the stop() that follows finds nothing to do
HaltBelow(m, status, pending) ==
    LET left == {n \in Module : n < m /\ IsActive(status[n])}
    IN  IF left = {} THEN /\ module' = status
                          /\ running' = FALSE
                          /\ mainLoop' = FALSE
                          /\ Return(Main)
        ELSE /\ StopModule(Main, Max(left), status, "halting")
             /\ cancelled' = pending
             /\ UNCHANGED <<running, mainLoop>>

\* emergency_stop() from a stage: the task it cancels is the one that runs it
Emergency ==
    /\ EmergencyStop
    /\ shutdown' = TRUE
    /\ HaltBelow(ModuleCount + 1, module, cancelled \cup {Main})
    /\ UNCHANGED signalled

\* The stop() of the module returns ("STOPPED"), raises or times out ("ERROR").  A
\* cancellation waiting for the task may be swallowed by wait_for (Python 3.11).
ModuleStops(t) ==
    /\ pc[t] \in {"stopping", "halting"}
    /\ \E status \in {"STOPPED", "ERROR"}, pending \in {cancelled, cancelled \ {t}} :
          LET after == [module EXCEPT ![at[t]] = status]
          IN  \/ pc[t] = "stopping" /\ StopBelow(t, at[t], after, pending)
                                    /\ UNCHANGED mainLoop
              \/ pc[t] = "halting" /\ HaltBelow(at[t], after, pending)
                                   /\ UNCHANGED smVars
    /\ UNCHANGED <<shutdown, signalled>>

\* The cancellation is delivered instead: no handler catches it, and the module is
\* left as it is.
StopInterrupted(t) ==
    /\ t \in cancelled
    /\ \/ pc[t] = "halting" /\ LeaveLoop
       \/ /\ pc[t] = "stopping"
          /\ Return(t)
          /\ UNCHANGED <<smVars, module, running, shutdown, mainLoop, signalled>>

-------------------------------------------------------------------------------
(* Starting: Orchestrator.start, ModuleRegistry.instantiate_all and start_all    *)

Boot ==
    /\ pc[Main] = "off" \/ Exited
    /\ RestoreState
    /\ module' = [m \in Module |-> "NOT_STARTED"]
    /\ running' = FALSE /\ shutdown' = FALSE /\ mainLoop' = FALSE /\ signalled' = FALSE
    /\ cancelled' = {}
    /\ pc' = [t \in Task |-> IF t = Main THEN "booting" ELSE "idle"]
    /\ at' = [t \in Task |-> 0]

\* The transition to ERROR raises if the table refuses it, and in any case the main
\* task ends: its stop() returns at once, as _running was not set.
StartupFails(status) ==
    /\ module' = status
    /\ \/ TransitionTo("ERROR")
       \/ ~CanTransitionTo("ERROR") /\ UNCHANGED smVars
    /\ Return(Main)
    /\ UNCHANGED <<running, shutdown, mainLoop, signalled>>

DependenciesUp(m, status) == \A d \in Dependencies[m] : status[d] = "RUNNING"

\* get_safety_context: clear stands for the answer of the risk controller and for
\* the health counters of the modules
CanTrade(status, clear) ==
    /\ clear
    /\ ~IsHalted
    /\ \A m \in Module : status[m] \in {"RUNNING", "ABSENT"}

\* ExecutionPipeline.execute_cycle from stage k on: a stage the check refuses is skipped
StagesAfter(k, status, clear) ==
    {s \in Stage : s > k /\ (s \in Trading => CanTrade(status, clear))}

BeginCycle(status) ==
    \E clear \in BOOLEAN :
        LET stages == StagesAfter(0, status, clear)
        IN  IF stages = {} THEN Suspend(Main, "sleep", 0)
            ELSE Suspend(Main, "stage", Min(stages))

\* start() is through with the modules, and run_forever begins its first cycle
StartupCompletes(status) ==
    /\ module' = status
    /\ TransitionTo("RUNNING")
    /\ running' = TRUE
    /\ mainLoop' = TRUE
    /\ BeginCycle(status)
    /\ UNCHANGED <<shutdown, cancelled, signalled>>

\* start_all goes on above module m: a module whose dependencies are not running is
\* passed over, or fails the startup if it is critical
StartAbove(m, status) ==
    LET left == {n \in Module : /\ n > m
                                /\ status[n] = "NOT_STARTED"
                                /\ n \in Critical \/ DependenciesUp(n, status)}
    IN  IF left = {} THEN StartupCompletes(status)
        ELSE IF DependenciesUp(Min(left), status)
        THEN /\ module' = [status EXCEPT ![Min(left)] = "STARTING"]
             /\ Suspend(Main, "starting", Min(left))
             /\ UNCHANGED <<smVars, running, shutdown, mainLoop, cancelled, signalled>>
        ELSE StartupFails(status)

\* A process that wakes up after an emergency stop refuses to start.
Refuse ==
    /\ pc[Main] = "booting"
    /\ state = "EMERGENCY_STOP"
    /\ StartupFails(module)

\* instantiate_all: the factory may fail for any module
Instantiate ==
    /\ pc[Main] = "booting"
    /\ state # "EMERGENCY_STOP"
    /\ \E failed \in SUBSET Module :
          LET status == [m \in Module |-> IF m \in failed THEN "ABSENT" ELSE "NOT_STARTED"]
          IN  IF failed \cap Critical = {} THEN StartAbove(0, status)
              ELSE StartupFails(status)

ModuleStarts ==
    /\ pc[Main] = "starting"
    /\ StartAbove(at[Main], [module EXCEPT ![at[Main]] = "RUNNING"])

\* a mutant: no module is critical
ModuleFailsQuietly ==
    /\ pc[Main] = "starting"
    /\ StartAbove(at[Main], [module EXCEPT ![at[Main]] = "ERROR"])

\* start() of a module raises or times out
ModuleStartFails ==
    /\ pc[Main] = "starting"
    /\ LET status == [module EXCEPT ![at[Main]] = "ERROR"]
       IN  IF at[Main] \in Critical THEN StartupFails(status)
           ELSE StartAbove(at[Main], status)

-------------------------------------------------------------------------------
(* The main loop *)

\* a mutant: the loop relies on its cancellation alone
KeepsGoingAlways == TRUE

\* the test of run_forever's loop and of its wait for the next tick
KeepsGoing == ~shutdown

\* The cycle is over.  If the task was cancelled just as the stage returned, wait_for
\* swallowed the cancellation.
CycleEnds ==
    IF KeepsGoing
    THEN /\ Suspend(Main, "sleep", 0)
         /\ cancelled' = cancelled \ {Main}
         /\ UNCHANGED <<smVars, module, running, shutdown, mainLoop, signalled>>
    ELSE LeaveLoop

StageSucceeds ==
    /\ pc[Main] = "stage"
    /\ \E clear \in BOOLEAN :
          LET stages == StagesAfter(at[Main], module, clear)
          IN  IF stages = {} THEN CycleEnds
              ELSE /\ Suspend(Main, "stage", Min(stages))
                   /\ cancelled' = cancelled \ {Main}
                   /\ UNCHANGED <<smVars, module, running, shutdown, mainLoop, signalled>>

\* a timeout or a recoverable error: the cycle is aborted and an alert is sent
StageFails == pc[Main] = "stage" /\ CycleEnds

StageFailsForGood == pc[Main] = "stage" /\ Emergency

LoopCancelled ==
    /\ Main \in cancelled
    /\ pc[Main] \in {"stage", "sleep"}
    /\ LeaveLoop

SleepEnds ==
    /\ pc[Main] = "sleep"
    /\ Main \notin cancelled
    /\ IF KeepsGoing
       THEN /\ BeginCycle(module)
            /\ UNCHANGED <<smVars, module, running, shutdown, mainLoop, cancelled, signalled>>
       ELSE LeaveLoop

-------------------------------------------------------------------------------
(* Signals, the end of the process, crashes *)

\* The loop delivers a signal at a suspension; booting has none.
Signal(t) ==
    /\ Alive /\ pc[Main] # "booting"
    /\ pc[t] = "idle"
    /\ signalled' = TRUE
    /\ Stop(t, mainLoop)
    /\ UNCHANGED mainLoop

\* a mutant: stop() does not wait for the loop it cancelled
StopsWithoutDraining(t) ==
    /\ pc[t] = "draining"
    /\ StopBelow(t, ModuleCount + 1, module, cancelled)
    /\ UNCHANGED <<shutdown, mainLoop, signalled>>

\* The loop has ended, and stop() goes on; asyncio.run is cancelling this task, and
\* whether the wait absorbs that depends on the version of Python.
Drained(t) ==
    /\ pc[t] = "draining"
    /\ pc[Main] = "done"
    /\ \E pending \in {cancelled \cup {t}, cancelled \ {t}} :
          StopBelow(t, ModuleCount + 1, module, pending)
    /\ UNCHANGED <<shutdown, mainLoop, signalled>>

\* the wait times out: it cancels the main task, and still waits for it to end
DrainTimesOut(t) ==
    /\ DrainExpires
    /\ pc[t] = "draining"
    /\ Alive
    /\ Main \notin cancelled
    /\ cancelled' = cancelled \cup {Main}
    /\ UNCHANGED <<smVars, module, running, shutdown, mainLoop, pc, at, signalled>>

\* The process is killed; its file stays.
Crash ==
    /\ pc[Main] # "off" /\ ~Exited
    /\ pc' = [t \in Task |-> IF t = Main THEN "off" ELSE "idle"]
    /\ at' = [t \in Task |-> 0]
    /\ cancelled' = {}
    /\ module' = [m \in Module |-> "NOT_STARTED"]
    /\ running' = FALSE /\ shutdown' = FALSE /\ mainLoop' = FALSE /\ signalled' = FALSE
    /\ UNCHANGED smVars

-------------------------------------------------------------------------------
(* Specification *)

MainStep ==
    \/ Refuse
    \/ Instantiate
    \/ ModuleStarts
    \/ ModuleStartFails
    \/ StageSucceeds
    \/ StageFails
    \/ StageFailsForGood
    \/ LoopCancelled
    \/ SleepEnds

StopStep(t) == ModuleStops(t) \/ StopInterrupted(t) \/ Drained(t)

Next ==
    \/ Boot
    \/ MainStep
    \/ \E t \in Task : StopStep(t)
    \/ \E t \in Signaller : Signal(t) \/ DrainTimesOut(t)
    \/ Crash

Spec == Init /\ [][Next]_vars

\* Every start, stop and stage is under a timeout, and every sleep ends: a task that
\* can run is run.  Nothing obliges a signal, a crash or a restart to happen.
Fairness == WF_vars(MainStep) /\ \A t \in Task : WF_vars(StopStep(t))
FairSpec == Spec /\ Fairness

-------------------------------------------------------------------------------
(* Properties *)

TypeOK ==
    /\ LifecycleTypeOK
    /\ module \in [Module -> ModuleStatus]
    /\ running \in BOOLEAN /\ shutdown \in BOOLEAN
    /\ mainLoop \in BOOLEAN /\ signalled \in BOOLEAN
    /\ cancelled \subseteq Task
    /\ pc \in [Task -> TaskPC]
    /\ at \in [Task -> 0 .. ModuleCount + StageCount]

\* The system is RUNNING only with every critical module and every dependency of a
\* module up, until a shutdown begins: core.py:487-502, registry.py:374-391.
CriticalModulesUp ==
    Alive /\ state = "RUNNING" /\ ~shutdown =>
        \A m \in Module :
            /\ m \in Critical => module[m] = "RUNNING"
            /\ module[m] = "RUNNING" => DependenciesUp(m, module)

\* No stage runs while the modules under it are taken down, whoever stops the system
\* and however often (core.py:534-551); and a trading stage runs only with every
\* module up (core.py:351-380).
StageKeepsModules ==
    pc[Main] = "stage" =>
        /\ \A m \in Module : module[m] \notin {"STOPPING", "STOPPED"}
        /\ at[Main] \in Trading => \A m \in Module : module[m] \in {"RUNNING", "ABSENT"}

\* Once a shutdown was requested no new cycle begins, even where wait_for swallowed the
\* cancellation of the loop: core.py:632-641.
NoCycleAfterShutdown ==
    [][pc[Main] # "stage" /\ pc'[Main] = "stage" => ~shutdown]_vars

\* A shutdown that was requested ends the process: core.py:524-610.
ShutdownCompletes == shutdown ~> ~Alive

\* "Install signal handlers for graceful shutdown." (core.py:757): a process that
\* receives a signal stops.
SignalObeyed == signalled ~> ~Alive

\* emergency_stop: "Stop all modules" (core.py:600); no module is left half stopped
\* when the process has ended after an emergency.
EmergencyStopsAll ==
    Exited /\ state = "EMERGENCY_STOP" =>
        \A m \in Module : module[m] \notin {"STARTING", "RUNNING", "STOPPING"}
================================================================================
