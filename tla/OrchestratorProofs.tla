--------------------------- MODULE OrchestratorProofs ---------------------------
(* What the lifecycle guarantees on its own; that the orchestrator implements    *)
(* it, whatever its modules, stages and signals, so that an emergency stop       *)
(* sticks; that no cycle begins after a shutdown was requested; that RUNNING     *)
(* and every stage have their modules up; and that a shutdown takes a bounded    *)
(* number of steps, waits in no circle, and is not called off.                   *)
EXTENDS Orchestrator, WellFoundedInduction, TLAPS

-------------------------------------------------------------------------------
(* The lifecycle alone *)

\* Every state and every content of the file is one the code can write:
\* state_manager.py:279-464.
THEOREM LifecycleTypeCorrect == LifecycleSpec => []LifecycleTypeOK
<1>1. LifecycleInit => LifecycleTypeOK
  BY DEF LifecycleInit, LifecycleTypeOK, SystemState
<1>2. LifecycleTypeOK /\ [LifecycleNext]_smVars => LifecycleTypeOK'
  <2> SUFFICES ASSUME LifecycleTypeOK, [LifecycleNext]_smVars
               PROVE  LifecycleTypeOK'
    OBVIOUS
  <2> USE DEF LifecycleTypeOK
  <2>1. ASSUME NEW s \in SystemState, TransitionTo(s)
        PROVE  LifecycleTypeOK'
    BY <2>1 DEF TransitionTo, PersistState, SystemState
  <2>2. CASE EmergencyStop
    BY <2>2 DEF EmergencyStop, PersistState, SystemState
  <2>3. CASE RestoreState
    BY <2>3 DEF RestoreState, Restored, SystemState
  <2>4. CASE UNCHANGED smVars
    BY <2>4 DEF smVars
  <2>5. QED
    BY <2>1, <2>2, <2>3, <2>4 DEF LifecycleNext
<1>3. QED
  BY <1>1, <1>2, PTL DEF LifecycleSpec

\* What makes the emergency stop stick: the process is in it until a restart, a file that
\* recorded it still says so, and the table leads nowhere from it, so that nothing writes.
EmergencyRecorded ==
    /\ emergency \in {"triggered", "recorded"} => state = "EMERGENCY_STOP"
    /\ emergency = "recorded" => disk = "EMERGENCY_STOP"

\* The transition table gives EMERGENCY_STOP no successor: state_manager.py:63.
LEMMA EmergencyIsTerminal == VALID_TRANSITIONS["EMERGENCY_STOP"] = {}
  BY DEF VALID_TRANSITIONS, SystemState

\* With any file, reliable or not or none: an emergency stop is not left by the process,
\* nor by later ones if it was recorded: state_manager.py:63, 349-388 and 440-444.
THEOREM LifecycleEmergencySticks ==
  LifecycleSpec => [](EmergencyRecorded /\ EmergencySticks)
<1>1. LifecycleInit => EmergencyRecorded
  BY DEF LifecycleInit, EmergencyRecorded
<1>2. EmergencyRecorded /\ [LifecycleNext]_smVars => EmergencyRecorded'
  <2> SUFFICES ASSUME EmergencyRecorded, [LifecycleNext]_smVars
               PROVE  EmergencyRecorded'
    OBVIOUS
  <2>1. ASSUME NEW s \in SystemState, TransitionTo(s)
        PROVE  EmergencyRecorded'
    BY <2>1, EmergencyIsTerminal DEF TransitionTo, CanTransitionTo, EmergencyRecorded
  <2>2. CASE EmergencyStop
    BY <2>2 DEF EmergencyStop, PersistState, EmergencyRecorded
  <2>3. CASE RestoreState
    BY <2>3 DEF RestoreState, Restored, EmergencyRecorded
  <2>4. CASE UNCHANGED smVars
    BY <2>4 DEF smVars, EmergencyRecorded
  <2>5. QED
    BY <2>1, <2>2, <2>3, <2>4 DEF LifecycleNext
<1>3. EmergencyRecorded => EmergencySticks
  BY DEF EmergencyRecorded, EmergencySticks
<1>4. QED
  BY <1>1, <1>2, <1>3, PTL DEF LifecycleSpec

-------------------------------------------------------------------------------
(* Every step of the process is a step of the lifecycle, or none *)

Evolves == [LifecycleNext]_smVars

\* A call of StateManager.transition_to is a step of the lifecycle: state_manager.py:339-464.
LEMMA TransitionEvolves ==
  ASSUME NEW s \in SystemState, TransitionTo(s)
  PROVE  Evolves
  BY DEF Evolves, LifecycleNext

\* The last step of stop(), with or without its transition, is a step of the lifecycle.
LEMMA StopCompletesEvolves ==
  ASSUME NEW t, NEW status, StopCompletes(t, status)
  PROVE  Evolves
<1>1. CASE CanTransitionTo("STOPPED")
  <2>1. TransitionTo("STOPPED")
    BY <1>1 DEF StopCompletes
  <2>2. QED
    BY <2>1, TransitionEvolves DEF SystemState
<1>2. CASE ~CanTransitionTo("STOPPED")
  BY <1>2 DEF StopCompletes, Evolves
<1>3. QED
  BY <1>1, <1>2

\* Leaving the last stage of a stop completes it; any other stage leaves the lifecycle alone.
LEMMA StopBelowEvolves ==
  ASSUME NEW t, NEW m, NEW status, NEW pending, StopBelow(t, m, status, pending)
  PROVE  Evolves
<1>1. StopCompletes(t, status) \/ UNCHANGED smVars
  BY DEF StopBelow
<1>2. QED
  BY <1>1, StopCompletesEvolves DEF Evolves

\* Entering stop() is a step of the lifecycle: core.py:542-600.
LEMMA StopEvolves ==
  ASSUME NEW t, NEW looping, Stop(t, looping)
  PROVE  Evolves
<1>1. \/ StopBelow(t, ModuleCount + 1, module, cancelled \ {t})
      \/ UNCHANGED smVars
  BY DEF Stop
<1>2. QED
  BY <1>1, StopBelowEvolves DEF Evolves

\* The loop's finally block calls stop(): core.py:664-669.
LEMMA LeaveLoopEvolves == LeaveLoop => Evolves
  BY StopEvolves DEF LeaveLoop

\* A failed startup records the emergency or the error it ended in: core.py:454-540.
LEMMA StartupFailsEvolves ==
  ASSUME NEW status, StartupFails(status)
  PROVE  Evolves
<1>1. TransitionTo("ERROR") \/ UNCHANGED smVars
  BY DEF StartupFails
<1>2. QED
  BY <1>1, TransitionEvolves DEF Evolves, SystemState

\* Starting the next stage, or entering the running state after the last one: core.py:484-527.
LEMMA StartAboveEvolves ==
  ASSUME NEW m, NEW status, StartAbove(m, status)
  PROVE  Evolves
<1>1. StartupCompletes(status) \/ StartupFails(status) \/ UNCHANGED smVars
  BY DEF StartAbove
<1>2. CASE StartupCompletes(status)
  BY <1>2, TransitionEvolves DEF StartupCompletes, SystemState
<1>3. QED
  BY <1>1, <1>2, StartupFailsEvolves DEF Evolves

\* A cycle's outcome changes the lifecycle only by an emergency: core.py:641-660.
LEMMA CycleEndsEvolves == CycleEnds => Evolves
  BY LeaveLoopEvolves DEF CycleEnds, Evolves

\* A module that ends its stop changes the lifecycle only when it completes the last stage.
LEMMA ModuleStopsEvolves ==
  ASSUME NEW t, ModuleStops(t)
  PROVE  Evolves
<1>1. PICK status \in {"STOPPED", "ERROR"}, pending \in {cancelled, cancelled \ {t}} :
        \/ StopBelow(t, at[t], [module EXCEPT ![at[t]] = status], pending)
        \/ UNCHANGED smVars
  BY DEF ModuleStops
<1>2. QED
  BY <1>1, StopBelowEvolves DEF Evolves

\* Every step of the orchestrator is a step of the lifecycle, or leaves it alone.
LEMMA StepEvolves == [Next]_vars => Evolves
<1> SUFFICES ASSUME [Next]_vars
             PROVE  Evolves
  OBVIOUS
<1>1. CASE Boot
  BY <1>1 DEF Boot, Evolves, LifecycleNext
<1>2. CASE Refuse
  BY <1>2, StartupFailsEvolves DEF Refuse
<1>3. CASE Instantiate
  <2>1. PICK status : StartAbove(0, status) \/ StartupFails(status)
    BY <1>3 DEF Instantiate
  <2>2. QED
    BY <2>1, StartAboveEvolves, StartupFailsEvolves
<1>4. CASE ModuleStarts
  BY <1>4, StartAboveEvolves DEF ModuleStarts
<1>5. CASE ModuleStartFails
  BY <1>5, StartAboveEvolves, StartupFailsEvolves DEF ModuleStartFails
<1>6. CASE StageSucceeds
  <2>1. CycleEnds \/ UNCHANGED smVars
    BY <1>6 DEF StageSucceeds
  <2>2. QED
    BY <2>1, CycleEndsEvolves DEF Evolves
<1>7. CASE StageFails
  BY <1>7, CycleEndsEvolves DEF StageFails
<1>8. CASE StageFailsForGood
  BY <1>8 DEF StageFailsForGood, Emergency, Evolves, LifecycleNext
<1>9. CASE LoopCancelled
  BY <1>9, LeaveLoopEvolves DEF LoopCancelled
<1>10. CASE SleepEnds
  BY <1>10, LeaveLoopEvolves DEF SleepEnds, Evolves
<1>11. ASSUME NEW t \in Task, ModuleStops(t)
       PROVE  Evolves
  BY <1>11, ModuleStopsEvolves
<1>12. ASSUME NEW t \in Task, StopInterrupted(t)
       PROVE  Evolves
  <2>1. LeaveLoop \/ UNCHANGED smVars
    BY <1>12 DEF StopInterrupted
  <2>2. QED
    BY <2>1, LeaveLoopEvolves DEF Evolves
<1>13. ASSUME NEW t \in Task, Drained(t)
       PROVE  Evolves
  <2>1. PICK pending : StopBelow(t, ModuleCount + 1, module, pending)
    BY <1>13 DEF Drained
  <2>2. QED
    BY <2>1, StopBelowEvolves
<1>14. ASSUME NEW t \in Signaller, Signal(t)
       PROVE  Evolves
  BY <1>14, StopEvolves DEF Signal
<1>15. ASSUME NEW t \in Signaller, DrainTimesOut(t)
       PROVE  Evolves
  BY <1>15 DEF DrainTimesOut, Evolves
<1>16. CASE Crash
  BY <1>16 DEF Crash, Evolves
<1>17. CASE UNCHANGED vars
  BY <1>17 DEF vars, Evolves
<1>18. CASE MainStep
  BY <1>18, <1>2, <1>3, <1>4, <1>5, <1>6, <1>7, <1>8, <1>9, <1>10 DEF MainStep
<1>19. ASSUME NEW t \in Task, StopStep(t)
       PROVE  Evolves
  BY <1>19, <1>11, <1>12, <1>13 DEF StopStep
<1>20. QED
  BY <1>1, <1>18, <1>19, <1>14, <1>15, <1>16, <1>17 DEF Next

\* The orchestrator changes the system's state only as the state manager allows, at
\* every start, stop, emergency, crash and restart: core.py:454-610.
THEOREM Implements == Spec => LifecycleSpec
<1>1. Init => LifecycleInit
  BY DEF Init
<1>2. [Next]_vars => [LifecycleNext]_smVars
  BY StepEvolves DEF Evolves
<1>3. QED
  BY <1>1, <1>2, PTL DEF Spec, LifecycleSpec

\* No shutdown, stage or failing startup brings a system in emergency stop back in its
\* process, nor, once the file has recorded it, in any process after a crash or a restart:
\* core.py:475-482, 578-610, state_manager.py:440-444.
THEOREM EmergencySticksHolds == Spec => []EmergencySticks
<1>1. LifecycleSpec => [](EmergencyRecorded /\ EmergencySticks)
  BY LifecycleEmergencySticks
<1>2. QED
  BY <1>1, Implements, PTL

-------------------------------------------------------------------------------
(* Where a step leaves its task *)

Placed == pc \in [Task -> TaskPC]

\* Task t, and no other, moves, to one of the given places.
Moves(t, where) ==
    /\ Placed'
    /\ pc'[t] \in where
    /\ \A u \in Task \ {t} : pc'[u] = pc[u]

\* A suspended task is the only one whose place changes.
LEMMA SuspendMoves ==
  ASSUME Placed, NEW t \in Task, NEW where \in TaskPC, NEW what, Suspend(t, where, what)
  PROVE  Moves(t, {where})
  BY DEF Placed, Suspend, Moves

\* A task that returns to its caller is the only one whose place changes.
LEMMA ReturnMoves ==
  ASSUME Placed, NEW t \in Task, Return(t)
  PROVE  Moves(t, {"done"})
  BY SuspendMoves DEF Return, TaskPC

\* A stage of stop() moves only the task that runs it.
LEMMA StopBelowMoves ==
  ASSUME Placed, NEW t \in Task, NEW m, NEW status, NEW pending,
         StopBelow(t, m, status, pending)
  PROVE  Moves(t, {"done", "stopping"})
<1>1. Return(t) \/ \E n : Suspend(t, "stopping", n)
  BY DEF StopBelow, StopCompletes, StopModule
<1>2. Moves(t, {"done"}) \/ Moves(t, {"stopping"})
  BY <1>1, ReturnMoves, SuspendMoves DEF TaskPC
<1>3. QED
  BY <1>2 DEF Moves

\* stop() also leaves a process that is not running as it is
LEMMA StopMoves ==
  ASSUME Placed, NEW t \in Task, NEW looping, Stop(t, looping)
  PROVE  /\ Moves(t, {"done", "stopping", "draining"})
         /\ ~running => UNCHANGED <<running, shutdown>>
         /\ ~looping => Moves(t, {"done", "stopping"})
<1>1. CASE ~running
  BY <1>1, ReturnMoves DEF Stop, Moves
<1>2. CASE running /\ looping
  BY <1>2, SuspendMoves DEF Stop, Moves, TaskPC
<1>3. CASE running /\ ~looping
  BY <1>3, StopBelowMoves DEF Stop, Moves
<1>4. QED
  BY <1>1, <1>2, <1>3

\* run_forever is a task and no signal's handler is it.
LEMMA MainIsATask == Main \in Task /\ Main \notin Signaller
  BY OrchestratorAssumption DEF Task

\* Leaving the loop moves only the main task, and never into a cycle.
LEMMA LeaveLoopMoves ==
  ASSUME Placed, LeaveLoop
  PROVE  Moves(Main, {"done", "stopping"})
  BY MainIsATask, StopMoves DEF LeaveLoop

\* An emergency stop's stages move only the task that runs them.
LEMMA HaltBelowMoves ==
  ASSUME Placed, NEW m, NEW status, NEW pending, HaltBelow(m, status, pending)
  PROVE  Moves(Main, {"done", "halting"})
<1>1. Return(Main) \/ \E n : Suspend(Main, "halting", n)
  BY DEF HaltBelow, StopModule
<1>2. Moves(Main, {"done"}) \/ Moves(Main, {"halting"})
  BY <1>1, ReturnMoves, SuspendMoves, MainIsATask DEF TaskPC
<1>3. QED
  BY <1>2 DEF Moves

\* A failed startup moves only the main task, and never into a cycle.
LEMMA StartupFailsMoves ==
  ASSUME Placed, NEW status, StartupFails(status)
  PROVE  Moves(Main, {"done"}) /\ UNCHANGED <<running, shutdown>>
  BY ReturnMoves, MainIsATask DEF StartupFails

\* A cycle begins only where the shutdown event is clear and the loop runs: core.py:632-634.
LEMMA BeginCycleMoves ==
  ASSUME Placed, NEW status, BeginCycle(status)
  PROVE  Moves(Main, {"sleep", "stage"})
<1>1. \E n : Suspend(Main, "sleep", n) \/ Suspend(Main, "stage", n)
  BY DEF BeginCycle
<1>2. Moves(Main, {"sleep"}) \/ Moves(Main, {"stage"})
  BY <1>1, SuspendMoves, MainIsATask DEF TaskPC
<1>3. QED
  BY <1>2 DEF Moves

\* Starting a stage moves the main task on, or into the loop once all are up.
LEMMA StartAboveMoves ==
  ASSUME Placed, NEW m, NEW status, StartAbove(m, status)
  PROVE  /\ UNCHANGED shutdown
         /\ \/ Moves(Main, {"done", "sleep", "stage"})
            \/ Moves(Main, {"starting"}) /\ UNCHANGED running
<1>1. CASE StartupCompletes(status)
  BY <1>1, BeginCycleMoves DEF StartupCompletes, Moves
<1>2. CASE StartupFails(status)
  BY <1>2, StartupFailsMoves DEF Moves
<1>3. CASE \E n : Suspend(Main, "starting", n) /\ UNCHANGED <<running, shutdown>>
  BY <1>3, SuspendMoves, MainIsATask DEF TaskPC
<1>4. QED
  BY <1>1, <1>2, <1>3 DEF StartAbove

\* A cycle that ends moves the main task only.
LEMMA CycleEndsMoves ==
  ASSUME Placed, CycleEnds
  PROVE  Moves(Main, {"sleep", "done", "stopping"})
<1>1. Suspend(Main, "sleep", 0) \/ LeaveLoop
  BY DEF CycleEnds
<1>2. Moves(Main, {"sleep"}) \/ Moves(Main, {"done", "stopping"})
  BY <1>1, LeaveLoopMoves, SuspendMoves, MainIsATask DEF TaskPC
<1>3. QED
  BY <1>2 DEF Moves

-------------------------------------------------------------------------------
(* No cycle after a shutdown *)

\* A process that has not finished starting is neither running nor asked to stop.
NotYetRunning ==
    pc[Main] \in {"off", "booting", "starting"} => ~running /\ ~shutdown

Inv == Placed /\ NotYetRunning

NoNewCycle == pc[Main] # "stage" /\ pc'[Main] = "stage" => ~shutdown

\* What each step has to show.
Sound == Inv' /\ NoNewCycle

\* a step that moves Main past its startup, and not into a new cycle
LEMMA MainLeaves ==
  ASSUME Moves(Main, TaskPC \ {"off", "booting", "starting", "stage"})
  PROVE  Sound
  BY DEF Moves, Sound, Inv, NotYetRunning, NoNewCycle

\* a step of another task that leaves the flags of a process that is starting
LEMMA OtherMoves ==
  ASSUME Inv, NEW t \in Signaller, NEW where, Moves(t, where),
         ~running /\ ~shutdown => ~running' /\ ~shutdown'
  PROVE  Sound
  BY MainIsATask DEF Moves, Sound, Inv, NotYetRunning, NoNewCycle, Task

\* From the invariant, every step obeys the property the theorem below states.
LEMMA StepSound == Inv /\ [Next]_vars => Sound
<1> SUFFICES ASSUME Inv, [Next]_vars
             PROVE  Sound
  OBVIOUS
<1> USE DEF Inv
<1>1. CASE Boot
  BY <1>1, MainIsATask
  DEF Boot, Sound, Placed, TaskPC, NotYetRunning, NoNewCycle
<1>2. ASSUME NEW status, StartupFails(status)
      PROVE  Sound
  BY <1>2, StartupFailsMoves, MainLeaves DEF Moves, TaskPC
<1>3. ASSUME NEW m, NEW status, StartAbove(m, status),
             pc[Main] \in {"booting", "starting"}
      PROVE  Sound
  <2>1. ~running /\ ~shutdown /\ UNCHANGED shutdown
    BY <1>3, StartAboveMoves DEF NotYetRunning
  <2>2. CASE Moves(Main, {"done", "sleep", "stage"})
    BY <2>1, <2>2 DEF Moves, Sound, NotYetRunning, NoNewCycle
  <2>3. CASE Moves(Main, {"starting"}) /\ UNCHANGED running
    BY <2>1, <2>3 DEF Moves, Sound, NotYetRunning, NoNewCycle
  <2>4. QED
    BY <1>3, <2>2, <2>3, StartAboveMoves
<1>4. CASE Refuse
  BY <1>4, <1>2 DEF Refuse
<1>5. CASE Instantiate
  <2>1. /\ pc[Main] = "booting"
        /\ \E status : StartAbove(0, status) \/ StartupFails(status)
    BY <1>5 DEF Instantiate
  <2>2. QED
    BY <2>1, <1>2, <1>3
<1>6. CASE ModuleStarts
  BY <1>6, <1>3 DEF ModuleStarts
<1>7. CASE ModuleStartFails
  BY <1>7, <1>2, <1>3 DEF ModuleStartFails
<1>8. ASSUME CycleEnds
      PROVE  Sound
  BY <1>8, CycleEndsMoves, MainLeaves DEF Moves, TaskPC
<1>9. ASSUME LeaveLoop
      PROVE  Sound
  BY <1>9, LeaveLoopMoves, MainLeaves DEF Moves, TaskPC
<1>10. CASE StageSucceeds
  <2>1. CASE CycleEnds
    BY <2>1, <1>8
  <2>2. CASE \E n : Suspend(Main, "stage", n)
    <3>1. Moves(Main, {"stage"})
      BY <2>2, SuspendMoves, MainIsATask DEF TaskPC
    <3>2. QED
      BY <3>1, <1>10 DEF StageSucceeds, Moves, Sound, NotYetRunning, NoNewCycle
  <2>3. QED
    BY <1>10, <2>1, <2>2 DEF StageSucceeds
<1>11. CASE StageFails
  BY <1>11, <1>8 DEF StageFails
<1>12. CASE StageFailsForGood
  <2>1. Moves(Main, {"done", "halting"})
    BY <1>12, HaltBelowMoves DEF StageFailsForGood, Emergency
  <2>2. QED
    BY <2>1, MainLeaves DEF Moves, TaskPC
<1>13. CASE LoopCancelled
  BY <1>13, <1>9 DEF LoopCancelled
<1>14. CASE SleepEnds
  <2>1. CASE ~shutdown /\ BeginCycle(module)
    BY <2>1, BeginCycleMoves DEF Moves, Sound, NotYetRunning, NoNewCycle
  <2>2. QED
    BY <1>14, <1>9, <2>1 DEF SleepEnds, KeepsGoing
<1>15. ASSUME NEW t \in Task, NEW m, NEW status, NEW pending, UNCHANGED shutdown,
              StopBelow(t, m, status, pending)
       PROVE  Sound
  <2>1. Moves(t, {"done", "stopping"})
    BY <1>15, StopBelowMoves
  <2>2. CASE t = Main
    BY <2>1, <2>2, MainLeaves DEF Moves, TaskPC
  <2>3. CASE t # Main
    <3>1. t \in Signaller
      BY <2>3 DEF Task
    <3>2. ~running => ~running'
      BY <1>15 DEF StopBelow, StopCompletes
    <3>3. QED
      BY <1>15, <2>1, <3>1, <3>2, OtherMoves
  <2>4. QED
    BY <2>2, <2>3
<1>16. ASSUME NEW t \in Task, ModuleStops(t)
       PROVE  Sound
  <2>1. PICK status \in {"STOPPED", "ERROR"}, pending \in {cancelled, cancelled \ {t}} :
          LET after == [module EXCEPT ![at[t]] = status]
          IN  \/ StopBelow(t, at[t], after, pending)
              \/ pc[t] = "halting" /\ HaltBelow(at[t], after, pending)
    BY <1>16 DEF ModuleStops
  <2>2. CASE StopBelow(t, at[t], [module EXCEPT ![at[t]] = status], pending)
    BY <1>15, <1>16, <2>2 DEF ModuleStops
  <2>3. CASE HaltBelow(at[t], [module EXCEPT ![at[t]] = status], pending)
    BY <2>3, HaltBelowMoves, MainLeaves DEF Moves, TaskPC
  <2>4. QED
    BY <2>1, <2>2, <2>3
<1>17. ASSUME NEW t \in Task, StopInterrupted(t)
       PROVE  Sound
  <2>1. CASE LeaveLoop
    BY <2>1, <1>9
  <2>2. CASE Return(t) /\ UNCHANGED <<running, shutdown>>
    <3>1. Moves(t, {"done"})
      BY <2>2, ReturnMoves
    <3>2. CASE t = Main
      BY <3>1, <3>2, MainLeaves DEF Moves, TaskPC
    <3>3. CASE t # Main
      BY <1>17, <2>2, <3>1, <3>3, OtherMoves DEF Task
    <3>4. QED
      BY <3>2, <3>3
  <2>3. QED
    BY <1>17, <2>1, <2>2 DEF StopInterrupted
<1>18. ASSUME NEW t \in Task, Drained(t)
       PROVE  Sound
  BY <1>18, <1>15 DEF Drained
<1>19. ASSUME NEW t \in Signaller, Signal(t)
       PROVE  Sound
  <2>1. t \in Task
    BY DEF Task
  <2>2. /\ Moves(t, {"done", "stopping", "draining"})
        /\ ~running => UNCHANGED <<running, shutdown>>
    BY <1>19, <2>1, StopMoves DEF Signal
  <2>3. QED
    BY <2>2, OtherMoves
<1>20. ASSUME NEW t \in Signaller, DrainTimesOut(t)
       PROVE  Sound
  BY <1>20 DEF DrainTimesOut, Sound, Placed, NotYetRunning, NoNewCycle
<1>21. CASE Crash
  BY <1>21, MainIsATask
  DEF Crash, Sound, Placed, TaskPC, NotYetRunning, NoNewCycle
<1>22. CASE UNCHANGED vars
  BY <1>22 DEF vars, procVars, Sound, Placed, NotYetRunning, NoNewCycle
<1>23. CASE MainStep
  BY <1>23, <1>4, <1>5, <1>6, <1>7, <1>10, <1>11, <1>12, <1>13, <1>14 DEF MainStep
<1>24. QED
  BY <1>1, <1>16, <1>17, <1>18, <1>19, <1>20, <1>21, <1>22, <1>23 DEF Next, StopStep

\* Once a shutdown was requested, by a signal or an emergency, the main loop begins no
\* new cycle, however cancellations are lost: core.py:632-641.
THEOREM NoCycleAfterShutdownHolds == Spec => NoCycleAfterShutdown
<1>1. Init => Inv
  BY MainIsATask DEF Init, Inv, Placed, TaskPC, NotYetRunning
<1>2. Inv /\ [Next]_vars => Inv'
  BY StepSound DEF Sound
<1>3. Inv /\ [Next]_vars => [NoNewCycle]_vars
  BY StepSound DEF Sound
<1>4. QED
  BY <1>1, <1>2, <1>3, PTL DEF Spec, NoCycleAfterShutdown, NoNewCycle
-------------------------------------------------------------------------------
(* The least and the greatest of a set of modules or stages *)

\* A set of natural numbers that is not empty has a least member.
LEMMA LeastExists ==
  ASSUME NEW S \in SUBSET Nat, S # {}
  PROVE  \E x \in S : \A y \in S : x =< y
<1> DEFINE R == OpToRel(<, Nat)
<1>1. \E x \in S : \A y \in S : <<y, x>> \notin R
  <2> HIDE DEF R
  <2>1. IsWellFoundedOn(R, Nat)
    BY NatLessThanWellFounded DEF R
  <2>2. QED
    BY <2>1, WFMin
<1>2. \A x, y \in Nat : y < x => <<y, x>> \in R
  BY DEF OpToRel
<1> HIDE DEF R
<1>3. PICK x \in S : \A y \in S : <<y, x>> \notin R
  BY <1>1
<1>4. \A y \in S : ~(y < x)
  BY <1>2, <1>3
<1>5. x \in Nat /\ \A y \in S : y \in Nat
  OBVIOUS
<1>6. QED
  BY <1>4, <1>5

\* start_all and execute_cycle take the first of what is left.
LEMMA MinIsLeast ==
  ASSUME NEW S \in SUBSET Nat, S # {}
  PROVE  Min(S) \in S /\ \A y \in S : Min(S) =< y
  BY LeastExists DEF Min

\* stop_all takes the last of what is left.
LEMMA MaxIsMember ==
  ASSUME NEW n \in Nat, NEW S \in SUBSET (1 .. n), S # {}
  PROVE  Max(S) \in S
<1> DEFINE T == {n - x : x \in S}
<1>0. S \subseteq Nat
  OBVIOUS
<1>1. T \subseteq Nat /\ T # {}
  <2>1. \A x \in S : n - x \in Nat
    OBVIOUS
  <2>2. QED
    BY <2>1
<1>2. PICK least \in T : \A y \in T : least =< y
  BY <1>1, LeastExists
<1>3. PICK x \in S : least = n - x
  BY <1>2
<1>4. ASSUME NEW y \in S
      PROVE  x >= y
  <2>1. n - x =< n - y
    BY <1>2, <1>3
  <2>2. x \in Nat /\ y \in Nat
    BY <1>0
  <2>3. QED
    BY <2>1, <2>2
<1>5. \E z \in S : \A y \in S : z >= y
  BY <1>4
<1>6. QED
  BY <1>5 DEF Max

-------------------------------------------------------------------------------
(* Types *)

ModuleMap == [Module -> ModuleStatus]
Position == 0 .. ModuleCount + StageCount

\* The part of the types the lifecycle does not keep.
ProcessTypeOK ==
    /\ module \in ModuleMap
    /\ running \in BOOLEAN /\ shutdown \in BOOLEAN
    /\ mainLoop \in BOOLEAN /\ signalled \in BOOLEAN
    /\ cancelled \subseteq Task
    /\ pc \in [Task -> TaskPC]
    /\ at \in [Task -> Position]

\* what the helpers assign
Assigned ==
    /\ module' \in ModuleMap
    /\ cancelled' \subseteq Task
    /\ pc' \in [Task -> TaskPC]
    /\ at' \in [Task -> Position]

\* Modules and stages are positions of a task.
LEMMA Positions == Module \subseteq Position /\ Stage \subseteq Position /\ 0 \in Position
  BY OrchestratorAssumption DEF Module, Stage, Position

\* A suspension keeps the types of the two functions it changes.
LEMMA SuspendTyped ==
  ASSUME ProcessTypeOK, NEW t \in Task, NEW where \in TaskPC, NEW what \in Position,
         Suspend(t, where, what)
  PROVE  pc' \in [Task -> TaskPC] /\ at' \in [Task -> Position]
  BY DEF ProcessTypeOK, Suspend

\* The return of a task keeps them too, and the cancellations: core.py:524-576.
LEMMA ReturnTyped ==
  ASSUME ProcessTypeOK, NEW t \in Task, Return(t)
  PROVE  /\ pc' \in [Task -> TaskPC] /\ at' \in [Task -> Position]
         /\ cancelled' \subseteq Task
<1>1. Suspend(t, "done", 0)
  BY DEF Return
<1>2. cancelled' \subseteq Task
  BY DEF Return, ProcessTypeOK, Task
<1>3. QED
  BY <1>1, <1>2, SuspendTyped, Positions DEF TaskPC

\* The last module of those left is a module.
LEMMA LastIsModule ==
  ASSUME NEW left \in SUBSET Module, left # {}
  PROVE  Max(left) \in Module /\ Max(left) \in left
  BY MaxIsMember, OrchestratorAssumption DEF Module

\* The first module of those left is a module, and no other comes before it.
LEMMA FirstIsModule ==
  ASSUME NEW left \in SUBSET Module, left # {}
  PROVE  /\ Min(left) \in Module /\ Min(left) \in left
         /\ \A n \in left : Min(left) =< n
<1>1. left \subseteq Nat
  BY DEF Module
<1>2. QED
  BY <1>1, MinIsLeast

\* The first stage of those left is a stage.
LEMMA FirstIsStage ==
  ASSUME NEW left \in SUBSET Stage, left # {}
  PROVE  Min(left) \in Stage /\ Min(left) \in left
<1>1. left \subseteq Nat
  BY DEF Stage
<1>2. QED
  BY <1>1, MinIsLeast

\* stop_module marks its module and waits for it, in the type: registry.py:446-475.
LEMMA StopModuleTyped ==
  ASSUME ProcessTypeOK, NEW t \in Task, NEW m \in Module, NEW status \in ModuleMap,
         NEW where \in {"stopping", "halting"}, StopModule(t, m, status, where)
  PROVE  /\ module' \in ModuleMap
         /\ pc' \in [Task -> TaskPC] /\ at' \in [Task -> Position]
<1>1. module' \in ModuleMap
  BY DEF StopModule, ModuleMap, ModuleStatus
<1>2. QED
  BY <1>1, SuspendTyped, Positions DEF StopModule, TaskPC

\* stop_all, when it goes on and when it ends, stays in the types.
LEMMA StopBelowTyped ==
  ASSUME ProcessTypeOK, NEW t \in Task, NEW m, NEW status \in ModuleMap,
         NEW pending \in SUBSET Task, StopBelow(t, m, status, pending)
  PROVE  Assigned /\ running' \in BOOLEAN
<1> DEFINE left == {n \in Module : n < m /\ IsActive(status[n])}
<1>1. CASE left = {}
  <2>1. module' = status /\ Return(t) /\ running' \in {running, FALSE}
    BY <1>1 DEF StopBelow, StopCompletes
  <2>2. QED
    BY <2>1, ReturnTyped DEF Assigned, ProcessTypeOK
<1>2. CASE left # {}
  <2>1. /\ StopModule(t, Max(left), status, "stopping")
        /\ cancelled' = pending /\ running' = running
    BY <1>2 DEF StopBelow
  <2>2. Max(left) \in Module
    BY <1>2, LastIsModule
  <2>3. QED
    BY <2>1, <2>2, StopModuleTyped DEF Assigned, ProcessTypeOK
<1>3. QED
  BY <1>1, <1>2

\* stop() stays in the types up to its first suspension: core.py:524-576.
LEMMA StopTyped ==
  ASSUME ProcessTypeOK, NEW t \in Task, NEW looping, Stop(t, looping)
  PROVE  Assigned /\ running' \in BOOLEAN /\ shutdown' \in BOOLEAN
<1>1. CASE ~running
  BY <1>1, ReturnTyped DEF Stop, Assigned, ProcessTypeOK
<1>2. CASE running /\ looping
  <2>1. /\ Suspend(t, "draining", 0) /\ UNCHANGED <<module, running>> /\ shutdown' = TRUE
        /\ cancelled' = (cancelled \ {t}) \cup {Main}
    BY <1>2 DEF Stop
  <2>2. cancelled' \subseteq Task
    BY <2>1, MainIsATask DEF ProcessTypeOK
  <2>3. QED
    BY <2>1, <2>2, SuspendTyped, Positions DEF Assigned, ProcessTypeOK, TaskPC
<1>3. CASE running /\ ~looping
  <2>1. shutdown' = TRUE /\ StopBelow(t, ModuleCount + 1, module, cancelled \ {t})
    BY <1>3 DEF Stop
  <2>2. module \in ModuleMap /\ cancelled \ {t} \in SUBSET Task
    BY DEF ProcessTypeOK
  <2>3. QED
    BY <2>1, <2>2, StopBelowTyped
<1>4. QED
  BY <1>1, <1>2, <1>3

\* The end of the main loop stays in the types.
LEMMA LeaveLoopTyped ==
  ASSUME ProcessTypeOK, LeaveLoop
  PROVE  ProcessTypeOK'
  BY StopTyped, MainIsATask DEF LeaveLoop, Assigned, ProcessTypeOK

\* emergency_stop stays in the types, when it goes on and when it ends.
LEMMA HaltBelowTyped ==
  ASSUME ProcessTypeOK, NEW m, NEW status \in ModuleMap, NEW pending \in SUBSET Task,
         HaltBelow(m, status, pending)
  PROVE  Assigned /\ running' \in BOOLEAN /\ mainLoop' \in BOOLEAN
<1> DEFINE left == {n \in Module : n < m /\ IsActive(status[n])}
<1>1. CASE left = {}
  BY <1>1, ReturnTyped, MainIsATask DEF HaltBelow, Assigned, ProcessTypeOK
<1>2. CASE left # {}
  <2>1. /\ StopModule(Main, Max(left), status, "halting")
        /\ cancelled' = pending /\ UNCHANGED <<running, mainLoop>>
    BY <1>2 DEF HaltBelow
  <2>2. Max(left) \in Module
    BY <1>2, LastIsModule
  <2>3. QED
    BY <2>1, <2>2, StopModuleTyped, MainIsATask DEF Assigned, ProcessTypeOK
<1>3. QED
  BY <1>1, <1>2

\* A startup that fails stays in the types.
LEMMA StartupFailsTyped ==
  ASSUME ProcessTypeOK, NEW status \in ModuleMap, StartupFails(status)
  PROVE  ProcessTypeOK'
  BY ReturnTyped, MainIsATask DEF StartupFails, ProcessTypeOK

\* A cycle that begins puts the main task at a stage or to sleep.
LEMMA BeginCycleTyped ==
  ASSUME ProcessTypeOK, NEW status, BeginCycle(status)
  PROVE  pc' \in [Task -> TaskPC] /\ at' \in [Task -> Position]
<1>1. PICK clear \in BOOLEAN :
        LET stages == StagesAfter(0, status, clear)
        IN  IF stages = {} THEN Suspend(Main, "sleep", 0)
            ELSE Suspend(Main, "stage", Min(stages))
  BY DEF BeginCycle
<1> DEFINE stages == StagesAfter(0, status, clear)
<1>2. CASE stages = {}
  BY <1>1, <1>2, SuspendTyped, MainIsATask, Positions DEF TaskPC
<1>3. CASE stages # {}
  <2>1. stages \subseteq Stage
    BY DEF StagesAfter
  <2>2. Min(stages) \in Position
    BY <1>3, <2>1, FirstIsStage, Positions
  <2>3. Suspend(Main, "stage", Min(stages))
    BY <1>1, <1>3
  <2>4. QED
    BY <2>2, <2>3, SuspendTyped, MainIsATask DEF TaskPC
<1>4. QED
  BY <1>2, <1>3

\* start_all stays in the types, whether it goes on, fails or ends.
LEMMA StartAboveTyped ==
  ASSUME ProcessTypeOK, NEW m, NEW status \in ModuleMap, StartAbove(m, status)
  PROVE  ProcessTypeOK'
<1> DEFINE left == {n \in Module : /\ n > m
                                   /\ status[n] = "NOT_STARTED"
                                   /\ n \in Critical \/ DependenciesUp(n, status)}
<1>1. CASE StartupCompletes(status)
  <2>1. pc' \in [Task -> TaskPC] /\ at' \in [Task -> Position]
    BY <1>1, BeginCycleTyped DEF StartupCompletes
  <2>2. QED
    BY <1>1, <2>1 DEF StartupCompletes, ProcessTypeOK
<1>2. CASE StartupFails(status)
  BY <1>2, StartupFailsTyped
<1>3. CASE /\ left # {}
           /\ module' = [status EXCEPT ![Min(left)] = "STARTING"]
           /\ Suspend(Main, "starting", Min(left))
           /\ UNCHANGED <<smVars, running, shutdown, mainLoop, cancelled, signalled>>
  <2>1. Min(left) \in Position
    BY <1>3, FirstIsModule, Positions
  <2>2. module' \in ModuleMap
    BY <1>3 DEF ModuleMap, ModuleStatus
  <2>3. pc' \in [Task -> TaskPC] /\ at' \in [Task -> Position]
    BY <1>3, <2>1, SuspendTyped, MainIsATask DEF TaskPC
  <2>4. QED
    BY <1>3, <2>2, <2>3 DEF ProcessTypeOK
<1>4. QED
  BY <1>1, <1>2, <1>3 DEF StartAbove

\* A cycle that ends stays in the types.
LEMMA CycleEndsTyped ==
  ASSUME ProcessTypeOK, CycleEnds
  PROVE  ProcessTypeOK'
<1>1. CASE LeaveLoop
  BY <1>1, LeaveLoopTyped
<1>2. CASE /\ Suspend(Main, "sleep", 0)
           /\ cancelled' = cancelled \ {Main}
           /\ UNCHANGED <<smVars, module, running, shutdown, mainLoop, signalled>>
  BY <1>2, SuspendTyped, MainIsATask, Positions DEF ProcessTypeOK, TaskPC
<1>3. QED
  BY <1>1, <1>2 DEF CycleEnds

\* Every step keeps the types.
LEMMA StepTyped == ProcessTypeOK /\ [Next]_vars => ProcessTypeOK'
<1> SUFFICES ASSUME ProcessTypeOK, [Next]_vars
             PROVE  ProcessTypeOK'
  OBVIOUS
<1>1. CASE Boot
  BY <1>1, Positions DEF Boot, ProcessTypeOK, ModuleMap, ModuleStatus, TaskPC
<1>2. CASE Refuse
  BY <1>2, StartupFailsTyped DEF Refuse, ProcessTypeOK
<1>3. CASE Instantiate
  <2>1. PICK failed \in SUBSET Module :
          LET status == [m \in Module |-> IF m \in failed THEN "ABSENT" ELSE "NOT_STARTED"]
          IN  StartAbove(0, status) \/ StartupFails(status)
    BY <1>3 DEF Instantiate
  <2>2. [m \in Module |-> IF m \in failed THEN "ABSENT" ELSE "NOT_STARTED"] \in ModuleMap
    BY DEF ModuleMap, ModuleStatus
  <2>3. QED
    BY <2>1, <2>2, StartAboveTyped, StartupFailsTyped
<1>4. ASSUME NEW m, NEW s \in ModuleStatus
      PROVE  [module EXCEPT ![m] = s] \in ModuleMap
  BY DEF ProcessTypeOK, ModuleMap
<1>5. CASE ModuleStarts
  <2>1. [module EXCEPT ![at[Main]] = "RUNNING"] \in ModuleMap
    BY <1>4 DEF ModuleStatus
  <2>2. QED
    BY <1>5, <2>1, StartAboveTyped DEF ModuleStarts
<1>6. CASE ModuleStartFails
  <2>1. [module EXCEPT ![at[Main]] = "ERROR"] \in ModuleMap
    BY <1>4 DEF ModuleStatus
  <2>2. QED
    BY <1>6, <2>1, StartAboveTyped, StartupFailsTyped DEF ModuleStartFails
<1>7. CASE StageSucceeds
  <2>1. PICK clear \in BOOLEAN :
          LET stages == StagesAfter(at[Main], module, clear)
          IN  IF stages = {} THEN CycleEnds
              ELSE /\ Suspend(Main, "stage", Min(stages))
                   /\ cancelled' = cancelled \ {Main}
                   /\ UNCHANGED <<smVars, module, running, shutdown, mainLoop, signalled>>
    BY <1>7 DEF StageSucceeds
  <2> DEFINE stages == StagesAfter(at[Main], module, clear)
  <2>2. CASE stages = {}
    BY <2>1, <2>2, CycleEndsTyped
  <2>3. CASE stages # {}
    <3>1. stages \subseteq Stage
      BY DEF StagesAfter
    <3>2. Min(stages) \in Position
      BY <2>3, <3>1, FirstIsStage, Positions
    <3>3. /\ Suspend(Main, "stage", Min(stages))
          /\ cancelled' = cancelled \ {Main}
          /\ UNCHANGED <<smVars, module, running, shutdown, mainLoop, signalled>>
      BY <2>1, <2>3
    <3>4. QED
      BY <3>2, <3>3, SuspendTyped, MainIsATask DEF ProcessTypeOK, TaskPC
  <2>4. QED
    BY <2>2, <2>3
<1>8. CASE StageFails
  BY <1>8, CycleEndsTyped DEF StageFails
<1>9. CASE StageFailsForGood
  <2>1. /\ HaltBelow(ModuleCount + 1, module, cancelled \cup {Main})
        /\ shutdown' = TRUE /\ UNCHANGED signalled
    BY <1>9 DEF StageFailsForGood, Emergency
  <2>2. module \in ModuleMap /\ cancelled \cup {Main} \in SUBSET Task
    BY MainIsATask DEF ProcessTypeOK
  <2>3. QED
    BY <2>1, <2>2, HaltBelowTyped DEF Assigned, ProcessTypeOK
<1>10. CASE LoopCancelled
  BY <1>10, LeaveLoopTyped DEF LoopCancelled
<1>11. CASE SleepEnds
  <2>1. CASE LeaveLoop
    BY <2>1, LeaveLoopTyped
  <2>2. CASE /\ BeginCycle(module)
             /\ UNCHANGED <<smVars, module, running, shutdown, mainLoop>>
             /\ UNCHANGED <<cancelled, signalled>>
    BY <2>2, BeginCycleTyped DEF ProcessTypeOK
  <2>3. QED
    BY <1>11, <2>1, <2>2 DEF SleepEnds
<1>12. ASSUME NEW t \in Task, ModuleStops(t)
       PROVE  ProcessTypeOK'
  <2>1. PICK status \in {"STOPPED", "ERROR"}, pending \in {cancelled, cancelled \ {t}} :
          LET after == [module EXCEPT ![at[t]] = status]
          IN  \/ StopBelow(t, at[t], after, pending) /\ UNCHANGED mainLoop
              \/ HaltBelow(at[t], after, pending)
    BY <1>12 DEF ModuleStops
  <2>2. [module EXCEPT ![at[t]] = status] \in ModuleMap
    BY <1>4 DEF ModuleStatus
  <2>3. pending \in SUBSET Task
    BY DEF ProcessTypeOK
  <2>4. UNCHANGED <<shutdown, signalled>>
    BY <1>12 DEF ModuleStops
  <2>5. CASE StopBelow(t, at[t], [module EXCEPT ![at[t]] = status], pending)
             /\ UNCHANGED mainLoop
    BY <2>2, <2>3, <2>4, <2>5, StopBelowTyped DEF Assigned, ProcessTypeOK
  <2>6. CASE HaltBelow(at[t], [module EXCEPT ![at[t]] = status], pending)
    BY <2>2, <2>3, <2>4, <2>6, HaltBelowTyped DEF Assigned, ProcessTypeOK
  <2>7. QED
    BY <2>1, <2>5, <2>6
<1>13. ASSUME NEW t \in Task, StopInterrupted(t)
       PROVE  ProcessTypeOK'
  <2>1. CASE LeaveLoop
    BY <2>1, LeaveLoopTyped
  <2>2. CASE Return(t) /\ UNCHANGED <<smVars, module, running, shutdown, mainLoop, signalled>>
    BY <2>2, ReturnTyped DEF ProcessTypeOK
  <2>3. QED
    BY <1>13, <2>1, <2>2 DEF StopInterrupted
<1>14. ASSUME NEW t \in Task, Drained(t)
       PROVE  ProcessTypeOK'
  <2>1. PICK pending \in {cancelled \cup {t}, cancelled \ {t}} :
          StopBelow(t, ModuleCount + 1, module, pending)
    BY <1>14 DEF Drained
  <2>2. module \in ModuleMap /\ pending \in SUBSET Task
    BY DEF ProcessTypeOK
  <2>3. UNCHANGED <<shutdown, mainLoop, signalled>>
    BY <1>14 DEF Drained
  <2>4. QED
    BY <2>1, <2>2, <2>3, StopBelowTyped DEF Assigned, ProcessTypeOK
<1>15. ASSUME NEW t \in Signaller, Signal(t)
       PROVE  ProcessTypeOK'
  <2>1. t \in Task
    BY DEF Task
  <2>2. Stop(t, mainLoop) /\ signalled' = TRUE /\ UNCHANGED mainLoop
    BY <1>15 DEF Signal
  <2>3. QED
    BY <2>1, <2>2, StopTyped DEF Assigned, ProcessTypeOK
<1>16. ASSUME NEW t \in Signaller, DrainTimesOut(t)
       PROVE  ProcessTypeOK'
  BY <1>16, MainIsATask DEF DrainTimesOut, ProcessTypeOK
<1>17. CASE Crash
  BY <1>17, Positions DEF Crash, ProcessTypeOK, ModuleMap, ModuleStatus, TaskPC
<1>18. CASE UNCHANGED vars
  BY <1>18 DEF vars, procVars, ProcessTypeOK
<1>19. CASE MainStep
  BY <1>19, <1>2, <1>3, <1>5, <1>6, <1>7, <1>8, <1>9, <1>10, <1>11 DEF MainStep
<1>20. QED
  BY <1>1, <1>12, <1>13, <1>14, <1>15, <1>16, <1>17, <1>18, <1>19 DEF Next, StopStep

\* Every variable of the process stays in its type, whatever the modules, the stages
\* and the signals: core.py:454-750, registry.py:291-491.
THEOREM OrchestratorTypeCorrect == Spec => []TypeOK
<1>1. Init => ProcessTypeOK
  BY MainIsATask, Positions
  DEF Init, ProcessTypeOK, ModuleMap, ModuleStatus, TaskPC
<1>2. ProcessTypeOK /\ [Next]_vars => ProcessTypeOK'
  BY StepTyped
<1>3. LifecycleTypeOK /\ ProcessTypeOK => TypeOK
  BY DEF TypeOK, ProcessTypeOK, ModuleMap, Position
<1>4. Spec => []ProcessTypeOK
  BY <1>1, <1>2, PTL DEF Spec
<1>5. Spec => []LifecycleTypeOK
  BY Implements, LifecycleTypeCorrect, PTL
<1>6. QED
  BY <1>3, <1>4, <1>5, PTL

-------------------------------------------------------------------------------
(* Who may be where *)

\* A signal's task never starts or halts anything, and stops modules only when the
\* main task no longer runs a cycle.
Roles ==
    /\ pc[Main] \notin {"idle", "draining"}
    /\ \A t \in Signaller :
          /\ pc[t] \in {"idle", "stopping", "draining", "done"}
          /\ pc[t] = "stopping" => pc[Main] \in {"stopping", "done"}

\* The main task stops modules only in a shutdown, and until then its loop is known.
Begun == pc[Main] \in {"stopping", "halting"} => shutdown
Looping == pc[Main] \in {"stage", "sleep", "halting"} => mainLoop

Shape == Roles /\ Begun /\ Looping

\* The main task may go anywhere while no signal's task is stopping modules.
LEMMA MainKeepsShape ==
  ASSUME Inv, Shape, NEW where \in SUBSET (TaskPC \ {"idle", "draining"}),
         Moves(Main, where),
         \/ pc[Main] \notin {"stopping", "done"}
         \/ where \subseteq {"stopping", "done"},
         pc'[Main] \in {"stopping", "halting"} => shutdown',
         pc'[Main] \in {"stage", "sleep", "halting"} => mainLoop'
  PROVE  Shape'
<1>1. pc'[Main] \notin {"idle", "draining"}
  BY DEF Moves
<1>2. ASSUME NEW t \in Signaller
      PROVE  /\ pc'[t] \in {"idle", "stopping", "draining", "done"}
             /\ pc'[t] = "stopping" => pc'[Main] \in {"stopping", "done"}
  BY MainIsATask DEF Moves, Shape, Roles, Task
<1>3. QED
  BY <1>1, <1>2 DEF Shape, Roles, Begun, Looping

\* A signal's task may stop modules once the main task is stopping or done.
LEMMA OtherKeepsShape ==
  ASSUME Inv, Shape, NEW t \in Signaller,
         NEW where \in SUBSET {"idle", "stopping", "draining", "done"}, Moves(t, where),
         pc'[t] = "stopping" => pc[Main] \in {"stopping", "done"},
         shutdown => shutdown', UNCHANGED mainLoop
  PROVE  Shape'
<1>1. pc'[Main] = pc[Main]
  BY MainIsATask DEF Moves, Task
<1>2. ASSUME NEW u \in Signaller
      PROVE  /\ pc'[u] \in {"idle", "stopping", "draining", "done"}
             /\ pc'[u] = "stopping" => pc'[Main] \in {"stopping", "done"}
  BY <1>1 DEF Moves, Shape, Roles, Task
<1>3. QED
  BY <1>1, <1>2 DEF Shape, Roles, Begun, Looping

\* run_forever is left into the stop() of a running process, or the process ends.
LEMMA LeaveLoopShape ==
  ASSUME Inv, Shape, LeaveLoop, pc[Main] \in {"stage", "sleep", "halting"}
  PROVE  Shape'
<1>1. Moves(Main, {"done", "stopping"})
  BY LeaveLoopMoves DEF Inv
<1>2. pc'[Main] = "stopping" => shutdown'
  <2>1. CASE running
    BY <2>1 DEF LeaveLoop, Stop
  <2>2. CASE ~running
    <3>1. Return(Main)
      BY <2>2 DEF LeaveLoop, Stop
    <3>2. pc'[Main] = "done"
      BY <3>1, ReturnMoves, MainIsATask DEF Inv, Moves
    <3>3. QED
      BY <3>2
  <2>3. QED
    BY <2>1, <2>2
<1>3. QED
  BY <1>1, <1>2, MainKeepsShape DEF Moves, TaskPC

\* A startup that fails ends the main task.
LEMMA StartupFailsShape ==
  ASSUME Inv, Shape, NEW status, StartupFails(status), pc[Main] \in {"booting", "starting"}
  PROVE  Shape'
<1>1. Moves(Main, {"done"})
  BY StartupFailsMoves DEF Inv
<1>2. QED
  BY <1>1, MainKeepsShape DEF Moves, TaskPC

\* A startup that goes on takes the main task to a module or into the loop.
LEMMA StartAboveShape ==
  ASSUME Inv, Shape, NEW m, NEW status, StartAbove(m, status),
         pc[Main] \in {"booting", "starting"}
  PROVE  Shape'
<1>1. CASE StartupCompletes(status)
  <2>1. Moves(Main, {"sleep", "stage"}) /\ mainLoop'
    BY <1>1, BeginCycleMoves DEF StartupCompletes, Inv
  <2>2. QED
    BY <2>1, MainKeepsShape DEF Moves, TaskPC
<1>2. CASE StartupFails(status)
  BY <1>2, StartupFailsShape
<1>3. CASE \E n : Suspend(Main, "starting", n)
  <2>1. Moves(Main, {"starting"})
    BY <1>3, SuspendMoves, MainIsATask DEF TaskPC, Inv
  <2>2. QED
    BY <2>1, MainKeepsShape DEF Moves, TaskPC
<1>4. QED
  BY <1>1, <1>2, <1>3 DEF StartAbove

\* A cycle ends in a sleep or in the end of the loop.
LEMMA CycleEndsShape ==
  ASSUME Inv, Shape, CycleEnds, pc[Main] = "stage"
  PROVE  Shape'
<1>1. CASE LeaveLoop
  BY <1>1, LeaveLoopShape
<1>2. CASE Suspend(Main, "sleep", 0) /\ UNCHANGED <<shutdown, mainLoop>>
  <2>1. Moves(Main, {"sleep"})
    BY <1>2, SuspendMoves, MainIsATask DEF TaskPC, Inv
  <2>2. QED
    BY <1>2, <2>1, MainKeepsShape DEF Moves, TaskPC, Shape, Looping
<1>3. QED
  BY <1>1, <1>2 DEF CycleEnds

\* stop_all runs in the main task, or in a signal's task that may run it.
LEMMA StopBelowShape ==
  ASSUME Inv, Shape, NEW t \in Task, NEW m, NEW status, NEW pending,
         StopBelow(t, m, status, pending), pc[Main] \in {"stopping", "done"},
         t = Main => pc[Main] = "stopping",
         UNCHANGED <<shutdown, mainLoop>>
  PROVE  Shape'
<1>1. Moves(t, {"done", "stopping"})
  BY StopBelowMoves DEF Inv
<1>2. CASE t = Main
  BY <1>1, <1>2, MainKeepsShape DEF Moves, TaskPC, Shape, Begun
<1>3. CASE t # Main
  <2>1. t \in Signaller
    BY <1>3 DEF Task
  <2>2. QED
    BY <1>1, <2>1, OtherKeepsShape DEF Moves
<1>4. QED
  BY <1>2, <1>3

\* The emergency stop takes the main task to its end, or to the next module.
LEMMA HaltBelowShape ==
  ASSUME Inv, Shape, NEW m, NEW status, NEW pending, HaltBelow(m, status, pending),
         pc[Main] \in {"stage", "halting"}, shutdown'
  PROVE  Shape'
<1>1. Moves(Main, {"done", "halting"})
  BY HaltBelowMoves DEF Inv
<1>2. pc'[Main] = "halting" => mainLoop'
  <2>1. CASE Return(Main)
    BY <2>1, ReturnMoves, MainIsATask DEF Inv, Moves
  <2>2. CASE UNCHANGED mainLoop
    BY <2>2 DEF Shape, Looping
  <2>3. QED
    BY <2>1, <2>2 DEF HaltBelow
<1>3. QED
  BY <1>1, <1>2, MainKeepsShape DEF Moves, TaskPC

\* Every step keeps the tasks where they may be.
LEMMA StepShape == Inv /\ Shape /\ [Next]_vars => Shape'
<1> SUFFICES ASSUME Inv, Shape, [Next]_vars
             PROVE  Shape'
  OBVIOUS
<1>1. CASE Boot
  BY <1>1, MainIsATask DEF Boot, Shape, Roles, Begun, Looping, Task
<1>2. CASE Refuse
  BY <1>2, StartupFailsShape DEF Refuse
<1>3. CASE Instantiate
  <2>1. /\ pc[Main] = "booting"
        /\ \E status : StartAbove(0, status) \/ StartupFails(status)
    BY <1>3 DEF Instantiate
  <2>2. QED
    BY <2>1, StartAboveShape, StartupFailsShape
<1>4. CASE ModuleStarts
  BY <1>4, StartAboveShape DEF ModuleStarts
<1>5. CASE ModuleStartFails
  BY <1>5, StartAboveShape, StartupFailsShape DEF ModuleStartFails
<1>6. CASE StageSucceeds
  <2>1. CASE CycleEnds
    BY <1>6, <2>1, CycleEndsShape DEF StageSucceeds
  <2>2. CASE \E n : Suspend(Main, "stage", n) /\ UNCHANGED <<shutdown, mainLoop>>
    <3>1. Moves(Main, {"stage"}) /\ mainLoop'
      BY <1>6, <2>2, SuspendMoves, MainIsATask
      DEF StageSucceeds, TaskPC, Inv, Shape, Looping
    <3>2. QED
      BY <1>6, <3>1, MainKeepsShape DEF StageSucceeds, Moves, TaskPC
  <2>3. QED
    BY <1>6, <2>1, <2>2 DEF StageSucceeds
<1>7. CASE StageFails
  BY <1>7, CycleEndsShape DEF StageFails
<1>8. CASE StageFailsForGood
  BY <1>8, HaltBelowShape DEF StageFailsForGood, Emergency
<1>9. CASE LoopCancelled
  BY <1>9, LeaveLoopShape DEF LoopCancelled
<1>10. CASE SleepEnds
  <2>1. CASE LeaveLoop
    BY <1>10, <2>1, LeaveLoopShape DEF SleepEnds
  <2>2. CASE BeginCycle(module) /\ UNCHANGED <<shutdown, mainLoop>>
    <3>1. Moves(Main, {"sleep", "stage"}) /\ mainLoop'
      BY <1>10, <2>2, BeginCycleMoves DEF SleepEnds, Inv, Shape, Looping
    <3>2. QED
      BY <1>10, <3>1, MainKeepsShape DEF SleepEnds, Moves, TaskPC
  <2>3. QED
    BY <1>10, <2>1, <2>2 DEF SleepEnds
<1>11. ASSUME NEW t \in Task, ModuleStops(t)
       PROVE  Shape'
  <2>1. PICK status \in {"STOPPED", "ERROR"}, pending \in {cancelled, cancelled \ {t}} :
          LET after == [module EXCEPT ![at[t]] = status]
          IN  \/ pc[t] = "stopping" /\ StopBelow(t, at[t], after, pending)
                                    /\ UNCHANGED mainLoop
              \/ pc[t] = "halting" /\ HaltBelow(at[t], after, pending)
    BY <1>11 DEF ModuleStops
  <2>2. UNCHANGED shutdown
    BY <1>11 DEF ModuleStops
  <2>3. CASE /\ pc[t] = "stopping"
             /\ StopBelow(t, at[t], [module EXCEPT ![at[t]] = status], pending)
             /\ UNCHANGED mainLoop
    <3>1. pc[Main] \in {"stopping", "done"} /\ (t = Main => pc[Main] = "stopping")
      BY <2>3 DEF Shape, Roles, Task
    <3>2. QED
      BY <2>2, <2>3, <3>1, StopBelowShape
  <2>4. CASE /\ pc[t] = "halting"
             /\ HaltBelow(at[t], [module EXCEPT ![at[t]] = status], pending)
    <3>1. t = Main
      BY <2>4 DEF Shape, Roles, Task
    <3>2. QED
      BY <2>2, <2>4, <3>1, HaltBelowShape DEF Shape, Begun
  <2>5. QED
    BY <2>1, <2>3, <2>4
<1>12. ASSUME NEW t \in Task, StopInterrupted(t)
       PROVE  Shape'
  <2>1. CASE pc[t] = "halting" /\ LeaveLoop
    <3>1. t = Main
      BY <2>1 DEF Shape, Roles, Task
    <3>2. QED
      BY <2>1, <3>1, LeaveLoopShape
  <2>2. CASE pc[t] = "stopping" /\ Return(t) /\ UNCHANGED <<shutdown, mainLoop>>
    <3>1. Moves(t, {"done"})
      BY <2>2, ReturnMoves DEF Inv
    <3>2. CASE t = Main
      BY <2>2, <3>1, <3>2, MainKeepsShape DEF Moves, TaskPC
    <3>3. CASE t # Main
      BY <2>2, <3>1, <3>3, OtherKeepsShape DEF Moves, Task
    <3>4. QED
      BY <3>2, <3>3
  <2>3. QED
    BY <1>12, <2>1, <2>2 DEF StopInterrupted
<1>13. ASSUME NEW t \in Task, Drained(t)
       PROVE  Shape'
  <2>1. PICK pending : StopBelow(t, ModuleCount + 1, module, pending)
    BY <1>13 DEF Drained
  <2>2. /\ pc[t] = "draining" /\ pc[Main] = "done"
        /\ UNCHANGED <<shutdown, mainLoop>>
    BY <1>13 DEF Drained
  <2>3. t # Main
    BY <2>2
  <2>4. QED
    BY <2>1, <2>2, <2>3, StopBelowShape
<1>14. ASSUME NEW t \in Signaller, Signal(t)
       PROVE  Shape'
  <2>1. t \in Task
    BY DEF Task
  <2>2. Stop(t, mainLoop) /\ UNCHANGED mainLoop
    BY <1>14 DEF Signal
  <2>3. Moves(t, {"done", "stopping", "draining"})
    BY <2>1, <2>2, StopMoves DEF Inv
  <2>4. shutdown => shutdown'
    BY <2>2 DEF Stop
  <2>5. pc'[t] = "stopping" => pc[Main] \in {"stopping", "done"}
    <3>1. CASE ~running
      <4>1. Return(t)
        BY <2>2, <3>1 DEF Stop
      <4>2. pc'[t] = "done"
        BY <2>1, <4>1, ReturnMoves DEF Inv, Moves
      <4>3. QED
        BY <4>2
    <3>2. CASE running /\ mainLoop
      <4>1. Suspend(t, "draining", 0)
        BY <2>2, <3>2 DEF Stop
      <4>2. pc'[t] = "draining"
        BY <2>1, <4>1, SuspendMoves DEF Inv, Moves, TaskPC
      <4>3. QED
        BY <4>2
    <3>3. CASE running /\ ~mainLoop
      BY <3>3, MainIsATask
      DEF Inv, Placed, TaskPC, NotYetRunning, Shape, Roles, Looping
    <3>4. QED
      BY <3>1, <3>2, <3>3
  <2>6. QED
    BY <2>2, <2>3, <2>4, <2>5, OtherKeepsShape
<1>15. ASSUME NEW t \in Signaller, DrainTimesOut(t)
       PROVE  Shape'
  BY <1>15 DEF DrainTimesOut, Shape, Roles, Begun, Looping
<1>16. CASE Crash
  BY <1>16, MainIsATask DEF Crash, Shape, Roles, Begun, Looping, Task
<1>17. CASE UNCHANGED vars
  BY <1>17 DEF vars, procVars, Shape, Roles, Begun, Looping
<1>18. CASE MainStep
  BY <1>18, <1>2, <1>3, <1>4, <1>5, <1>6, <1>7, <1>8, <1>9, <1>10 DEF MainStep
<1>19. QED
  BY <1>1, <1>11, <1>12, <1>13, <1>14, <1>15, <1>16, <1>17, <1>18 DEF Next, StopStep

-------------------------------------------------------------------------------
(* What is up while the main task starts modules and runs cycles *)

\* Module m is as the startup order wants it: a critical one is up, and one that is up
\* stands on modules that are.
Grounded(m, status) ==
    /\ m \in Critical => status[m] = "RUNNING"
    /\ status[m] = "RUNNING" => DependenciesUp(m, status)

Settled(status) ==
    \A m \in Module : Grounded(m, status) /\ status[m] \notin {"STOPPING", "STOPPED"}

\* start_all has gone through the modules up to k
SettledUpTo(k, status) ==
    \A m \in Module :
        /\ status[m] \notin {"STOPPING", "STOPPED"}
        /\ m =< k => Grounded(m, status)
        /\ m > k => /\ status[m] \in {"NOT_STARTED", "ABSENT"}
                    /\ m \in Critical => status[m] = "NOT_STARTED"

\* the module that is starting completes the ground if it comes up
Starting ==
    pc[Main] = "starting" =>
        /\ at[Main] \in Module
        /\ SettledUpTo(at[Main], [module EXCEPT ![at[Main]] = "RUNNING"])

Fresh == pc[Main] \in {"booting", "starting"} => state \in {"INITIALIZING", "EMERGENCY_STOP"}

Cycling == pc[Main] \in {"stage", "sleep"} => Settled(module)

TradingUp ==
    pc[Main] = "stage" /\ at[Main] \in Trading =>
        \A m \in Module : module[m] \in {"RUNNING", "ABSENT"}

Grounds == Starting /\ Fresh /\ Cycling /\ TradingUp

\* A module depends on earlier modules only.
LEMMA DependenciesAreEarlier ==
  ASSUME NEW m \in Module, NEW d \in Dependencies[m]
  PROVE  d \in Module /\ d < m
  BY OrchestratorAssumption

\* A step that leaves the main task neither starting nor in its loop has nothing to show.
LEMMA OutsideGrounds ==
  ASSUME NEW where \in SUBSET (TaskPC \ {"booting", "starting", "stage", "sleep"}),
         Moves(Main, where)
  PROVE  Grounds'
  BY DEF Moves, Grounds, Starting, Fresh, Cycling, TradingUp

\* A cycle that begins with a trading stage has every module that exists up.
LEMMA BeginCycleIsSafe ==
  ASSUME ProcessTypeOK, NEW status, BeginCycle(status),
         pc'[Main] = "stage", at'[Main] \in Trading
  PROVE  \A m \in Module : status[m] \in {"RUNNING", "ABSENT"}
<1>1. PICK clear \in BOOLEAN :
        LET stages == StagesAfter(0, status, clear)
        IN  IF stages = {} THEN Suspend(Main, "sleep", 0)
            ELSE Suspend(Main, "stage", Min(stages))
  BY DEF BeginCycle
<1> DEFINE stages == StagesAfter(0, status, clear)
<1>2. stages # {}
  BY <1>1, MainIsATask DEF Suspend, ProcessTypeOK
<1>3. Suspend(Main, "stage", Min(stages))
  BY <1>1, <1>2
<1>4. at'[Main] = Min(stages)
  BY <1>3, MainIsATask DEF Suspend, ProcessTypeOK
<1>5. stages \subseteq Stage
  BY DEF StagesAfter
<1>6. Min(stages) \in stages
  BY <1>2, <1>5, FirstIsStage
<1>7. QED
  BY <1>4, <1>6 DEF StagesAfter, CanTrade

\* A startup that goes on from a settled prefix keeps it settled, and one that is
\* through has settled everything.
LEMMA StartAboveGrounds ==
  ASSUME Inv, ProcessTypeOK, NEW k \in Nat, NEW status \in ModuleMap,
         SettledUpTo(k, status), StartAbove(k, status),
         state \in {"INITIALIZING", "EMERGENCY_STOP"}
  PROVE  Grounds'
<1> DEFINE left == {n \in Module : /\ n > k
                                   /\ status[n] = "NOT_STARTED"
                                   /\ n \in Critical \/ DependenciesUp(n, status)}
           next == Min(left)
<1>1. CASE StartupFails(status)
  <2>1. Moves(Main, {"done"})
    BY <1>1, StartupFailsMoves DEF Inv
  <2>2. QED
    BY <2>1, OutsideGrounds DEF TaskPC
<1>2. CASE left = {} /\ StartupCompletes(status)
  <2>1. Settled(status)
    <3> SUFFICES ASSUME NEW m \in Module
                 PROVE  Grounded(m, status) /\ status[m] \notin {"STOPPING", "STOPPED"}
      BY DEF Settled
    <3>1. CASE m =< k
      BY <3>1 DEF SettledUpTo
    <3>2. CASE m > k
      <4>1. m \notin Critical
        BY <1>2, <3>2 DEF SettledUpTo
      <4>2. status[m] \in {"NOT_STARTED", "ABSENT"}
        BY <3>2 DEF SettledUpTo
      <4>3. QED
        BY <4>1, <4>2 DEF Grounded
    <3>3. QED
      BY <3>1, <3>2 DEF Module
  <2>2. module' = status /\ BeginCycle(status)
    BY <1>2 DEF StartupCompletes
  <2>3. Moves(Main, {"sleep", "stage"})
    BY <2>2, BeginCycleMoves DEF Inv
  <2>4. Settled(module')
    BY <2>1, <2>2
  <2>5. pc'[Main] = "stage" /\ at'[Main] \in Trading =>
            \A m \in Module : module'[m] \in {"RUNNING", "ABSENT"}
    BY <2>2, BeginCycleIsSafe
  <2>6. Cycling' /\ TradingUp'
    BY <2>4, <2>5 DEF Cycling, TradingUp, Settled, Grounded, DependenciesUp
  <2>7. Starting' /\ Fresh'
    BY <2>3 DEF Moves, Starting, Fresh
  <2>8. QED
    BY <2>6, <2>7 DEF Grounds
<1>3. CASE /\ left # {}
           /\ DependenciesUp(next, status)
           /\ module' = [status EXCEPT ![next] = "STARTING"]
           /\ Suspend(Main, "starting", next)
           /\ UNCHANGED <<smVars, running, shutdown, mainLoop, cancelled, signalled>>
  <2>1. next \in left /\ next \in Module /\ \A n \in left : next =< n
    BY <1>3, FirstIsModule
  <2>2. pc'[Main] = "starting" /\ at'[Main] = next
    BY <1>3, MainIsATask DEF Suspend, ProcessTypeOK
  <2> DEFINE after == [status EXCEPT ![next] = "RUNNING"]
  <2>3. [module' EXCEPT ![next] = "RUNNING"] = after
    BY <1>3, <2>1 DEF ModuleMap
  <2> HIDE DEF next
  <2>4. /\ after[next] = "RUNNING"
        /\ \A m \in Module : m # next => after[m] = status[m]
    BY <2>1 DEF ModuleMap
  <2>5. next > k /\ DependenciesUp(next, status)
    BY <1>3, <2>1
  <2> HIDE DEF after
  <2>6. SettledUpTo(next, after)
    <3> SUFFICES ASSUME NEW m \in Module
                 PROVE  /\ after[m] \notin {"STOPPING", "STOPPED"}
                        /\ m =< next => Grounded(m, after)
                        /\ m > next => /\ after[m] \in {"NOT_STARTED", "ABSENT"}
                                       /\ m \in Critical => after[m] = "NOT_STARTED"
      BY DEF SettledUpTo
    <3>0. m \in Nat /\ next \in Nat
      BY <2>1 DEF Module
    <3>1. ASSUME m =< next, DependenciesUp(m, status)
          PROVE  DependenciesUp(m, after)
      <4>1. \A d \in Dependencies[m] : d \in Module /\ d # next
        BY <3>0, <3>1, DependenciesAreEarlier DEF Module
      <4>2. QED
        BY <2>4, <3>1, <4>1 DEF DependenciesUp
    <3>2. CASE m = next
      BY <2>4, <2>5, <3>0, <3>1, <3>2 DEF Grounded
    <3>3. CASE m =< k
      <4>1. m # next /\ m =< next
        BY <2>5, <3>0, <3>3
      <4>2. Grounded(m, status) /\ status[m] \notin {"STOPPING", "STOPPED"}
        BY <3>3 DEF SettledUpTo
      <4>3. QED
        BY <2>4, <3>0, <3>1, <4>1, <4>2 DEF Grounded
    <3>4. CASE m > k /\ m < next
      <4>1. m \notin left
        BY <2>1, <3>0, <3>4
      <4>2. /\ status[m] \in {"NOT_STARTED", "ABSENT"}
            /\ m \in Critical => status[m] = "NOT_STARTED"
        BY <3>4 DEF SettledUpTo
      <4>3. m \notin Critical
        BY <3>4, <4>1, <4>2
      <4>4. after[m] = status[m]
        BY <2>4, <3>0, <3>4
      <4>5. QED
        BY <3>0, <3>4, <4>2, <4>3, <4>4 DEF Grounded
    <3>5. CASE m > next
      <4>1. m > k /\ m # next
        BY <2>5, <3>0, <3>5
      <4>2. QED
        BY <2>4, <3>0, <3>5, <4>1 DEF SettledUpTo
    <3>6. QED
      BY <3>0, <3>2, <3>3, <3>4, <3>5
  <2>7. Starting'
    <3>1. SettledUpTo(at'[Main], [module' EXCEPT ![at'[Main]] = "RUNNING"])
      BY <2>2, <2>3, <2>6
    <3>2. QED
      BY <2>1, <2>2, <3>1 DEF Starting, SettledUpTo, Grounded, DependenciesUp
  <2>8. Fresh' /\ Cycling' /\ TradingUp'
    BY <1>3, <2>2 DEF Fresh, Cycling, TradingUp, smVars
  <2>9. QED
    BY <2>7, <2>8 DEF Grounds
<1>4. QED
  BY <1>1, <1>2, <1>3 DEF StartAbove

\* A signal's task that moves on leaves the ground of the main task as it is.
LEMMA OtherKeepsGrounds ==
  ASSUME Grounds, NEW t \in Signaller, NEW where, Moves(t, where),
         \/ pc[Main] \notin {"booting", "starting", "stage", "sleep"}
         \/ UNCHANGED <<state, module>> /\ at'[Main] = at[Main]
  PROVE  Grounds'
<1>1. pc'[Main] = pc[Main]
  BY MainIsATask DEF Moves, Task
<1>2. CASE pc[Main] \notin {"booting", "starting", "stage", "sleep"}
  BY <1>1, <1>2 DEF Grounds, Starting, Fresh, Cycling, TradingUp
<1>3. CASE UNCHANGED <<state, module>> /\ at'[Main] = at[Main]
  BY <1>1, <1>3 DEF Grounds, Starting, Fresh, Cycling, TradingUp,
                    Settled, SettledUpTo, Grounded, DependenciesUp
<1>4. QED
  BY <1>2, <1>3

\* The loop is left.
LEMMA LeaveLoopGrounds ==
  ASSUME Inv, LeaveLoop
  PROVE  Grounds'
<1>1. Moves(Main, {"done", "stopping"})
  BY LeaveLoopMoves DEF Inv
<1>2. QED
  BY <1>1, OutsideGrounds DEF TaskPC

\* A cycle ends with the modules as they were.
LEMMA CycleEndsGrounds ==
  ASSUME Inv, Grounds, CycleEnds, pc[Main] = "stage"
  PROVE  Grounds'
<1>1. CASE LeaveLoop
  BY <1>1, LeaveLoopGrounds
<1>2. CASE Suspend(Main, "sleep", 0) /\ UNCHANGED module
  <2>1. Moves(Main, {"sleep"})
    BY <1>2, SuspendMoves, MainIsATask DEF TaskPC, Inv
  <2>2. QED
    BY <1>2, <2>1 DEF Moves, Grounds, Starting, Fresh, Cycling, TradingUp,
                      Settled, Grounded, DependenciesUp
<1>3. QED
  BY <1>1, <1>2 DEF CycleEnds

GroundInv == Inv /\ ProcessTypeOK /\ Shape /\ Grounds

\* Every step keeps the ground.
LEMMA StepGrounds == GroundInv /\ [Next]_vars => Grounds'
<1> SUFFICES ASSUME GroundInv, [Next]_vars
             PROVE  Grounds'
  OBVIOUS
<1> USE DEF GroundInv
<1>1. CASE Boot
  <2>1. pc'[Main] = "booting" /\ state' \in {"INITIALIZING", "EMERGENCY_STOP"}
    BY <1>1, MainIsATask DEF Boot, RestoreState, Restored
  <2>2. QED
    BY <2>1 DEF Grounds, Starting, Fresh, Cycling, TradingUp
<1>2. ASSUME NEW status, StartupFails(status)
      PROVE  Grounds'
  <2>1. Moves(Main, {"done"})
    BY <1>2, StartupFailsMoves DEF Inv
  <2>2. QED
    BY <2>1, OutsideGrounds DEF TaskPC
<1>3. CASE Refuse
  BY <1>3, <1>2 DEF Refuse
<1>4. CASE Instantiate
  <2>1. PICK failed \in SUBSET Module :
          LET status == [m \in Module |-> IF m \in failed THEN "ABSENT" ELSE "NOT_STARTED"]
          IN  \/ failed \cap Critical = {} /\ StartAbove(0, status)
              \/ StartupFails(status)
    BY <1>4 DEF Instantiate
  <2> DEFINE status == [m \in Module |-> IF m \in failed THEN "ABSENT" ELSE "NOT_STARTED"]
  <2>2. CASE StartupFails(status)
    BY <1>2, <2>2
  <2>3. CASE failed \cap Critical = {} /\ StartAbove(0, status)
    <3>1. status \in ModuleMap
      BY DEF ModuleMap, ModuleStatus
    <3>2. SettledUpTo(0, status)
      BY <2>3 DEF SettledUpTo, Module
    <3>3. state \in {"INITIALIZING", "EMERGENCY_STOP"}
      BY <1>4 DEF Instantiate, Grounds, Fresh
    <3> HIDE DEF status
    <3>4. QED
      BY <2>3, <3>1, <3>2, <3>3, StartAboveGrounds
  <2>4. QED
    BY <2>1, <2>2, <2>3
<1>5. ASSUME pc[Main] = "starting"
      PROVE  /\ at[Main] \in Module /\ at[Main] \in Nat
             /\ SettledUpTo(at[Main], [module EXCEPT ![at[Main]] = "RUNNING"])
             /\ state \in {"INITIALIZING", "EMERGENCY_STOP"}
             /\ module \in ModuleMap
  BY <1>5 DEF Grounds, Starting, Fresh, Module, ProcessTypeOK
<1>6. CASE ModuleStarts
  <2>1. pc[Main] = "starting" /\ StartAbove(at[Main], [module EXCEPT ![at[Main]] = "RUNNING"])
    BY <1>6 DEF ModuleStarts
  <2>2. [module EXCEPT ![at[Main]] = "RUNNING"] \in ModuleMap
    BY <1>5, <2>1 DEF ModuleMap, ModuleStatus
  <2>3. /\ at[Main] \in Nat
        /\ SettledUpTo(at[Main], [module EXCEPT ![at[Main]] = "RUNNING"])
        /\ state \in {"INITIALIZING", "EMERGENCY_STOP"}
    BY <1>5, <2>1
  <2>4. QED
    BY <2>1, <2>2, <2>3, StartAboveGrounds
<1>7. CASE ModuleStartFails
  <2> DEFINE m0 == at[Main]
             up == [module EXCEPT ![m0] = "RUNNING"]
             down == [module EXCEPT ![m0] = "ERROR"]
  <2>1. /\ pc[Main] = "starting"
        /\ \/ StartupFails(down)
           \/ m0 \notin Critical /\ StartAbove(m0, down)
    BY <1>7 DEF ModuleStartFails
  <2>2. CASE StartupFails(down)
    BY <1>2, <2>2
  <2>3. CASE m0 \notin Critical /\ StartAbove(m0, down)
    <3>1. /\ m0 \in Module /\ m0 \in Nat /\ SettledUpTo(m0, up)
          /\ state \in {"INITIALIZING", "EMERGENCY_STOP"} /\ module \in ModuleMap
      BY <1>5, <2>1
    <3>2. down \in ModuleMap
      BY <3>1 DEF ModuleMap, ModuleStatus
    <3>3. /\ down[m0] = "ERROR"
          /\ \A m \in Module : m # m0 => down[m] = up[m]
      BY <3>1 DEF ModuleMap
    <3> HIDE DEF m0, up, down
    <3>4. SettledUpTo(m0, down)
      <4> SUFFICES ASSUME NEW m \in Module
                   PROVE  /\ down[m] \notin {"STOPPING", "STOPPED"}
                          /\ m =< m0 => Grounded(m, down)
                          /\ m > m0 => /\ down[m] \in {"NOT_STARTED", "ABSENT"}
                                       /\ m \in Critical => down[m] = "NOT_STARTED"
        BY DEF SettledUpTo
      <4>0. m \in Nat
        BY DEF Module
      <4>1. CASE m = m0
        BY <2>3, <3>1, <3>3, <4>1 DEF Grounded
      <4>2. CASE m < m0
        <5>1. \A d \in Dependencies[m] : d \in Module /\ d # m0
          BY <3>1, <4>0, <4>2, DependenciesAreEarlier DEF Module
        <5>2. Grounded(m, up) /\ up[m] \notin {"STOPPING", "STOPPED"}
          BY <3>1, <4>0, <4>2 DEF SettledUpTo
        <5>3. down[m] = up[m]
          BY <3>1, <3>3, <4>0, <4>2
        <5>4. DependenciesUp(m, up) => DependenciesUp(m, down)
          BY <3>3, <5>1 DEF DependenciesUp
        <5>5. QED
          BY <3>1, <4>0, <4>2, <5>2, <5>3, <5>4 DEF Grounded
      <4>3. CASE m > m0
        BY <3>1, <3>3, <4>0, <4>3 DEF SettledUpTo
      <4>4. QED
        BY <3>1, <4>0, <4>1, <4>2, <4>3
    <3>5. QED
      BY <2>3, <3>1, <3>2, <3>4, StartAboveGrounds
  <2>4. QED
    BY <2>1, <2>2, <2>3
<1>8. CASE StageSucceeds
  <2>1. PICK clear \in BOOLEAN :
          LET stages == StagesAfter(at[Main], module, clear)
          IN  IF stages = {} THEN CycleEnds
              ELSE Suspend(Main, "stage", Min(stages)) /\ UNCHANGED <<smVars, module>>
    BY <1>8 DEF StageSucceeds
  <2> DEFINE stages == StagesAfter(at[Main], module, clear)
  <2>2. CASE stages = {}
    BY <1>8, <2>1, <2>2, CycleEndsGrounds DEF StageSucceeds
  <2>3. CASE stages # {}
    <3>1. Suspend(Main, "stage", Min(stages)) /\ UNCHANGED <<smVars, module>>
      BY <2>1, <2>3
    <3>2. Moves(Main, {"stage"}) /\ at'[Main] = Min(stages)
      BY <3>1, SuspendMoves, MainIsATask DEF Suspend, TaskPC, Inv, ProcessTypeOK
    <3>3. stages \subseteq Stage
      BY DEF StagesAfter
    <3>4. Min(stages) \in stages
      BY <2>3, <3>3, FirstIsStage
    <3>5. Min(stages) \in Trading => \A m \in Module : module[m] \in {"RUNNING", "ABSENT"}
      BY <3>4 DEF StagesAfter, CanTrade
    <3>6. Settled(module)
      BY <1>8 DEF StageSucceeds, Grounds, Cycling
    <3> HIDE DEF stages
    <3>7. QED
      BY <3>1, <3>2, <3>5, <3>6
      DEF Moves, Grounds, Starting, Fresh, Cycling, TradingUp,
          Settled, Grounded, DependenciesUp
  <2>4. QED
    BY <2>2, <2>3
<1>9. CASE StageFails
  BY <1>9, CycleEndsGrounds DEF StageFails
<1>10. CASE StageFailsForGood
  <2>1. Moves(Main, {"done", "halting"})
    BY <1>10, HaltBelowMoves DEF StageFailsForGood, Emergency, Inv
  <2>2. QED
    BY <2>1, OutsideGrounds DEF TaskPC
<1>11. CASE LoopCancelled
  BY <1>11, LeaveLoopGrounds DEF LoopCancelled
<1>12. CASE SleepEnds
  <2>1. CASE LeaveLoop
    BY <2>1, LeaveLoopGrounds
  <2>2. CASE BeginCycle(module) /\ UNCHANGED module
    <3>1. Moves(Main, {"sleep", "stage"})
      BY <2>2, BeginCycleMoves DEF Inv
    <3>2. Settled(module)
      BY <1>12 DEF SleepEnds, Grounds, Cycling
    <3>3. pc'[Main] = "stage" /\ at'[Main] \in Trading =>
              \A m \in Module : module[m] \in {"RUNNING", "ABSENT"}
      BY <2>2, BeginCycleIsSafe
    <3>4. QED
      BY <2>2, <3>1, <3>2, <3>3
      DEF Moves, Grounds, Starting, Fresh, Cycling, TradingUp,
          Settled, Grounded, DependenciesUp
  <2>3. QED
    BY <1>12, <2>1, <2>2 DEF SleepEnds
<1>13. ASSUME NEW t \in Task, NEW m, NEW status, NEW pending,
              StopBelow(t, m, status, pending), pc[Main] \in {"stopping", "done"}
       PROVE  Grounds'
  <2>1. Moves(t, {"done", "stopping"})
    BY <1>13, StopBelowMoves DEF Inv
  <2>2. CASE t = Main
    BY <2>1, <2>2, OutsideGrounds DEF TaskPC
  <2>3. CASE t # Main
    <3>1. t \in Signaller
      BY <2>3 DEF Task
    <3>2. QED
      BY <1>13, <2>1, <3>1, OtherKeepsGrounds
  <2>4. QED
    BY <2>2, <2>3
<1>14. ASSUME NEW t \in Task, ModuleStops(t)
       PROVE  Grounds'
  <2>1. PICK status \in {"STOPPED", "ERROR"}, pending \in {cancelled, cancelled \ {t}} :
          LET after == [module EXCEPT ![at[t]] = status]
          IN  \/ pc[t] = "stopping" /\ StopBelow(t, at[t], after, pending)
              \/ HaltBelow(at[t], after, pending)
    BY <1>14 DEF ModuleStops
  <2>2. CASE pc[t] = "stopping"
             /\ StopBelow(t, at[t], [module EXCEPT ![at[t]] = status], pending)
    <3>1. pc[Main] \in {"stopping", "done"}
      BY <2>2 DEF Shape, Roles, Task
    <3>2. QED
      BY <1>13, <2>2, <3>1
  <2>3. CASE HaltBelow(at[t], [module EXCEPT ![at[t]] = status], pending)
    <3>1. Moves(Main, {"done", "halting"})
      BY <2>3, HaltBelowMoves DEF Inv
    <3>2. QED
      BY <3>1, OutsideGrounds DEF TaskPC
  <2>4. QED
    BY <2>1, <2>2, <2>3
<1>15. ASSUME NEW t \in Task, StopInterrupted(t)
       PROVE  Grounds'
  <2>1. CASE LeaveLoop
    BY <2>1, LeaveLoopGrounds
  <2>2. CASE pc[t] = "stopping" /\ Return(t)
    <3>1. Moves(t, {"done"})
      BY <2>2, ReturnMoves DEF Inv
    <3>2. pc[Main] \in {"stopping", "done"}
      BY <2>2 DEF Shape, Roles, Task
    <3>3. CASE t = Main
      BY <3>1, <3>3, OutsideGrounds DEF TaskPC
    <3>4. CASE t # Main
      BY <3>1, <3>2, <3>4, OtherKeepsGrounds DEF Task
    <3>5. QED
      BY <3>3, <3>4
  <2>3. QED
    BY <1>15, <2>1, <2>2 DEF StopInterrupted
<1>16. ASSUME NEW t \in Task, Drained(t)
       PROVE  Grounds'
  <2>1. PICK pending : StopBelow(t, ModuleCount + 1, module, pending)
    BY <1>16 DEF Drained
  <2>2. QED
    BY <1>13, <1>16, <2>1 DEF Drained
<1>17. ASSUME NEW t \in Signaller, Signal(t)
       PROVE  Grounds'
  <2>1. t \in Task /\ t # Main
    BY MainIsATask DEF Task
  <2>2. Stop(t, mainLoop)
    BY <1>17 DEF Signal
  <2>3. Moves(t, {"done", "stopping", "draining"})
    BY <2>1, <2>2, StopMoves DEF Inv
  <2>4. ASSUME NEW where, NEW what, Suspend(t, where, what)
        PROVE  at'[Main] = at[Main]
    BY <2>1, <2>4, MainIsATask DEF Suspend, ProcessTypeOK
  <2>5. CASE ~running
    <3>1. UNCHANGED <<state, module>> /\ Suspend(t, "done", 0)
      BY <2>2, <2>5 DEF Stop, Return, smVars
    <3>2. at'[Main] = at[Main]
      BY <2>4, <3>1
    <3>3. QED
      BY <2>3, <3>1, <3>2, OtherKeepsGrounds
  <2>6. CASE running /\ mainLoop
    <3>1. UNCHANGED <<state, module>> /\ Suspend(t, "draining", 0)
      BY <2>2, <2>6 DEF Stop, smVars
    <3>2. at'[Main] = at[Main]
      BY <2>4, <3>1
    <3>3. QED
      BY <2>3, <3>1, <3>2, OtherKeepsGrounds
  <2>7. CASE running /\ ~mainLoop
    <3>1. pc[Main] \notin {"booting", "starting", "stage", "sleep"}
      BY <2>7 DEF Inv, NotYetRunning, Shape, Looping
    <3>2. QED
      BY <2>3, <3>1, OtherKeepsGrounds
  <2>8. QED
    BY <2>5, <2>6, <2>7
<1>18. ASSUME NEW t \in Signaller, DrainTimesOut(t)
       PROVE  Grounds'
  BY <1>18 DEF DrainTimesOut, smVars, Grounds, Starting, Fresh, Cycling, TradingUp,
               Settled, SettledUpTo, Grounded, DependenciesUp
<1>19. CASE Crash
  <2>1. pc'[Main] = "off"
    BY <1>19, MainIsATask DEF Crash
  <2>2. QED
    BY <2>1 DEF Grounds, Starting, Fresh, Cycling, TradingUp
<1>20. CASE UNCHANGED vars
  BY <1>20 DEF vars, procVars, smVars, Grounds, Starting, Fresh, Cycling, TradingUp,
               Settled, SettledUpTo, Grounded, DependenciesUp
<1>21. CASE MainStep
  BY <1>21, <1>3, <1>4, <1>6, <1>7, <1>8, <1>9, <1>10, <1>11, <1>12 DEF MainStep
<1>22. QED
  BY <1>1, <1>14, <1>15, <1>16, <1>17, <1>18, <1>19, <1>20, <1>21 DEF Next, StopStep

\* All of the above holds of every state the process reaches.
LEMMA GroundsHold == Spec => []GroundInv
<1>1. Init => GroundInv
  <2> SUFFICES ASSUME Init
               PROVE  GroundInv
    OBVIOUS
  <2>1. pc[Main] = "off" /\ \A t \in Signaller : pc[t] = "idle"
    BY MainIsATask DEF Init, Task
  <2>2. Inv
    BY MainIsATask DEF Init, Inv, Placed, TaskPC, NotYetRunning
  <2>3. ProcessTypeOK
    BY MainIsATask, Positions DEF Init, ProcessTypeOK, ModuleMap, ModuleStatus, TaskPC
  <2>4. Shape /\ Grounds
    BY <2>1 DEF Shape, Roles, Begun, Looping,
                Grounds, Starting, Fresh, Cycling, TradingUp
  <2>5. QED
    BY <2>2, <2>3, <2>4 DEF GroundInv
<1>2. GroundInv /\ [Next]_vars => GroundInv'
  BY StepSound, StepTyped, StepShape, StepGrounds DEF Sound, GroundInv
<1>3. QED
  BY <1>1, <1>2, PTL DEF Spec

\* While the system is RUNNING and no shutdown has begun, every critical module and
\* every dependency of a module that is up is up, whatever fails to start:
\* core.py:487-502, registry.py:374-391.
THEOREM CriticalModulesUpHolds == Spec => []CriticalModulesUp
<1>1. GroundInv => CriticalModulesUp
  <2> SUFFICES ASSUME GroundInv, Alive, state = "RUNNING", ~shutdown
               PROVE  \A m \in Module : Grounded(m, module)
    BY DEF CriticalModulesUp, Grounded
  <2>1. pc[Main] \in {"stage", "sleep"}
    BY MainIsATask
    DEF GroundInv, Inv, Placed, TaskPC, Alive, Shape, Roles, Begun, Grounds, Fresh
  <2>2. QED
    BY <2>1 DEF GroundInv, Grounds, Cycling, Settled
<1>2. QED
  BY <1>1, GroundsHold, PTL

\* No module is stopped under a stage, and a trading stage has every module that exists
\* up, however many signals arrive: core.py:351-380, 524-576.
THEOREM StageKeepsModulesHolds == Spec => []StageKeepsModules
<1>1. GroundInv => StageKeepsModules
  BY DEF GroundInv, Grounds, Cycling, TradingUp, Settled, StageKeepsModules
<1>2. QED
  BY <1>1, GroundsHold, PTL
-------------------------------------------------------------------------------
(* How long a shutdown takes *)

Leaving == {"stage", "sleep", "halting", "stopping", "draining"}

\* the steps a task makes at most once a shutdown was requested: below the module it is
\* stopping there are no more than its number
StepsLeft(t) ==
    CASE pc[t] = "stopping" -> at[t]
      [] pc[t] = "draining" -> ModuleCount + 1
      [] pc[t] = "halting"  -> ModuleCount + 1 + at[t]
      [] pc[t] = "sleep"    -> 2 * ModuleCount + 2
      [] pc[t] = "stage"    -> 2 * ModuleCount + 3 + StageCount - at[t]
      [] OTHER              -> 0

Most == 2 * ModuleCount + 3 + StageCount

\* A task stops a module, and runs a stage, that exist.
Place(t) ==
    /\ pc[t] \in {"stopping", "halting"} => at[t] \in Module
    /\ pc[t] = "stage" => at[t] \in Stage
Places == \A t \in Task : Place(t)

Advances(t) ==
    shutdown /\ pc[t] \in Leaving /\ <<pc'[t], at'[t]>> # <<pc[t], at[t]>>
        => StepsLeft(t)' < StepsLeft(t)

\* No task has more than so many steps to make in a shutdown.
ShutdownBounded == \A t \in Task : StepsLeft(t) \in 0 .. Most

\* Each step of a task in a shutdown leaves it fewer.
ShutdownAdvances == [][\A t \in Task : Advances(t)]_vars

\* guards: task t can do its next step of a shutdown, or waits for nobody but the main task
GoesOn(t) ==
    \/ t = Main /\ pc[t] \in {"stage", "sleep"}
    \/ pc[t] \in {"stopping", "halting"}
    \/ pc[t] = "draining" /\ pc[Main] = "done"

\* The main task goes on, and once it is done every other task does.
ShutdownMovesOn ==
    shutdown =>
        /\ Alive => GoesOn(Main)
        /\ pc[Main] = "done" => \A t \in Signaller : pc[t] \in {"idle", "done"} \/ GoesOn(t)

\* A shutdown is not called off while the process lives.
ShutdownLasts == [][shutdown /\ Alive /\ Alive' => shutdown']_vars

\* Task t, and no other, moves, to a place with n steps left at most.
Lands(t, n) ==
    /\ \A u \in Task \ {t} : pc'[u] = pc[u] /\ at'[u] = at[u]
    /\ Place(t)'
    /\ StepsLeft(t)' \in 0 .. n

LEMMA Counts == ModuleCount \in Nat /\ StageCount \in Nat
  BY OrchestratorAssumption

LEMMA StepsLeftBounded ==
  ASSUME NEW t \in Task, Place(t)
  PROVE  StepsLeft(t) \in 0 .. Most
<1>1. pc[t] \in {"stopping", "halting"} => at[t] \in 1 .. ModuleCount
  BY DEF Place, Module
<1>2. pc[t] = "stage" => at[t] \in 1 .. StageCount
  BY DEF Place, Stage
<1>3. QED
  BY <1>1, <1>2, Counts DEF StepsLeft, Most

\* A task suspended elsewhere than at a stage.
LEMMA SuspendLands ==
  ASSUME ProcessTypeOK, NEW t \in Task, NEW where \in {"sleep", "draining", "done", "starting"},
         NEW what, NEW n \in Nat, Suspend(t, where, what),
         where = "sleep" => n = Most, where = "draining" => n = ModuleCount + 1
  PROVE  Lands(t, n)
<1>1. /\ pc'[t] = where /\ \A u \in Task \ {t} : pc'[u] = pc[u] /\ at'[u] = at[u]
  BY DEF Suspend, ProcessTypeOK
<1>2. Place(t)'
  BY <1>1 DEF Place
<1>3. StepsLeft(t)' \in 0 .. n
  <2>1. CASE where = "sleep"
    <3>1. StepsLeft(t)' = 2 * ModuleCount + 2
      BY <1>1, <2>1 DEF StepsLeft
    <3>2. QED
      BY <2>1, <3>1, Counts DEF Most
  <2>2. CASE where = "draining"
    <3>1. StepsLeft(t)' = ModuleCount + 1
      BY <1>1, <2>2 DEF StepsLeft
    <3>2. QED
      BY <2>2, <3>1, Counts
  <2>3. CASE where \in {"done", "starting"}
    BY <1>1, <2>3 DEF StepsLeft
  <2>4. QED
    BY <2>1, <2>2, <2>3
<1>4. QED
  BY <1>1, <1>2, <1>3 DEF Lands

LEMMA StageLands ==
  ASSUME ProcessTypeOK, NEW k \in Stage, Suspend(Main, "stage", k)
  PROVE  Lands(Main, Most)
<1>1. /\ pc'[Main] = "stage" /\ at'[Main] = k
      /\ \A u \in Task \ {Main} : pc'[u] = pc[u] /\ at'[u] = at[u]
  BY MainIsATask DEF Suspend, ProcessTypeOK
<1>2. StepsLeft(Main)' = 2 * ModuleCount + 3 + StageCount - k
  BY <1>1 DEF StepsLeft
<1>3. QED
  BY <1>1, <1>2, Counts DEF Lands, Place, Most, Stage

LEMMA ReturnLands ==
  ASSUME ProcessTypeOK, NEW t \in Task, Return(t), NEW n \in Nat
  PROVE  Lands(t, n)
  BY SuspendLands DEF Return

\* The next module to stop comes before the last.
LEMMA LastIsBelow ==
  ASSUME NEW m \in Nat, NEW status,
         NEW left, left = {n \in Module : n < m /\ IsActive(status[n])}, left # {}
  PROVE  Max(left) \in Module /\ Max(left) < m
<1>1. left \in SUBSET Module
  OBVIOUS
<1>2. Max(left) \in left
  BY <1>1, LastIsModule
<1>3. QED
  BY <1>2

LEMMA StopModuleLands ==
  ASSUME ProcessTypeOK, NEW t \in Task, NEW m \in Module, NEW status,
         NEW where \in {"stopping", "halting"}, StopModule(t, m, status, where)
  PROVE  Lands(t, IF where = "stopping" THEN m ELSE ModuleCount + 1 + m)
<1>1. /\ pc'[t] = where /\ at'[t] = m
      /\ \A u \in Task \ {t} : pc'[u] = pc[u] /\ at'[u] = at[u]
  BY DEF StopModule, Suspend, ProcessTypeOK
<1>2. m \in Nat
  BY DEF Module
<1>3. StepsLeft(t)' = IF where = "stopping" THEN m ELSE ModuleCount + 1 + m
  BY <1>1 DEF StepsLeft
<1>4. QED
  BY <1>1, <1>2, <1>3, Counts DEF Lands, Place

LEMMA LandsLower ==
  ASSUME NEW t \in Task, NEW n \in Nat, NEW k \in Nat, Lands(t, n), n <= k
  PROVE  Lands(t, k)
  BY DEF Lands

LEMMA StopBelowLands ==
  ASSUME ProcessTypeOK, NEW t \in Task, NEW n \in Nat, NEW status, NEW pending,
         StopBelow(t, n + 1, status, pending)
  PROVE  Lands(t, n)
<1> DEFINE left == {k \in Module : k < n + 1 /\ IsActive(status[k])}
<1>1. CASE left = {}
  <2>1. Return(t)
    BY <1>1 DEF StopBelow, StopCompletes
  <2>2. QED
    BY <2>1, ReturnLands
<1>2. CASE left # {}
  <2>1. StopModule(t, Max(left), status, "stopping")
    BY <1>2 DEF StopBelow
  <2>2. Max(left) \in Module /\ Max(left) < n + 1
    BY <1>2, LastIsBelow
  <2> HIDE DEF left
  <2>3. Lands(t, Max(left))
    BY <2>1, <2>2, StopModuleLands
  <2>4. Max(left) \in Nat /\ Max(left) <= n
    BY <2>2 DEF Module
  <2>5. QED
    BY <2>3, <2>4, LandsLower
<1>3. QED
  BY <1>1, <1>2

LEMMA HaltBelowLands ==
  ASSUME ProcessTypeOK, NEW n \in Nat, NEW status, NEW pending,
         HaltBelow(n + 1, status, pending)
  PROVE  Lands(Main, ModuleCount + 1 + n)
<1> DEFINE left == {k \in Module : k < n + 1 /\ IsActive(status[k])}
<1>1. CASE left = {}
  <2>1. Return(Main)
    BY <1>1 DEF HaltBelow
  <2>2. QED
    BY <2>1, ReturnLands, MainIsATask, Counts
<1>2. CASE left # {}
  <2>1. StopModule(Main, Max(left), status, "halting")
    BY <1>2 DEF HaltBelow
  <2>2. Max(left) \in Module /\ Max(left) < n + 1
    BY <1>2, LastIsBelow
  <2> HIDE DEF left
  <2>3. Lands(Main, ModuleCount + 1 + Max(left))
    BY <2>1, <2>2, StopModuleLands, MainIsATask
  <2>4. Max(left) \in Nat /\ Max(left) <= n
    BY <2>2 DEF Module
  <2>5. QED
    BY <2>3, <2>4, LandsLower, MainIsATask, Counts
<1>3. QED
  BY <1>1, <1>2

\* Who begins to stop has all modules ahead.
LEMMA StopLands ==
  ASSUME ProcessTypeOK, NEW t \in Task, NEW looping, Stop(t, looping)
  PROVE  Lands(t, IF looping THEN ModuleCount + 1 ELSE ModuleCount)
<1>1. CASE ~running
  BY <1>1, ReturnLands, Counts DEF Stop
<1>2. CASE running /\ looping
  BY <1>2, SuspendLands, Counts DEF Stop
<1>3. CASE running /\ ~looping
  <2>1. StopBelow(t, ModuleCount + 1, module, cancelled \ {t})
    BY <1>3 DEF Stop
  <2>2. Lands(t, ModuleCount)
    BY <2>1, StopBelowLands, Counts
  <2>3. QED
    BY <1>3, <2>2
<1>4. QED
  BY <1>1, <1>2, <1>3

LEMMA LeaveLoopLands == ASSUME ProcessTypeOK, LeaveLoop PROVE Lands(Main, ModuleCount)
  BY StopLands, MainIsATask DEF LeaveLoop

LEMMA BeginCycleLands ==
  ASSUME ProcessTypeOK, NEW status, BeginCycle(status) PROVE Lands(Main, Most)
<1>1. PICK clear \in BOOLEAN :
        LET stages == StagesAfter(0, status, clear)
        IN  IF stages = {} THEN Suspend(Main, "sleep", 0)
            ELSE Suspend(Main, "stage", Min(stages))
  BY DEF BeginCycle
<1> DEFINE stages == StagesAfter(0, status, clear)
<1>2. CASE stages = {}
  BY <1>1, <1>2, SuspendLands, MainIsATask, Counts DEF Most
<1>3. CASE stages # {}
  <2>1. stages \subseteq Stage
    BY DEF StagesAfter
  <2>2. Min(stages) \in Stage
    BY <1>3, <2>1, FirstIsStage
  <2>3. Suspend(Main, "stage", Min(stages))
    BY <1>1, <1>3
  <2>4. QED
    BY <2>2, <2>3, StageLands
<1>4. QED
  BY <1>2, <1>3

LEMMA StartAboveLands ==
  ASSUME ProcessTypeOK, NEW m, NEW status, StartAbove(m, status)
  PROVE  Lands(Main, Most)
<1>1. Most \in Nat
  BY Counts DEF Most
<1>2. CASE StartupCompletes(status)
  BY <1>2, BeginCycleLands DEF StartupCompletes
<1>3. CASE StartupFails(status)
  BY <1>1, <1>3, ReturnLands, MainIsATask DEF StartupFails
<1>4. CASE \E n : Suspend(Main, "starting", n)
  BY <1>1, <1>4, SuspendLands, MainIsATask
<1>5. QED
  BY <1>2, <1>3, <1>4 DEF StartAbove

Advanced == Places' /\ \A t \in Task : Advances(t)

\* What a step has to show of the task it moves.
LEMMA LandsAdvances ==
  ASSUME Places, NEW t \in Task, NEW n \in Nat, Lands(t, n),
         ~shutdown \/ pc[t] \notin Leaving \/ n < StepsLeft(t)
  PROVE  Advanced
<1>1. ASSUME NEW u \in Task \ {t} PROVE Place(u)' /\ Advances(u)
  BY <1>1 DEF Lands, Places, Place, Advances
<1>2. StepsLeft(t) \in Int
  BY StepsLeftBounded, Counts DEF Places, Most
<1>3. Advances(t)
  BY <1>2 DEF Lands, Advances
<1>4. QED
  BY <1>1, <1>3 DEF Advanced, Places, Lands

\* Main leaves the loop with more steps left than there are modules.
LEMMA InLoop ==
  ASSUME Places, pc[Main] \in {"stage", "sleep"}
  PROVE  /\ StepsLeft(Main) \in Nat
         /\ 2 * ModuleCount + 1 < StepsLeft(Main)
<1>1. pc[Main] = "stage" => at[Main] \in 1 .. StageCount
  BY MainIsATask DEF Places, Place, Stage
<1>2. QED
  BY <1>1, Counts DEF StepsLeft

LEMMA LeaveLoopAdvances ==
  ASSUME ProcessTypeOK, Places, LeaveLoop, pc[Main] \in {"stage", "sleep"} PROVE Advanced
<1>1. ModuleCount \in Nat /\ ModuleCount < StepsLeft(Main)
  BY InLoop, Counts
<1>2. QED
  BY <1>1, LeaveLoopLands, LandsAdvances, MainIsATask

LEMMA CycleEndsAdvances ==
  ASSUME ProcessTypeOK, Places, CycleEnds, pc[Main] = "stage" PROVE Advanced
<1>1. CASE KeepsGoing
  <2>1. Suspend(Main, "sleep", 0) /\ ~shutdown
    BY <1>1 DEF CycleEnds, KeepsGoing
  <2>2. Most \in Nat
    BY Counts DEF Most
  <2>3. Lands(Main, Most)
    BY <2>1, <2>2, SuspendLands, MainIsATask
  <2>4. QED
    BY <2>1, <2>2, <2>3, LandsAdvances, MainIsATask
<1>2. CASE ~KeepsGoing
  BY <1>2, LeaveLoopAdvances DEF CycleEnds
<1>3. QED
  BY <1>1, <1>2

\* The next stage of a cycle comes after this one.
LEMMA StageSucceedsAdvances ==
  ASSUME ProcessTypeOK, Places, StageSucceeds PROVE Advanced
<1>1. PICK clear \in BOOLEAN :
        LET stages == StagesAfter(at[Main], module, clear)
        IN  IF stages = {} THEN CycleEnds ELSE Suspend(Main, "stage", Min(stages))
  BY DEF StageSucceeds
<1> DEFINE stages == StagesAfter(at[Main], module, clear)
<1>2. pc[Main] = "stage" /\ at[Main] \in 1 .. StageCount
  BY MainIsATask DEF StageSucceeds, Places, Place, Stage
<1>3. CASE stages = {}
  BY <1>1, <1>2, <1>3, CycleEndsAdvances
<1>4. CASE stages # {}
  <2>1. stages \subseteq Stage
    BY DEF StagesAfter
  <2>2. Min(stages) \in Stage /\ Min(stages) \in stages
    BY <1>4, <2>1, FirstIsStage
  <2>3. Min(stages) > at[Main]
    BY <2>2 DEF StagesAfter
  <2>4. Suspend(Main, "stage", Min(stages))
    BY <1>1, <1>4
  <2> HIDE DEF stages
  <2> DEFINE k == Min(stages)
  <2>5. /\ pc'[Main] = "stage" /\ at'[Main] = k
        /\ \A u \in Task \ {Main} : pc'[u] = pc[u] /\ at'[u] = at[u]
    BY <2>4, MainIsATask DEF Suspend, ProcessTypeOK
  <2>6. k \in 1 .. StageCount /\ k > at[Main]
    BY <2>2, <2>3 DEF Stage
  <2> HIDE DEF k
  <2>7. /\ StepsLeft(Main) = 2 * ModuleCount + 3 + StageCount - at[Main]
        /\ StepsLeft(Main)' = 2 * ModuleCount + 3 + StageCount - k
    BY <1>2, <2>5 DEF StepsLeft
  <2>8. StepsLeft(Main)' < StepsLeft(Main)
    BY <1>2, <2>6, <2>7, Counts
  <2>9. Place(Main)'
    BY <2>5, <2>6 DEF Place, Stage
  <2>10. ASSUME NEW u \in Task \ {Main} PROVE Place(u)' /\ Advances(u)
    BY <2>5, <2>10 DEF Places, Place, Advances
  <2>11. QED
    BY <2>8, <2>9, <2>10 DEF Advanced, Places, Advances
<1>5. QED
  BY <1>3, <1>4

LEMMA MainAdvances ==
  ASSUME ProcessTypeOK, Places, Inv, MainStep PROVE Advanced
<1>1. Most \in Nat
  BY Counts DEF Most
<1>2. ASSUME Lands(Main, Most), pc[Main] \in {"booting", "starting"} PROVE Advanced
  <2>1. ~shutdown
    BY <1>2 DEF Inv, NotYetRunning
  <2>2. QED
    BY <1>1, <1>2, <2>1, LandsAdvances, MainIsATask
<1>3. ASSUME NEW status, StartupFails(status) PROVE Lands(Main, Most)
  BY <1>1, <1>3, ReturnLands, MainIsATask DEF StartupFails
<1>4. CASE Refuse
  BY <1>2, <1>3, <1>4 DEF Refuse
<1>5. CASE Instantiate
  <2>1. pc[Main] = "booting" /\ \E status : StartAbove(0, status) \/ StartupFails(status)
    BY <1>5 DEF Instantiate
  <2>2. QED
    BY <1>2, <1>3, <2>1, StartAboveLands
<1>6. CASE ModuleStarts \/ ModuleStartFails
  <2>1. /\ pc[Main] = "starting"
        /\ \E m, status : StartAbove(m, status) \/ StartupFails(status)
    BY <1>6 DEF ModuleStarts, ModuleStartFails
  <2>2. QED
    BY <1>2, <1>3, <2>1, StartAboveLands
<1>7. CASE StageSucceeds
  BY <1>7, StageSucceedsAdvances
<1>8. CASE StageFails
  BY <1>8, CycleEndsAdvances DEF StageFails
<1>9. CASE StageFailsForGood
  <2>1. pc[Main] = "stage" /\ HaltBelow(ModuleCount + 1, module, cancelled \cup {Main})
    BY <1>9 DEF StageFailsForGood, Emergency
  <2> DEFINE n == ModuleCount + 1 + ModuleCount
  <2>2. Lands(Main, n)
    BY <2>1, HaltBelowLands, Counts
  <2>3. n \in Nat /\ n < StepsLeft(Main)
    BY <2>1, InLoop, Counts
  <2> HIDE DEF n
  <2>4. QED
    BY <2>2, <2>3, LandsAdvances, MainIsATask
<1>10. CASE LoopCancelled
  BY <1>10, LeaveLoopAdvances DEF LoopCancelled
<1>11. CASE SleepEnds
  <2>1. CASE KeepsGoing
    <3>1. BeginCycle(module) /\ ~shutdown
      BY <1>11, <2>1 DEF SleepEnds, KeepsGoing
    <3>2. QED
      BY <1>1, <3>1, BeginCycleLands, LandsAdvances, MainIsATask
  <2>2. CASE ~KeepsGoing
    BY <1>11, <2>2, LeaveLoopAdvances DEF SleepEnds
  <2>3. QED
    BY <2>1, <2>2
<1>12. QED
  BY <1>4, <1>5, <1>6, <1>7, <1>8, <1>9, <1>10, <1>11 DEF MainStep

LEMMA StopStepAdvances ==
  ASSUME ProcessTypeOK, Places, Shape, NEW t \in Task, StopStep(t) PROVE Advanced
<1>1. CASE ModuleStops(t)
  <2>1. PICK status, pending :
          \/ pc[t] = "stopping" /\ StopBelow(t, at[t], status, pending)
          \/ pc[t] = "halting" /\ HaltBelow(at[t], status, pending)
    BY <1>1 DEF ModuleStops
  <2> DEFINE n == at[t] - 1
  <2>2. at[t] \in Module
    BY <2>1 DEF Places, Place
  <2>3. n \in Nat /\ n + 1 = at[t]
    BY <2>2 DEF Module
  <2> HIDE DEF n
  <2>4. CASE pc[t] = "stopping" /\ StopBelow(t, at[t], status, pending)
    <3>1. Lands(t, n)
      BY <2>3, <2>4, StopBelowLands
    <3>2. n < StepsLeft(t)
      BY <2>3, <2>4 DEF StepsLeft
    <3>3. QED
      BY <2>3, <3>1, <3>2, LandsAdvances
  <2>5. CASE pc[t] = "halting" /\ HaltBelow(at[t], status, pending)
    <3>1. t = Main
      BY <2>5 DEF Shape, Roles, Task
    <3>2. Lands(Main, ModuleCount + 1 + n)
      BY <2>3, <2>5, <3>1, HaltBelowLands
    <3>3. StepsLeft(t) = ModuleCount + 1 + at[t]
      BY <2>5 DEF StepsLeft
    <3>4. ModuleCount + 1 + n \in Nat /\ ModuleCount + 1 + n < StepsLeft(t)
      BY <2>3, <3>3, Counts
    <3>5. QED
      BY <3>1, <3>2, <3>4, LandsAdvances
  <2>6. QED
    BY <2>1, <2>4, <2>5
<1>2. CASE StopInterrupted(t)
  <2>1. CASE pc[t] = "halting" /\ LeaveLoop
    <3>1. t = Main
      BY <2>1 DEF Shape, Roles, Task
    <3>2. at[t] \in Nat
      BY <2>1 DEF Places, Place, Module
    <3>3. ModuleCount < StepsLeft(t)
      BY <2>1, <3>2, Counts DEF StepsLeft
    <3>4. QED
      BY <2>1, <3>1, <3>3, LeaveLoopLands, LandsAdvances, Counts
  <2>2. CASE pc[t] = "stopping" /\ Return(t)
    <3>1. StepsLeft(t) = at[t] /\ at[t] > 0
      BY <2>2 DEF Places, Place, Module, StepsLeft
    <3>2. QED
      BY <2>2, <3>1, ReturnLands, LandsAdvances
  <2>3. QED
    BY <1>2, <2>1, <2>2 DEF StopInterrupted
<1>3. CASE Drained(t)
  <2>1. PICK pending : pc[t] = "draining" /\ StopBelow(t, ModuleCount + 1, module, pending)
    BY <1>3 DEF Drained
  <2>2. Lands(t, ModuleCount)
    BY <2>1, StopBelowLands, Counts
  <2>3. ModuleCount < StepsLeft(t)
    BY <2>1, Counts DEF StepsLeft
  <2>4. QED
    BY <2>2, <2>3, LandsAdvances, Counts
<1>4. QED
  BY <1>1, <1>2, <1>3 DEF StopStep

\* A process that ends, or is restarted, has no steps left.
LEMMA NoneLeft ==
  ASSUME Places, \A t \in Task : pc'[t] \in {"off", "booting", "idle"}
  PROVE  Advanced
<1>1. ASSUME NEW t \in Task PROVE Place(t)' /\ Advances(t)
  <2>1. Place(t)' /\ StepsLeft(t)' = 0
    BY DEF Place, StepsLeft
  <2>2. shutdown /\ pc[t] \in Leaving => StepsLeft(t) > 0
    <3>1. pc[t] \in {"stopping", "halting"} => at[t] \in 1 .. ModuleCount
      BY DEF Places, Place, Module
    <3>2. pc[t] = "stage" => at[t] \in 1 .. StageCount
      BY DEF Places, Place, Stage
    <3>3. QED
      BY <3>1, <3>2, Counts DEF Leaving, StepsLeft
  <2>3. QED
    BY <2>1, <2>2 DEF Advances
<1>2. QED
  BY <1>1 DEF Advanced, Places

LEMMA StepAdvances ==
  ProcessTypeOK /\ Inv /\ Shape /\ Places /\ [Next]_vars => Advanced
<1> SUFFICES ASSUME ProcessTypeOK, Inv, Shape, Places, [Next]_vars PROVE Advanced
  OBVIOUS
<1>1. CASE Boot \/ Crash
  <2>1. \A t \in Task : pc'[t] \in {"off", "booting", "idle"}
    BY <1>1 DEF Boot, Crash
  <2>2. QED
    BY <2>1, NoneLeft
<1>2. ASSUME NEW t \in Signaller, Signal(t) PROVE Advanced
  <2>1. t \in Task /\ Stop(t, mainLoop) /\ pc[t] = "idle"
    BY <1>2 DEF Signal, Task
  <2>2. Lands(t, ModuleCount) \/ Lands(t, ModuleCount + 1)
    BY <2>1, StopLands
  <2>3. pc[t] \notin Leaving
    BY <2>1 DEF Leaving
  <2>4. QED
    BY <2>1, <2>2, <2>3, LandsAdvances, Counts
<1>3. CASE UNCHANGED <<pc, at>>
  BY <1>3 DEF Advanced, Advances, Places, Place
<1>4. ASSUME NEW t \in Signaller, DrainTimesOut(t) PROVE Advanced
  BY <1>3, <1>4 DEF DrainTimesOut
<1>5. CASE UNCHANGED vars
  BY <1>3, <1>5 DEF vars, procVars
<1>6. QED
  BY <1>1, <1>2, <1>4, <1>5, MainAdvances, StopStepAdvances DEF Next

\* Once a shutdown was requested every task of the process ends within 2 * ModuleCount +
\* StageCount + 3 steps of its own, whatever fails, times out or is cancelled on the way and
\* however many signals arrive (core.py:524-610).
THEOREM ShutdownIsShort == Spec => []ShutdownBounded /\ ShutdownAdvances
<1>1. Init => Places
  BY DEF Init, Places, Place
<1>2. Places => ShutdownBounded
  BY StepsLeftBounded DEF Places, ShutdownBounded
<1>3. GroundInv /\ Places /\ [Next]_vars => Places' /\ \A t \in Task : Advances(t)
  BY StepAdvances DEF GroundInv, Advanced
<1>4. GroundInv /\ Places /\ [Next]_vars => [\A t \in Task : Advances(t)]_vars
  BY <1>3
<1>5. QED
  BY <1>1, <1>2, <1>3, <1>4, GroundsHold, PTL DEF Spec, ShutdownAdvances

\* A task of a signal leaves the request for a shutdown standing, and the main task too.
LEMMA ShutdownStands ==
  ASSUME GroundInv, shutdown, Alive, [Next]_vars
  PROVE  shutdown' \/ ~Alive'
<1> USE MainIsATask
<1>1. pc[Main] \notin {"off", "done", "booting", "starting"}
  BY DEF GroundInv, Inv, NotYetRunning, Alive
<1>2. CASE Boot
  BY <1>1, <1>2 DEF Boot, Exited
<1>3. CASE Crash
  BY <1>3 DEF Crash, Alive
<1>4. CASE MainStep
  BY <1>1, <1>4 DEF MainStep, Refuse, Instantiate, ModuleStarts, ModuleStartFails,
                    StageSucceeds, StageFails, StageFailsForGood, LoopCancelled, SleepEnds,
                    CycleEnds, LeaveLoop, Stop, Emergency
<1>5. ASSUME NEW t \in Task, StopStep(t) PROVE shutdown'
  BY <1>5 DEF StopStep, ModuleStops, StopInterrupted, Drained, LeaveLoop, Stop
<1>6. ASSUME NEW t \in Signaller, Signal(t) \/ DrainTimesOut(t) PROVE shutdown'
  BY <1>6 DEF Signal, DrainTimesOut, Stop
<1>7. CASE UNCHANGED vars
  BY <1>7 DEF vars, procVars
<1>8. QED
  BY <1>2, <1>3, <1>4, <1>5, <1>6, <1>7 DEF Next

\* A shutdown never waits in a circle and is never called off: its waits are for the main
\* task, which waits for nobody, whatever was cancelled or swallowed (core.py:524-610).
THEOREM ShutdownProceeds == Spec => []ShutdownMovesOn /\ ShutdownLasts
<1>1. GroundInv => ShutdownMovesOn
  <2> SUFFICES ASSUME GroundInv, shutdown PROVE ShutdownMovesOn
    BY DEF ShutdownMovesOn
  <2>1. Alive => GoesOn(Main)
    BY MainIsATask
    DEF GroundInv, Inv, Placed, NotYetRunning, Shape, Roles, Alive, GoesOn, TaskPC
  <2>2. pc[Main] = "done" => \A t \in Signaller : pc[t] \in {"idle", "done"} \/ GoesOn(t)
    BY DEF GroundInv, Shape, Roles, GoesOn
  <2>3. QED
    BY <2>1, <2>2 DEF ShutdownMovesOn
<1>2. GroundInv /\ [Next]_vars => [shutdown /\ Alive /\ Alive' => shutdown']_vars
  BY ShutdownStands
<1>3. QED
  BY <1>1, <1>2, GroundsHold, PTL DEF Spec, ShutdownLasts
================================================================================
