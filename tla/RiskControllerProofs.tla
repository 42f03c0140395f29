-------------------------- MODULE RiskControllerProofs --------------------------
(* Proofs about RiskController: it implements RiskStateMachine; a controller    *)
(* that lets trades through is being monitored; a pass ends halted if what one  *)
(* of its monitors reported is owned by none after it, and a calm one releases  *)
(* what only monitors halted; a requested halt is not given up for another; and *)
(* passes and calls are short and never wait in a circle.                       *)
EXTENDS RiskController, RiskStateMachineProofs

USE DEF HARD, SOFT

\* What a step of the engine does to the state machine: nothing, a halt event,
\* a resume request that found the lock free, or a healthy monitor's clearing.
StepShape ==
    \/ UNCHANGED smVars
    \/ \E t \in Trigger, l \in Level : ProcessHaltEvent(t, l)
    \/ lock = "free" /\ \E force \in BOOLEAN : RequestResume(force)
    \/ MonitorHealthy

\* What each operation of the engine does to the state machine's own variables.
LEMMA ShapeOfSteps ==
    ASSUME TypeOK, [Next]_vars
    PROVE  StepShape
  <1> USE ControllerAssumption DEF StepShape, smVars, Level
  <1>1. CASE BootStep
    <2>1. CASE StartFails
      BY <2>1 DEF StartFails
    <2>2. QED
      BY <1>1, <2>1 DEF BootStep, StartCheck, StartPasses, StartCallbackReturns,
                        StartAborts, Stop
  <1>2. CASE LoopStep
    <2>1. CASE MonitorReports
      <3>1. PICK r \in Reports[mon] : ProcessHaltEvent(r[1], r[2])
        BY <2>1 DEF MonitorReports
      <3>2. r[1] \in Trigger /\ r[2] \in Level
        BY DEF TypeOK, EngineTypeOK, Monitor
      <3>3. QED
        BY <3>1, <3>2
    <2>2. CASE MonitorCallbackRaises \/ HandleInternalError
      BY <2>2 DEF MonitorCallbackRaises, HandleInternalError
    <2>3. QED
      BY <1>2, <2>1, <2>2 DEF LoopStep, LoopWakes, BeginPass, LoopCallbackReturns,
                              ErrorCallbackRaises, InternalCallbackRaises
  <1>3. ASSUME NEW c \in Caller, CallerStep(c)
        PROVE  StepShape
    <2>1. CASE ApplyHalt(c)
      <3>1. req[c][1] \in Trigger /\ req[c][2] \in Level
        BY DEF TypeOK, EngineTypeOK
      <3>2. QED
        BY <2>1, <3>1 DEF ApplyHalt
    <2>2. CASE ApplyResume(c)
      BY <2>2 DEF ApplyResume
    <2>3. CASE GuardFails(c)
      BY <2>3 DEF GuardFails
    <2>4. QED
      BY <1>3, <2>1, <2>2, <2>3 DEF CallerStep, RequestHalt, CallResume, Validate,
                                   GuardPasses, CallerCallbackReturns, CallerAborts
  <1>4. CASE UNCHANGED vars
    BY <1>4 DEF vars
  <1>5. QED
    BY <1>1, <1>2, <1>3, <1>4 DEF Next

\* Every step of the engine is a step of the state machine, or leaves it alone.
LEMMA StepRefines ==
    ASSUME TypeOK, [Next]_vars
    PROVE  [SMNext]_smVars
  <1>1. CASE MonitorHealthy
    <2>1. {t \in Trigger : Owner[t] = mon} \in SUBSET Trigger
      OBVIOUS
    <2>2. QED
      BY <1>1, <2>1 DEF MonitorHealthy, SMNext
  <1>2. QED
    BY <1>1, ShapeOfSteps DEF StepShape, SMNext

\* Only a healthy monitor's clearing can lift a halt.
LEMMA HaltPersists ==
    ASSUME TypeOK, [Next]_vars, IsHalted, ~MonitorHealthy
    PROVE  IsHalted'
  <1>1. ASSUME NEW t \in Trigger, NEW l \in Level, ProcessHaltEvent(t, l)
        PROVE  IsHalted'
    BY <1>1, EventEscalates DEF TypeOK, SMTypeOK, IsHalted, SystemState, Severity
  <1>2. QED
    BY <1>1, ShapeOfSteps DEF StepShape, smVars, RequestResume, IsHalted

\* An event of level SOFT or above leaves the system halted.
LEMMA EventHalts ==
    ASSUME TypeOK, NEW t \in Trigger, NEW l \in Level, l >= SOFT, ProcessHaltEvent(t, l)
    PROVE  IsHalted'
  <1>1. Severity(StateOf(l)) >= 2
    BY DEF Level, StateOf, Severity
  <1>2. Severity(state') >= Severity(StateOf(l)) /\ state' \in SystemState
    BY EventEscalates DEF TypeOK
  <1>3. QED
    BY <1>1, <1>2, LevelFacts DEF IsHalted, SystemState, Severity, Level

-------------------------------------------------------------------------------
(* Type correctness *)

\* The monitors are numbered from 1 and walked in order.
LEMMA MonitorFacts ==
    /\ 1 \in Monitor
    /\ \A m \in Monitor : m \in Int /\ (m < MonitorCount => m + 1 \in Monitor)
BY ControllerAssumption DEF Monitor

\* Every step keeps the engine's own variables in their types.
LEMMA EngineTypeStep ==
    ASSUME TypeOK, [Next]_vars
    PROVE  EngineTypeOK'
  <1> USE ControllerAssumption, MonitorFacts
      DEF TypeOK, EngineTypeOK, BootPC, LoopPC, CallerPC, FirstCallback
  <1>1. CASE BootStep
    <2>1. CASE StartCheck
      BY <2>1 DEF StartCheck
    <2>2. CASE StartPasses
      BY <2>2 DEF StartPasses
    <2>3. CASE StartFails
      BY <2>3 DEF StartFails
    <2>4. CASE StartCallbackReturns
      BY <2>4 DEF StartCallbackReturns
    <2>5. CASE StartAborts
      BY <2>5 DEF StartAborts
    <2>6. CASE Stop
      BY <2>6 DEF Stop
    <2>7. QED
      BY <1>1, <2>1, <2>2, <2>3, <2>4, <2>5, <2>6 DEF BootStep
  <1>3. CASE LoopWakes \/ BeginPass
    BY <1>3 DEF LoopWakes, BeginPass
  <1>4. CASE MonitorHealthy \/ LoopCallbackReturns
    BY <1>4 DEF MonitorHealthy, LoopCallbackReturns, Advance
  <1>5. CASE MonitorReports
    BY <1>5 DEF MonitorReports
  <1>6. CASE MonitorCallbackRaises \/ ErrorCallbackRaises
               \/ HandleInternalError \/ InternalCallbackRaises
    BY <1>6 DEF MonitorCallbackRaises, ErrorCallbackRaises, HandleInternalError,
                InternalCallbackRaises
  <1>7. ASSUME NEW c \in Caller, RequestHalt(c)
        PROVE  EngineTypeOK'
    <2>1. PICK r \in CallerHalts : req' = [req EXCEPT ![c] = r]
      BY <1>7 DEF RequestHalt
    <2>2. req' \in [Caller -> Trigger \X Level]
      BY <2>1
    <2>3. QED
      BY <1>7, <2>2 DEF RequestHalt
  <1>8. ASSUME NEW c \in Caller, ApplyHalt(c) \/ GuardFails(c)
        PROVE  EngineTypeOK'
    BY <1>8 DEF ApplyHalt, GuardFails
  <1>9. ASSUME NEW c \in Caller, CallerCallbackReturns(c) \/ CallerAborts(c)
        PROVE  EngineTypeOK'
    BY <1>9 DEF CallerCallbackReturns, CallerAborts
  <1>10. ASSUME NEW c \in Caller, CallResume(c) \/ ApplyResume(c)
                                    \/ Validate(c) \/ GuardPasses(c)
        PROVE  EngineTypeOK'
    BY <1>10 DEF CallResume, ApplyResume, Validate, GuardPasses
  <1>11. CASE UNCHANGED vars
    BY <1>11 DEF vars
  <1>12. QED
    BY <1>1, <1>3, <1>4, <1>5, <1>6, <1>7, <1>8, <1>9, <1>10, <1>11
    DEF Next, LoopStep, CallerStep

\* Every step keeps all the variables, the state machine's too, in their types.
LEMMA TypeStep ==
    ASSUME TypeOK, [Next]_vars
    PROVE  TypeOK'
  <1>1. SMTypeOK'
    BY StepRefines, SMTypeStep DEF TypeOK
  <1>2. QED
    BY <1>1, EngineTypeStep DEF TypeOK

-------------------------------------------------------------------------------
(* A controller that lets trades through is monitored.  By itself the property  *)
(* is not inductive: it needs what a failed startup check and callbacks that    *)
(* raised leave behind before the task is gone.                                 *)

MonitoredInv ==
    /\ boot # "up" => ~running /\ loop = "none"
    /\ boot \in {"onState", "onHalt"} => IsHalted
    /\ loop \in {"intState", "intHalt", "dead"} => IsHalted
    /\ running /\ loop = "none" => IsHalted

\* Every step keeps the invariant that a monitor the loop still needs is not lost.
LEMMA MonitoredStep ==
    ASSUME HaltOnFailure, TypeOK, MonitoredInv, [Next]_vars
    PROVE  MonitoredInv'
  <1>0. IsHalted /\ ~MonitorHealthy => IsHalted'
    BY HaltPersists
  <1>1. CASE BootStep
    <2>0. ~MonitorHealthy
      BY <1>1 DEF BootStep, MonitorHealthy, StartCheck, StartPasses, StartFails,
                  StartCallbackReturns, StartAborts, Stop, Yielded
    <2>1. CASE StartFails
      <3>1. PICK t \in GuardTriggers : ProcessHaltEvent(t, HARD)
        BY <2>1 DEF StartFails
      <3>2. IsHalted'
        BY <3>1, EventHalts, ControllerAssumption DEF Level
      <3>3. /\ boot' \in {"onState", "onHalt"}
            /\ UNCHANGED <<running, loop>>
        BY <2>1 DEF StartFails, FirstCallback
      <3>4. ~running /\ loop = "none"
        BY <2>1 DEF StartFails, MonitoredInv
      <3>5. QED
        BY <3>2, <3>3, <3>4 DEF MonitoredInv
    <2>2. CASE StartCallbackReturns
      BY <1>0, <2>0, <2>2 DEF StartCallbackReturns, MonitoredInv
    <2>3. CASE StartPasses \/ StartCheck
      BY <1>0, <2>0, <2>3 DEF StartPasses, StartCheck, MonitoredInv
    <2>4. CASE StartAborts \/ Stop
      BY <1>0, <2>0, <2>4 DEF StartAborts, Stop, MonitoredInv
    <2>5. QED
      BY <1>1, <2>1, <2>2, <2>3, <2>4 DEF BootStep
  <1>2. CASE LoopStep
    <2>1. CASE MonitorHealthy
      <3>1. loop = "checking" /\ loop' \in {"checking", "sleep"}
        BY <2>1 DEF MonitorHealthy, Advance
      <3>2. UNCHANGED <<running, boot>>
        BY <2>1 DEF MonitorHealthy
      <3>3. boot = "up"
        BY <3>1 DEF MonitoredInv
      <3>4. QED
        BY <3>1, <3>2, <3>3 DEF MonitoredInv
    <2>2. CASE MonitorReports \/ MonitorCallbackRaises
      <3>1. /\ loop' \in {"onState", "onHalt", "errState", "errHalt"}
            /\ loop # "none"
            /\ UNCHANGED <<running, boot>>
        BY <2>2 DEF MonitorReports, MonitorCallbackRaises, FirstCallback
      <3>2. QED
        BY <3>1 DEF MonitoredInv
    <2>3. CASE HandleInternalError
      <3>1. ProcessHaltEvent(ControllerError, SOFT)
        BY <2>3 DEF HandleInternalError
      <3>2. IsHalted'
        BY <3>1, EventHalts, ControllerAssumption DEF Level
      <3>3. QED
        BY <2>3, <3>2 DEF HandleInternalError, FirstCallback, MonitoredInv
    <2>4. CASE LoopCallbackReturns
      BY <1>0, <2>4 DEF LoopCallbackReturns, Advance, MonitorHealthy, MonitoredInv
    <2>5. CASE LoopWakes \/ BeginPass
      BY <2>5 DEF LoopWakes, BeginPass, MonitoredInv
    <2>6. CASE ErrorCallbackRaises \/ InternalCallbackRaises
      BY <1>0, <2>6 DEF ErrorCallbackRaises, InternalCallbackRaises, MonitorHealthy, MonitoredInv
    <2>7. QED
      BY <1>2, <2>1, <2>2, <2>3, <2>4, <2>5, <2>6 DEF LoopStep
  <1>3. ASSUME NEW c \in Caller, CallerStep(c)
        PROVE  MonitoredInv'
    <2>1. Yielded /\ UNCHANGED <<running, boot, loop>>
      BY <1>3 DEF CallerStep, RequestHalt, ApplyHalt, CallResume, ApplyResume, Validate,
                  GuardPasses, GuardFails, CallerCallbackReturns, CallerAborts
    <2>2. ~MonitorHealthy
      BY <2>1 DEF MonitorHealthy, Yielded
    <2>3. QED
      BY <1>0, <2>1, <2>2 DEF MonitoredInv
  <1>4. CASE UNCHANGED vars
    BY <1>4 DEF vars, MonitoredInv, IsHalted
  <1>5. QED
    BY <1>1, <1>2, <1>3, <1>4 DEF Next

-------------------------------------------------------------------------------
\* Every variable of the engine and the state machine has its type; the walk through
\* the monitors (engine.py:556-579) stays within them.
THEOREM TypeCorrect == Spec => []TypeOK
  <1>1. Init => TypeOK
    BY ControllerAssumption, MonitorFacts
    DEF Init, SMInit, TypeOK, SMTypeOK, EngineTypeOK, SystemState,
        BootPC, LoopPC, CallerPC
  <1>2. TypeOK /\ [Next]_vars => TypeOK'
    BY TypeStep
  <1>3. QED
    BY <1>1, <1>2, PTL DEF Spec

\* The engine implements the state machine: monitor passes, callbacks, guard
\* checks and calls act on it only through its own operations.
THEOREM Implements == Spec => SMSpec
  <1>1. Init => SMInit
    BY DEF Init
  <1>2. TypeOK /\ [Next]_vars => [SMNext]_smVars
    BY StepRefines
  <1>3. QED
    BY <1>1, <1>2, TypeCorrect, PTL DEF Spec, SMSpec

\* In the running engine the state is never less severe than an active trigger:
\* engine.py:553-617 and state_machine.py:186-296 together.
THEOREM CoversTriggers == Spec => []StateCoversTriggers
BY Implements, SMCoversTriggers, PTL

\* In the running engine a HARD or EMERGENCY halt is left only by a manual resume,
\* though healthy monitors clear triggers in every pass (engine.py:596-603).
THEOREM NoAutomaticResumeHolds == Spec => NoAutomaticResume
BY Implements, SMNoAutomaticResume, PTL

\* With halt_on_failure set, a running controller that allows trades has a live
\* monitor task, whatever start() and the callbacks did: engine.py:381-416, 539-617.
THEOREM TradingMonitored ==
    ASSUME HaltOnFailure
    PROVE  Spec => []TradingImpliesMonitored
  <1>1. Init => MonitoredInv
    BY DEF Init, MonitoredInv
  <1>2. TypeOK /\ MonitoredInv /\ [Next]_vars => MonitoredInv'
    BY MonitoredStep
  <1>3. MonitoredInv => TradingImpliesMonitored
    BY DEF MonitoredInv, TradingImpliesMonitored, IsHalted, CanTrade
  <1>4. QED
    BY <1>1, <1>2, <1>3, TypeCorrect, PTL DEF Spec
-------------------------------------------------------------------------------
(* A pass that found a fault ends halted.  The invariant is that while the pass *)
(* lasts the loop holds the lock, and some trigger that the rest of the pass    *)
(* cannot clear stays active.                                                   *)

\* What the property needs of the monitors: what they report are halts.
HaltReports == \A m \in Monitor : \A r \in Reports[m] : r[2] >= SOFT

Callback == {"onState", "onHalt", "errState", "errHalt"}

\* some active halt belongs to a monitor before k, or to none
HeldBefore(events, k) == \E t \in Trigger : events[t] >= SOFT /\ Owner[t] < k

\* the pass had a report that no monitor still to come owns
LastingReport(reports) == \E r \in reports : Owner[r[2]] <= r[1]

PassInv ==
    /\ loop \in Callback \cup {"checking"} => lock = "loop"
    /\ loop = "checking" /\ LastingReport(reported) => HeldBefore(active, mon)
    /\ loop \in Callback /\ LastingReport(reported) => HeldBefore(active, mon + 1)
    /\ loop \in {"intState", "intHalt"} => IsHalted
    /\ loop = "sleep" /\ LastingReport(reported) => IsHalted

\* An event of level SOFT or above takes nothing away from what holds the pass, and
\* holds it if it belongs before.
LEMMA EventHolds ==
    ASSUME TypeOK, NEW t \in Trigger, NEW l \in Level, l >= SOFT, ProcessHaltEvent(t, l),
           NEW k
    PROVE  /\ HeldBefore(active, k) => HeldBefore(active', k)
           /\ Owner[t] < k => HeldBefore(active', k)
  <1>1. active'[t] = l /\ \A u \in Trigger : u # t => active'[u] = active[u]
    BY DEF ProcessHaltEvent, TypeOK, SMTypeOK
  <1>2. QED
    BY <1>1 DEF HeldBefore

\* Clearing the triggers of a monitor leaves those of the monitors before it.
LEMMA ClearingHolds ==
    ASSUME TypeOK, MonitorHealthy, HeldBefore(active, mon)
    PROVE  HeldBefore(active', mon)
  <1>1. PICK t \in Trigger : active[t] >= SOFT /\ Owner[t] < mon
    BY DEF HeldBefore
  <1>2. Owner[t] # mon
    BY <1>1, ControllerAssumption, MonitorFacts DEF TypeOK, EngineTypeOK
  <1>3. active'[t] = active[t]
    BY <1>2 DEF MonitorHealthy, ClearTriggers
  <1>4. QED
    BY <1>1, <1>3 DEF HeldBefore

\* What holds a monitor's turn holds the turns after it.
LEMMA HeldBeforeNext ==
    ASSUME NEW events, NEW k \in Int, HeldBefore(events, k)
    PROVE  HeldBefore(events, k + 1)
  <1>1. \A t \in Trigger : Owner[t] \in Int
    BY ControllerAssumption
  <1>2. QED
    BY <1>1 DEF HeldBefore

\* What holds the pass after a step halts the system after it.
LEMMA HeldHalts ==
    ASSUME TypeOK', StateCoversTriggers', NEW k, HeldBefore(active', k)
    PROVE  IsHalted'
  <1>1. PICK t \in Trigger : active'[t] >= SOFT
    BY DEF HeldBefore
  <1>2. active'[t] \in Level /\ active'[t] # NoEvent
    BY <1>1 DEF TypeOK, SMTypeOK, NoEvent, Level
  <1>3. Severity(StateOf(active'[t])) >= 2
    BY <1>1, <1>2 DEF Level, StateOf, Severity
  <1>4. Severity(state') >= Severity(StateOf(active'[t])) /\ state' \in SystemState
    BY <1>2 DEF StateCoversTriggers, TypeOK, SMTypeOK, Severity, StateOf
  <1>5. QED
    BY <1>2, <1>3, <1>4, LevelFacts DEF IsHalted, SystemState, Severity, Level

\* On to the next monitor, or to the end of a pass that is held.
LEMMA AdvanceHolds ==
    ASSUME TypeOK, TypeOK', StateCoversTriggers', Advance, lock = "loop",
           LastingReport(reported') => HeldBefore(active', mon + 1)
    PROVE  PassInv'
  <1>1. CASE mon < MonitorCount
    <2>1. mon' = mon + 1 /\ loop' = "checking" /\ lock' = "loop"
      BY <1>1 DEF Advance
    <2>2. QED
      BY <2>1 DEF PassInv, Callback, HeldBefore
  <1>2. CASE ~(mon < MonitorCount)
    <2>1. loop' = "sleep"
      BY <1>2 DEF Advance
    <2>2. LastingReport(reported') => IsHalted'
      BY HeldHalts
    <2>3. QED
      BY <2>1, <2>2 DEF PassInv, Callback
  <1>3. QED
    BY <1>1, <1>2

\* A step outside the loop that clears nothing leaves the pass as it is.
LEMMA OthersHold ==
    ASSUME TypeOK, PassInv, [Next]_vars, ~MonitorHealthy,
           UNCHANGED <<loop, mon, reported>>,
           lock = "loop" => lock' = "loop",
           \/ lock # "loop" \/ UNCHANGED active
           \/ \E t \in Trigger : ProcessHaltEvent(t, HARD)
    PROVE  PassInv'
  <1>1. IsHalted => IsHalted'
    BY HaltPersists
  <1>2. CASE loop \notin Callback \cup {"checking"}
    BY <1>1, <1>2 DEF PassInv, Callback
  <1>3. CASE loop \in Callback \cup {"checking"}
    <2>1. lock = "loop" /\ lock' = "loop"
      BY <1>3 DEF PassInv
    <2>2. \A k : HeldBefore(active, k) => HeldBefore(active', k)
      <3>1. CASE UNCHANGED active
        BY <3>1
      <3>2. CASE \E t \in Trigger : ProcessHaltEvent(t, HARD)
        BY <3>2, EventHolds DEF Level
      <3>3. QED
        BY <2>1, <3>1, <3>2
    <2>3. QED
      BY <1>3, <2>1, <2>2 DEF PassInv, Callback, HeldBefore
  <1>4. QED
    BY <1>2, <1>3

\* Every step keeps what holds the pass.
LEMMA PassStep ==
    ASSUME HaltReports, TypeOK, TypeOK', StateCoversTriggers', PassInv,
           [Next]_vars
    PROVE  PassInv'
  <1> USE ControllerAssumption, MonitorFacts
  <1>0. IsHalted /\ ~MonitorHealthy => IsHalted'
    BY HaltPersists
  <1>1. mon \in Int
    BY DEF TypeOK, EngineTypeOK
  <1>2. CASE BootStep
    <2>1. ~MonitorHealthy
      BY <1>2 DEF BootStep, MonitorHealthy, StartCheck, StartPasses, StartFails,
                  StartCallbackReturns, StartAborts, Stop, Yielded
    <2>2. CASE StartPasses \/ Stop
      BY <2>2 DEF StartPasses, Stop, PassInv, Callback
    <2>3. CASE StartFails
      BY <2>1, <2>3, OthersHold DEF StartFails
    <2>4. CASE StartCheck \/ StartCallbackReturns \/ StartAborts
      BY <2>1, <2>4, OthersHold DEF StartCheck, StartCallbackReturns, StartAborts
    <2>5. QED
      BY <1>2, <2>2, <2>3, <2>4 DEF BootStep
  <1>3. CASE LoopWakes \/ BeginPass
    BY <1>3 DEF LoopWakes, BeginPass, PassInv, Callback, LastingReport
  <1>4. CASE MonitorHealthy
    <2>1. Advance /\ lock = "loop" /\ reported' = reported
      BY <1>4 DEF MonitorHealthy, PassInv
    <2>2. LastingReport(reported) => HeldBefore(active', mon)
      BY <1>4, ClearingHolds DEF MonitorHealthy, PassInv
    <2>3. LastingReport(reported') => HeldBefore(active', mon + 1)
      BY <1>1, <2>1, <2>2, HeldBeforeNext
    <2>4. QED
      BY <2>1, <2>3, AdvanceHolds
  <1>5. CASE MonitorReports
    <2>1. PICK r \in Reports[mon] : /\ ProcessHaltEvent(r[1], r[2])
                                    /\ loop' = FirstCallback(r[2], "onState", "onHalt")
                                    /\ reported' = reported \cup {<<mon, r[1]>>}
      BY <1>5 DEF MonitorReports
    <2>2. r[1] \in Trigger /\ r[2] \in Level /\ r[2] >= SOFT
      BY DEF HaltReports, TypeOK, EngineTypeOK
    <2>3. ASSUME LastingReport(reported)
          PROVE  HeldBefore(active', mon + 1)
      <3>1. HeldBefore(active, mon)
        BY <1>5, <2>3 DEF MonitorReports, PassInv
      <3>2. QED
        BY <1>1, <2>1, <2>2, <3>1, EventHolds, HeldBeforeNext
    <2>4. ASSUME Owner[r[1]] <= mon
          PROVE  HeldBefore(active', mon + 1)
      <3>1. Owner[r[1]] < mon + 1
        BY <1>1, <2>2, <2>4
      <3>2. QED
        BY <2>1, <2>2, <3>1, EventHolds
    <2>5. LastingReport(reported') => LastingReport(reported) \/ Owner[r[1]] <= mon
      BY <2>1 DEF LastingReport
    <2>6. LastingReport(reported') => HeldBefore(active', mon + 1)
      BY <2>3, <2>4, <2>5
    <2>7. loop' \in {"onState", "onHalt"} /\ mon' = mon /\ lock' = "loop"
      BY <1>5, <2>1 DEF MonitorReports, FirstCallback, PassInv
    <2>8. QED
      BY <2>6, <2>7 DEF PassInv, Callback, HeldBefore
  <1>6. CASE LoopCallbackReturns
    <2>1. UNCHANGED <<state, active, reported>>
      BY <1>6 DEF LoopCallbackReturns
    <2>2. CASE loop \in {"onHalt", "errHalt"} /\ Advance
      <3>1. lock = "loop" /\ (LastingReport(reported') => HeldBefore(active', mon + 1))
        BY <2>1, <2>2 DEF PassInv, Callback
      <3>2. QED
        BY <2>2, <3>1, AdvanceHolds
    <2>3. CASE /\ loop \in {"onState", "errState"}
               /\ loop' \in {"onHalt", "errHalt"} /\ UNCHANGED <<mon, lock>>
      BY <2>1, <2>3 DEF PassInv, Callback, HeldBefore
    <2>4. CASE loop \in {"intState", "intHalt"} /\ loop' \in {"intHalt", "sleep"}
      BY <2>1, <2>4 DEF PassInv, Callback, IsHalted
    <2>5. QED
      BY <1>6, <2>2, <2>3, <2>4 DEF LoopCallbackReturns
  <1>7. CASE MonitorCallbackRaises
    <2>1. /\ LastingReport(reported) => HeldBefore(active, mon + 1)
          /\ ProcessHaltEvent(ControllerError, SOFT)
          /\ UNCHANGED <<mon, reported>>
          /\ loop' \in {"errState", "errHalt"} /\ lock' = "loop"
      BY <1>7 DEF MonitorCallbackRaises, FirstCallback, PassInv, Callback
    <2>2. LastingReport(reported') => HeldBefore(active', mon + 1)
      BY <2>1, EventHolds, ControllerAssumption DEF Level
    <2>3. QED
      BY <2>1, <2>2 DEF PassInv, Callback, HeldBefore
  <1>8. CASE ErrorCallbackRaises \/ InternalCallbackRaises
    BY <1>8 DEF ErrorCallbackRaises, InternalCallbackRaises, PassInv, Callback
  <1>9. CASE HandleInternalError
    <2>1. /\ ProcessHaltEvent(ControllerError, SOFT)
          /\ loop' \in {"intState", "intHalt"}
      BY <1>9 DEF HandleInternalError, FirstCallback
    <2>2. IsHalted'
      BY <2>1, EventHalts DEF Level
    <2>3. QED
      BY <2>1, <2>2 DEF PassInv, Callback
  <1>10. ASSUME NEW c \in Caller, CallerStep(c)
         PROVE  PassInv'
    <2>1. Yielded /\ UNCHANGED <<loop, mon, reported>>
      BY <1>10 DEF CallerStep, RequestHalt, ApplyHalt, CallResume, ApplyResume, Validate,
                   GuardPasses, GuardFails, CallerCallbackReturns, CallerAborts
    <2>2. ~MonitorHealthy
      BY <2>1 DEF MonitorHealthy, Yielded
    <2>3. lock = "loop" => lock' = "loop"
      BY <1>10 DEF CallerStep, RequestHalt, ApplyHalt, CallResume, ApplyResume, Validate,
                   GuardPasses, GuardFails, CallerCallbackReturns, CallerAborts
    <2>4. \/ lock # "loop" \/ UNCHANGED active
          \/ \E t \in Trigger : ProcessHaltEvent(t, HARD)
      BY <1>10 DEF CallerStep, RequestHalt, ApplyHalt, CallResume, ApplyResume, Validate,
                   GuardPasses, GuardFails, CallerCallbackReturns, CallerAborts
    <2>5. QED
      BY <2>1, <2>2, <2>3, <2>4, OthersHold
  <1>11. CASE UNCHANGED vars
    BY <1>11 DEF vars, PassInv, HeldBefore, IsHalted
  <1>12. QED
    BY <1>2, <1>3, <1>4, <1>5, <1>6, <1>7, <1>8, <1>9, <1>10, <1>11 DEF Next, LoopStep

\* A pass in which a monitor reported a halt that no monitor after it owns leaves the
\* system halted, whatever the monitors after it cleared and the callbacks, callers and
\* guards did: engine.py:553-617.
THEOREM LastingReportHaltsHolds ==
    ASSUME HaltReports
    PROVE  Spec => []LastingReportHalts
  <1>1. Init => PassInv
    BY DEF Init, PassInv, Callback, LastingReport
  <1>2. TypeOK /\ TypeOK' /\ StateCoversTriggers' /\ PassInv
        /\ [Next]_vars => PassInv'
    BY PassStep
  <1>3. PassInv => LastingReportHalts
    BY DEF PassInv, LastingReportHalts, LastingReport
  <1>4. QED
    BY <1>1, <1>2, <1>3, TypeCorrect, CoversTriggers, PTL DEF Spec
-------------------------------------------------------------------------------
(* The asyncio lock.  What HaltTakesEffect needs besides fairness: nobody keeps *)
(* the lock, nobody waits for a task that waits, passes and calls have few      *)
(* steps, and a halt that leaves the wait has taken effect.                     *)

\* where the loop is inside "async with self._lock"
Holding == {"checking", "onState", "onHalt", "errState", "errHalt", "intState", "intHalt"}

LockInv ==
    /\ boot # "up" => ~running /\ loop = "none"
    /\ lock = "loop" <=> loop \in Holding
    /\ \A c \in Caller : lock = c => pc[c] \in {"onState", "onHalt"}
    /\ loop \notin {"none", "dead"} => running

\* guards: the loop can do its next step, and so can caller c
LoopGoesOn ==
    \/ loop \in Holding
    \/ loop \in {"wantLock", "wantErrLock"} /\ lock = "free"
    \/ loop = "sleep" /\ running
CallerGoesOn(c) ==
    /\ Yielded
    /\ \/ pc[c] \in {"guard", "onState", "onHalt"}
       \/ pc[c] \in {"haltWait", "resumeWait"} /\ lock = "free"

\* Whoever cannot go on waits for the holder of the lock, which can.
LockMovesOn ==
    /\ loop \notin {"none", "dead"} =>
          LoopGoesOn \/ \E d \in Caller : lock = d /\ CallerGoesOn(d)
    /\ \A c \in Caller : pc[c] # "idle" =>
          \/ CallerGoesOn(c)
          \/ loop \in Holding
          \/ \E d \in Caller : lock = d /\ CallerGoesOn(d)

\* what is left of a pass of the loop, its wait for the lock included: five steps
\* for each monitor whose turn has not ended, and three for _handle_internal_error
PassLeft ==
    LET turns == 5 * (MonitorCount - mon) + 3
    IN  CASE loop = "wantLock"    -> 5 * MonitorCount + 4
          [] loop = "checking"    -> turns + 5
          [] loop = "onState"     -> turns + 4
          [] loop = "onHalt"      -> turns + 3
          [] loop = "errState"    -> turns + 2
          [] loop = "errHalt"     -> turns + 1
          [] loop = "wantErrLock" -> 3
          [] loop = "intState"    -> 2
          [] loop = "intHalt"     -> 1
          [] OTHER                -> 0

CallLeft(c) ==
    CASE pc[c] \in {"haltWait", "guard"} -> 3
      [] pc[c] = "onState"               -> 2
      [] pc[c] \in {"onHalt", "resumeWait"} -> 1
      [] OTHER                           -> 0

PassesBounded == PassLeft \in 0 .. 5 * MonitorCount + 4

\* Each step of a pass, and of a call, leaves less of it.
PassesShorten ==
    [][/\ loop \notin {"none", "sleep", "dead"} =>
              UNCHANGED <<loop, mon>> \/ PassLeft' < PassLeft
       /\ \A c \in Caller : pc[c] # "idle" => pc'[c] = pc[c] \/ CallLeft(c)' < CallLeft(c)]_vars

\* A call of request_halt leaves its wait for the lock with the halt in effect, or
\* because it gave up.
WaitEndsInHalt ==
    [][\A c \in Caller : pc[c] = "haltWait" =>
          \/ pc'[c] = "haltWait" /\ req'[c] = req[c]
          \/ pc'[c] = "idle"
          \/ Severity(state') >= Severity(StateOf(req[c][2]))]_vars

\* Every step keeps the discipline of the lock.
LEMMA LockStep ==
    ASSUME TypeOK, LockInv, [Next]_vars
    PROVE  LockInv'
  <1> USE ControllerAssumption DEF LockInv, Holding, TypeOK, EngineTypeOK
  <1>1. CASE BootStep
    BY <1>1 DEF BootStep, StartCheck, StartPasses, StartFails, StartCallbackReturns,
                StartAborts, Stop, FirstCallback, Yielded
  <1>2. CASE LoopStep
    <2>1. CASE LoopWakes \/ BeginPass
      BY <2>1 DEF LoopWakes, BeginPass
    <2>2. CASE MonitorHealthy \/ MonitorReports
      BY <2>2 DEF MonitorHealthy, MonitorReports, Advance, FirstCallback
    <2>3. CASE LoopCallbackReturns
      BY <2>3 DEF LoopCallbackReturns, Advance
    <2>4. CASE MonitorCallbackRaises \/ HandleInternalError
      BY <2>4 DEF MonitorCallbackRaises, HandleInternalError, FirstCallback
    <2>5. CASE ErrorCallbackRaises \/ InternalCallbackRaises
      BY <2>5 DEF ErrorCallbackRaises, InternalCallbackRaises
    <2>6. QED
      BY <1>2, <2>1, <2>2, <2>3, <2>4, <2>5 DEF LoopStep
  <1>3. ASSUME NEW c \in Caller, CallerStep(c)
        PROVE  LockInv'
    <2>0. UNCHANGED <<boot, running, loop>> /\ c # "free" /\ c # "loop"
      BY <1>3 DEF CallerStep, RequestHalt, ApplyHalt, CallResume, ApplyResume, Validate,
                  GuardPasses, GuardFails, CallerCallbackReturns, CallerAborts
    <2>1. CASE ApplyHalt(c)
      BY <2>0, <2>1 DEF ApplyHalt, FirstCallback
    <2>2. CASE CallerCallbackReturns(c) \/ CallerAborts(c)
      BY <2>0, <2>2 DEF CallerCallbackReturns, CallerAborts
    <2>3. CASE RequestHalt(c) \/ CallResume(c) \/ ApplyResume(c)
      BY <2>0, <2>3 DEF RequestHalt, CallResume, ApplyResume
    <2>4. CASE Validate(c) \/ GuardPasses(c) \/ GuardFails(c)
      BY <2>0, <2>4 DEF Validate, GuardPasses, GuardFails, FirstCallback
    <2>5. QED
      BY <1>3, <2>1, <2>2, <2>3, <2>4 DEF CallerStep
  <1>4. CASE UNCHANGED vars
    BY <1>4 DEF vars
  <1>5. QED
    BY <1>1, <1>2, <1>3, <1>4 DEF Next

\* The lock is never kept, and what holds it holds it for good.
LEMMA LockHolds == Spec => []LockInv
  <1>1. Init => LockInv
    BY ControllerAssumption DEF Init, LockInv, Holding
  <1>2. TypeOK /\ LockInv /\ [Next]_vars => LockInv'
    BY LockStep
  <1>3. QED
    BY <1>1, <1>2, TypeCorrect, PTL DEF Spec

\* Each task of the controller that has something to do can do its next step, or waits
\* for the lock, whose holder can do its own: engine.py:553-617, 619-664.
THEOREM NoDeadlock == Spec => []LockMovesOn
  <1>1. TypeOK /\ LockInv => LockMovesOn
    <2> SUFFICES ASSUME TypeOK, LockInv
                 PROVE  LockMovesOn
      OBVIOUS
    <2>1. lock = "free" \/ lock = "loop" \/ \E d \in Caller : lock = d
      BY DEF TypeOK, EngineTypeOK
    <2>2. ASSUME NEW d \in Caller, lock = d
          PROVE  CallerGoesOn(d)
      BY <2>2, ControllerAssumption DEF LockInv, Holding, CallerGoesOn, Yielded
    <2>3. loop \notin {"none", "dead"} =>
             LoopGoesOn \/ \E d \in Caller : lock = d /\ CallerGoesOn(d)
      BY <2>1, <2>2 DEF LockInv, Holding, LoopGoesOn, TypeOK, EngineTypeOK, LoopPC
    <2>4. ASSUME NEW c \in Caller, pc[c] # "idle"
          PROVE  \/ CallerGoesOn(c)
                 \/ loop \in Holding
                 \/ \E d \in Caller : lock = d /\ CallerGoesOn(d)
      <3>1. CASE loop \in Holding
        BY <3>1
      <3>2. CASE loop \notin Holding
        <4>1. Yielded /\ lock # "loop"
          BY <3>2 DEF LockInv, Holding, Yielded
        <4>2. pc[c] \in {"haltWait", "resumeWait", "guard", "onState", "onHalt"}
          BY <2>4 DEF TypeOK, EngineTypeOK, CallerPC
        <4>3. QED
          BY <2>1, <2>2, <4>1, <4>2 DEF CallerGoesOn
      <3>3. QED
        BY <3>1, <3>2
    <2>5. QED
      BY <2>3, <2>4 DEF LockMovesOn
  <1>2. QED
    BY <1>1, TypeCorrect, LockHolds, PTL

\* A step of the loop or of another task leaves less of the pass, or as much.
LEMMA PassStepShortens ==
    ASSUME TypeOK, LockInv, [Next]_vars, loop \notin {"none", "sleep", "dead"}
    PROVE  UNCHANGED <<loop, mon>> \/ PassLeft' < PassLeft
  <1> USE ControllerAssumption DEF TypeOK, EngineTypeOK, Monitor, PassLeft
  <1>0. /\ MonitorCount \in Nat \ {0} /\ mon \in Nat
        /\ 1 <= mon /\ mon <= MonitorCount
    OBVIOUS
  <1>1. CASE BootStep
    <2>1. CASE Stop
      BY <1>0, <2>1 DEF Stop, Yielded, LoopPC
    <2>2. CASE StartPasses
      BY <2>2 DEF StartPasses, LockInv
    <2>3. QED
      BY <1>1, <2>1, <2>2 DEF BootStep, StartCheck, StartFails, StartCallbackReturns,
                              StartAborts
  <1>2. CASE BeginPass \/ LoopWakes
    BY <1>0, <1>2 DEF BeginPass, LoopWakes
  <1>3. CASE MonitorHealthy
    BY <1>0, <1>3 DEF MonitorHealthy, Advance
  <1>4. CASE MonitorReports
    BY <1>0, <1>4 DEF MonitorReports, FirstCallback
  <1>5. CASE LoopCallbackReturns
    BY <1>0, <1>5 DEF LoopCallbackReturns, Advance
  <1>6. CASE MonitorCallbackRaises \/ ErrorCallbackRaises
    BY <1>0, <1>6 DEF MonitorCallbackRaises, ErrorCallbackRaises, FirstCallback
  <1>7. CASE HandleInternalError \/ InternalCallbackRaises
    BY <1>0, <1>7 DEF HandleInternalError, InternalCallbackRaises, FirstCallback
  <1>8. ASSUME NEW c \in Caller, CallerStep(c)
        PROVE  UNCHANGED <<loop, mon>>
    BY <1>8 DEF CallerStep, RequestHalt, ApplyHalt, CallResume, ApplyResume, Validate,
                GuardPasses, GuardFails, CallerCallbackReturns, CallerAborts
  <1>9. CASE UNCHANGED vars
    BY <1>9 DEF vars
  <1>10. QED
    BY <1>1, <1>2, <1>3, <1>4, <1>5, <1>6, <1>7, <1>8, <1>9 DEF Next, LoopStep

\* What a step of another task leaves of a call is what there was.
LEMMA CallStepShortens ==
    ASSUME TypeOK, [Next]_vars, NEW c \in Caller, pc[c] # "idle"
    PROVE  pc'[c] = pc[c] \/ CallLeft(c)' < CallLeft(c)
  <1> USE DEF TypeOK, EngineTypeOK
  <1>1. ASSUME NEW d \in Caller, CallerStep(d), d # c
        PROVE  pc'[c] = pc[c]
    BY <1>1 DEF CallerStep, RequestHalt, ApplyHalt, CallResume, ApplyResume, Validate,
                GuardPasses, GuardFails, CallerCallbackReturns, CallerAborts
  <1>2. CASE CallerStep(c)
    <2>1. CASE ApplyHalt(c) \/ ApplyResume(c)
      BY <2>1 DEF ApplyHalt, ApplyResume, FirstCallback, CallLeft
    <2>2. CASE GuardPasses(c) \/ GuardFails(c)
      BY <2>2 DEF GuardPasses, GuardFails, FirstCallback, CallLeft
    <2>3. CASE CallerCallbackReturns(c) \/ CallerAborts(c)
      BY <2>3 DEF CallerCallbackReturns, CallerAborts, CallLeft, CallerPC
    <2>4. QED
      BY <1>2, <2>1, <2>2, <2>3 DEF CallerStep, RequestHalt, CallResume, Validate
  <1>3. CASE BootStep
    BY <1>3 DEF BootStep, StartCheck, StartPasses, StartFails, StartCallbackReturns,
                StartAborts, Stop
  <1>4. CASE LoopStep
    BY <1>4 DEF LoopStep, LoopWakes, BeginPass, MonitorHealthy, MonitorReports,
                LoopCallbackReturns, MonitorCallbackRaises, ErrorCallbackRaises,
                HandleInternalError, InternalCallbackRaises
  <1>5. CASE UNCHANGED vars
    BY <1>5 DEF vars
  <1>6. QED
    BY <1>1, <1>2, <1>3, <1>4, <1>5 DEF Next

\* A pass of the loop, and each call, has a number of steps that the monitors bound,
\* whatever the callbacks raise: engine.py:539-617, 619-664.
THEOREM PassesAreShort == Spec => []PassesBounded /\ PassesShorten
  <1>1. TypeOK => PassesBounded
    BY ControllerAssumption DEF TypeOK, EngineTypeOK, Monitor, PassesBounded, PassLeft
  <1>2. TypeOK /\ LockInv /\ [Next]_vars =>
            /\ loop \notin {"none", "sleep", "dead"} =>
                  UNCHANGED <<loop, mon>> \/ PassLeft' < PassLeft
            /\ \A c \in Caller :
                  pc[c] # "idle" => pc'[c] = pc[c] \/ CallLeft(c)' < CallLeft(c)
    BY PassStepShortens, CallStepShortens
  <1>3. QED
    BY <1>1, <1>2, TypeCorrect, LockHolds, PTL DEF Spec, PassesShorten

\* What is asked for stays asked for until it is in effect, whoever else has the lock
\* in between: engine.py:619-664.
THEOREM WaitEndsInHaltHolds == Spec => WaitEndsInHalt
  <1>1. ASSUME TypeOK, [Next]_vars, NEW c \in Caller, pc[c] = "haltWait"
        PROVE  \/ pc'[c] = "haltWait" /\ req'[c] = req[c]
               \/ pc'[c] = "idle"
               \/ Severity(state') >= Severity(StateOf(req[c][2]))
    <2> USE <1>1 DEF TypeOK, EngineTypeOK
    <2>1. CASE ApplyHalt(c)
      <3>1. req[c][1] \in Trigger /\ req[c][2] \in Level
        OBVIOUS
      <3>2. QED
        BY <2>1, <3>1, EventEscalates DEF ApplyHalt
    <2>2. CASE CallerAborts(c)
      BY <2>2 DEF CallerAborts
    <2>3. ASSUME NEW d \in Caller, CallerStep(d), d # c
          PROVE  pc'[c] = pc[c] /\ req'[c] = req[c]
      BY <2>3 DEF CallerStep, RequestHalt, ApplyHalt, CallResume, ApplyResume, Validate,
                  GuardPasses, GuardFails, CallerCallbackReturns, CallerAborts
    <2>4. CASE CallerStep(c)
      BY <2>1, <2>2, <2>4
      DEF CallerStep, RequestHalt, CallResume, ApplyResume, Validate, GuardPasses,
          GuardFails, CallerCallbackReturns
    <2>5. CASE BootStep
      BY <2>5 DEF BootStep, StartCheck, StartPasses, StartFails, StartCallbackReturns,
                  StartAborts, Stop
    <2>6. CASE LoopStep
      BY <2>6 DEF LoopStep, LoopWakes, BeginPass, MonitorHealthy, MonitorReports,
                  LoopCallbackReturns, MonitorCallbackRaises, ErrorCallbackRaises,
                  HandleInternalError, InternalCallbackRaises
    <2>7. CASE UNCHANGED vars
      BY <2>7 DEF vars
    <2>8. QED
      BY <2>3, <2>4, <2>5, <2>6, <2>7 DEF Next
  <1>2. TypeOK /\ [Next]_vars =>
            \A c \in Caller : pc[c] = "haltWait" =>
                \/ pc'[c] = "haltWait" /\ req'[c] = req[c]
                \/ pc'[c] = "idle"
                \/ Severity(state') >= Severity(StateOf(req[c][2]))
    BY <1>1
  <1>3. QED
    BY <1>2, TypeCorrect, PTL DEF Spec, WaitEndsInHalt
-------------------------------------------------------------------------------
(* What MonitoredHaltReleased needs besides fairness: a pass without a report    *)
(* clears all the triggers of the monitored categories, and lifts the soft halt *)
(* that they were the last to hold.                                             *)

\* The loop does not await in a pass that has reported nothing, so that nobody adds a
\* trigger to those already cleared.
CleanInv ==
    /\ loop \in Callback => reported # {}
    /\ loop = "checking" /\ reported = {} =>
          \A t \in Trigger : Owner[t] # 0 /\ Owner[t] < mon => active[t] = NoEvent

CleanPassReleases ==
    [][loop = "checking" /\ loop' \in {"checking", "sleep"} /\ reported = {} =>
          /\ loop' = "sleep" => \A t \in Trigger : Owner[t] # 0 => active'[t] = NoEvent
          /\ /\ state = "HALTED_SOFT"
             /\ \E t \in Trigger : active[t] # NoEvent
             /\ \A t \in Trigger : active'[t] = NoEvent
             => state' = "RUNNING"]_vars

\* A step at "checking" is one of the loop, which is healthy or reports.
LEMMA CheckingSteps ==
    ASSUME [Next]_vars, loop = "checking"
    PROVE  MonitorHealthy \/ MonitorReports \/ UNCHANGED vars
  <1>1. ~Yielded
    BY DEF Yielded
  <1>2. ~BootStep
    BY <1>1 DEF BootStep, StartCheck, StartPasses, StartFails, StartCallbackReturns,
                StartAborts, Stop
  <1>3. \A c \in Caller : ~CallerStep(c)
    BY <1>1 DEF CallerStep, RequestHalt, ApplyHalt, CallResume, ApplyResume, Validate,
                GuardPasses, GuardFails, CallerCallbackReturns, CallerAborts
  <1>4. ASSUME LoopStep
        PROVE  MonitorHealthy \/ MonitorReports
    BY <1>4 DEF LoopStep, LoopWakes, BeginPass, LoopCallbackReturns,
                MonitorCallbackRaises, ErrorCallbackRaises, HandleInternalError,
                InternalCallbackRaises
  <1>5. QED
    BY <1>2, <1>3, <1>4 DEF Next

\* What a healthy monitor's turn leaves of the triggers.
LEMMA HealthyClears ==
    ASSUME TypeOK, CleanInv, MonitorHealthy, reported = {}
    PROVE  \A t \in Trigger : Owner[t] # 0 /\ Owner[t] < mon + 1 => active'[t] = NoEvent
  <1>1. \A t \in Trigger :
            active'[t] = IF Owner[t] = mon THEN NoEvent ELSE active[t]
    BY DEF MonitorHealthy, ClearTriggers
  <1>2. \A t \in Trigger : Owner[t] < mon + 1 => Owner[t] = mon \/ Owner[t] < mon
    BY ControllerAssumption DEF TypeOK, EngineTypeOK, Monitor
  <1>3. QED
    BY <1>1, <1>2 DEF CleanInv, MonitorHealthy

\* The pass that ends has had the turns of all the monitors.
LEMMA LastTurn ==
    ASSUME TypeOK, MonitorHealthy, loop' = "sleep"
    PROVE  \A t \in Trigger : Owner[t] < mon + 1
  <1>1. ~(mon < MonitorCount)
    BY DEF MonitorHealthy, Advance
  <1>2. mon \in Int /\ MonitorCount \in Int /\ Owner \in [Trigger -> 0 .. MonitorCount]
    BY ControllerAssumption DEF TypeOK, EngineTypeOK, Monitor
  <1>3. QED
    BY <1>1, <1>2

\* A pass that has reported nothing goes on with everything cleared so far.
LEMMA CleanStep ==
    ASSUME TypeOK, CleanInv, [Next]_vars
    PROVE  CleanInv'
  <1> USE ControllerAssumption DEF TypeOK, EngineTypeOK, Callback
  <1>1. CASE loop = "checking"
    <2>1. CASE MonitorHealthy
      <3>1. reported' = reported /\ loop' \in {"checking", "sleep"}
            /\ (loop' = "checking" => mon' = mon + 1)
        BY <2>1 DEF MonitorHealthy, Advance
      <3>2. QED
        BY <2>1, <3>1, HealthyClears DEF CleanInv
    <2>2. CASE MonitorReports
      BY <2>2 DEF MonitorReports, FirstCallback, CleanInv
    <2>3. CASE UNCHANGED vars
      BY <2>3 DEF vars, CleanInv
    <2>4. QED
      BY <1>1, <2>1, <2>2, <2>3, CheckingSteps
  <1>2. CASE loop # "checking"
    <2>1. CASE BeginPass
      BY <2>1 DEF BeginPass, CleanInv, Monitor
    <2>2. CASE LoopCallbackReturns
      BY <2>2 DEF LoopCallbackReturns, Advance, CleanInv
    <2>3. CASE MonitorCallbackRaises
      BY <2>3 DEF MonitorCallbackRaises, FirstCallback, CleanInv
    <2>4. CASE LoopWakes \/ ErrorCallbackRaises \/ HandleInternalError
                 \/ InternalCallbackRaises
      BY <2>4 DEF LoopWakes, ErrorCallbackRaises, HandleInternalError,
                  InternalCallbackRaises, FirstCallback, CleanInv
    <2>5. CASE BootStep
      <3>1. reported' = reported /\ loop' \in {loop, "none", "wantLock"}
        BY <2>5 DEF BootStep, StartCheck, StartPasses, StartFails, StartCallbackReturns,
                    StartAborts, Stop
      <3>2. QED
        BY <1>2, <3>1 DEF CleanInv
    <2>6. ASSUME NEW c \in Caller, CallerStep(c)
          PROVE  CleanInv'
      <3>1. UNCHANGED <<reported, loop>>
        BY <2>6 DEF CallerStep, RequestHalt, ApplyHalt, CallResume, ApplyResume, Validate,
                    GuardPasses, GuardFails, CallerCallbackReturns, CallerAborts
      <3>2. QED
        BY <1>2, <3>1 DEF CleanInv
    <2>7. CASE UNCHANGED vars
      BY <1>2, <2>7 DEF vars, CleanInv
    <2>8. CASE MonitorHealthy \/ MonitorReports
      BY <1>2, <2>8 DEF MonitorHealthy, MonitorReports
    <2>9. QED
      BY <2>1, <2>2, <2>3, <2>4, <2>5, <2>6, <2>7, <2>8 DEF Next, LoopStep
  <1>3. QED
    BY <1>1, <1>2

\* With allow_soft_auto_resume, a pass in which all monitors are healthy releases a
\* system that only their triggers kept halted: engine.py:553-617,
\* state_machine.py:298-340.
THEOREM CleanPassReleasesHolds ==
    ASSUME AllowSoftAutoResume
    PROVE  Spec => CleanPassReleases
  <1>1. Init => CleanInv
    BY DEF Init, CleanInv, Callback
  <1>2. TypeOK /\ CleanInv /\ [Next]_vars => CleanInv'
    BY CleanStep
  <1>3. ASSUME TypeOK, CleanInv, [Next]_vars,
               loop = "checking", loop' \in {"checking", "sleep"}, reported = {}
        PROVE  /\ loop' = "sleep" => \A t \in Trigger : Owner[t] # 0 => active'[t] = NoEvent
               /\ /\ state = "HALTED_SOFT"
                  /\ \E t \in Trigger : active[t] # NoEvent
                  /\ \A t \in Trigger : active'[t] = NoEvent
                  => state' = "RUNNING"
    <2>1. CASE MonitorHealthy
      <3>1. \A t \in Trigger : Owner[t] # 0 /\ Owner[t] < mon + 1 => active'[t] = NoEvent
        BY <1>3, <2>1, HealthyClears
      <3>2. loop' = "sleep" => \A t \in Trigger : Owner[t] < mon + 1
        BY <1>3, <2>1, LastTurn
      <3>3. /\ state = "HALTED_SOFT"
            /\ \E t \in Trigger : active[t] # NoEvent
            /\ \A t \in Trigger : active'[t] = NoEvent
            => state' = "RUNNING"
        BY <2>1 DEF MonitorHealthy, ClearTriggers, AutoResumes, NoEvent
      <3>4. QED
        BY <3>1, <3>2, <3>3
    <2>2. CASE MonitorReports
      BY <1>3, <2>2 DEF MonitorReports, FirstCallback
    <2>3. CASE UNCHANGED vars
      BY <1>3, <2>3 DEF vars
    <2>4. QED
      BY <1>3, <2>1, <2>2, <2>3, CheckingSteps
  <1>4. TypeOK /\ CleanInv /\ [Next]_vars =>
            (loop = "checking" /\ loop' \in {"checking", "sleep"} /\ reported = {} =>
                /\ loop' = "sleep" =>
                      \A t \in Trigger : Owner[t] # 0 => active'[t] = NoEvent
                /\ /\ state = "HALTED_SOFT"
                   /\ \E t \in Trigger : active[t] # NoEvent
                   /\ \A t \in Trigger : active'[t] = NoEvent
                   => state' = "RUNNING")
    BY <1>3
  <1>5. QED
    BY <1>1, <1>2, <1>4, TypeCorrect, PTL DEF Spec, CleanPassReleases
===============================================================================
