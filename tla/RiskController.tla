---------------------------- MODULE RiskController ----------------------------
(* The System Risk Controller engine (system_risk_controller/engine.py): the  *)
(* monitor loop, the data reality guard, operator calls, callbacks and the     *)
(* asyncio lock, as tasks of one event loop.  A task is interrupted only where *)
(* the code awaits: the lock, a callback, the guard's price request, a sleep.  *)
(* The state machine itself is RiskStateMachine, and this module implements it.*)
EXTENDS RiskStateMachine, FiniteSets

CONSTANTS
    Caller,           \* tasks that call request_halt, request_resume, validate_before_execution
    MonitorCount,     \* the monitors, in the order of SystemRiskController._monitors
    Owner,            \* trigger -> the monitor of its category, 0 for MANUAL and INTERNAL
    Reports,          \* monitor -> the <<trigger, level>> pairs its check may report
    CallerHalts,      \* the <<trigger, level>> pairs request_halt is called with
    GuardTriggers,    \* triggers of a failed data reality check
    ControllerError,  \* IN_CONTROLLER_ERROR
    HaltOnFailure     \* DataRealityGuardConfig.halt_on_failure

Monitor == 1 .. MonitorCount

ASSUME ControllerAssumption ==
    /\ MonitorCount \in Nat \ {0}
    /\ Owner \in [Trigger -> 0 .. MonitorCount]
    /\ Reports \in [Monitor -> SUBSET (Trigger \X Level)]
    /\ CallerHalts \in SUBSET (Trigger \X Level)
    /\ GuardTriggers \in SUBSET Trigger
    /\ ControllerError \in Trigger /\ Owner[ControllerError] = 0
    /\ HaltOnFailure \in BOOLEAN
    /\ Caller \cap {"free", "loop"} = {}

VARIABLES
    running,   \* SystemRiskController._running
    boot,      \* where the task that runs start() and stop() is
    loop,      \* where the _monitor_loop task is
    mon,       \* the monitor whose turn it is in _run_all_monitors
    lock,      \* holder of SystemRiskController._lock
    pc,        \* where each caller is
    req,       \* the halt each caller asks for
    reported   \* observation: who reported which trigger in the current or last pass

vars == <<state, active, running, boot, loop, mon, lock, pc, req, reported>>

BootPC == {"down", "guard", "onState", "onHalt", "up"}
LoopPC == {"none", "sleep", "wantLock", "checking", "onState", "onHalt",
           "errState", "errHalt", "wantErrLock", "intState", "intHalt", "dead"}
CallerPC == {"idle", "haltWait", "resumeWait", "guard", "onState", "onHalt"}

\* The monitor loop checks monitors without awaiting in between: nothing else
\* runs while it is at "checking".
Yielded == loop # "checking"

Init ==
    /\ SMInit
    /\ running = FALSE
    /\ boot = "down"
    /\ loop = "none"
    /\ mon = 1
    /\ lock = "free"
    /\ pc = [c \in Caller |-> "idle"]
    /\ req \in [Caller -> CallerHalts]
    /\ reported = {}

-------------------------------------------------------------------------------
(* _process_halt_event: the state machine's step, then on_state_change if the *)
(* state changed, then on_halt_event.                                          *)

FirstCallback(l, stateStep, haltStep) == IF Escalates(l) THEN stateStep ELSE haltStep

(* start() and stop(), called by the module registry *)

StartCheck ==
    /\ Yielded /\ boot = "down" /\ ~running
    /\ boot' = "guard"
    /\ UNCHANGED <<state, active, running, loop, mon, lock, pc, req, reported>>

StartPasses ==
    /\ Yielded /\ boot = "guard"
    /\ running' = TRUE
    /\ boot' = "up"
    /\ loop' = "wantLock"
    /\ UNCHANGED <<state, active, mon, lock, pc, req, reported>>

\* a mutant: the failed check is only logged
StartFailsSilently ==
    /\ Yielded /\ boot = "guard"
    /\ boot' = "up"
    /\ running' = TRUE
    /\ UNCHANGED <<state, active, loop, mon, lock, pc, req, reported>>

\* The startup check fails: the controller counts as running, but no monitor
\* task is created.
StartFails ==
    /\ Yielded /\ boot = "guard"
    /\ IF HaltOnFailure
       THEN \E t \in GuardTriggers :
                /\ ProcessHaltEvent(t, HARD)
                /\ boot' = FirstCallback(HARD, "onState", "onHalt")
                /\ UNCHANGED running
       ELSE /\ boot' = "up"
            /\ running' = TRUE
            /\ UNCHANGED <<state, active>>
    /\ UNCHANGED <<loop, mon, lock, pc, req, reported>>

StartCallbackReturns ==
    /\ Yielded
    /\ \/ boot = "onState" /\ boot' = "onHalt" /\ UNCHANGED running
       \/ boot = "onHalt" /\ boot' = "up" /\ running' = TRUE
    /\ UNCHANGED <<state, active, loop, mon, lock, pc, req, reported>>

\* A callback raises out of start(), or the registry's start timeout cancels it.
StartAborts ==
    /\ Yielded /\ boot \in {"guard", "onState", "onHalt"}
    /\ boot' = "down"
    /\ UNCHANGED <<state, active, running, loop, mon, lock, pc, req, reported>>

\* stop(): cancels the monitor task wherever it awaits, which releases the lock
Stop ==
    /\ Yielded /\ boot = "up"
    /\ running' = FALSE
    /\ boot' = "down"
    /\ loop' = "none"
    /\ lock' = IF lock = "loop" THEN "free" ELSE lock
    /\ UNCHANGED <<state, active, mon, pc, req, reported>>

-------------------------------------------------------------------------------
(* _monitor_loop, _run_all_monitors, _handle_internal_error *)

LoopWakes ==
    /\ loop = "sleep" /\ running
    /\ loop' = "wantLock"
    /\ UNCHANGED <<state, active, running, boot, mon, lock, pc, req, reported>>

BeginPass ==
    /\ loop = "wantLock" /\ lock = "free"
    /\ loop' = "checking"
    /\ lock' = "loop"
    /\ mon' = 1
    /\ reported' = {}
    /\ UNCHANGED <<state, active, running, boot, pc, req>>

\* a mutant: off by one
AdvancePastLast ==
    IF mon <= MonitorCount
    THEN mon' = mon + 1 /\ loop' = "checking" /\ UNCHANGED lock
    ELSE loop' = "sleep" /\ lock' = "free" /\ UNCHANGED mon

\* on to the next monitor, or the end of the pass
Advance ==
    IF mon < MonitorCount
    THEN mon' = mon + 1 /\ loop' = "checking" /\ UNCHANGED lock
    ELSE loop' = "sleep" /\ lock' = "free" /\ UNCHANGED mon

\* a mutant: a healthy monitor clears nothing
MonitorHealthyKeeps ==
    /\ loop = "checking"
    /\ Advance
    /\ UNCHANGED <<state, active, running, boot, pc, req, reported>>

\* The monitor is healthy: _try_clear_monitor_triggers clears its category, and
\* an auto-resume on the way is not handed to on_state_change.
MonitorHealthy ==
    /\ loop = "checking"
    /\ ClearTriggers({t \in Trigger : Owner[t] = mon})
    /\ Advance
    /\ UNCHANGED <<running, boot, pc, req, reported>>

MonitorReports ==
    /\ loop = "checking"
    /\ \E r \in Reports[mon] :
        /\ ProcessHaltEvent(r[1], r[2])
        /\ loop' = FirstCallback(r[2], "onState", "onHalt")
        /\ reported' = reported \cup {<<mon, r[1]>>}
    /\ UNCHANGED <<running, boot, mon, lock, pc, req>>

LoopCallbackReturns ==
    /\ \/ /\ loop = "onState" /\ loop' = "onHalt" /\ UNCHANGED <<mon, lock>>
       \/ /\ loop = "errState" /\ loop' = "errHalt" /\ UNCHANGED <<mon, lock>>
       \/ /\ loop = "intState" /\ loop' = "intHalt" /\ UNCHANGED <<mon, lock>>
       \/ /\ loop \in {"onHalt", "errHalt"} /\ Advance
       \/ /\ loop = "intHalt" /\ loop' = "sleep" /\ lock' = "free" /\ UNCHANGED mon
    /\ UNCHANGED <<state, active, running, boot, pc, req, reported>>

\* A callback raises while a monitor's event is handled: the except branch of
\* _run_all_monitors reports IN_CONTROLLER_ERROR.
MonitorCallbackRaises ==
    /\ loop \in {"onState", "onHalt"}
    /\ ProcessHaltEvent(ControllerError, SOFT)
    /\ loop' = FirstCallback(SOFT, "errState", "errHalt")
    /\ UNCHANGED <<running, boot, mon, lock, pc, req, reported>>

\* It raises again: the exception leaves _run_all_monitors, releasing the lock,
\* and _monitor_loop calls _handle_internal_error.
ErrorCallbackRaises ==
    /\ loop \in {"errState", "errHalt"}
    /\ loop' = "wantErrLock"
    /\ lock' = "free"
    /\ UNCHANGED <<state, active, running, boot, mon, pc, req, reported>>

HandleInternalError ==
    /\ loop = "wantErrLock" /\ lock = "free"
    /\ ProcessHaltEvent(ControllerError, SOFT)
    /\ loop' = FirstCallback(SOFT, "intState", "intHalt")
    /\ lock' = "loop"
    /\ UNCHANGED <<running, boot, mon, pc, req, reported>>

\* a mutant: the task ends without releasing the lock
InternalErrorKeepsLock ==
    /\ loop \in {"intState", "intHalt"}
    /\ loop' = "dead"
    /\ UNCHANGED <<state, active, running, boot, mon, lock, pc, req, reported>>

\* It raises once more, and nothing catches it: the task ends.
InternalCallbackRaises ==
    /\ loop \in {"intState", "intHalt"}
    /\ loop' = "dead"
    /\ lock' = "free"
    /\ UNCHANGED <<state, active, running, boot, mon, pc, req, reported>>

-------------------------------------------------------------------------------
(* request_halt, request_resume and validate_before_execution *)

RequestHalt(c) ==
    /\ Yielded /\ pc[c] = "idle"
    /\ \E r \in CallerHalts : req' = [req EXCEPT ![c] = r]
    /\ pc' = [pc EXCEPT ![c] = "haltWait"]
    /\ UNCHANGED <<state, active, running, boot, loop, mon, lock, reported>>

ApplyHalt(c) ==
    /\ Yielded /\ pc[c] = "haltWait" /\ lock = "free"
    /\ ProcessHaltEvent(req[c][1], req[c][2])
    /\ pc' = [pc EXCEPT ![c] = FirstCallback(req[c][2], "onState", "onHalt")]
    /\ lock' = c
    /\ UNCHANGED <<running, boot, loop, mon, req, reported>>

CallResume(c) ==
    /\ Yielded /\ pc[c] = "idle"
    /\ pc' = [pc EXCEPT ![c] = "resumeWait"]
    /\ UNCHANGED <<state, active, running, boot, loop, mon, lock, req, reported>>

\* request_resume raises while it holds the lock, so the call ends here
ApplyResume(c) ==
    /\ Yielded /\ pc[c] = "resumeWait" /\ lock = "free"
    /\ \E force \in BOOLEAN : RequestResume(force)
    /\ pc' = [pc EXCEPT ![c] = "idle"]
    /\ UNCHANGED <<running, boot, loop, mon, lock, req, reported>>

\* validate_before_execution: a halted system is refused at once, else the
\* guard is asked, without the lock
Validate(c) ==
    /\ Yielded /\ pc[c] = "idle" /\ ~IsHalted
    /\ pc' = [pc EXCEPT ![c] = "guard"]
    /\ UNCHANGED <<state, active, running, boot, loop, mon, lock, req, reported>>

GuardPasses(c) ==
    /\ Yielded /\ pc[c] = "guard"
    /\ pc' = [pc EXCEPT ![c] = "idle"]
    /\ UNCHANGED <<state, active, running, boot, loop, mon, lock, req, reported>>

GuardFails(c) ==
    /\ Yielded /\ pc[c] = "guard" /\ HaltOnFailure
    /\ \E t \in GuardTriggers : ProcessHaltEvent(t, HARD)
    /\ pc' = [pc EXCEPT ![c] = FirstCallback(HARD, "onState", "onHalt")]
    /\ UNCHANGED <<running, boot, loop, mon, lock, req, reported>>

CallerCallbackReturns(c) ==
    /\ Yielded
    /\ \/ /\ pc[c] = "onState"
          /\ pc' = [pc EXCEPT ![c] = "onHalt"]
          /\ UNCHANGED lock
       \/ /\ pc[c] = "onHalt"
          /\ pc' = [pc EXCEPT ![c] = "idle"]
          /\ lock' = IF lock = c THEN "free" ELSE lock
    /\ UNCHANGED <<state, active, running, boot, loop, mon, req, reported>>

\* A callback raises out of the call, or the caller's task is cancelled (a
\* pipeline stage timing out): async with releases the lock.
CallerAborts(c) ==
    /\ Yielded /\ pc[c] # "idle"
    /\ pc' = [pc EXCEPT ![c] = "idle"]
    /\ lock' = IF lock = c THEN "free" ELSE lock
    /\ UNCHANGED <<state, active, running, boot, loop, mon, req, reported>>

-------------------------------------------------------------------------------
BootStep == StartCheck \/ StartPasses \/ StartFails \/ StartCallbackReturns \/ StartAborts \/ Stop

LoopStep ==
    \/ LoopWakes \/ BeginPass \/ MonitorHealthy \/ MonitorReports
    \/ LoopCallbackReturns \/ MonitorCallbackRaises \/ ErrorCallbackRaises
    \/ HandleInternalError \/ InternalCallbackRaises

CallerStep(c) ==
    \/ RequestHalt(c) \/ ApplyHalt(c) \/ CallResume(c) \/ ApplyResume(c)
    \/ Validate(c) \/ GuardPasses(c) \/ GuardFails(c)
    \/ CallerCallbackReturns(c) \/ CallerAborts(c)

Next == BootStep \/ LoopStep \/ \E c \in Caller : CallerStep(c)

Spec == Init /\ [][Next]_vars

\* A ready task of the event loop runs eventually, asyncio.Lock serves its
\* waiters in order, a callback ends and the guard's request times out.
Fairness ==
    /\ WF_vars(LoopWakes) /\ SF_vars(BeginPass)
    /\ WF_vars(MonitorHealthy \/ MonitorReports)
    /\ WF_vars(LoopCallbackReturns \/ MonitorCallbackRaises
                 \/ ErrorCallbackRaises \/ InternalCallbackRaises)
    /\ SF_vars(HandleInternalError)
    /\ SF_vars(StartPasses \/ StartFails) /\ SF_vars(StartCallbackReturns)
    /\ \A c \in Caller :
        /\ SF_vars(ApplyHalt(c)) /\ SF_vars(ApplyResume(c))
        /\ SF_vars(GuardPasses(c) \/ GuardFails(c))
        /\ SF_vars(CallerCallbackReturns(c))

FairSpec == Spec /\ Fairness

-------------------------------------------------------------------------------
EngineTypeOK ==
    /\ running \in BOOLEAN
    /\ boot \in BootPC
    /\ loop \in LoopPC
    /\ mon \in Monitor
    /\ lock \in {"free", "loop"} \cup Caller
    /\ pc \in [Caller -> CallerPC]
    /\ req \in [Caller -> Trigger \X Level]
    /\ reported \in SUBSET (Monitor \X Trigger)

TypeOK == SMTypeOK /\ EngineTypeOK

\* A controller that lets trades through while it counts as running is being
\* monitored: whatever ended the monitor task (a failed start, callbacks that
\* raised three times) left a halt behind that nothing can clear.
TradingImpliesMonitored ==
    running /\ CanTrade => loop \notin {"none", "dead"}

\* A pass ends halted if one of its monitors reported a trigger that no monitor after
\* it owns, whatever those cleared and whatever the callbacks did (engine.py:553-603).
\* What a slow check reports is owned by the processing monitor, and is lost if that
\* one comes later and is well.
LastingReportHalts ==
    loop = "sleep" /\ (\E r \in reported : Owner[r[2]] <= r[1]) => IsHalted

\* "Fail-safe (errors = HALT)" (monitors/base.py:14): a pass in which a monitor reported
\* anything ends halted.
FailSafePass ==
    loop = "sleep" /\ reported # {} => IsHalted

\* A halt that is asked for takes effect, however the monitor loop and other
\* callers contend for the lock, unless the caller gives up.
HaltTakesEffect ==
    \A c \in Caller, r \in CallerHalts :
        (pc[c] = "haltWait" /\ req[c] = r) ~>
            (Severity(state) >= Severity(StateOf(r[2])) \/ pc[c] = "idle")

\* Steps in which nothing new goes wrong: monitors are healthy, callbacks
\* return, nobody asks for anything or stops the controller.
Calm ==
    \/ LoopWakes \/ BeginPass \/ MonitorHealthy \/ LoopCallbackReturns
    \/ HandleInternalError \/ StartPasses \/ StartCallbackReturns
    \/ \E c \in Caller : \/ ApplyHalt(c) \/ ApplyResume(c) \/ GuardPasses(c)
                         \/ CallerCallbackReturns(c)

SoftHaltedBy(ts) ==
    /\ boot = "up" /\ loop \notin {"none", "dead"}
    /\ state = "HALTED_SOFT"
    /\ \E t \in Trigger : active[t] # NoEvent
    /\ \A t \in Trigger : active[t] # NoEvent => t \in ts

\* "HALTED_SOFT -> RUNNING: Auto when issue resolved" (state_machine.py:20), for
\* the triggers of the monitored categories: once all is calm, they do not keep
\* a monitored system halted.
MonitoredHaltReleased ==
    <>[][Calm]_vars => []<>~SoftHaltedBy({t \in Trigger : Owner[t] # 0})

\* The same of every trigger.
SoftHaltReleased == <>[][Calm]_vars => []<>~SoftHaltedBy(Trigger)
===============================================================================
