--------------------------- MODULE RiskStateMachine ---------------------------
(* The state machine of the System Risk Controller                           *)
(* (system_risk_controller/state_machine.py): the halt state of the platform  *)
(* and the halt triggers that are active.  One action per method; the module  *)
(* is both the part the controller (RiskController) is built from and the     *)
(* abstract specification the controller implements.                          *)
EXTENDS Integers

CONSTANTS
    Trigger,              \* HaltTrigger members
    AllowSoftAutoResume,  \* ResumeConfig.allow_soft_auto_resume
    RequireAckForHard     \* ResumeConfig.require_acknowledgment_for_hard

ASSUME ResumeConfigAssumption ==
    /\ AllowSoftAutoResume \in BOOLEAN
    /\ RequireAckForHard \in BOOLEAN

VARIABLES
    state,        \* StateMachineState.current_state
    active        \* active_triggers: the level of each active trigger, or NoEvent

smVars == <<state, active>>

SystemState ==
    {"RUNNING", "DEGRADED", "HALTED_SOFT", "HALTED_HARD", "EMERGENCY_LOCKDOWN"}

\* HaltLevel: NONE, SOFT, HARD, EMERGENCY
Level == 0 .. 3
SOFT == 1
HARD == 2
NoEvent == -1

\* STATE_SEVERITY
Severity(s) == CASE s = "RUNNING" -> 0
                 [] s = "DEGRADED" -> 1
                 [] s = "HALTED_SOFT" -> 2
                 [] s = "HALTED_HARD" -> 3
                 [] OTHER -> 4   \* EMERGENCY_LOCKDOWN

\* HALT_LEVEL_TO_STATE
StateOf(l) == CASE l = 0 -> "RUNNING"
                [] l = 1 -> "HALTED_SOFT"
                [] l = 2 -> "HALTED_HARD"
                [] OTHER -> "EMERGENCY_LOCKDOWN"

\* MANUAL_RESUME_REQUIRED
ManualResumeRequired == {"HALTED_HARD", "EMERGENCY_LOCKDOWN"}

\* StateGuard.can_open_new_positions
CanTrade == state \in {"RUNNING", "DEGRADED"}

\* StateGuard.is_system_halted
IsHalted == state \in {"HALTED_SOFT", "HALTED_HARD", "EMERGENCY_LOCKDOWN"}

Escalates(l) == Severity(StateOf(l)) > Severity(state)

SMInit ==
    /\ state = "RUNNING"
    /\ active = [t \in Trigger |-> NoEvent]

\* a mutant: the last event decides the state
ProcessLastEvent(t, l) ==
    /\ active' = [active EXCEPT ![t] = l]
    /\ state' = StateOf(l)

\* process_halt_event: the event replaces the trigger's last one, and the state
\* only ever moves to a more severe one.
ProcessHaltEvent(t, l) ==
    /\ active' = [active EXCEPT ![t] = l]
    /\ state' = IF Escalates(l) THEN StateOf(l) ELSE state

\* a mutant: manual states are not excluded
AutoResumesFromAny(rest) == AllowSoftAutoResume /\ \A t \in Trigger : rest[t] < SOFT

\* _check_auto_resume, once the triggers in rest are the ones left
AutoResumes(rest) ==
    /\ state = "HALTED_SOFT"
    /\ AllowSoftAutoResume
    /\ \A t \in Trigger : rest[t] < SOFT

\* a mutant: a healthy monitor clears every trigger
ClearEverything(ts) ==
    /\ active' = [t \in Trigger |-> NoEvent]
    /\ state' = IF state = "HALTED_SOFT" /\ AllowSoftAutoResume THEN "RUNNING" ELSE state

\* clear_trigger for each trigger of ts, one after the other.  Each call checks
\* for auto-resume; the last one that deletes a trigger decides.
ClearTriggers(ts) ==
    LET rest == [t \in Trigger |-> IF t \in ts THEN NoEvent ELSE active[t]]
    IN  /\ active' = rest
        /\ state' = IF rest # active /\ AutoResumes(rest) THEN "RUNNING" ELSE state

\* request_resume reads request.confirmed, request.acknowledged and
\* request.operator, which ResumeRequest (types.py) does not have: every path
\* that is not refused ends in an AttributeError, the last of them only after a
\* forced request has already cleared the triggers.
FailsOnMissingField ==
    \/ state = "EMERGENCY_LOCKDOWN"
    \/ state = "HALTED_HARD" /\ RequireAckForHard

\* what a call of request_resume ends with in this state
ResumeReply(force) ==
    IF \/ ~IsHalted
       \/ /\ ~FailsOnMissingField
          /\ ~force
          /\ \E t \in Trigger : active[t] # NoEvent
    THEN "ResumeNotAllowedError" ELSE "AttributeError"

RequestResume(force) ==
    /\ active' = IF IsHalted /\ ~FailsOnMissingField /\ force
                 THEN [t \in Trigger |-> NoEvent] ELSE active
    /\ UNCHANGED state

SMNext ==
    \/ \E t \in Trigger, l \in Level : ProcessHaltEvent(t, l)
    \/ \E ts \in SUBSET Trigger : ClearTriggers(ts)
    \/ \E force \in BOOLEAN : RequestResume(force)

SMSpec == SMInit /\ [][SMNext]_smVars

-------------------------------------------------------------------------------
SMTypeOK ==
    /\ state \in SystemState
    /\ active \in [Trigger -> Level \cup {NoEvent}]

\* "Higher severity state always takes precedence" (state_machine.py:30): the
\* state is at least as severe as every trigger that is still active, whatever
\* was overwritten, cleared or resumed before.
StateCoversTriggers ==
    \A t \in Trigger :
        active[t] # NoEvent => Severity(state) >= Severity(StateOf(active[t]))

\* "No automatic resume from HARD or EMERGENCY states" (state_machine.py:31):
\* no step but a manual resume lowers the severity of a HARD or EMERGENCY state.
KeepsManualHalt ==
    state \in ManualResumeRequired =>
        (Severity(state') >= Severity(state) \/ \E force \in BOOLEAN : RequestResume(force))

NoAutomaticResume == [][KeepsManualHalt]_smVars

\* The contract of request_resume (state_machine.py:249-252): it returns a
\* transition or raises ResumeNotAllowedError, nothing else.
ResumeHonoursContract ==
    \A force \in BOOLEAN : ResumeReply(force) \in {"resumed", "ResumeNotAllowedError"}
===============================================================================
