------------------------------ MODULE StateManager ------------------------------
(* The system lifecycle (core/state_manager.py): the transition table, the      *)
(* emergency stop that bypasses it, and the file the state survives a restart   *)
(* in.  LifecycleSpec is what the state manager promises on its own.            *)
EXTENDS Naturals

CONSTANT Persistence    \* "reliable", "fallible" (a write may fail or be cut) or
                        \* "none" (no persistence path, the default)

ASSUME PersistenceAssumption == Persistence \in {"reliable", "fallible", "none"}

SystemState == {"INITIALIZING", "RUNNING", "PAUSED", "STOPPED", "ERROR", "EMERGENCY_STOP"}

VARIABLES
    state,      \* SystemStateManager._state
    disk,       \* the file: a state, "missing", or "torn" when it does not parse
    emergency   \* observation: the last emergency stop was triggered in this process,
                \* is recorded in the file, or was lost by a restart

smVars == <<state, disk, emergency>>

\* a mutant: every state may be left for ERROR
ErrorFromAnywhere ==
    [s \in SystemState |->
        CASE s = "INITIALIZING" -> {"RUNNING", "ERROR", "STOPPED"}
          [] s \in {"RUNNING", "PAUSED"} ->
                {"RUNNING", "PAUSED", "STOPPED", "ERROR", "EMERGENCY_STOP"} \ {s}
          [] s = "ERROR" -> {"RUNNING", "STOPPED", "EMERGENCY_STOP"}
          [] OTHER -> {"ERROR"}]

VALID_TRANSITIONS ==
    [s \in SystemState |->
        CASE s = "INITIALIZING" -> {"RUNNING", "ERROR", "STOPPED"}
          [] s \in {"RUNNING", "PAUSED"} ->
                {"RUNNING", "PAUSED", "STOPPED", "ERROR", "EMERGENCY_STOP"} \ {s}
          [] s = "ERROR" -> {"RUNNING", "STOPPED", "EMERGENCY_STOP"}
          [] OTHER -> {}]

IsHalted == state \in {"ERROR", "EMERGENCY_STOP"}

CanTransitionTo(s) == s \in VALID_TRANSITIONS[state]

\* _persist_state: opening the file truncates it, and no error gets out
PersistState(s) ==
    disk' \in CASE Persistence = "reliable" -> {s}
                [] Persistence = "fallible" -> {s, disk, "torn"}
                [] OTHER -> {disk}

TransitionTo(s) ==
    /\ CanTransitionTo(s)
    /\ state' = s
    /\ PersistState(s)
    /\ UNCHANGED emergency

\* emergency_stop: from any state, past the table
EmergencyStop ==
    /\ state' = "EMERGENCY_STOP"
    /\ PersistState("EMERGENCY_STOP")
    /\ emergency' = IF disk' = "EMERGENCY_STOP" THEN "recorded" ELSE "triggered"

\* a mutant: a new process takes the file as it is
RestoredAsWritten == disk

\* What a new process finds: it keeps an emergency stop and nothing else; a file
\* that is missing or does not parse leaves the initial state.
Restored == IF disk = "EMERGENCY_STOP" THEN disk ELSE "INITIALIZING"

RestoreState ==
    /\ state' = Restored
    /\ emergency' = IF emergency = "triggered" THEN "lost" ELSE emergency
    /\ UNCHANGED disk

LifecycleInit ==
    /\ state = "INITIALIZING"
    /\ disk = "missing"
    /\ emergency = "none"

LifecycleNext ==
    \/ \E s \in SystemState : TransitionTo(s)
    \/ EmergencyStop
    \/ RestoreState

\* A transition follows the table, an emergency stop ends the life of the process,
\* and a new process starts from what the file says: state_manager.py:279-464.
LifecycleSpec == LifecycleInit /\ [][LifecycleNext]_smVars

LifecycleTypeOK ==
    /\ state \in SystemState
    /\ disk \in SystemState \cup {"missing", "torn"}
    /\ emergency \in {"none", "triggered", "recorded", "lost"}

\* After an emergency stop the process is never operational again, and once the file has
\* recorded it no later process is: neither a crash, nor the failing startups of those
\* processes, nor a write that fails or is cut, takes it off (state_manager.py:349, 440).
EmergencySticks ==
    emergency \in {"triggered", "recorded"} => state \notin {"RUNNING", "PAUSED"}

\* "Permanent stop, manual restart required" (state_manager.py:63): no emergency stop is
\* lost by a restart, whether the file recorded it or not.
EmergencySurvives ==
    emergency # "none" => state \notin {"RUNNING", "PAUSED"}
================================================================================
