------------------------- MODULE RiskStateMachineProofs -------------------------
(* Proofs about RiskStateMachine: what holds of the halt state and the active  *)
(* triggers for every set of triggers and every resume configuration.          *)
EXTENDS RiskStateMachine, TLAPS

\* HALT_LEVEL_TO_STATE and STATE_SEVERITY are total on levels and states, and a
\* level below SOFT maps to the least severe state.
LEMMA LevelFacts ==
    /\ \A l \in Level : StateOf(l) \in SystemState
    /\ \A s \in SystemState : Severity(s) \in 0 .. 4
    /\ \A l \in Level : l < SOFT => Severity(StateOf(l)) = 0
BY DEF Level, SOFT, StateOf, Severity, SystemState

\* A halt event leaves the state at least as severe as it was, and as the event.
LEMMA EventEscalates ==
    ASSUME SMTypeOK, NEW t \in Trigger, NEW l \in Level, ProcessHaltEvent(t, l)
    PROVE  /\ Severity(state') >= Severity(state)
           /\ Severity(state') >= Severity(StateOf(l))
           /\ state' \in SystemState
  <1>1. CASE Escalates(l)
    <2>1. state' = StateOf(l)
      BY <1>1 DEF ProcessHaltEvent
    <2>2. QED
      BY <1>1, <2>1, LevelFacts DEF Escalates, SMTypeOK
  <1>2. CASE ~Escalates(l)
    <2>1. state' = state
      BY <1>2 DEF ProcessHaltEvent
    <2>2. QED
      BY <1>2, <2>1, LevelFacts DEF Escalates, SMTypeOK
  <1>3. QED
    BY <1>1, <1>2

\* Every step keeps the variables in their types.
LEMMA SMTypeStep ==
    ASSUME SMTypeOK, [SMNext]_smVars
    PROVE  SMTypeOK'
  <1>1. ASSUME NEW t \in Trigger, NEW l \in Level, ProcessHaltEvent(t, l)
        PROVE  SMTypeOK'
    <2>1. state' \in SystemState
      BY <1>1, EventEscalates
    <2>2. active' \in [Trigger -> Level \cup {NoEvent}]
      BY <1>1 DEF ProcessHaltEvent, SMTypeOK
    <2>3. QED
      BY <2>1, <2>2 DEF SMTypeOK
  <1>2. ASSUME NEW ts \in SUBSET Trigger, ClearTriggers(ts)
        PROVE  SMTypeOK'
    BY <1>2 DEF ClearTriggers, SMTypeOK, SystemState
  <1>3. ASSUME NEW force \in BOOLEAN, RequestResume(force)
        PROVE  SMTypeOK'
    BY <1>3 DEF RequestResume, SMTypeOK
  <1>4. CASE UNCHANGED smVars
    BY <1>4 DEF smVars, SMTypeOK
  <1>5. QED
    BY <1>1, <1>2, <1>3, <1>4 DEF SMNext

\* Every step keeps the state above the triggers that are active after it.
LEMMA CoverStep ==
    ASSUME SMTypeOK, StateCoversTriggers, [SMNext]_smVars
    PROVE  StateCoversTriggers'
  <1>1. ASSUME NEW t \in Trigger, NEW l \in Level, ProcessHaltEvent(t, l)
        PROVE  StateCoversTriggers'
    <2> SUFFICES ASSUME NEW u \in Trigger, active'[u] # NoEvent
                 PROVE  Severity(state') >= Severity(StateOf(active'[u]))
      BY DEF StateCoversTriggers
    <2>1. CASE u = t
      <3>1. active'[u] = l
        BY <1>1, <2>1 DEF ProcessHaltEvent, SMTypeOK
      <3>2. QED
        BY <1>1, <3>1, EventEscalates
    <2>2. CASE u # t
      <3>1. active'[u] = active[u]
        BY <1>1, <2>2 DEF ProcessHaltEvent, SMTypeOK
      <3>2. active[u] \in Level
        BY <3>1 DEF SMTypeOK
      <3>3. Severity(state) >= Severity(StateOf(active[u]))
        BY <3>1 DEF StateCoversTriggers
      <3>4. Severity(state') >= Severity(state)
        BY <1>1, EventEscalates
      <3>5. /\ Severity(state) \in Int
            /\ Severity(state') \in Int
            /\ Severity(StateOf(active[u])) \in Int
        BY <1>1, <3>2, EventEscalates, LevelFacts DEF SMTypeOK
      <3>6. QED
        BY <3>1, <3>3, <3>4, <3>5
    <2>3. QED
      BY <2>1, <2>2
  <1>2. ASSUME NEW ts \in SUBSET Trigger, ClearTriggers(ts)
        PROVE  StateCoversTriggers'
    <2> SUFFICES ASSUME NEW u \in Trigger, active'[u] # NoEvent
                 PROVE  Severity(state') >= Severity(StateOf(active'[u]))
      BY DEF StateCoversTriggers
    <2>1. active'[u] = active[u] /\ active[u] \in Level
      BY <1>2 DEF ClearTriggers, SMTypeOK
    <2>2. CASE state' = state
      BY <2>1, <2>2 DEF StateCoversTriggers
    <2>3. CASE state' # state
      <3>1. state' = "RUNNING" /\ active'[u] < SOFT
        BY <1>2, <2>3 DEF ClearTriggers, AutoResumes
      <3>2. Severity(state') = 0
        BY <3>1 DEF Severity
      <3>3. Severity(StateOf(active'[u])) = 0
        BY <2>1, <3>1, LevelFacts
      <3>4. QED
        BY <3>2, <3>3
    <2>4. QED
      BY <2>2, <2>3
  <1>3. ASSUME NEW force \in BOOLEAN, RequestResume(force)
        PROVE  StateCoversTriggers'
    BY <1>3 DEF RequestResume, StateCoversTriggers, SMTypeOK
  <1>4. CASE UNCHANGED smVars
    BY <1>4 DEF smVars, StateCoversTriggers
  <1>5. QED
    BY <1>1, <1>2, <1>3, <1>4 DEF SMNext

\* No step but a manual resume lowers a HARD or EMERGENCY state.
LEMMA HaltStep ==
    ASSUME SMTypeOK, [SMNext]_smVars
    PROVE  KeepsManualHalt
  <1> SUFFICES ASSUME state \in ManualResumeRequired
               PROVE  \/ Severity(state') >= Severity(state)
                      \/ \E force \in BOOLEAN : RequestResume(force)
    BY DEF KeepsManualHalt
  <1>0. Severity(state) \in Int
    BY LevelFacts DEF SMTypeOK
  <1>1. ASSUME NEW t \in Trigger, NEW l \in Level, ProcessHaltEvent(t, l)
        PROVE  Severity(state') >= Severity(state)
    BY <1>1, EventEscalates
  <1>2. ASSUME NEW ts \in SUBSET Trigger, ClearTriggers(ts)
        PROVE  Severity(state') >= Severity(state)
    <2>1. state' = state
      BY <1>2 DEF ClearTriggers, AutoResumes, ManualResumeRequired
    <2>2. QED
      BY <1>0, <2>1
  <1>3. CASE UNCHANGED smVars
    BY <1>0, <1>3 DEF smVars
  <1>4. QED
    BY <1>1, <1>2, <1>3 DEF SMNext

-------------------------------------------------------------------------------
\* The halt state, the active triggers and the last resume reply have their types:
\* state_machine.py:119-296.
THEOREM SMTypeCorrect == SMSpec => []SMTypeOK
  <1>1. SMInit => SMTypeOK
    BY DEF SMInit, SMTypeOK, SystemState, ResumeReply
  <1>2. SMTypeOK /\ [SMNext]_smVars => SMTypeOK'
    BY SMTypeStep
  <1>3. QED
    BY <1>1, <1>2, PTL DEF SMSpec

\* The state is never less severe than a trigger that is still active, after any
\* events, clearings and resumes: state_machine.py:186-296, 374-416.
THEOREM SMCoversTriggers == SMSpec => []StateCoversTriggers
  <1>1. SMInit => StateCoversTriggers
    BY DEF SMInit, StateCoversTriggers
  <1>2. SMTypeOK /\ StateCoversTriggers /\ [SMNext]_smVars => StateCoversTriggers'
    BY CoverStep
  <1>3. QED
    BY <1>1, <1>2, SMTypeCorrect, PTL DEF SMSpec

\* HARD and EMERGENCY states are left only by a manual resume: auto-resume looks at
\* HALTED_SOFT alone, state_machine.py:374-408.
THEOREM SMNoAutomaticResume == SMSpec => NoAutomaticResume
  <1>1. SMTypeOK /\ [SMNext]_smVars => [KeepsManualHalt]_smVars
    BY HaltStep
  <1>2. QED
    BY <1>1, SMTypeCorrect, PTL DEF SMSpec, NoAutomaticResume
===============================================================================
