------------------------------ MODULE AlertsProofs ------------------------------
(* Proofs about Alerts: its types, that the history and the rules agree on what is  *)
(* open, that an alert is lost only to a stop and offered to a handler once, and     *)
(* that an evaluation alerts what it finds, for any rules and handlers.              *)
EXTENDS Alerts, TLAPS

Context == [level : [Rule -> Level], sick : SUBSET Module, mode : Mode]

\* Calls are left over only while they are being made, by a dispatcher that runs.
PendingInDispatch ==
    /\ pc # "dispatch" => pending = {}
    /\ ~running => pc = "off"

IInv ==
    /\ TypeOK
    /\ OpenIsActive
    /\ NothingLost
    /\ PendingInDispatch

\* TypeOK, in two parts that no step changes together but an evaluation.
RuleTypes ==
    /\ raised \in [Rule -> Nat] /\ active \in [Rule -> Nat]
    /\ tier \in [Rule -> Tier] /\ alertTier \in [Rule -> Tier]
    /\ cool \in [Rule -> BOOLEAN]
    /\ seen \in SUBSET Module /\ lastMode \in Mode \cup {None}
    /\ unresolved \in SUBSET Alert

OtherTypes ==
    /\ world \in Context /\ context \in Context
    /\ dropped \in SUBSET Alert
    /\ disabled \in SUBSET Rule /\ enabled \in BOOLEAN
    /\ pc \in {"off", "gather", "evaluate", "dispatch", "sleep"} /\ running \in BOOLEAN
    /\ pending \in SUBSET (Alert \X Handler) /\ offered \in SUBSET (Alert \X Handler)
    /\ events \in Nat

LEMMA TypesAre == TypeOK <=> RuleTypes /\ OtherTypes
  BY DEF TypeOK, RuleTypes, OtherTypes, Context

LEMMA TypesWillBe == RuleTypes' /\ OtherTypes' => TypeOK'
  BY DEF TypeOK, RuleTypes, OtherTypes, Context

LEMMA InitIInv == Init => IInv
  <1> SUFFICES ASSUME Init PROVE IInv
    OBVIOUS
  <1>1. Calm \in Context
    BY DEF Calm, Context, Level, Mode
  <1>2. TypeOK
    BY <1>1, TypesAre DEF Init, RuleTypes, OtherTypes, Tier
  <1>3. OpenIsActive /\ NothingLost /\ PendingInDispatch
    BY DEF Init, OpenIsActive, NothingLost, PendingInDispatch, Inactive, Rule
  <1>4. QED
    BY <1>2, <1>3 DEF IInv

---------------------------------------------------------------------------------
(* What an evaluation does to the rules                                            *)

LEMMA TierAfterType ==
    ASSUME RuleTypes, NEW r \in Rule PROVE TierAfter(r) \in Tier
  BY DEF RuleTypes, TierAfter, TierOfLevel, TierOfMode, Tier

LEMMA NewIsAlert == ASSUME RuleTypes, NEW r \in Rule PROVE New(r) \in Alert
  BY DEF RuleTypes, New, Alert

LEMMA SettleTypes ==
    ASSUME RuleTypes, Settle
    PROVE  /\ raised' \in [Rule -> Nat] /\ active' \in [Rule -> Nat]
           /\ tier' \in [Rule -> Tier] /\ alertTier' \in [Rule -> Tier]
           /\ cool' \in [Rule -> BOOLEAN]
           /\ unresolved' \in SUBSET Alert
  <1>1. raised' \in [Rule -> Nat] /\ active' \in [Rule -> Nat]
    BY DEF RuleTypes, Settle
  <1>2. tier' \in [Rule -> Tier] /\ alertTier' \in [Rule -> Tier]
    BY TierAfterType DEF RuleTypes, Settle
  <1>3. cool' \in [Rule -> BOOLEAN]
    BY DEF RuleTypes, Settle
  <1>4. unresolved' \in SUBSET Alert
    BY NewIsAlert DEF RuleTypes, Settle, Triggered
  <1>5. QED
    BY <1>1, <1>2, <1>3, <1>4

\* A rule that waits for its alert to resolve fires only without one, and does not do
\* both at once.
LEMMA WaitingRule ==
    ASSUME NEW r \in Latch \cup {"margin"}
    PROVE  /\ r \in Rule
           /\ Fires(r) => Inactive(r)
           /\ Resolves(r) => ~Inactive(r)
  BY AlertsAssumption DEF Rule, Fires, LatchFires, MarginFires, Resolves

LEMMA SettleOpenIsActive ==
    ASSUME RuleTypes, OpenIsActive, Settle PROVE OpenIsActive'
  <1> SUFFICES ASSUME NEW r \in Latch \cup {"margin"}
               PROVE  {a \in unresolved' : a[1] = r}
                        = IF Inactive(r)' THEN {} ELSE {<<r, active'[r]>>}
    BY DEF OpenIsActive
  <1>1. r \in Rule /\ raised[r] \in Nat /\ active[r] \in Nat
    BY WaitingRule DEF RuleTypes
  <1>2. {a \in unresolved : a[1] = r} = IF active[r] = 0 THEN {} ELSE {<<r, active[r]>>}
    BY DEF OpenIsActive, Inactive
  <1>3. \A a : a \in unresolved' <=>
            \/ a \in unresolved /\ ~\E q \in Rule : Resolves(q) /\ a = <<q, active[q]>>
            \/ \E q \in Rule : Fires(q) /\ a = <<q, raised[q] + 1>>
    BY DEF Settle, Triggered, New
  <1>4. active'[r] = IF Fires(r) THEN raised[r] + 1 ELSE IF Resolves(r) THEN 0 ELSE active[r]
    BY <1>1 DEF Settle
  <1>5. \A a : a \in unresolved' /\ a[1] = r <=>
            \/ a \in unresolved /\ a[1] = r /\ ~(Resolves(r) /\ a = <<r, active[r]>>)
            \/ Fires(r) /\ a = <<r, raised[r] + 1>>
    BY <1>1, <1>3
  <1>6. CASE Fires(r)
    <2>1. active[r] = 0 /\ active'[r] = raised[r] + 1 /\ active'[r] # 0
      BY <1>1, <1>4, <1>6, WaitingRule DEF Inactive
    <2>2. QED
      BY <2>1, <1>2, <1>5, <1>6 DEF Inactive
  <1>7. CASE ~Fires(r) /\ Resolves(r)
    <2>1. active[r] # 0 /\ active'[r] = 0
      BY <1>4, <1>7, WaitingRule DEF Inactive
    <2>2. QED
      BY <2>1, <1>2, <1>5, <1>7 DEF Inactive
  <1>8. CASE ~Fires(r) /\ ~Resolves(r)
    BY <1>2, <1>4, <1>5, <1>8 DEF Inactive
  <1>9. QED
    BY <1>6, <1>7, <1>8

\* The alerts of an evaluation are pending for every handler, and the earlier ones were
\* offered or dropped before it began.
LEMMA SettleNothingLost ==
    ASSUME RuleTypes, NothingLost, pending = {}, Settle,
           pending' = {New(r) : r \in Triggered} \X Handler,
           UNCHANGED <<offered, dropped>>
    PROVE  NothingLost'
  <1> SUFFICES ASSUME NEW r \in Rule, NEW h \in Handler, NEW n \in 1 .. raised'[r]
               PROVE  <<<<r, n>>, h>> \in pending' \cup offered \/ <<r, n>> \in dropped
    BY DEF NothingLost
  <1>1. raised[r] \in Nat /\ raised'[r] = IF Fires(r) THEN raised[r] + 1 ELSE raised[r]
    BY DEF RuleTypes, Settle
  <1>2. CASE n \in 1 .. raised[r]
    BY <1>2 DEF NothingLost
  <1>3. CASE n \notin 1 .. raised[r]
    <2>1. Fires(r) /\ n = raised[r] + 1
      BY <1>1, <1>3
    <2>2. <<r, n>> \in {New(q) : q \in Triggered}
      BY <2>1 DEF New, Triggered
    <2>3. QED
      BY <2>2
  <1>4. QED
    BY <1>2, <1>3

---------------------------------------------------------------------------------
(* Steps                                                                           *)

LEMMA EvaluateKeeps == ASSUME IInv, Evaluate PROVE IInv'
  <1>1. RuleTypes /\ OtherTypes /\ pending = {}
    BY TypesAre DEF IInv, PendingInDispatch, Evaluate
  <1>2. CASE enabled
    <2>1. Settle /\ pending' = {New(r) : r \in Triggered} \X Handler
          /\ UNCHANGED <<offered, dropped>>
      BY <1>2 DEF Evaluate
    <2>2. RuleTypes'
      <3>1. seen' \in SUBSET Module /\ lastMode' \in Mode \cup {None}
        BY <1>1, <1>2 DEF Evaluate, RuleTypes, OtherTypes, Context
      <3>2. QED
        BY <1>1, <2>1, <3>1, SettleTypes DEF RuleTypes
    <2>3. OtherTypes'
      <3>1. {New(r) : r \in Triggered} \subseteq Alert
        BY <1>1, NewIsAlert DEF Triggered
      <3>2. pending' \in SUBSET (Alert \X Handler)
        BY <2>1, <3>1
      <3>3. QED
        BY <1>1, <1>2, <3>2 DEF Evaluate, OtherTypes, switches
    <2>4. OpenIsActive' /\ NothingLost'
      BY <1>1, <2>1, SettleOpenIsActive, SettleNothingLost DEF IInv
    <2>5. PendingInDispatch'
      BY <1>2 DEF Evaluate, PendingInDispatch, IInv
    <2>6. QED
      BY <2>2, <2>3, <2>4, <2>5, TypesWillBe DEF IInv
  <1>3. CASE ~enabled
    <2>1. UNCHANGED <<rules, pending, offered, dropped>>
      BY <1>3 DEF Evaluate
    <2>2. RuleTypes' /\ OpenIsActive' /\ NothingLost'
      BY <1>1, <2>1 DEF rules, RuleTypes, OpenIsActive, NothingLost, Inactive, IInv
    <2>3. OtherTypes' /\ PendingInDispatch'
      BY <1>1, <1>3, <2>1 DEF Evaluate, OtherTypes, PendingInDispatch, switches, IInv
    <2>4. QED
      BY <2>2, <2>3, TypesWillBe DEF IInv
  <1>4. QED
    BY <1>2, <1>3

LEMMA DispatchKeeps == ASSUME IInv, Dispatch PROVE IInv'
  <1>1. PICK call \in pending : offered' = offered \cup {call} /\ pending' = pending \ {call}
    BY DEF Dispatch
  <1>2. RuleTypes /\ OtherTypes
    BY TypesAre DEF IInv
  <1>3. RuleTypes' /\ OpenIsActive'
    BY <1>2 DEF Dispatch, rules, RuleTypes, OpenIsActive, Inactive, IInv
  <1>4. OtherTypes'
    BY <1>1, <1>2 DEF Dispatch, OtherTypes, switches
  <1>5. NothingLost' /\ PendingInDispatch'
    BY <1>1 DEF Dispatch, rules, NothingLost, PendingInDispatch, IInv
  <1>6. QED
    BY <1>3, <1>4, <1>5, TypesWillBe DEF IInv

LEMMA StopKeeps == ASSUME IInv, Stop PROVE IInv'
  <1>1. RuleTypes /\ OtherTypes
    BY TypesAre DEF IInv
  <1>2. RuleTypes' /\ OpenIsActive'
    BY <1>1 DEF Stop, rules, RuleTypes, OpenIsActive, Inactive, IInv
  <1>3. OtherTypes'
    <2>1. {call[1] : call \in pending} \in SUBSET Alert
      BY <1>1 DEF OtherTypes
    <2>2. dropped \in SUBSET Alert /\ dropped' = dropped \cup {call[1] : call \in pending}
      BY <1>1 DEF Stop, OtherTypes
    <2>3. dropped' \in SUBSET Alert
      BY <2>1, <2>2
    <2>4. pending' = {} /\ pc' = "off" /\ running' = FALSE /\ events' \in Nat
      BY <1>1 DEF Stop, OtherTypes, Event
    <2>5. QED
      BY <1>1, <2>3, <2>4 DEF Stop, OtherTypes, switches
  <1>4. NothingLost'
    <2> SUFFICES ASSUME NEW r \in Rule, NEW h \in Handler, NEW n \in 1 .. raised[r]
                 PROVE  <<<<r, n>>, h>> \in offered' \/ <<r, n>> \in dropped'
      BY DEF NothingLost, Stop, rules
    <2>1. CASE <<<<r, n>>, h>> \in pending
      BY <2>1 DEF Stop
    <2>2. CASE <<<<r, n>>, h>> \in offered \/ <<r, n>> \in dropped
      BY <2>2 DEF Stop
    <2>3. QED
      BY <2>1, <2>2 DEF NothingLost, IInv
  <1>5. PendingInDispatch'
    BY DEF Stop, PendingInDispatch
  <1>6. QED
    BY <1>2, <1>3, <1>4, <1>5, TypesWillBe DEF IInv

\* A change of what the collectors would report.
LEMMA WorldKeeps ==
    ASSUME IInv, Event, world' \in Context,
           UNCHANGED <<context, rules, switches, pc, running, delivery>>
    PROVE  IInv'
  <1>1. RuleTypes /\ OtherTypes
    BY TypesAre DEF IInv
  <1>2. RuleTypes' /\ OpenIsActive' /\ NothingLost'
    BY <1>1 DEF rules, delivery, RuleTypes, OpenIsActive, NothingLost, Inactive, IInv
  <1>3. OtherTypes' /\ PendingInDispatch'
    BY <1>1 DEF OtherTypes, PendingInDispatch, switches, delivery, Event, IInv
  <1>4. QED
    BY <1>2, <1>3, TypesWillBe DEF IInv

LEMMA WorldStep ==
    ASSUME IInv,
           \/ \E r \in Latch \cup {"drawdown", "margin"}, l \in Level : LevelChanges(r, l)
           \/ \E S \in SUBSET Module : ModulesChange(S)
           \/ \E m \in Mode : ModeChanges(m)
    PROVE  IInv'
  <1>1. world \in Context
    BY TypesAre DEF IInv, OtherTypes
  <1>2. Event /\ UNCHANGED <<context, rules, switches, pc, running, delivery>>
    BY DEF LevelChanges, ModulesChange, ModeChanges
  <1>3. world' \in Context
    BY <1>1 DEF LevelChanges, ModulesChange, ModeChanges, Context, Rule
  <1>4. QED
    BY <1>2, <1>3, WorldKeeps

\* The steps that leave the rules and the calls alone.
LEMMA ControlKeeps ==
    ASSUME IInv, UNCHANGED <<rules, delivery>>,
           OtherTypes', PendingInDispatch'
    PROVE  IInv'
  <1>1. RuleTypes
    BY TypesAre DEF IInv
  <1>2. RuleTypes' /\ OpenIsActive' /\ NothingLost'
    BY <1>1 DEF rules, delivery, RuleTypes, OpenIsActive, NothingLost, Inactive, IInv
  <1>3. QED
    BY <1>2, TypesWillBe DEF IInv

LEMMA ControlStep ==
    ASSUME IInv,
           \/ Gather \/ GatherFails \/ Sleep \/ Start \/ SwitchManager
           \/ \E r \in Rule : SwitchRule(r)
           \/ UNCHANGED vars
    PROVE  IInv'
  <1> USE DEF OtherTypes, PendingInDispatch, switches, delivery, Event
  <1>1. OtherTypes /\ PendingInDispatch
    BY TypesAre DEF IInv
  <1>2. CASE Gather
    BY <1>1, <1>2, ControlKeeps DEF Gather
  <1>3. CASE GatherFails
    BY <1>1, <1>3, ControlKeeps DEF GatherFails
  <1>4. CASE Sleep
    BY <1>1, <1>4, ControlKeeps DEF Sleep
  <1>5. CASE Start
    BY <1>1, <1>5, ControlKeeps DEF Start
  <1>6. CASE SwitchManager
    BY <1>1, <1>6, ControlKeeps DEF SwitchManager
  <1>7. ASSUME NEW r \in Rule, SwitchRule(r) PROVE IInv'
    BY <1>1, <1>7, ControlKeeps DEF SwitchRule
  <1>8. CASE UNCHANGED vars
    BY <1>1, <1>8, ControlKeeps DEF vars
  <1>9. QED
    BY <1>2, <1>3, <1>4, <1>5, <1>6, <1>7, <1>8

LEMMA CoolsDownKeeps == ASSUME IInv, NEW r \in Rule, CoolsDown(r) PROVE IInv'
  <1>1. RuleTypes /\ OtherTypes
    BY TypesAre DEF IInv
  <1>2. RuleTypes' /\ OtherTypes'
    BY <1>1 DEF CoolsDown, RuleTypes, OtherTypes, switches, delivery
  <1>3. OpenIsActive' /\ NothingLost' /\ PendingInDispatch'
    BY DEF CoolsDown, OpenIsActive, NothingLost, PendingInDispatch, Inactive, delivery, IInv
  <1>4. QED
    BY <1>2, <1>3, TypesWillBe DEF IInv

LEMMA NextIInv == IInv /\ [Next]_vars => IInv'
  <1> SUFFICES ASSUME IInv, [Next]_vars PROVE IInv'
    OBVIOUS
  <1>1. CASE Evaluate
    BY <1>1, EvaluateKeeps
  <1>2. CASE Dispatch
    BY <1>2, DispatchKeeps
  <1>3. CASE Stop
    BY <1>3, StopKeeps
  <1>4. CASE \E r \in Rule : CoolsDown(r)
    BY <1>4, CoolsDownKeeps
  <1>5. QED
    BY <1>1, <1>2, <1>3, <1>4, WorldStep, ControlStep DEF Next, Dispatcher

LEMMA SpecIInv == Spec => []IInv
  BY InitIInv, NextIInv, PTL DEF Spec

---------------------------------------------------------------------------------
(* The theorems                                                                    *)

\* Rules, contexts, the history and the calls of handlers are of the kinds the code
\* makes, a tier among them: rules.py:36, manager.py:47.
THEOREM TypeCorrect == Spec => []TypeOK
  BY SpecIInv, PTL DEF IInv

\* What the history holds open of a rule that waits for its alert to resolve is the alert
\* the rule holds: rules.py:117, 145, manager.py:216.
THEOREM HistoryAgrees == Spec => []OpenIsActive
  BY SpecIInv, PTL DEF IInv

\* For any number of rules and handlers an alert reaches each handler, or was cut off by a
\* stop of the dispatcher: manager.py:251, 326.
THEOREM OnlyAStopLoses == Spec => []NothingLost
  BY SpecIInv, PTL DEF IInv
---------------------------------------------------------------------------------
(* The delivery                                                                    *)

LEMMA KnownAre ==
    \A a : a \in Known <=> \E r \in Rule : \E n \in 1 .. raised[r] : a = <<r, n>>
  BY DEF Known

\* What is known after an evaluation is what was known and what fired.
LEMMA SettleKnown ==
    ASSUME RuleTypes, Settle
    PROVE  /\ Known \subseteq Known'
           /\ Known' \ Known = {New(r) : r \in Triggered}
  <1>1. \A r \in Rule : /\ raised[r] \in Nat
                        /\ raised'[r] = IF Fires(r) THEN raised[r] + 1 ELSE raised[r]
    BY DEF RuleTypes, Settle
  <1>2. \A r \in Rule : \A n : n \in 1 .. raised'[r] <=>
            \/ n \in 1 .. raised[r]
            \/ Fires(r) /\ n = raised[r] + 1
    <2> SUFFICES ASSUME NEW r \in Rule, NEW n
                 PROVE  n \in 1 .. raised'[r] <=>
                            \/ n \in 1 .. raised[r]
                            \/ Fires(r) /\ n = raised[r] + 1
      OBVIOUS
    <2>1. CASE Fires(r)
      BY <1>1, <2>1
    <2>2. CASE ~Fires(r)
      BY <1>1, <2>2
    <2>3. QED
      BY <2>1, <2>2
  <1>3. \A r \in Rule : raised[r] + 1 \notin 1 .. raised[r]
    BY <1>1
  <1>4. \A a : a \in Known' <=> \E r \in Rule : \E n \in 1 .. raised'[r] : a = <<r, n>>
    BY DEF Known
  <1>5. \A a : a \in {New(r) : r \in Triggered} <=>
            \E r \in Rule : Fires(r) /\ a = <<r, raised[r] + 1>>
    BY DEF New, Triggered
  <1>6. Known \subseteq Known'
    BY <1>2, <1>4, KnownAre
  <1>7. ASSUME NEW a \in Known', a \notin Known
        PROVE  a \in {New(r) : r \in Triggered}
    <2>1. PICK r \in Rule : \E n \in 1 .. raised'[r] : a = <<r, n>>
      BY <1>4
    <2>2. PICK n \in 1 .. raised'[r] : a = <<r, n>>
      BY <2>1
    <2>3. n \notin 1 .. raised[r]
      BY <1>7, <2>2, KnownAre
    <2>4. QED
      BY <1>2, <1>5, <2>2, <2>3
  <1>8. ASSUME NEW r \in Rule, Fires(r)
        PROVE  <<r, raised[r] + 1>> \in Known' /\ <<r, raised[r] + 1>> \notin Known
    BY <1>2, <1>3, <1>4, <1>8, KnownAre
  <1>9. QED
    BY <1>5, <1>6, <1>7, <1>8

\* Each step is one of the delivery, or none.
LEMMA StepDelivers ==
    ASSUME IInv, [Next]_vars
    PROVE  [Delivery!Next]_<<Known, pending, offered>>
  <1> USE DEF Delivery!Next
  <1>1. CASE Evaluate
    <2>1. CASE enabled
      <3>1. Settle /\ pending' = {New(r) : r \in Triggered} \X Handler
            /\ pending = {} /\ UNCHANGED offered
        BY <1>1, <2>1 DEF Evaluate, IInv, PendingInDispatch
      <3>2. Delivery!Raise
        BY <3>1, SettleKnown, TypesAre DEF Delivery!Raise, IInv
      <3>3. QED
        BY <3>2
    <2>2. CASE ~enabled
      BY <1>1, <2>2 DEF Evaluate, rules, Known
    <2>3. QED
      BY <2>1, <2>2
  <1>2. CASE Dispatch
    <2>1. PICK call \in pending : offered' = offered \cup {call} /\ pending' = pending \ {call}
      BY <1>2 DEF Dispatch
    <2>2. Known' = Known
      BY <1>2 DEF Dispatch, rules, Known
    <2>3. Delivery!Offer(call)
      BY <2>1, <2>2 DEF Delivery!Offer
    <2>4. QED
      BY <2>3
  <1>3. CASE Stop
    BY <1>3 DEF Stop, rules, Known, Delivery!GiveUp
  <1>4. CASE ~(Evaluate \/ Dispatch \/ Stop)
    <2>1. raised' = raised /\ pending' = pending /\ offered' = offered
      BY <1>4 DEF Next, Dispatcher, Gather, GatherFails, Sleep, CoolsDown, SwitchRule,
                  LevelChanges, ModulesChange, ModeChanges, Start, SwitchManager, rules,
                  delivery, vars
    <2>2. QED
      BY <2>1 DEF Known
  <1>5. QED
    BY <1>1, <1>2, <1>3, <1>4

\* The alerts implement the delivery: whatever rules fire, resolve, cool down or are
\* switched, and wherever the dispatcher is stopped, an alert is offered once to each
\* handler at most: manager.py:211-258, 321-345.
THEOREM Delivers == Spec => DeliverySpec
  <1>1. Init => Delivery!Init
    BY DEF Init, Delivery!Init, Known
  <1>2. IInv /\ [Next]_vars => [Delivery!Next]_<<Known, pending, offered>>
    BY StepDelivers
  <1>3. QED
    BY <1>1, <1>2, SpecIInv, PTL DEF Spec, DeliverySpec, Delivery!Spec, Delivery!deliveryVars

\* A call still to be made was not made before, and is of an alert that was raised.
THEOREM OfferedOnce == Spec => []Delivery!DueOnce
  <1>1. Delivery!Init => Delivery!DueOnce
    BY DEF Delivery!Init, Delivery!DueOnce
  <1>2. Delivery!DueOnce /\ [Delivery!Next]_<<Known, pending, offered>> => Delivery!DueOnce'
    BY DEF Delivery!DueOnce, Delivery!Next, Delivery!Raise, Delivery!Offer, Delivery!GiveUp
  <1>3. QED
    BY <1>1, <1>2, Delivers, PTL
    DEF DeliverySpec, Delivery!Spec, Delivery!deliveryVars
---------------------------------------------------------------------------------
(* What ConditionRaised needs besides fairness                                      *)

Watched == Latch \cup {"drawdown", "margin"}

\* the alert a rule holds is open, and a latch knows no critical level
AlertedInv ==
    /\ \A r \in Watched : active[r] # 0 => Alerted(r)
    /\ \A r \in Latch : world.level[r] # "critical" /\ context.level[r] # "critical"

\* An evaluation of a condition out of its cooldown leaves it alerted, and only one that
\* finds the level normal ends that.
ConditionAlerted ==
    [][\A r \in Watched :
        /\ /\ pc = "evaluate" /\ pc' # "evaluate"
           /\ enabled /\ r \notin disabled
           /\ context.level[r] \in {"warning", "critical"}
           /\ cool[r]
           => Alerted(r)'
        /\ Alerted(r) /\ ~Alerted(r)' => pc = "evaluate" /\ context.level[r] = "normal"]_vars

\* What an evaluation leaves of a rule's alert.
LEMMA SettleAlerts ==
    ASSUME RuleTypes, AlertedInv, Settle, NEW r \in Watched
    PROVE  /\ active'[r] # 0 => <<r, active'[r]>> \in unresolved'
           /\ active'[r] = IF Fires(r) THEN raised[r] + 1
                           ELSE IF Resolves(r) THEN 0 ELSE active[r]
           /\ raised[r] + 1 # 0
  <1>1. r \in Rule /\ raised[r] \in Nat
    BY DEF RuleTypes, Rule, Watched
  <1>2. active'[r] = IF Fires(r) THEN raised[r] + 1
                     ELSE IF Resolves(r) THEN 0 ELSE active[r]
    BY <1>1 DEF Settle
  <1>3. CASE Fires(r)
    <2>1. New(r) \in unresolved'
      BY <1>1, <1>3 DEF Settle, Triggered
    <2>2. QED
      BY <1>1, <1>2, <1>3, <2>1 DEF New
  <1>4. CASE ~Fires(r) /\ ~Resolves(r) /\ active[r] # 0
    <2>1. <<r, active[r]>> \in unresolved
      BY <1>4 DEF AlertedInv, Alerted
    <2>2. <<r, active[r]>> \notin {<<q, active[q]>> : q \in {p \in Rule : Resolves(p)}}
      BY <1>4
    <2>3. <<r, active[r]>> \in unresolved'
      BY <2>1, <2>2 DEF Settle
    <2>4. QED
      BY <1>1, <1>2, <1>4, <2>3
  <1>5. QED
    BY <1>1, <1>2, <1>3, <1>4

\* A rule that finds its condition, out of its cooldown, fires or holds an alert already.
LEMMA ConditionFires ==
    ASSUME AlertedInv, NEW r \in Watched, r \notin disabled,
           context.level[r] \in {"warning", "critical"}
    PROVE  /\ ~Resolves(r)
           /\ cool[r] /\ active[r] = 0 => Fires(r)
  <1>1. ~Resolves(r)
    BY AlertsAssumption DEF Watched, Resolves, At
  <1>2. ASSUME cool[r], active[r] = 0
        PROVE  Fires(r)
    <2>1. CASE r \in Latch
      BY <1>2, <2>1 DEF AlertedInv, Fires, LatchFires, At, Inactive
    <2>2. CASE r = "drawdown"
      BY <1>2, <2>2 DEF Fires, DrawdownFires, DrawdownEscalates, DrawdownWarns, At, Inactive
    <2>3. CASE r = "margin"
      BY <1>2, <2>3 DEF Fires, MarginFires, At, Inactive
    <2>4. QED
      BY <2>1, <2>2, <2>3 DEF Watched
  <1>3. QED
    BY <1>1, <1>2

\* Only an evaluation leaves "evaluate", or changes what rules and the history hold.
LEMMA OtherStepsKeepRules ==
    ASSUME IInv, [Next]_vars, ~Evaluate
    PROVE  /\ UNCHANGED <<active, unresolved>>
           /\ pc = "evaluate" => pc' = "evaluate"
  BY DEF IInv, PendingInDispatch, Next, Dispatcher, Gather, GatherFails, Dispatch, Sleep,
         CoolsDown, SwitchRule, LevelChanges, ModulesChange, ModeChanges, Start, Stop,
         SwitchManager, rules, vars

LEMMA AlertedStep ==
    ASSUME IInv, AlertedInv, [Next]_vars
    PROVE  AlertedInv'
  <1>1. RuleTypes /\ OtherTypes
    BY TypesAre DEF IInv
  <1>2. \A r \in Watched : active'[r] # 0 => Alerted(r)'
    <2>1. CASE Evaluate /\ enabled
      BY <1>1, <2>1, SettleAlerts DEF Evaluate, Alerted
    <2>2. CASE ~(Evaluate /\ enabled)
      <3>1. UNCHANGED <<active, unresolved>>
        BY <2>2, OtherStepsKeepRules DEF Evaluate, rules
      <3>2. QED
        BY <3>1 DEF AlertedInv, Alerted
    <2>3. QED
      BY <2>1, <2>2
  <1>3. \A r \in Latch : world'.level[r] # "critical" /\ context'.level[r] # "critical"
    <2>1. CASE Gather
      BY <2>1 DEF Gather, AlertedInv
    <2>2. ASSUME NEW q \in Latch \cup {"drawdown", "margin"}, NEW l \in Level, LevelChanges(q, l)
          PROVE  \A r \in Latch : world'.level[r] # "critical" /\ context' = context
      <3>1. world' = [world EXCEPT !.level[q] = l] /\ (q \in Latch => l # "critical")
            /\ context' = context
        BY <2>2 DEF LevelChanges
      <3>2. world \in Context /\ q \in Rule
        BY <1>1 DEF OtherTypes, Rule
      <3>3. \A r \in Latch : world'.level[r] = IF r = q THEN l ELSE world.level[r]
        BY <3>1, <3>2 DEF Context, Rule
      <3>4. QED
        BY <3>1, <3>3 DEF AlertedInv
    <2>3. CASE (\E S \in SUBSET Module : ModulesChange(S)) \/ \E m \in Mode : ModeChanges(m)
      <3>1. world'.level = world.level /\ context' = context
        BY <1>1, <2>3 DEF ModulesChange, ModeChanges, OtherTypes, Context
      <3>2. QED
        BY <3>1 DEF AlertedInv
    <2>4. CASE UNCHANGED <<world, context>>
      BY <2>4 DEF AlertedInv
    <2>5. QED
      BY <2>1, <2>2, <2>3, <2>4
      DEF Next, Dispatcher, GatherFails, Evaluate, Dispatch, Sleep, CoolsDown, SwitchRule,
          Start, Stop, SwitchManager, AlertedInv, vars
  <1>4. QED
    BY <1>2, <1>3 DEF AlertedInv

\* Whatever the other rules do, and whatever a drawdown's tier says, a condition that an
\* evaluation finds out of its cooldown is alerted after it, and stays so until an
\* evaluation finds it gone: rules.py:97-160, manager.py:211.
THEOREM ConditionAlertedHolds == Spec => ConditionAlerted
  <1>1. Init => AlertedInv
    BY DEF Init, AlertedInv, Calm, Watched, Rule
  <1>2. IInv /\ AlertedInv /\ [Next]_vars => AlertedInv'
    BY AlertedStep
  <1>3. IInv /\ AlertedInv /\ [Next]_vars =>
            \A r \in Watched :
               /\ /\ pc = "evaluate" /\ pc' # "evaluate"
                  /\ enabled /\ r \notin disabled
                  /\ context.level[r] \in {"warning", "critical"}
                  /\ cool[r]
                  => Alerted(r)'
               /\ Alerted(r) /\ ~Alerted(r)' => pc = "evaluate" /\ context.level[r] = "normal"
    <2> SUFFICES ASSUME IInv, AlertedInv, [Next]_vars, NEW r \in Watched
                 PROVE  /\ /\ pc = "evaluate" /\ pc' # "evaluate"
                           /\ enabled /\ r \notin disabled
                           /\ context.level[r] \in {"warning", "critical"}
                           /\ cool[r]
                           => Alerted(r)'
                        /\ Alerted(r) /\ ~Alerted(r)' =>
                              pc = "evaluate" /\ context.level[r] = "normal"
      OBVIOUS
    <2>1. CASE Evaluate /\ enabled
      <3>1. Settle /\ pc = "evaluate" /\ RuleTypes
        BY <2>1, TypesAre DEF Evaluate, IInv
      <3>2. Alerted(r)' <=> active'[r] # 0
        BY <3>1, SettleAlerts DEF Alerted
      <3>3. ASSUME Alerted(r), ~Alerted(r)'
            PROVE  context.level[r] = "normal"
        <4>1. Resolves(r)
          BY <3>1, <3>2, <3>3, SettleAlerts DEF Alerted
        <4>2. QED
          BY <4>1, AlertsAssumption DEF Resolves, At, Watched
      <3>4. ASSUME r \notin disabled, context.level[r] \in {"warning", "critical"}, cool[r]
            PROVE  Alerted(r)'
        <4>1. ~Resolves(r) /\ (active[r] = 0 => Fires(r))
          BY <3>4, ConditionFires
        <4>2. QED
          BY <3>1, <3>2, <4>1, SettleAlerts
      <3>5. QED
        BY <3>1, <3>3, <3>4
    <2>2. CASE Evaluate /\ ~enabled
      BY <2>2 DEF Evaluate, rules, Alerted
    <2>3. CASE ~Evaluate
      BY <2>3, OtherStepsKeepRules DEF Alerted
    <2>4. QED
      BY <2>1, <2>2, <2>3
  <1>4. QED
    BY <1>1, <1>2, <1>3, SpecIInv, PTL DEF Spec, ConditionAlerted
=================================================================================
