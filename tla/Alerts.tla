--------------------------------- MODULE Alerts ---------------------------------
(* The monitoring alerts (monitoring/alerts/manager.py, rules.py): the dispatcher *)
(* gathers a context, the manager evaluates every rule on it in one go, and what  *)
(* was triggered is handed to the notification handlers, one call after another.  *)
(*                                                                                *)
(* A rule is a latch on one condition, or one of the four that keep more state:   *)
(* drawdown, margin, unhealthy modules and mode changes.  An alert is the rule    *)
(* and the number of its trigger.                                                 *)
EXTENDS Naturals, FiniteSets

CONSTANTS
    Latch,              \* trading_halted, exposure_limit, heartbeat_missed, data_stale, ...
    Module, Handler,
    None,
    MaxEvents           \* bound of an instance: what changes in the system, and calls of the operator

Rule == Latch \cup {"drawdown", "margin", "unhealthy", "mode"}
Level == {"missing", "normal", "warning", "critical"}
Tier == {"INFO", "WARNING", "CRITICAL"}
Mode == {"RUNNING", "DEGRADED", "HALTED_SYSTEM"}

ASSUME AlertsAssumption ==
    /\ Latch \cap {"drawdown", "margin", "unhealthy", "mode"} = {}
    /\ None \notin Mode
    /\ MaxEvents \in Nat

VARIABLES
    world,              \* what the collectors would report now
    context,            \* what they reported to the evaluation under way
    raised,             \* how many alerts each rule has triggered
    active, tier,       \* _active_alert (0 for None) and config.tier of each rule
    alertTier,          \* the tier of the active alert
    cool,               \* check_cooldown() of each rule
    seen, lastMode,     \* _unhealthy_modules, _last_mode
    unresolved,         \* get_active() of the history
    disabled, enabled,  \* rules with config.enabled off; the manager
    pc, running,        \* the dispatcher's task and flag
    pending,            \* calls of handlers that this evaluation has still to make
    offered, dropped,   \* observation: calls made; alerts whose evaluation was cancelled
    events

rules == <<raised, active, tier, alertTier, cool, seen, lastMode, unresolved>>
switches == <<disabled, enabled>>
delivery == <<pending, offered, dropped>>
vars == <<world, context, rules, switches, pc, running, delivery, events>>

Alert == Rule \X (Nat \ {0})

Calm == [level |-> [r \in Rule |-> "normal"], sick |-> {}, mode |-> "RUNNING"]

Init ==
    /\ world = Calm /\ context = Calm
    /\ raised = [r \in Rule |-> 0] /\ active = [r \in Rule |-> 0]
    /\ tier = [r \in Rule |-> "WARNING"] /\ alertTier = [r \in Rule |-> "WARNING"]
    /\ cool = [r \in Rule |-> TRUE]
    /\ seen = {} /\ lastMode = None
    /\ unresolved = {}
    /\ disabled = {} /\ enabled = TRUE
    /\ pc = "off" /\ running = FALSE
    /\ pending = {} /\ offered = {} /\ dropped = {}
    /\ events = 0

Event ==
    /\ events < MaxEvents
    /\ events' = events + 1
---------------------------------------------------------------------------------
(* Rules, each on the context under evaluation                                   *)

At(r, levels) == context.level[r] \in levels
Inactive(r) == active[r] = 0

\* a mutant: the active alert is not looked at
LatchFiresAgain(r) == At(r, {"warning"}) /\ cool[r]

LatchFires(r) == At(r, {"warning"}) /\ Inactive(r) /\ cool[r]

DrawdownEscalates ==
    At("drawdown", {"critical"}) /\ (Inactive("drawdown") \/ tier["drawdown"] # "CRITICAL")
DrawdownWarns == At("drawdown", {"warning"}) /\ Inactive("drawdown")
DrawdownFires == (DrawdownEscalates \/ DrawdownWarns) /\ cool["drawdown"]

MarginFires == At("margin", {"warning", "critical"}) /\ Inactive("margin") /\ cool["margin"]

UnhealthyFires == context.sick \ seen # {} /\ cool["unhealthy"]

ModeChanged == lastMode # None /\ context.mode # lastMode

Fires(r) ==
    /\ r \notin disabled
    /\ \/ r \in Latch /\ LatchFires(r)
       \/ r = "drawdown" /\ DrawdownFires
       \/ r = "margin" /\ MarginFires
       \/ r = "unhealthy" /\ UnhealthyFires
       \/ r = "mode" /\ ModeChanged

Resolves(r) ==
    /\ r \notin disabled /\ ~Inactive(r)
    /\ \/ r \in Latch \cup {"drawdown", "margin"} /\ At(r, {"normal"})
       \/ r = "unhealthy" /\ ~UnhealthyFires /\ context.sick = {}

TierOfLevel(r) == IF At(r, {"critical"}) THEN "CRITICAL" ELSE "WARNING"

\* a mutant: the mode is taken for the tier
TierOfModeRaw == context.mode

TierOfMode ==
    CASE context.mode = "HALTED_SYSTEM" -> "CRITICAL"
      [] context.mode = "DEGRADED" -> "WARNING"
      [] OTHER -> "INFO"

\* config.tier, which drawdown sets before it looks at the cooldown
TierAfter(r) ==
    IF r \in disabled THEN tier[r]
    ELSE IF r = "drawdown" /\ (DrawdownEscalates \/ DrawdownWarns) THEN TierOfLevel(r)
    ELSE IF r = "margin" /\ At(r, {"warning", "critical"}) THEN TierOfLevel(r)
    ELSE IF r = "mode" /\ ModeChanged THEN TierOfMode
    ELSE tier[r]
---------------------------------------------------------------------------------
(* The dispatcher and the manager                                                *)

\* the collectors answer, or raise and the turn is over
Gather ==
    /\ pc = "gather"
    /\ context' = world /\ pc' = "evaluate"
    /\ UNCHANGED <<world, rules, switches, running, delivery, events>>

GatherFails ==
    /\ Event
    /\ pc = "gather"
    /\ pc' = "sleep"
    /\ UNCHANGED <<world, context, rules, switches, running, delivery>>

Triggered == {r \in Rule : Fires(r)}
New(r) == <<r, raised[r] + 1>>

\* a mutant: the alert is resolved, and the rule still holds it
SettleKeeps ==
    /\ raised' = [r \in Rule |-> IF Fires(r) THEN raised[r] + 1 ELSE raised[r]]
    /\ active' = [r \in Rule |-> IF Fires(r) THEN raised[r] + 1 ELSE active[r]]
    /\ tier' = [r \in Rule |-> TierAfter(r)]
    /\ alertTier' = [r \in Rule |-> IF Fires(r) THEN TierAfter(r) ELSE alertTier[r]]
    /\ cool' = [r \in Rule |-> cool[r] /\ ~Fires(r)]
    /\ unresolved' = (unresolved \ {<<r, active[r]>> : r \in {q \in Rule : Resolves(q)}})
                        \cup {New(r) : r \in Triggered}

\* trigger() of the rules that fire, resolve() of those that end
Settle ==
    /\ raised' = [r \in Rule |-> IF Fires(r) THEN raised[r] + 1 ELSE raised[r]]
    /\ active' = [r \in Rule |-> IF Fires(r) THEN raised[r] + 1
                                 ELSE IF Resolves(r) THEN 0 ELSE active[r]]
    /\ tier' = [r \in Rule |-> TierAfter(r)]
    /\ alertTier' = [r \in Rule |-> IF Fires(r) THEN TierAfter(r) ELSE alertTier[r]]
    /\ cool' = [r \in Rule |-> cool[r] /\ ~Fires(r)]
    /\ unresolved' = (unresolved \ {<<r, active[r]>> : r \in {q \in Rule : Resolves(q)}})
                        \cup {New(r) : r \in Triggered}

Evaluate ==
    /\ pc = "evaluate"
    /\ IF enabled
       THEN /\ Settle
            /\ seen' = IF "unhealthy" \in disabled THEN seen ELSE context.sick
            /\ lastMode' = IF "mode" \in disabled THEN lastMode ELSE context.mode
            /\ pending' = {New(r) : r \in Triggered} \X Handler
            /\ pc' = IF pending' = {} THEN "sleep" ELSE "dispatch"
       ELSE pc' = "sleep" /\ UNCHANGED <<rules, pending>>
    /\ UNCHANGED <<world, context, switches, running, offered, dropped, events>>

\* a mutant: an error of a handler ends the dispatch
DispatchUntilError ==
    /\ pc = "dispatch"
    /\ \E call \in pending :
        /\ offered' = offered \cup {call}
        /\ pending' \in {pending \ {call}, {}}
    /\ pc' = IF pending' = {} THEN "sleep" ELSE "dispatch"
    /\ UNCHANGED <<world, context, rules, switches, running, dropped, events>>

\* whatever the handler answers, or raises, the next call follows
Dispatch ==
    /\ pc = "dispatch"
    /\ \E call \in pending :
        /\ offered' = offered \cup {call}
        /\ pending' = pending \ {call}
    /\ pc' = IF pending' = {} THEN "sleep" ELSE "dispatch"
    /\ UNCHANGED <<world, context, rules, switches, running, dropped, events>>

Sleep ==
    /\ pc = "sleep"
    /\ pc' = IF running THEN "gather" ELSE "off"
    /\ UNCHANGED <<world, context, rules, switches, running, delivery, events>>

\* the cooldown of r is over
CoolsDown(r) ==
    /\ ~cool[r]
    /\ cool' = [cool EXCEPT ![r] = TRUE]
    /\ UNCHANGED <<world, context, raised, active, tier, alertTier, seen, lastMode, unresolved,
                   switches, pc, running, delivery, events>>

Start ==
    /\ Event
    /\ ~running
    /\ running' = TRUE /\ pc' = "gather"
    /\ UNCHANGED <<world, context, rules, switches, delivery>>

\* stop() cancels the task where it waits, and waits for its end
Stop ==
    /\ Event
    /\ running /\ pc # "evaluate"
    /\ running' = FALSE /\ pc' = "off"
    /\ pending' = {} /\ dropped' = dropped \cup {call[1] : call \in pending}
    /\ UNCHANGED <<world, context, rules, switches, offered>>
---------------------------------------------------------------------------------
(* The operator and the system                                                   *)

SwitchRule(r) ==
    /\ Event
    /\ disabled' = IF r \in disabled THEN disabled \ {r} ELSE disabled \cup {r}
    /\ UNCHANGED <<world, context, rules, enabled, pc, running, delivery>>

SwitchManager ==
    /\ Event
    /\ enabled' = ~enabled
    /\ UNCHANGED <<world, context, rules, disabled, pc, running, delivery>>

LevelChanges(r, l) ==
    /\ Event
    /\ r \in Latch => l # "critical"
    /\ world' = [world EXCEPT !.level[r] = l]
    /\ UNCHANGED <<context, rules, switches, pc, running, delivery>>

ModulesChange(S) ==
    /\ Event
    /\ world' = [world EXCEPT !.sick = S]
    /\ UNCHANGED <<context, rules, switches, pc, running, delivery>>

ModeChanges(m) ==
    /\ Event
    /\ world' = [world EXCEPT !.mode = m]
    /\ UNCHANGED <<context, rules, switches, pc, running, delivery>>
---------------------------------------------------------------------------------
Dispatcher == Gather \/ Evaluate \/ Dispatch \/ Sleep

Next ==
    \/ Dispatcher \/ GatherFails
    \/ \E r \in Rule : CoolsDown(r) \/ SwitchRule(r)
    \/ \E r \in Latch \cup {"drawdown", "margin"}, l \in Level : LevelChanges(r, l)
    \/ \E S \in SUBSET Module : ModulesChange(S)
    \/ \E m \in Mode : ModeChanges(m)
    \/ Start \/ Stop \/ SwitchManager

Spec == Init /\ [][Next]_vars

\* the loop runs its task, every call of a collector or a handler ends, time passes
FairSpec == Spec /\ WF_vars(Dispatcher) /\ \A r \in Rule : WF_vars(CoolsDown(r))
---------------------------------------------------------------------------------
(* Properties                                                                    *)

TypeOK ==
    /\ {world, context} \subseteq [level : [Rule -> Level], sick : SUBSET Module, mode : Mode]
    /\ raised \in [Rule -> Nat] /\ active \in [Rule -> Nat]
    /\ tier \in [Rule -> Tier] /\ alertTier \in [Rule -> Tier]
    /\ cool \in [Rule -> BOOLEAN]
    /\ seen \in SUBSET Module /\ lastMode \in Mode \cup {None}
    /\ unresolved \in SUBSET Alert /\ dropped \in SUBSET Alert
    /\ disabled \in SUBSET Rule /\ enabled \in BOOLEAN
    /\ pc \in {"off", "gather", "evaluate", "dispatch", "sleep"} /\ running \in BOOLEAN
    /\ pending \in SUBSET (Alert \X Handler) /\ offered \in SUBSET (Alert \X Handler)
    /\ events \in Nat

(* The alerts of a rule that the history holds open are the one the rule holds, for  *)
(* the rules that wait for their alert to resolve: none is raised beside it, and none *)
(* is left open that no evaluation will ever resolve (rules.py:117, 145).             *)
OpenIsActive ==
    \A r \in Latch \cup {"margin"} :
        {a \in unresolved : a[1] = r} = IF Inactive(r) THEN {} ELSE {<<r, active[r]>>}

(* Every alert raised is handed to every handler, now or later in its evaluation:     *)
(* neither the error of another handler nor the end of a turn loses one, and only a    *)
(* stop of the dispatcher does (manager.py:251, 326).                                  *)
NothingLost ==
    \A r \in Rule, h \in Handler : \A n \in 1 .. raised[r] :
        \/ <<<<r, n>>, h>> \in pending \cup offered
        \/ <<r, n>> \in dropped

\* the alerts raised so far
Known == UNION {{<<r, n>> : n \in 1 .. raised[r]} : r \in Rule}

(* The rules, the latches and the cancellation of the task together keep what the       *)
(* handlers are promised: each alert is handed to each of them at most once, and before  *)
(* the next evaluation raises more (manager.py:211, 251).                                *)
Delivery == INSTANCE AlertDelivery WITH known <- Known, due <- pending
DeliverySpec == Delivery!Spec

On(r) == running /\ enabled /\ r \notin disabled

\* the rule holds an alert that is open
Alerted(r) == active[r] # 0 /\ <<r, active[r]>> \in unresolved

\* and every handler was handed it, or a stop of the dispatcher cut its evaluation off
Told(r) ==
    /\ Alerted(r)
    /\ \/ {<<r, active[r]>>} \X Handler \subseteq offered
       \/ <<r, active[r]>> \in dropped

(* A latched condition, a drawdown or a margin that is too high and stays so is told to *)
(* every handler, even when it begins in the cooldown of an alert that was resolved, or *)
(* between the gathering and the evaluation of a context, and whatever handlers raise     *)
(* (manager.py:251, 340, rules.py:109).                                                  *)
ConditionRaised ==
    \A r \in Latch \cup {"drawdown", "margin"} :
        (On(r) /\ world.level[r] \in {"warning", "critical"})
            ~> (Told(r) \/ ~On(r) \/ world.level[r] \in {"missing", "normal"})

(* "Alerts when a module becomes unhealthy" (rules.py:434): the same of the modules.     *)
UnhealthyRaised ==
    \A m \in Module :
        (On("unhealthy") /\ m \in world.sick)
            ~> (Told("unhealthy") \/ ~On("unhealthy") \/ m \notin world.sick)

(* A critical drawdown that lasts is alerted as such ("Alerts when drawdown exceeds      *)
(* configured thresholds", rules.py:276).                                                *)
CriticalRaised ==
    (On("drawdown") /\ world.level["drawdown"] = "critical")
        ~> \/ Alerted("drawdown") /\ alertTier["drawdown"] = "CRITICAL"
           \/ ~On("drawdown") \/ world.level["drawdown"] # "critical"
=================================================================================
