--------------------------- MODULE OrderStateMachine ---------------------------
(* The order lifecycle of the Execution Engine                                *)
(* (execution_engine/state_machine.py): the transition table and the guards    *)
(* every order goes through, and, as an abstract specification, what the       *)
(* lifecycle promises of every order.  OrderManager implements it.             *)
EXTENDS Integers

CONSTANTS
    Order,     \* client order ids; an intent without one gets a fresh id
    Quantity,  \* the quantity of an order, after rounding, in steps
    ExchangeId \* the ids the exchange gives to the orders of one client id

NoId == -1

ASSUME OrderAssumption == Quantity \in Nat \ {0} /\ NoId \notin ExchangeId

VARIABLES
    ostate,    \* OrderRecord.state of each order, "none" before it is tracked
    filled,    \* OrderRecord.filled_quantity
    xid        \* OrderRecord.exchange_order_id, NoId while there is none

lifeVars == <<ostate, filled, xid>>

OrderState == {"PENDING_VALIDATION", "PENDING_SUBMISSION", "SUBMITTED",
               "PARTIALLY_FILLED", "FILLED", "COMPLETED", "CANCELED",
               "REJECTED", "EXPIRED", "FAILED"}

\* OrderState.is_terminal
Terminal == {"FILLED", "COMPLETED", "CANCELED", "REJECTED", "EXPIRED", "FAILED"}

\* a mutant: an order that waits for its first fill is not active
ActiveOnceFilled == OrderState \ (Terminal \cup {"SUBMITTED"})

\* OrderState.is_active
Active == OrderState \ Terminal

\* OrderState.allows_cancel
AllowsCancel == {"PENDING_SUBMISSION", "SUBMITTED", "PARTIALLY_FILLED"}

\* VALID_TRANSITIONS
ValidTransitions(s) ==
    CASE s = "PENDING_VALIDATION" -> {"PENDING_SUBMISSION", "REJECTED", "FAILED"}
      [] s = "PENDING_SUBMISSION" -> {"SUBMITTED", "REJECTED", "CANCELED", "FAILED"}
      [] s = "SUBMITTED" -> {"PARTIALLY_FILLED", "FILLED", "CANCELED", "REJECTED",
                             "EXPIRED", "FAILED"}
      [] s = "PARTIALLY_FILLED" -> {"FILLED", "CANCELED", "EXPIRED", "FAILED"}
      [] s = "FILLED" -> {"COMPLETED"}
      [] OTHER -> {}

\* TransitionGuard.validate_order_for_state, f being the filled quantity
ValidForState(target, f) ==
    /\ target = "FILLED" => f >= Quantity
    /\ target = "PARTIALLY_FILLED" => 0 < f /\ f < Quantity

\* transition_to: the state it leaves behind; when it raises, nothing changes
TransitionTo(s, target, f) ==
    IF target \in ValidTransitions(s) /\ ValidForState(target, f) THEN target ELSE s

\* mark_filled and, unless that raised, mark_completed
MarkFilled(s, f) == TransitionTo(TransitionTo(s, "FILLED", f), "COMPLETED", f)

\* The states a number of transitions lead to
Step(S) == S \cup UNION {ValidTransitions(s) : s \in S}
Reachable(s) == Step(Step(Step({s})))

LifeInit ==
    /\ ostate = [o \in Order |-> "none"]
    /\ filled = [o \in Order |-> 0]
    /\ xid = [o \in Order |-> NoId]

\* An order is tracked once it is validated or rejected.
Track(o) ==
    /\ ostate[o] = "none"
    /\ \E s \in {"PENDING_SUBMISSION", "REJECTED"} : ostate' = [ostate EXCEPT ![o] = s]
    /\ UNCHANGED <<filled, xid>>

\* An active order moves along the table; the exchange's id is set once, fills
\* only grow and belong to an order the exchange has accepted, and an order is
\* complete when all of it is filled.
Advance(o) ==
    /\ ostate[o] \in Active
    /\ \E s \in Reachable(ostate[o]), f \in filled[o] .. Quantity, x \in ExchangeId \cup {NoId} :
        /\ x # xid[o] => xid[o] = NoId /\ s # "PENDING_SUBMISSION"
        /\ f > filled[o] => x # NoId
        /\ s = "COMPLETED" => f = Quantity
        /\ s = "PARTIALLY_FILLED" => 0 < f /\ f < Quantity
        /\ ostate' = [ostate EXCEPT ![o] = s]
        /\ filled' = [filled EXCEPT ![o] = f]
        /\ xid' = [xid EXCEPT ![o] = x]

LifeNext == \E o \in Order : Track(o) \/ Advance(o)

\* "Terminal states are final" (state_machine.py:33), and everything Advance
\* says: what the lifecycle promises of every order, whatever the retries,
\* cancellations, synchronisations and aborted calls around it.
LifeSpec == LifeInit /\ [][LifeNext]_lifeVars

-------------------------------------------------------------------------------
LifeTypeOK ==
    /\ ostate \in [Order -> OrderState \cup {"none"}]
    /\ filled \in [Order -> 0 .. Quantity]
    /\ xid \in [Order -> ExchangeId \cup {NoId}]
===============================================================================
