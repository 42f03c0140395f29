------------------------------ MODULE AlertDelivery ------------------------------
(* What the alert manager promises those it notifies (monitoring/alerts/manager.py): *)
(* an alert is new once, it is handed to each handler at most once, before the next   *)
(* alerts are raised, and what is given up is given up for all the handlers.           *)
CONSTANT Handler

VARIABLES
    known,      \* the alerts raised so far
    due,        \* calls of handlers still to be made
    offered     \* calls made

deliveryVars == <<known, due, offered>>

Init == known = {} /\ due = {} /\ offered = {}

\* an evaluation raises any number of new alerts
Raise ==
    /\ due = {}
    /\ known \subseteq known'
    /\ due' = (known' \ known) \X Handler
    /\ UNCHANGED offered

Offer(call) ==
    /\ call \in due
    /\ due' = due \ {call}
    /\ offered' = offered \cup {call}
    /\ UNCHANGED known

GiveUp ==
    /\ due' = {}
    /\ UNCHANGED <<known, offered>>

Next ==
    \/ Raise
    \/ \E call \in due : Offer(call)
    \/ GiveUp

Spec == Init /\ [][Next]_deliveryVars

(* No call is made of an alert that was not raised, or made twice: those that are due *)
(* were not made before (manager.py:251).                                              *)
DueOnce == due \cap offered = {} /\ due \cup offered \subseteq known \X Handler
==================================================================================
