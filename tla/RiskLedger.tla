------------------------------- MODULE RiskLedger -------------------------------
(* What the risk budget promises (risk_budget_manager/tracker.py:17-23): risk is *)
(* taken only on a grant, no grant is above the per-trade limit, whatever a       *)
(* position comes to hold is charged to the day it was taken on, and nothing but  *)
(* a new day forgets a charge.                                                    *)
EXTENDS Integers

CONSTANTS
    Position,   \* identifiers of positions
    Request,    \* callers that ask for risk, one request at a time each
    PerTrade    \* the largest grant

VARIABLES
    open,       \* the positions that are open
    held,       \* the risk each of them holds
    spent,      \* the risk charged to the current day
    granted     \* the risk each request was granted and has not used yet

ledgerVars == <<open, held, spent, granted>>

LedgerInit ==
    /\ open = {}
    /\ held = [p \in Position |-> 0]
    /\ spent = 0
    /\ granted = [r \in Request |-> 0]

\* x more is charged to the day, which may have begun since the last charge
Charge(x) == spent' \in {spent + x, x}

\* only the risk of p changes
Holds(p) == held' = [held EXCEPT ![p] = held'[p]]

\* answering a request may find that a new day began
Grant(r) ==
    /\ granted[r] = 0 /\ granted'[r] \in 1 .. PerTrade
    /\ granted' = [granted EXCEPT ![r] = granted'[r]]
    /\ Charge(0)
    /\ UNCHANGED <<open, held>>

Lapse(r) ==
    /\ granted' = [granted EXCEPT ![r] = 0]
    /\ UNCHANGED <<open, held, spent>>

\* the equity may have moved since the grant: the risk held need not be the risk granted
Take(r, p) ==
    /\ granted[r] > 0 /\ p \notin open /\ held'[p] > 0
    /\ granted' = [granted EXCEPT ![r] = 0]
    /\ open' = open \cup {p}
    /\ Holds(p)
    /\ Charge(held'[p])

\* a close in part, a better stop
Release(p) ==
    /\ p \in open /\ held'[p] <= held[p]
    /\ Holds(p)
    /\ UNCHANGED <<open, spent, granted>>

Raise(p) ==
    /\ p \in open /\ held'[p] > held[p]
    /\ Holds(p)
    /\ Charge(held'[p] - held[p])
    /\ UNCHANGED <<open, granted>>

Close(p) ==
    /\ p \in open
    /\ open' = open \ {p}
    /\ held' = [held EXCEPT ![p] = 0]
    /\ UNCHANGED <<spent, granted>>

NewDay ==
    /\ spent' = 0
    /\ UNCHANGED <<open, held, granted>>

LedgerNext ==
    \/ \E r \in Request : Grant(r) \/ Lapse(r)
    \/ \E r \in Request, p \in Position : Take(r, p)
    \/ \E p \in Position : Release(p) \/ Raise(p) \/ Close(p)
    \/ NewDay

LedgerSpec == LedgerInit /\ [][LedgerNext]_ledgerVars
=================================================================================
