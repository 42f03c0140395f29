------------------------------- MODULE RiskBudget -------------------------------
(* The risk budget manager (risk_budget_manager/engine.py, tracker.py): threads   *)
(* ask it for risk and register the positions they opened with it.  The tracker   *)
(* takes its lock in every method; an evaluation calls one method after another,  *)
(* so everything may change between two of its reads.                             *)
(*                                                                                *)
(* Risk is an amount of money over the equity of the moment, in Units: the        *)
(* equities of an instance divide Unit, so that no quotient is rounded.           *)
EXTENDS Integers, FiniteSets, Functions

CONSTANTS
    Position, Request, Symbol,
    Amount,             \* the money a request may put at risk
    Left,               \* the risks a partial close may leave
    Equity,             \* the equities an update may report
    MinEquity,          \* EquityTrackingConfig.min_equity_usd
    Unit,               \* risk of an amount equal to the equity
    PerTrade, MinRisk,  \* PerTradeConfig.max_risk_pct, min_risk_pct
    Daily, Open,        \* max_risk_pct of DailyBudgetConfig, OpenPositionConfig
    MaxPositions, MaxLosses,
    Pyramiding,         \* OpenPositionConfig.allow_pyramiding
    MaxDrawdown,        \* DrawdownConfig, in percent
    ReduceAt,           \* PerTradeConfig.reduce_when_drawdown_pct: the limit is halved
    Recovery, ManualResume,
    None,
    MaxEvents, MaxSpent \* bounds of an instance

Halts == {"DRAWDOWN_LIMIT_BREACHED", "operator"}

ASSUME RiskBudgetAssumption ==
    /\ IsFiniteSet(Position) /\ IsFiniteSet(Request) /\ Request # {}
    /\ None \notin [symbol : Symbol, risk : Nat] /\ None \notin Halts
    /\ \A a \in Amount : a \in Nat /\ a > 0
    /\ \A x \in Left : x \in Nat
    /\ \A e \in Equity : e \in Nat /\ e > 0 /\ Unit % e = 0
    /\ {Unit, PerTrade, MinRisk, Daily, Open, MaxPositions, MaxLosses} \subseteq Nat
    /\ {MinEquity, MaxDrawdown, ReduceAt, Recovery, MaxEvents, MaxSpent} \subseteq Nat
    /\ MinEquity > 0 /\ Unit > 0
    /\ {Pyramiding, ManualResume} \subseteq BOOLEAN

VARIABLES
    \* TrackerState
    equity, peak, fresh, book, spent, losses, halt,
    newDay,     \* the date changed and current_daily_usage does not know yet
    eval,       \* the evaluation each request is in
    today,      \* observation: positions registered since the day's usage began
    operator,   \* observation: the operator halted trading and did not resume it
    excess,     \* observation: risk held above what was granted
    events      \* bound: what came from outside, requests and closes apart

market == <<equity, peak, fresh>>
halts == <<halt, operator>>
day == <<spent, losses, newDay, today>>
vars == <<market, halts, day, book, eval, excess, events>>

Min2(a, b) == IF a < b THEN a ELSE b
AtLeast0(a) == IF a < 0 THEN 0 ELSE a

RiskPct(amount, e) == IF e > 0 THEN (amount * Unit) \div e ELSE 0

\* the drawdown of equity e from peak p, against limits in percent
Drawdown(e, p) == (p - e) * 100
BreachesAt(limit) == peak > 0 /\ Drawdown(equity, peak) >= limit * peak
OpenPositions == {p \in Position : book[p] # None}
RiskOf(p) == IF book[p] = None THEN 0 ELSE book[p].risk
Held == [p \in Position |-> RiskOf(p)]
OpenRisk == SumFunctionOnSet(Held, Position)

Idle == [pc |-> "idle"]
PC == {"halted", "stale", "drawdown", "breached", "perTrade", "daily", "open", "count",
       "symbol", "losses", "granted"}
Evaluation == {Idle} \cup [pc : PC, symbol : Symbol, risk : Nat, room : Nat, equity : Nat,
                           clear : BOOLEAN]

Init ==
    /\ equity = 0 /\ peak = 0 /\ fresh = FALSE
    /\ halt = None /\ operator = FALSE
    /\ spent = 0 /\ losses = 0 /\ newDay = TRUE /\ today = {}
    /\ book = [p \in Position |-> None]
    /\ eval = [r \in Request |-> Idle]
    /\ excess = 0 /\ events = 0
-----------------------------------------------------------------------------------
(* The day's usage                                                                *)

\* a mutant: the new day's usage begins after the charge
ConsumeThenReset(x, S) ==
    /\ spent' = IF newDay THEN 0 ELSE spent + x
    /\ losses' = IF newDay THEN 0 ELSE losses
    /\ today' = IF newDay THEN S ELSE today \cup S
    /\ newDay' = FALSE

\* record x of risk on the usage of the current date, that of p among the positions S
Consume(x, S) ==
    /\ spent' = IF newDay THEN x ELSE spent + x
    /\ losses' = IF newDay THEN 0 ELSE losses
    /\ today' = IF newDay THEN S ELSE today \cup S
    /\ newDay' = FALSE

EnsureDailyUsage == Consume(0, {})

Event ==
    /\ events < MaxEvents
    /\ events' = events + 1

DateChanges ==
    /\ Event
    /\ newDay' = TRUE
    /\ UNCHANGED <<market, halts, spent, losses, today, book, eval, excess>>

ResetDailyBudget ==
    /\ Event
    /\ spent' = 0 /\ losses' = 0 /\ today' = {} /\ newDay' = FALSE
    /\ UNCHANGED <<market, halts, book, eval, excess>>
-----------------------------------------------------------------------------------
(* Evaluation of a request                                                        *)

At(r, pc) == eval[r].pc = pc

Goto(r, pc) == eval' = [eval EXCEPT ![r].pc = pc]

\* the answer reads the day's usage
Reject(r) ==
    /\ eval' = [eval EXCEPT ![r] = Idle]
    /\ EnsureDailyUsage

\* a request that does not validate is rejected here
EvaluateRequest(r) ==
    /\ At(r, "idle")
    /\ \/ \E s \in Symbol, a \in Amount :
            eval' = [eval EXCEPT ![r] = [pc |-> "halted", symbol |-> s, risk |-> RiskPct(a, equity),
                                         room |-> RiskPct(a, equity), equity |-> equity,
                                         clear |-> halt = None]]
          /\ UNCHANGED day
       \/ Reject(r)
    /\ UNCHANGED <<market, halts, book, excess, events>>

\* a check that rejects or goes on, and reads the tracker only
Check(r, pc, ok, next) ==
    /\ At(r, pc)
    /\ \/ ok /\ Goto(r, next) /\ UNCHANGED day
       \/ ~ok /\ Reject(r)
    /\ UNCHANGED <<market, halts, book, excess, events>>

\* a mutant: the halt is not looked at
CheckHaltedNever(r) == Check(r, "halted", TRUE, "stale")

CheckHalted(r) == Check(r, "halted", halt = None, "stale")
CheckStale(r) == Check(r, "stale", fresh /\ eval[r].equity >= MinEquity, "drawdown")

CheckDrawdown(r) ==
    /\ At(r, "drawdown")
    /\ Goto(r, IF BreachesAt(MaxDrawdown) THEN "breached" ELSE "perTrade")
    /\ UNCHANGED <<market, halts, day, book, excess, events>>

HaltOnDrawdown(r) ==
    /\ At(r, "breached")
    /\ halt' = "DRAWDOWN_LIMIT_BREACHED"
    /\ Reject(r)
    /\ UNCHANGED <<market, operator, book, excess, events>>

\* a mutant: what remains of a budget may be negative
FitUnbounded(r, pc, limit, next) ==
    /\ At(r, pc)
    /\ eval' = [eval EXCEPT ![r].pc = next, ![r].room = Min2(eval[r].room, limit)]
    /\ UNCHANGED <<market, halts, book, excess, events>>

\* a check of the risk keeps the largest part of the request that fits the limit
Fit(r, pc, limit, next) ==
    /\ At(r, pc)
    /\ \E x \in 0 .. eval[r].room :
        /\ x > 0 => x <= limit
        /\ \A y \in 0 .. eval[r].room : y <= limit => y <= x
        /\ eval' = [eval EXCEPT ![r].pc = next, ![r].room = x]
    /\ UNCHANGED <<market, halts, book, excess, events>>

PerTradeLimit == IF BreachesAt(ReduceAt) THEN PerTrade \div 2 ELSE PerTrade

CheckPerTrade(r) == Fit(r, "perTrade", PerTradeLimit, "daily") /\ UNCHANGED day

CheckDailyBudget(r) ==
    /\ EnsureDailyUsage
    /\ Fit(r, "daily", Daily - spent', "open")

\* a mutant: the open budget forgets what is held
CheckWholeOpenBudget(r) == Fit(r, "open", Open, "count") /\ UNCHANGED day

CheckOpenBudget(r) == Fit(r, "open", Open - OpenRisk, "count") /\ UNCHANGED day

CheckPositionCount(r) ==
    Check(r, "count", Cardinality(OpenPositions) < MaxPositions, "symbol")

CheckSymbol(r) ==
    Check(r, "symbol",
          Pyramiding \/ \A p \in OpenPositions : book[p].symbol # eval[r].symbol, "losses")

\* the request as it is, or reduced to what fits when that is worth a trade
Worth(r) ==
    LET e == eval[r] IN e.room = e.risk \/ (e.room > 0 /\ e.room >= MinRisk)

CheckLosses(r) ==
    /\ At(r, "losses")
    /\ \/ /\ losses < MaxLosses /\ Worth(r)
          /\ Goto(r, "granted")
          /\ EnsureDailyUsage
       \/ /\ ~(losses < MaxLosses /\ Worth(r))
          /\ Reject(r)
    /\ UNCHANGED <<market, halts, book, excess, events>>
-----------------------------------------------------------------------------------
(* Positions                                                                      *)

\* the order was filled, in part at least: the position holds what the fill risks now
RegisterPosition(r) ==
    /\ At(r, "granted")
    /\ \E p \in Position \ OpenPositions, a \in Amount :
        LET risk == RiskPct(a, equity) IN
        /\ RiskPct(a, eval[r].equity) <= eval[r].room
        /\ IF newDay THEN TRUE ELSE spent + risk <= MaxSpent
        /\ book' = [book EXCEPT ![p] = [symbol |-> eval[r].symbol, risk |-> risk]]
        /\ Consume(risk, {p})
        /\ excess' = excess + AtLeast0(risk - eval[r].room)
    /\ eval' = [eval EXCEPT ![r] = Idle]
    /\ UNCHANGED <<market, halts, events>>

\* the order was not filled, or the identifier of its position is taken already
Abandon(r) ==
    /\ At(r, "granted")
    /\ eval' = [eval EXCEPT ![r] = Idle]
    /\ UNCHANGED <<market, halts, day, book, excess, events>>

ClosePosition(p) ==
    /\ p \in OpenPositions
    /\ book' = [book EXCEPT ![p] = None]
    /\ losses' \in {Min2(losses + 1, MaxLosses), 0}
    /\ today' = today \ {p}
    /\ UNCHANGED <<market, halts, spent, newDay, eval, excess, events>>

PartialClose(p) ==
    /\ Event /\ p \in OpenPositions
    /\ \E risk \in Left : risk < book[p].risk /\ book' = [book EXCEPT ![p].risk = risk]
    /\ UNCHANGED <<market, halts, day, eval, excess>>

\* a mutant: a wider stop is not charged
UpdateStopFree(p) ==
    /\ Event /\ p \in OpenPositions
    /\ \E a \in Amount \cup {0} : book' = [book EXCEPT ![p].risk = RiskPct(a, equity)]
    /\ UNCHANGED <<market, halts, day, eval, excess>>

\* the risk is worked out anew, on today's equity; a is 0 when the stop is at the entry
UpdateStopLoss(p) ==
    /\ Event /\ p \in OpenPositions
    /\ \E a \in Amount \cup {0} :
        LET risk == RiskPct(a, equity)
            more == AtLeast0(risk - book[p].risk) IN
        /\ IF newDay THEN TRUE ELSE spent + more <= MaxSpent
        /\ book' = [book EXCEPT ![p].risk = risk]
        /\ IF more > 0 THEN Consume(more, {}) ELSE UNCHANGED day
        /\ excess' = excess + more
    /\ UNCHANGED <<market, halts, eval>>
-----------------------------------------------------------------------------------
(* The account monitor and the operator                                           *)

Resumed(S) == eval' = [r \in Request |-> IF eval[r] # Idle /\ r \in S
                                         THEN [eval[r] EXCEPT !.clear = TRUE] ELSE eval[r]]

\* a mutant: any halt ends with the recovery
RecoveredAnyway(e, p) == halt # None /\ Drawdown(e, p) <= Recovery * p

Recovered(e, p) ==
    /\ halt = "DRAWDOWN_LIMIT_BREACHED"
    /\ ~ManualResume
    /\ Drawdown(e, p) <= Recovery * p

\* the warnings that follow an update read the day's usage
UpdateEquity(e) ==
    /\ Event
    /\ equity' = e
    /\ peak' = IF e > peak THEN e ELSE peak
    /\ fresh' = TRUE
    /\ IF Recovered(e, peak')
       THEN halt' = None /\ Resumed(Request)
       ELSE UNCHANGED <<halt, eval>>
    /\ EnsureDailyUsage
    /\ UNCHANGED <<operator, book, excess>>

EquityAges ==
    /\ Event /\ fresh
    /\ fresh' = FALSE
    /\ UNCHANGED <<equity, peak, halts, day, book, eval, excess>>

SetPeakEquity(e) ==
    /\ Event
    /\ peak' = IF e > equity THEN e ELSE equity
    /\ UNCHANGED <<equity, fresh, halts, day, book, eval, excess>>

HaltTrading ==
    /\ Event
    /\ halt' = "operator" /\ operator' = TRUE
    /\ UNCHANGED <<market, day, book, eval, excess>>

ResumeTrading ==
    /\ Event
    /\ halt' = None /\ operator' = FALSE
    /\ Resumed(Request)
    /\ UNCHANGED <<market, day, book, excess>>
-----------------------------------------------------------------------------------
Evaluate(r) ==
    \/ EvaluateRequest(r) \/ CheckHalted(r) \/ CheckStale(r)
    \/ CheckDrawdown(r) \/ HaltOnDrawdown(r)
    \/ CheckPerTrade(r) \/ CheckDailyBudget(r) \/ CheckOpenBudget(r)
    \/ CheckPositionCount(r) \/ CheckSymbol(r) \/ CheckLosses(r)

Next ==
    \/ \E r \in Request : Evaluate(r) \/ RegisterPosition(r) \/ Abandon(r)
    \/ \E p \in Position : ClosePosition(p) \/ PartialClose(p) \/ UpdateStopLoss(p)
    \/ \E e \in Equity : UpdateEquity(e) \/ SetPeakEquity(e)
    \/ DateChanges \/ ResetDailyBudget \/ EquityAges \/ HaltTrading \/ ResumeTrading

Spec == Init /\ [][Next]_vars
-----------------------------------------------------------------------------------
(* Properties                                                                     *)

TypeOK ==
    /\ equity \in Nat /\ peak \in Nat /\ fresh \in BOOLEAN
    /\ book \in [Position -> {None} \cup [symbol : Symbol, risk : Nat]]
    /\ spent \in Nat /\ losses \in Nat /\ newDay \in BOOLEAN /\ today \in SUBSET Position
    /\ halt \in Halts \cup {None} /\ operator \in BOOLEAN
    /\ eval \in [Request -> Evaluation]
    /\ excess \in Nat /\ events \in Nat

Granted(r) == IF At(r, "granted") THEN eval[r].room ELSE 0

\* the requests past the check of the open, the daily budget, and what they may still take
PastOpen == {"count", "symbol", "losses", "granted"}
PastDaily == PastOpen \cup {"open"}
Claims(S) == [r \in Request |-> IF eval[r].pc \in S THEN eval[r].room ELSE 0]

\* a per-trade limit for each request but one
Overlap == (Cardinality(Request) - 1) * PerTrade + excess

OpenOverlap == OpenRisk + SumFunctionOnSet(Claims(PastOpen), Request) <= Open + Overlap
DailyOverlap == spent + SumFunctionOnSet(Claims(PastDaily), Request) <= Daily + Overlap

(* Requests that overlap may each be granted the room the others were granted, and *)
(* no more: what is held and claimed stays below the open limit, what is charged to *)
(* the day and claimed below the daily one, and one per-trade limit for each further *)
(* request, whatever interleaving of evaluations, registrations, closes and new     *)
(* days.  What goes beyond is only what moved after the grant: the equity before    *)
(* the registration, and stops (engine.py:321, tracker.py:186).                     *)
OverlapBound == OpenOverlap /\ DailyOverlap

(* The risk held by the positions of a day was charged to that day, through partial *)
(* closes, moved stops, resets and a date that changes under an open evaluation     *)
(* (tracker.py:619, the invariants of tracker.py:17).                               *)
TodayCovered == SumFunctionOnSet(Held, today) <= spent

(* No request is granted risk when trading was halted during the whole of its       *)
(* evaluation: the only grants a halt may miss are those already past the check     *)
(* (engine.py:237, tracker.py:502).                                                 *)
HaltRefuses == \A r \in Request : At(r, "granted") => eval[r].clear

(* An operator's halt lasts until an operator resumes: a drawdown halt that replaces *)
(* its reason does not hand it to the recovery of the equity, as long as resuming is *)
(* manual (tracker.py:502, 636).                                                     *)
OperatorHaltHolds == ManualResume => (operator => halt # None)

(* The detailed manager keeps the promises of the ledger.                            *)
Ledger == INSTANCE RiskLedger WITH
    open <- OpenPositions,
    held <- Held,
    granted <- [r \in Request |-> Granted(r)]

LedgerSpec == Ledger!LedgerSpec

(* Total risk of the open positions stays below the limit (config.py:129: "If all    *)
(* positions hit stop loss simultaneously, maximum loss is 1.0%"), when neither the  *)
(* equity nor a stop moved after a grant.                                            *)
OpenRiskWithinLimit == OpenRisk <= Open + excess
=================================================================================
