# A formal model of the trading platform

TLA+ modules of the parts of this repository that decide whether the platform may
trade and how much it may risk, hand orders to an exchange, start or stop, receive
market data, fetch on-chain metrics, and tell its operators; TLC runs that check them
on small instances; and TLAPS proofs of what matters most for any number of
monitors, callers, orders, positions, modules, connections, rules and adapters. `PROJECT.json` maps every definition to the lines
it models and lists the runs, mutants, theorems and hazards.

Run a model with `tlc -config <X>.cfg <M>` and a proof with `tlapm <M>Proofs.tla`.

## 1. The system

One Python process runs one asyncio event loop. The orchestrator starts the
modules in dependency order and then, every tick, runs the stages of a cycle: ingest data,
process it, score risk, decide, execute. Everything below is a class in that
process; state is kept in memory except where a file or the database is named.
Tasks interleave only where the code awaits.

| Component (`src/`) | State | Operations | Hard behaviour |
|---|---|---|---|
| **System Risk Controller** (`system_risk_controller/`) | halt state, active triggers, monitor task, lock, callbacks | `request_halt`, `emergency_stop`, `request_resume`, `validate_before_execution`, start, stop, the monitor loop | one lock held through a pass of monitors and their callbacks; callbacks that raise; trigger categories that clear each other; a start that fails half way |
| **Execution Engine** (`execution_engine/`) | order records and state machines, client id map, lock, running flag | `execute`, `cancel`, `cancel_all`, reconciliation loop, start, stop | lost or late answers, retries, tasks cancelled in a request, fills during a cancel, halt state read before an await |
| **Orchestrator** (`orchestrator/`, `app.py`) | module statuses, `_running`, shutdown flag, main loop task | start, run_forever, stop, emergency_stop, signal handlers | two stops at once, a stop by the task it cancels, swallowed cancellations, drain timeouts, signals during startup |
| **State Manager** (`core/state_manager.py`) | system state, persisted in a file | transitions, emergency stop, restore | crash and restart, a write that is cut, a state that must survive |
| **Risk Budget Manager** (`risk_budget_manager/`) | equity and peak, open positions, the day's usage, halt flag and its reason (RLock in every method of the tracker) | evaluate, register, close, partial close, move a stop, update equity, halt, resume, daily reset | an evaluation reads the tracker piece by piece; the position is registered much later; the date changes; two owners of one halt flag |
| **Trade Guard** (`trade_guard_absolute/`) | none that survives a call | validator chain | order of validators, a validator that fails |
| **Market data collector** (`data_ingestion/collectors/market_data_ws.py`, run by `ingestion_service.py`) | connection, `_connected`, `_running`, subscriptions, reconnect counter, task | start, connect, subscribe, unsubscribe, reconnect, disconnect, stop | stop, drop or subscribe at any await of a connect, a backoff or a close; an orderly close; a service that fails |
| **On-chain adapters** (`onchain_adapters/`) | per adapter: health, cache, request counters | registry fetch with fall back, adapter fetch with retries, health checks, clearing | nothing is locked; check-then-act on the limit; a timeout inside a timeout |
| **Monitoring alerts** (`monitoring/alerts/`) | rules with cooldowns and an active alert, history, dispatcher task | evaluate, dispatch, enable and disable, start, stop | conditions that come and go around a cooldown; a stop inside a dispatch |
| **Data source health** (`data_source_health/`) | scores and state per source | record, evaluate | hysteresis, stale scores |
| **Human review** (`human_review/`) | events, decisions, parameter changes (database) | submit, annotate, approve | none that outlives a request, see section 8 |
| Strategy, risk scoring, sentiment, smart money, decision engine, backtesting, parity validation, dashboards, retention, reporting, storage | inputs to outputs, or rows | pure functions, queries, adapters | little shared state |

How they interact:

- The orchestrator calls `start()` and `stop()` of each module under a timeout, and each
  stage under a timeout: a stage that is late is *cancelled*, wherever in the
  engines it awaits (`orchestrator/pipeline.py:90-132`). This is the `CallAborts` and
  `CallerAborts` of the models.
- The controller tells its callbacks (`on_state_change`, `on_halt_event`) of every
  halt, awaiting each while it holds its lock.
- The execution engine asks `is_system_halted()` before it validates and before
  each attempt; it never waits for the controller.
- The orchestrator asks the state manager for each transition, and before a trading
  stage looks at the halt state, the controller and the status of every module.
- The risk committee's HOLD and BLOCK and the operator's emergency stop are calls of
  `request_halt`.
- Callers of the risk budget ask for a decision, place the order, and register the
  position once it is filled; an account monitor updates the equity. Threads may do so.
- The ingestion service starts the collector as a task and stops it in its `finally`.
- The alert dispatcher gathers a context from collectors, has the manager evaluate it, and
  awaits each handler for each new alert.

What makes each component correct is stated in sections 3 to 5. Parts with status
`not_modelled` in `PROJECT.json` are listed with the reason.

## 2. Modules

| Module | Models | Extends |
|---|---|---|
| `RiskStateMachine` | `system_risk_controller/state_machine.py`; also the abstract specification `SMSpec` | |
| `RiskController` | `engine.py`, `monitors/base.py`, `guards/data_reality.py`: tasks, lock, callbacks | `RiskStateMachine` |
| `OrderStateMachine` | `execution_engine/state_machine.py`, `types.py`; the abstract order lifecycle `LifeSpec` | |
| `OrderManager` | `order_manager.py`, `execution_service.py`, the exchange | `OrderStateMachine` |
| `StateManager` | `core/state_manager.py`; the abstract lifecycle `LifecycleSpec` | |
| `Orchestrator` | `orchestrator/core.py`, `registry.py`, `pipeline.py`, `app.py` | `StateManager` |
| `RiskLedger` | the abstract specification of the risk budget: what is granted, held and charged | |
| `RiskBudget` | `risk_budget_manager/engine.py`, `tracker.py`, `types.py`; instantiates `RiskLedger` | |
| `MarketData` | `market_data_ws.py`, `ingestion_service.py`, the exchange's side of a connection | |
| `AlertDelivery` | the abstract specification of what the alert manager promises its handlers | |
| `Alerts` | `monitoring/alerts/rules.py`, `manager.py`; instantiates `AlertDelivery` | |
| `OnchainAdapters` | `onchain_adapters/base.py`, `registry.py`, health checks of the providers | |
| `MC*` | constants of the instances TLC checks | the module they check |
| `*Proofs` | theorems and proofs | the module they are about |

In each of the first three pairs the first module is what the component promises, over the variables a
client sees, and the second is the component as its tasks run it. The second
extends the first and keeps its variables under the same names, so that the
refinement mapping is the identity and the promise is checked, or proved, as
`Spec => SMSpec`, `Spec => LifeSpec` or `Spec => LifecycleSpec`. `RiskBudget` instead keeps
variables of its own and instantiates `RiskLedger` with a mapping: the open positions, what each
holds, and what each request was granted and has not used are computed from its state, and
`LedgerSpec` is checked and proved. `Alerts` does the same with `AlertDelivery`, whose set of known alerts is computed
from the rules' counters (`DeliverySpec`, proved, and true of the instance of `MCAlerts` when added to its properties). Definitions that a comment
calls a mutant are never used by a specification: each is a wrong version of the
definition after it, with which a property is shown to fail.

What happens between two awaits of a task is one action. A program counter
(`pc`, `loop`, `boot`) says at which await a task is.

### RiskStateMachine and RiskController

`state` and `active` are the halt state and `active_triggers`. The actions are `ProcessHaltEvent`, `ClearTriggers` (the calls of
`clear_trigger` for one category, which no await separates) and `RequestResume`.
The last is faithful to a defect of the code: `ResumeRequest` has none of
the fields `request_resume` reads, so that a resume that is not refused raises
(`ResumeReply`).

`RiskController` adds the boot task, the monitor loop, the callers and the
`asyncio.Lock`. `loop = "checking"` means the loop is between two monitors
with nothing awaited, and no other task moves then (`Yielded`). Places named
`onState` and `onHalt` are awaits of the two callbacks; `err*` and `int*` are the same
awaits during the first and the second attempt to report a callback that raised.
If the last one raises, the task is `dead`. `reported` is an observation: which monitors
reported which triggers in this pass.

Abstracted: which numbers make a monitor report (any of its possible reports may
be made, `Reports`; in the instance each monitor may also be slow, which `BaseMonitor.check`
reports with a trigger of the processing category), messages, history, alert texts. The DEGRADED state is in the
types, but no code path enters it.

### OrderStateMachine and OrderManager

`ostate`, `filled`, `xid` are the fields of an order record; `book` is the exchange:
for each attempt of an order what became of its request. The exchange is a separate actor: a
request may be processed after the manager gave up on it, an accepted order
fills and closes at any time, and an answer may be old when it is read. A call is
a task of `Caller`, or the reconciliation task; `CallAborts` ends it at any await, as
the stage timeout does.

Abstracted: prices and sizes (a quantity is a number of steps), the reasons of a
validation failure, approval times (the gate may refuse or not), which of the errors are retryable
(either may happen). Orders share only the lock.

### StateManager and Orchestrator

`state`, `disk` and `emergency`: the state, the file, and, as an observation, whether an
emergency stop was triggered in this process, recorded by the file, or lost by a restart. `PersistState`
writes, fails or tears the file as the constant `Persistence` allows; the runs and the theorems take the
fallible one.

`Orchestrator` has a main task (boot, start the modules, cycles, stop) and a task per
signal. `cancelled` is the set of tasks with a cancellation to be delivered; where
`wait_for` may swallow one (Python 3.11), both outcomes are allowed. `Crash` ends the process
at any time; `Boot` starts the next one from the file.

Abstracted: what stages compute (a stage succeeds, fails, or fails for good), the
health counters of modules (`clear` is either), tick times.

### RiskLedger and RiskBudget

`eval` holds the evaluation each request is in: its program counter is the next call to the tracker,
so that anything may happen between two reads; `room` is what the checks so far leave of the
proposed risk. `book`, `equity`, `peak`, `fresh`, `spent`, `losses` and `halt` are the tracker's state;
`newDay` says that the date is no longer that of the daily usage. Risk is a percentage in the code; here it
is a number of `Unit`s whose divisors the equities are, so that no quotient is rounded. The observations
`today`, `operator` and `excess` record the positions charged to the current day, an operator's halt that
was not resumed, and the risk held above what was granted (because the equity or a stop moved).

Abstracted: prices (a request is an amount at risk), profit and loss (a close wins or loses), the tiers of the
configuration by equity, warnings and alerts, statistics. A request's stop beyond its entry is a risk of 0.

### MarketData

`conn` is each connection as the network has it: open, lost, closed in order (`clean`), or in its
closing handshake. `ws` is where the collector's task is, `svc` and `stop` the service's task and the task that
stops it. A connect that is under way when the task is cancelled is abandoned by the library. `carried` is what
the exchange streams. Abstracted: messages, their storage, how long a backoff is.

### Alerts

`world` is what the collectors would report now, `context` what they reported to the evaluation under way:
the condition may change in between. A rule is a latch (five of the nine default rules have this
form), or drawdown, margin, unhealthy modules and mode changes, whose extra state is modelled. `cool` is whether the
cooldown is over; `pending` the calls of handlers still to be made; `offered` and `dropped` are observations.
An evaluation is one action: it holds the manager's lock and awaits nothing until it dispatches.

### OnchainAdapters

`task` is the fetch each caller is in: the adapters still to ask, the one being asked, the attempt. `usable` is what
`is_usable()` says of the health status, all the registry looks at; `used` and `dated` are the daily counter and
whether it is today's. `sent` is an observation: the runs of `fetch_raw()` that called the provider today, whether or not the
counter has them; each makes up to `CallsPerFetch` calls (four of Etherscan's), so that `Calls` is what the day's fetches made at
the most. The calls of health checks come on top, are counted nowhere, and are left out. A request that is not valid is an error on each
adapter asked and nothing else (`Invalid`). `TimesOut` ends the shorter of two nested waits: the adapter's own, which it counts as a
failure and answers from its stale cache, or the registry's, which cancels the adapter.
Abstracted: the limit per second, incidents and latency, what is fetched, registration of adapters.

## 3. Properties

*Risk controller.*
`StateCoversTriggers`: the state is at least as severe as every active trigger, after
any sequence of events, clearings and resumes.
`NoAutomaticResume`: HARD and EMERGENCY are not lowered without an operator.
`TradingImpliesMonitored`: a running controller that lets trades through has a live monitor task.
`LastingReportHalts`: a pass in which a monitor reported what no monitor after it owns ends with the system halted.
`FailSafePass`, the documented claim that every report does, fails (section 6).
`HaltTakesEffect`: a requested halt takes effect.
`MonitoredHaltReleased`: a soft halt whose triggers have a monitor is lifted once all is calm.

*Execution engine.*
`LifeSpec`: terminal states are final, an exchange id is set once, fills only grow and
belong to an accepted order.
`ExchangeIsAhead`: the record never counts a fill, nor takes an order for closed, that
the exchange has not filled or closed.
`NoRequestWhileHalted`: no request leaves while the system is halted.
`NoRequestOnceSettled`: none leaves for an order that was accepted or closed, and a request that is not the first
comes from the call that sent the one before it: what a cancelled call left pending is not sent again by another.
`CallsReturn`, `ClosedOrdersReconciled`: calls return; what the exchange closed is closed here too.

*Process.*
`LifecycleSpec`: the state follows the transition table.
`EmergencySticks`: after an emergency stop its process is never operational again, and once the file has recorded the stop
no later process is, whatever crashes, fails to start or fails to write. A stop that was not recorded is lost by a restart
(section 6).
`CriticalModulesUp`: RUNNING only with the critical modules and all dependencies up.
`StageKeepsModules`: no stage runs over modules that are being stopped.
`NoCycleAfterShutdown`: a requested shutdown starts no cycle.
`ShutdownCompletes`: a requested shutdown ends the process.

*Risk budget.*
`LedgerSpec`: risk is taken on a grant only, no grant is above the per-trade limit, what a position comes to
hold is charged to the day, and nothing but a new day forgets a charge.
`OverlapBound`: requests that overlap may each be granted the same room, and no more than that: what is held (or was
charged to the day) and what is claimed stays below the open (the daily) limit and one per-trade limit for each further request.
`TodayCovered`: the positions registered today hold no more than the day was charged.
`HaltRefuses`: no request is granted if trading was halted through the whole of its evaluation.
`OperatorHaltHolds`: with manual resume an operator's halt ends by an operator only.

*Market data.*
`NothingLeftOpen`: when the service has ended its collector has too, and no connection is open.
`OneConnection`: only the connection the collector holds is up.
`SubscriptionsCarried`: an open connection streams what is subscribed.
`DropHandled`: a dropped connection is replaced, or the collector stops or gives up.

*Alerts.*
`OpenIsActive`: the open alerts of a latch or of the margin in the history are those its rule holds. (A drawdown that
escalates leaves its WARNING open for ever, `rules.py:295`, and mode changes and a module that becomes
unhealthy after another leave theirs; these rules are left out.)
`NothingLost`: every alert raised is handed to every handler, unless the dispatcher is stopped.
`DeliverySpec`, which is proved and not part of a run: an alert is offered to a handler once at most, before the next alerts are raised.
`ConditionRaised`: a latched condition, a drawdown or a margin that stays is told to every handler, unless a stop of the
dispatcher cuts its evaluation off. Of unhealthy modules this does not hold (section 6).

*On-chain adapters.*
`DailyBound`: the calls that the fetches of a day make, those the counter forgets at midnight included, exceed the daily limit
by no more than the calls of two fetches of each caller. On the instance the bound is reached.
`NeverStuck`: a fetch can always go on, whatever the provider does.
`FetchAdvances`: each step leaves fewer adapters, or fewer steps with the current one. The two together
say that a fetch ends.

## 4. Runs

| Run | Result | Instance, and why it is enough |
|---|---|---|
| `MCRiskController` | passes, 40,317 states | Two monitors, so that one can clear what the other reported, and either may be slow; a caller against the monitor loop and a start or stop; triggers of two monitored categories and of none; soft, hard and emergency events. Callbacks may raise at each await. Safety and liveness are checked together. The theorems are about any number of callers; with two the safety properties hold too (656,656 states). |
| `RiskControllerSlow` | `FailSafePass` fails | As above. |
| `MCOrderManager` | passes, 634,198 states | One order of two steps (so that it can be partly filled), two callers and the reconciliation loop, two attempts. Callers are symmetric. The exchange may accept both attempts, which is the weaker assumption. |
| `OrderManagerLive` | passes, 134,404 states | One caller against the reconciliation loop, an order of two steps, so that a synchronisation may copy a fill and then fail its transition. |
| `OrderManagerOrphan` | `ClosedOrdersNotLive` fails | Even with an exchange that refuses a duplicate client id. |
| `MCOrchestrator` | passes, 24,482 states | Four modules: two critical, one that is not, and a critical one that depends on it; three stages, two of them trading; two signals, so that two stops and the main task overlap; drain timeouts, crashes and restarts without bound; a file whose writes may succeed, fail or be cut. |
| `MCRiskBudget` | passes, 1,219,487 states | Two requests and two positions (more would only repeat the overlap), amounts and an equity that may halve, so that the drawdown limit and the halved per-trade limit both bite; three outside events (updates, dates, halts, resumes, stops) in any order; the daily charge is followed up to 4 where the limit is 3. |
| `MCMarketData` | passes, 5,847 states | Three connections, so that a held, a dead and a new one may exist at once; one configured and one added symbol; two reconnections; five outside events. |
| `MarketDataClose` | `CloseHandled` fails | As above. |
| `MCAlerts` | passes, about 197,500 states | One latch beside the four special rules, two modules, two handlers, four outside events: a condition that begins, ends, begins again in the cooldown, and a stop. |
| `AlertsCritical` | `CriticalRaised` fails | As above. |
| `MCOnchainAdapters` | passes, 2,189,238 states | Two callers, which are symmetric; one adapter with a daily limit of one fetch of four calls and a timeout shorter than the registry's, one without limit whose timeout is longer; two attempts each; health checks, ageing entries, cleared caches and new days without bound. |

No counter of the older models is unbounded, and those of the others stop at `MaxEvents` and `MaxSpent`, bounds of the
instance that the proofs do not use otherwise: retries stop at `MaxRetries`, the quantity is
fixed, crashes and halts are cycles of the state graph. One order is enough for what is
checked, because two orders meet only at the lock, and the other caller and the
reconciliation task already contend for it.

## 5. Fairness

`Spec` has none. `FairSpec` assumes what asyncio and the code give: a task that is ready runs (WF);
`asyncio.Lock` serves waiters in order, so that a task that waits for a lock that is
released again and again gets it (SF); a callback ends, a request is under a timeout,
modules and stages are under timeouts, and a sleep ends. Nothing obliges a
signal, a crash, a halt, a caller, a fill or a restart to happen. `ClosedOrdersReconciled` assumes, in
its own statement (`ReachableExchange`), that not every query for the order fails.
`MonitoredHaltReleased` speaks of behaviours in which from some point on nothing new
goes wrong (`Calm`). `MarketData`: the collector's task, the service's turns and a close in progress come to their end (a
connect and a close are under a timeout of the library, a backoff is a sleep). `Alerts`: the dispatcher's task runs, and
each cooldown ends. `RiskBudget` and `OnchainAdapters` have no fairness: of the first only safety is claimed, and that
fetches end is stated as a measure that decreases.

## 6. Where the code and its documentation differ

Four of the differences are runs that end in a violation:

- *A slow check does not halt the system* (`RiskControllerSlow`; `monitors/base.py:14`, "Fail-safe (errors = HALT)"):
  `BaseMonitor.check` reports a slow check of any monitor as `PR_PROCESSING_TIMEOUT`, which the healthy processing monitor clears
  later in the same pass.
- *A submission whose answer is lost is FAILED here and may be live there*, and is never
  reconciled, as it has no exchange id (`OrderManagerOrphan`; `reconciliation.py:17`).
- *An orderly close of the market data connection is never replaced* (`MarketDataClose`; `market_data_ws.py:29`): the
  receive loop ends without an error and `start()` spins on the closed connection.
- *A drawdown that turns critical in the cooldown of its warning is never alerted as critical* (`AlertsCritical`;
  `rules.py:276`): the tier is set before the cooldown is looked at, and then hides the condition.

The modules state others as properties that do not hold; adding the property to the instance named shows the
counterexample:

- `SoftHaltReleased` (`MCRiskController`): a HOLD, a controller error or another trigger no monitor owns keeps a soft halt for
  ever (`engine.py:602` against `state_machine.py:20`).
- `ResumeHonoursContract` (`MCRiskController`): `request_resume` reads fields that `ResumeRequest` does not have, and a forced
  one clears the triggers before it raises.
- `SuccessMeansAccepted` (`MCOrderManager`): an intent submitted again after its task was cancelled reports SUCCESS for an order the
  exchange never saw.
- `FilledOnce` (`OrderManagerOrphan`): a retry after a lost answer may fill an intent twice (`order_manager.py:382` against
  `config.py:214`). The exchange may have filled the first request, and then it no longer keeps the client id; nobody asks
  it before the second is sent.
- `SignalObeyed` (`MCOrchestrator` under `FairSpec`): a signal during startup is dropped.
- `EmergencyStopsAll` (`MCOrchestrator`): an emergency stop from a stage cancels itself at the first module it stops.
- `EmergencySurvives` (`MCOrchestrator`): an emergency stop is lost by a restart if it was not written: by default there is no
  file, and with one it is truncated before it is written and errors are swallowed (`state_manager.py:415-423` against
  "Permanent stop, manual restart required", line 63).
- `UnhealthyRaised` (`MCAlerts`): a module that becomes unhealthy while the cooldown of the rule runs is put among those already
  seen, and is never alerted (`rules.py:449-464` against "Alerts when a module becomes unhealthy", line 434).
- `WithinDailyLimit` (`MCOnchainAdapters`): one fetch counts as one request and makes three or four calls, its retries are not checked
  again, and what is sent between midnight and the next check is forgotten (`base.py:430-464`, `etherscan.py:172-206` against
  "100,000 calls/day", `etherscan.py:8`). `DailyBound` is what does hold.
- `OpenRiskWithinLimit` (`MCRiskBudget`): two evaluations that overlap are each granted the room of the open
  budget (`config.py:129` says that all stops together lose no more than the limit). `OverlapBound` is what does hold, and
  `OneAtATimeWithinLimit` proves that one request at a time keeps the limit, but for what the equity
  and stops did after a grant: the overlap is the only other cause.

Some properties that hold stop short of a neighbouring hazard. `HaltRefuses` is about a halt that lasts throughout an evaluation: one that
comes after the single look at it (`engine.py:237`) does not stop the grant. `OperatorHaltHolds` is about manual resume: with automatic
resume a recovery ends an operator's halt whose reason a drawdown replaced (`tracker.py:636`). `NothingLost` and `ConditionRaised` excuse a stop of
the dispatcher: the alerts it cuts off are not given again as long as the rules hold them (`manager.py:326`). `ExchangeIsAhead` bounds the record
from above, so that fills missed after a cancel are not its matter (`order_manager.py:517`).

By inspection, and not checked: a margin warning that turns critical is not alerted again (`rules.py:394`); the
registry's timeout cancels an adapter, so that neither a failure is counted nor a stale entry returned, and the caches of adapters
that are not usable are not consulted (`registry.py:200`, against "Returns cached data if available"); the error result of a
failing collector names `DataType.UNKNOWN`, which does not exist, and ends the service (`ingestion_service.py:322`); a stop moved
beyond the entry counts as a risk, as its distance is taken absolutely (`risk_budget_manager/types.py:633`); a data source that disabled itself
reports a transition at every evaluation, and with a threshold of three is never disabled, as only transitions into CRITICAL
count (`data_source_health/registry.py:264`).

## 7. Proofs

Proved for all values of the constants that satisfy the named assumptions:

| Theorem | Argument |
|---|---|
| `SMTypeCorrect`, `SMCoversTriggers`, `SMNoAutomaticResume` (`RiskStateMachineProofs`) | `StateCoversTriggers` is inductive together with the types: an event leaves the state at least as severe as itself; a clearing lowers it only from HALTED_SOFT and only when no remaining trigger is SOFT or above. |
| `TypeCorrect`, `Implements` (`RiskControllerProofs`) | Each action of the engine is one action of the state machine or changes none of its variables; the types of `req` and `Reports` are needed for the parameters. |
| `CoversTriggers`, `NoAutomaticResumeHolds` | From the refinement, by temporal logic alone. |
| `LastingReportHaltsHolds` (assumes `HaltReports`: what monitors report is SOFT or above, as in the code every report that is a failure is) | `PassInv`: from the report on, the loop holds the lock and some active halt belongs to a monitor whose turn is over, or to none, so that no later monitor clears it; an event in between only adds to it (`EventHolds`). With `StateCoversTriggers` it keeps the system halted. |
| `TradingMonitored` (assumes `HaltOnFailure`) | The property is not inductive: nothing in it says that the callbacks *on the way* to a dead task found a halt. `MonitoredInv` adds that a task reporting its own failure, and a start whose check failed, have already halted the system, and that no monitor clears anything while they do (`HaltPersists`). |
| `NoDeadlock`, `PassesAreShort`, `WaitEndsInHaltHolds` (`RiskControllerProofs`) | The safety half of `HaltTakesEffect`. `LockInv`: whoever has the lock is at one of the places that hold it, so that a wait is for a task that can go on. A pass has five steps at most for each monitor whose turn is not over, and three for its internal error (`PassLeft`). The wait of a `request_halt` ends with a state at least as severe as was asked for, or with a call that gave up. |
| `CleanPassReleasesHolds` (assumes `AllowSoftAutoResume`) | The safety half of `MonitoredHaltReleased`. `CleanInv`: a pass that has reported nothing has not awaited anything since it began, so that what its monitors cleared is still clear; the last turn leaves no trigger of a monitor, and the step that clears the last of all triggers resumes. |
| `TypeCorrect`, `ExchangeAheadHolds` (`OrderManagerProofs`) | That the exchange is ahead of the record is not inductive: nothing in it speaks of the answers still under way. `IInv` is a condition on each order and one on each task. `OrderOK`: an order being submitted has no id yet, an order without id has no fill, a book entry is consistent (`EntryOK`). `TaskOK`: a task in a request holds the lock of its order (`Own`), and the answer it carries is neither behind the record nor ahead of the exchange (`AnswerOK`). Entries of the book only evolve forward (`Follows`), so an answer under way stays within the exchange's; the record changes only with the lock free or one's own, so it stays ahead of the record. |
| `Implements` (`OrderManagerProofs`) | Each write of a record is one step of the order state machine, or leaves it alone, by the same invariant. |
| `NoRequestWhileHaltedHolds`, `NoRequestOnceSettledHolds` | `WhoSends`: only `SubmitValid` and `Resubmit` send. Each tests the halt in the step that sends; the first also finds no tracked order, the second holds the lock since its submission began, which `TaskOK` knows. |
| `ClosedAnswersClose` (`OrderManagerProofs`) | The safety half of `ClosedOrdersReconciled`: an accepted order is SUBMITTED or PARTIALLY_FILLED until it is closed, so that the loop asks about it; and an answer that it is closed is never refused by the table, which has no way from PARTIALLY_FILLED to REJECTED. That way is not needed: the exchange rejects only what it has not filled (`RejectedUnfilled`), and what it has not filled is not recorded as partly filled (`IInv`). `Accepted` is kept by the abstract lifecycle, and carried over by the refinement. |
| `LifecycleTypeCorrect`, `LifecycleEmergencySticks` (`OrchestratorProofs`) | `EmergencyRecorded`: after an emergency the state is EMERGENCY_STOP until the process ends, as the table has no way out of it, and a file that recorded it still does, as nothing writes it then; a restart reads it back. Nothing is assumed of the file. |
| `Implements`, `EmergencySticksHolds` (`OrchestratorProofs`) | Every action changes the state by one transition, one emergency or one restore, or not at all. |
| `NoCycleAfterShutdownHolds` | `NotYetRunning`: a process that is still starting is neither running nor asked to stop. Then the cycle that `start()` leads into cannot follow a shutdown, and any other cycle passes the test of the loop. |
| `OrchestratorTypeCorrect` | The modules and stages chosen with `Max` and `Min` belong to the sets they are chosen from (`MinIsLeast`, `MaxIsMember`, from the well-foundedness of the natural numbers). |
| `CriticalModulesUpHolds`, `StageKeepsModulesHolds` | `GroundInv`. `Shape` says who may be where: the task of a signal stops modules only when the main task is stopping or done, since until then it finds the loop registered and waits for it. `Grounds` says what is up: while the main task is starting module n, all modules up to n are settled and none beyond has been touched (`SettledUpTo`, which needs that dependencies are earlier); in the loop all are settled, and no other task may change them. |
| `TypeCorrect`, `HaltRefusesRequests`, `OperatorHaltLasts` (`RiskBudgetProofs`) | An evaluation past the check of the halt has seen no halt (`clear`), or a resume set it; only an operator's resume and the recovery end a halt, and with manual resume the recovery does not. |
| `KeepsLedger` (`RiskBudgetProofs`) | The mapped values change as one action of the ledger allows. It needs that a room is never above the per-trade limit once that check is past, and that a request granted risk has room above 0. |
| `DayCoversPositions` (`RiskBudgetProofs`) | `CoverInv`: the positions counted for the day are open still, and hold no more than was charged. It needs sums over sets: adding, removing or changing one position changes the sum by its risk (induction on the size of the set). |
| `OverlapsAreBounded`, and `OneAtATimeWithinLimit` (for one request) | A check compares what is held (or was charged) with the limit, and does not see what the evaluations past it (`PastOpen`, `PastDaily`) may still take: each at most the per-trade limit, and there is at most one for each *other* request. The step that passes the check restores the bound, the steps that take or give up a claim move it from one sum to the other. `excess` counts what moved after a grant (the equity, a stop). With one request the overlap is 0 and the documented limit is left. |
| `TypeCorrect`, `StopLeavesNothing`, `OneAtATime`, `StreamsWhatIsWanted` (`MarketDataProofs`) | One invariant: every connection but the held one is down; where the task connects or backs off the held one is down too (`Quiet`); the flag `_connected` follows the held connection where the task does not say otherwise (`FlagFollows`), so that a subscription is sent exactly when it is carried. |
| `DropsAreInHand`, `ReconnectionIsShort`, `EndsForCauseHolds` (`MarketDataProofs`) | The safety half of `DropHandled`: while the collector runs, a lost connection is held by a task that receives on it, and so notices, or that is connecting or backing off; each attempt is four steps at most, and attempts are counted; and the task does not end but for a reason named. |
| `TypeCorrect`, `HistoryAgrees`, `OnlyAStopLoses` (`AlertsProofs`) | Triggers number alerts upwards, so that a new one is none of the old; calls are pending only in the dispatch (`PendingInDispatch`), which the next evaluation cannot overtake. |
| `Delivers`, `OfferedOnce` (`AlertsProofs`) | An evaluation is one step of the delivery, and finds no call pending: the new alerts have numbers no rule has used, so that the mapped set grows by exactly the alerts whose calls become due. A stop gives them up together. `OfferedOnce` is an invariant of the abstract specification, carried over by the refinement. |
| `ConditionAlertedHolds` (`AlertsProofs`) | The safety half of `ConditionRaised`. `AlertedInv`: the alert a rule holds is open in the history, and only the rule's own evaluation resolves it, on finding the condition gone. |
| `TypeCorrect`, `FetchesEnd` (`OnchainAdaptersProofs`) | The attempt of a task is within the retries, so that the measure `StepsLeft` is a natural number; each action of a fetch decreases it or removes an adapter. |
| `FetchesAreShort`, `FetchCanProceed` (`OnchainAdaptersProofs`) | `Weight` turns the two measures into one number, bounded by the adapters and the retries, that every step of a fetch lowers. `FetchCanProceed` states `NeverStuck` by the guards of the actions instead of ENABLED: in every place of a fetch the guard of some step of it holds, as an adapter that is asked is always one of those left. |
| `DailyLimitHolds` (`OnchainAdaptersProofs`) | `Daily`: the requests counted today and those the fetches under way may still send without another check (`Unsent`) stay below the limit and `MaxRetries` for each caller: whoever checks finds less than the limit used, and a request that is sent leaves one set and adds one to the count. Until the day's count begins, what was sent and what may be sent are requests of the callers' fetches under way at midnight, `MaxRetries` for each (`WaitingFits`: whoever waits has sent a request of its own); these are what the count forgets. |
| `ShutdownIsShort` (`OrchestratorProofs`) | Once a shutdown is requested each task has a number of steps left, by the modules still to stop and the stages still to run, that each of its own steps lowers and no other task's step changes (`Places` says that the module or stage a task is at exists). The loops over modules count down, and the main task does not begin another cycle. |
| `ShutdownProceeds` (`OrchestratorProofs`) | The other part of it: of the tasks that stop the system only a draining one waits, for the main task, which waits for none (`Roles`), whatever cancellation was swallowed; and no step but the end of the process takes the request back. |
| `CallsAreShort` (`OrderManagerProofs`; for a finite set of orders) | The core of `CallsReturn`: what is left of a call is two steps for each attempt not yet made, and at most six for each order not yet visited in a batch. A retry happens only while `retry` is below the maximum (`IInv`), a cancellation is followed by one synchronisation at most, and while a task is in a submission it holds the lock, so that no one else touches its order's retries. |
| `NoDeadlock` (`OrderManagerProofs`) | `HeldInRequest`: a task that has the lock is in a request, so that no call that returned, failed or was cancelled keeps it. Of the places of a call only four want the lock, and none of these is in a request: who waits, waits for a task that does not. |

Each invariant was checked by TLC before it was proved.

Every safety invariant and every action property of the runs that pass is proved, except `NeverStuck`, whose ENABLED is out
of the prover's reach and which is proved in the form its guards give it (`FetchCanProceed`; on the instance TLC finds the two
forms equivalent).

Assumptions. The constants are assumed to be of their kind (a limit is a natural number, a name is not one of the model's own), and
dependencies to come earlier in the order of startup, which `registry.py:78-131` computes; `RiskBudget` takes equities that divide its unit. Positions, requests, callers and adapters are finite sets, as each is a dict or a list in memory; so are the orders, where
`CallsAreShort` assumes it. `RiskBudget` needs one request at least. The theorems that need more name it in their own ASSUME, as above.

Sums and counts over sets are not an induction over data in the sense the prover lacks: the induction is on the size of
the set, by the well-foundedness of the natural numbers (`WellFoundedInduction`), applied to a set of sizes that fail.

Only model-checked: liveness under fairness, whose proof needs ENABLED. Of every liveness property of the runs the theorems prove the
safety half: that the steps towards the goal are bounded in number (`CallsAreShort`, `PassesAreShort`, `FetchesAreShort`, `ShutdownIsShort`,
`ReconnectionIsShort`), that nobody waits in a circle (the two `NoDeadlock`, `FetchCanProceed`, `ShutdownProceeds`, `DropsAreInHand`), and that
the last step reaches the goal (`WaitEndsInHaltHolds`, `CleanPassReleasesHolds`, `ClosedAnswersClose`, `ConditionAlertedHolds`, `EndsForCauseHolds`).
"Can go on" is stated there by the guards of the actions; on the instances TLC finds these forms equivalent to ENABLED. What
TLC alone shows is that the scheduling the code has lets the steps be taken: for the waiters of a lock that is a matter of its order.

## 8. Not modelled, and limits

- *Human review.* No write of an endpoint outlives its request: `get_db` (`router.py:41-46`) closes the session without a
  commit; the endpoint of `submit_decision` reads `__dict__` of the tuple the service returns (`router.py:177`); claim and
  escalate call `service.db`, which the service does not have (`router.py:206`). There is no state to relate between two requests.
- *Data source health.* Scores over windows of samples behind one lock: its behaviour is arithmetic on data.
- *Trade guard, risk committee, strategy, risk scoring, decision engine.* Functions of a snapshot, without state between
  calls; what they answer is an input of the models (a HOLD, a BLOCK, a stage that fails).
- *Storage, retention, products, dashboards, backtesting, parity validation, reporting, adapters of exchanges and data sources.*
  Rows, files and HTTP; their behaviour is that of the database or the service.
- *Reconciliation engine, order repository.* Not wired by the application.
- With `Persistence = "fallible"` or `"none"` (the default of the code, which passes no
  path) a restart may forget the emergency (`EmergencySurvives`, section 6).
- In the wiring of `app.py` the execution service has no adapter, and nothing calls
  `validate_before_execution` or `request_resume`; the stage of the risk budget manager
  asks it for no decision (`app.py:397`), and the ingestion service, the on-chain registry and the alert dispatcher are not started. The models describe the classes as their interfaces, tests and docs let them be called.
- A module left in ERROR blocks trading until a restart; an auto-resume is not told to
  `on_state_change`. Both follow from the code by inspection.
- Orders, budgets, alerts and caches are in memory only: a restart forgets the day's charge and an operator's halt of the risk budget, and
  nothing is restored.

## 9. What could follow

A composition of the controller, the orchestrator's safety context and the execution engine, for the requests that may still leave
after a halt; the reconciliation engine once the application uses it.
