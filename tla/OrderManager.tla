------------------------------ MODULE OrderManager -----------------------------
(* The Execution Engine (execution_engine/order_manager.py and                *)
(* execution_service.py): calls that submit and cancel orders, the             *)
(* reconciliation loop, the asyncio lock they share, the system's halt state,  *)
(* and an exchange whose answers may be late, lost or wrong.                   *)
EXTENDS OrderStateMachine

CONSTANTS
    Caller,              \* tasks that call execute, cancel and cancel_all
    MaxRetries,          \* RetryConfig.max_retries
    RejectsDuplicates    \* whether the exchange refuses the client id of an open order

Recon == "recon"         \* the task of _reconciliation_loop
Task == Caller \cup {Recon}
Attempt == 0 .. MaxRetries

ASSUME ManagerAssumption ==
    /\ MaxRetries \in Nat
    /\ ExchangeId = Attempt   \* named after the attempt whose request made it
    /\ RejectsDuplicates \in BOOLEAN
    /\ Caller \cap {"free", Recon} = {}

VARIABLES
    retry,     \* OrderRecord.retry_count
    book,      \* the exchange: what became of each attempt's request
    answer,    \* the answer of the exchange to the query under way
    lock,      \* holder of OrderManager._lock
    pc,        \* where each task is
    target,    \* the order its call is about
    todo,      \* the orders a cancel_all or sync_all_active_orders has left
    succeeded, \* observation: orders whose submission was reported a success
    running,   \* ExecutionService._running
    halted     \* what is_system_halted() returns

vars == <<ostate, filled, xid, retry, book, answer, lock, pc, target, todo, succeeded,
          running, halted>>

OpenStatus == {"NEW", "PARTIALLY_FILLED"}
ClosedStatus == {"FILLED", "CANCELED", "EXPIRED", "REJECTED"}
Status == OpenStatus \cup ClosedStatus
Request == [status : Status \cup {"unsent", "sent", "refused"},
            filled : 0 .. Quantity,
            ack : 0 .. Quantity]   \* the fill its acceptance reports
Unsent == [status |-> "unsent", filled |-> 0, ack |-> 0]

NoAnswer == [status |-> "none", filled |-> 0]
TaskPC == {"idle", "fetching", "wantSubmit", "sending", "backoff", "wantCancel",
           "canceling", "wantAll", "wantSync", "querying", "answered", "batch"}

Init ==
    /\ LifeInit
    /\ retry = [o \in Order |-> 0]
    /\ book = [o \in Order |-> [a \in Attempt |-> Unsent]]
    /\ answer = NoAnswer
    /\ lock = "free"
    /\ pc = [t \in Task |-> "idle"]
    /\ target \in [Task -> Order]
    /\ todo = [t \in Task |-> {}]
    /\ succeeded = {}
    /\ running = TRUE
    /\ halted = FALSE

-------------------------------------------------------------------------------
(* Helpers *)

Tracked(o) == ostate[o] # "none"

\* _create_result_from_order without a result code: anything but a rejection or
\* a failure is a success
ReportsSuccess(s) == s \notin {"REJECTED", "FAILED"}

\* a mutant: the lock is not released on the way out
ReturnLocked(t) ==
    /\ pc' = [pc EXCEPT ![t] = IF todo[t] = {} THEN "idle" ELSE "batch"]
    /\ UNCHANGED <<lock, target, todo, succeeded>>

\* A call returns: the lock is released, and a batch goes on with the next order.
Return(t) ==
    /\ lock' = IF lock = t THEN "free" ELSE lock
    /\ pc' = [pc EXCEPT ![t] = IF todo[t] = {} THEN "idle" ELSE "batch"]
    /\ UNCHANGED <<target, todo, succeeded>>

\* A submission returns, with is_success() of its result code.
ReturnSubmit(t, success) ==
    /\ lock' = IF lock = t THEN "free" ELSE lock
    /\ pc' = [pc EXCEPT ![t] = "idle"]
    /\ succeeded' = IF success THEN succeeded \cup {target[t]} ELSE succeeded
    /\ UNCHANGED <<target, todo>>

Goto(t, l) ==
    /\ pc' = [pc EXCEPT ![t] = l]
    /\ UNCHANGED <<lock, target, todo, succeeded>>

Mark(o, s) == ostate' = [ostate EXCEPT ![o] = s] /\ UNCHANGED <<filled, xid>>

\* _submit_to_exchange hands attempt a of the order to the adapter
Send(o, a) ==
    /\ book' = [book EXCEPT ![o][a].status = "sent"]
    /\ retry' = [retry EXCEPT ![o] = a]

-------------------------------------------------------------------------------
(* The exchange (external): requests may be processed late, orders fill and    *)
(* close on their own.                                                         *)

StatusOf(f) == IF f = 0 THEN "NEW" ELSE IF f = Quantity THEN "FILLED" ELSE "PARTIALLY_FILLED"

ExchangeAccepts(o, a) ==
    /\ book[o][a].status = "sent"
    /\ RejectsDuplicates => \A b \in Attempt : book[o][b].status \notin OpenStatus
    /\ \E f \in 0 .. Quantity :
        book' = [book EXCEPT ![o][a] = [status |-> StatusOf(f), filled |-> f, ack |-> f]]

ExchangeRefuses(o, a) ==
    /\ book[o][a].status = "sent"
    /\ book' = [book EXCEPT ![o][a].status = "refused"]

ExchangeFills(o, a) ==
    /\ book[o][a].status \in OpenStatus
    /\ \E f \in (book[o][a].filled + 1) .. Quantity :
        book' = [book EXCEPT ![o][a].filled = f, ![o][a].status = StatusOf(f)]

ExchangeCloses(o, a) ==
    /\ book[o][a].status \in OpenStatus
    /\ \E s \in {"CANCELED", "EXPIRED", "REJECTED"} :
        /\ s = "REJECTED" => book[o][a].filled = 0
        /\ book' = [book EXCEPT ![o][a].status = s]

ExchangeStep ==
    /\ \E o \in Order, a \in Attempt :
        \/ ExchangeAccepts(o, a) \/ ExchangeRefuses(o, a)
        \/ ExchangeFills(o, a) \/ ExchangeCloses(o, a)
    /\ UNCHANGED <<ostate, filled, xid, retry, answer, lock, pc, target, todo, succeeded,
                   running, halted>>

-------------------------------------------------------------------------------
(* ExecutionService.execute and OrderManager.submit_order *)

\* The gates in front of the lock: not running, halted, or an approval that is
\* missing or expired is answered at once.
Execute(t, o) ==
    /\ pc[t] = "idle" /\ running /\ ~halted
    /\ pc' = [pc EXCEPT ![t] = "fetching"]
    /\ target' = [target EXCEPT ![t] = o]
    /\ UNCHANGED <<ostate, filled, xid, retry, book, answer, lock, todo, succeeded,
                   running, halted>>

\* the account state and the symbol's rules arrive, or the latter do not
Fetched(t) ==
    /\ pc[t] = "fetching"
    /\ Goto(t, "wantSubmit") \/ ReturnSubmit(t, FALSE)
    /\ UNCHANGED <<ostate, filled, xid, retry, book, answer, running, halted>>

\* _check_duplicate finds the client id: the existing order is the result
SubmitDuplicate(t) ==
    /\ pc[t] = "wantSubmit" /\ lock = "free" /\ Tracked(target[t])
    /\ ReturnSubmit(t, ReportsSuccess(ostate[target[t]]))
    /\ UNCHANGED <<ostate, filled, xid, retry, book, answer, running, halted>>

\* the order is tracked, and fails validation (the halt state among others)
SubmitInvalid(t) ==
    /\ pc[t] = "wantSubmit" /\ lock = "free" /\ ~Tracked(target[t])
    /\ Mark(target[t], "REJECTED")
    /\ ReturnSubmit(t, FALSE)
    /\ UNCHANGED <<retry, book, answer, running, halted>>

\* a mutant: no duplicate check
SubmitAgain(t) ==
    /\ pc[t] = "wantSubmit" /\ lock = "free"
    /\ ~halted
    /\ Mark(target[t], "PENDING_SUBMISSION")
    /\ \E a \in Attempt : book[target[t]][a].status = "unsent" /\ Send(target[t], a)
    /\ lock' = t
    /\ pc' = [pc EXCEPT ![t] = "sending"]
    /\ UNCHANGED <<answer, target, todo, succeeded, running, halted>>

\* the order is tracked and validated, and the first attempt starts
SubmitValid(t) ==
    /\ pc[t] = "wantSubmit" /\ lock = "free" /\ ~Tracked(target[t])
    /\ ~halted
    /\ Mark(target[t], "PENDING_SUBMISSION")
    /\ Send(target[t], 0)
    /\ lock' = t
    /\ pc' = [pc EXCEPT ![t] = "sending"]
    /\ UNCHANGED <<answer, target, todo, succeeded, running, halted>>

\* response.success: mark_submitted, then the fill the response reports
SubmitAccepted(t) ==
    LET o == target[t]
        r == book[o][retry[o]]
        s == TransitionTo(ostate[o], "SUBMITTED", 0)
    IN  /\ pc[t] = "sending" /\ r.status \in Status
        /\ ostate' = [ostate EXCEPT ![o] =
                        IF r.ack >= Quantity THEN MarkFilled(s, r.ack)
                        ELSE IF r.ack > 0 THEN TransitionTo(s, "PARTIALLY_FILLED", r.ack)
                        ELSE s]
        /\ filled' = [filled EXCEPT ![o] = IF r.ack > 0 THEN r.ack ELSE @]
        /\ xid' = [xid EXCEPT ![o] = retry[o]]
        /\ ReturnSubmit(t, TRUE)
        /\ UNCHANGED <<retry, book, answer, running, halted>>

\* a mutant: attempts are not counted
RetriesForever(t) ==
    /\ pc[t] = "sending"
    /\ Goto(t, "backoff")
    /\ UNCHANGED <<ostate, filled, xid, retry, book, answer, running, halted>>

\* A retryable failure with attempts left: an unsuccessful response, an
\* ExchangeError or a timeout.  Whether the exchange got the request is unknown.
SubmitRetries(t) ==
    /\ pc[t] = "sending" /\ retry[target[t]] < MaxRetries
    /\ Goto(t, "backoff")
    /\ UNCHANGED <<ostate, filled, xid, retry, book, answer, running, halted>>

\* The last attempt, or a failure that is not retryable: an unsuccessful
\* response is a rejection, anything that was raised a failure.
SubmitGivesUp(t) ==
    /\ pc[t] = "sending"
    /\ \E s \in {"REJECTED", "FAILED"} : Mark(target[t], TransitionTo(ostate[target[t]], s, 0))
    /\ ReturnSubmit(t, FALSE)
    /\ UNCHANGED <<retry, book, answer, running, halted>>

\* a mutant: the halt state is checked before the first attempt only
ResubmitAnyway(t) ==
    LET o == target[t]
    IN  /\ pc[t] = "backoff"
        /\ Send(o, retry[o] + 1)
        /\ Goto(t, "sending")
        /\ UNCHANGED <<ostate, filled, xid, answer, running, halted>>

\* the sleep ends: the halt state is checked before the next attempt
Resubmit(t) ==
    LET o == target[t]
    IN  /\ pc[t] = "backoff"
        /\ ~halted
        /\ Send(o, retry[o] + 1)
        /\ Goto(t, "sending")
        /\ UNCHANGED <<ostate, filled, xid, answer, running, halted>>

ResubmitHalted(t) ==
    /\ pc[t] = "backoff"
    /\ halted
    /\ Mark(target[t], TransitionTo(ostate[target[t]], "FAILED", 0))
    /\ ReturnSubmit(t, FALSE)
    /\ UNCHANGED <<retry, book, answer, running, halted>>

-------------------------------------------------------------------------------
(* cancel_order, cancel_all_orders *)

Cancel(t, o) ==
    /\ pc[t] = "idle" /\ Tracked(o)
    /\ pc' = [pc EXCEPT ![t] = "wantCancel"]
    /\ target' = [target EXCEPT ![t] = o]
    /\ UNCHANGED <<ostate, filled, xid, retry, book, answer, lock, todo, succeeded, running, halted>>

CancelAll(t) ==
    /\ pc[t] = "idle"
    /\ Goto(t, "wantAll")
    /\ UNCHANGED <<ostate, filled, xid, retry, book, answer, running, halted>>

\* It takes the lock once, to no effect, and lists the orders after that.
CancelAllLists(t) ==
    /\ pc[t] = "wantAll" /\ lock = "free"
    /\ todo' = [todo EXCEPT ![t] = {o \in Order : Tracked(o)}]
    /\ pc' = [pc EXCEPT ![t] = "batch"]
    /\ UNCHANGED <<ostate, filled, xid, retry, book, answer, lock, target, succeeded, running, halted>>

\* The next order of the batch that can still be canceled, or synchronised;
\* those that cannot are passed over.
BatchNext(t) ==
    LET eligible == {o \in todo[t] :
                        ostate[o] \in (IF t = Recon THEN Active ELSE AllowsCancel)}
    IN  /\ pc[t] = "batch"
        /\ IF eligible = {}
           THEN /\ pc' = [pc EXCEPT ![t] = "idle"]
                /\ todo' = [todo EXCEPT ![t] = {}]
                /\ UNCHANGED target
           ELSE \E o \in eligible :
                /\ pc' = [pc EXCEPT ![t] = IF t = Recon THEN "wantSync" ELSE "wantCancel"]
                /\ todo' = [todo EXCEPT ![t] = @ \ {o}]
                /\ target' = [target EXCEPT ![t] = o]
        /\ UNCHANGED <<ostate, filled, xid, retry, book, answer, lock, succeeded, running, halted>>

CancelRefused(t) ==
    /\ pc[t] = "wantCancel" /\ lock = "free"
    /\ ostate[target[t]] \notin AllowsCancel
    /\ Return(t)
    /\ UNCHANGED <<ostate, filled, xid, retry, book, answer, running, halted>>

\* a mutant: the exchange is never asked
CancelUnasked(t) ==
    LET o == target[t]
    IN  /\ pc[t] = "wantCancel" /\ lock = "free"
        /\ ostate[o] \in AllowsCancel
        /\ Mark(o, TransitionTo(ostate[o], "CANCELED", 0))
        /\ Return(t)
        /\ UNCHANGED <<retry, book, answer, running, halted>>

\* An order without an exchange id is canceled without asking the exchange.
CancelLocally(t) ==
    LET o == target[t]
    IN  /\ pc[t] = "wantCancel" /\ lock = "free"
        /\ ostate[o] \in AllowsCancel /\ xid[o] = NoId
        /\ Mark(o, TransitionTo(ostate[o], "CANCELED", 0))
        /\ Return(t)
        /\ UNCHANGED <<retry, book, answer, running, halted>>

CancelAsks(t) ==
    /\ pc[t] = "wantCancel" /\ lock = "free"
    /\ ostate[target[t]] \in AllowsCancel /\ xid[target[t]] # NoId
    /\ lock' = t
    /\ pc' = [pc EXCEPT ![t] = "canceling"]
    /\ UNCHANGED <<ostate, filled, xid, retry, book, answer, target, todo, succeeded,
                   running, halted>>

\* The exchange cancels an open order and says so; the fills it had since the
\* last answer stay unknown.
CancelSucceeds(t) ==
    LET o == target[t]
    IN  /\ pc[t] = "canceling"
        /\ book[o][xid[o]].status \in OpenStatus
        /\ book' = [book EXCEPT ![o][xid[o]].status = "CANCELED"]
        /\ Mark(o, TransitionTo(ostate[o], "CANCELED", 0))
        /\ Return(t)
        /\ UNCHANGED <<retry, answer, running, halted>>

\* a mutant: a failed cancellation counts as done before the synchronisation
CancelAssumed(t) ==
    /\ pc[t] = "canceling"
    /\ Mark(target[t], "CANCELED")
    /\ Goto(t, "querying")
    /\ UNCHANGED <<retry, book, answer, running, halted>>

\* It refuses, or the call ends in an ExchangeError, and then it may have
\* canceled the order all the same: the order is synchronised.
CancelFails(t) ==
    LET o == target[t]
    IN  /\ pc[t] = "canceling"
        /\ \/ UNCHANGED book
           \/ /\ book[o][xid[o]].status \in OpenStatus
              /\ book' = [book EXCEPT ![o][xid[o]].status = "CANCELED"]
        /\ Goto(t, "querying")
        /\ UNCHANGED <<ostate, filled, xid, retry, answer, running, halted>>

-------------------------------------------------------------------------------
(* _reconciliation_loop, sync_all_active_orders, sync_order_state *)

ReconWakes ==
    /\ pc[Recon] = "idle" /\ running
    /\ todo' = [todo EXCEPT ![Recon] = {o \in Order : Tracked(o)}]
    /\ pc' = [pc EXCEPT ![Recon] = "batch"]
    /\ UNCHANGED <<ostate, filled, xid, retry, book, answer, lock, target, succeeded, running, halted>>

\* nothing to ask about without an exchange id, or for a terminal order
SyncSkips(t) ==
    /\ pc[t] = "wantSync" /\ lock = "free"
    /\ xid[target[t]] = NoId \/ ostate[target[t]] \in Terminal
    /\ Return(t)
    /\ UNCHANGED <<ostate, filled, xid, retry, book, answer, running, halted>>

SyncAsks(t) ==
    /\ pc[t] = "wantSync" /\ lock = "free"
    /\ xid[target[t]] # NoId /\ ostate[target[t]] \notin Terminal
    /\ lock' = t
    /\ pc' = [pc EXCEPT ![t] = "querying"]
    /\ UNCHANGED <<ostate, filled, xid, retry, book, answer, target, todo, succeeded,
                   running, halted>>

\* The exchange answers; the order may go on changing before the answer is read.
QueryAnswered(t) ==
    LET r == book[target[t]][xid[target[t]]]
    IN  /\ pc[t] = "querying"
        /\ answer' = [status |-> r.status, filled |-> r.filled]
        /\ Goto(t, "answered")
        /\ UNCHANGED <<ostate, filled, xid, retry, book, running, halted>>

\* _sync_order_state: the fill is copied, and the status mapped to a transition
SyncedState(s, status, f) ==
    CASE status = "FILLED" -> MarkFilled(s, f)
      [] status \in {"PARTIALLY_FILLED", "CANCELED", "EXPIRED", "REJECTED"} ->
            TransitionTo(s, status, f)
      [] OTHER -> s

QueryApplied(t) ==
    LET o == target[t]
        s == SyncedState(ostate[o], answer.status, answer.filled)
    IN  /\ pc[t] = "answered"
        /\ ostate' = [ostate EXCEPT ![o] = s]
        /\ filled' = [filled EXCEPT ![o] = answer.filled]
        /\ answer' = NoAnswer
        /\ Return(t)
        /\ UNCHANGED <<xid, retry, book, running, halted>>

\* not found, or the query raised: logged, and nothing changes
QueryFails(t) ==
    /\ pc[t] = "querying"
    /\ Return(t)
    /\ UNCHANGED <<ostate, filled, xid, retry, book, answer, running, halted>>

-------------------------------------------------------------------------------
(* Cancelled tasks, start and stop, the halt state *)

\* The task ends where it awaits: a stage of the pipeline timed out, or an
\* adapter raised something that is not caught.  async with releases the lock.
Abort(t) ==
    /\ lock' = IF lock = t THEN "free" ELSE lock
    /\ answer' = IF lock = t THEN NoAnswer ELSE answer
    /\ pc' = [pc EXCEPT ![t] = "idle"]
    /\ todo' = [todo EXCEPT ![t] = {}]
    /\ UNCHANGED <<ostate, filled, xid, retry, book, target>>

CallAborts(t) ==
    /\ pc[t] # "idle"
    /\ Abort(t)
    /\ UNCHANGED <<succeeded, running, halted>>

Start ==
    /\ ~running
    /\ running' = TRUE
    /\ UNCHANGED <<ostate, filled, xid, retry, book, answer, lock, pc, target, todo,
                   succeeded, halted>>

\* stop cancels the reconciliation task; calls under way go on
Stop ==
    /\ running
    /\ running' = FALSE
    /\ Abort(Recon)
    /\ UNCHANGED <<succeeded, halted>>

HaltChanges ==
    /\ halted' = ~halted
    /\ UNCHANGED <<ostate, filled, xid, retry, book, answer, lock, pc, target, todo,
                   succeeded, running>>

-------------------------------------------------------------------------------
SubmitEnds(t) == SubmitAccepted(t) \/ SubmitRetries(t) \/ SubmitGivesUp(t)

CallStep(t) ==
    \/ \E o \in Order : Execute(t, o) \/ Cancel(t, o)
    \/ CancelAll(t) \/ CancelAllLists(t) \/ Fetched(t)
    \/ SubmitDuplicate(t) \/ SubmitInvalid(t) \/ SubmitValid(t) \/ SubmitEnds(t)
    \/ Resubmit(t) \/ ResubmitHalted(t)
    \/ CancelRefused(t) \/ CancelLocally(t) \/ CancelAsks(t)
    \/ CancelSucceeds(t) \/ CancelFails(t) \/ CallAborts(t)

SyncStep(t) ==
    \/ BatchNext(t) \/ SyncSkips(t) \/ SyncAsks(t)
    \/ QueryAnswered(t) \/ QueryApplied(t) \/ QueryFails(t)

Next ==
    \/ ExchangeStep
    \/ \E t \in Caller : CallStep(t)
    \/ \E t \in Task : SyncStep(t)
    \/ ReconWakes \/ Start \/ Stop \/ HaltChanges

Spec == Init /\ [][Next]_vars

\* A request times out, an adapter's own request timeout ends a cancellation or
\* a query, a sleep ends, asyncio.Lock serves its waiters in order.
CallFairness(t) ==
    /\ WF_vars(Fetched(t)) /\ WF_vars(SubmitEnds(t))
    /\ WF_vars(Resubmit(t) \/ ResubmitHalted(t))
    /\ SF_vars(SubmitDuplicate(t) \/ SubmitInvalid(t) \/ SubmitValid(t))
    /\ SF_vars(CancelRefused(t) \/ CancelLocally(t) \/ CancelAsks(t)) /\ SF_vars(CancelAllLists(t))
    /\ WF_vars(CancelSucceeds(t) \/ CancelFails(t))

SyncFairness(t) ==
    /\ WF_vars(BatchNext(t)) /\ SF_vars(SyncSkips(t) \/ SyncAsks(t))
    /\ WF_vars(QueryAnswered(t) \/ QueryFails(t)) /\ WF_vars(QueryApplied(t))

Fairness ==
    /\ \A t \in Caller : CallFairness(t)
    /\ \A t \in Task : SyncFairness(t)
    /\ WF_vars(ReconWakes)

FairSpec == Spec /\ Fairness

\* An exchange that can be reached again and again: not every query fails.
ReachableExchange == SF_vars(QueryAnswered(Recon))

-------------------------------------------------------------------------------
TypeOK ==
    /\ LifeTypeOK
    /\ retry \in [Order -> Attempt]
    /\ book \in [Order -> [Attempt -> Request]]
    /\ answer \in [status : Status \cup {"none"}, filled : 0 .. Quantity]
    /\ lock \in Task \cup {"free"}
    /\ pc \in [Task -> TaskPC]
    /\ target \in [Task -> Order]
    /\ todo \in [Task -> SUBSET Order]
    /\ succeeded \in SUBSET Order
    /\ running \in BOOLEAN /\ halted \in BOOLEAN

\* What the manager knows of an order the exchange has accepted is never ahead
\* of the exchange: it counts no fill that did not happen, and takes an order
\* for closed only when the exchange has closed it.
ExchangeIsAhead ==
    \A o \in Order : xid[o] # NoId =>
        LET r == book[o][xid[o]]
        IN  /\ r.status \in Status
            /\ filled[o] <= r.filled
            /\ ostate[o] \in Terminal => r.status \in ClosedStatus
            /\ ostate[o] = "COMPLETED" => r.status = "FILLED"

Sends(o) == \E a \in Attempt : book[o][a].status = "unsent" /\ book'[o][a].status # "unsent"

\* "MUST NOT: Bypass System Risk Controller HALT" (execution_service.py:78): no
\* request leaves for the exchange while the system is halted, on the first
\* attempt or after any backoff.
NoRequestWhileHalted == [][\A o \in Order : Sends(o) => ~halted]_vars

\* "No blind retries" (order_manager.py:17): whoever submits the intent again, in
\* whatever order calls are cancelled, aborted or repeated, no request is sent for
\* an order the exchange is known to have accepted or that is closed, and a request
\* that is not the first comes from the call that sent the one before it and has kept
\* the lock since: what a cancelled call left PENDING_SUBMISSION is not sent again.
NoRequestOnceSettled ==
    [][\A o \in Order : Sends(o) =>
          /\ xid[o] = NoId /\ ostate[o] \notin Terminal
          /\ \/ ostate[o] = "none"
             \/ \E t \in Task : lock = t /\ target[t] = o /\ pc[t] = "backoff"]_vars

\* Every call returns: retries are bounded, and no task waits for the lock forever.
CallsReturn == \A t \in Caller : pc[t] # "idle" ~> pc[t] = "idle"

\* While the service runs, the reconciliation loop brings every order whose
\* exchange id is known to an end once the exchange has closed it, if the exchange
\* can be reached: execution_service.py:423-448.
ClosedOrdersReconciled ==
    ReachableExchange =>
        \A o \in Order :
            (xid[o] # NoId /\ book[o][xid[o]].status \in ClosedStatus)
                ~> (ostate[o] \in Terminal \/ ~running)

\* "Exchange state is authoritative for order status." (reconciliation.py:17):
\* an order that is closed here and was never filled here is not live or filled
\* at the exchange.
ClosedOrdersNotLive ==
    \A o \in Order : ostate[o] \in {"FAILED", "REJECTED", "CANCELED"} =>
        \A a \in Attempt : book[o][a].status \notin OpenStatus \cup {"FILLED"}

\* "Prevents duplicate order submissions" (config.py:214): one intent is filled once,
\* though its submission is sent again with the same client id after a lost answer.
FilledOnce ==
    \A o \in Order : \A a, b \in Attempt :
        a # b => book[o][a].filled + book[o][b].filled <= Quantity

\* SUCCESS is "Order executed successfully." (types.py:184), and a retry is safe:
\* "IDEMPOTENT: Safe to retry operations" (execution_service.py:18).  Whoever was
\* told that a submission succeeded has an order the exchange accepted.
SuccessMeansAccepted == \A o \in succeeded : xid[o] # NoId
===============================================================================
