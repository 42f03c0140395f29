--------------------------- MODULE OrderManagerProofs ---------------------------
(* Proofs about OrderManager: no request leaves while the system is halted, or   *)
(* for an order that is settled; what the manager knows is never ahead of the    *)
(* exchange; the manager implements the order lifecycle; every call is over      *)
(* within a number of steps that retries and orders bound; no call waits for     *)
(* itself, in a circle, or for a call that is over; and what the exchange says   *)
(* it closed is closed.                                                          *)
EXTENDS OrderManager, FiniteSetTheorems, TLAPS

-------------------------------------------------------------------------------
(* The inductive invariant *)

\* The awaits at which a task holds the lock.
Submitting == {"sending", "backoff"}
Asking == {"canceling", "querying", "answered"}
Holding == Submitting \cup Asking

\* The exchange: a closed order stays closed, it is FILLED exactly when all of
\* it is, and it had the fills its acceptance reported.
EntryOK(r) ==
    r.status \in Status =>
        /\ r.ack <= r.filled
        /\ r.filled = Quantity <=> r.status = "FILLED"

\* An order knows of an exchange order only what is true of it; one that is not
\* tracked or not yet accepted knows nothing.
OrderOK(o) ==
    /\ \A a \in Attempt : EntryOK(book[o][a])
    /\ ostate[o] = "none" => xid[o] = NoId
    /\ xid[o] = NoId => filled[o] = 0
    /\ ostate[o] = "PARTIALLY_FILLED" => filled[o] > 0
    /\ xid[o] # NoId =>
        LET r == book[o][xid[o]]
        IN  /\ r.status \in Status
            /\ filled[o] <= r.filled
            /\ ostate[o] \in Terminal => r.status \in ClosedStatus
            /\ ostate[o] = "COMPLETED" => r.status = "FILLED"

\* The answer under way may be old, but not older than what is known of order o.
AnswerOK(o) ==
    LET r == book[o][xid[o]]
    IN  /\ answer.status \in Status
        /\ filled[o] <= answer.filled /\ answer.filled <= r.filled
        /\ answer.filled = Quantity <=> answer.status = "FILLED"
        /\ answer.status \in ClosedStatus => r.status = answer.status

\* While a task is in a request it holds the lock, and its order is as it left it.
TaskOK(t) ==
    LET o == target[t]
    IN  /\ pc[t] \in Holding => lock = t
        /\ pc[t] \in Submitting => ostate[o] = "PENDING_SUBMISSION" /\ xid[o] = NoId
        /\ pc[t] = "backoff" => retry[o] < MaxRetries
        /\ pc[t] \in Asking => ostate[o] \in Active /\ xid[o] # NoId
        /\ pc[t] = "canceling" => ostate[o] \in AllowsCancel
        /\ pc[t] = "answered" => AnswerOK(o)

IInv ==
    /\ TypeOK
    /\ \A o \in Order : OrderOK(o)
    /\ \A t \in Task : TaskOK(t)

-------------------------------------------------------------------------------
(* Types *)

\* A transition is made or refused.
LEMMA TransitionChoice ==
  ASSUME NEW s, NEW to, NEW f
  PROVE  TransitionTo(s, to, f) \in {s, to}
  BY DEF TransitionTo

\* A mapped status leaves the order where it was or in the state it maps to.
LEMMA SyncedChoice ==
  ASSUME NEW s, NEW status \in Status, NEW f
  PROVE  SyncedState(s, status, f) \in
            {s} \cup IF status = "FILLED" THEN {"FILLED", "COMPLETED"} ELSE {status} \ {"NEW"}
<1>1. CASE status = "FILLED"
  BY <1>1, TransitionChoice DEF SyncedState, MarkFilled
<1>2. CASE status = "NEW"
  BY <1>2 DEF SyncedState
<1>3. CASE status \in {"PARTIALLY_FILLED", "CANCELED", "EXPIRED", "REJECTED"}
  BY <1>3, TransitionChoice DEF SyncedState
<1>4. QED
  BY <1>1, <1>2, <1>3 DEF Status, OpenStatus, ClosedStatus

\* The exchange's own steps keep its book a book.
LEMMA ExchangeTypeStep ==
  ASSUME TypeOK, ExchangeStep
  PROVE  TypeOK'
<1> USE OrderAssumption, ManagerAssumption
<1>1. PICK o \in Order, a \in Attempt :
        \/ ExchangeAccepts(o, a) \/ ExchangeRefuses(o, a)
        \/ ExchangeFills(o, a) \/ ExchangeCloses(o, a)
  BY DEF ExchangeStep
<1>2. book[o][a] \in Request
  BY DEF TypeOK
<1>3. \E r \in Request : book' = [book EXCEPT ![o][a] = r]
  <2>1. CASE ExchangeAccepts(o, a)
    BY <2>1 DEF ExchangeAccepts, Request, Status, OpenStatus, ClosedStatus, StatusOf
  <2>2. CASE ExchangeRefuses(o, a)
    <3>1. book' = [book EXCEPT ![o][a] = [book[o][a] EXCEPT !.status = "refused"]]
      BY <2>2 DEF ExchangeRefuses
    <3>2. QED
      BY <1>2, <3>1 DEF Request
  <2>3. CASE ExchangeFills(o, a)
    <3>1. PICK f \in (book[o][a].filled + 1) .. Quantity :
            book' = [book EXCEPT ![o][a].filled = f, ![o][a].status = StatusOf(f)]
      BY <2>3 DEF ExchangeFills
    <3>2. [book[o][a] EXCEPT !.filled = f, !.status = StatusOf(f)] \in Request
      <4>1. StatusOf(f) \in Status /\ book[o][a].filled \in Nat
        BY <1>2 DEF Request, StatusOf, Status, OpenStatus, ClosedStatus
      <4>2. f \in 0 .. Quantity
        BY <4>1
      <4>3. QED
        BY <1>2, <4>1, <4>2 DEF Request
    <3>3. book' = [book EXCEPT ![o][a] = [book[o][a] EXCEPT !.filled = f, !.status = StatusOf(f)]]
      BY <3>1 DEF TypeOK
    <3>4. QED
      BY <3>2, <3>3
  <2>4. CASE ExchangeCloses(o, a)
    <3>1. PICK s \in {"CANCELED", "EXPIRED", "REJECTED"} :
            book' = [book EXCEPT ![o][a] = [book[o][a] EXCEPT !.status = s]]
      BY <2>4 DEF ExchangeCloses
    <3>2. QED
      BY <1>2, <3>1 DEF Request, Status, ClosedStatus
  <2>5. QED
    BY <1>1, <2>1, <2>2, <2>3, <2>4
<1>4. book' \in [Order -> [Attempt -> Request]]
  BY <1>3 DEF TypeOK
<1>5. QED
  BY <1>4 DEF ExchangeStep, TypeOK, LifeTypeOK

\* Where a task goes, and what it does to the lock, keeps their types.
ControlOK ==
  /\ lock' \in Task \cup {"free"}
  /\ pc' \in [Task -> TaskPC]
  /\ target' \in [Task -> Order]
  /\ todo' \in [Task -> SUBSET Order]
  /\ succeeded' \in SUBSET Order

\* Returning, moving on and aborting keep the control variables in their types.
LEMMA ControlTypes ==
  ASSUME TypeOK, NEW t \in Task
  PROVE  /\ Return(t) => ControlOK
         /\ \A success \in BOOLEAN : ReturnSubmit(t, success) => ControlOK
         /\ \A l \in TaskPC : Goto(t, l) => ControlOK
<1>1. Return(t) => ControlOK
  BY DEF TypeOK, ControlOK, Return, TaskPC
<1>2. \A success \in BOOLEAN : ReturnSubmit(t, success) => ControlOK
  BY <1>1 DEF TypeOK, ControlOK, Return, ReturnSubmit, TaskPC
<1>3. \A l \in TaskPC : Goto(t, l) => ControlOK
  BY DEF TypeOK, ControlOK, Goto
<1>4. QED
  BY <1>1, <1>2, <1>3

\* Marking an order, with a state it had or a new one, keeps the types.
LEMMA MarkTypes ==
  ASSUME TypeOK, NEW o \in Order, NEW s \in OrderState \cup {"none"}, Mark(o, s)
  PROVE  LifeTypeOK'
  BY DEF TypeOK, LifeTypeOK, Mark

\* Sending an attempt keeps the types of the book and of the attempts' count.
LEMMA SendTypes ==
  ASSUME TypeOK, NEW o \in Order, NEW a \in Attempt, Send(o, a)
  PROVE  /\ book' \in [Order -> [Attempt -> Request]]
         /\ retry' \in [Order -> Attempt]
<1>1. book[o][a] \in Request
  BY DEF TypeOK
<1>2. [book[o][a] EXCEPT !.status = "sent"] \in Request
  BY <1>1 DEF Request
<1>3. book' = [book EXCEPT ![o][a] = [book[o][a] EXCEPT !.status = "sent"]]
  BY DEF Send, TypeOK
<1>4. QED
  BY <1>2, <1>3 DEF TypeOK, Send

\* A task's data: what it leaves alone when it only moves.
dataVars == <<ostate, filled, xid, retry, book, answer>>

DataOK ==
  /\ LifeTypeOK'
  /\ retry' \in [Order -> Attempt]
  /\ book' \in [Order -> [Attempt -> Request]]
  /\ answer' \in [status : Status \cup {"none"}, filled : 0 .. Quantity]

\* The steps that move a task and touch no order.
MoveStep(t) ==
  \/ \E o \in Order : Execute(t, o) \/ Cancel(t, o)
  \/ CancelAll(t) \/ CancelAllLists(t) \/ Fetched(t)
  \/ SubmitDuplicate(t) \/ SubmitRetries(t)
  \/ CancelRefused(t) \/ CancelAsks(t)
  \/ BatchNext(t) \/ SyncSkips(t) \/ SyncAsks(t) \/ QueryFails(t)

\* A step that only moves its task keeps the control variables in their types.
LEMMA MoveTypes ==
  ASSUME TypeOK, NEW t \in Task, MoveStep(t)
  PROVE  ControlOK /\ UNCHANGED <<dataVars, running, halted>>
<1>1. ASSUME NEW o \in Order, Execute(t, o) \/ Cancel(t, o)
      PROVE  ControlOK /\ UNCHANGED <<dataVars, running, halted>>
  BY <1>1 DEF Execute, Cancel, TypeOK, ControlOK, TaskPC, dataVars
<1>2. CASE CancelAll(t) \/ SubmitRetries(t)
  BY <1>2, ControlTypes DEF CancelAll, SubmitRetries, TaskPC, dataVars
<1>3. CASE Fetched(t)
  BY <1>3, ControlTypes DEF Fetched, TaskPC, dataVars
<1>4. CASE SubmitDuplicate(t)
  <2>1. ReportsSuccess(ostate[target[t]]) \in BOOLEAN
    BY DEF ReportsSuccess
  <2>2. QED
    BY <1>4, <2>1, ControlTypes DEF SubmitDuplicate, dataVars
<1>5. CASE CancelRefused(t) \/ SyncSkips(t) \/ QueryFails(t)
  BY <1>5, ControlTypes DEF CancelRefused, SyncSkips, QueryFails, dataVars
<1>6. CASE CancelAllLists(t) \/ CancelAsks(t) \/ SyncAsks(t)
  <2>1. CASE CancelAllLists(t)
    BY <2>1 DEF CancelAllLists, TypeOK, ControlOK, TaskPC, dataVars
  <2>2. CASE CancelAsks(t) \/ SyncAsks(t)
    BY <2>2 DEF CancelAsks, SyncAsks, TypeOK, ControlOK, TaskPC, dataVars
  <2>3. QED
    BY <1>6, <2>1, <2>2
<1>7. CASE BatchNext(t)
  <2>1. /\ UNCHANGED <<dataVars, running, halted>>
        /\ UNCHANGED <<lock, succeeded>>
    BY <1>7 DEF BatchNext, dataVars
  <2>2. \E l \in TaskPC : pc' = [pc EXCEPT ![t] = l]
    BY <1>7 DEF BatchNext, TaskPC
  <2>3. \E S \in SUBSET Order : todo' = [todo EXCEPT ![t] = S]
    <3>1. {} \in SUBSET Order /\ \A o \in Order : todo[t] \ {o} \in SUBSET Order
      BY DEF TypeOK
    <3>2. CASE todo' = [todo EXCEPT ![t] = {}]
      BY <3>1, <3>2
    <3>3. CASE \E o \in todo[t] : todo' = [todo EXCEPT ![t] = @ \ {o}]
      <4>1. PICK o \in todo[t] : todo' = [todo EXCEPT ![t] = todo[t] \ {o}]
        BY <3>3 DEF TypeOK
      <4>2. o \in Order
        BY <4>1 DEF TypeOK
      <4>3. QED
        BY <3>1, <4>1, <4>2
    <3>4. QED
      BY <1>7, <3>2, <3>3 DEF BatchNext
  <2>4. target' = target \/ \E o \in todo[t] : target' = [target EXCEPT ![t] = o]
    BY <1>7 DEF BatchNext
  <2>5. target' \in [Task -> Order]
    BY <2>4 DEF TypeOK
  <2>6. /\ pc' \in [Task -> TaskPC]
        /\ todo' \in [Task -> SUBSET Order]
    BY <2>2, <2>3 DEF TypeOK
  <2>7. QED
    BY <2>1, <2>5, <2>6 DEF TypeOK, ControlOK
<1>8. QED
  BY <1>1, <1>2, <1>3, <1>4, <1>5, <1>6, <1>7 DEF MoveStep

\* The steps that write an order, the book or the answer.
SubmitWrites(t) ==
  \/ SubmitInvalid(t) \/ SubmitValid(t) \/ SubmitAccepted(t) \/ SubmitGivesUp(t)
  \/ Resubmit(t) \/ ResubmitHalted(t)
CancelWrites(t) == CancelLocally(t) \/ CancelSucceeds(t) \/ CancelFails(t)
QueryWrites(t) == QueryAnswered(t) \/ QueryApplied(t)
WriteStep(t) == SubmitWrites(t) \/ CancelWrites(t) \/ QueryWrites(t)

\* Every submission's outcome keeps the types.
LEMMA SubmitTypes ==
  ASSUME IInv, NEW t \in Task, SubmitWrites(t)
  PROVE  ControlOK /\ DataOK
<1> DEFINE o == target[t]
<1> USE OrderAssumption, ManagerAssumption
<1>0. /\ o \in Order
      /\ ostate[o] \in OrderState \cup {"none"}
      /\ retry[o] \in Attempt
  BY DEF IInv, TypeOK, LifeTypeOK
<1>1. CASE SubmitInvalid(t)
  BY <1>0, <1>1, MarkTypes, ControlTypes
  DEF SubmitInvalid, IInv, TypeOK, DataOK, OrderState
<1>2. CASE SubmitValid(t)
  <2>1. ControlOK
    BY <1>2 DEF SubmitValid, IInv, TypeOK, ControlOK, TaskPC
  <2>2. LifeTypeOK'
    BY <1>0, <1>2, MarkTypes DEF SubmitValid, IInv, OrderState
  <2>3. QED
    BY <1>0, <1>2, <2>1, <2>2, SendTypes DEF SubmitValid, IInv, TypeOK, DataOK, Attempt
<1>3. CASE SubmitAccepted(t)
  <2>1. book[o][retry[o]] \in Request
    BY <1>0 DEF IInv, TypeOK
  <2>2. book[o][retry[o]].ack \in 0 .. Quantity
    BY <2>1 DEF Request
  <2>3. filled' \in [Order -> 0 .. Quantity]
    BY <1>0, <1>3, <2>2 DEF SubmitAccepted, IInv, TypeOK, LifeTypeOK
  <2>4. xid' \in [Order -> ExchangeId \cup {NoId}]
    BY <1>0, <1>3 DEF SubmitAccepted, IInv, TypeOK, LifeTypeOK
  <2>5. \E s \in OrderState \cup {"none"} : ostate' = [ostate EXCEPT ![o] = s]
    <3>1. \A s \in OrderState \cup {"none"}, to \in OrderState : \A f :
             TransitionTo(s, to, f) \in OrderState \cup {"none"}
      BY TransitionChoice
    <3>2. {"SUBMITTED", "FILLED", "COMPLETED", "PARTIALLY_FILLED"} \subseteq OrderState
      BY DEF OrderState
    <3>3. \A s \in OrderState \cup {"none"} : \A f : MarkFilled(s, f) \in OrderState \cup {"none"}
      BY <3>1, <3>2 DEF MarkFilled
    <3>4. QED
      BY <1>0, <1>3, <3>1, <3>2, <3>3 DEF SubmitAccepted
  <2>6. ostate' \in [Order -> OrderState \cup {"none"}]
    BY <1>0, <2>5 DEF IInv, TypeOK, LifeTypeOK
  <2>7. ControlOK
    BY <1>3, ControlTypes DEF SubmitAccepted, IInv
  <2>8. QED
    BY <1>3, <2>3, <2>4, <2>6, <2>7 DEF SubmitAccepted, IInv, TypeOK, LifeTypeOK, DataOK
<1>4. ASSUME NEW s \in OrderState, Mark(o, TransitionTo(ostate[o], s, 0)),
             ReturnSubmit(t, FALSE), UNCHANGED <<retry, book, answer>>
      PROVE  ControlOK /\ DataOK
  <2>1. TransitionTo(ostate[o], s, 0) \in OrderState \cup {"none"}
    BY <1>0, TransitionChoice
  <2>2. QED
    BY <1>0, <1>4, <2>1, MarkTypes, ControlTypes DEF IInv, TypeOK, DataOK
<1>5. CASE SubmitGivesUp(t)
  BY <1>4, <1>5 DEF SubmitGivesUp, OrderState
<1>6. CASE Resubmit(t)
  <2>1. retry[o] + 1 \in Attempt
    BY <1>0, <1>6 DEF Resubmit, IInv, TaskOK, Attempt
  <2>2. QED
    BY <1>0, <1>6, <2>1, SendTypes, ControlTypes
    DEF Resubmit, IInv, TypeOK, LifeTypeOK, DataOK, TaskPC
<1>7. CASE ResubmitHalted(t)
  BY <1>4, <1>7 DEF ResubmitHalted, OrderState
<1>8. QED
  BY <1>1, <1>2, <1>3, <1>5, <1>6, <1>7 DEF SubmitWrites

\* Every cancellation's outcome keeps the types.
LEMMA CancelTypes ==
  ASSUME IInv, NEW t \in Task, CancelWrites(t)
  PROVE  ControlOK /\ DataOK
<1> DEFINE o == target[t]
<1> USE OrderAssumption, ManagerAssumption
<1>0. /\ o \in Order
      /\ ostate[o] \in OrderState \cup {"none"}
      /\ xid[o] \in Attempt \cup {NoId}
  BY DEF IInv, TypeOK, LifeTypeOK
<1>1. \A s \in OrderState \cup {"none"} :
        TransitionTo(s, "CANCELED", 0) \in OrderState \cup {"none"}
  BY TransitionChoice DEF OrderState
<1>2. ASSUME xid[o] # NoId, book' = [book EXCEPT ![o][xid[o]].status = "CANCELED"]
      PROVE  book' \in [Order -> [Attempt -> Request]]
  <2>1. book[o][xid[o]] \in Request
    BY <1>0, <1>2 DEF IInv, TypeOK
  <2>2. [book[o][xid[o]] EXCEPT !.status = "CANCELED"] \in Request
    BY <2>1 DEF Request, Status, ClosedStatus
  <2>3. book' = [book EXCEPT ![o][xid[o]] = [book[o][xid[o]] EXCEPT !.status = "CANCELED"]]
    BY <1>2 DEF IInv, TypeOK
  <2>4. QED
    BY <2>2, <2>3 DEF IInv, TypeOK
<1>3. CASE CancelLocally(t)
  BY <1>0, <1>1, <1>3, MarkTypes, ControlTypes DEF CancelLocally, IInv, TypeOK, DataOK
<1>4. CASE CancelSucceeds(t)
  <2>1. xid[o] # NoId
    BY <1>4 DEF CancelSucceeds, IInv, TaskOK, Asking
  <2>2. book' \in [Order -> [Attempt -> Request]]
    BY <1>2, <1>4, <2>1 DEF CancelSucceeds
  <2>3. QED
    BY <1>0, <1>1, <1>4, <2>2, MarkTypes, ControlTypes
    DEF CancelSucceeds, IInv, TypeOK, DataOK
<1>5. CASE CancelFails(t)
  <2>1. xid[o] # NoId
    BY <1>5 DEF CancelFails, IInv, TaskOK, Asking
  <2>2. book' \in [Order -> [Attempt -> Request]]
    BY <1>2, <1>5, <2>1 DEF CancelFails, IInv, TypeOK
  <2>3. QED
    BY <1>5, <2>2, ControlTypes
    DEF CancelFails, IInv, TypeOK, LifeTypeOK, DataOK, TaskPC
<1>6. QED
  BY <1>3, <1>4, <1>5 DEF CancelWrites

\* An answer that is received, and one that is applied, keep the types.
LEMMA QueryTypes ==
  ASSUME IInv, NEW t \in Task, QueryWrites(t)
  PROVE  ControlOK /\ DataOK
<1> DEFINE o == target[t]
<1> USE OrderAssumption, ManagerAssumption
<1>0. /\ o \in Order
      /\ ostate[o] \in OrderState \cup {"none"}
      /\ xid[o] \in Attempt \cup {NoId}
  BY DEF IInv, TypeOK, LifeTypeOK
<1>1. CASE QueryAnswered(t)
  <2>1. xid[o] # NoId
    BY <1>1 DEF QueryAnswered, IInv, TaskOK, Asking
  <2>2. book[o][xid[o]] \in Request /\ book[o][xid[o]].status \in Status
    BY <1>0, <2>1 DEF IInv, TypeOK, OrderOK
  <2>3. answer' \in [status : Status \cup {"none"}, filled : 0 .. Quantity]
    BY <1>1, <2>2 DEF QueryAnswered, Request
  <2>4. QED
    BY <1>1, <2>3, ControlTypes DEF QueryAnswered, IInv, TypeOK, LifeTypeOK, DataOK, TaskPC
<1>2. CASE QueryApplied(t)
  <2>1. answer.status \in Status /\ answer.filled \in 0 .. Quantity
    BY <1>2 DEF QueryApplied, IInv, TypeOK, TaskOK, AnswerOK
  <2>2. SyncedState(ostate[o], answer.status, answer.filled) \in OrderState \cup {"none"}
    BY <1>0, <2>1, SyncedChoice DEF Status, OpenStatus, ClosedStatus, OrderState
  <2>3. ostate' \in [Order -> OrderState \cup {"none"}]
    BY <1>2, <2>2 DEF QueryApplied, IInv, TypeOK, LifeTypeOK
  <2>4. filled' \in [Order -> 0 .. Quantity]
    BY <1>2, <2>1 DEF QueryApplied, IInv, TypeOK, LifeTypeOK
  <2>5. answer' \in [status : Status \cup {"none"}, filled : 0 .. Quantity]
    BY <1>2 DEF QueryApplied, NoAnswer
  <2>6. QED
    BY <1>2, <2>3, <2>4, <2>5, ControlTypes
    DEF QueryApplied, IInv, TypeOK, LifeTypeOK, DataOK
<1>3. QED
  BY <1>1, <1>2 DEF QueryWrites

-------------------------------------------------------------------------------
(* Who holds the lock *)

\* A task moves itself alone; the lock is taken only when it is free and given
\* back only by its holder; and a task in a request has it.
Own(t) ==
  /\ \A u \in Task \ {t} : pc'[u] = pc[u] /\ target'[u] = target[u]
  /\ lock' = lock \/ lock \in {"free", t}
  /\ pc'[t] \in Holding => lock' = t

\* No task is called "free".
LEMMA FreeIsNoTask == "free" \notin Task
  BY ManagerAssumption DEF Task, Recon

\* A step by t leaves the facts about other tasks alone, if t writes only while no
\* other task has the lock.
LEMMA OthersKept ==
  ASSUME IInv, NEW t \in Task, Own(t), UNCHANGED dataVars \/ lock \in {"free", t},
         NEW u \in Task \ {t}
  PROVE  TaskOK(u)'
<1>1. pc'[u] = pc[u] /\ target'[u] = target[u]
  BY DEF Own
<1>2. CASE lock \in {"free", t}
  <2>1. pc[u] \notin Holding
    BY <1>2, FreeIsNoTask DEF IInv, TaskOK
  <2>2. QED
    BY <1>1, <2>1 DEF TaskOK, Holding, Submitting, Asking
<1>3. CASE lock \notin {"free", t}
  <2>1. UNCHANGED dataVars /\ lock' = lock
    BY <1>3 DEF Own
  <2>2. TaskOK(u)
    BY DEF IInv
  <2>3. QED
    BY <1>1, <2>1, <2>2 DEF TaskOK, AnswerOK, dataVars
<1>4. QED
  BY <1>2, <1>3

\* Returning, moving on and aborting are a task's own affair.
LEMMA ControlOwn ==
  ASSUME IInv, NEW t \in Task
  PROVE  /\ Return(t) => Own(t) /\ pc'[t] \notin Holding
         /\ \A success : ReturnSubmit(t, success) => Own(t) /\ pc'[t] \notin Holding
         /\ \A l \in TaskPC : Goto(t, l) /\ (l \in Holding => pc[t] \in Holding)
                => Own(t) /\ pc'[t] = l /\ target' = target
         /\ Abort(t) => Own(t) /\ pc'[t] \notin Holding
<1> USE DEF IInv, TypeOK, Own, Holding, Submitting, Asking
<1>1. Return(t) => Own(t) /\ pc'[t] \notin Holding
  BY DEF Return
<1>2. ASSUME NEW success, ReturnSubmit(t, success)
      PROVE  Own(t) /\ pc'[t] \notin Holding
  BY <1>2 DEF ReturnSubmit
<1>3. ASSUME NEW l \in TaskPC, Goto(t, l), l \in Holding => pc[t] \in Holding
      PROVE  Own(t) /\ pc'[t] = l /\ target' = target
  <2>1. pc[t] \in Holding => lock = t
    BY DEF TaskOK
  <2>2. QED
    BY <1>3, <2>1 DEF Goto
<1>4. Abort(t) => Own(t) /\ pc'[t] \notin Holding
  BY DEF Abort
<1>5. QED
  BY <1>1, <1>2, <1>3, <1>4

\* A step that moves its task leaves what the invariant says of it true.
LEMMA MoveKeeps ==
  ASSUME IInv, NEW t \in Task, MoveStep(t)
  PROVE  Own(t) /\ TaskOK(t)'
<1> USE DEF Holding, Submitting, Asking
<1>0. UNCHANGED dataVars
  BY MoveTypes DEF IInv
<1>1. ASSUME Own(t), pc'[t] \notin Holding
      PROVE  Own(t) /\ TaskOK(t)'
  BY <1>1 DEF TaskOK
<1>2. ASSUME NEW o \in Order, Execute(t, o) \/ Cancel(t, o)
      PROVE  Own(t) /\ TaskOK(t)'
  BY <1>1, <1>2 DEF Execute, Cancel, IInv, TypeOK, Own
<1>3. CASE CancelAll(t) \/ Fetched(t)
  BY <1>1, <1>3, ControlOwn DEF CancelAll, Fetched, TaskPC
<1>4. CASE SubmitDuplicate(t)
  BY <1>1, <1>4, ControlOwn DEF SubmitDuplicate
<1>5. CASE CancelRefused(t) \/ SyncSkips(t) \/ QueryFails(t)
  BY <1>1, <1>5, ControlOwn DEF CancelRefused, SyncSkips, QueryFails
<1>6. CASE CancelAllLists(t)
  BY <1>1, <1>6 DEF CancelAllLists, IInv, TypeOK, Own
<1>7. CASE BatchNext(t)
  BY <1>1, <1>7 DEF BatchNext, IInv, TypeOK, Own
<1>8. CASE SubmitRetries(t)
  <2>1. Own(t) /\ pc'[t] = "backoff" /\ target' = target
    BY <1>8, ControlOwn DEF SubmitRetries, TaskPC
  <2>2. TaskOK(t) /\ pc[t] = "sending" /\ retry[target[t]] < MaxRetries
    BY <1>8 DEF SubmitRetries, IInv
  <2>3. lock' = lock
    BY <1>8 DEF SubmitRetries, Goto
  <2>4. QED
    BY <1>0, <2>1, <2>2, <2>3 DEF TaskOK, dataVars
<1>9. CASE CancelAsks(t)
  <2>1. Own(t) /\ pc'[t] = "canceling" /\ lock' = t
    BY <1>9 DEF CancelAsks, IInv, TypeOK, Own
  <2>2. /\ ostate[target[t]] \in AllowsCancel /\ xid[target[t]] # NoId
        /\ target' = target
    BY <1>9 DEF CancelAsks
  <2>3. AllowsCancel \subseteq Active
    BY DEF AllowsCancel, Active, OrderState, Terminal
  <2>4. QED
    BY <1>0, <2>1, <2>2, <2>3 DEF TaskOK, dataVars
<1>10. CASE SyncAsks(t)
  <2>1. Own(t) /\ pc'[t] = "querying" /\ lock' = t
    BY <1>10 DEF SyncAsks, IInv, TypeOK, Own
  <2>2. /\ ostate[target[t]] \notin Terminal /\ xid[target[t]] # NoId
        /\ target' = target /\ target[t] \in Order
    BY <1>10 DEF SyncAsks, IInv, TypeOK
  <2>3. ostate[target[t]] \in OrderState
    BY <2>2 DEF IInv, TypeOK, LifeTypeOK, OrderOK
  <2>4. QED
    BY <1>0, <2>1, <2>2, <2>3 DEF TaskOK, dataVars, Active
<1>11. QED
  BY <1>2, <1>3, <1>4, <1>5, <1>6, <1>7, <1>8, <1>9, <1>10 DEF MoveStep

-------------------------------------------------------------------------------
(* What a task writes *)

\* Where the table leads from the states an order is written in.
LEMMA Transitions ==
  ASSUME NEW f
  PROVE  /\ \A s \in {"SUBMITTED", "REJECTED", "FAILED", "CANCELED"} :
              TransitionTo("PENDING_SUBMISSION", s, f) = s
         /\ \A s \in AllowsCancel : TransitionTo(s, "CANCELED", f) = "CANCELED"
         /\ f >= Quantity => MarkFilled("SUBMITTED", f) = "COMPLETED"
         /\ f >= Quantity => MarkFilled("PARTIALLY_FILLED", f) = "COMPLETED"
         /\ 0 < f /\ f < Quantity =>
              TransitionTo("SUBMITTED", "PARTIALLY_FILLED", f) = "PARTIALLY_FILLED"
<1>1. /\ ValidTransitions("PENDING_SUBMISSION") = {"SUBMITTED", "REJECTED", "CANCELED", "FAILED"}
      /\ ValidTransitions("SUBMITTED") =
            {"PARTIALLY_FILLED", "FILLED", "CANCELED", "REJECTED", "EXPIRED", "FAILED"}
      /\ ValidTransitions("PARTIALLY_FILLED") = {"FILLED", "CANCELED", "EXPIRED", "FAILED"}
      /\ ValidTransitions("FILLED") = {"COMPLETED"}
  BY DEF ValidTransitions
<1>2. QED
  BY <1>1 DEF TransitionTo, MarkFilled, ValidForState, AllowsCancel

\* The states an active order can be moved to within a step.
LEMMA Reaches ==
  /\ \A s \in OrderState : s \in Reachable(s) /\ ValidTransitions(s) \subseteq Reachable(s)
  /\ {"SUBMITTED", "PARTIALLY_FILLED", "COMPLETED"} \subseteq Reachable("PENDING_SUBMISSION")
  /\ "COMPLETED" \in Reachable("SUBMITTED") /\ "COMPLETED" \in Reachable("PARTIALLY_FILLED")
<1>1. /\ ValidTransitions("PENDING_SUBMISSION") = {"SUBMITTED", "REJECTED", "CANCELED", "FAILED"}
      /\ ValidTransitions("SUBMITTED") =
            {"PARTIALLY_FILLED", "FILLED", "CANCELED", "REJECTED", "EXPIRED", "FAILED"}
      /\ ValidTransitions("PARTIALLY_FILLED") = {"FILLED", "CANCELED", "EXPIRED", "FAILED"}
      /\ ValidTransitions("FILLED") = {"COMPLETED"}
  BY DEF ValidTransitions
<1>2. \A S : S \subseteq Step(S) /\ \A s \in S : ValidTransitions(s) \subseteq Step(S)
  BY DEF Step
<1>3. QED
  BY <1>1, <1>2 DEF Reachable

\* A step that writes no order but o.
Only(o) ==
  \A p \in Order \ {o} :
    /\ ostate'[p] = ostate[p] /\ filled'[p] = filled[p] /\ xid'[p] = xid[p]
    /\ book'[p] = book[p]

\* The other orders stay as they are.
LEMMA OnlyKeeps ==
  ASSUME IInv, NEW o \in Order, Only(o), OrderOK(o)'
  PROVE  \A p \in Order : OrderOK(p)'
<1>1. ASSUME NEW p \in Order \ {o}
      PROVE  OrderOK(p)'
  BY <1>1 DEF IInv, Only, OrderOK, EntryOK
<1>2. QED
  BY <1>1

\* What a step that writes order o of task t is shown to do.
Writes(t) ==
  /\ Own(t) /\ lock \in {"free", t}
  /\ TaskOK(t)'
  /\ \A p \in Order : OrderOK(p)'
  /\ [LifeNext]_lifeVars

\* Nothing is known of an order that has no exchange id.
LEMMA UnknownOK ==
  ASSUME NEW o \in Order, xid'[o] = NoId, filled'[o] = 0, ostate'[o] # "PARTIALLY_FILLED",
         \A a \in Attempt : EntryOK(book'[o][a])
  PROVE  OrderOK(o)'
  BY DEF OrderOK, EntryOK

\* A request that was only sent says nothing of the exchange yet.
LEMMA SendKeeps ==
  ASSUME IInv, NEW o \in Order, NEW a \in Attempt, Send(o, a)
  PROVE  /\ \A b \in Attempt : EntryOK(book'[o][b])
         /\ \A p \in Order \ {o} : book'[p] = book[p]
<1>1. \A b \in Attempt \ {a} : book'[o][b] = book[o][b]
  BY DEF Send, IInv, TypeOK
<1>2. book'[o][a].status = "sent"
  <2>1. book[o][a] \in Request
    BY DEF IInv, TypeOK
  <2>2. book'[o][a] = [book[o][a] EXCEPT !.status = "sent"]
    BY DEF Send, IInv, TypeOK
  <2>3. QED
    BY <2>1, <2>2 DEF Request
<1>3. EntryOK(book'[o][a])
  BY <1>2 DEF EntryOK, Status, OpenStatus, ClosedStatus
<1>4. \A b \in Attempt : EntryOK(book[o][b])
  BY DEF IInv, OrderOK
<1>5. QED
  BY <1>1, <1>3, <1>4 DEF Send, IInv, TypeOK

\* An order that ends, or goes on, without an answer keeps its id and its fill.
LEMMA StateAdvances ==
  ASSUME IInv, NEW o \in Order, ostate[o] \in Active, NEW s \in Reachable(ostate[o]),
         s \notin {"COMPLETED", "PARTIALLY_FILLED"},
         ostate' = [ostate EXCEPT ![o] = s], UNCHANGED <<filled, xid>>
  PROVE  Advance(o)
<1>1. /\ filled' = [filled EXCEPT ![o] = filled[o]]
      /\ xid' = [xid EXCEPT ![o] = xid[o]]
  BY DEF IInv, TypeOK, LifeTypeOK
<1>2. /\ filled[o] \in filled[o] .. Quantity
      /\ xid[o] \in ExchangeId \cup {NoId}
      /\ ~(filled[o] > filled[o])
  BY OrderAssumption DEF IInv, TypeOK, LifeTypeOK
<1>3. QED
  BY <1>1, <1>2 DEF Advance

\* Every outcome of a submission is a step of the lifecycle and keeps the invariant.
LEMMA SubmitKeeps ==
  ASSUME IInv, NEW t \in Task, SubmitWrites(t)
  PROVE  Writes(t)
<1> USE OrderAssumption, ManagerAssumption
<1>0. PICK o \in Order :
        /\ o = target[t]
        /\ OrderOK(o) /\ TaskOK(t)
        /\ ostate \in [Order -> OrderState \cup {"none"}]
        /\ retry[o] \in Attempt
  BY DEF IInv, TypeOK, LifeTypeOK
<1>1. CASE SubmitInvalid(t)
  <2>1. ostate[o] = "none" /\ xid[o] = NoId /\ filled[o] = 0
    BY <1>0, <1>1 DEF SubmitInvalid, Tracked, OrderOK
  <2>2. /\ ostate' = [ostate EXCEPT ![o] = "REJECTED"]
        /\ UNCHANGED <<filled, xid, book>>
    BY <1>0, <1>1 DEF SubmitInvalid, Mark
  <2>3. OrderOK(o)' /\ Only(o)
    BY <1>0, <2>1, <2>2, UnknownOK DEF OrderOK, Only
  <2>4. Own(t) /\ lock = "free" /\ TaskOK(t)'
    BY <1>0, <1>1, ControlOwn DEF SubmitInvalid, TaskOK, Holding, Submitting, Asking
  <2>5. Track(o)
    BY <1>0, <2>1, <2>2 DEF Track
  <2>6. QED
    BY <1>0, <2>3, <2>4, <2>5, OnlyKeeps DEF Writes, LifeNext
<1>2. CASE SubmitValid(t)
  <2>1. ostate[o] = "none" /\ xid[o] = NoId /\ filled[o] = 0
    BY <1>0, <1>2 DEF SubmitValid, Tracked, OrderOK
  <2>2. /\ ostate' = [ostate EXCEPT ![o] = "PENDING_SUBMISSION"]
        /\ UNCHANGED <<filled, xid>>
        /\ Send(o, 0)
    BY <1>0, <1>2 DEF SubmitValid, Mark
  <2>3. /\ \A b \in Attempt : EntryOK(book'[o][b])
        /\ \A p \in Order \ {o} : book'[p] = book[p]
    BY <1>0, <2>2, SendKeeps DEF Attempt
  <2>4. OrderOK(o)' /\ Only(o)
    BY <1>0, <2>1, <2>2, <2>3, UnknownOK DEF Only
  <2>5. Own(t) /\ lock = "free" /\ pc'[t] = "sending" /\ lock' = t /\ target' = target
    BY <1>0, <1>2 DEF SubmitValid, Own, IInv, TypeOK
  <2>6. TaskOK(t)'
    BY <1>0, <2>1, <2>2, <2>5 DEF TaskOK, Holding, Submitting, Asking
  <2>7. Track(o)
    BY <1>0, <2>1, <2>2 DEF Track
  <2>8. QED
    BY <1>0, <2>4, <2>5, <2>6, <2>7, OnlyKeeps DEF Writes, LifeNext
<1>3. CASE SubmitAccepted(t)
  <2> DEFINE r == book[o][retry[o]]
             k == r.ack
  <2>1. /\ ostate[o] = "PENDING_SUBMISSION" /\ xid[o] = NoId /\ filled[o] = 0 /\ lock = t
        /\ r.status \in Status
    BY <1>0, <1>3 DEF SubmitAccepted, TaskOK, OrderOK, Holding, Submitting
  <2>2. r \in Request /\ EntryOK(r)
    BY <1>0 DEF IInv, TypeOK, OrderOK
  <2>3. /\ k \in 0 .. Quantity /\ r.filled \in 0 .. Quantity
        /\ k <= r.filled
        /\ r.filled = Quantity <=> r.status = "FILLED"
    BY <1>0, <2>1, <2>2 DEF EntryOK, Request
  <2>4. /\ filled' = [filled EXCEPT ![o] = k]
        /\ xid' = [xid EXCEPT ![o] = retry[o]]
        /\ UNCHANGED book
    <3>1. filled' = [filled EXCEPT ![o] = IF k > 0 THEN k ELSE filled[o]]
      BY <1>0, <1>3 DEF SubmitAccepted
    <3>2. (IF k > 0 THEN k ELSE filled[o]) = k
      BY <1>0, <2>1, <2>3
    <3>3. QED
      BY <1>0, <1>3, <3>1, <3>2 DEF SubmitAccepted
  <2>5. TransitionTo(ostate[o], "SUBMITTED", 0) = "SUBMITTED"
    BY <1>0, <2>1, Transitions
  <2>6. PICK s : /\ ostate' = [ostate EXCEPT ![o] = s]
                 /\ \/ s = "COMPLETED" /\ k = Quantity
                    \/ s = "PARTIALLY_FILLED" /\ 0 < k /\ k < Quantity
                    \/ s = "SUBMITTED" /\ k = 0
    <3> DEFINE after == IF k >= Quantity THEN MarkFilled("SUBMITTED", k)
                        ELSE IF k > 0 THEN TransitionTo("SUBMITTED", "PARTIALLY_FILLED", k)
                        ELSE "SUBMITTED"
    <3>1. ostate' = [ostate EXCEPT ![o] = after]
      BY <1>0, <1>3, <2>5 DEF SubmitAccepted
    <3>2. \/ after = "COMPLETED" /\ k = Quantity
          \/ after = "PARTIALLY_FILLED" /\ 0 < k /\ k < Quantity
          \/ after = "SUBMITTED" /\ k = 0
      <4>1. CASE k = Quantity
        BY <4>1, <2>3, Transitions
      <4>2. CASE 0 < k /\ k < Quantity
        BY <4>2, <2>3, Transitions
      <4>3. CASE k = 0
        BY <4>3, <2>3
      <4>4. k = 0 \/ (0 < k /\ k < Quantity) \/ k = Quantity
        BY <2>3, OrderAssumption
      <4>5. QED
        BY <4>1, <4>2, <4>3, <4>4
    <3> HIDE DEF after
    <3>3. QED
      BY <3>1, <3>2
  <2>7. Only(o)
    BY <1>0, <2>4, <2>6 DEF Only
  <2>8. OrderOK(o)'
    <3>1. /\ ostate'[o] = s /\ filled'[o] = k /\ xid'[o] = retry[o]
          /\ book'[o] = book[o]
      BY <1>0, <2>4, <2>6 DEF IInv, TypeOK, LifeTypeOK
    <3>2. retry[o] # NoId
      BY <1>0
    <3>3. s \in Terminal => s = "COMPLETED"
      BY <1>0, <2>6 DEF Terminal
    <3>4. s = "COMPLETED" => r.status = "FILLED"
      BY <1>0, <2>3, <2>6
    <3>5. QED
      BY <1>0, <2>1, <2>3, <2>6, <3>1, <3>2, <3>3, <3>4
      DEF OrderOK, ClosedStatus
  <2>9. Own(t) /\ TaskOK(t)'
    BY <1>0, <1>3, ControlOwn DEF SubmitAccepted, TaskOK, Holding, Submitting, Asking
  <2>10. Advance(o)
    <3>1. ostate[o] \in Active
      BY <1>0, <2>1 DEF Active, OrderState, Terminal
    <3>2. s \in Reachable(ostate[o])
      BY <1>0, <2>1, <2>6, Reaches
    <3>3. k \in filled[o] .. Quantity /\ retry[o] \in ExchangeId \cup {NoId}
      BY <1>0, <2>1, <2>3
    <3>4. retry[o] # NoId
      BY <1>0
    <3>5. QED
      BY <1>0, <2>1, <2>3, <2>4, <2>6, <3>1, <3>2, <3>3, <3>4 DEF Advance
  <2>11. QED
    BY <1>0, <2>1, <2>7, <2>8, <2>9, <2>10, OnlyKeeps DEF Writes, LifeNext
<1>4. ASSUME NEW s \in {"REJECTED", "FAILED"}, Mark(o, TransitionTo(ostate[o], s, 0)),
             ReturnSubmit(t, FALSE), pc[t] \in Submitting, UNCHANGED book
      PROVE  Writes(t)
  <2>1. /\ ostate[o] = "PENDING_SUBMISSION" /\ xid[o] = NoId /\ filled[o] = 0 /\ lock = t
    BY <1>0, <1>4 DEF TaskOK, OrderOK, Holding
  <2>2. /\ ostate' = [ostate EXCEPT ![o] = s]
        /\ UNCHANGED <<filled, xid, book>>
    <3>1. TransitionTo(ostate[o], s, 0) = s
      BY <2>1, Transitions
    <3>2. Mark(o, s)
      BY <1>4, <3>1
    <3>3. QED
      BY <1>4, <3>2 DEF Mark
  <2>3. OrderOK(o)' /\ Only(o)
    BY <1>0, <2>1, <2>2, UnknownOK DEF OrderOK, Only
  <2>4. Own(t) /\ TaskOK(t)'
    BY <1>0, <1>4, ControlOwn DEF TaskOK, Holding, Submitting, Asking
  <2>5. Advance(o)
    <3>1. ostate[o] \in Active /\ ostate[o] \in OrderState
      BY <1>0, <2>1 DEF Active, OrderState, Terminal
    <3>2. s \in Reachable(ostate[o])
      <4>1. s \in ValidTransitions("PENDING_SUBMISSION")
        BY DEF ValidTransitions
      <4>2. QED
        BY <1>0, <2>1, <3>1, <4>1, Reaches
    <3>3. QED
      BY <1>0, <2>2, <3>1, <3>2, StateAdvances
  <2>6. QED
    BY <1>0, <2>1, <2>3, <2>4, <2>5, OnlyKeeps DEF Writes, LifeNext
<1>5. CASE SubmitGivesUp(t)
  BY <1>0, <1>4, <1>5 DEF SubmitGivesUp, Submitting
<1>6. CASE Resubmit(t)
  <2>1. /\ ostate[o] = "PENDING_SUBMISSION" /\ xid[o] = NoId /\ filled[o] = 0 /\ lock = t
        /\ retry[o] + 1 \in Attempt
    BY <1>0, <1>6 DEF Resubmit, TaskOK, OrderOK, Holding, Submitting, Attempt
  <2>2. Send(o, retry[o] + 1) /\ UNCHANGED <<ostate, filled, xid>>
    BY <1>0, <1>6 DEF Resubmit
  <2>3. /\ \A b \in Attempt : EntryOK(book'[o][b])
        /\ \A p \in Order \ {o} : book'[p] = book[p]
    BY <1>0, <2>1, <2>2, SendKeeps
  <2>4. OrderOK(o)' /\ Only(o)
    BY <1>0, <2>1, <2>2, <2>3, UnknownOK DEF Only
  <2>5. Own(t) /\ pc'[t] = "sending" /\ target' = target /\ lock' = lock
    BY <1>0, <1>6, ControlOwn DEF Resubmit, TaskPC, Holding, Submitting, Goto
  <2>6. TaskOK(t)'
    BY <1>0, <2>1, <2>2, <2>5 DEF TaskOK, Holding, Submitting, Asking
  <2>7. QED
    BY <1>0, <2>1, <2>2, <2>4, <2>5, <2>6, OnlyKeeps DEF Writes, lifeVars
<1>7. CASE ResubmitHalted(t)
  BY <1>0, <1>4, <1>7 DEF ResubmitHalted, Submitting
<1>8. QED
  BY <1>0, <1>1, <1>2, <1>3, <1>5, <1>6, <1>7 DEF SubmitWrites

\* What may become of entry r of the book: an accepted order stays accepted and
\* loses no fill, and a closed one stays as it is.
Follows(r, q) ==
  /\ r.status \in Status => q.status \in Status /\ r.filled <= q.filled
  /\ r.status \in ClosedStatus => q.status = r.status

\* A change of one entry of the book keeps what is known of every order, and the
\* answer under way, true.
LEMMA BookKeeps ==
  ASSUME IInv, NEW o \in Order, NEW a \in Attempt, NEW q \in Request,
         book' = [book EXCEPT ![o][a] = q], EntryOK(q), Follows(book[o][a], q),
         UNCHANGED <<filled, xid>>,
         NEW p \in Order
  PROVE  /\ ostate'[p] = ostate[p] => OrderOK(p)'
         /\ UNCHANGED answer /\ xid[p] # NoId /\ AnswerOK(p) => AnswerOK(p)'
         /\ \A b \in Attempt : EntryOK(book'[p][b])
<1> USE OrderAssumption, ManagerAssumption
<1>1. \A b \in Attempt : book'[p][b] = IF p = o /\ b = a THEN q ELSE book[p][b]
  BY DEF IInv, TypeOK
<1>2. \A b \in Attempt : EntryOK(book[p][b]) /\ book[p][b] \in Request
  BY DEF IInv, TypeOK, OrderOK
<1>3. \A b \in Attempt : EntryOK(book'[p][b]) /\ book'[p][b] \in Request
  BY <1>1, <1>2
<1>4. \A b \in Attempt : Follows(book[p][b], book'[p][b])
  <2>1. \A b \in Attempt : Follows(book[p][b], book[p][b])
    BY <1>2 DEF Follows, Request
  <2>2. QED
    BY <1>1, <2>1
<1>5. /\ xid[p] \in Attempt \cup {NoId} /\ filled[p] \in 0 .. Quantity
      /\ OrderOK(p)
  BY DEF IInv, TypeOK, LifeTypeOK
<1>6. ASSUME ostate'[p] = ostate[p]
      PROVE  OrderOK(p)'
  <2>1. CASE xid[p] = NoId
    BY <1>3, <1>5, <1>6, <2>1, UnknownOK DEF OrderOK
  <2>2. CASE xid[p] # NoId
    <3> DEFINE r == book[p][xid[p]]
    <3>1. /\ r.status \in Status /\ filled[p] <= r.filled
          /\ ostate[p] \in Terminal => r.status \in ClosedStatus
          /\ ostate[p] = "COMPLETED" => r.status = "FILLED"
          /\ ostate[p] = "PARTIALLY_FILLED" => filled[p] > 0
          /\ ostate[p] # "none"
      BY <1>5, <2>2 DEF OrderOK
    <3>2. book'[p][xid[p]] \in Request /\ r \in Request /\ Follows(r, book'[p][xid[p]])
      BY <1>2, <1>3, <1>4, <1>5, <2>2
    <3>3. /\ r.filled \in 0 .. Quantity /\ book'[p][xid[p]].filled \in 0 .. Quantity
      BY <3>2 DEF Request
    <3>4. LET q1 == book'[p][xid[p]]
          IN  /\ q1.status \in Status
              /\ filled[p] <= q1.filled
              /\ ostate[p] \in Terminal => q1.status \in ClosedStatus
              /\ ostate[p] = "COMPLETED" => q1.status = "FILLED"
      BY <1>5, <3>1, <3>2, <3>3 DEF Follows, ClosedStatus
    <3>5. \A b \in Attempt : EntryOK(book'[p][b])
      BY <1>3
    <3>6. QED
      BY <1>6, <2>2, <3>1, <3>4, <3>5 DEF OrderOK, EntryOK
  <2>3. QED
    BY <2>1, <2>2
<1>7. ASSUME UNCHANGED answer, xid[p] # NoId, AnswerOK(p)
      PROVE  AnswerOK(p)'
  <2>1. /\ book[p][xid[p]] \in Request /\ book'[p][xid[p]] \in Request
        /\ Follows(book[p][xid[p]], book'[p][xid[p]])
    BY <1>2, <1>3, <1>4, <1>5, <1>7
  <2>2. answer.filled \in 0 .. Quantity
    BY DEF IInv, TypeOK
  <2>3. book[p][xid[p]].status \in Status
    BY <1>5, <1>7 DEF OrderOK
  <2>4. /\ answer.filled <= book'[p][xid[p]].filled
        /\ answer.status \in ClosedStatus => book'[p][xid[p]].status = answer.status
    BY <1>7, <2>1, <2>2, <2>3 DEF AnswerOK, Follows, Request
  <2>5. QED
    BY <1>7, <2>4 DEF AnswerOK
<1>8. QED
  BY <1>3, <1>6, <1>7

\* Canceling an order the exchange has open is something that may become of it.
LEMMA CanceledFollows ==
  ASSUME NEW r \in Request, EntryOK(r), r.status \in OpenStatus,
         NEW s \in {"CANCELED", "EXPIRED", "REJECTED"}
  PROVE  LET q == [r EXCEPT !.status = s]
         IN  q \in Request /\ EntryOK(q) /\ Follows(r, q)
<1> DEFINE q == [r EXCEPT !.status = s]
<1>1. /\ q.status = s /\ q.filled = r.filled /\ q.ack = r.ack
      /\ q \in Request
  BY DEF Request, Status, ClosedStatus
<1>2. r.status \in Status /\ r.status # "FILLED" /\ r.status \notin ClosedStatus
  BY DEF Status, OpenStatus, ClosedStatus
<1>3. r.filled \in 0 .. Quantity
  BY DEF Request
<1>4. s \in Status /\ s # "FILLED"
  BY DEF Status, ClosedStatus
<1>5. r.filled <= r.filled
  BY <1>3, OrderAssumption
<1>6. EntryOK(q) /\ Follows(r, q)
  BY <1>1, <1>2, <1>4, <1>5 DEF EntryOK, Follows
<1>7. QED
  BY <1>1, <1>6

\* The exchange's own steps keep the invariant.
LEMMA ExchangeKeeps ==
  ASSUME IInv, ExchangeStep
  PROVE  /\ \A p \in Order : OrderOK(p)'
         /\ \A t \in Task : TaskOK(t)'
<1> USE OrderAssumption, ManagerAssumption
<1>1. PICK o \in Order, a \in Attempt :
        \/ ExchangeAccepts(o, a) \/ ExchangeRefuses(o, a)
        \/ ExchangeFills(o, a) \/ ExchangeCloses(o, a)
  BY DEF ExchangeStep
<1>2. book[o][a] \in Request /\ EntryOK(book[o][a])
  BY DEF IInv, TypeOK, OrderOK
<1> DEFINE r == book[o][a]
<1>3. \E q \in Request : /\ book' = [book EXCEPT ![o][a] = q]
                         /\ EntryOK(q) /\ Follows(r, q)
  <2>1. CASE ExchangeAccepts(o, a)
    <3>1. PICK f \in 0 .. Quantity :
            book' = [book EXCEPT ![o][a] = [status |-> StatusOf(f), filled |-> f, ack |-> f]]
      BY <2>1 DEF ExchangeAccepts
    <3>2. StatusOf(f) \in Status /\ (f = Quantity <=> StatusOf(f) = "FILLED")
      BY DEF StatusOf, Status, OpenStatus, ClosedStatus
    <3>3. r.status \notin Status
      BY <2>1 DEF ExchangeAccepts, Status, OpenStatus, ClosedStatus
    <3> DEFINE q == [status |-> StatusOf(f), filled |-> f, ack |-> f]
    <3>4. q \in Request
      BY <3>2 DEF Request
    <3>5. EntryOK(q) /\ Follows(r, q)
      BY <3>2, <3>3 DEF EntryOK, Follows, Status
    <3>6. QED
      BY <3>1, <3>4, <3>5
  <2>2. CASE ExchangeRefuses(o, a)
    <3>1. /\ book' = [book EXCEPT ![o][a] = [r EXCEPT !.status = "refused"]]
          /\ r.status \notin Status
      BY <2>2 DEF ExchangeRefuses, Status, OpenStatus, ClosedStatus
    <3>2. [r EXCEPT !.status = "refused"].status = "refused"
      BY <1>2 DEF Request
    <3>3. "refused" \notin Status /\ r.status \notin ClosedStatus
      BY <3>1 DEF Status, OpenStatus, ClosedStatus
    <3>4. [r EXCEPT !.status = "refused"] \in Request
      BY <1>2 DEF Request
    <3>5. QED
      BY <3>1, <3>2, <3>3, <3>4 DEF EntryOK, Follows
  <2>3. CASE ExchangeFills(o, a)
    <3>1. PICK f \in (r.filled + 1) .. Quantity :
            book' = [book EXCEPT ![o][a].filled = f, ![o][a].status = StatusOf(f)]
      BY <2>3 DEF ExchangeFills
    <3> DEFINE q == [r EXCEPT !.filled = f, !.status = StatusOf(f)]
    <3>2. book' = [book EXCEPT ![o][a] = q]
      BY <3>1 DEF IInv, TypeOK
    <3>3. /\ StatusOf(f) \in Status
          /\ r.filled \in Nat /\ r.ack \in Nat /\ f \in 0 .. Quantity /\ r.filled <= f
          /\ r.status \in Status /\ r.status \notin ClosedStatus
      BY <1>2, <2>3 DEF ExchangeFills, Request, StatusOf, Status, OpenStatus, ClosedStatus
    <3>4. f = Quantity <=> StatusOf(f) = "FILLED"
      BY <3>3 DEF StatusOf
    <3>5. q \in Request /\ q.status = StatusOf(f) /\ q.filled = f /\ q.ack = r.ack
      BY <1>2, <3>3 DEF Request
    <3>6. r.ack <= f
      BY <1>2, <3>3 DEF EntryOK
    <3>7. EntryOK(q) /\ Follows(r, q)
      BY <3>3, <3>4, <3>5, <3>6 DEF EntryOK, Follows
    <3>8. QED
      BY <3>2, <3>5, <3>7
  <2>4. CASE ExchangeCloses(o, a)
    <3>1. PICK s \in {"CANCELED", "EXPIRED", "REJECTED"} :
            book' = [book EXCEPT ![o][a] = [r EXCEPT !.status = s]]
      BY <2>4 DEF ExchangeCloses
    <3>2. r.status \in OpenStatus
      BY <2>4 DEF ExchangeCloses
    <3>3. QED
      BY <1>2, <3>1, <3>2, CanceledFollows
  <2>5. QED
    BY <1>1, <2>1, <2>2, <2>3, <2>4
<1>4. UNCHANGED <<ostate, filled, xid, retry, answer, lock, pc, target>>
  BY DEF ExchangeStep
<1>5. \A p \in Order : /\ OrderOK(p)'
                       /\ xid[p] # NoId /\ AnswerOK(p) => AnswerOK(p)'
  BY <1>3, <1>4, BookKeeps
<1>6. ASSUME NEW t \in Task
      PROVE  TaskOK(t)'
  <2>1. PICK p \in Order : p = target[t]
    BY DEF IInv, TypeOK
  <2>2. TaskOK(t)
    BY DEF IInv
  <2>3. pc[t] = "answered" => AnswerOK(p)'
    BY <1>5, <2>1, <2>2 DEF TaskOK, Asking
  <2>4. QED
    BY <1>4, <2>1, <2>2, <2>3 DEF TaskOK, AnswerOK
<1>7. QED
  BY <1>5, <1>6

\* Every outcome of a cancellation is a step of the lifecycle and keeps the invariant.
LEMMA CancelKeeps ==
  ASSUME IInv, NEW t \in Task, CancelWrites(t)
  PROVE  Writes(t)
<1> USE OrderAssumption, ManagerAssumption
<1>0. PICK o \in Order :
        /\ o = target[t]
        /\ OrderOK(o) /\ TaskOK(t)
        /\ ostate \in [Order -> OrderState \cup {"none"}]
        /\ xid[o] \in Attempt \cup {NoId}
  BY DEF IInv, TypeOK, LifeTypeOK
<1>1. AllowsCancel \subseteq Active /\ AllowsCancel \subseteq OrderState
  BY DEF AllowsCancel, Active, OrderState, Terminal
<1>2. ASSUME ostate[o] \in AllowsCancel, Mark(o, TransitionTo(ostate[o], "CANCELED", 0))
      PROVE  Advance(o) /\ ostate' = [ostate EXCEPT ![o] = "CANCELED"]
  <2>1. /\ ostate' = [ostate EXCEPT ![o] = "CANCELED"]
        /\ UNCHANGED <<filled, xid>>
    BY <1>2, Transitions DEF Mark
  <2>2. "CANCELED" \in ValidTransitions(ostate[o])
    BY <1>2 DEF ValidTransitions, AllowsCancel
  <2>3. "CANCELED" \in Reachable(ostate[o])
    BY <1>1, <1>2, <2>2, Reaches
  <2>4. QED
    BY <1>1, <1>2, <2>1, <2>3, StateAdvances
\* the entry of an order that is asked about
<1>3. ASSUME xid[o] # NoId
      PROVE  /\ xid[o] \in Attempt
             /\ book[o][xid[o]] \in Request /\ EntryOK(book[o][xid[o]])
  BY <1>0, <1>3 DEF IInv, TypeOK, OrderOK
<1>4. CASE CancelLocally(t)
  <2>1. /\ ostate[o] \in AllowsCancel /\ xid[o] = NoId /\ filled[o] = 0
        /\ lock = "free" /\ UNCHANGED book
    BY <1>0, <1>4 DEF CancelLocally, OrderOK
  <2>2. /\ Advance(o) /\ UNCHANGED <<filled, xid>>
        /\ ostate' = [ostate EXCEPT ![o] = "CANCELED"]
    BY <1>0, <1>2, <1>4 DEF CancelLocally, Mark
  <2>3. OrderOK(o)' /\ Only(o)
    BY <1>0, <2>1, <2>2, UnknownOK DEF OrderOK, Only
  <2>4. Own(t) /\ TaskOK(t)'
    BY <1>4, ControlOwn DEF CancelLocally, TaskOK, Holding, Submitting, Asking
  <2>5. QED
    BY <1>0, <2>1, <2>2, <2>3, <2>4, OnlyKeeps DEF Writes, LifeNext
<1>5. CASE CancelSucceeds(t)
  <2> DEFINE r == book[o][xid[o]]
             q == [r EXCEPT !.status = "CANCELED"]
  <2>1. ostate[o] \in AllowsCancel /\ xid[o] # NoId /\ lock = t
    BY <1>0, <1>5 DEF CancelSucceeds, TaskOK, Holding, Asking
  <2>2. r.status \in OpenStatus /\ book' = [book EXCEPT ![o][xid[o]] = q]
    BY <1>0, <1>5 DEF CancelSucceeds
  <2>3. q \in Request /\ EntryOK(q) /\ Follows(r, q)
    BY <1>3, <2>1, <2>2, CanceledFollows
  <2>4. /\ Advance(o) /\ UNCHANGED <<filled, xid>>
        /\ ostate' = [ostate EXCEPT ![o] = "CANCELED"]
    BY <1>0, <1>2, <1>5, <2>1 DEF CancelSucceeds, Mark
  <2>5. \A p \in Order : /\ ostate'[p] = ostate[p] => OrderOK(p)'
                         /\ \A b \in Attempt : EntryOK(book'[p][b])
    BY <1>3, <2>1, <2>2, <2>3, <2>4, BookKeeps
  <2>6. OrderOK(o)'
    <3>1. /\ book'[o][xid[o]] = q /\ ostate'[o] = "CANCELED"
          /\ xid'[o] = xid[o] /\ filled'[o] = filled[o]
      BY <1>0, <1>3, <2>1, <2>2, <2>4 DEF IInv, TypeOK
    <3>2. q.status = "CANCELED" /\ q.filled = r.filled
      BY <1>3, <2>1 DEF Request
    <3>3. filled[o] <= r.filled
      BY <1>0, <2>1 DEF OrderOK
    <3>4. \A b \in Attempt : EntryOK(book'[o][b])
      BY <2>5
    <3>5. "CANCELED" \in Status /\ "CANCELED" \in ClosedStatus
      BY DEF Status, ClosedStatus
    <3>6. QED
      BY <2>1, <3>1, <3>2, <3>3, <3>4, <3>5 DEF OrderOK
  <2>7. \A p \in Order : OrderOK(p)'
    <3>1. \A p \in Order \ {o} : ostate'[p] = ostate[p]
      BY <1>0, <2>4
    <3>2. QED
      BY <2>5, <2>6, <3>1
  <2>8. Own(t) /\ TaskOK(t)'
    BY <1>5, ControlOwn DEF CancelSucceeds, TaskOK, Holding, Submitting, Asking
  <2>9. QED
    BY <1>0, <2>1, <2>4, <2>7, <2>8 DEF Writes, LifeNext
<1>6. CASE CancelFails(t)
  <2>1. ostate[o] \in Active /\ xid[o] # NoId /\ lock = t
    BY <1>0, <1>6 DEF CancelFails, TaskOK, Holding, Asking
  <2>2. /\ UNCHANGED <<ostate, filled, xid>>
        /\ Own(t) /\ pc'[t] = "querying" /\ target' = target /\ lock' = lock
    BY <1>6, ControlOwn DEF CancelFails, TaskPC, Holding, Asking, Goto
  <2>3. TaskOK(t)'
    BY <1>0, <2>1, <2>2 DEF TaskOK, Holding, Submitting, Asking
  <2>4. \A p \in Order : OrderOK(p)'
    <3>1. CASE UNCHANGED book
      BY <2>2, <3>1 DEF IInv, OrderOK, EntryOK
    <3>2. CASE /\ book[o][xid[o]].status \in OpenStatus
               /\ book' = [book EXCEPT ![o][xid[o]].status = "CANCELED"]
      <4> DEFINE r == book[o][xid[o]]
                 q == [r EXCEPT !.status = "CANCELED"]
      <4>1. q \in Request /\ EntryOK(q) /\ Follows(r, q)
        BY <1>3, <2>1, <3>2, CanceledFollows
      <4>2. book' = [book EXCEPT ![o][xid[o]] = q]
        BY <3>2
      <4>3. QED
        BY <1>3, <2>1, <2>2, <4>1, <4>2, BookKeeps
    <3>3. QED
      BY <1>0, <1>6, <3>1, <3>2 DEF CancelFails
  <2>5. QED
    BY <2>1, <2>2, <2>3, <2>4 DEF Writes, lifeVars
<1>7. QED
  BY <1>4, <1>5, <1>6 DEF CancelWrites

\* Where a consistent answer leads an active order.
LEMMA SyncedFacts ==
  ASSUME NEW s \in Active, NEW status \in Status, NEW f \in 0 .. Quantity,
         f = Quantity <=> status = "FILLED",
         s = "PARTIALLY_FILLED" => f > 0
  PROVE  LET n == SyncedState(s, status, f)
         IN  /\ n \in Reachable(s)
             /\ n = "COMPLETED" => status = "FILLED"
             /\ n = "PARTIALLY_FILLED" => 0 < f /\ f < Quantity
             /\ n \in Terminal => status \in ClosedStatus
             /\ n # "none"
<1> USE OrderAssumption
<1> DEFINE n == SyncedState(s, status, f)
<1>1. s \in OrderState /\ s \notin Terminal /\ s # "none"
  BY DEF Active, OrderState
<1>2. s \in Reachable(s) /\ ValidTransitions(s) \subseteq Reachable(s)
  BY <1>1, Reaches
<1>3. CASE n = s
  <2>1. s = "PARTIALLY_FILLED" => f < Quantity
    <3>1. CASE status # "FILLED"
      BY <3>1
    <3>2. CASE status = "FILLED" /\ s = "PARTIALLY_FILLED"
      <4>1. n = "COMPLETED"
        BY <3>2, Transitions DEF SyncedState
      <4>2. QED
        BY <1>3, <3>2, <4>1
    <3>3. QED
      BY <3>1, <3>2
  <2>2. s # "COMPLETED"
    BY <1>1 DEF Terminal
  <2>3. QED
    BY <1>1, <1>2, <1>3, <2>1, <2>2
<1>4. CASE status = "FILLED"
  <2>1. CASE s \in {"SUBMITTED", "PARTIALLY_FILLED"}
    <3>1. n = "COMPLETED"
      BY <1>4, <2>1, Transitions DEF SyncedState
    <3>2. QED
      BY <1>4, <2>1, <3>1, Reaches DEF ClosedStatus
  <2>2. CASE s \notin {"SUBMITTED", "PARTIALLY_FILLED"}
    <3>1. s \in {"PENDING_VALIDATION", "PENDING_SUBMISSION"}
      BY <1>1, <2>2 DEF OrderState, Terminal
    <3>2. /\ "FILLED" \notin ValidTransitions(s)
          /\ "COMPLETED" \notin ValidTransitions(s)
      BY <3>1 DEF ValidTransitions
    <3>3. n = s
      BY <1>4, <3>2 DEF SyncedState, MarkFilled, TransitionTo
    <3>4. QED
      BY <1>3, <3>3
  <2>3. QED
    BY <2>1, <2>2
<1>5. CASE status = "NEW"
  BY <1>3, <1>5 DEF SyncedState
<1>6. CASE status \in {"PARTIALLY_FILLED", "CANCELED", "EXPIRED", "REJECTED"} /\ n # s
  <2>1. n = TransitionTo(s, status, f)
    BY <1>6 DEF SyncedState
  <2>2. n = status /\ status \in ValidTransitions(s) /\ ValidForState(status, f)
    BY <1>6, <2>1 DEF TransitionTo
  <2>3. n = "PARTIALLY_FILLED" => 0 < f /\ f < Quantity
    BY <2>2 DEF ValidForState
  <2>4. n \in Terminal => status \in ClosedStatus
    BY <1>6, <2>2 DEF Terminal, ClosedStatus
  <2>5. n # "COMPLETED" /\ n # "none"
    BY <1>6, <2>2
  <2>6. QED
    BY <1>2, <2>2, <2>3, <2>4, <2>5
<1>7. QED
  BY <1>3, <1>4, <1>5, <1>6 DEF Status, OpenStatus, ClosedStatus

\* An answer, however old, is a step of the lifecycle and keeps the invariant.
LEMMA QueryKeeps ==
  ASSUME IInv, NEW t \in Task, QueryWrites(t)
  PROVE  Writes(t)
<1> USE OrderAssumption, ManagerAssumption
<1>0. PICK o \in Order :
        /\ o = target[t]
        /\ OrderOK(o) /\ TaskOK(t)
        /\ ostate \in [Order -> OrderState \cup {"none"}]
        /\ filled \in [Order -> 0 .. Quantity]
        /\ xid \in [Order -> Attempt \cup {NoId}]
  BY DEF IInv, TypeOK, LifeTypeOK
<1> DEFINE r == book[o][xid[o]]
<1>1. /\ ostate[o] \in Active /\ xid[o] # NoId /\ lock = t
      /\ r \in Request /\ EntryOK(r)
      /\ r.status \in Status /\ filled[o] <= r.filled
  <2>1. pc[t] \in Asking
    BY DEF QueryWrites, QueryAnswered, QueryApplied, Asking
  <2>2. ostate[o] \in Active /\ xid[o] # NoId /\ lock = t
    BY <1>0, <2>1 DEF TaskOK, Holding
  <2>3. xid[o] \in Attempt
    BY <1>0, <2>2
  <2>4. r \in Request
    BY <2>3 DEF IInv, TypeOK
  <2>5. QED
    BY <1>0, <2>2, <2>3, <2>4 DEF OrderOK
<1>2. CASE QueryAnswered(t)
  <2>1. /\ answer' = [status |-> r.status, filled |-> r.filled]
        /\ UNCHANGED <<ostate, filled, xid, retry, book>>
    BY <1>0, <1>2 DEF QueryAnswered
  <2>2. Own(t) /\ pc'[t] = "answered" /\ target' = target /\ lock' = lock
    BY <1>2, ControlOwn DEF QueryAnswered, TaskPC, Holding, Asking, Goto
  <2>3. r.filled <= r.filled /\ (r.filled = Quantity <=> r.status = "FILLED")
    BY <1>1 DEF EntryOK, Request
  <2>4. AnswerOK(o)'
    BY <1>1, <2>1, <2>3 DEF AnswerOK
  <2>5. TaskOK(t)'
    BY <1>0, <1>1, <2>1, <2>2, <2>4 DEF TaskOK, AnswerOK, Holding, Submitting, Asking
  <2>6. \A p \in Order : OrderOK(p)'
    BY <2>1 DEF IInv, OrderOK, EntryOK
  <2>7. QED
    BY <1>1, <2>1, <2>2, <2>5, <2>6 DEF Writes, lifeVars
<1>3. CASE QueryApplied(t)
  <2> DEFINE f == answer.filled
             s == SyncedState(ostate[o], answer.status, f)
  <2>1. /\ answer.status \in Status /\ f \in 0 .. Quantity
        /\ filled[o] <= f /\ f <= r.filled
        /\ f = Quantity <=> answer.status = "FILLED"
        /\ answer.status \in ClosedStatus => r.status = answer.status
    BY <1>0, <1>3 DEF QueryApplied, TaskOK, AnswerOK, IInv, TypeOK
  <2>2. /\ ostate' = [ostate EXCEPT ![o] = s]
        /\ filled' = [filled EXCEPT ![o] = f]
        /\ UNCHANGED <<xid, book>>
    BY <1>0, <1>3 DEF QueryApplied
  <2>3. ostate[o] = "PARTIALLY_FILLED" => f > 0
    BY <1>0, <2>1 DEF OrderOK
  <2>4. /\ s \in Reachable(ostate[o])
        /\ s = "COMPLETED" => answer.status = "FILLED"
        /\ s = "PARTIALLY_FILLED" => 0 < f /\ f < Quantity
        /\ s \in Terminal => answer.status \in ClosedStatus
        /\ s # "none"
    BY <1>1, <2>1, <2>3, SyncedFacts
  <2> HIDE DEF s
  <2>5. OrderOK(o)'
    <3>1. /\ ostate'[o] = s /\ filled'[o] = f /\ xid'[o] = xid[o] /\ book'[o] = book[o]
      BY <1>0, <2>2
    <3>2. /\ s \in Terminal => r.status \in ClosedStatus
          /\ s = "COMPLETED" => r.status = "FILLED"
      BY <2>1, <2>4 DEF ClosedStatus
    <3>3. \A a \in Attempt : EntryOK(book'[o][a])
      BY <1>0, <3>1 DEF OrderOK
    <3>4. QED
      BY <1>1, <2>1, <2>4, <3>1, <3>2, <3>3 DEF OrderOK, EntryOK
  <2>6. Only(o)
    BY <2>2 DEF Only
  <2>7. Own(t) /\ TaskOK(t)'
    BY <1>3, ControlOwn DEF QueryApplied, TaskOK, Holding, Submitting, Asking
  <2>8. Advance(o)
    <3>1. /\ f \in filled[o] .. Quantity
          /\ xid[o] \in ExchangeId \cup {NoId}
          /\ xid' = [xid EXCEPT ![o] = xid[o]]
      BY <1>0, <2>1, <2>2
    <3>2. s = "COMPLETED" => f = Quantity
      BY <2>1, <2>4
    <3>3. QED
      BY <1>1, <2>2, <2>4, <3>1, <3>2 DEF Advance
  <2>9. QED
    BY <1>0, <1>1, <2>5, <2>6, <2>7, <2>8, OnlyKeeps DEF Writes, LifeNext
<1>4. QED
  BY <1>2, <1>3 DEF QueryWrites

-------------------------------------------------------------------------------
(* Every step *)

\* What every step is shown to do.
Sound == IInv' /\ [LifeNext]_lifeVars

\* A step that writes no order, of a task that is left in no request.
LEMMA StepAside ==
  ASSUME IInv, NEW t \in Task, Own(t), TaskOK(t)', TypeOK',
         UNCHANGED <<ostate, filled, xid, retry, book>>,
         UNCHANGED answer \/ lock \in {"free", t}
  PROVE  Sound
<1>1. \A u \in Task \ {t} : TaskOK(u)'
  BY OthersKept DEF dataVars
<1>2. \A p \in Order : OrderOK(p)'
  BY DEF IInv, OrderOK, EntryOK
<1>3. QED
  BY <1>1, <1>2 DEF Sound, IInv, lifeVars

\* A task that is ended where it awaits, by a timeout or by stop().
LEMMA AbortKeeps ==
  ASSUME IInv, NEW t \in Task, Abort(t),
         UNCHANGED <<succeeded, halted>>, running' \in BOOLEAN
  PROVE  Sound
<1>1. TypeOK'
  BY OrderAssumption DEF Abort, IInv, TypeOK, LifeTypeOK, TaskPC, NoAnswer
<1>2. Own(t) /\ TaskOK(t)'
  BY ControlOwn DEF TaskOK, Holding, Submitting, Asking
<1>3. /\ UNCHANGED <<ostate, filled, xid, retry, book>>
      /\ UNCHANGED answer \/ lock = t
  BY DEF Abort
<1>4. QED
  BY <1>1, <1>2, <1>3, StepAside

\* A step that changes neither tasks nor orders.
LEMMA SwitchKeeps ==
  ASSUME IInv, UNCHANGED <<dataVars, lock, pc, target, todo, succeeded>>,
         running' \in BOOLEAN, halted' \in BOOLEAN
  PROVE  Sound
<1>1. TypeOK'
  BY DEF IInv, TypeOK, LifeTypeOK, dataVars
<1>2. \A p \in Order : OrderOK(p)'
  BY DEF IInv, OrderOK, EntryOK, dataVars
<1>3. \A t \in Task : TaskOK(t)'
  BY DEF IInv, TaskOK, AnswerOK, dataVars
<1>4. QED
  BY <1>1, <1>2, <1>3 DEF Sound, IInv, lifeVars, dataVars

\* The next-state relation, grouped as the lemmas above are.
LEMMA Groups ==
  ASSUME Next
  PROVE  \/ ExchangeStep
         \/ \E t \in Task : MoveStep(t) \/ WriteStep(t) \/ CallAborts(t)
         \/ ReconWakes \/ Start \/ Stop \/ HaltChanges
<1>1. Caller \subseteq Task
  BY DEF Task
<1>2. ASSUME NEW t \in Caller, CallStep(t)
      PROVE  MoveStep(t) \/ WriteStep(t) \/ CallAborts(t)
  BY <1>2
  DEF CallStep, SubmitEnds, MoveStep, WriteStep, SubmitWrites, CancelWrites
<1>3. ASSUME NEW t \in Task, SyncStep(t)
      PROVE  MoveStep(t) \/ WriteStep(t)
  BY <1>3 DEF SyncStep, MoveStep, WriteStep, QueryWrites
<1>4. QED
  BY <1>1, <1>2, <1>3 DEF Next

\* Writing steps leave running and halted alone.
LEMMA WriteFrame ==
  ASSUME NEW t \in Task, WriteStep(t)
  PROVE  UNCHANGED <<running, halted>>
  BY DEF WriteStep, SubmitWrites, CancelWrites, QueryWrites, SubmitInvalid, SubmitValid,
         SubmitAccepted, SubmitGivesUp, Resubmit, ResubmitHalted, CancelLocally,
         CancelSucceeds, CancelFails, QueryAnswered, QueryApplied

\* From the invariant, every step keeps it and is a step of the lifecycle.
LEMMA StepSound == IInv /\ [Next]_vars => Sound
<1> SUFFICES ASSUME IInv, [Next]_vars
             PROVE  Sound
  OBVIOUS
<1>1. CASE ExchangeStep
  <2>1. TypeOK'
    BY <1>1, ExchangeTypeStep DEF IInv
  <2>2. UNCHANGED lifeVars
    BY <1>1 DEF ExchangeStep, lifeVars
  <2>3. QED
    BY <1>1, <2>1, <2>2, ExchangeKeeps DEF Sound, IInv
<1>2. ASSUME NEW t \in Task, MoveStep(t)
      PROVE  Sound
  <2>1. ControlOK /\ UNCHANGED <<dataVars, running, halted>>
    BY <1>2, MoveTypes DEF IInv
  <2>2. TypeOK'
    BY <2>1 DEF IInv, TypeOK, LifeTypeOK, ControlOK, dataVars
  <2>3. QED
    BY <1>2, <2>1, <2>2, MoveKeeps, StepAside DEF dataVars
<1>3. ASSUME NEW t \in Task, WriteStep(t)
      PROVE  Sound
  <2>1. ControlOK /\ DataOK
    BY <1>3, SubmitTypes, CancelTypes, QueryTypes DEF WriteStep
  <2>2. TypeOK'
    BY <1>3, <2>1, WriteFrame DEF IInv, TypeOK, ControlOK, DataOK
  <2>3. Writes(t)
    BY <1>3, SubmitKeeps, CancelKeeps, QueryKeeps DEF WriteStep
  <2>4. \A u \in Task \ {t} : TaskOK(u)'
    BY <2>3, OthersKept DEF Writes
  <2>5. QED
    BY <2>2, <2>3, <2>4 DEF Writes, Sound, IInv
<1>4. ASSUME NEW t \in Task, CallAborts(t)
      PROVE  Sound
  <2>1. running' \in BOOLEAN
    BY <1>4 DEF CallAborts, IInv, TypeOK
  <2>2. QED
    BY <1>4, <2>1, AbortKeeps DEF CallAborts
<1>5. CASE Stop
  <2>1. Recon \in Task
    BY DEF Task
  <2>2. QED
    BY <1>5, <2>1, AbortKeeps DEF Stop
<1>6. CASE ReconWakes
  <2>1. Recon \in Task
    BY DEF Task
  <2>2. TypeOK'
    BY <1>6, <2>1 DEF ReconWakes, IInv, TypeOK, LifeTypeOK, TaskPC
  <2>3. Own(Recon) /\ TaskOK(Recon)'
    BY <1>6, <2>1
    DEF ReconWakes, IInv, TypeOK, Own, TaskOK, Holding, Submitting, Asking
  <2>4. QED
    BY <1>6, <2>1, <2>2, <2>3, StepAside DEF ReconWakes
<1>7. CASE Start \/ HaltChanges
  BY <1>7, SwitchKeeps DEF Start, HaltChanges, IInv, TypeOK, dataVars
<1>8. CASE UNCHANGED vars
  BY <1>8, SwitchKeeps DEF vars, IInv, TypeOK, dataVars
<1>9. QED
  BY <1>1, <1>2, <1>3, <1>4, <1>5, <1>6, <1>7, <1>8, Groups

\* The invariant holds of a service that was just started.
LEMMA InitSound == Init => IInv
<1> SUFFICES ASSUME Init
             PROVE  IInv
  OBVIOUS
<1> USE OrderAssumption, ManagerAssumption
<1>1. TypeOK
  <2>1. LifeTypeOK
    BY DEF Init, LifeInit, LifeTypeOK
  <2>2. Unsent \in Request /\ 0 \in Attempt
    BY DEF Unsent, Request, Attempt
  <2>3. answer \in [status : Status \cup {"none"}, filled : 0 .. Quantity]
    BY DEF Init, NoAnswer
  <2>4. QED
    BY <2>1, <2>2, <2>3 DEF Init, TypeOK, TaskPC
<1>2. \A o \in Order : OrderOK(o)
  BY DEF Init, LifeInit, OrderOK, EntryOK, Unsent, Status, OpenStatus, ClosedStatus
<1>3. \A t \in Task : TaskOK(t)
  BY DEF Init, TaskOK, Holding, Submitting, Asking
<1>4. QED
  BY <1>1, <1>2, <1>3 DEF IInv

\* The invariant holds whatever the callers, the exchange and the event loop do.
LEMMA Invariant == Spec => []IInv
<1>1. IInv /\ [Next]_vars => IInv'
  BY StepSound DEF Sound
<1>2. QED
  BY <1>1, InitSound, PTL DEF Spec

-------------------------------------------------------------------------------
(* Who sends requests *)

\* A change of one entry of the book that had been sent sends nothing.
LEMMA EntrySendsNothing ==
  ASSUME IInv, NEW p \in Order, NEW b \in Attempt, NEW q,
         book' = [book EXCEPT ![p][b] = q], book[p][b].status # "unsent",
         NEW o \in Order
  PROVE  ~Sends(o)
  BY DEF IInv, TypeOK, Sends

\* A request is sent by a first attempt or by a retry, for the task's own order.
LEMMA WhoSends ==
  ASSUME IInv, [Next]_vars, NEW o \in Order, Sends(o)
  PROVE  \E t \in Task : o = target[t] /\ (SubmitValid(t) \/ Resubmit(t))
<1>1. book' # book
  BY DEF Sends
<1>2. CASE ExchangeStep
  <2>1. PICK p \in Order, b \in Attempt :
          \/ ExchangeAccepts(p, b) \/ ExchangeRefuses(p, b)
          \/ ExchangeFills(p, b) \/ ExchangeCloses(p, b)
    BY <1>2 DEF ExchangeStep
  <2>2. book[p][b].status # "unsent"
    BY <2>1 DEF ExchangeAccepts, ExchangeRefuses, ExchangeFills, ExchangeCloses, OpenStatus
  <2>3. \E q : book' = [book EXCEPT ![p][b] = q]
    <3>1. CASE ExchangeAccepts(p, b)
      BY <3>1 DEF ExchangeAccepts
    <3>2. CASE ExchangeRefuses(p, b)
      BY <3>2 DEF ExchangeRefuses
    <3>3. CASE ExchangeFills(p, b)
      <4>1. PICK f : book' = [book EXCEPT ![p][b].filled = f, ![p][b].status = StatusOf(f)]
        BY <3>3 DEF ExchangeFills
      <4>2. book' = [book EXCEPT ![p][b] = [book[p][b] EXCEPT !.filled = f, !.status = StatusOf(f)]]
        BY <4>1 DEF IInv, TypeOK
      <4>3. QED
        BY <4>2
    <3>4. CASE ExchangeCloses(p, b)
      BY <3>4 DEF ExchangeCloses
    <3>5. QED
      BY <2>1, <3>1, <3>2, <3>3, <3>4
  <2>4. QED
    BY <2>2, <2>3, EntrySendsNothing
<1>3. ASSUME NEW t \in Task, WriteStep(t)
      PROVE  o = target[t] /\ (SubmitValid(t) \/ Resubmit(t))
  <2>1. ASSUME NEW p \in Order, p = target[t], pc[t] = "canceling",
               book[p][xid[p]].status \in OpenStatus,
               book' = [book EXCEPT ![p][xid[p]].status = "CANCELED"]
        PROVE  FALSE
    <3>1. xid[p] \in Attempt
      <4>1. xid[p] # NoId
        BY <2>1 DEF IInv, TaskOK, Asking
      <4>2. QED
        BY <4>1, ManagerAssumption DEF IInv, TypeOK, LifeTypeOK
    <3>2. book[p][xid[p]].status # "unsent"
      BY <2>1 DEF OpenStatus
    <3>3. book' = [book EXCEPT ![p][xid[p]] = [book[p][xid[p]] EXCEPT !.status = "CANCELED"]]
      BY <2>1
    <3>4. QED
      BY <3>1, <3>2, <3>3, EntrySendsNothing
  <2>2. target[t] \in Order
    BY DEF IInv, TypeOK
  <2>3. ~CancelSucceeds(t) /\ ~CancelFails(t)
    BY <1>1, <2>1, <2>2 DEF CancelSucceeds, CancelFails
  <2>4. SubmitValid(t) \/ Resubmit(t)
    BY <1>1, <1>3, <2>3
    DEF WriteStep, SubmitWrites, CancelWrites, QueryWrites, SubmitInvalid, SubmitAccepted,
        SubmitGivesUp, ResubmitHalted, CancelLocally, QueryAnswered, QueryApplied
  <2>5. \E a : Send(target[t], a)
    BY <2>4 DEF SubmitValid, Resubmit
  <2>6. o = target[t]
    BY <2>2, <2>5 DEF Send, Sends, IInv, TypeOK
  <2>7. QED
    BY <2>4, <2>6
<1>4. ASSUME NEW t \in Task, MoveStep(t)
      PROVE  FALSE
  BY <1>1, <1>4, MoveTypes DEF IInv, dataVars
<1>5. ASSUME NEW t \in Task, CallAborts(t)
      PROVE  FALSE
  BY <1>1, <1>5 DEF CallAborts, Abort
<1>6. CASE ReconWakes \/ Start \/ Stop \/ HaltChanges \/ UNCHANGED vars
  BY <1>1, <1>6 DEF ReconWakes, Start, Stop, Abort, HaltChanges, vars
<1>7. QED
  BY <1>2, <1>3, <1>4, <1>5, <1>6, Groups

-------------------------------------------------------------------------------
(* How long a call takes *)

\* The steps an order of a batch may still take in each place of the batch.
InBatch == [batch |-> 1, answered |-> 2, querying |-> 3, canceling |-> 4,
            wantCancel |-> 5, wantSync |-> 5]

\* The attempts left, two steps each, and the orders left, at most six steps each.
StepsLeft(t) ==
    CASE pc[t] = "idle" -> 0
      [] pc[t] = "fetching" -> 2 * MaxRetries + 4
      [] pc[t] = "wantSubmit" -> 2 * MaxRetries + 3
      [] pc[t] = "sending" -> 2 * (MaxRetries - retry[target[t]]) + 2
      [] pc[t] = "backoff" -> 2 * (MaxRetries - retry[target[t]]) + 1
      [] pc[t] = "wantAll" -> 6 * Cardinality(Order) + 2
      [] pc[t] \in DOMAIN InBatch -> 6 * Cardinality(todo[t]) + InBatch[pc[t]]

CallLength == 6 * Cardinality(Order) + 2 * MaxRetries + 5
CallsBounded == \A t \in Task : StepsLeft(t) \in 0 .. CallLength

\* Each step a call takes brings it nearer to its end, and no other task's step
\* takes it further away.
Advances(t) ==
    pc[t] # "idle" =>
        IF pc'[t] = pc[t] THEN StepsLeft(t)' = StepsLeft(t)
        ELSE StepsLeft(t)' < StepsLeft(t)
CallsAdvance == [][\A t \in Task : Advances(t)]_vars

\* The attempts and the orders a task has left are natural numbers.
LEMMA Counts ==
  ASSUME IsFiniteSet(Order), TypeOK, NEW t \in Task
  PROVE  /\ MaxRetries \in Nat /\ Cardinality(Order) \in Nat
         /\ retry[target[t]] \in 0 .. MaxRetries
         /\ IsFiniteSet(todo[t]) /\ Cardinality(todo[t]) \in 0 .. Cardinality(Order)
<1>1. todo[t] \in SUBSET Order /\ target[t] \in Order
  BY DEF TypeOK
<1>2. IsFiniteSet(todo[t]) /\ Cardinality(todo[t]) <= Cardinality(Order)
  BY <1>1, FS_Subset
<1>3. Cardinality(todo[t]) \in Nat /\ Cardinality(Order) \in Nat
  BY <1>2, FS_CardinalityType
<1>4. QED
  BY <1>1, <1>2, <1>3, ManagerAssumption DEF TypeOK, Attempt

\* What is left of a call in each place.
LEMMA StepsLeftIs ==
  ASSUME NEW t \in Task
  PROVE  /\ pc[t] = "idle" => StepsLeft(t) = 0
         /\ pc[t] = "fetching" => StepsLeft(t) = 2 * MaxRetries + 4
         /\ pc[t] = "wantSubmit" => StepsLeft(t) = 2 * MaxRetries + 3
         /\ pc[t] = "sending" => StepsLeft(t) = 2 * (MaxRetries - retry[target[t]]) + 2
         /\ pc[t] = "backoff" => StepsLeft(t) = 2 * (MaxRetries - retry[target[t]]) + 1
         /\ pc[t] = "wantAll" => StepsLeft(t) = 6 * Cardinality(Order) + 2
         /\ pc[t] = "batch" => StepsLeft(t) = 6 * Cardinality(todo[t]) + 1
         /\ pc[t] = "answered" => StepsLeft(t) = 6 * Cardinality(todo[t]) + 2
         /\ pc[t] = "querying" => StepsLeft(t) = 6 * Cardinality(todo[t]) + 3
         /\ pc[t] = "canceling" => StepsLeft(t) = 6 * Cardinality(todo[t]) + 4
         /\ pc[t] \in {"wantCancel", "wantSync"} => StepsLeft(t) = 6 * Cardinality(todo[t]) + 5
  BY DEF StepsLeft, InBatch

\* The same of the place the task is in after a step.
LEMMA StepsLeftNext ==
  ASSUME NEW t \in Task
  PROVE  /\ pc'[t] = "idle" => StepsLeft(t)' = 0
         /\ pc'[t] = "wantSubmit" => StepsLeft(t)' = 2 * MaxRetries + 3
         /\ pc'[t] = "sending" => StepsLeft(t)' = 2 * (MaxRetries - retry'[target'[t]]) + 2
         /\ pc'[t] = "backoff" => StepsLeft(t)' = 2 * (MaxRetries - retry'[target'[t]]) + 1
         /\ pc'[t] = "batch" => StepsLeft(t)' = 6 * Cardinality(todo'[t]) + 1
         /\ pc'[t] = "answered" => StepsLeft(t)' = 6 * Cardinality(todo'[t]) + 2
         /\ pc'[t] = "querying" => StepsLeft(t)' = 6 * Cardinality(todo'[t]) + 3
         /\ pc'[t] = "canceling" => StepsLeft(t)' = 6 * Cardinality(todo'[t]) + 4
         /\ pc'[t] \in {"wantCancel", "wantSync"} =>
                StepsLeft(t)' = 6 * Cardinality(todo'[t]) + 5
  BY DEF StepsLeft, InBatch

\* No call has more steps to take than CallLength.
LEMMA BoundedByLength ==
  ASSUME IsFiniteSet(Order), TypeOK
  PROVE  CallsBounded
<1> SUFFICES ASSUME NEW t \in Task PROVE StepsLeft(t) \in 0 .. CallLength
  BY DEF CallsBounded
<1>1. pc[t] \in TaskPC
  BY DEF TypeOK
<1>2. QED
  BY <1>1, Counts, StepsLeftIs DEF TaskPC, CallLength

\* A step by t leaves another call as long as it was.
LEMMA OthersWait ==
  ASSUME IInv, NEW t \in Task, Own(t), NEW u \in Task \ {t}, todo'[u] = todo[u],
         UNCHANGED retry \/ lock \in {"free", t}
  PROVE  Advances(u)
<1>1. pc'[u] = pc[u] /\ target'[u] = target[u]
  BY DEF Own
<1>2. pc[u] \in Submitting => retry' = retry
  BY FreeIsNoTask DEF IInv, TaskOK, Holding
<1>3. StepsLeft(u)' = StepsLeft(u)
  <2>1. CASE pc[u] \in Submitting
    BY <1>1, <1>2, <2>1 DEF StepsLeft
  <2>2. CASE pc[u] \notin Submitting
    BY <1>1, <2>2, StepsLeftIs, StepsLeftNext DEF StepsLeft, Submitting
  <2>3. QED
    BY <2>1, <2>2
<1>4. QED
  BY <1>1, <1>3 DEF Advances

\* Only the acting task's list of orders changes.
LEMMA ListsKept ==
  ASSUME TypeOK, NEW t \in Task, MoveStep(t) \/ WriteStep(t) \/ Abort(t), NEW u \in Task \ {t}
  PROVE  todo'[u] = todo[u]
<1>1. CASE MoveStep(t)
  <2>1. CASE BatchNext(t)
    BY <2>1 DEF BatchNext, TypeOK
  <2>2. CASE CancelAllLists(t)
    BY <2>2 DEF CancelAllLists, TypeOK
  <2>3. CASE ~BatchNext(t) /\ ~CancelAllLists(t)
    BY <1>1, <2>3
    DEF MoveStep, Execute, Cancel, CancelAll, Fetched, SubmitDuplicate, SubmitRetries,
        CancelRefused, CancelAsks, SyncSkips, SyncAsks, QueryFails, Goto, Return, ReturnSubmit
  <2>4. QED
    BY <2>1, <2>2, <2>3
<1>2. CASE WriteStep(t)
  BY <1>2
  DEF WriteStep, SubmitWrites, CancelWrites, QueryWrites, SubmitInvalid, SubmitValid,
      SubmitAccepted, SubmitGivesUp, Resubmit, ResubmitHalted, CancelLocally, CancelSucceeds,
      CancelFails, QueryAnswered, QueryApplied, Goto, Return, ReturnSubmit
<1>3. CASE Abort(t)
  BY <1>3 DEF Abort, TypeOK
<1>4. QED
  BY <1>1, <1>2, <1>3

\* A call that returns is over, or goes on with a shorter batch than it had steps left.
LEMMA ReturnAdvances ==
  ASSUME IsFiniteSet(Order), TypeOK, NEW t \in Task, pc[t] # "idle"
  PROVE  /\ \A success : ReturnSubmit(t, success) => Advances(t)
         /\ Return(t) /\ pc[t] \in {"wantCancel", "wantSync", "canceling", "querying", "answered"}
                => Advances(t)
         /\ Abort(t) => Advances(t)
<1>1. StepsLeft(t) > 0
  <2>1. pc[t] \in TaskPC
    BY DEF TypeOK
  <2>2. QED
    BY <2>1, Counts, StepsLeftIs DEF TaskPC
<1>2. ASSUME pc'[t] = "idle" PROVE Advances(t)
  BY <1>1, <1>2, StepsLeftNext DEF Advances
<1>3. ASSUME NEW success, ReturnSubmit(t, success) PROVE Advances(t)
  BY <1>2, <1>3 DEF ReturnSubmit, TypeOK
<1>4. CASE Abort(t)
  BY <1>2, <1>4 DEF Abort, TypeOK
<1>5. ASSUME Return(t), pc[t] \in {"wantCancel", "wantSync", "canceling", "querying", "answered"}
      PROVE  Advances(t)
  <2>1. pc'[t] = (IF todo[t] = {} THEN "idle" ELSE "batch") /\ todo' = todo
    BY <1>5 DEF Return, TypeOK
  <2>2. pc'[t] = "batch" => StepsLeft(t)' = 6 * Cardinality(todo[t]) + 1
    BY <2>1, StepsLeftNext
  <2>3. \E k \in 2 .. 5 : StepsLeft(t) = 6 * Cardinality(todo[t]) + k
    BY <1>5, StepsLeftIs
  <2>4. pc'[t] = "batch" => StepsLeft(t)' < StepsLeft(t) /\ pc'[t] # pc[t]
    BY <1>5, <2>2, <2>3, Counts
  <2>5. QED
    BY <1>2, <2>1, <2>4 DEF Advances
<1>6. QED
  BY <1>3, <1>4, <1>5

\* A step of a task's own brings its call nearer to its end.
LEMMA OwnAdvances ==
  ASSUME IsFiniteSet(Order), IInv, NEW t \in Task, MoveStep(t) \/ WriteStep(t) \/ Abort(t)
  PROVE  Advances(t)
<1> SUFFICES ASSUME pc[t] # "idle" PROVE Advances(t)
  BY DEF Advances
<1> USE DEF IInv
<1>1. /\ pc \in [Task -> TaskPC] /\ todo \in [Task -> SUBSET Order]
      /\ target[t] \in Order /\ retry \in [Order -> Attempt]
  BY DEF TypeOK
<1>2. CASE Fetched(t) /\ ~(\E success : ReturnSubmit(t, success))
  <2>1. pc[t] = "fetching" /\ pc'[t] = "wantSubmit"
    BY <1>1, <1>2 DEF Fetched, Goto
  <2>2. QED
    BY <2>1, Counts, StepsLeftIs, StepsLeftNext DEF Advances
<1>3. CASE SubmitRetries(t)
  <2>1. pc[t] = "sending" /\ pc'[t] = "backoff" /\ target' = target /\ retry' = retry
    BY <1>1, <1>3 DEF SubmitRetries, Goto
  <2>2. QED
    BY <2>1, Counts, StepsLeftIs, StepsLeftNext DEF Advances
<1>4. CASE SubmitValid(t)
  <2>1. /\ pc[t] = "wantSubmit" /\ pc'[t] = "sending" /\ target' = target
        /\ retry'[target[t]] = 0
    BY <1>1, <1>4 DEF SubmitValid, Send
  <2>2. QED
    BY <2>1, Counts, StepsLeftIs, StepsLeftNext DEF Advances
<1>5. CASE Resubmit(t)
  <2>1. /\ pc[t] = "backoff" /\ pc'[t] = "sending" /\ target' = target
        /\ retry'[target[t]] = retry[target[t]] + 1
    BY <1>1, <1>5 DEF Resubmit, Send, Goto
  <2>2. QED
    BY <2>1, Counts, StepsLeftIs, StepsLeftNext DEF Advances
<1>6. CASE CancelAllLists(t)
  <2>1. pc[t] = "wantAll" /\ pc'[t] = "batch" /\ todo'[t] \in SUBSET Order
    BY <1>1, <1>6 DEF CancelAllLists
  <2>2. Cardinality(todo'[t]) \in 0 .. Cardinality(Order)
    BY <2>1, FS_Subset, FS_CardinalityType
  <2>3. QED
    BY <2>1, <2>2, Counts, StepsLeftIs, StepsLeftNext DEF Advances
<1>7. CASE BatchNext(t)
  <2>1. pc[t] = "batch"
    BY <1>7 DEF BatchNext
  <2>2. CASE pc'[t] = "idle"
    BY <2>1, <2>2, Counts, StepsLeftIs, StepsLeftNext DEF Advances
  <2>3. CASE \E o \in todo[t] : pc'[t] \in {"wantSync", "wantCancel"} /\ todo'[t] = todo[t] \ {o}
    <3>1. PICK o \in todo[t] : todo'[t] = todo[t] \ {o}
      BY <2>3
    <3>2. Cardinality(todo'[t]) = Cardinality(todo[t]) - 1
      BY <3>1, Counts, FS_RemoveElement
    <3>3. /\ StepsLeft(t) = 6 * Cardinality(todo[t]) + 1
          /\ StepsLeft(t)' = 6 * Cardinality(todo'[t]) + 5
      BY <2>1, <2>3, StepsLeftIs, StepsLeftNext
    <3>4. QED
      BY <2>1, <2>3, <3>2, <3>3, Counts DEF Advances
  <2>4. QED
    BY <1>1, <1>7, <2>2, <2>3 DEF BatchNext
<1>8. CASE CancelAsks(t) \/ SyncAsks(t) \/ CancelFails(t) \/ QueryAnswered(t)
  <2>1. /\ todo' = todo
        /\ \/ pc[t] = "wantCancel" /\ pc'[t] = "canceling"
           \/ pc[t] \in {"wantSync", "canceling"} /\ pc'[t] = "querying"
           \/ pc[t] = "querying" /\ pc'[t] = "answered"
    BY <1>1, <1>8 DEF CancelAsks, SyncAsks, CancelFails, QueryAnswered, Goto
  <2>2. QED
    BY <2>1, Counts, StepsLeftIs, StepsLeftNext DEF Advances
<1>9. CASE \E success : ReturnSubmit(t, success)
  BY <1>9, ReturnAdvances
<1>10. CASE Return(t) /\ \/ CancelRefused(t) \/ CancelLocally(t) \/ CancelSucceeds(t)
                         \/ SyncSkips(t) \/ QueryApplied(t) \/ QueryFails(t)
  <2>1. pc[t] \in {"wantCancel", "wantSync", "canceling", "querying", "answered"}
    BY <1>10
    DEF CancelRefused, CancelLocally, CancelSucceeds, SyncSkips, QueryApplied, QueryFails
  <2>2. QED
    BY <1>10, <2>1, ReturnAdvances
<1>11. CASE Abort(t)
  BY <1>11, ReturnAdvances
<1>12. CASE MoveStep(t)
  <2>1. ASSUME NEW o \in Order PROVE ~Execute(t, o) /\ ~Cancel(t, o)
    BY DEF Execute, Cancel
  <2>2. ~CancelAll(t)
    BY DEF CancelAll
  <2>3. SubmitDuplicate(t) => \E success : ReturnSubmit(t, success)
    BY DEF SubmitDuplicate
  <2>4. CancelRefused(t) \/ SyncSkips(t) \/ QueryFails(t) => Return(t)
    BY DEF CancelRefused, SyncSkips, QueryFails
  <2>5. QED
    BY <1>2, <1>3, <1>6, <1>7, <1>8, <1>9, <1>10, <1>12, <2>1, <2>2, <2>3, <2>4 DEF MoveStep
<1>13. CASE WriteStep(t)
  <2>1. SubmitInvalid(t) \/ SubmitAccepted(t) \/ SubmitGivesUp(t) \/ ResubmitHalted(t) =>
            \E success : ReturnSubmit(t, success)
    BY DEF SubmitInvalid, SubmitAccepted, SubmitGivesUp, ResubmitHalted
  <2>2. CancelLocally(t) \/ CancelSucceeds(t) \/ QueryApplied(t) => Return(t)
    BY DEF CancelLocally, CancelSucceeds, QueryApplied
  <2>3. QED
    BY <1>4, <1>5, <1>8, <1>9, <1>10, <1>13, <2>1, <2>2
    DEF WriteStep, SubmitWrites, CancelWrites, QueryWrites
<1>14. QED
  BY <1>11, <1>12, <1>13

\* Every step of the engine and of its exchange.
LEMMA StepAdvances ==
  ASSUME IsFiniteSet(Order), IInv, [Next]_vars
  PROVE  \A t \in Task : Advances(t)
<1>1. ASSUME UNCHANGED <<pc, target, todo, retry>>
      PROVE  \A t \in Task : Advances(t)
  BY <1>1 DEF Advances, StepsLeft
<1>2. ASSUME NEW t \in Task, MoveStep(t) \/ WriteStep(t) \/ Abort(t)
      PROVE  \A u \in Task : Advances(u)
  <2>1. Own(t) /\ (UNCHANGED retry \/ lock \in {"free", t})
    <3>1. CASE MoveStep(t)
      BY <3>1, MoveKeeps, MoveTypes DEF IInv, dataVars
    <3>2. CASE WriteStep(t)
      BY <3>2, SubmitKeeps, CancelKeeps, QueryKeeps DEF WriteStep, Writes
    <3>3. CASE Abort(t)
      BY <3>3, ControlOwn DEF Abort
    <3>4. QED
      BY <1>2, <3>1, <3>2, <3>3
  <2>2. ASSUME NEW u \in Task \ {t} PROVE Advances(u)
    <3>1. todo'[u] = todo[u]
      BY <1>2, ListsKept DEF IInv
    <3>2. QED
      BY <2>1, <3>1, OthersWait
  <2>3. Advances(t)
    BY <1>2, OwnAdvances
  <2>4. QED
    BY <2>2, <2>3
<1>3. CASE ReconWakes
  <2>1. Advances(Recon)
    BY <1>3 DEF ReconWakes, Advances
  <2>2. ASSUME NEW u \in Task \ {Recon} PROVE Advances(u)
    <3>1. /\ pc'[u] = pc[u] /\ todo'[u] = todo[u]
          /\ UNCHANGED <<target, retry>>
      BY <1>3, <2>2 DEF ReconWakes, IInv, TypeOK
    <3>2. QED
      BY <3>1 DEF Advances, StepsLeft
  <2>3. QED
    BY <2>1, <2>2
<1>4. CASE ExchangeStep \/ Start \/ HaltChanges \/ UNCHANGED vars
  BY <1>1, <1>4 DEF ExchangeStep, Start, HaltChanges, vars
<1>5. CASE Stop
  <2>1. Recon \in Task /\ Abort(Recon)
    BY <1>5 DEF Stop, Task
  <2>2. QED
    BY <1>2, <2>1
<1>6. ASSUME NEW t \in Task, CallAborts(t) PROVE Abort(t)
  BY <1>6 DEF CallAborts
<1>7. QED
  BY <1>2, <1>3, <1>4, <1>5, <1>6, Groups

-------------------------------------------------------------------------------
(* Who waits for whom *)

Wanting == {"wantSubmit", "wantCancel", "wantAll", "wantSync"}

\* The lock is held in a request only, never by a call that has returned.
HeldInRequest == lock # "free" => pc[lock] \in Holding

\* Every place but the four that want the lock has a step that needs nothing more.
CanProceed(t) == pc[t] # "idle" /\ (pc[t] \in Wanting => lock = "free")

\* A call can go on, or waits for another task, which is in a request and can go on.
CallProceeds ==
    \A t \in Task : pc[t] # "idle" =>
        \/ CanProceed(t)
        \/ lock \in Task \ {t} /\ pc[lock] \in Holding /\ CanProceed(lock)

\* A step takes the lock for its own task, or leaves it, or frees it.
LEMMA LockTaker ==
  ASSUME NEW t \in Task, MoveStep(t) \/ WriteStep(t) \/ Abort(t)
  PROVE  lock' \in {lock, t, "free"}
<1>1. CASE MoveStep(t)
  BY <1>1
  DEF MoveStep, Execute, Cancel, CancelAll, CancelAllLists, Fetched, SubmitDuplicate,
      SubmitRetries, CancelRefused, CancelAsks, BatchNext, SyncSkips, SyncAsks, QueryFails,
      Goto, Return, ReturnSubmit
<1>2. CASE WriteStep(t)
  BY <1>2
  DEF WriteStep, SubmitWrites, CancelWrites, QueryWrites, SubmitInvalid, SubmitValid,
      SubmitAccepted, SubmitGivesUp, Resubmit, ResubmitHalted, CancelLocally, CancelSucceeds,
      CancelFails, QueryAnswered, QueryApplied, Goto, Return, ReturnSubmit
<1>3. CASE Abort(t)
  BY <1>3 DEF Abort
<1>4. QED
  BY <1>1, <1>2, <1>3

\* After a step of its own a task has the lock in a request only.
LEMMA OwnReleases ==
  ASSUME IInv, HeldInRequest, NEW t \in Task, MoveStep(t) \/ WriteStep(t) \/ Abort(t), lock' = t
  PROVE  pc'[t] \in Holding
<1>1. pc \in [Task -> TaskPC] /\ t # "free"
  BY FreeIsNoTask DEF IInv, TypeOK
<1>2. lock = t => pc[t] \in Holding
  BY <1>1 DEF HeldInRequest
<1>3. ~Return(t) /\ ~(\E success : ReturnSubmit(t, success)) /\ ~Abort(t)
  BY <1>1 DEF Return, ReturnSubmit, Abort
<1>4. CASE MoveStep(t)
  <2>1. CASE CancelAsks(t) \/ SyncAsks(t)
    BY <1>1, <2>1 DEF CancelAsks, SyncAsks, Holding, Asking
  <2>2. CASE SubmitRetries(t)
    BY <1>1, <2>2 DEF SubmitRetries, Goto, Holding, Submitting
  <2>3. CASE CancelAllLists(t) \/ BatchNext(t) \/ CancelAll(t) \/ Fetched(t)
    <3>1. lock' = lock /\ pc[t] \notin Holding
      BY <1>3, <2>3
      DEF CancelAllLists, BatchNext, CancelAll, Fetched, Goto, Holding, Submitting, Asking
    <3>2. QED
      BY <1>2, <3>1
  <2>4. ASSUME NEW o \in Order, Execute(t, o) \/ Cancel(t, o)
        PROVE  FALSE
    BY <1>2, <2>4 DEF Execute, Cancel, Holding, Submitting, Asking
  <2>5. ~SubmitDuplicate(t) /\ ~CancelRefused(t) /\ ~SyncSkips(t) /\ ~QueryFails(t)
    BY <1>3 DEF SubmitDuplicate, CancelRefused, SyncSkips, QueryFails
  <2>6. QED
    BY <1>4, <2>1, <2>2, <2>3, <2>4, <2>5 DEF MoveStep
<1>5. CASE WriteStep(t)
  <2>1. SubmitValid(t) \/ Resubmit(t) \/ CancelFails(t) \/ QueryAnswered(t)
    BY <1>3, <1>5
    DEF WriteStep, SubmitWrites, CancelWrites, QueryWrites, SubmitInvalid, SubmitAccepted,
        SubmitGivesUp, ResubmitHalted, CancelLocally, CancelSucceeds, QueryApplied
  <2>2. QED
    BY <1>1, <2>1
    DEF SubmitValid, Resubmit, CancelFails, QueryAnswered, Goto, Holding, Submitting, Asking
<1>6. QED
  BY <1>3, <1>4, <1>5

\* Every step leaves the lock free or in a request.
LEMMA LockStep == IInv /\ HeldInRequest /\ [Next]_vars => HeldInRequest'
<1> SUFFICES ASSUME IInv, HeldInRequest, [Next]_vars
             PROVE  HeldInRequest'
  OBVIOUS
<1>1. CASE UNCHANGED <<lock, pc>>
  BY <1>1 DEF HeldInRequest
<1>2. ASSUME NEW t \in Task, MoveStep(t) \/ WriteStep(t) \/ Abort(t)
      PROVE  HeldInRequest'
  <2>1. Own(t)
    BY <1>2, MoveKeeps, SubmitKeeps, CancelKeeps, QueryKeeps, ControlOwn DEF WriteStep, Writes
  <2>2. lock' \in Task \cup {"free"}
    BY StepSound DEF Sound, IInv, TypeOK
  <2>3. CASE lock' = t
    BY <1>2, <2>3, OwnReleases DEF HeldInRequest
  <2>4. ASSUME lock' \in Task \ {t}
        PROVE  pc'[lock'] \in Holding
    <3>1. pc'[lock'] = pc[lock']
      BY <2>1, <2>4 DEF Own
    <3>2. lock' = lock
      BY <1>2, <2>4, LockTaker, FreeIsNoTask
    <3>3. QED
      BY <2>4, <3>1, <3>2, FreeIsNoTask DEF HeldInRequest
  <2>5. QED
    BY <2>2, <2>3, <2>4 DEF HeldInRequest
<1>3. CASE ReconWakes
  <2>1. Recon \in Task
    BY DEF Task
  <2>2. lock # Recon
    BY <1>3, <2>1, FreeIsNoTask
    DEF ReconWakes, HeldInRequest, Holding, Submitting, Asking
  <2>3. lock # "free" => pc'[lock] = pc[lock]
    BY <1>3, <2>2 DEF ReconWakes, IInv, TypeOK
  <2>4. QED
    BY <1>3, <2>3 DEF ReconWakes, HeldInRequest
<1>4. CASE ExchangeStep \/ Start \/ HaltChanges \/ UNCHANGED vars
  BY <1>1, <1>4 DEF ExchangeStep, Start, HaltChanges, vars
<1>5. Stop => Recon \in Task /\ Abort(Recon)
  BY DEF Stop, Task
<1>6. ASSUME NEW t \in Task, CallAborts(t) PROVE Abort(t)
  BY <1>6 DEF CallAborts
<1>7. QED
  BY <1>2, <1>3, <1>4, <1>5, <1>6, Groups

-------------------------------------------------------------------------------
\* Every variable of the engine has its type: retries stay within max_retries, and
\* no fill exceeds the order (order_manager.py:233-418, 612-657).
THEOREM TypeCorrect == Spec => []TypeOK
BY Invariant, PTL DEF IInv

\* What the manager records of an accepted order is never ahead of the exchange,
\* whatever answer is late or lost (order_manager.py:262-304, 490-519, 594-662).
THEOREM ExchangeAheadHolds == Spec => []ExchangeIsAhead
<1>1. IInv => ExchangeIsAhead
  BY DEF IInv, OrderOK, ExchangeIsAhead
<1>2. QED
  BY <1>1, Invariant, PTL

\* The engine implements the order lifecycle of state_machine.py:57-92 under retries,
\* cancellations, synchronisations and aborted calls: terminal states are final.
THEOREM Implements == Spec => LifeSpec
<1>1. Init => LifeInit
  BY DEF Init
<1>2. IInv /\ [Next]_vars => [LifeNext]_lifeVars
  BY StepSound DEF Sound
<1>3. QED
  BY <1>1, <1>2, Invariant, PTL DEF Spec, LifeSpec

\* No request leaves while the system is halted: the check before each attempt
\* (order_manager.py:247-260) and the validation (172-209) are enough.
THEOREM NoRequestWhileHaltedHolds == Spec => NoRequestWhileHalted
<1>1. IInv /\ [Next]_vars => [\A o \in Order : Sends(o) => ~halted]_vars
  <2> SUFFICES ASSUME IInv, [Next]_vars, NEW o \in Order, Sends(o)
               PROVE  ~halted
    OBVIOUS
  <2>1. QED
    BY WhoSends DEF SubmitValid, Resubmit
<1>2. QED
  BY <1>1, Invariant, PTL DEF Spec, NoRequestWhileHalted

\* No request is sent for an order that was accepted or is closed, and none but the first
\* by anyone but the call that sent the last: the lock is held through the retries, and
\* the duplicate check sees every tracked order (order_manager.py:161-228, 714-723).
THEOREM NoRequestOnceSettledHolds == Spec => NoRequestOnceSettled
<1>1. ASSUME IInv, [Next]_vars, NEW o \in Order, Sends(o)
      PROVE  /\ xid[o] = NoId /\ ostate[o] \notin Terminal
             /\ \/ ostate[o] = "none"
                \/ \E t \in Task : lock = t /\ target[t] = o /\ pc[t] = "backoff"
  <2>1. PICK t \in Task : o = target[t] /\ (SubmitValid(t) \/ Resubmit(t))
    BY <1>1, WhoSends
  <2>2. CASE SubmitValid(t)
    BY <1>1, <2>1, <2>2 DEF SubmitValid, Tracked, IInv, OrderOK, Terminal
  <2>3. CASE Resubmit(t)
    <3>1. lock = t /\ pc[t] = "backoff"
      BY <1>1, <2>3 DEF Resubmit, IInv, TaskOK, Submitting, Holding
    <3>2. xid[o] = NoId /\ ostate[o] \notin Terminal
      BY <1>1, <2>1, <2>3 DEF Resubmit, IInv, TaskOK, Submitting, Terminal
    <3>3. QED
      BY <2>1, <3>1, <3>2
  <2>4. QED
    BY <2>1, <2>2, <2>3
<1>2. IInv /\ [Next]_vars =>
        \A o \in Order : Sends(o) =>
           /\ xid[o] = NoId /\ ostate[o] \notin Terminal
           /\ \/ ostate[o] = "none"
              \/ \E t \in Task : lock = t /\ target[t] = o /\ pc[t] = "backoff"
  BY <1>1
<1>3. QED
  BY <1>2, Invariant, PTL DEF Spec, NoRequestOnceSettled

\* Every call is over within 2 * max_retries + 6 * (number of
\* orders) + 5 steps of its own, whatever other calls, the exchange and the operator do
\* meanwhile (order_manager.py:233-349, 435-592; execution_service.py:423-448): no retry,
\* no synchronisation after a cancellation and no batch goes round again.
THEOREM CallsAreShort ==
  ASSUME IsFiniteSet(Order)
  PROVE  Spec => []CallsBounded /\ CallsAdvance
<1>1. IInv => CallsBounded
  BY BoundedByLength DEF IInv
<1>2. IInv /\ [Next]_vars => [\A t \in Task : Advances(t)]_vars
  BY StepAdvances
<1>3. QED
  BY <1>1, <1>2, Invariant, PTL DEF Spec, CallsAdvance

\* No call ever waits for nothing, for itself or for a call that is over: a call can go on,
\* or waits for the lock of a task that is in a request and can go on
\* (order_manager.py:161-228, 358-417, 435-592), which a timeout ends.
THEOREM NoDeadlock == Spec => []CallProceeds
<1>1. Init => HeldInRequest
  BY DEF Init, HeldInRequest
<1>2. IInv /\ HeldInRequest => CallProceeds
  <2> SUFFICES ASSUME IInv, HeldInRequest, NEW t \in Task, pc[t] # "idle", ~CanProceed(t)
               PROVE  lock \in Task \ {t} /\ pc[lock] \in Holding /\ CanProceed(lock)
    BY DEF CallProceeds
  <2>1. pc[t] \in Wanting /\ lock # "free"
    BY DEF CanProceed
  <2>2. lock \in Task /\ pc[lock] \in Holding
    BY <2>1 DEF IInv, TypeOK, HeldInRequest
  <2>3. QED
    BY <2>1, <2>2 DEF CanProceed, Wanting, Holding, Submitting, Asking
<1>3. QED
  BY <1>1, <1>2, LockStep, Invariant, PTL DEF Spec

-------------------------------------------------------------------------------
(* What ClosedOrdersReconciled needs besides fairness *)

\* An order the exchange has accepted is one the loop asks about, until it is closed.
AcceptedIsOpen ==
    \A o \in Order : xid[o] # NoId /\ ostate[o] \notin Terminal =>
        ostate[o] \in {"SUBMITTED", "PARTIALLY_FILLED"}

\* An answer that says the order is closed closes it here: the table refuses none.
AnswerEnds ==
    [][\A t \in Task :
          QueryApplied(t) /\ answer.status \in ClosedStatus => ostate'[target[t]] \in Terminal]_vars

\* No order waits for validation, or for its submission once it was accepted.
Accepted ==
    \A o \in Order :
        /\ ostate[o] # "PENDING_VALIDATION"
        /\ xid[o] # NoId => ostate[o] # "PENDING_SUBMISSION"

\* The exchange rejects only what it has not filled.
RejectedUnfilled ==
    \A o \in Order, a \in Attempt :
        book[o][a].status = "REJECTED" => book[o][a].filled = 0

\* The table leads back to no state before the submission.
LEMMA NeverBack ==
  ASSUME NEW s, s # "PENDING_VALIDATION", NEW n \in Reachable(s)
  PROVE  /\ n # "PENDING_VALIDATION"
         /\ n = "PENDING_SUBMISSION" => s = "PENDING_SUBMISSION"
<1>1. \A x : /\ "PENDING_VALIDATION" \notin ValidTransitions(x)
             /\ x # "PENDING_VALIDATION" => "PENDING_SUBMISSION" \notin ValidTransitions(x)
  BY DEF ValidTransitions
<1>2. ASSUME NEW S, "PENDING_VALIDATION" \notin S
      PROVE  /\ "PENDING_VALIDATION" \notin Step(S)
             /\ "PENDING_SUBMISSION" \in Step(S) => "PENDING_SUBMISSION" \in S
  BY <1>1, <1>2 DEF Step
<1>3. /\ "PENDING_VALIDATION" \notin {s}
      /\ "PENDING_SUBMISSION" \in {s} => s = "PENDING_SUBMISSION"
  OBVIOUS
<1>4. /\ "PENDING_VALIDATION" \notin Step({s})
      /\ "PENDING_SUBMISSION" \in Step({s}) => s = "PENDING_SUBMISSION"
  BY <1>2, <1>3
<1>5. /\ "PENDING_VALIDATION" \notin Step(Step({s}))
      /\ "PENDING_SUBMISSION" \in Step(Step({s})) => s = "PENDING_SUBMISSION"
  BY <1>2, <1>4
<1>6. /\ "PENDING_VALIDATION" \notin Reachable(s)
      /\ "PENDING_SUBMISSION" \in Reachable(s) => s = "PENDING_SUBMISSION"
  BY <1>2, <1>5 DEF Reachable
<1>7. QED
  BY <1>6

\* What the lifecycle keeps, the manager keeps.
LEMMA AcceptedStep == IInv /\ Accepted /\ [LifeNext]_lifeVars => Accepted'
<1> SUFFICES ASSUME IInv, Accepted, [LifeNext]_lifeVars, NEW p \in Order
             PROVE  /\ ostate'[p] # "PENDING_VALIDATION"
                    /\ xid'[p] # NoId => ostate'[p] # "PENDING_SUBMISSION"
  BY DEF Accepted
<1>1. ASSUME NEW o \in Order, Track(o)
      PROVE  /\ ostate'[p] # "PENDING_VALIDATION"
             /\ xid'[p] # NoId => ostate'[p] # "PENDING_SUBMISSION"
  BY <1>1 DEF Track, Accepted, IInv, OrderOK, TypeOK, LifeTypeOK
<1>2. ASSUME NEW o \in Order, Advance(o)
      PROVE  /\ ostate'[p] # "PENDING_VALIDATION"
             /\ xid'[p] # NoId => ostate'[p] # "PENDING_SUBMISSION"
  <2>1. PICK s \in Reachable(ostate[o]), x \in ExchangeId \cup {NoId} :
            /\ x # xid[o] => xid[o] = NoId /\ s # "PENDING_SUBMISSION"
            /\ ostate' = [ostate EXCEPT ![o] = s]
            /\ xid' = [xid EXCEPT ![o] = x]
    BY <1>2 DEF Advance
  <2>2. /\ s # "PENDING_VALIDATION"
        /\ s = "PENDING_SUBMISSION" => ostate[o] = "PENDING_SUBMISSION"
    BY NeverBack DEF Accepted
  <2>3. QED
    BY <2>1, <2>2 DEF Accepted, IInv, TypeOK, LifeTypeOK
<1>3. CASE UNCHANGED lifeVars
  BY <1>3 DEF lifeVars, Accepted
<1>4. QED
  BY <1>1, <1>2, <1>3 DEF LifeNext

\* The book changes by one entry, which rejects nothing that is filled.
LEMMA EntryRejectsUnfilled ==
  ASSUME IInv, RejectedUnfilled, NEW o \in Order, NEW a \in Attempt, NEW r,
         r.status = "REJECTED" => r.filled = 0,
         book' = [book EXCEPT ![o][a] = r]
  PROVE  RejectedUnfilled'
  BY DEF IInv, TypeOK, RejectedUnfilled

LEMMA RejectedStep == IInv /\ RejectedUnfilled /\ [Next]_vars => RejectedUnfilled'
<1> SUFFICES ASSUME IInv, RejectedUnfilled, [Next]_vars PROVE RejectedUnfilled'
  OBVIOUS
<1>1. CASE UNCHANGED book
  BY <1>1 DEF RejectedUnfilled
<1>2. ASSUME NEW o \in Order, NEW a \in Attempt, NEW s \in {"sent", "refused", "CANCELED"},
             book' = [book EXCEPT ![o][a].status = s]
      PROVE  RejectedUnfilled'
  <2>1. book' = [book EXCEPT ![o][a] = [book[o][a] EXCEPT !.status = s]]
    BY <1>2
  <2>2. [book[o][a] EXCEPT !.status = s].status = s
    BY DEF IInv, TypeOK, Request
  <2>3. QED
    BY <2>1, <2>2, EntryRejectsUnfilled
<1>3. CASE ExchangeStep
  <2>1. PICK o \in Order, a \in Attempt :
            \/ ExchangeAccepts(o, a) \/ ExchangeRefuses(o, a)
            \/ ExchangeFills(o, a) \/ ExchangeCloses(o, a)
    BY <1>3 DEF ExchangeStep
  <2>2. book[o][a] \in Request
    BY DEF IInv, TypeOK
  <2>3. CASE ExchangeAccepts(o, a)
    <3>1. PICK f \in 0 .. Quantity :
            book' = [book EXCEPT ![o][a] = [status |-> StatusOf(f), filled |-> f, ack |-> f]]
      BY <2>3 DEF ExchangeAccepts
    <3>2. StatusOf(f) # "REJECTED"
      BY DEF StatusOf
    <3>3. QED
      BY <3>1, <3>2, EntryRejectsUnfilled
  <2>4. CASE ExchangeRefuses(o, a)
    BY <1>2, <2>4 DEF ExchangeRefuses
  <2>5. CASE ExchangeFills(o, a)
    <3>1. PICK f \in (book[o][a].filled + 1) .. Quantity :
            book' = [book EXCEPT ![o][a].filled = f, ![o][a].status = StatusOf(f)]
      BY <2>5 DEF ExchangeFills
    <3>2. StatusOf(f) # "REJECTED"
      BY DEF StatusOf
    <3>3. PICK r : r = [book[o][a] EXCEPT !.filled = f, !.status = StatusOf(f)]
      OBVIOUS
    <3>4. book' = [book EXCEPT ![o][a] = r] /\ r.status # "REJECTED"
      BY <2>2, <3>1, <3>2, <3>3 DEF IInv, TypeOK, Request
    <3>5. QED
      BY <3>4, EntryRejectsUnfilled
  <2>6. CASE ExchangeCloses(o, a)
    <3>1. PICK s \in {"CANCELED", "EXPIRED", "REJECTED"} :
            /\ s = "REJECTED" => book[o][a].filled = 0
            /\ book' = [book EXCEPT ![o][a].status = s]
      BY <2>6 DEF ExchangeCloses
    <3>2. PICK r : r = [book[o][a] EXCEPT !.status = s]
      OBVIOUS
    <3>3. /\ book' = [book EXCEPT ![o][a] = r]
          /\ r.status = s /\ r.filled = book[o][a].filled
      BY <2>2, <3>1, <3>2 DEF Request
    <3>4. r.status = "REJECTED" => r.filled = 0
      BY <3>1, <3>3
    <3>5. QED
      BY <3>3, <3>4, EntryRejectsUnfilled
  <2>7. QED
    BY <2>1, <2>3, <2>4, <2>5, <2>6
<1>4. ASSUME NEW t \in Task, MoveStep(t) PROVE RejectedUnfilled'
  BY <1>1, <1>4, MoveTypes DEF IInv, dataVars
<1>5. ASSUME NEW t \in Task, WriteStep(t) PROVE RejectedUnfilled'
  <2>1. target[t] \in Order
    BY DEF IInv, TypeOK
  <2>2. CASE SubmitValid(t)
    <3>1. 0 \in Attempt
      BY ManagerAssumption DEF Attempt
    <3>2. book' = [book EXCEPT ![target[t]][0].status = "sent"]
      BY <2>2 DEF SubmitValid, Send
    <3>3. QED
      BY <1>2, <2>1, <3>1, <3>2
  <2>3. CASE Resubmit(t)
    <3>1. retry[target[t]] + 1 \in Attempt
      BY <2>1, <2>3, ManagerAssumption DEF IInv, TaskOK, TypeOK, Resubmit, Attempt
    <3>2. QED
      BY <1>2, <2>1, <2>3, <3>1 DEF Resubmit, Send
  <2>4. CASE CancelSucceeds(t) \/ CancelFails(t)
    <3>1. xid[target[t]] \in Attempt
      BY <2>1, <2>4, ManagerAssumption
      DEF IInv, TaskOK, Asking, TypeOK, LifeTypeOK, CancelSucceeds, CancelFails
    <3>2. QED
      BY <1>1, <1>2, <2>1, <2>4, <3>1 DEF CancelSucceeds, CancelFails
  <2>5. QED
    BY <1>1, <1>5, <2>2, <2>3, <2>4
    DEF WriteStep, SubmitWrites, CancelWrites, QueryWrites, SubmitInvalid, SubmitAccepted,
        SubmitGivesUp, ResubmitHalted, CancelLocally, QueryAnswered, QueryApplied
<1>6. CASE (\E t \in Task : CallAborts(t)) \/ ReconWakes \/ Start \/ Stop \/ HaltChanges
  BY <1>1, <1>6 DEF CallAborts, Abort, ReconWakes, Start, Stop, HaltChanges
<1>7. CASE UNCHANGED vars
  BY <1>1, <1>7 DEF vars
<1>8. QED
  BY <1>3, <1>4, <1>5, <1>6, <1>7, Groups

LEMMA ClosedAnswerEnds ==
  ASSUME IInv, Accepted, RejectedUnfilled, NEW t \in Task, QueryApplied(t),
         answer.status \in ClosedStatus
  PROVE  ostate'[target[t]] \in Terminal
<1> DEFINE o == target[t]
           r == book[o][xid[o]]
<1>1. o \in Order /\ xid[o] # NoId /\ ostate[o] \in Active /\ AnswerOK(o)
  BY DEF QueryApplied, IInv, TypeOK, TaskOK, Asking
<1>2. xid[o] \in Attempt
  BY <1>1, ManagerAssumption DEF IInv, TypeOK, LifeTypeOK
<1>3. ostate[o] \in {"SUBMITTED", "PARTIALLY_FILLED"}
  BY <1>1 DEF Accepted, Active, OrderState, Terminal
<1>4. ostate'[o] = SyncedState(ostate[o], answer.status, answer.filled)
  BY <1>1 DEF QueryApplied, IInv, TypeOK, LifeTypeOK
<1>5. CASE answer.status = "FILLED"
  <2>1. answer.filled = Quantity
    BY <1>1, <1>5 DEF AnswerOK
  <2>2. MarkFilled(ostate[o], answer.filled) = "COMPLETED"
    BY <1>3, <2>1, Transitions, OrderAssumption
  <2>3. QED
    BY <1>4, <1>5, <2>2 DEF SyncedState, Terminal
<1>6. CASE answer.status = "REJECTED"
  <2>1. filled[o] <= answer.filled /\ answer.filled <= r.filled /\ r.filled = 0
    BY <1>1, <1>2, <1>6 DEF AnswerOK, RejectedUnfilled, ClosedStatus
  <2>2. filled[o] = 0
    BY <1>1, <2>1, OrderAssumption DEF IInv, TypeOK, LifeTypeOK
  <2>3. ostate[o] = "SUBMITTED"
    BY <1>1, <1>3, <2>2 DEF IInv, OrderOK
  <2>4. QED
    BY <1>4, <1>6, <2>3
    DEF SyncedState, TransitionTo, ValidTransitions, ValidForState, Terminal
<1>7. CASE answer.status \in {"CANCELED", "EXPIRED"}
  BY <1>3, <1>4, <1>7
  DEF SyncedState, TransitionTo, ValidTransitions, ValidForState, Terminal
<1>8. QED
  BY <1>5, <1>6, <1>7 DEF ClosedStatus

\* Of an order that was accepted, however it was cancelled, aborted or synchronised since,
\* the loop asks until it is closed here, and the first answer that says it is closed at
\* the exchange closes it: no such answer meets a state from which the table refuses it
\* (order_manager.py:588-663, state_machine.py:57-90).
THEOREM ClosedAnswersClose == Spec => []AcceptedIsOpen /\ AnswerEnds
<1>1. Init => Accepted /\ RejectedUnfilled
  BY DEF Init, LifeInit, Accepted, RejectedUnfilled, Unsent
<1>2. IInv /\ Accepted /\ RejectedUnfilled /\ [Next]_vars => Accepted' /\ RejectedUnfilled'
  BY StepSound, AcceptedStep, RejectedStep DEF Sound
<1>3. IInv /\ Accepted => AcceptedIsOpen
  BY DEF IInv, OrderOK, TypeOK, LifeTypeOK, Accepted, AcceptedIsOpen, OrderState, Terminal
<1>4. IInv /\ Accepted /\ RejectedUnfilled /\ [Next]_vars =>
        [\A t \in Task : QueryApplied(t) /\ answer.status \in ClosedStatus
                            => ostate'[target[t]] \in Terminal]_vars
  BY ClosedAnswerEnds
<1>5. QED
  BY <1>1, <1>2, <1>3, <1>4, Invariant, PTL DEF Spec, AnswerEnds
===============================================================================
