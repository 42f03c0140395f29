-------------------------- MODULE OnchainAdaptersProofs --------------------------
(* Proofs about OnchainAdapters, for any number of adapters, callers and retries: its *)
(* types, that every step of a fetch leaves less of it and how many there are, that a  *)
(* fetch always has a step to make, and by how much the calls of a day may exceed      *)
(* the limit.                                                                          *)
EXTENDS OnchainAdapters, FiniteSetTheorems, FunctionTheorems, WellFoundedInduction, TLAPS

Fetching == [pc : {"next", "request", "wait", "backoff"}, todo : SUBSET Adapter,
             first : Adapter \cup {None}, attempt : 0 .. MaxRetries]

\* The adapter that is asked is one of those left, and a first request is the first.
AskedOfThose ==
    \A c \in Caller :
        At(c, {"request", "wait", "backoff"}) =>
            /\ task[c].first \in task[c].todo /\ task[c].attempt > 0
            /\ At(c, {"request"}) => task[c].attempt = 1

IInv == TypeOK /\ AskedOfThose

LEMMA ConstantsNat ==
    /\ MaxRetries \in Nat /\ MaxRetries > 0
    /\ UnavailableAt \in Nat /\ UnavailableAt > 0
  BY AdaptersAssumption

----------------------------------------------------------------------------------
(* One fetch                                                                         *)

\* A task that is not idle is a fetch.
LEMMA TaskIsFetch ==
    ASSUME TypeOK, NEW c \in Caller, task[c].pc # "idle" PROVE task[c] \in Fetching
  BY DEF TypeOK, Task, Idle, Fetching

\* What a step may make of the fetch it is about.
Kept(c, t) ==
    /\ task' = [task EXCEPT ![c] = t]
    /\ \/ t = Idle
       \/ /\ t \in Fetching
          /\ t.pc # "next" =>
                 t.first \in t.todo /\ t.attempt > 0 /\ (t.pc = "request" => t.attempt = 1)
          /\ task[c] # Idle => Shrinks(task[c], t)

\* Of the tasks only that of the step changes.
LEMMA StepKeeps ==
    ASSUME IInv, NEW c \in Caller, NEW t, Kept(c, t)
    PROVE  /\ task' \in [Caller -> Task]
           /\ AskedOfThose'
           /\ \A d \in Caller :
                task[d] # Idle /\ task'[d] \notin {Idle, task[d]} => Shrinks(task[d], task'[d])
  <1>1. t \in Task
    BY DEF Kept, Task, Fetching
  <1>2. task \in [Caller -> Task]
    BY DEF IInv, TypeOK
  <1>3. task' \in [Caller -> Task]
    BY <1>1, <1>2 DEF Kept
  <1>4. task'[c] = t /\ \A d \in Caller \ {c} : task'[d] = task[d]
    BY <1>2 DEF Kept
  <1>5. AskedOfThose'
    <2> SUFFICES ASSUME NEW d \in Caller, At(d, {"request", "wait", "backoff"})'
                 PROVE  /\ task'[d].first \in task'[d].todo /\ task'[d].attempt > 0
                        /\ At(d, {"request"})' => task'[d].attempt = 1
      BY DEF AskedOfThose
    <2>1. CASE d = c
      BY <2>1, <1>4 DEF Kept, Idle, At
    <2>2. CASE d # c
      BY <2>2, <1>4 DEF IInv, AskedOfThose, At
    <2>3. QED
      BY <2>1, <2>2
  <1>6. QED
    BY <1>3, <1>4, <1>5 DEF Kept

\* To pass on from the adapter that is asked, or rate limited, is to leave one fewer.
LEMMA PassOnKeeps ==
    ASSUME IInv, NEW c \in Caller, NEW a \in Adapter, task[c].pc # "idle",
           a \in task[c].todo, PassOn(c, a)
    PROVE  \E t : Kept(c, t)
  <1> DEFINE t == [pc |-> "next", todo |-> task[c].todo \ {a}, first |-> None, attempt |-> 0]
  <1>1. task[c] \in Fetching
    BY TaskIsFetch DEF IInv
  <1>2. t \in Fetching /\ t.pc = "next" /\ t.todo = task[c].todo \ {a}
    BY <1>1, ConstantsNat DEF Fetching
  <1>3. task' = [task EXCEPT ![c] = t]
    BY <1>1 DEF PassOn, IInv, TypeOK
  <1>4. Kept(c, t)
    BY <1>2, <1>3 DEF Kept, Shrinks
  <1>5. QED
    BY <1>4

LEMMA ReturnKeeps ==
    ASSUME NEW c \in Caller, Return(c) PROVE \E t : Kept(c, t)
  BY DEF Return, Kept

LEMMA ReturnStaleKeeps ==
    ASSUME IInv, NEW c \in Caller, NEW a \in Adapter, task[c].pc # "idle",
           a \in task[c].todo, ReturnStale(c, a)
    PROVE  \E t : Kept(c, t)
  BY PassOnKeeps, ReturnKeeps DEF ReturnStale

\* Whoever waits for an adapter is in a fetch that has it among those left.
LEMMA AskedFacts ==
    ASSUME IInv, NEW c \in Caller, NEW a, Asked(c, a)
    PROVE  /\ task[c] \in Fetching /\ task[c].pc # "idle"
           /\ At(c, {"request", "wait", "backoff"})
           /\ a \in task[c].todo /\ task[c].attempt > 0
           /\ At(c, {"request"}) => task[c].attempt = 1
  <1>1. task[c].pc # "idle"
    BY DEF Asked, At
  <1>2. QED
    BY <1>1, TaskIsFetch DEF IInv, AskedOfThose, Asked

LEMMA FetchKeeps == ASSUME IInv, NEW c \in Caller, Fetch(c) PROVE \E t : Kept(c, t)
  <1>1. PICK first \in Candidates :
            task' = [task EXCEPT ![c] =
                [pc |-> "next", todo |-> Candidates, first |-> first, attempt |-> 0]]
    BY DEF Fetch
  <1> DEFINE t == [pc |-> "next", todo |-> Candidates, first |-> first, attempt |-> 0]
  <1>2. Candidates \subseteq Adapter
    BY DEF Candidates
  <1>3. t \in Fetching
    BY <1>2, ConstantsNat DEF Fetching
  <1>4. task[c] = Idle
    BY DEF Fetch, At, IInv, TypeOK, Task, Idle
  <1>5. Kept(c, t)
    BY <1>1, <1>3, <1>4 DEF Kept
  <1>6. QED
    BY <1>5

LEMMA BeginKeeps ==
    ASSUME IInv, NEW c \in Caller, NEW a \in Adapter, Begin(c, a) PROVE \E t : Kept(c, t)
  <1> DEFINE t == [pc |-> "request", todo |-> task[c].todo, first |-> a, attempt |-> 1]
  <1>1. task[c] \in Fetching /\ task[c].pc = "next" /\ a \in task[c].todo
    BY TaskIsFetch DEF Begin, At, IsNext, IInv
  <1>2. 1 \in 0 .. MaxRetries
    BY ConstantsNat
  <1>3. t \in Fetching
    BY <1>1, <1>2 DEF Fetching
  <1>4. Shrinks(task[c], t)
    BY <1>1, ConstantsNat DEF Shrinks, StepsLeft
  <1>5. Kept(c, t)
    BY <1>1, <1>3, <1>4 DEF Kept, Begin
  <1>6. QED
    BY <1>5

LEMMA RequestKeeps ==
    ASSUME IInv, NEW c \in Caller, NEW a \in Adapter, Request(c, a) PROVE \E t : Kept(c, t)
  <1> DEFINE t == [task[c] EXCEPT !.pc = "wait"]
  <1>1. task[c] \in Fetching /\ task[c].pc = "request" /\ a \in task[c].todo
        /\ task[c].first = a /\ task[c].attempt = 1
    BY AskedFacts DEF Request, At, Asked
  <1>2. t \in Fetching /\ t.pc = "wait" /\ t.todo = task[c].todo /\ t.first = a /\ t.attempt = 1
    BY <1>1 DEF Fetching
  <1>3. Shrinks(task[c], t)
    BY <1>1, <1>2, ConstantsNat DEF Shrinks, StepsLeft
  <1>4. Kept(c, t)
    BY <1>1, <1>2, <1>3 DEF Kept, Request
  <1>5. QED
    BY <1>4

LEMMA RetriesKeeps ==
    ASSUME IInv, NEW c \in Caller, NEW a \in Adapter, Retries(c, a) PROVE \E t : Kept(c, t)
  <1> DEFINE t == [task[c] EXCEPT !.pc = "backoff"]
  <1>1. task[c] \in Fetching /\ task[c].pc = "wait" /\ a \in task[c].todo /\ task[c].first = a
        /\ task[c].attempt > 0
    BY AskedFacts DEF Retries, At, Asked
  <1>2. t \in Fetching /\ t.pc = "backoff" /\ t.todo = task[c].todo /\ t.first = a
        /\ t.attempt = task[c].attempt /\ t.attempt \in 0 .. MaxRetries
    BY <1>1 DEF Fetching
  <1>3. Shrinks(task[c], t)
    BY <1>1, <1>2, ConstantsNat DEF Shrinks, StepsLeft
  <1>4. Kept(c, t)
    BY <1>1, <1>2, <1>3 DEF Kept, Retries
  <1>5. QED
    BY <1>4

LEMMA BackoffEndsKeeps ==
    ASSUME IInv, NEW c \in Caller, NEW a \in Adapter, BackoffEnds(c, a)
    PROVE  \E t : Kept(c, t)
  <1>1. task[c] \in Fetching /\ task[c].pc = "backoff" /\ a \in task[c].todo /\ task[c].first = a
    BY AskedFacts DEF BackoffEnds, At, Asked
  <1> DEFINE t == [pc |-> "wait", todo |-> task[c].todo, first |-> a,
                   attempt |-> task[c].attempt + 1]
  <1>2. CASE task[c].attempt < MaxRetries /\ task' = [task EXCEPT ![c] = t]
    <2>1. task[c].attempt \in 0 .. MaxRetries /\ task[c].attempt + 1 \in 0 .. MaxRetries
      BY <1>1, <1>2, ConstantsNat DEF Fetching
    <2>2. t \in Fetching
      BY <1>1, <2>1 DEF Fetching
    <2>3. Shrinks(task[c], t)
      BY <1>1, <2>1, ConstantsNat DEF Shrinks, StepsLeft
    <2>4. t.attempt > 0 /\ t.first \in t.todo /\ t.pc = "wait"
      BY <1>1, <2>1
    <2>5. Kept(c, t)
      BY <1>2, <2>2, <2>3, <2>4 DEF Kept
    <2>6. QED
      BY <2>5
  <1>3. CASE ReturnStale(c, a)
    BY <1>1, <1>3, ReturnStaleKeeps
  <1>4. QED
    BY <1>2, <1>3 DEF BackoffEnds

\* Every step leaves the tasks alone or is the step of one fetch.
LEMMA NextKeeps ==
    ASSUME IInv, [Next]_vars PROVE task' = task \/ \E c \in Caller : \E t : Kept(c, t)
  <1>1. ASSUME NEW c \in Caller, Fetch(c) PROVE \E t : Kept(c, t)
    BY <1>1, FetchKeeps
  <1>2. ASSUME NEW c \in Caller, Proceeds(c) PROVE \E t : Kept(c, t)
    <2>1. CASE Exhausted(c)
      BY <2>1, ReturnKeeps DEF Exhausted
    <2>2. ASSUME NEW a \in Adapter, ReturnCached(c, a) PROVE \E t : Kept(c, t)
      BY <2>2, ReturnKeeps DEF ReturnCached
    <2>3. ASSUME NEW a \in Adapter, RateLimited(c, a) PROVE \E t : Kept(c, t)
      BY <2>3, ReturnStaleKeeps DEF RateLimited, At, IsNext
    <2>4. ASSUME NEW a \in Adapter, Begin(c, a) PROVE \E t : Kept(c, t)
      BY <2>4, BeginKeeps
    <2>5. ASSUME NEW a \in Adapter, TimesOut(c, a) PROVE \E t : Kept(c, t)
      BY <2>5, AskedFacts, ReturnStaleKeeps, PassOnKeeps DEF TimesOut
    <2>6. QED
      BY <1>2, <2>1, <2>2, <2>3, <2>4, <2>5 DEF Proceeds
  <1>3. ASSUME NEW c \in Caller, NEW a \in Adapter,
               \/ Request(c, a) \/ Succeeds(c, a) \/ Empty(c, a) \/ Fails(c, a)
               \/ RateLimitError(c, a) \/ Retries(c, a) \/ BackoffEnds(c, a)
        PROVE  \E t : Kept(c, t)
    <2>1. CASE Succeeds(c, a)
      BY <2>1, ReturnKeeps DEF Succeeds
    <2>2. CASE Empty(c, a) \/ Fails(c, a) \/ RateLimitError(c, a)
      BY <2>2, AskedFacts, ReturnStaleKeeps DEF Empty, Fails, RateLimitError
    <2>3. QED
      BY <1>3, <2>1, <2>2, RequestKeeps, RetriesKeeps, BackoffEndsKeeps
  <1>4. ASSUME NEW a \in Adapter,
               Invalid(a) \/ CheckPasses(a) \/ CheckFails(a) \/ EntryAges(a)
        PROVE  task' = task
    BY <1>4 DEF Invalid, CheckPasses, CheckFails, EntryAges
  <1>5. CASE ClearCaches \/ DayChanges \/ UNCHANGED vars
    BY <1>5 DEF ClearCaches, DayChanges, vars
  <1>6. QED
    BY <1>1, <1>2, <1>3, <1>4, <1>5 DEF Next, Answers

----------------------------------------------------------------------------------
(* The invariant                                                                     *)

\* Whatever is kept about the adapters themselves has its type.
DataTypes ==
    /\ usable \in [Adapter -> BOOLEAN] /\ failures \in [Adapter -> 0 .. UnavailableAt]
    /\ cache \in [Adapter -> {"none", "fresh", "old"}]
    /\ used \in [Adapter -> Nat] /\ dated \in [Adapter -> BOOLEAN] /\ sent \in [Adapter -> Nat]

LEMMA OnErrorTypes ==
    ASSUME DataTypes, NEW a \in Adapter, OnError(a)
    PROVE  usable' \in [Adapter -> BOOLEAN] /\ failures' \in [Adapter -> 0 .. UnavailableAt]
  BY ConstantsNat DEF DataTypes, OnError

LEMMA RecordRequestTypes ==
    ASSUME DataTypes, NEW a \in Adapter, RecordRequest(a)
    PROVE  used' \in [Adapter -> Nat] /\ sent' \in [Adapter -> Nat]
  BY DEF DataTypes, RecordRequest

LEMMA WaitingFinite ==
    ASSUME NEW a PROVE IsFiniteSet(Waiting(a)) /\ Cardinality(Waiting(a)) \in Nat
  BY AdaptersAssumption, FS_Subset, FS_CardinalityType DEF Waiting

LEMMA DataTypesKept == ASSUME DataTypes, [Next]_vars PROVE DataTypes'
  <1> USE OnErrorTypes, RecordRequestTypes, ConstantsNat DEF health, quota
  <1>1. ASSUME NEW c \in Caller, Fetch(c) \/ Exhausted(c) PROVE DataTypes'
    BY <1>1 DEF Fetch, Exhausted, DataTypes
  <1>2. ASSUME NEW c \in Caller, NEW a \in Adapter,
               ReturnCached(c, a) \/ RateLimited(c, a) \/ Empty(c, a) \/ Retries(c, a)
        PROVE  DataTypes'
    BY <1>2 DEF ReturnCached, RateLimited, Empty, Retries, DataTypes
  <1>3. ASSUME NEW c \in Caller, NEW a \in Adapter, Begin(c, a) PROVE DataTypes'
    BY <1>3 DEF Begin, CheckRateLimit, DataTypes
  <1>4. ASSUME NEW c \in Caller, NEW a \in Adapter, TimesOut(c, a) \/ Fails(c, a)
        PROVE  DataTypes'
    BY <1>4 DEF TimesOut, Fails, DataTypes
  <1>5. ASSUME NEW c \in Caller, NEW a \in Adapter, Request(c, a) PROVE DataTypes'
    BY <1>5 DEF Request, DataTypes
  <1>6. ASSUME NEW c \in Caller, NEW a \in Adapter, Succeeds(c, a) PROVE DataTypes'
    BY <1>6 DEF Succeeds, DataTypes
  <1>7. ASSUME NEW c \in Caller, NEW a \in Adapter, RateLimitError(c, a) PROVE DataTypes'
    BY <1>7 DEF RateLimitError, DataTypes
  <1>8. ASSUME NEW c \in Caller, NEW a \in Adapter, BackoffEnds(c, a) PROVE DataTypes'
    BY <1>8 DEF BackoffEnds, DataTypes
  <1>9. ASSUME NEW a \in Adapter, CheckPasses(a) \/ CheckFails(a) PROVE DataTypes'
    <2>1. (a \in Estimating) \in BOOLEAN
      OBVIOUS
    <2>2. QED
      BY <1>9, <2>1 DEF CheckPasses, CheckFails, DataTypes
  <1>10. ASSUME NEW a \in Adapter, EntryAges(a) \/ Invalid(a) PROVE DataTypes'
    BY <1>10 DEF EntryAges, Invalid, DataTypes
  <1>11. CASE ClearCaches
    BY <1>11 DEF ClearCaches, DataTypes
  <1>12. CASE DayChanges
    BY <1>12, WaitingFinite DEF DayChanges, DataTypes
  <1>13. CASE UNCHANGED vars
    BY <1>13 DEF vars, DataTypes
  <1>14. QED
    BY <1>1, <1>2, <1>3, <1>4, <1>5, <1>6, <1>7, <1>8, <1>9, <1>10, <1>11, <1>12, <1>13
    DEF Next, Proceeds, Answers

LEMMA InitIInv == Init => IInv
  BY ConstantsNat DEF Init, IInv, TypeOK, AskedOfThose, At, Task, Idle

LEMMA NextIInv == IInv /\ [Next]_vars => IInv'
  <1> SUFFICES ASSUME IInv, [Next]_vars PROVE IInv'
    OBVIOUS
  <1>1. DataTypes'
    BY DataTypesKept DEF IInv, TypeOK, DataTypes
  <1>2. task' \in [Caller -> Task] /\ AskedOfThose'
    <2>1. CASE task' = task
      BY <2>1 DEF IInv, TypeOK, AskedOfThose, At
    <2>2. CASE \E c \in Caller : \E t : Kept(c, t)
      BY <2>2, StepKeeps
    <2>3. QED
      BY <2>1, <2>2, NextKeeps
  <1>3. QED
    BY <1>1, <1>2 DEF IInv, TypeOK, DataTypes

----------------------------------------------------------------------------------
(* The theorems                                                                      *)

\* Types: attempts and failures stay within their limits: base.py:254, 562.
THEOREM TypeCorrect == Spec => []TypeOK
  BY InitIInv, NextIInv, PTL DEF Spec, IInv

\* A fetch makes a bounded number of steps, whatever the providers answer and however
\* many callers fetch at once: base.py:254, registry.py:194.
THEOREM FetchesEnd == Spec => FetchAdvances
  <1>1. ASSUME IInv, [Next]_vars
        PROVE  [\A c \in Caller :
                  task[c] # Idle /\ task'[c] \notin {Idle, task[c]} =>
                      Shrinks(task[c], task'[c])]_vars
    BY <1>1, NextKeeps, StepKeeps
  <1>2. QED
    BY <1>1, InitIInv, NextIInv, PTL DEF Spec, FetchAdvances
----------------------------------------------------------------------------------
(* How many steps a fetch makes                                                      *)

\* one more than the steps left with one adapter
PerAdapter == 2 * MaxRetries + 2

Weight(t) == Cardinality(t.todo) * PerAdapter + StepsLeft(t)

LEMMA StepsLeftBounded ==
    ASSUME NEW t \in Fetching, t.pc = "request" => t.attempt = 1
    PROVE  StepsLeft(t) \in Nat /\ StepsLeft(t) < PerAdapter
  <1>1. t.attempt \in 0 .. MaxRetries /\ t.pc \in {"next", "request", "wait", "backoff"}
    BY DEF Fetching
  <1>2. QED
    BY <1>1, ConstantsNat DEF StepsLeft, PerAdapter

LEMMA AdapterFinite ==
    /\ IsFiniteSet(Adapter) /\ Cardinality(Adapter) = AdapterCount /\ AdapterCount \in Nat
  BY AdaptersAssumption, FS_Interval DEF Adapter

LEMMA TodoFinite ==
    ASSUME NEW S \in SUBSET Adapter
    PROVE  /\ IsFiniteSet(S) /\ Cardinality(S) \in Nat /\ Cardinality(S) <= AdapterCount
           /\ \A T \in SUBSET S : T # S => Cardinality(T) \in Nat /\ Cardinality(T) < Cardinality(S)
  <1>1. IsFiniteSet(S) /\ Cardinality(S) <= AdapterCount /\ Cardinality(S) \in Nat
    BY AdapterFinite, FS_Subset, FS_CardinalityType
  <1>2. ASSUME NEW T \in SUBSET S, T # S
        PROVE  Cardinality(T) \in Nat /\ Cardinality(T) < Cardinality(S)
    <2>1. /\ IsFiniteSet(T) /\ Cardinality(T) <= Cardinality(S)
          /\ Cardinality(T) # Cardinality(S)
      BY <1>1, <1>2, FS_Subset
    <2>2. Cardinality(T) \in Nat
      BY <2>1, FS_CardinalityType
    <2>3. QED
      BY <1>1, <2>1, <2>2
  <1>3. QED
    BY <1>1, <1>2

LEMMA ProductGrows ==
    ASSUME NEW m \in Nat, NEW n \in Nat, NEW k \in Nat, m <= n
    PROVE  m * k \in Nat /\ m * k <= n * k /\ (m < n => m * k + k <= n * k)
  <1>1. m * k \in Nat /\ n * k \in Nat /\ (n - m) \in Nat
    OBVIOUS
  <1>2. n * k = m * k + (n - m) * k
    OBVIOUS
  <1>3. (n - m) * k \in Nat
    BY <1>1
  <1>4. m < n => (n - m) * k >= k
    <2> SUFFICES ASSUME m < n PROVE (n - m) * k >= k
      OBVIOUS
    <2>1. PICK d \in Nat : n - m = d + 1
      <3>1. n - m - 1 \in Nat /\ n - m = (n - m - 1) + 1
        OBVIOUS
      <3>2. QED
        BY <3>1
    <2>2. (d + 1) * k = d * k + k /\ d * k \in Nat
      OBVIOUS
    <2>3. QED
      BY <2>1, <2>2
  <1>5. QED
    BY <1>1, <1>2, <1>3, <1>4

LEMMA WeightNat ==
    ASSUME NEW t \in Fetching, t.pc = "request" => t.attempt = 1
    PROVE  Weight(t) \in Nat /\ Weight(t) < (AdapterCount + 1) * PerAdapter
  <1>1. t.todo \in SUBSET Adapter
    BY DEF Fetching
  <1>2. Cardinality(t.todo) \in Nat /\ Cardinality(t.todo) <= AdapterCount /\ AdapterCount \in Nat
    BY <1>1, TodoFinite, AdapterFinite
  <1>3. StepsLeft(t) \in Nat /\ StepsLeft(t) < PerAdapter
    BY StepsLeftBounded
  <1>4. PerAdapter \in Nat
    BY ConstantsNat DEF PerAdapter
  <1>5. Cardinality(t.todo) * PerAdapter \in Nat
        /\ Cardinality(t.todo) * PerAdapter <= AdapterCount * PerAdapter
    BY <1>2, <1>4, ProductGrows
  <1>6. (AdapterCount + 1) * PerAdapter = AdapterCount * PerAdapter + PerAdapter
        /\ AdapterCount * PerAdapter \in Nat
    BY <1>2, <1>4
  <1>7. QED
    BY <1>3, <1>4, <1>5, <1>6 DEF Weight

\* A fetch that shrinks weighs less.
LEMMA ShrinksWeighsLess ==
    ASSUME NEW t \in Fetching, NEW u \in Fetching, Shrinks(t, u),
           t.pc = "request" => t.attempt = 1, u.pc = "request" => u.attempt = 1
    PROVE  Weight(u) < Weight(t)
  <1>1. t.todo \in SUBSET Adapter /\ u.todo \in SUBSET Adapter
    BY DEF Fetching
  <1>2. /\ StepsLeft(t) \in Nat /\ StepsLeft(u) \in Nat /\ StepsLeft(u) < PerAdapter
        /\ PerAdapter \in Nat
    BY StepsLeftBounded, ConstantsNat DEF PerAdapter
  <1>3. Cardinality(t.todo) \in Nat /\ Cardinality(u.todo) \in Nat
    BY <1>1, TodoFinite
  <1>4. CASE u.todo \subseteq t.todo /\ u.todo # t.todo
    <2>1. Cardinality(u.todo) < Cardinality(t.todo)
      BY <1>1, <1>4, TodoFinite
    <2>2. /\ Cardinality(u.todo) * PerAdapter + PerAdapter <= Cardinality(t.todo) * PerAdapter
          /\ Cardinality(u.todo) * PerAdapter \in Nat
      BY <1>2, <1>3, <2>1, ProductGrows
    <2>3. Cardinality(t.todo) * PerAdapter \in Nat
      BY <1>2, <1>3, ProductGrows
    <2>4. QED
      BY <1>2, <2>2, <2>3 DEF Weight
  <1>5. CASE u.todo = t.todo /\ StepsLeft(u) < StepsLeft(t)
    <2>1. Cardinality(t.todo) * PerAdapter \in Nat
      BY <1>2, <1>3, ProductGrows
    <2>2. QED
      BY <1>2, <1>5, <2>1 DEF Weight
  <1>6. QED
    BY <1>4, <1>5 DEF Shrinks

\* What is left of a fetch under way: fewer steps than that.
FetchWeighs ==
    \A c \in Caller :
        task[c] # Idle =>
            /\ Weight(task[c]) \in Nat
            /\ Weight(task[c]) < (AdapterCount + 1) * (2 * MaxRetries + 2)

\* Every step of a fetch leaves fewer.
FetchLosesWeight ==
    [][\A c \in Caller :
        task[c] # Idle /\ task'[c] \notin {Idle, task[c]} =>
            Weight(task'[c]) < Weight(task[c])]_vars

LEMMA FetchFacts ==
    ASSUME IInv, NEW c \in Caller, task[c] # Idle
    PROVE  task[c] \in Fetching /\ (task[c].pc = "request" => task[c].attempt = 1)
  <1>1. task[c] \in Fetching
    BY DEF IInv, TypeOK, Task, Fetching
  <1>2. task[c].pc = "request" => task[c].attempt = 1
    BY DEF IInv, AskedOfThose, At
  <1>3. QED
    BY <1>1, <1>2

\* A fetch ends after fewer than (AdapterCount + 1) * (2 * MaxRetries + 2) steps of its own:
\* it begins below that weight, and each step takes weight from it (base.py:254,
\* registry.py:194).
THEOREM FetchesAreShort == Spec => []FetchWeighs /\ FetchLosesWeight
  <1>1. IInv => FetchWeighs
    BY FetchFacts, WeightNat DEF FetchWeighs, PerAdapter
  <1>2. ASSUME IInv, IInv', [Next]_vars
        PROVE  [\A c \in Caller :
                  task[c] # Idle /\ task'[c] \notin {Idle, task[c]} =>
                      Weight(task'[c]) < Weight(task[c])]_vars
    <2> SUFFICES ASSUME NEW c \in Caller, task[c] # Idle, task'[c] \notin {Idle, task[c]}
                 PROVE  Weight(task'[c]) < Weight(task[c])
      OBVIOUS
    <2>1. Shrinks(task[c], task'[c])
      BY <1>2, NextKeeps, StepKeeps
    <2>2. task[c] \in Fetching /\ (task[c].pc = "request" => task[c].attempt = 1)
      BY <1>2, FetchFacts
    <2>3. task'[c] \in Fetching /\ (task'[c].pc = "request" => task'[c].attempt = 1)
      <3>1. task'[c] \in Fetching
        BY <1>2 DEF IInv, TypeOK, Task, Fetching
      <3>2. task'[c].pc = "request" => task'[c].attempt = 1
        BY <1>2 DEF IInv, AskedOfThose, At
      <3>3. QED
        BY <3>1, <3>2
    <2>4. QED
      BY <2>1, <2>2, <2>3, ShrinksWeighsLess
  <1>3. QED
    BY <1>1, <1>2, InitIInv, NextIInv, PTL DEF Spec, FetchLosesWeight

----------------------------------------------------------------------------------
(* A fetch has a step to make                                                        *)

\* The guards of Proceeds: there is no adapter left, or a next one, which has a fresh entry,
\* is at its limit or may be asked, or one is asked, whose time may be over.
CanProceed(c) ==
    \/ At(c, {"next"}) /\ task[c].todo = {}
    \/ \E a \in Adapter : (At(c, {"next"}) /\ IsNext(c, a)) \/ Asked(c, a)

FetchProceeds == \A c \in Caller : task[c] # Idle => CanProceed(c)

LEMMA LeastAdapter ==
    ASSUME NEW S \in SUBSET Adapter, S # {}
    PROVE  \E a \in S : \A b \in S : a <= b
  <1> DEFINE R == OpToRel(<, Nat)
  <1>1. \A x \in S : x \in Nat
    BY AdaptersAssumption DEF Adapter
  <1>2. \E x \in S : \A y \in S : <<y, x>> \notin R
    <2> HIDE DEF R
    <2>1. IsWellFoundedOn(R, Nat)
      BY NatLessThanWellFounded DEF R
    <2>2. S \in SUBSET Nat
      BY <1>1
    <2>3. QED
      BY <2>1, <2>2, WFMin
  <1>3. \A x, y \in Nat : y < x => <<y, x>> \in R
    BY DEF OpToRel
  <1> HIDE DEF R
  <1>4. PICK x \in S : \A y \in S : <<y, x>> \notin R
    BY <1>2
  <1>5. \A y \in S : ~(y < x)
    BY <1>1, <1>3, <1>4
  <1>6. QED
    BY <1>1, <1>5

\* What the check of ENABLED shows of a small instance, on the guards: a fetch never waits
\* for a provider alone (registry.py:200, 208, base.py:208).
THEOREM FetchCanProceed == Spec => []FetchProceeds
  <1>1. ASSUME IInv, NEW c \in Caller, task[c] # Idle PROVE CanProceed(c)
    <2>1. task[c] \in Fetching
      BY <1>1, FetchFacts
    <2>2. CASE task[c].pc = "next"
      <3>1. CASE task[c].todo = {}
        BY <2>2, <3>1 DEF CanProceed, At
      <3>2. CASE task[c].first \in task[c].todo
        <4>1. task[c].first \in Adapter /\ IsNext(c, task[c].first)
          BY <2>1, <3>2 DEF IsNext, Fetching
        <4>2. QED
          BY <2>2, <4>1 DEF CanProceed, At
      <3>3. CASE task[c].todo # {} /\ task[c].first \notin task[c].todo
        <4>1. PICK a \in task[c].todo : \A b \in task[c].todo : a <= b
          BY <2>1, <3>3, LeastAdapter DEF Fetching
        <4>2. a \in Adapter /\ IsNext(c, a)
          BY <2>1, <3>3, <4>1 DEF IsNext, Fetching
        <4>3. QED
          BY <2>2, <4>2 DEF CanProceed, At
      <3>4. QED
        BY <3>1, <3>2, <3>3
    <2>3. CASE task[c].pc # "next"
      <3>1. At(c, {"request", "wait", "backoff"})
        BY <2>1, <2>3 DEF Fetching, At
      <3>2. task[c].first \in Adapter
        BY <1>1, <2>1, <3>1 DEF IInv, AskedOfThose, Fetching
      <3>3. QED
        BY <3>1, <3>2 DEF CanProceed, Asked
    <2>4. QED
      BY <2>2, <2>3
  <1>2. IInv => FetchProceeds
    BY <1>1 DEF FetchProceeds
  <1>3. QED
    BY <1>2, InitIInv, NextIInv, PTL DEF Spec

----------------------------------------------------------------------------------
(* The limit of a day                                                                *)

\* the requests that a fetch may still send to a
UnsentOf(t, a) ==
    IF t.pc \in {"request", "wait", "backoff"} /\ t.first = a
    THEN {n \in 1 .. MaxRetries : t.pc = "request" \/ n > t.attempt}
    ELSE {}

\* every request that the callers' fetches may send between them
Requests == Caller \X (1 .. MaxRetries)

Unsent(a) == {x \in Requests : x[2] \in UnsentOf(task[x[1]], a)}

\* What was sent today and what may still be sent fit together: whoever checks the limit
\* finds less than it, and then every caller may send all its requests.  What is forgotten
\* when the count begins is what the callers could send when the day changed.
Daily(a) ==
    /\ (a \in Limited /\ dated[a]) \/ used[a] = 0
    /\ used[a] + Cardinality(Unsent(a)) <= PerDay - 1 + Cardinality(Requests)
    /\ a \in Limited =>
         IF dated[a] THEN sent[a] <= used[a] + Cardinality(Requests)
                     ELSE sent[a] + Cardinality(Unsent(a)) <= Cardinality(Requests)

DailyInv == \A a \in Adapter : Daily(a)

LEMMA RequestsFinite ==
    /\ IsFiniteSet(Requests)
    /\ Cardinality(Requests) = MaxRetries * Cardinality(Caller)
    /\ Cardinality(Requests) \in Nat
  <1>1. IsFiniteSet(1 .. MaxRetries) /\ Cardinality(1 .. MaxRetries) = MaxRetries
    BY ConstantsNat, FS_Interval
  <1>2. IsFiniteSet(Caller) /\ Cardinality(Caller) \in Nat
    BY AdaptersAssumption, FS_CardinalityType
  <1>3. /\ IsFiniteSet(Requests)
        /\ Cardinality(Requests) = Cardinality(Caller) * MaxRetries
    BY <1>1, <1>2, FS_Product DEF Requests
  <1>4. Cardinality(Caller) * MaxRetries = MaxRetries * Cardinality(Caller)
    BY <1>2, ConstantsNat
  <1>5. QED
    BY <1>3, <1>4, FS_CardinalityType

LEMMA UnsentFinite ==
    ASSUME NEW S \in SUBSET Requests
    PROVE  /\ IsFiniteSet(S) /\ Cardinality(S) \in Nat
           /\ Cardinality(S) <= Cardinality(Requests)
           /\ \A T \in SUBSET S : Cardinality(T) \in Nat /\ Cardinality(T) <= Cardinality(S)
  <1>1. IsFiniteSet(S) /\ Cardinality(S) <= Cardinality(Requests)
    BY RequestsFinite, FS_Subset
  <1>2. \A T \in SUBSET S : IsFiniteSet(T) /\ Cardinality(T) <= Cardinality(S)
    BY <1>1, FS_Subset
  <1>3. QED
    BY <1>1, <1>2, FS_CardinalityType

\* Nothing is counted and nothing more may be sent.
LEMMA QuietDaily ==
    ASSUME DataTypes, NEW a \in Adapter, Daily(a),
           used'[a] = used[a], dated'[a] = dated[a], sent'[a] = sent[a],
           Unsent(a)' \subseteq Unsent(a)
    PROVE  Daily(a)'
  <1>1. Unsent(a) \in SUBSET Requests
    BY DEF Unsent
  <1>2. /\ Cardinality(Unsent(a)') <= Cardinality(Unsent(a))
        /\ Cardinality(Unsent(a)') \in Nat /\ Cardinality(Unsent(a)) \in Nat
        /\ Cardinality(Requests) \in Nat
    BY <1>1, UnsentFinite, RequestsFinite
  <1>3. used[a] \in Nat /\ sent[a] \in Nat /\ PerDay \in Nat
    BY AdaptersAssumption DEF DataTypes
  <1>4. used'[a] + Cardinality(Unsent(a)') <= PerDay - 1 + Cardinality(Requests)
    BY <1>2, <1>3 DEF Daily
  <1>5. a \in Limited =>
          IF dated'[a] THEN sent'[a] <= used'[a] + Cardinality(Requests)
                       ELSE sent'[a] + Cardinality(Unsent(a)') <= Cardinality(Requests)
    BY <1>2, <1>3 DEF Daily
  <1>6. QED
    BY <1>4, <1>5 DEF Daily

\* The count is below the limit: then all requests fit.
LEMMA CheckedDaily ==
    ASSUME NEW a \in Adapter, (used'[a] = 0) \/ (a \in Limited /\ dated'[a]),
           used'[a] \in Nat, used'[a] <= PerDay - 1,
           a \in Limited =>
             IF dated'[a] THEN sent'[a] <= used'[a] + Cardinality(Requests)
                          ELSE sent'[a] + Cardinality(Unsent(a)') <= Cardinality(Requests)
    PROVE  Daily(a)'
  <1>1. Unsent(a)' \in SUBSET Requests
    BY DEF Unsent
  <1>2. Cardinality(Unsent(a)') \in Nat /\ Cardinality(Unsent(a)') <= Cardinality(Requests)
        /\ Cardinality(Requests) \in Nat
    BY <1>1, UnsentFinite, RequestsFinite
  <1>3. PerDay \in Nat
    BY AdaptersAssumption
  <1>4. used'[a] + Cardinality(Unsent(a)') <= PerDay - 1 + Cardinality(Requests)
    BY <1>2, <1>3
  <1>5. QED
    BY <1>4 DEF Daily

\* A fetch that may send no more than before adds nothing to what is unsent.
LEMMA FewerUnsent ==
    ASSUME TypeOK, NEW c \in Caller, NEW t, task' = [task EXCEPT ![c] = t], NEW a \in Adapter,
           UnsentOf(t, a) \subseteq UnsentOf(task[c], a)
    PROVE  Unsent(a)' \subseteq Unsent(a)
  <1>1. \A d \in Caller : task'[d] = IF d = c THEN t ELSE task[d]
    BY DEF TypeOK
  <1>2. SUFFICES ASSUME NEW x \in Requests, x[2] \in UnsentOf(task'[x[1]], a)
                 PROVE  x[2] \in UnsentOf(task[x[1]], a)
    BY DEF Unsent, UnsentOf
  <1>3. x[1] \in Caller
    BY DEF Requests
  <1>4. CASE x[1] = c
    <2>1. task'[x[1]] = t
      BY <1>1, <1>3, <1>4
    <2>2. QED
      BY <1>2, <1>4, <2>1
  <1>5. CASE x[1] # c
    <2>1. task'[x[1]] = task[x[1]]
      BY <1>1, <1>3, <1>5
    <2>2. QED
      BY <1>2, <2>1
  <1>6. QED
    BY <1>4, <1>5

\* Sending request n of a fetch takes it from what is unsent, and counts it where requests
\* are counted.
LEMMA SendDaily ==
    ASSUME IInv, NEW c \in Caller, NEW a \in Adapter, DailyInv, RecordRequest(a),
           UNCHANGED dated, NEW t, task' = [task EXCEPT ![c] = t],
           NEW n \in UnsentOf(task[c], a),
           UnsentOf(t, a) \subseteq UnsentOf(task[c], a) \ {n},
           \A b \in Adapter \ {a} : UnsentOf(t, b) = {}
    PROVE  DailyInv'
  <1>0. DataTypes /\ TypeOK
    BY DEF IInv, TypeOK, DataTypes
  <1>1. SUFFICES ASSUME NEW b \in Adapter PROVE Daily(b)'
    BY DEF DailyInv
  <1>2. Daily(b)
    BY DEF DailyInv
  <1>3. Unsent(b)' \subseteq Unsent(b)
    <2>1. UnsentOf(t, b) \subseteq UnsentOf(task[c], b)
      OBVIOUS
    <2>2. QED
      BY <1>0, <2>1, FewerUnsent
  <1>4. CASE b # a \/ a \notin Limited
    <2>1. used'[b] = used[b] /\ sent'[b] = sent[b]
      BY <1>0, <1>4 DEF RecordRequest, DataTypes
    <2>2. QED
      BY <1>0, <1>2, <1>3, <2>1, QuietDaily
  <1>5. CASE b = a /\ a \in Limited
    <2> DEFINE x == <<c, n>>
    <2>1. /\ used'[a] = IF dated[a] THEN used[a] + 1 ELSE used[a]
          /\ sent'[a] = sent[a] + 1 /\ dated'[a] = dated[a]
      BY <1>0, <1>5 DEF RecordRequest, DataTypes
    <2>2. x \in Unsent(a)
      BY DEF Unsent, UnsentOf, Requests
    <2>3. Unsent(a)' \subseteq Unsent(a) \ {x}
      <3>1. x \notin Unsent(a)'
        <4>1. task'[c] = t
          BY <1>0 DEF TypeOK
        <4>2. n \notin UnsentOf(task'[c], a)
          BY <4>1
        <4>3. QED
          BY <4>2 DEF Unsent, UnsentOf
      <3>2. QED
        BY <1>3, <1>5, <3>1
    <2>4. Unsent(a) \in SUBSET Requests
      BY DEF Unsent
    <2> HIDE DEF x
    <2>5. Cardinality(Unsent(a) \ {x}) = Cardinality(Unsent(a)) - 1
      BY <2>2, <2>4, UnsentFinite, FS_RemoveElement
    <2>6. /\ Cardinality(Unsent(a)') <= Cardinality(Unsent(a) \ {x})
          /\ Cardinality(Unsent(a)') \in Nat /\ Cardinality(Unsent(a)) \in Nat
          /\ Cardinality(Unsent(a) \ {x}) \in Nat /\ Cardinality(Requests) \in Nat
      <3>1. Unsent(a) \ {x} \in SUBSET Requests
        BY <2>4
      <3>2. QED
        BY <2>3, <2>4, <3>1, UnsentFinite, RequestsFinite
    <2>7. used[a] \in Nat /\ sent[a] \in Nat /\ PerDay \in Nat
      BY <1>0, AdaptersAssumption DEF DataTypes
    <2>8. used'[a] + Cardinality(Unsent(a)') <= PerDay - 1 + Cardinality(Requests)
      BY <1>2, <1>5, <2>1, <2>5, <2>6, <2>7 DEF Daily
    <2>9. IF dated'[a] THEN sent'[a] <= used'[a] + Cardinality(Requests)
                       ELSE sent'[a] + Cardinality(Unsent(a)') <= Cardinality(Requests)
      BY <1>2, <1>5, <2>1, <2>5, <2>6, <2>7 DEF Daily
    <2>10. dated'[a] \/ used'[a] = 0
      BY <1>2, <1>5, <2>1 DEF Daily
    <2>11. QED
      BY <1>5, <2>8, <2>9, <2>10 DEF Daily
  <1>6. QED
    BY <1>4, <1>5

\* A step that counts nothing, after which its fetch may send no more than before.
LEMMA QuietStepDaily ==
    ASSUME IInv, DailyInv, UNCHANGED quota,
           \/ UNCHANGED task
           \/ \E c \in Caller : \E t :
                /\ task' = [task EXCEPT ![c] = t]
                /\ \A a \in Adapter : UnsentOf(t, a) \subseteq UnsentOf(task[c], a)
    PROVE  DailyInv'
  <1>1. SUFFICES ASSUME NEW a \in Adapter PROVE Daily(a)'
    BY DEF DailyInv
  <1>2. Unsent(a)' \subseteq Unsent(a)
    <2>1. CASE UNCHANGED task
      BY <2>1 DEF Unsent, UnsentOf
    <2>2. CASE ~UNCHANGED task
      BY <2>2, FewerUnsent DEF IInv
    <2>3. QED
      BY <2>1, <2>2
  <1>3. DataTypes /\ Daily(a)
    BY DEF IInv, TypeOK, DataTypes, DailyInv
  <1>4. QED
    BY <1>2, <1>3, QuietDaily DEF quota

\* A fetch that goes on to the next adapter or returns will send nothing of its own.
LEMMA EndDaily ==
    ASSUME IInv, DailyInv, UNCHANGED quota, NEW c \in Caller, NEW a \in Adapter,
           ReturnStale(c, a) \/ Return(c) \/ PassOn(c, a)
    PROVE  DailyInv'
  <1>1. CASE Return(c)
    <2>1. \A b \in Adapter : UnsentOf(Idle, b) = {}
      BY DEF UnsentOf, Idle
    <2>2. QED
      BY <1>1, <2>1, QuietStepDaily DEF Return
  <1>2. CASE PassOn(c, a)
    <2> DEFINE t == [pc |-> "next", todo |-> task[c].todo \ {a}, first |-> None, attempt |-> 0]
    <2>1. task' = [task EXCEPT ![c] = t]
      BY <1>2 DEF PassOn, IInv, TypeOK
    <2>2. \A b \in Adapter : UnsentOf(t, b) = {}
      BY DEF UnsentOf
    <2> HIDE DEF t
    <2>3. QED
      BY <2>1, <2>2, QuietStepDaily
  <1>3. QED
    BY <1>1, <1>2 DEF ReturnStale

LEMMA FetchDaily == ASSUME IInv, DailyInv, NEW c \in Caller, Fetch(c) PROVE DailyInv'
  <1>1. PICK first \in Candidates :
            task' = [task EXCEPT ![c] =
                [pc |-> "next", todo |-> Candidates, first |-> first, attempt |-> 0]]
    BY DEF Fetch
  <1> DEFINE t == [pc |-> "next", todo |-> Candidates, first |-> first, attempt |-> 0]
  <1>2. \A b \in Adapter : UnsentOf(t, b) = {}
    BY DEF UnsentOf
  <1>3. task' = [task EXCEPT ![c] = t] /\ UNCHANGED quota
    BY <1>1 DEF Fetch
  <1> HIDE DEF t
  <1>4. QED
    BY <1>2, <1>3, QuietStepDaily

\* The check of the limit is passed: the fetch will ask a, and no other.
LEMMA BeginDaily ==
    ASSUME IInv, IInv', DailyInv, NEW c \in Caller, NEW a \in Adapter, Begin(c, a)
    PROVE  DailyInv'
  <1>0. DataTypes /\ TypeOK
    BY DEF IInv, TypeOK, DataTypes
  <1>1. SUFFICES ASSUME NEW b \in Adapter PROVE Daily(b)'
    BY DEF DailyInv
  <1>2. Daily(b) /\ CheckRateLimit(a)
    BY DEF DailyInv, Begin
  <1>3. CASE b = a
    <2>1. /\ used'[a] = used[a] /\ used[a] \in Nat /\ sent'[a] = sent[a] /\ sent[a] \in Nat
          /\ PerDay \in Nat /\ PerDay > 0
      BY <1>0, <1>2, AdaptersAssumption DEF CheckRateLimit, DataTypes
    <2>2. dated'[a] = (a \in Limited)
      BY <1>0, <1>2 DEF CheckRateLimit, DataTypes
    <2>3. a \in Limited => sent'[a] <= used'[a] + Cardinality(Requests)
      <3>1. Unsent(a) \in SUBSET Requests
        BY DEF Unsent
      <3>2. Cardinality(Unsent(a)) \in Nat /\ Cardinality(Requests) \in Nat
        BY <3>1, UnsentFinite, RequestsFinite
      <3>3. QED
        BY <1>2, <1>3, <2>1, <3>2 DEF Daily
    <2>4. CASE a \in Limited /\ dated[a]
      <3>1. used[a] < PerDay
        BY <1>2, <2>4 DEF CheckRateLimit
      <3>2. used'[a] <= PerDay - 1
        BY <2>1, <3>1
      <3>3. QED
        BY <1>3, <2>1, <2>2, <2>3, <2>4, <3>2, CheckedDaily
    <2>5. CASE ~(a \in Limited /\ dated[a])
      <3>1. used[a] = 0
        BY <1>2, <1>3, <2>5 DEF Daily
      <3>2. used'[a] = 0 /\ used'[a] <= PerDay - 1 /\ used'[a] \in Nat
        BY <2>1, <3>1
      <3>3. a \in Limited => dated'[a]
        BY <2>2
      <3>4. QED
        BY <1>3, <2>3, <3>2, <3>3, CheckedDaily
    <2>6. QED
      BY <2>4, <2>5
  <1>4. CASE b # a
    <2> DEFINE t == [pc |-> "request", todo |-> task[c].todo, first |-> a, attempt |-> 1]
    <2>1. task' = [task EXCEPT ![c] = t]
      BY DEF Begin
    <2>2. UnsentOf(t, b) = {}
      BY <1>4 DEF UnsentOf
    <2> HIDE DEF t
    <2>3. Unsent(b)' \subseteq Unsent(b)
      BY <1>0, <2>1, <2>2, FewerUnsent
    <2>4. used'[b] = used[b] /\ dated'[b] = dated[b] /\ sent'[b] = sent[b]
      BY <1>0, <1>2, <1>4 DEF CheckRateLimit, DataTypes
    <2>5. QED
      BY <1>0, <1>2, <2>3, <2>4, QuietDaily
  <1>5. QED
    BY <1>3, <1>4

LEMMA RequestDaily ==
    ASSUME IInv, DailyInv, NEW c \in Caller, NEW a \in Adapter, Request(c, a) PROVE DailyInv'
  <1> DEFINE t == [task[c] EXCEPT !.pc = "wait"]
  <1>1. task[c] \in Fetching /\ task[c].pc = "request" /\ task[c].attempt = 1
        /\ task[c].first = a
    BY AskedFacts DEF Request, At, Asked
  <1>2. t.pc = "wait" /\ t.first = a /\ t.attempt = 1
    BY <1>1 DEF Fetching
  <1>3. task' = [task EXCEPT ![c] = t] /\ RecordRequest(a) /\ UNCHANGED dated
    BY DEF Request
  <1> HIDE DEF t
  <1>4. 1 \in UnsentOf(task[c], a)
    BY <1>1, ConstantsNat DEF UnsentOf
  <1>5. UnsentOf(t, a) \subseteq UnsentOf(task[c], a) \ {1}
    BY <1>1, <1>2 DEF UnsentOf
  <1>6. \A b \in Adapter \ {a} : UnsentOf(t, b) = {}
    BY <1>2 DEF UnsentOf
  <1>7. QED
    BY <1>3, <1>4, <1>5, <1>6, SendDaily

LEMMA RetriesDaily ==
    ASSUME IInv, DailyInv, NEW c \in Caller, NEW a \in Adapter, Retries(c, a) PROVE DailyInv'
  <1> DEFINE t == [task[c] EXCEPT !.pc = "backoff"]
  <1>1. task[c] \in Fetching /\ task[c].pc = "wait"
    BY AskedFacts DEF Retries, At, Asked
  <1>2. t.pc = "backoff" /\ t.first = task[c].first /\ t.attempt = task[c].attempt
    BY <1>1 DEF Fetching
  <1>3. task' = [task EXCEPT ![c] = t] /\ UNCHANGED quota
    BY DEF Retries
  <1> HIDE DEF t
  <1>4. \A b \in Adapter : UnsentOf(t, b) \subseteq UnsentOf(task[c], b)
    BY <1>1, <1>2 DEF UnsentOf
  <1>5. QED
    BY <1>3, <1>4, QuietStepDaily

LEMMA BackoffEndsDaily ==
    ASSUME IInv, DailyInv, NEW c \in Caller, NEW a \in Adapter, BackoffEnds(c, a)
    PROVE  DailyInv'
  <1>1. task[c] \in Fetching /\ task[c].pc = "backoff" /\ task[c].first = a
    BY AskedFacts DEF BackoffEnds, At, Asked
  <1> DEFINE n == task[c].attempt + 1
             t == [pc |-> "wait", todo |-> task[c].todo, first |-> a, attempt |-> n]
  <1>2. task[c].attempt \in 0 .. MaxRetries
    BY <1>1 DEF Fetching
  <1>3. CASE task[c].attempt < MaxRetries /\ RecordRequest(a) /\ task' = [task EXCEPT ![c] = t]
    <2>1. n \in 1 .. MaxRetries /\ n > task[c].attempt
      BY <1>2, <1>3, ConstantsNat
    <2>2. t.pc = "wait" /\ t.first = a /\ t.attempt = n
      OBVIOUS
    <2>3. task' = [task EXCEPT ![c] = t] /\ UNCHANGED dated
      BY <1>3 DEF BackoffEnds
    <2>4. \A m \in 1 .. MaxRetries : m > n => m > task[c].attempt /\ m # n
      BY <1>2
    <2> HIDE DEF n, t
    <2>5. n \in UnsentOf(task[c], a)
      BY <1>1, <2>1 DEF UnsentOf
    <2>6. UnsentOf(t, a) \subseteq UnsentOf(task[c], a) \ {n}
      BY <1>1, <2>2, <2>4 DEF UnsentOf
    <2>7. \A b \in Adapter \ {a} : UnsentOf(t, b) = {}
      BY <2>2 DEF UnsentOf
    <2>8. QED
      BY <1>3, <2>3, <2>5, <2>6, <2>7, SendDaily
  <1>4. CASE ReturnStale(c, a) /\ UNCHANGED <<used, sent>>
    <2>1. UNCHANGED quota
      BY <1>4 DEF BackoffEnds, quota
    <2>2. QED
      BY <1>4, <2>1, EndDaily
  <1>5. QED
    BY <1>3, <1>4 DEF BackoffEnds

\* Whoever waits for an answer has sent a request of its own.
LEMMA WaitingFits ==
    ASSUME IInv, NEW a \in Adapter
    PROVE  Cardinality(Waiting(a)) + Cardinality(Unsent(a)) <= Cardinality(Requests)
  <1> DEFINE Left == Requests \ Unsent(a)
             f == [c \in Waiting(a) |-> <<c, task[c].attempt>>]
  <1>1. ASSUME NEW c \in Waiting(a) PROVE <<c, task[c].attempt>> \in Left
    <2>1. c \in Caller /\ Asked(c, a) /\ task[c].pc = "wait"
      BY DEF Waiting, At
    <2>2. task[c] \in Fetching /\ task[c].attempt > 0
      BY <2>1, AskedFacts
    <2>3. task[c].attempt \in 1 .. MaxRetries
      BY <2>2, ConstantsNat DEF Fetching
    <2>4. task[c].attempt \notin UnsentOf(task[c], a)
      BY <2>1, <2>3 DEF UnsentOf
    <2>5. QED
      BY <2>1, <2>3, <2>4 DEF Unsent, Requests
  <1>2. f \in Injection(Waiting(a), Left)
    <2>1. f \in [Waiting(a) -> Left]
      BY <1>1
    <2>2. \A c, d \in Waiting(a) : f[c] = f[d] => c = d
      OBVIOUS
    <2> HIDE DEF f, Left
    <2>3. QED
      BY <2>1, <2>2, Fun_IsInj
  <1>3. Unsent(a) \in SUBSET Requests
    BY DEF Unsent
  <1>4. /\ IsFiniteSet(Left) /\ Cardinality(Left) = Cardinality(Requests) - Cardinality(Unsent(a))
    <2>1. Requests \cap Unsent(a) = Unsent(a)
      BY <1>3
    <2> DEFINE U == Unsent(a)
    <2> HIDE DEF f, U
    <2>2. /\ IsFiniteSet(Requests \ U)
          /\ Cardinality(Requests \ U) = Cardinality(Requests) - Cardinality(Requests \cap U)
      BY RequestsFinite, FS_Difference
    <2>3. QED
      BY <2>1, <2>2, Zenon DEF U
  <1> HIDE DEF Left, f
  <1>5. Cardinality(Waiting(a)) <= Cardinality(Left)
    BY <1>2, <1>4, FS_Injection
  <1>6. /\ Cardinality(Waiting(a)) \in Nat /\ Cardinality(Unsent(a)) \in Nat
        /\ Cardinality(Requests) \in Nat
    BY <1>3, WaitingFinite, UnsentFinite, RequestsFinite
  <1>7. QED
    BY <1>4, <1>5, <1>6

LEMMA InitDaily == Init => DailyInv
  <1> SUFFICES ASSUME Init, NEW a \in Adapter PROVE Daily(a)
    BY DEF DailyInv
  <1>1. used[a] = 0 /\ sent[a] = 0 /\ ~dated[a]
    BY DEF Init
  <1>2. Unsent(a) \in SUBSET Requests
    BY DEF Unsent
  <1>3. Cardinality(Unsent(a)) \in Nat /\ Cardinality(Unsent(a)) <= Cardinality(Requests)
        /\ Cardinality(Requests) \in Nat
    BY <1>2, UnsentFinite, RequestsFinite
  <1>4. PerDay \in Nat /\ PerDay > 0
    BY AdaptersAssumption
  <1>5. QED
    BY <1>1, <1>3, <1>4 DEF Daily

LEMMA NextDaily == IInv /\ IInv' /\ DailyInv /\ [Next]_vars => DailyInv'
  <1> SUFFICES ASSUME IInv, IInv', DailyInv, [Next]_vars PROVE DailyInv'
    OBVIOUS
  <1>1. ASSUME NEW c \in Caller, Proceeds(c) PROVE DailyInv'
    <2>1. CASE Exhausted(c)
      <3>1. PICK a \in Adapter : TRUE
        BY AdaptersAssumption DEF Adapter
      <3>2. Return(c) /\ UNCHANGED quota
        BY <2>1 DEF Exhausted
      <3>3. QED
        BY <3>1, <3>2, EndDaily
    <2>2. ASSUME NEW a \in Adapter, ReturnCached(c, a) \/ RateLimited(c, a) PROVE DailyInv'
      BY <2>2, EndDaily DEF ReturnCached, RateLimited
    <2>3. ASSUME NEW a \in Adapter, Begin(c, a) PROVE DailyInv'
      BY <2>3, BeginDaily
    <2>4. ASSUME NEW a \in Adapter, TimesOut(c, a) PROVE DailyInv'
      BY <2>4, EndDaily DEF TimesOut
    <2>5. QED
      BY <1>1, <2>1, <2>2, <2>3, <2>4 DEF Proceeds
  <1>2. ASSUME NEW c \in Caller, NEW a \in Adapter,
               \/ Request(c, a) \/ Succeeds(c, a) \/ Empty(c, a) \/ Fails(c, a)
               \/ RateLimitError(c, a) \/ Retries(c, a) \/ BackoffEnds(c, a)
        PROVE  DailyInv'
    <2>1. CASE Succeeds(c, a) \/ Empty(c, a) \/ Fails(c, a) \/ RateLimitError(c, a)
      <3>1. UNCHANGED quota
        BY <2>1 DEF Succeeds, Empty, Fails, RateLimitError
      <3>2. Return(c) \/ ReturnStale(c, a)
        BY <2>1 DEF Succeeds, Empty, Fails, RateLimitError
      <3>3. QED
        BY <3>1, <3>2, EndDaily
    <2>2. QED
      BY <1>2, <2>1, RequestDaily, RetriesDaily, BackoffEndsDaily
  <1>3. CASE DayChanges
    <2> SUFFICES ASSUME NEW a \in Adapter PROVE Daily(a)'
      BY DEF DailyInv
    <2>1. used'[a] = 0 /\ used'[a] \in Nat /\ used'[a] <= PerDay - 1 /\ ~dated'[a]
      BY <1>3, AdaptersAssumption DEF DayChanges
    <2>2. a \in Limited => sent'[a] + Cardinality(Unsent(a)') <= Cardinality(Requests)
      <3>1. a \in Limited => sent'[a] = Cardinality(Waiting(a))
        BY <1>3 DEF DayChanges
      <3>2. Unsent(a)' = Unsent(a)
        BY <1>3 DEF DayChanges, Unsent, UnsentOf
      <3>3. QED
        BY <3>1, <3>2, WaitingFits
    <2>3. QED
      BY <2>1, <2>2, CheckedDaily
  <1>4. CASE \/ \E a \in Adapter : Invalid(a) \/ CheckPasses(a) \/ CheckFails(a) \/ EntryAges(a)
             \/ ClearCaches \/ UNCHANGED vars
    <2>1. UNCHANGED quota /\ UNCHANGED task
      BY <1>4 DEF Invalid, CheckPasses, CheckFails, EntryAges, ClearCaches, vars
    <2>2. QED
      BY <2>1, QuietStepDaily
  <1>5. QED
    BY <1>1, <1>2, <1>3, <1>4, FetchDaily DEF Next, Answers

\* The calls of a day exceed the limit by no more than those of two fetches of each caller,
\* one whose runs the count forgot and one that the last check let through, for any number of
\* callers, adapters, retries and calls (base.py:202, 208, 254, 444, etherscan.py:172).
THEOREM DailyLimitHolds == Spec => []DailyBound
  <1>1. ASSUME IInv, DailyInv, NEW a \in Limited
        PROVE  sent[a] <= PerDay - 1 + 2 * MaxRetries * Cardinality(Caller)
    <2>1. a \in Adapter
      BY AdaptersAssumption
    <2>2. Unsent(a) \in SUBSET Requests
      BY DEF Unsent
    <2>3. Cardinality(Unsent(a)) \in Nat /\ Cardinality(Requests) \in Nat
          /\ Cardinality(Requests) = MaxRetries * Cardinality(Caller)
      BY <2>2, UnsentFinite, RequestsFinite
    <2>4. used[a] \in Nat /\ sent[a] \in Nat /\ PerDay \in Nat /\ PerDay > 0
      BY <1>1, <2>1, AdaptersAssumption DEF IInv, TypeOK
    <2>5. Daily(a)
      BY <1>1, <2>1 DEF DailyInv
    <2>6. used[a] <= PerDay - 1 + Cardinality(Requests)
      BY <2>3, <2>4, <2>5 DEF Daily
    <2>7. sent[a] <= used[a] + Cardinality(Requests)
      BY <2>3, <2>4, <2>5 DEF Daily
    <2>8. 2 * MaxRetries * Cardinality(Caller) = Cardinality(Requests) + Cardinality(Requests)
      <3>1. MaxRetries \in Nat /\ Cardinality(Caller) \in Nat
        BY ConstantsNat, AdaptersAssumption, FS_CardinalityType
      <3>2. QED
        BY <2>3, <3>1
    <2>9. QED
      BY <2>3, <2>4, <2>6, <2>7, <2>8
  <1>2. ASSUME IInv, DailyInv PROVE DailyBound
    <2> SUFFICES ASSUME NEW a \in Limited
                 PROVE  Calls(a) <= CallsPerFetch
                                      * (PerDay - 1 + 2 * MaxRetries * Cardinality(Caller))
      BY DEF DailyBound
    <2> DEFINE most == PerDay - 1 + 2 * MaxRetries * Cardinality(Caller)
    <2>1. sent[a] <= most
      BY <1>1, <1>2
    <2>2. /\ a \in Adapter /\ CallsPerFetch \in Nat /\ PerDay \in Nat /\ PerDay > 0
          /\ MaxRetries \in Nat /\ Cardinality(Caller) \in Nat
      BY AdaptersAssumption, FS_CardinalityType
    <2>3. sent[a] \in Nat /\ most \in Nat
      BY <1>2, <2>2 DEF IInv, TypeOK
    <2> HIDE DEF most
    <2>4. sent[a] * CallsPerFetch <= most * CallsPerFetch
      BY <2>1, <2>2, <2>3, ProductGrows
    <2>5. CallsPerFetch * sent[a] <= CallsPerFetch * most
      BY <2>2, <2>3, <2>4
    <2>6. QED
      BY <2>5 DEF Calls, most
  <1>3. QED
    BY <1>2, InitIInv, NextIInv, InitDaily, NextDaily, PTL DEF Spec
==================================================================================
