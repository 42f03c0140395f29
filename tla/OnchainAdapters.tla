----------------------------- MODULE OnchainAdapters -----------------------------
(* The on-chain adapters (onchain_adapters/base.py) and the registry that falls    *)
(* back from one to the next (registry.py): several tasks fetch the same metrics    *)
(* at once, a monitor checks the providers, and nothing is locked.                  *)
(*                                                                                  *)
(* An adapter is its place in the order of priority.  The cache holds one entry per *)
(* adapter, that of the request everyone makes, and the rate limit is the daily     *)
(* one.  Failures are counted up to the number that makes an adapter unavailable,   *)
(* as nothing looks at a higher one, and requests only where there is a limit.  The *)
(* monitor runs from the start.  Of an adapter's status all that matters is whether *)
(* is_usable() lets the registry ask it: HEALTHY and DEGRADED are, while UNKNOWN,   *)
(* RATE_LIMITED and UNAVAILABLE are not.                                            *)
EXTENDS Naturals, FiniteSets

CONSTANTS
    AdapterCount, Caller,
    Limited,            \* adapters with a rate_limit_per_day, and
    PerDay,             \* what it is
    CallsPerFetch,      \* the calls to the provider that one fetch_raw() makes, at most
    MaxRetries, DegradedAt, UnavailableAt,
    Impatient,          \* adapters whose own timeout is shorter than the registry's
    Estimating,         \* adapters that a failed health check only degrades
    Well,               \* adapters whose provider passes its health checks
    None

Adapter == 1 .. AdapterCount

ASSUME AdaptersAssumption ==
    /\ {AdapterCount, PerDay, CallsPerFetch, MaxRetries} \subseteq Nat \ {0}
    /\ {DegradedAt, UnavailableAt} \subseteq Nat \ {0}
    /\ DegradedAt <= UnavailableAt
    /\ Limited \cup Impatient \cup Estimating \cup Well \subseteq Adapter
    /\ None \notin Adapter
    /\ IsFiniteSet(Caller)

VARIABLES
    usable, failures,   \* AdapterHealth: whether status is usable; consecutive_failures
    cache,              \* the entry of the request: none, fresh, or older than it may be
    used, dated,        \* _requests_today; whether _last_request_date is today
    sent,               \* observed: the runs of fetch_raw() that called the provider today
    task                \* the fetch each caller is in

health == <<usable, failures>>
quota == <<used, dated, sent>>
vars == <<health, cache, quota, task>>

Idle == [pc |-> "idle"]
Task == {Idle} \cup [pc : {"next", "request", "wait", "backoff"}, todo : SUBSET Adapter,
                     first : Adapter \cup {None}, attempt : 0 .. MaxRetries]

Init ==
    /\ usable = [a \in Adapter |-> FALSE] /\ failures = [a \in Adapter |-> 0]
    /\ cache = [a \in Adapter |-> "none"]
    /\ used = [a \in Adapter |-> 0] /\ dated = [a \in Adapter |-> FALSE]
    /\ sent = [a \in Adapter |-> 0]
    /\ task = [c \in Caller |-> Idle]
----------------------------------------------------------------------------------
(* The registry's fetch                                                           *)

At(c, pcs) == task[c].pc \in pcs

\* the preferred adapter first, then by priority
IsNext(c, a) ==
    /\ a \in task[c].todo
    /\ task[c].first \in task[c].todo => a = task[c].first
    /\ task[c].first \notin task[c].todo => \A b \in task[c].todo : a <= b

\* is_usable() filters the adapters, unless none is left
Candidates ==
    LET usables == {a \in Adapter : usable[a]} IN IF usables = {} THEN Adapter ELSE usables

\* of a valid request; to prefer none is to prefer the first by priority
Fetch(c) ==
    /\ At(c, {"idle"})
    /\ \E first \in Candidates :
        task' = [task EXCEPT ![c] =
            [pc |-> "next", todo |-> Candidates, first |-> first, attempt |-> 0]]
    /\ UNCHANGED <<health, cache, quota>>

Return(c) == task' = [task EXCEPT ![c] = Idle]

\* a mutant: the adapter that failed is tried again
PassOnAgain(c, a) ==
    task' = [task EXCEPT ![c] = [pc |-> "next", todo |-> IF a = 1 THEN @.todo ELSE @.todo \ {a},
                                 first |-> None, attempt |-> 0]]

\* a gave nothing: the next adapter, and none when it was the last
PassOn(c, a) ==
    task' = [task EXCEPT ![c] = [pc |-> "next", todo |-> @.todo \ {a},
                                 first |-> None, attempt |-> 0]]

Exhausted(c) ==
    /\ At(c, {"next"}) /\ task[c].todo = {}
    /\ Return(c)
    /\ UNCHANGED <<health, cache, quota>>
----------------------------------------------------------------------------------
(* An adapter's fetch                                                             *)

\* the entry of the cache, whatever its age
ReturnStale(c, a) == IF cache[a] = "none" THEN PassOn(c, a) ELSE Return(c)

ReturnCached(c, a) ==
    /\ At(c, {"next"}) /\ IsNext(c, a)
    /\ cache[a] = "fresh"
    /\ Return(c)
    /\ UNCHANGED <<health, cache, quota>>

\* a mutant: the requests of today are not counted against the limit
CheckRateLimitNever(a) ==
    dated' = [dated EXCEPT ![a] = a \in Limited] /\ UNCHANGED <<used, sent>>

\* _check_rate_limit(), where the count of a new day begins: what was counted since the
\* day changed is forgotten, so used is 0 until then
CheckRateLimit(a) ==
    /\ a \in Limited /\ dated[a] => used[a] < PerDay
    /\ dated' = [dated EXCEPT ![a] = a \in Limited]
    /\ UNCHANGED <<used, sent>>

RateLimited(c, a) ==
    /\ At(c, {"next"}) /\ IsNext(c, a)
    /\ a \in Limited /\ dated[a] /\ used[a] >= PerDay
    /\ ReturnStale(c, a)
    /\ UNCHANGED <<health, cache, quota>>

\* the cache is cold, or the request does not want it
Begin(c, a) ==
    /\ At(c, {"next"}) /\ IsNext(c, a)
    /\ CheckRateLimit(a)
    /\ task' = [task EXCEPT ![c] = [pc |-> "request", todo |-> @.todo, first |-> a, attempt |-> 1]]
    /\ UNCHANGED <<health, cache>>

\* the adapter c is waiting for: Begin makes it the first of those that remain
Asked(c, a) == At(c, {"request", "wait", "backoff"}) /\ task[c].first = a

\* _record_request() and the run of fetch_raw() it announces: a run is sent whether or
\* not the count of its day has begun, and counts as one whatever calls it makes
RecordRequest(a) ==
    /\ used' = IF a \in Limited /\ dated[a] THEN [used EXCEPT ![a] = @ + 1] ELSE used
    /\ sent' = IF a \in Limited THEN [sent EXCEPT ![a] = @ + 1] ELSE sent

\* the task that wait_for() makes runs after its caller has yielded
Request(c, a) ==
    /\ Asked(c, a) /\ At(c, {"request"})
    /\ RecordRequest(a)
    /\ task' = [task EXCEPT ![c] = [@ EXCEPT !.pc = "wait"]]
    /\ UNCHANGED <<health, cache, dated>>

OnError(a) ==
    /\ failures' = [failures EXCEPT ![a] = IF @ < UnavailableAt THEN @ + 1 ELSE @]
    /\ usable' = [usable EXCEPT ![a] =
                     failures'[a] < UnavailableAt /\ (failures'[a] >= DegradedAt \/ @)]

Succeeds(c, a) ==
    /\ Asked(c, a) /\ At(c, {"wait"})
    /\ cache' = [cache EXCEPT ![a] = "fresh"]
    /\ usable' = [usable EXCEPT ![a] = TRUE] /\ failures' = [failures EXCEPT ![a] = 0]
    /\ Return(c)
    /\ UNCHANGED quota

Empty(c, a) ==
    /\ Asked(c, a) /\ At(c, {"wait"})
    /\ ReturnStale(c, a)
    /\ UNCHANGED <<health, cache, quota>>

\* a client error, or data that cannot be normalized
Fails(c, a) ==
    /\ Asked(c, a) /\ At(c, {"wait"})
    /\ OnError(a)
    /\ ReturnStale(c, a)
    /\ UNCHANGED <<cache, quota>>

RateLimitError(c, a) ==
    /\ Asked(c, a) /\ At(c, {"wait"})
    /\ failures' = [failures EXCEPT ![a] = IF @ < UnavailableAt THEN @ + 1 ELSE @]
    /\ usable' = [usable EXCEPT ![a] = FALSE]
    /\ ReturnStale(c, a)
    /\ UNCHANGED <<cache, quota>>

\* any other error is retried after a wait
Retries(c, a) ==
    /\ Asked(c, a) /\ At(c, {"wait"})
    /\ task' = [task EXCEPT ![c] = [@ EXCEPT !.pc = "backoff"]]
    /\ UNCHANGED <<health, cache, quota>>

\* a mutant: one attempt too many
BackoffEndsLate(c, a) ==
    /\ Asked(c, a) /\ At(c, {"backoff"})
    /\ \/ /\ task[c].attempt <= MaxRetries
          /\ RecordRequest(a)
          /\ task' = [task EXCEPT ![c] = [pc |-> "wait", todo |-> @.todo, first |-> a,
                                       attempt |-> @.attempt + 1]]
          /\ UNCHANGED health
       \/ /\ task[c].attempt > MaxRetries
          /\ OnError(a)
          /\ ReturnStale(c, a)
          /\ UNCHANGED <<used, sent>>
    /\ UNCHANGED <<cache, dated>>

BackoffEnds(c, a) ==
    /\ Asked(c, a) /\ At(c, {"backoff"})
    /\ \/ /\ task[c].attempt < MaxRetries
          /\ RecordRequest(a)
          /\ task' = [task EXCEPT ![c] = [pc |-> "wait", todo |-> @.todo, first |-> a,
                                       attempt |-> @.attempt + 1]]
          /\ UNCHANGED health
       \/ /\ task[c].attempt = MaxRetries
          /\ OnError(a)
          /\ ReturnStale(c, a)
          /\ UNCHANGED <<used, sent>>
    /\ UNCHANGED <<cache, dated>>

\* a mutant: the registry waits for the adapter without a limit of its own
TimesOutInside(c, a) ==
    /\ Asked(c, a)
    /\ a \in Impatient /\ OnError(a) /\ ReturnStale(c, a)
    /\ UNCHANGED <<cache, quota>>

\* the shorter timeout is the one that ends the wait: the adapter's handles it as an
\* error, the registry's cancels the adapter, which learns nothing
TimesOut(c, a) ==
    /\ Asked(c, a)
    /\ \/ a \in Impatient /\ OnError(a) /\ ReturnStale(c, a)
       \/ a \notin Impatient /\ PassOn(c, a) /\ UNCHANGED health
    /\ UNCHANGED <<cache, quota>>
----------------------------------------------------------------------------------
(* Other requests, the monitor, the operator and time                              *)

\* a fetch of a request that is not valid: validate() raises on each adapter that is asked,
\* which takes it for an error of its own, and nothing else comes of it
Invalid(a) ==
    /\ OnError(a)
    /\ UNCHANGED <<cache, quota, task>>

CheckPasses(a) ==
    /\ a \in Well
    /\ usable' = [usable EXCEPT ![a] = TRUE]
    /\ UNCHANGED <<failures, cache, quota, task>>

\* UNAVAILABLE, but for a provider that has estimates to offer, which is only DEGRADED
CheckFails(a) ==
    /\ a \notin Well
    /\ usable' = [usable EXCEPT ![a] = a \in Estimating]
    /\ UNCHANGED <<failures, cache, quota, task>>

EntryAges(a) ==
    /\ cache[a] = "fresh"
    /\ cache' = [cache EXCEPT ![a] = "old"]
    /\ UNCHANGED <<health, quota, task>>

ClearCaches ==
    /\ cache' = [a \in Adapter |-> "none"]
    /\ UNCHANGED <<health, quota, task>>

Waiting(a) == {c \in Caller : Asked(c, a) /\ At(c, {"wait"})}

\* what runs at midnight may make its calls on the new day
DayChanges ==
    /\ dated' = [a \in Adapter |-> FALSE]
    /\ used' = [a \in Adapter |-> 0]
    /\ sent' = [a \in Adapter |-> IF a \in Limited THEN Cardinality(Waiting(a)) ELSE 0]
    /\ UNCHANGED <<health, cache, task>>
----------------------------------------------------------------------------------
Answers(c) ==
    \E a \in Adapter : \/ Request(c, a) \/ Succeeds(c, a) \/ Empty(c, a) \/ Fails(c, a)
                       \/ RateLimitError(c, a) \/ Retries(c, a) \/ BackoffEnds(c, a)

\* what happens whether or not the provider answers
Proceeds(c) ==
    \/ Exhausted(c)
    \/ \E a \in Adapter : ReturnCached(c, a) \/ RateLimited(c, a) \/ Begin(c, a) \/ TimesOut(c, a)

Next ==
    \/ \E c \in Caller : Fetch(c) \/ Proceeds(c) \/ Answers(c)
    \/ \E a \in Adapter : Invalid(a) \/ CheckPasses(a) \/ CheckFails(a) \/ EntryAges(a)
    \/ ClearCaches \/ DayChanges

Spec == Init /\ [][Next]_vars
----------------------------------------------------------------------------------
(* Properties                                                                     *)

TypeOK ==
    /\ usable \in [Adapter -> BOOLEAN] /\ failures \in [Adapter -> 0 .. UnavailableAt]
    /\ cache \in [Adapter -> {"none", "fresh", "old"}]
    /\ used \in [Adapter -> Nat] /\ dated \in [Adapter -> BOOLEAN] /\ sent \in [Adapter -> Nat]
    /\ task \in [Caller -> Task]

\* the calls that the fetches of today have made, at most
Calls(a) == CallsPerFetch * sent[a]

(* How far the calls that the fetches of a day make may exceed the limit: it is checked    *)
(* once for a fetch, before a task is made that may run fetch_raw() several times, each     *)
(* run counted as one whatever calls it makes, while other callers check theirs; and a      *)
(* fetch under way when the day changes makes calls of the new day that are forgotten when  *)
(* its count begins (base.py:202, 208, 254, 444, 462; etherscan.py:172-206).                *)
DailyBound ==
    \A a \in Limited :
        Calls(a) <= CallsPerFetch * (PerDay - 1 + 2 * MaxRetries * Cardinality(Caller))

(* What the provider's limit is about, "100,000 calls/day" (etherscan.py:8).  It does not    *)
(* hold: the limit that is checked is one of fetches, not of calls.                          *)
WithinDailyLimit == \A a \in Limited : Calls(a) <= PerDay

(* A fetch never blocks its caller: whatever the providers do, or do not, it can go on,   *)
(* by a timeout if nothing else (registry.py:200, 208, base.py:208).                       *)
NeverStuck == \A c \in Caller : task[c] # Idle => ENABLED Proceeds(c)

\* the steps that are left with one adapter
StepsLeft(t) ==
    CASE t.pc = "next"    -> 2 * MaxRetries + 1
      [] t.pc = "request" -> 2 * MaxRetries
      [] t.pc = "wait"    -> 2 * (MaxRetries - t.attempt) + 1
      [] t.pc = "backoff" -> 2 * (MaxRetries - t.attempt)

Shrinks(t, u) ==
    \/ u.todo \subseteq t.todo /\ u.todo # t.todo
    \/ u.todo = t.todo /\ StepsLeft(u) < StepsLeft(t)

(* ... and does so a bounded number of times: each step leaves fewer adapters to ask, or   *)
(* the same with fewer steps left with the one being asked, so that retries, fall back and  *)
(* timeouts together end (base.py:254, registry.py:194).                                    *)
FetchAdvances ==
    [][\A c \in Caller :
        task[c] # Idle /\ task'[c] \notin {Idle, task[c]} => Shrinks(task[c], task'[c])]_vars
==================================================================================
