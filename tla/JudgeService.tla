---------------------------- MODULE JudgeService -----------------------------
(* The life of one judged request (serve/routes.py, run_one) among the others: *)
(* the slots of an asyncio.Semaphore with its queue of futures, the timeout on  *)
(* that queue, the worker threads taken from anyio's limiter, which the probes  *)
(* of /readyz and /v1/models take too, and the answer and the counters.         *)
(*                                                                             *)
(* An action is what the event loop or a worker thread does between two awaits. *)
(* The loop may run callbacks that are due in any order.                        *)
EXTENDS Integers, FiniteSets

CONSTANTS
    Requests,         \* calls of run_one, each made once
    BatchItems,       \* those made for the items of a batch
    Probes,           \* concurrent calls of /readyz or /v1/models, repeated
    Judges,           \* judge names
    EnabledJudges,    \* settings.enabled_judges
    LocalJudges,      \* LOCAL_JUDGES, the judges that read world state
    Payloads,         \* the request bodies considered
    MaxSteps,         \* settings.max_steps
    MaxConcurrency,   \* settings.max_concurrency
    DefaultTokens,    \* anyio's own thread limit, 40
    ThreadHeadroom,   \* THREAD_HEADROOM, 8
    Outcomes          \* what a judge's thread may end with

ASSUME RequestsAssumption == IsFiniteSet(Requests) /\ BatchItems \subseteq Requests
ASSUME ProbesAssumption == IsFiniteSet(Probes) /\ Probes \cap Requests = {}
ASSUME PayloadsAssumption ==
    Payloads \subseteq [judge : Judges, steps : Nat, context : BOOLEAN]
ASSUME MaxConcurrencyAssumption == MaxConcurrency \in Nat \ {0}
ASSUME LimiterAssumption == DefaultTokens \in Nat /\ ThreadHeadroom \in Nat
ASSUME OutcomesAssumption ==
    Outcomes \subseteq {"verdict", "connect", "timeout", "unparseable", "backend", "raise"}

VARIABLES
    payload,         \* the body of each request
    stage,           \* how far run_one has got
    fut,             \* the request's future in semaphore._waiters
    ticket,          \* order of appending to semaphore._waiters, 0 before
    value,           \* semaphore._value
    waiting,         \* runtime.waiting, and the gauge set to it
    inflight,        \* the gauge of requests judging, by judge
    borrowers,       \* who holds a token of the thread limiter
    result,          \* what the judge's thread ended with
    answer,          \* HTTP status, 0 before it is sent
    requestsTotal,   \* tj_requests_total, by status
    rejectedTotal,   \* tj_rejected_total{queue_full}
    upstreamErrors   \* tj_upstream_errors_total

slots == <<value, fut, ticket>>
counters == <<requestsTotal, rejectedTotal, upstreamErrors>>
vars == <<payload, stage, fut, ticket, value, waiting, inflight, borrowers,
          result, answer, requestsTotal, rejectedTotal, upstreamErrors>>

Stage == {"new", "queued", "admitted", "running", "answered"}
Future == {"none", "pending", "set", "cancelled"}
Status == {200, 413, 422, 429, 500, 502, 503, 504}

-----------------------------------------------------------------------------
(* Requests refused before a slot, and verdicts turned into a status *)

\* _check_request: 0 when the request may go on.
CheckRequest(p) ==
    CASE p.judge \notin EnabledJudges             -> 422
      [] p.judge \in EnabledJudges /\ p.steps > MaxSteps -> 413
      [] /\ p.judge \in EnabledJudges /\ p.steps =< MaxSteps
         /\ p.judge \in LocalJudges /\ ~p.context -> 422
      [] OTHER                                    -> 0

\* A plausible bug: a recorded error that is none of the known ones is sent as 200.
UnknownErrorsPass(outcome) ==
    CASE outcome = "connect" -> 503
      [] outcome = "timeout" -> 504
      [] outcome = "raise"   -> 500
      [] OTHER               -> 200

\* errors.classify, over the class of exception the judge recorded.  "raise" is a
\* judge that raised: run_one has no handler, the server answers 500.
StatusOf(outcome) ==
    CASE outcome = "verdict" -> 200
      [] outcome = "connect" -> 503
      [] outcome = "timeout" -> 504
      [] outcome = "raise"   -> 500
      [] OTHER               -> 502

\* A local judge calls no backend: it gives a verdict or raises.
OutcomesOf(p) ==
    IF p.judge \in LocalJudges THEN Outcomes \cap {"verdict", "raise"} ELSE Outcomes

-----------------------------------------------------------------------------
(* asyncio.Semaphore *)

Pending == {r \in Requests : fut[r] = "pending"}
Waiters == {r \in Requests : fut[r] # "none"}

\* A plausible bug: a waiter is all that closes the semaphore.
LockedByWaiters == \E r \in Waiters : fut[r] # "cancelled"

\* Nobody passes a waiter: one that is not cancelled closes the semaphore, also
\* when it has its slot already and has not run yet.
Locked == value = 0 \/ \E r \in Waiters : fut[r] # "cancelled"

\* A plausible bug: the queue is served from its end.
IsBack(G, n) ==
    /\ G \subseteq Pending
    /\ Cardinality(G) = IF n < Cardinality(Pending) THEN n ELSE Cardinality(Pending)
    /\ \A r \in G, s \in Pending \ G : ticket[r] > ticket[s]

\* The first n pending futures of the queue, all of them if there are fewer.
IsFront(G, n) ==
    /\ G \subseteq Pending
    /\ Cardinality(G) = IF n < Cardinality(Pending) THEN n ELSE Cardinality(Pending)
    /\ \A r \in G, s \in Pending \ G : ticket[r] < ticket[s]

\* free slots are left; up to n of them go to the front of the queue, and r,
\* which has run, leaves it.  A future that gets its result holds the slot from
\* then on, before its task resumes.
HandSlots(r, free, n) ==
    \E G \in SUBSET Pending :
        /\ IsFront(G, n)
        /\ value' = free - Cardinality(G)
        /\ fut' = [s \in Requests |-> IF s = r THEN "none"
                                      ELSE IF s \in G THEN "set" ELSE fut[s]]

\* release(): one slot back, _wake_up_next() once.
ReleaseSlot(r) == HandSlots(r, value + 1, 1)

\* A plausible bug: a task that resumes wakes nobody.
LeaveQueueQuietly(r) == HandSlots(r, value, 0)

\* The end of acquire() in a task that had to wait: wake as many as fit.
LeaveQueue(r) == HandSlots(r, value, value)

NextTicket == 1 + Cardinality({r \in Requests : ticket[r] # 0})

-----------------------------------------------------------------------------
(* anyio's thread limiter *)

\* A plausible bug: startup leaves anyio's limit as it is.
LimitNotRaised == DefaultTokens

\* raise_thread_limit
ThreadTokens ==
    IF DefaultTokens < MaxConcurrency + ThreadHeadroom
    THEN MaxConcurrency + ThreadHeadroom
    ELSE DefaultTokens

TokenFree == Cardinality(borrowers) < ThreadTokens

-----------------------------------------------------------------------------
(* Answers *)

\* A plausible bug: whatever becomes of an item is counted like a request.
CountsItems(r, status) == status # 500

\* A 200 is counted by run_one, a ServiceError by its exception handler; what
\* escapes both (500) is counted by nobody, and so is what the batch catches before
\* the handler.
Counts(r, status) == status # 500 /\ (r \in BatchItems => status = 200)

Count(r, status) ==
    requestsTotal' = IF Counts(r, status) THEN [requestsTotal EXCEPT ![status] = @ + 1]
                     ELSE requestsTotal

Answer(r, status) ==
    /\ stage' = [stage EXCEPT ![r] = "answered"]
    /\ answer' = [answer EXCEPT ![r] = status]
    /\ Count(r, status)

JudgeOf(r) == payload[r].judge

Admit(r) ==
    /\ stage' = [stage EXCEPT ![r] = "admitted"]
    /\ inflight' = [inflight EXCEPT ![JudgeOf(r)] = @ + 1]

\* The finally around the judge call.
Leave(r) ==
    /\ ReleaseSlot(r)
    /\ inflight' = [inflight EXCEPT ![JudgeOf(r)] = @ - 1]

-----------------------------------------------------------------------------
Init ==
    /\ payload \in [Requests -> Payloads]
    /\ stage = [r \in Requests |-> "new"]
    /\ fut = [r \in Requests |-> "none"]
    /\ ticket = [r \in Requests |-> 0]
    /\ value = MaxConcurrency
    /\ waiting = 0
    /\ inflight = [j \in Judges |-> 0]
    /\ borrowers = {}
    /\ result = [r \in Requests |-> "none"]
    /\ answer = [r \in Requests |-> 0]
    /\ requestsTotal = [s \in Status |-> 0]
    /\ rejectedTotal = 0
    /\ upstreamErrors = 0

\* _check_request raises.
Refuse(r) ==
    /\ stage[r] = "new"
    /\ CheckRequest(payload[r]) # 0
    /\ Answer(r, CheckRequest(payload[r]))
    /\ UNCHANGED <<payload, slots, waiting, inflight, borrowers, result,
                   rejectedTotal, upstreamErrors>>

\* acquire() without waiting: no await is reached, waiting goes up and down.
AcquireAtOnce(r) ==
    /\ stage[r] = "new"
    /\ CheckRequest(payload[r]) = 0
    /\ ~Locked
    /\ value' = value - 1
    /\ ticket' = [ticket EXCEPT ![r] = NextTicket]
    /\ Admit(r)
    /\ UNCHANGED <<payload, fut, waiting, borrowers, result, answer, counters>>

\* acquire() that has to wait.
Enqueue(r) ==
    /\ stage[r] = "new"
    /\ CheckRequest(payload[r]) = 0
    /\ Locked
    /\ stage' = [stage EXCEPT ![r] = "queued"]
    /\ fut' = [fut EXCEPT ![r] = "pending"]
    /\ ticket' = [ticket EXCEPT ![r] = NextTicket]
    /\ waiting' = waiting + 1
    /\ UNCHANGED <<payload, value, inflight, borrowers, result, answer, counters>>

\* A plausible bug: a task is cancelled though its slot was handed over.
TimeoutAfterGrant(r) ==
    /\ fut[r] \in {"pending", "set"}
    /\ fut' = [fut EXCEPT ![r] = "cancelled"]
    /\ UNCHANGED <<payload, stage, ticket, value, waiting, inflight, borrowers,
                   result, answer, counters>>

\* queue_timeout_s runs out: anyio cancels the task, unless the future it awaits
\* is done.
QueueTimeout(r) ==
    /\ fut[r] = "pending"
    /\ fut' = [fut EXCEPT ![r] = "cancelled"]
    /\ UNCHANGED <<payload, stage, ticket, value, waiting, inflight, borrowers,
                   result, answer, counters>>

\* A waiter resumes with its slot.
ResumeGranted(r) ==
    /\ fut[r] = "set"
    /\ LeaveQueue(r)
    /\ waiting' = waiting - 1
    /\ Admit(r)
    /\ UNCHANGED <<payload, ticket, borrowers, result, answer, counters>>

\* A plausible bug: waiting goes down only on the way to the judge.
RejectedStillWaits(r) ==
    /\ fut[r] = "cancelled"
    /\ LeaveQueue(r)
    /\ rejectedTotal' = rejectedTotal + 1
    /\ Answer(r, 429)
    /\ UNCHANGED <<payload, ticket, waiting, inflight, borrowers, result, upstreamErrors>>

\* A waiter resumes with its timeout: 429.
ResumeRejected(r) ==
    /\ fut[r] = "cancelled"
    /\ LeaveQueue(r)
    /\ waiting' = waiting - 1
    /\ rejectedTotal' = rejectedTotal + 1
    /\ Answer(r, 429)
    /\ UNCHANGED <<payload, ticket, inflight, borrowers, result, upstreamErrors>>

\* to_thread.run_sync gets a token and starts the judge in a worker thread.
StartThread(r) ==
    /\ stage[r] = "admitted"
    /\ TokenFree
    /\ stage' = [stage EXCEPT ![r] = "running"]
    /\ borrowers' = borrowers \cup {r}
    /\ UNCHANGED <<payload, slots, waiting, inflight, result, answer, counters>>

\* judge.judge returns or raises, in its thread.
ThreadEnds(r, outcome) ==
    /\ r \in borrowers
    /\ result[r] = "none"
    /\ outcome \in OutcomesOf(payload[r])
    /\ result' = [result EXCEPT ![r] = outcome]
    /\ UNCHANGED <<payload, stage, slots, waiting, inflight, borrowers, answer, counters>>

\* run_one resumes after the judge: token and slot go back, then the verdict is
\* looked at.
Finish(r) ==
    /\ stage[r] = "running"
    /\ result[r] # "none"
    /\ borrowers' = borrowers \ {r}
    /\ Leave(r)
    /\ Answer(r, StatusOf(result[r]))
    /\ upstreamErrors' = IF result[r] \in {"verdict", "raise"} THEN upstreamErrors
                         ELSE upstreamErrors + 1
    /\ UNCHANGED <<payload, ticket, waiting, result, rejectedTotal>>

\* Plausible bugs: the deadline abandons a running thread; there is no deadline.
DeadlineAbandons(r) ==
    /\ stage[r] \in {"admitted", "running"}
    /\ Leave(r)
    /\ Answer(r, 504)
    /\ upstreamErrors' = upstreamErrors + 1
    /\ UNCHANGED <<payload, ticket, waiting, borrowers, result, rejectedTotal>>
NoDeadline(r) == FALSE

\* The deadline around run_sync, at any time, as every timer here.  A started thread
\* is shielded from it, so it only ends the wait for a token.
Deadline(r) ==
    /\ stage[r] = "admitted"
    /\ Leave(r)
    /\ Answer(r, 504)
    /\ upstreamErrors' = upstreamErrors + 1
    /\ UNCHANGED <<payload, ticket, waiting, borrowers, result, rejectedTotal>>

\* /readyz and /v1/models ask the backend from a worker thread of the same limiter.
ProbeStarts(p) ==
    /\ p \notin borrowers
    /\ TokenFree
    /\ borrowers' = borrowers \cup {p}
    /\ UNCHANGED <<payload, stage, slots, waiting, inflight, result, answer, counters>>

ProbeEnds(p) ==
    /\ p \in borrowers
    /\ borrowers' = borrowers \ {p}
    /\ UNCHANGED <<payload, stage, slots, waiting, inflight, result, answer, counters>>

Next ==
    \/ \E r \in Requests :
          \/ Refuse(r) \/ AcquireAtOnce(r) \/ Enqueue(r) \/ QueueTimeout(r)
          \/ ResumeGranted(r) \/ ResumeRejected(r) \/ StartThread(r)
          \/ \E outcome \in Outcomes : ThreadEnds(r, outcome)
          \/ Finish(r) \/ Deadline(r)
    \/ \E p \in Probes : ProbeStarts(p) \/ ProbeEnds(p)

Spec == Init /\ [][Next]_vars

-----------------------------------------------------------------------------
TypeOK ==
    /\ payload \in [Requests -> Payloads]
    /\ stage \in [Requests -> Stage]
    /\ fut \in [Requests -> Future]
    /\ ticket \in [Requests -> Nat]
    /\ value \in Nat
    /\ waiting \in Nat
    /\ inflight \in [Judges -> Nat]
    /\ borrowers \subseteq Requests \cup Probes
    /\ result \in [Requests -> Outcomes \cup {"none"}]
    /\ answer \in [Requests -> Status \cup {0}]
    /\ requestsTotal \in [Status -> Nat]
    /\ rejectedTotal \in Nat
    /\ upstreamErrors \in Nat

At(s) == {r \in Requests : stage[r] = s}
Answered(s) == {r \in Requests : answer[r] = s}
Counted(s) == {r \in Answered(s) : s # 500 /\ (s = 200 \/ r \notin BatchItems)}

\* A request owns a slot from the hand-off, before its task runs again.
Granted == {r \in Requests : fut[r] = "set"}
Holders == Granted \cup At("admitted") \cup At("running")

\* No slot is lost or made up, whatever order releases, timeouts, hand-offs and
\* wake-ups come in (routes.py:154-182 with asyncio.Semaphore).
SlotsConserved == value + Cardinality(Holders) = MaxConcurrency

\* The semaphore bounds the judges that really run, also when a deadline has
\* passed: no answered request leaves a thread behind (routes.py:173-182).
ModelCallsBounded ==
    /\ Cardinality(borrowers \cap Requests) =< MaxConcurrency
    /\ borrowers \cap Requests = At("running")

\* A free slot and a pending waiter are seen together only while a waiter that
\* has a slot is about to run, and it will wake the others.
NoLostWakeup == value > 0 /\ Pending # {} => Granted # {}

\* The requests of one judge between the two updates of its gauge.
Judging(j) == {r \in At("admitted") \cup At("running") : JudgeOf(r) = j}

\* tj_queue_depth and tj_inflight say how many requests queue and how many, by
\* judge, have been admitted (routes.py:151-165 and 180-182).
GaugesAgree ==
    /\ waiting = Cardinality(At("queued"))
    /\ \A j \in Judges : inflight[j] = Cardinality(Judging(j))

\* The counters tell every answer once, except a 500 and the failure of a batch's item,
\* that none tells; a rejection is a 429, and upstream errors are the answers 502, 503
\* and 504 (routes.py:157, 175, 188, 198; app.py:126-131).
MetricsAgree ==
    /\ \A s \in Status : requestsTotal[s] = Cardinality(Counted(s))
    /\ rejectedTotal = Cardinality(Answered(429))
    /\ upstreamErrors = Cardinality(Answered(502) \cup Answered(503) \cup Answered(504))

\* A request that has a slot finds a thread: the limiter never makes it wait
\* (runtime.py:12-14 and 115-120).
AdmittedGetThread == Cardinality(At("admitted")) + Cardinality(borrowers) =< ThreadTokens

\* The semaphore, its queue and its timeouts keep the promise of Admission.
PhaseOf(r) ==
    CASE stage[r] = "new"                                -> "new"
      [] r \in Holders                                   -> "judging"
      [] stage[r] = "queued" /\ fut[r] = "pending"       -> "waiting"
      [] stage[r] = "answered" /\ result[r] # "none"     -> "served"
      [] stage[r] = "answered" /\ answer[r] = 504        -> "served"
      [] OTHER                                           -> "away"

Promise == INSTANCE Admission WITH
    Capacity <- MaxConcurrency,
    phase <- [r \in Requests |-> PhaseOf(r)],
    seniority <- ticket

PromiseKept == Promise!Spec

\* Every request that reaches the service is answered, whatever the backend, the
\* queue and the probes do: each wait of run_one is under a timeout or a shielded
\* thread that ends (routes.py:154-182).
EveryRequestAnswered ==
    \A r \in Requests : stage[r] # "new" ~> stage[r] = "answered"
=============================================================================
