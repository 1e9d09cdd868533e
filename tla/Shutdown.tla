------------------------------ MODULE Shutdown -------------------------------
(* The end of the service (serve/app.py, lifespan and run): uvicorn stops       *)
(* taking requests and waits for those it has, cancels them when its grace is   *)
(* over, and then the lifespan drains the slots and closes the HTTP client.     *)
EXTENDS JudgeBatches

VARIABLES phase,    \* of the server
          cut,      \* uvicorn cancelled the tasks it had
          expired,  \* the drain's own grace ran out
          loose     \* judge threads whose request has let go of slot and token

server == <<phase, cut, expired, loose>>
serverVars == <<allVars, server>>

ShutdownInit ==
    /\ BatchInit
    /\ phase = "serving"
    /\ cut = FALSE
    /\ expired = FALSE
    /\ loose = {}

\* The service goes on until it is closed; once it stops nothing new comes in, and the
\* items of a batch that was taken are not new.
Serve ==
    /\ phase # "closed"
    /\ \/ \E r \in Requests : Proceed(r) \/ (r \in BatchItems /\ ~ cut /\ Arrive(r))
       \/ \E b \in Batches : ~ cut /\ (Collect(b) \/ Collapse(b))
       \/ /\ phase = "serving"
          /\ \/ \E r \in Requests : Arrive(r)
             \/ \E b \in Batches : Post(b) \/ TooLarge(b)
             \/ Probing
    /\ UNCHANGED server

Stop ==
    /\ phase = "serving"
    /\ phase' = "stopping"
    /\ UNCHANGED <<allVars, cut, expired, loose>>

\* What uvicorn waits for: single requests and batches that have no answer.
OpenRequests == { r \in Requests \ BatchItems : Started(r) }
OpenBatches == { b \in posted : batchAnswer[b] = 0 }

\* All have answered, or the grace is over and the rest is cancelled; the lifespan ends.
GraceOver ==
    /\ phase = "stopping"
    /\ phase' = "draining"
    /\ cut' = (OpenRequests \cup OpenBatches # {})
    /\ UNCHANGED <<allVars, expired, loose>>

\* Cancellation reaches a request at the await it stands at.  A single request runs in the
\* task group of the middleware: one that has been handed its slot resumes first, and a
\* started thread is shielded.  The items of a batch are cancelled by gather, task by task,
\* which no shield holds back.
Cancellable(r) ==
    \/ r \in OpenRequests /\ fut[r] # "set" /\ stage[r] # "running"
    \/ \E b \in OpenBatches : r \in Items(b) /\ Started(r)

End(r) == stage' = [stage EXCEPT ![r] = "answered"]

\* A plausible bug: a waiter that was handed its slot takes it along.
SlotTakenAlong(r) ==
    /\ phase = "draining" /\ cut /\ Cancellable(r)
    /\ fut[r] \in {"cancelled", "set"}
    /\ HandSlots(r, value, value)
    /\ waiting' = waiting - 1
    /\ End(r)
    /\ UNCHANGED <<payload, ticket, inflight, borrowers, result, answer, counters, batches, server>>

\* In the queue: the future is cancelled first, as by a timeout (QueueTimeout), then the task
\* leaves; a slot that was handed over goes on to the next.
CancelQueued(r) ==
    /\ phase = "draining" /\ cut /\ Cancellable(r)
    /\ fut[r] \in {"cancelled", "set"}
    /\ LET free == IF fut[r] = "set" THEN value + 1 ELSE value IN HandSlots(r, free, free)
    /\ waiting' = waiting - 1
    /\ End(r)
    /\ UNCHANGED <<payload, ticket, inflight, borrowers, result, answer, counters, batches, server>>

\* Past the queue: the slot and the token come back, and a thread that runs, runs on.
CancelJudging(r) ==
    /\ phase = "draining" /\ cut /\ Cancellable(r)
    /\ stage[r] \in {"admitted", "running"}
    /\ Leave(r)
    /\ borrowers' = borrowers \ {r}
    /\ loose' = IF stage[r] = "running" /\ result[r] = "none" THEN loose \cup {r} ELSE loose
    /\ End(r)
    /\ UNCHANGED <<payload, ticket, waiting, result, answer, counters, batches, phase, cut, expired>>

\* A thread that nobody waits for ends.
LooseEnds(r) ==
    /\ phase # "closed"
    /\ r \in loose
    /\ loose' = loose \ {r}
    /\ UNCHANGED <<allVars, phase, cut, expired>>

\* A plausible bug: one free slot is enough.
OneSlotFree == value > 0

Drained == value = MaxConcurrency

\* The drain ends: every slot is free, or its grace is over.
Close ==
    /\ phase = "draining"
    /\ phase' = "closed"
    /\ expired' = ~ Drained
    /\ UNCHANGED <<allVars, cut, loose>>

ShutdownNext ==
    \/ Serve \/ Stop \/ GraceOver \/ Close
    \/ \E r \in Requests : CancelQueued(r) \/ CancelJudging(r) \/ LooseEnds(r)

ShutdownSpec == ShutdownInit /\ [][ShutdownNext]_serverVars
-----------------------------------------------------------------------------
(* Properties *)

\* The judges that run, waited for or not.
JudgesRunning == { r \in borrowers \cap Requests : result[r] = "none" } \cup loose

\* When the drain ends within its grace no judge runs, so the client is closed under nobody
\* (app.py:69, "wait for in-flight judging rather than cutting it off").
DrainWaits == phase = "closed" /\ ~expired => JudgesRunning = {}

\* As far as single requests go it does wait: their shield keeps slot and thread together
\* through a cancellation, wherever it meets them and whatever batches do beside them.
DrainWaitsForSingles == phase = "closed" /\ ~expired => JudgesRunning \subseteq BatchItems

\* Wherever a cancellation meets a request, its slot, its place in the queue and its count
\* in the gauges are given back, and given back once.
CancelKeepsAccounts == SlotsConserved /\ GaugesAgree /\ NoLostWakeup
=============================================================================
