------------------------------ MODULE Admission ------------------------------
(* What the service promises about its slots, without the semaphore, the       *)
(* threads or the timers that keep the promise: at most Capacity requests are  *)
(* judged at a time, and among the requests that wait, a slot goes to the one  *)
(* that has waited longest.  serve/routes.py (run_one) and the queue inside    *)
(* asyncio.Semaphore keep it; JudgeService!Promise is the refinement.          *)
EXTENDS Integers, FiniteSets

CONSTANTS Requests,   \* calls of run_one
          Capacity    \* settings.max_concurrency

VARIABLES phase,      \* where each request is
          seniority   \* order of arrival, 0 before it

vars == <<phase, seniority>>

Phase == {"new", "waiting", "judging", "served", "away"}

\* The only ways a request moves.  It may be judged at once, wait first, be
\* turned away while it waits or before it does; once judged it is served.
Moves == { <<"new", "waiting">>, <<"new", "judging">>, <<"new", "away">>,
           <<"waiting", "judging">>, <<"waiting", "away">>,
           <<"judging", "served">> }

In(p) == {r \in Requests : phase[r] = p}

\* The capacity and the fairness of the queue, over the end of one step.
Room == Cardinality(In("judging")) =< Capacity

NobodyOvertaken ==
    \A r \in Requests, s \in Requests :
        /\ phase[r] # "judging" /\ phase'[r] = "judging"
        /\ phase'[s] = "waiting"
        => seniority'[r] < seniority'[s]

\* A request gets its place in the queue when it arrives and keeps it.
SeniorityByArrival ==
    \A r \in Requests, s \in Requests :
        /\ phase[r] # "new" => seniority'[r] = seniority[r]
        /\ phase[r] = "new" /\ phase'[r] \in {"waiting", "judging"} /\ seniority[s] # 0
           => seniority'[r] > seniority[s]

TypeOK == /\ phase \in [Requests -> Phase]
          /\ seniority \in [Requests -> Nat]

Init == /\ phase = [r \in Requests |-> "new"]
        /\ seniority = [r \in Requests |-> 0]

Next == /\ TypeOK'
        /\ \A r \in Requests : \/ phase'[r] = phase[r]
                               \/ <<phase[r], phase'[r]>> \in Moves
        /\ Room'
        /\ NobodyOvertaken
        /\ SeniorityByArrival

Spec == Init /\ [][Next]_vars
=============================================================================
