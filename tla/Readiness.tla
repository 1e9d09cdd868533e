------------------------------ MODULE Readiness -------------------------------
(* The cached probe behind /readyz (serve/runtime.py, class Readiness).  Each  *)
(* call of get runs in a worker thread of its own and takes no lock.  The      *)
(* interpreter may switch threads while a probe is out, but the cached fields  *)
(* are written, and read, without a call in between: each is one step.         *)
(*                                                                             *)
(* Times are ages: how many ticks ago, and no more than Ttl of them, since all *)
(* the code asks of an age is whether it has reached the TTL.                  *)
EXTENDS Integers, FiniteSets

CONSTANTS Threads,   \* calls of get that may be running at a time
          Ttl        \* readiness_ttl_s, in ticks

ASSUME ThreadsAssumption == IsFiniteSet(Threads)
ASSUME TtlAssumption == Ttl \in Nat

VARIABLES up,        \* does the backend answer /api/tags
          cache,     \* _ok, the age of _checked_at, and the age of what it tells
          call,      \* what each thread is doing
          told       \* the last answer of get

vars == <<up, cache, call, told>>

Age == 0 .. Ttl

\* ok is what is_available said; checked ages from the start of the probe, seen
\* from the moment the backend answered it, which the code does not record.
Cache == [ok : BOOLEAN, checked : Age, seen : Age]

\* "sent": the request is out; "replied": the backend's state has been read and
\* the reply is on its way.
Call == [pc : {"idle", "sent", "replied"}, ok : BOOLEAN, checked : Age, seen : Age]

NoCall == [pc |-> "idle", ok |-> FALSE, checked |-> 0, seen |-> 0]
Sent == [pc |-> "sent", ok |-> FALSE, checked |-> 0, seen |-> 0]

\* What get returned, the age of it at the time, and whether it was just probed.
Answer == [ok : BOOLEAN, seen : Age, probed : BOOLEAN]

Older(age) == IF age < Ttl THEN age + 1 ELSE Ttl

Init ==
    /\ up \in BOOLEAN
    /\ cache = [ok |-> FALSE, checked |-> Ttl, seen |-> Ttl]
    /\ call = [t \in Threads |-> NoCall]
    /\ told = [ok |-> FALSE, seen |-> 0, probed |-> TRUE]

Fresh == cache.checked < Ttl

\* A plausible bug: an answer from the cache renews it.
SlidingHit(t) ==
    /\ call[t].pc = "idle"
    /\ Fresh
    /\ told' = [ok |-> cache.ok, seen |-> cache.seen, probed |-> FALSE]
    /\ cache' = [cache EXCEPT !.checked = 0]
    /\ UNCHANGED <<up, call>>

\* now - _checked_at < ttl_s: the cached answer.
Hit(t) ==
    /\ call[t].pc = "idle"
    /\ Fresh
    /\ told' = [ok |-> cache.ok, seen |-> cache.seen, probed |-> FALSE]
    /\ UNCHANGED <<up, cache, call>>

\* Otherwise is_available sends a request; nobody is told that it is under way.
Probe(t) ==
    /\ call[t].pc = "idle"
    /\ ~Fresh
    /\ call' = [call EXCEPT ![t] = Sent]
    /\ UNCHANGED <<up, cache, told>>

\* The backend answers, or does not: a timeout and a refusal are both FALSE.
Reply(t) ==
    /\ call[t].pc = "sent"
    /\ call' = [call EXCEPT ![t].pc = "replied", ![t].ok = up, ![t].seen = 0]
    /\ UNCHANGED <<up, cache, told>>

\* Plausible bugs: _checked_at keeps the time the answer expires; the age of the
\* cache counts from the end of the probe.
StoreExpiry(t) ==
    /\ call[t].pc = "replied"
    /\ cache' = [ok |-> call[t].ok, checked |-> call[t].checked - Ttl, seen |-> call[t].seen]
    /\ told' = [ok |-> call[t].ok, seen |-> call[t].seen, probed |-> TRUE]
    /\ call' = [call EXCEPT ![t] = NoCall]
    /\ UNCHANGED up

StoreAtEnd(t) ==
    /\ call[t].pc = "replied"
    /\ cache' = [ok |-> call[t].ok, checked |-> 0, seen |-> call[t].seen]
    /\ told' = [ok |-> call[t].ok, seen |-> call[t].seen, probed |-> TRUE]
    /\ call' = [call EXCEPT ![t] = NoCall]
    /\ UNCHANGED up

\* The thread resumes, writes the cache and returns what it wrote.
Store(t) ==
    /\ call[t].pc = "replied"
    /\ cache' = [ok |-> call[t].ok, checked |-> call[t].checked, seen |-> call[t].seen]
    /\ told' = [ok |-> call[t].ok, seen |-> call[t].seen, probed |-> TRUE]
    /\ call' = [call EXCEPT ![t] = NoCall]
    /\ UNCHANGED up

Tick ==
    /\ cache' = [cache EXCEPT !.checked = Older(@), !.seen = Older(@)]
    /\ call' = [t \in Threads |->
                  IF call[t].pc = "idle" THEN NoCall
                  ELSE [call[t] EXCEPT !.checked = Older(@), !.seen = Older(@)]]
    /\ UNCHANGED <<up, told>>

\* The backend goes down or comes back.
BackendTurns ==
    /\ up' = ~up
    /\ UNCHANGED <<cache, call, told>>

Next ==
    \/ \E t \in Threads : Hit(t) \/ Probe(t) \/ Reply(t) \/ Store(t)
    \/ Tick
    \/ BackendTurns

Spec == Init /\ [][Next]_vars

\* Time passes and a probe that is out comes back: it has a timeout of two seconds.
Fairness ==
    /\ WF_vars(Tick)
    /\ \A t \in Threads : WF_vars(Reply(t)) /\ WF_vars(Store(t))

FairSpec == Spec /\ Fairness

-----------------------------------------------------------------------------
TypeOK ==
    /\ up \in BOOLEAN
    /\ cache \in Cache
    /\ call \in [Threads -> Call]
    /\ told \in Answer

\* An answer from the cache is about the backend less than a TTL ago, however long
\* the probe took and whichever thread wrote last (runtime.py:83-93).
CachedAnswersFresh == told.probed \/ told.seen < Ttl

\* A backend that has gone for good is not reported ready for ever, however often
\* /readyz is asked (runtime.py:84-86).
OutageIsSeen == <>[]~up => <>[]~(Fresh /\ cache.ok)
=============================================================================
