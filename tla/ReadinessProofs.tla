--------------------------- MODULE ReadinessProofs ----------------------------
(* The theorems about Readiness, for any number of threads and any TTL.        *)
EXTENDS Readiness, TLAPS

\* What an answer tells is never older than the start of its probe: that is why the
\* age the code keeps is a safe one.
SeenSince ==
    /\ cache.seen =< cache.checked
    /\ \A t \in Threads : call[t].pc = "replied" => call[t].seen =< call[t].checked

IInv == TypeOK /\ SeenSince /\ CachedAnswersFresh

\* A tick keeps an age an age, and the order of two ages.
LEMMA OlderAge ==
    ASSUME NEW a \in Age
    PROVE  Older(a) \in Age /\ \A b \in Age : a =< b => Older(a) =< Older(b)
BY TtlAssumption DEF Age, Older

\* The records of a thread that is idle or has just sent its request.
LEMMA Calls == NoCall \in Call /\ Sent \in Call
<1>1. 0 \in Age
  BY TtlAssumption DEF Age
<1> QED
  BY <1>1 DEF NoCall, Sent, Call

\* The initial states.
LEMMA IInvInit == Init => IInv
<1> SUFFICES ASSUME Init PROVE IInv
  OBVIOUS
<1>1. TypeOK
  BY TtlAssumption DEF Init, TypeOK, Cache, Age, Call, NoCall, Answer
<1>2. SeenSince /\ CachedAnswersFresh
  BY TtlAssumption DEF Init, SeenSince, CachedAnswersFresh, NoCall
<1> QED
  BY <1>1, <1>2 DEF IInv

\* Every step keeps the invariant.
LEMMA IInvNext == IInv /\ [Next]_vars => IInv'
<1> SUFFICES ASSUME IInv, [Next]_vars PROVE IInv'
  OBVIOUS
<1> USE DEF IInv
<1>1. ASSUME NEW t \in Threads, Hit(t) PROVE IInv'
  BY <1>1, TtlAssumption
     DEF Hit, Fresh, TypeOK, Cache, Age, Answer, SeenSince, CachedAnswersFresh
<1>2. ASSUME NEW t \in Threads, Probe(t) PROVE IInv'
  <2>1. call' \in [Threads -> Call] /\ call'[t] = Sent
        /\ \A s \in Threads \ {t} : call'[s] = call[s]
    BY <1>2, Calls DEF Probe, TypeOK
  <2>2. call'[t].pc = "sent"
    BY <2>1 DEF Sent
  <2> QED
    BY <1>2, <2>1, <2>2 DEF Probe, TypeOK, SeenSince, CachedAnswersFresh
<1>3. ASSUME NEW t \in Threads, Reply(t) PROVE IInv'
  <2>1. call[t] \in Call /\ up \in BOOLEAN /\ 0 \in Age
    BY TtlAssumption DEF TypeOK, Age
  <2>2. call'[t] = [call[t] EXCEPT !.pc = "replied", !.ok = up, !.seen = 0]
    BY <1>3 DEF Reply, TypeOK
  <2>3. call'[t] \in Call /\ call'[t].seen =< call'[t].checked
    <3>1. call'[t].seen = 0 /\ call'[t].checked = call[t].checked /\ call'[t] \in Call
      BY <2>1, <2>2 DEF Call
    <3> QED
      BY <2>1, <3>1 DEF Call, Age
  <2>4. \A s \in Threads \ {t} : call'[s] = call[s]
    BY <1>3 DEF Reply, TypeOK
  <2>5. call' \in [Threads -> Call]
    BY <1>3, <2>3 DEF Reply, TypeOK
  <2> QED
    BY <1>3, <2>3, <2>4, <2>5 DEF Reply, TypeOK, SeenSince, CachedAnswersFresh
<1>4. ASSUME NEW t \in Threads, Store(t) PROVE IInv'
  <2>1. call[t] \in Call /\ call[t].seen =< call[t].checked /\ NoCall \in Call
    BY <1>4, TtlAssumption DEF Store, TypeOK, SeenSince, NoCall, Call, Age
  <2>2. cache' \in Cache /\ cache'.seen =< cache'.checked /\ told' \in Answer
    BY <1>4, <2>1 DEF Store, Cache, Call, Answer
  <2>3. call' \in [Threads -> Call] /\ call'[t] = NoCall
        /\ \A s \in Threads \ {t} : call'[s] = call[s]
    BY <1>4, <2>1 DEF Store, TypeOK
  <2>4. \A s \in Threads : call'[s].pc = "replied" => call'[s].seen =< call'[s].checked
    BY <2>3 DEF SeenSince, NoCall
  <2>5. CachedAnswersFresh'
    BY <1>4 DEF Store, CachedAnswersFresh
  <2> QED
    BY <1>4, <2>2, <2>3, <2>4, <2>5 DEF Store, TypeOK, SeenSince
<1>5. CASE Tick
  <2>1. cache' \in Cache /\ cache'.seen =< cache'.checked
    BY <1>5, OlderAge DEF Tick, TypeOK, Cache, SeenSince
  <2>2. ASSUME NEW t \in Threads
        PROVE  /\ call'[t] \in Call
               /\ call'[t].pc = "replied" => call'[t].seen =< call'[t].checked
    <3>1. CASE call[t].pc = "idle"
      <4>1. call'[t] = NoCall /\ NoCall.pc = "idle"
        BY <1>5, <3>1 DEF Tick, NoCall
      <4> QED
        BY <4>1, Calls
    <3>2. CASE call[t].pc # "idle"
      <4> DEFINE c == call[t]
      <4> DEFINE d == call'[t]
      <4> DEFINE a == Older(c.checked)
      <4> DEFINE b == Older(c.seen)
      <4>1. c \in Call /\ (c.pc = "replied" => c.seen =< c.checked)
        BY DEF TypeOK, SeenSince
      <4>2. d = [c EXCEPT !.checked = a, !.seen = b]
        BY <1>5, <3>2 DEF Tick
      <4>3. a \in Age /\ b \in Age /\ (c.seen =< c.checked => b =< a)
        BY <4>1, OlderAge DEF Call
      <4> HIDE DEF a, b, c, d
      <4>4. d \in Call /\ d.pc = c.pc /\ d.checked = a /\ d.seen = b
        BY <4>1, <4>2, <4>3 DEF Call
      <4>5. d \in Call /\ (d.pc = "replied" => d.seen =< d.checked)
        BY <4>1, <4>3, <4>4
      <4> QED
        BY <4>5 DEF d
    <3> QED
      BY <3>1, <3>2
  <2>3. call' \in [Threads -> Call]
    BY <1>5, <2>2 DEF Tick
  <2> QED
    BY <1>5, <2>1, <2>2, <2>3 DEF Tick, TypeOK, SeenSince, CachedAnswersFresh
<1>6. CASE BackendTurns
  BY <1>6 DEF BackendTurns, TypeOK, SeenSince, CachedAnswersFresh
<1>7. CASE UNCHANGED vars
  BY <1>7 DEF vars, TypeOK, SeenSince, CachedAnswersFresh
<1> QED
  BY <1>1, <1>2, <1>3, <1>4, <1>5, <1>6, <1>7 DEF Next

\* The invariant holds of every behaviour.
THEOREM Invariance == Spec => []IInv
<1> QED
  BY IInvInit, IInvNext, PTL DEF Spec

\* Every variable keeps its type: what the probes write is a cache.
THEOREM TypeCorrect == Spec => []TypeOK
<1>1. IInv => TypeOK
  BY DEF IInv
<1> QED
  BY <1>1, Invariance, PTL

\* An answer from the cache is about the backend less than a TTL ago.
THEOREM CacheIsFresh == Spec => []CachedAnswersFresh
<1>1. IInv => CachedAnswersFresh
  BY DEF IInv
<1> QED
  BY <1>1, Invariance, PTL
=============================================================================
