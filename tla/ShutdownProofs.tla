---------------------------- MODULE ShutdownProofs ----------------------------
(* The theorems about JudgeBatches, whose items are handled one by one, and    *)
(* about Shutdown, which is built on it: for any number of requests, batches   *)
(* and slots.                                                                  *)
EXTENDS Shutdown, JudgeServiceProofs

-----------------------------------------------------------------------------
(* Batches *)

\* No more items of a batch are past its gate than the gate is wide.
GateHolds == \A b \in Batches : Cardinality(Inside(b)) =< Gate(b)

\* The accounts say which requests have a slot, and the gate how many of them are items.
BInv == IInv /\ NoLostWakeup /\ GateHolds

LEMMA ItemSets ==
    ASSUME NEW b \in Batches
    PROVE  /\ Items(b) \subseteq BatchItems /\ Items(b) \subseteq Requests
           /\ Inside(b) \in SUBSET Requests /\ Inside(b)' \in SUBSET Requests
           /\ Gate(b) \in Nat \ {0} /\ Gate(b) =< MaxConcurrency
<1>1. Items(b) \subseteq BatchItems
  BY BatchesAssumption DEF Items
<1>2. GateSize[b] \in Nat \ {0}
  BY BatchesAssumption
<1> QED
  BY <1>1, <1>2, RequestsAssumption, MaxConcurrencyAssumption DEF Inside, Gate, Items

-----------------------------------------------------------------------------
(* The accounts *)

\* A step of the service among batches is one of JudgeService, or leaves the requests alone.
LEMMA BatchKeepsIInv ==
    ASSUME IInv, NoLostWakeup, [BatchNext]_allVars
    PROVE  IInv' /\ NoLostWakeup'
<1>1. CASE [Next]_vars
  BY <1>1, NextIInv, NextWakes
<1>2. ASSUME NEW b \in Batches, TooLarge(b) PROVE IInv' /\ NoLostWakeup'
  <2>1. UNCHANGED <<payload, stage, slots, waiting, inflight, borrowers, result, answer,
                    rejectedTotal, upstreamErrors>>
    BY <1>2 DEF TooLarge
  <2>2. requestsTotal' \in [Status -> Nat]
    <3>1. requestsTotal \in [Status -> Nat] /\ 413 \in Status
      BY DEF IInv, TypeOK, Status
    <3>2. requestsTotal' = [requestsTotal EXCEPT ![413] = @ + 1]
      BY <1>2 DEF TooLarge
    <3> QED
      BY <3>1, <3>2
  <2>3. TypeOK'
    BY <2>1, <2>2 DEF IInv, TypeOK, slots
  <2>4. Coherent' /\ NoLostWakeup'
    BY <2>1 DEF IInv, Coherent, NoLostWakeup, Granted, Pending, slots
  <2>5. SlotsConserved' /\ GaugesAgree'
    BY <2>1, SlotsUntouched DEF IInv, At, slots
  <2> QED
    BY <2>3, <2>4, <2>5 DEF IInv
<1>3. ASSUME NEW r \in Requests, Arrive(r) \/ Proceed(r) PROVE Next
  BY <1>3 DEF Arrive, Proceed, Next
<1>4. Probing => Next
  BY DEF Probing, Next
<1>5. ASSUME NEW b \in Batches, Post(b) \/ Collect(b) \/ Collapse(b) PROVE UNCHANGED vars
  BY <1>5 DEF Post, Collect, Collapse
<1>6. UNCHANGED allVars => UNCHANGED vars
  BY DEF allVars
<1> QED
  BY <1>1, <1>2, <1>3, <1>4, <1>5, <1>6 DEF BatchNext

-----------------------------------------------------------------------------
(* The gate *)

\* One request passes the gate of the batches it is an item of, each of which has room.
LEMMA ArrivingFits ==
    ASSUME TypeOK, GateHolds, NEW r \in Requests, Arrive(r)
    PROVE  GateHolds'
<1>1. stage' \in [Requests -> Stage] /\ \A s \in Requests : s # r => stage'[s] = stage[s]
  BY DEF Arrive, Refuse, AcquireAtOnce, Enqueue, Answer, Admit, TypeOK, Stage
<1> SUFFICES ASSUME NEW b \in Batches PROVE Cardinality(Inside(b)') =< Gate(b)
  BY DEF GateHolds, Gate
<1>2. Inside(b)' \in SUBSET Requests /\ Inside(b) \in SUBSET Requests /\ Gate(b) \in Nat
  BY ItemSets
<1>3. Inside(b)' \subseteq Inside(b) \cup {r}
  <2>1. Items(b) \subseteq Requests
    BY ItemSets
  <2>2. \A s \in Items(b) \ {r} : Started(s)' => Started(s)
    BY <1>1, <2>1 DEF Started
  <2>3. Items(b)' = Items(b)
    BY DEF Items
  <2> QED
    BY <2>2, <2>3 DEF Inside
<1>4. /\ Cardinality(Inside(b)) \in Nat /\ Cardinality(Inside(b)') \in Nat
      /\ IsFiniteSet(Inside(b)) /\ IsFiniteSet(Inside(b) \cup {r})
  BY <1>2, RequestSets
<1>5. CASE r \in Items(b)
  <2>1. Cardinality(Inside(b)) < Gate(b)
    BY <1>5 DEF Arrive, MayEnter
  <2>2. Cardinality(Inside(b) \cup {r}) =< Cardinality(Inside(b)) + 1
    BY <1>4, FS_AddElement
  <2>3. Cardinality(Inside(b)') =< Cardinality(Inside(b) \cup {r})
    BY <1>3, <1>4, FS_Subset
  <2>4. Cardinality(Inside(b) \cup {r}) \in Nat
    BY <1>4, FS_CardinalityType
  <2> QED
    BY <1>2, <1>4, <2>1, <2>2, <2>3, <2>4
<1>6. CASE r \notin Items(b)
  <2>1. Inside(b)' = Inside(b)
    BY <1>1, <1>6, ItemSets DEF Inside, Started, Items
  <2> QED
    BY <2>1 DEF GateHolds
<1> QED
  BY <1>5, <1>6

\* Nothing else brings a request in.
LEMMA OthersFit ==
    ASSUME GateHolds, \A s \in Requests : stage[s] \in {"new", "answered"} => stage'[s] = stage[s]
    PROVE  GateHolds'
<1> SUFFICES ASSUME NEW b \in Batches PROVE Cardinality(Inside(b)') =< Gate(b)
  BY DEF GateHolds, Gate
<1>1. Inside(b) \in SUBSET Requests /\ Inside(b)' \in SUBSET Requests /\ Gate(b) \in Nat
  BY ItemSets
<1>2. Inside(b)' \subseteq Inside(b)
  BY ItemSets DEF Inside, Started, Items
<1>3. Cardinality(Inside(b)') =< Cardinality(Inside(b))
  BY <1>1, <1>2, RequestSets, FS_Subset
<1>4. Cardinality(Inside(b)) \in Nat /\ Cardinality(Inside(b)') \in Nat
  BY <1>1, RequestSets
<1> QED
  BY <1>1, <1>3, <1>4 DEF GateHolds

LEMMA BatchStarts == BatchInit => BInv
<1> SUFFICES ASSUME BatchInit PROVE BInv
  OBVIOUS
<1>1. Init
  BY DEF BatchInit
<1>2. NoLostWakeup
  BY <1>1 DEF Init, NoLostWakeup, Pending
<1>3. ASSUME NEW b \in Batches PROVE Cardinality(Inside(b)) =< Gate(b)
  <2>1. Inside(b) = {}
    BY <1>1, ItemSets DEF Init, Inside, Started
  <2> QED
    BY <2>1, ItemSets, FS_EmptySet
<1> QED
  BY <1>1, <1>2, <1>3, InitIInv DEF BInv, GateHolds

LEMMA NextBInv ==
    ASSUME BInv, [BatchNext]_allVars
    PROVE  BInv'
<1> USE DEF BInv, IInv
<1>1. IInv' /\ NoLostWakeup'
  BY BatchKeepsIInv
<1>2. ASSUME NEW r \in Requests, Arrive(r) PROVE GateHolds'
  BY <1>2, ArrivingFits
<1>3. ASSUME NEW r \in Requests, Proceed(r) PROVE GateHolds'
  <2>1. stage[r] \notin {"new", "answered"}
    BY <1>3 DEF Proceed, QueueTimeout, ResumeGranted, ResumeRejected, StartThread, ThreadEnds,
                Finish, Deadline, Coherent, TypeOK
  <2>2. \A s \in Requests : s # r => stage'[s] = stage[s]
    BY <1>3 DEF Proceed, QueueTimeout, ResumeGranted, ResumeRejected, StartThread, ThreadEnds,
                Finish, Deadline, Admit, Answer, TypeOK
  <2> QED
    BY <2>1, <2>2, OthersFit
<1>4. ASSUME UNCHANGED stage PROVE GateHolds'
  BY <1>4, OthersFit
<1>5. ASSUME NEW b \in Batches, Post(b) \/ TooLarge(b) \/ Collect(b) \/ Collapse(b)
      PROVE UNCHANGED stage
  BY <1>5 DEF Post, TooLarge, Collect, Collapse, vars
<1>6. Probing => UNCHANGED stage
  BY DEF Probing, ProbeStarts, ProbeEnds
<1>7. UNCHANGED allVars => UNCHANGED stage
  BY DEF allVars, vars
<1> QED
  BY <1>1, <1>2, <1>3, <1>4, <1>5, <1>6, <1>7 DEF BatchNext

\* However many items a batch has and however wide a gate it asks for, no more of them stand
\* before a waiting single request than there are slots (judge_batch): what stands before it
\* holds a slot or a place in the queue, and is past the gate.
THEOREM BatchesLeaveRoom == BatchSpec => []BatchLeavesRoom
<1>1. ASSUME BInv PROVE BatchLeavesRoom
  <2> SUFFICES ASSUME NEW b \in Batches, NEW r \in Pending \ BatchItems
               PROVE Cardinality(Items(b) \cap Before(r)) =< MaxConcurrency
    BY DEF BatchLeavesRoom
  <2>1. Items(b) \cap Before(r) \subseteq Inside(b)
    BY <1>1 DEF BInv, IInv, Coherent, Before, Holders, Granted, At, Pending, Inside, Started
  <2>2. Inside(b) \in SUBSET Requests /\ Gate(b) \in Nat /\ Gate(b) =< MaxConcurrency
    BY ItemSets
  <2>3. Cardinality(Items(b) \cap Before(r)) =< Cardinality(Inside(b))
    BY <2>1, <2>2, RequestSets, FS_Subset
  <2>4. Cardinality(Inside(b)) \in Nat /\ Cardinality(Items(b) \cap Before(r)) \in Nat
    BY <2>1, <2>2, RequestSets
  <2> QED
    BY <1>1, <2>2, <2>3, <2>4, MaxConcurrencyAssumption DEF BInv, GateHolds
<1> QED
  BY <1>1, BatchStarts, NextBInv, PTL DEF BatchSpec

-----------------------------------------------------------------------------
(* The counters *)

\* The batches that a status stands for, which is one that refuses them whole.
Refused(s) == { b \in Batches : batchAnswer[b] = s /\ s = 413 }

CountInv == AnswersCoherent /\ batchAnswer \in [Batches -> Nat] /\ BatchMetricsAgree

LEMMA RefusedSets ==
    ASSUME NEW s \in Status
    PROVE  /\ IsFiniteSet(Refused(s)) /\ Cardinality(Refused(s)) \in Nat
           /\ Cardinality(Counted(s)) \in Nat /\ Cardinality(Counted(s)') \in Nat
<1>1. Refused(s) \subseteq Batches
  BY DEF Refused
<1>2. Counted(s) \in SUBSET Requests /\ Counted(s)' \in SUBSET Requests
  BY DEF Counted, Answered
<1> QED
  BY <1>1, <1>2, RequestSets, BatchesAssumption, FS_Subset, FS_CardinalityType

\* What happens to a request is counted beside the batches that were refused.
LEMMA CountingRequests ==
    ASSUME IInv, CountInv, [Next]_vars, UNCHANGED batchAnswer
    PROVE  CountInv'
<1> DEFINE extra == [s \in Status |-> Cardinality(Refused(s))]
<1>1. /\ extra \in [Status -> Nat]
      /\ \A s \in Status : extra[s] = Cardinality(Refused(s))
      /\ \A s \in Status : requestsTotal[s] = Cardinality(Counted(s)) + extra[s]
  BY RefusedSets DEF CountInv, BatchMetricsAgree, Refused
<1> HIDE DEF extra
<1>2. \A s \in Status : Refused(s)' = Refused(s)
  BY DEF Refused
<1>3. SUFFICES /\ AnswersCoherent'
               /\ \A s \in Status : requestsTotal'[s] = Cardinality(Counted(s)') + extra[s]
  BY <1>1, <1>2 DEF CountInv, BatchMetricsAgree, Refused
<1>4. CASE /\ UNCHANGED <<answer, counters>>
           /\ \A r \in Requests : stage'[r] = "answered" <=> stage[r] = "answered"
  BY <1>1, <1>4 DEF CountInv, AnswersCoherent, Counted, Answered, counters
<1>5. ASSUME NEW r \in Requests, NEW status \in Status, AnswerCounted(r, status)
      PROVE  /\ AnswersCoherent'
             /\ \A s \in Status : requestsTotal'[s] = Cardinality(Counted(s)') + extra[s]
  BY <1>1, <1>5, CountingAnswers DEF IInv, CountInv, AnswerCounted
<1> QED
  BY <1>4, <1>5, HowAnswersCome

\* A batch that is too large is one more 413.
LEMMA CountingTooLarge ==
    ASSUME IInv, CountInv, NEW b \in Batches, TooLarge(b)
    PROVE  CountInv'
<1>1. /\ batchAnswer[b] = 0 /\ batchAnswer' = [batchAnswer EXCEPT ![b] = 413]
      /\ requestsTotal' = [requestsTotal EXCEPT ![413] = @ + 1]
      /\ UNCHANGED <<stage, answer>> /\ 413 \in Status
  BY DEF TooLarge, Status
<1>2. AnswersCoherent' /\ batchAnswer' \in [Batches -> Nat]
  BY <1>1 DEF CountInv, AnswersCoherent
<1>3. ASSUME NEW s \in Status
      PROVE  requestsTotal'[s] = Cardinality(Counted(s)') + Cardinality(Refused(s)')
  <2>1. Counted(s)' = Counted(s)
    BY <1>1 DEF Counted, Answered
  <2>2. requestsTotal[s] = Cardinality(Counted(s)) + Cardinality(Refused(s))
    BY DEF CountInv, BatchMetricsAgree, Refused
  <2>3. CASE s = 413
    <3>1. Refused(s)' = Refused(s) \cup {b} /\ b \notin Refused(s)
      BY <1>1, <2>3 DEF Refused, CountInv
    <3>2. Cardinality(Refused(s) \cup {b}) = Cardinality(Refused(s)) + 1
      BY <3>1, RefusedSets, FS_AddElement
    <3>3. requestsTotal'[s] = requestsTotal[s] + 1
      BY <1>1, <2>3 DEF IInv, TypeOK
    <3> QED
      BY <2>1, <2>2, <3>1, <3>2, <3>3, RefusedSets
  <2>4. CASE s # 413
    <3>1. Refused(s)' = Refused(s)
      BY <2>4 DEF Refused
    <3>2. requestsTotal'[s] = requestsTotal[s]
      BY <1>1, <2>4 DEF IInv, TypeOK
    <3> QED
      BY <2>1, <2>2, <3>1, <3>2
  <2> QED
    BY <2>3, <2>4
<1> QED
  BY <1>2, <1>3 DEF CountInv, BatchMetricsAgree, Refused

\* The counter of a status tells the answers of that status, failed items apart, and the batches
\* that were refused whole (judge_batch, run_one and the exception handler of app.py).
THEOREM BatchMetricsAreRight == BatchSpec => []BatchMetricsAgree
<1>1. BatchInit => BInv /\ CountInv
  <2> SUFFICES ASSUME BatchInit PROVE CountInv
    BY BatchStarts
  <2>1. Init /\ batchAnswer = [b \in Batches |-> 0]
    BY DEF BatchInit
  <2>2. AnswersCoherent
    BY <2>1 DEF Init, AnswersCoherent
  <2>3. ASSUME NEW s \in Status PROVE requestsTotal[s] = Cardinality(Counted(s)) + Cardinality(Refused(s))
    <3>1. Counted(s) = {} /\ Refused(s) = {}
      BY <2>1 DEF Init, Counted, Answered, Refused, Status
    <3> QED
      BY <2>1, <3>1, FS_EmptySet DEF Init
  <2> QED
    BY <2>1, <2>2, <2>3 DEF CountInv, BatchMetricsAgree, Refused
<1>2. ASSUME IInv, CountInv, [BatchNext]_allVars PROVE CountInv'
  <2>1. ASSUME NEW r \in Requests, Arrive(r) \/ Proceed(r) PROVE Next /\ UNCHANGED batchAnswer
    BY <2>1 DEF Arrive, Proceed, Next, batches
  <2>2. Probing => Next /\ UNCHANGED batchAnswer
    BY DEF Probing, Next, batches
  <2>3. ASSUME NEW b \in Batches, Post(b) \/ Collect(b) \/ Collapse(b) PROVE CountInv'
    <3>1. UNCHANGED vars
      BY <2>3 DEF Post, Collect, Collapse
    <3>2. AnswersCoherent' /\ requestsTotal' = requestsTotal /\ \A s \in Status : Counted(s)' = Counted(s)
      BY <1>2, <3>1 DEF CountInv, AnswersCoherent, Counted, Answered, vars
    <3>3. batchAnswer' \in [Batches -> Nat] /\ \A s \in Status : Refused(s)' = Refused(s)
      BY <1>2, <2>3 DEF CountInv, Post, Collect, Collapse, Refused
    <3> QED
      BY <1>2, <3>2, <3>3 DEF CountInv, BatchMetricsAgree, Refused
  <2>4. UNCHANGED allVars => UNCHANGED vars /\ UNCHANGED batchAnswer
    BY DEF allVars, batches
  <2> QED
    BY <1>2, <2>1, <2>2, <2>3, <2>4, CountingRequests, CountingTooLarge DEF BatchNext
<1>3. BInv => IInv
  BY DEF BInv
<1>4. CountInv => BatchMetricsAgree
  BY DEF CountInv
<1> QED
  BY <1>1, <1>2, <1>3, <1>4, NextBInv, PTL DEF BatchSpec

-----------------------------------------------------------------------------
(* The end of the service *)

\* Only the items of a batch leave a thread behind, and a service that has closed in time had
\* all its slots.
LooseAreItems == loose \subseteq BatchItems
ClosedWhole == phase = "closed" /\ ~ expired => value = MaxConcurrency

\* Neither the accounts nor the rest is enough alone: a free slot says that no thread runs only
\* while slots and holders add up.
DInv == IInv /\ NoLostWakeup /\ LooseAreItems /\ ClosedWhole /\ posted \subseteq Batches

\* A waiter that is cancelled: a slot that it had been handed goes on to the next, and gauge
\* and queue forget it.
LEMMA GivingUp ==
    ASSUME IInv, NEW r \in Requests, fut[r] \in {"set", "cancelled"},
           NEW free \in Nat, free = (IF fut[r] = "set" THEN value + 1 ELSE value),
           HandSlots(r, free, free),
           stage' = [stage EXCEPT ![r] = "answered"], waiting' = waiting - 1
    PROVE  /\ fut' \in [Requests -> Future] /\ value' \in Nat /\ waiting' \in Nat
           /\ waiting' = Cardinality(At("queued")')
           /\ \A s \in Requests : fut'[s] # "none" <=> stage'[s] = "queued"
           /\ SlotsConserved' /\ NoLostWakeup'
<1> USE DEF IInv
<1>1. stage[r] = "queued" /\ value \in Nat
  BY DEF Coherent, TypeOK
<1>2. PICK G \in SUBSET Pending :
           /\ IsFront(G, free)
           /\ value' = free - Cardinality(G)
           /\ value' \in Nat
           /\ fut' = [s \in Requests |-> IF s = r THEN "none"
                                         ELSE IF s \in G THEN "set" ELSE fut[s]]
           /\ fut' \in [Requests -> Future]
           /\ Cardinality(G) \in Nat
  BY HandOff
<1>3. \A s \in Requests : fut'[s] # "none" <=> stage'[s] = "queued"
  BY <1>1, <1>2 DEF Coherent, TypeOK, Pending, Stage
<1>4. SlotsConserved'
  <2>1. Holders \in SUBSET Requests /\ G \in SUBSET Requests /\ Holders \cap G = {}
    BY DEF Holders, Granted, At, Pending, Coherent
  <2>2. Holders' = (Holders \ {r}) \cup G
    BY <1>1, <1>2 DEF Holders, Granted, At, Pending, TypeOK, Stage, Coherent
  <2>3. Holders \ {r} \in SUBSET Requests /\ (Holders \ {r}) \cap G = {}
    BY <2>1
  <2>4. Cardinality(Holders') = Cardinality(Holders \ {r}) + Cardinality(G)
    BY <2>1, <2>2, <2>3, DisjointUnion
  <2>5. Cardinality(Holders) \in Nat /\ Cardinality(Holders \ {r}) \in Nat
    BY <2>1, <2>3, RequestSets
  <2>6. free + Cardinality(Holders \ {r}) = MaxConcurrency
    <3>1. CASE fut[r] = "set"
      <4>1. r \in Holders
        BY <3>1 DEF Holders, Granted
      <4>2. Cardinality(Holders \ {r}) = Cardinality(Holders) - 1
        BY <2>1, <4>1, OneLess
      <4> QED
        BY <1>1, <2>5, <3>1, <4>2, MaxConcurrencyAssumption DEF SlotsConserved
    <3>2. CASE fut[r] = "cancelled"
      <4>1. Holders \ {r} = Holders
        BY <1>1, <3>2 DEF Holders, Granted, At
      <4> QED
        BY <3>2, <4>1 DEF SlotsConserved
    <3> QED
      BY <3>1, <3>2
  <2> QED
    BY <1>2, <2>4, <2>5, <2>6, MaxConcurrencyAssumption DEF SlotsConserved
<1>5. waiting' \in Nat /\ waiting' = Cardinality(At("queued")')
  <2>1. r \in At("queued") /\ At("queued") \in SUBSET Requests
    BY <1>1 DEF At
  <2>2. At("queued")' = At("queued") \ {r}
    BY <1>1 DEF At, TypeOK, Stage
  <2>3. /\ Cardinality(At("queued") \ {r}) = Cardinality(At("queued")) - 1
        /\ Cardinality(At("queued")) > 0
    BY <2>1, OneLess
  <2>4. waiting \in Nat /\ waiting = Cardinality(At("queued"))
    BY DEF GaugesAgree, TypeOK
  <2> HIDE DEF IInv
  <2>5. waiting' = Cardinality(At("queued") \ {r})
    BY <2>3, <2>4
  <2>6. waiting' \in Nat
    BY <2>3, <2>4
  <2> QED
    BY <2>2, <2>5, <2>6
<1>6. NoLostWakeup'
  <2>1. CASE Cardinality(G) = free
    BY <1>2, <2>1 DEF NoLostWakeup
  <2>2. CASE G = Pending
    <3>1. Pending' = {}
      BY <1>2, <2>2 DEF Pending
    <3> QED
      BY <3>1 DEF NoLostWakeup
  <2> QED
    BY <1>2, <2>1, <2>2, FrontIsFull
<1> QED
  BY <1>2, <1>3, <1>4, <1>5, <1>6

\* What the service does while it is not closed keeps its accounts.
LEMMA Serving ==
    ASSUME IInv, NoLostWakeup, Serve
    PROVE  IInv' /\ NoLostWakeup'
<1>1. BatchNext
  BY DEF Serve, BatchNext
<1> QED
  BY <1>1, BatchKeepsIInv

\* A cancellation in the queue keeps them.
LEMMA CancellingQueued ==
    ASSUME IInv, NoLostWakeup, NEW r \in Requests, CancelQueued(r)
    PROVE  IInv' /\ NoLostWakeup'
<1> DEFINE free == IF fut[r] = "set" THEN value + 1 ELSE value
<1>1. /\ fut[r] \in {"set", "cancelled"}
      /\ HandSlots(r, free, free)
      /\ stage' = [stage EXCEPT ![r] = "answered"] /\ waiting' = waiting - 1
      /\ UNCHANGED <<payload, ticket, inflight, borrowers, result, answer, counters>>
  BY DEF CancelQueued, End
<1>2. free \in Nat /\ stage[r] = "queued"
  BY <1>1 DEF IInv, TypeOK, Coherent
<1> HIDE DEF free
<1>3. free = (IF fut[r] = "set" THEN value + 1 ELSE value)
  BY DEF free
<1>4. /\ fut' \in [Requests -> Future] /\ value' \in Nat /\ waiting' \in Nat
      /\ waiting' = Cardinality(At("queued")')
      /\ \A s \in Requests : fut'[s] # "none" <=> stage'[s] = "queued"
      /\ SlotsConserved' /\ NoLostWakeup'
  BY <1>1, <1>2, <1>3, GivingUp
<1>5. TypeOK'
  BY <1>1, <1>4 DEF IInv, TypeOK, Stage, counters
<1>6. Coherent'
  BY <1>1, <1>2, <1>4 DEF IInv, TypeOK, Coherent, Stage
<1>7. \A j \in Judges : Judging(j)' = Judging(j)
  BY <1>1, <1>2 DEF Judging, At, JudgeOf, IInv, TypeOK, Stage
<1>8. GaugesAgree'
  BY <1>1, <1>4, <1>7 DEF IInv, GaugesAgree
<1> QED
  BY <1>4, <1>5, <1>6, <1>8 DEF IInv

\* So does a cancellation past it.
LEMMA CancellingJudging ==
    ASSUME IInv, NoLostWakeup, NEW r \in Requests, CancelJudging(r)
    PROVE  IInv' /\ NoLostWakeup'
<1>1. /\ stage[r] \in {"admitted", "running"} /\ Leave(r)
      /\ stage' = [stage EXCEPT ![r] = "answered"] /\ borrowers' = borrowers \ {r}
      /\ UNCHANGED <<payload, ticket, waiting, result, answer, counters>>
  BY DEF CancelJudging, End
<1>2. /\ fut' \in [Requests -> Future] /\ value' \in Nat
      /\ inflight' \in [Judges -> Nat]
      /\ \A s \in Requests : fut'[s] # "none" <=> stage'[s] = "queued"
      /\ SlotsConserved' /\ GaugesAgree'
  BY <1>1, Leaving
<1>3. TypeOK'
  BY <1>1, <1>2 DEF IInv, TypeOK, Stage, counters
<1>4. Coherent'
  BY <1>1, <1>2 DEF IInv, TypeOK, Coherent, Stage
<1> QED
  BY <1>1, <1>2, <1>3, <1>4, LeavingWakes DEF IInv

\* A request whose thread is let go of is an item: the shield holds back the others.
LEMMA LettingGo ==
    ASSUME LooseAreItems, posted \subseteq Batches, NEW r \in Requests, CancelJudging(r)
    PROVE  LooseAreItems'
<1>1. CASE stage[r] = "running"
  <2>1. PICK b \in OpenBatches : r \in Items(b)
    BY <1>1 DEF CancelJudging, Cancellable
  <2>2. b \in Batches
    BY <2>1 DEF OpenBatches
  <2>3. r \in BatchItems
    BY <2>1, <2>2, BatchesAssumption DEF Items
  <2> QED
    BY <2>3 DEF CancelJudging, LooseAreItems
<1>2. CASE stage[r] # "running"
  BY <1>2 DEF CancelJudging, LooseAreItems
<1> QED
  BY <1>1, <1>2

-----------------------------------------------------------------------------
(* The invariant *)

LEMMA InitDInv == ShutdownInit => DInv
<1> SUFFICES ASSUME ShutdownInit PROVE DInv
  OBVIOUS
<1>1. Init /\ posted = {}
  BY DEF ShutdownInit, BatchInit
<1>2. IInv
  BY <1>1, InitIInv
<1>3. NoLostWakeup
  BY <1>1 DEF Init, NoLostWakeup, Pending
<1>4. LooseAreItems /\ ClosedWhole
  BY DEF ShutdownInit, LooseAreItems, ClosedWhole
<1> QED
  BY <1>1, <1>2, <1>3, <1>4 DEF DInv

LEMMA NextDInv ==
    ASSUME DInv, [ShutdownNext]_serverVars
    PROVE  DInv'
<1> USE DEF DInv
<1>1. CASE Serve
  <2>1. IInv' /\ NoLostWakeup'
    BY <1>1, Serving
  <2>2. LooseAreItems' /\ ClosedWhole'
    BY <1>1 DEF Serve, server, LooseAreItems, ClosedWhole
  <2>3. posted' \subseteq Batches
    BY <1>1 DEF Serve, Arrive, Proceed, Probing, Post, TooLarge, Collect, Collapse, batches
  <2> QED
    BY <2>1, <2>2, <2>3
<1>2. ASSUME UNCHANGED allVars PROVE IInv' /\ NoLostWakeup' /\ posted' \subseteq Batches
  <2>1. UNCHANGED <<vars, posted>>
    BY <1>2 DEF allVars, batches
  <2>2. [Next]_vars
    BY <2>1
  <2> QED
    BY <2>1, <2>2, NextIInv, NextWakes
<1>3. ASSUME NEW r \in Requests, CancelQueued(r) PROVE DInv'
  BY <1>3, CancellingQueued DEF CancelQueued, batches, server, LooseAreItems, ClosedWhole
<1>4. ASSUME NEW r \in Requests, CancelJudging(r) PROVE DInv'
  BY <1>4, CancellingJudging, LettingGo DEF CancelJudging, batches, ClosedWhole
<1>5. CASE Stop \/ GraceOver
  BY <1>2, <1>5 DEF Stop, GraceOver, LooseAreItems, ClosedWhole
<1>6. CASE Close
  <2>1. ClosedWhole' /\ LooseAreItems'
    BY <1>6 DEF Close, Drained, allVars, vars, ClosedWhole, LooseAreItems
  <2> QED
    BY <1>2, <1>6, <2>1 DEF Close
<1>7. ASSUME NEW r \in Requests, LooseEnds(r) PROVE DInv'
  BY <1>2, <1>7 DEF LooseEnds, LooseAreItems, ClosedWhole
<1>8. CASE UNCHANGED serverVars
  <2>1. UNCHANGED allVars /\ LooseAreItems' /\ ClosedWhole'
    BY <1>8 DEF serverVars, server, allVars, vars, LooseAreItems, ClosedWhole
  <2> QED
    BY <1>2, <2>1
<1> QED
  BY <1>1, <1>3, <1>4, <1>5, <1>6, <1>7, <1>8 DEF ShutdownNext

\* The inductive invariant holds throughout, and so does what it is made of.
THEOREM ShutdownInvariance == ShutdownSpec => []DInv
BY InitDInv, NextDInv, PTL DEF ShutdownSpec

\* However many requests and batches are cancelled, and wherever it meets them, slots, queue and
\* gauges are given back once (run_one's finally blocks).
THEOREM CancellationKeepsAccounts == ShutdownSpec => []CancelKeepsAccounts
<1>1. DInv => CancelKeepsAccounts
  BY DEF DInv, IInv, CancelKeepsAccounts
<1> QED
  BY <1>1, ShutdownInvariance, PTL

\* The drain waits for the judges of all single requests (lifespan): all slots are free, so no
\* request runs, and what runs without a request is an item.
THEOREM DrainWaitsForThem == ShutdownSpec => []DrainWaitsForSingles
<1>1. ASSUME DInv PROVE DrainWaitsForSingles
  <2> SUFFICES ASSUME phase = "closed", ~ expired PROVE JudgesRunning \subseteq BatchItems
    BY DEF DrainWaitsForSingles
  <2>1. value = MaxConcurrency /\ loose \subseteq BatchItems
    BY <1>1 DEF DInv, ClosedWhole, LooseAreItems
  <2>2. Holders \in SUBSET Requests
    BY DEF Holders, Granted, At
  <2>3. Cardinality(Holders) = 0
    BY <1>1, <2>1, <2>2, RequestSets, MaxConcurrencyAssumption DEF DInv, IInv, SlotsConserved
  <2>4. Holders = {}
    BY <2>2, <2>3, RequestSets, FS_EmptySet
  <2>5. borrowers \cap Requests = {}
    BY <1>1, <2>4 DEF DInv, IInv, Coherent, Holders, At
  <2> QED
    BY <2>1, <2>5 DEF JudgesRunning
<1> QED
  BY <1>1, ShutdownInvariance, PTL
=============================================================================
