-------------------------- MODULE JudgeServiceProofs --------------------------
(* The theorems about JudgeService, for any number of requests, slots, probes  *)
(* and judges.                                                                 *)
EXTENDS JudgeService, FiniteSetTheorems, TLAPS

\* What relates the variables of one request.
Coherent ==
    \A r \in Requests :
        /\ fut[r] # "none" <=> stage[r] = "queued"
        /\ r \in borrowers <=> stage[r] = "running"
        /\ result[r] # "none" => stage[r] \in {"running", "answered"}

\* The strengthening: none of the parts is inductive without the others, as a
\* gauge stays a natural number only while it counts the requests behind it.
IInv == TypeOK /\ Coherent /\ SlotsConserved /\ GaugesAgree

-----------------------------------------------------------------------------
(* Sets of requests *)

\* A set of requests has a natural number of elements.
LEMMA RequestSets ==
    ASSUME NEW S \in SUBSET Requests
    PROVE  IsFiniteSet(S) /\ Cardinality(S) \in Nat
BY RequestsAssumption, FS_Subset, FS_CardinalityType

\* Adding the members of one set to another that has none of them.
LEMMA DisjointUnion ==
    ASSUME NEW S \in SUBSET Requests, NEW T \in SUBSET Requests, S \cap T = {}
    PROVE  Cardinality(S \cup T) = Cardinality(S) + Cardinality(T)
<1>1. IsFiniteSet(S) /\ IsFiniteSet(T) /\ Cardinality(S) \in Nat /\ Cardinality(T) \in Nat
  BY RequestSets
<1>2. Cardinality(S \cup T) = Cardinality(S) + Cardinality(T) - Cardinality(S \cap T)
  BY <1>1, FS_Union
<1>3. Cardinality(S \cap T) = 0
  BY FS_EmptySet
<1> QED
  BY <1>1, <1>2, <1>3

\* Adding and removing one request.
LEMMA OneMore ==
    ASSUME NEW S \in SUBSET Requests, NEW r \in Requests, r \notin S
    PROVE  Cardinality(S \cup {r}) = Cardinality(S) + 1
BY RequestSets, FS_AddElement

\* And removing one.
LEMMA OneLess ==
    ASSUME NEW S \in SUBSET Requests, NEW r \in S
    PROVE  /\ Cardinality(S \ {r}) = Cardinality(S) - 1
           /\ Cardinality(S) > 0
<1>1. IsFiniteSet(S) /\ Cardinality(S) \in Nat
  BY RequestSets
<1>2. Cardinality(S \ {r}) = Cardinality(S) - 1
  BY <1>1, FS_RemoveElement
<1>3. Cardinality(S \ {r}) \in Nat
  BY RequestSets
<1> QED
  BY <1>1, <1>2, <1>3

-----------------------------------------------------------------------------
(* The semaphore *)

\* What handing n of the free slots to the queue does to it.
LEMMA HandOff ==
    ASSUME TypeOK, NEW r \in Requests, fut[r] # "pending",
           NEW free \in Nat, NEW n \in Nat, n =< free,
           HandSlots(r, free, n)
    PROVE  \E G \in SUBSET Pending :
              /\ IsFront(G, n)
              /\ value' = free - Cardinality(G)
              /\ value' \in Nat
              /\ fut' = [s \in Requests |-> IF s = r THEN "none"
                                            ELSE IF s \in G THEN "set" ELSE fut[s]]
              /\ fut' \in [Requests -> Future]
              /\ Cardinality(G) \in Nat
<1>1. PICK G \in SUBSET Pending :
           /\ IsFront(G, n)
           /\ value' = free - Cardinality(G)
           /\ fut' = [s \in Requests |-> IF s = r THEN "none"
                                         ELSE IF s \in G THEN "set" ELSE fut[s]]
  BY DEF HandSlots
<1>2. Pending \in SUBSET Requests /\ G \in SUBSET Requests
  BY DEF Pending
<1>3. Cardinality(Pending) \in Nat /\ Cardinality(G) \in Nat
  BY <1>2, RequestSets
<1>4. Cardinality(G) =< n
  BY <1>1, <1>3 DEF IsFront
<1>5. value' \in Nat
  BY <1>1, <1>3, <1>4
<1>6. fut' \in [Requests -> Future]
  BY <1>1 DEF TypeOK, Future
<1> QED
  BY <1>1, <1>3, <1>5, <1>6

\* A request that stops judging: its slot comes back and goes to the queue, and the
\* gauges follow.
LEMMA Leaving ==
    ASSUME IInv, NEW r \in Requests, stage[r] \in {"admitted", "running"},
           Leave(r), stage' = [stage EXCEPT ![r] = "answered"],
           payload' = payload, waiting' = waiting
    PROVE  /\ fut' \in [Requests -> Future] /\ value' \in Nat
           /\ inflight' \in [Judges -> Nat]
           /\ \A s \in Requests : fut'[s] # "none" <=> stage'[s] = "queued"
           /\ SlotsConserved' /\ GaugesAgree'
<1> USE DEF IInv
<1>1. fut[r] = "none"
  BY DEF Coherent, TypeOK, Future
<1>2. PICK G \in SUBSET Pending :
           /\ value' = value + 1 - Cardinality(G)
           /\ value' \in Nat
           /\ fut' = [s \in Requests |-> IF s = r THEN "none"
                                         ELSE IF s \in G THEN "set" ELSE fut[s]]
           /\ fut' \in [Requests -> Future]
           /\ Cardinality(G) \in Nat
  <2>1. value \in Nat /\ value + 1 \in Nat /\ 1 \in Nat /\ 1 =< value + 1
    BY DEF TypeOK
  <2>2. HandSlots(r, value + 1, 1)
    BY DEF Leave, ReleaseSlot
  <2> QED
    BY <1>1, <2>1, <2>2, HandOff
<1>3. \A s \in Requests : fut'[s] # "none" <=> stage'[s] = "queued"
  BY <1>1, <1>2 DEF Coherent, TypeOK, Pending, Stage
<1>4. SlotsConserved'
  <2>1. r \in Holders /\ Holders \in SUBSET Requests /\ G \in SUBSET Requests
    BY DEF Holders, Granted, At, Pending
  <2>2. Holders' = (Holders \ {r}) \cup G
    BY <1>1, <1>2 DEF Holders, Granted, At, Pending, TypeOK, Stage, Coherent
  <2>3. (Holders \ {r}) \cap G = {}
    BY DEF Holders, Granted, At, Pending, Coherent
  <2>4. Cardinality(Holders') = Cardinality(Holders \ {r}) + Cardinality(G)
    BY <2>1, <2>2, <2>3, DisjointUnion
  <2>5. /\ Cardinality(Holders \ {r}) = Cardinality(Holders) - 1
        /\ Cardinality(Holders) \in Nat
    BY <2>1, OneLess, RequestSets
  <2> QED
    BY <1>2, <2>4, <2>5, MaxConcurrencyAssumption DEF SlotsConserved, TypeOK
<1>5. ASSUME NEW j \in Judges
      PROVE  inflight'[j] \in Nat /\ inflight'[j] = Cardinality(Judging(j)')
  <2>1. Judging(j) \in SUBSET Requests /\ JudgeOf(r) \in Judges
    BY PayloadsAssumption DEF Judging, At, JudgeOf, TypeOK
  <2>2. inflight[j] = Cardinality(Judging(j)) /\ inflight[j] \in Nat
    BY DEF GaugesAgree, TypeOK
  <2>3. inflight' = [inflight EXCEPT ![JudgeOf(r)] = @ - 1]
    BY DEF Leave
  <2>4. CASE j = JudgeOf(r)
    <3>1. r \in Judging(j) /\ Judging(j)' = Judging(j) \ {r}
      BY <2>4 DEF Judging, At, JudgeOf, TypeOK, Stage
    <3>2. Cardinality(Judging(j) \ {r}) = Cardinality(Judging(j)) - 1 /\ Cardinality(Judging(j)) > 0
      BY <2>1, <3>1, OneLess
    <3>3. inflight'[j] = inflight[j] - 1
      BY <2>3, <2>4 DEF TypeOK
    <3> QED
      BY <2>2, <3>1, <3>2, <3>3
  <2>5. CASE j # JudgeOf(r)
    <3>1. Judging(j)' = Judging(j)
      BY <2>5 DEF Judging, At, JudgeOf, TypeOK, Stage
    <3>2. inflight'[j] = inflight[j]
      BY <2>3, <2>5 DEF TypeOK
    <3> QED
      BY <2>2, <3>1, <3>2
  <2> QED
    BY <2>4, <2>5
<1>6. inflight' \in [Judges -> Nat]
  <2>1. inflight' = [j \in Judges |-> inflight'[j]]
    BY DEF Leave, TypeOK
  <2> QED
    BY <1>5, <2>1
<1>7. At("queued")' = At("queued")
  BY DEF At, TypeOK, Stage
<1> QED
  BY <1>2, <1>3, <1>4, <1>5, <1>6, <1>7 DEF GaugesAgree

\* The gauge of a judge after one of its requests is admitted.
LEMMA Admitting ==
    ASSUME TypeOK, GaugesAgree, NEW r \in Requests, stage[r] \in {"new", "queued"},
           Admit(r), payload' = payload
    PROVE  /\ inflight' \in [Judges -> Nat]
           /\ \A j \in Judges : inflight'[j] = Cardinality(Judging(j)')
<1>1. stage' = [stage EXCEPT ![r] = "admitted"]
      /\ inflight' = [inflight EXCEPT ![JudgeOf(r)] = @ + 1]
  BY DEF Admit
<1>2. ASSUME NEW j \in Judges
      PROVE  inflight'[j] \in Nat /\ inflight'[j] = Cardinality(Judging(j)')
  <2>1. Judging(j) \in SUBSET Requests
    BY DEF Judging, At
  <2>2. inflight[j] = Cardinality(Judging(j)) /\ inflight[j] \in Nat
    BY DEF GaugesAgree, TypeOK
  <2>3. CASE j = JudgeOf(r)
    <3>1. r \notin Judging(j) /\ Judging(j)' = Judging(j) \cup {r}
      BY <1>1, <2>3 DEF Judging, At, JudgeOf, TypeOK, Stage
    <3>2. Cardinality(Judging(j) \cup {r}) = Cardinality(Judging(j)) + 1
      BY <2>1, <3>1, OneMore
    <3>3. inflight'[j] = inflight[j] + 1
      BY <1>1, <2>3 DEF TypeOK
    <3> QED
      BY <2>2, <3>1, <3>2, <3>3
  <2>4. CASE j # JudgeOf(r)
    <3>1. Judging(j)' = Judging(j)
      BY <1>1, <2>4 DEF Judging, At, JudgeOf, TypeOK, Stage
    <3>2. inflight'[j] = inflight[j]
      BY <1>1, <2>4 DEF TypeOK
    <3> QED
      BY <2>2, <3>1, <3>2
  <2> QED
    BY <2>3, <2>4
<1>3. inflight' = [j \in Judges |-> inflight'[j]]
  BY <1>1 DEF TypeOK
<1> QED
  BY <1>2, <1>3

\* A waiter that resumes, with its slot or with its timeout.
LEMMA Resuming ==
    ASSUME IInv, NEW r \in Requests, fut[r] \in {"set", "cancelled"}, LeaveQueue(r),
           stage' = [stage EXCEPT ![r] = IF fut[r] = "set" THEN "admitted" ELSE "answered"],
           waiting' = waiting - 1
    PROVE  /\ fut' \in [Requests -> Future] /\ value' \in Nat /\ waiting' \in Nat
           /\ waiting' = Cardinality(At("queued")')
           /\ \A s \in Requests : fut'[s] # "none" <=> stage'[s] = "queued"
           /\ SlotsConserved'
<1> USE DEF IInv
<1>1. stage[r] = "queued"
  BY DEF Coherent
<1>2. PICK G \in SUBSET Pending :
           /\ value' = value - Cardinality(G)
           /\ value' \in Nat
           /\ fut' = [s \in Requests |-> IF s = r THEN "none"
                                         ELSE IF s \in G THEN "set" ELSE fut[s]]
           /\ fut' \in [Requests -> Future]
           /\ Cardinality(G) \in Nat
  <2>1. value \in Nat /\ value =< value
    BY DEF TypeOK
  <2>2. HandSlots(r, value, value)
    BY DEF LeaveQueue
  <2> QED
    BY <2>1, <2>2, HandOff
<1>3. \A s \in Requests : fut'[s] # "none" <=> stage'[s] = "queued"
  BY <1>1, <1>2 DEF Coherent, TypeOK, Pending, Stage
<1>4. SlotsConserved'
  <2>1. Holders \in SUBSET Requests /\ G \in SUBSET Requests /\ Holders \cap G = {}
    BY DEF Holders, Granted, At, Pending, Coherent
  <2>2. Holders' = Holders \cup G
    BY <1>1, <1>2 DEF Holders, Granted, At, Pending, TypeOK, Stage, Coherent
  <2>3. Cardinality(Holders') = Cardinality(Holders) + Cardinality(G)
    BY <2>1, <2>2, DisjointUnion
  <2>4. Cardinality(Holders) \in Nat
    BY <2>1, RequestSets
  <2> QED
    BY <1>2, <2>3, <2>4, MaxConcurrencyAssumption DEF SlotsConserved, TypeOK
<1>5. waiting' \in Nat /\ waiting' = Cardinality(At("queued")')
  <2>1. r \in At("queued") /\ At("queued") \in SUBSET Requests
    BY <1>1 DEF At
  <2>2. At("queued")' = At("queued") \ {r}
    BY <1>1 DEF At, TypeOK, Stage
  <2>3. /\ Cardinality(At("queued") \ {r}) = Cardinality(At("queued")) - 1
        /\ Cardinality(At("queued")) > 0
    BY <2>1, OneLess
  <2>4. waiting \in Nat /\ waiting = Cardinality(At("queued"))
    BY DEF GaugesAgree, TypeOK
  <2> HIDE DEF IInv
  <2>5. waiting' = Cardinality(At("queued") \ {r})
    BY <2>3, <2>4
  <2>6. waiting' \in Nat
    BY <2>3, <2>4
  <2> QED
    BY <2>2, <2>5, <2>6
<1> QED
  BY <1>2, <1>3, <1>4, <1>5

-----------------------------------------------------------------------------
(* The counters *)

\* An answer is a status, and counting one keeps the counters' type.
LEMMA Answering ==
    ASSUME TypeOK, NEW r \in Requests, NEW status \in Status, Answer(r, status)
    PROVE  /\ answer' \in [Requests -> Status \cup {0}]
           /\ requestsTotal' \in [Status -> Nat]
           /\ stage' = [stage EXCEPT ![r] = "answered"]
           /\ stage' \in [Requests -> Stage]
BY DEF Answer, Count, TypeOK, Stage

\* Whatever a judge ends with, and whatever is refused, has a status of the service.
LEMMA StatusType ==
    /\ \A o : StatusOf(o) \in Status
    /\ \A p : CheckRequest(p) # 0 => CheckRequest(p) \in Status
BY DEF StatusOf, CheckRequest, Status

-----------------------------------------------------------------------------
(* The inductive invariant *)

\* The initial states.
LEMMA InitIInv == Init => IInv
<1> SUFFICES ASSUME Init PROVE IInv
  OBVIOUS
<1>1. TypeOK
  BY MaxConcurrencyAssumption DEF Init, TypeOK, Stage, Future, Status
<1>2. Coherent
  BY RequestsAssumption DEF Init, Coherent
<1>3. Holders = {} /\ At("queued") = {} /\ \A j \in Judges : Judging(j) = {}
  BY DEF Init, Holders, Granted, At, Judging
<1>4. SlotsConserved
  BY <1>3, FS_EmptySet, MaxConcurrencyAssumption DEF SlotsConserved, Init
<1>5. GaugesAgree
  BY <1>3, FS_EmptySet DEF GaugesAgree, Init
<1> QED
  BY <1>1, <1>2, <1>4, <1>5 DEF IInv

\* Steps that leave the slots, the queue and the gauges as they are.
LEMMA SlotsUntouched ==
    ASSUME SlotsConserved, GaugesAgree, UNCHANGED <<payload, fut, value, waiting, inflight>>,
           At("admitted")' \cup At("running")' = At("admitted") \cup At("running"),
           At("queued")' = At("queued")
    PROVE  SlotsConserved' /\ GaugesAgree'
<1>1. Holders' = Holders
  BY DEF Holders, Granted
<1>2. \A j \in Judges : Judging(j)' = Judging(j)
  BY DEF Judging, JudgeOf
<1> QED
  BY <1>1, <1>2 DEF SlotsConserved, GaugesAgree

\* Every step keeps the invariant.
LEMMA NextIInv == IInv /\ [Next]_vars => IInv'
<1> SUFFICES ASSUME IInv, [Next]_vars PROVE IInv'
  OBVIOUS
<1> USE DEF IInv
<1>1. ASSUME NEW r \in Requests, Refuse(r) PROVE IInv'
  <2>1. TypeOK'
    BY <1>1, StatusType, Answering DEF Refuse, TypeOK, slots
  <2>2. stage' = [stage EXCEPT ![r] = "answered"] /\ stage[r] = "new"
    BY <1>1 DEF Refuse, Answer
  <2>3. Coherent'
    BY <1>1, <2>2 DEF Refuse, Coherent, TypeOK, slots
  <2>4. SlotsConserved' /\ GaugesAgree'
    BY <1>1, <2>2, SlotsUntouched DEF Refuse, At, TypeOK, slots
  <2> QED
    BY <2>1, <2>3, <2>4
<1>2. ASSUME NEW r \in Requests, AcquireAtOnce(r) PROVE IInv'
  <2>1. /\ inflight' \in [Judges -> Nat]
        /\ \A j \in Judges : inflight'[j] = Cardinality(Judging(j)')
    BY <1>2, Admitting DEF AcquireAtOnce
  <2>2. stage' = [stage EXCEPT ![r] = "admitted"] /\ stage[r] = "new" /\ fut[r] = "none"
    BY <1>2 DEF AcquireAtOnce, Admit, Coherent
  <2>3. value > 0 /\ value' = value - 1 /\ value' \in Nat /\ NextTicket \in Nat
    <3>1. value # 0
      BY <1>2 DEF AcquireAtOnce, Locked
    <3>2. Cardinality({q \in Requests : ticket[q] # 0}) \in Nat
      BY RequestSets
    <3> QED
      BY <1>2, <3>1, <3>2 DEF AcquireAtOnce, TypeOK, NextTicket
  <2>4. TypeOK'
    BY <1>2, <2>1, <2>2, <2>3 DEF AcquireAtOnce, TypeOK, Stage, counters
  <2>5. Coherent'
    BY <1>2, <2>2 DEF AcquireAtOnce, Coherent, TypeOK
  <2>6. SlotsConserved'
    <3>1. Holders \in SUBSET Requests /\ r \notin Holders /\ Holders' = Holders \cup {r}
      BY <1>2, <2>2 DEF AcquireAtOnce, Holders, Granted, At, TypeOK
    <3>2. Cardinality(Holders') = Cardinality(Holders) + 1 /\ Cardinality(Holders) \in Nat
      BY <3>1, OneMore, RequestSets
    <3> QED
      BY <2>3, <3>2, MaxConcurrencyAssumption DEF SlotsConserved, TypeOK
  <2>7. At("queued")' = At("queued") /\ waiting' = waiting
    BY <1>2, <2>2 DEF AcquireAtOnce, At, TypeOK
  <2> QED
    BY <2>1, <2>4, <2>5, <2>6, <2>7 DEF GaugesAgree
<1>3. ASSUME NEW r \in Requests, Enqueue(r) PROVE IInv'
  <2>1. stage' = [stage EXCEPT ![r] = "queued"] /\ stage[r] = "new" /\ fut[r] = "none"
    BY <1>3 DEF Enqueue, Coherent
  <2>2. NextTicket \in Nat
    <3>1. Cardinality({q \in Requests : ticket[q] # 0}) \in Nat
      BY RequestSets
    <3> QED
      BY <3>1 DEF NextTicket
  <2>3. TypeOK'
    BY <1>3, <2>1, <2>2 DEF Enqueue, TypeOK, Stage, Future, counters
  <2>4. Coherent'
    BY <1>3, <2>1 DEF Enqueue, Coherent, TypeOK
  <2>5. SlotsConserved'
    <3>1. Holders' = Holders
      BY <1>3, <2>1 DEF Enqueue, Holders, Granted, At, TypeOK
    <3> QED
      BY <1>3, <3>1 DEF Enqueue, SlotsConserved
  <2>6. waiting' = Cardinality(At("queued")')
    <3>1. At("queued") \in SUBSET Requests /\ r \notin At("queued")
      BY <2>1 DEF At
    <3>2. At("queued")' = At("queued") \cup {r}
      BY <2>1 DEF At, TypeOK
    <3> QED
      BY <1>3, <3>1, <3>2, OneMore DEF Enqueue, GaugesAgree
  <2>7. \A j \in Judges : Judging(j)' = Judging(j) /\ inflight'[j] = inflight[j]
    BY <1>3, <2>1 DEF Enqueue, Judging, At, JudgeOf, TypeOK
  <2> QED
    BY <2>3, <2>4, <2>5, <2>6, <2>7 DEF GaugesAgree
<1>4. ASSUME NEW r \in Requests, QueueTimeout(r) PROVE IInv'
  <2>1. TypeOK'
    BY <1>4 DEF QueueTimeout, TypeOK, Future, counters
  <2>2. Coherent'
    BY <1>4 DEF QueueTimeout, Coherent, TypeOK
  <2>3. Granted' = Granted /\ \A s : At(s)' = At(s)
    BY <1>4 DEF QueueTimeout, Granted, At, TypeOK
  <2>4. SlotsConserved'
    BY <1>4, <2>3 DEF QueueTimeout, SlotsConserved, Holders
  <2>5. GaugesAgree'
    BY <1>4, <2>3 DEF QueueTimeout, GaugesAgree, Judging, JudgeOf
  <2> QED
    BY <2>1, <2>2, <2>4, <2>5
<1>5. ASSUME NEW r \in Requests, ResumeGranted(r) PROVE IInv'
  <2>1. stage' = [stage EXCEPT ![r] = "admitted"] /\ stage[r] = "queued"
    BY <1>5 DEF ResumeGranted, Admit, Coherent
  <2>2. /\ inflight' \in [Judges -> Nat]
        /\ \A j \in Judges : inflight'[j] = Cardinality(Judging(j)')
    BY <1>5, <2>1, Admitting DEF ResumeGranted
  <2>3. /\ fut' \in [Requests -> Future] /\ value' \in Nat /\ waiting' \in Nat
        /\ waiting' = Cardinality(At("queued")')
        /\ \A s \in Requests : fut'[s] # "none" <=> stage'[s] = "queued"
        /\ SlotsConserved'
    BY <1>5, <2>1, Resuming DEF ResumeGranted
  <2>4. TypeOK'
    BY <1>5, <2>1, <2>2, <2>3 DEF ResumeGranted, TypeOK, Stage, counters
  <2>5. Coherent'
    BY <1>5, <2>1, <2>3 DEF ResumeGranted, Coherent, TypeOK
  <2> QED
    BY <2>2, <2>3, <2>4, <2>5 DEF GaugesAgree
<1>6. ASSUME NEW r \in Requests, ResumeRejected(r) PROVE IInv'
  <2>1. stage' = [stage EXCEPT ![r] = "answered"] /\ stage[r] = "queued"
    BY <1>6 DEF ResumeRejected, Answer, Coherent
  <2>2. /\ fut' \in [Requests -> Future] /\ value' \in Nat /\ waiting' \in Nat
        /\ waiting' = Cardinality(At("queued")')
        /\ \A s \in Requests : fut'[s] # "none" <=> stage'[s] = "queued"
        /\ SlotsConserved'
    BY <1>6, <2>1, Resuming DEF ResumeRejected
  <2>3. 429 \in Status
    BY DEF Status
  <2>4. TypeOK'
    BY <1>6, <2>2, <2>3, Answering DEF ResumeRejected, TypeOK
  <2>5. Coherent'
    BY <1>6, <2>1, <2>2 DEF ResumeRejected, Coherent, TypeOK
  <2>6. \A j \in Judges : Judging(j)' = Judging(j) /\ inflight'[j] = inflight[j]
    BY <1>6, <2>1 DEF ResumeRejected, Judging, At, JudgeOf, TypeOK
  <2> QED
    BY <2>2, <2>4, <2>5, <2>6 DEF GaugesAgree
<1>7. ASSUME NEW r \in Requests, StartThread(r) PROVE IInv'
  <2>1. TypeOK'
    BY <1>7 DEF StartThread, TypeOK, Stage, slots, counters
  <2>2. Coherent'
    BY <1>7 DEF StartThread, Coherent, TypeOK, slots
  <2>3. SlotsConserved' /\ GaugesAgree'
    BY <1>7, SlotsUntouched DEF StartThread, At, TypeOK, slots
  <2> QED
    BY <2>1, <2>2, <2>3
<1>8. ASSUME NEW r \in Requests, NEW outcome \in Outcomes, ThreadEnds(r, outcome) PROVE IInv'
  <2>1. TypeOK'
    BY <1>8 DEF ThreadEnds, TypeOK, slots, counters
  <2>2. Coherent'
    BY <1>8 DEF ThreadEnds, Coherent, TypeOK, slots
  <2>3. SlotsConserved' /\ GaugesAgree'
    BY <1>8, SlotsUntouched DEF ThreadEnds, At, slots
  <2> QED
    BY <2>1, <2>2, <2>3
<1>9. ASSUME NEW r \in Requests, Finish(r) PROVE IInv'
  <2>1. stage' = [stage EXCEPT ![r] = "answered"] /\ stage[r] = "running"
    BY <1>9 DEF Finish, Answer
  <2>2. /\ fut' \in [Requests -> Future] /\ value' \in Nat
        /\ inflight' \in [Judges -> Nat]
        /\ \A s \in Requests : fut'[s] # "none" <=> stage'[s] = "queued"
        /\ SlotsConserved' /\ GaugesAgree'
    BY <1>9, <2>1, Leaving DEF Finish
  <2>3. TypeOK'
    BY <1>9, <2>2, StatusType, Answering DEF Finish, TypeOK
  <2>4. Coherent'
    BY <1>9, <2>1, <2>2 DEF Finish, Coherent, TypeOK
  <2> QED
    BY <2>2, <2>3, <2>4
<1>10. ASSUME NEW r \in Requests, Deadline(r) PROVE IInv'
  <2>1. stage' = [stage EXCEPT ![r] = "answered"] /\ stage[r] = "admitted"
    BY <1>10 DEF Deadline, Answer
  <2>2. /\ fut' \in [Requests -> Future] /\ value' \in Nat
        /\ inflight' \in [Judges -> Nat]
        /\ \A s \in Requests : fut'[s] # "none" <=> stage'[s] = "queued"
        /\ SlotsConserved' /\ GaugesAgree'
    BY <1>10, <2>1, Leaving DEF Deadline
  <2>3. 504 \in Status
    BY DEF Status
  <2>4. TypeOK'
    BY <1>10, <2>2, <2>3, Answering DEF Deadline, TypeOK
  <2>5. Coherent'
    BY <1>10, <2>1, <2>2 DEF Deadline, Coherent, TypeOK
  <2> QED
    BY <2>2, <2>4, <2>5
<1>11. ASSUME NEW p \in Probes, ProbeStarts(p) \/ ProbeEnds(p) PROVE IInv'
  <2>1. /\ borrowers' \subseteq Requests \cup Probes
        /\ \A r \in Requests : r \in borrowers' <=> r \in borrowers
    BY <1>11, ProbesAssumption DEF ProbeStarts, ProbeEnds, TypeOK
  <2>2. UNCHANGED <<payload, stage, slots, waiting, inflight, result, answer, counters>>
    BY <1>11 DEF ProbeStarts, ProbeEnds
  <2>3. TypeOK'
    BY <2>1, <2>2 DEF TypeOK, slots, counters
  <2>4. Coherent'
    BY <2>1, <2>2 DEF Coherent, slots
  <2>5. SlotsConserved' /\ GaugesAgree'
    BY <2>2, SlotsUntouched DEF At, slots
  <2> QED
    BY <2>3, <2>4, <2>5
<1>12. CASE UNCHANGED vars
  <2>1. TypeOK' /\ Coherent'
    BY <1>12 DEF vars, TypeOK, Coherent
  <2>2. SlotsConserved' /\ GaugesAgree'
    BY <1>12, SlotsUntouched DEF vars, At
  <2> QED
    BY <2>1, <2>2
<1> QED
  BY <1>1, <1>2, <1>3, <1>4, <1>5, <1>6, <1>7, <1>8, <1>9, <1>10, <1>11, <1>12 DEF Next

-----------------------------------------------------------------------------
(* The theorems *)

\* The invariant holds of every behaviour of the service.
THEOREM Invariance == Spec => []IInv
BY InitIInv, NextIInv, PTL DEF Spec

\* Every variable keeps its type: no gauge and no counter goes below zero.
THEOREM TypeCorrect == Spec => []TypeOK
<1>1. IInv => TypeOK
  BY DEF IInv
<1> QED
  BY Invariance, <1>1, PTL

\* Free slots and slots in use always add up to max_concurrency.
THEOREM SlotsAreConserved == Spec => []SlotsConserved
<1>1. IInv => SlotsConserved
  BY DEF IInv
<1> QED
  BY Invariance, <1>1, PTL

\* The gauges count the requests they are about.
THEOREM GaugesAreRight == Spec => []GaugesAgree
<1>1. IInv => GaugesAgree
  BY DEF IInv
<1> QED
  BY Invariance, <1>1, PTL

\* At most max_concurrency judges run, whatever deadlines pass.
THEOREM ModelCallsAreBounded == Spec => []ModelCallsBounded
<1>1. ASSUME IInv PROVE ModelCallsBounded
  <2>1. borrowers \cap Requests = At("running")
    BY <1>1 DEF IInv, Coherent, At
  <2>2. Holders \in SUBSET Requests /\ At("running") \in SUBSET Holders
    BY DEF Holders, Granted, At
  <2>3. Cardinality(At("running")) =< Cardinality(Holders)
    BY <2>2, RequestSets, FS_Subset
  <2>4. Cardinality(Holders) =< MaxConcurrency
    BY <1>1, <2>2, RequestSets, MaxConcurrencyAssumption DEF IInv, SlotsConserved, TypeOK
  <2>5. Cardinality(At("running")) \in Nat /\ Cardinality(Holders) \in Nat
    BY <2>2, RequestSets
  <2> QED
    BY <2>1, <2>3, <2>4, <2>5, MaxConcurrencyAssumption DEF ModelCallsBounded
<1> QED
  BY Invariance, <1>1, PTL

-----------------------------------------------------------------------------
(* No lost wake-up *)

\* The front of the queue is all of it, or as long as it was asked to be.
LEMMA FrontIsFull ==
    ASSUME NEW G \in SUBSET Pending, NEW n \in Nat, IsFront(G, n)
    PROVE  Cardinality(G) = n \/ G = Pending
<1>1. Pending \in SUBSET Requests
  BY DEF Pending
<1>2. IsFiniteSet(Pending)
  BY <1>1, RequestSets
<1>3. Cardinality(G) = Cardinality(Pending) => G = Pending
  BY <1>2, FS_Subset
<1> QED
  BY <1>3 DEF IsFront

\* After a waiter has resumed, no free slot is left beside a waiter nobody wakes.
LEMMA ResumingWakes ==
    ASSUME IInv, NEW r \in Requests, fut[r] \in {"set", "cancelled"}, LeaveQueue(r)
    PROVE  NoLostWakeup'
<1>1. value \in Nat /\ value =< value
  BY DEF IInv, TypeOK
<1>2. PICK G \in SUBSET Pending :
           /\ IsFront(G, value)
           /\ value' = value - Cardinality(G)
           /\ fut' = [s \in Requests |-> IF s = r THEN "none"
                                         ELSE IF s \in G THEN "set" ELSE fut[s]]
  BY <1>1, HandOff DEF LeaveQueue, IInv
<1>3. CASE Cardinality(G) = value
  BY <1>1, <1>2, <1>3 DEF NoLostWakeup
<1>4. CASE G = Pending
  <2>1. Pending' = {}
    BY <1>2, <1>4 DEF Pending
  <2> QED
    BY <2>1 DEF NoLostWakeup
<1> QED
  BY <1>1, <1>2, <1>3, <1>4, FrontIsFull

\* A slot that comes back is handed over if anybody waits.
LEMMA LeavingWakes ==
    ASSUME IInv, NoLostWakeup, NEW r \in Requests, stage[r] \in {"admitted", "running"}, Leave(r)
    PROVE  NoLostWakeup'
<1>1. value + 1 \in Nat /\ 1 \in Nat /\ 1 =< value + 1 /\ fut[r] = "none"
  BY DEF IInv, TypeOK, Coherent, Future
<1>2. PICK G \in SUBSET Pending :
           /\ IsFront(G, 1)
           /\ fut' = [s \in Requests |-> IF s = r THEN "none"
                                         ELSE IF s \in G THEN "set" ELSE fut[s]]
  BY <1>1, HandOff DEF Leave, ReleaseSlot, IInv
<1>3. CASE Cardinality(G) = 1
  <2>1. G # {}
    BY <1>3, FS_EmptySet
  <2>2. Granted' # {}
    BY <1>1, <1>2, <2>1 DEF Granted, Pending
  <2> QED
    BY <2>2 DEF NoLostWakeup
<1>4. CASE G = Pending
  <2>1. Pending' = {}
    BY <1>2, <1>4 DEF Pending
  <2> QED
    BY <2>1 DEF NoLostWakeup
<1> QED
  BY <1>2, <1>3, <1>4, FrontIsFull

\* No step leaves a free slot beside a waiter that nobody will wake.
LEMMA NextWakes ==
    ASSUME IInv, NoLostWakeup, [Next]_vars
    PROVE  NoLostWakeup'
<1>1. ASSUME NEW r \in Requests, AcquireAtOnce(r) PROVE NoLostWakeup'
  BY <1>1 DEF AcquireAtOnce, Locked, Waiters, NoLostWakeup, Pending
<1>2. ASSUME NEW r \in Requests, Enqueue(r) PROVE NoLostWakeup'
  <2>1. CASE value = 0
    BY <1>2, <2>1 DEF Enqueue, NoLostWakeup
  <2>2. CASE \E s \in Waiters : fut[s] # "cancelled"
    <3>1. PICK s \in Requests : fut[s] \in {"pending", "set"}
      BY <2>2 DEF Waiters, IInv, TypeOK, Future
    <3>2. value > 0 => Granted # {}
      BY <3>1 DEF NoLostWakeup, Pending, Granted
    <3>3. Granted \subseteq Granted'
      BY <1>2 DEF Enqueue, Granted, IInv, Coherent, TypeOK
    <3>4. value' = value
      BY <1>2 DEF Enqueue
    <3> QED
      BY <3>2, <3>3, <3>4 DEF NoLostWakeup
  <2> QED
    BY <1>2, <2>1, <2>2 DEF Enqueue, Locked
<1>3. ASSUME NEW r \in Requests, QueueTimeout(r) PROVE NoLostWakeup'
  BY <1>3 DEF QueueTimeout, NoLostWakeup, Pending, Granted, IInv, TypeOK
<1>4. ASSUME NEW r \in Requests, ResumeGranted(r) \/ ResumeRejected(r) PROVE NoLostWakeup'
  BY <1>4, ResumingWakes DEF ResumeGranted, ResumeRejected
<1>5. ASSUME NEW r \in Requests, Finish(r) \/ Deadline(r) PROVE NoLostWakeup'
  BY <1>5, LeavingWakes DEF Finish, Deadline
<1>6. CASE UNCHANGED <<value, fut>>
  BY <1>6 DEF NoLostWakeup, Pending, Granted
<1> QED
  BY <1>1, <1>2, <1>3, <1>4, <1>5, <1>6
  DEF Next, Refuse, StartThread, ThreadEnds, ProbeStarts, ProbeEnds, slots, vars

\* A free slot beside a waiter is about to be handed over, always.
THEOREM NoWakeupIsLost == Spec => []NoLostWakeup
<1>1. Init => NoLostWakeup
  BY DEF Init, NoLostWakeup, Pending
<1> QED
  BY <1>1, NextWakes, Invariance, PTL DEF Spec

-----------------------------------------------------------------------------
(* A thread for every slot *)

\* While there are no more probes at a time than the headroom is for, a request
\* that has a slot never waits for a thread.
THEOREM HeadroomSuffices ==
    ASSUME Cardinality(Probes) =< ThreadHeadroom
    PROVE  Spec => []AdmittedGetThread
<1>1. ASSUME IInv PROVE AdmittedGetThread
  <2>1. /\ borrowers = At("running") \cup (borrowers \cap Probes)
        /\ At("running") \cap (borrowers \cap Probes) = {}
    BY <1>1, ProbesAssumption DEF IInv, Coherent, At, TypeOK
  <2>2. IsFiniteSet(borrowers \cap Probes) /\ Cardinality(borrowers \cap Probes) =< Cardinality(Probes)
        /\ Cardinality(borrowers \cap Probes) \in Nat /\ Cardinality(Probes) \in Nat
    BY ProbesAssumption, FS_Subset, FS_CardinalityType
  <2>3. /\ At("admitted") \in SUBSET Requests /\ At("running") \in SUBSET Requests
        /\ Holders \in SUBSET Requests
        /\ At("admitted") \cap At("running") = {}
        /\ At("admitted") \cup At("running") \in SUBSET Holders
    BY DEF At, Holders, Granted
  <2>4. /\ IsFiniteSet(At("running")) /\ IsFiniteSet(Holders)
        /\ Cardinality(At("admitted")) \in Nat /\ Cardinality(At("running")) \in Nat
        /\ Cardinality(Holders) \in Nat
    BY <2>3, RequestSets
  <2>5. Cardinality(borrowers) = Cardinality(At("running")) + Cardinality(borrowers \cap Probes)
    <3>1. Cardinality(At("running") \cup (borrowers \cap Probes))
            = Cardinality(At("running")) + Cardinality(borrowers \cap Probes)
              - Cardinality(At("running") \cap (borrowers \cap Probes))
      BY <2>2, <2>4, FS_Union
    <3>2. Cardinality(At("running") \cap (borrowers \cap Probes)) = 0
      BY <2>1, FS_EmptySet
    <3>3. Cardinality(borrowers) = Cardinality(At("running") \cup (borrowers \cap Probes))
      BY <2>1
    <3> QED
      BY <2>2, <2>4, <3>1, <3>2, <3>3
  <2>6. Cardinality(At("admitted")) + Cardinality(At("running")) =< Cardinality(Holders)
    <3>1. Cardinality(At("admitted") \cup At("running"))
            = Cardinality(At("admitted")) + Cardinality(At("running"))
      BY <2>3, DisjointUnion
    <3>2. Cardinality(At("admitted") \cup At("running")) =< Cardinality(Holders)
      BY <2>3, <2>4, FS_Subset
    <3> QED
      BY <3>1, <3>2
  <2>7. Cardinality(Holders) =< MaxConcurrency
    BY <1>1, <2>4, MaxConcurrencyAssumption DEF IInv, SlotsConserved, TypeOK
  <2>8. MaxConcurrency + ThreadHeadroom =< ThreadTokens /\ ThreadTokens \in Nat
    BY LimiterAssumption, MaxConcurrencyAssumption DEF ThreadTokens
  <2> QED
    BY <2>2, <2>4, <2>5, <2>6, <2>7, <2>8, LimiterAssumption, MaxConcurrencyAssumption
    DEF AdmittedGetThread
<1> QED
  BY Invariance, <1>1, PTL

-----------------------------------------------------------------------------
(* The counters *)

\* An answer is given once, to a request that had none.
AnswersCoherent == \A r \in Requests : answer[r] # 0 <=> stage[r] = "answered"

UpstreamFailed == Answered(502) \cup Answered(503) \cup Answered(504)

MInv == AnswersCoherent /\ MetricsAgree

\* One answer more, in the counter of its status and in no other, whatever else was counted.
LEMMA CountingAnswers ==
    ASSUME TypeOK, AnswersCoherent, NEW extra \in [Status -> Nat],
           \A s \in Status : requestsTotal[s] = Cardinality(Counted(s)) + extra[s],
           NEW r \in Requests, stage[r] # "answered",
           NEW status \in Status, Answer(r, status)
    PROVE  /\ AnswersCoherent'
           /\ \A s \in Status : requestsTotal'[s] = Cardinality(Counted(s)') + extra[s]
           /\ \A s \in Status : /\ r \notin Answered(s)
                                /\ Answered(s)' = IF s = status THEN Answered(s) \cup {r}
                                                  ELSE Answered(s)
<1>1. answer[r] = 0 /\ 0 \notin Status
  BY DEF AnswersCoherent, Status
<1>2. answer' = [answer EXCEPT ![r] = status] /\ stage' = [stage EXCEPT ![r] = "answered"]
  BY DEF Answer
<1>3. ASSUME NEW s \in Status
      PROVE  /\ r \notin Answered(s)
             /\ Answered(s)' = IF s = status THEN Answered(s) \cup {r} ELSE Answered(s)
  BY <1>1, <1>2 DEF Answered, TypeOK
<1>4. AnswersCoherent'
  BY <1>1, <1>2 DEF AnswersCoherent, TypeOK
<1>5. requestsTotal' = IF Counts(r, status) THEN [requestsTotal EXCEPT ![status] = @ + 1]
                       ELSE requestsTotal
  BY DEF Answer, Count
<1>6. ASSUME NEW s \in Status
      PROVE  requestsTotal'[s] = Cardinality(Counted(s)') + extra[s]
  <2>1. Counted(s) \in SUBSET Requests /\ r \notin Counted(s)
    BY <1>3 DEF Counted, Answered
  <2>2. /\ Cardinality(Counted(s) \cup {r}) = Cardinality(Counted(s)) + 1
        /\ Cardinality(Counted(s)) \in Nat /\ extra[s] \in Nat
    BY <2>1, OneMore, RequestSets
  <2>3. CASE s = status /\ Counts(r, status)
    <3>1. requestsTotal'[s] = requestsTotal[s] + 1
      BY <1>5, <2>3 DEF TypeOK
    <3>2. Counted(s)' = Counted(s) \cup {r}
      BY <1>3, <2>3 DEF Counted, Counts
    <3> QED
      BY <2>2, <3>1, <3>2
  <2>4. CASE ~ (s = status /\ Counts(r, status))
    <3>1. requestsTotal'[s] = requestsTotal[s]
      BY <1>5, <2>4 DEF TypeOK
    <3>2. Counted(s)' = Counted(s)
      BY <1>3, <2>4 DEF Counted, Counts
    <3> QED
      BY <3>1, <3>2
  <2> QED
    BY <2>3, <2>4
<1> QED
  BY <1>3, <1>4, <1>6

\* The other two counters, by what the answer is.
LEMMA CountingFailures ==
    ASSUME TypeOK, MInv, NEW r \in Requests, stage[r] # "answered",
           NEW status \in Status, Answer(r, status),
           rejectedTotal' = rejectedTotal + (IF status = 429 THEN 1 ELSE 0),
           upstreamErrors' = upstreamErrors + (IF status \in {502, 503, 504} THEN 1 ELSE 0)
    PROVE  MInv'
<1>1. /\ AnswersCoherent'
      /\ \A s \in Status : requestsTotal'[s] = Cardinality(Counted(s)')
      /\ \A s \in Status : /\ r \notin Answered(s)
                           /\ Answered(s)' = IF s = status THEN Answered(s) \cup {r}
                                             ELSE Answered(s)
  <2> DEFINE nothing == [s \in Status |-> 0]
  <2>1. /\ nothing \in [Status -> Nat] /\ \A s \in Status : nothing[s] = 0
        /\ \A s \in Status : requestsTotal[s] = Cardinality(Counted(s)) + nothing[s]
    BY RequestSets DEF MInv, MetricsAgree, Counted, Answered
  <2> HIDE DEF nothing
  <2>2. \A s \in Status : Counted(s)' \in SUBSET Requests
    BY DEF Counted, Answered
  <2>3. \A s \in Status : Cardinality(Counted(s)') \in Nat
    BY <2>2, RequestSets
  <2> QED
    BY <2>1, <2>3, CountingAnswers DEF MInv
<1>2. {429, 502, 503, 504} \subseteq Status
  BY DEF Status
<1>3. rejectedTotal' = Cardinality(Answered(429)')
  <2>1. Answered(429) \in SUBSET Requests
    BY DEF Answered
  <2>2. Cardinality(Answered(429) \cup {r}) = Cardinality(Answered(429)) + 1
    BY <1>1, <1>2, <2>1, OneMore
  <2>3. rejectedTotal = Cardinality(Answered(429)) /\ rejectedTotal \in Nat
    BY DEF MInv, MetricsAgree, TypeOK
  <2>4. CASE status = 429
    <3>1. Answered(429)' = Answered(429) \cup {r}
      BY <1>1, <1>2, <2>4
    <3> QED
      BY <2>2, <2>3, <2>4, <3>1
  <2>5. CASE status # 429
    <3>1. Answered(429)' = Answered(429)
      BY <1>1, <1>2, <2>5
    <3> QED
      BY <2>3, <2>5, <3>1
  <2> QED
    BY <2>4, <2>5
<1>4. upstreamErrors' = Cardinality(UpstreamFailed')
  <2>1. UpstreamFailed \in SUBSET Requests /\ r \notin UpstreamFailed
    BY <1>1, <1>2 DEF UpstreamFailed, Answered
  <2>2. Cardinality(UpstreamFailed \cup {r}) = Cardinality(UpstreamFailed) + 1
    BY <2>1, OneMore
  <2>3. UpstreamFailed' = IF status \in {502, 503, 504} THEN UpstreamFailed \cup {r}
                          ELSE UpstreamFailed
    BY <1>1, <1>2 DEF UpstreamFailed
  <2>4. upstreamErrors = Cardinality(UpstreamFailed)
    BY DEF MInv, MetricsAgree, UpstreamFailed
  <2> QED
    BY <2>2, <2>3, <2>4 DEF TypeOK
<1> QED
  BY <1>1, <1>3, <1>4 DEF MInv, MetricsAgree, UpstreamFailed

\* The status is one of its type, and the two other counters go by it.
AnswerCounted(r, status) ==
    /\ stage[r] # "answered"
    /\ Answer(r, status)
    /\ rejectedTotal' = rejectedTotal + (IF status = 429 THEN 1 ELSE 0)
    /\ upstreamErrors' = upstreamErrors + (IF status \in {502, 503, 504} THEN 1 ELSE 0)

\* A step gives no answer and counts nothing, or gives one.
LEMMA HowAnswersCome ==
    ASSUME IInv, [Next]_vars
    PROVE  \/ /\ UNCHANGED <<answer, counters>>
              /\ \A r \in Requests : stage'[r] = "answered" <=> stage[r] = "answered"
           \/ \E r \in Requests, status \in Status : AnswerCounted(r, status)
<1> DEFINE quiet == /\ UNCHANGED <<answer, counters>>
                    /\ \A r \in Requests : stage'[r] = "answered" <=> stage[r] = "answered"
           loud == \E r \in Requests, status \in Status : AnswerCounted(r, status)
<1> USE DEF IInv
<1>1. ASSUME NEW r \in Requests, Refuse(r) PROVE loud
  <2>1. CheckRequest(payload[r]) \in {413, 422}
    BY <1>1 DEF Refuse, CheckRequest
  <2>2. CheckRequest(payload[r]) \in Status
    BY <2>1 DEF Status
  <2>3. AnswerCounted(r, CheckRequest(payload[r]))
    BY <1>1, <2>1 DEF Refuse, AnswerCounted, TypeOK
  <2> QED
    BY <2>2, <2>3
<1>2. ASSUME NEW r \in Requests, ResumeRejected(r) PROVE loud
  <2>1. AnswerCounted(r, 429) /\ 429 \in Status
    BY <1>2 DEF ResumeRejected, Status, Coherent, AnswerCounted, TypeOK
  <2> QED
    BY <2>1
<1>3. ASSUME NEW r \in Requests, Finish(r) PROVE loud
  <2>1. result[r] \in {"verdict", "connect", "timeout", "unparseable", "backend", "raise"}
    BY <1>3, OutcomesAssumption DEF Finish, TypeOK
  <2>2. /\ StatusOf(result[r]) \in Status /\ StatusOf(result[r]) # 429
        /\ StatusOf(result[r]) \in {502, 503, 504} <=> result[r] \notin {"verdict", "raise"}
    BY <2>1 DEF StatusOf, Status
  <2>3. AnswerCounted(r, StatusOf(result[r]))
    BY <1>3, <2>2 DEF Finish, AnswerCounted, TypeOK
  <2> QED
    BY <2>2, <2>3
<1>4. ASSUME NEW r \in Requests, Deadline(r) PROVE loud
  <2>1. AnswerCounted(r, 504) /\ 504 \in Status
    BY <1>4 DEF Deadline, Status, AnswerCounted, TypeOK
  <2> QED
    BY <2>1
<1>5. ASSUME NEW r \in Requests, AcquireAtOnce(r) \/ Enqueue(r) PROVE quiet
  BY <1>5 DEF AcquireAtOnce, Enqueue, Admit, TypeOK
<1>6. ASSUME NEW r \in Requests, QueueTimeout(r) \/ StartThread(r) PROVE quiet
  BY <1>6 DEF QueueTimeout, StartThread, TypeOK
<1>7. ASSUME NEW r \in Requests, ResumeGranted(r) PROVE quiet
  BY <1>7 DEF ResumeGranted, Admit, TypeOK, Coherent
<1>8. ASSUME NEW r \in Requests, NEW outcome \in Outcomes, ThreadEnds(r, outcome) PROVE quiet
  BY <1>8 DEF ThreadEnds
<1>9. ASSUME NEW p \in Probes, ProbeStarts(p) \/ ProbeEnds(p) PROVE quiet
  BY <1>9 DEF ProbeStarts, ProbeEnds
<1>10. CASE UNCHANGED vars
  BY <1>10 DEF vars, counters
<1> QED
  BY <1>1, <1>2, <1>3, <1>4, <1>5, <1>6, <1>7, <1>8, <1>9, <1>10 DEF Next

\* Each answer is in the counters once, and each upstream error and rejection with it.
THEOREM MetricsAreRight == Spec => []MetricsAgree
<1>1. ASSUME Init PROVE MInv
  <2>1. \A s \in Status : Answered(s) = {}
    BY <1>1 DEF Init, Answered, Status
  <2>2. {429, 500, 502, 503, 504} \subseteq Status
    BY DEF Status
  <2>3. AnswersCoherent
    BY <1>1 DEF Init, AnswersCoherent
  <2> QED
    BY <1>1, <2>1, <2>2, <2>3, FS_EmptySet DEF Init, MInv, MetricsAgree, Counted
<1>2. ASSUME IInv, MInv, [Next]_vars PROVE MInv'
  <2>1. ASSUME UNCHANGED <<answer, counters>>,
               \A r \in Requests : stage'[r] = "answered" <=> stage[r] = "answered"
        PROVE  MInv'
    BY <1>2, <2>1 DEF MInv, MetricsAgree, AnswersCoherent, Counted, Answered, counters
  <2>2. ASSUME NEW r \in Requests, NEW status \in Status, AnswerCounted(r, status) PROVE MInv'
    BY <1>2, <2>2, CountingFailures DEF IInv, AnswerCounted
  <2> QED
    BY <1>2, <2>1, <2>2, HowAnswersCome
<1>3. MInv => MetricsAgree
  BY DEF MInv
<1> QED
  BY <1>1, <1>2, <1>3, Invariance, PTL DEF Spec

-----------------------------------------------------------------------------
(* The service keeps the promise of Admission *)

\* Tickets are numbered by arrival: none is larger than the number given out.
Ticketed == {r \in Requests : ticket[r] # 0}
TicketsInOrder ==
    \A r \in Requests : /\ ticket[r] =< Cardinality(Ticketed)
                        /\ stage[r] = "new" => ticket[r] = 0

\* A new ticket is larger than every one before it.
LEMMA NewTicket ==
    ASSUME TypeOK, TicketsInOrder, NEW r \in Requests, stage[r] = "new",
           ticket' = [ticket EXCEPT ![r] = NextTicket]
    PROVE  /\ \A s \in Requests : s # r => ticket'[r] > ticket'[s] /\ ticket'[s] = ticket[s]
           /\ ticket'[r] > 0 /\ ticket' \in [Requests -> Nat]
           /\ \A s \in Requests : ticket'[s] =< Cardinality(Ticketed')
<1>1. Ticketed \in SUBSET Requests /\ r \notin Ticketed /\ Cardinality(Ticketed) \in Nat
  <2>1. Ticketed \in SUBSET Requests /\ r \notin Ticketed
    BY DEF Ticketed, TicketsInOrder
  <2> QED
    BY <2>1, RequestSets
<1>2. NextTicket = Cardinality(Ticketed) + 1
  BY <1>1 DEF NextTicket, Ticketed
<1>3. ticket'[r] = Cardinality(Ticketed) + 1 /\ ticket' \in [Requests -> Nat]
  BY <1>1, <1>2 DEF TypeOK
<1>4. \A s \in Requests : s # r => ticket'[s] = ticket[s]
  BY DEF TypeOK
<1>5. Ticketed' = Ticketed \cup {r}
  BY <1>1, <1>3, <1>4 DEF Ticketed
<1>6. Cardinality(Ticketed') = Cardinality(Ticketed) + 1
  BY <1>1, <1>5, OneMore
<1> QED
  BY <1>1, <1>3, <1>4, <1>6 DEF TicketsInOrder, TypeOK

\* Tickets are handed out in the order of arrival, and nobody gets a second one.
LEMMA TicketsStayInOrder == Spec => []TicketsInOrder
<1>1. ASSUME Init PROVE TicketsInOrder
  <2>1. Cardinality(Ticketed) \in Nat
    BY RequestSets DEF Ticketed
  <2> QED
    BY <1>1, <2>1 DEF Init, TicketsInOrder
<1>2. ASSUME IInv, TicketsInOrder, [Next]_vars PROVE TicketsInOrder'
  <2> USE DEF IInv
  <2>1. ASSUME NEW r \in Requests, AcquireAtOnce(r) \/ Enqueue(r) PROVE TicketsInOrder'
    <3>1. stage[r] = "new" /\ ticket' = [ticket EXCEPT ![r] = NextTicket]
      BY <2>1 DEF AcquireAtOnce, Enqueue
    <3>2. \A s \in Requests : stage'[s] = "new" => s # r /\ stage[s] = "new"
      BY <1>2, <2>1 DEF AcquireAtOnce, Enqueue, Admit, TypeOK
    <3> QED
      BY <1>2, <3>1, <3>2, NewTicket DEF TicketsInOrder
  <2>2. ASSUME ticket' = ticket, \A s \in Requests : stage'[s] = "new" => stage[s] = "new"
        PROVE  TicketsInOrder'
    BY <1>2, <2>2 DEF TicketsInOrder, Ticketed
  <2>3. ASSUME NEW r \in Requests, Refuse(r) \/ QueueTimeout(r) \/ ResumeGranted(r)
                                   \/ ResumeRejected(r) \/ StartThread(r) \/ Finish(r) \/ Deadline(r)
        PROVE  TicketsInOrder'
    BY <1>2, <2>2, <2>3 DEF Refuse, QueueTimeout, ResumeGranted, ResumeRejected, StartThread,
                            Finish, Deadline, Admit, Answer, TypeOK, slots
  <2>4. ASSUME NEW r \in Requests, NEW outcome \in Outcomes, ThreadEnds(r, outcome)
        PROVE  TicketsInOrder'
    BY <2>2, <2>4 DEF ThreadEnds, slots
  <2>5. ASSUME NEW p \in Probes, ProbeStarts(p) \/ ProbeEnds(p) PROVE TicketsInOrder'
    BY <2>2, <2>5 DEF ProbeStarts, ProbeEnds, slots
  <2>6. CASE UNCHANGED vars
    BY <2>2, <2>6 DEF vars
  <2> QED
    BY <1>2, <2>1, <2>3, <2>4, <2>5, <2>6 DEF Next
<1> QED
  BY <1>1, <1>2, Invariance, PTL DEF Spec

\* What PhaseOf says of a request, by its stage and its future.
PhasesRight ==
    \A r \in Requests :
        /\ stage[r] = "new" <=> PhaseOf(r) = "new"
        /\ r \in Holders <=> PhaseOf(r) = "judging"
        /\ fut[r] = "pending" <=> PhaseOf(r) = "waiting"
        /\ fut[r] = "cancelled" => PhaseOf(r) = "away"
        /\ stage[r] = "answered" /\ (result[r] # "none" \/ answer[r] = 504)
              => PhaseOf(r) = "served"
        /\ stage[r] = "answered" /\ result[r] = "none" /\ answer[r] # 504
              => PhaseOf(r) = "away"
        /\ PhaseOf(r) \in Promise!Phase

\* What the phase of a request says of the variables of the service.
LEMMA Phases == IInv => PhasesRight
BY DEF IInv, TypeOK, Coherent, PhaseOf, Holders, Granted, At, Stage, Future, PhasesRight,
       Promise!Phase

\* A step keeps the promise when each request moves as it may and the tickets say
\* that nobody is overtaken.
LEMMA PromiseStep ==
    ASSUME IInv, IInv',
           \A s \in Requests : \/ PhaseOf(s)' = PhaseOf(s)
                               \/ <<PhaseOf(s), PhaseOf(s)'>> \in Promise!Moves,
           \A s \in Requests, t \in Requests :
              s \notin Holders /\ s \in Holders' /\ fut'[t] = "pending"
              => ticket'[s] < ticket'[t],
           \A s \in Requests : stage[s] # "new" => ticket'[s] = ticket[s],
           \A s \in Requests, t \in Requests :
              stage[s] = "new" /\ stage'[s] \in {"queued", "admitted", "running"}
              /\ ticket[t] # 0
              => ticket'[s] > ticket[t]
    PROVE  Promise!Next
<1> DEFINE phase == [s \in Requests |-> PhaseOf(s)]
<1>1. \A s \in Requests : /\ phase[s] = "new" <=> stage[s] = "new"
                          /\ phase[s] = "judging" <=> s \in Holders
                          /\ phase[s] = "waiting" <=> fut[s] = "pending"
                          /\ phase[s] \in Promise!Phase
  BY Phases DEF PhasesRight
<1>2. \A s \in Requests : /\ phase'[s] = "judging" <=> s \in Holders'
                          /\ phase'[s] = "waiting" <=> fut'[s] = "pending"
                          /\ phase'[s] \in Promise!Phase
  <2>1. PhasesRight'
    BY Phases, PTL
  <2> QED
    BY <2>1 DEF PhasesRight
<1>3. Promise!TypeOK'
  BY <1>2 DEF Promise!TypeOK, IInv, TypeOK
<1>4. Promise!Room'
  <2>1. Promise!In("judging")' = Holders'
    BY <1>2 DEF Promise!In, Holders, Granted, At
  <2>2. Holders' \in SUBSET Requests
    BY DEF Holders, Granted, At
  <2>3. Cardinality(Holders') =< MaxConcurrency
    BY <2>2, RequestSets, MaxConcurrencyAssumption DEF IInv, SlotsConserved, TypeOK
  <2>4. Promise!Cardinality(Holders') = Cardinality(Holders')
    BY DEF Promise!Cardinality, Cardinality, Promise!IsFiniteSet, IsFiniteSet
  <2> QED
    BY <2>1, <2>3, <2>4 DEF Promise!Room
<1>5. Promise!NobodyOvertaken
  BY <1>1, <1>2 DEF Promise!NobodyOvertaken
<1>6. Promise!SeniorityByArrival
  <2>1. \A s \in Requests : phase'[s] \in {"waiting", "judging"}
                            => stage'[s] \in {"queued", "admitted", "running"}
    BY <1>2 DEF IInv, Coherent, Holders, Granted, At
  <2> QED
    BY <1>1, <1>2, <2>1 DEF Promise!SeniorityByArrival
<1> QED
  BY <1>3, <1>4, <1>5, <1>6 DEF Promise!Next

\* Handing slots over to the front of the queue G overtakes nobody who goes on
\* waiting, and moves the requests of G from waiting to judging.
LEMMA HandOffKeepsPromise ==
    ASSUME IInv, IInv', NEW r \in Requests, fut[r] # "pending",
           NEW G \in SUBSET Pending, NEW n \in Nat, IsFront(G, n),
           fut' = [s \in Requests |-> IF s = r THEN "none"
                                      ELSE IF s \in G THEN "set" ELSE fut[s]],
           ticket' = ticket,
           \A s \in Requests : s # r => stage'[s] = stage[s] /\ answer'[s] = answer[s],
           result' = result,
           stage[r] # "new", stage'[r] # "new",
           r \notin Holders' \/ r \in Holders,
           \/ PhaseOf(r)' = PhaseOf(r)
           \/ <<PhaseOf(r), PhaseOf(r)'>> \in Promise!Moves
    PROVE  Promise!Next
<1>1. PhasesRight /\ PhasesRight'
  BY Phases, PTL
<1>2. ASSUME NEW s \in Requests
      PROVE  \/ PhaseOf(s)' = PhaseOf(s)
             \/ <<PhaseOf(s), PhaseOf(s)'>> \in Promise!Moves
  <2>1. CASE s \in G /\ s # r
    <3>1. fut[s] = "pending" /\ s \in Holders'
      BY <2>1 DEF Pending, Holders, Granted
    <3>2. PhaseOf(s) = "waiting" /\ PhaseOf(s)' = "judging"
      BY <1>1, <3>1 DEF PhasesRight
    <3> QED
      BY <3>2 DEF Promise!Moves
  <2>2. CASE s \notin G /\ s # r
    <3>1. fut'[s] = fut[s] /\ stage'[s] = stage[s] /\ answer'[s] = answer[s] /\ result'[s] = result[s]
      BY <2>2 DEF IInv, TypeOK
    <3> QED
      BY <3>1 DEF PhaseOf, Holders, Granted, At
  <2> QED
    BY <2>1, <2>2
<1>3. ASSUME NEW s \in Requests, NEW t \in Requests,
             s \notin Holders, s \in Holders', fut'[t] = "pending"
      PROVE  ticket'[s] < ticket'[t]
  <2>1. s \in G
    BY <1>3 DEF Holders, Granted, At
  <2>2. t \in Pending \ G
    BY <1>3 DEF Pending
  <2> QED
    BY <2>1, <2>2 DEF IsFront
<1>4. \A s \in Requests : stage[s] = "new" => stage'[s] = "new"
  OBVIOUS
<1> QED
  BY <1>2, <1>3, <1>4, PromiseStep

\* A step in which only r moves, and no future is handed over.
LEMMA LoneMove ==
    ASSUME IInv, IInv', NEW r \in Requests,
           \A s \in Requests : s # r => /\ stage'[s] = stage[s] /\ answer'[s] = answer[s]
                                        /\ fut'[s] = fut[s] /\ result'[s] = result[s]
                                        /\ ticket'[s] = ticket[s],
           \/ PhaseOf(r)' = PhaseOf(r)
           \/ <<PhaseOf(r), PhaseOf(r)'>> \in Promise!Moves,
           r \in Holders' => r \in Holders \/ Pending' = {},
           stage[r] # "new" => ticket'[r] = ticket[r],
           stage[r] = "new" /\ stage'[r] \in {"queued", "admitted", "running"} =>
              \A t \in Requests : t # r => ticket'[r] > ticket[t],
           ticket[r] # 0 => stage[r] # "new"
    PROVE  Promise!Next
<1>1. ASSUME NEW s \in Requests
      PROVE  \/ PhaseOf(s)' = PhaseOf(s)
             \/ <<PhaseOf(s), PhaseOf(s)'>> \in Promise!Moves
  <2>1. CASE s # r
    BY <2>1 DEF PhaseOf, Holders, Granted, At
  <2> QED
    BY <2>1
<1>2. ASSUME NEW s \in Requests, NEW t \in Requests,
             s \notin Holders, s \in Holders', fut'[t] = "pending"
      PROVE  ticket'[s] < ticket'[t]
  <2>1. s = r
    BY <1>2 DEF Holders, Granted, At
  <2>2. t \in Pending'
    BY <1>2 DEF Pending
  <2> QED
    BY <1>2, <2>1, <2>2
<1>3. \A s \in Requests : stage[s] # "new" => ticket'[s] = ticket[s]
  OBVIOUS
<1>4. \A s \in Requests, t \in Requests :
         stage[s] = "new" /\ stage'[s] \in {"queued", "admitted", "running"} /\ ticket[t] # 0
         => ticket'[s] > ticket[t]
  OBVIOUS
<1> QED
  BY <1>1, <1>2, <1>3, <1>4, PromiseStep

\* Every step of the service is a step of Admission or leaves it unchanged.
LEMMA StepKeepsPromise ==
    ASSUME IInv, IInv', TicketsInOrder, [Next]_vars
    PROVE  Promise!Next \/ UNCHANGED Promise!vars
<1> USE DEF IInv
<1>1. PhasesRight /\ PhasesRight'
  BY Phases, PTL
<1>2. ASSUME NEW r \in Requests, Refuse(r) PROVE Promise!Next
  <2>1. /\ stage[r] = "new" /\ stage' = [stage EXCEPT ![r] = "answered"]
        /\ answer' = [answer EXCEPT ![r] = CheckRequest(payload[r])]
        /\ UNCHANGED <<fut, ticket, result>>
    BY <1>2 DEF Refuse, Answer, slots
  <2>2. CheckRequest(payload[r]) # 504 /\ result[r] = "none"
    BY <2>1 DEF CheckRequest, Coherent
  <2>3. PhaseOf(r) = "new" /\ PhaseOf(r)' = "away"
    BY <1>1, <2>1, <2>2 DEF PhasesRight, TypeOK
  <2>4. r \notin Holders' /\ ticket[r] = 0
    BY <2>1 DEF Holders, Granted, At, TypeOK, Coherent, TicketsInOrder
  <2> QED
    BY <2>1, <2>3, <2>4, LoneMove DEF TypeOK, Promise!Moves
<1>3. ASSUME NEW r \in Requests, AcquireAtOnce(r) PROVE Promise!Next
  <2>1. /\ stage[r] = "new" /\ stage' = [stage EXCEPT ![r] = "admitted"]
        /\ ticket' = [ticket EXCEPT ![r] = NextTicket]
        /\ UNCHANGED <<fut, result, answer>>
    BY <1>3 DEF AcquireAtOnce, Admit
  <2>2. Pending' = {}
    BY <1>3, <2>1 DEF AcquireAtOnce, Locked, Waiters, Pending
  <2>3. r \in Holders'
    BY <2>1 DEF Holders, At, TypeOK
  <2>4. PhaseOf(r) = "new" /\ PhaseOf(r)' = "judging"
    BY <1>1, <2>1, <2>3 DEF PhasesRight
  <2>5. /\ \A s \in Requests : s # r => ticket'[r] > ticket'[s] /\ ticket'[s] = ticket[s]
        /\ ticket[r] = 0
    BY <2>1, NewTicket DEF TicketsInOrder
  <2> QED
    BY <2>1, <2>2, <2>4, <2>5, LoneMove DEF TypeOK, Promise!Moves
<1>4. ASSUME NEW r \in Requests, Enqueue(r) PROVE Promise!Next
  <2>1. /\ stage[r] = "new" /\ stage' = [stage EXCEPT ![r] = "queued"]
        /\ ticket' = [ticket EXCEPT ![r] = NextTicket]
        /\ fut' = [fut EXCEPT ![r] = "pending"]
        /\ UNCHANGED <<result, answer>>
    BY <1>4 DEF Enqueue
  <2>2. r \notin Holders'
    BY <2>1 DEF Holders, Granted, At, TypeOK
  <2>3. PhaseOf(r) = "new" /\ PhaseOf(r)' = "waiting"
    BY <1>1, <2>1 DEF PhasesRight, TypeOK
  <2>4. /\ \A s \in Requests : s # r => ticket'[r] > ticket'[s] /\ ticket'[s] = ticket[s]
        /\ ticket[r] = 0
    BY <2>1, NewTicket DEF TicketsInOrder
  <2> QED
    BY <2>1, <2>2, <2>3, <2>4, LoneMove DEF TypeOK, Promise!Moves
<1>5. ASSUME NEW r \in Requests, QueueTimeout(r) PROVE Promise!Next
  <2>1. /\ fut[r] = "pending" /\ fut' = [fut EXCEPT ![r] = "cancelled"]
        /\ UNCHANGED <<stage, ticket, result, answer>>
    BY <1>5 DEF QueueTimeout
  <2>2. stage[r] = "queued" /\ fut'[r] = "cancelled"
    BY <2>1 DEF Coherent, TypeOK
  <2>3. r \notin Holders'
    BY <2>1, <2>2 DEF Holders, Granted, At
  <2>4. PhaseOf(r) = "waiting" /\ PhaseOf(r)' = "away"
    BY <1>1, <2>1, <2>2 DEF PhasesRight
  <2> QED
    BY <2>1, <2>2, <2>3, <2>4, LoneMove DEF TypeOK, Promise!Moves
<1>6. ASSUME NEW r \in Requests, ResumeGranted(r) \/ ResumeRejected(r) PROVE Promise!Next
  <2>1. /\ fut[r] \in {"set", "cancelled"} /\ stage[r] = "queued" /\ LeaveQueue(r)
        /\ ticket' = ticket /\ result' = result
    BY <1>6 DEF ResumeGranted, ResumeRejected, Coherent
  <2>2. value \in Nat /\ value =< value
    BY DEF TypeOK
  <2>3. PICK G \in SUBSET Pending :
             /\ IsFront(G, value)
             /\ fut' = [s \in Requests |-> IF s = r THEN "none"
                                           ELSE IF s \in G THEN "set" ELSE fut[s]]
    BY <2>1, <2>2, HandOff DEF LeaveQueue
  <2>4. /\ \A s \in Requests : s # r => stage'[s] = stage[s] /\ answer'[s] = answer[s]
        /\ stage'[r] # "new"
    BY <1>6 DEF ResumeGranted, ResumeRejected, Admit, Answer, TypeOK
  <2>5. CASE ResumeGranted(r)
    <3>1. r \in Holders /\ r \in Holders'
      BY <2>5 DEF ResumeGranted, Admit, Holders, Granted, At, TypeOK
    <3>2. PhaseOf(r)' = PhaseOf(r)
      BY <1>1, <3>1 DEF PhasesRight
    <3> QED
      BY <2>1, <2>2, <2>3, <2>4, <3>1, <3>2, HandOffKeepsPromise
  <2>6. CASE ResumeRejected(r)
    <3>1. stage'[r] = "answered" /\ answer'[r] = 429 /\ fut'[r] = "none" /\ fut[r] = "cancelled"
      BY <2>3, <2>6 DEF ResumeRejected, Answer, TypeOK
    <3>2. result'[r] = "none" /\ r \notin Holders'
      BY <2>1, <3>1 DEF Coherent, Holders, Granted, At
    <3>3. PhaseOf(r) = "away" /\ PhaseOf(r)' = "away"
      BY <1>1, <3>1, <3>2 DEF PhasesRight
    <3> QED
      BY <2>1, <2>2, <2>3, <2>4, <3>2, <3>3, HandOffKeepsPromise
  <2> QED
    BY <1>6, <2>5, <2>6
<1>7. ASSUME NEW r \in Requests, Finish(r) \/ Deadline(r) PROVE Promise!Next
  <2>1. /\ stage[r] \in {"admitted", "running"} /\ Leave(r) /\ fut[r] = "none"
        /\ ticket' = ticket /\ result' = result
    BY <1>7 DEF Finish, Deadline, Coherent, TypeOK, Future
  <2>2. value + 1 \in Nat /\ 1 \in Nat /\ 1 =< value + 1
    BY DEF TypeOK
  <2>3. PICK G \in SUBSET Pending :
             /\ IsFront(G, 1)
             /\ fut' = [s \in Requests |-> IF s = r THEN "none"
                                           ELSE IF s \in G THEN "set" ELSE fut[s]]
    BY <2>1, <2>2, HandOff DEF Leave, ReleaseSlot
  <2>4. /\ \A s \in Requests : s # r => stage'[s] = stage[s] /\ answer'[s] = answer[s]
        /\ stage'[r] = "answered"
        /\ result'[r] # "none" \/ answer'[r] = 504
    BY <1>7 DEF Finish, Deadline, Answer, TypeOK
  <2>5. r \in Holders /\ r \notin Holders'
    BY <2>1, <2>3, <2>4 DEF Holders, Granted, At
  <2>6. PhaseOf(r) = "judging" /\ PhaseOf(r)' = "served"
    BY <1>1, <2>4, <2>5 DEF PhasesRight
  <2>7. <<PhaseOf(r), PhaseOf(r)'>> \in Promise!Moves
    BY <2>6 DEF Promise!Moves
  <2> QED
    BY <2>1, <2>2, <2>3, <2>4, <2>5, <2>7, HandOffKeepsPromise
<1>8. ASSUME UNCHANGED <<fut, ticket, answer>>,
             \A r \in Requests : \/ stage'[r] = stage[r] /\ result'[r] = result[r]
                                 \/ r \in Holders /\ r \in Holders'
      PROVE  UNCHANGED Promise!vars
  <2>1. \A r \in Requests : PhaseOf(r)' = PhaseOf(r)
    <3>1. ASSUME NEW r \in Requests, r \in Holders, r \in Holders' PROVE PhaseOf(r)' = PhaseOf(r)
      BY <1>1, <3>1 DEF PhasesRight
    <3>2. ASSUME NEW r \in Requests, stage'[r] = stage[r], result'[r] = result[r]
          PROVE  PhaseOf(r)' = PhaseOf(r)
      BY <1>8, <3>2 DEF PhaseOf, Holders, Granted, At
    <3> QED
      BY <1>8, <3>1, <3>2
  <2> QED
    BY <1>8, <2>1 DEF Promise!vars
<1>9. ASSUME NEW r \in Requests, StartThread(r) PROVE UNCHANGED Promise!vars
  <2>1. r \in Holders /\ r \in Holders'
    BY <1>9 DEF StartThread, Holders, At, TypeOK
  <2> QED
    BY <1>8, <1>9, <2>1 DEF StartThread, TypeOK, slots
<1>10. ASSUME NEW r \in Requests, NEW outcome \in Outcomes, ThreadEnds(r, outcome)
       PROVE  UNCHANGED Promise!vars
  <2>1. r \in Holders /\ r \in Holders'
    BY <1>10 DEF ThreadEnds, Holders, At, Coherent
  <2> QED
    BY <1>8, <1>10, <2>1 DEF ThreadEnds, TypeOK, slots
<1>11. ASSUME NEW p \in Probes, ProbeStarts(p) \/ ProbeEnds(p) PROVE UNCHANGED Promise!vars
  BY <1>8, <1>11 DEF ProbeStarts, ProbeEnds, slots
<1>12. CASE UNCHANGED vars
  BY <1>8, <1>12 DEF vars
<1> QED
  BY <1>2, <1>3, <1>4, <1>5, <1>6, <1>7, <1>9, <1>10, <1>11, <1>12 DEF Next

\* The service implements Admission: its slots bound what is judged, and no request
\* that waits is passed by one that came later.
THEOREM Refinement == Spec => PromiseKept
<1>1. ASSUME Init PROVE Promise!Init
  <2>1. \A r \in Requests : PhaseOf(r) = "new"
    BY <1>1, InitIInv, Phases DEF Init, PhasesRight
  <2> QED
    BY <1>1, <2>1 DEF Init, Promise!Init
<1>2. Spec => [](IInv /\ TicketsInOrder)
  BY Invariance, TicketsStayInOrder, PTL
<1>3. QED
  BY <1>1, <1>2, StepKeepsPromise, PTL DEF Spec, PromiseKept, Promise!Spec

=============================================================================
