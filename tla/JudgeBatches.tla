---------------------------- MODULE JudgeBatches -----------------------------
(* Batches (serve/routes.py, judge_batch) among single requests: the items of  *)
(* a batch pass a gate of its own, each is judged like a request, and gather   *)
(* puts the answers together.                                                  *)
EXTENDS JudgeService, Sequences

CONSTANTS Batches,   \* calls of judge_batch, each made once
          ItemsOf,   \* the items of each, calls of run_one in their order
          GateSize,  \* payload.max_concurrency of each
          MaxBatch   \* settings.max_batch

ASSUME BatchesAssumption ==
    /\ IsFiniteSet(Batches)
    /\ ItemsOf \in [Batches -> Seq(BatchItems)]
    /\ GateSize \in [Batches -> Nat \ {0}]
    /\ MaxBatch \in Nat

VARIABLES posted,       \* batches whose items were started
          batchAnswer   \* HTTP status of the batch, 0 before it is sent

batches == <<posted, batchAnswer>>
allVars == <<vars, batches>>

Items(b) == { ItemsOf[b][k] : k \in 1 .. Len(ItemsOf[b]) }

\* A plausible bug: the gate is as wide as the client asks.
GateAsAsked(b) == GateSize[b]

Gate(b) == IF GateSize[b] < MaxConcurrency THEN GateSize[b] ELSE MaxConcurrency

Started(r) == stage[r] \notin {"new", "answered"}

\* A plausible bug: an item that fails keeps its place at the gate.
FailedStayInside(b) ==
    { r \in Items(b) : Started(r) \/ (stage[r] = "answered" /\ answer[r] # 200) }

Inside(b) == { r \in Items(b) : Started(r) }

\* The gate lets items in by their order, as long as there is room.
MayEnter(r) ==
    \A b \in Batches : r \in Items(b) =>
        /\ b \in posted
        /\ Cardinality(Inside(b)) < Gate(b)
        /\ \E k \in 1 .. Len(ItemsOf[b]) :
              /\ ItemsOf[b][k] = r
              /\ \A j \in 1 .. k - 1 : stage[ItemsOf[b][j]] # "new"

BatchInit ==
    /\ Init
    /\ posted = {}
    /\ batchAnswer = [b \in Batches |-> 0]

\* run_one begins: at once for a single request, behind the gate for an item.
Arrive(r) ==
    /\ MayEnter(r)
    /\ Refuse(r) \/ AcquireAtOnce(r) \/ Enqueue(r)
    /\ UNCHANGED batches

\* The rest of run_one.
Proceed(r) ==
    /\ \/ QueueTimeout(r) \/ ResumeGranted(r) \/ ResumeRejected(r) \/ StartThread(r)
       \/ \E outcome \in Outcomes : ThreadEnds(r, outcome)
       \/ Finish(r) \/ Deadline(r)
    /\ UNCHANGED batches

Probing ==
    /\ \E p \in Probes : ProbeStarts(p) \/ ProbeEnds(p)
    /\ UNCHANGED batches

\* judge_batch up to its gather.
Post(b) ==
    /\ b \notin posted /\ batchAnswer[b] = 0
    /\ Len(ItemsOf[b]) =< MaxBatch
    /\ posted' = posted \cup {b}
    /\ UNCHANGED <<vars, batchAnswer>>

\* Too many items: refused whole, and counted.
TooLarge(b) ==
    /\ b \notin posted /\ batchAnswer[b] = 0
    /\ Len(ItemsOf[b]) > MaxBatch
    /\ batchAnswer' = [batchAnswer EXCEPT ![b] = 413]
    /\ requestsTotal' = [requestsTotal EXCEPT ![413] = @ + 1]
    /\ UNCHANGED <<payload, stage, slots, waiting, inflight, borrowers, result, answer,
                   rejectedTotal, upstreamErrors, posted>>

Raised(b) == { r \in Items(b) : answer[r] = 500 }

\* gather returns when every item has; each has a status of its own.
Collect(b) ==
    /\ b \in posted /\ batchAnswer[b] = 0
    /\ \A r \in Items(b) : stage[r] = "answered"
    /\ Raised(b) = {}
    /\ batchAnswer' = [batchAnswer EXCEPT ![b] = 200]
    /\ UNCHANGED <<vars, posted>>

\* gather passes on the first exception that is no ServiceError; the other items run on.
Collapse(b) ==
    /\ b \in posted /\ batchAnswer[b] = 0
    /\ Raised(b) # {}
    /\ batchAnswer' = [batchAnswer EXCEPT ![b] = 500]
    /\ UNCHANGED <<vars, posted>>

BatchNext ==
    \/ \E r \in Requests : Arrive(r) \/ Proceed(r)
    \/ \E b \in Batches : Post(b) \/ TooLarge(b) \/ Collect(b) \/ Collapse(b)
    \/ Probing

BatchSpec == BatchInit /\ [][BatchNext]_allVars

\* The loop runs what is due, timers fire, the gate wakes the next item, gather returns, and a
\* judge's thread ends: its HTTP calls carry a timeout and its rules are a loop over the steps.
\* Nothing makes a single request arrive, a batch come or a probe start.
BatchFairness ==
    /\ \A r \in BatchItems : WF_allVars(Arrive(r))
    /\ \A r \in Requests :
          /\ WF_allVars(UNCHANGED batches /\ QueueTimeout(r))
          /\ WF_allVars(UNCHANGED batches /\ (ResumeGranted(r) \/ ResumeRejected(r)))
          /\ WF_allVars(UNCHANGED batches /\ StartThread(r))
          /\ WF_allVars(UNCHANGED batches /\ \E outcome \in Outcomes : ThreadEnds(r, outcome))
          /\ WF_allVars(UNCHANGED batches /\ (Finish(r) \/ Deadline(r)))
    /\ WF_allVars(UNCHANGED batches /\ \E p \in Probes : ProbeEnds(p))
    /\ \A b \in Batches : WF_allVars(Collect(b) \/ Collapse(b))

FairBatchSpec == BatchSpec /\ BatchFairness
-----------------------------------------------------------------------------
(* Properties *)

\* What stands before a single request that waits: requests with a slot, and those that
\* queued before it.
Before(r) == Holders \cup { s \in Pending : ticket[s] < ticket[r] }

\* A batch of any size cannot starve single requests: no more of its items are ahead of
\* one than there are slots (routes.py:248, "so a batch cannot starve single requests").
BatchLeavesRoom ==
    \A b \in Batches, r \in Pending \ BatchItems :
        Cardinality(Items(b) \cap Before(r)) =< MaxConcurrency

\* Everything the counters tell, batches included: a batch is counted when it is refused
\* whole, and its items when they are judged.
BatchMetricsAgree ==
    \A s \in Status :
        requestsTotal[s] = Cardinality(Counted(s))
                           + Cardinality({ b \in Batches : batchAnswer[b] = s /\ s = 413 })

\* A batch is answered, and each of its items is judged or refused, however small the gate
\* and whatever becomes of the others.
EveryBatchAnswered ==
    \A b \in Batches :
        b \in posted ~> batchAnswer[b] # 0 /\ \A r \in Items(b) : stage[r] = "answered"
=============================================================================
