# trajectory-judge in TLA+

trajectory-judge builds sets of agent trajectories (customer-support refunds played in a simulated
world, some with a known fault), has judges say which of them are faulty, and scores the judges.
It runs as a command line that appends to files and can be interrupted, and as an HTTP service
that judges one trajectory or a batch. This directory holds TLA+ modules that model those parts,
the TLC configurations that check them, and proofs for TLAPS.

`PROJECT.json` lists the components, the runs, what each definition models (`map`, file and
lines), the hazards, the findings and the theorems. Each run's module and cfg are named there:

    tlc -workers 2 -config JudgeSlots.cfg MCJudgeService      # one run
    tlapm JudgeServiceProofs.tla                              # the proofs of one module

## Inventory

| Part | State it keeps | Operations | What makes it correct | Here |
|---|---|---|---|---|
| `serve/routes.py` `run_one`, `serve/runtime.py` `Runtime`, `serve/errors.py` | an asyncio semaphore with its queue, `waiting`, gauges, counters, worker threads | accept, refuse, queue, time out, judge in a thread, answer | no slot lost; bounded model calls; first come first served; every request answered; metrics that tell what happened | `JudgeService`, `Admission` |
| `serve/routes.py` `judge_batch` | a gate of its own, the items | gather over `run_one`, refuse whole | single requests are not starved, all is answered, items are counted | `JudgeBatches` |
| `serve/app.py` lifespan, `run` | uvicorn's grace, the drain's grace | stop, cancel, drain, close | a cancellation gives everything back once; the drain waits for what runs | `Shutdown` |
| `serve/runtime.py` `Readiness` | four cached fields, no lock | `get` from several threads | an answer is no older than the TTL; an outage is seen | `Readiness` |
| `cli.py` `run`, `store.py` | `verdicts.jsonl`, `responses.jsonl`, `run.json`; in memory the resume set, a streak, a count | start, skip, judge, append, stop, be killed | one verdict to a pair, none from a failed call, honest exit codes, reruns that go on | `JudgeRun` |
| `env/world.py`, `trace.py` | an order, a refund; the steps so far | tool calls | the steps tell what the desk did | `World`, `Episode` |
| `env/checker.py`, `judges/programmatic.py` | what it read so far | rules R1 to R8 over a trace | a refund that breaks no rule is the right one; the first violation names the fault | `Checker` |
| `agents/oracle.py`, `agents/llm_agent.py` | the steps so far | the scripted agent; a model that may call anything | the scripted run follows the procedure; labels of free runs say what went wrong | `Faults`, `Agent`, `Procedure` |
| `mutate.py` | none | six faults put into a clean run, replayed | a fault trips rules of its own type only, at the labelled step, and changes the outcome as meant | `Faults` |
| `judges/llm.py`, `self_consistency.py`, `mock.py`, `ablation.py`, `ollama_client.py` | configuration only | call, read the reply, vote | no reply makes a verdict that contradicts itself; a flag is that of a majority of the calls | `Verdicts`, `Judging`; failed calls in `JudgeRun` |
| `cli.py` `build_dataset`, `missing_parents`, `_judging_order`, `agent` | `trajectories.jsonl` | quotas, parents, order | quotas are met, each fault has its clean run | `Dataset`, `Judging` |
| `metrics.py`, `report.py` | none | pair verdicts with labels, count | counts add up, strata partition the set | `Scores`, `Judging` |
| `analysis/bootstrap_ci.py`, `paired_ci.py` | none | count again, pair faults with clean runs | they read the same numbers as the report | `Analysis`, `Sequence` |
| `bench/` | processes at two ports, samples, a histogram in the service | start, wait, drive, scrape, stop, check | a sweep measures its own processes; a point has all its samples | `Bench` |
| `serve/config.py`, `schemas.py`, `metrics.py`, `logging.py` | none | parsing, validation, declarations | | not modelled: declarative |

How they interact: the HTTP handlers are coroutines on one event loop. `run_one` waits for the
semaphore under `queue_timeout_s`, then for a token of anyio's process-wide thread limiter and for
the judge's thread under a deadline. A batch runs its items through the same `run_one`, behind a
gate. `/readyz` and `/v1/models` take tokens of the same limiter without passing the semaphore.
The lifespan drains the semaphore that all of these share. Judges call Ollama over a shared HTTP
client and report its failures inside a verdict (`error`), which the service turns into a status
and the command line into a gap for the next run. The command line and the service share the
judges, not the files. The command line, the report and the paper's scripts share the files.

The hard behaviours are the hand-off of slots against timeouts, cancellations and new arrivals,
the deadline against a thread that cannot be interrupted, probes against requests on the limiter,
threads over an unlocked cache, kills between two appends, one failed call among several, rules
that overlap on one trace, rows that outlive the set they were judged in, and processes that
outlive the command that started them. `hazards` in `PROJECT.json` lists them with their lines,
the ones no property covers included.

## Modules

| Module | What it is |
|---|---|
| `Admission` | abstract specification: capacity, and first come first served among those that wait |
| `JudgeService`, `JudgeServiceProofs` | requests, the semaphore, the thread limiter, probes, answers, counters |
| `JudgeBatches` | extends it with batches |
| `Shutdown`, `ShutdownProofs` | extends that with the end of the service; the proofs about both |
| `Readiness`, `ReadinessProofs` | the cached probe |
| `JudgeRun`, `JudgeRunProofs` | the run command over its files |
| `World`, `Checker`, `Episode` | the desk, the rules, one episode of calls |
| `Agent` | an agent that may call anything in any order |
| `Procedure` | abstract specification: the procedure that judges are told |
| `Sequence` | the baseline that reads only the order of calls |
| `Faults`, `AgentProofs` | the scripted agent, the faults in its run, and the agent beside them; the proofs about this, `Agent`, `Sequence` and `Procedure` |
| `Verdicts`, `Scores`, `Dataset`, `Analysis` | pure operators: replies and votes, the report's counts, the sets, the paper's counts |
| `Judging`, `JudgingProofs` | commands one after another over one verdicts.jsonl, composed of those four |
| `Counting` | lemmas about numbers, finite sets and sums, for the proofs |
| `Bench`, `BenchProofs` | the load test with its processes and ports |
| `MC*` | the instances that TLC checks |

### JudgeService

One action is what the event loop or a worker thread does between two awaits; due callbacks run in
any order. `stage[r]` is the await that request `r` is at: `queued` in `acquire()`, `admitted` in
`run_sync` before a token, `running` in its thread. The semaphore is CPython's: `value` is
`_value`, `fut[r]` the future of a waiter in `_waiters` (`set` once a release has handed it the
slot, `cancelled` once the timeout hit it), `ticket` the order of that deque. `Locked`,
`HandSlots`, `ReleaseSlot` and `LeaveQueue` are `locked()`, `_wake_up_next()`, `release()` and the
`finally` of `acquire()`. They and the limiter are library code and external in the map.

| Action | Code |
|---|---|
| `Refuse` | `_check_request` raises before any state is touched |
| `AcquireAtOnce`, `Enqueue` | `acquire()` on a free or a locked semaphore; `waiting` and its gauge |
| `QueueTimeout`, `ResumeRejected` | `fail_after(queue_timeout_s)` cancels a future that is not done; the task resumes to a 429 |
| `ResumeGranted` | the task resumes with the slot that was handed to it |
| `StartThread`, `ThreadEnds`, `Finish` | a token, the judge, and all of `run_one` after it: token, slot, gauge, status, counters |
| `Deadline` | the deadline ends the wait for a token only: a started thread is shielded (`run_sync` does not abandon), its verdict is used however late |
| `ProbeStarts`, `ProbeEnds` | `/readyz` and `/v1/models` on the limiter |

A timer may fire at any time: the model does not compare `queue_timeout_s` with other durations. A
verdict is its outcome: the class of its error, none, or a judge that raised (`raise`), which no
handler of the service meets.

### JudgeBatches and Shutdown

`JudgeBatches` wraps each request's actions: `Arrive(r)` needs `MayEnter(r)`, the gate of
`judge_batch` (an item holds its place from its start to its answer, items enter in order);
`Post`, `TooLarge`, `Collect` and `Collapse` are the handler before and after its `gather`. An
item whose `ServiceError` is caught has that status for its own result; one that raises anything
else makes the whole batch a 500 (`Collapse`) while its siblings run on. `batchAnswer` counts as
sent once.

`Shutdown` goes through the phases `serving`, `stopping` (uvicorn takes nothing new), `draining`
(its grace is over, what is left was cancelled if `cut`) and `closed` (the HTTP client is closed).
`CancelQueued` and `CancelJudging` are the two ways a cancellation leaves `run_one` through its
`finally` blocks. A single request runs inside the middleware's task group: it is cancelled by a
scope, which a started thread's shield holds back, and it finishes although its answer can no
longer be delivered. A batch item is a task cancelled by `gather`, which no shield holds back: it
gives back slot and token and its thread goes on, in `loose`.

### Readiness

`get` runs in several threads without a lock. The model splits it where the interpreter may switch
threads with an effect: before the request (`Probe`), at the backend (`Reply`), and after it
(`Store`). From the timer call that follows the probe to the return there is no call the
interpreter could switch at, so the fields are written in one step; `Hit` reads them in one step
likewise. Times are ages, counted in ticks up to the TTL, all the code distinguishes. `seen` is
history: how old the backend's own answer is, which the code does not record.

### JudgeRun

One process at a time (nobody starts two in one directory). `pc` marks the places where a kill
leaves different files: `meta` (run.json is truncated and not yet written), `call` (a model call
is out), `keep` (before `append_response`), `store` (before `append_verdict`). An append is whole:
a row is one write of a buffered file. A command line is a record: its judges, the set in judging
order (`--first` and the set's order are the order), the prefix the self-consistency judge covers,
`--keep-responses`. A verdict is its key, its error, and `failed`, history that says whether any
call behind it got no answer. Skipping a pair that is in `done` is the `pending` list.

### The desk, the rules, the agents

Amounts are cents. An identifier is one of eight (the asker's, the order's, the item's, somebody
else's, one that nobody has, a reason's words). Floats compared within a cent are `Near`: two
amounts one cent apart pass or not by the rounding of their difference, and the constant
`CloseCents` says which do. `instance` is a refund request, `desk` the `World`, `seen` the local
variables of `check`, `acted` what `outcome_of` reads, and `Play` one step: the tool's answer, the
state it leaves, the rules the step breaks; on the last step the rules over the whole trace. The
checker reads a finished trace in the code and each step as it is made here; it never looks ahead
but for "is this the last step", which `Play` is told.

`Agent` calls any tool with any identifier and amount, up to `MaxSteps`, or answers with what is
no action. `Faults` computes the calls of `run_oracle`, edits them as each mutation does, and
replays the list at a fresh desk (`_rebuild`). `Procedure` is the prompt's procedure as an
abstract specification; the clean run implements it through the mapping at the end of `Faults`.

### Judging

A behaviour is a script: commands in a row, each with one judge and a set it builds or reads.
`todo` holds the trajectories left to judge, each with its turn, and `Foremost` is the one whose
turn it is. `Ask` is one call (`Coerced` its reply), `Conclude` the verdict of one call or of the
vote, `Check` and `Stand` the rule engine and the mock, all of them ending in `Record`. `Ends`
goes on to the next command, whose set replaces the one on file while the rows stay; `Raises` is a
reply that makes `generate` or `_clamp` raise, which ends the command. `told` is history: how many
of a row's calls came back and said faulty. `Violations` are the places where the rules may find a
trajectory faulty first, with their types, and `Flips` what the seeded mock may do to a verdict;
what is found where is the business of `Faults`. `LabelsAssumption` says what a label has to do
with its trajectory: a fault that was put in has its type, and only what is faulty has one.
Stopping after three failures, kills and exit codes are in `JudgeRun`, not here. `CanHost` in
`Dataset` is the table of what `Applies` in `Faults` computes. A shuffle is one order, always the
same: no property depends on it.

### Bench

`holder` says which process listens at each port, `starting` which do not listen yet; a process is
named by sweep, phase and port, so that a stranger is told from one's own. `Bind` may find the
port taken, in which case the process exits and nobody is told. `pc` walks through `run_scenario`.
The closed loop is `Send` and `Answer` with the shared counter. `hist` is the service's histogram,
which only grows and dies with its process. `Kill` and `StopStalls` end the command with processes
left running, which are later killed by hand or not (`KillStale`). Assumed: what one sweep started
has come to listen, or exited, before the next begins; two sweeps never run at once; a driver
process does not outlive its sweep. The open loop is left out: no sweep uses it.

## Runs

| Run | Instance | States | What it shows |
|---|---|---|---|
| `JudgeSlots` | 4 requests of every kind, 2 slots, 1 probe, headroom 1 | 29216 | slots conserved, no lost wake-up, threads bounded and always found, gauges and counters right, `Admission` implemented |
| `Batches` | a batch of 2, one of 3 that is too large, a single request, 2 probes, 1 slot, fair | 11040 | the gate leaves room, counters are right, batches and requests are answered |
| `Shutdown` | a batch of 2 and 2 single requests, 2 slots | 200186 | a cancellation anywhere keeps the accounts; the drain waits for single requests |
| `ShutdownLoose` | the same | | expected violation: the client is closed under an item's thread |
| `Readiness` | 3 threads, TTL of 2 ticks, fair | 146404 | cached answers are less than a TTL old; an outage is seen |
| `JudgeRun` | 3 trajectories, 2 command lines, 3 starts, failures stop at 2, killed anywhere | 879471 | one verdict to a pair, exit codes 0 and 3, responses before verdicts |
| `RunEnsemble` | a self-consistency judge of 2 calls | | expected violation: a failed call behind a stored verdict |
| `RunKilled` | killed anywhere, 2 starts | | expected violation: the command cannot be run again |
| `Episodes` | each fault in each kind of instance; agents of 4 steps at one instance of each difficulty | 316533 | the rules guard the money; one fault, one type, at its step; the clean run follows the procedure |
| `Judging` | scripts of two commands under every reply; built sets of 1 to 26 and 400, with and without parents | 394502 | whole verdicts, a majority behind each flag, tables that add up, readers that agree, balanced sets |
| `Bench` | 2 sweeps of 2 requests a point, killed or stalled anywhere | 1118288 | a sweep measures its own processes; points are whole |
| `BenchEstimates` | the same, answers quick and slow | | expected violation: the scraped percentile is not the point's |

Why the bounds are enough. Four requests for two slots let both slots be handed over, timed out
and released in one turn of the loop with a waiter behind them, so that the order of the queue and
the wake-up of a task that resumes both show. `DefaultTokens = 1` keeps the limiter from hiding
the headroom. In `Batches` two probes can take both tokens, so that the deadline fires while an
admitted request waits for one; one slot and a gate of two make an item wait at either. `Shutdown`
has two requests of each kind, so that one is in the queue, with a slot handed over or not, while
another of its own kind or the other judges. A TTL of two ticks lets a probe be slower than the
TTL and two others overlap it. In `JudgeRun` three starts give a kill, a rerun, and a rerun of the
rerun, with two orders of the set and judges that overlap; `MaxFailures = 2` (3 in the code) is
reached with a set of three both at once and after a success. `Episodes` has a total on which 90
and 85 percent are whole cents and one on which they round, the three fees, two of the three
windows, an order late by one day and by many, and amounts on both sides of the two cents a
rounding may decide; the edited runs are played to their end, six calls at most, and four steps of
a free agent hold a refund with everything it needs, or any one thing missing. In `Judging` the
vote has three calls, the least for a majority that some failed calls can spoil; the sizes of
built sets run past three steps of both quotas, and 400 is the size of the published run; agents'
episodes with a type and without one are judged, and a typed one moves ahead under `--first`. In
`Bench` one sweep follows another, over phases with and without the stand-in, with a program of
one port and one of both; `Warmup = 2` (5 in the code) lets a warmup lose one answer and count
another. `MaxStarts`, `MaxSweeps`, `MaxSteps` (of the agent; `MAX_STEPS` in the code) are bounds;
the theorems hold for any of them.

Deadlock checking is off where the system may rightly stop: all requests answered, no more starts,
the episode over, the script at its end, no more sweeps.

Symmetry is used for requests (`JudgeSlots`) and single requests (`Shutdown`, `ShutdownLoose`), in
runs without liveness only.

Fairness. `BatchFairness` assumes that the event loop runs what is due, that timers fire, that the
gate lets in the next item of a posted batch, that `gather` returns, that a judge's thread ends
(each HTTP call carries a timeout, the rules loop over the steps) and that a probe ends (2 s and 5
s timeouts). It assumes no fairness of arrivals of single requests, of batches or of probes
starting, and none between requests and probes for a token beyond weak fairness of one start,
which probes may disable again and again: then the deadline answers. `Readiness` assumes that time
passes, that the backend or a timeout replies and that a thread goes on to store, nothing about
who calls.

## What the runs found

Each finding is a run that TLC must find violated, and quotes the text it disagrees with (see
`findings`):

- the children of a batch's `gather` give their slots back while their threads run: the drain ends
  and closes the client under them (`ShutdownLoose`);
- a sampled verdict can hide a failed call behind an unusable reply (`RunEnsemble`);
- a kill while run.json is written stops every later run (`RunKilled`);
- the percentile scraped from the service counts earlier points and the warmup, and searches all
  judges at once: it is no second estimate of the point beside it (`BenchEstimates`).

Seen while modelling, without a run of their own:

- The headroom of eight threads bounds nothing: with more probes than that, a request that owns a
  slot waits for a thread. `HeadroomSuffices` is the exact condition; in `Batches` the deadline
  answers.
- The readiness cache does not merge concurrent probes: every thread that finds it stale asks.
- A kill between the two appends of `run` leaves a response without a verdict, and the rerun adds
  another response (`ResponseComesFirst` bounds them by the number of starts).
- A judge, or a type of `--first`, that is named twice is judged twice; the two theorems about it
  assume it is not.
- One item that raises turns a whole batch into a 500, whatever became of the others.
- `generate` says "Never raises", but a closed client, a body that is no object or a count that is
  no number raises past it, and a confidence that is a huge integer raises past `_clamp`. A model
  that answers the string "false" counts as saying faulty.
- "`n/a` means the judge has no step field" (report.py:80) is printed for a step judge too when it
  localised nothing.
- An agent's episode that a failed call cut short is stored as finished and never played again.
- A rerun with another seed gives the ids of the old trajectories to new ones.
- "A warmup request is discarded before each scenario" (bench/README.md:71, render.py:201): the
  driver sends five before each point (driver.py:269) and scenarios.py never asks for another
  number; real_sample.py calls `run_scenario` itself and sends none. `Warmup` is a constant, and
  the theorems hold for any number.

## Proofs

All theorems hold for any values of the constants that satisfy the named assumptions; TLC
evaluates those assumptions in the runs.

`JudgeServiceProofs`. The inductive invariant is

    IInv == TypeOK /\ Coherent /\ SlotsConserved /\ GaugesAgree

`Coherent` ties the variables of one request together: a future exists exactly while the request
is queued, a thread is held exactly while it is running. The types need the rest, since `waiting -
1` is a natural number only while the gauge counts the queued requests; the gauges need
`Coherent`, and the semaphore's value needs `SlotsConserved`. From it follow `TypeCorrect`,
`SlotsAreConserved`, `GaugesAreRight`, `ModelCallsAreBounded`. `HeadroomSuffices` assumes
`Cardinality(Probes) =< ThreadHeadroom`. `NoWakeupIsLost` is shown inductive beside `IInv`.
`MetricsAreRight` adds an invariant that counts the answers by status; the lemma `HowAnswersCome`
says which status each action adds and is used again for batches. `Refinement` shows that a step
of the service is a step of `Admission` or a stutter: the phases move along `Moves` by `Coherent`,
the capacity is `SlotsConserved`, and nobody is overtaken since a hand-off takes the front of the
queue, `Locked` keeps newcomers behind it, and tickets stay in order of arrival
(`TicketsStayInOrder`).

`ShutdownProofs`. A batch step is a step of the service, or changes a counter only
(`BatchKeepsIInv`), so `IInv` carries over. `BatchesLeaveRoom` adds `GateHolds`: no more items of
a batch are started and not answered than its gate, which is no wider than the slots.
`BatchMetricsAreRight` adds to the counting invariant one term for each batch refused whole.

For the end of the service, `DInv` is `IInv`, the wake-up invariant, `LooseAreItems` (only a
batch's task leaves a thread behind) and `ClosedWhole` (a drain that ended within its grace found
every slot free). A cancelled waiter that had been handed a slot passes it on (`GivingUp`), as a
release does. `DrainWaitsForThem` is then `SlotsConserved` at the moment of closing: with every
slot free no request judges, and what is loose belongs to a batch.

`ReadinessProofs`. `SeenSince` is the strengthening: what a probe tells is never older than the
probe's start. So an entry whose age is below the TTL tells something younger still; an
implementation that kept the end of the probe would lose exactly this.

`JudgeRunProofs`. `RInv` says what a running process knows: the resume set is on file, the verdict
in hand is about the target in hand and shows its failed call if the judge makes one call at most,
the streak is below its limit, and of the places left behind none is missing on file while no call
has failed. From it: types, `SingleCallsAreAnswered`, `ZeroIsComplete`. `OneVerdictAtMost` assumes
that no command line names a judge or a failure type twice (`NamedOnce`), and adds `Fresh`: what
is on file is what was read at the start or of a place left behind, so a pending target, in
neither, has no row. `ThreeIsAGap`, under the same assumption, adds `Gap`: once a call has failed,
one of the places left behind is not on file, and stays so. `ResponsesComeFirst` is the action
property, from the invariant that before `store` the last response is the one of the verdict in
hand, with the count of strays (one for each start at most).

`AgentProofs` is about every instance, every order of calls and every rounding of a cent. For the
agent that may call anything (`AgentSpec`) the invariant is

    IInv == Typed /\ InSteps /\ HasFirst /\ PaidOnce /\ AllowedIsRight /\ CleanSoFar /\ Closed
            /\ OnlyEscalationsGround /\ Led

`PaidOnce` ties the steps to the desk; `AllowedIsRight` says that an authorisation is for the
right sum of an order that may be refunded, and `CleanSoFar` that without a violation what was
paid, and what ended the case, is right. `Led` is why R6 never comes first: reading somebody
else's account takes their address, which an honest run cannot know. `OnlyEscalationsGround` is
why: the desk echoes an escalation's reason. Six theorems are read off it. `EpisodesAreRight` says
the same of `Spec`, in which the scripted and edited runs are played beside the agent's.

Of the scripted runs more is proved, since they leave no choice but the instance. `EditedIs` shows
that the edits of mutate.py (find a call, replace it, drop it, cut the list, add to it) give, for
each fault, one explicit list (`Script`) and label (`Labelled`); `AppliesIs`, which instances can
host it. The invariant `IInv /\ Replayed` (`EpisodeInvariance`) then follows a run through its
list: what is left of it after `seen.n` steps (`Along`), what the checker has heard (`Heard`),
what was done and which rules it broke (`Moved`, with `Fires` the violations of each fault). The
one number that matters is in `FeeIsSeen`: on a total of 24 or more (world.py:238) a restocking
fee takes more than the cent a comparison of floats may overlook, so that paying without it is
always found. From the invariant come

- `FaultsAreFound`: where the rule engine flags a run, it names the labelled step;
- `SilenceIsMeant`: the faults that leave the outcome right are those that leave the money alone,
  and a skipped check where no fee is due;
- `FaultsAreOfOneType`: a wrong tool and an unsupported claim break no rule, each other fault
  breaks rules of its own type only; and both baselines that read only the order of calls flag all
  but the clean run, the ignored observation and the unsupported claim. The lenient one is a fold
  over the calls, which `WalkExists` and `WalkIsStepwise` unfold call by call, up to the stages
  that a list of the faults can reach (`Stage`); the strict one sees the first four tools and the
  last two;
- `OracleFollowsProcedure`, the refinement: before each call the scripted run is at a known place
  of the procedure (`OracleAt`), each of its six calls is one action of `Procedure`, and runs of
  other kinds stutter.

`JudgingProofs`. The invariant counts as it goes:

    JInv == script \in Scripts /\ TodoListed /\ VotesWhole /\ RowsWhole

`said` is the number of flagging votes in hand (`VotesWhole`), and a row is whole and, of an LLM
judge, was told by a majority (`RowsWhole`). `CoercedIsWhole`, `RuleVerdictIsWhole`, `MockIsWhole`
and `VoteIsWhole` say it of each source of verdicts; the vote of whole verdicts is one since a
share of half or more of the votes stays half or more in hundredths, and a mode is a step that one
of the agreeing votes has. `MajorityFlags` and `VerdictsStayWhole` follow, for every judge.

The tables need that no pair is counted twice: `OInv` adds to `JInv` that a trajectory has one row
of a judge (`RowsOnce`) and that what is left to do has none (`TodoFresh`). It assumes
`NamedOnce`, that no command line names a failure type twice: `_judging_order` would bring its
trajectories up twice (cli.py:104), and `run` would judge them twice. With one row to a pair the
paired labels and verdicts are functions on the judged part of the set, and

- `TablesDoAddUp` splits totals over them: what was judged is clean, silent or loud and caught or
  not, the row of a type in the confusion matrix sums to the faults of that type, the bins of the
  calibration hold each verdict once;
- `SetsAreBalanced`: each type has its quota, since there are enough instances that can host it
  (`QuotaIsTaken`), and the type table shows it once all is judged, when the faults that stay
  unpaired are those whose clean run is missing;
- `ReadersDoAgree`: once a judge has judged the whole set, the rows and the trajectories are the
  same one to one (`CountedAlike`), so that a count over rows by the report and one over
  trajectories by a script of the paper are one number, and discordant pairs subtract to flags.

`BenchProofs`. `BInv` says that at the ports a program looks at nobody listens but its own
processes from the moment it has looked (`PortsOwn`), that each of them does while it measures,
and that whoever answered was one of them (`AnsweredByOwn`). It needs that between two phases the
ports are free again, which is why a stalled stop must end the sweep.

`PointsStayWhole` has an invariant of its own, `WInv`. The answers counted and those under way are
what was sent (`Balanced`), a total over the kinds of answers that each of them changes by one.
The names of the points measured so far are those that the program plans up to where the sweep is
(`Ordered`), and what stands in the file is nothing or the whole plan; each point has one sample
to a request (`AllWhole`). It assumes `Requests < 20000`: an error rate is rounded to four places
(driver.py:209), and of more requests one failure would leave no trace in it. The programs send
60, 200 and 30.

`Counting` holds what the others share. An induction cannot be cited for a formula here, but it
can for a set: `EveryNumber` and `EverySubset` say that a set of numbers, or of finite subsets,
that is closed under one more is all of them. With these the existence of the functions behind
the library's sums and folds is proved, so that a sum over a set unfolds (`TotalUnfolds`), splits
(`TotalOf`, `CountedByValue`) and compares.

Every property of the passing runs that is no liveness property is a theorem. Only model-checked
are the three that are: `EveryBatchAnswered`, `EveryRequestAnswered` and `OutageIsSeen` rest on
fairness, which the prover does not handle. Their runs show them on small instances.

## Not modelled, and why

Prompts, rationales, tables' layout, figures, pages, logging, settings parsing and schemas have no
behaviour to check beyond their text. Latency histograms of the service are observations of
durations, except the one the bench reads. Of the numerics, the models keep counts: resampling,
intervals, significance tests, Brier scores and quotients are floating point. The middleware's
request ids and timings, the driver's open loop and the rendering of results are left out. In
`JudgeRun`, a power loss that tears a line, two processes in one directory and a changed seed are
left out; in `Judging` the rewriting of trajectories.jsonl is whole. The agent command's file is
not modelled: it appends what `run_llm_agent` returns, which is.

What is left for later: the agent command with its resume; a torn last line with the reader that
meets it.
