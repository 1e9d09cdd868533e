-------------------------------- MODULE Bench ---------------------------------
(* The load test (bench/): a sweep starts a service, and for some phases a     *)
(* stand-in for the model, drives both at a few points of load with a closed   *)
(* loop, stops them and writes what it measured.  A sweep may be killed, and   *)
(* leaves its processes behind.                                                *)
EXTENDS Integers, FiniteSets, SequencesExt, FiniteSetsExt

CONSTANTS
    Light,      \* the concurrencies of the points without a model
    Backed,     \* the phases with a stand-in: name and concurrencies
    Sampled,    \* those of the points against a real model
    Requests,   \* the requests of a point
    Warmup,     \* the requests before each point that are not kept, by the driver's default
    Answers,    \* what may come back: a status, and for 200 the overhead it reports
    MaxSweeps   \* bound: how many sweeps are started

Ports == {"service", "fake"}
Nobody == [sweep |-> 0, phase |-> 0, port |-> "none"]

\* What a sweep does: the ports it looks at before it starts anything, the requests before each
\* point that are not kept, and its phases: whether the stand-in is needed, and the points, each
\* with its name, its judge and its concurrency.
At(name, judge, concurrencies) ==
    [k \in DOMAIN concurrencies |-> [name |-> name, judge |-> judge, concurrency |-> concurrencies[k]]]

Phase(fake, points) == [fake |-> fake, points |-> points]

\* scenarios.py, which leaves the warmup to the driver's default.
Scenarios ==
    [ checks |-> Ports, warmup |-> Warmup,
      phases |-> << Phase(FALSE, At("floor", "mock", Light) \o At("rules", "programmatic", Light)) >>
                 \o [k \in DOMAIN Backed |-> Phase(TRUE, At(Backed[k].name, "step", Backed[k].at))] ]

\* real_sample.py, which has no driver of its own and no warmup.
RealSample ==
    [ checks |-> {"service"}, warmup |-> 0,
      phases |-> << Phase(FALSE, At("real", "step", Sampled)) >> ]

\* What is asked for: the concurrencies of the points, one or more.
Loads == Seq(Nat \ {0}) \ {<<>>}

ASSUME LoadAssumption ==
    /\ {Light, Sampled} \subseteq Loads
    /\ Backed \in Seq([name : {"pooled", "degraded", "overload"}, at : Loads])
ASSUME BoundsAssumption == Requests \in Nat \ {0} /\ Warmup \in Nat /\ MaxSweeps \in Nat
ASSUME AnswersAssumption ==
    Answers \subseteq [status : {200, 429, 504, 0}, overhead : {"fast", "slow"}]

VARIABLES
    holder,    \* who listens at a port
    starting,  \* the processes that do not listen yet
    program,   \* what is measured
    sweep,     \* the number of the sweep
    pc, phase, point,
    leg,       \* "warmup" or "measure"
    sent, flying,
    samples,   \* how many of each answer this leg has
    by,        \* who answered
    hist,      \* the overhead histogram of the service that listens, by judge
    failed,    \* the sweep is to end with an error
    results,
    file       \* what the last sweep wrote

processes == <<holder, starting>>
command == <<program, sweep>>
driver == <<leg, sent, flying, samples, by>>
vars == <<holder, starting, program, sweep, pc, phase, point, leg, sent, flying, samples, by, hist,
          failed, results, file>>

Phases == program.phases
Here == Phases[phase]
Point == Here.points[point]
JudgeNames == UNION {{Phases[p].points[i].judge : i \in DOMAIN Phases[p].points} : p \in DOMAIN Phases}

NoSamples == [answer \in Answers |-> 0]
EmptyHist == [judge \in JudgeNames |-> [fast |-> 0, slow |-> 0]]

Process(port) == [sweep |-> sweep, phase |-> phase, port |-> port]
Needed == IF Here.fake THEN Ports ELSE {"service"}
Own == {Process(port) : port \in Needed}

Init ==
    /\ holder = [port \in Ports |-> Nobody] /\ starting = {}
    /\ program \in {Scenarios, RealSample} /\ sweep = 0 /\ pc = "off" /\ phase = 1 /\ point = 1
    /\ leg = "warmup" /\ sent = 0 /\ flying = 0 /\ samples = NoSamples /\ by = {}
    /\ hist = EmptyHist /\ failed = FALSE /\ results = <<>> /\ file = <<>>

-----------------------------------------------------------------------------
(* Processes and ports *)

\* A process comes to listen, or finds its port taken and exits.
Bind(p) ==
    /\ p \in starting
    /\ starting' = starting \ {p}
    /\ holder' = IF holder[p.port] = Nobody THEN [holder EXCEPT ![p.port] = p] ELSE holder
    /\ UNCHANGED <<command, pc, phase, point, driver, hist, failed, results, file>>

\* A process that listens is gone, and with a service what it counted.
Free(port) ==
    /\ holder' = [holder EXCEPT ![port] = Nobody]
    /\ hist' = IF port = "service" THEN EmptyHist ELSE hist

\* What a killed or stalled sweep left is killed by hand.
KillStale(port) ==
    /\ pc = "off" /\ holder[port] # Nobody
    /\ Free(port)
    /\ UNCHANGED <<starting, command, pc, phase, point, driver, failed, results, file>>

\* The command is started.  Assumed: what an earlier one started has come to listen by now.
StartSweep ==
    /\ pc = "off" /\ sweep < MaxSweeps /\ starting = {}
    /\ sweep' = sweep + 1 /\ pc' = "check"
    /\ UNCHANGED <<processes, program, phase, point, driver, hist, failed, results, file>>

\* main of the driver: the requests of the warmup, if any, then those that count.
StartLeg(kind) ==
    /\ leg' = kind /\ sent' = 0 /\ flying' = 0 /\ samples' = NoSamples /\ by' = {}

\* The command ends, and with it what it knew.
Leave ==
    /\ pc' = "off" /\ phase' = 1 /\ point' = 1 /\ failed' = FALSE /\ results' = <<>>
    /\ StartLeg("warmup")

\* Plausible bug: only the service's port is looked at.
ServiceOnly == holder["service"] = Nobody

\* ensure_port_free, for the ports the program looks at
PortsFree == \A port \in program.checks : holder[port] = Nobody

Refuse ==
    /\ pc = "check" /\ ~ PortsFree
    /\ Leave
    /\ UNCHANGED <<processes, command, hist, file>>

\* The processes of the phase are started.
Spawn ==
    /\ pc = "spawn" \/ (pc = "check" /\ PortsFree)
    /\ starting' = starting \cup Own
    /\ pc' = "wait"
    /\ UNCHANGED <<holder, command, phase, point, driver, hist, failed, results, file>>

Answered == \A port \in Needed : holder[port] # Nobody

\* wait_for: someone answers at each of the ports.
Waited ==
    /\ pc = "wait" /\ Answered
    /\ pc' = "point"
    /\ UNCHANGED <<processes, command, phase, point, driver, hist, failed, results, file>>

WaitFails ==
    /\ pc = "wait" /\ ~ Answered
    /\ pc' = "stop" /\ failed' = TRUE
    /\ UNCHANGED <<processes, command, phase, point, driver, hist, results, file>>

-----------------------------------------------------------------------------
(* The driver *)

\* drive
Drive ==
    /\ pc = "point"
    /\ pc' = "drive"
    /\ StartLeg(IF program.warmup = 0 THEN "measure" ELSE "warmup")
    /\ UNCHANGED <<processes, command, phase, point, hist, failed, results, file>>

Workers == IF leg = "warmup" THEN 1 ELSE Point.concurrency

\* Plausible bug: each worker counts for itself.
EachWorker == Workers * (IF leg = "warmup" THEN program.warmup ELSE Requests)

\* The counter that the workers of closed_loop share.
Target == IF leg = "warmup" THEN program.warmup ELSE Requests

Send ==
    /\ pc = "drive" /\ sent < Target /\ flying < Workers
    /\ sent' = sent + 1 /\ flying' = flying + 1
    /\ UNCHANGED <<processes, command, pc, phase, point, leg, samples, by, hist, failed, results, file>>

\* _one, and what the service notes of a verdict it gives.
Answer(answer) ==
    /\ pc = "drive" /\ flying > 0
    /\ flying' = flying - 1
    /\ samples' = [samples EXCEPT ![answer] = @ + 1]
    /\ by' = by \cup {holder[port] : port \in Needed}
    /\ hist' = IF answer.status = 200
               THEN [hist EXCEPT ![Point.judge][answer.overhead] = @ + 1] ELSE hist
    /\ UNCHANGED <<processes, command, pc, phase, point, leg, sent, failed, results, file>>

WarmedUp ==
    /\ pc = "drive" /\ leg = "warmup" /\ sent = Target /\ flying = 0
    /\ StartLeg("measure")
    /\ UNCHANGED <<processes, command, pc, phase, point, hist, failed, results, file>>

CountOf(S) == MapThenSumSet(LAMBDA answer : samples[answer], S)
Good == {answer \in Answers : answer.status = 200}

\* percentile: nearest rank, at 99 in a hundred, over the overheads of the good answers.
OwnP99 ==
    LET n    == CountOf(Good)
        fast == CountOf({answer \in Good : answer.overhead = "fast"})
        rank == (99 * n + 99) \div 100
    IN  IF n = 0 THEN "nan" ELSE IF rank =< fast THEN "fast" ELSE "slow"

\* scrape_overhead_p99: the first bound at which the count of some judge reaches the share of
\* the largest total of a judge.
ScrapedP99 ==
    LET Total(judge) == hist[judge].fast + hist[judge].slow
        largest      == CHOOSE t \in {Total(j) : j \in JudgeNames} : \A j \in JudgeNames : Total(j) =< t
    IN  IF largest = 0 THEN "nan"
        ELSE IF \E judge \in JudgeNames : 100 * hist[judge].fast >= 99 * largest THEN "fast" ELSE "slow"

\* error_rate: in ten thousandths, rounded.
ErrorRate ==
    LET n == CountOf(Answers)
    IN  IF n = 0 THEN 0 ELSE (20000 * (n - CountOf(Good)) + n) \div (2 * n)

\* summarise
Summary ==
    [ name |-> Point.name, judge |-> Point.judge, concurrency |-> Point.concurrency,
      n |-> CountOf(Answers), ok |-> CountOf(Good), errors |-> ErrorRate,
      own |-> OwnP99, scraped |-> ScrapedP99, by |-> by, from |-> Own ]

\* run_scenario ends; a sweep goes on even where the driver complains of failures.
Measured ==
    /\ pc = "drive" /\ leg = "measure" /\ sent = Target /\ flying = 0
    /\ results' = Append(results, Summary)
    /\ IF point < Len(Here.points) THEN pc' = "point" /\ point' = point + 1
                                   ELSE pc' = "stop" /\ UNCHANGED point
    /\ StartLeg("warmup")
    /\ UNCHANGED <<processes, command, phase, hist, failed, file>>

\* The driver ends with an error of its own.
DriverFails ==
    /\ pc = "drive"
    /\ pc' = "stop" /\ failed' = TRUE
    /\ StartLeg("warmup")
    /\ UNCHANGED <<processes, command, phase, point, hist, results, file>>

-----------------------------------------------------------------------------
(* The end of a phase and of a sweep *)

Running(port) == Process(port) \in starting \/ holder[port] = Process(port)

\* The service is told to end first, then the stand-in; each is waited for.
Turn(port) == pc = "stop" /\ port \in Needed /\ Running(port) /\ (port = "fake" => ~ Running("service"))

StopOne(port) ==
    /\ Turn(port)
    /\ starting' = starting \ {Process(port)}
    /\ IF holder[port] = Process(port) THEN Free(port) ELSE UNCHANGED <<holder, hist>>
    /\ UNCHANGED <<command, pc, phase, point, driver, failed, results, file>>

\* It does not end in time: the exception leaves it, and the one after it, running.
StopStalls(port) ==
    /\ Turn(port)
    /\ Leave
    /\ UNCHANGED <<processes, command, hist, file>>

Stopped == pc = "stop" /\ \A port \in Needed : ~ Running(port)

NextPhase ==
    /\ Stopped /\ ~ failed /\ phase < Len(Phases)
    /\ phase' = phase + 1 /\ pc' = "spawn" /\ point' = 1
    /\ UNCHANGED <<processes, command, driver, hist, failed, results, file>>

\* main writes the file when all phases are through.
Finish ==
    /\ Stopped /\ (failed \/ phase = Len(Phases))
    /\ file' = IF failed THEN file ELSE results
    /\ Leave
    /\ UNCHANGED <<processes, command, hist>>

\* The sweep is killed at any point.
Kill ==
    /\ pc # "off"
    /\ Leave
    /\ UNCHANGED <<processes, command, hist, file>>

Next ==
    \/ \E p \in starting : Bind(p)
    \/ \E port \in Ports : KillStale(port) \/ StopOne(port) \/ StopStalls(port)
    \/ StartSweep \/ Refuse \/ Spawn \/ Waited \/ WaitFails
    \/ Drive \/ Send \/ WarmedUp \/ Measured \/ DriverFails
    \/ \E answer \in Answers : Answer(answer)
    \/ NextPhase \/ Finish \/ Kill

Spec == Init /\ [][Next]_vars
-----------------------------------------------------------------------------
(* Properties *)

\* Every number that a sweep writes down was measured on the processes it started itself for
\* that point, whatever earlier sweeps left behind: "the benchmark then measures a stranger.
\* That failure is silent" (ensure_port_free).
MeasuresItsOwn ==
    /\ \A i \in DOMAIN results : results[i].by = results[i].from
    /\ \A i \in DOMAIN file : file[i].by = file[i].from

\* problems
ExpectErrors == {"degraded", "overload"}
Problems(data) ==
    {i \in DOMAIN data : (data[i].name \notin ExpectErrors /\ data[i].errors > 0) \/ data[i].own = "slow"}

\* The points of the program, in order.
Planned == FlattenSeq([p \in DOMAIN Phases |-> Phases[p].points])

\* A point has one sample to a request, the file holds every point of the program in order or
\* nothing, and a sweep in which check_invariants finds no problem lost no request where none
\* was to be lost (closed_loop, summarise, main).
PointsAreWhole ==
    /\ \A i \in DOMAIN results : results[i].n = Requests
    /\ file # <<>> => Len(file) = Len(Planned)
    /\ \A i \in DOMAIN file :
        /\ <<file[i].name, file[i].judge, file[i].concurrency>>
            = <<Planned[i].name, Planned[i].judge, Planned[i].concurrency>>
        /\ Problems(file) = {} /\ file[i].name \notin ExpectErrors => file[i].ok = Requests

\* What the code does not do: the percentile scraped from the service is that of the point it
\* stands next to ("Two estimates that agree", scenarios.py).
EstimatesAgree ==
    \A i \in DOMAIN results :
        "nan" \in {results[i].own, results[i].scraped} \/ results[i].own = results[i].scraped
=============================================================================
