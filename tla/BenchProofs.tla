----------------------------- MODULE BenchProofs ------------------------------
(* The theorems about Bench, for any loads, requests and number of sweeps: a   *)
(* sweep writes down what it measured on its own processes, and every point of *)
(* it whole and in order, or nothing.                                          *)
EXTENDS Bench, SequenceTheorems, Counting, TLAPS

Processes == [sweep : Nat, phase : Nat, port : Ports \cup {"none"}]

Types ==
    /\ holder \in [Ports -> Processes] /\ starting \subseteq Processes
    /\ sweep \in Nat /\ phase \in Nat /\ sent \in Nat /\ flying \in Nat

\* The one program that does not look at both ports needs one of them.
Programs == program \in {Scenarios, RealSample} /\ (program = RealSample => phase = 1)

\* At the ports that were looked at, nobody listens but the sweep's own processes, and nobody at
\* all before they are started; while it measures, each of them does.
Busy == {"wait", "point", "drive", "stop"}

PortsOwn ==
    /\ pc \in {"check", "spawn"} => starting = {}
    /\ pc = "spawn" => \A port \in program.checks : holder[port] = Nobody
    /\ pc \in Busy =>
        /\ starting \subseteq Own
        /\ \A port \in program.checks :
              holder[port] = Nobody \/ (port \in Needed /\ holder[port] = Process(port))
    /\ pc \in {"point", "drive"} => \A port \in Needed : holder[port] = Process(port)

\* Until the first answer nobody has answered, and all that was sent is under way.
AnsweredByOwn == pc = "drive" => by = Own \/ (by = {} /\ flying = sent)

\* What was measured so far, and what the last sweep wrote.
AllOwn(list) == (\E S : list \in Seq(S)) /\ \A i \in DOMAIN list : list[i].by = list[i].from

BInv == Types /\ Programs /\ PortsOwn /\ AnsweredByOwn /\ AllOwn(results) /\ AllOwn(file)

\* The needs of a phase are among the ports the program looks at.
LEMMA NeedsAreChecked ==
    ASSUME Programs
    PROVE  Needed \subseteq program.checks /\ Needed \subseteq Ports /\ "service" \in Needed
<1>1. Needed \in {Ports, {"service"}}
  BY DEF Needed
<1>2. CASE program = Scenarios
  BY <1>1, <1>2 DEF Scenarios, Ports
<1>3. CASE program = RealSample
  <2>1. Here.fake = FALSE
    BY <1>3 DEF Programs, Here, Phases, RealSample, Phase
  <2>2. Needed = {"service"} /\ program.checks = {"service"}
    BY <1>3, <2>1 DEF Needed, RealSample
  <2> QED
    BY <2>2 DEF Ports
<1> QED
  BY <1>2, <1>3 DEF Programs

\* The ports a program looks at are the two there are.
LEMMA ChecksArePorts ==
    ASSUME Programs
    PROVE  program.checks \subseteq Ports
<1>1. CASE program = Scenarios
  BY <1>1 DEF Scenarios
<1>2. CASE program = RealSample
  BY <1>2 DEF RealSample, Ports
<1> QED
  BY <1>1, <1>2 DEF Programs

\* With nothing measured nothing is a stranger's.
LEMMA EmptyIsOwn == AllOwn(<<>>)
BY EmptySeq DEF AllOwn

\* The command ends.
LEMMA Leaving ==
    ASSUME BInv, Leave, program' = program, sweep' = sweep, AllOwn(file)',
           holder' \in [Ports -> Processes], starting' \subseteq Processes
    PROVE  BInv'
<1>1. /\ pc' = "off" /\ phase' = 1 /\ results' = <<>> /\ sent' = 0 /\ flying' = 0
  BY DEF Leave, StartLeg
<1>2. AllOwn(results)'
  BY <1>1, EmptyIsOwn
<1> QED
  BY <1>1, <1>2 DEF BInv, Types, Programs, PortsOwn, Busy, AnsweredByOwn

\* Steps between those that touch a port.
LEMMA Quiet ==
    ASSUME BInv, UNCHANGED processes, UNCHANGED command, UNCHANGED phase, UNCHANGED results,
           UNCHANGED file, pc' = pc \/ (pc' = "stop" /\ pc \in Busy) \/ (pc' = "drive" /\ pc = "point"),
           sent' \in Nat, flying' \in Nat, AnsweredByOwn'
    PROVE  BInv'
<1>1. /\ Own' = Own /\ Needed' = Needed /\ program' = program /\ UNCHANGED <<holder, starting>>
      /\ \A port : Process(port)' = Process(port)
  BY DEF Own, Needed, Here, Phases, Process, command, processes
<1>2. PortsOwn'
  BY <1>1 DEF BInv, PortsOwn, Busy
<1>3. Types' /\ Programs' /\ AllOwn(results)' /\ AllOwn(file)'
  BY DEF BInv, Types, Programs, processes, command, AllOwn
<1> QED
  BY <1>2, <1>3 DEF BInv

-----------------------------------------------------------------------------
(* One step after the other *)

\* A process comes to its port, or finds it taken.
LEMMA Binding ==
    ASSUME BInv, NEW p \in starting, Bind(p)
    PROVE  BInv'
<1>1. /\ starting' = starting \ {p}
      /\ holder' = IF holder[p.port] = Nobody THEN [holder EXCEPT ![p.port] = p] ELSE holder
      /\ UNCHANGED <<command, pc, phase, point, driver, hist, failed, results, file>>
  BY DEF Bind
<1>2. Types'
  BY <1>1 DEF BInv, Types, command, driver
<1>3. Programs' /\ AllOwn(results)' /\ AllOwn(file)'
  BY <1>1 DEF BInv, Programs, command, AllOwn
<1>4. Own' = Own /\ Needed' = Needed /\ program' = program /\ \A port : Process(port)' = Process(port)
  BY <1>1 DEF Own, Needed, Here, Phases, Process, command
<1>5. AnsweredByOwn'
  BY <1>1, <1>4 DEF BInv, AnsweredByOwn, driver
<1>6. CASE pc \in Busy
  <2>1. PICK own \in Needed : p = Process(own)
    BY <1>6 DEF BInv, PortsOwn, Own
  <2>2. p.port = own /\ own \in Ports
    BY <2>1, NeedsAreChecked DEF Process, BInv
  <2>3. \A port \in Ports : holder'[port] = holder[port]
                            \/ (port = own /\ holder[port] = Nobody /\ holder'[port] = Process(own))
    BY <1>1, <2>1, <2>2 DEF BInv, Types
  <2>4. program.checks \subseteq Ports
    BY ChecksArePorts DEF BInv
  <2>5. \A port \in Needed : Process(port) # Nobody
    BY NeedsAreChecked DEF Process, Nobody, BInv, Ports
  <2>6. PortsOwn'
    BY <1>1, <1>4, <1>6, <2>1, <2>3, <2>4, <2>5, NeedsAreChecked DEF BInv, PortsOwn, Busy
  <2> QED
    BY <1>2, <1>3, <1>5, <2>6 DEF BInv
<1>7. CASE pc \notin Busy
  <2>1. pc \notin {"check", "spawn"}
    BY DEF BInv, PortsOwn
  <2>2. PortsOwn'
    BY <1>1, <1>7, <2>1 DEF PortsOwn, Busy
  <2> QED
    BY <1>2, <1>3, <1>5, <2>2 DEF BInv
<1> QED
  BY <1>6, <1>7

\* The processes of a phase are started where nobody listens.
LEMMA Spawning ==
    ASSUME BInv, Spawn
    PROVE  BInv'
<1>1. /\ starting' = starting \cup Own /\ pc' = "wait"
      /\ UNCHANGED <<holder, command, phase, point, driver, hist, failed, results, file>>
      /\ pc = "spawn" \/ (pc = "check" /\ PortsFree)
  BY DEF Spawn
<1>2. starting = {} /\ \A port \in program.checks : holder[port] = Nobody
  BY <1>1 DEF BInv, PortsOwn, PortsFree
<1>3. Own \subseteq Processes
  BY NeedsAreChecked DEF Own, Process, Processes, BInv, Types
<1>4. Own' = Own /\ program' = program
  BY <1>1 DEF Own, Needed, Here, Phases, Process, command
<1>5. Types'
  BY <1>1, <1>3 DEF BInv, Types, command, driver
<1>6. PortsOwn' /\ AnsweredByOwn'
  BY <1>1, <1>2, <1>4 DEF PortsOwn, AnsweredByOwn, Busy
<1>7. Programs' /\ AllOwn(results)' /\ AllOwn(file)'
  BY <1>1 DEF BInv, Programs, command, AllOwn
<1> QED
  BY <1>5, <1>6, <1>7 DEF BInv

\* Everyone has come to listen: each is one's own.
LEMMA Waiting ==
    ASSUME BInv, Waited
    PROVE  BInv'
<1>1. /\ pc = "wait" /\ Answered /\ pc' = "point"
      /\ UNCHANGED <<processes, command, phase, point, driver, hist, failed, results, file>>
  BY DEF Waited
<1>2. \A port \in Needed : holder[port] = Process(port)
  BY <1>1, NeedsAreChecked DEF BInv, PortsOwn, Busy, Answered
<1>3. /\ Own' = Own /\ Needed' = Needed /\ program' = program /\ UNCHANGED <<holder, starting>>
      /\ \A port : Process(port)' = Process(port)
  BY <1>1 DEF Own, Needed, Here, Phases, Process, command, processes
<1>4. PortsOwn' /\ AnsweredByOwn'
  BY <1>1, <1>2, <1>3 DEF BInv, PortsOwn, AnsweredByOwn, Busy
<1>5. Types' /\ Programs' /\ AllOwn(results)' /\ AllOwn(file)'
  BY <1>1 DEF BInv, Types, Programs, processes, command, driver, AllOwn
<1> QED
  BY <1>4, <1>5 DEF BInv

\* Whoever answers is one of the sweep's own.
LEMMA Answering ==
    ASSUME BInv, NEW answer \in Answers, Answer(answer)
    PROVE  BInv'
<1>1. /\ pc = "drive" /\ flying > 0 /\ flying' = flying - 1
      /\ by' = by \cup {holder[port] : port \in Needed}
      /\ UNCHANGED <<processes, command, pc, phase, point, leg, sent, failed, results, file>>
  BY DEF Answer
<1>2. {holder[port] : port \in Needed} = Own
  BY <1>1 DEF BInv, PortsOwn, Own
<1>3. by' = Own /\ Own' = Own
  BY <1>1, <1>2 DEF BInv, AnsweredByOwn, Own, Needed, Here, Phases, Process, command
<1>4. flying' \in Nat /\ sent' \in Nat
  BY <1>1 DEF BInv, Types
<1> QED
  BY <1>1, <1>3, <1>4, Quiet DEF AnsweredByOwn

\* A point that has been measured was answered, by the sweep's own processes.
LEMMA Measuring ==
    ASSUME BInv, Measured
    PROVE  BInv'
<1>1. /\ pc = "drive" /\ leg = "measure" /\ sent = Target /\ flying = 0
      /\ results' = Append(results, Summary) /\ pc' \in {"point", "stop"}
      /\ UNCHANGED <<processes, command, phase, hist, failed, file>>
      /\ sent' = 0 /\ flying' = 0
  BY DEF Measured, StartLeg
<1>2. by = Own
  BY <1>1, BoundsAssumption DEF BInv, AnsweredByOwn, Target
<1>3. AllOwn(results)'
  <2>1. Summary.by = Summary.from
    BY <1>2 DEF Summary
  <2> DEFINE summary == Summary
  <2> HIDE DEF summary
  <2>2. results' = Append(results, summary) /\ summary.by = summary.from
    BY <1>1, <2>1 DEF summary
  <2>3. PICK S : results \in Seq(S)
    BY DEF BInv, AllOwn
  <2> DEFINE T == S \cup {summary}
  <2>4. results \in Seq(T) /\ summary \in T
    BY <2>3, SeqMonotonic
  <2> HIDE DEF T
  <2>5. /\ results' \in Seq(T) /\ DOMAIN results' = 1 .. Len(results) + 1 /\ Len(results) \in Nat
        /\ DOMAIN results = 1 .. Len(results)
        /\ \A i \in 1 .. Len(results) + 1 :
              results'[i] = IF i = Len(results) + 1 THEN summary ELSE results[i]
    BY <2>2, <2>4, LenProperties
  <2>6. \A i \in DOMAIN results' : results'[i].by = results'[i].from
    BY <2>2, <2>5 DEF BInv, AllOwn
  <2> QED
    BY <2>5, <2>6 DEF AllOwn
<1>4. /\ Own' = Own /\ Needed' = Needed /\ program' = program /\ UNCHANGED <<holder, starting>>
      /\ \A port : Process(port)' = Process(port)
  BY <1>1 DEF Own, Needed, Here, Phases, Process, command, processes
<1>5. PortsOwn' /\ AnsweredByOwn'
  BY <1>1, <1>4 DEF BInv, PortsOwn, AnsweredByOwn, Busy
<1>6. Types' /\ Programs' /\ AllOwn(file)'
  BY <1>1 DEF BInv, Types, Programs, processes, command, AllOwn
<1> QED
  BY <1>3, <1>5, <1>6 DEF BInv

\* A process that is told to end leaves its port to nobody.
LEMMA Stopping ==
    ASSUME BInv, NEW port \in Ports, StopOne(port)
    PROVE  BInv'
<1>1. /\ pc = "stop" /\ port \in Needed /\ starting' = starting \ {Process(port)}
      /\ UNCHANGED <<command, pc, phase, point, driver, failed, results, file>>
      /\ holder' = [holder EXCEPT ![port] = Nobody] \/ holder' = holder
  BY DEF StopOne, Turn, Free
<1>2. Nobody \in Processes
  BY DEF Nobody, Processes
<1>3. Types'
  BY <1>1, <1>2 DEF BInv, Types, command, driver
<1>4. /\ Own' = Own /\ Needed' = Needed /\ program' = program
      /\ \A q : Process(q)' = Process(q)
  BY <1>1 DEF Own, Needed, Here, Phases, Process, command
<1>5. \A q \in Ports : holder'[q] = holder[q] \/ holder'[q] = Nobody
  BY <1>1 DEF BInv, Types
<1>6. program.checks \subseteq Ports
  BY ChecksArePorts DEF BInv
<1>7. PortsOwn' /\ AnsweredByOwn'
  BY <1>1, <1>4, <1>5, <1>6 DEF BInv, PortsOwn, AnsweredByOwn, Busy
<1>8. Programs' /\ AllOwn(results)' /\ AllOwn(file)'
  BY <1>1 DEF BInv, Programs, command, AllOwn
<1> QED
  BY <1>3, <1>7, <1>8 DEF BInv

\* Between two phases nobody listens at the ports that were looked at.
LEMMA NextPhasing ==
    ASSUME BInv, NextPhase
    PROVE  BInv'
<1>1. /\ pc = "stop" /\ \A port \in Needed : ~ Running(port)
      /\ phase < Len(Phases) /\ phase' = phase + 1 /\ pc' = "spawn"
      /\ UNCHANGED <<processes, command, driver, hist, failed, results, file>>
  BY DEF NextPhase, Stopped
<1>2. starting = {} /\ \A port \in program.checks : holder[port] = Nobody
  BY <1>1 DEF BInv, PortsOwn, Busy, Running, Own
<1>3. program # RealSample
  <2> SUFFICES ASSUME program = RealSample PROVE FALSE
    OBVIOUS
  <2>1. Len(Phases) = 1
    BY DEF Phases, RealSample
  <2> QED
    BY <1>1, <2>1 DEF BInv, Programs
<1>4. PortsOwn' /\ AnsweredByOwn'
  BY <1>1, <1>2 DEF PortsOwn, AnsweredByOwn, Busy, processes, command
<1>5. Types' /\ Programs' /\ AllOwn(results)' /\ AllOwn(file)'
  BY <1>1, <1>3 DEF BInv, Types, Programs, processes, command, driver, AllOwn
<1> QED
  BY <1>4, <1>5 DEF BInv

\* The command is started, with nothing on its way to a port.
LEMMA Starting ==
    ASSUME BInv, StartSweep
    PROVE  BInv'
<1>1. /\ starting = {} /\ pc' = "check" /\ sweep' = sweep + 1
      /\ UNCHANGED <<processes, program, phase, point, driver, hist, failed, results, file>>
  BY DEF StartSweep
<1> QED
  BY <1>1 DEF BInv, Types, Programs, PortsOwn, Busy, AnsweredByOwn, AllOwn, processes, driver

\* Every step keeps the ports with the sweep's own processes.
LEMMA NextBInv ==
    ASSUME BInv, [Next]_vars
    PROVE  BInv'
<1>1. CASE Refuse \/ Kill \/ (\E port \in Ports : StopStalls(port))
  <2>1. Leave /\ UNCHANGED <<processes, command, file>>
    BY <1>1 DEF Refuse, Kill, StopStalls
  <2> QED
    BY <2>1, Leaving DEF BInv, Types, processes, command, AllOwn
<1>2. CASE Finish
  <2>1. /\ Leave /\ UNCHANGED <<processes, command>>
        /\ file' = IF failed THEN file ELSE results
    BY <1>2 DEF Finish
  <2>2. AllOwn(file)'
    BY <2>1 DEF BInv, AllOwn
  <2> QED
    BY <2>1, <2>2, Leaving DEF BInv, Types, processes, command
<1>3. ASSUME NEW port \in Ports, KillStale(port) PROVE BInv'
  <2>1. /\ pc = "off" /\ holder' = [holder EXCEPT ![port] = Nobody]
        /\ UNCHANGED <<starting, command, pc, phase, point, driver, failed, results, file>>
    BY <1>3 DEF KillStale, Free
  <2>2. Nobody \in Processes
    BY DEF Nobody, Processes
  <2> QED
    BY <2>1, <2>2 DEF BInv, Types, Programs, PortsOwn, Busy, AnsweredByOwn, AllOwn, command, driver
<1>4. CASE WaitFails
  <2>1. /\ pc = "wait" /\ pc' = "stop" /\ UNCHANGED <<processes, command, phase, driver, results, file>>
    BY <1>4 DEF WaitFails
  <2> QED
    BY <2>1, Quiet DEF Busy, AnsweredByOwn, driver, BInv, Types
<1>5. CASE Drive \/ WarmedUp \/ DriverFails
  <2>1. /\ UNCHANGED <<processes, command, phase, results, file>>
        /\ sent' = 0 /\ flying' = 0 /\ by' = {}
        /\ pc' = pc \/ (pc' = "stop" /\ pc \in Busy) \/ (pc' = "drive" /\ pc = "point")
    BY <1>5 DEF Drive, WarmedUp, DriverFails, StartLeg, Busy
  <2> QED
    BY <2>1, Quiet DEF AnsweredByOwn
<1>6. CASE Send
  <2>1. /\ pc = "drive" /\ sent' = sent + 1 /\ flying' = flying + 1
        /\ UNCHANGED <<processes, command, pc, phase, by, results, file>>
    BY <1>6 DEF Send
  <2>2. Own' = Own
    BY <2>1 DEF Own, Needed, Here, Phases, Process, command
  <2>3. AnsweredByOwn' /\ sent' \in Nat /\ flying' \in Nat
    BY <2>1, <2>2 DEF BInv, AnsweredByOwn, Types
  <2> QED
    BY <2>1, <2>3, Quiet
<1>7. CASE UNCHANGED vars
  <2>1. UNCHANGED <<processes, command, phase, pc, sent, flying, by, results, file>>
    BY <1>7 DEF vars, processes, command
  <2>2. Own' = Own
    BY <2>1 DEF Own, Needed, Here, Phases, Process, command
  <2>3. AnsweredByOwn' /\ sent' \in Nat /\ flying' \in Nat
    BY <2>1, <2>2 DEF BInv, AnsweredByOwn, Types
  <2> QED
    BY <2>1, <2>3, Quiet
<1> QED
  BY <1>1, <1>2, <1>3, <1>4, <1>5, <1>6, <1>7, Binding, Spawning, Waiting, Answering, Measuring,
     Stopping, NextPhasing, Starting DEF Next

\* Every number that a sweep writes down was measured on the processes it started for that point,
\* whatever loads and phases it has and whatever earlier sweeps left behind (ensure_port_free,
\* run_scenario).
THEOREM SweepsMeasureTheirOwn == Spec => []MeasuresItsOwn
<1>1. ASSUME Init PROVE BInv
  <2>1. Types
    BY <1>1 DEF Init, Types, Processes, Nobody
  <2>2. Programs /\ PortsOwn /\ AnsweredByOwn
    BY <1>1 DEF Init, Programs, PortsOwn, Busy, AnsweredByOwn
  <2>3. AllOwn(results) /\ AllOwn(file)
    BY <1>1, EmptyIsOwn DEF Init
  <2> QED
    BY <2>1, <2>2, <2>3 DEF BInv
<1>2. BInv => MeasuresItsOwn
  BY DEF BInv, AllOwn, MeasuresItsOwn
<1> QED
  BY <1>1, <1>2, NextBInv, PTL DEF Spec
-----------------------------------------------------------------------------
(* FlattenSeq, one part after the other *)

Joined(a, b) == a \o b

\* The function that FlattenSeq takes its value from.
Flat(g, s, n) == g = [i \in 1 .. n |-> IF i = 1 THEN s[i] ELSE Joined(g[i - 1], s[i])]

\* One part after the other.
LEMMA FlatAt ==
    ASSUME NEW s, NEW n \in Nat, NEW g, Flat(g, s, n), NEW i \in 1 .. n
    PROVE  /\ i = 1 => g[i] = s[i]
           /\ i # 1 => g[i] = Joined(g[i - 1], s[i])
<1> DEFINE more == [k \in 1 .. n |-> IF k = 1 THEN s[k] ELSE Joined(g[k - 1], s[k])]
<1>1. g = more
  BY DEF Flat
<1>2. more[i] = IF i = 1 THEN s[i] ELSE Joined(g[i - 1], s[i])
  OBVIOUS
<1> HIDE DEF more
<1>3. g[i] = IF i = 1 THEN s[i] ELSE Joined(g[i - 1], s[i])
  BY <1>1, <1>2, Zenon
<1> QED
  BY <1>3, Zenon

\* There is such a function, for any number of parts.
LEMMA FlatExists ==
    ASSUME NEW s, NEW n \in Nat
    PROVE  \E g : Flat(g, s, n)
<1> DEFINE P == {m \in Nat : \E g : Flat(g, s, m)}
<1>1. 0 \in P
  <2> DEFINE g == [i \in 1 .. 0 |-> s[i]]
  <2>1. 1 .. 0 = {}
    OBVIOUS
  <2>2. Flat(g, s, 0)
    BY <2>1 DEF Flat
  <2> HIDE DEF g
  <2> QED
    BY <2>2
<1>2. ASSUME NEW m \in P PROVE m + 1 \in P
  <2>1. PICK g : Flat(g, s, m)
    OBVIOUS
  <2> DEFINE h == [i \in 1 .. m + 1 |-> IF i =< m THEN g[i] ELSE IF i = 1 THEN s[i] ELSE Joined(g[i - 1], s[i])]
  <2>2. ASSUME NEW i \in 1 .. m + 1 PROVE h[i] = IF i = 1 THEN s[i] ELSE Joined(h[i - 1], s[i])
    <3>1. h[i] = IF i =< m THEN g[i] ELSE IF i = 1 THEN s[i] ELSE Joined(g[i - 1], s[i])
      OBVIOUS
    <3>2. i # 1 => h[i - 1] = g[i - 1]
      OBVIOUS
    <3>3. i =< m => (i = 1 => g[i] = s[i]) /\ (i # 1 => g[i] = Joined(g[i - 1], s[i]))
      <4> SUFFICES ASSUME i =< m PROVE (i = 1 => g[i] = s[i]) /\ (i # 1 => g[i] = Joined(g[i - 1], s[i]))
        OBVIOUS
      <4>1. i \in 1 .. m /\ m \in Nat
        OBVIOUS
      <4> HIDE DEF h, P
      <4> QED
        BY <2>1, <4>1, FlatAt
    <3> HIDE DEF h
    <3> QED
      BY <3>1, <3>2, <3>3
  <2>3. h = [i \in 1 .. m + 1 |-> h[i]]
    OBVIOUS
  <2> HIDE DEF h
  <2>4. Flat(h, s, m + 1)
    BY <2>2, <2>3 DEF Flat
  <2> QED
    BY <2>4
<1> HIDE DEF P
<1>3. P \in SUBSET Nat
  BY DEF P
<1>4. n \in P
  BY <1>1, <1>2, <1>3, EveryNumber
<1> QED
  BY <1>4 DEF P

\* Two of them agree as far as both go.
LEMMA FlatsAgree ==
    ASSUME NEW s, NEW n \in Nat, NEW m \in 0 .. n, NEW g, NEW h, Flat(g, s, m), Flat(h, s, n)
    PROVE  \A i \in 1 .. m : g[i] = h[i]
<1> DEFINE P == {i \in Nat : i \in 1 .. m => g[i] = h[i]}
<1>1. 0 \in P
  OBVIOUS
<1>2. ASSUME NEW i \in P PROVE i + 1 \in P
  <2> SUFFICES ASSUME i + 1 \in 1 .. m PROVE g[i + 1] = h[i + 1]
    OBVIOUS
  <2>1. i + 1 \in 1 .. n /\ (i + 1) - 1 = i /\ m \in Nat /\ i \in Nat
    OBVIOUS
  <2>2. i # 0 => g[i] = h[i]
    OBVIOUS
  <2>3. (i + 1 = 1 => g[i + 1] = s[i + 1]) /\ (i + 1 # 1 => g[i + 1] = Joined(g[i], s[i + 1]))
    BY <2>1, FlatAt
  <2>4. (i + 1 = 1 => h[i + 1] = s[i + 1]) /\ (i + 1 # 1 => h[i + 1] = Joined(h[i], s[i + 1]))
    BY <2>1, FlatAt
  <2> QED
    BY <2>1, <2>2, <2>3, <2>4
<1> HIDE DEF P
<1>3. P \in SUBSET Nat
  BY DEF P
<1>4. \A i \in Nat : i \in P
  BY <1>1, <1>2, <1>3, EveryNumber
<1> QED
  BY <1>4 DEF P

\* The first n of the parts.
First(s, n) == [i \in 1 .. n |-> s[i]]

\* FlattenSeq of the first parts is what the function has at the last of them.
LEMMA FlattenIs ==
    ASSUME NEW T, NEW s \in Seq(Seq(T)), NEW n \in 1 .. Len(s), NEW g, Flat(g, s, Len(s))
    PROVE  FlattenSeq(First(s, n)) = g[n]
<1> DEFINE some == First(s, n)
           flatten == CHOOSE h : Flat(h, some, n)
<1>1. some \in Seq(Seq(T)) /\ Len(some) = n /\ n \in Nat /\ \A i \in 1 .. n : some[i] = s[i]
  BY DEF First
<1> HIDE DEF some
<1>2. FlattenSeq(some) = flatten[n]
  BY <1>1 DEF FlattenSeq, Flat, Joined
<1>3. Flat(flatten, some, n)
  BY <1>1, FlatExists
<1> HIDE DEF flatten
<1>4. Flat(flatten, s, n)
  BY <1>1, <1>3 DEF Flat
<1>5. flatten[n] = g[n]
  BY <1>4, FlatsAgree
<1> QED
  BY <1>2, <1>5 DEF some

\* Flattened, the first parts are a list to which the next part is added.
LEMMA Flattening ==
    ASSUME NEW T, NEW s \in Seq(Seq(T))
    PROVE  /\ FlattenSeq(First(s, 0)) = <<>> /\ FlattenSeq(First(s, Len(s))) = FlattenSeq(s)
           /\ \A n \in 0 .. Len(s) : FlattenSeq(First(s, n)) \in Seq(T)
           /\ \A n \in 1 .. Len(s) : FlattenSeq(First(s, n)) = FlattenSeq(First(s, n - 1)) \o s[n]
<1>1. First(s, 0) = <<>> /\ First(s, Len(s)) = s
  BY DEF First
<1>2. FlattenSeq(<<>>) = <<>>
  BY DEF FlattenSeq
<1>3. PICK g : Flat(g, s, Len(s))
  <2>1. Len(s) \in Nat
    BY LenProperties
  <2> QED
    BY <2>1, FlatExists
<1>4. \A n \in 1 .. Len(s) : FlattenSeq(First(s, n)) = g[n] /\ s[n] \in Seq(T)
  BY <1>3, FlattenIs
<1>5. \A n \in 1 .. Len(s) : (n = 1 => g[n] = s[n]) /\ (n # 1 => g[n] = Joined(g[n - 1], s[n]))
  <2>1. Len(s) \in Nat
    BY LenProperties
  <2> QED
    BY <1>3, <2>1, FlatAt
<1>6. ASSUME NEW n \in 1 .. Len(s)
      PROVE  FlattenSeq(First(s, n)) = FlattenSeq(First(s, n - 1)) \o s[n]
  <2>1. CASE n = 1
    <3>1. FlattenSeq(First(s, 0)) = <<>> /\ FlattenSeq(First(s, 1)) = s[1] /\ s[1] \in Seq(T)
      BY <1>1, <1>2, <1>4, <1>5, <2>1
    <3>2. <<>> \o s[1] = s[1]
      BY <3>1, ConcatEmptySeq
    <3> QED
      BY <2>1, <3>1, <3>2
  <2>2. CASE n # 1
    <3>1. n - 1 \in 1 .. Len(s)
      BY <2>2
    <3> QED
      BY <1>4, <1>5, <2>2, <3>1 DEF Joined
  <2> QED
    BY <2>1, <2>2
<1>7. \A n \in 0 .. Len(s) : FlattenSeq(First(s, n)) \in Seq(T)
  <2> DEFINE P == {n \in Nat : n \in 0 .. Len(s) => FlattenSeq(First(s, n)) \in Seq(T)}
  <2>1. 0 \in P
    BY <1>1, <1>2, EmptySeq
  <2>2. ASSUME NEW n \in P PROVE n + 1 \in P
    <3> SUFFICES ASSUME n + 1 \in 0 .. Len(s) PROVE FlattenSeq(First(s, n + 1)) \in Seq(T)
      OBVIOUS
    <3>1. FlattenSeq(First(s, n)) \in Seq(T) /\ s[n + 1] \in Seq(T)
      BY <1>4
    <3>2. FlattenSeq(First(s, n + 1)) = FlattenSeq(First(s, n)) \o s[n + 1]
      <4>1. n + 1 \in 1 .. Len(s) /\ (n + 1) - 1 = n
        OBVIOUS
      <4> QED
        BY <1>6, <4>1
    <3> QED
      BY <3>1, <3>2, ConcatProperties
  <2> HIDE DEF P
  <2>3. P \in SUBSET Nat
    BY DEF P
  <2>4. \A n \in Nat : n \in P
    BY <2>1, <2>2, <2>3, EveryNumber
  <2> QED
    BY <2>4 DEF P
<1> QED
  BY <1>1, <1>2, <1>6, <1>7
-----------------------------------------------------------------------------
(* What a program has to do, and what is done of it *)

Names == {"floor", "rules", "real", "pooled", "degraded", "overload"}
Judges == {"mock", "programmatic", "step"}
Points == [name : Names, judge : Judges, concurrency : Nat \ {0}]

\* The points, phase by phase, and those of the phases up to one.
Sections == [p \in DOMAIN Phases |-> Phases[p].points]
UpTo(p) == FlattenSeq(First(Sections, p))

\* One point to a concurrency, one or more of them.
LEMMA PointsOfLoads ==
    ASSUME NEW name \in Names, NEW judge \in Judges, NEW at \in Loads
    PROVE  At(name, judge, at) \in Seq(Points) \ {<<>>}
<1>1. /\ at \in Seq(Nat \ {0}) /\ at # <<>> /\ Len(at) \in Nat \ {0} /\ DOMAIN at = 1 .. Len(at)
      /\ \A k \in 1 .. Len(at) : at[k] \in Nat \ {0}
  BY EmptySeq, LenProperties, ElementOfSeq DEF Loads
<1> DEFINE points == At(name, judge, at)
<1>2. DOMAIN points = 1 .. Len(at) /\ \A k \in 1 .. Len(at) : points[k] \in Points
  BY <1>1 DEF At, Points
<1>3. points = [k \in 1 .. Len(at) |-> points[k]]
  BY <1>1 DEF At
<1> HIDE DEF points
<1>4. points \in [1 .. Len(at) -> Points]
  BY <1>2, <1>3
<1>5. points \in Seq(Points)
  BY <1>1, <1>4, SeqDef
<1>6. points # <<>>
  <2>1. DOMAIN <<>> = {} /\ 1 \in DOMAIN points
    BY <1>1, <1>2
  <2> QED
    BY <2>1
<1> QED
  BY <1>5, <1>6 DEF points

\* Either program has phases, and every phase has points.
LEMMA ProgramIsWhole ==
    ASSUME program \in {Scenarios, RealSample}
    PROVE  /\ Len(Phases) \in Nat \ {0} /\ DOMAIN Phases = 1 .. Len(Phases)
           /\ \A p \in DOMAIN Phases : Phases[p].points \in Seq(Points) \ {<<>>}
<1>1. CASE program = RealSample
  <2>1. Phases = <<Phase(FALSE, At("real", "step", Sampled))>>
    BY <1>1 DEF Phases, RealSample
  <2>2. At("real", "step", Sampled) \in Seq(Points) \ {<<>>}
    <3>1. "real" \in Names /\ "step" \in Judges /\ Sampled \in Loads
      BY LoadAssumption DEF Names, Judges
    <3> QED
      BY <3>1, PointsOfLoads
  <2> DEFINE only == At("real", "step", Sampled)
  <2> HIDE DEF only
  <2>3. /\ Phases = <<Phase(FALSE, only)>> /\ Len(Phases) = 1 /\ DOMAIN Phases = 1 .. 1
        /\ Phases[1] = Phase(FALSE, only) /\ only \in Seq(Points) \ {<<>>}
    BY <2>1, <2>2 DEF only
  <2>4. \A p \in 1 .. 1 : p = 1
    OBVIOUS
  <2> QED
    BY <2>3, <2>4 DEF Phase
<1>2. CASE program = Scenarios
  <2> DEFINE first == At("floor", "mock", Light) \o At("rules", "programmatic", Light)
             others == [k \in DOMAIN Backed |-> Phase(TRUE, At(Backed[k].name, "step", Backed[k].at))]
             R == [fake : BOOLEAN, points : Seq(Points) \ {<<>>}]
  <2>1. Phases = << Phase(FALSE, first) >> \o others
    BY <1>2 DEF Phases, Scenarios
  <2>2. first \in Seq(Points) \ {<<>>}
    <3>1. /\ At("floor", "mock", Light) \in Seq(Points) \ {<<>>}
          /\ At("rules", "programmatic", Light) \in Seq(Points) \ {<<>>}
      <4>1. /\ "floor" \in Names /\ "mock" \in Judges /\ "rules" \in Names
            /\ "programmatic" \in Judges /\ Light \in Loads
        BY LoadAssumption DEF Names, Judges
      <4> QED
        BY <4>1, PointsOfLoads
    <3> DEFINE a == At("floor", "mock", Light)
               b == At("rules", "programmatic", Light)
    <3> HIDE DEF a, b
    <3>2. a \in Seq(Points) /\ b \in Seq(Points) /\ a # <<>>
      BY <3>1 DEF a, b
    <3>3. a \o b \in Seq(Points) /\ Len(a \o b) = Len(a) + Len(b)
      BY <3>2, ConcatProperties
    <3>4. Len(a) \in Nat \ {0} /\ Len(b) \in Nat
      BY <3>2, LenProperties, EmptySeq
    <3>5. a \o b # <<>>
      <4>1. Len(<<>>) = 0 /\ Len(a \o b) # 0
        BY <3>3, <3>4
      <4> QED
        BY <4>1
    <3> QED
      BY <3>3, <3>5 DEF a, b
  <2>3. /\ DOMAIN Backed = 1 .. Len(Backed) /\ Len(Backed) \in Nat
        /\ \A k \in DOMAIN Backed : Backed[k].name \in Names /\ Backed[k].at \in Loads
    <3> DEFINE N == {"pooled", "degraded", "overload"}
               R0 == [name : N, at : Loads]
    <3>1. Backed \in Seq(R0) /\ N \subseteq Names
      BY LoadAssumption DEF Names
    <3>2. \A r \in R0 : r.name \in N /\ r.at \in Loads
      OBVIOUS
    <3> HIDE DEF R0, N
    <3>3. DOMAIN Backed = 1 .. Len(Backed) /\ Len(Backed) \in Nat
      BY <3>1, LenProperties
    <3>4. \A k \in 1 .. Len(Backed) : Backed[k] \in R0
      BY <3>1, ElementOfSeq
    <3> QED
      BY <3>1, <3>2, <3>3, <3>4
  <2>4. \A k \in DOMAIN Backed : others[k] \in R
    <3> SUFFICES ASSUME NEW k \in DOMAIN Backed PROVE others[k] \in R
      OBVIOUS
    <3>0. "step" \in Judges /\ Backed[k].name \in Names /\ Backed[k].at \in Loads
      BY <2>3 DEF Judges
    <3>1. At(Backed[k].name, "step", Backed[k].at) \in Seq(Points) \ {<<>>}
      BY <3>0, PointsOfLoads
    <3> QED
      BY <3>1 DEF Phase
  <2>5. others \in Seq(R)
    <3>1. others = [k \in 1 .. Len(Backed) |-> others[k]]
      BY <2>3
    <3> HIDE DEF others, R
    <3>2. others \in [1 .. Len(Backed) -> R]
      BY <2>3, <2>4, <3>1
    <3> QED
      BY <2>3, <3>2, SeqDef
  <2>6. << Phase(FALSE, first) >> \in Seq(R)
    <3> HIDE DEF first
    <3> QED
      BY <2>2 DEF Phase
  <2> HIDE DEF others, first, R
  <2>7. Phases \in Seq(R) /\ Len(Phases) = 1 + Len(others) /\ Len(others) \in Nat
    <3>1. Len(<< Phase(FALSE, first) >>) = 1
      OBVIOUS
    <3> QED
      BY <2>1, <2>5, <2>6, <3>1, ConcatProperties, LenProperties
  <2>8. DOMAIN Phases = 1 .. Len(Phases) /\ \A p \in 1 .. Len(Phases) : Phases[p] \in R
    BY <2>7, LenProperties, ElementOfSeq
  <2> QED
    BY <2>7, <2>8 DEF R
<1> QED
  BY <1>1, <1>2

\* The points of the phases up to one are a list, and those of the next come after it.
LEMMA UpToGrows ==
    ASSUME program \in {Scenarios, RealSample}
    PROVE  /\ UpTo(0) = <<>> /\ UpTo(Len(Phases)) = Planned
           /\ \A p \in 0 .. Len(Phases) : UpTo(p) \in Seq(Points)
           /\ \A p \in 1 .. Len(Phases) : UpTo(p) = UpTo(p - 1) \o Phases[p].points
<1>1. /\ Len(Phases) \in Nat \ {0} /\ DOMAIN Phases = 1 .. Len(Phases)
      /\ \A p \in DOMAIN Phases : Phases[p].points \in Seq(Points) \ {<<>>}
  BY ProgramIsWhole
<1>2. /\ Sections \in [1 .. Len(Phases) -> Seq(Points)]
      /\ \A p \in 1 .. Len(Phases) : Sections[p] = Phases[p].points
  BY <1>1 DEF Sections
<1>3. Sections \in Seq(Seq(Points)) /\ Len(Sections) = Len(Phases)
  <2>1. Sections \in Seq(Seq(Points))
    BY <1>1, <1>2, SeqDef
  <2>2. DOMAIN Sections = 1 .. Len(Sections) /\ Len(Sections) \in Nat /\ DOMAIN Sections = 1 .. Len(Phases)
    BY <1>2, <2>1, LenProperties
  <2>3. Len(Sections) = Len(Phases)
    <3> DEFINE a == Len(Sections)
               b == Len(Phases)
    <3>1. a \in Nat /\ b \in Nat \ {0} /\ 1 .. a = 1 .. b
      BY <1>1, <2>2
    <3> HIDE DEF a, b
    <3>2. b \in 1 .. a /\ a =< b
      <4>1. b \in 1 .. b
        BY <3>1
      <4>2. b \in 1 .. a
        BY <3>1, <4>1
      <4>3. a \in 1 .. a
        BY <3>1, <4>2
      <4>4. a \in 1 .. b
        BY <3>1, <4>3
      <4> QED
        BY <3>1, <4>2, <4>4
    <3>3. a = b
      BY <3>1, <3>2
    <3> QED
      BY <3>3 DEF a, b
  <2> QED
    BY <2>1, <2>3
<1>4. Planned = FlattenSeq(Sections)
  BY DEF Planned, Sections
<1> DEFINE parts == Sections
<1> HIDE DEF parts
<1>5. parts \in Seq(Seq(Points))
  BY <1>3 DEF parts
<1>6. /\ FlattenSeq(First(parts, 0)) = <<>> /\ FlattenSeq(First(parts, Len(parts))) = FlattenSeq(parts)
      /\ \A n \in 0 .. Len(parts) : FlattenSeq(First(parts, n)) \in Seq(Points)
      /\ \A n \in 1 .. Len(parts) :
            FlattenSeq(First(parts, n)) = FlattenSeq(First(parts, n - 1)) \o parts[n]
  BY <1>5, Flattening
<1>7. \A p : UpTo(p) = FlattenSeq(First(parts, p))
  BY DEF UpTo, parts
<1>8. Planned = FlattenSeq(parts) /\ Len(parts) = Len(Phases)
  BY <1>3, <1>4 DEF parts
<1>9. \A p \in 1 .. Len(Phases) : parts[p] = Phases[p].points
  BY <1>2 DEF parts
<1> HIDE DEF UpTo
<1> QED
  BY <1>6, <1>7, <1>8, <1>9
-----------------------------------------------------------------------------
(* Points that are whole *)

\* error_rate is rounded to four places (driver.py:209), so that one failure in more than 20000
\* requests is none.  The programs send 60, 200 and 30 to a point.
FewRequests == Requests < 20000

\* A point that was kept has a sample to a request, and errors for those that were not good.
PointWhole(r) ==
    /\ r.n = Requests /\ r.ok \in 0 .. Requests
    /\ r.errors = (20000 * (Requests - r.ok) + Requests) \div (2 * Requests)

AllWhole(list) == (\E S : list \in Seq(S)) /\ \A i \in DOMAIN list : PointWhole(list[i])

\* The points that were measured, without what was measured.
Key(r) == [name |-> r.name, judge |-> r.judge, concurrency |-> r.concurrency]
Keys(list) == [i \in DOMAIN list |-> Key(list[i])]

\* What has been measured when nothing failed: the points up to where the sweep is.
Reached(parts, at, p, i) ==
    IF at = "stop" THEN FlattenSeq(First(parts, p))
                   ELSE FlattenSeq(First(parts, p - 1)) \o First(parts[p], i - 1)
Covered == Reached(Sections, pc, phase, point)

\* What was sent has come back or is under way.
Balanced ==
    /\ samples \in [Answers -> Nat] /\ sent \in Nat /\ flying \in Nat
    /\ CountOf(Answers) + flying = sent

Placed ==
    /\ phase \in DOMAIN Phases /\ point \in DOMAIN Here.points
    /\ pc \in {"off", "check"} => phase = 1 /\ point = 1 /\ results = <<>>
    /\ pc = "spawn" => point = 1

Ordered ==
    /\ failed => pc = "stop"
    /\ ~ failed => Keys(results) = Covered
    /\ file = <<>> \/ Keys(file) = Planned

WInv ==
    /\ program \in {Scenarios, RealSample} /\ Balanced /\ Placed /\ Ordered
    /\ AllWhole(results) /\ AllWhole(file)

\* There are at most eight answers.
LEMMA FewAnswers == IsFiniteSet(Answers)
<1> DEFINE Statuses == {200, 429, 504, 0}
           Overheads == {"fast", "slow"}
           Pairs == Statuses \X Overheads
<1>1. IsFiniteSet(Statuses) /\ IsFiniteSet(Overheads)
  <2>1. 0 \in Int /\ 504 \in Int
    OBVIOUS
  <2>2. IsFiniteSet(0 .. 504)
    BY <2>1, FS_Interval
  <2>3. Statuses \subseteq 0 .. 504
    OBVIOUS
  <2>4. \A S, x : IsFiniteSet(S) => IsFiniteSet(S \cup {x})
    BY FS_AddElement
  <2>5. IsFiniteSet({"fast"})
    BY FS_Singleton
  <2>6. IsFiniteSet({"fast"} \cup {"slow"})
    BY <2>4, <2>5
  <2>7. Overheads = {"fast"} \cup {"slow"}
    OBVIOUS
  <2> HIDE DEF Statuses, Overheads
  <2>8. IsFiniteSet(Statuses)
    BY <2>2, <2>3, FS_Subset
  <2> QED
    BY <2>6, <2>7, <2>8
<1> DEFINE pair == [answer \in Answers |-> <<answer.status, answer.overhead>>]
<1>2. \A answer \in Answers : pair[answer] \in Pairs
  BY AnswersAssumption
<1>3. \A a, b \in Answers : pair[a] = pair[b] => a = b
  <2> SUFFICES ASSUME NEW a \in Answers, NEW b \in Answers, pair[a] = pair[b] PROVE a = b
    OBVIOUS
  <2>1. a.status = b.status /\ a.overhead = b.overhead
    OBVIOUS
  <2>2. a = [status |-> a.status, overhead |-> a.overhead]
    BY AnswersAssumption
  <2>3. b = [status |-> b.status, overhead |-> b.overhead]
    BY AnswersAssumption
  <2> QED
    BY <2>1, <2>2, <2>3
<1>4. IsFiniteSet(Pairs)
  <2> HIDE DEF Statuses, Overheads
  <2> QED
    BY <1>1, FS_Product
<1> HIDE DEF pair, Pairs
<1> QED
  BY <1>2, <1>3, <1>4, NoMoreThan

\* What the driver counts are sums over the samples.
LEMMA CountsAreTotals == \A S : CountOf(S) = Total(samples, S)
BY DEF CountOf, Total

\* A leg starts with nothing sent.
LEMMA Emptied ==
    ASSUME NEW kind, StartLeg(kind)
    PROVE  Balanced'
<1>1. samples' = NoSamples /\ sent' = 0 /\ flying' = 0
  BY DEF StartLeg
<1>2. samples' \in [Answers -> Nat] /\ \A answer \in Answers : samples'[answer] = 0
  BY <1>1 DEF NoSamples
<1>3. Total(samples', Answers) = 0
  BY <1>2, FewAnswers, TotalOfZeros
<1>4. CountOf(Answers)' = Total(samples', Answers)
  BY DEF CountOf, Total, MapThenSumSet, MapThenFoldSet
<1> QED
  BY <1>1, <1>2, <1>3, <1>4 DEF Balanced

\* An answer is one sample more and one request less under way.
LEMMA Landed ==
    ASSUME Balanced, NEW answer \in Answers, Answer(answer)
    PROVE  Balanced'
<1>1. /\ flying > 0 /\ flying' = flying - 1 /\ sent' = sent
      /\ samples' = [samples EXCEPT ![answer] = @ + 1]
  BY DEF Answer
<1>2. /\ samples' \in [Answers -> Nat] /\ samples'[answer] = samples[answer] + 1
      /\ samples[answer] \in Nat
      /\ \A a \in Answers \ {answer} : samples'[a] = samples[a]
  BY <1>1 DEF Balanced
<1>3. IsFiniteSet(Answers \ {answer})
  BY FewAnswers, FS_RemoveElement
<1>4. Total(samples', Answers \ {answer}) = Total(samples, Answers \ {answer})
  BY <1>2, <1>3, TotalOfSame
<1>5. Total(samples, Answers) = samples[answer] + Total(samples, Answers \ {answer})
  <2>1. \A k \in Answers : samples[k] \in Nat
    BY DEF Balanced
  <2> QED
    BY <2>1, FewAnswers, TotalOf
<1>6. Total(samples', Answers) = samples'[answer] + Total(samples', Answers \ {answer})
  <2>1. \A k \in Answers : samples'[k] \in Nat
    BY <1>2
  <2> QED
    BY <2>1, FewAnswers, TotalOf
<1>7. Total(samples, Answers \ {answer}) \in Nat
  <2>1. \A k \in Answers \ {answer} : samples[k] \in Nat
    BY DEF Balanced
  <2> QED
    BY <2>1, <1>3, TotalIsNat
<1>8. CountOf(Answers)' = Total(samples', Answers) /\ CountOf(Answers) = Total(samples, Answers)
  BY DEF CountOf, Total, MapThenSumSet, MapThenFoldSet
<1> DEFINE rest == Total(samples, Answers \ {answer})
           before == CountOf(Answers)
           after == CountOf(Answers)'
           a == samples[answer]
<1> HIDE DEF rest, before, after, a
<1>9. before = a + rest /\ after = (a + 1) + rest /\ a \in Nat /\ rest \in Nat
  BY <1>2, <1>4, <1>5, <1>6, <1>7, <1>8 DEF rest, before, after, a
<1>10. before + flying = sent /\ sent \in Nat /\ flying \in Nat
  BY DEF Balanced, before
<1>11. after + flying' = sent' /\ sent' \in Nat /\ flying' \in Nat
  BY <1>1, <1>9, <1>10
<1> QED
  BY <1>2, <1>11 DEF Balanced, after

\* What is kept of a point is whole.
LEMMA SummaryIsWhole ==
    ASSUME Balanced, flying = 0, sent = Requests
    PROVE  PointWhole(Summary) /\ Key(Summary) = Key(Point)
<1>1. CountOf(Answers) = Total(samples, Answers) /\ CountOf(Good) = Total(samples, Good)
  BY DEF CountOf, Total
<1>2. Good \subseteq Answers /\ \A k \in Answers : samples[k] \in Nat
  BY DEF Good, Balanced
<1>3. Total(samples, Good) \in Nat /\ Total(samples, Good) =< Total(samples, Answers)
  BY <1>2, FewAnswers, TotalOfPart
<1> DEFINE n == CountOf(Answers)
           ok == CountOf(Good)
<1>4. ErrorRate = IF n = 0 THEN 0 ELSE (20000 * (n - ok) + n) \div (2 * n)
  BY DEF ErrorRate
<1>5. n + flying = sent
  BY DEF Balanced
<1>6. ok \in Nat /\ ok =< n
  BY <1>1, <1>3
<1>7. Summary.n = n /\ Summary.ok = ok /\ Summary.errors = ErrorRate
  BY DEF Summary
<1>8. Key(Summary) = Key(Point)
  BY DEF Summary, Key
<1> HIDE DEF n, ok
<1>9. n = Requests
  <2>1. n \in Nat
    BY <1>1, <1>2, FewAnswers, TotalIsNat DEF n
  <2> QED
    BY <1>5, <2>1, BoundsAssumption
<1>10. ErrorRate = (20000 * (n - ok) + n) \div (2 * n)
  BY <1>4, <1>9, BoundsAssumption
<1>11. ok \in 0 .. Requests
  BY <1>6, <1>9, BoundsAssumption
<1> QED
  BY <1>7, <1>8, <1>9, <1>10, <1>11 DEF PointWhole

\* Without errors every request was good, when the requests are few.
LEMMA NoErrorsNoneLost ==
    ASSUME FewRequests, NEW r, PointWhole(r), ~ (r.errors > 0)
    PROVE  r.ok = Requests
<1> DEFINE lost == Requests - r.ok
           x == 20000 * lost + Requests
           y == 2 * Requests
           e == x \div y
<1>1. lost \in Nat /\ Requests \in Nat \ {0} /\ y \in Nat \ {0} /\ x \in Nat /\ Requests < 20000
  BY BoundsAssumption DEF PointWhole, FewRequests
<1>2. r.errors = e
  BY DEF PointWhole
<1>3. ASSUME lost # 0 PROVE x >= y
  <2>1. 20000 * lost >= 20000
    BY <1>1, <1>3
  <2> QED
    BY <1>1, <2>1
<1>4. x >= y => e >= 1
  <2> HIDE DEF x, y
  <2> QED
    BY <1>1
<1>5. lost = 0
  <2>1. e \in Int /\ ~ (e > 0)
    <3> HIDE DEF x, y
    <3> QED
      BY <1>1, <1>2
  <2> HIDE DEF e, lost
  <2> QED
    BY <1>3, <1>4, <2>1
<1> QED
  BY <1>5, BoundsAssumption DEF PointWhole
-----------------------------------------------------------------------------
(* Step by step *)

\* Where the sweep stands and what it has, apart from the answers under way.
place == <<program, pc, phase, point, failed, results, file>>

\* With the program, its plan stays.
LEMMA PlanStays ==
    ASSUME program' = program
    PROVE  /\ Planned' = Planned /\ Phases' = Phases /\ Sections' = Sections
           /\ Covered' = Reached(Sections, pc', phase', point')
<1>1. Phases' = Phases
  BY DEF Phases
<1>2. Sections' = Sections
  BY <1>1 DEF Sections
<1>3. Planned' = Planned
  BY <1>1 DEF Planned
<1>4. Covered' = Reached(Sections', pc', phase', point')
  BY DEF Covered, Reached, First, Sections
<1> QED
  BY <1>1, <1>2, <1>3, <1>4

\* A sweep that has stopped without an error has got to the end of its phase.
LEMMA ReachedIs ==
    ASSUME NEW p, NEW i
    PROVE  Reached(Sections, "stop", p, i) = UpTo(p)
BY Zenon DEF Reached, UpTo

\* Steps that leave the place, or go on in it, without a new point.
LEMMA InPlace ==
    ASSUME WInv, Balanced', UNCHANGED <<program, phase, point, failed, results, file>>,
           pc' = pc \/ ({pc, pc'} \cap {"off", "stop"} = {} /\ pc' \notin {"check", "spawn"})
                    \/ (pc = "off" /\ pc' = "check")
    PROVE  WInv'
<1>1. /\ Planned' = Planned /\ Phases' = Phases
      /\ Covered' = Reached(Sections, pc', phase', point')
  BY PlanStays
<1>2. Here' = Here
  BY <1>1 DEF Here
<1>3. Placed'
  BY <1>1, <1>2 DEF WInv, Placed
<1>4. Covered' = Covered
  <2>1. pc' = "stop" <=> pc = "stop"
    OBVIOUS
  <2> QED
    BY <1>1, <2>1 DEF Covered, Reached
<1>5. Ordered'
  BY <1>1, <1>4 DEF WInv, Ordered, Keys, Key
<1> QED
  BY <1>3, <1>5 DEF WInv, AllWhole, PointWhole

\* With nothing measured nothing is missing.
LEMMA NothingIsWhole == AllWhole(<<>>) /\ Keys(<<>>) = <<>>
<1>1. <<>> \in Seq({}) /\ DOMAIN <<>> = {}
  BY EmptySeq
<1>2. Keys(<<>>) = <<>>
  BY DEF Keys
<1> QED
  BY <1>1, <1>2 DEF AllWhole

\* Where a program starts.
LEMMA AtFirst ==
    ASSUME program \in {Scenarios, RealSample}
    PROVE  1 \in DOMAIN Phases /\ 1 \in DOMAIN Phases[1].points /\ UpTo(0) \o First(Phases[1].points, 0) = <<>>
<1>1. /\ Len(Phases) \in Nat \ {0} /\ DOMAIN Phases = 1 .. Len(Phases)
      /\ \A p \in DOMAIN Phases : Phases[p].points \in Seq(Points) \ {<<>>}
  BY ProgramIsWhole
<1>2. 1 \in DOMAIN Phases
  BY <1>1
<1> DEFINE list == Phases[1].points
<1>3. list \in Seq(Points) /\ list # <<>>
  BY <1>1, <1>2
<1> HIDE DEF list
<1>4. Len(list) \in Nat \ {0} /\ DOMAIN list = 1 .. Len(list)
  BY <1>3, EmptySeq, LenProperties
<1>5. First(list, 0) = <<>>
  BY DEF First
<1>6. UpTo(0) = <<>>
  BY UpToGrows
<1>7. <<>> \o <<>> = <<>>
  OBVIOUS
<1> QED
  BY <1>2, <1>4, <1>5, <1>6, <1>7 DEF list

\* The command ends, with the file of before or with all there was to measure.
LEMMA Ends ==
    ASSUME WInv, Leave, program' = program,
           file' = file \/ (file' = results /\ Keys(results) = Planned)
    PROVE  WInv'
<1>1. /\ pc' = "off" /\ phase' = 1 /\ point' = 1 /\ failed' = FALSE /\ results' = <<>>
  BY DEF Leave
<1>2. Balanced'
  BY Emptied DEF Leave
<1>3. /\ Planned' = Planned /\ Phases' = Phases
      /\ Covered' = Reached(Sections, pc', phase', point')
  BY PlanStays
<1>4. /\ 1 \in DOMAIN Phases /\ 1 \in DOMAIN Phases[1].points
      /\ UpTo(0) \o First(Phases[1].points, 0) = <<>>
  BY AtFirst DEF WInv
<1>5. Here' = Phases[1]
  BY <1>1, <1>3 DEF Here
<1>6. Placed'
  BY <1>1, <1>3, <1>4, <1>5 DEF Placed
<1>7. Covered' = <<>>
  <2>1. Covered' = Reached(Sections, "off", 1, 1)
    BY <1>1, <1>3
  <2>2. Reached(Sections, "off", 1, 1) = UpTo(0) \o First(Phases[1].points, 0)
    <3>1. 1 - 1 = 0 /\ Sections[1] = Phases[1].points
      BY <1>4 DEF Sections
    <3>2. Reached(Sections, "off", 1, 1) = FlattenSeq(First(Sections, 1 - 1)) \o First(Sections[1], 1 - 1)
      BY Zenon DEF Reached
    <3> QED
      BY <3>1, <3>2, Zenon DEF UpTo
  <2> QED
    BY <1>4, <2>1, <2>2
<1>8. Keys(results)' = <<>>
  BY <1>1 DEF Keys
<1>9. file' = <<>> \/ Keys(file)' = Planned'
  BY <1>3 DEF WInv, Ordered, Keys, Key
<1>10. Ordered'
  BY <1>1, <1>7, <1>8, <1>9 DEF Ordered
<1>11. AllWhole(results)' /\ AllWhole(file)'
  BY <1>1, NothingIsWhole DEF WInv, AllWhole, PointWhole
<1> QED
  BY <1>2, <1>6, <1>10, <1>11 DEF WInv

\* The sweep is to end with an error.
LEMMA Fails ==
    ASSUME WInv, Balanced', UNCHANGED <<program, phase, point, results, file>>,
           pc' = "stop", failed' = TRUE
    PROVE  WInv'
<1>1. Planned' = Planned /\ Phases' = Phases
  BY PlanStays
<1>2. Placed'
  BY <1>1 DEF WInv, Placed, Here
<1>3. Ordered'
  BY <1>1 DEF WInv, Ordered, Keys, Key
<1> QED
  BY <1>2, <1>3 DEF WInv, AllWhole, PointWhole

\* The next phase starts where the points of those before it end.
LEMMA Continues ==
    ASSUME WInv, NextPhase
    PROVE  WInv'
<1>1. /\ pc = "stop" /\ ~ failed /\ phase < Len(Phases) /\ phase' = phase + 1 /\ pc' = "spawn"
      /\ point' = 1 /\ UNCHANGED <<program, samples, sent, flying, failed, results, file>>
  BY DEF NextPhase, Stopped, command, driver
<1>2. /\ Planned' = Planned /\ Phases' = Phases
      /\ Covered' = Reached(Sections, pc', phase', point')
  BY <1>1, PlanStays
<1>3. /\ Len(Phases) \in Nat \ {0} /\ DOMAIN Phases = 1 .. Len(Phases)
      /\ \A p \in DOMAIN Phases : Phases[p].points \in Seq(Points) \ {<<>>}
  BY ProgramIsWhole DEF WInv
<1>4. phase \in 1 .. Len(Phases) /\ phase' \in DOMAIN Phases /\ phase' - 1 = phase
  BY <1>1, <1>3 DEF WInv, Placed
<1>5. Here' = Phases[phase']
  BY <1>2 DEF Here
<1>6. 1 \in DOMAIN Here'.points /\ First(Here'.points, 0) = <<>>
  <2> DEFINE list == Here'.points
  <2>1. list \in Seq(Points) /\ list # <<>>
    BY <1>3, <1>4, <1>5
  <2> HIDE DEF list
  <2>2. Len(list) \in Nat \ {0} /\ DOMAIN list = 1 .. Len(list)
    BY <2>1, EmptySeq, LenProperties
  <2>3. First(list, 0) = <<>>
    BY DEF First
  <2> QED
    BY <2>2, <2>3 DEF list
<1>7. Placed'
  BY <1>1, <1>2, <1>4, <1>6 DEF Placed
<1>8. Covered' = Covered
  <2>1. Covered' = Reached(Sections, "spawn", phase', 1)
    BY <1>1, <1>2
  <2>2. Covered' = UpTo(phase) \o <<>>
    <3>1. 1 - 1 = 0 /\ phase' - 1 = phase /\ Sections[phase'] = Phases[phase'].points
      BY <1>4 DEF Sections
    <3>4. Reached(Sections, "spawn", phase', 1)
          = FlattenSeq(First(Sections, phase' - 1)) \o First(Sections[phase'], 1 - 1)
      BY Zenon DEF Reached
    <3>2. Reached(Sections, "spawn", phase', 1) = UpTo(phase) \o First(Phases[phase'].points, 0)
      BY <3>1, <3>4, Zenon DEF UpTo
    <3>3. First(Phases[phase'].points, 0) = <<>>
      BY <1>5, <1>6
    <3> QED
      BY <2>1, <3>2, <3>3
  <2>3. UpTo(phase) \in Seq(Points)
    <3>1. phase \in 0 .. Len(Phases)
      BY <1>3, <1>4
    <3> QED
      BY <3>1, UpToGrows DEF WInv
  <2>4. UpTo(phase) \o <<>> = UpTo(phase)
    BY <2>3, ConcatEmptySeq
  <2>5. Covered = UpTo(phase)
    <3>1. program \in {Scenarios, RealSample} /\ phase \in DOMAIN Phases
      BY <1>3, <1>4 DEF WInv
    <3> QED
      BY <1>1, <3>1, ReachedIs DEF Covered
  <2> QED
    BY <2>2, <2>4, <2>5
<1>9. Ordered'
  BY <1>1, <1>2, <1>8 DEF WInv, Ordered, Keys, Key
<1>10. Balanced'
  BY <1>1 DEF WInv, Balanced, CountOf, MapThenSumSet, MapThenFoldSet
<1> QED
  BY <1>1, <1>7, <1>9, <1>10 DEF WInv, AllWhole, PointWhole

\* All phases are through.
LEMMA Finishes ==
    ASSUME WInv, Finish
    PROVE  WInv'
<1>1. /\ pc = "stop" /\ (failed \/ phase = Len(Phases))
  BY DEF Finish, Stopped
<1>2. Leave /\ program' = program /\ file' = IF failed THEN file ELSE results
  BY DEF Finish, command
<1>3. ASSUME ~ failed PROVE Keys(results) = Planned
  <2>1. Keys(results) = UpTo(Len(Phases))
    <3>1. pc = "stop" /\ phase = Len(Phases) /\ phase \in DOMAIN Phases
      BY <1>1, <1>3 DEF WInv, Placed, Finish, Stopped
    <3>2. Covered = UpTo(phase)
      <4>1. program \in {Scenarios, RealSample} /\ \A x : \E y : y = x - 1
        BY DEF WInv
      <4> QED
        BY <3>1, <4>1, ReachedIs DEF Covered
    <3> QED
      BY <1>3, <3>1, <3>2 DEF WInv, Ordered
  <2>2. UpTo(Len(Phases)) = Planned
    BY UpToGrows DEF WInv
  <2> QED
    BY <2>1, <2>2
<1> QED
  BY <1>2, <1>3, Ends
-----------------------------------------------------------------------------
\* A list with one more at its end.
LEMMA OneMore ==
    ASSUME NEW list, NEW T, list \in Seq(T), NEW summary
    PROVE  /\ \E S : Append(list, summary) \in Seq(S)
           /\ Len(list) \in Nat /\ DOMAIN list = 1 .. Len(list)
           /\ DOMAIN Append(list, summary) = 1 .. Len(list) + 1
           /\ \A i \in 1 .. Len(list) + 1 :
                 Append(list, summary)[i] = IF i = Len(list) + 1 THEN summary ELSE list[i]
<1> DEFINE S == T \cup {summary}
<1>1. list \in Seq(S) /\ summary \in S
  BY SeqMonotonic
<1> HIDE DEF S
<1>2. Append(list, summary) \in Seq(S)
  BY <1>1
<1>3. /\ Len(list) \in Nat /\ DOMAIN list = 1 .. Len(list)
      /\ DOMAIN Append(list, summary) = 1 .. Len(list) + 1
      /\ \A i \in 1 .. Len(list) + 1 :
            Append(list, summary)[i] = IF i = Len(list) + 1 THEN summary ELSE list[i]
  BY <1>1, LenProperties
<1> QED
  BY <1>2, <1>3

\* The first of a list are a list.
LEMMA FirstIs ==
    ASSUME NEW T, NEW b \in Seq(T), NEW m \in 0 .. Len(b)
    PROVE  /\ First(b, m) \in Seq(T) /\ Len(First(b, m)) = m /\ DOMAIN First(b, m) = 1 .. m
           /\ \A i \in 1 .. m : First(b, m)[i] = b[i]
<1>1. Len(b) \in Nat /\ m \in Nat /\ \A i \in 1 .. m : b[i] \in T
  BY LenProperties, ElementOfSeq
<1> DEFINE f == First(b, m)
<1>2. f \in [1 .. m -> T] /\ DOMAIN f = 1 .. m /\ \A i \in 1 .. m : f[i] = b[i]
  BY <1>1 DEF First
<1> HIDE DEF f
<1>3. f \in Seq(T)
  BY <1>1, <1>2, SeqDef
<1>4. Len(f) = m
  BY <1>1, <1>2, <1>3, LenProperties
<1> QED
  BY <1>2, <1>3, <1>4 DEF f

\* Whether a summary is that of the next point: the one after those the list has.
Adds(list, summary, a, b, n) ==
    /\ \E T : list \in Seq(T)
    /\ a \in Seq(Points) /\ b \in Seq(Points) /\ n \in DOMAIN b
    /\ \E before \in Nat : n = before + 1 /\ Keys(list) = a \o First(b, before)
    /\ Key(summary) = b[n]

\* Then the list with it has one point more.
LEMMA OneMoreKey ==
    ASSUME NEW list, NEW summary, NEW a, NEW b, NEW n, Adds(list, summary, a, b, n)
    PROVE  Keys(Append(list, summary)) = Joined(a, First(b, n))
<1>c. /\ a \in Seq(Points) /\ b \in Seq(Points) /\ n \in DOMAIN b /\ Key(summary) = b[n]
  BY DEF Adds
<1>b. PICK before \in Nat : n = before + 1 /\ Keys(list) = a \o First(b, before)
  BY DEF Adds
<1>a. PICK T : list \in Seq(T)
  BY DEF Adds
<1>1. /\ Len(list) \in Nat /\ DOMAIN list = 1 .. Len(list)
      /\ DOMAIN Append(list, summary) = 1 .. Len(list) + 1
      /\ \A i \in 1 .. Len(list) + 1 :
            Append(list, summary)[i] = IF i = Len(list) + 1 THEN summary ELSE list[i]
  BY <1>a, OneMore
<1>2. /\ Len(a) \in Nat /\ Len(b) \in Nat /\ DOMAIN b = 1 .. Len(b) /\ n \in 1 .. Len(b)
      /\ before \in Nat /\ n = before + 1
  BY <1>c, <1>b, LenProperties
<1> DEFINE f == First(b, before)
           g == First(b, n)
<1>3. /\ Len(f) = before /\ DOMAIN f = 1 .. before /\ \A i \in 1 .. before : f[i] = b[i]
      /\ f \in Seq(Points)
  <2>1. before \in 0 .. Len(b)
    BY <1>2
  <2> QED
    BY <1>c, <2>1, FirstIs
<1>4. /\ Len(g) = n /\ DOMAIN g = 1 .. n /\ \A i \in 1 .. n : g[i] = b[i]
      /\ g \in Seq(Points)
  <2>1. n \in 0 .. Len(b)
    BY <1>2
  <2> QED
    BY <1>c, <2>1, FirstIs
<1> HIDE DEF f, g
<1>5. /\ Len(a \o f) = Len(a) + before /\ DOMAIN (a \o f) = 1 .. Len(a) + before
      /\ \A i \in 1 .. Len(a) + before : (a \o f)[i] = IF i =< Len(a) THEN a[i] ELSE f[i - Len(a)]
  <2>1. a \in Seq(Points) /\ f \in Seq(Points) /\ Len(f) = before
    BY <1>c, <1>3
  <2>2. /\ a \o f \in Seq(Points) /\ Len(a \o f) = Len(a) + Len(f)
        /\ \A i \in 1 .. Len(a) + Len(f) : (a \o f)[i] = IF i =< Len(a) THEN a[i] ELSE f[i - Len(a)]
    BY <2>1, ConcatProperties
  <2>3. DOMAIN (a \o f) = 1 .. Len(a \o f)
    BY <2>2, LenProperties
  <2> QED
    BY <2>1, <2>2, <2>3
<1>6. /\ Len(a \o g) = Len(a) + n /\ DOMAIN (a \o g) = 1 .. Len(a) + n
      /\ \A i \in 1 .. Len(a) + n : (a \o g)[i] = IF i =< Len(a) THEN a[i] ELSE g[i - Len(a)]
      /\ a \o g = [i \in 1 .. Len(a) + n |-> (a \o g)[i]]
  <2>0. a \in Seq(Points) /\ g \in Seq(Points) /\ Len(g) = n
    BY <1>c, <1>4
  <2>5. /\ a \o g \in Seq(Points) /\ Len(a \o g) = Len(a) + Len(g)
        /\ \A i \in 1 .. Len(a) + Len(g) : (a \o g)[i] = IF i =< Len(a) THEN a[i] ELSE g[i - Len(a)]
    BY <2>0, ConcatProperties
  <2>1. /\ Len(a \o g) = Len(a) + n /\ a \o g \in Seq(Points)
        /\ \A i \in 1 .. Len(a) + n : (a \o g)[i] = IF i =< Len(a) THEN a[i] ELSE g[i - Len(a)]
    BY <2>0, <2>5
  <2>2. DOMAIN (a \o g) = 1 .. Len(a) + n
    BY <2>1, LenProperties
  <2> DEFINE ag == a \o g
             k == Len(a) + n
  <2>3. ag \in Seq(Points) /\ DOMAIN ag = 1 .. k
    BY <2>1, <2>2
  <2> HIDE DEF ag, k
  <2>4. ag = [i \in 1 .. k |-> ag[i]]
    BY <2>3
  <2> QED
    BY <2>1, <2>2, <2>4 DEF ag, k
<1> DEFINE old == Keys(list)
           more == Append(list, summary)
           new == Keys(more)
<1>7. DOMAIN old = 1 .. Len(list) /\ \A i \in 1 .. Len(list) : old[i] = Key(list[i])
  BY <1>1 DEF Keys
<1>8. /\ DOMAIN new = 1 .. Len(list) + 1 /\ new = [i \in 1 .. Len(list) + 1 |-> new[i]]
      /\ \A i \in 1 .. Len(list) + 1 : new[i] = Key(more[i])
  BY <1>1 DEF Keys
<1>9. old = a \o f
  BY <1>b DEF f
<1> HIDE DEF old, more, new
<1> DEFINE l == Len(list)
           la == Len(a)
           af == a \o f
           ag == a \o g
<1>10. l \in Nat /\ la \in Nat /\ 1 .. l = 1 .. la + before
  BY <1>1, <1>2, <1>5, <1>7, <1>9
<1> HIDE DEF l, la, af, ag
<1>11. l = la + before
  <2>1. ASSUME NEW x \in Nat, NEW y \in Nat, 1 .. x = 1 .. y PROVE x =< y
    <3>1. CASE x = 0
      BY <3>1
    <3>2. CASE x # 0
      <4>1. x \in 1 .. y
        BY <2>1, <3>2
      <4> QED
        BY <4>1
    <3> QED
      BY <3>1, <3>2
  <2>2. la + before \in Nat
    BY <1>2, <1>10
  <2>3. l =< la + before /\ la + before =< l
    BY <1>10, <2>1, <2>2
  <2> QED
    BY <1>10, <2>2, <2>3
<1>12. la + n = l + 1
  <2>1. n = before + 1 /\ la \in Nat /\ before \in Nat /\ n \in Nat /\ l \in Nat
    BY <1>2, <1>10
  <2>2. l = la + before
    BY <1>11
  <2>3. la + (before + 1) = (la + before) + 1
    BY <2>1
  <2> QED
    BY <2>1, <2>2, <2>3, Zenon
<1>13. ASSUME NEW i \in 1 .. l + 1 PROVE new[i] = ag[i]
  <2>1. CASE i = l + 1
    <3>1. new[i] = Key(summary)
      BY <1>1, <1>8, <2>1, <1>10 DEF l, more
    <3>2. ag[i] = g[i - la] /\ i - la = n /\ n \in 1 .. n
      BY <1>2, <1>6, <1>10, <1>12, <2>1 DEF ag, la
    <3> QED
      BY <1>c, <1>4, <3>1, <3>2
  <2>2. CASE i # l + 1
    <3>1. i \in 1 .. l
      BY <1>10, <2>2
    <3>2. new[i] = old[i]
      BY <1>1, <1>7, <1>8, <3>1, <1>10 DEF l, more
    <3>3. old[i] = IF i =< la THEN a[i] ELSE f[i - la]
      BY <1>5, <1>9, <1>11, <3>1 DEF la
    <3>4. ag[i] = IF i =< la THEN a[i] ELSE g[i - la]
      BY <1>6, <1>12 DEF ag, la
    <3>5. ~ (i =< la) => i - la \in 1 .. before /\ i - la \in 1 .. n
      BY <1>2, <1>10, <1>11, <3>1
    <3>6. ~ (i =< la) => f[i - la] = g[i - la]
      BY <1>3, <1>4, <3>5
    <3> QED
      BY <3>2, <3>3, <3>4, <3>6
  <2> QED
    BY <2>1, <2>2
<1>14. new = [i \in 1 .. l + 1 |-> new[i]] /\ ag = [i \in 1 .. l + 1 |-> ag[i]]
  BY <1>6, <1>8, <1>12 DEF l, la, ag
<1>15. new = ag
  BY <1>13, <1>14
<1> QED
  BY <1>15 DEF new, more, ag, g, Joined

\* A point is measured.
LEMMA Measures ==
    ASSUME WInv, Measured
    PROVE  WInv'
<1>1. /\ pc = "drive" /\ leg = "measure" /\ sent = Target /\ flying = 0
      /\ results' = Append(results, Summary)
      /\ IF point < Len(Here.points) THEN pc' = "point" /\ point' = point + 1
                                     ELSE pc' = "stop" /\ point' = point
      /\ StartLeg("warmup")
      /\ program' = program /\ UNCHANGED <<phase, failed, file>>
  BY DEF Measured, command
<1>2. Balanced'
  BY <1>1, Emptied
<1>3. /\ Planned' = Planned /\ Phases' = Phases
      /\ Covered' = Reached(Sections, pc', phase', point')
  BY <1>1, PlanStays
<1>4. Here' = Here
  BY <1>1, <1>3 DEF Here
<1> DEFINE list == Here.points
<1>5. list = Phases[phase].points /\ phase \in DOMAIN Phases /\ point \in DOMAIN list
  BY DEF WInv, Placed, Here
<1>6. list \in Seq(Points) /\ Sections[phase] = list /\ phase \in 1 .. Len(Phases)
      /\ Len(Phases) \in Nat
  BY <1>5, ProgramIsWhole DEF WInv, Sections
<1> HIDE DEF list
<1>7. Len(list) \in Nat /\ point \in 1 .. Len(list)
  BY <1>5, <1>6, LenProperties
<1>8. Placed'
  <2>1. CASE point < Len(list)
    <3>1. pc' = "point" /\ point' = point + 1
      BY <1>1, <2>1 DEF list
    <3>2. point' \in DOMAIN list
      BY <1>6, <1>7, <2>1, <3>1, LenProperties
    <3> QED
      BY <1>1, <1>3, <1>4, <1>5, <3>1, <3>2 DEF Placed, list
  <2>2. CASE ~ (point < Len(list))
    <3>1. pc' = "stop" /\ point' = point
      BY <1>1, <2>2 DEF list
    <3> QED
      BY <1>1, <1>3, <1>4, <1>5, <3>1 DEF Placed, list
  <2> QED
    BY <2>1, <2>2
<1>9. PointWhole(Summary) /\ Key(Summary) = list[point]
  <2>1. sent = Requests
    BY <1>1 DEF Target
  <2>2. PointWhole(Summary) /\ Key(Summary) = Key(Point)
    BY <1>1, <2>1, SummaryIsWhole DEF WInv
  <2>3. Point = list[point] /\ list[point] \in Points
    BY <1>6, <1>7, ElementOfSeq DEF Point, list
  <2>4. \A q \in Points : Key(q) = q
    BY DEF Points, Key
  <2> QED
    BY <2>2, <2>3, <2>4
<1> DEFINE summary == Summary
<1> HIDE DEF summary
<1>10. results' = Append(results, summary) /\ PointWhole(summary) /\ Key(summary) = list[point]
  BY <1>1, <1>9 DEF summary
<1>11. PICK T : results \in Seq(T)
  BY DEF WInv, AllWhole
<1>12. AllWhole(results')
  <2>1. /\ \E S : results' \in Seq(S)
        /\ Len(results) \in Nat /\ DOMAIN results = 1 .. Len(results)
        /\ DOMAIN results' = 1 .. Len(results) + 1
        /\ \A i \in 1 .. Len(results) + 1 :
              results'[i] = IF i = Len(results) + 1 THEN summary ELSE results[i]
    BY <1>10, <1>11, OneMore
  <2>2. \A i \in 1 .. Len(results) + 1 : PointWhole(results'[i])
    <3> SUFFICES ASSUME NEW i \in 1 .. Len(results) + 1 PROVE PointWhole(results'[i])
      OBVIOUS
    <3>1. CASE i = Len(results) + 1
      <4>1. results'[i] = summary
        BY <2>1, <3>1
      <4> QED
        BY <1>10, <4>1
    <3>2. CASE i # Len(results) + 1
      <4>1. results'[i] = results[i] /\ i \in DOMAIN results
        BY <2>1, <3>2
      <4>2. PointWhole(results[i])
        BY <4>1 DEF WInv, AllWhole
      <4> QED
        BY <4>1, <4>2
    <3> QED
      BY <3>1, <3>2
  <2> QED
    BY <2>1, <2>2 DEF AllWhole
<1>13. ~ failed /\ failed' = failed
  BY <1>1 DEF WInv, Ordered
<1> DEFINE a == UpTo(phase - 1)
<1>14. a \in Seq(Points) /\ UpTo(phase) = a \o list
  <2>1. phase - 1 \in 0 .. Len(Phases)
    BY <1>6
  <2> QED
    BY <1>5, <1>6, <2>1, UpToGrows DEF WInv
<1>15. Keys(results) = a \o First(list, point - 1)
  <2>1. Keys(results) = Reached(Sections, "drive", phase, point)
    BY <1>1, <1>13 DEF WInv, Ordered, Covered
  <2>2. Reached(Sections, "drive", phase, point)
        = FlattenSeq(First(Sections, phase - 1)) \o First(Sections[phase], point - 1)
    BY Zenon DEF Reached
  <2> QED
    BY <1>6, <2>1, <2>2, Zenon DEF UpTo
<1> HIDE DEF a
<1>16. Keys(results') = a \o First(list, point)
  <2>1. point - 1 \in Nat /\ point = (point - 1) + 1
    BY <1>7
  <2>2. \E before \in Nat : point = before + 1 /\ Keys(results) = a \o First(list, before)
    BY <1>15, <2>1
  <2>3. Adds(results, summary, a, list, point)
    BY <1>5, <1>6, <1>10, <1>11, <1>14, <2>2 DEF Adds
  <2>4. Keys(Append(results, summary)) = Joined(a, First(list, point))
    BY <2>3, OneMoreKey
  <2> QED
    BY <1>10, <2>4 DEF Joined
<1>17. Covered' = a \o First(list, point)
  <2>1. CASE point < Len(list)
    <3>1. pc' = "point" /\ point' = point + 1 /\ phase' = phase
      BY <1>1, <2>1 DEF list
    <3>2. Reached(Sections, "point", phase, point')
          = FlattenSeq(First(Sections, phase - 1)) \o First(Sections[phase], point' - 1)
      BY Zenon DEF Reached
    <3>3. point' - 1 = point
      BY <1>7, <3>1
    <3> QED
      BY <1>3, <1>6, <3>1, <3>2, <3>3 DEF UpTo, a
  <2>2. CASE ~ (point < Len(list))
    <3>1. pc' = "stop" /\ phase' = phase /\ point = Len(list)
      BY <1>1, <1>7, <2>2 DEF list
    <3>2. First(list, point) = list
      BY <1>6, <3>1 DEF First
    <3>3. Covered' = UpTo(phase)
      BY <1>3, <3>1, ReachedIs
    <3> QED
      BY <1>14, <3>2, <3>3
  <2> QED
    BY <2>1, <2>2
<1>18. Ordered'
  <2>1. Keys(results)' = Covered'
    BY <1>16, <1>17 DEF Keys, Key
  <2>2. file' = <<>> \/ Keys(file)' = Planned'
    BY <1>1, <1>3 DEF WInv, Ordered, Keys, Key
  <2> QED
    BY <1>13, <2>1, <2>2 DEF Ordered
<1>19. AllWhole(results)' /\ AllWhole(file)'
  BY <1>1, <1>12 DEF WInv, AllWhole, PointWhole
<1> QED
  BY <1>1, <1>2, <1>8, <1>18, <1>19 DEF WInv

\* Every step keeps the points whole and in order.
LEMMA NextWInv ==
    ASSUME WInv, [Next]_vars
    PROVE  WInv'
<1>1. CASE Refuse \/ Kill \/ (\E port \in Ports : StopStalls(port))
  <2>1. Leave /\ program' = program /\ file' = file
    BY <1>1 DEF Refuse, Kill, StopStalls, command
  <2> QED
    BY <2>1, Ends
<1>2. CASE StartSweep \/ Spawn \/ Waited \/ (\E p \in starting : Bind(p))
           \/ (\E port \in Ports : KillStale(port) \/ StopOne(port)) \/ UNCHANGED vars
  <2>1. /\ UNCHANGED <<program, phase, point, failed, results, file>>
        /\ UNCHANGED <<samples, sent, flying>>
        /\ \/ pc' = pc
           \/ {pc, pc'} \cap {"off", "stop"} = {} /\ pc' \notin {"check", "spawn"}
           \/ pc = "off" /\ pc' = "check"
    BY <1>2 DEF StartSweep, Spawn, Waited, Bind, KillStale, StopOne, command, driver, vars
  <2>2. Balanced'
    BY <2>1 DEF WInv, Balanced, CountOf, MapThenSumSet, MapThenFoldSet
  <2> QED
    BY <2>1, <2>2, InPlace
<1>3. CASE Drive \/ WarmedUp
  <2>1. /\ UNCHANGED <<program, phase, point, failed, results, file>>
        /\ \E kind : StartLeg(kind)
        /\ pc' = pc \/ (pc = "point" /\ pc' = "drive")
    BY <1>3 DEF Drive, WarmedUp, command
  <2> QED
    BY <2>1, Emptied, InPlace
<1>4. CASE Send
  <2>1. /\ UNCHANGED <<program, pc, phase, point, failed, results, file, samples>>
        /\ sent' = sent + 1 /\ flying' = flying + 1
    BY <1>4 DEF Send, command
  <2>2. CountOf(Answers)' = CountOf(Answers)
    BY <2>1 DEF CountOf, MapThenSumSet, MapThenFoldSet
  <2>3. CountOf(Answers) \in Nat
    <3>1. \A k \in Answers : samples[k] \in Nat
      BY DEF WInv, Balanced
    <3>2. CountOf(Answers) = Total(samples, Answers)
      BY CountsAreTotals
    <3> QED
      BY <3>1, <3>2, FewAnswers, TotalIsNat
  <2>4. Balanced'
    BY <2>1, <2>2, <2>3 DEF WInv, Balanced
  <2> QED
    BY <2>1, <2>4, InPlace
<1>5. ASSUME NEW answer \in Answers, Answer(answer) PROVE WInv'
  <2>1. UNCHANGED <<program, pc, phase, point, failed, results, file>>
    BY <1>5 DEF Answer, command
  <2>2. Balanced'
    BY <1>5, Landed DEF WInv
  <2> QED
    BY <2>1, <2>2, InPlace
<1>6. CASE WaitFails
  <2>1. /\ UNCHANGED <<program, phase, point, results, file, samples, sent, flying>>
        /\ pc' = "stop" /\ failed' = TRUE
    BY <1>6 DEF WaitFails, command, driver
  <2>2. Balanced'
    BY <2>1 DEF WInv, Balanced, CountOf, MapThenSumSet, MapThenFoldSet
  <2> QED
    BY <2>1, <2>2, Fails
<1>7. CASE DriverFails
  <2>1. /\ UNCHANGED <<program, phase, point, results, file>> /\ StartLeg("warmup")
        /\ pc' = "stop" /\ failed' = TRUE
    BY <1>7 DEF DriverFails, command
  <2> QED
    BY <2>1, Emptied, Fails
<1> QED
  BY <1>1, <1>2, <1>3, <1>4, <1>5, <1>6, <1>7, Measures, Continues, Finishes DEF Next

\* Before the first sweep nothing is measured.
LEMMA WholeAtFirst ==
    ASSUME Init
    PROVE  WInv
<1>1. /\ program \in {Scenarios, RealSample} /\ pc = "off" /\ phase = 1 /\ point = 1
      /\ sent = 0 /\ flying = 0 /\ samples = NoSamples /\ failed = FALSE /\ results = <<>> /\ file = <<>>
  BY DEF Init
<1>2. Balanced
  <2>1. samples \in [Answers -> Nat] /\ \A answer \in Answers : samples[answer] = 0
    BY <1>1 DEF NoSamples
  <2>2. CountOf(Answers) = 0
    BY <2>1, FewAnswers, TotalOfZeros, CountsAreTotals
  <2> QED
    BY <1>1, <2>1, <2>2 DEF Balanced
<1>3. /\ 1 \in DOMAIN Phases /\ 1 \in DOMAIN Phases[1].points
      /\ UpTo(0) \o First(Phases[1].points, 0) = <<>>
  BY <1>1, AtFirst
<1>4. Placed
  BY <1>1, <1>3 DEF Placed, Here
<1>5. Covered = <<>>
  <2>1. Covered = Reached(Sections, "off", 1, 1)
    BY <1>1 DEF Covered
  <2>2. 1 - 1 = 0 /\ Sections[1] = Phases[1].points
    BY <1>3 DEF Sections
  <2>3. Reached(Sections, "off", 1, 1) = FlattenSeq(First(Sections, 1 - 1)) \o First(Sections[1], 1 - 1)
    BY Zenon DEF Reached
  <2>4. Reached(Sections, "off", 1, 1) = UpTo(0) \o First(Phases[1].points, 0)
    BY <2>2, <2>3, Zenon DEF UpTo
  <2> QED
    BY <1>3, <2>1, <2>4
<1>6. Ordered
  BY <1>1, <1>5, NothingIsWhole DEF Ordered
<1> QED
  BY <1>1, <1>2, <1>4, <1>6, NothingIsWhole DEF WInv

\* The file holds every point of the program, whole, or nothing.
LEMMA WholeIsWhole ==
    ASSUME WInv, FewRequests
    PROVE  PointsAreWhole
<1>1. \A i \in DOMAIN results : results[i].n = Requests
  BY DEF WInv, AllWhole, PointWhole
<1>2. ASSUME file # <<>> PROVE Len(file) = Len(Planned) /\ DOMAIN file = DOMAIN Planned
                              /\ \A i \in DOMAIN file : Planned[i] = Key(file[i])
  <2>1. Keys(file) = Planned
    BY <1>2 DEF WInv, Ordered
  <2>2. PICK S : file \in Seq(S)
    BY DEF WInv, AllWhole
  <2>3. DOMAIN file = 1 .. Len(file) /\ Len(file) \in Nat
    BY <2>2, LenProperties
  <2>4. DOMAIN Keys(file) = DOMAIN file /\ \A i \in DOMAIN file : Keys(file)[i] = Key(file[i])
    BY DEF Keys
  <2>5. Len(Keys(file)) = Len(file)
    <3> DEFINE keys == Keys(file)
    <3>1. DOMAIN keys = 1 .. Len(file) /\ keys = [i \in 1 .. Len(file) |-> keys[i]]
      BY <2>3 DEF Keys
    <3> HIDE DEF keys
    <3> QED
      BY <2>3, <3>1 DEF keys
  <2> QED
    BY <2>1, <2>3, <2>4, <2>5
<1>3. \A i \in DOMAIN file : /\ Planned[i].name = file[i].name /\ Planned[i].judge = file[i].judge
                            /\ Planned[i].concurrency = file[i].concurrency
  <2>1. CASE file = <<>>
    <3>1. DOMAIN file = {}
      BY <2>1
    <3> QED
      BY <3>1
  <2>2. CASE file # <<>>
    BY <1>2, <2>2 DEF Key
  <2> QED
    BY <2>1, <2>2
<1>4. ASSUME NEW i \in DOMAIN file, Problems(file) = {}, file[i].name \notin ExpectErrors
      PROVE  file[i].ok = Requests
  <2>1. ~ (file[i].errors > 0)
    BY <1>4 DEF Problems
  <2>2. PointWhole(file[i])
    BY DEF WInv, AllWhole
  <2> QED
    BY <2>1, <2>2, NoErrorsNoneLost
<1> QED
  BY <1>1, <1>2, <1>3, <1>4 DEF PointsAreWhole

\* Whatever loads and phases a program has, however its sweeps fail or are killed, what it keeps
\* of a point has a sample to a request, the file holds every point of the program in order or
\* nothing, and without a problem in the file no request was lost where none was to be lost
\* (closed_loop, summarise, main, check_invariants).
THEOREM PointsStayWhole == ASSUME FewRequests PROVE Spec => []PointsAreWhole
<1>1. WInv => PointsAreWhole
  BY WholeIsWhole
<1> QED
  BY <1>1, WholeAtFirst, NextWInv, PTL DEF Spec
=============================================================================
