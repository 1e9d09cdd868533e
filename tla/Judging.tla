------------------------------- MODULE Judging --------------------------------
(* What stands in the verdicts of a run, and what the tables make of them: the *)
(* commands of a script one after another, each with a judge and a set, over   *)
(* one verdicts.jsonl.  How a command starts, stops and dies is in JudgeRun.   *)
EXTENDS Analysis

CONSTANTS
    Catalogue,  \* the trajectories: their labels, with the instance of each
    Scripts,    \* commands in a row, and what the calls they make may come to
    Violations, \* where the rules may find a trajectory faulty first, and of which type
    Flips,      \* what the stand-in may do to a verdict, where in hundredths of the trajectory
    K           \* the calls of a vote

\* A command line: the judge, the size of the set to build or the set of --source, and what
\* else shapes the set or its order.
Command == [judge : Judges, n : Nat, source : SUBSET DOMAIN Catalogue, parents : BOOLEAN,
            first : Seq(FailureTypes), subset : Nat]

ASSUME CatalogueAssumption ==
    \A t \in DOMAIN Catalogue : t \in Nat \X DOMAIN KindPlace /\ Catalogue[t] \in Label
\* A trajectory is of its instance, a fault that was put in has its type, and only what is faulty
\* has one.
ASSUME LabelsAssumption ==
    \A t \in DOMAIN Catalogue :
        /\ Catalogue[t].instance = t[1]
        /\ t[2] \in FailureTypes => Catalogue[t].faulty /\ Catalogue[t].type = t[2]
        /\ t[2] = "clean" => ~ Catalogue[t].faulty
        /\ Catalogue[t].type # "none" => Catalogue[t].faulty
ASSUME ScriptsAssumption ==
    \A s \in Scripts : s.commands \in Seq(Command) \ {<<>>} /\ s.replies \subseteq Reply
ASSUME ViolationsAssumption == Violations \subseteq Nat \X FailureTypes
ASSUME FlipsAssumption ==
    Flips \subseteq [flip : BOOLEAN, where : 0 .. 99, type : FailureTypes, confidence : 50 .. 99]
ASSUME VoteAssumption == K \in Nat \ {0}

VARIABLES
    script,
    at,      \* the command that runs
    listed,  \* trajectories.jsonl
    todo,    \* the trajectories left to it, with their turns
    votes,   \* the answers to the calls made for the first of them
    said,    \* how many of these were objects that said faulty
    rows     \* verdicts.jsonl; told is said, as it was

vars == <<script, at, listed, todo, votes, said, rows>>

Now == script.commands[at]
judge == Now.judge

\* The set of a command, the file it reads or the one it builds.
SetOf(command) ==
    LET built == BuildDataset(command.n)
    IN  IF command.n = 0 THEN command.source
        ELSE IF command.parents THEN built \cup MissingParents(built) ELSE built

\* What a command reads or builds is in the catalogue, and a file it reads ends.
ASSUME SetsAssumption ==
    \A s \in Scripts : \A k \in DOMAIN s.commands :
        SetOf(s.commands[k]) \subseteq DOMAIN Catalogue /\ IsFiniteSet(s.commands[k].source)

\* judged_keys, and the pending targets of run.
Pending(command) ==
    LET order   == JudgingOrder(Catalogue, SetOf(command), command.first)
        Ahead(entry) == {other \in order : Precedes(other, entry)}
        targets == IF command.judge = "selfcons"
                   THEN {entry \in order : Cardinality(Ahead(entry)) < command.subset} ELSE order
        Judged(t) == \E i \in DOMAIN rows : rows[i].id = t /\ rows[i].judge = command.judge
    IN  {entry \in targets : ~ Judged(entry[2])}

Foremost == CHOOSE entry \in todo : \A other \in todo \ {entry} : Precedes(entry, other)
Target == Foremost[2]

Calls == IF judge = "selfcons" THEN K ELSE 1

Init ==
    /\ script \in Scripts
    /\ at = 1 /\ listed = SetOf(script.commands[1])
    /\ votes = <<>> /\ said = 0 /\ rows = <<>>
    /\ todo = Pending(script.commands[1])

Record(verdict) ==
    /\ rows' = IF CallFailed(verdict) THEN rows
               ELSE Append(rows, [id |-> Target, judge |-> judge, verdict |-> verdict, told |-> said])
    /\ todo' = todo \ {Foremost}
    /\ votes' = <<>> /\ said' = 0
    /\ UNCHANGED <<script, at, listed>>

\* A call of an LLM judge, or of a member of the vote.
Ask(reply) ==
    /\ todo # {} /\ judge \in LlmJudges
    /\ Len(votes) < Calls /\ reply.outcome # "raises"
    /\ votes' = Append(votes, Coerced(judge, Catalogue[Target].n, reply))
    /\ said' = said + (IF reply.outcome = "object" /\ reply.faulty THEN 1 ELSE 0)
    /\ UNCHANGED <<script, at, listed, todo, rows>>

\* The calls made come to a verdict.
Conclude ==
    /\ todo # {} /\ judge \in LlmJudges /\ Len(votes) = Calls
    /\ Record(IF judge = "selfcons" THEN Vote(votes) ELSE votes[1])

\* ProgrammaticJudge.judge
RuleVerdicts(n) ==
    {[faulty |-> FALSE, step |-> None, type |-> "none", confidence |-> 60, error |-> "none"]} \cup
    {[faulty |-> TRUE, step |-> v[1], type |-> v[2], confidence |-> 95, error |-> "none"]
        : v \in {w \in Violations : w[1] < n}}

Check ==
    /\ todo # {} /\ judge = "programmatic"
    /\ \E verdict \in RuleVerdicts(Catalogue[Target].n) : Record(verdict)

Stand ==
    /\ todo # {} /\ judge = "mock"
    /\ LET n == Catalogue[Target].n
       IN  \E verdict \in RuleVerdicts(n), f \in Flips :
               Record(Mock(verdict, f.flip, (f.where * n) \div 100, f.type, f.confidence))

\* The next command starts when this one has ended: with nothing left to judge, or because a
\* call raised.  Its set takes the place of the one on file.
NextCommand ==
    /\ at < Len(script.commands)
    /\ at' = at + 1
    /\ listed' = SetOf(script.commands[at + 1])
    /\ todo' = Pending(script.commands[at + 1])
    /\ votes' = <<>> /\ said' = 0
    /\ UNCHANGED <<script, rows>>

Ends == todo = {} /\ NextCommand

Raises ==
    /\ todo # {} /\ judge \in LlmJudges /\ Len(votes) < Calls
    /\ \E reply \in script.replies : reply.outcome = "raises"
    /\ NextCommand

Next ==
    \/ \E reply \in script.replies : Ask(reply)
    \/ Conclude
    \/ Check
    \/ Stand
    \/ Ends
    \/ Raises

Spec == Init /\ [][Next]_vars
-----------------------------------------------------------------------------
(* Properties of the verdicts *)

\* A verdict says nothing that does not go together, whatever a model answers: a clean one
\* names neither type nor step, a step is one the judge was shown, and the confidence is that
\* of a call that is at least as good as a coin, which is what the calibration tables expect
\* (judge_with_response, SelfConsistencyJudge.judge, check).
VerdictsAreWhole ==
    \A i \in DOMAIN rows :
        LET v == rows[i].verdict IN
        /\ v \in Verdict
        /\ ~ v.faulty => v.type = "none" /\ v.step = None
        /\ v.step # None => v.step < Catalogue[rows[i].id].n
                            /\ (rows[i].judge \in LlmJudges => Localises(rows[i].judge))
        /\ v.confidence >= 50
        /\ v.error # "failed"

\* An LLM judge flags a trajectory when, and only when, more than half of all the calls it made
\* came back and said faulty: a call that failed, or an answer that is no verdict, is a vote for
\* clean (self_consistency.py, "a conservative default").
FlagNeedsMajority ==
    \A i \in DOMAIN rows : rows[i].judge \in LlmJudges =>
        (rows[i].verdict.faulty <=> 2 * rows[i].told > (IF rows[i].judge = "selfcons" THEN K ELSE 1))

-----------------------------------------------------------------------------
(* Properties of the tables *)

Sum(f) == MapThenSumSet(LAMBDA k : f[k], DOMAIN f)

\* The tables of the report hang together at every moment, whatever was judged under whatever
\* set: each trajectory on file counts once for a judge, is clean, silent or loud, and is caught
\* or not; every fault of the type table is in the confusion matrix once; the bins hold all
\* (score, type_confusion, agent_table).
TablesAddUp ==
    votes = <<>> =>
        /\ LET table == Report(Catalogue, listed, rows) IN
           /\ \A p, q \in DOMAIN table : p # q => table[p].judge # table[q].judge
           /\ \A p \in DOMAIN table : table[p].judge = "programmatic" => p = 1
           /\ \A p \in DOMAIN table :
                LET s == table[p].scores
                    c == table[p].confusion
                    k == table[p].perType
                    types == Sum([type \in FailureTypes |-> k[type].of])
                IN  /\ s.n =< Cardinality(listed)
                    /\ s.silent + s.loud + s.clean = s.n
                    /\ s.silentCaught + s.loudCaught = s.truePositive
                    /\ s.truePositive + s.falseNegative = s.silent + s.loud
                    /\ s.falsePositive =< s.clean
                    /\ s.stepExact =< s.stepWithinOne /\ s.stepWithinOne =< s.stepScored
                    /\ s.stepScored =< s.truePositive
                    /\ types =< s.silent + s.loud
                    /\ \A type \in FailureTypes :
                        /\ Sum(c[type]) = k[type].of
                        /\ Sum(c[type]) - c[type]["missed"] =< k[type].caught
                    /\ Sum([bin \in 0 .. 9 |-> table[p].bins[bin].of]) = s.n
                    /\ Sum([bin \in 0 .. 9 |-> table[p].bins[bin].right])
                        = s.n - s.falsePositive - s.falseNegative
                    /\ table[p].curve = {bin \in 0 .. 9 : table[p].bins[bin].of > 0}
        /\ LET agents == AgentTable(Catalogue, listed)
           IN  /\ agents.flagged = agents.silent + Cardinality({t \in listed : Loud(Catalogue[t])})
               /\ Sum(agents.types) =< agents.flagged

Told(j) == [t \in listed |-> rows[CHOOSE i \in DOMAIN rows : rows[i].id = t /\ rows[i].judge = j].told]

\* What the set of a run is built for: for every size asked for, each type has its quota, the
\* rarest too; with --with-parents each fault has its clean run; the set is no larger than
\* asked for once that is ten or more; and when a judge has judged all of it, the type table
\* has the quota in each row and only the faults that lack their clean run stay unpaired
\* (build_dataset: "a quarter clean, the rest split evenly across the six failure types").
SetIsBalanced ==
    LET quota == TypeQuota(Now.n)
        Of(kind) == {t \in listed : t[2] = kind}
        label == [t \in listed |-> Catalogue[t]]
    IN  Now.n > 0 =>
        /\ \A fault \in FailureTypes : Cardinality(Of(fault)) = quota
        /\ Now.parents => \A t \in Faulty(listed) : <<t[1], "clean">> \in listed
        /\ ~ Now.parents => /\ Cardinality(Of("clean")) = CleanQuota(Now.n)
                            /\ Now.n >= 10 => Cardinality(listed) \in Now.n - 5 .. Now.n
        /\ {t[1] : t \in listed} \subseteq InstancesFor(listed)
        /\ listed \subseteq DOMAIN Held(rows, judge) =>
            /\ \A fault \in FailureTypes :
                PerType(Catalogue, listed, RowsOf(rows, judge))[fault].of = quota
            /\ Design(label).lateParents = Cardinality(MissingParents(listed))

\* The paper's scripts and the report read the same out of a file in which a judge has judged
\* the whole set, and its pairs add up to its flags: "the script aborts if any disagrees"
\* (bootstrap_ci.py).
ReadersAgree ==
    votes = <<>> =>
        \A p \in DOMAIN Report(Catalogue, listed, rows) :
            LET row     == Report(Catalogue, listed, rows)[p]
                held    == Held(rows, row.judge)
                label   == [t \in listed |-> Catalogue[t]]
                counts  == Metrics(label, held)
                types   == TypeCounts(label, held)
                located == Located(label, held)
                pairs   == PairedTable(label, held)
                design  == Design(label)
                whole   == TrajectoryMetrics(label, held)
                flags   == CellFlags(label, held)
                scenes  == ByScenario(label, held)
            IN  listed \subseteq DOMAIN held =>
                /\ \A f \in DOMAIN counts : counts[f] = row.scores[f]
                /\ BinCounts(label, held) = row.bins
                /\ \A type \in FailureTypes :
                    /\ types[type].hit = row.confusion[type][type]
                    /\ types[type].hit + types[type].missed = row.perType[type].of
                    /\ types[type].caught = row.perType[type].caught
                    /\ types[type].caught = FlagsByType(label, held)[type]
                /\ located.detected = row.scores.truePositive
                /\ located.exact = row.scores.stepExact
                /\ located.valid + located.invalid = located.detected
                /\ whole.detected = located.detected /\ whole.exact = located.exact
                /\ whole.typed + located.mistyped = whole.detected
                /\ whole.keptExact =< whole.keptFound /\ whole.kept - whole.keptFound =< row.scores.falseNegative
                /\ CleanFlags(label, held) = row.scores.falsePositive
                /\ whole.alarms = row.scores.falsePositive
                /\ flags["loud"] = row.scores.loudCaught /\ flags["silent"] = row.scores.silentCaught
                /\ flags["reply_same_kept"] + flags["reply_same_broke"] = flags["reply_same"]
                /\ Sum([scene \in DOMAIN scenes |-> scenes[scene].cleanFlagged]) = row.scores.falsePositive
                /\ Sum([scene \in DOMAIN scenes |-> scenes[scene].sameFlagged]) = flags["reply_same"]
                /\ Sum([scene \in DOMAIN scenes |-> scenes[scene].same]) = design.within["reply_same"]
                /\ \A t \in listed : Stratum(label[t].instance) = DifficultyOf(t[1])
                /\ \A cell \in CellNames :
                    pairs[cell].b10 - pairs[cell].b01
                        = Cardinality({q \in Pairs(label) : InCell(label[q[1]], cell) /\ held[q[1]].faulty})
                          - Cardinality({q \in Pairs(label) : InCell(label[q[1]], cell) /\ held[q[2]].faulty})
                /\ \A cell \in CellNames :
                    pairs[cell].b10 =< flags[cell] /\ pairs[cell].n =< design.within[cell]
                /\ \A type \in FailureTypes : flags[type] = types[type].caught
                /\ pairs["loud"].n + pairs["silent"].n = design.pairs
                /\ pairs["reply_same"].n + pairs["reply_changed"].n = design.pairs
                /\ design.latePairs >= design.lateParents
                /\ row.judge = "selfcons" => AnyVote(label, Told(row.judge)).sens >= located.detected
=============================================================================
