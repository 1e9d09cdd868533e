------------------------------- MODULE Scores --------------------------------
(* The report (metrics.py, report.py) as counts: each rate it prints is a      *)
(* quotient of two of them.  label gives the label of each trajectory, listed  *)
(* holds those of the set on file, rows the verdicts, here those of one judge. *)
EXTENDS Verdicts

\* A label with the instance of its trajectory and the number of its steps, of which even an
\* answer that is no action leaves one.
Label == [faulty : BOOLEAN, step : Nat \cup {None}, type : FailureTypes \cup {"none"},
          correct : BOOLEAN, instance : Nat, n : Nat \ {0}]

Silent(l) == l.faulty /\ l.correct
Loud(l) == l.faulty /\ ~ l.correct

\* Plausible bug: verdicts of trajectories that are no longer on file count.
EveryRow(listed, rows) == DOMAIN rows

\* _pair: a verdict counts when its trajectory is on file.
Paired(listed, rows) == {i \in DOMAIN rows : rows[i].id \in listed}

\* score
Scores(label, listed, rows) ==
    LET pairs     == Paired(listed, rows)
        L(i)      == label[rows[i].id]
        V(i)      == rows[i].verdict
        flagged   == {i \in pairs : V(i).faulty}
        faulty    == {i \in pairs : L(i).faulty}
        silent    == {i \in pairs : Silent(L(i))}
        loud      == {i \in pairs : Loud(L(i))}
        localised == {i \in flagged \cap faulty : L(i).step # None /\ V(i).step # None}
    IN  [ n             |-> Cardinality(pairs),
          truePositive  |-> Cardinality(flagged \cap faulty),
          falsePositive |-> Cardinality(flagged \ faulty),
          falseNegative |-> Cardinality(faulty \ flagged),
          silent        |-> Cardinality(silent),
          silentCaught  |-> Cardinality(silent \cap flagged),
          loud          |-> Cardinality(loud),
          loudCaught    |-> Cardinality(loud \cap flagged),
          clean         |-> Cardinality(pairs \ faulty),
          stepScored    |-> Cardinality(localised),
          stepExact     |-> Cardinality({i \in localised : V(i).step = L(i).step}),
          stepWithinOne |-> Cardinality({i \in localised : V(i).step - L(i).step \in -1 .. 1}),
          errors        |-> Cardinality({i \in pairs : V(i).error # "none"}) ]

\* type_confusion: a fault that was flagged without a type is missed like one not flagged.
Confusion(label, listed, rows) ==
    [ true \in FailureTypes |-> [ predicted \in FailureTypes \cup {"missed"} |->
        Cardinality({i \in Paired(listed, rows) :
            /\ label[rows[i].id].faulty /\ label[rows[i].id].type = true
            /\ predicted = IF rows[i].verdict.faulty /\ rows[i].verdict.type # "none"
                           THEN rows[i].verdict.type ELSE "missed"}) ] ]

\* per_type_recall: of how many, and how many were caught.
PerType(label, listed, rows) ==
    [ type \in FailureTypes |->
        LET hosts == {i \in Paired(listed, rows) : label[rows[i].id].type = type}
        IN  [of     |-> Cardinality(hosts),
             caught |-> Cardinality({i \in hosts : rows[i].verdict.faulty})] ]

Right(label, row) == label[row.id].faulty = row.verdict.faulty

\* The bins of expected_calibration_error: how many, and how many of them right.
Bins(label, listed, rows) ==
    [ bin \in 0 .. 9 |->
        LET members == {i \in Paired(listed, rows) :
                LET c == rows[i].verdict.confidence
                IN  (10 * bin < c /\ c =< 10 * (bin + 1)) \/ (bin = 0 /\ c = 0)}
        IN  [of    |-> Cardinality(members),
             right |-> Cardinality({i \in members : Right(label, rows[i])})] ]

\* reliability_curve, as _figures calls it: the populated bins; nothing is drawn for a
\* confidence of 0.
Curve(label, listed, rows) ==
    {bin \in 0 .. 9 : \E i \in Paired(listed, rows) :
        10 * bin < rows[i].verdict.confidence /\ rows[i].verdict.confidence =< 10 * (bin + 1)}

-----------------------------------------------------------------------------
(* Over the judges *)

\* score_all: the verdicts by judge, each at its place among all.
RowsOf(rows, judge) == [i \in {k \in DOMAIN rows : rows[k].judge = judge} |-> rows[i]]

\* _judge_order: the rule engine first, the others as they first appear.
JudgeOrder(rows) ==
    LET judges   == {rows[i].judge : i \in DOMAIN rows}
        Seen(j)  == CHOOSE i \in DOMAIN rows :
                        rows[i].judge = j /\ \A h \in 1 .. i - 1 : rows[h].judge # j
        Before(j, h) == h # "programmatic" /\ (j = "programmatic" \/ Seen(j) < Seen(h))
    IN  [ place \in 1 .. Cardinality(judges) |->
            CHOOSE h \in judges : Cardinality({j \in judges \ {h} : Before(j, h)}) = place - 1 ]

\* summary_table: a judge that localised nothing gets no step column, whatever it is.
StepColumn(scores) ==
    IF scores.stepScored = 0 THEN <<>> ELSE <<scores.stepExact, scores.stepScored>>

\* build: one row of each table to a judge.
Report(label, listed, rows) ==
    [ place \in DOMAIN JudgeOrder(rows) |->
        LET judge == JudgeOrder(rows)[place]
            own   == RowsOf(rows, judge)
            s     == Scores(label, listed, own)
        IN  [ judge     |-> judge,
              scores    |-> s,
              steps     |-> StepColumn(s),
              perType   |-> PerType(label, listed, own),
              confusion |-> Confusion(label, listed, own),
              bins      |-> Bins(label, listed, own),
              curve     |-> Curve(label, listed, own) ] ]

\* agent_table
AgentTable(label, listed) ==
    LET OfType(type) == {t \in listed : label[t].type = type}
    IN  [ total   |-> Cardinality(listed),
          flagged |-> Cardinality({t \in listed : label[t].faulty}),
          wrong   |-> Cardinality({t \in listed : ~ label[t].correct}),
          silent  |-> Cardinality({t \in listed : Silent(label[t])}),
          types   |-> [type \in FailureTypes |-> Cardinality(OfType(type))] ]
=============================================================================
