------------------------------ MODULE Analysis -------------------------------
(* The paper's own reading of the same files (analysis/bootstrap_ci.py,        *)
(* analysis/paired_ci.py), which computes the report's numbers a second time   *)
(* and adds the comparison of each fault with the clean run it was made from.  *)
(* Counts and sums; resampling and significance are left out.  label is a      *)
(* function on the set of the listed trajectories here, verdict one on it too. *)
EXTENDS Scores, Dataset

\* load, by_key: of two verdicts with one key the later counts.
Held(rows, judge) ==
    LET own == {i \in DOMAIN rows : rows[i].judge = judge}
    IN  [ id \in {rows[i].id : i \in own} |->
            rows[CHOOSE i \in own : rows[i].id = id /\ \A k \in own : rows[k].id = id => k =< i].verdict ]

\* Plausible bug: a bin holds its lower bound and not its upper one.
BinFromBelow(confidence) == IF confidence = 100 THEN 9 ELSE confidence \div 10

\* The bin of a confidence, from the ceiling of ten times it.
BinOf(confidence) ==
    LET bin == (confidence + 9) \div 10 - 1
    IN  IF bin < 0 THEN 0 ELSE IF bin > 9 THEN 9 ELSE bin

\* ece, and the end of metrics
BinCounts(label, verdict) ==
    [ bin \in 0 .. 9 |->
        LET members == {t \in DOMAIN label : BinOf(verdict[t].confidence) = bin}
        IN  [of    |-> Cardinality(members),
             right |-> Cardinality({t \in members : label[t].faulty = verdict[t].faulty})] ]

\* metrics, over the vectors of JudgeArrays
Metrics(label, verdict) ==
    LET T          == DOMAIN label
        flagged    == {t \in T : verdict[t].faulty}
        faulty     == {t \in T : label[t].faulty}
        silent     == {t \in T : label[t].faulty /\ label[t].correct}
        loud       == {t \in T : label[t].faulty /\ ~ label[t].correct}
        localised  == {t \in faulty \cap flagged : label[t].step >= 0 /\ verdict[t].step >= 0}
    IN  [ truePositive  |-> Cardinality(faulty \cap flagged),
          falsePositive |-> Cardinality(flagged \ faulty),
          falseNegative |-> Cardinality(faulty \ flagged),
          silentCaught  |-> Cardinality(silent \cap flagged),
          silent        |-> Cardinality(silent),
          loudCaught    |-> Cardinality(loud \cap flagged),
          loud          |-> Cardinality(loud),
          clean         |-> Cardinality(T \ faulty),
          stepScored    |-> Cardinality(localised),
          stepExact     |-> Cardinality({t \in localised : label[t].step = verdict[t].step}) ]

\* The type counts of metrics: hits, false positives and misses of each type.
TypeCounts(label, verdict) ==
    LET typed   == {t \in DOMAIN label : label[t].faulty /\ label[t].type # "none"}
        pred(t) == IF verdict[t].faulty /\ verdict[t].type # "none" THEN verdict[t].type ELSE "missed"
        Is(type) == {t \in typed : label[t].type = type}
        Said(type) == {t \in typed : pred(t) = type}
    IN  [ type \in FailureTypes |->
            [ hit    |-> Cardinality(Is(type) \cap Said(type)),
              wrong  |-> Cardinality(Said(type) \ Is(type)),
              missed |-> Cardinality(Is(type) \ Said(type)),
              caught |-> Cardinality({t \in Is(type) : verdict[t].faulty}) ] ]

\* trajectory_metrics, over the vectors of Arrays: of all faults that were flagged, those whose
\* step and whose type are told, a step that was not given counting as a miss.
TrajectoryMetrics(label, verdict) ==
    LET faulty   == {t \in DOMAIN label : label[t].faulty}
        detected == {t \in faulty : verdict[t].faulty}
        exact    == {t \in detected : verdict[t].step >= 0 /\ verdict[t].step = label[t].step}
        kept     == {t \in faulty : label[t].type # "premature_stop"}
    IN  [ faulty    |-> Cardinality(faulty),
          detected  |-> Cardinality(detected),
          alarms    |-> Cardinality({t \in DOMAIN label \ faulty : verdict[t].faulty}),
          exact     |-> Cardinality(exact),
          kept      |-> Cardinality(kept),
          keptFound |-> Cardinality(kept \cap detected),
          keptExact |-> Cardinality(kept \cap exact),
          typed     |-> Cardinality({t \in detected : verdict[t].type = label[t].type}) ]

\* published: the localisation counts, and the flags that name another type.
Located(label, verdict) ==
    LET detected == {t \in DOMAIN label : label[t].faulty /\ verdict[t].faulty}
        valid    == {t \in detected : verdict[t].step >= 0}
    IN  [ detected |-> Cardinality(detected),
          valid    |-> Cardinality(valid),
          invalid  |-> Cardinality({t \in detected : verdict[t].step < 0}),
          exact    |-> Cardinality({t \in valid : verdict[t].step = label[t].step}),
          mistyped |-> Cardinality({t \in detected : verdict[t].type # label[t].type}) ]

-----------------------------------------------------------------------------
(* Pairs: each fault with the clean run of its instance *)

\* The types whose fault leaves the goal and the reply as they were.
ReplySame == {"wrong_tool", "hallucinated_argument", "skipped_precondition", "ignored_observation"}

CellNames == FailureTypes \cup {"reply_same", "reply_changed", "loud", "silent", "all",
                                "reply_same_kept", "reply_same_broke"}

\* The rows of Pairs.
Pairs(label) ==
    {p \in (DOMAIN label) \X (DOMAIN label) :
        label[p[1]].faulty /\ p[2] = <<label[p[1]].instance, "clean">>}

\* in_cell
InCell(l, cell) ==
    \/ cell = l.type \/ cell = "all"
    \/ cell = "reply_same" /\ l.type \in ReplySame
    \/ cell = "reply_changed" /\ l.type \notin ReplySame
    \/ cell = "loud" /\ ~ l.correct
    \/ cell = "silent" /\ l.correct
    \/ cell = "reply_same_kept" /\ l.type \in ReplySame /\ l.correct
    \/ cell = "reply_same_broke" /\ l.type \in ReplySame /\ ~ l.correct

\* paired_table: of the pairs in a cell, those where only the fault is flagged, and those where
\* only the clean run is.
PairedTable(label, verdict) ==
    [ cell \in CellNames |->
        LET rows == {p \in Pairs(label) : InCell(label[p[1]], cell)}
        IN  [ n   |-> Cardinality(rows),
              b10 |-> Cardinality({p \in rows : verdict[p[1]].faulty /\ ~ verdict[p[2]].faulty}),
              b01 |-> Cardinality({p \in rows : ~ verdict[p[1]].faulty /\ verdict[p[2]].faulty}) ] ]

\* The faults of a cell, whether or not they have a pair.
FaultsIn(label, cell) == {t \in DOMAIN label : label[t].faulty /\ InCell(label[t], cell)}

\* published, its design: the faults of each cell, those that have a pair, those that have none,
\* and the instances that only the latter come from.
Design(label) ==
    LET faults == {t \in DOMAIN label : label[t].faulty}
        paired == {p[1] : p \in Pairs(label)}
    IN  [ within      |-> [cell \in CellNames |-> Cardinality(FaultsIn(label, cell))],
          faults      |-> Cardinality(faults),
          pairs       |-> Cardinality(Pairs(label)),
          latePairs   |-> Cardinality(faults) - Cardinality(Pairs(label)),
          lateParents |-> Cardinality({label[t].instance : t \in faults} \ {label[t].instance : t \in paired}) ]

\* published: the flags among the loud faults, among those of a type, and among those whose
\* reply stayed the same.
CellFlags(label, verdict) ==
    [ cell \in CellNames |-> Cardinality({t \in FaultsIn(label, cell) : verdict[t].faulty}) ]

\* stratum: the scenario of a run, from the number in its instance's name.
Strata == << "happy", "restocking", "expired", "non_refundable", "wrong_customer",
             "already_refunded" >>
Stratum(index) == Strata[(index % 6) + 1]

\* published: clean runs and faults with the same reply, by scenario.
ByScenario(label, verdict) ==
    [ scenario \in {Strata[i] : i \in DOMAIN Strata} |->
        LET here  == {t \in DOMAIN label : Stratum(label[t].instance) = scenario}
            clean == {t \in here : ~ label[t].faulty}
            same  == here \cap FaultsIn(label, "reply_same")
        IN  [ clean        |-> Cardinality(clean),
              cleanFlagged |-> Cardinality({t \in clean : verdict[t].faulty}),
              same         |-> Cardinality(same),
              sameFlagged  |-> Cardinality({t \in same : verdict[t].faulty}) ] ]

\* published, self-consistency: what the judge would be if one vote were enough.
AnyVote(label, flags) ==
    [ sens |-> Cardinality({t \in DOMAIN label : label[t].faulty /\ flags[t] >= 1}),
      fa   |-> Cardinality({t \in DOMAIN label : ~ label[t].faulty /\ flags[t] >= 1}) ]

\* ablation: how often a judge flags the faults of a type, and the clean runs.
FlagsByType(label, verdict) ==
    [ type \in FailureTypes |->
        Cardinality({t \in DOMAIN label : label[t].faulty /\ label[t].type = type /\ verdict[t].faulty}) ]
CleanFlags(label, verdict) == Cardinality({t \in DOMAIN label : ~ label[t].faulty /\ verdict[t].faulty})
=============================================================================
