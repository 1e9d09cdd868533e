------------------------------ MODULE MCJudging ------------------------------
EXTENDS Judging

Run(instance, n, faulty, step, type, correct) ==
    [instance |-> instance, n |-> n, faulty |-> faulty, step |-> step, type |-> type, correct |-> correct]

\* The labels of the runs that are made, of an agent that made up an argument, and of agents that
\* took no refund they should have.
LabelOf(index, kind) ==
    CASE kind = "clean"                 -> Run(index, 6, FALSE, None, "none", TRUE)
      [] kind = "wrong_tool"            -> Run(index, 6, TRUE, 2, kind, TRUE)
      [] kind = "hallucinated_argument" -> Run(index, 6, TRUE, 2, kind, TRUE)
      [] kind = "skipped_precondition"  -> Run(index, 5, TRUE, 3, kind, DifficultyOf(index) = "happy")
      [] kind = "ignored_observation"   -> Run(index, 6, TRUE, 4, kind, FALSE)
      [] kind = "premature_stop"        -> Run(index, 4, TRUE, 3, kind, FALSE)
      [] kind = "unsupported_claim"     -> Run(index, 6, TRUE, 5, kind, TRUE)
      [] kind = "agent" /\ index = 3    -> Run(index, 4, TRUE, 2, "hallucinated_argument", FALSE)
      [] kind = "agent"                 -> Run(index, 2, TRUE, None, "none", FALSE)

MCCatalogue ==
    [t \in (0 .. 305) \X (FailureTypes \cup {"clean", "agent"}) |-> LabelOf(t[1], t[2])]

Says(faulty, type, step, confidence) ==
    [outcome |-> "object", faulty |-> faulty, type |-> type, step |-> step, confidence |-> confidence]
Breaks(outcome) ==
    [outcome |-> outcome, faulty |-> FALSE, type |-> "none", step |-> None, confidence |-> None]

Answers ==
    { Says(TRUE, "skipped_precondition", 3, 100), Says(TRUE, "invented", 5, None),
      Says(TRUE, "wrong_tool", -2, 60), Says(FALSE, "wrong_tool", 2, 30),
      Says(FALSE, "none", None, 140), Breaks("garbage"), Breaks("failed"), Breaks("raises") }

Reads(j, set) ==
    [judge |-> j, n |-> 0, source |-> set, parents |-> FALSE, first |-> <<>>, subset |-> 2]
ReadsFirst(j, set, first) == [Reads(j, set) EXCEPT !.first = first, !.subset = 1]
Builds(j, n, parents, first) ==
    [judge |-> j, n |-> n, source |-> {}, parents |-> parents, first |-> first, subset |-> 1]

Clean == <<0, "clean">>
Skips == <<0, "skipped_precondition">>
Claims == <<0, "unsupported_claim">>
Late == <<1, "wrong_tool">>
Played == <<2, "agent">>
Typed == <<3, "agent">>

\* Small sets under every answer, a whole one under two, and every size of a set that is
\* built and given up at once.
MCScripts ==
    { [commands |-> cs, replies |-> Answers] : cs \in
        { << Reads("selfcons", {Clean, Skips}), Reads("selfcons", {Clean, Claims}) >>,
          << Reads("step", {Clean, Skips, Late}), Reads("outcome", {Clean, Skips}) >>,
          << Reads("outcome", {Clean, Claims}), Reads("programmatic", {Clean, Claims, Late}) >>,
          << Reads("mock", {Clean, Played}), Reads("stepview-outtask", {Clean, Played}) >>,
          << ReadsFirst("selfcons", {Clean, Typed}, <<"hallucinated_argument">>),
             ReadsFirst("step", {Clean, Played, Typed}, <<"wrong_tool", "hallucinated_argument">>) >> } }
    \cup
    { [commands |-> << Builds("step", 4, FALSE, <<>>),
                       Builds("selfcons", 4, TRUE, <<"ignored_observation">>) >>,
       replies |-> {Says(TRUE, "ignored_observation", 4, 90), Says(FALSE, "none", None, 70)}] }
    \cup
    { [commands |-> << Builds("outcome", n, parents, <<"unsupported_claim", "wrong_tool">>) >>,
       replies |-> {Breaks("raises")}] : n \in (1 .. 26) \cup {400}, parents \in BOOLEAN }

Flip(flip, where, type, confidence) ==
    [flip |-> flip, where |-> where, type |-> type, confidence |-> confidence]

MCFlips == { Flip(FALSE, 0, "wrong_tool", 50), Flip(TRUE, 0, "premature_stop", 70), Flip(TRUE, 99, "wrong_tool", 99) }

MCViolations == { <<1, "hallucinated_argument">>, <<3, "skipped_precondition">> }
=============================================================================
