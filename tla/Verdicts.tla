------------------------------ MODULE Verdicts -------------------------------
(* How a judge comes to its verdict: what is made of a model's reply           *)
(* (judges/llm.py over judges/ollama_client.py), the vote of several           *)
(* (judges/self_consistency.py), and the stand-in (judges/mock.py).            *)
(* Confidences are hundredths.                                                 *)
EXTENDS Integers, FiniteSets, Sequences

FailureTypes == {"wrong_tool", "hallucinated_argument", "skipped_precondition",
                 "ignored_observation", "premature_stop", "unsupported_claim"}

None == -1

Verdict == [faulty : BOOLEAN, step : Nat \cup {None}, type : FailureTypes \cup {"none"},
            confidence : 0 .. 100, error : {"none", "failed", "unparseable"}]

\* What comes back from a call.  generate turns a failed transport, and a body that is no
\* JSON, into an error; a body that is no object, or holds a count that is no number, raises
\* past it.  An answer that is no JSON object is "garbage".  In an object, faulty is what
\* bool() makes of the field, step is None where there is no integer (true is 1), and
\* confidence is None where there is no number.
Reply == [outcome : {"object", "garbage", "failed", "raises"}, faulty : BOOLEAN,
          type : FailureTypes \cup {"none", "invented"}, step : Int, confidence : Int]

-----------------------------------------------------------------------------
(* The judges *)

LlmJudges == {"outcome", "step", "selfcons", "outview-outtask", "outview-proctask",
              "stepview-outtask", "stepview-proctask"}

Judges == LlmJudges \cup {"programmatic", "mock"}

\* LlmJudge.localises, AblationJudge.localises; the members of a vote are step judges.
Localises(judge) == judge \in {"step", "selfcons", "stepview-proctask"}

\* _clamp
Clamp(confidence) ==
    IF confidence < 50 THEN 50 ELSE IF confidence > 100 THEN 100 ELSE confidence

ErrorOf(reply) ==
    IF reply.outcome = "object" THEN "none"
    ELSE IF reply.outcome = "failed" THEN "failed" ELSE "unparseable"

\* A plausible bug: the step may be one past the last.
NamesUpTo(judge, n, reply) == Localises(judge) /\ 0 =< reply.step /\ reply.step =< n

\* A step is kept when the judge is shown the steps and the trajectory has it.
NamesStep(judge, n, reply) == Localises(judge) /\ 0 =< reply.step /\ reply.step < n

\* LlmJudge.judge_with_response, after the call; n is the number of steps.
Coerced(judge, n, reply) ==
    LET usable == reply.outcome = "object"
        faulty == usable /\ reply.faulty
    IN  [ faulty     |-> faulty,
          step       |-> IF faulty /\ NamesStep(judge, n, reply) THEN reply.step ELSE None,
          type       |-> IF faulty /\ reply.type \in FailureTypes THEN reply.type ELSE "none",
          confidence |-> IF usable THEN Clamp(reply.confidence) ELSE 50,
          error      |-> ErrorOf(reply) ]

-----------------------------------------------------------------------------
(* The vote *)

\* _mode over the votes at the places in At that are not nothing: the value that most of them
\* have, of equals the one that comes first.
Mode(At, value, nothing) ==
    LET present  == {i \in At : value[i] # nothing}
        Share(i) == Cardinality({j \in present : value[j] = value[i]})
    IN  IF present = {} THEN nothing
        ELSE value[CHOOSE i \in present : \A j \in present :
                       Share(i) > Share(j) \/ (Share(i) = Share(j) /\ i =< j)]

FirstError(votes) ==
    LET at == {i \in DOMAIN votes : votes[i].error # "none"}
    IN  IF at = {} THEN "none"
        ELSE votes[CHOOSE i \in at : \A j \in at : i =< j].error

Flagging(votes) == {i \in DOMAIN votes : votes[i].faulty}

\* Plausible bug: the majority is one of the calls that were answered.
AnsweredMajority(votes) ==
    2 * Cardinality(Flagging(votes)) > Cardinality({i \in DOMAIN votes : votes[i].error = "none"})

Majority(votes) == 2 * Cardinality(Flagging(votes)) > Len(votes)

\* SelfConsistencyJudge.judge
Vote(votes) ==
    LET faulty   == Majority(votes)
        agreeing == IF faulty THEN Flagging(votes) ELSE DOMAIN votes \ Flagging(votes)
        steps    == [i \in DOMAIN votes |-> votes[i].step]
        types    == [i \in DOMAIN votes |-> votes[i].type]
    IN  [ faulty     |-> faulty,
          step       |-> IF faulty THEN Mode(agreeing, steps, None) ELSE None,
          type       |-> IF faulty THEN Mode(agreeing, types, "none") ELSE "none",
          confidence |-> (100 * Cardinality(agreeing)) \div Len(votes),
          error      |-> FirstError(votes) ]

-----------------------------------------------------------------------------
(* The stand-in *)

\* MockJudge.judge: the hash of the id decides on flip, where and type.
Mock(verdict, flip, where, type, confidence) ==
    [ faulty     |-> verdict.faulty # flip,
      step       |-> IF ~ flip THEN verdict.step ELSE IF verdict.faulty THEN None ELSE where,
      type       |-> IF ~ flip THEN verdict.type ELSE IF verdict.faulty THEN "none" ELSE type,
      confidence |-> confidence,
      error      |-> verdict.error ]

\* _call_failed
CallFailed(verdict) == verdict.error = "failed"
=============================================================================
