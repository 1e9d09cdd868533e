-------------------------------- MODULE Faults --------------------------------
(* The scripted agent (agents/oracle.py) and the faults injected into its runs *)
(* (mutate.py): the list of its calls, edited, is replayed at a fresh desk.    *)
(* Beside them the episodes of a model, in which nothing is scripted.          *)
EXTENDS Agent, Sequence

CONSTANTS Kinds,  \* the runs considered: clean ones, those with a fault, a model's own
          Played  \* the instances a model is given

FailureTypes == {"wrong_tool", "hallucinated_argument", "skipped_precondition",
                 "ignored_observation", "premature_stop", "unsupported_claim"}

ASSUME KindsAssumption == Kinds \subseteq FailureTypes \cup {"clean", "model"}
ASSUME PlayedAssumption == Played \subseteq Instances

VARIABLES kind,   \* what was done to the run
          step,   \* the label's failure_step, None for a clean run
          calls   \* the calls still to be replayed

vars == <<episode, kind, step, calls>>

ToCall(tool, id, amount) == [tool |-> tool, id |-> id, amount |-> amount]

\* A plausible bug: the refund is the total of the order, whatever the check allows.
RefundsTotal(i) ==
    LET elig == Observe(i, Opened(i), ToCall("check_eligibility", "order", 0))
    IN  << ToCall("get_customer", "email", 0),
           ToCall("lookup_order", "order", 0),
           ToCall("get_policy", "sku", 0),
           ToCall("check_eligibility", "order", 0),
           IF elig.eligible THEN ToCall("issue_refund", "order", i.total)
                            ELSE ToCall("escalate", "words", 0),
           ToCall("reply", "words", 0) >>

\* The calls of run_oracle; what it does after the check depends on the answer.
OracleCalls(i) ==
    LET check == ToCall("check_eligibility", "order", 0)
        elig  == Observe(i, Opened(i), check)
    IN  << ToCall("get_customer", "email", 0),
           ToCall("lookup_order", "order", 0),
           ToCall("get_policy", "sku", 0),
           check,
           IF elig.eligible THEN ToCall("issue_refund", "order", elig.amount)
                            ELSE ToCall("escalate", "words", 0),
           ToCall("reply", "words", 0) >>

\* _index_of, from 1; 0 when the tool is not called.
IndexOf(list, tool) == SelectInSeq(list, LAMBDA call : call.tool = tool)

\* A plausible bug: a refund is all a fault needs.
FeeUnread(fault, i) ==
    fault \in {"skipped_precondition", "ignored_observation"} =>
        IndexOf(OracleCalls(i), "issue_refund") # 0

\* Which instances can host a fault.
Applies(fault, i) ==
    LET refund_at == IndexOf(OracleCalls(i), "issue_refund")
    IN  CASE fault = "skipped_precondition" -> refund_at # 0
          [] fault = "ignored_observation"  -> refund_at # 0 /\ i.fee > 0
          [] OTHER -> TRUE

\* The edited calls of each fault, and the step that is labelled.
WrongTool(i) ==
    LET at == IndexOf(OracleCalls(i), "get_policy")
    IN  <<ReplaceAt(OracleCalls(i), at, ToCall("lookup_order", "order", 0)), at - 1>>

HallucinatedArgument(i) ==
    LET at == IndexOf(OracleCalls(i), "get_policy")
    IN  <<ReplaceAt(OracleCalls(i), at, ToCall("get_policy", "nobody", 0)), at - 1>>

RefundOfTotal(i, refund_at) ==
    ReplaceAt(OracleCalls(i), refund_at, ToCall("issue_refund", "order", i.total))

\* Plausible bugs: the amount stays the authorised one, which nothing in the run names; the
\* label stays where the refund was.
AmountKept(i) ==
    LET check_at == IndexOf(OracleCalls(i), "check_eligibility")
    IN  <<RemoveAt(OracleCalls(i), check_at), check_at - 1>>

LabelNotMoved(i) ==
    LET refund_at == IndexOf(OracleCalls(i), "issue_refund")
        check_at  == IndexOf(OracleCalls(i), "check_eligibility")
    IN  <<RemoveAt(RefundOfTotal(i, refund_at), check_at), refund_at - 1>>

SkippedPrecondition(i) ==
    LET refund_at == IndexOf(OracleCalls(i), "issue_refund")
        check_at  == IndexOf(OracleCalls(i), "check_eligibility")
    IN  <<RemoveAt(RefundOfTotal(i, refund_at), check_at), refund_at - 2>>

IgnoredObservation(i) ==
    LET refund_at == IndexOf(OracleCalls(i), "issue_refund")
    IN  <<RefundOfTotal(i, refund_at), refund_at - 1>>

PrematureStop(i) ==
    LET cut == SelectInSeq(OracleCalls(i), LAMBDA call :
                              call.tool \in {"issue_refund", "escalate", "reply"})
    IN  <<SubSeq(OracleCalls(i), 1, cut - 1), cut - 2>>

UnsupportedClaim(i) == <<OracleCalls(i), IndexOf(OracleCalls(i), "reply") - 1>>

Edited(fault, i) ==
    CASE fault = "wrong_tool"            -> WrongTool(i)
      [] fault = "hallucinated_argument" -> HallucinatedArgument(i)
      [] fault = "skipped_precondition"  -> SkippedPrecondition(i)
      [] fault = "ignored_observation"   -> IgnoredObservation(i)
      [] fault = "premature_stop"        -> PrematureStop(i)
      [] fault = "unsupported_claim"     -> UnsupportedClaim(i)
      [] fault = "clean"                 -> <<OracleCalls(i), None>>

Scripted ==
    /\ Applies(kind, instance)
    /\ calls = Edited(kind, instance)[1]
    /\ step = Edited(kind, instance)[2]

Init ==
    /\ Begin
    /\ kind \in Kinds
    /\ IF kind = "model" THEN instance \in Played /\ calls = <<>> /\ step = None ELSE Scripted

\* _rebuild
Replay ==
    /\ calls # <<>>
    /\ Play(Head(calls), Len(calls) = 1)
    /\ calls' = Tail(calls)
    /\ UNCHANGED <<kind, step>>

\* A step of run_llm_agent.
Choose ==
    /\ kind = "model"
    /\ AgentNext
    /\ UNCHANGED <<kind, step, calls>>

Next == Replay \/ Choose

Spec == Init /\ [][Next]_vars
-----------------------------------------------------------------------------
(* Properties *)

\* The rules that fire tell the injected type and no other: the injector measures one thing
\* at a time.  Two types are beyond the rules, and so is the run of the oracle: a judge that
\* flags a clean run is wrong.  The baseline that reads only the order of the calls is blind to
\* a wrong amount and a wrong reply, and to nothing else, whether or not it allows more calls.
OneFaultOneType ==
    over /\ kind # "model" =>
        /\ { RuleType[v[2]] : v \in seen.fired } =
                (IF kind \in {"clean", "wrong_tool", "unsupported_claim"} THEN {} ELSE {kind})
        /\ \A flagged \in { Strays(instance, Edited(kind, instance)[1]),
                             StraysFar(instance, Edited(kind, instance)[1]) } :
               flagged <=> kind \notin {"clean", "ignored_observation", "unsupported_claim"}

\* The rule engine names the step that is labelled.
FaultFoundWhereLabelled ==
    over /\ kind # "model" /\ Judged(seen).faulty => Judged(seen).step = step

\* Which faults are silent: those that leave the money alone, and a skipped check where there
\* is no fee to deduct.
SilentAsMeant ==
    over /\ kind # "model" => ( OutcomeCorrect <=>
                \/ kind \in {"clean", "wrong_tool", "hallucinated_argument", "unsupported_claim"}
                \/ kind = "skipped_precondition" /\ instance.fee = 0 )

\* The scripted agent does what every judge is told an agent must do: verify, look up, read,
\* check, then refund what the check allowed or escalate, then reply.
Done(tool) == ~ \E k \in 1 .. Len(calls) : calls[k].tool = tool

Learnt ==
    (IF seen.verified = "asker" THEN {"customer"} ELSE {})
    \cup (IF seen.looked # {} THEN {"order"} ELSE {})
    \cup (IF Done("get_policy") THEN {"policy"} ELSE {})
    \cup (IF Done("check_eligibility") THEN {"eligibility"} ELSE {})

Resolved == IF acted.refunded THEN "refund" ELSE IF acted.escalated THEN "escalate" ELSE "open"

\* Nothing is promised of the others: they count as standing still.
Clean == kind = "clean"

Procedure == INSTANCE Procedure WITH
    Nothing  <- None,
    known    <- IF Clean THEN Learnt ELSE {},
    allowed  <- IF Clean THEN seen.allowed ELSE None,
    resolved <- IF Clean THEN Resolved ELSE "open",
    refund   <- IF Clean THEN acted.amount ELSE 0,
    replied  <- Clean /\ seen.replies = 1

ProcedureFollowed == Procedure!Spec
=============================================================================
