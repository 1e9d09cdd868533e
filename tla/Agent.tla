-------------------------------- MODULE Agent --------------------------------
(* The tool-calling agent (agents/llm_agent.py): a model may name any tool with *)
(* any argument, or give a reply that is no action.                            *)
EXTENDS Episode

CONSTANTS Named,     \* identifiers the model may name
          Amounts,   \* amounts the model may name, in cents
          MaxSteps   \* MAX_STEPS

ASSUME NamedAssumption == Named \subseteq Ids
ASSUME AmountsAssumption == Amounts \subseteq Nat
ASSUME MaxStepsAssumption == MaxSteps \in Nat \ {0}

\* Arguments a tool does not take are left out.
Calls == { c \in [tool : Tools \cup {"none"}, id : Named \cup {"words"}, amount : Amounts \cup {0}] :
             /\ c.tool \in {"none", "reply"} => c.id = "words"
             /\ c.tool \in IdTools => c.id # "words"
             /\ c.tool # "issue_refund" => c.amount = 0 }

\* A call; a reply ends the episode, and so does the last step there is.
Turn == \E call \in Calls : Play(call, call.tool = "reply" \/ seen.n + 1 = MaxSteps)

\* An answer that is no action is kept as a step, and ends the episode.
Stall == Play([tool |-> "none", id |-> "words", amount |-> 0], TRUE)

AgentNext == Turn \/ Stall

AgentSpec == Begin /\ [][AgentNext]_episode

\* The label of the episode.
Label ==
    [ faulty  |-> seen.fired # {} \/ ~ OutcomeCorrect,
      step    |-> Judged(seen).step,
      type    |-> Judged(seen).type,
      correct |-> OutcomeCorrect ]
-----------------------------------------------------------------------------
(* Properties *)

\* The state keeps its type, and every violation is at a step of the trajectory.
TypeOK ==
    /\ instance \in Instances
    /\ desk \in Desk
    /\ seen.n \in Nat
    /\ seen.ids \subseteq Ids /\ seen.nums \subseteq Nat
    /\ seen.allowed \in Nat \cup {None}
    /\ seen.fired \subseteq (0 .. seen.n - 1) \X Rules
    /\ acted \in [refunded : BOOLEAN, amount : Nat, escalated : BOOLEAN]

\* Whatever order the agent calls its tools in, a refund that breaks no rule pays what the
\* instance expects: the rules the desk does not enforce are enough for the money.
CleanRefundIsRight == over /\ seen.fired = {} /\ acted.refunded => OutcomeCorrect

\* The outcome read from the steps is the one the desk reached, the escalation apart, which
\* the desk does not keep: outcome_of replaces World.outcome for replayed trajectories.
OutcomesAgree == WorldOutcome = (IF Outcome.action = "escalate" THEN DoesNothing ELSE Outcome)

\* A label that says faulty and names no failure is one of an order that should have been
\* refunded and was not: it was handed to a human, or the desk refused a refund one cent above
\* the total, which the rules take for the total.  No other mistake is left without a type.
UntypedIsMissedRefund ==
    over /\ Label.faulty /\ Label.type = "none" =>
        /\ Expected(instance).action = "refund"
        /\ \/ Outcome = Escalates
           \/ Outcome = DoesNothing /\ Near(instance.total, instance.total + 1)

\* An identifier nobody gave the agent does not become known by being used: only the reason
\* of an escalation, which the desk echoes, brings one in.
OnlyEscalationsGround == {"nobody", "other email"} \cap seen.ids # {} => acted.escalated

\* A refund to somebody else's order is reported as what led to it, a check that was skipped
\* or an address that was invented: R6 alone is never the first violation, unless an
\* escalation had brought the address in.
IdentityIsNeverFirst ==
    over /\ seen.fired # {} /\ First(seen.fired)[2] = "R6" => acted.escalated
=============================================================================
