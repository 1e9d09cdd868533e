------------------------------- MODULE Episode -------------------------------
(* One episode at the desk: calls, what they change and show, what the steps   *)
(* say of the outcome (outcome_of), and what the checker makes of them.        *)
EXTENDS Checker

VARIABLES instance,  \* the refund request
          desk,      \* the World it is played against
          seen,      \* what the checker makes of the steps so far
          acted,     \* what outcome_of reads in them
          over       \* the episode has ended

episode == <<instance, desk, seen, acted, over>>

\* The first refund that went through, and whether a case was opened.
Nothing == [refunded |-> FALSE, amount |-> 0, escalated |-> FALSE]

Acted(call, obs) ==
    [ refunded  |-> acted.refunded \/ (call.tool = "issue_refund" /\ obs.ok),
      amount    |-> IF ~ acted.refunded /\ call.tool = "issue_refund" /\ obs.ok
                    THEN obs.amount ELSE acted.amount,
      escalated |-> acted.escalated \/ (call.tool = "escalate" /\ obs.ok) ]

\* outcome_of
Outcome ==
    CASE acted.refunded -> Refunds(acted.amount)
      [] acted.escalated /\ ~ acted.refunded -> Escalates
      [] OTHER -> DoesNothing

\* World.outcome
WorldOutcome == IF desk.paid # 0 THEN Refunds(desk.paid) ELSE DoesNothing

\* Outcome.matches
Matches(a, b) == a.action = b.action /\ (a.action = "refund" => Near(a.amount, b.amount))

OutcomeCorrect == Matches(Outcome, Expected(instance))

Begin ==
    /\ instance \in Instances
    /\ desk = Opened(instance)
    /\ seen = Unread
    /\ acted = Nothing
    /\ over = FALSE

\* One step of the episode.
Play(call, last) ==
    LET obs == Observe(instance, desk, call)
        st  == See(instance, seen, call, obs, last)
    IN  /\ ~ over
        /\ desk' = After(instance, desk, call)
        /\ seen' = IF last THEN Close(st) ELSE st
        /\ acted' = Acted(call, obs)
        /\ over' = last
        /\ UNCHANGED instance
=============================================================================
