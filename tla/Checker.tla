------------------------------- MODULE Checker -------------------------------
(* The process rules (env/checker.py), one step at a time: what the checker    *)
(* remembers of the steps so far, the rules a step breaks, and the rules that  *)
(* only the whole trajectory can break.                                        *)
EXTENDS World, FiniteSets

\* Amounts are compared as floats, with a tolerance of one cent.  Two amounts a cent
\* apart are the same or not by the rounding of their difference: CloseCents holds
\* the pairs that are.
CONSTANT CloseCents

ASSUME CloseCentsAssumption ==
    \A pair \in CloseCents : pair \in Nat \X Nat /\ pair[2] = pair[1] + 1

Near(a, b) == a = b \/ <<a, b>> \in CloseCents \/ <<b, a>> \in CloseCents

Rules == {"R1", "R2", "R3", "R4", "R5", "R6", "R7", "R8"}

Priority == [ R4 |-> 1, R1 |-> 2, R6 |-> 3, R7 |-> 4, R2 |-> 5, R3 |-> 6, R5 |-> 7, R8 |-> 8 ]

RuleType ==
    [ R1 |-> "skipped_precondition",  R2 |-> "ignored_observation",
      R3 |-> "skipped_precondition",  R4 |-> "hallucinated_argument",
      R5 |-> "premature_stop",        R6 |-> "ignored_observation",
      R7 |-> "ignored_observation",   R8 |-> "premature_stop" ]

\* check's local variables: how many steps it has read, the scalars an argument may come
\* from, what a passing check allows for the order (None without one), the orders looked
\* up, the customer verified last, whether an order was refunded, a terminal action and
\* the replies seen, and the rules broken, each with its step.
None == -1

Unread == [ n |-> 0, ids |-> {"email", "order"}, nums |-> {}, allowed |-> None,
            looked |-> {}, verified |-> "words", refunded |-> {}, terminal |-> FALSE,
            replies |-> 0, fired |-> {} ]

IdTools == {"get_customer", "lookup_order", "get_policy", "check_eligibility", "issue_refund"}

\* GROUNDED_ARGS and _grounded
Ungrounded(st, call) ==
    \/ call.tool \in IdTools /\ call.id \notin st.ids
    \/ call.tool = "issue_refund" /\ ~ \E num \in st.nums : Near(num, call.amount)

Authorised(st, call) == call.id = "order" /\ st.allowed # None

\* The rules a step breaks.
Broken(i, st, call, last) ==
    { rule \in Rules :
        \/ rule = "R4" /\ Ungrounded(st, call)
        \/ rule = "R3" /\ call.tool = "check_eligibility" /\ call.id \notin st.looked
        \/ rule = "R5" /\ call.tool = "reply" /\ ~ last
        \/ /\ call.tool = "issue_refund"
           /\ \/ rule = "R1" /\ ~ Authorised(st, call)
              \/ rule = "R2" /\ Authorised(st, call) /\ ~ Near(call.amount, st.allowed)
              \/ rule = "R6" /\ st.verified # "words" /\ call.id \in st.looked
                             /\ i.owner # st.verified
              \/ rule = "R7" /\ (call.id \in st.refunded \/ i.status = "refunded") }

\* A plausible bug: any answer of the check is an authorisation.
AnyCheckAllows(st, call, obs) ==
    IF call.tool = "check_eligibility" /\ obs.ok THEN obs.amount ELSE st.allowed

\* What a passing check authorises; a later check that fails takes nothing back.
Allowed(st, call, obs) ==
    IF call.tool = "check_eligibility" /\ obs.ok /\ obs.eligible THEN obs.amount ELSE st.allowed

\* A plausible bug: the arguments of a call join the scalars, answered or not.
SeeArguments(i, st, call, obs, last) ==
    [ n |-> st.n + 1,
      ids |-> st.ids \cup obs.ids \cup {call.id},
      nums |-> st.nums \cup obs.nums,
      allowed |-> Allowed(st, call, obs),
      looked |-> st.looked, verified |-> st.verified, refunded |-> st.refunded,
      terminal |-> st.terminal, replies |-> st.replies,
      fired |-> st.fired \cup { <<st.n, rule>> : rule \in Broken(i, st, call, last) } ]

\* The body of the loop in check.
See(i, st, call, obs, last) ==
    [ n        |-> st.n + 1,
      ids      |-> st.ids \cup obs.ids,
      nums     |-> st.nums \cup obs.nums,
      allowed  |-> Allowed(st, call, obs),
      looked   |-> IF call.tool = "lookup_order" /\ obs.ok THEN st.looked \cup {call.id} ELSE st.looked,
      verified |-> IF call.tool = "get_customer" /\ obs.ok
                   THEN IF "asker" \in obs.ids THEN "asker" ELSE "other"
                   ELSE st.verified,
      refunded |-> IF call.tool = "issue_refund" /\ obs.ok THEN st.refunded \cup {call.id} ELSE st.refunded,
      terminal |-> st.terminal \/ call.tool \in {"issue_refund", "escalate"},
      replies  |-> IF call.tool = "reply" THEN st.replies + 1 ELSE st.replies,
      fired    |-> st.fired \cup { <<st.n, rule>> : rule \in Broken(i, st, call, last) } ]

\* Plausible bugs: the violation is put after the last step; only the replies are counted.
CloseAfter(st) ==
    [st EXCEPT !.fired = @ \cup { <<st.n, rule>> : rule \in
        {r \in {"R5"} : st.replies # 1} \cup {r \in {"R8"} : ~ st.terminal} }]

RepliesOnly(st) ==
    [st EXCEPT !.fired = @ \cup { <<st.n - 1, rule>> : rule \in {r \in {"R5"} : st.replies # 1} }]

\* What check does after its loop.
Close(st) ==
    [st EXCEPT !.fired = @ \cup { <<st.n - 1, rule>> : rule \in
        {r \in {"R5"} : st.replies # 1} \cup {r \in {"R8"} : ~ st.terminal} }]

\* The first of the violations, as check sorts them.
First(fired) ==
    CHOOSE v \in fired : \A w \in fired :
        v[1] < w[1] \/ (v[1] = w[1] /\ Priority[v[2]] =< Priority[w[2]])

\* ProgrammaticJudge.judge, confidence in hundredths.
Judged(st) ==
    IF st.fired = {}
    THEN [faulty |-> FALSE, step |-> None, type |-> "none", confidence |-> 60]
    ELSE [faulty |-> TRUE, step |-> First(st.fired)[1],
          type |-> RuleType[First(st.fired)[2]], confidence |-> 95]
=============================================================================
