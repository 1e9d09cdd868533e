------------------------------ MODULE Sequence -------------------------------
(* The baseline of the paper that reads no amount and no reply                 *)
(* (sequence_rule of analysis/paired_ci.py): it flags a run whose calls are    *)
(* not the procedure's, one after the other.  A run is the list of its calls,  *)
(* at an instance; of an answer the rule reads only the item of the order.     *)
EXTENDS World, SequencesExt

Wanted == <<"get_customer", "lookup_order", "get_policy", "check_eligibility">>

Endings == {<<"issue_refund", "reply">>, <<"escalate", "reply">>}

ToolsOf(list) == [k \in DOMAIN list |-> list[k].tool]

LookedUp(i, call) == "sku" \in Observe(i, Opened(i), call).ids

\* violates: nothing but the procedure.
Strays(i, list) ==
    \/ ~ IsPrefix(Wanted, ToolsOf(list))
    \/ ~ LookedUp(i, list[2]) \/ list[3].id # "sku"
    \/ SubSeq(ToolsOf(list), 5, Len(list)) \notin Endings

\* The loop of violates_lenient: how far a run has come after a call, which item it knows of,
\* and whether it asked for the policy of another.
Advance(i, at, call) ==
    IF at.done < 4 /\ call.tool = Wanted[at.done + 1]
    THEN [ done  |-> at.done + 1,
           knows |-> at.knows \/ (call.tool = "lookup_order" /\ LookedUp(i, call)),
           wrong |-> at.wrong \/ (call.tool = "get_policy" /\ ~ (at.knows /\ call.id = "sku")) ]
    ELSE IF at.done = 4 /\ call.tool \in {"issue_refund", "escalate"}
         THEN [at EXCEPT !.done = 5]
         ELSE at

\* violates_lenient: calls beside the procedure's are allowed.
StraysFar(i, list) ==
    LET end == FoldLeft(LAMBDA at, call : Advance(i, at, call),
                        [done |-> 0, knows |-> FALSE, wrong |-> FALSE], list)
    IN  end.wrong \/ end.done < 5 \/ Last(list).tool # "reply"
=============================================================================
