------------------------------ MODULE Procedure ------------------------------
(* The procedure every judge is told (PROCEDURE in judges/llm.py), as the       *)
(* orders of action it leaves open: what a correct agent promises.             *)
EXTENDS Integers

CONSTANT Nothing  \* no check has been made, or it said no

VARIABLES known,     \* what the agent has established
          allowed,   \* the amount a check authorised
          resolved,  \* what became of the request: "open", "refund", "escalate"
          refund,    \* the amount refunded
          replied

vars == <<known, allowed, resolved, refund, replied>>

Init ==
    /\ known = {}
    /\ allowed = Nothing
    /\ resolved = "open"
    /\ refund = 0
    /\ replied = FALSE

Learn(fact) ==
    /\ ~ replied
    /\ known' = known \cup {fact}

\* 1 to 3: who the customer is, the order, and the policy for the item on the order.
VerifyCustomer == Learn("customer") /\ UNCHANGED <<allowed, resolved, refund, replied>>
LookUpOrder == Learn("order") /\ UNCHANGED <<allowed, resolved, refund, replied>>
ReadPolicy == "order" \in known /\ Learn("policy") /\ UNCHANGED <<allowed, resolved, refund, replied>>

\* 4: the check, of an order that was looked up.
Confirm ==
    /\ "order" \in known
    /\ Learn("eligibility")
    /\ allowed' \in Nat \cup {Nothing}
    /\ UNCHANGED <<resolved, refund, replied>>

\* 5 and 6: money moves by what the check authorised, or a human takes over.
Ready == known = {"customer", "order", "policy", "eligibility"} /\ resolved = "open"

RefundAllowed ==
    /\ Ready /\ allowed # Nothing
    /\ resolved' = "refund"
    /\ refund' = allowed
    /\ UNCHANGED <<known, allowed, replied>>

Escalate ==
    /\ Ready /\ allowed = Nothing
    /\ resolved' = "escalate"
    /\ UNCHANGED <<known, allowed, refund, replied>>

\* 8: the reply comes last.
Reply ==
    /\ resolved # "open" /\ ~ replied
    /\ replied' = TRUE
    /\ UNCHANGED <<known, allowed, resolved, refund>>

Next ==
    \/ VerifyCustomer \/ LookUpOrder \/ ReadPolicy
    \/ Confirm
    \/ RefundAllowed \/ Escalate \/ Reply

Spec == Init /\ [][Next]_vars
=============================================================================
