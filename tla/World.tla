-------------------------------- MODULE World --------------------------------
(* The refund desk an agent works at (env/world.py): one customer, one order,  *)
(* one policy, and tools that do what they are asked.  The desk is permissive: *)
(* no tool asks whether another was called before it.                          *)
(*                                                                             *)
(* Amounts are cents.  An identifier is one of Ids: those of the customer who   *)
(* asks, of the order and of the item, those of somebody else, one that nobody *)
(* has, and the words of a reason.                                             *)
EXTENDS Integers

CONSTANTS Totals,   \* order totals
          Fees,     \* restocking fees, percent
          Windows,  \* refund windows, days
          Overrun   \* days an expired order is late by

ASSUME TotalsAssumption == Totals \subseteq Nat /\ \A total \in Totals : total >= 2400
ASSUME FeesAssumption == Fees \subseteq Nat /\ \A fee \in Fees : 0 < fee /\ fee < 100
ASSUME WindowsAssumption == Windows \subseteq Nat \ {0} /\ Overrun \subseteq Nat \ {0}

Tools == {"get_customer", "lookup_order", "get_policy", "check_eligibility",
          "issue_refund", "escalate", "reply"}

Difficulties == {"happy", "restocking", "expired", "non_refundable",
                 "wrong_customer", "already_refunded"}

Ids == {"email", "asker", "order", "sku", "other email", "other", "nobody", "words"}

\* A call has all the arguments there are; a tool reads its own.
Call == [tool : Tools \cup {"none"}, id : Ids, amount : Int]

\* ids and nums are the identifiers and the numbers in the data, those the grounding
\* rule can look for; eligible and amount are what a check and a refund decide.
Observation == [ok : BOOLEAN, ids : SUBSET Ids, nums : SUBSET Int,
                eligible : BOOLEAN, amount : Int]

Net(total, fee) == (total * (100 - fee) + 50) \div 100

-----------------------------------------------------------------------------
(* Instances *)

Instance == [difficulty : Difficulties, total : Totals, fee : Fees \cup {0},
             window : Windows, days : Nat, refundable : BOOLEAN,
             owner : {"asker", "other"}, status : {"delivered", "refunded"}]

\* _make_instance, one for every draw.
MakeInstance(difficulty, total, fee, window, days, overrun) ==
    [ difficulty |-> difficulty,
      total      |-> total,
      fee        |-> IF difficulty = "restocking" THEN fee ELSE 0,
      window     |-> window,
      days       |-> IF difficulty = "expired" THEN window + overrun ELSE days,
      refundable |-> difficulty # "non_refundable",
      owner      |-> IF difficulty = "wrong_customer" THEN "other" ELSE "asker",
      status     |-> IF difficulty = "already_refunded" THEN "refunded" ELSE "delivered" ]

Instances ==
    UNION { { MakeInstance(d, total, fee, window, days, overrun) :
                d \in Difficulties, total \in Totals, fee \in Fees,
                days \in 1 .. window, overrun \in Overrun } : window \in Windows }

\* The correct end state.
Refunds(amount) == [action |-> "refund", amount |-> amount]
Escalates == [action |-> "escalate", amount |-> 0]
DoesNothing == [action |-> "none", amount |-> 0]

Expected(i) ==
    IF i.difficulty \in {"happy", "restocking"} THEN Refunds(Net(i.total, i.fee)) ELSE Escalates

-----------------------------------------------------------------------------
(* The tools.  The state of the desk is the order's status and what was paid.  *)
(* The data of an escalation echo the reason the agent gave.                   *)

Desk == [status : {"delivered", "refunded"}, paid : Int]

Opened(i) == [status |-> i.status, paid |-> 0]

MaxRefund(i) == Net(i.total, i.fee)

\* Plausible bug: nobody asks whose order it is.
OwnerUnread(i, desk) == desk.status # "refunded" /\ i.refundable /\ i.days =< i.window

Eligible(i, desk) ==
    /\ desk.status # "refunded"
    /\ i.refundable
    /\ i.days =< i.window
    /\ i.owner = "asker"

\* Plausible bug: a refund comes back as a fresh order's would.
PaysTwice(i, desk, call) ==
    call.tool = "issue_refund" /\ call.id = "order" /\ 0 < call.amount /\ call.amount =< i.total

\* What issue_refund accepts.
Pays(i, desk, call) ==
    /\ call.tool = "issue_refund"
    /\ call.id = "order"
    /\ desk.status # "refunded"
    /\ 0 < call.amount /\ call.amount =< i.total

\* The calls a tool answers; any other raises ToolError.
Answers(i, desk, call) ==
    \/ call.tool = "get_customer" /\ call.id \in {"email", "other email"}
    \/ call.tool \in {"lookup_order", "check_eligibility"} /\ call.id = "order"
    \/ call.tool = "get_policy" /\ call.id = "sku"
    \/ Pays(i, desk, call)
    \/ call.tool \in {"escalate", "reply"}

\* The identifiers an answer holds, and its numbers.
TellsId(i, call, id) ==
    \/ call.tool = "get_customer" /\ <<call.id, id>> \in {<<"email", "asker">>, <<"other email", "other">>}
    \/ call.tool = "lookup_order" /\ call.id = "order" /\ id \in {"order", i.owner, "sku"}
    \/ call.tool = "get_policy" /\ call.id = "sku" /\ id = "sku"
    \/ call.tool = "escalate" /\ id = call.id

Passes(i, desk, call) == call.tool = "check_eligibility" /\ call.id = "order" /\ Eligible(i, desk)

Figure(i, desk, call) ==
    IF Passes(i, desk, call) THEN MaxRefund(i) ELSE IF Pays(i, desk, call) THEN call.amount ELSE 0

Figures(i, desk, call) ==
    IF call.tool = "lookup_order" THEN {i.total, 100 * i.days}
    ELSE IF call.tool = "get_policy" THEN {100 * i.window, 100 * i.fee}
    ELSE IF call.tool \in {"check_eligibility", "issue_refund"} THEN {Figure(i, desk, call)}
    ELSE {}

\* World.call
Observe(i, desk, call) ==
    [ ok       |-> Answers(i, desk, call),
      ids      |-> {id \in Ids : TellsId(i, call, id)},
      nums     |-> {num \in Figures(i, desk, call) : Answers(i, desk, call)},
      eligible |-> Passes(i, desk, call),
      amount   |-> Figure(i, desk, call) ]

\* What a call leaves behind.
After(i, desk, call) ==
    IF Pays(i, desk, call) THEN [status |-> "refunded", paid |-> call.amount] ELSE desk
=============================================================================
