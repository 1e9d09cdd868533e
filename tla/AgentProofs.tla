----------------------------- MODULE AgentProofs ------------------------------
(* The theorems about Agent and Faults, for all totals, fees, windows, agents  *)
(* and lengths of an episode, and for every rounding of a cent.                *)
EXTENDS Faults, Counting, SequenceTheorems

Eligibles == {"happy", "restocking"}

\* A call an agent can make, amounts being no negative numbers.
RealCall(call) == call \in [tool : Tools \cup {"none"}, id : Ids, amount : Nat]

\* What a fee leaves is some money.
LEMMA NetIsNat ==
    ASSUME NEW total \in Nat, NEW fee \in Nat, fee =< 100 PROVE Net(total, fee) \in Nat
<1>1. 100 - fee \in Nat
  OBVIOUS
<1>2. total * (100 - fee) \in Nat
  BY <1>1
<1>3. \A p \in Nat : (p + 50) \div 100 \in Nat
  OBVIOUS
<1> QED
  BY <1>2, <1>3 DEF Net

\* Without a fee all of the total comes back, and a fee leaves a cent or more of it.
LEMMA NetIsLess ==
    ASSUME NEW total \in Nat, total >= 2400, NEW fee \in Nat, fee < 100
    PROVE  /\ fee = 0 => Net(total, fee) = total
           /\ fee > 0 => Net(total, fee) + 1 =< total
           /\ Net(total, fee) > 1
<1> DEFINE p == total * (100 - fee)
<1>1. p \in Nat /\ p >= total
  OBVIOUS
<1>2. fee = 0 => p = 100 * total
  OBVIOUS
<1>3. fee > 0 => p =< 99 * total
  OBVIOUS
<1>4. Net(total, fee) = (p + 50) \div 100
  BY DEF Net
<1> HIDE DEF p
<1>5. Net(total, fee) > 1
  BY <1>1, <1>4
<1>6. fee = 0 => Net(total, fee) = total
  BY <1>1, <1>2, <1>4
<1>7. fee > 0 => Net(total, fee) + 1 =< total
  BY <1>1, <1>3, <1>4
<1> QED
  BY <1>5, <1>6, <1>7

\* What every draw gives: a record of its type, refundable by its difficulty alone.
LEMMA InstanceFacts ==
    ASSUME NEW i \in Instances
    PROVE  /\ i.total \in Nat /\ i.total >= 2400 /\ i.fee \in Nat /\ i.fee < 100
           /\ i.window \in Nat /\ i.days \in Nat
           /\ i.owner \in {"asker", "other"} /\ i.status \in {"delivered", "refunded"}
           /\ i.difficulty \in Eligibles <=> Eligible(i, Opened(i))
           /\ i.difficulty \in Eligibles => Expected(i) = Refunds(MaxRefund(i))
           /\ i.difficulty \notin Eligibles => Expected(i) = Escalates
<1>1. PICK window \in Windows :
         i \in { MakeInstance(d, total, fee, window, days, overrun) :
                 d \in Difficulties, total \in Totals, fee \in Fees,
                 days \in 1 .. window, overrun \in Overrun }
  BY DEF Instances
<1>2. PICK d \in Difficulties, total \in Totals, fee \in Fees, days \in 1 .. window,
           overrun \in Overrun : i = MakeInstance(d, total, fee, window, days, overrun)
  BY <1>1
<1>3. total \in Nat /\ total >= 2400
  BY TotalsAssumption
<1>4. fee \in Nat /\ fee < 100
  BY FeesAssumption
<1>5. window \in Nat \ {0} /\ overrun \in Nat \ {0}
  BY WindowsAssumption
<1>6. days \in Nat /\ days =< window
  BY <1>5
<1>7. /\ i.difficulty = d /\ i.total = total /\ i.window = window
      /\ i.fee = (IF d = "restocking" THEN fee ELSE 0)
      /\ i.days = (IF d = "expired" THEN window + overrun ELSE days)
      /\ i.refundable = (d # "non_refundable")
      /\ i.owner = (IF d = "wrong_customer" THEN "other" ELSE "asker")
      /\ i.status = (IF d = "already_refunded" THEN "refunded" ELSE "delivered")
  BY <1>2 DEF MakeInstance
<1>8. i.total \in Nat /\ i.total >= 2400 /\ i.window \in Nat
  BY <1>3, <1>5, <1>7
<1>9. i.fee \in Nat /\ i.fee < 100
  BY <1>4, <1>7
<1>10. i.days \in Nat
  BY <1>5, <1>6, <1>7
<1>11. i.owner \in {"asker", "other"} /\ i.status \in {"delivered", "refunded"}
  BY <1>7
<1>12. i.days =< i.window <=> d # "expired"
  BY <1>5, <1>6, <1>7
<1>13. Opened(i).status = i.status
  BY DEF Opened
<1>14. Eligible(i, Opened(i)) <=> d \notin {"already_refunded", "non_refundable", "expired", "wrong_customer"}
  BY <1>7, <1>12, <1>13 DEF Eligible
<1>15. i.difficulty \in Eligibles <=> Eligible(i, Opened(i))
  BY <1>7, <1>14 DEF Eligibles, Difficulties
<1>16. i.difficulty \in Eligibles => Expected(i) = Refunds(MaxRefund(i))
  BY DEF Expected, MaxRefund, Eligibles
<1>17. i.difficulty \notin Eligibles => Expected(i) = Escalates
  BY DEF Expected, Eligibles
<1> QED
  BY <1>8, <1>9, <1>10, <1>11, <1>15, <1>16, <1>17

\* What may be refunded is some money, all of the total or a cent less at least.
LEMMA MaxRefundFacts ==
    ASSUME NEW i \in Instances
    PROVE  /\ MaxRefund(i) \in Nat /\ MaxRefund(i) > 1
           /\ MaxRefund(i) = i.total \/ MaxRefund(i) + 1 =< i.total
<1>1. i.total \in Nat /\ i.total >= 2400 /\ i.fee \in Nat /\ i.fee < 100
  BY InstanceFacts
<1>2. Net(i.total, i.fee) \in Nat
  BY <1>1, NetIsNat
<1>3. /\ i.fee = 0 => Net(i.total, i.fee) = i.total
      /\ i.fee > 0 => Net(i.total, i.fee) + 1 =< i.total
      /\ Net(i.total, i.fee) > 1
  BY <1>1, NetIsLess
<1> QED
  BY <1>1, <1>2, <1>3 DEF MaxRefund

\* What the desk answers, field by field.
LEMMA ObserveFields ==
    ASSUME NEW i, NEW d, NEW call
    PROVE  /\ Observe(i, d, call).ok = Answers(i, d, call)
           /\ Observe(i, d, call).ids = {id \in Ids : TellsId(i, call, id)}
           /\ Observe(i, d, call).nums = {num \in Figures(i, d, call) : Answers(i, d, call)}
           /\ Observe(i, d, call).eligible = Passes(i, d, call)
           /\ Observe(i, d, call).amount = Figure(i, d, call)
BY DEF Observe

\* What the desk may answer a call an agent can make.
LEMMA ObserveFacts ==
    ASSUME NEW i \in Instances, NEW d \in Desk, NEW call, RealCall(call)
    PROVE  /\ Observe(i, d, call).ok \in BOOLEAN /\ Observe(i, d, call).eligible \in BOOLEAN
           /\ Observe(i, d, call).ids \subseteq Ids
           /\ Observe(i, d, call).nums \subseteq Nat
           /\ Observe(i, d, call).amount \in Nat
           /\ call.tool = "issue_refund" => (Observe(i, d, call).ok <=> Pays(i, d, call))
           /\ Pays(i, d, call) => Observe(i, d, call).amount = call.amount
           /\ call.tool = "escalate" => Observe(i, d, call).ok
           /\ call.tool = "check_eligibility" /\ Observe(i, d, call).eligible =>
                 Eligible(i, d) /\ Observe(i, d, call).amount = MaxRefund(i)
           /\ {"nobody", "other email"} \cap Observe(i, d, call).ids # {} => call.tool = "escalate"
           /\ call.tool = "get_customer" /\ Observe(i, d, call).ok /\ "asker" \notin Observe(i, d, call).ids
                 => call.id = "other email"
<1>1. call.amount \in Nat
  BY DEF RealCall
<1>2. i.total \in Nat /\ i.days \in Nat /\ i.window \in Nat /\ i.fee \in Nat
  BY InstanceFacts
<1>3. i.owner \in {"asker", "other"}
  BY InstanceFacts
<1>4. MaxRefund(i) \in Nat
  BY MaxRefundFacts
<1>5. Answers(i, d, call) \in BOOLEAN
  BY DEF Answers
<1>6. Figure(i, d, call) \in Nat
  BY <1>1, <1>4 DEF Figure
<1>7. 100 * i.days \in Nat /\ 100 * i.window \in Nat /\ 100 * i.fee \in Nat
  BY <1>2
<1>8. Figures(i, d, call) \subseteq Nat
  BY <1>2, <1>6, <1>7 DEF Figures
<1>9. call.tool = "issue_refund" => (Answers(i, d, call) <=> Pays(i, d, call))
  BY DEF Answers
<1>10. Pays(i, d, call) => Figure(i, d, call) = call.amount
  BY DEF Figure, Pays, Passes
<1>11. call.tool = "escalate" => Answers(i, d, call)
  BY DEF Answers
<1>12. Passes(i, d, call) => Eligible(i, d) /\ Figure(i, d, call) = MaxRefund(i)
  BY DEF Passes, Figure
<1>13. TellsId(i, call, "nobody") \/ TellsId(i, call, "other email") => call.tool = "escalate"
  BY <1>3 DEF TellsId
<1>14. {"nobody", "other email"} \cap {id \in Ids : TellsId(i, call, id)} # {} =>
         call.tool = "escalate"
  BY <1>13
<1>15. /\ Observe(i, d, call).ok \in BOOLEAN
       /\ call.tool = "issue_refund" => (Observe(i, d, call).ok <=> Pays(i, d, call))
       /\ call.tool = "escalate" => Observe(i, d, call).ok
  BY <1>5, <1>9, <1>11, ObserveFields
<1>16. /\ Observe(i, d, call).ids \subseteq Ids
       /\ {"nobody", "other email"} \cap Observe(i, d, call).ids # {} => call.tool = "escalate"
  BY <1>14, ObserveFields
<1>17. Observe(i, d, call).nums \subseteq Nat
  BY <1>8, ObserveFields
<1>18. /\ Observe(i, d, call).amount \in Nat
       /\ Pays(i, d, call) => Observe(i, d, call).amount = call.amount
  BY <1>6, <1>10, ObserveFields
<1>19. Observe(i, d, call).eligible =>
         Eligible(i, d) /\ Observe(i, d, call).amount = MaxRefund(i)
  BY <1>12, ObserveFields
<1>20. Observe(i, d, call).eligible \in BOOLEAN
  BY ObserveFields DEF Passes
<1>21. call.tool = "get_customer" /\ Answers(i, d, call) /\ ~ TellsId(i, call, "asker") =>
         call.id = "other email"
  BY DEF Answers, TellsId, Pays
<1>22. call.tool = "get_customer" /\ Observe(i, d, call).ok /\ "asker" \notin Observe(i, d, call).ids
         => call.id = "other email"
  BY <1>21, ObserveFields DEF Ids
<1> QED
  BY <1>15, <1>16, <1>17, <1>18, <1>19, <1>20, <1>22

\* What the end of an episode adds is violations.
LEMMA AllowedFacts ==
    ASSUME NEW s, NEW call, NEW obs, obs.eligible \in BOOLEAN, obs.ok \in BOOLEAN
    PROVE  \/ Allowed(s, call, obs) = s.allowed
           \/ /\ call.tool = "check_eligibility" /\ obs.eligible
              /\ Allowed(s, call, obs) = obs.amount
BY DEF Allowed

\* What the end of an episode leaves as it was.
LEMMA CloseFields ==
    ASSUME NEW st, "fired" \in DOMAIN st
    PROVE  /\ Close(st).n = st.n /\ Close(st).ids = st.ids /\ Close(st).nums = st.nums
           /\ Close(st).allowed = st.allowed /\ Close(st).refunded = st.refunded
           /\ Close(st).terminal = st.terminal /\ Close(st).verified = st.verified
           /\ Close(st).fired = st.fired \cup { <<st.n - 1, rule>> : rule \in
                 {r \in {"R5"} : st.replies # 1} \cup {r \in {"R8"} : ~ st.terminal} }
BY DEF Close

\* Of the rules broken at one step, one comes first.
LEMMA FirstRule ==
    ASSUME NEW B \in SUBSET Rules, B # {}
    PROVE  \E r \in B : \A q \in B : Priority[r] =< Priority[q]
<1>1. \A r \in B : r \in {"R1", "R2", "R3", "R4", "R5", "R6", "R7", "R8"}
  BY DEF Rules
<1>2. /\ Priority["R4"] = 1 /\ Priority["R1"] = 2 /\ Priority["R6"] = 3 /\ Priority["R7"] = 4
      /\ Priority["R2"] = 5 /\ Priority["R3"] = 6 /\ Priority["R5"] = 7 /\ Priority["R8"] = 8
  BY DEF Priority
<1> QED
  BY <1>1, <1>2

-----------------------------------------------------------------------------
(* The inductive invariant *)

\* The types.
Typed ==
    /\ instance \in Instances
    /\ desk \in Desk
    /\ seen.n \in Nat
    /\ seen.ids \subseteq Ids /\ seen.nums \subseteq Nat
    /\ seen.allowed \in Nat \cup {None}
    /\ seen.terminal \in BOOLEAN
    /\ seen.verified \in {"words", "asker", "other"}
    /\ acted \in [refunded : BOOLEAN, amount : Nat, escalated : BOOLEAN]

\* The violations are at steps of the trajectory.
InSteps == \A v \in seen.fired : v \in Nat \X Rules /\ v[1] < seen.n

\* One of the violations comes first.
Comes(v, w) == v[1] < w[1] \/ (v[1] = w[1] /\ Priority[v[2]] =< Priority[w[2]])

HasFirst == seen.fired # {} => \E v \in seen.fired : \A w \in seen.fired : Comes(v, w)

\* Somebody else's account is read after an escalation or a violation, and a refund to the
\* account's order has a violation before it.
Led ==
    /\ seen.verified = "other" => acted.escalated \/ seen.fired # {}
    /\ \A v \in seen.fired :
          v[2] = "R6" => acted.escalated \/ \E w \in seen.fired : ~ Comes(v, w)

\* The desk pays once, and the steps tell what it paid.
PaidOnce ==
    /\ acted.refunded => /\ desk.status = "refunded"
                         /\ desk.paid = acted.amount /\ acted.amount > 0
                         /\ "order" \in seen.refunded
    /\ ~ acted.refunded => desk.paid = 0 /\ desk.status = instance.status

\* An authorisation is one for what the order is worth.
AllowedIsRight ==
    seen.allowed # None =>
        instance.difficulty \in Eligibles /\ seen.allowed = MaxRefund(instance)

\* Without a violation, a refund that was paid is the right one, and what ended the case was
\* a refund, an escalation, or a refund of a cent more than the total.
CleanSoFar ==
    seen.fired = {} =>
        /\ acted.refunded =>
              instance.difficulty \in Eligibles /\ Near(acted.amount, MaxRefund(instance))
        /\ seen.terminal =>
              \/ acted.refunded
              \/ acted.escalated
              \/ /\ instance.difficulty \in Eligibles
                 /\ Near(instance.total, instance.total + 1)

\* An episode that is over has its terminal action, or a violation for it.
Closed == over /\ seen.fired = {} => seen.terminal

IInv ==
    /\ Typed /\ InSteps /\ HasFirst /\ PaidOnce /\ AllowedIsRight /\ CleanSoFar /\ Closed
    /\ OnlyEscalationsGround /\ Led

\* The invariant holds at the start, and after every call.
LEMMA InitHolds == Begin => IInv
<1> SUFFICES ASSUME Begin PROVE IInv
  OBVIOUS
<1>1. /\ instance \in Instances /\ desk = Opened(instance) /\ seen = Unread
      /\ acted = Nothing /\ over = FALSE
  BY DEF Begin
<1>2. instance.status \in {"delivered", "refunded"}
  BY <1>1, InstanceFacts
<1>3. desk \in Desk /\ desk.status = instance.status /\ desk.paid = 0
  BY <1>1, <1>2 DEF Opened, Desk
<1>4. /\ seen.n = 0 /\ seen.ids = {"email", "order"} /\ seen.nums = {}
      /\ seen.allowed = None /\ seen.terminal = FALSE /\ seen.fired = {} /\ seen.verified = "words"
  BY <1>1 DEF Unread
<1>5. acted.refunded = FALSE /\ acted \in [refunded : BOOLEAN, amount : Nat, escalated : BOOLEAN]
  BY <1>1 DEF Nothing
<1>6. seen.ids \subseteq Ids
  BY <1>4 DEF Ids
<1>7. seen.n \in Nat
  BY <1>4
<1>8. seen.nums \subseteq Nat
  BY <1>4
<1>9. seen.allowed \in Nat \cup {None}
  BY <1>4
<1>10. seen.terminal \in BOOLEAN
  BY <1>4
<1>11. seen.verified \in {"words", "asker", "other"}
  BY <1>4
<1>12. Typed
  BY <1>1, <1>3, <1>5, <1>6, <1>7, <1>8, <1>9, <1>10, <1>11 DEF Typed
<1>13. InSteps /\ HasFirst /\ PaidOnce /\ AllowedIsRight /\ CleanSoFar /\ Closed
  BY <1>1, <1>3, <1>4, <1>5 DEF InSteps, HasFirst, PaidOnce, AllowedIsRight, CleanSoFar, Closed
<1>14. OnlyEscalationsGround
  BY <1>4 DEF OnlyEscalationsGround
<1>15. Led
  BY <1>4 DEF Led
<1> QED
  BY <1>12, <1>13, <1>14, <1>15 DEF IInv

LEMMA PlayKeeps ==
    ASSUME IInv, NEW call, RealCall(call), NEW last \in BOOLEAN, Play(call, last)
    PROVE  IInv'
<1> DEFINE obs == Observe(instance, desk, call)
           st == See(instance, seen, call, obs, last)
<1>1. /\ desk' = After(instance, desk, call)
      /\ seen' = (IF last THEN Close(st) ELSE st)
      /\ acted' = Acted(call, obs)
      /\ over' = last
      /\ instance' = instance
  BY DEF Play
<1>2. /\ instance \in Instances /\ desk \in Desk /\ seen.n \in Nat
      /\ seen.ids \subseteq Ids /\ seen.nums \subseteq Nat
      /\ seen.allowed \in Nat \cup {None} /\ seen.terminal \in BOOLEAN
      /\ seen.verified \in {"words", "asker", "other"}
      /\ acted \in [refunded : BOOLEAN, amount : Nat, escalated : BOOLEAN]
  BY DEF IInv, Typed
<1>3. call.tool \in Tools \cup {"none"} /\ call.id \in Ids /\ call.amount \in Nat
  BY DEF RealCall
<1>4. /\ obs.ok \in BOOLEAN /\ obs.ids \subseteq Ids /\ obs.nums \subseteq Nat /\ obs.amount \in Nat
      /\ call.tool = "issue_refund" => (obs.ok <=> Pays(instance, desk, call))
      /\ Pays(instance, desk, call) => obs.amount = call.amount
      /\ call.tool = "escalate" => obs.ok
  BY <1>2, ObserveFacts
<1>5. /\ obs.eligible \in BOOLEAN
      /\ call.tool = "check_eligibility" /\ obs.eligible =>
            Eligible(instance, desk) /\ obs.amount = MaxRefund(instance)
      /\ {"nobody", "other email"} \cap obs.ids # {} => call.tool = "escalate"
      /\ call.tool = "get_customer" /\ obs.ok /\ "asker" \notin obs.ids => call.id = "other email"
  BY <1>2, ObserveFacts
<1> HIDE DEF obs
<1>6. /\ st.n = seen.n + 1 /\ st.ids = seen.ids \cup obs.ids /\ st.nums = seen.nums \cup obs.nums
      /\ st.allowed = Allowed(seen, call, obs)
      /\ st.refunded = (IF call.tool = "issue_refund" /\ obs.ok
                        THEN seen.refunded \cup {call.id} ELSE seen.refunded)
      /\ st.verified = (IF call.tool = "get_customer" /\ obs.ok
                        THEN IF "asker" \in obs.ids THEN "asker" ELSE "other" ELSE seen.verified)
      /\ st.terminal = (seen.terminal \/ call.tool \in {"issue_refund", "escalate"})
      /\ st.fired = seen.fired \cup { <<seen.n, rule>> : rule \in Broken(instance, seen, call, last) }
      /\ "fired" \in DOMAIN st
  BY DEF See
<1>7. /\ Close(st).n = st.n /\ Close(st).ids = st.ids /\ Close(st).nums = st.nums
      /\ Close(st).allowed = st.allowed /\ Close(st).refunded = st.refunded
      /\ Close(st).terminal = st.terminal /\ Close(st).verified = st.verified
      /\ Close(st).fired = st.fired \cup { <<st.n - 1, rule>> : rule \in
            {r \in {"R5"} : st.replies # 1} \cup {r \in {"R8"} : ~ st.terminal} }
  BY <1>6, CloseFields
<1> HIDE DEF st
<1>8. /\ seen'.n = seen.n + 1
      /\ seen'.ids = seen.ids \cup obs.ids /\ seen'.nums = seen.nums \cup obs.nums
      /\ seen'.allowed = Allowed(seen, call, obs)
      /\ seen'.refunded = (IF call.tool = "issue_refund" /\ obs.ok
                           THEN seen.refunded \cup {call.id} ELSE seen.refunded)
      /\ seen'.terminal = (seen.terminal \/ call.tool \in {"issue_refund", "escalate"})
      /\ seen'.verified = (IF call.tool = "get_customer" /\ obs.ok
                           THEN IF "asker" \in obs.ids THEN "asker" ELSE "other" ELSE seen.verified)
  BY <1>1, <1>6, <1>7
<1>9. st.fired \subseteq seen'.fired
  BY <1>1, <1>7
<1>10. seen'.fired = {} => seen.fired = {} /\ Broken(instance, seen, call, last) = {}
  BY <1>6, <1>9
<1>11. seen'.fired = {} /\ last => seen'.terminal
  BY <1>1, <1>7
<1>12. /\ acted'.refunded = (acted.refunded \/ (call.tool = "issue_refund" /\ obs.ok))
       /\ acted'.amount = (IF ~ acted.refunded /\ call.tool = "issue_refund" /\ obs.ok
                           THEN obs.amount ELSE acted.amount)
       /\ acted'.escalated = (acted.escalated \/ (call.tool = "escalate" /\ obs.ok))
       /\ acted' \in [refunded : BOOLEAN, amount : Nat, escalated : BOOLEAN]
  BY <1>1, <1>2, <1>4 DEF Acted
<1>13. MaxRefund(instance) \in Nat /\ MaxRefund(instance) > 1
  BY <1>2, MaxRefundFacts
<1>14. \/ MaxRefund(instance) = instance.total
       \/ MaxRefund(instance) + 1 =< instance.total
  BY <1>2, MaxRefundFacts
<1>15. instance.total \in Nat
  BY <1>2, InstanceFacts
<1>16. ASSUME Pays(instance, desk, call)
       PROVE  /\ call.tool = "issue_refund" /\ call.id = "order" /\ desk.status # "refunded"
              /\ 0 < call.amount /\ call.amount =< instance.total
              /\ ~ acted.refunded
              /\ desk'.status = "refunded" /\ desk'.paid = call.amount /\ desk' \in Desk
              /\ acted'.refunded /\ acted'.amount = call.amount
              /\ "order" \in seen'.refunded
  <2>1. /\ call.tool = "issue_refund" /\ call.id = "order" /\ desk.status # "refunded"
        /\ 0 < call.amount /\ call.amount =< instance.total
    BY <1>16 DEF Pays
  <2>2. ~ acted.refunded
    BY <2>1 DEF IInv, PaidOnce
  <2>3. /\ desk'.status = "refunded" /\ desk'.paid = call.amount /\ desk' \in Desk
    BY <1>1, <1>3, <1>16 DEF After, Desk
  <2>4. acted'.refunded /\ acted'.amount = call.amount
    BY <1>4, <1>12, <1>16, <2>1, <2>2
  <2>5. "order" \in seen'.refunded
    BY <1>4, <1>8, <1>16, <2>1
  <2> QED
    BY <2>1, <2>2, <2>3, <2>4, <2>5
<1>17. ASSUME ~ Pays(instance, desk, call)
       PROVE  /\ desk' = desk
              /\ acted'.refunded = acted.refunded /\ acted'.amount = acted.amount
              /\ seen'.refunded = seen.refunded
  <2>1. desk' = desk
    BY <1>1, <1>17 DEF After
  <2>2. ~ (call.tool = "issue_refund" /\ obs.ok)
    BY <1>4, <1>17
  <2> QED
    BY <1>8, <1>12, <2>1, <2>2, <1>2
<1>18. \/ seen'.allowed = seen.allowed
       \/ Eligible(instance, desk) /\ seen'.allowed = MaxRefund(instance)
  <2>1. obs.eligible \in BOOLEAN /\ obs.ok \in BOOLEAN
    BY <1>4, <1>5
  <2>2. \/ Allowed(seen, call, obs) = seen.allowed
        \/ /\ call.tool = "check_eligibility" /\ obs.eligible
           /\ Allowed(seen, call, obs) = obs.amount
    BY <2>1, AllowedFacts
  <2>3. CASE Allowed(seen, call, obs) = seen.allowed
    BY <1>8, <2>3
  <2>4. CASE /\ call.tool = "check_eligibility" /\ obs.eligible
             /\ Allowed(seen, call, obs) = obs.amount
    BY <1>5, <1>8, <2>4
  <2> QED
    BY <2>2, <2>3, <2>4
<1>19. Typed'
  <2>1. desk' \in Desk
    BY <1>2, <1>16, <1>17
  <2>2. seen'.n \in Nat
    BY <1>2, <1>8
  <2>3. seen'.ids \subseteq Ids /\ seen'.nums \subseteq Nat
    BY <1>2, <1>4, <1>8
  <2>4. seen'.allowed \in Nat \cup {None}
    BY <1>2, <1>13, <1>18
  <2>5. seen'.terminal \in BOOLEAN
    BY <1>8
  <2>6. seen'.verified \in {"words", "asker", "other"}
    BY <1>2, <1>8
  <2> QED
    BY <1>1, <1>2, <1>12, <2>1, <2>2, <2>3, <2>4, <2>5, <2>6 DEF Typed
<1>20. InSteps'
  <2>1. ASSUME NEW v \in seen'.fired PROVE v \in Nat \X Rules /\ v[1] < seen'.n
    <3>1. \/ v \in seen.fired
          \/ \E rule \in Broken(instance, seen, call, last) : v = <<seen.n, rule>>
          \/ \E rule \in {"R5", "R8"} : v = <<st.n - 1, rule>>
      BY <1>1, <1>6, <1>7, <2>1
    <3>2. CASE v \in seen.fired
      BY <1>2, <1>8, <3>2 DEF IInv, InSteps
    <3>3. CASE \E rule \in Broken(instance, seen, call, last) : v = <<seen.n, rule>>
      BY <1>2, <1>8, <3>3 DEF Broken
    <3>4. CASE \E rule \in {"R5", "R8"} : v = <<st.n - 1, rule>>
      BY <1>2, <1>6, <1>8, <3>4 DEF Rules
    <3> QED
      BY <3>1, <3>2, <3>3, <3>4
  <2> QED
    BY <2>1 DEF InSteps
<1>21. PaidOnce'
  <2>1. CASE Pays(instance, desk, call)
    BY <1>16, <2>1 DEF PaidOnce
  <2>2. CASE ~ Pays(instance, desk, call)
    BY <1>1, <1>17, <2>2 DEF PaidOnce, IInv
  <2> QED
    BY <2>1, <2>2
<1>22. AllowedIsRight'
  <2>1. CASE seen'.allowed = seen.allowed
    BY <1>1, <2>1 DEF AllowedIsRight, IInv, MaxRefund
  <2>2. CASE Eligible(instance, desk) /\ seen'.allowed = MaxRefund(instance)
    <3>1. instance.refundable /\ instance.days =< instance.window /\ instance.owner = "asker"
      BY <2>2 DEF Eligible
    <3>2. desk.status # "refunded"
      BY <2>2 DEF Eligible
    <3>3. instance.status # "refunded"
      BY <3>2 DEF IInv, PaidOnce
    <3>4. Eligible(instance, Opened(instance))
      BY <3>1, <3>3 DEF Eligible, Opened
    <3>5. instance.difficulty \in Eligibles
      BY <1>2, <3>4, InstanceFacts
    <3> QED
      BY <1>1, <2>2, <3>5 DEF AllowedIsRight, MaxRefund
  <2> QED
    BY <1>18, <2>1, <2>2
<1>23. OnlyEscalationsGround'
  BY <1>4, <1>5, <1>8, <1>12 DEF IInv, OnlyEscalationsGround
<1>24. Closed'
  BY <1>1, <1>11 DEF Closed
<1>25. CleanSoFar'
  <2> SUFFICES ASSUME seen'.fired = {}
               PROVE  /\ acted'.refunded => /\ instance.difficulty \in Eligibles
                                            /\ Near(acted'.amount, MaxRefund(instance))
                      /\ seen'.terminal => \/ acted'.refunded
                                           \/ acted'.escalated
                                           \/ /\ instance.difficulty \in Eligibles
                                              /\ Near(instance.total, instance.total + 1)
    BY <1>1 DEF CleanSoFar, MaxRefund, Net
  <2>1. seen.fired = {} /\ Broken(instance, seen, call, last) = {}
    BY <1>10
  <2>2. /\ acted.refunded => /\ instance.difficulty \in Eligibles
                             /\ Near(acted.amount, MaxRefund(instance))
        /\ seen.terminal => \/ acted.refunded
                            \/ acted.escalated
                            \/ /\ instance.difficulty \in Eligibles
                               /\ Near(instance.total, instance.total + 1)
    BY <2>1 DEF IInv, CleanSoFar
  <2>3. CASE call.tool = "issue_refund"
    <3>1. "R1" \notin Broken(instance, seen, call, last) /\ "R2" \notin Broken(instance, seen, call, last)
          /\ "R7" \notin Broken(instance, seen, call, last)
      BY <2>1
    <3>2. Authorised(seen, call)
      BY <2>3, <3>1 DEF Broken, Rules
    <3>3. Near(call.amount, seen.allowed)
      BY <2>3, <3>1, <3>2 DEF Broken, Rules
    <3>4. ~ (call.id \in seen.refunded \/ instance.status = "refunded")
      BY <2>3, <3>1 DEF Broken, Rules
    <3>5. /\ call.id = "order" /\ instance.difficulty \in Eligibles
          /\ Near(call.amount, MaxRefund(instance))
      BY <3>2, <3>3 DEF Authorised, IInv, AllowedIsRight
    <3>6. CASE Pays(instance, desk, call)
      BY <1>16, <2>2, <3>5, <3>6
    <3>7. CASE ~ Pays(instance, desk, call)
      <4>1. desk.status # "refunded"
        BY <3>4, <3>5 DEF IInv, PaidOnce
      <4>2. call.amount = 0 \/ call.amount > instance.total
        BY <1>3, <1>15, <2>3, <3>5, <3>7, <4>1 DEF Pays
      <4>3. \/ call.amount = MaxRefund(instance)
            \/ call.amount = MaxRefund(instance) + 1
               /\ <<MaxRefund(instance), MaxRefund(instance) + 1>> \in CloseCents
            \/ MaxRefund(instance) = call.amount + 1
        BY <1>3, <1>13, <3>5, CloseCentsAssumption DEF Near
      <4>4. /\ call.amount = MaxRefund(instance) + 1 /\ MaxRefund(instance) = instance.total
            /\ <<MaxRefund(instance), MaxRefund(instance) + 1>> \in CloseCents
        BY <1>3, <1>13, <1>14, <1>15, <4>2, <4>3
      <4>5. Near(instance.total, instance.total + 1)
        BY <4>4 DEF Near
      <4> QED
        BY <1>17, <2>2, <3>5, <3>7, <4>5
    <3> QED
      BY <3>6, <3>7
  <2>4. CASE call.tool = "escalate"
    <3>1. ~ Pays(instance, desk, call)
      BY <2>4 DEF Pays
    <3> QED
      BY <1>4, <1>12, <1>17, <2>2, <2>4, <3>1
  <2>5. CASE call.tool \notin {"issue_refund", "escalate"}
    <3>1. ~ Pays(instance, desk, call)
      BY <2>5 DEF Pays
    <3> QED
      BY <1>8, <1>12, <1>17, <2>2, <2>5, <3>1
  <2> QED
    BY <2>3, <2>4, <2>5
<1>26. HasFirst'
  <2>1. PICK B \in SUBSET Rules : seen'.fired = seen.fired \cup { <<seen.n, rule>> : rule \in B }
    <3> DEFINE C == {r \in {"R5"} : st.replies # 1} \cup {r \in {"R8"} : ~ st.terminal}
               D == IF last THEN Broken(instance, seen, call, last) \cup C
                            ELSE Broken(instance, seen, call, last)
    <3>1. D \in SUBSET Rules
      BY DEF Broken, Rules
    <3>2. st.n - 1 = seen.n
      BY <1>2, <1>6
    <3>3. seen'.fired = seen.fired \cup { <<seen.n, rule>> : rule \in D }
      BY <1>1, <1>6, <1>7, <3>2
    <3> QED
      BY <3>1, <3>3
  <2>2. CASE seen.fired # {}
    <3>1. PICK v \in seen.fired : \A w \in seen.fired : Comes(v, w)
      BY <2>2 DEF IInv, HasFirst
    <3>2. v[1] < seen.n
      BY DEF IInv, InSteps
    <3>3. \A w \in seen'.fired : Comes(v, w)
      BY <2>1, <3>1, <3>2 DEF Comes
    <3> QED
      BY <2>1, <3>3 DEF HasFirst
  <2>3. CASE seen.fired = {} /\ B # {}
    <3>1. PICK r \in B : \A q \in B : Priority[r] =< Priority[q]
      BY <2>3, FirstRule
    <3>2. <<seen.n, r>> \in seen'.fired /\ \A w \in seen'.fired : Comes(<<seen.n, r>>, w)
      BY <2>1, <2>3, <3>1 DEF Comes
    <3> QED
      BY <3>2 DEF HasFirst
  <2>4. CASE seen.fired = {} /\ B = {}
    BY <2>1, <2>4 DEF HasFirst
  <2> QED
    BY <2>2, <2>3, <2>4
<1>27. \A rule \in Broken(instance, seen, call, last) : <<seen.n, rule>> \in seen'.fired
  BY <1>6, <1>9
<1>28. ASSUME acted.escalated PROVE acted'.escalated
  BY <1>12, <1>28
<1>29. Led'
  <2>1. ASSUME seen'.verified = "other" PROVE acted'.escalated \/ seen'.fired # {}
    <3>1. CASE seen.verified = "other"
      BY <1>6, <1>9, <1>28, <3>1 DEF IInv, Led
    <3>2. CASE seen.verified # "other"
      <4>1. call.tool = "get_customer" /\ call.id = "other email"
        BY <1>5, <1>8, <2>1, <3>2
      <4>2. CASE "other email" \in seen.ids
        BY <1>28, <4>2 DEF IInv, OnlyEscalationsGround
      <4>3. CASE "other email" \notin seen.ids
        <5>1. "R4" \in Broken(instance, seen, call, last)
          BY <4>1, <4>3 DEF Broken, Ungrounded, IdTools, Rules
        <5> QED
          BY <1>27, <5>1
      <4> QED
        BY <4>2, <4>3
    <3> QED
      BY <3>1, <3>2
  <2>2. ASSUME NEW v \in seen'.fired, v[2] = "R6", ~ acted'.escalated
        PROVE  \E w \in seen'.fired : ~ Comes(v, w)
    <3>1. ~ acted.escalated
      BY <1>28, <2>2
    <3>2. seen.fired \subseteq seen'.fired
      BY <1>6, <1>9
    <3>3. CASE v \in seen.fired
      BY <2>2, <3>1, <3>2, <3>3 DEF IInv, Led
    <3>4. CASE v \notin seen.fired
      <4>1. v = <<seen.n, "R6">> /\ "R6" \in Broken(instance, seen, call, last)
        BY <1>1, <1>2, <1>6, <1>7, <2>2, <3>4
      <4>2. /\ call.tool = "issue_refund" /\ seen.verified # "words"
            /\ instance.owner # seen.verified
        BY <4>1 DEF Broken
      <4>3. CASE "R1" \in Broken(instance, seen, call, last)
        <5>1. ~ Comes(v, <<seen.n, "R1">>)
          BY <1>2, <4>1 DEF Comes, Priority
        <5> QED
          BY <1>27, <4>3, <5>1
      <4>4. CASE "R1" \notin Broken(instance, seen, call, last)
        <5>1. seen.allowed # None
          BY <4>2, <4>4 DEF Broken, Rules, Authorised
        <5>2. instance.owner = "asker"
          BY <1>2, <5>1, InstanceFacts DEF IInv, AllowedIsRight, Eligible
        <5>3. seen.verified = "other"
          BY <4>2, <5>2 DEF IInv, Typed
        <5>4. PICK w \in seen.fired : TRUE
          BY <3>1, <5>3 DEF IInv, Led
        <5>5. w[1] < seen.n /\ w[1] \in Nat
          BY <5>4 DEF IInv, InSteps
        <5>6. ~ Comes(v, w)
          BY <1>2, <4>1, <5>5 DEF Comes
        <5> QED
          BY <3>2, <5>6
      <4> QED
        BY <4>3, <4>4
    <3> QED
      BY <3>3, <3>4
  <2> QED
    BY <2>1, <2>2 DEF Led, Comes
<1> QED
  BY <1>19, <1>20, <1>21, <1>22, <1>23, <1>24, <1>25, <1>26, <1>29 DEF IInv

\* Every call an agent makes is a real one.
LEMMA CallsAreReal == \A call \in Calls : RealCall(call)
<1>1. \A call \in Calls : call \in [tool : Tools \cup {"none"}, id : Named \cup {"words"},
                                    amount : Amounts \cup {0}]
  BY DEF Calls
<1>2. Named \cup {"words"} \subseteq Ids
  BY NamedAssumption DEF Ids
<1>3. Amounts \cup {0} \subseteq Nat
  BY AmountsAssumption
<1> QED
  BY <1>1, <1>2, <1>3 DEF RealCall

\* A step of an agent keeps the invariant.
LEMMA AgentKeeps == ASSUME IInv, [AgentNext]_episode PROVE IInv'
<1>1. CASE Turn
  <2>1. PICK call \in Calls : Play(call, call.tool = "reply" \/ seen.n + 1 = MaxSteps)
    BY <1>1 DEF Turn
  <2>2. RealCall(call)
    BY CallsAreReal
  <2>3. (call.tool = "reply" \/ seen.n + 1 = MaxSteps) \in BOOLEAN
    OBVIOUS
  <2> QED
    BY <2>1, <2>2, <2>3, PlayKeeps
<1>2. CASE Stall
  <2>1. RealCall([tool |-> "none", id |-> "words", amount |-> 0])
    BY DEF RealCall, Ids
  <2> QED
    BY <1>2, <2>1, PlayKeeps DEF Stall
<1>3. CASE UNCHANGED episode
  <2>1. /\ instance' = instance /\ desk' = desk /\ seen' = seen /\ acted' = acted
        /\ over' = over
    BY <1>3 DEF episode
  <2>2. Typed' /\ InSteps' /\ HasFirst' /\ PaidOnce'
    BY <2>1 DEF IInv, Typed, InSteps, HasFirst, PaidOnce
  <2>3. AllowedIsRight' /\ CleanSoFar' /\ Closed' /\ OnlyEscalationsGround'
    BY <2>1 DEF IInv, AllowedIsRight, CleanSoFar, Closed, OnlyEscalationsGround
  <2>4. Led'
    BY <2>1 DEF IInv, Led
  <2> QED
    BY <2>2, <2>3, <2>4 DEF IInv
<1> QED
  BY <1>1, <1>2, <1>3 DEF AgentNext

\* The invariant holds of every episode a model can play.
THEOREM Invariance == AgentSpec => []IInv
<1>1. Begin => IInv
  BY InitHolds
<1>2. ASSUME IInv, [AgentNext]_episode PROVE IInv'
  BY <1>2, AgentKeeps
<1> QED
  BY <1>1, <1>2, PTL DEF AgentSpec

\* What the invariant says of each property.
LEMMA TypesHold == ASSUME IInv PROVE TypeOK
<1>1. ASSUME NEW v \in seen.fired PROVE v \in (0 .. seen.n - 1) \X Rules
  BY <1>1 DEF IInv, InSteps, Typed
<1> QED
  BY <1>1 DEF IInv, Typed, TypeOK

\* The types, and violations at steps of the trajectory.
THEOREM TypeCorrect == AgentSpec => []TypeOK
<1>1. IInv => TypeOK
  BY TypesHold
<1> QED
  BY <1>1, Invariance, PTL

\* A refund under which no rule fired is the expected one.
LEMMA CleanIsRight == ASSUME IInv, seen.fired = {}, acted.refunded PROVE OutcomeCorrect
<1>1. instance.difficulty \in Eligibles /\ Near(acted.amount, MaxRefund(instance))
  BY DEF IInv, CleanSoFar
<1>2. Expected(instance) = Refunds(MaxRefund(instance))
  BY <1>1, InstanceFacts DEF IInv, Typed
<1>3. Outcome = Refunds(acted.amount)
  BY DEF Outcome
<1> QED
  BY <1>1, <1>2, <1>3 DEF OutcomeCorrect, Matches, Refunds

LEMMA RefundsAreRight == ASSUME IInv PROVE CleanRefundIsRight
BY CleanIsRight DEF CleanRefundIsRight

\* A refund that breaks no rule pays what the instance expects, whatever the order of the calls
\* and however a difference of one cent is rounded.
THEOREM CleanRefundsAreRight == AgentSpec => []CleanRefundIsRight
<1>1. IInv => CleanRefundIsRight
  BY RefundsAreRight
<1> QED
  BY <1>1, Invariance, PTL

LEMMA PaidIsTold == ASSUME IInv PROVE OutcomesAgree
<1>1. CASE acted.refunded
  <2>1. desk.paid = acted.amount /\ desk.paid # 0
    BY <1>1 DEF IInv, PaidOnce, Typed
  <2>2. Outcome = Refunds(acted.amount)
    BY <1>1 DEF Outcome
  <2> QED
    BY <2>1, <2>2 DEF OutcomesAgree, WorldOutcome, Refunds
<1>2. CASE ~ acted.refunded
  <2>1. desk.paid = 0
    BY <1>2 DEF IInv, PaidOnce
  <2>2. Outcome = Escalates \/ Outcome = DoesNothing
    BY <1>2 DEF Outcome
  <2> QED
    BY <2>1, <2>2 DEF OutcomesAgree, WorldOutcome, Escalates, DoesNothing
<1> QED
  BY <1>1, <1>2

\* What the steps tell of the money is what the desk paid.
THEOREM OutcomesDoAgree == AgentSpec => []OutcomesAgree
<1>1. IInv => OutcomesAgree
  BY PaidIsTold
<1> QED
  BY <1>1, Invariance, PTL

LEMMA NothingElseGrounds == ASSUME IInv PROVE OnlyEscalationsGround
BY DEF IInv

\* Only the reason of an escalation makes an identifier known that nobody gave the agent.
THEOREM OnlyEscalationsDoGround == AgentSpec => []OnlyEscalationsGround
<1>1. IInv => OnlyEscalationsGround
  BY NothingElseGrounds
<1> QED
  BY <1>1, Invariance, PTL

LEMMA UntypedMissesRefund == ASSUME IInv PROVE UntypedIsMissedRefund
<1> SUFFICES ASSUME over, Label.faulty, Label.type = "none"
             PROVE  /\ Expected(instance).action = "refund"
                    /\ \/ Outcome = Escalates
                       \/ Outcome = DoesNothing /\ Near(instance.total, instance.total + 1)
  BY DEF UntypedIsMissedRefund
<1>1. seen.fired \in SUBSET (Nat \X Rules)
  BY DEF IInv, InSteps
<1>2. seen.fired = {}
  <2> SUFFICES ASSUME seen.fired # {} PROVE FALSE
    OBVIOUS
  <2>0. \E v \in seen.fired : \A w \in seen.fired : Comes(v, w)
    BY DEF IInv, HasFirst
  <2>1. First(seen.fired) \in seen.fired
    BY Zenon, <2>0 DEF First, Comes
  <2>2. First(seen.fired)[2] \in Rules
    BY <1>1, <2>1
  <2>3. \A rule \in Rules : RuleType[rule] # "none"
    BY DEF RuleType, Rules
  <2>4. Judged(seen).type = RuleType[First(seen.fired)[2]]
    BY DEF Judged
  <2> QED
    BY <2>2, <2>3, <2>4 DEF Label
<1>3. ~ OutcomeCorrect
  BY <1>2 DEF Label
<1>4. seen.terminal
  BY <1>2 DEF IInv, Closed
<1>5. CASE acted.refunded
  BY <1>2, <1>3, <1>5, CleanIsRight
<1>6. CASE ~ acted.refunded
  <2>1. \/ acted.escalated
        \/ /\ instance.difficulty \in Eligibles
           /\ Near(instance.total, instance.total + 1)
    BY <1>2, <1>4, <1>6 DEF IInv, CleanSoFar
  <2>2. CASE acted.escalated
    <3>1. Outcome = Escalates
      BY <1>6, <2>2 DEF Outcome
    <3>2. instance.difficulty \in Eligibles
      <4> SUFFICES ASSUME instance.difficulty \notin Eligibles PROVE FALSE
        OBVIOUS
      <4>1. Expected(instance) = Escalates
        BY InstanceFacts DEF IInv, Typed
      <4> QED
        BY <1>3, <3>1, <4>1 DEF OutcomeCorrect, Matches, Escalates
    <3>3. Expected(instance) = Refunds(MaxRefund(instance))
      BY <3>2, InstanceFacts DEF IInv, Typed
    <3> QED
      BY <3>1, <3>3 DEF Refunds
  <2>3. CASE ~ acted.escalated
    <3>1. Outcome = DoesNothing
      BY <1>6, <2>3 DEF Outcome
    <3>2. Expected(instance) = Refunds(MaxRefund(instance))
      BY <2>1, <2>3, InstanceFacts DEF IInv, Typed
    <3> QED
      BY <2>1, <2>3, <3>1, <3>2 DEF Refunds
  <2> QED
    BY <2>2, <2>3
<1> QED
  BY <1>5, <1>6

\* A label that is faulty without a type is one of an order that should have been refunded:
\* no other mistake escapes the eight rules.
THEOREM UntypedAreMissedRefunds == AgentSpec => []UntypedIsMissedRefund
<1>1. IInv => UntypedIsMissedRefund
  BY UntypedMissesRefund
<1> QED
  BY <1>1, Invariance, PTL

LEMMA SixIsNotFirst == ASSUME IInv PROVE IdentityIsNeverFirst
<1> SUFFICES ASSUME seen.fired # {}, First(seen.fired)[2] = "R6" PROVE acted.escalated
  BY DEF IdentityIsNeverFirst
<1>1. \E v \in seen.fired : \A w \in seen.fired : Comes(v, w)
  BY DEF IInv, HasFirst
<1>2. First(seen.fired) \in seen.fired /\ \A w \in seen.fired : Comes(First(seen.fired), w)
  BY Zenon, <1>1 DEF First, Comes
<1> QED
  BY <1>2 DEF IInv, Led

\* The identity rule is never the first to fire, unless an escalation brought the address in:
\* somebody else's account is reached by an invented address, or the check was skipped.
THEOREM IdentityNeverFirst == AgentSpec => []IdentityIsNeverFirst
<1>1. IInv => IdentityIsNeverFirst
  BY SixIsNotFirst
<1> QED
  BY <1>1, Invariance, PTL
-----------------------------------------------------------------------------
(* The scripts of the faults: the edits of mutate.py, carried out *)

\* The calls of the oracle.
Ask == ToCall("get_customer", "email", 0)
Find == ToCall("lookup_order", "order", 0)
Read == ToCall("get_policy", "sku", 0)
Check == ToCall("check_eligibility", "order", 0)
Pay(amount) == ToCall("issue_refund", "order", amount)
HandOver == ToCall("escalate", "words", 0)
Say == ToCall("reply", "words", 0)
Invent == ToCall("get_policy", "nobody", 0)

\* Whether an order may be refunded at a desk that has just opened.
Can(i) == Eligible(i, Opened(i))

Resolve(i, amount) == IF Can(i) THEN Pay(amount) ELSE HandOver

\* What a fault changes: the third call, the amount, whether the check is made, the end.
Third(fault) ==
    IF fault = "wrong_tool" THEN Find ELSE IF fault = "hallucinated_argument" THEN Invent ELSE Read
Amount(fault, i) ==
    IF fault \in {"skipped_precondition", "ignored_observation"} THEN i.total ELSE MaxRefund(i)
Steps(fault) ==
    IF fault = "skipped_precondition" THEN 5 ELSE IF fault = "premature_stop" THEN 4 ELSE 6

Script(fault, i) ==
    IF fault = "skipped_precondition" THEN << Ask, Find, Read, Resolve(i, i.total), Say >>
    ELSE IF fault = "premature_stop" THEN << Ask, Find, Read, Check >>
    ELSE << Ask, Find, Third(fault), Check, Resolve(i, Amount(fault, i)), Say >>

Labelled(fault) ==
    IF fault = "clean" THEN None
    ELSE IF fault \in {"wrong_tool", "hallucinated_argument"} THEN 2
    ELSE IF fault \in {"skipped_precondition", "premature_stop"} THEN 3
    ELSE IF fault = "ignored_observation" THEN 4 ELSE 5

\* The oracle's calls, the answer of the check read.
LEMMA OracleIs ==
    ASSUME NEW i
    PROVE  OracleCalls(i) = << Ask, Find, Read, Check, Resolve(i, MaxRefund(i)), Say >>
<1> DEFINE elig == Observe(i, Opened(i), Check)
<1>1. elig.eligible = Can(i) /\ (Can(i) => elig.amount = MaxRefund(i))
  <2>1. elig.eligible = Passes(i, Opened(i), Check) /\ elig.amount = Figure(i, Opened(i), Check)
    BY ObserveFields
  <2>2. Passes(i, Opened(i), Check) = Can(i)
    BY DEF Passes, Check, ToCall, Can, Eligible
  <2> QED
    BY <2>1, <2>2 DEF Figure
<1>2. OracleCalls(i) = << Ask, Find, Read, Check,
         IF elig.eligible THEN Pay(elig.amount) ELSE HandOver, Say >>
  BY Zenon DEF OracleCalls, Ask, Find, Read, Check, Pay, HandOver, Say
<1> HIDE DEF elig
<1> QED
  BY <1>1, <1>2 DEF Resolve

\* A tool that a list of six calls names in one place.
Single(list, tool, n) ==
    Len(list) = 6 /\ n \in 1 .. 6 /\ \A k \in 1 .. 6 : list[k].tool = tool <=> k = n

\* _index_of a tool that is called once, and of one that is not called.
LEMMA OnlyAt ==
    ASSUME NEW list, NEW tool, NEW n, Single(list, tool, n)
    PROVE  IndexOf(list, tool) = n
<1> DEFINE I == {k \in 1 .. Len(list) : list[k].tool = tool}
<1>0. Len(list) = 6 /\ n \in 1 .. 6 /\ \A k \in 1 .. 6 : list[k].tool = tool <=> k = n
  BY DEF Single
<1>1. I = {n}
  BY <1>0
<1>2. IndexOf(list, tool) = IF I # {} THEN Min(I) ELSE 0
  BY DEF IndexOf, SelectInSeq
<1>3. Min({n}) = n
  BY <1>0 DEF Min
<1> HIDE DEF I
<1> QED
  BY <1>1, <1>2, <1>3

LEMMA NowhereAt ==
    ASSUME NEW list, NEW tool, \A k \in 1 .. Len(list) : list[k].tool # tool
    PROVE  IndexOf(list, tool) = 0
<1> DEFINE I == {k \in 1 .. Len(list) : list[k].tool = tool}
<1>1. I = {}
  OBVIOUS
<1>2. IndexOf(list, tool) = IF I # {} THEN Min(I) ELSE 0
  BY DEF IndexOf, SelectInSeq
<1> HIDE DEF I
<1> QED
  BY <1>1, <1>2

\* The oracle's calls, one by one.
LEMMA OracleTools ==
    ASSUME NEW i
    PROVE  LET list == OracleCalls(i) IN
           /\ Len(list) = 6 /\ DOMAIN list = 1 .. 6
           /\ list[1] = Ask /\ list[2] = Find /\ list[3] = Read /\ list[4] = Check
           /\ list[5] = Resolve(i, MaxRefund(i)) /\ list[6] = Say
           /\ list[1].tool = "get_customer" /\ list[2].tool = "lookup_order"
           /\ list[3].tool = "get_policy" /\ list[4].tool = "check_eligibility"
           /\ list[5].tool = (IF Can(i) THEN "issue_refund" ELSE "escalate")
           /\ list[6].tool = "reply"
<1> DEFINE r == Resolve(i, MaxRefund(i))
<1>1. r.tool = (IF Can(i) THEN "issue_refund" ELSE "escalate")
  BY DEF Resolve, Pay, HandOver, ToCall
<1>2. /\ Ask.tool = "get_customer" /\ Find.tool = "lookup_order" /\ Read.tool = "get_policy"
      /\ Check.tool = "check_eligibility" /\ Say.tool = "reply"
  BY DEF Ask, Find, Read, Check, Say, ToCall
<1> HIDE DEF r
<1>3. OracleCalls(i) = << Ask, Find, Read, Check, r, Say >>
  BY OracleIs DEF r
<1> DEFINE list == << Ask, Find, Read, Check, r, Say >>
<1>4. /\ Len(list) = 6 /\ DOMAIN list = 1 .. 6
      /\ list[1] = Ask /\ list[2] = Find /\ list[3] = Read /\ list[4] = Check
      /\ list[5] = r /\ list[6] = Say
  OBVIOUS
<1> HIDE DEF list
<1>5. OracleCalls(i) = list
  BY <1>3 DEF list
<1> QED
  BY <1>1, <1>2, <1>4, <1>5 DEF r

\* Where the edits find the calls they change.
LEMMA Indexes ==
    ASSUME NEW i
    PROVE  /\ IndexOf(OracleCalls(i), "get_policy") = 3
           /\ IndexOf(OracleCalls(i), "check_eligibility") = 4
           /\ IndexOf(OracleCalls(i), "issue_refund") = (IF Can(i) THEN 5 ELSE 0)
           /\ IndexOf(OracleCalls(i), "reply") = 6
<1> DEFINE list == OracleCalls(i)
<1>1. /\ Len(list) = 6 /\ 6 \in Nat
      /\ list[1].tool = "get_customer" /\ list[2].tool = "lookup_order"
      /\ list[3].tool = "get_policy" /\ list[4].tool = "check_eligibility"
      /\ list[5].tool = (IF Can(i) THEN "issue_refund" ELSE "escalate")
      /\ list[6].tool = "reply"
  BY OracleTools
<1> HIDE DEF list
<1>2. \A k \in 1 .. 6 : k = 1 \/ k = 2 \/ k = 3 \/ k = 4 \/ k = 5 \/ k = 6
  OBVIOUS
<1>3. 3 \in 1 .. 6 /\ 4 \in 1 .. 6 /\ 5 \in 1 .. 6 /\ 6 \in 1 .. 6
  OBVIOUS
<1>4. IndexOf(list, "get_policy") = 3
  <2>1. \A k \in 1 .. 6 : list[k].tool = "get_policy" <=> k = 3
    BY <1>1, <1>2
  <2>2. Single(list, "get_policy", 3)
    BY <1>1, <1>3, <2>1 DEF Single
  <2> QED
    BY <2>2, OnlyAt
<1>5. IndexOf(list, "check_eligibility") = 4
  <2>1. \A k \in 1 .. 6 : list[k].tool = "check_eligibility" <=> k = 4
    BY <1>1, <1>2
  <2>2. Single(list, "check_eligibility", 4)
    BY <1>1, <1>3, <2>1 DEF Single
  <2> QED
    BY <2>2, OnlyAt
<1>6. IndexOf(list, "reply") = 6
  <2>1. \A k \in 1 .. 6 : list[k].tool = "reply" <=> k = 6
    BY <1>1, <1>2
  <2>2. Single(list, "reply", 6)
    BY <1>1, <1>3, <2>1 DEF Single
  <2> QED
    BY <2>2, OnlyAt
<1>7. ASSUME Can(i) PROVE IndexOf(list, "issue_refund") = 5
  <2>1. \A k \in 1 .. 6 : list[k].tool = "issue_refund" <=> k = 5
    BY <1>1, <1>2, <1>7
  <2>2. Single(list, "issue_refund", 5)
    BY <1>1, <1>3, <2>1 DEF Single
  <2> QED
    BY <2>2, OnlyAt
<1>8. ASSUME ~ Can(i) PROVE IndexOf(list, "issue_refund") = 0
  <2>1. \A k \in 1 .. Len(list) : list[k].tool # "issue_refund"
    BY <1>1, <1>2, <1>8
  <2> QED
    BY <2>1, NowhereAt
<1> QED
  BY <1>4, <1>5, <1>6, <1>7, <1>8 DEF list

\* The first call that is no reading.
LEMMA Cut ==
    ASSUME NEW i
    PROVE  SelectInSeq(OracleCalls(i), LAMBDA call :
                              call.tool \in {"issue_refund", "escalate", "reply"}) = 5
<1> DEFINE list == OracleCalls(i)
           I == {k \in 1 .. Len(list) : list[k].tool \in {"issue_refund", "escalate", "reply"}}
<1>1. /\ Len(list) = 6
      /\ list[1].tool = "get_customer" /\ list[2].tool = "lookup_order"
      /\ list[3].tool = "get_policy" /\ list[4].tool = "check_eligibility"
      /\ list[5].tool = (IF Can(i) THEN "issue_refund" ELSE "escalate")
      /\ list[6].tool = "reply"
  BY OracleTools
<1> HIDE DEF list
<1>2. \A k \in 1 .. 6 : k = 1 \/ k = 2 \/ k = 3 \/ k = 4 \/ k = 5 \/ k = 6
  OBVIOUS
<1>3. \A k \in I : k = 5 \/ k = 6
  BY <1>1, <1>2
<1>4. 5 \in I /\ 6 \in I
  BY <1>1
<1>5. I = {5, 6}
  BY <1>3, <1>4
<1>6. Min({5, 6}) = 5
  BY DEF Min
<1>7. SelectInSeq(list, LAMBDA call : call.tool \in {"issue_refund", "escalate", "reply"})
      = IF I # {} THEN Min(I) ELSE 0
  BY DEF SelectInSeq
<1> HIDE DEF I
<1> QED
  BY <1>5, <1>6, <1>7 DEF list

\* A list of six with one entry changed, one left out, cut short.
LEMMA SixChanged ==
    ASSUME NEW a, NEW b, NEW c, NEW d, NEW e, NEW f, NEW x
    PROVE  /\ ReplaceAt(<<a, b, c, d, e, f>>, 3, x) = <<a, b, x, d, e, f>>
           /\ ReplaceAt(<<a, b, c, d, e, f>>, 5, x) = <<a, b, c, d, x, f>>
BY DEF ReplaceAt

Alike(s, t) == Len(s) = Len(t) /\ \A k \in 1 .. Len(s) : s[k] = t[k]

\* Lists that say the same are the same.
LEMMA AlikeIsEqual ==
    ASSUME NEW S, NEW s \in Seq(S), NEW t \in Seq(S), Alike(s, t)
    PROVE  s = t
BY SeqEqual DEF Alike

\* A part of a list is one.
LEMMA PartIs ==
    ASSUME NEW S, NEW s \in Seq(S), NEW m \in Nat, NEW n \in Nat, 1 =< m, n =< Len(s)
    PROVE  SubSeq(s, m, n) \in Seq(S)
OBVIOUS

LEMMA SixCut ==
    ASSUME NEW a, NEW b, NEW c, NEW d, NEW e, NEW f
    PROVE  /\ SubSeq(<<a, b, c, d, e, f>>, 1, 3) = <<a, b, c>>
           /\ SubSeq(<<a, b, c, d, e, f>>, 1, 4) = <<a, b, c, d>>
           /\ SubSeq(<<a, b, c, d, e, f>>, 5, 6) = <<e, f>>
<1> DEFINE S == {a, b, c, d, e, f}
           s == <<a, b, c, d, e, f>>
<1>1. s \in Seq(S) /\ Len(s) = 6
  OBVIOUS
<1>2. s[1] = a /\ s[2] = b /\ s[3] = c /\ s[4] = d /\ s[5] = e /\ s[6] = f
  OBVIOUS
<1>3. <<a, b, c>> \in Seq(S) /\ <<a, b, c, d>> \in Seq(S) /\ <<e, f>> \in Seq(S)
  OBVIOUS
<1> HIDE DEF S, s
<1>4. SubSeq(s, 1, 3) = <<a, b, c>>
  <2>0. 1 \in Nat /\ 3 \in Nat /\ 1 =< 1 /\ 3 =< Len(s)
    BY <1>1
  <2>1. SubSeq(s, 1, 3) \in Seq(S)
    BY <1>1, <2>0, PartIs, Zenon
  <2>2. Len(SubSeq(s, 1, 3)) = 3
    BY <1>1
  <2>3. \A k \in 1 .. 3 : SubSeq(s, 1, 3)[k] = s[k + 0]
    BY <1>1
  <2>4. Alike(SubSeq(s, 1, 3), <<a, b, c>>)
    BY <1>2, <2>2, <2>3 DEF Alike
  <2> QED
    BY <1>3, <2>1, <2>4, AlikeIsEqual
<1>5. SubSeq(s, 1, 4) = <<a, b, c, d>>
  <2>0. 1 \in Nat /\ 4 \in Nat /\ 1 =< 1 /\ 4 =< Len(s)
    BY <1>1
  <2>1. SubSeq(s, 1, 4) \in Seq(S)
    BY <1>1, <2>0, PartIs, Zenon
  <2>2. Len(SubSeq(s, 1, 4)) = 4
    BY <1>1
  <2>3. \A k \in 1 .. 4 : SubSeq(s, 1, 4)[k] = s[k + 0]
    BY <1>1
  <2>4. Alike(SubSeq(s, 1, 4), <<a, b, c, d>>)
    BY <1>2, <2>2, <2>3 DEF Alike
  <2> QED
    BY <1>3, <2>1, <2>4, AlikeIsEqual
<1>6. SubSeq(s, 5, 6) = <<e, f>>
  <2>0. 5 \in Nat /\ 6 \in Nat /\ 1 =< 5 /\ 6 =< Len(s)
    BY <1>1
  <2>1. SubSeq(s, 5, 6) \in Seq(S)
    BY <1>1, <2>0, PartIs, Zenon
  <2>2. Len(SubSeq(s, 5, 6)) = 2
    BY <1>1
  <2>3. \A k \in 1 .. 2 : SubSeq(s, 5, 6)[k] = s[k + 4]
    BY <1>1
  <2>4. Alike(SubSeq(s, 5, 6), <<e, f>>)
    BY <1>2, <2>2, <2>3 DEF Alike
  <2> QED
    BY <1>3, <2>1, <2>4, AlikeIsEqual
<1> QED
  BY <1>4, <1>5, <1>6 DEF s

LEMMA SixWithout ==
    ASSUME NEW a, NEW b, NEW c, NEW d, NEW e, NEW f
    PROVE  RemoveAt(<<a, b, c, d, e, f>>, 4) = <<a, b, c, e, f>>
<1> DEFINE S == {a, b, c, d, e, f}
<1>1. SubSeq(<<a, b, c, d, e, f>>, 1, 3) = <<a, b, c>>
  BY SixCut
<1>2. SubSeq(<<a, b, c, d, e, f>>, 5, 6) = <<e, f>>
  BY SixCut
<1>3. Len(<<a, b, c, d, e, f>>) = 6 /\ 4 - 1 = 3 /\ 4 + 1 = 5
  OBVIOUS
<1>4. <<a, b, c>> \in Seq(S) /\ <<e, f>> \in Seq(S) /\ <<a, b, c, e, f>> \in Seq(S)
  OBVIOUS
<1>5. /\ <<a, b, c>> \o <<e, f>> \in Seq(S) /\ Len(<<a, b, c>> \o <<e, f>>) = 5
      /\ \A k \in 1 .. 5 : (<<a, b, c>> \o <<e, f>>)[k] =
                (IF k =< 3 THEN <<a, b, c>>[k] ELSE <<e, f>>[k - 3])
  BY <1>4, ConcatProperties
<1>6. Alike(<<a, b, c>> \o <<e, f>>, <<a, b, c, e, f>>)
  BY <1>5 DEF Alike
<1>7. <<a, b, c>> \o <<e, f>> = <<a, b, c, e, f>>
  BY <1>4, <1>5, <1>6, AlikeIsEqual
<1> QED
  BY Zenon, <1>1, <1>2, <1>3, <1>7 DEF RemoveAt

\* What an instance must be for a fault to be put into its run.
Hosts(fault, i) ==
    /\ fault \in {"skipped_precondition", "ignored_observation"} => Can(i)
    /\ fault = "ignored_observation" => i.fee > 0

\* mutate.applies, read from the instance.
LEMMA AppliesIs ==
    ASSUME NEW i, NEW fault \in FailureTypes \cup {"clean"}
    PROVE  Applies(fault, i) <=> Hosts(fault, i)
<1>1. IndexOf(OracleCalls(i), "issue_refund") = (IF Can(i) THEN 5 ELSE 0)
  BY Indexes
<1>2. IndexOf(OracleCalls(i), "issue_refund") # 0 <=> Can(i)
  BY <1>1
<1>3. CASE fault = "skipped_precondition"
  BY <1>2, <1>3 DEF Applies, Hosts
<1>4. CASE fault = "ignored_observation"
  BY <1>2, <1>4 DEF Applies, Hosts
<1>5. CASE fault \notin {"skipped_precondition", "ignored_observation"}
  BY <1>5 DEF Applies, Hosts
<1> QED
  BY <1>3, <1>4, <1>5

\* Every edit gives the calls of its script and the label that goes with it.
LEMMA EditedIs ==
    ASSUME NEW i, NEW fault \in FailureTypes \cup {"clean"}, Hosts(fault, i)
    PROVE  Edited(fault, i) = << Script(fault, i), Labelled(fault) >>
<1> DEFINE r == Resolve(i, MaxRefund(i))
<1>1. /\ IndexOf(OracleCalls(i), "get_policy") = 3
      /\ IndexOf(OracleCalls(i), "check_eligibility") = 4
      /\ IndexOf(OracleCalls(i), "issue_refund") = (IF Can(i) THEN 5 ELSE 0)
      /\ IndexOf(OracleCalls(i), "reply") = 6
  BY Indexes
<1>2. OracleCalls(i) = << Ask, Find, Read, Check, r, Say >>
  BY OracleIs
<1>3. CASE fault = "clean"
  <2>1. Edited(fault, i) = << OracleCalls(i), None >>
    BY <1>3 DEF Edited
  <2>2. Labelled(fault) = None
    BY <1>3 DEF Labelled
  <2>3. Script(fault, i) = << Ask, Find, Read, Check, r, Say >>
    BY <1>3 DEF Script, Third, Amount
  <2> HIDE DEF r
  <2> QED
    BY <1>2, <2>1, <2>2, <2>3
<1>4. CASE fault = "unsupported_claim"
  <2>1. Edited(fault, i) = UnsupportedClaim(i)
    BY <1>4 DEF Edited
  <2>2. UnsupportedClaim(i) = << OracleCalls(i), 5 >>
    BY <1>1 DEF UnsupportedClaim
  <2>3. Labelled(fault) = 5
    BY <1>4 DEF Labelled
  <2>4. Script(fault, i) = << Ask, Find, Read, Check, r, Say >>
    BY <1>4 DEF Script, Third, Amount
  <2> HIDE DEF r
  <2> QED
    BY <1>2, <2>1, <2>2, <2>3, <2>4
<1>5. CASE fault = "wrong_tool"
  <2>1. Edited(fault, i) = WrongTool(i)
    BY <1>5 DEF Edited
  <2>2. WrongTool(i) = << ReplaceAt(OracleCalls(i), 3, Find), 2 >>
    BY <1>1 DEF WrongTool, Find
  <2>3. Labelled(fault) = 2
    BY <1>5 DEF Labelled
  <2>4. Script(fault, i) = << Ask, Find, Find, Check, r, Say >>
    BY <1>5 DEF Script, Third, Amount
  <2> HIDE DEF r
  <2>5. ReplaceAt(OracleCalls(i), 3, Find) = << Ask, Find, Find, Check, r, Say >>
    BY <1>2, SixChanged
  <2> QED
    BY <2>1, <2>2, <2>3, <2>4, <2>5
<1>6. CASE fault = "hallucinated_argument"
  <2>1. Edited(fault, i) = HallucinatedArgument(i)
    BY <1>6 DEF Edited
  <2>2. HallucinatedArgument(i) = << ReplaceAt(OracleCalls(i), 3, Invent), 2 >>
    BY <1>1 DEF HallucinatedArgument, Invent
  <2>3. Labelled(fault) = 2
    BY <1>6 DEF Labelled
  <2>4. Script(fault, i) = << Ask, Find, Invent, Check, r, Say >>
    BY <1>6 DEF Script, Third, Amount
  <2> HIDE DEF r
  <2>5. ReplaceAt(OracleCalls(i), 3, Invent) = << Ask, Find, Invent, Check, r, Say >>
    BY <1>2, SixChanged
  <2> QED
    BY <2>1, <2>2, <2>3, <2>4, <2>5
<1>7. ASSUME Can(i)
      PROVE  RefundOfTotal(i, 5) = << Ask, Find, Read, Check, Pay(i.total), Say >>
  <2>1. RefundOfTotal(i, 5) = ReplaceAt(OracleCalls(i), 5, Pay(i.total))
    BY DEF RefundOfTotal, Pay
  <2> HIDE DEF r
  <2> QED
    BY <1>2, <2>1, SixChanged
<1>8. CASE fault = "ignored_observation"
  <2>1. Edited(fault, i) = IgnoredObservation(i)
    BY <1>8 DEF Edited
  <2>2. Can(i)
    BY <1>8 DEF Hosts
  <2>3. IgnoredObservation(i) = << RefundOfTotal(i, 5), 4 >>
    BY <1>1, <2>2 DEF IgnoredObservation
  <2>4. Labelled(fault) = 4
    BY <1>8 DEF Labelled
  <2>5. Script(fault, i) = << Ask, Find, Read, Check, Pay(i.total), Say >>
    BY <1>8, <2>2 DEF Script, Third, Amount, Resolve
  <2> QED
    BY <1>7, <2>1, <2>2, <2>3, <2>4, <2>5
<1>9. CASE fault = "skipped_precondition"
  <2>1. Edited(fault, i) = SkippedPrecondition(i)
    BY <1>9 DEF Edited
  <2>2. Can(i)
    BY <1>9 DEF Hosts
  <2>3. SkippedPrecondition(i) = << RemoveAt(RefundOfTotal(i, 5), 4), 3 >>
    BY <1>1, <2>2 DEF SkippedPrecondition
  <2>4. Labelled(fault) = 3
    BY <1>9 DEF Labelled
  <2>5. Script(fault, i) = << Ask, Find, Read, Pay(i.total), Say >>
    BY <1>9, <2>2 DEF Script, Resolve
  <2>6. RemoveAt(RefundOfTotal(i, 5), 4) = << Ask, Find, Read, Pay(i.total), Say >>
    BY <1>7, <2>2, SixWithout
  <2> QED
    BY <2>1, <2>3, <2>4, <2>5, <2>6
<1>10. CASE fault = "premature_stop"
  <2>1. Edited(fault, i) = PrematureStop(i)
    BY <1>10 DEF Edited
  <2> DEFINE cut == SelectInSeq(OracleCalls(i), LAMBDA call :
                              call.tool \in {"issue_refund", "escalate", "reply"})
  <2>2. cut = 5
    BY Cut
  <2>20. PrematureStop(i) = << SubSeq(OracleCalls(i), 1, cut - 1), cut - 2 >>
    BY Zenon DEF PrematureStop
  <2> HIDE DEF cut
  <2>3. PrematureStop(i) = << SubSeq(OracleCalls(i), 1, 4), 3 >>
    BY <2>2, <2>20
  <2>4. Labelled(fault) = 3
    BY <1>10 DEF Labelled
  <2>5. Script(fault, i) = << Ask, Find, Read, Check >>
    BY <1>10 DEF Script
  <2> HIDE DEF r
  <2>6. SubSeq(OracleCalls(i), 1, 4) = << Ask, Find, Read, Check >>
    BY <1>2, SixCut
  <2> QED
    BY <2>1, <2>3, <2>4, <2>5, <2>6
<1> QED
  BY <1>3, <1>4, <1>5, <1>6, <1>8, <1>9, <1>10 DEF FailureTypes
-----------------------------------------------------------------------------
(* The calls of the scripts, as the checker reads them *)

\* What the checker makes of a call at a desk, field by field; the violations are those
\* there were and those of one more step.
Seeing(i, d, st, call, last) == See(i, st, call, Observe(i, d, call), last)

With(st, rules) == st.fired \cup { <<st.n, rule>> : rule \in rules }

Fields(s, i, st, call, obs, last) ==
    /\ s.n = st.n + 1 /\ s.ids = st.ids \cup obs.ids /\ s.nums = st.nums \cup obs.nums
    /\ s.allowed = (IF call.tool = "check_eligibility" /\ obs.ok /\ obs.eligible
                    THEN obs.amount ELSE st.allowed)
    /\ s.looked = (IF call.tool = "lookup_order" /\ obs.ok
                   THEN st.looked \cup {call.id} ELSE st.looked)
    /\ s.verified = (IF call.tool = "get_customer" /\ obs.ok
                     THEN IF "asker" \in obs.ids THEN "asker" ELSE "other"
                     ELSE st.verified)
    /\ s.refunded = (IF call.tool = "issue_refund" /\ obs.ok
                     THEN st.refunded \cup {call.id} ELSE st.refunded)
    /\ s.terminal = (st.terminal \/ call.tool \in {"issue_refund", "escalate"})
    /\ s.replies = (IF call.tool = "reply" THEN st.replies + 1 ELSE st.replies)
    /\ s.fired = With(st, Broken(i, st, call, last))

\* Every field of what the checker keeps, by its definition.
LEMMA SeeingIs ==
    ASSUME NEW i, NEW d, NEW st, NEW call, NEW last
    PROVE  /\ Fields(Seeing(i, d, st, call, last), i, st, call, Observe(i, d, call), last)
           /\ "fired" \in DOMAIN Seeing(i, d, st, call, last)
BY DEF Seeing, See, Allowed, With, Fields

\* A reading: it looks something up, and changes nothing else.
Reads(s, st, ids, nums, allowed, looked, verified, rules) ==
    /\ s.n = st.n + 1 /\ s.ids = st.ids \cup ids /\ s.nums = st.nums \cup nums
    /\ s.allowed = allowed /\ s.looked = looked /\ s.verified = verified
    /\ s.refunded = st.refunded /\ s.terminal = (st.terminal \/ FALSE) /\ s.replies = st.replies
    /\ s.fired = With(st, rules)

\* The first two calls, as the checker reads them.
LEMMA AskSeen ==
    ASSUME NEW i, NEW d, NEW st, NEW last, "email" \in st.ids
    PROVE  Reads(Seeing(i, d, st, Ask, last), st, {"asker"}, {}, st.allowed, st.looked, "asker", {})
<1> DEFINE s == Seeing(i, d, st, Ask, last)
           obs == Observe(i, d, Ask)
<1>1. Ask.tool = "get_customer" /\ Ask.id = "email" /\ Ask.amount = 0
  BY DEF Ask, ToCall
<1>2. obs.ok = TRUE
  BY <1>1, ObserveFields DEF Answers
<1>3. obs.ids = {"asker"}
  <2>1. obs.ids = {id \in Ids : TellsId(i, Ask, id)}
    BY ObserveFields
  <2>2. \A id \in Ids : TellsId(i, Ask, id) <=> id = "asker"
    BY <1>1 DEF TellsId
  <2>3. "asker" \in Ids
    BY DEF Ids
  <2> QED
    BY <2>1, <2>2, <2>3
<1>4. obs.nums = {}
  BY <1>1, ObserveFields DEF Figures
<1>5. Broken(i, st, Ask, last) = {}
  BY <1>1 DEF Broken, Ungrounded
<1>6. Fields(s, i, st, Ask, obs, last)
  BY SeeingIs
<1> HIDE DEF obs, s
<1>7. Reads(s, st, {"asker"}, {}, st.allowed, st.looked, "asker", {})
  BY <1>1, <1>2, <1>3, <1>4, <1>5, <1>6 DEF Reads, Fields
<1> QED
  BY <1>7 DEF s

\* The order tells its item, whose it is, and the total.
LEMMA FindSeen ==
    ASSUME NEW i \in Instances, NEW d, NEW st, NEW last, "order" \in st.ids
    PROVE  Reads(Seeing(i, d, st, Find, last), st, {"order", i.owner, "sku"},
                 {i.total, 100 * i.days}, st.allowed, st.looked \cup {"order"}, st.verified, {})
<1> DEFINE s == Seeing(i, d, st, Find, last)
           obs == Observe(i, d, Find)
<1>1. Find.tool = "lookup_order" /\ Find.id = "order" /\ Find.amount = 0
  BY DEF Find, ToCall
<1>0. i.owner \in {"asker", "other"}
  BY InstanceFacts
<1>2. obs.ok = TRUE
  BY <1>1, ObserveFields DEF Answers
<1>3. obs.ids = {"order", i.owner, "sku"}
  <2>1. obs.ids = {id \in Ids : TellsId(i, Find, id)}
    BY ObserveFields
  <2>2. \A id \in Ids : TellsId(i, Find, id) <=> id \in {"order", i.owner, "sku"}
    BY <1>1 DEF TellsId
  <2>3. {"order", i.owner, "sku"} \subseteq Ids
    BY <1>0 DEF Ids
  <2> QED
    BY <2>1, <2>2, <2>3
<1>4. obs.nums = {i.total, 100 * i.days}
  <2>1. obs.nums = {num \in Figures(i, d, Find) : Answers(i, d, Find)}
    BY ObserveFields
  <2>2. Figures(i, d, Find) = {i.total, 100 * i.days} /\ Answers(i, d, Find)
    BY <1>1 DEF Figures, Answers
  <2> QED
    BY <2>1, <2>2
<1>5. Broken(i, st, Find, last) = {}
  BY <1>1 DEF Broken, Ungrounded
<1>6. Fields(s, i, st, Find, obs, last)
  BY SeeingIs
<1> HIDE DEF obs, s
<1>7. Reads(s, st, {"order", i.owner, "sku"}, {i.total, 100 * i.days}, st.allowed,
            st.looked \cup {"order"}, st.verified, {})
  BY <1>1, <1>2, <1>3, <1>4, <1>5, <1>6 DEF Reads, Fields
<1> QED
  BY <1>7 DEF s

\* The policy, the invented argument and the check, as the checker reads them.
LEMMA ReadSeen ==
    ASSUME NEW i, NEW d, NEW st, NEW last, "sku" \in st.ids
    PROVE  Reads(Seeing(i, d, st, Read, last), st, {"sku"}, {100 * i.window, 100 * i.fee},
                 st.allowed, st.looked, st.verified, {})
<1> DEFINE s == Seeing(i, d, st, Read, last)
           obs == Observe(i, d, Read)
<1>1. Read.tool = "get_policy" /\ Read.id = "sku" /\ Read.amount = 0
  BY DEF Read, ToCall
<1>2. obs.ids = {"sku"}
  <2>1. obs.ids = {id \in Ids : TellsId(i, Read, id)}
    BY ObserveFields
  <2>2. \A id \in Ids : TellsId(i, Read, id) <=> id = "sku"
    BY <1>1 DEF TellsId
  <2>3. "sku" \in Ids
    BY DEF Ids
  <2> QED
    BY <2>1, <2>2, <2>3
<1>3. obs.nums = {100 * i.window, 100 * i.fee}
  <2>1. obs.nums = {num \in Figures(i, d, Read) : Answers(i, d, Read)}
    BY ObserveFields
  <2>2. Figures(i, d, Read) = {100 * i.window, 100 * i.fee} /\ Answers(i, d, Read)
    BY <1>1 DEF Figures, Answers
  <2> QED
    BY <2>1, <2>2
<1>4. Broken(i, st, Read, last) = {}
  BY <1>1 DEF Broken, Ungrounded
<1>5. Fields(s, i, st, Read, obs, last)
  BY SeeingIs
<1> HIDE DEF obs, s
<1>6. Reads(s, st, {"sku"}, {100 * i.window, 100 * i.fee}, st.allowed, st.looked, st.verified, {})
  BY <1>1, <1>2, <1>3, <1>4, <1>5 DEF Reads, Fields
<1> QED
  BY <1>6 DEF s

\* An invented identifier: no answer, and a violation.
LEMMA InventSeen ==
    ASSUME NEW i, NEW d, NEW st, NEW last, "nobody" \notin st.ids
    PROVE  Reads(Seeing(i, d, st, Invent, last), st, {}, {}, st.allowed, st.looked, st.verified,
                 {"R4"})
<1> DEFINE s == Seeing(i, d, st, Invent, last)
           obs == Observe(i, d, Invent)
<1>1. Invent.tool = "get_policy" /\ Invent.id = "nobody" /\ Invent.amount = 0
  BY DEF Invent, ToCall
<1>2. obs.ids = {}
  <2>1. obs.ids = {id \in Ids : TellsId(i, Invent, id)}
    BY ObserveFields
  <2>2. \A id \in Ids : ~ TellsId(i, Invent, id)
    BY <1>1 DEF TellsId
  <2> QED
    BY <2>1, <2>2
<1>3. obs.nums = {}
  <2>1. obs.nums = {num \in Figures(i, d, Invent) : Answers(i, d, Invent)}
    BY ObserveFields
  <2>2. ~ Answers(i, d, Invent)
    BY <1>1 DEF Answers, Pays
  <2> QED
    BY <2>1, <2>2
<1>4. Broken(i, st, Invent, last) = {"R4"}
  <2>1. \A rule \in Broken(i, st, Invent, last) : rule = "R4"
    BY <1>1 DEF Broken, Ungrounded
  <2>2. "R4" \in Broken(i, st, Invent, last)
    BY <1>1 DEF Broken, Ungrounded, IdTools, Rules
  <2> QED
    BY <2>1, <2>2
<1>5. Fields(s, i, st, Invent, obs, last)
  BY SeeingIs
<1> HIDE DEF obs, s
<1>6. Reads(s, st, {}, {}, st.allowed, st.looked, st.verified, {"R4"})
  BY <1>1, <1>2, <1>3, <1>4, <1>5 DEF Reads, Fields
<1> QED
  BY <1>6 DEF s

\* The check tells what may be refunded, if the order may be.
LEMMA CheckSeen ==
    ASSUME NEW i, NEW st, NEW last, "order" \in st.ids, "order" \in st.looked
    PROVE  Reads(Seeing(i, Opened(i), st, Check, last), st, {},
                 {IF Can(i) THEN MaxRefund(i) ELSE 0},
                 IF Can(i) THEN MaxRefund(i) ELSE st.allowed, st.looked, st.verified, {})
<1> DEFINE s == Seeing(i, Opened(i), st, Check, last)
           obs == Observe(i, Opened(i), Check)
<1>1. Check.tool = "check_eligibility" /\ Check.id = "order" /\ Check.amount = 0
  BY DEF Check, ToCall
<1>2. obs.ids = {}
  <2>1. obs.ids = {id \in Ids : TellsId(i, Check, id)}
    BY ObserveFields
  <2>2. \A id \in Ids : ~ TellsId(i, Check, id)
    BY <1>1 DEF TellsId
  <2> QED
    BY <2>1, <2>2
<1>3. /\ obs.ok = TRUE /\ obs.eligible = Can(i)
      /\ obs.amount = (IF Can(i) THEN MaxRefund(i) ELSE 0)
  <2>1. Answers(i, Opened(i), Check)
    BY <1>1 DEF Answers
  <2>2. Passes(i, Opened(i), Check) <=> Can(i)
    BY <1>1 DEF Passes, Can
  <2>3. ~ Pays(i, Opened(i), Check)
    BY <1>1 DEF Pays
  <2>4. Figure(i, Opened(i), Check) = (IF Can(i) THEN MaxRefund(i) ELSE 0)
    BY <2>2, <2>3 DEF Figure
  <2>5. obs.ok = TRUE
    BY <2>1, ObserveFields
  <2>6. obs.eligible = Can(i)
    BY <2>2, ObserveFields DEF Passes, Can, Eligible
  <2>7. obs.amount = (IF Can(i) THEN MaxRefund(i) ELSE 0)
    BY <2>4, ObserveFields
  <2> QED
    BY <2>5, <2>6, <2>7
<1>4. obs.nums = {obs.amount}
  <2>1. obs.nums = {num \in Figures(i, Opened(i), Check) : Answers(i, Opened(i), Check)}
    BY ObserveFields
  <2>2. Figures(i, Opened(i), Check) = {obs.amount} /\ Answers(i, Opened(i), Check)
    BY <1>1, ObserveFields DEF Figures, Answers
  <2> QED
    BY <2>1, <2>2
<1>5. Broken(i, st, Check, last) = {}
  BY <1>1 DEF Broken, Ungrounded
<1>6. Fields(s, i, st, Check, obs, last)
  BY SeeingIs
<1> HIDE DEF obs, s
<1>7. Reads(s, st, {}, {obs.amount}, IF Can(i) THEN obs.amount ELSE st.allowed, st.looked,
            st.verified, {})
  BY <1>1, <1>2, <1>3, <1>4, <1>5, <1>6 DEF Reads, Fields
<1>8. (IF Can(i) THEN obs.amount ELSE st.allowed) = (IF Can(i) THEN MaxRefund(i) ELSE st.allowed)
  BY <1>3
<1> QED
  BY <1>3, <1>7, <1>8 DEF s

\* An act: what ends the case, or tells of it.
Acts(s, st, ids, nums, refunded, terminal, replies, rules) ==
    /\ s.n = st.n + 1 /\ s.ids = st.ids \cup ids /\ s.nums = st.nums \cup nums
    /\ s.allowed = st.allowed /\ s.looked = st.looked /\ s.verified = st.verified
    /\ s.refunded = refunded /\ s.terminal = (st.terminal \/ terminal) /\ s.replies = replies
    /\ s.fired = With(st, rules)

\* The desk pays what it is asked for an order that may be refunded.
LEMMA PayAnswer ==
    ASSUME NEW i, NEW amount \in Nat, Can(i), 0 < amount, amount =< i.total
    PROVE  /\ Pays(i, Opened(i), Pay(amount))
           /\ Observe(i, Opened(i), Pay(amount)).ok = TRUE
           /\ Observe(i, Opened(i), Pay(amount)).amount = amount
           /\ Observe(i, Opened(i), Pay(amount)).ids = {}
           /\ Observe(i, Opened(i), Pay(amount)).nums = {amount}
<1> DEFINE call == Pay(amount)
           obs == Observe(i, Opened(i), call)
<1>1. call.tool = "issue_refund" /\ call.id = "order" /\ call.amount = amount
  BY DEF Pay, ToCall
<1> HIDE DEF call
<1>2. Pays(i, Opened(i), call)
  BY <1>1 DEF Pays, Can, Eligible
<1>3. Answers(i, Opened(i), call)
  BY <1>2 DEF Answers
<1>4. Figure(i, Opened(i), call) = amount
  BY <1>1, <1>2 DEF Figure, Passes
<1>5. obs.ok = TRUE /\ obs.amount = amount
  BY <1>3, <1>4, ObserveFields
<1>6. obs.ids = {}
  <2>1. obs.ids = {id \in Ids : TellsId(i, call, id)}
    BY ObserveFields
  <2>2. \A id \in Ids : ~ TellsId(i, call, id)
    BY <1>1 DEF TellsId
  <2> QED
    BY <2>1, <2>2
<1>7. obs.nums = {amount}
  <2>1. obs.nums = {num \in Figures(i, Opened(i), call) : Answers(i, Opened(i), call)}
    BY ObserveFields
  <2>2. Figures(i, Opened(i), call) = {amount}
    BY <1>1, <1>4 DEF Figures
  <2> QED
    BY <1>3, <2>1, <2>2
<1> QED
  BY <1>2, <1>5, <1>6, <1>7 DEF call

\* The acts: a refund of an amount that was read, a hand over, the reply.
LEMMA PaySeen ==
    ASSUME NEW i, NEW amount \in Nat, Can(i), 0 < amount, amount =< i.total,
           NEW st, NEW last, "order" \in st.ids, amount \in st.nums, "order" \notin st.refunded,
           st.verified = "asker"
    PROVE  Acts(Seeing(i, Opened(i), st, Pay(amount), last), st, {}, {amount},
                st.refunded \cup {"order"}, TRUE, st.replies,
                IF st.allowed = None THEN {"R1"}
                ELSE IF Near(amount, st.allowed) THEN {} ELSE {"R2"})
<1> DEFINE call == Pay(amount)
           s == Seeing(i, Opened(i), st, call, last)
           obs == Observe(i, Opened(i), call)
           rules == IF st.allowed = None THEN {"R1"}
                    ELSE IF Near(amount, st.allowed) THEN {} ELSE {"R2"}
<1>1. call.tool = "issue_refund" /\ call.id = "order" /\ call.amount = amount
  BY DEF Pay, ToCall
<1>2. obs.ok = TRUE /\ obs.ids = {} /\ obs.nums = {amount}
  BY PayAnswer
<1> HIDE DEF call
<1>3. i.owner = "asker" /\ i.status # "refunded"
  BY DEF Can, Eligible, Opened
<1>4. Broken(i, st, call, last) = rules
  <2>1. Authorised(st, call) <=> st.allowed # None
    BY <1>1 DEF Authorised
  <2>2. ~ Ungrounded(st, call)
    BY <1>1 DEF Ungrounded, Near
  <2>3. \A rule \in Broken(i, st, call, last) :
           \/ rule = "R1" /\ st.allowed = None
           \/ rule = "R2" /\ st.allowed # None /\ ~ Near(amount, st.allowed)
    BY <1>1, <1>3, <2>1, <2>2 DEF Broken
  <2>4. st.allowed = None => "R1" \in Broken(i, st, call, last)
    BY <1>1, <2>1 DEF Broken, Rules
  <2>5. st.allowed # None /\ ~ Near(amount, st.allowed) => "R2" \in Broken(i, st, call, last)
    BY <1>1, <2>1 DEF Broken, Rules
  <2> QED
    BY <2>3, <2>4, <2>5
<1>5. Fields(s, i, st, call, obs, last)
  BY SeeingIs
<1> HIDE DEF obs, s, rules
<1>6. Acts(s, st, {}, {amount}, st.refunded \cup {"order"}, TRUE, st.replies, rules)
  BY <1>1, <1>2, <1>4, <1>5 DEF Acts, Fields
<1> QED
  BY <1>6 DEF s, rules, call

LEMMA HandOverSeen ==
    ASSUME NEW i, NEW d, NEW st, NEW last
    PROVE  /\ Acts(Seeing(i, d, st, HandOver, last), st, {"words"}, {}, st.refunded, TRUE,
                   st.replies, {})
           /\ Observe(i, d, HandOver).ok = TRUE
<1> DEFINE s == Seeing(i, d, st, HandOver, last)
           obs == Observe(i, d, HandOver)
<1>1. HandOver.tool = "escalate" /\ HandOver.id = "words" /\ HandOver.amount = 0
  BY DEF HandOver, ToCall
<1>2. obs.ok = TRUE
  BY <1>1, ObserveFields DEF Answers
<1>3. obs.ids = {"words"}
  <2>1. obs.ids = {id \in Ids : TellsId(i, HandOver, id)}
    BY ObserveFields
  <2>2. \A id \in Ids : TellsId(i, HandOver, id) <=> id = "words"
    BY <1>1 DEF TellsId
  <2>3. "words" \in Ids
    BY DEF Ids
  <2> QED
    BY <2>1, <2>2, <2>3
<1>4. obs.nums = {}
  BY <1>1, ObserveFields DEF Figures
<1>5. Broken(i, st, HandOver, last) = {}
  BY <1>1 DEF Broken, Ungrounded, IdTools
<1>6. Fields(s, i, st, HandOver, obs, last)
  BY SeeingIs
<1> HIDE DEF obs, s
<1>7. Acts(s, st, {"words"}, {}, st.refunded, TRUE, st.replies, {})
  BY <1>1, <1>2, <1>3, <1>4, <1>5, <1>6 DEF Acts, Fields
<1> QED
  BY <1>2, <1>7 DEF s, obs

LEMMA SaySeen ==
    ASSUME NEW i, NEW d, NEW st
    PROVE  Acts(Seeing(i, d, st, Say, TRUE), st, {}, {}, st.refunded, FALSE, st.replies + 1, {})
<1> DEFINE s == Seeing(i, d, st, Say, TRUE)
           obs == Observe(i, d, Say)
<1>1. Say.tool = "reply" /\ Say.id = "words" /\ Say.amount = 0
  BY DEF Say, ToCall
<1>2. obs.ids = {}
  <2>1. obs.ids = {id \in Ids : TellsId(i, Say, id)}
    BY ObserveFields
  <2>2. \A id \in Ids : ~ TellsId(i, Say, id)
    BY <1>1 DEF TellsId
  <2> QED
    BY <2>1, <2>2
<1>3. obs.nums = {}
  BY <1>1, ObserveFields DEF Figures
<1>4. Broken(i, st, Say, TRUE) = {}
  BY <1>1 DEF Broken, Ungrounded, IdTools
<1>5. Fields(s, i, st, Say, obs, TRUE)
  BY SeeingIs
<1> HIDE DEF obs, s
<1>6. Acts(s, st, {}, {}, st.refunded, FALSE, st.replies + 1, {})
  BY <1>1, <1>2, <1>3, <1>4, <1>5 DEF Acts, Fields
<1> QED
  BY <1>6 DEF s
-----------------------------------------------------------------------------
(* A replay, step by step *)

\* The rest of a list, after n.
Rest(list, n) == [k \in 1 .. Len(list) - n |-> list[k + n]]

\* The head of what remains is the next entry, its tail remains after it.
LEMMA RestFacts ==
    ASSUME NEW S, NEW list \in Seq(S), NEW n \in Nat, n < Len(list)
    PROVE  /\ Rest(list, n) # << >> /\ Len(Rest(list, n)) = Len(list) - n
           /\ Head(Rest(list, n)) = list[n + 1]
           /\ Tail(Rest(list, n)) = Rest(list, n + 1)
<1> DEFINE r == Rest(list, n)
           q == Rest(list, n + 1)
           m == Len(list) - n
<1>1. m \in Nat /\ m >= 1 /\ Len(list) \in Nat
  OBVIOUS
<1>2. r = [k \in 1 .. m |-> list[k + n]]
  BY DEF Rest
<1>3. q = [k \in 1 .. m - 1 |-> list[k + (n + 1)]]
  <2>1. q = [k \in 1 .. Len(list) - (n + 1) |-> list[k + (n + 1)]]
    BY DEF Rest
  <2>2. Len(list) - (n + 1) = m - 1
    BY <1>1
  <2> QED
    BY <2>1, <2>2
<1>4. \A k \in 1 .. m : list[k + n] \in S
  BY <1>1
<1>5. \A k \in 1 .. m - 1 : list[k + (n + 1)] \in S
  BY <1>1
<1> HIDE DEF m
<1>6. r \in Seq(S) /\ Len(r) = m /\ \A k \in 1 .. m : r[k] = list[k + n]
  BY <1>1, <1>2, <1>4
<1>7. q \in Seq(S) /\ Len(q) = m - 1 /\ \A k \in 1 .. m - 1 : q[k] = list[k + (n + 1)]
  <2> DEFINE l == m - 1
  <2>1. l \in Nat
    BY <1>1
  <2>2. q = [k \in 1 .. l |-> list[k + (n + 1)]] /\ \A k \in 1 .. l : list[k + (n + 1)] \in S
    BY <1>3, <1>5
  <2> HIDE DEF l, q
  <2>3. q \in Seq(S)
    BY <2>1, <2>2
  <2>4. Len(q) = l /\ \A k \in 1 .. l : q[k] = list[k + (n + 1)]
    BY <2>1, <2>2
  <2> QED
    BY <2>3, <2>4 DEF l
<1> HIDE DEF r, q
<1>8. r # << >>
  BY <1>1, <1>6
<1>9. Head(r) = list[n + 1]
  BY <1>1, <1>6, <1>8
<1>10. Tail(r) \in Seq(S) /\ Len(Tail(r)) = m - 1 /\ \A k \in 1 .. m - 1 : Tail(r)[k] = r[k + 1]
  BY <1>1, <1>6, <1>8, HeadTailProperties
<1>11. \A k \in 1 .. m - 1 : Tail(r)[k] = q[k]
  <2>1. ASSUME NEW k \in 1 .. m - 1 PROVE Tail(r)[k] = q[k]
    <3>1. k + 1 \in 1 .. m /\ (k + 1) + n = k + (n + 1)
      BY <1>1
    <3> QED
      BY <1>6, <1>7, <1>10, <3>1
  <2> QED
    BY <2>1
<1>12. Alike(Tail(r), q)
  BY <1>7, <1>10, <1>11 DEF Alike
<1>13. Tail(r) = q
  BY <1>7, <1>10, <1>12, AlikeIsEqual
<1> QED
  BY <1>6, <1>8, <1>9, <1>13 DEF r, q, m

LEMMA RestEnds ==
    ASSUME NEW S, NEW list \in Seq(S)
    PROVE  Rest(list, 0) = list /\ Rest(list, Len(list)) = << >>
<1>1. Rest(list, 0) \in Seq(S) /\ Len(Rest(list, 0)) = Len(list)
      /\ \A k \in 1 .. Len(list) : Rest(list, 0)[k] = list[k]
  BY DEF Rest
<1>2. Alike(Rest(list, 0), list)
  BY <1>1 DEF Alike
<1>3. Rest(list, Len(list)) = << >>
  BY DEF Rest
<1> QED
  BY <1>1, <1>2, <1>3, AlikeIsEqual

RealCalls == [tool : Tools \cup {"none"}, id : Ids, amount : Nat]

\* Every call of a script is a call an agent can make.
LEMMA CallsAreOnes ==
    /\ {Ask, Find, Read, Check, HandOver, Say, Invent} \subseteq RealCalls
    /\ \A amount \in Nat : Pay(amount) \in RealCalls
BY DEF Ask, Find, Read, Check, HandOver, Say, Invent, Pay, ToCall, RealCalls, Tools, Ids

\* What a script says, call by call.
LEMMA ScriptFacts ==
    ASSUME NEW i \in Instances, NEW fault
    PROVE  LET s == Script(fault, i) IN
           /\ s \in Seq(RealCalls) /\ Len(s) = Steps(fault)
           /\ s[1] = Ask /\ s[2] = Find /\ s[3] = Third(fault)
           /\ fault = "skipped_precondition" =>
                 s[4] = Resolve(i, Amount(fault, i)) /\ s[5] = Say
           /\ fault # "skipped_precondition" => s[4] = Check
           /\ fault \notin {"skipped_precondition", "premature_stop"} =>
                 s[5] = Resolve(i, Amount(fault, i)) /\ s[6] = Say
<1> DEFINE r == Resolve(i, Amount(fault, i))
           third == Third(fault)
<1>1. i.total \in Nat /\ MaxRefund(i) \in Nat
  BY InstanceFacts, MaxRefundFacts
<1>2. Amount(fault, i) \in Nat
  BY <1>1 DEF Amount
<1>3. r \in RealCalls
  BY <1>2, CallsAreOnes DEF Resolve
<1>4. third \in RealCalls
  BY CallsAreOnes DEF Third
<1>5. Ask \in RealCalls /\ Find \in RealCalls /\ Read \in RealCalls /\ Check \in RealCalls
      /\ Say \in RealCalls
  BY CallsAreOnes
<1>6. CASE fault = "skipped_precondition"
  <2>1. Script(fault, i) = << Ask, Find, Read, r, Say >>
    BY <1>6 DEF Script, Amount
  <2>2. Third(fault) = Read /\ Steps(fault) = 5
    BY <1>6 DEF Third, Steps
  <2> HIDE DEF r
  <2>3. << Ask, Find, Read, r, Say >> \in Seq(RealCalls)
    BY <1>3, <1>5
  <2>4. Script(fault, i) \in Seq(RealCalls)
    BY <2>1, <2>3
  <2>5. /\ Len(Script(fault, i)) = 5
        /\ Script(fault, i)[1] = Ask /\ Script(fault, i)[2] = Find /\ Script(fault, i)[3] = Read
        /\ Script(fault, i)[4] = r /\ Script(fault, i)[5] = Say
    BY <2>1
  <2> QED
    BY <1>6, <2>2, <2>4, <2>5 DEF r
<1>7. CASE fault = "premature_stop"
  <2>1. Script(fault, i) = << Ask, Find, Read, Check >>
    BY <1>7 DEF Script
  <2>2. Third(fault) = Read /\ Steps(fault) = 4
    BY <1>7 DEF Third, Steps
  <2>3. << Ask, Find, Read, Check >> \in Seq(RealCalls)
    BY <1>5
  <2>4. Script(fault, i) \in Seq(RealCalls)
    BY <2>1, <2>3
  <2>5. /\ Len(Script(fault, i)) = 4
        /\ Script(fault, i)[1] = Ask /\ Script(fault, i)[2] = Find /\ Script(fault, i)[3] = Read
        /\ Script(fault, i)[4] = Check
    BY <2>1
  <2> QED
    BY <1>7, <2>2, <2>4, <2>5
<1>8. CASE fault \notin {"skipped_precondition", "premature_stop"}
  <2>1. Script(fault, i) = << Ask, Find, third, Check, r, Say >>
    BY <1>8 DEF Script
  <2>2. Steps(fault) = 6
    BY <1>8 DEF Steps
  <2> HIDE DEF r, third
  <2>3. << Ask, Find, third, Check, r, Say >> \in Seq(RealCalls)
    BY <1>3, <1>4, <1>5
  <2>4. Script(fault, i) \in Seq(RealCalls)
    BY <2>1, <2>3
  <2>5. /\ Len(Script(fault, i)) = 6
        /\ Script(fault, i)[1] = Ask /\ Script(fault, i)[2] = Find /\ Script(fault, i)[3] = third
        /\ Script(fault, i)[4] = Check /\ Script(fault, i)[5] = r /\ Script(fault, i)[6] = Say
    BY <2>1
  <2> QED
    BY <1>8, <2>2, <2>4, <2>5 DEF r, third
<1> QED
  BY <1>6, <1>7, <1>8

\* The step at which the case is resolved, beyond the last for a run that stops before it.
Settles(fault) == IF fault = "skipped_precondition" THEN 4 ELSE 5

\* What was broken after n steps.
Fires(fault, n) ==
    IF fault = "hallucinated_argument" /\ n >= 3 THEN { <<2, "R4">> }
    ELSE IF fault = "skipped_precondition" /\ n >= 4 THEN { <<3, "R1">> }
    ELSE IF fault = "ignored_observation" /\ n >= 5 THEN { <<4, "R2">> }
    ELSE IF fault = "premature_stop" /\ n >= 4 THEN { <<3, "R5">>, <<3, "R8">> }
    ELSE {}

Checked(fault, i, n) == n >= 4 /\ fault # "skipped_precondition" /\ Can(i)

\* Where the replay is in its script.
Along(fault, i, st, list, o) ==
    /\ st.n \in Nat /\ st.n =< Steps(fault)
    /\ list = Rest(Script(fault, i), st.n)
    /\ o <=> st.n = Steps(fault)

\* What the readings have told.
Heard(fault, i, st) ==
    /\ {"email", "order"} \subseteq st.ids /\ "nobody" \notin st.ids
    /\ st.n >= 2 => "sku" \in st.ids /\ i.total \in st.nums
    /\ Checked(fault, i, st.n) => MaxRefund(i) \in st.nums
    /\ st.verified = (IF st.n >= 1 THEN "asker" ELSE "words")
    /\ st.looked = (IF st.n >= 2 THEN {"order"} ELSE {})
    /\ st.allowed = (IF Checked(fault, i, st.n) THEN MaxRefund(i) ELSE None)

\* What has been done, and which rules are broken.
Moved(fault, i, d, st, a) ==
    /\ st.terminal <=> st.n >= Settles(fault)
    /\ st.n < Settles(fault) =>
          /\ d = Opened(i) /\ st.refunded = {}
          /\ a.refunded = FALSE /\ a.amount = 0 /\ a.escalated = FALSE
    /\ st.n >= Settles(fault) =>
          /\ a.refunded <=> Can(i)
          /\ a.amount = (IF Can(i) THEN Amount(fault, i) ELSE 0)
          /\ a.escalated <=> ~ Can(i)
    /\ st.replies = (IF st.n > Settles(fault) THEN 1 ELSE 0)
    /\ st.fired = Fires(fault, st.n)

Told(fault, i, d, st, a, list, o) ==
    /\ Along(fault, i, st, list, o) /\ Heard(fault, i, st) /\ Moved(fault, i, d, st, a)

\* A run that is a replay is as far in its script as the checker has read.
Replayed ==
    /\ instance \in Instances /\ kind \in FailureTypes \cup {"clean", "model"}
    /\ kind = "model" => calls = << >>
    /\ kind # "model" =>
          /\ Hosts(kind, instance) /\ step = Labelled(kind)
          /\ Told(kind, instance, desk, seen, acted, calls, over)

\* A replay begins with all of its script before it.
LEMMA ReplayBegins == Init => Replayed
<1> SUFFICES ASSUME Init PROVE Replayed
  OBVIOUS
<1>1. instance \in Instances /\ desk = Opened(instance) /\ seen = Unread /\ acted = Nothing
      /\ over = FALSE
  BY DEF Init, Begin
<1>2. kind \in FailureTypes \cup {"clean", "model"}
  BY KindsAssumption DEF Init
<1>3. ASSUME kind # "model"
      PROVE  /\ Hosts(kind, instance) /\ step = Labelled(kind)
             /\ Told(kind, instance, desk, seen, acted, calls, over)
  <2>1. Applies(kind, instance) /\ calls = Edited(kind, instance)[1] /\ step = Edited(kind, instance)[2]
    BY <1>3 DEF Init, Scripted
  <2>2. kind \in FailureTypes \cup {"clean"}
    BY <1>2, <1>3
  <2>3. Hosts(kind, instance)
    BY <2>1, <2>2, AppliesIs
  <2>4. Edited(kind, instance) = << Script(kind, instance), Labelled(kind) >>
    BY <2>2, <2>3, EditedIs
  <2>5. calls = Script(kind, instance) /\ step = Labelled(kind)
    BY <2>1, <2>4
  <2>6. Script(kind, instance) \in Seq(RealCalls)
    BY <1>1, ScriptFacts
  <2>7. calls = Rest(Script(kind, instance), 0)
    BY <2>5, <2>6, RestEnds
  <2>8. /\ seen.n = 0 /\ seen.ids = {"email", "order"} /\ seen.nums = {} /\ seen.allowed = None
        /\ seen.looked = {} /\ seen.verified = "words" /\ seen.refunded = {}
        /\ seen.terminal = FALSE /\ seen.replies = 0 /\ seen.fired = {}
    BY <1>1 DEF Unread
  <2>9. Steps(kind) \in {4, 5, 6} /\ Settles(kind) \in {4, 5}
    BY DEF Steps, Settles
  <2>10. Along(kind, instance, seen, calls, over)
    BY <1>1, <2>7, <2>8, <2>9 DEF Along
  <2>11. Heard(kind, instance, seen)
    BY <2>8 DEF Heard, Checked
  <2>12. Fires(kind, seen.n) = {}
    BY <2>8 DEF Fires
  <2>13. acted.refunded = FALSE /\ acted.amount = 0 /\ acted.escalated = FALSE
    BY <1>1 DEF Nothing
  <2>14. Moved(kind, instance, desk, seen, acted)
    BY <1>1, <2>8, <2>9, <2>12, <2>13 DEF Moved
  <2> QED
    BY <2>3, <2>5, <2>10, <2>11, <2>14 DEF Told
<1>4. kind = "model" => calls = << >>
  BY DEF Init
<1> QED
  BY <1>1, <1>2, <1>3, <1>4 DEF Replayed

\* A step of a replay.
Goes(call, last) ==
    /\ desk' = After(instance, desk, call)
    /\ seen' = (IF last THEN Close(Seeing(instance, desk, seen, call, last))
                ELSE Seeing(instance, desk, seen, call, last))
    /\ acted' = Acted(call, Observe(instance, desk, call))
    /\ over' = last
    /\ calls' = Rest(Script(kind, instance), seen.n + 1)
    /\ instance' = instance /\ kind' = kind /\ step' = step

\* It is the next call of the script.
LEMMA ReplayStep ==
    ASSUME Replayed, kind # "model", Replay,
           NEW call, call = Script(kind, instance)[seen.n + 1]
    PROVE  /\ seen.n < Steps(kind) /\ call \in RealCalls
           /\ seen.n + 1 # Steps(kind) => Goes(call, FALSE)
           /\ seen.n + 1 = Steps(kind) => Goes(call, TRUE)
<1> DEFINE n == seen.n
           list == Script(kind, instance)
<1>1. instance \in Instances /\ n \in Nat /\ n =< Steps(kind) /\ calls = Rest(list, n)
      /\ (over <=> n = Steps(kind))
  BY DEF Replayed, Told, Along
<1>2. list \in Seq(RealCalls) /\ Len(list) = Steps(kind)
  BY <1>1, ScriptFacts
<1>3. /\ Play(Head(calls), Len(calls) = 1) /\ calls' = Tail(calls) /\ kind' = kind /\ step' = step
  BY DEF Replay
<1>4. ~ over
  BY <1>3 DEF Play
<1>0. call = list[n + 1]
  OBVIOUS
<1>5. n < Steps(kind)
  BY <1>1, <1>2, <1>4
<1> HIDE DEF list, n
<1>6. /\ Len(calls) = Steps(kind) - n /\ Head(calls) = call
      /\ calls' = Rest(list, n + 1)
  BY <1>0, <1>1, <1>2, <1>3, <1>5, RestFacts
<1>7. Len(calls) = 1 <=> n + 1 = Steps(kind)
  BY <1>1, <1>2, <1>5, <1>6 DEF Steps
<1>8. call \in RealCalls
  BY <1>0, <1>1, <1>2, <1>5
<1>9. ASSUME NEW last \in BOOLEAN, Play(call, last) PROVE Goes(call, last)
  <2>1. /\ desk' = After(instance, desk, call)
        /\ seen' = (IF last THEN Close(Seeing(instance, desk, seen, call, last))
                    ELSE Seeing(instance, desk, seen, call, last))
        /\ acted' = Acted(call, Observe(instance, desk, call))
        /\ over' = last
        /\ instance' = instance
    BY <1>9, Zenon DEF Play, Seeing
  <2>2. calls' = Rest(Script(kind, instance), seen.n + 1)
    BY <1>6 DEF list, n
  <2> QED
    BY <1>3, <2>1, <2>2, Zenon DEF Goes
<1>10. CASE n + 1 = Steps(kind)
  <2>1. Play(call, TRUE)
    BY <1>3, <1>6, <1>7, <1>10 DEF Play
  <2>2. Goes(call, TRUE)
    BY <1>9, <2>1
  <2> QED
    BY <1>5, <1>8, <1>10, <2>2 DEF n
<1>11. CASE n + 1 # Steps(kind)
  <2>1. Play(call, FALSE)
    BY <1>3, <1>6, <1>7, <1>11 DEF Play
  <2>2. Goes(call, FALSE)
    BY <1>9, <2>1
  <2> QED
    BY <1>5, <1>8, <1>11, <2>2 DEF n
<1> QED
  BY <1>10, <1>11

\* A call that neither pays nor hands over leaves the desk and the outcome alone.
LEMMA QuietCall ==
    ASSUME NEW i, NEW d, NEW call, NEW obs, call.tool \notin {"issue_refund", "escalate"},
           acted.refunded \in BOOLEAN, acted.escalated \in BOOLEAN
    PROVE  /\ After(i, d, call) = d
           /\ Acted(call, obs).refunded = acted.refunded /\ Acted(call, obs).amount = acted.amount
           /\ Acted(call, obs).escalated = acted.escalated
BY DEF After, Pays, Acted

\* The tools of the calls.
LEMMA ToolsCalled ==
    /\ Ask.tool = "get_customer" /\ Find.tool = "lookup_order" /\ Read.tool = "get_policy"
    /\ Invent.tool = "get_policy" /\ Check.tool = "check_eligibility"
    /\ HandOver.tool = "escalate" /\ Say.tool = "reply"
    /\ \A amount : Pay(amount).tool = "issue_refund"
BY DEF Ask, Find, Read, Invent, Check, HandOver, Say, Pay, ToCall

\* No rule broken, no violation more.
LEMMA WithNothing == ASSUME NEW st, NEW F, st.fired = F PROVE With(st, {}) = F
BY DEF With

\* A reading before the case is resolved.
LEMMA StillOpen ==
    ASSUME NEW fault, NEW i, NEW d, NEW st, NEW a, NEW s, NEW b, NEW e,
           Moved(fault, i, d, st, a), st.n \in Nat, s.n = st.n + 1, s.n < Settles(fault),
           s.refunded = st.refunded, s.terminal = (st.terminal \/ FALSE), s.replies = st.replies,
           e = d, b.refunded = a.refunded, b.amount = a.amount, b.escalated = a.escalated,
           s.fired = Fires(fault, s.n)
    PROVE  Moved(fault, i, e, s, b)
<1>1. Settles(fault) \in Nat
  BY DEF Settles
<1>2. st.n < Settles(fault) /\ ~ (s.n >= Settles(fault)) /\ ~ (st.n > Settles(fault))
      /\ ~ (s.n > Settles(fault)) /\ ~ (st.n >= Settles(fault))
  BY <1>1
<1> QED
  BY <1>2 DEF Moved

\* A step of a replay is the next of its script.
LEMMA GoesAlong ==
    ASSUME seen.n \in Nat, seen.n < Steps(kind), seen'.n = seen.n + 1, NEW call
    PROVE  /\ Goes(call, FALSE) /\ seen.n + 1 # Steps(kind) =>
                 Along(kind, instance, seen', calls', over')
           /\ Goes(call, TRUE) /\ seen.n + 1 = Steps(kind) =>
                 Along(kind, instance, seen', calls', over')
<1>1. Steps(kind) \in Nat
  BY DEF Steps
<1>2. seen'.n \in Nat /\ seen'.n =< Steps(kind)
  BY <1>1
<1>3. ASSUME NEW last \in BOOLEAN, Goes(call, last), last <=> seen.n + 1 = Steps(kind)
      PROVE  Along(kind, instance, seen', calls', over')
  <2>1. calls' = Rest(Script(kind, instance), seen'.n)
    BY <1>3, Zenon DEF Goes
  <2>2. over' <=> seen'.n = Steps(kind)
    BY <1>3 DEF Goes
  <2> QED
    BY <1>2, <2>1, <2>2 DEF Along
<1> QED
  BY <1>3

\* The invariant of a replay, step by step: the customer, the order.
LEMMA KeepsAsk ==
    ASSUME Replayed, kind # "model", Replay, seen.n = 0,
           acted.refunded \in BOOLEAN, acted.escalated \in BOOLEAN
    PROVE  Told(kind, instance, desk', seen', acted', calls', over')
<1>1. /\ instance \in Instances /\ Along(kind, instance, seen, calls, over)
      /\ Heard(kind, instance, seen) /\ Moved(kind, instance, desk, seen, acted)
  BY DEF Replayed, Told
<1>2. Script(kind, instance)[seen.n + 1] = Ask
  BY <1>1, ScriptFacts
<1>3. seen.n + 1 # Steps(kind) /\ seen.n + 1 < Settles(kind) /\ seen.n < Steps(kind)
  BY DEF Steps, Settles
<1>40. Goes(Ask, FALSE)
  BY <1>2, <1>3, ReplayStep
<1>4. /\ desk' = After(instance, desk, Ask)
      /\ seen' = Seeing(instance, desk, seen, Ask, FALSE)
      /\ acted' = Acted(Ask, Observe(instance, desk, Ask))
  BY <1>40 DEF Goes
<1>5. "email" \in seen.ids
  BY <1>1 DEF Heard
<1>6. Reads(seen', seen, {"asker"}, {}, seen.allowed, seen.looked, "asker", {})
  BY <1>4, <1>5, AskSeen
<1>7. /\ desk' = desk /\ acted'.refunded = acted.refunded /\ acted'.amount = acted.amount
      /\ acted'.escalated = acted.escalated
  BY <1>4, QuietCall, ToolsCalled
<1>8. Along(kind, instance, seen', calls', over')
  <2>1. seen'.n = seen.n + 1
    BY <1>6 DEF Reads
  <2>2. seen.n \in Nat
    OBVIOUS
  <2> QED
    BY <1>3, <1>40, <2>1, <2>2, GoesAlong, Zenon
<1>9. Heard(kind, instance, seen')
  BY <1>1, <1>6 DEF Heard, Reads, Checked
<1>10. seen'.fired = Fires(kind, seen'.n)
  BY <1>1, <1>6, WithNothing DEF Reads, Moved, Fires
<1>11. Moved(kind, instance, desk', seen', acted')
  BY <1>1, <1>3, <1>6, <1>7, <1>10, StillOpen DEF Reads
<1> QED
  BY <1>8, <1>9, <1>11 DEF Told

LEMMA KeepsFind ==
    ASSUME Replayed, kind # "model", Replay, seen.n = 1,
           acted.refunded \in BOOLEAN, acted.escalated \in BOOLEAN
    PROVE  Told(kind, instance, desk', seen', acted', calls', over')
<1>1. /\ instance \in Instances /\ Along(kind, instance, seen, calls, over)
      /\ Heard(kind, instance, seen) /\ Moved(kind, instance, desk, seen, acted)
  BY DEF Replayed, Told
<1>2. Script(kind, instance)[seen.n + 1] = Find
  BY <1>1, ScriptFacts
<1>3. seen.n + 1 # Steps(kind) /\ seen.n + 1 < Settles(kind) /\ seen.n < Steps(kind)
  BY DEF Steps, Settles
<1>40. Goes(Find, FALSE)
  BY <1>2, <1>3, ReplayStep
<1>4. /\ desk' = After(instance, desk, Find)
      /\ seen' = Seeing(instance, desk, seen, Find, FALSE)
      /\ acted' = Acted(Find, Observe(instance, desk, Find))
  BY <1>40 DEF Goes
<1>5. "order" \in seen.ids
  BY <1>1 DEF Heard
<1>6. Reads(seen', seen, {"order", instance.owner, "sku"}, {instance.total, 100 * instance.days},
            seen.allowed, seen.looked \cup {"order"}, seen.verified, {})
  BY <1>1, <1>4, <1>5, FindSeen
<1>7. /\ desk' = desk /\ acted'.refunded = acted.refunded /\ acted'.amount = acted.amount
      /\ acted'.escalated = acted.escalated
  BY <1>4, QuietCall, ToolsCalled
<1>8. Along(kind, instance, seen', calls', over')
  <2>1. seen'.n = seen.n + 1
    BY <1>6 DEF Reads
  <2>2. seen.n \in Nat
    OBVIOUS
  <2> QED
    BY <1>3, <1>40, <2>1, <2>2, GoesAlong, Zenon
<1>0. instance.owner \in {"asker", "other"}
  BY <1>1, InstanceFacts
<1>9. Heard(kind, instance, seen')
  BY <1>0, <1>1, <1>6 DEF Heard, Reads, Checked
<1>10. seen'.fired = Fires(kind, seen'.n)
  BY <1>1, <1>6, WithNothing DEF Reads, Moved, Fires
<1>11. Moved(kind, instance, desk', seen', acted')
  BY <1>1, <1>3, <1>6, <1>7, <1>10, StillOpen DEF Reads
<1> QED
  BY <1>8, <1>9, <1>11 DEF Told

\* The third call, which two of the faults change, and the check, which one leaves out.
LEMMA KeepsThird ==
    ASSUME Replayed, kind # "model", Replay, seen.n = 2,
           acted.refunded \in BOOLEAN, acted.escalated \in BOOLEAN
    PROVE  Told(kind, instance, desk', seen', acted', calls', over')
<1>1. /\ instance \in Instances /\ Along(kind, instance, seen, calls, over)
      /\ Heard(kind, instance, seen) /\ Moved(kind, instance, desk, seen, acted)
  BY DEF Replayed, Told
<1> DEFINE call == Third(kind)
           rules == IF kind = "hallucinated_argument" THEN {"R4"} ELSE {}
<1>2. Script(kind, instance)[seen.n + 1] = call
  BY <1>1, ScriptFacts
<1>3. seen.n + 1 # Steps(kind) /\ seen.n + 1 < Settles(kind) /\ seen.n < Steps(kind)
  BY DEF Steps, Settles
<1>4. Goes(call, FALSE)
  BY <1>2, <1>3, ReplayStep
<1>5. call.tool \notin {"issue_refund", "escalate"}
  BY ToolsCalled DEF Third
<1>6. /\ "order" \in seen.ids /\ "sku" \in seen.ids /\ "nobody" \notin seen.ids
      /\ seen.looked \cup {"order"} = {"order"} /\ seen.looked = {"order"}
  BY <1>1 DEF Heard
<1>7. instance.owner \in {"asker", "other"}
  BY <1>1, InstanceFacts
<1>8. PICK ids, nums :
         /\ Reads(seen', seen, ids, nums, seen.allowed, {"order"}, seen.verified, rules)
         /\ "nobody" \notin ids
  <2>1. CASE kind = "wrong_tool"
    <3>1. call = Find /\ rules = {}
      BY <2>1 DEF Third
    <3> HIDE DEF call, rules
    <3>2. seen' = Seeing(instance, desk, seen, Find, FALSE)
      BY <1>4, <3>1 DEF Goes
    <3>5. Reads(seen', seen, {"order", instance.owner, "sku"},
                {instance.total, 100 * instance.days}, seen.allowed, seen.looked \cup {"order"},
                seen.verified, {})
      BY <1>1, <1>6, <3>2, FindSeen
    <3>3. Reads(seen', seen, {"order", instance.owner, "sku"},
                {instance.total, 100 * instance.days}, seen.allowed, {"order"}, seen.verified, {})
      BY <1>6, <3>5, Zenon
    <3>4. "nobody" \notin {"order", instance.owner, "sku"}
      BY <1>7
    <3> QED
      BY <3>1, <3>3, <3>4
  <2>2. CASE kind = "hallucinated_argument"
    <3>1. call = Invent /\ rules = {"R4"}
      BY <2>2 DEF Third
    <3> HIDE DEF call, rules
    <3>2. seen' = Seeing(instance, desk, seen, Invent, FALSE)
      BY <1>4, <3>1 DEF Goes
    <3>5. Reads(seen', seen, {}, {}, seen.allowed, seen.looked, seen.verified, {"R4"})
      BY <1>6, <3>2, InventSeen
    <3>3. Reads(seen', seen, {}, {}, seen.allowed, {"order"}, seen.verified, {"R4"})
      BY <1>6, <3>5, Zenon
    <3> QED
      BY <3>1, <3>3
  <2>3. CASE kind \notin {"wrong_tool", "hallucinated_argument"}
    <3>1. call = Read /\ rules = {}
      BY <2>3 DEF Third
    <3> HIDE DEF call, rules
    <3>2. seen' = Seeing(instance, desk, seen, Read, FALSE)
      BY <1>4, <3>1 DEF Goes
    <3>5. Reads(seen', seen, {"sku"}, {100 * instance.window, 100 * instance.fee},
                seen.allowed, seen.looked, seen.verified, {})
      BY <1>6, <3>2, ReadSeen
    <3>3. Reads(seen', seen, {"sku"}, {100 * instance.window, 100 * instance.fee},
                seen.allowed, {"order"}, seen.verified, {})
      BY <1>6, <3>5, Zenon
    <3> QED
      BY <3>1, <3>3
  <2> QED
    BY <2>1, <2>2, <2>3
<1> HIDE DEF call
<1>9. /\ desk' = desk /\ acted'.refunded = acted.refunded /\ acted'.amount = acted.amount
      /\ acted'.escalated = acted.escalated
  BY <1>4, <1>5, QuietCall DEF Goes
<1>10. Along(kind, instance, seen', calls', over')
  <2>1. seen'.n = seen.n + 1
    BY <1>8 DEF Reads
  <2>2. seen.n \in Nat
    OBVIOUS
  <2> QED
    BY <1>3, <1>4, <2>1, <2>2, GoesAlong, Zenon
<1>11. Heard(kind, instance, seen')
  BY <1>1, <1>8 DEF Heard, Reads, Checked
<1>12. seen'.fired = Fires(kind, seen'.n)
  <2>1. seen.fired = {} /\ seen'.n = 3 /\ seen'.fired = With(seen, rules)
    BY <1>1, <1>8 DEF Moved, Fires, Reads
  <2>2. CASE kind = "hallucinated_argument"
    BY <2>1, <2>2 DEF With, Fires
  <2>3. CASE kind # "hallucinated_argument"
    BY <2>1, <2>3 DEF With, Fires
  <2> QED
    BY <2>2, <2>3
<1> HIDE DEF rules
<1>13. Moved(kind, instance, desk', seen', acted')
  BY <1>1, <1>3, <1>8, <1>9, <1>12, StillOpen DEF Reads
<1> QED
  BY <1>10, <1>11, <1>13 DEF Told

\* What the end of the trajectory leaves alone, and what it adds.
LEMMA CloseIs ==
    ASSUME NEW st, "fired" \in DOMAIN st
    PROVE  /\ Close(st).n = st.n /\ Close(st).ids = st.ids /\ Close(st).nums = st.nums
           /\ Close(st).allowed = st.allowed /\ Close(st).refunded = st.refunded
           /\ Close(st).looked = st.looked /\ Close(st).replies = st.replies
           /\ Close(st).terminal = st.terminal /\ Close(st).verified = st.verified
           /\ st.replies = 1 /\ st.terminal => Close(st).fired = st.fired
           /\ st.replies # 1 /\ ~ st.terminal =>
                 Close(st).fired = st.fired \cup {<<st.n - 1, "R5">>, <<st.n - 1, "R8">>}
<1>1. /\ Close(st).n = st.n /\ Close(st).ids = st.ids /\ Close(st).nums = st.nums
      /\ Close(st).allowed = st.allowed /\ Close(st).refunded = st.refunded
      /\ Close(st).looked = st.looked /\ Close(st).replies = st.replies
      /\ Close(st).terminal = st.terminal /\ Close(st).verified = st.verified
  BY DEF Close
<1>2. Close(st).fired = st.fired \cup { <<st.n - 1, rule>> : rule \in
            {r \in {"R5"} : st.replies # 1} \cup {r \in {"R8"} : ~ st.terminal} }
  BY DEF Close
<1>3. st.replies = 1 /\ st.terminal => Close(st).fired = st.fired
  BY <1>2
<1>4. ASSUME st.replies # 1, ~ st.terminal
      PROVE  Close(st).fired = st.fired \cup {<<st.n - 1, "R5">>, <<st.n - 1, "R8">>}
  <2>1. {r \in {"R5"} : st.replies # 1} \cup {r \in {"R8"} : ~ st.terminal} = {"R5", "R8"}
    BY <1>4
  <2> QED
    BY <1>2, <2>1
<1> QED
  BY <1>1, <1>3, <1>4

LEMMA KeepsCheck ==
    ASSUME Replayed, kind # "model", Replay, seen.n = 3, kind # "skipped_precondition",
           acted.refunded \in BOOLEAN, acted.escalated \in BOOLEAN
    PROVE  Told(kind, instance, desk', seen', acted', calls', over')
<1>1. /\ instance \in Instances /\ Along(kind, instance, seen, calls, over)
      /\ Heard(kind, instance, seen) /\ Moved(kind, instance, desk, seen, acted)
  BY DEF Replayed, Told
<1>2. Script(kind, instance)[seen.n + 1] = Check
  BY <1>1, ScriptFacts
<1>3. seen.n + 1 < Settles(kind) /\ seen.n < Steps(kind) /\ seen.n < Settles(kind)
  BY DEF Steps, Settles
<1>4. desk = Opened(instance) /\ "order" \in seen.ids /\ "order" \in seen.looked
      /\ seen.allowed = None
  BY <1>1, <1>3 DEF Moved, Heard, Checked
<1> DEFINE amount == IF Can(instance) THEN MaxRefund(instance) ELSE 0
           allowed == IF Can(instance) THEN MaxRefund(instance) ELSE seen.allowed
           last == (seen.n + 1 = Steps(kind))
           s == Seeing(instance, Opened(instance), seen, Check, last)
<1>5. Reads(s, seen, {}, {amount}, allowed, seen.looked, seen.verified, {}) /\ "fired" \in DOMAIN s
  BY <1>4, CheckSeen, SeeingIs
<1>6. Goes(Check, last)
  <2>1. CASE last
    BY <1>2, <2>1, ReplayStep
  <2>2. CASE ~ last
    BY <1>2, <2>2, ReplayStep
  <2> QED
    BY <2>1, <2>2
<1>7. seen' = (IF last THEN Close(s) ELSE s)
  BY <1>4, <1>6 DEF Goes
<1>8. last <=> kind = "premature_stop"
  BY DEF Steps
<1> HIDE DEF amount, s, allowed
<1>9. /\ s.n = 4 /\ s.ids = seen.ids \cup {} /\ s.nums = seen.nums \cup {amount}
      /\ s.allowed = allowed /\ s.looked = seen.looked /\ s.verified = seen.verified
      /\ s.refunded = seen.refunded /\ s.terminal = (seen.terminal \/ FALSE)
      /\ s.replies = seen.replies /\ s.fired = With(seen, {})
  BY <1>5 DEF Reads
<1>10. /\ seen'.n = s.n /\ seen'.ids = s.ids /\ seen'.nums = s.nums /\ seen'.allowed = s.allowed
       /\ seen'.looked = s.looked /\ seen'.verified = s.verified /\ seen'.refunded = s.refunded
       /\ seen'.terminal = s.terminal /\ seen'.replies = s.replies
  BY <1>5, <1>7, CloseIs
<1>11. /\ desk' = desk /\ acted'.refunded = acted.refunded /\ acted'.amount = acted.amount
       /\ acted'.escalated = acted.escalated
  BY <1>6, QuietCall, ToolsCalled DEF Goes
<1>12. Along(kind, instance, seen', calls', over')
  <2>1. seen'.n = seen.n + 1 /\ seen.n \in Nat
    BY <1>9, <1>10
  <2>2. CASE last
    BY <1>3, <1>6, <2>1, <2>2, GoesAlong, Zenon
  <2>3. CASE ~ last
    BY <1>3, <1>6, <2>1, <2>3, GoesAlong, Zenon
  <2> QED
    BY <2>2, <2>3
<1>13. Heard(kind, instance, seen')
  <2>1. Can(instance) => amount = MaxRefund(instance) /\ allowed = MaxRefund(instance)
    BY DEF amount, allowed
  <2>2. ~ Can(instance) => allowed = None
    BY <1>4 DEF allowed
  <2>3. Checked(kind, instance, seen'.n) <=> Can(instance)
    BY <1>9, <1>10 DEF Checked
  <2> QED
    BY <1>1, <1>9, <1>10, <2>1, <2>2, <2>3 DEF Heard
<1>14. seen'.fired = Fires(kind, seen'.n)
  <2>0. ~ (seen.n > Settles(kind)) /\ ~ (seen.n >= Settles(kind))
    BY DEF Settles
  <2>1. seen.fired = Fires(kind, 3) /\ ~ seen.terminal /\ seen.replies = 0
    BY <1>1, <2>0 DEF Moved
  <2>6. s.terminal = (seen.terminal \/ FALSE) /\ s.replies = seen.replies
    BY <1>9
  <2>7. ~ s.terminal
    BY <2>1, <2>6
  <2>8. s.replies # 1
    <3>1. s.replies = 0
      BY <2>1, <2>6
    <3> QED
      BY <3>1
  <2>5. ~ s.terminal /\ s.replies # 1
    BY <2>7, <2>8
  <2>2. s.fired = Fires(kind, 3)
    BY <1>9, <2>1, WithNothing
  <2>3. CASE ~ last
    BY <1>7, <1>8, <1>9, <2>2, <2>3 DEF Fires
  <2>4. CASE last
    <3>1. s.fired = {}
      BY <1>8, <2>2, <2>4 DEF Fires
    <3>2. seen'.fired = s.fired \cup {<<s.n - 1, "R5">>, <<s.n - 1, "R8">>}
      BY <1>5, <1>7, <2>4, <2>5, CloseIs
    <3>3. seen'.fired = {<<3, "R5">>, <<3, "R8">>}
      BY <1>9, <3>1, <3>2
    <3> QED
      BY <1>8, <1>9, <1>10, <2>4, <3>3 DEF Fires
  <2> QED
    BY <2>3, <2>4
<1>15. Moved(kind, instance, desk', seen', acted')
  BY <1>1, <1>3, <1>9, <1>10, <1>11, <1>14, StillOpen
<1> QED
  BY <1>12, <1>13, <1>15 DEF Told

\* A fee takes more than the cent that a comparison may overlook.
LEMMA FeeIsSeen ==
    ASSUME NEW i \in Instances, i.fee > 0
    PROVE  ~ Near(i.total, MaxRefund(i)) /\ ~ Near(MaxRefund(i), i.total)
<1> DEFINE p == i.total * (100 - i.fee)
           m == MaxRefund(i)
           t == i.total
<1>1. i.total \in Nat /\ i.total >= 2400 /\ i.fee \in Nat /\ i.fee < 100
  BY InstanceFacts
<1>2. p \in Nat /\ p =< 99 * i.total
  BY <1>1
<1>3. m = (p + 50) \div 100
  BY DEF MaxRefund, Net
<1>4. m \in Nat
  BY MaxRefundFacts
<1> HIDE DEF p
<1>5. m + 2 =< i.total
  BY <1>1, <1>2, <1>3
<1> HIDE DEF m
<1>6. t \in Nat /\ t # m /\ t # m + 1 /\ m # t + 1
  BY <1>1, <1>4, <1>5
<1> HIDE DEF t
<1>7. <<t, m>> \notin CloseCents /\ <<m, t>> \notin CloseCents
  BY <1>6, CloseCentsAssumption
<1> QED
  BY <1>6, <1>7 DEF Near, m, t

\* Every amount a script pays is one the desk accepts.
LEMMA AmountFacts ==
    ASSUME NEW i \in Instances, NEW fault
    PROVE  Amount(fault, i) \in Nat /\ 0 < Amount(fault, i) /\ Amount(fault, i) =< i.total
<1>1. i.total \in Nat /\ i.total >= 2400
  BY InstanceFacts
<1>2. MaxRefund(i) \in Nat /\ MaxRefund(i) > 1 /\ MaxRefund(i) =< i.total
  BY <1>1, MaxRefundFacts
<1> QED
  BY <1>1, <1>2 DEF Amount

\* The refund of a script breaks the rule of its fault and no other.
LEMMA RefundSeen ==
    ASSUME NEW fault, NEW i \in Instances, NEW st, NEW n \in {3, 4}, st.n = n,
           Heard(fault, i, st), Hosts(fault, i), Can(i), st.refunded = {},
           n = Settles(fault) - 1, fault # "premature_stop"
    PROVE  LET rules == IF fault = "skipped_precondition" THEN {"R1"}
                        ELSE IF fault = "ignored_observation" THEN {"R2"} ELSE {}
           IN  Acts(Seeing(i, Opened(i), st, Pay(Amount(fault, i)), FALSE), st, {},
                    {Amount(fault, i)}, {"order"}, TRUE, st.replies, rules)
<1> DEFINE amount == Amount(fault, i)
           s == Seeing(i, Opened(i), st, Pay(amount), FALSE)
           found == IF st.allowed = None THEN {"R1"}
                    ELSE IF Near(amount, st.allowed) THEN {} ELSE {"R2"}
           rules == IF fault = "skipped_precondition" THEN {"R1"}
                    ELSE IF fault = "ignored_observation" THEN {"R2"} ELSE {}
<1>1. amount \in Nat /\ 0 < amount /\ amount =< i.total
  BY AmountFacts
<1>2. /\ "order" \in st.ids /\ i.total \in st.nums /\ st.verified = "asker"
      /\ Checked(fault, i, n) => MaxRefund(i) \in st.nums
      /\ st.allowed = (IF Checked(fault, i, n) THEN MaxRefund(i) ELSE None)
  BY DEF Heard
<1>3. Checked(fault, i, n) <=> fault # "skipped_precondition"
  BY DEF Checked, Settles
<1>4. amount \in st.nums
  BY <1>2, <1>3 DEF Amount
<1>5. MaxRefund(i) \in Nat /\ MaxRefund(i) # None
  BY MaxRefundFacts DEF None
<1>6. found = rules
  <2>1. CASE fault = "skipped_precondition"
    BY <1>2, <1>3, <2>1
  <2>2. CASE fault = "ignored_observation"
    <3>1. amount = i.total /\ st.allowed = MaxRefund(i)
      BY <1>2, <1>3, <2>2 DEF Amount
    <3>2. ~ Near(i.total, MaxRefund(i))
      BY <2>2, FeeIsSeen DEF Hosts
    <3> HIDE DEF amount
    <3> QED
      BY <1>5, <2>2, <3>1, <3>2
  <2>3. CASE fault \notin {"skipped_precondition", "ignored_observation"}
    <3>1. amount = MaxRefund(i) /\ st.allowed = MaxRefund(i)
      BY <1>2, <1>3, <2>3 DEF Amount
    <3>2. Near(amount, st.allowed)
      BY <3>1 DEF Near
    <3> HIDE DEF amount
    <3> QED
      BY <1>5, <2>3, <3>1, <3>2
  <2> QED
    BY <2>1, <2>2, <2>3
<1>7. "order" \notin st.refunded /\ st.refunded \cup {"order"} = {"order"}
  OBVIOUS
<1> HIDE DEF amount, rules
<1>8. Acts(s, st, {}, {amount}, st.refunded \cup {"order"}, TRUE, st.replies, found)
  BY <1>1, <1>2, <1>4, <1>7, PaySeen
<1> HIDE DEF s, found
<1>9. Acts(s, st, {}, {amount}, {"order"}, TRUE, st.replies, rules)
  BY <1>6, <1>7, <1>8, Zenon
<1> QED
  BY <1>9 DEF s, amount, rules

\* Once the case is resolved.
LEMMA NowSettled ==
    ASSUME NEW fault, NEW i, NEW d, NEW s, NEW a, s.n \in Nat, s.n = Settles(fault),
           s.terminal, s.replies = 0, s.fired = Fires(fault, s.n),
           a.refunded <=> Can(i), a.escalated <=> ~ Can(i),
           a.amount = (IF Can(i) THEN Amount(fault, i) ELSE 0)
    PROVE  Moved(fault, i, d, s, a)
<1>1. s.n >= Settles(fault) /\ ~ (s.n < Settles(fault)) /\ ~ (s.n > Settles(fault))
  BY DEF Settles
<1> QED
  BY <1>1 DEF Moved

\* The refund, or the hand over.
LEMMA KeepsResolve ==
    ASSUME Replayed, kind # "model", Replay, seen.n + 1 = Settles(kind),
           acted.refunded \in BOOLEAN, acted.escalated \in BOOLEAN
    PROVE  Told(kind, instance, desk', seen', acted', calls', over')
<1>1. /\ instance \in Instances /\ Along(kind, instance, seen, calls, over)
      /\ Heard(kind, instance, seen) /\ Moved(kind, instance, desk, seen, acted)
      /\ Hosts(kind, instance)
  BY DEF Replayed, Told
<1> DEFINE amount == Amount(kind, instance)
           call == Resolve(instance, amount)
           n == seen.n
<1>2. n \in Nat /\ n \in {3, 4} /\ (kind = "skipped_precondition" <=> n = 3)
  <2>1. n \in Nat
    BY <1>1 DEF Along
  <2> QED
    BY <2>1 DEF Settles
<1>3. n < Steps(kind)
  BY <1>1, <1>2, ReplayStep DEF Replay, Play, Along
<1>4. kind # "premature_stop"
  BY <1>2, <1>3 DEF Steps
<1>5. Script(kind, instance)[seen.n + 1] = call
  BY <1>1, <1>2, <1>4, ScriptFacts
<1>6. n + 1 # Steps(kind) /\ n < Settles(kind) /\ n = Settles(kind) - 1
  BY <1>2, <1>4 DEF Steps, Settles
<1>7. Goes(call, FALSE)
  BY <1>5, <1>6, ReplayStep
<1>8. /\ desk = Opened(instance) /\ seen.refunded = {} /\ ~ (n > Settles(kind))
      /\ acted.refunded = FALSE /\ acted.amount = 0 /\ acted.escalated = FALSE
  <2>1. n < Settles(kind) /\ ~ (n > Settles(kind))
    BY <1>6 DEF Settles
  <2> QED
    BY <1>1, <2>1 DEF Moved
<1>9. seen.replies = 0 /\ seen.fired = Fires(kind, n)
  BY <1>1, <1>8 DEF Moved
<1>10. seen' = Seeing(instance, Opened(instance), seen, call, FALSE)
  BY <1>7, <1>8 DEF Goes
<1>11. acted' = Acted(call, Observe(instance, Opened(instance), call))
  BY <1>7, <1>8 DEF Goes
<1> DEFINE rules == IF kind = "skipped_precondition" THEN {"R1"}
                    ELSE IF kind = "ignored_observation" THEN {"R2"} ELSE {}
<1>12. /\ \E ids, nums, refunded :
            "nobody" \notin ids /\ Acts(seen', seen, ids, nums, refunded, TRUE, 0, rules)
       /\ acted'.refunded <=> Can(instance)
       /\ acted'.escalated <=> ~ Can(instance)
       /\ acted'.amount = (IF Can(instance) THEN amount ELSE 0)
  <2>1. CASE Can(instance)
    <3>1. call = Pay(amount)
      BY <2>1 DEF Resolve
    <3>2. amount \in Nat /\ 0 < amount /\ amount =< instance.total
      BY <1>1, AmountFacts
    <3> HIDE DEF call
    <3>3. Acts(Seeing(instance, Opened(instance), seen, Pay(amount), FALSE), seen, {}, {amount},
               {"order"}, TRUE, seen.replies, rules)
      BY <1>1, <1>2, <1>4, <1>6, <1>8, <2>1, RefundSeen
    <3> HIDE DEF rules, amount
    <3>4. Acts(seen', seen, {}, {amount}, {"order"}, TRUE, 0, rules)
      BY <1>9, <1>10, <3>1, <3>3, Zenon
    <3>5. /\ Observe(instance, Opened(instance), call).ok = TRUE
          /\ Observe(instance, Opened(instance), call).amount = amount
      BY <2>1, <3>1, <3>2, PayAnswer
    <3>6. call.tool = "issue_refund"
      BY <3>1, ToolsCalled
    <3>7. /\ acted'.refunded = TRUE /\ acted'.amount = amount /\ acted'.escalated = FALSE
      BY <1>8, <1>11, <3>5, <3>6 DEF Acted
    <3> QED
      BY <2>1, <3>4, <3>7
  <2>2. CASE ~ Can(instance)
    <3>1. call = HandOver
      BY <2>2 DEF Resolve
    <3> HIDE DEF call
    <3>2. rules = {}
      BY <1>1, <2>2 DEF Hosts
    <3> HIDE DEF rules
    <3>3. /\ Acts(Seeing(instance, Opened(instance), seen, HandOver, FALSE), seen, {"words"}, {},
                  seen.refunded, TRUE, seen.replies, {})
          /\ Observe(instance, Opened(instance), HandOver).ok = TRUE
      BY HandOverSeen
    <3>4. Acts(seen', seen, {"words"}, {}, seen.refunded, TRUE, 0, rules)
      BY <1>9, <1>10, <3>1, <3>2, <3>3, Zenon
    <3>5. Observe(instance, Opened(instance), call).ok = TRUE
      BY <3>1, <3>3
    <3>6. call.tool = "escalate"
      BY <3>1, ToolsCalled
    <3>7. /\ acted'.refunded = FALSE /\ acted'.amount = 0 /\ acted'.escalated = TRUE
      BY <1>8, <1>11, <3>5, <3>6 DEF Acted
    <3> QED
      BY <2>2, <3>4, <3>7
  <2> QED
    BY <2>1, <2>2
<1> HIDE DEF call, amount
<1>13. PICK ids, nums, refunded :
          "nobody" \notin ids /\ Acts(seen', seen, ids, nums, refunded, TRUE, 0, rules)
  BY <1>12
<1>14. /\ seen'.n = n + 1 /\ seen'.ids = seen.ids \cup ids /\ seen'.nums = seen.nums \cup nums
       /\ seen'.allowed = seen.allowed /\ seen'.looked = seen.looked
       /\ seen'.verified = seen.verified /\ seen'.replies = 0
  BY <1>13 DEF Acts
<1>15. seen'.terminal /\ seen'.fired = With(seen, rules)
  BY <1>13 DEF Acts
<1>16. Along(kind, instance, seen', calls', over')
  BY <1>2, <1>3, <1>6, <1>7, <1>14, GoesAlong, Zenon
<1>17. Heard(kind, instance, seen')
  <2>1. Checked(kind, instance, seen'.n) <=> Checked(kind, instance, n)
    BY <1>2, <1>14 DEF Checked
  <2>2. seen'.n >= 2 /\ n >= 2 /\ seen'.n >= 1 /\ n >= 1
    BY <1>2, <1>14
  <2> QED
    BY <1>1, <1>13, <1>14, <2>1, <2>2 DEF Heard
<1>18. seen'.fired = Fires(kind, seen'.n)
  <2>1. CASE kind = "skipped_precondition"
    <3>1. n = 3 /\ seen'.n = 4 /\ rules = {"R1"}
      BY <1>2, <1>14, <2>1
    <3>2. seen.fired = {}
      BY <1>9, <2>1, <3>1 DEF Fires
    <3> HIDE DEF rules, n
    <3>3. seen'.fired = {<<3, "R1">>}
      BY <1>15, <3>1, <3>2 DEF With, n
    <3> QED
      BY <2>1, <3>1, <3>3 DEF Fires
  <2>2. CASE kind = "ignored_observation"
    <3>1. n = 4 /\ seen'.n = 5 /\ rules = {"R2"}
      BY <1>2, <1>14, <2>2
    <3>2. seen.fired = {}
      BY <1>9, <2>2, <3>1 DEF Fires
    <3> HIDE DEF rules, n
    <3>3. seen'.fired = {<<4, "R2">>}
      BY <1>15, <3>1, <3>2 DEF With, n
    <3> QED
      BY <2>2, <3>1, <3>3 DEF Fires
  <2>3. CASE kind \notin {"skipped_precondition", "ignored_observation"}
    <3>1. n = 4 /\ seen'.n = 5 /\ rules = {}
      BY <1>2, <1>14, <2>3
    <3> HIDE DEF rules, n
    <3>2. seen'.fired = seen.fired
      BY <1>15, <3>1 DEF With
    <3>3. Fires(kind, 4) = Fires(kind, 5)
      BY <1>4, <2>3 DEF Fires
    <3> QED
      BY <1>9, <3>1, <3>2, <3>3
  <2> QED
    BY <2>1, <2>2, <2>3
<1>19. Moved(kind, instance, desk', seen', acted')
  <2>1. seen'.n \in Nat /\ seen'.n = Settles(kind)
    BY <1>2, <1>14
  <2> QED
    BY <1>12, <1>14, <1>15, <1>18, <2>1, NowSettled DEF amount
<1> QED
  BY <1>16, <1>17, <1>19 DEF Told

\* The reply, and all of the steps.
LEMMA KeepsSay ==
    ASSUME Replayed, kind # "model", Replay, seen.n = Settles(kind), kind # "premature_stop",
           acted.refunded \in BOOLEAN, acted.escalated \in BOOLEAN, seen.terminal \in BOOLEAN
    PROVE  Told(kind, instance, desk', seen', acted', calls', over')
<1>1. /\ instance \in Instances /\ Along(kind, instance, seen, calls, over)
      /\ Heard(kind, instance, seen) /\ Moved(kind, instance, desk, seen, acted)
  BY DEF Replayed, Told
<1> DEFINE n == seen.n
           s == Seeing(instance, desk, seen, Say, TRUE)
<1>2. n \in Nat /\ n \in {4, 5} /\ (kind = "skipped_precondition" <=> n = 4)
  <2>1. n \in Nat
    BY <1>1 DEF Along
  <2> QED
    BY <2>1 DEF Settles
<1>3. n + 1 = Steps(kind) /\ n < Steps(kind)
  BY <1>2 DEF Steps
<1>4. Script(kind, instance)[seen.n + 1] = Say
  BY <1>1, <1>2, ScriptFacts
<1>5. Goes(Say, TRUE)
  BY <1>3, <1>4, ReplayStep
<1>6. seen' = Close(s)
  BY <1>5 DEF Goes
<1>7. /\ desk' = desk /\ acted'.refunded = acted.refunded /\ acted'.amount = acted.amount
      /\ acted'.escalated = acted.escalated
  BY <1>5, QuietCall, ToolsCalled DEF Goes
<1>8. /\ seen.terminal /\ seen.replies = 0 /\ seen.fired = Fires(kind, n)
      /\ acted.refunded <=> Can(instance)
      /\ acted.escalated <=> ~ Can(instance)
      /\ acted.amount = (IF Can(instance) THEN Amount(kind, instance) ELSE 0)
  <2>1. n >= Settles(kind) /\ ~ (n > Settles(kind))
    BY <1>2
  <2> QED
    BY <1>1, <2>1 DEF Moved
<1>9. Acts(s, seen, {}, {}, seen.refunded, FALSE, seen.replies + 1, {}) /\ "fired" \in DOMAIN s
  BY SaySeen, SeeingIs
<1> HIDE DEF s
<1>10. /\ s.n = n + 1 /\ s.ids = seen.ids \cup {} /\ s.nums = seen.nums \cup {}
       /\ s.allowed = seen.allowed /\ s.looked = seen.looked /\ s.verified = seen.verified
       /\ s.replies = seen.replies + 1
  BY <1>9 DEF Acts
<1>11. s.terminal = (seen.terminal \/ FALSE) /\ s.fired = With(seen, {})
  BY <1>9 DEF Acts
<1>12. s.terminal /\ s.replies = 1 /\ s.fired = Fires(kind, n)
  <2>1. s.terminal
    BY <1>8, <1>11
  <2>2. s.replies = 1
    BY <1>8, <1>10
  <2>3. s.fired = Fires(kind, n)
    BY <1>8, <1>11, WithNothing
  <2> QED
    BY <2>1, <2>2, <2>3
<1>13. /\ seen'.n = s.n /\ seen'.ids = s.ids /\ seen'.nums = s.nums /\ seen'.allowed = s.allowed
       /\ seen'.looked = s.looked /\ seen'.verified = s.verified
       /\ seen'.terminal = s.terminal /\ seen'.replies = s.replies
  BY <1>6, <1>9, CloseIs
<1>14. seen'.fired = s.fired
  BY <1>6, <1>9, <1>12, CloseIs
<1>15. Along(kind, instance, seen', calls', over')
  BY <1>2, <1>3, <1>5, <1>10, <1>13, GoesAlong, Zenon
<1>16. Heard(kind, instance, seen')
  <2>1. Checked(kind, instance, seen'.n) <=> Checked(kind, instance, n)
    BY <1>2, <1>10, <1>13 DEF Checked
  <2>2. seen'.n >= 2 /\ n >= 2 /\ seen'.n >= 1 /\ n >= 1
    BY <1>2, <1>10, <1>13
  <2> QED
    BY <1>1, <1>10, <1>13, <2>1, <2>2 DEF Heard
<1>17. seen'.fired = Fires(kind, seen'.n)
  <2>1. Fires(kind, n + 1) = Fires(kind, n)
    BY <1>2 DEF Fires
  <2> QED
    BY <1>10, <1>12, <1>13, <1>14, <2>1
<1>18. Moved(kind, instance, desk', seen', acted')
  <2>1. seen'.n > Settles(kind) /\ seen'.n >= Settles(kind) /\ ~ (seen'.n < Settles(kind))
    BY <1>2, <1>10, <1>13
  <2>2. seen'.terminal /\ seen'.replies = 1
    BY <1>12, <1>13
  <2> QED
    BY <1>7, <1>8, <1>17, <2>1, <2>2 DEF Moved
<1> QED
  BY <1>15, <1>16, <1>18 DEF Told

LEMMA ReplayKeeps ==
    ASSUME Replayed, IInv, Next PROVE Replayed'
<1>1. instance \in Instances /\ kind \in FailureTypes \cup {"clean", "model"}
  BY DEF Replayed
<1>2. instance' = instance /\ kind' = kind /\ step' = step
  BY DEF Next, Replay, Choose, Play, AgentNext, Turn, Stall
<1>3. CASE kind = "model"
  <2>1. calls = << >>
    BY <1>3 DEF Replayed
  <2>2. calls' = << >>
    BY <2>1 DEF Next, Replay, Choose
  <2> QED
    BY <1>1, <1>2, <1>3, <2>2 DEF Replayed
<1>4. CASE kind # "model"
  <2>1. Replay
    BY <1>4 DEF Next, Choose
  <2>2. /\ acted.refunded \in BOOLEAN /\ acted.escalated \in BOOLEAN
        /\ seen.terminal \in BOOLEAN /\ seen.n \in Nat
    BY DEF IInv, Typed
  <2>3. seen.n < Steps(kind)
    BY <1>4, <2>1, ReplayStep
  <2>4. \/ seen.n = 0 \/ seen.n = 1 \/ seen.n = 2
        \/ seen.n = 3 /\ kind # "skipped_precondition"
        \/ seen.n + 1 = Settles(kind)
        \/ seen.n = Settles(kind) /\ kind # "premature_stop"
    BY <2>2, <2>3 DEF Steps, Settles
  <2>5. Told(kind, instance, desk', seen', acted', calls', over')
    BY <1>4, <2>1, <2>2, <2>4, KeepsAsk, KeepsFind, KeepsThird, KeepsCheck, KeepsResolve, KeepsSay
  <2>6. Hosts(kind, instance) /\ step = Labelled(kind)
    BY <1>4 DEF Replayed
  <2>7. Told(kind', instance', desk', seen', acted', calls', over')
    BY <1>2, <2>5, Zenon
  <2>8. Hosts(kind', instance') /\ step' = Labelled(kind')
    BY <1>2, <2>6, Zenon
  <2>9. instance' \in Instances /\ kind' \in FailureTypes \cup {"clean", "model"} /\ kind' # "model"
    BY <1>1, <1>2, <1>4
  <2> QED
    BY <2>7, <2>8, <2>9, Zenon DEF Replayed
<1> QED
  BY <1>3, <1>4

\* A call of a script is one an agent could make.
LEMMA ReplayIsReal ==
    ASSUME Replayed, Replay, kind # "model"
    PROVE  \E call : RealCall(call) /\ Play(call, Len(calls) = 1)
<1>1. instance \in Instances /\ seen.n \in Nat /\ seen.n =< Steps(kind)
      /\ calls = Rest(Script(kind, instance), seen.n)
  BY DEF Replayed, Told, Along
<1>2. Script(kind, instance) \in Seq(RealCalls) /\ Len(Script(kind, instance)) = Steps(kind)
  BY <1>1, ScriptFacts
<1>3. seen.n < Steps(kind)
  BY ReplayStep
<1>4. Head(calls) = Script(kind, instance)[seen.n + 1]
  BY <1>1, <1>2, <1>3, RestFacts
<1>5. Head(calls) \in RealCalls
  BY <1>1, <1>2, <1>3, <1>4
<1> QED
  BY <1>5 DEF RealCall, RealCalls, Replay
-----------------------------------------------------------------------------
(* Every run of every fault *)

\* An episode is one of an agent, and when its calls are scripted it has gone as far in the
\* script of its fault as the checker has read: after n steps the readings, the money, the reply
\* and the rules broken are those that the fault and the instance tell.
THEOREM EpisodeInvariance == Spec => [](IInv /\ Replayed)
<1>1. Init => IInv /\ Replayed
  BY InitHolds, ReplayBegins DEF Init
<1>2. ASSUME IInv, Replayed, [Next]_vars PROVE IInv' /\ Replayed'
  <2>1. CASE Replay
    <3>1. kind # "model"
      BY <1>2, <2>1 DEF Replayed, Replay
    <3>2. PICK call : RealCall(call) /\ Play(call, Len(calls) = 1)
      BY <1>2, <2>1, <3>1, ReplayIsReal
    <3>3. (Len(calls) = 1) \in BOOLEAN
      OBVIOUS
    <3>4. IInv'
      BY <1>2, <3>2, <3>3, PlayKeeps
    <3>5. Replayed'
      BY <1>2, <2>1, ReplayKeeps DEF Next
    <3> QED
      BY <3>4, <3>5
  <2>2. CASE Choose
    <3>1. IInv'
      BY <1>2, <2>2, AgentKeeps DEF Choose
    <3>2. Replayed'
      BY <1>2, <2>2, ReplayKeeps DEF Next
    <3> QED
      BY <3>1, <3>2
  <2>3. CASE UNCHANGED vars
    <3>1. UNCHANGED episode /\ kind' = kind /\ step' = step /\ calls' = calls
      BY <2>3 DEF vars
    <3>2. IInv'
      BY <1>2, <3>1, AgentKeeps
    <3>3. /\ instance' = instance /\ desk' = desk /\ seen' = seen /\ acted' = acted
          /\ over' = over
      BY <3>1 DEF episode
    <3>4. Replayed'
      BY <1>2, <3>1, <3>3 DEF Replayed
    <3> QED
      BY <3>2, <3>4
  <2> QED
    BY <1>2, <2>1, <2>2, <2>3 DEF Next
<1> QED
  BY <1>1, <1>2, PTL DEF Spec

\* How a replay ends.
LEMMA ReplayEnd ==
    ASSUME Replayed, kind # "model", over
    PROVE  /\ seen.n = Steps(kind) /\ seen.fired = Fires(kind, Steps(kind))
           /\ kind # "premature_stop" =>
                 /\ acted.refunded <=> Can(instance)
                 /\ acted.escalated <=> ~ Can(instance)
                 /\ acted.amount = (IF Can(instance) THEN Amount(kind, instance) ELSE 0)
           /\ kind = "premature_stop" => acted.refunded = FALSE /\ acted.escalated = FALSE
<1>1. Along(kind, instance, seen, calls, over) /\ Moved(kind, instance, desk, seen, acted)
  BY DEF Replayed, Told
<1>2. seen.n = Steps(kind)
  BY <1>1 DEF Along
<1>3. seen.fired = Fires(kind, Steps(kind))
  BY <1>1, <1>2 DEF Moved
<1>4. kind # "premature_stop" => seen.n >= Settles(kind)
  BY <1>2 DEF Steps, Settles
<1>5. kind = "premature_stop" => seen.n < Settles(kind)
  BY <1>2 DEF Steps, Settles
<1> QED
  BY <1>1, <1>2, <1>3, <1>4, <1>5 DEF Moved

\* The violations there are, kind by kind.
LEMMA EndFires ==
    ASSUME NEW fault \in FailureTypes \cup {"clean"}
    PROVE  Fires(fault, Steps(fault)) =
              CASE fault = "hallucinated_argument" -> { <<2, "R4">> }
                [] fault = "skipped_precondition"  -> { <<3, "R1">> }
                [] fault = "ignored_observation"   -> { <<4, "R2">> }
                [] fault = "premature_stop"        -> { <<3, "R5">>, <<3, "R8">> }
                [] OTHER                           -> {}
BY DEF Fires, Steps, FailureTypes

\* The first violation is one of them.
LEMMA FirstIsOne ==
    ASSUME IInv, seen.fired # {}
    PROVE  First(seen.fired) \in seen.fired
<1>1. \E v \in seen.fired : \A w \in seen.fired : Comes(v, w)
  BY DEF IInv, HasFirst
<1> QED
  BY Zenon, <1>1 DEF First, Comes

\* The rule engine names the step that is labelled, whatever the instance and the fault.
THEOREM FaultsAreFound == Spec => []FaultFoundWhereLabelled
<1>1. ASSUME IInv, Replayed PROVE FaultFoundWhereLabelled
  <2> SUFFICES ASSUME over, kind # "model", Judged(seen).faulty PROVE Judged(seen).step = step
    BY DEF FaultFoundWhereLabelled
  <2>1. seen.fired # {}
    BY DEF Judged
  <2>2. First(seen.fired) \in seen.fired /\ Judged(seen).step = First(seen.fired)[1]
    BY <1>1, <2>1, FirstIsOne DEF Judged
  <2>3. step = Labelled(kind) /\ kind \in FailureTypes \cup {"clean"}
    BY <1>1 DEF Replayed
  <2>4. seen.fired = Fires(kind, Steps(kind))
    BY <1>1, ReplayEnd
  <2>5. \A v \in Fires(kind, Steps(kind)) : v[1] = Labelled(kind)
    BY <2>3, EndFires DEF Labelled
  <2> QED
    BY <2>2, <2>3, <2>4, <2>5
<1> QED
  BY <1>1, EpisodeInvariance, PTL

\* A fault leaves the money alone exactly where it is meant to.
THEOREM SilenceIsMeant == Spec => []SilentAsMeant
<1>1. ASSUME IInv, Replayed PROVE SilentAsMeant
  <2> SUFFICES ASSUME over, kind # "model"
               PROVE  OutcomeCorrect <=>
                \/ kind \in {"clean", "wrong_tool", "hallucinated_argument", "unsupported_claim"}
                \/ kind = "skipped_precondition" /\ instance.fee = 0
    BY DEF SilentAsMeant
  <2>1. instance \in Instances /\ kind \in FailureTypes \cup {"clean"} /\ Hosts(kind, instance)
    BY <1>1 DEF Replayed
  <2>2. /\ Can(instance) => Expected(instance) = Refunds(MaxRefund(instance))
        /\ ~ Can(instance) => Expected(instance) = Escalates
    BY <2>1, InstanceFacts DEF Can
  <2>3. /\ instance.fee \in Nat /\ (instance.fee > 0 => ~ Near(instance.total, MaxRefund(instance)))
        /\ (instance.fee = 0 => MaxRefund(instance) = instance.total)
    BY <2>1, FeeIsSeen, InstanceFacts, NetIsLess DEF MaxRefund
  <2>4. CASE kind = "premature_stop"
    <3>1. Outcome = DoesNothing
      BY <1>1, <2>4, ReplayEnd DEF Outcome
    <3>2. ~ OutcomeCorrect
      BY <2>2, <3>1 DEF OutcomeCorrect, Matches, DoesNothing, Refunds, Escalates
    <3> QED
      BY <2>4, <3>2
  <2>5. CASE kind # "premature_stop"
    <3>1. /\ acted.refunded <=> Can(instance)
          /\ acted.escalated <=> ~ Can(instance)
          /\ acted.amount = (IF Can(instance) THEN Amount(kind, instance) ELSE 0)
      BY <1>1, <2>5, ReplayEnd
    <3>2. CASE ~ Can(instance)
      <4>1. Outcome = Escalates
        BY <3>1, <3>2 DEF Outcome
      <4>2. OutcomeCorrect
        BY <2>2, <3>2, <4>1 DEF OutcomeCorrect, Matches, Escalates
      <4>3. kind \notin {"skipped_precondition", "ignored_observation"}
        BY <2>1, <3>2 DEF Hosts
      <4> QED
        BY <2>1, <2>5, <4>2, <4>3 DEF FailureTypes
    <3>3. CASE Can(instance)
      <4>1. Outcome = Refunds(Amount(kind, instance))
        BY <3>1, <3>3 DEF Outcome
      <4>2. OutcomeCorrect <=> Near(Amount(kind, instance), MaxRefund(instance))
        BY <2>2, <3>3, <4>1 DEF OutcomeCorrect, Matches, Refunds
      <4>3. CASE kind \in {"skipped_precondition", "ignored_observation"}
        <5>1. Amount(kind, instance) = instance.total
          BY <4>3 DEF Amount
        <5>2. Near(instance.total, MaxRefund(instance)) <=> instance.fee = 0
          BY <2>3 DEF Near
        <5>3. kind = "ignored_observation" => instance.fee > 0
          BY <2>1 DEF Hosts
        <5> QED
          BY <2>3, <4>2, <4>3, <5>1, <5>2, <5>3
      <4>4. CASE kind \notin {"skipped_precondition", "ignored_observation"}
        <5>1. Amount(kind, instance) = MaxRefund(instance)
          BY <4>4 DEF Amount
        <5>2. Near(MaxRefund(instance), MaxRefund(instance))
          BY DEF Near
        <5> QED
          BY <2>1, <2>5, <4>2, <4>4, <5>1, <5>2 DEF FailureTypes
      <4> QED
        BY <4>3, <4>4
    <3> QED
      BY <3>2, <3>3
  <2> QED
    BY <2>4, <2>5
<1> QED
  BY <1>1, EpisodeInvariance, PTL
-----------------------------------------------------------------------------
(* The scripted agent follows the procedure *)

\* What the oracle has established after n calls.
Knows(n) ==
    (IF n >= 1 THEN {"customer"} ELSE {}) \cup (IF n >= 2 THEN {"order"} ELSE {})
    \cup (IF n >= 3 THEN {"policy"} ELSE {}) \cup (IF n >= 4 THEN {"eligibility"} ELSE {})

\* A tool of one place in the script has been called once that place is passed.
LEMMA DoneIs ==
    ASSUME NEW list, NEW n \in Nat, n =< 6, calls = Rest(list, n),
           NEW tool, NEW at, Single(list, tool, at)
    PROVE  Done(tool) <=> n >= at
<1> DEFINE most == 6
<1>0. /\ Len(list) = most /\ at \in 1 .. most
      /\ \A k \in 1 .. most : list[k].tool = tool <=> k = at
  BY DEF Single
<1>1. Len(calls) = most - n /\ most - n \in Nat
      /\ \A k \in 1 .. most - n : calls[k] = list[k + n]
  BY <1>0 DEF Rest
<1>2. ASSUME n >= at PROVE Done(tool)
  <2>1. ASSUME NEW k \in 1 .. most - n PROVE calls[k].tool # tool
    <3>1. k + n \in 1 .. most /\ k + n # at
      BY <1>0, <1>1, <1>2
    <3>2. list[k + n].tool # tool
      BY <1>0, <3>1
    <3> QED
      BY <1>1, <3>2
  <2> QED
    BY <1>1, <2>1 DEF Done
<1>3. ASSUME ~ (n >= at) PROVE ~ Done(tool)
  <2>1. at - n \in 1 .. most - n /\ (at - n) + n = at
    BY <1>0, <1>1, <1>3
  <2>2. calls[at - n] = list[at]
    BY <1>1, <2>1
  <2>3. list[at].tool = tool
    BY <1>0
  <2> QED
    BY <1>1, <2>1, <2>2, <2>3 DEF Done
<1> QED
  BY <1>2, <1>3

\* What is true of the oracle after each of its calls.
LEMMA OracleState ==
    ASSUME IInv, Replayed, kind = "clean"
    PROVE  /\ seen.n \in 0 .. 6 /\ Learnt = Knows(seen.n)
           /\ seen.allowed = (IF seen.n >= 4 /\ Can(instance) THEN MaxRefund(instance) ELSE None)
           /\ Resolved = (IF seen.n < 5 THEN "open" ELSE IF Can(instance) THEN "refund" ELSE "escalate")
           /\ acted.amount = (IF seen.n >= 5 /\ Can(instance) THEN MaxRefund(instance) ELSE 0)
           /\ seen.replies = 1 <=> seen.n = 6
           /\ instance \in Instances
<1> DEFINE list == Script(kind, instance)
           n == seen.n
<1>1. /\ instance \in Instances /\ Along(kind, instance, seen, calls, over)
      /\ Heard(kind, instance, seen) /\ Moved(kind, instance, desk, seen, acted)
  BY DEF Replayed, Told
<1>2. Steps(kind) = 6 /\ Settles(kind) = 5 /\ Third(kind) = Read
  BY DEF Steps, Settles, Third
<1>3. n \in Nat /\ n =< 6 /\ calls = Rest(list, n)
  BY <1>1, <1>2 DEF Along
<1>4. /\ list \in Seq(RealCalls) /\ Len(list) = 6
      /\ list[1] = Ask /\ list[2] = Find /\ list[3] = Read /\ list[4] = Check
      /\ list[5] = Resolve(instance, Amount(kind, instance)) /\ list[6] = Say
  BY <1>1, <1>2, ScriptFacts
<1>5. /\ list[1].tool = "get_customer" /\ list[2].tool = "lookup_order"
      /\ list[3].tool = "get_policy" /\ list[4].tool = "check_eligibility"
      /\ list[5].tool \in {"issue_refund", "escalate"} /\ list[6].tool = "reply"
  BY <1>4, ToolsCalled DEF Resolve
<1> HIDE DEF list
<1>6. \A k \in 1 .. 6 : k = 1 \/ k = 2 \/ k = 3 \/ k = 4 \/ k = 5 \/ k = 6
  OBVIOUS
<1>7. Single(list, "get_policy", 3)
  <2>1. \A k \in 1 .. 6 : list[k].tool = "get_policy" <=> k = 3
    BY <1>5, <1>6
  <2> QED
    BY <1>4, <2>1 DEF Single
<1>8. Single(list, "check_eligibility", 4)
  <2>1. \A k \in 1 .. 6 : list[k].tool = "check_eligibility" <=> k = 4
    BY <1>5, <1>6
  <2> QED
    BY <1>4, <2>1 DEF Single
<1>9. Done("get_policy") <=> n >= 3
  BY <1>3, <1>7, DoneIs
<1>10. Done("check_eligibility") <=> n >= 4
  BY <1>3, <1>8, DoneIs
<1>11. seen.verified = "asker" <=> n >= 1
  BY <1>1 DEF Heard
<1>12. seen.looked # {} <=> n >= 2
  BY <1>1 DEF Heard
<1>13. Learnt = Knows(n)
  BY <1>9, <1>10, <1>11, <1>12 DEF Learnt, Knows
<1>14. seen.allowed = (IF n >= 4 /\ Can(instance) THEN MaxRefund(instance) ELSE None)
  BY <1>1 DEF Heard, Checked
<1>15. Amount(kind, instance) = MaxRefund(instance)
  BY DEF Amount
<1>16. CASE n < 5
  <2>1. ~ (n >= 5) /\ ~ (n > 5) /\ n # 6
    BY <1>3, <1>16
  <2>2. acted.refunded = FALSE /\ acted.amount = 0 /\ acted.escalated = FALSE
    BY <1>1, <1>2, <1>16 DEF Moved
  <2>3. seen.replies = 0
    BY <1>1, <1>2, <2>1 DEF Moved
  <2>4. Resolved = "open"
    BY <2>2 DEF Resolved
  <2> QED
    BY <1>1, <1>3, <1>13, <1>14, <1>16, <2>1, <2>2, <2>3, <2>4
<1>17. CASE n >= 5
  <2>1. ~ (n < 5) /\ (n > 5 <=> n = 6)
    BY <1>3, <1>17
  <2>2. /\ acted.refunded <=> Can(instance)
        /\ acted.escalated <=> ~ Can(instance)
        /\ acted.amount = (IF Can(instance) THEN MaxRefund(instance) ELSE 0)
    BY <1>1, <1>2, <1>15, <1>17 DEF Moved
  <2>3. seen.replies = (IF n = 6 THEN 1 ELSE 0)
    BY <1>1, <1>2, <2>1 DEF Moved
  <2>4. Resolved = (IF Can(instance) THEN "refund" ELSE "escalate")
    BY <2>2 DEF Resolved
  <2> QED
    BY <1>1, <1>3, <1>13, <1>14, <1>17, <2>1, <2>2, <2>3, <2>4
<1> QED
  BY <1>3, <1>16, <1>17

\* What the orders of action say of the oracle after each of its calls.
OracleAt(n) ==
    /\ seen.n = n /\ n \in 0 .. 6
    /\ calls \in Seq(RealCalls) /\ Len(calls) = 6 - n /\ instance \in Instances
    /\ Learnt = Knows(n)
    /\ seen.allowed = (IF n >= 4 /\ Can(instance) THEN MaxRefund(instance) ELSE None)
    /\ Resolved = (IF n < 5 THEN "open" ELSE IF Can(instance) THEN "refund" ELSE "escalate")
    /\ acted.amount = (IF n >= 5 /\ Can(instance) THEN MaxRefund(instance) ELSE 0)
    /\ seen.replies = 1 <=> n = 6

OracleSomewhere == kind = "clean" => \E n \in 0 .. 6 : OracleAt(n)

\* The oracle is always at one of its calls.
LEMMA OracleIsThere ==
    ASSUME IInv, Replayed, kind = "clean"
    PROVE  OracleAt(seen.n)
<1>1. seen.n \in 0 .. 6 /\ calls = Rest(Script(kind, instance), seen.n)
  BY OracleState DEF Replayed, Told, Along
<1>2. Script(kind, instance) \in Seq(RealCalls) /\ Len(Script(kind, instance)) = 6
  BY OracleState, ScriptFacts DEF Steps
<1>3. Len(calls) = 6 - seen.n /\ calls \in Seq(RealCalls)
  <2> DEFINE list == Script(kind, instance)
             m == 6 - seen.n
  <2>0. m \in Nat /\ m = Len(list) - seen.n
    <3>1. seen.n \in 0 .. 6 /\ Len(list) = 6
      BY <1>1, <1>2
    <3> HIDE DEF list
    <3> QED
      BY <3>1
  <2>1. calls = [k \in 1 .. m |-> list[k + seen.n]]
    <3>1. calls = [k \in 1 .. Len(list) - seen.n |-> list[k + seen.n]]
      BY <1>1 DEF Rest
    <3> QED
      BY <2>0, <3>1
  <2>2. \A k \in 1 .. m : list[k + seen.n] \in RealCalls
    BY <1>1, <1>2
  <2> HIDE DEF list, m
  <2>3. calls \in Seq(RealCalls)
    BY <2>0, <2>1, <2>2
  <2>4. Len(calls) = m
    BY <2>0, <2>1
  <2> QED
    BY <2>3, <2>4 DEF m
<1> QED
  BY <1>1, <1>3, OracleState DEF OracleAt

\* Every call of the oracle is an action of the procedure.
LEMMA CallFollowsProcedure ==
    ASSUME NEW n, OracleAt(n), OracleAt(n + 1)', Clean, Clean', instance' = instance
    PROVE  Procedure!Next
<1>1. n \in 0 .. 5
  BY DEF OracleAt
<1>2. /\ Learnt = Knows(n) /\ Learnt' = Knows(n + 1)
      /\ seen.allowed = (IF n >= 4 /\ Can(instance) THEN MaxRefund(instance) ELSE None)
      /\ seen'.allowed = (IF n + 1 >= 4 /\ Can(instance) THEN MaxRefund(instance) ELSE None)
  BY DEF OracleAt
<1>3. /\ Resolved = (IF n < 5 THEN "open" ELSE IF Can(instance) THEN "refund" ELSE "escalate")
      /\ Resolved' = (IF n + 1 < 5 THEN "open"
                      ELSE IF Can(instance) THEN "refund" ELSE "escalate")
      /\ acted.amount = (IF n >= 5 /\ Can(instance) THEN MaxRefund(instance) ELSE 0)
      /\ acted'.amount = (IF n + 1 >= 5 /\ Can(instance) THEN MaxRefund(instance) ELSE 0)
  BY DEF OracleAt
<1>4. (seen.replies = 1 <=> n = 6) /\ (seen'.replies = 1 <=> n + 1 = 6)
  BY DEF OracleAt
<1>5. instance \in Instances /\ (Can(instance) => MaxRefund(instance) \in Nat)
  BY MaxRefundFacts DEF OracleAt
<1>6. Clean = TRUE /\ Clean' = TRUE
  BY DEF Clean
<1>7. CASE n = 0
  BY <1>2, <1>3, <1>4, <1>6, <1>7 DEF Knows, Procedure!VerifyCustomer, Procedure!Learn, Procedure!Next
<1>8. CASE n = 1
  BY <1>2, <1>3, <1>4, <1>6, <1>8 DEF Knows, Procedure!LookUpOrder, Procedure!Learn, Procedure!Next
<1>9. CASE n = 2
  BY <1>2, <1>3, <1>4, <1>6, <1>9 DEF Knows, Procedure!ReadPolicy, Procedure!Learn, Procedure!Next
<1>10. CASE n = 3
  BY <1>2, <1>3, <1>4, <1>5, <1>6, <1>10 DEF Knows, Procedure!Confirm, Procedure!Learn, Procedure!Next
<1>11. CASE n = 4
  BY <1>2, <1>3, <1>4, <1>5, <1>6, <1>11
     DEF Knows, None, Procedure!RefundAllowed, Procedure!Escalate, Procedure!Ready, Procedure!Next
<1>12. CASE n = 5
  BY <1>2, <1>3, <1>4, <1>6, <1>12 DEF Knows, Procedure!Reply, Procedure!Next
<1> QED
  BY <1>1, <1>7, <1>8, <1>9, <1>10, <1>11, <1>12

\* Every step of an episode is an action of the procedure, or changes nothing of it.
LEMMA StepFollowsProcedure ==
    ASSUME IInv, Replayed, OracleSomewhere, OracleSomewhere', [Next]_vars
    PROVE  [Procedure!Next]_(Procedure!vars)
<1>1. CASE kind # "clean"
  <2>1. kind' = kind
    BY DEF Next, Replay, Choose, vars
  <2>2. ~ Clean /\ ~ Clean'
    BY <1>1, <2>1 DEF Clean
  <2> QED
    BY <2>2 DEF Procedure!vars
<1>2. CASE kind = "clean" /\ UNCHANGED vars
  <2>1. instance' = instance /\ seen' = seen /\ acted' = acted /\ kind' = kind /\ calls' = calls
    BY <1>2 DEF vars, episode
  <2>2. Learnt' = Learnt /\ Resolved' = Resolved /\ Clean' = Clean
    BY <2>1 DEF Learnt, Resolved, Clean, Done
  <2> QED
    BY <2>1, <2>2 DEF Procedure!vars
<1>3. CASE kind = "clean" /\ Replay
  <2> DEFINE call == Script(kind, instance)[seen.n + 1]
  <2>1. \/ Goes(call, FALSE)
        \/ Goes(call, TRUE)
    BY <1>3, ReplayStep
  <2>2. instance' = instance /\ kind' = kind
    BY <2>1 DEF Goes
  <2>3. calls # << >> /\ calls' = Tail(calls)
    BY <1>3 DEF Replay
  <2>4. PICK n \in 0 .. 6 : OracleAt(n)
    BY <1>3 DEF OracleSomewhere
  <2>5. PICK m \in 0 .. 6 : OracleAt(m)'
    BY <1>3, <2>2 DEF OracleSomewhere
  <2>6. calls \in Seq(RealCalls) /\ Len(calls) = 6 - n /\ Len(calls') = 6 - m
    BY <2>4, <2>5 DEF OracleAt
  <2>7. Len(calls') = Len(calls) - 1
    BY <2>3, <2>6
  <2>8. m = n + 1
    BY <2>6, <2>7
  <2>9. OracleAt(n + 1)'
    BY <2>5, <2>8
  <2> QED
    BY <1>3, <2>2, <2>4, <2>9, CallFollowsProcedure DEF Clean
<1>4. kind = "clean" => ~ Choose
  BY DEF Choose
<1> QED
  BY <1>1, <1>2, <1>3, <1>4 DEF Next

\* The scripted agent implements the procedure: verify, look up, read, check, then refund what the
\* check allowed or escalate, then reply, one action of the procedure for each of its calls.
THEOREM OracleFollowsProcedure == Spec => ProcedureFollowed
<1>1. Init => Procedure!Init
  <2> SUFFICES ASSUME Init PROVE Procedure!Init
    OBVIOUS
  <2>1. IInv /\ Replayed
    BY InitHolds, ReplayBegins DEF Init
  <2>2. seen.n = 0
    BY DEF Init, Begin, Unread
  <2>3. Clean => OracleAt(0)
    BY <2>1, <2>2, OracleIsThere DEF Clean
  <2>4. Clean => Learnt = {} /\ seen.allowed = None /\ Resolved = "open" /\ acted.amount = 0
                 /\ seen.replies # 1
    BY <2>3 DEF OracleAt, Knows
  <2> QED
    BY <2>4 DEF Procedure!Init
<1>2. IInv /\ Replayed => OracleSomewhere
  <2>1. ASSUME IInv, Replayed, kind = "clean" PROVE OracleAt(seen.n) /\ seen.n \in 0 .. 6
    BY <2>1, OracleIsThere DEF OracleAt
  <2> QED
    BY <2>1 DEF OracleSomewhere
<1> QED
  BY <1>1, <1>2, EpisodeInvariance, StepFollowsProcedure, PTL
     DEF Spec, ProcedureFollowed, Procedure!Spec
-----------------------------------------------------------------------------
(* All episodes, and the baselines that read the calls *)

\* What holds of every agent holds of the episodes in which the calls are scripted or edited,
\* side by side with those of a model: types, clean refunds, outcomes, labels.
THEOREM EpisodesAreRight ==
    Spec => [](/\ TypeOK /\ CleanRefundIsRight /\ OutcomesAgree
               /\ UntypedIsMissedRefund /\ OnlyEscalationsGround /\ IdentityIsNeverFirst)
<1>1. IInv => /\ TypeOK /\ CleanRefundIsRight /\ OutcomesAgree
              /\ UntypedIsMissedRefund /\ OnlyEscalationsGround /\ IdentityIsNeverFirst
  BY TypesHold, RefundsAreRight, PaidIsTold, UntypedMissesRefund, NothingElseGrounds, SixIsNotFirst
<1> QED
  BY <1>1, EpisodeInvariance, PTL

\* How far a run has come.
Came(done, knows, wrong) == [done |-> done, knows |-> knows, wrong |-> wrong]

\* The loop over the first m calls of a list, as the function the library's fold recurs on.
IsWalk(g, i, list, m) ==
    g = [s \in SUBSET (1 .. m) |->
            IF s = {} THEN Came(0, FALSE, FALSE) ELSE Advance(i, g[s \ {Max(s)}], list[Max(s)])]

\* A set of the first numbers has a greatest.
LEMMA MaxIsLast ==
    ASSUME NEW m \in Nat, NEW s \in SUBSET (1 .. m), s # {}
    PROVE  /\ Max(s) \in s /\ \A k \in s : k =< Max(s)
<1>1. \E k \in s : \A x \in s : x =< k
  <2>1. s \in SUBSET Nat
    OBVIOUS
  <2>2. IsFiniteSet(s)
    <3>1. 1 \in Int /\ m \in Int
      OBVIOUS
    <3>2. IsFiniteSet(1 .. m)
      BY <3>1, FS_Interval
    <3> QED
      BY <3>2, FS_Subset
  <2> QED
    BY <2>1, <2>2, GreatestOf
<1> QED
  BY <1>1, Zenon DEF Max

\* The recursion is over sets that lose their greatest, so there is such a function.
LEMMA WalkExists ==
    ASSUME NEW i, NEW list, NEW m \in Nat
    PROVE  \E g : IsWalk(g, i, list, m)
<1> DEFINE N == {n \in Nat : \E g : IsWalk(g, i, list, n)}
<1>1. 0 \in N
  <2>1. \A s \in SUBSET (1 .. 0) : s = {}
    OBVIOUS
  <2>2. IsWalk([s \in SUBSET (1 .. 0) |-> Came(0, FALSE, FALSE)], i, list, 0)
    BY <2>1 DEF IsWalk
  <2> QED
    BY <2>2
<1>2. ASSUME NEW n \in N PROVE n + 1 \in N
  <2>1. n \in Nat /\ n + 1 \in Nat
    OBVIOUS
  <2>2. PICK g : IsWalk(g, i, list, n)
    OBVIOUS
  <2> DEFINE h == [s \in SUBSET (1 .. n + 1) |->
                     IF s = {} THEN Came(0, FALSE, FALSE)
                     ELSE Advance(i, g[s \ {Max(s)}], list[Max(s)])]
  <2>3. \A s \in SUBSET (1 .. n + 1) : s # {} => s \ {Max(s)} \in SUBSET (1 .. n)
    <3> SUFFICES ASSUME NEW s \in SUBSET (1 .. n + 1), s # {}, NEW k \in s, k # Max(s)
                 PROVE  k \in 1 .. n
      OBVIOUS
    <3>1. Max(s) \in s /\ k =< Max(s)
      BY <2>1, MaxIsLast
    <3>2. k \in 1 .. n + 1 /\ Max(s) \in 1 .. n + 1
      BY <3>1
    <3> QED
      BY <2>1, <3>1, <3>2
  <2>4. \A s \in SUBSET (1 .. n) : h[s] = g[s]
    <3> SUFFICES ASSUME NEW s \in SUBSET (1 .. n) PROVE h[s] = g[s]
      OBVIOUS
    <3>1. s \in SUBSET (1 .. n + 1)
      BY <2>1
    <3>2. g[s] = IF s = {} THEN Came(0, FALSE, FALSE)
                 ELSE Advance(i, g[s \ {Max(s)}], list[Max(s)])
      BY <2>2 DEF IsWalk
    <3> QED
      BY <3>1, <3>2
  <2>5. h = [s \in SUBSET (1 .. n + 1) |->
               IF s = {} THEN Came(0, FALSE, FALSE)
               ELSE Advance(i, h[s \ {Max(s)}], list[Max(s)])]
    <3>1. \A s \in SUBSET (1 .. n + 1) : s # {} => h[s \ {Max(s)}] = g[s \ {Max(s)}]
      BY <2>3, <2>4
    <3> QED
      BY <3>1
  <2> HIDE DEF h
  <2>6. IsWalk(h, i, list, n + 1)
    BY <2>5 DEF IsWalk
  <2> QED
    BY <2>1, <2>6
<1>3. m \in N
  <2> HIDE DEF N
  <2>1. N \in SUBSET Nat
    BY DEF N
  <2> QED
    BY <1>1, <1>2, <2>1, EveryNumber
<1> QED
  BY <1>3

\* How far a run has come after k of its calls.
Walked(g, k) == g[1 .. k]

WalksFar(g, i, list, m) ==
    /\ Walked(g, 0) = Came(0, FALSE, FALSE)
    /\ \A k \in 0 .. m - 1 : Walked(g, k + 1) = Advance(i, Walked(g, k), list[k + 1])
    /\ StraysFar(i, list) <=>
          Walked(g, m).wrong \/ Walked(g, m).done < 5 \/ Last(list).tool # "reply"

\* The fold, call by call.
LEMMA WalkIsStepwise ==
    ASSUME NEW i, NEW list, NEW m \in Nat, DOMAIN list = 1 .. m
    PROVE  \E g : WalksFar(g, i, list, m)
<1> DEFINE end == CHOOSE g : IsWalk(g, i, list, m)
<1>1. IsWalk(end, i, list, m)
  BY WalkExists
<1>2. FoldLeft(LAMBDA at, call : Advance(i, at, call),
               [done |-> 0, knows |-> FALSE, wrong |-> FALSE], list) = end[1 .. m]
  BY DEF FoldLeft, MapThenFoldSet, IsWalk, Came
<1> HIDE DEF end
<1>3. StraysFar(i, list) <=>
         end[1 .. m].wrong \/ end[1 .. m].done < 5 \/ Last(list).tool # "reply"
  BY <1>2 DEF StraysFar
<1>4. end[1 .. 0] = Came(0, FALSE, FALSE)
  <2>1. 1 .. 0 = {}
    OBVIOUS
  <2> QED
    BY <1>1, <2>1 DEF IsWalk
<1>5. ASSUME NEW k \in 0 .. m - 1
      PROVE  end[1 .. k + 1] = Advance(i, end[1 .. k], list[k + 1])
  <2>1. (1 .. k + 1) \in SUBSET (1 .. m) /\ k + 1 \in 1 .. k + 1 /\ k + 1 \in Nat
    <3>1. k \in Nat /\ k + 1 =< m
      OBVIOUS
    <3> QED
      BY <3>1
  <2>2. Max(1 .. k + 1) = k + 1
    <3>1. Max(1 .. k + 1) \in 1 .. k + 1 /\ k + 1 =< Max(1 .. k + 1)
      <4>1. (1 .. k + 1) \in SUBSET (1 .. m) /\ (1 .. k + 1) # {}
        BY <2>1
      <4> QED
        BY <2>1, <4>1, MaxIsLast
    <3> QED
      BY <3>1
  <2>3. (1 .. k + 1) \ {k + 1} = 1 .. k
    OBVIOUS
  <2>4. end[1 .. k + 1] = Advance(i, end[(1 .. k + 1) \ {Max(1 .. k + 1)}], list[Max(1 .. k + 1)])
    BY <1>1, <2>1 DEF IsWalk
  <2> QED
    BY <2>2, <2>3, <2>4
<1> QED
  BY <1>3, <1>4, <1>5 DEF Walked, WalksFar

Stages == [done : 0 .. 5, knows : BOOLEAN, wrong : BOOLEAN]

\* How far a run has come, field by field.
LEMMA StageOf ==
    ASSUME NEW at, NEW done \in 0 .. 5, NEW knows \in BOOLEAN, NEW wrong \in BOOLEAN,
           at = [done |-> done, knows |-> knows, wrong |-> wrong]
    PROVE  at \in Stages /\ at.done = done /\ at.knows = knows /\ at.wrong = wrong
<1>1. at \in Stages
  BY DEF Stages
<1>2. at.done = done
  BY Zenon
<1>3. at.knows = knows
  BY Zenon
<1>4. at.wrong = wrong
  BY Zenon
<1> QED
  BY <1>1, <1>2, <1>3, <1>4

\* The loop at a call it waits for, at the end of the case, and at any other.
LEMMA AdvanceWaits ==
    ASSUME NEW i, NEW at \in Stages, NEW call, NEW tool,
           at.done < 4, tool = Wanted[at.done + 1], call.tool = tool
    PROVE  /\ Advance(i, at, call) \in Stages
           /\ Advance(i, at, call).done = at.done + 1
           /\ Advance(i, at, call).knows <=> at.knows \/ (tool = "lookup_order" /\ LookedUp(i, call))
           /\ Advance(i, at, call).wrong <=>
                 at.wrong \/ (tool = "get_policy" /\ ~ (at.knows /\ call.id = "sku"))
<1> DEFINE next == at.done + 1
           knows == at.knows \/ (call.tool = "lookup_order" /\ LookedUp(i, call))
           wrong == at.wrong \/ (call.tool = "get_policy" /\ ~ (at.knows /\ call.id = "sku"))
<1>1. Advance(i, at, call) = [done |-> next, knows |-> knows, wrong |-> wrong]
  BY Zenon DEF Advance
<1>2. next \in 0 .. 5
  BY DEF Stages
<1>3. knows \in BOOLEAN /\ wrong \in BOOLEAN
  BY Zenon DEF Stages
<1>4. (knows <=> at.knows \/ (tool = "lookup_order" /\ LookedUp(i, call)))
      /\ (wrong <=> at.wrong \/ (tool = "get_policy" /\ ~ (at.knows /\ call.id = "sku")))
  BY Zenon
<1> HIDE DEF next, knows, wrong
<1>5. Advance(i, at, call) \in Stages /\ Advance(i, at, call).done = next
      /\ Advance(i, at, call).knows = knows /\ Advance(i, at, call).wrong = wrong
  BY <1>1, <1>2, <1>3, StageOf
<1>10. Advance(i, at, call).done = at.done + 1
  BY <1>5 DEF next
<1>11. Advance(i, at, call).knows <=> at.knows \/ (tool = "lookup_order" /\ LookedUp(i, call))
  BY <1>4, <1>5, Zenon
<1>12. Advance(i, at, call).wrong <=>
          at.wrong \/ (tool = "get_policy" /\ ~ (at.knows /\ call.id = "sku"))
  BY <1>4, <1>5, Zenon
<1> QED
  BY <1>5, <1>10, <1>11, <1>12

LEMMA AdvanceEnds ==
    ASSUME NEW i, NEW at \in Stages, NEW call,
           at.done = 4, call.tool \in {"issue_refund", "escalate"}
    PROVE  /\ Advance(i, at, call) \in Stages
           /\ Advance(i, at, call).done = 5
           /\ Advance(i, at, call).wrong = at.wrong
<1>1. Advance(i, at, call) = [at EXCEPT !.done = 5]
  BY DEF Advance
<1> QED
  BY <1>1 DEF Stages

LEMMA AdvanceStays ==
    ASSUME NEW i, NEW at \in Stages, NEW call, at.done < 4 => call.tool # Wanted[at.done + 1],
           at.done = 4 => call.tool \notin {"issue_refund", "escalate"}
    PROVE  Advance(i, at, call) = at
BY Zenon DEF Advance

\* A run that has made so many of the procedure's calls, and whether it read a wrong policy.
Stage(at, done, wrong) ==
    at \in Stages /\ at.done = done /\ (at.wrong <=> wrong) /\ (done >= 2 => at.knows)

\* The order of an instance names its item, and the tools the loop waits for.
LEMMA OrderIsFound == ASSUME NEW i PROVE LookedUp(i, Find)
<1>1. Find.tool = "lookup_order" /\ Find.id = "order"
  BY DEF Find, ToCall
<1>2. "sku" \in Ids /\ TellsId(i, Find, "sku")
  BY <1>1 DEF Ids, TellsId
<1> QED
  BY <1>2, ObserveFields DEF LookedUp

LEMMA WantedAre ==
    /\ Wanted[1] = "get_customer" /\ Wanted[2] = "lookup_order"
    /\ Wanted[3] = "get_policy" /\ Wanted[4] = "check_eligibility"
BY DEF Wanted

\* What the loop makes of the calls there are.
LEMMA StageAsks == ASSUME NEW i, NEW at, Stage(at, 0, FALSE) PROVE Stage(Advance(i, at, Ask), 1, FALSE)
<1>1. at \in Stages /\ at.done = 0 /\ ~ at.wrong
  BY DEF Stage
<1>2. at.done < 4 /\ "get_customer" = Wanted[at.done + 1] /\ Ask.tool = "get_customer"
  BY <1>1, WantedAre, ToolsCalled
<1>3. /\ Advance(i, at, Ask) \in Stages /\ Advance(i, at, Ask).done = at.done + 1
      /\ Advance(i, at, Ask).wrong <=>
            at.wrong \/ ("get_customer" = "get_policy" /\ ~ (at.knows /\ Ask.id = "sku"))
  BY <1>1, <1>2, AdvanceWaits
<1> QED
  BY <1>1, <1>3 DEF Stage

LEMMA StageFinds == ASSUME NEW i, NEW at, Stage(at, 1, FALSE) PROVE Stage(Advance(i, at, Find), 2, FALSE)
<1>1. at \in Stages /\ at.done = 1 /\ ~ at.wrong
  BY DEF Stage
<1>2. at.done < 4 /\ "lookup_order" = Wanted[at.done + 1] /\ Find.tool = "lookup_order"
  BY <1>1, WantedAre, ToolsCalled
<1>3. /\ Advance(i, at, Find) \in Stages /\ Advance(i, at, Find).done = at.done + 1
      /\ Advance(i, at, Find).knows <=>
            at.knows \/ ("lookup_order" = "lookup_order" /\ LookedUp(i, Find))
      /\ Advance(i, at, Find).wrong <=>
            at.wrong \/ ("lookup_order" = "get_policy" /\ ~ (at.knows /\ Find.id = "sku"))
  BY <1>1, <1>2, AdvanceWaits
<1> QED
  BY <1>1, <1>3, OrderIsFound DEF Stage

LEMMA StageReads ==
    ASSUME NEW i, NEW at, Stage(at, 2, FALSE), NEW call, call.tool = "get_policy"
    PROVE  /\ Advance(i, at, call) \in Stages
           /\ Advance(i, at, call).done = 3 /\ Advance(i, at, call).knows
           /\ Advance(i, at, call).wrong <=> call.id # "sku"
<1>1. at \in Stages /\ at.done = 2 /\ ~ at.wrong /\ at.knows
  BY DEF Stage
<1>2. at.done < 4 /\ "get_policy" = Wanted[at.done + 1]
  BY <1>1, WantedAre
<1>3. /\ Advance(i, at, call) \in Stages /\ Advance(i, at, call).done = at.done + 1
      /\ Advance(i, at, call).knows <=>
            at.knows \/ ("get_policy" = "lookup_order" /\ LookedUp(i, call))
      /\ Advance(i, at, call).wrong <=>
            at.wrong \/ ("get_policy" = "get_policy" /\ ~ (at.knows /\ call.id = "sku"))
  BY <1>1, <1>2, AdvanceWaits
<1> QED
  BY <1>1, <1>3 DEF Stage

LEMMA StageChecks ==
    ASSUME NEW i, NEW at, NEW wrong, Stage(at, 3, wrong)
    PROVE  Stage(Advance(i, at, Check), 4, wrong)
<1>1. at \in Stages /\ at.done = 3 /\ (at.wrong <=> wrong) /\ at.knows
  BY DEF Stage
<1>2. at.done < 4 /\ "check_eligibility" = Wanted[at.done + 1] /\ Check.tool = "check_eligibility"
  BY <1>1, WantedAre, ToolsCalled
<1>3. /\ Advance(i, at, Check) \in Stages /\ Advance(i, at, Check).done = at.done + 1
      /\ Advance(i, at, Check).knows <=>
            at.knows \/ ("check_eligibility" = "lookup_order" /\ LookedUp(i, Check))
      /\ Advance(i, at, Check).wrong <=>
            at.wrong \/ ("check_eligibility" = "get_policy" /\ ~ (at.knows /\ Check.id = "sku"))
  BY <1>1, <1>2, AdvanceWaits
<1> QED
  BY <1>1, <1>3 DEF Stage

LEMMA StageResolves ==
    ASSUME NEW i, NEW amount, NEW at, NEW wrong, Stage(at, 4, wrong)
    PROVE  Advance(i, at, Resolve(i, amount)) \in Stages
           /\ Advance(i, at, Resolve(i, amount)).done = 5
           /\ (Advance(i, at, Resolve(i, amount)).wrong <=> wrong)
<1>1. at \in Stages /\ at.done = 4 /\ (at.wrong <=> wrong)
  BY DEF Stage
<1>2. Resolve(i, amount).tool \in {"issue_refund", "escalate"}
  BY ToolsCalled DEF Resolve
<1> QED
  BY <1>1, <1>2, AdvanceEnds

\* Any other call leaves it where it is.
LEMMA StageStays ==
    ASSUME NEW i, NEW at \in Stages, NEW call,
           \/ at.done = 2 /\ call.tool # "get_policy"
           \/ at.done = 3 /\ call.tool # "check_eligibility"
           \/ at.done = 5
    PROVE  Advance(i, at, call) = at
<1>1. at.done < 4 => call.tool # Wanted[at.done + 1]
  BY WantedAre
<1>2. at.done # 4
  OBVIOUS
<1> QED
  BY <1>1, <1>2, AdvanceStays

Plain == {"clean", "ignored_observation", "unsupported_claim"}

\* A script by its calls.
Begins(list, m, third) ==
    /\ list \in Seq(RealCalls) /\ Len(list) = m /\ list[1] = Ask /\ list[2] = Find /\ list[3] = third

\* The first three calls of every script.
LEMMA ScriptBegins ==
    ASSUME NEW i \in Instances, NEW fault
    PROVE  Begins(Script(fault, i), Steps(fault), Third(fault)) /\ Steps(fault) \in {4, 5, 6}
BY ScriptFacts DEF Begins, Steps

GoesOn(g, i, list, m, third) ==
    /\ Stage(Walked(g, 2), 2, FALSE)
    /\ Walked(g, 3) = Advance(i, Walked(g, 2), third)
    /\ 3 < m => Walked(g, 4) = Advance(i, Walked(g, 3), list[4])
    /\ 4 < m => Walked(g, 5) = Advance(i, Walked(g, 4), list[5])
    /\ 5 < m => Walked(g, 6) = Advance(i, Walked(g, 5), list[6])
    /\ StraysFar(i, list) <=>
          Walked(g, m).wrong \/ Walked(g, m).done < 5 \/ list[m].tool # "reply"

\* How far the loop comes with the first two calls of any of them.
LEMMA FarBegins ==
    ASSUME NEW i, NEW list, NEW m \in {4, 5, 6}, NEW third, Begins(list, m, third)
    PROVE  \E g : GoesOn(g, i, list, m, third)
<1>1. /\ list \in Seq(RealCalls) /\ Len(list) = m /\ m \in Nat /\ m >= 4
      /\ list[1] = Ask /\ list[2] = Find /\ list[3] = third
  BY DEF Begins
<1>2. DOMAIN list = 1 .. m
  BY <1>1
<1>0. PICK g : WalksFar(g, i, list, m)
  BY <1>1, <1>2, WalkIsStepwise
<1>3. /\ Walked(g, 0) = Came(0, FALSE, FALSE)
      /\ \A k \in 0 .. m - 1 : Walked(g, k + 1) = Advance(i, Walked(g, k), list[k + 1])
      /\ StraysFar(i, list) <=>
            Walked(g, m).wrong \/ Walked(g, m).done < 5 \/ Last(list).tool # "reply"
  BY <1>0 DEF WalksFar
<1>4. Last(list) = list[m]
  BY <1>1 DEF Last
<1>5. 0 \in 0 .. m - 1 /\ 1 \in 0 .. m - 1 /\ 2 \in 0 .. m - 1
      /\ \A k \in {3, 4, 5} : k < m => k \in 0 .. m - 1
  BY <1>1
<1>6. /\ Walked(g, 1) = Advance(i, Walked(g, 0), list[1])
      /\ Walked(g, 2) = Advance(i, Walked(g, 1), list[2])
      /\ Walked(g, 3) = Advance(i, Walked(g, 2), list[3])
  <2>1. /\ Walked(g, 0 + 1) = Advance(i, Walked(g, 0), list[0 + 1])
        /\ Walked(g, 1 + 1) = Advance(i, Walked(g, 1), list[1 + 1])
        /\ Walked(g, 2 + 1) = Advance(i, Walked(g, 2), list[2 + 1])
    BY <1>3, <1>5
  <2>2. 0 + 1 = 1 /\ 1 + 1 = 2 /\ 2 + 1 = 3
    OBVIOUS
  <2> QED
    BY <2>1, <2>2
<1>7. Stage(Walked(g, 0), 0, FALSE)
  <2>1. FALSE \in BOOLEAN /\ 0 \in 0 .. 5
    OBVIOUS
  <2>2. Walked(g, 0) = [done |-> 0, knows |-> FALSE, wrong |-> FALSE]
    BY <1>3 DEF Came
  <2>3. Walked(g, 0) \in Stages /\ Walked(g, 0).done = 0 /\ Walked(g, 0).wrong = FALSE
    BY <2>1, <2>2, StageOf
  <2> QED
    BY <2>3 DEF Stage
<1>8. Stage(Walked(g, 1), 1, FALSE)
  BY <1>1, <1>6, <1>7, StageAsks
<1>9. Stage(Walked(g, 2), 2, FALSE)
  BY <1>1, <1>6, <1>8, StageFinds
<1>10. /\ 3 < m => Walked(g, 4) = Advance(i, Walked(g, 3), list[4])
       /\ 4 < m => Walked(g, 5) = Advance(i, Walked(g, 4), list[5])
       /\ 5 < m => Walked(g, 6) = Advance(i, Walked(g, 5), list[6])
  <2>1. /\ 3 < m => Walked(g, 3 + 1) = Advance(i, Walked(g, 3), list[3 + 1])
        /\ 4 < m => Walked(g, 4 + 1) = Advance(i, Walked(g, 4), list[4 + 1])
        /\ 5 < m => Walked(g, 5 + 1) = Advance(i, Walked(g, 5), list[5 + 1])
    BY <1>3, <1>5
  <2>2. 3 + 1 = 4 /\ 4 + 1 = 5 /\ 5 + 1 = 6
    OBVIOUS
  <2> QED
    BY <2>1, <2>2
<1>11. StraysFar(i, list) <=>
          \/ Walked(g, m).wrong \/ Walked(g, m).done < 5 \/ list[m].tool # "reply"
  BY <1>3, <1>4
<1> QED
  BY <1>1, <1>6, <1>9, <1>10, <1>11 DEF GoesOn

\* The runs that make the procedure's calls, whatever the policy they read.
LEMMA FarAlong ==
    ASSUME NEW i, NEW list, NEW third, NEW amount, Begins(list, 6, third),
           third.tool = "get_policy",
           list[4] = Check, list[5] = Resolve(i, amount), list[6] = Say
    PROVE  StraysFar(i, list) <=> third.id # "sku"
<1>1. PICK g : GoesOn(g, i, list, 6, third)
  BY FarBegins
<1>2. /\ Stage(Walked(g, 2), 2, FALSE)
      /\ Walked(g, 3) = Advance(i, Walked(g, 2), third)
      /\ Walked(g, 4) = Advance(i, Walked(g, 3), Check)
      /\ Walked(g, 5) = Advance(i, Walked(g, 4), Resolve(i, amount))
      /\ Walked(g, 6) = Advance(i, Walked(g, 5), Say)
      /\ StraysFar(i, list) <=>
            Walked(g, 6).wrong \/ Walked(g, 6).done < 5 \/ list[6].tool # "reply"
  <2>1. 3 < 6 /\ 4 < 6 /\ 5 < 6
    OBVIOUS
  <2> QED
    BY <1>1, <2>1, Zenon DEF GoesOn
<1>0. PICK wrong \in BOOLEAN : wrong <=> third.id # "sku"
  OBVIOUS
<1>3. Stage(Walked(g, 3), 3, wrong)
  <2> DEFINE at == Walked(g, 2)
             next == Advance(i, at, third)
  <2>1. Stage(at, 2, FALSE) /\ third.tool = "get_policy" /\ Walked(g, 3) = next
    BY <1>2
  <2> HIDE DEF at
  <2>2. next \in Stages /\ next.done = 3 /\ next.knows /\ (next.wrong <=> third.id # "sku")
    BY <2>1, StageReads
  <2> QED
    BY <1>0, <2>1, <2>2 DEF Stage
<1>4. Stage(Walked(g, 4), 4, wrong)
  BY <1>2, <1>3, StageChecks
<1>5. Walked(g, 5) \in Stages /\ Walked(g, 5).done = 5 /\ (Walked(g, 5).wrong <=> wrong)
  BY <1>2, <1>4, StageResolves
<1>6. Walked(g, 6) = Walked(g, 5)
  BY <1>2, <1>5, StageStays
<1>7. list[6].tool = "reply"
  BY ToolsCalled
<1> QED
  BY <1>0, <1>2, <1>5, <1>6, <1>7

\* The runs that do not come to the end of the procedure.
LEMMA FarAside ==
    ASSUME NEW i, NEW list, NEW amount, Begins(list, 6, Find),
           list[4] = Check, list[5] = Resolve(i, amount), list[6] = Say
    PROVE  StraysFar(i, list)
<1>1. PICK g : GoesOn(g, i, list, 6, Find)
  BY FarBegins
<1>2. /\ Stage(Walked(g, 2), 2, FALSE)
      /\ Walked(g, 3) = Advance(i, Walked(g, 2), Find)
      /\ Walked(g, 4) = Advance(i, Walked(g, 3), Check)
      /\ Walked(g, 5) = Advance(i, Walked(g, 4), Resolve(i, amount))
      /\ Walked(g, 6) = Advance(i, Walked(g, 5), Say)
      /\ StraysFar(i, list) <=>
            Walked(g, 6).wrong \/ Walked(g, 6).done < 5 \/ list[6].tool # "reply"
  <2>1. 3 < 6 /\ 4 < 6 /\ 5 < 6
    OBVIOUS
  <2> QED
    BY <1>1, <2>1, Zenon DEF GoesOn
<1>3. Walked(g, 2) \in Stages /\ Walked(g, 2).done = 2
  BY <1>2 DEF Stage
<1>4. /\ Find.tool # "get_policy" /\ Check.tool # "get_policy" /\ Say.tool # "get_policy"
      /\ Resolve(i, amount).tool # "get_policy"
  BY ToolsCalled DEF Resolve
<1>5. Walked(g, 3) = Walked(g, 2)
  BY <1>2, <1>3, <1>4, StageStays
<1>6. Walked(g, 4) = Walked(g, 2)
  BY <1>2, <1>3, <1>4, <1>5, StageStays
<1>7. Walked(g, 5) = Walked(g, 2)
  BY <1>2, <1>3, <1>4, <1>6, StageStays
<1>8. Walked(g, 6) = Walked(g, 2)
  BY <1>2, <1>3, <1>4, <1>7, StageStays
<1> QED
  BY <1>2, <1>3, <1>8

LEMMA FarUnchecked ==
    ASSUME NEW i, NEW list, NEW amount, Begins(list, 5, Read),
           list[4] = Resolve(i, amount), list[5] = Say
    PROVE  StraysFar(i, list)
<1>1. PICK g : GoesOn(g, i, list, 5, Read)
  BY FarBegins
<1>2. /\ Stage(Walked(g, 2), 2, FALSE)
      /\ Walked(g, 3) = Advance(i, Walked(g, 2), Read)
      /\ Walked(g, 4) = Advance(i, Walked(g, 3), Resolve(i, amount))
      /\ Walked(g, 5) = Advance(i, Walked(g, 4), Say)
      /\ StraysFar(i, list) <=>
            Walked(g, 5).wrong \/ Walked(g, 5).done < 5 \/ list[5].tool # "reply"
  <2>1. 3 < 5 /\ 4 < 5
    OBVIOUS
  <2> QED
    BY <1>1, <2>1, Zenon DEF GoesOn
<1>3. Walked(g, 3) \in Stages /\ Walked(g, 3).done = 3
  <2> DEFINE at == Walked(g, 2)
             next == Advance(i, at, Read)
  <2>1. Stage(at, 2, FALSE) /\ Read.tool = "get_policy" /\ Walked(g, 3) = next
    BY <1>2, ToolsCalled
  <2> HIDE DEF at
  <2>2. next \in Stages /\ next.done = 3
    BY <2>1, StageReads
  <2> QED
    BY <2>1, <2>2
<1>4. Say.tool # "check_eligibility" /\ Resolve(i, amount).tool # "check_eligibility"
  BY ToolsCalled DEF Resolve
<1>5. Walked(g, 4) = Walked(g, 3)
  BY <1>2, <1>3, <1>4, StageStays
<1>6. Walked(g, 5) = Walked(g, 3)
  BY <1>2, <1>3, <1>4, <1>5, StageStays
<1> QED
  BY <1>2, <1>3, <1>6

LEMMA FarStopped ==
    ASSUME NEW i, NEW list, Begins(list, 4, Read), list[4] = Check
    PROVE  StraysFar(i, list)
<1>1. PICK g : GoesOn(g, i, list, 4, Read)
  BY FarBegins
<1>2. StraysFar(i, list) <=>
         Walked(g, 4).wrong \/ Walked(g, 4).done < 5 \/ list[4].tool # "reply"
  BY <1>1, Zenon DEF GoesOn
<1>3. list[4].tool # "reply"
  BY ToolsCalled
<1> QED
  BY <1>2, <1>3

\* The lenient baseline flags every script but those of three kinds.
LEMMA ScriptStraysFar ==
    ASSUME NEW i \in Instances, NEW fault \in FailureTypes \cup {"clean"}
    PROVE  StraysFar(i, Script(fault, i)) <=> fault \notin Plain
<1> DEFINE list == Script(fault, i)
           amount == Amount(fault, i)
<1>1. Begins(list, Steps(fault), Third(fault))
  BY ScriptBegins
<1>2. /\ fault = "skipped_precondition" => list[4] = Resolve(i, amount) /\ list[5] = Say
      /\ fault # "skipped_precondition" => list[4] = Check
      /\ fault \notin {"skipped_precondition", "premature_stop"} =>
            list[5] = Resolve(i, amount) /\ list[6] = Say
  BY ScriptFacts
<1> HIDE DEF list, amount
<1>3. CASE fault = "skipped_precondition"
  <2>1. Begins(list, 5, Read)
    BY <1>1, <1>3 DEF Steps, Third
  <2> QED
    BY <1>2, <1>3, <2>1, FarUnchecked DEF Plain, list
<1>4. CASE fault = "premature_stop"
  <2>1. Begins(list, 4, Read)
    BY <1>1, <1>4 DEF Steps, Third
  <2> QED
    BY <1>2, <1>4, <2>1, FarStopped DEF Plain, list
<1>5. CASE fault = "wrong_tool"
  <2>1. Begins(list, 6, Find)
    BY <1>1, <1>5 DEF Steps, Third
  <2> QED
    BY <1>2, <1>5, <2>1, FarAside DEF Plain, list
<1>6. CASE fault = "hallucinated_argument"
  <2>1. Begins(list, 6, Invent) /\ Invent.tool = "get_policy" /\ Invent.id # "sku"
    BY <1>1, <1>6 DEF Steps, Third, Invent, ToCall
  <2> QED
    BY <1>2, <1>6, <2>1, FarAlong DEF Plain, list
<1>7. CASE fault \in Plain
  <2>1. Begins(list, 6, Read) /\ Read.tool = "get_policy" /\ Read.id = "sku"
    BY <1>1, <1>7 DEF Plain, Steps, Third, Read, ToCall
  <2>2. fault \notin {"skipped_precondition", "premature_stop"}
    BY <1>7 DEF Plain
  <2> QED
    BY <1>2, <1>7, <2>1, <2>2, FarAlong DEF list
<1> QED
  BY <1>3, <1>4, <1>5, <1>6, <1>7 DEF Plain, FailureTypes

\* The tools of a run, one by one.
LEMMA ToolsAre ==
    ASSUME NEW list \in Seq(RealCalls)
    PROVE  /\ ToolsOf(list) \in Seq(Tools \cup {"none"}) /\ Len(ToolsOf(list)) = Len(list)
           /\ \A k \in 1 .. Len(list) : ToolsOf(list)[k] = list[k].tool
<1> DEFINE m == Len(list)
<1>1. m \in Nat /\ DOMAIN list = 1 .. m
  OBVIOUS
<1>2. ToolsOf(list) = [k \in 1 .. m |-> list[k].tool]
  BY <1>1 DEF ToolsOf
<1>3. \A k \in 1 .. m : list[k].tool \in Tools \cup {"none"}
  <2>1. ASSUME NEW k \in 1 .. m PROVE list[k].tool \in Tools \cup {"none"}
    <3>1. list[k] \in RealCalls
      OBVIOUS
    <3> QED
      BY <3>1 DEF RealCalls
  <2> QED
    BY <2>1
<1> HIDE DEF m
<1> QED
  BY <1>1, <1>2, <1>3 DEF m

\* What the strict baseline compares: the first four tools, the last two.
LEMMA BeginsAsWanted ==
    ASSUME NEW list \in Seq(RealCalls), Len(list) >= 4
    PROVE  IsPrefix(Wanted, ToolsOf(list)) <=> \A k \in 1 .. 4 : list[k].tool = Wanted[k]
<1> DEFINE T == ToolsOf(list)
           cut == SubSeq(T, 1, 4)
<1>1. /\ T \in Seq(Tools \cup {"none"}) /\ Len(T) = Len(list) /\ Len(list) \in Nat
      /\ \A k \in 1 .. Len(list) : T[k] = list[k].tool
  BY ToolsAre
<1>2. Len(Wanted) = 4 /\ SubSeq(Wanted, 1, 4) = Wanted /\ Wanted \in Seq(Tools)
  <2>1. Len(Wanted) = 4 /\ Wanted \in Seq(Tools)
    BY DEF Wanted, Tools
  <2>2. SubSeq(Wanted, 1, Len(Wanted)) = Wanted
    BY <2>1, SubSeqFull
  <2> QED
    BY <2>1, <2>2
<1> HIDE DEF T
<1>3. cut \in Seq(Tools \cup {"none"}) /\ Len(cut) = 4 /\ \A k \in 1 .. 4 : cut[k] = T[k]
  <2>1. cut \in Seq(Tools \cup {"none"})
    BY <1>1
  <2>2. Len(cut) = 4
    BY <1>1
  <2>3. \A k \in 1 .. 4 : cut[k] = T[k]
    BY <1>1
  <2> QED
    BY <2>1, <2>2, <2>3
<1>4. IsPrefix(Wanted, T) <=> Wanted = cut
  BY <1>1, <1>2 DEF IsPrefix
<1> HIDE DEF cut
<1>5. Wanted = cut <=> \A k \in 1 .. 4 : cut[k] = Wanted[k]
  BY <1>2, <1>3
<1> QED
  BY <1>1, <1>3, <1>4, <1>5 DEF T

LEMMA EndsAsWanted ==
    ASSUME NEW list \in Seq(RealCalls), Len(list) = 6
    PROVE  SubSeq(ToolsOf(list), 5, Len(list)) = << list[5].tool, list[6].tool >>
<1> DEFINE T == ToolsOf(list)
           cut == SubSeq(T, 5, 6)
<1>1. /\ T \in Seq(Tools \cup {"none"}) /\ Len(T) = 6
      /\ T[5] = list[5].tool /\ T[6] = list[6].tool
  BY ToolsAre
<1> HIDE DEF T
<1>2. cut \in Seq(Tools \cup {"none"}) /\ Len(cut) = 2
  <2>1. ASSUME NEW k \in 5 .. 6 PROVE T[k] \in Tools \cup {"none"}
    <3>1. k \in 1 .. Len(T)
      BY <1>1
    <3> QED
      BY <1>1, <3>1, ElementOfSeq
  <2>2. 5 \in Int /\ 6 \in Int
    OBVIOUS
  <2>3. SubSeq(T, 5, 6) \in Seq(Tools \cup {"none"})
    BY <2>1, <2>2, SubSeqProperties
  <2>4. Len(SubSeq(T, 5, 6)) = 2
    BY <1>1
  <2> QED
    BY <2>3, <2>4
<1>3. cut[1] = T[5] /\ cut[2] = T[6]
  BY <1>1
<1> HIDE DEF cut
<1>4. cut = << cut[1], cut[2] >>
  BY <1>2
<1> QED
  BY <1>1, <1>3, <1>4 DEF cut, T

LEMMA EndsTooSoon ==
    ASSUME NEW list \in Seq(RealCalls), Len(list) = 4
    PROVE  SubSeq(ToolsOf(list), 5, Len(list)) \notin Endings
<1>1. ToolsOf(list) \in Seq(Tools \cup {"none"}) /\ Len(ToolsOf(list)) = 4
  BY ToolsAre
<1>2. Len(SubSeq(ToolsOf(list), 5, Len(list))) = 0
  <2>1. SubSeq(ToolsOf(list), 5, 4) = << >>
    BY SubSeqEmpty
  <2> QED
    BY <2>1
<1> DEFINE rest == SubSeq(ToolsOf(list), 5, Len(list))
<1>3. Len(rest) = 0
  BY <1>2
<1> HIDE DEF rest
<1>4. rest # <<"issue_refund", "reply">> /\ rest # <<"escalate", "reply">>
  BY <1>3
<1> QED
  BY <1>4 DEF Endings, rest

\* The strict baseline flags the same scripts.
LEMMA ScriptStrays ==
    ASSUME NEW i \in Instances, NEW fault \in FailureTypes \cup {"clean"}
    PROVE  Strays(i, Script(fault, i)) <=> fault \notin Plain
<1> DEFINE list == Script(fault, i)
           amount == Amount(fault, i)
<1>1. /\ list \in Seq(RealCalls) /\ Len(list) = Steps(fault)
      /\ list[1] = Ask /\ list[2] = Find /\ list[3] = Third(fault)
      /\ fault = "skipped_precondition" => list[4] = Resolve(i, amount) /\ list[5] = Say
      /\ fault # "skipped_precondition" => list[4] = Check
      /\ fault \notin {"skipped_precondition", "premature_stop"} =>
            list[5] = Resolve(i, amount) /\ list[6] = Say
  BY ScriptFacts
<1>2. Len(list) >= 4
  BY <1>1 DEF Steps
<1>3. Resolve(i, amount).tool \in {"issue_refund", "escalate"}
  BY ToolsCalled DEF Resolve
<1> HIDE DEF list, amount
<1>4. IsPrefix(Wanted, ToolsOf(list)) <=>
         Third(fault).tool = "get_policy" /\ list[4].tool = "check_eligibility"
  <2>1. \A k \in 1 .. 4 : k = 1 \/ k = 2 \/ k = 3 \/ k = 4
    OBVIOUS
  <2>2. list[1].tool = Wanted[1] /\ list[2].tool = Wanted[2]
        /\ Wanted[3] = "get_policy" /\ Wanted[4] = "check_eligibility"
    BY <1>1, WantedAre, ToolsCalled
  <2> QED
    BY <1>1, <1>2, <2>1, <2>2, BeginsAsWanted
<1>5. CASE fault = "skipped_precondition"
  <2>1. list[4].tool # "check_eligibility"
    BY <1>1, <1>3, <1>5
  <2> QED
    BY <1>4, <1>5, <2>1 DEF Strays, Plain, list
<1>6. CASE fault = "premature_stop"
  <2>1. Len(list) = 4
    BY <1>1, <1>6 DEF Steps
  <2> QED
    BY <1>1, <1>6, <2>1, EndsTooSoon DEF Strays, Plain, list
<1>7. CASE fault = "wrong_tool"
  <2>1. Third(fault).tool # "get_policy"
    BY <1>7, ToolsCalled DEF Third
  <2> QED
    BY <1>4, <1>7, <2>1 DEF Strays, Plain, list
<1>8. CASE fault = "hallucinated_argument"
  <2>1. list[3].id # "sku"
    BY <1>1, <1>8 DEF Third, Invent, ToCall
  <2> QED
    BY <1>8, <2>1 DEF Strays, Plain, list
<1>9. CASE fault \in Plain
  <2>1. Third(fault) = Read /\ Steps(fault) = 6
        /\ fault \notin {"skipped_precondition", "premature_stop"}
    BY <1>9 DEF Plain, Third, Steps
  <2>2. Read.id = "sku" /\ Read.tool = "get_policy"
    BY DEF Read, ToCall
  <2>3. IsPrefix(Wanted, ToolsOf(list))
    BY <1>1, <1>4, <2>1, <2>2, ToolsCalled
  <2>4. LookedUp(i, list[2]) /\ list[3].id = "sku"
    BY <1>1, <2>1, <2>2, OrderIsFound
  <2>5. SubSeq(ToolsOf(list), 5, Len(list)) = << list[5].tool, list[6].tool >>
    BY <1>1, <2>1, EndsAsWanted
  <2>6. list[5].tool \in {"issue_refund", "escalate"} /\ list[6].tool = "reply"
    BY <1>1, <1>3, <2>1, ToolsCalled
  <2>7. SubSeq(ToolsOf(list), 5, Len(list)) \in Endings
    BY <2>5, <2>6 DEF Endings
  <2> QED
    BY <1>9, <2>3, <2>4, <2>7 DEF Strays, list
<1> QED
  BY <1>5, <1>6, <1>7, <1>8, <1>9 DEF Plain, FailureTypes

\* The rules that fire tell the injected type and no other, and the baseline that reads only the
\* order of the calls sees every fault but a wrong amount and a wrong reply, whether or not it
\* allows more calls.
THEOREM FaultsAreOfOneType == Spec => []OneFaultOneType
<1>1. ASSUME IInv, Replayed PROVE OneFaultOneType
  <2> SUFFICES ASSUME over, kind # "model"
               PROVE
        /\ { RuleType[v[2]] : v \in seen.fired } =
                (IF kind \in {"clean", "wrong_tool", "unsupported_claim"} THEN {} ELSE {kind})
        /\ \A flagged \in { Strays(instance, Edited(kind, instance)[1]),
                             StraysFar(instance, Edited(kind, instance)[1]) } :
               flagged <=> kind \notin {"clean", "ignored_observation", "unsupported_claim"}
    BY DEF OneFaultOneType
  <2>1. instance \in Instances /\ kind \in FailureTypes \cup {"clean"} /\ Hosts(kind, instance)
    BY <1>1 DEF Replayed
  <2>2. seen.fired = Fires(kind, Steps(kind))
    BY <1>1, ReplayEnd
  <2>3. { RuleType[v[2]] : v \in seen.fired } =
           (IF kind \in {"clean", "wrong_tool", "unsupported_claim"} THEN {} ELSE {kind})
    <3>1. CASE kind = "hallucinated_argument"
      <4>1. seen.fired = { <<2, "R4">> }
        BY <2>1, <2>2, <3>1, EndFires
      <4>2. RuleType["R4"] = kind
        BY <3>1 DEF RuleType
      <4> QED
        BY <3>1, <4>1, <4>2
    <3>2. CASE kind = "skipped_precondition"
      <4>1. seen.fired = { <<3, "R1">> }
        BY <2>1, <2>2, <3>2, EndFires
      <4>2. RuleType["R1"] = kind
        BY <3>2 DEF RuleType
      <4> QED
        BY <3>2, <4>1, <4>2
    <3>3. CASE kind = "ignored_observation"
      <4>1. seen.fired = { <<4, "R2">> }
        BY <2>1, <2>2, <3>3, EndFires
      <4>2. RuleType["R2"] = kind
        BY <3>3 DEF RuleType
      <4> QED
        BY <3>3, <4>1, <4>2
    <3>4. CASE kind = "premature_stop"
      <4>1. seen.fired = { <<3, "R5">>, <<3, "R8">> }
        BY <2>1, <2>2, <3>4, EndFires
      <4>2. RuleType["R5"] = kind /\ RuleType["R8"] = kind
        BY <3>4 DEF RuleType
      <4> QED
        BY <3>4, <4>1, <4>2
    <3>5. CASE kind \in {"clean", "wrong_tool", "unsupported_claim"}
      <4>1. seen.fired = {}
        BY <2>1, <2>2, <3>5, EndFires
      <4> QED
        BY <3>5, <4>1
    <3> QED
      BY <2>1, <3>1, <3>2, <3>3, <3>4, <3>5 DEF FailureTypes
  <2>4. Edited(kind, instance)[1] = Script(kind, instance)
    BY <2>1, EditedIs
  <2>5. /\ Strays(instance, Edited(kind, instance)[1]) <=> kind \notin Plain
        /\ StraysFar(instance, Edited(kind, instance)[1]) <=> kind \notin Plain
    BY <2>1, <2>4, ScriptStrays, ScriptStraysFar
  <2> QED
    BY <2>3, <2>5, Zenon DEF Plain
<1> QED
  BY <1>1, EpisodeInvariance, PTL
=============================================================================
