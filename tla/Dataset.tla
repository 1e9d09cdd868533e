------------------------------- MODULE Dataset --------------------------------
(* The sets that are judged (cli.py).  A trajectory is the number of its       *)
(* instance and what its run is: clean, with a fault, or an agent's.           *)
EXTENDS Verdicts, SequencesExt

Difficulties == << "happy", "restocking", "expired", "non_refundable", "wrong_customer",
                   "already_refunded" >>

\* generate_instances: the difficulties in turn.
DifficultyOf(index) == Difficulties[(index % 6) + 1]

\* mutate: two faults need a refund in the clean run, one of them a fee too (Applies in Faults).
CanHost(fault, index) ==
    CASE fault = "skipped_precondition" -> DifficultyOf(index) \in {"happy", "restocking"}
      [] fault = "ignored_observation"  -> DifficultyOf(index) = "restocking"
      [] OTHER                          -> TRUE

CleanQuota(n) == Max({1, n \div 4})
TypeQuota(n) == Max({1, (n - CleanQuota(n)) \div 6})

\* Plausible bug: as many instances as trajectories were asked for.
AsManyAsAsked(n) == n

Generated(n) == 6 * TypeQuota(n) + 6

\* The first instances that can host a fault, as many as the quota has.
Taken(n, fault) ==
    {index \in 0 .. Generated(n) - 1 :
        /\ CanHost(fault, index)
        /\ Cardinality({k \in 0 .. index - 1 : CanHost(fault, k)}) < TypeQuota(n)}

\* build_dataset, before the shuffle.
BuildDataset(n) ==
    {<<index, "clean">> : index \in 0 .. Min({CleanQuota(n), Generated(n)}) - 1}
    \cup UNION {Taken(n, fault) \X {fault} : fault \in FailureTypes}

Faulty(set) == {t \in set : t[2] \in FailureTypes}

\* missing_parents
MissingParents(set) == {<<t[1], "clean">> : t \in Faulty(set)} \ set

\* _instances_for
InstancesFor(set) == 0 .. Max({t[1] : t \in set})

\* The list that stands for a shuffle: some order, always the same.
KindPlace == [ clean |-> 0, wrong_tool |-> 1, hallucinated_argument |-> 2, skipped_precondition |-> 3,
               ignored_observation |-> 4, premature_stop |-> 5, unsupported_claim |-> 6, agent |-> 7 ]

ComesBefore(t, u) == t[1] < u[1] \/ (t[1] = u[1] /\ KindPlace[t[2]] < KindPlace[u[2]])

\* _judging_order: each trajectory with its turn, which is that of its label's type among the names
\* given, as often as it is named, and after all of these for the rest; within a turn as listed.
JudgingOrder(label, set, first) ==
    {entry \in (DOMAIN first) \X set : label[entry[2]].type = first[entry[1]]}
    \cup {Len(first) + 1} \X {t \in set : label[t].type \notin ToSet(first)}

Precedes(a, b) == a[1] < b[1] \/ (a[1] = b[1] /\ ComesBefore(a[2], b[2]))
=============================================================================
