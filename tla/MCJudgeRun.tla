------------------------------ MODULE MCJudgeRun ------------------------------
(* Small instances of JudgeRun. *)
EXTENDS JudgeRun

CONSTANTS t1, t2, t3, programmatic, step, selfcons

MCTrajectories == {t1, t2, t3}
MCJudgeIds == {programmatic, step, selfcons}
MCCallsOf == [j \in MCJudgeIds |->
                 IF j = programmatic THEN 0 ELSE IF j = selfcons THEN 2 ELSE 1]
MCSampled == {selfcons}
MCReplies == {"ok", "unusable", "failed"}

Command(judges, order, subset, keep) ==
    [judges |-> judges, order |-> order, subset |-> subset, keep |-> keep]

\* All by one judge and a prefix by the self-consistency judge; the rest of the set
\* first (--first), with a judge that takes no calls and the responses not kept.
ManyJudges ==
    {Command(<<step, selfcons>>, <<t1, t2, t3>>, 2, TRUE),
     Command(<<step, programmatic>>, <<t3, t1, t2>>, 2, FALSE)}

\* A prefix by the self-consistency judge, then all by another.
Ensemble == {Command(<<selfcons, step>>, <<t1, t2, t3>>, 2, FALSE)}

\* One judge over two trajectories, the responses kept.
OneJudge == {Command(<<step>>, <<t1, t2>>, 2, TRUE)}

Anywhere == {"meta", "next", "call", "keep", "store"}
Nowhere == {}
=============================================================================
