---------------------------- MODULE MCJudgeBatches ----------------------------
EXTENDS JudgeBatches, TLC

CONSTANTS local, model, r1, r2, r3, r4, r5, s1, b1, b2

MCJudges == {local, model}

MCBodies == { [judge |-> model, steps |-> 1, context |-> FALSE] }

\* The items of b2 are too many.
MCUneven == b1 :> <<r1, r2>> @@ b2 :> <<r3, r4, r5>>
MCWide == [b \in Batches |-> 2]
=============================================================================
