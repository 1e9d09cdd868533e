---------------------------- MODULE MCJudgeService ----------------------------
EXTENDS JudgeService, TLC

CONSTANTS local, model, off

MCJudges == {local, model, off}

\* Each way to be refused before the queue, and a body that is taken.
MCMixed == { [judge |-> off,   steps |-> 3, context |-> TRUE],
             [judge |-> model, steps |-> 3, context |-> TRUE],
             [judge |-> local, steps |-> 2, context |-> FALSE],
             [judge |-> model, steps |-> 2, context |-> FALSE] }

Symmetry == Permutations(Requests) \cup Permutations(Probes)
=============================================================================
