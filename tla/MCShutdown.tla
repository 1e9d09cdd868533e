------------------------------ MODULE MCShutdown ------------------------------
EXTENDS Shutdown, TLC

CONSTANTS local, model, r1, r2, s1, s2, b1

MCJudges == {local, model}

MCBodies == { [judge |-> model, steps |-> 1, context |-> FALSE] }

MCPair == b1 :> <<r1, r2>>
MCWide == b1 :> 2

Symmetry == Permutations(Requests \ BatchItems)
=============================================================================
