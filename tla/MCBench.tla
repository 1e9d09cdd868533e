------------------------------- MODULE MCBench --------------------------------
EXTENDS Bench

MCLight == <<2>>
MCBacked == << [name |-> "pooled", at |-> <<1>>], [name |-> "degraded", at |-> <<8>>] >>
MCSampled == <<1, 2>>

\* The run of the estimates tells a quick answer from a slow one.
MCOutcomes == { [status |-> 200, overhead |-> "fast"], [status |-> 504, overhead |-> "fast"] }
MCAnswers == { [status |-> 200, overhead |-> "fast"], [status |-> 200, overhead |-> "slow"],
               [status |-> 504, overhead |-> "fast"] }
=============================================================================
