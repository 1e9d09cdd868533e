SPECIFICATION Spec
CONSTANTS
    Light <- MCLight
    Backed <- MCBacked
    Sampled <- MCSampled
    Answers <- MCAnswers
    Requests = 2
    Warmup = 2
    MaxSweeps = 2
INVARIANTS EstimatesAgree
CHECK_DEADLOCK FALSE
