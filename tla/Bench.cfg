SPECIFICATION Spec
CONSTANTS
    Light <- MCLight
    Backed <- MCBacked
    Sampled <- MCSampled
    Answers <- MCOutcomes
    Requests = 2
    Warmup = 2
    MaxSweeps = 2
INVARIANTS MeasuresItsOwn PointsAreWhole
CHECK_DEADLOCK FALSE
