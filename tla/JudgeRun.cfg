SPECIFICATION Spec
CONSTANTS
    t1 = t1
    t2 = t2
    t3 = t3
    programmatic = programmatic
    step = step
    selfcons = selfcons
    Trajectories <- MCTrajectories
    JudgeIds <- MCJudgeIds
    CallsOf <- MCCallsOf
    Sampled <- MCSampled
    Replies <- MCReplies
    Invocations <- ManyJudges
    DyingAt <- Anywhere
    MaxFailures = 2
    MaxStarts = 3
CHECK_DEADLOCK FALSE
INVARIANTS
    TypeOK
    AtMostOneVerdict
    SingleCallsAnswered
    ZeroMeansAllJudged
    ThreeMeansAGap
PROPERTY ResponseComesFirst
