SPECIFICATION Spec
CONSTANTS
    t1 = t1
    t2 = t2
    t3 = t3
    programmatic = programmatic
    step = step
    selfcons = selfcons
    Trajectories <- MCTrajectories
    JudgeIds <- MCJudgeIds
    CallsOf <- MCCallsOf
    Sampled <- MCSampled
    Replies <- MCReplies
    Invocations <- OneJudge
    DyingAt <- Anywhere
    MaxFailures = 3
    MaxStarts = 2
CHECK_DEADLOCK FALSE
INVARIANT RerunStarts
