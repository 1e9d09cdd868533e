\* A batch of two beside a single request, and a batch of three, which is too large.
SPECIFICATION FairBatchSpec
CONSTANTS
    local = local  model = model
    r1 = r1  r2 = r2  r3 = r3  r4 = r4  r5 = r5  s1 = s1  b1 = b1  b2 = b2
    Requests = {r1, r2, r3, r4, r5, s1}
    BatchItems = {r1, r2, r3, r4, r5}
    Probes = {p1, p2}
    Judges <- MCJudges
    EnabledJudges = {local, model}
    LocalJudges = {local}
    Payloads <- MCBodies
    MaxSteps = 2
    MaxConcurrency = 1
    DefaultTokens = 1
    ThreadHeadroom = 1
    Outcomes = {"verdict", "timeout", "raise"}
    Batches = {b1, b2}
    ItemsOf <- MCUneven
    GateSize <- MCWide
    MaxBatch = 2
CHECK_DEADLOCK FALSE
INVARIANTS BatchLeavesRoom BatchMetricsAgree
PROPERTIES EveryBatchAnswered EveryRequestAnswered
