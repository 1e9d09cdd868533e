\* A batch of two and two single requests, cancelled anywhere.
SPECIFICATION ShutdownSpec
CONSTANTS
    local = local  model = model
    r1 = r1  r2 = r2  s1 = s1  s2 = s2  b1 = b1
    Requests = {r1, r2, s1, s2}
    BatchItems = {r1, r2}
    Probes = {}
    Judges <- MCJudges
    EnabledJudges = {local, model}
    LocalJudges = {local}
    Payloads <- MCBodies
    MaxSteps = 2
    MaxConcurrency = 2
    DefaultTokens = 2
    ThreadHeadroom = 1
    Outcomes = {"verdict", "raise"}
    Batches = {b1}
    ItemsOf <- MCPair
    GateSize <- MCWide
    MaxBatch = 3
SYMMETRY Symmetry
CHECK_DEADLOCK FALSE
INVARIANTS CancelKeepsAccounts DrainWaitsForSingles
