\* Four requests of every kind for two slots, and as many probes as the headroom is for.
SPECIFICATION Spec
CONSTANTS
    local = local  model = model  off = off
    Requests = {r1, r2, r3, r4}
    BatchItems = {}
    Probes = {p1}
    Judges <- MCJudges
    EnabledJudges = {local, model}
    LocalJudges = {local}
    Payloads <- MCMixed
    MaxSteps = 2
    MaxConcurrency = 2
    DefaultTokens = 1
    ThreadHeadroom = 1
    Outcomes = {"verdict", "backend", "raise"}
SYMMETRY Symmetry
CHECK_DEADLOCK FALSE
INVARIANTS TypeOK SlotsConserved NoLostWakeup ModelCallsBounded AdmittedGetThread GaugesAgree MetricsAgree
PROPERTY PromiseKept
