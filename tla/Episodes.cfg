\* Every fault in every kind of instance, and every agent of four steps at one of each.
SPECIFICATION Spec
CONSTANTS
    Totals = {2400, 9999}
    Fees = {5, 10, 15}
    Windows = {14, 30}
    Overrun = {1, 45}
    CloseCents <- MCCloseCents
    Kinds = {"clean", "wrong_tool", "hallucinated_argument", "skipped_precondition", "ignored_observation", "premature_stop", "unsupported_claim", "model"}
    Played <- MCPlayed
    Named = {"email", "order", "sku", "other email", "nobody"}
    Amounts = {2160, 2161, 2400, 2401}
    MaxSteps = 4
CHECK_DEADLOCK FALSE
INVARIANTS
    TypeOK
    CleanRefundIsRight
    OutcomesAgree
    UntypedIsMissedRefund
    OnlyEscalationsGround
    IdentityIsNeverFirst
    OneFaultOneType
    FaultFoundWhereLabelled
    SilentAsMeant
PROPERTY ProcedureFollowed
