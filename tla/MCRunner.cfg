SPECIFICATION RunnerSpec
CONSTANTS
    p1 = p1
    r1 = r1
    Me = r1
    Project = p1
    Broken = Broken
    SchemaOf <- OneSchema
    UndoMayFail = FALSE
    Projects = {p1}
    Runners = {r1}
    RunnerOf <- OneRunner
    Digests = {d1, d2}
    Schemas = {s1}
    PlanTimeout = 1
    ApprovalTTL = 1
    MaxPlanAge = 1
    ClaimTTL = 1
    Retention = 1
    MaxReports = 3
    MaxRequestsPerHour = 2
    Hour = 2
    BaseCooldown = 0
    MaxCooldown = 0
    MaxDoublings = 16
    None = None
    Horizon = 1
    Time <- Clock
    LastRequest = 0
    MaxId = 2
    MaxFaults = 1
SYMMETRY DigestsAlike
INVARIANTS
    TrustIsOneRecord
    AppliesAreApprovedOnce
    RecordedIsKnown
PROPERTIES
    HeldFollowsRecord
    RecordsReplaceTheirBaseline
