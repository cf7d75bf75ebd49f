SPECIFICATION JobsSpec
CONSTANTS
    p1 = p1
    r1 = r1
    r2 = r2
    Projects = {p1}
    Runners = {r1, r2}
    RunnerOf <- OneProject
    Digests = {d1}
    Schemas = {s1}
    PlanTimeout = 1
    ApprovalTTL = 3
    MaxPlanAge = 1
    ClaimTTL = 1
    Retention = 1
    MaxReports = 0
    MaxRequestsPerHour = 2
    Hour = 4
    BaseCooldown = 1
    MaxCooldown = 2
    MaxDoublings = 16
    None = None
    Horizon = 3
    Time <- Clock
    LastRequest = 1
    MaxId = 2
INVARIANTS
    OneJobAtATime
    LinesTellTheJob
PROPERTIES
    JobIsAnApproval
    ClaimsAreSound
    StrikesOnlyWhenAsked
