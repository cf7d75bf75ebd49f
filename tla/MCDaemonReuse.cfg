SPECIFICATION DaemonSpec
CONSTANTS
    p1 = p1
    r1 = r1
    h1 = h1
    Hosts = {h1}
    Keys = {k1}
    Wanted = {2}
    MaxWindow = 2
    PendingTTL = 1
    CertTTL = 2
    Projects = {p1}
    Runners = {r1}
    RunnerOf <- OneRunner
    Digests = {d1}
    Schemas = {s1}
    PlanTimeout = 1
    ApprovalTTL = 1
    MaxPlanAge = 1
    ClaimTTL = 1
    Retention = 1
    MaxReports = 1
    MaxRequestsPerHour = 2
    Hour = 2
    BaseCooldown = 1
    MaxCooldown = 2
    MaxDoublings = 16
    None = None
    Horizon = 1
    Time <- Clock
    LastRequest = 1
    MaxId = 2
    CeremonyTTL = 1
    Inherited <- NoLedger
    MaxStepBack = 0
    Faults <- OneCrash
PROPERTY NeverReused
