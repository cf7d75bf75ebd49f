SPECIFICATION GrantsSpec
SYMMETRY Symmetry
CONSTANTS
    Hosts = {h1, h2}
    Keys = {k1}
    Wanted = {1, 3}
    MaxWindow = 2
    PendingTTL = 2
    CertTTL = 2
    MaxRequestsPerHour = 2
    Hour = 2
    BaseCooldown = 1
    MaxCooldown = 3
    MaxDoublings = 16
    None = None
    Time <- Clock
    LastRequest = 3
    MaxId = 4
INVARIANTS
    SshTypeOK
    RequestsAreAnswered
    ApprovalsStand
    RequestsAreLimited
PROPERTIES
    SshIsAnApproval
    KillStopsHost
