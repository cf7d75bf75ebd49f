SPECIFICATION EndsSpec
CONSTANTS
    Commands = {"a", "b"}
    Mixes <- MCMixes
    PollFailures = 2
    NoCert = NoCert
    p1 = p1
    p2 = p2
    Phones = {p1, p2}
    Topic = topic
    Wants <- OneListens
    MaxWindows = 1
    MaxAlerts = 3
    MaxRestarts = 1
    Callers = {c1, c2}
    Hosts = {h1}
    Keys = {k1}
    Wanted = {2}
    MaxWindow = 3
    PendingTTL = 2
    CertTTL = 3
    MaxRequestsPerHour = 2
    Hour = 4
    BaseCooldown = 1
    MaxCooldown = 2
    MaxDoublings = 16
    None = None
    Horizon = 2
    Time <- Clock
    LastRequest = 0
    MaxId = 6
INVARIANT NothingRanIsTrue
CHECK_DEADLOCK FALSE
