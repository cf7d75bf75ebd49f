SPECIFICATION EdgesSpec
SYMMETRY Symmetry
CONSTANTS
    Horizon = 2
    Limit = 6
    Names = {n1, n2}
    Tokens = {t1}
    NoToken = NoToken
    None = None
    CodeTTL = 2
    MaxGuesses = 2
    EnrollTTL = 1
    AllowSynced = FALSE
    Found <- FoundLists
    EnrollTime <- EnrollClock
    MaxCodes = 2
    MaxChallenges = 2
    MaxBoots = 2
    MaxFaults = 1
    Requests <- Signed
    KnownRunners = {"r1"}
    MaxSkew = 1
    NonceTTL = 3
    MaxNonces = 2
    Steps = {1, 4}
    AuthTime <- AuthClock
    MaxAccepted = 2
    Entries <- MCEntries
    Data <- MCData
    Size <- MCSize
    Sources <- MCSources
    Unparsable = Unparsable
    Registry = Registry
    SchemaVars <- MCSchemaVars
    RunnerVars = {"r"}
    TfNames = {"a.tf", "b.tf", "c.tf"}
    StateNames = {"x.tfstate"}
    BadNames = {"bad"}
    Project <- MCProject
    SchemaFile <- MCSchemaFile
    Baselines <- MCBaselines
    NoTree = NoTree
    Refused = Refused
    Missing = Missing
    MaxFiles = 5
    MaxBytes = 4
    MaxShown = 2
    Schemas <- MCSchemas
    Manifests <- MCManifests
    RunnerNames = {"r"}
    MaxSafe = 4
    MaxEntries = 3
    DefaultLen = 2
    DefaultItems = 2
    Length <- Lengths
    Forbidden = {"bidi"}
    Plans <- MCPlans
    Strays <- MCStrays
    Controls <- MCControls
    Secrets = {"s"}
    MaxAddress = 5
    AppliedRecords <- MCApplied
    Reviews <- MCReviews
    Forgeries <- MCForgeries
    MaxWarnings = 3
    Absent = Absent
    Rejected = Rejected
    Contexts = {"one", "other"}
    MaxChanges = 2
INVARIANTS
    DeviceListsAgree
    CodesAreOneTime
    AckedTokensSurvive
    AcceptedOnce
    OperatorAgrees
    DiffTellsAll
    CanonicalIsFixed
    NeverInconsistent
    ShownIsTrue
    AppliedIsShown
CHECK_DEADLOCK FALSE
