SPECIFICATION Spec
CONSTANTS
    Sessions = {s1}
    Kinds <- MCKinds
    ReplayableKinds <- MCKinds
    Loops = {l1}
    Drains = {d1}
    Owners <- MCOwners
    NoOwner = NoOwner
    AnySession = AnySession
    BlockedKinds = {"send"}
    CancelSets <- MCCancelSets
    MaxJobs = 2
    LeaseTicks = 1
    GraceTicks = 0
    MaxAttempts = 2
    BaseDelay = 1
    MaxDelay = 1
    MaxFaults = 1
INVARIANTS
    TypeOK
    OneRunningPerSession
    SucceededJobsRan
    CancelledFibersLostTheirClaim
    NoLeakedCancellations
PROPERTIES
    KeepsLane
    SettledStays
    RecordedByItsRunner
