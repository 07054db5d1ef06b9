SPECIFICATION FairSpec
CONSTANTS
    Sessions = {s1}
    Kinds <- MCKinds
    ReplayableKinds <- MCKinds
    Loops = {l1}
    Drains = {}
    Owners <- MCOwners
    NoOwner = NoOwner
    AnySession = AnySession
    BlockedKinds = {"send"}
    CancelSets <- MCCancelSets
    MaxJobs = 2
    LeaseTicks = 1
    GraceTicks = 1
    MaxAttempts = 2
    BaseDelay = 1
    MaxDelay = 1
    MaxFaults = 2
PROPERTIES
    LostClaimsStop
    JobsComeToRest
