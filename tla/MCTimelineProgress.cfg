\* As MCTimelineSync, with one event and a database that may be replaced.
CONSTANTS
    None = None
    Messages = {a, u}
    Users = {u}
    Platforms <- MCBoth
    PageSize = 1
    MaxDelta = 1
    MaxEvents = 1
    MaxEpoch = 1
    MaxFaults = 1
SPECIFICATION FairSpec
CHECK_DEADLOCK FALSE
INVARIANTS ShownFaithfully
PROPERTIES CatchesUp
