\* One command, one generation that may fail in every way and one that does not,
\* one billing hold.
CONSTANTS
    c1 = c1
    i1 = i1
    r1 = r1
    NoIncarnation = NoIncarnation
    NoCommand = NoCommand
    Commands = {c1}
    LaneOf <- MCLanes
    Incarnations = {i1}
    First = i1
    Requests = {r1}
    MaxNonterminal = 2
    WakeDispatch = FALSE
    MaxGen = 2
    MaxFence = 0
    MaxBilling = 1
SPECIFICATION FairSpec
CHECK_DEADLOCK FALSE
PROPERTIES EventuallyDecided
