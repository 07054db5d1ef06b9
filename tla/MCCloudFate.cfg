\* One command whose leases can expire and be handed out again, on two storages,
\* with one archive.  The environment may stop: no deadlock check.
CONSTANTS
    c1 = c1
    i1 = i1
    i2 = i2
    r1 = r1
    NoIncarnation = NoIncarnation
    NoCommand = NoCommand
    Commands = {c1}
    LaneOf <- MCLanes
    Incarnations = {i1, i2}
    First = i1
    Requests = {r1}
    MaxNonterminal = 2
    WakeDispatch = FALSE
    MaxGen = 2
    MaxFence = 1
    MaxBilling = 0
SPECIFICATION Spec
CHECK_DEADLOCK FALSE
INVARIANTS TypeOK ArchiveReachesMailbox
PROPERTIES KeepsFate
