\* Two commands of one lane and two generations on one storage: lane order, a
\* second enqueue racing the drain of the first, and the alarm's dispatch.
CONSTANTS
    c1 = c1
    c2 = c2
    i1 = i1
    r1 = r1
    NoIncarnation = NoIncarnation
    NoCommand = NoCommand
    Commands = {c1, c2}
    LaneOf <- MCLanes
    Incarnations = {i1}
    First = i1
    Requests = {r1}
    MaxNonterminal = 2
    WakeDispatch = TRUE
    MaxGen = 2
    MaxFence = 0
    MaxBilling = 0
SPECIFICATION Spec
SYMMETRY Symmetry
CHECK_DEADLOCK FALSE
INVARIANTS WakeNotLost
PROPERTIES LaneOrder
