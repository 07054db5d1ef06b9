SPECIFICATION Spec
CONSTANTS
    Messages = {m1, m2}
    None = None
    Commands = {c1}
    MaxAttempts = 2
    MaxJobs = 4
    Faults = {"archive", "duplicate", "sweep", "capture"}
    MaxFaults = 1
SYMMETRY Symmetry
INVARIANTS
    TypeOK
    OneOpenTurn
    SuccessorFollowsCurrent
    NoMessageLost
    NoMessageTwice
CHECK_DEADLOCK FALSE
