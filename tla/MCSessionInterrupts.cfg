SPECIFICATION FairSpec
CONSTANTS
    Messages = {m1}
    None = None
    Commands = {c1}
    MaxAttempts = 2
    MaxJobs = 6
    Faults = {"crash", "capture"}
    MaxFaults = 2
PROPERTY InterruptsAreAnswered
CHECK_DEADLOCK FALSE
