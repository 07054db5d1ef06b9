SPECIFICATION Spec
CONSTANTS
    Messages = {m1, m2}
    None = None
    Commands = {}
    MaxAttempts = 2
    MaxJobs = 5
    Faults = {"sweep"}
    MaxFaults = 1
SYMMETRY Symmetry
PROPERTY CapturedBeforeSettled
CHECK_DEADLOCK FALSE
