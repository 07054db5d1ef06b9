SPECIFICATION Spec
CONSTANTS
    Messages = {m1, m2}
    None = None
    Commands = {c1}
    MaxAttempts = 2
    MaxJobs = 4
    Faults = {"crash", "sweep", "capture"}
    MaxFaults = 2
SYMMETRY Symmetry
INVARIANTS
    AttemptSentOnce
    ActiveTurnIsDriven
    FinalizingIsCaptured
CHECK_DEADLOCK FALSE
