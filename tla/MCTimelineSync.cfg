\* A desktop and a phone, a message of the agent and one of the user, two events
\* (so that a message can be rewritten or rolled back), one fault.
CONSTANTS
    None = None
    Messages = {a, u}
    Users = {u}
    Platforms <- MCBoth
    PageSize = 1
    MaxDelta = 1
    MaxEvents = 2
    MaxEpoch = 0
    MaxFaults = 1
SPECIFICATION Spec
CHECK_DEADLOCK FALSE
INVARIANTS TypeOK NoGap ShownFaithfully
