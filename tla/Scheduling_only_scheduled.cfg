CONSTANTS
    p1 = p1
    Posts <- OnePost
    End = 3
    MaxEdits = 4
    MaxFaults = 1
    MaxRotations = 1
    MaxPings = 2
    MaxTries = 1
SPECIFICATION Spec
CHECK_DEADLOCK FALSE
PROPERTY PublishesOnlyScheduled
