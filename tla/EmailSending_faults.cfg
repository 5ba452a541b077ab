SPECIFICATION FairSpec
CONSTANTS
    j1 = j1
    j2 = j2
    q1 = q1
    Jobs = {j1, j2}
    Requests = {q1}
    NumPages = 2
    MaxBatches = 2
    MaxTries = 2
    MaxFaults <- EveryFault
INVARIANTS TypeOK BatchMutex NoRepeatDelivery SubmittedIsHonest
PROPERTIES SubmittingEnds ImplementsDelivery
CHECK_DEADLOCK FALSE
