SPECIFICATION FairSpec
CONSTANTS
    Runs = {1, 2}
    Processes = {p, q}
    NoProcess = none
    email = email
    wait = wait
    Actions = {email, wait}
    Waits = {wait}
    FirstPath <- EmailThenWait
    Batch = 1
    MaxAttempts = 2
    RetryDelay = 1
    WaitTime = 1
    LockTimeout = 1
    Bounds <- FewOfEach
INVARIANTS TypeOK RunIsAThread SentOnce LastLockerHolds NoStepForgotten
PROPERTIES EveryRunEnds
