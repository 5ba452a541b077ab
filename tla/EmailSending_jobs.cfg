SPECIFICATION Spec
CONSTANTS
    j1 = j1
    j2 = j2
    j3 = j3
    j4 = j4
    q1 = q1
    q2 = q2
    q3 = q3
    Jobs = {j1, j2, j3, j4}
    Requests = {q1, q2, q3}
    NumPages = 1
    MaxBatches = 1
    MaxTries = 1
    MaxFaults <- LostReply
SYMMETRY Symmetry
INVARIANTS RepeatsOnlyByLostReplies OneActiveJobUnlessStale
CHECK_DEADLOCK FALSE
