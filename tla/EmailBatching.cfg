SPECIFICATION Spec
CONSTANTS
    MaxId = 5
    EmailId = 5
    BatchSize = 2
    Limits <- WarmupLimits
    MaxChanges = 1
INVARIANTS TypeOK StableMembersOnce CountsAreSent
CHECK_DEADLOCK FALSE
