CONSTANTS
    g1 = g1
    g2 = g2
    m1 = m1
    m2 = m2
    w1 = w1
    j1 = j1
    j2 = j2
    nobody = nobody
    NoMember = nobody
    GiftIds <- OneGift
    Members <- TwoMembers
    Webhooks <- OneWebhook
    CleanupJobs <- OneJob
    ReminderJobs <- TwoJobs
    MaxDeliveries = 2
    MaxAtWork = 2
    MaxErrors = 1
SPECIFICATION Spec
SYMMETRY Symmetry
CHECK_DEADLOCK FALSE
INVARIANTS
    TypeOK
    AccessEndsUnlessStale
    PayingIsPaid
    MailedOnce
PROPERTY EndedGiftsStayEnded
