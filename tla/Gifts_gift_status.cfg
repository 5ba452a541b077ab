CONSTANTS
    g1 = g1
    g2 = g2
    m1 = m1
    m2 = m2
    w1 = w1
    j1 = j1
    j2 = j2
    nobody = nobody
    NoMember = nobody
    GiftIds <- OneGift
    Members <- OneMember
    Webhooks <- NoWebhook
    CleanupJobs <- OneJob
    ReminderJobs <- NoJob
    MaxDeliveries = 1
    MaxAtWork = 2
    MaxErrors = 0
SPECIFICATION Spec

CHECK_DEADLOCK FALSE
INVARIANT GiftStatusEnds
