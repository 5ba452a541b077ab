------------------------------- MODULE Gifts -------------------------------
(***************************************************************************)
(* Gift subscriptions: a gift is bought, redeemed by a member, and ends by *)
(* being consumed, by expiring or by a refund.  Webhooks of the payment    *)
(* provider, members, the import of members and the daily jobs all write   *)
(* the same rows of gifts and members.                                     *)
(*                                                                         *)
(* A transaction that locks the rows it reads (forUpdate) is one action.   *)
(* What is read without a lock is kept by the caller, and used later.      *)
(***************************************************************************)
EXTENDS Integers, FiniteSets, Sequences

CONSTANTS
    GiftIds, Members, NoMember,
    Webhooks,      \* charge.refunded deliveries handled at the same time
    CleanupJobs, ReminderJobs, \* runs of the daily jobs at the same time
    MaxDeliveries, \* bound on the deliveries of one session at the same time
    MaxAtWork,     \* bound on the refunds and jobs at work at the same time
    MaxErrors      \* bound on the failures of transactions and handlers

ASSUME GiftAssumption ==
    /\ NoMember \notin Members
    /\ MaxDeliveries \in Nat /\ MaxAtWork \in Nat /\ MaxErrors \in Nat

VARIABLES
    gift,        \* the row of each gift
    clock,       \* how far expires_at is, from redemption on consumes_at
    status,      \* of each member
    tier,        \* the product row of each member: the gift it comes from
    subscribed,  \* members with an active paid subscription
    deliveries,  \* checkout.session.completed webhooks that found no gift
    refunds,     \* what each webhook has read
    activations, \* SubscriptionActivatedEvents whose handler is at work
    cleanup,     \* processConsumed and processExpired of each job
    reminding,   \* processReminders of each job
    cleaning,    \* clean-expired-comped: its stage, the rows and members it has read
    errors,      \* failures so far
    confirmed,   \* history: purchase confirmations sent for each gift
    reminders,   \* history: reminders sent for each gift
    stale,       \* history: gifts handled with what had changed since it was read
    overtaken    \* history: members made free who had changed since they were read

members  == <<status, tier, subscribed>>
webhooks == <<deliveries, refunds, activations>>
jobs     == <<cleanup, reminding, cleaning>>
history  == <<confirmed, reminders, stale, overtaken>>
vars     == <<gift, clock, members, webhooks, jobs, errors, history>>

GiftStatuses   == {"none", "purchased", "redeemed", "consumed", "expired", "refunded"}
MemberStatuses == {"free", "gift", "comped", "paid", "deleted"}

\* A date: far, so near that a reminder is due, past, past for a day.
Clock == <<"far", "soon", "past", "dayold">>
ClockValues == {Clock[i] : i \in 1..4}

Rows == [status : GiftStatuses, redeemer : Members \cup {NoMember},
         redeemed : BOOLEAN, consumed : BOOLEAN, expired : BOOLEAN,
         refunded : BOOLEAN, reminded : BOOLEAN]

NoGift ==
    [status |-> "none", redeemer |-> NoMember, redeemed |-> FALSE,
     consumed |-> FALSE, expired |-> FALSE, refunded |-> FALSE, reminded |-> FALSE]

Clean == [at |-> "idle", rows |-> {}, members |-> {}]

\* A member who comes with a gift is created in the transaction that redeems or
\* assigns it, and no different from one who was there before.
Init ==
    /\ gift = [g \in GiftIds |-> NoGift]
    /\ clock = [g \in GiftIds |-> "far"]
    /\ status = [m \in Members |-> "free"]
    /\ tier = [m \in Members |-> {}]
    /\ subscribed = {}
    /\ deliveries = [g \in GiftIds |-> 0]
    /\ refunds = [w \in Webhooks |-> <<>>]
    /\ activations = {}
    /\ cleanup = [j \in CleanupJobs |-> [at |-> "idle", list |-> {}]]
    /\ reminding = [j \in ReminderJobs |-> [at |-> "idle", list |-> {}, sending |-> {}]]
    /\ cleaning = Clean
    /\ errors = 0
    /\ confirmed = [g \in GiftIds |-> 0]
    /\ reminders = [g \in GiftIds |-> 0]
    /\ stale = {} /\ overtaken = {}

AtWork ==
    Cardinality({w \in Webhooks : refunds[w] # <<>>})
    + Cardinality({j \in CleanupJobs : cleanup[j].at # "idle"})
    + Cardinality({j \in ReminderJobs : reminding[j].at # "idle"})
    + Cardinality({c \in {cleaning} : c.at # "idle"})
MayStart == AtWork < MaxAtWork

Error == errors < MaxErrors /\ errors' = errors + 1

SetGift(g, row) == gift' = [gift EXCEPT ![g] = row]

SetMember(m, s, t) ==
    /\ status' = [status EXCEPT ![m] = s]
    /\ tier' = [tier EXCEPT ![m] = t]
    /\ UNCHANGED subscribed

\* memberRepository.update with the product of the gift and status "gift".  The
\* status of the call is used only if the member has no such product yet; and a
\* subscriber is refused a new one, with all of the transaction.
NewStatus(m) == IF m \in subscribed THEN {status[m]}
                ELSE IF tier[m] = {} THEN {"gift"} ELSE {"gift", status[m]}
Grant(m, g)  == \E s \in NewStatus(m) : SetMember(m, s, {g})

\* memberRepository.update with no product and status "free": the status of
\* the call is used only if there was a product to remove.
Revoke(m, products) == IF products # {} THEN SetMember(m, "free", {})
                       ELSE UNCHANGED members

\* A member with status "gift" loses it.  Mutants: whatever the status; nobody.
DowngradeAnyone(m) == IF m # NoMember /\ status[m] # "deleted" THEN Revoke(m, tier[m])
                      ELSE UNCHANGED members
KeepAccess(m) == UNCHANGED members
Downgrade(m)  == IF m # NoMember /\ status[m] = "gift" THEN Revoke(m, tier[m])
                 ELSE UNCHANGED members

-----------------------------------------------------------------------------
\* recordPurchase: is there a gift for this checkout session?  If not, create
\* one (the column is unique) and hand a confirmation to the mailer.

\* (A delivery that finds the gift changes nothing.)
Deliver(g) ==
    /\ gift[g].status = "none" /\ deliveries[g] < MaxDeliveries
    /\ deliveries' = [deliveries EXCEPT ![g] = @ + 1]
    /\ UNCHANGED <<gift, clock, members, refunds, activations, jobs, errors, history>>

\* Mutant: the row is written again by a second delivery.
CanAlwaysCreate(g) == TRUE
CanCreate(g)       == gift[g].status = "none"

Create(g) ==
    /\ deliveries[g] > 0
    /\ deliveries' = [deliveries EXCEPT ![g] = @ - 1]
    /\ IF CanCreate(g)
       THEN /\ SetGift(g, [NoGift EXCEPT !.status = "purchased"])
            /\ confirmed' = [confirmed EXCEPT ![g] = @ + 1]
       ELSE UNCHANGED <<gift, confirmed>>
    /\ UNCHANGED <<clock, members, refunds, activations, jobs, errors, reminders, stale, overtaken>>

-----------------------------------------------------------------------------
\* redeem, by a member who is "free", or by one who is created for it.
\* Mutant: no look at the member.

ByAnyone(row, m) == row.status = "purchased" /\ status[m] # "deleted"
IsRedeemable(row, m) ==
    /\ row.status # "none"
    /\ ~row.redeemed /\ ~row.consumed /\ ~row.expired /\ ~row.refunded
    /\ status[m] = "free"

Redeem(g, m) ==
    /\ IsRedeemable(gift[g], m)
    /\ Grant(m, g)
    /\ SetGift(g, [gift[g] EXCEPT !.redeemer = m, !.redeemed = TRUE,
                                  !.status = "redeemed"])
    /\ clock' = [clock EXCEPT ![g] = "far"]
    /\ UNCHANGED <<webhooks, jobs, errors, history>>

\* getActiveByMember
ActiveGifts(m) ==
    {g \in GiftIds : gift[g].status = "redeemed" /\ gift[g].redeemer = m}

\* reassignRedeemer: a member that is imported gets back the gift whose
\* redeemer was deleted.  Mutant: another gift of the member does not matter.
IsReassignableTo(row, m) ==
    /\ row.status = "redeemed" /\ row.redeemed
    /\ ~row.refunded /\ ~row.consumed /\ ~row.expired
    /\ row.redeemer = NoMember
    /\ status[m] \in {"free", "gift"}

MayHaveOtherGift(g, m) == TRUE
HasNoOtherGift(g, m)   == ActiveGifts(m) \subseteq {g}

Reassign(g, m) ==
    /\ IsReassignableTo(gift[g], m)
    /\ HasNoOtherGift(g, m)
    /\ Grant(m, g)
    /\ SetGift(g, [gift[g] EXCEPT !.redeemer = m])
    /\ UNCHANGED <<clock, webhooks, jobs, errors, history>>

-----------------------------------------------------------------------------
\* refund: the gift is read outside of the transaction, the member inside but
\* without a lock, and both rows are written from what was read.

ReadRefund(w, g) ==
    /\ refunds[w] = <<>> /\ MayStart
    /\ gift[g].status # "none" /\ ~gift[g].refunded
    /\ refunds' = [refunds EXCEPT ![w] = <<[gift |-> g, row |-> gift[g]]>>]
    /\ UNCHANGED <<gift, clock, members, deliveries, activations, jobs, errors, history>>

\* Status and product of the member, when the transaction begins.
Seen(m) == IF m = NoMember \/ status[m] = "deleted" THEN <<"deleted", {}>>
           ELSE <<status[m], tier[m]>>

BeginRefund(w) ==
    /\ Len(refunds[w]) = 1
    /\ refunds' = [refunds EXCEPT ![w] = Append(@, Seen(@[1].row.redeemer))]
    /\ UNCHANGED <<gift, clock, members, deliveries, activations, jobs, errors, history>>

\* Mutant: a status the schema does not know.
RefundRow(row)   == [row EXCEPT !.status = "refund", !.refunded = TRUE]
RefundedRow(row) == [row EXCEPT !.status = "refunded", !.refunded = TRUE]

\* The foreign key refuses a redeemer who was deleted in between.
WriteRefund(w) ==
    /\ Len(refunds[w]) = 2
    /\ LET g == refunds[w][1].gift  row == refunds[w][1].row
           m == row.redeemer        seen == refunds[w][2] IN
       IF m # NoMember /\ status[m] = "deleted"
       THEN UNCHANGED <<gift, members, stale>>
       ELSE /\ SetGift(g, RefundedRow(row))
            /\ IF seen[1] = "gift" THEN Revoke(m, seen[2]) ELSE UNCHANGED members
            /\ stale' = IF gift[g] # row \/ Seen(m) # seen THEN stale \cup {g}
                        ELSE stale
    /\ refunds' = [refunds EXCEPT ![w] = <<>>]
    /\ UNCHANGED <<clock, deliveries, activations, jobs, errors, confirmed, reminders,
                   overtaken>>

FailRefund(w) ==
    /\ refunds[w] # <<>> /\ Error
    /\ refunds' = [refunds EXCEPT ![w] = <<>>]
    /\ UNCHANGED <<gift, clock, members, deliveries, activations, jobs, history>>

-----------------------------------------------------------------------------
\* Subscriptions and members.

\* A member starts to pay; the event is handled afterwards.
Subscribe(m) ==
    /\ m \notin subscribed
    /\ status[m] \in {"free", "gift", "comped"}
    /\ status' = [status EXCEPT ![m] = "paid"]
    /\ subscribed' = subscribed \cup {m}
    /\ activations' = activations \cup {[member |-> m, gift |-> {}]}
    /\ UNCHANGED <<gift, clock, tier, deliveries, refunds, jobs, errors, history>>

\* A later webhook of the subscription writes the status that it gives.
Renew(m) ==
    /\ m \in subscribed /\ status[m] # "paid"
    /\ status' = [status EXCEPT ![m] = "paid"]
    /\ UNCHANGED <<gift, clock, tier, subscribed, webhooks, jobs, errors, history>>

\* getActiveByMember, in the handler of SubscriptionActivatedEvent
FindGift(a) ==
    /\ a.gift = {}
    /\ LET rest == activations \ {a} found == ActiveGifts(a.member) IN
       IF found = {} THEN activations' = rest
       ELSE \E g \in found : activations' = rest \cup {[a EXCEPT !.gift = {g}]}
    /\ UNCHANGED <<gift, clock, members, deliveries, refunds, jobs, errors, history>>

\* consume, with a row lock.  Mutant: a gift whose member is gone is left alone.
HasRedeemer(row) == row.status = "redeemed" /\ row.redeemer # NoMember
IsRedeemed(row)  == row.status = "redeemed"

ConsumedRow(row) == [row EXCEPT !.status = "consumed", !.consumed = TRUE]

ConsumeForPaid(a) ==
    /\ \E g \in a.gift :
         IF IsRedeemed(gift[g])
         THEN /\ SetGift(g, ConsumedRow(gift[g]))
              /\ stale' = IF gift[g].redeemer # a.member THEN stale \cup {g} ELSE stale
         ELSE UNCHANGED <<gift, stale>>
    /\ activations' = activations \ {a}
    /\ UNCHANGED <<clock, members, deliveries, refunds, jobs, errors, confirmed, reminders,
                   overtaken>>

\* An error of the handler is only logged.
FailActivation(a) ==
    /\ Error
    /\ activations' = activations \ {a}
    /\ UNCHANGED <<gift, clock, members, deliveries, refunds, jobs, history>>

\* The subscription ends, long after its start was handled.  Its tier goes;
\* the tier of the gift stays if it is another one.
Cancel(m) ==
    /\ m \in subscribed /\ \A a \in activations : a.member # m
    /\ subscribed' = subscribed \ {m}
    /\ \/ status' = [status EXCEPT ![m] = "free"] /\ tier' = [tier EXCEPT ![m] = {}]
       \/ tier[m] # {} /\ status' = [status EXCEPT ![m] = "comped"] /\ UNCHANGED tier
    /\ UNCHANGED <<gift, clock, webhooks, jobs, errors, history>>

\* A member is deleted: the foreign key becomes null.
Delete(m) ==
    /\ status[m] # "deleted"
    /\ status' = [status EXCEPT ![m] = "deleted"]
    /\ tier' = [tier EXCEPT ![m] = {}]
    /\ subscribed' = subscribed \ {m}
    /\ gift' = [g \in GiftIds |-> IF gift[g].redeemer # m THEN gift[g]
                                  ELSE [gift[g] EXCEPT !.redeemer = NoMember]]
    /\ UNCHANGED <<clock, webhooks, jobs, errors, history>>

-----------------------------------------------------------------------------
\* clean-expired-comped, another daily job, in a worker: four queries, each on
\* its own, without a transaction or a lock.

\* The rows that are past for a day, and whose they are.
Over == {r \in Members \X GiftIds : r[2] \in tier[r[1]] /\ clock[r[2]] = "dayold"}

SelectExpired ==
    /\ cleaning.at = "idle" /\ MayStart /\ Over # {}
    /\ cleaning' = [at |-> "selected", rows |-> Over, members |-> {r[1] : r \in Over}]
    /\ UNCHANGED <<gift, clock, members, webhooks, cleanup, reminding, errors, history>>

DeleteExpired ==
    /\ cleaning.at = "selected"
    /\ tier' = [m \in Members |-> {g \in tier[m] : <<m, g>> \notin cleaning.rows}]
    /\ cleaning' = [cleaning EXCEPT !.at = "deleted", !.rows = {}]
    /\ UNCHANGED <<gift, clock, status, subscribed, webhooks, cleanup, reminding, errors,
                   history>>

\* (Without comped members the job has ended.)
SelectComped ==
    /\ cleaning.at = "deleted"
    /\ LET comped == {m \in cleaning.members : status[m] = "comped"} IN
       cleaning' = IF comped = {} THEN Clean
                   ELSE [at |-> "comped", rows |-> {}, members |-> comped]
    /\ UNCHANGED <<gift, clock, members, webhooks, cleanup, reminding, errors, history>>

\* By id: what the members are by now does not matter.
UpdateComped ==
    /\ cleaning.at = "comped"
    /\ LET listed == {m \in cleaning.members : status[m] # "deleted"} IN
       /\ status' = [m \in Members |-> IF m \in listed THEN "free" ELSE status[m]]
       /\ overtaken' = overtaken \cup {m \in listed : status[m] # "comped" \/ tier[m] # {}}
    /\ cleaning' = Clean
    /\ UNCHANGED <<gift, clock, tier, subscribed, webhooks, cleanup, reminding, errors,
                   confirmed, reminders, stale>>

\* A query fails, or the worker is cancelled between two of them.
FailCleaning ==
    /\ cleaning.at # "idle" /\ Error
    /\ cleaning' = Clean
    /\ UNCHANGED <<gift, clock, members, webhooks, cleanup, reminding, history>>

-----------------------------------------------------------------------------
\* The daily clean-up: a list is read, then each gift of it is looked at again
\* in a transaction of its own.  An error ends processConsumed or
\* processExpired, not both.

\* The job ends with the last gift of its second list.
SetCleanup(j, at, list) ==
    cleanup' = [cleanup EXCEPT
        ![j] = [at |-> IF at = "expire" /\ list = {} THEN "idle" ELSE at, list |-> list]]

ClockIsPast(g) == clock[g] \in {"past", "dayold"}

Due     == {g \in GiftIds : gift[g].status = "redeemed" /\ ClockIsPast(g)}
Expired == {g \in GiftIds : gift[g].status = "purchased" /\ ClockIsPast(g)}

StartCleanup(j) ==
    /\ cleanup[j].at = "idle" /\ MayStart /\ Due \cup Expired # {}
    /\ SetCleanup(j, "consume", Due)
    /\ UNCHANGED <<gift, clock, members, webhooks, reminding, cleaning, errors, history>>

ConsumeOne(j, g) ==
    /\ cleanup[j].at = "consume" /\ g \in cleanup[j].list
    /\ SetCleanup(j, "consume", cleanup[j].list \ {g})
    /\ IF IsRedeemed(gift[g])
       THEN SetGift(g, ConsumedRow(gift[g])) /\ Downgrade(gift[g].redeemer)
       ELSE UNCHANGED <<gift, members>>
    /\ UNCHANGED <<clock, webhooks, reminding, cleaning, errors, history>>

StartExpiry(j) ==
    /\ cleanup[j].at = "consume" /\ cleanup[j].list = {}
    /\ SetCleanup(j, "expire", Expired)
    /\ UNCHANGED <<gift, clock, members, webhooks, reminding, cleaning, errors, history>>

\* Mutant: the gift of the list is expired without another look.
MayExpireAny(row) == TRUE
MayExpire(row)    == row.status = "purchased"

ExpireOne(j, g) ==
    /\ cleanup[j].at = "expire" /\ g \in cleanup[j].list
    /\ SetCleanup(j, "expire", cleanup[j].list \ {g})
    /\ IF MayExpire(gift[g])
       THEN SetGift(g, [gift[g] EXCEPT !.status = "expired", !.expired = TRUE])
       ELSE UNCHANGED gift
    /\ UNCHANGED <<clock, members, webhooks, reminding, cleaning, errors, history>>

FailCleanup(j) ==
    /\ cleanup[j].list # {} /\ Error
    /\ SetCleanup(j, cleanup[j].at, {})
    /\ UNCHANGED <<gift, clock, members, webhooks, reminding, cleaning, history>>

-----------------------------------------------------------------------------
\* processReminders.  A gift is marked in a transaction before the email goes
\* out, so that a reminder may be lost but not sent twice.

SetReminding(j, at, list, sending) ==
    reminding' = [reminding EXCEPT
        ![j] = [at |-> IF at = "mark" /\ list = {} THEN "idle" ELSE at,
                list |-> list, sending |-> sending]]

ToRemind == {g \in GiftIds : /\ gift[g].status = "redeemed" /\ clock[g] = "soon"
                             /\ ~gift[g].reminded}

StartReminders(j) ==
    /\ reminding[j].at = "idle" /\ MayStart /\ ToRemind # {}
    /\ SetReminding(j, "mark", ToRemind, {})
    /\ UNCHANGED <<gift, clock, members, webhooks, cleanup, cleaning, errors, history>>

MayRemind(row) == row.status = "redeemed" /\ ~row.reminded /\ row.redeemer # NoMember

\* A member who gets no email is marked as well.
Mark(j, g) ==
    /\ reminding[j].at = "mark" /\ g \in reminding[j].list
    /\ IF MayRemind(gift[g])
       THEN /\ SetGift(g, [gift[g] EXCEPT !.reminded = TRUE])
            /\ \E takesEmail \in BOOLEAN :
                 IF takesEmail THEN SetReminding(j, "send", reminding[j].list \ {g}, {g})
                 ELSE SetReminding(j, "mark", reminding[j].list \ {g}, {})
       ELSE /\ SetReminding(j, "mark", reminding[j].list \ {g}, {})
            /\ UNCHANGED gift
    /\ UNCHANGED <<clock, members, webhooks, cleanup, cleaning, errors, history>>

Send(j) ==
    /\ reminding[j].at = "send"
    /\ reminders' = [g \in GiftIds |-> IF g \in reminding[j].sending THEN reminders[g] + 1
                                       ELSE reminders[g]]
    /\ SetReminding(j, "mark", reminding[j].list, {})
    /\ UNCHANGED <<gift, clock, members, webhooks, cleanup, cleaning, errors, confirmed,
                   stale, overtaken>>

\* The mailer or a transaction fails: on to the next gift.
FailReminder(j) ==
    /\ Error
    /\ \/ /\ reminding[j].at = "send"
          /\ SetReminding(j, "mark", reminding[j].list, {})
       \/ /\ reminding[j].at = "mark"
          /\ \E g \in reminding[j].list :
               SetReminding(j, "mark", reminding[j].list \ {g}, {})
    /\ UNCHANGED <<gift, clock, members, webhooks, cleanup, cleaning, history>>

-----------------------------------------------------------------------------
\* Time, and the end of the process: what was being handled is forgotten.

\* No further than it matters to the gift or to a member.
Tick(g) ==
    /\ gift[g].status \in {"purchased", "redeemed"} \/ \E m \in Members : g \in tier[m]
    /\ \E i \in 1..3 : clock[g] = Clock[i] /\ clock' = [clock EXCEPT ![g] = Clock[i + 1]]
    /\ UNCHANGED <<gift, members, webhooks, jobs, errors, history>>

Crash ==
    /\ Error
    /\ deliveries' = [g \in GiftIds |-> 0]
    /\ refunds' = [w \in Webhooks |-> <<>>]
    /\ activations' = {}
    /\ cleanup' = [j \in CleanupJobs |-> [at |-> "idle", list |-> {}]]
    /\ reminding' = [j \in ReminderJobs |-> [at |-> "idle", list |-> {}, sending |-> {}]]
    /\ cleaning' = Clean
    /\ UNCHANGED <<gift, clock, members, history>>

Next ==
    \/ \E g \in GiftIds : Deliver(g) \/ Create(g) \/ Tick(g)
    \/ \E g \in GiftIds, m \in Members : Redeem(g, m) \/ Reassign(g, m)
    \/ \E w \in Webhooks, g \in GiftIds : ReadRefund(w, g)
    \/ \E w \in Webhooks : BeginRefund(w) \/ WriteRefund(w) \/ FailRefund(w)
    \/ \E m \in Members : Subscribe(m) \/ Renew(m) \/ Cancel(m) \/ Delete(m)
    \/ \E a \in activations : FindGift(a) \/ ConsumeForPaid(a) \/ FailActivation(a)
    \/ \E j \in CleanupJobs, g \in GiftIds : ConsumeOne(j, g) \/ ExpireOne(j, g)
    \/ \E j \in CleanupJobs : StartCleanup(j) \/ StartExpiry(j) \/ FailCleanup(j)
    \/ \E j \in ReminderJobs, g \in GiftIds : Mark(j, g)
    \/ \E j \in ReminderJobs : StartReminders(j) \/ Send(j) \/ FailReminder(j)
    \/ SelectExpired \/ DeleteExpired \/ SelectComped \/ UpdateComped \/ FailCleaning
    \/ Crash

Spec == Init /\ [][Next]_vars

CleanupStep(j) ==
    \/ StartCleanup(j) \/ StartExpiry(j)
    \/ \E g \in GiftIds : ConsumeOne(j, g) \/ ExpireOne(j, g)

\* The job runs every day, and a job that runs goes on.
FairSpec == Spec /\ \A j \in CleanupJobs : WF_vars(CleanupStep(j))

-----------------------------------------------------------------------------

TypeOK ==
    /\ gift \in [GiftIds -> Rows] 
    /\ clock \in [GiftIds -> ClockValues]
    /\ status \in [Members -> MemberStatuses]
    /\ tier \in [Members -> SUBSET GiftIds] /\ subscribed \subseteq Members
    /\ deliveries \in [GiftIds -> 0..MaxDeliveries]
    /\ \A w \in Webhooks : Len(refunds[w]) \in 0..2
    /\ activations \subseteq [member : Members, gift : SUBSET GiftIds]
    /\ cleanup \in [CleanupJobs -> [at : {"idle", "consume", "expire"}, list : SUBSET GiftIds]]
    /\ reminding \in [ReminderJobs -> [at : {"idle", "mark", "send"}, list : SUBSET GiftIds,
                               sending : SUBSET GiftIds]]
    /\ cleaning \in [at : {"idle", "selected", "deleted", "comped"},
                    rows : SUBSET (Members \X GiftIds), members : SUBSET Members]
    /\ errors \in 0..MaxErrors /\ overtaken \subseteq Members /\ stale \subseteq GiftIds
    /\ confirmed \in [GiftIds -> Nat] /\ reminders \in [GiftIds -> Nat]

\* A gift is not used after it has ended: it goes from bought to redeemed to
\* consumed, or expires before it is redeemed, or is refunded at any time, and a
\* refund is the last thing that happens to it.
GiftMoves ==
    {<<"none", "purchased">>, <<"purchased", "redeemed">>, <<"purchased", "expired">>,
     <<"redeemed", "consumed">>}
    \cup {<<s, "refunded">> : s \in {"purchased", "redeemed", "consumed", "expired"}}

EndedGiftsStayEnded ==
    [][\A g \in GiftIds :
         \/ gift'[g].status = gift[g].status
         \/ <<gift[g].status, gift'[g].status>> \in GiftMoves]_vars

\* A purchase is confirmed once, however often its webhook is delivered, and no
\* two runs of the job send the same reminder.
MailedOnce == \A g \in GiftIds : confirmed[g] <= 1 /\ reminders[g] <= 1

\* As long as no event of a paid subscription was lost, nothing had changed since
\* it was read, and nothing was refunded (the refund of a gift that has ended
\* takes the access that another one gives, and lets its member redeem a third).
Undisturbed ==
    errors = 0 /\ stale = {} /\ \A g \in GiftIds : gift[g].status # "refunded"

\* A member uses one gift at a time, however redemption, import, subscriptions and
\* their late events meet, except for whom clean-expired-comped has overtaken.
OneActiveGift ==
    Undisturbed => \A m \in Members \ overtaken : Cardinality(ActiveGifts(m)) <= 1

\* The redeemer of a gift that still runs has access, with the gift's tier or as
\* a paying member, with the same exceptions.
HasAccess(m) ==
    \A g \in ActiveGifts(m) : \/ status[m] = "paid"
                              \/ status[m] = "gift" /\ (ClockIsPast(g) \/ tier[m] = {g})
GiftGivesAccess == Undisturbed => \A m \in Members \ overtaken : HasAccess(m)

\* Who is a gift member, and has the tier, redeemed a gift that has not ended
\* (unless a refund wrote over the row it had not read).
AccessEndsUnlessStale ==
    stale = {} => \A m \in Members :
        status[m] = "gift" /\ tier[m] # {} => ActiveGifts(m) # {}

\* Whoever pays is a paid member, whatever the jobs, refunds and imports did in
\* between, with two exceptions: a refund was written from what had changed since
\* it was read, or clean-expired-comped, which updates by id, made a member free
\* who was comped when it read and pays by now.
PayingIsPaid ==
    stale = {} => \A m \in subscribed \ overtaken : status[m] = "paid"

\* The status "gift" ends with the gift (the code does not keep this).
GiftStatusEnds == \A m \in Members : status[m] = "gift" => ActiveGifts(m) # {}

\* A gift whose time is over is not "redeemed" for ever, whatever becomes of
\* its redeemer.
EveryGiftEnds ==
    \A g \in GiftIds : gift[g].status = "redeemed" /\ ClockIsPast(g)
                         ~> gift[g].status # "redeemed"

=============================================================================
