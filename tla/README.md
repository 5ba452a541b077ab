# A formal model of Ghost's background services

This directory holds TLA+ modules for parts of Ghost 6.46 (the Node server under
`src/ghost/core/core`), TLC configurations that check them on small instances,
and TLAPS proofs of the results that matter most. The models were written from
the source; `PROJECT.json` names, for every definition, the lines it stands for.

Ghost is a content-management server: one Node process (sometimes several)
over a MySQL or SQLite database. Most of its 200,000 lines are HTTP plumbing,
rendering and CRUD. What is hard to get right and hard to test is what runs in
the background: jobs, pollers, queues and timers that share database rows with
requests, send email through a provider, and are interrupted by crashes,
errors, timeouts and retries. That is what is modelled first.

To repeat the checks: `tlc -config X.cfg M` with the module and configuration of
a run of `PROJECT.json`, and `tlapm M.tla` for each module `M` whose name ends in
`_proofs`.

## Inventory

Paths are relative to `src/ghost/core/core/server/services` unless they say
otherwise. "Shared" state is in the database; the rest is in the memory of one
process and is lost with it.

### What runs concurrently, and what it shares

| Component | State | Operations | Interacts with | What is hard | What makes it correct |
|---|---|---|---|---|---|
| Newsletter sending (`email-service`) | `emails.status`, `email_batches`, recipients (shared); queue and runners of each job | create and retry an email; take the email, create batches, take a batch, call the provider, save outcomes | Admin API requests, the job queue, Mailgun | retries while a job runs, lost answers, partial failure, crashes, two runners per job | no member gets it twice by the service's own doing; nobody is forgotten; the status tells the truth; it can be retried |
| Newsletter batching (`email-service`) | members (shared, changing), pages and counts of one job | segments, pages, the split at the warm-up limit | members, newsletter sending | members change between pages; off-by-ones at a page and at the limit | every stable member is in one batch; batches fit; counts are what was sent |
| Automations (`automations`) | runs and step rows with locks (shared); poll flag, timers | trigger, poll, lock, execute, retry, follow, edit | sign-ups, mailer, scheduler adapter, other processes | expired locks under live workers, requests for a poll during a poll, crashes, retries | a run is one thread; emails are bounded; no step is forgotten |
| Gifts (`gifts`) | gift rows, product row and status of the member (shared) | purchase, redeem, reassign, refund, consume, expire, remind | Stripe webhooks, members, import, daily jobs | stale reads in the refund, duplicated webhooks, two daily jobs over the same rows | access lasts as long as the gift; paying members lose nothing; one email each |
| Scheduled posts (`post-scheduling`, `adapters/scheduling`) | timers and tombstones of the adapter; `posts.status` (shared) | schedule, reschedule, unschedule, ping, bootstrap | post model events, the API that publishes | a ping races an edit; tombstones; restart; retries | a post is published once, at its time, and never after it was unscheduled |
| Outbox (`outbox`) | `outbox` rows (shared), `processing` flag | fetch, process, retry, fail | cron | a crash or a failed write leaves `processing` rows | every entry ends; handled once |
| Email analytics (`email-analytics`) | last-event timestamps, jobs table (shared), fetch state | fetch latest, missing, scheduled; aggregate; cancel | Mailgun events, recipients | windows that overlap or leave gaps; cancel while fetching | no event is missed; counts are idempotent |
| URL service (`url`) | resources, generators, URL map | queue events, reservations, regenerate | models, routing, settings | asynchronous queue with subscribers; a resource that moves between generators | one owner per resource; the map is up to date when the queue is drained |
| Caches (`adapters/cache`, `shared/settings-cache`, link redirects, `lib/auto-filling-map`) | cached values with their age | get, background refresh, reset | Redis, models | a reset races a fill | a stale value is not stored over a reset |
| Auth and single-use tokens (`auth`, `members/.../single-use-token-provider`) | tokens with use counts (shared) | create, validate, expire | sign-in requests | simultaneous validation of the same token | a token is used no more often than allowed |
| Memberships (`stripe/services/webhook`, `members/.../member-repository.js`) | copies of the subscriptions, status and tiers of the member, revenue events (all shared) | webhooks, link a subscription, change it from the site, grant access | Stripe, the member, the admin | webhooks repeated, reordered and handled at a time; unlocked reads of tiers | the copy is what Stripe has; who pays has access and who does not has none |
| Members and their events (`members`, `members-events`) | member rows, last-seen cache | sign-in, import, last-seen updates | requests | simultaneous first sign-ins; a cache older than the row | one row per address |
| Offers, tiers (`offers`, `tiers`) | offers, redemptions, tiers | create, update, redeem | Stripe, members | redemption recorded by two paths | redemptions are counted once |
| Mentions (`mentions`, `mentions-jobs`) | mentions with a verified flag | receive, verify, delete, send | other sites, jobs | the target changes while it is verified | verified means it links here |
| Milestones (`milestones`) | milestones with an email date | check members and revenue | staff emails | a check runs twice; the first run | one email for a milestone, none for an imported one |
| Job wrapper (`jobs`, `shared/one-at-a-time.ts`) | inline queue, schedules | add, run, shut down | all of the above | several inline jobs run at once | one poll at a time; a request is not lost |

### Reads, rendering and plumbing

Members' CRUD, comments, recommendations, attribution, donations, themes,
routing, rendering (`koenig`, `email-rendering`), statistics, notifications,
permissions, settings, storage, the models, the HTTP layers, the front end and
the command line keep no protocol of their own between requests. Each is a
component of `PROJECT.json` with the reason why it is not modelled; the parts
that act on modelled state (a member who subscribes, a post that is edited)
enter the modules as actions.

The hazards of the code are listed in `PROJECT.json` with the line where they
bite and the properties that would catch them going wrong. Where the guard of a
property excludes a hazard, the hazard names no property, and its note says why.

## Plan

Done, in this order: newsletter sending and its abstract specification;
batching; automation steps; gifts; scheduled posts; memberships; email analytics;
each with the proofs of its invariants and action properties.

Next, the most important first:

1. `AutomationGraph`: validation of an edited graph as an operator, against a
   reference definition (the graph is a path from the trigger) over all small
   graphs.
2. `Outbox`, `SingleUseTokens`, `UrlService`, `LastSeenAt`, and the caches.
3. An abstract specification of an automation run (a thread that stops or goes
   on) that `AutomationSteps` implements, with a refinement mapping and a proof.
4. The statistics of members in `EmailAnalytics`, and what it does with an
   unsubscription that is fetched again.

Each module has one action per operation, its bounds as constants with named
assumptions, and no RECURSIVE operator, so that it can be proved about.

## Newsletter sending: `EmailSending`, `BatchDelivery`

**Code.** `email-service/batch-sending-service.js`, `email-service.js`,
`email-controller.js`; `@tryghost/job-manager` (external) runs jobs.

**State.** `emailStatus` is `emails.status`; `rows`, `page` and `batchStatus`
are the table `email_batches` (a batch remembers which page of members it
holds); each job has a program counter `jobPc`, the array of batches it sends
and the queue of its two runners; a runner has its own counter, its batch and
the tries of `retryDb`; `request` is a retry request between loading the email
and acting on it. `accepted` and `ambiguous` are history: how often the provider
took a batch, and how often it did while the service saw an error.

**Actions.** `CreateEmail`, `LoadForRetry`, `RetryEmail` are the requests;
`LockEmail` (`emailJob` and `updateStatusLock`), `LoadBatches`, `CreateBatch`,
`BatchesCreated`, `RunnersSettled`, `SaveEmailSubmitted`, `SaveEmailFailed` are
a job; `TakeBatch`, `LockBatch`, `CallProvider`, `SaveBatchSubmitted`,
`SaveBatchFailed`, `MarkProcessed` a runner. The awaits of the code separate
them; a transaction that reads `FOR UPDATE` and writes is one action. `Crash`
ends everything in the process. Every database call may fail for good (fault
"error") or take effect while its answer is lost, so that `retryDb` makes it
again ("reply"); the provider may refuse a batch, or take it and answer with an
error ("provider").

**Abstract specification.** `BatchDelivery` says what sending in batches
promises: a batch is open, claimed by one sender, or settled; delivery is
confirmed at most once; a batch is released only if it was not confirmed; a
settled batch does not move. `EmailSending!Delivery` instantiates it (pending
and failed are open, submitting is claimed, submitted is settled; confirmed is
what the provider took less what was ambiguous).

**Properties and runs.**

- `email_faults` (2 jobs, 1 retry request, 2 pages, 2 tries, one error, two
  provider faults and one crash; with fairness): `BatchMutex`,
  `NoRepeatDelivery`, `SubmittedIsHonest`, the refinement `ImplementsDelivery`,
  and `SubmittingEnds`. Two jobs are enough for two runners of different jobs to
  meet at a batch, two pages for one to fail and one to succeed.
- `email_jobs` (4 jobs, 3 retry requests, one page, a lost answer):
  `RepeatsOnlyByLostReplies` and `OneActiveJobUnlessStale`: more jobs than
  requests can be at work only if a request used a stale status.
- `email_every_page` expects a violation; see the finding.

**Guards in the properties.** `Reliable` means that no answer of a committed
write was lost. It is needed: `retryDb` repeats a write of "failed" after
another sender has taken the batch, and mutual exclusion is lost;
`RepeatsOnlyByLostReplies` bounds what this costs. `staleRetry` means that a
retry overwrote a status other than the "failed" it had loaded.

**Fairness.** Weak fairness of the steps of each job and runner: Node runs a
callback that is due. Nobody is forced to retry, and faults are bounded, so that
`SubmittingEnds` excludes the runs in which the database or the process failed:
with them the email may stay in "submitting" for ever, and the code does nothing
about it.

**Finding.** The messages at `batch-sending-service.js:6` and `:7` say that a
failed email can be retried to send the rest. When `createBatches` fails half
way, the retry takes the batches that exist for all there are (`:219`) and the
members of the other pages never get the email, which ends as "submitted"
(`email_every_page`).

The comment at `batch-sending-service.js:143` says the lock "makes sure an email
can only have one active job". `retryEmail` (`email-service.js:206`) writes
"pending" on the strength of a status loaded before two awaits; if a job has
taken the email meanwhile, a second one takes it too, which is why
`OneActiveJobUnlessStale` excludes such retries. The locks of the batches still
prevent repeated deliveries, which is what `NoRepeatDelivery` shows.

### Proofs: `EmailSending_proofs`

For any sets of jobs and requests and any bounds (the assumptions are
`NumPagesAssumption`, `BatchesAssumption`, `TriesAssumption`,
`FaultsAssumption` of `EmailSending`):

- `Typing`: the type invariant.
- `BatchMutex_holds`, `NoRepeatDelivery_holds`, `RetryableNotDelivered_holds`:
  three safety invariants; the last, that a batch which may be taken again was
  not delivered as far as the service knows, is no property of a run.
- `RepeatsOnlyByLostReplies_holds`: also when answers are lost.
- `OneActiveJobUnlessStale_holds` and `SubmittedIsHonest_holds`: what the status
  of the email promises about its jobs and its batches.
- `SubmittedBatchIsFinal_holds`: a batch that is submitted stays so, an action
  property that is no property of a run either.
- `ImplementsDelivery_holds`: with no lost answers (`MaxFaults["reply"] = 0`),
  the specification implements `BatchDelivery`.

None of these invariants is inductive. `DeliveryInv` says what is known of a
batch as long as answers are not lost: at most one runner holds it; whoever
holds it finds it "submitting"; and the number of deliveries the service knows
of is 0 for a batch that is absent, open, or in the hands of a runner that has
not called the provider, 1 for one that is submitted or whose runner has just
sent it, and at most 1 for one left in "submitting" by a crash or a failed
write. Each step that moves a batch has a lemma; `Quiet` covers the steps that
touch no batch and release no runner. The action property and the refinement
follow from the invariant: `StatusMoves` lists how a status may move, and each
of the `Simulate` lemmas maps one action to a step of `BatchDelivery` or a
stutter.

With lost answers `DeliveryInv` is false, and `RepeatsInv` counts instead. What a
batch has spent is its deliveries, and one more while it is open; its credit is
one, its ambiguous deliveries and the lost answers. What is spent, with the
runners that may still call the provider for the batch, stays within the credit:
a runner gets that far only by closing an open batch, and only a lost answer
opens a batch behind a runner's back.

`ActiveInv` says that a job which has taken the email keeps it "submitting", so
that no other finds it free. `HonestInv` describes a run in which only the
provider makes trouble (`Clean`): the pages become rows one by one in the hands
of the only job that creates (`Pages`); the runners at work are those of the only
job that sends, each with a batch of its own that has left the queue (`Hands`);
and what a job counts as sent are batches that are submitted and out of the hands
of its runners (`Counts`), so that a job that counts all of them has sent all of
them.

## Batching: `EmailBatching`

**Code.** `createBatches` and `getBatchMembers` of
`batch-sending-service.js`, `getSegments` of `email-renderer.js`.

**State and actions.** Members are ids in the order of creation, each in a group
(free, paid with or without access to the post) or not a recipient.
`FetchPage` is one turn of the loop: the query (newest first, one more than
fits), the split at the domain warm-up limit, the cursor; `CorrectCounts` the
end. `ChangeMember` is any change of a member between two queries.

**Run.** `email_batching`: four members older than the email and one that is
newer, batches of two, all segmentations and limits below, inside and above the
audience, one change in the middle. `StableMembersOnce`, `CountsAreSent`. Two members in a batch and four in the
audience give full, partial and empty last pages, and a limit of 1 or 3 is
reached inside a page. Deadlock is not checked: batching ends. Left out: how the
limit is computed from earlier emails, and the members without an id, uuid or
address whom `createBatch` (`:407`) skips and `:375` still counts; the three
columns are NOT NULL.

### Proofs: `EmailBatching_proofs`

For any number of members, any size of a page and any warm-up limit
(`BatchingAssumption`): `Typing`, `StableMembersOnce_holds`,
`CountsAreSent_holds`.

- `Stable_inductive`: the pages have passed the members of the segments before
  the current one, and those of the current one from the cursor `lastId` on
  (`Passed`); a member whom nobody changed is in exactly one batch if it was
  passed, and in none otherwise. The lemmas about a page (`Newest(S, n)` are the
  n newest of S, `Oldest` its cursor) say that it passes the members it puts in
  batches and no others, also when the limit splits it.
- `Counted_inductive`: what is in batches of the custom domain is the smaller of
  the limit and of all that was counted, and all batches hold what was counted;
  `Sent` counts the rows of recipients, so that the cardinality of disjoint
  members is what a page adds.

## Automations: `AutomationSteps`

**Code.** `automations/poll.ts`, `database-automations-repository.ts`,
`service.js`, `automations-api.ts`, `shared/one-at-a-time.ts`.

**State.** `steps[r]` are the rows of `automation_run_steps` of a run: action,
status, time until it is ready, who holds the lock and for how long, attempts.
Each process has a poll (`phase`), the flag of `oneAtATime` (`queued`), the
`processStep` calls it has under way (`workers`) and the polls it gave to its
scheduler adapter (`timers`). The automation has a path of actions and a status;
`member` is what a step looks at in the member.

**Time** is relative: a row is so many ticks from ready, a lock so many ticks
old. This keeps the state space finite without a clock. `Bounds` are the
combinations of what may happen: so many faults of each kind, expired locks that
are taken over, sign-ups and edits.

**Actions.** `Trigger`, `Fetch`, `Stop`, `Go`, `Send`, `SendFails`, `Finish`,
`HandleFailure`, `EndPoll`, `Fire`, `Edit`, `ChangeMember`, `Crash`, `Restart`,
`Tick`; `FetchFails`, `StopFails`, `FinishFails`, `HandleFailureFails`,
`FireFails` are the same calls failing without effect ("error") or taking effect
with their answer lost ("reply"). The order in which ready rows are chosen is
left open (any subset of the size of a batch). The lock id of a poll is its
process: a process has one poll at a time and its workers die with it.

**Runs.**

- `automation_faults` (two processes, an email and a wait, batches of one; with
  fairness): `RunIsAThread`, `SentOnce`, `LastLockerHolds`, `NoStepForgotten`,
  `EveryRunEnds`. The bounds are alternatives: one run with a crash, an
  expired lock and a failed query, a lost answer or a lost call of the scheduler;
  one run and an edit of the automation, or a change of the member; two runs,
  more than a batch holds. Two processes are
  what it takes for a late worker to meet the one that took its row over.

`SentOnce` says how often a step may send its email: once, once more for each
failed query, for each lost answer and for each lock that was taken over, and
never more than `MaxAttempts` times. An email is sent before the row is finished,
so the code cannot promise less: a worker that is late, or that dies after it
sent, leaves a row that the next one executes again.

**Fairness.** Weak fairness of `Tick`, of `Fire`, and of what each process does
next (`Fetch`, `Work`, `EndPoll` or `Restart`): time passes, the event loop runs
what is due, queries and the mailer answer, and a dead process is started again.
Nobody is forced to sign up or to edit. `EveryRunEnds` and `NoStepForgotten` are about runs without faults
(refusals of the mailer, expired locks and edits are not faults): after a fault a step
may wait for a poll somebody else asks for, a hazard that is listed and that no
comment or test promises against.

### Proofs: `AutomationSteps_proofs`

For any number of runs, processes, actions, attempts and faults, all safety
properties of `automation_faults` hold. The assumptions are those of
`AutomationAssumption`: the runs are finitely many numbers, and no action occurs
twice in the first path (`validateGraph` lets only such graphs through).

- `Typing`. `Typed` adds to `TypeOK` that no action occurs twice in the path:
  then at most one step follows a step, and a run grows by at most one row.
- `LastLockerHolds_holds`, from `WorkersFit`: a process has workers only while a
  poll is at work, one for each row, and the attempt of a worker is one that the
  row has seen. So a lock that is taken over has a higher attempt, and the late
  worker's updates find another lock id.
- `RunIsAThread_holds`. A row is added by a worker that owns the row it finishes,
  which is pending, therefore the last of its run.
- `NoStepForgotten_holds`. As long as nothing failed, every row is `Watched`: a
  worker of the process that locked it has it in hand, or a poll is coming
  `Soon`. `WorkerWatches` shows that what a worker adds or puts off is in the
  date of its poll, `EndPoll` that the date outlives the poll, and `FetchWatches`
  that what a poll left behind is in its date, or that it polls again at once.
- `SentOnce_holds`, from `Sent`. The invariant is a budget: what a row has sent,
  the attempts that may send or be tried again (`Trying`), and one more while
  nobody holds the row (`Free`) are no more than one and the faults so far
  (`Charged`); and what was sent with the attempts that may still send
  (`Sending`) is no more than the attempts, up to `MaxAttempts` (`Attempted`).
  A poll turns a free row into an attempt, or an expired lock pays for it; a
  worker sends or gives its attempt back, and only a failed query or a lost
  answer lets it do both. `Separate` (two workers of a row have different
  attempts) makes the attempts countable.

What a step does to the rows is stated once for each operation (`TerminatedIs`,
`FailureIs`, `FinishedIs`, `LockedIs`, `OlderIs`, `TriggeredIs`) and for the
workers (`WorkStep`); the invariants are proved from these.

## Gifts: `Gifts`

**Code.** `gifts/gift-service.ts`, `gift.ts`, `gift-bookshelf-repository.ts`,
`gift-service-wrapper.js`, `members/jobs/clean-expired-comped.js`, and as much
of `member-repository.js` as these call.

**State.** `gift` are the rows; `clock` says how far the date that matters next
is: `expires_at` of a gift that was bought, `consumes_at` of one that was
redeemed (and of the access it gave); `status`, `tier` (the product row, by the
gift it comes from) and `subscribed` describe the members. What is read
without a lock is kept where the code keeps it: `deliveries` are checkout
webhooks that found no gift, `refunds` what a refund has read, `activations` the
handlers of `SubscriptionActivatedEvent`, `cleanup` and `reminding` the lists of
the daily jobs of gifts, `cleaning` the rows and members that
`clean-expired-comped` has read. `stale` and `overtaken` are history.

**Actions.** A transaction with row locks is one action: `Create`, `Redeem`,
`Reassign`, `ConsumeForPaid`, `ConsumeOne`, `ExpireOne`, `Mark`. A refund is
three (`ReadRefund` outside of the transaction, `BeginRefund` reads the member
without a lock, `WriteRefund`). `Grant` and `Revoke` are the calls of
`memberRepository.update`, which uses the status it is given only when there is
a product to add or to remove, and refuses a product to a subscriber.
`clean-expired-comped` runs in a worker, without a transaction or a lock, and is an
action for each of its queries: `SelectExpired` reads the product rows that are
over, `DeleteExpired` deletes them, `SelectComped` reads which of their members are
comped, `UpdateComped` makes these free by id, whatever they are by then;
`FailCleaning` ends it in between. `Subscribe`, `Renew` (a later webhook of the
subscription), `Cancel` and `Delete` are what members do. Emails to staff, tokens
and the timers of `gift-reminder-scheduler.ts` are left out; Stripe is assumed
to be configured; an administrator does not edit the products of a gift member.

**Runs.**

- `gifts_one_gift` (one gift, two members, two deliveries of the webhook, a
  refund, a clean-up of gifts, `clean-expired-comped` and two reminder jobs, one
  failure or crash): `AccessEndsUnlessStale`, `PayingIsPaid`, `MailedOnce`,
  `EndedGiftsStayEnded`. `MaxAtWork` lets any two of the refund and the jobs be at
  work at a time, beside deliveries, members and handlers: every pair of actors
  meets at every step. The properties hold with three at a time as well (3.4
  million states).
- `gifts_two_gifts` (two gifts and members, a clean-up of gifts and
  `clean-expired-comped`, with fairness): `OneActiveGift`, `GiftGivesAccess`,
  `EveryGiftEnds`. The invariants also hold with a refund beside the jobs (6.9
  million states); the run has none, so that liveness can be checked in time.
- `gifts_gift_status` expects a violation; see the finding.

**Guards in the properties.** Each stands for something the code does, of which no
comment or test says that it cannot; they are hazards and not findings.

- `stale`: gifts that a refund or a handler wrote with what had changed since it
  was read. A gift that is redeemed between the read of a refund and its write
  leaves the redeemer with the tier; a member who starts to pay in between becomes
  free.
- `overtaken`: members whom `clean-expired-comped` made free although they had
  changed since it read them. A comped member whose access ran out may start to
  pay, or redeem a gift, between the query at `clean-expired-comped.js:55` and the
  update at `:63`, which does not look at the status again: he pays and is free,
  until a later webhook of his subscription writes the status or for good. That is
  why `PayingIsPaid`, `OneActiveGift` and `GiftGivesAccess` except these members.
- `Undisturbed`, for the last two: no event of a subscription was lost, nothing is
  `stale`, and nothing was refunded. A refund downgrades by the status alone
  (`gift-service.ts:483`), so that the refund of a gift that was consumed before
  takes the access of a second gift the member now uses, and lets him redeem a
  third.

**Fairness.** Weak fairness of the steps of the clean-up: the job runs every day
and one that runs goes on.

**Finding.** `clean-expired-comped.js:37` deletes the expired product rows of
gift members too. If it runs before `processConsumed`, that job's downgrade finds
no product to remove and the status it asks for is ignored: the member stays
"gift" for ever, where the comment at `:43` and the test
`gift-service.test.ts:514` expect "free" (`gifts_gift_status`).

### Proofs: `Gifts_proofs`

For every set of gifts, members, webhooks and jobs, and every bound on
deliveries, errors and what is at work at a time (`GiftAssumption`), all safety properties of the two runs hold:

- `Typing`. `Typed` adds to `TypeOK` that a row has the date its status asks for
  (`Dated`; so a gift without dates, which is what `checkRedeemable` looks for,
  has the status "purchased"), and that a refund has read the row of a gift that
  is there, and a status "gift" only of a redeemer (`RefundStates`).
- `EndedGiftsStayEnded_holds`. `Moves` goes through the writers of a row:
  `MayBecome` says which status may follow, and that a gift which needs no
  reminder does not come to need one.
- `MailedOnce_holds`, from `Confirmed` (a gift without a row was not confirmed)
  and `Reminded` (a reminder that is being sent, or was, has left its mark or
  the gift has ended; two jobs do not send the same one).
- `PayingIsPaid_holds` and `AccessEndsUnlessStale_holds`, from `AllHeld`: for
  each member also that as long as the start of his subscription is being
  handled he pays or is gone. Without this a handler could consume the gift of a
  member who is a gift member again. `FreshRefund` shows that a refund whose reads
  still hold does what the clean-up does (`EndsAny`).
  `Held` excepts the members whom `clean-expired-comped` has overtaken; `Cleaned`
  says that its update makes no other member free than those who are comped, and
  without a tier, when it is executed.
- `OneActiveGift_holds` and `GiftGivesAccess_holds`, from `AllSingle`: who uses a
  gift has the status "gift", and the tier until its time is over, or pays while a
  handler has not looked for the gift yet or has found it; and who is free has no
  tier. `TiersOfGifts` and `RowsOver` are what the separate queries of
  `clean-expired-comped` need: a tier comes from a gift that was redeemed, and the
  rows the job has read are of gifts that have been over for a day and that nobody
  can redeem any more, so that what it deletes later is no access of a new gift.

`QuietSteps` names the steps that matter to members; all others leave their rows,
their gifts and their events alone.

## Scheduled posts: `Scheduling`

**Code.** `adapters/scheduling/scheduling-default.js` and `utils.js`,
`post-scheduling/post-scheduling.ts`, `posts/post-scheduling.js`,
`api/endpoints/schedules.js`, `auth/reset-authentication.ts`, the events and the
validation of `models/post.js`, the bulk action of `posts/posts-service.js`, and
the end of `initServices` in `boot.js`.

**State.** `posts` are the rows (status and `published_at`); `waiting`,
`sleeping` and `tombstones` are the adapter's memory as bags of jobs: `allJobs`,
the timers of `_execute`, `deletedJobs`. A job is its post, its time and the key
that signs its URL: the token is a function of these until six hours after the
time, which is longer than a run. `pings` are requests under way: sent (or
waiting for the next try after a 503), or with the post read and about to be
saved; `fresh` says that the `updated_at` they read is still there. `rotation` is
`resetAuthentication` from its commit on. `leftover` and `disturbed` are history.

**Time.** The unit is five minutes: the period of the loop, the tolerance of the
publishing request, and half of the offset from which a job gets a timer. Time
does not pass while a timer is due or a request or a rotation is under way: these
take seconds (30 tries at 5 seconds at most). Whether a request carries `force` at
its very time is left open, as it depends on milliseconds.

**Actions.** `Schedule`, `Reschedule`, `Unschedule`, `PublishNow`, `Unpublish`,
`Delete`, `Touch` are saves of the model with the handler of the event they emit;
the handler waits for a cached key only and runs in the same action.
`BulkUnschedule` is a plain UPDATE. `Tick` includes the loop of the adapter;
`Fire` is a timer that goes off; `Read` and `Publish` are the two halves of the
publishing request, `Fail` and `Busy` its failures; `Crash`, `Boot`; `Rotate`,
`Load`, `Reissue`.

**Runs.**

- `scheduling_post` (one post, three instants, four requests of authors, a crash
  or a failed request, one repetition after a 503, two requests under way, one
  rotation; with fairness): `ScheduledHasJob`, `NeverEarly`,
  `UnscheduledStaysDraft`, `EveryScheduledIsPublished`. Jobs of different posts
  share nothing but the clock, so one post is enough. Three instants hold two
  dates and the one that is too early for the second; four requests schedule a
  post, move it, move it back and unschedule it, after which two jobs and two
  tombstones must cancel.
- `scheduling_only` expects a violation; see the finding.

**Guards in the properties.** `leftover` are posts that left "scheduled" and may
still have a job: unscheduled in bulk, published by hand, or published by a
request older than the rotation that gave them a new job; the job may publish
them if they become drafts again before it goes off. `disturbed` are posts edited
while a request for them or a rotation was under way, or whose request failed: an
edit between `Read` and `Publish` makes the save fail with 409, the request is not
repeated, and the post stays scheduled until the next boot; an edit before the
jobs are issued again can leave two jobs, or a tombstone too many. Nothing in the
repository promises otherwise, so these are hazards. A crash forgets all of it,
with the memory.

**Fairness.** Weak fairness of `Tick` and of what the process does by itself
(timers, requests, boot, the end of a rotation). That a dead process is started
again is an assumption about the site.

**Left out.** The change of a post into a page or back (`models/post.js:407`),
which unschedules it as the one and schedules it as the other: a job under another
URL, made from the previous attributes. Tokens that expire, and the locking of
users and sessions in `resetAuthentication`.

**Finding.** `PublishesOnlyScheduled` fails: the endpoint passes the status
"scheduled" (`schedules.js:34`) to a read that has no such option, and publishes
whatever post the URL names. Posts that are unscheduled from the list (an UPDATE
that emits no event, `posts-service.js:120`) keep their job, and their
`published_at`, now null, passes both comparisons with the current time: the
draft is published at the old date. `posts/post-scheduling.js:14` says
"Publishes scheduled resource".

### Proofs: `Scheduling_proofs`

For any posts, any number of instants, edits, crashes, failed requests, rotations
and requests under way (`SchedulingAssumption`): `Typing`,
`ScheduledHasJob_holds`, `NeverEarly_holds`, `UnscheduledStaysDraft_holds`.

The invariant (`JobsInv`) is an account of the bags. The surplus of a job is its
copies that wait or sleep, less its tombstones: what will go off in the end.

- `EnoughJobs`: no job to come, under the current key, has more tombstones than
  copies, and that of a scheduled post has a copy more. This is
  `ScheduledHasJob`, and inductive because a tombstone is only made for a copy
  that the account contains.
- `NoJobTooMany`: only the job of a scheduled post at its date, with the key that
  was current when the post was loaded or saved, may go off, once, and not while
  its request is under way. `PingedIsNoDraft` follows the request: no save since
  it was sent went unnoticed. Together they give `UnscheduledStaysDraft`.
- `CheckedIsDue`: the date that a request has compared still stands, unless the
  collision check will refuse its save. This is `NeverEarly`.
- `DownIsEmpty`, `TombstonesOfKeys`, `LoadedIsCurrent`: a process that is down
  holds nothing; there is no tombstone of a key to come; and what a rotation
  loaded is still the date of the post, or the post is `disturbed`.

## Memberships: `Memberships`

**Code.** `stripe/services/webhook/*-event-service.js`, and of
`members/members-api/repositories/member-repository.js` `create`, `update`,
`upsertCustomer`, `linkSubscription`, `updateSubscription`,
`cancelSubscription`, `removeComplimentarySubscription`.

**State.** `stripe` and `invoices` are Stripe's; `events` counts the webhooks it
has still to deliver. One member and one customer: `member` is his status,
`linked` the row of the customer, `products` his tiers, `rows` the copies of his
subscriptions, `mrr` the sum of `mrr_delta`, `payments` the payment events.
`tasks` are the requests Ghost works on, each with its step and what it has read:
the subscriptions still to be linked, the answer of Stripe, the tiers it is about
to write. `lock` is the row of the member, held `FOR UPDATE`.

**Actions.** `Checkout`, `Change`, `Renew` happen at Stripe. `InvoiceEvent`,
`SubscriptionEvent`, `CheckoutEvent` begin a webhook, in any order; a webhook that
throws (`Fail`, `CreateTwice`) or whose answer is missed (`again`) is delivered
again. `BeginLink` and `CommitLink` are the two halves of `linkSubscription`,
around the request to Stripe; `IsPaid` to `WriteProducts` are
`removeComplimentarySubscription`, which holds no row; `RequestChange` and
`Grant`/`WriteGrant` are requests of the member and the admin.

**Run.** `memberships`: two subscriptions, two tiers (one with a trial), two
requests at a time, and three things that happen: a checkout, a change, a grant,
a renewal, a failure, a repeated delivery. Two subscriptions are what it takes
for one to hold a tier that the other one loses, or for a paid one to replace a
complimentary one; with two requests each read can be outdated once. Subscriptions
and handlers are symmetric, and no liveness is checked. A state where all is
answered stutters explicitly (`Quiet`), so that a handler that waits for ever
would be a deadlock.

- `SettledRowsMatch`: once all webhooks are answered, the copies are what Stripe
  has. It rests on the row of the member being locked before Stripe is asked.
- `LedgerIsMrr`: the deltas of the revenue add up to the revenue in the row.
- `AccessAgreesUnlessStale`: status, tiers and active subscriptions agree, unless
  `removeComplimentarySubscription` or `update` wrote tiers from an outdated read
  (`stale`): both read without a lock, and undo what was linked in between.
- `PaymentsAreRegistered`: every paid invoice in the end, and only a repeated
  delivery twice.
- `FreeAccessOnlyIfSkipped`: who neither pays nor was given access has none.
  `skipped` is the exception the model found: a subscription changes from tier A
  to tier B and ends before either webhook is handled. The one link that sees
  both removes tier B alone (`member-repository.js:1529`): the member keeps tier A
  as a comped member for good, although the comment at `:1457` says of a change
  of plan that the previous product is deleted from the member.

**Left out.** Offers, attribution, newsletters of a new member, donations, the
price of a coupon, several members with one address.

### Proofs: `Memberships_proofs`

For any tiers, prices, subscriptions, handlers and number of moves (from
`MembershipsAssumption` and `NoneAssumption`), all six invariants of the run:
`Typing`, `LedgerIsMrr_holds`, `AccessAgreesUnlessStale_holds`,
`FreeAccessOnlyIfSkipped_holds`, `PaymentsAreRegistered_holds` and
`SettledRowsMatch_holds`.

They rest on one inductive invariant, `Sound`: the types, the ledger (without
which the sum of the deltas need not be a natural number) and `TasksFit`, what
the step of a task says about the rest (who links has a customer, who commits
knows what Stripe answered, who writes a grant was sent by the admin, an invoice
is never a task). It has one lemma for each action; `SoundTask` serves those that
write nothing of Ghost.

- Access and free access are inductive relative to `Sound`. `Writers` says that
  only four actions can disturb them; `LiveAfterLink` what a commit makes of the
  tiers that are paid for.
- Payments are a balance: `Booked` says that what is registered and what is
  still to be delivered add up to what is paid and what is delivered again.
- That the rows settle is the deepest. `Fresh` says that a subscription which is
  not copied is awaited: its event is not delivered yet, or the handler of its
  event has yet to ask Stripe or has the last answer (`Pending`); or it has no row
  and somebody will sign it up (`SignsUp`). It also says that a handler about to
  write an answer that no longer holds (`Behind`) leaves something pending. The
  row lock is what makes this inductive: without it a second handler with the
  older answer may commit after the one that carried the newer state, as in the
  mutant `NotWaiting` of `RowIsFree`.


## Email analytics: `EmailAnalytics`

**Code.** `email-analytics/email-analytics-service.js`, its wrapper and
`lib/queries.js`, `lib/mailgun-client.js`, `email-service/email-event-storage.js`,
and two endpoints of `api/endpoints/emails.js`.

**State.** Mailgun's storage shows an event (`shown`) some time after it
happened. `stored` are the events Ghost has recorded, `pending` those of a batch
that is not flushed, `counted` those that the statistics of their emails include.
Each job has a cursor in memory (`last`) and in the table `jobs` (`finished`,
`started`). `schedule` and `metadata` are the requested window, in memory and in
the table. `turn` and `used` are `startFetch`; `fetch` is `#fetchEvents`: its
window, the domains still to be read, what came, what is still to be aggregated.

**Actions.** `Start`, `Skip`, `FetchEvents`, `ReadPage`, `DomainDone`, `EndFetch`
and `FetchThrows` are the job; `AggregateMeanwhile` the statistics in the middle
of a fetch; `PageFails` a failure of Mailgun or the database; `Request`, `Cancel`
the endpoints; `Crash` the end of the process; `Show`, `Tick` Mailgun and time.
Windows end at least a minute ago, so that the tests of the code for events of
the last two seconds, or newer than the fetch, are left out. Writes that the code
does not wait for (`setJobTimestamp` of the begin, `setJobMetadata`) take effect
at once.

**Run.** `email_analytics`: three events of two emails at two times, pages of
two, a limit of three, two failures, crashes or requests; batched from one
domain, or one by one from two domains. An event shows up to four ticks late, and
the clock goes just far enough for the latest jobs to pass an event which the
missing one must find.

- `NothingIsPassedUnlessJumped`: the jobs for missing events and for a requested
  window move their cursors past recorded events only. Its exceptions are real:
  the second that the cursor moves on by (`Shadowed`); several domains behind one
  cursor, when one of them ends early (`jumped`); a batch that could not be
  flushed, is kept in memory, and dies with the process (`lost`). Without any one
  of them TLC finds an event that is never fetched. With three moves instead of
  two the invariants hold as well (3.1 million states).
- `StatsAgreeUnlessFailed`: the statistics include an event that was recorded,
  once the saved cursor of the job that counts it is past it: the job of the opens
  for opens, that of the missing events for the others. It holds at any time, also
  in the middle of a fetch or after a crash there. Its exceptions: counting failed
  (`failed`); an open that was found by another job than that of the opens, which
  never counts it (`late`: `includeOpenedEvents` is false in the other jobs); a
  cursor that jumped; and the events within the second that the job of the missing
  ones moves on by (`Shadowed`).
- `EveryFetchEnds`: a fetch begins again at once while there are many events, or
  a window has some; it still ends. The fairness is that of the event loop
  (`Work`): what was started goes on.

A window restored after a restart begins at the cursor that was saved last, of
whatever window (`foreign`); the property excludes it as `jumped`.

**Left out.** The statistics of members, which the same calls update; the first
fetch of a site without rows in `jobs`; the lookup of recipients; what storage does
with unsubscriptions, complaints and failures beyond recording them. An
unsubscription that a second job fetches again is applied again, also to a member
who has subscribed again meanwhile (`email-event-storage.js:178` compares no
times); nothing in the repository speaks of it.

### Proofs: `EmailAnalytics_proofs`

For any number of events at any times, any size of a page and of the budget, any
windows and any number of failures (`AnalyticsAssumption`; `NoneAssumption`, that
`None` is no value of another kind): `Typing`,
`NothingIsPassedUnlessJumped_holds`, `StatsAgreeUnlessFailed_holds`. The
assumption that matters is that fewer events than the budget happen in one
instant: a fetch that took its budget within one would begin there again.

- `Types`: beyond `TypeOK`, how a fetch relates to its window and its cursor.
- `Reads(f, l, c, b, S, G)`: of the events of `S` in its window, the fetch `f`
  has put into `G` what it has read: in the order of time in the domain at work
  (`InOrder`), all of the domains before it unless it was cut short
  (`ToTheEnd`), and with a single domain all before the cursor `l`
  (`NoneBehind`). Lemmas say what a page, a failure and the end of a domain add to
  it. The same operator serves both theorems, with other sets.
- `Passing`: all that happened before a cursor (in memory, saved at the begin or
  at the end, or where the fetch under way began) is recorded, waits in memory,
  was lost with it, or is `Shadowed`; for a requested window, what is in the
  window. `SavedPassed` says that a saved window goes with its own cursor, which
  is why a restored one of another window counts as `jumped`.
- `Tally`: an event that is recorded and not counted is at or after every cursor
  of the job that counts it; what the fetch of this job has read is counted or to
  be counted (`Tallying`); opens recorded in time are over a minute old
  (`OpensAreOver`), so that no window of the opens ends before them.

The proof of `StatsAgreeUnlessFailed` failed at first for a reason. The property
had no exception for `Shadowed` events, and held on the three events of the run;
TLC finds a counterexample with four (times 1, 2, 4, 2, a clock up to 9). The job
for missing events passes an event by its extra second; a requested window records
it later, and the process ends before the window has counted it. Only
another event of the same email would make it count. The exception was added, and the property extended to the middle
of a fetch, where it had said nothing. The strengthened invariants were checked by
TLC on both instances (1.3 million states on the larger) before they were proved.

## What is proved, what is only checked

Proved for every value of the constants: every invariant, every action property
and the refinement that a passing run checks, in all seven components. Each
theorem is about the specification as it stands; its only hypotheses are the named
assumptions of the module, and for `ImplementsDelivery_holds` that no answer is
lost.

Only checked on the bounds of the runs: liveness (`SubmittingEnds`,
`EveryRunEnds`, `EveryGiftEnds`, `EveryScheduledIsPublished`, `EveryFetchEnds`).
The proofs would need the rule for fairness, which reasons about `ENABLED`, and
that is out of reach of the prover. The runs that expect a violation are
counterexamples and need no proof.

The faults, retries, edits and deliveries are bounded in every run, and each
bound is a constant named in its module. Where a property excludes some fault,
the property says so in its guard, and this file says why.

Every property of a passing run has a mutant in `PROJECT.json`: a plausible bug
in one definition under which TLC finds the property violated.

## What is not modelled

The components of `PROJECT.json` with status `not_modelled`, each with its
reason. In the modelled parts: the content of emails and of
automation actions, how the warm-up limit is computed, how the audience is
filtered, tokens and staff emails of gifts, the reminder timers, and what the
sections on batching, scheduled posts, memberships and email analytics leave out.
