---------------------------- MODULE EmailSending ----------------------------
(***************************************************************************)
(* Sending one newsletter email: the rows of the tables emails and         *)
(* email_batches, the background jobs of BatchSendingService that work on  *)
(* them, and the requests of the Admin API that create and retry the       *)
(* email.  The database is shared; jobs, runners and requests are threads  *)
(* of one Node process (or of several), which interleave at every await.   *)
(*                                                                         *)
(* A call to the database or to the provider that goes through retryDb is  *)
(* one step with three outcomes: it answers; it takes effect, its answer   *)
(* is lost and retryDb makes it again (fault "reply"); it fails for good   *)
(* without effect (fault "error").  A failed try without effect that is    *)
(* made again is a stutter.                                                *)
(***************************************************************************)
EXTENDS Naturals, FiniteSets

CONSTANTS
    Jobs,       \* identities of background jobs: one per scheduleEmail
    Requests,   \* retry requests of the Admin API
    NumPages,   \* pages of members that createBatches fetches
    MaxBatches, \* bound on the rows of email_batches
    MaxTries,   \* tries of one provider call (MAILGUN_API_RETRY_CONFIG)
    MaxFaults   \* how many faults of each kind may happen

FaultKinds == {"error", "reply", "provider", "crash"}

ASSUME NumPagesAssumption == NumPages \in Nat
ASSUME BatchesAssumption  == MaxBatches \in Nat
ASSUME TriesAssumption    == MaxTries \in Nat \ {0}
ASSUME FaultsAssumption   == MaxFaults \in [FaultKinds -> Nat]

VARIABLES
    emailStatus, \* emails.status ("none" before the email is created)
    rows,        \* number of rows in email_batches: the ids in use are 1..rows
    page,        \* page of members that the recipients of a batch are
    batchStatus, \* email_batches.status
    accepted,    \* how often the provider took the messages of a batch
    ambiguous,   \* ... while the service was told that the call failed
    jobPc,       \* where each job is
    nextPage,    \* page that createBatches of a job fetches next
    batches,     \* the array "batches" of a job
    queue,       \* what sendBatches of a job has not handed to a runner
    succeeded,   \* succeededCount of a job
    runnerPc,    \* where each of the runners of a job is
    runnerBatch, \* the batch a runner holds
    tries,       \* provider calls a runner has made for its batch
    request,     \* "new", the email status a retry request loaded, or "done"
    staleRetry,  \* history: a retry overwrote a status other than "failed"
    faults       \* faults so far, by kind

emailVars  == <<emailStatus, staleRetry>>
batchVars  == <<rows, page, batchStatus, accepted, ambiguous>>
jobVars    == <<jobPc, nextPage, batches, queue, succeeded>>
runnerVars == <<runnerPc, runnerBatch, tries>>
vars == <<emailVars, batchVars, jobVars, runnerVars, request, faults>>

Workers   == Jobs \X {1, 2}   \* MAX_SENDING_CONCURRENCY runners per job
Batches   == 1..MaxBatches

\* The statuses in which updateStatusLock may take an email or a batch.
\* Mutant: it forgets that another job is at work.
AllowedWhileSubmitting == {"pending", "failed", "submitting"}
AllowedStatuses        == {"pending", "failed"}

EmailStates  == {"none", "pending", "submitting", "submitted", "failed"}
JobStates    == {"idle", "queued", "load", "create", "send",
                 "save_submitted", "save_failed", "done"}
RunnerStates == {"idle", "next", "lock", "send", "save_submitted",
                 "save_failed", "mark_submitted", "mark_failed",
                 "finished", "threw"}

TypeOK ==
    /\ emailStatus \in EmailStates
    /\ rows \in 0..MaxBatches
    /\ page \in [Batches -> 0..NumPages]
    /\ batchStatus \in [Batches -> EmailStates]
    /\ accepted \in [Batches -> Nat]
    /\ ambiguous \in [Batches -> Nat]
    /\ jobPc \in [Jobs -> JobStates]
    /\ nextPage \in [Jobs -> 1..(NumPages + 1)]
    /\ batches \in [Jobs -> SUBSET Batches]
    /\ queue \in [Jobs -> SUBSET Batches]
    /\ succeeded \in [Jobs -> Nat]
    /\ runnerPc \in [Workers -> RunnerStates]
    /\ runnerBatch \in [Workers -> 0..MaxBatches]
    /\ tries \in [Workers -> 0..(MaxTries - 1)]
    /\ request \in [Requests -> EmailStates \cup {"new", "done"}]
    /\ staleRetry \in BOOLEAN
    /\ faults \in [FaultKinds -> Nat]

Init ==
    /\ emailStatus = "none"
    /\ rows = 0
    /\ page = [b \in Batches |-> 0]
    /\ batchStatus = [b \in Batches |-> "none"]
    /\ accepted = [b \in Batches |-> 0]
    /\ ambiguous = [b \in Batches |-> 0]
    /\ jobPc = [j \in Jobs |-> "idle"]
    /\ nextPage = [j \in Jobs |-> 1]
    /\ batches = [j \in Jobs |-> {}]
    /\ queue = [j \in Jobs |-> {}]
    /\ succeeded = [j \in Jobs |-> 0]
    /\ runnerPc = [w \in Workers |-> "idle"]
    /\ runnerBatch = [w \in Workers |-> 0]
    /\ tries = [w \in Workers |-> 0]
    /\ request = [q \in Requests |-> "new"]
    /\ staleRetry = FALSE
    /\ faults = [k \in FaultKinds |-> 0]

-----------------------------------------------------------------------------
\* The outcomes of a call.

Fault(kind) ==
    /\ faults[kind] < MaxFaults[kind]
    /\ faults' = [faults EXCEPT ![kind] = @ + 1]

Answered == UNCHANGED faults

JobGoes(j, pc)    == jobPc' = [jobPc EXCEPT ![j] = pc]
RunnerGoes(w, pc) == runnerPc' = [runnerPc EXCEPT ![w] = pc]

\* A write took effect: either the caller learns of it and goes on, or the
\* answer is lost and retryDb makes the same call again.
JobWrote(j, pc) ==
    \/ Answered /\ JobGoes(j, pc)
    \/ Fault("reply") /\ UNCHANGED jobPc

RunnerWrote(w, pc) ==
    \/ Answered /\ RunnerGoes(w, pc)
    \/ Fault("reply") /\ UNCHANGED runnerPc

-----------------------------------------------------------------------------
\* Requests.

\* scheduleEmail: a job that knows nothing but the id of the email.
Schedule(j) ==
    /\ jobPc[j] = "idle"
    /\ JobGoes(j, "queued")

\* createEmail: the row is added as pending; when scheduling throws, it is
\* marked failed.
CreateEmail(j) ==
    /\ emailStatus = "none"
    /\ \/ emailStatus' = "pending" /\ Schedule(j) /\ Answered
       \/ emailStatus' = "failed" /\ UNCHANGED jobPc /\ Fault("error")
    /\ UNCHANGED <<staleRetry, batchVars, nextPage, batches, queue, succeeded,
                   runnerVars, request>>

\* retryFailedEmail loads the email and its post ...
LoadForRetry(q) ==
    /\ request[q] = "new"
    /\ emailStatus # "none"
    /\ request' = [request EXCEPT ![q] = emailStatus]
    /\ UNCHANGED <<emailVars, batchVars, jobVars, runnerVars, faults>>

\* ... and once the limits are checked, retryEmail decides by the status it
\* loaded whether to write "pending", and schedules a job in any case.  The
\* check of the limits and the write can fail.
RetryEmail(q, j) ==
    /\ request[q] \in EmailStates
    /\ request' = [request EXCEPT ![q] = "done"]
    /\ \/ /\ Schedule(j)
          /\ Answered
          /\ IF request[q] = "failed"
             THEN /\ emailStatus' = "pending"
                  /\ staleRetry' = (staleRetry \/ emailStatus # "failed")
             ELSE UNCHANGED emailVars
       \/ Fault("error") /\ UNCHANGED <<emailVars, jobPc>>
    /\ UNCHANGED <<batchVars, nextPage, batches, queue, succeeded, runnerVars>>

-----------------------------------------------------------------------------
\* emailJob, sendEmail and createBatches.

\* updateStatusLock on the email: the row is read FOR UPDATE and set to
\* submitting in one transaction.  A job that fails here is over.
LockEmail(j) ==
    /\ jobPc[j] = "queued"
    /\ \/ /\ emailStatus \in AllowedStatuses
          /\ emailStatus' = "submitting"
          /\ JobWrote(j, "load")
       \/ /\ emailStatus \notin AllowedStatuses
          /\ JobGoes(j, "done") /\ Answered /\ UNCHANGED emailStatus
       \/ Fault("error") /\ JobGoes(j, "done") /\ UNCHANGED emailStatus
    /\ UNCHANGED <<staleRetry, batchVars, nextPage, batches, queue, succeeded,
                   runnerVars, request>>

\* Both runners of sendBatches start on the array of batches.
StartSending(j, array) ==
    /\ batches' = [batches EXCEPT ![j] = array]
    /\ queue' = [queue EXCEPT ![j] = array]
    /\ JobGoes(j, "send")
    /\ runnerPc' = [w \in Workers |-> IF w[1] = j THEN "next" ELSE runnerPc[w]]

\* Whether getBatches finds any.
HasBatches == rows > 0

\* sendEmail: whatever batches the email has are sent; only an email that has
\* none gets them created.
LoadBatches(j) ==
    /\ jobPc[j] = "load"
    /\ \/ /\ HasBatches
          /\ StartSending(j, 1..rows) /\ Answered
       \/ /\ ~HasBatches
          /\ JobGoes(j, "create") /\ Answered
          /\ UNCHANGED <<batches, queue, runnerPc>>
       \/ /\ Fault("error") /\ JobGoes(j, "save_failed")
          /\ UNCHANGED <<batches, queue, runnerPc>>
    /\ UNCHANGED <<emailVars, batchVars, nextPage, succeeded, runnerBatch,
                   tries, request>>

\* createBatch: the row and its recipients are inserted in one transaction.
CreateBatch(j) ==
    /\ jobPc[j] = "create"
    /\ nextPage[j] <= NumPages
    /\ \/ /\ rows < MaxBatches
          /\ rows' = rows + 1
          /\ page' = [page EXCEPT ![rows + 1] = nextPage[j]]
          /\ batchStatus' = [batchStatus EXCEPT ![rows + 1] = "pending"]
          /\ \/ /\ nextPage' = [nextPage EXCEPT ![j] = @ + 1]
                /\ batches' = [batches EXCEPT ![j] = @ \cup {rows + 1}]
                /\ Answered
             \/ Fault("reply") /\ UNCHANGED <<nextPage, batches>>
          /\ UNCHANGED jobPc
       \/ /\ Fault("error") /\ JobGoes(j, "save_failed")
          /\ UNCHANGED <<rows, page, batchStatus, nextPage, batches>>
    /\ UNCHANGED <<emailVars, accepted, ambiguous, queue, succeeded,
                   runnerVars, request>>

\* The end of createBatches: correcting email_count, which is not retried.
BatchesCreated(j) ==
    /\ jobPc[j] = "create"
    /\ nextPage[j] > NumPages
    /\ \/ StartSending(j, batches[j]) /\ Answered
       \/ /\ Fault("error") /\ JobGoes(j, "save_failed")
          /\ UNCHANGED <<batches, queue, runnerPc>>
    /\ UNCHANGED <<emailVars, batchVars, nextPage, succeeded, runnerBatch,
                   tries, request>>

\* Whether sendBatches returns.  Mutant: a partial failure goes unnoticed.
SomeSent(j) == succeeded[j] > 0
AllSent(j)  == succeeded[j] >= Cardinality(batches[j])

\* Promise.all of the runners rejects with the first that throws (the other
\* goes on), or resolves when both are finished.
RunnersSettled(j) ==
    /\ jobPc[j] = "send"
    /\ \/ \E w \in Workers : w[1] = j /\ runnerPc[w] = "threw"
          /\ JobGoes(j, "save_failed")
       \/ /\ \A w \in Workers : w[1] = j => runnerPc[w] = "finished"
          /\ JobGoes(j, IF AllSent(j) THEN "save_submitted" ELSE "save_failed")
    /\ UNCHANGED <<emailVars, batchVars, nextPage, batches, queue, succeeded,
                   runnerVars, request, faults>>

\* A write of "submitted" that fails for good is caught as a failed send.
SaveEmailSubmitted(j) ==
    /\ jobPc[j] = "save_submitted"
    /\ \/ emailStatus' = "submitted" /\ JobWrote(j, "done")
       \/ /\ Fault("error") /\ JobGoes(j, "save_failed")
          /\ UNCHANGED emailStatus
    /\ UNCHANGED <<staleRetry, batchVars, nextPage, batches, queue, succeeded,
                   runnerVars, request>>

\* Mutant: the catch block only logs the error.
LogEmailFailed(j) ==
    /\ jobPc[j] = "save_failed"
    /\ JobGoes(j, "done")
    /\ UNCHANGED <<emailVars, batchVars, nextPage, batches, queue, succeeded,
                   runnerVars, request, faults>>

SaveEmailFailed(j) ==
    /\ jobPc[j] = "save_failed"
    /\ \/ emailStatus' = "failed" /\ JobWrote(j, "done")
       \/ Fault("error") /\ JobGoes(j, "done") /\ UNCHANGED emailStatus
    /\ UNCHANGED <<staleRetry, batchVars, nextPage, batches, queue, succeeded,
                   runnerVars, request>>

-----------------------------------------------------------------------------
\* The runners of sendBatches, and sendBatch.

\* queue.shift()
TakeBatch(w) ==
    /\ runnerPc[w] = "next"
    /\ \/ \E b \in queue[w[1]] :
             /\ queue' = [queue EXCEPT ![w[1]] = @ \ {b}]
             /\ runnerBatch' = [runnerBatch EXCEPT ![w] = b]
             /\ RunnerGoes(w, "lock")
       \/ /\ queue[w[1]] = {}
          /\ RunnerGoes(w, "finished")
          /\ UNCHANGED <<queue, runnerBatch>>
    /\ UNCHANGED <<emailVars, batchVars, jobPc, nextPage, batches, succeeded,
                   tries, request, faults>>

\* sendBatch returns or throws.
EndOfBatch(w, pc) ==
    /\ runnerBatch' = [runnerBatch EXCEPT ![w] = 0]
    /\ RunnerGoes(w, pc)

\* updateStatusLock on the batch: a batch that is neither pending nor failed
\* counts as sent.
LockBatch(w) ==
    LET b == runnerBatch[w] IN
    /\ runnerPc[w] = "lock"
    /\ \/ /\ batchStatus[b] \in AllowedStatuses
          /\ batchStatus' = [batchStatus EXCEPT ![b] = "submitting"]
          /\ RunnerWrote(w, "send")
          /\ UNCHANGED <<succeeded, runnerBatch>>
       \/ /\ batchStatus[b] \notin AllowedStatuses
          /\ succeeded' = [succeeded EXCEPT ![w[1]] = @ + 1]
          /\ EndOfBatch(w, "next") /\ Answered
          /\ UNCHANGED batchStatus
       \/ /\ Fault("error") /\ EndOfBatch(w, "threw")
          /\ UNCHANGED <<batchStatus, succeeded>>
    /\ UNCHANGED <<emailVars, rows, page, accepted, ambiguous, jobPc, nextPage,
                   batches, queue, tries, request>>

EndOfTries(w, pc) ==
    /\ tries' = [tries EXCEPT ![w] = 0]
    /\ RunnerGoes(w, pc)

\* Whether retryDb tries once more.  Mutant: one try too many.
OneTryTooMany(w) == tries[w] < MaxTries
TriesAgain(w)    == tries[w] + 1 < MaxTries

\* getBatchMembers and one call of the provider: it takes the messages, it
\* refuses them, or it takes them and the service sees an error (a timeout).
\* After an error the call is made again until the tries are used up.
CallProvider(w) ==
    LET b == runnerBatch[w] IN
    /\ runnerPc[w] = "send"
    /\ \/ /\ accepted' = [accepted EXCEPT ![b] = @ + 1]
          /\ EndOfTries(w, "save_submitted") /\ Answered
          /\ UNCHANGED ambiguous
       \/ /\ Fault("provider")
          /\ \/ UNCHANGED <<accepted, ambiguous>>
             \/ /\ accepted' = [accepted EXCEPT ![b] = @ + 1]
                /\ ambiguous' = [ambiguous EXCEPT ![b] = @ + 1]
          /\ IF TriesAgain(w)
             THEN tries' = [tries EXCEPT ![w] = @ + 1] /\ UNCHANGED runnerPc
             ELSE EndOfTries(w, "save_failed")
       \/ /\ Fault("error") /\ EndOfTries(w, "save_failed")
          /\ UNCHANGED <<accepted, ambiguous>>
    /\ UNCHANGED <<emailVars, rows, page, batchStatus, jobVars, runnerBatch,
                   request>>

\* Mutant: a batch that was sent but not saved is taken for a failed one.
SaveBatchSubmittedOrFailed(w) ==
    /\ runnerPc[w] = "save_submitted"
    /\ \/ /\ batchStatus' = [batchStatus EXCEPT ![runnerBatch[w]] = "submitted"]
          /\ RunnerWrote(w, "mark_submitted")
       \/ /\ Fault("error") /\ RunnerGoes(w, "save_failed")
          /\ UNCHANGED batchStatus
    /\ UNCHANGED <<emailVars, rows, page, accepted, ambiguous, jobVars,
                   runnerBatch, tries, request>>

\* A sent batch whose status cannot be saved stays submitting.
SaveBatchSubmitted(w) ==
    /\ runnerPc[w] = "save_submitted"
    /\ \/ /\ batchStatus' = [batchStatus EXCEPT ![runnerBatch[w]] = "submitted"]
          /\ RunnerWrote(w, "mark_submitted")
       \/ /\ Fault("error") /\ RunnerGoes(w, "mark_submitted")
          /\ UNCHANGED batchStatus
    /\ UNCHANGED <<emailVars, rows, page, accepted, ambiguous, jobVars,
                   runnerBatch, tries, request>>

SaveBatchFailed(w) ==
    /\ runnerPc[w] = "save_failed"
    /\ \/ /\ batchStatus' = [batchStatus EXCEPT ![runnerBatch[w]] = "failed"]
          /\ RunnerWrote(w, "mark_failed")
          /\ UNCHANGED runnerBatch
       \/ /\ Fault("error") /\ EndOfBatch(w, "threw")
          /\ UNCHANGED batchStatus
    /\ UNCHANGED <<emailVars, rows, page, accepted, ambiguous, jobVars, tries,
                   request>>

\* processed_at of the recipients, then the next batch.
MarkProcessed(w) ==
    /\ runnerPc[w] \in {"mark_submitted", "mark_failed"}
    /\ \/ /\ EndOfBatch(w, "next") /\ Answered
          /\ succeeded' = IF runnerPc[w] = "mark_submitted"
                          THEN [succeeded EXCEPT ![w[1]] = @ + 1]
                          ELSE succeeded
       \/ Fault("error") /\ EndOfBatch(w, "threw") /\ UNCHANGED succeeded
    /\ UNCHANGED <<emailVars, batchVars, jobPc, nextPage, batches, queue,
                   tries, request>>

-----------------------------------------------------------------------------
\* The process dies: jobs, runners and requests under way are gone.  Nothing
\* looks for emails or batches left in submitting when it starts again.
Crash ==
    /\ Fault("crash")
    /\ jobPc' = [j \in Jobs |-> IF jobPc[j] = "idle" THEN "idle" ELSE "done"]
    /\ runnerPc' = [w \in Workers |->
                      IF runnerPc[w] = "idle" THEN "idle" ELSE "finished"]
    /\ runnerBatch' = [w \in Workers |-> 0]
    /\ tries' = [w \in Workers |-> 0]
    /\ request' = [q \in Requests |->
                     IF request[q] = "new" THEN "new" ELSE "done"]
    /\ UNCHANGED <<emailVars, batchVars, nextPage, batches, queue, succeeded>>

JobStep(j) ==
    \/ LockEmail(j) \/ LoadBatches(j) \/ CreateBatch(j) \/ BatchesCreated(j)
    \/ RunnersSettled(j) \/ SaveEmailSubmitted(j) \/ SaveEmailFailed(j)

RunnerStep(w) ==
    \/ TakeBatch(w) \/ LockBatch(w) \/ CallProvider(w)
    \/ SaveBatchSubmitted(w) \/ SaveBatchFailed(w) \/ MarkProcessed(w)

Next ==
    \/ \E j \in Jobs : CreateEmail(j) \/ JobStep(j)
    \/ \E q \in Requests : LoadForRetry(q) \/ \E j \in Jobs : RetryEmail(q, j)
    \/ \E w \in Workers : RunnerStep(w)
    \/ Crash

Spec == Init /\ [][Next]_vars

\* Node runs every callback that is due: a job or a runner that can take a
\* step does.  Nothing makes anyone ask for a retry.
Fairness ==
    /\ \A j \in Jobs : WF_vars(JobStep(j))
    /\ \A w \in Workers : WF_vars(RunnerStep(w))

FairSpec == Spec /\ Fairness

-----------------------------------------------------------------------------
\* Properties.

Rows == 1..rows

\* A runner is between the lock of a batch and the write of its outcome.
Holds(w, b) ==
    /\ runnerBatch[w] = b
    /\ runnerPc[w] \in {"send", "save_submitted", "save_failed"}

\* The job has taken the email and has not yet written how it went.
Active(j) == jobPc[j] \in {"load", "create", "send", "save_submitted",
                           "save_failed"}

\* No answer of a committed write was lost.
Reliable == faults["reply"] = 0

\* Two runners never work on the same batch, not even the runners of different
\* jobs, or one that lingers after its job has failed: sendBatch takes the
\* batch with updateStatusLock and gives it back with its last write.
BatchMutex ==
    Reliable => \A w1, w2 \in Workers : \A b \in Batches :
                   Holds(w1, b) /\ Holds(w2, b) => w1 = w2

\* Whatever is retried, a batch is handed to the provider at most once more
\* than calls were answered with an error although the provider took it: no
\* member gets the newsletter twice because of the service itself.
NoRepeatDelivery ==
    Reliable => \A b \in Batches : accepted[b] <= ambiguous[b] + 1

\* When answers of the database are lost, each of them costs at most one
\* repeated delivery: retryDb repeats writes, never a send that answered.
RepeatsOnlyByLostReplies ==
    \A b \in Batches : accepted[b] <= ambiguous[b] + 1 + faults["reply"]

\* A batch that may be taken again (sendBatch takes pending and failed ones)
\* was never delivered, as far as the service could know.
RetryableNotDelivered ==
    Reliable => \A b \in Batches :
                   batchStatus[b] \in {"pending", "failed"} => accepted[b] = ambiguous[b]

\* At most one job is between taking the email and writing its outcome, unless
\* a retry request overwrote the status that protects the email.
OneActiveJobUnlessStale ==
    Reliable /\ ~staleRetry =>
        \A j1, j2 \in Jobs : Active(j1) /\ Active(j2) => j1 = j2

\* When only the provider makes trouble, an email that says it was submitted
\* has all its batches submitted, one for every page of members.
SubmittedIsHonest ==
    /\ Reliable /\ ~staleRetry
    /\ faults["error"] = 0 /\ faults["crash"] = 0
    /\ emailStatus = "submitted"
    => /\ \A b \in Rows : batchStatus[b] = "submitted"
       /\ {page[b] : b \in Rows} = 1..NumPages

\* The write of a batch as submitted is never undone, whoever retries the
\* email and whichever runner is late.
SubmittedBatchIsFinal ==
    [][Reliable => \A b \in Batches :
         batchStatus[b] = "submitted" => batchStatus'[b] = "submitted"]_vars

\* An email that a job has taken gets an outcome, submitted or failed, so that
\* it can be retried: sendBatches ends whatever the provider answers, as long as
\* the database and the process do not fail.
SubmittingEnds ==
    emailStatus = "submitting" ~>
        \/ emailStatus \in {"submitted", "failed"}
        \/ faults["error"] + faults["crash"] > 0

\* The batches of the email implement BatchDelivery: what a status stands for,
\* and the deliveries the service knows of.
PhaseOf(status) ==
    CASE status = "none" -> "absent"
      [] status \in {"pending", "failed"} -> "open"
      [] status = "submitting" -> "claimed"
      [] status = "submitted" -> "settled"

Delivery == INSTANCE BatchDelivery WITH
    phase     <- [b \in Batches |-> PhaseOf(batchStatus[b])],
    confirmed <- [b \in Batches |-> accepted[b] - ambiguous[b]]

\* As long as no answer of the database is lost, every step of the jobs, the
\* runners and the requests is a step of the batches' delivery protocol.
ImplementsDelivery == Delivery!Spec

\* What the message of a failed send promises, "please retry sending the
\* remaining emails": once the email is submitted, every page of members has a
\* batch that was sent.
EveryPageSent ==
    emailStatus = "submitted" =>
        \A p \in 1..NumPages :
            \E b \in Rows : page[b] = p /\ accepted[b] > 0
=============================================================================
