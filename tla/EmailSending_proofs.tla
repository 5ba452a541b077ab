------------------------- MODULE EmailSending_proofs ------------------------
(* Proofs about EmailSending, for every number of jobs, requests, pages,   *)
(* batches and faults.                                                     *)
EXTENDS EmailSending, FiniteSetTheorems, TLAPS

\* What the proofs need to know of the bounded sets: the details stay hidden.
LEMMA WorkerJob == ASSUME NEW w \in Workers PROVE w[1] \in Jobs
  BY DEF Workers

LEMMA RowIds == ASSUME TypeOK
              PROVE  /\ rows < MaxBatches => rows + 1 \in Batches
                     /\ 1..rows \in SUBSET Batches
  BY BatchesAssumption DEF TypeOK, Batches

\* A fault is counted; only a lost answer makes the run unreliable.
LEMMA FaultCounted ==
  ASSUME TypeOK
  PROVE  \A k \in FaultKinds : Fault(k) =>
           /\ faults' \in [FaultKinds -> Nat]
           /\ k = "reply" => ~Reliable'
           /\ k # "reply" => Reliable' = Reliable
<1> SUFFICES ASSUME NEW k \in FaultKinds, Fault(k)
             PROVE  /\ faults' \in [FaultKinds -> Nat]
                    /\ k = "reply" => ~Reliable'
                    /\ k # "reply" => Reliable' = Reliable
  OBVIOUS
<1>1. faults \in [FaultKinds -> Nat] BY DEF TypeOK
<1>2. faults' = [faults EXCEPT ![k] = @ + 1] BY DEF Fault
<1> QED BY <1>1, <1>2 DEF Reliable, FaultKinds

\* What a call does to the faults, whichever of its outcomes it has.
LEMMA FaultTyped ==
  ASSUME TypeOK, Answered \/ Fault("error") \/ Fault("reply")
                 \/ Fault("provider") \/ Fault("crash")
  PROVE  faults' \in [FaultKinds -> Nat]
<1>1. {"error", "reply", "provider", "crash"} \subseteq FaultKinds
  BY DEF FaultKinds
<1> QED BY <1>1, FaultCounted DEF Answered, TypeOK

-----------------------------------------------------------------------------
\* Every variable keeps to its type: in particular a runner never exceeds the
\* tries of retryDb, and no id is used beyond the rows that exist.
LEMMA TypeInit == Init => TypeOK
<1> USE NumPagesAssumption, BatchesAssumption, TriesAssumption DEF Init
<1> SUFFICES ASSUME Init PROVE TypeOK OBVIOUS
<1>1. /\ rows \in 0..MaxBatches
      /\ page \in [Batches -> 0..NumPages]
      /\ accepted \in [Batches -> Nat]
      /\ ambiguous \in [Batches -> Nat]
  OBVIOUS
<1>2. /\ emailStatus \in EmailStates
      /\ batchStatus \in [Batches -> EmailStates]
      /\ request \in [Requests -> EmailStates \cup {"new", "done"}]
      /\ staleRetry \in BOOLEAN
  BY DEF EmailStates
<1>3. /\ jobPc \in [Jobs -> JobStates]
      /\ nextPage \in [Jobs -> 1..(NumPages + 1)]
      /\ batches \in [Jobs -> SUBSET Batches]
      /\ queue \in [Jobs -> SUBSET Batches]
      /\ succeeded \in [Jobs -> Nat]
  BY DEF JobStates
<1>4. /\ runnerPc \in [Workers -> RunnerStates]
      /\ runnerBatch \in [Workers -> 0..MaxBatches]
      /\ tries \in [Workers -> 0..(MaxTries - 1)]
  BY DEF RunnerStates
<1>5. faults \in [FaultKinds -> Nat] OBVIOUS
<1> QED BY <1>1, <1>2, <1>3, <1>4, <1>5 DEF TypeOK

LEMMA TypeCreate ==
  ASSUME TypeOK, NEW j \in Jobs, CreateEmail(j) PROVE TypeOK'
<1>1. faults' \in [FaultKinds -> Nat] BY FaultTyped DEF CreateEmail
<1>2. emailStatus' \in EmailStates BY DEF CreateEmail, EmailStates
<1>3. jobPc' \in [Jobs -> JobStates]
  BY DEF TypeOK, CreateEmail, Schedule, JobGoes, JobStates
<1> QED BY <1>1, <1>2, <1>3 DEF TypeOK, CreateEmail, batchVars, runnerVars

LEMMA TypeLoad ==
  ASSUME TypeOK, NEW q \in Requests, LoadForRetry(q) PROVE TypeOK'
  BY DEF TypeOK, EmailStates, LoadForRetry, emailVars, batchVars, jobVars,
         runnerVars

LEMMA TypeRetry ==
  ASSUME TypeOK, NEW j \in Jobs, NEW q \in Requests, RetryEmail(q, j)
  PROVE  TypeOK'
<1>1. faults' \in [FaultKinds -> Nat] BY FaultTyped DEF RetryEmail
<1>2. emailStatus' \in EmailStates /\ staleRetry' \in BOOLEAN
  BY DEF TypeOK, RetryEmail, EmailStates, emailVars
<1>3. jobPc' \in [Jobs -> JobStates]
  BY DEF TypeOK, RetryEmail, Schedule, JobGoes, JobStates
<1>4. request' \in [Requests -> EmailStates \cup {"new", "done"}]
  BY DEF TypeOK, RetryEmail
<1> QED BY <1>1, <1>2, <1>3, <1>4 DEF TypeOK, RetryEmail, batchVars, runnerVars

\* Both runners of the job start, on batches that exist.
LEMMA TypeStart ==
  ASSUME TypeOK, NEW j \in Jobs, NEW array \in SUBSET Batches,
         StartSending(j, array)
  PROVE  /\ batches' \in [Jobs -> SUBSET Batches]
         /\ queue' \in [Jobs -> SUBSET Batches]
         /\ jobPc' \in [Jobs -> JobStates]
         /\ runnerPc' \in [Workers -> RunnerStates]
<1>1. /\ batches' \in [Jobs -> SUBSET Batches]
      /\ queue' \in [Jobs -> SUBSET Batches]
  BY DEF TypeOK, StartSending
<1>2. jobPc' \in [Jobs -> JobStates]
  BY DEF TypeOK, StartSending, JobGoes, JobStates
<1>3. runnerPc' \in [Workers -> RunnerStates]
  BY DEF TypeOK, StartSending, RunnerStates
<1> QED BY <1>1, <1>2, <1>3

LEMMA TypeJobs == ASSUME TypeOK, NEW j \in Jobs, JobStep(j) PROVE TypeOK'
<1> USE DEF JobGoes, JobWrote, emailVars, batchVars, jobVars, runnerVars
<1>1. CASE LockEmail(j)
  <2>1. faults' \in [FaultKinds -> Nat] BY <1>1, FaultTyped DEF LockEmail
  <2>2. emailStatus' \in EmailStates BY <1>1 DEF TypeOK, LockEmail, EmailStates
  <2>3. jobPc' \in [Jobs -> JobStates] BY <1>1 DEF TypeOK, LockEmail, JobStates
  <2> QED BY <1>1, <2>1, <2>2, <2>3 DEF TypeOK, LockEmail
<1>2. CASE LoadBatches(j)
  <2>1. faults' \in [FaultKinds -> Nat] BY <1>2, FaultTyped DEF LoadBatches
  <2>2. CASE StartSending(j, 1..rows)
    BY <1>2, <2>1, <2>2, RowIds, TypeStart DEF TypeOK, LoadBatches
  <2>3. CASE UNCHANGED <<batches, queue, runnerPc>> /\ ~StartSending(j, 1..rows)
    <3>1. jobPc' \in [Jobs -> JobStates]
      BY <1>2, <2>3 DEF TypeOK, LoadBatches, JobStates
    <3> QED BY <1>2, <2>1, <2>3, <3>1 DEF TypeOK, LoadBatches
  <2> QED BY <1>2, <2>2, <2>3 DEF LoadBatches
<1>3. CASE CreateBatch(j)
  <2>1. faults' \in [FaultKinds -> Nat] BY <1>3, FaultTyped DEF CreateBatch
  <2>2. jobPc' \in [Jobs -> JobStates] BY <1>3 DEF TypeOK, CreateBatch, JobStates
  <2>3. rows' \in 0..MaxBatches
    BY <1>3, BatchesAssumption DEF TypeOK, CreateBatch
  <2>4. nextPage[j] \in 0..NumPages /\ nextPage[j] + 1 \in 1..(NumPages + 1)
    BY <1>3, NumPagesAssumption DEF TypeOK, CreateBatch
  <2>5. /\ page' \in [Batches -> 0..NumPages]
        /\ nextPage' \in [Jobs -> 1..(NumPages + 1)]
    BY <1>3, <2>4 DEF TypeOK, CreateBatch
  <2>6. batchStatus' \in [Batches -> EmailStates]
    BY <1>3 DEF TypeOK, CreateBatch, EmailStates
  <2>7. batches' \in [Jobs -> SUBSET Batches]
    BY <1>3, RowIds DEF TypeOK, CreateBatch
  <2> QED BY <1>3, <2>1, <2>2, <2>3, <2>5, <2>6, <2>7 DEF TypeOK, CreateBatch
<1>4. CASE BatchesCreated(j)
  <2>1. faults' \in [FaultKinds -> Nat] BY <1>4, FaultTyped DEF BatchesCreated
  <2>2. CASE StartSending(j, batches[j])
    <3>1. batches[j] \in SUBSET Batches BY DEF TypeOK
    <3> QED BY <1>4, <2>1, <2>2, <3>1, TypeStart DEF TypeOK, BatchesCreated
  <2>3. CASE UNCHANGED <<batches, queue, runnerPc>> /\ ~StartSending(j, batches[j])
    <3>1. jobPc' \in [Jobs -> JobStates]
      BY <1>4, <2>3 DEF TypeOK, BatchesCreated, JobStates
    <3> QED BY <1>4, <2>1, <2>3, <3>1 DEF TypeOK, BatchesCreated
  <2> QED BY <1>4, <2>2, <2>3 DEF BatchesCreated
<1>5. CASE RunnersSettled(j) BY <1>5 DEF TypeOK, RunnersSettled, JobStates
<1>6. CASE SaveEmailSubmitted(j)
  <2>1. faults' \in [FaultKinds -> Nat]
    BY <1>6, FaultTyped DEF SaveEmailSubmitted
  <2>2. emailStatus' \in EmailStates /\ jobPc' \in [Jobs -> JobStates]
    BY <1>6 DEF TypeOK, SaveEmailSubmitted, EmailStates, JobStates
  <2> QED BY <1>6, <2>1, <2>2 DEF TypeOK, SaveEmailSubmitted
<1>7. CASE SaveEmailFailed(j)
  <2>1. faults' \in [FaultKinds -> Nat] BY <1>7, FaultTyped DEF SaveEmailFailed
  <2>2. emailStatus' \in EmailStates /\ jobPc' \in [Jobs -> JobStates]
    BY <1>7 DEF TypeOK, SaveEmailFailed, EmailStates, JobStates
  <2> QED BY <1>7, <2>1, <2>2 DEF TypeOK, SaveEmailFailed
<1> QED BY <1>1, <1>2, <1>3, <1>4, <1>5, <1>6, <1>7 DEF JobStep

LEMMA TypeRunners == ASSUME TypeOK, NEW w \in Workers, RunnerStep(w) PROVE TypeOK'
<1> USE DEF RunnerGoes, RunnerWrote, EndOfBatch, EndOfTries, emailVars,
            batchVars, jobVars, runnerVars
<1>0. w[1] \in Jobs BY WorkerJob
<1>1. CASE TakeBatch(w)
  <2>1. runnerPc' \in [Workers -> RunnerStates]
    BY <1>1 DEF TypeOK, TakeBatch, RunnerStates
  <2>2. queue' \in [Jobs -> SUBSET Batches]
    BY <1>0, <1>1 DEF TypeOK, TakeBatch
  <2>3. queue[w[1]] \subseteq Batches BY <1>0 DEF TypeOK
  <2>4. Batches \subseteq 0..MaxBatches BY BatchesAssumption DEF Batches
  <2>5. runnerBatch' \in [Workers -> 0..MaxBatches]
    BY <1>1, <2>3, <2>4 DEF TypeOK, TakeBatch
  <2> QED BY <1>1, <2>1, <2>2, <2>5 DEF TypeOK, TakeBatch
<1>2. CASE LockBatch(w)
  <2>1. faults' \in [FaultKinds -> Nat] BY <1>2, FaultTyped DEF LockBatch
  <2>2. runnerPc' \in [Workers -> RunnerStates]
    BY <1>2 DEF TypeOK, LockBatch, RunnerStates
  <2>3. batchStatus' \in [Batches -> EmailStates]
    BY <1>2 DEF TypeOK, LockBatch, EmailStates
  <2>4. /\ succeeded' \in [Jobs -> Nat]
        /\ runnerBatch' \in [Workers -> 0..MaxBatches]
    BY <1>0, <1>2, BatchesAssumption DEF TypeOK, LockBatch
  <2> QED BY <1>2, <2>1, <2>2, <2>3, <2>4 DEF TypeOK, LockBatch
<1>3. CASE CallProvider(w)
  <2>1. faults' \in [FaultKinds -> Nat] BY <1>3, FaultTyped DEF CallProvider
  <2>2. runnerPc' \in [Workers -> RunnerStates]
    BY <1>3 DEF TypeOK, CallProvider, RunnerStates
  <2>3. accepted' \in [Batches -> Nat] /\ ambiguous' \in [Batches -> Nat]
    BY <1>3 DEF TypeOK, CallProvider
  <2>4. tries' \in [Workers -> 0..(MaxTries - 1)]
    BY <1>3, TriesAssumption DEF TypeOK, CallProvider, TriesAgain
  <2> QED BY <1>3, <2>1, <2>2, <2>3, <2>4 DEF TypeOK, CallProvider
<1>4. CASE SaveBatchSubmitted(w)
  <2>1. faults' \in [FaultKinds -> Nat]
    BY <1>4, FaultTyped DEF SaveBatchSubmitted
  <2>2. runnerPc' \in [Workers -> RunnerStates]
    BY <1>4 DEF TypeOK, SaveBatchSubmitted, RunnerStates
  <2>3. batchStatus' \in [Batches -> EmailStates]
    BY <1>4 DEF TypeOK, SaveBatchSubmitted, EmailStates
  <2> QED BY <1>4, <2>1, <2>2, <2>3 DEF TypeOK, SaveBatchSubmitted
<1>5. CASE SaveBatchFailed(w)
  <2>1. faults' \in [FaultKinds -> Nat] BY <1>5, FaultTyped DEF SaveBatchFailed
  <2>2. runnerPc' \in [Workers -> RunnerStates]
    BY <1>5 DEF TypeOK, SaveBatchFailed, RunnerStates
  <2>3. batchStatus' \in [Batches -> EmailStates]
    BY <1>5 DEF TypeOK, SaveBatchFailed, EmailStates
  <2>4. runnerBatch' \in [Workers -> 0..MaxBatches]
    BY <1>5, BatchesAssumption DEF TypeOK, SaveBatchFailed
  <2> QED BY <1>5, <2>1, <2>2, <2>3, <2>4 DEF TypeOK, SaveBatchFailed
<1>6. CASE MarkProcessed(w)
  <2>1. faults' \in [FaultKinds -> Nat] BY <1>6, FaultTyped DEF MarkProcessed
  <2>2. runnerPc' \in [Workers -> RunnerStates]
    BY <1>6 DEF TypeOK, MarkProcessed, RunnerStates
  <2>3. /\ succeeded' \in [Jobs -> Nat]
        /\ runnerBatch' \in [Workers -> 0..MaxBatches]
    BY <1>0, <1>6, BatchesAssumption DEF TypeOK, MarkProcessed
  <2> QED BY <1>6, <2>1, <2>2, <2>3 DEF TypeOK, MarkProcessed
<1> QED BY <1>1, <1>2, <1>3, <1>4, <1>5, <1>6 DEF RunnerStep

LEMMA TypeCrash == ASSUME TypeOK, Crash PROVE TypeOK'
<1>1. jobPc' \in [Jobs -> JobStates] BY DEF TypeOK, Crash, JobStates
<1>2. runnerPc' \in [Workers -> RunnerStates] BY DEF TypeOK, Crash, RunnerStates
<1>3. request' \in [Requests -> EmailStates \cup {"new", "done"}]
  BY DEF TypeOK, Crash
<1>4. faults' \in [FaultKinds -> Nat] BY FaultTyped DEF Crash
<1>5. /\ runnerBatch' \in [Workers -> 0..MaxBatches]
      /\ tries' \in [Workers -> 0..(MaxTries - 1)]
  BY BatchesAssumption, TriesAssumption DEF Crash
<1> QED BY <1>1, <1>2, <1>3, <1>4, <1>5 DEF TypeOK, Crash, emailVars, batchVars

LEMMA TypeStep == TypeOK /\ [Next]_vars => TypeOK'
<1> SUFFICES ASSUME TypeOK, [Next]_vars PROVE TypeOK' OBVIOUS
<1>1. CASE \E j \in Jobs : CreateEmail(j) \/ JobStep(j)
  BY <1>1, TypeCreate, TypeJobs
<1>2. CASE \E q \in Requests : LoadForRetry(q) \/ \E j \in Jobs : RetryEmail(q, j)
  BY <1>2, TypeLoad, TypeRetry
<1>3. CASE \E w \in Workers : RunnerStep(w) BY <1>3, TypeRunners
<1>4. CASE Crash BY <1>4, TypeCrash
<1>5. CASE UNCHANGED vars
  BY <1>5 DEF TypeOK, vars, emailVars, batchVars, jobVars, runnerVars
<1> QED BY <1>1, <1>2, <1>3, <1>4, <1>5 DEF Next

THEOREM Typing == Spec => []TypeOK
<1> QED BY TypeInit, TypeStep, PTL DEF Spec

-----------------------------------------------------------------------------
\* Delivery.  What is inductive about it, as long as no answer was lost: a
\* runner that holds a batch finds it submitting, alone; and what the service
\* knows of the deliveries (accepted less ambiguous) goes with the status of
\* the batch and with where the runner is.

UnusedRows == \A b \in Batches : b > rows => batchStatus[b] = "none"

HeldIsSubmitting ==
    \A w \in Workers : \A b \in Batches :
        Holds(w, b) => batchStatus[b] = "submitting"

HeldByOne ==
    \A w1, w2 \in Workers : \A b \in Batches :
        Holds(w1, b) /\ Holds(w2, b) => w1 = w2

KnownByStatus ==
    \A b \in Batches :
        /\ batchStatus[b] \in {"none", "pending", "failed"}
             => accepted[b] = ambiguous[b]
        /\ batchStatus[b] = "submitted" => accepted[b] = ambiguous[b] + 1
        /\ accepted[b] \in {ambiguous[b], ambiguous[b] + 1}

KnownByHolder ==
    \A w \in Workers : \A b \in Batches :
        Holds(w, b) =>
            accepted[b] = IF runnerPc[w] = "save_submitted"
                          THEN ambiguous[b] + 1 ELSE ambiguous[b]

Known == /\ UnusedRows /\ HeldIsSubmitting /\ HeldByOne
         /\ KnownByStatus /\ KnownByHolder

DeliveryInv == Reliable => Known

LEMMA DeliveryInit == Init => DeliveryInv
  BY DEF Init, DeliveryInv, Known, UnusedRows, HeldIsSubmitting, HeldByOne,
         KnownByStatus, KnownByHolder, Holds

\* An unreliable run never becomes reliable again.
LEMMA ReliableBefore ==
  ASSUME TypeOK, Answered \/ Fault("error") \/ Fault("reply")
                 \/ Fault("provider") \/ Fault("crash"),
         Reliable'
  PROVE  Reliable /\ ~Fault("reply")
<1>1. {"error", "reply", "provider", "crash"} \subseteq FaultKinds
  BY DEF FaultKinds
<1>2. ~Fault("reply") BY <1>1, FaultCounted
<1> QED BY <1>1, <1>2, FaultCounted DEF Answered, Reliable

\* A step that touches no batch and in which runners only let batches go.
LEMMA Quiet ==
  ASSUME DeliveryInv, Reliable' => Reliable,
         UNCHANGED <<rows, batchStatus, accepted, ambiguous>>,
         \A w \in Workers : \A b \in Batches :
             Holds(w, b)' => Holds(w, b) /\ runnerPc'[w] = runnerPc[w]
  PROVE  DeliveryInv'
<1> SUFFICES ASSUME Reliable' PROVE Known' BY DEF DeliveryInv
<1>0. Known BY DEF DeliveryInv
<1>1. UnusedRows' BY <1>0 DEF Known, UnusedRows
<1>2. HeldIsSubmitting' BY <1>0 DEF Known, HeldIsSubmitting
<1>3. HeldByOne' BY <1>0 DEF Known, HeldByOne
<1>4. KnownByStatus' BY <1>0 DEF Known, KnownByStatus
<1>5. KnownByHolder' BY <1>0 DEF Known, KnownByHolder
<1> QED BY <1>1, <1>2, <1>3, <1>4, <1>5 DEF Known

LEMMA DeliveryCreateBatch ==
  ASSUME TypeOK, DeliveryInv, NEW j \in Jobs, CreateBatch(j)
  PROVE  DeliveryInv'
<1>0. /\ Reliable' => Reliable
      /\ UNCHANGED <<accepted, ambiguous, runnerPc, runnerBatch>>
  BY ReliableBefore DEF CreateBatch, runnerVars
<1>1. CASE UNCHANGED <<rows, batchStatus>>
  BY <1>0, <1>1, Quiet DEF Holds
<1>2. CASE /\ rows < MaxBatches
           /\ rows' = rows + 1
           /\ batchStatus' = [batchStatus EXCEPT ![rows + 1] = "pending"]
  <2> SUFFICES ASSUME Reliable' PROVE Known' BY DEF DeliveryInv
  <2>1. rows + 1 \in Batches /\ rows \in Nat
    BY <1>2, RowIds, BatchesAssumption DEF TypeOK
  <2>4. UnusedRows /\ HeldIsSubmitting /\ HeldByOne /\ KnownByStatus /\ KnownByHolder
    BY <1>0 DEF DeliveryInv, Known
  <2>2. batchStatus[rows + 1] = "none" BY <2>1, <2>4 DEF UnusedRows
  <2>3. UnusedRows'
    BY <1>2, <2>1, <2>4 DEF TypeOK, UnusedRows, Batches
  <2>5. \A b \in Batches : batchStatus'[b] = IF b = rows + 1 THEN "pending"
                                             ELSE batchStatus[b]
    BY <1>2 DEF TypeOK
  <2>6. HeldIsSubmitting'
    BY <1>0, <2>2, <2>4, <2>5 DEF HeldIsSubmitting, Holds
  <2>7. HeldByOne' BY <1>0, <2>4 DEF HeldByOne, Holds
  <2>8. KnownByStatus' BY <1>0, <2>2, <2>4, <2>5 DEF KnownByStatus
  <2>9. KnownByHolder' BY <1>0, <2>4 DEF KnownByHolder, Holds
  <2> QED BY <2>3, <2>6, <2>7, <2>8, <2>9 DEF Known
<1> QED BY <1>1, <1>2 DEF CreateBatch

LEMMA DeliveryLockBatch ==
  ASSUME TypeOK, DeliveryInv, NEW w \in Workers, LockBatch(w)
  PROVE  DeliveryInv'
<1> DEFINE b == runnerBatch[w]
<1>0. /\ Reliable' => Reliable /\ ~Fault("reply")
      /\ UNCHANGED <<rows, accepted, ambiguous>>
  BY ReliableBefore DEF LockBatch, RunnerWrote
<1>1. CASE UNCHANGED batchStatus /\ \E pc \in {"next", "threw"} : EndOfBatch(w, pc)
  <2>1. \A v \in Workers : \A c \in Batches :
           Holds(v, c)' => Holds(v, c) /\ runnerPc'[v] = runnerPc[v]
    BY <1>1 DEF TypeOK, EndOfBatch, RunnerGoes, Holds
  <2> QED BY <1>0, <1>1, <2>1, Quiet
<1>2. CASE /\ batchStatus[b] \in AllowedStatuses
           /\ batchStatus' = [batchStatus EXCEPT ![b] = "submitting"]
           /\ RunnerWrote(w, "send")
           /\ UNCHANGED runnerBatch
  <2> SUFFICES ASSUME Reliable' PROVE Known' BY DEF DeliveryInv
  <2>2. UnusedRows /\ HeldIsSubmitting /\ HeldByOne /\ KnownByStatus /\ KnownByHolder
    BY <1>0 DEF DeliveryInv, Known
  <2>1. UnusedRows'
    BY <1>0, <1>2, <2>2 DEF TypeOK, UnusedRows, AllowedStatuses
  <2>3. runnerPc' = [runnerPc EXCEPT ![w] = "send"]
    BY <1>0, <1>2 DEF RunnerWrote, RunnerGoes
  <2>4. \A c \in Batches : batchStatus'[c] = IF c = b THEN "submitting"
                                             ELSE batchStatus[c]
    BY <1>2 DEF TypeOK
  <2>5. batchStatus[b] \in {"pending", "failed"} BY <1>2 DEF AllowedStatuses
  <2>6. \A v \in Workers : \A c \in Batches :
           /\ v # w => (Holds(v, c)' <=> Holds(v, c)) /\ runnerPc'[v] = runnerPc[v]
           /\ Holds(w, c)' => c = b
           /\ Holds(v, c) => c # b
    BY <1>2, <2>2, <2>3, <2>5 DEF TypeOK, Holds, HeldIsSubmitting
  <2>7. HeldIsSubmitting' BY <2>2, <2>4, <2>6 DEF HeldIsSubmitting
  <2>8. HeldByOne' BY <2>2, <2>6 DEF HeldByOne
  <2>9. KnownByStatus' BY <1>0, <2>2, <2>4, <2>5 DEF KnownByStatus
  <2>10. runnerPc'[w] = "send" BY <2>3 DEF TypeOK
  <2>11. KnownByHolder'
    BY <1>0, <2>2, <2>5, <2>6, <2>10 DEF KnownByHolder, KnownByStatus
  <2> QED BY <2>1, <2>7, <2>8, <2>9, <2>11 DEF Known
<1> QED BY <1>1, <1>2 DEF LockBatch

\* A runner that has a batch in hand and knows something new of it: whether
\* the provider took it, or that its outcome is written.
LEMMA DeliveryCallProvider ==
  ASSUME TypeOK, DeliveryInv, NEW w \in Workers, CallProvider(w)
  PROVE  DeliveryInv'
<1> DEFINE b == runnerBatch[w]
<1>0. /\ Reliable' => Reliable
      /\ UNCHANGED <<rows, batchStatus, runnerBatch>>
  BY ReliableBefore DEF CallProvider
<1> SUFFICES ASSUME Reliable' PROVE Known' BY DEF DeliveryInv
<1>2. UnusedRows /\ HeldIsSubmitting /\ HeldByOne /\ KnownByStatus /\ KnownByHolder
  BY <1>0 DEF DeliveryInv, Known
<1>1. UnusedRows' BY <1>0, <1>2 DEF UnusedRows
<1>3. /\ runnerPc'[w] \in {"send", "save_submitted", "save_failed"}
      /\ \A v \in Workers : v # w => runnerPc'[v] = runnerPc[v]
  BY DEF TypeOK, CallProvider, RunnerGoes, EndOfTries
<1>4. \A v \in Workers : \A c \in Batches : Holds(v, c)' <=> Holds(v, c)
  BY <1>0, <1>3 DEF CallProvider, Holds
<1>5. HeldIsSubmitting' BY <1>0, <1>2, <1>4 DEF HeldIsSubmitting
<1>6. HeldByOne' BY <1>2, <1>4 DEF HeldByOne
<1>7. \A c \in Batches : c # b => /\ accepted'[c] = accepted[c]
                                 /\ ambiguous'[c] = ambiguous[c]
  BY DEF TypeOK, CallProvider
<1>8. b \in Batches =>
         /\ Holds(w, b) /\ batchStatus[b] = "submitting"
         /\ accepted[b] = ambiguous[b]
         /\ accepted'[b] = IF runnerPc'[w] = "save_submitted"
                           THEN ambiguous'[b] + 1 ELSE ambiguous'[b]
  <2> SUFFICES ASSUME b \in Batches
               PROVE  /\ Holds(w, b) /\ batchStatus[b] = "submitting"
                      /\ accepted[b] = ambiguous[b]
                      /\ accepted'[b] = IF runnerPc'[w] = "save_submitted"
                                        THEN ambiguous'[b] + 1 ELSE ambiguous'[b]
    OBVIOUS
  <2>1. Holds(w, b) /\ runnerPc[w] = "send" BY DEF CallProvider, Holds
  <2>2. batchStatus[b] = "submitting" /\ accepted[b] = ambiguous[b]
    BY <1>2, <2>1 DEF HeldIsSubmitting, KnownByHolder
  <2>3. accepted[b] \in Nat /\ ambiguous[b] \in Nat BY DEF TypeOK
  <2>4. accepted'[b] = IF runnerPc'[w] = "save_submitted"
                       THEN ambiguous'[b] + 1 ELSE ambiguous'[b]
    BY <2>1, <2>2, <2>3 DEF TypeOK, CallProvider, EndOfTries, RunnerGoes
  <2> QED BY <2>1, <2>2, <2>4
<1>9. KnownByStatus'
  <2> SUFFICES ASSUME NEW c \in Batches
      PROVE  /\ batchStatus'[c] \in {"none", "pending", "failed"}
                  => accepted'[c] = ambiguous'[c]
             /\ batchStatus'[c] = "submitted" => accepted'[c] = ambiguous'[c] + 1
             /\ accepted'[c] \in {ambiguous'[c], ambiguous'[c] + 1}
    BY DEF KnownByStatus
  <2>1. CASE c = b BY <1>0, <1>8, <2>1
  <2>2. CASE c # b BY <1>0, <1>2, <1>7, <2>2 DEF KnownByStatus
  <2> QED BY <2>1, <2>2
<1>10. KnownByHolder'
  <2> SUFFICES ASSUME NEW v \in Workers, NEW c \in Batches, Holds(v, c)'
      PROVE  accepted'[c] = IF runnerPc'[v] = "save_submitted"
                            THEN ambiguous'[c] + 1 ELSE ambiguous'[c]
    BY DEF KnownByHolder
  <2>1. CASE c = b
    <3>1. v = w BY <1>2, <1>4, <1>8, <2>1 DEF HeldByOne
    <3> QED BY <1>8, <2>1, <3>1
  <2>2. CASE c # b
    <3>1. v # w BY <1>0, <2>2 DEF Holds
    <3> QED BY <1>2, <1>3, <1>4, <1>7, <2>2, <3>1 DEF KnownByHolder
  <2> QED BY <2>1, <2>2
<1> QED BY <1>1, <1>5, <1>6, <1>9, <1>10 DEF Known

\* The write of an outcome gives the batch back with the status that says
\* what is known of its delivery.
LEMMA DeliverySettle ==
  ASSUME TypeOK, DeliveryInv, NEW w \in Workers, NEW outcome,
         \/ runnerPc[w] = "save_submitted" /\ outcome = "submitted"
         \/ runnerPc[w] = "save_failed" /\ outcome = "failed",
         batchStatus' = [batchStatus EXCEPT ![runnerBatch[w]] = outcome],
         Reliable' => Reliable,
         UNCHANGED <<rows, accepted, ambiguous, runnerBatch>>,
         Reliable' => runnerPc'[w] \in {"mark_submitted", "mark_failed"},
         \A v \in Workers : v # w => runnerPc'[v] = runnerPc[v]
  PROVE  DeliveryInv'
<1> DEFINE b == runnerBatch[w]
<1> SUFFICES ASSUME Reliable' PROVE Known' BY DEF DeliveryInv
<1>1. UnusedRows /\ HeldIsSubmitting /\ HeldByOne /\ KnownByStatus /\ KnownByHolder
  BY DEF DeliveryInv, Known
<1>2. \A c \in Batches : batchStatus'[c] = IF c = b THEN outcome ELSE batchStatus[c]
  BY DEF TypeOK
<1>3. b \in Batches => Holds(w, b) BY DEF Holds
<1>4. b \in Batches => /\ batchStatus[b] = "submitting"
                      /\ accepted[b] = IF outcome = "submitted"
                                       THEN ambiguous[b] + 1 ELSE ambiguous[b]
  BY <1>1, <1>3 DEF HeldIsSubmitting, KnownByHolder
<1>5. \A v \in Workers : \A c \in Batches :
         Holds(v, c)' => Holds(v, c) /\ v # w /\ c # b
                         /\ runnerPc'[v] = runnerPc[v]
  BY <1>1, <1>3 DEF Holds, HeldByOne
<1>6. UnusedRows' BY <1>1, <1>2, <1>4 DEF UnusedRows
<1>7. HeldIsSubmitting' BY <1>1, <1>2, <1>5 DEF HeldIsSubmitting
<1>8. HeldByOne' BY <1>1, <1>5 DEF HeldByOne
<1>9. KnownByStatus'
  <2> SUFFICES ASSUME NEW c \in Batches
      PROVE  /\ batchStatus'[c] \in {"none", "pending", "failed"}
                  => accepted[c] = ambiguous[c]
             /\ batchStatus'[c] = "submitted" => accepted[c] = ambiguous[c] + 1
             /\ accepted[c] \in {ambiguous[c], ambiguous[c] + 1}
    BY DEF KnownByStatus
  <2>1. CASE c = b BY <1>2, <1>4, <2>1
  <2>2. CASE c # b BY <1>1, <1>2, <2>2 DEF KnownByStatus
  <2> QED BY <2>1, <2>2
<1>10. KnownByHolder' BY <1>1, <1>5 DEF KnownByHolder
<1> QED BY <1>6, <1>7, <1>8, <1>9, <1>10 DEF Known

LEMMA DeliverySaveSubmitted ==
  ASSUME TypeOK, DeliveryInv, NEW w \in Workers, SaveBatchSubmitted(w)
  PROVE  DeliveryInv'
<1>0. /\ Reliable' => Reliable /\ ~Fault("reply")
      /\ UNCHANGED <<rows, accepted, ambiguous, runnerBatch>>
  BY ReliableBefore DEF SaveBatchSubmitted, RunnerWrote
<1>1. /\ runnerPc[w] = "save_submitted"
      /\ Reliable' => runnerPc'[w] = "mark_submitted"
      /\ \A v \in Workers : v # w => runnerPc'[v] = runnerPc[v]
  BY <1>0 DEF TypeOK, SaveBatchSubmitted, RunnerWrote, RunnerGoes
<1>2. CASE UNCHANGED batchStatus /\ RunnerGoes(w, "mark_submitted")
  <2>1. \A v \in Workers : \A c \in Batches :
           Holds(v, c)' => Holds(v, c) /\ runnerPc'[v] = runnerPc[v]
    BY <1>0, <1>2 DEF TypeOK, RunnerGoes, Holds
  <2> QED BY <1>0, <1>2, <2>1, Quiet
<1>3. CASE batchStatus' = [batchStatus EXCEPT ![runnerBatch[w]] = "submitted"]
  BY <1>0, <1>1, <1>3, DeliverySettle
<1> QED BY <1>2, <1>3 DEF SaveBatchSubmitted

LEMMA DeliverySaveFailed ==
  ASSUME TypeOK, DeliveryInv, NEW w \in Workers, SaveBatchFailed(w)
  PROVE  DeliveryInv'
<1>0. /\ Reliable' => Reliable /\ ~Fault("reply")
      /\ UNCHANGED <<rows, accepted, ambiguous>>
  BY ReliableBefore DEF SaveBatchFailed, RunnerWrote
<1>1. CASE UNCHANGED batchStatus /\ EndOfBatch(w, "threw")
  <2>1. \A v \in Workers : \A c \in Batches :
           Holds(v, c)' => Holds(v, c) /\ runnerPc'[v] = runnerPc[v]
    BY <1>1 DEF TypeOK, EndOfBatch, RunnerGoes, Holds
  <2> QED BY <1>0, <1>1, <2>1, Quiet
<1>2. CASE /\ batchStatus' = [batchStatus EXCEPT ![runnerBatch[w]] = "failed"]
           /\ RunnerWrote(w, "mark_failed")
           /\ UNCHANGED runnerBatch
  <2>1. /\ runnerPc[w] = "save_failed"
        /\ Reliable' => runnerPc'[w] = "mark_failed"
        /\ \A v \in Workers : v # w => runnerPc'[v] = runnerPc[v]
    BY <1>0, <1>2 DEF TypeOK, SaveBatchFailed, RunnerWrote, RunnerGoes
  <2> QED BY <1>0, <1>2, <2>1, DeliverySettle
<1> QED BY <1>1, <1>2 DEF SaveBatchFailed

\* The other steps of jobs, and those of requests, touch no held batch.
LEMMA DeliveryJobs ==
  ASSUME TypeOK, DeliveryInv, NEW j \in Jobs, JobStep(j)
  PROVE  DeliveryInv'
<1>1. CASE CreateBatch(j) BY <1>1, DeliveryCreateBatch
<1>2. CASE LoadBatches(j) \/ BatchesCreated(j)
  <2>1. /\ Reliable' => Reliable
        /\ UNCHANGED <<rows, batchStatus, accepted, ambiguous, runnerBatch>>
    BY <1>2, ReliableBefore DEF LoadBatches, BatchesCreated, batchVars
  <2>2. \A w \in Workers : runnerPc'[w] \in {"next", runnerPc[w]}
    BY <1>2 DEF LoadBatches, BatchesCreated, StartSending
  <2> QED BY <2>1, <2>2, Quiet DEF Holds
<1>3. CASE LockEmail(j) \/ RunnersSettled(j) \/ SaveEmailSubmitted(j)
           \/ SaveEmailFailed(j)
  <2>1. /\ Answered \/ Fault("error") \/ Fault("reply")
        /\ UNCHANGED <<batchVars, runnerVars>>
    BY <1>3 DEF LockEmail, RunnersSettled, SaveEmailSubmitted, SaveEmailFailed,
                JobWrote, Answered
  <2>2. Reliable' => Reliable BY <2>1, ReliableBefore
  <2> QED BY <2>1, <2>2, Quiet DEF Holds, batchVars, runnerVars
<1> QED BY <1>1, <1>2, <1>3 DEF JobStep

LEMMA DeliveryTake ==
  ASSUME TypeOK, DeliveryInv, NEW w \in Workers, TakeBatch(w)
  PROVE  DeliveryInv'
<1>1. /\ Reliable' => Reliable
      /\ UNCHANGED <<rows, batchStatus, accepted, ambiguous>>
  BY DEF TakeBatch, batchVars, Reliable
<1>2. /\ runnerPc'[w] \in {"lock", "finished"}
      /\ \A v \in Workers : v # w => /\ runnerPc'[v] = runnerPc[v]
                                     /\ runnerBatch'[v] = runnerBatch[v]
  BY DEF TypeOK, TakeBatch, RunnerGoes
<1> QED BY <1>1, <1>2, Quiet DEF Holds

LEMMA DeliveryMark ==
  ASSUME TypeOK, DeliveryInv, NEW w \in Workers, MarkProcessed(w)
  PROVE  DeliveryInv'
<1>1. /\ Reliable' => Reliable
      /\ UNCHANGED <<rows, batchStatus, accepted, ambiguous>>
  BY ReliableBefore DEF MarkProcessed, batchVars
<1>2. /\ runnerPc'[w] \in {"next", "threw"}
      /\ \A v \in Workers : v # w => /\ runnerPc'[v] = runnerPc[v]
                                     /\ runnerBatch'[v] = runnerBatch[v]
  BY DEF TypeOK, MarkProcessed, EndOfBatch, RunnerGoes
<1> QED BY <1>1, <1>2, Quiet DEF Holds

LEMMA DeliveryCrash == ASSUME TypeOK, DeliveryInv, Crash PROVE DeliveryInv'
<1>1. /\ Reliable' => Reliable
      /\ UNCHANGED <<rows, batchStatus, accepted, ambiguous>>
  BY ReliableBefore DEF Crash, batchVars
<1>2. \A w \in Workers : runnerPc'[w] \in {"idle", "finished"} BY DEF Crash
<1> QED BY <1>1, <1>2, Quiet DEF Holds

LEMMA DeliveryStep == TypeOK /\ DeliveryInv /\ [Next]_vars => DeliveryInv'
<1> SUFFICES ASSUME TypeOK, DeliveryInv, [Next]_vars PROVE DeliveryInv' OBVIOUS
<1>1. CASE \E j \in Jobs : JobStep(j) BY <1>1, DeliveryJobs
<1>2. CASE \/ \E j \in Jobs : CreateEmail(j)
           \/ \E q \in Requests :
                 LoadForRetry(q) \/ \E j \in Jobs : RetryEmail(q, j)
  <2>1. /\ Reliable' => Reliable
        /\ UNCHANGED <<rows, batchStatus, accepted, ambiguous, runnerPc,
                       runnerBatch>>
    BY <1>2, ReliableBefore
    DEF CreateEmail, LoadForRetry, RetryEmail, Answered, batchVars, runnerVars
  <2> QED BY <2>1, Quiet DEF Holds
<1>3. CASE \E w \in Workers : RunnerStep(w)
  BY <1>3, DeliveryTake, DeliveryLockBatch, DeliveryCallProvider,
     DeliverySaveSubmitted, DeliverySaveFailed, DeliveryMark DEF RunnerStep
<1>4. CASE Crash BY <1>4, DeliveryCrash
<1>5. CASE UNCHANGED vars
  BY <1>5, Quiet DEF vars, batchVars, runnerVars, Holds, Reliable
<1> QED BY <1>1, <1>2, <1>3, <1>4, <1>5 DEF Next

THEOREM Delivery_inductive == Spec => [](TypeOK /\ DeliveryInv)
<1>1. Init => TypeOK /\ DeliveryInv BY TypeInit, DeliveryInit
<1>2. TypeOK /\ DeliveryInv /\ [Next]_vars => (TypeOK /\ DeliveryInv)'
  BY TypeStep, DeliveryStep
<1> QED BY <1>1, <1>2, PTL DEF Spec

\* Two runners never hold the same batch, with any number of jobs, retries and
\* crashes, as long as no answer of the database is lost.
THEOREM BatchMutex_holds == Spec => []BatchMutex
<1>1. TypeOK /\ DeliveryInv => BatchMutex
  BY DEF DeliveryInv, Known, HeldByOne, BatchMutex
<1> QED BY <1>1, Delivery_inductive, PTL

\* No batch is handed to the provider more than once more than calls failed
\* although the provider took it.
THEOREM NoRepeatDelivery_holds == Spec => []NoRepeatDelivery
<1>1. ASSUME TypeOK, DeliveryInv PROVE NoRepeatDelivery
  <2> SUFFICES ASSUME Reliable, NEW b \in Batches
               PROVE  accepted[b] <= ambiguous[b] + 1
    BY DEF NoRepeatDelivery
  <2>1. accepted[b] \in {ambiguous[b], ambiguous[b] + 1} BY <1>1 DEF DeliveryInv, Known, KnownByStatus
  <2>2. ambiguous[b] \in Nat BY <1>1 DEF TypeOK
  <2> QED BY <2>1, <2>2
<1> QED BY <1>1, Delivery_inductive, PTL

\* A batch that a retry may take was never delivered as far as is known.
THEOREM RetryableNotDelivered_holds == Spec => []RetryableNotDelivered
<1>1. TypeOK /\ DeliveryInv => RetryableNotDelivered
  BY DEF DeliveryInv, Known, KnownByStatus, RetryableNotDelivered
<1> QED BY <1>1, Delivery_inductive, PTL

\* A batch written as submitted stays submitted.
THEOREM SubmittedBatchIsFinal_holds == Spec => SubmittedBatchIsFinal
<1> DEFINE Keeps == Reliable => \A b \in Batches :
              batchStatus[b] = "submitted" => batchStatus'[b] = "submitted"
<1>1. ASSUME TypeOK, DeliveryInv, [Next]_vars PROVE Keeps
  <2> SUFFICES ASSUME Reliable, NEW b \in Batches, batchStatus[b] = "submitted"
               PROVE  batchStatus'[b] = "submitted"
    OBVIOUS
  <2>0. Known BY <1>1 DEF DeliveryInv
  <2>1. CASE UNCHANGED batchStatus BY <2>1
  <2>2. ASSUME NEW j \in Jobs, CreateBatch(j), ~UNCHANGED batchStatus
        PROVE  batchStatus'[b] = "submitted"
    <3>1. batchStatus[rows + 1] = "none" /\ rows + 1 \in Batches
      BY <1>1, <2>0, <2>2, RowIds, BatchesAssumption
      DEF TypeOK, CreateBatch, Known, UnusedRows
    <3> QED BY <1>1, <2>2, <3>1 DEF TypeOK, CreateBatch
  <2>3. ASSUME NEW w \in Workers, LockBatch(w), ~UNCHANGED batchStatus
        PROVE  batchStatus'[b] = "submitted"
    BY <1>1, <2>3 DEF TypeOK, LockBatch, AllowedStatuses
  <2>4. ASSUME NEW w \in Workers, SaveBatchSubmitted(w)
        PROVE  batchStatus'[b] = "submitted"
    BY <1>1, <2>4 DEF TypeOK, SaveBatchSubmitted
  <2>5. ASSUME NEW w \in Workers, SaveBatchFailed(w)
        PROVE  batchStatus'[b] = "submitted"
    <3>1. ~Holds(w, b) BY <2>0 DEF Known, HeldIsSubmitting
    <3>2. runnerBatch[w] # b BY <2>5, <3>1 DEF SaveBatchFailed, Holds
    <3> QED BY <1>1, <2>5, <3>2 DEF TypeOK, SaveBatchFailed
  <2>6. CASE \/ UNCHANGED vars \/ Crash
             \/ \E j \in Jobs : CreateEmail(j) \/ (JobStep(j) /\ ~CreateBatch(j))
             \/ \E q \in Requests :
                   LoadForRetry(q) \/ \E j \in Jobs : RetryEmail(q, j)
             \/ \E w \in Workers : TakeBatch(w) \/ CallProvider(w) \/ MarkProcessed(w)
    BY <2>1, <2>6
    DEF vars, batchVars, Crash, CreateEmail, JobStep, LockEmail, LoadBatches,
        BatchesCreated, RunnersSettled, SaveEmailSubmitted, SaveEmailFailed,
        LoadForRetry, RetryEmail, TakeBatch, CallProvider, MarkProcessed
  <2> QED BY <1>1, <2>1, <2>2, <2>3, <2>4, <2>5, <2>6 DEF Next, RunnerStep, JobStep
<1>2. [](TypeOK /\ DeliveryInv) /\ [][Next]_vars => [][Keeps]_vars
  BY <1>1, PTL
<1> QED BY <1>2, Delivery_inductive, PTL DEF Spec, SubmittedBatchIsFinal

-----------------------------------------------------------------------------
\* Implementation of the delivery protocol.

Phase     == [b \in Batches |-> PhaseOf(batchStatus[b])]
Confirmed == [b \in Batches |-> accepted[b] - ambiguous[b]]

LEMMA Phases ==
  /\ PhaseOf("none") = "absent"
  /\ PhaseOf("pending") = "open"
  /\ PhaseOf("failed") = "open"
  /\ PhaseOf("submitting") = "claimed"
  /\ PhaseOf("submitted") = "settled"
  BY DEF PhaseOf

\* Writing the status of one batch moves that batch, and none is confirmed.
LEMMA StatusMoves ==
  ASSUME TypeOK, NEW b \in Batches, NEW status,
         batchStatus' = [batchStatus EXCEPT ![b] = status],
         UNCHANGED <<accepted, ambiguous>>
  PROVE  /\ Phase' = [Phase EXCEPT ![b] = PhaseOf(status)]
         /\ Confirmed' = Confirmed
  BY DEF TypeOK, Phase, Confirmed

\* A step that leaves the batches alone is a stutter of the protocol.
LEMMA Stutters ==
  ASSUME UNCHANGED <<batchStatus, accepted, ambiguous>>
  PROVE  UNCHANGED <<Phase, Confirmed>>
  BY DEF Phase, Confirmed

LEMMA SimulateCreate ==
  ASSUME TypeOK, Known, NEW j \in Jobs, CreateBatch(j)
  PROVE  Delivery!Next \/ UNCHANGED <<Phase, Confirmed>>
<1>0. UNCHANGED <<accepted, ambiguous>> BY DEF CreateBatch
<1>1. CASE UNCHANGED batchStatus BY <1>0, <1>1, Stutters
<1>2. CASE ~UNCHANGED batchStatus
  <2> DEFINE b == rows + 1
  <2>1. b \in Batches BY <1>2, RowIds DEF CreateBatch
  <2>2. batchStatus' = [batchStatus EXCEPT ![b] = "pending"]
    BY <1>2 DEF CreateBatch
  <2>3. Phase[b] = "absent"
    BY <2>1, Phases, BatchesAssumption DEF Phase, Known, UnusedRows, TypeOK
  <2>7. Phase' = [Phase EXCEPT ![b] = "open"] /\ Confirmed' = Confirmed
    BY <1>0, <2>1, <2>2, StatusMoves, Phases
  <2>4. Delivery!Create(b)
    BY <2>3, <2>7 DEF Delivery!Create, Delivery!Moves, Phase, Confirmed
  <2> QED BY <2>1, <2>4 DEF Delivery!Next
<1> QED BY <1>1, <1>2

LEMMA SimulateLock ==
  ASSUME TypeOK, Known, NEW w \in Workers, LockBatch(w)
  PROVE  Delivery!Next \/ UNCHANGED <<Phase, Confirmed>>
<1> DEFINE b == runnerBatch[w]
<1>0. UNCHANGED <<accepted, ambiguous>> BY DEF LockBatch
<1>1. CASE UNCHANGED batchStatus BY <1>0, <1>1, Stutters
<1>2. CASE ~UNCHANGED batchStatus
  <2>1. /\ batchStatus[b] \in {"pending", "failed"}
        /\ batchStatus' = [batchStatus EXCEPT ![b] = "submitting"]
    BY <1>2 DEF LockBatch, AllowedStatuses
  <2>2. b \in Batches BY <1>2, <2>1 DEF TypeOK
  <2>3. Phase[b] = "open" BY <2>1, <2>2, Phases DEF Phase
  <2>7. Phase' = [Phase EXCEPT ![b] = "claimed"] /\ Confirmed' = Confirmed
    BY <1>0, <2>1, <2>2, StatusMoves, Phases
  <2>4. Delivery!Claim(b)
    BY <2>3, <2>7 DEF Delivery!Claim, Delivery!Moves, Phase, Confirmed
  <2> QED BY <2>2, <2>4 DEF Delivery!Next
<1> QED BY <1>1, <1>2

LEMMA SimulateCall ==
  ASSUME TypeOK, Known, NEW w \in Workers, CallProvider(w)
  PROVE  Delivery!Next \/ UNCHANGED <<Phase, Confirmed>>
<1> DEFINE b == runnerBatch[w]
<1>0. Phase' = Phase BY DEF CallProvider, Phase
<1>1. CASE b \notin Batches
  <2>1. UNCHANGED <<accepted, ambiguous>> BY <1>1 DEF TypeOK, CallProvider
  <2> QED BY <1>0, <2>1 DEF Confirmed
<1>2. CASE b \in Batches
  <2>1. Holds(w, b) /\ runnerPc[w] = "send" BY DEF CallProvider, Holds
  <2>2. batchStatus[b] = "submitting" /\ accepted[b] = ambiguous[b]
    BY <1>2, <2>1 DEF Known, HeldIsSubmitting, KnownByHolder
  <2>3. accepted[b] \in Nat /\ ambiguous[b] \in Nat BY <1>2 DEF TypeOK
  <2>4. Phase[b] = "claimed" /\ Confirmed[b] = 0
    BY <1>2, <2>2, <2>3, Phases DEF Phase, Confirmed
  <2>5. CASE /\ accepted' = [accepted EXCEPT ![b] = @ + 1]
             /\ UNCHANGED ambiguous
    <3>0. \A c \in Batches : accepted'[c] - ambiguous'[c] =
            IF c = b THEN 1 ELSE accepted[c] - ambiguous[c]
      BY <1>2, <2>2, <2>3, <2>5 DEF TypeOK
    <3>1. Confirmed' = [Confirmed EXCEPT ![b] = 1]
      BY <1>2, <3>0 DEF Confirmed
    <3>2. PICK c \in Batches : c = b BY <1>2
    <3>3. Delivery!Confirm(c)
      BY <1>0, <2>4, <3>1, <3>2 DEF Delivery!Confirm, Phase, Confirmed
    <3> QED BY <3>3 DEF Delivery!Next
  <2>6. CASE \/ UNCHANGED <<accepted, ambiguous>>
             \/ /\ accepted' = [accepted EXCEPT ![b] = @ + 1]
                /\ ambiguous' = [ambiguous EXCEPT ![b] = @ + 1]
    <3>1. \A c \in Batches : accepted'[c] - ambiguous'[c] = accepted[c] - ambiguous[c]
      BY <2>3, <2>6 DEF TypeOK
    <3> QED BY <1>0, <3>1 DEF Confirmed
  <2> QED BY <2>5, <2>6 DEF CallProvider
<1> QED BY <1>1, <1>2

LEMMA SimulateSubmitted ==
  ASSUME TypeOK, Known, NEW w \in Workers, SaveBatchSubmitted(w)
  PROVE  Delivery!Next \/ UNCHANGED <<Phase, Confirmed>>
<1> DEFINE b == runnerBatch[w]
<1>0. UNCHANGED <<accepted, ambiguous>> BY DEF SaveBatchSubmitted
<1>1. CASE UNCHANGED batchStatus BY <1>0, <1>1, Stutters
<1>2. CASE ~UNCHANGED batchStatus
  <2>1. batchStatus' = [batchStatus EXCEPT ![b] = "submitted"]
    BY <1>2 DEF SaveBatchSubmitted
  <2>2. b \in Batches BY <1>2, <2>1 DEF TypeOK
  <2>3. Holds(w, b) /\ runnerPc[w] = "save_submitted"
    BY DEF SaveBatchSubmitted, Holds
  <2>4. batchStatus[b] = "submitting" /\ accepted[b] = ambiguous[b] + 1
    BY <2>2, <2>3 DEF Known, HeldIsSubmitting, KnownByHolder
  <2>5. Phase[b] = "claimed" /\ Confirmed[b] = 1
    BY <2>2, <2>4, Phases DEF TypeOK, Phase, Confirmed
  <2>7. Phase' = [Phase EXCEPT ![b] = "settled"] /\ Confirmed' = Confirmed
    BY <1>0, <2>1, <2>2, StatusMoves, Phases
  <2>6. Delivery!Settle(b)
    BY <2>5, <2>7 DEF Delivery!Settle, Delivery!Moves, Phase, Confirmed
  <2> QED BY <2>2, <2>6 DEF Delivery!Next
<1> QED BY <1>1, <1>2

LEMMA SimulateFailed ==
  ASSUME TypeOK, Known, NEW w \in Workers, SaveBatchFailed(w)
  PROVE  Delivery!Next \/ UNCHANGED <<Phase, Confirmed>>
<1> DEFINE b == runnerBatch[w]
<1>0. UNCHANGED <<accepted, ambiguous>> BY DEF SaveBatchFailed
<1>1. CASE UNCHANGED batchStatus BY <1>0, <1>1, Stutters
<1>2. CASE ~UNCHANGED batchStatus
  <2>1. batchStatus' = [batchStatus EXCEPT ![b] = "failed"]
    BY <1>2 DEF SaveBatchFailed
  <2>2. b \in Batches BY <1>2, <2>1 DEF TypeOK
  <2>3. Holds(w, b) /\ runnerPc[w] = "save_failed"
    BY DEF SaveBatchFailed, Holds
  <2>4. batchStatus[b] = "submitting" /\ accepted[b] = ambiguous[b]
    BY <2>2, <2>3 DEF Known, HeldIsSubmitting, KnownByHolder
  <2>5. Phase[b] = "claimed" /\ Confirmed[b] = 0
    BY <2>2, <2>4, Phases DEF TypeOK, Phase, Confirmed
  <2>7. Phase' = [Phase EXCEPT ![b] = "open"] /\ Confirmed' = Confirmed
    BY <1>0, <2>1, <2>2, StatusMoves, Phases
  <2>6. Delivery!Release(b)
    BY <2>5, <2>7 DEF Delivery!Release, Delivery!Moves, Phase, Confirmed
  <2> QED BY <2>2, <2>6 DEF Delivery!Next
<1> QED BY <1>1, <1>2

\* Every step of the service is a step of the protocol, or touches no batch.
LEMMA Simulation ==
  ASSUME TypeOK, Known, [Next]_vars
  PROVE  Delivery!Next \/ UNCHANGED <<Phase, Confirmed>>
<1>1. CASE UNCHANGED <<batchStatus, accepted, ambiguous>> BY <1>1, Stutters
<1>2. CASE \E w \in Workers : RunnerStep(w)
  BY <1>1, <1>2, SimulateLock, SimulateCall, SimulateSubmitted, SimulateFailed
  DEF RunnerStep, TakeBatch, MarkProcessed, batchVars
<1>3. CASE \E j \in Jobs : CreateEmail(j) \/ JobStep(j)
  BY <1>1, <1>3, SimulateCreate
  DEF JobStep, CreateEmail, LockEmail, LoadBatches, BatchesCreated,
      RunnersSettled, SaveEmailSubmitted, SaveEmailFailed, batchVars
<1>4. CASE \/ UNCHANGED vars \/ Crash
           \/ \E q \in Requests :
                 LoadForRetry(q) \/ \E j \in Jobs : RetryEmail(q, j)
  BY <1>1, <1>4 DEF vars, batchVars, Crash, LoadForRetry, RetryEmail
<1> QED BY <1>2, <1>3, <1>4 DEF Next

\* When no answer can be lost, the batches implement BatchDelivery.
THEOREM ImplementsDelivery_holds ==
  ASSUME MaxFaults["reply"] = 0
  PROVE  Spec => ImplementsDelivery
<1>1. TypeOK /\ Reliable /\ [Next]_vars => Reliable'
  <2> SUFFICES ASSUME TypeOK, Reliable, [Next]_vars PROVE Reliable' OBVIOUS
  <2>1. ~Fault("reply") BY DEF Fault, Reliable
  <2>2. {"error", "reply", "provider", "crash"} \subseteq FaultKinds
    BY DEF FaultKinds
  <2>3. Answered => Reliable' BY DEF Answered, Reliable
  <2>4. Fault("error") \/ Fault("provider") \/ Fault("crash") => Reliable'
    BY <2>2, FaultCounted
  <2>5. ASSUME NEW j \in Jobs, CreateEmail(j) \/ JobStep(j) PROVE Reliable'
    BY <2>1, <2>3, <2>4, <2>5
    DEF CreateEmail, JobStep, LockEmail, LoadBatches, CreateBatch,
        BatchesCreated, RunnersSettled, SaveEmailSubmitted, SaveEmailFailed,
        JobWrote, Answered
  <2>6. ASSUME NEW w \in Workers, RunnerStep(w) PROVE Reliable'
    BY <2>1, <2>3, <2>4, <2>6
    DEF RunnerStep, TakeBatch, LockBatch, CallProvider, SaveBatchSubmitted,
        SaveBatchFailed, MarkProcessed, RunnerWrote, Answered
  <2>7. ASSUME NEW q \in Requests,
               LoadForRetry(q) \/ \E j \in Jobs : RetryEmail(q, j)
        PROVE  Reliable'
    BY <2>3, <2>4, <2>7 DEF LoadForRetry, RetryEmail, Answered
  <2> QED BY <2>3, <2>4, <2>5, <2>6, <2>7 DEF Next, Crash, vars, Answered
<1>2. Init => Reliable BY DEF Init, Reliable, FaultKinds
<1>3. Init => Delivery!Init
  BY Phases DEF Init, Delivery!Init
<1>4. TypeOK /\ DeliveryInv /\ Reliable /\ [Next]_vars
        => [Delivery!Next]_<<Phase, Confirmed>>
  BY Simulation DEF DeliveryInv
<1>5. [](TypeOK /\ DeliveryInv /\ Reliable) /\ [][Next]_vars
        => [][Delivery!Next]_<<Phase, Confirmed>>
  BY <1>4, PTL
<1>6. Spec => [](TypeOK /\ DeliveryInv /\ Reliable)
  BY <1>1, <1>2, Delivery_inductive, PTL DEF Spec
<1> QED BY <1>3, <1>5, <1>6, PTL
        DEF Spec, ImplementsDelivery, Delivery!Spec, Phase, Confirmed

-----------------------------------------------------------------------------
\* Lost answers.  With them several runners may hold a batch: one that was
\* told nothing of its write of "failed" writes it again over the lock of
\* another.  What stays true is a budget: the known deliveries of a batch, the
\* runners that may still deliver it or open it again, and the one that may
\* come and take it when it is open never exceed one and a lost answer each.

Trying(b) ==
    {w \in Workers : runnerBatch[w] = b /\ runnerPc[w] \in {"send", "save_failed"}}

Open(b) == IF batchStatus[b] \in {"none", "pending", "failed"} THEN 1 ELSE 0

Spent(b)  == accepted[b] + Open(b)
Credit(b) == ambiguous[b] + 1 + faults["reply"]

Budget(b) ==
    /\ IsFiniteSet(Trying(b))
    /\ Spent(b) + Cardinality(Trying(b)) <= Credit(b)

HeldIsRow == \A w \in Workers : \A b \in Batches : Holds(w, b) => b <= rows

RepeatsInv == UnusedRows /\ HeldIsRow /\ \A b \in Batches : Budget(b)

\* What the size of a set says of the sets that are a little less or more.
LEMMA Sizes ==
  ASSUME NEW S, IsFiniteSet(S)
  PROVE  /\ Cardinality(S) \in Nat
         /\ \A T \in SUBSET S : /\ IsFiniteSet(T) /\ Cardinality(T) \in Nat
                                /\ Cardinality(T) <= Cardinality(S)
         /\ \A n, T : T \subseteq S \cup {n} =>
              /\ IsFiniteSet(T) /\ Cardinality(T) \in Nat
              /\ Cardinality(T) <= Cardinality(S) + 1
         /\ \A n \in S : \A T \in SUBSET (S \ {n}) :
              /\ IsFiniteSet(T) /\ Cardinality(T) \in Nat
              /\ Cardinality(T) <= Cardinality(S) - 1
<1>1. Cardinality(S) \in Nat BY FS_CardinalityType
<1>2. ASSUME NEW T \in SUBSET S
      PROVE  /\ IsFiniteSet(T) /\ Cardinality(T) \in Nat
             /\ Cardinality(T) <= Cardinality(S)
  BY FS_Subset, FS_CardinalityType
<1>3. ASSUME NEW n, NEW T, T \subseteq S \cup {n}
      PROVE  /\ IsFiniteSet(T) /\ Cardinality(T) \in Nat
             /\ Cardinality(T) <= Cardinality(S) + 1
  <2>1. IsFiniteSet(S \cup {n}) /\ Cardinality(S \cup {n}) <= Cardinality(S) + 1
    BY <1>1, FS_AddElement
  <2>2. Cardinality(S \cup {n}) \in Nat BY <2>1, FS_CardinalityType
  <2>3. IsFiniteSet(T) /\ Cardinality(T) <= Cardinality(S \cup {n})
    BY <1>3, <2>1, FS_Subset
  <2>4. Cardinality(T) \in Nat BY <2>3, FS_CardinalityType
  <2> QED BY <1>1, <2>1, <2>2, <2>3, <2>4
<1>4. ASSUME NEW n \in S, NEW T \in SUBSET (S \ {n})
      PROVE  /\ IsFiniteSet(T) /\ Cardinality(T) \in Nat
             /\ Cardinality(T) <= Cardinality(S) - 1
  <2>1. IsFiniteSet(S \ {n}) /\ Cardinality(S \ {n}) = Cardinality(S) - 1
    BY FS_RemoveElement
  <2>2. IsFiniteSet(T) /\ Cardinality(T) <= Cardinality(S \ {n}) BY <2>1, FS_Subset
  <2>3. Cardinality(T) \in Nat BY <2>2, FS_CardinalityType
  <2> QED BY <2>1, <2>2, <2>3
<1> QED BY <1>1, <1>2, <1>3, <1>4

LEMMA BudgetTyped ==
  ASSUME TypeOK, NEW b \in Batches
  PROVE  Spent(b) \in Nat /\ Credit(b) \in Nat
<1>1. accepted[b] \in Nat /\ ambiguous[b] \in Nat /\ faults["reply"] \in Nat
  BY DEF TypeOK, FaultKinds
<1> QED BY <1>1 DEF Spent, Credit, Open

\* The three ways in which a step keeps within the budget.
LEMMA BudgetKept ==
  ASSUME TypeOK, TypeOK', NEW b \in Batches, Budget(b), NEW w,
         \/ /\ Trying(b)' \subseteq Trying(b)
            /\ Spent(b)' + Credit(b) <= Spent(b) + Credit(b)'
         \/ /\ Trying(b)' \subseteq Trying(b) \cup {w}
            /\ Spent(b)' + Credit(b) + 1 <= Spent(b) + Credit(b)'
         \/ /\ w \in Trying(b) /\ Trying(b)' \subseteq Trying(b) \ {w}
            /\ Spent(b)' + Credit(b) <= Spent(b) + Credit(b)' + 1
  PROVE  Budget(b)'
<1>1. /\ Spent(b) \in Nat /\ Credit(b) \in Nat
      /\ Spent(b)' \in Nat /\ Credit(b)' \in Nat
  <2>1. Spent(b) \in Nat /\ Credit(b) \in Nat BY BudgetTyped
  <2>2. /\ accepted'[b] \in Nat /\ ambiguous'[b] \in Nat
        /\ faults'["reply"] \in Nat
    BY DEF TypeOK, FaultKinds
  <2> QED BY <2>1, <2>2 DEF Spent, Credit, Open
<1>2. /\ IsFiniteSet(Trying(b))
      /\ Spent(b) + Cardinality(Trying(b)) <= Credit(b)
  BY DEF Budget
<1> DEFINE T == Trying(b)
           U == Trying(b)'
<1>3. Cardinality(T) \in Nat BY <1>2, Sizes
<1>4. /\ IsFiniteSet(U) /\ Cardinality(U) \in Nat
      /\ \/ /\ Cardinality(U) <= Cardinality(T)
            /\ Spent(b)' + Credit(b) <= Spent(b) + Credit(b)'
         \/ /\ Cardinality(U) <= Cardinality(T) + 1
            /\ Spent(b)' + Credit(b) + 1 <= Spent(b) + Credit(b)'
         \/ /\ Cardinality(U) <= Cardinality(T) - 1
            /\ Spent(b)' + Credit(b) <= Spent(b) + Credit(b)' + 1
  <2> HIDE DEF T, U
  <2>1. CASE U \subseteq T /\ Spent(b)' + Credit(b) <= Spent(b) + Credit(b)'
    BY <1>2, <2>1, Sizes DEF T
  <2>2. CASE /\ U \subseteq T \cup {w}
             /\ Spent(b)' + Credit(b) + 1 <= Spent(b) + Credit(b)'
    BY <1>2, <2>2, Sizes DEF T
  <2>3. CASE /\ w \in T /\ U \subseteq T \ {w}
             /\ Spent(b)' + Credit(b) <= Spent(b) + Credit(b)' + 1
    BY <1>2, <2>3, Sizes DEF T
  <2> QED BY <2>1, <2>2, <2>3 DEF T, U
<1> DEFINE s == Spent(b)  s1 == Spent(b)'  c == Credit(b)  c1 == Credit(b)'
           t == Cardinality(T)  u == Cardinality(U)
<1>5. s1 + u <= c1
  <2>1. /\ s \in Nat /\ s1 \in Nat /\ c \in Nat /\ c1 \in Nat
        /\ t \in Nat /\ u \in Nat
    BY <1>1, <1>3, <1>4
  <2>2. s + t <= c BY <1>2
  <2>3. \/ u <= t /\ s1 + c <= s + c1
        \/ u <= t + 1 /\ s1 + c + 1 <= s + c1
        \/ u <= t - 1 /\ s1 + c <= s + c1 + 1
    BY <1>4
  <2> HIDE DEF s, s1, c, c1, t, u
  <2> QED BY <2>1, <2>2, <2>3
<1> QED BY <1>4, <1>5 DEF Budget

\* Lost answers are counted, and the count never goes down.
LEMMA RepliesCounted ==
  ASSUME TypeOK, Answered \/ Fault("error") \/ Fault("reply")
                 \/ Fault("provider") \/ Fault("crash")
  PROVE  /\ faults["reply"] \in Nat /\ faults'["reply"] \in Nat
         /\ faults'["reply"] >= faults["reply"]
         /\ Fault("reply") => faults'["reply"] = faults["reply"] + 1
<1>1. {"error", "reply", "provider", "crash"} \subseteq FaultKinds
  BY DEF FaultKinds
<1>2. faults \in [FaultKinds -> Nat] BY DEF TypeOK
<1> QED BY <1>1, <1>2 DEF Answered, Fault

\* A step that leaves the batch and its runners alone, or lets it go.
LEMMA BudgetQuiet ==
  ASSUME TypeOK, TypeOK', NEW b \in Batches, Budget(b),
         Answered \/ Fault("error") \/ Fault("reply")
           \/ Fault("provider") \/ Fault("crash"),
         UNCHANGED <<accepted[b], ambiguous[b]>>, Open(b)' <= Open(b),
         Trying(b)' \subseteq Trying(b)
  PROVE  Budget(b)'
<1>1. faults'["reply"] >= faults["reply"]
      /\ faults["reply"] \in Nat /\ faults'["reply"] \in Nat
  BY RepliesCounted
<1>2. accepted[b] \in Nat /\ ambiguous[b] \in Nat BY DEF TypeOK
<1>3. Open(b) \in Nat /\ Open(b)' \in Nat BY DEF Open
<1>4. Spent(b)' + Credit(b) <= Spent(b) + Credit(b)'
  BY <1>1, <1>2, <1>3 DEF Spent, Credit
<1> QED BY <1>4, BudgetKept

\* Where a runner that moves alone leaves the others.
LEMMA TryingMoves ==
  ASSUME TypeOK, NEW w \in Workers, NEW b \in Batches,
         \A v \in Workers : v # w => /\ runnerPc'[v] = runnerPc[v]
                                     /\ runnerBatch'[v] = runnerBatch[v]
  PROVE  /\ Trying(b)' \subseteq Trying(b) \cup {w}
         /\ (runnerBatch'[w] # b \/ runnerPc'[w] \notin {"send", "save_failed"})
              => Trying(b)' \subseteq Trying(b) \ {w}
         /\ (runnerBatch[w] = b /\ runnerPc[w] \in {"send", "save_failed"})
              => w \in Trying(b) /\ Trying(b)' \subseteq Trying(b)
  BY DEF Trying

LEMMA BudgetLock ==
  ASSUME TypeOK, TypeOK', NEW w \in Workers, LockBatch(w),
         NEW b \in Batches, Budget(b)
  PROVE  Budget(b)'
<1>0. /\ Answered \/ Fault("error") \/ Fault("reply")
      /\ UNCHANGED <<accepted, ambiguous>>
      /\ \A v \in Workers : v # w => /\ runnerPc'[v] = runnerPc[v]
                                     /\ runnerBatch'[v] = runnerBatch[v]
  BY DEF TypeOK, LockBatch, RunnerWrote, EndOfBatch, RunnerGoes
<1>1. CASE /\ UNCHANGED batchStatus
           /\ EndOfBatch(w, "next") \/ EndOfBatch(w, "threw")
  <2>1. runnerPc'[w] \notin {"send", "save_failed"}
    BY <1>1 DEF TypeOK, EndOfBatch, RunnerGoes
  <2>2. Trying(b)' \subseteq Trying(b) BY <1>0, <2>1, TryingMoves
  <2>3. Open(b)' <= Open(b) BY <1>1 DEF Open
  <2> QED BY <1>0, <2>2, <2>3, BudgetQuiet
<1>2. CASE /\ batchStatus[runnerBatch[w]] \in AllowedStatuses
           /\ batchStatus' = [batchStatus EXCEPT ![runnerBatch[w]] = "submitting"]
           /\ RunnerWrote(w, "send") /\ UNCHANGED runnerBatch
  <2>0. /\ Open(b)' <= Open(b)
        /\ b = runnerBatch[w] => Open(b) = 1 /\ Open(b)' = 0
        /\ Open(b) \in Nat
    BY <1>2 DEF TypeOK, Open, AllowedStatuses
  <2>1. CASE UNCHANGED runnerPc \/ b # runnerBatch[w]
    <3>1. Trying(b)' \subseteq Trying(b) BY <1>0, <1>2, <2>1 DEF Trying
    <3> QED BY <1>0, <2>0, <3>1, BudgetQuiet
  <2>2. CASE b = runnerBatch[w] /\ Answered
    <3>1. Trying(b)' \subseteq Trying(b) \cup {w} BY <1>0, TryingMoves
    <3>2. /\ accepted[b] \in Nat /\ ambiguous[b] \in Nat
          /\ faults["reply"] \in Nat
      BY DEF TypeOK, FaultKinds
    <3>3. Spent(b)' + Credit(b) + 1 <= Spent(b) + Credit(b)'
      BY <1>0, <2>0, <2>2, <3>2 DEF Spent, Credit, Answered
    <3> QED BY <3>1, <3>3, BudgetKept
  <2> QED BY <1>2, <2>1, <2>2 DEF RunnerWrote
<1> QED BY <1>1, <1>2 DEF LockBatch

LEMMA BudgetCall ==
  ASSUME TypeOK, TypeOK', NEW w \in Workers, CallProvider(w),
         NEW b \in Batches, Budget(b)
  PROVE  Budget(b)'
<1>0. /\ Answered \/ Fault("error") \/ Fault("provider")
      /\ runnerPc[w] = "send"
      /\ UNCHANGED <<batchStatus, runnerBatch>>
      /\ \A v \in Workers : v # w => runnerPc'[v] = runnerPc[v]
  BY DEF TypeOK, CallProvider, EndOfTries, RunnerGoes
<1>1. Open(b)' = Open(b) /\ Open(b) \in Nat BY <1>0 DEF Open
<1>2. /\ accepted[b] \in Nat /\ ambiguous[b] \in Nat
      /\ accepted'[b] \in Nat /\ ambiguous'[b] \in Nat
  BY DEF TypeOK
<1>3. /\ faults'["reply"] >= faults["reply"]
      /\ faults["reply"] \in Nat /\ faults'["reply"] \in Nat
  BY <1>0, RepliesCounted
<1>4. CASE b # runnerBatch[w]
  <2>1. UNCHANGED <<accepted[b], ambiguous[b]>>
    BY <1>4 DEF TypeOK, CallProvider
  <2>2. Trying(b)' \subseteq Trying(b) BY <1>0, <1>4 DEF Trying
  <2> QED BY <1>0, <1>1, <2>1, <2>2, BudgetQuiet
<1>5. CASE b = runnerBatch[w]
  <2>1. w \in Trying(b) /\ Trying(b)' \subseteq Trying(b)
    BY <1>0, <1>5, TryingMoves
  <2>2. CASE accepted' = [accepted EXCEPT ![b] = @ + 1] /\ UNCHANGED ambiguous
             /\ EndOfTries(w, "save_submitted")
    <3>1. runnerPc'[w] = "save_submitted"
      BY <2>2 DEF TypeOK, EndOfTries, RunnerGoes
    <3>2. Trying(b)' \subseteq Trying(b) \ {w} BY <1>0, <3>1, TryingMoves
    <3>3. accepted'[b] = accepted[b] + 1 BY <2>2 DEF TypeOK
    <3>4. Spent(b)' + Credit(b) <= Spent(b) + Credit(b)' + 1
      BY <1>1, <1>2, <1>3, <2>2, <3>3 DEF Spent, Credit
    <3> QED BY <2>1, <3>2, <3>4, BudgetKept
  <2>3. CASE \/ UNCHANGED <<accepted, ambiguous>>
             \/ /\ accepted' = [accepted EXCEPT ![b] = @ + 1]
                /\ ambiguous' = [ambiguous EXCEPT ![b] = @ + 1]
    <3>1. accepted'[b] + ambiguous[b] = accepted[b] + ambiguous'[b]
      BY <1>2, <2>3 DEF TypeOK
    <3>2. Spent(b)' + Credit(b) <= Spent(b) + Credit(b)'
      BY <1>1, <1>2, <1>3, <3>1 DEF Spent, Credit
    <3> QED BY <2>1, <3>2, BudgetKept
  <2> QED BY <1>5, <2>2, <2>3 DEF CallProvider
<1> QED BY <1>4, <1>5

LEMMA BudgetSubmitted ==
  ASSUME TypeOK, TypeOK', NEW w \in Workers, SaveBatchSubmitted(w),
         NEW b \in Batches, Budget(b)
  PROVE  Budget(b)'
<1>1. /\ Answered \/ Fault("error") \/ Fault("reply")
      /\ UNCHANGED <<accepted, ambiguous, runnerBatch>>
      /\ runnerPc'[w] \in {"save_submitted", "mark_submitted"}
      /\ \A v \in Workers : v # w => runnerPc'[v] = runnerPc[v]
  BY DEF TypeOK, SaveBatchSubmitted, RunnerWrote, RunnerGoes
<1>2. Trying(b)' \subseteq Trying(b) BY <1>1 DEF Trying
<1>3. Open(b)' <= Open(b) BY DEF TypeOK, SaveBatchSubmitted, Open
<1> QED BY <1>1, <1>2, <1>3, BudgetQuiet

\* The write of "failed" opens the batch; when its answer is lost, the runner
\* may open it once more, at the price of the lost answer.
LEMMA BudgetFailed ==
  ASSUME TypeOK, TypeOK', NEW w \in Workers, SaveBatchFailed(w),
         NEW b \in Batches, Budget(b)
  PROVE  Budget(b)'
<1>0. /\ Answered \/ Fault("error") \/ Fault("reply")
      /\ runnerPc[w] = "save_failed"
      /\ UNCHANGED <<accepted, ambiguous>>
      /\ \A v \in Workers : v # w => /\ runnerPc'[v] = runnerPc[v]
                                     /\ runnerBatch'[v] = runnerBatch[v]
  BY DEF TypeOK, SaveBatchFailed, RunnerWrote, EndOfBatch, RunnerGoes
<1>1. CASE UNCHANGED batchStatus /\ EndOfBatch(w, "threw")
  <2>1. runnerPc'[w] = "threw" BY <1>1 DEF TypeOK, EndOfBatch, RunnerGoes
  <2>2. Trying(b)' \subseteq Trying(b) BY <1>0, <2>1, TryingMoves
  <2>3. Open(b)' <= Open(b) BY <1>1 DEF Open
  <2> QED BY <1>0, <2>2, <2>3, BudgetQuiet
<1>2. CASE /\ batchStatus' = [batchStatus EXCEPT ![runnerBatch[w]] = "failed"]
           /\ RunnerWrote(w, "mark_failed") /\ UNCHANGED runnerBatch
  <2>1. CASE b # runnerBatch[w]
    <3>1. Trying(b)' \subseteq Trying(b) BY <1>0, <1>2, <2>1 DEF Trying
    <3>2. Open(b)' <= Open(b) BY <1>2, <2>1 DEF TypeOK, Open
    <3> QED BY <1>0, <3>1, <3>2, BudgetQuiet
  <2>2. CASE b = runnerBatch[w]
    <3>1. w \in Trying(b) /\ Trying(b)' \subseteq Trying(b)
      BY <1>0, <2>2, TryingMoves
    <3>2. Open(b) \in Nat /\ Open(b)' \in Nat /\ Open(b)' <= Open(b) + 1
      BY DEF Open
    <3>3. accepted[b] \in Nat /\ ambiguous[b] \in Nat BY DEF TypeOK
    <3>4. /\ faults["reply"] \in Nat /\ faults'["reply"] \in Nat
          /\ faults'["reply"] >= faults["reply"]
          /\ Fault("reply") => faults'["reply"] = faults["reply"] + 1
      BY <1>0, RepliesCounted
    <3>5. CASE Fault("reply")
      <4>1. Spent(b)' + Credit(b) <= Spent(b) + Credit(b)'
        BY <1>0, <3>2, <3>3, <3>4, <3>5 DEF Spent, Credit
      <4> QED BY <3>1, <4>1, BudgetKept
    <3>6. CASE RunnerGoes(w, "mark_failed")
      <4>1. runnerPc'[w] = "mark_failed" BY <3>6 DEF TypeOK, RunnerGoes
      <4>2. Trying(b)' \subseteq Trying(b) \ {w} BY <1>0, <4>1, TryingMoves
      <4>3. Spent(b)' + Credit(b) <= Spent(b) + Credit(b)' + 1
        BY <1>0, <3>2, <3>3, <3>4 DEF Spent, Credit
      <4> QED BY <3>1, <4>2, <4>3, BudgetKept
    <3> QED BY <1>2, <3>5, <3>6 DEF RunnerWrote
  <2> QED BY <2>1, <2>2
<1> QED BY <1>1, <1>2 DEF SaveBatchFailed

\* The runner steps that touch no batch, and every other step.
LEMMA BudgetOthers ==
  ASSUME TypeOK, TypeOK', UnusedRows, NEW b \in Batches, Budget(b),
         \/ \E w \in Workers : TakeBatch(w) \/ MarkProcessed(w)
         \/ \E j \in Jobs : CreateEmail(j) \/ JobStep(j)
         \/ \E q \in Requests : LoadForRetry(q) \/ \E j \in Jobs : RetryEmail(q, j)
         \/ Crash
         \/ UNCHANGED vars
  PROVE  Budget(b)'
<1>1. /\ Answered \/ Fault("error") \/ Fault("reply") \/ Fault("crash")
      /\ UNCHANGED <<accepted, ambiguous>>
  BY DEF TakeBatch, MarkProcessed, CreateEmail, JobStep, LockEmail, JobWrote,
         LoadBatches, CreateBatch, BatchesCreated, RunnersSettled,
         SaveEmailSubmitted, SaveEmailFailed, LoadForRetry, RetryEmail, Crash,
         vars, batchVars, Answered
<1>2. Open(b)' <= Open(b)
  <2>1. CASE UNCHANGED batchStatus BY <2>1 DEF Open
  <2>2. ASSUME NEW j \in Jobs, CreateBatch(j), ~UNCHANGED batchStatus
        PROVE  Open(b)' <= Open(b)
    <3>1. batchStatus[rows + 1] = "none" /\ rows + 1 \in Batches
      BY <2>2, RowIds, BatchesAssumption DEF TypeOK, CreateBatch, UnusedRows
    <3> QED BY <2>2, <3>1 DEF TypeOK, CreateBatch, Open
  <2> QED BY <2>1, <2>2
      DEF TakeBatch, MarkProcessed, CreateEmail, JobStep, LockEmail,
          LoadBatches, BatchesCreated, RunnersSettled,
          SaveEmailSubmitted, SaveEmailFailed, LoadForRetry, RetryEmail, Crash,
          vars, batchVars
<1>3. Trying(b)' \subseteq Trying(b)
  <2>1. CASE UNCHANGED <<runnerPc, runnerBatch>> BY <2>1 DEF Trying
  <2>2. CASE \E w \in Workers : TakeBatch(w) \/ MarkProcessed(w)
    <3>1. PICK w \in Workers : TakeBatch(w) \/ MarkProcessed(w) BY <2>2
    <3>2. /\ runnerPc'[w] \notin {"send", "save_failed"}
          /\ \A v \in Workers : v # w => /\ runnerPc'[v] = runnerPc[v]
                                         /\ runnerBatch'[v] = runnerBatch[v]
      BY <3>1 DEF TypeOK, TakeBatch, MarkProcessed, EndOfBatch, RunnerGoes
    <3> QED BY <3>2, TryingMoves
  <2>3. CASE /\ \E j \in Jobs : \E array : StartSending(j, array)
             /\ UNCHANGED runnerBatch
    <3>1. \A w \in Workers : runnerPc'[w] \in {"next", runnerPc[w]}
      BY <2>3 DEF StartSending
    <3> QED BY <2>3, <3>1 DEF Trying
  <2>4. CASE Crash
    <3>1. \A w \in Workers : runnerPc'[w] \in {"idle", "finished"}
      BY <2>4 DEF Crash
    <3> QED BY <3>1 DEF Trying
  <2>5. CASE \E j \in Jobs : LoadBatches(j) \/ BatchesCreated(j)
    BY <2>1, <2>3, <2>5 DEF LoadBatches, BatchesCreated
  <2> QED BY <2>1, <2>2, <2>4, <2>5
      DEF CreateEmail, JobStep, LockEmail, CreateBatch, RunnersSettled,
          SaveEmailSubmitted, SaveEmailFailed, LoadForRetry, RetryEmail,
          vars, runnerVars
<1> QED BY <1>1, <1>2, <1>3, BudgetQuiet

\* A runner holds only batches that have a row, whatever answers are lost.
LEMMA RowsStep ==
  ASSUME TypeOK, TypeOK', UnusedRows, HeldIsRow, [Next]_vars
  PROVE  UnusedRows' /\ HeldIsRow'
<1>0. rows \in Nat /\ rows' \in Nat /\ \A b \in Batches : b \in Nat
  BY BatchesAssumption DEF TypeOK, Batches
<1>1. CASE \E w \in Workers : RunnerStep(w)
  <2> PICK w \in Workers : RunnerStep(w) BY <1>1
  <2>0. rows' = rows
    BY DEF RunnerStep, TakeBatch, LockBatch, CallProvider, SaveBatchSubmitted,
           SaveBatchFailed, MarkProcessed, batchVars
  <2>1. \A v \in Workers : v # w => /\ runnerPc'[v] = runnerPc[v]
                                    /\ runnerBatch'[v] = runnerBatch[v]
    BY DEF TypeOK, RunnerStep, TakeBatch, LockBatch, CallProvider,
           SaveBatchSubmitted, SaveBatchFailed, MarkProcessed, RunnerWrote,
           EndOfBatch, EndOfTries, RunnerGoes
  <2>2. CASE TakeBatch(w) \/ MarkProcessed(w)
    <3>1. /\ runnerPc'[w] \notin {"send", "save_submitted", "save_failed"}
          /\ UNCHANGED batchStatus
      BY <2>2 DEF TypeOK, TakeBatch, MarkProcessed, EndOfBatch, RunnerGoes,
                  batchVars
    <3>2. UnusedRows' BY <2>0, <3>1 DEF UnusedRows
    <3>3. HeldIsRow' BY <2>0, <2>1, <3>1 DEF HeldIsRow, Holds
    <3> QED BY <3>2, <3>3
  <2>3. CASE LockBatch(w)
    <3>1. CASE UNCHANGED batchStatus /\ runnerPc'[w] \in {"next", "threw"}
      <4>1. UnusedRows' BY <2>0, <3>1 DEF UnusedRows
      <4>2. HeldIsRow' BY <2>0, <2>1, <3>1 DEF HeldIsRow, Holds
      <4> QED BY <4>1, <4>2
    <3>2. CASE /\ batchStatus[runnerBatch[w]] \in AllowedStatuses
               /\ batchStatus' = [batchStatus EXCEPT ![runnerBatch[w]] = "submitting"]
               /\ UNCHANGED runnerBatch
      <4>1. runnerBatch[w] \in Batches => ~(runnerBatch[w] > rows)
        BY <3>2 DEF UnusedRows, AllowedStatuses
      <4>2. UnusedRows' BY <2>0, <3>2, <4>1 DEF TypeOK, UnusedRows
      <4>3. HeldIsRow' BY <1>0, <2>0, <2>1, <3>2, <4>1 DEF HeldIsRow, Holds
      <4> QED BY <4>2, <4>3
    <3> QED BY <2>3, <3>1, <3>2 DEF TypeOK, LockBatch, EndOfBatch, RunnerGoes
  <2>4. CASE CallProvider(w) \/ SaveBatchSubmitted(w) \/ SaveBatchFailed(w)
    <3>1. /\ \A b \in Batches : Holds(w, b)' => Holds(w, b)
          /\ \A b \in Batches : batchStatus'[b] # batchStatus[b] => Holds(w, b)
      BY <2>4 DEF TypeOK, CallProvider, SaveBatchSubmitted, SaveBatchFailed,
                  RunnerWrote, EndOfBatch, EndOfTries, RunnerGoes, Holds
    <3>2. UnusedRows' BY <1>0, <2>0, <3>1 DEF UnusedRows, HeldIsRow
    <3>3. HeldIsRow' BY <2>0, <2>1, <3>1 DEF HeldIsRow, Holds
    <3> QED BY <3>2, <3>3
  <2> QED BY <2>2, <2>3, <2>4 DEF RunnerStep
<1>2. CASE \E j \in Jobs : CreateBatch(j)
  <2> PICK j \in Jobs : CreateBatch(j) BY <1>2
  <2>1. /\ rows' >= rows
        /\ \A b \in Batches : b > rows' => batchStatus'[b] = batchStatus[b]
    BY <1>0 DEF TypeOK, CreateBatch
  <2>2. UnusedRows' BY <1>0, <2>1 DEF UnusedRows
  <2>3. HeldIsRow' BY <1>0, <2>1 DEF CreateBatch, runnerVars, HeldIsRow, Holds
  <2> QED BY <2>2, <2>3
<1>3. CASE /\ UNCHANGED <<rows, batchStatus>>
           /\ \A w \in Workers : \A b \in Batches : Holds(w, b)' => Holds(w, b)
  BY <1>3 DEF UnusedRows, HeldIsRow
<1>4. CASE \E j \in Jobs : LoadBatches(j) \/ BatchesCreated(j)
  <2>1. /\ UNCHANGED <<rows, batchStatus, runnerBatch>>
        /\ \A w \in Workers : runnerPc'[w] \in {"next", runnerPc[w]}
    BY <1>4 DEF LoadBatches, BatchesCreated, StartSending, batchVars
  <2> QED BY <1>3, <2>1 DEF Holds
<1>5. CASE Crash
  <2>1. /\ UNCHANGED <<rows, batchStatus>>
        /\ \A w \in Workers : runnerPc'[w] \in {"idle", "finished"}
    BY <1>5 DEF Crash, batchVars
  <2> QED BY <1>3, <2>1 DEF Holds
<1>6. CASE UNCHANGED <<batchVars, runnerVars>>
  BY <1>3, <1>6 DEF batchVars, runnerVars, Holds
<1> QED BY <1>1, <1>2, <1>4, <1>5, <1>6
    DEF Next, CreateEmail, JobStep, LockEmail, RunnersSettled,
        SaveEmailSubmitted, SaveEmailFailed, LoadForRetry, RetryEmail, vars

LEMMA RepeatsInit == Init => RepeatsInv
<1> SUFFICES ASSUME Init PROVE RepeatsInv OBVIOUS
<1>1. UnusedRows /\ HeldIsRow BY DEF Init, UnusedRows, HeldIsRow, Holds
<1>2. ASSUME NEW b \in Batches PROVE Budget(b)
  <2>1. Trying(b) = {} BY DEF Init, Trying
  <2>2. IsFiniteSet(Trying(b)) /\ Cardinality(Trying(b)) = 0
    BY <2>1, FS_EmptySet
  <2>3. Spent(b) = 1 /\ Credit(b) = 1
    BY DEF Init, Spent, Credit, Open, FaultKinds
  <2> QED BY <2>2, <2>3 DEF Budget
<1> QED BY <1>1, <1>2 DEF RepeatsInv

LEMMA RepeatsStep == TypeOK /\ TypeOK' /\ RepeatsInv /\ [Next]_vars => RepeatsInv'
<1> SUFFICES ASSUME TypeOK, TypeOK', RepeatsInv, [Next]_vars PROVE RepeatsInv'
  OBVIOUS
<1>1. UnusedRows' /\ HeldIsRow' BY RowsStep DEF RepeatsInv
<1>2. ASSUME NEW b \in Batches PROVE Budget(b)'
  <2>1. UnusedRows /\ Budget(b) BY DEF RepeatsInv
  <2> QED BY <2>1, BudgetLock, BudgetCall, BudgetSubmitted, BudgetFailed,
             BudgetOthers DEF Next, RunnerStep
<1> QED BY <1>1, <1>2 DEF RepeatsInv

THEOREM Repeats_inductive == Spec => [](TypeOK /\ RepeatsInv)
<1>1. Init => TypeOK /\ RepeatsInv BY TypeInit, RepeatsInit
<1>2. TypeOK /\ RepeatsInv /\ [Next]_vars => (TypeOK /\ RepeatsInv)'
  BY TypeStep, RepeatsStep
<1> QED BY <1>1, <1>2, PTL DEF Spec

\* However many answers of the database are lost, each costs at most one
\* repeated delivery of a batch.
THEOREM RepeatsOnlyByLostReplies_holds == Spec => []RepeatsOnlyByLostReplies
<1>1. ASSUME TypeOK, RepeatsInv PROVE RepeatsOnlyByLostReplies
  <2> SUFFICES ASSUME NEW b \in Batches
               PROVE  accepted[b] <= ambiguous[b] + 1 + faults["reply"]
    BY DEF RepeatsOnlyByLostReplies
  <2>1. /\ accepted[b] \in Nat /\ ambiguous[b] \in Nat
        /\ faults["reply"] \in Nat
    BY <1>1 DEF TypeOK, FaultKinds
  <2>2. /\ IsFiniteSet(Trying(b))
        /\ Spent(b) + Cardinality(Trying(b)) <= Credit(b)
    BY <1>1 DEF RepeatsInv, Budget
  <2>3. Cardinality(Trying(b)) \in Nat BY <2>2, FS_CardinalityType
  <2> QED BY <2>1, <2>2, <2>3 DEF Spent, Credit, Open
<1> QED BY <1>1, Repeats_inductive, PTL

-----------------------------------------------------------------------------
\* One job at a time.  What is inductive about it: a job that has taken the
\* email keeps it submitting, so that no other takes it.
TakenByOne ==
    /\ \A j \in Jobs : Active(j) => emailStatus = "submitting"
    /\ \A j1, j2 \in Jobs : Active(j1) /\ Active(j2) => j1 = j2

ActiveInv == Reliable /\ ~staleRetry => TakenByOne

\* A step that makes no job active and does not move the email's status.
LEMMA ActiveQuiet ==
  ASSUME ActiveInv, Reliable' /\ ~staleRetry' => Reliable /\ ~staleRetry,
         \A j \in Jobs : Active(j)' => Active(j) /\ emailStatus' = emailStatus
  PROVE  ActiveInv'
  BY DEF ActiveInv, TakenByOne

LEMMA ActiveStep == TypeOK /\ ActiveInv /\ [Next]_vars => ActiveInv'
<1> SUFFICES ASSUME TypeOK, ActiveInv, [Next]_vars PROVE ActiveInv' OBVIOUS
<1>1. ASSUME NEW j \in Jobs, CreateEmail(j) PROVE ActiveInv'
  <2>1. Reliable' /\ ~staleRetry' => Reliable /\ ~staleRetry
    BY <1>1, ReliableBefore DEF CreateEmail
  <2>2. \A i \in Jobs : Active(i)' => Active(i)
    BY <1>1 DEF TypeOK, CreateEmail, Schedule, JobGoes, Active
  <2>3. emailStatus = "none" BY <1>1 DEF CreateEmail
  <2> QED BY <2>1, <2>2, <2>3 DEF ActiveInv, TakenByOne
<1>2. ASSUME NEW q \in Requests, NEW j \in Jobs, RetryEmail(q, j)
      PROVE  ActiveInv'
  <2>1. Reliable' /\ ~staleRetry' => /\ Reliable /\ ~staleRetry
                                     /\ \/ emailStatus' = emailStatus
                                        \/ emailStatus = "failed"
    BY <1>2, ReliableBefore DEF TypeOK, RetryEmail, emailVars
  <2>2. \A i \in Jobs : Active(i)' => Active(i)
    BY <1>2 DEF TypeOK, RetryEmail, Schedule, JobGoes, Active
  <2> QED BY <2>1, <2>2 DEF ActiveInv, TakenByOne
<1>3. ASSUME NEW j \in Jobs, LockEmail(j) PROVE ActiveInv'
  <2>1. Reliable' /\ ~staleRetry' => Reliable /\ ~staleRetry
    BY <1>3, ReliableBefore DEF LockEmail, JobWrote
  <2>2. \A i \in Jobs : i # j => jobPc'[i] = jobPc[i]
    BY <1>3 DEF TypeOK, LockEmail, JobWrote, JobGoes
  <2>3. CASE emailStatus \in AllowedStatuses /\ emailStatus' = "submitting"
    BY <2>1, <2>2, <2>3 DEF ActiveInv, TakenByOne, Active, AllowedStatuses
  <2>4. CASE JobGoes(j, "done") /\ UNCHANGED emailStatus
    <3>1. jobPc'[j] = "done" BY <2>4 DEF TypeOK, JobGoes
    <3> QED BY <2>1, <2>2, <2>4, <3>1, ActiveQuiet DEF Active
  <2> QED BY <1>3, <2>3, <2>4 DEF LockEmail
<1>4. ASSUME NEW j \in Jobs,
             \/ LoadBatches(j) \/ CreateBatch(j) \/ BatchesCreated(j)
             \/ RunnersSettled(j)
      PROVE  ActiveInv'
  <2>1. Reliable' /\ ~staleRetry' => Reliable /\ ~staleRetry
    BY <1>4, ReliableBefore
    DEF LoadBatches, CreateBatch, BatchesCreated, RunnersSettled, emailVars,
        Reliable
  <2>2. \A i \in Jobs : i # j => jobPc'[i] = jobPc[i]
    BY <1>4 DEF TypeOK, LoadBatches, CreateBatch, BatchesCreated,
                RunnersSettled, StartSending, JobGoes
  <2>3. Active(j) /\ emailStatus' = emailStatus
    BY <1>4 DEF LoadBatches, CreateBatch, BatchesCreated, RunnersSettled,
                Active, emailVars
  <2> QED BY <2>1, <2>2, <2>3, ActiveQuiet DEF Active
<1>5. ASSUME NEW j \in Jobs, SaveEmailSubmitted(j) \/ SaveEmailFailed(j)
      PROVE  ActiveInv'
  <2>1. Reliable' /\ ~staleRetry' => Reliable /\ ~staleRetry /\ ~Fault("reply")
    BY <1>5, ReliableBefore
    DEF SaveEmailSubmitted, SaveEmailFailed, JobWrote
  <2>2. \A i \in Jobs : i # j => jobPc'[i] = jobPc[i]
    BY <1>5 DEF TypeOK, SaveEmailSubmitted, SaveEmailFailed, JobWrote, JobGoes
  <2>3. Active(j) BY <1>5 DEF SaveEmailSubmitted, SaveEmailFailed, Active
  <2>4. \/ emailStatus' = emailStatus
        \/ jobPc'[j] = "done"
        \/ Fault("reply")
    BY <1>5 DEF TypeOK, SaveEmailSubmitted, SaveEmailFailed, JobWrote, JobGoes
  <2> QED BY <2>1, <2>2, <2>3, <2>4 DEF ActiveInv, TakenByOne, Active
<1>6. CASE \/ UNCHANGED vars \/ \E w \in Workers : RunnerStep(w)
           \/ \E q \in Requests : LoadForRetry(q)
  <2>1. UNCHANGED <<jobPc, emailVars>>
    BY <1>6 DEF vars, emailVars, jobVars, LoadForRetry, RunnerStep, TakeBatch,
                LockBatch, CallProvider, SaveBatchSubmitted, SaveBatchFailed,
                MarkProcessed
  <2>2. Answered \/ Fault("error") \/ Fault("reply") \/ Fault("provider")
    BY <1>6 DEF vars, Answered, LoadForRetry, RunnerStep, TakeBatch, LockBatch,
                CallProvider, SaveBatchSubmitted, SaveBatchFailed,
                MarkProcessed, RunnerWrote
  <2> QED BY <2>1, <2>2, ReliableBefore, ActiveQuiet DEF emailVars, Active
<1>7. CASE Crash
  <2>1. Reliable' /\ ~staleRetry' => Reliable /\ ~staleRetry
    BY <1>7, ReliableBefore DEF Crash, emailVars
  <2>2. \A j \in Jobs : jobPc'[j] \in {"idle", "done"} BY <1>7 DEF Crash
  <2> QED BY <2>1, <2>2, ActiveQuiet DEF Active
<1> QED BY <1>1, <1>2, <1>3, <1>4, <1>5, <1>6, <1>7 DEF Next, JobStep

THEOREM Active_inductive == Spec => [](TypeOK /\ ActiveInv)
<1>1. Init => TypeOK /\ ActiveInv
  BY TypeInit DEF Init, ActiveInv, TakenByOne, Active
<1>2. TypeOK /\ ActiveInv /\ [Next]_vars => (TypeOK /\ ActiveInv)'
  BY TypeStep, ActiveStep
<1> QED BY <1>1, <1>2, PTL DEF Spec

\* At most one job is at work on the email, whatever is retried and whenever
\* the process dies, unless a retry overwrote the status or an answer was lost.
THEOREM OneActiveJobUnlessStale_holds == Spec => []OneActiveJobUnlessStale
<1>1. TypeOK /\ ActiveInv => OneActiveJobUnlessStale
  BY DEF ActiveInv, TakenByOne, OneActiveJobUnlessStale
<1> QED BY <1>1, Active_inductive, PTL

-----------------------------------------------------------------------------
\* Honesty.  A run is clean as long as only the provider makes trouble.  What
\* is inductive about it then: the pages become rows one by one in the hands
\* of the only job that creates; the runners at work are those of the only job
\* that sends, each with a batch of its own; and what a job counts as sent are
\* batches that are submitted and out of the hands of its runners.

Clean == /\ Reliable /\ ~staleRetry
         /\ faults["error"] = 0 /\ faults["crash"] = 0

Fresh(j)  == jobPc[j] \in {"idle", "queued", "load"}
Sends(j)  == jobPc[j] \in {"send", "save_submitted", "save_failed"}
InHand(w) == runnerPc[w] \in {"lock", "send", "save_submitted", "save_failed",
                              "mark_submitted", "mark_failed"}

RowsFilled == \A b \in Rows : page[b] = b /\ batchStatus[b] # "none"

RowsComplete ==
    /\ (\A j \in Jobs : jobPc[j] # "create") => rows \in {0, NumPages}
    /\ emailStatus = "submitted" => rows = NumPages

JobKnows(j) ==
    /\ Fresh(j) => nextPage[j] = 1 /\ batches[j] = {} /\ succeeded[j] = 0
    /\ jobPc[j] = "create" =>
          /\ nextPage[j] = rows + 1 /\ rows <= NumPages
          /\ batches[j] = Rows /\ succeeded[j] = 0
    /\ Sends(j) => rows = NumPages /\ batches[j] = Rows

Pages == RowsFilled /\ RowsComplete /\ \A j \in Jobs : JobKnows(j)

RunnersOfSender ==
    \A w \in Workers : /\ runnerPc[w] # "threw"
                       /\ runnerPc[w] \in {"idle", "finished"} \/ jobPc[w[1]] = "send"

HandsFilled ==
    \A w \in Workers :
        /\ InHand(w) => runnerBatch[w] \in Rows \ queue[w[1]]
        /\ ~InHand(w) => runnerBatch[w] = 0
        /\ runnerPc[w] = "mark_submitted" => batchStatus[runnerBatch[w]] = "submitted"

HandsApart ==
    \A w, v \in Workers : InHand(w) /\ runnerBatch[w] = runnerBatch[v] => w = v

SubmittingIsHeld ==
    \A b \in Batches : batchStatus[b] = "submitting" => \E w \in Workers : Holds(w, b)

QueuesOfRows == \A j \in Jobs : queue[j] \subseteq Rows

Hands == /\ RunnersOfSender /\ HandsFilled /\ HandsApart
         /\ SubmittingIsHeld /\ QueuesOfRows

Settled(j) ==
    {b \in Rows : /\ batchStatus[b] = "submitted" /\ b \notin queue[j]
                  /\ \A w \in Workers : w[1] = j => runnerBatch[w] # b}

AllSubmitted == \A b \in Rows : batchStatus[b] = "submitted"

Counts ==
    /\ \A j \in Jobs : Sends(j) => succeeded[j] <= Cardinality(Settled(j))
    /\ \A j \in Jobs : jobPc[j] = "save_submitted" => AllSubmitted
    /\ emailStatus = "submitted" => AllSubmitted

CleanState == Pages /\ Hands /\ Counts

HonestInv == Clean => CleanState

\* Everything that is known of a clean run.
Calm == TypeOK /\ Known /\ TakenByOne /\ CleanState

\* A run that is clean after a step was so before, and nothing but a call of
\* the provider failed in it.
LEMMA CleanBefore ==
  ASSUME TypeOK, [Next]_vars, Clean'
  PROVE  Clean /\ ~Fault("error") /\ ~Fault("reply") /\ ~Fault("crash")
<1>0. {"error", "reply", "provider", "crash"} \subseteq FaultKinds
  BY DEF FaultKinds
<1>1. /\ faults \in [FaultKinds -> Nat]
      /\ \A k \in FaultKinds : faults[k] \in Nat
  BY DEF TypeOK
<1>2. /\ faults'["error"] = 0 /\ faults'["reply"] = 0 /\ faults'["crash"] = 0
      /\ ~staleRetry'
  BY DEF Clean, Reliable
<1>3. ~Fault("error") /\ ~Fault("reply") /\ ~Fault("crash")
  BY <1>0, <1>1, <1>2 DEF Fault
<1>4. Answered \/ Fault("provider")
  <2>1. CASE \E j \in Jobs : CreateEmail(j) \/ JobStep(j)
    BY <1>3, <2>1 DEF CreateEmail, JobStep, LockEmail, JobWrote, LoadBatches,
                CreateBatch, BatchesCreated, RunnersSettled,
                SaveEmailSubmitted, SaveEmailFailed, Answered
  <2>2. CASE \E q \in Requests : LoadForRetry(q) \/ \E j \in Jobs : RetryEmail(q, j)
    BY <1>3, <2>2 DEF LoadForRetry, RetryEmail, Answered
  <2>3. CASE \E w \in Workers : RunnerStep(w)
    BY <1>3, <2>3 DEF RunnerStep, TakeBatch, LockBatch, RunnerWrote,
                CallProvider, SaveBatchSubmitted, SaveBatchFailed,
                MarkProcessed, Answered
  <2> QED BY <1>3, <2>1, <2>2, <2>3 DEF Next, Crash, vars, Answered
<1>5. faults["error"] = 0 /\ faults["reply"] = 0 /\ faults["crash"] = 0
  BY <1>0, <1>1, <1>2, <1>4 DEF Answered, Fault
<1>6. ~staleRetry
  <2>1. CASE UNCHANGED staleRetry BY <1>2, <2>1
  <2>2. CASE \E q \in Requests : \E j \in Jobs : RetryEmail(q, j)
    BY <1>2, <2>2 DEF TypeOK, RetryEmail, emailVars
  <2> QED BY <2>1, <2>2
      DEF Next, vars, emailVars, CreateEmail, JobStep, LockEmail, LoadBatches,
          CreateBatch, BatchesCreated, RunnersSettled, SaveEmailSubmitted,
          SaveEmailFailed, LoadForRetry, RunnerStep, TakeBatch, LockBatch,
          CallProvider, SaveBatchSubmitted, SaveBatchFailed, MarkProcessed, Crash
<1> QED BY <1>3, <1>5, <1>6 DEF Clean, Reliable

\* While a job is active, no other is, and none of them is done with the email.
LEMMA OnlyOne ==
  ASSUME Calm, NEW j \in Jobs, Active(j)
  PROVE  /\ emailStatus = "submitting"
         /\ \A i \in Jobs : i # j => /\ jobPc[i] # "create" /\ ~Sends(i)
                                     /\ jobPc[i] # "save_submitted"
                                     /\ jobPc[i] # "send"
  BY DEF Calm, TakenByOne, Active, Sends

\* A runner at work is one of the only active job.
LEMMA AtWork ==
  ASSUME Calm, NEW w \in Workers, runnerPc[w] \notin {"idle", "finished"}
  PROVE  /\ w[1] \in Jobs /\ jobPc[w[1]] = "send" /\ Active(w[1]) /\ Sends(w[1])
         /\ \A v \in Workers : InHand(v) => v[1] = w[1]
<1>1. w[1] \in Jobs /\ \A v \in Workers : v[1] \in Jobs BY WorkerJob
<1>2. jobPc[w[1]] = "send" BY DEF Calm, CleanState, Hands, RunnersOfSender
<1>3. ASSUME NEW v \in Workers, InHand(v) PROVE v[1] = w[1]
  <2>1. jobPc[v[1]] = "send"
    BY <1>3 DEF Calm, CleanState, Hands, RunnersOfSender, InHand
  <2> QED BY <1>1, <1>2, <2>1 DEF Calm, TakenByOne, Active
<1> QED BY <1>1, <1>2, <1>3 DEF Active, Sends

LEMMA SettledFinite ==
  ASSUME TypeOK, NEW j \in Jobs
  PROVE  /\ IsFiniteSet(Rows) /\ Cardinality(Rows) = rows
         /\ IsFiniteSet(Settled(j)) /\ Cardinality(Settled(j)) \in Nat
<1>1. rows \in Nat BY BatchesAssumption DEF TypeOK
<1>2. IsFiniteSet(1..rows) /\ Cardinality(1..rows) = rows
  <2>1. 1 \in Int /\ rows \in Int BY <1>1
  <2>2. IsFiniteSet(1..rows)
        /\ Cardinality(1..rows) = IF 1 > rows THEN 0 ELSE rows - 1 + 1
    BY <2>1, FS_Interval
  <2> QED BY <1>1, <2>2
<1>3. Settled(j) \subseteq 1..rows BY DEF Settled, Rows
<1>4. IsFiniteSet(Settled(j)) BY <1>2, <1>3, FS_Subset
<1> QED BY <1>2, <1>4, FS_CardinalityType DEF Rows

\* A job that counts what was settled before, and perhaps one batch more.
LEMMA CountGrows ==
  ASSUME Calm, TypeOK', NEW j \in Jobs, Sends(j),
         \/ succeeded'[j] = succeeded[j] /\ Settled(j) \subseteq Settled(j)'
         \/ /\ succeeded'[j] = succeeded[j] + 1
            /\ \E b \in Settled(j)' \ Settled(j) : Settled(j) \subseteq Settled(j)'
  PROVE  succeeded'[j] <= Cardinality(Settled(j)')
<1>1. /\ IsFiniteSet(Settled(j)) /\ Cardinality(Settled(j)) \in Nat
      /\ succeeded[j] <= Cardinality(Settled(j)) /\ succeeded[j] \in Nat
  BY SettledFinite DEF Calm, CleanState, Counts, TypeOK
<1>2. rows' \in Nat BY BatchesAssumption DEF TypeOK
<1>3. IsFiniteSet(1..rows') BY <1>2, FS_Interval
<1>4. Settled(j)' \subseteq 1..rows' BY DEF Settled, Rows
<1>5. IsFiniteSet(Settled(j)') BY <1>3, <1>4, FS_Subset
<1>6. Cardinality(Settled(j)') \in Nat BY <1>5, FS_CardinalityType
<1> DEFINE S == Settled(j)
           T == Settled(j)'
<1>7. CASE succeeded'[j] = succeeded[j] /\ S \subseteq T
  <2>1. Cardinality(S) <= Cardinality(T) BY <1>5, <1>7, FS_Subset
  <2> QED BY <1>1, <1>6, <1>7, <2>1
<1>8. CASE succeeded'[j] = succeeded[j] + 1 /\ \E b \in T \ S : S \subseteq T
  <2>1. PICK b \in T \ S : S \subseteq T BY <1>8
  <2> HIDE DEF S, T
  <2>2. b \in T /\ S \in SUBSET (T \ {b}) BY <2>1
  <2>3. Cardinality(S) <= Cardinality(T) - 1 BY <1>5, <2>2, Sizes DEF T
  <2> QED BY <1>1, <1>6, <1>8, <2>3 DEF S, T
<1> QED BY <1>7, <1>8

\* The pages are out of the runners' reach.
LEMMA PagesRunner ==
  ASSUME Calm, NEW w \in Workers, runnerPc[w] \notin {"idle", "finished"},
         UNCHANGED <<rows, page, emailStatus, jobPc, nextPage, batches>>,
         \A b \in Rows : batchStatus'[b] # "none",
         \A j \in Jobs : j # w[1] => succeeded'[j] = succeeded[j]
  PROVE  Pages'
<1>1. Pages BY DEF Calm, CleanState
<1>2. jobPc[w[1]] = "send" BY AtWork
<1>3. RowsFilled' BY <1>1 DEF Pages, RowsFilled, Rows
<1>4. RowsComplete' BY <1>1 DEF Pages, RowsComplete
<1>5. ASSUME NEW j \in Jobs PROVE JobKnows(j)'
  <2>1. JobKnows(j) BY <1>1 DEF Pages
  <2>2. CASE j # w[1] BY <2>1, <2>2 DEF JobKnows, Fresh, Sends, Rows
  <2>3. CASE j = w[1]
    BY <1>2, <2>1, <2>3 DEF JobKnows, Fresh, Sends, Rows
  <2> QED BY <2>2, <2>3
<1> QED BY <1>3, <1>4, <1>5 DEF Pages

\* Nothing but the counts of the only sender is at stake in a runner's step.
LEMMA CountsRunner ==
  ASSUME Calm, TypeOK', NEW w \in Workers,
         runnerPc[w] \notin {"idle", "finished"},
         UNCHANGED <<emailStatus, jobPc>>,
         LET j == w[1] IN
         \/ succeeded'[j] = succeeded[j] /\ Settled(j) \subseteq Settled(j)'
         \/ /\ succeeded'[j] = succeeded[j] + 1
            /\ \E b \in Settled(j)' \ Settled(j) : Settled(j) \subseteq Settled(j)'
  PROVE  Counts'
<1>1. w[1] \in Jobs /\ Active(w[1]) /\ Sends(w[1]) /\ jobPc[w[1]] = "send"
  BY AtWork
<1>2. /\ emailStatus = "submitting"
      /\ \A i \in Jobs : i # w[1] => ~Sends(i) /\ jobPc[i] # "save_submitted"
  BY <1>1, OnlyOne
<1>3. \A i \in Jobs : Sends(i)' => i = w[1] BY <1>2 DEF Sends
<1>4. \A i \in Jobs : jobPc'[i] # "save_submitted" BY <1>1, <1>2
<1>5. succeeded'[w[1]] <= Cardinality(Settled(w[1])') BY <1>1, CountGrows
<1>6. \A i \in Jobs : Sends(i)' => succeeded'[i] <= Cardinality(Settled(i)')
  BY <1>3, <1>5
<1> QED BY <1>2, <1>4, <1>6 DEF Counts

\* A batch in a runner's hand, and what the others have.
LEMMA InOneHand ==
  ASSUME Calm, NEW w \in Workers, InHand(w)
  PROVE  /\ runnerBatch[w] \in Rows /\ runnerBatch[w] \in Batches
         /\ runnerBatch[w] \notin queue[w[1]] /\ runnerBatch[w] \notin Settled(w[1])
         /\ \A v \in Workers : v # w => runnerBatch[v] # runnerBatch[w]
<1>1. /\ runnerBatch[w] \in Rows \ queue[w[1]]
      /\ \A v \in Workers : v # w => runnerBatch[v] # runnerBatch[w]
  BY DEF Calm, CleanState, Hands, HandsFilled, HandsApart
<1>2. Rows \subseteq Batches BY RowIds DEF Calm, Rows
<1>3. runnerBatch[w] \notin Settled(w[1]) BY DEF Settled
<1> QED BY <1>1, <1>2, <1>3

LEMMA HonestTake ==
  ASSUME Calm, TypeOK', NEW w \in Workers, TakeBatch(w)
  PROVE  CleanState'
<1> USE DEF TakeBatch, batchVars, emailVars
<1>0. TypeOK /\ CleanState BY DEF Calm
<1>1. runnerPc[w] = "next" /\ ~InHand(w) BY DEF InHand
<1>2. /\ w[1] \in Jobs /\ jobPc[w[1]] = "send"
      /\ \A v \in Workers : InHand(v) => v[1] = w[1]
  BY <1>1, AtWork
<1>3. /\ RunnersOfSender /\ HandsFilled /\ HandsApart
      /\ SubmittingIsHeld /\ QueuesOfRows
  BY <1>0 DEF CleanState, Hands
<1>4. \A v \in Workers : v # w => /\ runnerPc'[v] = runnerPc[v]
                                  /\ runnerBatch'[v] = runnerBatch[v]
  BY <1>0 DEF TypeOK, RunnerGoes
<1>5. Pages'
  <2>1. \A b \in Rows : batchStatus'[b] # "none"
    BY <1>0 DEF CleanState, Pages, RowsFilled
  <2> QED BY <1>1, <2>1, PagesRunner
<1>6. runnerBatch[w] = 0 BY <1>1, <1>3 DEF HandsFilled
<1>7. CASE \E b \in queue[w[1]] : /\ queue' = [queue EXCEPT ![w[1]] = @ \ {b}]
                                  /\ runnerBatch' = [runnerBatch EXCEPT ![w] = b]
                                  /\ RunnerGoes(w, "lock")
  <2> PICK b \in queue[w[1]] : /\ queue' = [queue EXCEPT ![w[1]] = @ \ {b}]
                               /\ runnerBatch' = [runnerBatch EXCEPT ![w] = b]
                               /\ RunnerGoes(w, "lock")
    BY <1>7
  <2>1. /\ runnerPc'[w] = "lock" /\ runnerBatch'[w] = b
        /\ queue'[w[1]] = queue[w[1]] \ {b}
        /\ \A j \in Jobs : queue'[j] \subseteq queue[j]
    BY <1>0, <1>2 DEF TypeOK, RunnerGoes
  <2>2. b \in Rows /\ b \notin queue'[w[1]] BY <1>2, <1>3, <2>1 DEF QueuesOfRows
  <2>3. \A v \in Workers : v # w => runnerBatch[v] # b
    <3> SUFFICES ASSUME NEW v \in Workers, v # w PROVE runnerBatch[v] # b OBVIOUS
    <3>1. CASE InHand(v) BY <1>2, <1>3, <3>1 DEF HandsFilled
    <3>2. CASE ~InHand(v)
      <4>1. b # 0 BY <2>2 DEF Rows
      <4> QED BY <1>3, <3>2, <4>1 DEF HandsFilled
    <3> QED BY <3>1, <3>2
  <2>4. RunnersOfSender' BY <1>2, <1>3, <1>4, <2>1 DEF RunnersOfSender
  <2>5. HandsFilled'
    <3> SUFFICES ASSUME NEW v \in Workers
        PROVE  /\ InHand(v)' => runnerBatch'[v] \in Rows \ queue'[v[1]]
               /\ ~InHand(v)' => runnerBatch'[v] = 0
               /\ runnerPc'[v] = "mark_submitted"
                    => batchStatus[runnerBatch'[v]] = "submitted"
      BY DEF HandsFilled, Rows
    <3>1. CASE v = w BY <2>1, <2>2, <3>1 DEF InHand
    <3>2. CASE v # w
      <4>1. v[1] \in Jobs BY WorkerJob
      <4> QED BY <1>3, <1>4, <2>1, <3>2, <4>1 DEF HandsFilled, InHand
    <3> QED BY <3>1, <3>2
  <2>6. HandsApart' BY <1>3, <1>4, <2>1, <2>3 DEF HandsApart, InHand
  <2>7. SubmittingIsHeld'
    BY <1>1, <1>3, <1>4 DEF SubmittingIsHeld, Holds
  <2>8. QueuesOfRows' BY <1>3, <2>1 DEF QueuesOfRows, Rows
  <2>9. Settled(w[1]) \subseteq Settled(w[1])'
    BY <1>3, <1>4, <2>1 DEF Settled, Rows
  <2>10. Counts' BY <1>1, <2>9, CountsRunner
  <2> QED BY <1>5, <2>4, <2>5, <2>6, <2>7, <2>8, <2>10 DEF CleanState, Hands
<1>8. CASE RunnerGoes(w, "finished") /\ UNCHANGED <<queue, runnerBatch>>
  <2>1. runnerPc'[w] = "finished" BY <1>0, <1>8 DEF TypeOK, RunnerGoes
  <2>2. \A v \in Workers : InHand(v)' <=> InHand(v) BY <1>1, <1>4, <2>1 DEF InHand
  <2>3. RunnersOfSender' BY <1>3, <1>4, <2>1 DEF RunnersOfSender
  <2>4. HandsFilled' BY <1>3, <1>4, <1>8, <2>1, <2>2 DEF HandsFilled, Rows
  <2>5. HandsApart' BY <1>3, <1>8, <2>2 DEF HandsApart
  <2>6. SubmittingIsHeld'
    BY <1>1, <1>3, <1>4, <1>8 DEF SubmittingIsHeld, Holds
  <2>7. QueuesOfRows' BY <1>3, <1>8 DEF QueuesOfRows, Rows
  <2>8. Settled(w[1]) \subseteq Settled(w[1])' BY <1>8 DEF Settled, Rows
  <2>9. Counts' BY <1>1, <2>8, CountsRunner
  <2> QED BY <1>5, <2>3, <2>4, <2>5, <2>6, <2>7, <2>9 DEF CleanState, Hands
<1> QED BY <1>7, <1>8

\* A runner ends its work on a batch whose status it leaves alone; if it counts
\* the batch, that batch is submitted.
LEMMA HonestEnd ==
  ASSUME Calm, TypeOK', NEW w \in Workers, InHand(w), EndOfBatch(w, "next"),
         UNCHANGED <<rows, page, batchStatus, emailStatus, jobPc, nextPage,
                     batches, queue>>,
         \A j \in Jobs : j # w[1] => succeeded'[j] = succeeded[j],
         \/ succeeded'[w[1]] = succeeded[w[1]]
         \/ /\ succeeded'[w[1]] = succeeded[w[1]] + 1
            /\ batchStatus[runnerBatch[w]] = "submitted",
         runnerPc[w] \notin {"send", "save_submitted", "save_failed"}
  PROVE  CleanState'
<1> DEFINE b == runnerBatch[w]
<1>0. TypeOK /\ CleanState BY DEF Calm
<1>1. runnerPc[w] \notin {"idle", "finished"} BY DEF InHand
<1>2. w[1] \in Jobs /\ jobPc[w[1]] = "send" BY <1>1, AtWork
<1>3. /\ RunnersOfSender /\ HandsFilled /\ HandsApart
      /\ SubmittingIsHeld /\ QueuesOfRows
  BY <1>0 DEF CleanState, Hands
<1>4. /\ runnerPc'[w] = "next" /\ runnerBatch'[w] = 0
      /\ \A v \in Workers : v # w => /\ runnerPc'[v] = runnerPc[v]
                                     /\ runnerBatch'[v] = runnerBatch[v]
  BY <1>0 DEF TypeOK, EndOfBatch, RunnerGoes
<1>5. /\ b \in Rows /\ b \notin queue[w[1]] /\ b \notin Settled(w[1])
      /\ \A v \in Workers : v # w => runnerBatch[v] # b
  BY InOneHand
<1>6. Pages'
  <2>1. \A c \in Rows : batchStatus'[c] # "none"
    BY <1>0 DEF CleanState, Pages, RowsFilled
  <2> QED BY <1>1, <2>1, PagesRunner
<1>7. RunnersOfSender' BY <1>2, <1>3, <1>4 DEF RunnersOfSender
<1>8. \A v \in Workers : InHand(v)' <=> InHand(v) /\ v # w
  BY <1>4 DEF InHand
<1>9. HandsFilled' BY <1>3, <1>4, <1>8 DEF HandsFilled, Rows
<1>10. HandsApart'
  <2>1. \A v \in Workers : InHand(v) => runnerBatch[v] # 0
    BY <1>3 DEF HandsFilled, Rows
  <2> QED BY <1>3, <1>4, <1>8, <2>1 DEF HandsApart
<1>11. SubmittingIsHeld' BY <1>3, <1>4 DEF SubmittingIsHeld, Holds
<1>12. QueuesOfRows' BY <1>3 DEF QueuesOfRows, Rows
<1>13. Settled(w[1]) \subseteq Settled(w[1])'
  <2>1. b # 0 /\ 0 \notin Rows BY <1>5 DEF Rows
  <2> QED BY <1>4, <2>1 DEF Settled, Rows
<1>14. batchStatus[b] = "submitted" => b \in Settled(w[1])'
  <2>1. b # 0 BY <1>5 DEF Rows
  <2> QED BY <1>4, <1>5, <2>1 DEF Settled, Rows
<1>15. Counts' BY <1>1, <1>5, <1>13, <1>14, CountsRunner
<1> QED BY <1>6, <1>7, <1>9, <1>10, <1>11, <1>12, <1>15 DEF CleanState, Hands

\* A runner goes on with the batch in its hand, whose status says what it does.
LEMMA HonestHold ==
  ASSUME Calm, TypeOK', NEW w \in Workers, InHand(w), InHand(w)',
         UNCHANGED <<rows, page, emailStatus, jobVars, runnerBatch>>,
         \A v \in Workers : v # w => runnerPc'[v] = runnerPc[v],
         \A c \in Batches : c # runnerBatch[w] => batchStatus'[c] = batchStatus[c],
         batchStatus'[runnerBatch[w]] \in {"submitting", "submitted", "failed"},
         runnerPc'[w] = "mark_submitted"
           => batchStatus'[runnerBatch[w]] = "submitted",
         batchStatus'[runnerBatch[w]] = "submitting"
           => runnerPc'[w] \in {"send", "save_submitted", "save_failed"}
  PROVE  CleanState'
<1> USE DEF jobVars
<1> DEFINE b == runnerBatch[w]
<1>0. TypeOK /\ CleanState BY DEF Calm
<1>1. runnerPc[w] \notin {"idle", "finished"} BY DEF InHand
<1>2. w[1] \in Jobs /\ jobPc[w[1]] = "send" BY <1>1, AtWork
<1>3. /\ RunnersOfSender /\ HandsFilled /\ HandsApart
      /\ SubmittingIsHeld /\ QueuesOfRows
  BY <1>0 DEF CleanState, Hands
<1>4. /\ b \in Rows /\ b \in Batches /\ b \notin Settled(w[1])
      /\ \A v \in Workers : v # w => runnerBatch[v] # b
  BY InOneHand
<1>5. Rows \subseteq Batches /\ Rows' = Rows BY <1>0, RowIds DEF Rows
<1>6. Pages'
  <2>1. \A c \in Rows : batchStatus'[c] # "none"
    BY <1>0, <1>5 DEF CleanState, Pages, RowsFilled
  <2> QED BY <1>1, <2>1, PagesRunner
<1>7. RunnersOfSender' BY <1>2, <1>3 DEF RunnersOfSender, InHand
<1>8. \A v \in Workers : InHand(v)' <=> InHand(v) BY DEF InHand
<1>9. HandsFilled'
  <2> SUFFICES ASSUME NEW v \in Workers
      PROVE  /\ InHand(v)' => runnerBatch[v] \in Rows \ queue[v[1]]
             /\ ~InHand(v)' => runnerBatch[v] = 0
             /\ runnerPc'[v] = "mark_submitted"
                  => batchStatus'[runnerBatch[v]] = "submitted"
    BY <1>5 DEF HandsFilled
  <2>1. /\ InHand(v)' => runnerBatch[v] \in Rows \ queue[v[1]]
        /\ ~InHand(v)' => runnerBatch[v] = 0
    BY <1>3, <1>8 DEF HandsFilled
  <2>2. ASSUME runnerPc'[v] = "mark_submitted", v # w
        PROVE  batchStatus'[runnerBatch[v]] = "submitted"
    <3>1. runnerPc[v] = "mark_submitted" BY <2>2
    <3>2. InHand(v) BY <3>1 DEF InHand
    <3>3. runnerBatch[v] \in Batches BY <1>3, <1>5, <3>2 DEF HandsFilled
    <3> QED BY <1>3, <1>4, <2>2, <3>1, <3>3 DEF HandsFilled
  <2> QED BY <2>1, <2>2
<1>10. HandsApart' BY <1>3, <1>8 DEF HandsApart
<1>11. SubmittingIsHeld'
  <2> SUFFICES ASSUME NEW c \in Batches, batchStatus'[c] = "submitting"
               PROVE  \E v \in Workers : Holds(v, c)'
    BY DEF SubmittingIsHeld
  <2>1. CASE c = b BY <2>1 DEF Holds
  <2>2. CASE c # b
    <3>1. PICK v \in Workers : Holds(v, c) BY <1>3, <2>2 DEF SubmittingIsHeld
    <3>2. v # w BY <2>2, <3>1 DEF Holds
    <3> QED BY <3>1, <3>2 DEF Holds
  <2> QED BY <2>1, <2>2
<1>12. QueuesOfRows' BY <1>3, <1>5 DEF QueuesOfRows
<1>13. Settled(w[1]) \subseteq Settled(w[1])' BY <1>4, <1>5 DEF Settled
<1>14. Counts' BY <1>1, <1>13, CountsRunner
<1> QED BY <1>6, <1>7, <1>9, <1>10, <1>11, <1>12, <1>14 DEF CleanState, Hands

LEMMA HonestLock ==
  ASSUME Calm, TypeOK', NEW w \in Workers, LockBatch(w),
         ~Fault("error"), ~Fault("reply")
  PROVE  CleanState'
<1> DEFINE b == runnerBatch[w]
<1>0. TypeOK /\ CleanState BY DEF Calm
<1>1. InHand(w) /\ runnerPc[w] = "lock" BY DEF LockBatch, InHand
<1>2. b \in Rows /\ b \in Batches /\ \A v \in Workers : v # w => runnerBatch[v] # b
  BY <1>1, InOneHand
<1>3. CASE /\ batchStatus[b] \in AllowedStatuses
           /\ batchStatus' = [batchStatus EXCEPT ![b] = "submitting"]
           /\ RunnerWrote(w, "send")
           /\ UNCHANGED <<succeeded, runnerBatch>>
  <2>1. runnerPc' = [runnerPc EXCEPT ![w] = "send"]
    BY <1>3 DEF RunnerWrote, RunnerGoes
  <2>2. runnerPc'[w] = "send" /\ \A v \in Workers : v # w => runnerPc'[v] = runnerPc[v]
    BY <1>0, <2>1 DEF TypeOK
  <2>3. /\ batchStatus'[b] = "submitting"
        /\ \A c \in Batches : c # b => batchStatus'[c] = batchStatus[c]
    BY <1>0, <1>2, <1>3 DEF TypeOK
  <2>4. UNCHANGED <<rows, page, emailStatus, jobVars, runnerBatch>>
    BY <1>3 DEF LockBatch, jobVars, emailVars
  <2>5. InHand(w)' BY <2>2 DEF InHand
  <2> QED BY <1>1, <2>2, <2>3, <2>4, <2>5, HonestHold
<1>4. CASE /\ batchStatus[b] \notin AllowedStatuses
           /\ succeeded' = [succeeded EXCEPT ![w[1]] = @ + 1]
           /\ EndOfBatch(w, "next") /\ UNCHANGED batchStatus
  <2>1. batchStatus[b] = "submitted"
    <3>1. batchStatus[b] # "none" BY <1>0, <1>2 DEF CleanState, Pages, RowsFilled
    <3>2. batchStatus[b] # "submitting"
      <4> SUFFICES ASSUME batchStatus[b] = "submitting" PROVE FALSE OBVIOUS
      <4>1. PICK v \in Workers : Holds(v, b)
        BY <1>0, <1>2 DEF CleanState, Hands, SubmittingIsHeld
      <4> QED BY <1>1, <1>2, <4>1 DEF Holds
    <3> QED BY <1>0, <1>2, <1>4, <3>1, <3>2 DEF TypeOK, EmailStates, AllowedStatuses
  <2>2. w[1] \in Jobs BY WorkerJob
  <2>3. /\ succeeded'[w[1]] = succeeded[w[1]] + 1
        /\ \A j \in Jobs : j # w[1] => succeeded'[j] = succeeded[j]
    BY <1>0, <1>4, <2>2 DEF TypeOK
  <2>4. UNCHANGED <<rows, page, batchStatus, emailStatus, jobPc, nextPage,
                    batches, queue>>
    BY <1>4 DEF LockBatch, emailVars
  <2> QED BY <1>1, <1>4, <2>1, <2>3, <2>4, HonestEnd
<1> QED BY <1>3, <1>4 DEF LockBatch

LEMMA HonestMark ==
  ASSUME Calm, TypeOK', NEW w \in Workers, MarkProcessed(w), ~Fault("error")
  PROVE  CleanState'
<1>0. TypeOK /\ CleanState BY DEF Calm
<1>1. InHand(w) /\ runnerPc[w] \in {"mark_submitted", "mark_failed"}
  BY DEF MarkProcessed, InHand
<1>2. w[1] \in Jobs BY WorkerJob
<1>3. EndOfBatch(w, "next") BY DEF MarkProcessed
<1>4. /\ UNCHANGED <<rows, page, batchStatus, emailStatus, jobPc, nextPage,
                     batches, queue>>
      /\ succeeded' = IF runnerPc[w] = "mark_submitted"
                      THEN [succeeded EXCEPT ![w[1]] = @ + 1] ELSE succeeded
  BY DEF MarkProcessed, emailVars, batchVars
<1>5. runnerPc[w] = "mark_submitted" => batchStatus[runnerBatch[w]] = "submitted"
  BY <1>0 DEF CleanState, Hands, HandsFilled
<1>6. /\ \A j \in Jobs : j # w[1] => succeeded'[j] = succeeded[j]
      /\ \/ succeeded'[w[1]] = succeeded[w[1]]
         \/ /\ succeeded'[w[1]] = succeeded[w[1]] + 1
            /\ batchStatus[runnerBatch[w]] = "submitted"
  BY <1>0, <1>2, <1>4, <1>5 DEF TypeOK
<1> QED BY <1>1, <1>3, <1>4, <1>6, HonestEnd

LEMMA HonestSend ==
  ASSUME Calm, TypeOK', NEW w \in Workers,
         CallProvider(w) \/ SaveBatchSubmitted(w) \/ SaveBatchFailed(w),
         ~Fault("error"), ~Fault("reply")
  PROVE  CleanState'
<1> DEFINE b == runnerBatch[w]
<1>0. TypeOK /\ CleanState /\ Known BY DEF Calm
<1>1. /\ InHand(w)
      /\ runnerPc[w] \in {"send", "save_submitted", "save_failed"}
  BY DEF CallProvider, SaveBatchSubmitted, SaveBatchFailed, InHand
<1>2. b \in Batches BY <1>1, InOneHand
<1>3. batchStatus[b] = "submitting"
  BY <1>0, <1>1, <1>2 DEF Known, HeldIsSubmitting, Holds
<1>4. CASE CallProvider(w)
  <2>1. /\ runnerPc'[w] \in {"send", "save_submitted", "save_failed"}
        /\ \A v \in Workers : v # w => runnerPc'[v] = runnerPc[v]
    BY <1>0, <1>4 DEF TypeOK, CallProvider, EndOfTries, RunnerGoes
  <2>2. /\ UNCHANGED <<rows, page, emailStatus, jobVars, runnerBatch>>
        /\ UNCHANGED batchStatus
    BY <1>4 DEF CallProvider, emailVars, jobVars
  <2>3. InHand(w)' BY <2>1 DEF InHand
  <2>4. /\ batchStatus'[b] \in {"submitting", "submitted", "failed"}
        /\ \A c \in Batches : c # b => batchStatus'[c] = batchStatus[c]
        /\ runnerPc'[w] # "mark_submitted"
    BY <1>3, <2>1, <2>2
  <2> QED BY <1>1, <2>1, <2>2, <2>3, <2>4, HonestHold
<1>5. CASE SaveBatchSubmitted(w)
  <2>1. runnerPc' = [runnerPc EXCEPT ![w] = "mark_submitted"]
    BY <1>5 DEF SaveBatchSubmitted, RunnerWrote, RunnerGoes
  <2>2. /\ runnerPc'[w] = "mark_submitted"
        /\ \A v \in Workers : v # w => runnerPc'[v] = runnerPc[v]
    BY <1>0, <2>1 DEF TypeOK
  <2>3. /\ batchStatus'[b] = "submitted"
        /\ \A c \in Batches : c # b => batchStatus'[c] = batchStatus[c]
    BY <1>0, <1>2, <1>5 DEF TypeOK, SaveBatchSubmitted
  <2>4. UNCHANGED <<rows, page, emailStatus, jobVars, runnerBatch>>
    BY <1>5 DEF SaveBatchSubmitted, emailVars, jobVars
  <2>5. InHand(w)' BY <2>2 DEF InHand
  <2> QED BY <1>1, <2>2, <2>3, <2>4, <2>5, HonestHold
<1>6. CASE SaveBatchFailed(w)
  <2>1. runnerPc' = [runnerPc EXCEPT ![w] = "mark_failed"]
    BY <1>6 DEF SaveBatchFailed, RunnerWrote, RunnerGoes
  <2>2. /\ runnerPc'[w] = "mark_failed"
        /\ \A v \in Workers : v # w => runnerPc'[v] = runnerPc[v]
    BY <1>0, <2>1 DEF TypeOK
  <2>3. /\ batchStatus'[b] = "failed"
        /\ \A c \in Batches : c # b => batchStatus'[c] = batchStatus[c]
    BY <1>0, <1>2, <1>6 DEF TypeOK, SaveBatchFailed
  <2>4. UNCHANGED <<rows, page, emailStatus, jobVars, runnerBatch>>
    BY <1>6 DEF SaveBatchFailed, emailVars, jobVars
  <2>5. InHand(w)' BY <2>2 DEF InHand
  <2> QED BY <1>1, <2>2, <2>3, <2>4, <2>5, HonestHold
<1> QED BY <1>4, <1>5, <1>6

-----------------------------------------------------------------------------
\* The steps of jobs and requests.  A job that is active but does not send
\* finds all runners idle or finished.
LEMMA AllAtRest ==
  ASSUME Calm, NEW j \in Jobs, Active(j), jobPc[j] # "send"
  PROVE  \A w \in Workers : /\ runnerPc[w] \in {"idle", "finished"}
                            /\ runnerBatch[w] = 0 /\ ~InHand(w)
<1> SUFFICES ASSUME NEW w \in Workers
             PROVE  /\ runnerPc[w] \in {"idle", "finished"}
                    /\ runnerBatch[w] = 0 /\ ~InHand(w)
  OBVIOUS
<1>1. runnerPc[w] \in {"idle", "finished"} BY AtWork, OnlyOne
<1>2. ~InHand(w) BY <1>1 DEF InHand
<1> QED BY <1>1, <1>2 DEF Calm, CleanState, Hands, HandsFilled

\* Hands are not affected by a step of a job that does not send, or of a
\* request.
LEMMA HandsQuiet ==
  ASSUME Calm, UNCHANGED <<rows, batchStatus, runnerVars, queue>>,
         \A i \in Jobs : jobPc[i] = "send" => jobPc'[i] = "send"
  PROVE  Hands'
<1> USE DEF runnerVars
<1>0. /\ RunnersOfSender /\ HandsFilled /\ HandsApart
      /\ SubmittingIsHeld /\ QueuesOfRows
  BY DEF Calm, CleanState, Hands
<1>1. RunnersOfSender' BY <1>0, WorkerJob DEF RunnersOfSender
<1>2. HandsFilled' BY <1>0 DEF HandsFilled, InHand, Rows
<1>3. HandsApart' BY <1>0 DEF HandsApart, InHand
<1>4. SubmittingIsHeld' BY <1>0 DEF SubmittingIsHeld, Holds
<1>5. QueuesOfRows' BY <1>0 DEF QueuesOfRows, Rows
<1> QED BY <1>1, <1>2, <1>3, <1>4, <1>5 DEF Hands

\* The two runners of a job that begins to send stand before its queue.
LEMMA HandsStart ==
  ASSUME Calm, NEW j \in Jobs, Active(j), jobPc[j] # "send",
         NEW array, array \subseteq Rows, StartSending(j, array),
         UNCHANGED <<rows, batchStatus, runnerBatch>>
  PROVE  Hands'
<1>0. TypeOK /\ RunnersOfSender /\ SubmittingIsHeld /\ QueuesOfRows
  BY DEF Calm, CleanState, Hands
<1>1. \A w \in Workers : runnerPc[w] \in {"idle", "finished"} /\ runnerBatch[w] = 0
  BY AllAtRest
<1>2. \A w \in Workers :
         /\ runnerPc'[w] = IF w[1] = j THEN "next" ELSE runnerPc[w]
         /\ ~InHand(w)' /\ runnerBatch'[w] = 0
  BY <1>1 DEF StartSending, InHand
<1>3. jobPc'[j] = "send" BY <1>0 DEF TypeOK, StartSending, JobGoes
<1>4. RunnersOfSender' BY <1>1, <1>2, <1>3 DEF RunnersOfSender
<1>5. HandsFilled' BY <1>1, <1>2 DEF HandsFilled, InHand
<1>6. HandsApart' BY <1>2 DEF HandsApart
<1>7. SubmittingIsHeld' BY <1>0, <1>1 DEF SubmittingIsHeld, Holds
<1>8. QueuesOfRows' BY <1>0 DEF TypeOK, StartSending, QueuesOfRows, Rows
<1> QED BY <1>4, <1>5, <1>6, <1>7, <1>8 DEF Hands

\* The steps that touch neither rows nor hands: jobs on their way to the
\* batches or back from them.
LEMMA HonestQuiet ==
  ASSUME Calm, TypeOK',
         UNCHANGED <<batchVars, runnerVars, nextPage, batches, queue, succeeded>>,
         \A i \in Jobs :
            \/ jobPc'[i] = jobPc[i]
            \/ Fresh(i) /\ jobPc'[i] \in {"queued", "load", "done"}
            \/ /\ Sends(i) /\ jobPc'[i] \in {"save_submitted", "save_failed", "done"}
               /\ \A w \in Workers : w[1] = i => runnerPc[w] \in {"idle", "finished"}
               /\ jobPc'[i] = "save_submitted" => AllSubmitted,
         emailStatus' = "submitted" =>
            emailStatus = "submitted" \/ (rows = NumPages /\ AllSubmitted)
  PROVE  CleanState'
<1> USE DEF batchVars, runnerVars
<1>0. /\ TypeOK /\ RowsFilled /\ RowsComplete /\ \A i \in Jobs : JobKnows(i)
      /\ RunnersOfSender /\ HandsFilled /\ HandsApart
      /\ SubmittingIsHeld /\ QueuesOfRows /\ Counts
  BY DEF Calm, CleanState, Pages, Hands
<1>1. RowsFilled' BY <1>0 DEF RowsFilled, Rows
<1>2. RowsComplete'
  <2>1. ASSUME NEW i \in Jobs, jobPc[i] = "create" PROVE jobPc'[i] = "create"
    BY <2>1 DEF Fresh, Sends
  <2> QED BY <1>0, <2>1 DEF RowsComplete
<1>3. ASSUME NEW i \in Jobs PROVE JobKnows(i)'
  <2>1. JobKnows(i) BY <1>0
  <2>2. /\ Fresh(i)' => Fresh(i)
        /\ Sends(i)' => Sends(i)
        /\ jobPc'[i] = "create" => jobPc[i] = "create"
    BY DEF Fresh, Sends
  <2> QED BY <2>1, <2>2 DEF JobKnows, Rows
<1>4. RunnersOfSender'
  <2> SUFFICES ASSUME NEW w \in Workers
               PROVE  /\ runnerPc[w] # "threw"
                      /\ runnerPc[w] \in {"idle", "finished"} \/ jobPc'[w[1]] = "send"
    BY DEF RunnersOfSender
  <2>1. w[1] \in Jobs BY WorkerJob
  <2> QED BY <1>0, <2>1 DEF RunnersOfSender, Fresh
<1>5. HandsFilled' BY <1>0 DEF HandsFilled, InHand, Rows
<1>6. HandsApart' BY <1>0 DEF HandsApart, InHand
<1>7. SubmittingIsHeld' BY <1>0 DEF SubmittingIsHeld, Holds
<1>8. QueuesOfRows' BY <1>0 DEF QueuesOfRows, Rows
<1>9. Counts'
  <2>1. AllSubmitted' <=> AllSubmitted BY DEF AllSubmitted, Rows
  <2>2. \A i \in Jobs : jobPc'[i] = "save_submitted" => AllSubmitted
    BY <1>0 DEF Counts
  <2>3. \A i \in Jobs : Sends(i)' => Sends(i) BY DEF Fresh, Sends
  <2>4. \A i \in Jobs : Settled(i)' = Settled(i) BY DEF Settled, Rows
  <2> QED BY <1>0, <2>1, <2>2, <2>3, <2>4 DEF Counts
<1> QED BY <1>1, <1>2, <1>3, <1>4, <1>5, <1>6, <1>7, <1>8, <1>9
        DEF CleanState, Pages, Hands

LEMMA HonestRequest ==
  ASSUME Calm, TypeOK',
         \/ \E j \in Jobs : CreateEmail(j)
         \/ \E q \in Requests : LoadForRetry(q) \/ \E j \in Jobs : RetryEmail(q, j)
         \/ UNCHANGED vars
  PROVE  CleanState'
<1>1. UNCHANGED <<batchVars, runnerVars, nextPage, batches, queue, succeeded>>
  BY DEF CreateEmail, LoadForRetry, RetryEmail, vars, jobVars
<1>2. \A i \in Jobs : jobPc'[i] = jobPc[i] \/ (Fresh(i) /\ jobPc'[i] = "queued")
  BY DEF Calm, TypeOK, CreateEmail, LoadForRetry, RetryEmail, vars, jobVars,
         Schedule, JobGoes, Fresh
<1>3. emailStatus' \in {emailStatus, "pending", "failed"}
  BY DEF CreateEmail, LoadForRetry, RetryEmail, vars, emailVars
<1> QED BY <1>1, <1>2, <1>3, HonestQuiet

\* When the runners of a job are through and the count is full, every row is
\* submitted.
LEMMA FullCount ==
  ASSUME Calm, NEW j \in Jobs, Sends(j), AllSent(j)
  PROVE  AllSubmitted
<1>1. /\ IsFiniteSet(Rows) /\ Cardinality(Rows) = rows
      /\ IsFiniteSet(Settled(j)) /\ Cardinality(Settled(j)) \in Nat
  BY SettledFinite DEF Calm
<1>2. /\ batches[j] = Rows /\ succeeded[j] <= Cardinality(Settled(j))
      /\ succeeded[j] \in Nat /\ rows \in Nat
  BY BatchesAssumption DEF Calm, TypeOK, CleanState, Pages, JobKnows, Counts
<1>3. Cardinality(Settled(j)) >= Cardinality(Rows)
  BY <1>1, <1>2 DEF AllSent
<1>4. Settled(j) \subseteq Rows BY DEF Settled
<1>5. Cardinality(Settled(j)) <= Cardinality(Rows)
      /\ (Cardinality(Settled(j)) = Cardinality(Rows) => Settled(j) = Rows)
  BY <1>1, <1>4, FS_Subset
<1>6. Settled(j) = Rows BY <1>1, <1>2, <1>3, <1>5
<1> QED BY <1>6 DEF Settled, AllSubmitted

LEMMA HonestSettled ==
  ASSUME Calm, TypeOK', NEW j \in Jobs, RunnersSettled(j)
  PROVE  CleanState'
<1>0. TypeOK /\ RunnersOfSender BY DEF Calm, CleanState, Hands
<1>1. Sends(j) BY DEF RunnersSettled, Sends
<1>2. /\ \A w \in Workers : w[1] = j => runnerPc[w] = "finished"
      /\ JobGoes(j, IF AllSent(j) THEN "save_submitted" ELSE "save_failed")
  BY <1>0 DEF RunnersSettled, RunnersOfSender
<1>3. /\ jobPc'[j] = IF AllSent(j) THEN "save_submitted" ELSE "save_failed"
      /\ \A i \in Jobs : i # j => jobPc'[i] = jobPc[i]
  BY <1>0, <1>2 DEF TypeOK, JobGoes
<1>4. jobPc'[j] = "save_submitted" => AllSubmitted BY <1>1, <1>3, FullCount
<1>5. /\ UNCHANGED <<batchVars, runnerVars, nextPage, batches, queue, succeeded>>
      /\ emailStatus' = emailStatus
  BY DEF RunnersSettled, emailVars
<1> QED BY <1>1, <1>2, <1>3, <1>4, <1>5, HonestQuiet

LEMMA HonestEmail ==
  ASSUME Calm, TypeOK', NEW j \in Jobs,
         LockEmail(j) \/ SaveEmailSubmitted(j) \/ SaveEmailFailed(j),
         ~Fault("error"), ~Fault("reply")
  PROVE  CleanState'
<1>0. TypeOK /\ CleanState BY DEF Calm
<1>1. /\ UNCHANGED <<batchVars, runnerVars, nextPage, batches, queue, succeeded>>
      /\ \A i \in Jobs : i # j => jobPc'[i] = jobPc[i]
  BY <1>0 DEF TypeOK, LockEmail, SaveEmailSubmitted, SaveEmailFailed, JobWrote,
              JobGoes
<1>2. CASE LockEmail(j)
  <2>1. /\ Fresh(j) /\ jobPc'[j] \in {"load", "done"}
        /\ emailStatus' \in {emailStatus, "submitting"}
    BY <1>0, <1>2 DEF TypeOK, LockEmail, JobWrote, JobGoes, Fresh
  <2> QED BY <1>1, <2>1, HonestQuiet
<1>3. CASE SaveEmailSubmitted(j) \/ SaveEmailFailed(j)
  <2>1. /\ Sends(j) /\ Active(j) /\ jobPc[j] # "send"
        /\ jobPc'[j] = "done"
        /\ \/ jobPc[j] = "save_submitted"
           \/ emailStatus' = "failed"
    BY <1>0, <1>3 DEF TypeOK, SaveEmailSubmitted, SaveEmailFailed, JobWrote,
                      JobGoes, Sends, Active
  <2>2. \A w \in Workers : runnerPc[w] \in {"idle", "finished"}
    BY <2>1, AllAtRest
  <2>3. jobPc[j] = "save_submitted" => rows = NumPages /\ AllSubmitted
    BY <1>0, <2>1 DEF CleanState, Pages, JobKnows, Counts
  <2> QED BY <1>1, <2>1, <2>2, <2>3, HonestQuiet
<1> QED BY <1>2, <1>3

\* The only active job that holds no batch is the only one to count anything.
LEMMA CountsStart ==
  ASSUME Calm, TypeOK', NEW j \in Jobs, Active(j),
         jobPc[j] # "save_submitted",
         jobPc'[j] # "save_submitted",
         UNCHANGED emailStatus, succeeded'[j] = 0,
         \A i \in Jobs : i # j => jobPc'[i] = jobPc[i]
  PROVE  Counts'
<1>1. /\ emailStatus' # "submitted"
      /\ \A i \in Jobs : i # j => ~Sends(i)' /\ jobPc'[i] # "save_submitted"
  BY OnlyOne DEF Sends
<1>2. 0 <= Cardinality(Settled(j)')
  <2>1. rows' \in Nat BY BatchesAssumption DEF TypeOK
  <2>2. IsFiniteSet(1..rows') BY <2>1, FS_Interval
  <2>3. Settled(j)' \subseteq 1..rows' BY DEF Settled, Rows
  <2>4. IsFiniteSet(Settled(j)') BY <2>2, <2>3, FS_Subset
  <2>5. Cardinality(Settled(j)') \in Nat BY <2>4, FS_CardinalityType
  <2> QED BY <2>5
<1> QED BY <1>1, <1>2 DEF Counts

\* Pages, when the only active job moves on with the rows unchanged.
LEMMA PagesMove ==
  ASSUME Calm, NEW j \in Jobs, Active(j), JobKnows(j)',
         UNCHANGED <<rows, page, batchStatus, emailStatus>>,
         jobPc'[j] = "create" \/ rows \in {0, NumPages},
         \A i \in Jobs : i # j => /\ jobPc'[i] = jobPc[i]
                                  /\ nextPage'[i] = nextPage[i]
                                  /\ batches'[i] = batches[i]
                                  /\ succeeded'[i] = succeeded[i]
  PROVE  Pages'
<1>0. RowsFilled /\ RowsComplete /\ \A i \in Jobs : JobKnows(i)
  BY DEF Calm, CleanState, Pages
<1>1. RowsFilled' BY <1>0 DEF RowsFilled, Rows
<1>2. RowsComplete' BY OnlyOne DEF RowsComplete
<1>3. ASSUME NEW i \in Jobs PROVE JobKnows(i)'
  <2>1. CASE i # j
    <3>1. JobKnows(i) BY <1>0
    <3> QED BY <2>1, <3>1 DEF JobKnows, Fresh, Sends, Rows
  <2> QED BY <2>1
<1> QED BY <1>1, <1>2, <1>3 DEF Pages

LEMMA HonestLoad ==
  ASSUME Calm, TypeOK', NEW j \in Jobs, LoadBatches(j), ~Fault("error")
  PROVE  CleanState'
<1>0. TypeOK /\ RowsComplete /\ JobKnows(j) BY DEF Calm, CleanState, Pages
<1>1. Active(j) /\ Fresh(j) /\ jobPc[j] = "load"
  BY DEF LoadBatches, Active, Fresh
<1>2. /\ UNCHANGED <<rows, page, batchStatus, emailStatus, nextPage, succeeded,
                     runnerBatch>>
      /\ nextPage[j] = 1 /\ batches[j] = {} /\ succeeded[j] = 0
      /\ rows \in Nat
  BY <1>0, <1>1, BatchesAssumption
  DEF TypeOK, LoadBatches, batchVars, emailVars, JobKnows
<1>3. rows \in {0, NumPages}
  <2>1. \A i \in Jobs : jobPc[i] # "create" BY <1>1, OnlyOne
  <2> QED BY <1>0, <2>1 DEF RowsComplete
<1>4. CASE HasBatches /\ StartSending(j, 1..rows)
  <2>1. /\ jobPc'[j] = "send" /\ batches'[j] = Rows
        /\ \A i \in Jobs : i # j => jobPc'[i] = jobPc[i] /\ batches'[i] = batches[i]
    BY <1>0, <1>4 DEF TypeOK, StartSending, JobGoes, Rows
  <2>2. rows = NumPages BY <1>2, <1>3, <1>4 DEF HasBatches
  <2>3. JobKnows(j)'
    BY <1>2, <2>1, <2>2 DEF JobKnows, Fresh, Sends, Rows
  <2>4. Pages' BY <1>1, <1>2, <1>3, <2>1, <2>3, PagesMove
  <2>5. Hands' BY <1>1, <1>2, <1>4, HandsStart DEF Rows
  <2>6. Counts' BY <1>1, <1>2, <2>1, CountsStart
  <2> QED BY <2>4, <2>5, <2>6 DEF CleanState
<1>5. CASE /\ ~HasBatches /\ JobGoes(j, "create")
           /\ UNCHANGED <<batches, queue, runnerPc>>
  <2>1. /\ jobPc'[j] = "create"
        /\ \A i \in Jobs : i # j => jobPc'[i] = jobPc[i]
    BY <1>0, <1>5 DEF TypeOK, JobGoes
  <2>2. rows = 0 BY <1>2, <1>5 DEF HasBatches
  <2>3. JobKnows(j)'
    BY <1>2, <1>5, <2>1, <2>2, NumPagesAssumption DEF JobKnows, Fresh, Sends, Rows
  <2>4. Pages' BY <1>1, <1>2, <1>3, <1>5, <2>1, <2>3, PagesMove
  <2>5. Hands'
    <3>1. UNCHANGED runnerVars
      BY <1>5 DEF LoadBatches, runnerVars
    <3> QED BY <1>1, <1>2, <1>5, <2>1, <3>1, HandsQuiet
  <2>6. Counts' BY <1>1, <1>2, <2>1, CountsStart
  <2> QED BY <2>4, <2>5, <2>6 DEF CleanState
<1> QED BY <1>4, <1>5 DEF LoadBatches

LEMMA HonestCreated ==
  ASSUME Calm, TypeOK', NEW j \in Jobs, BatchesCreated(j), ~Fault("error")
  PROVE  CleanState'
<1>0. TypeOK /\ JobKnows(j) BY DEF Calm, CleanState, Pages
<1>1. Active(j) /\ jobPc[j] = "create" BY DEF BatchesCreated, Active
<1>2. /\ UNCHANGED <<rows, page, batchStatus, emailStatus, nextPage, succeeded,
                     runnerBatch>>
      /\ StartSending(j, batches[j])
  BY DEF BatchesCreated, batchVars, emailVars
<1>3. batches[j] = Rows /\ succeeded[j] = 0 /\ rows = NumPages
  <2>1. /\ nextPage[j] = rows + 1 /\ rows <= NumPages
        /\ batches[j] = Rows /\ succeeded[j] = 0
    BY <1>0, <1>1 DEF JobKnows
  <2>2. rows \in Nat /\ nextPage[j] > NumPages
    BY <1>0, BatchesAssumption DEF TypeOK, BatchesCreated
  <2> QED BY <2>1, <2>2, NumPagesAssumption
<1>4. /\ jobPc'[j] = "send" /\ batches'[j] = Rows
      /\ \A i \in Jobs : i # j => jobPc'[i] = jobPc[i] /\ batches'[i] = batches[i]
  BY <1>0, <1>2, <1>3 DEF TypeOK, StartSending, JobGoes
<1>5. JobKnows(j)' BY <1>2, <1>3, <1>4 DEF JobKnows, Fresh, Sends, Rows
<1>6. Pages' BY <1>1, <1>2, <1>3, <1>4, <1>5, PagesMove
<1>7. Hands' BY <1>1, <1>2, <1>3, HandsStart
<1>8. Counts' BY <1>1, <1>2, <1>3, <1>4, CountsStart
<1> QED BY <1>6, <1>7, <1>8 DEF CleanState

\* The next page becomes the next row, in the hands of the only creator.
LEMMA HonestCreateBatch ==
  ASSUME Calm, TypeOK', NEW j \in Jobs, CreateBatch(j),
         ~Fault("error"), ~Fault("reply")
  PROVE  CleanState'
<1>0. /\ TypeOK /\ RowsFilled /\ JobKnows(j)
      /\ RunnersOfSender /\ SubmittingIsHeld /\ QueuesOfRows
  BY DEF Calm, CleanState, Pages, Hands
<1>1. Active(j) /\ jobPc[j] = "create" BY DEF CreateBatch, Active
<1>2. /\ rows' = rows + 1
      /\ page' = [page EXCEPT ![rows + 1] = nextPage[j]]
      /\ batchStatus' = [batchStatus EXCEPT ![rows + 1] = "pending"]
      /\ nextPage' = [nextPage EXCEPT ![j] = @ + 1]
      /\ batches' = [batches EXCEPT ![j] = @ \cup {rows + 1}]
      /\ UNCHANGED <<jobPc, emailStatus, queue, succeeded, runnerPc, runnerBatch>>
      /\ rows + 1 \in Batches /\ rows \in Nat /\ nextPage[j] <= NumPages
  BY <1>0, RowIds, BatchesAssumption
  DEF TypeOK, CreateBatch, emailVars, runnerVars
<1>3. /\ nextPage[j] = rows + 1 /\ rows <= NumPages
      /\ batches[j] = Rows /\ succeeded[j] = 0
  BY <1>0, <1>1 DEF JobKnows
<1>4. Rows' = Rows \cup {rows + 1} BY <1>2 DEF Rows
<1>5. Rows \subseteq Batches BY <1>0, RowIds DEF Rows
<1>6. RowsFilled'
  <2>1. page'[rows + 1] = rows + 1 /\ batchStatus'[rows + 1] = "pending"
    BY <1>0, <1>2, <1>3 DEF TypeOK
  <2>2. \A b \in Rows : page'[b] = b /\ batchStatus'[b] # "none"
    BY <1>0, <1>2, <1>5 DEF TypeOK, RowsFilled, Rows
  <2> QED BY <1>4, <2>1, <2>2 DEF RowsFilled
<1>7. RowsComplete' BY <1>1, <1>2, OnlyOne DEF RowsComplete
<1>8. ASSUME NEW i \in Jobs PROVE JobKnows(i)'
  <2>1. CASE i = j
    <3>1. nextPage'[j] = rows' + 1 /\ batches'[j] = Rows' /\ rows' <= NumPages
      BY <1>0, <1>2, <1>3, <1>4 DEF TypeOK
    <3> QED BY <1>1, <1>2, <1>3, <2>1, <3>1 DEF JobKnows, Fresh, Sends
  <2>2. CASE i # j
    <3>1. jobPc[i] # "create" /\ ~Sends(i) BY <1>1, <2>2, OnlyOne
    <3>2. nextPage'[i] = nextPage[i] /\ batches'[i] = batches[i]
      BY <1>0, <1>2, <2>2 DEF TypeOK
    <3>3. JobKnows(i) BY DEF Calm, CleanState, Pages
    <3> QED BY <1>2, <3>1, <3>2, <3>3 DEF JobKnows, Fresh, Sends
  <2> QED BY <2>1, <2>2
<1>9. \A w \in Workers : runnerPc[w] \in {"idle", "finished"} /\ runnerBatch[w] = 0
  BY <1>1, AllAtRest
<1>10. RunnersOfSender' BY <1>2, <1>9 DEF RunnersOfSender
<1>11. HandsFilled' /\ HandsApart'
  BY <1>2, <1>9 DEF HandsFilled, HandsApart, InHand
<1>12. SubmittingIsHeld'
  BY <1>0, <1>2, <1>9 DEF TypeOK, SubmittingIsHeld, Holds
<1>13. QueuesOfRows' BY <1>0, <1>2, <1>4 DEF QueuesOfRows
<1>14. Counts' BY <1>1, <1>2, <1>3, CountsStart
<1> QED BY <1>6, <1>7, <1>8, <1>10, <1>11, <1>12, <1>13, <1>14
        DEF CleanState, Pages, Hands

LEMMA HonestInit == Init => HonestInv
<1> SUFFICES ASSUME Init PROVE CleanState BY DEF HonestInv
<1>1. Rows = {} BY DEF Init, Rows
<1>2. Pages
  BY <1>1 DEF Init, Pages, RowsFilled, RowsComplete, JobKnows, Fresh, Sends
<1>3. Hands
  BY DEF Init, Hands, RunnersOfSender, HandsFilled, HandsApart,
         SubmittingIsHeld, QueuesOfRows, InHand
<1>4. Counts BY DEF Init, Counts, Sends
<1> QED BY <1>2, <1>3, <1>4 DEF CleanState

LEMMA HonestStep ==
  TypeOK /\ TypeOK' /\ DeliveryInv /\ ActiveInv /\ HonestInv /\ [Next]_vars
    => HonestInv'
<1> SUFFICES ASSUME TypeOK, TypeOK', DeliveryInv, ActiveInv, HonestInv,
                    [Next]_vars, Clean'
             PROVE  CleanState'
  BY DEF HonestInv
<1>1. Clean /\ ~Fault("error") /\ ~Fault("reply") /\ ~Fault("crash")
  BY CleanBefore
<1>2. Calm BY <1>1 DEF Calm, DeliveryInv, ActiveInv, HonestInv, Clean
<1>3. CASE \E j \in Jobs : JobStep(j)
  BY <1>1, <1>2, <1>3, HonestEmail, HonestLoad, HonestCreateBatch,
     HonestCreated, HonestSettled DEF JobStep
<1>4. CASE \E w \in Workers : RunnerStep(w)
  BY <1>1, <1>2, <1>4, HonestTake, HonestLock, HonestSend, HonestMark
  DEF RunnerStep
<1>5. ~Crash BY <1>1 DEF Crash
<1> QED BY <1>2, <1>3, <1>4, <1>5, HonestRequest DEF Next

THEOREM Honest_inductive == Spec => [](TypeOK /\ HonestInv)
<1>1. Init => HonestInv BY HonestInit
<1>2. TypeOK /\ TypeOK' /\ DeliveryInv /\ ActiveInv /\ HonestInv /\ [Next]_vars
        => HonestInv'
  BY HonestStep
<1> QED BY <1>1, <1>2, Delivery_inductive, Active_inductive, PTL DEF Spec

\* An email that says it was submitted has all its batches submitted, and one
\* for every page, as long as only the provider makes trouble: whatever was
\* retried, and whichever job or runner was late.
THEOREM SubmittedIsHonest_holds == Spec => []SubmittedIsHonest
<1>1. ASSUME TypeOK, HonestInv PROVE SubmittedIsHonest
  <2> SUFFICES ASSUME Clean, emailStatus = "submitted"
               PROVE  /\ \A b \in Rows : batchStatus[b] = "submitted"
                      /\ {page[b] : b \in Rows} = 1..NumPages
    BY DEF SubmittedIsHonest, Clean
  <2>1. AllSubmitted /\ rows = NumPages /\ RowsFilled
    BY <1>1 DEF HonestInv, CleanState, Counts, Pages, RowsComplete
  <2>2. {page[b] : b \in Rows} = Rows BY <2>1 DEF RowsFilled
  <2> QED BY <2>1, <2>2 DEF AllSubmitted, Rows
<1> QED BY <1>1, Honest_inductive, PTL
=============================================================================
