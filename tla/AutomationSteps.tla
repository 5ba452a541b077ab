-------------------------- MODULE AutomationSteps --------------------------
(***************************************************************************)
(* Automations: a member that signs up starts a run, and the steps of the  *)
(* run (wait, send an email) are executed one after another by pollers.    *)
(* The steps are rows of automation_run_steps.  A poll locks the rows that *)
(* are ready, works on them in parallel, and at the end asks for the next  *)
(* poll.  Several Ghost processes may poll the same database; in each of   *)
(* them oneAtATime runs one poll at a time and remembers one more.         *)
(*                                                                         *)
(* Time is relative: a row, a timer and a requested poll are so many ticks *)
(* ahead (0: now or past), a lock is so many ticks old.                    *)
(***************************************************************************)
EXTENDS Integers, FiniteSets, FiniteSetsExt, Sequences, SequencesExt, Functions

CONSTANTS
    Runs,         \* one for each member, in the order they sign up
    Processes,    \* Ghost processes
    NoProcess,    \* locked_by when it is null
    Actions,      \* the actions of the automation that ever exist
    Waits,        \* those of type "wait"; the others send an email
    FirstPath,    \* the actions at the start, in order
    Batch,        \* MAX_STEPS_PER_BATCH
    MaxAttempts,  \* MAX_ATTEMPTS
    RetryDelay,   \* RETRY_DELAY_MS, in ticks
    WaitTime,     \* wait_hours, in ticks
    LockTimeout,  \* LOCK_TIMEOUT_MS, in ticks
    Bounds        \* how often at most each of Kinds may happen: one of these

FaultKinds == {"error", "reply", "ping", "crash"}

\* What is bounded: faults, locks that are taken after they have expired,
\* members that sign up, and edits of the automation and of the members.
Kinds == FaultKinds \cup {"expiry", "signup", "edit", "member"}

ASSUME AutomationAssumption ==
    /\ Runs \subseteq Nat /\ IsFiniteSet(Runs)
    /\ NoProcess \notin Processes
    /\ Waits \subseteq Actions
    /\ FirstPath \in Seq(Actions) /\ IsInjective(FirstPath)
    /\ {Batch, MaxAttempts, RetryDelay, WaitTime} \subseteq Nat \ {0}
    /\ LockTimeout \in Nat
    /\ Bounds \subseteq [Kinds -> Nat]

VARIABLES
    active,   \* automations.status = 'active'
    path,     \* the actions in the order of the edges
    deleted,  \* automation_actions that are soft-deleted
    member,   \* what a step looks at in the member of each run
    steps,    \* the rows of each run, in the order of insertion
    phase,    \* of each process: "down", "idle", "fetch" or "work"
    queued,   \* oneAtATime: another poll was asked for during this one
    next,     \* nextPollAt of the poll at work
    workers,  \* processStep calls in progress in each process
    timers,   \* polls given to the scheduler adapter of each process
    spent     \* how often each of Kinds has happened

vars == <<active, path, deleted, member, steps, phase, queued, next, workers,
          timers, spent>>

MemberStates == {"eligible", "opted_out", "ineligible", "gone"}
Terminal     == {"finished", "failed", "automation disabled",
                 "member unsubscribed", "member changed status"}

MaxAhead == Max({RetryDelay, WaitTime})
Never    == MaxAhead + 1                \* null as a date
Earlier(a, b) == IF a < b THEN a ELSE b \* dateMin
Passed(t) == IF t = Never \/ t = 0 THEN t ELSE t - 1

Row(r, i)   == steps[r][i]
RowIds      == UNION {{r} \X DOMAIN steps[r] : r \in Runs}
RowOf(id)   == Row(id[1], id[2])

\* getReadyAtForAction
ReadyIn(a) == IF a \in Waits THEN WaitTime ELSE 0

\* insertRunStep.  sends is history: the emails sent for the row.
NewRow(a) ==
    [action |-> a, status |-> "pending", readyIn |-> ReadyIn(a),
     lock |-> NoProcess, lockAge |-> 0, attempts |-> 0,
     sends |-> 0]

Init ==
    /\ active = TRUE
    /\ path = FirstPath
    /\ deleted = {}
    /\ member = [r \in Runs |-> "eligible"]
    /\ steps = [r \in Runs |-> <<>>]
    /\ phase = [p \in Processes |-> "fetch"]
    /\ queued = [p \in Processes |-> FALSE]
    /\ next = [p \in Processes |-> Never]
    /\ workers = [p \in Processes |-> {}]
    /\ timers = [p \in Processes |-> {}]
    /\ spent = [k \in Kinds |-> 0]

Up(p)    == phase[p] # "down"
Allowed(k) ==
    \E b \in Bounds : spent[k] < b[k] /\ \A j \in Kinds : spent[j] <= b[j]
Count(k) == Allowed(k) /\ spent' = [spent EXCEPT ![k] = @ + 1]
Reliable == \A k \in FaultKinds : spent[k] = 0

automation == <<active, path, deleted>>

-----------------------------------------------------------------------------
\* oneAtATime around poll: what a StartAutomationsPollEvent does in process p,
\* and what the end of a poll does, with or without another request.
\* Mutant: a request during a poll is not remembered.
DispatchIfIdle(p) ==
    /\ phase' = [phase EXCEPT ![p] = IF @ = "idle" THEN "fetch" ELSE @]
    /\ UNCHANGED queued

Dispatch(p) ==
    IF phase[p] = "idle"
    THEN phase' = [phase EXCEPT ![p] = "fetch"] /\ UNCHANGED queued
    ELSE queued' = [queued EXCEPT ![p] = TRUE] /\ UNCHANGED phase

EndOfPoll(p, another) ==
    /\ phase' = [phase EXCEPT ![p] = IF another THEN "fetch" ELSE "idle"]
    /\ queued' = [queued EXCEPT ![p] = FALSE]

\* A member signs up: the run and its first step are inserted, and the process
\* that served the request polls.  Nothing happens in an inactive automation.
Trigger(p, r) ==
    /\ Up(p)
    /\ steps[r] = <<>> /\ member[r] # "gone"
    /\ \A earlier \in Runs : earlier < r => steps[earlier] # <<>>
    /\ active /\ path # <<>>
    /\ Count("signup")
    /\ steps' = [steps EXCEPT ![r] = <<NewRow(Head(path))>>]
    /\ Dispatch(p)
    /\ UNCHANGED <<automation, member, next, workers, timers>>

-----------------------------------------------------------------------------
\* fetchAndLockSteps: one transaction.

\* Mutant: any pending row is free.
NoOneElse(row)    == row.status = "pending"
Unlocked(row)     == /\ row.status = "pending"
                     /\ row.lock = NoProcess \/ row.lockAge > LockTimeout
Available(row)    == Unlocked(row) /\ row.readyIn = 0

Lock(row, p) ==
    [row EXCEPT !.lock = p, !.lockAge = 0, !.attempts = @ + 1]

\* findNextPendingReadyAt
NextReady(rows) ==
    Min({row.readyIn : row \in {x \in rows : Unlocked(x)}} \cup {Never})

Worker(id, p) ==
    [id |-> id, active |-> active, attempts |-> RowOf(id).attempts + 1,
     at |-> "check"]

\* The rows to lock: up to Batch of those available.
Candidates ==
    LET free == {id \in RowIds : Available(RowOf(id))} IN
    IF Cardinality(free) <= Batch THEN {free} ELSE kSubset(Batch, free)

Expired(ids) == {id \in ids : RowOf(id).lockAge > LockTimeout}

LockAll(p, ids) ==
    [r \in Runs |-> [i \in DOMAIN steps[r] |->
        IF <<r, i>> \in ids THEN Lock(Row(r, i), p) ELSE Row(r, i)]]

\* nextPollAt before the steps are processed: at once after a full batch.
FirstNext(ids) ==
    IF Cardinality(ids) >= Batch THEN 0
    ELSE NextReady({RowOf(id) : id \in RowIds \ ids})

Fetch(p) ==
    /\ phase[p] = "fetch"
    /\ \E ids \in Candidates :
          /\ steps' = LockAll(p, ids)
          /\ workers' = [workers EXCEPT ![p] = {Worker(id, p) : id \in ids}]
          /\ next' = [next EXCEPT ![p] = FirstNext(ids)]
          /\ spent' = [spent EXCEPT !["expiry"] = @ + Cardinality(Expired(ids))]
    /\ phase' = [phase EXCEPT ![p] = "work"]
    /\ UNCHANGED <<automation, member, queued, timers>>

\* The transaction fails, or only its answer is lost: oneAtATime swallows the
\* error, and no other poll is asked for.
FetchFails(p) ==
    /\ phase[p] = "fetch"
    /\ \/ Count("error") /\ UNCHANGED steps
       \/ Count("reply") /\ \E ids \in Candidates : steps' = LockAll(p, ids)
    /\ EndOfPoll(p, queued[p])
    /\ UNCHANGED <<automation, member, next, workers, timers>>

-----------------------------------------------------------------------------
\* processStep.

\* updateStep: only a pending row that is still locked by this worker.  (A
\* process is here for the lock id of its poll: it has one poll at a time, and
\* its workers die with it.)  Mutant: who holds the lock does not matter.
AnyHolder(row, p) == row.status = "pending"
Owns(row, p)      == row.status = "pending" /\ row.lock = p

Unlock(row) == [row EXCEPT !.lock = NoProcess, !.lockAge = 0]

SetRow(id, row) == [steps EXCEPT ![id[1]][id[2]] = row]

\* markStepTerminal
Terminated(p, id, status) ==
    IF Owns(RowOf(id), p)
    THEN SetRow(id, [Unlock(RowOf(id)) EXCEPT !.status = status])
    ELSE steps

Leave(p, w) == workers' = [workers EXCEPT ![p] = @ \ {w}]
MoveTo(p, w, at) ==
    workers' = [workers EXCEPT ![p] = (@ \ {w}) \cup {[w EXCEPT !.at = at]}]

Exceeded(w) == w.attempts > MaxAttempts

\* What stops the step before it is executed.  The status of the automation is
\* the one that was fetched; the member is looked up now.
Verdict(w) ==
    LET m == member[w.id[1]] IN
    IF ~w.active             THEN "automation disabled"
    ELSE IF Exceeded(w)      THEN "failed"
    ELSE IF m = "gone"       THEN "member unsubscribed"
    ELSE IF m = "ineligible" THEN "member changed status"
    ELSE "go"

Stop(p, w) ==
    /\ w.at = "check" /\ Verdict(w) # "go"
    /\ steps' = Terminated(p, w.id, Verdict(w))
    /\ Leave(p, w)
    /\ UNCHANGED <<automation, member, phase, queued, next, timers, spent>>

\* A query of Stop or the look-up of the member fails: the error is logged and
\* the row stays locked.
StopFails(p, w) ==
    /\ w.at = "check"
    /\ \/ Count("error") /\ UNCHANGED steps
       \/ /\ Verdict(w) # "go"
          /\ Count("reply") /\ steps' = Terminated(p, w.id, Verdict(w))
    /\ Leave(p, w)
    /\ UNCHANGED <<automation, member, phase, queued, next, timers>>

\* The member may get the step.  Nothing is sent to one that opted out.
Go(p, w) ==
    /\ w.at = "check" /\ Verdict(w) = "go"
    /\ MoveTo(p, w, IF \/ RowOf(w.id).action \in Waits
                       \/ member[w.id[1]] = "opted_out"
                    THEN "finish" ELSE "send")
    /\ UNCHANGED <<automation, member, steps, phase, queued, next, timers,
                   spent>>

\* sendAutomationEmail, and the record of the recipient (whose failure is only
\* logged).
Send(p, w) ==
    /\ w.at = "send"
    /\ steps' = SetRow(w.id, [RowOf(w.id) EXCEPT !.sends = @ + 1])
    /\ MoveTo(p, w, "finish")
    /\ UNCHANGED <<automation, member, phase, queued, next, timers, spent>>

\* The mailer refuses the email, or takes it and the answer is lost.
SendFails(p, w) ==
    /\ w.at = "send"
    /\ \/ UNCHANGED <<steps, spent>>
       \/ /\ Count("reply")
          /\ steps' = SetRow(w.id, [RowOf(w.id) EXCEPT !.sends = @ + 1])
    /\ MoveTo(p, w, "error")
    /\ UNCHANGED <<automation, member, phase, queued, next, timers>>

\* findNextActionRevision: the target of the edge that leaves the action.
NextAction(a) ==
    {path[i + 1] : i \in {j \in 1..(Len(path) - 1) : path[j] = a}}

\* finishStepAndEnqueueNext.  Mutant: it goes on although the update of the
\* row changed nothing.
DidFinishAlways(p, id) == TRUE
DidFinish(p, id)       == Owns(RowOf(id), p)

Following(p, id) ==
    IF DidFinish(p, id) THEN NextAction(RowOf(id).action) ELSE {}

Finished(p, id) ==
    [Terminated(p, id, "finished") EXCEPT
        ![id[1]] = @ \o SetToSeq({NewRow(a) : a \in Following(p, id)})]

Finish(p, w) ==
    /\ w.at = "finish"
    /\ steps' = Finished(p, w.id)
    /\ next' = [next EXCEPT ![p] =
                   Min({@} \cup {ReadyIn(a) : a \in Following(p, w.id)})]
    /\ Leave(p, w)
    /\ UNCHANGED <<automation, member, phase, queued, timers, spent>>

FinishFails(p, w) ==
    /\ w.at = "finish"
    /\ \/ Count("error") /\ UNCHANGED steps
       \/ Count("reply") /\ steps' = Finished(p, w.id)
    /\ MoveTo(p, w, "error")
    /\ UNCHANGED <<automation, member, phase, queued, next, timers>>

\* handleStepExecutionFailure: retryStep, or failed after the last attempt.
\* Mutants: the lock is kept for the retry; the delay adds up.
RetriedLocked(row) == [row EXCEPT !.readyIn = RetryDelay]
RetriedBeyond(row) == [Unlock(row) EXCEPT !.readyIn = RetryDelay * (row.attempts + 1)]
Retried(row)       == [Unlock(row) EXCEPT !.readyIn = RetryDelay]

Failure(p, w) ==
    IF w.attempts >= MaxAttempts THEN Terminated(p, w.id, "failed")
    ELSE IF Owns(RowOf(w.id), p) THEN SetRow(w.id, Retried(RowOf(w.id)))
    ELSE steps

WillRetry(p, w) == w.attempts < MaxAttempts /\ Owns(RowOf(w.id), p)

HandleFailure(p, w) ==
    /\ w.at = "error"
    /\ steps' = Failure(p, w)
    /\ next' = [next EXCEPT ![p] =
                   IF WillRetry(p, w) THEN Earlier(@, RetryDelay) ELSE @]
    /\ Leave(p, w)
    /\ UNCHANGED <<automation, member, phase, queued, timers, spent>>

HandleFailureFails(p, w) ==
    /\ w.at = "error"
    /\ \/ Count("error") /\ UNCHANGED steps
       \/ Count("reply") /\ steps' = Failure(p, w)
    /\ Leave(p, w)
    /\ UNCHANGED <<automation, member, phase, queued, next, timers>>

-----------------------------------------------------------------------------
\* enqueueAnotherPollAt, when every step of the batch is done: at once, or
\* through the scheduler adapter.
EndPoll(p) ==
    /\ phase[p] = "work" /\ workers[p] = {}
    /\ EndOfPoll(p, queued[p] \/ next[p] = 0)
    /\ timers' = [timers EXCEPT ![p] = @ \cup ({next[p]} \ {0, Never})]
    /\ next' = [next EXCEPT ![p] = Never]
    /\ UNCHANGED <<automation, member, steps, workers, spent>>

\* The adapter calls the API, and the process that serves the request polls.
Fire(p, q) ==
    /\ 0 \in timers[p] /\ Up(q)
    /\ timers' = [timers EXCEPT ![p] = @ \ {0}]
    /\ Dispatch(q)
    /\ UNCHANGED <<automation, member, steps, next, workers, spent>>

FireFails(p) ==
    /\ 0 \in timers[p] /\ Count("ping")
    /\ timers' = [timers EXCEPT ![p] = @ \ {0}]
    /\ UNCHANGED <<automation, member, steps, phase, queued, next, workers>>

-----------------------------------------------------------------------------
\* The rest of the world.

\* A process dies with its workers and timers; its locks stay in the database.
\* When it starts again it polls.
Crash(p) ==
    /\ Up(p) /\ Count("crash")
    /\ phase' = [phase EXCEPT ![p] = "down"]
    /\ queued' = [queued EXCEPT ![p] = FALSE]
    /\ next' = [next EXCEPT ![p] = Never]
    /\ workers' = [workers EXCEPT ![p] = {}]
    /\ timers' = [timers EXCEPT ![p] = {}]
    /\ UNCHANGED <<automation, member, steps>>

Restart(p) ==
    /\ ~Up(p)
    /\ phase' = [phase EXCEPT ![p] = "fetch"]
    /\ UNCHANGED <<automation, member, steps, queued, next, workers, timers,
                   spent>>

OldestLock == IF Allowed("expiry") THEN LockTimeout + 1 ELSE LockTimeout

Older(row) ==
    [row EXCEPT !.readyIn = Passed(@),
                !.lockAge = IF row.lock = NoProcess THEN 0
                            ELSE Earlier(@ + 1, OldestLock)]

Tick ==
    /\ steps' = [r \in Runs |-> [i \in DOMAIN steps[r] |-> Older(Row(r, i))]]
    /\ next' = [p \in Processes |-> Passed(next[p])]
    /\ timers' = [p \in Processes |-> {Passed(t) : t \in timers[p]}]
    /\ UNCHANGED <<automation, member, phase, queued, workers, spent>>

\* edit: another status and other actions.  validateGraph lets only paths
\* through; an action that was deleted cannot come back.
Edit ==
    /\ Count("edit")
    /\ active' \in BOOLEAN
    /\ path' \in {s \in UNION {[1..n -> Actions \ deleted] :
                               n \in 1..Cardinality(Actions)} : IsInjective(s)}
    /\ deleted' = deleted \cup (ToSet(path) \ ToSet(path'))
    /\ UNCHANGED <<member, steps, phase, queued, next, workers, timers>>

ChangeMember(r) ==
    /\ Count("member")
    /\ member[r] # "gone"
    /\ \E m \in MemberStates \ {member[r]} : member' = [member EXCEPT ![r] = m]
    /\ UNCHANGED <<automation, steps, phase, queued, next, workers, timers>>

Work(p) ==
    \E w \in workers[p] :
        \/ Stop(p, w) \/ Go(p, w) \/ Send(p, w) \/ SendFails(p, w)
        \/ Finish(p, w) \/ HandleFailure(p, w)

WorkFails(p) ==
    \E w \in workers[p] :
        StopFails(p, w) \/ FinishFails(p, w) \/ HandleFailureFails(p, w)

Next ==
    \/ \E p \in Processes :
          \/ \E r \in Runs : Trigger(p, r)
          \/ Fetch(p) \/ FetchFails(p)
          \/ Work(p) \/ WorkFails(p)
          \/ EndPoll(p)
          \/ \E q \in Processes : Fire(p, q)
          \/ FireFails(p)
          \/ Crash(p) \/ Restart(p)
    \/ Tick
    \/ Edit
    \/ \E r \in Runs : ChangeMember(r)

Spec == Init /\ [][Next]_vars

\* The event loop runs what is ready, the queries and the mailer answer, time
\* passes and a process that died is started again.  (A process can do only
\* one of the four at a time.)
Fairness ==
    /\ WF_vars(Tick)
    /\ \A p \in Processes :
          /\ WF_vars(Fetch(p) \/ Work(p) \/ EndPoll(p) \/ Restart(p))
          /\ WF_vars(\E q \in Processes : Fire(p, q))

FairSpec == Spec /\ Fairness

-----------------------------------------------------------------------------
\* Properties.

RowType ==
    [action : Actions, status : Terminal \cup {"pending"}, readyIn : 0..MaxAhead,
     lock : Processes \cup {NoProcess}, lockAge : 0..(LockTimeout + 1),
     attempts : Nat, sends : Nat]

WorkerType ==
    [id : Runs \X (Nat \ {0}), active : BOOLEAN, attempts : Nat \ {0},
     at : {"check", "send", "finish", "error"}]

\* A step in progress is always one of a row that exists.
TypeOK ==
    /\ active \in BOOLEAN /\ path \in Seq(Actions) /\ deleted \subseteq Actions
    /\ member \in [Runs -> MemberStates]
    /\ steps \in [Runs -> Seq(RowType)]
    /\ phase \in [Processes -> {"down", "idle", "fetch", "work"}]
    /\ queued \in [Processes -> BOOLEAN]
    /\ next \in [Processes -> 0..Never]
    /\ workers \in [Processes -> SUBSET WorkerType]
    /\ \A p \in Processes : \A w \in workers[p] : w.id \in RowIds
    /\ timers \in [Processes -> SUBSET (0..MaxAhead)]
    /\ spent \in [Kinds -> Nat]

\* A run is one thread: only its last step may be unfinished, however many
\* workers come back late for the earlier ones.
RunIsAThread ==
    \A r \in Runs : \A i \in 1..(Len(steps[r]) - 1) :
        steps[r][i].status = "finished"

\* A step sends its email once, and once more at most for each query or answer
\* that failed and for each lock that expired under a worker that was too slow
\* or that died; but never more than MAX_ATTEMPTS times.
Repeats == spent["error"] + spent["reply"] + spent["expiry"]

SentOnce ==
    \A id \in RowIds : RowOf(id).sends <= Earlier(MaxAttempts, 1 + Repeats)

\* The worker that locked a row last holds it until it gives it up itself: a
\* late worker whose lock expired does not take the row from it.
LastLockerHolds ==
    \A p \in Processes : \A w \in workers[p] :
        LET row == RowOf(w.id) IN
        row.status = "pending" /\ row.attempts = w.attempts => row.lock = p

\* No step is forgotten: as long as nothing failed, a pending step is in the
\* hands of a worker, or a poll is coming that is not later than the step.
Coming(t) ==
    \E p \in Processes :
        \/ queued[p] \/ phase[p] = "fetch"
        \/ phase[p] = "work" /\ next[p] <= t
        \/ \E timer \in timers[p] : timer <= t

NoStepForgotten ==
    Reliable =>
        \A id \in RowIds :
            LET row == RowOf(id) IN
            row.status = "pending" =>
                IF row.lock = NoProcess THEN Coming(row.readyIn)
                ELSE \E w \in workers[row.lock] : w.id = id

\* Without faults every run that was started comes to its end, and stays there
\* (there are finitely many of them).
EveryRunEnds ==
    <>[](\/ ~Reliable
         \/ \A r \in Runs :
               steps[r] # <<>> => Last(steps[r]).status \in Terminal)
=============================================================================
