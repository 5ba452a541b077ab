----------------------------- MODULE Scheduling -----------------------------
(***************************************************************************)
(* Scheduled posts and pages: the handlers of the events of a post, the    *)
(* default scheduling adapter with its jobs in memory, the request by      *)
(* which a job publishes its post, boot, and the rotation of the key that  *)
(* signs the requests.                                                     *)
(*                                                                         *)
(* One unit of time is five minutes, the period of the adapter's loop and  *)
(* the tolerance of the publishing request.  A job stands for its URL and  *)
(* its time: the URL is that of the post with a token, which is a function *)
(* of the time and of the key.                                             *)
(***************************************************************************)
EXTENDS Integers, FiniteSets, Bags

CONSTANTS
    Posts,
    End,          \* bound: the last instant of a behaviour
    MaxEdits,     \* bound: requests of authors
    MaxFaults,    \* bound: crashes and failed requests
    MaxRotations, \* bound: resets of the authentication
    MaxPings,     \* bound: requests of the adapter under way at a time
    MaxTries      \* how often a request is repeated after an answer 503

ASSUME SchedulingAssumption ==
    /\ {MaxEdits, MaxFaults, MaxRotations, MaxTries} \subseteq Nat
    /\ {End, MaxPings} \subseteq Nat \ {0}

Offset == 2    \* offsetInMinutes, 10 minutes
Tolerance == 1 \* publishAPostBySchedulerToleranceInMinutes, 5 minutes
Never == 0     \* published_at IS NULL
Times == 1..End
Keys == 0..MaxRotations

VARIABLES
    now,
    up,         \* whether the process of Ghost runs
    posts,      \* row of each post: its status and at, its published_at
    waiting,    \* allJobs, the jobs of a later wake-up of the loop
    sleeping,   \* the jobs given to _execute, each in a timer
    tombstones, \* deletedJobs
    pings,      \* requests under way, up to the answer or the next try
    key,        \* the key of the scheduler, in the database and the cache
    rotation,   \* stage of resetAuthentication, and the posts it loaded
    edits, faults,
    leftover,   \* posts with a job although they left "scheduled": without an
                \* unscheduled event, or by a ping as old as the last rotation
    disturbed   \* posts with an edit or a fault during a ping or a rotation

jobs == <<waiting, sleeping, tombstones>>
vars == <<now, up, posts, jobs, pings, key, rotation, edits, faults,
          leftover, disturbed>>

NoBag == EmptyBag
NoRotation == [stage |-> "none", loaded |-> {}]
Idle == rotation = NoRotation

JobOf(p, at, k) == [post |-> p, time |-> at, key |-> k]
Jobs == [post : Posts, time : Times, key : Keys]
Scheduled == {p \in Posts : posts[p].status = "scheduled"}

(* A ping is sent, or it has read its post and is about to save it: fresh  *)
(* as long as no other save changed the updated_at it read.                *)
Pings == [id : 1..MaxPings, job : Jobs, tries : 0..MaxTries,
          force : BOOLEAN, stage : {"sent", "checked"}, fresh : BOOLEAN]

TypeOK ==
    /\ now \in 1..End /\ up \in BOOLEAN
    /\ posts \in [Posts -> [status : {"draft", "scheduled", "published",
                                      "deleted"},
                            at : {Never} \cup Times]]
    /\ \A B \in {waiting, sleeping, tombstones} :
           IsABag(B) /\ BagToSet(B) \subseteq Jobs
    /\ pings \subseteq Pings
    /\ key \in Keys
    /\ rotation.stage \in {"none", "rotated", "loaded"}
    /\ rotation.loaded \subseteq Posts \X Times
    /\ edits \in 0..MaxEdits /\ faults \in 0..MaxFaults
    /\ leftover \subseteq Posts /\ disturbed \subseteq Posts
    \* scheduled and published posts have a date, pings an id of their own
    /\ \A p \in Posts : posts[p].status \in {"scheduled", "published"}
                        => posts[p].at # Never
    /\ \A x, y \in pings : x.id = y.id => x = y

Init ==
    /\ now = 1 /\ up = TRUE
    /\ posts = [p \in Posts |-> [status |-> "draft", at |-> Never]]
    /\ waiting = NoBag /\ sleeping = NoBag /\ tombstones = NoBag
    /\ pings = {}
    /\ key = 0 /\ rotation = NoRotation
    /\ edits = 0 /\ faults = 0
    /\ leftover = {} /\ disturbed = {}

-----------------------------------------------------------------------------
(* The adapter's table of jobs.  AddJobs(new): the jobs of the set new are *)
(* put to sleep at once when they are due soon, else kept for the loop.    *)

DueSoon(j) == j.time - now < Offset

AddJobs(new) ==
    LET soon == {j \in new : DueSoon(j)}
    IN  /\ sleeping' = sleeping (+) SetToBag(soon)
        /\ waiting' = waiting (+) SetToBag(new \ soon)

(* unschedule leaves a tombstone, except when the jobs are rebuilt at boot *)
DeleteJobs(old, bootstrap) ==
    tombstones' = IF bootstrap THEN tombstones
                  ELSE tombstones (+) SetToBag(old)

-----------------------------------------------------------------------------
(* Requests of authors.  The handler of the model event runs with the save *)
(* that emits it: it waits for the cached key only.                        *)

(* what every save changes: the posts, and the updated_at a ping has read *)
Save(p, status, at) ==
    /\ up /\ edits < MaxEdits
    /\ edits' = edits + 1
    /\ posts' = [posts EXCEPT ![p] = [status |-> status, at |-> at]]
    /\ pings' = {[x EXCEPT !.fresh = @ /\ x.job.post # p] : x \in pings}
    /\ disturbed' = IF ~Idle \/ \E x \in pings : x.job.post = p
                    THEN disturbed \cup {p} ELSE disturbed
    /\ UNCHANGED <<now, up, key, rotation, faults>>

(* draft -> scheduled: a date that changes must not be past *)
Schedule(p, at) ==
    /\ posts[p].status = "draft"
    /\ at >= now \/ at = posts[p].at
    /\ Save(p, "scheduled", at)
    /\ AddJobs({JobOf(p, at, key)})
    /\ UNCHANGED <<tombstones, leftover>>

Reschedule(p, at) ==
    /\ posts[p].status = "scheduled"
    /\ at >= now /\ at # posts[p].at
    /\ Save(p, "scheduled", at)
    /\ DeleteJobs({JobOf(p, posts[p].at, key)}, FALSE)
    /\ AddJobs({JobOf(p, at, key)})
    /\ UNCHANGED leftover

(* The job of an unscheduled post is found by the date the post had before. *)
(* Mutant: by the date it has now.                                          *)
UnscheduledByNewTime(p, at) == at
UnscheduledTime(p, at) == posts[p].at

(* scheduled -> draft, with the date it had or none *)
Unschedule(p, at) ==
    /\ posts[p].status = "scheduled"
    /\ Save(p, "draft", at)
    /\ IF UnscheduledTime(p, at) = Never
       THEN UNCHANGED tombstones
       ELSE DeleteJobs({JobOf(p, UnscheduledTime(p, at), key)}, FALSE)
    /\ UNCHANGED <<waiting, sleeping, leftover>>

(* the list of posts unschedules by a plain UPDATE: no model event, and    *)
(* updated_at stays                                                        *)
BulkUnschedule(p) ==
    /\ up /\ edits < MaxEdits
    /\ posts[p].status = "scheduled"
    /\ edits' = edits + 1
    /\ posts' = [posts EXCEPT ![p] = [status |-> "draft", at |-> Never]]
    /\ leftover' = leftover \cup {p}
    /\ UNCHANGED <<now, up, jobs, pings, key, rotation, faults, disturbed>>

(* any save of a post whose ping is under way, but for status and date *)
Touch(p) ==
    /\ posts[p].status = "scheduled"
    /\ \E x \in pings : x.job.post = p
    /\ Save(p, posts[p].status, posts[p].at)
    /\ UNCHANGED <<jobs, leftover>>

(* draft or scheduled -> published, at the date it has or now: there is no *)
(* unscheduled event                                                       *)
PublishNow(p) ==
    /\ posts[p].status \in {"draft", "scheduled"}
    /\ \E at \in {now, posts[p].at} \ {Never} : Save(p, "published", at)
    /\ leftover' = IF posts[p].status = "scheduled"
                   THEN leftover \cup {p} ELSE leftover
    /\ UNCHANGED jobs

Unpublish(p) ==
    /\ posts[p].status = "published"
    /\ Save(p, "draft", posts[p].at)
    /\ UNCHANGED <<jobs, leftover>>

Delete(p) ==
    /\ posts[p].status # "deleted"
    /\ Save(p, "deleted", Never)
    /\ UNCHANGED <<jobs, leftover>>

-----------------------------------------------------------------------------
(* Time, and the loop of the adapter, which wakes up once in every unit.   *)

Due == {j \in BagToSet(sleeping) : j.time <= now}

(* A timer that is due fires, and a request ends, in less than a unit. *)
Settled == Due = {} /\ pings = {} /\ Idle

Tick ==
    /\ now < End
    /\ up => Settled
    /\ now' = now + 1
    /\ LET soon == [j \in {k \in BagToSet(waiting) : k.time - now' <= Offset}
                        |-> waiting[j]]
       IN  sleeping' = sleeping (+) soon /\ waiting' = waiting (-) soon
    /\ UNCHANGED <<up, posts, tombstones, pings, key, rotation, edits, faults,
                   leftover, disturbed>>

(* A timer goes off: the job is dropped with one of its tombstones, or its *)
(* URL is requested, with force when its time is past.                     *)
Entomb(j) ==
    /\ BagIn(j, tombstones)
    /\ tombstones' = tombstones (-) SetToBag({j})
    /\ pings' = pings

Ping(j) ==
    /\ ~BagIn(j, tombstones)
    /\ \E id \in 1..MaxPings, force \in BOOLEAN :
           /\ \A x \in pings : x.id # id
           /\ \A i \in 1..(id - 1) : \E x \in pings : x.id = i
           /\ j.time < now => force
           /\ pings' = pings \cup {[id |-> id, job |-> j, tries |-> 0,
                                    force |-> force, stage |-> "sent",
                                    fresh |-> TRUE]}
    /\ tombstones' = tombstones

Fire(j) ==
    /\ up /\ j \in Due
    /\ sleeping' = sleeping (-) SetToBag({j})
    /\ Entomb(j) \/ Ping(j)
    /\ UNCHANGED <<now, up, posts, waiting, key, rotation, edits, faults,
                   leftover, disturbed>>

-----------------------------------------------------------------------------
(* The publishing request.                                                 *)

(* the job is not found, or it is past without the force flag *)
InTime(at, force) ==
    /\ at - now <= Tolerance
    /\ at # Never => at - now >= -Tolerance \/ force

Accepted(x) ==
    LET post == posts[x.job.post]
    IN  x.job.key = key /\ post.status # "deleted" /\ InTime(post.at, x.force)

(* the token is checked, and the post is read, whatever its status is *)
Read(x) ==
    /\ up /\ x.stage = "sent"
    /\ pings' = (pings \ {x}) \cup
           IF Accepted(x) THEN {[x EXCEPT !.stage = "checked"]} ELSE {}
    /\ UNCHANGED <<now, up, posts, jobs, key, rotation, edits, faults,
                   leftover, disturbed>>

(* The save of the request is refused when updated_at has changed.  Mutant: *)
(* it is not.                                                               *)
MaySaveStale(x) == TRUE
MaySave(x) == x.fresh

(* A published post gets a date if it has none.  Mutant: it does not. *)
PublishedAsItIs(p) == [posts EXCEPT ![p].status = "published"]
Published(p) ==
    [posts EXCEPT ![p] =
        [status |-> "published", at |-> IF @.at = Never THEN now ELSE @.at]]

Publish(x) ==
    LET p == x.job.post
    IN  /\ up /\ x.stage = "checked"
        /\ posts' = IF MaySave(x) /\ posts[p].status # "deleted"
                    THEN Published(p) ELSE posts
        /\ pings' = {[y EXCEPT !.fresh = @ /\ (posts' # posts => y.job.post # p)]
                        : y \in pings \ {x}}
        /\ UNCHANGED <<now, up, jobs, key, rotation, edits, faults, leftover,
                       disturbed>>

Fault == faults < MaxFaults /\ faults' = faults + 1

(* the request fails before or after the post is read: never repeated *)
Fail(x) ==
    /\ up /\ Fault
    /\ pings' = pings \ {x}
    /\ disturbed' = disturbed \cup {x.job.post}
    /\ UNCHANGED <<now, up, posts, jobs, key, rotation, edits, leftover>>

(* the site is in maintenance and answers 503 *)
Busy(x) ==
    /\ up /\ x.stage = "sent"
    /\ IF x.tries < MaxTries
       THEN /\ pings' = (pings \ {x}) \cup {[x EXCEPT !.tries = @ + 1,
                                                      !.force = TRUE]}
            /\ disturbed' = disturbed
       ELSE /\ pings' = pings \ {x}
            /\ disturbed' = disturbed \cup {x.job.post}
    /\ UNCHANGED <<now, up, posts, jobs, key, rotation, edits, faults,
                   leftover>>

-----------------------------------------------------------------------------
(* The jobs are rebuilt at boot and when the keys are rotated.             *)

(* each post of the set, a set of <<post, date>>, that was loaded *)
RescheduleAll(loaded, oldKey, bootstrap) ==
    /\ DeleteJobs({JobOf(l[1], l[2], oldKey) : l \in loaded}, bootstrap)
    /\ AddJobs({JobOf(l[1], l[2], key) : l \in loaded})

LoadScheduledResources == {<<p, posts[p].at>> : p \in Scheduled}

Crash ==
    /\ up /\ Fault
    /\ up' = FALSE
    /\ waiting' = NoBag /\ sleeping' = NoBag /\ tombstones' = NoBag
    /\ pings' = {} /\ rotation' = NoRotation
    /\ leftover' = {} /\ disturbed' = {}
    /\ UNCHANGED <<now, posts, key, edits>>

(* At boot no tombstones are left.  Mutant: they are, as in a rotation. *)
NotAtBoot == FALSE
AtBoot == TRUE

Boot ==
    /\ ~up /\ up' = TRUE
    /\ RescheduleAll(LoadScheduledResources, key, AtBoot)
    /\ UNCHANGED <<now, posts, pings, key, rotation, edits, faults, leftover,
                   disturbed>>

(* resetAuthentication: the transaction, and the cache is cleared *)
Rotate ==
    /\ up /\ Idle /\ key < MaxRotations
    /\ key' = key + 1
    /\ rotation' = [stage |-> "rotated", loaded |-> {}]
    /\ UNCHANGED <<now, up, posts, jobs, pings, edits, faults, leftover,
                   disturbed>>

Load ==
    /\ up /\ rotation.stage = "rotated"
    /\ rotation' = [stage |-> "loaded", loaded |-> LoadScheduledResources]
    /\ UNCHANGED <<now, up, posts, jobs, pings, key, edits, faults, leftover,
                   disturbed>>

(* The jobs the adapter still holds carry the key before the rotation.      *)
(* Mutant: the tombstones carry the current one.                            *)
UnscheduleCurrentKey == key
UnscheduleKey == key - 1

Reissue ==
    /\ up /\ rotation.stage = "loaded"
    /\ RescheduleAll(rotation.loaded, UnscheduleKey, FALSE)
    /\ rotation' = NoRotation
    /\ leftover' = leftover \cup
           {p \in {l[1] : l \in rotation.loaded} :
                p \notin Scheduled \/ \E x \in pings : x.job.post = p}
    /\ UNCHANGED <<now, up, posts, pings, key, edits, faults, disturbed>>

-----------------------------------------------------------------------------
AuthorNext ==
    \E p \in Posts :
        \/ \E at \in Times : Schedule(p, at) \/ Reschedule(p, at)
        \/ \E at \in {Never, posts[p].at} : Unschedule(p, at)
        \/ BulkUnschedule(p) \/ Touch(p)
        \/ PublishNow(p) \/ Unpublish(p) \/ Delete(p)

AdapterNext ==
    \/ \E j \in Due : Fire(j)
    \/ \E x \in pings : Read(x) \/ Publish(x)
    \/ Boot \/ Load \/ Reissue

FaultNext == Crash \/ \E x \in pings : Fail(x) \/ Busy(x)

Next == AuthorNext \/ Tick \/ AdapterNext \/ FaultNext \/ Rotate

Spec == Init /\ [][Next]_vars

(* Timers go off, requests are answered and the site is started again;     *)
(* authors, faults and rotations owe nothing.                              *)
FairSpec == Spec /\ WF_vars(AdapterNext) /\ WF_vars(Tick)

-----------------------------------------------------------------------------
(* The scheduler, not an author, makes the post p published. *)
SchedulerPublishes(p) ==
    /\ posts[p].status # "published" /\ posts'[p].status = "published"
    /\ edits' = edits

(* A post is published at most five minutes before its date, although the  *)
(* date is read in one query and the post is saved in a later one          *)
(* (post-scheduling.js publish, and the collision check of the model).     *)
NeverEarly ==
    [][\A p \in Posts :
          SchedulerPublishes(p) => posts[p].at - now <= Tolerance]_vars

(* A post that was made a draft again by an event stays one: its old job   *)
(* finds its tombstone, whatever dates the post had in between             *)
(* (unschedule and _execute of the adapter).                               *)
UnscheduledStaysDraft ==
    [][\A p \in Posts :
          SchedulerPublishes(p) /\ posts[p].status = "draft"
              => p \in leftover \cup disturbed]_vars

(* The scheduler publishes scheduled posts only (post-scheduling.js:14     *)
(* "Publishes scheduled resource").                                        *)
PublishesOnlyScheduled ==
    [][\A p \in Posts :
          SchedulerPublishes(p) => posts[p].status = "scheduled"]_vars

Copies(j, B) == IF BagIn(j, B) THEN B[j] ELSE 0

Outstanding(j) ==
    Copies(j, waiting) + Copies(j, sleeping) - Copies(j, tombstones)

(* As long as its time has not come, a scheduled post has a job under the  *)
(* current key that no tombstone will drop, after any sequence of edits,   *)
(* restarts and rotations.                                                 *)
ScheduledHasJob ==
    up /\ Idle =>
        \A p \in Scheduled :
            posts[p].at > now /\ p \notin disturbed
                => Outstanding(JobOf(p, posts[p].at, key)) >= 1

(* A scheduled post does not stay scheduled for ever, over restarts and    *)
(* rotations of the key, unless its request met an edit or a fault.        *)
EveryScheduledIsPublished ==
    \A p \in Posts :
        p \in Scheduled ~> p \notin Scheduled \/ p \in disturbed

=============================================================================
