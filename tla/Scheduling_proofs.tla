-------------------------- MODULE Scheduling_proofs -------------------------
(* Proofs about Scheduling, for every set of posts, every end of time and   *)
(* any number of edits, faults, rotations and requests.                     *)
EXTENDS Scheduling, TLAPS

-----------------------------------------------------------------------------
\* Bags of jobs: how many copies of a job they hold.
LEMMA BagCopies ==
  ASSUME NEW B, IsABag(B)
  PROVE  /\ \A e : Copies(e, B) \in Nat
         /\ \A e : BagIn(e, B) <=> Copies(e, B) >= 1
  BY DEF IsABag, BagIn, BagToSet, Copies

LEMMA BagPlus ==
  ASSUME NEW A, NEW B, IsABag(A), IsABag(B)
  PROVE  /\ IsABag(A (+) B)
         /\ BagToSet(A (+) B) = BagToSet(A) \cup BagToSet(B)
         /\ \A e : Copies(e, A (+) B) = Copies(e, A) + Copies(e, B)
<1> DEFINE C == [e \in (DOMAIN A) \cup (DOMAIN B) |->
                   (IF e \in DOMAIN A THEN A[e] ELSE 0)
                 + (IF e \in DOMAIN B THEN B[e] ELSE 0)]
<1>1. C = A (+) B BY DEF (+)
<1>2. /\ A \in [DOMAIN A -> {n \in Nat : n > 0}]
      /\ B \in [DOMAIN B -> {n \in Nat : n > 0}]
  BY DEF IsABag
<1>3. DOMAIN C = (DOMAIN A) \cup (DOMAIN B) OBVIOUS
<1>4. \A e \in DOMAIN C : C[e] \in Nat /\ C[e] > 0 BY <1>2
<1>5. C \in [DOMAIN C -> {n \in Nat : n > 0}] BY <1>4
<1>6. \A e : Copies(e, C) = Copies(e, A) + Copies(e, B)
  BY <1>2, <1>3 DEF Copies, BagIn, BagToSet
<1> HIDE DEF C
<1> QED BY <1>1, <1>3, <1>5, <1>6 DEF IsABag, BagToSet

LEMMA BagMinus ==
  ASSUME NEW A, NEW B, IsABag(A), IsABag(B)
  PROVE  /\ IsABag(A (-) B)
         /\ BagToSet(A (-) B) \subseteq BagToSet(A)
         /\ \A e : Copies(e, A (-) B) = IF Copies(e, A) >= Copies(e, B)
                                        THEN Copies(e, A) - Copies(e, B) ELSE 0
<1> DEFINE D == [e \in DOMAIN A |-> IF e \in DOMAIN B THEN A[e] - B[e] ELSE A[e]]
           C == [e \in {d \in DOMAIN D : D[d] > 0} |-> D[e]]
<1>1. C = A (-) B BY DEF (-)
<1>2. /\ A \in [DOMAIN A -> {n \in Nat : n > 0}]
      /\ B \in [DOMAIN B -> {n \in Nat : n > 0}]
  BY DEF IsABag
<1>3. \A e \in DOMAIN A : D[e] = Copies(e, A) - Copies(e, B) /\ D[e] \in Int
  BY <1>2 DEF Copies, BagIn, BagToSet
<1>4. DOMAIN C = {e \in DOMAIN A : D[e] > 0} /\ \A e \in DOMAIN C : C[e] = D[e]
  OBVIOUS
<1>5. C \in [DOMAIN C -> {n \in Nat : n > 0}] BY <1>3, <1>4
<1>6. \A e : Copies(e, A) \in Nat /\ Copies(e, B) \in Nat
  BY BagCopies
<1>7. \A e : e \notin DOMAIN A => Copies(e, A) = 0
  BY DEF Copies, BagIn, BagToSet
<1>8. \A e : Copies(e, C) = IF Copies(e, A) >= Copies(e, B)
                            THEN Copies(e, A) - Copies(e, B) ELSE 0
  <2> HIDE DEF C, D
  <2> SUFFICES ASSUME NEW e
      PROVE Copies(e, C) = IF Copies(e, A) >= Copies(e, B)
                           THEN Copies(e, A) - Copies(e, B) ELSE 0
    OBVIOUS
  <2>1. Copies(e, C) = IF e \in DOMAIN C THEN C[e] ELSE 0
    BY DEF Copies, BagIn, BagToSet
  <2> QED BY <1>3, <1>4, <1>6, <1>7, <2>1
<1> HIDE DEF C
<1> QED BY <1>1, <1>4, <1>5, <1>8 DEF IsABag, BagToSet

LEMMA BagOfSet ==
  ASSUME NEW S
  PROVE  /\ IsABag(SetToBag(S)) /\ BagToSet(SetToBag(S)) = S
         /\ \A e : Copies(e, SetToBag(S)) = IF e \in S THEN 1 ELSE 0
  BY DEF IsABag, SetToBag, BagToSet, Copies, BagIn

\* The jobs of a bag that meet a condition, with all their copies.
LEMMA BagPart ==
  ASSUME NEW B, IsABag(B), NEW S \in SUBSET BagToSet(B)
  PROVE  /\ IsABag([e \in S |-> B[e]])
         /\ BagToSet([e \in S |-> B[e]]) = S
         /\ \A e : Copies(e, [d \in S |-> B[d]]) = IF e \in S THEN Copies(e, B) ELSE 0
  BY DEF IsABag, BagToSet, Copies, BagIn

-----------------------------------------------------------------------------
\* Typing.  It needs to know that a rotation has a key before the current one.
RotationTyped ==
    /\ rotation \in [stage : {"none", "rotated", "loaded"},
                     loaded : SUBSET (Posts \X Times)]
    /\ rotation.stage = "none" => rotation.loaded = {}
    /\ rotation.stage # "none" => key >= 1

JobBag(B) == IsABag(B) /\ BagToSet(B) \subseteq Jobs

PostRows == [status : {"draft", "scheduled", "published", "deleted"},
             at : {Never} \cup Times]

LEMMA TimesAre ==
  /\ Times \subseteq Nat /\ \A t \in Times : t >= 1 /\ t # Never
  /\ 1 \in Times /\ Never \notin Times
  /\ Keys \subseteq Nat /\ 0 \in Keys
  BY SchedulingAssumption DEF Times, Keys, Never

LEMMA JobsAre ==
  ASSUME NEW p \in Posts, NEW t \in Times, NEW k \in Keys
  PROVE  /\ JobOf(p, t, k) \in Jobs
         /\ JobOf(p, t, k).post = p /\ JobOf(p, t, k).time = t
         /\ JobOf(p, t, k).key = k
         /\ \A q, s, l : JobOf(p, t, k) = JobOf(q, s, l) => p = q /\ t = s /\ k = l
<1>1. JobOf(p, t, k) = [post |-> p, time |-> t, key |-> k] BY DEF JobOf
<1>2. ASSUME NEW q, NEW s, NEW l, JobOf(p, t, k) = JobOf(q, s, l)
      PROVE  p = q /\ t = s /\ k = l
  <2>1. JobOf(q, s, l) = [post |-> q, time |-> s, key |-> l] BY DEF JobOf
  <2>2. /\ JobOf(p, t, k).post = q /\ JobOf(p, t, k).time = s
        /\ JobOf(p, t, k).key = l
    BY <1>2, <2>1
  <2> QED BY <1>1, <2>2
<1> QED BY <1>1, <1>2 DEF Jobs

LEMMA Typed ==
  ASSUME TypeOK
  PROVE  /\ now \in Times /\ key \in Keys
         /\ posts \in [Posts -> PostRows]
         /\ \A p \in Posts : /\ posts[p].status \in {"draft", "scheduled",
                                                     "published", "deleted"}
                             /\ posts[p].at \in {Never} \cup Times
                             /\ posts[p].status \in {"scheduled", "published"}
                                  => posts[p].at \in Times
         /\ JobBag(waiting) /\ JobBag(sleeping) /\ JobBag(tombstones)
         /\ \A x \in pings : x \in Pings
         /\ \A x \in pings : x.job \in Jobs /\ x.job.post \in Posts
                             /\ x.id \in 1..MaxPings
<1>1. now \in Times /\ key \in Keys BY DEF TypeOK, Times
<1>2. posts \in [Posts -> PostRows] BY DEF TypeOK, PostRows
<1>3. \A p \in Posts : /\ posts[p].status \in {"draft", "scheduled",
                                              "published", "deleted"}
                       /\ posts[p].at \in {Never} \cup Times
  BY <1>2 DEF PostRows
<1>4. \A p \in Posts : posts[p].status \in {"scheduled", "published"}
                         => posts[p].at \in Times
  BY <1>3 DEF TypeOK
<1>5. JobBag(waiting) /\ JobBag(sleeping) /\ JobBag(tombstones)
  BY DEF TypeOK, JobBag
<1>6. \A x \in pings : x \in Pings BY DEF TypeOK
<1>7. \A x \in Pings : x.job \in Jobs /\ x.job.post \in Posts
                       /\ x.id \in 1..MaxPings
  BY DEF Pings, Jobs
<1> QED BY <1>1, <1>2, <1>3, <1>4, <1>5, <1>6, <1>7

\* The jobs that AddJobs and DeleteJobs put into the adapter's table.
LEMMA Adding ==
  ASSUME TypeOK, NEW new \in SUBSET Jobs, AddJobs(new)
  PROVE  /\ JobBag(waiting') /\ JobBag(sleeping')
         /\ \A j \in Jobs : Copies(j, waiting') + Copies(j, sleeping')
              = Copies(j, waiting) + Copies(j, sleeping)
                + (IF j \in new THEN 1 ELSE 0)
<1> DEFINE soon == {j \in new : DueSoon(j)}
           late == new \ soon
<1>1. JobBag(waiting) /\ JobBag(sleeping) BY Typed
<1>2. /\ sleeping' = sleeping (+) SetToBag(soon)
      /\ waiting' = waiting (+) SetToBag(late)
  BY DEF AddJobs
<1>3. soon \subseteq Jobs /\ late \subseteq Jobs OBVIOUS
<1>4. \A j : (j \in soon => j \in new) /\ (j \in late => j \in new)
             /\ ~(j \in soon /\ j \in late)
             /\ (j \in new => j \in soon \/ j \in late)
  OBVIOUS
<1> HIDE DEF soon, late
<1>5. /\ IsABag(SetToBag(soon)) /\ BagToSet(SetToBag(soon)) = soon
      /\ \A e : Copies(e, SetToBag(soon)) = IF e \in soon THEN 1 ELSE 0
      /\ IsABag(SetToBag(late)) /\ BagToSet(SetToBag(late)) = late
      /\ \A e : Copies(e, SetToBag(late)) = IF e \in late THEN 1 ELSE 0
  BY BagOfSet
<1>6. /\ IsABag(sleeping')
      /\ BagToSet(sleeping') = BagToSet(sleeping) \cup soon
      /\ \A e : Copies(e, sleeping')
                  = Copies(e, sleeping) + (IF e \in soon THEN 1 ELSE 0)
  BY <1>1, <1>2, <1>5, BagPlus DEF JobBag
<1>7. /\ IsABag(waiting')
      /\ BagToSet(waiting') = BagToSet(waiting) \cup late
      /\ \A e : Copies(e, waiting')
                  = Copies(e, waiting) + (IF e \in late THEN 1 ELSE 0)
  BY <1>1, <1>2, <1>5, BagPlus DEF JobBag
<1>8. \A e : Copies(e, sleeping) \in Nat /\ Copies(e, waiting) \in Nat
  BY <1>1, BagCopies DEF JobBag
<1>9. JobBag(waiting') /\ JobBag(sleeping')
  BY <1>1, <1>3, <1>6, <1>7 DEF JobBag
<1>10. \A j \in Jobs : Copies(j, waiting') + Copies(j, sleeping')
              = Copies(j, waiting) + Copies(j, sleeping)
                + (IF j \in new THEN 1 ELSE 0)
  BY <1>4, <1>6, <1>7, <1>8
<1> QED BY <1>9, <1>10

LEMMA Deleting ==
  ASSUME TypeOK, NEW old \in SUBSET Jobs, NEW b \in BOOLEAN, DeleteJobs(old, b)
  PROVE  /\ JobBag(tombstones')
         /\ BagToSet(tombstones') \subseteq BagToSet(tombstones) \cup old
         /\ \A j \in Jobs : Copies(j, tombstones')
              = Copies(j, tombstones) + (IF ~b /\ j \in old THEN 1 ELSE 0)
<1>1. JobBag(tombstones) BY Typed
<1>2. /\ IsABag(SetToBag(old)) /\ BagToSet(SetToBag(old)) = old
      /\ \A e : Copies(e, SetToBag(old)) = IF e \in old THEN 1 ELSE 0
  BY BagOfSet
<1>3. \A e : Copies(e, tombstones) \in Nat BY <1>1, BagCopies DEF JobBag
<1>4. CASE b
  <2>1. tombstones' = tombstones BY <1>4 DEF DeleteJobs
  <2> QED BY <1>1, <1>3, <1>4, <2>1
<1>5. CASE ~b
  <2>1. tombstones' = tombstones (+) SetToBag(old) BY <1>5 DEF DeleteJobs
  <2>2. /\ IsABag(tombstones')
        /\ BagToSet(tombstones') = BagToSet(tombstones) \cup old
        /\ \A e : Copies(e, tombstones')
                    = Copies(e, tombstones) + (IF e \in old THEN 1 ELSE 0)
    BY <1>1, <1>2, <2>1, BagPlus DEF JobBag
  <2> QED BY <1>1, <1>5, <2>2 DEF JobBag
<1> QED BY <1>4, <1>5

\* A ping that learns of a save.
LEMMA PingStale ==
  ASSUME NEW x \in Pings, NEW c \in BOOLEAN
  PROVE  /\ [x EXCEPT !.fresh = @ /\ c] \in Pings
         /\ [x EXCEPT !.fresh = @ /\ c].id = x.id
         /\ [x EXCEPT !.fresh = @ /\ c].job = x.job
         /\ [x EXCEPT !.fresh = @ /\ c].stage = x.stage
         /\ [x EXCEPT !.fresh = @ /\ c].fresh <=> x.fresh /\ c
  BY DEF Pings

\* What a save leaves of the types.
LEMMA Saving ==
  ASSUME TypeOK, NEW p \in Posts,
         NEW status \in {"draft", "scheduled", "published", "deleted"},
         NEW at \in {Never} \cup Times,
         status \in {"scheduled", "published"} => at \in Times,
         Save(p, status, at)
  PROVE  /\ posts' \in [Posts -> PostRows]
         /\ \A q \in Posts : posts'[q].status \in {"scheduled", "published"}
                               => posts'[q].at # Never
         /\ pings' \subseteq Pings
         /\ \A x, y \in pings' : x.id = y.id => x = y
         /\ edits' \in 0..MaxEdits /\ disturbed' \subseteq Posts
<1>1. posts' = [posts EXCEPT ![p] = [status |-> status, at |-> at]]
  BY DEF Save
<1>2. posts \in [Posts -> PostRows] /\ Never \notin Times BY Typed, TimesAre
<1>3. posts' \in [Posts -> PostRows] BY <1>1, <1>2 DEF PostRows
<1>4. \A q \in Posts : posts'[q].status \in {"scheduled", "published"}
                         => posts'[q].at # Never
  <2>1. posts'[p].status = status /\ posts'[p].at = at BY <1>1, <1>2
  <2>2. \A q \in Posts : q # p => posts'[q] = posts[q] BY <1>1, <1>2
  <2> QED BY <1>2, <2>1, <2>2 DEF TypeOK
<1>5. \A y \in pings' : \E x \in pings :
         y = [x EXCEPT !.fresh = @ /\ x.job.post # p]
  BY DEF Save
<1>6. pings \subseteq Pings /\ \A x, y \in pings : x.id = y.id => x = y
  BY DEF TypeOK
<1>7. \A x \in pings : /\ [x EXCEPT !.fresh = @ /\ x.job.post # p] \in Pings
                       /\ [x EXCEPT !.fresh = @ /\ x.job.post # p].id = x.id
  BY <1>6, PingStale
<1>8. pings' \subseteq Pings BY <1>5, <1>7
<1>9. \A x, y \in pings' : x.id = y.id => x = y
  <2> SUFFICES ASSUME NEW x \in pings', NEW y \in pings', x.id = y.id PROVE x = y
    OBVIOUS
  <2>1. PICK a \in pings : x = [a EXCEPT !.fresh = @ /\ a.job.post # p] BY <1>5
  <2>2. PICK b \in pings : y = [b EXCEPT !.fresh = @ /\ b.job.post # p] BY <1>5
  <2>3. a.id = b.id BY <1>7, <2>1, <2>2
  <2>4. a = b BY <1>6, <2>3
  <2> QED BY <2>1, <2>2, <2>4
<1>10. edits' \in 0..MaxEdits /\ disturbed' \subseteq Posts
  BY SchedulingAssumption DEF TypeOK, Save
<1> QED BY <1>3, <1>4, <1>8, <1>9, <1>10

\* The parts of the typing that a step may disturb.
LEMMA TypeParts ==
  ASSUME now' \in Times, up' \in BOOLEAN, posts' \in [Posts -> PostRows],
         \A p \in Posts : posts'[p].status \in {"scheduled", "published"}
                            => posts'[p].at # Never,
         JobBag(waiting'), JobBag(sleeping'), JobBag(tombstones'),
         pings' \subseteq Pings,
         \A x, y \in pings' : x.id = y.id => x = y,
         key' \in Keys,
         rotation'.stage \in {"none", "rotated", "loaded"},
         rotation'.loaded \subseteq Posts \X Times,
         edits' \in 0..MaxEdits, faults' \in 0..MaxFaults,
         leftover' \subseteq Posts, disturbed' \subseteq Posts
  PROVE  TypeOK'
  BY DEF TypeOK, JobBag, PostRows, Times

LEMMA TypeSave ==
  ASSUME TypeOK, NEW p \in Posts,
         NEW status \in {"draft", "scheduled", "published", "deleted"},
         NEW at \in {Never} \cup Times,
         status \in {"scheduled", "published"} => at \in Times,
         Save(p, status, at),
         JobBag(waiting'), JobBag(sleeping'), JobBag(tombstones'),
         leftover' \subseteq Posts
  PROVE  TypeOK'
<1>1. UNCHANGED <<now, up, key, rotation, faults>> BY DEF Save
<1>2. /\ now \in Times /\ up \in BOOLEAN /\ key \in Keys
      /\ rotation.stage \in {"none", "rotated", "loaded"}
      /\ rotation.loaded \subseteq Posts \X Times
      /\ faults \in 0..MaxFaults
  BY Typed DEF TypeOK
<1> QED BY <1>1, <1>2, Saving, TypeParts

\* Several of the actions leave the table of jobs alone.
LEMMA TypeAuthor ==
  ASSUME TypeOK, NEW p \in Posts,
         \/ \E at \in Times : Schedule(p, at) \/ Reschedule(p, at)
         \/ \E at \in {Never, posts[p].at} : Unschedule(p, at)
         \/ BulkUnschedule(p) \/ Touch(p)
         \/ PublishNow(p) \/ Unpublish(p) \/ Delete(p)
  PROVE  TypeOK'
<1>0. /\ now \in Times /\ key \in Keys /\ posts[p].at \in {Never} \cup Times
      /\ posts[p].status \in {"scheduled", "published"} => posts[p].at \in Times
      /\ JobBag(waiting) /\ JobBag(sleeping) /\ JobBag(tombstones)
      /\ leftover \subseteq Posts /\ FALSE \in BOOLEAN
  BY Typed DEF TypeOK
<1>1. ASSUME NEW at \in Times, Schedule(p, at) PROVE TypeOK'
  <2>1. {JobOf(p, at, key)} \in SUBSET Jobs BY <1>0, JobsAre
  <2>2. JobBag(waiting') /\ JobBag(sleeping')
    BY <1>1, <2>1, Adding DEF Schedule
  <2>3. UNCHANGED <<tombstones, leftover>> /\ Save(p, "scheduled", at)
    BY <1>1 DEF Schedule
  <2> QED BY <1>0, <2>2, <2>3, TypeSave
<1>2. ASSUME NEW at \in Times, Reschedule(p, at) PROVE TypeOK'
  <2>0. posts[p].at \in Times BY <1>0, <1>2 DEF Reschedule
  <2>1. {JobOf(p, at, key)} \in SUBSET Jobs
        /\ {JobOf(p, posts[p].at, key)} \in SUBSET Jobs
    BY <1>0, <2>0, JobsAre
  <2>2. JobBag(waiting') /\ JobBag(sleeping')
    BY <1>2, <2>1, Adding DEF Reschedule
  <2>3. JobBag(tombstones') BY <1>0, <1>2, <2>1, Deleting DEF Reschedule
  <2>4. UNCHANGED leftover /\ Save(p, "scheduled", at)
    BY <1>2 DEF Reschedule
  <2> QED BY <1>0, <2>2, <2>3, <2>4, TypeSave
<1>3. ASSUME NEW at \in {Never, posts[p].at}, Unschedule(p, at) PROVE TypeOK'
  <2>0. posts[p].at \in Times BY <1>0, <1>3 DEF Unschedule
  <2>1. {JobOf(p, posts[p].at, key)} \in SUBSET Jobs
    BY <1>0, <2>0, JobsAre
  <2>2. JobBag(tombstones')
    BY <1>0, <1>3, <2>1, Deleting DEF Unschedule, UnscheduledTime
  <2>3. UNCHANGED <<waiting, sleeping, leftover>> /\ Save(p, "draft", at)
    BY <1>3 DEF Unschedule
  <2>4. at \in {Never} \cup Times BY <2>0
  <2> QED BY <1>0, <2>2, <2>3, <2>4, TypeSave
<1>4. CASE Touch(p) \/ Unpublish(p) \/ Delete(p)
  <2>1. UNCHANGED <<waiting, sleeping, tombstones, leftover>>
    BY <1>4 DEF Touch, Unpublish, Delete, jobs
  <2>2. \/ Save(p, "scheduled", posts[p].at) /\ posts[p].at \in Times
        \/ Save(p, "draft", posts[p].at) \/ Save(p, "deleted", Never)
    BY <1>0, <1>4 DEF Touch, Unpublish, Delete
  <2> QED BY <1>0, <2>1, <2>2, TypeSave
<1>5. CASE PublishNow(p)
  <2>1. UNCHANGED <<waiting, sleeping, tombstones>> /\ leftover' \subseteq Posts
    BY <1>0, <1>5 DEF PublishNow, jobs
  <2>2. PICK at \in {now, posts[p].at} \ {Never} : Save(p, "published", at)
    BY <1>5 DEF PublishNow
  <2>3. at \in Times BY <1>0
  <2> QED BY <1>0, <2>1, <2>2, <2>3, TypeSave
<1>6. CASE BulkUnschedule(p)
  <2>1. /\ posts' = [posts EXCEPT ![p] = [status |-> "draft", at |-> Never]]
        /\ posts \in [Posts -> PostRows]
    BY <1>6, Typed DEF BulkUnschedule
  <2>2. posts' \in [Posts -> PostRows] BY <2>1 DEF PostRows
  <2>3. \A q \in Posts : posts'[q].status \in {"scheduled", "published"}
                           => posts'[q].at # Never
    BY <2>1, <2>2 DEF TypeOK
  <2>4. edits' \in 0..MaxEdits /\ leftover' \subseteq Posts
    BY <1>6, SchedulingAssumption DEF TypeOK, BulkUnschedule
  <2>5. UNCHANGED <<now, up, jobs, pings, key, rotation, faults, disturbed>>
    BY <1>6 DEF BulkUnschedule
  <2> QED BY <1>0, <2>2, <2>3, <2>4, <2>5, TypeParts DEF TypeOK, jobs
<1> QED BY <1>1, <1>2, <1>3, <1>4, <1>5, <1>6

\* The jobs that are due soon move to the timers, all copies of them.
LEMMA Ticking ==
  ASSUME TypeOK, Tick
  PROVE  /\ JobBag(waiting') /\ JobBag(sleeping')
         /\ \A j \in Jobs : Copies(j, waiting') + Copies(j, sleeping')
              = Copies(j, waiting) + Copies(j, sleeping)
<1> DEFINE S == {k \in BagToSet(waiting) : k.time - now' <= Offset}
           soon == [j \in S |-> waiting[j]]
<1>1. JobBag(waiting) /\ JobBag(sleeping) BY Typed
<1>2. sleeping' = sleeping (+) soon /\ waiting' = waiting (-) soon
  BY DEF Tick
<1>3. S \in SUBSET BagToSet(waiting) OBVIOUS
<1> HIDE DEF S
<1>4. /\ IsABag(soon) /\ BagToSet(soon) = S
      /\ \A e : Copies(e, soon) = IF e \in S THEN Copies(e, waiting) ELSE 0
  BY <1>1, <1>3, BagPart DEF JobBag
<1> HIDE DEF soon
<1>5. /\ IsABag(sleeping')
      /\ BagToSet(sleeping') = BagToSet(sleeping) \cup S
      /\ \A e : Copies(e, sleeping') = Copies(e, sleeping) + Copies(e, soon)
  BY <1>1, <1>2, <1>4, BagPlus DEF JobBag
<1>6. /\ IsABag(waiting')
      /\ BagToSet(waiting') \subseteq BagToSet(waiting)
      /\ \A e : Copies(e, waiting') = IF Copies(e, waiting) >= Copies(e, soon)
                                      THEN Copies(e, waiting) - Copies(e, soon)
                                      ELSE 0
  BY <1>1, <1>2, <1>4, BagMinus DEF JobBag
<1>7. \A e : Copies(e, sleeping) \in Nat /\ Copies(e, waiting) \in Nat
  BY <1>1, BagCopies DEF JobBag
<1>8. JobBag(waiting') /\ JobBag(sleeping')
  BY <1>1, <1>3, <1>5, <1>6 DEF JobBag
<1>9. ASSUME NEW j \in Jobs
      PROVE  Copies(j, waiting') + Copies(j, sleeping')
                = Copies(j, waiting) + Copies(j, sleeping)
  <2>1. Copies(j, sleeping) \in Nat /\ Copies(j, waiting) \in Nat BY <1>7
  <2>2. Copies(j, soon) = 0 \/ Copies(j, soon) = Copies(j, waiting) BY <1>4
  <2>3. Copies(j, sleeping') = Copies(j, sleeping) + Copies(j, soon) BY <1>5
  <2>4. Copies(j, waiting') = IF Copies(j, waiting) >= Copies(j, soon)
                              THEN Copies(j, waiting) - Copies(j, soon) ELSE 0
    BY <1>6
  <2> QED BY <2>1, <2>2, <2>3, <2>4
<1> QED BY <1>8, <1>9

\* A timer goes off: one copy of the job goes, with a tombstone if it has one.
LEMMA Firing ==
  ASSUME TypeOK, NEW j \in Due, Fire(j)
  PROVE  /\ j \in Jobs /\ Copies(j, sleeping) >= 1
         /\ JobBag(sleeping') /\ JobBag(tombstones')
         /\ BagToSet(tombstones') \subseteq BagToSet(tombstones)
         /\ \A i \in Jobs : Copies(i, sleeping')
              = Copies(i, sleeping) - (IF i = j THEN 1 ELSE 0)
         /\ \/ /\ pings' = pings
               /\ \A i \in Jobs : Copies(i, tombstones')
                    = Copies(i, tombstones) - (IF i = j THEN 1 ELSE 0)
            \/ /\ Ping(j) /\ tombstones' = tombstones
               /\ Copies(j, tombstones) = 0
<1> DEFINE one == SetToBag({j})
<1>1. JobBag(sleeping) /\ JobBag(tombstones) BY Typed
<1>2. j \in BagToSet(sleeping) /\ j \in Jobs BY <1>1 DEF Due, JobBag
<1>3. /\ IsABag(one) /\ BagToSet(one) = {j}
      /\ \A e : Copies(e, one) = IF e = j THEN 1 ELSE 0
  BY BagOfSet
<1> HIDE DEF one
<1>4. sleeping' = sleeping (-) one BY DEF Fire, one
<1>5. /\ \A e : Copies(e, sleeping) \in Nat /\ Copies(e, tombstones) \in Nat
      /\ \A e : BagIn(e, sleeping) <=> Copies(e, sleeping) >= 1
      /\ \A e : BagIn(e, tombstones) <=> Copies(e, tombstones) >= 1
  BY <1>1, BagCopies DEF JobBag
<1>6. Copies(j, sleeping) >= 1 BY <1>2, <1>5 DEF BagIn
<1>7. /\ IsABag(sleeping') /\ BagToSet(sleeping') \subseteq BagToSet(sleeping)
      /\ \A e : Copies(e, sleeping') = IF Copies(e, sleeping) >= Copies(e, one)
                                       THEN Copies(e, sleeping) - Copies(e, one)
                                       ELSE 0
  BY <1>1, <1>3, <1>4, BagMinus DEF JobBag
<1>8. \A i \in Jobs : Copies(i, sleeping')
              = Copies(i, sleeping) - (IF i = j THEN 1 ELSE 0)
  BY <1>3, <1>5, <1>6, <1>7
<1>9. JobBag(sleeping') BY <1>1, <1>7 DEF JobBag
<1>10. CASE Entomb(j)
  <2>1. /\ BagIn(j, tombstones) /\ tombstones' = tombstones (-) one
        /\ pings' = pings
    BY <1>10 DEF Entomb, one
  <2>2. /\ IsABag(tombstones')
        /\ BagToSet(tombstones') \subseteq BagToSet(tombstones)
        /\ \A e : Copies(e, tombstones') = IF Copies(e, tombstones) >= Copies(e, one)
                                           THEN Copies(e, tombstones) - Copies(e, one)
                                           ELSE 0
    BY <1>1, <1>3, <2>1, BagMinus DEF JobBag
  <2>3. \A i \in Jobs : Copies(i, tombstones')
                = Copies(i, tombstones) - (IF i = j THEN 1 ELSE 0)
    BY <1>3, <1>5, <2>1, <2>2
  <2>4. JobBag(tombstones') BY <1>1, <2>2 DEF JobBag
  <2> QED BY <1>2, <1>6, <1>8, <1>9, <2>1, <2>2, <2>3, <2>4
<1>11. CASE Ping(j)
  <2>1. tombstones' = tombstones /\ ~BagIn(j, tombstones) BY <1>11 DEF Ping
  <2>2. Copies(j, tombstones) = 0 BY <1>5, <2>1
  <2> QED BY <1>1, <1>2, <1>6, <1>8, <1>9, <1>11, <2>1, <2>2
<1> QED BY <1>10, <1>11 DEF Fire

LEMMA TypeTickFire ==
  ASSUME TypeOK, Tick \/ \E j \in Due : Fire(j)
  PROVE  TypeOK'
<1>0. /\ now \in Times /\ key \in Keys /\ posts \in [Posts -> PostRows]
      /\ JobBag(waiting) /\ JobBag(sleeping) /\ JobBag(tombstones)
  BY Typed
<1>1. CASE Tick
  <2>1. JobBag(waiting') /\ JobBag(sleeping') BY <1>1, Ticking
  <2>2. now' \in Times BY <1>0, <1>1, SchedulingAssumption DEF Tick, Times
  <2>3. UNCHANGED <<up, posts, tombstones, pings, key, rotation, edits, faults,
                    leftover, disturbed>>
    BY <1>1 DEF Tick
  <2> QED BY <1>0, <2>1, <2>2, <2>3, TypeParts DEF TypeOK
<1>2. ASSUME NEW j \in Due, Fire(j) PROVE TypeOK'
  <2>1. j \in Jobs /\ JobBag(sleeping') /\ JobBag(tombstones')
        /\ (pings' = pings \/ Ping(j))
    BY <1>2, Firing
  <2>2. UNCHANGED <<now, up, posts, waiting, key, rotation, edits, faults,
                    leftover, disturbed>>
    BY <1>2 DEF Fire
  <2>3. pings \subseteq Pings /\ \A x, y \in pings : x.id = y.id => x = y
    BY DEF TypeOK
  <2>4. CASE pings' = pings
    BY <1>0, <2>1, <2>2, <2>3, <2>4, TypeParts DEF TypeOK
  <2>5. CASE Ping(j)
    <3>1. PICK id \in 1..MaxPings, force \in BOOLEAN :
             /\ \A x \in pings : x.id # id
             /\ pings' = pings \cup {[id |-> id, job |-> j, tries |-> 0,
                                      force |-> force, stage |-> "sent",
                                      fresh |-> TRUE]}
      BY <2>5 DEF Ping
    <3> DEFINE new == [id |-> id, job |-> j, tries |-> 0, force |-> force,
                       stage |-> "sent", fresh |-> TRUE]
    <3>2. 0 \in 0..MaxTries BY SchedulingAssumption
    <3>3. new \in Pings BY <2>1, <3>2 DEF Pings
    <3>4. new.id = id OBVIOUS
    <3> HIDE DEF new
    <3>5. pings' = pings \cup {new} BY <3>1 DEF new
    <3>6. pings' \subseteq Pings /\ \A x, y \in pings' : x.id = y.id => x = y
      BY <2>3, <3>1, <3>3, <3>4, <3>5
    <3> QED BY <1>0, <2>1, <2>2, <3>6, TypeParts DEF TypeOK
  <2> QED BY <2>1, <2>4, <2>5
<1> QED BY <1>1, <1>2

\* A ping moves on, or it ends; the others stay.
LEMMA PingMoves ==
  ASSUME TypeOK, NEW x \in pings, NEW S, pings' = (pings \ {x}) \cup S,
         \A y \in S : y \in Pings /\ y.id = x.id, \A y, z \in S : y = z
  PROVE  pings' \subseteq Pings /\ \A y, z \in pings' : y.id = z.id => y = z
<1>1. pings \subseteq Pings /\ \A y, z \in pings : y.id = z.id => y = z
  BY DEF TypeOK
<1> QED BY <1>1

LEMMA TypeRequest ==
  ASSUME TypeOK, NEW x \in pings, Read(x) \/ Publish(x) \/ Fail(x) \/ Busy(x)
  PROVE  TypeOK'
<1>0. /\ now \in Times /\ key \in Keys /\ posts \in [Posts -> PostRows]
      /\ JobBag(waiting) /\ JobBag(sleeping) /\ JobBag(tombstones)
      /\ x \in Pings /\ x.job.post \in Posts
  BY Typed
<1>1. CASE Read(x)
  <2> DEFINE S == IF Accepted(x) THEN {[x EXCEPT !.stage = "checked"]} ELSE {}
  <2>1. /\ [x EXCEPT !.stage = "checked"] \in Pings
        /\ [x EXCEPT !.stage = "checked"].id = x.id
    BY <1>0 DEF Pings
  <2>2. \A y \in S : y \in Pings /\ y.id = x.id BY <2>1
  <2>3. \A y, z \in S : y = z OBVIOUS
  <2>4. pings' = (pings \ {x}) \cup S BY <1>1 DEF Read
  <2> HIDE DEF S
  <2>5. pings' \subseteq Pings /\ \A y, z \in pings' : y.id = z.id => y = z
    BY <2>2, <2>3, <2>4, PingMoves
  <2>6. UNCHANGED <<now, up, posts, jobs, key, rotation, edits, faults,
                    leftover, disturbed>>
    BY <1>1 DEF Read
  <2> QED BY <1>0, <2>5, <2>6, TypeParts DEF TypeOK, jobs
<1>2. CASE Publish(x)
  <2> DEFINE c(y) == posts' # posts => y.job.post # x.job.post
  <2>1. posts' \in [Posts -> PostRows]
    <3>1. Published(x.job.post) \in [Posts -> PostRows]
      BY <1>0 DEF Published, PostRows
    <3> QED BY <1>0, <1>2, <3>1 DEF Publish
  <2>2. \A q \in Posts : posts'[q].status \in {"scheduled", "published"}
                           => posts'[q].at # Never
    <3>1. CASE posts' = posts BY <3>1 DEF TypeOK
    <3>2. CASE posts' = Published(x.job.post)
      <4>1. Never \notin Times BY TimesAre
      <4> QED BY <1>0, <3>2, <4>1 DEF TypeOK, Published
    <3> QED BY <1>2, <3>1, <3>2 DEF Publish
  <2>3. \A y \in pings' : \E z \in pings \ {x} : y = [z EXCEPT !.fresh = @ /\ c(z)]
    BY <1>2 DEF Publish
  <2>4. pings \subseteq Pings /\ \A y, z \in pings : y.id = z.id => y = z
    BY DEF TypeOK
  <2>5. \A z \in pings : /\ [z EXCEPT !.fresh = @ /\ c(z)] \in Pings
                         /\ [z EXCEPT !.fresh = @ /\ c(z)].id = z.id
    BY <2>4, PingStale
  <2>6. pings' \subseteq Pings BY <2>3, <2>5
  <2>7. \A y, z \in pings' : y.id = z.id => y = z
    <3> SUFFICES ASSUME NEW y \in pings', NEW z \in pings', y.id = z.id PROVE y = z
      OBVIOUS
    <3>1. PICK a \in pings : y = [a EXCEPT !.fresh = @ /\ c(a)] BY <2>3
    <3>2. PICK b \in pings : z = [b EXCEPT !.fresh = @ /\ c(b)] BY <2>3
    <3> HIDE DEF c
    <3>3. a.id = b.id BY <2>5, <3>1, <3>2
    <3> QED BY <2>4, <3>1, <3>2, <3>3
  <2>8. UNCHANGED <<now, up, jobs, key, rotation, edits, faults, leftover,
                    disturbed>>
    BY <1>2 DEF Publish
  <2> QED BY <1>0, <2>1, <2>2, <2>6, <2>7, <2>8, TypeParts DEF TypeOK, jobs
<1>3. CASE Fail(x)
  <2>1. pings' \subseteq pings /\ faults' \in 0..MaxFaults
        /\ disturbed' \subseteq Posts
    BY <1>0, <1>3, SchedulingAssumption DEF TypeOK, Fail, Fault
  <2>2. UNCHANGED <<now, up, posts, jobs, key, rotation, edits, leftover>>
    BY <1>3 DEF Fail
  <2> QED BY <1>0, <2>1, <2>2, TypeParts DEF TypeOK, jobs
<1>4. CASE Busy(x)
  <2> DEFINE again == [x EXCEPT !.tries = @ + 1, !.force = TRUE]
             S == IF x.tries < MaxTries THEN {again} ELSE {}
  <2>0. x.tries < MaxTries => x.tries + 1 \in 0..MaxTries
    <3>1. x.tries \in 0..MaxTries BY <1>0 DEF Pings
    <3> QED BY <3>1, SchedulingAssumption
  <2>1. x.tries < MaxTries => again \in Pings /\ again.id = x.id
    BY <1>0, <2>0 DEF Pings
  <2>2. pings' = (pings \ {x}) \cup S BY <1>4 DEF Busy
  <2> HIDE DEF again
  <2>3. /\ \A y \in S : y \in Pings /\ y.id = x.id
        /\ \A y, z \in S : y = z
    BY <2>1
  <2> HIDE DEF S
  <2>4. pings' \subseteq Pings /\ \A y, z \in pings' : y.id = z.id => y = z
    BY <2>2, <2>3, PingMoves
  <2>5. disturbed' \subseteq Posts
    BY <1>0, <1>4 DEF TypeOK, Busy
  <2>6. UNCHANGED <<now, up, posts, jobs, key, rotation, edits, faults, leftover>>
    BY <1>4 DEF Busy
  <2> QED BY <1>0, <2>4, <2>5, <2>6, TypeParts DEF TypeOK, jobs
<1> QED BY <1>1, <1>2, <1>3, <1>4

\* What is loaded are posts with a date.
LEMMA LoadedAre ==
  ASSUME TypeOK
  PROVE  /\ LoadScheduledResources \subseteq Posts \X Times
         /\ \A p, t : <<p, t>> \in LoadScheduledResources
                        <=> p \in Scheduled /\ t = posts[p].at
<1>1. \A p \in Scheduled : p \in Posts /\ posts[p].at \in Times
  BY Typed DEF Scheduled
<1> QED BY <1>1 DEF LoadScheduledResources

LEMMA LoadedJobs ==
  ASSUME NEW loaded \in SUBSET (Posts \X Times), NEW k \in Keys
  PROVE  /\ {JobOf(l[1], l[2], k) : l \in loaded} \in SUBSET Jobs
         /\ \A p \in Posts : \A t \in Times : \A m \in Keys :
              JobOf(p, t, m) \in {JobOf(l[1], l[2], k) : l \in loaded}
                <=> m = k /\ <<p, t>> \in loaded
<1>1. \A l \in loaded : /\ l[1] \in Posts /\ l[2] \in Times
                        /\ l = <<l[1], l[2]>>
  OBVIOUS
<1>2. ASSUME NEW p \in Posts, NEW t \in Times, NEW m \in Keys
      PROVE  JobOf(p, t, m) \in {JobOf(l[1], l[2], k) : l \in loaded}
                <=> m = k /\ <<p, t>> \in loaded
  <2>1. ASSUME NEW l \in loaded, JobOf(p, t, m) = JobOf(l[1], l[2], k)
        PROVE  m = k /\ <<p, t>> \in loaded
    <3>1. p = l[1] /\ t = l[2] /\ m = k BY <2>1, JobsAre
    <3> QED BY <1>1, <3>1
  <2>2. ASSUME m = k, <<p, t>> \in loaded
        PROVE  \E l \in loaded : JobOf(p, t, m) = JobOf(l[1], l[2], k)
    <3>1. JobOf(p, t, m) = JobOf(<<p, t>>[1], <<p, t>>[2], k) BY <2>2
    <3> QED BY <2>2, <3>1
  <2> QED BY <2>1, <2>2
<1>3. \A l \in loaded : JobOf(l[1], l[2], k) \in Jobs BY <1>1, JobsAre
<1> QED BY <1>2, <1>3

LEMMA EmptyBags ==
  JobBag(NoBag) /\ \A e : Copies(e, NoBag) = 0
<1>1. IsABag(SetToBag({})) /\ BagToSet(SetToBag({})) = {} BY BagOfSet
<1>2. \A e : Copies(e, SetToBag({})) = 0 BY BagOfSet
<1> QED BY <1>1, <1>2 DEF JobBag, NoBag, EmptyBag

LEMMA NewKey == key \in Keys /\ key < MaxRotations => key + 1 \in Keys
  BY SchedulingAssumption DEF Keys

LEMMA OldKey ==
  ASSUME TypeOK, RotationTyped, rotation.stage # "none"
  PROVE  UnscheduleKey \in Keys
<1>1. key \in Keys /\ key >= 1 BY Typed DEF RotationTyped
<1> QED BY <1>1, SchedulingAssumption DEF Keys, UnscheduleKey

LEMMA TypeRebuild ==
  ASSUME TypeOK, RotationTyped, Crash \/ Boot \/ Rotate \/ Load \/ Reissue
  PROVE  TypeOK' /\ RotationTyped'
<1>0. /\ now \in Times /\ key \in Keys /\ posts \in [Posts -> PostRows]
      /\ JobBag(waiting) /\ JobBag(sleeping) /\ JobBag(tombstones)
      /\ LoadScheduledResources \subseteq Posts \X Times
      /\ AtBoot \in BOOLEAN
  BY Typed, LoadedAre DEF AtBoot
<1>1. CASE Crash
  <2>1. /\ waiting' = NoBag /\ sleeping' = NoBag /\ tombstones' = NoBag
        /\ pings' = {} /\ rotation' = NoRotation /\ up' = FALSE
        /\ leftover' = {} /\ disturbed' = {}
        /\ UNCHANGED <<now, posts, key, edits>>
    BY <1>1 DEF Crash
  <2>2. faults' \in 0..MaxFaults
    BY <1>1, SchedulingAssumption DEF TypeOK, Crash, Fault
  <2>3. TypeOK'
    BY <1>0, <2>1, <2>2, EmptyBags, TypeParts DEF TypeOK, NoRotation
  <2> QED BY <2>1, <2>3 DEF RotationTyped, NoRotation
<1>2. CASE Boot
  <2>1. UNCHANGED <<now, posts, pings, key, rotation, edits, faults, leftover,
                    disturbed>> /\ up' = TRUE
    BY <1>2 DEF Boot
  <2>2. {JobOf(l[1], l[2], key) : l \in LoadScheduledResources} \in SUBSET Jobs
    BY <1>0, LoadedJobs
  <2>3. JobBag(waiting') /\ JobBag(sleeping') /\ JobBag(tombstones')
    BY <1>0, <1>2, <2>2, Adding, Deleting DEF Boot, RescheduleAll
  <2>4. TypeOK' BY <1>0, <2>1, <2>3, TypeParts DEF TypeOK
  <2> QED BY <2>1, <2>4 DEF RotationTyped
<1>3. CASE Rotate
  <2>1. /\ key' = key + 1 /\ key' \in Keys
        /\ rotation' = [stage |-> "rotated", loaded |-> {}]
        /\ UNCHANGED <<now, up, posts, jobs, pings, edits, faults, leftover,
                       disturbed>>
    BY <1>0, <1>3, NewKey DEF Rotate
  <2>2. key' >= 1 BY <1>0, <2>1, SchedulingAssumption DEF Keys
  <2>3. TypeOK' BY <1>0, <2>1, TypeParts DEF TypeOK, jobs
  <2> QED BY <2>1, <2>2, <2>3 DEF RotationTyped
<1>4. CASE Load
  <2>1. /\ rotation' = [stage |-> "loaded", loaded |-> LoadScheduledResources]
        /\ rotation.stage # "none"
        /\ UNCHANGED <<now, up, posts, jobs, pings, key, edits, faults, leftover,
                       disturbed>>
    BY <1>4 DEF Load
  <2>2. TypeOK' BY <1>0, <2>1, TypeParts DEF TypeOK, jobs
  <2>3. key >= 1 BY <2>1 DEF RotationTyped
  <2> QED BY <1>0, <2>1, <2>2, <2>3 DEF RotationTyped
<1>5. CASE Reissue
  <2>1. /\ rotation' = NoRotation
        /\ rotation.loaded \in SUBSET (Posts \X Times)
        /\ rotation.stage # "none"
        /\ UNCHANGED <<now, up, posts, pings, key, edits, faults, disturbed>>
    BY <1>5 DEF Reissue, RotationTyped
  <2>2. UnscheduleKey \in Keys BY <2>1, OldKey
  <2>3. /\ {JobOf(l[1], l[2], key) : l \in rotation.loaded} \in SUBSET Jobs
        /\ {JobOf(l[1], l[2], UnscheduleKey) : l \in rotation.loaded} \in SUBSET Jobs
    BY <1>0, <2>1, <2>2, LoadedJobs
  <2>4. JobBag(waiting') /\ JobBag(sleeping') /\ JobBag(tombstones')
    BY <1>5, <2>3, Adding, Deleting DEF Reissue, RescheduleAll
  <2>5. leftover' \subseteq Posts BY <1>5, <2>1 DEF TypeOK, Reissue
  <2>6. TypeOK'
    BY <1>0, <2>1, <2>4, <2>5, TypeParts DEF TypeOK, NoRotation
  <2> QED BY <2>1, <2>6 DEF RotationTyped, NoRotation
<1> QED BY <1>1, <1>2, <1>3, <1>4, <1>5

LEMMA TypeInit == Init => TypeOK /\ RotationTyped
<1> SUFFICES ASSUME Init PROVE TypeOK /\ RotationTyped OBVIOUS
<1>1. now \in Times /\ key \in Keys /\ 0 \in 0..MaxEdits /\ 0 \in 0..MaxFaults
  BY TimesAre, SchedulingAssumption DEF Init
<1>2. JobBag(waiting) /\ JobBag(sleeping) /\ JobBag(tombstones)
  BY EmptyBags DEF Init
<1>3. posts \in [Posts -> PostRows] BY DEF Init, PostRows
<1>4. TypeOK
  BY <1>1, <1>2, <1>3
  DEF Init, TypeOK, JobBag, PostRows, Times, NoRotation
<1> QED BY <1>4 DEF Init, RotationTyped, NoRotation

LEMMA TypeStep == TypeOK /\ RotationTyped /\ [Next]_vars => TypeOK' /\ RotationTyped'
<1> SUFFICES ASSUME TypeOK, RotationTyped, [Next]_vars
             PROVE  TypeOK' /\ RotationTyped'
  OBVIOUS
<1>1. CASE Crash \/ Boot \/ Rotate \/ Load \/ Reissue BY <1>1, TypeRebuild
<1>2. CASE UNCHANGED vars
  BY <1>2 DEF vars, jobs, TypeOK, RotationTyped
<1>3. CASE AuthorNext
  <2>1. TypeOK' BY <1>3, TypeAuthor DEF AuthorNext
  <2>2. UNCHANGED <<key, rotation>>
    BY <1>3 DEF AuthorNext, Schedule, Reschedule, Unschedule, BulkUnschedule,
                Touch, PublishNow, Unpublish, Delete, Save
  <2> QED BY <2>1, <2>2 DEF RotationTyped
<1>4. CASE Tick \/ \E j \in Due : Fire(j)
  <2>1. TypeOK' BY <1>4, TypeTickFire
  <2>2. UNCHANGED <<key, rotation>> BY <1>4 DEF Tick, Fire
  <2> QED BY <2>1, <2>2 DEF RotationTyped
<1>5. CASE \E x \in pings : Read(x) \/ Publish(x) \/ Fail(x) \/ Busy(x)
  <2>1. TypeOK' BY <1>5, TypeRequest
  <2>2. UNCHANGED <<key, rotation>> BY <1>5 DEF Read, Publish, Fail, Busy
  <2> QED BY <2>1, <2>2 DEF RotationTyped
<1> QED BY <1>1, <1>2, <1>3, <1>4, <1>5 DEF Next, AdapterNext, FaultNext

THEOREM Types_inductive == Spec => [](TypeOK /\ RotationTyped)
<1> QED BY TypeInit, TypeStep, PTL DEF Spec

\* Every variable keeps to its type: the jobs of the adapter are those of posts
\* and dates, requests have an id of their own, and a scheduled or published
\* post has a date.
THEOREM Typing == Spec => []TypeOK
<1> QED BY Types_inductive, PTL

-----------------------------------------------------------------------------
\* What is inductive about the jobs of a post.

\* The copies of a job that will go off.
Surplus == [j \in Jobs |-> Outstanding(j)]

\* The key that the jobs of the scheduled posts carry: during a rotation it is
\* still the one before.
LiveKey == IF Idle THEN key ELSE key - 1

PingOf(p) == \E x \in pings : x.job.post = p

\* A process that is down holds nothing in memory.
DownIsEmpty ==
    ~up => (\A j \in Jobs : Surplus[j] = 0) /\ pings = {} /\ Idle

TombstonesOfKeys == \A j \in BagToSet(tombstones) : j.key <= key

\* What a rotation loaded of a post still holds, unless a save came between.
LoadedIsCurrent ==
    rotation.stage = "loaded" =>
        \A p \in Scheduled \ disturbed : \A t \in Times :
            <<p, t>> \in rotation.loaded <=> t = posts[p].at

\* Enough jobs: no job to come has more tombstones than copies, and that of a
\* scheduled post has a copy more.
Wanted(p, t) ==
    IF Idle /\ p \in Scheduled /\ posts[p].at = t THEN 1 ELSE 0

EnoughJobs ==
    up => \A p \in Posts \ disturbed : \A t \in Times :
              t > now => Surplus[JobOf(p, t, key)] >= Wanted(p, t)

\* No job too many: only the live job of a scheduled post may go off, once, and
\* not while the post has a ping.  (The job of a deleted post stays.)
Allowed(p, t, k) ==
    IF k = LiveKey /\ p \in Scheduled /\ posts[p].at = t /\ ~PingOf(p)
    THEN 1 ELSE 0

NoJobTooMany ==
    \A p \in Posts \ (leftover \cup disturbed) : \A t \in Times : \A k \in Keys :
        posts[p].status # "deleted"
            => Surplus[JobOf(p, t, k)] <= Allowed(p, t, k)

\* A post that has a ping was scheduled when it was sent, and no save since
\* went unnoticed.
PingedIsNoDraft ==
    \A x \in pings : x.job.post \notin leftover \cup disturbed =>
        posts[x.job.post].status # "draft"

\* The date that a ping has checked still stands, unless the save of the
\* request will be refused.
CheckedIsDue ==
    \A x \in pings : x.stage = "checked" /\ x.fresh =>
        posts[x.job.post].at - now <= Tolerance

JobsInv == /\ DownIsEmpty /\ TombstonesOfKeys /\ LoadedIsCurrent
           /\ EnoughJobs /\ NoJobTooMany
           /\ PingedIsNoDraft /\ CheckedIsDue

IInv == TypeOK /\ RotationTyped /\ JobsInv

-----------------------------------------------------------------------------
\* What the steps do to the surplus of the jobs.
LEMMA SurplusIs ==
  ASSUME TypeOK
  PROVE  \A j \in Jobs :
            /\ Surplus[j] = Copies(j, waiting) + Copies(j, sleeping)
                              - Copies(j, tombstones)
            /\ Surplus[j] = Outstanding(j)
            /\ Surplus[j] \in Int
            /\ Copies(j, waiting) \in Nat /\ Copies(j, sleeping) \in Nat
            /\ Copies(j, tombstones) \in Nat
<1>1. JobBag(waiting) /\ JobBag(sleeping) /\ JobBag(tombstones) BY Typed
<1>2. \A j : /\ Copies(j, waiting) \in Nat /\ Copies(j, sleeping) \in Nat
             /\ Copies(j, tombstones) \in Nat
  BY <1>1, BagCopies DEF JobBag
<1>3. \A j \in Jobs : Surplus[j] = Outstanding(j) BY DEF Surplus
<1> QED BY <1>2, <1>3 DEF Outstanding

LEMMA SurplusNext ==
  \A j \in Jobs : Surplus'[j] = Copies(j, waiting') + Copies(j, sleeping')
                                  - Copies(j, tombstones')
  BY DEF Surplus, Outstanding, Copies

LEMMA SameSurplus == UNCHANGED jobs => Surplus' = Surplus
  BY DEF jobs, Surplus, Outstanding, Copies

\* Jobs are added.
LEMMA Building ==
  ASSUME TypeOK, NEW new \in SUBSET Jobs, AddJobs(new), tombstones' = tombstones
  PROVE  \A j \in Jobs :
            Surplus'[j] = Surplus[j] + (IF j \in new THEN 1 ELSE 0)
<1> SUFFICES ASSUME NEW j \in Jobs
    PROVE  Surplus'[j] = Surplus[j] + (IF j \in new THEN 1 ELSE 0)
  OBVIOUS
<1> DEFINE n == IF j \in new THEN 1 ELSE 0
<1>1. n \in Nat OBVIOUS
<1>2. /\ Copies(j, waiting') + Copies(j, sleeping')
           = Copies(j, waiting) + Copies(j, sleeping) + n
      /\ JobBag(waiting') /\ JobBag(sleeping')
  BY Adding
<1>3. Copies(j, waiting') \in Nat /\ Copies(j, sleeping') \in Nat
  BY <1>2, BagCopies DEF JobBag
<1> HIDE DEF n
<1>4. Surplus'[j] = Surplus[j] + n BY <1>1, <1>2, <1>3, SurplusIs, SurplusNext
<1> QED BY <1>4 DEF n

\* Jobs are added, others get a tombstone.
LEMMA Rebuilding ==
  ASSUME TypeOK, NEW new \in SUBSET Jobs, NEW old \in SUBSET Jobs,
         AddJobs(new), DeleteJobs(old, FALSE)
  PROVE  \A j \in Jobs :
            Surplus'[j] = Surplus[j] + (IF j \in new THEN 1 ELSE 0)
                            - (IF j \in old THEN 1 ELSE 0)
<1> SUFFICES ASSUME NEW j \in Jobs
    PROVE  Surplus'[j] = Surplus[j] + (IF j \in new THEN 1 ELSE 0)
                            - (IF j \in old THEN 1 ELSE 0)
  OBVIOUS
<1> DEFINE n == IF j \in new THEN 1 ELSE 0
           o == IF j \in old THEN 1 ELSE 0
<1>1. n \in Nat /\ o \in Nat OBVIOUS
<1>2. /\ Copies(j, waiting') + Copies(j, sleeping')
           = Copies(j, waiting) + Copies(j, sleeping) + n
      /\ JobBag(waiting') /\ JobBag(sleeping')
  BY Adding
<1>3. Copies(j, waiting') \in Nat /\ Copies(j, sleeping') \in Nat
  BY <1>2, BagCopies DEF JobBag
<1>4. Copies(j, tombstones') = Copies(j, tombstones) + o
  <2>1. FALSE \in BOOLEAN OBVIOUS
  <2> QED BY <2>1, Deleting
<1> HIDE DEF n, o
<1>5. Surplus'[j] = Surplus[j] + n - o
  BY <1>1, <1>2, <1>3, <1>4, SurplusIs, SurplusNext
<1> QED BY <1>5 DEF n, o

LEMMA SameJob ==
  \A p, q \in Posts : \A t, s \in Times : \A k, l \in Keys :
     /\ JobOf(p, t, k) \in Jobs
     /\ JobOf(p, t, k) = JobOf(q, s, l) <=> p = q /\ t = s /\ k = l
  BY JobsAre

LEMMA ScheduleJobs ==
  ASSUME TypeOK, NEW q \in Posts, NEW at \in Times, Schedule(q, at)
  PROVE  \A p \in Posts : \A t \in Times : \A k \in Keys :
            Surplus'[JobOf(p, t, k)] = Surplus[JobOf(p, t, k)]
               + (IF p = q /\ t = at /\ k = key THEN 1 ELSE 0)
<1>0. key \in Keys BY Typed
<1>1. {JobOf(q, at, key)} \in SUBSET Jobs BY <1>0, SameJob
<1>2. AddJobs({JobOf(q, at, key)}) /\ tombstones' = tombstones
  BY DEF Schedule
<1>3. \A j \in Jobs : Surplus'[j] = Surplus[j]
          + (IF j \in {JobOf(q, at, key)} THEN 1 ELSE 0)
  BY <1>1, <1>2, Building
<1>5. \A j \in Jobs : Surplus'[j] = Surplus[j]
          + (IF j = JobOf(q, at, key) THEN 1 ELSE 0)
  BY <1>3
<1> QED BY <1>0, <1>5, SameJob

LEMMA RescheduleJobs ==
  ASSUME TypeOK, NEW q \in Posts, NEW at \in Times, Reschedule(q, at)
  PROVE  /\ posts[q].at \in Times /\ at # posts[q].at
         /\ \A p \in Posts : \A t \in Times : \A k \in Keys :
              Surplus'[JobOf(p, t, k)] = Surplus[JobOf(p, t, k)]
                 + (IF p = q /\ t = at /\ k = key THEN 1 ELSE 0)
                 - (IF p = q /\ t = posts[q].at /\ k = key THEN 1 ELSE 0)
<1>0. key \in Keys /\ posts[q].at \in Times /\ at # posts[q].at
  BY Typed DEF Reschedule
<1> DEFINE new == {JobOf(q, at, key)}
           old == {JobOf(q, posts[q].at, key)}
<1>1. new \in SUBSET Jobs /\ old \in SUBSET Jobs BY <1>0, SameJob
<1>2. AddJobs(new) /\ DeleteJobs(old, FALSE) BY DEF Reschedule
<1>3. /\ \A j : j \in new <=> j = JobOf(q, at, key)
      /\ \A j : j \in old <=> j = JobOf(q, posts[q].at, key)
  OBVIOUS
<1> HIDE DEF new, old
<1>4. \A j \in Jobs : Surplus'[j] = Surplus[j] + (IF j \in new THEN 1 ELSE 0)
                            - (IF j \in old THEN 1 ELSE 0)
  BY <1>1, <1>2, Rebuilding
<1>5. \A j \in Jobs : Surplus'[j] = Surplus[j]
          + (IF j = JobOf(q, at, key) THEN 1 ELSE 0)
          - (IF j = JobOf(q, posts[q].at, key) THEN 1 ELSE 0)
  BY <1>3, <1>4
<1> QED BY <1>0, <1>5, SameJob

LEMMA UnscheduleJobs ==
  ASSUME TypeOK, NEW q \in Posts, NEW at \in {Never, posts[q].at},
         Unschedule(q, at)
  PROVE  \A p \in Posts : \A t \in Times : \A k \in Keys :
            Surplus'[JobOf(p, t, k)] = Surplus[JobOf(p, t, k)]
               - (IF p = q /\ t = posts[q].at /\ k = key THEN 1 ELSE 0)
<1>0. key \in Keys /\ posts[q].at \in Times /\ posts[q].at # Never
  BY Typed, TimesAre DEF Unschedule
<1>1. {JobOf(q, posts[q].at, key)} \in SUBSET Jobs /\ FALSE \in BOOLEAN
  BY <1>0, SameJob
<1>2. /\ DeleteJobs({JobOf(q, posts[q].at, key)}, FALSE)
      /\ UNCHANGED <<waiting, sleeping>>
  BY <1>0 DEF Unschedule, UnscheduledTime
<1>3. \A j \in Jobs : Copies(j, tombstones') = Copies(j, tombstones)
          + (IF ~FALSE /\ j \in {JobOf(q, posts[q].at, key)} THEN 1 ELSE 0)
  BY <1>1, <1>2, Deleting
<1>4. \A j \in Jobs : Copies(j, tombstones') = Copies(j, tombstones)
          + (IF j = JobOf(q, posts[q].at, key) THEN 1 ELSE 0)
  BY <1>3
<1>5. ASSUME NEW j \in Jobs
      PROVE  Surplus'[j] = Surplus[j]
                 - (IF j = JobOf(q, posts[q].at, key) THEN 1 ELSE 0)
  <2>1. Surplus'[j] = Copies(j, waiting) + Copies(j, sleeping)
                        - Copies(j, tombstones')
    BY <1>2, SurplusNext
  <2>2. /\ Surplus[j] = Copies(j, waiting) + Copies(j, sleeping)
                          - Copies(j, tombstones)
        /\ Copies(j, waiting) \in Nat /\ Copies(j, sleeping) \in Nat
        /\ Copies(j, tombstones) \in Nat
    BY SurplusIs
  <2> QED BY <1>4, <2>1, <2>2
<1> QED BY <1>0, <1>5, SameJob

LEMMA TickJobs ==
  ASSUME TypeOK, Tick
  PROVE  \A j \in Jobs : Surplus'[j] = Surplus[j]
<1> SUFFICES ASSUME NEW j \in Jobs PROVE Surplus'[j] = Surplus[j] OBVIOUS
<1>1. Copies(j, waiting') + Copies(j, sleeping')
        = Copies(j, waiting) + Copies(j, sleeping)
  BY Ticking
<1>2. tombstones' = tombstones BY DEF Tick
<1>3. JobBag(waiting') /\ JobBag(sleeping') BY Ticking
<1>4. Copies(j, waiting') \in Nat /\ Copies(j, sleeping') \in Nat
  BY <1>3, BagCopies DEF JobBag
<1>5. /\ Surplus[j] = Copies(j, waiting) + Copies(j, sleeping)
                        - Copies(j, tombstones)
      /\ Surplus'[j] = Copies(j, waiting') + Copies(j, sleeping')
                        - Copies(j, tombstones)
  BY <1>2, SurplusIs, SurplusNext
<1> QED BY <1>1, <1>4, <1>5, SurplusIs

LEMMA FireJobs ==
  ASSUME TypeOK, NEW j \in Due, Fire(j)
  PROVE  /\ j \in Jobs /\ j.time <= now
         /\ \/ pings' = pings /\ \A i \in Jobs : Surplus'[i] = Surplus[i]
            \/ /\ Ping(j) /\ Surplus[j] >= 1
               /\ \A i \in Jobs : Surplus'[i]
                                    = Surplus[i] - (IF i = j THEN 1 ELSE 0)
<1>1. j \in Jobs /\ j.time <= now BY Firing DEF Due
<1>2. waiting' = waiting BY DEF Fire
<1>3. \A i \in Jobs :
         /\ Surplus[i] = Copies(i, waiting) + Copies(i, sleeping)
                           - Copies(i, tombstones)
         /\ Copies(i, waiting) \in Nat /\ Copies(i, sleeping) \in Nat
         /\ Copies(i, tombstones) \in Nat
  BY SurplusIs
<1>4. \A i \in Jobs : Surplus'[i] = Copies(i, waiting) + Copies(i, sleeping')
                                      - Copies(i, tombstones')
  BY <1>2, SurplusNext
<1>5. /\ Copies(j, sleeping) >= 1
      /\ \A i \in Jobs : Copies(i, sleeping')
           = Copies(i, sleeping) - (IF i = j THEN 1 ELSE 0)
  BY Firing
<1>6. CASE /\ pings' = pings
           /\ \A i \in Jobs : Copies(i, tombstones')
                = Copies(i, tombstones) - (IF i = j THEN 1 ELSE 0)
  <2>1. \A i \in Jobs : Surplus'[i] = Surplus[i] BY <1>3, <1>4, <1>5, <1>6
  <2> QED BY <1>1, <1>6, <2>1
<1>7. CASE Ping(j) /\ tombstones' = tombstones /\ Copies(j, tombstones) = 0
  <2>1. \A i \in Jobs : Surplus'[i] = Surplus[i] - (IF i = j THEN 1 ELSE 0)
    BY <1>3, <1>4, <1>5, <1>7
  <2>2. Surplus[j] >= 1 BY <1>1, <1>3, <1>5, <1>7
  <2> QED BY <1>1, <1>7, <2>1, <2>2
<1> QED BY <1>6, <1>7, Firing

LEMMA BootJobs ==
  ASSUME TypeOK, Boot
  PROVE  \A p \in Posts : \A t \in Times : \A k \in Keys :
            Surplus'[JobOf(p, t, k)] = Surplus[JobOf(p, t, k)]
               + (IF k = key /\ p \in Scheduled /\ t = posts[p].at THEN 1 ELSE 0)
<1> DEFINE new == {JobOf(l[1], l[2], key) : l \in LoadScheduledResources}
<1>0. key \in Keys /\ LoadScheduledResources \in SUBSET (Posts \X Times)
  BY Typed, LoadedAre
<1>1. /\ new \in SUBSET Jobs
      /\ \A p \in Posts : \A t \in Times : \A m \in Keys :
           JobOf(p, t, m) \in new
             <=> m = key /\ <<p, t>> \in LoadScheduledResources
  BY <1>0, LoadedJobs
<1>2. AddJobs(new) /\ tombstones' = tombstones
  BY DEF Boot, RescheduleAll, DeleteJobs, AtBoot
<1> HIDE DEF new
<1>3. \A j \in Jobs : Surplus'[j] = Surplus[j] + (IF j \in new THEN 1 ELSE 0)
  BY <1>1, <1>2, Building
<1>4. ASSUME NEW p \in Posts, NEW t \in Times, NEW k \in Keys
      PROVE  Surplus'[JobOf(p, t, k)] = Surplus[JobOf(p, t, k)]
               + (IF k = key /\ p \in Scheduled /\ t = posts[p].at THEN 1 ELSE 0)
  <2>1. JobOf(p, t, k) \in Jobs BY SameJob
  <2>2. JobOf(p, t, k) \in new <=> k = key /\ p \in Scheduled /\ t = posts[p].at
    BY <1>1, LoadedAre
  <2> QED BY <1>3, <2>1, <2>2
<1> QED BY <1>4

LEMMA ReissueJobs ==
  ASSUME TypeOK, RotationTyped, Reissue
  PROVE  \A p \in Posts : \A t \in Times : \A k \in Keys :
            Surplus'[JobOf(p, t, k)] = Surplus[JobOf(p, t, k)]
               + (IF k = key /\ <<p, t>> \in rotation.loaded THEN 1 ELSE 0)
               - (IF k = key - 1 /\ <<p, t>> \in rotation.loaded THEN 1 ELSE 0)
<1> DEFINE L == rotation.loaded
           u == UnscheduleKey
           new == {JobOf(l[1], l[2], key) : l \in L}
           old == {JobOf(l[1], l[2], u) : l \in L}
<1>0. key \in Keys /\ L \in SUBSET (Posts \X Times)
  BY Typed DEF RotationTyped
<1>1. u \in Keys BY OldKey DEF Reissue
<1>7. u = key - 1 BY DEF UnscheduleKey
<1>2. AddJobs(new) /\ DeleteJobs(old, FALSE) BY DEF Reissue, RescheduleAll
<1> HIDE DEF L, u
<1>3. /\ new \in SUBSET Jobs
      /\ \A p \in Posts : \A t \in Times : \A m \in Keys :
           JobOf(p, t, m) \in new <=> m = key /\ <<p, t>> \in L
  BY <1>0, LoadedJobs
<1> HIDE DEF new
<1>4. /\ old \in SUBSET Jobs
      /\ \A p \in Posts : \A t \in Times : \A m \in Keys :
           JobOf(p, t, m) \in old <=> m = u /\ <<p, t>> \in L
  BY <1>0, <1>1, LoadedJobs
<1> HIDE DEF old
<1>5. \A j \in Jobs : Surplus'[j] = Surplus[j] + (IF j \in new THEN 1 ELSE 0)
                            - (IF j \in old THEN 1 ELSE 0)
  BY <1>2, <1>3, <1>4, Rebuilding
<1>6. ASSUME NEW p \in Posts, NEW t \in Times, NEW k \in Keys
      PROVE  Surplus'[JobOf(p, t, k)] = Surplus[JobOf(p, t, k)]
               + (IF k = key /\ <<p, t>> \in L THEN 1 ELSE 0)
               - (IF k = key - 1 /\ <<p, t>> \in L THEN 1 ELSE 0)
  <2>1. JobOf(p, t, k) \in Jobs BY SameJob
  <2>2. /\ JobOf(p, t, k) \in new <=> k = key /\ <<p, t>> \in L
        /\ JobOf(p, t, k) \in old <=> k = key - 1 /\ <<p, t>> \in L
    BY <1>7, <1>3, <1>4
  <2> QED BY <1>5, <2>1, <2>2
<1> QED BY <1>6 DEF L

LEMMA CrashJobs ==
  ASSUME Crash PROVE \A j \in Jobs : Surplus'[j] = 0
<1>1. /\ waiting' = NoBag /\ sleeping' = NoBag /\ tombstones' = NoBag
  BY DEF Crash
<1>2. \A e : Copies(e, NoBag) = 0 BY EmptyBags
<1> QED BY <1>1, <1>2, SurplusNext

-----------------------------------------------------------------------------
\* What the steps of an author do, whatever is saved.
SavedPings(p) ==
    /\ \A y \in pings' : \E x \in pings :
         /\ y.job = x.job /\ y.stage = x.stage
         /\ y.fresh => x.fresh /\ (x.job.post # p \/ posts'[p].at = Never)
    /\ \A q : (\E y \in pings' : y.job.post = q) <=> PingOf(q)

AuthorOf(p) ==
    \/ \E at \in Times : Schedule(p, at) \/ Reschedule(p, at)
    \/ \E at \in {Never, posts[p].at} : Unschedule(p, at)
    \/ BulkUnschedule(p) \/ Touch(p)
    \/ PublishNow(p) \/ Unpublish(p) \/ Delete(p)

LEMMA SaveDoes ==
  ASSUME TypeOK, NEW p \in Posts, NEW status, NEW at, Save(p, status, at)
  PROVE  /\ SavedPings(p)
         /\ \A q \in Posts : q # p => posts'[q] = posts[q]
         /\ posts'[p].status = status /\ posts'[p].at = at
         /\ disturbed \subseteq disturbed' /\ disturbed' \subseteq disturbed \cup {p}
         /\ p \notin disturbed' => Idle /\ ~PingOf(p)
         /\ up /\ UNCHANGED <<now, up, key, rotation>>
         /\ edits' = edits + 1
<1>1. posts' = [posts EXCEPT ![p] = [status |-> status, at |-> at]]
  BY DEF Save
<1>2. posts \in [Posts -> PostRows] BY Typed
<1>3. /\ \A q \in Posts : q # p => posts'[q] = posts[q]
      /\ posts'[p].status = status /\ posts'[p].at = at
  BY <1>1, <1>2
<1>4. pings \subseteq Pings BY DEF TypeOK
<1> DEFINE stale(x) == [x EXCEPT !.fresh = @ /\ x.job.post # p]
<1>5. \A x \in pings :
         /\ stale(x).job = x.job /\ stale(x).stage = x.stage
         /\ stale(x).fresh => x.fresh /\ x.job.post # p
  BY <1>4, PingStale
<1>6. \A y \in pings' : \E x \in pings : y = stale(x) BY DEF Save
<1>7. \A x \in pings : stale(x) \in pings' BY DEF Save
<1> HIDE DEF stale
<1>8. \A y \in pings' : \E x \in pings : /\ y.job = x.job /\ y.stage = x.stage
                                         /\ y.fresh => x.fresh /\ x.job.post # p
  BY <1>5, <1>6
<1>9. ASSUME NEW q PROVE (\E y \in pings' : y.job.post = q) <=> PingOf(q)
  <2>1. ASSUME NEW x \in pings, x.job.post = q
        PROVE  \E y \in pings' : y.job.post = q
    BY <1>5, <1>7, <2>1
  <2>2. ASSUME NEW y \in pings', y.job.post = q PROVE PingOf(q)
    BY <1>8, <2>2 DEF PingOf
  <2> QED BY <2>1, <2>2 DEF PingOf
<1>10. SavedPings(p)
  <2>1. \A y \in pings' : \E x \in pings :
           /\ y.job = x.job /\ y.stage = x.stage
           /\ y.fresh => x.fresh /\ (x.job.post # p \/ posts'[p].at = Never)
    BY <1>8
  <2> QED BY <1>9, <2>1 DEF SavedPings
<1>11. /\ disturbed \subseteq disturbed' /\ disturbed' \subseteq disturbed \cup {p}
       /\ p \notin disturbed' => Idle /\ ~PingOf(p)
  BY DEF Save, PingOf
<1> QED BY <1>3, <1>10, <1>11 DEF Save

LEMMA AuthorDoes ==
  ASSUME TypeOK, NEW p \in Posts, AuthorOf(p)
  PROVE  /\ SavedPings(p)
         /\ \A q \in Posts : q # p => posts'[q] = posts[q]
         /\ disturbed \subseteq disturbed' /\ leftover \subseteq leftover'
         /\ \/ p \in leftover' /\ posts'[p].status = "draft" /\ posts'[p].at = Never
            \/ p \in disturbed'
            \/ Idle /\ ~PingOf(p)
         /\ BulkUnschedule(p) \/ \E status, at : Save(p, status, at)
         /\ up /\ UNCHANGED <<now, up, key, rotation>>
         /\ edits' = edits + 1
<1>1. CASE BulkUnschedule(p)
  <2>1. /\ posts' = [posts EXCEPT ![p] = [status |-> "draft", at |-> Never]]
        /\ pings' = pings /\ leftover' = leftover \cup {p}
        /\ up /\ UNCHANGED <<now, up, key, rotation, disturbed>>
        /\ edits' = edits + 1
    BY <1>1 DEF BulkUnschedule
  <2>2. posts \in [Posts -> PostRows] BY Typed
  <2>3. \A q \in Posts : q # p => posts'[q] = posts[q] BY <2>1, <2>2
  <2>4. posts'[p].status = "draft" /\ posts'[p].at = Never BY <2>1, <2>2
  <2>5. \A y \in pings' : \E x \in pings :
           /\ y.job = x.job /\ y.stage = x.stage
           /\ y.fresh => x.fresh /\ (x.job.post # p \/ posts'[p].at = Never)
    BY <2>1, <2>4
  <2>6. \A q : (\E y \in pings' : y.job.post = q) <=> PingOf(q)
    BY <2>1 DEF PingOf
  <2>7. SavedPings(p) BY <2>5, <2>6 DEF SavedPings
  <2> QED BY <1>1, <2>1, <2>3, <2>4, <2>7
<1>2. CASE ~BulkUnschedule(p)
  <2>1. \E status, at : Save(p, status, at)
    BY <1>2 DEF AuthorOf, Schedule, Reschedule, Unschedule, Touch, PublishNow,
                Unpublish, Delete
  <2>2. leftover \subseteq leftover'
    BY <1>2 DEF AuthorOf, Schedule, Reschedule, Unschedule, Touch, PublishNow,
                Unpublish, Delete
  <2> QED BY <2>1, <2>2, SaveDoes
<1> QED BY <1>1, <1>2

\* What the steps of a publishing request do.
RequestOf(x) == Read(x) \/ Publish(x) \/ Fail(x) \/ Busy(x)

LEMMA RequestDoes ==
  ASSUME TypeOK, NEW x \in pings, RequestOf(x)
  PROVE  /\ up /\ UNCHANGED <<now, up, jobs, key, rotation, leftover, edits>>
         /\ disturbed \subseteq disturbed' /\ x.job.post \in Posts
         /\ \A y \in pings' : \E z \in pings : y.job = z.job
         /\ \A q \in Posts :
              \/ posts'[q] = posts[q]
              \/ /\ q = x.job.post /\ posts[q].status # "deleted"
                 /\ posts'[q].status = "published"
<1>0. x \in Pings /\ x.job.post \in Posts /\ posts \in [Posts -> PostRows]
  BY Typed
<1>1. CASE Read(x)
  <2>1. [x EXCEPT !.stage = "checked"].job = x.job BY <1>0 DEF Pings
  <2>2. \A y \in pings' : y \in pings \/ y = [x EXCEPT !.stage = "checked"]
    BY <1>1 DEF Read
  <2> QED BY <1>0, <1>1, <2>1, <2>2 DEF Read
<1>2. CASE Publish(x)
  <2>1. \A z \in pings : z \in Pings BY Typed
  <2> DEFINE stale(z) ==
         [z EXCEPT !.fresh = @ /\ (posts' # posts => z.job.post # x.job.post)]
  <2>2. \A z \in pings : stale(z).job = z.job BY <2>1, PingStale
  <2>3. \A y \in pings' : \E z \in pings : y = stale(z) BY <1>2 DEF Publish
  <2> HIDE DEF stale
  <2>4. \A y \in pings' : \E z \in pings : y.job = z.job BY <2>2, <2>3
  <2>5. \/ posts' = posts
        \/ posts' = Published(x.job.post) /\ posts[x.job.post].status # "deleted"
    BY <1>2 DEF Publish
  <2>6. \A q \in Posts :
              \/ posts'[q] = posts[q]
              \/ /\ q = x.job.post /\ posts[q].status # "deleted"
                 /\ posts'[q].status = "published"
    BY <1>0, <2>5 DEF Published
  <2>7. up /\ UNCHANGED <<now, up, jobs, key, rotation, leftover, disturbed, edits>>
    BY <1>2 DEF Publish
  <2> QED BY <1>0, <2>4, <2>6, <2>7
<1>3. CASE Fail(x) BY <1>0, <1>3 DEF Fail
<1>4. CASE Busy(x)
  <2>1. [x EXCEPT !.tries = @ + 1, !.force = TRUE].job = x.job
    BY <1>0 DEF Pings
  <2>2. \A y \in pings' : y \in pings
                           \/ y = [x EXCEPT !.tries = @ + 1, !.force = TRUE]
    BY <1>4 DEF Busy
  <2>3. disturbed \subseteq disturbed' BY <1>4 DEF Busy
  <2> QED BY <1>0, <1>4, <2>1, <2>2, <2>3 DEF Busy
<1> QED BY <1>1, <1>2, <1>3, <1>4 DEF RequestOf

LEMMA Steps ==
  ASSUME [Next]_vars
  PROVE  \/ \E p \in Posts : AuthorOf(p)
         \/ Tick
         \/ \E j \in Due : Fire(j)
         \/ \E x \in pings : RequestOf(x)
         \/ Boot \/ Load \/ Reissue \/ Crash \/ Rotate
         \/ UNCHANGED vars
  BY DEF Next, AuthorNext, AdapterNext, FaultNext, AuthorOf, RequestOf

-----------------------------------------------------------------------------
\* One lemma for each part of the invariant.
LEMMA DownStep ==
  ASSUME TypeOK, DownIsEmpty, [Next]_vars
  PROVE  DownIsEmpty'
<1>1. CASE \E p \in Posts : AuthorOf(p) BY <1>1, AuthorDoes DEF DownIsEmpty
<1>2. CASE Tick
  <2>1. CASE up BY <1>2, <2>1 DEF Tick, DownIsEmpty
  <2>2. CASE ~up
    <3>1. \A j \in Jobs : Surplus'[j] = 0 BY <1>2, <2>2, TickJobs DEF DownIsEmpty
    <3> QED BY <1>2, <2>2, <3>1 DEF DownIsEmpty, Tick, Idle
  <2> QED BY <2>1, <2>2
<1>3. CASE \E j \in Due : Fire(j) BY <1>3 DEF Fire, DownIsEmpty
<1>4. CASE \E x \in pings : RequestOf(x) BY <1>4, RequestDoes DEF DownIsEmpty
<1>5. CASE Boot \/ Load \/ Reissue \/ Rotate
  <2>1. CASE Boot BY <2>1 DEF Boot, DownIsEmpty
  <2>2. CASE Load \/ Reissue \/ Rotate
    <3>1. up /\ UNCHANGED up BY <2>2 DEF Load, Reissue, Rotate
    <3> QED BY <3>1 DEF DownIsEmpty
  <2> QED BY <1>5, <2>1, <2>2
<1>6. CASE Crash
  <2>1. \A j \in Jobs : Surplus'[j] = 0 BY <1>6, CrashJobs
  <2> QED BY <1>6, <2>1 DEF Crash, DownIsEmpty, Idle
<1>7. CASE UNCHANGED vars
  <2>1. Surplus' = Surplus BY <1>7, SameSurplus DEF vars
  <2> QED BY <1>7, <2>1 DEF vars, DownIsEmpty, Idle
<1> QED BY <1>1, <1>2, <1>3, <1>4, <1>5, <1>6, <1>7, Steps

LEMMA TombstonesStep ==
  ASSUME TypeOK, RotationTyped, TombstonesOfKeys, [Next]_vars
  PROVE  TombstonesOfKeys'
<1>0. key \in Keys /\ Keys \subseteq Nat BY Typed, TimesAre
<1>1. ASSUME NEW p \in Posts, AuthorOf(p) PROVE TombstonesOfKeys'
  <2>1. key' = key BY <1>1, AuthorDoes
  <2>2. CASE tombstones' = tombstones
    BY <2>1, <2>2 DEF TombstonesOfKeys
  <2>3. CASE tombstones' # tombstones
    <3>1. /\ posts[p].at \in Times
          /\ DeleteJobs({JobOf(p, posts[p].at, key)}, FALSE)
      BY <1>1, <2>3, Typed
      DEF AuthorOf, Schedule, Reschedule, Unschedule, BulkUnschedule, Touch,
          PublishNow, Unpublish, Delete, jobs, UnscheduledTime
    <3>2. {JobOf(p, posts[p].at, key)} \in SUBSET Jobs /\ FALSE \in BOOLEAN
          /\ JobOf(p, posts[p].at, key).key = key
      BY <1>0, <3>1, JobsAre
    <3>3. BagToSet(tombstones')
            \subseteq BagToSet(tombstones) \cup {JobOf(p, posts[p].at, key)}
      BY <3>1, <3>2, Deleting
    <3> QED BY <1>0, <2>1, <3>2, <3>3 DEF TombstonesOfKeys
  <2> QED BY <2>2, <2>3
<1>2. CASE Tick BY <1>2 DEF Tick, TombstonesOfKeys
<1>3. ASSUME NEW j \in Due, Fire(j) PROVE TombstonesOfKeys'
  <2>1. BagToSet(tombstones') \subseteq BagToSet(tombstones) BY <1>3, Firing
  <2> QED BY <1>3, <2>1 DEF Fire, TombstonesOfKeys
<1>4. CASE \E x \in pings : RequestOf(x)
  BY <1>4, RequestDoes DEF TombstonesOfKeys, jobs
<1>5. CASE Boot BY <1>5 DEF Boot, RescheduleAll, DeleteJobs, AtBoot, TombstonesOfKeys
<1>6. CASE Load BY <1>6 DEF Load, jobs, TombstonesOfKeys
<1>7. CASE Reissue
  <2> DEFINE L == rotation.loaded
             u == UnscheduleKey
             old == {JobOf(l[1], l[2], u) : l \in L}
  <2>1. L \in SUBSET (Posts \X Times) BY DEF RotationTyped
  <2>2. u \in Keys BY <1>7, OldKey DEF Reissue
  <2>3. u = key - 1 BY DEF UnscheduleKey
  <2>4. DeleteJobs(old, FALSE) /\ key' = key BY <1>7 DEF Reissue, RescheduleAll
  <2>5. \A l \in L : l[1] \in Posts /\ l[2] \in Times BY <2>1
  <2> HIDE DEF L, u
  <2>6. \A l \in L : JobOf(l[1], l[2], u) \in Jobs /\ JobOf(l[1], l[2], u).key = u
    BY <2>2, <2>5, JobsAre
  <2>7. \A j \in old : j \in Jobs /\ j.key = u BY <2>6
  <2>8. old \in SUBSET Jobs /\ FALSE \in BOOLEAN BY <2>7
  <2> HIDE DEF old
  <2>9. BagToSet(tombstones') \subseteq BagToSet(tombstones) \cup old
    BY <2>4, <2>8, Deleting
  <2>10. u <= key BY <1>0, <2>3
  <2> QED BY <2>4, <2>7, <2>9, <2>10 DEF TombstonesOfKeys
<1>8. CASE Crash
  <2>1. JobBag(NoBag) /\ BagToSet(NoBag) = {} BY BagOfSet DEF JobBag, NoBag, EmptyBag
  <2> QED BY <1>8, <2>1 DEF Crash, TombstonesOfKeys
<1>9. CASE Rotate
  <2>1. \A j \in BagToSet(tombstones) : j.key \in Nat
    BY Typed, TimesAre DEF JobBag, Jobs
  <2> QED BY <1>0, <1>9, <2>1 DEF Rotate, jobs, TombstonesOfKeys
<1>10. CASE UNCHANGED vars BY <1>10 DEF vars, jobs, TombstonesOfKeys
<1> QED BY <1>1, <1>2, <1>3, <1>4, <1>5, <1>6, <1>7, <1>8, <1>9, <1>10, Steps

LEMMA LoadedStep ==
  ASSUME TypeOK, LoadedIsCurrent, [Next]_vars
  PROVE  LoadedIsCurrent'
<1>1. ASSUME NEW q \in Posts, AuthorOf(q) PROVE LoadedIsCurrent'
  <2>1. /\ \A p \in Posts : p # q => posts'[p] = posts[p]
        /\ disturbed \subseteq disturbed' /\ rotation' = rotation
        /\ posts'[q].status = "draft" \/ q \in disturbed' \/ Idle
    BY <1>1, AuthorDoes
  <2> SUFFICES ASSUME rotation.stage = "loaded", NEW p \in Posts,
                      posts'[p].status = "scheduled", p \notin disturbed',
                      NEW t \in Times
               PROVE  <<p, t>> \in rotation.loaded <=> t = posts'[p].at
    BY <2>1 DEF LoadedIsCurrent, Scheduled
  <2>2. ~Idle BY DEF Idle, NoRotation
  <2>3. p # q BY <2>1, <2>2
  <2>4. posts'[p] = posts[p] BY <2>1, <2>3
  <2> QED BY <2>1, <2>4 DEF LoadedIsCurrent, Scheduled
<1>2. CASE Tick \/ \E j \in Due : Fire(j)
  BY <1>2 DEF Tick, Fire, LoadedIsCurrent, Scheduled
<1>3. ASSUME NEW x \in pings, RequestOf(x) PROVE LoadedIsCurrent'
  <2>1. /\ disturbed \subseteq disturbed' /\ rotation' = rotation
        /\ \A q \in Posts : posts'[q] = posts[q] \/ posts'[q].status = "published"
    BY <1>3, RequestDoes
  <2> QED BY <2>1 DEF LoadedIsCurrent, Scheduled
<1>4. CASE Reissue \/ Crash \/ Rotate
  <2>1. rotation' = NoRotation \/ rotation' = [stage |-> "rotated", loaded |-> {}]
    BY <1>4 DEF Reissue, Crash, Rotate
  <2>2. rotation'.stage # "loaded" BY <2>1 DEF NoRotation
  <2> QED BY <2>2 DEF LoadedIsCurrent
<1>5. CASE Boot
  <2>1. UNCHANGED <<posts, rotation, disturbed>> BY <1>5 DEF Boot
  <2> QED BY <2>1 DEF LoadedIsCurrent, Scheduled
<1>6. CASE Load
  <2>1. /\ rotation' = [stage |-> "loaded", loaded |-> LoadScheduledResources]
        /\ UNCHANGED <<posts, disturbed>>
    BY <1>6 DEF Load
  <2>2. \A p \in Scheduled : \A t \in Times :
           <<p, t>> \in LoadScheduledResources <=> t = posts[p].at
    BY LoadedAre
  <2>3. rotation'.loaded = LoadScheduledResources BY <2>1
  <2> QED BY <2>1, <2>2, <2>3 DEF LoadedIsCurrent, Scheduled
<1>7. CASE UNCHANGED vars
  BY <1>7 DEF vars, LoadedIsCurrent, Scheduled
<1> QED BY <1>1, <1>2, <1>3, <1>4, <1>5, <1>6, <1>7, Steps

LEMMA JobParts ==
  ASSUME NEW j \in Jobs
  PROVE  /\ j.post \in Posts /\ j.time \in Times /\ j.key \in Keys
         /\ j = JobOf(j.post, j.time, j.key)
  BY DEF Jobs, JobOf

LEMMA PingDoes ==
  ASSUME NEW j, Ping(j)
  PROVE  \E new : pings' = pings \cup {new} /\ new.job = j /\ new.stage = "sent"
<1>1. PICK id \in 1..MaxPings, force \in BOOLEAN :
         pings' = pings \cup {[id |-> id, job |-> j, tries |-> 0,
                               force |-> force, stage |-> "sent",
                               fresh |-> TRUE]}
  BY DEF Ping
<1> DEFINE ping == [id |-> id, job |-> j, tries |-> 0, force |-> force,
                    stage |-> "sent", fresh |-> TRUE]
<1>2. ping.job = j /\ ping.stage = "sent" OBVIOUS
<1> HIDE DEF ping
<1>3. pings' = pings \cup {ping} BY <1>1 DEF ping
<1> QED BY <1>2, <1>3

LEMMA DraftStep ==
  ASSUME TypeOK, NoJobTooMany, PingedIsNoDraft, [Next]_vars
  PROVE  PingedIsNoDraft'
<1>0. \A x \in pings : x.job.post \in Posts BY Typed
<1>1. ASSUME NEW q \in Posts, AuthorOf(q) PROVE PingedIsNoDraft'
  <2>1. /\ SavedPings(q)
        /\ \A p \in Posts : p # q => posts'[p] = posts[p]
        /\ disturbed \subseteq disturbed' /\ leftover \subseteq leftover'
        /\ q \in leftover' \/ q \in disturbed' \/ ~PingOf(q)
    BY <1>1, AuthorDoes
  <2> SUFFICES ASSUME NEW y \in pings', y.job.post \notin leftover' \cup disturbed'
               PROVE  posts'[y.job.post].status # "draft"
    BY DEF PingedIsNoDraft
  <2>2. PICK x \in pings : y.job = x.job BY <2>1 DEF SavedPings
  <2>3. PingOf(x.job.post) BY DEF PingOf
  <2>4. x.job.post # q BY <2>1, <2>2, <2>3
  <2> QED BY <1>0, <2>1, <2>2, <2>4 DEF PingedIsNoDraft
<1>2. CASE Tick BY <1>2 DEF Tick, PingedIsNoDraft
<1>3. ASSUME NEW j \in Due, Fire(j) PROVE PingedIsNoDraft'
  <2>1. /\ j \in Jobs
        /\ \/ pings' = pings
           \/ Ping(j) /\ Surplus[j] >= 1
    BY <1>3, FireJobs
  <2>2. UNCHANGED <<posts, leftover, disturbed>> BY <1>3 DEF Fire
  <2>3. CASE pings' = pings BY <2>2, <2>3 DEF PingedIsNoDraft
  <2>4. CASE Ping(j) /\ Surplus[j] >= 1
    <3>1. PICK new : pings' = pings \cup {new} /\ new.job = j
      BY <2>4, PingDoes
    <3>2. ASSUME j.post \notin leftover \cup disturbed, posts[j.post].status = "draft"
          PROVE  FALSE
      <4>1. /\ j.post \in Posts /\ j.time \in Times /\ j.key \in Keys
            /\ j = JobOf(j.post, j.time, j.key)
        BY <2>1, JobParts
      <4>2. Surplus[j] <= Allowed(j.post, j.time, j.key)
        BY <3>2, <4>1 DEF NoJobTooMany
      <4>3. Allowed(j.post, j.time, j.key) = 0 BY <3>2 DEF Allowed, Scheduled
      <4>4. Surplus[j] \in Int BY <2>1, SurplusIs
      <4> QED BY <2>4, <4>2, <4>3, <4>4
    <3> QED BY <2>2, <3>1, <3>2 DEF PingedIsNoDraft
  <2> QED BY <2>1, <2>3, <2>4
<1>4. ASSUME NEW x \in pings, RequestOf(x) PROVE PingedIsNoDraft'
  <2>1. /\ disturbed \subseteq disturbed' /\ leftover' = leftover
        /\ \A y \in pings' : \E z \in pings : y.job = z.job
        /\ \A q \in Posts : posts'[q] = posts[q] \/ posts'[q].status = "published"
    BY <1>4, RequestDoes
  <2> SUFFICES ASSUME NEW y \in pings', y.job.post \notin leftover' \cup disturbed'
               PROVE  posts'[y.job.post].status # "draft"
    BY DEF PingedIsNoDraft
  <2>2. PICK z \in pings : y.job = z.job BY <2>1
  <2> QED BY <1>0, <2>1, <2>2 DEF PingedIsNoDraft
<1>5. CASE Boot \/ Load \/ Rotate \/ Reissue
  <2>1. UNCHANGED <<pings, posts, disturbed>> /\ leftover \subseteq leftover'
    BY <1>5 DEF Boot, Load, Rotate, Reissue
  <2> QED BY <2>1 DEF PingedIsNoDraft
<1>6. CASE Crash BY <1>6 DEF Crash, PingedIsNoDraft
<1>7. CASE UNCHANGED vars BY <1>7 DEF vars, PingedIsNoDraft
<1> QED BY <1>1, <1>2, <1>3, <1>4, <1>5, <1>6, <1>7, Steps

LEMMA DueStep ==
  ASSUME TypeOK, DownIsEmpty, CheckedIsDue, [Next]_vars
  PROVE  CheckedIsDue'
<1>0. /\ now \in Nat /\ now >= 1
      /\ \A x \in pings : x.job.post \in Posts /\ x \in Pings
  BY Typed, TimesAre
<1>1. ASSUME NEW q \in Posts, AuthorOf(q) PROVE CheckedIsDue'
  <2>1. /\ SavedPings(q) /\ now' = now
        /\ \A p \in Posts : p # q => posts'[p] = posts[p]
    BY <1>1, AuthorDoes
  <2> SUFFICES ASSUME NEW y \in pings', y.stage = "checked", y.fresh
               PROVE  posts'[y.job.post].at - now <= Tolerance
    BY <2>1 DEF CheckedIsDue
  <2>2. PICK x \in pings :
           /\ y.job = x.job /\ y.stage = x.stage
           /\ y.fresh => x.fresh /\ (x.job.post # q \/ posts'[q].at = Never)
    BY <2>1 DEF SavedPings
  <2>3. posts[x.job.post].at - now <= Tolerance BY <2>2 DEF CheckedIsDue
  <2>4. CASE x.job.post # q BY <1>0, <2>1, <2>2, <2>3, <2>4
  <2>5. CASE x.job.post = q
    <3>1. posts'[q].at = 0 BY <2>2, <2>5 DEF Never
    <3> QED BY <1>0, <2>2, <2>5, <3>1 DEF Tolerance
  <2> QED BY <2>4, <2>5
<1>2. CASE Tick
  <2>1. pings' = {} BY <1>2 DEF Tick, Settled, DownIsEmpty
  <2> QED BY <2>1 DEF CheckedIsDue
<1>3. ASSUME NEW j \in Due, Fire(j) PROVE CheckedIsDue'
  <2>1. pings' = pings \/ Ping(j) BY <1>3, FireJobs
  <2>2. UNCHANGED <<posts, now>> BY <1>3 DEF Fire
  <2>3. CASE pings' = pings BY <2>2, <2>3 DEF CheckedIsDue
  <2>4. CASE Ping(j)
    <3>1. PICK new : pings' = pings \cup {new} /\ new.stage = "sent"
      BY <2>4, PingDoes
    <3> QED BY <2>2, <3>1 DEF CheckedIsDue
  <2> QED BY <2>1, <2>3, <2>4
<1>4. ASSUME NEW x \in pings, RequestOf(x) PROVE CheckedIsDue'
  <2>1. CASE Read(x)
    <3> DEFINE c == [x EXCEPT !.stage = "checked"]
    <3>1. c.job = x.job BY <1>0 DEF Pings
    <3>2. \A y \in pings' : y \in pings \/ (y = c /\ Accepted(x))
      BY <2>1 DEF Read
    <3>3. Accepted(x) => posts[x.job.post].at - now <= Tolerance
      BY DEF Accepted, InTime
    <3>4. UNCHANGED <<posts, now>> BY <2>1 DEF Read
    <3> HIDE DEF c
    <3> QED BY <3>1, <3>2, <3>3, <3>4 DEF CheckedIsDue
  <2>2. CASE Publish(x)
    <3> DEFINE stale(z) ==
           [z EXCEPT !.fresh = @ /\ (posts' # posts => z.job.post # x.job.post)]
    <3>1. \A z \in pings :
             /\ stale(z).job = z.job /\ stale(z).stage = z.stage
             /\ stale(z).fresh => z.fresh /\ (posts' # posts => z.job.post # x.job.post)
      BY <1>0, PingStale
    <3>2. \A y \in pings' : \E z \in pings : y = stale(z) BY <2>2 DEF Publish
    <3> HIDE DEF stale
    <3>3. now' = now BY <2>2 DEF Publish
    <3>4. \A q \in Posts : q # x.job.post => posts'[q] = posts[q]
      BY <1>4, RequestDoes
    <3> SUFFICES ASSUME NEW y \in pings', y.stage = "checked", y.fresh
                 PROVE  posts'[y.job.post].at - now <= Tolerance
      BY <3>3 DEF CheckedIsDue
    <3>5. PICK z \in pings : y = stale(z) BY <3>2
    <3>6. /\ y.job = z.job /\ z.stage = "checked" /\ z.fresh
          /\ posts' # posts => z.job.post # x.job.post
      BY <3>1, <3>5
    <3>7. posts'[z.job.post] = posts[z.job.post] BY <1>0, <3>4, <3>6
    <3> QED BY <3>6, <3>7 DEF CheckedIsDue
  <2>3. CASE Fail(x) BY <2>3 DEF Fail, CheckedIsDue
  <2>4. CASE Busy(x)
    <3> DEFINE again == [x EXCEPT !.tries = @ + 1, !.force = TRUE]
    <3>1. again.stage = "sent" BY <1>0, <2>4 DEF Pings, Busy
    <3>2. \A y \in pings' : y \in pings \/ y = again BY <2>4 DEF Busy
    <3>3. UNCHANGED <<posts, now>> BY <2>4 DEF Busy
    <3> HIDE DEF again
    <3> QED BY <3>1, <3>2, <3>3 DEF CheckedIsDue
  <2> QED BY <1>4, <2>1, <2>2, <2>3, <2>4 DEF RequestOf
<1>5. CASE Boot \/ Load \/ Rotate \/ Reissue
  <2>1. UNCHANGED <<pings, posts, now>>
    BY <1>5 DEF Boot, Load, Rotate, Reissue
  <2> QED BY <2>1 DEF CheckedIsDue
<1>6. CASE Crash BY <1>6 DEF Crash, CheckedIsDue
<1>7. CASE UNCHANGED vars BY <1>7 DEF vars, CheckedIsDue
<1> QED BY <1>1, <1>2, <1>3, <1>4, <1>5, <1>6, <1>7, Steps

LEMMA EnoughStep ==
  ASSUME TypeOK, RotationTyped, DownIsEmpty, TombstonesOfKeys, LoadedIsCurrent,
         EnoughJobs, [Next]_vars
  PROVE  EnoughJobs'
<1>0. /\ now \in Times /\ key \in Keys /\ Times \subseteq Nat /\ Keys \subseteq Nat
  BY Typed, TimesAre
<1>1. \A p \in Posts : \A t \in Times : \A k \in Keys :
         JobOf(p, t, k) \in Jobs /\ Surplus[JobOf(p, t, k)] \in Int
  BY SameJob, SurplusIs
<1>2. ASSUME NEW q \in Posts, AuthorOf(q) PROVE EnoughJobs'
  <2>1. /\ \A p \in Posts : p # q => posts'[p] = posts[p]
        /\ disturbed \subseteq disturbed' /\ up
        /\ UNCHANGED <<now, up, key, rotation>>
        /\ \/ posts'[q].status = "draft"
           \/ q \in disturbed'
           \/ Idle
    BY <1>2, AuthorDoes
  <2> SUFFICES ASSUME NEW p \in Posts, p \notin disturbed', NEW t \in Times, t > now
               PROVE  Surplus'[JobOf(p, t, key)]
                         >= IF Idle /\ posts'[p].status = "scheduled"
                                    /\ posts'[p].at = t
                            THEN 1 ELSE 0
    BY <2>1 DEF EnoughJobs, Wanted, Scheduled, Idle
  <2>2. Surplus[JobOf(p, t, key)] >= IF Idle /\ posts[p].status = "scheduled"
                                             /\ posts[p].at = t
                                     THEN 1 ELSE 0
    BY <2>1 DEF EnoughJobs, Wanted, Scheduled
  <2>3. Surplus[JobOf(p, t, key)] \in Int BY <1>0, <1>1
  <2>4. ASSUME NEW at \in Times, Schedule(q, at)
        PROVE  Surplus'[JobOf(p, t, key)]
                  >= IF Idle /\ posts'[p].status = "scheduled" /\ posts'[p].at = t
                     THEN 1 ELSE 0
    <3>1. Surplus'[JobOf(p, t, key)] = Surplus[JobOf(p, t, key)]
             + (IF p = q /\ t = at /\ key = key THEN 1 ELSE 0)
      BY <1>0, <2>4, ScheduleJobs
    <3>2. posts'[q].at = at /\ posts'[q].status = "scheduled"
      BY <2>4, SaveDoes DEF Schedule
    <3> QED BY <2>1, <2>2, <2>3, <3>1, <3>2
  <2>5. ASSUME NEW at \in Times, Reschedule(q, at)
        PROVE  Surplus'[JobOf(p, t, key)]
                  >= IF Idle /\ posts'[p].status = "scheduled" /\ posts'[p].at = t
                     THEN 1 ELSE 0
    <3>1. /\ at # posts[q].at
          /\ Surplus'[JobOf(p, t, key)] = Surplus[JobOf(p, t, key)]
               + (IF p = q /\ t = at /\ key = key THEN 1 ELSE 0)
               - (IF p = q /\ t = posts[q].at /\ key = key THEN 1 ELSE 0)
      BY <1>0, <2>5, RescheduleJobs
    <3>2. /\ posts'[q].at = at /\ posts[q].status = "scheduled"
          /\ q \in disturbed' \/ Idle
      BY <2>5, SaveDoes DEF Reschedule
    <3>3. CASE p # q
      <4>1. Surplus'[JobOf(p, t, key)] = Surplus[JobOf(p, t, key)]
        BY <2>3, <3>1, <3>3
      <4> QED BY <2>1, <2>2, <3>3, <4>1
    <3>4. CASE p = q
      <4>1. Idle BY <3>2, <3>4
      <4>2. CASE t = at
        <5>1. Surplus'[JobOf(p, t, key)] = Surplus[JobOf(p, t, key)] + 1
          BY <2>3, <3>1, <3>4, <4>2
        <5> QED BY <2>2, <2>3, <5>1
      <4>3. CASE t = posts[q].at
        <5>1. Surplus'[JobOf(p, t, key)] = Surplus[JobOf(p, t, key)] - 1
          BY <2>3, <3>1, <3>4, <4>3
        <5> QED BY <2>2, <2>3, <3>1, <3>2, <3>4, <4>1, <4>3, <5>1
      <4>4. CASE t # at /\ t # posts[q].at
        <5>1. Surplus'[JobOf(p, t, key)] = Surplus[JobOf(p, t, key)]
          BY <2>3, <3>1, <3>4, <4>4
        <5> QED BY <2>2, <2>3, <3>2, <3>4, <4>4, <5>1
      <4> QED BY <4>2, <4>3, <4>4
    <3> QED BY <3>3, <3>4
  <2>6. ASSUME NEW at \in {Never, posts[q].at}, Unschedule(q, at)
        PROVE  Surplus'[JobOf(p, t, key)]
                  >= IF Idle /\ posts'[p].status = "scheduled" /\ posts'[p].at = t
                     THEN 1 ELSE 0
    <3>1. Surplus'[JobOf(p, t, key)] = Surplus[JobOf(p, t, key)]
             - (IF p = q /\ t = posts[q].at /\ key = key THEN 1 ELSE 0)
      BY <1>0, <2>6, UnscheduleJobs
    <3>2. /\ posts'[q].status = "draft" /\ posts[q].status = "scheduled"
          /\ q \in disturbed' \/ Idle
      BY <2>6, SaveDoes DEF Unschedule
    <3>3. CASE p # q BY <2>1, <2>2, <2>3, <3>1, <3>3
    <3>4. CASE p = q BY <2>2, <2>3, <3>1, <3>2, <3>4
    <3> QED BY <3>3, <3>4
  <2>7. CASE BulkUnschedule(q) \/ Touch(q) \/ PublishNow(q) \/ Unpublish(q)
             \/ Delete(q)
    <3>1. UNCHANGED jobs
      BY <2>7 DEF BulkUnschedule, Touch, PublishNow, Unpublish, Delete
    <3>2. Surplus' = Surplus BY <3>1, SameSurplus
    <3>3. \/ posts'[q].status # "scheduled"
          \/ posts'[q].at = posts[q].at /\ posts[q].status = "scheduled"
      <4>1. CASE BulkUnschedule(q)
        <5>1. ~Touch(q) => posts'[q].status # "scheduled"
          BY <4>1, Typed DEF BulkUnschedule
        <5>2. Touch(q) => posts'[q].at = posts[q].at /\ posts[q].status = "scheduled"
          BY SaveDoes DEF Touch
        <5> QED BY <5>1, <5>2
      <4>2. CASE Touch(q) BY <4>2, SaveDoes DEF Touch
      <4>3. CASE PublishNow(q) BY <4>3, SaveDoes DEF PublishNow
      <4>4. CASE Unpublish(q) \/ Delete(q)
        BY <4>4, SaveDoes DEF Unpublish, Delete
      <4> QED BY <2>7, <4>1, <4>2, <4>3, <4>4
    <3> QED BY <2>1, <2>2, <2>3, <3>2, <3>3
  <2> QED BY <1>2, <2>4, <2>5, <2>6, <2>7 DEF AuthorOf
<1>3. CASE Tick
  <2>1. /\ \A j \in Jobs : Surplus'[j] = Surplus[j]
        /\ now' = now + 1 /\ UNCHANGED <<up, posts, key, rotation, disturbed>>
    BY <1>3, TickJobs DEF Tick
  <2>2. \A t \in Times : t > now' => t > now BY <1>0, <2>1
  <2> QED BY <1>0, <1>1, <2>1, <2>2 DEF EnoughJobs, Wanted, Scheduled, Idle
<1>4. ASSUME NEW j \in Due, Fire(j) PROVE EnoughJobs'
  <2>1. /\ j \in Jobs /\ j.time <= now
        /\ \A i \in Jobs : \/ Surplus'[i] = Surplus[i]
                           \/ i = j
    BY <1>4, FireJobs, SurplusIs
  <2>2. UNCHANGED <<now, up, posts, key, rotation, disturbed>> BY <1>4 DEF Fire
  <2>3. ASSUME NEW p \in Posts, NEW t \in Times, t > now
        PROVE  Surplus'[JobOf(p, t, key)] = Surplus[JobOf(p, t, key)]
    <3>1. JobOf(p, t, key).time = t BY <1>0, JobsAre
    <3>2. JobOf(p, t, key) # j BY <1>0, <2>1, <2>3, <3>1
    <3> QED BY <1>0, <1>1, <2>1, <3>2
  <2> QED BY <2>2, <2>3 DEF EnoughJobs, Wanted, Scheduled, Idle
<1>5. ASSUME NEW x \in pings, RequestOf(x) PROVE EnoughJobs'
  <2>1. /\ UNCHANGED <<now, up, jobs, key, rotation>>
        /\ disturbed \subseteq disturbed'
        /\ \A q \in Posts : posts'[q] = posts[q] \/ posts'[q].status = "published"
    BY <1>5, RequestDoes
  <2>2. Surplus' = Surplus BY <2>1, SameSurplus
  <2> SUFFICES ASSUME up, NEW p \in Posts, p \notin disturbed',
                      NEW t \in Times, t > now
               PROVE  Surplus[JobOf(p, t, key)]
                         >= IF Idle /\ posts'[p].status = "scheduled"
                                    /\ posts'[p].at = t
                            THEN 1 ELSE 0
    BY <2>1, <2>2 DEF EnoughJobs, Wanted, Scheduled, Idle
  <2>3. Surplus[JobOf(p, t, key)] >= IF Idle /\ posts[p].status = "scheduled"
                                             /\ posts[p].at = t
                                     THEN 1 ELSE 0
    BY <2>1 DEF EnoughJobs, Wanted, Scheduled
  <2> QED BY <1>0, <1>1, <2>1, <2>3
<1>6. CASE Boot
  <2>1. UNCHANGED <<now, posts, key, rotation, disturbed>> /\ ~up
    BY <1>6 DEF Boot
  <2>2. \A j \in Jobs : Surplus[j] = 0 BY <2>1 DEF DownIsEmpty
  <2>3. ASSUME NEW p \in Posts, NEW t \in Times
        PROVE  Surplus'[JobOf(p, t, key)] >= Wanted(p, t)
    <3>1. Surplus'[JobOf(p, t, key)] = Surplus[JobOf(p, t, key)]
             + (IF key = key /\ p \in Scheduled /\ t = posts[p].at THEN 1 ELSE 0)
      BY <1>0, <1>6, BootJobs
    <3> QED BY <1>0, <1>1, <2>2, <3>1 DEF Wanted
  <2> QED BY <2>1, <2>3 DEF EnoughJobs, Wanted, Scheduled, Idle
<1>7. CASE Load
  <2>1. /\ UNCHANGED <<now, up, jobs, posts, key, disturbed>>
        /\ rotation.stage = "rotated" /\ rotation'.stage = "loaded"
    BY <1>7 DEF Load
  <2>2. Surplus' = Surplus BY <2>1, SameSurplus
  <2>3. ~Idle /\ rotation' # NoRotation BY <2>1 DEF Idle, NoRotation
  <2> QED BY <2>1, <2>2, <2>3 DEF EnoughJobs, Wanted, Idle
<1>8. CASE Rotate
  <2>1. /\ UNCHANGED <<now, up, jobs, posts, disturbed>> /\ key' = key + 1
        /\ key < MaxRotations /\ rotation'.stage = "rotated"
    BY <1>8 DEF Rotate
  <2>2. Surplus' = Surplus BY <2>1, SameSurplus
  <2>3. rotation' # NoRotation BY <2>1 DEF NoRotation
  <2>4. key' \in Keys /\ key' > key BY <1>0, <2>1, NewKey
  <2>5. ASSUME NEW p \in Posts, NEW t \in Times
        PROVE  Surplus[JobOf(p, t, key')] >= 0
    <3> DEFINE j == JobOf(p, t, key')
    <3>1. j \in Jobs /\ j.key = key' BY <2>4, JobsAre
    <3> HIDE DEF j
    <3>2. j \notin BagToSet(tombstones) BY <1>0, <2>4, <3>1 DEF TombstonesOfKeys
    <3>3. Copies(j, tombstones) = 0 BY <3>2 DEF Copies, BagIn
    <3>4. Surplus[j] >= 0 BY <3>1, <3>3, SurplusIs
    <3> QED BY <3>4 DEF j
  <2> QED BY <2>1, <2>2, <2>3, <2>5 DEF EnoughJobs, Wanted, Idle
<1>9. CASE Reissue
  <2>1. /\ UNCHANGED <<now, up, posts, key, disturbed>> /\ up
        /\ rotation.stage = "loaded" /\ rotation' = NoRotation
    BY <1>9 DEF Reissue
  <2>2. ~Idle BY <2>1 DEF Idle, NoRotation
  <2> SUFFICES ASSUME NEW p \in Posts, p \notin disturbed, NEW t \in Times, t > now
               PROVE  Surplus'[JobOf(p, t, key)]
                         >= IF p \in Scheduled /\ posts[p].at = t THEN 1 ELSE 0
    BY <2>1 DEF EnoughJobs, Wanted, Scheduled, Idle
  <2>3. Surplus[JobOf(p, t, key)] >= 0 BY <2>1, <2>2 DEF EnoughJobs, Wanted
  <2>4. Surplus'[JobOf(p, t, key)] = Surplus[JobOf(p, t, key)]
             + (IF key = key /\ <<p, t>> \in rotation.loaded THEN 1 ELSE 0)
             - (IF key = key - 1 /\ <<p, t>> \in rotation.loaded THEN 1 ELSE 0)
    BY <1>0, <1>9, ReissueJobs
  <2>5. Surplus'[JobOf(p, t, key)] = Surplus[JobOf(p, t, key)]
             + (IF <<p, t>> \in rotation.loaded THEN 1 ELSE 0)
    BY <1>0, <1>1, <2>4
  <2>6. p \in Scheduled /\ posts[p].at = t => <<p, t>> \in rotation.loaded
    BY <2>1 DEF LoadedIsCurrent
  <2> QED BY <1>0, <1>1, <2>3, <2>5, <2>6
<1>10. CASE Crash BY <1>10 DEF Crash, EnoughJobs
<1>11. CASE UNCHANGED vars
  <2>1. Surplus' = Surplus BY <1>11, SameSurplus DEF vars
  <2> QED BY <1>11, <2>1 DEF vars, EnoughJobs, Wanted, Scheduled, Idle
<1> QED BY <1>2, <1>3, <1>4, <1>5, <1>6, <1>7, <1>8, <1>9, <1>10, <1>11, Steps

LEMMA NoneStep ==
  ASSUME TypeOK, RotationTyped, DownIsEmpty, LoadedIsCurrent, NoJobTooMany,
         [Next]_vars
  PROVE  NoJobTooMany'
<1>0. /\ now \in Times /\ key \in Keys /\ Times \subseteq Nat /\ Keys \subseteq Nat
  BY Typed, TimesAre
<1>1. \A p \in Posts : \A t \in Times : \A k \in Keys :
         JobOf(p, t, k) \in Jobs /\ Surplus[JobOf(p, t, k)] \in Int
  BY SameJob, SurplusIs
<1>2. ASSUME NEW q \in Posts, AuthorOf(q) PROVE NoJobTooMany'
  <2>1. /\ \A p \in Posts : p # q => posts'[p] = posts[p]
        /\ disturbed \subseteq disturbed' /\ leftover \subseteq leftover'
        /\ UNCHANGED <<key, rotation>>
        /\ q \in leftover' \cup disturbed' \/ (Idle /\ ~PingOf(q))
        /\ SavedPings(q)
    BY <1>2, AuthorDoes
  <2>2. \A p : PingOf(p)' <=> PingOf(p) BY <2>1 DEF SavedPings, PingOf
  <2> SUFFICES ASSUME NEW p \in Posts, p \notin leftover' \cup disturbed',
                      posts'[p].status # "deleted",
                      NEW t \in Times, NEW k \in Keys
               PROVE  Surplus'[JobOf(p, t, k)]
                         <= IF k = LiveKey /\ posts'[p].status = "scheduled"
                               /\ posts'[p].at = t /\ ~PingOf(p)
                            THEN 1 ELSE 0
    BY <2>1, <2>2 DEF NoJobTooMany, Allowed, Scheduled, LiveKey, Idle
  <2>3. posts[p].status # "deleted" => Surplus[JobOf(p, t, k)]
           <= IF k = LiveKey /\ posts[p].status = "scheduled"
                 /\ posts[p].at = t /\ ~PingOf(p)
              THEN 1 ELSE 0
    BY <2>1 DEF NoJobTooMany, Allowed, Scheduled
  <2>4. Surplus[JobOf(p, t, k)] \in Int BY <1>1
  <2>5. p = q => LiveKey = key /\ ~PingOf(p) BY <2>1 DEF LiveKey
  <2>6. ASSUME NEW at \in Times, Schedule(q, at)
        PROVE  Surplus'[JobOf(p, t, k)]
                  <= IF k = LiveKey /\ posts'[p].status = "scheduled"
                        /\ posts'[p].at = t /\ ~PingOf(p)
                     THEN 1 ELSE 0
    <3>1. Surplus'[JobOf(p, t, k)] = Surplus[JobOf(p, t, k)]
             + (IF p = q /\ t = at /\ k = key THEN 1 ELSE 0)
      BY <2>6, ScheduleJobs
    <3>2. /\ posts'[q].at = at /\ posts'[q].status = "scheduled"
          /\ posts[q].status = "draft"
      BY <2>6, SaveDoes DEF Schedule
    <3>3. CASE p # q BY <2>1, <2>3, <2>4, <3>1, <3>3
    <3>4. CASE p = q
      <4>1. Surplus[JobOf(p, t, k)] <= 0 BY <2>3, <3>2, <3>4
      <4> QED BY <2>4, <2>5, <3>1, <3>2, <3>4, <4>1
    <3> QED BY <3>3, <3>4
  <2>7. ASSUME NEW at \in Times, Reschedule(q, at)
        PROVE  Surplus'[JobOf(p, t, k)]
                  <= IF k = LiveKey /\ posts'[p].status = "scheduled"
                        /\ posts'[p].at = t /\ ~PingOf(p)
                     THEN 1 ELSE 0
    <3>1. /\ at # posts[q].at
          /\ Surplus'[JobOf(p, t, k)] = Surplus[JobOf(p, t, k)]
               + (IF p = q /\ t = at /\ k = key THEN 1 ELSE 0)
               - (IF p = q /\ t = posts[q].at /\ k = key THEN 1 ELSE 0)
      BY <2>7, RescheduleJobs
    <3>2. /\ posts'[q].at = at /\ posts'[q].status = "scheduled"
          /\ posts[q].status = "scheduled"
      BY <2>7, SaveDoes DEF Reschedule
    <3>3. CASE p # q
      <4>1. Surplus'[JobOf(p, t, k)] = Surplus[JobOf(p, t, k)]
        BY <2>4, <3>1, <3>3
      <4> QED BY <2>1, <2>3, <3>3, <4>1
    <3>4. CASE p = q /\ k = key
      <4>1. CASE t = at
        <5>1. Surplus'[JobOf(p, t, k)] = Surplus[JobOf(p, t, k)] + 1
          BY <2>4, <3>1, <3>4, <4>1
        <5>2. Surplus[JobOf(p, t, k)] <= 0 BY <2>3, <3>1, <3>2, <3>4, <4>1
        <5> QED BY <2>4, <2>5, <3>2, <3>4, <4>1, <5>1, <5>2
      <4>2. CASE t = posts[q].at
        <5>1. Surplus'[JobOf(p, t, k)] = Surplus[JobOf(p, t, k)] - 1
          BY <2>4, <3>1, <3>4, <4>2
        <5>2. Surplus[JobOf(p, t, k)] <= 1 BY <2>3, <2>4, <3>2, <3>4
        <5>3. Surplus'[JobOf(p, t, k)] <= 0 BY <2>4, <5>1, <5>2
        <5> QED BY <3>1, <3>2, <3>4, <4>2, <5>3
      <4>3. CASE t # at /\ t # posts[q].at
        <5>1. Surplus'[JobOf(p, t, k)] = Surplus[JobOf(p, t, k)]
          BY <2>4, <3>1, <3>4, <4>3
        <5> QED BY <2>3, <2>4, <3>2, <3>4, <4>3, <5>1
      <4> QED BY <4>1, <4>2, <4>3
    <3>5. CASE p = q /\ k # key
      <4>1. Surplus'[JobOf(p, t, k)] = Surplus[JobOf(p, t, k)]
        BY <2>4, <3>1, <3>5
      <4> QED BY <2>3, <2>4, <2>5, <3>2, <3>5, <4>1
    <3> QED BY <3>3, <3>4, <3>5
  <2>8. ASSUME NEW at \in {Never, posts[q].at}, Unschedule(q, at)
        PROVE  Surplus'[JobOf(p, t, k)]
                  <= IF k = LiveKey /\ posts'[p].status = "scheduled"
                        /\ posts'[p].at = t /\ ~PingOf(p)
                     THEN 1 ELSE 0
    <3>1. Surplus'[JobOf(p, t, k)] = Surplus[JobOf(p, t, k)]
             - (IF p = q /\ t = posts[q].at /\ k = key THEN 1 ELSE 0)
      BY <2>8, UnscheduleJobs
    <3>2. posts'[q].status = "draft" /\ posts[q].status = "scheduled"
      BY <2>8, SaveDoes DEF Unschedule
    <3>3. CASE p # q BY <2>1, <2>3, <2>4, <3>1, <3>3
    <3>4. CASE p = q
      <4>1. CASE k = key /\ t = posts[q].at
        <5>1. Surplus[JobOf(p, t, k)] <= 1 BY <2>3, <2>4, <3>2, <3>4
        <5>2. Surplus'[JobOf(p, t, k)] <= 0 BY <2>4, <3>1, <3>4, <4>1, <5>1
        <5> QED BY <3>2, <3>4, <5>2
      <4>2. CASE ~(k = key /\ t = posts[q].at)
        <5>1. Surplus[JobOf(p, t, k)] <= 0 BY <2>3, <2>5, <3>2, <3>4, <4>2
        <5> QED BY <2>4, <3>1, <3>2, <3>4, <4>2, <5>1
      <4> QED BY <4>1, <4>2
    <3> QED BY <3>3, <3>4
  <2>9. CASE BulkUnschedule(q) \/ Touch(q) \/ PublishNow(q) \/ Unpublish(q)
             \/ Delete(q)
    <3>1. UNCHANGED jobs
      BY <2>9 DEF BulkUnschedule, Touch, PublishNow, Unpublish, Delete
    <3>2. Surplus' = Surplus BY <3>1, SameSurplus
    <3>3. p = q => posts[p].status \in {"draft", "published"}
      <4>1. CASE BulkUnschedule(q) BY <4>1 DEF BulkUnschedule
      <4>2. CASE Touch(q) BY <2>5, <4>2 DEF Touch, PingOf
      <4>3. CASE PublishNow(q) BY <4>3 DEF PublishNow
      <4>4. CASE Unpublish(q) BY <4>4 DEF Unpublish
      <4>5. CASE Delete(q)
        <5>1. posts'[q].status = "deleted" BY <4>5, SaveDoes DEF Delete
        <5> QED BY <5>1
      <4> QED BY <2>9, <4>1, <4>2, <4>3, <4>4, <4>5
    <3>4. CASE p # q BY <2>1, <2>3, <3>2, <3>4
    <3>5. CASE p = q
      <4>1. Surplus[JobOf(p, t, k)] <= 0 BY <2>3, <3>3, <3>5
      <4> QED BY <2>4, <3>2, <4>1
    <3> QED BY <3>4, <3>5
  <2> QED BY <1>2, <2>6, <2>7, <2>8, <2>9 DEF AuthorOf
<1>3. CASE Tick
  <2>1. /\ \A j \in Jobs : Surplus'[j] = Surplus[j]
        /\ UNCHANGED <<posts, key, rotation, disturbed, leftover, pings>>
    BY <1>3, TickJobs DEF Tick
  <2> QED BY <1>1, <2>1
    DEF NoJobTooMany, Allowed, Scheduled, Idle, LiveKey, PingOf
<1>4. ASSUME NEW j \in Due, Fire(j) PROVE NoJobTooMany'
  <2>1. UNCHANGED <<posts, key, rotation, disturbed, leftover>> BY <1>4 DEF Fire
  <2>2. j \in Jobs BY <1>4, FireJobs
  <2>3. CASE pings' = pings /\ \A i \in Jobs : Surplus'[i] = Surplus[i]
    BY <1>1, <2>1, <2>3
    DEF NoJobTooMany, Allowed, Scheduled, Idle, LiveKey, PingOf
  <2>4. CASE /\ Ping(j) /\ Surplus[j] >= 1
             /\ \A i \in Jobs : Surplus'[i]
                                    = Surplus[i] - (IF i = j THEN 1 ELSE 0)
    <3>1. PICK new : pings' = pings \cup {new} /\ new.job = j
      BY <2>4, PingDoes
    <3>2. \A p : PingOf(p)' <=> PingOf(p) \/ p = j.post BY <3>1 DEF PingOf
    <3>3. /\ j.post \in Posts /\ j.time \in Times /\ j.key \in Keys
          /\ j = JobOf(j.post, j.time, j.key)
      BY <2>2, JobParts
    <3> SUFFICES ASSUME NEW p \in Posts, p \notin leftover \cup disturbed,
                        posts[p].status # "deleted",
                        NEW t \in Times, NEW k \in Keys
                 PROVE  Surplus'[JobOf(p, t, k)]
                           <= IF k = LiveKey /\ p \in Scheduled /\ posts[p].at = t
                                 /\ ~PingOf(p) /\ p # j.post
                              THEN 1 ELSE 0
      BY <2>1, <3>2 DEF NoJobTooMany, Allowed, Scheduled, LiveKey, Idle
    <3>4. Surplus[JobOf(p, t, k)] <= Allowed(p, t, k) BY DEF NoJobTooMany
    <3>5. Surplus[JobOf(p, t, k)] \in Int /\ JobOf(p, t, k) \in Jobs BY <1>1
    <3>6. CASE p # j.post
      <4>1. JobOf(p, t, k) # j BY <3>3, <3>6, SameJob
      <4> QED BY <2>4, <3>4, <3>5, <3>6, <4>1 DEF Allowed
    <3>7. CASE p = j.post
      <4>1. Surplus[j] <= Allowed(p, j.time, j.key)
        BY <3>3, <3>7 DEF NoJobTooMany
      <4>2. Surplus[j] \in Int BY <2>2, SurplusIs
      <4>3. Allowed(p, j.time, j.key) # 0 BY <2>4, <4>1, <4>2
      <4>4. j.key = LiveKey /\ posts[p].at = j.time BY <4>3 DEF Allowed
      <4>5. CASE JobOf(p, t, k) = j
        <5>1. Surplus[j] <= 1 BY <4>1, <4>2 DEF Allowed
        <5> QED BY <2>2, <2>4, <3>7, <4>2, <4>5, <5>1
      <4>6. CASE JobOf(p, t, k) # j
        <5>1. Allowed(p, t, k) = 0 BY <3>3, <3>7, <4>4, <4>6 DEF Allowed
        <5> QED BY <2>4, <3>4, <3>5, <3>7, <4>6, <5>1
      <4> QED BY <4>5, <4>6
    <3> QED BY <3>6, <3>7
  <2> QED BY <1>4, <2>3, <2>4, FireJobs
<1>5. ASSUME NEW x \in pings, RequestOf(x) PROVE NoJobTooMany'
  <2>1. /\ UNCHANGED <<jobs, key, rotation, leftover>>
        /\ disturbed \subseteq disturbed'
        /\ \A y \in pings' : \E z \in pings : y.job = z.job
        /\ \A q \in Posts :
              \/ posts'[q] = posts[q]
              \/ /\ q = x.job.post /\ posts[q].status # "deleted"
                 /\ posts'[q].status = "published"
    BY <1>5, RequestDoes
  <2>2. Surplus' = Surplus BY <2>1, SameSurplus
  <2>3. \A p : PingOf(p)' => PingOf(p) BY <2>1 DEF PingOf
  <2> SUFFICES ASSUME NEW p \in Posts, p \notin leftover' \cup disturbed',
                      posts'[p].status # "deleted",
                      NEW t \in Times, NEW k \in Keys
               PROVE  Surplus[JobOf(p, t, k)]
                         <= IF k = LiveKey /\ posts'[p].status = "scheduled"
                               /\ posts'[p].at = t /\ ~PingOf(p)'
                            THEN 1 ELSE 0
    BY <2>1, <2>2 DEF NoJobTooMany, Allowed, Scheduled, LiveKey, Idle
  <2>4. posts[p].status # "deleted" BY <2>1
  <2>5. Surplus[JobOf(p, t, k)]
           <= IF k = LiveKey /\ posts[p].status = "scheduled"
                 /\ posts[p].at = t /\ ~PingOf(p)
              THEN 1 ELSE 0
    BY <2>1, <2>4 DEF NoJobTooMany, Allowed, Scheduled
  <2>6. Surplus[JobOf(p, t, k)] \in Int BY <1>1
  <2>7. CASE posts'[p] = posts[p] BY <2>3, <2>5, <2>6, <2>7
  <2>8. CASE posts'[p] # posts[p]
    <3>1. PingOf(p) BY <2>1, <2>8 DEF PingOf
    <3>2. Surplus[JobOf(p, t, k)] <= 0 BY <2>5, <3>1
    <3> QED BY <2>6, <3>2
  <2> QED BY <2>7, <2>8
<1>6. CASE Boot
  <2>1. UNCHANGED <<posts, pings, key, rotation>> /\ ~up
    BY <1>6 DEF Boot
  <2>2. (\A j \in Jobs : Surplus[j] = 0) /\ pings = {} /\ Idle
    BY <2>1 DEF DownIsEmpty
  <2>3. ASSUME NEW p \in Posts, NEW t \in Times, NEW k \in Keys
        PROVE  Surplus'[JobOf(p, t, k)] <= Allowed(p, t, k)
    <3>1. Surplus'[JobOf(p, t, k)] = Surplus[JobOf(p, t, k)]
             + (IF k = key /\ p \in Scheduled /\ t = posts[p].at THEN 1 ELSE 0)
      BY <1>6, BootJobs
    <3>2. ~PingOf(p) /\ LiveKey = key BY <2>2 DEF PingOf, LiveKey
    <3> QED BY <1>1, <2>2, <3>1, <3>2 DEF Allowed
  <2> QED BY <2>1, <2>3
    DEF NoJobTooMany, Allowed, Scheduled, Idle, LiveKey, PingOf
<1>7. CASE Load
  <2>1. /\ UNCHANGED <<jobs, posts, pings, key, disturbed, leftover>>
        /\ rotation.stage = "rotated" /\ rotation'.stage = "loaded"
    BY <1>7 DEF Load
  <2>2. Surplus' = Surplus BY <2>1, SameSurplus
  <2>3. ~Idle /\ rotation' # NoRotation BY <2>1 DEF Idle, NoRotation
  <2> QED BY <2>1, <2>2, <2>3
    DEF NoJobTooMany, Allowed, Scheduled, Idle, LiveKey, PingOf
<1>8. CASE Rotate
  <2>1. /\ UNCHANGED <<jobs, posts, pings, disturbed, leftover>>
        /\ key' = key + 1 /\ Idle /\ rotation'.stage = "rotated"
    BY <1>8 DEF Rotate
  <2>2. Surplus' = Surplus BY <2>1, SameSurplus
  <2>3. rotation' # NoRotation BY <2>1 DEF NoRotation
  <2>4. LiveKey' = LiveKey BY <1>0, <2>1, <2>3 DEF LiveKey, Idle
  <2> QED BY <2>1, <2>2, <2>4 DEF NoJobTooMany, Allowed, Scheduled, PingOf
<1>9. CASE Reissue
  <2>1. /\ UNCHANGED <<posts, pings, key, disturbed>>
        /\ rotation.stage = "loaded" /\ rotation' = NoRotation
        /\ leftover \subseteq leftover'
        /\ rotation.loaded \in SUBSET (Posts \X Times)
    BY <1>9 DEF Reissue, RotationTyped
  <2>2. ~Idle BY <2>1 DEF Idle, NoRotation
  <2>3. \A p \in Posts : \A s \in Times :
           <<p, s>> \in rotation.loaded /\ p \notin leftover'
              => p \in Scheduled /\ ~PingOf(p)
    <3> SUFFICES ASSUME NEW p \in Posts, NEW s \in Times,
                        <<p, s>> \in rotation.loaded, p \notin leftover'
                 PROVE  p \in Scheduled /\ ~PingOf(p)
      OBVIOUS
    <3>1. p \in {l[1] : l \in rotation.loaded}
      <4>1. p = <<p, s>>[1] OBVIOUS
      <4> QED BY <4>1
    <3> QED BY <1>9, <3>1 DEF Reissue, PingOf
  <2> SUFFICES ASSUME NEW p \in Posts, p \notin leftover' \cup disturbed,
                      posts[p].status # "deleted",
                      NEW t \in Times, NEW k \in Keys
               PROVE  Surplus'[JobOf(p, t, k)]
                         <= IF k = key /\ p \in Scheduled
                               /\ posts[p].at = t /\ ~PingOf(p)
                            THEN 1 ELSE 0
    BY <2>1 DEF NoJobTooMany, Allowed, Scheduled, LiveKey, Idle, PingOf
  <2>4. Surplus[JobOf(p, t, k)]
           <= IF k = key - 1 /\ p \in Scheduled /\ posts[p].at = t /\ ~PingOf(p)
              THEN 1 ELSE 0
    BY <2>1, <2>2 DEF NoJobTooMany, Allowed, LiveKey
  <2>5. Surplus'[JobOf(p, t, k)] = Surplus[JobOf(p, t, k)]
             + (IF k = key /\ <<p, t>> \in rotation.loaded THEN 1 ELSE 0)
             - (IF k = key - 1 /\ <<p, t>> \in rotation.loaded THEN 1 ELSE 0)
    BY <1>9, ReissueJobs
  <2>6. p \in Scheduled => (<<p, t>> \in rotation.loaded <=> t = posts[p].at)
    BY <2>1 DEF LoadedIsCurrent
  <2>7. <<p, t>> \in rotation.loaded => p \in Scheduled /\ ~PingOf(p) BY <2>3
  <2>8. Surplus[JobOf(p, t, k)] \in Int /\ k \in Nat /\ key \in Nat BY <1>0, <1>1
  <2>9. CASE <<p, t>> \in rotation.loaded
    <3>1. p \in Scheduled /\ ~PingOf(p) /\ posts[p].at = t BY <2>6, <2>7, <2>9
    <3>2. CASE k = key
      <4>1. Surplus'[JobOf(p, t, k)] = Surplus[JobOf(p, t, k)] + 1
            /\ Surplus[JobOf(p, t, k)] <= 0
        BY <2>4, <2>5, <2>8, <2>9, <3>2
      <4> QED BY <2>8, <3>1, <3>2, <4>1
    <3>3. CASE k = key - 1
      <4>1. Surplus'[JobOf(p, t, k)] = Surplus[JobOf(p, t, k)] - 1
            /\ Surplus[JobOf(p, t, k)] <= 1
        BY <2>4, <2>5, <2>8, <2>9, <3>1, <3>3
      <4> QED BY <2>8, <3>3, <4>1
    <3>4. CASE k # key /\ k # key - 1
      <4>1. Surplus'[JobOf(p, t, k)] = Surplus[JobOf(p, t, k)]
            /\ Surplus[JobOf(p, t, k)] <= 0
        BY <2>4, <2>5, <2>8, <3>4
      <4> QED BY <3>4, <4>1
    <3> QED BY <3>2, <3>3, <3>4
  <2>10. CASE <<p, t>> \notin rotation.loaded
    <3>1. Surplus'[JobOf(p, t, k)] = Surplus[JobOf(p, t, k)]
      BY <2>5, <2>8, <2>10
    <3>2. Surplus[JobOf(p, t, k)] <= 0 BY <2>4, <2>6, <2>10
    <3> QED BY <2>8, <3>1, <3>2
  <2> QED BY <2>9, <2>10
<1>10. CASE Crash
  <2>1. \A j \in Jobs : Surplus'[j] = 0 BY <1>10, CrashJobs
  <2>2. \A p \in Posts : \A t \in Times : \A k \in Keys :
           Surplus'[JobOf(p, t, k)] = 0
    BY <1>1, <2>1
  <2> QED BY <2>2 DEF NoJobTooMany, Allowed
<1>11. CASE UNCHANGED vars
  <2>1. Surplus' = Surplus BY <1>11, SameSurplus DEF vars
  <2> QED BY <1>11, <2>1
    DEF vars, NoJobTooMany, Allowed, Scheduled, Idle, LiveKey, PingOf
<1> QED BY <1>2, <1>3, <1>4, <1>5, <1>6, <1>7, <1>8, <1>9, <1>10, <1>11, Steps

-----------------------------------------------------------------------------
\* The invariant, and the properties of the schedule.
LEMMA JobsInit == Init => IInv
<1> SUFFICES ASSUME Init PROVE IInv OBVIOUS
<1>1. TypeOK /\ RotationTyped BY TypeInit
<1>2. \A j \in Jobs : Surplus[j] = 0
  <2>1. \A e : Copies(e, NoBag) = 0 BY EmptyBags
  <2>2. waiting = NoBag /\ sleeping = NoBag /\ tombstones = NoBag BY DEF Init
  <2> QED BY <1>1, <2>1, <2>2, SurplusIs
<1>3. \A p \in Posts : \A t \in Times : \A k \in Keys : JobOf(p, t, k) \in Jobs
  BY SameJob
<1>4. key \in Keys BY <1>1, Typed
<1>5. \A p \in Posts : posts[p].status = "draft" BY DEF Init
<1>6. up /\ pings = {} /\ rotation.stage = "none"
  BY DEF Init, NoRotation
<1>7. BagToSet(tombstones) = {}
  <2>1. BagToSet(SetToBag({})) = {} BY BagOfSet
  <2> QED BY <2>1 DEF Init, NoBag, EmptyBag
<1>8. EnoughJobs BY <1>2, <1>3, <1>4, <1>5 DEF EnoughJobs, Wanted, Scheduled
<1>9. NoJobTooMany BY <1>2, <1>3, <1>5 DEF NoJobTooMany, Allowed, Scheduled
<1> QED BY <1>1, <1>6, <1>7, <1>8, <1>9
  DEF IInv, JobsInv, DownIsEmpty, TombstonesOfKeys, LoadedIsCurrent,
      PingedIsNoDraft, CheckedIsDue

LEMMA JobsStep == IInv /\ [Next]_vars => IInv'
<1> SUFFICES ASSUME IInv, [Next]_vars PROVE IInv' OBVIOUS
<1> USE DEF IInv, JobsInv
<1>1. TypeOK' /\ RotationTyped' BY TypeStep
<1>2. DownIsEmpty' BY DownStep
<1>3. TombstonesOfKeys' BY TombstonesStep
<1>4. LoadedIsCurrent' BY LoadedStep
<1>5. EnoughJobs' BY EnoughStep
<1>6. NoJobTooMany' BY NoneStep
<1>7. PingedIsNoDraft' BY DraftStep
<1>8. CheckedIsDue' BY DueStep
<1> QED BY <1>1, <1>2, <1>3, <1>4, <1>5, <1>6, <1>7, <1>8

\* The copies of a job in the adapter's table and in its timers, less its
\* tombstones, are one for the live job of a scheduled post and none for any
\* other, at every step of authors, the loop, requests, crashes and rotations.
THEOREM Jobs_inductive == Spec => []IInv
<1> QED BY JobsInit, JobsStep, PTL DEF Spec

\* As long as its time has not come, a scheduled post has a job under the
\* current key that no tombstone will drop (the adapter's schedule, unschedule
\* and rescheduleAll), after any sequence of edits, restarts and rotations.
THEOREM ScheduledHasJob_holds == Spec => []ScheduledHasJob
<1>1. IInv => ScheduledHasJob
  <2> SUFFICES ASSUME IInv, up, Idle, NEW p \in Scheduled,
                      posts[p].at > now, p \notin disturbed
               PROVE  Outstanding(JobOf(p, posts[p].at, key)) >= 1
    BY DEF ScheduledHasJob
  <2>1. TypeOK /\ EnoughJobs BY DEF IInv, JobsInv
  <2>2. p \in Posts /\ posts[p].at \in Times /\ key \in Keys
    BY <2>1, Typed DEF Scheduled
  <2>3. Surplus[JobOf(p, posts[p].at, key)] >= Wanted(p, posts[p].at)
    BY <2>1, <2>2 DEF EnoughJobs
  <2>4. JobOf(p, posts[p].at, key) \in Jobs BY <2>2, SameJob
  <2>5. Surplus[JobOf(p, posts[p].at, key)]
          = Outstanding(JobOf(p, posts[p].at, key))
    BY <2>1, <2>4, SurplusIs
  <2> QED BY <2>3, <2>5 DEF Wanted
<1> QED BY <1>1, Jobs_inductive, PTL

\* A step by which the scheduler publishes a post is the save of a request that
\* had read the post and that no other save made stale.
LEMMA SchedulerSaves ==
  ASSUME TypeOK, [Next]_vars, NEW p \in Posts, SchedulerPublishes(p)
  PROVE  \E x \in pings : /\ x.job.post = p /\ x.stage = "checked" /\ x.fresh
<1>0. edits \in Nat BY SchedulingAssumption DEF TypeOK
<1>1. edits' = edits /\ posts'[p] # posts[p] BY DEF SchedulerPublishes
<1>2. CASE \E q \in Posts : AuthorOf(q)
  <2>1. edits' = edits + 1 BY <1>2, AuthorDoes
  <2> QED BY <1>0, <1>1, <2>1
<1>3. ASSUME NEW x \in pings, RequestOf(x)
      PROVE  /\ x.job.post = p /\ x.stage = "checked" /\ x.fresh
  <2>1. p = x.job.post BY <1>1, <1>3, RequestDoes
  <2>2. Publish(x) BY <1>1, <1>3 DEF RequestOf, Read, Fail, Busy
  <2> QED BY <1>1, <2>1, <2>2 DEF Publish, MaySave
<1>4. CASE \/ Tick \/ (\E j \in Due : Fire(j))
           \/ Boot \/ Load \/ Reissue \/ Crash \/ Rotate \/ UNCHANGED vars
  <2>1. posts' = posts
    BY <1>4 DEF Tick, Fire, Boot, Load, Reissue, Crash, Rotate, vars
  <2> QED BY <1>1, <2>1
<1> QED BY <1>2, <1>3, <1>4, Steps

\* The scheduler publishes a post at most five minutes before its date: the
\* date that post-scheduling.js reads in one query still stands when the post
\* is saved in a later one, or the save is refused.
THEOREM NeverEarly_holds == Spec => NeverEarly
<1> DEFINE Keeps == \A p \in Posts :
                       SchedulerPublishes(p) => posts[p].at - now <= Tolerance
<1>1. IInv /\ [Next]_vars => [Keeps]_vars
  <2> SUFFICES ASSUME IInv, [Next]_vars, NEW p \in Posts, SchedulerPublishes(p)
               PROVE  posts[p].at - now <= Tolerance
    OBVIOUS
  <2>1. PICK x \in pings : /\ x.job.post = p /\ x.stage = "checked" /\ x.fresh
    BY SchedulerSaves DEF IInv
  <2> QED BY <2>1 DEF IInv, JobsInv, CheckedIsDue
<1>2. [](IInv) /\ [][Next]_vars => [][Keeps]_vars BY <1>1, PTL
<1> QED BY <1>2, Jobs_inductive, PTL DEF Spec, NeverEarly

\* A post that an event made a draft again stays one, whatever dates it had in
\* between: its old job finds its tombstone (unschedule and _execute of the
\* adapter), and a request sent before it is refused.
THEOREM UnscheduledStaysDraft_holds == Spec => UnscheduledStaysDraft
<1> DEFINE Keeps == \A p \in Posts :
                       SchedulerPublishes(p) /\ posts[p].status = "draft"
                          => p \in leftover \cup disturbed
<1>1. IInv /\ [Next]_vars => [Keeps]_vars
  <2> SUFFICES ASSUME IInv, [Next]_vars, NEW p \in Posts, SchedulerPublishes(p),
                      posts[p].status = "draft"
               PROVE  p \in leftover \cup disturbed
    OBVIOUS
  <2>1. PICK x \in pings : x.job.post = p BY SchedulerSaves DEF IInv
  <2> QED BY <2>1 DEF IInv, JobsInv, PingedIsNoDraft
<1>2. [](IInv) /\ [][Next]_vars => [][Keeps]_vars BY <1>1, PTL
<1> QED BY <1>2, Jobs_inductive, PTL DEF Spec, UnscheduledStaysDraft
=============================================================================
