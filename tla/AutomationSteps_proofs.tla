----------------------- MODULE AutomationSteps_proofs -----------------------
(* Proofs about AutomationSteps, for every set of runs, processes and      *)
(* actions, every batch size, number of attempts and delay, and however    *)
(* often each fault happens.                                               *)
EXTENDS AutomationSteps, FiniteSetTheorems, SequenceTheorems,
        FunctionTheorems, WellFoundedInduction, TLAPS

\* The path has every action once, so an action has at most one follower.
Typed == TypeOK /\ IsInjective(path)

RowsTyped == steps \in [Runs -> Seq(RowType)]

-----------------------------------------------------------------------------
\* Dates, and the least of a set of dates.
LEMMA Dates ==
  /\ MaxAhead \in Nat /\ Never = MaxAhead + 1
  /\ RetryDelay \in 1..MaxAhead /\ WaitTime \in 1..MaxAhead
  /\ \A a : ReadyIn(a) \in 0..MaxAhead
<1>1. RetryDelay \in Nat \ {0} /\ WaitTime \in Nat \ {0} BY AutomationAssumption
<1>2. \E x \in {RetryDelay, WaitTime} : \A y \in {RetryDelay, WaitTime} : x >= y
  BY <1>1
<1>3. /\ MaxAhead \in {RetryDelay, WaitTime}
      /\ \A y \in {RetryDelay, WaitTime} : MaxAhead >= y
  BY <1>2 DEF MaxAhead, Max
<1> QED BY <1>1, <1>3 DEF Never, ReadyIn

LEMMA MinIs ==
  ASSUME NEW S \in SUBSET Nat, S # {}
  PROVE  Min(S) \in S /\ \A y \in S : Min(S) <= y
<1> DEFINE R == OpToRel(<, Nat)
<1>1. \E x \in S : \A y \in S : ~ (<<y, x>> \in R)
  BY NatLessThanWellFounded, WFMin
<1>2. \A x, y \in Nat : ~ (<<y, x>> \in R) => x <= y
  BY DEF OpToRel
<1>3. \E x \in S : \A y \in S : x <= y
  BY <1>1, <1>2
<1> QED BY <1>3 DEF Min

LEMMA PassedIs ==
  /\ \A t \in 0..MaxAhead : Passed(t) \in 0..MaxAhead
  /\ \A t \in 0..Never : Passed(t) \in 0..Never
  /\ \A t, u \in 0..Never : t <= u => Passed(t) <= Passed(u)
  BY Dates DEF Passed

-----------------------------------------------------------------------------
\* The rows and their ids.
IdsOf(s) == UNION {{r} \X DOMAIN s[r] : r \in Runs}

LEMMA IdsAre ==
  ASSUME NEW s \in [Runs -> Seq(RowType)]
  PROVE  /\ \A r \in Runs : \A i \in 1..Len(s[r]) : <<r, i>> \in IdsOf(s)
         /\ \A id \in IdsOf(s) : /\ id[1] \in Runs /\ id[2] \in 1..Len(s[id[1]])
                                 /\ id = <<id[1], id[2]>>
                                 /\ s[id[1]][id[2]] \in RowType
<1>1. \A r \in Runs : /\ s[r] \in Seq(RowType)
                      /\ DOMAIN s[r] = 1..Len(s[r])
                      /\ \A i \in 1..Len(s[r]) : s[r][i] \in RowType
  OBVIOUS
<1>2. ASSUME NEW id \in IdsOf(s)
      PROVE  /\ id[1] \in Runs /\ id[2] \in 1..Len(s[id[1]])
             /\ id = <<id[1], id[2]>> /\ s[id[1]][id[2]] \in RowType
  <2>1. PICK r \in Runs : id \in {r} \X DOMAIN s[r]
    BY DEF IdsOf
  <2> QED BY <1>1, <2>1
<1>3. ASSUME NEW r \in Runs, NEW i \in 1..Len(s[r])
      PROVE  <<r, i>> \in IdsOf(s)
  <2>1. <<r, i>> \in {r} \X DOMAIN s[r] BY <1>1
  <2>2. {r} \X DOMAIN s[r] \in {{q} \X DOMAIN s[q] : q \in Runs} OBVIOUS
  <2> QED BY <2>1, <2>2 DEF IdsOf
<1> QED BY <1>2, <1>3

LEMMA RowIdsAre ==
  ASSUME RowsTyped
  PROVE  /\ \A r \in Runs : \A i \in 1..Len(steps[r]) : <<r, i>> \in RowIds
         /\ \A id \in RowIds : /\ id[1] \in Runs /\ id[2] \in 1..Len(steps[id[1]])
                               /\ id = <<id[1], id[2]>>
                               /\ RowOf(id) \in RowType
<1>1. RowIds = IdsOf(steps) BY DEF RowIds, IdsOf
<1> QED BY <1>1, IdsAre DEF RowsTyped, RowOf, Row

LEMMA RowIdsPrimed ==
  RowsTyped' =>
    /\ \A r \in Runs : \A i \in 1..Len(steps'[r]) : <<r, i>> \in RowIds'
    /\ \A id \in RowIds' : /\ id[1] \in Runs /\ id[2] \in 1..Len(steps'[id[1]])
                           /\ id = <<id[1], id[2]>>
                           /\ RowOf(id)' \in RowType
<1>1. RowIds' = IdsOf(steps') BY DEF RowIds, IdsOf
<1> QED BY <1>1, IdsAre DEF RowsTyped, RowOf, Row

LEMMA FinitelyMany == ASSUME RowsTyped PROVE IsFiniteSet(RowIds)
<1> DEFINE Of(r) == {r} \X DOMAIN steps[r]
<1>1. ASSUME NEW r \in Runs PROVE IsFiniteSet(Of(r))
  <2>1. DOMAIN steps[r] = 1..Len(steps[r]) /\ Len(steps[r]) \in Nat BY DEF RowsTyped
  <2>2. IsFiniteSet(DOMAIN steps[r]) BY <2>1, FS_Interval
  <2>3. IsFiniteSet({r}) BY FS_Singleton
  <2> QED BY <2>2, <2>3, FS_Product
<1>2. IsFiniteSet({Of(r) : r \in Runs})
  <2> DEFINE T == {Of(r) : r \in Runs}
             f == [r \in Runs |-> Of(r)]
  <2>1. f \in [Runs -> T] /\ \A t \in T : \E r \in Runs : f[r] = t OBVIOUS
  <2> HIDE DEF f, T
  <2>2. f \in Surjection(Runs, T) BY <2>1, Fun_IsSurj
  <2>3. IsFiniteSet(T) BY <2>2, FS_Surjection, AutomationAssumption
  <2> QED BY <2>3 DEF T
<1> QED BY <1>1, <1>2, FS_UNION DEF RowIds

-----------------------------------------------------------------------------
(* What the operations do to the rows: some change every row in place, the *)
(* others at most one, and to that run a row may be added.                 *)
SameIds ==
    /\ RowsTyped' /\ RowIds' = RowIds
    /\ \A r \in Runs : Len(steps'[r]) = Len(steps[r])

OnlyRow(id) == SameIds /\ \A j \in RowIds \ {id} : RowOf(j)' = RowOf(j)

LEMMA IsSeq ==
  ASSUME NEW S, NEW n \in Nat, NEW s \in [1..n -> S]
  PROVE  s \in Seq(S) /\ Len(s) = n
<1>1. s \in Seq(S) BY SeqDef
<1>2. Len(s) \in Nat /\ 1..Len(s) = 1..n BY <1>1, LenProperties
<1> QED BY <1>1, <1>2

LEMMA RowsMapped ==
  ASSUME RowsTyped, NEW f, \A id \in RowIds : f[id] \in RowType,
         steps' = [r \in Runs |-> [i \in DOMAIN steps[r] |-> f[<<r, i>>]]]
  PROVE  SameIds /\ \A id \in RowIds : RowOf(id)' = f[id]
<1>1. ASSUME NEW r \in Runs
      PROVE  /\ steps'[r] \in Seq(RowType) /\ Len(steps'[r]) = Len(steps[r])
             /\ DOMAIN steps'[r] = DOMAIN steps[r]
             /\ \A i \in 1..Len(steps[r]) : steps'[r][i] = f[<<r, i>>]
  <2>1. DOMAIN steps[r] = 1..Len(steps[r]) /\ Len(steps[r]) \in Nat BY DEF RowsTyped
  <2>2. steps'[r] = [i \in 1..Len(steps[r]) |-> f[<<r, i>>]] BY <2>1
  <2>3. \A i \in 1..Len(steps[r]) : f[<<r, i>>] \in RowType BY RowIdsAre
  <2>4. steps'[r] \in [1..Len(steps[r]) -> RowType] BY <2>2, <2>3
  <2>5. steps'[r] \in Seq(RowType) BY <2>1, <2>4, IsSeq
  <2>6. DOMAIN steps'[r] = 1..Len(steps[r]) BY <2>2
  <2>7. Len(steps'[r]) = Len(steps[r]) BY <2>1, <2>4, IsSeq
  <2> QED BY <2>1, <2>2, <2>5, <2>6, <2>7
<1>2. RowsTyped' BY <1>1 DEF RowsTyped
<1>3. RowIds' = RowIds
  <2>1. \A r \in Runs : {r} \X DOMAIN steps'[r] = {r} \X DOMAIN steps[r] BY <1>1
  <2>2. {{r} \X DOMAIN steps'[r] : r \in Runs} = {{r} \X DOMAIN steps[r] : r \in Runs}
    BY <2>1
  <2> QED BY <2>2 DEF RowIds
<1>4. ASSUME NEW id \in RowIds PROVE RowOf(id)' = f[id]
  <2>1. id[1] \in Runs /\ id[2] \in 1..Len(steps[id[1]]) /\ id = <<id[1], id[2]>>
    BY RowIdsAre
  <2> QED BY <1>1, <2>1 DEF RowOf, Row
<1> QED BY <1>1, <1>2, <1>3, <1>4 DEF SameIds

LEMMA RowSet ==
  ASSUME RowsTyped, NEW id \in RowIds, NEW row \in RowType, steps' = SetRow(id, row)
  PROVE  OnlyRow(id) /\ RowOf(id)' = row
<1> DEFINE f == [j \in RowIds |-> IF j = id THEN row ELSE RowOf(j)]
<1>1. \A j \in RowIds : f[j] \in RowType BY RowIdsAre
<1>2. id[1] \in Runs /\ id[2] \in DOMAIN steps[id[1]] /\ id = <<id[1], id[2]>>
  BY RowIdsAre DEF RowsTyped
<1>3. ASSUME NEW r \in Runs
      PROVE  steps'[r] = [i \in DOMAIN steps[r] |-> f[<<r, i>>]]
  <2>1. /\ DOMAIN steps[r] = 1..Len(steps[r])
        /\ steps[r] = [i \in DOMAIN steps[r] |-> steps[r][i]]
    BY DEF RowsTyped
  <2>2. \A i \in DOMAIN steps[r] : <<r, i>> \in RowIds /\ RowOf(<<r, i>>) = steps[r][i]
    BY <2>1, RowIdsAre DEF RowOf, Row
  <2>3. \A i \in DOMAIN steps[r] :
          f[<<r, i>>] = IF <<r, i>> = id THEN row ELSE steps[r][i]
    BY <2>2
  <2> HIDE DEF f
  <2>4. steps'[r] = IF r = id[1] THEN [steps[r] EXCEPT ![id[2]] = row] ELSE steps[r]
    BY <1>2 DEF SetRow, RowsTyped
  <2>5. CASE r = id[1]
    <3>1. [steps[r] EXCEPT ![id[2]] = row]
             = [i \in DOMAIN steps[r] |-> IF i = id[2] THEN row ELSE steps[r][i]]
      BY <1>2, <2>5, <2>1
    <3>2. \A i \in DOMAIN steps[r] : f[<<r, i>>] = IF i = id[2] THEN row ELSE steps[r][i]
      BY <1>2, <2>3, <2>5
    <3> QED BY <2>4, <2>5, <3>1, <3>2
  <2>6. CASE r # id[1]
    <3>1. \A i \in DOMAIN steps[r] : f[<<r, i>>] = steps[r][i] BY <1>2, <2>3, <2>6
    <3> QED BY <2>1, <2>4, <2>6, <3>1
  <2> QED BY <2>5, <2>6
<1>4. steps' = [r \in Runs |-> [i \in DOMAIN steps[r] |-> f[<<r, i>>]]]
  <2>1. steps' = [r \in Runs |-> steps'[r]] BY DEF SetRow, RowsTyped
  <2> QED BY <1>3, <2>1
<1>5. SameIds /\ \A j \in RowIds : RowOf(j)' = f[j]
  <2> HIDE DEF f
  <2> QED BY <1>1, <1>4, RowsMapped
<1> QED BY <1>5 DEF OnlyRow

\* The rows that the operations write.
LEMMA RowsWritten ==
  /\ \A a \in Actions : NewRow(a) \in RowType
  /\ \A row \in RowType :
       /\ \A status \in Terminal : [Unlock(row) EXCEPT !.status = status] \in RowType
       /\ Retried(row) \in RowType
       /\ \A p \in Processes : Lock(row, p) \in RowType
       /\ [row EXCEPT !.sends = @ + 1] \in RowType
       /\ Older(row) \in RowType
<1>1. ASSUME NEW a \in Actions PROVE NewRow(a) \in RowType
  <2>1. ReadyIn(a) \in 0..MaxAhead /\ LockTimeout \in Nat
    BY Dates, AutomationAssumption
  <2> QED BY <2>1 DEF NewRow, RowType
<1>2. ASSUME NEW row \in RowType
      PROVE  /\ \A status \in Terminal : [Unlock(row) EXCEPT !.status = status] \in RowType
             /\ Retried(row) \in RowType
             /\ \A p \in Processes : Lock(row, p) \in RowType
             /\ [row EXCEPT !.sends = @ + 1] \in RowType
  <2>1. RetryDelay \in 0..MaxAhead /\ 0 \in 0..(LockTimeout + 1)
    BY Dates, AutomationAssumption
  <2>2. Unlock(row) \in RowType BY <2>1 DEF RowType, Unlock
  <2>3. \A status \in Terminal : [Unlock(row) EXCEPT !.status = status] \in RowType
    BY <2>2 DEF RowType
  <2>4. Retried(row) \in RowType BY <2>1, <2>2 DEF RowType, Retried
  <2>5. ASSUME NEW p \in Processes PROVE Lock(row, p) \in RowType
    <3> DEFINE n == row.attempts + 1
    <3>1. n \in Nat BY DEF RowType
    <3>2. Lock(row, p) = [row EXCEPT !.lock = p, !.lockAge = 0, !.attempts = n] BY DEF Lock
    <3> HIDE DEF n
    <3> QED BY <2>1, <3>1, <3>2 DEF RowType
  <2>6. [row EXCEPT !.sends = @ + 1] \in RowType BY DEF RowType
  <2> QED BY <2>3, <2>4, <2>5, <2>6
<1>3. ASSUME NEW row \in RowType PROVE Older(row) \in RowType
  <2> DEFINE age == IF row.lock = NoProcess THEN 0 ELSE Earlier(row.lockAge + 1, OldestLock)
  <2>1. LockTimeout \in Nat /\ OldestLock \in {LockTimeout, LockTimeout + 1}
    BY AutomationAssumption DEF OldestLock
  <2>2. row.lockAge \in 0..(LockTimeout + 1) /\ row.readyIn \in 0..MaxAhead BY DEF RowType
  <2>3. age \in 0..(LockTimeout + 1) BY <2>1, <2>2 DEF Earlier
  <2>4. Passed(row.readyIn) \in 0..MaxAhead BY <2>2, PassedIs
  <2>5. Older(row) = [row EXCEPT !.readyIn = Passed(row.readyIn), !.lockAge = age]
    BY DEF Older, RowType
  <2> HIDE DEF age
  <2> QED BY <2>3, <2>4, <2>5 DEF RowType
<1> QED BY <1>1, <1>2, <1>3

LEMMA TerminatedIs ==
  ASSUME RowsTyped, NEW p \in Processes, NEW id \in RowIds, NEW status \in Terminal,
         steps' = Terminated(p, id, status)
  PROVE  /\ OnlyRow(id)
         /\ Owns(RowOf(id), p) => RowOf(id)' = [Unlock(RowOf(id)) EXCEPT !.status = status]
         /\ ~Owns(RowOf(id), p) => RowOf(id)' = RowOf(id)
<1>1. RowOf(id) \in RowType BY RowIdsAre
<1>2. CASE Owns(RowOf(id), p)
  <2> DEFINE row == [Unlock(RowOf(id)) EXCEPT !.status = status]
  <2>1. steps' = SetRow(id, row) /\ row \in RowType
    BY <1>1, <1>2, RowsWritten DEF Terminated
  <2> HIDE DEF row
  <2>2. OnlyRow(id) /\ RowOf(id)' = row BY <2>1, RowSet
  <2> QED BY <1>2, <2>2 DEF row
<1>3. CASE ~Owns(RowOf(id), p)
  BY <1>3 DEF Terminated, OnlyRow, SameIds, RowsTyped, RowIds, RowOf, Row
<1> QED BY <1>2, <1>3

LEMMA FailureIs ==
  ASSUME RowsTyped, NEW p \in Processes, NEW w, w.id \in RowIds, w.attempts \in Nat,
         steps' = Failure(p, w)
  PROVE  /\ OnlyRow(w.id)
         /\ WillRetry(p, w) => RowOf(w.id)' = Retried(RowOf(w.id))
         /\ Owns(RowOf(w.id), p) /\ ~WillRetry(p, w) =>
              RowOf(w.id)' = [Unlock(RowOf(w.id)) EXCEPT !.status = "failed"]
         /\ ~Owns(RowOf(w.id), p) => RowOf(w.id)' = RowOf(w.id)
<1>1. RowOf(w.id) \in RowType BY RowIdsAre
<1>2. CASE w.attempts >= MaxAttempts
  <2>1. "failed" \in Terminal BY DEF Terminal
  <2>2. ~WillRetry(p, w) BY <1>2, AutomationAssumption DEF WillRetry
  <2>3. steps' = Terminated(p, w.id, "failed") BY <1>2 DEF Failure
  <2> QED BY <2>1, <2>2, <2>3, TerminatedIs
<1>3. CASE ~(w.attempts >= MaxAttempts) /\ Owns(RowOf(w.id), p)
  <2> DEFINE row == Retried(RowOf(w.id))
  <2>1. steps' = SetRow(w.id, row) /\ row \in RowType
    BY <1>1, <1>3, RowsWritten DEF Failure
  <2>2. WillRetry(p, w) BY <1>3, AutomationAssumption DEF WillRetry
  <2> HIDE DEF row
  <2>3. OnlyRow(w.id) /\ RowOf(w.id)' = row BY <2>1, RowSet
  <2> QED BY <1>3, <2>2, <2>3 DEF row
<1>4. CASE ~(w.attempts >= MaxAttempts) /\ ~Owns(RowOf(w.id), p)
  <2>1. steps' = steps /\ ~WillRetry(p, w) BY <1>4 DEF Failure, WillRetry
  <2> QED BY <1>4, <2>1 DEF OnlyRow, SameIds, RowsTyped, RowIds, RowOf, Row
<1> QED BY <1>2, <1>3, <1>4

\* finishStepAndEnqueueNext: the row that is finished, and the one that follows.
LEMMA OneFollows ==
  ASSUME Typed, NEW a
  PROVE  /\ NextAction(a) \subseteq Actions
         /\ \A b, c \in NextAction(a) : b = c
<1>1. /\ Len(path) \in Nat /\ DOMAIN path = 1..Len(path)
      /\ \A i \in 1..Len(path) : path[i] \in Actions
  BY DEF Typed, TypeOK
<1>2. \A i, j \in 1..Len(path) : path[i] = path[j] => i = j
  BY <1>1 DEF Typed, IsInjective
<1>3. \A b \in NextAction(a) : \E i \in 1..(Len(path) - 1) : path[i] = a /\ b = path[i + 1]
  BY DEF NextAction
<1>4. \A i \in 1..(Len(path) - 1) : i \in 1..Len(path) /\ i + 1 \in 1..Len(path)
  BY <1>1
<1>5. NextAction(a) \subseteq Actions BY <1>1, <1>3, <1>4
<1>6. ASSUME NEW b \in NextAction(a), NEW c \in NextAction(a) PROVE b = c
  <2>1. PICK i \in 1..(Len(path) - 1) : path[i] = a /\ b = path[i + 1] BY <1>3
  <2>2. PICK j \in 1..(Len(path) - 1) : path[j] = a /\ c = path[j + 1] BY <1>3
  <2>3. i = j BY <1>2, <1>4, <2>1, <2>2
  <2> QED BY <2>1, <2>2, <2>3
<1> QED BY <1>5, <1>6

LEMMA SeqOfOne ==
  ASSUME NEW S, \A x, y \in S : x = y
  PROVE  /\ SetToSeq(S) \in Seq(S)
         /\ Len(SetToSeq(S)) \in {0, 1}
         /\ S # {} => Len(SetToSeq(S)) = 1
<1>1. CASE S = {}
  <2>1. Cardinality(S) = 0 BY <1>1, FS_EmptySet
  <2>2. << >> \in [1..0 -> S] /\ IsInjective(<< >>) BY DEF IsInjective
  <2>3. SetToSeq(S) \in [1..0 -> S] BY <2>1, <2>2 DEF SetToSeq
  <2> QED BY <1>1, <2>3, IsSeq
<1>2. CASE S # {}
  <2>1. PICK x : S = {x} BY <1>2
  <2>2. Cardinality(S) = 1 BY <2>1, FS_Singleton
  <2>3. <<x>> \in [1..1 -> S] BY <2>1
  <2>4. IsInjective(<<x>>) BY DEF IsInjective
  <2>5. SetToSeq(S) \in [1..1 -> S] BY <2>2, <2>3, <2>4 DEF SetToSeq
  <2> QED BY <1>2, <2>5, IsSeq
<1> QED BY <1>1, <1>2

LEMMA TerminatedRows ==
  ASSUME RowsTyped, NEW p \in Processes, NEW id \in RowIds, NEW status \in Terminal,
         Owns(RowOf(id), p)
  PROVE  LET rows == Terminated(p, id, status) IN
         /\ rows \in [Runs -> Seq(RowType)]
         /\ \A r \in Runs : Len(rows[r]) = Len(steps[r])
         /\ rows[id[1]][id[2]] = [Unlock(RowOf(id)) EXCEPT !.status = status]
         /\ \A j \in RowIds \ {id} : rows[j[1]][j[2]] = RowOf(j)
<1> DEFINE row == [Unlock(RowOf(id)) EXCEPT !.status = status]
           rows == Terminated(p, id, status)
           r == id[1]
           i == id[2]
<1>1. r \in Runs /\ i \in 1..Len(steps[r]) /\ id = <<r, i>> /\ row \in RowType
  BY RowIdsAre, RowsWritten
<1>2. rows = [steps EXCEPT ![r] = [steps[r] EXCEPT ![i] = row]]
  BY DEF Terminated, SetRow
<1> HIDE DEF row, rows, r, i
<1>3. /\ [steps[r] EXCEPT ![i] = row] \in Seq(RowType)
      /\ Len([steps[r] EXCEPT ![i] = row]) = Len(steps[r])
      /\ \A k \in 1..Len(steps[r]) :
           [steps[r] EXCEPT ![i] = row][k] = IF k = i THEN row ELSE steps[r][k]
  BY <1>1, ExceptSeq DEF RowsTyped
<1>4. /\ rows \in [Runs -> Seq(RowType)]
      /\ rows[r] = [steps[r] EXCEPT ![i] = row]
      /\ \A q \in Runs \ {r} : rows[q] = steps[q]
  BY <1>1, <1>2, <1>3 DEF RowsTyped
<1>5. \A q \in Runs : Len(rows[q]) = Len(steps[q]) BY <1>3, <1>4
<1>6. rows[r][i] = row BY <1>1, <1>3, <1>4
<1>7. ASSUME NEW j \in RowIds \ {id} PROVE rows[j[1]][j[2]] = RowOf(j)
  <2>1. j[1] \in Runs /\ j[2] \in 1..Len(steps[j[1]]) /\ j = <<j[1], j[2]>>
    BY RowIdsAre
  <2>2. j[1] # r \/ j[2] # i BY <1>1, <2>1
  <2> QED BY <1>3, <1>4, <2>1, <2>2 DEF RowOf, Row
<1> QED BY <1>4, <1>5, <1>6, <1>7 DEF rows, row, r, i

LEMMA FollowersAre ==
  ASSUME Typed, NEW p \in Processes, NEW id \in RowIds
  PROVE  LET tail == SetToSeq({NewRow(a) : a \in Following(p, id)}) IN
         /\ Following(p, id) \subseteq Actions
         /\ tail \in Seq(RowType) /\ Len(tail) \in {0, 1}
         /\ Len(tail) = 1 => \E a \in Following(p, id) : tail[1] = NewRow(a)
<1> DEFINE new == {NewRow(a) : a \in Following(p, id)}
           tail == SetToSeq(new)
<1>1. Following(p, id) \subseteq Actions /\ \A b, c \in Following(p, id) : b = c
  BY OneFollows DEF Following
<1>2. new \subseteq RowType /\ \A x, y \in new : x = y BY <1>1, RowsWritten
<1> HIDE DEF new
<1>3. tail \in Seq(new) /\ Len(tail) \in {0, 1} BY <1>2, SeqOfOne
<1> HIDE DEF tail
<1>4. tail \in Seq(RowType) BY <1>2, <1>3
<1>5. Len(tail) = 1 => tail[1] \in new BY <1>3
<1> QED BY <1>1, <1>3, <1>4, <1>5 DEF tail, new

\* A run that gets one more row, and one of its rows that is finished.
Finishes(p, id) ==
    /\ RowsTyped'
    /\ \A j \in RowIds : j \in RowIds'
    /\ \A j \in RowIds \ {id} : RowOf(j)' = RowOf(j)
    /\ RowOf(id)' = [Unlock(RowOf(id)) EXCEPT !.status = "finished"]
    /\ \A r \in Runs \ {id[1]} : Len(steps'[r]) = Len(steps[r])
    /\ Len(steps'[id[1]]) \in {Len(steps[id[1]]), Len(steps[id[1]]) + 1}
    /\ \A j \in RowIds' : j \notin RowIds =>
         \E a \in Following(p, id) : RowOf(j)' = NewRow(a)

LEMMA FinishedIs ==
  ASSUME Typed, NEW p \in Processes, NEW id \in RowIds, steps' = Finished(p, id)
  PROVE  /\ Owns(RowOf(id), p) => Finishes(p, id)
         /\ ~Owns(RowOf(id), p) => OnlyRow(id) /\ RowOf(id)' = RowOf(id)
         /\ RowsTyped' /\ \A j \in RowIds : j \in RowIds'
<1> DEFINE rows == Terminated(p, id, "finished")
           tail == SetToSeq({NewRow(a) : a \in Following(p, id)})
           r == id[1]
<1>0. RowsTyped BY DEF Typed, TypeOK, RowsTyped
<1>1. /\ tail \in Seq(RowType) /\ Len(tail) \in {0, 1}
      /\ Len(tail) = 1 => \E a \in Following(p, id) : tail[1] = NewRow(a)
  BY FollowersAre
<1>2. r \in Runs BY <1>0, RowIdsAre
<1>3. steps' = [rows EXCEPT ![r] = rows[r] \o tail] BY DEF Finished
<1>4. CASE Owns(RowOf(id), p)
  <2>1. "finished" \in Terminal BY DEF Terminal
  <2>2. /\ rows \in [Runs -> Seq(RowType)]
        /\ \A q \in Runs : Len(rows[q]) = Len(steps[q])
        /\ rows[id[1]][id[2]] = [Unlock(RowOf(id)) EXCEPT !.status = "finished"]
        /\ \A j \in RowIds \ {id} : rows[j[1]][j[2]] = RowOf(j)
    BY <1>0, <1>4, <2>1, TerminatedRows
  <2> HIDE DEF rows, tail
  <2>3. /\ rows[r] \o tail \in Seq(RowType)
        /\ Len(rows[r] \o tail) = Len(rows[r]) + Len(tail)
        /\ \A i \in 1..Len(rows[r]) + Len(tail) : (rows[r] \o tail)[i] =
             IF i <= Len(rows[r]) THEN rows[r][i] ELSE tail[i - Len(rows[r])]
    BY <1>1, <1>2, <2>2, ConcatProperties
  <2>4. /\ steps' \in [Runs -> Seq(RowType)]
        /\ steps'[r] = rows[r] \o tail
        /\ \A q \in Runs \ {r} : steps'[q] = rows[q]
    BY <1>2, <1>3, <2>2, <2>3
  <2>5. RowsTyped' BY <2>4 DEF RowsTyped
  <2>61. Len(steps[r]) \in Nat BY <1>0, <1>2 DEF RowsTyped
  <2>62. \A q \in Runs \ {r} : Len(steps'[q]) = Len(steps[q]) BY <2>2, <2>4
  <2>63. Len(steps'[r]) = Len(steps[r]) + Len(tail)
    <3>1. Len(rows[r]) = Len(steps[r]) BY <1>2, <2>2
    <3>2. Len(steps'[r]) = Len(rows[r] \o tail) BY <2>4
    <3> QED BY <2>3, <3>1, <3>2
  <2>6. /\ \A q \in Runs \ {r} : Len(steps'[q]) = Len(steps[q])
        /\ Len(steps'[r]) = Len(steps[r]) + Len(tail)
        /\ Len(steps[r]) \in Nat
    BY <2>61, <2>62, <2>63
  <2>7. \A q \in Runs : \A i \in 1..Len(steps[q]) :
          i \in 1..Len(steps'[q]) /\ steps'[q][i] = rows[q][i]
    <3> SUFFICES ASSUME NEW q \in Runs, NEW i \in 1..Len(steps[q])
                 PROVE  i \in 1..Len(steps'[q]) /\ steps'[q][i] = rows[q][i]
      OBVIOUS
    <3>1. CASE q = r BY <1>1, <2>2, <2>3, <2>4, <2>6, <3>1
    <3>2. CASE q # r BY <2>2, <2>4, <2>6, <3>2
    <3> QED BY <3>1, <3>2
  <2>8. ASSUME NEW j \in RowIds
        PROVE  j \in RowIds' /\ RowOf(j)' = rows[j[1]][j[2]]
    <3>1. j[1] \in Runs /\ j[2] \in 1..Len(steps[j[1]]) /\ j = <<j[1], j[2]>>
      BY <1>0, RowIdsAre
    <3> QED BY <2>5, <2>7, <3>1, RowIdsPrimed DEF RowOf, Row
  <2>9. ASSUME NEW j \in RowIds', j \notin RowIds
        PROVE  \E a \in Following(p, id) : RowOf(j)' = NewRow(a)
    <3>1. j[1] \in Runs /\ j[2] \in 1..Len(steps'[j[1]]) /\ j = <<j[1], j[2]>>
      BY <2>5, RowIdsPrimed
    <3>2. ~(j[2] \in 1..Len(steps[j[1]])) BY <1>0, <2>9, <3>1, RowIdsAre
    <3>3. j[1] = r BY <2>6, <3>1, <3>2
    <3> DEFINE n == Len(steps[r])
               m == Len(tail)
               i == j[2]
    <3>4. n \in Nat /\ m \in {0, 1} /\ i \in 1..(n + m) /\ ~(i \in 1..n)
      BY <1>1, <2>6, <3>1, <3>2, <3>3
    <3>5. Len(rows[r]) = n BY <1>2, <2>2
    <3> HIDE DEF n, m, i
    <3>6. m = 1 /\ i = n + 1 BY <3>4
    <3>7. (rows[r] \o tail)[i] = IF i <= Len(rows[r]) THEN rows[r][i] ELSE tail[i - Len(rows[r])]
      BY <2>3, <3>4, <3>5 DEF m
    <3>8. steps'[r][i] = tail[1] BY <2>4, <3>4, <3>5, <3>6, <3>7
    <3>9. steps'[r][j[2]] = tail[1] /\ Len(tail) = 1 BY <3>6, <3>8 DEF m, i
    <3> QED BY <1>1, <3>3, <3>9 DEF RowOf, Row
  <2>10. Len(steps'[r]) \in {Len(steps[r]), Len(steps[r]) + 1}
    <3>1. CASE Len(tail) = 0 BY <2>6, <3>1
    <3>2. CASE Len(tail) = 1 BY <2>6, <3>2
    <3> QED BY <1>1, <3>1, <3>2
  <2>11. Finishes(p, id) BY <1>0, <2>2, <2>5, <2>62, <2>8, <2>9, <2>10 DEF Finishes
  <2> QED BY <1>4, <2>5, <2>8, <2>11
<1>5. CASE ~Owns(RowOf(id), p)
  <2>1. Following(p, id) = {} /\ rows = steps
    BY <1>5 DEF Following, DidFinish, Terminated
  <2>2. Len(tail) = 0 BY <1>1, <2>1
  <2>3. tail = << >> BY <1>1, <2>2
  <2> HIDE DEF tail, rows
  <2>4. steps[r] \o tail = steps[r] BY <1>0, <1>2, <2>3, ConcatEmptySeq DEF RowsTyped
  <2>5. steps' = steps BY <1>0, <1>2, <1>3, <2>1, <2>4 DEF RowsTyped
  <2> QED BY <1>0, <1>5, <2>5 DEF OnlyRow, SameIds, RowsTyped, RowIds, RowOf, Row
<1> QED BY <1>4, <1>5 DEF Finishes, OnlyRow, SameIds

\* Locks and the passage of time change the rows in place.
LEMMA LockedIs ==
  ASSUME RowsTyped, NEW p \in Processes, NEW ids \in SUBSET RowIds,
         steps' = LockAll(p, ids)
  PROVE  /\ SameIds
         /\ \A id \in RowIds :
              RowOf(id)' = IF id \in ids THEN Lock(RowOf(id), p) ELSE RowOf(id)
<1> DEFINE f == [id \in RowIds |-> IF id \in ids THEN Lock(RowOf(id), p) ELSE RowOf(id)]
<1>1. \A id \in RowIds : f[id] \in RowType BY RowIdsAre, RowsWritten
<1>2. \A r \in Runs : DOMAIN steps[r] = 1..Len(steps[r]) BY DEF RowsTyped
<1>3. \A r \in Runs : \A i \in DOMAIN steps[r] :
        f[<<r, i>>] = IF <<r, i>> \in ids THEN Lock(Row(r, i), p) ELSE Row(r, i)
  BY <1>2, RowIdsAre DEF RowOf
<1> HIDE DEF f
<1>4. steps' = [r \in Runs |-> [i \in DOMAIN steps[r] |-> f[<<r, i>>]]]
  BY <1>3 DEF LockAll
<1>5. SameIds /\ \A id \in RowIds : RowOf(id)' = f[id] BY <1>1, <1>4, RowsMapped
<1> QED BY <1>5 DEF f

LEMMA OlderIs ==
  ASSUME RowsTyped, Tick
  PROVE  SameIds /\ \A id \in RowIds : RowOf(id)' = Older(RowOf(id))
<1> DEFINE f == [id \in RowIds |-> Older(RowOf(id))]
<1>1. \A id \in RowIds : f[id] \in RowType BY RowIdsAre, RowsWritten
<1>2. \A r \in Runs : DOMAIN steps[r] = 1..Len(steps[r]) BY DEF RowsTyped
<1>3. \A r \in Runs : \A i \in DOMAIN steps[r] : f[<<r, i>>] = Older(Row(r, i))
  BY <1>2, RowIdsAre DEF RowOf
<1> HIDE DEF f
<1>4. steps' = [r \in Runs |-> [i \in DOMAIN steps[r] |-> f[<<r, i>>]]]
  BY <1>3 DEF Tick
<1>5. SameIds /\ \A id \in RowIds : RowOf(id)' = f[id] BY <1>1, <1>4, RowsMapped
<1> QED BY <1>5 DEF f

LEMMA TriggeredIs ==
  ASSUME Typed, NEW p \in Processes, NEW r \in Runs, Trigger(p, r)
  PROVE  /\ RowsTyped'
         /\ steps'[r] = <<NewRow(Head(path))>> /\ Len(steps'[r]) = 1
         /\ \A q \in Runs \ {r} : steps'[q] = steps[q]
         /\ \A j \in RowIds : j \in RowIds' /\ RowOf(j)' = RowOf(j)
         /\ \A j \in RowIds' : j \notin RowIds => RowOf(j)' = NewRow(Head(path))
<1>0. RowsTyped BY DEF Typed, TypeOK, RowsTyped
<1>1. Head(path) \in Actions
  BY DEF Typed, TypeOK, Trigger
<1> DEFINE new == <<NewRow(Head(path))>>
<1>2. new \in Seq(RowType) /\ Len(new) = 1 /\ new[1] = NewRow(Head(path))
  BY <1>1, RowsWritten
<1>3. steps' = [steps EXCEPT ![r] = new] /\ steps[r] = << >> BY DEF Trigger
<1> HIDE DEF new
<1>4. /\ steps' \in [Runs -> Seq(RowType)] /\ steps'[r] = new
      /\ \A q \in Runs \ {r} : steps'[q] = steps[q]
  BY <1>0, <1>2, <1>3 DEF RowsTyped
<1>5. RowsTyped' BY <1>4 DEF RowsTyped
<1>6. ASSUME NEW j \in RowIds PROVE j \in RowIds' /\ RowOf(j)' = RowOf(j)
  <2>1. j[1] \in Runs /\ j[2] \in 1..Len(steps[j[1]]) /\ j = <<j[1], j[2]>>
    BY <1>0, RowIdsAre
  <2>2. j[1] # r BY <1>3, <2>1
  <2> QED BY <1>4, <1>5, <2>1, <2>2, RowIdsPrimed DEF RowOf, Row
<1>7. ASSUME NEW j \in RowIds', j \notin RowIds PROVE RowOf(j)' = NewRow(Head(path))
  <2>1. j[1] \in Runs /\ j[2] \in 1..Len(steps'[j[1]]) /\ j = <<j[1], j[2]>>
    BY <1>5, RowIdsPrimed
  <2>2. j[1] = r BY <1>0, <1>4, <1>7, <2>1, RowIdsAre
  <2>3. j[2] \in 1..1 BY <1>2, <1>4, <2>1, <2>2
  <2>4. j[2] = 1 BY <2>3
  <2> QED BY <1>2, <1>4, <2>2, <2>4 DEF RowOf, Row
<1> QED BY <1>2, <1>4, <1>5, <1>6, <1>7 DEF new
-----------------------------------------------------------------------------
(* What a step of a worker does to the rows, to the workers and to the     *)
(* date of the next poll.                                                  *)
KeptRows == SameIds /\ \A j \in RowIds : RowOf(j)' = RowOf(j)

RowStep(p, w) ==
    \/ KeptRows
    \/ OnlyRow(w.id) /\ RowOf(w.id)' = [RowOf(w.id) EXCEPT !.sends = @ + 1]
    \/ /\ Owns(RowOf(w.id), p) /\ OnlyRow(w.id)
       /\ \E status \in Terminal : RowOf(w.id)' = [Unlock(RowOf(w.id)) EXCEPT !.status = status]
    \/ /\ Owns(RowOf(w.id), p) /\ OnlyRow(w.id)
       /\ RowOf(w.id)' = Retried(RowOf(w.id)) /\ Leave(p, w)
    \/ Owns(RowOf(w.id), p) /\ Finishes(p, w.id)

Ats == {"check", "send", "finish", "error"}

WorkStep(p, w) ==
    /\ RowStep(p, w)
    /\ Leave(p, w) \/ \E at \in Ats : MoveTo(p, w, at)
    /\ next' \in [Processes -> 0..Never]
    /\ next'[p] <= next[p] /\ \A q \in Processes \ {p} : next'[q] = next[q]
    /\ spent' \in [Kinds -> Nat]
    /\ UNCHANGED <<automation, member, phase, queued, timers>>

LEMMA Counted ==
  ASSUME Typed, NEW k \in Kinds, Count(k)
  PROVE  spent' \in [Kinds -> Nat] /\ spent'[k] = spent[k] + 1
  BY DEF Typed, TypeOK, Count

LEMMA FaultsAreKinds ==
  "error" \in FaultKinds /\ "reply" \in FaultKinds /\ "ping" \in FaultKinds
  /\ "crash" \in FaultKinds /\ FaultKinds \subseteq Kinds
  /\ "signup" \in Kinds /\ "edit" \in Kinds /\ "member" \in Kinds /\ "expiry" \in Kinds
  BY DEF FaultKinds, Kinds

LEMMA RowsAreKept == ASSUME RowsTyped, UNCHANGED steps PROVE KeptRows
  BY DEF KeptRows, SameIds, RowsTyped, RowIds, RowOf, Row

LEMMA NextKept ==
  ASSUME Typed, UNCHANGED next
  PROVE  next' \in [Processes -> 0..Never] /\ \A q \in Processes : next'[q] <= next[q]
<1>1. \A q \in Processes : next[q] \in Int BY Dates DEF Typed, TypeOK
<1> QED BY <1>1 DEF Typed, TypeOK

LEMMA WorkIs ==
  ASSUME Typed, NEW p \in Processes, NEW w \in workers[p],
         \/ Stop(p, w) \/ Go(p, w) \/ Send(p, w) \/ SendFails(p, w)
         \/ Finish(p, w) \/ HandleFailure(p, w)
         \/ StopFails(p, w) \/ FinishFails(p, w) \/ HandleFailureFails(p, w)
  PROVE  WorkStep(p, w)
<1>1. RowsTyped /\ w.id \in RowIds /\ w \in WorkerType /\ w.attempts \in Nat
  BY DEF Typed, TypeOK, RowsTyped, WorkerType
<1>2. /\ "check" \in Ats /\ "send" \in Ats /\ "finish" \in Ats /\ "error" \in Ats
      /\ "finished" \in Terminal /\ "failed" \in Terminal
  BY DEF Ats, Terminal
<1>3. Verdict(w) # "go" => Verdict(w) \in Terminal BY DEF Verdict, Terminal
<1>4. ASSUME NEW status \in Terminal, steps' = Terminated(p, w.id, status)
      PROVE  RowStep(p, w)
  BY <1>1, <1>4, TerminatedIs DEF RowStep, OnlyRow, KeptRows
<1>5. ASSUME steps' = SetRow(w.id, [RowOf(w.id) EXCEPT !.sends = @ + 1])
      PROVE  RowStep(p, w)
  <2>1. [RowOf(w.id) EXCEPT !.sends = @ + 1] \in RowType BY <1>1, RowIdsAre, RowsWritten
  <2> QED BY <1>1, <1>5, <2>1, RowSet DEF RowStep
<1>6. ASSUME UNCHANGED steps PROVE RowStep(p, w)
  BY <1>1, <1>6, RowsAreKept DEF RowStep
<1>7. ASSUME steps' = Finished(p, w.id) PROVE RowStep(p, w)
  BY <1>1, <1>7, FinishedIs DEF RowStep, OnlyRow, KeptRows
<1>8. ASSUME steps' = Failure(p, w), Leave(p, w) PROVE RowStep(p, w)
  BY <1>1, <1>2, <1>8, FailureIs DEF RowStep, OnlyRow, KeptRows, WillRetry
<1>9. UNCHANGED spent => spent' \in [Kinds -> Nat] BY DEF Typed, TypeOK
<1>10. \A k \in FaultKinds : Count(k) => spent' \in [Kinds -> Nat]
  BY Counted, FaultsAreKinds
<1>11. CASE Stop(p, w)
  BY <1>3, <1>4, <1>9, <1>11, NextKept DEF Stop, WorkStep
<1>12. CASE Go(p, w)
  BY <1>2, <1>6, <1>9, <1>12, NextKept DEF Go, WorkStep
<1>13. CASE Send(p, w)
  BY <1>2, <1>5, <1>9, <1>13, NextKept DEF Send, WorkStep
<1>14. CASE SendFails(p, w)
  BY <1>2, <1>5, <1>6, <1>9, <1>10, <1>14, NextKept, FaultsAreKinds DEF SendFails, WorkStep
<1>15. CASE StopFails(p, w)
  BY <1>3, <1>4, <1>6, <1>10, <1>15, NextKept, FaultsAreKinds DEF StopFails, WorkStep
<1>16. CASE FinishFails(p, w)
  BY <1>2, <1>6, <1>7, <1>10, <1>16, NextKept, FaultsAreKinds DEF FinishFails, WorkStep
<1>17. CASE HandleFailureFails(p, w)
  BY <1>6, <1>8, <1>10, <1>17, NextKept, FaultsAreKinds DEF HandleFailureFails, WorkStep
<1>18. CASE Finish(p, w)
  <2> DEFINE dates == {next[p]} \cup {ReadyIn(a) : a \in Following(p, w.id)}
             m == Min(dates)
  <2>1. next[p] \in 0..Never /\ dates \subseteq 0..Never /\ next[p] \in dates /\ Never \in Nat
    BY Dates DEF Typed, TypeOK
  <2>3. next' = [next EXCEPT ![p] = m] BY <1>18 DEF Finish
  <2> HIDE DEF dates
  <2>2. m \in dates /\ m <= next[p] BY <2>1, MinIs
  <2> HIDE DEF m
  <2>4. /\ next' \in [Processes -> 0..Never]
        /\ next'[p] <= next[p] /\ \A q \in Processes \ {p} : next'[q] = next[q]
    BY <2>1, <2>2, <2>3 DEF Typed, TypeOK
  <2> QED BY <1>7, <1>9, <1>18, <2>4 DEF Finish, WorkStep
<1>19. CASE HandleFailure(p, w)
  <2> DEFINE m == IF WillRetry(p, w) THEN Earlier(next[p], RetryDelay) ELSE next[p]
  <2>1. next[p] \in 0..Never /\ Never \in Nat BY Dates DEF Typed, TypeOK
  <2>2. m \in 0..Never /\ m <= next[p] BY <2>1, Dates DEF Earlier
  <2>3. next' = [next EXCEPT ![p] = m] BY <1>19 DEF HandleFailure
  <2> HIDE DEF m
  <2>4. /\ next' \in [Processes -> 0..Never]
        /\ next'[p] <= next[p] /\ \A q \in Processes \ {p} : next'[q] = next[q]
    BY <2>1, <2>2, <2>3 DEF Typed, TypeOK
  <2> QED BY <1>8, <1>9, <1>19, <2>4 DEF HandleFailure, WorkStep
<1> QED
  BY <1>11, <1>12, <1>13, <1>14, <1>15, <1>16, <1>17, <1>18, <1>19

-----------------------------------------------------------------------------
\* Typing.

\* The workers after a step are those of before, some of them further on.
SameWork ==
    \A q \in Processes : \A v \in workers'[q] :
        \E u \in workers[q] : u.id = v.id /\ u.attempts = v.attempts

LEMMA WorkersMove ==
  ASSUME Typed, NEW p \in Processes, NEW w \in workers[p],
         Leave(p, w) \/ \E at \in Ats : MoveTo(p, w, at)
  PROVE  /\ workers' \in [Processes -> SUBSET WorkerType] /\ SameWork
         /\ \A q \in Processes \ {p} : workers'[q] = workers[q]
<1>1. workers \in [Processes -> SUBSET WorkerType] /\ w \in WorkerType
  BY DEF Typed, TypeOK
<1>2. CASE Leave(p, w)
  <2>1. /\ workers' \in [Processes -> SUBSET WorkerType]
        /\ workers'[p] = workers[p] \ {w}
        /\ \A q \in Processes \ {p} : workers'[q] = workers[q]
    BY <1>1, <1>2 DEF Leave
  <2> QED BY <2>1 DEF SameWork
<1>3. ASSUME NEW at \in Ats, MoveTo(p, w, at)
      PROVE  /\ workers' \in [Processes -> SUBSET WorkerType] /\ SameWork
             /\ \A q \in Processes \ {p} : workers'[q] = workers[q]
  <2> DEFINE v == [w EXCEPT !.at = at]
  <2>1. v \in WorkerType /\ v.id = w.id /\ v.attempts = w.attempts
    BY <1>1 DEF WorkerType, Ats
  <2>2. workers' = [workers EXCEPT ![p] = (workers[p] \ {w}) \cup {v}]
    BY <1>3 DEF MoveTo
  <2> HIDE DEF v
  <2>3. /\ workers' \in [Processes -> SUBSET WorkerType]
        /\ workers'[p] = (workers[p] \ {w}) \cup {v}
        /\ \A q \in Processes \ {p} : workers'[q] = workers[q]
    BY <1>1, <2>1, <2>2
  <2> QED BY <2>1, <2>3 DEF SameWork
<1> QED BY <1>2, <1>3

LEMMA RowStepIs ==
  ASSUME Typed, NEW p \in Processes, NEW w \in workers[p], RowStep(p, w)
  PROVE  /\ RowsTyped'
         /\ \A j \in RowIds : j \in RowIds'
         /\ \A j \in RowIds \ {w.id} : RowOf(j)' = RowOf(j)
         /\ RowOf(w.id)'.attempts = RowOf(w.id).attempts
<1>1. RowsTyped /\ w.id \in RowIds BY DEF Typed, TypeOK, RowsTyped
<1>2. RowOf(w.id) \in RowType BY <1>1, RowIdsAre
<1>3. CASE KeptRows BY <1>1, <1>3 DEF KeptRows, SameIds
<1>4. CASE OnlyRow(w.id)
  <2>1. RowOf(w.id)'.attempts = RowOf(w.id).attempts
    BY <1>2, <1>1, <1>4 DEF RowStep, Retried, Unlock, RowType, KeptRows, Finishes
  <2> QED BY <1>4, <2>1 DEF OnlyRow, SameIds
<1>5. CASE Finishes(p, w.id)
  <2>1. RowOf(w.id)'.attempts = RowOf(w.id).attempts
    BY <1>2, <1>5 DEF Finishes, Unlock, RowType
  <2> QED BY <1>5, <2>1 DEF Finishes
<1> QED BY <1>3, <1>4, <1>5 DEF RowStep

LEMMA WorkersKept ==
  ASSUME Typed, UNCHANGED workers
  PROVE  workers' \in [Processes -> SUBSET WorkerType] /\ SameWork
  BY DEF Typed, TypeOK, SameWork

\* What most steps leave as it is.
LEMMA StillTyped ==
  ASSUME Typed, RowsTyped', \A j \in RowIds : j \in RowIds',
         workers' \in [Processes -> SUBSET WorkerType], SameWork,
         phase' \in [Processes -> {"down", "idle", "fetch", "work"}],
         queued' \in [Processes -> BOOLEAN],
         next' \in [Processes -> 0..Never],
         timers' \in [Processes -> SUBSET (0..MaxAhead)],
         spent' \in [Kinds -> Nat],
         UNCHANGED <<automation, member>>
  PROVE  Typed'
<1>1. \A p \in Processes : \A w \in workers'[p] : w.id \in RowIds'
  BY DEF SameWork, Typed, TypeOK
<1> QED BY <1>1 DEF Typed, TypeOK, RowsTyped, automation

LEMMA DispatchTyped ==
  ASSUME Typed, NEW p \in Processes, Dispatch(p)
  PROVE  /\ phase' \in [Processes -> {"down", "idle", "fetch", "work"}]
         /\ queued' \in [Processes -> BOOLEAN]
  BY DEF Typed, TypeOK, Dispatch

LEMMA EndOfPollTyped ==
  ASSUME Typed, NEW p \in Processes, NEW another \in BOOLEAN, EndOfPoll(p, another)
  PROVE  /\ phase' \in [Processes -> {"down", "idle", "fetch", "work"}]
         /\ queued' \in [Processes -> BOOLEAN]
  BY DEF Typed, TypeOK, EndOfPoll

LEMMA CandidatesAre ==
  ASSUME Typed
  PROVE  /\ Candidates \subseteq SUBSET RowIds
         /\ \A ids \in Candidates : /\ Cardinality(Expired(ids)) \in Nat
                                    /\ Cardinality(ids) \in Nat
                                    /\ \A id \in ids : Available(RowOf(id))
                                    /\ Expired(ids) # {} => Cardinality(Expired(ids)) >= 1
<1> DEFINE free == {id \in RowIds : Available(RowOf(id))}
<1>1. \A ids \in Candidates : ids \subseteq free
  BY DEF Candidates, kSubset
<1>2. IsFiniteSet(RowIds) BY FinitelyMany DEF Typed, TypeOK, RowsTyped
<1>3. ASSUME NEW ids \in Candidates
      PROVE  /\ ids \subseteq RowIds /\ Cardinality(Expired(ids)) \in Nat
             /\ Cardinality(ids) \in Nat
             /\ Expired(ids) # {} => Cardinality(Expired(ids)) >= 1
  <2>1. ids \subseteq RowIds BY <1>1
  <2>2. Expired(ids) \subseteq RowIds BY <2>1 DEF Expired
  <2>3. IsFiniteSet(Expired(ids)) /\ IsFiniteSet(ids) BY <1>2, <2>1, <2>2, FS_Subset
  <2>4. Cardinality(Expired(ids)) \in Nat /\ Cardinality(ids) \in Nat
    BY <2>3, FS_CardinalityType
  <2>5. Expired(ids) # {} => Cardinality(Expired(ids)) # 0 BY <2>3, FS_EmptySet
  <2> QED BY <2>1, <2>4, <2>5
<1> QED BY <1>1, <1>3

LEMMA FirstNextIs ==
  ASSUME Typed, NEW ids \in Candidates
  PROVE  /\ FirstNext(ids) \in 0..Never
         /\ \A id \in RowIds \ ids :
              Unlocked(RowOf(id)) => FirstNext(ids) <= RowOf(id).readyIn
<1> DEFINE rows == {RowOf(id) : id \in RowIds \ ids}
           dates == {row.readyIn : row \in {x \in rows : Unlocked(x)}} \cup {Never}
<1>1. RowsTyped BY DEF Typed, TypeOK, RowsTyped
<1>2. \A id \in RowIds : RowOf(id).readyIn \in 0..MaxAhead BY <1>1, RowIdsAre DEF RowType
<1>3. dates \subseteq 0..Never /\ Never \in dates /\ Never \in Nat BY <1>2, Dates
<1>4. \A id \in RowIds \ ids : Unlocked(RowOf(id)) => RowOf(id).readyIn \in dates
  OBVIOUS
<1>5. FirstNext(ids) = IF Cardinality(ids) >= Batch THEN 0 ELSE Min(dates)
  BY DEF FirstNext, NextReady
<1> HIDE DEF dates
<1>6. Min(dates) \in dates /\ \A t \in dates : Min(dates) <= t BY <1>3, MinIs
<1>7. Min(dates) \in 0..Never BY <1>3, <1>6
<1>8. CASE FirstNext(ids) = 0 BY <1>2, <1>3, <1>8
<1>9. CASE FirstNext(ids) = Min(dates) BY <1>4, <1>6, <1>7, <1>9
<1> QED BY <1>5, <1>8, <1>9

LEMMA Initially == ASSUME Init PROVE Typed
<1>1. steps \in [Runs -> Seq(RowType)] /\ \A r \in Runs : steps[r] = << >>
  BY DEF Init
<1>2. Never \in 0..Never BY Dates
<1>3. path \in Seq(Actions) /\ IsInjective(path) BY AutomationAssumption DEF Init
<1>4. \A p \in Processes : workers[p] = {} BY DEF Init
<1>5. /\ workers \in [Processes -> SUBSET WorkerType]
      /\ timers \in [Processes -> SUBSET (0..MaxAhead)]
  BY DEF Init
<1> QED BY <1>1, <1>2, <1>3, <1>4, <1>5 DEF Init, Typed, TypeOK, MemberStates

LEMMA FetchedWorkers ==
  ASSUME Typed, NEW p \in Processes, NEW ids \in Candidates,
         workers' = [workers EXCEPT ![p] = {Worker(id, p) : id \in ids}]
  PROVE  /\ workers' \in [Processes -> SUBSET WorkerType]
         /\ \A v \in workers'[p] : \E id \in ids : v = Worker(id, p)
         /\ \A id \in ids : Worker(id, p) \in workers'[p]
         /\ \A q \in Processes \ {p} : workers'[q] = workers[q]
         /\ \A id \in ids : /\ Worker(id, p).id = id /\ id \in RowIds
                            /\ Worker(id, p).attempts = RowOf(id).attempts + 1
<1> DEFINE new == {Worker(id, p) : id \in ids}
<1>1. RowsTyped /\ active \in BOOLEAN BY DEF Typed, TypeOK, RowsTyped
<1>2. ids \subseteq RowIds BY CandidatesAre
<1>3. ASSUME NEW id \in ids PROVE Worker(id, p) \in WorkerType
  <2>1. /\ id[1] \in Runs /\ id[2] \in 1..Len(steps[id[1]]) /\ id = <<id[1], id[2]>>
        /\ RowOf(id).attempts \in Nat
    BY <1>1, <1>2, RowIdsAre DEF RowType
  <2>2. Len(steps[id[1]]) \in Nat BY <1>1, <2>1 DEF RowsTyped
  <2>3. id \in Runs \X (Nat \ {0}) BY <2>1, <2>2
  <2>4. RowOf(id).attempts + 1 \in Nat \ {0} BY <2>1
  <2> QED BY <1>1, <2>3, <2>4 DEF Worker, WorkerType
<1>4. new \subseteq WorkerType BY <1>3
<1>5. workers' = [workers EXCEPT ![p] = new] OBVIOUS
<1>6. \A id \in ids : Worker(id, p) \in new OBVIOUS
<1>7. \A v \in new : \E id \in ids : v = Worker(id, p) OBVIOUS
<1> HIDE DEF new
<1>8. /\ workers' \in [Processes -> SUBSET WorkerType] /\ workers'[p] = new
      /\ \A q \in Processes \ {p} : workers'[q] = workers[q]
  BY <1>4, <1>5 DEF Typed, TypeOK
<1>9. \A id \in ids : /\ Worker(id, p).id = id /\ id \in RowIds
                      /\ Worker(id, p).attempts = RowOf(id).attempts + 1
  BY <1>2 DEF Worker
<1> QED BY <1>6, <1>7, <1>8, <1>9

LEMMA Editing == ASSUME Typed, Edit PROVE Typed'
<1>1. PICK n \in 1..Cardinality(Actions) : path' \in [1..n -> Actions \ deleted]
  BY DEF Edit
<1>2. IsInjective(path') BY DEF Edit
<1>3. path \in Seq(Actions) /\ deleted \subseteq Actions BY DEF Typed, TypeOK
<1>4. path' \in Seq(Actions)
  <2>1. n \in Nat OBVIOUS
  <2>2. path' \in [1..n -> Actions] BY <1>1
  <2> QED BY <2>1, <2>2, IsSeq
<1>5. ToSet(path) \subseteq Actions
  BY <1>3 DEF ToSet
<1>6. deleted' \subseteq Actions BY <1>3, <1>5 DEF Edit
<1>7. spent' \in [Kinds -> Nat] BY Counted, FaultsAreKinds DEF Edit
<1>8. active' \in BOOLEAN /\ RowIds' = RowIds BY DEF Edit, RowIds
<1> QED BY <1>2, <1>4, <1>6, <1>7, <1>8 DEF Edit, Typed, TypeOK

LEMMA Typing_step == ASSUME Typed, [Next]_vars PROVE Typed'
<1> DEFINE PhaseTyped  == phase' \in [Processes -> {"down", "idle", "fetch", "work"}]
           QueuedTyped == queued' \in [Processes -> BOOLEAN]
           TimersTyped == timers' \in [Processes -> SUBSET (0..MaxAhead)]
           NextTyped   == next' \in [Processes -> 0..Never]
           SpentTyped  == spent' \in [Kinds -> Nat]
           RowsStay    == RowsTyped' /\ \A j \in RowIds : j \in RowIds'
           WorkStays   == workers' \in [Processes -> SUBSET WorkerType] /\ SameWork
<1>0. /\ UNCHANGED phase => PhaseTyped
      /\ UNCHANGED queued => QueuedTyped
      /\ UNCHANGED timers => TimersTyped
      /\ UNCHANGED next => NextTyped
      /\ UNCHANGED spent => SpentTyped
      /\ UNCHANGED workers => WorkStays
      /\ UNCHANGED steps => RowsStay
  BY DEF Typed, TypeOK, SameWork, RowsTyped, RowIds
<1>00. RowsTyped /\ Never \in Nat BY Dates DEF Typed, TypeOK, RowsTyped
<1>1. ASSUME NEW p \in Processes, NEW r \in Runs, Trigger(p, r) PROVE Typed'
  <2>1. RowsStay BY <1>1, TriggeredIs
  <2>2. PhaseTyped /\ QueuedTyped BY <1>1, DispatchTyped DEF Trigger
  <2>3. SpentTyped BY <1>1, Counted, FaultsAreKinds DEF Trigger
  <2> QED BY <1>0, <1>1, <2>1, <2>2, <2>3, StillTyped DEF Trigger
<1>2. ASSUME NEW p \in Processes, Fetch(p) PROVE Typed'
  <2>1. PICK ids \in Candidates :
          /\ steps' = LockAll(p, ids)
          /\ workers' = [workers EXCEPT ![p] = {Worker(id, p) : id \in ids}]
          /\ next' = [next EXCEPT ![p] = FirstNext(ids)]
          /\ spent' = [spent EXCEPT !["expiry"] = @ + Cardinality(Expired(ids))]
    BY <1>2 DEF Fetch
  <2>2. SameIds BY <1>00, <2>1, CandidatesAre, LockedIs
  <2>3. /\ workers' \in [Processes -> SUBSET WorkerType]
        /\ \A v \in workers'[p] : \E id \in ids : v = Worker(id, p)
        /\ \A q \in Processes \ {p} : workers'[q] = workers[q]
        /\ \A id \in ids : Worker(id, p).id = id /\ id \in RowIds
    BY <2>1, FetchedWorkers
  <2>4. \A q \in Processes : \A w \in workers'[q] : w.id \in RowIds
    <3>1. \A w \in workers'[p] : w.id \in RowIds BY <2>3
    <3>2. \A q \in Processes \ {p} : \A w \in workers'[q] : w.id \in RowIds
      BY <2>3 DEF Typed, TypeOK
    <3> QED BY <3>1, <3>2
  <2>5. NextTyped BY <2>1, FirstNextIs DEF Typed, TypeOK
  <2>6. SpentTyped
    <3>1. Cardinality(Expired(ids)) \in Nat BY CandidatesAre
    <3>2. spent["expiry"] + Cardinality(Expired(ids)) \in Nat
      BY <3>1, FaultsAreKinds DEF Typed, TypeOK
    <3> QED BY <2>1, <3>2 DEF Typed, TypeOK
  <2>7. PhaseTyped BY <1>2 DEF Fetch, Typed, TypeOK
  <2> QED BY <1>0, <1>2, <2>2, <2>3, <2>4, <2>5, <2>6, <2>7
         DEF Fetch, Typed, TypeOK, SameIds, RowsTyped, automation
<1>3. ASSUME NEW p \in Processes, FetchFails(p) PROVE Typed'
  <2>1. RowsStay
    <3>1. CASE UNCHANGED steps BY <1>0, <3>1
    <3>2. CASE \E ids \in Candidates : steps' = LockAll(p, ids)
      BY <1>00, <3>2, CandidatesAre, LockedIs DEF SameIds
    <3> QED BY <1>3, <3>1, <3>2 DEF FetchFails
  <2>2. SpentTyped BY <1>3, Counted, FaultsAreKinds DEF FetchFails
  <2>3. PhaseTyped /\ QueuedTyped
    <3>1. queued[p] \in BOOLEAN BY DEF Typed, TypeOK
    <3> QED BY <1>3, <3>1, EndOfPollTyped DEF FetchFails
  <2> QED BY <1>0, <1>3, <2>1, <2>2, <2>3, StillTyped DEF FetchFails
<1>4. ASSUME NEW p \in Processes, Work(p) \/ WorkFails(p) PROVE Typed'
  <2>1. PICK w \in workers[p] : WorkStep(p, w)
    BY <1>4, WorkIs DEF Work, WorkFails
  <2>2. RowsStay BY <2>1, RowStepIs DEF WorkStep
  <2>3. WorkStays BY <2>1, WorkersMove DEF WorkStep
  <2> QED BY <1>0, <2>1, <2>2, <2>3, StillTyped DEF WorkStep
<1>5. ASSUME NEW p \in Processes, EndPoll(p) PROVE Typed'
  <2>1. PhaseTyped /\ QueuedTyped
    <3>1. (queued[p] \/ next[p] = 0) \in BOOLEAN BY DEF Typed, TypeOK
    <3> QED BY <1>5, <3>1, EndOfPollTyped DEF EndPoll
  <2>2. NextTyped BY <1>00, <1>5 DEF EndPoll, Typed, TypeOK
  <2>3. {next[p]} \ {0, Never} \subseteq 0..MaxAhead
    <3>1. next[p] \in 0..Never BY DEF Typed, TypeOK
    <3>2. Never = MaxAhead + 1 /\ MaxAhead \in Nat BY Dates
    <3> QED BY <3>1, <3>2
  <2>4. TimersTyped BY <1>5, <2>3 DEF EndPoll, Typed, TypeOK
  <2> QED BY <1>0, <1>5, <2>1, <2>2, <2>4, StillTyped DEF EndPoll
<1>6. ASSUME NEW p \in Processes, NEW q \in Processes, Fire(p, q) PROVE Typed'
  <2>1. PhaseTyped /\ QueuedTyped BY <1>6, DispatchTyped DEF Fire
  <2>2. TimersTyped BY <1>6 DEF Fire, Typed, TypeOK
  <2> QED BY <1>0, <1>6, <2>1, <2>2, StillTyped DEF Fire
<1>7. ASSUME NEW p \in Processes, FireFails(p) PROVE Typed'
  <2>1. SpentTyped BY <1>7, Counted, FaultsAreKinds DEF FireFails
  <2>2. TimersTyped BY <1>7 DEF FireFails, Typed, TypeOK
  <2> QED BY <1>0, <1>7, <2>1, <2>2, StillTyped DEF FireFails
<1>8. ASSUME NEW p \in Processes, Crash(p) PROVE Typed'
  <2>1. SpentTyped BY <1>8, Counted, FaultsAreKinds DEF Crash
  <2>2. PhaseTyped /\ QueuedTyped /\ NextTyped /\ TimersTyped
    BY <1>00, <1>8 DEF Crash, Typed, TypeOK
  <2>3. WorkStays
    <3>1. workers' = [workers EXCEPT ![p] = {}] /\ {} \in SUBSET WorkerType BY <1>8 DEF Crash
    <3>2. /\ workers' \in [Processes -> SUBSET WorkerType] /\ workers'[p] = {}
          /\ \A q \in Processes \ {p} : workers'[q] = workers[q]
      BY <3>1 DEF Typed, TypeOK
    <3> QED BY <3>2 DEF SameWork
  <2> QED BY <1>0, <1>8, <2>1, <2>2, <2>3, StillTyped DEF Crash
<1>9. ASSUME NEW p \in Processes, Restart(p) PROVE Typed'
  <2>1. PhaseTyped BY <1>9 DEF Restart, Typed, TypeOK
  <2> QED BY <1>0, <1>9, <2>1, StillTyped DEF Restart
<1>10. CASE Tick
  <2>1. RowsStay BY <1>00, <1>10, OlderIs DEF SameIds
  <2>2. NextTyped BY <1>10, PassedIs DEF Tick, Typed, TypeOK
  <2>3. TimersTyped
    <3>1. ASSUME NEW p \in Processes
          PROVE  {Passed(t) : t \in timers[p]} \in SUBSET (0..MaxAhead)
      <4>1. timers[p] \subseteq 0..MaxAhead BY DEF Typed, TypeOK
      <4> QED BY <4>1, PassedIs
    <3> QED BY <1>10, <3>1 DEF Tick
  <2> QED BY <1>0, <1>10, <2>1, <2>2, <2>3, StillTyped DEF Tick
<1>11. CASE Edit BY <1>11, Editing
<1>12. ASSUME NEW r \in Runs, ChangeMember(r) PROVE Typed'
  <2>1. SpentTyped BY <1>12, Counted, FaultsAreKinds DEF ChangeMember
  <2>2. member' \in [Runs -> MemberStates] BY <1>12 DEF ChangeMember, Typed, TypeOK
  <2>3. RowIds' = RowIds BY <1>12 DEF ChangeMember, RowIds
  <2> QED BY <1>12, <2>1, <2>2, <2>3 DEF ChangeMember, Typed, TypeOK, automation
<1>13. CASE UNCHANGED vars
  BY <1>13 DEF vars, Typed, TypeOK, RowIds
<1> QED
  BY <1>1, <1>2, <1>3, <1>4, <1>5, <1>6, <1>7, <1>8, <1>9, <1>10, <1>11, <1>12,
     <1>13 DEF Next

(* Every variable keeps to its type, and a step in progress is one of a    *)
(* row that exists (TypeOK): the path never has an action twice, so that   *)
(* findNextActionRevision finds at most one step to add.                   *)
THEOREM Typing == Spec => []TypeOK
<1>1. Init => Typed BY Initially
<1>2. Typed /\ [Next]_vars => Typed' BY Typing_step
<1>3. Typed => TypeOK BY DEF Typed
<1> QED BY <1>1, <1>2, <1>3, PTL DEF Spec

-----------------------------------------------------------------------------
(* Workers and locks.  A process has workers only while it works on the    *)
(* rows of one poll, and one worker for each row; the attempt of a worker  *)
(* is one the row has seen.                                                *)
WorkersFit ==
    \A p \in Processes :
        /\ phase[p] # "work" => workers[p] = {}
        /\ \A v, w \in workers[p] : v.id = w.id => v = w
        /\ \A w \in workers[p] : w.attempts <= RowOf(w.id).attempts

\* Who did not lock a row in this step finds it as it was, or locked since.
RowsHold ==
    \A j \in RowIds :
        /\ j \in RowIds' /\ RowOf(j) \in RowType /\ RowOf(j)' \in RowType
        /\ RowOf(j)'.status = RowOf(j).status /\ RowOf(j)'.sends = RowOf(j).sends
        /\ RowOf(j)'.attempts >= RowOf(j).attempts
        /\ RowOf(j)'.attempts = RowOf(j).attempts => RowOf(j)'.lock = RowOf(j).lock
        /\ RowOf(j)'.lock = NoProcess => RowOf(j).lock = NoProcess

LEMMA HoldKept ==
  ASSUME RowsTyped, RowsTyped',
         \A j \in RowIds : j \in RowIds' /\ RowOf(j)' = RowOf(j)
  PROVE  RowsHold
<1>1. ASSUME NEW j \in RowIds
      PROVE  RowOf(j) \in RowType /\ RowOf(j)' \in RowType /\ RowOf(j).attempts \in Nat
  BY RowIdsAre DEF RowType
<1> QED BY <1>1 DEF RowsHold

LEMMA HoldLocked ==
  ASSUME Typed, NEW p \in Processes, NEW ids \in Candidates, steps' = LockAll(p, ids)
  PROVE  /\ RowsHold /\ SameIds
         /\ \A id \in ids : RowOf(id)' = Lock(RowOf(id), p)
         /\ \A id \in RowIds \ ids : RowOf(id)' = RowOf(id)
<1>1. RowsTyped BY DEF Typed, TypeOK, RowsTyped
<1>2. ids \in SUBSET RowIds BY CandidatesAre
<1>3. /\ SameIds
      /\ \A id \in RowIds :
           RowOf(id)' = IF id \in ids THEN Lock(RowOf(id), p) ELSE RowOf(id)
  BY <1>1, <1>2, LockedIs
<1>4. ASSUME NEW j \in RowIds
      PROVE  /\ RowOf(j) \in RowType /\ RowOf(j)' \in RowType
             /\ RowOf(j)'.attempts >= RowOf(j).attempts
             /\ RowOf(j)'.attempts = RowOf(j).attempts => RowOf(j)' = RowOf(j)
             /\ RowOf(j)'.status = RowOf(j).status /\ RowOf(j)'.sends = RowOf(j).sends
             /\ RowOf(j)'.lock = NoProcess => RowOf(j).lock = NoProcess
  <2>1. RowOf(j) \in RowType BY <1>1, RowIdsAre
  <2>2. CASE j \notin ids BY <1>3, <2>1, <2>2 DEF RowType
  <2>3. CASE j \in ids
    <3>1. RowOf(j)' = Lock(RowOf(j), p) BY <1>3, <2>3
    <3>2. Lock(RowOf(j), p) \in RowType BY <2>1, RowsWritten
    <3>3. /\ Lock(RowOf(j), p).attempts = RowOf(j).attempts + 1
          /\ Lock(RowOf(j), p).status = RowOf(j).status
          /\ Lock(RowOf(j), p).sends = RowOf(j).sends
          /\ Lock(RowOf(j), p).lock = p /\ p # NoProcess
          /\ RowOf(j).attempts \in Nat
      BY <2>1, AutomationAssumption DEF Lock, RowType
    <3> QED BY <2>1, <3>1, <3>2, <3>3
  <2> QED BY <2>2, <2>3
<1> QED BY <1>2, <1>3, <1>4 DEF RowsHold, SameIds

LEMMA HoldIs ==
  ASSUME Typed, [Next]_vars, ~(\E p \in Processes : Work(p) \/ WorkFails(p))
  PROVE  RowsHold
<1>1. RowsTyped BY DEF Typed, TypeOK, RowsTyped
<1>2. CASE UNCHANGED steps
  <2>1. \A j \in RowIds : j \in RowIds' /\ RowOf(j)' = RowOf(j)
    BY <1>2 DEF RowIds, RowOf, Row
  <2> QED BY <1>1, <1>2, <2>1, HoldKept DEF RowsTyped
<1>3. ASSUME NEW p \in Processes, NEW r \in Runs, Trigger(p, r) PROVE RowsHold
  BY <1>1, <1>3, TriggeredIs, HoldKept
<1>4. ASSUME NEW p \in Processes, Fetch(p) \/ FetchFails(p) PROVE RowsHold
  BY <1>2, <1>4, HoldLocked DEF Fetch, FetchFails
<1>5. CASE Tick
  <2>1. SameIds /\ \A id \in RowIds : RowOf(id)' = Older(RowOf(id)) BY <1>1, <1>5, OlderIs
  <2>2. ASSUME NEW j \in RowIds
        PROVE  /\ RowOf(j) \in RowType /\ RowOf(j)' \in RowType /\ RowOf(j).attempts \in Nat
               /\ RowOf(j)'.attempts = RowOf(j).attempts
               /\ RowOf(j)'.status = RowOf(j).status /\ RowOf(j)'.lock = RowOf(j).lock
               /\ RowOf(j)'.sends = RowOf(j).sends
    <3>1. RowOf(j) \in RowType BY <1>1, RowIdsAre
    <3>2. RowOf(j)' \in RowType BY <2>1, <3>1, RowsWritten
    <3> QED BY <2>1, <3>1, <3>2 DEF Older, RowType
  <2> QED BY <2>1, <2>2 DEF RowsHold, SameIds
<1>6. ASSUME \/ \E p \in Processes : EndPoll(p) \/ FireFails(p) \/ Crash(p) \/ Restart(p)
             \/ \E p, q \in Processes : Fire(p, q)
             \/ Edit \/ (\E r \in Runs : ChangeMember(r)) \/ UNCHANGED vars
      PROVE  UNCHANGED steps
  BY <1>6 DEF EndPoll, FireFails, Crash, Restart, Fire, Edit, ChangeMember, vars
<1> QED BY <1>2, <1>3, <1>4, <1>5, <1>6 DEF Next

AttemptsGrow ==
    \A j \in RowIds : /\ RowOf(j).attempts \in Nat /\ RowOf(j)'.attempts \in Nat
                       /\ RowOf(j)'.attempts >= RowOf(j).attempts

LEMMA HoldGrows == RowsHold => AttemptsGrow
  BY DEF RowsHold, AttemptsGrow, RowType

\* Workers that only go on or leave.
LEMMA FitKept ==
  ASSUME Typed, WorkersFit, AttemptsGrow, SameWork,
         \A p \in Processes : \A v, w \in workers'[p] : v.id = w.id => v = w,
         \A p \in Processes : phase'[p] # "work" => phase[p] # "work" \/ workers'[p] = {}
  PROVE  WorkersFit'
<1> SUFFICES ASSUME NEW p \in Processes
             PROVE  /\ phase'[p] # "work" => workers'[p] = {}
                    /\ \A w \in workers'[p] : w.attempts <= RowOf(w.id)'.attempts
  BY DEF WorkersFit
<1>1. phase'[p] # "work" => workers'[p] = {} BY DEF WorkersFit, SameWork
<1>2. ASSUME NEW w \in workers'[p] PROVE w.attempts <= RowOf(w.id)'.attempts
  <2>1. PICK u \in workers[p] : u.id = w.id /\ u.attempts = w.attempts BY DEF SameWork
  <2>2. u.id \in RowIds /\ u \in WorkerType BY DEF Typed, TypeOK
  <2>3. u.attempts <= RowOf(u.id).attempts BY DEF WorkersFit
  <2>4. RowOf(u.id)'.attempts >= RowOf(u.id).attempts BY <2>2 DEF AttemptsGrow
  <2>5. RowOf(u.id).attempts \in Nat /\ RowOf(u.id)'.attempts \in Nat /\ u.attempts \in Nat
    BY <2>2 DEF AttemptsGrow, WorkerType
  <2>6. u.attempts <= RowOf(u.id)'.attempts BY <2>3, <2>4, <2>5
  <2> QED BY <2>1, <2>6
<1> QED BY <1>1, <1>2

LEMMA LocksKept ==
  ASSUME Typed, WorkersFit, LastLockerHolds, RowsHold,
         NEW p \in Processes, NEW u \in workers[p], NEW v, v.id = u.id,
         v.attempts = u.attempts
  PROVE  RowOf(v.id)'.status = "pending" /\ RowOf(v.id)'.attempts = v.attempts
            => RowOf(v.id)'.lock = p
<1>1. u.id \in RowIds /\ u \in WorkerType BY DEF Typed, TypeOK
<1>2. u.attempts <= RowOf(u.id).attempts BY DEF WorkersFit
<1>3. RowOf(u.id).attempts \in Nat /\ RowOf(u.id)'.attempts \in Nat /\ u.attempts \in Nat
  BY <1>1 DEF RowsHold, RowType, WorkerType
<1>4. RowOf(u.id)'.attempts >= RowOf(u.id).attempts BY <1>1 DEF RowsHold
<1> SUFFICES ASSUME RowOf(u.id)'.status = "pending", RowOf(u.id)'.attempts = u.attempts
             PROVE  RowOf(u.id)'.lock = p
  OBVIOUS
<1>5. RowOf(u.id)'.attempts = RowOf(u.id).attempts BY <1>2, <1>3, <1>4
<1>6. RowOf(u.id).status = "pending" /\ RowOf(u.id)'.lock = RowOf(u.id).lock
  BY <1>1, <1>5 DEF RowsHold
<1> QED BY <1>5, <1>6 DEF LastLockerHolds

LEMMA WorkHolds ==
  ASSUME Typed, WorkersFit, LastLockerHolds,
         NEW p \in Processes, NEW w \in workers[p], WorkStep(p, w)
  PROVE  WorkersFit' /\ LastLockerHolds'
<1>1. RowsTyped /\ w.id \in RowIds /\ w \in WorkerType
  BY DEF Typed, TypeOK, RowsTyped
<1>2. /\ RowsTyped'
      /\ \A j \in RowIds : j \in RowIds'
      /\ \A j \in RowIds \ {w.id} : RowOf(j)' = RowOf(j)
      /\ RowOf(w.id)'.attempts = RowOf(w.id).attempts
  BY RowStepIs DEF WorkStep
<1>3. SameWork /\ \A q \in Processes \ {p} : workers'[q] = workers[q]
  BY WorkersMove DEF WorkStep
<1>4. workers \in [Processes -> SUBSET WorkerType] BY DEF Typed, TypeOK
<1>5. \A j \in RowIds : RowOf(j) \in RowType /\ RowOf(j).attempts \in Nat
  BY <1>1, RowIdsAre DEF RowType
<1>6. \A v \in workers'[p] : v \in workers[p] \ {w} \/ v.id = w.id
  BY <1>1, <1>4 DEF WorkStep, Leave, MoveTo, WorkerType
<1>7. \A v \in workers[p] : v.id = w.id => v = w BY DEF WorkersFit
<1>8. \A v, u \in workers'[p] : v.id = u.id => v = u
  <2>1. CASE Leave(p, w)
    <3>1. workers'[p] = workers[p] \ {w} BY <1>4, <2>1 DEF Leave
    <3> QED BY <3>1 DEF WorkersFit
  <2>2. ASSUME NEW at \in Ats, MoveTo(p, w, at) PROVE \A v, u \in workers'[p] : v.id = u.id => v = u
    <3> DEFINE x == [w EXCEPT !.at = at]
    <3>1. workers'[p] = (workers[p] \ {w}) \cup {x} BY <1>4, <2>2 DEF MoveTo
    <3>2. x.id = w.id BY <1>1 DEF WorkerType
    <3> HIDE DEF x
    <3>3. \A v \in workers[p] \ {w} : v.id # x.id BY <1>7, <3>2
    <3> QED BY <3>1, <3>3 DEF WorkersFit
  <2> QED BY <2>1, <2>2 DEF WorkStep
<1>9. \A q \in Processes : \A v, u \in workers'[q] : v.id = u.id => v = u
  BY <1>3, <1>8 DEF WorkersFit
<1>10. AttemptsGrow BY <1>2, <1>5 DEF AttemptsGrow
<1>11. UNCHANGED phase BY DEF WorkStep
<1>12. WorkersFit' BY <1>3, <1>9, <1>10, <1>11, FitKept
<1>13. ASSUME NEW q \in Processes, NEW v \in workers'[q],
              RowOf(v.id)'.status = "pending", RowOf(v.id)'.attempts = v.attempts
       PROVE  RowOf(v.id)'.lock = q
  <2>1. PICK u \in workers[q] : u.id = v.id /\ u.attempts = v.attempts
    BY <1>3 DEF SameWork
  <2>2. u.id \in RowIds BY DEF Typed, TypeOK
  <2>3. RowOf(u.id).status = "pending" /\ RowOf(u.id).attempts = u.attempts
          => RowOf(u.id).lock = q
    BY DEF LastLockerHolds
  <2>4. CASE RowOf(u.id)'.lock = RowOf(u.id).lock /\ RowOf(u.id)'.status = RowOf(u.id).status
    BY <1>2, <1>13, <2>1, <2>2, <2>3, <2>4
  <2>5. CASE u.id # w.id BY <1>2, <2>2, <2>4, <2>5
  <2>6. CASE u.id = w.id
    <3> DEFINE row == RowOf(w.id)
    <3>1. row \in RowType BY <1>1, <1>5
    <3>2. CASE KeptRows BY <1>1, <2>4, <2>6, <3>2 DEF KeptRows
    <3>3. CASE RowOf(w.id)' = [row EXCEPT !.sends = @ + 1]
      BY <2>4, <2>6, <3>1, <3>3 DEF RowType
    <3>4. ASSUME NEW status \in Terminal,
                 RowOf(w.id)' = [Unlock(row) EXCEPT !.status = status]
          PROVE  FALSE
      <4>1. RowOf(w.id)'.status = status BY <3>1, <3>4 DEF Unlock, RowType
      <4>2. status # "pending" BY DEF Terminal
      <4> QED BY <1>13, <2>1, <2>6, <4>1, <4>2
    <3>5. CASE Finishes(p, w.id)
      <4>1. "finished" \in Terminal BY DEF Terminal
      <4> QED BY <3>4, <3>5, <4>1 DEF Finishes
    <3>6. CASE /\ Owns(row, p) /\ RowOf(w.id)' = Retried(row) /\ Leave(p, w)
      <4>1. row.status = "pending" /\ row.lock = p BY <3>6 DEF Owns
      <4>2. row.attempts = u.attempts BY <1>2, <1>13, <2>1, <2>6
      <4>3. q = p BY <2>3, <2>6, <4>1, <4>2
      <4>4. v \in workers[p] \ {w} BY <1>4, <3>6, <4>3 DEF Leave
      <4> QED BY <1>7, <2>1, <2>6, <4>4
    <3> QED BY <3>2, <3>3, <3>4, <3>5, <3>6 DEF WorkStep, RowStep
  <2> QED BY <2>5, <2>6
<1>14. LastLockerHolds' BY <1>13 DEF LastLockerHolds
<1> QED BY <1>12, <1>14

LEMMA FetchHolds ==
  ASSUME Typed, WorkersFit, LastLockerHolds, NEW p \in Processes, Fetch(p)
  PROVE  WorkersFit' /\ LastLockerHolds'
<1>1. PICK ids \in Candidates :
        /\ steps' = LockAll(p, ids)
        /\ workers' = [workers EXCEPT ![p] = {Worker(id, p) : id \in ids}]
  BY DEF Fetch
<1>2. /\ RowsHold /\ SameIds
      /\ \A id \in ids : RowOf(id)' = Lock(RowOf(id), p)
  BY <1>1, HoldLocked
<1>3. /\ \A v \in workers'[p] : \E id \in ids : v = Worker(id, p)
      /\ \A q \in Processes \ {p} : workers'[q] = workers[q]
      /\ \A id \in ids : /\ Worker(id, p).id = id /\ id \in RowIds
                         /\ Worker(id, p).attempts = RowOf(id).attempts + 1
  BY <1>1, FetchedWorkers
<1>4. phase'[p] = "work" /\ \A q \in Processes \ {p} : phase'[q] = phase[q]
  BY DEF Fetch, Typed, TypeOK
<1>5. ASSUME NEW v \in workers'[p]
      PROVE  v.attempts <= RowOf(v.id)'.attempts /\ RowOf(v.id)'.lock = p
  <2>1. PICK id \in ids : v = Worker(id, p) BY <1>3
  <2>2. RowOf(id) \in RowType BY <1>2, <1>3 DEF RowsHold
  <2>3. /\ Lock(RowOf(id), p).lock = p
        /\ Lock(RowOf(id), p).attempts = RowOf(id).attempts + 1
        /\ RowOf(id).attempts + 1 \in Nat
    BY <2>2 DEF Lock, RowType
  <2>4. v.id = id /\ v.attempts = RowOf(id).attempts + 1 BY <1>3, <2>1
  <2> QED BY <1>2, <2>3, <2>4
<1>6. \A v, w \in workers'[p] : v.id = w.id => v = w BY <1>3
<1>7. ASSUME NEW q \in Processes \ {p}, NEW v \in workers[q]
      PROVE  v.attempts <= RowOf(v.id)'.attempts
  <2>1. v.id \in RowIds /\ v \in WorkerType BY DEF Typed, TypeOK
  <2>2. v.attempts <= RowOf(v.id).attempts BY DEF WorkersFit
  <2>3. /\ RowOf(v.id).attempts \in Nat /\ RowOf(v.id)'.attempts \in Nat
        /\ v.attempts \in Nat /\ RowOf(v.id)'.attempts >= RowOf(v.id).attempts
    BY <1>2, <2>1 DEF RowsHold, RowType, WorkerType
  <2> QED BY <2>2, <2>3
<1>8. WorkersFit' BY <1>3, <1>4, <1>5, <1>6, <1>7 DEF WorkersFit
<1>9. LastLockerHolds' BY <1>2, <1>3, <1>5, LocksKept DEF LastLockerHolds
<1> QED BY <1>8, <1>9

\* What happens to the workers when none of them acts and no poll begins.
Fewer   == \A q \in Processes : workers'[q] \subseteq workers[q]
Working ==
    \A q \in Processes : phase'[q] # "work" => phase[q] # "work" \/ workers'[q] = {}

LEMMA OthersShrink ==
  ASSUME Typed, WorkersFit, [Next]_vars,
         ~(\E p \in Processes : Work(p) \/ WorkFails(p) \/ Fetch(p))
  PROVE  Fewer /\ Working
<1> USE DEF Fewer, Working
<1>2. ASSUME NEW p \in Processes, Crash(p)
      PROVE  Fewer /\ Working
  BY <1>2 DEF Crash, Typed, TypeOK
<1>3. ASSUME NEW p \in Processes, Dispatch(p)
      PROVE  \A q \in Processes : phase'[q] # "work" => phase[q] # "work"
  BY <1>3 DEF Dispatch, Typed, TypeOK
<1>4. ASSUME NEW p \in Processes, NEW another, EndOfPoll(p, another)
      PROVE  \A q \in Processes \ {p} : phase'[q] = phase[q]
  BY <1>4 DEF EndOfPoll, Typed, TypeOK
<1>5. ASSUME NEW p \in Processes, Restart(p)
      PROVE  \A q \in Processes : phase'[q] # "work" => phase[q] # "work"
  BY <1>5 DEF Restart, Up, Typed, TypeOK
<1>6. Fewer /\ Working
  <2>1. ASSUME NEW p \in Processes, NEW r \in Runs, Trigger(p, r) PROVE Fewer /\ Working
    BY <1>3, <2>1 DEF Trigger
  <2>2. ASSUME NEW p \in Processes, FetchFails(p) PROVE Fewer /\ Working
    BY <1>4, <2>2 DEF FetchFails
  <2>3. ASSUME NEW p \in Processes, EndPoll(p) PROVE Fewer /\ Working
    BY <1>4, <2>3 DEF EndPoll
  <2>4. ASSUME NEW p \in Processes, NEW q \in Processes, Fire(p, q) PROVE Fewer /\ Working
    BY <1>3, <2>4 DEF Fire
  <2>5. ASSUME NEW p \in Processes, FireFails(p) \/ Restart(p) PROVE Fewer /\ Working
    BY <1>5, <2>5 DEF FireFails, Restart
  <2>6. ASSUME Tick \/ Edit \/ (\E r \in Runs : ChangeMember(r)) \/ UNCHANGED vars
        PROVE Fewer /\ Working
    BY <2>6 DEF Tick, Edit, ChangeMember, vars
  <2> QED BY <1>2, <2>1, <2>2, <2>3, <2>4, <2>5, <2>6 DEF Next
<1> QED BY <1>6

LEMMA OthersHold ==
  ASSUME Typed, WorkersFit, LastLockerHolds, [Next]_vars,
         ~(\E p \in Processes : Work(p) \/ WorkFails(p) \/ Fetch(p))
  PROVE  WorkersFit' /\ LastLockerHolds'
<1>1. RowsHold BY HoldIs
<1>2. Fewer /\ Working BY OthersShrink
<1>3. SameWork BY <1>2 DEF SameWork, Fewer
<1>4. \A q \in Processes : \A v, w \in workers'[q] : v.id = w.id => v = w
  BY <1>2 DEF WorkersFit, Fewer
<1>5. WorkersFit' BY <1>1, <1>2, <1>3, <1>4, FitKept, HoldGrows DEF Working
<1>6. LastLockerHolds' BY <1>1, <1>2, LocksKept DEF LastLockerHolds, Fewer
<1> QED BY <1>5, <1>6

LEMMA Locks_step ==
  ASSUME Typed, WorkersFit, LastLockerHolds, [Next]_vars
  PROVE  WorkersFit' /\ LastLockerHolds'
<1>1. ASSUME NEW p \in Processes, Work(p) \/ WorkFails(p)
      PROVE  WorkersFit' /\ LastLockerHolds'
  BY <1>1, WorkIs, WorkHolds DEF Work, WorkFails
<1> QED BY <1>1, FetchHolds, OthersHold

(* The worker that locked a row last holds it until it gives it up itself: *)
(* the update of fetchAndLockSteps counts the attempt, and updateStep      *)
(* looks at the lock id, so that a late worker takes the row from no one.  *)
THEOREM LastLockerHolds_holds == Spec => []LastLockerHolds
<1>1. Init => Typed /\ WorkersFit /\ LastLockerHolds
  BY Initially DEF Init, WorkersFit, LastLockerHolds
<1>2. Typed /\ WorkersFit /\ LastLockerHolds /\ [Next]_vars
        => (Typed /\ WorkersFit /\ LastLockerHolds)'
  BY Typing_step, Locks_step
<1> QED BY <1>1, <1>2, PTL DEF Spec

-----------------------------------------------------------------------------
\* A run is one thread: a row that another one follows is finished.
LEMMA ThreadIs ==
  RowsTyped => (RunIsAThread <=>
                  \A id \in RowIds : id[2] < Len(steps[id[1]]) => RowOf(id).status = "finished")
<1> SUFFICES ASSUME RowsTyped
             PROVE  RunIsAThread <=>
                      \A id \in RowIds : id[2] < Len(steps[id[1]]) => RowOf(id).status = "finished"
  OBVIOUS
<1>1. \A r \in Runs : Len(steps[r]) \in Nat BY DEF RowsTyped
<1>2. ASSUME RunIsAThread, NEW id \in RowIds, id[2] < Len(steps[id[1]])
      PROVE  RowOf(id).status = "finished"
  <2>1. id[1] \in Runs /\ id[2] \in 1..Len(steps[id[1]]) BY RowIdsAre
  <2>2. id[2] \in 1..(Len(steps[id[1]]) - 1) BY <1>1, <1>2, <2>1
  <2> QED BY <1>2, <2>1, <2>2 DEF RunIsAThread, RowOf, Row
<1>3. ASSUME \A id \in RowIds : id[2] < Len(steps[id[1]]) => RowOf(id).status = "finished",
             NEW r \in Runs, NEW i \in 1..(Len(steps[r]) - 1)
      PROVE  steps[r][i].status = "finished"
  <2>1. i \in 1..Len(steps[r]) /\ i < Len(steps[r]) BY <1>1
  <2>2. <<r, i>> \in RowIds BY <2>1, RowIdsAre
  <2> QED BY <1>3, <2>1, <2>2 DEF RowOf, Row
<1> QED BY <1>2, <1>3 DEF RunIsAThread

LEMMA ThreadPrimed ==
  RowsTyped' =>
    ((\A r \in Runs : \A i \in 1..Len(steps'[r]) :
        i < Len(steps'[r]) => steps'[r][i].status = "finished") => RunIsAThread')
<1> SUFFICES ASSUME RowsTyped', NEW r \in Runs, NEW i \in 1..(Len(steps'[r]) - 1)
             PROVE  i \in 1..Len(steps'[r]) /\ i < Len(steps'[r])
  BY DEF RunIsAThread
<1> QED BY DEF RowsTyped

LEMMA ThreadKept ==
  ASSUME RowsTyped, RunIsAThread, SameIds,
         \A j \in RowIds : RowOf(j).status = "finished" => RowOf(j)'.status = "finished"
  PROVE  RunIsAThread'
<1>1. ASSUME NEW r \in Runs, NEW i \in 1..Len(steps'[r]), i < Len(steps'[r])
      PROVE  steps'[r][i].status = "finished"
  <2>1. i \in 1..Len(steps[r]) /\ i < Len(steps[r]) BY <1>1 DEF SameIds
  <2>2. <<r, i>> \in RowIds BY <2>1, RowIdsAre
  <2>3. RowOf(<<r, i>>).status = "finished" BY <2>1, <2>2, ThreadIs
  <2>4. RowOf(<<r, i>>)'.status = "finished" BY <2>2, <2>3
  <2> QED BY <2>4 DEF RowOf, Row
<1> QED BY <1>1, ThreadPrimed DEF SameIds

LEMMA ThreadGoesOn ==
  ASSUME Typed, RunIsAThread, NEW p \in Processes, NEW id \in RowIds,
         Owns(RowOf(id), p), Finishes(p, id)
  PROVE  RunIsAThread'
<1>1. RowsTyped BY DEF Typed, TypeOK, RowsTyped
<1>2. id[1] \in Runs /\ id[2] \in 1..Len(steps[id[1]]) /\ id = <<id[1], id[2]>>
      /\ RowOf(id) \in RowType
  BY <1>1, RowIdsAre
<1>3. ~(id[2] < Len(steps[id[1]])) BY <1>1, ThreadIs DEF Owns
<1>4. RowOf(id)'.status = "finished" BY <1>2 DEF Finishes, Unlock, RowType
<1>5. ASSUME NEW r \in Runs, NEW i \in 1..Len(steps'[r]), i < Len(steps'[r])
      PROVE  steps'[r][i].status = "finished"
  <2> DEFINE n == Len(steps[r])
             m == Len(steps'[r])
  <2>1. n \in Nat /\ (r # id[1] => m = n) /\ m \in {n, n + 1}
    BY <1>1, <1>2 DEF Finishes, RowsTyped
  <2>2. m \in Nat /\ i \in 1..m /\ i < m BY <1>5, <2>1
  <2> HIDE DEF n, m
  <2>3. i \in 1..n BY <2>1, <2>2
  <2>4. <<r, i>> \in RowIds BY <1>1, <2>3, RowIdsAre DEF n
  <2>5. CASE <<r, i>> = id BY <1>4, <2>5 DEF RowOf, Row
  <2>6. CASE <<r, i>> # id
    <3>1. RowOf(<<r, i>>)' = RowOf(<<r, i>>) BY <2>4, <2>6 DEF Finishes
    <3>2. i < n
      <4>1. CASE r # id[1] BY <2>1, <2>2, <4>1
      <4>2. CASE r = id[1]
        <5>1. i # id[2] BY <1>2, <2>6, <4>2
        <5>2. id[2] \in 1..n /\ ~(id[2] < n) BY <1>2, <1>3, <4>2 DEF n
        <5> QED BY <2>1, <2>3, <5>1, <5>2
      <4> QED BY <4>1, <4>2
    <3>3. RowOf(<<r, i>>).status = "finished" BY <1>1, <2>4, <3>2, ThreadIs DEF n
    <3>4. RowOf(<<r, i>>)'.status = "finished" BY <3>1, <3>3
    <3> QED BY <3>4 DEF RowOf, Row
  <2> QED BY <2>5, <2>6
<1> QED BY <1>5, ThreadPrimed DEF Finishes

LEMMA Thread_step ==
  ASSUME Typed, Typed', RunIsAThread, [Next]_vars
  PROVE  RunIsAThread'
<1>1. RowsTyped /\ RowsTyped' BY DEF Typed, TypeOK, RowsTyped
<1>2. ASSUME NEW p \in Processes, NEW r \in Runs, Trigger(p, r) PROVE RunIsAThread'
  <2>1. Len(steps'[r]) = 1 /\ \A q \in Runs \ {r} : steps'[q] = steps[q]
    BY <1>2, TriggeredIs
  <2>2. ASSUME NEW q \in Runs, NEW i \in 1..Len(steps'[q]), i < Len(steps'[q])
        PROVE  steps'[q][i].status = "finished"
    <3>1. ASSUME q = r PROVE FALSE
      <4>1. Len(steps'[q]) = 1 BY <2>1, <3>1
      <4>2. i \in 1..1 /\ i < 1 BY <2>2, <4>1
      <4> QED BY <4>2
    <3>2. i \in 1..(Len(steps[q]) - 1) BY <1>1, <2>1, <2>2, <3>1 DEF RowsTyped
    <3> QED BY <2>1, <3>1, <3>2 DEF RunIsAThread
  <2> QED BY <1>1, <2>2, ThreadPrimed
<1>3. ASSUME NEW p \in Processes, Work(p) \/ WorkFails(p) PROVE RunIsAThread'
  <2>1. PICK w \in workers[p] : WorkStep(p, w) BY <1>3, WorkIs DEF Work, WorkFails
  <2>2. w.id \in RowIds BY DEF Typed, TypeOK
  <2>3. CASE Owns(RowOf(w.id), p) /\ Finishes(p, w.id) BY <2>2, <2>3, ThreadGoesOn
  <2>4. CASE KeptRows BY <1>1, <2>4, ThreadKept DEF KeptRows
  <2>5. CASE OnlyRow(w.id)
    <3>1. RowOf(w.id) \in RowType BY <1>1, <2>2, RowIdsAre
    <3>2. RowOf(w.id).status = "finished" => RowOf(w.id)'.status = "finished"
      BY <2>1, <2>2, <3>1 DEF WorkStep, RowStep, KeptRows, Owns, RowType
    <3> QED BY <1>1, <2>5, <3>2, ThreadKept DEF OnlyRow
  <2> QED BY <2>1, <2>3, <2>4, <2>5 DEF WorkStep, RowStep
<1>4. ASSUME UNCHANGED steps PROVE RunIsAThread' BY <1>4 DEF RunIsAThread
<1>5. ASSUME NEW p \in Processes, Fetch(p) \/ FetchFails(p) PROVE RunIsAThread'
  <2>1. CASE UNCHANGED steps BY <1>4, <2>1
  <2>2. ASSUME NEW ids \in Candidates, steps' = LockAll(p, ids) PROVE RunIsAThread'
    BY <1>1, <2>2, HoldLocked, ThreadKept DEF RowsHold
  <2> QED BY <1>5, <2>1, <2>2 DEF Fetch, FetchFails
<1>6. CASE Tick
  <2>1. SameIds /\ \A id \in RowIds : RowOf(id)' = Older(RowOf(id)) BY <1>1, <1>6, OlderIs
  <2>2. \A id \in RowIds : Older(RowOf(id)).status = RowOf(id).status
    BY <1>1, RowIdsAre DEF Older, RowType
  <2> QED BY <1>1, <2>1, <2>2, ThreadKept
<1>7. ASSUME \/ \E p \in Processes : EndPoll(p) \/ FireFails(p) \/ Crash(p) \/ Restart(p)
             \/ \E p, q \in Processes : Fire(p, q)
             \/ Edit \/ (\E r \in Runs : ChangeMember(r)) \/ UNCHANGED vars
      PROVE  RunIsAThread'
  BY <1>4, <1>7 DEF EndPoll, FireFails, Crash, Restart, Fire, Edit, ChangeMember, vars
<1> QED BY <1>2, <1>3, <1>5, <1>6, <1>7 DEF Next

(* Only the last row of a run may be unfinished: markStepFinished and the  *)
(* insertion of the next row are one transaction that asks for the lock,   *)
(* and an action of a path is followed by at most one.                     *)
THEOREM RunIsAThread_holds == Spec => []RunIsAThread
<1>1. Init => Typed /\ RunIsAThread
  BY Initially DEF Init, RunIsAThread
<1>2. Typed /\ RunIsAThread /\ [Next]_vars => (Typed /\ RunIsAThread)'
  BY Typing_step, Thread_step
<1> QED BY <1>1, <1>2, PTL DEF Spec

-----------------------------------------------------------------------------
(* No step is forgotten.  Soon is Coming after the step.                   *)
Soon(t) ==
    \E p \in Processes :
        \/ queued'[p] \/ phase'[p] = "fetch"
        \/ phase'[p] = "work" /\ next'[p] <= t
        \/ \E timer \in timers'[p] : timer <= t

Watched(j) ==
    RowOf(j)'.status = "pending" =>
        IF RowOf(j)'.lock = NoProcess THEN Soon(RowOf(j)'.readyIn)
        ELSE \E v \in workers'[RowOf(j)'.lock] : v.id = j

LEMMA AllWatched ==
  (Reliable' => \A j \in RowIds' : Watched(j)) => NoStepForgotten'
  BY DEF NoStepForgotten, Watched, Soon, Coming

LEMMA NoFault ==
  ASSUME Typed, Reliable'
  PROVE  \A k \in FaultKinds : ~Count(k)
<1> SUFFICES ASSUME NEW k \in FaultKinds, Count(k) PROVE FALSE OBVIOUS
<1>1. k \in Kinds BY FaultsAreKinds
<1>2. spent[k] \in Nat BY <1>1 DEF Typed, TypeOK
<1>3. spent'[k] = spent[k] + 1 BY <1>1, Counted
<1> QED BY <1>2, <1>3 DEF Reliable

LEMMA StillReliable ==
  ASSUME Typed, [Next]_vars, Reliable'
  PROVE  Reliable
<1>1. ASSUME NEW k \in Kinds, Count(k) PROVE Reliable
  BY <1>1, NoFault DEF Count, Reliable, Typed, TypeOK, Kinds
<1>2. ASSUME UNCHANGED spent PROVE Reliable BY <1>2 DEF Reliable
<1>3. ASSUME NEW p \in Processes, Fetch(p) PROVE Reliable
  <2>1. PICK n : spent' = [spent EXCEPT !["expiry"] = n] BY <1>3 DEF Fetch
  <2>2. \A k \in FaultKinds : k # "expiry" /\ k \in Kinds BY DEF FaultKinds, Kinds
  <2>3. \A k \in FaultKinds : spent'[k] = spent[k] BY <2>1, <2>2 DEF Typed, TypeOK
  <2> QED BY <2>3 DEF Reliable
<1>4. ASSUME NEW p \in Processes, NEW w,
             \/ StopFails(p, w) \/ FinishFails(p, w) \/ HandleFailureFails(p, w)
             \/ SendFails(p, w) /\ ~UNCHANGED spent
      PROVE  FALSE
  BY <1>4, NoFault, FaultsAreKinds DEF StopFails, FinishFails, HandleFailureFails, SendFails
<1>5. ASSUME NEW p \in Processes, Work(p) \/ WorkFails(p) PROVE UNCHANGED spent
  BY <1>4, <1>5 DEF Work, WorkFails, Stop, Go, Send, Finish, HandleFailure
<1>6. ASSUME NEW p \in Processes, FetchFails(p) \/ FireFails(p) \/ Crash(p)
      PROVE  FALSE
  BY <1>6, NoFault, FaultsAreKinds DEF FetchFails, FireFails, Crash
<1>7. ASSUME \/ \E p \in Processes, r \in Runs : Trigger(p, r)
             \/ Edit \/ \E r \in Runs : ChangeMember(r)
      PROVE  Reliable
  BY <1>1, <1>7, FaultsAreKinds DEF Trigger, Edit, ChangeMember
<1>8. ASSUME \/ \E p \in Processes : EndPoll(p) \/ Restart(p)
             \/ \E p, q \in Processes : Fire(p, q)
             \/ Tick \/ UNCHANGED vars
      PROVE  UNCHANGED spent
  BY <1>8 DEF EndPoll, Restart, Fire, Tick, vars
<1> QED BY <1>2, <1>3, <1>5, <1>6, <1>7, <1>8 DEF Next

\* A row that the step does not touch stays in the hands it was in.
SameRow(j) ==
    /\ j \in RowIds
    /\ RowOf(j)'.status = RowOf(j).status /\ RowOf(j)'.lock = RowOf(j).lock
    /\ RowOf(j)'.readyIn = RowOf(j).readyIn
    /\ \A q \in Processes : \A u \in workers[q] :
         u.id = j /\ RowOf(j).lock = q /\ RowOf(j).status = "pending" =>
           \E v \in workers'[q] : v.id = j

LEMMA StaysWatched ==
  ASSUME Typed, NoStepForgotten, Reliable, NEW j, SameRow(j),
         \A t \in 0..MaxAhead : Coming(t) => Soon(t)
  PROVE  Watched(j)
<1>1. RowOf(j) \in RowType BY RowIdsAre DEF Typed, TypeOK, RowsTyped, SameRow
<1>2. RowOf(j).readyIn \in 0..MaxAhead /\ RowOf(j).lock \in Processes \cup {NoProcess}
  BY <1>1 DEF RowType
<1> SUFFICES ASSUME RowOf(j)'.status = "pending"
             PROVE  IF RowOf(j)'.lock = NoProcess THEN Soon(RowOf(j)'.readyIn)
                    ELSE \E v \in workers'[RowOf(j)'.lock] : v.id = j
  BY DEF Watched
<1>3. CASE RowOf(j).lock = NoProcess
  BY <1>2, <1>3 DEF NoStepForgotten, SameRow
<1>4. CASE RowOf(j).lock # NoProcess
  <2>1. PICK u \in workers[RowOf(j).lock] : u.id = j
    BY <1>4 DEF NoStepForgotten, SameRow
  <2> QED BY <1>2, <1>4, <2>1 DEF SameRow
<1> QED BY <1>3, <1>4

LEMMA SoonerOrSame ==
  ASSUME Typed, UNCHANGED <<phase, queued, timers>>,
         next' \in [Processes -> 0..Never], \A p \in Processes : next'[p] <= next[p]
  PROVE  \A t \in 0..MaxAhead : Coming(t) => Soon(t)
<1> SUFFICES ASSUME NEW t \in 0..MaxAhead, NEW p \in Processes,
                    \/ queued[p] \/ phase[p] = "fetch"
                    \/ phase[p] = "work" /\ next[p] <= t
                    \/ \E timer \in timers[p] : timer <= t
             PROVE  Soon(t)
  BY DEF Coming
<1>1. next[p] \in 0..Never /\ next'[p] \in 0..Never /\ next'[p] <= next[p] /\ t \in Nat
      /\ Never \in Nat
  BY Dates DEF Typed, TypeOK
<1>2. next[p] <= t => next'[p] <= t BY <1>1
<1> QED BY <1>2 DEF Soon

LEMMA PollSoon ==
  ASSUME NEW p \in Processes, queued'[p] \/ phase'[p] = "fetch"
  PROVE  \A t : Soon(t)
  BY DEF Soon

LEMMA DispatchPolls ==
  ASSUME Typed, NEW p \in Processes, Dispatch(p)
  PROVE  \A t : Soon(t)
<1>1. queued'[p] \/ phase'[p] = "fetch" BY DEF Dispatch, Typed, TypeOK
<1> QED BY <1>1, PollSoon

LEMMA SameRowIs ==
  ASSUME NEW j \in RowIds, RowOf(j)' = RowOf(j), UNCHANGED workers
  PROVE  SameRow(j)
  BY DEF SameRow

LEMMA FetchWatches ==
  ASSUME Typed, WorkersFit, NoStepForgotten, Reliable, NEW p \in Processes, Fetch(p),
         NEW j \in RowIds'
  PROVE  Watched(j)
<1>1. PICK ids \in Candidates :
        /\ steps' = LockAll(p, ids)
        /\ workers' = [workers EXCEPT ![p] = {Worker(id, p) : id \in ids}]
        /\ next' = [next EXCEPT ![p] = FirstNext(ids)]
  BY DEF Fetch
<1>2. /\ RowsHold /\ SameIds
      /\ \A id \in ids : RowOf(id)' = Lock(RowOf(id), p)
      /\ \A id \in RowIds \ ids : RowOf(id)' = RowOf(id)
  BY <1>1, HoldLocked
<1>3. /\ \A id \in ids : Worker(id, p) \in workers'[p] /\ Worker(id, p).id = id
      /\ \A q \in Processes \ {p} : workers'[q] = workers[q]
  BY <1>1, FetchedWorkers
<1>4. phase'[p] = "work" /\ next'[p] = FirstNext(ids) /\ workers[p] = {}
  BY <1>1 DEF Fetch, Typed, TypeOK, WorkersFit
<1>5. j \in RowIds /\ RowOf(j) \in RowType BY <1>2 DEF SameIds, RowsHold
<1>6. CASE j \in ids
  <2>1. RowOf(j)'.lock = p BY <1>2, <1>5, <1>6 DEF Lock, RowType
  <2>2. p # NoProcess BY AutomationAssumption
  <2> QED BY <1>3, <1>6, <2>1, <2>2 DEF Watched
<1>7. CASE j \notin ids
  <2> SUFFICES ASSUME RowOf(j).status = "pending"
               PROVE  IF RowOf(j).lock = NoProcess THEN Soon(RowOf(j).readyIn)
                      ELSE \E v \in workers'[RowOf(j).lock] : v.id = j
    BY <1>2, <1>5, <1>7 DEF Watched
  <2>1. CASE RowOf(j).lock = NoProcess
    <3>1. Unlocked(RowOf(j)) BY <2>1 DEF Unlocked
    <3>2. next'[p] <= RowOf(j).readyIn BY <1>4, <1>5, <1>7, <3>1, FirstNextIs
    <3>3. Soon(RowOf(j).readyIn) BY <1>4, <3>2 DEF Soon
    <3> QED BY <2>1, <3>3
  <2>2. CASE RowOf(j).lock # NoProcess
    <3>1. RowOf(j).lock \in Processes BY <1>5, <2>2 DEF RowType
    <3>2. PICK u \in workers[RowOf(j).lock] : u.id = j
      BY <1>5, <2>2 DEF NoStepForgotten
    <3>3. RowOf(j).lock # p BY <1>4, <3>2
    <3> QED BY <1>3, <2>2, <3>1, <3>2, <3>3
  <2> QED BY <2>1, <2>2
<1> QED BY <1>6, <1>7

LEMMA TickWatches ==
  ASSUME Typed, NoStepForgotten, Reliable, Tick, NEW j \in RowIds'
  PROVE  Watched(j)
<1>1. RowsTyped BY DEF Typed, TypeOK, RowsTyped
<1>2. SameIds /\ \A id \in RowIds : RowOf(id)' = Older(RowOf(id)) BY <1>1, OlderIs
<1>3. j \in RowIds /\ RowOf(j) \in RowType BY <1>1, <1>2, RowIdsAre DEF SameIds
<1>4. /\ RowOf(j)'.status = RowOf(j).status /\ RowOf(j)'.lock = RowOf(j).lock
      /\ RowOf(j)'.readyIn = Passed(RowOf(j).readyIn)
  BY <1>2, <1>3 DEF Older, RowType
<1>5. ASSUME NEW t \in 0..MaxAhead, Coming(t) PROVE Soon(Passed(t))
  <2>1. PICK p \in Processes : \/ queued[p] \/ phase[p] = "fetch"
                               \/ phase[p] = "work" /\ next[p] <= t
                               \/ \E timer \in timers[p] : timer <= t
    BY <1>5 DEF Coming
  <2>2. t \in 0..Never /\ next[p] \in 0..Never /\ timers[p] \subseteq 0..Never
    <3>1. MaxAhead \in Nat /\ Never = MaxAhead + 1 BY Dates
    <3>2. 0..MaxAhead \subseteq 0..Never BY <3>1
    <3> QED BY <3>2 DEF Typed, TypeOK
  <2>3. /\ queued'[p] = queued[p] /\ phase'[p] = phase[p] /\ next'[p] = Passed(next[p])
        /\ timers'[p] = {Passed(u) : u \in timers[p]}
    BY DEF Tick
  <2>4. CASE queued[p] \/ phase[p] = "fetch" BY <2>3, <2>4 DEF Soon
  <2>5. CASE phase[p] = "work" /\ next[p] <= t
    <3>1. Passed(next[p]) <= Passed(t) BY <2>2, <2>5, PassedIs
    <3> QED BY <2>3, <2>5, <3>1 DEF Soon
  <2>6. ASSUME NEW timer \in timers[p], timer <= t PROVE Soon(Passed(t))
    <3>1. Passed(timer) <= Passed(t) BY <2>2, <2>6, PassedIs
    <3>2. Passed(timer) \in timers'[p] BY <2>3
    <3> QED BY <3>1, <3>2 DEF Soon
  <2> QED BY <2>1, <2>4, <2>5, <2>6
<1>6. RowOf(j).readyIn \in 0..MaxAhead BY <1>3 DEF RowType
<1>7. UNCHANGED workers BY DEF Tick
<1>8. RowOf(j).status = "pending" =>
        IF RowOf(j).lock = NoProcess THEN Coming(RowOf(j).readyIn)
        ELSE \E v \in workers[RowOf(j).lock] : v.id = j
  BY <1>3 DEF NoStepForgotten
<1> QED BY <1>4, <1>5, <1>6, <1>7, <1>8 DEF Watched

\* The steps of a worker: the other rows keep their workers.
LEMMA OthersWatched ==
  ASSUME Typed, NoStepForgotten, Reliable, NEW p \in Processes, NEW w \in workers[p],
         WorkStep(p, w), NEW j \in RowIds \ {w.id}
  PROVE  Watched(j)
<1>1. RowOf(j)' = RowOf(j) BY RowStepIs DEF WorkStep
<1>2. workers \in [Processes -> SUBSET WorkerType] BY DEF Typed, TypeOK
<1>3. \A q \in Processes : \A u \in workers[q] : u.id = j => u \in workers'[q]
  BY <1>2 DEF WorkStep, Leave, MoveTo
<1>4. SameRow(j) BY <1>1, <1>3 DEF SameRow
<1>5. \A q \in Processes : next'[q] <= next[q]
  <2>1. \A q \in Processes : next[q] \in 0..Never /\ Never \in Nat BY Dates DEF Typed, TypeOK
  <2>2. \A q \in Processes \ {p} : next'[q] <= next[q] BY <2>1 DEF WorkStep
  <2> QED BY <2>2 DEF WorkStep
<1>6. \A t \in 0..MaxAhead : Coming(t) => Soon(t) BY <1>5, SoonerOrSame DEF WorkStep
<1> QED BY <1>4, <1>6, StaysWatched

LEMMA WorkerWatches ==
  ASSUME Typed, WorkersFit, NoStepForgotten, Reliable, Reliable',
         NEW p \in Processes, NEW w \in workers[p],
         \/ Stop(p, w) \/ Go(p, w) \/ Send(p, w) \/ SendFails(p, w)
         \/ Finish(p, w) \/ HandleFailure(p, w),
         NEW j \in RowIds'
  PROVE  Watched(j)
<1>1. WorkStep(p, w) BY WorkIs
<1>2. RowsTyped /\ w.id \in RowIds /\ w \in WorkerType /\ w.attempts \in Nat
  BY DEF Typed, TypeOK, RowsTyped, WorkerType
<1>3. RowOf(w.id) \in RowType BY <1>2, RowIdsAre
<1>4. workers \in [Processes -> SUBSET WorkerType] BY DEF Typed, TypeOK
<1>5. phase'[p] = "work"
  BY <1>1 DEF WorkStep, WorkersFit
<1>6. \A t \in 0..MaxAhead : Coming(t) => Soon(t)
  <2>1. \A q \in Processes : next[q] \in 0..Never /\ Never \in Nat BY Dates DEF Typed, TypeOK
  <2>2. \A q \in Processes : next'[q] <= next[q] BY <1>1, <2>1 DEF WorkStep
  <2> QED BY <1>1, <2>2, SoonerOrSame DEF WorkStep
<1> DEFINE id  == w.id
           row == RowOf(id)
\* A worker that does not hold its row leaves, and the row stays as it is.
<1>7. ASSUME ~Owns(row, p), RowOf(id)' = row, Leave(p, w) PROVE Watched(id)
  <2>1. \A q \in Processes : \A u \in workers[q] : u # w \/ q # p => u \in workers'[q]
    BY <1>4, <1>7 DEF Leave
  <2>2. SameRow(id) BY <1>2, <1>7, <2>1 DEF SameRow, Owns
  <2> QED BY <1>6, <2>2, StaysWatched
\* A worker that goes on keeps its row.
<1>8. ASSUME NEW at \in Ats, MoveTo(p, w, at),
             /\ RowOf(id)'.status = row.status /\ RowOf(id)'.lock = row.lock
             /\ RowOf(id)'.readyIn = row.readyIn
      PROVE  Watched(id)
  <2> DEFINE x == [w EXCEPT !.at = at]
  <2>1. x.id = id BY <1>2 DEF WorkerType
  <2>2. /\ x \in workers'[p]
        /\ \A q \in Processes \ {p} : workers'[q] = workers[q]
    BY <1>4, <1>8 DEF MoveTo
  <2> HIDE DEF x
  <2>3. SameRow(id) BY <1>2, <1>8, <2>1, <2>2 DEF SameRow
  <2> QED BY <1>6, <2>3, StaysWatched
\* A row that has come to its end needs no one.
<1>9. ASSUME NEW status \in Terminal, RowOf(id)' = [Unlock(row) EXCEPT !.status = status]
      PROVE  Watched(id)
  <2>1. RowOf(id)'.status = status BY <1>3, <1>9 DEF Unlock, RowType
  <2> QED BY <2>1 DEF Watched, Terminal
<1>10. CASE j \in RowIds /\ j # id BY <1>1, <1>10, OthersWatched
<1>11. /\ "finished" \in Terminal /\ "failed" \in Terminal
       /\ Ats = {"check", "send", "finish", "error"}
  BY DEF Terminal, Ats
<1>12. CASE Stop(p, w)
  <2>1. Verdict(w) \in Terminal BY <1>12 DEF Stop, Verdict, Terminal
  <2>2. /\ OnlyRow(id)
        /\ Owns(row, p) => RowOf(id)' = [Unlock(row) EXCEPT !.status = Verdict(w)]
        /\ ~Owns(row, p) => RowOf(id)' = row
    BY <1>2, <1>12, <2>1, TerminatedIs DEF Stop
  <2>3. Watched(id) BY <1>7, <1>9, <1>12, <2>1, <2>2 DEF Stop
  <2> QED BY <1>10, <2>2, <2>3 DEF OnlyRow, SameIds
<1>13. ASSUME Go(p, w) \/ (SendFails(p, w) /\ UNCHANGED steps) PROVE Watched(j)
  <2>1. RowOf(id)' = row /\ RowIds' = RowIds BY <1>13 DEF Go, SendFails, RowOf, Row, RowIds
  <2>2. Watched(id) BY <1>8, <1>11, <1>13, <2>1 DEF Go, SendFails
  <2> QED BY <1>10, <2>1, <2>2
<1>14. CASE Send(p, w)
  <2>1. [row EXCEPT !.sends = @ + 1] \in RowType BY <1>3, RowsWritten
  <2>2. OnlyRow(id) /\ RowOf(id)' = [row EXCEPT !.sends = @ + 1]
    BY <1>2, <1>14, <2>1, RowSet DEF Send
  <2>3. /\ RowOf(id)'.status = row.status /\ RowOf(id)'.lock = row.lock
        /\ RowOf(id)'.readyIn = row.readyIn
    BY <1>3, <2>2 DEF RowType
  <2>4. Watched(id) BY <1>8, <1>11, <1>14, <2>3 DEF Send
  <2> QED BY <1>10, <2>2, <2>4 DEF OnlyRow, SameIds
<1>15. CASE SendFails(p, w)
  BY <1>13, <1>15, NoFault, FaultsAreKinds DEF SendFails
<1>16. CASE HandleFailure(p, w)
  <2>1. /\ OnlyRow(id)
        /\ WillRetry(p, w) => RowOf(id)' = Retried(row)
        /\ Owns(row, p) /\ ~WillRetry(p, w) => RowOf(id)' = [Unlock(row) EXCEPT !.status = "failed"]
        /\ ~Owns(row, p) => RowOf(id)' = row
    BY <1>2, <1>16, FailureIs DEF HandleFailure
  <2>2. ASSUME WillRetry(p, w) PROVE Watched(id)
    <3>1. RowOf(id)'.lock = NoProcess /\ RowOf(id)'.readyIn = RetryDelay
      BY <1>3, <2>1, <2>2 DEF Retried, Unlock, RowType
    <3>2. next'[p] = Earlier(next[p], RetryDelay)
      BY <1>16, <2>2 DEF HandleFailure, Typed, TypeOK
    <3>3. next[p] \in 0..Never /\ RetryDelay \in Nat /\ Never \in Nat
      BY Dates DEF Typed, TypeOK
    <3>4. next'[p] <= RetryDelay BY <3>2, <3>3 DEF Earlier
    <3> QED BY <1>5, <3>1, <3>4 DEF Watched, Soon
  <2>3. Watched(id) BY <1>7, <1>9, <1>11, <1>16, <2>1, <2>2 DEF HandleFailure
  <2> QED BY <1>10, <2>1, <2>3 DEF OnlyRow, SameIds
<1>17. CASE Finish(p, w)
  <2>1. /\ Owns(row, p) => Finishes(p, id)
        /\ ~Owns(row, p) => OnlyRow(id) /\ RowOf(id)' = row
    BY <1>2, <1>17, FinishedIs DEF Finish
  <2>2. Watched(id) BY <1>7, <1>9, <1>11, <1>17, <2>1 DEF Finish, Finishes
  <2>3. CASE j \notin RowIds
    <3>1. PICK a \in Following(p, id) : RowOf(j)' = NewRow(a)
      BY <2>1, <2>3 DEF Finishes, OnlyRow, SameIds
    <3>2. RowOf(j)'.lock = NoProcess /\ RowOf(j)'.readyIn = ReadyIn(a) BY <3>1 DEF NewRow
    <3>3. next'[p] <= ReadyIn(a)
      <4> DEFINE dates == {next[p]} \cup {ReadyIn(b) : b \in Following(p, id)}
      <4>1. next[p] \in 0..Never /\ Never \in Nat /\ MaxAhead \in Nat
            /\ \A b : ReadyIn(b) \in 0..MaxAhead
        BY Dates DEF Typed, TypeOK
      <4>2. dates \subseteq Nat /\ ReadyIn(a) \in dates BY <4>1
      <4>3. next'[p] = Min(dates) BY <1>17 DEF Finish, Typed, TypeOK
      <4> HIDE DEF dates
      <4> QED BY <4>2, <4>3, MinIs
    <3> QED BY <1>5, <3>2, <3>3 DEF Watched, Soon
  <2> QED BY <1>10, <2>2, <2>3
<1> QED BY <1>12, <1>13, <1>14, <1>15, <1>16, <1>17

LEMMA Forgotten_step ==
  ASSUME Typed, WorkersFit, NoStepForgotten, [Next]_vars
  PROVE  NoStepForgotten'
<1> SUFFICES ASSUME Reliable', NEW j \in RowIds' PROVE Watched(j) BY AllWatched
<1>0. Reliable BY StillReliable
<1>1. ASSUME NEW p \in Processes, NEW r \in Runs, Trigger(p, r) PROVE Watched(j)
  <2>1. \A t : Soon(t) BY <1>1, DispatchPolls DEF Trigger
  <2>2. /\ \A i \in RowIds : i \in RowIds' /\ RowOf(i)' = RowOf(i)
        /\ \A i \in RowIds' : i \notin RowIds => RowOf(i)' = NewRow(Head(path))
    BY <1>1, TriggeredIs
  <2>3. CASE j \in RowIds
    BY <1>0, <1>1, <2>1, <2>2, <2>3, SameRowIs, StaysWatched DEF Trigger
  <2>4. CASE j \notin RowIds
    BY <2>1, <2>2, <2>4 DEF Watched, NewRow
  <2> QED BY <2>3, <2>4
<1>2. ASSUME NEW p \in Processes, Fetch(p) PROVE Watched(j)
  BY <1>0, <1>2, FetchWatches
<1>3. ASSUME NEW p \in Processes, Work(p) \/ WorkFails(p) PROVE Watched(j)
  <2>1. \A w : ~(StopFails(p, w) \/ FinishFails(p, w) \/ HandleFailureFails(p, w))
    BY NoFault, FaultsAreKinds DEF StopFails, FinishFails, HandleFailureFails
  <2> QED BY <1>0, <1>3, <2>1, WorkerWatches DEF Work, WorkFails
<1>4. CASE Tick BY <1>0, <1>4, TickWatches
<1>5. ASSUME NEW p \in Processes, FetchFails(p) \/ FireFails(p) \/ Crash(p) PROVE FALSE
  BY <1>5, NoFault, FaultsAreKinds DEF FetchFails, FireFails, Crash
\* The other steps touch neither rows nor workers.
<1>6. ASSUME UNCHANGED <<steps, workers>>, \A t \in 0..MaxAhead : Coming(t) => Soon(t)
      PROVE  Watched(j)
  <2>1. j \in RowIds /\ RowOf(j)' = RowOf(j) BY <1>6 DEF RowIds, RowOf, Row
  <2> QED BY <1>0, <1>6, <2>1, SameRowIs, StaysWatched
<1>7. ASSUME NEW p \in Processes, NEW q \in Processes, Fire(p, q) PROVE Watched(j)
  BY <1>6, <1>7, DispatchPolls DEF Fire
<1>8. ASSUME NEW p \in Processes, Restart(p) PROVE Watched(j)
  <2>1. phase'[p] = "fetch" BY <1>8 DEF Restart, Typed, TypeOK
  <2> QED BY <1>6, <1>8, <2>1, PollSoon DEF Restart
<1>9. ASSUME NEW p \in Processes, EndPoll(p) PROVE Watched(j)
  <2>1. ASSUME NEW t \in 0..MaxAhead, Coming(t) PROVE Soon(t)
    <3>1. next[p] \in 0..Never /\ Never = MaxAhead + 1 /\ MaxAhead \in Nat
      BY Dates DEF Typed, TypeOK
    <3>2. CASE queued[p] \/ next[p] = 0
      <4>1. phase'[p] = "fetch" BY <1>9, <3>2 DEF EndPoll, EndOfPoll, Typed, TypeOK
      <4> QED BY <4>1, PollSoon
    <3>3. CASE ~queued[p] /\ next[p] # 0
      <4>1. PICK q \in Processes : \/ queued[q] \/ phase[q] = "fetch"
                                   \/ phase[q] = "work" /\ next[q] <= t
                                   \/ \E timer \in timers[q] : timer <= t
        BY <2>1 DEF Coming
      <4>2. /\ \A r \in Processes \ {p} : /\ queued'[r] = queued[r] /\ phase'[r] = phase[r]
                                          /\ next'[r] = next[r] /\ timers'[r] = timers[r]
            /\ timers'[p] = timers[p] \cup ({next[p]} \ {0, Never})
            /\ phase[p] = "work"
        BY <1>9 DEF EndPoll, EndOfPoll, Typed, TypeOK
      <4>3. CASE q # p BY <4>1, <4>2, <4>3 DEF Soon
      <4>4. CASE q = p
        <5>1. CASE next[p] <= t
          <6>1. next[p] # Never BY <2>1, <3>1, <5>1
          <6>2. next[p] \in timers'[p] BY <3>3, <4>2, <6>1
          <6> QED BY <5>1, <6>2 DEF Soon
        <5>2. CASE \E timer \in timers[p] : timer <= t BY <4>2, <5>2 DEF Soon
        <5> QED BY <3>3, <4>1, <4>2, <4>4, <5>1, <5>2
      <4> QED BY <4>3, <4>4
    <3>4. queued[p] \in BOOLEAN BY DEF Typed, TypeOK
    <3> QED BY <3>2, <3>3
  <2> QED BY <1>6, <1>9, <2>1 DEF EndPoll
<1>10. ASSUME Edit \/ (\E r \in Runs : ChangeMember(r)) \/ UNCHANGED vars PROVE Watched(j)
  <2>1. UNCHANGED <<steps, phase, queued, next, workers, timers>>
    BY <1>10 DEF Edit, ChangeMember, vars
  <2> QED BY <1>6, <2>1, SoonerOrSame, NextKept
<1> QED
  BY <1>1, <1>2, <1>3, <1>4, <1>5, <1>7, <1>8, <1>9, <1>10 DEF Next

(* As long as nothing failed, a pending step is in the hands of a worker,  *)
(* or a poll is coming that is not later than the step: every poll leaves  *)
(* a date that is not later than what it left behind, oneAtATime remembers *)
(* a request during a poll, and what a worker adds or puts off it reports. *)
THEOREM NoStepForgotten_holds == Spec => []NoStepForgotten
<1>1. Init => Typed /\ WorkersFit /\ LastLockerHolds /\ NoStepForgotten
  <2>1. Init => RowIds = {} BY DEF Init, RowIds
  <2> QED BY <2>1, Initially DEF Init, WorkersFit, LastLockerHolds, NoStepForgotten
<1>2. Typed /\ WorkersFit /\ LastLockerHolds /\ NoStepForgotten /\ [Next]_vars
        => (Typed /\ WorkersFit /\ LastLockerHolds /\ NoStepForgotten)'
  BY Typing_step, Locks_step, Forgotten_step
<1> QED BY <1>1, <1>2, PTL DEF Spec

-----------------------------------------------------------------------------
(* How often a step sends its email.  Two workers of one row have its      *)
(* different attempts (Separate).  What a row has sent, the attempts that  *)
(* may still send or be tried again (Trying), and the attempt that may     *)
(* still begin, when no one holds the row (Free), are never more than the  *)
(* first attempt and those that a failure allowed.  And what was sent, and *)
(* the attempts that may still send (Sending), are among the attempts up   *)
(* to MAX_ATTEMPTS.                                                        *)
Separate ==
    \A p, q \in Processes : \A v \in workers[p] : \A w \in workers[q] :
        v.id = w.id /\ v.attempts = w.attempts => p = q /\ v = w

Numbers(id, ats) ==
    {n \in 1..RowOf(id).attempts :
        \E p \in Processes : \E w \in workers[p] :
            w.id = id /\ w.attempts = n /\ w.at \in ats}

Trying(id)  == Numbers(id, {"check", "send", "error"})
Sending(id) == {n \in Numbers(id, {"check", "send"}) : n <= MaxAttempts}
Free(id)    == IF RowOf(id).status = "pending" /\ RowOf(id).lock = NoProcess THEN 1 ELSE 0

Charged ==
    \A id \in RowIds :
        RowOf(id).sends + Cardinality(Trying(id)) + Free(id) <= 1 + Repeats

Attempted ==
    \A id \in RowIds :
        RowOf(id).sends + Cardinality(Sending(id))
            <= Earlier(RowOf(id).attempts, MaxAttempts)

SendersChecked ==
    \A p \in Processes : \A w \in workers[p] :
        w.at = "send" => w.attempts <= MaxAttempts

Sent == Separate /\ Charged /\ Attempted /\ SendersChecked

\* Sizes of finite sets of numbers.
LEMMA Sizes ==
  ASSUME NEW S, IsFiniteSet(S)
  PROVE  /\ Cardinality(S) \in Nat
         /\ \A T \in SUBSET S : Cardinality(T) \in Nat /\ Cardinality(T) <= Cardinality(S)
         /\ \A n, T : T \subseteq S \cup {n} =>
              Cardinality(T) \in Nat /\ Cardinality(T) <= Cardinality(S) + 1
         /\ \A n \in S : \A T \in SUBSET (S \ {n}) :
              Cardinality(T) \in Nat /\ Cardinality(T) <= Cardinality(S) - 1
<1>1. Cardinality(S) \in Nat BY FS_CardinalityType
<1>2. ASSUME NEW T \in SUBSET S
      PROVE  Cardinality(T) \in Nat /\ Cardinality(T) <= Cardinality(S)
  BY FS_Subset, FS_CardinalityType
<1>3. ASSUME NEW n, NEW T, T \subseteq S \cup {n}
      PROVE  Cardinality(T) \in Nat /\ Cardinality(T) <= Cardinality(S) + 1
  <2>1. IsFiniteSet(S \cup {n}) /\ Cardinality(S \cup {n}) <= Cardinality(S) + 1
    BY <1>1, FS_AddElement
  <2>2. Cardinality(S \cup {n}) \in Nat BY <2>1, FS_CardinalityType
  <2>3. IsFiniteSet(T) /\ Cardinality(T) <= Cardinality(S \cup {n}) BY <1>3, <2>1, FS_Subset
  <2>4. Cardinality(T) \in Nat BY <2>3, FS_CardinalityType
  <2> QED BY <1>1, <2>1, <2>2, <2>3, <2>4
<1>4. ASSUME NEW n \in S, NEW T \in SUBSET (S \ {n})
      PROVE  Cardinality(T) \in Nat /\ Cardinality(T) <= Cardinality(S) - 1
  <2>1. IsFiniteSet(S \ {n}) /\ Cardinality(S \ {n}) = Cardinality(S) - 1
    BY FS_RemoveElement
  <2>2. IsFiniteSet(T) /\ Cardinality(T) <= Cardinality(S \ {n}) BY <2>1, FS_Subset
  <2>3. Cardinality(T) \in Nat BY <2>2, FS_CardinalityType
  <2> QED BY <2>1, <2>2, <2>3
<1> QED BY <1>1, <1>2, <1>3, <1>4

LEMMA NumbersAre ==
  ASSUME Typed, NEW id \in RowIds
  PROVE  /\ IsFiniteSet(Trying(id)) /\ IsFiniteSet(Sending(id))
         /\ Cardinality(Trying(id)) \in Nat /\ Cardinality(Sending(id)) \in Nat
         /\ RowOf(id).sends \in Nat /\ RowOf(id).attempts \in Nat
         /\ Free(id) \in {0, 1}
<1>1. RowOf(id).attempts \in Nat /\ RowOf(id).sends \in Nat
  BY RowIdsAre DEF Typed, TypeOK, RowsTyped, RowType
<1> DEFINE all == 1..RowOf(id).attempts
<1>2. IsFiniteSet(all) BY <1>1, FS_Interval
<1>3. Trying(id) \subseteq all /\ Sending(id) \subseteq all
  BY DEF Trying, Sending, Numbers
<1> HIDE DEF all
<1>4. IsFiniteSet(Trying(id)) /\ IsFiniteSet(Sending(id)) BY <1>2, <1>3, FS_Subset
<1> QED BY <1>1, <1>4, FS_CardinalityType DEF Free

LEMMA RepeatsAre ==
  ASSUME Typed, [Next]_vars
  PROVE  /\ Repeats \in Nat /\ Repeats' \in Nat /\ Repeats' >= Repeats
         /\ Count("error") \/ Count("reply") => Repeats' = Repeats + 1
<1>1. /\ \A k \in Kinds : spent[k] \in Nat
      /\ "error" \in Kinds /\ "reply" \in Kinds /\ "expiry" \in Kinds
  BY FaultsAreKinds DEF Typed, TypeOK
<1> DEFINE e == spent["error"]
           r == spent["reply"]
           x == spent["expiry"]
<1>2. e \in Nat /\ r \in Nat /\ x \in Nat BY <1>1
<1>3. ASSUME NEW k \in Kinds, Count(k)
      PROVE  \A j \in Kinds : spent'[j] = IF j = k THEN spent[j] + 1 ELSE spent[j]
  BY <1>3 DEF Count, Typed, TypeOK
<1>4. Count("error") => spent'["error"] = e + 1 /\ spent'["reply"] = r /\ spent'["expiry"] = x
  BY <1>1, <1>3
<1>5. Count("reply") => spent'["error"] = e /\ spent'["reply"] = r + 1 /\ spent'["expiry"] = x
  BY <1>1, <1>3
<1> DEFINE Grown == \A k \in Kinds : spent'[k] \in Nat /\ spent'[k] >= spent[k]
<1>6. Grown
  <2>1. ASSUME NEW k \in Kinds, Count(k) PROVE Grown BY <1>1, <1>3, <2>1
  <2>2. ASSUME UNCHANGED spent PROVE Grown BY <1>1, <2>2
  <2>3. ASSUME NEW p \in Processes, Fetch(p) PROVE Grown
    <3>1. PICK ids \in Candidates :
            spent' = [spent EXCEPT !["expiry"] = @ + Cardinality(Expired(ids))]
      BY <2>3 DEF Fetch
    <3>2. Cardinality(Expired(ids)) \in Nat BY CandidatesAre
    <3>3. spent["expiry"] + Cardinality(Expired(ids)) \in Nat
          /\ spent["expiry"] + Cardinality(Expired(ids)) >= spent["expiry"]
      BY <1>1, <3>2
    <3>4. \A k \in Kinds : spent'[k] = IF k = "expiry"
                                        THEN spent["expiry"] + Cardinality(Expired(ids))
                                        ELSE spent[k]
      BY <3>1 DEF Typed, TypeOK
    <3> QED BY <1>1, <3>3, <3>4
  <2>4. ASSUME NEW p \in Processes, NEW w,
               \/ StopFails(p, w) \/ FinishFails(p, w) \/ HandleFailureFails(p, w)
               \/ SendFails(p, w)
        PROVE  Grown
    BY <2>1, <2>2, <2>4, FaultsAreKinds
       DEF StopFails, FinishFails, HandleFailureFails, SendFails
  <2>5. ASSUME NEW p \in Processes, Work(p) \/ WorkFails(p) PROVE Grown
    BY <2>2, <2>4, <2>5 DEF Work, WorkFails, Stop, Go, Send, Finish, HandleFailure
  <2>6. ASSUME \/ \E p \in Processes : FetchFails(p) \/ FireFails(p) \/ Crash(p)
               \/ \E p \in Processes, run \in Runs : Trigger(p, run)
               \/ Edit \/ \E run \in Runs : ChangeMember(run)
        PROVE  Grown
    BY <2>1, <2>6, FaultsAreKinds DEF FetchFails, FireFails, Crash, Trigger, Edit, ChangeMember
  <2>7. ASSUME \/ \E p \in Processes : EndPoll(p) \/ Restart(p)
               \/ \E p, q \in Processes : Fire(p, q)
               \/ Tick \/ UNCHANGED vars
        PROVE  Grown
    BY <2>2, <2>7 DEF EndPoll, Restart, Fire, Tick, vars
  <2> QED BY <2>3, <2>5, <2>6, <2>7 DEF Next
<1>7. Repeats = e + r + x /\ Repeats' = spent'["error"] + spent'["reply"] + spent'["expiry"]
  BY DEF Repeats
<1>8. /\ spent'["error"] \in Nat /\ spent'["error"] >= e
      /\ spent'["reply"] \in Nat /\ spent'["reply"] >= r
      /\ spent'["expiry"] \in Nat /\ spent'["expiry"] >= x
  BY <1>1, <1>6
<1> HIDE DEF e, r, x
<1> QED BY <1>2, <1>4, <1>5, <1>7, <1>8

\* Where the workers after the step of a worker come from.
LEMMA WorkersAfter ==
  ASSUME Typed, NEW p \in Processes, NEW w \in workers[p], WorkStep(p, w),
         NEW q \in Processes, NEW v \in workers'[q]
  PROVE  \/ v \in workers[q] /\ (q = p => v # w)
         \/ /\ q = p /\ v.id = w.id /\ v.attempts = w.attempts
            /\ \E at \in Ats : MoveTo(p, w, at) /\ v.at = at
<1>1. workers \in [Processes -> SUBSET WorkerType] /\ w \in WorkerType
  BY DEF Typed, TypeOK
<1>2. CASE q # p BY <1>1, <1>2, WorkersMove DEF WorkStep
<1>3. CASE q = p /\ Leave(p, w)
  <2>1. workers'[p] = workers[p] \ {w} BY <1>1, <1>3 DEF Leave
  <2> QED BY <1>3, <2>1
<1>4. ASSUME q = p, NEW at \in Ats, MoveTo(p, w, at)
      PROVE  \/ v \in workers[q] /\ v # w
             \/ v.id = w.id /\ v.attempts = w.attempts /\ v.at = at
  <2> DEFINE x == [w EXCEPT !.at = at]
  <2>1. workers'[p] = (workers[p] \ {w}) \cup {x} BY <1>1, <1>4 DEF MoveTo
  <2>2. x.id = w.id /\ x.attempts = w.attempts /\ x.at = at BY <1>1 DEF WorkerType
  <2> HIDE DEF x
  <2> QED BY <1>4, <2>1, <2>2
<1> QED BY <1>2, <1>3, <1>4 DEF WorkStep

\* A worker that goes on changes the numbers of its own row only, by its own.
LEMMA NumbersMove ==
  ASSUME Typed, WorkersFit, Separate, NEW p \in Processes, NEW w \in workers[p],
         WorkStep(p, w), NEW ats
  PROVE  /\ \A j \in RowIds \ {w.id} : Numbers(j, ats)' \subseteq Numbers(j, ats)
         /\ Numbers(w.id, ats)' \subseteq Numbers(w.id, ats) \cup {w.attempts}
         /\ w.at \in ats => Numbers(w.id, ats)' \subseteq Numbers(w.id, ats)
         /\ Leave(p, w) \/ (\E at \in Ats \ ats : MoveTo(p, w, at)) =>
              Numbers(w.id, ats)' \subseteq Numbers(w.id, ats) \ {w.attempts}
         /\ w.at \in ats => w.attempts \in Numbers(w.id, ats)
<1>1. workers \in [Processes -> SUBSET WorkerType] /\ w \in WorkerType /\ w.id \in RowIds
  BY DEF Typed, TypeOK
<1>2. \A j \in RowIds : RowOf(j)'.attempts = RowOf(j).attempts
  BY RowStepIs DEF WorkStep
<1>3. ASSUME NEW j \in RowIds, NEW n \in Numbers(j, ats)'
      PROVE  /\ n \in 1..RowOf(j).attempts
             /\ \E q \in Processes : \E v \in workers'[q] :
                  v.id = j /\ v.attempts = n /\ v.at \in ats
  BY <1>2 DEF Numbers
<1>4. \A q \in Processes : \A v \in workers'[q] :
        \/ v \in workers[q] /\ (q = p => v # w)
        \/ /\ q = p /\ v.id = w.id /\ v.attempts = w.attempts
           /\ \E at \in Ats : MoveTo(p, w, at) /\ v.at = at
  BY WorkersAfter
<1>5. ASSUME NEW j \in RowIds, NEW n \in Numbers(j, ats)'
      PROVE  n \in Numbers(j, ats) \/ (j = w.id /\ n = w.attempts)
  <2>1. PICK q \in Processes : \E v \in workers'[q] :
          v.id = j /\ v.attempts = n /\ v.at \in ats
    BY <1>3, <1>5
  <2>2. PICK v \in workers'[q] : v.id = j /\ v.attempts = n /\ v.at \in ats BY <2>1
  <2>3. n \in 1..RowOf(j).attempts BY <1>3, <1>5
  <2> QED BY <1>4, <2>2, <2>3 DEF Numbers
<1>6. w.at \in ats => w.attempts \in Numbers(w.id, ats)
  <2>1. w.attempts <= RowOf(w.id).attempts /\ w.attempts \in Nat \ {0}
        /\ RowOf(w.id).attempts \in Nat
    BY <1>1, RowIdsAre DEF WorkersFit, WorkerType, Typed, TypeOK, RowsTyped, RowType
  <2>2. w.attempts \in 1..RowOf(w.id).attempts BY <2>1
  <2> QED BY <2>2 DEF Numbers
<1>7. ASSUME Leave(p, w) \/ (\E at \in Ats \ ats : MoveTo(p, w, at)),
             NEW n \in Numbers(w.id, ats)'
      PROVE  n # w.attempts
  <2> SUFFICES ASSUME n = w.attempts PROVE FALSE OBVIOUS
  <2>1. PICK q \in Processes : \E v \in workers'[q] :
          v.id = w.id /\ v.attempts = n /\ v.at \in ats
    BY <1>1, <1>3, <1>7
  <2>2. PICK v \in workers'[q] : v.id = w.id /\ v.attempts = n /\ v.at \in ats BY <2>1
  <2>3. ~(v \in workers[q] /\ (q = p => v # w)) BY <2>2 DEF Separate
  <2>4. PICK at \in Ats : q = p /\ MoveTo(p, w, at) /\ v.at = at BY <1>4, <2>3
  <2>5. CASE Leave(p, w)
    <3>1. workers'[p] = workers[p] \ {w} BY <1>1, <2>5 DEF Leave
    <3> QED BY <2>3, <2>4, <3>1
  <2>6. ASSUME NEW to \in Ats \ ats, MoveTo(p, w, to) PROVE FALSE
    <3> DEFINE x == [w EXCEPT !.at = to]
    <3>1. workers'[p] = (workers[p] \ {w}) \cup {x} BY <1>1, <2>6 DEF MoveTo
    <3>2. x.at = to BY <1>1 DEF WorkerType
    <3> HIDE DEF x
    <3>3. v = x BY <2>2, <2>3, <2>4, <3>1
    <3> QED BY <2>2, <2>6, <3>2, <3>3
  <2> QED BY <1>7, <2>5, <2>6
<1>8. \A j \in RowIds \ {w.id} : Numbers(j, ats)' \subseteq Numbers(j, ats) BY <1>5
<1>9. Numbers(w.id, ats)' \subseteq Numbers(w.id, ats) \cup {w.attempts} BY <1>1, <1>5
<1> QED BY <1>6, <1>7, <1>8, <1>9

\* The other steps, but Fetch, add no worker.
LEMMA NumbersKept ==
  ASSUME Typed, WorkersFit, RowsHold, \A q \in Processes : workers'[q] \subseteq workers[q],
         NEW ats, NEW j \in RowIds
  PROVE  Numbers(j, ats)' \subseteq Numbers(j, ats)
<1> SUFFICES ASSUME NEW n \in Numbers(j, ats)' PROVE n \in Numbers(j, ats) OBVIOUS
<1>1. PICK q \in Processes : \E v \in workers'[q] :
        v.id = j /\ v.attempts = n /\ v.at \in ats
  BY DEF Numbers
<1>2. PICK v \in workers'[q] : v.id = j /\ v.attempts = n /\ v.at \in ats BY <1>1
<1>3. v \in workers[q] BY <1>2
<1>4. v.attempts <= RowOf(j).attempts /\ v.attempts \in Nat \ {0} /\ RowOf(j).attempts \in Nat
  BY <1>2, <1>3 DEF WorkersFit, Typed, TypeOK, WorkerType, RowsHold, RowType
<1>5. n \in 1..RowOf(j).attempts BY <1>2, <1>4
<1> QED BY <1>2, <1>3, <1>5 DEF Numbers

\* A row that was inserted in this step has no worker.
LEMMA NewNumbers ==
  ASSUME Typed, SameWork, NEW a, NEW j \in RowIds', j \notin RowIds, RowOf(j)' = NewRow(a)
  PROVE  /\ Trying(j)' = {} /\ Sending(j)' = {}
         /\ RowOf(j)'.sends = 0 /\ RowOf(j)'.attempts = 0 /\ Free(j)' \in {0, 1}
<1>1. RowOf(j)'.sends = 0 /\ RowOf(j)'.attempts = 0 BY DEF NewRow
<1>2. \A ats : Numbers(j, ats)' = {} BY <1>1 DEF Numbers
<1>3. Trying(j)' = {} /\ Sending(j)' = {} BY <1>2 DEF Trying, Sending
<1> QED BY <1>1, <1>3 DEF Free

ChargedRow(id) ==
    RowOf(id).sends + Cardinality(Trying(id)) + Free(id) <= 1 + Repeats

AttemptedRow(id) ==
    RowOf(id).sends + Cardinality(Sending(id)) <= Earlier(RowOf(id).attempts, MaxAttempts)

\* What was sent and what may be sent are numbers.
Countable ==
    \A id \in RowIds :
        /\ RowOf(id).sends \in Nat /\ RowOf(id).attempts \in Nat /\ Free(id) \in {0, 1}
        /\ IsFiniteSet(Trying(id)) /\ Cardinality(Trying(id)) \in Nat
        /\ IsFiniteSet(Sending(id)) /\ Cardinality(Sending(id)) \in Nat

LEMMA AreCountable == (Typed => Countable) /\ (Typed' => Countable')
<1>1. Typed => Countable BY NumbersAre DEF Countable
<1> QED BY <1>1, PTL

\* Other rows than that of the worker, or rows when no worker acts.
LEMMA RowCharged ==
  ASSUME Typed, Typed', [Next]_vars, NEW id \in RowIds, id \in RowIds',
         ChargedRow(id), AttemptedRow(id),
         RowOf(id)'.sends = RowOf(id).sends,
         RowOf(id)'.attempts >= RowOf(id).attempts,
         \A ats : Numbers(id, ats)' \subseteq Numbers(id, ats),
         Free(id)' <= Free(id)
  PROVE  ChargedRow(id)' /\ AttemptedRow(id)'
<1>1. Countable /\ Countable' BY AreCountable
<1>2. Trying(id)' \subseteq Trying(id) /\ Sending(id)' \subseteq Sending(id)
  BY DEF Trying, Sending
<1>3. /\ Cardinality(Trying(id)') <= Cardinality(Trying(id))
      /\ Cardinality(Sending(id)') <= Cardinality(Sending(id))
  BY <1>1, <1>2, Sizes DEF Countable
<1> DEFINE s  == RowOf(id).sends
           a  == RowOf(id).attempts
           a1 == RowOf(id)'.attempts
           t  == Cardinality(Trying(id))
           t1 == Cardinality(Trying(id)')
           d  == Cardinality(Sending(id))
           d1 == Cardinality(Sending(id)')
           f  == Free(id)
           f1 == Free(id)'
           r  == Repeats
           r1 == Repeats'
<1>4. /\ s \in Nat /\ a \in Nat /\ a1 \in Nat /\ t \in Nat /\ t1 \in Nat /\ d \in Nat /\ d1 \in Nat
      /\ f \in Nat /\ f1 \in Nat /\ MaxAttempts \in Nat
  BY <1>1, AutomationAssumption DEF Countable
<1>5. r \in Nat /\ r1 \in Nat /\ r1 >= r BY RepeatsAre
<1>6. s + t + f <= 1 + r BY DEF ChargedRow
<1>7. s + d <= Earlier(a, MaxAttempts) BY DEF AttemptedRow
<1>8. t1 <= t /\ d1 <= d /\ f1 <= f /\ a1 >= a BY <1>3
<1>9. (ChargedRow(id)' <=> s + t1 + f1 <= 1 + r1)
      /\ (AttemptedRow(id)' <=> s + d1 <= Earlier(a1, MaxAttempts))
  BY DEF ChargedRow, AttemptedRow
<1> HIDE DEF s, a, a1, t, t1, d, d1, f, f1, r, r1
<1>10. s + t1 + f1 <= 1 + r1 BY <1>4, <1>5, <1>6, <1>8
<1>11. s + d1 <= Earlier(a1, MaxAttempts) BY <1>4, <1>7, <1>8 DEF Earlier
<1> QED BY <1>9, <1>10, <1>11

LEMMA NewRowCharged ==
  ASSUME Typed, [Next]_vars, SameWork, NEW a, NEW j \in RowIds', j \notin RowIds,
         RowOf(j)' = NewRow(a)
  PROVE  ChargedRow(j)' /\ AttemptedRow(j)'
<1>1. /\ Trying(j)' = {} /\ Sending(j)' = {}
      /\ RowOf(j)'.sends = 0 /\ RowOf(j)'.attempts = 0 /\ Free(j)' \in {0, 1}
  BY NewNumbers
<1>2. Cardinality(Trying(j)') = 0 /\ Cardinality(Sending(j)') = 0 BY <1>1, FS_EmptySet
<1>3. Repeats' \in Nat /\ MaxAttempts \in Nat BY RepeatsAre, AutomationAssumption
<1> QED BY <1>1, <1>2, <1>3 DEF ChargedRow, AttemptedRow, Earlier

LEMMA OthersSent ==
  ASSUME Typed, Typed', WorkersFit, Sent, [Next]_vars,
         ~(\E p \in Processes : Work(p) \/ WorkFails(p) \/ Fetch(p))
  PROVE  Sent'
<1>1. RowsHold BY HoldIs
<1>2. Fewer BY OthersShrink
<1>3. SameWork BY <1>2 DEF SameWork, Fewer
<1>4. Separate' /\ SendersChecked'
  BY <1>2 DEF Sent, Separate, SendersChecked, Fewer
<1>5. ASSUME NEW id \in RowIds PROVE ChargedRow(id)' /\ AttemptedRow(id)'
  <2>1. id \in RowIds' /\ RowOf(id)'.sends = RowOf(id).sends
        /\ RowOf(id)'.attempts >= RowOf(id).attempts
    BY <1>1 DEF RowsHold
  <2>2. \A ats : Numbers(id, ats)' \subseteq Numbers(id, ats)
    BY <1>1, <1>2, NumbersKept DEF Fewer
  <2>3. Free(id)' <= Free(id) BY <1>1 DEF Free, RowsHold
  <2>4. ChargedRow(id) /\ AttemptedRow(id)
    BY DEF Sent, Charged, Attempted, ChargedRow, AttemptedRow
  <2> QED BY <2>1, <2>2, <2>3, <2>4, RowCharged
<1>6. ASSUME NEW id \in RowIds', id \notin RowIds PROVE ChargedRow(id)' /\ AttemptedRow(id)'
  <2>1. CASE \E p \in Processes : \E r \in Runs : Trigger(p, r)
    <3>1. RowOf(id)' = NewRow(Head(path)) BY <1>6, <2>1, TriggeredIs
    <3> QED BY <1>3, <1>6, <3>1, NewRowCharged
  <2>2. ASSUME ~(\E p \in Processes : \E r \in Runs : Trigger(p, r)) PROVE RowIds' = RowIds
    <3>1. RowsTyped BY DEF Typed, TypeOK, RowsTyped
    <3>2. ASSUME UNCHANGED steps PROVE RowIds' = RowIds BY <3>2 DEF RowIds
    <3>3. ASSUME NEW p \in Processes, FetchFails(p) PROVE RowIds' = RowIds
      BY <3>2, <3>3, HoldLocked DEF FetchFails, SameIds
    <3>4. CASE Tick BY <3>1, <3>4, OlderIs DEF SameIds
    <3>5. ASSUME \/ \E p \in Processes : EndPoll(p) \/ FireFails(p) \/ Crash(p) \/ Restart(p)
                 \/ \E p, q \in Processes : Fire(p, q)
                 \/ Edit \/ (\E r \in Runs : ChangeMember(r)) \/ UNCHANGED vars
          PROVE  UNCHANGED steps
      BY <3>5 DEF EndPoll, FireFails, Crash, Restart, Fire, Edit, ChangeMember, vars
    <3> QED BY <2>2, <3>2, <3>3, <3>4, <3>5 DEF Next
  <2> QED BY <1>6, <2>1, <2>2
<1> QED
  BY <1>4, <1>5, <1>6 DEF Sent, Charged, Attempted, ChargedRow, AttemptedRow

\* A poll begins an attempt of each of the rows it locks.
LEMMA FetchSent ==
  ASSUME Typed, Typed', WorkersFit, WorkersFit', Sent, [Next]_vars,
         NEW p \in Processes, Fetch(p)
  PROVE  Sent'
<1>1. PICK ids \in Candidates :
        /\ steps' = LockAll(p, ids)
        /\ workers' = [workers EXCEPT ![p] = {Worker(id, p) : id \in ids}]
        /\ spent' = [spent EXCEPT !["expiry"] = @ + Cardinality(Expired(ids))]
  BY DEF Fetch
<1>2. /\ RowsHold /\ SameIds
      /\ \A id \in ids : RowOf(id)' = Lock(RowOf(id), p)
      /\ \A id \in RowIds \ ids : RowOf(id)' = RowOf(id)
  BY <1>1, HoldLocked
<1>3. /\ \A v \in workers'[p] : \E id \in ids : v = Worker(id, p)
      /\ \A q \in Processes \ {p} : workers'[q] = workers[q]
      /\ \A id \in ids : /\ Worker(id, p).id = id /\ id \in RowIds
                         /\ Worker(id, p).attempts = RowOf(id).attempts + 1
  BY <1>1, FetchedWorkers
<1>4. workers[p] = {} BY DEF Fetch, WorkersFit
<1>5. \A id \in RowIds : RowOf(id).attempts \in Nat BY <1>2 DEF RowsHold, RowType
<1>6. \A q \in Processes : \A v \in workers[q] :
        v.id \in RowIds /\ v.attempts \in Nat /\ v.attempts <= RowOf(v.id).attempts
  BY DEF WorkersFit, Typed, TypeOK, WorkerType
<1>7. Separate'
  <2> SUFFICES ASSUME NEW q \in Processes, NEW r \in Processes,
                      NEW v \in workers'[q], NEW w \in workers'[r],
                      v.id = w.id, v.attempts = w.attempts
               PROVE  q = r
    BY DEF Separate, WorkersFit
  <2>1. ASSUME NEW a \in workers'[p], NEW x \in Processes \ {p}, NEW b \in workers'[x], a.id = b.id
        PROVE  a.attempts # b.attempts
    <3>1. PICK id \in ids : a = Worker(id, p) BY <1>3
    <3>2. a.id = id /\ a.attempts = RowOf(id).attempts + 1 /\ id \in RowIds BY <1>3, <3>1
    <3>3. b.attempts \in Nat /\ b.attempts <= RowOf(id).attempts BY <1>3, <1>6, <2>1, <3>2
    <3> QED BY <1>5, <3>2, <3>3
  <2>2. CASE q # p /\ r # p BY <1>3, <2>2 DEF Sent, Separate
  <2> QED BY <2>1, <2>2
<1>8. SendersChecked'
  BY <1>3 DEF Sent, SendersChecked, Worker
<1>9. ASSUME NEW id \in RowIds PROVE ChargedRow(id)' /\ AttemptedRow(id)'
  <2>1. id \in RowIds' /\ ChargedRow(id) /\ AttemptedRow(id)
    BY <1>2 DEF SameIds, Sent, Charged, Attempted, ChargedRow, AttemptedRow
  <2>2. CASE id \notin ids
    <3>1. RowOf(id)' = RowOf(id) BY <1>2, <2>2
    <3>2. ASSUME NEW ats, NEW n \in Numbers(id, ats)' PROVE n \in Numbers(id, ats)
      <4>1. PICK q \in Processes : \E v \in workers'[q] :
              v.id = id /\ v.attempts = n /\ v.at \in ats
        BY <3>2 DEF Numbers
      <4>2. q # p BY <1>3, <2>2, <4>1
      <4>3. n \in 1..RowOf(id).attempts BY <3>1, <3>2 DEF Numbers
      <4> QED BY <1>3, <4>1, <4>2, <4>3 DEF Numbers
    <3>3. Free(id)' = Free(id) BY <3>1 DEF Free
    <3>4. Free(id) \in {0, 1} BY DEF Free
    <3>5. RowOf(id)'.attempts >= RowOf(id).attempts /\ Free(id)' <= Free(id)
      BY <1>5, <3>1, <3>3, <3>4
    <3>6. \A ats : Numbers(id, ats)' \subseteq Numbers(id, ats) BY <3>2
    <3> QED BY <2>1, <3>1, <3>5, <3>6, RowCharged
  <2>3. CASE id \in ids
    <3> DEFINE s  == RowOf(id).sends
               a  == RowOf(id).attempts
               t  == Cardinality(Trying(id))
               t1 == Cardinality(Trying(id)')
               d  == Cardinality(Sending(id))
               d1 == Cardinality(Sending(id)')
               f  == Free(id)
               r  == Repeats
               r1 == Repeats'
    <3>1. /\ RowOf(id)'.sends = s /\ RowOf(id)'.attempts = a + 1
          /\ RowOf(id)'.lock = p /\ p # NoProcess
      BY <1>2, <2>3, AutomationAssumption DEF Lock, RowsHold, RowType
    <3>2. Free(id)' = 0 BY <3>1 DEF Free
    <3>3. ASSUME NEW ats, NEW n \in Numbers(id, ats)'
          PROVE  n \in Numbers(id, ats) \cup {a + 1}
      <4>1. PICK q \in Processes : \E v \in workers'[q] :
              v.id = id /\ v.attempts = n /\ v.at \in ats
        BY <3>3 DEF Numbers
      <4>2. PICK v \in workers'[q] : v.id = id /\ v.attempts = n /\ v.at \in ats BY <4>1
      <4>3. CASE q = p BY <1>3, <4>2, <4>3
      <4>4. CASE q # p
        <5>1. v \in workers[q] BY <1>3, <4>4
        <5>2. n \in 1..(a + 1) BY <3>1, <3>3 DEF Numbers
        <5>3. n \in 1..a BY <1>5, <1>6, <4>2, <5>1, <5>2
        <5> QED BY <4>2, <5>1, <5>3 DEF Numbers
      <4> QED BY <4>3, <4>4
    <3>4. Trying(id)' \subseteq Trying(id) \cup {a + 1} BY <3>3 DEF Trying
    <3>5. Sending(id)' \subseteq Sending(id) \cup {a + 1} BY <3>3 DEF Sending
    <3>6. ~(a + 1 <= MaxAttempts) => Sending(id)' \subseteq Sending(id)
      BY <3>3 DEF Sending
    <3>7. Countable BY AreCountable
    <3>8. t1 \in Nat /\ t1 <= t + 1 /\ d1 \in Nat /\ d1 <= d + 1
      <4>1. IsFiniteSet(Trying(id)) /\ IsFiniteSet(Sending(id)) BY <3>7 DEF Countable
      <4>2. t1 \in Nat /\ t1 <= t + 1 BY <3>4, <4>1, Sizes
      <4>3. d1 \in Nat /\ d1 <= d + 1 BY <3>5, <4>1, Sizes
      <4> QED BY <4>2, <4>3
    <3>9. ~(a + 1 <= MaxAttempts) => d1 <= d BY <3>6, <3>7, Sizes DEF Countable
    <3>10. f = 0 => r1 >= r + 1
      <4> SUFFICES ASSUME f = 0 PROVE r1 >= r + 1 OBVIOUS
      <4>1. Available(RowOf(id)) BY <2>3, CandidatesAre
      <4>2. RowOf(id).lockAge > LockTimeout
        BY <4>1 DEF Available, Unlocked, Free
      <4>3. Expired(ids) # {} BY <2>3, <4>2 DEF Expired
      <4> DEFINE c == Cardinality(Expired(ids))
                 e == spent["error"]
                 y == spent["reply"]
                 x == spent["expiry"]
      <4>4. c \in Nat /\ c >= 1 BY <4>3, CandidatesAre
      <4>5. e \in Nat /\ y \in Nat /\ x \in Nat BY FaultsAreKinds DEF Typed, TypeOK
      <4>6. spent'["error"] = e /\ spent'["reply"] = y /\ spent'["expiry"] = x + c
        BY <1>1, FaultsAreKinds DEF Typed, TypeOK
      <4>7. r = e + y + x /\ r1 = spent'["error"] + spent'["reply"] + spent'["expiry"]
        BY DEF Repeats
      <4> HIDE DEF c, e, y, x, r, r1
      <4> QED BY <4>4, <4>5, <4>6, <4>7
    <3>11. /\ s \in Nat /\ a \in Nat /\ t \in Nat /\ d \in Nat /\ MaxAttempts \in Nat
           /\ f = 0 \/ f = 1
      BY <3>7, AutomationAssumption DEF Countable
    <3>12. r \in Nat /\ r1 \in Nat /\ r1 >= r BY RepeatsAre
    <3>13. s + t + f <= 1 + r BY <2>1 DEF ChargedRow
    <3>14. s + d <= Earlier(a, MaxAttempts) BY <2>1 DEF AttemptedRow
    <3>15. /\ ChargedRow(id)' <=> s + t1 + 0 <= 1 + r1
           /\ AttemptedRow(id)' <=> s + d1 <= Earlier(a + 1, MaxAttempts)
      BY <3>1, <3>2 DEF ChargedRow, AttemptedRow
    <3> HIDE DEF s, a, t, t1, d, d1, f, r, r1
    <3>16. s + t1 + 0 <= 1 + r1
      <4>1. CASE f = 0 BY <3>8, <3>10, <3>11, <3>12, <3>13, <4>1
      <4>2. CASE f = 1 BY <3>8, <3>11, <3>12, <3>13, <4>2
      <4> QED BY <3>11, <4>1, <4>2
    <3>17. s + d1 <= Earlier(a + 1, MaxAttempts)
      BY <3>8, <3>9, <3>11, <3>14 DEF Earlier
    <3> QED BY <3>15, <3>16, <3>17
  <2> QED BY <2>2, <2>3
<1> QED
  BY <1>2, <1>7, <1>8, <1>9 DEF Sent, Charged, Attempted, ChargedRow, AttemptedRow, SameIds

\* The attempts of a row when its worker goes on or leaves.
LEMMA SizesMove ==
  ASSUME Typed, Typed', WorkersFit, Sent, NEW p \in Processes, NEW w \in workers[p],
         WorkStep(p, w)
  PROVE  LET id == w.id IN
         /\ Cardinality(Trying(id)') <= Cardinality(Trying(id)) + 1
         /\ w.at \in {"check", "send", "error"} \/ Leave(p, w) =>
              Cardinality(Trying(id)') <= Cardinality(Trying(id))
         /\ w.at \in {"check", "send", "error"} /\ (Leave(p, w) \/ MoveTo(p, w, "finish")) =>
              Cardinality(Trying(id)') <= Cardinality(Trying(id)) - 1
         /\ \/ w.at \in {"check", "send"}
            \/ Leave(p, w) \/ MoveTo(p, w, "finish") \/ MoveTo(p, w, "error")
            => Cardinality(Sending(id)') <= Cardinality(Sending(id))
         /\ w.at = "send" /\ (MoveTo(p, w, "finish") \/ MoveTo(p, w, "error")) =>
              Cardinality(Sending(id)') <= Cardinality(Sending(id)) - 1
<1> DEFINE id == w.id
           n  == w.attempts
           try  == {"check", "send", "error"}
           send == {"check", "send"}
<1>1. id \in RowIds BY DEF Typed, TypeOK
<1>2. IsFiniteSet(Trying(id)) /\ IsFiniteSet(Sending(id)) BY <1>1, NumbersAre
<1>3. Separate /\ (w.at = "send" => n <= MaxAttempts) BY DEF Sent, SendersChecked
<1>4. /\ "finish" \in Ats \ try /\ "finish" \in Ats \ send /\ "error" \in Ats \ send
  BY DEF Ats
<1>5. /\ Trying(id)' \subseteq Trying(id) \cup {n}
      /\ w.at \in try => Trying(id)' \subseteq Trying(id) /\ n \in Trying(id)
      /\ Leave(p, w) \/ MoveTo(p, w, "finish") => Trying(id)' \subseteq Trying(id) \ {n}
  BY <1>3, <1>4, NumbersMove DEF Trying
<1>6. /\ w.at \in send => Numbers(id, send)' \subseteq Numbers(id, send)
      /\ w.at \in send => n \in Numbers(id, send)
      /\ Leave(p, w) \/ MoveTo(p, w, "finish") \/ MoveTo(p, w, "error") =>
           Numbers(id, send)' \subseteq Numbers(id, send) \ {n}
  BY <1>3, <1>4, NumbersMove
<1>7. /\ w.at \in send => Sending(id)' \subseteq Sending(id)
      /\ w.at = "send" => n \in Sending(id)
      /\ Leave(p, w) \/ MoveTo(p, w, "finish") \/ MoveTo(p, w, "error") =>
           Sending(id)' \subseteq Sending(id) \ {n}
  BY <1>3, <1>6 DEF Sending
<1> HIDE DEF id, n
<1>8. Cardinality(Trying(id)') <= Cardinality(Trying(id)) + 1 BY <1>2, <1>5, Sizes
<1>9. ASSUME w.at \in try \/ Leave(p, w)
      PROVE  Cardinality(Trying(id)') <= Cardinality(Trying(id))
  <2>1. Trying(id)' \subseteq Trying(id) BY <1>5, <1>9
  <2> QED BY <1>2, <2>1, Sizes
<1>10. ASSUME w.at \in try, Leave(p, w) \/ MoveTo(p, w, "finish")
       PROVE  Cardinality(Trying(id)') <= Cardinality(Trying(id)) - 1
  BY <1>2, <1>5, <1>10, Sizes
<1>11. ASSUME \/ w.at \in send
              \/ Leave(p, w) \/ MoveTo(p, w, "finish") \/ MoveTo(p, w, "error")
       PROVE  Cardinality(Sending(id)') <= Cardinality(Sending(id))
  <2>1. Sending(id)' \subseteq Sending(id) BY <1>7, <1>11
  <2> QED BY <1>2, <2>1, Sizes
<1>12. ASSUME w.at = "send", MoveTo(p, w, "finish") \/ MoveTo(p, w, "error")
       PROVE  Cardinality(Sending(id)') <= Cardinality(Sending(id)) - 1
  <2>1. n \in Sending(id) /\ Sending(id)' \subseteq Sending(id) \ {n} BY <1>7, <1>12
  <2> QED BY <1>2, <2>1, Sizes
<1> QED BY <1>8, <1>9, <1>10, <1>11, <1>12 DEF id

\* What the step of a worker does to what its row sent and may send again.
LEMMA OwnRowIs ==
  ASSUME Typed, WorkersFit, NEW p \in Processes, NEW w \in workers[p]
  PROVE  LET id == w.id IN
         /\ Stop(p, w) \/ StopFails(p, w) \/ HandleFailure(p, w) \/ HandleFailureFails(p, w) =>
              RowOf(id)'.sends = RowOf(id).sends
         /\ Go(p, w) \/ Finish(p, w) \/ FinishFails(p, w) =>
              RowOf(id)'.sends = RowOf(id).sends /\ Free(id)' <= Free(id)
         /\ Send(p, w) =>
              RowOf(id)'.sends = RowOf(id).sends + 1 /\ Free(id)' <= Free(id)
         /\ SendFails(p, w) =>
              /\ Free(id)' <= Free(id)
              /\ \/ RowOf(id)'.sends = RowOf(id).sends
                 \/ RowOf(id)'.sends = RowOf(id).sends + 1 /\ Count("reply")
<1> DEFINE id  == w.id
           row == RowOf(id)
<1>1. RowsTyped /\ id \in RowIds /\ w.attempts \in Nat
  BY DEF Typed, TypeOK, RowsTyped, WorkerType
<1>2. row \in RowType BY <1>1, RowIdsAre
<1>3. Free(id) \in {0, 1} BY DEF Free
<1>4. ASSUME UNCHANGED steps
      PROVE  RowOf(id)'.sends = row.sends /\ Free(id)' <= Free(id)
  <2>1. RowOf(id)' = row BY <1>4 DEF RowOf, Row
  <2>2. Free(id)' = Free(id) BY <2>1 DEF Free
  <2> QED BY <1>3, <2>1, <2>2
<1>5. ASSUME NEW status \in Terminal, RowOf(id)' = [Unlock(row) EXCEPT !.status = status]
      PROVE  RowOf(id)'.sends = row.sends /\ Free(id)' <= Free(id)
  <2>1. RowOf(id)'.sends = row.sends /\ RowOf(id)'.status = status
    BY <1>2, <1>5 DEF Unlock, RowType
  <2>2. status # "pending" BY DEF Terminal
  <2>3. Free(id)' = 0 BY <2>1, <2>2 DEF Free
  <2> QED BY <1>3, <2>1, <2>3
<1>6. ASSUME RowOf(id)' = row
      PROVE  RowOf(id)'.sends = row.sends /\ Free(id)' <= Free(id)
  <2>1. Free(id)' = Free(id) BY <1>6 DEF Free
  <2> QED BY <1>3, <1>6, <2>1
<1>7. "finished" \in Terminal /\ "failed" \in Terminal BY DEF Terminal
<1>8. ASSUME NEW status \in Terminal, steps' = Terminated(p, id, status)
      PROVE  RowOf(id)'.sends = row.sends
  BY <1>1, <1>5, <1>6, <1>8, TerminatedIs
<1>9. ASSUME steps' = Failure(p, w) PROVE RowOf(id)'.sends = row.sends
  <2>1. Retried(row).sends = row.sends BY <1>2 DEF Retried, Unlock, RowType
  <2> QED BY <1>1, <1>5, <1>6, <1>7, <1>9, <2>1, FailureIs
<1>10. ASSUME steps' = Finished(p, id)
       PROVE  RowOf(id)'.sends = row.sends /\ Free(id)' <= Free(id)
  BY <1>1, <1>5, <1>6, <1>7, <1>10, FinishedIs DEF Finishes
<1>11. ASSUME steps' = SetRow(id, [row EXCEPT !.sends = @ + 1])
       PROVE  RowOf(id)'.sends = row.sends + 1 /\ Free(id)' <= Free(id)
  <2>1. [row EXCEPT !.sends = @ + 1] \in RowType BY <1>2, RowsWritten
  <2>2. RowOf(id)' = [row EXCEPT !.sends = @ + 1] BY <1>1, <1>11, <2>1, RowSet
  <2>3. /\ RowOf(id)'.sends = row.sends + 1
        /\ RowOf(id)'.status = row.status /\ RowOf(id)'.lock = row.lock
    BY <1>2, <2>2 DEF RowType
  <2>4. Free(id)' = Free(id) BY <2>3 DEF Free
  <2> QED BY <1>3, <2>3, <2>4
<1>12. Verdict(w) # "go" => Verdict(w) \in Terminal BY DEF Verdict, Terminal
<1>13. Stop(p, w) \/ StopFails(p, w) => RowOf(id)'.sends = row.sends
  BY <1>4, <1>8, <1>12 DEF Stop, StopFails
<1>14. HandleFailure(p, w) \/ HandleFailureFails(p, w) => RowOf(id)'.sends = row.sends
  BY <1>4, <1>9 DEF HandleFailure, HandleFailureFails
<1>15. Go(p, w) \/ Finish(p, w) \/ FinishFails(p, w) =>
         RowOf(id)'.sends = row.sends /\ Free(id)' <= Free(id)
  BY <1>4, <1>10 DEF Go, Finish, FinishFails
<1>16. Send(p, w) => RowOf(id)'.sends = row.sends + 1 /\ Free(id)' <= Free(id)
  BY <1>11 DEF Send
<1>17. SendFails(p, w) =>
         /\ Free(id)' <= Free(id)
         /\ \/ RowOf(id)'.sends = row.sends
            \/ RowOf(id)'.sends = row.sends + 1 /\ Count("reply")
  BY <1>4, <1>11 DEF SendFails
<1> QED BY <1>13, <1>14, <1>15, <1>16, <1>17

LEMMA OwnRowCharged ==
  ASSUME Typed, Typed', WorkersFit, Sent, [Next]_vars, NEW p \in Processes, NEW w \in workers[p],
         \/ Stop(p, w) \/ Go(p, w) \/ Send(p, w) \/ SendFails(p, w)
         \/ Finish(p, w) \/ HandleFailure(p, w)
         \/ StopFails(p, w) \/ FinishFails(p, w) \/ HandleFailureFails(p, w)
  PROVE  ChargedRow(w.id)' /\ AttemptedRow(w.id)'
<1> DEFINE id == w.id
           s  == RowOf(id).sends
           s1 == RowOf(id)'.sends
           a  == RowOf(id).attempts
           t  == Cardinality(Trying(id))
           t1 == Cardinality(Trying(id)')
           d  == Cardinality(Sending(id))
           d1 == Cardinality(Sending(id)')
           f  == Free(id)
           f1 == Free(id)'
           r  == Repeats
           r1 == Repeats'
<1>1. WorkStep(p, w) BY WorkIs
<1>2. id \in RowIds /\ id \in RowIds' /\ RowOf(id)'.attempts = a
  BY <1>1, RowStepIs DEF WorkStep, Typed, TypeOK
<1>3. Countable /\ Countable' BY AreCountable
<1>4. /\ s \in Nat /\ s1 \in Nat /\ a \in Nat /\ t \in Nat /\ t1 \in Nat /\ d \in Nat /\ d1 \in Nat
      /\ f \in {0, 1} /\ f1 \in {0, 1} /\ MaxAttempts \in Nat
  BY <1>2, <1>3, AutomationAssumption DEF Countable
<1>5. /\ r \in Nat /\ r1 \in Nat /\ r1 >= r
      /\ Count("error") \/ Count("reply") => r1 = r + 1
  BY RepeatsAre
<1>6. s + t + f <= 1 + r /\ s + d <= Earlier(a, MaxAttempts)
  BY <1>2 DEF Sent, Charged, Attempted
<1>7. /\ ChargedRow(id)' <=> s1 + t1 + f1 <= 1 + r1
      /\ AttemptedRow(id)' <=> s1 + d1 <= Earlier(a, MaxAttempts)
  BY <1>2 DEF ChargedRow, AttemptedRow
<1>8. /\ t1 <= t + 1
      /\ w.at \in {"check", "send", "error"} \/ Leave(p, w) => t1 <= t
      /\ w.at \in {"check", "send", "error"} /\ (Leave(p, w) \/ MoveTo(p, w, "finish")) =>
           t1 <= t - 1
      /\ \/ w.at \in {"check", "send"}
         \/ Leave(p, w) \/ MoveTo(p, w, "finish") \/ MoveTo(p, w, "error")
         => d1 <= d
      /\ w.at = "send" /\ (MoveTo(p, w, "finish") \/ MoveTo(p, w, "error")) => d1 <= d - 1
  BY <1>1, SizesMove
<1>9. /\ Stop(p, w) \/ StopFails(p, w) \/ HandleFailure(p, w) \/ HandleFailureFails(p, w) =>
           s1 = s
      /\ Go(p, w) \/ Finish(p, w) \/ FinishFails(p, w) => s1 = s /\ f1 <= f
      /\ Send(p, w) => s1 = s + 1 /\ f1 <= f
      /\ SendFails(p, w) => f1 <= f /\ (s1 = s \/ (s1 = s + 1 /\ Count("reply")))
  BY OwnRowIs
<1> HIDE DEF id, s, s1, a, t, t1, d, d1, f, f1, r, r1
<1> DEFINE Within == s1 + t1 + f1 <= 1 + r1 /\ s1 + d1 <= Earlier(a, MaxAttempts)
<1>10. Earlier(a, MaxAttempts) \in Nat BY <1>4 DEF Earlier
<1>11. ASSUME s1 = s, d1 <= d, \/ t1 <= t - 1
                               \/ t1 <= t /\ f1 <= f
                               \/ t1 <= t + 1 /\ f1 <= f /\ r1 = r + 1
       PROVE  Within
  <2>1. s1 + d1 <= Earlier(a, MaxAttempts) BY <1>4, <1>6, <1>10, <1>11
  <2>2. s1 + t1 + f1 <= 1 + r1 BY <1>4, <1>5, <1>6, <1>11
  <2> QED BY <2>1, <2>2
<1>12. ASSUME s1 = s + 1, d1 <= d - 1, f1 <= f,
              t1 <= t - 1 \/ (t1 <= t /\ r1 = r + 1)
       PROVE  Within
  <2>1. s1 + d1 <= Earlier(a, MaxAttempts) BY <1>4, <1>6, <1>10, <1>12
  <2>2. s1 + t1 + f1 <= 1 + r1 BY <1>4, <1>5, <1>6, <1>12
  <2> QED BY <2>1, <2>2
<1>13. d1 <= d - 1 => d1 <= d BY <1>4
<1> HIDE DEF Within
\* A worker that gives up: its attempt is charged no more, the row may be free.
<1>14. CASE Stop(p, w) \/ StopFails(p, w) \/ HandleFailure(p, w) \/ HandleFailureFails(p, w)
  <2>1. Leave(p, w) /\ w.at \in {"check", "send", "error"}
    BY <1>14 DEF Stop, StopFails, HandleFailure, HandleFailureFails
  <2>2. s1 = s BY <1>9, <1>14
  <2>3. Within BY <1>8, <1>11, <2>1, <2>2
  <2> QED BY <1>7, <2>3 DEF Within, id
<1>15. CASE Go(p, w)
  <2>1. w.at = "check" BY <1>15 DEF Go
  <2>2. Within BY <1>8, <1>9, <1>11, <1>15, <2>1
  <2> QED BY <1>7, <2>2 DEF Within, id
<1>16. CASE Send(p, w)
  <2>1. w.at = "send" /\ MoveTo(p, w, "finish") BY <1>16 DEF Send
  <2>2. Within BY <1>8, <1>9, <1>12, <1>16, <2>1
  <2> QED BY <1>7, <2>2 DEF Within, id
<1>17. CASE SendFails(p, w)
  <2>1. w.at = "send" /\ MoveTo(p, w, "error") BY <1>17 DEF SendFails
  <2>2. t1 <= t /\ d1 <= d - 1 /\ f1 <= f BY <1>8, <1>9, <1>17, <2>1
  <2>3. ASSUME s1 = s PROVE Within BY <1>11, <1>13, <2>2, <2>3
  <2>4. ASSUME s1 = s + 1, Count("reply") PROVE Within BY <1>5, <1>12, <2>2, <2>4
  <2>5. Within BY <1>9, <1>17, <2>3, <2>4
  <2> QED BY <1>7, <2>5 DEF Within, id
<1>18. CASE Finish(p, w) \/ FinishFails(p, w)
  <2>1. s1 = s /\ f1 <= f /\ t1 <= t + 1 BY <1>8, <1>9, <1>18
  <2>2. Leave(p, w) \/ (MoveTo(p, w, "error") /\ r1 = r + 1)
    BY <1>5, <1>18 DEF Finish, FinishFails
  <2>3. d1 <= d BY <1>8, <2>2
  <2>4. ASSUME MoveTo(p, w, "error"), r1 = r + 1 PROVE Within BY <1>11, <2>1, <2>3, <2>4
  <2>5. ASSUME Finish(p, w) PROVE Within
    <3>1. t1 <= t BY <1>8, <2>5 DEF Finish
    <3> QED BY <1>11, <2>1, <2>3, <3>1
  <2>6. FinishFails(p, w) => MoveTo(p, w, "error") /\ r1 = r + 1 BY <1>5 DEF FinishFails
  <2>7. Within BY <1>18, <2>4, <2>5, <2>6
  <2> QED BY <1>7, <2>7 DEF Within, id
<1> QED BY <1>14, <1>15, <1>16, <1>17, <1>18

LEMMA WorkSent ==
  ASSUME Typed, Typed', WorkersFit, WorkersFit', Sent, [Next]_vars,
         NEW p \in Processes, NEW w \in workers[p],
         \/ Stop(p, w) \/ Go(p, w) \/ Send(p, w) \/ SendFails(p, w)
         \/ Finish(p, w) \/ HandleFailure(p, w)
         \/ StopFails(p, w) \/ FinishFails(p, w) \/ HandleFailureFails(p, w)
  PROVE  Sent'
<1>1. WorkStep(p, w) BY WorkIs
<1>2. workers \in [Processes -> SUBSET WorkerType] /\ w \in WorkerType /\ w.id \in RowIds
  BY DEF Typed, TypeOK
<1>3. /\ \A j \in RowIds : j \in RowIds' /\ RowOf(j).attempts \in Nat /\ RowOf(j).sends \in Nat
      /\ \A j \in RowIds \ {w.id} : RowOf(j)' = RowOf(j)
  BY <1>1, RowStepIs, NumbersAre DEF WorkStep
<1>4. SameWork BY <1>1, WorkersMove DEF WorkStep
<1>5. Separate'
  <2> SUFFICES ASSUME NEW q \in Processes, NEW r \in Processes,
                      NEW u \in workers'[q], NEW v \in workers'[r],
                      u.id = v.id, u.attempts = v.attempts
               PROVE  q = r
    BY DEF Separate, WorkersFit
  <2> QED BY <1>4 DEF SameWork, Sent, Separate
<1>6. SendersChecked'
  <2> SUFFICES ASSUME NEW q \in Processes, NEW v \in workers'[q], v.at = "send"
               PROVE  v.attempts <= MaxAttempts
    BY DEF SendersChecked
  <2>1. CASE v \in workers[q] BY <2>1 DEF Sent, SendersChecked
  <2>2. ASSUME v \notin workers[q] PROVE q = p /\ v.attempts = w.attempts
    BY <1>1, <2>2, WorkersAfter
  <2>3. ASSUME v \notin workers[q], Leave(p, w) \/ MoveTo(p, w, "finish") \/ MoveTo(p, w, "error")
        PROVE  FALSE
    <3> DEFINE x == [w EXCEPT !.at = "finish"]
               y == [w EXCEPT !.at = "error"]
    <3>1. x.at = "finish" /\ y.at = "error" BY <1>2 DEF WorkerType
    <3>2. workers'[p] \subseteq workers[p] \cup {x} \/ workers'[p] \subseteq workers[p] \cup {y}
      BY <1>2, <2>3 DEF Leave, MoveTo
    <3> HIDE DEF x, y
    <3> QED BY <2>2, <2>3, <3>1, <3>2
  <2>4. CASE Go(p, w) /\ v \notin workers[q]
    <3>1. ~Exceeded(w) BY <2>4 DEF Go, Verdict
    <3>2. w.attempts \in Nat /\ MaxAttempts \in Nat
      BY <1>2, AutomationAssumption DEF WorkerType
    <3> QED BY <2>2, <2>4, <3>1, <3>2 DEF Exceeded
  <2> QED
    BY <2>1, <2>3, <2>4
       DEF Stop, Send, SendFails, Finish, HandleFailure, StopFails, FinishFails,
           HandleFailureFails
<1>7. ASSUME NEW j \in RowIds \ {w.id} PROVE ChargedRow(j)' /\ AttemptedRow(j)'
  <2>1. j \in RowIds' /\ RowOf(j)' = RowOf(j) BY <1>3
  <2>2. RowOf(j)'.attempts >= RowOf(j).attempts BY <1>3, <2>1
  <2>3. Free(j)' <= Free(j) BY <2>1 DEF Free
  <2>4. \A ats : Numbers(j, ats)' \subseteq Numbers(j, ats) BY <1>1, NumbersMove DEF Sent
  <2>5. ChargedRow(j) /\ AttemptedRow(j)
    BY DEF Sent, Charged, Attempted, ChargedRow, AttemptedRow
  <2> QED BY <2>1, <2>2, <2>3, <2>4, <2>5, RowCharged
<1>8. ASSUME NEW j \in RowIds', j \notin RowIds PROVE ChargedRow(j)' /\ AttemptedRow(j)'
  <2>1. Finishes(p, w.id) BY <1>1, <1>8 DEF WorkStep, RowStep, KeptRows, OnlyRow, SameIds
  <2>2. PICK a \in Following(p, w.id) : RowOf(j)' = NewRow(a) BY <1>8, <2>1 DEF Finishes
  <2> QED BY <1>4, <1>8, <2>2, NewRowCharged
<1>9. ChargedRow(w.id)' /\ AttemptedRow(w.id)' BY OwnRowCharged
<1> QED
  BY <1>5, <1>6, <1>7, <1>8, <1>9 DEF Sent, Charged, Attempted, ChargedRow, AttemptedRow

LEMMA Sent_step ==
  ASSUME Typed, Typed', WorkersFit, WorkersFit', Sent, [Next]_vars
  PROVE  Sent'
<1>1. ASSUME NEW p \in Processes, Work(p) \/ WorkFails(p) PROVE Sent'
  BY <1>1, WorkSent DEF Work, WorkFails
<1> QED BY <1>1, FetchSent, OthersSent

(* A step sends its email once, and once more at most for each query or    *)
(* answer that failed and for each lock that expired under a worker that   *)
(* was too slow or that died; and never more than MAX_ATTEMPTS times: an   *)
(* attempt begins with a poll that counts it and ends with an update that  *)
(* only its own lock id lets through.                                      *)
THEOREM SentOnce_holds == Spec => []SentOnce
<1>1. Init => Typed /\ WorkersFit /\ LastLockerHolds /\ Sent
  <2>1. Init => RowIds = {} /\ \A p \in Processes : workers[p] = {} BY DEF Init, RowIds
  <2>2. Init => Sent BY <2>1 DEF Sent, Separate, Charged, Attempted, SendersChecked
  <2> QED BY <2>1, <2>2, Initially DEF WorkersFit, LastLockerHolds
<1>2. Typed /\ WorkersFit /\ LastLockerHolds /\ Sent /\ [Next]_vars
        => (Typed /\ WorkersFit /\ LastLockerHolds /\ Sent)'
  BY Typing_step, Locks_step, Sent_step
<1>3. Typed /\ Sent => SentOnce
  <2> SUFFICES ASSUME Typed, Sent, NEW id \in RowIds
               PROVE  RowOf(id).sends <= Earlier(MaxAttempts, 1 + Repeats)
    BY DEF SentOnce
  <2> DEFINE s == RowOf(id).sends
             a == RowOf(id).attempts
             t == Cardinality(Trying(id))
             d == Cardinality(Sending(id))
             f == Free(id)
             r == Repeats
  <2>1. s \in Nat /\ a \in Nat /\ t \in Nat /\ d \in Nat /\ f \in {0, 1} BY NumbersAre
  <2>2. r \in Nat /\ MaxAttempts \in Nat
    BY FaultsAreKinds, AutomationAssumption DEF Repeats, Typed, TypeOK
  <2>3. s + t + f <= 1 + r /\ s + d <= Earlier(a, MaxAttempts) BY DEF Sent, Charged, Attempted
  <2> HIDE DEF s, a, t, d, f, r
  <2>4. s <= 1 + r BY <2>1, <2>2, <2>3
  <2>5. Earlier(a, MaxAttempts) <= MaxAttempts /\ Earlier(a, MaxAttempts) \in Nat
    BY <2>1, <2>2 DEF Earlier
  <2>6. s <= MaxAttempts BY <2>1, <2>2, <2>3, <2>5
  <2>7. s <= Earlier(MaxAttempts, 1 + r) BY <2>4, <2>6 DEF Earlier
  <2> QED BY <2>7 DEF s, r
<1> QED BY <1>1, <1>2, <1>3, PTL DEF Spec

=============================================================================
