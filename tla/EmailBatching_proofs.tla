------------------------ MODULE EmailBatching_proofs ------------------------
(* Proofs about EmailBatching, for every number of members, every size of   *)
(* batches and every warm-up limit.                                         *)
EXTENDS EmailBatching, FiniteSetTheorems, WellFoundedInduction, TLAPS

-----------------------------------------------------------------------------
\* Sets of ids: they have an oldest and a newest member, and Newest(S, n) are
\* the n newest members of S.
LEMMA IdsAre ==
  /\ Ids \subseteq Nat /\ IsFiniteSet(Ids) /\ MaxId \in Nat
  /\ \A id \in Ids : id >= 1 /\ id <= MaxId
<1>1. MaxId \in Nat /\ 1 \in Int /\ MaxId \in Int BY BatchingAssumption
<1>2. IsFiniteSet(Ids) BY <1>1, FS_Interval DEF Ids
<1> QED BY <1>1, <1>2 DEF Ids

LEMMA LeastNat ==
  ASSUME NEW S \in SUBSET Nat, S # {}
  PROVE  \E n \in S : \A m \in S : n <= m
<1>1. IsWellFoundedOn(OpToRel(<, Nat), Nat) BY NatLessThanWellFounded
<1>2. PICK n \in S : \A m \in S : ~(<<m, n>> \in OpToRel(<, Nat)) BY <1>1, WFMin
<1>3. \A m \in S : ~(m < n) BY <1>2 DEF OpToRel
<1> QED BY <1>3

LEMMA OldestIs ==
  ASSUME NEW S \in SUBSET Ids, S # {}
  PROVE  Oldest(S) \in S /\ \A x \in S : Oldest(S) <= x
<1>1. S \in SUBSET Nat BY IdsAre
<1>2. \E id \in S : \A x \in S : id <= x BY <1>1, LeastNat
<1> QED BY <1>2 DEF Oldest

LEMMA GreatestId ==
  ASSUME NEW S \in SUBSET Ids, S # {}
  PROVE  \E n \in S : \A m \in S : m <= n
<1> DEFINE T == {MaxId - x : x \in S}
<1>1. T \in SUBSET Nat /\ T # {} BY IdsAre
<1>2. PICK d \in T : \A e \in T : d <= e BY <1>1, LeastNat
<1>3. PICK n \in S : d = MaxId - n BY <1>2
<1>4. \A m \in S : MaxId - n <= MaxId - m BY <1>2, <1>3
<1>5. MaxId \in Nat /\ \A m \in S : m \in Nat BY IdsAre
<1>6. \A m \in S : m <= n BY <1>4, <1>5
<1> QED BY <1>6

\* Sets of ids are finite.
LEMMA SizesOf ==
  ASSUME NEW S \in SUBSET Ids
  PROVE  /\ IsFiniteSet(S) /\ Cardinality(S) \in Nat
         /\ \A T \in SUBSET S : /\ Cardinality(T) \in Nat
                                /\ Cardinality(T) <= Cardinality(S)
         /\ \A n \in S : Cardinality(S \ {n}) = Cardinality(S) - 1
         /\ \A T \in SUBSET S :
               Cardinality(S \ T) = Cardinality(S) - Cardinality(T)
         /\ Cardinality(S) = 0 => S = {}
<1>1. IsFiniteSet(S) /\ Cardinality(S) \in Nat
  BY IdsAre, FS_Subset, FS_CardinalityType
<1>2. ASSUME NEW T \in SUBSET S
      PROVE  /\ Cardinality(T) \in Nat /\ Cardinality(T) <= Cardinality(S)
             /\ Cardinality(S \ T) = Cardinality(S) - Cardinality(T)
  <2>1. S \cap T = T OBVIOUS
  <2>2. IsFiniteSet(T) /\ Cardinality(T) <= Cardinality(S) BY <1>1, FS_Subset
  <2>3. Cardinality(T) \in Nat BY <2>2, FS_CardinalityType
  <2>4. Cardinality(S \ T) = Cardinality(S) - Cardinality(S \cap T)
    BY <1>1, FS_Difference
  <2> QED BY <2>1, <2>2, <2>3, <2>4
<1>3. \A n \in S : Cardinality(S \ {n}) = Cardinality(S) - 1
  BY <1>1, FS_RemoveElement
<1>4. Cardinality(S) = 0 => S = {} BY <1>1, FS_EmptySet
<1> QED BY <1>1, <1>2, <1>3, <1>4

LEMMA NewestIs ==
  ASSUME NEW S \in SUBSET Ids, NEW n \in Nat
  PROVE  /\ Newest(S, n) \subseteq S
         /\ \A x \in S : \A y \in Newest(S, n) : x > y => x \in Newest(S, n)
         /\ Cardinality(Newest(S, n)) =
               IF Cardinality(S) <= n THEN Cardinality(S) ELSE n
         /\ Cardinality(S) <= n => Newest(S, n) = S
<1> DEFINE N == Newest(S, n)
           Above(id) == {x \in S : x > id}
<1>0. S \subseteq Nat BY IdsAre
<1>1. N \subseteq S /\ N \in SUBSET Ids BY DEF Newest
<1>2. \A id \in S : id \in N <=> Cardinality(Above(id)) < n BY DEF Newest
<1>3. \A id : Above(id) \in SUBSET S /\ Above(id) \in SUBSET Ids OBVIOUS
<1>4. \A id : Cardinality(Above(id)) \in Nat BY <1>3, SizesOf
<1>11. \A id, x : x \in Above(id) <=> x \in S /\ x > id OBVIOUS
<1> HIDE DEF N, Above
<1>5. ASSUME NEW x \in S, NEW y \in N, x > y PROVE x \in N
  <2>0. x \in Nat /\ y \in Nat /\ y \in S BY <1>0, <1>1
  <2>1. ASSUME NEW z \in Above(x) PROVE z \in Above(y)
    <3>1. z \in S /\ z \in Nat /\ z > x BY <1>0, <1>11
    <3>2. z > y BY <1>5, <2>0, <3>1
    <3> QED BY <1>11, <3>1, <3>2
  <2>2. Above(x) \in SUBSET Above(y) BY <2>1
  <2>3. Cardinality(Above(x)) <= Cardinality(Above(y)) BY <1>3, <2>2, SizesOf
  <2>4. Cardinality(Above(y)) < n BY <1>2, <2>0
  <2>5. Cardinality(Above(x)) < n BY <1>4, <2>3, <2>4
  <2> QED BY <1>2, <2>5
<1>6. Cardinality(S) <= n => N = S
  <2> SUFFICES ASSUME Cardinality(S) <= n, NEW id \in S PROVE id \in N BY <1>1
  <2>1. Above(id) \in SUBSET (S \ {id}) BY <1>0, <1>11
  <2>2. Cardinality(Above(id)) <= Cardinality(S \ {id}) BY <2>1, SizesOf
  <2>3. Cardinality(S \ {id}) = Cardinality(S) - 1 /\ Cardinality(S) \in Nat
    BY SizesOf
  <2>4. Cardinality(Above(id)) < n BY <1>4, <2>2, <2>3
  <2> QED BY <1>2, <2>4
<1>7. Cardinality(N) <= n
  <2>1. CASE N = {}
    <3>1. Cardinality(N) = 0 BY <2>1, FS_EmptySet
    <3> QED BY <3>1
  <2>2. CASE N # {}
    <3>1. Oldest(N) \in N /\ \A x \in N : Oldest(N) <= x BY <1>1, <2>2, OldestIs
    <3> DEFINE o == Oldest(N)
    <3>2. (N \ {o}) \in SUBSET Above(o)
      <4>1. \A z \in N \ {o} : z \in S /\ z \in Nat /\ o \in Nat /\ o <= z /\ z # o
        BY <1>0, <1>1, <3>1
      <4>2. \A z \in N \ {o} : z > o BY <4>1
      <4> QED BY <1>11, <4>1, <4>2
    <3>3. Cardinality(N \ {o}) <= Cardinality(Above(o)) BY <1>3, <3>2, SizesOf
    <3>4. Cardinality(N \ {o}) = Cardinality(N) - 1 /\ Cardinality(N) \in Nat
      BY <1>1, <3>1, SizesOf
    <3>5. Cardinality(Above(o)) < n BY <1>1, <1>2, <3>1
    <3> HIDE DEF o
    <3> QED BY <1>4, <3>3, <3>4, <3>5
  <2> QED BY <2>1, <2>2
<1>8. N # S => Cardinality(N) >= n
  <2> SUFFICES ASSUME N # S PROVE Cardinality(N) >= n OBVIOUS
  <2>1. (S \ N) # {} /\ (S \ N) \in SUBSET Ids BY <1>1
  <2>2. PICK y \in S \ N : \A m \in S \ N : m <= y BY <2>1, GreatestId
  <2>3. Above(y) \in SUBSET N
    <3>1. \A z \in Above(y) : z \in S /\ z \in Nat /\ y \in Nat /\ z > y
      BY <1>0, <1>11, <2>2
    <3>2. \A z \in Above(y) : z \notin S \ N
      <4> SUFFICES ASSUME NEW z \in Above(y), z \in S \ N PROVE FALSE OBVIOUS
      <4>1. z <= y /\ z > y /\ z \in Nat /\ y \in Nat BY <2>2, <3>1
      <4> QED BY <4>1
    <3> QED BY <3>1, <3>2
  <2>4. Cardinality(Above(y)) <= Cardinality(N) BY <1>1, <2>3, SizesOf
  <2>5. ~(Cardinality(Above(y)) < n) BY <1>2, <2>2
  <2>6. Cardinality(N) \in Nat BY <1>1, SizesOf
  <2> QED BY <1>4, <2>4, <2>5, <2>6
<1>9. Cardinality(S) \in Nat /\ Cardinality(N) \in Nat
      /\ Cardinality(N) <= Cardinality(S)
  BY <1>1, SizesOf
<1>10. Cardinality(N) = IF Cardinality(S) <= n THEN Cardinality(S) ELSE n
  <2>1. CASE Cardinality(S) <= n BY <1>6, <2>1
  <2>2. CASE ~(Cardinality(S) <= n)
    <3>1. N # S BY <1>7, <2>2
    <3> QED BY <1>7, <1>8, <1>9, <2>2, <3>1
  <2> QED BY <2>1, <2>2
<1> QED BY <1>1, <1>5, <1>6, <1>10 DEF N

\* A page is either the rest of the segment, or what is batched of it are the
\* members down to the oldest of them.
LEMMA PageIs ==
  ASSUME NEW S \in SUBSET Ids
  PROVE  LET page == Newest(S, BatchSize + 1)
             M    == Newest(page, BatchSize)
         IN  /\ page \subseteq S /\ M \subseteq page
             /\ Cardinality(page) \in Nat
             /\ Cardinality(page) <= BatchSize => M = S
             /\ Cardinality(page) > BatchSize =>
                   /\ M # {} /\ Oldest(M) \in M
                   /\ \A y \in S : y >= Oldest(M) <=> y \in M
<1> DEFINE page == Newest(S, BatchSize + 1)
           M == Newest(page, BatchSize)
           o == Oldest(M)
<1>0. BatchSize \in Nat /\ BatchSize >= 1 /\ BatchSize + 1 \in Nat
  BY BatchingAssumption
<1>1. Cardinality(S) \in Nat BY SizesOf
<1>2. /\ page \subseteq S
      /\ \A x \in S : \A y \in page : x > y => x \in page
      /\ Cardinality(page) =
            IF Cardinality(S) <= BatchSize + 1 THEN Cardinality(S) ELSE BatchSize + 1
      /\ Cardinality(S) <= BatchSize + 1 => page = S
  BY <1>0, NewestIs
<1>3. page \in SUBSET Ids BY <1>2
<1> HIDE DEF page
<1>4. /\ M \subseteq page
      /\ \A x \in page : \A y \in M : x > y => x \in M
      /\ Cardinality(M) =
            IF Cardinality(page) <= BatchSize THEN Cardinality(page) ELSE BatchSize
      /\ Cardinality(page) <= BatchSize => M = page
  BY <1>0, <1>3, NewestIs
<1> HIDE DEF M
<1>5. Cardinality(page) \in Nat BY <1>3, SizesOf
<1>6. Cardinality(page) <= BatchSize => M = S
  <2> SUFFICES ASSUME Cardinality(page) <= BatchSize PROVE M = S OBVIOUS
  <2>1. Cardinality(S) <= BatchSize + 1 BY <1>0, <1>1, <1>2
  <2> QED BY <1>2, <1>4, <2>1
<1>7. ASSUME Cardinality(page) > BatchSize
      PROVE  /\ M # {} /\ o \in M
             /\ \A y \in S : y >= o <=> y \in M
  <2>1. Cardinality(M) = BatchSize BY <1>0, <1>4, <1>5, <1>7
  <2>2. M # {}
    <3>1. Cardinality({}) = 0 BY FS_EmptySet
    <3> QED BY <1>0, <2>1, <3>1
  <2>3. M \in SUBSET Ids BY <1>3, <1>4
  <2>4. o \in M /\ \A x \in M : o <= x BY <2>2, <2>3, OldestIs
  <2>5. o \in Nat /\ S \subseteq Nat BY <2>3, <2>4, IdsAre
  <2> HIDE DEF o
  <2>6. ASSUME NEW y \in S PROVE y >= o <=> y \in M
    <3>1. ASSUME y \in M PROVE y >= o BY <2>4, <2>5, <3>1
    <3>2. ASSUME y >= o PROVE y \in M
      <4>1. CASE y = o BY <2>4, <4>1
      <4>2. CASE y # o
        <5>1. y > o BY <2>5, <3>2, <4>2
        <5>2. y \in page BY <1>2, <1>4, <2>4, <5>1
        <5> QED BY <1>4, <2>4, <5>1, <5>2
      <4> QED BY <4>1, <4>2
    <3> QED BY <3>1, <3>2
  <2> QED BY <2>2, <2>4, <2>6
<1> QED BY <1>2, <1>4, <1>5, <1>6, <1>7 DEF page, M

-----------------------------------------------------------------------------
\* Typing.  The segments are a partition of the groups.
BatchRows == [members : SUBSET Ids, fallback : BOOLEAN]

Settings ==
    /\ segments \in Segmentations /\ limit \in Limits
    /\ batches \in Seq(BatchRows)
    /\ Finished => segment > Len(segments)

Types == TypeOK /\ Settings

LEMMA SegmentsAre ==
  ASSUME segments \in Segmentations
  PROVE  /\ Len(segments) \in Nat /\ Len(segments) >= 1
         /\ \A i \in 1..Len(segments) : segments[i] \subseteq Groups
         /\ \A g \in Groups : \E i \in 1..Len(segments) : g \in segments[i]
         /\ \A i, k \in 1..Len(segments) :
               \A g : g \in segments[i] /\ g \in segments[k] => i = k
<1>1. CASE segments = <<Groups>>
  <2>1. Len(segments) = 1 /\ 1..Len(segments) = {1} /\ segments[1] = Groups
    BY <1>1
  <2> QED BY <2>1
<1>2. CASE segments = <<{"free"}, {"access", "no_access"}>>
  <2>1. /\ Len(segments) = 2 /\ 1..Len(segments) = {1, 2}
        /\ segments[1] = {"free"} /\ segments[2] = {"access", "no_access"}
    BY <1>2
  <2> QED BY <2>1 DEF Groups
<1>3. CASE segments = <<{"access"}, {"free", "no_access"}>>
  <2>1. /\ Len(segments) = 2 /\ 1..Len(segments) = {1, 2}
        /\ segments[1] = {"access"} /\ segments[2] = {"free", "no_access"}
    BY <1>3
  <2> QED BY <2>1 DEF Groups
<1>4. CASE segments = <<{"free"}, {"access"}, {"no_access"}>>
  <2>1. /\ Len(segments) = 3 /\ 1..Len(segments) = {1, 2, 3}
        /\ segments[1] = {"free"} /\ segments[2] = {"access"}
        /\ segments[3] = {"no_access"}
    BY <1>4
  <2> QED BY <2>1 DEF Groups
<1> QED BY <1>1, <1>2, <1>3, <1>4 DEF Segmentations

LEMMA NoneIsNoGroup == "none" \notin Groups
  BY DEF Groups

LEMMA TypedFound ==
  ASSUME Types
  PROVE  /\ Found \in SUBSET Ids
         /\ EmailId \in Nat /\ EmailId >= 1 /\ lastId \in Nat
         /\ totalCount \in Nat /\ limit \in Nat /\ limit - totalCount \in Int
  BY BatchingAssumption DEF Types, TypeOK, Settings, Found

\* How one page becomes batches.
LEMMA Splitting ==
  ASSUME Types, NEW M \in SUBSET Ids
  PROVE  \/ /\ Split(M) = <<Batch(M, totalCount >= limit)>>
            /\ limit - totalCount > 0 => Cardinality(M) <= limit - totalCount
         \/ \E N \in SUBSET M :
              /\ limit - totalCount > 0
              /\ Cardinality(N) = limit - totalCount
              /\ Cardinality(M) > limit - totalCount
              /\ Split(M) = <<Batch(N, FALSE), Batch(M \ N, TRUE)>>
<1> DEFINE room == limit - totalCount
           N == Newest(M, room)
<1>1. room \in Int /\ Cardinality(M) \in Nat BY TypedFound, SizesOf
<1>2. CASE room > 0 /\ room < Cardinality(M)
  <2>1. Split(M) = <<Batch(N, FALSE), Batch(M \ N, TRUE)>> BY <1>2 DEF Split
  <2>2. room \in Nat BY <1>1, <1>2
  <2> HIDE DEF room
  <2>3. /\ N \subseteq M
        /\ Cardinality(N) = IF Cardinality(M) <= room THEN Cardinality(M) ELSE room
    BY <2>2, NewestIs
  <2>4. Cardinality(N) = room BY <1>1, <1>2, <2>3
  <2> HIDE DEF N
  <2> QED BY <1>2, <2>1, <2>3, <2>4 DEF room
<1>3. CASE ~(room > 0 /\ room < Cardinality(M))
  <2>1. Split(M) = <<Batch(M, totalCount >= limit)>> BY <1>3 DEF Split
  <2>2. room > 0 => Cardinality(M) <= room BY <1>1, <1>3
  <2> QED BY <2>1, <2>2
<1> QED BY <1>2, <1>3

LEMMA BatchIs ==
  ASSUME NEW M \in SUBSET Ids, NEW f \in BOOLEAN
  PROVE  /\ Batch(M, f) \in BatchRows
         /\ Batch(M, f).members = M /\ Batch(M, f).fallback = f
  BY DEF Batch, BatchRows

LEMMA Appending ==
  ASSUME NEW bs \in Seq(BatchRows), NEW b \in BatchRows, NEW c \in BatchRows
  PROVE  /\ bs \o <<b>> = Append(bs, b)
         /\ bs \o <<b, c>> = Append(Append(bs, b), c)
         /\ Append(bs, b) \in Seq(BatchRows)
  OBVIOUS

\* How the batches grow with the members of a page.
LEMMA Extended ==
  ASSUME Types, NEW M \in SUBSET Ids, batches' = batches \o Split(M)
  PROVE  \/ \E b \in BatchRows :
              /\ batches' = Append(batches, b)
              /\ b.members = M /\ b.fallback = (totalCount >= limit)
              /\ limit - totalCount > 0 => Cardinality(M) <= limit - totalCount
         \/ \E b, c \in BatchRows :
              /\ batches' = Append(Append(batches, b), c)
              /\ b.members \subseteq M /\ c.members = M \ b.members
              /\ b.fallback = FALSE /\ c.fallback = TRUE
              /\ limit - totalCount > 0
              /\ Cardinality(b.members) = limit - totalCount
              /\ Cardinality(M) > limit - totalCount
<1>0. batches \in Seq(BatchRows) BY DEF Types, Settings
<1>1. CASE /\ Split(M) = <<Batch(M, totalCount >= limit)>>
           /\ limit - totalCount > 0 => Cardinality(M) <= limit - totalCount
  <2> DEFINE f == totalCount >= limit
             b == Batch(M, f)
  <2>1. f \in BOOLEAN OBVIOUS
  <2>2. Split(M) = <<b>> BY <1>1
  <2> HIDE DEF f
  <2>3. b \in BatchRows /\ b.members = M /\ b.fallback = f BY <2>1, BatchIs
  <2> HIDE DEF b
  <2>4. batches' = Append(batches, b) BY <1>0, <2>2, <2>3, Appending
  <2> QED BY <1>1, <2>3, <2>4 DEF f
<1>2. ASSUME NEW N \in SUBSET M,
             limit - totalCount > 0,
             Cardinality(N) = limit - totalCount,
             Cardinality(M) > limit - totalCount,
             Split(M) = <<Batch(N, FALSE), Batch(M \ N, TRUE)>>
      PROVE  \E b, c \in BatchRows :
              /\ batches' = Append(Append(batches, b), c)
              /\ b.members \subseteq M /\ c.members = M \ b.members
              /\ b.fallback = FALSE /\ c.fallback = TRUE
              /\ limit - totalCount > 0
              /\ Cardinality(b.members) = limit - totalCount
              /\ Cardinality(M) > limit - totalCount
  <2> DEFINE b == Batch(N, FALSE)
             c == Batch(M \ N, TRUE)
  <2>1. N \in SUBSET Ids /\ M \ N \in SUBSET Ids OBVIOUS
  <2>2. Split(M) = <<b, c>> BY <1>2
  <2>3. b \in BatchRows /\ b.members = N /\ b.fallback = FALSE BY <2>1, BatchIs
  <2>4. c \in BatchRows /\ c.members = M \ N /\ c.fallback = TRUE
    BY <2>1, BatchIs
  <2> HIDE DEF b, c
  <2>5. batches' = Append(Append(batches, b), c)
    BY <1>0, <2>2, <2>3, <2>4, Appending
  <2> QED BY <1>2, <2>3, <2>4, <2>5
<1> QED BY <1>1, <1>2, Splitting

LEMMA Fetched ==
  ASSUME Types, FetchPage
  PROVE  LET page == Newest(Found, BatchSize + 1)
             M    == Process(page)
         IN  /\ M \in SUBSET Ids /\ M \subseteq Found /\ Cardinality(M) \in Nat
             /\ totalCount' = totalCount + Cardinality(M)
             /\ \/ M = {} /\ batches' = batches
                \/ batches' = batches \o Split(M)
             /\ \/ /\ segment' = segment + 1 /\ lastId' = EmailId
                   /\ M = Found
                \/ /\ segment' = segment /\ lastId' \in M
                   /\ \A y \in Found : y >= lastId' <=> y \in M
             /\ segment \in 1..Len(segments)
             /\ UNCHANGED <<group, changed, segments, limit, counts>>
<1> DEFINE page == Newest(Found, BatchSize + 1)
           M == Process(page)
<1>1. Found \in SUBSET Ids BY TypedFound
<1>2. /\ page \subseteq Found /\ M \subseteq page
      /\ Cardinality(page) \in Nat
      /\ Cardinality(page) <= BatchSize => M = Found
      /\ Cardinality(page) > BatchSize =>
            /\ M # {} /\ Oldest(M) \in M
            /\ \A y \in Found : y >= Oldest(M) <=> y \in M
  BY <1>1, PageIs DEF Process
<1>3. /\ IF page = {} THEN UNCHANGED <<batches, totalCount>>
         ELSE /\ batches' = batches \o Split(M)
              /\ totalCount' = totalCount + Cardinality(M)
      /\ IF Cardinality(page) > BatchSize
         THEN lastId' = LastBatched(page) /\ UNCHANGED segment
         ELSE lastId' = EmailId /\ segment' = segment + 1
      /\ segment <= Len(segments)
      /\ UNCHANGED <<group, changed, segments, limit, counts>>
  BY DEF FetchPage
<1>4. LastBatched(page) = Oldest(M) BY DEF LastBatched, Process
<1> HIDE DEF page, M
<1>5. M \in SUBSET Ids /\ M \subseteq Found BY <1>1, <1>2
<1>6. Cardinality(M) \in Nat BY <1>5, SizesOf
<1>7. totalCount \in Nat /\ Cardinality({}) = 0 BY TypedFound, FS_EmptySet
<1>8. /\ totalCount' = totalCount + Cardinality(M)
      /\ \/ M = {} /\ batches' = batches
         \/ batches' = batches \o Split(M)
  <2>1. CASE page = {}
    <3>1. M = {} BY <1>2, <2>1
    <3> QED BY <1>3, <1>7, <2>1, <3>1
  <2>2. CASE page # {} BY <1>3, <2>2
  <2> QED BY <2>1, <2>2
<1>9. BatchSize \in Nat BY BatchingAssumption
<1>10. \/ /\ segment' = segment + 1 /\ lastId' = EmailId
          /\ M = Found
       \/ /\ segment' = segment /\ lastId' \in M
          /\ \A y \in Found : y >= lastId' <=> y \in M
  <2>1. CASE Cardinality(page) > BatchSize BY <1>2, <1>3, <1>4, <2>1
  <2>2. CASE ~(Cardinality(page) > BatchSize)
    <3>1. Cardinality(page) <= BatchSize BY <1>2, <1>9, <2>2
    <3> QED BY <1>2, <1>3, <2>2, <3>1
  <2> QED BY <2>1, <2>2
<1>11. segment \in 1..Len(segments)
  BY <1>3, SegmentsAre DEF Types, TypeOK, Settings
<1> QED BY <1>3, <1>5, <1>6, <1>8, <1>10, <1>11 DEF page, M

LEMMA TypeStep == Types /\ [Next]_vars => Types'
<1> SUFFICES ASSUME Types, [Next]_vars PROVE Types' OBVIOUS
<1>1. CASE FetchPage
  <2>1. PICK M \in SUBSET Ids :
            /\ M \subseteq Found /\ Cardinality(M) \in Nat
            /\ totalCount' = totalCount + Cardinality(M)
            /\ \/ M = {} /\ batches' = batches
               \/ batches' = batches \o Split(M)
            /\ \/ /\ segment' = segment + 1 /\ lastId' = EmailId
               \/ /\ segment' = segment /\ lastId' \in M
            /\ segment \in 1..Len(segments)
            /\ UNCHANGED <<group, changed, segments, limit, counts>>
    BY <1>1, Fetched
  <2>2. /\ totalCount \in Nat /\ EmailId \in Nat /\ EmailId >= 1 /\ lastId \in Nat
        /\ lastId \in 1..EmailId
        /\ Len(segments) \in Nat
    BY TypedFound, SegmentsAre DEF Types, TypeOK, Settings
  <2>3. totalCount' \in Nat BY <2>1, <2>2
  <2>4. segment' \in 1..(Len(segments) + 1) BY <2>1, <2>2
  <2>5. lastId' \in 1..EmailId
    <3>1. \A y \in M : y \in Ids /\ y < lastId BY <2>1 DEF Found
    <3>2. \A y \in M : y \in 1..EmailId BY <2>2, <3>1, IdsAre
    <3> QED BY <2>1, <2>2, <3>2
  <2>6. batches' \in Seq(BatchRows)
    <3>1. CASE batches' = batches BY <3>1 DEF Types, Settings
    <3>2. CASE batches' = batches \o Split(M)
      <4>1. batches \in Seq(BatchRows) BY DEF Types, Settings
      <4>2. \A b \in BatchRows : Append(batches, b) \in Seq(BatchRows)
        BY <4>1, Appending
      <4>3. \A b, c \in BatchRows : Append(Append(batches, b), c) \in Seq(BatchRows)
        BY <4>2, Appending
      <4>4. \/ \E b \in BatchRows : batches' = Append(batches, b)
            \/ \E b, c \in BatchRows : batches' = Append(Append(batches, b), c)
        <5>1. M \in SUBSET Ids BY <2>1
        <5> HIDE <2>1
        <5> QED BY <3>2, <5>1, Extended
      <4> QED BY <4>2, <4>3, <4>4
    <3> QED BY <2>1, <3>1, <3>2
  <2>7. ~Finished BY <1>1, <2>1, <2>2 DEF Types, TypeOK, Settings
  <2>8. counts' = counts /\ segments' = segments /\ limit' = limit
        /\ group' = group /\ changed' = changed
    BY <2>1
  <2>9. \A i \in DOMAIN batches' : /\ batches'[i].members \subseteq Ids
                                   /\ batches'[i].fallback \in BOOLEAN
    <3>1. \A i \in DOMAIN batches' : batches'[i] \in BatchRows BY <2>6
    <3>2. \A b \in BatchRows : b.members \subseteq Ids /\ b.fallback \in BOOLEAN
      BY DEF BatchRows
    <3> QED BY <3>1, <3>2
  <2>10. TypeOK' BY <2>3, <2>4, <2>5, <2>8, <2>9 DEF Types, TypeOK
  <2>11. Settings' BY <2>6, <2>7, <2>8 DEF Types, Settings, Finished
  <2> QED BY <2>10, <2>11 DEF Types
<1>2. CASE CorrectCounts
  <2>1. CsdCount \in Nat /\ totalCount \in Nat BY TypedFound DEF CsdCount
  <2>2. counts' \in [written : BOOLEAN, email : Nat, csd : Nat]
    BY <1>2, <2>1 DEF CorrectCounts
  <2> QED BY <1>2, <2>2 DEF CorrectCounts, Types, TypeOK, Settings, Finished
<1>3. ASSUME NEW id \in Ids, ChangeMember(id) PROVE Types'
  <2>1. group' \in [Ids -> Groups \cup {"none"}]
    BY <1>3 DEF ChangeMember, Types, TypeOK
  <2> QED BY <1>3, <2>1 DEF ChangeMember, Types, TypeOK, Settings, Finished
<1>4. CASE UNCHANGED vars
  BY <1>4 DEF vars, Types, TypeOK, Settings, Finished
<1> QED BY <1>1, <1>2, <1>3, <1>4 DEF Next

LEMMA TypeInit == Init => Types
<1> SUFFICES ASSUME Init PROVE Types OBVIOUS
<1>1. 1 \in 1..(Len(segments) + 1)
  BY SegmentsAre DEF Init
<1>2. EmailId \in 1..EmailId /\ <<>> \in Seq(BatchRows)
  BY BatchingAssumption
<1> QED BY <1>1, <1>2 DEF Init, Types, TypeOK, Settings, Finished

THEOREM Types_inductive == Spec => []Types
<1> QED BY TypeInit, TypeStep, PTL DEF Spec

\* Every variable keeps to its type: the pages stay in the segments and below
\* the id of the email, and the counts are natural numbers.
THEOREM Typing == Spec => []TypeOK
<1>1. Types => TypeOK BY DEF Types
<1> QED BY <1>1, Types_inductive, PTL

-----------------------------------------------------------------------------
\* The batches of a member, and the recipients of the batches from one of the
\* two domains, when a batch is added.
InBatch(bs, id) == {i \in DOMAIN bs : id \in bs[i].members}

RowsOf(bs, f) ==
    {x \in (DOMAIN bs) \X Ids : /\ x[2] \in bs[x[1]].members
                                /\ bs[x[1]].fallback = f}

LEMMA MemberOfOneMore ==
  ASSUME NEW bs \in Seq(BatchRows), NEW b \in BatchRows, NEW id
  PROVE  /\ InBatch(Append(bs, b), id) =
              IF id \in b.members THEN InBatch(bs, id) \cup {Len(bs) + 1}
              ELSE InBatch(bs, id)
         /\ Len(bs) + 1 \notin InBatch(bs, id)
<1>1. /\ DOMAIN bs = 1..Len(bs) /\ Len(bs) \in Nat
      /\ DOMAIN Append(bs, b) = 1..(Len(bs) + 1)
      /\ Append(bs, b)[Len(bs) + 1] = b
      /\ \A i \in 1..Len(bs) : Append(bs, b)[i] = bs[i]
  OBVIOUS
<1>2. DOMAIN Append(bs, b) = (DOMAIN bs) \cup {Len(bs) + 1}
      /\ Len(bs) + 1 \notin DOMAIN bs
  BY <1>1
<1> QED BY <1>1, <1>2 DEF InBatch

LEMMA RowsOfOneMore ==
  ASSUME NEW bs \in Seq(BatchRows), NEW b \in BatchRows, NEW f
  PROVE  /\ Cardinality(RowsOf(bs, f)) \in Nat
         /\ Cardinality(RowsOf(Append(bs, b), f)) =
              Cardinality(RowsOf(bs, f))
                + (IF b.fallback = f THEN Cardinality(b.members) ELSE 0)
<1>1. /\ DOMAIN bs = 1..Len(bs) /\ Len(bs) \in Nat
      /\ DOMAIN Append(bs, b) = 1..(Len(bs) + 1)
      /\ Append(bs, b)[Len(bs) + 1] = b
      /\ \A i \in 1..Len(bs) : Append(bs, b)[i] = bs[i]
  OBVIOUS
<1>2. DOMAIN Append(bs, b) = (DOMAIN bs) \cup {Len(bs) + 1}
      /\ Len(bs) + 1 \notin DOMAIN bs
  BY <1>1
<1> DEFINE n == Len(bs) + 1
           R == RowsOf(bs, f)
           A == RowsOf(Append(bs, b), f)
<1>3. b.members \in SUBSET Ids BY DEF BatchRows
<1>4. IsFiniteSet(R) /\ Cardinality(R) \in Nat
  <2>1. IsFiniteSet(1..Len(bs)) BY <1>1, FS_Interval
  <2>2. IsFiniteSet((1..Len(bs)) \X Ids) BY <2>1, IdsAre, FS_Product
  <2>3. R \in SUBSET ((1..Len(bs)) \X Ids) BY <1>1 DEF RowsOf
  <2> HIDE DEF R
  <2> QED BY <2>2, <2>3, FS_Subset, FS_CardinalityType
<1>5. CASE b.fallback = f
  <2> DEFINE New == {n} \X b.members
  <2>1. A = R \cup New
    <3>1. \A x \in A : x \in R \/ x \in New BY <1>1, <1>2 DEF RowsOf
    <3>2. \A x \in R : x \in A BY <1>1, <1>2 DEF RowsOf
    <3>3. \A x \in New : x \in A BY <1>1, <1>2, <1>3, <1>5 DEF RowsOf
    <3> QED BY <3>1, <3>2, <3>3
  <2>2. R \cap New = {} BY <1>2 DEF RowsOf
  <2>3. IsFiniteSet(b.members) /\ Cardinality(b.members) \in Nat
    BY <1>3, SizesOf
  <2>4. IsFiniteSet({n}) /\ Cardinality({n}) = 1 BY FS_Singleton
  <2>5. IsFiniteSet(New) /\ Cardinality(New) = 1 * Cardinality(b.members)
    BY <2>3, <2>4, FS_Product
  <2> HIDE DEF R, A, New
  <2>6. Cardinality(R \cup New)
          = Cardinality(R) + Cardinality(New) - Cardinality(R \cap New)
    BY <1>4, <2>5, FS_Union
  <2>7. Cardinality(R \cap New) = 0 BY <2>2, FS_EmptySet
  <2>8. Cardinality(A) = Cardinality(R) + Cardinality(b.members)
    BY <1>4, <2>1, <2>3, <2>5, <2>6, <2>7
  <2> QED BY <1>4, <1>5, <2>8 DEF R, A
<1>6. CASE b.fallback # f
  <2>1. \A x \in A : x \in R BY <1>1, <1>2, <1>6 DEF RowsOf
  <2>2. \A x \in R : x \in A BY <1>1, <1>2 DEF RowsOf
  <2>3. A = R BY <2>1, <2>2
  <2> HIDE DEF R, A
  <2>4. Cardinality(A) = Cardinality(R) + 0 BY <1>4, <2>3
  <2> QED BY <1>4, <1>6, <2>4 DEF R, A
<1> QED BY <1>5, <1>6

LEMMA RowsOfSize ==
  \A bs \in Seq(BatchRows) : \A f : Cardinality(RowsOf(bs, f)) \in Nat
<1> SUFFICES ASSUME NEW bs \in Seq(BatchRows), NEW f
             PROVE  Cardinality(RowsOf(bs, f)) \in Nat
  OBVIOUS
<1>1. Batch({}, TRUE) \in BatchRows BY BatchIs
<1> QED BY <1>1, RowsOfOneMore

LEMMA MembersGrow ==
  ASSUME Types, NEW M \in SUBSET Ids, batches' = batches \o Split(M), NEW id
  PROVE  /\ id \notin M => InBatch(batches', id) = InBatch(batches, id)
         /\ id \in M => \E n : InBatch(batches', id) = InBatch(batches, id) \cup {n}
<1>0. batches \in Seq(BatchRows) BY DEF Types, Settings
<1>1. ASSUME NEW b \in BatchRows, batches' = Append(batches, b), b.members = M
      PROVE  /\ id \notin M => InBatch(batches', id) = InBatch(batches, id)
             /\ id \in M => \E n : InBatch(batches', id)
                                     = InBatch(batches, id) \cup {n}
  BY <1>0, <1>1, MemberOfOneMore
<1>2. ASSUME NEW b \in BatchRows, NEW c \in BatchRows,
             batches' = Append(Append(batches, b), c),
             b.members \subseteq M, c.members = M \ b.members
      PROVE  /\ id \notin M => InBatch(batches', id) = InBatch(batches, id)
             /\ id \in M => \E n : InBatch(batches', id)
                                     = InBatch(batches, id) \cup {n}
  <2> DEFINE B == Append(batches, b)
  <2>1. B \in Seq(BatchRows) BY <1>0, Appending
  <2>2. InBatch(B, id) = IF id \in b.members
                         THEN InBatch(batches, id) \cup {Len(batches) + 1}
                         ELSE InBatch(batches, id)
    BY <1>0, MemberOfOneMore
  <2>3. batches' = Append(B, c) BY <1>2
  <2> HIDE DEF B
  <2>4. InBatch(Append(B, c), id) = IF id \in c.members
                         THEN InBatch(B, id) \cup {Len(B) + 1}
                         ELSE InBatch(B, id)
    BY <2>1, MemberOfOneMore
  <2> QED BY <1>2, <2>2, <2>3, <2>4
<1>3. \/ \E b \in BatchRows : batches' = Append(batches, b) /\ b.members = M
      \/ \E b, c \in BatchRows : /\ batches' = Append(Append(batches, b), c)
                                 /\ b.members \subseteq M
                                 /\ c.members = M \ b.members
  BY Extended
<1> QED BY <1>1, <1>2, <1>3

-----------------------------------------------------------------------------
\* What is inductive.  The pages have passed a member when they are through
\* with its segment, or below it in its segment.
Passed(id) ==
    \/ \E i \in 1..(segment - 1) : group[id] \in segments[i]
    \/ segment <= Len(segments) /\ group[id] \in segments[segment] /\ id >= lastId

\* A member that nobody changed is in one batch once the pages have passed it.
StableMembers ==
    \A id \in Ids \ changed :
        IF id < EmailId /\ Passed(id)
        THEN \E i \in DOMAIN batches : BatchesOf(id) = {i}
        ELSE BatchesOf(id) = {}

\* The custom domain is used up to the limit, before the fallback domain is.
Counted ==
    /\ Sent(FALSE) = CsdCount
    /\ Sent(FALSE) + Sent(TRUE) = totalCount
    /\ Finished => counts.email = totalCount /\ counts.csd = CsdCount

LEMMA Batched == \A id : BatchesOf(id) = InBatch(batches, id)
  BY DEF BatchesOf, InBatch

LEMMA BatchedNext == \A id : BatchesOf(id)' = InBatch(batches', id)
  BY DEF BatchesOf, InBatch

\* A page passes the members of it that are batched, and no others.
LEMMA PassedByPage ==
  ASSUME Types, FetchPage, NEW id \in Ids, id < EmailId,
         NEW M \in SUBSET Found,
         \/ /\ segment' = segment + 1 /\ lastId' = EmailId
            /\ M = Found
         \/ /\ segment' = segment /\ lastId' \in M
            /\ \A y \in Found : y >= lastId' <=> y \in M,
         segment \in 1..Len(segments),
         UNCHANGED <<group, segments>>
  PROVE  /\ Passed(id)' <=> Passed(id) \/ id \in M
         /\ id \in M => ~Passed(id)
<1>0. /\ segment \in Nat /\ Len(segments) \in Nat /\ lastId \in Nat
      /\ EmailId \in Nat /\ id \in Nat /\ lastId <= EmailId
      /\ segment <= Len(segments)
  BY TypedFound, SegmentsAre, IdsAre DEF Types, TypeOK, Settings
<1>1. id \in Found <=> id < lastId /\ group[id] \in segments[segment]
  BY DEF Found
<1>2. \A i \in 1..(segment - 1) : group[id] \in segments[i] =>
         group[id] \notin segments[segment]
  <2>1. \A i, k \in 1..Len(segments) :
           group[id] \in segments[i] /\ group[id] \in segments[k] => i = k
    BY SegmentsAre DEF Types, Settings
  <2>2. \A i \in 1..(segment - 1) : i \in 1..Len(segments) /\ i # segment
    BY <1>0
  <2> QED BY <2>1, <2>2
<1>3. id \in M => ~Passed(id) BY <1>0, <1>1, <1>2 DEF Passed
<1> DEFINE Earlier == \E i \in 1..(segment - 1) : group[id] \in segments[i]
<1>4. CASE segment' = segment + 1 /\ lastId' = EmailId /\ M = Found
  <2>1. Passed(id)' <=> \E i \in 1..segment : group[id] \in segments[i]
    <3>1. segment' - 1 = segment BY <1>0, <1>4
    <3>2. ~(id >= lastId') BY <1>0, <1>4
    <3> QED BY <3>1, <3>2 DEF Passed
  <2>2. (\E i \in 1..segment : group[id] \in segments[i])
           <=> Earlier \/ group[id] \in segments[segment]
    <3>1. 1..segment = (1..(segment - 1)) \cup {segment} BY <1>0
    <3> QED BY <3>1
  <2>3. Passed(id) \/ id \in M <=> Earlier \/ group[id] \in segments[segment]
    BY <1>0, <1>1, <1>4 DEF Passed
  <2> QED BY <1>3, <2>1, <2>2, <2>3
<1>5. CASE /\ segment' = segment /\ lastId' \in M
           /\ \A y \in Found : y >= lastId' <=> y \in M
  <2>1. Passed(id)' <=> Earlier \/ (group[id] \in segments[segment] /\ id >= lastId')
    BY <1>0, <1>5 DEF Passed
  <2>2. lastId' \in Nat /\ lastId' < lastId BY <1>5, IdsAre DEF Found
  <2>3. CASE id < lastId
    <3>1. group[id] \in segments[segment] => (id >= lastId' <=> id \in M)
      BY <1>1, <1>5, <2>3
    <3>2. id \in M => group[id] \in segments[segment] BY <1>1
    <3> QED BY <1>0, <1>3, <2>1, <2>3, <3>1, <3>2 DEF Passed
  <2>4. CASE id >= lastId
    <3>1. id >= lastId' /\ id \notin M BY <1>0, <1>1, <2>2, <2>4
    <3> QED BY <1>0, <1>3, <2>1, <2>4, <3>1 DEF Passed
  <2> QED BY <1>0, <2>3, <2>4
<1> QED BY <1>3, <1>4, <1>5

LEMMA StableStep ==
  ASSUME Types, Types', StableMembers, [Next]_vars
  PROVE  StableMembers'
<1>1. CASE FetchPage
  <2>1. PICK M \in SUBSET Ids :
            /\ M \subseteq Found
            /\ \/ M = {} /\ batches' = batches
               \/ batches' = batches \o Split(M)
            /\ \/ /\ segment' = segment + 1 /\ lastId' = EmailId
                  /\ M = Found
               \/ /\ segment' = segment /\ lastId' \in M
                  /\ \A y \in Found : y >= lastId' <=> y \in M
            /\ segment \in 1..Len(segments)
            /\ UNCHANGED <<group, changed, segments, limit, counts>>
    BY <1>1, Fetched
  <2> SUFFICES ASSUME NEW id \in Ids, id \notin changed
               PROVE  IF id < EmailId /\ Passed(id)'
                      THEN \E i \in DOMAIN batches' : BatchesOf(id)' = {i}
                      ELSE BatchesOf(id)' = {}
    BY <2>1 DEF StableMembers
  <2>2. /\ id \notin M => InBatch(batches', id) = InBatch(batches, id)
        /\ id \in M => \E n : InBatch(batches', id)
                                = InBatch(batches, id) \cup {n}
    <3>1. CASE M = {} /\ batches' = batches BY <3>1
    <3>2. CASE batches' = batches \o Split(M)
      <4>1. M \in SUBSET Ids BY <2>1
      <4> HIDE <2>1
      <4> QED BY <3>2, <4>1, MembersGrow
    <3> QED BY <2>1, <3>1, <3>2
  <2>3. \A y \in M : y < EmailId
    <3>1. lastId <= EmailId /\ lastId \in Nat /\ EmailId \in Nat
      BY TypedFound DEF Types, TypeOK
    <3>2. \A y \in M : y \in Nat /\ y < lastId BY <2>1, IdsAre DEF Found
    <3> QED BY <3>1, <3>2
  <2>4. IF id < EmailId /\ Passed(id)
        THEN \E i \in DOMAIN batches : InBatch(batches, id) = {i}
        ELSE InBatch(batches, id) = {}
    BY Batched DEF StableMembers
  <2>5. BatchesOf(id)' = InBatch(batches', id) BY BatchedNext
  <2>6. \A i : InBatch(batches', id) = {i} => i \in DOMAIN batches'
    BY DEF InBatch
  <2>7. CASE ~(id < EmailId) BY <2>2, <2>3, <2>4, <2>5, <2>7
  <2>8. CASE id < EmailId
    <3>1. /\ Passed(id)' <=> Passed(id) \/ id \in M
          /\ id \in M => ~Passed(id)
      <4>1. M \in SUBSET Found BY <2>1
      <4> QED BY <1>1, <2>1, <2>8, <4>1, PassedByPage
    <3>2. CASE id \in M
      <4>1. InBatch(batches, id) = {} BY <2>4, <3>1, <3>2
      <4>2. \E n : InBatch(batches', id) = {n} BY <2>2, <3>2, <4>1
      <4> QED BY <2>5, <2>6, <2>8, <3>1, <3>2, <4>2
    <3>3. CASE id \notin M
      <4>1. InBatch(batches', id) = InBatch(batches, id) BY <2>2, <3>3
      <4>2. Passed(id)' <=> Passed(id) BY <3>1, <3>3
      <4> QED BY <2>4, <2>5, <2>6, <2>8, <4>1, <4>2
    <3> QED BY <3>2, <3>3
  <2> QED BY <2>7, <2>8
<1>2. CASE CorrectCounts \/ UNCHANGED vars
  <2>1. UNCHANGED <<group, changed, segments, segment, lastId, batches>>
    BY <1>2 DEF CorrectCounts, vars
  <2> QED BY <2>1 DEF StableMembers, Passed, BatchesOf
<1>3. ASSUME NEW id \in Ids, ChangeMember(id) PROVE StableMembers'
  <2>1. /\ changed' = changed \cup {id}
        /\ UNCHANGED <<segments, segment, lastId, batches>>
        /\ \A o \in Ids : o # id => group'[o] = group[o]
    BY <1>3 DEF ChangeMember, Types, TypeOK
  <2> SUFFICES ASSUME NEW o \in Ids, o \notin changed'
               PROVE  IF o < EmailId /\ Passed(o)'
                      THEN \E i \in DOMAIN batches' : BatchesOf(o)' = {i}
                      ELSE BatchesOf(o)' = {}
    BY DEF StableMembers
  <2>2. group'[o] = group[o] /\ o \notin changed BY <2>1
  <2>3. Passed(o)' <=> Passed(o) BY <2>1, <2>2 DEF Passed
  <2>4. BatchesOf(o)' = BatchesOf(o) BY <2>1 DEF BatchesOf
  <2> QED BY <2>1, <2>2, <2>3, <2>4 DEF StableMembers
<1> QED BY <1>1, <1>2, <1>3 DEF Next

LEMMA StableInit == Init => StableMembers
<1> SUFFICES ASSUME Init, NEW id \in Ids
             PROVE  ~(id < EmailId /\ Passed(id)) /\ BatchesOf(id) = {}
  BY DEF StableMembers
<1>1. BatchesOf(id) = {} BY DEF Init, BatchesOf
<1>2. segment = 1 /\ lastId = EmailId BY DEF Init
<1>3. 1..(segment - 1) = {} BY <1>2
<1>4. EmailId \in Nat /\ id \in Nat BY BatchingAssumption, IdsAre
<1> QED BY <1>1, <1>2, <1>3, <1>4 DEF Passed

THEOREM Stable_inductive == Spec => [](Types /\ StableMembers)
<1>1. Types /\ StableMembers /\ [Next]_vars => Types' /\ StableMembers'
  BY TypeStep, StableStep
<1> QED BY <1>1, TypeInit, StableInit, PTL DEF Spec

\* A member whose plan and subscription did not change while the batches were
\* made is a recipient exactly once if it is older than the email, and not at
\* all otherwise (the pages of createBatches), whatever happens to the other
\* members between two pages.
THEOREM StableMembersOnce_holds == Spec => []StableMembersOnce
<1>1. Types /\ StableMembers => StableMembersOnce
  <2> SUFFICES ASSUME Types, StableMembers, Finished, NEW id \in Ids,
                      id \notin changed
               PROVE  Cardinality(BatchesOf(id)) =
                         IF id < EmailId /\ group[id] # "none" THEN 1 ELSE 0
    BY DEF StableMembersOnce
  <2>1. /\ segment = Len(segments) + 1 /\ Len(segments) \in Nat
        /\ group[id] \in Groups \cup {"none"}
    BY SegmentsAre DEF Types, TypeOK, Settings
  <2>2. Passed(id) <=> \E i \in 1..Len(segments) : group[id] \in segments[i]
    BY <2>1 DEF Passed
  <2>3. Passed(id) <=> group[id] # "none"
    <3>1. /\ \A i \in 1..Len(segments) : segments[i] \subseteq Groups
          /\ \A g \in Groups : \E i \in 1..Len(segments) : g \in segments[i]
      BY SegmentsAre DEF Types, Settings
    <3> QED BY <2>1, <2>2, <3>1, NoneIsNoGroup
  <2>4. Cardinality({}) = 0 /\ \A i : Cardinality({i}) = 1
    BY FS_EmptySet, FS_Singleton
  <2> QED BY <2>3, <2>4 DEF StableMembers
<1> QED BY <1>1, Stable_inductive, PTL

-----------------------------------------------------------------------------
LEMMA SentIs == \A f : Sent(f) = Cardinality(RowsOf(batches, f))
  BY DEF Sent, RowsOf

LEMMA SentNext == \A f : Sent(f)' = Cardinality(RowsOf(batches', f))
  BY DEF Sent, RowsOf

\* The arithmetic of the limit: what the custom domain sends before and after.
LEMMA WithinLimit ==
  ASSUME NEW F \in Nat, NEW T \in Nat, NEW t \in Nat, NEW l \in Nat, NEW m \in Nat,
         F = IF t < l THEN t ELSE l
  PROVE  /\ t >= l => F + (T + m) = (F + T) + m /\ F = IF t + m < l THEN t + m ELSE l
         /\ (t < l /\ m <= l - t) => /\ (F + m) + T = (F + T) + m
                                     /\ F + m = IF t + m < l THEN t + m ELSE l
         /\ (t < l /\ m > l - t) =>
               /\ (F + (l - t)) + (T + (m - (l - t))) = (F + T) + m
               /\ F + (l - t) = IF t + m < l THEN t + m ELSE l
<1>1. CASE t >= l
  <2>1. F = l /\ t + m >= l BY <1>1
  <2> QED BY <1>1, <2>1
<1>2. CASE t < l
  <2>1. F = t BY <1>2
  <2> QED BY <1>2, <2>1
<1> QED BY <1>1, <1>2

LEMMA SentGrows ==
  ASSUME Types, NEW M \in SUBSET Ids, batches' = batches \o Split(M),
         Sent(FALSE) = CsdCount
  PROVE  /\ Sent(FALSE)' + Sent(TRUE)' = Sent(FALSE) + Sent(TRUE) + Cardinality(M)
         /\ Sent(FALSE)' = IF totalCount + Cardinality(M) < limit
                           THEN totalCount + Cardinality(M) ELSE limit
<1>0. /\ batches \in Seq(BatchRows) /\ totalCount \in Nat /\ limit \in Nat
      /\ Cardinality(M) \in Nat
  BY TypedFound, SizesOf DEF Types, Settings
<1> DEFINE F == Cardinality(RowsOf(batches, FALSE))
           T == Cardinality(RowsOf(batches, TRUE))
           F2 == Cardinality(RowsOf(batches', FALSE))
           T2 == Cardinality(RowsOf(batches', TRUE))
           m == Cardinality(M)
<1>1. Sent(FALSE) = F /\ Sent(TRUE) = T /\ Sent(FALSE)' = F2 /\ Sent(TRUE)' = T2
  BY SentIs, SentNext
<1>2. F = IF totalCount < limit THEN totalCount ELSE limit
  BY <1>1 DEF CsdCount
<1>6. /\ F \in Nat /\ T \in Nat /\ m \in Nat
      /\ totalCount >= limit =>
            F + (T + m) = (F + T) + m
            /\ F = IF totalCount + m < limit THEN totalCount + m ELSE limit
      /\ (totalCount < limit /\ m <= limit - totalCount) =>
            /\ (F + m) + T = (F + T) + m
            /\ F + m = IF totalCount + m < limit THEN totalCount + m ELSE limit
      /\ (totalCount < limit /\ m > limit - totalCount) =>
            /\ (F + (limit - totalCount)) + (T + (m - (limit - totalCount)))
                  = (F + T) + m
            /\ F + (limit - totalCount)
                  = IF totalCount + m < limit THEN totalCount + m ELSE limit
  <2>1. F \in Nat /\ T \in Nat BY <1>0, RowsOfSize
  <2>2. m \in Nat BY <1>0
  <2> HIDE DEF F, T, m
  <2> QED BY <1>0, <1>2, <2>1, <2>2, WithinLimit
<1>3. ASSUME NEW b \in BatchRows, batches' = Append(batches, b),
             b.members = M, b.fallback = (totalCount >= limit),
             limit - totalCount > 0 => m <= limit - totalCount
      PROVE  F2 + T2 = F + T + m
             /\ F2 = IF totalCount + m < limit THEN totalCount + m ELSE limit
  <2>1. /\ F2 = F + (IF b.fallback = FALSE THEN Cardinality(b.members) ELSE 0)
        /\ T2 = T + (IF b.fallback = TRUE THEN Cardinality(b.members) ELSE 0)
    BY <1>0, <1>3, RowsOfOneMore
  <2> DEFINE over == totalCount >= limit
  <2>2. CASE totalCount >= limit
    <3>1. over = TRUE BY <2>2
    <3>2. b.fallback = TRUE BY <1>3, <3>1
    <3>3. F2 = F + 0 /\ T2 = T + m BY <1>3, <2>1, <3>2
    <3> HIDE DEF F, T, F2, T2, m
    <3>4. F2 = F BY <1>6, <3>3
    <3> QED BY <1>6, <2>2, <3>3, <3>4
  <2>3. CASE ~(totalCount >= limit)
    <3>1. over = FALSE BY <2>3
    <3>2. b.fallback = over BY <1>3
    <3>3. b.fallback = FALSE BY <3>1, <3>2
    <3>4. F2 = F + m /\ T2 = T + 0 BY <1>3, <2>1, <3>3
    <3>5. totalCount < limit /\ m <= limit - totalCount BY <1>0, <1>3, <2>3
    <3> HIDE DEF F, T, F2, T2, m, over
    <3>6. T2 = T BY <1>6, <3>4
    <3> QED BY <1>6, <3>4, <3>5, <3>6
  <2> QED BY <2>2, <2>3
<1>4. ASSUME NEW b \in BatchRows, NEW c \in BatchRows,
             batches' = Append(Append(batches, b), c),
             b.members \subseteq M, c.members = M \ b.members,
             b.fallback = FALSE, c.fallback = TRUE,
             limit - totalCount > 0,
             Cardinality(b.members) = limit - totalCount,
             m > limit - totalCount
      PROVE  F2 + T2 = F + T + m
             /\ F2 = IF totalCount + m < limit THEN totalCount + m ELSE limit
  <2> DEFINE B == Append(batches, b)
             F1 == Cardinality(RowsOf(B, FALSE))
             T1 == Cardinality(RowsOf(B, TRUE))
             r == limit - totalCount
  <2>1. B \in Seq(BatchRows) BY <1>0, Appending
  <2>2. /\ F1 = F + (IF b.fallback = FALSE THEN Cardinality(b.members) ELSE 0)
        /\ T1 = T + (IF b.fallback = TRUE THEN Cardinality(b.members) ELSE 0)
    BY <1>0, RowsOfOneMore
  <2>3. batches' = Append(B, c) BY <1>4
  <2> HIDE DEF B
  <2>4. /\ Cardinality(RowsOf(Append(B, c), FALSE))
              = F1 + (IF c.fallback = FALSE THEN Cardinality(c.members) ELSE 0)
        /\ Cardinality(RowsOf(Append(B, c), TRUE))
              = T1 + (IF c.fallback = TRUE THEN Cardinality(c.members) ELSE 0)
    BY <2>1, <1>4, RowsOfOneMore
  <2>5. Cardinality(c.members) = m - r
    BY <1>4, SizesOf
  <2>6. F1 = F + r /\ T1 = T + 0 BY <1>4, <2>2
  <2>7. F2 = F1 + 0 /\ T2 = T1 + (m - r)
    BY <1>4, <2>3, <2>4, <2>5
  <2>8. totalCount < limit /\ m > r BY <1>0, <1>4
  <2>9. r \in Nat BY <1>0, <1>4
  <2> HIDE DEF F, T, F1, T1, F2, T2, m
  <2>10. F2 = F + r /\ T2 = T + (m - r)
    <3> HIDE DEF r
    <3> QED BY <1>6, <2>6, <2>7, <2>9
  <2> QED BY <1>6, <2>8, <2>10
<1>5. \/ \E b \in BatchRows :
           /\ batches' = Append(batches, b)
           /\ b.members = M /\ b.fallback = (totalCount >= limit)
           /\ limit - totalCount > 0 => m <= limit - totalCount
      \/ \E b, c \in BatchRows :
           /\ batches' = Append(Append(batches, b), c)
           /\ b.members \subseteq M /\ c.members = M \ b.members
           /\ b.fallback = FALSE /\ c.fallback = TRUE
           /\ limit - totalCount > 0
           /\ Cardinality(b.members) = limit - totalCount
           /\ m > limit - totalCount
  BY Extended
<1> HIDE DEF F, T, F2, T2
<1> QED BY <1>1, <1>3, <1>4, <1>5

LEMMA CountedStep ==
  ASSUME Types, Counted, [Next]_vars
  PROVE  Counted'
<1>0. totalCount \in Nat /\ limit \in Nat BY TypedFound
<1>1. CASE FetchPage
  <2>1. PICK M \in SUBSET Ids :
            /\ Cardinality(M) \in Nat
            /\ totalCount' = totalCount + Cardinality(M)
            /\ \/ M = {} /\ batches' = batches
               \/ batches' = batches \o Split(M)
            /\ segment \in 1..Len(segments)
            /\ UNCHANGED <<group, changed, segments, limit, counts>>
    BY <1>1, Fetched
  <2>2. ~Finished
    <3>1. segment \in Nat /\ Len(segments) \in Nat /\ segment <= Len(segments)
      BY <2>1, SegmentsAre DEF Types, Settings
    <3> QED BY <3>1 DEF Types, Settings
  <2>3. CASE M = {} /\ batches' = batches
    <3>1. totalCount' = totalCount
      <4>1. Cardinality(M) = 0 BY <2>3, FS_EmptySet
      <4> QED BY <1>0, <2>1, <4>1
    <3> QED BY <2>1, <2>3, <3>1 DEF Counted, Sent, CsdCount, Finished
  <2>4. CASE batches' = batches \o Split(M)
    <3>1. /\ Sent(FALSE)' + Sent(TRUE)' = Sent(FALSE) + Sent(TRUE) + Cardinality(M)
          /\ Sent(FALSE)' = IF totalCount + Cardinality(M) < limit
                            THEN totalCount + Cardinality(M) ELSE limit
      <4>1. M \in SUBSET Ids BY <2>1
      <4> HIDE <2>1
      <4> QED BY <2>4, <4>1, SentGrows DEF Counted
    <3>2. CsdCount' = IF totalCount' < limit' THEN totalCount' ELSE limit'
      BY DEF CsdCount
    <3>3. Sent(FALSE)' = CsdCount' BY <2>1, <3>1, <3>2
    <3>4. Sent(FALSE)' + Sent(TRUE)' = totalCount' BY <2>1, <3>1 DEF Counted
    <3>5. ~Finished' BY <2>1, <2>2 DEF Finished
    <3> QED BY <3>3, <3>4, <3>5 DEF Counted
  <2> QED BY <2>1, <2>3, <2>4
<1>2. CASE CorrectCounts
  <2>1. /\ counts' = [written |-> TRUE, email |-> totalCount, csd |-> CsdCount]
        /\ UNCHANGED <<limit, batches, totalCount>>
    BY <1>2 DEF CorrectCounts
  <2>2. CsdCount' = CsdCount /\ Sent(FALSE)' = Sent(FALSE) /\ Sent(TRUE)' = Sent(TRUE)
    BY <2>1 DEF CsdCount, Sent
  <2>3. counts'.email = totalCount /\ counts'.csd = CsdCount BY <2>1
  <2> QED BY <2>1, <2>2, <2>3 DEF Counted
<1>3. CASE (\E id \in Ids : ChangeMember(id)) \/ UNCHANGED vars
  <2>1. UNCHANGED <<limit, batches, totalCount, counts>>
    BY <1>3 DEF ChangeMember, vars
  <2> QED BY <2>1 DEF Counted, Sent, CsdCount, Finished
<1> QED BY <1>1, <1>2, <1>3 DEF Next

LEMMA CountedInit == Init => Counted
<1> SUFFICES ASSUME Init PROVE Counted OBVIOUS
<1>1. Types BY TypeInit
<1>2. \A f : RowsOf(batches, f) = {} BY DEF Init, RowsOf
<1>3. \A f : Sent(f) = 0 BY <1>2, SentIs, FS_EmptySet
<1>4. totalCount = 0 /\ ~Finished BY DEF Init, Finished
<1>5. CsdCount = 0 BY <1>1, <1>4, TypedFound DEF CsdCount
<1>6. Sent(FALSE) = 0 /\ Sent(TRUE) = 0 BY <1>3
<1>7. Sent(FALSE) = CsdCount BY <1>5, <1>6
<1>8. Sent(FALSE) + Sent(TRUE) = totalCount
  <2>1. 0 + 0 = 0 OBVIOUS
  <2> QED BY <1>4, <1>6, <2>1, Zenon
<1> QED BY <1>4, <1>7, <1>8 DEF Counted

THEOREM Counted_inductive == Spec => [](Types /\ Counted)
<1>1. Types /\ Counted /\ [Next]_vars => Types' /\ Counted'
  BY TypeStep, CountedStep
<1> QED BY <1>1, TypeInit, CountedInit, PTL DEF Spec

\* Domain warm-up: what goes out from the custom domain is never over the
\* limit and exactly what csd_email_count says, and email_count is what was put
\* in batches (the split and the final correction in createBatches), for every
\* size of the batches and every limit.
THEOREM CountsAreSent_holds == Spec => []CountsAreSent
<1>1. Types /\ Counted => CountsAreSent
  <2> SUFFICES ASSUME Types, Counted PROVE CountsAreSent OBVIOUS
  <2>1. totalCount \in Nat /\ limit \in Nat BY TypedFound
  <2>2. CsdCount <= limit BY <2>1 DEF CsdCount
  <2>3. Sent(FALSE) = CsdCount /\ Sent(FALSE) + Sent(TRUE) = totalCount
    BY DEF Counted
  <2>4. Finished => counts.email = totalCount /\ counts.csd = CsdCount
    BY DEF Counted
  <2>5. Finished => counts.email = Sent(FALSE) + Sent(TRUE) BY <2>3, <2>4
  <2> QED BY <2>2, <2>3, <2>4, <2>5 DEF CountsAreSent
<1> QED BY <1>1, Counted_inductive, PTL
=============================================================================
