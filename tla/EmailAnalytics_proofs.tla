------------------------ MODULE EmailAnalytics_proofs -----------------------
(* Proofs about EmailAnalytics, for any number of events at any times, every *)
(* size of a page and of the budget, and any number of faults.               *)
EXTENDS EmailAnalytics, FiniteSetTheorems, WellFoundedInduction, TLAPS

-----------------------------------------------------------------------------
\* The earliest of some times, and the latest of bounded ones.
LEMMA LeastNat ==
  ASSUME NEW S \in SUBSET Nat, S # {}
  PROVE  \E n \in S : \A m \in S : n <= m
<1>1. IsWellFoundedOn(OpToRel(<, Nat), Nat) BY NatLessThanWellFounded
<1>2. PICK n \in S : \A m \in S : ~(<<m, n>> \in OpToRel(<, Nat)) BY <1>1, WFMin
<1>3. \A m \in S : ~(m < n) BY <1>2 DEF OpToRel
<1> QED BY <1>3

LEMMA LatestIs ==
  ASSUME NEW n \in Nat, NEW S \in SUBSET (0..n), S # {}
  PROVE  /\ Max(S) \in S /\ Max(S) \in Nat
         /\ \A x \in S : x <= Max(S)
<1> DEFINE D == {d \in 0..n : n - d \in S}
<1>1. D \in SUBSET Nat OBVIOUS
<1>2. D # {}
  <2>1. PICK x \in S : TRUE OBVIOUS
  <2>2. x \in 0..n BY <2>1
  <2>3. n - x \in 0..n /\ n - (n - x) = x BY <2>2
  <2> QED BY <2>1, <2>3
<1> HIDE DEF D
<1>3. PICK d \in D : \A m \in D : d <= m BY <1>1, <1>2, LeastNat
<1>4. n - d \in S /\ d \in 0..n BY <1>3 DEF D
<1>5. \A y \in S : y <= n - d
  <2> SUFFICES ASSUME NEW y \in S PROVE y <= n - d OBVIOUS
  <2>1. y \in 0..n OBVIOUS
  <2>2. n - y \in 0..n /\ n - (n - y) = y BY <2>1
  <2>3. n - y \in D BY <2>2 DEF D
  <2>4. d <= n - y BY <1>3, <2>3
  <2> QED BY <1>4, <2>1, <2>4
<1>6. \E z \in S : \A y \in S : z >= y
  <2>1. \A y \in S : n - d >= y BY <1>4, <1>5
  <2> QED BY <1>4, <2>1
<1>7. Max(S) \in S /\ \A y \in S : Max(S) >= y BY <1>6 DEF Max
<1>8. Max(S) \in 0..n /\ \A y \in S : y \in 0..n BY <1>7
<1> QED BY <1>7, <1>8

LEMMA LaterOf ==
  ASSUME NEW a \in Int, NEW b \in Int \cup {None}
  PROVE  LET x == Max({a} \cup ({b} \ {None})) IN
         /\ x \in Int /\ x >= a /\ (b # None => x >= b)
         /\ x = a \/ (b # None /\ x = b)
<1>1. CASE b = None
  <2>1. {a} \cup ({b} \ {None}) = {a} BY <1>1
  <2>2. Max({a}) = a BY DEF Max
  <2> QED BY <1>1, <2>1, <2>2
<1>2. CASE b # None
  <2>1. {a} \cup ({b} \ {None}) = {a, b} BY <1>2
  <2>2. \E z \in {a, b} : \A y \in {a, b} : z >= y BY <1>2
  <2>3. Max({a, b}) \in {a, b} /\ \A y \in {a, b} : Max({a, b}) >= y
    BY <2>2 DEF Max
  <2> QED BY <1>2, <2>1, <2>3
<1> QED BY <1>1, <1>2

LEMMA EarlierOf ==
  ASSUME NEW a \in Int, NEW b \in Int \cup {None}
  PROVE  LET x == Min({a} \cup ({b} \ {None})) IN
         /\ x \in Int /\ x <= a /\ (b # None => x <= b)
         /\ x = a \/ (b # None /\ x = b)
<1>1. CASE b = None
  <2>1. {a} \cup ({b} \ {None}) = {a} BY <1>1
  <2>2. Min({a}) = a BY DEF Min
  <2> QED BY <1>1, <2>1, <2>2
<1>2. CASE b # None
  <2>1. {a} \cup ({b} \ {None}) = {a, b} BY <1>2
  <2>2. \E z \in {a, b} : \A y \in {a, b} : z <= y BY <1>2
  <2>3. Min({a, b}) \in {a, b} /\ \A y \in {a, b} : Min({a, b}) <= y
    BY <2>2 DEF Min
  <2> QED BY <1>2, <2>1, <2>3
<1> QED BY <1>1, <1>2

LEMMA Numbers ==
  /\ {Second, Margin, Trust, Page, Budget} \subseteq Nat
  /\ Second >= 1 /\ Margin >= 1 /\ Trust >= 1 /\ Page >= 1 /\ Budget >= 1
  /\ Second <= Margin /\ Margin <= Trust
  /\ MaxTime \in Nat /\ MaxMoves \in Nat
  /\ \A e \in Events : At[e] \in Nat
  /\ None \notin Nat /\ None \notin Time
  /\ None \notin Schedules /\ None \notin Fetches
  BY AnalyticsAssumption, NoneAssumption DEF Time

LEMMA SizesOf ==
  ASSUME NEW S \in SUBSET Events
  PROVE  IsFiniteSet(S) /\ Cardinality(S) \in Nat
<1>1. IsFiniteSet(Events) BY AnalyticsAssumption
<1> QED BY <1>1, FS_Subset, FS_CardinalityType

-----------------------------------------------------------------------------
\* The oldest events of a set: none that is left is older.
Eldest(P, S) == /\ P \in SUBSET S
                /\ \A e \in P : \A f \in S \ P : At[e] <= At[f]

LEMMA OldestIs ==
  ASSUME NEW S \in SUBSET Events, NEW n \in Nat, NEW P \in Oldest(S, n)
  PROVE  /\ Eldest(P, S)
         /\ n >= 1 /\ S # {} => P # {}
<1>1. /\ P \in SUBSET S /\ Cardinality(P) = Min({n, Cardinality(S)})
      /\ \A e \in P : \A f \in S \ P : At[e] <= At[f]
  BY DEF Oldest
<1>2. ASSUME n >= 1, S # {} PROVE P # {}
  <2>1. Cardinality(S) \in Nat /\ IsFiniteSet(S) BY SizesOf
  <2>2. Cardinality(S) # 0 BY <1>2, <2>1, FS_EmptySet
  <2> DEFINE c == Cardinality(S)
             b == Cardinality(P)
  <2>3. c \in Nat /\ c # 0 /\ b = Min({n, c}) BY <1>1, <2>1, <2>2
  <2> HIDE DEF c, b
  <2>4. \E z \in {n, c} : \A y \in {n, c} : z <= y BY <2>3
  <2>5. b \in {n, c} BY <2>3, <2>4 DEF Min
  <2>6. b # 0 BY <1>2, <2>3, <2>5
  <2>7. Cardinality({}) = 0 BY FS_EmptySet
  <2> QED BY <2>6, <2>7 DEF b
<1> QED BY <1>1, <1>2 DEF Eldest

LEMMA EldestOfEldest ==
  ASSUME NEW S \in SUBSET Events, NEW P, NEW Q, Eldest(P, S), Eldest(Q, P)
  PROVE  Eldest(Q, S)
<1>1. P \in SUBSET S /\ Q \in SUBSET P BY DEF Eldest
<1> SUFFICES ASSUME NEW e \in Q, NEW f \in S \ Q PROVE At[e] <= At[f]
  BY <1>1 DEF Eldest
<1>2. CASE f \in P BY <1>2 DEF Eldest
<1>3. CASE f \notin P BY <1>1, <1>3 DEF Eldest
<1> QED BY <1>2, <1>3

-----------------------------------------------------------------------------
\* What is inductive of the types, part by part.
AtWork(j) == turn = j /\ fetch # None

Data ==
    /\ now \in 0..MaxTime /\ shown \subseteq Events /\ config \in Configs
    /\ stored \subseteq shown /\ counted \subseteq stored
    /\ pending \subseteq shown /\ (pending # {} => config.batched)
    /\ moves \in 0..MaxMoves
    /\ late \cup lost \subseteq shown /\ late \subseteq stored \cup pending
    /\ jumped \subseteq Jobs /\ {foreign, failed} \subseteq BOOLEAN
    /\ \A e \in Events : At[e] + Trust <= now => e \in shown

Cursors ==
    /\ last \in [Jobs -> Time \cup {None}]
    /\ finished \in [Jobs -> Time \cup {None}]
    /\ started \in [Jobs -> Time]
    /\ lastBegin \in Time \cup {None}
    /\ \A j \in Jobs : last[j] # None /\ finished[j] # None =>
           finished[j] <= last[j] \/ j = "scheduled"

\* A window that was asked for is of the past; the one in memory is the one
\* that was saved.
Requested ==
    /\ schedule \in Schedules \cup {None}
    /\ metadata \in Windows \cup {None}
    /\ restored \in BOOLEAN
    /\ schedule # None => schedule.of.end + Trust <= now
    /\ metadata # None => metadata.end + Trust <= now
    /\ schedule # None /\ metadata # None => schedule.of = metadata

\* The fetch at work, within its window.
Pages ==
    /\ turn \in Jobs \cup {"idle"} /\ used \in Nat
    /\ fetch \in Fetches \cup {None}
    /\ fetch # None =>
        /\ turn # "idle" /\ fetch.begin < fetch.end
        /\ fetch.end <= MaxTime /\ fetch.end + Margin <= now
        /\ turn \in {"missing", "scheduled"} => fetch.end + Trust <= now
        /\ \A e \in fetch.got : At[e] <= fetch.end
        /\ Cardinality(fetch.got) <= fetch.count
        /\ fetch.short => fetch.count >= fetch.max
        /\ fetch.left \in {<<>>, <<"fallback">>, Domains}
        /\ fetch.left = <<"fallback">> => config.fallback
        /\ fetch.error \/ (fetch.short /\ ~config.fallback) => fetch.left = <<>>

\* The fetch at work, its job's cursors and its window: the cursor in memory
\* is either where the fetch began or the time of an event.
IsTime(t) == \E e \in Events : At[e] = t

Working ==
    fetch # None =>
        /\ turn = "scheduled" =>
               /\ schedule # None /\ Running
               /\ fetch.end = schedule.of.end
               /\ fetch.begin >= schedule.of.begin
        /\ started[turn] = fetch.begin
        /\ turn # "scheduled" /\ finished[turn] # None =>
               finished[turn] <= fetch.begin
        /\ last[turn] # None =>
               /\ last[turn] <= fetch.end
               /\ last[turn] <= fetch.begin \/ IsTime(last[turn])
        /\ fetch.count > 0 => last[turn] # None /\ IsTime(last[turn])

Types == Data /\ Cursors /\ Requested /\ Pages /\ Working

LEMMA TypesAreOK == Types => TypeOK
  BY DEF Types, Data, Cursors, Requested, Pages, Working, TypeOK

LEMMA FetchFields ==
  ASSUME NEW f \in Fetches
  PROVE  /\ f.begin \in Time /\ f.end \in Time /\ f.begin \in Nat /\ f.end \in Nat
         /\ f.max \in Int /\ f.left \in Seq({"primary", "fallback"})
         /\ f.got \in SUBSET Events /\ f.count \in Nat /\ f.seen \in SUBSET Events
         /\ f.error \in BOOLEAN /\ f.short \in BOOLEAN
  BY DEF Fetches, Time

LEMMA NowOn ==
  ASSUME Types
  PROVE  /\ now \in Nat /\ now <= MaxTime
         /\ turn # "idle" => turn \in Jobs
         /\ fetch # None => fetch \in Fetches /\ turn \in Jobs
         /\ schedule # None => schedule \in Schedules
  BY Numbers DEF Types, Data, Pages, Requested

LEMMA WindowFields ==
  /\ \A w \in Windows : w.begin \in 0..MaxTime /\ w.end \in 0..MaxTime
  /\ \A s \in Schedules : /\ s.of \in Windows
                          /\ s.running \in BOOLEAN /\ s.canceled \in BOOLEAN
  BY AnalyticsAssumption DEF Schedules

-----------------------------------------------------------------------------
\* The next page, and where the cursor goes with the events of it.
LEMMA AvailableIs ==
  ASSUME Types, fetch # None
  PROVE  \A e : e \in Available <=>
           /\ e \in shown /\ e \in Events /\ e \in Asked(turn)
           /\ e \notin fetch.got /\ Domain(e) = Head(fetch.left)
           /\ At[e] >= fetch.begin /\ At[e] <= fetch.end
           /\ \A g \in fetch.got : At[g] <= At[e]
<1>1. fetch \in Fetches /\ shown \in SUBSET Events BY NowOn DEF Types, Data
<1>2. /\ fetch.begin \in Nat /\ fetch.end \in Nat /\ fetch.got \in SUBSET Events
      /\ fetch.end <= MaxTime /\ \A g \in fetch.got : At[g] <= fetch.end
  BY <1>1, FetchFields DEF Types, Pages
<1> DEFINE S == Times(fetch.got) \cup {0}
<1>3. S \in SUBSET (0..MaxTime)
  <2>1. \A g \in fetch.got : At[g] \in 0..MaxTime BY <1>2, Numbers
  <2>2. 0 \in 0..MaxTime BY Numbers
  <2> QED BY <2>1, <2>2 DEF Times
<1>4. S # {} OBVIOUS
<1>5. Max(S) \in S /\ Max(S) \in Nat /\ \A x \in S : x <= Max(S)
  <2> HIDE DEF S
  <2> QED BY <1>3, <1>4, Numbers, LatestIs
<1>6. \A e \in Events : At[e] >= Max(S) <=> \A g \in fetch.got : At[g] <= At[e]
  <2> SUFFICES ASSUME NEW e \in Events
               PROVE  At[e] >= Max(S) <=> \A g \in fetch.got : At[g] <= At[e]
    OBVIOUS
  <2>1. At[e] \in Nat /\ \A g \in fetch.got : At[g] \in Nat BY <1>2, Numbers
  <2>2. \A g \in fetch.got : At[g] \in S BY DEF Times
  <2>3. Max(S) = 0 \/ \E g \in fetch.got : Max(S) = At[g] BY <1>5 DEF Times
  <2> HIDE DEF S
  <2>4. ASSUME At[e] >= Max(S), NEW g \in fetch.got PROVE At[g] <= At[e]
    <3>1. At[g] \in Nat /\ At[g] <= Max(S) BY <1>5, <2>1, <2>2
    <3> QED BY <1>5, <2>1, <2>4, <3>1
  <2>5. ASSUME \A g \in fetch.got : At[g] <= At[e] PROVE At[e] >= Max(S)
    <3>1. CASE Max(S) = 0 BY <2>1, <3>1
    <3>2. CASE \E g \in fetch.got : Max(S) = At[g] BY <2>1, <2>5, <3>2
    <3> QED BY <2>3, <3>1, <3>2
  <2> QED BY <2>4, <2>5
<1> HIDE DEF S
<1>7. \A e \in Events : At[e] \in fetch.begin..fetch.end
         <=> At[e] >= fetch.begin /\ At[e] <= fetch.end
  BY <1>2, Numbers
<1>8. Available = {e \in (shown \cap Asked(turn)) \ fetch.got :
                     /\ Domain(e) = Head(fetch.left)
                     /\ At[e] \in fetch.begin..fetch.end
                     /\ At[e] >= Max(S)}
  BY DEF Available, S
<1> QED BY <1>1, <1>6, <1>7, <1>8

LEMMA Followed ==
  ASSUME Types, fetch # None, NEW Q \in SUBSET Available, Q # {}
  PROVE  LET t == Follow(Q) IN
         /\ t \in Nat /\ t \in Time /\ t # None /\ IsTime(t)
         /\ t >= fetch.begin /\ t <= fetch.end
         /\ \A q \in Q : At[q] <= t
         /\ last[turn] # None => last[turn] <= t
         /\ (\E q \in Q : t = At[q]) \/ (last[turn] # None /\ t = last[turn])
<1> DEFINE l == last[turn]
           S == Times(Q) \cup ({l} \ {None})
           t == Follow(Q)
<1>1. fetch \in Fetches /\ turn \in Jobs BY NowOn
<1>2. fetch.begin \in Nat /\ fetch.end \in Nat /\ fetch.end <= MaxTime
  BY <1>1, FetchFields DEF Types, Pages
<1>3. /\ l \in Nat \cup {None}
      /\ l # None => l \in Nat /\ l <= fetch.end
                     /\ (l <= fetch.begin \/ IsTime(l))
  BY <1>1 DEF Types, Cursors, Working, Time
<1>4. \A q \in Q : /\ q \in Events /\ At[q] \in Nat
                   /\ At[q] >= fetch.begin /\ At[q] <= fetch.end
  BY AvailableIs, Numbers
<1>5. S \in SUBSET (0..fetch.end)
  <2>1. \A x \in Times(Q) : x \in 0..fetch.end BY <1>2, <1>4 DEF Times
  <2>2. l # None => l \in 0..fetch.end BY <1>2, <1>3
  <2> QED BY <2>1, <2>2
<1>6. S # {} BY DEF Times
<1>7. t = Max(S) BY DEF Follow
<1>8. \A q \in Q : At[q] \in S BY DEF Times
<1>9. l # None => l \in S OBVIOUS
<1>10. \A x \in S : (\E q \in Q : x = At[q]) \/ (l # None /\ x = l)
  BY DEF Times
<1> HIDE DEF S
<1>11. t \in S /\ t \in Nat /\ \A x \in S : x <= t
  BY <1>2, <1>5, <1>6, <1>7, LatestIs
<1> HIDE DEF t, l
<1>12. t <= fetch.end BY <1>2, <1>5, <1>11
<1>13. t \in Time /\ t # None BY <1>2, <1>11, <1>12, Numbers DEF Time
<1>14. (\E q \in Q : t = At[q]) \/ (l # None /\ t = l) BY <1>10, <1>11
<1>15. \A q \in Q : At[q] <= t BY <1>8, <1>11
<1>16. l # None => l <= t BY <1>9, <1>11
<1>17. PICK p \in Q : TRUE OBVIOUS
<1>18. At[p] <= t /\ At[p] >= fetch.begin /\ At[p] \in Nat /\ p \in Events
  BY <1>4, <1>15, <1>17
<1>19. t >= fetch.begin BY <1>2, <1>11, <1>18
<1>20. IsTime(t)
  <2>1. CASE \E q \in Q : t = At[q] BY <1>4, <2>1 DEF IsTime
  <2>2. CASE l # None /\ t = l
    <3>1. CASE IsTime(l) BY <2>2, <3>1
    <3>2. CASE l <= fetch.begin
      <4>1. t = At[p] BY <1>2, <1>11, <1>18, <2>2, <3>2
      <4> QED BY <1>18, <4>1 DEF IsTime
    <3> QED BY <1>3, <2>2, <3>1, <3>2
  <2> QED BY <1>14, <2>1, <2>2
<1> QED BY <1>11, <1>12, <1>13, <1>14, <1>15, <1>16, <1>19, <1>20 DEF l, t

-----------------------------------------------------------------------------
\* The steps of a fetch, field by field.
Unread(left) == {left[i] : i \in DOMAIN left}

LEMMA LeftIs ==
  ASSUME Types, fetch # None, fetch.left # <<>>
  PROVE  LET l == fetch.left IN
    \/ /\ l = <<"fallback">> /\ config.fallback /\ Head(l) = "fallback"
       /\ Tail(l) = <<>> /\ Unread(l) = {"fallback"} /\ Unread(Tail(l)) = {}
    \/ /\ l = <<"primary", "fallback">> /\ config.fallback /\ Head(l) = "primary"
       /\ Tail(l) = <<"fallback">> /\ Unread(l) = {"primary", "fallback"}
       /\ Unread(Tail(l)) = {"fallback"}
    \/ /\ l = <<"primary">> /\ ~config.fallback /\ Head(l) = "primary"
       /\ Tail(l) = <<>> /\ Unread(l) = {"primary"} /\ Unread(Tail(l)) = {}
<1> DEFINE l == fetch.left
<1>1. \/ l = <<"fallback">> /\ config.fallback
      \/ l = <<"primary", "fallback">> /\ config.fallback
      \/ l = <<"primary">> /\ ~config.fallback
  BY DEF Types, Pages, Domains
<1>2. Unread(<<>>) = {} /\ Unread(<<"fallback">>) = {"fallback"}
      /\ Unread(<<"primary">>) = {"primary"}
  BY DEF Unread
<1>3. Unread(<<"primary", "fallback">>) = {"primary", "fallback"}
  <2> DEFINE s == <<"primary", "fallback">>
  <2>1. DOMAIN s = {1, 2} /\ s[1] = "primary" /\ s[2] = "fallback" OBVIOUS
  <2> HIDE DEF s
  <2>2. Unread(s) = {"primary", "fallback"} BY <2>1 DEF Unread
  <2> QED BY <2>2 DEF s
<1>4. /\ Head(<<"fallback">>) = "fallback" /\ Tail(<<"fallback">>) = <<>>
      /\ Head(<<"primary">>) = "primary" /\ Tail(<<"primary">>) = <<>>
      /\ Head(<<"primary", "fallback">>) = "primary"
      /\ Tail(<<"primary", "fallback">>) = <<"fallback">>
  OBVIOUS
<1> HIDE DEF l
<1>5. CASE l = <<"fallback">> /\ config.fallback
  BY <1>2, <1>4, <1>5 DEF l
<1>6. CASE l = <<"primary", "fallback">> /\ config.fallback
  BY <1>2, <1>3, <1>4, <1>6 DEF l
<1>7. CASE l = <<"primary">> /\ ~config.fallback
  BY <1>2, <1>4, <1>7 DEF l
<1> QED BY <1>1, <1>5, <1>6, <1>7

\* A cancelled fetch of a window stops reading.
Cut == turn = "scheduled" /\ Canceled

LEMMA PageIsRead ==
  ASSUME Types, ReadPage
  PROVE  \E P \in SUBSET Available :
    /\ Eldest(P, Available) /\ P # {}
    /\ last' = [last EXCEPT ![turn] = Follow(P)]
    /\ late' = IF turn = "opened" THEN late
               ELSE late \cup {e \in P \ (stored \cup pending) : Kind[e] = "opened"}
    /\ stored' = stored \cup pending \cup P /\ pending' = {}
    /\ fetch' \in Fetches /\ fetch' # None
    /\ fetch'.begin = fetch.begin /\ fetch'.end = fetch.end
    /\ fetch'.max = fetch.max /\ fetch'.error = fetch.error
    /\ fetch'.count = fetch.count + Cardinality(P)
    /\ fetch'.seen = fetch.seen \cup P
    /\ \/ /\ fetch'.got = {} /\ fetch'.short = TRUE
          /\ Cardinality(fetch.got \cup P) >= fetch.max
          /\ fetch'.left = IF Cut THEN <<>> ELSE Tail(fetch.left)
       \/ /\ fetch'.got = fetch.got \cup P /\ fetch'.short = fetch.short
          /\ fetch'.left = IF Cut THEN <<>> ELSE fetch.left
    /\ fetch # None /\ fetch.left # <<>>
    /\ UNCHANGED <<unread, moves, jumped, foreign, failed, lost>>
<1>1. /\ fetch # None /\ fetch.left # <<>> /\ Available # {}
      /\ UNCHANGED <<unread, moves, jumped, foreign, failed, lost>>
  BY DEF ReadPage
<1>2. PICK P \in Oldest(Available, Page) :
        /\ Process(P)
        /\ stored' = stored \cup pending \cup P
        /\ pending' = {}
        /\ fetch' = [fetch EXCEPT
               !.count = @ + Cardinality(P), !.seen = @ \cup P,
               !.short = @ \/ LimitReached(P),
               !.got = IF LimitReached(P) THEN {} ELSE @ \cup P,
               !.left = IF turn = "scheduled" /\ Canceled THEN <<>>
                        ELSE IF LimitReached(P) THEN Tail(@) ELSE @]
  BY DEF ReadPage
<1>3. Available \in SUBSET Events BY <1>1, AvailableIs
<1>4. P \in SUBSET Available /\ Eldest(P, Available) /\ P # {}
  BY <1>1, <1>2, <1>3, Numbers, OldestIs DEF Eldest
<1>5. /\ last' = [last EXCEPT ![turn] = Follow(P)]
      /\ late' = IF turn = "opened" THEN late
               ELSE late \cup {e \in P \ (stored \cup pending) : Kind[e] = "opened"}
  BY <1>2, <1>4 DEF Process
<1>6. fetch \in Fetches BY <1>1, NowOn
<1>7. /\ fetch.count \in Nat /\ fetch.seen \in SUBSET Events
      /\ fetch.short \in BOOLEAN /\ fetch.got \in SUBSET Events
      /\ fetch.left \in Seq({"primary", "fallback"})
  BY <1>6, FetchFields
<1>8. Cardinality(P) \in Nat /\ P \in SUBSET Events BY <1>3, <1>4, SizesOf
<1> DEFINE c == fetch.count + Cardinality(P)
           s == fetch.seen \cup P
           r == LimitReached(P)
           h == fetch.short \/ r
           g == IF r THEN {} ELSE fetch.got \cup P
           l == IF Cut THEN <<>> ELSE IF r THEN Tail(fetch.left) ELSE fetch.left
<1>9. /\ c \in Nat /\ s \in SUBSET Events /\ h \in BOOLEAN /\ g \in SUBSET Events
  BY <1>7, <1>8
<1>10. l \in Seq({"primary", "fallback"})
  <2>1. Tail(fetch.left) \in Seq({"primary", "fallback"})
    <3>1. Tail(fetch.left) = <<>> \/ Tail(fetch.left) = <<"fallback">>
      BY <1>1, LeftIs
    <3>2. /\ <<>> \in Seq({"primary", "fallback"})
          /\ <<"fallback">> \in Seq({"primary", "fallback"})
      OBVIOUS
    <3> QED BY <3>1, <3>2
  <2> QED BY <1>7, <2>1
<1>11. fetch' = [fetch EXCEPT !.count = c, !.seen = s, !.short = h,
                              !.got = g, !.left = l]
  BY <1>2 DEF Cut
<1>12. r => Cardinality(fetch.got \cup P) >= fetch.max BY DEF LimitReached
<1>13. (r => g = {} /\ h = TRUE) /\ (~r => g = fetch.got \cup P /\ h = fetch.short)
  BY <1>7
<1>14. (r => l = IF Cut THEN <<>> ELSE Tail(fetch.left))
       /\ (~r => l = IF Cut THEN <<>> ELSE fetch.left)
  OBVIOUS
<1> HIDE DEF c, s, r, h, g, l
<1>15. /\ fetch' \in Fetches
       /\ fetch'.begin = fetch.begin /\ fetch'.end = fetch.end
       /\ fetch'.max = fetch.max /\ fetch'.error = fetch.error
       /\ fetch'.count = c /\ fetch'.seen = s /\ fetch'.short = h
       /\ fetch'.got = g /\ fetch'.left = l
  BY <1>6, <1>9, <1>10, <1>11 DEF Fetches
<1>16. fetch' # None BY <1>15, Numbers
<1>17. \/ /\ fetch'.got = {} /\ fetch'.short = TRUE
          /\ Cardinality(fetch.got \cup P) >= fetch.max
          /\ fetch'.left = IF Cut THEN <<>> ELSE Tail(fetch.left)
       \/ /\ fetch'.got = fetch.got \cup P /\ fetch'.short = fetch.short
          /\ fetch'.left = IF Cut THEN <<>> ELSE fetch.left
  BY <1>12, <1>13, <1>14, <1>15
<1>18. fetch'.count = fetch.count + Cardinality(P) /\ fetch'.seen = fetch.seen \cup P
  BY <1>15 DEF c, s
<1> QED BY <1>1, <1>2, <1>4, <1>5, <1>15, <1>16, <1>17, <1>18

LEMMA PageIsCut ==
  ASSUME Types, PageFails
  PROVE  \E Q \in SUBSET Available :
    /\ Eldest(Q, Available)
    /\ last' = IF Q = {} THEN last ELSE [last EXCEPT ![turn] = Follow(Q)]
    /\ late' = IF turn = "opened" THEN late
               ELSE late \cup {e \in Q \ (stored \cup pending) : Kind[e] = "opened"}
    /\ stored \subseteq stored' /\ Q \ Buffered(Q) \subseteq stored'
    /\ stored' \cup pending' = stored \cup pending \cup Q
    /\ pending' = pending \cup Buffered(Q)
    /\ fetch' \in Fetches /\ fetch' # None
    /\ fetch'.begin = fetch.begin /\ fetch'.end = fetch.end
    /\ fetch'.max = fetch.max /\ fetch'.count = fetch.count
    /\ fetch'.got = fetch.got /\ fetch'.short = fetch.short
    /\ fetch'.error = TRUE /\ fetch'.left = <<>>
    /\ fetch'.seen = fetch.seen \cup Q
    /\ failed' = (failed \/ Buffered(Q) # {})
    /\ fetch # None /\ fetch.left # <<>> /\ Move
    /\ UNCHANGED <<unread, jumped, foreign, lost>>
<1>1. /\ fetch # None /\ fetch.left # <<>> /\ Move
      /\ UNCHANGED <<unread, jumped, foreign, lost>>
  BY DEF PageFails
<1>2. PICK P \in Oldest(Available, Page), n \in 0..Page : \E Q \in Oldest(P, n) :
        /\ Process(Q)
        /\ pending' = pending \cup Buffered(Q)
        /\ \E F \in {{}, {e \in pending' : Q = P /\ Kind[e] = "delivered"}} :
            stored' = stored \cup (Q \ Buffered(Q)) \cup F
        /\ fetch' = [fetch EXCEPT !.error = TRUE, !.left = <<>>,
                                  !.seen = @ \cup Q]
        /\ failed' = (failed \/ Buffered(Q) # {})
  BY DEF PageFails
<1>3. PICK Q \in Oldest(P, n) :
        /\ Process(Q)
        /\ pending' = pending \cup Buffered(Q)
        /\ \E F \in {{}, {e \in pending' : Q = P /\ Kind[e] = "delivered"}} :
            stored' = stored \cup (Q \ Buffered(Q)) \cup F
        /\ fetch' = [fetch EXCEPT !.error = TRUE, !.left = <<>>,
                                  !.seen = @ \cup Q]
        /\ failed' = (failed \/ Buffered(Q) # {})
  BY <1>2
<1>4. Available \in SUBSET Events BY <1>1, AvailableIs
<1>5. Eldest(P, Available) BY <1>2, <1>4, Numbers, OldestIs
<1>6. P \in SUBSET Events BY <1>4, <1>5 DEF Eldest
<1>7. Eldest(Q, P)
  <2>1. n \in Nat BY <1>2, Numbers
  <2> QED BY <1>3, <1>6, <2>1, OldestIs
<1>8. Eldest(Q, Available) BY <1>4, <1>5, <1>7, EldestOfEldest
<1>9. Q \in SUBSET Available BY <1>8 DEF Eldest
<1>10. /\ last' = IF Q = {} THEN last ELSE [last EXCEPT ![turn] = Follow(Q)]
       /\ late' = IF turn = "opened" THEN late
               ELSE late \cup {e \in Q \ (stored \cup pending) : Kind[e] = "opened"}
  BY <1>3 DEF Process
<1>11. Buffered(Q) \in SUBSET Q BY DEF Buffered
<1>12. PICK F \in SUBSET pending' : stored' = stored \cup (Q \ Buffered(Q)) \cup F
  BY <1>3
<1>13. /\ stored \subseteq stored' /\ Q \ Buffered(Q) \subseteq stored'
       /\ stored' \cup pending' = stored \cup pending \cup Q
  BY <1>3, <1>11, <1>12
<1>14. fetch \in Fetches BY <1>1, NowOn
<1> DEFINE s == fetch.seen \cup Q
<1>15. s \in SUBSET Events BY <1>4, <1>9, <1>14, FetchFields
<1>16. fetch' = [fetch EXCEPT !.error = TRUE, !.left = <<>>, !.seen = s]
  BY <1>3
<1> HIDE DEF s
<1>17. <<>> \in Seq({"primary", "fallback"}) OBVIOUS
<1>18. /\ fetch' \in Fetches
       /\ fetch'.begin = fetch.begin /\ fetch'.end = fetch.end
       /\ fetch'.max = fetch.max /\ fetch'.count = fetch.count
       /\ fetch'.got = fetch.got /\ fetch'.short = fetch.short
       /\ fetch'.error = TRUE /\ fetch'.left = <<>> /\ fetch'.seen = s
  BY <1>14, <1>15, <1>16, <1>17 DEF Fetches
<1>19. fetch' # None BY <1>18, Numbers
<1> QED BY <1>1, <1>3, <1>8, <1>9, <1>10, <1>13, <1>18, <1>19 DEF s

LEMMA FetchBegins ==
  ASSUME Types, FetchEvents
  PROVE
    /\ fetch = None /\ turn \in Jobs /\ fetch' \in Fetches /\ fetch' # None
    /\ fetch'.begin < fetch'.end /\ fetch'.end <= MaxTime
    /\ fetch'.left = Domains /\ fetch'.got = {} /\ fetch'.count = 0
    /\ fetch'.seen = {} /\ fetch'.error = FALSE /\ fetch'.short = FALSE
    /\ turn \in {"opened", "others"} => fetch'.end = now - Margin
    /\ turn \in {"missing", "scheduled"} => fetch'.end <= now - Trust
    /\ turn # "scheduled" => fetch'.begin = Cursor(turn) /\ schedule' = schedule
    /\ turn = "scheduled" =>
         /\ schedule # None /\ ~Canceled
         /\ schedule' \in Schedules /\ schedule' # None
         /\ schedule'.of = schedule.of /\ schedule'.running = TRUE
         /\ schedule'.canceled = schedule.canceled
         /\ fetch'.end = schedule.of.end /\ fetch'.begin >= schedule.of.begin
         /\ last[turn] # None => fetch'.begin >= last[turn]
         /\ fetch'.begin = schedule.of.begin
              \/ (last[turn] # None /\ fetch'.begin = last[turn])
    /\ started' = [started EXCEPT ![turn] = fetch'.begin]
    /\ lastBegin' = IF turn = "others" THEN fetch'.begin ELSE lastBegin
    /\ UNCHANGED <<atMailgun, config, tables, pending, last, finished,
                   metadata, restored, turn, used, moves, history>>
<1> DEFINE b == WindowBegin(turn)
           n == WindowEnd(turn)
<1>1. /\ turn # "idle" /\ fetch = None /\ ~Nothing(turn)
      /\ fetch' = [begin |-> b, end |-> n,
                 max |-> Budget - used, left |-> Domains, got |-> {},
                 count |-> 0, seen |-> {}, error |-> FALSE, short |-> FALSE]
      /\ started' = [started EXCEPT ![turn] = b]
      /\ lastBegin' = IF turn = "others" THEN b ELSE lastBegin
      /\ schedule' = IF turn = "scheduled"
                     THEN [schedule EXCEPT !.running = TRUE] ELSE schedule
      /\ UNCHANGED <<atMailgun, config, tables, pending, last, finished,
                   metadata, restored, turn, used, moves, history>>
  BY DEF FetchEvents
<1>2. turn \in Jobs BY <1>1, NowOn
<1>3. turn = "scheduled" => schedule # None /\ ~Canceled /\ schedule \in Schedules
  BY <1>1, NowOn DEF Nothing
<1>4. ~(n <= b) BY <1>1 DEF Nothing
<1>5. now \in Nat /\ now <= MaxTime BY NowOn
<1>6. /\ last[turn] \in Time \cup {None} /\ started[turn] \in Time
      /\ finished[turn] \in Time \cup {None} /\ lastBegin \in Time \cup {None}
  BY <1>2 DEF Types, Cursors
<1>7. Time \subseteq Int /\ Time \subseteq Nat BY Numbers DEF Time
<1>8. turn # "scheduled" => b = Cursor(turn) /\ b \in Time
  BY <1>6 DEF WindowBegin, Cursor
<1>9. ASSUME turn = "scheduled"
      PROVE  /\ schedule.of.begin \in 0..MaxTime /\ schedule.of.end \in 0..MaxTime
             /\ n = schedule.of.end /\ n <= now - Trust /\ n \in Int
             /\ b \in Int /\ b >= schedule.of.begin
             /\ last[turn] # None => b >= last[turn]
             /\ b = schedule.of.begin \/ (last[turn] # None /\ b = last[turn])
  <2>1. schedule.of.begin \in 0..MaxTime /\ schedule.of.end \in 0..MaxTime
    BY <1>3, <1>9, WindowFields
  <2>2. n = schedule.of.end BY <1>9 DEF WindowEnd
  <2>3. b = Max({schedule.of.begin} \cup ({last[turn]} \ {None}))
    BY <1>9 DEF WindowBegin
  <2>4. schedule.of.begin \in Int /\ last[turn] \in Int \cup {None}
    <3>1. schedule.of.begin \in Int BY <2>1
    <3>2. last[turn] \in Int \cup {None} BY <1>6, <1>7
    <3> QED BY <3>1, <3>2
  <2>5. schedule.of.end + Trust <= now
    BY <1>3, <1>9 DEF Types, Requested
  <2> HIDE DEF b, n
  <2>6. /\ b \in Int /\ b >= schedule.of.begin
        /\ last[turn] # None => b >= last[turn]
        /\ b = schedule.of.begin \/ (last[turn] # None /\ b = last[turn])
    BY <2>3, <2>4, LaterOf
  <2>7. n <= now - Trust /\ n \in Int BY <1>5, <2>1, <2>2, <2>5, Numbers
  <2> QED BY <2>1, <2>2, <2>6, <2>7
<1>10. turn \in {"opened", "others"} => n = now - Margin
  BY DEF WindowEnd
<1>11. turn = "missing" => n \in Int /\ n <= now - Trust
  <2> SUFFICES ASSUME turn = "missing" PROVE n \in Int /\ n <= now - Trust
    OBVIOUS
  <2>1. n = Min({now - Trust} \cup ({lastBegin} \ {None})) BY DEF WindowEnd
  <2>2. now - Trust \in Int /\ lastBegin \in Int \cup {None}
    BY <1>5, <1>6, <1>7, Numbers
  <2> HIDE DEF n
  <2> QED BY <2>1, <2>2, EarlierOf
<1> HIDE DEF b, n
<1>12. n \in Int /\ n <= MaxTime
  <2>1. CASE turn \in {"opened", "others"} BY <1>5, <1>10, <2>1, Numbers
  <2>2. CASE turn = "missing" BY <1>5, <1>11, <2>2, Numbers
  <2>3. CASE turn = "scheduled" BY <1>9, <2>3, Numbers
  <2> QED BY <1>2, <2>1, <2>2, <2>3 DEF Jobs
<1>13. b \in Nat
  <2>1. CASE turn = "scheduled"
    <3>1. b \in Int /\ b >= schedule.of.begin /\ schedule.of.begin \in 0..MaxTime
      BY <1>9, <2>1
    <3> QED BY <3>1, Numbers
  <2>2. CASE turn # "scheduled" BY <1>7, <1>8, <2>2
  <2> QED BY <2>1, <2>2
<1>14. b < n BY <1>4, <1>12, <1>13
<1>15. b \in Time /\ n \in Time BY <1>12, <1>13, <1>14, Numbers DEF Time
<1>16. Budget - used \in Int BY Numbers DEF Types, Pages
<1>17. Domains \in Seq({"primary", "fallback"})
  <2>1. <<"primary", "fallback">> \in Seq({"primary", "fallback"}) OBVIOUS
  <2>2. <<"primary">> \in Seq({"primary", "fallback"}) OBVIOUS
  <2> QED BY <2>1, <2>2 DEF Domains
<1>18. fetch' \in Fetches BY <1>1, <1>15, <1>16, <1>17 DEF Fetches
<1>19. /\ fetch'.begin = b /\ fetch'.end = n
       /\ fetch'.left = Domains /\ fetch'.got = {} /\ fetch'.count = 0
       /\ fetch'.seen = {} /\ fetch'.error = FALSE /\ fetch'.short = FALSE
  BY <1>1
<1>20. fetch' # None BY <1>18, Numbers
<1>21. turn = "scheduled" =>
         /\ schedule' \in Schedules /\ schedule' # None
         /\ schedule'.of = schedule.of /\ schedule'.running = TRUE
         /\ schedule'.canceled = schedule.canceled
  <2> SUFFICES ASSUME turn = "scheduled"
               PROVE  /\ schedule' \in Schedules /\ schedule' # None
                      /\ schedule'.of = schedule.of /\ schedule'.running = TRUE
                      /\ schedule'.canceled = schedule.canceled
    OBVIOUS
  <2>1. schedule' = [schedule EXCEPT !.running = TRUE] BY <1>1
  <2>2. schedule \in Schedules BY <1>3
  <2>3. /\ schedule' \in Schedules
        /\ schedule'.of = schedule.of /\ schedule'.running = TRUE
        /\ schedule'.canceled = schedule.canceled
    BY <2>1, <2>2 DEF Schedules
  <2> QED BY <2>3, Numbers
<1>22. turn # "scheduled" => schedule' = schedule BY <1>1
<1>23. turn \in {"missing", "scheduled"} => fetch'.end <= now - Trust
  BY <1>9, <1>11, <1>19
<1>24. turn \in {"opened", "others"} => fetch'.end = now - Margin BY <1>10, <1>19
<1>25. turn # "scheduled" => fetch'.begin = Cursor(turn) BY <1>8, <1>19
<1>26. turn = "scheduled" =>
         /\ fetch'.end = schedule.of.end /\ fetch'.begin >= schedule.of.begin
         /\ last[turn] # None => fetch'.begin >= last[turn]
         /\ fetch'.begin = schedule.of.begin
              \/ (last[turn] # None /\ fetch'.begin = last[turn])
  BY <1>9, <1>19
<1>27. fetch'.begin < fetch'.end /\ fetch'.end <= MaxTime BY <1>12, <1>14, <1>19
<1> QED BY <1>1, <1>2, <1>3, <1>18, <1>19, <1>20, <1>21, <1>22, <1>23, <1>24,
           <1>25, <1>26, <1>27

LEMMA Rerun ==
  ASSUME NEW s \in Schedules, NEW b \in BOOLEAN
  PROVE  LET r == [s EXCEPT !.running = b]
             c == [s EXCEPT !.canceled = b] IN
         /\ r \in Schedules /\ r # None
         /\ r.of = s.of /\ r.running = b /\ r.canceled = s.canceled
         /\ c \in Schedules /\ c # None
         /\ c.of = s.of /\ c.running = s.running /\ c.canceled = b
<1>1. LET r == [s EXCEPT !.running = b] IN
         r \in Schedules /\ r.of = s.of /\ r.running = b /\ r.canceled = s.canceled
  BY DEF Schedules
<1>2. LET c == [s EXCEPT !.canceled = b] IN
         c \in Schedules /\ c.of = s.of /\ c.running = s.running /\ c.canceled = b
  BY DEF Schedules
<1> QED BY <1>1, <1>2, Numbers

LEMMA TurnOn ==
  ASSUME Types, NEW c \in Nat, NextTurn(c), turn \in Jobs
  PROVE  turn' \in Jobs \cup {"idle"} /\ used' \in Nat /\ fetch' = None
<1>1. used \in Nat BY DEF Types, Pages
<1>2. turn' \in Jobs \cup {"idle"} BY DEF NextTurn, Turn, Jobs
<1>3. used' \in Nat BY <1>1 DEF NextTurn
<1> QED BY <1>2, <1>3 DEF NextTurn

LEMMA FetchEnds ==
  ASSUME Types, EndFetch
  PROVE  \E next \in Time \cup {None} :
    /\ fetch # None /\ fetch.left = <<>> /\ ~fetch.error /\ turn \in Jobs
    /\ Aggregate(fetch.seen)
    /\ fetch.count > 0 =>
         /\ last[turn] # None /\ IsTime(last[turn])
         /\ next # None /\ next >= last[turn]
         /\ next = last[turn]
              \/ (fetch.count < fetch.max /\ next = last[turn] + Second)
    /\ ~(fetch.count > 0) => next = last[turn]
    /\ \/ /\ turn = "scheduled" /\ schedule' = None /\ metadata' = None
          /\ last' = [last EXCEPT !["scheduled"] = None]
       \/ /\ last' = [last EXCEPT ![turn] = next]
          /\ metadata' = metadata
          /\ turn # "scheduled" => schedule' = schedule
          /\ turn = "scheduled" =>
               /\ fetch.count > 0 /\ ~Canceled
               /\ schedule' \in Schedules /\ schedule' # None
               /\ schedule'.of = schedule.of /\ schedule'.running = FALSE
               /\ schedule'.canceled = schedule.canceled
    /\ \/ finished' = finished /\ foreign' = foreign
       \/ /\ fetch.count > 0
          /\ foreign' = (foreign /\ turn # "scheduled")
          /\ \E s \in {last[turn], next} :
               /\ finished' = [finished EXCEPT ![turn] = s]
               /\ turn # "scheduled" => s = last[turn]
               /\ turn = "scheduled" /\ schedule' # None => s = next
    /\ moves' \in 0..MaxMoves
    /\ turn' \in Jobs \cup {"idle"} /\ used' \in Nat /\ fetch' = None
    /\ jumped' = Jumped
    /\ UNCHANGED <<fetched, failed>>
<1> DEFINE some == fetch.count > 0
           next == IF some THEN Advanced ELSE last[turn]
           done == turn = "scheduled" /\ (~some \/ Canceled)
           save == IF turn = "scheduled" /\ ~done THEN next ELSE last[turn]
<1>1. /\ fetch # None /\ fetch.left = <<>> /\ ~fetch.error
      /\ Aggregate(fetch.seen)
      /\ IF done THEN Clear
         ELSE /\ last' = [last EXCEPT ![turn] = next]
              /\ schedule' = IF turn = "scheduled"
                             THEN [schedule EXCEPT !.running = FALSE]
                             ELSE schedule
              /\ UNCHANGED metadata
      /\ \/ /\ finished' = IF some THEN [finished EXCEPT ![turn] = save]
                           ELSE finished
            /\ foreign' = (foreign /\ ~(some /\ turn = "scheduled"))
            /\ UNCHANGED moves
         \/ some /\ Move /\ UNCHANGED <<finished, foreign>>
      /\ NextTurn(fetch.count)
      /\ jumped' = Jumped
      /\ UNCHANGED <<fetched, failed>>
  BY DEF EndFetch
<1>2. turn \in Jobs /\ fetch \in Fetches BY <1>1, NowOn
<1>3. fetch.count \in Nat /\ fetch.end \in Nat /\ fetch.max \in Int
  BY <1>2, FetchFields
<1>4. turn' \in Jobs \cup {"idle"} /\ used' \in Nat /\ fetch' = None
  BY <1>1, <1>2, <1>3, TurnOn
<1>5. foreign \in BOOLEAN BY DEF Types, Data
<1>6. moves' \in 0..MaxMoves
  <2>1. moves \in 0..MaxMoves BY DEF Types, Data
  <2>2. moves' = moves \/ (moves < MaxMoves /\ moves' = moves + 1)
    BY <1>1 DEF Move
  <2> QED BY <2>1, <2>2, Numbers
<1>7. last[turn] \in Time \cup {None} BY <1>2 DEF Types, Cursors
<1>8. some => /\ last[turn] # None /\ IsTime(last[turn])
              /\ last[turn] \in Nat /\ last[turn] <= MaxTime
  <2> SUFFICES ASSUME some
               PROVE  /\ last[turn] # None /\ IsTime(last[turn])
                      /\ last[turn] \in Nat /\ last[turn] <= MaxTime
    OBVIOUS
  <2>1. /\ last[turn] # None /\ IsTime(last[turn]) /\ last[turn] <= fetch.end
        /\ fetch.end <= MaxTime
    BY <1>1 DEF Types, Working, Pages
  <2>2. last[turn] \in Nat BY <1>7, <2>1, Numbers DEF Time
  <2> QED BY <1>3, <2>1, <2>2, Numbers
<1>9. some => /\ next \in Time /\ next >= last[turn]
              /\ next = last[turn]
                   \/ (fetch.count < fetch.max /\ next = last[turn] + Second)
  <2> SUFFICES ASSUME some
               PROVE  /\ next \in Time /\ next >= last[turn]
                      /\ next = last[turn]
                           \/ (fetch.count < fetch.max /\ next = last[turn] + Second)
    OBVIOUS
  <2>1. \/ next = last[turn]
        \/ fetch.count < fetch.max /\ next = last[turn] + Second
    BY DEF Advanced, NextSecond
  <2> HIDE DEF next, some
  <2> QED BY <1>8, <2>1, Numbers DEF Time
<1>10. some => next # None BY <1>9, Numbers
<1>11. ~some => next = last[turn] OBVIOUS
<1>12. next \in Time \cup {None} BY <1>7, <1>9, <1>11
<1>13. \/ /\ turn = "scheduled" /\ schedule' = None /\ metadata' = None
          /\ last' = [last EXCEPT !["scheduled"] = None]
       \/ /\ last' = [last EXCEPT ![turn] = next]
          /\ metadata' = metadata
          /\ turn # "scheduled" => schedule' = schedule
          /\ turn = "scheduled" =>
               /\ some /\ ~Canceled
               /\ schedule' \in Schedules /\ schedule' # None
               /\ schedule'.of = schedule.of /\ schedule'.running = FALSE
               /\ schedule'.canceled = schedule.canceled
  <2>1. CASE done BY <1>1, <2>1 DEF Clear
  <2>2. CASE ~done
    <3>1. turn # "scheduled" => schedule' = schedule BY <1>1, <2>2
    <3>2. ASSUME turn = "scheduled"
          PROVE  /\ some /\ ~Canceled
                 /\ schedule' \in Schedules /\ schedule' # None
                 /\ schedule'.of = schedule.of /\ schedule'.running = FALSE
                 /\ schedule'.canceled = schedule.canceled
      <4>1. schedule \in Schedules
        BY <1>1, <3>2 DEF Types, Working, Requested
      <4>2. schedule' = [schedule EXCEPT !.running = FALSE] BY <1>1, <2>2, <3>2
      <4>3. some /\ ~Canceled BY <2>2, <3>2
      <4> QED BY <4>1, <4>2, <4>3, Rerun
    <3> QED BY <1>1, <2>2, <3>1, <3>2
  <2> QED BY <2>1, <2>2
<1>14. \/ finished' = finished /\ foreign' = foreign
       \/ /\ some
          /\ foreign' = (foreign /\ turn # "scheduled")
          /\ \E s \in {last[turn], next} :
               /\ finished' = [finished EXCEPT ![turn] = s]
               /\ turn # "scheduled" => s = last[turn]
               /\ turn = "scheduled" /\ schedule' # None => s = next
  <2>1. CASE some /\ finished' = [finished EXCEPT ![turn] = save]
                  /\ foreign' = (foreign /\ ~(some /\ turn = "scheduled"))
    <3>1. save \in {last[turn], next} /\ (turn # "scheduled" => save = last[turn])
      OBVIOUS
    <3>2. turn = "scheduled" /\ schedule' # None => save = next
      <4>1. done => schedule' = None BY <1>1 DEF Clear
      <4> QED BY <4>1
    <3>3. foreign' = (foreign /\ turn # "scheduled") BY <2>1
    <3> HIDE DEF save, next
    <3> QED BY <2>1, <3>1, <3>2, <3>3
  <2>2. CASE finished' = finished /\ foreign' = foreign BY <2>2
  <2>3. ~some => foreign' = foreign /\ finished' = finished
    BY <1>1, <1>5
  <2> QED BY <1>1, <2>1, <2>2, <2>3
<1> HIDE DEF next, done, save
<1> QED BY <1>1, <1>2, <1>4, <1>6, <1>8, <1>9, <1>10, <1>11, <1>12, <1>13, <1>14

LEMMA Throws ==
  ASSUME Types, FetchThrows
  PROVE
    /\ fetch # None /\ fetch.left = <<>> /\ turn \in Jobs
    /\ \/ fetch.error /\ Aggregate(fetch.seen) /\ failed' = failed
       \/ failed' = TRUE /\ counted' = counted
    /\ turn # "scheduled" => schedule' = schedule
    /\ turn = "scheduled" =>
         /\ schedule # None /\ schedule' \in Schedules /\ schedule' # None
         /\ schedule'.of = schedule.of
         /\ schedule'.canceled = schedule.canceled
    /\ turn' = "idle" /\ used' = 0 /\ fetch' = None /\ jumped' = Jumped
    /\ moves' \in 0..MaxMoves
    /\ UNCHANGED <<fetched, last, finished, metadata, foreign>>
<1>1. fetch # None /\ turn \in Jobs BY NowOn DEF FetchThrows
<1>2. moves' \in 0..MaxMoves
  <2>1. moves \in 0..MaxMoves BY DEF Types, Data
  <2>2. moves' = moves \/ (moves < MaxMoves /\ moves' = moves + 1)
    BY DEF FetchThrows, Move
  <2> QED BY <2>1, <2>2, Numbers
<1>3. turn # "scheduled" => schedule' = schedule BY DEF FetchThrows
<1>4. turn = "scheduled" =>
         /\ schedule # None /\ schedule' \in Schedules /\ schedule' # None
         /\ schedule'.of = schedule.of
         /\ schedule'.canceled = schedule.canceled
  <2> SUFFICES ASSUME turn = "scheduled"
      PROVE  /\ schedule # None /\ schedule' \in Schedules /\ schedule' # None
             /\ schedule'.of = schedule.of
             /\ schedule'.canceled = schedule.canceled
    OBVIOUS
  <2>1. schedule # None /\ schedule \in Schedules
    BY <1>1 DEF Types, Working, Requested
  <2>2. \/ schedule' = [schedule EXCEPT !.running = TRUE]
        \/ schedule' = [schedule EXCEPT !.running = FALSE]
    BY DEF FetchThrows
  <2>3. CASE schedule' = [schedule EXCEPT !.running = TRUE] BY <2>1, <2>3, Rerun
  <2>4. CASE schedule' = [schedule EXCEPT !.running = FALSE] BY <2>1, <2>4, Rerun
  <2> QED BY <2>2, <2>3, <2>4
<1> QED BY <1>1, <1>2, <1>3, <1>4 DEF FetchThrows

-----------------------------------------------------------------------------
\* Every step keeps the types.
LEMMA Counting ==
  ASSUME NEW S, Aggregate(S), counted \subseteq stored
  PROVE  counted \subseteq counted' /\ counted' \subseteq stored
  BY DEF Aggregate

LEMMA Moved ==
  ASSUME Types, Move
  PROVE  moves' \in 0..MaxMoves
<1>1. moves \in 0..MaxMoves BY DEF Types, Data
<1> QED BY <1>1, Numbers DEF Move

LEMMA JumpedIs ==
  ASSUME Types, turn \in Jobs
  PROVE  Jumped \subseteq Jobs
  BY DEF Types, Data, Jumped

LEMMA DataStep ==
  ASSUME Types, [Next]_vars
  PROVE  Data'
<1>0. Data BY DEF Types
<1>1. ASSUME NEW e \in Events, Show(e) PROVE Data'
  BY <1>0, <1>1 DEF Show, Data, tables, history
<1>2. CASE Tick
  <2>1. now' \in 0..MaxTime BY <1>0, <1>2, Numbers DEF Data, Tick
  <2> QED BY <1>0, <1>2, <2>1 DEF Tick, Data, tables, history
<1>3. ASSUME NEW w \in Windows, Request(w) PROVE Data'
  <2>1. moves' \in 0..MaxMoves BY <1>3, Moved DEF Request
  <2>2. foreign' \in BOOLEAN BY <1>3 DEF Request
  <2>3. /\ jumped' = jumped \ {"scheduled"}
        /\ UNCHANGED <<atMailgun, config, tables, pending, late, failed, lost>>
    BY <1>3 DEF Request
  <2> QED BY <1>0, <2>1, <2>2, <2>3 DEF Data, atMailgun, tables
<1>4. CASE Cancel
  <2>1. moves' \in 0..MaxMoves BY <1>4, Moved DEF Cancel
  <2> QED BY <1>0, <1>4, <2>1 DEF Cancel, Data, atMailgun, tables, history
<1>5. CASE Start
  <2>1. jumped' \subseteq Jobs
    BY <1>0, <1>5 DEF Start, Restore, Data, Jobs
  <2> QED BY <1>0, <1>5, <2>1 DEF Start, Data, atMailgun, tables
<1>6. CASE Skip BY <1>0, <1>6 DEF Skip, Data, atMailgun, tables, history
<1>7. CASE FetchEvents
  BY <1>0, <1>7 DEF FetchEvents, Data, atMailgun, tables, history
<1>8. CASE ReadPage
  <2>1. PICK P \in SUBSET Available :
          /\ late' = IF turn = "opened" THEN late
               ELSE late \cup {e \in P \ (stored \cup pending) : Kind[e] = "opened"}
          /\ stored' = stored \cup pending \cup P /\ pending' = {}
          /\ UNCHANGED <<unread, moves, jumped, foreign, failed, lost>>
    BY <1>8, PageIsRead
  <2>2. P \in SUBSET shown BY <1>8, <2>1, AvailableIs DEF ReadPage
  <2>3. UNCHANGED <<now, shown, config, counted, moves, jumped, foreign, failed, lost>>
    BY <2>1 DEF unread, atMailgun
  <2>4. late' \subseteq late \cup P BY <2>1
  <2>5. stored' \subseteq shown' /\ counted' \subseteq stored' /\ late' \subseteq stored'
    BY <1>0, <2>1, <2>2, <2>3, <2>4 DEF Data
  <2> QED BY <1>0, <2>1, <2>3, <2>5 DEF Data
<1>9. CASE PageFails
  <2>1. PICK Q \in SUBSET Available :
          /\ late' = IF turn = "opened" THEN late
               ELSE late \cup {e \in Q \ (stored \cup pending) : Kind[e] = "opened"}
          /\ stored \subseteq stored'
          /\ stored' \cup pending' = stored \cup pending \cup Q
          /\ pending' = pending \cup Buffered(Q)
          /\ failed' = (failed \/ Buffered(Q) # {})
          /\ Move
          /\ UNCHANGED <<unread, jumped, foreign, lost>>
    BY <1>9, PageIsCut
  <2>2. Q \in SUBSET shown BY <1>9, <2>1, AvailableIs DEF PageFails
  <2>3. UNCHANGED <<now, shown, config, counted, jumped, foreign, lost>>
    BY <2>1 DEF unread, atMailgun
  <2>4. late' \subseteq late \cup Q BY <2>1
  <2>5. stored' \cup pending' \subseteq shown /\ late' \subseteq stored' \cup pending'
    BY <1>0, <2>1, <2>2, <2>4 DEF Data
  <2>6. pending' # {} => config.batched BY <1>0, <2>1 DEF Data, Buffered
  <2>7. moves' \in 0..MaxMoves BY <2>1, Moved
  <2>8. failed' \in BOOLEAN BY <2>1
  <2> QED BY <1>0, <2>1, <2>3, <2>5, <2>6, <2>7, <2>8 DEF Data
<1>10. CASE DomainDone
  BY <1>0, <1>10 DEF DomainDone, unread, Data, atMailgun, history
<1>11. CASE AggregateMeanwhile
  <2>1. counted \subseteq counted' /\ counted' \subseteq stored
    BY <1>0, <1>11, Counting DEF AggregateMeanwhile, Data
  <2> QED BY <1>0, <1>11, <2>1 DEF AggregateMeanwhile, Data, atMailgun, history
<1>12. CASE EndFetch
  <2>1. /\ Aggregate(fetch.seen) /\ turn \in Jobs
        /\ foreign' = foreign \/ foreign' = (foreign /\ turn # "scheduled")
        /\ moves' \in 0..MaxMoves /\ jumped' = Jumped
        /\ UNCHANGED <<fetched, failed>>
    BY <1>12, FetchEnds
  <2>2. counted \subseteq counted' /\ counted' \subseteq stored
    BY <1>0, <2>1, Counting DEF Data
  <2>3. foreign' \in BOOLEAN BY <1>0, <2>1 DEF Data
  <2>4. jumped' \subseteq Jobs BY <2>1, JumpedIs
  <2> QED BY <1>0, <2>1, <2>2, <2>3, <2>4 DEF Data, fetched, atMailgun
<1>13. CASE FetchThrows
  <2>1. /\ turn \in Jobs
        /\ \/ Aggregate(fetch.seen) /\ failed' = failed
           \/ failed' = TRUE /\ counted' = counted
        /\ moves' \in 0..MaxMoves /\ jumped' = Jumped
        /\ UNCHANGED <<fetched, foreign>>
    BY <1>13, Throws
  <2>2. counted' \subseteq stored
    BY <1>0, <2>1, Counting DEF Data
  <2>3. failed' \in BOOLEAN BY <1>0, <2>1 DEF Data
  <2>4. jumped' \subseteq Jobs BY <2>1, JumpedIs
  <2> QED BY <1>0, <2>1, <2>2, <2>3, <2>4 DEF Data, fetched, atMailgun
<1>14. CASE Crash
  <2>1. moves' \in 0..MaxMoves BY <1>14, Moved DEF Crash
  <2> QED BY <1>0, <1>14, <2>1 DEF Crash, Data, atMailgun, tables
<1>15. CASE UNCHANGED vars
  BY <1>0, <1>15 DEF vars, Data, atMailgun, tables, history
<1> QED BY <1>1, <1>2, <1>3, <1>4, <1>5, <1>6, <1>7, <1>8, <1>9, <1>10, <1>11,
           <1>12, <1>13, <1>14, <1>15 DEF Next, Work

LEMMA CursorMoves ==
  ASSUME Cursors, NEW j \in Jobs, NEW v \in Time \cup {None},
         last' = [last EXCEPT ![j] = v], finished' = finished,
         j = "scheduled" \/ v = None \/ finished[j] = None \/ finished[j] <= v
  PROVE  /\ last' \in [Jobs -> Time \cup {None}]
         /\ \A i \in Jobs : last'[i] # None /\ finished'[i] # None =>
               finished'[i] <= last'[i] \/ i = "scheduled"
  BY DEF Cursors

LEMMA CursorsStep ==
  ASSUME Types, [Next]_vars
  PROVE  Cursors'
<1>0. Cursors /\ None \in Time \cup {None} /\ "scheduled" \in Jobs
  BY DEF Types, Jobs
<1>1. CASE (\E e \in Events : Show(e)) \/ Tick \/ DomainDone \/ AggregateMeanwhile
           \/ UNCHANGED vars
  <2>1. UNCHANGED <<last, finished, started, lastBegin>>
    BY <1>1 DEF Show, Tick, DomainDone, AggregateMeanwhile, vars, cursors, unread
  <2> QED BY <1>0, <2>1 DEF Cursors
<1>2. CASE (\E w \in Windows : Request(w)) \/ Cancel \/ Skip
  <2>1. /\ last' = last \/ last' = [last EXCEPT !["scheduled"] = None]
        /\ UNCHANGED <<finished, started, lastBegin>>
    BY <1>2 DEF Request, Cancel, Skip, Clear
  <2>2. CASE last' = last BY <1>0, <2>1, <2>2 DEF Cursors
  <2>3. CASE last' = [last EXCEPT !["scheduled"] = None]
    BY <1>0, <2>1, <2>3, CursorMoves DEF Cursors
  <2> QED BY <2>1, <2>2, <2>3
<1>3. CASE Start
  <2>1. /\ last' = last \/ last' = [last EXCEPT !["scheduled"] = finished["scheduled"]]
        /\ UNCHANGED <<finished, started, lastBegin>>
    BY <1>3 DEF Start, Restore
  <2>2. CASE last' = last BY <1>0, <2>1, <2>2 DEF Cursors
  <2>3. CASE last' = [last EXCEPT !["scheduled"] = finished["scheduled"]]
    <3>1. finished["scheduled"] \in Time \cup {None} BY <1>0 DEF Cursors
    <3> QED BY <1>0, <2>1, <2>3, <3>1, CursorMoves DEF Cursors
  <2> QED BY <2>1, <2>2, <2>3
<1>4. CASE FetchEvents
  <2>1. /\ turn \in Jobs /\ fetch' \in Fetches
        /\ started' = [started EXCEPT ![turn] = fetch'.begin]
        /\ lastBegin' = IF turn = "others" THEN fetch'.begin ELSE lastBegin
        /\ UNCHANGED <<last, finished>>
    BY <1>4, FetchBegins
  <2>2. fetch'.begin \in Time BY <2>1, FetchFields
  <2> QED BY <1>0, <2>1, <2>2 DEF Cursors
<1>5. ASSUME fetch # None, NEW Q \in SUBSET Available,
             last' = IF Q = {} THEN last ELSE [last EXCEPT ![turn] = Follow(Q)],
             UNCHANGED <<finished, started, lastBegin>>
      PROVE  Cursors'
  <2>1. CASE Q = {} BY <1>0, <1>5, <2>1 DEF Cursors
  <2>2. CASE Q # {}
    <3> DEFINE t == Follow(Q)
    <3>1. t \in Time /\ t \in Nat /\ t >= fetch.begin BY <1>5, <2>2, Followed
    <3>2. last' = [last EXCEPT ![turn] = t] BY <1>5, <2>2
    <3> HIDE DEF t
    <3>3. turn \in Jobs /\ fetch.begin \in Nat BY <1>5, NowOn, FetchFields
    <3>4. turn = "scheduled" \/ finished[turn] = None \/ finished[turn] <= t
      <4>1. turn = "scheduled" \/ finished[turn] = None \/ finished[turn] <= fetch.begin
        BY <1>5 DEF Types, Working
      <4>2. finished[turn] \in Nat \cup {None} BY <1>0, <3>3 DEF Cursors, Time
      <4> QED BY <3>1, <3>3, <4>1, <4>2
    <3> QED BY <1>0, <1>5, <3>1, <3>2, <3>3, <3>4, CursorMoves DEF Cursors
  <2> QED BY <2>1, <2>2
<1>6. CASE ReadPage
  <2>1. PICK P \in SUBSET Available :
          /\ P # {} /\ last' = [last EXCEPT ![turn] = Follow(P)] /\ fetch # None
          /\ UNCHANGED unread
    BY <1>6, PageIsRead
  <2>2. UNCHANGED <<finished, started, lastBegin>> BY <2>1 DEF unread
  <2> QED BY <1>5, <2>1, <2>2
<1>7. CASE PageFails
  <2>1. PICK Q \in SUBSET Available :
          /\ last' = IF Q = {} THEN last ELSE [last EXCEPT ![turn] = Follow(Q)]
          /\ fetch # None /\ UNCHANGED unread
    BY <1>7, PageIsCut
  <2>2. UNCHANGED <<finished, started, lastBegin>> BY <2>1 DEF unread
  <2> QED BY <1>5, <2>1, <2>2
<1>8. CASE EndFetch
  <2>1. PICK next \in Time \cup {None} :
     /\ fetch # None /\ turn \in Jobs
     /\ fetch.count > 0 => /\ last[turn] # None /\ next # None
                           /\ next >= last[turn]
     /\ ~(fetch.count > 0) => next = last[turn]
     /\ \/ turn = "scheduled" /\ last' = [last EXCEPT !["scheduled"] = None]
        \/ last' = [last EXCEPT ![turn] = next]
     /\ \/ finished' = finished
        \/ /\ fetch.count > 0
           /\ \E s \in {last[turn], next} :
                /\ finished' = [finished EXCEPT ![turn] = s]
                /\ turn # "scheduled" => s = last[turn]
     /\ UNCHANGED fetched
    BY <1>8, FetchEnds
  <2>2. UNCHANGED <<started, lastBegin>> BY <2>1 DEF fetched
  <2>3. /\ last[turn] \in Nat \cup {None} /\ next \in Nat \cup {None}
        /\ last[turn] \in Time \cup {None}
        /\ finished[turn] \in Nat \cup {None}
    BY <1>0, <2>1 DEF Cursors, Time
  <2>4. last' \in [Jobs -> Time \cup {None}] BY <1>0, <2>1 DEF Cursors
  <2>5. finished' \in [Jobs -> Time \cup {None}] BY <1>0, <2>1, <2>3 DEF Cursors
  <2>6. ASSUME NEW i \in Jobs, i # "scheduled",
               last'[i] # None, finished'[i] # None
        PROVE  finished'[i] <= last'[i]
    <3>1. CASE i # turn
      <4>1. last'[i] = last[i] /\ finished'[i] = finished[i]
        BY <1>0, <2>1, <2>6, <3>1 DEF Cursors
      <4> QED BY <1>0, <2>6, <4>1 DEF Cursors
    <3>2. CASE i = turn
      <4>1. last'[i] = next BY <1>0, <2>1, <2>6, <3>2 DEF Cursors
      <4>2. finished'[i] = finished[i] \/ (fetch.count > 0 /\ finished'[i] = last[i])
        BY <1>0, <2>1, <2>6, <3>2 DEF Cursors
      <4>3. last[i] # None /\ finished[i] # None => finished[i] <= last[i]
        BY <1>0, <2>6 DEF Cursors
      <4>4. CASE fetch.count > 0
        <5>1. last[i] # None /\ last[i] <= next BY <2>1, <2>3, <3>2, <4>4
        <5>2. finished'[i] <= last[i] BY <2>3, <2>6, <3>2, <4>2, <4>3, <5>1
        <5>3. finished'[i] \in Nat BY <2>3, <2>6, <3>2, <4>2, <5>1
        <5> QED BY <2>1, <2>3, <3>2, <4>1, <4>4, <5>1, <5>2, <5>3
      <4>5. CASE ~(fetch.count > 0)
        <5>1. last'[i] = last[i] /\ finished'[i] = finished[i]
          BY <2>1, <3>2, <4>1, <4>2, <4>5
        <5> QED BY <2>6, <4>3, <5>1
      <4> QED BY <4>4, <4>5
    <3> QED BY <3>1, <3>2
  <2> QED BY <1>0, <2>2, <2>4, <2>5, <2>6 DEF Cursors
<1>9. CASE FetchThrows
  <2>1. UNCHANGED <<fetched, last, finished>> BY <1>9, Throws
  <2> QED BY <1>0, <2>1 DEF Cursors, fetched
<1>10. CASE Crash BY <1>0, <1>10 DEF Crash, Cursors
<1> QED BY <1>1, <1>2, <1>3, <1>4, <1>6, <1>7, <1>8, <1>9, <1>10 DEF Next, Work

LEMMA RequestedStep ==
  ASSUME Types, [Next]_vars
  PROVE  Requested'
<1>0. Requested /\ now \in Nat BY NowOn DEF Types
<1>1. CASE (\E e \in Events : Show(e)) \/ DomainDone \/ AggregateMeanwhile
           \/ UNCHANGED vars
  <2>1. UNCHANGED <<schedule, metadata, restored, now>>
    BY <1>1 DEF Show, DomainDone, AggregateMeanwhile, vars, window, unread, atMailgun
  <2> QED BY <1>0, <2>1 DEF Requested
<1>2. CASE Tick
  <2>1. now' = now + 1 /\ UNCHANGED <<schedule, metadata, restored>>
    BY <1>2 DEF Tick, window
  <2>2. schedule # None => schedule.of.end + Trust <= now'
    <3> SUFFICES ASSUME schedule # None PROVE schedule.of.end + Trust <= now'
      OBVIOUS
    <3>1. schedule.of.end \in Nat
      <4>1. schedule.of.end \in 0..MaxTime BY <1>0, WindowFields DEF Requested
      <4> QED BY <4>1
    <3> QED BY <1>0, <2>1, <3>1, Numbers DEF Requested
  <2>3. metadata # None => metadata.end + Trust <= now'
    <3> SUFFICES ASSUME metadata # None PROVE metadata.end + Trust <= now'
      OBVIOUS
    <3>1. metadata.end \in Nat
      <4>1. metadata.end \in 0..MaxTime BY <1>0, WindowFields DEF Requested
      <4> QED BY <4>1
    <3> QED BY <1>0, <2>1, <3>1, Numbers DEF Requested
  <2> QED BY <1>0, <2>1, <2>2, <2>3 DEF Requested
<1>3. ASSUME NEW w \in Windows, Request(w) PROVE Requested'
  <2>1. /\ w.end <= now - Trust /\ metadata' = w /\ now' = now
        /\ schedule' = [of |-> w, running |-> FALSE, canceled |-> FALSE]
        /\ restored' = restored
    BY <1>3 DEF Request, atMailgun
  <2>2. schedule' \in Schedules /\ schedule'.of = w BY <2>1 DEF Schedules
  <2>3. w.end \in Nat
    <3>1. w.end \in 0..MaxTime BY WindowFields
    <3> QED BY <3>1
  <2>4. w.end + Trust <= now BY <1>0, <2>1, <2>3, Numbers
  <2> QED BY <1>0, <2>1, <2>2, <2>4 DEF Requested
<1>4. CASE Cancel
  <2>1. schedule # None /\ restored' = restored /\ now' = now /\ metadata' = None
    BY <1>4 DEF Cancel, Clear, atMailgun
  <2>2. \/ schedule' = None
        \/ schedule' = [schedule EXCEPT !.canceled = TRUE]
    BY <1>4 DEF Cancel, Clear
  <2>3. schedule \in Schedules BY <2>1, NowOn
  <2>4. schedule' = None \/ (schedule' \in Schedules /\ schedule'.of = schedule.of)
    <3>1. CASE schedule' = None BY <3>1
    <3>2. CASE schedule' = [schedule EXCEPT !.canceled = TRUE]
      BY <2>3, <3>2, Rerun
    <3> QED BY <2>2, <3>1, <3>2
  <2> QED BY <1>0, <2>1, <2>4 DEF Requested
<1>5. CASE Start
  <2>1. now' = now /\ metadata' = metadata /\ restored' = TRUE
    BY <1>5 DEF Start, atMailgun
  <2>2. \/ schedule' = schedule
        \/ /\ metadata # None
           /\ schedule' = [of |-> metadata, running |-> FALSE, canceled |-> FALSE]
    BY <1>5 DEF Start, Restore
  <2>3. CASE schedule' = schedule BY <1>0, <2>1, <2>3 DEF Requested
  <2>4. CASE /\ metadata # None
             /\ schedule' = [of |-> metadata, running |-> FALSE, canceled |-> FALSE]
    <3>1. metadata \in Windows BY <1>0, <2>4 DEF Requested
    <3>2. schedule' \in Schedules /\ schedule'.of = metadata
      BY <2>4, <3>1 DEF Schedules
    <3> QED BY <1>0, <2>1, <2>4, <3>2 DEF Requested
  <2> QED BY <2>2, <2>3, <2>4
<1>6. CASE Skip
  <2>1. /\ restored' = restored /\ now' = now
        /\ \/ schedule' = None /\ metadata' = None
           \/ schedule' = schedule /\ metadata' = metadata
    BY <1>6 DEF Skip, Clear, atMailgun
  <2> QED BY <1>0, <2>1 DEF Requested
<1>7. CASE FetchEvents
  <2>1. /\ turn # "scheduled" => schedule' = schedule
        /\ turn = "scheduled" =>
             /\ schedule # None /\ schedule' \in Schedules
             /\ schedule'.of = schedule.of
        /\ UNCHANGED <<atMailgun, metadata, restored>>
    BY <1>7, FetchBegins
  <2> QED BY <1>0, <2>1 DEF Requested, atMailgun
<1>8. CASE ReadPage \/ PageFails
  <2>1. UNCHANGED unread BY <1>8 DEF ReadPage, PageFails
  <2> QED BY <1>0, <2>1 DEF Requested, unread, atMailgun
<1>9. CASE EndFetch
  <2>1. /\ UNCHANGED fetched /\ fetch # None
        /\ \/ schedule' = None /\ metadata' = None
           \/ /\ metadata' = metadata
              /\ turn # "scheduled" => schedule' = schedule
              /\ turn = "scheduled" => /\ schedule' \in Schedules
                                       /\ schedule'.of = schedule.of
    BY <1>9, FetchEnds
  <2>2. turn = "scheduled" => schedule # None BY <2>1 DEF Types, Working
  <2> QED BY <1>0, <2>1, <2>2 DEF Requested, fetched, atMailgun
<1>10. CASE FetchThrows
  <2>1. /\ UNCHANGED <<fetched, metadata>>
        /\ turn # "scheduled" => schedule' = schedule
        /\ turn = "scheduled" => /\ schedule # None /\ schedule' \in Schedules
                                 /\ schedule'.of = schedule.of
    BY <1>10, Throws
  <2> QED BY <1>0, <2>1 DEF Requested, fetched, atMailgun
<1>11. CASE Crash BY <1>0, <1>11 DEF Crash, Requested, atMailgun
<1> QED BY <1>1, <1>2, <1>3, <1>4, <1>5, <1>6, <1>7, <1>8, <1>9, <1>10, <1>11
        DEF Next, Work

\* A step within a fetch keeps its window and its turn.
LEMMA SameWindow ==
  ASSUME Types, fetch # None, fetch' \in Fetches, fetch' # None,
         fetch'.begin = fetch.begin, fetch'.end = fetch.end,
         turn' = turn, used' = used, now' = now, config' = config,
         \A e \in fetch'.got : At[e] <= fetch.end,
         Cardinality(fetch'.got) <= fetch'.count,
         fetch'.short => fetch'.count >= fetch'.max,
         fetch'.left \in {<<>>, <<"fallback">>, Domains},
         fetch'.left = <<"fallback">> => config.fallback,
         fetch'.error \/ (fetch'.short /\ ~config.fallback) => fetch'.left = <<>>
  PROVE  Pages'
  BY DEF Types, Pages, Domains

LEMMA PagesStep ==
  ASSUME Types, [Next]_vars
  PROVE  Pages'
<1>0. Pages /\ now \in Nat BY NowOn DEF Types
<1>1. CASE (\E e \in Events : Show(e)) \/ (\E w \in Windows : Request(w))
           \/ Cancel \/ UNCHANGED vars
  <2>1. UNCHANGED <<turn, used, fetch, config, now>>
    BY <1>1 DEF Show, Request, Cancel, vars, flow, atMailgun
  <2> QED BY <1>0, <2>1 DEF Pages, Domains
<1>2. CASE Tick
  <2>1. now' = now + 1 /\ UNCHANGED <<turn, used, fetch, config>>
    BY <1>2 DEF Tick, flow
  <2>2. fetch # None => fetch.end + Margin <= now' /\
                        (turn \in {"missing", "scheduled"} => fetch.end + Trust <= now')
    <3> SUFFICES ASSUME fetch # None
                 PROVE  fetch.end + Margin <= now' /\
                        (turn \in {"missing", "scheduled"} => fetch.end + Trust <= now')
      OBVIOUS
    <3>1. fetch.end \in Nat BY NowOn, FetchFields
    <3> QED BY <1>0, <2>1, <3>1, Numbers DEF Pages
  <2> QED BY <1>0, <2>1, <2>2 DEF Pages, Domains
<1>3. CASE Start BY <1>0, <1>3 DEF Start, Pages, Jobs
<1>4. CASE Skip
  <2>1. turn \in Jobs /\ NextTurn(0) BY <1>4, NowOn DEF Skip
  <2> QED BY <2>1, TurnOn DEF Pages
<1>5. CASE FetchEvents
  <2>1. /\ turn \in Jobs /\ fetch' \in Fetches /\ fetch' # None
        /\ fetch'.begin < fetch'.end /\ fetch'.end <= MaxTime
        /\ fetch'.left = Domains /\ fetch'.got = {} /\ fetch'.count = 0
        /\ fetch'.error = FALSE /\ fetch'.short = FALSE
        /\ turn \in {"opened", "others"} => fetch'.end = now - Margin
        /\ turn \in {"missing", "scheduled"} => fetch'.end <= now - Trust
        /\ UNCHANGED <<atMailgun, config, turn, used>>
    BY <1>5, FetchBegins
  <2>2. now' = now /\ Domains' = Domains BY <2>1 DEF atMailgun, Domains
  <2>3. fetch'.end \in Nat BY <2>1, FetchFields
  <2>4. fetch'.end + Margin <= now
        /\ (turn \in {"missing", "scheduled"} => fetch'.end + Trust <= now)
    BY <1>0, <2>1, <2>3, Numbers DEF Jobs
  <2>5. Cardinality({}) = 0 BY FS_EmptySet
  <2>6. Cardinality(fetch'.got) <= fetch'.count BY <2>1, <2>5
  <2>7. /\ fetch'.left = <<"fallback">> => config.fallback
        /\ turn # "idle"
    BY <2>1 DEF Domains, Jobs
  <2> QED BY <1>0, <2>1, <2>2, <2>4, <2>6, <2>7 DEF Pages
<1>6. CASE ReadPage
  <2>1. PICK P \in SUBSET Available :
    /\ fetch' \in Fetches /\ fetch' # None
    /\ fetch'.begin = fetch.begin /\ fetch'.end = fetch.end
    /\ fetch'.max = fetch.max /\ fetch'.error = fetch.error
    /\ fetch'.count = fetch.count + Cardinality(P)
    /\ \/ /\ fetch'.got = {} /\ fetch'.short = TRUE
          /\ Cardinality(fetch.got \cup P) >= fetch.max
          /\ fetch'.left = IF Cut THEN <<>> ELSE Tail(fetch.left)
       \/ /\ fetch'.got = fetch.got \cup P /\ fetch'.short = fetch.short
          /\ fetch'.left = IF Cut THEN <<>> ELSE fetch.left
    /\ fetch # None /\ fetch.left # <<>>
    /\ UNCHANGED unread
    BY <1>6, PageIsRead
  <2>2. /\ fetch \in Fetches /\ fetch.count \in Nat /\ fetch.max \in Int
        /\ fetch.got \in SUBSET Events
    BY <2>1, NowOn, FetchFields
  <2>3. \A e \in P : e \in Events /\ At[e] <= fetch.end
    BY <2>1, AvailableIs
  <2>4. P \in SUBSET Events BY <2>3
  <2> DEFINE G == fetch.got
             p == Cardinality(P)
             g == Cardinality(G)
             u == Cardinality(G \cup P)
  <2>5. p \in Nat /\ g \in Nat /\ u \in Nat /\ u <= g + p
    <3>1. IsFiniteSet(G) /\ IsFiniteSet(P) /\ g \in Nat /\ p \in Nat
      BY <2>2, <2>4, SizesOf
    <3>2. /\ IsFiniteSet(G \cup P)
          /\ u = g + p - Cardinality(G \cap P)
      BY <3>1, FS_Union
    <3>3. Cardinality(G \cap P) \in Nat BY <2>2, <2>4, SizesOf
    <3>4. u \in Nat BY <3>2, FS_CardinalityType
    <3> HIDE DEF u, g, p, G
    <3> QED BY <3>1, <3>2, <3>3, <3>4
  <2>6. g <= fetch.count BY <1>0, <2>1 DEF Pages
  <2>7. Cardinality({}) = 0 BY FS_EmptySet
  <2>8. fetch'.count = fetch.count + p BY <2>1
  <2>9. ~fetch.error /\ ~(fetch.short /\ ~config.fallback)
    BY <1>0, <2>1 DEF Pages
  <2>10. Unread(fetch.left) # {} /\ fetch'.left \in {<<>>, <<"fallback">>, Domains}
         /\ (fetch'.left = <<"fallback">> => config.fallback)
    <3>1. /\ fetch.left \in {<<>>, <<"fallback">>, Domains}
          /\ fetch.left = <<"fallback">> => config.fallback
      BY <1>0, <2>1 DEF Pages
    <3>2. \/ Tail(fetch.left) = <<>>
          \/ Tail(fetch.left) = <<"fallback">> /\ config.fallback
      BY <2>1, LeftIs
    <3>3. \/ fetch'.left = <<>> \/ fetch'.left = Tail(fetch.left)
          \/ fetch'.left = fetch.left
      BY <2>1
    <3>4. <<>> # <<"fallback">> OBVIOUS
    <3>5. Unread(fetch.left) # {} BY <2>1, LeftIs
    <3> QED BY <3>1, <3>2, <3>3, <3>4, <3>5
  <2>11. UNCHANGED <<turn, used, now, config>> BY <2>1 DEF unread, atMailgun
  <2>12. CASE /\ fetch'.got = {} /\ fetch'.short = TRUE
              /\ u >= fetch.max
              /\ fetch'.left = IF Cut THEN <<>> ELSE Tail(fetch.left)
    <3>1. \A e \in fetch'.got : At[e] <= fetch.end BY <2>12
    <3>2. Cardinality(fetch'.got) = 0 BY <2>7, <2>12
    <3>3. fetch'.count >= fetch'.max /\ 0 <= fetch'.count
      <4> HIDE DEF p, g, u
      <4>1. fetch'.max = fetch.max BY <2>1
      <4> QED BY <2>2, <2>5, <2>6, <2>8, <2>12, <4>1
    <3>4. Cardinality(fetch'.got) <= fetch'.count BY <3>2, <3>3
    <3>5. ~config.fallback => fetch'.left = <<>>
      <4>1. ~config.fallback => Tail(fetch.left) = <<>> BY <2>1, LeftIs
      <4> QED BY <2>12, <4>1
    <3>6. ~fetch'.error BY <2>1, <2>9
    <3> QED BY <2>1, <2>10, <2>11, <3>1, <3>3, <3>4, <3>5, <3>6, SameWindow
  <2>13. CASE /\ fetch'.got = G \cup P /\ fetch'.short = fetch.short
              /\ fetch'.left = IF Cut THEN <<>> ELSE fetch.left
    <3>1. \A e \in fetch'.got : At[e] <= fetch.end
      BY <1>0, <2>1, <2>3, <2>13 DEF Pages
    <3>2. Cardinality(fetch'.got) <= fetch'.count
      <4>1. Cardinality(fetch'.got) = u BY <2>13
      <4> HIDE DEF p, g, u
      <4> QED BY <2>2, <2>5, <2>6, <2>8, <4>1
    <3>3. fetch'.short => fetch'.count >= fetch'.max
      <4> SUFFICES ASSUME fetch'.short PROVE fetch'.count >= fetch'.max OBVIOUS
      <4>1. fetch.count >= fetch.max BY <1>0, <2>1, <2>13 DEF Pages
      <4>2. fetch'.max = fetch.max BY <2>1
      <4> HIDE DEF p, g, u
      <4> QED BY <2>2, <2>5, <2>8, <4>1, <4>2
    <3>4. ~fetch'.error /\ ~(fetch'.short /\ ~config.fallback)
      BY <2>1, <2>9, <2>13
    <3> QED BY <2>1, <2>10, <2>11, <3>1, <3>2, <3>3, <3>4, SameWindow
  <2> QED BY <2>1, <2>12, <2>13
<1>7. CASE PageFails
  <2>1. /\ fetch' \in Fetches /\ fetch' # None
        /\ fetch'.begin = fetch.begin /\ fetch'.end = fetch.end
        /\ fetch'.max = fetch.max /\ fetch'.count = fetch.count
        /\ fetch'.got = fetch.got /\ fetch'.short = fetch.short
        /\ fetch'.error = TRUE /\ fetch'.left = <<>>
        /\ fetch # None /\ UNCHANGED unread
    BY <1>7, PageIsCut
  <2>2. UNCHANGED <<turn, used, now, config>> BY <2>1 DEF unread, atMailgun
  <2>3. <<>> # <<"fallback">> OBVIOUS
  <2>4. /\ \A e \in fetch'.got : At[e] <= fetch.end
        /\ Cardinality(fetch'.got) <= fetch'.count
        /\ fetch'.short => fetch'.count >= fetch'.max
    BY <1>0, <2>1 DEF Pages
  <2> QED BY <2>1, <2>2, <2>3, <2>4, SameWindow
<1>8. CASE DomainDone
  <2>1. /\ fetch # None /\ fetch.left # <<>>
        /\ fetch' = [fetch EXCEPT !.left = Tail(@), !.got = {}]
        /\ UNCHANGED unread
    BY <1>8 DEF DomainDone
  <2> DEFINE l == Tail(fetch.left)
  <2>2. \/ l = <<>>
        \/ l = <<"fallback">> /\ config.fallback
    BY <2>1, LeftIs
  <2>3. fetch' = [fetch EXCEPT !.left = l, !.got = {}] BY <2>1
  <2>4. ~fetch.error /\ ~(fetch.short /\ ~config.fallback)
    BY <1>0, <2>1 DEF Pages
  <2> HIDE DEF l
  <2>5. l \in Seq({"primary", "fallback"})
    <3>1. /\ <<>> \in Seq({"primary", "fallback"})
          /\ <<"fallback">> \in Seq({"primary", "fallback"})
      OBVIOUS
    <3> QED BY <2>2, <3>1
  <2>6. fetch \in Fetches BY <2>1, NowOn
  <2>7. /\ fetch' \in Fetches
        /\ fetch'.begin = fetch.begin /\ fetch'.end = fetch.end
        /\ fetch'.max = fetch.max /\ fetch'.count = fetch.count
        /\ fetch'.got = {} /\ fetch'.short = fetch.short
        /\ fetch'.error = fetch.error /\ fetch'.left = l
    BY <2>3, <2>5, <2>6 DEF Fetches
  <2>8. fetch' # None BY <2>7, Numbers
  <2>9. UNCHANGED <<turn, used, now, config>> BY <2>1 DEF unread, atMailgun
  <2>10. Cardinality(fetch'.got) <= fetch'.count
    <3>1. Cardinality(fetch'.got) = 0 BY <2>7, FS_EmptySet
    <3>2. fetch'.count \in Nat BY <2>7, FetchFields
    <3> QED BY <3>1, <3>2
  <2>11. fetch'.short => fetch'.count >= fetch'.max BY <1>0, <2>1, <2>7 DEF Pages
  <2>12. ~fetch'.error /\ ~(fetch'.short /\ ~config.fallback) BY <2>4, <2>7
  <2>13. \A e \in fetch'.got : At[e] <= fetch.end BY <2>7
  <2>14. fetch'.left \in {<<>>, <<"fallback">>, Domains}
         /\ (fetch'.left = <<"fallback">> => config.fallback)
    <3>1. <<>> # <<"fallback">> OBVIOUS
    <3> QED BY <2>2, <2>7, <3>1
  <2> QED BY <2>1, <2>7, <2>8, <2>9, <2>10, <2>11, <2>12, <2>13, <2>14, SameWindow
<1>9. CASE AggregateMeanwhile
  <2>1. /\ fetch # None
        /\ fetch' = [fetch EXCEPT !.seen = {}]
        /\ UNCHANGED <<atMailgun, config, turn, used>>
    BY <1>9 DEF AggregateMeanwhile
  <2>2. fetch \in Fetches BY <2>1, NowOn
  <2>3. /\ fetch' \in Fetches
        /\ fetch'.begin = fetch.begin /\ fetch'.end = fetch.end
        /\ fetch'.max = fetch.max /\ fetch'.count = fetch.count
        /\ fetch'.got = fetch.got /\ fetch'.short = fetch.short
        /\ fetch'.error = fetch.error /\ fetch'.left = fetch.left
    BY <2>1, <2>2 DEF Fetches
  <2>4. fetch' # None /\ now' = now BY <2>1, <2>3, Numbers DEF atMailgun
  <2>5. /\ \A e \in fetch'.got : At[e] <= fetch.end
        /\ Cardinality(fetch'.got) <= fetch'.count
        /\ fetch'.short => fetch'.count >= fetch'.max
        /\ fetch'.left \in {<<>>, <<"fallback">>, Domains}
        /\ fetch'.left = <<"fallback">> => config.fallback
        /\ fetch'.error \/ (fetch'.short /\ ~config.fallback) => fetch'.left = <<>>
    BY <1>0, <2>1, <2>3 DEF Pages
  <2> QED BY <2>1, <2>3, <2>4, <2>5, SameWindow
<1>10. CASE EndFetch
  <2>1. turn' \in Jobs \cup {"idle"} /\ used' \in Nat /\ fetch' = None
    BY <1>10, FetchEnds
  <2> QED BY <2>1 DEF Pages
<1>11. CASE FetchThrows
  <2>1. turn' = "idle" /\ used' = 0 /\ fetch' = None BY <1>11, Throws
  <2> QED BY <2>1 DEF Pages
<1>12. CASE Crash
  <2>1. turn' = "idle" /\ used' = 0 /\ fetch' = None BY <1>12 DEF Crash
  <2> QED BY <2>1 DEF Pages
<1> QED BY <1>1, <1>2, <1>3, <1>4, <1>5, <1>6, <1>7, <1>8, <1>9, <1>10, <1>11,
           <1>12 DEF Next, Work

LEMMA SameWork ==
  ASSUME Types, fetch # None, fetch' # None,
         fetch'.begin = fetch.begin, fetch'.end = fetch.end,
         turn' = turn, started' = started, finished' = finished,
         schedule' = schedule,
         \/ last'[turn] = last[turn] /\ (fetch'.count > 0 => fetch.count > 0)
         \/ /\ last'[turn] # None /\ last'[turn] <= fetch.end
            /\ IsTime(last'[turn])
  PROVE  Working'
  BY DEF Types, Working, Running, IsTime

LEMMA WorkingStep ==
  ASSUME Types, [Next]_vars
  PROVE  Working'
<1>0. Working /\ last \in [Jobs -> Time \cup {None}] BY DEF Types, Cursors
<1>1. CASE (\E e \in Events : Show(e)) \/ Tick \/ UNCHANGED vars
  <2>1. UNCHANGED <<fetch, turn, schedule, started, finished, last>>
    BY <1>1 DEF Show, Tick, vars, flow, window, cursors
  <2> QED BY <1>0, <2>1 DEF Working, Running, IsTime
<1>2. CASE Skip \/ EndFetch \/ FetchThrows \/ Crash
  <2>1. CASE Skip
    <3>1. fetch' = None BY <2>1 DEF Skip, NextTurn
    <3> QED BY <3>1 DEF Working
  <2>2. CASE EndFetch
    <3>1. fetch' = None BY <2>2, FetchEnds
    <3> QED BY <3>1 DEF Working
  <2>3. CASE FetchThrows
    <3>1. fetch' = None BY <2>3, Throws
    <3> QED BY <3>1 DEF Working
  <2>4. CASE Crash BY <2>4 DEF Crash, Working
  <2> QED BY <1>2, <2>1, <2>2, <2>3, <2>4
<1>3. CASE Start
  <2>1. fetch' = None BY <1>3 DEF Start, Types, Pages
  <2> QED BY <2>1 DEF Working
<1>4. ASSUME NEW w \in Windows, Request(w) PROVE Working'
  <2>1. /\ ~Running /\ UNCHANGED <<fetch, turn, started, finished>>
        /\ last' = [last EXCEPT !["scheduled"] = None]
    BY <1>4 DEF Request, flow
  <2> SUFFICES ASSUME fetch # None PROVE Working' BY <2>1 DEF Working
  <2>2. turn # "scheduled" /\ turn \in Jobs BY <1>0, <2>1, NowOn DEF Working
  <2>3. last'[turn] = last[turn] BY <1>0, <2>1, <2>2
  <2> QED BY <1>0, <2>1, <2>2, <2>3 DEF Working, IsTime
<1>5. CASE Cancel
  <2>1. /\ UNCHANGED <<fetch, turn, started, finished>>
        /\ \/ /\ Running /\ schedule' = [schedule EXCEPT !.canceled = TRUE]
              /\ schedule # None /\ last' = last
           \/ ~Running /\ last' = [last EXCEPT !["scheduled"] = None]
    BY <1>5 DEF Cancel, Clear, flow
  <2> SUFFICES ASSUME fetch # None PROVE Working' BY <2>1 DEF Working
  <2>2. turn \in Jobs BY NowOn
  <2>3. CASE /\ Running /\ schedule' = [schedule EXCEPT !.canceled = TRUE]
             /\ schedule # None /\ last' = last
    <3>1. schedule \in Schedules /\ schedule.running = TRUE
      <4>1. schedule \in Schedules BY <2>3, NowOn
      <4>2. schedule.running \in BOOLEAN BY <4>1, WindowFields
      <4> QED BY <2>3, <4>1, <4>2 DEF Running
    <3>2. /\ schedule' # None /\ schedule'.of = schedule.of
          /\ schedule'.running = schedule.running
      BY <2>3, <3>1, Rerun
    <3>3. Running' BY <3>1, <3>2 DEF Running
    <3> QED BY <1>0, <2>1, <2>3, <3>2, <3>3 DEF Working, IsTime
  <2>4. CASE ~Running /\ last' = [last EXCEPT !["scheduled"] = None]
    <3>1. turn # "scheduled" BY <1>0, <2>4 DEF Working
    <3>2. last'[turn] = last[turn] BY <1>0, <2>2, <2>4, <3>1
    <3> QED BY <1>0, <2>1, <3>1, <3>2 DEF Working, IsTime
  <2> QED BY <2>1, <2>3, <2>4
<1>6. CASE FetchEvents
  <2>1. /\ turn \in Jobs /\ fetch' \in Fetches /\ fetch' # None
        /\ fetch'.begin < fetch'.end /\ fetch'.count = 0
        /\ turn # "scheduled" => fetch'.begin = Cursor(turn)
        /\ turn = "scheduled" =>
             /\ schedule' # None /\ schedule'.of = schedule.of
             /\ schedule'.running = TRUE
             /\ fetch'.end = schedule.of.end /\ fetch'.begin >= schedule.of.begin
             /\ last[turn] # None => fetch'.begin >= last[turn]
        /\ started' = [started EXCEPT ![turn] = fetch'.begin]
        /\ UNCHANGED <<last, finished, turn>>
    BY <1>6, FetchBegins
  <2>2. fetch'.begin \in Nat /\ fetch'.end \in Nat BY <2>1, FetchFields
  <2>3. /\ last[turn] \in Nat \cup {None} /\ finished[turn] \in Nat \cup {None}
        /\ started \in [Jobs -> Time]
        /\ turn # "scheduled" /\ last[turn] # None /\ finished[turn] # None =>
              finished[turn] <= last[turn]
    BY <2>1 DEF Types, Cursors, Time
  <2>4. last[turn] # None => last[turn] <= fetch'.begin
    <3>1. CASE turn = "scheduled" BY <2>1, <2>2, <2>3, <3>1
    <3>2. CASE turn # "scheduled" BY <2>1, <2>2, <2>3, <3>2 DEF Cursor
    <3> QED BY <3>1, <3>2
  <2>5. turn # "scheduled" /\ finished[turn] # None => finished[turn] <= fetch'.begin
    <3>1. CASE last[turn] = None BY <2>1, <2>3, <3>1 DEF Cursor
    <3>2. CASE last[turn] # None BY <2>1, <2>3, <3>2 DEF Cursor
    <3> QED BY <3>1, <3>2
  <2>6. last[turn] # None => last[turn] <= fetch'.end
    BY <2>1, <2>2, <2>3, <2>4
  <2>7. started'[turn] = fetch'.begin BY <2>1, <2>3
  <2>8. ~(fetch'.count > 0) BY <2>1
  <2>9. turn = "scheduled" => schedule' # None /\ Running' BY <2>1 DEF Running
  <2> QED BY <2>1, <2>4, <2>5, <2>6, <2>7, <2>8, <2>9 DEF Working
<1>7. ASSUME fetch # None, fetch' # None,
             fetch'.begin = fetch.begin, fetch'.end = fetch.end,
             NEW Q \in SUBSET Available,
             last' = IF Q = {} THEN last ELSE [last EXCEPT ![turn] = Follow(Q)],
             Q # {} \/ fetch'.count = fetch.count,
             UNCHANGED unread
      PROVE  Working'
  <2>1. UNCHANGED <<turn, started, finished, schedule>> BY <1>7 DEF unread
  <2>2. CASE Q = {}
    <3>1. last'[turn] = last[turn] /\ fetch'.count = fetch.count BY <1>7, <2>2
    <3> QED BY <1>7, <2>1, <3>1, SameWork
  <2>3. CASE Q # {}
    <3> DEFINE t == Follow(Q)
    <3>1. t # None /\ IsTime(t) /\ t <= fetch.end BY <1>7, <2>3, Followed
    <3>2. last' = [last EXCEPT ![turn] = t] /\ turn \in Jobs BY <1>7, <2>3, NowOn
    <3> HIDE DEF t
    <3>3. last'[turn] = t BY <1>0, <3>2
    <3> QED BY <1>7, <2>1, <3>1, <3>3, SameWork
  <2> QED BY <2>2, <2>3
<1>8. CASE ReadPage
  <2>1. PICK P \in SUBSET Available :
          /\ P # {} /\ last' = [last EXCEPT ![turn] = Follow(P)]
          /\ fetch # None /\ fetch' # None
          /\ fetch'.begin = fetch.begin /\ fetch'.end = fetch.end
          /\ UNCHANGED unread
    BY <1>8, PageIsRead
  <2> QED BY <1>7, <2>1
<1>9. CASE PageFails
  <2>1. PICK Q \in SUBSET Available :
          /\ last' = IF Q = {} THEN last ELSE [last EXCEPT ![turn] = Follow(Q)]
          /\ fetch # None /\ fetch' # None
          /\ fetch'.begin = fetch.begin /\ fetch'.end = fetch.end
          /\ fetch'.count = fetch.count
          /\ UNCHANGED unread
    BY <1>9, PageIsCut
  <2> QED BY <1>7, <2>1
<1>10. CASE DomainDone \/ AggregateMeanwhile
  <2>1. /\ fetch # None
        /\ UNCHANGED <<turn, started, finished, schedule, last>>
    BY <1>10 DEF DomainDone, AggregateMeanwhile, unread, cursors, window
  <2>2. /\ fetch' # None
        /\ fetch'.begin = fetch.begin /\ fetch'.end = fetch.end
        /\ fetch'.count = fetch.count
    <3>1. fetch \in Fetches BY <2>1, NowOn
    <3>2. /\ fetch'.begin = fetch.begin /\ fetch'.end = fetch.end
          /\ fetch'.count = fetch.count
      BY <1>10, <3>1 DEF DomainDone, AggregateMeanwhile, Fetches
    <3>3. fetch' # None
      <4>2. CASE DomainDone
        <5>1. fetch' = [fetch EXCEPT !.left = Tail(fetch.left), !.got = {}]
          BY <4>2 DEF DomainDone
        <5>2. Tail(fetch.left) \in Seq({"primary", "fallback"})
          <6>1. Tail(fetch.left) = <<>> \/ Tail(fetch.left) = <<"fallback">>
            BY <4>2, LeftIs DEF DomainDone
          <6>2. /\ <<>> \in Seq({"primary", "fallback"})
                /\ <<"fallback">> \in Seq({"primary", "fallback"})
            OBVIOUS
          <6> QED BY <6>1, <6>2
        <5>3. fetch' \in Fetches BY <3>1, <5>1, <5>2 DEF Fetches
        <5> QED BY <5>3, Numbers
      <4>3. CASE AggregateMeanwhile
        <5>1. fetch' = [fetch EXCEPT !.seen = {}] BY <4>3 DEF AggregateMeanwhile
        <5>2. fetch' \in Fetches BY <3>1, <5>1 DEF Fetches
        <5> QED BY <5>2, Numbers
      <4> QED BY <1>10, <4>2, <4>3
    <3> QED BY <3>2, <3>3
  <2>3. last'[turn] = last[turn] BY <2>1
  <2> QED BY <2>1, <2>2, <2>3, SameWork
<1> QED BY <1>1, <1>2, <1>3, <1>4, <1>5, <1>6, <1>8, <1>9, <1>10 DEF Next, Work

LEMMA TypesStep == Types /\ [Next]_vars => Types'
  BY DataStep, CursorsStep, RequestedStep, PagesStep, WorkingStep DEF Types

LEMMA TypesInit == Init => Types
<1> SUFFICES ASSUME Init PROVE Types OBVIOUS
<1>1. Data
  <2>1. \A e \in Events : ~(At[e] + Trust <= 0) BY Numbers
  <2>2. now = 0 /\ 0 \in 0..MaxTime /\ 0 \in 0..MaxMoves BY Numbers DEF Init
  <2> QED BY <2>1, <2>2 DEF Init, Data
<1>2. Cursors
  <2>1. 0 \in Time BY Numbers DEF Time
  <2> QED BY <2>1 DEF Init, Cursors
<1> QED BY <1>1, <1>2 DEF Init, Types, Requested, Pages, Working

THEOREM Types_inductive == Spec => []Types
<1> QED BY TypesInit, TypesStep, PTL DEF Spec

\* Every variable keeps to its type: no event is recorded that Mailgun did not
\* show, or counted that is not recorded; nothing is fetched out of turn or past
\* the window; a saved cursor is never ahead of the one in memory, but for the
\* windows that are requested.
THEOREM Typing == Spec => []TypeOK
<1> QED BY Types_inductive, TypesAreOK, PTL

-----------------------------------------------------------------------------
\* What a fetch has read, of the events of Sc, is in Dn: f is the fetch, l the
\* cursor of its job, c that it is cut short and b that there is a fallback
\* domain.  The events of the domain at work are read in the order of time; the
\* domains before it are read to the end, unless the fetch ends early; and with
\* a single domain nothing is left behind the cursor.
Within(f, e) == At[e] >= f.begin /\ At[e] <= f.end
DomainOf(b, e) == IF b /\ e \in Warming THEN "fallback" ELSE "primary"

InOrder(f, b, Sc, Dn) ==
    f.left # <<>> =>
        /\ f.got \cap Sc \subseteq Dn
        /\ \A e \in Sc : Within(f, e) /\ DomainOf(b, e) = Head(f.left) =>
               e \in f.got \/ \A g \in f.got : At[g] <= At[e]

ToTheEnd(f, c, b, Sc, Dn) ==
    ~f.error /\ ~f.short /\ ~c =>
        \A e \in Sc : Within(f, e) /\ DomainOf(b, e) \notin Unread(f.left) => e \in Dn

NoneBehind(f, l, c, b, Sc, Dn) ==
    ~b /\ ~c /\ l # None =>
        \A e \in Sc : Within(f, e) /\ At[e] < l => e \in Dn

Reads(f, l, c, b, Sc, Dn) ==
    InOrder(f, b, Sc, Dn) /\ ToTheEnd(f, c, b, Sc, Dn) /\ NoneBehind(f, l, c, b, Sc, Dn)

LEMMA DomainIs ==
  /\ \A e : Domain(e) = DomainOf(config.fallback, e)
  /\ \A b, e : DomainOf(b, e) \in {"primary", "fallback"}
  /\ \A e : DomainOf(FALSE, e) = "primary"
  BY DEF Domain, DomainOf

\* A page of the events P is read, or fails; the cursor follows.
Took(f, f2, c, P) ==
    /\ f2.begin = f.begin /\ f2.end = f.end /\ f2.error = f.error
    /\ \/ /\ f2.got = {} /\ f2.short = TRUE
          /\ f2.left = IF c THEN <<>> ELSE Tail(f.left)
       \/ /\ f2.got = f.got \cup P /\ f2.short = f.short
          /\ f2.left = IF c THEN <<>> ELSE f.left

Fails(f, f2) ==
    f2.begin = f.begin /\ f2.end = f.end /\ f2.error = TRUE /\ f2.left = <<>>

Follows(l, l2, P) == (\E q \in P : l2 = At[q]) \/ l2 = l

NoneOlder(f, b, Sc, P) ==
    \A e \in Sc \ (f.got \cup P) :
        /\ Within(f, e) /\ DomainOf(b, e) = Head(f.left)
        /\ \A g \in f.got : At[g] <= At[e]
        => \A p \in P : At[p] <= At[e]

\* The events of a page do not leave any behind.
LEMMA BehindPage ==
  ASSUME NEW f, NEW f2, NEW l, NEW l2, NEW c, NEW b,
         NEW Sc \in SUBSET Events, NEW Sc2, NEW Dn, NEW Dn2, NEW P \in SUBSET Events,
         Reads(f, l, c, b, Sc, Dn), f.left # <<>>,
         ~b => Head(f.left) = "primary", b \in BOOLEAN,
         f2.begin = f.begin, f2.end = f.end,
         Follows(l, l2, P),
         Sc2 \subseteq Sc \cup P, P \cap Sc2 \subseteq Dn2, Dn \cap Sc2 \subseteq Dn2,
         NoneOlder(f, b, Sc, P)
  PROVE  NoneBehind(f2, l2, c, b, Sc2, Dn2)
<1> SUFFICES ASSUME ~b, ~c, l2 # None, NEW e \in Sc2, Within(f2, e), At[e] < l2
             PROVE  e \in Dn2
  BY DEF NoneBehind
<1>1. Within(f, e) BY DEF Within
<1>2. CASE e \in P BY <1>2
<1>3. CASE e \notin P
  <2>1. e \in Sc BY <1>3
  <2>2. CASE l2 = l
    <3>1. e \in Dn BY <1>1, <2>1, <2>2 DEF Reads, NoneBehind
    <3> QED BY <3>1
  <2>3. ASSUME NEW q \in P, l2 = At[q] PROVE e \in Dn2
    <3>1. b = FALSE OBVIOUS
    <3>2. DomainOf(b, e) = Head(f.left) BY <3>1, DomainIs
    <3>3. e \in f.got \/ \A g \in f.got : At[g] <= At[e]
      BY <1>1, <2>1, <3>2 DEF Reads, InOrder
    <3>4. CASE e \in f.got BY <2>1, <3>4 DEF Reads, InOrder
    <3>5. CASE e \notin f.got
      <4>1. At[q] <= At[e]
        BY <1>1, <1>3, <2>1, <3>2, <3>3, <3>5 DEF NoneOlder
      <4>2. At[q] \in Nat /\ At[e] \in Nat BY <2>1, Numbers
      <4> QED BY <2>3, <4>1, <4>2
    <3> QED BY <3>4, <3>5
  <2> QED BY <2>2, <2>3 DEF Follows
<1> QED BY <1>2, <1>3

LEMMA ReadsPage ==
  ASSUME NEW f, NEW f2, NEW l, NEW l2, NEW c, NEW b,
         NEW Sc \in SUBSET Events, NEW Sc2, NEW Dn, NEW Dn2, NEW P \in SUBSET Events,
         Reads(f, l, c, b, Sc, Dn), f.left # <<>>,
         ~b => Head(f.left) = "primary", b \in BOOLEAN,
         Took(f, f2, c, P),
         Follows(l, l2, P),
         Sc2 \subseteq Sc \cup P, P \cap Sc2 \subseteq Dn2, Dn \cap Sc2 \subseteq Dn2,
         NoneOlder(f, b, Sc, P)
  PROVE  Reads(f2, l2, c, b, Sc2, Dn2)
<1>0. f2.begin = f.begin /\ f2.end = f.end /\ f2.error = f.error BY DEF Took
<1>1. NoneBehind(f2, l2, c, b, Sc2, Dn2) BY <1>0, BehindPage
<1>2. CASE /\ f2.got = {} /\ f2.short = TRUE
           /\ f2.left = IF c THEN <<>> ELSE Tail(f.left)
  <2>1. InOrder(f2, b, Sc2, Dn2) BY <1>2 DEF InOrder
  <2>2. ToTheEnd(f2, c, b, Sc2, Dn2) BY <1>2 DEF ToTheEnd
  <2> QED BY <1>1, <2>1, <2>2 DEF Reads
<1>3. CASE /\ f2.got = f.got \cup P /\ f2.short = f.short
           /\ f2.left = IF c THEN <<>> ELSE f.left
  <2>1. ToTheEnd(f2, c, b, Sc2, Dn2)
    <3> SUFFICES ASSUME ~f.error, ~f.short, ~c, NEW e \in Sc2, Within(f2, e),
                        DomainOf(b, e) \notin Unread(f2.left)
                 PROVE  e \in Dn2
      BY <1>0, <1>3 DEF ToTheEnd
    <3>1. Within(f, e) /\ f2.left = f.left BY <1>0, <1>3 DEF Within
    <3>2. CASE e \in P BY <3>2
    <3>3. CASE e \in Sc BY <3>1, <3>3 DEF Reads, ToTheEnd
    <3> QED BY <3>2, <3>3
  <2>2. InOrder(f2, b, Sc2, Dn2)
    <3> SUFFICES ASSUME f2.left # <<>>
                 PROVE  /\ f2.got \cap Sc2 \subseteq Dn2
                        /\ \A e \in Sc2 : Within(f2, e) /\ DomainOf(b, e) = Head(f2.left) =>
                              e \in f2.got \/ \A g \in f2.got : At[g] <= At[e]
      BY DEF InOrder
    <3>1. f2.left = f.left BY <1>3
    <3>2. f.got \cap Sc \subseteq Dn BY DEF Reads, InOrder
    <3>3. f2.got \cap Sc2 \subseteq Dn2 BY <1>3, <3>2
    <3>4. ASSUME NEW e \in Sc2, Within(f2, e), DomainOf(b, e) = Head(f2.left),
                 e \notin f2.got
          PROVE  \A g \in f2.got : At[g] <= At[e]
      <4>1. e \in Sc \ (f.got \cup P) BY <1>3, <3>4
      <4>2. Within(f, e) /\ DomainOf(b, e) = Head(f.left) BY <1>0, <3>1, <3>4 DEF Within
      <4>3. \A g \in f.got : At[g] <= At[e] BY <4>1, <4>2 DEF Reads, InOrder
      <4>4. \A p \in P : At[p] <= At[e] BY <4>1, <4>2, <4>3 DEF NoneOlder
      <4> QED BY <1>3, <4>3, <4>4
    <3> QED BY <3>3, <3>4
  <2> QED BY <1>1, <2>1, <2>2 DEF Reads
<1> QED BY <1>2, <1>3 DEF Took

LEMMA ReadsCut ==
  ASSUME NEW f, NEW f2, NEW l, NEW l2, NEW c, NEW b,
         NEW Sc \in SUBSET Events, NEW Sc2, NEW Dn, NEW Dn2, NEW P \in SUBSET Events,
         Reads(f, l, c, b, Sc, Dn), f.left # <<>>,
         ~b => Head(f.left) = "primary", b \in BOOLEAN,
         Fails(f, f2),
         Follows(l, l2, P),
         Sc2 \subseteq Sc \cup P, P \cap Sc2 \subseteq Dn2, Dn \cap Sc2 \subseteq Dn2,
         NoneOlder(f, b, Sc, P)
  PROVE  Reads(f2, l2, c, b, Sc2, Dn2)
<1>1. NoneBehind(f2, l2, c, b, Sc2, Dn2) BY BehindPage DEF Fails
<1> QED BY <1>1 DEF Fails, Reads, InOrder, ToTheEnd

LEMMA ReadsDomain ==
  ASSUME NEW f, NEW f2, NEW l, NEW c, NEW b, NEW Sc \in SUBSET Events, NEW Dn,
         Reads(f, l, c, b, Sc, Dn), f.left # <<>>,
         f2.begin = f.begin, f2.end = f.end, f2.error = f.error,
         f2.short = f.short, f2.got = {}, f2.left = Tail(f.left),
         Unread(f.left) \subseteq {Head(f.left)} \cup Unread(Tail(f.left)),
         \A e \in Sc \ f.got :
             ~ /\ Within(f, e) /\ DomainOf(b, e) = Head(f.left)
               /\ \A g \in f.got : At[g] <= At[e]
  PROVE  Reads(f2, l, c, b, Sc, Dn)
<1>1. InOrder(f2, b, Sc, Dn) BY DEF InOrder
<1>2. NoneBehind(f2, l, c, b, Sc, Dn) BY DEF Reads, NoneBehind, Within
<1>3. ToTheEnd(f2, c, b, Sc, Dn)
  <2> SUFFICES ASSUME ~f.error, ~f.short, ~c, NEW e \in Sc, Within(f, e),
                      DomainOf(b, e) \notin Unread(Tail(f.left))
               PROVE  e \in Dn
    BY DEF ToTheEnd, Within
  <2>1. CASE DomainOf(b, e) = Head(f.left)
    <3>1. e \in f.got BY <2>1 DEF Reads, InOrder
    <3> QED BY <3>1 DEF Reads, InOrder
  <2>2. CASE DomainOf(b, e) # Head(f.left)
    <3>1. DomainOf(b, e) \notin Unread(f.left) BY <2>2
    <3> QED BY <3>1 DEF Reads, ToTheEnd
  <2> QED BY <2>1, <2>2
<1> QED BY <1>1, <1>2, <1>3 DEF Reads

LEMMA ReadsOn ==
  ASSUME NEW f, NEW f2, NEW l, NEW c, NEW c2, NEW b,
         NEW Sc, NEW Sc2, NEW Dn, NEW Dn2,
         Reads(f, l, c, b, Sc, Dn), c => c2,
         f2.begin = f.begin, f2.end = f.end, f2.error = f.error,
         f2.short = f.short, f2.got = f.got, f2.left = f.left,
         Sc2 \subseteq Sc, Dn \cap Sc2 \subseteq Dn2
  PROVE  Reads(f2, l, c2, b, Sc2, Dn2)
<1>1. InOrder(f2, b, Sc2, Dn2) BY DEF Reads, InOrder, Within
<1>2. NoneBehind(f2, l, c2, b, Sc2, Dn2) BY DEF Reads, NoneBehind, Within
<1>3. ToTheEnd(f2, c2, b, Sc2, Dn2) BY DEF Reads, ToTheEnd, Within
<1> QED BY <1>1, <1>2, <1>3 DEF Reads

LEMMA ReadsNothing ==
  ASSUME NEW f, NEW l, NEW c, NEW b \in BOOLEAN, NEW Sc \in SUBSET Events, NEW Dn,
         f.got = {}, f.begin \in Nat,
         f.left = IF b THEN <<"primary", "fallback">> ELSE <<"primary">>,
         l \in Nat \cup {None}, l # None => l <= f.begin
  PROVE  Reads(f, l, c, b, Sc, Dn)
<1>1. InOrder(f, b, Sc, Dn) BY DEF InOrder
<1>2. NoneBehind(f, l, c, b, Sc, Dn)
  <2>1. \A e \in Sc : Within(f, e) => At[e] \in Nat /\ At[e] >= f.begin
    BY Numbers DEF Within
  <2> QED BY <2>1, Numbers DEF NoneBehind
<1>3. ToTheEnd(f, c, b, Sc, Dn)
  <2>1. \A e : DomainOf(b, e) \in Unread(f.left)
    <3>1. CASE b
      <4> DEFINE s == <<"primary", "fallback">>
      <4>1. DOMAIN s = {1, 2} /\ s[1] = "primary" /\ s[2] = "fallback" OBVIOUS
      <4>2. f.left = s BY <3>1
      <4> HIDE DEF s
      <4>3. "primary" \in Unread(f.left) /\ "fallback" \in Unread(f.left)
        BY <4>1, <4>2 DEF Unread
      <4> QED BY <4>3, DomainIs
    <3>2. CASE ~b
      <4>1. f.left = <<"primary">> BY <3>2
      <4>2. "primary" \in Unread(<<"primary">>)
        <5>1. DOMAIN <<"primary">> = {1} /\ <<"primary">>[1] = "primary" OBVIOUS
        <5> QED BY <5>1 DEF Unread
      <4>3. \A e : DomainOf(b, e) = "primary" BY <3>2 DEF DomainOf
      <4> QED BY <4>1, <4>2, <4>3
    <3> QED BY <3>1, <3>2
  <2> QED BY <2>1 DEF ToTheEnd
<1> QED BY <1>1, <1>2, <1>3 DEF Reads


-----------------------------------------------------------------------------
\* What is behind the cursors, of the job for the missing events and of the
\* windows: all of it is recorded, waits in memory, was lost with the memory, or
\* is passed by the extra second.
Good == stored \cup pending \cup lost
AllBefore(t, S, G) == t # None => \A e \in S : At[e] < t => e \in G \/ Shadowed(e)
InWindow(w) == {e \in Events : At[e] >= w.begin /\ At[e] <= w.end}

\* where a fetch began that is at work, otherwise the cursor in memory
Where(j) == IF AtWork(j) THEN fetch.begin ELSE last[j]

MissingPassed ==
    "missing" \notin jumped =>
        /\ AllBefore(finished["missing"], Events, Good)
        /\ AllBefore(started["missing"], Events, Good)
        /\ AllBefore(Where("missing"), Events, Good)

WindowPassed ==
    "scheduled" \notin jumped /\ schedule # None /\ ~Canceled =>
        AllBefore(Where("scheduled"), InWindow(schedule.of), Good)

\* with a window that was saved goes its own cursor
SavedPassed ==
    "scheduled" \notin jumped /\ metadata # None /\ ~foreign =>
        AllBefore(finished["scheduled"], InWindow(metadata), Good)

Reading ==
    turn \in {"missing", "scheduled"} /\ fetch # None =>
        Reads(fetch, last[turn], Cut, config.fallback, Events, Good)

Passing == Types /\ MissingPassed /\ WindowPassed /\ SavedPassed /\ Reading

LEMMA PassingSuffices == Passing => NothingIsPassedUnlessJumped
<1> SUFFICES ASSUME Passing, NEW j \in {"missing", "scheduled"} \ jumped,
                    NEW e \in Passed(j)
             PROVE  e \in stored \cup pending \cup lost \/ Shadowed(e)
  BY DEF NothingIsPassedUnlessJumped
<1>1. ~AtWork(j) /\ e \in Behind(j) BY DEF Passed, AtWork
<1>2. CASE j = "missing"
  <2>1. e \in Events /\ At[e] < Cursor("missing") BY <1>1, <1>2 DEF Behind
  <2>2. /\ AllBefore(finished["missing"], Events, Good)
        /\ AllBefore(started["missing"], Events, Good)
        /\ AllBefore(last["missing"], Events, Good)
    BY <1>1, <1>2 DEF Passing, MissingPassed, Where
  <2>3. started["missing"] # None
    <3>1. started["missing"] \in Time BY DEF Passing, Types, Cursors, Jobs
    <3> QED BY <3>1, Numbers
  <2>4. \E t \in {last["missing"], finished["missing"], started["missing"]} :
           Cursor("missing") = t /\ t # None
    BY <2>3 DEF Cursor
  <2> QED BY <2>1, <2>2, <2>4 DEF AllBefore, Good
<1>3. CASE j = "scheduled"
  <2>1. /\ schedule # None /\ ~Canceled /\ last["scheduled"] # None
        /\ e \in Events /\ At[e] < last["scheduled"]
        /\ At[e] \in schedule.of.begin..schedule.of.end
    <3>1. ~(schedule = None \/ Canceled \/ last["scheduled"] = None)
      BY <1>1, <1>3 DEF Behind
    <3> QED BY <1>1, <1>3, <3>1 DEF Behind
  <2>2. schedule.of.begin \in Nat /\ schedule.of.end \in Nat
    <3>1. schedule \in Schedules BY <2>1, NowOn DEF Passing
    <3>2. schedule.of.begin \in 0..MaxTime /\ schedule.of.end \in 0..MaxTime
      BY <3>1, WindowFields
    <3> QED BY <3>2
  <2>3. e \in InWindow(schedule.of) BY <2>1, <2>2, Numbers DEF InWindow
  <2>4. AllBefore(last["scheduled"], InWindow(schedule.of), Good)
    BY <1>1, <1>3, <2>1 DEF Passing, WindowPassed, Where
  <2> QED BY <2>1, <2>3, <2>4 DEF AllBefore, Good
<1> QED BY <1>2, <1>3

LEMMA GoodGrows ==
  ASSUME Types, [Next]_vars
  PROVE  Good \subseteq Good'
<1>1. CASE ReadPage
  <2>1. /\ stored \cup pending \subseteq stored'
        /\ lost' = lost
    BY <1>1 DEF ReadPage
  <2> QED BY <2>1 DEF Good
<1>2. CASE PageFails
  <2>1. lost' = lost /\ stored \cup pending \subseteq stored' \cup pending'
    BY <1>2, PageIsCut
  <2> QED BY <2>1 DEF Good
<1>3. CASE Crash BY <1>3 DEF Crash, Good, tables
<1>4. CASE EndFetch
  <2>1. UNCHANGED fetched BY <1>4 DEF EndFetch
  <2> QED BY <2>1 DEF fetched, Good
<1>5. CASE FetchThrows
  <2>1. UNCHANGED fetched BY <1>5 DEF FetchThrows
  <2> QED BY <2>1 DEF fetched, Good
<1>6. CASE (\E e \in Events : Show(e)) \/ Tick \/ (\E w \in Windows : Request(w))
           \/ Cancel \/ Start \/ Skip \/ FetchEvents \/ DomainDone
           \/ AggregateMeanwhile \/ UNCHANGED vars
  <2>1. UNCHANGED <<stored, pending, lost>>
    BY <1>6 DEF Show, Tick, Request, Cancel, Start, Skip, FetchEvents, DomainDone,
                AggregateMeanwhile, vars, tables, history
  <2> QED BY <2>1 DEF Good
<1> QED BY <1>1, <1>2, <1>3, <1>4, <1>5, <1>6 DEF Next, Work

LEMMA AllBeforeOn ==
  ASSUME NEW t, NEW S, NEW G, NEW G2, AllBefore(t, S, G), G \subseteq G2
  PROVE  AllBefore(t, S, G2)
  BY DEF AllBefore

LEMMA NothingBefore ==
  ASSUME NEW S, NEW G
  PROVE  AllBefore(None, S, G)
  BY DEF AllBefore

\* The steps in the middle of a fetch that read nothing.
LEMMA FetchOn ==
  ASSUME Types, DomainDone \/ AggregateMeanwhile
  PROVE  /\ fetch # None /\ fetch' # None /\ fetch.left # <<>>
         /\ fetch'.begin = fetch.begin /\ fetch'.end = fetch.end
         /\ fetch'.error = fetch.error /\ fetch'.short = fetch.short
         /\ fetch'.count = fetch.count /\ fetch'.max = fetch.max
         /\ UNCHANGED <<last, finished, started, schedule, metadata, turn, config,
                        stored, pending, lost, late, jumped, foreign, failed, now, shown>>
         /\ DomainDone => fetch'.left = Tail(fetch.left) /\ fetch'.got = {}
                          /\ fetch'.seen = fetch.seen /\ counted' = counted
         /\ AggregateMeanwhile => fetch'.left = fetch.left /\ fetch'.got = fetch.got
                                  /\ fetch'.seen = {}
<1>1. /\ fetch # None /\ fetch.left # <<>>
      /\ UNCHANGED <<last, finished, started, schedule, metadata, turn, config,
                     stored, pending, lost, late, jumped, foreign, failed, now, shown>>
  BY DEF DomainDone, AggregateMeanwhile, unread, cursors, window, atMailgun, history
<1>2. fetch \in Fetches BY <1>1, NowOn
<1>3. CASE DomainDone
  <2> DEFINE l == Tail(fetch.left)
  <2>1. fetch' = [fetch EXCEPT !.left = l, !.got = {}] /\ counted' = counted
    BY <1>3 DEF DomainDone, unread
  <2>2. l \in Seq({"primary", "fallback"})
    <3>1. l = <<>> \/ l = <<"fallback">> BY <1>1, LeftIs
    <3>2. /\ <<>> \in Seq({"primary", "fallback"})
          /\ <<"fallback">> \in Seq({"primary", "fallback"})
      OBVIOUS
    <3> QED BY <3>1, <3>2
  <2> HIDE DEF l
  <2>3. /\ fetch' \in Fetches
        /\ fetch'.begin = fetch.begin /\ fetch'.end = fetch.end
        /\ fetch'.error = fetch.error /\ fetch'.short = fetch.short
        /\ fetch'.count = fetch.count /\ fetch'.max = fetch.max
        /\ fetch'.left = l /\ fetch'.got = {} /\ fetch'.seen = fetch.seen
    BY <1>2, <2>1, <2>2 DEF Fetches
  <2>4. fetch' # None BY <2>3, Numbers
  <2>5. ~AggregateMeanwhile
    <3>1. AggregateMeanwhile => fetch.seen # {} /\ fetch' = [fetch EXCEPT !.seen = {}]
      BY DEF AggregateMeanwhile
    <3>2. AggregateMeanwhile => fetch'.seen = {} /\ fetch.seen # {}
      BY <1>2, <3>1 DEF Fetches
    <3> QED BY <2>3, <3>2
  <2> QED BY <1>1, <2>1, <2>3, <2>4, <2>5 DEF l
<1>4. CASE AggregateMeanwhile /\ ~DomainDone
  <2>1. fetch' = [fetch EXCEPT !.seen = {}] BY <1>4 DEF AggregateMeanwhile
  <2>2. /\ fetch' \in Fetches
        /\ fetch'.begin = fetch.begin /\ fetch'.end = fetch.end
        /\ fetch'.error = fetch.error /\ fetch'.short = fetch.short
        /\ fetch'.count = fetch.count /\ fetch'.max = fetch.max
        /\ fetch'.left = fetch.left /\ fetch'.got = fetch.got /\ fetch'.seen = {}
    BY <1>2, <2>1 DEF Fetches
  <2>3. fetch' # None BY <2>2, Numbers
  <2> QED BY <1>1, <1>4, <2>2, <2>3
<1> QED BY <1>3, <1>4

-----------------------------------------------------------------------------
\* At the end of a fetch that jumped nothing.
LEMMA AtEnd ==
  ASSUME Types, fetch # None, fetch.left = <<>>, turn \notin Jumped,
         NEW Sc \in SUBSET Events, NEW Dn,
         NEW c, ~c, Reads(fetch, last[turn], c, config.fallback, Sc, Dn)
  PROVE  /\ last[turn] # None =>
              \A e \in Sc : At[e] >= fetch.begin /\ At[e] < last[turn] => e \in Dn
         /\ ~fetch.error /\ fetch.count < fetch.max =>
              \A e \in Sc : At[e] >= fetch.begin /\ At[e] <= fetch.end => e \in Dn
<1>1. fetch \in Fetches /\ turn \in Jobs BY NowOn
<1>2. /\ fetch.begin \in Nat /\ fetch.end \in Nat /\ fetch.count \in Nat
      /\ fetch.max \in Int
  BY <1>1, FetchFields
<1>3. Unread(fetch.left) = {} BY DEF Unread
<1>4. fetch.short => fetch.count >= fetch.max BY DEF Types, Pages
<1>5. ~fetch.error /\ ~fetch.short => \A e \in Sc : Within(fetch, e) => e \in Dn
  BY <1>3 DEF Reads, ToTheEnd
<1>6. ASSUME last[turn] # None, NEW e \in Sc, At[e] >= fetch.begin, At[e] < last[turn]
      PROVE  e \in Dn
  <2>1. last[turn] <= fetch.end BY <1>6 DEF Types, Working
  <2>2. last[turn] \in Nat BY <1>1, <1>6 DEF Types, Cursors, Time
  <2>3. At[e] \in Nat BY Numbers
  <2>4. Within(fetch, e) BY <1>2, <1>6, <2>1, <2>2, <2>3 DEF Within
  <2>5. CASE config.fallback
    <3>1. Len(Domains) > 1
      <4>1. Len(<<"primary", "fallback">>) > 1 OBVIOUS
      <4> QED BY <2>5, <4>1 DEF Domains
    <3>2. ~fetch.error /\ ~fetch.short BY <3>1 DEF Jumped
    <3> QED BY <1>5, <2>4, <3>2
  <2>6. CASE ~config.fallback
    BY <1>6, <2>4, <2>6 DEF Reads, NoneBehind
  <2> QED BY <2>5, <2>6
<1>7. ASSUME ~fetch.error, fetch.count < fetch.max, NEW e \in Sc,
             At[e] >= fetch.begin, At[e] <= fetch.end
      PROVE  e \in Dn
  <2>1. ~fetch.short BY <1>2, <1>4, <1>7
  <2> QED BY <1>5, <1>7, <2>1 DEF Within
<1> QED BY <1>6, <1>7

LEMMA PastNext ==
  ASSUME Types, fetch # None, fetch.left = <<>>, ~fetch.error, turn \notin Jumped,
         NEW Sc \in SUBSET Events, NEW Dn,
         NEW c, ~c, Reads(fetch, last[turn], c, config.fallback, Sc, Dn),
         last[turn] # None, IsTime(last[turn]),
         NEW next, next = last[turn]
                     \/ (fetch.count < fetch.max /\ next = last[turn] + Second)
  PROVE  \A e \in Sc : At[e] >= fetch.begin /\ At[e] < next =>
             e \in Dn \/ Shadowed(e)
<1> SUFFICES ASSUME NEW e \in Sc, At[e] >= fetch.begin, At[e] < next
             PROVE  e \in Dn \/ Shadowed(e)
  OBVIOUS
<1>1. CASE At[e] < last[turn] BY <1>1, AtEnd
<1>2. CASE ~(At[e] < last[turn])
  <2>1. fetch.count < fetch.max /\ next = last[turn] + Second BY <1>2
  <2>2. CASE At[e] <= fetch.end BY <2>1, <2>2, AtEnd
  <2>3. CASE ~(At[e] <= fetch.end)
    <3> DEFINE l == last[turn]
    <3>1. l \in Nat /\ turn \in Jobs
      BY NowOn DEF Types, Cursors, Time
    <3>2. l <= fetch.end /\ fetch.end \in Nat
      BY NowOn, FetchFields DEF Types, Working
    <3>3. PICK f \in Events : At[f] = l BY DEF IsTime
    <3>4. At[e] \in Nat /\ At[e] < l + Second BY <2>1, Numbers
    <3>5. At[e] - At[f] \in 1..(Second - 1)
      <4> HIDE DEF l
      <4>1. At[e] > l BY <2>3, <3>1, <3>2, <3>4
      <4>2. At[e] - l >= 1 /\ At[e] - l <= Second - 1 /\ At[e] - l \in Int
        BY <3>1, <3>4, <4>1, Numbers
      <4> QED BY <3>3, <4>2, Numbers
    <3> QED BY <3>3, <3>5 DEF Shadowed
  <2> QED BY <2>2, <2>3
<1> QED BY <1>1, <1>2

LEMMA Awaits ==
  ASSUME Types, fetch # None, NEW e \in Events, e \in shown, e \in Asked(turn),
         e \notin fetch.got, Within(fetch, e),
         DomainOf(config.fallback, e) = Head(fetch.left),
         \A g \in fetch.got : At[g] <= At[e]
  PROVE  e \in Available
  BY AvailableIs, DomainIs DEF Within

LEMMA AwaitsAll ==
  ASSUME Types, fetch # None, turn \in {"missing", "scheduled"}
  PROVE  \A e \in Events : e \in Asked(turn) /\ (Within(fetch, e) => e \in shown)
<1>1. ASSUME NEW e \in Events PROVE e \in Asked(turn) BY DEF Asked
<1>2. ASSUME NEW e \in Events, Within(fetch, e) PROVE e \in shown
  <2>1. At[e] <= fetch.end /\ At[e] \in Nat BY <1>2, Numbers DEF Within
  <2>2. fetch.end + Trust <= now BY DEF Types, Pages
  <2>3. fetch.end \in Nat /\ now \in Nat BY NowOn, FetchFields
  <2>4. At[e] + Trust <= now BY <2>1, <2>2, <2>3, Numbers
  <2> QED BY <2>4 DEF Types, Data
<1> QED BY <1>1, <1>2

\* A page, its domain and the cursor after it.
LEMMA PageOfDomain ==
  ASSUME Types, fetch # None, fetch.left # <<>>, NEW P, Eldest(P, Available)
  PROVE  /\ P \in SUBSET Available /\ P \in SUBSET Events
         /\ config.fallback \in BOOLEAN
         /\ ~config.fallback => Head(fetch.left) = "primary"
         /\ P # {} => (\E q \in P : Follow(P) = At[q])
                        \/ (last[turn] # None /\ Follow(P) = last[turn])
         /\ \A e \in Available \ P : \A p \in P : At[p] <= At[e]
<1>1. P \in SUBSET Available BY DEF Eldest
<1>2. P \in SUBSET Events
  <2>1. \A e \in Available : e \in Events BY AvailableIs
  <2> QED BY <1>1, <2>1
<1>3. config.fallback \in BOOLEAN
  BY AnalyticsAssumption DEF Types, Data
<1>4. ~config.fallback => Head(fetch.left) = "primary" BY LeftIs
<1>5. P # {} => (\E q \in P : Follow(P) = At[q])
                  \/ (last[turn] # None /\ Follow(P) = last[turn])
  BY <1>1, Followed
<1>6. \A e \in Available \ P : \A p \in P : At[p] <= At[e] BY DEF Eldest
<1> QED BY <1>1, <1>2, <1>3, <1>4, <1>5, <1>6

\* What a page of the events P leaves in the tables, and one that fails.
PageOf(P) ==
    /\ stored' = stored \cup pending \cup P
    /\ fetch'.seen = fetch.seen \cup P
    /\ late' = IF turn = "opened" THEN late
               ELSE late \cup {e \in P \ (stored \cup pending) : Kind[e] = "opened"}

CutAt(Q) ==
    /\ stored' \cup pending' = stored \cup pending \cup Q
    /\ stored \subseteq stored' /\ Q \ Buffered(Q) \subseteq stored'
    /\ pending' = pending \cup Buffered(Q)
    /\ fetch'.seen = fetch.seen \cup Q
    /\ failed' = (failed \/ Buffered(Q) # {})
    /\ late' = IF turn = "opened" THEN late
               ELSE late \cup {e \in Q \ (stored \cup pending) : Kind[e] = "opened"}

\* What follows for the events that a fetch is to read when it reads a page.
LEMMA ReadingPage ==
  ASSUME Types, ReadPage, NEW c, c = Cut,
         NEW Sc \in SUBSET Events, NEW Sc2, NEW Dn, NEW Dn2,
         Reads(fetch, last[turn], c, config.fallback, Sc, Dn),
         \A e \in Sc : e \in Asked(turn) /\ (Within(fetch, e) => e \in shown),
         \A P \in SUBSET Available : PageOf(P) => Sc2 \subseteq Sc \cup P /\ P \cap Sc2 \subseteq Dn2,
         Dn \cap Sc2 \subseteq Dn2
  PROVE  Reads(fetch', last'[turn'], c, config'.fallback, Sc2, Dn2)
<1>1. PICK P \in SUBSET Available :
    /\ Eldest(P, Available) /\ P # {}
    /\ last' = [last EXCEPT ![turn] = Follow(P)]
    /\ late' = IF turn = "opened" THEN late
               ELSE late \cup {e \in P \ (stored \cup pending) : Kind[e] = "opened"}
    /\ stored' = stored \cup pending \cup P
    /\ fetch'.begin = fetch.begin /\ fetch'.end = fetch.end
    /\ fetch'.error = fetch.error /\ fetch'.seen = fetch.seen \cup P
    /\ \/ /\ fetch'.got = {} /\ fetch'.short = TRUE
          /\ fetch'.left = IF Cut THEN <<>> ELSE Tail(fetch.left)
       \/ /\ fetch'.got = fetch.got \cup P /\ fetch'.short = fetch.short
          /\ fetch'.left = IF Cut THEN <<>> ELSE fetch.left
    /\ fetch # None /\ fetch.left # <<>>
    /\ UNCHANGED unread
  BY PageIsRead
<1>2. turn' = turn /\ config' = config BY <1>1 DEF unread
<1>3. Sc2 \subseteq Sc \cup P /\ P \cap Sc2 \subseteq Dn2
  <2>1. PageOf(P) BY <1>1 DEF PageOf
  <2> QED BY <2>1
<1>4. /\ P \in SUBSET Events /\ config.fallback \in BOOLEAN
      /\ ~config.fallback => Head(fetch.left) = "primary"
      /\ (\E q \in P : Follow(P) = At[q])
           \/ (last[turn] # None /\ Follow(P) = last[turn])
      /\ \A e \in Available \ P : \A p \in P : At[p] <= At[e]
  BY <1>1, PageOfDomain
<1>5. last'[turn] = Follow(P)
  <2>1. turn \in Jobs /\ last \in [Jobs -> Time \cup {None}]
    BY <1>1, NowOn DEF Types, Cursors
  <2> QED BY <1>1, <2>1
<1>6. \A e \in Sc \ (fetch.got \cup P) :
          /\ Within(fetch, e) /\ DomainOf(config.fallback, e) = Head(fetch.left)
          /\ \A g \in fetch.got : At[g] <= At[e]
          => \A p \in P : At[p] <= At[e]
  <2> SUFFICES ASSUME NEW e \in Sc \ (fetch.got \cup P), Within(fetch, e),
                      DomainOf(config.fallback, e) = Head(fetch.left),
                      \A g \in fetch.got : At[g] <= At[e]
               PROVE  \A p \in P : At[p] <= At[e]
    OBVIOUS
  <2>1. e \in Available BY <1>1, Awaits
  <2> QED BY <1>4, <2>1
<1>7. (\E q \in P : last'[turn] = At[q]) \/ last'[turn] = last[turn] BY <1>4, <1>5
<1> HIDE DEF Cut
<1> DEFINE l == last[turn]
           l2 == last'[turn]
           b == config.fallback
           f == fetch
           f2 == fetch'
<1>8. Reads(f, l, c, b, Sc, Dn) OBVIOUS
<1>9. Follows(l, l2, P) BY <1>7 DEF Follows
<1>10. Took(f, f2, c, P) BY <1>1 DEF Took
<1>11. b \in BOOLEAN /\ (~b => Head(f.left) = "primary") /\ f.left # <<>>
  BY <1>1, <1>4
<1>12. NoneOlder(f, b, Sc, P) BY <1>6 DEF NoneOlder
<1>13. P \in SUBSET Events BY <1>4
<1> HIDE DEF l, l2, b, f, f2
<1>14. Reads(f2, l2, c, b, Sc2, Dn2)
  BY <1>3, <1>8, <1>9, <1>10, <1>11, <1>12, <1>13, ReadsPage
<1> QED BY <1>2, <1>14 DEF l2, b, f2

\* The same when the page fails, and when a domain has no more.
LEMMA ReadingCut ==
  ASSUME Types, PageFails, NEW c, c = Cut,
         NEW Sc \in SUBSET Events, NEW Sc2, NEW Dn, NEW Dn2,
         Reads(fetch, last[turn], c, config.fallback, Sc, Dn),
         \A e \in Sc : e \in Asked(turn) /\ (Within(fetch, e) => e \in shown),
         \A Q \in SUBSET Available : CutAt(Q) => Sc2 \subseteq Sc \cup Q /\ Q \cap Sc2 \subseteq Dn2,
         Dn \cap Sc2 \subseteq Dn2
  PROVE  Reads(fetch', last'[turn'], c, config'.fallback, Sc2, Dn2)
<1>1. PICK P \in SUBSET Available :
    /\ Eldest(P, Available)
    /\ last' = IF P = {} THEN last ELSE [last EXCEPT ![turn] = Follow(P)]
    /\ late' = IF turn = "opened" THEN late
               ELSE late \cup {e \in P \ (stored \cup pending) : Kind[e] = "opened"}
    /\ stored \subseteq stored' /\ P \ Buffered(P) \subseteq stored'
    /\ stored' \cup pending' = stored \cup pending \cup P
    /\ pending' = pending \cup Buffered(P)
    /\ fetch'.begin = fetch.begin /\ fetch'.end = fetch.end
    /\ fetch'.error = TRUE /\ fetch'.left = <<>>
    /\ fetch'.seen = fetch.seen \cup P
    /\ failed' = (failed \/ Buffered(P) # {})
    /\ fetch # None /\ fetch.left # <<>>
    /\ UNCHANGED unread
  BY PageIsCut
<1>2. turn' = turn /\ config' = config BY <1>1 DEF unread
<1>3. Sc2 \subseteq Sc \cup P /\ P \cap Sc2 \subseteq Dn2
  <2>1. CutAt(P) BY <1>1 DEF CutAt
  <2> QED BY <2>1
<1>4. /\ P \in SUBSET Events /\ config.fallback \in BOOLEAN
      /\ ~config.fallback => Head(fetch.left) = "primary"
      /\ P # {} => (\E q \in P : Follow(P) = At[q])
                     \/ (last[turn] # None /\ Follow(P) = last[turn])
      /\ \A e \in Available \ P : \A p \in P : At[p] <= At[e]
  BY <1>1, PageOfDomain
<1>5. P # {} => last'[turn] = Follow(P)
  <2>1. turn \in Jobs /\ last \in [Jobs -> Time \cup {None}]
    BY <1>1, NowOn DEF Types, Cursors
  <2> QED BY <1>1, <2>1
<1>6. NoneOlder(fetch, config.fallback, Sc, P)
  <2> SUFFICES ASSUME NEW e \in Sc \ (fetch.got \cup P), Within(fetch, e),
                      DomainOf(config.fallback, e) = Head(fetch.left),
                      \A g \in fetch.got : At[g] <= At[e]
               PROVE  \A p \in P : At[p] <= At[e]
    BY DEF NoneOlder
  <2>1. e \in Available BY <1>1, Awaits
  <2> QED BY <1>4, <2>1
<1>7. Follows(last[turn], last'[turn], P)
  <2>1. CASE P = {} BY <1>1, <2>1 DEF Follows
  <2>2. CASE P # {} BY <1>4, <1>5, <2>2 DEF Follows
  <2> QED BY <2>1, <2>2
<1> DEFINE l == last[turn]
           l2 == last'[turn]
           b == config.fallback
           f == fetch
           f2 == fetch'
<1>8. Reads(f, l, c, b, Sc, Dn) OBVIOUS
<1>9. Follows(l, l2, P) BY <1>7
<1>10. Fails(f, f2) BY <1>1 DEF Fails
<1>11. b \in BOOLEAN /\ (~b => Head(f.left) = "primary") /\ f.left # <<>>
  BY <1>1, <1>4
<1>12. NoneOlder(f, b, Sc, P) BY <1>6
<1>13. P \in SUBSET Events BY <1>4
<1> HIDE DEF l, l2, b, f, f2
<1>14. Reads(f2, l2, c, b, Sc2, Dn2)
  BY <1>3, <1>8, <1>9, <1>10, <1>11, <1>12, <1>13, ReadsCut
<1> QED BY <1>2, <1>14 DEF l2, b, f2

LEMMA ReadingDomain ==
  ASSUME Types, DomainDone, NEW c, NEW Sc \in SUBSET Events, NEW Dn,
         Reads(fetch, last[turn], c, config.fallback, Sc, Dn),
         \A e \in Sc : e \in Asked(turn) /\ (Within(fetch, e) => e \in shown)
  PROVE  Reads(fetch', last'[turn'], c, config'.fallback, Sc, Dn)
<1>1. /\ fetch # None /\ fetch.left # <<>>
      /\ fetch'.begin = fetch.begin /\ fetch'.end = fetch.end
      /\ fetch'.error = fetch.error /\ fetch'.short = fetch.short
      /\ fetch'.left = Tail(fetch.left) /\ fetch'.got = {}
      /\ last' = last /\ turn' = turn /\ config' = config
  BY FetchOn
<1>2. Available = {} BY DEF DomainDone
<1>3. Unread(fetch.left) \subseteq {Head(fetch.left)} \cup Unread(Tail(fetch.left))
  BY <1>1, LeftIs
<1>4. \A e \in Sc \ fetch.got :
         ~ /\ Within(fetch, e) /\ DomainOf(config.fallback, e) = Head(fetch.left)
           /\ \A g \in fetch.got : At[g] <= At[e]
  BY <1>1, <1>2, Awaits
<1> DEFINE l == last[turn]
           b == config.fallback
           f == fetch
           f2 == fetch'
<1>5. /\ f2.begin = f.begin /\ f2.end = f.end
      /\ f2.error = f.error /\ f2.short = f.short
      /\ f2.left = Tail(f.left) /\ f2.got = {} /\ f.left # <<>>
  BY <1>1
<1>6. Reads(f, l, c, b, Sc, Dn) OBVIOUS
<1>7. \A e \in Sc \ f.got :
         ~ /\ Within(f, e) /\ DomainOf(b, e) = Head(f.left)
           /\ \A g \in f.got : At[g] <= At[e]
  BY <1>4
<1>8. Unread(f.left) \subseteq {Head(f.left)} \cup Unread(Tail(f.left)) BY <1>3
<1> HIDE DEF l, b, f, f2
<1>9. Reads(f2, l, c, b, Sc, Dn) BY <1>5, <1>6, <1>7, <1>8, ReadsDomain
<1> QED BY <1>1, <1>9 DEF l, b, f2

\* A fetch that begins has read nothing, and nothing is behind its cursor.
LEMMA ReadingBegins ==
  ASSUME Types, FetchEvents, NEW c, NEW Sc \in SUBSET Events, NEW Dn
  PROVE  Reads(fetch', last'[turn'], c, config'.fallback, Sc, Dn)
<1>1. /\ turn \in Jobs /\ fetch' \in Fetches
      /\ fetch'.left = Domains /\ fetch'.got = {}
      /\ turn # "scheduled" => fetch'.begin = Cursor(turn)
      /\ turn = "scheduled" /\ last[turn] # None => fetch'.begin >= last[turn]
      /\ UNCHANGED <<config, last, turn>>
  BY FetchBegins
<1>2. fetch'.begin \in Nat BY <1>1, FetchFields
<1>3. last[turn] \in Nat \cup {None} BY <1>1 DEF Types, Cursors, Time
<1>4. last[turn] # None => last[turn] <= fetch'.begin
  <2>1. turn # "scheduled" /\ last[turn] # None => fetch'.begin = last[turn]
    BY <1>1 DEF Cursor
  <2> QED BY <1>1, <1>2, <1>3, <2>1
<1>5. config.fallback \in BOOLEAN
  BY AnalyticsAssumption DEF Types, Data
<1> DEFINE l == last[turn]
           b == config.fallback
           f2 == fetch'
<1>6. f2.got = {} /\ f2.begin \in Nat /\ b \in BOOLEAN
      /\ l \in Nat \cup {None} /\ (l # None => l <= f2.begin)
      /\ f2.left = IF b THEN <<"primary", "fallback">> ELSE <<"primary">>
  BY <1>1, <1>2, <1>3, <1>4, <1>5 DEF Domains
<1> HIDE DEF l, b, f2
<1>7. Reads(f2, l, c, b, Sc, Dn) BY <1>6, ReadsNothing
<1> QED BY <1>1, <1>7 DEF l, b, f2

\* A step that reads nothing, and does not end the fetch.
LEMMA ReadingOn ==
  ASSUME NEW c, NEW c2, c => c2, NEW Sc, NEW Sc2, NEW Dn, NEW Dn2,
         Reads(fetch, last[turn], c, config.fallback, Sc, Dn),
         last'[turn'] = last[turn], config' = config,
         fetch'.begin = fetch.begin, fetch'.end = fetch.end,
         fetch'.error = fetch.error, fetch'.short = fetch.short,
         fetch'.got = fetch.got, fetch'.left = fetch.left,
         Sc2 \subseteq Sc, Dn \cap Sc2 \subseteq Dn2
  PROVE  Reads(fetch', last'[turn'], c2, config'.fallback, Sc2, Dn2)
<1> DEFINE l == last[turn]
           b == config.fallback
           f == fetch
           f2 == fetch'
<1>1. /\ f2.begin = f.begin /\ f2.end = f.end
      /\ f2.error = f.error /\ f2.short = f.short
      /\ f2.got = f.got /\ f2.left = f.left
  OBVIOUS
<1>2. Reads(f, l, c, b, Sc, Dn) OBVIOUS
<1> HIDE DEF l, b, f, f2
<1>3. Reads(f2, l, c2, b, Sc2, Dn2) BY <1>1, <1>2, ReadsOn
<1> QED BY <1>3 DEF l, b, f2

-----------------------------------------------------------------------------
LEMMA MissingStays ==
  ASSUME MissingPassed, Good \subseteq Good',
         finished'["missing"] = finished["missing"],
         started'["missing"] = started["missing"],
         Where("missing")' = Where("missing") \/ Where("missing")' = None,
         "missing" \in jumped => "missing" \in jumped'
  PROVE  MissingPassed'
<1> SUFFICES ASSUME "missing" \notin jumped'
             PROVE  /\ AllBefore(finished'["missing"], Events, Good')
                    /\ AllBefore(started'["missing"], Events, Good')
                    /\ AllBefore(Where("missing")', Events, Good')
  BY DEF MissingPassed
<1>1. /\ AllBefore(finished["missing"], Events, Good)
      /\ AllBefore(started["missing"], Events, Good)
      /\ AllBefore(Where("missing"), Events, Good)
  BY DEF MissingPassed
<1>2. AllBefore(None, Events, Good') BY NothingBefore
<1>3. /\ AllBefore(finished["missing"], Events, Good')
      /\ AllBefore(started["missing"], Events, Good')
      /\ AllBefore(Where("missing"), Events, Good')
  BY <1>1, AllBeforeOn
<1> QED BY <1>2, <1>3

\* Where a job is, over the steps that leave its cursor and its turn alone.
LEMMA WhereStays ==
  ASSUME NEW j, last'[j] = last[j],
         \/ ~AtWork(j) /\ ~AtWork(j)'
         \/ AtWork(j) /\ AtWork(j)' /\ fetch'.begin = fetch.begin
  PROVE  Where(j)' = Where(j)
  BY DEF Where

LEMMA JumpedGrows ==
  /\ jumped \subseteq Jumped
  /\ \A j : j \notin Jumped => j \notin jumped
  BY DEF Jumped

\* The end of a fetch, for its own job: what is before the cursor, and before
\* where it goes on to.
LEMMA BeforeLast ==
  ASSUME Types, fetch # None, fetch.left = <<>>, turn \notin Jumped,
         turn \in {"missing", "scheduled"}, ~Cut, Reading,
         NEW S \in SUBSET Events, AllBefore(fetch.begin, S, Good)
  PROVE  AllBefore(last[turn], S, Good)
<1> SUFFICES ASSUME last[turn] # None, NEW e \in S, At[e] < last[turn]
             PROVE  e \in Good \/ Shadowed(e)
  BY DEF AllBefore
<1>1. Reads(fetch, last[turn], Cut, config.fallback, Events, Good) BY DEF Reading
<1>2. \A f \in Events : At[f] >= fetch.begin /\ At[f] < last[turn] => f \in Good
  BY <1>1, AtEnd
<1>3. fetch.begin \in Nat /\ fetch.begin # None
  <2>1. fetch.begin \in Nat BY NowOn, FetchFields
  <2> QED BY <2>1, Numbers
<1>4. At[e] \in Nat BY Numbers
<1>5. CASE At[e] >= fetch.begin BY <1>2, <1>5
<1>6. CASE ~(At[e] >= fetch.begin)
  <2>1. At[e] < fetch.begin BY <1>3, <1>4, <1>6
  <2> QED BY <1>3, <2>1 DEF AllBefore
<1> QED BY <1>5, <1>6

LEMMA BeforeNext ==
  ASSUME Types, fetch # None, fetch.left = <<>>, ~fetch.error, turn \notin Jumped,
         turn \in {"missing", "scheduled"}, ~Cut, Reading,
         last[turn] # None, IsTime(last[turn]),
         NEW next, next = last[turn]
                     \/ (fetch.count < fetch.max /\ next = last[turn] + Second),
         NEW S \in SUBSET Events, AllBefore(fetch.begin, S, Good)
  PROVE  AllBefore(next, S, Good)
<1> SUFFICES ASSUME next # None, NEW e \in S, At[e] < next
             PROVE  e \in Good \/ Shadowed(e)
  BY DEF AllBefore
<1>1. Reads(fetch, last[turn], Cut, config.fallback, Events, Good) BY DEF Reading
<1>2. \A f \in Events : At[f] >= fetch.begin /\ At[f] < next =>
          f \in Good \/ Shadowed(f)
  <2> DEFINE G == Good
             c == Cut
  <2>1. Reads(fetch, last[turn], c, config.fallback, Events, G) /\ ~c BY <1>1
  <2> HIDE DEF G, c
  <2>2. \A f \in Events : At[f] >= fetch.begin /\ At[f] < next =>
            f \in G \/ Shadowed(f)
    BY <2>1, PastNext
  <2> QED BY <2>2 DEF G
<1>3. fetch.begin \in Nat /\ fetch.begin # None
  <2>1. fetch.begin \in Nat BY NowOn, FetchFields
  <2> QED BY <2>1, Numbers
<1>4. At[e] \in Nat BY Numbers
<1>5. CASE At[e] >= fetch.begin BY <1>2, <1>5
<1>6. CASE ~(At[e] >= fetch.begin)
  <2>1. At[e] < fetch.begin BY <1>3, <1>4, <1>6
  <2> QED BY <1>3, <2>1 DEF AllBefore
<1> QED BY <1>5, <1>6

LEMMA MissingStep ==
  ASSUME Passing, [Next]_vars
  PROVE  MissingPassed'
<1>0. /\ Types /\ MissingPassed /\ Reading /\ Good \subseteq Good'
      /\ "missing" \in Jobs
      /\ last \in [Jobs -> Time \cup {None}] /\ started \in [Jobs -> Time]
      /\ finished \in [Jobs -> Time \cup {None}]
  BY GoodGrows DEF Passing, Types, Cursors, Jobs
<1>1. CASE (\E e \in Events : Show(e)) \/ Tick \/ UNCHANGED vars
  <2>1. UNCHANGED <<last, finished, started, turn, fetch, jumped>>
    BY <1>1 DEF Show, Tick, vars, cursors, flow, history
  <2>2. Where("missing")' = Where("missing") BY <2>1 DEF Where, AtWork
  <2> QED BY <1>0, <2>1, <2>2, MissingStays
<1>2. CASE (\E w \in Windows : Request(w)) \/ Cancel
  <2>1. /\ UNCHANGED <<finished, started, turn, fetch>>
        /\ last' = last \/ last' = [last EXCEPT !["scheduled"] = None]
        /\ jumped' = jumped \/ jumped' = jumped \ {"scheduled"}
    BY <1>2 DEF Request, Cancel, Clear, flow, history
  <2>2. last'["missing"] = last["missing"] BY <1>0, <2>1
  <2>3. Where("missing")' = Where("missing") BY <2>1, <2>2 DEF Where, AtWork
  <2> QED BY <1>0, <2>1, <2>3, MissingStays
<1>3. CASE Start \/ Skip
  <2>1. /\ UNCHANGED <<finished, started>> /\ fetch = None /\ fetch' = None
        /\ last' = last \/ last' = [last EXCEPT !["scheduled"] = None]
             \/ last' = [last EXCEPT !["scheduled"] = finished["scheduled"]]
        /\ jumped \subseteq jumped'
    BY <1>0, <1>3 DEF Start, Skip, Restore, Clear, NextTurn, history, Types, Pages
  <2>2. last'["missing"] = last["missing"] BY <1>0, <2>1
  <2>3. Where("missing")' = Where("missing") BY <2>1, <2>2 DEF Where, AtWork
  <2> QED BY <1>0, <2>1, <2>3, MissingStays
<1>4. CASE FetchEvents
  <2>1. /\ fetch = None /\ fetch' # None /\ turn \in Jobs
        /\ turn # "scheduled" => fetch'.begin = Cursor(turn)
        /\ started' = [started EXCEPT ![turn] = fetch'.begin]
        /\ UNCHANGED <<last, finished, turn, jumped>>
    BY <1>0, <1>4, FetchBegins DEF history
  <2>2. CASE turn # "missing"
    <3>1. started'["missing"] = started["missing"] BY <1>0, <2>1, <2>2
    <3>2. Where("missing")' = Where("missing")
      BY <2>1, <2>2 DEF Where, AtWork
    <3> QED BY <1>0, <2>1, <3>1, <3>2, MissingStays
  <2>3. CASE turn = "missing"
    <3>1. started'["missing"] = fetch'.begin BY <1>0, <2>1, <2>3
    <3>2. Where("missing")' = fetch'.begin /\ Where("missing") = last["missing"]
      BY <2>1, <2>3 DEF Where, AtWork
    <3>3. fetch'.begin \in {last["missing"], finished["missing"], started["missing"]}
      BY <2>1, <2>3 DEF Cursor
    <3> SUFFICES ASSUME "missing" \notin jumped'
                 PROVE  /\ AllBefore(finished'["missing"], Events, Good')
                        /\ AllBefore(started'["missing"], Events, Good')
                        /\ AllBefore(Where("missing")', Events, Good')
      BY DEF MissingPassed
    <3>4. /\ AllBefore(finished["missing"], Events, Good)
          /\ AllBefore(started["missing"], Events, Good)
          /\ AllBefore(last["missing"], Events, Good)
      BY <1>0, <2>1, <3>2 DEF MissingPassed
    <3>5. /\ AllBefore(finished["missing"], Events, Good')
          /\ AllBefore(fetch'.begin, Events, Good')
      BY <1>0, <3>3, <3>4, AllBeforeOn
    <3> QED BY <2>1, <3>1, <3>2, <3>5
  <2> QED BY <2>2, <2>3
<1>5. CASE ReadPage \/ PageFails
  <2>1. PICK Q \in SUBSET Available :
        /\ UNCHANGED unread /\ jumped' = jumped
        /\ last' = IF Q = {} THEN last ELSE [last EXCEPT ![turn] = Follow(Q)]
        /\ fetch # None /\ fetch' # None /\ fetch'.begin = fetch.begin
    <3>1. CASE ReadPage BY <1>0, <3>1, PageIsRead
    <3>2. CASE PageFails BY <1>0, <3>2, PageIsCut
    <3> QED BY <1>5, <3>1, <3>2
  <2>2. UNCHANGED <<finished, started, turn>> /\ turn \in Jobs
    BY <1>0, <2>1, NowOn DEF unread
  <2>3. turn # "missing" => last'["missing"] = last["missing"] BY <1>0, <2>1, <2>2
  <2>4. Where("missing")' = Where("missing") BY <2>1, <2>2, <2>3 DEF Where, AtWork
  <2> QED BY <1>0, <2>1, <2>2, <2>4, MissingStays
<1>6. CASE DomainDone \/ AggregateMeanwhile
  <2>1. /\ UNCHANGED <<last, finished, started, turn, jumped>>
        /\ fetch # None /\ fetch' # None /\ fetch'.begin = fetch.begin
    BY <1>0, <1>6, FetchOn
  <2>2. Where("missing")' = Where("missing") BY <2>1 DEF Where, AtWork
  <2> QED BY <1>0, <2>1, <2>2, MissingStays
<1>7. CASE EndFetch
  <2>1. PICK next \in Time \cup {None} :
    /\ fetch # None /\ fetch.left = <<>> /\ ~fetch.error /\ turn \in Jobs
    /\ fetch.count > 0 =>
         /\ last[turn] # None /\ IsTime(last[turn])
         /\ next = last[turn]
              \/ (fetch.count < fetch.max /\ next = last[turn] + Second)
    /\ ~(fetch.count > 0) => next = last[turn]
    /\ \/ turn = "scheduled" /\ last' = [last EXCEPT !["scheduled"] = None]
       \/ last' = [last EXCEPT ![turn] = next]
    /\ \/ finished' = finished
       \/ \E s \in {last[turn], next} :
               /\ finished' = [finished EXCEPT ![turn] = s]
               /\ turn # "scheduled" => s = last[turn]
    /\ fetch' = None /\ jumped' = Jumped /\ UNCHANGED fetched
    BY <1>0, <1>7, FetchEnds
  <2>2. started' = started /\ jumped \subseteq jumped'
    BY <2>1, JumpedGrows DEF fetched
  <2>3. CASE turn # "missing"
    <3>1. last'["missing"] = last["missing"] /\ finished'["missing"] = finished["missing"]
      BY <1>0, <2>1, <2>3
    <3>2. Where("missing")' = Where("missing") BY <2>1, <2>3, <3>1 DEF Where, AtWork
    <3> QED BY <1>0, <2>2, <3>1, <3>2, MissingStays
  <2>4. CASE turn = "missing"
    <3> SUFFICES ASSUME "missing" \notin jumped'
                 PROVE  /\ AllBefore(finished'["missing"], Events, Good')
                        /\ AllBefore(started'["missing"], Events, Good')
                        /\ AllBefore(Where("missing")', Events, Good')
      BY DEF MissingPassed
    <3>1. Where("missing")' = next /\ Where("missing") = fetch.begin
      BY <1>0, <2>1, <2>4 DEF Where, AtWork
    <3>2. /\ AllBefore(finished["missing"], Events, Good)
          /\ AllBefore(started["missing"], Events, Good)
          /\ AllBefore(fetch.begin, Events, Good)
      BY <1>0, <2>2, <3>1 DEF MissingPassed
    <3>3. turn \notin Jumped /\ ~Cut BY <2>1, <2>4 DEF Cut
    <3>4. AllBefore(last[turn], Events, Good)
      BY <1>0, <2>1, <2>4, <3>2, <3>3, BeforeLast
    <3>5. AllBefore(next, Events, Good)
      <4>1. CASE fetch.count > 0
        BY <1>0, <2>1, <2>4, <3>2, <3>3, <4>1, BeforeNext
      <4>2. CASE ~(fetch.count > 0) BY <2>1, <3>4, <4>2
      <4> QED BY <4>1, <4>2
    <3>6. finished'["missing"] \in {finished["missing"], last["missing"]}
      BY <1>0, <2>1, <2>4
    <3>7. /\ AllBefore(finished["missing"], Events, Good')
          /\ AllBefore(last["missing"], Events, Good')
          /\ AllBefore(started["missing"], Events, Good')
          /\ AllBefore(next, Events, Good')
      BY <1>0, <2>4, <3>2, <3>4, <3>5, AllBeforeOn
    <3> QED BY <2>2, <3>1, <3>6, <3>7
  <2> QED BY <2>3, <2>4
<1>8. CASE FetchThrows
  <2>1. /\ fetch # None /\ fetch.left = <<>> /\ turn \in Jobs
        /\ fetch' = None /\ jumped' = Jumped
        /\ UNCHANGED <<fetched, last, finished>>
    BY <1>0, <1>8, Throws
  <2>2. started' = started /\ jumped \subseteq jumped'
    BY <2>1, JumpedGrows DEF fetched
  <2>3. CASE turn # "missing"
    <3>1. Where("missing")' = Where("missing") BY <2>1, <2>3 DEF Where, AtWork
    <3> QED BY <1>0, <2>1, <2>2, <3>1, MissingStays
  <2>4. CASE turn = "missing"
    <3> SUFFICES ASSUME "missing" \notin jumped'
                 PROVE  /\ AllBefore(finished'["missing"], Events, Good')
                        /\ AllBefore(started'["missing"], Events, Good')
                        /\ AllBefore(Where("missing")', Events, Good')
      BY DEF MissingPassed
    <3>1. Where("missing")' = last["missing"] /\ Where("missing") = fetch.begin
      BY <2>1, <2>4 DEF Where, AtWork
    <3>2. /\ AllBefore(finished["missing"], Events, Good)
          /\ AllBefore(started["missing"], Events, Good)
          /\ AllBefore(fetch.begin, Events, Good)
      BY <1>0, <2>2, <3>1 DEF MissingPassed
    <3>3. turn \notin Jumped /\ ~Cut BY <2>1, <2>4 DEF Cut
    <3>4. AllBefore(last[turn], Events, Good)
      BY <1>0, <2>1, <2>4, <3>2, <3>3, BeforeLast
    <3>5. /\ AllBefore(finished["missing"], Events, Good')
          /\ AllBefore(last["missing"], Events, Good')
          /\ AllBefore(started["missing"], Events, Good')
      BY <1>0, <2>4, <3>2, <3>4, AllBeforeOn
    <3> QED BY <2>1, <2>2, <3>1, <3>5
  <2> QED BY <2>3, <2>4
<1>9. CASE Crash
  <2>1. /\ last'["missing"] = None /\ fetch' = None
        /\ UNCHANGED <<finished, started, jumped>>
    BY <1>0, <1>9 DEF Crash
  <2>2. Where("missing")' = None BY <2>1 DEF Where, AtWork
  <2> QED BY <1>0, <2>1, <2>2, MissingStays
<1> QED BY <1>1, <1>2, <1>3, <1>4, <1>5, <1>6, <1>7, <1>8, <1>9 DEF Next, Work

LEMMA InWindowIs == \A w : InWindow(w) \in SUBSET Events
  BY DEF InWindow

LEMMA WindowStays ==
  ASSUME WindowPassed, Good \subseteq Good',
         \/ schedule' = None
         \/ Canceled'
         \/ Where("scheduled")' = None
         \/ /\ Where("scheduled")' = Where("scheduled")
            /\ schedule # None /\ schedule'.of = schedule.of
            /\ Canceled => Canceled',
         "scheduled" \in jumped => "scheduled" \in jumped' \/ Where("scheduled")' = None
  PROVE  WindowPassed'
<1> DEFINE W2 == Where("scheduled")'
<1> SUFFICES ASSUME "scheduled" \notin jumped', schedule' # None, ~Canceled'
             PROVE  AllBefore(W2, InWindow(schedule'.of), Good')
  BY DEF WindowPassed, InWindow
<1>1. CASE W2 = None BY <1>1, NothingBefore
<1>2. CASE W2 # None
  <2>1. /\ W2 = Where("scheduled")
        /\ schedule # None /\ schedule'.of = schedule.of /\ ~Canceled
        /\ "scheduled" \notin jumped
    BY <1>2
  <2>2. AllBefore(Where("scheduled"), InWindow(schedule.of), Good)
    BY <2>1 DEF WindowPassed
  <2>3. AllBefore(Where("scheduled"), InWindow(schedule.of), Good')
    BY <2>2, AllBeforeOn
  <2> QED BY <2>1, <2>3
<1> QED BY <1>1, <1>2

LEMMA WindowStep ==
  ASSUME Passing, [Next]_vars
  PROVE  WindowPassed'
<1>0. /\ Types /\ WindowPassed /\ Reading /\ Good \subseteq Good'
      /\ "scheduled" \in Jobs
      /\ last \in [Jobs -> Time \cup {None}]
  BY GoodGrows DEF Passing, Types, Cursors, Jobs
<1>a. schedule = None => ~Canceled BY DEF Canceled
<1>1. CASE (\E e \in Events : Show(e)) \/ Tick \/ UNCHANGED vars
  <2>1. UNCHANGED <<last, schedule, turn, fetch, jumped>>
    BY <1>1 DEF Show, Tick, vars, cursors, flow, history, window
  <2>2. Where("scheduled")' = Where("scheduled") BY <2>1 DEF Where, AtWork
  <2>3. Canceled' <=> Canceled BY <2>1 DEF Canceled
  <2>4. CASE schedule = None BY <1>0, <2>1, <2>4, WindowStays
  <2>5. CASE schedule # None BY <1>0, <2>1, <2>2, <2>3, <2>5, WindowStays
  <2> QED BY <2>4, <2>5
<1>2. ASSUME NEW w \in Windows, Request(w) PROVE WindowPassed'
  <2>1. /\ last' = [last EXCEPT !["scheduled"] = None] /\ ~Running
        /\ UNCHANGED <<turn, fetch>>
    BY <1>2 DEF Request, flow
  <2>2. ~AtWork("scheduled")' BY <1>0, <2>1 DEF Types, Working, AtWork
  <2>3. last'["scheduled"] = None BY <1>0, <2>1
  <2>4. Where("scheduled")' = None BY <2>2, <2>3 DEF Where
  <2> QED BY <1>0, <2>4, WindowStays
<1>3. CASE Cancel
  <2>1. schedule # None /\ jumped' = jumped BY <1>3 DEF Cancel, history
  <2>2. schedule \in Schedules BY <1>0, <2>1, NowOn
  <2>3. CASE Running
    <3>1. schedule' = [schedule EXCEPT !.canceled = TRUE] BY <1>3, <2>3 DEF Cancel
    <3>2. schedule' # None /\ schedule'.canceled = TRUE BY <2>2, <3>1, Rerun
    <3>3. Canceled' BY <3>2 DEF Canceled
    <3> QED BY <1>0, <2>1, <3>3, WindowStays
  <2>4. CASE ~Running
    <3>1. schedule' = None BY <1>3, <2>4 DEF Cancel, Clear
    <3> QED BY <1>0, <2>1, <3>1, WindowStays
  <2> QED BY <2>3, <2>4
<1>4. CASE Start
  <2>1. fetch = None /\ fetch' = None BY <1>0, <1>4 DEF Start, Types, Pages
  <2>2. Where("scheduled") = last["scheduled"] /\ Where("scheduled")' = last'["scheduled"]
    BY <2>1 DEF Where, AtWork
  <2>3. CASE UNCHANGED <<schedule, last, jumped>>
    <3>1. Canceled' <=> Canceled BY <2>3 DEF Canceled
    <3>2. CASE schedule = None BY <1>0, <2>3, <3>2, WindowStays
    <3>3. CASE schedule # None BY <1>0, <2>2, <2>3, <3>1, <3>3, WindowStays
    <3> QED BY <3>2, <3>3
  <2>4. CASE ~UNCHANGED <<schedule, last, jumped>>
    <3>1. /\ metadata # None
          /\ schedule' = [of |-> metadata, running |-> FALSE, canceled |-> FALSE]
          /\ last' = [last EXCEPT !["scheduled"] = finished["scheduled"]]
          /\ jumped' = IF foreign THEN jumped \cup {"scheduled"} ELSE jumped
      BY <1>4, <2>4 DEF Start, Restore
    <3>2. schedule'.of = metadata BY <3>1
    <3>3. last'["scheduled"] = finished["scheduled"] BY <1>0, <3>1
    <3> SUFFICES ASSUME "scheduled" \notin jumped'
                 PROVE  AllBefore(Where("scheduled")', InWindow(schedule'.of), Good')
      BY DEF WindowPassed, InWindow
    <3>4. "scheduled" \notin jumped /\ ~foreign BY <3>1
    <3>5. AllBefore(finished["scheduled"], InWindow(metadata), Good)
      BY <3>1, <3>4 DEF Passing, SavedPassed
    <3>6. AllBefore(finished["scheduled"], InWindow(metadata), Good')
      BY <1>0, <3>5, AllBeforeOn
    <3> QED BY <2>2, <3>2, <3>3, <3>6
  <2> QED BY <2>3, <2>4
<1>5. CASE Skip
  <2>1. /\ fetch = None /\ fetch' = None /\ jumped' = jumped
        /\ schedule' = None \/ (schedule' = schedule /\ last' = last)
    BY <1>5 DEF Skip, NextTurn, Clear, history
  <2>2. CASE schedule' = None BY <1>0, <2>1, <2>2, WindowStays
  <2>3. CASE schedule # None /\ schedule' = schedule /\ last' = last
    <3>1. Where("scheduled")' = Where("scheduled") BY <2>1, <2>3 DEF Where, AtWork
    <3>2. Canceled' <=> Canceled BY <2>3 DEF Canceled
    <3> QED BY <1>0, <2>1, <2>3, <3>1, <3>2, WindowStays
  <2> QED BY <2>1, <2>2, <2>3
<1>6. CASE FetchEvents
  <2>1. /\ fetch = None /\ fetch' # None /\ turn \in Jobs /\ fetch' \in Fetches
        /\ turn # "scheduled" => schedule' = schedule
        /\ turn = "scheduled" =>
             /\ schedule # None /\ ~Canceled
             /\ schedule'.of = schedule.of
             /\ fetch'.begin = schedule.of.begin
                  \/ (last[turn] # None /\ fetch'.begin = last[turn])
        /\ UNCHANGED <<last, turn, jumped>>
    BY <1>0, <1>6, FetchBegins DEF history
  <2>2. Where("scheduled") = last["scheduled"] BY <2>1 DEF Where, AtWork
  <2>3. CASE turn # "scheduled"
    <3>1. Where("scheduled")' = Where("scheduled") BY <2>1, <2>3 DEF Where, AtWork
    <3>2. Canceled' <=> Canceled BY <2>1, <2>3 DEF Canceled
    <3>3. CASE schedule = None BY <1>0, <2>1, <2>3, <3>3, WindowStays
    <3>4. CASE schedule # None BY <1>0, <2>1, <2>3, <3>1, <3>2, <3>4, WindowStays
    <3> QED BY <3>3, <3>4
  <2>4. CASE turn = "scheduled"
    <3>1. Where("scheduled")' = fetch'.begin BY <2>1, <2>4 DEF Where, AtWork
    <3> DEFINE S == InWindow(schedule.of)
               t == fetch'.begin
    <3> SUFFICES ASSUME "scheduled" \notin jumped'
                 PROVE  AllBefore(t, S, Good')
      BY <2>1, <2>4, <3>1 DEF WindowPassed, InWindow
    <3>2. CASE last[turn] # None /\ t = last[turn]
      <4>1. AllBefore(last["scheduled"], S, Good)
        BY <1>0, <2>1, <2>2, <2>4 DEF WindowPassed
      <4>2. AllBefore(last["scheduled"], S, Good') BY <1>0, <4>1, AllBeforeOn
      <4> QED BY <2>4, <3>2, <4>2
    <3>3. CASE t = schedule.of.begin
      <4>1. t \in Nat BY <2>1, FetchFields
      <4>2. \A e \in S : At[e] >= t /\ At[e] \in Nat BY <3>3, Numbers DEF InWindow
      <4> HIDE DEF S, t
      <4> QED BY <4>1, <4>2 DEF AllBefore
    <3> QED BY <2>1, <2>4, <3>2, <3>3
  <2> QED BY <2>3, <2>4
<1>7. CASE ReadPage \/ PageFails
  <2>1. PICK Q \in SUBSET Available :
        /\ UNCHANGED unread /\ jumped' = jumped
        /\ last' = IF Q = {} THEN last ELSE [last EXCEPT ![turn] = Follow(Q)]
        /\ fetch # None /\ fetch' # None /\ fetch'.begin = fetch.begin
    <3>1. CASE ReadPage BY <1>0, <3>1, PageIsRead
    <3>2. CASE PageFails BY <1>0, <3>2, PageIsCut
    <3> QED BY <1>7, <3>1, <3>2
  <2>2. UNCHANGED <<schedule, turn>> /\ turn \in Jobs
    BY <1>0, <2>1, NowOn DEF unread
  <2>3. turn # "scheduled" => last'["scheduled"] = last["scheduled"]
    BY <1>0, <2>1, <2>2
  <2>4. Where("scheduled")' = Where("scheduled")
    BY <2>1, <2>2, <2>3 DEF Where, AtWork
  <2>5. Canceled' <=> Canceled BY <2>2 DEF Canceled
  <2>6. CASE schedule = None BY <1>0, <2>1, <2>2, <2>6, WindowStays
  <2>7. CASE schedule # None BY <1>0, <2>1, <2>2, <2>4, <2>5, <2>7, WindowStays
  <2> QED BY <2>6, <2>7
<1>8. CASE DomainDone \/ AggregateMeanwhile
  <2>1. /\ UNCHANGED <<last, schedule, turn, jumped>>
        /\ fetch # None /\ fetch' # None /\ fetch'.begin = fetch.begin
    BY <1>0, <1>8, FetchOn
  <2>2. Where("scheduled")' = Where("scheduled") BY <2>1 DEF Where, AtWork
  <2>3. Canceled' <=> Canceled BY <2>1 DEF Canceled
  <2>4. CASE schedule = None BY <1>0, <2>1, <2>4, WindowStays
  <2>5. CASE schedule # None BY <1>0, <2>1, <2>2, <2>3, <2>5, WindowStays
  <2> QED BY <2>4, <2>5
<1>9. CASE EndFetch
  <2>1. PICK next \in Time \cup {None} :
    /\ fetch # None /\ fetch.left = <<>> /\ ~fetch.error /\ turn \in Jobs
    /\ fetch.count > 0 =>
         /\ last[turn] # None /\ IsTime(last[turn])
         /\ next = last[turn]
              \/ (fetch.count < fetch.max /\ next = last[turn] + Second)
    /\ \/ turn = "scheduled" /\ schedule' = None
       \/ /\ last' = [last EXCEPT ![turn] = next]
          /\ turn # "scheduled" => schedule' = schedule
          /\ turn = "scheduled" =>
               /\ fetch.count > 0 /\ ~Canceled /\ schedule'.of = schedule.of
    /\ fetch' = None /\ jumped' = Jumped
    BY <1>0, <1>9, FetchEnds
  <2>2. jumped \subseteq jumped' BY <2>1, JumpedGrows
  <2>3. CASE turn # "scheduled"
    <3>1. last'["scheduled"] = last["scheduled"] /\ schedule' = schedule
      BY <1>0, <2>1, <2>3
    <3>2. Where("scheduled")' = Where("scheduled")
      BY <2>1, <2>3, <3>1 DEF Where, AtWork
    <3>3. Canceled' <=> Canceled BY <3>1 DEF Canceled
    <3>4. CASE schedule = None BY <1>0, <2>2, <3>1, <3>4, WindowStays
    <3>5. CASE schedule # None
      BY <1>0, <2>2, <3>1, <3>2, <3>3, <3>5, WindowStays
    <3> QED BY <3>4, <3>5
  <2>4. CASE schedule' = None BY <1>0, <2>2, <2>4, WindowStays
  <2>5. CASE turn = "scheduled" /\ schedule' # None
    <3>1. /\ fetch.count > 0 /\ ~Canceled /\ schedule'.of = schedule.of
          /\ last'["scheduled"] = next
      BY <1>0, <2>1, <2>5
    <3>2. Where("scheduled")' = next /\ Where("scheduled") = fetch.begin
      BY <2>1, <2>5, <3>1 DEF Where, AtWork
    <3>3. schedule # None BY <1>0, <2>1, <2>5 DEF Types, Working
    <3> DEFINE S == InWindow(schedule.of)
    <3> SUFFICES ASSUME "scheduled" \notin jumped'
                 PROVE  AllBefore(next, S, Good')
      BY <3>1, <3>2 DEF WindowPassed, InWindow
    <3>4. AllBefore(fetch.begin, S, Good)
      BY <1>0, <2>2, <3>1, <3>2, <3>3 DEF WindowPassed
    <3>5. turn \notin Jumped /\ ~Cut BY <2>1, <2>5, <3>1 DEF Cut
    <3>6. S \in SUBSET Events BY InWindowIs
    <3> HIDE DEF S
    <3>7. AllBefore(next, S, Good)
      BY <1>0, <2>1, <2>5, <3>1, <3>4, <3>5, <3>6, BeforeNext
    <3> QED BY <1>0, <3>7, AllBeforeOn
  <2> QED BY <2>3, <2>4, <2>5
<1>10. CASE FetchThrows
  <2>1. /\ fetch # None /\ fetch.left = <<>> /\ turn \in Jobs
        /\ turn # "scheduled" => schedule' = schedule
        /\ turn = "scheduled" =>
             /\ schedule # None /\ schedule' # None
             /\ schedule'.of = schedule.of
             /\ schedule'.canceled = schedule.canceled
        /\ fetch' = None /\ jumped' = Jumped /\ last' = last
    BY <1>0, <1>10, Throws
  <2>2. jumped \subseteq jumped' BY <2>1, JumpedGrows
  <2>3. CASE turn # "scheduled"
    <3>1. Where("scheduled")' = Where("scheduled")
      BY <2>1, <2>3 DEF Where, AtWork
    <3>2. Canceled' <=> Canceled BY <2>1, <2>3 DEF Canceled
    <3>3. CASE schedule = None BY <1>0, <2>1, <2>2, <2>3, <3>3, WindowStays
    <3>4. CASE schedule # None
      BY <1>0, <2>1, <2>2, <2>3, <3>1, <3>2, <3>4, WindowStays
    <3> QED BY <3>3, <3>4
  <2>4. CASE turn = "scheduled"
    <3>1. Where("scheduled")' = last["scheduled"] /\ Where("scheduled") = fetch.begin
      BY <2>1, <2>4 DEF Where, AtWork
    <3>2. Canceled' <=> Canceled BY <2>1, <2>4 DEF Canceled
    <3> DEFINE S == InWindow(schedule.of)
    <3> SUFFICES ASSUME "scheduled" \notin jumped', ~Canceled'
                 PROVE  AllBefore(last[turn], S, Good')
      BY <2>1, <2>4, <3>1 DEF WindowPassed, InWindow
    <3>3. AllBefore(fetch.begin, S, Good)
      BY <1>0, <2>1, <2>2, <2>4, <3>1, <3>2 DEF WindowPassed
    <3>4. turn \notin Jumped /\ ~Cut BY <2>1, <2>4, <3>2 DEF Cut
    <3>5. S \in SUBSET Events BY InWindowIs
    <3> HIDE DEF S
    <3>6. AllBefore(last[turn], S, Good)
      BY <1>0, <2>1, <2>4, <3>3, <3>4, <3>5, BeforeLast
    <3> QED BY <1>0, <3>6, AllBeforeOn
  <2> QED BY <2>3, <2>4
<1>11. CASE Crash
  <2>1. schedule' = None /\ jumped' = jumped BY <1>11 DEF Crash
  <2> QED BY <1>0, <2>1, WindowStays
<1> QED BY <1>1, <1>2, <1>3, <1>4, <1>5, <1>6, <1>7, <1>8, <1>9, <1>10, <1>11
        DEF Next, Work

LEMMA SavedStays ==
  ASSUME SavedPassed, Good \subseteq Good',
         \/ metadata' = None
         \/ foreign'
         \/ /\ metadata' = metadata /\ finished'["scheduled"] = finished["scheduled"]
            /\ foreign => foreign'
            /\ "scheduled" \in jumped => "scheduled" \in jumped'
  PROVE  SavedPassed'
<1> SUFFICES ASSUME "scheduled" \notin jumped', metadata' # None, ~foreign'
             PROVE  AllBefore(finished'["scheduled"], InWindow(metadata'), Good')
  BY DEF SavedPassed, InWindow
<1>1. /\ metadata' = metadata /\ finished'["scheduled"] = finished["scheduled"]
      /\ ~foreign /\ "scheduled" \notin jumped /\ metadata # None
  OBVIOUS
<1>2. AllBefore(finished["scheduled"], InWindow(metadata), Good)
  BY <1>1 DEF SavedPassed
<1>3. AllBefore(finished["scheduled"], InWindow(metadata), Good')
  BY <1>2, AllBeforeOn
<1> QED BY <1>1, <1>3

LEMMA SavedStep ==
  ASSUME Passing, [Next]_vars
  PROVE  SavedPassed'
<1>0. /\ Types /\ WindowPassed /\ SavedPassed /\ Reading /\ Good \subseteq Good'
      /\ "scheduled" \in Jobs
      /\ finished \in [Jobs -> Time \cup {None}] /\ foreign \in BOOLEAN
  BY GoodGrows DEF Passing, Types, Cursors, Jobs, Data
<1>1. CASE (\E e \in Events : Show(e)) \/ Tick \/ FetchEvents \/ ReadPage \/ PageFails
           \/ DomainDone \/ AggregateMeanwhile \/ Crash \/ UNCHANGED vars
  <2>1. UNCHANGED <<metadata, finished, foreign, jumped>>
    BY <1>1 DEF Show, Tick, FetchEvents, ReadPage, PageFails, DomainDone,
                AggregateMeanwhile, Crash, vars, unread, cursors, history, window
  <2> QED BY <1>0, <2>1, SavedStays
<1>2. ASSUME NEW w \in Windows, Request(w) PROVE SavedPassed'
  <2>1. foreign' = (finished["scheduled"] # None) /\ finished' = finished
    BY <1>2 DEF Request
  <2>2. CASE finished["scheduled"] # None BY <1>0, <2>1, <2>2, SavedStays
  <2>3. CASE finished["scheduled"] = None
    <3>1. AllBefore(finished'["scheduled"], InWindow(metadata'), Good')
      BY <2>1, <2>3, NothingBefore
    <3> QED BY <3>1 DEF SavedPassed, InWindow
  <2> QED BY <2>2, <2>3
<1>3. CASE Cancel
  <2>1. metadata' = None BY <1>3 DEF Cancel, Clear
  <2> QED BY <1>0, <2>1, SavedStays
<1>4. CASE Start
  <2>1. /\ UNCHANGED <<metadata, finished, foreign>>
        /\ "scheduled" \in jumped => "scheduled" \in jumped'
    BY <1>4 DEF Start, Restore
  <2> QED BY <1>0, <2>1, SavedStays
<1>5. CASE Skip
  <2>1. /\ UNCHANGED <<finished, foreign, jumped>>
        /\ metadata' = None \/ metadata' = metadata
    BY <1>5 DEF Skip, Clear, history
  <2> QED BY <1>0, <2>1, SavedStays
<1>6. CASE EndFetch
  <2>1. PICK next \in Time \cup {None} :
    /\ fetch # None /\ fetch.left = <<>> /\ ~fetch.error /\ turn \in Jobs
    /\ fetch.count > 0 =>
         /\ last[turn] # None /\ IsTime(last[turn])
         /\ next = last[turn]
              \/ (fetch.count < fetch.max /\ next = last[turn] + Second)
    /\ \/ turn = "scheduled" /\ schedule' = None /\ metadata' = None
       \/ /\ metadata' = metadata
          /\ turn = "scheduled" => fetch.count > 0 /\ ~Canceled /\ schedule' # None
    /\ \/ finished' = finished /\ foreign' = foreign
       \/ /\ foreign' = (foreign /\ turn # "scheduled")
          /\ \E s \in {last[turn], next} :
               /\ finished' = [finished EXCEPT ![turn] = s]
               /\ turn = "scheduled" /\ schedule' # None => s = next
    /\ jumped' = Jumped
    BY <1>0, <1>6, FetchEnds
  <2>2. jumped \subseteq jumped' BY <2>1, JumpedGrows
  <2>3. CASE metadata' = None BY <1>0, <2>3, SavedStays
  <2>4. CASE metadata' = metadata /\ finished' = finished /\ foreign' = foreign
    BY <1>0, <2>2, <2>4, SavedStays
  <2>5. CASE metadata' = metadata /\ turn # "scheduled"
    <3>1. finished'["scheduled"] = finished["scheduled"] BY <1>0, <2>1, <2>5
    <3>2. foreign' = foreign
      <4>1. CASE foreign BY <2>1, <2>5, <4>1
      <4>2. CASE ~foreign BY <1>0, <2>1, <2>5, <4>2
      <4> QED BY <4>1, <4>2
    <3> QED BY <1>0, <2>2, <2>5, <3>1, <3>2, SavedStays
  <2>6. CASE /\ metadata' = metadata /\ metadata # None /\ turn = "scheduled"
             /\ fetch.count > 0 /\ ~Canceled /\ finished' = [finished EXCEPT ![turn] = next]
    <3>1. schedule # None /\ schedule.of = metadata /\ AtWork("scheduled")
      BY <1>0, <2>1, <2>6 DEF Types, Working, Requested, AtWork
    <3>2. finished'["scheduled"] = next BY <1>0, <2>6
    <3> DEFINE S == InWindow(schedule.of)
    <3> SUFFICES ASSUME "scheduled" \notin jumped'
                 PROVE  AllBefore(next, S, Good')
      BY <2>6, <3>1, <3>2 DEF SavedPassed, InWindow
    <3>3. AllBefore(fetch.begin, S, Good)
      BY <1>0, <2>2, <2>6, <3>1 DEF WindowPassed, Where
    <3>4. turn \notin Jumped /\ ~Cut BY <2>1, <2>6 DEF Cut
    <3>5. S \in SUBSET Events BY InWindowIs
    <3> HIDE DEF S
    <3>6. AllBefore(next, S, Good)
      BY <1>0, <2>1, <2>6, <3>3, <3>4, <3>5, BeforeNext
    <3> QED BY <1>0, <3>6, AllBeforeOn
  <2>7. \/ metadata' = None
        \/ metadata' = metadata /\ finished' = finished /\ foreign' = foreign
        \/ metadata' = metadata /\ turn # "scheduled"
        \/ /\ metadata' = metadata /\ metadata # None /\ turn = "scheduled"
           /\ fetch.count > 0 /\ ~Canceled /\ finished' = [finished EXCEPT ![turn] = next]
    BY <2>1
  <2> QED BY <2>3, <2>4, <2>5, <2>6, <2>7
<1>7. CASE FetchThrows
  <2>1. /\ UNCHANGED <<metadata, finished, foreign>> /\ jumped' = Jumped
    BY <1>0, <1>7, Throws
  <2>2. jumped \subseteq jumped' BY <2>1, JumpedGrows
  <2> QED BY <1>0, <2>1, <2>2, SavedStays
<1> QED BY <1>1, <1>2, <1>3, <1>4, <1>5, <1>6, <1>7 DEF Next, Work

LEMMA ReadingStep ==
  ASSUME Passing, [Next]_vars
  PROVE  Reading'
<1>0. /\ Types /\ Reading /\ Good \subseteq Good'
      /\ "scheduled" \in Jobs /\ "missing" \in Jobs
      /\ last \in [Jobs -> Time \cup {None}]
  BY GoodGrows DEF Passing, Types, Cursors, Jobs
<1> DEFINE G == Good
           G2 == Good'
           E == Events
<1> SUFFICES ASSUME turn' \in {"missing", "scheduled"}, fetch' # None
             PROVE  Reads(fetch', last'[turn'], Cut', config'.fallback, E, G2)
  BY DEF Reading
<1>E. E \in SUBSET Events OBVIOUS
<1>G. G \cap E \subseteq G2 BY <1>0
<1>1. ASSUME fetch # None, fetch' = fetch, turn' = turn, config' = config,
             last'[turn] = last[turn], Cut => Cut'
      PROVE  Reads(fetch', last'[turn'], Cut', config'.fallback, E, G2)
  <2> DEFINE c == Cut
             c2 == Cut'
  <2>1. Reads(fetch, last[turn], c, config.fallback, E, G) BY <1>0, <1>1 DEF Reading
  <2> HIDE DEF G, G2, E
  <2>2. last'[turn'] = last[turn] BY <1>1
  <2>3. (c => c2) /\ E \subseteq E BY <1>1
  <2> HIDE DEF c, c2
  <2>4. Reads(fetch', last'[turn'], c2, config'.fallback, E, G2)
    BY <1>1, <1>G, <2>1, <2>2, <2>3, ReadingOn
  <2> QED BY <2>4 DEF c2
<1>2. CASE (\E e \in Events : Show(e)) \/ Tick \/ UNCHANGED vars
  <2>1. UNCHANGED <<last, schedule, turn, fetch, config>>
    BY <1>2 DEF Show, Tick, vars, cursors, flow, window
  <2>2. Cut => Cut' BY <2>1 DEF Cut, Canceled
  <2> QED BY <1>1, <2>1, <2>2
<1>3. ASSUME NEW w \in Windows, Request(w)
      PROVE  Reads(fetch', last'[turn'], Cut', config'.fallback, E, G2)
  <2>1. /\ last' = [last EXCEPT !["scheduled"] = None] /\ ~Running
        /\ UNCHANGED <<turn, fetch, config>>
    BY <1>3 DEF Request, flow
  <2>2. turn = "missing" BY <1>0, <2>1 DEF Types, Working
  <2>3. last'[turn] = last[turn] BY <1>0, <2>1, <2>2
  <2>4. Cut => Cut' BY <2>2 DEF Cut
  <2> QED BY <1>1, <2>1, <2>3, <2>4
<1>4. CASE Cancel
  <2>1. /\ schedule # None /\ UNCHANGED <<turn, fetch, config>>
        /\ last' = last \/ last' = [last EXCEPT !["scheduled"] = None]
    BY <1>4 DEF Cancel, Clear, flow
  <2>2. CASE turn = "scheduled"
    <3>1. Running BY <1>0, <2>1, <2>2 DEF Types, Working
    <3>2. schedule' = [schedule EXCEPT !.canceled = TRUE] /\ last' = last
      BY <1>4, <3>1 DEF Cancel
    <3>3. schedule \in Schedules BY <1>0, <2>1, NowOn
    <3>4. schedule' # None /\ schedule'.canceled = TRUE BY <3>2, <3>3, Rerun
    <3>5. Cut' BY <2>1, <2>2, <3>4 DEF Cut, Canceled
    <3> QED BY <1>1, <2>1, <3>2, <3>5
  <2>3. CASE turn = "missing"
    <3>1. last'[turn] = last[turn] BY <1>0, <2>1, <2>3
    <3>2. Cut => Cut' BY <2>3 DEF Cut
    <3> QED BY <1>1, <2>1, <3>1, <3>2
  <2> QED BY <2>1, <2>2, <2>3
<1>5. CASE Start \/ Skip \/ EndFetch \/ FetchThrows \/ Crash
  <2>1. fetch' = None
    BY <1>0, <1>5 DEF Start, Types, Pages, Skip, EndFetch, NextTurn, FetchThrows, Crash
  <2> QED BY <2>1
<1>6. CASE FetchEvents
  <2> HIDE DEF E, G2
  <2> QED BY <1>0, <1>6, <1>E, ReadingBegins
<1>7. ASSUME turn \in {"missing", "scheduled"}, fetch # None
      PROVE  /\ Reads(fetch, last[turn], Cut, config.fallback, E, G)
             /\ \A e \in E : e \in Asked(turn) /\ (Within(fetch, e) => e \in shown)
  BY <1>0, <1>7, AwaitsAll DEF Reading
<1>8. CASE ReadPage
  <2>1. fetch # None /\ turn' = turn /\ schedule' = schedule
    BY <1>8 DEF ReadPage, unread
  <2>3. Cut' = Cut BY <2>1 DEF Cut, Canceled
  <2>4. lost' = lost /\ pending' = {} BY <1>8 DEF ReadPage
  <2>5. \A P \in SUBSET Available :
          PageOf(P) => E \subseteq E \cup P /\ P \cap E \subseteq G2
    BY DEF Good, PageOf
  <2> DEFINE c == Cut
  <2>6. Reads(fetch, last[turn], c, config.fallback, E, G) /\ c = Cut BY <1>7, <2>1
  <2>8. Types /\ \A e \in E : e \in Asked(turn) /\ (Within(fetch, e) => e \in shown)
    BY <1>0, <1>7, <2>1
  <2> HIDE DEF E, G, G2, c
  <2>7. Reads(fetch', last'[turn'], c, config'.fallback, E, G2)
    BY <1>8, <1>E, <1>G, <2>5, <2>6, <2>8, ReadingPage
  <2> QED BY <2>3, <2>6, <2>7
<1>9. CASE PageFails
  <2>1. fetch # None /\ turn' = turn /\ schedule' = schedule
    BY <1>9 DEF PageFails, unread
  <2>3. Cut' = Cut BY <2>1 DEF Cut, Canceled
  <2>4. lost' = lost BY <1>9 DEF PageFails
  <2>5. \A Q \in SUBSET Available :
          CutAt(Q) => E \subseteq E \cup Q /\ Q \cap E \subseteq G2
    BY DEF Good, CutAt
  <2> DEFINE c == Cut
  <2>6. Reads(fetch, last[turn], c, config.fallback, E, G) /\ c = Cut BY <1>7, <2>1
  <2>8. Types /\ \A e \in E : e \in Asked(turn) /\ (Within(fetch, e) => e \in shown)
    BY <1>0, <1>7, <2>1
  <2> HIDE DEF E, G, G2, c
  <2>7. Reads(fetch', last'[turn'], c, config'.fallback, E, G2)
    BY <1>9, <1>E, <1>G, <2>5, <2>6, <2>8, ReadingCut
  <2> QED BY <2>3, <2>6, <2>7
<1>10. CASE DomainDone
  <2>1. /\ fetch # None /\ UNCHANGED <<turn, schedule, stored, pending, lost>>
    BY <1>0, <1>10, FetchOn
  <2>2. Cut' = Cut /\ G2 = G BY <2>1 DEF Cut, Canceled, Good
  <2> DEFINE c == Cut
  <2>3. Reads(fetch, last[turn], c, config.fallback, E, G) /\ c = Cut BY <1>7, <2>1
  <2> HIDE DEF E, G, G2, c
  <2>4. Reads(fetch', last'[turn'], c, config'.fallback, E, G)
    BY <1>0, <1>7, <1>10, <1>E, <2>1, <2>3, ReadingDomain
  <2> QED BY <2>2, <2>3, <2>4
<1>11. CASE AggregateMeanwhile
  <2>1. /\ fetch # None /\ fetch'.begin = fetch.begin /\ fetch'.end = fetch.end
        /\ fetch'.error = fetch.error /\ fetch'.short = fetch.short
        /\ fetch'.got = fetch.got /\ fetch'.left = fetch.left
        /\ UNCHANGED <<last, turn, schedule, config>>
    BY <1>0, <1>11, FetchOn
  <2>2. Cut' = Cut BY <2>1 DEF Cut, Canceled
  <2> DEFINE c == Cut
  <2>3. Reads(fetch, last[turn], c, config.fallback, E, G) /\ c = Cut BY <1>7, <2>1
  <2> HIDE DEF E, G, G2, c
  <2>4. Reads(fetch', last'[turn'], c, config'.fallback, E, G2)
    BY <1>G, <2>1, <2>3, ReadingOn
  <2> QED BY <2>2, <2>3, <2>4
<1> QED BY <1>2, <1>3, <1>4, <1>5, <1>6, <1>8, <1>9, <1>10, <1>11 DEF Next, Work

LEMMA PassingInit == Init => Passing
<1> SUFFICES ASSUME Init PROVE Passing OBVIOUS
<1>1. Types BY TypesInit
<1>2. /\ finished["missing"] = None /\ started["missing"] = 0 /\ last["missing"] = None
      /\ fetch = None /\ schedule = None /\ metadata = None
  BY DEF Init, Jobs
<1>3. Where("missing") = None BY <1>2 DEF Where, AtWork
<1>4. AllBefore(0, Events, Good)
  <2>1. \A e \in Events : ~(At[e] < 0) BY Numbers
  <2> QED BY <2>1 DEF AllBefore
<1>5. MissingPassed BY <1>2, <1>3, <1>4, NothingBefore DEF MissingPassed
<1> QED BY <1>1, <1>2, <1>5 DEF Passing, WindowPassed, SavedPassed, Reading

LEMMA PassingStep == Passing /\ [Next]_vars => Passing'
  BY TypesStep, MissingStep, WindowStep, SavedStep, ReadingStep DEF Passing

THEOREM Passing_inductive == Spec => []Passing
<1> QED BY PassingInit, PassingStep, PTL DEF Spec

\* fetchMissing and fetchScheduled pass no event that Ghost has not recorded
\* (or lost with its memory), but for the extra second and for a fetch of
\* several domains that ends early: whatever fails, however often Ghost stops,
\* is asked for a window or cancels one.
THEOREM NothingIsPassedUnlessJumped_holds == Spec => []NothingIsPassedUnlessJumped
<1> QED BY Passing_inductive, PassingSuffices, PTL

-----------------------------------------------------------------------------
\* The statistics.  An event that is recorded but not counted is at or after
\* every cursor of the job that counts it; what a fetch has read of the events
\* that its job counts is counted or is to be.
Counters == {"opened", "missing"}
NotPast(t, e) == t = None \/ t <= At[e]
Ours(j) == {e \in stored \ late : Counter(e) = j}

NothingWaits == failed \/ (pending = {} /\ lost = {})

Uncounted ==
    ~failed =>
        \A e \in stored \ (late \cup counted) :
            /\ Counter(e) \notin jumped
            /\ Counter(e) = "missing" => ~Shadowed(e)
            => /\ NotPast(finished[Counter(e)], e)
               /\ NotPast(started[Counter(e)], e)
               /\ NotPast(Where(Counter(e)), e)

Tallying ==
    ~failed /\ turn \in Counters /\ fetch # None =>
        Reads(fetch, last[turn], FALSE, config.fallback, Ours(turn),
              fetch.seen \cup counted)

\* The job for opens asks up to a minute ago, and did when it found them.
OpensAreOver ==
    ~failed =>
        \A e \in Ours("opened") :
            At[e] + Margin <= now /\ (AtWork("opened") => At[e] <= fetch.end)

Tally == Passing /\ NothingWaits /\ Uncounted /\ Tallying /\ OpensAreOver

LEMMA CounterIs ==
  /\ Counters \subseteq Jobs /\ "scheduled" \notin Counters
  /\ \A e : Counter(e) \in Counters
  /\ \A e : Kind[e] = "opened" <=> Counter(e) = "opened"
  BY DEF Counters, Counter, Jobs

LEMMA TallySuffices == Tally => StatsAgreeUnlessFailed
<1> SUFFICES ASSUME Tally, ~failed, NEW e \in stored \ late,
                    SavedPast(e, Counter(e)), Counter(e) \notin jumped,
                    Counter(e) = "missing" => ~Shadowed(e), e \notin counted
             PROVE  FALSE
  BY DEF StatsAgreeUnlessFailed
<1>1. NotPast(finished[Counter(e)], e) BY DEF Tally, Uncounted
<1>2. e \in Events /\ At[e] \in Nat
  BY Numbers DEF Tally, Passing, Types, Data
<1>3. finished[Counter(e)] \in Nat \cup {None}
  BY CounterIs DEF Tally, Passing, Types, Cursors, Time
<1> QED BY <1>1, <1>2, <1>3 DEF NotPast, SavedPast

LEMMA FailedStays ==
  ASSUME Types, [Next]_vars
  PROVE  ~failed' => ~failed
<1>1. CASE PageFails
  <2>1. \E Q : failed' = (failed \/ Buffered(Q) # {}) BY <1>1, PageIsCut
  <2> QED BY <2>1
<1>2. CASE FetchThrows
  <2>1. failed' = failed \/ failed' = TRUE BY <1>2, Throws
  <2> QED BY <2>1
<1>3. CASE ~PageFails /\ ~FetchThrows
  <2>1. failed' = failed
    BY <1>3 DEF Next, Work, Show, Tick, Request, Cancel, Start, Skip, FetchEvents,
                ReadPage, DomainDone, EndFetch, AggregateMeanwhile, Crash, vars, history
  <2> QED BY <2>1
<1> QED BY <1>1, <1>2, <1>3

\* A page, whole or cut, as long as nothing has failed that is not counted.
LEMMA PageTallied ==
  ASSUME Types, NothingWaits, ReadPage \/ PageFails, ~failed'
  PROVE  \E Q \in SUBSET Available :
    /\ ~failed /\ pending = {} /\ lost = {} /\ pending' = {} /\ lost' = {}
    /\ stored' = stored \cup Q
    /\ late \subseteq late' /\ late' \subseteq late \cup Q
    /\ \A e \in Q \ stored : Kind[e] = "opened" /\ turn # "opened" => e \in late'
    /\ last' = IF Q = {} THEN last ELSE [last EXCEPT ![turn] = Follow(Q)]
    /\ fetch # None /\ fetch' # None
    /\ fetch'.begin = fetch.begin /\ fetch'.end = fetch.end
    /\ UNCHANGED <<unread, jumped>>
<1>1. CASE ReadPage
  <2>1. PICK P \in SUBSET Available :
    /\ P # {} /\ last' = [last EXCEPT ![turn] = Follow(P)]
    /\ late' = IF turn = "opened" THEN late
               ELSE late \cup {e \in P \ (stored \cup pending) : Kind[e] = "opened"}
    /\ stored' = stored \cup pending \cup P /\ pending' = {}
    /\ fetch' # None /\ fetch # None
    /\ fetch'.begin = fetch.begin /\ fetch'.end = fetch.end
    /\ UNCHANGED <<unread, jumped, failed, lost>>
    BY <1>1, PageIsRead
  <2>2. ~failed /\ pending = {} /\ lost = {} /\ lost' = {} BY <2>1 DEF NothingWaits
  <2>3. stored' = stored \cup P BY <2>1, <2>2
  <2>4. /\ late \subseteq late' /\ late' \subseteq late \cup P
        /\ \A e \in P \ stored : Kind[e] = "opened" /\ turn # "opened" => e \in late'
    BY <2>1, <2>2
  <2>5. last' = IF P = {} THEN last ELSE [last EXCEPT ![turn] = Follow(P)] BY <2>1
  <2> QED BY <2>1, <2>2, <2>3, <2>4, <2>5
<1>2. CASE PageFails
  <2>1. PICK Q \in SUBSET Available :
    /\ last' = IF Q = {} THEN last ELSE [last EXCEPT ![turn] = Follow(Q)]
    /\ late' = IF turn = "opened" THEN late
               ELSE late \cup {e \in Q \ (stored \cup pending) : Kind[e] = "opened"}
    /\ stored' \cup pending' = stored \cup pending \cup Q
    /\ pending' = pending \cup Buffered(Q)
    /\ fetch' # None /\ fetch # None
    /\ fetch'.begin = fetch.begin /\ fetch'.end = fetch.end
    /\ failed' = (failed \/ Buffered(Q) # {})
    /\ UNCHANGED <<unread, jumped, lost>>
    BY <1>2, PageIsCut
  <2>2. /\ ~failed /\ pending = {} /\ lost = {} /\ lost' = {}
        /\ Buffered(Q) = {} /\ pending' = {}
    BY <2>1 DEF NothingWaits
  <2>3. stored' = stored \cup Q BY <2>1, <2>2
  <2>4. /\ late \subseteq late' /\ late' \subseteq late \cup Q
        /\ \A e \in Q \ stored : Kind[e] = "opened" /\ turn # "opened" => e \in late'
    BY <2>1, <2>2
  <2> QED BY <2>1, <2>2, <2>3, <2>4
<1> QED BY <1>1, <1>2

LEMMA NothingWaitsStep ==
  ASSUME Types, NothingWaits, [Next]_vars
  PROVE  NothingWaits'
<1> SUFFICES ASSUME ~failed' PROVE pending' = {} /\ lost' = {}
  BY DEF NothingWaits
<1>1. ~failed /\ pending = {} /\ lost = {} BY FailedStays DEF NothingWaits
<1>2. CASE ReadPage \/ PageFails BY <1>2, PageTallied
<1>3. CASE Crash BY <1>1, <1>3 DEF Crash
<1>4. CASE EndFetch \/ FetchThrows
  <2>1. UNCHANGED fetched BY <1>4 DEF EndFetch, FetchThrows
  <2> QED BY <1>1, <2>1 DEF fetched
<1>5. CASE (\E e \in Events : Show(e)) \/ Tick \/ (\E w \in Windows : Request(w))
           \/ Cancel \/ Start \/ Skip \/ FetchEvents \/ DomainDone
           \/ AggregateMeanwhile \/ UNCHANGED vars
  <2>1. UNCHANGED <<pending, lost>>
    BY <1>5 DEF Show, Tick, Request, Cancel, Start, Skip, FetchEvents, DomainDone,
                AggregateMeanwhile, vars, history
  <2> QED BY <1>1, <2>1
<1> QED BY <1>2, <1>3, <1>4, <1>5 DEF Next, Work

\* No open is recorded by the job for opens that is not over.
LEMMA OpensAreOverStep ==
  ASSUME Tally, [Next]_vars
  PROVE  OpensAreOver'
<1>0. Types /\ NothingWaits /\ now \in Nat /\ OpensAreOver
  BY NowOn DEF Tally, Passing
<1> SUFFICES ASSUME ~failed', NEW e \in stored' \ late', Counter(e) = "opened"
             PROVE  At[e] + Margin <= now' /\ (AtWork("opened")' => At[e] <= fetch'.end)
  BY DEF OpensAreOver, Ours, Counter
<1>1. ~failed BY <1>0, FailedStays
<1>2. e \in stored \ late =>
        At[e] + Margin <= now /\ (AtWork("opened") => At[e] <= fetch.end)
  BY <1>0, <1>1 DEF OpensAreOver, Ours
<1>3. stored \subseteq Events BY <1>0 DEF Types, Data
<1>4. CASE Tick
  <2>1. now' = now + 1 /\ UNCHANGED <<stored, late, turn, fetch>>
    BY <1>4 DEF Tick, tables, history, flow
  <2>2. At[e] \in Nat BY <1>3, <2>1, Numbers
  <2> QED BY <1>0, <1>2, <2>1, <2>2, Numbers DEF AtWork
<1>5. CASE (\E f \in Events : Show(f)) \/ (\E w \in Windows : Request(w))
           \/ Cancel \/ UNCHANGED vars
  <2>1. UNCHANGED <<now, stored, late, turn, fetch>>
    BY <1>5 DEF Show, Request, Cancel, vars, atMailgun, tables, history, flow
  <2> QED BY <1>2, <2>1 DEF AtWork
<1>6. CASE Start \/ Skip \/ EndFetch \/ FetchThrows \/ Crash
  <2>1. fetch' = None
    BY <1>0, <1>6 DEF Start, Types, Pages, Skip, EndFetch, NextTurn, FetchThrows, Crash
  <2>2. now' = now /\ stored' \ late' \subseteq stored \ late
    BY <1>6 DEF Start, Skip, EndFetch, FetchThrows, Crash, atMailgun, tables, history,
                fetched
  <2> QED BY <1>2, <2>1, <2>2 DEF AtWork
<1>7. CASE FetchEvents
  <2>1. /\ turn = "opened" => fetch'.end = now - Margin
        /\ UNCHANGED <<now, stored, late, turn>>
    BY <1>0, <1>7, FetchBegins DEF atMailgun, tables, history
  <2>2. At[e] \in Nat BY <1>3, <2>1, Numbers
  <2> QED BY <1>0, <1>2, <2>1, <2>2, Numbers DEF AtWork
<1>8. CASE DomainDone \/ AggregateMeanwhile
  <2>1. /\ fetch # None /\ fetch'.end = fetch.end
        /\ UNCHANGED <<now, stored, late, turn>>
    BY <1>0, <1>8, FetchOn
  <2> QED BY <1>2, <2>1 DEF AtWork
<1>9. CASE ReadPage \/ PageFails
  <2>1. PICK Q \in SUBSET Available :
    /\ stored' = stored \cup Q /\ late \subseteq late'
    /\ \A f \in Q \ stored : Kind[f] = "opened" /\ turn # "opened" => f \in late'
    /\ fetch # None /\ fetch'.end = fetch.end /\ UNCHANGED unread
    BY <1>0, <1>9, PageTallied
  <2>2. now' = now /\ turn' = turn BY <2>1 DEF unread, atMailgun
  <2>3. CASE e \in stored BY <1>2, <2>1, <2>2, <2>3 DEF AtWork
  <2>4. CASE e \notin stored
    <3>1. e \in Q /\ e \in Available BY <2>1, <2>4
    <3>2. turn = "opened" BY <2>1, <2>4, <3>1, CounterIs
    <3>3. e \in Events /\ At[e] <= fetch.end /\ At[e] \in Nat
      BY <1>0, <2>1, <3>1, AvailableIs, Numbers
    <3>4. fetch.end + Margin <= now /\ fetch.end \in Nat
      BY <1>0, <2>1, NowOn, FetchFields DEF Types, Pages
    <3> QED BY <1>0, <2>1, <2>2, <3>3, <3>4, Numbers
  <2> QED BY <2>3, <2>4
<1> QED BY <1>4, <1>5, <1>6, <1>7, <1>8, <1>9 DEF Next, Work

LEMMA CountedGrows ==
  ASSUME Types, [Next]_vars
  PROVE  counted \subseteq counted'
<1>1. CASE EndFetch \/ FetchThrows \/ AggregateMeanwhile
  <2>1. Aggregate(fetch.seen) \/ counted' = counted
    BY <1>1 DEF EndFetch, FetchThrows, AggregateMeanwhile
  <2> QED BY <2>1 DEF Aggregate
<1>2. CASE ~EndFetch /\ ~FetchThrows /\ ~AggregateMeanwhile
  <2>1. counted' = counted
    BY <1>2 DEF Next, Work, Show, Tick, Request, Cancel, Start, Skip, FetchEvents,
                ReadPage, PageFails, DomainDone, Crash, vars, tables, unread
  <2> QED BY <2>1
<1> QED BY <1>1, <1>2

\* Counting the emails of what was seen counts what its job counts of it.
LEMMA SeenIsCounted ==
  ASSUME Aggregate(fetch.seen)
  PROVE  (fetch.seen \cup counted) \cap Ours(turn) \subseteq counted'
<1> SUFFICES ASSUME NEW e \in Ours(turn), e \in fetch.seen PROVE e \in counted'
  BY DEF Aggregate
<1>1. e \in stored /\ Counter(e) = turn BY DEF Ours
<1>2. Kind[e] = "opened" => turn = "opened" BY <1>1 DEF Counter
<1> QED BY <1>1, <1>2 DEF Aggregate, OpensToo

LEMMA OursAre ==
  ASSUME Types, turn \in Counters
  PROVE  /\ Ours(turn) \in SUBSET Events
         /\ \A e \in Ours(turn) : e \in Asked(turn) /\ (Within(fetch, e) => e \in shown)
<1>1. stored \subseteq shown /\ shown \subseteq Events BY DEF Types, Data
<1>2. \A e \in Ours(turn) : e \in stored /\ Counter(e) = turn BY DEF Ours
<1>3. ASSUME NEW e \in Ours(turn) PROVE e \in Asked(turn)
  <2>1. CASE turn = "opened" BY <1>1, <1>2, <2>1, CounterIs DEF Asked
  <2>2. CASE turn = "missing" BY <1>1, <1>2, <2>2 DEF Asked
  <2> QED BY <2>1, <2>2 DEF Counters
<1> QED BY <1>1, <1>2, <1>3

LEMMA TallyingStep ==
  ASSUME Tally, [Next]_vars
  PROVE  Tallying'
<1>0. /\ Types /\ NothingWaits /\ Tallying
      /\ "scheduled" \in Jobs /\ Counters \subseteq Jobs /\ "scheduled" \notin Counters
      /\ last \in [Jobs -> Time \cup {None}]
  BY CounterIs DEF Tally, Passing, Types, Cursors, Jobs
<1> DEFINE j == turn
           S == Ours(turn)
           S2 == Ours(turn)'
           D == fetch.seen \cup counted
           D2 == fetch'.seen \cup counted'
<1> SUFFICES ASSUME ~failed', turn' \in Counters, fetch' # None
             PROVE  Reads(fetch', last'[turn'], FALSE, config'.fallback, S2, D2)
  BY DEF Tallying
<1>1. ~failed BY <1>0, FailedStays
<1>2. fetch # None /\ turn' = turn =>
        /\ Reads(fetch, last[turn], FALSE, config.fallback, S, D)
        /\ S \in SUBSET Events
        /\ \A e \in S : e \in Asked(turn) /\ (Within(fetch, e) => e \in shown)
  BY <1>0, <1>1, OursAre DEF Tallying
<1>3. ASSUME fetch # None, fetch' = fetch, turn' = turn, config' = config,
             last'[turn] = last[turn], S2 = S, D2 = D
      PROVE  Reads(fetch', last'[turn'], FALSE, config'.fallback, S2, D2)
  <2>1. Reads(fetch, last[turn], FALSE, config.fallback, S, D) BY <1>2, <1>3
  <2>2. last'[turn'] = last[turn] /\ S2 \subseteq S /\ D \cap S2 \subseteq D2
    BY <1>3
  <2> HIDE DEF S, S2, D, D2
  <2> QED BY <1>3, <2>1, <2>2, ReadingOn
<1>4. CASE (\E e \in Events : Show(e)) \/ Tick \/ (\E w \in Windows : Request(w))
           \/ Cancel \/ UNCHANGED vars
  <2>1. /\ UNCHANGED <<turn, fetch, config, stored, late, counted>>
        /\ last' = last \/ last' = [last EXCEPT !["scheduled"] = None]
    BY <1>4 DEF Show, Tick, Request, Cancel, Clear, vars, cursors, flow, tables, history
  <2>2. last'[turn] = last[turn] BY <1>0, <2>1
  <2>3. S2 = S /\ D2 = D BY <2>1 DEF Ours, Counter
  <2> HIDE DEF S, S2, D, D2
  <2> QED BY <1>3, <2>1, <2>2, <2>3
<1>5. CASE Start \/ Skip \/ EndFetch \/ FetchThrows \/ Crash
  <2>1. fetch' = None
    BY <1>0, <1>5 DEF Start, Types, Pages, Skip, EndFetch, NextTurn, FetchThrows, Crash
  <2> QED BY <2>1
<1>6. CASE FetchEvents
  <2>1. stored' \subseteq Events
    <3>1. UNCHANGED stored BY <1>6 DEF FetchEvents, tables
    <3> QED BY <1>0, <3>1 DEF Types, Data
  <2>2. S2 \in SUBSET Events BY <2>1 DEF Ours
  <2> HIDE DEF S2, D2
  <2> QED BY <1>0, <1>6, <2>2, ReadingBegins
<1>7. CASE ReadPage \/ PageFails
  <2>1. PICK R \in SUBSET Available :
    /\ pending = {} /\ stored' = stored \cup R /\ late \subseteq late'
    /\ fetch # None /\ UNCHANGED unread
    BY <1>0, <1>7, PageTallied
  <2>2. turn' = turn /\ counted' = counted /\ turn \in Counters BY <2>1 DEF unread
  <2>3. /\ Reads(fetch, last[turn], FALSE, config.fallback, S, D)
        /\ S \in SUBSET Events
        /\ \A e \in S : e \in Asked(turn) /\ (Within(fetch, e) => e \in shown)
    BY <1>2, <2>1, <2>2
  <2>4. FALSE = Cut BY <1>0, <2>2 DEF Cut
  <2>5. S2 = {e \in stored' \ late' : Counter(e) = turn} BY <2>2 DEF Ours, Counter
  <2>6. ASSUME NEW Q, fetch'.seen = fetch.seen \cup Q, stored' \subseteq stored \cup Q
        PROVE  S2 \subseteq S \cup Q /\ Q \cap S2 \subseteq D2 /\ D \cap S2 \subseteq D2
    BY <2>1, <2>2, <2>5, <2>6 DEF Ours
  <2>7. D \cap S2 \subseteq D2
    <3>1. fetch.seen \subseteq fetch'.seen
      <4>1. CASE ReadPage
        <5>1. \E P : fetch'.seen = fetch.seen \cup P BY <1>0, <4>1, PageIsRead
        <5> QED BY <5>1
      <4>2. CASE PageFails
        <5>1. \E P : fetch'.seen = fetch.seen \cup P BY <1>0, <4>2, PageIsCut
        <5> QED BY <5>1
      <4> QED BY <1>7, <4>1, <4>2
    <3> QED BY <2>2, <3>1
  <2>8. CASE ReadPage
    <3>1. \A P \in SUBSET Available :
             PageOf(P) => S2 \subseteq S \cup P /\ P \cap S2 \subseteq D2
      BY <2>1, <2>6 DEF PageOf
    <3> HIDE DEF S, S2, D, D2
    <3> QED BY <1>0, <2>3, <2>4, <2>7, <2>8, <3>1, ReadingPage
  <2>9. CASE PageFails
    <3>1. \A Q \in SUBSET Available :
             CutAt(Q) => S2 \subseteq S \cup Q /\ Q \cap S2 \subseteq D2
      BY <2>1, <2>6 DEF CutAt
    <3> HIDE DEF S, S2, D, D2
    <3> QED BY <1>0, <2>3, <2>4, <2>7, <2>9, <3>1, ReadingCut
  <2> QED BY <1>7, <2>8, <2>9
<1>8. CASE DomainDone
  <2>1. /\ fetch # None /\ fetch'.seen = fetch.seen
        /\ UNCHANGED <<turn, stored, late, counted>>
    BY <1>0, <1>8, FetchOn
  <2>2. S2 = S /\ D2 = D BY <2>1 DEF Ours, Counter
  <2>3. /\ Reads(fetch, last[turn], FALSE, config.fallback, S, D)
        /\ S \in SUBSET Events
        /\ \A e \in S : e \in Asked(turn) /\ (Within(fetch, e) => e \in shown)
    BY <1>2, <2>1
  <2> HIDE DEF S, S2, D, D2
  <2>4. Reads(fetch', last'[turn'], FALSE, config'.fallback, S, D)
    BY <1>0, <1>8, <2>3, ReadingDomain
  <2> QED BY <2>2, <2>4
<1>9. CASE AggregateMeanwhile
  <2>1. /\ fetch # None /\ fetch'.begin = fetch.begin /\ fetch'.end = fetch.end
        /\ fetch'.error = fetch.error /\ fetch'.short = fetch.short
        /\ fetch'.got = fetch.got /\ fetch'.left = fetch.left
        /\ UNCHANGED <<last, turn, stored, late, config>>
    BY <1>0, <1>9, FetchOn
  <2>2. S2 = S BY <2>1 DEF Ours, Counter
  <2>3. Aggregate(fetch.seen) BY <1>9 DEF AggregateMeanwhile
  <2>4. D \cap S2 \subseteq D2 BY <2>2, <2>3, SeenIsCounted
  <2>5. Reads(fetch, last[turn], FALSE, config.fallback, S, D) BY <1>2, <2>1
  <2> HIDE DEF S, S2, D, D2
  <2> QED BY <2>1, <2>2, <2>4, <2>5, ReadingOn
<1> QED BY <1>4, <1>5, <1>6, <1>7, <1>8, <1>9 DEF Next, Work

LEMMA JumpedStays ==
  ASSUME [Next]_vars, NEW j \in Counters, j \in jumped
  PROVE  j \in jumped'
<1>1. j # "scheduled" BY CounterIs
<1>2. CASE EndFetch \/ FetchThrows
  <2>1. jumped' = Jumped BY <1>2 DEF EndFetch, FetchThrows
  <2> QED BY <2>1, JumpedGrows
<1>3. CASE \E w \in Windows : Request(w)
  <2>1. jumped' = jumped \ {"scheduled"} BY <1>3 DEF Request
  <2> QED BY <1>1, <2>1
<1>4. CASE Start
  <2>1. jumped \subseteq jumped' BY <1>4 DEF Start, Restore
  <2> QED BY <2>1
<1>5. CASE ~EndFetch /\ ~FetchThrows /\ ~Start /\ ~(\E w \in Windows : Request(w))
  <2>1. jumped' = jumped
    BY <1>5 DEF Next, Work, Show, Tick, Cancel, Skip, FetchEvents, ReadPage, PageFails,
                DomainDone, AggregateMeanwhile, Crash, vars, history
  <2> QED BY <2>1
<1> QED BY <1>2, <1>3, <1>4, <1>5

\* At the end of the fetch of its job: what it read is counted, so that an event
\* that is not is at or after the cursor, and where the cursor goes on to.
LEMMA UncountedAtEnd ==
  ASSUME Tally, ~failed, fetch # None, fetch.left = <<>>, Aggregate(fetch.seen),
         NEW e \in stored \ late, e \notin counted', Counter(e) = turn,
         turn \notin Jumped, turn = "missing" => ~Shadowed(e)
  PROVE  /\ NotPast(last[turn], e)
         /\ ~fetch.error /\ last[turn] # None /\ IsTime(last[turn]) =>
              \A next : \/ next = last[turn]
                        \/ fetch.count < fetch.max /\ next = last[turn] + Second
                        => NotPast(next, e)
<1>0. /\ Types /\ Uncounted /\ Tallying /\ OpensAreOver
      /\ turn \in Counters /\ turn \in Jobs /\ fetch \in Fetches
  BY CounterIs, NowOn DEF Tally, Passing
<1> DEFINE S == Ours(turn)
           D == fetch.seen \cup counted
           c == FALSE
           t == last[turn]
<1>1. Reads(fetch, t, c, config.fallback, S, D) /\ ~c BY <1>0 DEF Tallying
<1>2. S \in SUBSET Events /\ e \in S BY <1>0, OursAre DEF Ours
<1>3. e \notin D BY <1>2, SeenIsCounted
<1>4. e \notin counted BY <1>3
<1>5. turn \notin jumped BY JumpedGrows
<1>6. NotPast(Where(turn), e) BY <1>0, <1>4, <1>5 DEF Uncounted
<1>7. Where(turn) = fetch.begin BY DEF Where, AtWork
<1>8. fetch.begin \in Nat /\ fetch.end \in Nat /\ fetch.begin # None
  <2>1. fetch.begin \in Nat /\ fetch.end \in Nat BY <1>0, FetchFields
  <2> QED BY <2>1, Numbers
<1>9. At[e] \in Nat /\ At[e] >= fetch.begin
  <2>1. At[e] \in Nat BY <1>2, Numbers
  <2> QED BY <1>6, <1>7, <1>8, <2>1 DEF NotPast
<1>10. t \in Nat \cup {None} BY <1>0 DEF Types, Cursors, Time
<1> HIDE DEF S, D, c
<1>11. NotPast(t, e)
  <2>1. t # None => ~(At[e] < t) BY <1>0, <1>1, <1>2, <1>3, <1>9, AtEnd
  <2> QED BY <1>9, <1>10, <2>1 DEF NotPast
<1>12. ASSUME ~fetch.error, t # None, IsTime(t),
              NEW next, fetch.count < fetch.max, next = t + Second
       PROVE  NotPast(next, e)
  <2>1. ~(At[e] < next)
    <3>1. CASE turn = "opened"
      <4>1. At[e] <= fetch.end
        <5>1. e \in Ours("opened") /\ AtWork("opened") BY <3>1 DEF Ours, AtWork
        <5> QED BY <1>0, <5>1 DEF OpensAreOver
      <4>2. e \in D BY <1>0, <1>1, <1>2, <1>9, <1>12, <4>1, AtEnd
      <4> QED BY <1>3, <4>2
    <3>2. CASE turn = "missing"
      <4>0. /\ next = last[turn]
                 \/ (fetch.count < fetch.max /\ next = last[turn] + Second)
            /\ last[turn] # None /\ IsTime(last[turn]) /\ ~fetch.error
            /\ Reads(fetch, last[turn], c, config.fallback, S, D) /\ ~c
            /\ Types /\ S \in SUBSET Events
        BY <1>0, <1>1, <1>2, <1>12
      <4>1. \A f \in S : At[f] >= fetch.begin /\ At[f] < next =>
                f \in D \/ Shadowed(f)
        BY <4>0, PastNext
      <4> QED BY <1>2, <1>3, <1>9, <3>2, <4>1
    <3> QED BY <1>0, <3>1, <3>2 DEF Counters
  <2>2. next \in Nat BY <1>10, <1>12, Numbers
  <2> QED BY <1>9, <2>1, <2>2 DEF NotPast
<1> QED BY <1>11, <1>12

\* An event that a page brings in is not behind a cursor of the job that counts it.
LEMMA UncountedPage ==
  ASSUME Tally, ~failed, NEW Q \in SUBSET Available, fetch # None,
         pending = {}, lost = {},
         NEW e \in Q \ stored, Counter(e) \notin jumped,
         Counter(e) = "missing" => ~Shadowed(e),
         Kind[e] = "opened" => turn = "opened"
  PROVE  /\ NotPast(finished[Counter(e)], e)
         /\ NotPast(started[Counter(e)], e)
         /\ NotPast(Where(Counter(e)), e)
<1>0. Types /\ MissingPassed /\ turn \in Jobs /\ fetch \in Fetches
  BY NowOn DEF Tally, Passing
<1>1. e \in Events /\ At[e] \in Nat /\ At[e] >= fetch.begin
  BY <1>0, AvailableIs, Numbers
<1>2. fetch.begin \in Nat /\ fetch.begin \in Time BY <1>0, FetchFields
<1>3. CASE Counter(e) = "opened"
  <2>1. turn = "opened" BY <1>3, CounterIs
  <2>2. Where("opened") = fetch.begin BY <2>1 DEF Where, AtWork
  <2>3. /\ started["opened"] = fetch.begin
        /\ finished["opened"] # None => finished["opened"] <= fetch.begin
    BY <1>0, <2>1 DEF Types, Working
  <2>4. finished["opened"] \in Nat \cup {None}
    BY <1>0, <2>1 DEF Types, Cursors, Time
  <2>5. NotPast(fetch.begin, e) BY <1>1, <1>2 DEF NotPast
  <2>6. NotPast(finished["opened"], e)
    BY <1>1, <1>2, <2>3, <2>4 DEF NotPast
  <2> QED BY <1>3, <2>2, <2>3, <2>5, <2>6
<1>4. CASE Counter(e) = "missing"
  <2>1. e \notin Good /\ ~Shadowed(e) BY <1>4 DEF Good
  <2>2. /\ AllBefore(finished["missing"], Events, Good)
        /\ AllBefore(started["missing"], Events, Good)
        /\ AllBefore(Where("missing"), Events, Good)
    BY <1>0, <1>4 DEF MissingPassed
  <2>3. "missing" \in Jobs BY DEF Jobs
  <2>4. /\ finished["missing"] \in Nat \cup {None}
        /\ started["missing"] \in Nat \cup {None}
        /\ last["missing"] \in Nat \cup {None}
    BY <1>0, <2>3 DEF Types, Cursors, Time
  <2>5. Where("missing") \in Nat \cup {None} BY <1>2, <2>4 DEF Where
  <2>6. ASSUME NEW t \in Nat \cup {None}, AllBefore(t, Events, Good)
        PROVE  NotPast(t, e)
    <3>1. t # None => ~(At[e] < t) BY <1>1, <2>1, <2>6 DEF AllBefore
    <3> QED BY <1>1, <3>1 DEF NotPast
  <2> QED BY <1>4, <2>2, <2>4, <2>5, <2>6
<1> QED BY <1>3, <1>4, CounterIs DEF Counters

LEMMA UncountedStep ==
  ASSUME Tally, [Next]_vars
  PROVE  Uncounted'
<1> SUFFICES ASSUME ~failed', NEW e \in stored' \ (late' \cup counted'),
                    NEW j \in Counters, j = Counter(e), j \notin jumped',
                    j = "missing" => ~Shadowed(e)
             PROVE  /\ NotPast(finished'[j], e)
                    /\ NotPast(started'[j], e)
                    /\ NotPast(Where(j)', e)
  BY CounterIs DEF Uncounted, Counter, NotPast, Shadowed
<1>0. /\ Types /\ NothingWaits /\ Uncounted /\ Tallying
      /\ "scheduled" \in Jobs /\ j \in Jobs /\ j # "scheduled"
      /\ last \in [Jobs -> Time \cup {None}] /\ started \in [Jobs -> Time]
      /\ finished \in [Jobs -> Time \cup {None}]
  BY CounterIs DEF Tally, Passing, Types, Cursors, Jobs
<1>1. ~failed /\ e \notin counted /\ j \notin jumped
  BY <1>0, FailedStays, CountedGrows, JumpedStays
<1>2. e \in stored \ late =>
        /\ NotPast(finished[j], e) /\ NotPast(started[j], e) /\ NotPast(Where(j), e)
  BY <1>0, <1>1 DEF Uncounted
<1>3. NotPast(None, e) BY DEF NotPast
<1>4. CASE (\E f \in Events : Show(f)) \/ Tick \/ (\E w \in Windows : Request(w))
           \/ Cancel \/ UNCHANGED vars
  <2>1. /\ UNCHANGED <<stored, late, finished, started, turn, fetch>>
        /\ last' = last \/ last' = [last EXCEPT !["scheduled"] = None]
    BY <1>4 DEF Show, Tick, Request, Cancel, Clear, vars, tables, cursors, flow, history
  <2>2. last'[j] = last[j] BY <1>0, <2>1
  <2>3. Where(j)' = Where(j) BY <2>1, <2>2 DEF Where, AtWork
  <2> QED BY <1>2, <2>1, <2>3
<1>5. CASE Start \/ Skip
  <2>1. /\ UNCHANGED <<stored, late, finished, started>> /\ fetch = None /\ fetch' = None
        /\ last' = last \/ last' = [last EXCEPT !["scheduled"] = None]
             \/ last' = [last EXCEPT !["scheduled"] = finished["scheduled"]]
    BY <1>0, <1>5 DEF Start, Skip, Restore, Clear, NextTurn, tables, history, Types, Pages
  <2>2. last'[j] = last[j] BY <1>0, <2>1
  <2>3. Where(j)' = Where(j) BY <2>1, <2>2 DEF Where, AtWork
  <2> QED BY <1>2, <2>1, <2>3
<1>6. CASE FetchEvents
  <2>1. /\ fetch = None /\ fetch' # None /\ turn \in Jobs
        /\ turn # "scheduled" => fetch'.begin = Cursor(turn)
        /\ started' = [started EXCEPT ![turn] = fetch'.begin]
        /\ UNCHANGED <<stored, late, last, finished, turn>>
    BY <1>0, <1>6, FetchBegins DEF tables, history
  <2>2. Where(j) = last[j] BY <2>1 DEF Where, AtWork
  <2>3. CASE turn # j
    <3>1. started'[j] = started[j] BY <1>0, <2>1, <2>3
    <3>2. Where(j)' = Where(j) BY <2>1, <2>3 DEF Where, AtWork
    <3> QED BY <1>2, <2>1, <3>1, <3>2
  <2>4. CASE turn = j
    <3>1. started'[j] = fetch'.begin /\ Where(j)' = fetch'.begin
      BY <1>0, <2>1, <2>4 DEF Where, AtWork
    <3>2. fetch'.begin \in {last[j], finished[j], started[j]}
      BY <1>0, <2>1, <2>4 DEF Cursor
    <3> QED BY <1>2, <2>1, <2>2, <3>1, <3>2
  <2> QED BY <2>3, <2>4
<1>7. CASE ReadPage \/ PageFails
  <2>1. PICK Q \in SUBSET Available :
    /\ pending = {} /\ lost = {} /\ stored' = stored \cup Q /\ late \subseteq late'
    /\ \A f \in Q \ stored : Kind[f] = "opened" /\ turn # "opened" => f \in late'
    /\ last' = IF Q = {} THEN last ELSE [last EXCEPT ![turn] = Follow(Q)]
    /\ fetch # None /\ fetch' # None /\ fetch'.begin = fetch.begin
    /\ UNCHANGED unread
    BY <1>0, <1>7, PageTallied
  <2>2. UNCHANGED <<finished, started, turn>> /\ turn \in Jobs
    BY <1>0, <2>1, NowOn DEF unread
  <2>3. turn # j => last'[j] = last[j] BY <1>0, <2>1, <2>2
  <2>4. Where(j)' = Where(j) BY <2>1, <2>2, <2>3 DEF Where, AtWork
  <2>5. /\ NotPast(finished[j], e) /\ NotPast(started[j], e) /\ NotPast(Where(j), e)
    <3>1. CASE e \in stored BY <1>2, <2>1, <3>1
    <3>2. CASE e \notin stored
      <4>1. e \in Q \ stored /\ (Kind[e] = "opened" => turn = "opened")
        BY <2>1, <3>2
      <4> QED BY <1>1, <2>1, <4>1, UncountedPage
    <3> QED BY <3>1, <3>2
  <2> QED BY <2>2, <2>4, <2>5
<1>8. CASE DomainDone \/ AggregateMeanwhile
  <2>1. /\ UNCHANGED <<stored, late, last, finished, started, turn>>
        /\ fetch # None /\ fetch' # None /\ fetch'.begin = fetch.begin
    BY <1>0, <1>8, FetchOn
  <2>2. Where(j)' = Where(j) BY <2>1 DEF Where, AtWork
  <2> QED BY <1>2, <2>1, <2>2
<1>9. CASE EndFetch
  <2>1. PICK next \in Time \cup {None} :
    /\ fetch # None /\ fetch.left = <<>> /\ ~fetch.error /\ turn \in Jobs
    /\ Aggregate(fetch.seen)
    /\ fetch.count > 0 =>
         /\ last[turn] # None /\ IsTime(last[turn])
         /\ next = last[turn]
              \/ (fetch.count < fetch.max /\ next = last[turn] + Second)
    /\ ~(fetch.count > 0) => next = last[turn]
    /\ \/ turn = "scheduled" /\ last' = [last EXCEPT !["scheduled"] = None]
       \/ last' = [last EXCEPT ![turn] = next]
    /\ \/ finished' = finished
       \/ \E s \in {last[turn], next} :
               /\ finished' = [finished EXCEPT ![turn] = s]
               /\ turn # "scheduled" => s = last[turn]
    /\ fetch' = None /\ jumped' = Jumped /\ UNCHANGED fetched
    BY <1>0, <1>9, FetchEnds
  <2>2. UNCHANGED <<stored, late, started>> BY <2>1 DEF fetched
  <2>3. /\ NotPast(finished[j], e) /\ NotPast(started[j], e) /\ NotPast(Where(j), e)
    BY <1>2, <2>2
  <2>4. CASE turn # j
    <3>1. last'[j] = last[j] /\ finished'[j] = finished[j]
      BY <1>0, <2>1, <2>4
    <3>2. Where(j)' = Where(j) BY <2>1, <2>4, <3>1 DEF Where, AtWork
    <3> QED BY <2>2, <2>3, <3>1, <3>2
  <2>5. CASE turn = j
    <3>1. Where(j)' = next BY <1>0, <2>1, <2>5 DEF Where, AtWork
    <3>2. finished'[j] \in {finished[j], last[j]} BY <1>0, <2>1, <2>5
    <3>3. /\ NotPast(last[turn], e)
          /\ ~fetch.error /\ last[turn] # None /\ IsTime(last[turn]) =>
               \A n : \/ n = last[turn]
                      \/ fetch.count < fetch.max /\ n = last[turn] + Second
                      => NotPast(n, e)
      BY <1>1, <2>1, <2>2, <2>5, UncountedAtEnd
    <3>4. NotPast(next, e) BY <2>1, <3>3
    <3> QED BY <2>2, <2>3, <2>5, <3>1, <3>2, <3>3, <3>4
  <2> QED BY <2>4, <2>5
<1>10. CASE FetchThrows
  <2>1. /\ fetch # None /\ fetch.left = <<>> /\ turn \in Jobs
        /\ Aggregate(fetch.seen)
        /\ fetch' = None /\ jumped' = Jumped
        /\ UNCHANGED <<fetched, last, finished>>
    BY <1>0, <1>10, Throws
  <2>2. UNCHANGED <<stored, late, started>> BY <2>1 DEF fetched
  <2>3. /\ NotPast(finished[j], e) /\ NotPast(started[j], e) /\ NotPast(Where(j), e)
    BY <1>2, <2>2
  <2>4. CASE turn # j
    <3>1. Where(j)' = Where(j) BY <2>1, <2>4 DEF Where, AtWork
    <3> QED BY <2>1, <2>2, <2>3, <3>1
  <2>5. CASE turn = j
    <3>1. Where(j)' = last[j] BY <2>1 DEF Where, AtWork
    <3>2. NotPast(last[turn], e) BY <1>1, <2>1, <2>2, <2>5, UncountedAtEnd
    <3> QED BY <2>1, <2>2, <2>3, <2>5, <3>1, <3>2
  <2> QED BY <2>4, <2>5
<1>11. CASE Crash
  <2>1. /\ last'[j] = None /\ fetch' = None /\ stored' = stored /\ late' = late \cap stored
        /\ UNCHANGED <<finished, started>>
    BY <1>0, <1>11 DEF Crash, tables
  <2>2. Where(j)' = None /\ e \in stored \ late BY <2>1 DEF Where, AtWork
  <2> QED BY <1>2, <1>3, <2>1, <2>2
<1> QED BY <1>4, <1>5, <1>6, <1>7, <1>8, <1>9, <1>10, <1>11 DEF Next, Work

LEMMA TallyInit == Init => Tally
<1> SUFFICES ASSUME Init PROVE Tally OBVIOUS
<1>1. Passing BY PassingInit
<1>2. /\ pending = {} /\ lost = {} /\ stored = {} /\ fetch = None BY DEF Init
<1> QED BY <1>1, <1>2
        DEF Tally, NothingWaits, Uncounted, Tallying, OpensAreOver, Ours

LEMMA TallyStep == Tally /\ [Next]_vars => Tally'
<1> SUFFICES ASSUME Tally, [Next]_vars PROVE Tally' OBVIOUS
<1>1. Passing' BY PassingStep DEF Tally
<1>2. NothingWaits' BY NothingWaitsStep DEF Tally, Passing
<1> QED BY <1>1, <1>2, UncountedStep, TallyingStep, OpensAreOverStep DEF Tally

THEOREM Tally_inductive == Spec => []Tally
<1> QED BY TallyInit, TallyStep, PTL DEF Spec

\* Once the saved cursor of the job that counts an event is past it, the
\* statistics of its email include it, if it was recorded at all: over crashes
\* in the middle of a fetch, failures of Mailgun and of the database, and the
\* turns of the other jobs that may record it first.
THEOREM StatsAgreeUnlessFailed_holds == Spec => []StatsAgreeUnlessFailed
<1> QED BY Tally_inductive, TallySuffices, PTL
=============================================================================
