---------------------------- MODULE Gifts_proofs ----------------------------
(* Proofs about Gifts, for every set of gifts, members, webhooks and jobs, *)
(* and for every number of deliveries and errors.                          *)
EXTENDS Gifts, FiniteSetTheorems, SequenceTheorems, TLAPS

Ended == {"consumed", "expired", "refunded"}

(* Status and dates of a gift agree: a gift has been redeemed, consumed,   *)
(* expired or refunded when its status says so, and no gift is no row.     *)
Dated(row) ==
    /\ row.status = "none" => row = NoGift
    /\ row.status = "redeemed" => row.redeemed
    /\ row.status = "consumed" => row.consumed
    /\ row.status = "expired"  => row.expired
    /\ row.status = "refunded" => row.refunded

GoodRows == {row \in Rows : Dated(row)}

(* What the webhook of a refund can have read of its gift and its member. *)
Reads  == [gift : GiftIds, row : {row \in GoodRows : row.status # "none"}]
Sights == MemberStatuses \X SUBSET GiftIds
\* Who was seen with the status "gift" is a member.
Fits(r, s) == s[1] = "gift" => r.row.redeemer \in Members

WellRead(x) ==
    /\ Len(x) \in 0..2
    /\ Len(x) > 0 => x[1] \in Reads
    /\ Len(x) = 2 => x[2] \in Sights /\ Fits(x[1], x[2])

RefundStates == {x \in Seq(Reads \cup Sights) : WellRead(x)}

Dates == \A g \in GiftIds : gift[g] \in GoodRows

\* Where clean-expired-comped is, and what it has read.
CleaningTypes == [at : {"idle", "selected", "deleted", "comped"},
                  rows : SUBSET (Members \X GiftIds), members : SUBSET Members]

\* A gift that is read for a refund is there, and gifts are not deleted.
RefundsOK ==
    /\ refunds \in [Webhooks -> RefundStates]
    /\ \A w \in Webhooks : refunds[w] # <<>> => gift[refunds[w][1].gift].status # "none"

Typed == TypeOK /\ Dates /\ RefundsOK

-----------------------------------------------------------------------------
LEMMA NoGiftIs == NoGift \in GoodRows /\ NoGift.status = "none" /\ ~NoGift.reminded
                  /\ NoGift.redeemer = NoMember
  BY DEF NoGift, GoodRows, Rows, Dated, GiftStatuses

LEMMA RefundStateIs ==
  ASSUME NEW x \in RefundStates
  PROVE  /\ Len(x) \in 0..2
         /\ x # <<>> => Len(x) > 0 /\ x[1] \in Reads
         /\ Len(x) = 2 => x[2] \in Sights /\ Fits(x[1], x[2])
  BY DEF RefundStates, WellRead

LEMMA NextRefundState ==
  /\ <<>> \in RefundStates
  /\ \A r \in Reads : <<r>> \in RefundStates /\ <<r>> # <<>> /\ <<r>>[1] = r
  /\ \A x \in RefundStates, s \in Sights :
       Len(x) = 1 /\ Fits(x[1], s) =>
         /\ Append(x, s) \in RefundStates /\ Append(x, s) # <<>>
         /\ Append(x, s)[1] = x[1]
<1>1. <<>> \in RefundStates BY DEF RefundStates, WellRead
<1>2. ASSUME NEW r \in Reads
      PROVE  <<r>> \in RefundStates /\ <<r>> # <<>> /\ <<r>>[1] = r
  <2>1. <<r>> \in Seq(Reads \cup Sights) OBVIOUS
  <2> QED BY <2>1 DEF RefundStates, WellRead
<1>3. ASSUME NEW x \in RefundStates, NEW s \in Sights, Len(x) = 1, Fits(x[1], s)
      PROVE  /\ Append(x, s) \in RefundStates /\ Append(x, s) # <<>>
             /\ Append(x, s)[1] = x[1]
  <2> DEFINE S == Reads \cup Sights
             y == Append(x, s)
  <2>1. x \in Seq(S) /\ x[1] \in Reads /\ s \in S BY <1>3 DEF RefundStates, WellRead
  <2> HIDE DEF S
  <2>2. /\ y \in Seq(S) /\ y # <<>> /\ Len(y) = Len(x) + 1
        /\ \A i \in 1..Len(x) : y[i] = x[i]
        /\ y[Len(x) + 1] = s
    BY <2>1, AppendProperties
  <2> HIDE DEF y
  <2>3. Len(y) = 2 /\ y[1] = x[1] /\ y[2] = s BY <1>3, <2>2
  <2>4. WellRead(y) BY <1>3, <2>1, <2>3 DEF WellRead
  <2> QED BY <2>2, <2>3, <2>4 DEF RefundStates, S, y
<1> QED BY <1>1, <1>2, <1>3

\* The rows that the operations write.
LEMMA RowsWritten ==
  ASSUME NEW row \in GoodRows, row.status # "none"
  PROVE  /\ ConsumedRow(row) \in GoodRows /\ ConsumedRow(row).status = "consumed"
         /\ RefundedRow(row) \in GoodRows /\ RefundedRow(row).status = "refunded"
         /\ [row EXCEPT !.status = "expired", !.expired = TRUE] \in GoodRows
         /\ [row EXCEPT !.reminded = TRUE] \in GoodRows
         /\ \A m \in Members \cup {NoMember} :
              /\ [row EXCEPT !.redeemer = m] \in GoodRows
              /\ [row EXCEPT !.redeemer = m, !.redeemed = TRUE, !.status = "redeemed"] \in GoodRows
  BY DEF GoodRows, Rows, Dated, ConsumedRow, RefundedRow, GiftStatuses

LEMMA Written ==
  ASSUME Typed, NEW g \in GiftIds, NEW row \in GoodRows, SetGift(g, row)
  PROVE  /\ gift' \in [GiftIds -> Rows] /\ Dates'
         /\ gift'[g] = row
         /\ \A h \in GiftIds \ {g} : gift'[h] = gift[h]
<1>1. /\ gift'[g] = row
      /\ \A h \in GiftIds \ {g} : gift'[h] = gift[h]
      /\ gift' \in [GiftIds -> Rows]
  BY DEF Typed, TypeOK, SetGift, GoodRows
<1> QED BY <1>1 DEF Typed, Dates

\* What is read for refunds stays read, and gifts stay.
GiftsStay == \A g \in GiftIds : gift[g].status # "none" => gift'[g].status # "none"

LEMMA RefundsKept ==
  ASSUME Typed, GiftsStay, UNCHANGED refunds PROVE RefundsOK'
<1>1. \A w \in Webhooks : refunds[w] # <<>> => refunds[w][1].gift \in GiftIds
  BY RefundStateIs DEF Typed, RefundsOK, Reads
<1> QED BY <1>1 DEF Typed, RefundsOK, GiftsStay

LEMMA RefundsTyped == RefundsOK' => \A w \in Webhooks : Len(refunds'[w]) \in 0..2
  BY RefundStateIs DEF RefundsOK

LEMMA RowsKept ==
  ASSUME Typed, UNCHANGED gift PROVE gift' \in [GiftIds -> Rows] /\ Dates' /\ GiftsStay
  BY DEF Typed, TypeOK, Dates, GiftsStay

LEMMA Failed == ASSUME Typed, Error PROVE errors' \in 0..MaxErrors /\ errors' # 0
  BY GiftAssumption DEF Typed, TypeOK, Error

\* The rows of members after an operation on one of them.
LEMMA MemberSet ==
  ASSUME Typed, NEW m \in Members, NEW s \in MemberStatuses, NEW t \in SUBSET GiftIds,
         SetMember(m, s, t)
  PROVE  /\ status' \in [Members -> MemberStatuses] /\ tier' \in [Members -> SUBSET GiftIds]
         /\ status'[m] = s /\ tier'[m] = t /\ subscribed' = subscribed
         /\ \A n \in Members \ {m} : status'[n] = status[n] /\ tier'[n] = tier[n]
  BY DEF Typed, TypeOK, SetMember

MembersOK ==
    /\ status \in [Members -> MemberStatuses]
    /\ tier \in [Members -> SUBSET GiftIds] /\ subscribed \subseteq Members

\* A grant gives the tier, and the status "gift" to whom had no tier and does
\* not pay.
LEMMA Granted ==
  ASSUME Typed, NEW m \in Members, NEW g \in GiftIds, Grant(m, g)
  PROVE  /\ MembersOK'
         /\ tier'[m] = {g} /\ subscribed' = subscribed
         /\ \/ m \notin subscribed /\ status'[m] = "gift"
            \/ (m \in subscribed \/ tier[m] # {}) /\ status'[m] = status[m]
         /\ \A n \in Members \ {m} : status'[n] = status[n] /\ tier'[n] = tier[n]
<1>1. PICK s \in NewStatus(m) : SetMember(m, s, {g}) BY DEF Grant
<1>2. /\ s \in MemberStatuses
      /\ \/ m \notin subscribed /\ s = "gift"
         \/ (m \in subscribed \/ tier[m] # {}) /\ s = status[m]
  BY <1>1 DEF NewStatus, MemberStatuses, Typed, TypeOK
<1>3. {g} \in SUBSET GiftIds OBVIOUS
<1> QED BY <1>1, <1>2, <1>3, MemberSet DEF MembersOK, Typed, TypeOK

LEMMA Revoked ==
  ASSUME Typed, NEW m \in Members, NEW t \in SUBSET GiftIds, Revoke(m, t)
  PROVE  /\ MembersOK'
         /\ subscribed' = subscribed
         /\ \A n \in Members \ {m} : status'[n] = status[n] /\ tier'[n] = tier[n]
         /\ \/ t # {} /\ status'[m] = "free" /\ tier'[m] = {}
            \/ t = {} /\ status'[m] = status[m] /\ tier'[m] = tier[m]
<1>1. CASE t # {}
  <2>1. SetMember(m, "free", {}) BY <1>1 DEF Revoke
  <2>2. "free" \in MemberStatuses /\ {} \in SUBSET GiftIds BY DEF MemberStatuses
  <2> QED BY <1>1, <2>1, <2>2, MemberSet DEF MembersOK, Typed, TypeOK
<1>2. CASE t = {} BY <1>2 DEF Revoke, members, MembersOK, Typed, TypeOK
<1> QED BY <1>1, <1>2

\* Only a member with status "gift" is downgraded.
LEMMA Downgraded ==
  ASSUME Typed, NEW m \in Members \cup {NoMember}, Downgrade(m)
  PROVE  /\ MembersOK'
         /\ subscribed' = subscribed
         /\ \A n \in Members : status'[n] # status[n] \/ tier'[n] # tier[n] =>
              /\ n = m /\ status[n] = "gift" /\ tier[n] # {}
              /\ status'[n] = "free" /\ tier'[n] = {}
         /\ m \in Members /\ status[m] = "gift" =>
              /\ tier'[m] = {}
              /\ tier[m] # {} => status'[m] = "free"
<1>1. CASE m # NoMember /\ status[m] = "gift"
  <2>1. m \in Members /\ tier[m] \in SUBSET GiftIds /\ Revoke(m, tier[m])
    BY <1>1 DEF Downgrade, Typed, TypeOK
  <2> QED BY <1>1, <2>1, Revoked
<1>2. CASE ~(m # NoMember /\ status[m] = "gift")
  <2>1. UNCHANGED members BY <1>2 DEF Downgrade
  <2> QED BY <1>2, <2>1, GiftAssumption DEF members, MembersOK, Typed, TypeOK
<1> QED BY <1>1, <1>2

-----------------------------------------------------------------------------
\* Jobs at work.
LEMMA CleanupSet ==
  ASSUME Typed, NEW j \in CleanupJobs, NEW at \in {"consume", "expire"},
         NEW list \in SUBSET GiftIds, SetCleanup(j, at, list)
  PROVE  cleanup' \in [CleanupJobs -> [at : {"idle", "consume", "expire"},
                                       list : SUBSET GiftIds]]
  BY DEF Typed, TypeOK, SetCleanup

LEMMA RemindingSet ==
  ASSUME Typed, NEW j \in ReminderJobs, NEW at \in {"mark", "send"},
         NEW list \in SUBSET GiftIds, NEW sending \in SUBSET GiftIds,
         SetReminding(j, at, list, sending)
  PROVE  /\ reminding' \in [ReminderJobs -> [at : {"idle", "mark", "send"},
                                             list : SUBSET GiftIds,
                                             sending : SUBSET GiftIds]]
         /\ reminding'[j].sending = sending
         /\ \A i \in ReminderJobs \ {j} : reminding'[i] = reminding[i]
  BY DEF Typed, TypeOK, SetReminding

LEMMA NothingSending ==
  ASSUME Typed, NEW j \in ReminderJobs, NEW list \in SUBSET GiftIds,
         SetReminding(j, "mark", list, {})
  PROVE  /\ reminding' \in [ReminderJobs -> [at : {"idle", "mark", "send"},
                                             list : SUBSET GiftIds,
                                             sending : SUBSET GiftIds]]
         /\ reminding'[j].sending = {}
         /\ \A i \in ReminderJobs \ {j} : reminding'[i] = reminding[i]
<1>1. {} \in SUBSET GiftIds /\ "mark" \in {"mark", "send"} OBVIOUS
<1> QED BY <1>1, RemindingSet

\* One row changes, and does not go.
LEMMA RowSet ==
  ASSUME Typed, UNCHANGED refunds, NEW g \in GiftIds, NEW row \in GoodRows,
         row.status # "none", SetGift(g, row)
  PROVE  gift' \in [GiftIds -> Rows] /\ Dates' /\ RefundsOK'
<1>1. GiftsStay BY Written DEF GiftsStay
<1> QED BY <1>1, Written, RefundsKept

\* A step that leaves the rows of gifts and the webhooks of refunds alone.
LEMMA NoRowSet ==
  ASSUME Typed, UNCHANGED <<gift, refunds>>
  PROVE  gift' \in [GiftIds -> Rows] /\ Dates' /\ RefundsOK'
  BY RowsKept, RefundsKept

LEMMA TypedPurchase ==
  ASSUME Typed, NEW g \in GiftIds, Deliver(g) \/ Create(g) \/ Tick(g)
  PROVE  Typed'
<1>1. CASE Deliver(g)
  <2>1. deliveries' \in [GiftIds -> 0..MaxDeliveries]
    BY <1>1, GiftAssumption DEF Deliver, Typed, TypeOK
  <2>2. UNCHANGED <<gift, refunds>> BY <1>1 DEF Deliver
  <2> QED BY <1>1, <2>1, <2>2, NoRowSet, RefundsTyped
       DEF Deliver, Typed, TypeOK, members, jobs, history
<1>2. CASE Create(g)
  <2> DEFINE row == [NoGift EXCEPT !.status = "purchased"]
  <2>1. row \in GoodRows /\ row.status = "purchased"
    BY DEF NoGift, GoodRows, Rows, Dated, GiftStatuses
  <2> HIDE DEF row
  <2>2. gift' \in [GiftIds -> Rows] /\ Dates' /\ RefundsOK'
    <3>1. CASE CanCreate(g) BY <1>2, <2>1, <3>1, RowSet DEF Create, row
    <3>2. CASE ~CanCreate(g) BY <1>2, <3>2, NoRowSet DEF Create
    <3> QED BY <3>1, <3>2
  <2>3. deliveries' \in [GiftIds -> 0..MaxDeliveries]
    <3>1. deliveries \in [GiftIds -> 0..MaxDeliveries] BY DEF Typed, TypeOK
    <3>2. /\ deliveries[g] > 0
          /\ deliveries' = [deliveries EXCEPT ![g] = deliveries[g] - 1]
      BY <1>2 DEF Create
    <3>3. deliveries[g] - 1 \in 0..MaxDeliveries BY <3>1, <3>2, GiftAssumption
    <3> QED BY <3>1, <3>2, <3>3
  <2>4. confirmed' \in [GiftIds -> Nat]
    <3>1. confirmed \in [GiftIds -> Nat] BY DEF Typed, TypeOK
    <3> QED BY <1>2, <3>1 DEF Create
  <2> QED BY <1>2, <2>2, <2>3, <2>4, RefundsTyped DEF Create, Typed, TypeOK, members, jobs
<1>3. CASE Tick(g)
  <2>1. \A i \in 1..3 : Clock[i + 1] \in ClockValues BY DEF ClockValues
  <2>2. clock' \in [GiftIds -> ClockValues] BY <1>3, <2>1 DEF Tick, Typed, TypeOK
  <2>3. UNCHANGED <<gift, refunds>> BY <1>3 DEF Tick, webhooks
  <2> QED BY <1>3, <2>2, <2>3, NoRowSet, RefundsTyped
       DEF Tick, Typed, TypeOK, members, webhooks, jobs, history
<1> QED BY <1>1, <1>2, <1>3

LEMMA TypedRedeem ==
  ASSUME Typed, NEW g \in GiftIds, NEW m \in Members, Redeem(g, m) \/ Reassign(g, m)
  PROVE  Typed'
<1>1. gift[g] \in GoodRows BY DEF Typed, Dates
<1>2. CASE Redeem(g, m)
  <2>1. gift[g].status # "none" BY <1>2 DEF Redeem, IsRedeemable
  <2>2. gift' \in [GiftIds -> Rows] /\ Dates' /\ RefundsOK'
    <3> DEFINE row == [gift[g] EXCEPT !.redeemer = m, !.redeemed = TRUE,
                                      !.status = "redeemed"]
    <3>1. row \in GoodRows BY <1>1, <2>1, RowsWritten
    <3>2. row.status = "redeemed" BY <1>1 DEF GoodRows, Rows
    <3>3. SetGift(g, row) /\ UNCHANGED refunds BY <1>2 DEF Redeem, webhooks
    <3> HIDE DEF row
    <3> QED BY <3>1, <3>2, <3>3, RowSet
  <2>3. MembersOK' BY <1>2, Granted DEF Redeem
  <2>4. clock' \in [GiftIds -> ClockValues]
    <3>1. "far" \in ClockValues BY DEF ClockValues, Clock
    <3> QED BY <1>2, <3>1 DEF Redeem, Typed, TypeOK
  <2> QED BY <1>2, <2>2, <2>3, <2>4, RefundsTyped
       DEF Redeem, Typed, TypeOK, MembersOK, webhooks, jobs, history
<1>3. CASE Reassign(g, m)
  <2>1. gift[g].status # "none" BY <1>3 DEF Reassign, IsReassignableTo
  <2>2. [gift[g] EXCEPT !.redeemer = m].status # "none" BY <1>1, <2>1 DEF GoodRows, Rows
  <2>3. gift' \in [GiftIds -> Rows] /\ Dates' /\ RefundsOK'
    BY <1>1, <1>3, <2>1, <2>2, RowsWritten, RowSet DEF Reassign, webhooks
  <2>4. MembersOK' BY <1>3, Granted DEF Reassign
  <2> QED BY <1>3, <2>3, <2>4, RefundsTyped
       DEF Reassign, Typed, TypeOK, MembersOK, webhooks, jobs, history
<1> QED BY <1>2, <1>3

LEMMA SeenIs ==
  ASSUME Typed, NEW m \in Members \cup {NoMember} PROVE Seen(m) \in Sights
<1>1. <<"deleted", {}>> \in Sights BY DEF Sights, MemberStatuses
<1>2. CASE m = NoMember \/ status[m] = "deleted" BY <1>1, <1>2 DEF Seen
<1>3. CASE ~(m = NoMember \/ status[m] = "deleted")
  <2>1. status[m] \in MemberStatuses /\ tier[m] \in SUBSET GiftIds
    BY <1>3 DEF Typed, TypeOK
  <2> QED BY <1>3, <2>1 DEF Seen, Sights
<1> QED BY <1>2, <1>3

\* What a webhook that writes its refund has read.
LEMMA ReadIs ==
  ASSUME Typed, NEW w \in Webhooks, refunds[w] # <<>>
  PROVE  /\ refunds[w] \in RefundStates
         /\ refunds[w][1].gift \in GiftIds
         /\ refunds[w][1].row \in GoodRows /\ refunds[w][1].row.status # "none"
         /\ refunds[w][1].row.redeemer \in Members \cup {NoMember}
         /\ gift[refunds[w][1].gift].status # "none"
<1>1. refunds[w] \in RefundStates /\ refunds[w][1] \in Reads
  BY RefundStateIs DEF Typed, RefundsOK
<1> QED BY <1>1 DEF Typed, RefundsOK, Reads, GoodRows, Rows

\* A webhook goes on, or ends.
LEMMA RefundSet ==
  ASSUME Typed, GiftsStay, NEW w \in Webhooks, NEW x \in RefundStates,
         refunds' = [refunds EXCEPT ![w] = x],
         x # <<>> => gift'[x[1].gift].status # "none"
  PROVE  RefundsOK'
<1>1. \A v \in Webhooks \ {w} :
        refunds[v] # <<>> => gift'[refunds[v][1].gift].status # "none"
  BY ReadIs DEF GiftsStay
<1> QED BY <1>1 DEF Typed, RefundsOK

\* The refund is written with the row that was read, and one member may be
\* downgraded by what was seen of him.
LEMMA RefundWritten ==
  ASSUME Typed, NEW w \in Webhooks, WriteRefund(w)
  PROVE  /\ refunds[w] # <<>>
         /\ refunds' = [refunds EXCEPT ![w] = <<>>]
         /\ LET g == refunds[w][1].gift  row == refunds[w][1].row
                m == row.redeemer        seen == refunds[w][2] IN
            \/ UNCHANGED <<gift, members, stale>>
            \/ /\ SetGift(g, RefundedRow(row))
               /\ \/ /\ seen[1] = "gift" /\ m \in Members
                     /\ Revoke(m, seen[2]) /\ seen[2] \in SUBSET GiftIds
                  \/ UNCHANGED members
               /\ stale' = IF gift[g] # row \/ Seen(m) # seen THEN stale \cup {g}
                           ELSE stale
<1> DEFINE g == refunds[w][1].gift
           row == refunds[w][1].row
           m == row.redeemer
           seen == refunds[w][2]
<1>1. refunds[w] # <<>> /\ Len(refunds[w]) = 2 BY DEF WriteRefund
<1>2. seen \in Sights /\ (seen[1] = "gift" => m \in Members)
  BY <1>1, ReadIs, RefundStateIs DEF Fits
<1>3. seen[2] \in SUBSET GiftIds BY <1>2 DEF Sights
<1>4. \/ UNCHANGED <<gift, members, stale>>
      \/ /\ SetGift(g, RefundedRow(row))
         /\ IF seen[1] = "gift" THEN Revoke(m, seen[2]) ELSE UNCHANGED members
         /\ stale' = IF gift[g] # row \/ Seen(m) # seen THEN stale \cup {g} ELSE stale
  BY DEF WriteRefund
<1>5. refunds' = [refunds EXCEPT ![w] = <<>>] BY DEF WriteRefund
<1> HIDE DEF g, row, m, seen
<1>6. \/ UNCHANGED <<gift, members, stale>>
      \/ /\ SetGift(g, RefundedRow(row))
         /\ \/ /\ seen[1] = "gift" /\ m \in Members
               /\ Revoke(m, seen[2]) /\ seen[2] \in SUBSET GiftIds
            \/ UNCHANGED members
         /\ stale' = IF gift[g] # row \/ Seen(m) # seen THEN stale \cup {g} ELSE stale
  BY <1>2, <1>3, <1>4
<1> QED BY <1>1, <1>5, <1>6 DEF g, row, m, seen

LEMMA TypedRefund ==
  ASSUME Typed, NEW w \in Webhooks,
         \/ \E g \in GiftIds : ReadRefund(w, g)
         \/ BeginRefund(w) \/ WriteRefund(w) \/ FailRefund(w)
  PROVE  Typed'
<1>1. <<>> \in RefundStates BY NextRefundState
<1>2. CASE \E g \in GiftIds : ReadRefund(w, g)
  <2>1. PICK g \in GiftIds : ReadRefund(w, g) BY <1>2
  <2> DEFINE x == <<[gift |-> g, row |-> gift[g]]>>
  <2>2. [gift |-> g, row |-> gift[g]] \in Reads
    BY <2>1 DEF ReadRefund, Reads, Typed, Dates
  <2>3. x \in RefundStates /\ x # <<>> /\ x[1].gift = g
    <3>1. x \in RefundStates /\ x # <<>> /\ x[1] = [gift |-> g, row |-> gift[g]]
      BY <2>2, NextRefundState
    <3> QED BY <3>1
  <2>4. refunds' = [refunds EXCEPT ![w] = x] /\ UNCHANGED gift /\ gift[g].status # "none"
    BY <2>1 DEF ReadRefund
  <2> HIDE DEF x
  <2>5. gift' \in [GiftIds -> Rows] /\ Dates' /\ GiftsStay BY <2>4, RowsKept
  <2>6. RefundsOK' BY <2>3, <2>4, <2>5, RefundSet
  <2> QED BY <2>1, <2>5, <2>6, RefundsTyped
       DEF ReadRefund, Typed, TypeOK, members, jobs, history
<1>3. CASE BeginRefund(w)
  <2> DEFINE s == Seen(refunds[w][1].row.redeemer)
             x == Append(refunds[w], s)
  <2>1. Len(refunds[w]) = 1 /\ refunds[w] # <<>> BY <1>3 DEF BeginRefund
  <2>2. s \in Sights BY <2>1, ReadIs, SeenIs
  <2>3. Fits(refunds[w][1], s)
    <3>1. refunds[w][1].row.redeemer \in Members \cup {NoMember} BY <2>1, ReadIs
    <3> QED BY <3>1 DEF Fits, Seen
  <2> HIDE DEF s
  <2>4. x \in RefundStates /\ x # <<>> /\ x[1] = refunds[w][1]
    BY <2>1, <2>2, <2>3, ReadIs, NextRefundState
  <2>5. refunds' = [refunds EXCEPT ![w] = x] /\ UNCHANGED gift
    BY <1>3 DEF BeginRefund, s
  <2> HIDE DEF x
  <2>6. gift' \in [GiftIds -> Rows] /\ Dates' /\ GiftsStay BY <2>5, RowsKept
  <2>7. gift'[x[1].gift].status # "none" BY <2>1, <2>4, <2>5, ReadIs
  <2>8. RefundsOK' BY <2>4, <2>5, <2>6, <2>7, RefundSet
  <2>9. UNCHANGED <<clock, members, deliveries, activations, jobs, errors, history>>
    BY <1>3 DEF BeginRefund
  <2> QED BY <2>6, <2>8, <2>9, RefundsTyped DEF Typed, TypeOK, members, jobs, history
<1>4. CASE WriteRefund(w)
  <2> DEFINE g == refunds[w][1].gift
             row == refunds[w][1].row
             m == row.redeemer
             seen == refunds[w][2]
  <2>1. /\ refunds[w] # <<>> /\ refunds' = [refunds EXCEPT ![w] = <<>>]
        /\ \/ UNCHANGED <<gift, members, stale>>
           \/ /\ SetGift(g, RefundedRow(row))
              /\ \/ m \in Members /\ Revoke(m, seen[2]) /\ seen[2] \in SUBSET GiftIds
                 \/ UNCHANGED members
              /\ stale' \in {stale, stale \cup {g}}
    BY <1>4, RefundWritten
  <2>2. g \in GiftIds /\ row \in GoodRows /\ row.status # "none" BY <2>1, ReadIs
  <2> HIDE DEF g, row, m, seen
  <2>3. gift' \in [GiftIds -> Rows] /\ Dates' /\ GiftsStay
    <3>1. CASE UNCHANGED gift BY <3>1, RowsKept
    <3>2. CASE SetGift(g, RefundedRow(row))
      <4>1. RefundedRow(row) \in GoodRows /\ RefundedRow(row).status = "refunded"
        BY <2>2, RowsWritten
      <4> QED BY <2>2, <3>2, <4>1, Written DEF GiftsStay
    <3> QED BY <2>1, <3>1, <3>2
  <2>4. RefundsOK' BY <1>1, <2>1, <2>3, RefundSet
  <2>5. MembersOK' /\ stale' \subseteq GiftIds
    <3>1. CASE UNCHANGED members
      BY <2>1, <2>2, <3>1 DEF MembersOK, members, Typed, TypeOK
    <3>2. CASE m \in Members /\ Revoke(m, seen[2]) /\ seen[2] \in SUBSET GiftIds
      BY <2>1, <2>2, <3>2, Revoked DEF Typed, TypeOK
    <3> QED BY <2>1, <3>1, <3>2
  <2> QED BY <1>4, <2>3, <2>4, <2>5, RefundsTyped
       DEF WriteRefund, Typed, TypeOK, MembersOK, jobs
<1>5. CASE FailRefund(w)
  <2>1. refunds' = [refunds EXCEPT ![w] = <<>>] /\ UNCHANGED gift /\ Error
    BY <1>5 DEF FailRefund
  <2>2. gift' \in [GiftIds -> Rows] /\ Dates' /\ GiftsStay BY <2>1, RowsKept
  <2>3. RefundsOK' BY <1>1, <2>1, <2>2, RefundSet
  <2> QED BY <1>5, <2>1, <2>2, <2>3, Failed, RefundsTyped
       DEF FailRefund, Typed, TypeOK, members, jobs, history
<1> QED BY <1>2, <1>3, <1>4, <1>5

LEMMA TypedMember ==
  ASSUME Typed, NEW m \in Members, Subscribe(m) \/ Renew(m) \/ Cancel(m) \/ Delete(m)
  PROVE  Typed'
<1>1. CASE Subscribe(m)
  <2>1. MembersOK' BY <1>1 DEF Subscribe, Typed, TypeOK, MembersOK, MemberStatuses
  <2>2. gift' \in [GiftIds -> Rows] /\ Dates' /\ RefundsOK' BY <1>1, NoRowSet DEF Subscribe
  <2>3. activations' \subseteq [member : Members, gift : SUBSET GiftIds]
    BY <1>1 DEF Subscribe, Typed, TypeOK
  <2> QED BY <1>1, <2>1, <2>2, <2>3, RefundsTyped
       DEF Subscribe, Typed, TypeOK, MembersOK, jobs, history
<1>2. CASE Cancel(m)
  <2>1. MembersOK' BY <1>2 DEF Cancel, Typed, TypeOK, MembersOK, MemberStatuses
  <2>2. gift' \in [GiftIds -> Rows] /\ Dates' /\ RefundsOK'
    BY <1>2, NoRowSet DEF Cancel, webhooks
  <2> QED BY <1>2, <2>1, <2>2, RefundsTyped
       DEF Cancel, Typed, TypeOK, MembersOK, jobs, history, webhooks
<1>3. CASE Delete(m)
  <2>1. MembersOK' BY <1>3 DEF Delete, Typed, TypeOK, MembersOK, MemberStatuses
  <2>2. ASSUME NEW g \in GiftIds
        PROVE  /\ gift'[g] \in GoodRows
               /\ gift[g].status # "none" => gift'[g].status # "none"
    <3>1. gift[g] \in GoodRows BY DEF Typed, Dates
    <3>2. CASE gift[g].redeemer # m BY <1>3, <3>1, <3>2 DEF Delete
    <3>3. CASE gift[g].redeemer = m
      <4>1. gift[g].status # "none" BY <3>1, <3>3, NoGiftIs, GiftAssumption DEF GoodRows, Dated
      <4>2. gift'[g] = [gift[g] EXCEPT !.redeemer = NoMember] BY <1>3, <3>3 DEF Delete
      <4>3. gift'[g].status = gift[g].status BY <3>1, <4>2 DEF GoodRows, Rows
      <4>4. [gift[g] EXCEPT !.redeemer = NoMember] \in GoodRows
        BY <3>1, <4>1, RowsWritten
      <4> QED BY <4>1, <4>2, <4>3, <4>4
    <3> QED BY <3>2, <3>3
  <2>3. gift' \in [GiftIds -> Rows] /\ Dates' /\ GiftsStay
    <3>1. gift' = [g \in GiftIds |-> gift'[g]] BY <1>3 DEF Delete
    <3> QED BY <2>2, <3>1 DEF Dates, GiftsStay, GoodRows
  <2>4. RefundsOK' BY <1>3, <2>3, RefundsKept DEF Delete, webhooks
  <2> QED BY <1>3, <2>1, <2>3, <2>4, RefundsTyped
       DEF Delete, Typed, TypeOK, MembersOK, jobs, history, webhooks
<1>4. CASE Renew(m)
  <2>1. MembersOK' BY <1>4 DEF Renew, Typed, TypeOK, MembersOK, MemberStatuses
  <2>2. gift' \in [GiftIds -> Rows] /\ Dates' /\ RefundsOK'
    BY <1>4, NoRowSet DEF Renew, webhooks
  <2> QED BY <1>4, <2>1, <2>2, RefundsTyped
       DEF Renew, Typed, TypeOK, MembersOK, jobs, history, webhooks
<1> QED BY <1>1, <1>2, <1>3, <1>4

LEMMA TypedActivation ==
  ASSUME Typed, NEW a \in activations,
         FindGift(a) \/ ConsumeForPaid(a) \/ FailActivation(a)
  PROVE  Typed'
<1>1. a \in [member : Members, gift : SUBSET GiftIds] BY DEF Typed, TypeOK
<1>2. CASE FindGift(a)
  <2>1. activations' \subseteq [member : Members, gift : SUBSET GiftIds]
    <3>1. CASE ActiveGifts(a.member) = {} BY <1>2, <3>1 DEF FindGift, Typed, TypeOK
    <3>2. CASE ActiveGifts(a.member) # {}
      <4>1. PICK g \in ActiveGifts(a.member) :
              activations' = (activations \ {a}) \cup {[a EXCEPT !.gift = {g}]}
        BY <1>2, <3>2 DEF FindGift
      <4>2. g \in GiftIds BY DEF ActiveGifts
      <4>3. [a EXCEPT !.gift = {g}] \in [member : Members, gift : SUBSET GiftIds]
        BY <1>1, <4>2
      <4> QED BY <4>1, <4>3 DEF Typed, TypeOK
    <3> QED BY <3>1, <3>2
  <2>2. /\ UNCHANGED <<clock, members, deliveries, jobs, errors, history>>
        /\ UNCHANGED <<gift, refunds>>
    BY <1>2 DEF FindGift
  <2> QED BY <2>1, <2>2, NoRowSet, RefundsTyped DEF Typed, TypeOK, members, jobs, history
<1>3. CASE ConsumeForPaid(a)
  <2>1. PICK g \in a.gift :
          IF IsRedeemed(gift[g])
          THEN /\ SetGift(g, ConsumedRow(gift[g]))
               /\ stale' = IF gift[g].redeemer # a.member THEN stale \cup {g} ELSE stale
          ELSE UNCHANGED <<gift, stale>>
    BY <1>3 DEF ConsumeForPaid
  <2>2. g \in GiftIds BY <1>1
  <2>3. UNCHANGED <<clock, members, deliveries, refunds, jobs, errors, confirmed, reminders,
                     overtaken>>
    BY <1>3 DEF ConsumeForPaid
  <2>4. gift' \in [GiftIds -> Rows] /\ Dates' /\ RefundsOK'
    <3>1. CASE IsRedeemed(gift[g])
      <4>1. gift[g] \in GoodRows /\ gift[g].status # "none"
        BY <2>2, <3>1 DEF Typed, Dates, IsRedeemed
      <4>2. /\ ConsumedRow(gift[g]) \in GoodRows
            /\ ConsumedRow(gift[g]).status = "consumed"
        BY <4>1, RowsWritten
      <4> QED BY <2>1, <2>2, <2>3, <3>1, <4>2, RowSet
    <3>2. CASE ~IsRedeemed(gift[g]) BY <2>1, <2>3, <3>2, NoRowSet
    <3> QED BY <3>1, <3>2
  <2>5. stale' \subseteq GiftIds BY <2>1, <2>2 DEF Typed, TypeOK
  <2>6. activations' \subseteq [member : Members, gift : SUBSET GiftIds]
    BY <1>3 DEF ConsumeForPaid, Typed, TypeOK
  <2> QED BY <2>3, <2>4, <2>5, <2>6, RefundsTyped DEF Typed, TypeOK, members, jobs
<1>4. CASE FailActivation(a)
  <2>1. activations' \subseteq [member : Members, gift : SUBSET GiftIds]
    BY <1>4 DEF FailActivation, Typed, TypeOK
  <2>2. /\ UNCHANGED <<clock, members, deliveries, jobs, history>>
        /\ UNCHANGED <<gift, refunds>> /\ Error
    BY <1>4 DEF FailActivation
  <2> QED BY <2>1, <2>2, Failed, NoRowSet, RefundsTyped
       DEF Typed, TypeOK, members, jobs, history
<1> QED BY <1>2, <1>3, <1>4

LEMMA DueAre == Due \subseteq GiftIds /\ Expired \subseteq GiftIds /\ ToRemind \subseteq GiftIds
  BY DEF Due, Expired, ToRemind

LEMMA TypedCleanup ==
  ASSUME Typed, NEW j \in CleanupJobs,
         \/ CleanupStep(j) \/ FailCleanup(j)
  PROVE  Typed'
<1>1. cleanup[j].list \in SUBSET GiftIds BY DEF Typed, TypeOK
<1>2. CASE StartCleanup(j) \/ StartExpiry(j)
  <2>1. \E at \in {"consume", "expire"}, list \in SUBSET GiftIds : SetCleanup(j, at, list)
    BY <1>2, DueAre DEF StartCleanup, StartExpiry
  <2>2. UNCHANGED <<gift, clock, members, webhooks, reminding, cleaning, errors, history>>
    BY <1>2 DEF StartCleanup, StartExpiry
  <2> QED BY <2>1, <2>2, CleanupSet, NoRowSet, RefundsTyped
       DEF Typed, TypeOK, members, webhooks, history
<1>3. CASE FailCleanup(j)
  <2>1. /\ cleanup[j].list # {} /\ Error /\ SetCleanup(j, cleanup[j].at, {})
        /\ UNCHANGED <<gift, clock, members, webhooks, reminding, cleaning, history>>
    BY <1>3 DEF FailCleanup
  <2>2. cleanup' \in [CleanupJobs -> [at : {"idle", "consume", "expire"},
                                        list : SUBSET GiftIds]]
    BY <2>1 DEF SetCleanup, Typed, TypeOK
  <2> QED BY <2>1, <2>2, Failed, NoRowSet, RefundsTyped
       DEF Typed, TypeOK, members, webhooks, history
<1>4. CASE \E g \in GiftIds : ConsumeOne(j, g)
  <2>1. PICK g \in GiftIds : ConsumeOne(j, g) BY <1>4
  <2>2. /\ SetCleanup(j, "consume", cleanup[j].list \ {g})
        /\ UNCHANGED <<clock, webhooks, reminding, cleaning, errors, history>>
    BY <2>1 DEF ConsumeOne
  <2>3. gift' \in [GiftIds -> Rows] /\ Dates' /\ RefundsOK' /\ MembersOK'
    <3>1. CASE IsRedeemed(gift[g])
      <4>1. gift[g] \in GoodRows /\ gift[g].status # "none"
        BY <3>1 DEF Typed, Dates, IsRedeemed
      <4>2. /\ ConsumedRow(gift[g]) \in GoodRows
            /\ ConsumedRow(gift[g]).status = "consumed"
            /\ gift[g].redeemer \in Members \cup {NoMember}
        BY <4>1, RowsWritten DEF GoodRows, Rows
      <4>3. SetGift(g, ConsumedRow(gift[g])) /\ Downgrade(gift[g].redeemer)
        BY <2>1, <3>1 DEF ConsumeOne
      <4> QED BY <2>2, <4>2, <4>3, RowSet, Downgraded DEF webhooks
    <3>2. CASE ~IsRedeemed(gift[g])
      <4>1. UNCHANGED <<gift, members>> BY <2>1, <3>2 DEF ConsumeOne
      <4> QED BY <2>2, <4>1, NoRowSet DEF webhooks, members, MembersOK, Typed, TypeOK
    <3> QED BY <3>1, <3>2
  <2>4. cleanup' \in [CleanupJobs -> [at : {"idle", "consume", "expire"},
                                        list : SUBSET GiftIds]]
    <3>1. cleanup[j].list \ {g} \in SUBSET GiftIds BY <1>1
    <3> QED BY <2>2, <3>1, CleanupSet
  <2> QED BY <2>2, <2>3, <2>4, RefundsTyped
       DEF Typed, TypeOK, MembersOK, webhooks, history
<1>5. CASE \E g \in GiftIds : ExpireOne(j, g)
  <2>1. PICK g \in GiftIds : ExpireOne(j, g) BY <1>5
  <2>2. /\ SetCleanup(j, "expire", cleanup[j].list \ {g})
        /\ UNCHANGED <<clock, members, webhooks, reminding, cleaning, errors, history>>
    BY <2>1 DEF ExpireOne
  <2>3. gift' \in [GiftIds -> Rows] /\ Dates' /\ RefundsOK'
    <3> DEFINE row == [gift[g] EXCEPT !.status = "expired", !.expired = TRUE]
    <3>1. CASE MayExpire(gift[g])
      <4>1. gift[g] \in GoodRows /\ gift[g].status # "none"
        BY <3>1 DEF Typed, Dates, MayExpire
      <4>2. row \in GoodRows BY <4>1, RowsWritten
      <4>3. row.status = "expired" BY <4>1 DEF GoodRows, Rows
      <4>4. SetGift(g, row) BY <2>1, <3>1 DEF ExpireOne
      <4> HIDE DEF row
      <4> QED BY <2>2, <4>2, <4>3, <4>4, RowSet DEF webhooks
    <3>2. CASE ~MayExpire(gift[g]) BY <2>1, <2>2, <3>2, NoRowSet DEF ExpireOne, webhooks
    <3> QED BY <3>1, <3>2
  <2>4. cleanup' \in [CleanupJobs -> [at : {"idle", "consume", "expire"},
                                        list : SUBSET GiftIds]]
    <3>1. cleanup[j].list \ {g} \in SUBSET GiftIds BY <1>1
    <3> QED BY <2>2, <3>1, CleanupSet
  <2> QED BY <2>2, <2>3, <2>4, RefundsTyped DEF Typed, TypeOK, members, webhooks, history
<1> QED BY <1>2, <1>3, <1>4, <1>5 DEF CleanupStep

\* A gift is marked, and its reminder may be about to go out.
LEMMA Marked ==
  ASSUME Typed, NEW j \in ReminderJobs, NEW g \in GiftIds, Mark(j, g)
  PROVE  \E sending \in SUBSET {g} :
           /\ \/ SetReminding(j, "send", reminding[j].list \ {g}, sending)
              \/ SetReminding(j, "mark", reminding[j].list \ {g}, sending)
           /\ \/ /\ MayRemind(gift[g]) /\ gift[g] \in GoodRows
                 /\ SetGift(g, [gift[g] EXCEPT !.reminded = TRUE])
              \/ UNCHANGED gift /\ sending = {}
           /\ UNCHANGED <<clock, members, webhooks, cleanup, cleaning, errors, history>>
<1>1. UNCHANGED <<clock, members, webhooks, cleanup, cleaning, errors, history>> BY DEF Mark
<1>2. CASE MayRemind(gift[g])
  <2>1. PICK takesEmail \in BOOLEAN :
          IF takesEmail THEN SetReminding(j, "send", reminding[j].list \ {g}, {g})
          ELSE SetReminding(j, "mark", reminding[j].list \ {g}, {})
    BY <1>2 DEF Mark
  <2>2. gift[g] \in GoodRows /\ SetGift(g, [gift[g] EXCEPT !.reminded = TRUE])
    BY <1>2 DEF Mark, Typed, Dates
  <2>3. CASE takesEmail
    <3> WITNESS {g} \in SUBSET {g}
    <3> QED BY <1>1, <1>2, <2>1, <2>2, <2>3
  <2>4. CASE ~takesEmail
    <3> WITNESS {} \in SUBSET {g}
    <3> QED BY <1>1, <1>2, <2>1, <2>2, <2>4
  <2> QED BY <2>3, <2>4
<1>3. CASE ~MayRemind(gift[g])
  <2> WITNESS {} \in SUBSET {g}
  <2> QED BY <1>1, <1>3 DEF Mark
<1> QED BY <1>2, <1>3

LEMMA TypedReminders ==
  ASSUME Typed, NEW j \in ReminderJobs,
         \/ StartReminders(j) \/ Send(j) \/ FailReminder(j)
         \/ \E g \in GiftIds : Mark(j, g)
  PROVE  Typed'
<1>1. reminding[j].list \in SUBSET GiftIds BY DEF Typed, TypeOK
<1>2. CASE StartReminders(j)
  <2>1. /\ SetReminding(j, "mark", ToRemind, {})
        /\ UNCHANGED <<gift, clock, members, webhooks, cleanup, cleaning, errors, history>>
    BY <1>2 DEF StartReminders
  <2>2. reminding' \in [ReminderJobs -> [at : {"idle", "mark", "send"},
                                         list : SUBSET GiftIds,
                                         sending : SUBSET GiftIds]]
    BY <2>1, DueAre, NothingSending
  <2> QED BY <2>1, <2>2, NoRowSet, RefundsTyped
       DEF Typed, TypeOK, members, webhooks, history
<1>3. CASE Send(j)
  <2>1. /\ SetReminding(j, "mark", reminding[j].list, {})
        /\ UNCHANGED <<gift, clock, members, webhooks, cleanup, cleaning, errors, confirmed, stale,
                       overtaken>>
    BY <1>3 DEF Send
  <2>2. reminders' \in [GiftIds -> Nat] BY <1>3 DEF Send, Typed, TypeOK
  <2>3. reminding' \in [ReminderJobs -> [at : {"idle", "mark", "send"},
                                         list : SUBSET GiftIds,
                                         sending : SUBSET GiftIds]]
    BY <1>1, <2>1, NothingSending
  <2> QED BY <2>1, <2>2, <2>3, NoRowSet, RefundsTyped
       DEF Typed, TypeOK, members, webhooks
<1>4. CASE FailReminder(j)
  <2>1. /\ Error
        /\ \E list \in SUBSET GiftIds : SetReminding(j, "mark", list, {})
        /\ UNCHANGED <<gift, clock, members, webhooks, cleanup, cleaning, history>>
    BY <1>1, <1>4 DEF FailReminder
  <2>2. reminding' \in [ReminderJobs -> [at : {"idle", "mark", "send"},
                                         list : SUBSET GiftIds,
                                         sending : SUBSET GiftIds]]
    BY <2>1, NothingSending
  <2> QED BY <2>1, <2>2, Failed, NoRowSet, RefundsTyped
       DEF Typed, TypeOK, members, webhooks, history
<1>5. CASE \E g \in GiftIds : Mark(j, g)
  <2> PICK g \in GiftIds : Mark(j, g) BY <1>5
  <2>1. PICK sending \in SUBSET {g} :
           /\ \/ SetReminding(j, "send", reminding[j].list \ {g}, sending)
              \/ SetReminding(j, "mark", reminding[j].list \ {g}, sending)
           /\ \/ /\ MayRemind(gift[g]) /\ gift[g] \in GoodRows
                 /\ SetGift(g, [gift[g] EXCEPT !.reminded = TRUE])
              \/ UNCHANGED gift /\ sending = {}
           /\ UNCHANGED <<clock, members, webhooks, cleanup, cleaning, errors, history>>
    BY Marked
  <2>2. gift' \in [GiftIds -> Rows] /\ Dates' /\ RefundsOK'
    <3>1. CASE UNCHANGED gift BY <2>1, <3>1, NoRowSet DEF webhooks
    <3>2. CASE MayRemind(gift[g]) /\ gift[g] \in GoodRows
               /\ SetGift(g, [gift[g] EXCEPT !.reminded = TRUE])
      <4> DEFINE row == [gift[g] EXCEPT !.reminded = TRUE]
      <4>1. gift[g].status # "none" BY <3>2 DEF MayRemind
      <4>2. row \in GoodRows BY <3>2, <4>1, RowsWritten
      <4>3. row.status # "none" BY <3>2, <4>1 DEF GoodRows, Rows
      <4>4. SetGift(g, row) BY <3>2
      <4> HIDE DEF row
      <4> QED BY <2>1, <4>2, <4>3, <4>4, RowSet DEF webhooks
    <3> QED BY <2>1, <3>1, <3>2
  <2>3. reminding' \in [ReminderJobs -> [at : {"idle", "mark", "send"},
                                          list : SUBSET GiftIds,
                                          sending : SUBSET GiftIds]]
    BY <1>1, <2>1, RemindingSet
  <2> QED BY <2>1, <2>2, <2>3, RefundsTyped DEF Typed, TypeOK, members, webhooks, history
<1> QED BY <1>2, <1>3, <1>4, <1>5

LEMMA TypedCleaning ==
  ASSUME Typed, SelectExpired \/ DeleteExpired \/ SelectComped \/ UpdateComped \/ FailCleaning
  PROVE  Typed'
<1>0. cleaning \in CleaningTypes /\ Clean \in CleaningTypes
  BY DEF Typed, TypeOK, CleaningTypes, Clean
<1>1. CASE SelectExpired
  <2>1. Over \subseteq Members \X GiftIds BY DEF Over
  <2>2. \A r \in Over : r[1] \in Members BY <2>1
  <2>3. cleaning' \in CleaningTypes BY <1>1, <2>1, <2>2 DEF SelectExpired, CleaningTypes
  <2>4. /\ UNCHANGED <<gift, refunds>>
        /\ UNCHANGED <<clock, members, webhooks, cleanup, reminding, errors, history>>
    BY <1>1 DEF SelectExpired, webhooks
  <2> QED BY <2>3, <2>4, NoRowSet, RefundsTyped
       DEF CleaningTypes, Typed, TypeOK, members, webhooks, history
<1>2. CASE DeleteExpired
  <2>1. tier' \in [Members -> SUBSET GiftIds] BY <1>2 DEF DeleteExpired, Typed, TypeOK
  <2>2. cleaning' \in CleaningTypes BY <1>0, <1>2 DEF DeleteExpired, CleaningTypes
  <2>3. /\ UNCHANGED <<gift, refunds>>
        /\ UNCHANGED <<clock, status, subscribed, webhooks, cleanup, reminding, errors,
                       history>>
    BY <1>2 DEF DeleteExpired, webhooks
  <2> QED BY <2>1, <2>2, <2>3, NoRowSet, RefundsTyped
       DEF CleaningTypes, Typed, TypeOK, webhooks, history
<1>3. CASE SelectComped
  <2>1. cleaning' \in CleaningTypes BY <1>0, <1>3 DEF SelectComped, CleaningTypes
  <2>2. /\ UNCHANGED <<gift, refunds>>
        /\ UNCHANGED <<clock, members, webhooks, cleanup, reminding, errors, history>>
    BY <1>3 DEF SelectComped, webhooks
  <2> QED BY <2>1, <2>2, NoRowSet, RefundsTyped
       DEF CleaningTypes, Typed, TypeOK, members, webhooks, history
<1>4. CASE UpdateComped
  <2>1. /\ status' \in [Members -> MemberStatuses] /\ overtaken' \subseteq Members
    BY <1>0, <1>4 DEF UpdateComped, CleaningTypes, Typed, TypeOK, MemberStatuses
  <2>2. cleaning' \in CleaningTypes BY <1>0, <1>4 DEF UpdateComped
  <2>3. /\ UNCHANGED <<gift, refunds>>
        /\ UNCHANGED <<clock, tier, subscribed, webhooks, cleanup, reminding, errors,
                       confirmed, reminders, stale>>
    BY <1>4 DEF UpdateComped, webhooks
  <2> QED BY <2>1, <2>2, <2>3, NoRowSet, RefundsTyped
       DEF CleaningTypes, Typed, TypeOK, webhooks
<1>5. CASE FailCleaning
  <2>1. cleaning' \in CleaningTypes BY <1>0, <1>5 DEF FailCleaning
  <2>2. /\ UNCHANGED <<gift, refunds>> /\ Error
        /\ UNCHANGED <<clock, members, webhooks, cleanup, reminding, history>>
    BY <1>5 DEF FailCleaning, webhooks
  <2> QED BY <2>1, <2>2, Failed, NoRowSet, RefundsTyped
       DEF CleaningTypes, Typed, TypeOK, members, webhooks, history
<1> QED BY <1>1, <1>2, <1>3, <1>4, <1>5

LEMMA TypedRest ==
  ASSUME Typed, Crash \/ UNCHANGED vars
  PROVE  Typed'
<1>1. CASE Crash
  <2>1. /\ Error /\ UNCHANGED <<gift, clock, members, history>>
        /\ deliveries' = [g \in GiftIds |-> 0] /\ activations' = {}
        /\ refunds' = [w \in Webhooks |-> <<>>]
        /\ cleanup' = [j \in CleanupJobs |-> [at |-> "idle", list |-> {}]]
        /\ reminding' = [j \in ReminderJobs |->
                            [at |-> "idle", list |-> {}, sending |-> {}]]
        /\ cleaning' = Clean
    BY <1>1 DEF Crash
  <2>2. RefundsOK' BY <2>1, NextRefundState DEF RefundsOK
  <2>3. /\ deliveries' \in [GiftIds -> 0..MaxDeliveries]
        /\ cleanup' \in [CleanupJobs -> [at : {"idle", "consume", "expire"},
                                          list : SUBSET GiftIds]]
        /\ reminding' \in [ReminderJobs -> [at : {"idle", "mark", "send"},
                                             list : SUBSET GiftIds,
                                             sending : SUBSET GiftIds]]
    BY <2>1, GiftAssumption
  <2>4. cleaning' \in CleaningTypes BY <2>1 DEF Clean, CleaningTypes
  <2> QED BY <2>1, <2>2, <2>3, <2>4, Failed, RowsKept, RefundsTyped
       DEF CleaningTypes, Typed, TypeOK, members, history
<1>2. CASE UNCHANGED vars
  <2>1. /\ UNCHANGED <<gift, refunds>>
        /\ UNCHANGED <<clock, status, tier, subscribed, deliveries, activations,
                       cleanup, reminding, cleaning, errors, confirmed, reminders, stale,
                       overtaken>>
    BY <1>2 DEF vars, members, webhooks, jobs, history
  <2> QED BY <2>1, NoRowSet, RefundsTyped DEF Typed, TypeOK
<1> QED BY <1>1, <1>2

LEMMA TypedInit == Init => Typed
<1> SUFFICES ASSUME Init PROVE Typed OBVIOUS
<1>1. Dates BY NoGiftIs DEF Init, Dates
<1>2. RefundsOK BY NextRefundState DEF Init, RefundsOK
<1>3. \A w \in Webhooks : Len(refunds[w]) \in 0..2 BY DEF Init
<1>4. /\ gift \in [GiftIds -> Rows] BY NoGiftIs DEF Init, GoodRows
<1>5. /\ clock \in [GiftIds -> ClockValues]
      /\ status \in [Members -> MemberStatuses]
  <2>1. "far" \in ClockValues BY DEF ClockValues, Clock
  <2> QED BY <2>1 DEF Init, MemberStatuses
<1>6. Clean \in CleaningTypes BY DEF Clean, CleaningTypes
<1> QED BY <1>1, <1>2, <1>3, <1>4, <1>5, <1>6, GiftAssumption
     DEF CleaningTypes, Init, Typed, TypeOK

LEMMA TypedNext == Typed /\ [Next]_vars => Typed'
<1> SUFFICES ASSUME Typed, [Next]_vars PROVE Typed' OBVIOUS
<1> QED BY TypedPurchase, TypedRedeem, TypedRefund, TypedMember, TypedActivation,
           TypedCleanup, TypedReminders, TypedCleaning, TypedRest DEF Next, CleanupStep

LEMMA AlwaysTyped == Spec => []Typed
<1> QED BY TypedInit, TypedNext, PTL DEF Spec

\* The rows are what the schema allows, and what is kept between two queries
\* is what was read.
THEOREM Typing == Spec => []TypeOK
<1>1. Typed => TypeOK BY DEF Typed
<1> QED BY <1>1, AlwaysTyped, PTL

-----------------------------------------------------------------------------
\* What a step may make of a gift.

\* No reminder is left to send for the gift.
Told(row) == row.reminded \/ row.status \in Ended

MayBecome(old, new) ==
    /\ old.status = new.status \/ <<old.status, new.status>> \in GiftMoves
    /\ Told(old) => Told(new)

LEMMA SameRow == \A row : MayBecome(row, row) BY DEF MayBecome

LEMMA MayBe ==
  ASSUME NEW row \in GoodRows
  PROVE  /\ row.status = "redeemed" => MayBecome(row, ConsumedRow(row))
         /\ row.status = "purchased" =>
              MayBecome(row, [row EXCEPT !.status = "expired", !.expired = TRUE])
         /\ MayBecome(row, [row EXCEPT !.reminded = TRUE])
         /\ \A m \in Members \cup {NoMember} :
              /\ MayBecome(row, [row EXCEPT !.redeemer = m])
              /\ row.status = "purchased" =>
                   MayBecome(row, [row EXCEPT !.redeemer = m, !.redeemed = TRUE,
                                              !.status = "redeemed"])
         /\ \A old \in GoodRows :
              old.status # "none" => MayBecome(old, RefundedRow(row))
  BY DEF MayBecome, Told, Ended, GiftMoves, ConsumedRow, RefundedRow, GoodRows, Rows,
         GiftStatuses

\* All that is said of a gift is in its row: one row changes.
LEMMA OneMoves ==
  ASSUME Typed, NEW g \in GiftIds, NEW row, SetGift(g, row), MayBecome(gift[g], row)
  PROVE  \A h \in GiftIds : MayBecome(gift[h], gift'[h])
<1>1. gift'[g] = row /\ \A h \in GiftIds \ {g} : gift'[h] = gift[h]
  BY DEF Typed, TypeOK, SetGift
<1> QED BY <1>1, SameRow

\* A step of clean-expired-comped.
CleaningStep == \/ SelectExpired \/ DeleteExpired \/ SelectComped \/ UpdateComped
                \/ FailCleaning

LEMMA Moves ==
  ASSUME Typed, [Next]_vars
  PROVE  \A h \in GiftIds : MayBecome(gift[h], gift'[h])
<1>0. \A g \in GiftIds : gift[g] \in GoodRows BY DEF Typed, Dates
<1>1. ASSUME UNCHANGED gift PROVE \A h \in GiftIds : MayBecome(gift[h], gift'[h])
  BY <1>1, SameRow
<1>2. ASSUME NEW g \in GiftIds, Create(g)
      PROVE  \A h \in GiftIds : MayBecome(gift[h], gift'[h])
  <2>1. CASE CanCreate(g)
    <3> DEFINE row == [NoGift EXCEPT !.status = "purchased"]
    <3>1. gift[g] = NoGift BY <1>0, <2>1 DEF CanCreate, GoodRows, Dated
    <3>2. MayBecome(NoGift, row) BY DEF MayBecome, Told, Ended, GiftMoves, NoGift
    <3>3. SetGift(g, row) BY <1>2, <2>1 DEF Create
    <3> HIDE DEF row
    <3> QED BY <3>1, <3>2, <3>3, OneMoves
  <2>2. CASE ~CanCreate(g) BY <1>1, <1>2, <2>2 DEF Create
  <2> QED BY <2>1, <2>2
<1>3. ASSUME NEW g \in GiftIds, NEW m \in Members, Redeem(g, m)
      PROVE  \A h \in GiftIds : MayBecome(gift[h], gift'[h])
  <2>1. gift[g].status = "purchased"
    BY <1>0, <1>3 DEF Redeem, IsRedeemable, GoodRows, Dated, Rows, GiftStatuses
  <2> QED BY <1>0, <1>3, <2>1, MayBe, OneMoves DEF Redeem
<1>4. ASSUME NEW g \in GiftIds, NEW m \in Members, Reassign(g, m)
      PROVE  \A h \in GiftIds : MayBecome(gift[h], gift'[h])
  BY <1>0, <1>4, MayBe, OneMoves DEF Reassign
<1>5. ASSUME NEW w \in Webhooks, WriteRefund(w)
      PROVE  \A h \in GiftIds : MayBecome(gift[h], gift'[h])
  <2> DEFINE g == refunds[w][1].gift
             row == refunds[w][1].row
  <2>1. refunds[w] # <<>> /\ (UNCHANGED gift \/ SetGift(g, RefundedRow(row)))
    BY <1>5, RefundWritten
  <2>2. g \in GiftIds /\ row \in GoodRows /\ gift[g].status # "none" BY <2>1, ReadIs
  <2>3. MayBecome(gift[g], RefundedRow(row)) BY <1>0, <2>2, MayBe
  <2> HIDE DEF g, row
  <2> QED BY <1>1, <2>1, <2>2, <2>3, OneMoves
<1>6. ASSUME NEW m \in Members, Delete(m)
      PROVE  \A h \in GiftIds : MayBecome(gift[h], gift'[h])
  BY <1>0, <1>6, MayBe, SameRow DEF Delete
<1>7. ASSUME NEW a \in activations, ConsumeForPaid(a)
      PROVE  \A h \in GiftIds : MayBecome(gift[h], gift'[h])
  <2>1. PICK g \in a.gift :
          IF IsRedeemed(gift[g]) THEN SetGift(g, ConsumedRow(gift[g])) ELSE UNCHANGED gift
    BY <1>7 DEF ConsumeForPaid
  <2>2. g \in GiftIds BY DEF Typed, TypeOK
  <2> QED BY <1>0, <1>1, <2>1, <2>2, MayBe, OneMoves DEF IsRedeemed
<1>8. ASSUME NEW j \in CleanupJobs, NEW g \in GiftIds, ConsumeOne(j, g)
      PROVE  \A h \in GiftIds : MayBecome(gift[h], gift'[h])
  BY <1>0, <1>1, <1>8, MayBe, OneMoves DEF ConsumeOne, IsRedeemed
<1>9. ASSUME NEW j \in CleanupJobs, NEW g \in GiftIds, ExpireOne(j, g)
      PROVE  \A h \in GiftIds : MayBecome(gift[h], gift'[h])
  BY <1>0, <1>1, <1>9, MayBe, OneMoves DEF ExpireOne, MayExpire
<1>10. ASSUME NEW j \in ReminderJobs, NEW g \in GiftIds, Mark(j, g)
       PROVE  \A h \in GiftIds : MayBecome(gift[h], gift'[h])
  BY <1>0, <1>1, <1>10, MayBe, OneMoves DEF Mark
<1>11. ASSUME UNCHANGED gift \/ UNCHANGED vars
       PROVE  \A h \in GiftIds : MayBecome(gift[h], gift'[h])
  BY <1>1, <1>11 DEF vars
<1>12. /\ \A g \in GiftIds : Deliver(g) \/ Tick(g) => UNCHANGED gift
       /\ \A w \in Webhooks, g \in GiftIds : ReadRefund(w, g) => UNCHANGED gift
       /\ \A w \in Webhooks : BeginRefund(w) \/ FailRefund(w) => UNCHANGED gift
       /\ \A m \in Members : Subscribe(m) \/ Renew(m) \/ Cancel(m) => UNCHANGED gift
       /\ \A a \in activations : FindGift(a) \/ FailActivation(a) => UNCHANGED gift
       /\ \A j \in CleanupJobs :
            StartCleanup(j) \/ StartExpiry(j) \/ FailCleanup(j) => UNCHANGED gift
       /\ \A j \in ReminderJobs :
            StartReminders(j) \/ Send(j) \/ FailReminder(j) => UNCHANGED gift
       /\ CleaningStep \/ Crash => UNCHANGED gift
  BY DEF Deliver, Tick, ReadRefund, BeginRefund, FailRefund, Subscribe, Renew, Cancel,
         FindGift, FailActivation, StartCleanup, StartExpiry, FailCleanup, StartReminders,
         Send, FailReminder, CleaningStep, SelectExpired, DeleteExpired, SelectComped,
         UpdateComped, FailCleaning, Crash
<1> QED BY <1>2, <1>3, <1>4, <1>5, <1>6, <1>7, <1>8, <1>9, <1>10, <1>11, <1>12
     DEF Next, CleaningStep

\* A gift is not used after it has ended.
THEOREM EndedGiftsStayEnded_holds == Spec => EndedGiftsStayEnded
<1>1. Typed /\ [Next]_vars =>
        [\A g \in GiftIds :
           \/ gift'[g].status = gift[g].status
           \/ <<gift[g].status, gift'[g].status>> \in GiftMoves]_vars
  BY Moves DEF MayBecome
<1> QED BY <1>1, AlwaysTyped, PTL DEF Spec, EndedGiftsStayEnded

-----------------------------------------------------------------------------
(* What is sent.  A gift that is not there has not been confirmed; a       *)
(* reminder that is being sent or was sent left its mark; and two jobs do  *)
(* not send the same one.                                                  *)
Confirmed ==
    \A g \in GiftIds : confirmed[g] <= 1 /\ (gift[g].status = "none" => confirmed[g] = 0)

Reminded ==
    \A g \in GiftIds :
        /\ reminders[g] <= 1 /\ (reminders[g] > 0 => Told(gift[g]))
        /\ \A i \in ReminderJobs : g \in reminding[i].sending =>
             /\ reminders[g] = 0 /\ Told(gift[g])
             /\ \A j \in ReminderJobs : g \in reminding[j].sending => i = j

LEMMA MailedInit == Init => Confirmed /\ Reminded
  BY DEF Init, Confirmed, Reminded

LEMMA Unmailed ==
  ASSUME Typed, Reminded, [Next]_vars, UNCHANGED <<reminding, reminders>>
  PROVE  Reminded'
  BY Moves DEF Reminded, MayBecome

LEMMA ConfirmedNext == Typed /\ Confirmed /\ [Next]_vars => Confirmed'
<1> SUFFICES ASSUME Typed, Confirmed, [Next]_vars PROVE Confirmed' OBVIOUS
<1>1. ASSUME NEW g \in GiftIds, Create(g) PROVE Confirmed'
  <2>1. CASE CanCreate(g)
    <3>1. /\ gift[g].status = "none" /\ gift'[g].status = "purchased"
          /\ confirmed' = [confirmed EXCEPT ![g] = confirmed[g] + 1]
          /\ \A h \in GiftIds \ {g} : gift'[h] = gift[h]
      BY <1>1, <2>1, NoGiftIs
         DEF Create, CanCreate, SetGift, Typed, TypeOK, NoGift
    <3>2. confirmed \in [GiftIds -> Nat] BY DEF Typed, TypeOK
    <3> QED BY <3>1, <3>2 DEF Confirmed
  <2>2. CASE ~CanCreate(g) BY <1>1, <2>2 DEF Create, Confirmed
  <2> QED BY <2>1, <2>2
<1>2. CASE UNCHANGED confirmed
  <2>1. \A g \in GiftIds : gift[g].status # "none" => gift'[g].status # "none"
    <3>1. \A g \in GiftIds : MayBecome(gift[g], gift'[g]) BY Moves
    <3> QED BY <3>1 DEF MayBecome, GiftMoves
  <2>2. \A g \in GiftIds : gift'[g].status = "none" => gift[g].status = "none" BY <2>1
  <2> QED BY <1>2, <2>2 DEF Confirmed
<1>3. CASE UNCHANGED vars BY <1>2, <1>3 DEF vars, history
<1>4. /\ \A g \in GiftIds : Deliver(g) \/ Tick(g) => UNCHANGED confirmed
      /\ \A g \in GiftIds, m \in Members :
           Redeem(g, m) \/ Reassign(g, m) => UNCHANGED confirmed
      /\ \A w \in Webhooks, g \in GiftIds : ReadRefund(w, g) => UNCHANGED confirmed
      /\ \A w \in Webhooks :
           BeginRefund(w) \/ WriteRefund(w) \/ FailRefund(w) => UNCHANGED confirmed
      /\ \A m \in Members : Subscribe(m) \/ Renew(m) \/ Cancel(m) \/ Delete(m)
                               => UNCHANGED confirmed
      /\ \A a \in activations : FindGift(a) \/ ConsumeForPaid(a) \/ FailActivation(a)
                                  => UNCHANGED confirmed
      /\ \A j \in CleanupJobs, g \in GiftIds :
           ConsumeOne(j, g) \/ ExpireOne(j, g) => UNCHANGED confirmed
      /\ \A j \in CleanupJobs :
           StartCleanup(j) \/ StartExpiry(j) \/ FailCleanup(j) => UNCHANGED confirmed
      /\ \A j \in ReminderJobs, g \in GiftIds : Mark(j, g) => UNCHANGED confirmed
      /\ \A j \in ReminderJobs :
           StartReminders(j) \/ Send(j) \/ FailReminder(j) => UNCHANGED confirmed
      /\ CleaningStep \/ Crash => UNCHANGED confirmed
  BY DEF Deliver, Tick, Redeem, Reassign, ReadRefund, BeginRefund, WriteRefund, FailRefund,
         Subscribe, Renew, Cancel, Delete, FindGift, ConsumeForPaid, FailActivation,
         StartCleanup, ConsumeOne, ExpireOne, StartExpiry, FailCleanup, StartReminders, Mark,
         Send, FailReminder, CleaningStep, SelectExpired, DeleteExpired, SelectComped,
         UpdateComped, FailCleaning, Crash, history
<1> QED BY <1>1, <1>2, <1>3, <1>4 DEF Next, CleaningStep

LEMMA RemindedNext == Typed /\ Reminded /\ [Next]_vars => Reminded'
<1> SUFFICES ASSUME Typed, Reminded, [Next]_vars PROVE Reminded' OBVIOUS
<1>0. \A g \in GiftIds : MayBecome(gift[g], gift'[g]) BY Moves
<1>1. CASE UNCHANGED <<reminding, reminders>> BY <1>1, Unmailed
<1>2. ASSUME NEW j \in ReminderJobs, NEW list \in SUBSET GiftIds,
             SetReminding(j, "mark", list, {}), UNCHANGED reminders
      PROVE  Reminded'
  <2>1. /\ reminding'[j].sending = {}
        /\ \A i \in ReminderJobs \ {j} : reminding'[i] = reminding[i]
    BY <1>2, NothingSending
  <2> QED BY <1>0, <1>2, <2>1 DEF Reminded, MayBecome
<1>3. ASSUME NEW j \in ReminderJobs, NEW g \in GiftIds, Mark(j, g) PROVE Reminded'
  <2>1. PICK sending \in SUBSET {g} :
           /\ \/ SetReminding(j, "send", reminding[j].list \ {g}, sending)
              \/ SetReminding(j, "mark", reminding[j].list \ {g}, sending)
           /\ \/ /\ MayRemind(gift[g]) /\ gift[g] \in GoodRows
                 /\ SetGift(g, [gift[g] EXCEPT !.reminded = TRUE])
              \/ UNCHANGED gift /\ sending = {}
           /\ UNCHANGED <<clock, members, webhooks, cleanup, cleaning, errors, history>>
    BY <1>3, Marked
  <2>2. reminding[j].list \ {g} \in SUBSET GiftIds BY DEF Typed, TypeOK
  <2>3. sending \in SUBSET GiftIds OBVIOUS
  <2>4. /\ reminding'[j].sending = sending
        /\ \A i \in ReminderJobs \ {j} : reminding'[i] = reminding[i]
    BY <2>1, <2>2, <2>3, RemindingSet
  <2>5. UNCHANGED reminders BY <2>1 DEF history
  <2>8. \A h \in GiftIds : Told(gift[h]) => Told(gift'[h]) BY <1>0 DEF MayBecome
  <2>6. CASE sending = {} BY <1>0, <2>4, <2>5, <2>6 DEF Reminded, MayBecome
  <2>7. CASE sending = {g}
    <3>1. ~Told(gift[g]) BY <2>1, <2>7 DEF MayRemind, Told, Ended
    <3>2. gift'[g].reminded
      BY <2>1, <2>7 DEF SetGift, GoodRows, Rows, Typed, TypeOK
    <3>3. reminders[g] = 0 /\ \A i \in ReminderJobs : g \notin reminding[i].sending
      BY <3>1 DEF Reminded, Typed, TypeOK
    <3>4. /\ Told(gift'[g]) /\ reminders'[g] = 0
          /\ \A i \in ReminderJobs : g \in reminding'[i].sending => i = j
      BY <2>4, <2>5, <3>2, <3>3 DEF Told
    <3>5. \A h \in GiftIds \ {g}, i \in ReminderJobs :
            h \in reminding'[i].sending => h \in reminding[i].sending
      BY <2>4, <2>7
    <3> QED BY <2>5, <2>8, <3>4, <3>5 DEF Reminded
  <2> QED BY <2>6, <2>7
<1>4. ASSUME NEW j \in ReminderJobs, Send(j) PROVE Reminded'
  <2>1. /\ reminding'[j].sending = {}
        /\ \A i \in ReminderJobs \ {j} : reminding'[i] = reminding[i]
    <3>1. reminding[j].list \in SUBSET GiftIds BY DEF Typed, TypeOK
    <3> QED BY <1>4, <3>1, NothingSending DEF Send
  <2>2. \A g \in GiftIds : reminders'[g] = IF g \in reminding[j].sending THEN reminders[g] + 1
                                           ELSE reminders[g]
    BY <1>4 DEF Send
  <2>3. reminders \in [GiftIds -> Nat] BY DEF Typed, TypeOK
  <2>4. \A h \in GiftIds : Told(gift[h]) => Told(gift'[h]) BY <1>0 DEF MayBecome
  <2>5. \A h \in GiftIds, i \in ReminderJobs :
          h \in reminding'[i].sending => h \in reminding[i].sending /\ i # j
    BY <2>1
  <2>6. ASSUME NEW h \in GiftIds
        PROVE  /\ reminders'[h] <= 1 /\ (reminders'[h] > 0 => Told(gift'[h]))
               /\ \A i \in ReminderJobs : h \in reminding'[i].sending => reminders'[h] = 0
    <3>1. CASE h \in reminding[j].sending
      <4>1. /\ reminders'[h] = 1 /\ Told(gift'[h])
            /\ \A i \in ReminderJobs : h \in reminding[i].sending => i = j
        BY <2>2, <2>4, <3>1 DEF Reminded
      <4> QED BY <2>5, <4>1
    <3>2. CASE h \notin reminding[j].sending
      BY <2>2, <2>3, <2>4, <2>5, <3>2 DEF Reminded
    <3> QED BY <3>1, <3>2
  <2> QED BY <2>4, <2>5, <2>6 DEF Reminded
<1>5. CASE Crash
  <2>1. UNCHANGED reminders /\ \A j \in ReminderJobs : reminding'[j].sending = {}
    BY <1>5 DEF Crash, history
  <2> QED BY <1>0, <2>1 DEF Reminded, MayBecome
<1>6. ASSUME NEW j \in ReminderJobs, StartReminders(j) \/ FailReminder(j)
      PROVE  Reminded'
  <2>1. reminding[j].list \in SUBSET GiftIds BY DEF Typed, TypeOK
  <2>2. /\ \E list \in SUBSET GiftIds : SetReminding(j, "mark", list, {})
        /\ UNCHANGED reminders
    BY <1>6, <2>1, DueAre DEF StartReminders, FailReminder, history
  <2> QED BY <1>2, <2>2
<1>7. CASE UNCHANGED vars BY <1>1, <1>7 DEF vars, jobs, history
<1>8. LET Same == UNCHANGED <<reminding, reminders>> IN
      /\ \A g \in GiftIds : Deliver(g) \/ Create(g) \/ Tick(g) => Same
      /\ \A g \in GiftIds, m \in Members : Redeem(g, m) \/ Reassign(g, m) => Same
      /\ \A w \in Webhooks, g \in GiftIds : ReadRefund(w, g) => Same
      /\ \A w \in Webhooks : BeginRefund(w) \/ WriteRefund(w) \/ FailRefund(w) => Same
      /\ \A m \in Members : Subscribe(m) \/ Renew(m) \/ Cancel(m) \/ Delete(m) => Same
      /\ \A a \in activations : FindGift(a) \/ ConsumeForPaid(a) \/ FailActivation(a)
                                  => Same
      /\ \A j \in CleanupJobs, g \in GiftIds : ConsumeOne(j, g) \/ ExpireOne(j, g) => Same
      /\ \A j \in CleanupJobs :
           StartCleanup(j) \/ StartExpiry(j) \/ FailCleanup(j) => Same
      /\ CleaningStep => Same
  BY DEF Deliver, Create, Tick, Redeem, Reassign, ReadRefund, BeginRefund, WriteRefund,
         FailRefund, Subscribe, Renew, Cancel, Delete, FindGift, ConsumeForPaid,
         FailActivation, StartCleanup, ConsumeOne, ExpireOne, StartExpiry, FailCleanup,
         CleaningStep, SelectExpired, DeleteExpired, SelectComped, UpdateComped,
         FailCleaning, history, jobs
<1> QED BY <1>1, <1>3, <1>4, <1>5, <1>6, <1>7, <1>8 DEF Next, CleaningStep

\* A purchase is confirmed once, and a reminder is sent once.
THEOREM MailedOnce_holds == Spec => []MailedOnce
<1>1. Typed /\ Confirmed /\ Reminded => MailedOnce
  BY DEF Confirmed, Reminded, MailedOnce
<1> QED BY <1>1, AlwaysTyped, MailedInit, ConfirmedNext, RemindedNext, PTL DEF Spec

-----------------------------------------------------------------------------
\* Who uses which gift, and the steps that matter to it.

LEMMA ActiveAfter ==
  ASSUME Typed, NEW g \in GiftIds, NEW row \in GoodRows, SetGift(g, row)
  PROVE  \A m \in Members :
           ActiveGifts(m)' = IF row.status = "redeemed" /\ row.redeemer = m
                             THEN ActiveGifts(m) \cup {g} ELSE ActiveGifts(m) \ {g}
<1>1. gift'[g] = row /\ \A h \in GiftIds \ {g} : gift'[h] = gift[h] BY Written
<1> QED BY <1>1 DEF ActiveGifts

\* A step that leaves members, their gifts and the events of subscriptions alone.
Quiet == /\ UNCHANGED <<members, activations, stale, overtaken>>
         /\ \A m \in Members : ActiveGifts(m)' = ActiveGifts(m)

LEMMA QuietSteps ==
  ASSUME Typed, [Next]_vars
  PROVE  \/ Quiet
         \/ \E g \in GiftIds, m \in Members : Redeem(g, m) \/ Reassign(g, m)
         \/ \E w \in Webhooks : WriteRefund(w)
         \/ \E m \in Members : Subscribe(m) \/ Renew(m) \/ Cancel(m) \/ Delete(m)
         \/ \E a \in activations : FindGift(a) \/ ConsumeForPaid(a) \/ FailActivation(a)
         \/ \E j \in CleanupJobs, g \in GiftIds : ConsumeOne(j, g)
         \/ DeleteExpired \/ UpdateComped \/ Crash
<1>0. \A g \in GiftIds : gift[g] \in GoodRows BY DEF Typed, Dates
<1>1. ASSUME UNCHANGED <<gift, members, activations, stale, overtaken>> PROVE Quiet
  BY <1>1 DEF Quiet, ActiveGifts
<1>2. ASSUME NEW g \in GiftIds, Create(g) PROVE Quiet
  <2>1. UNCHANGED <<members, activations, stale, overtaken>> BY <1>2 DEF Create
  <2>2. CASE CanCreate(g)
    <3> DEFINE row == [NoGift EXCEPT !.status = "purchased"]
    <3>1. /\ row.status = "purchased"
          /\ gift[g].status = "none" /\ SetGift(g, row)
      BY <1>2, <2>2 DEF Create, CanCreate, NoGift
    <3>2. row \in GoodRows BY DEF NoGift, GoodRows, Rows, Dated, GiftStatuses
    <3> HIDE DEF row
    <3>3. \A m \in Members : ActiveGifts(m)' = ActiveGifts(m) \ {g}
      BY <3>1, <3>2, ActiveAfter
    <3>4. \A m \in Members : g \notin ActiveGifts(m) BY <3>1 DEF ActiveGifts
    <3> QED BY <2>1, <3>3, <3>4 DEF Quiet
  <2>3. CASE ~CanCreate(g) BY <1>1, <1>2, <2>1, <2>3 DEF Create
  <2> QED BY <2>2, <2>3
<1>3. ASSUME NEW j \in CleanupJobs, NEW g \in GiftIds, ExpireOne(j, g) PROVE Quiet
  <2>1. UNCHANGED <<members, activations, stale, overtaken>>
    BY <1>3 DEF ExpireOne, webhooks, history
  <2>2. CASE MayExpire(gift[g])
    <3> DEFINE row == [gift[g] EXCEPT !.status = "expired", !.expired = TRUE]
    <3>1. gift[g].status = "purchased" /\ SetGift(g, row)
      BY <1>3, <2>2 DEF ExpireOne, MayExpire
    <3>2. row \in GoodRows /\ row.status = "expired"
      <4>1. row.status = "expired" BY <1>0 DEF GoodRows, Rows
      <4> QED BY <1>0, <3>1, <4>1, RowsWritten
    <3> HIDE DEF row
    <3>3. \A m \in Members : ActiveGifts(m)' = ActiveGifts(m) \ {g}
      BY <3>1, <3>2, ActiveAfter
    <3>4. \A m \in Members : g \notin ActiveGifts(m) BY <3>1 DEF ActiveGifts
    <3> QED BY <2>1, <3>3, <3>4 DEF Quiet
  <2>3. CASE ~MayExpire(gift[g]) BY <1>1, <1>3, <2>1, <2>3 DEF ExpireOne
  <2> QED BY <2>2, <2>3
<1>4. ASSUME NEW j \in ReminderJobs, NEW g \in GiftIds, Mark(j, g) PROVE Quiet
  <2>1. UNCHANGED <<members, activations, stale, overtaken>>
    BY <1>4 DEF Mark, webhooks, history
  <2>2. CASE MayRemind(gift[g])
    <3>1. SetGift(g, [gift[g] EXCEPT !.reminded = TRUE]) BY <1>4, <2>2 DEF Mark
    <3>2. \A h \in GiftIds : /\ gift'[h].status = gift[h].status
                             /\ gift'[h].redeemer = gift[h].redeemer
      BY <1>0, <3>1 DEF SetGift, GoodRows, Rows, Typed, TypeOK
    <3> QED BY <2>1, <3>2 DEF Quiet, ActiveGifts
  <2>3. CASE ~MayRemind(gift[g]) BY <1>1, <1>4, <2>1, <2>3 DEF Mark
  <2> QED BY <2>2, <2>3
<1>5. CASE UNCHANGED vars BY <1>1, <1>5 DEF vars, webhooks, history
<1>6. LET Same == UNCHANGED <<gift, members, activations, stale, overtaken>> IN
      /\ \A g \in GiftIds : Deliver(g) \/ Tick(g) => Same
      /\ \A w \in Webhooks, g \in GiftIds : ReadRefund(w, g) => Same
      /\ \A w \in Webhooks : BeginRefund(w) \/ FailRefund(w) => Same
      /\ \A j \in CleanupJobs :
           StartCleanup(j) \/ StartExpiry(j) \/ FailCleanup(j) => Same
      /\ \A j \in ReminderJobs :
           StartReminders(j) \/ Send(j) \/ FailReminder(j) => Same
      /\ SelectExpired \/ SelectComped \/ FailCleaning => Same
  BY DEF Deliver, Tick, ReadRefund, BeginRefund, FailRefund, StartCleanup, StartExpiry,
         FailCleanup, StartReminders, Send, FailReminder, SelectExpired, SelectComped,
         FailCleaning, history, webhooks
<1> QED BY <1>1, <1>2, <1>3, <1>4, <1>5, <1>6 DEF Next

\* A refund that used nothing that had changed does what the clean-up does: the
\* gift ends, and its redeemer loses the status "gift".
LEMMA FreshRefund ==
  ASSUME Typed, NEW w \in Webhooks, WriteRefund(w), stale' = {}
  PROVE  /\ stale = {} /\ UNCHANGED <<clock, activations, errors, overtaken>>
         /\ \/ UNCHANGED <<gift, members>>
            \/ \E g \in GiftIds : /\ SetGift(g, RefundedRow(gift[g]))
                                  /\ gift[g].status # "none"
                                  /\ Downgrade(gift[g].redeemer)
<1> DEFINE g == refunds[w][1].gift
           row == refunds[w][1].row
           m == row.redeemer
           seen == refunds[w][2]
<1>1. /\ refunds[w] # <<>>
      /\ \/ UNCHANGED <<gift, members, stale>>
         \/ /\ SetGift(g, RefundedRow(row))
            /\ IF seen[1] = "gift" THEN Revoke(m, seen[2]) ELSE UNCHANGED members
            /\ stale' = IF gift[g] # row \/ Seen(m) # seen THEN stale \cup {g} ELSE stale
  BY RefundWritten DEF WriteRefund
<1>2. g \in GiftIds /\ gift[g].status # "none" BY <1>1, ReadIs
<1>3. UNCHANGED <<clock, activations, errors, overtaken>> BY DEF WriteRefund
<1> HIDE DEF g, row, seen
<1>4. CASE UNCHANGED <<gift, members, stale>> BY <1>3, <1>4
<1>5. CASE /\ SetGift(g, RefundedRow(row))
           /\ IF seen[1] = "gift" THEN Revoke(m, seen[2]) ELSE UNCHANGED members
           /\ stale' = IF gift[g] # row \/ Seen(m) # seen THEN stale \cup {g} ELSE stale
  <2>1. stale = {} /\ gift[g] = row /\ Seen(m) = seen BY <1>5
  <2>2. Downgrade(m)
    <3>1. CASE m = NoMember \/ status[m] = "deleted"
      BY <1>5, <2>1, <3>1 DEF Seen, Downgrade
    <3>2. CASE ~(m = NoMember \/ status[m] = "deleted")
      <4>1. seen[1] = status[m] /\ seen[2] = tier[m] BY <2>1, <3>2 DEF Seen
      <4> QED BY <1>5, <3>2, <4>1 DEF Downgrade
    <3> QED BY <3>1, <3>2
  <2> QED BY <1>2, <1>3, <1>5, <2>1, <2>2
<1> QED BY <1>1, <1>4, <1>5

LEMMA Ending ==
  ASSUME Typed, NEW g \in GiftIds, NEW row \in GoodRows, row.status \in Ended,
         SetGift(g, row), Downgrade(gift[g].redeemer)
  PROVE  /\ \A n \in Members : ActiveGifts(n)' = ActiveGifts(n) \ {g}
         /\ subscribed' = subscribed
         /\ \A n \in Members : status'[n] # status[n] \/ tier'[n] # tier[n] =>
              /\ n = gift[g].redeemer /\ status[n] = "gift" /\ tier[n] # {}
              /\ status'[n] = "free" /\ tier'[n] = {}
         /\ \A n \in Members : n = gift[g].redeemer /\ status[n] = "gift" =>
              tier'[n] = {} /\ (tier[n] # {} => status'[n] = "free")
<1>1. gift[g].redeemer \in Members \cup {NoMember} BY DEF Typed, TypeOK, Rows
<1>2. row.status # "redeemed" BY DEF Ended
<1> QED BY <1>1, <1>2, ActiveAfter, Downgraded

\* The end of a gift, of either kind.
EndsAny ==
    \E g \in GiftIds, row \in GoodRows :
        row.status \in Ended /\ SetGift(g, row) /\ Downgrade(gift[g].redeemer)

LEMMA ConsumedOne ==
  ASSUME Typed, NEW j \in CleanupJobs, NEW g \in GiftIds, ConsumeOne(j, g)
  PROVE  /\ EndsAny \/ UNCHANGED <<gift, members>>
         /\ UNCHANGED <<clock, activations, errors, stale, overtaken>>
<1>1. UNCHANGED <<clock, activations, errors, stale, overtaken>>
  BY DEF ConsumeOne, webhooks, history
<1>2. CASE IsRedeemed(gift[g])
  <2>1. ConsumedRow(gift[g]) \in GoodRows /\ ConsumedRow(gift[g]).status = "consumed"
    BY <1>2, RowsWritten DEF Typed, Dates, IsRedeemed
  <2> QED BY <1>1, <1>2, <2>1 DEF ConsumeOne, EndsAny, Ended
<1>3. CASE ~IsRedeemed(gift[g]) BY <1>1, <1>3 DEF ConsumeOne
<1> QED BY <1>2, <1>3

LEMMA Refunded ==
  ASSUME Typed, NEW w \in Webhooks, WriteRefund(w), stale' = {}
  PROVE  /\ EndsAny \/ UNCHANGED <<gift, members>>
         /\ stale = {} /\ UNCHANGED <<clock, activations, errors, overtaken>>
<1>1. ASSUME NEW g \in GiftIds, SetGift(g, RefundedRow(gift[g])),
             gift[g].status # "none", Downgrade(gift[g].redeemer)
      PROVE  EndsAny
  <2>1. RefundedRow(gift[g]) \in GoodRows /\ RefundedRow(gift[g]).status = "refunded"
    BY <1>1, RowsWritten DEF Typed, Dates
  <2> QED BY <1>1, <2>1 DEF EndsAny, Ended
<1> QED BY <1>1, FreshRefund

\* A paid member's gift is consumed.
LEMMA ConsumedForPaid ==
  ASSUME Typed, NEW a \in activations, ConsumeForPaid(a), stale' = {}
  PROVE  /\ stale = {} /\ UNCHANGED <<clock, members, errors, overtaken>>
         /\ activations' = activations \ {a}
         /\ a.member \in Members
         /\ \E g \in a.gift :
              /\ g \in GiftIds
              /\ \/ gift[g].redeemer = a.member
                 \/ gift[g].status # "redeemed"
              /\ \A n \in Members : ActiveGifts(n)' = ActiveGifts(n) \ {g}
<1>1. PICK g \in a.gift :
          IF IsRedeemed(gift[g])
          THEN /\ SetGift(g, ConsumedRow(gift[g]))
               /\ stale' = IF gift[g].redeemer # a.member THEN stale \cup {g} ELSE stale
          ELSE UNCHANGED <<gift, stale>>
  BY DEF ConsumeForPaid
<1>2. g \in GiftIds /\ a.member \in Members BY DEF Typed, TypeOK
<1>3. UNCHANGED <<clock, members, errors, overtaken>> /\ activations' = activations \ {a}
  BY DEF ConsumeForPaid
<1>4. CASE IsRedeemed(gift[g])
  <2>1. ConsumedRow(gift[g]) \in GoodRows /\ ConsumedRow(gift[g]).status = "consumed"
    BY <1>2, <1>4, RowsWritten DEF Typed, Dates, IsRedeemed
  <2>2. \A n \in Members : ActiveGifts(n)' = ActiveGifts(n) \ {g}
    BY <1>1, <1>2, <1>4, <2>1, ActiveAfter
  <2> QED BY <1>1, <1>2, <1>3, <1>4, <2>2
<1>5. CASE ~IsRedeemed(gift[g])
  <2>1. \A n \in Members : ActiveGifts(n)' = ActiveGifts(n) \ {g}
    BY <1>1, <1>5 DEF ActiveGifts, IsRedeemed
  <2> QED BY <1>1, <1>2, <1>3, <1>5, <2>1 DEF IsRedeemed
<1> QED BY <1>4, <1>5

\* A gift is redeemed by a member who had none, or given back to one who may
\* have it already.
LEMMA Given ==
  ASSUME Typed, NEW g \in GiftIds, NEW m \in Members, Redeem(g, m) \/ Reassign(g, m)
  PROVE  /\ status[m] \in {"free", "gift"} /\ tier'[m] = {g}
         /\ \/ m \notin subscribed /\ status'[m] = "gift"
            \/ (m \in subscribed \/ tier[m] # {}) /\ status'[m] = status[m]
         /\ subscribed' = subscribed /\ UNCHANGED <<activations, errors, stale, overtaken>>
         /\ \A n \in Members \ {m} : /\ status'[n] = status[n] /\ tier'[n] = tier[n]
                                     /\ ActiveGifts(n)' = ActiveGifts(n)
                                     /\ g \notin ActiveGifts(n)
         /\ ActiveGifts(m)' = ActiveGifts(m) \cup {g}
         /\ status[m] = "free" \/ ActiveGifts(m) \subseteq {g}
<1>0. gift[g] \in GoodRows BY DEF Typed, Dates
<1>1. /\ Grant(m, g) /\ UNCHANGED <<activations, errors, stale, overtaken>>
      /\ status[m] \in {"free", "gift"}
      /\ status[m] = "free" \/ ActiveGifts(m) \subseteq {g}
  BY DEF Redeem, Reassign, IsRedeemable, IsReassignableTo, HasNoOtherGift, webhooks, history
<1>2. \E row \in GoodRows : /\ row.status = "redeemed" /\ row.redeemer = m
                            /\ SetGift(g, row)
  <2>1. CASE Redeem(g, m)
    <3> DEFINE row == [gift[g] EXCEPT !.redeemer = m, !.redeemed = TRUE,
                                      !.status = "redeemed"]
    <3>1. gift[g].status # "none" /\ SetGift(g, row) BY <2>1 DEF Redeem, IsRedeemable
    <3>2. row \in GoodRows BY <1>0, <3>1, RowsWritten
    <3>3. row.status = "redeemed" /\ row.redeemer = m BY <1>0 DEF GoodRows, Rows
    <3> QED BY <3>1, <3>2, <3>3
  <2>2. CASE Reassign(g, m)
    <3> DEFINE row == [gift[g] EXCEPT !.redeemer = m]
    <3>1. gift[g].status = "redeemed" /\ SetGift(g, row)
      BY <2>2 DEF Reassign, IsReassignableTo
    <3>2. row \in GoodRows BY <1>0, <3>1, RowsWritten
    <3>3. row.status = "redeemed" /\ row.redeemer = m
      BY <1>0, <3>1 DEF GoodRows, Rows
    <3> QED BY <3>1, <3>2, <3>3
  <2> QED BY <2>1, <2>2
<1>3. \A n \in Members \ {m} : g \notin ActiveGifts(n)
  <2>1. gift[g].status # "redeemed" \/ gift[g].redeemer = NoMember
    BY <1>0 DEF Redeem, IsRedeemable, Reassign, IsReassignableTo, GoodRows, Dated
  <2> QED BY <2>1, GiftAssumption DEF ActiveGifts
<1>4. /\ \A n \in Members \ {m} : ActiveGifts(n)' = ActiveGifts(n)
      /\ ActiveGifts(m)' = ActiveGifts(m) \cup {g}
  <2>1. \A n \in Members : ActiveGifts(n)' = IF n = m THEN ActiveGifts(n) \cup {g}
                                             ELSE ActiveGifts(n) \ {g}
    BY <1>2, ActiveAfter
  <2> QED BY <1>3, <2>1
<1>5. /\ tier'[m] = {g} /\ subscribed' = subscribed
      /\ \/ m \notin subscribed /\ status'[m] = "gift"
         \/ (m \in subscribed \/ tier[m] # {}) /\ status'[m] = status[m]
      /\ \A n \in Members \ {m} : status'[n] = status[n] /\ tier'[n] = tier[n]
  BY <1>1, Granted
<1> QED BY <1>1, <1>3, <1>4, <1>5

\* clean-expired-comped takes tiers first, and the status of comped members, or of
\* members it has overtaken, later.
LEMMA Cleaned ==
  ASSUME Typed, NEW n \in Members, DeleteExpired \/ UpdateComped
  PROVE  /\ UNCHANGED <<gift, clock, subscribed, activations, errors, stale>>
         /\ overtaken \subseteq overtaken'
         /\ \/ /\ status'[n] = status[n]
               /\ tier'[n] = {g \in tier[n] : <<n, g>> \notin cleaning.rows}
            \/ status'[n] = status[n] /\ tier'[n] = tier[n]
            \/ /\ status[n] # "deleted" /\ status'[n] = "free" /\ tier'[n] = tier[n]
               /\ n \in overtaken' \/ (status[n] = "comped" /\ tier[n] = {})
<1>1. CASE DeleteExpired
  <2>1. /\ UNCHANGED <<gift, clock, subscribed, activations, errors, stale, overtaken, status>>
        /\ tier' = [m \in Members |-> {g \in tier[m] : <<m, g>> \notin cleaning.rows}]
    BY <1>1 DEF DeleteExpired, webhooks, history
  <2> QED BY <2>1
<1>2. CASE UpdateComped
  <2> DEFINE listed == {m \in cleaning.members : status[m] # "deleted"}
  <2>1. /\ UNCHANGED <<gift, clock, subscribed, activations, errors, stale, tier>>
        /\ status' = [m \in Members |-> IF m \in listed THEN "free" ELSE status[m]]
        /\ overtaken' = overtaken \cup {m \in listed : status[m] # "comped" \/ tier[m] # {}}
    BY <1>2 DEF UpdateComped, webhooks
  <2>2. CASE n \in listed BY <2>1, <2>2
  <2>3. CASE n \notin listed BY <2>1, <2>3
  <2> QED BY <2>2, <2>3
<1> QED BY <1>1, <1>2

-----------------------------------------------------------------------------
(* Access.  Unless something was written with what had changed since it    *)
(* was read, who pays is a paid member, or was made free by the job that   *)
(* overtook him; a member whose subscription is being handled still pays   *)
(* or is gone; and who has the status "gift" and its tier has a gift.      *)
Held(m) ==
    /\ m \in subscribed => status[m] = "paid" \/ (m \in overtaken /\ status[m] = "free")
    /\ \A a \in activations : a.member = m => m \in subscribed \/ status[m] = "deleted"
    /\ status[m] = "gift" /\ tier[m] # {} => ActiveGifts(m) # {}

AllHeld == stale = {} => \A m \in Members : Held(m)

LEMMA HeldInit == Init => AllHeld BY DEF Init, AllHeld, Held

\* A member to whom nothing happens.
LEMMA HeldKept ==
  ASSUME NEW m \in Members, Held(m), status'[m] = status[m], tier'[m] = tier[m],
         m \in subscribed' <=> m \in subscribed, m \in overtaken => m \in overtaken',
         ActiveGifts(m) # {} => ActiveGifts(m)' # {},
         \A a \in activations' : a.member = m => \E b \in activations : b.member = m
  PROVE  Held(m)'
  BY DEF Held

LEMMA HeldEnds ==
  ASSUME Typed, EndsAny, UNCHANGED <<activations, overtaken>>, NEW m \in Members, Held(m)
  PROVE  Held(m)'
<1>1. PICK g \in GiftIds, row \in GoodRows :
        row.status \in Ended /\ SetGift(g, row) /\ Downgrade(gift[g].redeemer)
  BY DEF EndsAny
<1>2. /\ ActiveGifts(m)' = ActiveGifts(m) \ {g}
      /\ subscribed' = subscribed
      /\ status'[m] # status[m] \/ tier'[m] # tier[m] =>
           /\ m = gift[g].redeemer /\ status[m] = "gift" /\ tier[m] # {}
           /\ status'[m] = "free" /\ tier'[m] = {}
      /\ m = gift[g].redeemer /\ status[m] = "gift" => tier'[m] = {}
  BY <1>1, Ending
<1>3. CASE m = gift[g].redeemer /\ status[m] = "gift"
  BY <1>2, <1>3 DEF Held
<1>4. CASE m = gift[g].redeemer /\ status[m] # "gift"
  BY <1>2, <1>4 DEF Held
<1>5. CASE m # gift[g].redeemer
  <2>1. g \notin ActiveGifts(m) BY <1>5 DEF ActiveGifts
  <2> QED BY <1>2, <1>5, <2>1, HeldKept
<1> QED BY <1>3, <1>4, <1>5

LEMMA HeldNext == Typed /\ AllHeld /\ [Next]_vars => AllHeld'
<1> SUFFICES ASSUME Typed, AllHeld, [Next]_vars, stale' = {}, NEW n \in Members
             PROVE  Held(n)'
  BY DEF AllHeld
<1>1. CASE Quiet BY <1>1, HeldKept DEF Quiet, members, AllHeld
<1>2. ASSUME NEW g \in GiftIds, NEW m \in Members, Redeem(g, m) \/ Reassign(g, m)
      PROVE  Held(n)'
  <2>1. Held(n) /\ Held(m) BY <1>2, Given DEF AllHeld
  <2>2. CASE n = m BY <1>2, <2>1, <2>2, Given DEF Held
  <2>3. CASE n # m BY <1>2, <2>1, <2>3, Given, HeldKept
  <2> QED BY <2>2, <2>3
<1>3. ASSUME NEW w \in Webhooks, WriteRefund(w) PROVE Held(n)'
  <2>1. /\ EndsAny \/ UNCHANGED <<gift, members>>
        /\ Held(n) /\ UNCHANGED <<activations, overtaken>>
    BY <1>3, Refunded DEF AllHeld
  <2>2. CASE UNCHANGED <<gift, members>>
    BY <2>1, <2>2, HeldKept DEF members, ActiveGifts
  <2> QED BY <2>1, <2>2, HeldEnds
<1>4. ASSUME NEW j \in CleanupJobs, NEW g \in GiftIds, ConsumeOne(j, g) PROVE Held(n)'
  <2>1. /\ EndsAny \/ UNCHANGED <<gift, members>>
        /\ Held(n) /\ UNCHANGED <<activations, overtaken>>
    BY <1>4, ConsumedOne DEF AllHeld
  <2>2. CASE UNCHANGED <<gift, members>>
    BY <2>1, <2>2, HeldKept DEF members, ActiveGifts
  <2> QED BY <2>1, <2>2, HeldEnds
<1>5. ASSUME NEW m \in Members, Subscribe(m) PROVE Held(n)'
  <2>1. /\ status' = [status EXCEPT ![m] = "paid"] /\ subscribed' = subscribed \cup {m}
        /\ activations' = activations \cup {[member |-> m, gift |-> {}]}
        /\ UNCHANGED <<gift, tier, stale, overtaken>>
    BY <1>5 DEF Subscribe, history
  <2>2. Held(n) /\ status \in [Members -> MemberStatuses]
    BY <2>1 DEF AllHeld, Typed, TypeOK
  <2>3. CASE n = m BY <2>1, <2>2, <2>3 DEF Held
  <2>4. CASE n # m BY <2>1, <2>2, <2>4, HeldKept DEF ActiveGifts
  <2> QED BY <2>3, <2>4
<1>6. ASSUME NEW m \in Members, Cancel(m) PROVE Held(n)'
  <2>1. /\ \A a \in activations : a.member # m
        /\ subscribed' = subscribed \ {m}
        /\ \/ status' = [status EXCEPT ![m] = "free"] /\ tier' = [tier EXCEPT ![m] = {}]
           \/ status' = [status EXCEPT ![m] = "comped"] /\ UNCHANGED tier
        /\ UNCHANGED <<gift, activations, stale, overtaken>>
    BY <1>6 DEF Cancel, history, webhooks
  <2>2. /\ Held(n) /\ status \in [Members -> MemberStatuses]
        /\ tier \in [Members -> SUBSET GiftIds]
    BY <2>1 DEF AllHeld, Typed, TypeOK
  <2>3. CASE n = m BY <2>1, <2>2, <2>3 DEF Held
  <2>4. CASE n # m BY <2>1, <2>2, <2>4, HeldKept DEF ActiveGifts
  <2> QED BY <2>3, <2>4
<1>7. ASSUME NEW m \in Members, Delete(m) PROVE Held(n)'
  <2>1. /\ status' = [status EXCEPT ![m] = "deleted"] /\ tier' = [tier EXCEPT ![m] = {}]
        /\ subscribed' = subscribed \ {m}
        /\ gift' = [g \in GiftIds |-> IF gift[g].redeemer # m THEN gift[g]
                                      ELSE [gift[g] EXCEPT !.redeemer = NoMember]]
        /\ UNCHANGED <<activations, stale, overtaken>>
    BY <1>7 DEF Delete, history, webhooks
  <2>2. /\ Held(n) /\ status \in [Members -> MemberStatuses]
        /\ tier \in [Members -> SUBSET GiftIds]
    BY <2>1 DEF AllHeld, Typed, TypeOK
  <2>3. CASE n = m BY <2>1, <2>2, <2>3 DEF Held
  <2>4. CASE n # m
    <3>1. ActiveGifts(n) \subseteq ActiveGifts(n)' BY <2>1, <2>4 DEF ActiveGifts
    <3> QED BY <2>1, <2>2, <2>4, <3>1, HeldKept
  <2> QED BY <2>3, <2>4
<1>8. ASSUME NEW a \in activations, FindGift(a) \/ FailActivation(a) PROVE Held(n)'
  <2>1. /\ UNCHANGED <<gift, members, stale, overtaken>>
        /\ \A b \in activations' : \E c \in activations : c.member = b.member
    <3>1. CASE FailActivation(a) BY <3>1 DEF FailActivation, history
    <3>2. CASE FindGift(a) BY <3>2 DEF FindGift, history, Typed, TypeOK
    <3> QED BY <1>8, <3>1, <3>2
  <2>2. Held(n) BY <2>1 DEF AllHeld
  <2> QED BY <2>1, <2>2, HeldKept DEF members, ActiveGifts
<1>9. ASSUME NEW a \in activations, ConsumeForPaid(a) PROVE Held(n)'
  <2>1. PICK g \in a.gift : /\ gift[g].redeemer = a.member \/ gift[g].status # "redeemed"
                            /\ g \in GiftIds
                            /\ \A m \in Members : ActiveGifts(m)' = ActiveGifts(m) \ {g}
    BY <1>9, ConsumedForPaid
  <2>2. /\ Held(n) /\ UNCHANGED <<members, overtaken>>
        /\ activations' \subseteq activations
    BY <1>9, ConsumedForPaid DEF AllHeld
  <2>3. CASE n = a.member BY <2>2, <2>3 DEF Held, members
  <2>4. CASE n # a.member
    <3>1. g \notin ActiveGifts(n) BY <2>1, <2>4 DEF ActiveGifts
    <3> QED BY <2>1, <2>2, <3>1, HeldKept DEF members
  <2> QED BY <2>3, <2>4
<1>10. CASE DeleteExpired \/ UpdateComped
  <2>1. Held(n) BY <1>10, Cleaned DEF AllHeld
  <2>2. ActiveGifts(n)' = ActiveGifts(n) BY <1>10, Cleaned DEF ActiveGifts
  <2>3. UNCHANGED <<subscribed, activations>> /\ overtaken \subseteq overtaken'
    BY <1>10, Cleaned
  <2>4. CASE status'[n] = status[n] /\ tier'[n] \subseteq tier[n]
    BY <2>1, <2>2, <2>3, <2>4 DEF Held
  <2>5. CASE /\ status[n] # "deleted" /\ status'[n] = "free"
             /\ n \in overtaken' \/ status[n] = "comped"
    BY <2>1, <2>2, <2>3, <2>5 DEF Held
  <2> QED BY <1>10, <2>4, <2>5, Cleaned
<1>11. CASE Crash
  <2>1. UNCHANGED <<gift, members, stale, overtaken>> /\ activations' = {}
    BY <1>11 DEF Crash, history
  <2>2. Held(n) BY <2>1 DEF AllHeld
  <2> QED BY <2>1, <2>2, HeldKept DEF members, ActiveGifts
<1>12. ASSUME NEW m \in Members, Renew(m) PROVE Held(n)'
  <2>1. /\ m \in subscribed /\ status' = [status EXCEPT ![m] = "paid"]
        /\ UNCHANGED <<gift, tier, subscribed, activations, stale, overtaken>>
    BY <1>12 DEF Renew, history, webhooks
  <2>2. Held(n) /\ status \in [Members -> MemberStatuses]
    BY <2>1 DEF AllHeld, Typed, TypeOK
  <2>3. CASE n = m BY <2>1, <2>2, <2>3 DEF Held
  <2>4. CASE n # m BY <2>1, <2>2, <2>4, HeldKept DEF ActiveGifts
  <2> QED BY <2>3, <2>4
<1> QED BY <1>1, <1>2, <1>3, <1>4, <1>5, <1>6, <1>7, <1>8, <1>9, <1>10, <1>11, <1>12,
           QuietSteps

\* Whoever pays is a paid member, unless the job has overtaken him.
THEOREM PayingIsPaid_holds == Spec => []PayingIsPaid
<1>1. Typed /\ AllHeld => PayingIsPaid
  BY DEF Typed, TypeOK, AllHeld, Held, PayingIsPaid
<1> QED BY <1>1, AlwaysTyped, HeldInit, HeldNext, PTL DEF Spec

\* Who has the status and the tier of a gift has a gift that has not ended.
THEOREM AccessEndsUnlessStale_holds == Spec => []AccessEndsUnlessStale
<1>1. AllHeld => AccessEndsUnlessStale BY DEF AllHeld, Held, AccessEndsUnlessStale
<1> QED BY <1>1, AlwaysTyped, HeldInit, HeldNext, PTL DEF Spec

-----------------------------------------------------------------------------
(* Tiers come from gifts that were redeemed, and the rows that             *)
(* clean-expired-comped has read are of gifts whose time is over, and that *)
(* nobody can redeem any more.                                             *)
Used(g) == gift[g].status \notin {"none", "purchased"}

TiersOfGifts == \A m \in Members : \A g \in tier[m] : Used(g)

RowsOver == \A r \in cleaning.rows : Used(r[2]) /\ clock[r[2]] = "dayold"

LEMMA StillUsed ==
  ASSUME Typed, [Next]_vars, NEW g \in GiftIds, Used(g) PROVE Used(g)'
<1>1. MayBecome(gift[g], gift'[g]) BY Moves
<1> QED BY <1>1 DEF Used, MayBecome, GiftMoves

\* Errors are only counted up, and the time of a gift that was used goes on.
LEMMA ErrorsAndTime ==
  ASSUME Typed, [Next]_vars
  PROVE  /\ errors' = 0 => errors = 0
         /\ \A g \in GiftIds : Used(g) =>
              /\ ClockIsPast(g) => ClockIsPast(g)'
              /\ clock[g] = "dayold" => clock'[g] = "dayold"
<1>1. /\ UNCHANGED errors \/ Error
      /\ \/ UNCHANGED clock
         \/ \E g \in GiftIds : Tick(g)
         \/ \E g \in GiftIds, m \in Members : Redeem(g, m)
  <2> DEFINE Same == UNCHANGED errors /\ UNCHANGED clock
             Err  == Error /\ UNCHANGED clock
  <2>1. /\ \A g \in GiftIds : Deliver(g) \/ Create(g) => Same
        /\ \A g \in GiftIds : Tick(g) => UNCHANGED errors
        /\ \A g \in GiftIds, m \in Members : Redeem(g, m) => UNCHANGED errors
        /\ \A g \in GiftIds, m \in Members : Reassign(g, m) => Same
        /\ \A w \in Webhooks, g \in GiftIds : ReadRefund(w, g) => Same
        /\ \A w \in Webhooks : BeginRefund(w) \/ WriteRefund(w) => Same
        /\ \A w \in Webhooks : FailRefund(w) => Err
        /\ \A m \in Members :
             Subscribe(m) \/ Renew(m) \/ Cancel(m) \/ Delete(m) => Same
        /\ \A a \in activations : FindGift(a) \/ ConsumeForPaid(a) => Same
        /\ \A a \in activations : FailActivation(a) => Err
    BY DEF Deliver, Create, Tick, Redeem, Reassign, ReadRefund, BeginRefund, WriteRefund,
           FailRefund, Subscribe, Renew, Cancel, Delete, FindGift, ConsumeForPaid,
           FailActivation
  <2>2. /\ \A j \in CleanupJobs, g \in GiftIds : ConsumeOne(j, g) \/ ExpireOne(j, g) => Same
        /\ \A j \in CleanupJobs : StartCleanup(j) \/ StartExpiry(j) => Same
        /\ \A j \in CleanupJobs : FailCleanup(j) => Err
        /\ \A j \in ReminderJobs, g \in GiftIds : Mark(j, g) => Same
        /\ \A j \in ReminderJobs : StartReminders(j) \/ Send(j) => Same
        /\ \A j \in ReminderJobs : FailReminder(j) => Err
        /\ SelectExpired \/ DeleteExpired \/ SelectComped \/ UpdateComped => Same
        /\ FailCleaning \/ Crash => Err
        /\ UNCHANGED vars => Same
    BY DEF StartCleanup, ConsumeOne, ExpireOne, StartExpiry, FailCleanup, StartReminders,
           Mark, Send, FailReminder, SelectExpired, DeleteExpired, SelectComped,
           UpdateComped, FailCleaning, Crash, vars
  <2> QED BY <2>1, <2>2 DEF Next
<1>2. errors' = 0 => errors = 0 BY <1>1, Failed
<1>3. ASSUME NEW g \in GiftIds, Used(g)
      PROVE  /\ ClockIsPast(g) => ClockIsPast(g)'
             /\ clock[g] = "dayold" => clock'[g] = "dayold"
  <2>2. CASE UNCHANGED clock BY <2>2 DEF ClockIsPast
  <2>3. CASE \E h \in GiftIds : Tick(h)
    <3>1. PICK h \in GiftIds, i \in 1..3 :
            clock[h] = Clock[i] /\ clock' = [clock EXCEPT ![h] = Clock[i + 1]]
      BY <2>3 DEF Tick
    <3>2. /\ clock[h] \in {"past", "dayold"} => Clock[i + 1] = "dayold"
          /\ clock[h] # "dayold"
      BY <3>1 DEF Clock
    <3> QED BY <3>1, <3>2 DEF ClockIsPast, Typed, TypeOK
  <2>4. CASE \E h \in GiftIds, m \in Members : Redeem(h, m)
    <3>1. PICK h \in GiftIds, m \in Members : Redeem(h, m) BY <2>4
    <3>2. gift[h].status = "purchased"
      BY <3>1 DEF Redeem, IsRedeemable, Typed, Dates, GoodRows, Dated, Rows, GiftStatuses
    <3>3. h # g /\ clock' = [clock EXCEPT ![h] = "far"]
      BY <1>3, <3>1, <3>2 DEF Redeem, Used
    <3> QED BY <3>3 DEF ClockIsPast, Typed, TypeOK
  <2> QED BY <1>1, <2>2, <2>3, <2>4
<1> QED BY <1>2, <1>3

LEMMA TiersNext == Typed /\ TiersOfGifts /\ [Next]_vars => TiersOfGifts'
<1> SUFFICES ASSUME Typed, TiersOfGifts, [Next]_vars, NEW n \in Members, NEW h \in tier'[n]
             PROVE  Used(h)'
  BY DEF TiersOfGifts
<1>1. ASSUME h \in tier[n] PROVE Used(h)'
  BY <1>1, StillUsed DEF TiersOfGifts, Typed, TypeOK
<1>2. ASSUME NEW g \in GiftIds, NEW m \in Members, Redeem(g, m) \/ Reassign(g, m)
      PROVE  Used(h)'
  <2>1. CASE n # m BY <1>1, <1>2, <2>1, Given
  <2>2. CASE n = m
    <3>1. h = g /\ g \in ActiveGifts(m)' BY <1>2, <2>2, Given
    <3> QED BY <3>1 DEF ActiveGifts, Used
  <2> QED BY <2>1, <2>2
<1>3. ASSUME NEW w \in Webhooks, WriteRefund(w) PROVE Used(h)'
  <2>1. \/ UNCHANGED members
        \/ \E m \in Members, t \in SUBSET GiftIds : Revoke(m, t)
    BY <1>3, RefundWritten
  <2>2. tier'[n] \subseteq tier[n] BY <2>1, Revoked DEF members
  <2> QED BY <1>1, <2>2
<1>4. ASSUME NEW j \in CleanupJobs, NEW g \in GiftIds, ConsumeOne(j, g) PROVE Used(h)'
  <2>1. gift[g].redeemer \in Members \cup {NoMember} BY DEF Typed, TypeOK, Rows
  <2>2. UNCHANGED members \/ Downgrade(gift[g].redeemer) BY <1>4 DEF ConsumeOne
  <2>3. tier'[n] \subseteq tier[n] BY <2>1, <2>2, Downgraded DEF members
  <2> QED BY <1>1, <2>3
<1>5. CASE DeleteExpired \/ UpdateComped
  <2>1. tier'[n] \subseteq tier[n] BY <1>5, Cleaned
  <2> QED BY <1>1, <2>1
<1>6. ASSUME NEW m \in Members, Subscribe(m) \/ Renew(m) \/ Cancel(m) \/ Delete(m)
      PROVE  Used(h)'
  <2>1. tier \in [Members -> SUBSET GiftIds] BY DEF Typed, TypeOK
  <2>2. tier'[n] \subseteq tier[n]
    BY <1>6, <2>1 DEF Subscribe, Renew, Cancel, Delete
  <2> QED BY <1>1, <2>2
<1>7. CASE UNCHANGED tier BY <1>1, <1>7
<1>8. /\ Quiet \/ Crash => UNCHANGED tier
      /\ \A a \in activations :
           FindGift(a) \/ ConsumeForPaid(a) \/ FailActivation(a) => UNCHANGED tier
  BY DEF Quiet, Crash, FindGift, ConsumeForPaid, FailActivation, members
<1> QED BY <1>2, <1>3, <1>4, <1>5, <1>6, <1>7, <1>8, QuietSteps

\* Only the job writes down what it has read.
LEMMA RowsRead ==
  ASSUME Typed, [Next]_vars
  PROVE  cleaning'.rows = Over \/ cleaning'.rows = {} \/ UNCHANGED cleaning
<1>1. CASE CleaningStep \/ Crash
  <2>1. CASE SelectExpired BY <2>1 DEF SelectExpired
  <2>2. CASE DeleteExpired BY <2>2 DEF DeleteExpired, Typed, TypeOK
  <2>3. CASE SelectComped BY <2>3 DEF SelectComped, Clean
  <2>4. CASE UpdateComped \/ FailCleaning \/ Crash
    BY <2>4 DEF UpdateComped, FailCleaning, Crash, Clean
  <2> QED BY <1>1, <2>1, <2>2, <2>3, <2>4 DEF CleaningStep
<1>2. LET Same == UNCHANGED cleaning IN
      /\ \A g \in GiftIds : Deliver(g) \/ Create(g) \/ Tick(g) => Same
      /\ \A g \in GiftIds, m \in Members : Redeem(g, m) \/ Reassign(g, m) => Same
      /\ \A w \in Webhooks, g \in GiftIds : ReadRefund(w, g) => Same
      /\ \A w \in Webhooks : BeginRefund(w) \/ WriteRefund(w) \/ FailRefund(w) => Same
      /\ \A m \in Members : Subscribe(m) \/ Renew(m) \/ Cancel(m) \/ Delete(m) => Same
      /\ \A a \in activations : FindGift(a) \/ ConsumeForPaid(a) \/ FailActivation(a)
                                  => Same
      /\ UNCHANGED vars => Same
  BY DEF Deliver, Create, Tick, Redeem, Reassign, ReadRefund, BeginRefund, WriteRefund,
         FailRefund, Subscribe, Renew, Cancel, Delete, FindGift, ConsumeForPaid,
         FailActivation, jobs, vars
<1>3. LET Same == UNCHANGED cleaning IN
      /\ \A j \in CleanupJobs, g \in GiftIds : ConsumeOne(j, g) \/ ExpireOne(j, g) => Same
      /\ \A j \in CleanupJobs :
           StartCleanup(j) \/ StartExpiry(j) \/ FailCleanup(j) => Same
      /\ \A j \in ReminderJobs, g \in GiftIds : Mark(j, g) => Same
      /\ \A j \in ReminderJobs : StartReminders(j) \/ Send(j) \/ FailReminder(j) => Same
  BY DEF StartCleanup, ConsumeOne, ExpireOne, StartExpiry, FailCleanup, StartReminders,
         Mark, Send, FailReminder
<1> QED BY <1>1, <1>2, <1>3 DEF Next, CleaningStep

LEMMA RowsNext ==
  Typed /\ TiersOfGifts /\ RowsOver /\ [Next]_vars => RowsOver'
<1> SUFFICES ASSUME Typed, TiersOfGifts, RowsOver, [Next]_vars, NEW r \in cleaning'.rows
             PROVE  Used(r[2])' /\ (clock[r[2]] = "dayold")'
  BY DEF RowsOver
<1>1. r \in Over \/ r \in cleaning.rows BY RowsRead
<1>2. r[2] \in GiftIds /\ Used(r[2]) /\ clock[r[2]] = "dayold"
  <2>1. CASE r \in Over BY <2>1 DEF Over, TiersOfGifts
  <2>2. CASE r \in cleaning.rows
    <3>1. r \in Members \X GiftIds BY <2>2 DEF Typed, TypeOK
    <3> QED BY <2>2, <3>1 DEF RowsOver
  <2> QED BY <1>1, <2>1, <2>2
<1>3. Used(r[2])' BY <1>2, StillUsed
<1>4. (clock[r[2]] = "dayold")' BY <1>2, ErrorsAndTime
<1> QED BY <1>3, <1>4

-----------------------------------------------------------------------------
(* One gift at a time, as long as nothing is refunded, no event was lost   *)
(* and nothing had changed since it was read.  Who uses a gift has the     *)
(* status "gift", and the tier until its time is over, or pays, and then   *)
(* the gift is about to be consumed: a handler has not looked for it yet,  *)
(* or has found it.  Who is free has no tier.                              *)
Single(m) ==
    /\ \A g, h \in ActiveGifts(m) : g = h
    /\ ActiveGifts(m) # {} /\ status[m] # "gift" =>
         /\ status[m] = "paid"
         /\ \E a \in activations :
              a.member = m /\ (a.gift = {} \/ ActiveGifts(m) \subseteq a.gift)
    /\ \A a \in activations :
         a.member = m /\ a.gift # {} => ActiveGifts(m) \subseteq a.gift
    /\ \A g \in ActiveGifts(m) : status[m] = "gift" => ClockIsPast(g) \/ tier[m] = {g}
    /\ status[m] = "free" => tier[m] = {}

AllSingle == Undisturbed => \A m \in Members \ overtaken : Single(m)

\* A handler holds the one gift it found.
FoundOne == \A a \in activations : \A g, h \in a.gift : g = h

LEMMA FoundNext == Typed /\ FoundOne /\ [Next]_vars => FoundOne'
<1> SUFFICES ASSUME Typed, FoundOne, [Next]_vars PROVE FoundOne' OBVIOUS
<1>1. CASE activations' \subseteq activations BY <1>1 DEF FoundOne
<1>2. ASSUME NEW m \in Members, Subscribe(m) PROVE FoundOne'
  BY <1>2 DEF Subscribe, FoundOne
<1>3. ASSUME NEW a \in activations, FindGift(a) PROVE FoundOne'
  <2>1. CASE ActiveGifts(a.member) = {} BY <1>1, <1>3, <2>1 DEF FindGift
  <2>2. CASE ActiveGifts(a.member) # {}
    <3>1. PICK g \in ActiveGifts(a.member) :
            activations' = (activations \ {a}) \cup {[a EXCEPT !.gift = {g}]}
      BY <1>3, <2>2 DEF FindGift
    <3>2. a \in [member : Members, gift : SUBSET GiftIds] BY DEF Typed, TypeOK
    <3> DEFINE b == [a EXCEPT !.gift = {g}]
    <3>3. b.gift = {g} /\ \A c \in activations' : c = b \/ c \in activations BY <3>1, <3>2
    <3> HIDE DEF b
    <3>4. \A x, y \in b.gift : x = y BY <3>3
    <3> QED BY <3>3, <3>4 DEF FoundOne
  <2> QED BY <2>1, <2>2
<1>4. LET Fewer == activations' \subseteq activations IN
      /\ Quiet \/ DeleteExpired \/ UpdateComped \/ Crash => Fewer
      /\ \A g \in GiftIds, m \in Members : Redeem(g, m) \/ Reassign(g, m) => Fewer
      /\ \A w \in Webhooks : WriteRefund(w) => Fewer
      /\ \A m \in Members : Renew(m) \/ Cancel(m) \/ Delete(m) => Fewer
      /\ \A a \in activations : ConsumeForPaid(a) \/ FailActivation(a) => Fewer
      /\ \A j \in CleanupJobs, g \in GiftIds : ConsumeOne(j, g) => Fewer
  BY DEF Quiet, DeleteExpired, UpdateComped, Crash, Redeem, Reassign, WriteRefund, Renew,
         Cancel, Delete, ConsumeForPaid, FailActivation, ConsumeOne, webhooks
<1> QED BY <1>1, <1>2, <1>3, <1>4, QuietSteps

LEMMA SingleInit == Init => AllSingle
  BY NoGiftIs DEF Init, AllSingle, Single, ActiveGifts

\* A member to whom nothing happens.
LEMMA SingleKept ==
  ASSUME NEW m \in Members, Single(m), status'[m] = status[m], tier'[m] = tier[m],
         ActiveGifts(m)' = ActiveGifts(m),
         \A g \in ActiveGifts(m) : ClockIsPast(g) => ClockIsPast(g)',
         \A a : a.member = m => (a \in activations' <=> a \in activations)
  PROVE  Single(m)'
  BY DEF Single

LEMMA NoGiftSingle ==
  ASSUME NEW m \in Members, ActiveGifts(m)' = {}, status'[m] = "free" => tier'[m] = {}
  PROVE  Single(m)'
  BY DEF Single

LEMMA SingleEnds ==
  ASSUME Typed, NEW j \in CleanupJobs, NEW g \in GiftIds, ConsumeOne(j, g),
         NEW n \in Members, Single(n)
  PROVE  Single(n)'
<1>1. UNCHANGED <<clock, activations>> BY DEF ConsumeOne, webhooks
<1>2. CASE IsRedeemed(gift[g])
  <2>1. ConsumedRow(gift[g]) \in GoodRows /\ ConsumedRow(gift[g]).status \in Ended
    BY <1>2, RowsWritten DEF Typed, Dates, IsRedeemed, Ended
  <2>2. SetGift(g, ConsumedRow(gift[g])) /\ Downgrade(gift[g].redeemer)
    BY <1>2 DEF ConsumeOne
  <2>3. /\ ActiveGifts(n)' = ActiveGifts(n) \ {g}
        /\ \/ status'[n] = status[n] /\ tier'[n] = tier[n]
           \/ n = gift[g].redeemer /\ tier'[n] = {}
    BY <2>1, <2>2, Ending
  <2>4. CASE n = gift[g].redeemer
    <3>1. g \in ActiveGifts(n) BY <1>2, <2>4 DEF ActiveGifts, IsRedeemed
    <3> QED BY <2>3, <3>1, NoGiftSingle DEF Single
  <2>5. CASE n # gift[g].redeemer
    <3>1. g \notin ActiveGifts(n) BY <2>5 DEF ActiveGifts
    <3>2. ActiveGifts(n)' = ActiveGifts(n) BY <2>3, <3>1
    <3> QED BY <1>1, <2>3, <2>5, <3>2, SingleKept DEF ClockIsPast
  <2> QED BY <2>4, <2>5
<1>3. CASE ~IsRedeemed(gift[g])
  <2>1. UNCHANGED <<gift, members>> BY <1>3 DEF ConsumeOne
  <2> QED BY <1>1, <2>1, SingleKept DEF members, ActiveGifts, ClockIsPast
<1> QED BY <1>2, <1>3

\* What disturbs stays.
LEMMA StillUndisturbed ==
  ASSUME Typed, [Next]_vars, Undisturbed', stale = {} PROVE Undisturbed
<1>1. \A g \in GiftIds : MayBecome(gift[g], gift'[g]) BY Moves
<1>2. \A g \in GiftIds : gift[g].status = "refunded" => gift'[g].status = "refunded"
  BY <1>1 DEF MayBecome, GiftMoves
<1>3. errors = 0 BY ErrorsAndTime DEF Undisturbed
<1> QED BY <1>2, <1>3 DEF Undisturbed

LEMMA SingleNext ==
  /\ Typed /\ AllHeld /\ TiersOfGifts /\ RowsOver /\ FoundOne /\ AllSingle /\ [Next]_vars
  => AllSingle'
<1> SUFFICES ASSUME Typed, AllHeld, TiersOfGifts, RowsOver, FoundOne, AllSingle, [Next]_vars,
                    Undisturbed', NEW n \in Members, n \notin overtaken'
             PROVE  Single(n)'
  BY DEF AllSingle
<1>0. /\ errors' = 0 /\ stale' = {}
      /\ \A m \in Members : \A g \in ActiveGifts(m) : ClockIsPast(g) => ClockIsPast(g)'
  BY ErrorsAndTime DEF Undisturbed, ActiveGifts, Used
<1>a. stale = {} => /\ n \notin overtaken => Single(n)
                    /\ \A m \in Members : Held(m)
  BY StillUndisturbed DEF AllSingle, AllHeld
<1>1. CASE Quiet BY <1>0, <1>a, <1>1, SingleKept DEF Quiet, members
<1>2. ASSUME NEW g \in GiftIds, NEW m \in Members, Redeem(g, m) \/ Reassign(g, m)
      PROVE  Single(n)'
  <2>1. /\ status[m] \in {"free", "gift"} /\ tier'[m] = {g}
        /\ \/ m \notin subscribed /\ status'[m] = "gift"
           \/ (m \in subscribed \/ tier[m] # {}) /\ status'[m] = status[m]
        /\ UNCHANGED <<activations, stale, overtaken>>
        /\ \A k \in Members \ {m} : /\ status'[k] = status[k] /\ tier'[k] = tier[k]
                                    /\ ActiveGifts(k)' = ActiveGifts(k)
        /\ ActiveGifts(m)' = ActiveGifts(m) \cup {g}
        /\ status[m] = "free" \/ ActiveGifts(m) \subseteq {g}
    BY <1>2, Given
  <2>2. CASE n # m BY <1>0, <1>a, <2>1, <2>2, SingleKept
  <2>3. CASE n = m
    <3>0. Single(n) /\ Held(n) BY <1>0, <1>a, <2>1
    <3>1. ActiveGifts(n)' = {g} BY <2>1, <2>3, <3>0 DEF Single
    <3>2. n \notin subscribed BY <2>1, <2>3, <3>0 DEF Held
    <3>3. \A a \in activations : a.member # n BY <2>1, <2>3, <3>0, <3>2 DEF Held
    <3>4. status'[n] = "gift" BY <2>1, <2>3, <3>0, <3>2 DEF Single
    <3> QED BY <2>1, <2>3, <3>1, <3>3, <3>4 DEF Single
  <2> QED BY <2>2, <2>3
<1>3. ASSUME NEW j \in CleanupJobs, NEW g \in GiftIds, ConsumeOne(j, g) PROVE Single(n)'
  BY <1>0, <1>a, <1>3, ConsumedOne, SingleEnds
<1>4. ASSUME NEW m \in Members, Subscribe(m) PROVE Single(n)'
  <2>1. /\ status' = [status EXCEPT ![m] = "paid"]
        /\ activations' = activations \cup {[member |-> m, gift |-> {}]}
        /\ UNCHANGED <<gift, tier, stale, overtaken>>
    BY <1>4 DEF Subscribe, history
  <2>2. Single(n) /\ status \in [Members -> MemberStatuses]
    BY <1>0, <1>a, <2>1 DEF Typed, TypeOK
  <2>3. ActiveGifts(n)' = ActiveGifts(n) BY <2>1 DEF ActiveGifts
  <2>4. CASE n # m BY <1>0, <2>1, <2>2, <2>3, <2>4, SingleKept
  <2>5. CASE n = m
    <3>1. status'[n] = "paid" BY <2>1, <2>2, <2>5
    <3> DEFINE b == [member |-> m, gift |-> {}]
    <3>2. b \in activations' /\ b.member = n /\ b.gift = {} BY <2>1, <2>5
    <3>3. \A a \in activations' : a \in activations \/ a.gift = {} BY <2>1
    <3> HIDE DEF b
    <3> QED BY <2>2, <2>3, <3>1, <3>2, <3>3 DEF Single
  <2> QED BY <2>4, <2>5
<1>5. ASSUME NEW m \in Members, Cancel(m) PROVE Single(n)'
  <2>1. /\ m \in subscribed /\ \A a \in activations : a.member # m
        /\ \/ status' = [status EXCEPT ![m] = "free"] /\ tier' = [tier EXCEPT ![m] = {}]
           \/ status' = [status EXCEPT ![m] = "comped"] /\ UNCHANGED tier
        /\ UNCHANGED <<gift, activations, stale, overtaken>>
    BY <1>5 DEF Cancel, history, webhooks
  <2>2. /\ status \in [Members -> MemberStatuses]
        /\ tier \in [Members -> SUBSET GiftIds]
        /\ ActiveGifts(n)' = ActiveGifts(n)
        /\ Single(n) /\ Held(n)
    BY <1>0, <1>a, <2>1 DEF Typed, TypeOK, ActiveGifts
  <2>3. CASE n # m BY <1>0, <1>a, <2>1, <2>2, <2>3, SingleKept
  <2>4. CASE n = m
    <3>1. status[n] = "paid" BY <2>1, <2>2, <2>4 DEF Held
    <3>2. ActiveGifts(n) = {} BY <2>1, <2>2, <2>4, <3>1 DEF Single
    <3>3. status'[n] = "free" => tier'[n] = {} BY <2>1, <2>2, <2>4
    <3> QED BY <2>2, <3>2, <3>3, NoGiftSingle
  <2> QED BY <2>3, <2>4
<1>6. ASSUME NEW m \in Members, Delete(m) PROVE Single(n)'
  <2>1. /\ status' = [status EXCEPT ![m] = "deleted"] /\ tier' = [tier EXCEPT ![m] = {}]
        /\ gift' = [g \in GiftIds |-> IF gift[g].redeemer # m THEN gift[g]
                                      ELSE [gift[g] EXCEPT !.redeemer = NoMember]]
        /\ UNCHANGED <<activations, stale, overtaken>>
    BY <1>6 DEF Delete, history, webhooks
  <2>2. /\ status \in [Members -> MemberStatuses]
        /\ tier \in [Members -> SUBSET GiftIds]
        /\ \A g \in GiftIds : gift[g] \in Rows
    BY DEF Typed, TypeOK
  <2>3. \A g \in GiftIds :
          /\ gift'[g].status = gift[g].status
          /\ gift'[g].redeemer = IF gift[g].redeemer = m THEN NoMember ELSE gift[g].redeemer
    BY <2>1, <2>2 DEF Rows
  <2>4. CASE n # m
    <3>1. ActiveGifts(n)' = ActiveGifts(n) BY <2>3, <2>4, GiftAssumption DEF ActiveGifts
    <3> QED BY <1>0, <1>a, <2>1, <2>2, <2>4, <3>1, SingleKept
  <2>5. CASE n = m
    <3>1. ActiveGifts(n)' = {} BY <2>3, <2>5, GiftAssumption DEF ActiveGifts
    <3> QED BY <2>1, <2>2, <2>5, <3>1, NoGiftSingle
  <2> QED BY <2>4, <2>5
<1>7. ASSUME NEW a \in activations, FindGift(a) PROVE Single(n)'
  <2>1. /\ a.gift = {} /\ UNCHANGED <<gift, clock, members, stale, overtaken>>
        /\ \/ activations' = activations \ {a} /\ ActiveGifts(a.member) = {}
           \/ \E g \in ActiveGifts(a.member) :
                activations' = (activations \ {a}) \cup {[a EXCEPT !.gift = {g}]}
    BY <1>7 DEF FindGift, history
  <2>2. ActiveGifts(n)' = ActiveGifts(n) /\ Single(n)
    BY <1>0, <1>a, <2>1 DEF ActiveGifts
  <2>3. a \in [member : Members, gift : SUBSET GiftIds] BY DEF Typed, TypeOK
  <2>4. CASE n # a.member
    BY <1>0, <2>1, <2>2, <2>3, <2>4, SingleKept DEF members
  <2>5. CASE n = a.member /\ ActiveGifts(n) = {} 
    BY <2>1, <2>2, <2>5, NoGiftSingle DEF members, Single
  <2>6. CASE n = a.member /\ ActiveGifts(n) # {}
    <3>1. PICK g \in ActiveGifts(n) :
            activations' = (activations \ {a}) \cup {[a EXCEPT !.gift = {g}]}
      BY <2>1, <2>6
    <3>2. ActiveGifts(n) = {g} /\ g \in GiftIds BY <2>2, <3>1 DEF Single, ActiveGifts
    <3> DEFINE b == [a EXCEPT !.gift = {g}]
    <3>3. b \in activations' /\ b.member = n /\ b.gift = {g} BY <2>3, <2>6, <3>1
    <3>4. \A c \in activations' : c = b \/ c \in activations BY <3>1
    <3> HIDE DEF b
    <3> QED BY <2>1, <2>2, <3>2, <3>3, <3>4 DEF Single, members, ClockIsPast
  <2> QED BY <2>4, <2>5, <2>6
<1>8. ASSUME NEW a \in activations, ConsumeForPaid(a) PROVE Single(n)'
  <2>1. /\ UNCHANGED <<clock, members, overtaken>> /\ stale = {}
        /\ activations' = activations \ {a} /\ a.member \in Members
    BY <1>0, <1>8, ConsumedForPaid
  <2>2. PICK g \in a.gift : /\ gift[g].redeemer = a.member \/ gift[g].status # "redeemed"
                            /\ g \in GiftIds
                            /\ \A m \in Members : ActiveGifts(m)' = ActiveGifts(m) \ {g}
    BY <1>0, <1>8, ConsumedForPaid
  <2>3. Single(n) BY <1>a, <2>1
  <2>4. CASE n = a.member
    <3>1. ActiveGifts(n) \subseteq {g} BY <2>2, <2>3, <2>4 DEF Single, FoundOne
    <3> QED BY <2>1, <2>2, <2>3, <3>1, NoGiftSingle DEF members, Single
  <2>5. CASE n # a.member
    <3>1. g \notin ActiveGifts(n) BY <2>2, <2>5 DEF ActiveGifts
    <3>2. ActiveGifts(n)' = ActiveGifts(n) BY <2>2, <3>1
    <3> QED BY <1>0, <2>1, <2>3, <2>5, <3>2, SingleKept DEF members
  <2> QED BY <2>4, <2>5
<1>9. ASSUME NEW a \in activations, FailActivation(a) PROVE Single(n)'
  BY <1>0, <1>9, Failed DEF FailActivation
<1>10. CASE DeleteExpired \/ UpdateComped
  <2>1. UNCHANGED <<gift, clock, activations, stale>> /\ overtaken \subseteq overtaken'
    BY <1>10, Cleaned
  <2>2. Single(n) /\ ActiveGifts(n)' = ActiveGifts(n) BY <1>0, <1>a, <2>1 DEF ActiveGifts
  <2>3. CASE /\ status'[n] = status[n]
             /\ tier'[n] = {g \in tier[n] : <<n, g>> \notin cleaning.rows}
    <3>1. ASSUME NEW g \in ActiveGifts(n), status[n] = "gift"
          PROVE  ClockIsPast(g) \/ tier'[n] = {g}
      <4>1. CASE <<n, g>> \in cleaning.rows BY <4>1 DEF RowsOver, ClockIsPast
      <4>2. CASE <<n, g>> \notin cleaning.rows BY <2>2, <2>3, <3>1, <4>2 DEF Single
      <4> QED BY <4>1, <4>2
    <3>2. status'[n] = "free" => tier'[n] = {} BY <2>2, <2>3 DEF Single
    <3> QED BY <2>1, <2>2, <2>3, <3>1, <3>2 DEF Single, ClockIsPast
  <2>4. CASE status'[n] = status[n] /\ tier'[n] = tier[n]
    BY <1>0, <2>1, <2>2, <2>4, SingleKept
  <2>5. CASE /\ status'[n] = "free" /\ tier'[n] = tier[n]
             /\ status[n] = "comped" /\ tier[n] = {}
    <3>1. ActiveGifts(n) = {} BY <2>2, <2>5 DEF Single
    <3> QED BY <2>2, <2>5, <3>1, NoGiftSingle
  <2> QED BY <1>10, <2>3, <2>4, <2>5, Cleaned
<1>11. CASE Crash BY <1>0, <1>11, Failed DEF Crash
<1>12. ASSUME NEW w \in Webhooks, WriteRefund(w) PROVE Single(n)'
  <2>1. UNCHANGED <<gift, members, stale>>
    <3> DEFINE g == refunds[w][1].gift
               row == refunds[w][1].row
    <3>1. refunds[w] # <<>> /\ (UNCHANGED <<gift, members, stale>> \/ SetGift(g, RefundedRow(row)))
      BY <1>12, RefundWritten
    <3>2. g \in GiftIds /\ row \in GoodRows /\ row.status # "none" BY <3>1, ReadIs
    <3>3. RefundedRow(row) \in GoodRows /\ RefundedRow(row).status = "refunded"
      BY <3>2, RowsWritten
    <3>4. SetGift(g, RefundedRow(row)) => gift'[g].status = "refunded"
      BY <3>2, <3>3, Written
    <3> HIDE DEF g, row
    <3> QED BY <3>1, <3>2, <3>4 DEF Undisturbed
  <2>2. UNCHANGED <<clock, activations, overtaken>> BY <1>12 DEF WriteRefund
  <2>3. Single(n) BY <1>0, <1>a, <2>1, <2>2
  <2> QED BY <1>0, <2>1, <2>2, <2>3, SingleKept DEF members, ActiveGifts
<1>13. ASSUME NEW m \in Members, Renew(m) PROVE Single(n)'
  <2>1. /\ m \in subscribed /\ status[m] # "paid"
        /\ status' = [status EXCEPT ![m] = "paid"]
        /\ UNCHANGED <<gift, tier, activations, stale, overtaken>>
    BY <1>13 DEF Renew, history, webhooks
  <2>2. Single(n) /\ Held(n) /\ status \in [Members -> MemberStatuses]
    BY <1>0, <1>a, <2>1 DEF Typed, TypeOK
  <2>3. n # m BY <2>1, <2>2 DEF Held
  <2> QED BY <1>0, <2>1, <2>2, <2>3, SingleKept DEF ActiveGifts
<1> QED BY <1>1, <1>2, <1>3, <1>4, <1>5, <1>6, <1>7, <1>8, <1>9, <1>10, <1>11, <1>12, <1>13,
           QuietSteps

LEMMA AlwaysSingle == Spec => [](Typed /\ AllHeld /\ AllSingle)
<1>1. Init => FoundOne /\ TiersOfGifts /\ RowsOver
  BY DEF Init, FoundOne, TiersOfGifts, RowsOver, Clean
<1> QED BY <1>1, TypedInit, TypedNext, HeldInit, HeldNext, TiersNext, RowsNext, FoundNext,
           SingleInit, SingleNext, PTL DEF Spec

\* A member uses one gift at a time, as long as nothing is refunded.
THEOREM OneActiveGift_holds == Spec => []OneActiveGift
<1>1. Typed /\ AllSingle => OneActiveGift
  <2> SUFFICES ASSUME Typed, AllSingle, Undisturbed, NEW m \in Members \ overtaken
               PROVE  Cardinality(ActiveGifts(m)) <= 1
    BY DEF OneActiveGift
  <2>1. \A g, h \in ActiveGifts(m) : g = h BY DEF AllSingle, Single
  <2>2. CASE ActiveGifts(m) = {} BY <2>2, FS_EmptySet
  <2>3. CASE ActiveGifts(m) # {}
    <3>1. PICK g \in ActiveGifts(m) : ActiveGifts(m) = {g} BY <2>1, <2>3
    <3>2. Cardinality({g}) = 1 BY FS_Singleton
    <3> QED BY <3>1, <3>2
  <2> QED BY <2>2, <2>3
<1> QED BY <1>1, AlwaysSingle, PTL

\* The redeemer of a gift that still runs has access, as long as nothing is refunded.
THEOREM GiftGivesAccess_holds == Spec => []GiftGivesAccess
<1>1. AllSingle => GiftGivesAccess
  BY DEF AllSingle, Single, GiftGivesAccess, HasAccess
<1> QED BY <1>1, AlwaysSingle, PTL

=============================================================================
