---------------------------- MODULE EmailBatching ---------------------------
(***************************************************************************)
(* BatchSendingService.createBatches: the audience of an email is cut into *)
(* batches, segment by segment, page by page.  Each page is a query of its *)
(* own, so members may subscribe, be deleted or change their plan between  *)
(* two pages.  With domain warm-up, the first recipients get the email     *)
(* from the custom domain and the others from the fallback domain.         *)
(***************************************************************************)
EXTENDS Integers, FiniteSets, Sequences

CONSTANTS
    MaxId,      \* member ids are 1..MaxId, in the order of creation
    EmailId,    \* the id of the email in the same order
    BatchSize,  \* getMaximumRecipients
    Limits,     \* values of csd_email_count (at least MaxId + 1: no limit)
    MaxChanges  \* bound on the changes of members while batches are made

ASSUME BatchingAssumption ==
    /\ MaxId \in Nat /\ EmailId \in 1..(MaxId + 1)
    /\ BatchSize \in Nat \ {0}
    /\ Limits \subseteq Nat
    /\ MaxChanges \in Nat

Ids == 1..MaxId

\* What getSegments tells members apart by: free ones, paid ones with access
\* to the tiers of the post, and paid ones without; "none" is no recipient.
Groups == {"free", "access", "no_access"}

VARIABLES
    group,     \* the group of each id, or "none"
    changed,   \* history: the ids whose group changed since the start
    segments,  \* what getSegments returned: a sequence of sets of groups
    limit,     \* domainWarmupLimit
    segment,   \* index of the segment at work
    lastId,    \* where the next page starts
    batches,   \* the batches so far: recipients and fallback_sending_domain
    totalCount,
    counts     \* email_count and csd_email_count, once written

vars == <<group, changed, segments, limit, segment, lastId, batches,
          totalCount, counts>>

\* getSegments: everybody; free and paid; by access to the tiers of the post
\* (free members have none); or by both.
Segmentations ==
    { <<Groups>>,
      <<{"free"}, {"access", "no_access"}>>,
      <<{"access"}, {"free", "no_access"}>>,
      <<{"free"}, {"access"}, {"no_access"}>> }

Init ==
    /\ group \in [Ids -> Groups \cup {"none"}]
    /\ changed = {}
    /\ segments \in Segmentations
    /\ limit \in Limits
    /\ segment = 1
    /\ lastId = EmailId
    /\ batches = <<>>
    /\ totalCount = 0
    /\ counts = [written |-> FALSE, email |-> 0, csd |-> 0]

Finished == counts.written

\* The query of one page: the members of the segment below lastId, the newest
\* first, one more than fit in a batch.
Found == {id \in Ids : id < lastId /\ group[id] \in segments[segment]}

Newest(S, n) == {id \in S : Cardinality({x \in S : x > id}) < n}

\* The members of a page that are batched.
Process(page) == Newest(page, BatchSize)

\* Where the page after this one starts: at the last member that was batched.
\* Mutant: at the extra member that only told that there are more.
Oldest(S)          == CHOOSE id \in S : \A x \in S : id <= x
LastFetched(page)  == Oldest(page)
LastBatched(page)  == Oldest(Newest(page, BatchSize))

Batch(members, fallback) == [members |-> members, fallback |-> fallback]

\* How one page becomes batches.  The part that the custom domain still has
\* room for is split off.  Mutant: the split forgets what was sent before.
SplitByLimitAlone(members) ==
    IF limit > 0 /\ limit < Cardinality(members)
    THEN <<Batch(Newest(members, limit), FALSE),
           Batch(members \ Newest(members, limit), TRUE)>>
    ELSE <<Batch(members, totalCount >= limit)>>

Split(members) ==
    LET room == limit - totalCount IN
    IF room > 0 /\ room < Cardinality(members)
    THEN <<Batch(Newest(members, room), FALSE),
           Batch(members \ Newest(members, room), TRUE)>>
    ELSE <<Batch(members, totalCount >= limit)>>

\* One turn of the loop over the pages of a segment.
FetchPage ==
    LET page    == Newest(Found, BatchSize + 1)
        members == Process(page)
    IN
    /\ segment <= Len(segments)
    /\ IF page = {} THEN UNCHANGED <<batches, totalCount>>
       ELSE /\ batches' = batches \o Split(members)
            /\ totalCount' = totalCount + Cardinality(members)
    /\ IF Cardinality(page) > BatchSize
       THEN lastId' = LastBatched(page) /\ UNCHANGED segment
       ELSE lastId' = EmailId /\ segment' = segment + 1
    /\ UNCHANGED <<group, changed, segments, limit, counts>>

\* The counts of the email are corrected at the end (here they are written
\* also when they were right).
\* Mutant: the count of the custom domain is what the limit leaves.
CsdRoom  == limit - totalCount
CsdCount == IF totalCount < limit THEN totalCount ELSE limit

CorrectCounts ==
    /\ segment > Len(segments)
    /\ ~Finished
    /\ counts' = [written |-> TRUE, email |-> totalCount, csd |-> CsdCount]
    /\ UNCHANGED <<group, changed, segments, limit, segment, lastId, batches,
                   totalCount>>

\* Meanwhile: a member is deleted, unsubscribes, subscribes, changes the plan.
\* Nobody who was not there when the email was created gets an older id.
ChangeMember(id) ==
    /\ ~Finished
    /\ Cardinality(changed) < MaxChanges
    /\ \E g \in (Groups \cup {"none"}) \ {group[id]} :
          group' = [group EXCEPT ![id] = g]
    /\ changed' = changed \cup {id}
    /\ UNCHANGED <<segments, limit, segment, lastId, batches, totalCount, counts>>

Next == FetchPage \/ CorrectCounts \/ (\E id \in Ids : ChangeMember(id))

Spec == Init /\ [][Next]_vars

-----------------------------------------------------------------------------
\* Properties.

TypeOK ==
    /\ group \in [Ids -> Groups \cup {"none"}]
    /\ changed \subseteq Ids
    /\ segment \in 1..(Len(segments) + 1)
    /\ lastId \in 1..EmailId
    /\ \A i \in DOMAIN batches : /\ batches[i].members \subseteq Ids
                                 /\ batches[i].fallback \in BOOLEAN
    /\ totalCount \in Nat
    /\ counts \in [written : BOOLEAN, email : Nat, csd : Nat]

BatchesOf(id) == {i \in DOMAIN batches : id \in batches[i].members}

\* A member whose plan and subscription did not change while the batches were
\* made is a recipient exactly once if it is older than the email, and not at
\* all otherwise, whatever happens to the other members meanwhile.
StableMembersOnce ==
    Finished =>
        \A id \in Ids \ changed :
            Cardinality(BatchesOf(id)) =
                IF id < EmailId /\ group[id] # "none" THEN 1 ELSE 0

\* Domain warm-up: what goes out from the custom domain is exactly as much as
\* csd_email_count says, never over the limit, and email_count is what was
\* put in batches.
Sent(fallback) ==
    Cardinality({x \in (DOMAIN batches) \X Ids :
                    /\ x[2] \in batches[x[1]].members
                    /\ batches[x[1]].fallback = fallback})

CountsAreSent ==
    /\ Sent(FALSE) <= limit
    /\ Finished => /\ counts.csd = Sent(FALSE)
                   /\ counts.email = Sent(FALSE) + Sent(TRUE)
=============================================================================
