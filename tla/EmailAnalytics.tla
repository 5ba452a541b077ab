--------------------------- MODULE EmailAnalytics ---------------------------
(***************************************************************************)
(* Email analytics: Ghost asks Mailgun, every few minutes, what became of  *)
(* the newsletters it sent.  Four jobs fetch events, one after another:    *)
(* the latest opens, the latest other events, those that were missing from *)
(* Mailgun's storage at the time (after half an hour it is stable), and    *)
(* those of a window an administrator asked for.  Each keeps a cursor, the *)
(* time of the last event it saw, in memory and in the table jobs.         *)
(*                                                                         *)
(* Time is in ticks.  Every window ends at least a minute ago, so that the *)
(* tests for events of the last two seconds, or newer than the fetch, do   *)
(* not matter; the rows of jobs exist.                                     *)
(***************************************************************************)
EXTENDS Integers, FiniteSets, FiniteSetsExt, Sequences

CONSTANTS
    Events,    \* at Mailgun
    At,        \* the time of each
    Kind,      \* "opened", "delivered" (or failed) or "unsubscribed"
    Email,     \* the email it is about
    Warming,   \* those of emails sent from the fallback domain, if any
    Configs,   \* bound: batchProcessing and fallbackDomain, set or not
    Second,    \* in ticks
    Margin,    \* FETCH_LATEST_END_MARGIN_MS
    Trust,     \* TRUST_THRESHOLD_MS
    Page,      \* PAGE_LIMIT
    Budget,    \* events fetched before the next look for opens (10000)
    Windows,   \* bound: the windows that are requested
    MaxTime,   \* bound on the clock
    MaxMoves,  \* bound on failures, crashes and requests
    None

ASSUME AnalyticsAssumption ==
    /\ IsFiniteSet(Events)
    /\ {Second, Margin, Trust, Page, Budget} \subseteq Nat \ {0}
    /\ Second <= Margin /\ Margin <= Trust
    /\ {MaxTime, MaxMoves} \subseteq Nat
    /\ At \in [Events -> Nat]
    /\ Kind \in [Events -> {"opened", "delivered", "unsubscribed"}]
    /\ Warming \subseteq Events
    /\ Windows \subseteq [begin : 0..MaxTime, end : 0..MaxTime]
    /\ Configs \subseteq [batched : BOOLEAN, fallback : BOOLEAN]
    \* fewer events than a fetch takes happen at the same time
    /\ \A t \in 0..MaxTime : Cardinality({e \in Events : At[e] = t}) < Budget

VARIABLES
    now,
    shown,      \* the events Mailgun's storage has
    config,     \* one of Configs
    stored,     \* the events Ghost has recorded (email_recipients)
    counted,    \* those the statistics of their emails include
    pending,    \* in memory: events of a batch that is not flushed
    last,       \* in memory: cursor of each job, lastEventTimestamp
    finished,   \* jobs.finished_at: the cursor that was saved
    started,    \* jobs.started_at
    lastBegin,  \* in memory: begin of the last fetch of other events
    schedule,   \* in memory: the window to fetch, #fetchScheduledData
    metadata,   \* jobs.metadata: the window, for the next start
    restored,   \* it was read since the start
    turn,       \* the job whose turn it is, or "idle"
    used,       \* events fetched by the jobs before it
    fetch,      \* the fetch at work
    moves,      \* failures, crashes and requests, up to MaxMoves
    late,       \* history: opens that the job for opens did not find
    jumped,     \* history: jobs whose cursor may have passed events
    foreign,    \* history: the cursor saved for windows is of an earlier one
    failed,     \* history: events were recorded but not counted
    lost        \* history: pending events when Ghost stopped

atMailgun == <<now, shown>>
tables == <<stored, counted>>
cursors == <<last, finished, started, lastBegin>>
window == <<schedule, metadata, restored>>
flow == <<turn, used, fetch>>
history == <<late, jumped, foreign, failed, lost>>
vars == <<atMailgun, config, tables, pending, cursors, window, flow, moves,
          history>>

-----------------------------------------------------------------------------
Jobs == {"opened", "others", "missing", "scheduled"}
Time == 0..(MaxTime + Second)
Unsubscribes == {e \in Events : Kind[e] = "unsubscribed"}

(* The window, whether a fetch of it is running, and was cancelled. *)
Schedules == [of : Windows, running : BOOLEAN, canceled : BOOLEAN]

(* left: domains still to be read; got: events of the first of them that   *)
(* came; count: of all domains; seen: events to be aggregated; short: the  *)
(* limit was reached in a domain                                           *)
Fetches == [begin : Time, end : Time, max : Int, left : Seq({"primary", "fallback"}),
            got : SUBSET Events, count : Nat, seen : SUBSET Events,
            error : BOOLEAN, short : BOOLEAN]

ASSUME NoneAssumption == None \notin Nat \cup Schedules \cup Fetches

TypeOK ==
    /\ now \in 0..MaxTime /\ shown \subseteq Events /\ config \in Configs
    /\ stored \subseteq shown /\ counted \subseteq stored
    /\ pending \subseteq shown /\ (pending # {} => config.batched)
    /\ last \in [Jobs -> Time \cup {None}]
    /\ finished \in [Jobs -> Time \cup {None}]
    /\ started \in [Jobs -> Time]
    /\ lastBegin \in Time \cup {None}
    /\ schedule \in Schedules \cup {None}
    /\ metadata \in Windows \cup {None}
    /\ restored \in BOOLEAN
    /\ turn \in Jobs \cup {"idle"} /\ used \in Nat
    /\ fetch \in Fetches \cup {None}
    /\ moves \in 0..MaxMoves
    /\ late \cup lost \subseteq shown /\ late \subseteq stored \cup pending
    /\ jumped \subseteq Jobs /\ {foreign, failed} \subseteq BOOLEAN
    \* nothing is fetched out of turn, or past the window
    /\ fetch # None => turn # "idle" /\ fetch.begin < fetch.end
    /\ turn = "scheduled" /\ fetch # None => schedule # None
    /\ \A j \in Jobs : last[j] # None /\ finished[j] # None =>
           finished[j] <= last[j] \/ j = "scheduled"

Init ==
    /\ now = 0 /\ shown = {} /\ config \in Configs
    /\ stored = {} /\ counted = {}
    /\ pending = {}
    /\ last = [j \in Jobs |-> None]
    /\ finished = [j \in Jobs |-> None]
    /\ started = [j \in Jobs |-> 0]
    /\ lastBegin = None
    /\ schedule = None /\ metadata = None /\ restored = FALSE
    /\ turn = "idle" /\ used = 0 /\ fetch = None
    /\ moves = 0
    /\ late = {} /\ jumped = {} /\ foreign = FALSE /\ failed = FALSE
    /\ lost = {}

Running == IF schedule = None THEN FALSE ELSE schedule.running
Canceled == IF schedule = None THEN FALSE ELSE schedule.canceled

Move == moves < MaxMoves /\ moves' = moves + 1

-----------------------------------------------------------------------------
(* Mailgun: an event shows up when it happens or up to half an hour later. *)

Show(e) ==
    /\ e \notin shown /\ At[e] <= now
    /\ shown' = shown \cup {e}
    /\ UNCHANGED <<now, config, tables, pending, cursors, window, flow,
                   moves, history>>

Tick ==
    /\ now < MaxTime
    /\ now' = now + 1
    /\ \A e \in Events : At[e] + Trust <= now' => e \in shown
    /\ UNCHANGED <<shown, config, tables, pending, cursors, window, flow,
                   moves, history>>

-----------------------------------------------------------------------------
(* Requests: a window to fetch, and its end.  The endpoint asks for the    *)
(* days after an email, up to an hour ago.                                 *)

Request(w) ==
    /\ Move
    /\ w.begin < w.end /\ w.end <= now - Trust
    /\ ~Running
    /\ schedule' = [of |-> w, running |-> FALSE, canceled |-> FALSE]
    /\ last' = [last EXCEPT !["scheduled"] = None]
    /\ metadata' = w
    /\ jumped' = jumped \ {"scheduled"}
    /\ foreign' = (finished["scheduled"] # None)
    /\ UNCHANGED <<atMailgun, config, tables, pending, finished, started,
                   lastBegin, restored, flow, late, failed, lost>>

(* #clearScheduledData *)
Clear ==
    /\ schedule' = None /\ metadata' = None
    /\ last' = [last EXCEPT !["scheduled"] = None]

Cancel ==
    /\ Move
    /\ schedule # None
    /\ IF Running
       THEN /\ schedule' = [schedule EXCEPT !.canceled = TRUE]
            /\ metadata' = None
            /\ UNCHANGED last
       ELSE Clear
    /\ UNCHANGED <<atMailgun, config, tables, pending, finished, started,
                   lastBegin, restored, flow, history>>

-----------------------------------------------------------------------------
(* startFetch: one fetch at a time.  The first one after a start restores  *)
(* the window, with the cursor that was saved last, of whatever window.    *)

Restore ==
    IF metadata # None
    THEN /\ schedule' = [of |-> metadata, running |-> FALSE, canceled |-> FALSE]
         /\ last' = [last EXCEPT !["scheduled"] = finished["scheduled"]]
         /\ jumped' = IF foreign THEN jumped \cup {"scheduled"} ELSE jumped
    ELSE UNCHANGED <<schedule, last, jumped>>

Start ==
    /\ turn = "idle"
    /\ turn' = "opened"
    /\ IF restored THEN UNCHANGED <<schedule, last, jumped>> ELSE Restore
    /\ restored' = TRUE
    /\ UNCHANGED <<atMailgun, config, tables, pending, finished, started,
                   lastBegin, metadata, used, fetch, moves, late, foreign,
                   failed, lost>>

(* What follows when a job has fetched c events (startFetch, _restartFetch):*)
(* at once from the beginning when there were many, or a part of a window. *)
(* Mutant: also when there was nothing left of it.                         *)
TurnAtNone(c) ==
    CASE turn = "opened" -> IF c >= Budget THEN "opened" ELSE "others"
      [] turn = "others" -> "missing"
      [] turn = "missing" -> IF used + c > Budget THEN "opened" ELSE "scheduled"
      [] turn = "scheduled" -> IF c >= 0 THEN "opened" ELSE "idle"

Turn(c) ==
    CASE turn = "opened" -> IF c >= Budget THEN "opened" ELSE "others"
      [] turn = "others" -> "missing"
      [] turn = "missing" -> IF used + c > Budget THEN "opened" ELSE "scheduled"
      [] turn = "scheduled" -> IF c > 0 THEN "opened" ELSE "idle"

NextTurn(c) ==
    /\ turn' = Turn(c)
    /\ used' = IF turn' \in {"others", "missing"} THEN used + c ELSE 0
    /\ fetch' = None

-----------------------------------------------------------------------------
(* fetchLatestOpenedEvents, fetchLatestNonOpenedEvents, fetchMissing,      *)
(* fetchScheduled: the window of a job.                                    *)

(* getLastOpenedEventTimestamp and its like *)
Cursor(j) ==
    CASE last[j] # None -> last[j]
      [] last[j] = None /\ finished[j] # None -> finished[j]
      [] OTHER -> started[j]

WindowBegin(j) ==
    IF j = "scheduled"
    THEN Max({schedule.of.begin} \cup ({last[j]} \ {None}))
    ELSE Cursor(j)

(* Mutant: the events that were missing are asked for too early. *)
WindowEndTooSoon(j) ==
    IF j = "scheduled" THEN schedule.of.end ELSE now - Margin

WindowEnd(j) ==
    CASE j \in {"opened", "others"} -> now - Margin
      [] j = "missing" -> Min({now - Trust} \cup ({lastBegin} \ {None}))
      [] j = "scheduled" -> schedule.of.end

(* Mutant: a window that is empty is fetched. *)
NothingAskedFor(j) == j = "scheduled" /\ (schedule = None \/ Canceled)

Nothing(j) ==
    IF j = "scheduled" /\ (schedule = None \/ Canceled) THEN TRUE
    ELSE WindowEnd(j) <= WindowBegin(j)

Skip ==
    /\ turn # "idle" /\ fetch = None /\ Nothing(turn)
    /\ NextTurn(0)
    /\ IF turn = "scheduled" /\ schedule # None
       THEN Clear ELSE UNCHANGED <<schedule, metadata, last>>
    /\ UNCHANGED <<atMailgun, config, tables, pending, finished, started,
                   lastBegin, restored, moves, history>>

(* getDomainsToFetch *)
Domains ==
    IF config.fallback THEN <<"primary", "fallback">> ELSE <<"primary">>

FetchEvents ==
    LET begin == WindowBegin(turn) IN
    /\ turn # "idle" /\ fetch = None /\ ~Nothing(turn)
    /\ fetch' = [begin |-> begin, end |-> WindowEnd(turn),
                 max |-> Budget - used, left |-> Domains, got |-> {},
                 count |-> 0, seen |-> {}, error |-> FALSE, short |-> FALSE]
    /\ started' = [started EXCEPT ![turn] = begin]
    /\ lastBegin' = IF turn = "others" THEN begin ELSE lastBegin
    /\ schedule' = IF turn = "scheduled"
                   THEN [schedule EXCEPT !.running = TRUE] ELSE schedule
    /\ UNCHANGED <<atMailgun, config, tables, pending, last, finished,
                   metadata, restored, turn, used, moves, history>>

-----------------------------------------------------------------------------
(* fetchEvents: the domains one after the other, and of each pages of      *)
(* events, the oldest first (#fetchEventsFromDomain).                      *)

Domain(e) ==
    IF config.fallback /\ e \in Warming THEN "fallback" ELSE "primary"

Times(S) == {At[e] : e \in S}
Asked(j) ==
    {e \in Events : CASE j = "opened" -> Kind[e] = "opened"
                      [] j = "others" -> Kind[e] # "opened"
                      [] OTHER -> TRUE}

(* what Mailgun has for the next page *)
Available ==
    {e \in (shown \cap Asked(turn)) \ fetch.got :
        /\ Domain(e) = Head(fetch.left)
        /\ At[e] \in fetch.begin..fetch.end
        /\ At[e] >= Max(Times(fetch.got) \cup {0})}

(* The oldest n of the events of S, in any order when they are as old. *)
Oldest(S, n) ==
    {P \in SUBSET S : /\ Cardinality(P) = Min({n, Cardinality(S)})
                      /\ \A e \in P, f \in S \ P : At[e] <= At[f]}

(* Enough events, and not only those of the time the window begins at. *)
LimitReached(P) ==
    /\ Cardinality(fetch.got \cup P) >= fetch.max
    /\ Max(Times(P)) > fetch.begin

(* the events of Q are processed, and the cursor follows *)
Follow(Q) == Max(Times(Q) \cup ({last[turn]} \ {None}))

Buffered(Q) == IF config.batched THEN Q \ Unsubscribes ELSE {}

Process(Q) ==
    /\ last' = IF Q = {} THEN last ELSE [last EXCEPT ![turn] = Follow(Q)]
    /\ late' = IF turn = "opened" THEN late
               ELSE late \cup {e \in Q \ (stored \cup pending) :
                                   Kind[e] = "opened"}

unread == <<atMailgun, config, counted, finished, started, lastBegin,
            metadata, schedule, restored, turn, used>>

(* A page is processed and, in batches, flushed.  A fetch that was         *)
(* cancelled ends here.                                                    *)
ReadPage ==
    /\ fetch # None /\ fetch.left # <<>>
    /\ Available # {}
    /\ \E P \in Oldest(Available, Page) :
        /\ Process(P)
        /\ stored' = stored \cup pending \cup P
        /\ pending' = {}
        /\ fetch' = [fetch EXCEPT
               !.count = @ + Cardinality(P), !.seen = @ \cup P,
               !.short = @ \/ LimitReached(P),
               !.got = IF LimitReached(P) THEN {} ELSE @ \cup P,
               !.left = IF turn = "scheduled" /\ Canceled THEN <<>>
                        ELSE IF LimitReached(P) THEN Tail(@) ELSE @]
    /\ UNCHANGED <<unread, moves, jumped, foreign, failed, lost>>

(* Mailgun or the database fails before or after some events of the page,  *)
(* or in the flush, which writes deliveries first.                         *)
PageFails ==
    /\ fetch # None /\ fetch.left # <<>>
    /\ Move
    /\ \E P \in Oldest(Available, Page), n \in 0..Page : \E Q \in Oldest(P, n) :
        /\ Process(Q)
        /\ pending' = pending \cup Buffered(Q)
        /\ \E F \in {{}, {e \in pending' : Q = P /\ Kind[e] = "delivered"}} :
            stored' = stored \cup (Q \ Buffered(Q)) \cup F
        /\ fetch' = [fetch EXCEPT !.error = TRUE, !.left = <<>>,
                                  !.seen = @ \cup Q]
        /\ failed' = (failed \/ Buffered(Q) # {})
    /\ UNCHANGED <<unread, jumped, foreign, lost>>

DomainDone ==
    /\ fetch # None /\ fetch.left # <<>>
    /\ Available = {}
    /\ fetch' = [fetch EXCEPT !.left = Tail(@), !.got = {}]
    /\ UNCHANGED <<unread, stored, pending, last, moves, history>>

-----------------------------------------------------------------------------
(* aggregateStats of the events in S: the emails are counted anew, and the *)
(* opens only by the job that fetches opens alone.                         *)

(* Mutant: no job counts the opens. *)
NeverOpens == FALSE
OpensToo == turn = "opened"

Aggregate(S) ==
    counted' = counted \cup
        {e \in stored : /\ \E f \in S : Email[f] = Email[e]
                        /\ Kind[e] = "opened" => OpensToo}

(* After five minutes or 5000 members the statistics are brought up to     *)
(* date in the middle of a fetch; a failure is logged.                     *)
AggregateMeanwhile ==
    /\ fetch # None /\ fetch.left # <<>> /\ fetch.seen # {}
    /\ Aggregate(fetch.seen)
    /\ fetch' = [fetch EXCEPT !.seen = {}]
    /\ UNCHANGED <<atMailgun, config, stored, pending, cursors,
                   window, turn, used, moves, history>>

(* The end of a fetch: statistics, then the cursor is saved; it moves on   *)
(* by a second when all events have been fetched.                          *)
NextSecond(t) == t + Second

Advanced ==
    IF fetch.count < fetch.max THEN NextSecond(last[turn]) ELSE last[turn]

(* The cursor is that of all domains: it may pass what is left of one.     *)
Jumped ==
    IF Len(Domains) > 1 /\ (fetch.short \/ fetch.error)
    THEN jumped \cup {turn} ELSE jumped

fetched == <<atMailgun, config, stored, pending, started,
             lastBegin, restored, late, lost>>

(* A failure of the database to save it is ignored.  A window is done when *)
(* it has no more events.                                                  *)
EndFetch ==
    LET some == fetch.count > 0
        next == IF some THEN Advanced ELSE last[turn]
        done == turn = "scheduled" /\ (~some \/ Canceled)
        save == IF turn = "scheduled" /\ ~done THEN next ELSE last[turn]
    IN
    /\ fetch # None /\ fetch.left = <<>> /\ ~fetch.error
    /\ Aggregate(fetch.seen)
    /\ IF done THEN Clear
       ELSE /\ last' = [last EXCEPT ![turn] = next]
            /\ schedule' = IF turn = "scheduled"
                           THEN [schedule EXCEPT !.running = FALSE]
                           ELSE schedule
            /\ UNCHANGED metadata
    /\ \/ /\ finished' = IF some THEN [finished EXCEPT ![turn] = save]
                         ELSE finished
          /\ foreign' = (foreign /\ ~(some /\ turn = "scheduled"))
          /\ UNCHANGED moves
       \/ some /\ Move /\ UNCHANGED <<finished, foreign>>
    /\ NextTurn(fetch.count)
    /\ jumped' = Jumped
    /\ UNCHANGED <<fetched, failed>>

(* A fetch that failed, or whose statistics fail now, ends all of them; if *)
(* its status cannot be saved, it stays "running" until the next one.      *)
FetchThrows ==
    /\ fetch # None /\ fetch.left = <<>>
    /\ \/ /\ fetch.error
          /\ Aggregate(fetch.seen)
          /\ UNCHANGED <<moves, failed>>
       \/ /\ Move /\ fetch.seen # {}
          /\ failed' = TRUE
          /\ UNCHANGED counted
    /\ \E stuck \in BOOLEAN :
        schedule' = IF turn = "scheduled"
                    THEN [schedule EXCEPT !.running = stuck] ELSE schedule
    /\ turn' = "idle" /\ used' = 0 /\ fetch' = None
    /\ jumped' = Jumped
    /\ UNCHANGED <<fetched, last, finished, metadata, foreign>>

Crash ==
    /\ Move
    /\ last' = [j \in Jobs |-> None] /\ lastBegin' = None
    /\ schedule' = None /\ restored' = FALSE
    /\ pending' = {} /\ lost' = lost \cup pending
    /\ late' = late \cap stored
    /\ turn' = "idle" /\ used' = 0 /\ fetch' = None
    /\ UNCHANGED <<atMailgun, config, tables, finished, started, metadata,
                   jumped, foreign, failed>>

-----------------------------------------------------------------------------
Work == Skip \/ FetchEvents \/ ReadPage \/ DomainDone \/ EndFetch \/ FetchThrows

Next ==
    \/ \E e \in Events : Show(e)
    \/ Tick
    \/ \E w \in Windows : Request(w)
    \/ Cancel
    \/ Start \/ Work \/ PageFails \/ AggregateMeanwhile
    \/ Crash

Spec == Init /\ [][Next]_vars

(* The event loop goes on with what was started. *)
FairSpec == Spec /\ WF_vars(Work)

-----------------------------------------------------------------------------
(* the events behind the cursor of a job that is not at work *)
Behind(j) ==
    CASE j = "missing" -> {e \in Events : At[e] < Cursor(j)}
      [] j = "scheduled" ->
             IF schedule = None \/ Canceled \/ last[j] = None THEN {}
             ELSE {e \in Events :
                      /\ At[e] \in schedule.of.begin..schedule.of.end
                      /\ At[e] < last[j]}

Passed(j) == IF turn = j /\ fetch # None THEN {} ELSE Behind(j)

(* It happened in the second after another event. *)
Shadowed(e) == \E f \in Events : At[e] - At[f] \in 1..(Second - 1)

(* fetchMissing and fetchScheduled pass no event that Ghost has not        *)
(* recorded, or will with the batch it keeps: 'we are sure we don't miss   *)
(* any events'.  Two exceptions: the cursor goes on by a second, whether   *)
(* the window did or not, and the cursor that several domains share passes *)
(* what is left of one when the fetch ends early.  (A restored window      *)
(* starts at the cursor of the window before it.)                          *)
NothingIsPassedUnlessJumped ==
    \A j \in {"missing", "scheduled"} \ jumped : \A e \in Passed(j) :
        e \in stored \cup pending \cup lost \/ Shadowed(e)

(* The statistics of the emails include what was recorded once the saved   *)
(* cursor of a job has passed it, also after a crash in the middle of a    *)
(* fetch: for opens, the cursor of the job that fetches opens, and for the *)
(* others that of the job for the missing ones, but for the events that    *)
(* this one passes by its extra second (another job may record such an     *)
(* event later and stop before it counts).  Not if counting failed, or an  *)
(* open was found by another job than that of the opens: then it is never  *)
(* counted (#fetchEvents).                                                 *)
Counter(e) == IF Kind[e] = "opened" THEN "opened" ELSE "missing"
SavedPast(e, j) == finished[j] # None /\ At[e] < finished[j]

StatsAgreeUnlessFailed ==
    ~failed =>
        \A e \in stored \ late :
            /\ SavedPast(e, Counter(e))
            /\ Counter(e) \notin jumped
            /\ Counter(e) = "missing" => ~Shadowed(e)
            => e \in counted

(* A fetch ends: it does not fetch the same events for ever, although it   *)
(* begins again at once as long as there are some (startFetch).            *)
EveryFetchEnds == turn # "idle" ~> turn = "idle"
=============================================================================
