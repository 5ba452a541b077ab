---------------------------- MODULE Memberships ----------------------------
(***************************************************************************)
(* Paid memberships: the webhooks of Stripe, which come more than once, in *)
(* any order and several at a time, and the member repository, which       *)
(* copies the subscriptions of one member from Stripe and derives from the *)
(* copies the status of the member and the tiers (products) he may read.   *)
(*                                                                         *)
(* A handler that links a subscription holds the row of the member until   *)
(* it commits, and asks Stripe for the subscription while it holds it: a   *)
(* webhook only says which subscription to look at.  Everything else that  *)
(* writes tiers reads first and writes later, without the row.             *)
(***************************************************************************)
EXTENDS Integers, FiniteSets

CONSTANTS
    Tiers,
    Subs,        \* subscriptions of the customer at Stripe
    Handlers,    \* requests that Ghost handles at a time
    Price,       \* monthly price of each tier
    Trials,      \* the tiers with a free trial
    DefaultTier, \* the tier of a complimentary subscription
    MaxMoves,    \* bound: what happens to the handlers: checkouts, changes
                 \* at Stripe, grants of the admin, failures of a handler,
                 \* deliveries that come once more
    None

ASSUME MembershipsAssumption ==
    /\ Price \in [Tiers -> Nat \ {0}]
    /\ Trials \subseteq Tiers /\ DefaultTier \in Tiers
    /\ MaxMoves \in Nat
    /\ None \notin Handlers \cup Subs \cup {"free", "comped", "paid"}

VARIABLES
    stripe,    \* each subscription as Stripe has it
    events,    \* how often Stripe still has to deliver each event
    member,    \* status of the member, None before he exists
    linked,    \* the row of members_stripe_customers exists
    products,  \* members_products: the tiers the member may read
    rows,      \* members_stripe_customers_subscriptions
    mrr,       \* sum of mrr_delta in members_paid_subscription_events
    invoices,  \* invoices Stripe says are paid
    payments,  \* rows of members_payment_events
    tasks,     \* the request each handler works on
    lock,      \* the handler that holds the row of the member
    moves,     \* how often something happened, up to MaxMoves
    resent,    \* deliveries of an invoice that come once more
    granted,   \* the admin has given or taken access
    stale,     \* tiers were written from reads that no longer held
    skipped    \* a change of tier was only seen after the subscription ended

atStripe == <<stripe, invoices>>
record == <<member, linked, products, rows, mrr, payments>>
history == <<resent, granted, stale, skipped>>
vars == <<atStripe, events, record, tasks, lock, moves, history>>

-----------------------------------------------------------------------------
Statuses == {"none", "trialing", "active", "canceled", "migrated"}
(* comp: the plan is called Complimentary.  The row also has the revenue. *)
Subscriptions == [status : Statuses, tier : Tiers, comp : BOOLEAN,
                  ending : BOOLEAN]
Rows == [is : Subscriptions, mrr : Nat]
Kinds == {"subscription", "checkout", "invoice"}
Events == [kind : Kinds, sub : Subs]
Event(k, s) == [kind |-> k, sub |-> s]

ASSUME NoneAssumption == None \notin Subscriptions \cup Rows \cup Events

(* isActiveSubscriptionStatus *)
Active(x) == x.status \in {"trialing", "active"}

(* getMRR; the price of a complimentary plan is zero *)
Mrr(x) ==
    IF x.status = "active" /\ ~x.ending /\ ~x.comp
    THEN Price[x.tier] ELSE 0

Row(x) == [is |-> x, mrr |-> Mrr(x)]

Live == {s \in Subs : rows[s] # None /\ Active(rows[s].is)}
Comps == {s \in Live : rows[s].is.comp}
TiersOf(S) == {rows[s].is.tier : s \in S}

(* The task of a handler that is not serving a request.  event: what it    *)
(* was called for, None for a request of the member or the admin; todo:    *)
(* subscriptions still to be linked; seen: the answer of Stripe for sub;   *)
(* comps: complimentary subscriptions still to be cancelled; keep, status: *)
(* the tiers and the status it is about to write.                          *)
NoTask == [step |-> "idle", event |-> None, created |-> FALSE,
           removing |-> FALSE, todo |-> {}, sub |-> None, seen |-> None,
           comps |-> {}, keep |-> {}, status |-> None]
Steps == {"idle", "create", "upsert", "link", "commit", "paid",
          "comps", "products", "rows", "write", "grant"}
Tasks == [step : Steps, event : Events \cup {None}, created : BOOLEAN,
          removing : BOOLEAN, todo : SUBSET Subs, sub : Subs \cup {None},
          seen : Subscriptions \cup {None}, comps : SUBSET Subs,
          keep : SUBSET Tiers, status : {None, "free", "comped"}]

TypeOK ==
    /\ stripe \in [Subs -> Subscriptions]
    /\ events \in [Events -> Nat]
    /\ member \in {None, "free", "comped", "paid"} /\ linked \in BOOLEAN
    /\ products \subseteq Tiers
    /\ rows \in [Subs -> Rows \cup {None}]
    /\ mrr \in [Subs -> Nat]
    /\ invoices \in [Subs -> Nat] /\ payments \in [Subs -> Nat]
    /\ tasks \in [Handlers -> Tasks] /\ lock \in Handlers \cup {None}
    /\ moves \in 0..MaxMoves
    /\ resent \in [Subs -> Nat] /\ {granted, stale, skipped} \subseteq BOOLEAN
    \* a customer belongs to a member, and the row is held while it is used
    /\ linked => member # None
    /\ \A s \in Subs : rows[s] # None => linked
    /\ \A x \in Handlers : tasks[x].step = "commit" => lock = x

(* There is no member, or one with a complimentary subscription. *)
Init ==
    /\ \E C \in {{}} \cup {{s} : s \in Subs} :
        /\ stripe = [s \in Subs |->
               [status |-> IF s \in C THEN "active" ELSE "none",
                tier |-> DefaultTier, comp |-> s \in C, ending |-> FALSE]]
        /\ rows = [s \in Subs |-> IF s \in C THEN Row(stripe[s]) ELSE None]
        /\ member = IF C = {} THEN None ELSE "comped"
        /\ linked = (C # {})
        /\ products = IF C = {} THEN {} ELSE {DefaultTier}
    /\ events = [e \in Events |-> 0]
    /\ mrr = [s \in Subs |-> 0]
    /\ invoices = [s \in Subs |-> 0] /\ payments = [s \in Subs |-> 0]
    /\ tasks = [x \in Handlers |-> NoTask] /\ lock = None
    /\ moves = 0
    /\ resent = [s \in Subs |-> 0]
    /\ granted = FALSE /\ stale = FALSE /\ skipped = FALSE

-----------------------------------------------------------------------------
(* Stripe: the member pays, changes his plan, or stops.                    *)

Move == moves < MaxMoves /\ moves' = moves + 1

Emit(es) ==
    events' = [e \in Events |-> IF e \in es THEN events[e] + 1 ELSE events[e]]

(* A checkout is completed.  Stripe says so three times. *)
Checkout(s, t) ==
    LET paid == t \notin Trials
    IN  /\ Move
        /\ stripe[s].status = "none"
        /\ stripe' = [stripe EXCEPT ![s] =
               [status |-> IF paid THEN "active" ELSE "trialing",
                tier |-> t, comp |-> FALSE, ending |-> FALSE]]
        /\ invoices' = IF paid THEN [invoices EXCEPT ![s] = @ + 1]
                       ELSE invoices
        /\ Emit({Event("subscription", s), Event("checkout", s)} \cup
                (IF paid THEN {Event("invoice", s)} ELSE {}))
        /\ UNCHANGED <<record, tasks, lock, history>>

Update(s, new) ==
    /\ Move
    /\ stripe' = [stripe EXCEPT ![s] = new]
    /\ Emit({Event("subscription", s)})
    /\ UNCHANGED invoices

(* What becomes of a subscription at Stripe: another plan, the end of the  *)
(* trial, an end set for the period (or not), the end, or a replacement.   *)
Successors(x) ==
    IF ~Active(x) THEN {}
    ELSE {[x EXCEPT !.tier = t, !.comp = FALSE] : t \in Tiers \ {x.tier}}
         \cup {[x EXCEPT !.status = st] :
                   st \in {"active", "canceled", "migrated"} \ {x.status}}
         \cup {[x EXCEPT !.ending = ~@]}

Change(s) ==
    /\ \E new \in Successors(stripe[s]) : Update(s, new)
    /\ UNCHANGED <<record, tasks, lock, history>>

(* the next invoice is paid *)
Renew(s) ==
    /\ Move
    /\ stripe[s].status = "active" /\ ~stripe[s].comp
    /\ invoices' = [invoices EXCEPT ![s] = @ + 1]
    /\ Emit({Event("invoice", s)})
    /\ UNCHANGED <<stripe, record, tasks, lock, history>>

-----------------------------------------------------------------------------
(* A handler takes an event and answers 200 when it is done, or fails:     *)
(* then Stripe delivers the event again.                                   *)

At(x, step) == tasks[x].step = step
Becomes(x, task) == tasks' = [tasks EXCEPT ![x] = task]
Quit(x) == Becomes(x, NoTask)

(* Stripe delivers e; again: it misses the answer, and will once more *)
Delivers(e, again) ==
    /\ events[e] > 0
    /\ IF again
       THEN /\ Move
            /\ resent' = IF e.kind = "invoice"
                         THEN [resent EXCEPT ![e.sub] = @ + 1] ELSE resent
            /\ UNCHANGED events
       ELSE /\ events' = [events EXCEPT ![e] = @ - 1]
            /\ UNCHANGED <<moves, resent>>

(* what a handler that throws leaves behind: its transaction is rolled back *)
Throws(x) ==
    LET e == tasks[x].event
    IN  /\ Quit(x)
        /\ lock' = IF lock = x THEN None ELSE lock
        /\ events' = IF e = None THEN events ELSE [events EXCEPT ![e] = @ + 1]

Fail(x) ==
    /\ tasks[x].step # "idle"
    /\ Move
    /\ Throws(x)
    /\ UNCHANGED <<atStripe, record, history>>

-----------------------------------------------------------------------------
(* invoice.payment_succeeded: the payment of a customer without a member   *)
(* is an error, "No member found for customer", and comes again.           *)
(* Mutant: it is ignored, like that of a product Ghost did not make.       *)
AnyCustomer == TRUE
CustomerIsKnown == linked

InvoiceEvent(s, again) ==
    /\ CustomerIsKnown
    /\ Delivers(Event("invoice", s), again)
    /\ payments' = IF linked THEN [payments EXCEPT ![s] = @ + 1] ELSE payments
    /\ UNCHANGED <<atStripe, tasks, lock, granted, stale, skipped,
                   member, linked, products, rows, mrr>>

(* customer.subscription.*: that of a customer without a member is         *)
(* answered and forgotten.                                                 *)
SubscriptionEvent(x, s, again) ==
    LET e == Event("subscription", s)
    IN  /\ At(x, "idle")
        /\ Delivers(e, again)
        /\ IF linked
           THEN Becomes(x, [NoTask EXCEPT !.step = "link", !.event = e,
                                          !.todo = {s}])
           ELSE UNCHANGED tasks
        /\ UNCHANGED <<atStripe, record, lock, granted, stale, skipped>>

(* checkout.session.completed: the customer with the subscriptions that    *)
(* are not cancelled is fetched, and the member looked up by the address.  *)
Listed == {s \in Subs : stripe[s].status \in {"trialing", "active"}}

CheckoutEvent(x, s, again) ==
    LET e == Event("checkout", s)
    IN  /\ At(x, "idle")
        /\ Delivers(e, again)
        /\ Becomes(x, [NoTask EXCEPT
               !.step = IF member = None THEN "create" ELSE "upsert",
               !.event = e, !.created = (member = None), !.todo = Listed])
        /\ UNCHANGED <<atStripe, record, lock, granted, stale, skipped>>

quiet == <<atStripe, events, lock, moves, history>>

(* Member.add *)
Create(x) ==
    /\ At(x, "create") /\ member = None
    /\ member' = "free"
    /\ Becomes(x, [tasks[x] EXCEPT !.step = "upsert"])
    /\ UNCHANGED <<quiet, linked, products, rows, mrr, payments>>

(* ... whose address is unique *)
CreateTwice(x) ==
    /\ At(x, "create") /\ member # None
    /\ Throws(x)
    /\ UNCHANGED <<atStripe, record, moves, history>>

(* What follows when the subscriptions of a task are linked: the next      *)
(* complimentary one to cancel, the look whether the member pays now, or   *)
(* the answer.                                                             *)
Linked(task) ==
    CASE task.removing -> [task EXCEPT !.step = "comps"]
      [] ~task.removing /\ task.event # None /\ ~task.created ->
             [task EXCEPT !.step = "paid"]
      [] OTHER -> NoTask

UpsertCustomer(x) ==
    /\ At(x, "upsert")
    /\ linked' = TRUE
    /\ Becomes(x, IF tasks[x].todo = {} THEN Linked(tasks[x])
                  ELSE [tasks[x] EXCEPT !.step = "link"])
    /\ UNCHANGED <<quiet, member, products, rows, mrr, payments>>

-----------------------------------------------------------------------------
(* linkSubscription: one transaction, with the row of the member FOR       *)
(* UPDATE from its first query.                                            *)

(* Mutant: the row is read without FOR UPDATE. *)
NotWaiting == TRUE
RowIsFree == lock = None

BeginLink(x, s) ==
    /\ At(x, "link") /\ s \in tasks[x].todo
    /\ RowIsFree
    /\ lock' = x
    /\ Becomes(x, [tasks[x] EXCEPT !.step = "commit", !.sub = s,
                                   !.seen = stripe[s]])
    /\ UNCHANGED <<atStripe, events, record, moves, history>>

(* the status of a member is written from the subscription just linked *)
NewStatus(seen, others, kept) ==
    CASE Active(seen) -> IF seen.comp THEN "comped" ELSE "paid"
      [] ~Active(seen) /\ kept = {} -> "free"
      [] ~Active(seen) /\ kept # {} /\ others # {} -> "paid"
      [] OTHER -> "comped"

(* Tiers after s was linked: the tiers of the other active subscriptions   *)
(* are added when they are missing; the tier s had goes, unless another    *)
(* active subscription has it, and the tier of an active s comes.          *)
(* Mutant: without the look at the other subscriptions. *)
LinkedProductsAlone(old, seen, others) ==
    IF Active(seen)
    THEN (IF old = None THEN products ELSE products \ {old.is.tier})
         \cup {seen.tier}
    ELSE products \ {seen.tier}
(* Mutant: the tier it had before stays when the plan changes.             *)
PreviousTierStays(old, seen, others) ==
    LET all == products \cup TiersOf(others)
    IN  IF Active(seen) THEN all \cup {seen.tier}
        ELSE all \ ({seen.tier} \ TiersOf(others))
LinkedProducts(old, seen, others) ==
    LET all == products \cup TiersOf(others)
    IN  IF Active(seen)
        THEN (IF old = None THEN products
              ELSE all \ ({old.is.tier} \ TiersOf(others))) \cup {seen.tier}
        ELSE all \ ({seen.tier} \ TiersOf(others))

(* mrr_delta, when the row is new or one of the four columns changed.      *)
(* Mutant: the flag cancel_at_period_end is not one of them.               *)
ChangedButTheEnd(old, new) ==
    <<old.is.status, old.is.tier, old.is.comp>>
    # <<new.is.status, new.is.tier, new.is.comp>>
Changed(old, new) == old # new

Delta(old, new) ==
    CASE old = None -> new.mrr
      [] old # None /\ Changed(old, new) -> new.mrr - old.mrr
      [] OTHER -> 0

EndsElsewhere(old, seen) ==
    /\ old # None /\ Active(old.is) /\ ~Active(seen)
    /\ old.is.tier # seen.tier

CommitLink(x) ==
    LET s == tasks[x].sub
        seen == tasks[x].seen
        old == rows[s]
        new == Row(seen)
        gone == seen.status = "migrated"
        others == Live \ {s}
        kept == LinkedProducts(old, seen, others)
        task == [tasks[x] EXCEPT !.todo = @ \ {s}, !.sub = None,
                                 !.seen = None]
    IN  /\ At(x, "commit")
        /\ rows' = [rows EXCEPT ![s] = IF gone THEN None ELSE new]
        /\ mrr' = [mrr EXCEPT ![s] = IF gone THEN 0 ELSE @ + Delta(old, new)]
        /\ products' = kept
        /\ member' = NewStatus(seen, others, kept)
        /\ lock' = None
        /\ skipped' = (skipped \/ EndsElsewhere(old, seen))
        /\ Becomes(x, IF task.todo = {} THEN Linked(task)
                      ELSE [task EXCEPT !.step = "link"])
        /\ UNCHANGED <<atStripe, events, linked, payments, moves, resent,
                       granted, stale>>

-----------------------------------------------------------------------------
(* A member who pays loses his complimentary access                        *)
(* (removeComplimentarySubscription).                                      *)

IsPaid(x) ==
    /\ At(x, "paid")
    /\ IF member = "paid"
       THEN Becomes(x, [tasks[x] EXCEPT !.step = "comps", !.removing = TRUE,
                                        !.comps = Comps])
       ELSE Quit(x)
    /\ UNCHANGED <<quiet, record>>

(* cancelled at Stripe, which says so, and linked *)
CancelComp(x, s) ==
    /\ At(x, "comps") /\ s \in tasks[x].comps /\ Active(stripe[s])
    /\ stripe' = [stripe EXCEPT ![s].status = "canceled"]
    /\ Emit({Event("subscription", s)})
    /\ Becomes(x, [tasks[x] EXCEPT !.step = "link", !.todo = {s},
                                   !.comps = @ \ {s}])
    /\ UNCHANGED <<invoices, record, lock, moves, history>>

(* it cannot be: the error is logged, as is that of linking it *)
CompStays(x, s) ==
    /\ At(x, "comps") /\ s \in tasks[x].comps
    /\ IF Active(stripe[s]) THEN Move ELSE UNCHANGED moves
    /\ Becomes(x, [tasks[x] EXCEPT !.comps = @ \ {s}])
    /\ UNCHANGED <<atStripe, events, record, lock, history>>

CompIsNotLinked(x) ==
    /\ tasks[x].step \in {"link", "commit"} /\ tasks[x].removing
    /\ Move
    /\ lock' = IF lock = x THEN None ELSE lock
    /\ Becomes(x, [tasks[x] EXCEPT !.step = "comps", !.todo = {},
                                   !.sub = None, !.seen = None])
    /\ UNCHANGED <<atStripe, events, record, history>>

LoadProducts(x) ==
    /\ At(x, "comps") /\ tasks[x].comps = {}
    /\ Becomes(x, [tasks[x] EXCEPT !.step = "rows", !.keep = products])
    /\ UNCHANGED <<quiet, record>>

LoadRows(x) ==
    LET keep == tasks[x].keep \cap TiersOf(Live)
    IN  /\ At(x, "rows")
        /\ IF keep = tasks[x].keep
           THEN Quit(x)
           ELSE Becomes(x, [tasks[x] EXCEPT !.step = "write", !.keep = keep])
        /\ UNCHANGED <<quiet, record>>

(* Member.edit, a transaction of its own *)
WriteProducts(x) ==
    /\ At(x, "write") /\ RowIsFree
    /\ products' = tasks[x].keep
    /\ stale' = (stale \/ member # "paid"
                       \/ tasks[x].keep # products \cap TiersOf(Live))
    /\ Quit(x)
    /\ UNCHANGED <<atStripe, events, lock, moves, resent, granted, skipped,
                   member, linked, rows, mrr, payments>>

-----------------------------------------------------------------------------
(* Requests of the member and the admin (updateSubscription,               *)
(* cancelSubscription): the change is made at Stripe and linked at once.   *)
(* Another plan ends the trial, when the row says there is one.            *)
Requested(x, row) ==
    IF ~Active(x) THEN {}
    ELSE {[x EXCEPT !.tier = t, !.comp = FALSE,
                    !.status = IF row.is.status = "trialing" THEN "active"
                               ELSE @] :
              t \in Tiers \ {x.tier}}
         \cup {[x EXCEPT !.status = "canceled"], [x EXCEPT !.ending = ~@]}

RequestChange(x, s) ==
    /\ At(x, "idle") /\ rows[s] # None
    /\ \E new \in Requested(stripe[s], rows[s]) : Update(s, new)
    /\ Becomes(x, [NoTask EXCEPT !.step = "link", !.todo = {s}])
    /\ UNCHANGED <<record, lock, history>>

(* The admin gives or takes complimentary access, or saves the member with *)
(* the tiers he has (update, with products).                               *)
MayGrant(want) ==
    /\ Cardinality(want) <= 1 \/ Cardinality(want) <= Cardinality(products)
    /\ (products \ want) \cap TiersOf(Live) = {}
    /\ want \ products # {} => Live = {}

GrantedStatus(want) ==
    CASE want \ products # {} -> "comped"
      [] want = {} /\ products # {} -> "free"
      [] OTHER -> None

Grant(x, want) ==
    /\ At(x, "idle") /\ member # None
    /\ Move /\ granted' = TRUE
    /\ MayGrant(want)
    /\ Becomes(x, [NoTask EXCEPT !.step = "grant", !.keep = want,
                                 !.status = GrantedStatus(want)])
    /\ UNCHANGED <<atStripe, events, record, lock, resent, stale, skipped>>

WriteGrant(x) ==
    LET want == tasks[x].keep
        status == tasks[x].status
    IN  /\ At(x, "grant") /\ RowIsFree
        /\ products' = want
        /\ member' = IF status = None THEN member ELSE status
        /\ stale' = (stale \/ ~MayGrant(want) \/ GrantedStatus(want) # status)
        /\ Quit(x)
        /\ UNCHANGED <<atStripe, events, lock, moves, resent, granted, skipped,
                       linked, rows, mrr, payments>>

-----------------------------------------------------------------------------
Work(x) ==
    \/ Create(x) \/ CreateTwice(x) \/ UpsertCustomer(x)
    \/ CommitLink(x) \/ IsPaid(x)
    \/ \E s \in Subs : BeginLink(x, s) \/ CancelComp(x, s) \/ CompStays(x, s)
    \/ CompIsNotLinked(x) \/ LoadProducts(x) \/ LoadRows(x) \/ WriteProducts(x)
    \/ WriteGrant(x)

Handle(s, again) ==
    \/ InvoiceEvent(s, again)
    \/ \E x \in Handlers :
           SubscriptionEvent(x, s, again) \/ CheckoutEvent(x, s, again)

(* All webhooks are answered and no request is under way.  *)
Quiet ==
    /\ \A e \in Events : events[e] = 0
    /\ \A x \in Handlers : At(x, "idle")

Next ==
    \/ \E s \in Subs :
        \/ \E t \in Tiers : Checkout(s, t)
        \/ Renew(s)
        \/ Change(s)
        \/ \E x \in Handlers : RequestChange(x, s)
        \/ \E again \in BOOLEAN : Handle(s, again)
    \/ \E x \in Handlers :
        \/ Work(x) \/ Fail(x)
        \/ \E want \in SUBSET Tiers : Grant(x, want)
    \/ Quiet /\ UNCHANGED vars

Spec == Init /\ [][Next]_vars

-----------------------------------------------------------------------------
(* The row is that of Stripe, or there is none of a subscription that is   *)
(* over.                                                                   *)
Copied(s) ==
    IF rows[s] = None
    THEN stripe[s].status \in {"none", "canceled", "migrated"}
    ELSE rows[s].is = stripe[s] /\ stripe[s].status # "migrated"

(* Whatever the order, the number and the failures of the webhooks, once   *)
(* they are all answered the rows of the subscriptions are what Stripe     *)
(* has: no handler overwrites a newer state with an older one, and no      *)
(* event is forgotten that was needed (linkSubscription, handle).          *)
SettledRowsMatch == Quiet => \A s \in Subs : Copied(s)

(* The events of the revenue of a subscription add up to the revenue in    *)
(* its row, for all handlers that link it at a time (linkSubscription).    *)
LedgerIsMrr ==
    \A s \in Subs : mrr[s] = IF rows[s] = None THEN 0 ELSE rows[s].mrr

(* Unless tiers were written from an outdated read, a member can read the  *)
(* tiers of his active subscriptions, is called free exactly when he has   *)
(* no tier, and paid exactly when he pays (linkSubscription,               *)
(* removeComplimentarySubscription, update).                               *)
AccessAgreesUnlessStale ==
    stale \/
        /\ TiersOf(Live) \subseteq products
        /\ member \in {None, "free"} <=> products = {}
        /\ member = "paid" => Live # {}
        /\ Live # {} /\ Comps = {} => member = "paid"

(* When all is answered every paid invoice is registered, also one that    *)
(* came before its member, and only a repeated delivery registers it twice *)
(* (handleInvoiceEvent, registerPayment).                                  *)
PaymentsAreRegistered ==
    \A s \in Subs : /\ payments[s] <= invoices[s] + resent[s]
                    /\ Quiet => invoices[s] <= payments[s]

(* A member who does not pay and was never given access by the admin has   *)
(* no access: the tier of a subscription goes with it (linkSubscription    *)
(* calls this 'we can safely unlink it from the member').  Only when the   *)
(* subscription was moved to another tier just before, and is linked once  *)
(* for both, does the tier it had stay behind, for ever.                   *)
FreeAccessOnlyIfSkipped ==
    granted \/ stale \/ skipped \/ products \subseteq TiersOf(Live)
=============================================================================
