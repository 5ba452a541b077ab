------------------------ MODULE Memberships_proofs -------------------------
(* Proofs about Memberships, for every number of tiers, subscriptions,     *)
(* handlers and moves.                                                     *)
EXTENDS Memberships, TLAPS

(* What the step of a task says about the rest: who links or goes on after *)
(* it has a customer, who upserts a customer has a member, who commits     *)
(* knows what Stripe answered, and an invoice is never a task.             *)
Fits(t, l, m, g) ==
    /\ t.step \in {"link", "commit", "paid", "comps"} => l
    /\ t.step = "upsert" => m # None
    /\ t.step = "commit" => t.sub \in Subs /\ t.seen \in Subscriptions
    /\ t.step = "grant" => g
    /\ \A s \in Subs : t.event # Event("invoice", s)

TasksFit == \A x \in Handlers : Fits(tasks[x], linked, member, granted)

Sound == TypeOK /\ TasksFit /\ LedgerIsMrr

-----------------------------------------------------------------------------
\* Of the values only these facts are needed: the sets stay hidden.
LEMMA NoneIsNone ==
  /\ None \notin Handlers /\ None \notin Subs /\ None \notin Events
  /\ None \notin Rows /\ None \notin Subscriptions
  /\ None # "free" /\ None # "comped" /\ None # "paid"
  BY MembershipsAssumption, NoneAssumption

LEMMA EventIs ==
  ASSUME NEW k \in Kinds, NEW s \in Subs
  PROVE  /\ Event(k, s) \in Events /\ Event(k, s).kind = k
         /\ Event(k, s).sub = s
  BY DEF Event, Events

LEMMA NoTaskIs ==
  /\ NoTask \in Tasks /\ NoTask.step = "idle" /\ NoTask.event = None
  /\ ~NoTask.removing
  BY DEF NoTask, Tasks, Steps

LEMMA NoTaskFits == \A l, m, g : Fits(NoTask, l, m, g)
<1>1. \A s \in Subs : Event("invoice", s) \in Events BY EventIs DEF Kinds
<1> QED BY <1>1, NoTaskIs, NoneIsNone DEF Fits

LEMMA RowIs ==
  ASSUME NEW x \in Subscriptions
  PROVE  /\ Row(x) \in Rows /\ Row(x).is = x /\ Row(x).mrr = Mrr(x)
         /\ Mrr(x) \in Nat
<1>1. x.tier \in Tiers BY DEF Subscriptions
<1>2. Mrr(x) \in Nat BY <1>1, MembershipsAssumption DEF Mrr
<1> QED BY <1>2 DEF Row, Rows

LEMMA SuccessorsAre ==
  ASSUME NEW x \in Subscriptions
  PROVE  Successors(x) \subseteq Subscriptions
  BY DEF Successors, Subscriptions, Statuses

LEMMA RequestedAre ==
  ASSUME NEW x \in Subscriptions, NEW row
  PROVE  Requested(x, row) \subseteq Subscriptions
  BY DEF Requested, Subscriptions, Statuses

LEMMA Emitted ==
  ASSUME TypeOK, NEW es \in SUBSET Events, Emit(es)
  PROVE  /\ events' \in [Events -> Nat]
         /\ \A e \in Events : events'[e] = IF e \in es THEN events[e] + 1
                                           ELSE events[e]
  BY DEF TypeOK, Emit

LEMMA Moved == ASSUME TypeOK, Move PROVE moves' \in 0..MaxMoves
  BY MembershipsAssumption DEF TypeOK, Move

\* A handler takes another task: the other handlers keep theirs.
LEMMA Assigned ==
  ASSUME TypeOK, TasksFit, NEW x \in Handlers, NEW task \in Tasks,
         Becomes(x, task), Fits(task, linked', member', granted'),
         linked => linked', member # None => member' # None,
         granted => granted'
  PROVE  /\ tasks' \in [Handlers -> Tasks] /\ TasksFit'
         /\ tasks'[x] = task
         /\ \A y \in Handlers \ {x} : tasks'[y] = tasks[y]
<1>1. /\ tasks' \in [Handlers -> Tasks] /\ tasks'[x] = task
      /\ \A y \in Handlers \ {x} : tasks'[y] = tasks[y]
  BY DEF TypeOK, Becomes
<1>2. TasksFit' BY <1>1 DEF TasksFit, Fits
<1> QED BY <1>1, <1>2

LEMMA LinkedIs ==
  ASSUME NEW task \in Tasks
  PROVE  /\ Linked(task) \in Tasks
         /\ Linked(task).event \in {task.event, None}
         /\ Linked(task).step \in {"idle", "comps", "paid"}
  BY NoTaskIs DEF Linked, Tasks, Steps

-----------------------------------------------------------------------------
LEMMA SoundInit == Init => Sound
<1> SUFFICES ASSUME Init PROVE Sound OBVIOUS
<1> USE MembershipsAssumption, NoneIsNone
<1>1. PICK C \in {{}} \cup {{s} : s \in Subs} :
        /\ stripe = [s \in Subs |->
               [status |-> IF s \in C THEN "active" ELSE "none",
                tier |-> DefaultTier, comp |-> s \in C, ending |-> FALSE]]
        /\ rows = [s \in Subs |-> IF s \in C THEN Row(stripe[s]) ELSE None]
        /\ member = IF C = {} THEN None ELSE "comped"
        /\ linked = (C # {})
        /\ products = IF C = {} THEN {} ELSE {DefaultTier}
  BY DEF Init
<1>2. stripe \in [Subs -> Subscriptions]
  BY <1>1 DEF Subscriptions, Statuses
<1>3. \A s \in Subs : /\ Row(stripe[s]) \in Rows
                      /\ s \in C => Row(stripe[s]).mrr = 0
  BY <1>1, <1>2, RowIs DEF Mrr
<1>4. /\ rows \in [Subs -> Rows \cup {None}]
      /\ \A s \in Subs : rows[s] # None => linked
  BY <1>1, <1>3
<1>5. tasks \in [Handlers -> Tasks] /\ TasksFit
      /\ \A x \in Handlers : tasks[x].step = "idle"
  BY NoTaskIs, NoTaskFits DEF Init, TasksFit
<1>6. /\ events \in [Events -> Nat] /\ mrr \in [Subs -> Nat]
      /\ invoices \in [Subs -> Nat] /\ payments \in [Subs -> Nat]
      /\ resent \in [Subs -> Nat] /\ moves \in 0..MaxMoves
      /\ lock \in Handlers \cup {None}
  BY DEF Init
<1>10. {granted, stale, skipped} \subseteq BOOLEAN
  BY Zenon DEF Init
<1>7. /\ member \in {None, "free", "comped", "paid"} /\ linked \in BOOLEAN
      /\ products \subseteq Tiers /\ (linked => member # None)
  BY <1>1
<1>8. TypeOK BY <1>2, <1>4, <1>5, <1>6, <1>7, <1>10, Zenon DEF TypeOK
<1>9. LedgerIsMrr BY <1>1, <1>3 DEF Init, LedgerIsMrr
<1> QED BY <1>5, <1>8, <1>9 DEF Sound

\* A step that writes nothing of Ghost, and changes only Stripe.
LEMMA SoundUpdate ==
  ASSUME Sound, NEW s \in Subs, NEW new \in Subscriptions, Update(s, new)
  PROVE  /\ stripe' \in [Subs -> Subscriptions] /\ stripe'[s] = new
         /\ \A r \in Subs \ {s} : stripe'[r] = stripe[r]
         /\ events' \in [Events -> Nat] /\ moves' \in 0..MaxMoves
         /\ invoices' = invoices
<1>1. {Event("subscription", s)} \in SUBSET Events BY EventIs DEF Kinds
<1> QED BY <1>1, Emitted, Moved DEF Sound, TypeOK, Update

LEMMA SoundCheckout ==
  ASSUME Sound, NEW s \in Subs, NEW t \in Tiers, Checkout(s, t) PROVE Sound'
<1> DEFINE es == {Event("subscription", s), Event("checkout", s)} \cup
                 (IF t \notin Trials THEN {Event("invoice", s)} ELSE {})
<1>1. es \in SUBSET Events BY EventIs DEF Kinds
<1>2. events' \in [Events -> Nat] /\ moves' \in 0..MaxMoves
  BY <1>1, Emitted, Moved DEF Checkout, Sound
<1>3. stripe' \in [Subs -> Subscriptions]
  BY DEF Sound, TypeOK, Checkout, Subscriptions, Statuses
<1>4. invoices' \in [Subs -> Nat] BY DEF Sound, TypeOK, Checkout
<1>5. TypeOK'
  BY <1>2, <1>3, <1>4 DEF Sound, TypeOK, Checkout, record, history
<1> QED BY <1>5 DEF Sound, TasksFit, LedgerIsMrr, Checkout, record, history

LEMMA SoundChange ==
  ASSUME Sound, NEW s \in Subs, Change(s) PROVE Sound'
<1>1. PICK new \in Successors(stripe[s]) : Update(s, new) BY DEF Change
<1>2. new \in Subscriptions BY SuccessorsAre DEF Sound, TypeOK
<1>3. TypeOK'
  BY <1>1, <1>2, SoundUpdate DEF Sound, TypeOK, Change, record, history
<1> QED BY <1>3 DEF Sound, TasksFit, LedgerIsMrr, Change, record, history

LEMMA SoundRenew ==
  ASSUME Sound, NEW s \in Subs, Renew(s) PROVE Sound'
<1>1. {Event("invoice", s)} \in SUBSET Events BY EventIs DEF Kinds
<1>2. events' \in [Events -> Nat] /\ moves' \in 0..MaxMoves
  BY <1>1, Emitted, Moved DEF Renew, Sound
<1>3. TypeOK' BY <1>2 DEF Sound, TypeOK, Renew, record, history
<1> QED BY <1>3 DEF Sound, TasksFit, LedgerIsMrr, Renew, record, history

\* A handler takes another task and writes nothing of Ghost; it may let go of
\* the row of the member.
LEMMA SoundTask ==
  ASSUME Sound, NEW x \in Handlers, NEW task \in Tasks,
         Becomes(x, task), Fits(task, linked, member, granted'),
         task.step # "commit",
         lock' = lock \/ (lock = x /\ lock' = None),
         granted' \in BOOLEAN, granted => granted',
         UNCHANGED <<record, stale, skipped>>,
         stripe' \in [Subs -> Subscriptions], invoices' \in [Subs -> Nat],
         events' \in [Events -> Nat], moves' \in 0..MaxMoves,
         resent' \in [Subs -> Nat]
  PROVE  Sound'
<1>1. Fits(task, linked', member', granted') BY DEF record
<1>2. /\ tasks' \in [Handlers -> Tasks] /\ TasksFit'
      /\ tasks'[x] = task /\ \A y \in Handlers \ {x} : tasks'[y] = tasks[y]
  BY <1>1, Assigned DEF Sound, record
<1>3. \A y \in Handlers : tasks'[y].step = "commit" => lock' = y
  BY <1>2 DEF Sound, TypeOK
<1>4. lock' \in Handlers \cup {None} BY DEF Sound, TypeOK
<1>5. {granted', stale', skipped'} \subseteq BOOLEAN BY DEF Sound, TypeOK
<1>6. TypeOK' BY <1>2, <1>3, <1>4, <1>5 DEF Sound, TypeOK, record
<1> QED BY <1>2, <1>6 DEF Sound, LedgerIsMrr, record

\* What stays typed when nothing but the task changes.
LEMMA Kept ==
  ASSUME Sound
  PROVE  /\ stripe \in [Subs -> Subscriptions] /\ invoices \in [Subs -> Nat]
         /\ events \in [Events -> Nat] /\ moves \in 0..MaxMoves
         /\ resent \in [Subs -> Nat] /\ granted \in BOOLEAN
         /\ lock \in Handlers \cup {None}
         /\ \A x \in Handlers : /\ tasks[x] \in Tasks
                                /\ Fits(tasks[x], linked, member, granted)
  BY DEF Sound, TypeOK, TasksFit

LEMMA SoundRequest ==
  ASSUME Sound, NEW x \in Handlers, NEW s \in Subs, RequestChange(x, s)
  PROVE  Sound'
<1>1. PICK new \in Requested(stripe[s], rows[s]) : Update(s, new)
  BY DEF RequestChange
<1>2. new \in Subscriptions BY RequestedAre DEF Sound, TypeOK
<1> DEFINE task == [NoTask EXCEPT !.step = "link", !.todo = {s}]
<1>3. task \in Tasks /\ task.step = "link" /\ task.event = None
  BY DEF NoTask, Tasks, Steps
<1>4. linked BY DEF Sound, TypeOK, RequestChange
<1>5. Fits(task, linked, member, granted)
  BY <1>3, <1>4, EventIs, NoneIsNone DEF Fits, Kinds
<1>6. Becomes(x, task) /\ UNCHANGED <<record, lock, history>>
  BY DEF RequestChange
<1> HIDE DEF task
<1> QED BY <1>1, <1>2, <1>3, <1>5, <1>6, SoundUpdate, SoundTask, Kept
        DEF history

LEMMA Thrown ==
  ASSUME Sound, NEW x \in Handlers, Throws(x)
  PROVE  /\ Becomes(x, NoTask) /\ events' \in [Events -> Nat]
         /\ lock' = lock \/ (lock = x /\ lock' = None)
<1>1. tasks[x].event \in Events \cup {None} BY Kept DEF Tasks
<1> QED BY <1>1 DEF Throws, Quit, Sound, TypeOK

LEMMA SoundFail ==
  ASSUME Sound, NEW x \in Handlers, Fail(x) PROVE Sound'
<1>1. Throws(x) /\ Move /\ UNCHANGED <<atStripe, record, history>>
  BY DEF Fail
<1>2. moves' \in 0..MaxMoves BY <1>1, Moved DEF Sound
<1> QED BY <1>1, <1>2, Thrown, SoundTask, Kept, NoTaskIs, NoTaskFits
        DEF atStripe, history

LEMMA SoundCreateTwice ==
  ASSUME Sound, NEW x \in Handlers, CreateTwice(x) PROVE Sound'
<1>1. Throws(x) /\ UNCHANGED <<atStripe, record, moves, history>>
  BY DEF CreateTwice
<1> QED BY <1>1, Thrown, SoundTask, Kept, NoTaskIs, NoTaskFits
        DEF atStripe, history

LEMMA Delivered ==
  ASSUME Sound, NEW k \in Kinds, NEW s \in Subs, NEW again \in BOOLEAN,
         Delivers(Event(k, s), again)
  PROVE  /\ events' \in [Events -> Nat] /\ moves' \in 0..MaxMoves
         /\ resent' \in [Subs -> Nat]
<1>1. Event(k, s) \in Events /\ Event(k, s).sub = s BY EventIs
<1>2. CASE again
  BY <1>1, <1>2, Moved DEF Delivers, Sound, TypeOK
<1>3. CASE ~again
  BY <1>1, <1>3 DEF Delivers, Sound, TypeOK
<1> QED BY <1>2, <1>3

LEMMA SoundInvoice ==
  ASSUME Sound, NEW s \in Subs, NEW again \in BOOLEAN, InvoiceEvent(s, again)
  PROVE  Sound'
<1>1. /\ events' \in [Events -> Nat] /\ moves' \in 0..MaxMoves
      /\ resent' \in [Subs -> Nat]
  BY Delivered DEF InvoiceEvent, Kinds
<1>2. payments' \in [Subs -> Nat] BY DEF Sound, TypeOK, InvoiceEvent
<1>3. TypeOK'
  BY <1>1, <1>2 DEF Sound, TypeOK, InvoiceEvent, atStripe
<1> QED BY <1>3 DEF Sound, TasksFit, LedgerIsMrr, InvoiceEvent

LEMMA SoundSubscription ==
  ASSUME Sound, NEW x \in Handlers, NEW s \in Subs, NEW again \in BOOLEAN,
         SubscriptionEvent(x, s, again)
  PROVE  Sound'
<1> DEFINE e == Event("subscription", s)
           task == [NoTask EXCEPT !.step = "link", !.event = e, !.todo = {s}]
<1>1. /\ events' \in [Events -> Nat] /\ moves' \in 0..MaxMoves
      /\ resent' \in [Subs -> Nat]
  BY Delivered DEF SubscriptionEvent, Kinds
<1>2. UNCHANGED <<atStripe, record, lock, granted, stale, skipped>>
  BY DEF SubscriptionEvent
<1>3. CASE linked
  <2>1. e \in Events /\ \A r \in Subs : e # Event("invoice", r)
    BY EventIs DEF Event, Kinds
  <2>2. task \in Tasks /\ task.step = "link" /\ task.event = e
    BY <2>1 DEF NoTask, Tasks, Steps
  <2>3. Fits(task, linked, member, granted) BY <1>3, <2>1, <2>2 DEF Fits
  <2>4. Becomes(x, task) BY <1>3 DEF SubscriptionEvent
  <2> HIDE DEF task
  <2> QED BY <1>1, <1>2, <2>2, <2>3, <2>4, SoundTask, Kept DEF atStripe
<1>4. CASE ~linked
  <2>1. UNCHANGED tasks BY <1>4 DEF SubscriptionEvent
  <2>2. TypeOK' BY <1>1, <1>2, <2>1 DEF Sound, TypeOK, atStripe, record
  <2> QED BY <1>2, <2>1, <2>2 DEF Sound, TasksFit, LedgerIsMrr, record
<1> QED BY <1>3, <1>4

LEMMA SoundCheckoutEvent ==
  ASSUME Sound, NEW x \in Handlers, NEW s \in Subs, NEW again \in BOOLEAN,
         CheckoutEvent(x, s, again)
  PROVE  Sound'
<1> DEFINE e == Event("checkout", s)
           task == [NoTask EXCEPT
                      !.step = IF member = None THEN "create" ELSE "upsert",
                      !.event = e, !.created = (member = None),
                      !.todo = Listed]
<1>1. /\ events' \in [Events -> Nat] /\ moves' \in 0..MaxMoves
      /\ resent' \in [Subs -> Nat]
  BY Delivered DEF CheckoutEvent, Kinds
<1>2. e \in Events /\ \A r \in Subs : e # Event("invoice", r)
  BY EventIs DEF Event, Kinds
<1>3. /\ task \in Tasks /\ task.event = e
      /\ task.step = IF member = None THEN "create" ELSE "upsert"
  BY <1>2 DEF NoTask, Tasks, Steps, Listed
<1>4. Fits(task, linked, member, granted) BY <1>2, <1>3 DEF Fits
<1>5. Becomes(x, task) /\ UNCHANGED <<atStripe, record, lock, granted,
                                      stale, skipped>>
  BY DEF CheckoutEvent
<1> HIDE DEF task
<1> QED BY <1>1, <1>3, <1>4, <1>5, SoundTask, Kept DEF atStripe

LEMMA SoundCreate ==
  ASSUME Sound, NEW x \in Handlers, Create(x) PROVE Sound'
<1> DEFINE task == [tasks[x] EXCEPT !.step = "upsert"]
<1>1. /\ task \in Tasks /\ task.step = "upsert"
      /\ task.event = tasks[x].event
  BY Kept DEF Tasks, Steps
<1>2. member' = "free" /\ Becomes(x, task) BY DEF Create
<1>3. UNCHANGED <<quiet, linked, products, rows, mrr, payments>>
  BY DEF Create
<1>4. granted' = granted BY <1>3 DEF quiet, history
<1>5. Fits(task, linked', member', granted')
  BY <1>1, <1>2, <1>3, <1>4, Kept, NoneIsNone DEF Fits
<1> HIDE DEF task
<1>6. /\ tasks' \in [Handlers -> Tasks] /\ TasksFit'
      /\ tasks'[x] = task /\ \A y \in Handlers \ {x} : tasks'[y] = tasks[y]
  BY <1>1, <1>2, <1>3, <1>4, <1>5, Assigned, NoneIsNone DEF Sound
<1>7. TypeOK'
  BY <1>1, <1>2, <1>3, <1>6, NoneIsNone
     DEF Sound, TypeOK, quiet, atStripe, history
<1> QED BY <1>3, <1>6, <1>7 DEF Sound, LedgerIsMrr

LEMMA SoundUpsert ==
  ASSUME Sound, NEW x \in Handlers, UpsertCustomer(x) PROVE Sound'
<1> DEFINE task == IF tasks[x].todo = {} THEN Linked(tasks[x])
                   ELSE [tasks[x] EXCEPT !.step = "link"]
<1>1. /\ task \in Tasks /\ task.step \in {"link", "idle", "comps", "paid"}
      /\ task.event \in {tasks[x].event, None}
  <2>1. CASE tasks[x].todo = {} BY <2>1, Kept, LinkedIs
  <2>2. CASE tasks[x].todo # {} BY <2>2, Kept DEF Tasks, Steps
  <2> QED BY <2>1, <2>2
<1>2. linked' = TRUE /\ Becomes(x, task) BY DEF UpsertCustomer
<1>3. UNCHANGED <<quiet, member, products, rows, mrr, payments>>
  BY DEF UpsertCustomer
<1>4. granted' = granted BY <1>3 DEF quiet, history
<1>5. \A s \in Subs : task.event # Event("invoice", s)
  BY <1>1, Kept, EventIs, NoneIsNone DEF Fits, Kinds
<1>6. Fits(task, linked', member', granted') BY <1>1, <1>2, <1>5 DEF Fits
<1>7. member # None BY Kept DEF UpsertCustomer, At, Fits
<1> HIDE DEF task
<1>8. /\ tasks' \in [Handlers -> Tasks] /\ TasksFit'
      /\ tasks'[x] = task /\ \A y \in Handlers \ {x} : tasks'[y] = tasks[y]
  BY <1>1, <1>2, <1>3, <1>4, <1>6, Assigned DEF Sound
<1>9. TypeOK'
  BY <1>1, <1>2, <1>3, <1>7, <1>8 DEF Sound, TypeOK, quiet, atStripe, history
<1> QED BY <1>3, <1>8, <1>9 DEF Sound, LedgerIsMrr

\* The row is free, so that no other handler is about to commit.
LEMMA SoundBeginLink ==
  ASSUME Sound, NEW x \in Handlers, NEW s \in Subs, BeginLink(x, s)
  PROVE  Sound'
<1> DEFINE task == [tasks[x] EXCEPT !.step = "commit", !.sub = s,
                                    !.seen = stripe[s]]
<1>1. stripe[s] \in Subscriptions BY Kept
<1>2. /\ task \in Tasks /\ task.step = "commit" /\ task.sub = s
      /\ task.seen = stripe[s] /\ task.event = tasks[x].event
  BY <1>1, Kept DEF Tasks, Steps
<1>3. Becomes(x, task) /\ lock' = x /\ lock = None
  BY DEF BeginLink, RowIsFree
<1>4. UNCHANGED <<atStripe, events, record, moves, history>>
  BY DEF BeginLink
<1>5. linked' = linked /\ member' = member /\ granted' = granted
  BY <1>4 DEF record, history
<1>6. Fits(task, linked', member', granted')
  BY <1>1, <1>2, <1>5, Kept DEF Fits, BeginLink, At
<1> HIDE DEF task
<1>7. /\ tasks' \in [Handlers -> Tasks] /\ TasksFit'
      /\ tasks'[x] = task /\ \A y \in Handlers \ {x} : tasks'[y] = tasks[y]
  BY <1>2, <1>3, <1>5, <1>6, Assigned DEF Sound
<1>8. \A y \in Handlers : tasks'[y].step = "commit" => lock' = y
  BY <1>3, <1>7, NoneIsNone DEF Sound, TypeOK
<1>9. TypeOK'
  BY <1>3, <1>4, <1>7, <1>8 DEF Sound, TypeOK, atStripe, record, history
<1> QED BY <1>4, <1>7, <1>9 DEF Sound, LedgerIsMrr, record

LEMMA SoundCommit ==
  ASSUME Sound, NEW x \in Handlers, CommitLink(x) PROVE Sound'
<1> DEFINE s == tasks[x].sub
           seen == tasks[x].seen
           old == rows[s]
           new == Row(seen)
           gone == seen.status = "migrated"
           others == Live \ {s}
           kept == LinkedProducts(old, seen, others)
           left == [tasks[x] EXCEPT !.todo = @ \ {s}, !.sub = None,
                                    !.seen = None]
           task == IF left.todo = {} THEN Linked(left)
                   ELSE [left EXCEPT !.step = "link"]
<1>1. s \in Subs /\ seen \in Subscriptions /\ linked
  BY Kept DEF CommitLink, At, Fits
<1>2. left \in Tasks /\ left.event = tasks[x].event BY Kept DEF Tasks
<1>3. /\ task \in Tasks /\ task.step \in {"link", "idle", "comps", "paid"}
      /\ task.event \in {tasks[x].event, None}
  <2>1. CASE left.todo = {} BY <2>1, <1>2, LinkedIs
  <2>2. CASE left.todo # {} BY <2>2, <1>2 DEF Tasks, Steps
  <2> QED BY <2>1, <2>2
<1>4. /\ Becomes(x, task) /\ lock' = None
      /\ rows' = [rows EXCEPT ![s] = IF gone THEN None ELSE new]
      /\ mrr' = [mrr EXCEPT ![s] = IF gone THEN 0 ELSE @ + Delta(old, new)]
      /\ products' = kept
      /\ member' = NewStatus(seen, others, kept)
      /\ UNCHANGED <<atStripe, events, linked, payments, moves, resent,
                     granted, stale>>
  BY DEF CommitLink
<1>5. skipped' \in BOOLEAN BY DEF CommitLink
<1>6. \A r \in Subs : task.event # Event("invoice", r)
  BY <1>3, Kept, EventIs, NoneIsNone DEF Fits, Kinds
<1>7. Fits(task, linked', member', granted')
  BY <1>1, <1>3, <1>4, <1>6 DEF Fits
<1>8. member' \in {"free", "comped", "paid"} /\ member' # None
  BY <1>4, NoneIsNone DEF NewStatus
<1>9. new \in Rows /\ new.mrr \in Nat BY <1>1, RowIs
<1>10. kept \subseteq Tiers
  <2>1. TiersOf(others) \subseteq Tiers
    BY DEF Sound, TypeOK, TiersOf, Live, Rows, Subscriptions
  <2>2. seen.tier \in Tiers BY <1>1 DEF Subscriptions
  <2> QED BY <2>1, <2>2 DEF LinkedProducts, Sound, TypeOK
<1>11. mrr[s] + Delta(old, new) = new.mrr
  <2>1. CASE old = None
    BY <2>1, <1>1, <1>9 DEF Delta, Sound, LedgerIsMrr
  <2>2. CASE old # None
    <3>1. mrr[s] = old.mrr BY <2>2, <1>1 DEF Sound, LedgerIsMrr
    <3>2. old.mrr \in Nat BY <3>1, <1>1 DEF Sound, TypeOK
    <3>3. Delta(old, new) = IF old # new THEN new.mrr - old.mrr ELSE 0
      BY <2>2 DEF Delta, Changed
    <3> QED BY <3>1, <3>2, <3>3, <1>9
  <2> QED BY <2>1, <2>2
<1> HIDE DEF task, new, kept
<1>12. /\ tasks' \in [Handlers -> Tasks] /\ TasksFit'
       /\ tasks'[x] = task /\ \A y \in Handlers \ {x} : tasks'[y] = tasks[y]
  BY <1>3, <1>4, <1>7, <1>8, Assigned DEF Sound
<1>13. \A y \in Handlers : tasks'[y].step # "commit"
  BY <1>3, <1>12, NoneIsNone DEF Sound, TypeOK, CommitLink, At
<1>14. /\ rows' \in [Subs -> Rows \cup {None}] /\ mrr' \in [Subs -> Nat]
       /\ LedgerIsMrr'
  <2>1. rows \in [Subs -> Rows \cup {None}] /\ mrr \in [Subs -> Nat]
    BY DEF Sound, TypeOK
  <2>2. new # None BY <1>9, NoneIsNone
  <2>3. rows'[s] = (IF gone THEN None ELSE new)
        /\ \A r \in Subs \ {s} : rows'[r] = rows[r]
    BY <1>1, <1>4, <2>1
  <2>4. mrr'[s] = (IF gone THEN 0 ELSE new.mrr)
        /\ \A r \in Subs \ {s} : mrr'[r] = mrr[r]
    BY <1>1, <1>4, <1>11, <2>1
  <2>5. mrr' \in [Subs -> Nat] /\ rows' \in [Subs -> Rows \cup {None}]
    BY <1>4, <1>9, <1>11, <2>1
  <2> QED BY <2>2, <2>3, <2>4, <2>5 DEF Sound, LedgerIsMrr
<1>15. TypeOK'
  BY <1>1, <1>4, <1>5, <1>8, <1>10, <1>12, <1>13, <1>14
     DEF Sound, TypeOK, atStripe
<1> QED BY <1>12, <1>14, <1>15 DEF Sound

\* An event for Stripe's own change is counted.
LEMMA CancelTyped ==
  ASSUME Sound, NEW s \in Subs, Emit({Event("subscription", s)}),
         stripe' = [stripe EXCEPT ![s].status = "canceled"]
  PROVE  /\ events' \in [Events -> Nat]
         /\ stripe' \in [Subs -> Subscriptions]
<1>1. {Event("subscription", s)} \in SUBSET Events BY EventIs DEF Kinds
<1>2. [stripe[s] EXCEPT !.status = "canceled"] \in Subscriptions
  BY Kept DEF Subscriptions, Statuses
<1>3. stripe' \in [Subs -> Subscriptions] BY <1>2, Kept
<1> QED BY <1>1, <1>3, Emitted DEF Sound

LEMMA SoundIsPaid ==
  ASSUME Sound, NEW x \in Handlers, IsPaid(x) PROVE Sound'
<1> DEFINE task == IF member = "paid"
                   THEN [tasks[x] EXCEPT !.step = "comps", !.removing = TRUE,
                                         !.comps = Comps]
                   ELSE NoTask
<1>1. Becomes(x, task) /\ UNCHANGED <<quiet, record>>
  BY DEF IsPaid, Quit
<1>2. /\ task \in Tasks /\ task.step \in {"comps", "idle"}
      /\ task.event \in {tasks[x].event, None}
  BY Kept, NoTaskIs DEF Tasks, Steps, Comps, Live
<1>3. linked BY Kept DEF IsPaid, At, Fits
<1>4. Fits(task, linked, member, granted')
  BY <1>2, <1>3, Kept, EventIs, NoneIsNone DEF Fits, Kinds
<1> HIDE DEF task
<1> QED BY <1>1, <1>2, <1>4, SoundTask, Kept DEF quiet, atStripe, history

LEMMA SoundCancelComp ==
  ASSUME Sound, NEW x \in Handlers, NEW s \in Subs, CancelComp(x, s)
  PROVE  Sound'
<1> DEFINE task == [tasks[x] EXCEPT !.step = "link", !.todo = {s},
                                    !.comps = @ \ {s}]
<1>1. Becomes(x, task) /\ UNCHANGED <<invoices, record, lock, moves, history>>
  BY DEF CancelComp
<1>2. events' \in [Events -> Nat] /\ stripe' \in [Subs -> Subscriptions]
  BY CancelTyped DEF CancelComp
<1>3. /\ task \in Tasks /\ task.step = "link"
      /\ task.event = tasks[x].event
  BY Kept DEF Tasks, Steps
<1>4. linked BY Kept DEF CancelComp, At, Fits
<1>5. Fits(task, linked, member, granted') BY <1>3, <1>4, Kept DEF Fits
<1> HIDE DEF task
<1> QED BY <1>1, <1>2, <1>3, <1>5, SoundTask, Kept DEF history

LEMMA SoundCompStays ==
  ASSUME Sound, NEW x \in Handlers, NEW s \in Subs, CompStays(x, s)
  PROVE  Sound'
<1> DEFINE task == [tasks[x] EXCEPT !.comps = @ \ {s}]
<1>1. Becomes(x, task) /\ UNCHANGED <<atStripe, events, record, lock, history>>
  BY DEF CompStays
<1>2. moves' \in 0..MaxMoves BY Moved, Kept DEF CompStays, Sound
<1>3. /\ task \in Tasks /\ task.step = tasks[x].step
      /\ task.event = tasks[x].event
  BY Kept DEF Tasks
<1>4. tasks[x].step = "comps" BY DEF CompStays, At
<1>5. Fits(task, linked, member, granted')
  BY <1>1, <1>3, <1>4, Kept DEF Fits, history
<1> HIDE DEF task
<1> QED BY <1>1, <1>2, <1>3, <1>4, <1>5, SoundTask, Kept
        DEF atStripe, history

LEMMA SoundCompIsNotLinked ==
  ASSUME Sound, NEW x \in Handlers, CompIsNotLinked(x) PROVE Sound'
<1> DEFINE task == [tasks[x] EXCEPT !.step = "comps", !.todo = {},
                                    !.sub = None, !.seen = None]
<1>1. Becomes(x, task) /\ UNCHANGED <<atStripe, events, record, history>>
  BY DEF CompIsNotLinked
<1>2. moves' \in 0..MaxMoves BY Moved DEF CompIsNotLinked, Sound
<1>3. /\ task \in Tasks /\ task.step = "comps"
      /\ task.event = tasks[x].event
  BY Kept DEF Tasks, Steps
<1>4. linked BY Kept DEF CompIsNotLinked, Fits
<1>5. Fits(task, linked, member, granted') BY <1>3, <1>4, Kept DEF Fits
<1>6. lock' = lock \/ (lock = x /\ lock' = None) BY DEF CompIsNotLinked
<1> HIDE DEF task
<1> QED BY <1>1, <1>2, <1>3, <1>5, <1>6, SoundTask, Kept
        DEF atStripe, history

LEMMA SoundLoadProducts ==
  ASSUME Sound, NEW x \in Handlers, LoadProducts(x) PROVE Sound'
<1> DEFINE task == [tasks[x] EXCEPT !.step = "rows", !.keep = products]
<1>1. Becomes(x, task) /\ UNCHANGED <<quiet, record>> BY DEF LoadProducts
<1>2. /\ task \in Tasks /\ task.step = "rows"
      /\ task.event = tasks[x].event
  BY Kept DEF Tasks, Steps, Sound, TypeOK
<1>3. Fits(task, linked, member, granted') BY <1>2, Kept DEF Fits
<1> HIDE DEF task
<1> QED BY <1>1, <1>2, <1>3, SoundTask, Kept DEF quiet, atStripe, history

LEMMA SoundLoadRows ==
  ASSUME Sound, NEW x \in Handlers, LoadRows(x) PROVE Sound'
<1> DEFINE keep == tasks[x].keep \cap TiersOf(Live)
           task == IF keep = tasks[x].keep THEN NoTask
                   ELSE [tasks[x] EXCEPT !.step = "write", !.keep = keep]
<1>1. Becomes(x, task) /\ UNCHANGED <<quiet, record>> BY DEF LoadRows, Quit
<1>2. keep \subseteq Tiers BY Kept DEF Tasks
<1> HIDE DEF keep
<1>3. /\ task \in Tasks /\ task.step \in {"idle", "write"}
      /\ task.event \in {tasks[x].event, None}
  BY <1>2, Kept, NoTaskIs DEF Tasks, Steps
<1>4. Fits(task, linked, member, granted')
  BY <1>3, Kept, EventIs, NoneIsNone DEF Fits, Kinds
<1> HIDE DEF task
<1> QED BY <1>1, <1>3, <1>4, SoundTask, Kept DEF quiet, atStripe, history

LEMMA SoundGrant ==
  ASSUME Sound, NEW x \in Handlers, NEW want \in SUBSET Tiers, Grant(x, want)
  PROVE  Sound'
<1> DEFINE task == [NoTask EXCEPT !.step = "grant", !.keep = want,
                                  !.status = GrantedStatus(want)]
<1>1. /\ Becomes(x, task) /\ granted' = TRUE /\ Move
      /\ UNCHANGED <<atStripe, events, record, lock, resent, stale, skipped>>
  BY DEF Grant
<1>2. moves' \in 0..MaxMoves BY <1>1, Moved DEF Sound
<1>3. GrantedStatus(want) \in {None, "free", "comped"} BY DEF GrantedStatus
<1>4. task \in Tasks /\ task.step = "grant" /\ task.event = None
  BY <1>3 DEF NoTask, Tasks, Steps
<1>5. Fits(task, linked, member, granted')
  BY <1>1, <1>4, EventIs, NoneIsNone DEF Fits, Kinds
<1> HIDE DEF task
<1> QED BY <1>1, <1>2, <1>4, <1>5, SoundTask, Kept DEF atStripe

LEMMA SoundWriteProducts ==
  ASSUME Sound, NEW x \in Handlers, WriteProducts(x) PROVE Sound'
<1>1. /\ Becomes(x, NoTask) /\ products' = tasks[x].keep
      /\ UNCHANGED <<atStripe, events, lock, moves, resent, granted, skipped,
                     member, linked, rows, mrr, payments>>
  BY DEF WriteProducts, Quit
<1>2. stale' \in BOOLEAN BY DEF WriteProducts
<1>3. products' \subseteq Tiers BY <1>1, Kept DEF Tasks
<1>4. /\ tasks' \in [Handlers -> Tasks] /\ TasksFit'
      /\ tasks'[x] = NoTask /\ \A y \in Handlers \ {x} : tasks'[y] = tasks[y]
  BY <1>1, Assigned, NoTaskIs, NoTaskFits DEF Sound
<1>5. TypeOK'
  BY <1>1, <1>2, <1>3, <1>4, NoTaskIs DEF Sound, TypeOK, atStripe
<1> QED BY <1>1, <1>4, <1>5 DEF Sound, LedgerIsMrr

LEMMA SoundWriteGrant ==
  ASSUME Sound, NEW x \in Handlers, WriteGrant(x) PROVE Sound'
<1> DEFINE status == tasks[x].status
<1>1. /\ Becomes(x, NoTask) /\ products' = tasks[x].keep
      /\ member' = IF status = None THEN member ELSE status
      /\ UNCHANGED <<atStripe, events, lock, moves, resent, granted, skipped,
                     linked, rows, mrr, payments>>
  BY DEF WriteGrant, Quit
<1>2. stale' \in BOOLEAN BY DEF WriteGrant
<1>3. products' \subseteq Tiers /\ status \in {None, "free", "comped"}
  BY <1>1, Kept DEF Tasks
<1>4. /\ member' \in {None, "free", "comped", "paid"}
      /\ member # None => member' # None
  BY <1>1, <1>3, NoneIsNone DEF Sound, TypeOK
<1>5. /\ tasks' \in [Handlers -> Tasks] /\ TasksFit'
      /\ tasks'[x] = NoTask /\ \A y \in Handlers \ {x} : tasks'[y] = tasks[y]
  BY <1>1, <1>4, Assigned, NoTaskIs, NoTaskFits DEF Sound
<1>6. TypeOK'
  BY <1>1, <1>2, <1>3, <1>4, <1>5, NoTaskIs DEF Sound, TypeOK, atStripe
<1> QED BY <1>1, <1>5, <1>6 DEF Sound, LedgerIsMrr

LEMMA SoundUnchanged == Sound /\ UNCHANGED vars => Sound'
  BY DEF Sound, TypeOK, TasksFit, LedgerIsMrr, vars, atStripe, record, history

LEMMA SoundNext == Sound /\ [Next]_vars => Sound'
<1> SUFFICES ASSUME Sound, [Next]_vars PROVE Sound' OBVIOUS
<1>1. CASE \E s \in Subs : \E t \in Tiers : Checkout(s, t)
  BY <1>1, SoundCheckout
<1>2. CASE \E s \in Subs : Renew(s) \/ Change(s)
  BY <1>2, SoundRenew, SoundChange
<1>3. CASE \E s \in Subs, x \in Handlers : RequestChange(x, s)
  BY <1>3, SoundRequest
<1>4. CASE \E s \in Subs, again \in BOOLEAN : Handle(s, again)
  BY <1>4, SoundInvoice, SoundSubscription, SoundCheckoutEvent DEF Handle
<1>5. CASE \E x \in Handlers : Work(x)
  BY <1>5, SoundCreate, SoundCreateTwice, SoundUpsert, SoundCommit,
     SoundIsPaid, SoundBeginLink, SoundCancelComp, SoundCompStays,
     SoundCompIsNotLinked, SoundLoadProducts, SoundLoadRows,
     SoundWriteProducts, SoundWriteGrant DEF Work
<1>6. CASE \E x \in Handlers : Fail(x) BY <1>6, SoundFail
<1>7. CASE \E x \in Handlers : \E want \in SUBSET Tiers : Grant(x, want)
  BY <1>7, SoundGrant
<1>8. CASE UNCHANGED vars BY <1>8, SoundUnchanged
<1> QED BY <1>1, <1>2, <1>3, <1>4, <1>5, <1>6, <1>7, <1>8 DEF Next

\* Every variable keeps to its type, and the row of the member is held by the
\* one handler that is about to commit (linkSubscription).
THEOREM Typing == Spec => []TypeOK
<1>1. Spec => []Sound BY SoundInit, SoundNext, PTL DEF Spec
<1>2. Sound => TypeOK BY DEF Sound
<1> QED BY <1>1, <1>2, PTL

\* For any number of handlers that link a subscription, the events of its
\* revenue add up to the revenue in its row (linkSubscription).
THEOREM LedgerIsMrr_holds == Spec => []LedgerIsMrr
<1>1. Spec => []Sound BY SoundInit, SoundNext, PTL DEF Spec
<1>2. Sound => LedgerIsMrr BY DEF Sound
<1> QED BY <1>1, <1>2, PTL

-----------------------------------------------------------------------------
\* Who writes the access of the member, or what it is derived from.
LEMMA Writers ==
  ASSUME [Next]_vars
  PROVE  \/ /\ UNCHANGED <<member, products, rows, stale, skipped>>
            /\ granted => granted'
         \/ \E x \in Handlers : \/ Create(x) \/ CommitLink(x)
                                \/ WriteProducts(x) \/ WriteGrant(x)
<1> DEFINE Same == /\ UNCHANGED <<member, products, rows, stale, skipped>>
                   /\ granted => granted'
<1> USE DEF record, history, quiet
<1>1. CASE \E s \in Subs : \E t \in Tiers : Checkout(s, t)
  BY <1>1 DEF Checkout
<1>2. CASE \E s \in Subs : Renew(s) \/ Change(s) BY <1>2 DEF Renew, Change
<1>3. CASE \E s \in Subs, x \in Handlers : RequestChange(x, s)
  BY <1>3 DEF RequestChange
<1>4. CASE \E s \in Subs, again \in BOOLEAN : Handle(s, again)
  BY <1>4 DEF Handle, InvoiceEvent, SubscriptionEvent, CheckoutEvent
<1>5. ASSUME NEW x \in Handlers, Work(x)
      PROVE  \/ Same \/ Create(x) \/ CommitLink(x) \/ WriteProducts(x)
             \/ WriteGrant(x)
  <2>1. CASE CreateTwice(x) \/ UpsertCustomer(x) \/ IsPaid(x)
    BY <2>1 DEF CreateTwice, UpsertCustomer, IsPaid
  <2>2. CASE \E s \in Subs :
               BeginLink(x, s) \/ CancelComp(x, s) \/ CompStays(x, s)
    BY <2>2 DEF BeginLink, CancelComp, CompStays
  <2>3. CASE CompIsNotLinked(x) \/ LoadProducts(x) \/ LoadRows(x)
    BY <2>3 DEF CompIsNotLinked, LoadProducts, LoadRows
  <2> QED BY <1>5, <2>1, <2>2, <2>3 DEF Work
<1>6. CASE \E x \in Handlers : Fail(x) BY <1>6 DEF Fail
<1>7. CASE \E x \in Handlers : \E want \in SUBSET Tiers : Grant(x, want)
  BY <1>7 DEF Grant
<1>8. CASE UNCHANGED vars BY <1>8 DEF vars
<1> QED BY <1>1, <1>2, <1>3, <1>4, <1>5, <1>6, <1>7, <1>8 DEF Next

\* What a link leaves live: the other subscriptions, and s when it is active.
LEMMA LiveAfterLink ==
  ASSUME Sound, NEW x \in Handlers, CommitLink(x)
  PROVE  LET s == tasks[x].sub
             seen == tasks[x].seen
             others == Live \ {s}
         IN  /\ s \in Subs /\ seen \in Subscriptions
             /\ Live' = IF Active(seen) THEN others \cup {s} ELSE others
             /\ TiersOf(Live)' = IF Active(seen)
                                 THEN TiersOf(others) \cup {seen.tier}
                                 ELSE TiersOf(others)
             /\ Active(seen) /\ seen.comp => s \in Comps'
             /\ Active(seen) /\ ~seen.comp => s \in Live'
             /\ Comps' \ {s} = Comps \ {s}
<1> DEFINE s == tasks[x].sub
           seen == tasks[x].seen
           others == Live \ {s}
           gone == seen.status = "migrated"
           new == Row(seen)
<1>1. s \in Subs /\ seen \in Subscriptions BY Kept DEF CommitLink, At, Fits
<1>2. rows' = [rows EXCEPT ![s] = IF gone THEN None ELSE new]
  BY DEF CommitLink
<1>3. new.is = seen /\ new \in Rows /\ new # None BY <1>1, RowIs, NoneIsNone
<1> HIDE DEF new
<1>4. /\ rows'[s] = IF gone THEN None ELSE new
      /\ \A r \in Subs \ {s} : rows'[r] = rows[r]
  BY <1>1, <1>2 DEF Sound, TypeOK
<1>5. Active(seen) => ~gone BY DEF Active
<1>6. Live' = IF Active(seen) THEN others \cup {s} ELSE others
  BY <1>1, <1>3, <1>4, <1>5 DEF Live, Active
<1>7. TiersOf(Live)' = IF Active(seen)
                       THEN TiersOf(others) \cup {seen.tier}
                       ELSE TiersOf(others)
  <2>1. \A r \in others : rows'[r].is.tier = rows[r].is.tier
    BY <1>4 DEF Live
  <2>2. Active(seen) => rows'[s].is.tier = seen.tier BY <1>3, <1>4, <1>5
  <2> QED BY <1>6, <2>1, <2>2 DEF TiersOf
<1>8. /\ Active(seen) /\ seen.comp => s \in Comps'
      /\ Active(seen) /\ ~seen.comp => s \in Live'
  BY <1>3, <1>4, <1>5, <1>6 DEF Comps
<1>9. Comps' \ {s} = Comps \ {s} BY <1>4, <1>6 DEF Comps, Live
<1> QED BY <1>1, <1>6, <1>7, <1>8, <1>9

LEMMA AccessCommit ==
  ASSUME Sound, AccessAgreesUnlessStale, ~stale,
         NEW x \in Handlers, CommitLink(x)
  PROVE  AccessAgreesUnlessStale'
<1> DEFINE s == tasks[x].sub
           seen == tasks[x].seen
           old == rows[s]
           others == Live \ {s}
           kept == LinkedProducts(old, seen, others)
<1>1. /\ s \in Subs /\ seen \in Subscriptions
      /\ Live' = IF Active(seen) THEN others \cup {s} ELSE others
      /\ TiersOf(Live)' = IF Active(seen)
                          THEN TiersOf(others) \cup {seen.tier}
                          ELSE TiersOf(others)
      /\ Active(seen) /\ seen.comp => s \in Comps'
      /\ Active(seen) /\ ~seen.comp => s \in Live'
  BY LiveAfterLink
<1>2. products' = kept /\ member' = NewStatus(seen, others, kept)
  BY DEF CommitLink
<1>3. TiersOf(others) \subseteq products
  BY DEF AccessAgreesUnlessStale, TiersOf
<1>4. TiersOf(Live)' \subseteq kept /\ (Active(seen) => kept # {})
  BY <1>1, <1>3 DEF LinkedProducts
<1>5. kept = {} => others = {}
  <2>1. TiersOf(others) \subseteq kept
    <3> HIDE DEF kept, others, seen, s
    <3> QED BY <1>1, <1>4
  <2>2. ASSUME NEW r \in others PROVE rows[r].is.tier \in TiersOf(others)
    BY DEF TiersOf
  <2> HIDE DEF kept, others
  <2> QED BY <2>1, <2>2
<1> HIDE DEF kept, others, seen, s
<1>6. member' \in {None, "free"} <=> kept = {}
  BY <1>2, <1>4, NoneIsNone DEF NewStatus
<1>7. member' = "paid" => Live' # {}
  BY <1>1, <1>2 DEF NewStatus
<1>8. Live' # {} /\ Comps' = {} => member' = "paid"
  BY <1>1, <1>2, <1>4, <1>5 DEF NewStatus
<1> QED BY <1>2, <1>4, <1>6, <1>7, <1>8 DEF AccessAgreesUnlessStale

\* The derived sets follow the rows.
LEMMA SameRows ==
  ASSUME rows' = rows
  PROVE  Live' = Live /\ Comps' = Comps /\ TiersOf(Live)' = TiersOf(Live)
  BY DEF Live, Comps, TiersOf

LEMMA AccessNext ==
  Sound /\ AccessAgreesUnlessStale /\ [Next]_vars => AccessAgreesUnlessStale'
<1> SUFFICES ASSUME Sound, AccessAgreesUnlessStale, [Next]_vars
             PROVE  AccessAgreesUnlessStale'
  OBVIOUS
<1> USE SameRows DEF AccessAgreesUnlessStale
<1>1. CASE UNCHANGED <<member, products, rows, stale, skipped>> BY <1>1
<1>2. ASSUME NEW x \in Handlers, Create(x) PROVE AccessAgreesUnlessStale'
  <2>1. Live = {} BY <1>2 DEF Sound, TypeOK, Create, Live
  <2> QED BY <1>2, <2>1 DEF Create, quiet, history
<1>3. ASSUME NEW x \in Handlers, CommitLink(x)
      PROVE  AccessAgreesUnlessStale'
  <2>1. CASE stale BY <1>3, <2>1 DEF CommitLink
  <2> QED BY <1>3, <2>1, AccessCommit
<1>4. ASSUME NEW x \in Handlers, WriteProducts(x)
      PROVE  AccessAgreesUnlessStale'
  <2>1. CASE stale' BY <2>1
  <2>2. CASE ~stale'
    <3>1. /\ ~stale /\ member = "paid" /\ member' = member /\ rows' = rows
          /\ products' = products \cap TiersOf(Live)
      BY <1>4, <2>2 DEF WriteProducts
    <3>2. Live # {} /\ TiersOf(Live) \subseteq products /\ TiersOf(Live) # {}
      BY <3>1 DEF TiersOf
    <3> QED BY <3>1, <3>2, NoneIsNone
  <2> QED BY <2>1, <2>2
<1>5. ASSUME NEW x \in Handlers, WriteGrant(x)
      PROVE  AccessAgreesUnlessStale'
  <2>1. CASE stale' BY <2>1
  <2>2. CASE ~stale'
    <3> DEFINE want == tasks[x].keep
    <3>1. /\ ~stale /\ MayGrant(want) /\ GrantedStatus(want) = tasks[x].status
          /\ products' = want /\ rows' = rows
          /\ member' = IF tasks[x].status = None THEN member
                       ELSE tasks[x].status
      BY <1>5, <2>2 DEF WriteGrant
    <3> HIDE DEF want
    <3>2. TiersOf(Live) \subseteq want /\ (Live # {} => want \subseteq products)
      BY <3>1 DEF MayGrant
    <3>3. (Live = {}) <=> (TiersOf(Live) = {}) BY DEF TiersOf
    <3>4. CASE want \ products # {}
      BY <3>1, <3>2, <3>3, <3>4, NoneIsNone DEF GrantedStatus
    <3>5. CASE want = {} /\ products # {}
      BY <3>1, <3>2, <3>3, <3>5, NoneIsNone DEF GrantedStatus
    <3>6. CASE want \subseteq products /\ (want = {} => products = {})
      BY <3>1, <3>2, <3>3, <3>6, NoneIsNone DEF GrantedStatus
    <3> QED BY <3>4, <3>5, <3>6
  <2> QED BY <2>1, <2>2
<1> QED BY <1>1, <1>2, <1>3, <1>4, <1>5, Writers

\* What a complimentary subscription gives is there from the beginning.
LEMMA AccessInit ==
  Init => AccessAgreesUnlessStale /\ FreeAccessOnlyIfSkipped
<1> SUFFICES ASSUME Init
             PROVE  AccessAgreesUnlessStale /\ FreeAccessOnlyIfSkipped
  OBVIOUS
<1>1. PICK C \in {{}} \cup {{s} : s \in Subs} :
        /\ stripe = [s \in Subs |->
               [status |-> IF s \in C THEN "active" ELSE "none",
                tier |-> DefaultTier, comp |-> s \in C, ending |-> FALSE]]
        /\ rows = [s \in Subs |-> IF s \in C THEN Row(stripe[s]) ELSE None]
        /\ member = IF C = {} THEN None ELSE "comped"
        /\ linked = (C # {})
        /\ products = IF C = {} THEN {} ELSE {DefaultTier}
  BY DEF Init
<1>2. /\ C \subseteq Subs
      /\ \A s \in Subs : rows[s] = IF s \in C THEN Row(stripe[s]) ELSE None
      /\ \A s \in C : Row(stripe[s]).is = stripe[s]
  BY <1>1 DEF Row
<1>3. \A s \in C : stripe[s].status = "active" /\ stripe[s].comp
                   /\ stripe[s].tier = DefaultTier
  BY <1>1, <1>2
<1>4. \A s \in C : rows[s] # None
  BY SoundInit, <1>1, <1>2, <1>3, NoneIsNone, RowIs DEF Sound, TypeOK
<1>5. Live = C /\ Comps = C
  BY <1>2, <1>3, <1>4 DEF Live, Comps, Active
<1>6. TiersOf(Live) = products
  <2>1. \A s \in C : rows[s].is.tier = DefaultTier BY <1>2, <1>3
  <2>2. products = IF C = {} THEN {} ELSE {DefaultTier} BY <1>1
  <2> QED BY <1>5, <2>1, <2>2 DEF TiersOf
<1>7. (member = None <=> C = {}) /\ member \in {None, "comped"}
  BY <1>1, NoneIsNone
<1>8. products = {} <=> C = {} BY <1>1
<1> QED BY <1>5, <1>6, <1>7, <1>8, NoneIsNone
        DEF AccessAgreesUnlessStale, FreeAccessOnlyIfSkipped

\* Tiers written from reads that still hold, and linked subscriptions, give
\* the member what he pays for (linkSubscription,
\* removeComplimentarySubscription, update).
THEOREM AccessAgreesUnlessStale_holds == Spec => []AccessAgreesUnlessStale
<1>1. Init => Sound /\ AccessAgreesUnlessStale BY SoundInit, AccessInit
<1>2. Sound /\ AccessAgreesUnlessStale /\ [Next]_vars
      => (Sound /\ AccessAgreesUnlessStale)'
  BY SoundNext, AccessNext
<1> QED BY <1>1, <1>2, PTL DEF Spec

LEMMA FreeCommit ==
  ASSUME Sound, products \subseteq TiersOf(Live), NEW x \in Handlers,
         CommitLink(x)
  PROVE  skipped' \/ (products \subseteq TiersOf(Live))'
<1> DEFINE s == tasks[x].sub
           seen == tasks[x].seen
           old == rows[s]
           others == Live \ {s}
           kept == LinkedProducts(old, seen, others)
<1> SUFFICES ASSUME ~skipped' PROVE kept \subseteq TiersOf(Live)'
  BY DEF CommitLink
<1>1. /\ s \in Subs /\ seen \in Subscriptions
      /\ TiersOf(Live)' = IF Active(seen)
                          THEN TiersOf(others) \cup {seen.tier}
                          ELSE TiersOf(others)
  BY LiveAfterLink
<1>2. ~EndsElsewhere(old, seen) BY DEF CommitLink
<1>3. TiersOf(Live) \subseteq TiersOf(others) \cup
          (IF s \in Live THEN {old.is.tier} ELSE {})
  BY DEF TiersOf
<1>4. s \in Live <=> old # None /\ Active(old.is) BY <1>1 DEF Live
<1> HIDE DEF s, seen, old, others
<1> QED BY <1>1, <1>2, <1>3, <1>4 DEF LinkedProducts, EndsElsewhere

LEMMA FreeNext ==
  Sound /\ FreeAccessOnlyIfSkipped /\ [Next]_vars => FreeAccessOnlyIfSkipped'
<1> SUFFICES ASSUME Sound, FreeAccessOnlyIfSkipped, [Next]_vars
             PROVE  FreeAccessOnlyIfSkipped'
  OBVIOUS
<1> USE SameRows DEF FreeAccessOnlyIfSkipped
<1>1. CASE /\ UNCHANGED <<member, products, rows, stale, skipped>>
           /\ granted => granted'
  BY <1>1
<1>2. ASSUME NEW x \in Handlers, Create(x) PROVE FreeAccessOnlyIfSkipped'
  BY <1>2 DEF Create, quiet, history
<1>3. ASSUME NEW x \in Handlers, CommitLink(x)
      PROVE  FreeAccessOnlyIfSkipped'
  <2>1. CASE granted \/ stale \/ skipped BY <1>3, <2>1 DEF CommitLink
  <2>2. CASE products \subseteq TiersOf(Live) BY <1>3, <2>2, FreeCommit
  <2> QED BY <2>1, <2>2
<1>4. ASSUME NEW x \in Handlers, WriteProducts(x)
      PROVE  FreeAccessOnlyIfSkipped'
  BY <1>4 DEF WriteProducts
<1>5. ASSUME NEW x \in Handlers, WriteGrant(x)
      PROVE  FreeAccessOnlyIfSkipped'
  BY <1>5, Kept DEF WriteGrant, At, Fits
<1> QED BY <1>1, <1>2, <1>3, <1>4, <1>5, Writers

\* Access that nobody pays for is the admin's gift, or has one of the two
\* causes that the history records (linkSubscription).
THEOREM FreeAccessOnlyIfSkipped_holds == Spec => []FreeAccessOnlyIfSkipped
<1>1. Init => Sound /\ FreeAccessOnlyIfSkipped BY SoundInit, AccessInit
<1>2. Sound /\ FreeAccessOnlyIfSkipped /\ [Next]_vars
      => (Sound /\ FreeAccessOnlyIfSkipped)'
  BY SoundNext, FreeNext
<1> QED BY <1>1, <1>2, PTL DEF Spec

-----------------------------------------------------------------------------
\* What is paid is registered or still to be delivered; a delivery that comes
\* once more is one registration more.
Booked ==
    \A s \in Subs :
        events[Event("invoice", s)] + payments[s] = invoices[s] + resent[s]

LEMMA EventsDiffer ==
  ASSUME NEW k \in Kinds, NEW l \in Kinds, NEW r \in Subs, NEW s \in Subs
  PROVE  Event(k, r) = Event(l, s) <=> k = l /\ r = s
  BY EventIs DEF Event

\* Only events of another kind come or go.
LEMMA OtherEvents ==
  ASSUME Booked, UNCHANGED <<invoices, payments, resent>>,
         \A s \in Subs :
             events'[Event("invoice", s)] = events[Event("invoice", s)]
  PROVE  Booked'
  BY DEF Booked

LEMMA BookedEmit ==
  ASSUME Sound, Booked, NEW s \in Subs, Emit({Event("subscription", s)}),
         UNCHANGED <<invoices, payments, resent>>
  PROVE  Booked'
<1>1. \A r \in Subs : /\ Event("invoice", r) \in Events
                      /\ Event("invoice", r) # Event("subscription", s)
  BY EventIs, EventsDiffer DEF Kinds
<1>2. {Event("subscription", s)} \in SUBSET Events BY EventIs DEF Kinds
<1> QED BY <1>1, <1>2, Emitted, OtherEvents DEF Sound

LEMMA BookedCheckout ==
  ASSUME Sound, Booked, NEW s \in Subs, NEW t \in Tiers, Checkout(s, t)
  PROVE  Booked'
<1> DEFINE paid == t \notin Trials
           es == {Event("subscription", s), Event("checkout", s)} \cup
                 (IF paid THEN {Event("invoice", s)} ELSE {})
<1>1. es \in SUBSET Events BY EventIs DEF Kinds
<1>2. \A r \in Subs : /\ Event("invoice", r) \in Events
                      /\ Event("invoice", r) \in es <=> (paid /\ r = s)
  BY EventIs, EventsDiffer DEF Kinds
<1>3. \A r \in Subs : events'[Event("invoice", r)] =
        IF paid /\ r = s THEN events[Event("invoice", r)] + 1
        ELSE events[Event("invoice", r)]
  <2>1. Emit(es) BY DEF Checkout
  <2> HIDE DEF es
  <2> QED BY <1>1, <1>2, <2>1, Emitted DEF Sound
<1>4. invoices' = IF paid THEN [invoices EXCEPT ![s] = @ + 1] ELSE invoices
  BY DEF Checkout
<1>5. payments' = payments /\ resent' = resent
  BY DEF Checkout, record, history
<1> HIDE DEF paid
<1>6. \A r \in Subs : /\ events[Event("invoice", r)] \in Nat
                      /\ payments[r] \in Nat /\ invoices[r] \in Nat
                      /\ resent[r] \in Nat
  BY <1>2 DEF Sound, TypeOK
<1>7. \A r \in Subs : invoices'[r] = IF paid /\ r = s THEN invoices[r] + 1
                                     ELSE invoices[r]
  BY <1>4 DEF Sound, TypeOK
<1> QED BY <1>3, <1>5, <1>6, <1>7 DEF Booked

LEMMA BookedRenew ==
  ASSUME Sound, Booked, NEW s \in Subs, Renew(s) PROVE Booked'
<1>1. {Event("invoice", s)} \in SUBSET Events BY EventIs DEF Kinds
<1>2. \A r \in Subs : /\ Event("invoice", r) \in Events
                      /\ Event("invoice", r) = Event("invoice", s) <=> r = s
  BY EventIs, EventsDiffer DEF Kinds
<1>3. \A r \in Subs : events'[Event("invoice", r)] =
        IF r = s THEN events[Event("invoice", r)] + 1
        ELSE events[Event("invoice", r)]
  BY <1>1, <1>2, Emitted DEF Sound, Renew
<1>4. \A r \in Subs : /\ events[Event("invoice", r)] \in Nat
                      /\ payments[r] \in Nat /\ invoices[r] \in Nat
                      /\ resent[r] \in Nat
  BY <1>2 DEF Sound, TypeOK
<1>5. \A r \in Subs : invoices'[r] = IF r = s THEN invoices[r] + 1
                                     ELSE invoices[r]
  BY DEF Sound, TypeOK, Renew
<1>6. payments' = payments /\ resent' = resent
  BY DEF Renew, record, history
<1> QED BY <1>3, <1>4, <1>5, <1>6 DEF Booked

LEMMA BookedInvoice ==
  ASSUME Sound, Booked, NEW s \in Subs, NEW again \in BOOLEAN,
         InvoiceEvent(s, again)
  PROVE  Booked'
<1> DEFINE e == Event("invoice", s)
<1>1. e \in Events /\ e.kind = "invoice" /\ e.sub = s
  BY EventIs DEF Kinds
<1>2. \A r \in Subs : /\ Event("invoice", r) \in Events
                      /\ Event("invoice", r) = e <=> r = s
  BY EventIs, EventsDiffer DEF Kinds
<1>3. \A r \in Subs : /\ events[Event("invoice", r)] \in Nat
                      /\ payments[r] \in Nat /\ invoices[r] \in Nat
                      /\ resent[r] \in Nat
  BY <1>2 DEF Sound, TypeOK
<1>4. invoices' = invoices BY DEF InvoiceEvent, atStripe
<1>5. \A r \in Subs : payments'[r] = IF r = s THEN payments[r] + 1
                                     ELSE payments[r]
  BY DEF InvoiceEvent, CustomerIsKnown, Sound, TypeOK
<1> HIDE DEF e
<1>6. Delivers(e, again) BY DEF InvoiceEvent, e
<1>7. CASE again
  <2>1. events' = events /\ resent' = [resent EXCEPT ![s] = @ + 1]
    BY <1>1, <1>6, <1>7 DEF Delivers
  <2>2. \A r \in Subs : resent'[r] = IF r = s THEN resent[r] + 1 ELSE resent[r]
    BY <2>1 DEF Sound, TypeOK
  <2> QED BY <1>3, <1>4, <1>5, <2>1, <2>2 DEF Booked
<1>8. CASE ~again
  <2>1. /\ resent' = resent /\ events[e] > 0
        /\ events' = [events EXCEPT ![e] = @ - 1]
    BY <1>6, <1>8 DEF Delivers
  <2>2. \A r \in Subs : events'[Event("invoice", r)] =
          IF r = s THEN events[Event("invoice", r)] - 1
          ELSE events[Event("invoice", r)]
    BY <1>1, <1>2, <2>1 DEF Sound, TypeOK
  <2> QED BY <1>3, <1>4, <1>5, <2>1, <2>2 DEF Booked
<1> QED BY <1>7, <1>8

LEMMA BookedDelivery ==
  ASSUME Sound, Booked, NEW k \in Kinds \ {"invoice"}, NEW s \in Subs,
         NEW again \in BOOLEAN, Delivers(Event(k, s), again),
         UNCHANGED <<invoices, payments>>
  PROVE  Booked'
<1> DEFINE e == Event(k, s)
<1>1. e.kind # "invoice" /\ \A r \in Subs : Event("invoice", r) # e
                                            /\ Event("invoice", r) \in Events
  BY EventIs, EventsDiffer DEF Kinds
<1>2. resent' = resent BY <1>1 DEF Delivers
<1>3. events' = events \/ events' = [events EXCEPT ![e] = @ - 1]
  BY DEF Delivers
<1> HIDE DEF e
<1>4. \A r \in Subs :
        events'[Event("invoice", r)] = events[Event("invoice", r)]
  BY <1>1, <1>3 DEF Sound, TypeOK
<1> QED BY <1>2, <1>4, OtherEvents

LEMMA BookedThrow ==
  ASSUME Sound, Booked, NEW x \in Handlers, Throws(x),
         UNCHANGED <<invoices, payments, resent>>
  PROVE  Booked'
<1> DEFINE e == tasks[x].event
<1>1. \A r \in Subs : Event("invoice", r) # e /\ Event("invoice", r) \in Events
  BY Kept, EventIs DEF Fits, Kinds
<1>2. events' = events \/ events' = [events EXCEPT ![e] = @ + 1]
  BY DEF Throws
<1> HIDE DEF e
<1>3. \A r \in Subs :
        events'[Event("invoice", r)] = events[Event("invoice", r)]
  BY <1>1, <1>2 DEF Sound, TypeOK
<1> QED BY <1>3, OtherEvents

LEMMA BookedNext == Sound /\ Booked /\ [Next]_vars => Booked'
<1> SUFFICES ASSUME Sound, Booked, [Next]_vars PROVE Booked' OBVIOUS
<1> USE DEF atStripe, record, history, quiet
<1>1. CASE \E s \in Subs : \E t \in Tiers : Checkout(s, t)
  BY <1>1, BookedCheckout
<1>2. CASE \E s \in Subs : Renew(s) BY <1>2, BookedRenew
<1>3. CASE \E s \in Subs : Change(s)
  BY <1>3, BookedEmit DEF Change, Update
<1>4. CASE \E s \in Subs, x \in Handlers : RequestChange(x, s)
  BY <1>4, BookedEmit DEF RequestChange, Update
<1>5. ASSUME NEW s \in Subs, NEW again \in BOOLEAN, Handle(s, again)
      PROVE  Booked'
  <2>1. CASE InvoiceEvent(s, again) BY <2>1, BookedInvoice
  <2>2. CASE \E x \in Handlers : SubscriptionEvent(x, s, again)
    BY <2>2, BookedDelivery DEF SubscriptionEvent, Kinds
  <2>3. CASE \E x \in Handlers : CheckoutEvent(x, s, again)
    BY <2>3, BookedDelivery DEF CheckoutEvent, Kinds
  <2> QED BY <1>5, <2>1, <2>2, <2>3 DEF Handle
<1>6. ASSUME NEW x \in Handlers, Work(x) PROVE Booked'
  <2>1. CASE CreateTwice(x) BY <2>1, BookedThrow DEF CreateTwice
  <2>2. CASE \E s \in Subs : CancelComp(x, s)
    BY <2>2, BookedEmit DEF CancelComp
  <2>3. CASE Create(x) \/ UpsertCustomer(x) \/ CommitLink(x) \/ IsPaid(x)
    BY <2>3, OtherEvents DEF Create, UpsertCustomer, CommitLink, IsPaid
  <2>4. CASE \E s \in Subs : BeginLink(x, s) \/ CompStays(x, s)
    BY <2>4, OtherEvents DEF BeginLink, CompStays
  <2>5. CASE CompIsNotLinked(x) \/ LoadProducts(x) \/ LoadRows(x)
    BY <2>5, OtherEvents DEF CompIsNotLinked, LoadProducts, LoadRows
  <2>6. CASE WriteProducts(x) \/ WriteGrant(x)
    BY <2>6, OtherEvents DEF WriteProducts, WriteGrant
  <2> QED BY <1>6, <2>1, <2>2, <2>3, <2>4, <2>5, <2>6 DEF Work
<1>7. CASE \E x \in Handlers : Fail(x) BY <1>7, BookedThrow DEF Fail
<1>8. CASE \E x \in Handlers : \E want \in SUBSET Tiers : Grant(x, want)
  BY <1>8, OtherEvents DEF Grant
<1>9. CASE UNCHANGED vars BY <1>9, OtherEvents DEF vars
<1> QED BY <1>1, <1>2, <1>3, <1>4, <1>5, <1>6, <1>7, <1>8, <1>9 DEF Next

\* Every paid invoice is registered once all is answered, and more than once
\* only as often as it was delivered again (handleInvoiceEvent).
THEOREM PaymentsAreRegistered_holds == Spec => []PaymentsAreRegistered
<1>1. Init => Sound /\ Booked
  <2>1. Init => Booked BY EventIs DEF Init, Booked, Kinds
  <2> QED BY <2>1, SoundInit
<1>2. Sound /\ Booked /\ [Next]_vars => (Sound /\ Booked)'
  BY SoundNext, BookedNext
<1>3. Sound /\ Booked => PaymentsAreRegistered
  <2> SUFFICES ASSUME Sound, Booked, NEW s \in Subs
               PROVE  /\ payments[s] <= invoices[s] + resent[s]
                      /\ Quiet => invoices[s] <= payments[s]
    BY DEF PaymentsAreRegistered
  <2>1. Event("invoice", s) \in Events BY EventIs DEF Kinds
  <2>2. /\ events[Event("invoice", s)] \in Nat /\ payments[s] \in Nat
        /\ invoices[s] \in Nat /\ resent[s] \in Nat
    BY <2>1 DEF Sound, TypeOK
  <2>3. events[Event("invoice", s)] + payments[s] = invoices[s] + resent[s]
    BY DEF Booked
  <2>4. Quiet => events[Event("invoice", s)] = 0 BY <2>1 DEF Quiet
  <2> QED BY <2>2, <2>3, <2>4
<1> QED BY <1>1, <1>2, <1>3, PTL DEF Spec

-----------------------------------------------------------------------------
(* Why the rows settle.  A subscription that is not copied is awaited: an  *)
(* event that says to look at it is not delivered yet, or a handler of     *)
(* such an event has not linked it yet; and what a handler is about to     *)
(* write is what Stripe has, or it is awaited again.                       *)

(* a handler of an event of s that will ask Stripe, or has the last answer *)
Carries(x, s) ==
    /\ tasks[x].event = Event("subscription", s)
    /\ ~tasks[x].removing /\ s \in tasks[x].todo
    /\ \/ tasks[x].step = "link"
       \/ /\ tasks[x].step = "commit"
          /\ tasks[x].sub = s => tasks[x].seen = stripe[s]

Pending(s) ==
    \/ events[Event("subscription", s)] > 0
    \/ \E x \in Handlers : Carries(x, s)

(* a handler of a checkout that will link s among others *)
Signs(x, s) ==
    /\ \E r \in Subs : tasks[x].event = Event("checkout", r)
    /\ ~tasks[x].removing /\ s \in tasks[x].todo
    /\ tasks[x].step \in {"create", "upsert", "link", "commit"}

CheckoutComes == \E r \in Subs : events[Event("checkout", r)] > 0
SignsUp(s) == CheckoutComes \/ \E x \in Handlers : Signs(x, s)

Awaited(s) ==
    \/ linked /\ Pending(s)
    \/ rows[s] = None /\ SignsUp(s)

(* a handler is about to write an answer that no longer holds *)
Behind(x, s) ==
    tasks[x].step = "commit" /\ tasks[x].sub = s /\ tasks[x].seen # stripe[s]

Fresh ==
    /\ \A s \in Subs : Copied(s) \/ Awaited(s)
    /\ \A x \in Handlers, s \in Subs : Behind(x, s) => Pending(s)

\* Rows and subscriptions stay, and what was awaited still is.
LEMMA Steady ==
  ASSUME Sound, Fresh, UNCHANGED <<rows, stripe>>, linked => linked',
         \A s \in Subs : linked /\ Pending(s) => Pending(s)',
         \A s \in Subs : ~Copied(s) /\ rows[s] = None /\ SignsUp(s)
                          => SignsUp(s)',
         \A x \in Handlers, s \in Subs : Behind(x, s)' => Behind(x, s)
  PROVE  Fresh'
<1>1. ASSUME NEW s \in Subs PROVE (Copied(s) \/ Awaited(s))'
  <2>1. Copied(s)' <=> Copied(s) BY DEF Copied
  <2> QED BY <2>1 DEF Fresh, Awaited
<1>2. ASSUME NEW x \in Handlers, NEW s \in Subs, Behind(x, s)'
      PROVE  Pending(s)'
  <2>1. linked BY <1>2, Kept DEF Behind, Fits
  <2> QED BY <1>2, <2>1 DEF Fresh
<1> QED BY <1>1, <1>2 DEF Fresh

\* One handler takes a step and hands on what it was to link.
LEMMA HandsOn ==
  ASSUME Sound, Fresh, NEW x \in Handlers,
         \A y \in Handlers \ {x} : tasks'[y] = tasks[y],
         UNCHANGED <<rows, stripe>>, linked => linked',
         \A s \in Subs :
           /\ events[Event("subscription", s)] > 0
              => events'[Event("subscription", s)] > 0
           /\ events[Event("checkout", s)] > 0
              => events'[Event("checkout", s)] > 0
           /\ Carries(x, s) => Pending(s)'
           /\ Signs(x, s) => SignsUp(s)'
           /\ ~Behind(x, s)'
  PROVE  Fresh'
<1>1. \A s \in Subs : Pending(s) => Pending(s)'
  BY DEF Pending, Carries
<1>2. \A s \in Subs : SignsUp(s) => SignsUp(s)'
  BY DEF SignsUp, Signs, CheckoutComes
<1>3. \A y \in Handlers, s \in Subs : Behind(y, s)' => Behind(y, s)
  BY DEF Behind
<1> QED BY <1>1, <1>2, <1>3, Steady

\* The events of subscriptions and checkouts.
LEMMA LinkEvents ==
  \A s \in Subs : /\ Event("subscription", s) \in Events
                  /\ Event("checkout", s) \in Events
  BY EventIs DEF Kinds

\* A handler that has nothing to link, before and after.
LEMMA FreshIdle ==
  ASSUME Sound, Fresh, NEW x \in Handlers,
         \A y \in Handlers \ {x} : tasks'[y] = tasks[y],
         UNCHANGED <<rows, stripe, events>>, linked => linked',
         tasks[x].step \notin {"create", "upsert", "link", "commit"}
         \/ tasks[x].removing,
         tasks'[x].step # "commit"
  PROVE  Fresh'
<1>1. \A s \in Subs : ~Carries(x, s) /\ ~Signs(x, s) /\ ~Behind(x, s)'
  BY DEF Carries, Signs, Behind
<1> QED BY <1>1, HandsOn

\* The other handlers keep their tasks.
LEMMA OthersKeep ==
  ASSUME Sound, NEW x \in Handlers, NEW task, Becomes(x, task)
  PROVE  tasks'[x] = task /\ \A y \in Handlers \ {x} : tasks'[y] = tasks[y]
  BY DEF Sound, TypeOK, Becomes

\* A handler that throws gives its event back.
LEMMA FreshThrow ==
  ASSUME Sound, Fresh, NEW x \in Handlers, Throws(x),
         UNCHANGED <<atStripe, record>>
  PROVE  Fresh'
<1> DEFINE e == tasks[x].event
<1>1. /\ tasks'[x] = NoTask
      /\ \A y \in Handlers \ {x} : tasks'[y] = tasks[y]
  BY OthersKeep DEF Throws, Quit
<1>2. /\ events' = IF e = None THEN events ELSE [events EXCEPT ![e] = @ + 1]
      /\ e \in Events \cup {None}
  BY Kept DEF Throws, Tasks
<1> HIDE DEF e
<1>3. \A f \in Events : /\ events[f] \in Nat
                        /\ events'[f] = IF f = e THEN events[f] + 1
                                        ELSE events[f]
  BY <1>2, NoneIsNone DEF Sound, TypeOK
<1>4. ASSUME NEW s \in Subs, Carries(x, s) PROVE Pending(s)'
  <2>1. e = Event("subscription", s) BY <1>4 DEF Carries, e
  <2> QED BY <1>3, <2>1, LinkEvents DEF Pending
<1>5. ASSUME NEW s \in Subs, Signs(x, s) PROVE SignsUp(s)'
  <2>1. PICK r \in Subs : e = Event("checkout", r) BY <1>5 DEF Signs, e
  <2>2. events'[Event("checkout", r)] > 0 BY <1>3, <2>1, LinkEvents
  <2> QED BY <2>2 DEF SignsUp, CheckoutComes
<1>6. \A s \in Subs : ~Behind(x, s)' BY <1>1, NoTaskIs DEF Behind
<1>7. \A f \in Events : events[f] > 0 => events'[f] > 0 BY <1>3
<1>8. UNCHANGED <<rows, stripe, linked>> BY DEF atStripe, record
<1> QED BY <1>1, <1>4, <1>5, <1>6, <1>7, <1>8, LinkEvents, HandsOn

\* An active subscription changes at Stripe, which says so.
LEMMA FreshUpdate ==
  ASSUME Sound, Fresh, NEW s \in Subs, Active(stripe[s]),
         \A r \in Subs \ {s} : stripe'[r] = stripe[r],
         Emit({Event("subscription", s)}), UNCHANGED record,
         \A y \in Handlers :
           \/ tasks'[y] = tasks[y]
           \/ /\ tasks[y].step \in {"idle", "comps"}
              /\ tasks'[y].step # "commit"
  PROVE  Fresh'
<1>1. /\ \A e \in Events : events[e] > 0 => events'[e] > 0
      /\ events'[Event("subscription", s)] > 0
  <2>1. {Event("subscription", s)} \in SUBSET Events BY LinkEvents
  <2>2. \A e \in Events : events[e] \in Nat BY DEF Sound, TypeOK
  <2> QED BY <2>1, <2>2, Emitted, LinkEvents DEF Sound
<1>2. Pending(s)' BY <1>1 DEF Pending
<1>3. ASSUME NEW r \in Subs \ {s}, Pending(r) PROVE Pending(r)'
  <2>1. CASE events[Event("subscription", r)] > 0
    BY <1>1, <2>1, LinkEvents DEF Pending
  <2>2. ASSUME NEW y \in Handlers, Carries(y, r) PROVE Pending(r)'
    <3>1. tasks'[y] = tasks[y] BY <2>2 DEF Carries
    <3> QED BY <2>2, <3>1 DEF Carries, Pending
  <2> QED BY <1>3, <2>1, <2>2 DEF Pending
<1>4. ASSUME NEW r \in Subs, SignsUp(r) PROVE SignsUp(r)'
  <2>1. CASE CheckoutComes
    BY <1>1, <2>1, LinkEvents DEF SignsUp, CheckoutComes
  <2>2. ASSUME NEW y \in Handlers, Signs(y, r) PROVE SignsUp(r)'
    <3>1. tasks'[y] = tasks[y] BY <2>2 DEF Signs
    <3> QED BY <2>2, <3>1 DEF Signs, SignsUp
  <2> QED BY <1>4, <2>1, <2>2 DEF SignsUp
<1>5. linked' = linked /\ rows' = rows BY DEF record
<1>6. (Copied(s) \/ Awaited(s))'
  <2>1. CASE linked BY <1>2, <1>5, <2>1 DEF Awaited
  <2>2. CASE ~linked
    <3>1. rows[s] = None BY <2>2 DEF Sound, TypeOK
    <3>2. SignsUp(s) BY <2>2, <3>1 DEF Fresh, Copied, Awaited, Active
    <3> QED BY <1>4, <1>5, <3>1, <3>2 DEF Awaited
  <2> QED BY <2>1, <2>2
<1>7. ASSUME NEW r \in Subs \ {s} PROVE (Copied(r) \/ Awaited(r))'
  <2>1. Copied(r)' <=> Copied(r) BY <1>5 DEF Copied
  <2> QED BY <1>3, <1>4, <1>5, <2>1 DEF Fresh, Awaited
<1>8. ASSUME NEW y \in Handlers, NEW r \in Subs \ {s}, Behind(y, r)'
      PROVE  Pending(r)'
  <2>1. tasks'[y] = tasks[y] BY <1>8 DEF Behind
  <2>2. Behind(y, r) BY <1>8, <2>1 DEF Behind
  <2> QED BY <1>3, <2>2 DEF Fresh
<1> QED BY <1>2, <1>6, <1>7, <1>8 DEF Fresh

LEMMA FreshChange ==
  ASSUME Sound, Fresh, NEW s \in Subs, Change(s) PROVE Fresh'
<1>1. PICK new \in Successors(stripe[s]) : Update(s, new) BY DEF Change
<1>2. Active(stripe[s]) BY <1>1 DEF Successors
<1>3. \A r \in Subs \ {s} : stripe'[r] = stripe[r]
  BY <1>1 DEF Update, Sound, TypeOK
<1>4. Emit({Event("subscription", s)}) BY <1>1 DEF Update
<1>5. UNCHANGED <<record, tasks>> BY DEF Change
<1> QED BY <1>2, <1>3, <1>4, <1>5, FreshUpdate

LEMMA FreshRequest ==
  ASSUME Sound, Fresh, NEW x \in Handlers, NEW s \in Subs,
         RequestChange(x, s)
  PROVE  Fresh'
<1>1. PICK new \in Requested(stripe[s], rows[s]) : Update(s, new)
  BY DEF RequestChange
<1>2. Active(stripe[s]) BY <1>1 DEF Requested
<1>3. \A r \in Subs \ {s} : stripe'[r] = stripe[r]
  BY <1>1 DEF Update, Sound, TypeOK
<1>4. Emit({Event("subscription", s)}) BY <1>1 DEF Update
<1>5. /\ tasks'[x].step = "link"
      /\ \A y \in Handlers \ {x} : tasks'[y] = tasks[y]
  <2> DEFINE task == [NoTask EXCEPT !.step = "link", !.todo = {s}]
  <2>1. Becomes(x, task) BY DEF RequestChange
  <2>2. task.step = "link" BY DEF NoTask
  <2> HIDE DEF task
  <2> QED BY <2>1, <2>2, OthersKeep
<1>6. UNCHANGED record /\ tasks[x].step = "idle" BY DEF RequestChange, At
<1> QED BY <1>2, <1>3, <1>4, <1>5, <1>6, FreshUpdate

LEMMA FreshCancelComp ==
  ASSUME Sound, Fresh, NEW x \in Handlers, NEW s \in Subs, CancelComp(x, s)
  PROVE  Fresh'
<1>1. \A r \in Subs \ {s} : stripe'[r] = stripe[r]
  BY DEF CancelComp, Sound, TypeOK
<1>2. tasks[x] \in Tasks BY Kept
<1>3. /\ tasks'[x].step = "link"
      /\ \A y \in Handlers \ {x} : tasks'[y] = tasks[y]
  <2> DEFINE task == [tasks[x] EXCEPT !.step = "link", !.todo = {s},
                                      !.comps = @ \ {s}]
  <2>1. Becomes(x, task) BY DEF CancelComp
  <2>2. task.step = "link" BY <1>2 DEF Tasks
  <2> HIDE DEF task
  <2> QED BY <2>1, <2>2, OthersKeep
<1>4. /\ UNCHANGED record /\ tasks[x].step = "comps" /\ Active(stripe[s])
      /\ Emit({Event("subscription", s)})
  BY DEF CancelComp, At
<1> QED BY <1>1, <1>3, <1>4, FreshUpdate

\* A new subscription is announced to whoever has the customer, and the
\* checkout to whoever has not.
LEMMA FreshCheckout ==
  ASSUME Sound, Fresh, NEW s \in Subs, NEW t \in Tiers, Checkout(s, t)
  PROVE  Fresh'
<1> DEFINE es == {Event("subscription", s), Event("checkout", s)} \cup
                 (IF t \notin Trials THEN {Event("invoice", s)} ELSE {})
<1>1. /\ \A e \in Events : events[e] > 0 => events'[e] > 0
      /\ events'[Event("subscription", s)] > 0
      /\ events'[Event("checkout", s)] > 0
  <2>1. es \in SUBSET Events BY EventIs DEF Kinds
  <2>2. \A e \in Events : events[e] \in Nat BY DEF Sound, TypeOK
  <2>3. Event("subscription", s) \in es /\ Event("checkout", s) \in es
    OBVIOUS
  <2>4. Emit(es) BY DEF Checkout
  <2> HIDE DEF es
  <2> QED BY <2>1, <2>2, <2>3, <2>4, Emitted, LinkEvents DEF Sound
<1>2. /\ UNCHANGED <<rows, linked, tasks>>
      /\ \A r \in Subs \ {s} : stripe'[r] = stripe[r]
  BY DEF Checkout, record, Sound, TypeOK
<1>3. Pending(s)' /\ \A r \in Subs : SignsUp(r)'
  BY <1>1 DEF Pending, SignsUp, CheckoutComes
<1>4. ASSUME NEW r \in Subs \ {s}, Pending(r) PROVE Pending(r)'
  BY <1>1, <1>2, <1>4, LinkEvents DEF Pending, Carries
<1>5. (Copied(s) \/ Awaited(s))'
  BY <1>2, <1>3 DEF Awaited, Sound, TypeOK
<1>6. ASSUME NEW r \in Subs \ {s} PROVE (Copied(r) \/ Awaited(r))'
  <2>1. Copied(r)' <=> Copied(r) BY <1>2 DEF Copied
  <2> QED BY <1>2, <1>3, <1>4, <2>1 DEF Fresh, Awaited
<1>7. ASSUME NEW y \in Handlers, NEW r \in Subs \ {s}, Behind(y, r)'
      PROVE  Pending(r)'
  <2>1. Behind(y, r) BY <1>2, <1>7 DEF Behind
  <2> QED BY <1>4, <2>1 DEF Fresh
<1> QED BY <1>3, <1>5, <1>6, <1>7 DEF Fresh

LEMMA FreshRenew ==
  ASSUME Sound, Fresh, NEW s \in Subs, Renew(s) PROVE Fresh'
<1>1. \A e \in Events : events[e] > 0 => events'[e] > 0
  <2>1. {Event("invoice", s)} \in SUBSET Events BY EventIs DEF Kinds
  <2>2. \A e \in Events : events[e] \in Nat BY DEF Sound, TypeOK
  <2> QED BY <2>1, <2>2, Emitted DEF Sound, Renew
<1>2. UNCHANGED <<rows, stripe, linked, tasks>> BY DEF Renew, record
<1>3. \A r \in Subs : Pending(r) => Pending(r)'
  BY <1>1, <1>2, LinkEvents DEF Pending, Carries
<1>4. \A r \in Subs : SignsUp(r) => SignsUp(r)'
  BY <1>1, <1>2, LinkEvents DEF SignsUp, Signs, CheckoutComes
<1>5. \A y \in Handlers, r \in Subs : Behind(y, r)' => Behind(y, r)
  BY <1>2 DEF Behind
<1> QED BY <1>2, <1>3, <1>4, <1>5, Steady

LEMMA FreshInvoice ==
  ASSUME Sound, Fresh, NEW s \in Subs, NEW again \in BOOLEAN,
         InvoiceEvent(s, again)
  PROVE  Fresh'
<1>1. UNCHANGED <<rows, stripe, linked, tasks>> BY DEF InvoiceEvent, atStripe
<1>2. \A r \in Subs :
        /\ events'[Event("subscription", r)] = events[Event("subscription", r)]
        /\ events'[Event("checkout", r)] = events[Event("checkout", r)]
  <2> DEFINE e == Event("invoice", s)
  <2>1. \A r \in Subs : Event("subscription", r) # e /\ Event("checkout", r) # e
    BY EventsDiffer DEF Kinds
  <2>2. events' = events \/ events' = [events EXCEPT ![e] = @ - 1]
    BY DEF InvoiceEvent, Delivers
  <2> HIDE DEF e
  <2> QED BY <2>1, <2>2, LinkEvents DEF Sound, TypeOK
<1>3. \A r \in Subs : Pending(r) => Pending(r)'
  BY <1>1, <1>2 DEF Pending, Carries
<1>4. \A r \in Subs : SignsUp(r) => SignsUp(r)'
  BY <1>1, <1>2 DEF SignsUp, Signs, CheckoutComes
<1>5. \A y \in Handlers, r \in Subs : Behind(y, r)' => Behind(y, r)
  BY <1>1 DEF Behind
<1> QED BY <1>1, <1>3, <1>4, <1>5, Steady

\* What an event says of other events.
LEMMA OthersStay ==
  ASSUME Sound, NEW e \in Events, NEW again \in BOOLEAN, Delivers(e, again)
  PROVE  \A f \in Events \ {e} : events'[f] = events[f]
  BY DEF Delivers, Sound, TypeOK

\* The handler of a subscription event carries it, when the customer is known.
LEMMA FreshSubscription ==
  ASSUME Sound, Fresh, NEW x \in Handlers, NEW s \in Subs,
         NEW again \in BOOLEAN, SubscriptionEvent(x, s, again)
  PROVE  Fresh'
<1> DEFINE e == Event("subscription", s)
           task == [NoTask EXCEPT !.step = "link", !.event = e, !.todo = {s}]
<1>1. UNCHANGED <<rows, stripe, linked>> /\ tasks[x].step = "idle"
  BY DEF SubscriptionEvent, record, atStripe, At
<1>2. /\ \A y \in Handlers \ {x} : tasks'[y] = tasks[y]
      /\ linked => tasks'[x] = task
      /\ ~linked => tasks'[x] = tasks[x]
  <2>1. linked => Becomes(x, task) BY DEF SubscriptionEvent
  <2>2. ~linked => tasks' = tasks BY DEF SubscriptionEvent
  <2> HIDE DEF task
  <2> QED BY <2>1, <2>2, OthersKeep
<1>3. task.step = "link" /\ task.event = e /\ s \in task.todo /\ ~task.removing
  BY DEF NoTask
<1> HIDE DEF task
<1>4. \A f \in Events \ {e} : events'[f] = events[f]
  BY OthersStay, LinkEvents DEF SubscriptionEvent
<1>5. \A r \in Subs : /\ r # s => Event("subscription", r) # e
                      /\ Event("checkout", r) # e
  BY EventsDiffer DEF Kinds
<1>6. \A r \in Subs : ~Carries(x, r) /\ ~Signs(x, r)
  BY <1>1 DEF Carries, Signs
<1>7. ASSUME NEW r \in Subs, linked, Pending(r) PROVE Pending(r)'
  <2>1. CASE r = s
    <3>1. Carries(x, s)' BY <1>2, <1>3, <1>7 DEF Carries
    <3> QED BY <2>1, <3>1 DEF Pending
  <2>2. CASE r # s
    <3>1. \A y \in Handlers : Carries(y, r) => Carries(y, r)'
      BY <1>1, <1>2, <1>6 DEF Carries
    <3> QED BY <1>4, <1>5, <1>7, <2>2, <3>1, LinkEvents DEF Pending
  <2> QED BY <2>1, <2>2
<1>8. ASSUME NEW r \in Subs, SignsUp(r) PROVE SignsUp(r)'
  <2>1. CheckoutComes => CheckoutComes'
    BY <1>4, <1>5, LinkEvents DEF CheckoutComes
  <2>2. \A y \in Handlers : Signs(y, r) => Signs(y, r)'
    BY <1>2, <1>6 DEF Signs
  <2> QED BY <1>8, <2>1, <2>2 DEF SignsUp
<1>9. \A y \in Handlers, r \in Subs : Behind(y, r)' => Behind(y, r)
  BY <1>1, <1>2, <1>3 DEF Behind
<1> QED BY <1>1, <1>7, <1>8, <1>9, Steady

\* The handler of a checkout signs up for what is active at Stripe.
LEMMA FreshCheckoutEvent ==
  ASSUME Sound, Fresh, NEW x \in Handlers, NEW s \in Subs,
         NEW again \in BOOLEAN, CheckoutEvent(x, s, again)
  PROVE  Fresh'
<1> DEFINE e == Event("checkout", s)
           task == [NoTask EXCEPT
                      !.step = IF member = None THEN "create" ELSE "upsert",
                      !.event = e, !.created = (member = None),
                      !.todo = Listed]
<1>1. UNCHANGED <<rows, stripe, linked>> /\ tasks[x].step = "idle"
  BY DEF CheckoutEvent, record, atStripe, At
<1>2. tasks'[x] = task /\ \A y \in Handlers \ {x} : tasks'[y] = tasks[y]
  <2>1. Becomes(x, task) BY DEF CheckoutEvent
  <2> HIDE DEF task
  <2> QED BY <2>1, OthersKeep
<1>3. /\ task.step \in {"create", "upsert"} /\ task.event = e
      /\ task.todo = Listed /\ ~task.removing
  BY DEF NoTask
<1> HIDE DEF task
<1>4. \A f \in Events \ {e} : events'[f] = events[f]
  BY OthersStay, LinkEvents DEF CheckoutEvent
<1>5. \A r \in Subs : Event("subscription", r) # e
  BY EventsDiffer DEF Kinds
<1>6. \A r \in Subs : ~Carries(x, r) /\ ~Signs(x, r)
  BY <1>1 DEF Carries, Signs
<1>7. ASSUME NEW r \in Subs, Pending(r) PROVE Pending(r)'
  <2>1. \A y \in Handlers : Carries(y, r) => Carries(y, r)'
    BY <1>1, <1>2, <1>6 DEF Carries
  <2> QED BY <1>4, <1>5, <1>7, <2>1, LinkEvents DEF Pending
<1>8. ASSUME NEW r \in Subs, ~Copied(r), rows[r] = None PROVE SignsUp(r)'
  <2>1. r \in Listed BY <1>8, Kept DEF Copied, Listed, Subscriptions, Statuses
  <2>2. Signs(x, r)' BY <1>2, <1>3, <2>1 DEF Signs
  <2> QED BY <2>2 DEF SignsUp
<1>9. \A y \in Handlers, r \in Subs : Behind(y, r)' => Behind(y, r)
  BY <1>1, <1>2, <1>3 DEF Behind
<1> QED BY <1>1, <1>7, <1>8, <1>9, Steady

LEMMA FreshCreate ==
  ASSUME Sound, Fresh, NEW x \in Handlers, Create(x) PROVE Fresh'
<1> DEFINE task == [tasks[x] EXCEPT !.step = "upsert"]
<1>1. /\ task.step = "upsert" /\ task.event = tasks[x].event
      /\ task.todo = tasks[x].todo /\ task.removing = tasks[x].removing
  BY Kept DEF Tasks
<1>2. UNCHANGED <<rows, stripe, linked, events>> /\ tasks[x].step = "create"
  BY DEF Create, quiet, atStripe, At
<1>3. Becomes(x, task) BY DEF Create
<1> HIDE DEF task
<1>4. tasks'[x] = task /\ \A y \in Handlers \ {x} : tasks'[y] = tasks[y]
  BY <1>3, OthersKeep
<1>5. \A r \in Subs : /\ ~Carries(x, r)
                      /\ Signs(x, r) => Signs(x, r)'
                      /\ ~Behind(x, r)'
  BY <1>1, <1>2, <1>4 DEF Carries, Signs, Behind
<1>6. \A r \in Subs : Signs(x, r) => SignsUp(r)' BY <1>5 DEF SignsUp
<1> QED BY <1>2, <1>4, <1>5, <1>6, HandsOn

LEMMA FreshUpsert ==
  ASSUME Sound, Fresh, NEW x \in Handlers, UpsertCustomer(x) PROVE Fresh'
<1> DEFINE link == [tasks[x] EXCEPT !.step = "link"]
           task == IF tasks[x].todo = {} THEN Linked(tasks[x]) ELSE link
<1>1. /\ link.step = "link" /\ link.event = tasks[x].event
      /\ link.todo = tasks[x].todo /\ link.removing = tasks[x].removing
  BY Kept DEF Tasks
<1>2. /\ UNCHANGED <<rows, stripe, events>> /\ tasks[x].step = "upsert"
      /\ linked' = TRUE
  BY DEF UpsertCustomer, quiet, atStripe, At
<1>3. Becomes(x, task) BY DEF UpsertCustomer
<1>4. task.step # "commit" /\ (tasks[x].todo # {} => task = link)
  BY <1>1, Kept, LinkedIs
<1> HIDE DEF task, link
<1>5. tasks'[x] = task /\ \A y \in Handlers \ {x} : tasks'[y] = tasks[y]
  BY <1>3, OthersKeep
<1>6. \A r \in Subs : /\ ~Carries(x, r)
                      /\ Signs(x, r) => Signs(x, r)'
                      /\ ~Behind(x, r)'
  BY <1>1, <1>2, <1>4, <1>5 DEF Carries, Signs, Behind
<1>7. \A r \in Subs : Signs(x, r) => SignsUp(r)' BY <1>6 DEF SignsUp
<1> QED BY <1>2, <1>5, <1>6, <1>7, HandsOn

LEMMA FreshBeginLink ==
  ASSUME Sound, Fresh, NEW x \in Handlers, NEW s \in Subs, BeginLink(x, s)
  PROVE  Fresh'
<1> DEFINE task == [tasks[x] EXCEPT !.step = "commit", !.sub = s,
                                    !.seen = stripe[s]]
<1>1. /\ task.step = "commit" /\ task.event = tasks[x].event
      /\ task.todo = tasks[x].todo /\ task.removing = tasks[x].removing
      /\ task.sub = s /\ task.seen = stripe[s]
  BY Kept DEF Tasks
<1>2. UNCHANGED <<rows, stripe, linked, events>> /\ tasks[x].step = "link"
  BY DEF BeginLink, record, atStripe, At
<1>3. Becomes(x, task) BY DEF BeginLink
<1> HIDE DEF task
<1>4. tasks'[x] = task /\ \A y \in Handlers \ {x} : tasks'[y] = tasks[y]
  BY <1>3, OthersKeep
<1>5. \A r \in Subs : /\ Carries(x, r) => Carries(x, r)'
                      /\ Signs(x, r) => Signs(x, r)'
                      /\ ~Behind(x, r)'
  BY <1>1, <1>2, <1>4 DEF Carries, Signs, Behind
<1>6. \A r \in Subs : /\ Carries(x, r) => Pending(r)'
                      /\ Signs(x, r) => SignsUp(r)'
  BY <1>5 DEF Pending, SignsUp
<1> QED BY <1>2, <1>4, <1>5, <1>6, HandsOn

\* The row becomes what Stripe answered.  If that is what Stripe has, it is
\* copied; if not, the newer state is awaited.  The row of the member was held:
\* no other handler is about to write.
LEMMA FreshCommit ==
  ASSUME Sound, Fresh, NEW x \in Handlers, CommitLink(x) PROVE Fresh'
<1>0. tasks[x].sub \in Subs /\ tasks[x].seen \in Subscriptions /\ linked
  BY Kept DEF CommitLink, At, Fits
<1>1. PICK s \in Subs, seen \in Subscriptions :
        s = tasks[x].sub /\ seen = tasks[x].seen
  BY <1>0
<1> DEFINE left == [tasks[x] EXCEPT !.todo = @ \ {s}, !.sub = None,
                                    !.seen = None]
           link == [left EXCEPT !.step = "link"]
           task == IF left.todo = {} THEN Linked(left) ELSE link
<1>2. /\ UNCHANGED <<stripe, events, linked>> /\ tasks[x].step = "commit"
      /\ Becomes(x, task)
      /\ rows' = [rows EXCEPT ![s] = IF seen.status = "migrated" THEN None
                                     ELSE Row(seen)]
  BY <1>1 DEF CommitLink, atStripe, At
<1>3. /\ left \in Tasks /\ left.todo = tasks[x].todo \ {s}
      /\ link.step = "link" /\ link.event = tasks[x].event
      /\ link.todo = tasks[x].todo \ {s}
      /\ link.removing = tasks[x].removing
  BY Kept DEF Tasks
<1>4. task.step # "commit" /\ (tasks[x].todo \ {s} # {} => task = link)
  BY <1>3, LinkedIs
<1> HIDE DEF task, link, left
<1>5. tasks'[x] = task /\ \A y \in Handlers \ {x} : tasks'[y] = tasks[y]
  BY <1>2, OthersKeep
<1>6. \A y \in Handlers \ {x} : tasks[y].step # "commit"
  BY <1>2, NoneIsNone DEF Sound, TypeOK
<1>7. \A r \in Subs \ {s} : rows'[r] = rows[r] BY <1>2 DEF Sound, TypeOK
<1>8. ASSUME NEW r \in Subs \ {s}, Pending(r) PROVE Pending(r)'
  <2>1. \A y \in Handlers : Carries(y, r) => Carries(y, r)'
    BY <1>1, <1>2, <1>3, <1>4, <1>5 DEF Carries
  <2> QED BY <1>2, <1>8, <2>1 DEF Pending
<1>9. ASSUME NEW r \in Subs \ {s}, SignsUp(r) PROVE SignsUp(r)'
  <2>1. \A y \in Handlers : Signs(y, r) => Signs(y, r)'
    BY <1>2, <1>3, <1>4, <1>5 DEF Signs
  <2> QED BY <1>2, <1>9, <2>1 DEF SignsUp, CheckoutComes
<1>10. ASSUME NEW r \in Subs \ {s} PROVE (Copied(r) \/ Awaited(r))'
  <2>1. Copied(r)' <=> Copied(r) BY <1>2, <1>7 DEF Copied
  <2> QED BY <1>2, <1>7, <1>8, <1>9, <2>1 DEF Fresh, Awaited
<1>11. (Copied(s) \/ Awaited(s))'
  <2>1. CASE seen = stripe[s]
    <3>1. rows'[s] = IF seen.status = "migrated" THEN None ELSE Row(seen)
      BY <1>1, <1>2 DEF Sound, TypeOK
    <3>2. Row(seen) # None /\ Row(seen).is = seen BY <1>1, RowIs, NoneIsNone
    <3> QED BY <1>2, <2>1, <3>1, <3>2 DEF Copied
  <2>2. CASE seen # stripe[s]
    <3>1. Behind(x, s) BY <1>1, <1>2, <2>2 DEF Behind
    <3>2. Pending(s) BY <3>1 DEF Fresh
    <3>3. ~Carries(x, s) BY <1>1, <1>2, <2>2 DEF Carries
    <3>4. \A y \in Handlers : Carries(y, s) => Carries(y, s)'
      BY <1>2, <1>5, <3>3 DEF Carries
    <3>5. Pending(s)' BY <1>2, <3>2, <3>4 DEF Pending
    <3> QED BY <1>0, <1>2, <3>5 DEF Awaited
  <2> QED BY <2>1, <2>2
<1>12. \A y \in Handlers, r \in Subs : ~Behind(y, r)'
  BY <1>4, <1>5, <1>6 DEF Behind
<1> QED BY <1>10, <1>11, <1>12 DEF Fresh

\* What a handler does besides linking.
LEMMA FreshRest ==
  ASSUME Sound, Fresh, NEW x \in Handlers,
         \/ IsPaid(x) \/ \E s \in Subs : CompStays(x, s)
         \/ CompIsNotLinked(x) \/ LoadProducts(x) \/ LoadRows(x)
         \/ WriteProducts(x) \/ WriteGrant(x)
         \/ \E want \in SUBSET Tiers : Grant(x, want)
  PROVE  Fresh'
<1>1. UNCHANGED <<rows, stripe, events, linked>>
  BY DEF IsPaid, CompStays, CompIsNotLinked, LoadProducts, LoadRows,
         WriteProducts, WriteGrant, Grant, quiet, record, atStripe
<1>2. \/ tasks[x].step \notin {"create", "upsert", "link", "commit"}
      \/ tasks[x].removing
  BY DEF IsPaid, CompStays, CompIsNotLinked, LoadProducts, LoadRows,
         WriteProducts, WriteGrant, Grant, At
<1>3. \E task : Becomes(x, task) /\ task.step # "commit"
  <2>1. CASE \E s \in Subs : CompStays(x, s)
    <3>1. PICK s \in Subs : CompStays(x, s) BY <2>1
    <3> DEFINE task == [tasks[x] EXCEPT !.comps = @ \ {s}]
    <3>2. Becomes(x, task) BY <3>1 DEF CompStays
    <3>3. task.step = "comps" BY <3>1, Kept DEF CompStays, At, Tasks
    <3> QED BY <3>2, <3>3
  <2>2. CASE CompIsNotLinked(x)
    <3> DEFINE task == [tasks[x] EXCEPT !.step = "comps", !.todo = {},
                                        !.sub = None, !.seen = None]
    <3>1. Becomes(x, task) BY <2>2 DEF CompIsNotLinked
    <3>2. task.step = "comps" BY Kept DEF Tasks
    <3> QED BY <3>1, <3>2
  <2>3. CASE IsPaid(x)
    <3> DEFINE task == [tasks[x] EXCEPT !.step = "comps", !.removing = TRUE,
                                        !.comps = Comps]
    <3>1. Becomes(x, task) \/ Becomes(x, NoTask) BY <2>3 DEF IsPaid, Quit
    <3>2. task.step = "comps" BY Kept DEF Tasks
    <3> QED BY <3>1, <3>2, NoTaskIs
  <2>4. CASE LoadProducts(x)
    <3> DEFINE task == [tasks[x] EXCEPT !.step = "rows", !.keep = products]
    <3>1. Becomes(x, task) BY <2>4 DEF LoadProducts
    <3>2. task.step = "rows" BY Kept DEF Tasks
    <3> QED BY <3>1, <3>2
  <2>5. CASE LoadRows(x)
    <3> DEFINE keep == tasks[x].keep \cap TiersOf(Live)
               task == [tasks[x] EXCEPT !.step = "write", !.keep = keep]
    <3>1. Becomes(x, task) \/ Becomes(x, NoTask) BY <2>5 DEF LoadRows, Quit
    <3>2. task.step = "write" BY Kept DEF Tasks
    <3> QED BY <3>1, <3>2, NoTaskIs
  <2>6. CASE WriteProducts(x) \/ WriteGrant(x)
    BY <2>6, NoTaskIs DEF WriteProducts, WriteGrant, Quit
  <2>7. CASE \E want \in SUBSET Tiers : Grant(x, want)
    <3>1. PICK want \in SUBSET Tiers : Grant(x, want) BY <2>7
    <3> DEFINE task == [NoTask EXCEPT !.step = "grant", !.keep = want,
                                      !.status = GrantedStatus(want)]
    <3>2. Becomes(x, task) BY <3>1 DEF Grant
    <3>3. task.step = "grant" BY DEF NoTask
    <3> QED BY <3>2, <3>3
  <2> QED BY <2>1, <2>2, <2>3, <2>4, <2>5, <2>6, <2>7
<1>4. /\ tasks'[x].step # "commit"
      /\ \A y \in Handlers \ {x} : tasks'[y] = tasks[y]
  BY <1>3, OthersKeep
<1> QED BY <1>1, <1>2, <1>4, FreshIdle

LEMMA FreshNext == Sound /\ Fresh /\ [Next]_vars => Fresh'
<1> SUFFICES ASSUME Sound, Fresh, [Next]_vars PROVE Fresh' OBVIOUS
<1>1. CASE \E s \in Subs : \E t \in Tiers : Checkout(s, t)
  BY <1>1, FreshCheckout
<1>2. CASE \E s \in Subs : Renew(s) \/ Change(s)
  BY <1>2, FreshRenew, FreshChange
<1>3. CASE \E s \in Subs, x \in Handlers : RequestChange(x, s)
  BY <1>3, FreshRequest
<1>4. CASE \E s \in Subs, again \in BOOLEAN : Handle(s, again)
  BY <1>4, FreshInvoice, FreshSubscription, FreshCheckoutEvent DEF Handle
<1>5. ASSUME NEW x \in Handlers, Work(x) PROVE Fresh'
  <2>1. CASE CreateTwice(x) BY <2>1, FreshThrow DEF CreateTwice
  <2> QED BY <1>5, <2>1, FreshCreate, FreshUpsert, FreshCommit,
             FreshBeginLink, FreshCancelComp, FreshRest DEF Work
<1>6. CASE \E x \in Handlers : Fail(x) BY <1>6, FreshThrow DEF Fail
<1>7. CASE \E x \in Handlers : \E want \in SUBSET Tiers : Grant(x, want)
  BY <1>7, FreshRest
<1>8. CASE UNCHANGED vars
  <2>1. UNCHANGED <<rows, stripe, linked, events, tasks>>
    BY <1>8 DEF vars, record, atStripe
  <2> QED BY <2>1, Steady
          DEF Pending, Carries, SignsUp, Signs, CheckoutComes, Behind
<1> QED BY <1>1, <1>2, <1>3, <1>4, <1>5, <1>6, <1>7, <1>8 DEF Next

\* Whatever the order, the number and the failures of the webhooks, the rows
\* are what Stripe has once all is answered (linkSubscription, handle).
THEOREM SettledRowsMatch_holds == Spec => []SettledRowsMatch
<1>1. Init => Sound /\ Fresh
  <2> SUFFICES ASSUME Init PROVE Fresh BY SoundInit
  <2>1. \A s \in Subs : Copied(s)
    <3>1. PICK C \in {{}} \cup {{s} : s \in Subs} :
            /\ stripe = [s \in Subs |->
                   [status |-> IF s \in C THEN "active" ELSE "none",
                    tier |-> DefaultTier, comp |-> s \in C,
                    ending |-> FALSE]]
            /\ rows = [s \in Subs |-> IF s \in C THEN Row(stripe[s])
                                      ELSE None]
      BY DEF Init
    <3>2. \A s \in Subs : /\ rows[s] = IF s \in C THEN Row(stripe[s])
                                       ELSE None
                          /\ Row(stripe[s]).is = stripe[s]
                          /\ Row(stripe[s]) # None
      BY <3>1, SoundInit, RowIs, NoneIsNone DEF Sound, TypeOK
    <3>3. \A s \in Subs : stripe[s].status = IF s \in C THEN "active"
                                             ELSE "none"
      BY <3>1
    <3> QED BY <3>2, <3>3 DEF Copied
  <2>2. \A x \in Handlers, s \in Subs : ~Behind(x, s)
    BY NoTaskIs DEF Init, Behind
  <2> QED BY <2>1, <2>2 DEF Fresh
<1>2. Sound /\ Fresh /\ [Next]_vars => (Sound /\ Fresh)'
  BY SoundNext, FreshNext
<1>3. Sound /\ Fresh => SettledRowsMatch
  <2> SUFFICES ASSUME Sound, Fresh, Quiet, NEW s \in Subs PROVE Copied(s)
    BY DEF SettledRowsMatch
  <2>1. ~Pending(s) BY LinkEvents DEF Quiet, Pending, Carries, At
  <2>2. ~SignsUp(s)
    BY LinkEvents DEF Quiet, SignsUp, CheckoutComes, Signs, At
  <2> QED BY <2>1, <2>2 DEF Fresh, Awaited
<1> QED BY <1>1, <1>2, <1>3, PTL DEF Spec
=============================================================================
