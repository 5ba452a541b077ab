---------------------------- MODULE BatchDelivery ---------------------------
(***************************************************************************)
(* What sending in batches promises, whatever jobs, retries and failures   *)
(* there are: a batch is claimed by one sender at a time, its delivery is  *)
(* confirmed at most once, a batch is released only if it was not          *)
(* confirmed, and a settled batch never moves again.                       *)
(***************************************************************************)
EXTENDS Naturals

CONSTANT Batches

VARIABLES
    phase,    \* "absent", "open", "claimed" or "settled"
    confirmed \* how often the sender of a batch knows it was delivered

Init ==
    /\ phase = [b \in Batches |-> "absent"]
    /\ confirmed = [b \in Batches |-> 0]

Moves(b, from, to) ==
    /\ phase[b] = from
    /\ phase' = [phase EXCEPT ![b] = to]

Create(b) == Moves(b, "absent", "open") /\ UNCHANGED confirmed

Claim(b) == Moves(b, "open", "claimed") /\ UNCHANGED confirmed

Confirm(b) ==
    /\ phase[b] = "claimed" /\ confirmed[b] = 0
    /\ confirmed' = [confirmed EXCEPT ![b] = 1]
    /\ UNCHANGED phase

Release(b) ==
    /\ confirmed[b] = 0
    /\ Moves(b, "claimed", "open")
    /\ UNCHANGED confirmed

Settle(b) ==
    /\ confirmed[b] = 1
    /\ Moves(b, "claimed", "settled")
    /\ UNCHANGED confirmed

Next == \E b \in Batches :
    Create(b) \/ Claim(b) \/ Confirm(b) \/ Release(b) \/ Settle(b)

Spec == Init /\ [][Next]_<<phase, confirmed>>
=============================================================================
