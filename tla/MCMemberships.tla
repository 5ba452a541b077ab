--------------------------- MODULE MCMemberships ---------------------------
(* The small instance of Memberships for TLC: two subscriptions, one of     *)
(* which may be a complimentary one, and two tiers with their prices.       *)
EXTENDS Memberships, TLC

CONSTANTS t1, t2, s1, s2, h1, h2

TwoTiers == {t1, t2}
TwoSubs == {s1, s2}
TwoHandlers == {h1, h2}
Interchangeable ==
    Permutations(TwoSubs) \cup Permutations(TwoHandlers)
Prices == t1 :> 5 @@ t2 :> 8
=============================================================================
