------------------------------ MODULE MCGifts ------------------------------
(* Small instances of Gifts for TLC.                                      *)
EXTENDS Gifts, TLC

CONSTANTS g1, g2, m1, m2, w1, j1, j2, nobody

OneGift    == {g1}
TwoGifts   == {g1, g2}
TwoMembers == {m1, m2}
OneWebhook == {w1}
NoWebhook  == {}
OneJob     == {j1}
TwoJobs    == {j1, j2}
NoJob      == {}
OneMember  == {m1}

\* Sound: gifts, members and jobs are only compared for equality.
Symmetry == Permutations(TwoGifts) \cup Permutations(TwoMembers) \cup Permutations(TwoJobs)
=============================================================================
