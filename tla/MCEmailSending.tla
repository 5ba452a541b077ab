--------------------------- MODULE MCEmailSending ---------------------------
(* Small instances of EmailSending for TLC: how many faults of each kind.  *)
EXTENDS EmailSending, TLC

Faults(error, reply, provider, crash) ==
    [error |-> error, reply |-> reply, provider |-> provider, crash |-> crash]

OneError       == Faults(1, 0, 0, 0)
EveryFault     == Faults(1, 0, 2, 1)
LostReply      == Faults(0, 1, 2, 0)

JobSymmetry == Permutations(Jobs)
Symmetry    == Permutations(Jobs) \cup Permutations(Requests)
=============================================================================
