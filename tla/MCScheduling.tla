---------------------------- MODULE MCScheduling ----------------------------
(* The small instance of Scheduling for TLC: one post, whose jobs have no   *)
(* state in common with those of another.                                  *)
EXTENDS Scheduling

CONSTANT p1

OnePost == {p1}
=============================================================================
