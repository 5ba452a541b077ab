-------------------------- MODULE MCEmailAnalytics --------------------------
(* The small instance of EmailAnalytics for TLC: three events of two       *)
(* emails, one requested window, and the two configurations that matter.  *)
EXTENDS EmailAnalytics, TLC

CONSTANTS e1, e2, e3

ThreeEvents == {e1, e2, e3}
TwoTimes == e1 :> 1 @@ e2 :> 2 @@ e3 :> 2
BothKinds == e1 :> "opened" @@ e2 :> "delivered" @@ e3 :> "opened"
TwoEmails == e1 :> "first" @@ e2 :> "first" @@ e3 :> "second"
OneWindow == {[begin |-> 1, end |-> 3]}
TwoConfigs == {[batched |-> TRUE, fallback |-> FALSE],
               [batched |-> FALSE, fallback |-> TRUE]}
=============================================================================
