-------------------------- MODULE MCAutomationSteps -------------------------
(* The small instance of AutomationSteps for TLC: one member and a few     *)
(* faults, or one edit, or two members, more than a batch holds.           *)
EXTENDS AutomationSteps, TLC

CONSTANTS email, wait

EmailThenWait == <<email, wait>>

UpTo(signups, few) ==
    [k \in Kinds |-> IF k = "signup" THEN signups
                     ELSE IF k \in few THEN 1 ELSE 0]

FewOfEach == {UpTo(1, {"reply", "crash", "expiry"}),
              UpTo(1, {"error", "crash", "expiry"}),
              UpTo(1, {"ping", "crash", "expiry"}),
              UpTo(1, {"edit"}), UpTo(1, {"member"}), UpTo(2, {})}
=============================================================================
