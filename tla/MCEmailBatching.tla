--------------------------- MODULE MCEmailBatching --------------------------
(* EmailBatching with four members, the last one newer than the email.     *)
EXTENDS EmailBatching

WarmupLimits == {0, 1, 3, MaxId + 1}
=============================================================================
