-------------------------- MODULE MCCommandReceipts --------------------------
(* Small instances of CommandReceipts for TLC. *)
EXTENDS CommandReceipts

CONSTANTS k1, k2, pay1, pay2, r1, r2, c1

TwoKeys == {k1, k2}
OnePayload == {pay1}
TwoPayloads == {pay1, pay2}
TwoRequests == {r1, r2}
OneReconciler == {c1}
=============================================================================
