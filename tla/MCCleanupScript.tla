---------------------------- MODULE MCCleanupScript ----------------------------
(***************************************************************************)
(* A small instance of CleanupScript.                                      *)
(***************************************************************************)
EXTENDS CleanupScript, TLC

CONSTANTS c1, k1, p1, a1

ExpiresInTwoDays == [p \in Payloads |-> 2]

================================================================================
