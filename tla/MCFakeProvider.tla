----------------------------- MODULE MCFakeProvider ----------------------------
(***************************************************************************)
(* A small instance of FakeProvider.                                       *)
(***************************************************************************)
EXTENDS FakeProvider

CONSTANTS c1, c2, k1, k2, p1

ExpiresInOneDay == [p \in Payloads |-> 1]

================================================================================
