----------------------------- MODULE MCPaymentGate -----------------------------
(***************************************************************************)
(* A small instance of PaymentGate.                                        *)
(***************************************************************************)
EXTENDS PaymentGate, TLC

CONSTANTS c1, c2, k1, p1, p2, m1, m2

ExpiresInOneDay == [p \in Payloads |-> 1]

\* Calls, the gate, time and purging; what happens to a record between its
\* creation and its expiry changes no call.
PaidCreateNext ==
  \/ GateNext
  \/ (PurgerWakes \/ DayPasses) /\ UNCHANGED gateVars

PaidCreateSpec == PaidInit /\ [][PaidCreateNext]_<<vars, gateVars>>

Symmetry == Permutations(Calls) \cup Permutations(Payments)

================================================================================
