--------------------------- MODULE MCSignatureService --------------------------
(***************************************************************************)
(* Small instances of SignatureService for TLC.                            *)
(***************************************************************************)
EXTENDS StoreRefinement, TLC

CONSTANTS c1, c2, c3, k1, k2, p1, p2, a1, a2

\* Every payload asks for the same number of days.
ExpiresInOneDay == [p \in Payloads |-> 1]
ExpiresInTwoDays == [p \in Payloads |-> 2]

\* The days separate p1 from p2.
ExpiryByPayload == [p \in Payloads |-> IF p = p1 THEN 1 ELSE 2]

\* The part of Next that creation depends on: signers do nothing, clients do
\* not poll. Records end by expiring.
CreateNext ==
  \/ \E c \in Calls : CallArrives(c) \/ CallContinues(c)
  \/ PurgerWakes
  \/ DayPasses
  \/ Restart
  \/ Rest

CreateSpec == Init /\ [][CreateNext]_vars

\* A bound on what is explored: this many webhook bodies are emitted.
FewHooks == Cardinality(hooks) <= 4

Symmetry ==
  Permutations(Calls) \cup Permutations(Keys) \cup Permutations(Pollers)

================================================================================
