---------------------------- MODULE IdempotentStore ----------------------------
(***************************************************************************)
(* What POST /v1/signature-requests promises its callers: a store of at    *)
(* most one resource per Idempotency-Key, on which every call takes effect *)
(* at one moment. The call then either makes the resource, or is given the *)
(* one that is stored for the same key and payload, or is refused; the     *)
(* reply never changes, and retention may forget keys.                     *)
(***************************************************************************)
EXTENDS Identifiers

CONSTANTS Keys, Payloads

VARIABLES
  store,    \* the resource of each key in use; a resource is named after its call
  asked,    \* the key and payload each call carries
  replies   \* what each call has been given

vars == <<store, asked, replies>>

Pending == [state |-> "pending", resource |-> NoCall]
Refused == [state |-> "refused", resource |-> NoCall]
Given(r) == [state |-> "given", resource |-> r]

Init ==
  /\ store = [k \in {} |-> NoCall]
  /\ asked \in [Calls -> [key : Keys, payload : Payloads]]
  /\ replies = [c \in Calls |-> Pending]

Create(c) ==
  /\ replies[c] = Pending
  /\ asked[c].key \notin DOMAIN store
  /\ store' = [k \in DOMAIN store \cup {asked[c].key} |->
                 IF k = asked[c].key THEN c ELSE store[k]]
  /\ replies' = [replies EXCEPT ![c] = Given(c)]
  /\ UNCHANGED asked

Replay(c) ==
  /\ replies[c] = Pending
  /\ asked[c].key \in DOMAIN store
  /\ asked[store[asked[c].key]].payload = asked[c].payload
  /\ replies' = [replies EXCEPT ![c] = Given(store[asked[c].key])]
  /\ UNCHANGED <<store, asked>>

\* Errors, and what a crash ends.
Refuse(some) ==
  /\ \A c \in some : replies[c] = Pending
  /\ replies' = [c \in Calls |-> IF c \in some THEN Refused ELSE replies[c]]
  /\ UNCHANGED <<store, asked>>

Forget(some) ==
  /\ store' = [k \in DOMAIN store \ some |-> store[k]]
  /\ UNCHANGED <<asked, replies>>

Next ==
  \/ \E c \in Calls : Create(c) \/ Replay(c)
  \/ \E some \in SUBSET Calls : Refuse(some)
  \/ \E some \in SUBSET Keys : Forget(some)

Spec == Init /\ [][Next]_vars

================================================================================
