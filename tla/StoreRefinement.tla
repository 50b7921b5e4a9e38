---------------------------- MODULE StoreRefinement ----------------------------
(***************************************************************************)
(* SignatureService implements IdempotentStore: the call takes effect when *)
(* its record is committed, when the stored one is found, or when it fails.*)
(***************************************************************************)
EXTENDS SignatureService

\* The key's record: KeyUnique makes it the only one.
StoreOf ==
  [k \in {requests[r].key : r \in DOMAIN requests} |->
     CHOOSE r \in DOMAIN requests : requests[r].key = k]

AskedOf == [c \in Calls |-> [key |-> calls[c].key, payload |-> calls[c].payload]]

\* A call holds its resource from the commit on; one that is over without any
\* was refused.
ReplyOf(c) ==
  [state |-> IF calls[c].row # NoCall THEN "given"
             ELSE IF calls[c].pc = "done" THEN "refused" ELSE "pending",
   resource |-> calls[c].row]

RepliesOf == [c \in Calls |-> ReplyOf(c)]

Store == INSTANCE IdempotentStore
           WITH store <- StoreOf, asked <- AskedOf, replies <- RepliesOf

\* Overlapping calls, lost replies, crashes and purges all look like calls made
\* one at a time on a store with one resource per key.
ImplementsStore == Store!Spec

================================================================================
