--------------------------- MODULE DocumensoProvider ---------------------------
(***************************************************************************)
(* The Documenso service as app/providers/documenso.py uses it, the signer *)
(* who acts on it, and the webhooks it emits. The service itself is not    *)
(* part of the repository; its documents move only forward.                *)
(***************************************************************************)
EXTENDS Identifiers

VARIABLES
  docs,   \* the state of the document of each POST call
  hooks   \* webhook bodies emitted so far: delivered late, twice or never

providerVars == <<docs, hooks>>

\* "none" is a document that was never created. A signed document stays
\* PENDING to the API until it is sealed; here that stage is SIGNED.
DocStates == {"none", "DRAFT", "PENDING", "SIGNED", "COMPLETED", "REJECTED",
              "CANCELLED"}
EventTypes == {"DOCUMENT_SENT", "DOCUMENT_OPENED", "DOCUMENT_SIGNED",
               "DOCUMENT_COMPLETED", "DOCUMENT_REJECTED", "DOCUMENT_CANCELLED"}
Hooks == [doc : Calls, event : EventTypes]

ProviderTypeOK ==
  /\ docs \in [Calls -> DocStates]
  /\ hooks \subseteq Hooks

ProviderInit ==
  /\ docs = [c \in Calls |-> "none"]
  /\ hooks = {}

(***************************************************************************)
(* get_status: the API's status field, normalised. Anything the map does   *)
(* not know is "sent".                                                     *)
(***************************************************************************)

\* Mutant: every final API status is taken for a completion.
FINAL_IS_COMPLETED ==
  [DRAFT |-> "sent", PENDING |-> "sent", COMPLETED |-> "completed",
   REJECTED |-> "declined", CANCELLED |-> "completed"]

STATUS_MAP ==
  [DRAFT |-> "sent", PENDING |-> "sent", COMPLETED |-> "completed",
   REJECTED |-> "declined", CANCELLED |-> "declined"]

ApiStatus(d) == IF docs[d] = "SIGNED" THEN "PENDING" ELSE docs[d]

\* Mutant: the API's status is not normalised.
get_raw_status(d) == ApiStatus(d)

get_status(d) ==
  IF ApiStatus(d) \in DOMAIN STATUS_MAP THEN STATUS_MAP[ApiStatus(d)] ELSE "sent"

(***************************************************************************)
(* What moves a document: the adapter's calls, the signer, the account     *)
(* owner. Every move past the draft emits a webhook.                       *)
(***************************************************************************)
Emit(d, event) == hooks' = hooks \cup {[doc |-> d, event |-> event]}

Move(d, from, to, event) ==
  /\ docs[d] = from
  /\ docs' = [docs EXCEPT ![d] = to]
  /\ Emit(d, event)

Draft(d) ==
  /\ docs[d] = "none"
  /\ docs' = [docs EXCEPT ![d] = "DRAFT"]
  /\ UNCHANGED hooks

Dispatch(d) == Move(d, "DRAFT", "PENDING", "DOCUMENT_SENT")

Open(d) ==
  /\ docs[d] = "PENDING"
  /\ Emit(d, "DOCUMENT_OPENED")
  /\ UNCHANGED docs

Sign(d) == Move(d, "PENDING", "SIGNED", "DOCUMENT_SIGNED")
Seal(d) == Move(d, "SIGNED", "COMPLETED", "DOCUMENT_COMPLETED")
Reject(d) == Move(d, "PENDING", "REJECTED", "DOCUMENT_REJECTED")
Cancel(d) == Move(d, "PENDING", "CANCELLED", "DOCUMENT_CANCELLED")

Signing(d) == Open(d) \/ Sign(d) \/ Seal(d) \/ Reject(d) \/ Cancel(d)

================================================================================
