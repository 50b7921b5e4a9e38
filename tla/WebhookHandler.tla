---------------------------- MODULE WebhookHandler -----------------------------
(***************************************************************************)
(* POST /webhooks/documenso: documenso_webhook of app/main.py. It reads    *)
(* its body first and then runs without an await.                          *)
(***************************************************************************)
EXTENDS SignatureDb, DocumensoProvider

WEBHOOK_STATUS_MAP ==
  [DOCUMENT_OPENED |-> "viewed", DOCUMENT_VIEWED |-> "viewed",
   DOCUMENT_SIGNED |-> "completed", DOCUMENT_COMPLETED |-> "completed",
   DOCUMENT_REJECTED |-> "declined", DOCUMENT_CANCELLED |-> "declined"]

IsDuplicate(h) == \E e \in events : e.payload = h

\* Mutant: the lookup forgets its filter and takes the first row.
FirstRow(h) ==
  IF DOMAIN requests = {} THEN NoCall ELSE CHOOSE r \in DOMAIN requests : TRUE

\* The row whose provider_request_id the body names, if it is there yet.
Owner(h) == IF h.doc \in DOMAIN requests THEN h.doc ELSE NoCall

\* Do not turn a terminal status back.
Admits(row, status) == ~IsTerminal(row) \/ status = "completed"

\* Mutant: the last event that arrives decides.
NotifiedAlways(row, status) ==
  [row EXCEPT !.status = status, !.stamped = @ \/ status = "completed"]

\* Mutant: completed_at is left to the next poll.
NotifiedUnstamped(row, status) ==
  IF Admits(row, status) THEN [row EXCEPT !.status = status] ELSE row

Notified(row, status) ==
  IF Admits(row, status)
  THEN [row EXCEPT !.status = status, !.stamped = @ \/ status = "completed"]
  ELSE row

\* An event type the map does not know is recorded and changes no row.
documenso_webhook(h) ==
  /\ ~IsDuplicate(h)
  /\ events' = events \cup {[payload |-> h, request |-> Owner(h)]}
  /\ IF Owner(h) # NoCall /\ h.event \in DOMAIN WEBHOOK_STATUS_MAP
     THEN requests' = [requests EXCEPT ![Owner(h)] =
                         Notified(@, WEBHOOK_STATUS_MAP[h.event])]
     ELSE UNCHANGED requests
  /\ UNCHANGED <<today, providerVars>>

================================================================================
