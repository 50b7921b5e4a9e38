----------------------------- MODULE CreateHandler -----------------------------
(***************************************************************************)
(* POST /v1/signature-requests: create_signature_request of app/main.py    *)
(* and the adapter's create_and_send. One process, one event loop: other   *)
(* handlers run only where this one awaits, so a step below is the code    *)
(* between two awaits.                                                     *)
(***************************************************************************)
EXTENDS SignatureDb, DocumensoProvider

VARIABLE calls  \* the local state of each POST call, and what it was answered

(***************************************************************************)
(* Where a call waits:                                                     *)
(*   idle       not made yet                                               *)
(*   fetching   fetch_document_safely                                      *)
(*   creating   POST /documents not yet processed by the provider          *)
(*   drafted    upload and field placement                                 *)
(*   prepared   POST /documents/{id}/send not yet processed                *)
(*   accepted   processed, its reply is on the way                         *)
(*   answering  record committed, the 201 is on the way                    *)
(*   done       answered, or lost with the process                         *)
(***************************************************************************)
AtProvider == {"creating", "drafted", "prepared", "accepted"}
CallPcs == {"idle", "fetching", "answering", "done"} \cup AtProvider

Answers ==
  {"none", "BadRequest",   \* 400 and 422
   "Stored",               \* 200, the stored resource without its token
   "KeyReused",            \* 409
   "Unavailable",          \* 502, a ProviderError
   "ServerError",          \* 500, any other exception of fetch or provider flow
   "IntegrityError",       \* 500, the UNIQUE constraint on idempotency_key
   "Created",              \* 201, with the token
   "Lost"}                 \* the process died first

\* `row` and `createdAt` are the resource the handler answers with.
Call ==
  [pc : CallPcs, key : Keys, payload : Payloads, answer : Answers,
   row : Calls \cup {NoCall}, createdAt : Nat]

CallsTypeOK == calls \in [Calls -> Call]

CallsInit ==
  calls \in [Calls -> [pc : {"idle"}, key : Keys, payload : Payloads,
                       answer : {"none"}, row : {NoCall}, createdAt : {0}]]

Goto(c, from, to) ==
  /\ calls[c].pc = from
  /\ calls' = [calls EXCEPT ![c].pc = to]

Answer(c, answer, row, createdAt) ==
  calls' = [calls EXCEPT ![c].pc = "done", ![c].answer = answer, ![c].row = row,
                         ![c].createdAt = createdAt]

Refuse(c, answer) == Answer(c, answer, NoCall, 0)

(***************************************************************************)
(* From the request's arrival to the first await. The lookup by key is     *)
(* made here and never again.                                              *)
(***************************************************************************)
RejectRequest(c) ==
  /\ calls[c].pc = "idle"
  /\ Refuse(c, "BadRequest")
  /\ UNCHANGED <<dbVars, providerVars>>

\* Mutant: the payload hash is not compared.
ReplayAnyPayload(c) ==
  /\ calls[c].pc = "idle"
  /\ \E r \in WithKey(calls[c].key) :
       Answer(c, "Stored", r, requests[r].created)
  /\ UNCHANGED <<dbVars, providerVars>>

Replay(c) ==
  /\ calls[c].pc = "idle"
  /\ \E r \in WithKey(calls[c].key) :
       IF requests[r].payload = calls[c].payload
       THEN Answer(c, "Stored", r, requests[r].created)
       ELSE Refuse(c, "KeyReused")
  /\ UNCHANGED <<dbVars, providerVars>>

\* A document sent inline is decoded and validated without an await.
Accept(c) ==
  /\ WithKey(calls[c].key) = {}
  /\ Goto(c, "idle", "fetching") \/ Goto(c, "idle", "creating")
  /\ UNCHANGED <<dbVars, providerVars>>

(***************************************************************************)
(* The awaits before the record exists.                                    *)
(***************************************************************************)
FetchDocument(c) ==
  /\ \/ Goto(c, "fetching", "creating")
     \/ /\ calls[c].pc = "fetching"
        /\ \E answer \in {"BadRequest", "ServerError"} : Refuse(c, answer)
  /\ UNCHANGED <<dbVars, providerVars>>

CreateDocument(c) ==
  /\ Goto(c, "creating", "drafted")
  /\ Draft(c)
  /\ UNCHANGED dbVars

PrepareDocument(c) ==
  /\ Goto(c, "drafted", "prepared")
  /\ UNCHANGED <<dbVars, providerVars>>

\* Mutant: the send request's HTTP error is not raised.
SendUnraised(c) ==
  /\ Goto(c, "prepared", "accepted")
  /\ UNCHANGED <<dbVars, providerVars>>

SendDocument(c) ==
  /\ Goto(c, "prepared", "accepted")
  /\ Dispatch(c)
  /\ UNCHANGED dbVars

\* A request fails before the provider acts on it, or its reply is lost
\* after: whatever the provider has done by then stays done.
ProviderFails(c) ==
  /\ calls[c].pc \in AtProvider
  /\ \E answer \in {"Unavailable", "ServerError"} : Refuse(c, answer)
  /\ UNCHANGED <<dbVars, providerVars>>

(***************************************************************************)
(* From the reply to the last request to the 201.                          *)
(***************************************************************************)
\* The handler keeps the record it has committed.
Hold(c) ==
  calls' = [calls EXCEPT ![c].pc = "answering", ![c].row = c, ![c].createdAt = today]

\* Mutant: idempotency_key is indexed but not UNIQUE.
InsertUnconstrained(c) ==
  /\ calls[c].pc = "accepted"
  /\ Hold(c)
  /\ Insert(c, NewRow(calls[c].key, calls[c].payload))
  /\ UNCHANGED <<events, today, providerVars>>

\* Mutant: the insertion replaces the record that has the key.
InsertReplacing(c) ==
  /\ calls[c].pc = "accepted"
  /\ requests' = [r \in (DOMAIN requests \ WithKey(calls[c].key)) \cup {c} |->
                    IF r = c THEN NewRow(calls[c].key, calls[c].payload)
                    ELSE requests[r]]
  /\ Hold(c)
  /\ UNCHANGED <<events, today, providerVars>>

InsertRecord(c) ==
  /\ calls[c].pc = "accepted"
  /\ IF WithKey(calls[c].key) = {}
     THEN /\ Insert(c, NewRow(calls[c].key, calls[c].payload))
          /\ Hold(c)
     ELSE /\ Refuse(c, "IntegrityError")
          /\ UNCHANGED requests
  /\ UNCHANGED <<events, today, providerVars>>

DeliverCreated(c) ==
  /\ calls[c].pc = "answering"
  /\ calls' = [calls EXCEPT ![c].pc = "done", ![c].answer = "Created"]
  /\ UNCHANGED <<dbVars, providerVars>>

Arrive(c) == RejectRequest(c) \/ Replay(c) \/ Accept(c)

Continue(c) ==
  \/ FetchDocument(c)
  \/ CreateDocument(c)
  \/ PrepareDocument(c)
  \/ SendDocument(c)
  \/ ProviderFails(c)
  \/ InsertRecord(c)
  \/ DeliverCreated(c)

================================================================================
