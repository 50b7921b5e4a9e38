---------------------------- MODULE StatusHandlers -----------------------------
(***************************************************************************)
(* GET /v1/signature-requests/{id} and GET .../{id}/document:              *)
(* get_signature_request and download_signed_document of app/main.py, both *)
(* through _authorized_record and _sync_status. A handler works on a       *)
(* detached copy of the row, loaded before it awaits the provider, and     *)
(* writes back the columns that differ from that copy.                     *)
(***************************************************************************)
EXTENDS StatusRules, DocumensoProvider

CONSTANT Pollers  \* clients holding access tokens, one request at a time each

VARIABLE polls  \* the local state of each client's handler

(***************************************************************************)
(*   idle         no request                                               *)
(*   asking       awaits provider.get_status                               *)
(*   replied      the provider has answered, or the request has failed     *)
(*   downloading  awaits provider.download_completed                       *)
(***************************************************************************)
PollPcs == {"idle", "asking", "replied", "downloading"}
Failures == {"ProviderError", "TransportError"}
Replied == {"sent", "completed", "declined"}
Replies == Replied \cup Failures \cup {"none"}

\* `loaded` is the status in the handler's copy of the row.
Poll ==
  [pc : PollPcs, id : Calls \cup {NoCall}, wants : {"status", "document"},
   loaded : Statuses, reply : Replies]

IdlePoll ==
  [pc |-> "idle", id |-> NoCall, wants |-> "status", loaded |-> "sent",
   reply |-> "none"]

PollsTypeOK == polls \in [Pollers -> Poll]
PollsInit == polls = [p \in Pollers |-> IdlePoll]

EndPoll(p) == polls' = [polls EXCEPT ![p] = IdlePoll]

Downloading(r) ==
  [pc |-> "downloading", id |-> r, wants |-> "document", loaded |-> "completed",
   reply |-> "none"]

\* Mutant: the status is not looked at.
DownloadAnyway(p, r, wants, status) ==
  IF wants = "document"
  THEN polls' = [polls EXCEPT ![p] = Downloading(r)]
  ELSE EndPoll(p)

\* What the handler does with the row it has refreshed: answer, or go on to
\* the download when it is wanted and the status allows it.
Conclude(p, r, wants, status) ==
  IF wants = "document" /\ status = "completed"
  THEN polls' = [polls EXCEPT ![p] = Downloading(r)]
  ELSE EndPoll(p)

(***************************************************************************)
(* The part before the await: answered from the row, or the row expires.   *)
(***************************************************************************)
AnswerFromRow(p, r, wants) ==
  /\ polls[p].pc = "idle"
  /\ r \in DOMAIN requests
  /\ ~NeedsSync(requests[r])
  /\ LET status == IF ~IsTerminal(requests[r]) /\ IsOverdue(requests[r])
                   THEN "expired" ELSE requests[r].status
     IN  /\ requests' = [requests EXCEPT ![r].status = status]
         /\ Conclude(p, r, wants, status)
  /\ UNCHANGED <<events, today, providerVars>>

AskProvider(p, r, wants) ==
  /\ polls[p].pc = "idle"
  /\ r \in DOMAIN requests
  /\ NeedsSync(requests[r])
  /\ polls' = [polls EXCEPT ![p] =
                 [pc |-> "asking", id |-> r, wants |-> wants,
                  loaded |-> requests[r].status, reply |-> "none"]]
  /\ UNCHANGED <<dbVars, providerVars>>

(***************************************************************************)
(* The await. The reply is the status at some moment of it; a row keeps    *)
(* its document's id, so get_status is asked about document r of row r.    *)
(***************************************************************************)
Reply(p, reply) ==
  /\ polls[p].pc = "asking"
  /\ polls' = [polls EXCEPT ![p].pc = "replied", ![p].reply = reply]
  /\ UNCHANGED <<dbVars, providerVars>>

ProviderReplies(p) == Reply(p, get_status(polls[p].id))
StatusCallFails(p) == \E failure \in Failures : Reply(p, failure)

(***************************************************************************)
(* The part after the await. A ProviderError keeps the cached status; any  *)
(* other exception, and a row that is gone, end the request with a 500.    *)
(***************************************************************************)
\* Mutant: session.merge in place of session.add, which inserts the copy
\* where the row is gone.
FinishSyncByMerge(p) ==
  /\ polls[p].pc = "replied"
  /\ \E k \in Keys, body \in Payloads : Insert(polls[p].id, NewRow(k, body))
  /\ EndPoll(p)
  /\ UNCHANGED <<events, today, providerVars>>

FinishSync(p) ==
  LET poll == polls[p]
      r == poll.id
  IN  /\ poll.pc = "replied"
      /\ IF r \notin DOMAIN requests \/ poll.reply = "TransportError"
         THEN /\ EndPoll(p)
              /\ UNCHANGED requests
         ELSE /\ IF poll.reply = "ProviderError"
                 THEN UNCHANGED requests
                 ELSE \E age \in {"fresh", "stale"} :
                        requests' = [requests EXCEPT ![r] =
                                       Synced(@, poll.loaded, poll.reply, age)]
              /\ Conclude(p, r, poll.wants, requests'[r].status)
      /\ UNCHANGED <<events, today, providerVars>>

\* The download changes no state here, whether it succeeds or not.
FinishDownload(p) ==
  /\ polls[p].pc = "downloading"
  /\ EndPoll(p)
  /\ UNCHANGED <<dbVars, providerVars>>

StartPoll(p, r) ==
  \E wants \in {"status", "document"} :
    AnswerFromRow(p, r, wants) \/ AskProvider(p, r, wants)

ContinuePoll(p) ==
  \/ ProviderReplies(p)
  \/ StatusCallFails(p)
  \/ FinishSync(p)
  \/ FinishDownload(p)

================================================================================
