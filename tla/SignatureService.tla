---------------------------- MODULE SignatureService ---------------------------
(***************************************************************************)
(* The service of app/main.py: its handlers, the webhook, the retention    *)
(* task and the process they run in, over one database, against one        *)
(* provider account.                                                       *)
(***************************************************************************)
EXTENDS CreateHandler, StatusHandlers, WebhookHandler, Retention, FiniteSets

CONSTANT MaxRestarts  \* bound: how often the process dies

ASSUME ServiceAssumption == MaxRestarts \in Nat

VARIABLE restarts  \* how often it has died

vars == <<requests, events, today, docs, hooks, calls, polls, restarts>>

Init ==
  /\ DbInit
  /\ ProviderInit
  /\ CallsInit
  /\ PollsInit
  /\ restarts = 0

(***************************************************************************)
(* The steps of each part; the local state of the others stays.            *)
(***************************************************************************)
CallArrives(c) == Arrive(c) /\ UNCHANGED <<polls, restarts>>
CallContinues(c) == Continue(c) /\ UNCHANGED <<polls, restarts>>

\* Only the client that got the 201 holds the token _authorized_record asks
\* for; an id that is gone is a 404.
HasToken(r) == calls[r].answer = "Created"

PollStarts(p, r) ==
  /\ HasToken(r)
  /\ StartPoll(p, r)
  /\ UNCHANGED <<calls, restarts>>

PollContinues(p) == ContinuePoll(p) /\ UNCHANGED <<calls, restarts>>

WebhookArrives(h) == documenso_webhook(h) /\ UNCHANGED <<calls, polls, restarts>>

PurgerWakes == purge_old_requests /\ UNCHANGED <<providerVars, calls, polls, restarts>>

DocumentMoves(d) == Signing(d) /\ UNCHANGED <<dbVars, calls, polls, restarts>>

DayPasses == Tick /\ UNCHANGED <<providerVars, calls, polls, restarts>>

SecondsPass(r) == CacheLapses(r) /\ UNCHANGED <<providerVars, calls, polls, restarts>>

\* The process dies and is started again: SQLite keeps what was committed,
\* every handler in flight is gone.
InFlight(c) == calls[c].pc \notin {"idle", "done"}

Restart ==
  /\ restarts < MaxRestarts
  /\ restarts' = restarts + 1
  /\ calls' = [c \in Calls |->
                 IF InFlight(c)
                 THEN [calls[c] EXCEPT !.pc = "done", !.answer = "Lost"]
                 ELSE calls[c]]
  /\ polls' = [p \in Pollers |-> IdlePoll]
  /\ UNCHANGED <<dbVars, providerVars>>

\* Every call is answered and no handler runs.
Rest ==
  /\ \A c \in Calls : calls[c].pc = "done"
  /\ \A p \in Pollers : polls[p].pc = "idle"
  /\ UNCHANGED vars

Next ==
  \/ \E c \in Calls : CallArrives(c) \/ CallContinues(c)
  \/ \E p \in Pollers : PollContinues(p) \/ \E r \in Calls : PollStarts(p, r)
  \/ \E h \in hooks : WebhookArrives(h)
  \/ PurgerWakes
  \/ \E d \in Calls : DocumentMoves(d)
  \/ DayPasses
  \/ \E r \in Calls : SecondsPass(r)
  \/ Restart
  \/ Rest

Spec == Init /\ [][Next]_vars

(***************************************************************************)
(* Fairness. The event loop runs what is ready; a status request ends,     *)
(* answered or not, since Documenso is no host that stalls on purpose; the *)
(* purger is a timer; a client polls until it has its answer; a provider   *)
(* that is asked again and again answers in the end; seconds and days      *)
(* pass. Nothing is assumed of a POST call: its document's host may never  *)
(* let it go on.                                                           *)
(***************************************************************************)
Fairness ==
  /\ \A p \in Pollers :
       /\ WF_vars(PollContinues(p))
       /\ WF_vars(\E r \in Calls : PollStarts(p, r))
       /\ SF_vars(ProviderReplies(p) /\ UNCHANGED <<calls, restarts>>)
  /\ WF_vars(PurgerWakes)
  /\ WF_vars(DayPasses)
  /\ \A r \in Calls : WF_vars(SecondsPass(r))

FairSpec == Spec /\ Fairness

--------------------------------------------------------------------------------
(***************************************************************************)
(* The type invariant.                                                     *)
(***************************************************************************)

\* Every variable holds what the code's types and columns allow.
TypeOK ==
  /\ DbTypeOK(Hooks)
  /\ ProviderTypeOK
  /\ CallsTypeOK
  /\ PollsTypeOK
  /\ restarts \in 0..MaxRestarts

(***************************************************************************)
(* Creation and idempotency.                                               *)
(***************************************************************************)

\* Two calls with one Idempotency-Key never leave two records, although the
\* key is looked up before, and the record inserted after, several awaits.
KeyUnique ==
  \A r, s \in DOMAIN requests : requests[r].key = requests[s].key => r = s

\* A call is answered with a resource of its own key and its own payload,
\* whatever was purged and re-created in between. Keys are the service's, not a
\* client's: nothing in a request says who sent it.
NoForeignResource ==
  \A c \in Calls : calls[c].row # NoCall =>
    /\ calls[calls[c].row].key = calls[c].key
    /\ calls[calls[c].row].payload = calls[c].payload

\* No record is committed for a document the signer was not sent.
RecordedIsSent ==
  \A r \in DOMAIN requests : docs[r] \notin {"none", "DRAFT"}

\* A resource that was committed or answered with outlives every crash and
\* every retention run until it is older than PURGE_AFTER_DAYS by the
\* createdAt the client was told.
AcknowledgedIsKept ==
  \A c \in Calls : calls[c].row # NoCall =>
    \/ calls[c].row \in DOMAIN requests
    \/ today > calls[c].createdAt + PurgeAfterDays

(***************************************************************************)
(* Status: polls, webhooks and expiry write the same column.               *)
(***************************************************************************)
Signed == {"SIGNED", "COMPLETED"}
Refused == {"REJECTED", "CANCELLED"}

\* "completed" and "declined" say what happened at the provider, in whatever
\* order late replies and webhooks are applied.
FinalStatusTruthful ==
  \A r \in DOMAIN requests :
    /\ requests[r].status = "completed" => docs[r] \in Signed
    /\ requests[r].status = "declined" => docs[r] \in Refused

\* completedAt is set in every completed record, and only for a document that
\* was signed: also in a record whose status was written over since.
CompletionEvidence ==
  \A r \in DOMAIN requests :
    /\ requests[r].status = "completed" => requests[r].stamped
    /\ requests[r].stamped => docs[r] \in Signed

\* No request is called expired on or before the day it expires.
ExpiredIsDue ==
  \A r \in DOMAIN requests :
    requests[r].status = "expired" => today > requests[r].expires

\* The download is asked for only when the document has been signed: the
\* status it is decided on was refreshed after the provider's reply.
DownloadIsSigned ==
  \A p \in Pollers : polls[p].pc = "downloading" => docs[polls[p].id] \in Signed

\* A completion webhook that found its record left its mark there for good:
\* no poll that began before it removes completedAt.
AppliedCompletionKept ==
  \A e \in events :
    e.request # NoCall /\ e.payload.event \in {"DOCUMENT_SIGNED", "DOCUMENT_COMPLETED"}
      => requests[e.request].stamped

\* Only one thing turns a terminal status back: a poll that loaded "viewed"
\* and got the reply "sent". Every other late write leaves it terminal.
RollsBack(r) ==
  /\ r \in DOMAIN requests \cap DOMAIN requests'
  /\ IsTerminal(requests[r])
  /\ ~IsTerminal(requests'[r])

StalePolls(r) ==
  {p \in Pollers :
     /\ polls[p].pc = "replied" /\ polls[p].id = r
     /\ polls[p].loaded = "viewed" /\ polls[p].reply = "sent"}

RollbackOnlyFromViewed == [][\A r \in Calls : RollsBack(r) => StalePolls(r) # {}]_vars

\* The completion of a sealed document can still be turned back, but only so
\* often as stale polls were under way at the sealing: each time one of them ends
\* with it, and no new one arises. No late webhook, other reply or expiry does it.
SealedRollbacksRunOut ==
  [][\A r \in DOMAIN requests \cap DOMAIN requests' : docs[r] = "COMPLETED" =>
       /\ StalePolls(r)' \subseteq StalePolls(r)
       /\ requests[r].status = "completed" /\ requests'[r].status # "completed"
            => StalePolls(r)' # StalePolls(r)]_vars

(***************************************************************************)
(* Retention.                                                              *)
(***************************************************************************)

\* Every event row names a record that is there, and the right one, although
\* SQLite does not enforce the foreign key and the purge deletes by hand.
EventOwnersExist ==
  \A e \in events : e.request # NoCall =>
    e.request \in DOMAIN requests /\ e.payload.doc = e.request

\* A record appears only by the commit of its own call: a poll that was
\* waiting for the provider while its record was purged does not bring the
\* personal data back.
PurgedStaysGone ==
  [][\A r \in Calls : r \in DOMAIN requests' /\ r \notin DOMAIN requests
       => calls[r].pc = "accepted"]_vars

\* No open request is deleted: what leaves the table has expired, or was
\* signed or refused, even if its status was turned back since.
OpenIsNotPurged ==
  [][\A r \in DOMAIN requests \ DOMAIN requests' :
       requests[r].expires < today \/ docs[r] \in Signed \cup Refused]_vars

(***************************************************************************)
(* Liveness, under FairSpec.                                               *)
(***************************************************************************)

\* A client that keeps polling ends with "completed" for a document that was
\* sealed while the request had not expired, though webhooks may be lost,
\* may have come before the record, and late polls may turn it back.
SignedIsReported ==
  \A r \in Calls :
    <>[](docs[r] = "COMPLETED" /\ HasToken(r) =>
           \/ r \notin DOMAIN requests
           \/ requests[r].status = "completed"
           \/ IsOverdue(requests[r]))

\* No record is kept for ever, whether or not anyone asks for it or the
\* signer ever acts: of the records the bounded clock lets grow old enough.
GrowsOld(row) == row.expires < MaxDay /\ row.created + PurgeAfterDays < MaxDay

NothingKeptForever ==
  \A r \in Calls :
    r \in DOMAIN requests /\ GrowsOld(requests[r]) ~> r \notin DOMAIN requests

(***************************************************************************)
(* What the repository says and the code does not do.                      *)
(***************************************************************************)

\* "Terminal-Status nie zurueckdrehen" (app/main.py:365): a terminal status
\* is never turned back.
TerminalNotRolledBack == [][\A r \in Calls : ~RollsBack(r)]_vars

\* "sent -> viewed -> completed/declined/expired" (README.md:43): a poll never
\* reports "sent" after "viewed".
ViewedNotUnseen ==
  [][\A r \in DOMAIN requests \cap DOMAIN requests' :
       requests[r].status = "viewed" => requests'[r].status # "sent"]_vars

\* "gleicher Key + gleicher Payload -> gespeicherte Ressource"
\* (app/main.py:155): such a call is answered with the stored resource.
SamePayloadIsReplayed ==
  \A c \in Calls : calls[c].answer = "IntegrityError" =>
    \A r \in WithKey(calls[c].key) : requests[r].payload # calls[c].payload

================================================================================
