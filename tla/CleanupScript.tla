----------------------------- MODULE CleanupScript -----------------------------
(***************************************************************************)
(* SignatureService with `python -m app.cleanup` run beside it: a second   *)
(* process on the database file. sqlite3 begins a transaction only before  *)
(* the first write, so the script may act between a handler's reads and    *)
(* its first write, and the server between the script's read and its       *)
(* deletions; from the first write to the commit each keeps the other out. *)
(* The handlers that read and write without an await are the webhook's and *)
(* the purger's; the others write with one statement on one row, and a row *)
(* that is gone by then makes it fail like a purge during their await.     *)
(***************************************************************************)
EXTENDS SignatureService

VARIABLES
  selected,  \* the ids the script will delete, {} when it does not run
  inbox      \* the webhook that has read and not written yet, if any

scriptVars == <<selected, inbox>>

(***************************************************************************)
(* purge_old_requests in the script: one read, one transaction of deletes. *)
(***************************************************************************)
ScriptSelects ==
  /\ selected = {}
  /\ selected' = Purgeable
  /\ UNCHANGED <<vars, inbox>>

ScriptDeletes ==
  /\ selected # {}
  /\ requests' = [r \in DOMAIN requests \ selected |-> requests[r]]
  /\ events' = {e \in events : e.request \notin selected}
  /\ selected' = {}
  /\ UNCHANGED <<today, providerVars, calls, polls, restarts, inbox>>

\* Killed, or "database is locked": the transaction is rolled back.
ScriptFails ==
  /\ selected # {}
  /\ selected' = {}
  /\ UNCHANGED <<vars, inbox>>

(***************************************************************************)
(* documenso_webhook in two steps. `changes` is whether the UPDATE of the  *)
(* record has a column to write.                                           *)
(***************************************************************************)
Changes(h) ==
  /\ Owner(h) # NoCall
  /\ h.event \in DOMAIN WEBHOOK_STATUS_MAP
  /\ LET row == requests[Owner(h)]
     IN  Notified(row, WEBHOOK_STATUS_MAP[h.event]) # row

WebhookReads(h) ==
  /\ inbox = {}
  /\ ~IsDuplicate(h)
  /\ inbox' = {[hook |-> h, owner |-> Owner(h), changes |-> Changes(h)]}
  /\ UNCHANGED <<vars, selected>>

\* Mutant: session.merge in place of session.add.
CommitByMerge(m) ==
  IF m.owner \in DOMAIN requests \cup {NoCall}
  THEN WebhookArrives(m.hook)
  ELSE /\ \E k \in Keys, body \in Payloads : Insert(m.owner, NewRow(k, body))
       /\ events' = events \cup {[payload |-> m.hook, request |-> m.owner]}
       /\ UNCHANGED <<today, providerVars, calls, polls, restarts>>

\* The row that was read may be gone: its UPDATE then matches nothing, which
\* SQLAlchemy raises, and the event is rolled back with it. Without an UPDATE
\* nothing is raised.
Commit(m) ==
  IF m.owner \in DOMAIN requests \cup {NoCall}
  THEN WebhookArrives(m.hook)
  ELSE /\ events' = IF m.changes THEN events
                    ELSE events \cup {[payload |-> m.hook, request |-> m.owner]}
       /\ UNCHANGED <<requests, today, providerVars, calls, polls, restarts>>

WebhookCommits ==
  /\ \E m \in inbox : Commit(m)
  /\ inbox' = {}
  /\ UNCHANGED selected

(***************************************************************************)
(* The server does nothing else while a webhook is between its two steps,  *)
(* which are milliseconds apart: the clock of days stands still.           *)
(***************************************************************************)
Alone(A) == inbox = {} /\ A /\ UNCHANGED scriptVars

ServerStep ==
  \/ \E c \in Calls : Alone(CallArrives(c) \/ CallContinues(c))
  \/ \E p \in Pollers : Alone(PollContinues(p) \/ \E r \in Calls : PollStarts(p, r))
  \/ Alone(PurgerWakes)
  \/ Alone(DayPasses)
  \/ \E r \in Calls : Alone(SecondsPass(r))
  \/ Alone(Rest)

WorldMoves == \E d \in Calls : DocumentMoves(d) /\ UNCHANGED scriptVars

ScriptRestart ==
  /\ Restart
  /\ inbox' = {}
  /\ UNCHANGED selected

ScriptInit == Init /\ selected = {} /\ inbox = {}

ScriptNext ==
  \/ ScriptSelects
  \/ ScriptDeletes
  \/ ScriptFails
  \/ \E h \in hooks : WebhookReads(h)
  \/ WebhookCommits
  \/ ServerStep
  \/ WorldMoves
  \/ ScriptRestart

ScriptSpec == ScriptInit /\ [][ScriptNext]_<<vars, scriptVars>>

\* A webhook that has begun ends, the purger is a timer, days pass; the script
\* may never be run, and may fail whenever it is.
FairScriptSpec ==
  /\ ScriptSpec
  /\ WF_<<vars, scriptVars>>(WebhookCommits)
  /\ WF_<<vars, scriptVars>>(Alone(PurgerWakes))
  /\ WF_<<vars, scriptVars>>(Alone(DayPasses))

--------------------------------------------------------------------------------

\* A completion webhook that was recorded under a record has left its mark
\* there, unless the record is purged: event and status are written together,
\* whatever is deleted under them.
AppliedOrPurged ==
  \A e \in events :
    e.request \in DOMAIN requests
      /\ e.payload.event \in {"DOCUMENT_SIGNED", "DOCUMENT_COMPLETED"}
    => requests[e.request].stamped

================================================================================
