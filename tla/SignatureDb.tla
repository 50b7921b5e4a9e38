------------------------------ MODULE SignatureDb ------------------------------
(***************************************************************************)
(* The SQLite tables of app/db.py and the clock the handlers read.         *)
(***************************************************************************)
EXTENDS Integers, Identifiers

CONSTANTS
  Keys,             \* values of the Idempotency-Key header
  Payloads,         \* request bodies that differ after normalisation
  ExpiresInDays,    \* the expiresInDays field of each payload
  PurgeAfterDays,   \* settings.PURGE_AFTER_DAYS
  MaxDay            \* bound: the last day the clock reaches

ASSUME DbAssumption ==
  /\ ExpiresInDays \in [Payloads -> Nat \ {0}]
  /\ PurgeAfterDays \in Nat
  /\ MaxDay \in Nat

VARIABLES
  requests,  \* table signature_requests, a function from the ids present
  events,    \* table provider_events, a set of rows
  today      \* utcnow(), in whole days

dbVars == <<requests, events, today>>

Statuses == {"sent", "viewed", "completed", "declined", "expired", "error"}
TERMINAL_STATUSES == {"completed", "declined", "expired", "error"}

\* last_synced_at as _sync_status reads it: None, younger than
\* STATUS_CACHE_SECONDS, or at least that old. Seconds pass within a day.
SyncAges == {"never", "fresh", "stale"}

\* The columns the handlers read. `stamped` is completed_at IS NOT NULL.
SignatureRequest ==
  [key : Keys, payload : Payloads, status : Statuses, created : Nat,
   expires : Nat, stamped : BOOLEAN, synced : SyncAges]

\* A payload hash stands for the webhook body it is the hash of.
ProviderEvent(bodies) == [payload : bodies, request : Calls \cup {NoCall}]

DbTypeOK(bodies) ==
  /\ DOMAIN requests \subseteq Calls
  /\ \A r \in DOMAIN requests : requests[r] \in SignatureRequest
  /\ events \subseteq ProviderEvent(bodies)
  /\ today \in 0..MaxDay

DbInit ==
  /\ requests = [r \in {} |-> NoCall]
  /\ events = {}
  /\ today = 0

IsTerminal(row) == row.status \in TERMINAL_STATUSES
WithKey(k) == {r \in DOMAIN requests : requests[r].key = k}

NewRow(k, p) ==
  [key |-> k, payload |-> p, status |-> "sent", created |-> today,
   expires |-> today + ExpiresInDays[p], stamped |-> FALSE, synced |-> "never"]

Insert(r, row) ==
  requests' = [x \in DOMAIN requests \cup {r} |->
                 IF x = r THEN row ELSE requests[x]]

(***************************************************************************)
(* Time. A day passes, or the seconds of the status cache run out.         *)
(***************************************************************************)
Tick ==
  /\ today < MaxDay
  /\ today' = today + 1
  /\ requests' = [r \in DOMAIN requests |->
                    [requests[r] EXCEPT !.synced = IF @ = "never" THEN "never"
                                                   ELSE "stale"]]
  /\ UNCHANGED events

CacheLapses(r) ==
  /\ r \in DOMAIN requests
  /\ requests[r].synced = "fresh"
  /\ requests' = [requests EXCEPT ![r].synced = "stale"]
  /\ UNCHANGED <<events, today>>

================================================================================
