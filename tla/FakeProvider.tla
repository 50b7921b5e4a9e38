------------------------------ MODULE FakeProvider -----------------------------
(***************************************************************************)
(* The service of app/main.py over FakeProvider of app/providers/fake.py,  *)
(* as developers and tests run it; enforce_production_safety refuses it in *)
(* production. The provider keeps its documents in the process and answers *)
(* without suspending, so a POST call is one step from there to the commit *)
(* and a poll is one step altogether. No webhook comes, and retention does *)
(* not depend on the provider.                                             *)
(***************************************************************************)
EXTENDS StatusRules

CONSTANTS
  AutosignSeconds,  \* settings.FAKE_AUTOSIGN_SECONDS
  MaxRestarts       \* bound: how often the process dies

ASSUME FakeAssumption == AutosignSeconds \in Nat /\ MaxRestarts \in Nat

VARIABLES
  store,    \* a function from the documents this process knows
  restarts  \* how often it has died

fakeVars == <<dbVars, store, restarts>>

\* `elapsed` stops at AutosignSeconds, beyond which nothing is told apart.
NewEntry == [elapsed |-> 0, declined |-> FALSE]

FakeInit ==
  /\ DbInit
  /\ store = [r \in {} |-> NewEntry]
  /\ restarts = 0

(***************************************************************************)
(* A document has its record's id. A call that ends without a record, or   *)
(* loses the race for its key, leaves no entry that anyone asks for.       *)
(***************************************************************************)
Put(r) == store' = [x \in DOMAIN store \cup {r} |-> IF x = r THEN NewEntry ELSE store[x]]

create_and_send(r) ==
  /\ r \notin DOMAIN requests
  /\ \E k \in Keys, p \in Payloads : WithKey(k) = {} /\ Insert(r, NewRow(k, p))
  /\ Put(r)
  /\ UNCHANGED <<events, today, restarts>>

Status(entry) ==
  CASE entry.declined -> "declined"
    [] ~entry.declined /\ entry.elapsed = AutosignSeconds -> "completed"
    [] OTHER -> IF 2 * entry.elapsed >= AutosignSeconds THEN "viewed" ELSE "sent"

(***************************************************************************)
(* A poll or a download: _sync_status with get_status inside.              *)
(***************************************************************************)
\* Mutant: the provider is asked before the date is looked at.
ExpireKnown(r) ==
  /\ ~IsTerminal(requests[r]) /\ IsOverdue(requests[r]) /\ r \in DOMAIN store
  /\ requests' = [requests EXCEPT ![r].status = "expired"]
  /\ UNCHANGED <<events, today, store, restarts>>

Expire(r) ==
  /\ ~IsTerminal(requests[r]) /\ IsOverdue(requests[r])
  /\ requests' = [requests EXCEPT ![r].status = "expired"]
  /\ UNCHANGED <<events, today, store, restarts>>

\* Mutant: an entry that is missing is made anew.
SyncOrNew(r) ==
  /\ NeedsSync(requests[r])
  /\ IF r \in DOMAIN store THEN UNCHANGED store ELSE Put(r)
  /\ \E age \in {"fresh", "stale"} :
       requests' = [requests EXCEPT ![r] = Synced(@, @.status, Status(store'[r]), age)]
  /\ UNCHANGED <<events, today, restarts>>

Sync(r) ==
  /\ NeedsSync(requests[r])
  /\ r \in DOMAIN store
  /\ \E age \in {"fresh", "stale"} :
       requests' = [requests EXCEPT ![r] = Synced(@, @.status, Status(store[r]), age)]
  /\ UNCHANGED <<events, today, store, restarts>>

\* Terminal, or asked for not long ago, or unknown to the provider: the status
\* that is cached is the answer.
Cached(r) ==
  /\ ~(~IsTerminal(requests[r]) /\ IsOverdue(requests[r]))
  /\ NeedsSync(requests[r]) => r \notin DOMAIN store
  /\ UNCHANGED fakeVars

PollRecord(r) == r \in DOMAIN requests /\ (Expire(r) \/ Sync(r) \/ Cached(r))

\* The test helper of the provider.
decline(r) ==
  /\ r \in DOMAIN store
  /\ store' = [store EXCEPT ![r].declined = TRUE]
  /\ UNCHANGED <<dbVars, restarts>>

(***************************************************************************)
(* Time: the monotonic clock of the process, the cache, the calendar.      *)
(***************************************************************************)
SecondPasses ==
  /\ store' = [r \in DOMAIN store |->
                 [store[r] EXCEPT !.elapsed = IF @ < AutosignSeconds THEN @ + 1 ELSE @]]
  /\ UNCHANGED <<dbVars, restarts>>

CacheExpires(r) == CacheLapses(r) /\ UNCHANGED <<store, restarts>>
DayEnds == Tick /\ UNCHANGED <<store, restarts>>

\* The documents of the fake provider die with the process.
Die ==
  /\ restarts < MaxRestarts
  /\ restarts' = restarts + 1
  /\ store' = [r \in {} |-> NewEntry]
  /\ UNCHANGED dbVars

FakeNext ==
  \/ \E r \in Calls :
       create_and_send(r) \/ PollRecord(r) \/ decline(r) \/ CacheExpires(r)
  \/ SecondPasses
  \/ DayEnds
  \/ Die

FakeSpec == FakeInit /\ [][FakeNext]_fakeVars

\* Days pass, and the client of each record polls again and again.
FakeFairSpec ==
  /\ FakeSpec
  /\ WF_fakeVars(DayEnds)
  /\ \A r \in Calls : WF_fakeVars(PollRecord(r))

--------------------------------------------------------------------------------

\* "sent -> viewed -> completed" (app/providers/fake.py:4): over the fake
\* provider a status only moves forward, though the documents behind it are
\* lost and the two clocks are not one. Over Documenso it does not: see
\* ViewedNotUnseen and TerminalNotRolledBack of SignatureService.
Rank(status) == CASE status = "sent" -> 0 [] status = "viewed" -> 1 [] OTHER -> 2

StatusForward ==
  [][\A r \in DOMAIN requests \cap DOMAIN requests' :
       requests[r].status # requests'[r].status
         => Rank(requests[r].status) < Rank(requests'[r].status)]_fakeVars

\* A client that keeps polling ends with a terminal status, also when the
\* provider has lost the document and every get_status is a ProviderError: of
\* the records the bounded clock lets expire.
LostStoreSettles ==
  \A r \in Calls :
    r \in DOMAIN requests /\ requests[r].expires < MaxDay
      ~> r \in DOMAIN requests /\ IsTerminal(requests[r])

================================================================================
