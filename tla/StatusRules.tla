------------------------------ MODULE StatusRules ------------------------------
(***************************************************************************)
(* What _sync_status of app/main.py decides about a row, whichever         *)
(* provider it asks.                                                       *)
(***************************************************************************)
EXTENDS SignatureDb

\* Mutant: >= for >.
IsOverdueOnTheDay(row) == today >= row.expires

IsOverdue(row) == today > row.expires

\* Mutant: the cached status never lapses.
NeedsFirstSync(row) == ~IsTerminal(row) /\ ~IsOverdue(row) /\ row.synced = "never"

NeedsSync(row) == ~IsTerminal(row) /\ ~IsOverdue(row) /\ row.synced # "fresh"

\* Mutant: the status is written back although the handler did not change it.
SyncedStatusAlways(row, loaded, reply, age) ==
  [row EXCEPT !.status = reply, !.stamped = @ \/ reply = "completed",
              !.synced = age]

\* Mutant: the UPDATE carries every column, completed_at too.
SyncedStampAlways(row, loaded, reply, age) ==
  [row EXCEPT !.status = IF reply = loaded THEN @ ELSE reply,
              !.stamped = reply = "completed", !.synced = age]

Synced(row, loaded, reply, age) ==
  [row EXCEPT !.status = IF reply = loaded THEN @ ELSE reply,
              !.stamped = @ \/ reply = "completed",
              !.synced = age]

================================================================================
