------------------------------- MODULE Retention -------------------------------
(***************************************************************************)
(* purge_old_requests of app/cleanup.py, which the lifespan task of        *)
(* app/main.py runs on the event loop at start and every 24 hours, without *)
(* an await from its first row to its commit.                              *)
(***************************************************************************)
EXTENDS SignatureDb

\* Mutant: <= for <.
IsPurgeableOnTheDay(row) ==
  /\ row.created <= today - PurgeAfterDays
  /\ IsTerminal(row) \/ row.expires < today

\* Mutant: a record nobody polled never becomes terminal and is kept.
IsPurgeableWhenTerminal(row) ==
  row.created < today - PurgeAfterDays /\ IsTerminal(row)

\* Mutant: everything old goes.
IsPurgeableByAge(row) == row.created < today - PurgeAfterDays

IsPurgeable(row) ==
  /\ row.created < today - PurgeAfterDays
  /\ IsTerminal(row) \/ row.expires < today

Purgeable == {r \in DOMAIN requests : IsPurgeable(requests[r])}

\* Mutant: the events are left to a foreign key that is not enforced.
purge_requests_only ==
  /\ Purgeable # {}
  /\ requests' = [r \in DOMAIN requests \ Purgeable |-> requests[r]]
  /\ UNCHANGED <<events, today>>

\* SQLite enforces no foreign key here: the events go because the code
\* deletes them. Those recorded without a row have nothing to go with.
purge_old_requests ==
  /\ Purgeable # {}
  /\ requests' = [r \in DOMAIN requests \ Purgeable |-> requests[r]]
  /\ events' = {e \in events : e.request \notin Purgeable}
  /\ UNCHANGED today

================================================================================
