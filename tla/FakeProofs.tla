------------------------------- MODULE FakeProofs ------------------------------
(***************************************************************************)
(* StatusForward of FakeProvider, for any number of records, any autosign  *)
(* delay and any number of lost stores.                                    *)
(***************************************************************************)
EXTENDS FakeProvider, TLAPS

\* Every row and every entry holds what the code's types allow.
FakeTypes ==
  /\ DOMAIN requests \subseteq Calls
  /\ \A r \in DOMAIN requests : requests[r] \in SignatureRequest
  /\ DOMAIN store \subseteq Calls
  /\ \A r \in DOMAIN store :
       store[r] \in [elapsed : 0..AutosignSeconds, declined : BOOLEAN]
  /\ today \in Nat

\* A record that was seen "viewed" is never "sent" again to the provider: an
\* entry ages, and one that is lost answers nothing.
SeenStaysSeen ==
  \A r \in DOMAIN requests \cap DOMAIN store :
    requests[r].status = "viewed" => Status(store[r]) # "sent"

FakeInv == FakeTypes /\ SeenStaysSeen

\* What the fake provider answers.
LEMMA StatusValue ==
  ASSUME NEW e \in [elapsed : 0..AutosignSeconds, declined : BOOLEAN]
  PROVE  Status(e) \in {"sent", "viewed", "completed", "declined"}
BY DEF Status

\* A poll leaves a row with the answer as its status.
LEMMA SyncedRow ==
  ASSUME NEW row \in SignatureRequest, NEW age \in SyncAges,
         NEW reply \in {"sent", "viewed", "completed", "declined"}
  PROVE  /\ Synced(row, row.status, reply, age) \in SignatureRequest
         /\ Synced(row, row.status, reply, age).status = reply
BY DEF Synced, SignatureRequest, Statuses

\* A row a step has not inserted keeps its status, moves it forward by a poll,
\* or expires while it is open.
Forward(r) ==
  \/ requests'[r].status = requests[r].status
  \/ /\ ~IsTerminal(requests[r]) /\ requests'[r].status = "expired"
  \/ /\ ~IsTerminal(requests[r]) /\ r \in DOMAIN store /\ store' = store
     /\ requests'[r].status = Status(store[r])

\* The step of each action on rows and entries.
LEMMA FakeStep ==
  ASSUME FakeInv, [FakeNext]_fakeVars
  PROVE  FakeInv' /\ \A r \in DOMAIN requests \cap DOMAIN requests' : Forward(r)
<1> USE FakeAssumption DEF FakeInv
<1>1. ASSUME NEW c \in Calls, create_and_send(c)
      PROVE  FakeInv' /\ \A r \in DOMAIN requests \cap DOMAIN requests' : Forward(r)
  <2>1. PICK k \in Keys, p \in Payloads : Insert(c, NewRow(k, p))
    BY <1>1 DEF create_and_send
  <2>2. NewRow(k, p) \in SignatureRequest /\ NewRow(k, p).status = "sent"
    <3>1. ExpiresInDays[p] \in Nat
      BY DbAssumption
    <3> QED
      BY <3>1 DEF NewRow, SignatureRequest, Statuses, SyncAges, FakeTypes
  <2>3. /\ c \notin DOMAIN requests /\ today' = today
        /\ store' = [x \in DOMAIN store \cup {c} |-> IF x = c THEN NewEntry ELSE store[x]]
    BY <1>1 DEF create_and_send, Put
  <2>4. NewEntry \in [elapsed : 0..AutosignSeconds, declined : BOOLEAN]
    BY DEF NewEntry
  <2>5. requests' = [x \in DOMAIN requests \cup {c} |->
                       IF x = c THEN NewRow(k, p) ELSE requests[x]]
    BY <2>1 DEF Insert
  <2>6. FakeTypes'
    BY <2>2, <2>3, <2>4, <2>5 DEF FakeTypes
  <2>7. SeenStaysSeen'
    BY <2>2, <2>3, <2>5 DEF SeenStaysSeen
  <2> QED
    BY <2>3, <2>5, <2>6, <2>7 DEF Forward
<1>2. ASSUME NEW c \in Calls, PollRecord(c)
      PROVE  FakeInv' /\ \A r \in DOMAIN requests \cap DOMAIN requests' : Forward(r)
  <2>1. c \in DOMAIN requests /\ requests[c] \in SignatureRequest
    BY <1>2 DEF PollRecord, FakeTypes
  <2>2. CASE Expire(c)
    <3>1. /\ requests' = [requests EXCEPT ![c].status = "expired"]
          /\ UNCHANGED <<today, store>> /\ ~IsTerminal(requests[c])
      BY <2>2 DEF Expire
    <3>2. /\ [requests[c] EXCEPT !.status = "expired"] \in SignatureRequest
          /\ [requests[c] EXCEPT !.status = "expired"].status = "expired"
      BY <2>1 DEF SignatureRequest, Statuses
    <3>3. \A r \in DOMAIN requests : requests'[r] =
            IF r = c THEN [requests[c] EXCEPT !.status = "expired"] ELSE requests[r]
      BY <3>1
    <3> QED
      BY <2>1, <3>1, <3>2, <3>3 DEF FakeTypes, SeenStaysSeen, Forward
  <2>3. CASE Sync(c)
    <3>1. PICK age \in SyncAges :
            requests' = [requests EXCEPT ![c] =
                           Synced(@, @.status, Status(store[c]), age)]
      BY <2>3 DEF Sync, SyncAges
    <3> DEFINE row == Synced(requests[c], requests[c].status, Status(store[c]), age)
    <3>2. c \in DOMAIN store /\ UNCHANGED <<today, store>> /\ ~IsTerminal(requests[c])
      BY <2>3 DEF Sync, NeedsSync
    <3>3. row \in SignatureRequest /\ row.status = Status(store[c])
      BY <2>1, <3>2, StatusValue, SyncedRow DEF FakeTypes
    <3>4. /\ DOMAIN requests' = DOMAIN requests
          /\ \A r \in DOMAIN requests : requests'[r] = IF r = c THEN row ELSE requests[r]
      BY <3>1
    <3> HIDE DEF row
    <3> QED
      BY <2>1, <3>2, <3>3, <3>4 DEF FakeTypes, SeenStaysSeen, Forward
  <2>4. CASE Cached(c)
    BY <2>4 DEF Cached, fakeVars, dbVars, FakeTypes, SeenStaysSeen, Forward
  <2> QED
    BY <1>2, <2>2, <2>3, <2>4 DEF PollRecord
<1>3. ASSUME NEW c \in Calls, decline(c)
      PROVE  FakeInv' /\ \A r \in DOMAIN requests \cap DOMAIN requests' : Forward(r)
  <2>1. /\ store' = [store EXCEPT ![c].declined = TRUE] /\ c \in DOMAIN store
        /\ UNCHANGED <<requests, today>>
    BY <1>3 DEF decline, dbVars
  <2>2. /\ store'[c] \in [elapsed : 0..AutosignSeconds, declined : BOOLEAN]
        /\ store'[c].declined /\ \A r \in DOMAIN store : r # c => store'[r] = store[r]
    BY <2>1 DEF FakeTypes
  <2>3. Status(store'[c]) # "sent"
    BY <2>2 DEF Status
  <2> QED
    BY <2>1, <2>2, <2>3 DEF FakeTypes, SeenStaysSeen, Forward
<1>4. CASE SecondPasses
  <2>1. /\ UNCHANGED <<requests, today>> /\ DOMAIN store' = DOMAIN store
        /\ \A r \in DOMAIN store : store'[r] =
             [store[r] EXCEPT !.elapsed = IF @ < AutosignSeconds THEN @ + 1 ELSE @]
    BY <1>4 DEF SecondPasses, dbVars
  <2>2. ASSUME NEW r \in DOMAIN store
        PROVE  /\ store'[r] \in [elapsed : 0..AutosignSeconds, declined : BOOLEAN]
               /\ Status(store[r]) # "sent" => Status(store'[r]) # "sent"
    <3>1. store[r] \in [elapsed : 0..AutosignSeconds, declined : BOOLEAN]
      BY DEF FakeTypes
    <3>2. /\ store'[r].elapsed \in 0..AutosignSeconds
          /\ store'[r].elapsed >= store[r].elapsed
          /\ store'[r].declined = store[r].declined
          /\ store'[r] \in [elapsed : 0..AutosignSeconds, declined : BOOLEAN]
      BY <2>1, <3>1
    <3> QED
      BY <3>1, <3>2 DEF Status
  <2> QED
    BY <2>1, <2>2 DEF FakeTypes, SeenStaysSeen, Forward
<1>5. ASSUME NEW c \in Calls, CacheExpires(c)
      PROVE  FakeInv' /\ \A r \in DOMAIN requests \cap DOMAIN requests' : Forward(r)
  <2>1. /\ requests' = [requests EXCEPT ![c].synced = "stale"] /\ c \in DOMAIN requests
        /\ UNCHANGED <<today, store>>
    BY <1>5 DEF CacheExpires, CacheLapses
  <2>2. /\ requests'[c] \in SignatureRequest /\ requests'[c].status = requests[c].status
        /\ \A r \in DOMAIN requests : r # c => requests'[r] = requests[r]
    BY <2>1 DEF FakeTypes, SignatureRequest, SyncAges
  <2> QED
    BY <2>1, <2>2 DEF FakeTypes, SeenStaysSeen, Forward
<1>6. CASE DayEnds
  <2>1. /\ store' = store /\ DOMAIN requests' = DOMAIN requests /\ today' = today + 1
        /\ \A r \in DOMAIN requests : requests'[r] =
             [requests[r] EXCEPT !.synced = IF @ = "never" THEN "never" ELSE "stale"]
    BY <1>6 DEF DayEnds, Tick
  <2>2. \A r \in DOMAIN requests :
          requests'[r] \in SignatureRequest /\ requests'[r].status = requests[r].status
    BY <2>1 DEF FakeTypes, SignatureRequest, SyncAges
  <2> QED
    BY <2>1, <2>2 DEF FakeTypes, SeenStaysSeen, Forward
<1>7. CASE Die
  BY <1>7 DEF Die, dbVars, FakeTypes, SeenStaysSeen, Forward
<1>8. CASE UNCHANGED fakeVars
  BY <1>8 DEF fakeVars, dbVars, FakeTypes, SeenStaysSeen, Forward
<1> QED
  BY <1>1, <1>2, <1>3, <1>4, <1>5, <1>6, <1>7, <1>8 DEF FakeNext

\* Over the fake provider, a status only moves forward.
THEOREM FakeMovesForward == FakeSpec => StatusForward
<1>1. FakeInit => FakeInv
  BY DEF FakeInit, DbInit, FakeInv, FakeTypes, SeenStaysSeen
<1>2. FakeInv /\ [FakeNext]_fakeVars => FakeInv'
  BY FakeStep
<1>3. FakeInv /\ [FakeNext]_fakeVars =>
        [\A r \in DOMAIN requests \cap DOMAIN requests' :
           requests[r].status # requests'[r].status
             => Rank(requests[r].status) < Rank(requests'[r].status)]_fakeVars
  <2>1. ASSUME FakeInv, [FakeNext]_fakeVars, NEW r \in DOMAIN requests \cap DOMAIN requests',
               requests[r].status # requests'[r].status
        PROVE  Rank(requests[r].status) < Rank(requests'[r].status)
    <3>1. Forward(r) /\ requests[r].status \in Statuses
      BY <2>1, FakeStep DEF FakeInv, FakeTypes, SignatureRequest
    <3>2. requests[r].status \in {"sent", "viewed"}
      BY <2>1, <3>1 DEF Forward, IsTerminal, Statuses, TERMINAL_STATUSES
    <3>3. \/ requests'[r].status = "expired"
          \/ /\ requests'[r].status \in {"sent", "viewed", "completed", "declined"}
             /\ requests[r].status = "viewed" => requests'[r].status # "sent"
      BY <2>1, <3>1, StatusValue DEF Forward, FakeInv, FakeTypes, SeenStaysSeen
    <3> QED
      BY <2>1, <3>2, <3>3 DEF Rank
  <2> QED
    BY <2>1
<1> QED
  BY <1>1, <1>2, <1>3, PTL DEF FakeSpec, StatusForward

================================================================================
