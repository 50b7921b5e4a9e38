--------------------------- MODULE RefinementProofs ----------------------------
(***************************************************************************)
(* SignatureService implements IdempotentStore, for every value of its     *)
(* constants. CreationInv makes the key's record unique; what is added is  *)
(* that a call holds no resource before it has one to hold.                *)
(***************************************************************************)
EXTENDS SafetyProofs, StoreRefinement

ReplyInv ==
  \A c \in Calls :
    /\ calls[c].pc \notin {"answering", "done"} => calls[c].row = NoCall
    /\ calls[c].pc = "answering" => calls[c].row = c

\* A call's step changes no other call.
LEMMA OtherCalls ==
  ASSUME TypeInv, NEW c \in Calls, CallArrives(c) \/ CallContinues(c),
         NEW d \in Calls, d # c
  PROVE  calls'[d] = calls[d]
<1>1. calls \in [Calls -> Call]
  BY DEF TypeInv, TypeOK, CallsTypeOK
<1> QED
  BY <1>1 DEF CallArrives, CallContinues, Arrive, Continue, RejectRequest, Replay, Accept,
     FetchDocument, CreateDocument, PrepareDocument, SendDocument, ProviderFails,
     InsertRecord, Hold, DeliverCreated, Refuse, Answer, Goto

\* What a call's step does to it: it moves on, is refused, is given the stored
\* record, commits its own, or delivers it.
MovesOn(c) ==
  /\ calls[c].pc \notin {"answering", "done"} /\ calls'[c].pc \notin {"answering", "done"}
  /\ calls'[c].row = calls[c].row
  /\ UNCHANGED requests

IsRefused(c) ==
  /\ calls[c].pc \notin {"answering", "done"}
  /\ calls'[c].pc = "done" /\ calls'[c].row = NoCall
  /\ UNCHANGED requests

IsReplayed(c) ==
  /\ calls[c].pc = "idle" /\ calls'[c].pc = "done"
  /\ calls'[c].row \in WithKey(calls[c].key)
  /\ requests[calls'[c].row].payload = calls[c].payload
  /\ UNCHANGED requests

IsCommitted(c) ==
  /\ calls[c].pc = "accepted" /\ calls'[c].pc = "answering"
  /\ Born(c) /\ calls'[c].row = c

IsDelivered(c) ==
  /\ calls[c].pc = "answering" /\ calls'[c].pc = "done"
  /\ calls'[c].row = calls[c].row
  /\ UNCHANGED requests

\* These five are all.
LEMMA CallMove ==
  ASSUME TypeInv, NEW c \in Calls, CallArrives(c) \/ CallContinues(c)
  PROVE  MovesOn(c) \/ IsRefused(c) \/ IsReplayed(c) \/ IsCommitted(c) \/ IsDelivered(c)
<1>1. calls \in [Calls -> Call]
  BY DEF TypeInv, TypeOK, CallsTypeOK
<1>2. ASSUME NEW from, NEW to, Goto(c, from, to)
      PROVE  calls[c].pc = from /\ calls'[c].pc = to /\ calls'[c].row = calls[c].row
  BY <1>1, <1>2 DEF Goto, Call
<1>3. ASSUME NEW answer, NEW row, NEW createdAt, Answer(c, answer, row, createdAt)
      PROVE  calls'[c].pc = "done" /\ calls'[c].row = row
  BY <1>1, <1>3 DEF Answer, Call
<1>4. ASSUME NEW answer, Refuse(c, answer)
      PROVE  calls'[c].pc = "done" /\ calls'[c].row = NoCall
  BY <1>3, <1>4 DEF Refuse
<1>5. CASE RejectRequest(c) \/ ProviderFails(c)
  BY <1>4, <1>5 DEF RejectRequest, ProviderFails, AtProvider, IsRefused, dbVars
<1>6. CASE Replay(c)
  <2>1. PICK r \in WithKey(calls[c].key) :
          IF requests[r].payload = calls[c].payload
          THEN Answer(c, "Stored", r, requests[r].created)
          ELSE Refuse(c, "KeyReused")
    BY <1>6 DEF Replay
  <2>2. calls[c].pc = "idle" /\ UNCHANGED requests
    BY <1>6 DEF Replay, dbVars
  <2> QED
    BY <1>3, <1>4, <2>1, <2>2 DEF IsReplayed, IsRefused
<1>7. CASE Accept(c) \/ FetchDocument(c) \/ CreateDocument(c) \/ PrepareDocument(c)
           \/ SendDocument(c)
  BY <1>2, <1>4, <1>7 DEF Accept, FetchDocument, CreateDocument, PrepareDocument,
     SendDocument, MovesOn, IsRefused, dbVars
<1>8. CASE InsertRecord(c)
  <2>1. CASE WithKey(calls[c].key) = {}
    <3>1. calls[c].pc = "accepted" /\ Hold(c) /\ Born(c)
      BY <1>8, <2>1 DEF InsertRecord, Born
    <3> QED
      BY <1>1, <3>1 DEF Hold, Call, IsCommitted
  <2>2. CASE WithKey(calls[c].key) # {}
    BY <1>4, <1>8, <2>2 DEF InsertRecord, IsRefused
  <2> QED
    BY <2>1, <2>2
<1>9. CASE DeliverCreated(c)
  BY <1>1, <1>9 DEF DeliverCreated, Call, IsDelivered, dbVars
<1> QED
  BY <1>5, <1>6, <1>7, <1>8, <1>9 DEF CallArrives, CallContinues, Arrive, Continue

\* A crash ends the calls in flight and keeps what they hold.
LEMMA RestartMove ==
  ASSUME TypeInv, Restart, NEW c \in Calls
  PROVE  /\ calls'[c].row = calls[c].row
         /\ calls'[c].pc = IF InFlight(c) THEN "done" ELSE calls[c].pc
BY DEF TypeInv, TypeOK, CallsTypeOK, Call, Restart, InFlight

\* Every other step leaves the calls alone.
LEMMA CallsAlone ==
  ASSUME [Next]_vars, ~Restart, ~\E c \in Calls : CallArrives(c) \/ CallContinues(c)
  PROVE  UNCHANGED calls
BY DEF Next, PollContinues, PollStarts, WebhookArrives, PurgerWakes, DocumentMoves,
       DayPasses, SecondsPass, Rest, vars

\* Every step keeps ReplyInv.
LEMMA ReplyStep ==
  ASSUME TypeInv, ReplyInv, [Next]_vars
  PROVE  ReplyInv'
<1>1. ASSUME NEW c \in Calls, CallArrives(c) \/ CallContinues(c)
      PROVE  ReplyInv'
  <2>1. ASSUME NEW d \in Calls
        PROVE  /\ calls'[d].pc \notin {"answering", "done"} => calls'[d].row = NoCall
               /\ calls'[d].pc = "answering" => calls'[d].row = d
    <3>1. CASE d # c
      BY <1>1, <2>1, <3>1, OtherCalls DEF ReplyInv
    <3>2. CASE d = c
      BY <1>1, <3>2, CallMove
         DEF ReplyInv, MovesOn, IsRefused, IsReplayed, IsCommitted, IsDelivered
    <3> QED
      BY <3>1, <3>2
  <2> QED
    BY <2>1 DEF ReplyInv
<1>2. CASE Restart
  BY <1>2, RestartMove DEF ReplyInv, InFlight
<1> QED
  BY <1>1, <1>2, CallsAlone DEF ReplyInv

(***************************************************************************)
(* The mapping. The store of the tables has each record under its key; a   *)
(* call's reply depends on its own state only.                             *)
(***************************************************************************)
LEMMA StoreAt ==
  ASSUME KeyUnique, NEW r \in DOMAIN requests
  PROVE  requests[r].key \in DOMAIN StoreOf /\ StoreOf[requests[r].key] = r
<1> DEFINE found == CHOOSE s \in DOMAIN requests : requests[s].key = requests[r].key
<1>1. found \in DOMAIN requests /\ requests[found].key = requests[r].key
  OBVIOUS
<1>2. requests[r].key \in DOMAIN StoreOf /\ StoreOf[requests[r].key] = found
  BY DEF StoreOf
<1> QED
  BY <1>1, <1>2 DEF KeyUnique

\* A key in use has a record.
LEMMA StoreKeys == DOMAIN StoreOf = {requests[r].key : r \in DOMAIN requests}
BY DEF StoreOf

\* Steps that keep the records and their keys keep the store.
LEMMA StoreKept ==
  ASSUME KeyUnique, KeyUnique', DOMAIN requests' = DOMAIN requests,
         \A r \in DOMAIN requests : requests'[r].key = requests[r].key
  PROVE  StoreOf' = StoreOf
<1>1. DOMAIN StoreOf' = DOMAIN StoreOf
  BY DEF StoreOf
<1>2. ASSUME NEW k \in DOMAIN StoreOf
      PROVE  StoreOf'[k] = StoreOf[k]
  <2>1. PICK r \in DOMAIN requests : requests[r].key = k
    BY <1>2, StoreKeys
  <2>2. StoreOf[k] = r
    BY <2>1, StoreAt
  <2>3. StoreOf'[k] = r
    BY <2>1 DEF StoreOf, KeyUnique
  <2> QED
    BY <2>2, <2>3
<1>3. StoreOf = [k \in DOMAIN StoreOf |-> StoreOf[k]]
      /\ StoreOf' = [k \in DOMAIN StoreOf' |-> StoreOf'[k]]
  BY DEF StoreOf
<1> QED
  BY <1>1, <1>2, <1>3

\* No step changes what a call asks.
LEMMA AskedKept ==
  ASSUME TypeInv, [Next]_vars
  PROVE  AskedOf' = AskedOf
BY CallStep DEF AskedOf, CallSteps

\* What a call's step is to its reply.
LEMMA ReplyOfMove ==
  ASSUME TypeInv, ReplyInv, NEW c \in Calls
  PROVE  /\ MovesOn(c) \/ IsDelivered(c) => ReplyOf(c)' = ReplyOf(c)
         /\ IsRefused(c) => ReplyOf(c) = Store!Pending /\ ReplyOf(c)' = Store!Refused
         /\ IsReplayed(c) =>
              /\ ReplyOf(c) = Store!Pending
              /\ calls'[c].row \in DOMAIN requests
              /\ ReplyOf(c)' = Store!Given(calls'[c].row)
         /\ IsCommitted(c) => ReplyOf(c) = Store!Pending /\ ReplyOf(c)' = Store!Given(c)
<1>1. DOMAIN requests \subseteq Calls /\ NoCall \notin Calls
  BY IdAssumption DEF TypeInv, TypeOK, DbTypeOK
<1>2. calls[c].pc \notin {"answering", "done"} => ReplyOf(c) = Store!Pending
  BY DEF ReplyInv, ReplyOf, Store!Pending
<1>3. MovesOn(c) => ReplyOf(c)' = ReplyOf(c)
  BY DEF MovesOn, ReplyOf
<1>4. IsDelivered(c) => ReplyOf(c)' = ReplyOf(c)
  BY <1>1 DEF IsDelivered, ReplyInv, ReplyOf
<1>5. IsRefused(c) => ReplyOf(c)' = Store!Refused
  BY DEF IsRefused, ReplyOf, Store!Refused
<1>6. IsReplayed(c) => /\ calls'[c].row \in DOMAIN requests
                       /\ ReplyOf(c)' = Store!Given(calls'[c].row)
  BY <1>1 DEF IsReplayed, WithKey, ReplyOf, Store!Given
<1>7. IsCommitted(c) => ReplyOf(c)' = Store!Given(c)
  BY <1>1 DEF IsCommitted, ReplyOf, Store!Given
<1> QED
  BY <1>2, <1>3, <1>4, <1>5, <1>6, <1>7 DEF IsRefused, IsReplayed, IsCommitted

(***************************************************************************)
(* The steps. Each maps to a step of the store or to a stutter.            *)
(***************************************************************************)
RefInv == TypeInv /\ CreationInv /\ ReplyInv

\* Steps that keep the records, their keys and the replies are stutters.
LEMMA StutterMap ==
  ASSUME RefInv, [Next]_vars, DOMAIN requests' = DOMAIN requests,
         \A c \in Calls : ReplyOf(c)' = ReplyOf(c)
  PROVE  UNCHANGED Store!vars
<1>1. KeyUnique /\ KeyUnique'
  BY CreationStep DEF RefInv, CreationInv
<1>2. \A r \in DOMAIN requests : requests'[r].key = requests[r].key
  BY RowStep, NotReborn, RowIdentity DEF RefInv
<1>3. StoreOf' = StoreOf
  BY <1>1, <1>2, StoreKept
<1>4. RepliesOf' = RepliesOf
  BY DEF RepliesOf
<1> QED
  BY <1>3, <1>4, AskedKept DEF RefInv, Store!vars

\* A step of one call on its reply.
LEMMA RepliesMap ==
  ASSUME TypeInv, NEW c \in Calls, CallArrives(c) \/ CallContinues(c)
  PROVE  RepliesOf' = [RepliesOf EXCEPT ![c] = ReplyOf(c)']
<1>1. \A d \in Calls : d # c => ReplyOf(d)' = ReplyOf(d)
  BY OtherCalls DEF ReplyOf
<1> QED
  BY <1>1 DEF RepliesOf

\* A step of a POST call is a step of the store on that call, or a stutter.
LEMMA CallMap ==
  ASSUME RefInv, NEW c \in Calls, CallArrives(c) \/ CallContinues(c)
  PROVE  [Store!Next]_(Store!vars)
<1>1. [Next]_vars /\ TypeInv /\ CreationInv /\ ReplyInv /\ KeyUnique
  BY DEF Next, RefInv, CreationInv
<1>2. AskedOf' = AskedOf /\ RepliesOf' = [RepliesOf EXCEPT ![c] = ReplyOf(c)']
  BY <1>1, AskedKept, RepliesMap
<1>3. CASE MovesOn(c) \/ IsDelivered(c)
  <2>1. \A d \in Calls : ReplyOf(d)' = ReplyOf(d)
    BY <1>1, <1>3, OtherCalls, ReplyOfMove DEF ReplyOf
  <2>2. UNCHANGED requests
    BY <1>3 DEF MovesOn, IsDelivered
  <2> QED
    BY <1>1, <2>1, <2>2, StutterMap
<1>4. ASSUME UNCHANGED requests
      PROVE  StoreOf' = StoreOf
  BY <1>4 DEF StoreOf
<1>5. CASE IsRefused(c)
  <2>1. RepliesOf[c] = Store!Pending /\ ReplyOf(c)' = Store!Refused
    BY <1>1, <1>5, ReplyOfMove DEF RepliesOf
  <2>2. RepliesOf' = [d \in Calls |-> IF d \in {c} THEN Store!Refused ELSE RepliesOf[d]]
    BY <1>2, <2>1 DEF RepliesOf
  <2>3. Store!Refuse({c})
    BY <1>2, <1>4, <1>5, <2>1, <2>2 DEF IsRefused, Store!Refuse
  <2> QED
    BY <2>3 DEF Store!Next
<1>6. CASE IsReplayed(c)
  <2> DEFINE r == calls'[c].row
  <2>1. /\ RepliesOf[c] = Store!Pending
        /\ r \in DOMAIN requests /\ ReplyOf(c)' = Store!Given(r)
    BY <1>1, <1>6, ReplyOfMove DEF RepliesOf
  <2>2. r \in Calls /\ requests[r].key = calls[c].key /\ requests[r].payload = calls[c].payload
    BY <1>1, <1>6, <2>1 DEF IsReplayed, WithKey, TypeInv, TypeOK, DbTypeOK
  <2>3. calls[c].key \in DOMAIN StoreOf /\ StoreOf[calls[c].key] = r
    BY <1>1, <2>1, <2>2, StoreAt
  <2>4. AskedOf[c].key = calls[c].key /\ AskedOf[r].payload = AskedOf[c].payload
    BY <1>1, <2>1, <2>2 DEF AskedOf, CreationInv, RowsOfCalls
  <2>5. Store!Replay(c)
    BY <1>2, <1>4, <1>6, <2>1, <2>3, <2>4 DEF IsReplayed, Store!Replay
  <2> QED
    BY <2>5 DEF Store!Next
<1>7. CASE IsCommitted(c)
  <2>1. RepliesOf[c] = Store!Pending /\ ReplyOf(c)' = Store!Given(c)
    BY <1>1, <1>7, ReplyOfMove DEF RepliesOf
  <2>2. AskedOf[c].key = calls[c].key /\ calls[c].key \notin DOMAIN StoreOf
    BY <1>7, StoreKeys DEF AskedOf, IsCommitted, Born, WithKey
  <2>3. StoreOf' = [k \in DOMAIN StoreOf \cup {calls[c].key} |->
                      IF k = calls[c].key THEN c ELSE StoreOf[k]]
    <3>1. /\ DOMAIN requests' = DOMAIN requests \cup {c}
          /\ requests'[c].key = calls[c].key
          /\ c \notin DOMAIN requests
          /\ \A s \in DOMAIN requests : requests'[s] = requests[s]
      BY <1>1, <1>7, BornRow DEF IsCommitted, Born, Insert, WithKey, CreationInv, RowsOfCalls
    <3>2. DOMAIN StoreOf' = DOMAIN StoreOf \cup {calls[c].key}
      BY <3>1 DEF StoreOf
    <3>3. StoreOf'[calls[c].key] = c
      BY <3>1, <2>2, StoreKeys DEF StoreOf
    <3>4. ASSUME NEW k \in DOMAIN StoreOf, k # calls[c].key
          PROVE  StoreOf'[k] = StoreOf[k]
      <4>1. PICK s \in DOMAIN requests : requests[s].key = k
        BY <3>4, StoreKeys
      <4>2. StoreOf[k] = s
        BY <1>1, <4>1, StoreAt
      <4>3. KeyUnique'
        BY <1>1, CreationStep DEF CreationInv
      <4>4. s \in DOMAIN requests' /\ requests'[s].key = k
        BY <3>1, <4>1
      <4>5. StoreOf'[k] = s
        BY <4>3, <4>4 DEF StoreOf, KeyUnique
      <4> QED
        BY <4>2, <4>5
    <3>5. StoreOf' = [k \in DOMAIN StoreOf' |-> StoreOf'[k]]
      BY DEF StoreOf
    <3> QED
      BY <2>2, <3>2, <3>3, <3>4, <3>5
  <2>4. Store!Create(c)
    BY <1>2, <2>1, <2>2, <2>3 DEF Store!Create
  <2> QED
    BY <2>4 DEF Store!Next
<1> QED
  BY <1>1, <1>3, <1>5, <1>6, <1>7, CallMove

\* A step that only deletes records forgets their keys.
LEMMA ForgetMap ==
  ASSUME RefInv, UNCHANGED calls, DOMAIN requests' \subseteq DOMAIN requests,
         \A r \in DOMAIN requests' : requests'[r] = requests[r]
  PROVE  [Store!Next]_(Store!vars)
<1> DEFINE gone == {requests[r].key : r \in DOMAIN requests \ DOMAIN requests'}
<1>1. TypeInv /\ KeyUnique
  BY DEF RefInv, CreationInv
<1>2. AskedOf' = AskedOf /\ RepliesOf' = RepliesOf
  BY DEF AskedOf, RepliesOf, ReplyOf
<1>3. gone \in SUBSET Keys
  BY <1>1 DEF TypeInv, TypeOK, DbTypeOK, SignatureRequest
<1>4. StoreOf' = [k \in DOMAIN StoreOf \ gone |-> StoreOf[k]]
  <2>1. DOMAIN StoreOf' = DOMAIN StoreOf \ gone
    <3>1. DOMAIN StoreOf' = {requests[r].key : r \in DOMAIN requests'}
      BY DEF StoreOf
    <3> QED
      BY <1>1, <3>1, StoreKeys DEF KeyUnique
  <2>2. ASSUME NEW k \in DOMAIN StoreOf', k \in DOMAIN StoreOf
        PROVE  StoreOf'[k] = StoreOf[k]
    <3>1. PICK r \in DOMAIN requests' : requests'[r].key = k
      BY <2>2 DEF StoreOf
    <3>2. r \in DOMAIN requests /\ requests[r].key = k
      BY <3>1
    <3>3. StoreOf[k] = r
      BY <1>1, <3>2, StoreAt
    <3>4. StoreOf'[k] = r
      BY <1>1, <3>1 DEF StoreOf, KeyUnique
    <3> QED
      BY <3>3, <3>4
  <2>3. StoreOf' = [k \in DOMAIN StoreOf' |-> StoreOf'[k]]
    BY DEF StoreOf
  <2> QED
    BY <2>1, <2>2, <2>3
<1>5. Store!Forget(gone)
  BY <1>2, <1>4 DEF Store!Forget
<1> QED
  BY <1>3, <1>5 DEF Store!Next

\* So does the purge.
LEMMA PurgeMap ==
  ASSUME RefInv, PurgerWakes
  PROVE  [Store!Next]_(Store!vars)
BY ForgetMap DEF PurgerWakes, purge_old_requests

\* A crash refuses the calls in flight that hold nothing.
LEMMA RestartMap ==
  ASSUME RefInv, Restart
  PROVE  [Store!Next]_(Store!vars)
<1> DEFINE lost == {c \in Calls : InFlight(c) /\ calls[c].row = NoCall}
<1>1. [Next]_vars /\ TypeInv /\ UNCHANGED requests
  BY DEF Next, RefInv, Restart, dbVars
<1>2. StoreOf' = StoreOf /\ AskedOf' = AskedOf
  BY <1>1, AskedKept DEF StoreOf
<1>3. ASSUME NEW c \in Calls
      PROVE  /\ c \in lost => ReplyOf(c) = Store!Pending /\ ReplyOf(c)' = Store!Refused
             /\ c \notin lost => ReplyOf(c)' = ReplyOf(c)
  <2>1. /\ calls'[c].row = calls[c].row
        /\ calls'[c].pc = IF InFlight(c) THEN "done" ELSE calls[c].pc
    BY <1>1, RestartMove
  <2> QED
    BY <2>1 DEF InFlight, ReplyOf, Store!Pending, Store!Refused
<1>4. \A c \in lost : RepliesOf[c] = Store!Pending
  BY <1>3 DEF RepliesOf
<1>5. RepliesOf' = [c \in Calls |-> IF c \in lost THEN Store!Refused ELSE RepliesOf[c]]
  BY <1>3 DEF RepliesOf
<1>6. Store!Refuse(lost)
  BY <1>2, <1>4, <1>5 DEF Store!Refuse
<1> QED
  BY <1>6 DEF Store!Next

\* Only a POST call inserts a record and only the purge deletes one.
LEMMA RecordsStay ==
  ASSUME TypeInv, [Next]_vars, ~PurgerWakes,
         ~\E c \in Calls : CallArrives(c) \/ CallContinues(c)
  PROVE  DOMAIN requests' = DOMAIN requests
<1>1. ASSUME NEW p \in Pollers, PollContinues(p)
      PROVE  DOMAIN requests' = DOMAIN requests
  <2>1. CASE FinishSync(p)
    BY <2>1, FinishSyncCases DEF TypeInv
  <2>2. CASE ~FinishSync(p)
    BY <1>1, <2>2 DEF PollContinues, ContinuePoll, ProviderReplies, StatusCallFails, Reply,
                      FinishDownload, dbVars
  <2> QED
    BY <2>1, <2>2
<1>2. ASSUME NEW p \in Pollers, NEW r \in Calls, PollStarts(p, r)
      PROVE  DOMAIN requests' = DOMAIN requests
  BY <1>2 DEF PollStarts, StartPoll, AnswerFromRow, AskProvider, dbVars
<1>3. ASSUME NEW h \in hooks, WebhookArrives(h)
      PROVE  DOMAIN requests' = DOMAIN requests
  BY <1>3 DEF WebhookArrives, documenso_webhook
<1>4. CASE \/ DayPasses \/ Restart \/ Rest \/ UNCHANGED vars
           \/ \E r \in Calls : SecondsPass(r) \/ DocumentMoves(r)
  BY <1>4 DEF DayPasses, Tick, SecondsPass, CacheLapses, DocumentMoves, Restart, Rest, vars,
              dbVars
<1> QED
  BY <1>1, <1>2, <1>3, <1>4 DEF Next

\* The clients, the webhook, the signer and time are stutters of the store.
LEMMA OtherMap ==
  ASSUME RefInv, [Next]_vars, ~Restart, ~PurgerWakes,
         ~\E c \in Calls : CallArrives(c) \/ CallContinues(c)
  PROVE  UNCHANGED Store!vars
<1>1. DOMAIN requests' = DOMAIN requests
  BY RecordsStay DEF RefInv
<1>2. \A c \in Calls : ReplyOf(c)' = ReplyOf(c)
  BY CallsAlone DEF ReplyOf
<1> QED
  BY <1>1, <1>2, StutterMap

\* Every step of the service is a step of the store or a stutter.
LEMMA StepMap ==
  ASSUME RefInv, [Next]_vars
  PROVE  [Store!Next]_(Store!vars)
BY CallMap, PurgeMap, RestartMap, OtherMap

\* The service starts with an empty store and every call pending.
LEMMA InitMap ==
  ASSUME Init
  PROVE  Store!Init
<1>1. calls \in [Calls -> [pc : {"idle"}, key : Keys, payload : Payloads,
                           answer : {"none"}, row : {NoCall}, createdAt : {0}]]
  BY DEF Init, CallsInit
<1>2. StoreOf = [k \in {} |-> NoCall]
  BY DEF Init, DbInit, StoreOf
<1>3. AskedOf \in [Calls -> [key : Keys, payload : Payloads]]
  BY <1>1 DEF AskedOf
<1>4. RepliesOf = [c \in Calls |-> Store!Pending]
  <2>1. ASSUME NEW c \in Calls
        PROVE  ReplyOf(c) = Store!Pending
    BY <1>1 DEF ReplyOf, Store!Pending
  <2> QED
    BY <2>1 DEF RepliesOf
<1> QED
  BY <1>2, <1>3, <1>4 DEF Store!Init

\* A call in flight holds nothing until its record is committed.
LEMMA ReplyInvariant == Spec => []ReplyInv
<1>1. Init => ReplyInv
  BY DEF Init, CallsInit, ReplyInv
<1>2. TypeInv /\ ReplyInv /\ [Next]_vars => ReplyInv'
  BY ReplyStep
<1> QED
  BY <1>1, <1>2, TypeInvariant, PTL DEF Spec

\* Overlapping calls, replays, failures, lost replies, crashes and purges of
\* the service all look like calls made one at a time on IdempotentStore.
THEOREM StoreImplemented == Spec => ImplementsStore
<1>1. Init => Store!Init
  BY InitMap
<1>2. TypeInv /\ CreationInv /\ ReplyInv /\ [Next]_vars => [Store!Next]_(Store!vars)
  BY StepMap DEF RefInv
<1> QED
  BY <1>1, <1>2, TypeInvariant, CreationInvariant, ReplyInvariant, PTL
     DEF Spec, ImplementsStore, Store!Spec

================================================================================
