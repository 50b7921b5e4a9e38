------------------------------- MODULE TypeProofs ------------------------------
(***************************************************************************)
(* Type correctness of SignatureService, for every value of its constants. *)
(***************************************************************************)
EXTENDS SignatureService, TLAPS

(***************************************************************************)
(* The type invariant. One lemma per part of the service; each says that   *)
(* the part's steps keep the variables in their types.                     *)
(***************************************************************************)
LEMMA InitTypeOK == Init => TypeOK
BY DbAssumption, ServiceAssumption, SMT
   DEF Init, TypeOK, DbInit, ProviderInit, CallsInit, PollsInit, DbTypeOK,
       ProviderTypeOK, CallsTypeOK, PollsTypeOK, Call, Poll, IdlePoll, CallPcs,
       Answers, PollPcs, Replies, Statuses, DocStates

\* A row that is inserted, or written back, is a row.
LEMMA NewRowType ==
  ASSUME DbTypeOK(Hooks), NEW k \in Keys, NEW p \in Payloads
  PROVE  NewRow(k, p) \in SignatureRequest
BY DbAssumption DEF DbTypeOK, NewRow, SignatureRequest, Statuses, SyncAges

\* A step that leaves the tables, or the provider, alone leaves them in type.
LEMMA DbTypeUnchanged ==
  ASSUME DbTypeOK(Hooks), UNCHANGED dbVars
  PROVE  DbTypeOK(Hooks)'
BY DEF DbTypeOK, dbVars

\* The same of the provider.
LEMMA ProviderTypeUnchanged ==
  ASSUME ProviderTypeOK, UNCHANGED providerVars
  PROVE  ProviderTypeOK'
BY DEF ProviderTypeOK, providerVars

\* The same of the clients' handlers.
LEMMA PollsTypeUnchanged ==
  ASSUME PollsTypeOK, UNCHANGED polls
  PROVE  PollsTypeOK'
BY DEF PollsTypeOK

\* What the two ways to update a call's local state keep.
LEMMA GotoType ==
  ASSUME CallsTypeOK, NEW c \in Calls, NEW from, NEW to \in CallPcs, Goto(c, from, to)
  PROVE  CallsTypeOK'
BY DEF CallsTypeOK, Goto, Call

\* An answer, with or without a resource, leaves a call in type.
LEMMA AnswerType ==
  ASSUME CallsTypeOK, NEW c \in Calls, NEW answer \in Answers,
         NEW row \in Calls \cup {NoCall}, NEW createdAt \in Nat,
         Answer(c, answer, row, createdAt)
  PROVE  CallsTypeOK'
BY DEF CallsTypeOK, Answer, Call, CallPcs

\* An error answer leaves a call in type.
LEMMA RefuseType ==
  ASSUME CallsTypeOK, NEW c \in Calls, NEW answer \in Answers, Refuse(c, answer)
  PROVE  CallsTypeOK'
BY AnswerType DEF Refuse

\* A document that moves and its webhook are in type.
LEMMA MoveType ==
  ASSUME ProviderTypeOK, NEW d \in Calls, NEW from, NEW to \in DocStates,
         NEW event \in EventTypes, Move(d, from, to, event)
  PROVE  ProviderTypeOK'
BY DEF ProviderTypeOK, Move, Emit, Hooks

\* Every step of a POST call keeps the types.
LEMMA CallStepType ==
  ASSUME TypeOK, NEW c \in Calls, CallArrives(c) \/ CallContinues(c)
  PROVE  TypeOK'
<1>1. DbTypeOK(Hooks) /\ ProviderTypeOK /\ CallsTypeOK /\ PollsTypeOK
  BY DEF TypeOK
<1>2. PollsTypeOK' /\ restarts' \in 0..MaxRestarts
  BY PollsTypeUnchanged DEF TypeOK, CallArrives, CallContinues
<1>3. ASSUME UNCHANGED <<dbVars, providerVars>>
      PROVE  DbTypeOK(Hooks)' /\ ProviderTypeOK'
  BY <1>1, <1>3, DbTypeUnchanged, ProviderTypeUnchanged
<1>4. CASE RejectRequest(c) \/ Replay(c) \/ ProviderFails(c) \/ DeliverCreated(c)
  <2>1. CallsTypeOK'
    <3>1. CASE RejectRequest(c) \/ ProviderFails(c)
      BY <1>1, <3>1, RefuseType DEF RejectRequest, ProviderFails, Answers
    <3>2. CASE Replay(c)
      <4>1. PICK r \in DOMAIN requests : \/ Answer(c, "Stored", r, requests[r].created)
                                        \/ Refuse(c, "KeyReused")
        BY <3>2 DEF Replay, WithKey
      <4>2. r \in Calls /\ requests[r].created \in Nat
        BY <1>1 DEF DbTypeOK, SignatureRequest
      <4> QED
        BY <1>1, <4>1, <4>2, AnswerType, RefuseType DEF Answers
    <3>3. CASE DeliverCreated(c)
      <4>1. calls' = [calls EXCEPT ![c].pc = "done", ![c].answer = "Created"]
        BY <3>3 DEF DeliverCreated
      <4>2. "done" \in CallPcs /\ "Created" \in Answers
        BY DEF CallPcs, Answers
      <4> QED
        BY <1>1, <4>1, <4>2 DEF CallsTypeOK, Call
    <3> QED
      BY <1>4, <3>1, <3>2, <3>3
  <2>2. UNCHANGED <<dbVars, providerVars>>
    BY <1>4 DEF RejectRequest, Replay, ProviderFails, DeliverCreated
  <2> QED
    BY <1>2, <1>3, <2>1, <2>2 DEF TypeOK
<1>5. CASE Accept(c) \/ FetchDocument(c) \/ PrepareDocument(c)
  <2>1. CallsTypeOK'
    BY <1>1, <1>5, GotoType, RefuseType
       DEF Accept, FetchDocument, PrepareDocument, CallPcs, AtProvider, Answers
  <2>2. UNCHANGED <<dbVars, providerVars>>
    BY <1>5 DEF Accept, FetchDocument, PrepareDocument
  <2> QED
    BY <1>2, <1>3, <2>1, <2>2 DEF TypeOK
<1>6. CASE CreateDocument(c)
  <2>1. CallsTypeOK' /\ DbTypeOK(Hooks)'
    BY <1>1, <1>6, GotoType, DbTypeUnchanged DEF CreateDocument, CallPcs, AtProvider
  <2>2. ProviderTypeOK'
    BY <1>1, <1>6 DEF CreateDocument, Draft, ProviderTypeOK, DocStates
  <2> QED
    BY <1>2, <2>1, <2>2 DEF TypeOK
<1>7. CASE SendDocument(c)
  <2>1. CallsTypeOK' /\ DbTypeOK(Hooks)'
    BY <1>1, <1>7, GotoType, DbTypeUnchanged DEF SendDocument, CallPcs, AtProvider
  <2>2. ProviderTypeOK'
    BY <1>1, <1>7, MoveType DEF SendDocument, Dispatch, DocStates, EventTypes
  <2> QED
    BY <1>2, <2>1, <2>2 DEF TypeOK
<1>8. CASE InsertRecord(c)
  <2>1. NewRow(calls[c].key, calls[c].payload) \in SignatureRequest
    BY <1>1, NewRowType DEF CallsTypeOK, Call
  <2>2. DbTypeOK(Hooks)'
    BY <1>1, <1>8, <2>1 DEF InsertRecord, Insert, DbTypeOK
  <2>3. CallsTypeOK'
    <3>1. today \in Nat
      BY <1>1, DbAssumption DEF DbTypeOK
    <3>2. CASE Hold(c)
      BY <1>1, <3>1, <3>2 DEF Hold, CallsTypeOK, Call, CallPcs
    <3> QED
      BY <1>1, <1>8, <3>2, RefuseType DEF InsertRecord, Answers
  <2>4. ProviderTypeOK'
    BY <1>1, <1>8, ProviderTypeUnchanged DEF InsertRecord
  <2> QED
    BY <1>2, <2>2, <2>3, <2>4 DEF TypeOK
<1> QED
  BY <1>4, <1>5, <1>6, <1>7, <1>8 DEF CallArrives, CallContinues, Arrive, Continue

\* The local state a client's handler may be given, and the row it writes.
LEMMA IdlePollType == IdlePoll \in Poll
BY DEF IdlePoll, Poll, PollPcs, Statuses, Replies

\* Concluding a request ends it or starts the download of a completed row.
LEMMA ConcludePoll ==
  ASSUME NEW p, NEW r, NEW wants, NEW status, Conclude(p, r, wants, status)
  PROVE  \/ EndPoll(p)
         \/ status = "completed" /\ polls' = [polls EXCEPT ![p] = Downloading(r)]
BY DEF Conclude

\* Concluding a request keeps the handlers in type.
LEMMA ConcludeType ==
  ASSUME PollsTypeOK, NEW p \in Pollers, NEW r \in Calls, NEW wants, NEW status,
         Conclude(p, r, wants, status)
  PROVE  PollsTypeOK'
<1>1. Downloading(r) \in Poll
  BY DEF Downloading, Poll, PollPcs, Statuses, Replies
<1> QED
  BY <1>1, IdlePollType, ConcludePoll DEF PollsTypeOK, EndPoll

\* The row a poll writes back is a row.
LEMMA SyncedType ==
  ASSUME NEW row \in SignatureRequest, NEW loaded, NEW age \in {"fresh", "stale"},
         NEW reply \in {"sent", "completed", "declined"}
  PROVE  Synced(row, loaded, reply, age) \in SignatureRequest
BY DEF Synced, SignatureRequest, Statuses, SyncAges

\* A reply is one of the three statuses get_status can make.
LEMMA GetStatusType ==
  ASSUME ProviderTypeOK, NEW d \in Calls
  PROVE  get_status(d) \in {"sent", "completed", "declined"}
BY DEF ProviderTypeOK, get_status, ApiStatus, STATUS_MAP, DocStates

\* Replacing a row by a row keeps the tables in type.
LEMMA RowUpdateType ==
  ASSUME DbTypeOK(Hooks), NEW r \in DOMAIN requests, NEW row \in SignatureRequest,
         requests' = [requests EXCEPT ![r] = row], UNCHANGED <<events, today>>
  PROVE  DbTypeOK(Hooks)'
BY DEF DbTypeOK

\* A client's request, up to its first await, keeps the types.
LEMMA PollStartType ==
  ASSUME TypeOK, NEW p \in Pollers, NEW r \in Calls, PollStarts(p, r)
  PROVE  TypeOK'
<1>1. DbTypeOK(Hooks) /\ ProviderTypeOK /\ CallsTypeOK /\ PollsTypeOK
  BY DEF TypeOK
<1>2. PICK wants \in {"status", "document"} :
        AnswerFromRow(p, r, wants) \/ AskProvider(p, r, wants)
  BY DEF PollStarts, StartPoll
<1>3. ProviderTypeOK' /\ CallsTypeOK' /\ restarts' \in 0..MaxRestarts
  BY <1>1, <1>2, ProviderTypeUnchanged
     DEF PollStarts, AnswerFromRow, AskProvider, CallsTypeOK, TypeOK
<1>4. CASE AnswerFromRow(p, r, wants)
  <2>1. PICK status \in Statuses :
          /\ requests' = [requests EXCEPT ![r].status = status]
          /\ Conclude(p, r, wants, status)
    BY <1>1, <1>4 DEF AnswerFromRow, DbTypeOK, SignatureRequest, Statuses
  <2>2. r \in DOMAIN requests /\ UNCHANGED <<events, today>>
    BY <1>4 DEF AnswerFromRow
  <2>3. [requests[r] EXCEPT !.status = status] \in SignatureRequest
    BY <1>1, <2>2 DEF DbTypeOK, SignatureRequest
  <2>4. DbTypeOK(Hooks)'
    BY <1>1, <2>1, <2>2, <2>3, RowUpdateType
  <2>5. PollsTypeOK'
    BY <1>1, <2>1, ConcludeType
  <2> QED
    BY <1>3, <2>4, <2>5 DEF TypeOK
<1>5. CASE AskProvider(p, r, wants)
  <2>1. DbTypeOK(Hooks)'
    BY <1>1, <1>5, DbTypeUnchanged DEF AskProvider
  <2>2. requests[r].status \in Statuses
    BY <1>1, <1>5 DEF AskProvider, DbTypeOK, SignatureRequest
  <2>3. PollsTypeOK'
    BY <1>1, <1>5, <2>2 DEF AskProvider, PollsTypeOK, Poll, PollPcs, Replies
  <2> QED
    BY <1>3, <2>1, <2>3 DEF TypeOK
<1> QED
  BY <1>2, <1>4, <1>5

\* A handler past its await has a reply: what FinishSync needs to write rows
\* of the right type.
HasReply == \A p \in Pollers : polls[p].pc = "replied" => polls[p].reply # "none"

\* FinishSync ends the poll, or refreshes the row with or without a write.
LEMMA FinishSyncCases ==
  ASSUME TypeOK, HasReply, NEW p \in Pollers, FinishSync(p)
  PROVE  \/ EndPoll(p) /\ UNCHANGED requests
         \/ /\ polls[p].id \in DOMAIN requests
            /\ \/ UNCHANGED requests
               \/ /\ polls[p].reply \in Replied
                  /\ \E age \in {"fresh", "stale"} : requests' =
                       [requests EXCEPT ![polls[p].id] =
                          Synced(@, polls[p].loaded, polls[p].reply, age)]
            /\ Conclude(p, polls[p].id, polls[p].wants, requests'[polls[p].id].status)
BY DEF FinishSync, TypeOK, PollsTypeOK, Poll, Replies, Failures, HasReply

\* A client's request, past an await, keeps the types.
LEMMA PollContinueType ==
  ASSUME TypeOK, HasReply, NEW p \in Pollers, PollContinues(p)
  PROVE  TypeOK'
<1>1. DbTypeOK(Hooks) /\ ProviderTypeOK /\ CallsTypeOK /\ PollsTypeOK
  BY DEF TypeOK
<1>2. UNCHANGED <<providerVars, calls, restarts, events, today>>
  BY DEF PollContinues, ContinuePoll, ProviderReplies, StatusCallFails, Reply,
         FinishSync, FinishDownload, dbVars
<1>3. ProviderTypeOK' /\ CallsTypeOK' /\ restarts' \in 0..MaxRestarts
  BY <1>1, <1>2, ProviderTypeUnchanged DEF CallsTypeOK, TypeOK
<1>4. CASE ProviderReplies(p) \/ StatusCallFails(p)
  <2>1. polls[p].pc = "asking" => polls[p].id \in Calls \cup {NoCall}
    BY <1>1 DEF PollsTypeOK, Poll
  <2>2. get_status(polls[p].id) \in Replied
    BY <1>1 DEF get_status, ApiStatus, STATUS_MAP, ProviderTypeOK, Replied
  <2>3. PICK reply \in Replies : Reply(p, reply)
    BY <1>4, <2>2 DEF ProviderReplies, StatusCallFails, Replies
  <2>4. PollsTypeOK'
    BY <1>1, <2>3 DEF Reply, PollsTypeOK, Poll, PollPcs
  <2> QED
    BY <1>1, <1>3, <2>3, <2>4, DbTypeUnchanged DEF Reply, TypeOK
<1>5. CASE FinishSync(p)
  <2>1. CASE EndPoll(p) /\ UNCHANGED requests
    BY <1>1, <1>2, <1>3, <2>1, IdlePollType, DbTypeUnchanged
       DEF EndPoll, PollsTypeOK, TypeOK, dbVars
  <2>2. CASE /\ polls[p].id \in DOMAIN requests
             /\ \/ UNCHANGED requests
                \/ /\ polls[p].reply \in Replied
                   /\ \E age \in {"fresh", "stale"} : requests' =
                        [requests EXCEPT ![polls[p].id] =
                           Synced(@, polls[p].loaded, polls[p].reply, age)]
             /\ Conclude(p, polls[p].id, polls[p].wants, requests'[polls[p].id].status)
    <3>1. DbTypeOK(Hooks)'
      <4>1. CASE UNCHANGED requests
        BY <1>1, <1>2, <4>1, DbTypeUnchanged DEF dbVars
      <4>2. CASE /\ polls[p].reply \in Replied
                 /\ \E age \in {"fresh", "stale"} : requests' =
                      [requests EXCEPT ![polls[p].id] =
                         Synced(@, polls[p].loaded, polls[p].reply, age)]
        <5>1. requests[polls[p].id] \in SignatureRequest
          BY <1>1, <2>2 DEF DbTypeOK
        <5>2. PICK row \in SignatureRequest :
                requests' = [requests EXCEPT ![polls[p].id] = row]
          BY <4>2, <5>1, SyncedType DEF Replied
        <5> QED
          BY <1>1, <1>2, <2>2, <5>2, RowUpdateType
      <4> QED
        BY <2>2, <4>1, <4>2
    <3>2. polls[p].id \in Calls /\ polls[p].wants \in {"status", "document"}
      BY <1>1, <2>2 DEF DbTypeOK, PollsTypeOK, Poll
    <3>3. PollsTypeOK'
      BY <1>1, <2>2, <3>2, ConcludeType
    <3> QED
      BY <1>3, <3>1, <3>3 DEF TypeOK
  <2> QED
    BY <1>5, <2>1, <2>2, FinishSyncCases
<1>6. CASE FinishDownload(p)
  BY <1>1, <1>3, <1>6, IdlePollType, DbTypeUnchanged
     DEF FinishDownload, EndPoll, PollsTypeOK, TypeOK
<1> QED
  BY <1>4, <1>5, <1>6 DEF PollContinues, ContinuePoll

\* The row a webhook writes is a row.
LEMMA NotifiedType ==
  ASSUME NEW row \in SignatureRequest, NEW status \in {"viewed", "completed", "declined"}
  PROVE  Notified(row, status) \in SignatureRequest
BY DEF Notified, SignatureRequest, Statuses

\* The webhook map yields only statuses of the schema.
LEMMA MapType ==
  ASSUME NEW e \in DOMAIN WEBHOOK_STATUS_MAP
  PROVE  WEBHOOK_STATUS_MAP[e] \in {"viewed", "completed", "declined"}
BY DEF WEBHOOK_STATUS_MAP

\* The webhook writes at most the row it names, and one event.
LEMMA WebhookStepType ==
  ASSUME TypeOK, NEW h \in hooks, WebhookArrives(h)
  PROVE  TypeOK'
<1>1. DbTypeOK(Hooks) /\ ProviderTypeOK /\ CallsTypeOK /\ PollsTypeOK
  BY DEF TypeOK
<1>2. ProviderTypeOK' /\ CallsTypeOK' /\ PollsTypeOK' /\ restarts' \in 0..MaxRestarts
  BY <1>1, ProviderTypeUnchanged, PollsTypeUnchanged
     DEF WebhookArrives, documenso_webhook, CallsTypeOK, TypeOK
<1>3. h \in Hooks /\ Owner(h) \in Calls \cup {NoCall}
  BY <1>1 DEF ProviderTypeOK, Hooks, Owner
<1>4. events' \subseteq ProviderEvent(Hooks) /\ today' \in 0..MaxDay
  BY <1>1, <1>3 DEF WebhookArrives, documenso_webhook, DbTypeOK, ProviderEvent
<1>5. /\ DOMAIN requests' \subseteq Calls
      /\ \A r \in DOMAIN requests' : requests'[r] \in SignatureRequest
  <2>1. CASE Owner(h) # NoCall /\ h.event \in DOMAIN WEBHOOK_STATUS_MAP
    <3>1. Owner(h) \in DOMAIN requests
      BY <2>1 DEF Owner
    <3>2. Notified(requests[Owner(h)], WEBHOOK_STATUS_MAP[h.event]) \in SignatureRequest
      BY <1>1, <2>1, <3>1, MapType, NotifiedType DEF DbTypeOK
    <3> QED
      BY <1>1, <2>1, <3>1, <3>2 DEF WebhookArrives, documenso_webhook, DbTypeOK
  <2>2. CASE ~(Owner(h) # NoCall /\ h.event \in DOMAIN WEBHOOK_STATUS_MAP)
    BY <1>1, <2>2 DEF WebhookArrives, documenso_webhook, DbTypeOK
  <2> QED
    BY <2>1, <2>2
<1> QED
  BY <1>2, <1>4, <1>5 DEF TypeOK, DbTypeOK

\* The steps outside the request handlers.
LEMMA PurgeStepType ==
  ASSUME TypeOK, PurgerWakes
  PROVE  TypeOK'
BY DEF TypeOK, PurgerWakes, purge_old_requests, Purgeable, DbTypeOK, ProviderTypeOK,
       CallsTypeOK, PollsTypeOK, providerVars

\* What the signer and the provider do keeps the types.
LEMMA DocumentStepType ==
  ASSUME TypeOK, NEW d \in Calls, DocumentMoves(d)
  PROVE  TypeOK'
<1>1. ProviderTypeOK'
  <2>1. CASE Open(d)
    BY <2>1 DEF Open, Emit, TypeOK, ProviderTypeOK, Hooks, EventTypes
  <2>2. CASE Sign(d) \/ Seal(d) \/ Reject(d) \/ Cancel(d)
    BY <2>2, MoveType DEF Sign, Seal, Reject, Cancel, DocStates, EventTypes, TypeOK
  <2> QED
    BY <2>1, <2>2 DEF DocumentMoves, Signing
<1> QED
  BY <1>1, DbTypeUnchanged, PollsTypeUnchanged DEF DocumentMoves, TypeOK, CallsTypeOK

\* The passing of days and seconds keeps the types.
LEMMA TimeStepType ==
  ASSUME TypeOK, DayPasses \/ \E r \in Calls : SecondsPass(r)
  PROVE  TypeOK'
<1>1. ProviderTypeOK' /\ CallsTypeOK' /\ PollsTypeOK' /\ restarts' \in 0..MaxRestarts
  BY ProviderTypeUnchanged, PollsTypeUnchanged
     DEF DayPasses, SecondsPass, CallsTypeOK, TypeOK
<1>2. CASE DayPasses
  <2>1. DOMAIN requests' = DOMAIN requests
    BY <1>2 DEF DayPasses, Tick
  <2>2. \A r \in DOMAIN requests : requests'[r] \in SignatureRequest
    BY <1>2 DEF DayPasses, Tick, TypeOK, DbTypeOK, SignatureRequest, SyncAges
  <2>3. events' = events /\ today' \in 0..MaxDay
    BY <1>2, DbAssumption DEF DayPasses, Tick, TypeOK, DbTypeOK
  <2> QED
    BY <1>1, <2>1, <2>2, <2>3 DEF TypeOK, DbTypeOK
<1>3. ASSUME NEW r \in Calls, SecondsPass(r)
      PROVE  DbTypeOK(Hooks)'
  <2>1. r \in DOMAIN requests /\ UNCHANGED <<events, today>>
    BY <1>3 DEF SecondsPass, CacheLapses
  <2>2. [requests[r] EXCEPT !.synced = "stale"] \in SignatureRequest
    BY <2>1 DEF TypeOK, DbTypeOK, SignatureRequest, SyncAges
  <2> QED
    BY <1>3, <2>1, <2>2, RowUpdateType DEF SecondsPass, CacheLapses, TypeOK
<1> QED
  BY <1>1, <1>2, <1>3 DEF TypeOK

\* A crash keeps the types.
LEMMA RestartType ==
  ASSUME TypeOK, Restart
  PROVE  TypeOK'
<1>1. CallsTypeOK'
  BY DEF TypeOK, Restart, CallsTypeOK, Call, CallPcs, Answers
<1>2. PollsTypeOK'
  BY IdlePollType DEF Restart, PollsTypeOK
<1>3. restarts' \in 0..MaxRestarts
  <2>1. restarts \in 0..MaxRestarts
    BY DEF TypeOK
  <2>2. restarts < MaxRestarts /\ restarts' = restarts + 1
    BY DEF Restart
  <2> QED
    BY <2>1, <2>2, ServiceAssumption DEF ServiceAssumption
<1>4. DbTypeOK(Hooks)' /\ ProviderTypeOK'
  BY DbTypeUnchanged, ProviderTypeUnchanged DEF TypeOK, Restart
<1> QED
  BY <1>1, <1>2, <1>3, <1>4 DEF TypeOK

\* No step leaves a handler past its await without a reply.
LEMMA HasReplyStep ==
  ASSUME TypeOK, HasReply, [Next]_vars
  PROVE  HasReply'
<1>1. CASE UNCHANGED polls
  BY <1>1 DEF HasReply
<1>2. CASE Restart
  BY <1>2 DEF Restart, HasReply, IdlePoll
<1>3. ASSUME NEW p \in Pollers,
             PollContinues(p) \/ \E r \in Calls : PollStarts(p, r)
      PROVE  HasReply'
  <2>1. CASE ProviderReplies(p) \/ StatusCallFails(p)
    <3>1. get_status(polls[p].id) # "none"
      BY DEF TypeOK, ProviderTypeOK, get_status, ApiStatus, STATUS_MAP
    <3>2. PICK reply : Reply(p, reply) /\ reply # "none"
      BY <2>1, <3>1 DEF ProviderReplies, StatusCallFails, Failures
    <3> QED
      BY <3>2 DEF Reply, HasReply, TypeOK, PollsTypeOK, Poll
  <2>2. CASE ~(ProviderReplies(p) \/ StatusCallFails(p))
    <3>1. CASE \E r, wants : AskProvider(p, r, wants)
      BY <3>1 DEF AskProvider, HasReply, TypeOK, PollsTypeOK
    <3>2. CASE EndPoll(p) \/ \E r, wants, status : Conclude(p, r, wants, status)
      <4>1. PICK poll : /\ polls' = [polls EXCEPT ![p] = poll]
                        /\ poll = IdlePoll \/ \E r : poll = Downloading(r)
        BY <3>2, ConcludePoll DEF EndPoll
      <4>2. poll.pc # "replied"
        BY <4>1 DEF IdlePoll, Downloading
      <4> QED
        BY <4>1, <4>2 DEF HasReply, TypeOK, PollsTypeOK
    <3>3. CASE PollContinues(p)
      BY <2>2, <3>2, <3>3, FinishSyncCases DEF PollContinues, ContinuePoll, FinishDownload
    <3>4. CASE \E r \in Calls : PollStarts(p, r)
      <4>1. PICK r \in Calls, wants \in {"status", "document"} :
              AnswerFromRow(p, r, wants) \/ AskProvider(p, r, wants)
        BY <3>4 DEF PollStarts, StartPoll
      <4>2. AnswerFromRow(p, r, wants) => \E status : Conclude(p, r, wants, status)
        BY DEF AnswerFromRow
      <4> QED
        BY <3>1, <3>2, <4>1, <4>2
    <3> QED
      BY <1>3, <3>3, <3>4
  <2> QED
    BY <2>1, <2>2
<1>4. ASSUME ~Restart, ~\E p \in Pollers : PollContinues(p) \/ \E r \in Calls : PollStarts(p, r)
      PROVE  UNCHANGED polls
  BY <1>4 DEF Next, vars, CallArrives, CallContinues, WebhookArrives, PurgerWakes,
              DocumentMoves, DayPasses, SecondsPass, Rest
<1> QED
  BY <1>1, <1>2, <1>3, <1>4

\* Every step keeps the types: the induction step of TypeCorrect.
LEMMA TypeStep ==
  ASSUME TypeOK, HasReply, [Next]_vars
  PROVE  TypeOK'
<1>1. CASE UNCHANGED vars
  BY <1>1, DbTypeUnchanged, ProviderTypeUnchanged, PollsTypeUnchanged
     DEF vars, dbVars, providerVars, TypeOK, CallsTypeOK
<1>2. CASE Next
  BY <1>1, <1>2, CallStepType, PollContinueType, PollStartType, WebhookStepType,
     PurgeStepType, DocumentStepType, TimeStepType, RestartType DEF Next, Rest
<1> QED
  BY <1>1, <1>2

\* Every variable keeps its type, for any calls, keys, payloads and clients.
THEOREM TypeCorrect == Spec => []TypeOK
<1>1. Init => TypeOK /\ HasReply
  BY InitTypeOK DEF Init, PollsInit, IdlePoll, HasReply
<1>2. TypeOK /\ HasReply /\ [Next]_vars => TypeOK' /\ HasReply'
  BY TypeStep, HasReplyStep
<1> QED
  BY <1>1, <1>2, PTL DEF Spec

================================================================================
