------------------------------ MODULE SafetyProofs -----------------------------
(***************************************************************************)
(* The safety properties of SignatureService, for every value of its       *)
(* constants. First what one step may do to a row, a call, a document and  *)
(* a poll; then one inductive invariant per group of properties.           *)
(***************************************************************************)
EXTENDS TypeProofs

TypeInv == TypeOK /\ HasReply

\* TypeCorrect with the part that makes it inductive.
LEMMA TypeInvariant == Spec => []TypeInv
<1>1. Init => TypeInv
  BY InitTypeOK DEF TypeInv, Init, PollsInit, IdlePoll, HasReply
<1>2. TypeInv /\ [Next]_vars => TypeInv'
  BY TypeStep, HasReplyStep DEF TypeInv
<1> QED
  BY <1>1, <1>2, PTL DEF Spec

(***************************************************************************)
(* What may happen to a row in one step: it is inserted, it keeps its      *)
(* status, it expires, a poll writes it, a webhook writes it.              *)
(***************************************************************************)
Born(r) ==
  /\ calls[r].pc = "accepted"
  /\ WithKey(calls[r].key) = {}
  /\ Insert(r, NewRow(calls[r].key, calls[r].payload))

Kept(r) ==
  /\ r \in DOMAIN requests
  /\ \E age \in SyncAges : requests'[r] = [requests[r] EXCEPT !.synced = age]

Expires(r) ==
  /\ r \in DOMAIN requests
  /\ ~IsTerminal(requests[r]) /\ IsOverdue(requests[r])
  /\ requests'[r] = [requests[r] EXCEPT !.status = "expired"]

Polled(r) ==
  /\ r \in DOMAIN requests
  /\ \E p \in Pollers, age \in SyncAges :
       /\ polls[p].pc = "replied" /\ polls[p].id = r /\ polls[p].reply \in Replied
       /\ requests'[r] = Synced(requests[r], polls[p].loaded, polls[p].reply, age)
       /\ polls'[p].pc # "replied"

Hooked(r) ==
  /\ r \in DOMAIN requests
  /\ \E h \in hooks :
       /\ h.doc = r /\ h.event \in DOMAIN WEBHOOK_STATUS_MAP
       /\ requests'[r] = Notified(requests[r], WEBHOOK_STATUS_MAP[h.event])

RowSteps(r) == Born(r) \/ Kept(r) \/ Expires(r) \/ Polled(r) \/ Hooked(r)

\* A row no step touches is one of the cases.
LEMMA RowKept ==
  ASSUME TypeInv, NEW r \in DOMAIN requests, requests'[r] = requests[r]
  PROVE  RowSteps(r)
<1>1. requests[r] \in SignatureRequest
  BY DEF TypeInv, TypeOK, DbTypeOK
<1>2. requests[r] = [requests[r] EXCEPT !.synced = requests[r].synced]
  BY <1>1 DEF SignatureRequest
<1>3. requests[r].synced \in SyncAges
  BY <1>1 DEF SignatureRequest
<1> QED
  BY <1>2, <1>3 DEF RowSteps, Kept

\* These five are all that happens to a row that is there after a step.
LEMMA RowStep ==
  ASSUME TypeInv, [Next]_vars, NEW r \in DOMAIN requests'
  PROVE  RowSteps(r)
<1>1. CASE r \in DOMAIN requests /\ requests'[r] = requests[r]
  BY <1>1, RowKept
<1>2. ASSUME NEW c \in Calls, InsertRecord(c)
      PROVE  RowSteps(r)
  <2>1. CASE Born(c)
    BY <1>1, <2>1 DEF Born, Insert, RowSteps
  <2>2. CASE ~Born(c)
    BY <1>1, <1>2, <2>2 DEF InsertRecord, Born
  <2> QED
    BY <2>1, <2>2
<1>3. ASSUME NEW p \in Pollers, NEW s \in Calls, PollStarts(p, s)
      PROVE  RowSteps(r)
  <2>1. PICK wants : AnswerFromRow(p, s, wants) \/ AskProvider(p, s, wants)
    BY <1>3 DEF PollStarts, StartPoll
  <2>2. CASE AnswerFromRow(p, s, wants)
    <3>1. s \in DOMAIN requests
      BY <2>2 DEF AnswerFromRow
    <3>2. PICK status : /\ requests' = [requests EXCEPT ![s].status = status]
                        /\ status = IF ~IsTerminal(requests[s]) /\ IsOverdue(requests[s])
                                    THEN "expired" ELSE requests[s].status
      BY <2>2 DEF AnswerFromRow
    <3>3. CASE r = s /\ ~IsTerminal(requests[s]) /\ IsOverdue(requests[s])
      BY <3>1, <3>2, <3>3 DEF RowSteps, Expires
    <3>4. CASE ~(r = s /\ ~IsTerminal(requests[s]) /\ IsOverdue(requests[s]))
      <4>1. requests[s] \in SignatureRequest
        BY <3>1 DEF TypeInv, TypeOK, DbTypeOK
      <4>2. r \in DOMAIN requests /\ requests'[r] = requests[r]
        BY <3>1, <3>2, <3>4, <4>1 DEF SignatureRequest
      <4> QED
        BY <1>1, <4>2
    <3> QED
      BY <3>3, <3>4
  <2>3. CASE AskProvider(p, s, wants)
    BY <1>1, <2>3 DEF AskProvider, dbVars
  <2> QED
    BY <2>1, <2>2, <2>3
<1>4. ASSUME NEW p \in Pollers, PollContinues(p)
      PROVE  RowSteps(r)
  <2>1. CASE UNCHANGED requests
    BY <1>1, <2>1
  <2>2. CASE /\ FinishSync(p)
             /\ polls[p].reply \in Replied
             /\ polls[p].id \in DOMAIN requests
             /\ \E age \in {"fresh", "stale"} : requests' =
                  [requests EXCEPT ![polls[p].id] =
                     Synced(@, polls[p].loaded, polls[p].reply, age)]
    <3>0. polls'[p].pc # "replied"
      <4>1. polls \in [Pollers -> Poll]
        BY DEF TypeInv, TypeOK, PollsTypeOK
      <4>2. polls' \in {[polls EXCEPT ![p] = IdlePoll],
                       [polls EXCEPT ![p] = Downloading(polls[p].id)]}
        BY <2>2 DEF FinishSync, Conclude, EndPoll
      <4> QED
        BY <4>1, <4>2 DEF IdlePoll, Downloading
    <3>1. CASE r = polls[p].id
      BY <2>2, <3>0, <3>1 DEF FinishSync, RowSteps, Polled, SyncAges
    <3>2. CASE r # polls[p].id
      BY <1>1, <2>2, <3>2
    <3> QED
      BY <3>1, <3>2
  <2>3. ~FinishSync(p) => UNCHANGED requests
    BY <1>4 DEF PollContinues, ContinuePoll, ProviderReplies, StatusCallFails, Reply,
                FinishDownload, dbVars
  <2> QED
    BY <2>1, <2>2, <2>3, FinishSyncCases DEF TypeInv
<1>5. ASSUME NEW h \in hooks, WebhookArrives(h)
      PROVE  RowSteps(r)
  <2>1. CASE Owner(h) # NoCall /\ h.event \in DOMAIN WEBHOOK_STATUS_MAP
    <3>1. Owner(h) = h.doc /\ h.doc \in DOMAIN requests
      BY <2>1 DEF Owner
    <3>2. requests' = [requests EXCEPT ![h.doc] =
                         Notified(@, WEBHOOK_STATUS_MAP[h.event])]
      BY <1>5, <2>1, <3>1 DEF WebhookArrives, documenso_webhook
    <3>3. CASE r = h.doc
      BY <2>1, <3>1, <3>2, <3>3 DEF RowSteps, Hooked
    <3>4. CASE r # h.doc
      BY <1>1, <3>1, <3>2, <3>4
    <3> QED
      BY <3>3, <3>4
  <2>2. CASE ~(Owner(h) # NoCall /\ h.event \in DOMAIN WEBHOOK_STATUS_MAP)
    BY <1>1, <1>5, <2>2 DEF WebhookArrives, documenso_webhook
  <2> QED
    BY <2>1, <2>2
<1>6. CASE PurgerWakes
  BY <1>1, <1>6 DEF PurgerWakes, purge_old_requests
<1>7. CASE DayPasses
  <2>1. r \in DOMAIN requests
    BY <1>7 DEF DayPasses, Tick
  <2>2. requests'[r] = [requests[r] EXCEPT !.synced = IF @ = "never" THEN "never"
                                                       ELSE "stale"]
    BY <1>7, <2>1 DEF DayPasses, Tick
  <2>3. requests[r] \in SignatureRequest
    BY <2>1 DEF TypeInv, TypeOK, DbTypeOK
  <2> QED
    BY <2>1, <2>2, <2>3 DEF RowSteps, Kept, SyncAges, SignatureRequest
<1>8. ASSUME NEW s \in Calls, SecondsPass(s)
      PROVE  RowSteps(r)
  <2>1. s \in DOMAIN requests /\ requests' = [requests EXCEPT ![s].synced = "stale"]
    BY <1>8 DEF SecondsPass, CacheLapses
  <2>2. CASE r = s
    BY <2>1, <2>2 DEF RowSteps, Kept, SyncAges
  <2> QED
    BY <1>1, <2>1, <2>2
<1>9. ASSUME NEW c \in Calls, CallArrives(c) \/ CallContinues(c), ~InsertRecord(c)
      PROVE  UNCHANGED requests
  BY <1>9 DEF CallArrives, CallContinues, Arrive, Continue, RejectRequest, Replay, Accept,
     FetchDocument, CreateDocument, PrepareDocument, SendDocument, ProviderFails,
     DeliverCreated, dbVars
<1>10. CASE UNCHANGED requests
  BY <1>1, <1>10
<1>11. ASSUME Restart \/ Rest \/ UNCHANGED vars \/ \E d \in Calls : DocumentMoves(d)
       PROVE  UNCHANGED requests
  BY <1>11 DEF Restart, Rest, DocumentMoves, vars, dbVars
<1> QED
  BY <1>2, <1>3, <1>4, <1>5, <1>6, <1>7, <1>8, <1>9, <1>10, <1>11 DEF Next

(***************************************************************************)
(* What may happen to a call: its key and payload stay, it names only a    *)
(* resource it found or made, and it gets past the send only by sending.   *)
(***************************************************************************)
Unsent == {"none", "DRAFT"}
PastSend == {"accepted", "answering"}

CallSteps(c) ==
  /\ calls'[c].key = calls[c].key
  /\ calls'[c].payload = calls[c].payload
  /\ \/ calls'[c].row = NoCall
     \/ calls'[c].row = calls[c].row /\ calls'[c].createdAt = calls[c].createdAt
     \/ /\ calls'[c].row \in DOMAIN requests
        /\ requests[calls'[c].row].key = calls[c].key
        /\ requests[calls'[c].row].payload = calls[c].payload
        /\ requests[calls'[c].row].created = calls'[c].createdAt
        /\ UNCHANGED requests
     \/ Born(c) /\ calls'[c].row = c /\ calls'[c].createdAt = today
  /\ calls'[c].pc \in PastSend => calls[c].pc \in PastSend \/ docs'[c] \notin Unsent

\* Every step does to a call what CallSteps says.
LEMMA CallStep ==
  ASSUME TypeInv, [Next]_vars, NEW c \in Calls
  PROVE  CallSteps(c)
<1>1. calls \in [Calls -> Call] /\ docs \in [Calls -> DocStates]
  BY DEF TypeInv, TypeOK, CallsTypeOK, ProviderTypeOK
<1>2. ASSUME NEW from, NEW to, Goto(c, from, to)
      PROVE  /\ calls[c].pc = from /\ calls'[c].pc = to /\ calls'[c].row = calls[c].row
             /\ calls'[c].key = calls[c].key /\ calls'[c].payload = calls[c].payload
             /\ calls'[c].createdAt = calls[c].createdAt
  BY <1>1, <1>2 DEF Goto, Call
<1>3. CASE calls'[c] = calls[c]
  BY <1>3 DEF CallSteps
<1>4. ASSUME NEW answer, NEW row, NEW createdAt, Answer(c, answer, row, createdAt)
      PROVE  /\ calls'[c].pc = "done" /\ calls'[c].row = row
             /\ calls'[c].createdAt = createdAt
             /\ calls'[c].key = calls[c].key /\ calls'[c].payload = calls[c].payload
  BY <1>1, <1>4 DEF Answer, Call
<1>5. ASSUME NEW answer, Refuse(c, answer)
      PROVE  CallSteps(c)
  BY <1>4, <1>5 DEF Refuse, CallSteps, PastSend
<1>6. ASSUME NEW d \in Calls, CallArrives(d) \/ CallContinues(d)
      PROVE  CallSteps(c)
  <2>1. CASE c # d
    <3>1. calls'[c] = calls[c]
      BY <1>1, <1>6, <2>1 DEF CallArrives, CallContinues, Arrive, Continue, RejectRequest,
         Replay, Accept, FetchDocument, CreateDocument, PrepareDocument, SendDocument,
         ProviderFails, InsertRecord, Hold, DeliverCreated, Refuse, Answer, Goto
    <3> QED
      BY <1>3, <3>1
  <2>2. ASSUME c = d, RejectRequest(d) \/ ProviderFails(d)
        PROVE  CallSteps(c)
    BY <1>5, <2>2 DEF RejectRequest, ProviderFails
  <2>3. ASSUME c = d, Replay(d)
        PROVE  CallSteps(c)
    <3>1. PICK r \in WithKey(calls[c].key) :
            IF requests[r].payload = calls[c].payload
            THEN Answer(c, "Stored", r, requests[r].created)
            ELSE Refuse(c, "KeyReused")
      BY <2>3 DEF Replay
    <3>2. UNCHANGED requests
      BY <2>3 DEF Replay, dbVars
    <3> QED
      BY <1>4, <1>5, <3>1, <3>2 DEF WithKey, CallSteps, PastSend
  <2>4. ASSUME c = d, Accept(d) \/ FetchDocument(d) \/ CreateDocument(d) \/ PrepareDocument(d)
        PROVE  CallSteps(c)
    BY <1>2, <1>5, <2>4 DEF Accept, FetchDocument, CreateDocument, PrepareDocument,
       CallSteps, PastSend
  <2>5. ASSUME c = d, SendDocument(d)
        PROVE  CallSteps(c)
    BY <1>1, <1>2, <2>5 DEF SendDocument, Dispatch, Move, CallSteps, PastSend, Unsent
  <2>6. ASSUME c = d, InsertRecord(d)
        PROVE  CallSteps(c)
    <3>1. CASE WithKey(calls[c].key) = {}
      <4>1. calls[c].pc = "accepted" /\ Hold(c) /\ Born(c)
        BY <2>6, <3>1 DEF InsertRecord, Born
      <4> QED
        BY <1>1, <4>1 DEF Hold, Call, CallSteps, PastSend
    <3>2. CASE WithKey(calls[c].key) # {}
      BY <1>5, <2>6, <3>2 DEF InsertRecord
    <3> QED
      BY <3>1, <3>2
  <2>7. ASSUME c = d, DeliverCreated(d)
        PROVE  CallSteps(c)
    BY <1>1, <2>7 DEF DeliverCreated, Call, CallSteps, PastSend
  <2> QED
    BY <1>6, <2>1, <2>2, <2>3, <2>4, <2>5, <2>6, <2>7
       DEF CallArrives, CallContinues, Arrive, Continue
<1>7. CASE Restart
  <2>1. \/ calls'[c] = calls[c]
        \/ calls'[c] = [calls[c] EXCEPT !.pc = "done", !.answer = "Lost"]
    BY <1>7 DEF Restart
  <2> QED
    BY <1>1, <1>3, <2>1 DEF Call, CallSteps, PastSend
<1>8. ASSUME ~Restart, ~\E d \in Calls : CallArrives(d) \/ CallContinues(d)
      PROVE  UNCHANGED calls
  BY <1>8 DEF Next, PollContinues, PollStarts, WebhookArrives, PurgerWakes, DocumentMoves,
              DayPasses, SecondsPass, Rest, vars
<1> QED
  BY <1>3, <1>6, <1>7, <1>8

(***************************************************************************)
(* What may happen to a document: it is sent, signed and refused for good. *)
(***************************************************************************)
DocSteps(d) ==
  /\ docs[d] \notin Unsent => docs'[d] \notin Unsent
  /\ docs[d] \in Signed => docs'[d] \in Signed
  /\ docs[d] \in Refused => docs'[d] \in Refused

\* What a webhook body or a reply claims of a document.
Completions == {"DOCUMENT_SIGNED", "DOCUMENT_COMPLETED"}
Refusals == {"DOCUMENT_REJECTED", "DOCUMENT_CANCELLED"}

NewHooks ==
  \A h \in hooks' : h \in hooks \/
    /\ h.event \in Completions => docs'[h.doc] \in Signed
    /\ h.event \in Refusals => docs'[h.doc] \in Refused

\* A document's move emits one webhook, and that one is true of it.
LEMMA MoveStep ==
  ASSUME TypeInv, NEW d \in Calls, NEW from \in DocStates, NEW to \in DocStates,
         NEW event \in EventTypes, Move(d, from, to, event),
         from \in Signed => to \in Signed, from \notin Refused,
         to \notin Unsent,
         event \in Completions => to \in Signed,
         event \in Refusals => to \in Refused
  PROVE  NewHooks /\ \A x \in Calls : DocSteps(x)
BY DEF TypeInv, TypeOK, ProviderTypeOK, Move, Emit, NewHooks, DocSteps, Unsent, Signed, Refused

\* Documents move forward, and every webhook emitted is true.
LEMMA DocStep ==
  ASSUME TypeInv, [Next]_vars
  PROVE  NewHooks /\ \A d \in Calls : DocSteps(d)
<1>1. CASE UNCHANGED providerVars
  BY <1>1 DEF providerVars, NewHooks, DocSteps
<1>2. ASSUME NEW d \in Calls, Draft(d)
      PROVE  NewHooks /\ \A x \in Calls : DocSteps(x)
  BY <1>2 DEF TypeInv, TypeOK, ProviderTypeOK, Draft, NewHooks, DocSteps, Unsent, Signed, Refused
<1>3. ASSUME NEW d \in Calls, Dispatch(d)
      PROVE  NewHooks /\ \A x \in Calls : DocSteps(x)
  <2>1. Move(d, "DRAFT", "PENDING", "DOCUMENT_SENT")
    BY <1>3 DEF Dispatch
  <2>2. /\ "PENDING" \notin Unsent /\ "DRAFT" \notin Signed \cup Refused
        /\ "DOCUMENT_SENT" \in EventTypes \ (Completions \cup Refusals)
        /\ "DRAFT" \in DocStates /\ "PENDING" \in DocStates
    BY DEF Unsent, Signed, Refused, Completions, Refusals, EventTypes, DocStates
  <2> QED
    BY <2>1, <2>2, MoveStep
<1>4. ASSUME NEW d \in Calls, Signing(d)
      PROVE  NewHooks /\ \A x \in Calls : DocSteps(x)
  <2>1. CASE Open(d)
    BY <2>1 DEF Open, Emit, NewHooks, DocSteps, Completions, Refusals
  <2>2. CASE Sign(d) \/ Seal(d)
    <3>1. PICK from \in DocStates, to \in DocStates, event \in EventTypes :
            /\ Move(d, from, to, event)
            /\ from \notin Refused /\ to \in Signed /\ event \in Completions
      BY <2>2 DEF Sign, Seal, Completions, Signed, Refused, DocStates, EventTypes
    <3>2. to \notin Unsent /\ event \notin Refusals
      BY <3>1 DEF Unsent, Completions, Refusals, Signed
    <3> QED
      BY <3>1, <3>2, MoveStep
  <2>3. CASE Reject(d) \/ Cancel(d)
    <3>1. PICK from \in DocStates, to \in DocStates, event \in EventTypes :
            /\ Move(d, from, to, event)
            /\ from \notin Signed \cup Refused /\ to \in Refused /\ event \in Refusals
      BY <2>3 DEF Reject, Cancel, Refusals, Signed, Refused, DocStates, EventTypes
    <3>2. to \notin Unsent /\ event \notin Completions
      BY <3>1 DEF Unsent, Completions, Refusals, Refused
    <3> QED
      BY <3>1, <3>2, MoveStep
  <2> QED
    BY <1>4, <2>1, <2>2, <2>3 DEF Signing
<1>5. ASSUME NEW c \in Calls, CallArrives(c) \/ CallContinues(c)
      PROVE  UNCHANGED providerVars \/ Draft(c) \/ Dispatch(c)
  BY <1>5 DEF CallArrives, CallContinues, Arrive, Continue, RejectRequest, Replay, Accept,
     FetchDocument, CreateDocument, PrepareDocument, SendDocument, ProviderFails,
     InsertRecord, DeliverCreated, providerVars
<1>6. ASSUME NEW p \in Pollers, PollContinues(p) \/ \E r \in Calls : PollStarts(p, r)
      PROVE  UNCHANGED providerVars
  BY <1>6 DEF PollContinues, PollStarts, ContinuePoll, StartPoll, ProviderReplies,
     StatusCallFails, Reply, FinishSync, FinishDownload, AnswerFromRow, AskProvider
<1>7. ASSUME \/ \E h \in hooks : WebhookArrives(h)
             \/ PurgerWakes \/ DayPasses \/ Restart \/ Rest \/ UNCHANGED vars
             \/ \E r \in Calls : SecondsPass(r)
      PROVE  UNCHANGED providerVars
  BY <1>7 DEF WebhookArrives, documenso_webhook, PurgerWakes, DayPasses, Restart, Rest,
              SecondsPass, vars, providerVars
<1> QED
  BY <1>1, <1>2, <1>3, <1>4, <1>5, <1>6, <1>7 DEF Next, DocumentMoves

(***************************************************************************)
(* What may happen to a poll.                                              *)
(***************************************************************************)
Asks(p, r) ==
  /\ r \in DOMAIN requests /\ ~IsTerminal(requests[r])
  /\ polls'[p].pc = "asking" /\ polls'[p].id = r
  /\ polls'[p].loaded = requests[r].status

Hears(p) ==
  /\ polls[p].pc = "asking" /\ polls'[p].pc = "replied"
  /\ polls'[p].id = polls[p].id /\ polls'[p].loaded = polls[p].loaded
  /\ polls'[p].reply \in Failures \cup {get_status(polls[p].id)}

Downloads(p, r) ==
  /\ r \in DOMAIN requests' /\ requests'[r].status = "completed"
  /\ polls'[p] = Downloading(r)

PollSteps(p) ==
  \/ polls'[p] \in {polls[p], IdlePoll}
  \/ Hears(p)
  \/ \E r \in Calls : Asks(p, r) \/ Downloads(p, r)

\* Every step does to a poll what PollSteps says.
LEMMA PollStep ==
  ASSUME TypeInv, [Next]_vars, NEW p \in Pollers
  PROVE  PollSteps(p)
<1>1. polls \in [Pollers -> Poll] /\ DOMAIN requests \subseteq Calls
  BY DEF TypeInv, TypeOK, PollsTypeOK, DbTypeOK
<1>2. CASE polls'[p] = polls[p]
  BY <1>2 DEF PollSteps
<1>3. CASE Restart
  BY <1>3 DEF Restart, PollSteps
<1>4. ASSUME NEW q \in Pollers, EndPoll(q)
      PROVE  PollSteps(p)
  BY <1>1, <1>4 DEF EndPoll, PollSteps
<1>5. ASSUME NEW q \in Pollers, NEW r \in DOMAIN requests, NEW wants, NEW status,
             Conclude(q, r, wants, status), r \in DOMAIN requests',
             status = requests'[r].status
      PROVE  PollSteps(p)
  <2>1. CASE EndPoll(q)
    BY <1>4, <2>1
  <2>2. CASE status = "completed" /\ polls' = [polls EXCEPT ![q] = Downloading(r)]
    BY <1>1, <1>5, <2>2 DEF PollSteps, Downloads
  <2> QED
    BY <1>5, <2>1, <2>2, ConcludePoll
<1>6. ASSUME NEW q \in Pollers, PollContinues(q)
      PROVE  PollSteps(p)
  <2>1. CASE ProviderReplies(q) \/ StatusCallFails(q)
    <3>1. PICK reply \in Failures \cup {get_status(polls[q].id)} : Reply(q, reply)
      BY <2>1 DEF ProviderReplies, StatusCallFails
    <3> QED
      BY <1>1, <1>2, <3>1 DEF Reply, PollSteps, Hears, Poll
  <2>2. CASE FinishSync(q)
    <3>1. CASE EndPoll(q)
      BY <1>4, <3>1
    <3>2. CASE ~EndPoll(q)
      <4>1. /\ polls[q].id \in DOMAIN requests
            /\ Conclude(q, polls[q].id, polls[q].wants, requests'[polls[q].id].status)
            /\ DOMAIN requests' = DOMAIN requests
        BY <2>2, <3>2, FinishSyncCases DEF TypeInv
      <4> QED
        BY <1>5, <4>1
    <3> QED
      BY <3>1, <3>2
  <2>3. CASE FinishDownload(q)
    BY <1>4, <2>3 DEF FinishDownload
  <2> QED
    BY <1>6, <2>1, <2>2, <2>3 DEF PollContinues, ContinuePoll
<1>7. ASSUME NEW q \in Pollers, NEW r \in Calls, PollStarts(q, r)
      PROVE  PollSteps(p)
  <2>1. PICK wants \in {"status", "document"} :
          AnswerFromRow(q, r, wants) \/ AskProvider(q, r, wants)
    BY <1>7 DEF PollStarts, StartPoll
  <2>2. CASE AnswerFromRow(q, r, wants)
    <3>1. requests[r] \in SignatureRequest
      BY <2>2 DEF AnswerFromRow, TypeInv, TypeOK, DbTypeOK
    <3>2. PICK status : /\ requests' = [requests EXCEPT ![r].status = status]
                        /\ Conclude(q, r, wants, status)
      BY <2>2 DEF AnswerFromRow
    <3>3. r \in DOMAIN requests
      BY <2>2 DEF AnswerFromRow
    <3>4. r \in DOMAIN requests' /\ requests'[r].status = status
      BY <3>1, <3>2, <3>3 DEF SignatureRequest
    <3> QED
      BY <1>5, <3>2, <3>3, <3>4
  <2>3. CASE AskProvider(q, r, wants)
    BY <1>1, <1>2, <2>3 DEF AskProvider, NeedsSync, PollSteps, Asks
  <2> QED
    BY <2>1, <2>2, <2>3
<1>8. ASSUME ~Restart,
             ~\E q \in Pollers : PollContinues(q) \/ \E r \in Calls : PollStarts(q, r)
      PROVE  UNCHANGED polls
  BY <1>8 DEF Next, vars, CallArrives, CallContinues, WebhookArrives, PurgerWakes,
              DocumentMoves, DayPasses, SecondsPass, Rest
<1> QED
  BY <1>2, <1>3, <1>6, <1>7, <1>8

(***************************************************************************)
(* What may end a row, and that time does not run back.                    *)
(***************************************************************************)
LEMMA RowLeaves ==
  ASSUME TypeInv, [Next]_vars, NEW r \in DOMAIN requests, r \notin DOMAIN requests'
  PROVE  PurgerWakes /\ r \in Purgeable
<1>1. PurgerWakes => r \in Purgeable
  BY DEF PurgerWakes, purge_old_requests
<1>2. ASSUME NEW c \in Calls, CallArrives(c) \/ CallContinues(c)
      PROVE  FALSE
  BY <1>2 DEF CallArrives, CallContinues, Arrive, Continue, RejectRequest, Replay, Accept,
     FetchDocument, CreateDocument, PrepareDocument, SendDocument, ProviderFails,
     InsertRecord, Insert, DeliverCreated, dbVars
<1>3. ASSUME NEW p \in Pollers, PollContinues(p)
      PROVE  FALSE
  <2>1. FinishSync(p)
    BY <1>3 DEF PollContinues, ContinuePoll, ProviderReplies, StatusCallFails, Reply,
                FinishDownload, dbVars
  <2> QED
    BY <2>1, FinishSyncCases DEF TypeInv
<1>4. ASSUME NEW p \in Pollers, NEW s \in Calls, PollStarts(p, s)
      PROVE  FALSE
  BY <1>4 DEF PollStarts, StartPoll, AnswerFromRow, AskProvider, dbVars
<1>5. ASSUME NEW h \in hooks, WebhookArrives(h)
      PROVE  FALSE
  BY <1>5 DEF WebhookArrives, documenso_webhook
<1>6. ~(\/ DayPasses \/ Restart \/ Rest \/ UNCHANGED vars
        \/ \E s \in Calls : SecondsPass(s) \/ DocumentMoves(s))
  BY DEF DayPasses, Tick, SecondsPass, CacheLapses, DocumentMoves, Restart, Rest, vars, dbVars
<1> QED
  BY <1>1, <1>2, <1>3, <1>4, <1>5, <1>6 DEF Next

\* The clock does not run back.
LEMMA TimeStep ==
  ASSUME TypeInv, [Next]_vars
  PROVE  today \in Nat /\ today' \in Nat /\ today' >= today
<1>1. today \in Nat
  BY DbAssumption DEF TypeInv, TypeOK, DbTypeOK
<1>2. DayPasses => today' = today + 1
  BY DEF DayPasses, Tick
<1>3. ~DayPasses => today' = today
  BY DEF Next, vars, dbVars, CallArrives, CallContinues, Arrive, Continue, RejectRequest,
     Replay, Accept, FetchDocument, CreateDocument, PrepareDocument, SendDocument,
     ProviderFails, InsertRecord, DeliverCreated, PollContinues, PollStarts, ContinuePoll,
     StartPoll, ProviderReplies, StatusCallFails, Reply, FinishSync, FinishDownload,
     AnswerFromRow, AskProvider, WebhookArrives, documenso_webhook, PurgerWakes,
     purge_old_requests, SecondsPass, CacheLapses, DocumentMoves, Restart, Rest
<1> QED
  BY <1>1, <1>2, <1>3

(***************************************************************************)
(* Creation and idempotency. Rows keep the key and payload of their call,  *)
(* so a call whose row is there never finds its key free.                  *)
(***************************************************************************)
RowsOfCalls ==
  \A r \in DOMAIN requests :
    requests[r].key = calls[r].key /\ requests[r].payload = calls[r].payload

SentBeforeInsert == \A c \in Calls : calls[c].pc \in PastSend => docs[c] \notin Unsent

CreationInv ==
  RowsOfCalls /\ SentBeforeInsert /\ KeyUnique /\ NoForeignResource /\ RecordedIsSent

\* Every write but the insertion keeps a row's key, payload and days.
LEMMA RowIdentity ==
  ASSUME TypeInv, NEW r \in DOMAIN requests', RowSteps(r), ~Born(r)
  PROVE  /\ r \in DOMAIN requests
         /\ requests'[r].key = requests[r].key
         /\ requests'[r].payload = requests[r].payload
         /\ requests'[r].created = requests[r].created
         /\ requests'[r].expires = requests[r].expires
<1>1. r \in DOMAIN requests
  BY DEF RowSteps, Kept, Expires, Polled, Hooked
<1>2. requests[r] \in SignatureRequest
  BY <1>1 DEF TypeInv, TypeOK, DbTypeOK
<1>3. CASE Kept(r) \/ Expires(r)
  BY <1>1, <1>2, <1>3 DEF Kept, Expires, SignatureRequest
<1>4. CASE Polled(r)
  BY <1>1, <1>2, <1>4 DEF Polled, Synced, SignatureRequest
<1>5. CASE Hooked(r)
  BY <1>1, <1>2, <1>5 DEF Hooked, Notified, SignatureRequest
<1> QED
  BY <1>3, <1>4, <1>5 DEF RowSteps

\* The row an insertion leaves, and that it adds no other.
LEMMA BornRow ==
  ASSUME NEW r \in Calls, Born(r)
  PROVE  /\ r \in DOMAIN requests'
         /\ requests'[r].key = calls[r].key
         /\ requests'[r].payload = calls[r].payload
         /\ requests'[r].created = today
         /\ requests'[r].status = "sent"
         /\ ~requests'[r].stamped
         /\ \A s \in DOMAIN requests' : s = r \/ s \in DOMAIN requests
<1> DEFINE row == NewRow(calls[r].key, calls[r].payload)
<1>1. /\ r \in DOMAIN requests' /\ requests'[r] = row
      /\ \A s \in DOMAIN requests' : s = r \/ s \in DOMAIN requests
  BY DEF Born, Insert
<1>2. /\ row.key = calls[r].key /\ row.payload = calls[r].payload
      /\ row.created = today /\ row.status = "sent" /\ row.stamped = FALSE
  BY DEF NewRow
<1> QED
  BY <1>1, <1>2

\* Every step keeps CreationInv: the lookup before the awaits is not what makes keys
\* unique, the check at the insertion is.
LEMMA CreationStep ==
  ASSUME TypeInv, CreationInv, [Next]_vars
  PROVE  CreationInv'
<1>1. \A r \in DOMAIN requests' : r \in Calls /\ RowSteps(r)
  <2>1. DOMAIN requests' \subseteq Calls
    BY TypeStep DEF TypeInv, TypeOK, DbTypeOK
  <2> QED
    BY <2>1, RowStep
<1>2. \A c \in Calls : CallSteps(c)
  BY CallStep
<1>3. \A d \in Calls : DocSteps(d)
  BY DocStep
<1>4. RowsOfCalls'
  <2>1. ASSUME NEW r \in DOMAIN requests'
        PROVE  requests'[r].key = calls'[r].key /\ requests'[r].payload = calls'[r].payload
    <3>1. calls'[r].key = calls[r].key /\ calls'[r].payload = calls[r].payload
      BY <1>1, <1>2 DEF CallSteps
    <3>2. CASE Born(r)
      BY <1>1, <3>1, <3>2, BornRow
    <3>3. CASE ~Born(r)
      BY <1>1, <3>1, <3>3, RowIdentity DEF CreationInv, RowsOfCalls
    <3> QED
      BY <3>2, <3>3
  <2> QED
    BY <2>1 DEF RowsOfCalls
<1>5. SentBeforeInsert'
  BY <1>2, <1>3 DEF CreationInv, SentBeforeInsert, CallSteps, DocSteps
<1>6. KeyUnique'
  <2>1. ASSUME NEW r \in DOMAIN requests', NEW s \in DOMAIN requests',
               requests'[r].key = requests'[s].key
        PROVE  r = s
    <3>1. requests'[r].key = calls[r].key /\ requests'[s].key = calls[s].key
      BY <1>1, <1>2, <1>4 DEF RowsOfCalls, CallSteps
    <3>2. ASSUME NEW x \in DOMAIN requests', NEW y \in DOMAIN requests', Born(y), x # y
          PROVE  calls[x].key # calls[y].key
      <4>1. x \in DOMAIN requests
        BY <1>1, <3>2, BornRow
      <4>2. requests[x].key # calls[y].key
        BY <3>2, <4>1 DEF Born, WithKey
      <4> QED
        BY <4>1, <4>2 DEF CreationInv, RowsOfCalls
    <3>3. CASE Born(r) \/ Born(s)
      BY <2>1, <3>1, <3>2, <3>3
    <3>4. CASE ~Born(r) /\ ~Born(s)
      BY <1>1, <2>1, <3>4, RowIdentity DEF CreationInv, KeyUnique
    <3> QED
      BY <3>3, <3>4
  <2> QED
    BY <2>1 DEF KeyUnique
<1>7. NoForeignResource'
  <2>1. ASSUME NEW c \in Calls, calls'[c].row # NoCall
        PROVE  /\ calls[calls'[c].row].key = calls[c].key
               /\ calls[calls'[c].row].payload = calls[c].payload
    BY <1>2, <2>1 DEF CallSteps, CreationInv, NoForeignResource, RowsOfCalls
  <2>2. \A c \in Calls : calls'[c].row \in Calls \cup {NoCall}
    BY TypeStep DEF TypeInv, TypeOK, CallsTypeOK, Call
  <2> QED
    BY <1>2, <2>1, <2>2 DEF NoForeignResource, CallSteps
<1>8. RecordedIsSent'
  <2>1. ASSUME NEW r \in DOMAIN requests'
        PROVE  docs'[r] \notin Unsent
    <3>1. docs[r] \notin Unsent
      <4>1. CASE Born(r)
        BY <1>1, <4>1 DEF Born, CreationInv, SentBeforeInsert, PastSend
      <4>2. CASE ~Born(r)
        BY <1>1, <4>2, RowIdentity DEF CreationInv, RecordedIsSent, Unsent
      <4> QED
        BY <4>1, <4>2
    <3> QED
      BY <1>1, <1>3, <3>1 DEF DocSteps
  <2> QED
    BY <2>1 DEF RecordedIsSent, Unsent
<1> QED
  BY <1>4, <1>5, <1>6, <1>7, <1>8 DEF CreationInv

\* CreationInv is an invariant of the service.
LEMMA CreationInvariant == Spec => []CreationInv
<1>1. Init => CreationInv
  BY IdAssumption
     DEF Init, DbInit, CallsInit, CreationInv, RowsOfCalls, SentBeforeInsert, PastSend,
         KeyUnique, NoForeignResource, RecordedIsSent
<1>2. TypeInv /\ CreationInv /\ [Next]_vars => CreationInv'
  BY CreationStep
<1> QED
  BY <1>1, <1>2, TypeInvariant, PTL DEF Spec

\* However many calls with one key overlap, one record has it.
THEOREM KeysUnique == Spec => []KeyUnique
<1>1. CreationInv => KeyUnique
  BY DEF CreationInv
<1> QED
  BY <1>1, CreationInvariant, PTL

\* A call is answered with a resource of its own key and payload only.
THEOREM ResourcesOwn == Spec => []NoForeignResource
<1>1. CreationInv => NoForeignResource
  BY DEF CreationInv
<1> QED
  BY <1>1, CreationInvariant, PTL

\* A record is committed only for a document that was sent.
THEOREM RecordsSent == Spec => []RecordedIsSent
<1>1. CreationInv => RecordedIsSent
  BY DEF CreationInv
<1> QED
  BY <1>1, CreationInvariant, PTL

(***************************************************************************)
(* Status. Webhook bodies and replies in flight tell the truth for good,   *)
(* because documents only move forward; so do the rows they are written    *)
(* to, in whatever order.                                                  *)
(***************************************************************************)
HooksTruthful ==
  \A h \in hooks :
    /\ h.event \in Completions => docs[h.doc] \in Signed
    /\ h.event \in Refusals => docs[h.doc] \in Refused

\* What a handler holds: a status it loaded that was not terminal, a truthful
\* reply, a row its client may see.
PollTruthful(p) ==
  /\ polls[p].pc # "idle" => polls[p].id \in Calls
  /\ polls[p].pc \in {"asking", "replied"} => polls[p].loaded \in {"sent", "viewed"}
  /\ polls[p].pc = "replied" =>
       /\ polls[p].reply = "completed" => docs[polls[p].id] \in Signed
       /\ polls[p].reply = "declined" => docs[polls[p].id] \in Refused

RowTruthful(r) ==
  /\ requests[r].status = "completed" => requests[r].stamped
  /\ requests[r].stamped => docs[r] \in Signed
  /\ requests[r].status = "declined" => docs[r] \in Refused
  /\ requests[r].status = "expired" => today > requests[r].expires

StatusInv ==
  /\ HooksTruthful
  /\ \A p \in Pollers : PollTruthful(p)
  /\ \A r \in DOMAIN requests : RowTruthful(r)
  /\ DownloadIsSigned

\* A reply is true of the document when it is given.
LEMMA GetStatusTruthful ==
  ASSUME TypeInv, NEW d \in Calls
  PROVE  /\ get_status(d) = "completed" => docs[d] \in Signed
         /\ get_status(d) = "declined" => docs[d] \in Refused
BY DEF TypeInv, TypeOK, ProviderTypeOK, DocStates, get_status, ApiStatus, STATUS_MAP,
       Signed, Refused

\* Webhooks stay true however late they are delivered.
LEMMA HooksStep ==
  ASSUME TypeInv, HooksTruthful, [Next]_vars
  PROVE  HooksTruthful'
<1>1. \A h \in hooks : h.doc \in Calls
  BY DEF TypeInv, TypeOK, ProviderTypeOK, Hooks
<1> QED
  BY <1>1, DocStep DEF HooksTruthful, NewHooks, DocSteps

\* The row after the step, against the document before it.
LEMMA RowTruthStep ==
  ASSUME TypeInv, StatusInv, [Next]_vars, NEW r \in DOMAIN requests'
  PROVE  /\ requests'[r].status = "completed" => requests'[r].stamped
         /\ requests'[r].stamped => docs[r] \in Signed
         /\ requests'[r].status = "declined" => docs[r] \in Refused
         /\ requests'[r].status = "expired" => today > requests'[r].expires
<1>1. RowSteps(r)
  BY RowStep
<1>2. r \in Calls
  BY TypeStep DEF TypeInv, TypeOK, DbTypeOK
<1>3. CASE Born(r)
  BY <1>2, <1>3, BornRow
<1>4. CASE ~Born(r)
  <2>1. r \in DOMAIN requests /\ requests[r] \in SignatureRequest /\ RowTruthful(r)
    BY <1>1, <1>4, RowIdentity DEF TypeInv, TypeOK, DbTypeOK, StatusInv
  <2>2. CASE Kept(r)
    BY <2>1, <2>2 DEF Kept, SignatureRequest, RowTruthful
  <2>3. CASE Expires(r)
    BY <2>1, <2>3 DEF Expires, IsOverdue, SignatureRequest, RowTruthful
  <2>4. CASE Polled(r)
    <3>1. PICK p \in Pollers, age \in SyncAges :
            /\ polls[p].pc = "replied" /\ polls[p].id = r /\ polls[p].reply \in Replied
            /\ requests'[r] = Synced(requests[r], polls[p].loaded, polls[p].reply, age)
      BY <2>4 DEF Polled
    <3>2. PollTruthful(p)
      BY DEF StatusInv
    <3>3. /\ requests'[r].status \in {requests[r].status, polls[p].reply}
          /\ requests'[r].stamped <=> requests[r].stamped \/ polls[p].reply = "completed"
          /\ requests'[r].expires = requests[r].expires
      BY <2>1, <3>1 DEF Synced, SignatureRequest
    <3> QED
      BY <2>1, <3>1, <3>2, <3>3 DEF PollTruthful, RowTruthful, Replied
  <2>5. CASE Hooked(r)
    <3>1. PICK h \in hooks :
            /\ h.doc = r /\ h.event \in DOMAIN WEBHOOK_STATUS_MAP
            /\ requests'[r] = Notified(requests[r], WEBHOOK_STATUS_MAP[h.event])
      BY <2>5 DEF Hooked
    <3> DEFINE status == WEBHOOK_STATUS_MAP[h.event]
    <3>2. /\ status \in {"viewed", "completed", "declined"}
          /\ status = "completed" => docs[r] \in Signed
          /\ status = "declined" => docs[r] \in Refused
      BY <3>1 DEF StatusInv, HooksTruthful, WEBHOOK_STATUS_MAP, Completions, Refusals
    <3>3. CASE requests'[r] = requests[r]
      BY <2>1, <3>3 DEF RowTruthful
    <3>4. CASE requests'[r] = [requests[r] EXCEPT !.status = status,
                                                  !.stamped = @ \/ status = "completed"]
      BY <2>1, <3>2, <3>4 DEF RowTruthful, SignatureRequest
    <3> QED
      BY <3>1, <3>3, <3>4 DEF Notified
  <2> QED
    BY <1>1, <1>4, <2>2, <2>3, <2>4, <2>5 DEF RowSteps
<1> QED
  BY <1>3, <1>4

\* Every step keeps StatusInv.
LEMMA StatusStep ==
  ASSUME TypeInv, StatusInv, [Next]_vars
  PROVE  StatusInv'
<1>1. \A d \in Calls : DocSteps(d)
  BY DocStep
<1>2. HooksTruthful'
  BY HooksStep DEF StatusInv
<1>3. TypeInv'
  BY TypeStep, HasReplyStep DEF TypeInv
<1>4. ASSUME NEW r \in DOMAIN requests'
      PROVE  RowTruthful(r)'
  <2>1. r \in Calls
    BY <1>3 DEF TypeInv, TypeOK, DbTypeOK
  <2>2. today' >= today /\ today \in Nat /\ today' \in Nat /\ requests'[r].expires \in Nat
    BY <1>3, TimeStep DEF TypeInv, TypeOK, DbTypeOK, SignatureRequest
  <2> QED
    BY <1>1, <2>1, <2>2, RowTruthStep DEF RowTruthful, DocSteps
<1>5. ASSUME NEW p \in Pollers
      PROVE  /\ PollTruthful(p)'
             /\ polls'[p].pc = "downloading" => docs'[polls'[p].id] \in Signed
  <2>1. PollSteps(p)
    BY PollStep
  <2>2. PollTruthful(p) /\ (polls[p].pc = "downloading" => docs[polls[p].id] \in Signed)
    BY DEF StatusInv, DownloadIsSigned
  <2>3. CASE polls'[p] = polls[p]
    BY <1>1, <2>2, <2>3 DEF PollTruthful, DocSteps
  <2>4. CASE polls'[p] = IdlePoll
    BY <2>4 DEF PollTruthful, IdlePoll
  <2>5. CASE Hears(p)
    BY <1>1, <2>2, <2>5, GetStatusTruthful DEF PollTruthful, Hears, DocSteps, Failures
  <2>6. ASSUME NEW r \in Calls, Asks(p, r)
        PROVE  PollTruthful(p)' /\ polls'[p].pc # "downloading"
    BY <2>6 DEF Asks, PollTruthful, IsTerminal, TERMINAL_STATUSES, TypeInv, TypeOK,
                DbTypeOK, SignatureRequest, Statuses
  <2>7. ASSUME NEW r \in Calls, Downloads(p, r)
        PROVE  /\ PollTruthful(p)'
               /\ docs'[polls'[p].id] \in Signed
    BY <1>4, <2>7 DEF Downloads, Downloading, PollTruthful, RowTruthful
  <2> QED
    BY <2>1, <2>3, <2>4, <2>5, <2>6, <2>7 DEF PollSteps
<1> QED
  BY <1>2, <1>4, <1>5 DEF StatusInv, DownloadIsSigned

\* StatusInv is an invariant of the service.
LEMMA StatusInvariant == Spec => []StatusInv
<1>1. Init => StatusInv
  BY DEF Init, DbInit, ProviderInit, PollsInit, IdlePoll, StatusInv, HooksTruthful,
         PollTruthful, DownloadIsSigned
<1>2. TypeInv /\ StatusInv /\ [Next]_vars => StatusInv'
  BY StatusStep
<1> QED
  BY <1>1, <1>2, TypeInvariant, PTL DEF Spec

\* "completed" and "declined" say what happened at the provider.
THEOREM FinalStatusesTrue == Spec => []FinalStatusTruthful
<1>1. StatusInv => FinalStatusTruthful
  BY DEF StatusInv, RowTruthful, FinalStatusTruthful
<1> QED
  BY <1>1, StatusInvariant, PTL

\* A completed record has its completedAt; only signed documents have one.
THEOREM CompletionsEvident == Spec => []CompletionEvidence
<1>1. StatusInv => CompletionEvidence
  BY DEF StatusInv, RowTruthful, CompletionEvidence
<1> QED
  BY <1>1, StatusInvariant, PTL

\* No request is called expired before it is due.
THEOREM ExpiryDue == Spec => []ExpiredIsDue
<1>1. StatusInv => ExpiredIsDue
  BY DEF StatusInv, RowTruthful, ExpiredIsDue
<1> QED
  BY <1>1, StatusInvariant, PTL

\* The download is asked for only of signed documents.
THEOREM DownloadsSigned == Spec => []DownloadIsSigned
<1>1. StatusInv => DownloadIsSigned
  BY DEF StatusInv
<1> QED
  BY <1>1, StatusInvariant, PTL

(***************************************************************************)
(* Events, retention, and the one way a terminal status is turned back.    *)
(***************************************************************************)
LEMMA NotReborn ==
  ASSUME CreationInv, NEW r \in DOMAIN requests
  PROVE  ~Born(r)
BY DEF CreationInv, RowsOfCalls, Born, WithKey

\* Once completed_at is set, no write clears it.
LEMMA StampKept ==
  ASSUME TypeInv, CreationInv, [Next]_vars, NEW r \in DOMAIN requests,
         r \in DOMAIN requests', requests[r].stamped
  PROVE  requests'[r].stamped
<1>1. RowSteps(r) /\ ~Born(r) /\ requests[r] \in SignatureRequest
  BY RowStep, NotReborn DEF TypeInv, TypeOK, DbTypeOK
<1>2. CASE Kept(r) \/ Expires(r)
  BY <1>1, <1>2 DEF Kept, Expires, SignatureRequest
<1>3. CASE Polled(r)
  BY <1>1, <1>3 DEF Polled, Synced, SignatureRequest
<1>4. CASE Hooked(r)
  BY <1>1, <1>4 DEF Hooked, Notified, SignatureRequest
<1> QED
  BY <1>1, <1>2, <1>3, <1>4 DEF RowSteps

\* Every event row after a step was there, or the webhook just recorded it.
LEMMA EventStep ==
  ASSUME TypeInv, [Next]_vars, NEW e \in events'
  PROVE  \/ /\ e \in events
            /\ e.request \in DOMAIN requests => e.request \in DOMAIN requests'
         \/ \E h \in hooks : WebhookArrives(h) /\ e = [payload |-> h, request |-> Owner(h)]
<1>1. ASSUME NEW h \in hooks, WebhookArrives(h)
      PROVE  /\ e \in events \/ e = [payload |-> h, request |-> Owner(h)]
             /\ DOMAIN requests' = DOMAIN requests
  BY <1>1 DEF WebhookArrives, documenso_webhook
<1>2. CASE PurgerWakes
  BY <1>2 DEF PurgerWakes, purge_old_requests
<1>3. ASSUME ~PurgerWakes, ~\E h \in hooks : WebhookArrives(h)
      PROVE  UNCHANGED events
  BY <1>3 DEF Next, vars, dbVars, CallArrives, CallContinues, Arrive, Continue, RejectRequest,
     Replay, Accept, FetchDocument, CreateDocument, PrepareDocument, SendDocument,
     ProviderFails, InsertRecord, DeliverCreated, PollContinues, PollStarts, ContinuePoll,
     StartPoll, ProviderReplies, StatusCallFails, Reply, FinishSync, FinishDownload,
     AnswerFromRow, AskProvider, SecondsPass, CacheLapses, DocumentMoves, DayPasses, Tick,
     Restart, Rest
<1>4. ASSUME ~PurgerWakes, e.request \in DOMAIN requests
      PROVE  e.request \in DOMAIN requests'
  BY <1>4, RowLeaves
<1> QED
  BY <1>1, <1>2, <1>3, <1>4

\* A completion webhook that finds its record leaves its mark there, whatever
\* the record's status is.
LEMMA WebhookStamps ==
  ASSUME TypeInv, NEW h \in hooks, WebhookArrives(h), Owner(h) # NoCall,
         h.event \in Completions
  PROVE  requests'[Owner(h)].stamped
<1>1. Owner(h) = h.doc /\ h.doc \in DOMAIN requests
  BY DEF Owner
<1>2. h.event \in DOMAIN WEBHOOK_STATUS_MAP /\ WEBHOOK_STATUS_MAP[h.event] = "completed"
  BY DEF Completions, WEBHOOK_STATUS_MAP
<1>3. requests'[h.doc] = Notified(requests[h.doc], "completed")
  BY <1>1, <1>2 DEF WebhookArrives, documenso_webhook
<1>4. requests[h.doc] \in SignatureRequest
  BY <1>1 DEF TypeInv, TypeOK, DbTypeOK
<1> QED
  BY <1>1, <1>3, <1>4 DEF Notified, Admits, SignatureRequest

EventInv == EventOwnersExist /\ AppliedCompletionKept

\* Every step keeps EventInv.
LEMMA EventsStep ==
  ASSUME TypeInv, CreationInv, EventInv, [Next]_vars
  PROVE  EventInv'
<1>1. ASSUME NEW e \in events', e.request # NoCall
      PROVE  /\ e.request \in DOMAIN requests' /\ e.payload.doc = e.request
             /\ e.payload.event \in Completions => requests'[e.request].stamped
  <2>1. CASE /\ e \in events
             /\ e.request \in DOMAIN requests => e.request \in DOMAIN requests'
    <3>1. e.request \in DOMAIN requests /\ e.payload.doc = e.request
      BY <1>1, <2>1 DEF EventInv, EventOwnersExist
    <3>2. e.payload.event \in Completions => requests[e.request].stamped
      BY <1>1, <2>1 DEF EventInv, AppliedCompletionKept, Completions
    <3> QED
      BY <2>1, <3>1, <3>2, StampKept
  <2>2. ASSUME NEW h \in hooks, WebhookArrives(h), e = [payload |-> h, request |-> Owner(h)]
        PROVE  /\ e.request \in DOMAIN requests' /\ e.payload.doc = e.request
               /\ e.payload.event \in Completions => requests'[e.request].stamped
    <3>1. e.request = h.doc /\ e.payload = h /\ h.doc \in DOMAIN requests /\ Owner(h) # NoCall
      BY <1>1, <2>2 DEF Owner
    <3>2. DOMAIN requests' = DOMAIN requests
      BY <2>2 DEF WebhookArrives, documenso_webhook
    <3>3. h.event \in Completions => requests'[h.doc].stamped
      BY <2>2, <3>1, WebhookStamps
    <3> QED
      BY <3>1, <3>2, <3>3
  <2> QED
    BY <2>1, <2>2, EventStep
<1> QED
  BY <1>1 DEF EventInv, EventOwnersExist, AppliedCompletionKept, Completions

\* EventInv is an invariant of the service.
LEMMA EventInvariant == Spec => []EventInv
<1>1. Init => EventInv
  BY DEF Init, DbInit, EventInv, EventOwnersExist, AppliedCompletionKept
<1>2. TypeInv /\ CreationInv /\ EventInv /\ [Next]_vars => EventInv'
  BY EventsStep
<1> QED
  BY <1>1, <1>2, TypeInvariant, CreationInvariant, PTL DEF Spec

\* Events and records stay consistent though nothing enforces the key.
THEOREM EventOwners == Spec => []EventOwnersExist
<1>1. EventInv => EventOwnersExist
  BY DEF EventInv
<1> QED
  BY <1>1, EventInvariant, PTL

\* No poll removes the completedAt a webhook set.
THEOREM CompletionsKept == Spec => []AppliedCompletionKept
<1>1. EventInv => AppliedCompletionKept
  BY DEF EventInv
<1> QED
  BY <1>1, EventInvariant, PTL

\* While the resource of a call is there, its created_at is the createdAt the
\* call knows.
AckInv ==
  \A c \in Calls : calls[c].row # NoCall =>
    \/ /\ calls[c].row \in DOMAIN requests
       /\ requests[calls[c].row].created = calls[c].createdAt
    \/ today > calls[c].createdAt + PurgeAfterDays

\* Every step keeps AckInv.
LEMMA AckStep ==
  ASSUME TypeInv, CreationInv, AckInv, [Next]_vars
  PROVE  AckInv'
<1>1. today \in Nat /\ today' \in Nat /\ today' >= today /\ PurgeAfterDays \in Nat
  BY TimeStep, DbAssumption
<1>2. ASSUME NEW r \in DOMAIN requests
      PROVE  \/ r \in DOMAIN requests' /\ requests'[r].created = requests[r].created
             \/ today' > requests[r].created + PurgeAfterDays
  <2>1. CASE r \in DOMAIN requests'
    BY <2>1, RowStep, NotReborn, RowIdentity
  <2>2. CASE r \in Purgeable
    <3>1. requests[r].created \in Nat /\ requests[r].created < today - PurgeAfterDays
      BY <2>2 DEF Purgeable, IsPurgeable, TypeInv, TypeOK, DbTypeOK, SignatureRequest
    <3> QED
      BY <1>1, <3>1
  <2> QED
    BY <2>1, <2>2, RowLeaves
<1>3. SUFFICES ASSUME NEW c \in Calls, calls'[c].row # NoCall
               PROVE  \/ /\ calls'[c].row \in DOMAIN requests'
                         /\ requests'[calls'[c].row].created = calls'[c].createdAt
                      \/ today' > calls'[c].createdAt + PurgeAfterDays
  BY DEF AckInv
<1>4. CASE calls'[c].row = calls[c].row /\ calls'[c].createdAt = calls[c].createdAt
  <2>1. calls[c].createdAt \in Nat
    BY DEF TypeInv, TypeOK, CallsTypeOK, Call
  <2> QED
    BY <1>1, <1>2, <1>3, <1>4, <2>1 DEF AckInv
<1>5. CASE /\ calls'[c].row \in DOMAIN requests /\ UNCHANGED requests
           /\ requests[calls'[c].row].created = calls'[c].createdAt
  BY <1>5
<1>6. CASE Born(c) /\ calls'[c].row = c /\ calls'[c].createdAt = today
  BY <1>6, BornRow
<1> QED
  BY <1>3, <1>4, <1>5, <1>6, CallStep DEF CallSteps

\* A resource a client was told of outlives crashes and early purges.
THEOREM AcknowledgedKept == Spec => []AcknowledgedIsKept
<1>1. Init => AckInv
  BY DEF Init, CallsInit, AckInv
<1>2. TypeInv /\ CreationInv /\ AckInv /\ [Next]_vars => AckInv'
  BY AckStep
<1>3. AckInv => AcknowledgedIsKept
  BY DEF AckInv, AcknowledgedIsKept
<1> QED
  BY <1>1, <1>2, <1>3, TypeInvariant, CreationInvariant, PTL DEF Spec

\* A record appears only by the commit of its own call.
THEOREM PurgedGone == Spec => PurgedStaysGone
<1>1. TypeInv /\ [Next]_vars =>
        [\A r \in Calls : r \in DOMAIN requests' /\ r \notin DOMAIN requests
           => calls[r].pc = "accepted"]_vars
  BY RowStep DEF RowSteps, Born, Kept, Expires, Polled, Hooked
<1> QED
  BY <1>1, TypeInvariant, PTL DEF Spec, PurgedStaysGone

\* A terminal status is turned back by a poll that loaded "viewed" and heard
\* "sent", and by nothing else.
LEMMA RollbackStep ==
  ASSUME TypeInv, CreationInv, StatusInv, [Next]_vars, NEW r \in Calls, RollsBack(r)
  PROVE  StalePolls(r) # {}
<1>1. r \in DOMAIN requests /\ r \in DOMAIN requests'
  BY DEF RollsBack
<1>2. RowSteps(r) /\ ~Born(r) /\ requests[r] \in SignatureRequest
  BY <1>1, RowStep, NotReborn DEF TypeInv, TypeOK, DbTypeOK
<1>3. IsTerminal(requests[r]) /\ ~IsTerminal(requests'[r])
  BY DEF RollsBack
<1>4. ~Kept(r) /\ ~Expires(r)
  BY <1>2, <1>3 DEF Kept, Expires, SignatureRequest, IsTerminal
<1>5. ~Hooked(r)
  BY <1>2, <1>3 DEF Hooked, Notified, Admits, SignatureRequest, IsTerminal, TERMINAL_STATUSES
<1>6. PICK p \in Pollers, age \in SyncAges :
        /\ polls[p].pc = "replied" /\ polls[p].id = r /\ polls[p].reply \in Replied
        /\ requests'[r] = Synced(requests[r], polls[p].loaded, polls[p].reply, age)
  BY <1>2, <1>4, <1>5 DEF RowSteps, Polled
<1>7. polls[p].loaded \in {"sent", "viewed"}
  BY <1>6 DEF StatusInv, PollTruthful
<1>8. polls[p].reply # polls[p].loaded /\ requests'[r].status = polls[p].reply
  BY <1>2, <1>3, <1>6 DEF Synced, SignatureRequest, IsTerminal
<1>9. polls[p].reply = "sent"
  BY <1>3, <1>6, <1>8 DEF Replied, IsTerminal, TERMINAL_STATUSES
<1> QED
  BY <1>6, <1>7, <1>8, <1>9 DEF StalePolls

\* The one late write the code lets through, and no other.
THEOREM RollbackOnlyByStalePoll == Spec => RollbackOnlyFromViewed
<1>1. TypeInv /\ CreationInv /\ StatusInv /\ [Next]_vars =>
        [\A r \in Calls : RollsBack(r) => StalePolls(r) # {}]_vars
  BY RollbackStep
<1> QED
  BY <1>1, TypeInvariant, CreationInvariant, StatusInvariant, PTL
     DEF Spec, RollbackOnlyFromViewed

\* What a poll of a sealed document hears is no "sent": it cannot become stale.
LEMMA SealedPollStep ==
  ASSUME TypeInv, [Next]_vars, NEW r \in Calls, docs[r] = "COMPLETED"
  PROVE  StalePolls(r)' \subseteq StalePolls(r)
<1>1. SUFFICES ASSUME NEW p \in Pollers, p \notin StalePolls(r),
                      polls'[p].pc = "replied", polls'[p].id = r,
                      polls'[p].loaded = "viewed", polls'[p].reply = "sent"
               PROVE  FALSE
  BY DEF StalePolls
<1>2. PollSteps(p)
  BY PollStep
<1>3. polls'[p] # polls[p] /\ polls'[p] # IdlePoll
  BY <1>1 DEF StalePolls, IdlePoll
<1>4. get_status(r) = "completed"
  BY DEF get_status, ApiStatus, STATUS_MAP
<1>5. ~Hears(p)
  BY <1>1, <1>4 DEF Hears, Failures
<1>6. ASSUME NEW s \in Calls
      PROVE  ~Asks(p, s) /\ ~Downloads(p, s)
  BY <1>1 DEF Asks, Downloads, Downloading
<1> QED
  BY <1>2, <1>3, <1>5, <1>6 DEF PollSteps

\* What is written to a completed record is another status only by a stale poll,
\* which ends with it.
LEMMA CompletedStep ==
  ASSUME TypeInv, CreationInv, StatusInv, [Next]_vars,
         NEW r \in DOMAIN requests, r \in DOMAIN requests',
         requests[r].status = "completed", requests'[r].status # "completed"
  PROVE  \E p \in StalePolls(r) : p \notin StalePolls(r)'
<1>1. r \in Calls /\ requests[r] \in SignatureRequest /\ RowSteps(r) /\ ~Born(r)
  BY RowStep, NotReborn DEF TypeInv, TypeOK, DbTypeOK
<1>2. ~Kept(r)
  BY <1>1 DEF Kept, SignatureRequest
<1>3. ~Expires(r)
  BY DEF Expires, IsTerminal, TERMINAL_STATUSES
<1>4. ~Hooked(r)
  BY <1>1 DEF Hooked, Notified, Admits, SignatureRequest, IsTerminal, TERMINAL_STATUSES
<1>5. PICK p \in Pollers, age \in SyncAges :
        /\ polls[p].pc = "replied" /\ polls[p].id = r /\ polls[p].reply \in Replied
        /\ requests'[r] = Synced(requests[r], polls[p].loaded, polls[p].reply, age)
        /\ polls'[p].pc # "replied"
  BY <1>1, <1>2, <1>3, <1>4 DEF RowSteps, Polled
<1>6. docs[r] \in Signed
  BY DEF StatusInv, RowTruthful
<1>7. polls[p].reply # "declined" /\ polls[p].loaded \in {"sent", "viewed"}
  BY <1>5, <1>6 DEF StatusInv, PollTruthful, Refused, Signed
<1>8. polls[p].reply \notin {"completed", polls[p].loaded}
  BY <1>1, <1>5 DEF Synced, SignatureRequest
<1>9. polls[p].reply = "sent" /\ polls[p].loaded = "viewed"
  BY <1>5, <1>7, <1>8 DEF Replied
<1> QED
  BY <1>5, <1>9 DEF StalePolls

\* Of a sealed document a completion is turned back at most once by each poll
\* that was stale already, and by nothing else.
THEOREM SealedReportSettles == Spec => SealedRollbacksRunOut
<1>1. TypeInv /\ CreationInv /\ StatusInv /\ [Next]_vars =>
        [\A r \in DOMAIN requests \cap DOMAIN requests' : docs[r] = "COMPLETED" =>
           /\ StalePolls(r)' \subseteq StalePolls(r)
           /\ requests[r].status = "completed" /\ requests'[r].status # "completed"
                => StalePolls(r)' # StalePolls(r)]_vars
  <2>1. ASSUME TypeInv, CreationInv, StatusInv, [Next]_vars,
               NEW r \in DOMAIN requests \cap DOMAIN requests', docs[r] = "COMPLETED"
        PROVE  /\ StalePolls(r)' \subseteq StalePolls(r)
               /\ requests[r].status = "completed" /\ requests'[r].status # "completed"
                    => StalePolls(r)' # StalePolls(r)
    <3>1. r \in Calls
      BY <2>1 DEF TypeInv, TypeOK, DbTypeOK
    <3> QED
      BY <2>1, <3>1, SealedPollStep, CompletedStep
  <2> QED
    BY <2>1
<1> QED
  BY <1>1, TypeInvariant, CreationInvariant, StatusInvariant, PTL
     DEF Spec, SealedRollbacksRunOut

(***************************************************************************)
(* No step gives a row the status "error", so a terminal row is a signed,  *)
(* a refused or an overdue one.                                            *)
(***************************************************************************)
ErrorFree == \A r \in DOMAIN requests : requests[r].status # "error"

\* No webhook, poll or expiry writes "error".
LEMMA ErrorFreeStep ==
  ASSUME TypeInv, ErrorFree, [Next]_vars
  PROVE  ErrorFree'
<1>1. SUFFICES ASSUME NEW r \in DOMAIN requests'
               PROVE  requests'[r].status # "error"
  BY DEF ErrorFree
<1>2. r \in Calls /\ RowSteps(r)
  BY RowStep, TypeStep DEF TypeInv, TypeOK, DbTypeOK
<1>3. CASE Born(r)
  BY <1>2, <1>3, BornRow
<1>4. CASE ~Born(r)
  <2>1. /\ r \in DOMAIN requests
        /\ requests[r] \in SignatureRequest /\ requests[r].status # "error"
    BY <1>2, <1>4, RowIdentity DEF TypeInv, TypeOK, DbTypeOK, ErrorFree
  <2>2. CASE Kept(r) \/ Expires(r)
    BY <2>1, <2>2 DEF Kept, Expires, SignatureRequest
  <2>3. CASE Polled(r)
    BY <2>1, <2>3 DEF Polled, Synced, SignatureRequest, Replied
  <2>4. CASE Hooked(r)
    BY <2>1, <2>4 DEF Hooked, Notified, SignatureRequest, WEBHOOK_STATUS_MAP
  <2> QED
    BY <1>2, <1>4, <2>2, <2>3, <2>4 DEF RowSteps
<1> QED
  BY <1>3, <1>4

\* A request retention may delete: old enough, and over.
DueForPurge(r) ==
  /\ requests[r].created < today - PurgeAfterDays
  /\ requests[r].expires < today \/ docs[r] \in Signed \cup Refused

\* The purge deletes no others, however a status came about.
LEMMA PurgeableIsDue ==
  ASSUME TypeInv, StatusInv, ErrorFree, NEW r \in Purgeable
  PROVE  DueForPurge(r)
<1>1. r \in DOMAIN requests /\ IsPurgeable(requests[r])
  BY DEF Purgeable
<1>2. /\ requests[r] \in SignatureRequest /\ today \in Nat
      /\ RowTruthful(r) /\ requests[r].status # "error"
  BY <1>1, DbAssumption DEF TypeInv, TypeOK, DbTypeOK, StatusInv, ErrorFree
<1>3. today > requests[r].expires => requests[r].expires < today
  BY <1>2 DEF SignatureRequest
<1> QED
  BY <1>1, <1>2, <1>3
     DEF DueForPurge, IsPurgeable, IsTerminal, TERMINAL_STATUSES, RowTruthful

\* A request that is due stays so: its days are kept, time does not run back,
\* documents only move forward.
LEMMA DueStep ==
  ASSUME TypeInv, CreationInv, [Next]_vars, NEW r \in DOMAIN requests,
         r \in DOMAIN requests', DueForPurge(r)
  PROVE  DueForPurge(r)'
<1>1. requests'[r].created = requests[r].created /\ requests'[r].expires = requests[r].expires
  BY RowStep, NotReborn, RowIdentity
<1>2. /\ requests[r].created \in Nat /\ requests[r].expires \in Nat
      /\ today \in Nat /\ today' \in Nat /\ today' >= today /\ PurgeAfterDays \in Nat
  BY TimeStep, DbAssumption DEF TypeInv, TypeOK, DbTypeOK, SignatureRequest
<1>3. DocSteps(r)
  BY DocStep DEF TypeInv, TypeOK, DbTypeOK
<1>4. (requests[r].created < today - PurgeAfterDays)'
  BY <1>1, <1>2 DEF DueForPurge
<1>5. requests[r].expires < today => (requests[r].expires < today)'
  BY <1>1, <1>2
<1> QED
  BY <1>3, <1>4, <1>5 DEF DueForPurge, DocSteps

\* No open request is purged, however its status came about.
THEOREM OpenNotPurged == Spec => OpenIsNotPurged
<1>1. Init => ErrorFree
  BY DEF Init, DbInit, ErrorFree
<1>2. TypeInv /\ ErrorFree /\ [Next]_vars => ErrorFree'
  BY ErrorFreeStep
<1>3. TypeInv /\ ErrorFree /\ StatusInv /\ [Next]_vars =>
        [\A r \in DOMAIN requests \ DOMAIN requests' :
           requests[r].expires < today \/ docs[r] \in Signed \cup Refused]_vars
  BY RowLeaves, PurgeableIsDue DEF DueForPurge
<1> QED
  BY <1>1, <1>2, <1>3, TypeInvariant, StatusInvariant, PTL DEF Spec, OpenIsNotPurged

================================================================================
