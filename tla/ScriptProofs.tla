------------------------------ MODULE ScriptProofs ------------------------------
(***************************************************************************)
(* CleanupScript, for every value of its constants: what SafetyProofs and  *)
(* RefinementProofs show of the service alone still holds when a second    *)
(* process deletes records between its steps. A step is one of the         *)
(* service, or a deletion, or the commit of a webhook whose record is      *)
(* gone; the first is covered already, the other two only take records     *)
(* away that are old enough.                                               *)
(***************************************************************************)
EXTENDS CleanupScript, RefinementProofs

allVars == <<vars, scriptVars>>

(***************************************************************************)
(* The part of the state the two share. EventInv is not in it: a webhook   *)
(* that commits after the deletion leaves an event without its record.     *)
(***************************************************************************)
ServiceInv == TypeInv /\ CreationInv /\ StatusInv /\ ErrorFree /\ AckInv /\ ReplyInv

\* The service's steps keep it.
LEMMA ServiceStep ==
  ASSUME ServiceInv, [Next]_vars
  PROVE  ServiceInv'
<1>1. TypeInv'
  BY TypeStep, HasReplyStep DEF ServiceInv, TypeInv
<1> QED
  BY <1>1, CreationStep, StatusStep, ErrorFreeStep, AckStep, ReplyStep DEF ServiceInv

\* A step that takes records away, each older than PurgeAfterDays, leaves the
\* others as they are, and touches nothing but the two tables.
Trims ==
  /\ DOMAIN requests' \subseteq DOMAIN requests
  /\ \A r \in DOMAIN requests' : requests'[r] = requests[r]
  /\ \A r \in DOMAIN requests \ DOMAIN requests' :
       requests[r].created < today - PurgeAfterDays
  /\ events' \subseteq ProviderEvent(Hooks)
  /\ UNCHANGED <<today, providerVars, calls, polls, restarts>>

\* Such a step keeps it too.
LEMMA TrimStep ==
  ASSUME ServiceInv, Trims
  PROVE  ServiceInv'
<1> USE DEF ServiceInv, Trims, providerVars
<1>1. TypeInv'
  BY DEF TypeInv, TypeOK, HasReply, DbTypeOK, ProviderTypeOK, CallsTypeOK, PollsTypeOK
<1>2. CreationInv'
  BY DEF CreationInv, RowsOfCalls, SentBeforeInsert, KeyUnique, NoForeignResource,
         RecordedIsSent
<1>3. StatusInv'
  BY DEF StatusInv, HooksTruthful, PollTruthful, RowTruthful, DownloadIsSigned
<1>4. ErrorFree' /\ ReplyInv'
  BY DEF ErrorFree, ReplyInv
<1>5. AckInv'
  <2>1. ASSUME NEW r \in DOMAIN requests, r \notin DOMAIN requests'
        PROVE  today > requests[r].created + PurgeAfterDays
    BY <2>1, DbAssumption DEF TypeInv, TypeOK, DbTypeOK, SignatureRequest
  <2> QED
    BY <2>1 DEF AckInv
<1> QED
  BY <1>1, <1>2, <1>3, <1>4, <1>5

(***************************************************************************)
(* The invariant of the composition. A call whose record was committed     *)
(* once never commits again, so an id that the script selected, a webhook  *)
(* has read or an event names stands for the same record or for none.      *)
(***************************************************************************)
Landed(r) == calls[r].pc \in {"answering", "done"}

SelectedAreDue ==
  \A r \in selected :
    r \in Calls /\ Landed(r) /\ (r \in DOMAIN requests => DueForPurge(r))

OwnersLanded ==
  /\ \A r \in DOMAIN requests : Landed(r)
  /\ \A e \in events : e.request # NoCall => Landed(e.request)
  /\ \A m \in inbox : m.owner # NoCall => m.owner \in Calls /\ Landed(m.owner)

InboxEmitted == \A m \in inbox : m.hook \in hooks

ScriptInv == ServiceInv /\ SelectedAreDue /\ OwnersLanded /\ InboxEmitted /\ AppliedOrPurged

\* A record is there only after its call has landed, and a call lands once.
LEMMA LandedStep ==
  ASSUME TypeInv, [Next]_vars, NEW r \in Calls
  PROVE  /\ Landed(r) => Landed(r)'
         /\ Landed(r) /\ r \in DOMAIN requests' => r \in DOMAIN requests
         /\ r \in DOMAIN requests' => r \in DOMAIN requests \/ Landed(r)'
<1>1. ASSUME NEW c \in Calls, CallArrives(c) \/ CallContinues(c)
      PROVE  /\ Landed(r) => Landed(r)'
             /\ r \in DOMAIN requests' =>
                  r \in DOMAIN requests \/ (Landed(r)' /\ ~Landed(r))
  <2>1. MovesOn(c) \/ IsRefused(c) \/ IsReplayed(c) \/ IsCommitted(c) \/ IsDelivered(c)
    BY <1>1, CallMove
  <2>2. r # c => calls'[r] = calls[r]
    BY <1>1, OtherCalls
  <2>3. CASE r # c
    <3>1. r \in DOMAIN requests' => r \in DOMAIN requests
      BY <2>1, <2>3, BornRow DEF MovesOn, IsRefused, IsReplayed, IsCommitted, IsDelivered
    <3> QED
      BY <2>2, <2>3, <3>1 DEF Landed
  <2>4. CASE r = c
    BY <2>1, <2>4 DEF Landed, MovesOn, IsRefused, IsReplayed, IsCommitted, IsDelivered
  <2> QED
    BY <2>3, <2>4
<1>2. CASE Restart
  BY <1>2, RestartMove DEF Landed, InFlight, Restart, dbVars
<1>3. CASE ~Restart /\ ~\E c \in Calls : CallArrives(c) \/ CallContinues(c)
  <2>1. UNCHANGED calls
    BY <1>3, CallsAlone
  <2>2. DOMAIN requests' \subseteq DOMAIN requests
    BY <1>3, RecordsStay DEF PurgerWakes, purge_old_requests
  <2> QED
    BY <2>1, <2>2 DEF Landed
<1> QED
  BY <1>1, <1>2, <1>3

(***************************************************************************)
(* The three kinds of steps.                                               *)
(***************************************************************************)

\* The commit of a webhook that read a record which is gone.
CommitsOrphan ==
  /\ \E m \in inbox :
       /\ m.owner \notin DOMAIN requests \cup {NoCall}
       /\ events' \in {events, events \cup {[payload |-> m.hook, request |-> m.owner]}}
  /\ UNCHANGED <<requests, today, providerVars, calls, polls, restarts>>
  /\ inbox' = {} /\ UNCHANGED selected

\* What a step of the service, or a stutter of it, may be to the script and to
\* the webhook that has read.
Selects ==
  \/ selected' \in {{}, selected}
  \/ selected' = Purgeable /\ UNCHANGED vars

Reads ==
  /\ \E h \in hooks :
       inbox' = {[hook |-> h, owner |-> Owner(h), changes |-> Changes(h)]}
  /\ UNCHANGED vars

Holds ==
  /\ inbox' = inbox
  /\ UNCHANGED vars \/ \E d \in Calls : DocumentMoves(d)

\* There are no other steps.
LEMMA ScriptStep ==
  ASSUME InboxEmitted, [ScriptNext]_allVars
  PROVE  \/ ScriptDeletes
         \/ CommitsOrphan
         \/ [Next]_vars /\ Selects /\ (inbox' = {} \/ Reads \/ Holds)
<1> USE DEF Selects, Reads, Holds
<1>1. CASE ScriptSelects \/ ScriptFails \/ UNCHANGED allVars
  BY <1>1 DEF ScriptSelects, ScriptFails, allVars, scriptVars
<1>2. CASE \E h \in hooks : WebhookReads(h)
  BY <1>2 DEF WebhookReads
<1>3. CASE WebhookCommits
  <2>1. PICK m \in inbox : Commit(m)
    BY <1>3 DEF WebhookCommits
  <2>2. inbox' = {} /\ UNCHANGED selected
    BY <1>3 DEF WebhookCommits
  <2>3. CASE m.owner \in DOMAIN requests \cup {NoCall}
    <3>1. WebhookArrives(m.hook) /\ m.hook \in hooks
      BY <2>1, <2>3 DEF Commit, InboxEmitted
    <3> QED
      BY <2>2, <3>1 DEF Next
  <2>4. CASE m.owner \notin DOMAIN requests \cup {NoCall}
    BY <2>1, <2>2, <2>4 DEF Commit, CommitsOrphan
  <2> QED
    BY <2>3, <2>4
<1>4. CASE ServerStep
  BY <1>4 DEF ServerStep, Alone, scriptVars, Next
<1>5. CASE WorldMoves
  BY <1>5 DEF WorldMoves, scriptVars, Next
<1>6. CASE ScriptRestart
  BY <1>6 DEF ScriptRestart, Next
<1> QED
  BY <1>1, <1>2, <1>3, <1>4, <1>5, <1>6 DEF ScriptNext

(***************************************************************************)
(* A step of the service, whatever the script is about.                    *)
(***************************************************************************)

\* What the script selected stays due, however long it takes to delete it.
LEMMA SelectedStep ==
  ASSUME ScriptInv, [Next]_vars, Selects
  PROVE  SelectedAreDue'
<1>1. CASE selected' = {}
  BY <1>1 DEF SelectedAreDue
<1>2. CASE selected' = selected
  <2>1. ASSUME NEW r \in selected
        PROVE  /\ r \in Calls /\ Landed(r)'
               /\ r \in DOMAIN requests' => DueForPurge(r)'
    BY LandedStep, DueStep DEF ScriptInv, ServiceInv, SelectedAreDue
  <2> QED
    BY <1>2, <2>1 DEF SelectedAreDue
<1>3. CASE selected' = Purgeable /\ UNCHANGED vars
  <2>1. ASSUME NEW r \in Purgeable
        PROVE  r \in Calls /\ Landed(r) /\ DueForPurge(r)
    BY PurgeableIsDue
       DEF ScriptInv, ServiceInv, OwnersLanded, Purgeable, TypeInv, TypeOK, DbTypeOK
  <2> QED
    BY <1>3, <2>1 DEF SelectedAreDue, Landed, DueForPurge, vars
<1> QED
  BY <1>1, <1>2, <1>3 DEF Selects

\* Every record, and whatever an event or the inbox names, is of a call that
\* has landed.
LEMMA OwnersStep ==
  ASSUME ScriptInv, [Next]_vars, inbox' = {} \/ Reads \/ Holds
  PROVE  OwnersLanded'
<1>1. TypeInv /\ OwnersLanded /\ TypeInv'
  BY ServiceStep DEF ScriptInv, ServiceInv
<1>2. ASSUME NEW r \in DOMAIN requests'
      PROVE  Landed(r)'
  BY <1>1, LandedStep DEF OwnersLanded, TypeInv, TypeOK, DbTypeOK
<1>3. ASSUME NEW e \in events', e.request # NoCall
      PROVE  Landed(e.request)'
  <2>1. e.request \in Calls
    BY <1>1, <1>3 DEF TypeInv, TypeOK, DbTypeOK, ProviderEvent
  <2>2. CASE e \in events
    BY <1>1, <1>3, <2>1, <2>2, LandedStep DEF OwnersLanded
  <2>3. CASE e \notin events
    <3>1. e.request \in DOMAIN requests
      BY <1>1, <1>3, <2>3, EventStep DEF Owner
    <3> QED
      BY <1>1, <2>1, <3>1, LandedStep DEF OwnersLanded
  <2> QED
    BY <2>2, <2>3
<1>4. ASSUME NEW m \in inbox', m.owner # NoCall
      PROVE  m.owner \in Calls /\ Landed(m.owner)'
  <2>1. CASE Reads
    <3>1. m.owner \in DOMAIN requests
      BY <1>4, <2>1 DEF Reads, Owner
    <3>2. m.owner \in Calls
      BY <1>1, <3>1 DEF TypeInv, TypeOK, DbTypeOK
    <3> QED
      BY <1>1, <3>1, <3>2, LandedStep DEF OwnersLanded
  <2>2. CASE Holds
    BY <1>1, <1>4, <2>2, LandedStep DEF Holds, OwnersLanded
  <2> QED
    BY <1>4, <2>1, <2>2
<1> QED
  BY <1>2, <1>3, <1>4 DEF OwnersLanded

\* The body a webhook has read was emitted.
LEMMA InboxStep ==
  ASSUME ScriptInv, [Next]_vars, inbox' = {} \/ Reads \/ Holds
  PROVE  InboxEmitted'
<1>1. CASE Reads
  BY <1>1 DEF Reads, InboxEmitted, vars
<1>2. CASE Holds
  <2>1. hooks \subseteq hooks'
    BY <1>2 DEF Holds, vars, DocumentMoves, Signing, Open, Sign, Seal, Reject, Cancel, Move,
                Emit
  <2> QED
    BY <1>2, <2>1 DEF Holds, ScriptInv, InboxEmitted
<1> QED
  BY <1>1, <1>2 DEF InboxEmitted

\* A mark, once there, stays; the webhook leaves it together with its event.
LEMMA AppliedStep ==
  ASSUME ScriptInv, [Next]_vars
  PROVE  AppliedOrPurged'
<1>1. TypeInv /\ CreationInv /\ OwnersLanded /\ AppliedOrPurged
  BY DEF ScriptInv, ServiceInv
<1>2. SUFFICES ASSUME NEW e \in events', e.request \in DOMAIN requests',
                      e.payload.event \in Completions
               PROVE  requests'[e.request].stamped
  BY DEF AppliedOrPurged, Completions
<1>3. e.request \in Calls /\ e.request # NoCall
  BY <1>2, ServiceStep, IdAssumption DEF ScriptInv, ServiceInv, TypeInv, TypeOK, DbTypeOK
<1>4. CASE e \in events
  <2>1. e.request \in DOMAIN requests
    BY <1>1, <1>2, <1>3, <1>4, LandedStep DEF OwnersLanded
  <2>2. requests[e.request].stamped
    BY <1>1, <1>2, <1>4, <2>1 DEF AppliedOrPurged, Completions
  <2> QED
    BY <1>1, <1>2, <2>1, <2>2, StampKept
<1>5. CASE e \notin events
  <2>1. PICK h \in hooks : WebhookArrives(h) /\ e = [payload |-> h, request |-> Owner(h)]
    BY <1>1, <1>5, EventStep
  <2> QED
    BY <1>1, <1>2, <1>3, <2>1, WebhookStamps
<1> QED
  BY <1>4, <1>5

(***************************************************************************)
(* The other two steps.                                                    *)
(***************************************************************************)

\* Both only take records away, each old enough.
LEMMA OthersTrim ==
  ASSUME ScriptInv, ScriptDeletes \/ CommitsOrphan
  PROVE  Trims
<1>1. CASE ScriptDeletes
  <2>1. events \subseteq ProviderEvent(Hooks)
    BY DEF ScriptInv, ServiceInv, TypeInv, TypeOK, DbTypeOK
  <2>2. \A r \in selected \cap DOMAIN requests :
          requests[r].created < today - PurgeAfterDays
    BY DEF ScriptInv, SelectedAreDue, DueForPurge
  <2> QED
    BY <1>1, <2>1, <2>2 DEF ScriptDeletes, Trims
<1>2. CASE CommitsOrphan
  <2>1. PICK m \in inbox :
          /\ m.owner \notin DOMAIN requests \cup {NoCall}
          /\ events' \in {events, events \cup {[payload |-> m.hook, request |-> m.owner]}}
    BY <1>2 DEF CommitsOrphan
  <2>2. m.hook \in Hooks /\ m.owner \in Calls /\ events \subseteq ProviderEvent(Hooks)
    BY <2>1 DEF ScriptInv, InboxEmitted, OwnersLanded, ServiceInv, TypeInv, TypeOK,
                DbTypeOK, ProviderTypeOK
  <2>3. [payload |-> m.hook, request |-> m.owner] \in ProviderEvent(Hooks)
    BY <2>2 DEF ProviderEvent
  <2> QED
    BY <1>2, <2>1, <2>2, <2>3 DEF CommitsOrphan, Trims
<1> QED
  BY <1>1, <1>2

\* A deletion keeps the invariant: the ids it frees are never used again.
LEMMA DeletionStep ==
  ASSUME ScriptInv, ScriptDeletes
  PROVE  ScriptInv'
<1>1. ServiceInv'
  BY OthersTrim, TrimStep DEF ScriptInv
<1>2. SelectedAreDue'
  BY DEF ScriptDeletes, SelectedAreDue
<1>3. OwnersLanded' /\ InboxEmitted' /\ AppliedOrPurged'
  BY DEF ScriptInv, ScriptDeletes, OwnersLanded, Landed, InboxEmitted, AppliedOrPurged,
         providerVars
<1> QED
  BY <1>1, <1>2, <1>3 DEF ScriptInv

\* So does a webhook whose record is gone: the event it may leave names no
\* record, now or later.
LEMMA OrphanStep ==
  ASSUME ScriptInv, CommitsOrphan
  PROVE  ScriptInv'
<1>1. ServiceInv'
  BY OthersTrim, TrimStep DEF ScriptInv
<1>2. PICK m \in inbox :
        /\ m.owner \notin DOMAIN requests \cup {NoCall}
        /\ events' \in {events, events \cup {[payload |-> m.hook, request |-> m.owner]}}
  BY DEF CommitsOrphan
<1>3. Landed(m.owner)
  BY <1>2 DEF ScriptInv, OwnersLanded
<1>4. \A e \in events' : e \in events \/ e.request = m.owner
  BY <1>2
<1>5. SelectedAreDue'
  BY DEF CommitsOrphan, ScriptInv, SelectedAreDue, Landed, DueForPurge, providerVars
<1>6. OwnersLanded' /\ InboxEmitted'
  BY <1>3, <1>4 DEF CommitsOrphan, ScriptInv, OwnersLanded, Landed, InboxEmitted
<1>7. AppliedOrPurged'
  BY <1>2, <1>4 DEF CommitsOrphan, ScriptInv, AppliedOrPurged
<1> QED
  BY <1>1, <1>5, <1>6, <1>7 DEF ScriptInv

\* Every step keeps the invariant.
LEMMA ScriptInvStep ==
  ASSUME ScriptInv, [ScriptNext]_allVars
  PROVE  ScriptInv'
<1>1. CASE [Next]_vars /\ Selects /\ (inbox' = {} \/ Reads \/ Holds)
  <2>1. ServiceInv'
    BY <1>1, ServiceStep DEF ScriptInv
  <2> QED
    BY <1>1, <2>1, SelectedStep, OwnersStep, InboxStep, AppliedStep DEF ScriptInv
<1> QED
  BY <1>1, ScriptStep, DeletionStep, OrphanStep DEF ScriptInv

\* The initial states satisfy it.
LEMMA ScriptInvInit ==
  ASSUME ScriptInit
  PROVE  ScriptInv
<1>1. TypeInv
  BY InitTypeOK DEF ScriptInit, TypeInv, Init, PollsInit, IdlePoll, HasReply
<1>2. CreationInv /\ AckInv /\ ReplyInv
  BY IdAssumption
     DEF ScriptInit, Init, DbInit, CallsInit, CreationInv, RowsOfCalls, SentBeforeInsert,
         PastSend, KeyUnique, NoForeignResource, RecordedIsSent, AckInv, ReplyInv
<1>3. StatusInv /\ ErrorFree
  BY DEF ScriptInit, Init, DbInit, ProviderInit, PollsInit, IdlePoll, StatusInv,
         HooksTruthful, PollTruthful, DownloadIsSigned, ErrorFree
<1>4. SelectedAreDue /\ OwnersLanded /\ InboxEmitted /\ AppliedOrPurged
  BY DEF ScriptInit, Init, DbInit, SelectedAreDue, OwnersLanded, InboxEmitted,
         AppliedOrPurged
<1> QED
  BY <1>1, <1>2, <1>3, <1>4 DEF ScriptInv, ServiceInv

\* ScriptInv is an invariant of the composition.
LEMMA ScriptInvariant == ScriptSpec => []ScriptInv
<1>1. ScriptInit => ScriptInv
  BY ScriptInvInit
<1>2. ScriptInv /\ [ScriptNext]_allVars => ScriptInv'
  BY ScriptInvStep
<1> QED
  BY <1>1, <1>2, PTL DEF ScriptSpec, allVars

(***************************************************************************)
(* The theorems.                                                           *)
(***************************************************************************)

\* A webhook that was recorded under a record has left its mark there, unless
\* the record is purged, whatever the script deletes between its two steps.
THEOREM ScriptApplies == ScriptSpec => []AppliedOrPurged
<1>1. ScriptInv => AppliedOrPurged
  BY DEF ScriptInv
<1> QED
  BY <1>1, ScriptInvariant, PTL

\* Two purgers delete no more than one: what a client was told of is kept as
\* long as before.
THEOREM ScriptKeepsAcknowledged == ScriptSpec => []AcknowledgedIsKept
<1>1. ScriptInv => AcknowledgedIsKept
  BY DEF ScriptInv, ServiceInv, AckInv, AcknowledgedIsKept
<1> QED
  BY <1>1, ScriptInvariant, PTL

\* No write that meets a deletion makes a final status untrue.
THEOREM ScriptStatusesTrue == ScriptSpec => []FinalStatusTruthful
<1>1. ScriptInv => FinalStatusTruthful
  BY DEF ScriptInv, ServiceInv, StatusInv, RowTruthful, FinalStatusTruthful
<1> QED
  BY <1>1, ScriptInvariant, PTL

\* No write that meets a deletion brings the record back.
THEOREM ScriptPurgedGone == ScriptSpec => PurgedStaysGone
<1>1. ScriptInv /\ [ScriptNext]_allVars =>
        [\A r \in Calls : r \in DOMAIN requests' /\ r \notin DOMAIN requests
           => calls[r].pc = "accepted"]_vars
  <2>1. ASSUME ScriptInv, [ScriptNext]_allVars, NEW r \in DOMAIN requests',
               r \notin DOMAIN requests
        PROVE  calls[r].pc = "accepted"
    <3>1. ~Trims
      BY <2>1 DEF Trims
    <3>2. [Next]_vars
      BY <2>1, <3>1, ScriptStep, OthersTrim DEF ScriptInv
    <3> QED
      BY <2>1, <3>2, RowStep
         DEF ScriptInv, ServiceInv, RowSteps, Born, Kept, Expires, Polled, Hooked
  <2> QED
    BY <2>1
<1> QED
  BY <1>1, ScriptInvariant, PTL DEF ScriptSpec, allVars, PurgedStaysGone

\* The script deletes what it selected some time ago, and still no open request.
THEOREM ScriptOpenNotPurged == ScriptSpec => OpenIsNotPurged
<1>1. ScriptInv /\ [ScriptNext]_allVars =>
        [\A r \in DOMAIN requests \ DOMAIN requests' :
           requests[r].expires < today \/ docs[r] \in Signed \cup Refused]_vars
  <2>1. ASSUME ScriptInv, [ScriptNext]_allVars, NEW r \in DOMAIN requests,
               r \notin DOMAIN requests'
        PROVE  DueForPurge(r)
    <3>1. CASE ScriptDeletes
      BY <2>1, <3>1 DEF ScriptDeletes, ScriptInv, SelectedAreDue
    <3>2. CASE ~ScriptDeletes
      <4>1. [Next]_vars
        BY <2>1, <3>2, ScriptStep DEF CommitsOrphan, ScriptInv
      <4> QED
        BY <2>1, <4>1, RowLeaves, PurgeableIsDue DEF ScriptInv, ServiceInv
    <3> QED
      BY <3>1, <3>2
  <2> QED
    BY <2>1 DEF DueForPurge
<1> QED
  BY <1>1, ScriptInvariant, PTL DEF ScriptSpec, allVars, OpenIsNotPurged

\* The other invariants of the service are those of the service alone; only
\* EventOwnersExist is lost, with AppliedOrPurged in its place.
THEOREM ScriptServiceSafe ==
  ScriptSpec => [](/\ TypeOK
                   /\ KeyUnique /\ NoForeignResource /\ RecordedIsSent
                   /\ CompletionEvidence /\ ExpiredIsDue /\ DownloadIsSigned)
<1>1. ScriptInv => /\ TypeOK
                   /\ KeyUnique /\ NoForeignResource /\ RecordedIsSent
                   /\ CompletionEvidence /\ ExpiredIsDue /\ DownloadIsSigned
  BY DEF ScriptInv, ServiceInv, TypeInv, CreationInv, StatusInv, RowTruthful,
         CompletionEvidence, ExpiredIsDue
<1> QED
  BY <1>1, ScriptInvariant, PTL

\* A deletion rewrites no row it leaves and starts no poll, so a completion is
\* turned back by the same polls as before.
THEOREM ScriptReportsSettle == ScriptSpec => RollbackOnlyFromViewed /\ SealedRollbacksRunOut
<1>1. ASSUME ScriptInv, [ScriptNext]_allVars, NEW r \in DOMAIN requests, r \in DOMAIN requests'
      PROVE  /\ RollsBack(r) => StalePolls(r) # {}
             /\ docs[r] = "COMPLETED" => StalePolls(r)' \subseteq StalePolls(r)
             /\ requests[r].status = "completed" /\ requests'[r].status # "completed"
                  => StalePolls(r)' # StalePolls(r)
  <2>1. CASE Trims
    BY <1>1, <2>1 DEF Trims, RollsBack, IsTerminal, StalePolls
  <2>2. CASE [Next]_vars
    <3>1. TypeInv /\ CreationInv /\ StatusInv /\ r \in Calls
      BY <1>1 DEF ScriptInv, ServiceInv, TypeInv, TypeOK, DbTypeOK
    <3> QED
      BY <1>1, <2>2, <3>1, RollbackStep, SealedPollStep, CompletedStep
  <2> QED
    BY <1>1, <2>1, <2>2, ScriptStep, OthersTrim DEF ScriptInv
<1>2. ScriptInv /\ [ScriptNext]_allVars =>
        [\A r \in Calls : RollsBack(r) => StalePolls(r) # {}]_vars
  BY <1>1 DEF RollsBack
<1>3. ScriptInv /\ [ScriptNext]_allVars =>
        [\A r \in DOMAIN requests \cap DOMAIN requests' : docs[r] = "COMPLETED" =>
           /\ StalePolls(r)' \subseteq StalePolls(r)
           /\ requests[r].status = "completed" /\ requests'[r].status # "completed"
                => StalePolls(r)' # StalePolls(r)]_vars
  BY <1>1
<1> QED
  BY <1>2, <1>3, ScriptInvariant, PTL
     DEF ScriptSpec, allVars, RollbackOnlyFromViewed, SealedRollbacksRunOut

\* The callers of the API cannot tell the script from the purge: with both, the
\* service still looks like calls made one at a time on IdempotentStore.
THEOREM ScriptStoreImplemented == ScriptSpec => ImplementsStore
<1>1. ScriptInit => Store!Init
  BY InitMap DEF ScriptInit
<1>2. ScriptInv /\ [ScriptNext]_allVars => [Store!Next]_(Store!vars)
  <2>1. ASSUME ScriptInv, [ScriptNext]_allVars
        PROVE  [Store!Next]_(Store!vars)
    <3>1. RefInv
      BY <2>1 DEF ScriptInv, ServiceInv, RefInv
    <3>2. CASE Trims
      BY <3>1, <3>2, ForgetMap DEF Trims
    <3>3. CASE [Next]_vars
      BY <3>1, <3>3, StepMap
    <3> QED
      BY <2>1, <3>2, <3>3, ScriptStep, OthersTrim DEF ScriptInv
  <2> QED
    BY <2>1
<1> QED
  BY <1>1, <1>2, ScriptInvariant, PTL
     DEF ScriptSpec, allVars, ImplementsStore, Store!Spec

================================================================================
