----------------------------- MODULE PaymentProofs -----------------------------
(***************************************************************************)
(* Proofs about PaymentGate, for any number of calls, payments and crashes.*)
(* The gated service is SignatureService, so its theorems carry over; what *)
(* is added ties a payment to the answer it was settled for.               *)
(***************************************************************************)
EXTENDS PaymentGate, RefinementProofs

(***************************************************************************)
(* Every step of the gated service is a step of the service or a stutter.  *)
(***************************************************************************)
LEMMA GatedStep == [PaidNext]_<<vars, gateVars>> => [Next]_vars
<1> SUFFICES ASSUME [PaidNext]_<<vars, gateVars>> PROVE [Next]_vars
  OBVIOUS
<1>1. ASSUME NEW c \in Calls, Serve(c) PROVE Next
  BY <1>1 DEF Serve, Next
<1>2. ASSUME NEW c \in Calls,
             Admit(c) \/ Turn(c) \/ TakeAnswer(c) \/ Settle(c) \/ SettleFails(c) \/ Deliver(c)
      PROVE  UNCHANGED vars
  BY <1>2 DEF Admit, Turn, TakeAnswer, Settle, SettleFails, Deliver
<1>3. CASE PaidRestart
  BY <1>3 DEF PaidRestart, Next
<1>4. CASE Elsewhere
  BY <1>4 DEF Elsewhere, Next
<1>5. CASE PaidRest \/ UNCHANGED <<vars, gateVars>>
  BY <1>5 DEF PaidRest
<1> QED
  BY <1>1, <1>2, <1>3, <1>4, <1>5 DEF PaidNext, GateNext

\* So what is proved of the service can be used of the paid one.
LEMMA GatedService == PaidSpec => Spec
<1>1. PaidInit => Init
  BY DEF PaidInit
<1> QED
  BY <1>1, GatedStep, PTL DEF PaidSpec, Spec

\* A paying client, too, sees one resource per key and one effect per call.
THEOREM StoreBehindGate == PaidSpec => ImplementsStore
BY GatedService, StoreImplemented

(***************************************************************************)
(* What a call holds when it is answered.                                  *)
(***************************************************************************)
Success == {"Stored", "Created"}

AnswerInv ==
  \A c \in Calls :
    /\ calls[c].pc # "done" => calls[c].answer = "none"
    /\ calls[c].answer \in Success => calls[c].row \in Calls
    /\ calls[c].pc = "done" /\ calls[c].row # NoCall
         => calls[c].answer \in Success \cup {"Lost"}

\* A call's step leaves it unanswered, refuses it, or gives it a resource.
Unanswered(c) == calls'[c].pc # "done" /\ calls'[c].answer = calls[c].answer

IsTurnedDown(c) ==
  /\ calls'[c].pc = "done" /\ calls'[c].row = NoCall
  /\ calls'[c].answer \notin Success \cup {"Lost"}

IsServed(c) ==
  /\ calls'[c].pc = "done" /\ calls'[c].row \in Calls
  /\ calls'[c].answer \in Success

LEMMA AnswerMove ==
  ASSUME TypeInv, ReplyInv, NEW c \in Calls, CallArrives(c) \/ CallContinues(c)
  PROVE  /\ calls[c].pc # "done"
         /\ Unanswered(c) \/ IsTurnedDown(c) \/ IsServed(c)
<1>1. calls \in [Calls -> Call] /\ DOMAIN requests \subseteq Calls
  BY DEF TypeInv, TypeOK, CallsTypeOK, DbTypeOK
<1>2. calls[c].pc # "done"
  BY CallMove DEF MovesOn, IsRefused, IsReplayed, IsCommitted, IsDelivered
<1>3. ASSUME NEW from, NEW to, Goto(c, from, to)
      PROVE  calls'[c].pc = to /\ calls'[c].answer = calls[c].answer
  BY <1>1, <1>3 DEF Goto, Call
<1>4. ASSUME NEW a, Refuse(c, a)
      PROVE  calls'[c].pc = "done" /\ calls'[c].row = NoCall /\ calls'[c].answer = a
  BY <1>1, <1>4 DEF Refuse, Answer, Call
<1>5. ASSUME NEW r \in Calls, NEW n, Answer(c, "Stored", r, n) PROVE IsServed(c)
  BY <1>1, <1>5 DEF Answer, Call, IsServed, Success
<1>6. CASE RejectRequest(c) \/ ProviderFails(c) \/ FetchDocument(c)
  BY <1>2, <1>3, <1>4, <1>6 DEF RejectRequest, ProviderFails, FetchDocument, Success,
     Unanswered, IsTurnedDown
<1>7. CASE Replay(c)
  BY <1>1, <1>2, <1>4, <1>5, <1>7 DEF Replay, WithKey, Success, IsTurnedDown
<1>8. CASE Accept(c) \/ CreateDocument(c) \/ PrepareDocument(c) \/ SendDocument(c)
  BY <1>2, <1>3, <1>8 DEF Accept, CreateDocument, PrepareDocument, SendDocument, Unanswered
<1>9. CASE InsertRecord(c)
  <2>1. Hold(c) \/ Refuse(c, "IntegrityError")
    BY <1>9 DEF InsertRecord
  <2> QED
    BY <1>1, <1>2, <1>4, <2>1 DEF Hold, Call, Unanswered, IsTurnedDown, Success
<1>10. CASE DeliverCreated(c)
  BY <1>1, <1>2, <1>10 DEF DeliverCreated, Call, IsServed, Success, ReplyInv
<1> QED
  BY <1>6, <1>7, <1>8, <1>9, <1>10 DEF CallArrives, CallContinues, Arrive, Continue

\* What a crash answers.
LEMMA LostMove ==
  ASSUME TypeInv, Restart, NEW c \in Calls
  PROVE  calls'[c].answer = IF InFlight(c) THEN "Lost" ELSE calls[c].answer
BY DEF TypeInv, TypeOK, CallsTypeOK, Call, Restart, InFlight

LEMMA AnswerStep ==
  ASSUME TypeInv, ReplyInv, AnswerInv, [Next]_vars
  PROVE  AnswerInv'
<1>1. ASSUME NEW c \in Calls, CallArrives(c) \/ CallContinues(c)
      PROVE  AnswerInv'
  <2>1. \A d \in Calls : d # c => calls'[d] = calls[d]
    BY <1>1, OtherCalls
  <2> QED
    BY <1>1, <2>1, AnswerMove DEF AnswerInv, Unanswered, IsTurnedDown, IsServed, Success
<1>2. CASE Restart
  BY <1>2, RestartMove, LostMove DEF AnswerInv, InFlight, Success
<1> QED
  BY <1>1, <1>2, CallsAlone DEF AnswerInv

LEMMA AnswerInvariant == Spec => []AnswerInv
<1>1. Init => AnswerInv
  BY DEF Init, CallsInit, AnswerInv, Success
<1>2. TypeInv /\ ReplyInv /\ AnswerInv /\ [Next]_vars => AnswerInv'
  BY AnswerStep
<1> QED
  BY <1>1, <1>2, TypeInvariant, ReplyInvariant, PTL DEF Spec

(***************************************************************************)
(* The gate. A handler runs only while its gate is serving, so an answer   *)
(* that is being settled, and a call that was settled for, do not change.  *)
(***************************************************************************)
PaidFor(c) == gates[c].payment # NoPayment /\ settled[gates[c].payment] = c

GateOf(c) ==
  /\ gates[c].pc = "new" => calls[c].pc = "idle"
  /\ calls[c].pc \notin {"idle", "done"} => gates[c].pc = "serving"
  /\ gates[c].pc = "serving" =>
       calls[c].answer # "Lost" /\ (Bypassed \/ gates[c].payment # NoPayment)
  /\ gates[c].pc = "settling" =>
       gates[c].payment # NoPayment /\ calls[c].pc = "done" /\ calls[c].answer \in Success
  /\ gates[c].reply = "handler" => gates[c].pc = "closed"
  /\ gates[c].pc = "replying" \/ gates[c].reply = "handler" =>
       /\ calls[c].pc = "done"
       /\ Bypassed \/ calls[c].row = NoCall \/ PaidFor(c)

SettledInv ==
  \A p \in Payments : settled[p] # NoCall =>
    calls[settled[p]].pc = "done" /\ calls[settled[p]].row # NoCall

GateInv ==
  /\ GateTypeOK
  /\ settings.APP_ENV = "production" => ~Bypassed
  /\ SettledInv
  /\ \A c \in Calls : GateOf(c)

LEMMA GateInit == PaidInit => GateInv
<1> SUFFICES ASSUME PaidInit PROVE GateInv
  OBVIOUS
<1>1. /\ calls \in [Calls -> [pc : {"idle"}, key : Keys, payload : Payloads,
                             answer : {"none"}, row : {NoCall}, createdAt : {0}]]
      /\ gates \in [Calls -> [pc : {"new"}, payment : Payments \cup {NoPayment},
                             reply : {"none"}]]
      /\ settings \in Settings /\ enforce_production_safety(settings)
      /\ settled = [p \in Payments |-> NoCall]
  BY DEF PaidInit, Init, CallsInit
<1>2. GateTypeOK
  BY <1>1 DEF GateTypeOK, Gate, GatePcs, GateReplies
<1>3. settings.APP_ENV = "production" => ~Bypassed
  BY <1>1 DEF enforce_production_safety, Bypassed
<1>4. SettledInv /\ \A c \in Calls : GateOf(c)
  BY <1>1, IdAssumption DEF SettledInv, GateOf
<1> QED
  BY <1>2, <1>3, <1>4 DEF GateInv

\* What Pass and Close do to the gates.
LEMMA PassGate ==
  ASSUME GateTypeOK, NEW c \in Calls, NEW from, NEW to \in GatePcs, Pass(c, from, to)
  PROVE  /\ gates[c].pc = from /\ gates' \in [Calls -> Gate]
         /\ gates'[c].pc = to
         /\ gates'[c].payment = gates[c].payment /\ gates'[c].reply = gates[c].reply
         /\ \A d \in Calls : d # c => gates'[d] = gates[d]
BY DEF GateTypeOK, Gate, Pass

LEMMA CloseGate ==
  ASSUME GateTypeOK, NEW c \in Calls, NEW reply \in GateReplies, Close(c, reply)
  PROVE  /\ gates' \in [Calls -> Gate]
         /\ gates'[c].pc = "closed" /\ gates'[c].reply = reply
         /\ gates'[c].payment = gates[c].payment
         /\ \A d \in Calls : d # c => gates'[d] = gates[d]
BY DEF GateTypeOK, Gate, GatePcs, Close

\* The handler's status tells errors from resources.
LEMMA StatusCodes ==
  ASSUME NEW answer
  PROVE  StatusCode(answer) < 400 <=> answer \in Success
BY DEF StatusCode, Success

\* A step of the gate alone disturbs its own call only.
LEMMA GateMoves ==
  ASSUME TypeInv, AnswerInv, GateInv, NEW c \in Calls,
         \/ Admit(c) \/ Turn(c) \/ TakeAnswer(c) \/ SettleFails(c) \/ Deliver(c)
  PROVE  GateInv'
<1> USE DEF GatePcs, GateReplies
<1>1. /\ UNCHANGED <<vars, settings, settled>>
      /\ calls' = calls /\ Bypassed' = Bypassed
      /\ GateTypeOK /\ GateOf(c)
  BY DEF Admit, Turn, TakeAnswer, SettleFails, Deliver, vars, Bypassed, GateInv
<1>2. ASSUME gates' \in [Calls -> Gate], \A d \in Calls : d # c => gates'[d] = gates[d],
             GateOf(c)'
      PROVE  GateInv'
  <2>1. \A d \in Calls : d # c => GateOf(d)'
    BY <1>1, <1>2 DEF GateInv, GateOf, PaidFor
  <2> QED
    BY <1>1, <1>2, <2>1 DEF GateInv, GateTypeOK, SettledInv
<1>3. CASE Admit(c)
  BY <1>1, <1>2, <1>3, PassGate DEF Admit, GateOf, PaidFor, AnswerInv
<1>4. CASE Turn(c) \/ SettleFails(c)
  BY <1>1, <1>2, <1>4, CloseGate DEF Turn, SettleFails, GateOf, PaidFor
<1>5. CASE TakeAnswer(c)
  <2>1. calls[c].pc = "done" /\ gates[c].pc = "serving" /\ gates[c].reply # "handler"
    BY <1>1, <1>5 DEF TakeAnswer, Pass, GateOf
  <2>2. calls[c].answer \in Success \/ calls[c].row = NoCall
    BY <1>1, <2>1 DEF GateOf, AnswerInv
  <2>3. CASE ~Bypassed /\ calls[c].answer \in Success
    BY <1>1, <1>2, <1>5, <2>1, <2>3, PassGate, StatusCodes DEF TakeAnswer, GateOf, PaidFor
  <2>4. CASE Bypassed \/ calls[c].answer \notin Success
    BY <1>1, <1>2, <1>5, <2>1, <2>2, <2>4, PassGate, StatusCodes
    DEF TakeAnswer, GateOf, PaidFor
  <2> QED
    BY <2>3, <2>4
<1>6. CASE Deliver(c)
  BY <1>1, <1>2, <1>6, CloseGate DEF Deliver, GateOf, PaidFor
<1> QED
  BY <1>3, <1>4, <1>5, <1>6

\* A settlement takes a payment nobody was charged for.
LEMMA SettleMoves ==
  ASSUME TypeInv, AnswerInv, GateInv, NEW c \in Calls, Settle(c)
  PROVE  GateInv'
<1> USE DEF GatePcs, GateReplies
<1> DEFINE m == gates[c].payment
<1>1. /\ UNCHANGED <<vars, settings>> /\ calls' = calls /\ Bypassed' = Bypassed
      /\ GateTypeOK /\ GateOf(c) /\ gates[c].pc = "settling"
      /\ settled[m] = NoCall /\ settled' = [settled EXCEPT ![m] = c]
  BY DEF Settle, vars, Bypassed, GateInv
<1>2. m \in Payments /\ calls[c].pc = "done" /\ calls[c].row # NoCall
  BY <1>1, IdAssumption DEF GateOf, GateTypeOK, Gate, AnswerInv
<1>3. /\ settled' \in [Payments -> Calls \cup {NoCall}]
      /\ settled'[m] = c
      /\ \A p \in Payments : p # m => settled'[p] = settled[p]
  BY <1>1, <1>2 DEF GateTypeOK
<1>4. /\ gates' \in [Calls -> Gate]
      /\ \A d \in Calls : d # c => gates'[d] = gates[d]
      /\ gates'[c].payment = m
      /\ \/ gates'[c].pc = "replying" /\ gates'[c].reply # "handler"
         \/ gates'[c].pc = "closed" /\ gates'[c].reply = "PaymentRequired"
  BY <1>1, PassGate, CloseGate DEF Settle, GateOf
<1>5. SettledInv'
  BY <1>1, <1>2, <1>3 DEF GateInv, SettledInv
<1>6. GateOf(c)'
  BY <1>1, <1>2, <1>3, <1>4, PaymentAssumption DEF GateOf, PaidFor
<1>7. ASSUME NEW d \in Calls, d # c PROVE GateOf(d)'
  <2>1. GateOf(d) /\ gates'[d] = gates[d] /\ gates[d].payment \in Payments \cup {NoPayment}
    BY <1>1, <1>4, <1>7 DEF GateInv, GateTypeOK, Gate
  <2>2. PaidFor(d) => PaidFor(d)'
    BY <1>1, <1>3, <1>7, <2>1, IdAssumption DEF PaidFor
  <2> QED
    BY <1>1, <2>1, <2>2 DEF GateOf
<1> QED
  BY <1>1, <1>3, <1>4, <1>5, <1>6, <1>7 DEF GateInv, GateTypeOK

\* The handler moves behind its gate.
LEMMA ServeMoves ==
  ASSUME TypeInv, ReplyInv, AnswerInv, GateInv, NEW c \in Calls, Serve(c)
  PROVE  GateInv'
<1>1. /\ UNCHANGED gateVars /\ gates' = gates /\ settled' = settled
      /\ settings' = settings /\ Bypassed' = Bypassed
      /\ gates[c].pc = "serving" /\ (CallArrives(c) \/ CallContinues(c))
      /\ GateTypeOK /\ GateOf(c)
  BY DEF Serve, gateVars, Bypassed, GateInv
<1>2. \A d \in Calls : d # c => calls'[d] = calls[d]
  BY <1>1, OtherCalls
<1>3. calls[c].pc # "done" /\ calls'[c].answer # "Lost"
  BY <1>1, AnswerMove
     DEF AnswerInv, Unanswered, IsTurnedDown, IsServed, Success
<1>4. SettledInv'
  BY <1>1, <1>2, <1>3 DEF GateInv, SettledInv, GateTypeOK
<1>5. GateOf(c)'
  BY <1>1, <1>3 DEF GateOf
<1>6. \A d \in Calls : d # c => GateOf(d)'
  BY <1>1, <1>2 DEF GateInv, GateOf, PaidFor
<1> QED
  BY <1>1, <1>4, <1>5, <1>6 DEF GateInv, GateTypeOK

\* A crash closes the gates of all calls it loses.
LEMMA RestartMoves ==
  ASSUME TypeInv, AnswerInv, GateInv, PaidRestart
  PROVE  GateInv'
<1>1. /\ Restart /\ settled' = settled /\ settings' = settings /\ Bypassed' = Bypassed
      /\ GateTypeOK
  BY DEF PaidRestart, Bypassed, GateInv
<1>2. ASSUME NEW c \in Calls
      PROVE  /\ gates'[c].payment = gates[c].payment
             /\ IF gates[c].pc \in {"serving", "settling", "replying"}
                THEN gates'[c].pc = "closed" /\ gates'[c].reply = "lost"
                ELSE gates'[c] = gates[c]
  BY <1>1, <1>2 DEF PaidRestart, GateTypeOK, Gate
<1>3. gates' \in [Calls -> Gate]
  BY <1>1 DEF PaidRestart, GateTypeOK, Gate, GatePcs, GateReplies
<1>4. SettledInv'
  BY <1>1, RestartMove DEF GateInv, SettledInv, InFlight, GateTypeOK
<1>5. ASSUME NEW c \in Calls PROVE GateOf(c)'
  BY <1>1, <1>2, <1>5, RestartMove DEF GateInv, GateOf, PaidFor, InFlight
<1> QED
  BY <1>1, <1>3, <1>4, <1>5 DEF GateInv, GateTypeOK

\* The rest of the service touches neither calls nor gates.
LEMMA ElsewhereMoves ==
  ASSUME GateInv, Elsewhere \/ PaidRest \/ UNCHANGED <<vars, gateVars>>
  PROVE  GateInv'
<1>1. UNCHANGED <<calls, settings, gates, settled>>
  BY DEF Elsewhere, PaidRest, PollContinues, PollStarts, WebhookArrives, PurgerWakes,
         DocumentMoves, DayPasses, SecondsPass, vars, gateVars
<1> QED
  BY <1>1 DEF GateInv, GateTypeOK, SettledInv, GateOf, PaidFor, Bypassed

LEMMA GateInvariant == PaidSpec => []GateInv
<1>1. TypeInv /\ ReplyInv /\ AnswerInv /\ GateInv /\ [PaidNext]_<<vars, gateVars>>
      => GateInv'
  BY GateMoves, SettleMoves, ServeMoves, RestartMoves, ElsewhereMoves
  DEF PaidNext, GateNext
<1>2. PaidSpec => Spec
  BY GatedService
<1> QED
  BY <1>1, <1>2, GateInit, TypeInvariant, ReplyInvariant, AnswerInvariant, PTL
  DEF PaidSpec

\* Whoever was charged got a resource of the key and payload paid for, kept
\* until it is older than PURGE_AFTER_DAYS.
THEOREM ChargesBuyResources == PaidSpec => []ChargedForResource
<1>1. GateInv /\ NoForeignResource /\ AcknowledgedIsKept => ChargedForResource
  BY DEF GateInv, GateTypeOK, SettledInv, NoForeignResource, AcknowledgedIsKept,
         ChargedForResource
<1>2. PaidSpec => Spec
  BY GatedService
<1> QED
  BY <1>1, <1>2, GateInvariant, ResourcesOwn, AcknowledgedKept, PTL

\* In production each delivery of a resource has its own settled payment.
THEOREM ProductionPaid == PaidSpec => []ProductionIsPaid
<1>1. GateInv => ProductionIsPaid
  BY DEF GateInv, GateOf, PaidFor, ProductionIsPaid
<1> QED
  BY <1>1, GateInvariant, PTL

================================================================================
