------------------------------ MODULE PaymentGate ------------------------------
(***************************************************************************)
(* SignatureService behind the x402 middleware _install_payment_middleware *)
(* puts before POST /v1/signature-requests. The middleware and the         *)
(* facilitator are libraries and services outside the repository: a        *)
(* payment is verified, then the handler runs, then the payment is settled *)
(* if the handler's status is below 400, then the handler's answer goes    *)
(* out. Of the facilitator only this is assumed: a payment settles once.   *)
(***************************************************************************)
EXTENDS SignatureService, Configuration

CONSTANTS
  Payments,   \* payments clients have signed
  NoPayment   \* a request without one

ASSUME PaymentAssumption == NoPayment \notin Payments

VARIABLES
  settings,  \* of this deployment
  gates,     \* the middleware's part of each POST call
  settled    \* the chain: the call each payment was settled for

gateVars == <<settings, gates, settled>>

(***************************************************************************)
(*   new       not there yet, or being verified                            *)
(*   serving   the handler has the request                                 *)
(*   settling  the handler has answered, the facilitator settles           *)
(*   replying  the handler's answer may go out                             *)
(*   closed    answered, or lost with the process                          *)
(***************************************************************************)
GatePcs == {"new", "serving", "settling", "replying", "closed"}
GateReplies == {"none", "PaymentRequired", "handler", "lost"}

Gate == [pc : GatePcs, payment : Payments \cup {NoPayment}, reply : GateReplies]

Bypassed == settings.X402_BYPASS_FOR_LOCAL_DEVELOPMENT

PaidInit ==
  /\ Init
  /\ settings \in {s \in Settings : enforce_production_safety(s)
                                      /\ s.SIGNATURE_PROVIDER = "documenso"}
  /\ gates \in [Calls -> [pc : {"new"}, payment : Payments \cup {NoPayment},
                          reply : {"none"}]]
  /\ settled = [p \in Payments |-> NoCall]

Pass(c, from, to) ==
  /\ gates[c].pc = from
  /\ gates' = [gates EXCEPT ![c].pc = to]

Close(c, reply) == gates' = [gates EXCEPT ![c].pc = "closed", ![c].reply = reply]

\* Mutant: errors are answered without their status.
StatusOfBody(answer) == 200

\* The status of each answer of create_signature_request, and what stands for
\* a body that is no answer.
StatusCode(answer) ==
  CASE answer = "Stored" -> 200
    [] answer = "Created" -> 201
    [] answer = "BadRequest" -> 400
    [] answer = "KeyReused" -> 409
    [] answer = "Unavailable" -> 502
    [] OTHER -> 500

(***************************************************************************)
(* Before the handler. Without the gate every request is served.           *)
(***************************************************************************)
Admit(c) ==
  /\ Bypassed \/ gates[c].payment # NoPayment
  /\ Pass(c, "new", "serving")
  /\ UNCHANGED <<vars, settings, settled>>

Turn(c) ==
  /\ ~Bypassed
  /\ gates[c].pc = "new"
  /\ Close(c, "PaymentRequired")
  /\ UNCHANGED <<vars, settings, settled>>

Serve(c) ==
  /\ gates[c].pc = "serving"
  /\ CallArrives(c) \/ CallContinues(c)
  /\ UNCHANGED gateVars

(***************************************************************************)
(* After the handler.                                                      *)
(***************************************************************************)
TakeAnswer(c) ==
  /\ calls[c].pc = "done"
  /\ IF ~Bypassed /\ StatusCode(calls[c].answer) < 400
     THEN Pass(c, "serving", "settling")
     ELSE Pass(c, "serving", "replying")
  /\ UNCHANGED <<vars, settings, settled>>

\* The facilitator's own reply may be lost: then the client has paid and is
\* asked to pay.
Settle(c) ==
  /\ gates[c].pc = "settling"
  /\ settled[gates[c].payment] = NoCall
  /\ settled' = [settled EXCEPT ![gates[c].payment] = c]
  /\ Pass(c, "settling", "replying") \/ Close(c, "PaymentRequired")
  /\ UNCHANGED <<vars, settings>>

\* Settled before, not funded any more, or older than max_timeout_seconds.
SettleFails(c) ==
  /\ gates[c].pc = "settling"
  /\ Close(c, "PaymentRequired")
  /\ UNCHANGED <<vars, settings, settled>>

Deliver(c) ==
  /\ gates[c].pc = "replying"
  /\ Close(c, "handler")
  /\ UNCHANGED <<vars, settings, settled>>

(***************************************************************************)
(* The rest of the service. Polling needs the token of a delivered answer. *)
(***************************************************************************)
PaidRestart ==
  /\ Restart
  /\ gates' = [c \in Calls |->
                 IF gates[c].pc \in {"serving", "settling", "replying"}
                 THEN [gates[c] EXCEPT !.pc = "closed", !.reply = "lost"]
                 ELSE gates[c]]
  /\ UNCHANGED <<settings, settled>>

Elsewhere ==
  /\ \/ \E p \in Pollers :
          \/ PollContinues(p)
          \/ \E r \in Calls : gates[r].reply = "handler" /\ PollStarts(p, r)
     \/ \E h \in hooks : WebhookArrives(h)
     \/ PurgerWakes
     \/ \E d \in Calls : DocumentMoves(d)
     \/ DayPasses
     \/ \E r \in Calls : SecondsPass(r)
  /\ UNCHANGED gateVars

PaidRest ==
  /\ \A c \in Calls : gates[c].pc = "closed"
  /\ UNCHANGED <<vars, gateVars>>

GateNext ==
  \/ \E c \in Calls :
       \/ Admit(c) \/ Turn(c) \/ Serve(c) \/ TakeAnswer(c)
       \/ Settle(c) \/ SettleFails(c) \/ Deliver(c)
  \/ PaidRestart
  \/ PaidRest

PaidNext == GateNext \/ Elsewhere

PaidSpec == PaidInit /\ [][PaidNext]_<<vars, gateVars>>

--------------------------------------------------------------------------------

\* Every variable holds what the code's types allow.
GateTypeOK ==
  /\ settings \in Settings
  /\ gates \in [Calls -> Gate]
  /\ settled \in [Payments -> Calls \cup {NoCall}]

\* Whoever was charged got something for it: a resource of the key and the
\* payload paid for, kept until it is older than PURGE_AFTER_DAYS. No error, no
\* lost race for a key and no crash before the commit is charged.
ChargedForResource ==
  \A p \in Payments : settled[p] # NoCall =>
    LET call == calls[settled[p]]
    IN  /\ call.row # NoCall
        /\ calls[call.row].key = call.key /\ calls[call.row].payload = call.payload
        /\ call.row \in DOMAIN requests \/ today > call.createdAt + PurgeAfterDays

\* In production no resource leaves the gate unpaid: each delivery has its own
\* settled payment, though several calls may carry one payment and all of them
\* are verified before any is settled.
ProductionIsPaid ==
  settings.APP_ENV = "production" =>
    \A c \in Calls : gates[c].reply = "handler" /\ calls[c].row # NoCall =>
      gates[c].payment # NoPayment /\ settled[gates[c].payment] = c

================================================================================
