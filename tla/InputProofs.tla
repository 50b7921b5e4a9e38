------------------------------ MODULE InputProofs ------------------------------
(***************************************************************************)
(* The document's way into the service, for all addresses, redirect        *)
(* bounds, limits and lengths: first the fetch alone, then the handler     *)
(* alone, then DocumentInput, which implements both, so that what is       *)
(* proved of each holds of the whole.                                      *)
(***************************************************************************)
EXTENDS DocumentInput, TLAPS

(***************************************************************************)
(* The loop. A fetch that is about to connect holds an address that was    *)
(* checked in this hop, and every earlier hop made one connection at most; *)
(* a body that is still being read is within the limit.                    *)
(***************************************************************************)
HopsMade == IF pc \in {"checking", "connecting"} THEN hop ELSE hop + 1

LoopInv ==
  /\ FetchTypeOK
  /\ OnlyCheckedPeers
  /\ BoundedBuffer
  /\ pc # "checking" /\ pc # "done" => hop <= MAX_REDIRECTS
  /\ pc # "done" => connections <= HopsMade
  /\ BoundedConnections
  /\ pc = "connecting" => ip \notin Forbidden
  /\ pc # "done" <=> outcome = "none"
  /\ pc # "done" => size <= MaxBytes

LEMMA LoopInit == FetchInit => LoopInv
  BY FetchAssumption
  DEF FetchInit, LoopInv, FetchTypeOK, OnlyCheckedPeers, BoundedBuffer, BoundedConnections,
      HopsMade, Pcs, Outcomes, Urls

\* The steps that end the fetch or only wait; a connection; a redirect; a body.
LEMMA LoopStep == LoopInv /\ [FetchStep]_fetchVars => LoopInv'
<1> SUFFICES ASSUME LoopInv, [FetchStep]_fetchVars PROVE LoopInv'
  OBVIOUS
<1> USE FetchAssumption
    DEF LoopInv, FetchTypeOK, OnlyCheckedPeers, BoundedBuffer, BoundedConnections,
        HopsMade, Pcs, Outcomes, Urls
<1>1. CASE RefuseUrl \/ RejectUrl \/ Fail \/ Finish
  BY <1>1 DEF RefuseUrl, RejectUrl, Fail, Finish, End
<1>2. CASE Resolve
  BY <1>2 DEF Resolve, Admits, End
<1>3. CASE Connect
  BY <1>3 DEF Connect, ConnectTo
<1>4. CASE Follow
  BY <1>4 DEF Follow
<1>5. CASE Accept
  BY <1>5 DEF Accept
<1>6. CASE Receive
  BY <1>6 DEF Receive, End
<1>7. CASE UNCHANGED fetchVars
  BY <1>7 DEF fetchVars
<1> QED
  BY <1>1, <1>2, <1>3, <1>4, <1>5, <1>6, <1>7 DEF FetchStep

LEMMA LoopInvariant == FetchSpec => []LoopInv
  BY LoopInit, LoopStep, PTL DEF FetchSpec

\* No redirect and no answer of a name server makes the fetch connect to an
\* address the check refuses.
THEOREM PeersChecked == FetchSpec => []OnlyCheckedPeers
<1>1. LoopInv => OnlyCheckedPeers
  BY DEF LoopInv
<1> QED
  BY <1>1, LoopInvariant, PTL

\* The loop connects at most MAX_REDIRECTS + 1 times.
THEOREM ConnectionsBounded == FetchSpec => []BoundedConnections
<1>1. LoopInv => BoundedConnections
  BY DEF LoopInv
<1> QED
  BY <1>1, LoopInvariant, PTL

\* The buffer exceeds the limit by one chunk at most, a document never does.
THEOREM BufferBounded == FetchSpec => []BoundedBuffer
<1>1. LoopInv => BoundedBuffer
  BY DEF LoopInv
<1> QED
  BY <1>1, LoopInvariant, PTL

\* The loop ends after 3 * (MAX_REDIRECTS + 1) + MaxBytes + 2 steps at most.
THEOREM StepsBounded == FetchSpec => EndsInBoundedSteps
<1>1. LoopInv /\ [FetchStep]_fetchVars =>
        [0 <= StepsLeft' /\ StepsLeft' < StepsLeft]_fetchVars
  <2>1. ASSUME LoopInv, FetchStep
        PROVE  0 <= StepsLeft' /\ StepsLeft' < StepsLeft
    <3> USE <2>1, FetchAssumption DEF LoopInv, FetchTypeOK, StepsLeft
    <3>1. CASE RefuseUrl \/ RejectUrl \/ Fail \/ Finish
      BY <3>1 DEF RefuseUrl, RejectUrl, Fail, Finish, End
    <3>2. CASE Resolve
      BY <3>2 DEF Resolve, Admits, End
    <3>3. CASE Connect
      BY <3>3 DEF Connect, ConnectTo
    <3>4. CASE Follow
      BY <3>4 DEF Follow
    <3>5. CASE Accept
      BY <3>5 DEF Accept
    <3>6. CASE Receive
      BY <3>6 DEF Receive, End
    <3> QED
      BY <3>1, <3>2, <3>3, <3>4, <3>5, <3>6 DEF FetchStep
  <2> QED
    BY <2>1
<1> QED
  BY <1>1, LoopInvariant, PTL DEF FetchSpec, EndsInBoundedSteps

(***************************************************************************)
(* The handler, with a fetch that returns what it promises.                *)
(***************************************************************************)

\* The rough rule in both directions: it lets every encoding of a document
\* within the limit pass, and none of one more than 12 bytes above.
LEMMA RuleOfThumb ==
  ASSUME NEW n \in Nat, NEW m \in Nat
  PROVE  /\ n <= m => EncodedLength(n) <= (m * 4) \div 3 + 16
         /\ EncodedLength(n) <= (m * 4) \div 3 + 16 => n <= m + 12
<1>1. n <= m => EncodedLength(n) <= (m * 4) \div 3 + 16
  BY DEF EncodedLength
<1>2. EncodedLength(n) <= (m * 4) \div 3 + 16 => n <= m + 12
  BY DEF EncodedLength
<1> QED
  BY <1>1, <1>2

LimitsInv ==
  /\ limit \in Nat
  /\ text \in Texts \cup {NoText}
  /\ source \in {"none", "text", "url"}
  /\ loaded \in Documents
  /\ source = "none" => answer \in {"none", "Unprocessable"}
  /\ source # "none" => Validates /\ (source = "text" <=> text # NoText)
  /\ loaded.size <= limit + 12
  /\ InlineLimitIsExact
  /\ SentIsTheOnlySource

LEMMA LimitsInvInit == LimitsInit => LimitsInv
  BY LimitsAssumption
  DEF LimitsInit, LimitsInv, InlineLimitIsExact, SentIsTheOnlySource, Documents, Nothing, Kinds

LEMMA LimitsInvStep == LimitsInv /\ [LimitsNext]_limitsVars => LimitsInv'
<1> SUFFICES ASSUME LimitsInv, [LimitsNext]_limitsVars PROVE LimitsInv'
  OBVIOUS
<1>1. CASE Validate
  BY <1>1 DEF Validate, Refuse, LimitsInv, Validates, HasUrl, HasText, InlineLimitIsExact,
         SentIsTheOnlySource
<1>2. CASE Decode
  <2>1. /\ text # NoText /\ text \in Texts
        /\ text.length \in Nat /\ text.holds \in Documents /\ text.holds.size \in Nat
        /\ text.decodes => EncodedLength(text.holds.size) <= text.length
    BY <1>2, LimitsAssumption
    DEF Decode, Loading, LimitsInv, Texts, Documents, IsEncoding, EncodedLength
  <2>2. UNCHANGED <<limit, documentUrl, text, source>> /\ source = "text"
    BY <1>2 DEF Decode, Loading, Load, Refuse
  <2>3. CASE IsTooLong(text.length) \/ ~text.decodes
    <3>1. loaded' = loaded /\ answer' = "BadRequest"
      BY <1>2, <2>3 DEF Decode, Refuse
    <3>2. text.decodes /\ text.length = EncodedLength(text.holds.size)
          => text.holds.size > limit
      BY <2>1, <2>3, RuleOfThumb DEF IsTooLong, LimitsInv
    <3> QED
      BY <2>1, <2>2, <3>1, <3>2
      DEF LimitsInv, InlineLimitIsExact, SentIsTheOnlySource, Validates, HasUrl, HasText
  <2>4. CASE ~(IsTooLong(text.length) \/ ~text.decodes)
    <3>1. /\ loaded' = text.holds
          /\ answer' = IF text.holds.size <= limit /\ text.holds.kind = "pdf"
                       THEN "Accepted" ELSE "BadRequest"
      BY <1>2, <2>4 DEF Decode, Load
    <3>2. EncodedLength(text.holds.size) <= (limit * 4) \div 3 + 16
      BY <2>1, <2>4 DEF IsTooLong, EncodedLength, LimitsInv
    <3>3. text.holds.size <= limit + 12
      BY <2>1, <3>2, RuleOfThumb DEF LimitsInv
    \* The empty text holds no PDF.
    <3>4. text.holds.kind = "pdf" => text.length > 0
      BY <2>1, <2>4 DEF Documents, EncodedLength
    <3>5. InlineLimitIsExact'
      BY <2>1, <2>2, <3>1 DEF InlineLimitIsExact
    <3>6. SentIsTheOnlySource'
      BY <2>1, <2>2, <3>1, <3>4
      DEF LimitsInv, SentIsTheOnlySource, Validates, HasUrl, HasText
    <3> QED
      BY <2>1, <2>2, <3>1, <3>3, <3>5, <3>6 DEF LimitsInv, Validates, HasUrl, HasText
  <2> QED
    BY <2>3, <2>4
<1>3. CASE Fetch
  BY <1>3, LimitsAssumption
  DEF Fetch, Load, Loading, Refuse, LimitsInv, InlineLimitIsExact, SentIsTheOnlySource,
      Validates, HasUrl, HasText, Documents
<1>4. CASE UNCHANGED limitsVars
  BY <1>4 DEF limitsVars, LimitsInv, InlineLimitIsExact, SentIsTheOnlySource, Validates,
                 HasUrl, HasText
<1> QED
  BY <1>1, <1>2, <1>3, <1>4 DEF LimitsNext

LEMMA LimitsInvariant == LimitsSpec => []LimitsInv
  BY LimitsInvInit, LimitsInvStep, PTL DEF LimitsSpec

\* An inline PDF that decodes to at most the limit is accepted, a larger one
\* refused, though its length is compared with limit * 4 // 3 + 16 first.
THEOREM LimitExact == LimitsSpec => []InlineLimitIsExact
<1>1. LimitsInv => InlineLimitIsExact
  BY DEF LimitsInv
<1> QED
  BY <1>1, LimitsInvariant, PTL

\* Never more than limit + 12 bytes are decoded.
THEOREM DecodingBounded == LimitsSpec => []DecodingIsBounded
<1>1. LimitsInv => DecodingIsBounded
  BY DEF LimitsInv, DecodingIsBounded
<1> QED
  BY <1>1, LimitsInvariant, PTL

\* What is sent came from the one source that is set.
THEOREM OnlySource == LimitsSpec => []SentIsTheOnlySource
<1>1. LimitsInv => SentIsTheOnlySource
  BY DEF LimitsInv
<1> QED
  BY <1>1, LimitsInvariant, PTL

(***************************************************************************)
(* The two together.                                                       *)
(***************************************************************************)

\* Seen from the loop, the handler only waits.
LEMMA InputFetches == InputSpec => FetchSpec
<1>1. InputInit => FetchInit
  BY DEF InputInit
<1>2. [InputNext]_inputVars => [FetchStep]_fetchVars
  BY DEF InputNext, InputStep, Await, Return, inputVars
<1> QED
  BY <1>1, <1>2, PTL DEF InputSpec, FetchSpec

\* What a step of the whole is to the handler.
LEMMA HandlerStep ==
  ASSUME LoopInv, limit = MaxBytes, [InputNext]_inputVars
  PROVE  [LimitsNext]_limitsVars
<1>1. CASE (Validate \/ Decode) /\ UNCHANGED fetchVars
  BY <1>1 DEF LimitsNext
<1>2. CASE Await
  BY <1>2 DEF Await
<1>3. CASE Return
  <2>1. CASE outcome = "Document"
    <3>1. size <= limit
      BY <2>1 DEF LoopInv, BoundedBuffer
    <3> QED
      BY <1>3, <2>1, <3>1 DEF Return, Fetch, LimitsNext
  <2>2. CASE outcome # "Document"
    <3>1. outcome \in {"BadRequest", "ServerError"}
      BY <1>3, <2>2 DEF Return, LoopInv, FetchTypeOK, Outcomes
    <3> QED
      BY <1>3, <2>2, <3>1 DEF Return, Fetch, LimitsNext
  <2> QED
    BY <2>1, <2>2
<1>4. CASE UNCHANGED limitsVars
  BY <1>4
<1> QED
  BY <1>1, <1>2, <1>3, <1>4 DEF InputNext, InputStep, inputVars

\* The limit the loop is given is the one the handler has, and stays so.
LEMMA LimitKept == InputSpec => [](limit = MaxBytes)
<1>1. InputInit => limit = MaxBytes
  BY DEF InputInit
<1>2. limit = MaxBytes /\ [InputNext]_inputVars => (limit = MaxBytes)'
  BY DEF InputNext, InputStep, Await, Return, Validate, Decode, Load, Refuse, inputVars,
         limitsVars
<1> QED
  BY <1>1, <1>2, PTL DEF InputSpec

\* With the loop in place of the one action the handler relies on, it gets
\* what that action promises, for every limit, chunk, redirect and address.
THEOREM PromiseKept == InputSpec => FetchKeepsPromise
<1>1. InputInit => LimitsInit
  BY DEF InputInit
<1>2. LoopInv /\ limit = MaxBytes /\ [InputNext]_inputVars => [LimitsNext]_limitsVars
  BY HandlerStep
<1> QED
  BY <1>1, <1>2, InputFetches, LoopInvariant, LimitKept, PTL
     DEF InputSpec, LimitsSpec, FetchKeepsPromise

\* So everything said of the loop and of the handler holds of the two together.
THEOREM InputSafe ==
  InputSpec => /\ [](OnlyCheckedPeers /\ BoundedConnections /\ BoundedBuffer)
               /\ [](InlineLimitIsExact /\ DecodingIsBounded /\ SentIsTheOnlySource)
               /\ EndsInBoundedSteps
<1>1. InputSpec => LimitsSpec
  BY PromiseKept DEF FetchKeepsPromise
<1> QED
  BY <1>1, InputFetches, PeersChecked, ConnectionsBounded, BufferBounded, StepsBounded,
     LimitExact, DecodingBounded, OnlySource, PTL

================================================================================
