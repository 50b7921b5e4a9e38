----------------------------- MODULE DocumentFetch -----------------------------
(***************************************************************************)
(* fetch_document_safely of app/security.py: one document of the create    *)
(* handler, fetched over several redirects. Name servers may answer every  *)
(* lookup differently, upstream servers may answer anything; the actions   *)
(* are the code between two awaits.                                        *)
(***************************************************************************)
EXTENDS Integers

CONSTANTS
  Addresses,      \* IP addresses
  Forbidden,      \* those _is_forbidden_ip is true of
  MAX_REDIRECTS,
  MaxBytes,       \* max_bytes
  MaxChunk        \* the most bytes httpx hands over at once

ASSUME FetchAssumption ==
  /\ Forbidden \subseteq Addresses
  /\ MAX_REDIRECTS \in Nat
  /\ MaxBytes \in Nat
  /\ MaxChunk \in Nat \ {0}

VARIABLES
  pc,           \* where the fetch is
  current,      \* `current`, as far as the loop looks at it
  hop,          \* `_hop`
  ip,           \* the address the connection is pinned to
  size,         \* len(buf)
  outcome,      \* what the handler gets or answers with
  peers,        \* history: the addresses connected to
  connections   \* history: how many connections, counted to one too many

fetchVars == <<pc, current, hop, ip, size, outcome, peers, connections>>

\* An https URL with a host; one the loop refuses, for its scheme or its host.
Urls == {"https", "refused"}

\* ServerError: httpx.InvalidURL is no HTTPError and passes every except.
Outcomes == {"none", "Document", "BadRequest", "ServerError"}
Pcs == {"checking", "connecting", "waiting", "receiving", "done"}

FetchInit ==
  /\ pc = "checking"
  /\ current \in Urls
  /\ hop = 0
  /\ ip \in Addresses
  /\ size = 0
  /\ outcome = "none"
  /\ peers = {}
  /\ connections = 0

End(o) == pc' = "done" /\ outcome' = o

(***************************************************************************)
(* The head of the loop, up to the thread that resolves the host.          *)
(***************************************************************************)
RefuseUrl ==
  /\ pc = "checking"
  /\ hop > MAX_REDIRECTS \/ current = "refused"
  /\ End("BadRequest")
  /\ UNCHANGED <<current, hop, ip, size, peers, connections>>

Admits(answer) == answer # {} /\ answer \cap Forbidden = {}

\* A failed lookup is an empty answer.
Resolve ==
  /\ pc = "checking"
  /\ hop <= MAX_REDIRECTS
  /\ current = "https"
  /\ \E answer \in SUBSET Addresses :
       IF Admits(answer)
       THEN /\ ip' \in answer
            /\ pc' = "connecting"
            /\ UNCHANGED outcome
       ELSE End("BadRequest") /\ UNCHANGED ip
  /\ UNCHANGED <<current, hop, size, peers, connections>>

(***************************************************************************)
(* One request. The connection goes to the address itself.                 *)
(***************************************************************************)
ConnectTo(a) ==
  /\ pc = "connecting"
  /\ pc' = "waiting"
  /\ peers' = peers \cup {a}
  /\ connections' = IF connections > MAX_REDIRECTS + 1 THEN connections
                    ELSE connections + 1
  /\ UNCHANGED <<current, hop, ip, size, outcome>>

\* Mutant: the client connects by name, which is looked up again.
ConnectByName == \E a \in Addresses : ConnectTo(a)

Connect == ConnectTo(ip)

RejectUrl ==
  /\ pc = "connecting"
  /\ End("ServerError")
  /\ UNCHANGED <<current, hop, ip, size, peers, connections>>

\* Mutant: the loop runs until there is a document.
FollowForEver ==
  /\ pc = "waiting"
  /\ pc' = "checking"
  /\ current' \in Urls
  /\ UNCHANGED <<hop, ip, size, outcome, peers, connections>>

Follow ==
  /\ pc = "waiting"
  /\ pc' = "checking"
  /\ current' \in Urls
  /\ hop' = hop + 1
  /\ UNCHANGED <<ip, size, outcome, peers, connections>>

\* A redirect without a Location, another status, an httpx.HTTPError.
Fail ==
  /\ pc \in {"connecting", "waiting", "receiving"}
  /\ End("BadRequest")
  /\ UNCHANGED <<current, hop, ip, size, peers, connections>>

(***************************************************************************)
(* The body. A chunk is what aiter_bytes yields, which is never empty. It  *)
(* may read on for ever and yield nothing, if the encoded data decodes to  *)
(* nothing: the timeout is one of each read from the socket.               *)
(***************************************************************************)
Accept ==
  /\ pc = "waiting"
  /\ pc' = "receiving"
  /\ UNCHANGED <<current, hop, ip, size, outcome, peers, connections>>

\* Mutant: the chunk is compared with the limit, and not the buffer.
ReceiveUnsummed ==
  /\ pc = "receiving"
  /\ \E n \in 1..MaxChunk :
       /\ size' = size + n
       /\ IF n > MaxBytes THEN End("BadRequest") ELSE UNCHANGED <<pc, outcome>>
  /\ UNCHANGED <<current, hop, ip, peers, connections>>

Receive ==
  /\ pc = "receiving"
  /\ \E n \in 1..MaxChunk :
       /\ size' = size + n
       /\ IF size' > MaxBytes THEN End("BadRequest") ELSE UNCHANGED <<pc, outcome>>
  /\ UNCHANGED <<current, hop, ip, peers, connections>>

Finish ==
  /\ pc = "receiving"
  /\ End("Document")
  /\ UNCHANGED <<current, hop, ip, size, peers, connections>>

FetchStep ==
  \/ RefuseUrl
  \/ Resolve
  \/ Connect
  \/ RejectUrl
  \/ Follow
  \/ Fail
  \/ Accept
  \/ Receive
  \/ Finish

FetchSpec == FetchInit /\ [][FetchStep]_fetchVars

--------------------------------------------------------------------------------

\* Every variable holds what the code's types allow.
FetchTypeOK ==
  /\ pc \in Pcs
  /\ current \in Urls
  /\ hop \in 0..MAX_REDIRECTS + 1
  /\ ip \in Addresses
  /\ size \in Nat
  /\ outcome \in Outcomes
  /\ peers \subseteq Addresses
  /\ connections \in Nat

\* No connection goes to an address the check refuses, on the first hop or on
\* any later one, although the same name may resolve differently every time.
OnlyCheckedPeers == peers \cap Forbidden = {}

\* One connection for the document and one for each redirect allowed.
BoundedConnections == connections <= MAX_REDIRECTS + 1

\* What is in memory exceeds the limit by no more than the last chunk, and
\* a document that is handed on does not exceed it.
BoundedBuffer ==
  /\ size <= MaxBytes + MaxChunk
  /\ outcome = "Document" => size <= MaxBytes

\* An upper bound of the steps the fetch still makes: three for each hop that
\* redirects, one for each byte that comes alone.
StepsLeft ==
  LET hops == 3 * (MAX_REDIRECTS + 1 - hop)
  IN  CASE pc = "checking"   -> hops + MaxBytes + 2
        [] pc = "connecting" -> hops + MaxBytes + 1
        [] pc = "waiting"    -> hops + MaxBytes
        [] pc = "receiving"  -> MaxBytes + 1 - size
        [] pc = "done"       -> 0

\* No chain of redirects and no trickle of bytes keeps the loop going: every
\* step brings its end nearer, whatever the servers answer. A step is one
\* redirect or one chunk; how long the await before it takes is not bounded.
EndsInBoundedSteps == [][0 <= StepsLeft' /\ StepsLeft' < StepsLeft]_fetchVars

================================================================================
