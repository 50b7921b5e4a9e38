------------------------------ MODULE DocumentInput ----------------------------
(***************************************************************************)
(* DocumentLimits and DocumentFetch together: the create handler validates *)
(* its body, decodes the text or awaits fetch_document_safely, and goes on *)
(* with what it got. The handler's view of the fetch is DocumentLimits'    *)
(* one action Fetch; here it is the whole loop.                            *)
(***************************************************************************)
EXTENDS DocumentFetch, DocumentLimits

ASSUME InputAssumption == MaxBytes \in Limits /\ MaxBytes <= MaxLength

inputVars == <<fetchVars, limitsVars>>

InputInit == FetchInit /\ LimitsInit /\ limit = MaxBytes

\* The await, and what it returns or raises.
Await ==
  /\ Loading("url")
  /\ FetchStep
  /\ UNCHANGED limitsVars

Return ==
  /\ Loading("url")
  /\ pc = "done"
  /\ IF outcome = "Document"
     THEN \E d \in Documents : d.size = size /\ Load(d)
     ELSE Refuse(outcome)
  /\ UNCHANGED fetchVars

InputStep ==
  \/ (Validate \/ Decode) /\ UNCHANGED fetchVars
  \/ Await
  \/ Return

InputNext == InputStep \/ (answer # "none" /\ UNCHANGED inputVars)

InputSpec == InputInit /\ [][InputNext]_inputVars

\* What runs on this side of the connection: the handler, the head of the loop
\* and the lookup, which the resolver's timeouts end.
OwnStep ==
  \/ (Validate \/ Decode) /\ UNCHANGED fetchVars
  \/ pc = "checking" /\ Await
  \/ Return

\* Nothing is assumed of the host the document comes from: httpx limits each
\* read from the socket to 30 s, and no await as a whole.
InputFairSpec == InputSpec /\ WF_inputVars(OwnStep)

--------------------------------------------------------------------------------

\* The loop keeps the promise Fetch makes: with it in place of that action, the
\* handler still gets documents within the limit and refusals, and no more.
FetchKeepsPromise == LimitsSpec

\* Every request is answered, or it is stuck for good in one await on the host
\* of its document: connecting, before the headers, or between two chunks. No
\* redirects keep it busy for ever, and nothing else makes it wait for ever.
AnsweredUnlessHostStalls ==
  \/ <>(answer # "none")
  \/ \E await \in {"connecting", "waiting", "receiving"} : <>[](pc = await)

================================================================================
