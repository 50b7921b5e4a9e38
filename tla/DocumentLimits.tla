---------------------------- MODULE DocumentLimits -----------------------------
(***************************************************************************)
(* How POST /v1/signature-requests gets from its body to the PDF it sends: *)
(* the validator and decoded_document of app/models.py, their use in       *)
(* app/main.py, and validate_pdf of app/pdf_utils.py. A text is known by   *)
(* its length and by what it decodes to.                                   *)
(***************************************************************************)
EXTENDS Integers

CONSTANTS
  Limits,     \* values of settings.MAX_PDF_BYTES
  MaxLength,  \* bound: the longest text and the largest document
  NoText      \* documentBase64 is None

ASSUME LimitsAssumption == Limits \subseteq Nat /\ MaxLength \in Nat

\* What pypdf makes of the bytes.
Kinds == {"pdf", "not_pdf", "encrypted", "unparsable", "no_pages"}

Documents == {d \in [size : 0..MaxLength, kind : Kinds] :
                d.size = 0 => d.kind = "not_pdf"}

EncodedLength(n) == 4 * ((n + 2) \div 3)

Nothing == [size |-> 0, kind |-> "not_pdf"]

\* b64decode(validate=True) wants the padding a document needs, and lets more
\* of it pass behind a document of whole groups.
IsEncoding(length, n) ==
  \/ length = EncodedLength(n)
  \/ n > 0 /\ n % 3 = 0 /\ length >= EncodedLength(n)

\* `decodes` is whether b64decode takes it; `holds` is then its document.
Texts ==
  {t \in [length : 0..MaxLength, decodes : BOOLEAN, holds : Documents] :
     IF t.decodes THEN IsEncoding(t.length, t.holds.size)
     ELSE t.length > 0 /\ t.holds = Nothing}

ASSUME NoTextAssumption == NoText \notin Texts

\* documentUrl: None, "", another scheme, or https.
DocumentUrls == {"none", "empty", "other", "https"}

VARIABLES
  limit,        \* settings.MAX_PDF_BYTES
  documentUrl,  \* body.documentUrl
  text,         \* body.documentBase64
  source,       \* where the document came from
  loaded,       \* the bytes in memory
  answer        \* the refusal, or Accepted: the document goes to the provider

limitsVars == <<limit, documentUrl, text, source, loaded, answer>>

LimitsInit ==
  /\ limit \in Limits
  /\ documentUrl \in DocumentUrls
  /\ text \in Texts \cup {NoText}
  /\ source = "none"
  /\ loaded = Nothing
  /\ answer = "none"

Refuse(a) == answer' = a /\ UNCHANGED <<limit, documentUrl, text, source, loaded>>

\* bool() of the two fields.
HasUrl == documentUrl \in {"other", "https"}
HasText == text # NoText /\ text.length > 0

\* Mutant: one source or the other, or both.
HasSomeSource == (HasUrl \/ HasText) /\ documentUrl # "other"

Validates == HasUrl # HasText /\ documentUrl # "other"

Validate ==
  /\ source = "none" /\ answer = "none"
  /\ IF Validates
     THEN /\ source' = IF text # NoText THEN "text" ELSE "url"
          /\ UNCHANGED <<limit, documentUrl, text, loaded, answer>>
     ELSE Refuse("Unprocessable")

Loading(from) == source = from /\ answer = "none" /\ loaded = Nothing

\* Mutant: no allowance for the last group.
IsTooLongTight(length) == length > (limit * 4) \div 3

\* Mutant: no check before the decoding.
IsTooLongNever(length) == FALSE

IsTooLong(length) == length > (limit * 4) \div 3 + 16

\* The bytes exist before their number is looked at.
Load(d) ==
  /\ loaded' = d
  /\ answer' = IF d.size <= limit /\ d.kind = "pdf" THEN "Accepted" ELSE "BadRequest"
  /\ UNCHANGED <<limit, documentUrl, text, source>>

Decode ==
  /\ Loading("text")
  /\ IF IsTooLong(text.length) \/ ~text.decodes
     THEN Refuse("BadRequest")
     ELSE Load(text.holds)

\* What fetch_document_safely promises: a document within the limit, or a
\* refusal. DocumentInput shows that it keeps it.
Fetch ==
  /\ Loading("url")
  /\ \/ \E a \in {"BadRequest", "ServerError"} : Refuse(a)
     \/ \E d \in Documents : d.size <= limit /\ Load(d)

LimitsNext == Validate \/ Decode \/ Fetch

LimitsSpec == LimitsInit /\ [][LimitsNext]_limitsVars

--------------------------------------------------------------------------------

\* The limit on an inline document is exact, though its text is first measured
\* by a rough rule: one that fits is accepted to the last byte, and refused one
\* byte above. (Superfluous padding may get it refused.)
InlineLimitIsExact ==
  text # NoText /\ source = "text" /\ answer # "none"
    /\ text.decodes /\ text.length = EncodedLength(text.holds.size)
  => (answer = "Accepted" <=> text.holds.size <= limit /\ text.holds.kind = "pdf")

\* The rough rule keeps decoding from filling the memory: never more than 12
\* bytes above the limit are decoded.
DecodingIsBounded == loaded.size <= limit + 12

\* A document that is sent to the signer came from the only source the body
\* has: with a text and a URL in one body, neither is sent.
SentIsTheOnlySource ==
  answer = "Accepted" => IF source = "text" THEN ~HasUrl ELSE ~HasText

\* "Exakt EINES der Felder documentUrl / documentBase64 muss gesetzt sein"
\* (app/models.py:22): of a body that passes, the field that is set is used.
GivenUrlIsUsed == source # "none" /\ HasUrl => source = "url"

================================================================================
