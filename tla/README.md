# A TLA+ model of x402-signature-service

The service takes a PDF and a signer from a paying client, has Documenso mail the
document, and lets the client poll for the signature. It is one Python process with one
event loop and one worker (`Dockerfile:18`), a SQLite file, one provider account and a
webhook. Nothing in it runs in parallel, yet almost every handler awaits the provider, and
the table it read before the await may have been written by another handler, the webhook or
the retention task before it goes on. These modules model that part, the payment gate around it and
the computations inside it, model-check them and prove their safety properties for every size.

## Inventory

| Component | Source | State | Operations | Talks to |
|---|---|---|---|---|
| Create handler | `app/main.py:134-234` | handler-local | validate, look up the key, fetch, `create_and_send`, insert, 201 | tables, provider, fetch |
| Status and download | `main.py:236-308` | handler-local copy of a row | authorise, expire, sync with the provider, answer or download | tables, provider |
| Webhook handler | `main.py:314-373` | none | authenticate, drop duplicates, record the event, write the status | tables |
| Retention | `app/cleanup.py`, `main.py:90-109` | none | delete old records and their events, as a timer and as a script of its own | tables |
| Database | `app/db.py` | `signature_requests`, `provider_events` | insert, update, delete, UNIQUE keys | the file |
| Documenso adapter | `app/providers/documenso.py` | none | four requests to create, one for the status, two to download | Documenso |
| Documenso, signer | external | documents, webhooks | send, open, sign, seal, reject, cancel | webhook handler |
| Process | `main.py:79-130`, `config.py` | all of the above in memory | start, crash, restart | |
| Payment gate | `main.py:432-596` | none of its own | verify before, settle after a POST | facilitator |
| Guarded fetch | `app/security.py:72-153` | the current hop, a buffer | resolve, check, connect, follow at most 3 redirects | the document's host |
| Limits, PDF check | `app/models.py`, `app/pdf_utils.py` | none | refuse a bad body or document | |
| Fake provider | `app/providers/fake.py` | documents in memory | the provider's interface for development | |
| Discovery, schema, landing, logging | `app/discovery.py`, `app/logging_setup.py` | none | constant output | |

What is hard in it: two calls with one idempotency key that overlap; a call that fails, or
whose process dies, when the provider has already acted; rows read before an await and
written after it; webhooks that come before the record, twice, late or never; a purge
between a handler's load and its commit; a second process that deletes in the middle of a webhook's
transaction; payments settled after the fact; redirects and name servers that may say anything;
boundaries of days and sizes; and that a client which keeps asking does get the answer. `PROJECT.json` lists these hazards with their lines.

What makes each part correct:

* create: one record per key, an answer only of the caller's own resource, no record of
  an unsent document, no loss of an acknowledged record;
* status: what the record says is true of the document in every order of polls and webhooks,
  a completion leaves evidence for good, expiry is never early, a completion is seen in the end;
* retention: nothing before its time, nothing that is still open, everything in the end, no
  orphans, no way back;
* payment: whoever is charged has the resource, nothing leaves production unpaid, the service
  behind the gate is the service;
* fetch and limits: connections only to checked addresses, a bounded number of them, bounded
  memory, no document that fits refused, the source that was given used;
* fake provider: statuses move forward, a lost document does not leave its record open for ever.

## Modules

```
Identifiers
 ├─ SignatureDb ─┬─ StatusRules ─┬─ FakeProvider ─ MCFakeProvider (TLC)
 │               │               │       └─ FakeProofs (TLAPS)
 │               ├─ Retention ───│─────┐
 └─ DocumensoProvider ┐          │     │
                 ├─ CreateHandler ─────┤
                 ├─ StatusHandlers ────┼─ SignatureService ─┬─ StoreRefinement ─ MCSignatureService (TLC)
                 └─ WebhookHandler ────┘                    ├─ CleanupScript ─ MCCleanupScript (TLC)
                                         Configuration ─────┴─ PaymentGate ─ MCPaymentGate (TLC)

SignatureService ─ TypeProofs ─ SafetyProofs ─ RefinementProofs ─┬─ PaymentProofs (TLAPS)
                                                                 └─ ScriptProofs (TLAPS)
IdempotentStore ─ (INSTANCE) ─ StoreRefinement
DocumentFetch ─┬─ DocumentInput ─ MCDocumentInput (TLC)
DocumentLimits ┘
DocumentInput ─ InputProofs (TLAPS)
```

| Module | Models | State |
|---|---|---|
| `Identifiers` | ids, tokens and document ids are fresh, so all are named after the POST call that made them: `requests[c]` is the record of call `c`, `docs[c]` its document | |
| `SignatureDb` | the two tables with the columns the handlers read, and `utcnow()` in whole days | `requests`, `events`, `today` |
| `DocumensoProvider` | the provider's documents, the status API with `_STATUS_MAP`, the webhooks | `docs`, `hooks` |
| `CreateHandler` | `create_signature_request` with `create_and_send`, one action per stretch between two awaits | `calls` |
| `StatusRules` | what `_sync_status` decides about a row: overdue, due for a sync, the columns it writes | |
| `StatusHandlers` | `_sync_status` and the two GET handlers around it | `polls` |
| `WebhookHandler` | `documenso_webhook`, one step past its body | |
| `Retention` | `purge_old_requests`, one step | |
| `SignatureService` | all of them in one process, with time, crash and restart; the properties | `restarts` |
| `IdempotentStore` | no code: what the POST promises, a store with at most one resource per key on which every call takes effect at one moment | `store`, `asked`, `replies` |
| `StoreRefinement` | the refinement mapping from `SignatureService` to `IdempotentStore` | |
| `Configuration` | the three settings `enforce_production_safety` looks at | |
| `PaymentGate` | `SignatureService` with the x402 middleware before its POST calls | `settings`, `gates`, `settled` |
| `CleanupScript` | `SignatureService` with `python -m app.cleanup` beside it; the webhook's transaction in two steps | `selected`, `inbox` |
| `FakeProvider` | creation, polls and expiry over `app/providers/fake.py` | `store`, `restarts` |
| `DocumentFetch` | `fetch_document_safely`, cut at its awaits | `pc`, `current`, `hop`, `ip`, `size`, ... |
| `DocumentLimits` | from the body to the PDF: validator, base64 limits, `validate_pdf` | `limit`, `documentUrl`, `text`, `source`, `loaded`, `answer` |
| `DocumentInput` | the two together: the create handler awaits the fetch and goes on with what it returns | |

### From code to actions

*Handlers.* The event loop switches only at an `await`, so a handler is cut exactly there and
everything between two awaits, commits included, is one action. `calls[c].pc` and
`polls[p].pc` say where a handler waits.

| Code | Action |
|---|---|
| `main.py:139-149` refused header or body | `RejectRequest` |
| `157-167` key known: 200, or 409 | `Replay` |
| `169-183` key free: to the first await | `Accept` |
| `174-183` the fetch, its 400s | `FetchDocument` |
| `documenso.py:75-96` / `97-118` / `119-125` | `CreateDocument` / `PrepareDocument` / `SendDocument` |
| `main.py:195-197`, and exceptions it does not catch | `ProviderFails` |
| `199-223` insert; UNIQUE violation is a 500 | `InsertRecord` |
| `231-234` the 201 | `DeliverCreated` |
| `249-268`, `278-282` without an await | `AnswerFromRow` |
| `268-270` up to the await | `AskProvider` |
| `documenso.py:129-147`; its failures | `ProviderReplies`; `StatusCallFails` |
| `main.py:271-282`, then 290 or 298-301 | `FinishSync` |
| `documenso.py:149-161` | `FinishDownload` |
| `main.py:335-373` | `documenso_webhook` |
| `cleanup.py:19-42` from the timer at `main.py:95-103` | `PurgerWakes` |
| `cleanup.py:19-34` / `36-42` in the script | `ScriptSelects` / `ScriptDeletes`, or `ScriptFails` |
| `main.py:334-351` / `353-371` beside the script | `WebhookReads` / `WebhookCommits` |
| `main.py:125-128`, `588-596` and the middleware | `Admit`, `Turn`, `Serve`, `TakeAnswer`, `Settle`, `SettleFails`, `Deliver` |
| `security.py:107-114` / `116` / `118-131` | `RefuseUrl` / `Resolve` / `Connect` |
| `security.py:132-137` / `143-148` / `149` | `Follow` / `Receive` / `Finish` |
| `models.py:42-50` / `52-65` | `Validate` / `Decode` |
| `main.py:174-183` to / from `fetch_document_safely` | `Await` / `Return` |
| `fake.py:36-44` / `46-62` / `72-73` | `create_and_send` / `Sync`, `Cached` / `decline` |

*Provider calls.* A request reaches the provider in one step and is answered in a later one.
`ProviderFails` covers a request that never arrived and one whose reply was lost: whatever
`docs` says by then stays. A `ProviderError` is a 502; other `httpx` exceptions are not caught
and are a 500.

*Rows and sessions.* A GET handler holds a detached copy of the row. SQLAlchemy's UPDATE
carries only the attributes whose value differs from what was loaded, so `FinishSync` writes
`status` only if the reply differs from `loaded`, and `refresh` makes it go on with the row as
it is after the commit. A row purged meanwhile makes the commit (or the refresh) raise: the
request ends with a 500 and nothing is written.

*Webhooks.* `hooks` holds the bodies emitted so far. `WebhookArrives` may deliver any of them
at any time, again and again, or never. The table deduplicates by payload hash, so a body
delivered before its record exists is recorded without an owner and never applied.

*Time.* A day is the unit of `created_at`, `expires_at` and `PURGE_AFTER_DAYS`; seconds
matter only for the status cache, so `synced` is "never", "fresh" or "stale", and
`SecondsPass` or a new day ends freshness. `last_synced_at` is taken before the await: a slow
reply may be stale at once.

*Payment.* The middleware verifies, calls the handler, settles if the handler's status is below
400, and only then lets the answer out; if the settlement fails the client gets a 402 in its
place. `gates[c]` is the middleware's part of call `c`, `calls[c]` the handler's, as before. Several
calls may carry one payment. The GET probe on the same path has no handler: 405 is never settled.

*The script.* sqlite3 opens a transaction before the first write, so another process may commit
between a session's reads and its first write. Only the webhook reads rows and then inserts on
what it read without an await in between; it is split there. The purge in the server reads and
deletes too, but a row the script took meanwhile only makes its DELETE match nothing, of which SQLAlchemy
warns, and it goes on: together they delete what one of them would have, so `PurgerWakes` stays one step. An UPDATE
that matches nothing is raised (`Commit`). The other handlers' reads and writes are already separated by an await, where
`ScriptDeletes` falls like any purge.

*Crash.* `Restart` loses every handler in flight; tables and provider stay.

*Rest* is the stutter of a service with nothing in flight. Deadlock checking is on in every
run, so any other state without a successor (a handler stuck at an await) is an error.

### External parts

`docs` moves DRAFT, PENDING, SIGNED, COMPLETED, or from PENDING to REJECTED or CANCELLED.
SIGNED is the time between the last signature and the sealed document: the API still says
PENDING, the webhook already says DOCUMENT_SIGNED. This is how the adapter's map and the webhook map
use Documenso. That a document never moves back is an assumption about Documenso.

The middleware and the facilitator are libraries and services outside the repository, modelled
from how `main.py:432-596` configures them. Of the facilitator it is assumed that a payment settles
once; its reply may be lost, and it may refuse at any time (`SettleFails`: no funds, or the 120 s of
`main.py:577` are over).

## Properties

| Property | Says |
|---|---|
| `TypeOK` | types of all variables |
| `KeyUnique` | overlapping calls with one key never leave two records |
| `NoForeignResource` | an answer names a resource of the caller's own key and payload |
| `RecordedIsSent` | a record's document was sent |
| `AcknowledgedIsKept` | what was committed or answered with is there until `createdAt` + PURGE_AFTER_DAYS is past |
| `ImplementsStore` | overlapping calls, replays, failures, lost replies, crashes and purges look like calls made one at a time on `IdempotentStore` |
| `FinalStatusTruthful` | completed and declined are true of the document |
| `CompletionEvidence` | completed has completed_at; completed_at only for signed documents |
| `ExpiredIsDue` | expired only after the last day |
| `DownloadIsSigned` | only signed documents are downloaded |
| `AppliedCompletionKept` | the completed_at a webhook set is never lost to a late poll |
| `RollbackOnlyFromViewed` | the only step back from a terminal status is the one of finding 1 |
| `SealedRollbacksRunOut` | after the sealing no new poll of finding 1 arises, and each that is under way turns the completion back at most once |
| `EventOwnersExist` | no dangling or misfiled event rows |
| `PurgedStaysGone` | a purged record is not brought back by a poll in flight |
| `OpenIsNotPurged` | what a purge deletes has expired, or was signed or refused |
| `AppliedOrPurged` | beside the script: an event of a completion and its mark in the record are committed together |
| `ChargedForResource` | whoever was charged has a resource of the key and payload paid for |
| `ProductionIsPaid` | in production each delivered resource has a payment settled for it |
| `OnlyCheckedPeers` | no connection to a forbidden address, on any hop |
| `BoundedConnections`, `BoundedBuffer` | connections and memory of a fetch |
| `FetchKeepsPromise` | with the loop of `security.py` in it, the handler behaves as if the fetch were one step that returns a document within the limit or refuses |
| `EndsInBoundedSteps` | every step of the fetch brings its end nearer: at most 3 * (MAX_REDIRECTS + 1) + MaxBytes + 2 redirects and chunks |
| `AnsweredUnlessHostStalls` | every request is answered, or stuck in one await on the host of its document (liveness) |
| `InlineLimitIsExact` | the size limit on an inline document is exact to the byte |
| `DecodingIsBounded` | at most 12 bytes above the limit are ever decoded |
| `SentIsTheOnlySource` | a document is sent only when the body has no other |
| `StatusForward` | over the fake provider a status never moves back |
| `LostStoreSettles` | over the fake provider a polled record ends, though its document is lost (liveness) |
| `SignedIsReported` | a persistent client sees a sealed document as completed (liveness) |
| `NothingKeptForever` | every record is purged in the end (liveness) |

## Runs

The module of a run is named by its `.cfg` (`MCSignatureService` for the first four and findings 1 to 3,
`MCDocumentInput` for finding 4). TLC explores each completely.

| Run (cfg) | Instance | Checks | Distinct states |
|---|---|---|---|
| create (`MCCreate`) | 3 calls, 2 keys, 2 payloads, 4 days, 1 crash | `KeyUnique` `NoForeignResource` `RecordedIsSent` `ImplementsStore` | 453 000 |
| lifecycle (`MCLifecycle`) | 1 record, 2 clients, 4 days, 1 crash | `TypeOK`, six invariants of status and retention, `RollbackOnlyFromViewed`, `SealedRollbacksRunOut`, `PurgedStaysGone`, `OpenIsNotPurged` | 1 244 000 |
| two_records (`MCTwoRecords`) | 2 calls, 2 keys, 1 client, 2 days, at most 4 webhook bodies | `FinalStatusTruthful` `EventOwnersExist` | 2 100 000 |
| settling (`MCSettling`) | 1 record, 2 clients, 2 days, 1 crash, fair | `SignedIsReported` | 650 000 |
| terminal_rolled_back, viewed_unseen, same_payload | one or two calls | findings 1 to 3: TLC finds the violation | |
| payment (`MCPaymentGate`) | 2 calls, 1 key, 2 payloads, 2 payments, 3 days, 1 crash | `ChargedForResource` `ProductionIsPaid` | 268 000 |
| script (`MCCleanupScript`) | 1 record, 1 client, 4 days, `PURGE_AFTER_DAYS` 0, 1 crash, fair | `AcknowledgedIsKept` `AppliedOrPurged` `FinalStatusTruthful` `PurgedStaysGone` `OpenIsNotPurged` `NothingKeptForever` | 483 000 |
| fake (`MCFakeProvider`) | 2 records, autosign after 3 ticks, 4 days, 1 crash, fair | `StatusForward` `LostStoreSettles` | 197 000 |
| document_input (`MCDocumentInput`) | 3 redirects, 3 addresses, limit 4, chunks to 6, texts to 24 characters, fair | `OnlyCheckedPeers` `BoundedConnections` `BoundedBuffer` `InlineLimitIsExact` `DecodingIsBounded` `SentIsTheOnlySource` `FetchKeepsPromise` `EndsInBoundedSteps` `AnsweredUnlessHostStalls` | 26 000 |
| given_url (`MCGivenUrl`) | 1 redirect, 2 addresses, texts to 8 characters | finding 4: TLC finds the violation | |

Bounds and why they are enough:

* *Calls.* Three calls: one to insert, one that overlaps it, one that comes after its record was
  purged. Two where records may be mixed up. One where the property is of one record; the
  proofs cover any number.
* *Clients.* Two, because a stale write needs one slow and one fast handler; each may poll any
  number of times.
* *Days.* `MaxDay` lets a record be created late, expire and be purged (create, lifecycle,
  script). In `settling` the clock stops while the request is valid, so that a completion can be
  reported at all; the property excepts overdue requests, whose status is final in the code.
* *Crashes.* One: a second crash loses the same local state again.
* `FewHooks` (two_records only) bounds the emitted bodies to four, enough for a full signing of
  one document and an early webhook of the other.
* `CreateSpec` (create, same_payload) keeps the steps creation depends on: calls, purge,
  time, crash. Signing and polling read and write other columns and do not touch `calls`.
* *Payment.* Two calls and two payments: both calls may carry one payment, each its own, or none.
  `PaidCreateSpec` keeps the gate, the calls, purge, time and crash, for the reason of `CreateSpec`.
* *Script.* The days let a record be purged in the middle of everything else; two clients add
  nothing to the script's interleavings that `lifecycle` does not have.
* *Document.* `MAX_REDIRECTS` is the code's 3. Two public addresses and a private one give answers
  that are clean, mixed and forbidden; chunks may be larger than the limit of 4; 24 characters reach
  past the rough rule (5 + 16 there) and hold the documents of 3, 4 and 5 bytes around the limit with
  each of the paddings. The theorems cover every limit and length.
* *Fake.* Three ticks put the half between two of them. Its two clocks, the process's monotonic
  one and the calendar, move independently.
* Symmetry: calls, keys and clients are interchangeable. It is not used in the runs with
  liveness properties. Payloads are not symmetric where their expiry differs.

### Fairness

`DocumentInput` assumes weak fairness of what runs on the service's side (`OwnStep`): the handler, the head of
the loop, and the lookup, which the resolver's timeouts end. It assumes nothing of the host the document
comes from. httpx's 30 s (`security.py:124`) are those of one read from the socket: a host that sends a little now and
then, or encoded data that decodes to nothing, keeps an await open as long as it likes. So
`AnsweredUnlessHostStalls` promises an answer or one such await that never ends; what it excludes is every
other way to hang, above all a chain of redirects without an end. `FakeProvider` assumes
that days pass and that the client of a record keeps polling; nothing of the seconds or the cache.
`CleanupScript` assumes that days pass, that the purger in the server is a timer, and that a webhook
that has begun ends; nothing of the script, which may never be run and may fail whenever it is.
The rest of this section is about `SignatureService`.

`FairSpec` assumes weak fairness of: a GET handler's continuation (the event loop runs what is ready, and
Documenso, unlike a document's host, is taken to end its replies or to let `httpx` time out);
the purger (a timer that catches and logs every exception, `main.py:96-103`); days and seconds;
a client's next request (README: "Poll status"). It assumes strong fairness of
`ProviderReplies`: a provider asked again and again does not fail for ever. It assumes nothing of
the signer, of the webhooks, of crashes or of POST calls, which may be stuck in their fetch. Without the strong fairness the
property is false: the code keeps the cached status on every `ProviderError`.

`NothingKeptForever`, checked beside the script, speaks only of records that the bounded clock lets grow old
(`GrowsOld`); the bound is the model's, not the code's.

## Findings

1. *A terminal status is turned back* (`terminal_rolled_back`, code bug). The webhook handler
   keeps terminal statuses ("Terminal-Status nie zurueckdrehen", `main.py:365`); `_sync_status` does
   not. Poll loads "viewed" and awaits; Documenso answers PENDING; the webhook DOCUMENT_SIGNED
   commits "completed"; the poll commits "sent". The record is "sent" with a completed_at.
   The theorem `RollbackOnlyByStalePoll` says that this is the only way: a poll that loaded "sent" and got "sent" has
   nothing to write. `SignedIsReported` shows that a later poll repairs it.
2. *Viewed is forgotten* (`viewed_unseen`, divergence from `README.md:43`). The status API knows no
   "viewed", so the next poll writes "sent".
3. *An overlapping retry gets a 500* (`same_payload`, divergence from the comment at `main.py:155`). The
   key is looked up before the awaits; the second call mails a second document to the signer
   and fails on the UNIQUE key.
4. *An empty text hides the URL* (`given_url`, code bug). `models.py:44` takes a field as given if it
   is true, `main.py:171` if it is not None: with documentBase64 "" and a documentUrl the URL is
   ignored and the answer is 400.

Two observations that no run is about (answers carry no accessToken in the model, and the tables no
foreign key):

* A replay is a 200 without accessToken (`main.py:157-164`), which `discovery.py:119` requires of the
  answer, and the gate settles it: a client that lost its 201 pays again and still cannot poll.
* When the script deletes a record between the webhook's lookup and its insert and the
  record's columns do not change (an event that moves nothing), `Commit` stores the event with an id
  that is gone. The foreign key at `db.py:64` is not enforced by SQLite unless asked; the row is never
  deleted. Inside one process `EventOwnersExist` holds (theorem `EventOwners`).

The fake provider has neither finding 1 nor 2 (`StatusForward` is a theorem there): it reports "viewed" itself
and answers without suspending. The repository's tests run over it, so they cannot show them.

## Proofs

TLAPS proves, for every value of the constants, from the named assumptions and nothing else
(`IdAssumption`: NoCall is no call; `DbAssumption`: days are naturals and expiry at least one day, as
`models.py:39` demands; `ServiceAssumption`: MaxRestarts is a natural; `PaymentAssumption`: NoPayment is no
payment; `FetchAssumption`: forbidden addresses are addresses, bounds are naturals and a chunk may hold a
byte; `LimitsAssumption`, `NoTextAssumption`, `FakeAssumption`: the same kind of facts; `InputAssumption`: the
fetch is given the limit of the handler):

* `TypeProofs`: `TypeCorrect`.
* `SafetyProofs`: every safety and action property `SignatureService` has in the passing runs.
* `RefinementProofs`: `StoreImplemented`, the service implements `IdempotentStore`.
* `PaymentProofs`: `StoreBehindGate`, `ChargesBuyResources`, `ProductionPaid`.
* `ScriptProofs`, about `ScriptSpec`: `ScriptApplies`, `ScriptKeepsAcknowledged`, `ScriptStatusesTrue`,
  `ScriptPurgedGone` and `ScriptOpenNotPurged` are the safety properties of the run `script`;
  `ScriptServiceSafe`, `ScriptReportsSettle` and `ScriptStoreImplemented` carry over what the run leaves
  out: the other properties of the service except `EventOwnersExist` and
  `AppliedCompletionKept`, which speak of the owner of every event and are broken by the orphaned event of the
  second observation; `AppliedOrPurged` is what remains of the latter.
* `InputProofs`: of the fetch alone `PeersChecked`, `ConnectionsBounded`, `BufferBounded`, `StepsBounded`;
  of the limits alone `LimitExact`, `DecodingBounded`, `OnlySource`; of both, `PromiseKept`
  (`DocumentInput` implements what `DocumentLimits` expects of the fetch) and `InputSafe` (all the others
  hold of the two together).
* `FakeProofs`: `FakeMovesForward`.

The argument. `SafetyProofs` first says what any step may do to one row (`RowStep`: it is inserted,
left alone, expired, written by a poll, written by a webhook), one call (`CallStep`), one document
(`DocStep`) and one poll (`PollStep`). After that no proof looks at an action again, except the
purge. Then one inductive invariant per group, each stronger than its properties for a reason:

| Invariant | Adds to the properties | Because |
|---|---|---|
| `TypeInv` | a handler past its await has a reply | `TypeOK` alone lets `FinishSync` write the reply "none" |
| `CreationInv` | rows keep key and payload of their call; past the send, the document is sent | a row's key must be found by `WithKey` whatever was written since |
| `StatusInv` | every webhook emitted, and every reply waiting, is true of its document and stays so; polls loaded an open status | a late write is true because what it carries cannot become false |
| `EventInv` | event rows hold bodies the provider emitted, completions stamped | |
| `AckInv` | while the record is there, its created_at is the createdAt the call knows | the purge tests created_at, the property speaks of createdAt |

The refinement maps `store` to each key's record (`KeyUnique`, from `CreationInv`, makes the choice the
only one), and a call's reply to the resource it holds, from the commit on: the commit, and not the
201, is the moment the call takes effect, so a crash in between loses an answer and no effect. Its own
invariant, `ReplyInv`, says that a call holds nothing before its commit. `CallMove` classifies a
call's steps (it moves on, is refused, is replayed, commits, delivers) and `CallMap`, `PurgeMap`,
`RestartMap` and `OtherMap` map each to a step of the store or to a stutter. The run `create` checks the
same mapping with TLC.

The action properties follow from the step lemmas under these invariants. `OpenNotPurged` needs one
more: no step gives a row the status "error" (`ErrorFree`), so a terminal row is a signed, a refused
or an overdue one. `SealedReportSettles` is the part of `SignedIsReported` that needs no fairness: once a
document is sealed a poll can be told nothing but "completed", so the polls that can turn its record back (finding 1)
are those that were told "sent" before (`SealedPollStep`), and each is over when it has done so (`CompletedStep`).
A completion of a sealed document is thus turned back at most as often as there were such polls at the sealing.

The gate. Each step of `PaymentGate` is a step of `SignatureService` or leaves it alone, which is how the module is
built (lemma `GatedService`); so every theorem above holds of the paid service (`StoreBehindGate` says it of the store), and `ChargesBuyResources` uses
`ResourcesOwn` and `AcknowledgedKept` as they stand. What it adds is where a payment may settle: only while
the gate holds a call that ended with a status below 400, and only "Stored" and "Created" are such
answers. `ProductionPaid` needs that a call has one payment, a payment one call, and that a gate past the
settlement holds the payment settled for its own call.

The script. `ScriptInv` has two halves. `ServiceInv` is the invariants above without `EventInv`, which the
orphaned event of the second observation breaks. The rest speaks of what is carried from one step to a later one:
a record the script selected is due for the purge as long as it is there (`SelectedAreDue`: it stays old, and
signed, refused or overdue, whatever a poll or a webhook does to it meanwhile); the event a webhook is about to
commit was emitted (`InboxEmitted`); and the ids that the selection, the inbox and the events hold belong to calls
past their commit (`OwnersLanded`). A call commits once, so such an id is of the same record or of none, and a
deletion on an old reading cannot hit a new record: `selected` and `inbox` need no locks for that. There are
then three kinds of steps (`ScriptStep`). A step of the service is covered by `ServiceStep`, the lemmas
of the one process. A deletion, and the commit of a webhook whose record is gone, are both a `Trims`:
they only take away records older than PURGE_AFTER_DAYS, and `TrimStep` shows once that `ServiceInv` does not
mind. For the store, `ForgetMap` maps any such deletion to evictions (`PurgeMap` is its case for the
purger). The conjuncts of `ScriptInv` and the refinement were checked with TLC, for one call with a client
and for two calls, before they were proved.

The fetch. `LoopInv` ties the connections made to `hop` and to where the loop stands, and says
that an address that is about to be connected to was checked. The limits: `RuleOfThumb` is the
arithmetic fact that a document of n bytes is refused by the rough rule only if n is above the limit, and passes it
only up to limit + 12. `PromiseKept` joins the two: while the handler waits only the loop moves, and what
`LoopInv` says of a finished loop (a document within the limit, or one of two refusals) is what the
handler's own step `Fetch` may return. `StepsBounded` gives the loop a bound: a redirect costs three steps and raises
`hop`, a chunk raises `size`, so `StepsLeft` falls with every step and is never negative. It counts redirects
and chunks; the time of an await is not bounded by the code. The fake provider: `SeenStaysSeen` says that an entry whose record was seen "viewed" is not
"sent" again, because an entry ages and a lost one answers nothing.

Model-checked only: `SignedIsReported`, `NothingKeptForever`, `AnsweredUnlessHostStalls` and `LostStoreSettles` (liveness
is beyond the proof system; `SealedReportSettles` and `StepsBounded` are what of the first and the third is safety), the
violations, and absence of deadlock.

## Not modelled

* The refusals that change nothing (missing header, 401, 404, 503) are not actions of their own.
* Which address ranges `ipaddress` calls private, what pypdf accepts, the lengths and formats of the
  other body fields: libraries and declarations. They are constants, kinds or one rejection.
* What is inside the x402 middleware: signatures, prices, networks, headers. What a payment is
  worth is not in the model.
* The event type DOCUMENT_VIEWED is in the map as in the code; Documenso is modelled to emit
  DOCUMENT_OPENED.
* Field contents, hashing, masking, HTML, discovery documents, logs. Hashes are taken as
  collision-free.
* Finer time than a day for expiry and retention.
* Two servers on one file: the deployment has one worker (`Dockerfile:18`). The script is the only other
  process.
* Liveness behind the payment gate: nothing makes a client pay.
* The gate over the fake provider: a production process refuses to start with it, and `PaymentGate` has Documenso
  only, so of the two flags `ProductionIsPaid` is about the bypass.
* Who sends a request: an idempotency key is the service's, not a client's.

## Plan

The order was: the tables, the handlers and the process; the idempotent store they implement;
then the gate around them, the script beside them, and the computations inside them (fetch,
limits, the fake provider). Each was model-checked, then its safety proved. What could follow:

1. The event table beside the script: which orphans there can be. An event without its record is one whose
   webhook read before the deletion and committed after it; `ScriptSpec` has no property that says so yet.
2. A second provider beside Documenso, if the repository gets one: `FakeProvider` shows how much of
   the service is independent of it (`StatusRules`).
