# A TLA+ model of the electronic-signature platform

This directory is a verification development for the repository's own core: the life of
one document from its draft to its finalized artifact, the job queue that drives the
asynchronous part of it, the audit chain that records it, the objects it is stored in, the
requests it is changed by, the page a signer uses, and the test doubles that stand for the
database in the application's tests. TLC checks every module on small instances; TLAPS
proves the safety properties of every module for all instances.
`PROJECT.json` lists the runs, the source lines behind every definition, the hazards and
the theorems.

To check it: `tlc -workers 2 -config <cfg> <MC module>` for a run (the pairs are in
`PROJECT.json`), `tlapm <module>Proofs.tla` for the proofs
(those of `Signing` are in `FinalizationProofs`).

## 1. The system and its parts

The product is an API process (Express), any number of worker processes, one
PostgreSQL database and one object store. Requests and jobs run concurrently and
share only database rows and objects, so that all coordination is in conditional
updates (`updateMany ... where version = ...`), unique indexes, row and advisory
locks, and leases. A handler as a rule reads rows outside any transaction, decides,
and then commits one transaction (READ COMMITTED) whose conditions it chose on what
it read. Nearly everything that is hard about this code lies between that read and
that commit.

| Component | State it keeps | Operations | Interacts with | What makes it correct |
| --- | --- | --- | --- | --- |
| Outbox queue, worker polling | `outbox_events`, `background_jobs`: status, lease owner and end, attempts, availability | publish, claim (SKIP LOCKED, expired leases included), handler, markProcessed, markFailed, drain, crash | every transaction publishes into it; workers run the handlers | one owner inside a lease, a stale worker settles nothing, event and job agree, everything is settled in the end |
| Preparation | document state, version, inspection and source; upload session; signers; fields | create draft, complete upload, inspect, abandon upload, replace signers, replace fields, send, void | inspection runs as a job; send hands over to signing | only an inspected source is prepared or sent; a sent roster stays |
| Signing | document, signer status, signing sessions, consents | send, exchange a link, view, consent, complete, decline, rotate, revoke, void, expire | each completion publishes a flatten job | routing order, consent and exchange before a signature, a closed document takes no signature, the last signature completes |
| Flattening and finalization | document lease, current revision, flattened fields, artifact, flatten jobs | flattenSignature: load, lease, stamp, commit, fail, release | competes with signing for the document row | no stamp lost or repeated, an artifact shows every signature, a completed document is finalized or fails |
| Audit chain | `audit_logs`, checkpoints in the object store | append (in every transaction), verify, anchor | advisory lock per document | the chain has no gap and no wrong link; checkpoints agree with it |
| Idempotency | `idempotency_records` | find, insert, replay, refuse, complete | create, send, void, sign | a key takes effect once; a retry gets the stored result |
| Objects and orphan clean-up | objects in S3 or on a filesystem; the rows that name them | put before the row, get, list by age, check the reference, delete | uploads and flattening write, the worker sweeps | what a row names exists; what no row names goes |
| Account sessions | `account_sessions`, memberships | login with rotation, logout, revoke, check | every authenticated route | a revoked session authenticates nobody |
| Rate limiting, overload, timeout | counters in memory | admit, refuse, release, time out | every route | the in-flight count is the number of open responses |
| Signing page | screen, refs and ink in the browser | load, exchange, consent, capture, review, submit, retry, expire | through a proxy with a timeout to the signing API | outcome screens are true, ink is wiped at the end, no spinner stays |
| In-memory adapters | the same rows as maps | the repository ports | stand for PostgreSQL in the application's tests | answer and store what the Prisma adapters do |
| PDF code, notifications, configuration, contracts, logging, metrics, seeds | none that is shared | | | inputs and I/O of the above |

Hard behaviours, in the order of how much they are worth modelling: reads that are stale
at the commit (signing, preparation, finalization); leases that run out under a worker
that is still running; crashes between two steps of a worker; jobs delivered twice and in
any order; statements of one transaction that see different snapshots; retries that
exhaust a budget; handlers that outlive their response; objects and rows that no
transaction covers together; asynchronous functions of one page that overlap.
`PROJECT.json` lists them at their lines under "hazards".

## 2. Modules

| Module | Models | Relation |
| --- | --- | --- |
| `JobDelivery` | what the outbox promises: at-least-once delivery, final settlement | abstract |
| `OutboxQueue` | the queue, its workers and the clock | implements `JobDelivery` (`DeliverySpec`) |
| `Preparation` | one document from the draft to send or void | |
| `DocumentLifecycle` | what signing looks like from outside: document and roster in single steps | abstract |
| `Signing` | one document from send to completion, void or decline | implements `DocumentLifecycle` (`LifecycleSpec`) |
| `Finalization` | flatten jobs and the document lease | extends `Signing`, composed with it |
| `AuditChain` | audit log of one document, verification, checkpoints | |
| `ObjectStore` | objects, writers, readers and the clean-up, both storage drivers | |
| `ApiRequests` | middleware, account session and idempotency record around one mutation | |
| `SignerClient` | the signing page, the proxy and the API's answers to one signer | |
| `Adapters` | the Prisma and the in-memory repositories, call by call | |
| `<module>Proofs` | theorems about `OutboxQueue`, `Preparation`, `Finalization`, `AuditChain`, `ObjectStore`, `ApiRequests`, `SignerClient` and `Adapters` | extend the module; `FinalizationProofs` begins with the theorems about `Signing`, which it composes |
| `MC*` | constants, initial states and symmetry for TLC; `MCWorker` and `MCPersistence` put modules that share no state side by side | extend the above |

Operators named "Variant" are deliberate errors. No specification uses them; each
replaces the definition after it in a test of the properties, to show that the
property notices the error.

### OutboxQueue

`event` and `job` are the two rows of a published job, `worker` what each worker
process does and remembers of its claim, `accepting` whether it still polls.
`Publish` is `publish` in the publisher's transaction; `Claim` is `claimNextByType`
(pending and due, or processing with an expired lease); the handler returns or
throws (`HandlerReturns`, `HandlerThrows`); `MarkProcessed` and the failure actions
are the claimer's settlements with their conditions on the lease owner, followed by
the job's row; `MarkProcessedThrows` is a settlement lost after the handler has
returned, which the code treats as a failed attempt. `Crash` and `Shutdown` end a
process (`Crash` at once, leaving its row leased; `Shutdown` after the handler that
runs), and a new one takes its slot. `Tick` moves the clock: leases and delays are kept
relative to now, so that time needs no bound. Backoff with jitter is a choice between
the bounds the code computes.

Each claimer method is one SQL transaction and one step. Which claimable row is
picked is left open.

### Signing

A request is two or three steps: it loads, it checks the roster, it commits; `Abort` is
every way it ends without a commit. Loads copy what the handler has read, commits test
what the repositories' conditional updates test, in one step. Expiry of a session is
written by the read that notices it, at any time (`ExpireOnRead`). Row versions of signers
and sessions change exactly with a column the update tests anyway, and are left out. A
replay by idempotency key changes nothing and is no step. `commits` and `exchanges` count
audit events of a signer and of a session, `commits` is also the number of flatten jobs
published.

`DocumentLifecycle` is what all this is to look like from outside: document and roster
change in single steps (send, sign, complete, decline, void), each of which finds the
state, the signer and those ahead of the signer as they are at that moment. It has no
requests, reads or sessions. Only two things remain of the races: the last signature may
leave the document in progress (run `signing_last`), and `Complete` is the second
submission that repairs it.

### Finalization

Extends `Signing` with the worker side. A worker picks a queued job, loads the
document and the signer's fields, claims the document lease (an UPDATE and a separate
read of the row, two steps), flattens, and commits revision, flags, state and artifact
at the version it re-read; or fails, retryably or for good. `CommitFlattening` is the
whole transaction. The job queue is reduced to what `OutboxQueue` shows about it.
`LeaseRunsOut` ends any lease at any time; under a worker that runs it is a fault; a crashed
worker's lease is owned by `Dead`, because worker ids are fresh per process. Revisions
are what is stamped on them.

The TLC runs begin with a sent document whose signers have exchanged their links and
consented, a state that `Signing` reaches.

### Preparation

Upload, inspection, clean-up of the upload session, replacement of signers and fields,
send and void of one document, two requests in flight. The DELETE of
`signatureFields.replaceAll` is a step of its own (`DeleteFields`), since under READ
COMMITTED it misses rows that another replacement inserts later. `SignerForeignKey` is the
key from fields to signers (`ON DELETE RESTRICT`), a guard of both replacements. One field
per signer and replacement; geometry, names, signing mode and routing order are validated
inputs.

### AuditChain

Transactions append any number of events; an append is three steps: the advisory
lock, the read of the latest row, the INSERT. The lock is kept to the end of the
transaction; the unique index is a guard of the INSERT. A verification lists the
events, compares them with the latest checkpoint and anchors the head with a get and
an unconditional put. The hash is the tuple of what is hashed, so it is free of
collisions. No action alters rows that are committed; what a verification would say of
rows that something else has altered is a question about each reachable state
(`AlterationsAreSeen`), which tries every edited or removed row and every chain rebuilt
from other contents.

### ObjectStore

A writer stores its object under a content-addressed key and commits the row that names it
later, or never (a failed transaction, a crash). The S3 driver's put, head, list and
delete are single steps; the filesystem driver has a body and a metadata sidecar that are
written, read and deleted one after the other, so that a crash leaves one without the
other. A cleaner lists the keys older than the grace period, asks for each whether a row
names it, and deletes it: three steps. The age of an object is kept up to `Grace` and
saturates there. A writer is over within fewer than `Grace` ticks: with the default limits
requests and PDF work take at most 30 seconds and the grace period is a day (section 5
says where the configuration does not ensure it). The history `stale` has the keys that
were ever unreferenced past the grace period. `SweptKeys` are the keys of the organizations
the worker sweeps.

### ApiRequests

A request has two lives that end separately: its response (open, timed out, closed by
the client, finished) and its handler, which runs on after a timeout or a hang-up because
nothing reads `req.abortSignal`. The response holds the slot of the overload guard.
The handler passes the limiter, the origin and CSRF check, the account session, the
membership and the role table, and then runs one mutation under an idempotency key:
find the record, insert it, commit the effect, store the answer, reply. The insert is
decided by the unique index. Login rotates the session, logout and revocation end it.
A database error ends a handler at any of its steps; `Crash` ends all of them and
resets what is kept in memory (slots and limiter), not the rows.

### SignerClient

The screens of `SignerApp.tsx` and the refs behind them (the retry action, the
idempotency key of a submission, the wiped ink), one record per asynchronous function in
flight, and the API's state of this signer's session. Each `await` is a step
boundary: the request arrives at the server or is lost; the answer arrives, or the
proxy's timeout answers first while the server still handles the request later.
`loadSignerSession` reads the session's row, the document and the signer one after the
other and outside a transaction: a request carries the row as it was when it was sent
(`Row`), and is answered on that row or on the present one (`Api`), with a document read
before or after it closed (`Loaded`) and the signer as it is now (`UseCase`). So a session
may be reported with a signer who has meanwhile signed or declined, and the page then shows
an end screen without a wipe (`SessionSettled`; the history `found` remembers it until the
next wipe or reload). Whether a signature is the roster's last is decided when it commits.
The page may be reloaded or the link opened again, and the expiry timer fires at any time
relative to what is in flight. Loads and submits are pools (`Loads`, `Submits`): a load
that fails late offers "Try again" while a submit is in flight, and the retry is a second
submit beside the first. A second capture beside a running one uses up a fault. Ink is a
number, so that the captured, the reviewed and the stored ink can be compared.

### Adapters

One state for the Prisma repositories and one for the doubles of `memory-adapters.ts`, and
the same call made on both: each port's conditional write is an operator for each side,
and an action makes the call with every argument of the instance, on rows that exist and
on rows that do not; a behaviour calls one port. Rows are created under fresh ids, and of
the foreign keys only the one from fields to signers is compared: the doubles have none.
Answers are compared and the two states too. Where the sides differ the call is marked
(`known`), and the behaviour ends. The property is therefore two-sided: an unlisted call
agrees, a listed one differs. The audit double serializes appends by a promise chain,
which is modelled with its steps: every append joins the chain and waits for all before it
to settle; a payload that is refused inside the lock settles too.

## 3. Runs

| Run | Instance | Distinct states | Shows |
| --- | --- | --- | --- |
| `worker` | 2 events, 2 workers, 2 attempts, 2 faults; 1 key, 2 writers, 2 cleaners, grace 2, 1 fault | 356,702 | safety, refinement and liveness of the queue; losses and collection of objects |
| `signing` | 3 ordered signers, 2 sessions for the first, 2 requests | 2.35 million | routing, sessions, transitions, outcome against roster, closed documents |
| `finalization_safety` | 2 signers, 2 requests, 2 workers, 1 fault | 416,411 | stamps and artifact; a finalized document stays |
| `persistence` | 3 signer ids, 2 layouts, 2 requests, version up to 7; 2 transactions, 2 verifications, 4 rows; 2 queued events, 2 workers, 2 signers, 2 sessions, 3 appenders, version up to 5 | 822,911 | inspection, upload, roster; chain, checkpoints, alarms, altered rows; agreement of the two adapters |
| `requests` | 2 requests, 2 keys, 2 bodies, 1 slot, 1 call per window, owner, member and outsider, 1 fault | 851,879 | slots, single effect, told results, revocation |
| `client` | 2 loads, 2 submits and 2 captures in flight, 2 drawings, 1 fault | 478,585 | screens, ink, spinners |

`worker` and `persistence` check several modules in one run. `MCWorker` has `OutboxQueue`
and `ObjectStore`, the two things that a worker's poll does; `MCPersistence` has
`Preparation`, `AuditChain` and `Adapters`, what the rows go through. The modules share no
variable. A behaviour picks one of them in its first state and takes steps of that one
only, so that the states add up instead of multiplying, and every property is checked on
exactly the behaviours of its own module.

Properties, by run:

- `worker`: `RowsAgree` (event and job never drift apart), `LeaseExclusive` (two
  workers never run one event's handler inside their leases), `RetryHasBudget` (a row
  that waits for a retry has an attempt left), `OnlyLatestAttemptSettles` (a
  superseded worker changes nothing), `DeliverySpec` (implements `JobDelivery`),
  `EventuallySettled`; `NeverOrphanIsServed` (the object that a row names can be read
  unless its key was once an orphan past the grace period, with shared keys, failed
  writes, half objects and sweeps that die), `OrphansAreCollected`.
- `signing`: `SignedThroughOneSession`, `RoutingRespected`, `OneSessionToken`,
  `OutcomeMatchesRoster`, `ClosedDocumentFreezesRoster`, `LegalTransitions` (no race takes
  a document or a session along an arrow that the transition tables do not have, although
  most updates never consult the tables), `LifecycleSpec` (implements `DocumentLifecycle`:
  what a handler decides on rows that it read earlier still holds when it commits).
- `finalization_safety`: `RevisionShowsFlattened` (no stamp lost or repeated; the artifact
  of a finalized document is its revision, and everybody has signed), `FinalizedIsFinal`.
- `persistence`: `TypeOK` of `Preparation`, `ReadyIsInspected`, `RosterFrozen`;
  `ChainIntact`, `AppendsNeverCollide`, `CheckpointsMatchChain`,
  `AlarmOnlyWhenOvertaken`, `AlterationsAreSeen` (rows other than the log's pass the
  verification only when they agree with it up to every checkpoint; ADR-0006 promises no
  more, and without a checkpoint a chain that is replaced as a whole does pass);
  `AdaptersAgree` (the same answers and rows but on the calls that are named; gapless
  numbers in the audit double).
- `requests`: `SlotsExact` (the in-flight count is the number of admitted responses that
  are not settled, however they end), `EffectOnce` (a create takes effect once per key; a
  mutation that compares the document version takes effect once, whatever keys it is
  sent with), `SuccessHasEffect` (a success is told only for the body that took effect),
  `RevokedStaysOut` (a request that arrives after a revocation has no
  effect and no success), `SlotsComeBack`.
- `client`: `OutcomeIsTrue` (a screen that says completed or declined says what the server
  has), `DeadEndIsDead` (the page gives up on a working session only after the used link
  was offered again), `StoredIsReviewed` (the stored ink is the reviewed ink unless
  captures overlapped), `WipedAtTheEnd` (no ink, key, token, image or URL is left at an
  end screen, unless a load found the signer settled), `SpinnerEnds`.

Six runs show where the code does something other than the repository's documents
say ("findings" in `PROJECT.json` quotes them):

| Run | Property | What happens |
| --- | --- | --- |
| `signing_last` | `LastSignatureCompletes` | the last two of three parallel signers submit together, each on a roster that shows the other as pending: all have signed and the document stays in progress |
| `finalization_content` | `FinalizedShowsEverySignature` | the first flatten job that runs after the last signature finalizes the document without the signatures whose jobs are still queued |
| `finalization_exhausted` | `ExhaustedIsFailed` | retryable failures use up a flatten job's attempts: the job is dead-lettered and the document stays in finalizing, where the documents say `finalization_failed` |
| `objects_referenced` | `DeletedIsUnreferenced` | the clean-up finds an old object unreferenced, a write finds it too and commits a row that names it, and the clean-up deletes it |
| `requests_replay` | `ReplayIsStored` | the API dies between the commit and `idempotency.complete`: a retry with the same key and body is told `idempotency_in_progress` and never gets the result |
| `client_urls` | `UrlsRevoked` | a decline that the proxy gave up commits between the two reads of a later load: the page shows the declined screen and the URL of the signature's preview is not revoked |

### Bounds, and why they are enough

Every bound is a constant: `Requests`, `MaxSessions`, `MaxFaults`, `MaxSigners`,
`MaxLayouts`, `MaxVersion`, `MaxEvents`, `Grace`, `Limit`, `RateMax`, `MaxInk`, `Queued`.
Two requests in flight give every pair of handlers in every interleaving of their steps,
and there is no handler whose guard counts other requests. Two sessions per signer give a
rotation against the session it replaces. Three signers are the least number where a
signature is neither the first (which updates the document to in progress) nor the last
(which completes it), and so leaves the document row alone. Two workers give a stale and a
current owner of a lease. With `LeaseTicks = 1`, `BackoffBase = 2` and `BackoffMax = 3` a
lease is held, at its end and past it, and the exponential delay is below and above its
cap. Two faults let an attempt fail after another one was already lost. `MaxVersion = 7`
admits an upload, an inspection, two preparations, a send and a void. Four rows let two
transactions append two events each to different states of the chain.

One slot is enough for overlapping handlers: the second request is admitted when the first
response has timed out or hung up and its handler still runs, which is also the overlap
that the idempotency record has to withstand. A grace period of two ticks separates a
fresh object, one that ages under a slow writer, and one that may be collected. Two
writers of one content-addressed key give every overlap of two puts, two sweeps and a
commit; keys interact in no other way than through the list of a write and the list of a
sweep, and the proofs are for any number of them. Two loads, two submits and two
captures of the page give every overlap of a function with itself; a consent or a decline
does not start beside another one of its kind, which only a submit that ends meanwhile and
resets `busy` would allow; `RetryBootstrap` does not start beside a load that is past the
exchange, which would only repeat that load's two reads. The violation runs have smaller
instances, the smallest that show the disagreement. Three appenders are the least number
where one waits on a promise that itself waits. Two queued events let a claim choose, and
one be leased while the other is settled.

`CHECK_DEADLOCK FALSE` stands where the system may rightly stop: a voided or finalized
document, a page at its last screen, a bound that is used up. The modules whose cfg does
not say so never stop and are checked for deadlock.

Symmetry is used only in runs without liveness and only over slots the
specification does not distinguish (requests, workers, transactions, sessions, the signers
of a parallel document).

### Fairness

`EventuallySettled` assumes weak fairness of the clock and of each step of a running
worker (the poller schedules the next poll when one ends, `poller.ts`, and handlers
end), and strong fairness of claiming, by whichever worker, because shutdowns disable it
again and again while an orchestrator always starts a new process. Faults (crashes, overrun
leases, lost settlements) are finitely many, `MaxFaults`; without that no attempt need
ever end. `ExhaustedIsFailed` is refuted under weak fairness of workers and of the clock
that ends leases: nothing that goes on leads the document out of finalizing.

`SlotsComeBack` assumes weak fairness of the timeout's timer, of a finished handler's
reply and of the close event, and none of the handlers' own steps: a slot must come back
from a handler that hangs. `SpinnerEnds` assumes weak fairness of every step of a function
in flight: the proxy's timer (8 s) answers when the server does not, and the rest is the
browser's event loop. `OrphansAreCollected` assumes weak fairness of writers and cleaners
(a request ends, the worker's next poll runs the clean-up again) and strong fairness of
the clock: a tick waits for a writer that is near its limit, and new requests may keep
arriving. `MCWorker` states the two strong conditions as one, which is the same because a
behaviour has only one of the two modules move.

## 4. What is proved

Every safety property of the passing runs is a theorem: for any sets of requests, workers,
signers, keys and sessions and for every bound, where TLC takes two or three of each. The
proofs use the named assumptions of the modules and nothing else: bounds are natural
numbers (budgets, limits and the grace period positive), the markers for "nothing"
(`None`, `Dead`, `NoKey`) are no members of the sets they are beside, sets that are
counted are finite (the signers of a document, `RequestsAssumption`), `RoutingAssumption`
is what the domain validates about a roster, and `TaskAssumption` keeps the page's loads,
submits and single functions apart. TLC evaluates all of them. Where an argument goes
along a chain or down from a maximum, it takes the least counterexample: a set of numbers
that is not empty has a least member (`LeastNumber`, from the library's theorem that `<`
on the naturals is well founded). Each proof has the same plan: an inductive invariant,
one lemma per action that shows that it is preserved (or a lemma for actions of one
effect, with one per action that shows the effect), and the properties as consequences.

**OutboxQueue.** `OutboxInvariant` (`IInv`), `OutboxTypeOK`, `OutboxRowsAgree`,
`OutboxLeaseExclusive`, `OutboxRetryHasBudget`, the action property
`OutboxLatestAttempt` and the refinement `OutboxImplementsDelivery`. What the properties
lack is how a worker's memory of its
claim relates to the row: `IInv` adds `RowsConsistent` (owner, lease and
status of a row belong together) and `WorkersInStep` (a worker's attempt number is at
most the row's; when they are equal the row is processing, the worker is its owner and
counts the same lease; when they differ the worker's lease is over and it is not the
owner). The attempt number, which every claim
increments, is what makes an old claim recognisable; from it follow exclusiveness (two
workers inside their leases would both be the owner) and the harmlessness of stale
settlements, which test the owner only. The refinement has one step per action, most of
which map to stuttering, and uses `IInv` to show that a settled row is never settled again.

**Preparation.** `PreparationInvariant`, `PreparationTypeOK`,
`PreparationReadyIsInspected`, `PreparationRosterFrozen`.
`SnapshotsByVersion`: what a request read is older than the document, or is the document.
A commit that compares the version therefore acts on what its handler checked
(`ChecksMade`), which is all that a handler's checks are worth in this code.

**Signing.** `SigningInvariant`, `SigningTypeOK`, `SigningThroughOneSession`,
`SigningRoutingRespected`, `SigningOneSessionToken`, `SigningOutcomeMatchesRoster`,
`SigningLegalTransitions`, `SigningClosedFreezes`. A signature does not compare the
document's version unless it changes the document, so snapshots by version are not enough.
`TurnsChecked` says that what was settled in the roster on which the turn was checked
still stands, because a signer never returns to pending; `StaleActorsShutOut` says that a
request whose signer is settled, or whose document is voided or declined, has a
closed session, and every commit of a signer tests that session. Those who
settle a signer or close the document close the sessions in the same transaction.
`SigningImplementsLifecycle` is the refinement of `DocumentLifecycle`. It needs
`LifecycleInv` besides: nobody has signed before the document is in progress, and a
document that a request read as in progress never goes back to `sent`. So a signature
that leaves the document alone, because its handler read it in progress, still finds it
there, and one that marks it does so at the version it read. A second submission by a
signer who has signed maps to stuttering or to `Complete`.

**Finalization.** `FinalizationInvariant` for the composition with `Signing`,
`FinalizationKeepsSigning`, `FinalizationRevisionShows`, `FinalizationIsFinal`. The
invariant of `Signing` is reused: a signing step keeps it because it does so in `Signing`
alone, a flattening step because it changes only state and version of the document, never
to a state that signing speaks about. The argument about stamps is `WorkIsCurrent`: what a
worker read of the flags and the revision is current as long as the version it read stands
(before its claim) or as long as it owns the lease (after it); every commit tests the
owner.

**AuditChain.** `AuditInvariant`, `AuditTypeOK`, `AuditChainIntact`,
`AuditAppendsNeverCollide`, `AuditCheckpointsMatch`, `AuditAlarmOnlyWhenOvertaken`,
`AuditVerificationIsSound`, `AuditAlterationsAreSeen`. `LockHeld`: only the holder of the
document's advisory lock has read the chain or has rows that are not committed; so the
committed rows with those of any one open transaction form a chain (`ChainsInv`), the row
that was read is still the latest (`ReadInv`), and a verification's snapshot is a prefix
of the log (`SnapshotInv`). A chain is stated by what its rows say of each other, with a
last row and all numbers below it; appending keeps that, so that no induction over rows is
needed. `AuditVerificationIsSound` is about any table of rows with distinct sequences, not
only the altered ones that TLC tries: a table that passes the walk is linked row by row
(`PassedIsLinked`), a hash fixes all columns of its row and therefore the hash before it,
and so two linked tables that share one hash share every row below it (`HashFixesHistory`,
by the highest sequence where they would not). The checkpoint names such a row of the log,
and checkpoints at lower sequences are below it. That the hash has no collisions is how
the model defines it.

**ApiRequests.** `ApiInvariant`, `ApiSlotsExact`, `ApiEffectOnce`, `ApiSuccessHasEffect`,
`ApiRevokedStaysOut`. The unique index gives a record one owner
on every route but the signer's, where `reuseInProgress` lets several work under it:
`OwnersHold` ties the owner's step to the number of effects, `RecordsHold` the record's
answer to the effect, and `VersionsHold` is what makes the signer's route and the other
version-guarded ones take effect once even under several keys. The slots are a
cardinality: one response settles exactly once since `released` is tested and set in one
step.

**ObjectStore.** `StoreInvariant`, `StoreNeverOrphanIsServed`. An object past the age limit
has a row or was seen as an orphan, so that sweeps list only such keys and delete, after
the reference check, only old orphans (`SweepsHold`). `WritesHold`: what a write has put
can be read unless it was an old orphan; `LeftoversAreStale`: a sidecar without a body is
what a deletion left, of such a key too. Both drivers are covered; that a write ends before
what it stored reaches the limit is the guard of `StoreTick` (section 2).

**SignerClient.** `ClientInvariant`, `ClientOutcomeIsTrue`, `ClientDeadEndIsDead`,
`ClientStoredIsReviewed`, `ClientWipedAtTheEnd`. `AnswersHold`: what an answer says is
still true when the page acts on it, because a signer who signed or declined stays so
(`UseCaseEffect` and `ApiEffect` say what a handler may change and answer, whichever of
the rows it has read). `PageSettled` and `Dead`: every request but the exchange is made by
a page that has its cookie or will never get one, so that a 401 means a session that is
over, a link that was used up, or one that was offered again. `CapturesHold`: without a
crossing one capture runs, and what it captured is what will be shown. `SessionSettled` is
the one step that shows an end screen without a wipe, and `found` is what the theorem says
of it.

**Adapters.** `AdaptersInvariant`, `AdaptersAgreement`. One lemma per call says what
`AdaptersAgree` says of it, from the rows that the port can hold, the absent one included,
and that are the same on both sides. Most calls need no more than their types. Settlements
need that an event and its job are leased together, since the database tests both rows and
the double one. A claim needs that each side finds an event when one can be claimed, in a
queue of any length (`PicksAreClaimable`), that the two differ whenever they do not pick
the same one, and that an event without a job was never claimed: only then do the job's
first attempts agree. The audit double needs `OneReader`: an append that has read the
length of the log is the first of the chain that has not settled, so that no two have read
and none pushes in between.

Only model-checked:

- liveness (`EventuallySettled`, `OrphansAreCollected`, `SlotsComeBack`,
  `SpinnerEnds`): fairness and `ENABLED` are outside what the prover handles;
- the six violation runs.

## 5. What is not modelled

- `persistMissingFinalArtifact` of `flatten-signature.ts`: `loadAuthorizedWork` returns
  early for every finalized document, so it is not reached.
- `markExpired`-like behaviour of documents: `expiresAt` is stored and never enforced,
  so that the state `expired` is not reached (`docs/architecture/document-lifecycle.md`
  line 103 describes it).
- The audit verifier's look at the finalized artifact, its payload allowlist and the
  schedule.
- Expiry of account sessions (refused by the same check as a revocation), security
  events, password hashing.
- Preview grants and streaming, the in-memory object storage, the page's document
  preview and drawing.
- Validation, contracts, PDF bytes, notifications, configuration, logging, metrics, seeds
  and factories: pure functions and I/O; the models take their outcomes as choices.
- Two hazards have no property. The flatten transaction takes the audit lock before
  the document row (`flatten-signature.ts` line 198), a void the other way round: the
  deadlock is inside PostgreSQL, which aborts one, and the models' transactions are single
  steps that may abort. Two replacements of the fields that overlap leave the rows of both
  (`prisma-tenant-repositories.ts` line 1020): `Preparation` reaches such layouts, and
  nothing in the repository says that they must not be.
- A first poll that rejects ends the polling of its process (`poller.ts` line 66):
  `OutboxQueue` takes a process that stops polling as one that is replaced.

Observed while modelling, and not kept as a run:

- `claimNextByType` reclaims an expired row whatever its attempt count, so that a handler
  that kills its process is run again beyond `maxAttempts`
  (`docs/runbooks/document-finalization-failure.md` line 51).
- Two submissions of one signer both commit when neither has to update the document; the
  second appends another `signer_signed` event and publishes another flatten job
  (`docs/architecture/reliability-model.md` line 40). `Finalization` includes the second
  job.
- A rotation that read the document before a void issues an open session on the voided
  document. `ClosedDocumentFreezesRoster` holds nevertheless.
- After `signing_last`, a flatten job takes the document from in progress straight to
  finalized.
- A field replacement for an older roster can commit between the reads and the transaction
  of a send, which then sends a document with a signer without a field.
- Two verifications of a growing chain: the one with the older snapshot meets the newer
  one's checkpoint and raises `CHECKPOINT_MISMATCH` on an intact log.
  `AlarmOnlyWhenOvertaken` says that this is the only false alarm. Since `anchoredAt` is
  part of the checkpoint, anchoring the same head again is a conflict and ends in the
  warning `CHECKPOINT_STORE_UNAVAILABLE`.
- A void between the UPDATE that takes the document lease and the read after it is
  overwritten by the finalization (`docs/architecture/document-lifecycle.md` line 16):
  `claimProcessingLease` (`prisma-tenant-repositories.ts` lines 378-438) is not in a
  transaction, `markVoided` accepts a document in progress and does not test the lease,
  and `commitFlattenedRevision` tests version and lease and not the state. With the
  document left in progress by `signing_last`, every signer has signed and the void turns
  into a finalized document; `FinalizationKeepsSigning` and `FinalizedIsFinal` hold
  nevertheless, since neither speaks about leaving `voided`.
- A field replacement that read the document before a send changes the fields of the sent
  document (`docs/architecture/document-lifecycle.md` line 66).
- Objects: the smallest grace period the
  configuration admits (`WORKER_ORPHAN_OBJECT_TTL_MS`, one minute) is shorter than the
  longest request timeout (`API_REQUEST_TIMEOUT_MS`, two minutes). The worker sweeps only
  the first 25 organizations. A filesystem delete that is cut short leaves a sidecar
  without a body, and later puts of that key take it for the object and store nothing.
- Requests: `req.abortSignal` is never read, so that running handlers may outnumber
  `API_MAX_CONCURRENT_REQUESTS`. A handler that fails leaves its record in progress
  for good, as one that dies does (`requests_replay`), since `expiresAt` is not read. A
  lost race for the record's unique key is answered with a 500.
- Adapters: the database takes a finalizing commit from any state and the double only in
  finalizing and completed. The doubles accept a failure mark with one of lease and state,
  where the database wants both, a second completion of an upload, a roster replaced under
  fields or signatures and a field for an absent signer; they claim in insertion order and
  not by `availableAt`, and undo nothing when a unit of work throws. On an absent
  document, upload or session the doubles answer not found where the database answers a
  conflict; a second row for a unique key and a mark for an absent signer are refused by
  both, with different errors. Tests that run on the doubles cannot see these conditions
  as they are.
- Page: every signer but the last ends a successful submission on the screen `revoked`,
  because `waitForCompletion` asks for a session that its own submission has completed and
  gets a 401. A lost answer to the
  exchange makes the link useless; opening a used link again, or "Try again" twice, ends
  in a dead end although the cookie's session works. The retry action outlives the wipe at
  expiry and leads to a review with empty ink. A late load or capture can replace the
  final screen, and a late preview recreates an object URL after the wipe. Overlapping
  captures can store ink other than the reviewed one. The expiry timer is capped at
  2,147,000,000 ms.

## 6. Plan

1. `DocumentLifecycle` extended at both ends, so that `Preparation` (draft to sent) and
   `Finalization` (completed to finalized) implement it too.
2. `AuditChain` with the artifact check, and the scheduled verification.
