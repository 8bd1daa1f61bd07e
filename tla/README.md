# VeriTrace backend: TLA+ models and proofs

The backend of VeriTrace keeps a registry of media. A contract on Arbitrum emits
`ContentRegistered`; a listener follows the chain, a pool of workers fetches each content's
metadata from IPFS and registers it in Postgres (rows), Redis (two caches) and Qdrant
(vectors); an HTTP API answers whether an upload is registered, similar to something
registered, or an altered copy, keeps flags and publishers, pins and stores files, and sells
datasets. This directory holds models of these parts, written from the Go code, the TLC runs
that check them on small instances, and TLAPS proofs for every value of the constants.

`PROJECT.json` lists, per definition, the lines it models (`map`), the runs, the mutants that
show that each property can fail, the findings, the hazards the properties are aimed at, and
the theorems.

## 1. Inventory

| Part (source) | State | Operations | Talks to | Correct when | Module |
|---|---|---|---|---|---|
| EVM listener (`internal/listener/evm_listener.go`) | loop variables, subscription, checkpoint row | reconnect, read checkpoint, catch up in batches, subscribe, process a log, save checkpoint | node, Postgres, channel `eventLog` | no log is silently skipped, the checkpoint never goes back, logs are sent in order | `EVMListener` |
| Ingestion pipeline (`internal/listener/pipeline.go`) | channel of 100, five workers | take an event, fetch metadata, register, log an error | listener, IPFS gateways, `Register` | what was sent is registered in the end, a fault costs a bounded number | `Ingestion`, `EventDelivery` |
| Registration (`content.Register`) | rows, record cache, segment cache, points | check for a parent, write Postgres, Redis, Qdrant in turn | workers, look-ups (shared stores) | no cache entry or point without a row, similar contents linked | `Registry` |
| Verification look-ups (`VerifyExact/Fuzzy/Segments`) | the two caches | read through, search, remember an answer | HTTP clients, `Register`, dispatcher | an exact match prevails, caches agree with rows | `Registry`, `Notify` |
| Verdict scoring (same functions) | none | similarity, temporal integrity, confidence, tier, alert | - | scores agree with each other | `Verdict` |
| Lineage (`GetLineage`) | none (parents in the rows) | recursive SQL up and down | Postgres | ends, and returns the family | `Registry` |
| Webhook dispatcher (`internal/webhook`) | a goroutine per notice | one POST | creators' servers | creators hear of matches and copies | `Notify` |
| Publishers and flags (`service.go`, `repository.go`) | two tables | verify a domain, flag a content, count | publishers' domains, Postgres | an answer agrees with the tables | `Standing` |
| On-chain verifier (`internal/onchain`) | none | read whitelist and record of the contract | node | its failure falls back to the table | `Standing` |
| Certificates (`GenerateCertificate`) | none | `VerifyExact`, sign | as `VerifyExact` | as `VerifyExact` | `Standing` |
| Dataset quotes (`QueryDataset`) | none | search or list, select, price, read vectors | Qdrant, Postgres | the price adds up, what is quoted stays deliverable | `Datasets` |
| Dataset unlocking (`UnlockDataset`) | `used_transactions` | look a payment up, read URLs, mark it, answer | HTTP clients, Postgres | a payment is marked before it is answered, is not replayed, and buys all it names | `Unlock`, `Datasets` |
| Pinning and storage (`PinToIPFS`, `PinFile`, `storage.go`) | bucket, files | pin with retries, make an identifier up, upload, copy | Pinata, S3 or the disk | a URL names a whole file, metadata are not lost silently | `Uploads` |
| Vector store set-up (`internal/vector`) | collections, payload indexes | list, create | Qdrant | a later start gets past what an earlier one left | `Startup` |
| Start-up, migrations (`cmd/server`, `internal/database`) | schema version and mark | ping, migrate, dial, serve | all stores, node | nothing runs on incomplete stores | `Startup`, `Uploads` |
| HTTP API and health | none | bind, dispatch, probe | all of the above | - | its requests are actions of the modules above |

Hard behaviours: the listener races the chain (a block is mined between two of its calls),
acknowledges an event before it is processed, and treats errors as absence; workers race each
other between the similarity check and the write; four writes to three stores share no
transaction; a redelivered event repeats them; cached answers outlive the facts; an answer is
gathered by reads between which the tables change, and a failed read counts as nothing, or rows
cut short as all of them; a query returns five points of whatever contents;
notices live in goroutines with one attempt; requests for one payment overlap; two uploads of
one file empty it under each other; a start may die between any two of its calls. Quantities
of different kinds (points and segments, offsets and indexes) are compared in the scoring.
All of these are listed with their line under `hazards`.

## 2. Modules

| Module | Models | Role |
|---|---|---|
| `EVMListener` | the goroutine of `EVMListener.Start` and its environment | component |
| `EventDelivery` | what the synchronisation promises per log | abstract specification |
| `Ingestion`, `Ingestion_proofs` | `EVMListener` with the worker pool | composition; proofs of both; refines `EVMListener` (proved) and `EventDelivery` (safety proved, liveness checked) |
| `Registry`, `Registry_proofs` | `Register`, the look-ups that write back, `GetLineage` | component with its callers; proofs |
| `Notify`, `Notify_proofs` | who is told of what, and the dispatcher | component with its callers; proofs |
| `Standing`, `Standing_proofs` | `VerifyExact`'s reads against changing tables | component; proofs |
| `Verdict`, `Verdict_proofs` | scoring of one candidate | pure functions over all bounded inputs; proofs |
| `Unlock` | `UnlockDataset` with `verifyPayment` | component |
| `Datasets`, `Datasets_proofs` | `QueryDataset` and registration around `Unlock` | composition; proofs of both; refines `Unlock` (proved) |
| `Startup` | `main` up to the running server | component |
| `Uploads`, `Uploads_proofs` | pinning and storage around `Startup` | composition; proofs of both |
| `Sums` | - | lemmas on the sums over finite sets the models count with |
| `MC*` | instances for TLC | |

Operators that begin "Mutant:" are plausible mistakes in the code. No specification uses
them; they take the place of the definition that follows them when a property is tested.

### EVMListener

`pc` is the position in the loop: `connect` (Dial), `checkpoint` (GetCheckpoint), `head`
(BlockNumber), `reset` (the checkpoint written when there is none or the gap is too large),
`fetch` (FilterLogs), `history` and `deliver` (processLog, then SaveCheckpoint), `subscribe`,
`live` (the select). `lastBlock`, `currentHead` are the locals; `saveAt` is the argument of
the next SaveCheckpoint. `batch` holds logs not yet processed: since the node answers in
chain order, a set with `IsFirst` says the same as a list. Every external call has a failing
twin that leads where the code's early return or `continue` leads. `handed` and `missed` are
history variables; `missed` sorts the logs left behind by the step that did it.

Abstractions: decoding is membership in `Undecodable`; back-off sleeps take no step;
the reader of `eventLog` is `Receive`, which `Ingestion` replaces by its workers.

### Ingestion and EventDelivery

`Take`, `Finish`, `Fail` are the worker loop: the body of `processEvent` returns nil or an
error. `CrashAll` ends channel and workers together with the listener. `EventDelivery` gives
each log a status (future, mined, in flight, registered, lost). The refinement mapping
`StatusOf` reads it off the concrete state: a log nobody holds is still `mined` when it is
above the checkpoint, since a later session fetches it, and `lost` when it is not. `Safety` is
the promise without its leads-to, for the proof.

### Registry

A job is one `Register` (worker) or one request (client); `at` names the next call. `Adopt` is
the choice of the parent after the check. The check is one action, as it only reads rows that
never change; its answer and the write into the segment cache are separate because a request
can expire or rewrite the entry between. `full` says whether the metadata could be fetched.
`Split` says which metadata carry keyframes, and `Sim` replaces distances and scoring as long as
a query returns every point that is close enough, once. It returns no more than `Limit` (five,
`service.go:473`, `:678`): `Crowded` compares this with the points there are. `VerifyFuzzy`
ranks what it finds by distance, so a crowded search loses the less similar contents
(`FuzzyFound`); `VerifySegments` counts points, so when some are not returned, or are there
twice after a redelivery (`Blurred`), it finds any part of them and judges them any way
(`SegmentsFound`, `Top`): the model then allows every outcome. A failing
call costs a fault, and so do a missing gateway answer and a redelivery (which
`OneDeliveryPerFault` bounds). `GetLineage` is an operator on the rows: its two recursive
queries are closures, and `Ends` says whether the climb returns at all. `overlap`, `recalled`
and `blurred` are history variables for `UnlinkedOnlyIfConcurrent`.

### Notify

The same functions seen from the creators' side, with the stores reduced to what decides a
notice. A check goes `recall` (segment cache), `exact` (`VerifyExact`), `search`, `candidates`
(one point found after the other, each looked up by `VerifyExact`, which reports an exact match
of it), `remember` (`SaveSegmentCache`); a worker goes on with `adopt` (notice of plagiarism),
`save`, `cache`, `index`. Whether a notice is sent is decided by the record at hand: `Webhook`
says which metadata name an address, `named` which rows do (a row written without metadata does
not, and stays), and `cache` which copies do (a redelivery overwrites the copy, with an address
or without). A match carries the `hook` of the record it was found with through `remembered` to
`Adopt`. `todo` counts the points that are still to be looked up: `FuzzyPoints` are the
best `Limit` points of the collection, of which a content may have several, `SegmentPoints` one
per video, or of a crowded search some of them. `degraded` is history: contents that were ever
processed without their metadata. `outbox` holds the notices whose goroutine has not ended: `Deliver` and
`DeliverFails` are its only attempt, `Crash` takes them all. `received` and `sent` are history.

### Standing

`request` is one `VerifyExact` (or the certificate made of it) at the next of its reads: record
on the chain, flags, consensus, whitelist, publisher, flags of publishers. `ReadOrFail` is a
read whose error the code drops. Between reads contents are registered and flagged, domains
verified and the whitelist changed. An `Address` is a spelling and `WalletOf` what `LOWER`
makes of it: the tables keep what they are given, `GetVerifiedPublisher` and the flag join
compare wallets. `was` in the answer is history: what held when the request began.

### Verdict

The initial states are every combination of evidence: which points each segment matched, how
many semantic and face matches, audio, publisher, flags, consensus. One step computes the
verdict the way the code does, in its order of boosts and caps. A percentage is counted in
units of `1/Unit` percent. The run's unit of 1/720 percent makes every quotient over at most
four exact; for other counts quotients are rounded down to the unit, and the theorems hold
with that too. The evaluation ends there, so this run does not check deadlock.

### Unlock and Datasets

`request[c]` is the statement a request is about to execute: `query`, `mark`, `answer`. The
three statements of `UnlockDataset` are separate actions because they share no transaction.
`QueryCut` is the look-up whose connection is lost between rows, or of which a row does not scan:
the code asks neither `rows.Err()` nor takes notice of `Scan`'s error, and goes on. `racing` is
history: how many requests for a payment were in progress when it was first marked.
`FailsElsewhere` is a fault outside `Unlock`'s own variables, which leaves the composition free
to fail a quote.

`Datasets` adds rows and points that are registered meanwhile, and `QueryDataset`: `Search` is
Qdrant's answer (parents of points, best first, at most twice the quantity), `Select` the
filter by type and permission and the cut, `Browse` the listing without a search, `Embed` the
second read of the vectors and the quote. `Read` is a query whose rows arrive in full or, at a
fault, in part. `Index` adds points each time: their ids are random, and an event that comes
again adds them again. `outcome` is history: whether a payment was answered in full, or spoilt
by a fault of its own. A quote counts its items by content, each as often as it was
found, because that is what is billed and paid. Prices are in millionths of a USDC, in which
the float arithmetic of the code is exact. A client keeps its quote and pays for it later.

### Startup and Uploads

`pc` follows `main`: `ping` (five attempts), `migrate` and `apply` (one migration after the
other, with the mark that golang-migrate sets before and clears after), `list` and `create`
(`InitQdrant`, with `Plan` its calls in order), `dial`, `ingest`, `serving`. `Stop` is
`log.Fatalf` or the death of the process; what it leaves in Postgres and Qdrant is what the
next `Boot` finds. A failed creation may have been carried out.

`Uploads` lets requests run while `pc` is `serving`. `upload[u]` is `pin` (with the attempts
made), `store` or `copy` (with the writes made). `object[f]` is the set of writes that are in
the file: two copies at once write at their own places, and each `os.Create` empties it.
`config` is fixed: S3 or the disk, with or without Pinata's token. `RegisterOnChain` and
`Process` follow an identifier to the record that is made of it.

## 3. Runs

| Run | Question | Result |
|---|---|---|
| `MCEVMListener` | what can three faults do to checkpoint, order and delivery, and does the loop recover once they stop | holds, 224 000 states |
| `MCEVMListenerWindow` | is every log below the checkpoint sent (`README.md:37`) | violated: the subscription window |
| `MCIngestion` | does the composition implement `EventDelivery`, what is the largest loss, and is every log sent registered unless something fails | holds |
| `MCRegistry` | store consistency with one fault: two workers, a client, two videos and an image | holds, 2.0 million states |
| `MCRegistryText` | points in the text store, lineage three deep with declared parents, exact answers in the end, two faults | holds, 146 000 states |
| `MCRegistryExact` | does a hit in the database win at once (`README.md:360`) | violated: the segment cache is read first |
| `Verdict` | do the scores of a candidate agree with each other | holds, 1.3 million states |
| `MCDatasets` | do quotes add up and stay deliverable, is a marked payment not replayed, and does it buy everything quoted | holds, 2.1 million states |
| `MCUnlockOnce` | does one payment unlock once (`enterprise.go:343`, `:362`) | violated: two requests overlap |
| `MCNotify` | are creators told in time, how many notices does a request send, what loses one | holds, 2.7 million states |
| `MCStanding` | does an answer gathered read by read agree with the tables | holds, 5.0 million states |
| `MCUploads` | do starts recover from starts, and do URLs and metadata survive failures | holds, 1.1 million states |

Bounds and why they suffice. The listener's chain has five blocks with a batch of two and a
gap of three, so that a history has two batches, the last one cut at the head, and both sides
of the gap limit occur; block 3 has two logs, so a live checkpoint can cover a log still in
the subscription; a channel of one is full most of the time. Three faults allow a failure, a
retry that fails and a crash. With workers the state multiplies: one block per batch, one
fault and one error of `Register`. `MCRegistry` needs two contents for any race and a third to
make "the most similar" a choice; the similarity of `b` and `c` lies below the floor for a
parent. A query returns one point, and `a` has two: whoever checks against `a` by segments
cannot count them, whoever checks against `b` can, so crowded and exact searches both occur (TLC
finds unlinked copies as soon as `UnlinkedOnlyIfConcurrent` does not except the former). One
fault puts a failure between any two calls. `MCRegistryText` has one worker, so
that two faults are affordable: a delivery repeated and a parent registered late. `Verdict`
takes three segments (the least number with an order to break) and three keyframes, two of
which may match one segment. `MCDatasets` has a content with two points and one that is not on
offer, quantities one to two (0 stands for one that does not parse, whose default is two), and
two payments of two clients. `MCNotify` has a video with two keyframes whose points fill the
limit of a search; one worker and one client race, and a second event of the same content
costs the fault, which may degrade it. The image is by the creator of that video, the other video is
not, so there are derivatives of one's own and of another's. The originals' exception is needed: with every content that
names an address in place of `Reachable`, TLC finds a derivative whose creator nobody told.
`MCStanding` spells one of two wallets twice, which two flags can tell apart.
`MCUploads` has two migrations and all eleven calls of `InitQdrant`, two faults (a start that
dies within what the last one left), and two requests copying one file in two writes.

Fairness. `FairSpec` of `EVMListener` and `FairIngestSpec` assume that the listener's goroutine
and the workers are scheduled and that their calls return, with an answer or an error: the
gateways are called with a timeout of ten seconds (`pipeline.go:147`), while the calls to the
node, Postgres, Redis and Qdrant carry no deadline there and are assumed to fail when their
connection does. The loops have no exit but the end of the process. Nothing is assumed of the
chain. Faults are bounded by `MaxFaults`, so "once faults stop" is part of each instance. In
`Registry` the steps of a started registration or request and the expiry of a cache entry (one
hour, set by Redis) are fair; new events and requests are not. `FairUploadSpec` assumes only
that `main` runs on once it was started: nobody promises to start it again
(`docker-compose.yml` sets no restart policy), nor that a service comes up, so
`UndisturbedStartServes` speaks of a start that finds all of them.

Assumed of the environment: the head only grows (no reorganisations; the `Removed` flag of a
log is not read by the code), the node answers consistently with its head, a log is emitted
once per content registration, the seed block of migration 3 is mined, and an overflow of the
client's subscription buffer ends the subscription like a lost connection. The chain writes a
wallet's address in one spelling (the event is decoded by one function); users do not. A copy
of a file to the disk is a fixed number of writes. In `Verdict` every
record names an address for notices.

## 4. Findings

Each is a run with `expect: violation` and an entry under `findings`.

1. `MCEVMListenerWindow`: a log mined between `BlockNumber` and `SubscribeFilterLogs` is
   skipped for good, without any failure.
2. `MCRegistryExact`: a remembered inexact answer hides a later registration for an hour, also
   from `Register` itself, which then stores a parent it should not have.
3. `MCUnlockOnce`: `enterprise.go:343` marks a transaction "to prevent replay attacks" and `:362`
   announces "double-spend protection", but the look-up and the insert are two statements, and
   the insert does not say whether it was the first: two requests that overlap both unlock with
   one payment, without any failure. `NoReplayOnceMarked` says what does hold: only requests
   that were in progress when the payment was marked are answered.

Other places where documents and code part, or where the code may surprise, which properties
that hold bound or allow:

- The checkpoint is saved when an event is queued, not when it is registered (`README.md:37`
  reads as if nothing were lost); `LossPerFault` says how much a crash can cost.
- Contents registered at the same time stay unlinked (`UnlinkedOnlyIfConcurrent`), and a
  derivative that is registered before the original it declares can become that original's
  parent, after which `GetLineage` does not return (`CycleOnlyIfDeclared`).
- Searches return five points (`service.go:473`, `:678`), and a redelivery adds points again: what
  is crowded out or counted twice may leave a copy unlinked, or link it to the wrong content
  (`UnlinkedOnlyIfConcurrent` excepts it).
- Coverage counts matches, not segments (`README.md:369`, `service.go:741`), so a segment close to
  two keyframes counts twice, coverage and similarity exceed 100 percent, and a similar content
  may be surer than the original; `SurerOnlyIfOvercounted` says that this takes overcounting, and
  that the cap at a boost and the publisher's score bound it.
- The critical alert for an audio deepfake (`service.go:1012`; `README.md:380` promises one from 80
  percent on) is all but unreachable: the similarity is halved (`service.go:871`) before the
  threshold is applied to it, so only matches counted more than once, whose two shares make 320
  percent together, send it (`DeepfakeHighOnlyIfOvercounted`).
- Temporal integrity compares offsets in seconds with indexes (`README.md:377`, `service.go:906`);
  `IntactIffSameSpacing` states what that amounts to.
- The comment at `service.go:1008` spares creators notices of their own derivatives, but `:1009`
  compares an address with a SHA-256, which are never equal (`Conclude` spares nobody).
- An original that was registered without its metadata, or whose cached copy was overwritten
  without them by a redelivery (`service.go:197`), names no address for notices: its derivatives
  are stored and nobody is told (`service.go:181`, `:1010`), although the metadata name one.
  `LinkedIsAlerted` and `RememberedIsReported` except contents ever processed without metadata.
- Rows that do not scan are skipped and `rows.Err()` is never asked (`enterprise.go:140`, `:179`,
  `:335`): an answer cut short is marked and delivered as if it were whole. `PaidIsDelivered`
  excepts payments hit by this, and those ended between insert and answer. A URL that is
  delivered may also be empty, when the row has none.
- `VerifyFuzzy` and `VerifySegments` look every candidate up with `VerifyExact`, which sends an
  exact match of 100 percent to its creator (`MatchesPerRequest` counts these).
- A wallet verified under two spellings has two rows, and its flags count twice
  (`PublisherFlagsAmongFlags`).
- `VerifyFuzzy` reports `OnChainVerified` for every hash that is not empty (`service.go:591`),
  and the certificate's transaction hash is always empty; neither is modelled further.
- The price is per item, and a content found at two points is two items (`QuoteAddsUp`), also
  when the second is there because its event came twice.
- Once a Qdrant collection exists, no start adds an index that is missing
  (`OneUnfinishedPerFault`), and a migration that was interrupted stops every later start
  (`UndisturbedStartServes` excepts it).
- An identifier made up for want of Pinata is answered like any other, and the record made of
  it lacks its metadata (`DegradedOnlyIfMock`).

## 5. Proofs

All theorems hold for every value of the constants that satisfies the named assumptions of
the modules (`ChainAssumption`, `BoundsAssumption`, `WorkersAssumption`, `ContentAssumption`,
`ProcessAssumption`, `NoRowAssumption`, `ClientAssumption`, `DatasetAssumption`,
`StandingAssumption`, `NotifyAssumption`, `StartupAssumption`, `UploadAssumption`,
`SizeAssumption`), which TLC evaluates for the instances. Contents, workers and keyframes are
finitely many; none of their numbers is bounded. Every invariant and action property of the
passing runs is stated by a theorem. In each module a type invariant comes first
(`TypeCorrect`); the properties themselves are seldom inductive, and what they are proved from
says what a call that is under way has already achieved.

`Ingestion_proofs`, of `EVMListener`
- `CheckpointIsMined`, `CheckpointNeverGoesBack`: from `Position`, which relates `lastBlock`,
  `currentHead`, `saveAt` and the two ends of the loop to `checkpoint` and `head` at each `pc`.
  Nothing in `CheckpointMined` says that the value about to be saved lies between the old
  checkpoint and the head.
- `NothingLeftBehindUnseen` (`Accounted`): from `Reach`, which says the same of `lastBlock` and
  `saveAt` as `Accounted` says of the checkpoint: a log at or below the block the loop has
  reached was sent, is held, or was counted as left behind. A log stays in one of these once
  it is (`SafeStep`), so each step has only to account for the blocks it adds.
- `DeliveredOncePerFault`: from `Deliveries`, which distinguishes logs the present session can
  still send (once more) from those it has sent; only a fault starts a session.
- `LogsAreSentInOrder` (`SentInChainOrder`, an action property): from `InOrder`. Until a call
  fails the loop goes round once, and whatever was sent precedes whatever is ahead: the batch in
  hand, the blocks still to fetch, the logs the subscription holds, the blocks not yet mined.

`Ingestion_proofs`, of `Ingestion`
- `IngestionImplementsListener`: every step of the composition is a step of `EVMListener` or a
  stutter, so the theorems above hold of the listener with its worker pool.
- `IngestionDelivers`: under `StatusOf` every step is one of `EventDelivery`'s `Mine`, `Fetch`,
  `Register`, `Miss` or a stutter. It needs `MinedFirst` (what is carried or registered has been
  mined) and `Position`: a step of `Miss` may only take logs that are in flight, or mined and
  behind the checkpoint it writes. This is `Delivery!Safety`; the leads-to of `DeliverySpec` is
  checked.
- `LossIsBounded` (`LossPerFault`): the set of forfeited logs is not monotone, since a log that
  was dropped may be fetched and forfeited again. `Lost` counts a log from the moment it leaves
  channel and workers until it is carried again or registered; only an error (one log) or a
  crash (what was carried: `CarriedBound`) adds to it, and `Allowed` grows by as much.

`Registry_proofs`
- `RowIsFirst`, `ParentIsStoredFirst`: from `Held`: what a job is about to write into a cache, an
  index or a row names contents that have a row, unless the metadata declare the parent. Rows
  never change once written (`RowsStay`), so this survives every interleaving.
- `CacheIsCoherent` (`CacheCoherent`): from `Coherent`: as long as an event came once, at most one
  worker is busy with its content, there is no row before that worker has written it, and the
  row is the worker's record when it comes to the cache; every other writer copies rows.
- `CyclesAreDeclared` (`CycleOnlyIfDeclared`): from `ParentsKnown`. A parent that was found, not
  declared, has its row before its derivative (`Held`), so a set of rows closed without a
  declared parent would have been closed among the older rows already (`CycleStep`).
- `FamiliesAreComplete` (`FamilyComplete`): from `ParentsKnown` once more. The recursive query
  adds rows round by round; `ClosureIsLeast` shows that it comes to rest within as many rounds
  as there are contents, at the least set that holds the first row and is closed under the
  join. Ancestors and family follow as facts on least sets (`UpstreamIs`, `SameAncestors`,
  `OneEnd`, `LineageIs`), without looking into the rounds again.
- `LineageHasOneRoot`: the ancestors of a content have one root at most, so the `LIMIT 1` of
  `GetLineage` (a CHOOSE in the model) leaves nothing open.
- `IndexedOnce` (`IndexedOncePerDelivery`): from `Budget` (points of a content, plus the workers
  that may still add one, are no more than its deliveries) and `Orderly` (without a fault, who
  is past `SaveVectors` has its points).
- `UnlinkedWereConcurrent` (`UnlinkedOnlyIfConcurrent`): from `Meeting`. `Recorded` says that
  registrations under way together are on record in `overlap`, `Sighted` that of two twins whose
  registrations were apart the second one, once it has checked, is about to write a parent or
  has: it found the first, whose row and points were complete (`Orderly`) when it looked. For any
  `Limit`: of a search by image some similar content is always returned (`SomeSimilarFound`), and
  of one by segments the twin is (`TwinIsFound`) unless the search is in `blurred`.

`Notify_proofs`
- `PlagiarismIsAlerted`, `DerivativesAreReported`: from `Stored` and `AllSafe`. A content that was
  never processed without its metadata has an address in its row and in its copy (`Records`),
  whoever wrote it last, and so in every match made of either, remembered or in hand; a job that
  is about to save or to remember has therefore told the creator concerned (`AllSafe`).
- `AlertsNotLost`: from `NoneLost`: a notice of plagiarism that was sent is in the outbox or
  received unless a fault happened.
- `MatchesAreBounded` (`MatchesPerRequest`): from `AllFit`: notices sent plus candidates to be
  looked up never exceed what the search returned, also when it returned only some points.

`Standing_proofs`
- `VerifiedStays`, `FlaggedContentsLose`, `FlagsOfPublishersCounted`: from `Gathered`: for each
  read a request has behind it, its result agrees with what held when it began, which still
  holds because the tables only grow. The third counts pairs of flag and publisher: with one
  row per wallet the join is no larger than the flags.

`Datasets_proofs`, of `Unlock` and `Datasets`
- `AnsweredOnlyIfUsed` from `Redeemed` (a request about to answer names a marked transaction).
- `MarkedIsNotReplayed` (`NoReplayOnceMarked`): once a transaction is marked no request can join
  it, so answers given plus requests still under way never exceed the number of requests that
  were in progress then.
- `DatasetsImplementUnlock`: quotes and registrations are stutters or failures of `Unlock`, so
  both results hold of the composition (`DatasetsNotReplayed`).
- `QuotesStayOnOffer` from `RowsAndQuotes` (rows are written once), `PaidQuotesAreDelivered` from
  `Paying` (who pays has a quote of registered contents and does not ask for another; a request
  of a payment that no fault has hit has read every URL of it).
- `QuotesAddUp`, `TwiceAsManyAreEnough`: from `QuotesFit`: every search found indexed contents
  and every quote was computed from such a search. The rest is counting: the items of a quote
  are the positions taken, grouped by content (`SumByClass`); the creators' amounts and the fee
  split every item's price (`SumSplit`, `SumScaled`); a position past twice the quantity needs
  as many before it that are not on offer or belong to contents with more than two points.

`Verdict_proofs`
- `SurerTakesOvercounting`, `HighDeepfakesAreOvercounted`, `FullIntegrityIffSameSpacing`: the evidence
  never changes, and the one step gives the verdict it determines; what remains are facts about
  that function. Similarity and temporal integrity are quotients in range (`Quotient`,
  `SimilarityRange`, `TemporalRange`) unless matches were counted more than once, a boost or a cap
  keeps a score in range and in its order with the exact match's (`CapRange`), and the drift is zero exactly if any two matched keyframes lie as far apart as
  their segments (`DriftIs`, `FullIffSameSpacing`).

`Uploads_proofs` (of `Uploads` with the `Startup` it extends)
- `StoresComplete`: from `Staged` (what each position of `main` may rely on) and `Creating`
  (behind the position in `Plan` everything exists, ahead of it no collection that was not
  listed). That a collection comes first and its indexes in a row are facts of `Plan`.
- `OneUnfinishedAtMost`: the collection under way is the only one that can be left unfinished,
  and only a fault leaves it.
- `UrlsNameWholeFiles`: from `LastIntact`: of several copies of one file, the one that began last
  has everything it wrote, unless a copy was interrupted; when it ends the file is whole.
- `MetadataKept`: from `PinnedIsThere`: an identifier that is not made up names pinned metadata.

`Sums` holds what these proofs need of `SumFunction` and `SumFunctionOnSet`, which the community
modules define by recursion on sets. The library's induction theorems take an operator as a
parameter, which the installed provers cannot instantiate, so each fact is proved from a
smallest counterexample instead: among the subsets of a finite set for which a claim fails one
has no proper subset that fails (`SmallestSubset`). The recursive definition yields its equation
that way (`SumExists`, `SumsAgree`, `SumUnfold`), and the rest from the equation: sums split, are
bounded, scale, and can be regrouped. `Greatest` and `Smallest` serve the rounds of the
recursive queries likewise.

Only model-checked is liveness, since the prover reasons neither about ENABLED nor, therefore,
about fairness: `EventuallyAccounted`, `EventuallyLive`, `RegisteredUnlessFault`,
`EventuallyExact`, `UndisturbedStartServes` and the leads-to of `DeliverySpec`. What the three
runs with an expected violation refute is no theorem either.

## 6. Not modelled

- Redis at start-up and `InitStorageProvider`'s second call from the router: failures are only
  logged and nothing later depends on them beyond what `InitStorage` says.
- The development reset (`router.go:82-126`): its `TRUNCATE` of `content_records` always fails,
  because `content_flags` references the table, and the handler returns before it deletes
  anything else.
- Reading the environment, HTTP binding and status codes, health probes, logging, the list of
  verified publishers: they compute an answer from one read and keep no state.
- Face and audio points, whose failures are only logged and which no other step reads back;
  captions and the metadata columns; the choice of collection per distance.
- `Verdict`'s choice among several candidates: the sort and the limit of five.
- The arithmetic of embeddings and hashes, the smart contract, and the gateways' own retries.

## 7. Plan

Next: the safety half of the liveness properties as invariants with theorems (where the
listener, a start or a request stands, some step of it that is fair can be taken); that
`Registry`'s worker, with its calls hidden, implements the single step `Finish` or `Fail` of
`Ingestion`; two workers in `MCNotify`; the order of several candidates in `Verdict`.
