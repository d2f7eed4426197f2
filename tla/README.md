# F2E in TLA+

F2E turns a file in S3 into events: an **Organizer** Lambda cuts the file into chunks and
queues one message per chunk; **Worker** Lambdas read the chunks, publish one event per record
and account for their results in a DynamoDB **ledger**; when the last chunk is done, one
completion event is sent. This directory models that code, checks it with TLC and proves
properties of the ledger protocol, of the two programs over it, of the record publisher, of
the chunking of files and of the jobs that objects become with TLAPS. Paths below are relative
to the repository.

`PROJECT.json` lists the components, the runs, the lines every definition translates, the
hazards of the code with the properties that cover them, the findings and the main theorems.

## 1. Inventory

| Part | State it keeps | Operations | Interacts by |
|---|---|---|---|
| Ledger, `internal/platform/aws/ledger.go` | per job: a JOB item, CHUNK items, a COMPLETION_INTENT item | about fifteen conditional writes and transactions | called by both Lambdas; no locks, only conditions |
| States, `internal/domain/f2e/states.go`, `ledger.go` | none | two transition tables | the ledger writes legacy names that stand for canonical states |
| Organizer, `cmd/organizer/main.go`, `internal/application/organizer/service.go` | none between messages | `handleSQSEvent`, `jobsFor`, `Plan`, `Publish`, `Replay` | takes S3 notifications or explicit requests from the intake queue; writes the ledger; sends to the chunk-jobs queue |
| Worker, `cmd/worker/main.go`, `internal/application/worker/service.go` | none between messages | `ProcessAttempt`, `publishCompletion` | takes chunk messages; reads S3 ranges; sends records and completion events; writes the ledger |
| Record publisher, `packer.go`, `concurrent_sender.go`, `streamWithMetrics` | per pass: an open bundle, a batch, goroutines, an error, counters | `add`, `flush`, `submit`, `send`, `wait` | goroutines share a semaphore, a mutex and a cancellation |
| Text chunking and line reader, `lineio/reader.go` | none | `textChunkCount`, `variableJobs`, `chunkReadRange`, `ReadLines` | the planner sees the size only; the Worker finds the record boundaries |
| JSON and multi-line chunking, `json.go`, `multiline.go` | none | planners and readers of two other layouts | as above |
| Replay, `ledger.go:105-176`, `organizer/service.go` | one audit item per replay | `Replay`, then `Publish` of a new job | reads every item of a partition; writes a job of its own |
| Objects and their identity, `client.go`, `messages.go`, `notification.go` | S3 objects, versions | `HeadObject`, range reads, `FileID` | decide which deliveries become one job, and which bytes it reads |
| Ledger queries, configuration, infrastructure | | | |

What makes each part correct:

- *Ledger*: counters and totals agree with the chunks whatever races; a terminal job is
  really finished and never changes again; its outbox record exists exactly once and says the
  truth; statuses move along the declared tables.
- *Worker*: nothing is acknowledged before it is done; all sent completion events are the
  same event; every job ends and its end is announced, despite crashes, lost replies and
  redeliveries.
- *Organizer*: one admission per object at a time; a sealed manifest is complete; checkpoints
  never run ahead of the queue; an interrupted publication is resumed without sending
  checkpointed chunks again.
- *Objects and replays*: a job reads the object it was admitted for, whatever is written
  meanwhile; it completes only when all it was asked for was read; no delivery is acknowledged
  without its jobs; a promised manifest is one its Workers can end.
- *Publisher*: a pass that reports success has sent or rejected every record and counted it
  once; requests respect the limits of SQS; the pass ends; its error is the cause.
- *Chunking*: every record of the file is sent by one chunk and under one identity, whatever
  boundary, overlap and terminator it meets.

The hard behaviours are the interleavings of conditional writes of many Lambdas, crashes and
lost replies between two writes, at-least-once delivery, retry limits that two systems count
separately (the queue and `FailChunk`), the reads of `ReconcileCompletion` that are stale when
its transaction commits, transactions that conflict on the JOB item, partial answers of
`SendMessageBatch`, and byte arithmetic at chunk boundaries.

## 2. Modules

| Module | Models | Builds on |
|---|---|---|
| `LedgerStates` | status values, canonical names, transition tables | |
| `JobOutcome` | what the ledger promises about one job, without items, attempts or reads | |
| `JobLedger` | the ledger protocol of one job: one action per conditional write | `LedgerStates`, `JobOutcome` (instance) |
| `JobLedgerProofs`, `JobOutcomeProofs` | proofs about `JobLedger`, and that it implements `JobOutcome` | `JobLedger` |
| `WorkerPipelineProofs`, `OrganizerIntakeProofs` | proofs about the two programs, which rest on the ledger's | `JobOutcomeProofs` |
| `ChunkPublisherProofs`, `FileChunksProofs`, `ObjectJobsProofs` | proofs about the module each names | that module, `SumTheorems` |
| `SumTheorems` | laws of sums over finite sets, from the definition of the community modules' folds | |
| `WorkerPipeline` | Worker invocations and the chunk-jobs queue over the ledger | `JobLedger` |
| `OrganizerIntake` | Organizer invocations and the intake queue over the ledger | `JobLedger` |
| `ObjectJobs` | objects that change, messages of several objects, the jobs they become, replays | `LedgerStates` |
| `LineReader` | `lineio.ReadLines` as operators on byte ranges | |
| `MultiLine` | lines grouped into multi-line records | `LineReader` |
| `JsonScan` | the scan for the elements of a JSON array and its alignment | |
| `FileChunks` | planning and reading of chunks, for the three data types | `MultiLine`, `JsonScan` |
| `RecordPass` | what a pass over the records of a chunk promises, without messages or goroutines | |
| `ChunkPublisher` | bundles, batches and the concurrent sender of one pass | `RecordPass` (instance) |
| `MC*` | the TLC instances | the module they name |

Three levels implement each other. `JobOutcome` is the promise: a set of chunks is fixed once,
each chunk meets one fate, the job ends when all have, and one event tells the outcome.
`JobLedger` is the protocol: `LedgerSpec` lets any callers issue any write whose condition
holds, limited by three rules (the section *Callers* of the module), and implements the
promise (`ImplementsOutcome`; the mapping reads the manifest, the fates, the totals and the
event off the items, and hides leases, attempts, checkpoints and stale reads). `WorkerPipeline`
and `OrganizerIntake` are detailed specifications of the two programs, call
by call, and both are checked to implement `LedgerSpec` (property `RefinesLedger`; the mapping
is the identity on the ledger's variables, every other step a stutter). Both levels are
proved as well (section 5), so what is proved of `LedgerSpec` holds of both programs.

Inside a Worker's `Process` step the same is done once more: `RecordPass` says what the step
relies on, and `ChunkPublisher` is checked and proved to implement it (`ImplementsPass`).

### Correspondence

**`JobLedger`.** `job`, `chunk[c]` and `intent` are the items of partition `JOB#<id>`; a
condition expression is a guard, an update expression the primed variables. `view[w]` is what
caller `w` read in `ReconcileCompletion`, kept because its transaction is computed from it.
Guards have names (`CanStart`, `CanFinalize`...) so that callers can take the "condition
failed" branch. Revision numbers, timestamps, history entries, owner tokens and error texts
have no effect on any condition modelled and are left out. `Counts` stands for the record
counters; `Configs` for the configuration snapshots; `RangeOf` for the byte ranges a
configuration yields. `RejectJob` and `AcquireChunk` are operations of the code that no
command calls today; the ledger's properties include them. The constant `RefusesUnused` says
how the store treats `MarkSchedulingFailed`, which passes the expression value `:scheduled`
without using it (`ledger.go:295-306`): DynamoDB refuses such a request, a fake does not.

**`JobOutcome`.** `manifest` is what the seal fixed, `done` and `lost` the chunks COMPLETED and
FAILED, `outcome` the terminal status (`SCHEDULING_FAILED` is none: nothing is announced for
it), `event` and `notice` the completion intent and whether it was marked.

**`WorkerPipeline`.** `worker[w]` is one running invocation and its step: `Start`, `StartRead`,
`Process`, `CompleteRead`, `Complete`, `CompleteReread`, `ReconcileRead`, `Finalize`,
`LoadIntent`, `Send`, `Mark`, `FailRetry`, `FailRead`, `FailFinal` are the external calls of
`ProcessAttempt` in code order; every call may succeed, fail, or take effect and lose its
reply. `Refuse` is `valid`, before any call. Transactions conflict: while one is in flight over
the JOB item, a chunk or the intent (`JobBusy`, `ChunkBusy`, `IntentBusy`), another over the
same item may be cancelled, and a single write to it refused, without this being a fault, even
if the first will be cancelled by its own condition. What the code then does differs:
`CompleteChunk` retries, up to the eighth time, `Finalize` looks for another's intent,
`FailChunk` gives up. `Process` is the whole publication (its inside is `ChunkPublisher` and
`FileChunks`). `msg[m]` holds a queue message and its receive count, which the handler passes
on as the attempt number; `RedriveLimit` is the queue's limit and `MaxReceiveCount` the one
`FailChunk` compares with, which the deployment sets from one variable (`terraform/sqs.tf:50`,
`locals.tf:20`). The Organizer appears as `OrganizerPlans`, `OrganizerSends`, `OrganizerMarks`.
The control message of an empty manifest is modelled because the Worker handles it, although no
planner of this commit returns an empty plan (`cmd/organizer/main.go:173-183` is not reached).

**`OrganizerIntake`.** `org[o]` is one running invocation: `Admit`, `AdmitRead`, `Reclaim`,
`Validate`, `ValidateRead`, `StartPlanning`, `PlanningRead`, `PlanTheJob`, `PlanAChunk`,
`Seal`, `Load`, `Send`, `Checkpoint`, `Checkpointed`, `Mark`, `MarkFailed`. `sent[c]` counts
the messages of a chunk that reached the queue, `current` is the configuration the parameter
store holds. With `Admits = FALSE` messages are explicit requests, which skip admission. A
message is about one file.

**`ObjectJobs`.** `puts[k]` is everything written under a key; the versioning of the bucket
(enabled, suspended, off) decides what a version id names. `HeadObject` and `ReadRange` are the
client's two looks at an object, with the version id, or `If-Match`, or only the check of the
answer's ETag. `org[o]` is an invocation that walks the references of its message
(`HeadForAdmission`, `Admit`, `Plan`, as in `jobsFor`), collects the files of each job and
ends in `Publish`. Job ids are what the code derives them from: the identity of the object,
the id of the request's queue message, a new id per replay. `item[j][c]` is a chunk item;
`Stray` is the item written for payloads that are no chunks when a whole job is replayed.
An invocation may be interrupted wherever that leaves something behind: between the files of
a message, after any of the writes of `Plan` (`PlanFails`), after the seal and after any of the
sends (`Crash`); an attempt of a Worker may end after `StartChunk`, with the chunk RUNNING. What
the other modules show call by call is one step here: admission with its phases, a batch with its
checkpoints, what an attempt does after its read; attempt numbers are left open, so any failure
may be the last. A replay with its `Publish` is one step too. `PENDING` stands for SCHEDULED, and
SCHEDULING_FAILED is left to `OrganizerIntake`. The lease of a job runs out only
when its holder is gone: it lasts as long as a Lambda invocation may (15 minutes).

**`FileChunks`, `LineReader`, `MultiLine` and `JsonScan`.** A file is a function from offsets to
kinds of byte: for lines `a` and `b`, CR, LF, and the two bytes of a two-byte character; for
arrays the opening of an element (the bytes up to its first key), its closing brace, an
unescaped quote, and anything else. `ReadLines`, `ReadRecords` and `FindJSONObjectStarts` are
the readers' results on a range of it. `Plan` is the Organizer's plan by data type:
`TextJobs`, `MultiLineJobs` with the look at each boundary (`Padding`), `JsonJobs`. One
`Process` step is one pass of a Worker over one chunk: `Accepted` is `valid`, `ReadText`,
`ReadMultiLine` and `ReadJSONArray` are the branches of `streamWithMetrics`, `Owns` is the
nominal range that decides which chunk sends a record, `ByteOffset` what its identity is
derived from. Passes share nothing but the file. A pass may stop after any subset of its
records was sent, because batches are in flight when the reader or the sender fails. Left out:
nested objects and malformed arrays, the counters of ignored lines, the overall file size
limit, and jobs of the older form without a file size.

**`ChunkPublisher`.** `producer` is `streamWithMetrics` and its packer, `flights` the
goroutines, `sender` the fields of `concurrentSender`. A message is the set of records in it;
sizes are those of the serialised envelopes. The three outcomes of a call (answer with failed
entries, transient error with or without effect, permanent refusal, as `classifySendError`
tells them apart) and the cancellation
between any two steps are separate branches. The producer's result `cut` is the cancellation
`submitOne` returns when it loses the race for a slot, which hides the cause; `wait` reports
the cause. `ClientAccepts` is what `Send` of the AWS client lets through.

**`RecordPass`.** `taken` is how far the reader got, `refused` the records counted as rejected,
`sent` the records in the output queue, `counted` the events confirmed so far, which only a
success reports (a failed pass returns empty counts). `Transmit` is any call that reaches the
queue, its first or a repetition; it counts what it carried or, when the reply is an error,
nothing. `ImplementsPass` maps `taken` to the producer's position, `counted` to the sender's
`confirmedEvents`, and every result but `ok` to `failed`; bundles, batches, slots, retries and
cancellation are invisible. The counters `WorkerPipeline` and the ledger add up are those of a
pass that succeeded.

## 3. Runs

| Run | Question | Bounds |
|---|---|---|
| `ledger` | Do the ledger's conditions alone keep it consistent under any order of writes, and keep its promise? | 3 chunks, 3 configurations, 2 readers, 2 attempts |
| `worker_faults` | Does the Worker keep to the protocol, and acknowledge only what is done and, without overlapping deliveries, announced? | 2 invocations, 2 chunks or an empty manifest, 2 copies per message, 1 fault of any of 7 kinds |
| `worker_progress` | Does every job end, but for the two cases of `LeftOpen`, and every completed job get announced? | as above, 1 crash, failed call, lost reply or redelivery |
| `intake_notices` | Do racing notifications, expiring leases and changing configurations leave admission, manifest and checkpoints right? | 2 notifications, 2 invocations, 4 configurations, 2 faults of any of 7 kinds |
| `intake_resume` | Is an interrupted publication completed, without sending checkpointed chunks again? | 3 chunks in batches of 2, 3 faults, 4 deliveries |
| `file_chunks` | Do plans divide the file, into chunks a Worker accepts where there is room for them, and is every record sent once, whole, lines under their own offset? | all text files of at most 4 bytes of 5 kinds and of 5 or 6 bytes of content and terminators; all multi-line files of 1, 4, 5 and 6 bytes; arrays of at most 3 elements of 3 sizes; every combination of limits |
| `publisher` | Is a successful pass complete, every request legal, every failure explained, does the pass end, and is it at every moment the pass its caller relies on? | 3 records of 3 sizes, 2 goroutines, 3 faults |
| `object_jobs` | Do objects that change, messages of several objects, interruptions and replays leave every job with one content and a manifest that can be ended, and no delivery without its jobs? | 2 keys, 2 contents of 1 and 2 chunks, 3 kinds of bucket, 2 deliveries; with notifications: 2 writes and 2 messages; 1 write, 2 messages and an interruption (of Organizer or Worker); 2 writes, a message of up to 2 objects and an interruption or a replay, or of 1 object and both; 1 write and 2 replays; without: 2 writes, a request of up to 2 files and an interruption or a replay |
| `worker_abandoned` | *fails*: an abandoned chunk is taken up again | 1 crash |
| `intake_crash` | *fails*: a notification interrupted after the seal is resumed | 1 crash, 1 lease expiry |
| `text_overlap` | *fails*: a file within its declared limits is processed | 12 bytes, the code's overlap of 9 records |
| `json_identities` | *fails*: two records never share an identity | arrays of 3 or 4 elements |

`CHECK_DEADLOCK FALSE` everywhere: each system stops when its work is done or its messages
are in a dead-letter queue.

**Why the bounds are enough.** The ledger's writes concern the JOB item and one chunk, so two
chunks give every order of "last" and "not last", and the third a middle one; two readers in
`ReconcileCompletion` are what a conflict needs; `MaxReceiveCount = 2` has one attempt below
the limit and one at it (the intake runs take one attempt, at the limit or below it). One
Worker fault already composes with the races of two invocations over two copies of a message; a
batch of two in `intake_resume` has partial answers and the retry limit of three is reached
with three failed sends. `file_chunks` scales the planner's constants (5 MiB to 2 bytes, 100
chunks to 1, 9 records of overlap to 1) so that files of six bytes have three chunks whose
overlaps meet both ends of the file, a CRLF and a split character; multi-line boundaries fall
in lines, in records of several lines and next to breaks; array reads begin inside strings,
with the quotes out of phase. `text_overlap` keeps the code's 9. In `object_jobs` one overwrite
between any two looks at an object is what a stale identity needs, a deletion makes an object
disappear between two of them, and the two contents make files of one request agree or collide
in their chunks; one interruption leaves any prefix of the writes and sends of a publication to
the next delivery. In `publisher` the sizes are one that fits with another, one that does not,
and one over the limits, and the entry and byte limits both bind.

**Limits of what they say.** `AcknowledgedMeansAnnounced` is about runs in which no message is
delivered while it is being handled. After such a redelivery a completion can be lost without any
other fault: the second invocation of a finished chunk is refused, its `FailChunk` transaction
is bound to fail by its condition, and meanwhile makes the finalising transaction of the
last chunk conflict; that caller finds no intent (`ledger.go:494`), acknowledges the last message,
and the job stays open. `EveryJobEnds` allows two ways of a job to stay open that need no fault
at all (`LeftOpen`): a chunk `valid` refuses, and a chunk whose last attempt called
`FailChunk` while another transaction held the JOB item (section 4).
`HolderEndsItsChunk` is checked under redelivery of one message; two messages of one chunk (a
resend without checkpoint) can present the same attempt number, and then the refused one does
move the chunk of the running one (`ledger.go:388`); a message redriven while an old delivery
of it is still running is in the same position. The comparison of counters in the
finalising condition is redundant given the rest of the protocol: once a sealed job has as
many results as chunks, no further result can be added.

**Fairness.** Invocations are weakly fair in their fault-free steps: Lambda runs an
invocation until it returns. SQS hands out visible messages; the Organizer, seen from
`WorkerPipeline`, finishes what it began. In `ChunkPublisher` the producer and the goroutines
together are scheduled and calls return (the SDK has timeouts). Faults, redrives, redeliveries,
configuration changes and lease expiry are never obliged to happen, and every fault counts
against `MaxFaults`. Retries are bounded by the code and by the redrive limit, not by the
model.

## 4. Findings

Four disagreements between the code and its documents, each the subject of a run; sources and
quotes are in `PROJECT.json`.

1. A chunk whose Worker disappeared stays RUNNING and cannot be retried (`worker_abandoned`).
2. A notification whose Organizer crashed after the seal is Busy for ever (`intake_crash`).
3. A chunk whose right overlap ends inside a record fails, although the file conforms
   (`text_overlap`).
4. JSON events carry their position minus the bytes their read was realigned by, so two
   elements can have one `sourceRecordId` and one `eventId` (`json_identities`).

Met while modelling, without a run of their own.

*Completion.* The event of a FAILED job is stored and never sent: after `FailChunk` the caller
returns the chunk's error without looking at the intent (`worker/service.go:78`), although
`completion.go:15-17` announces FAILED too and `documentacao/runbooks.md:86-88` says that the
Worker stores the intent with the terminal transition and delivers it. `FailedIsAnnounced` in
`WorkerPipeline` states it and is violated without any fault. `FailChunk` does not retry a
transaction conflict, as `CompleteChunk` does (`ledger.go:357-369`): of two chunks that fail
for the last time at once, or one that does while another completes, one can be left RUNNING
with its message in the dead-letter queue, and the job never ends (`ledger.go:410`;
`LeftOpen`). The loser of the finalising race gets an error when its condition fails and
succeeds when it conflicts (`ledger.go:487-497`).

*Objects and messages.* An object overwritten between admission and plan fails the delivery,
and the next one admits what is there now under another job id: the first job stays PLANNING
for ever, although `documentacao/requisitos_e_restricoes.md:83-89` says it fails. In a bucket
with suspended versioning the version id `null` is passed on like one that pins an object and
`If-Match` is left out (`client.go:108-112`); only the ETag of the answer then protects the
read, which is enough for `ReadsAreTheObject`. A notification with two records of one
unversioned key admits the first and finds the second Busy. A request of several files
numbers the chunks of each from 1: only the first file's chunks exist, the expected count is
the sum, and the job never ends (or `Plan` fails, when the files have different ranges).

*Replay.* A replay of a whole finished job takes the completion intent, and the audit items of
earlier replays, for chunk messages: they carry no chunk id, every Worker refuses them, and
the new job never ends. A replay of chosen chunks takes none of them. Neither asks whether the
manifest is sealed: of a job whose plan was interrupted it takes the chunks written so far, and
completes without the rest (`ledger.go:127`). The presigned URL of a message is
dropped by the ledger's payload (`ledger.go:204`), so no Worker of a planned job uses one.

*Status index.* `statusIndex` is written by `Admit` and `advanceJob` only: after PLANNING it is
never updated, and jobs of explicit requests have none, although `terraform/dynamodb.tf:18-20`
says "set on every state transition": the stuck-job query (`ledger_query.go:152`) goes on
listing finished jobs as PLANNING and never lists the others.

*The rest.* `SCHEDULING_FAILED` cannot be written to DynamoDB (section 2); a send that a Worker
overtook (it starts the job before `MarkScheduled`) makes `MarkScheduled` refuse and the
message is delivered again; the loser of the finalising race gets an error when its condition
fails and succeeds when it conflicts (`ledger.go:487-497`); a file the planner refuses is
retried to the dead-letter queue and its job stays PLANNING, never REJECTED
(`cmd/organizer/main.go:169`); the skipped first fragment of a read is checked as UTF-8, so an
overlap that begins inside a character fails the chunk (`lineio/reader.go:129`), and so does a
multi-line chunk that begins inside one; the planner and the Worker of a multi-line file take
the end of a line that they begin in for a break when it looks like one, although
`organizer/service.go:241` says that boundaries are never inside a record (the properties
assume `Unambiguous` files); the padding of a multi-line chunk counts against the Worker's size
limit but not against the planner's, so a nominal size within one record of the limit plans
chunks that are always refused (`RoomForChunks`); with a chunk limit under 10 MiB
`textChunkCount` can plan chunks over the limit (`organizer/service.go:185`; `RoomForChunks`),
which `contratos.md` says are rejected; an array element over `maxBytesPerElement` that ends
beyond the overlap is skipped without an error (`Fits`); in bundle mode an oversized envelope
that follows others fails the chunk instead of being rejected (`worker/packer.go:75`; allowed
by `FailuresAreExplained`); an envelope over `maxEventBytes` fails the chunk when that limit is
below the physical one.

## 5. Proofs

Every theorem holds for all values of the constants of its module, from the assumptions the
module names (`LedgerConstants`, `PublisherConstants`, `ChunkingConstants`, `ObjectConstants`,
...) and nothing else, except the three that the table gives a further hypothesis in parentheses.
TLC checks the assumptions on each instance. They are of types and sizes: a file is finite, and
so are the sets of object keys and contents, and the chunk limits are positive. Of JSON files
one is of syntax: the brace that begins an element is outside strings.

| Module | Theorem | Property |
|---|---|---|
| `JobLedgerProofs` | `LedgerTypeCorrect` | `LedgerTypeOK` (part of `LedgerInv`) |
| | `CountersCorrect` | `CountersMatchChunks` |
| | `LedgerInvariant` | `LedgerInv` |
| | `TerminalJobsAreSettled` | `TerminalIsSettled` |
| | `ManifestsAreAccounted` | `ManifestAccounted` |
| | `TotalsCorrect` | `TotalsMatchChunks` |
| | `OutboxIsExact` | `OutboxMatchesJob` |
| | `TerminalsNeverRegress` | `TerminalNeverRegresses` |
| | `ChunksFollowTable`, `JobsFollowTable` | the two transition tables |
| `JobOutcomeProofs` | `LedgerImplementsOutcome` | `ImplementsOutcome` |
| `WorkerPipelineProofs` | `WorkerKeepsProtocol`, `WorkerImplementsOutcome` | `RefinesLedger`, `ImplementsOutcome` |
| | `PipelineTypeCorrect` | `PipelineTypeOK` |
| | `AcksAreSafe` | `AckedChunksAreDone` |
| | `EventsAreOne` | `EventsAreTheIntent` |
| | `HoldersEndTheirChunks` (one message per chunk) | `HolderEndsItsChunk` |
| | `NoLostCompletion` | `AcknowledgedMeansAnnounced` |
| `OrganizerIntakeProofs` | `OrganizerKeepsProtocol`, `OrganizerImplementsOutcome` | `RefinesLedger`, `ImplementsOutcome` |
| | `IntakeTypeCorrect` | `IntakeTypeOK` |
| | `CheckpointsFollowSends` | `CheckpointsAreSent` |
| | `AcknowledgementsAreSafe` | `AcknowledgedIsSent` |
| | `AdmissionsAreExclusive` (for notifications) | `AdmissionIsExclusive` |
| | `CheckpointsEndSending` (one invocation at a time) | `NoResendAfterCheckpoint` |
| `ChunkPublisherProofs` | `CausesAreReported` | `CauseIsReported` |
| | `FailuresHaveReasons` | `FailuresAreExplained` |
| | `SlotsAreBounded` | the bound on goroutines in `PublisherTypeOK` |
| | `PublisherTypes` | `PublisherTypeOK` |
| | `SuccessIsTrue` | `SuccessIsComplete` |
| | `RequestsAreAccepted` | `RequestsFit` |
| | `PublisherImplementsPass` | `ImplementsPass` |
| `FileChunksProofs` | `PlansFit` | `PlannedChunksFit` |
| | `ChunkTypes` | `ChunksTypeOK` |
| | `OffsetsArePositions` | `OffsetIsPosition` |
| | `RecordsAreWhole` | `EventsAreRecords` |
| | `RecordsAreSentOnce` | `EachRecordOnce` |
| `ObjectJobsProofs` | `ReadsAgree` | `ReadsAreTheObject` |
| | `CompletedIsComplete` | `CompletedReadEverything` |
| | `NothingIsLost` | `AcknowledgedIsPlanned` |
| | `ManifestsAreAttainable` | `ManifestIsAttainable` |
| `SumTheorems` | `SumRemove`, `SumUnion`, `SumOfParts`, ... | |

**Ledger.** The safety properties are not inductive by themselves. That a terminal job is
settled rests on its counters (`CountersMatchChunks`), on the chunks being exactly those of the
sealed manifest (`PlanShape`), on nothing running before the seal (`SealShape`), and on a
terminal status following from counters that reached the manifest (`TerminalShape`). That the
outbox tells the truth rests on the stale reads: `ViewsAreSettled` says that a read lags behind
the counters, and then the transaction's condition fails, or has the current totals. Their
conjunction with the types is `LedgerInv`, which the run `ledger` checks first. Each part is
preserved by each of the four groups of actions; the counters use lemmas about the cardinality
of the set of chunks in one state when one chunk moves. A chunk and a job count are compared
by a pigeonhole step: as many finished chunks as the manifest has are all of them. Under
`LedgerInv` every write maps to a step of `JobOutcome` or to a stutter, one lemma per group.

**Sums.** Record totals, counts of messages and planned chunks are sums over finite sets. The
library's induction theorems cannot be instantiated, so `SumTheorems` makes its induction of
well-foundedness: a set of numbers without a least counterexample (`LeastNatural`), hence sets
of finite subsets closed under one more element (`FiniteSubsets`), hence a table that satisfies
the recursion of the fold (`SumExists`), and from it that any element may be taken off first
(`SumRemove`). `TotalsCorrect` then adds one completed chunk at a time, `SumOfParts` counts the
records of disjoint bundles.

**Worker.** A step of an invocation names a chunk and an attempt, and the ledger's rules for
its callers ask for a sealed job and an attempt the queue counted. `PipelineInv` keeps that:
messages exist only after the seal, an invocation holds a real message under a receive count
(`HoldsMessage`), it looks at the outbox to acknowledge only on behalf of a COMPLETED chunk
(`ServesCompleted`), and sends and marks nothing but the stored event (`CarriesIntent`). What
other callers may do meanwhile is one lemma about the ledger (`Kept`): a seal, a COMPLETED
chunk and an intent are never taken back.

Two properties depend on which faults occur. `HoldersEndTheirChunks` follows the attempt
numbers: with one message per chunk (`OneCopy`), two invocations of a chunk present the same
number only if they hold the same message under the same receive count. Without redeliveries
no message has two holders (`Exclusive`); without redrives the count only grows, and each
holder got its own (`Numbered`). Either is enough, so resends, and a redelivery together with a
redrive, are excluded; the crash of the holder and any failed calls are not. `NoLostCompletion`
says that as long as a finished job's event is not marked, there is a message that will still
bring it about (`Answers`, `SomeoneAnnounces`): it is not deleted, and no invocation that holds it
has just lost the finalising transaction and is about to find no intent (`Yields`). An invocation
that fails hands its message back; one that loses a conflict gives way to the holder of
another message, whose call is then still under way. Both need a message to have one holder
(`Exclusive`), which is lost with the first delivery of a message being handled: the property is
about the behaviours before one (`Overlapped`), and nothing else is assumed of the faults or
of the transactions that conflict. That a second holder does lose completions is in section 3.

**Organizer.** `IntakeInv` says of each invocation where in the job's life it stands
(`InPhase`), that the chunks it has written are of the plan the job has although other
invocations write the same items under other configurations (`HasPlanned`), and that every
planned chunk it has neither sent nor still in hand was sent before (`HasSent`); and of the
whole that only what was sent can have been started (`StartedIsSent`), so that a chunk beyond
PENDING never hides one that the queue has not seen. `AdmissionsAreExclusive` adds that
whoever passed admission has a job item (`AdmittedHasJob`), and `CheckpointsEndSending` that
what an invocation still holds is held once and has no checkpoint (`Fresh`); two invocations
that both loaded a chunk before either's checkpoint do send it twice.

**Publisher.** `PublisherInv` ties errors to causes: no error and no cancellation without a
fault, no call that is dead from the start without a cancellation, and no goroutine that waits
on its last attempt without a fault (`ErrorsHaveCause`); and an open bundle over its limit has
a record that is too large for any (`OpenFits`). `SendInv` follows the records: each one up to
the producer's position was rejected, is held in the bundle, the batch or its parts, or went
to a goroutine, and only one of the three (`ProducerShape`); no two goroutines have a record in
common and each request fits (`FlightsShape`); and what is in none of these places was
delivered and counted once, unless an error was kept, while even then the count is at most
what was delivered and waits for no repetition (`Accounted`). A record whose delivery was
hidden by a lost reply still waits in its goroutine, so that repeating it changes no count.
The refinement reads each step off these facts: the producer takes a record, ends, or moves
messages about unseen; a goroutine confirms the messages of its request or some of them, or
none, although they may have arrived (`GoroutineActs`); and after a success none is left.
The size of a request is the sum of its messages (`RequestsAreSums`), which `Split` keeps
below the limit part by part.

**Files.** `PlanMade` says that the jobs are the plan of the file, which cuts it at increasing
points (`CutInto`; for text `TextCuts`), and within the Worker's limit where there is room
(`RoomForChunks`: a text chunk is at most the file's even share, rounded up, and the planner
takes as many chunks as that limit asks for unless its other bound is lower; a padded
multi-line chunk is at most a nominal range and the look ahead), and `History` that what was
sent is what the passes read and own. The rest is about operators, not steps. A pass sees a
part of the file, perhaps with a final LF added (`PartOf`). Its lines start where the file's do
(`StartsOfPart`), apart from a first fragment, which a text read skips unless the byte before
it ends a line; and a line it sees the end of is the file's (`TerminatedLine`). In a multi-line
file with unambiguous breaks no break is found inside a line (`BreaksAreStarts`) and a padded
chunk ends with the file or before a line that begins a record (`ChunkEndsAtBreak`), so that a
record is passed on with all its lines (`WholeRecords`). What a range owns is then whole, and
each start is in one range, whose completed pass sends it. Of an array the question is which
strings the scan sees when a read begins inside one. From a place outside strings it sees the
file's (`SamePhase`), and an element begins there; so if the alignment finds a complete element
the scan finds the file's from there on, and if it finds none the scan finds none either, in
whichever phase it starts (`AlignedElements`). An element within the limit ends before the
overlap does (`ElementOfFile`). That a brace with its key is never inside a string is part of
the assumptions on inputs (`IsInput`): JSON escapes the quotes of the key there.

**Objects.** `IInv` has three parts. `JobsInv` gives each job its shape, also when its plan
was interrupted: its payloads are a prefix of one file's chunks, and all of them once the
manifest is sealed (`Planned`); nothing is sent before that, and nothing runs before it is sent
(`Unstarted`); what it completed was read from its file (`OneContent`). How many chunks it expects
follows from what it is (`FileFits`, `RequestFits`, `ReplayFits`): as many as it has for an admitted
object and a replay of chosen chunks, which is `ManifestIsAttainable`, more for a request of
several files or a replay that took strays. A COMPLETED job ended as many as it expects, so by
counting the former have ended all and the latter never complete. `WorldInv` says that
notifications name what was written and that an acknowledged one has its jobs sealed and sent.
`OrgInv` carries that across the steps of an invocation: it holds the lease of everything it has
planned until the plan is persisted, nobody else does (`Apart`), because a lease in use does not
run out; the references it has passed have ended or are in its plans (`Handled`), and the plans it
has persisted are sealed (`Persisted`). The second look at an object either finds the identity the
first one admitted or fails (`SecondLook`), which is what makes the plan's files the job's.

**Checked by TLC only.** All liveness (fairness and `ENABLED` are beyond the prover):
`EveryJobEnds`, `CompletedIsAnnounced`, `ManifestReachesQueue`, `PassEnds`. Every other property of
a passing run is the property of a theorem. Of `HolderEndsItsChunk`,
`AdmissionIsExclusive` and `NoResendAfterCheckpoint`, the cases the table excludes.

## 6. Plan

Done in the order of importance: ledger protocol and its promise, the Worker, the Organizer,
their refinements, the chunking of the three data types, the record publisher, objects and
replays; proofs of the safety of all of them, and the pass `ChunkPublisher` implements. To come,
for `FileChunks`: nested objects in arrays, break values of several bytes cut by the end of the
look-ahead, and an abstract specification (every record to its chunk) it implements.

**Not modelled.** Configuration decoding and validation, hashing and serialisation, logging and
metrics, the operators' ledger queries, Terraform, scripts, benchmarks and the end-to-end
tests. They hold no state the protocol depends on; what callers observe of them is in the
modules above. Of the AWS client, `HeadObject`, the range reads and what `Send` accepts are
modelled; reads through a presigned URL are not, since no message of a planned job carries one.
