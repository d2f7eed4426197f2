----------------------------- MODULE JobLedger -----------------------------
(***************************************************************************)
(* The DynamoDB ledger of one job (internal/platform/aws/ledger.go): the   *)
(* JOB item, its CHUNK items and the COMPLETION_INTENT item of one         *)
(* partition JOB#<jobId>.  Every action is ONE conditional write (or one   *)
(* TransactWriteItems) of the Go code: its guard is the                    *)
(* ConditionExpression, its primed variables the UpdateExpression.  What a *)
(* ledger method does around its writes (reads, retries, the answer it     *)
(* returns) belongs to the callers and is modelled with them, in           *)
(* WorkerPipeline and OrganizerIntake; the guards are named here so that a *)
(* caller can also take the "condition failed" branch.                     *)
(*                                                                         *)
(* Spec lets any number of callers issue these writes in any order, limited*)
(* only by the calling protocol named in the section "Callers".            *)
(***************************************************************************)
EXTENDS Integers, FiniteSets, FiniteSetsExt, LedgerStates

CONSTANTS
  MaxChunks,        \* chunk ids are the sequence numbers 1..MaxChunks
  Configs,          \* configuration snapshots a plan can be made under
  NoConfig,         \* the absent configSnapshot attribute
  ChunkCount,       \* ChunkCount[k]: number of chunks planned under k
  RangeOf,          \* RangeOf[k]: the byte ranges k gives those chunks
  Callers,          \* invocations that can be inside ReconcileCompletion
  Attempts,         \* attempt numbers (SQS receive counts) callers present
  Counts,           \* record counters a chunk can end with
  MaxReceiveCount,  \* F2E_MAX_RECEIVE_COUNT, FailChunk's last attempt
  RefusesUnused     \* whether the table refuses an unused expression value

Chunks == 1..MaxChunks

ASSUME LedgerConstants ==
  /\ MaxChunks \in Nat
  /\ NoConfig \notin Configs
  /\ ChunkCount \in [Configs -> 0..MaxChunks]
  /\ DOMAIN RangeOf = Configs
  /\ Attempts \subseteq Nat
  /\ Counts \subseteq [published : Nat, rejected : Nat]
  /\ MaxReceiveCount \in Nat \ {0}
  /\ RefusesUnused \in BOOLEAN

VARIABLES
  job,      \* the JOB item
  chunk,    \* chunk[c]: the CHUNK#c item
  intent,   \* the COMPLETION_INTENT#1 item (the outbox)
  view      \* view[w]: the JOB item caller w read in ReconcileCompletion

ledgerVars == <<job, chunk, intent, view>>

ManifestOf(k) == 1..ChunkCount[k]

JobItem ==
  [ status : JobStatuses, lease : {"none", "held", "expired"},
    cfg : Configs \cup {NoConfig}, planned : BOOLEAN, expected : Nat,
    sealed : BOOLEAN, completed : Nat, failed : Nat,
    published : Nat, rejected : Nat, result : JobResults ]

ChunkItem ==
  [ status : ChunkStatuses, attempt : Nat, scheduled : BOOLEAN,
    cfg : Configs \cup {NoConfig}, published : Nat, rejected : Nat ]

IntentItem ==
  [ state : {"none", "pending", "delivered"},
    status : {"none", "COMPLETED", "FAILED"}, result : JobResults,
    published : Nat, rejected : Nat ]

View ==
  [ active : BOOLEAN, completed : Nat, failed : Nat,
    published : Nat, rejected : Nat ]

NoJob ==
  [ status |-> "ABSENT", lease |-> "none", cfg |-> NoConfig,
    planned |-> FALSE, expected |-> 0, sealed |-> FALSE, completed |-> 0,
    failed |-> 0, published |-> 0, rejected |-> 0, result |-> "none" ]

NoChunk ==
  [ status |-> "ABSENT", attempt |-> 0, scheduled |-> FALSE,
    cfg |-> NoConfig, published |-> 0, rejected |-> 0 ]

NoIntent ==
  [ state |-> "none", status |-> "none", result |-> "none",
    published |-> 0, rejected |-> 0 ]

NoView ==
  [ active |-> FALSE, completed |-> 0, failed |-> 0,
    published |-> 0, rejected |-> 0 ]

LedgerInit ==
  /\ job = NoJob
  /\ chunk = [c \in Chunks |-> NoChunk]
  /\ intent = NoIntent
  /\ view = [w \in Callers |-> NoView]

-----------------------------------------------------------------------------
(* Admission and its phases: one JOB item, no chunk yet.                    *)

(* PutItem of Admit: the first receipt creates the item in RECEIVED.        *)
AdmitPut(k) ==
  /\ job.status = "ABSENT"
  /\ job' = [job EXCEPT !.status = "RECEIVED", !.lease = "held", !.cfg = k]
  /\ UNCHANGED <<chunk, intent, view>>

(* The 15 minutes of the admission lease run out.                           *)
LeaseExpires ==
  /\ job.lease = "held"
  /\ job.status \in LeasedStatuses
  /\ job' = [job EXCEPT !.lease = "expired"]
  /\ UNCHANGED <<chunk, intent, view>>

(* Reclaim of Admit: a later delivery takes over an expired admission.      *)
MutCanReclaim == job.status \in LeasedStatuses

CanReclaim == job.lease = "expired" /\ job.status \in LeasedStatuses

ReclaimLease ==
  /\ CanReclaim
  /\ job' = [job EXCEPT !.lease = "held"]
  /\ UNCHANGED <<chunk, intent, view>>

(* advanceJob: a conditional move of the job from one of a set of states.   *)
AdvanceJob(from, to) ==
  /\ job.status \in from
  /\ job' = [job EXCEPT !.status = to]
  /\ UNCHANGED <<chunk, intent, view>>

BeginValidation == AdvanceJob({"RECEIVED"}, "VALIDATING")

MutBeginPlanning == AdvanceJob({"RECEIVED", "VALIDATING"}, "PLANNING")

BeginPlanning   == AdvanceJob({"VALIDATING"}, "PLANNING")
RejectJob       == AdvanceJob({"RECEIVED", "VALIDATING"}, "REJECTED")

-----------------------------------------------------------------------------
(* Planning: the three kinds of write of Plan, then the checkpoints.        *)

(* First upsert of the JOB item: a new item, or one of the same file whose  *)
(* expectedChunks is absent or equal.                                       *)
CanPlanJob(k) == job.planned => job.expected = ChunkCount[k]

PlanJob(k) ==
  /\ CanPlanJob(k)
  /\ job' = [job EXCEPT
               !.status = IF job.status = "ABSENT" THEN "PENDING" ELSE @,
               !.cfg = IF job.cfg = NoConfig THEN k ELSE @,
               !.planned = TRUE, !.expected = ChunkCount[k]]
  /\ UNCHANGED <<chunk, intent, view>>

(* Upsert of one CHUNK item: new, or with the same byte range.  The payload *)
(* (and the configuration in it) of the first write stays.                  *)
CanPlanChunk(k, c) ==
  chunk[c].status # "ABSENT" => RangeOf[chunk[c].cfg] = RangeOf[k]

PlanChunk(k, c) ==
  /\ CanPlanChunk(k, c)
  /\ chunk' = IF chunk[c].status # "ABSENT" THEN chunk
              ELSE [chunk EXCEPT ![c] =
                      [@ EXCEPT !.status = "PENDING", !.cfg = k]]
  /\ UNCHANGED <<job, intent, view>>

(* Seal: the last write of Plan, once per job.                              *)
CanSeal(k) == job.planned /\ job.expected = ChunkCount[k] /\ ~job.sealed

SealManifest(k) ==
  /\ CanSeal(k)
  /\ job' = [job EXCEPT !.sealed = TRUE, !.status = "PENDING"]
  /\ UNCHANGED <<chunk, intent, view>>

(* MarkChunksScheduled, for one chunk: only while no worker has it.         *)
CanCheckpoint(c) == chunk[c].status = "PENDING"

CheckpointChunk(c) ==
  /\ CanCheckpoint(c)
  /\ chunk' = [chunk EXCEPT ![c].scheduled = TRUE]
  /\ UNCHANGED <<job, intent, view>>

(* markJobs, the two outcomes of Publish.                                   *)
CanMarkScheduled ==
  job.sealed /\ job.status \in {"PENDING", "PLANNING", "SCHEDULED"}

MarkScheduled ==
  /\ CanMarkScheduled
  /\ job' = [job EXCEPT !.status = "SCHEDULED"]
  /\ UNCHANGED <<chunk, intent, view>>

MutCanMarkSchedulingFailed == job.sealed

(* markJobs always passes the value :scheduled, which the condition of this *)
(* outcome does not use.  DynamoDB refuses a request with an unused value; a*)
(* store that does not look (the fake ledgers of the tests) takes it.       *)
CanMarkSchedulingFailed ==
  /\ ~RefusesUnused
  /\ job.sealed
  /\ job.status \in {"PENDING", "PLANNING", "SCHEDULING_FAILED"}

MarkSchedulingFailed ==
  /\ CanMarkSchedulingFailed
  /\ job' = [job EXCEPT !.status = "SCHEDULING_FAILED"]
  /\ UNCHANGED <<chunk, intent, view>>

-----------------------------------------------------------------------------
(* Execution of a chunk.                                                    *)

MutCanStart(c) == chunk[c].status \in {"PENDING", "RETRY_PENDING", "FAILED"}

CanStart(c) == chunk[c].status \in {"PENDING", "RETRY_PENDING"}

StartChunk(c, a) ==
  /\ CanStart(c)
  /\ chunk' = [chunk EXCEPT ![c] = [@ EXCEPT !.status = "RUNNING", !.attempt = a]]
  /\ UNCHANGED <<job, intent, view>>

(* AcquireChunk, the claim with an ownership token; no caller uses it yet.  *)
AcquireChunk(c) ==
  /\ chunk[c].status = "PENDING"
  /\ chunk' = [chunk EXCEPT ![c] = [@ EXCEPT !.status = "RUNNING",
                                     !.attempt = chunk[c].attempt + 1]]
  /\ UNCHANGED <<job, intent, view>>

(* The attempt that holds the chunk is the one that presents its number.    *)
MutHoldsChunk(c, a) == chunk[c].status = "RUNNING"

HoldsChunk(c, a) == chunk[c].status = "RUNNING" /\ chunk[c].attempt = a

MutCanComplete(c, a) == chunk[c].attempt = a /\ job.status \in OpenForResults

CanComplete(c, a) == HoldsChunk(c, a) /\ job.status \in OpenForResults

(* Transaction of CompleteChunk: the chunk item and the job counters.       *)
CompleteChunk(c, a, n) ==
  /\ CanComplete(c, a)
  /\ chunk' = [chunk EXCEPT ![c] = [@ EXCEPT !.status = "COMPLETED",
                                               !.published = n.published,
                                               !.rejected = n.rejected]]
  /\ job' = [job EXCEPT !.status = "RUNNING", !.completed = @ + 1,
                        !.published = @ + n.published,
                        !.rejected = @ + n.rejected]
  /\ UNCHANGED <<intent, view>>

(* FailChunk below the redrive limit: the chunk waits for its redelivery.   *)
RetryChunk(c, a) ==
  /\ a < MaxReceiveCount
  /\ HoldsChunk(c, a)
  /\ chunk' = [chunk EXCEPT ![c].status = "RETRY_PENDING"]
  /\ UNCHANGED <<job, intent, view>>

(* FailChunk at the redrive limit: the chunk fails for good.                *)
CanFail(c, a) == HoldsChunk(c, a) /\ job.status \in OpenForResults

FailChunk(c, a) ==
  /\ a >= MaxReceiveCount
  /\ CanFail(c, a)
  /\ chunk' = [chunk EXCEPT ![c].status = "FAILED"]
  /\ job' = [job EXCEPT !.status = "RUNNING", !.failed = @ + 1]
  /\ UNCHANGED <<intent, view>>

-----------------------------------------------------------------------------
(* Completion: ReconcileCompletion and the outbox.                          *)

MutReadyToFinalize ==
  /\ job.status \notin TerminalJob \cup {"ABSENT"}
  /\ job.sealed
  /\ job.completed + job.failed + 1 >= job.expected

(* The JOB item read by ReconcileCompletion calls for a terminal state.     *)
ReadyToFinalize ==
  /\ job.status \notin TerminalJob \cup {"ABSENT"}
  /\ job.sealed
  /\ job.completed + job.failed >= job.expected

ReadJob(w) ==
  /\ ReadyToFinalize
  /\ view' = [view EXCEPT ![w] =
                [active |-> TRUE, completed |-> job.completed,
                 failed |-> job.failed, published |-> job.published,
                 rejected |-> job.rejected]]
  /\ UNCHANGED <<job, chunk, intent>>

(* Caller w forgets what it read: its transaction failed, or it died.       *)
DropView(w) ==
  /\ view' = [view EXCEPT ![w] = NoView]
  /\ UNCHANGED <<job, chunk, intent>>

MutTerminalOf(v) == IF v.failed > 0 THEN "FAILED" ELSE "SUCCESS"

TerminalOf(v) == IF v.failed > 0 THEN "FAILED" ELSE "COMPLETED"

MutResultOf(v) ==
  CASE v.rejected > 0 -> "WITH_REJECTIONS"
    [] OTHER          -> "SUCCESS"

ResultOf(v) ==
  CASE TerminalOf(v) = "FAILED" -> "none"
    [] TerminalOf(v) = "COMPLETED" /\ v.rejected > 0 -> "WITH_REJECTIONS"
    [] OTHER -> "SUCCESS"

(* Condition of the finalising transaction: nothing moved since the read    *)
(* and no intent exists yet.                                                *)
CanFinalize(w) ==
  /\ view[w].active
  /\ job.sealed
  /\ job.completed = view[w].completed
  /\ job.failed = view[w].failed
  /\ job.status \in OpenForResults
  /\ intent.state = "none"

(* The terminal state and its completion intent, in one transaction.  The   *)
(* totals are the ones READ, not the ones stored at commit time.            *)
FinalizeJob(w) ==
  /\ CanFinalize(w)
  /\ LET v == view[w] IN
       /\ job' = [job EXCEPT !.status = TerminalOf(v), !.result = ResultOf(v)]
       /\ intent' = [state |-> "pending", status |-> TerminalOf(v),
                     result |-> ResultOf(v), published |-> v.published,
                     rejected |-> v.rejected]
  /\ view' = [view EXCEPT ![w] = NoView]
  /\ UNCHANGED chunk

(* The event an intent carries: its final state, result and counts.         *)
EventOf(i) == [ status |-> i.status, result |-> i.result,
                published |-> i.published, rejected |-> i.rejected ]

(* MarkIntentDelivered removes the pending marker.                          *)
MarkDelivered ==
  /\ intent.state = "pending"
  /\ intent' = [intent EXCEPT !.state = "delivered"]
  /\ UNCHANGED <<job, chunk, view>>

-----------------------------------------------------------------------------
(* Callers.  The ledger trusts its callers in three points, and only there: *)
(*   - Plan is called for a job no admission holds, or after BeginPlanning; *)
(*   - within Plan the writes come in order: JOB, every CHUNK, seal;        *)
(*   - a chunk is started from a queue message, sent only after Plan.       *)
PlanAllowed(k)     == job.status \notin {"RECEIVED", "VALIDATING", "REJECTED"}
ChunkAllowed(k, c) == /\ c \in ManifestOf(k)
                      /\ job.planned /\ job.expected = ChunkCount[k]
SealAllowed(k)     == \A c \in ManifestOf(k) :
                        chunk[c].status # "ABSENT" /\ CanPlanChunk(k, c)

Admission ==
  \/ \E k \in Configs : AdmitPut(k)
  \/ LeaseExpires \/ ReclaimLease
  \/ BeginValidation \/ BeginPlanning \/ RejectJob

Planning ==
  \/ \E k \in Configs : PlanAllowed(k) /\ PlanJob(k)
  \/ \E k \in Configs, c \in Chunks : ChunkAllowed(k, c) /\ PlanChunk(k, c)
  \/ \E k \in Configs : SealAllowed(k) /\ SealManifest(k)
  \/ \E c \in Chunks : CheckpointChunk(c)
  \/ MarkScheduled \/ MarkSchedulingFailed

Execution ==
  \/ \E c \in Chunks, a \in Attempts : job.sealed /\ StartChunk(c, a)
  \/ \E c \in Chunks : job.sealed /\ AcquireChunk(c)
  \/ \E c \in Chunks, a \in Attempts, n \in Counts : CompleteChunk(c, a, n)
  \/ \E c \in Chunks, a \in Attempts : RetryChunk(c, a) \/ FailChunk(c, a)

Completion ==
  \/ \E w \in Callers : ReadJob(w) \/ FinalizeJob(w) \/ DropView(w)
  \/ MarkDelivered

LedgerNext == Admission \/ Planning \/ Execution \/ Completion

LedgerSpec == LedgerInit /\ [][LedgerNext]_ledgerVars

-----------------------------------------------------------------------------
(* Properties.                                                              *)

InState(s) == { c \in Chunks : chunk[c].status = s }
Planned    == { c \in Chunks : chunk[c].status # "ABSENT" }

(* Type invariant of the four ledger variables. *)
LedgerTypeOK ==
  /\ job \in JobItem
  /\ chunk \in [Chunks -> ChunkItem]
  /\ intent \in IntentItem
  /\ view \in [Callers -> View]

(* The job counters are exactly the chunks in the two terminal states, so   *)
(* no redelivery, stale attempt or retry ever counts a chunk twice or       *)
(* leaves one out (CompleteChunk and FailChunk move both in one transaction,*)
(* from different invocations).                                             *)
CountersMatchChunks ==
  /\ job.completed = Cardinality(InState("COMPLETED"))
  /\ job.failed = Cardinality(InState("FAILED"))

(* The record totals are the sums over the completed chunks.                *)
TotalsMatchChunks ==
  /\ job.published =
       MapThenSumSet(LAMBDA c : chunk[c].published, InState("COMPLETED"))
  /\ job.rejected =
       MapThenSumSet(LAMBDA c : chunk[c].rejected, InState("COMPLETED"))

(* states.go: "With a sealed manifest the invariant expectedChunks =        *)
(* pendingChunks + runningChunks + retryPendingChunks + completedChunks +   *)
(* failedChunks holds".                                                     *)
ManifestAccounted ==
  job.sealed =>
    job.expected = Cardinality(InState("PENDING"))
                   + Cardinality(InState("RUNNING"))
                   + Cardinality(InState("RETRY_PENDING"))
                   + job.completed + job.failed

(* A terminal job is really finished: its manifest is sealed, every planned *)
(* chunk is COMPLETED or FAILED, and it is FAILED exactly when one is.      *)
TerminalIsSettled ==
  job.status \in {"COMPLETED", "FAILED"} =>
    /\ job.sealed
    /\ \A c \in Planned : chunk[c].status \in TerminalChunk
    /\ Cardinality(Planned) = job.expected
    /\ (job.status = "FAILED") <=> (InState("FAILED") # {})

(* T12: "every terminal job transition produces exactly one logical         *)
(* delivery record": the intent exists exactly for finished jobs and carries*)
(* their final state and totals.                                            *)
OutboxMatchesJob ==
  /\ (intent.state = "none") <=> (job.status \notin {"COMPLETED", "FAILED"})
  /\ intent.state # "none" =>
       /\ intent.status = job.status
       /\ intent.result = job.result
       /\ intent.published = job.published
       /\ intent.rejected = job.rejected
       /\ (intent.result = "none") <=> (intent.status = "FAILED")

(* "terminals never regress ... and late planning/scheduling never          *)
(* overwrites completion": once terminal, neither the job's status, totals  *)
(* and counters, nor a finished chunk, nor the event of its intent change.  *)
TerminalNeverRegresses ==
  [][job.status \in TerminalJob =>
       /\ job' = job
       /\ \A c \in Chunks : chunk[c].status \in TerminalChunk
                              => chunk'[c] = chunk[c]
       /\ EventOf(intent') = EventOf(intent)
    ]_ledgerVars

(* The inductive invariant behind the properties above.  Its parts: what    *)
(* has been planned, ...                                                    *)
PlanShape ==
  /\ job.expected \in 0..MaxChunks
  /\ Planned \subseteq 1..job.expected
  /\ job.sealed => job.planned /\ Planned = 1..job.expected
  /\ IF job.planned
       THEN /\ job.cfg # NoConfig
            /\ job.status \notin {"ABSENT", "RECEIVED", "VALIDATING", "REJECTED"}
       ELSE job.expected = 0

(* ... that nothing runs before the manifest is sealed, ...                 *)
SealShape ==
  IF job.sealed
    THEN job.status \in OpenForResults
                         \cup {"SCHEDULING_FAILED", "COMPLETED", "FAILED"}
    ELSE /\ job.status \in LeasedStatuses \cup {"ABSENT", "PENDING", "REJECTED"}
         /\ \A c \in Chunks : chunk[c].status \in {"ABSENT", "PENDING"}

(* ... that a stale read of the JOB item either lags behind the counters,   *)
(* and then its transaction fails, or has the current totals, ...           *)
ViewsAreSettled ==
  \A w \in Callers : view[w].active =>
    /\ job.sealed
    /\ view[w].completed + view[w].failed >= job.expected
    /\ view[w].completed <= job.completed
    /\ view[w].failed <= job.failed
    /\ view[w].completed = job.completed =>
         view[w].published = job.published /\ view[w].rejected = job.rejected

(* ... and what a terminal status says about the counters.                  *)
TerminalShape ==
  job.status \in {"COMPLETED", "FAILED"} =>
    /\ job.sealed
    /\ job.completed + job.failed >= job.expected
    /\ (job.status = "FAILED") <=> (job.failed > 0)

LedgerInv ==
  /\ LedgerTypeOK /\ CountersMatchChunks /\ PlanShape /\ SealShape
  /\ ViewsAreSettled /\ TerminalShape /\ OutboxMatchesJob

(* What the job promises (JobOutcome), read off the items: the manifest is  *)
(* fixed by the seal, a chunk's fate is its terminal state, and the outcome *)
(* is the job's terminal status.  SCHEDULING_FAILED is no outcome: nothing  *)
(* is announced for it.                                                     *)
Outcome == INSTANCE JobOutcome WITH
  fixed    <- job.sealed,
  manifest <- IF job.sealed THEN Planned ELSE {},
  done     <- InState("COMPLETED"),
  lost     <- InState("FAILED"),
  totals   <- [published |-> job.published, rejected |-> job.rejected],
  outcome  <- IF job.status \in TerminalJob THEN job.status ELSE "open",
  event    <- EventOf(intent),
  notice   <- intent.state

(* The conditional writes of any number of concurrent callers implement that*)
(* promise: every write is one step of it or invisible in it.               *)
ImplementsOutcome == Outcome!Spec

(* Every change of the job's stored status is, in canonical terms, an edge  *)
(* of the table the domain package declares authoritative.                  *)
JobFollowsTable ==
  [][ \/ job.status = "ABSENT"
      \/ Canonical(job'.status) = Canonical(job.status)
      \/ <<Canonical(job.status), Canonical(job'.status)>> \in JobTransitions
    ]_ledgerVars

(* The same for every chunk.                                                *)
ChunkFollowsTable ==
  [][\A c \in Chunks :
       \/ chunk[c].status \in {"ABSENT", chunk'[c].status}
       \/ <<chunk[c].status, chunk'[c].status>> \in ChunkTransitions
    ]_ledgerVars
=============================================================================
