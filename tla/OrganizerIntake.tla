--------------------------- MODULE OrganizerIntake ---------------------------
(***************************************************************************)
(* The Organizer (cmd/organizer/main.go, Publish of the organizer service) *)
(* over the ledger: invocations that take a message of the intake queue    *)
(* through configuration, admission, planning, sends to the chunk-jobs     *)
(* queue and checkpoints.  One step is one external call.  All messages are*)
(* about one file: in an "s3" instance they are S3 notifications of the    *)
(* same object, whose job id is the file id; in an "explicit" instance a   *)
(* message is an OrganizerRequest, which skips admission.                  *)
(*                                                                         *)
(* Workers appear only through what they do to the ledger (WorkerPipeline  *)
(* models their inside); the intake queue is external, as SQS there.       *)
(***************************************************************************)
EXTENDS JobLedger

CONSTANTS
  Invocations,   \* execution slots of the Organizer
  Notices,       \* messages of the intake queue
  Admits,        \* TRUE: S3 notifications; FALSE: explicit requests
  Plannable,     \* the configurations under which the file can be planned
  BatchSize,     \* messages per SendMessageBatch (10 in the code)
  MaxReceives,   \* redrive limit of the intake queue
  Faults,        \* the kinds of fault this instance allows
  MaxFaults      \* bound on the number of faults in a behaviour

FaultKinds == { "crash", "callFails", "replyLost", "sendFails", "redelivery",
                "leaseExpires", "configChanges" }

MaxTries == 3    \* sends of one batch before Publish gives up

ASSUME IntakeConstants ==
  /\ Admits \in BOOLEAN
  /\ Plannable \subseteq Configs
  /\ BatchSize \in Nat \ {0}
  /\ MaxReceives \in Nat \ {0}
  /\ Faults \subseteq FaultKinds
  /\ MaxFaults \in Nat
  /\ \A k \in Configs : ChunkCount[k] > 0   \* no planner returns an empty plan

VARIABLES
  notice,    \* notice[m]: where a message is and how often it was received
  org,       \* org[o]: the invocation running in slot o
  sent,      \* sent[c]: how many messages of chunk c reached chunk-jobs
  current,   \* the configuration SSM holds for the prefix
  faults     \* number of faults so far

intakeVars == <<notice, org, sent, current, faults>>
vars == <<ledgerVars, intakeVars>>

(* From "validate" on, an invocation acts on an admission it acquired.      *)
Admitted == { "validate", "validateRead", "beginPlanning", "planningRead",
              "planJob", "planChunk", "load", "send", "checkpoint",
              "mark", "markFailed" }
Steps == { "idle", "admit", "admitRead", "reclaim" } \cup Admitted

NoNotice == "none"

Invocation ==
  [ step : Steps, msg : Notices \cup {NoNotice}, cfg : Configs \cup {NoConfig},
    next : 1..(MaxChunks + 1),   \* Plan: the chunk to write next
    todo : SUBSET Chunks,        \* Publish: chunks not yet in a batch
    batch : SUBSET Chunks,       \* flush: the pending batch
    confirmed : SUBSET Chunks,   \* flush: sent, checkpoint not yet written
    tries : 0..MaxTries ]        \* flush: sends of this batch so far

Idle == [ step |-> "idle", msg |-> NoNotice, cfg |-> NoConfig, next |-> 1,
          todo |-> {}, batch |-> {}, confirmed |-> {}, tries |-> 0 ]

Init ==
  /\ LedgerInit
  /\ notice = [m \in Notices |-> [state |-> "visible", receives |-> 0]]
  /\ org = [o \in Invocations |-> Idle]
  /\ sent = [c \in Chunks |-> 0]
  /\ current \in Configs
  /\ faults = 0

-----------------------------------------------------------------------------
(* Shorthands.                                                              *)

Fault(kind) == kind \in Faults /\ faults < MaxFaults /\ faults' = faults + 1
NoFault     == UNCHANGED faults

At(o, step)   == org[o].step = step
Goto(o, step) == org' = [org EXCEPT ![o].step = step] /\ UNCHANGED notice

(* The batch response: success deletes the message, an error returns it.    *)
Release(o, state) ==
  /\ org' = [org EXCEPT ![o] = Idle]
  /\ notice' = [notice EXCEPT ![org[o].msg].state =
                  IF state = "deleted" THEN state
                  ELSE IF @ = "inflight" THEN "visible" ELSE @]

Ack(o)  == Release(o, "deleted")
Nack(o) == Release(o, "visible")

NoLedgerChange == UNCHANGED ledgerVars

(* A call that fails before or after it took effect, and whose error makes  *)
(* the whole message fail.                                                  *)
Fails(o, write) ==
  \/ NoLedgerChange /\ Nack(o) /\ Fault("callFails")
  \/ write /\ Nack(o) /\ Fault("replyLost")

-----------------------------------------------------------------------------
(* The intake queue, the parameter store and the clock.                     *)

(* The handler resolves the configuration anew for every delivery.          *)
Receive(o, m) ==
  /\ At(o, "idle")
  /\ notice[m].state = "visible"
  /\ notice[m].receives < MaxReceives
  /\ notice' = [notice EXCEPT ![m].state = "inflight", ![m].receives = @ + 1]
  /\ org' = [org EXCEPT ![o] =
       [Idle EXCEPT !.step = IF Admits THEN "admit" ELSE "planJob",
                    !.msg = m, !.cfg = current]]
  /\ NoLedgerChange /\ UNCHANGED <<sent, current, faults>>

DeadLetter(m) ==
  /\ notice[m].state = "visible"
  /\ notice[m].receives >= MaxReceives
  /\ notice' = [notice EXCEPT ![m].state = "dlq"]
  /\ NoLedgerChange /\ UNCHANGED <<org, sent, current, faults>>

Redeliver(m) ==
  /\ notice[m].state = "inflight"
  /\ Fault("redelivery")
  /\ notice' = [notice EXCEPT ![m].state = "visible"]
  /\ NoLedgerChange /\ UNCHANGED <<org, sent, current>>

ConfigChanges ==
  /\ Fault("configChanges")
  /\ current' \in Configs \ {current}
  /\ NoLedgerChange /\ UNCHANGED <<notice, org, sent>>

(* The lease runs 15 minutes from Admit.  Nothing in the ledger ties it to  *)
(* the life of its holder, so the holder may still be running.              *)
LeaseRunsOut ==
  /\ LeaseExpires /\ Fault("leaseExpires")
  /\ UNCHANGED <<notice, org, sent, current>>

-----------------------------------------------------------------------------
(* Admit: the conditional PutItem, then the status, then the reclaim.       *)

Admit(o) ==
  /\ At(o, "admit")
  /\ \/ AdmitPut(org[o].cfg) /\ Goto(o, "validate") /\ NoFault
     \/ /\ job.status # "ABSENT"
        /\ NoLedgerChange /\ Goto(o, "admitRead") /\ NoFault
     \/ Fails(o, AdmitPut(org[o].cfg))
  /\ UNCHANGED <<sent, current>>

MutAdmitRead(o) ==
  /\ At(o, "admitRead")
  /\ \/ job.status \notin LeasedStatuses /\ Ack(o) /\ NoFault
     \/ job.status \in LeasedStatuses /\ Goto(o, "reclaim") /\ NoFault
     \/ Nack(o) /\ Fault("callFails")
  /\ NoLedgerChange /\ UNCHANGED <<sent, current>>

(* A terminal job is AlreadyCompleted: nothing is planned and Publish of    *)
(* nothing succeeds.  Any other status outside the lease's is Busy.         *)
AdmitRead(o) ==
  /\ At(o, "admitRead")
  /\ \/ job.status \in TerminalJob /\ Ack(o) /\ NoFault
     \/ job.status \in LeasedStatuses /\ Goto(o, "reclaim") /\ NoFault
     \/ job.status \notin TerminalJob \cup LeasedStatuses /\ Nack(o) /\ NoFault
     \/ Nack(o) /\ Fault("callFails")
  /\ NoLedgerChange /\ UNCHANGED <<sent, current>>

Reclaim(o) ==
  /\ At(o, "reclaim")
  /\ \/ ReclaimLease /\ Goto(o, "validate") /\ NoFault
     \/ ~CanReclaim /\ NoLedgerChange /\ Nack(o) /\ NoFault
     \/ Fails(o, ReclaimLease)
  /\ UNCHANGED <<sent, current>>

(* BeginValidation and BeginPlanning, repeated after a reclaim: a status    *)
(* already reached is accepted.                                             *)
Validate(o) ==
  /\ At(o, "validate")
  /\ \/ BeginValidation /\ Goto(o, "beginPlanning") /\ NoFault
     \/ /\ job.status # "RECEIVED"
        /\ NoLedgerChange /\ Goto(o, "validateRead") /\ NoFault
     \/ Fails(o, BeginValidation)
  /\ UNCHANGED <<sent, current>>

ValidateRead(o) ==
  /\ At(o, "validateRead")
  /\ \/ /\ job.status \in {"VALIDATING", "PLANNING"}
        /\ Goto(o, "beginPlanning") /\ NoFault
     \/ job.status \notin {"VALIDATING", "PLANNING"} /\ Nack(o) /\ NoFault
     \/ Nack(o) /\ Fault("callFails")
  /\ NoLedgerChange /\ UNCHANGED <<sent, current>>

StartPlanning(o) ==
  /\ At(o, "beginPlanning")
  /\ \/ BeginPlanning /\ Goto(o, "planJob") /\ NoFault
     \/ /\ job.status # "VALIDATING"
        /\ NoLedgerChange /\ Goto(o, "planningRead") /\ NoFault
     \/ Fails(o, BeginPlanning)
  /\ UNCHANGED <<sent, current>>

PlanningRead(o) ==
  /\ At(o, "planningRead")
  /\ \/ job.status = "PLANNING" /\ Goto(o, "planJob") /\ NoFault
     \/ job.status # "PLANNING" /\ Nack(o) /\ NoFault
     \/ Nack(o) /\ Fault("callFails")
  /\ NoLedgerChange /\ UNCHANGED <<sent, current>>

-----------------------------------------------------------------------------
(* Planning.  A file the planner refuses (empty, too large, a layout without*)
(* a record break) fails the message before any write.                      *)

PlanTheJob(o) ==
  /\ At(o, "planJob")
  /\ LET k == org[o].cfg IN
       \/ k \notin Plannable /\ NoLedgerChange /\ Nack(o) /\ NoFault
       \/ k \in Plannable /\ PlanJob(k) /\ Goto(o, "planChunk") /\ NoFault
       \/ k \in Plannable /\ ~CanPlanJob(k) /\ NoLedgerChange /\ Nack(o) /\ NoFault
       \/ k \in Plannable /\ Fails(o, PlanJob(k))
  /\ UNCHANGED <<sent, current>>

MutAllPlanned(o) == org[o].next = ChunkCount[org[o].cfg]

AllPlanned(o) == org[o].next = ChunkCount[org[o].cfg] + 1

PlanAChunk(o) ==
  /\ At(o, "planChunk")
  /\ ~AllPlanned(o)
  /\ LET k == org[o].cfg
         c == org[o].next
     IN \/ /\ PlanChunk(k, c)
           /\ org' = [org EXCEPT ![o].next = c + 1]
           /\ UNCHANGED notice /\ NoFault
        \/ ~CanPlanChunk(k, c) /\ NoLedgerChange /\ Nack(o) /\ NoFault
        \/ Fails(o, PlanChunk(k, c))
  /\ UNCHANGED <<sent, current>>

MutSeal(o) ==
  /\ At(o, "planChunk")
  /\ AllPlanned(o)
  /\ \/ SealManifest(org[o].cfg) /\ Goto(o, "load") /\ NoFault
     \/ ~CanSeal(org[o].cfg) /\ NoLedgerChange /\ Nack(o) /\ NoFault
     \/ Fails(o, SealManifest(org[o].cfg))
  /\ UNCHANGED <<sent, current>>

(* A manifest that cannot be sealed (it is already) is not an error.        *)
Seal(o) ==
  /\ At(o, "planChunk")
  /\ AllPlanned(o)
  /\ \/ SealManifest(org[o].cfg) /\ Goto(o, "load") /\ NoFault
     \/ ~CanSeal(org[o].cfg) /\ NoLedgerChange /\ Goto(o, "load") /\ NoFault
     \/ Fails(o, SealManifest(org[o].cfg))
  /\ UNCHANGED <<sent, current>>

MutUnscheduledChunks == { c \in Chunks : chunk[c].status # "ABSENT" }

(* UnscheduledChunks looks for the checkpoint only, not at the status.      *)
UnscheduledChunks ==
  { c \in Chunks : chunk[c].status # "ABSENT" /\ ~chunk[c].scheduled }

-----------------------------------------------------------------------------
(* Publish: batches in the order of the chunk ids, a flush per batch.       *)

MutNextBatch(todo) == todo

NextBatch(todo) ==
  { c \in todo : Cardinality({ d \in todo : d < c }) < BatchSize }

(* The next flush, or the end of the loop.                                  *)
NextFlush(r, todo) ==
  [ r EXCEPT !.step = IF todo = {} THEN "mark" ELSE "send",
             !.todo = todo \ NextBatch(todo), !.batch = NextBatch(todo),
             !.confirmed = {}, !.tries = 0 ]

Load(o) ==
  /\ At(o, "load")
  /\ \/ /\ org' = [org EXCEPT ![o] = NextFlush(@, UnscheduledChunks)]
        /\ UNCHANGED notice /\ NoFault
     \/ Nack(o) /\ Fault("callFails")
  /\ NoLedgerChange /\ UNCHANGED <<sent, current>>

Deliver(S) == sent' = [c \in Chunks |-> sent[c] + IF c \in S THEN 1 ELSE 0]

(* Send came back: everything was taken, or the entries F failed, or the    *)
(* call failed as a whole, with or without effect.  F may be the batch.     *)
SentAll(o) ==
  /\ Deliver(org[o].batch) /\ NoFault
  /\ org' = [org EXCEPT ![o].step = "checkpoint", ![o].batch = {},
                        ![o].confirmed = org[o].batch]

MutSentSome(o, F) ==
  /\ Deliver(org[o].batch \ F) /\ Fault("sendFails")
  /\ org' = [org EXCEPT ![o].step = "checkpoint", ![o].batch = F,
                        ![o].confirmed = org[o].batch, ![o].tries = @ + 1]

SentSome(o, F) ==
  /\ Deliver(org[o].batch \ F) /\ Fault("sendFails")
  /\ org' = [org EXCEPT ![o].step = "checkpoint", ![o].batch = F,
                        ![o].confirmed = org[o].batch \ F,
                        ![o].tries = @ + 1]

SendError(o) ==
  /\ Deliver({}) \/ Deliver(org[o].batch)
  /\ Fault("sendFails")
  /\ org' = [org EXCEPT ![o].tries = @ + 1,
                        ![o].step = IF org[o].tries + 1 = MaxTries
                                      THEN "markFailed" ELSE "send"]

Send(o) ==
  /\ At(o, "send")
  /\ \/ SentAll(o)
     \/ \E F \in (SUBSET org[o].batch) \ {{}} : SentSome(o, F)
     \/ SendError(o)
  /\ NoLedgerChange /\ UNCHANGED <<notice, current>>

(* MarkChunksScheduled, chunk by chunk; a chunk some worker already has is  *)
(* skipped.  Then the rest of the batch again, or the next batch.           *)
Checkpoint(o) ==
  /\ At(o, "checkpoint")
  /\ \E c \in org[o].confirmed :
       /\ \A d \in org[o].confirmed : c <= d
       /\ \/ /\ CheckpointChunk(c) \/ (~CanCheckpoint(c) /\ NoLedgerChange)
             /\ org' = [org EXCEPT ![o].confirmed = @ \ {c}] /\ NoFault
          \/ /\ CheckpointChunk(c) \/ NoLedgerChange
             /\ org' = [org EXCEPT ![o].step = "markFailed"] /\ Fault("callFails")
  /\ UNCHANGED <<notice, sent, current>>

Checkpointed(o) ==
  /\ At(o, "checkpoint")
  /\ org[o].confirmed = {}
  /\ org' = [org EXCEPT ![o] =
               IF @.batch = {} THEN NextFlush(@, @.todo)
               ELSE [@ EXCEPT !.step = IF org[o].tries = MaxTries
                                         THEN "markFailed" ELSE "send"]]
  /\ NoLedgerChange /\ UNCHANGED <<notice, sent, current, faults>>

(* finish(nil): the only outcome that acknowledges the message.             *)
Mark(o) ==
  /\ At(o, "mark")
  /\ \/ MarkScheduled /\ Ack(o) /\ NoFault
     \/ ~CanMarkScheduled /\ NoLedgerChange /\ Nack(o) /\ NoFault
     \/ Fails(o, MarkScheduled)
  /\ UNCHANGED <<sent, current>>

(* finish(err): the error is returned, recorded or not.                     *)
MarkFailed(o) ==
  /\ At(o, "markFailed")
  /\ \/ MarkSchedulingFailed /\ Nack(o) /\ NoFault
     \/ ~CanMarkSchedulingFailed /\ NoLedgerChange /\ Nack(o) /\ NoFault
     \/ Fails(o, MarkSchedulingFailed)
  /\ UNCHANGED <<sent, current>>

(* The environment disappears; the message returns when its visibility      *)
(* timeout ends.                                                            *)
Crash(o) ==
  /\ ~At(o, "idle")
  /\ Fault("crash")
  /\ Nack(o)
  /\ NoLedgerChange /\ UNCHANGED <<sent, current>>

-----------------------------------------------------------------------------
(* Workers, as far as the Organizer can see them.                           *)
Workers ==
  /\ \/ \E c \in Chunks, a \in Attempts :
          /\ sent[c] > 0
          /\ \/ StartChunk(c, a)
             \/ \E n \in Counts : CompleteChunk(c, a, n)
             \/ RetryChunk(c, a)
             \/ FailChunk(c, a)
     \/ \E w \in Callers : (~view[w].active /\ ReadJob(w)) \/ FinalizeJob(w)
  /\ UNCHANGED intakeVars

OrganizerStep(o) ==
  \/ Admit(o) \/ AdmitRead(o) \/ Reclaim(o)
  \/ Validate(o) \/ ValidateRead(o) \/ StartPlanning(o) \/ PlanningRead(o)
  \/ PlanTheJob(o) \/ PlanAChunk(o) \/ Seal(o) \/ Load(o)
  \/ Send(o) \/ Checkpoint(o) \/ Checkpointed(o) \/ Mark(o) \/ MarkFailed(o)

Sqs(m) == DeadLetter(m) \/ \E o \in Invocations : Receive(o, m)

Next ==
  \/ \E o \in Invocations : OrganizerStep(o) \/ Crash(o)
  \/ \E m \in Notices : Sqs(m) \/ Redeliver(m)
  \/ Workers \/ LeaseRunsOut \/ ConfigChanges

Spec == Init /\ [][Next]_vars

-----------------------------------------------------------------------------
(* Properties.                                                              *)

(* Type invariant; a batch never exceeds what SendMessageBatch takes. *)
IntakeTypeOK ==
  /\ notice \in [Notices -> [ state : {"visible", "inflight", "deleted", "dlq"},
                              receives : 0..MaxReceives ]]
  /\ org \in [Invocations -> Invocation]
  /\ \A o \in Invocations : Cardinality(org[o].batch) <= BatchSize
  /\ sent \in [Chunks -> Nat]
  /\ current \in Configs
  /\ faults \in 0..MaxFaults

(* The Organizer keeps to the ledger's protocol: no plan over an admission  *)
(* in validation, no seal before every chunk item of the manifest exists, no*)
(* chunk in a worker's hands before the seal.                               *)
RefinesLedger == LedgerSpec

(* A checkpoint, and the status SCHEDULED, are never ahead of the queue:    *)
(* whatever was checkpointed, or every chunk of a scheduled job, is in it.  *)
CheckpointsAreSent ==
  /\ \A c \in Chunks : chunk[c].scheduled => sent[c] > 0
  /\ job.status = "SCHEDULED" => \A c \in Planned : sent[c] > 0

(* A notification is acknowledged only for a file whose whole manifest is in*)
(* the chunk queue, by this invocation or another.                          *)
AcknowledgedIsSent ==
  \A m \in Notices : notice[m].state = "deleted" =>
    job.sealed /\ \A c \in 1..job.expected : sent[c] > 0

(* "Only one later delivery can reclaim it after expiry": an invocation    *)
(* passes admission while another one is past it only by taking over an     *)
(* expired lease, which it renews, however many notifications of the file   *)
(* arrive and however often.                                                *)
AdmissionIsExclusive ==
  [][\A o \in Invocations :
       ( org[o].step \notin Admitted /\ org'[o].step \in Admitted )
         => \/ \A p \in Invocations \ {o} : org[p].step \notin Admitted
            \/ job.lease = "expired" /\ job'.lease = "held"
    ]_vars

(* "nenhuma republicacao apos checkpoint": a checkpointed chunk is not sent *)
(* again by the retry of its message.                                       *)
NoResendAfterCheckpoint ==
  [][\A c \in Chunks : chunk[c].scheduled => sent'[c] = sent[c]]_vars

(* Fairness: an invocation that runs makes its next call, SQS hands out     *)
(* visible messages.  Faults and workers are not obliged to act.            *)
Fairness ==
  /\ \A o \in Invocations : WF_vars(OrganizerStep(o) /\ NoFault)
  /\ WF_vars(\E m \in Notices : Sqs(m))

FairSpec == Spec /\ Fairness

(* The manifest reaches the queue in the end, whatever fault interrupts an  *)
(* invocation, as long as deliveries are left: repeating Plan is idempotent *)
(* and UnscheduledChunks finds the rest "for safe resume after an organizer *)
(* crash".                                                                  *)
ManifestReachesQueue ==
  <>(job.sealed /\ \A c \in Planned : sent[c] > 0)

(* The same of a sealed manifest whose message is a notification: a later   *)
(* delivery sends what the interrupted one left without a checkpoint.       *)
SealedIsResumed == job.sealed ~> \A c \in Planned : sent[c] > 0
=============================================================================
