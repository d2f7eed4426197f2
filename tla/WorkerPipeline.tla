--------------------------- MODULE WorkerPipeline ---------------------------
(***************************************************************************)
(* The Worker (cmd/worker/main.go, internal/application/worker/service.go) *)
(* over the ledger: Lambda invocations that each take one message of the   *)
(* chunk-jobs queue through StartChunk, publication, CompleteChunk and the *)
(* completion outbox.  One step is one external call (a DynamoDB write, a  *)
(* consistent read, an SQS send), so every interleaving of invocations     *)
(* between two calls is explored.  The Organizer appears only through what *)
(* it does to the ledger and the queue; OrganizerIntake models its inside. *)
(*                                                                         *)
(* SQS is external: at-least-once delivery, a receive count per message, a *)
(* dead-letter queue after RedriveLimit receives.                          *)
(***************************************************************************)
EXTENDS JobLedger

CONSTANTS
  MaxCopies,   \* messages the Organizer may send for one chunk
  RedriveLimit, \* maxReceiveCount of the queue's redrive policy
  Invalid,     \* Invalid[k]: chunks planned under k that valid() refuses
  RecordsOf,   \* RecordsOf[c]: counters a full pass over chunk c yields
  Faults,      \* the kinds of fault this instance allows
  MaxFaults    \* bound on the number of faults in a behaviour

FaultKinds == { "crash", "callFails", "replyLost", "resend", "redelivery",
                "redrive", "schedulingFails" }

ASSUME PipelineConstants ==
  /\ MaxCopies \in Nat \ {0}
  /\ RecordsOf \in [Chunks -> Counts]
  /\ Faults \subseteq FaultKinds
  /\ MaxFaults \in Nat
  /\ RedriveLimit \in Nat
  /\ 1..RedriveLimit \subseteq Attempts
  /\ Invalid \in [Configs -> SUBSET Chunks]

(* A message of chunk-jobs: a copy of a ChunkJob, or the control message of *)
(* an empty manifest.                                                       *)
Control   == [chunk |-> 0, copy |-> 0]
NoMessage == [chunk |-> 0, copy |-> 1]
Messages  == [chunk : Chunks, copy : 1..MaxCopies] \cup {Control}

VARIABLES
  msg,          \* msg[m]: where a message is and how often it was received
  worker,       \* worker[w]: the invocation running in execution slot w
  completions,  \* the events on the completion queue
  faults        \* number of faults so far

pipelineVars == <<msg, worker, completions, faults>>
vars == <<ledgerVars, pipelineVars>>

Workers == Callers

Steps ==
  { "idle", "start", "startRead", "process", "completeRead", "complete",
    "completeReread", "reconcile", "finalize", "loadIntent", "send", "mark",
    "fail", "failRead", "failTx" }

Event == [ status : {"COMPLETED", "FAILED"}, result : JobResults,
           published : Nat, rejected : Nat ]
NoEvent == [ status |-> "none", result |-> "none", published |-> 0,
             rejected |-> 0 ]

(* within: the function that called ReconcileCompletion.                    *)
Invocation ==
  [ step : Steps, msg : Messages \cup {NoMessage}, attempt : Nat,
    within : {"none", "complete", "fail", "publish"},
    event : Event \cup {NoEvent} ]

Idle == [ step |-> "idle", msg |-> NoMessage, attempt |-> 0,
          within |-> "none", event |-> NoEvent ]

(* overlapped: it was once delivered while an earlier delivery of it was    *)
(* still being handled.  A history field, which no action reads.            *)
MessageState == [ state : {"unsent", "visible", "inflight", "deleted", "dlq"},
                  receives : Nat, overlapped : BOOLEAN ]

Unsent == [ state |-> "unsent", receives |-> 0, overlapped |-> FALSE ]

Init ==
  /\ LedgerInit
  /\ msg = [m \in Messages |-> Unsent]
  /\ worker = [w \in Workers |-> Idle]
  /\ completions = {}
  /\ faults = 0

-----------------------------------------------------------------------------
(* Shorthands.                                                              *)

Fault(kind) == kind \in Faults /\ faults < MaxFaults /\ faults' = faults + 1

At(w, step) == worker[w].step = step
ChunkOf(w)  == worker[w].msg.chunk
Goto(w, step) == worker' = [worker EXCEPT ![w].step = step]

(* The batch response: success deletes the message, a failure makes it      *)
(* visible again.  A message delivered twice may be gone already.           *)
Release(w, state) ==
  /\ worker' = [worker EXCEPT ![w] = Idle]
  /\ msg' = [msg EXCEPT ![worker[w].msg].state =
               IF state = "deleted" THEN state
               ELSE IF @ = "inflight" THEN "visible" ELSE @]

Ack(w)  == Release(w, "deleted")
Nack(w) == Release(w, "visible")

(* An error: ProcessAttempt records it with FailChunk before the message is *)
(* handed back.  For the control message FailChunk finds no chunk item.     *)
Error(w) ==
  IF ChunkOf(w) = 0
    THEN Nack(w)
    ELSE /\ Goto(w, IF worker[w].attempt < MaxReceiveCount THEN "fail"
                                                           ELSE "failRead")
         /\ UNCHANGED msg

(* ReconcileCompletion is entered from CompleteChunk, FailChunk and         *)
(* publishCompletion ...                                                    *)
Reconcile(w, caller) ==
  worker' = [worker EXCEPT ![w].step = "reconcile", ![w].within = caller]

(* ... and returns no intent, an intent, or an error to it.  Only           *)
(* publishCompletion uses the intent; FailChunk's caller logs the error.    *)
ReturnNothing(w) ==
  CASE worker[w].within = "complete" -> Reconcile(w, "publish") /\ UNCHANGED msg
    [] worker[w].within = "fail"     -> Nack(w)
    [] OTHER                         -> Ack(w)

ReturnIntent(w, event) ==
  IF worker[w].within = "publish"
    THEN /\ worker' = [worker EXCEPT ![w].step = "send", ![w].event = event]
         /\ UNCHANGED msg
    ELSE ReturnNothing(w)

ReturnError(w) == IF worker[w].within = "fail" THEN Nack(w) ELSE Error(w)

NoLedgerChange == UNCHANGED ledgerVars
NoFault        == UNCHANGED faults

(* Contention, which is no fault: DynamoDB cancels a transaction over an    *)
(* item that another transaction in flight includes, also one that its own  *)
(* condition will cancel, and refuses a single write to such an item.       *)
JobBusy(w)   == \E v \in Workers \ {w} :
                  worker[v].step \in {"finalize", "complete", "failTx"}
ChunkBusy(w) == \E v \in Workers \ {w} : /\ worker[v].step \in {"complete", "failTx"}
                                         /\ ChunkOf(v) = ChunkOf(w)
IntentBusy(w) == \E v \in Workers \ {w} : At(v, "finalize")

CallFails(contended) == (contended /\ NoFault) \/ Fault("callFails")

(* valid(), of the payload the plan stored with the chunk.                  *)
Valid(c) == c \notin Invalid[chunk[c].cfg]

-----------------------------------------------------------------------------
(* The Organizer, seen from the queue: Plan, then one message per chunk     *)
(* (more when it resumes after a crash), checkpoints, and its final mark.   *)

Queued(c) == \E i \in 1..MaxCopies : msg[[chunk |-> c, copy |-> i]].state # "unsent"

OrganizerPlans ==
  /\ \E k \in Configs :
       \/ PlanAllowed(k) /\ ~job.planned /\ PlanJob(k)
       \/ \E c \in Chunks : /\ ChunkAllowed(k, c) /\ chunk[c].status = "ABSENT"
                            /\ PlanChunk(k, c)
       \/ SealAllowed(k) /\ SealManifest(k)
  /\ UNCHANGED pipelineVars

MutOrganizerSends(m) ==
  /\ msg[m].state = "unsent"
  /\ job.planned
  /\ IF m = Control THEN job.expected = 0 ELSE m.chunk \in Planned
  /\ m.copy > 1 => msg[[m EXCEPT !.copy = 1]].state # "unsent"
  /\ IF m.copy > 1 THEN Fault("resend") ELSE NoFault
  /\ msg' = [msg EXCEPT ![m].state = "visible"]
  /\ NoLedgerChange /\ UNCHANGED <<worker, completions>>

(* The control message only for an empty manifest; a further copy of a      *)
(* chunk message is a resend of a chunk without a checkpoint.               *)
OrganizerSends(m) ==
  /\ msg[m].state = "unsent"
  /\ job.sealed
  /\ IF m = Control THEN job.expected = 0 ELSE m.chunk \in Planned
  /\ m.copy > 1 => msg[[m EXCEPT !.copy = m.copy - 1]].state # "unsent"
  /\ IF m.copy > 1 THEN Fault("resend") ELSE NoFault
  /\ msg' = [msg EXCEPT ![m].state = "visible"]
  /\ NoLedgerChange /\ UNCHANGED <<worker, completions>>

OrganizerMarks ==
  \/ /\ \E c \in Chunks : ~chunk[c].scheduled /\ Queued(c) /\ CheckpointChunk(c)
     /\ UNCHANGED pipelineVars
  \/ /\ \A c \in Planned : Queued(c)
     /\ job.status # "SCHEDULED" /\ MarkScheduled
     /\ UNCHANGED pipelineVars
  \/ /\ job.status # "SCHEDULING_FAILED" /\ MarkSchedulingFailed
     /\ Fault("schedulingFails")
     /\ UNCHANGED <<msg, worker, completions>>

-----------------------------------------------------------------------------
(* SQS.                                                                     *)

MutReceive(w, m) ==
  /\ At(w, "idle")
  /\ msg[m].state = "visible"
  /\ msg[m].receives < RedriveLimit
  /\ msg' = [msg EXCEPT ![m].state = "inflight", ![m].receives = @ + 1]
  /\ worker' = [worker EXCEPT ![w] =
       [ step |-> IF m = Control THEN "reconcile" ELSE "start",
         msg |-> m, attempt |-> 1,
         within |-> IF m = Control THEN "publish" ELSE "none",
         event |-> NoEvent ]]
  /\ NoLedgerChange /\ NoFault /\ UNCHANGED completions

(* A visible message goes to a free slot; the handler takes the receive     *)
(* count as the attempt number.                                             *)
Receive(w, m) ==
  /\ At(w, "idle")
  /\ msg[m].state = "visible"
  /\ msg[m].receives < RedriveLimit
  /\ msg' = [msg EXCEPT ![m].state = "inflight", ![m].receives = @ + 1]
  /\ worker' = [worker EXCEPT ![w] =
       [ step |-> IF m = Control THEN "reconcile" ELSE "start",
         msg |-> m, attempt |-> msg[m].receives + 1,
         within |-> IF m = Control THEN "publish" ELSE "none",
         event |-> NoEvent ]]
  /\ NoLedgerChange /\ NoFault /\ UNCHANGED completions

DeadLetter(m) ==
  /\ msg[m].state = "visible"
  /\ msg[m].receives >= RedriveLimit
  /\ msg' = [msg EXCEPT ![m].state = "dlq"]
  /\ NoLedgerChange /\ UNCHANGED <<worker, completions, faults>>

(* An operator's redrive of the DLQ: the receive count starts again.        *)
Redrive(m) ==
  /\ msg[m].state = "dlq"
  /\ Fault("redrive")
  /\ msg' = [msg EXCEPT ![m].state = "visible", ![m].receives = 0]
  /\ NoLedgerChange /\ UNCHANGED <<worker, completions>>

(* A Standard queue may deliver a message again while it is being handled.  *)
Redeliver(m) ==
  /\ msg[m].state = "inflight"
  /\ Fault("redelivery")
  /\ msg' = [msg EXCEPT ![m].state = "visible", ![m].overlapped = TRUE]
  /\ NoLedgerChange /\ UNCHANGED <<worker, completions>>

-----------------------------------------------------------------------------
(* One invocation.                                                          *)

(* A message valid() refuses fails before the ledger is asked.              *)
Refuse(w) ==
  /\ At(w, "start")
  /\ ~Valid(ChunkOf(w))
  /\ Error(w)
  /\ NoLedgerChange /\ NoFault /\ UNCHANGED completions

(* StartChunk: the conditional write, and on any error the status.          *)
Start(w) ==
  /\ At(w, "start")
  /\ Valid(ChunkOf(w))
  /\ LET c == ChunkOf(w)
         a == worker[w].attempt
     IN \/ StartChunk(c, a) /\ Goto(w, "process") /\ NoFault
        \/ StartChunk(c, a) /\ Goto(w, "startRead") /\ Fault("replyLost")
        \/ ~CanStart(c) /\ NoLedgerChange /\ Goto(w, "startRead") /\ NoFault
        \/ NoLedgerChange /\ Goto(w, "startRead") /\ CallFails(ChunkBusy(w))
  /\ UNCHANGED <<msg, completions>>

(* COMPLETED is answered with ErrAlreadyCompleted: no republication, only   *)
(* the outbox.  Anything else fails the invocation.                         *)
StartRead(w) ==
  /\ At(w, "startRead")
  /\ \/ /\ chunk[ChunkOf(w)].status = "COMPLETED"
        /\ Reconcile(w, "publish") /\ UNCHANGED msg /\ NoFault
     \/ chunk[ChunkOf(w)].status # "COMPLETED" /\ Error(w) /\ NoFault
     \/ Error(w) /\ Fault("callFails")
  /\ NoLedgerChange /\ UNCHANGED completions

(* Range read, record stream and batched sends, or any failure of them      *)
(* (bad boundary, S3 or SQS error, the deadline before Lambda's timeout).   *)
Process(w) ==
  /\ At(w, "process")
  /\ \/ Goto(w, "completeRead") /\ UNCHANGED msg
     \/ Error(w)
  /\ NoLedgerChange /\ NoFault /\ UNCHANGED completions

(* CompleteChunk: a status read, the transaction (a conflict is retried, up *)
(* to the eighth; a deadline between two retries ends the call at once), and*)
(* after an error of the transaction the status again.                      *)
CompleteRead(w) ==
  /\ At(w, "completeRead")
  /\ \/ /\ chunk[ChunkOf(w)].status = "COMPLETED"
        /\ Reconcile(w, "publish") /\ UNCHANGED msg /\ NoFault
     \/ /\ chunk[ChunkOf(w)].status # "COMPLETED"
        /\ Goto(w, "complete") /\ UNCHANGED msg /\ NoFault
     \/ Error(w) /\ Fault("callFails")
  /\ NoLedgerChange /\ UNCHANGED completions

Complete(w) ==
  /\ At(w, "complete")
  /\ LET c == ChunkOf(w)
         a == worker[w].attempt
     IN \/ /\ CompleteChunk(c, a, RecordsOf[c])
           /\ \/ Reconcile(w, "complete") /\ NoFault
              \/ Goto(w, "completeReread") /\ Fault("replyLost")
           /\ UNCHANGED msg
        \/ /\ ~CanComplete(c, a) /\ NoLedgerChange
           /\ Goto(w, "completeReread") /\ UNCHANGED msg /\ NoFault
        \/ /\ NoLedgerChange
           /\ (Goto(w, "completeReread") /\ UNCHANGED msg) \/ Error(w)
           /\ CallFails(JobBusy(w))
  /\ UNCHANGED completions

CompleteReread(w) ==
  /\ At(w, "completeReread")
  /\ \/ /\ chunk[ChunkOf(w)].status = "COMPLETED"
        /\ Reconcile(w, "publish") /\ UNCHANGED msg /\ NoFault
     \/ chunk[ChunkOf(w)].status # "COMPLETED" /\ Error(w) /\ NoFault
     \/ Error(w) /\ Fault("callFails")
  /\ NoLedgerChange /\ UNCHANGED completions

(* ReconcileCompletion reads the JOB item.                                  *)
ReconcileRead(w) ==
  /\ At(w, "reconcile")
  /\ \/ /\ job.status \in TerminalJob
        /\ NoLedgerChange /\ Goto(w, "loadIntent") /\ UNCHANGED msg /\ NoFault
     \/ ReadJob(w) /\ Goto(w, "finalize") /\ UNCHANGED msg /\ NoFault
     \/ /\ job.status \notin TerminalJob /\ ~ReadyToFinalize
        /\ NoLedgerChange /\ ReturnNothing(w) /\ NoFault
     \/ NoLedgerChange /\ ReturnError(w) /\ Fault("callFails")
  /\ UNCHANGED completions

(* The finalising transaction: committed, committed with the reply lost,    *)
(* cancelled by a conflict (the intent is read instead), or cancelled by    *)
(* its condition or failed, which both surface as an error.                 *)
Finalize(w) ==
  /\ At(w, "finalize")
  /\ \/ FinalizeJob(w) /\ ReturnIntent(w, EventOf(intent')) /\ NoFault
     \/ FinalizeJob(w) /\ ReturnError(w) /\ Fault("replyLost")
     \/ JobBusy(w) /\ DropView(w) /\ Goto(w, "loadIntent") /\ UNCHANGED msg /\ NoFault
     \/ ~CanFinalize(w) /\ DropView(w) /\ ReturnError(w) /\ NoFault
     \/ DropView(w) /\ ReturnError(w) /\ Fault("callFails")
  /\ UNCHANGED completions

MutLoadIntent(w) ==
  /\ At(w, "loadIntent")
  /\ ReturnNothing(w) /\ NoFault
  /\ NoLedgerChange /\ UNCHANGED completions

LoadIntent(w) ==
  /\ At(w, "loadIntent")
  /\ \/ intent.state = "pending" /\ ReturnIntent(w, EventOf(intent)) /\ NoFault
     \/ intent.state # "pending" /\ ReturnNothing(w) /\ NoFault
     \/ ReturnError(w) /\ Fault("callFails")
  /\ NoLedgerChange /\ UNCHANGED completions

(* publishCompletion: send first, mark afterwards, acknowledge last.        *)
MutSend(w) ==
  /\ At(w, "send")
  /\ Goto(w, "mark") /\ UNCHANGED msg /\ NoFault
  /\ NoLedgerChange /\ UNCHANGED completions

Send(w) ==
  /\ At(w, "send")
  /\ \/ /\ completions' = completions \cup {worker[w].event}
        /\ \/ Goto(w, "mark") /\ UNCHANGED msg /\ NoFault
           \/ Error(w) /\ Fault("replyLost")
     \/ UNCHANGED completions /\ Error(w) /\ Fault("callFails")
  /\ NoLedgerChange

Mark(w) ==
  /\ At(w, "mark")
  /\ \/ MarkDelivered /\ Ack(w) /\ NoFault
     \/ intent.state # "pending" /\ NoLedgerChange /\ Ack(w) /\ NoFault
     \/ MarkDelivered /\ Error(w) /\ Fault("replyLost")
     \/ NoLedgerChange /\ Error(w) /\ CallFails(IntentBusy(w))
  /\ UNCHANGED completions

MutFailRetry(w) ==
  /\ At(w, "fail")
  /\ RetryChunk(ChunkOf(w), worker[w].attempt) /\ NoFault
  /\ Ack(w) /\ UNCHANGED completions

(* FailChunk below the limit; its own errors are only logged.               *)
FailRetry(w) ==
  /\ At(w, "fail")
  /\ \/ RetryChunk(ChunkOf(w), worker[w].attempt) /\ NoFault
     \/ ~HoldsChunk(ChunkOf(w), worker[w].attempt) /\ NoLedgerChange /\ NoFault
     \/ NoLedgerChange /\ CallFails(ChunkBusy(w))
  /\ Nack(w) /\ UNCHANGED completions

(* FailChunk at the limit: a status read, which stops at a finished chunk,  *)
(* and a transaction.  A conflict of this one is not retried: like every    *)
(* other error it is only logged, and the chunk stays as it was.            *)
FailRead(w) ==
  /\ At(w, "failRead")
  /\ \/ /\ chunk[ChunkOf(w)].status \in TerminalChunk
        /\ Nack(w) /\ NoFault
     \/ /\ chunk[ChunkOf(w)].status \notin TerminalChunk
        /\ Goto(w, "failTx") /\ UNCHANGED msg /\ NoFault
     \/ Nack(w) /\ Fault("callFails")
  /\ NoLedgerChange /\ UNCHANGED completions

FailFinal(w) ==
  /\ At(w, "failTx")
  /\ LET c == ChunkOf(w)
         a == worker[w].attempt
     IN \/ FailChunk(c, a) /\ Reconcile(w, "fail") /\ UNCHANGED msg /\ NoFault
        \/ FailChunk(c, a) /\ Nack(w) /\ Fault("replyLost")
        \/ ~CanFail(c, a) /\ NoLedgerChange /\ Nack(w) /\ NoFault
        \/ NoLedgerChange /\ Nack(w) /\ CallFails(JobBusy(w))
  /\ UNCHANGED completions

(* The execution environment disappears (out of memory, hard timeout): no   *)
(* deferred write runs, and the message returns after its visibility timeout.*)
Crash(w) ==
  /\ ~At(w, "idle")
  /\ Fault("crash")
  /\ DropView(w) /\ Nack(w) /\ UNCHANGED completions

-----------------------------------------------------------------------------
Organizer == OrganizerPlans \/ OrganizerMarks \/ \E m \in Messages : OrganizerSends(m)

Sqs(m) == DeadLetter(m) \/ \E w \in Workers : Receive(w, m)

WorkerStep(w) ==
  \/ Refuse(w) \/ Start(w) \/ StartRead(w) \/ Process(w)
  \/ CompleteRead(w) \/ Complete(w) \/ CompleteReread(w)
  \/ ReconcileRead(w) \/ Finalize(w) \/ LoadIntent(w) \/ Send(w) \/ Mark(w)
  \/ FailRetry(w) \/ FailRead(w) \/ FailFinal(w)

Next ==
  \/ Organizer
  \/ \E m \in Messages : Sqs(m) \/ Redrive(m) \/ Redeliver(m)
  \/ \E w \in Workers : WorkerStep(w) \/ Crash(w)

Spec == Init /\ [][Next]_vars

-----------------------------------------------------------------------------
(* Properties.                                                              *)

(* Type invariant of the queue and the invocations. *)
PipelineTypeOK ==
  /\ msg \in [Messages -> MessageState]
  /\ worker \in [Workers -> Invocation]
  /\ completions \subseteq Event
  /\ faults \in 0..MaxFaults

(* Every write the Worker makes is one the ledger protocol allows: the      *)
(* ledger's own specification is implemented, so its theorems hold here.    *)
RefinesLedger == LedgerSpec

(* "A competing Worker reads the same intent, so retries cannot mint        *)
(* another eventId": every event ever sent, by whichever invocation and     *)
(* however often, is the one of the stored intent, and an intent marked     *)
(* delivered was really sent.                                               *)
EventsAreTheIntent ==
  /\ \A e \in completions : intent.state # "none" /\ e = EventOf(intent)
  /\ intent.state = "delivered" => EventOf(intent) \in completions

(* A chunk message is acknowledged only when its chunk is COMPLETED, by     *)
(* this invocation or an earlier one.                                       *)
AckedChunksAreDone ==
  \A m \in Messages : (m # Control /\ msg[m].state = "deleted")
                        => chunk[m.chunk].status = "COMPLETED"

(* No lost completion: when every message of a sealed job was acknowledged  *)
(* and no invocation is left, the job is finished and its completion event  *)
(* is out and marked, whatever the invocations raced on and whichever call  *)
(* failed, as long as no message was delivered while it was being handled.  *)
(* After such a delivery it is not so: the second invocation of a finished  *)
(* chunk fails, its FailChunk transaction (ledger.go:410) is bound to be    *)
(* cancelled but conflicts with the finalising transaction of the last      *)
(* chunk; that caller finds no intent (ledger.go:494) and acknowledges.     *)
AllSent == /\ job.sealed
           /\ \A c \in Planned : Queued(c)
           /\ job.expected = 0 => msg[Control].state # "unsent"
AllAcknowledged ==
  /\ AllSent
  /\ \A m \in Messages : msg[m].state \in {"unsent", "deleted"}
  /\ \A w \in Workers : At(w, "idle")
Overlapped == \E m \in Messages : msg[m].overlapped
AcknowledgedMeansAnnounced ==
  AllAcknowledged /\ ~Overlapped => intent.state = "delivered"

(* The invocation that started a chunk is the only one to end it: while it  *)
(* works under the attempt the ledger holds, no other invocation moves the  *)
(* chunk to RETRY_PENDING or FAILED.                                        *)
Working == {"process", "completeRead", "complete"}
HolderEndsItsChunk ==
  [][\A w \in Workers :
       LET c == ChunkOf(w) IN
       ( /\ worker[w].step \in Working
         /\ HoldsChunk(c, worker[w].attempt)
         /\ chunk'[c].status \in {"RETRY_PENDING", "FAILED"} )
         => worker'[w] # worker[w]
    ]_vars

(* Fairness: an invocation that runs makes its next call (a Lambda is not   *)
(* suspended for ever), SQS hands out visible messages, and the Organizer   *)
(* finishes what it began.  Faults are never obliged to happen.             *)
Fairness ==
  /\ \A w \in Workers : WF_vars(WorkerStep(w) /\ NoFault)
  /\ WF_vars(\E m \in Messages : Sqs(m))
  /\ WF_vars(Organizer /\ NoFault)

FairSpec == Spec /\ Fairness

(* Every sealed job ends, however often its chunks fail and are retried up  *)
(* to the redrive limit, as long as every invocation gets to record its     *)
(* outcome, with two exceptions the code makes without any fault: a chunk   *)
(* that valid() refuses, which FailChunk does not take from PENDING, and one*)
(* whose last attempt lost a conflict on the JOB item, which FailChunk does *)
(* not retry.  After a fault see AbandonedIsRetried.                        *)
LeftOpen(m) ==
  /\ m # Control /\ msg[m].state = "dlq"
  /\ LET item == chunk[m.chunk] IN
       \/ item.status = "PENDING" /\ ~Valid(m.chunk)
       \/ item.status = "RUNNING" /\ item.attempt >= MaxReceiveCount
EveryJobEnds ==
  job.sealed ~> \/ job.status \in TerminalJob
                \/ \E m \in Messages : LeftOpen(m)
                \/ faults > 0

(* "Conclusão recuperável após reentrega de chunk ou controle": a completed *)
(* job's event is published and marked, or the message that would do it is  *)
(* in the dead-letter queue for an operator to redrive.                     *)
CompletedIsAnnounced ==
  (job.status = "COMPLETED") ~>
    (intent.state = "delivered" \/ \E m \in Messages : msg[m].state = "dlq")

(* CompletionEvent is "published to the completion queue when a job reaches *)
(* a terminal state (COMPLETED, FAILED or REJECTED)": here for FAILED.      *)
FailedIsAnnounced ==
  (job.status = "FAILED") ~> (completions # {})

(* "falha antes de confirmar o chunk no ledger -> SQS reentrega o ChunkJob  *)
(* -> possível nova publicação": a chunk whose invocation disappeared is    *)
(* taken up again from its message.                                         *)
Abandoned(c) ==
  /\ chunk[c].status = "RUNNING"
  /\ \A w \in Workers : worker[w].step \in Working
                          => ~(ChunkOf(w) = c /\ HoldsChunk(c, worker[w].attempt))
AbandonedIsRetried == \A c \in Chunks : Abandoned(c) ~> ~Abandoned(c)
=============================================================================
