------------------------- MODULE WorkerPipelineProofs -------------------------
(***************************************************************************)
(* Proofs about WorkerPipeline: for any number of invocations, chunks,     *)
(* copies of a message and faults, of whatever kinds.                      *)
(***************************************************************************)
EXTENDS WorkerPipeline, JobOutcomeProofs

USE DEF JobStatuses, ChunkStatuses, JobResults, TerminalJob, TerminalChunk,
        OpenForResults, LeasedStatuses

(* What the ledger never takes back: a seal, a completed chunk, and the     *)
(* event of an intent.                                                      *)
Kept ==
  /\ job.sealed => job'.sealed
  /\ \A c \in Chunks : chunk[c].status = "COMPLETED" => chunk'[c].status = "COMPLETED"
  /\ intent.state # "none" => intent'.state # "none" /\ EventOf(intent') = EventOf(intent)
  /\ intent'.state = "delivered" => intent.state = "delivered" \/ MarkDelivered

LEMMA LedgerKeeps == LedgerInv /\ [LedgerNext]_ledgerVars => Kept
<1> SUFFICES ASSUME LedgerInv, [LedgerNext]_ledgerVars PROVE Kept
  OBVIOUS
<1>a. job \in JobItem /\ chunk \in [Chunks -> ChunkItem] /\ intent \in IntentItem
  BY DEF LedgerInv, LedgerTypeOK
<1>1. job.sealed => job'.sealed
  <2>1. CASE Admission
    BY <1>a, <2>1 DEF Admission, AdmitPut, LeaseExpires, ReclaimLease,
       BeginValidation, BeginPlanning, RejectJob, AdvanceJob, JobItem
  <2>2. CASE Planning
    BY <1>a, <2>2 DEF Planning, PlanJob, PlanChunk, SealManifest, CheckpointChunk,
       MarkScheduled, MarkSchedulingFailed, JobItem
  <2>3. CASE Execution
    BY <1>a, <2>3 DEF Execution, StartChunk, AcquireChunk, CompleteChunk, RetryChunk,
       FailChunk, JobItem
  <2>4. CASE Completion
    BY <1>a, <2>4 DEF Completion, ReadJob, DropView, FinalizeJob, MarkDelivered, JobItem
  <2> QED BY <2>1, <2>2, <2>3, <2>4 DEF LedgerNext, ledgerVars
<1>2. ASSUME NEW c \in Chunks, chunk[c].status = "COMPLETED"
      PROVE  chunk'[c].status = "COMPLETED"
  BY <1>2, ChunkEdge DEF ChunkTransitions
<1>3. /\ intent.state # "none" => /\ intent'.state # "none"
                                  /\ EventOf(intent') = EventOf(intent)
      /\ intent'.state = "delivered" => intent.state = "delivered" \/ MarkDelivered
  <2>1. CASE Completion
    <3>1. CASE MarkDelivered
      BY <1>a, <3>1 DEF MarkDelivered, EventOf, IntentItem
    <3>2. CASE \E w \in Callers : FinalizeJob(w)
      BY <1>a, <3>2 DEF FinalizeJob, CanFinalize
    <3> QED BY <2>1, <3>1, <3>2 DEF Completion, ReadJob, DropView
  <2>2. CASE ~Completion
    <3>1. intent' = intent
      BY <2>2 DEF LedgerNext, Admission, AdmitPut, LeaseExpires, ReclaimLease,
         BeginValidation, BeginPlanning, RejectJob, AdvanceJob, Planning, PlanJob,
         PlanChunk, SealManifest, CheckpointChunk, MarkScheduled,
         MarkSchedulingFailed, Execution, StartChunk, AcquireChunk, CompleteChunk,
         RetryChunk, FailChunk, ledgerVars
    <3> QED BY <3>1
  <2> QED BY <2>1, <2>2
<1> QED BY <1>1, <1>2, <1>3 DEF Kept

-----------------------------------------------------------------------------
(* The inductive invariant.  Messages and invocations are of their types;   *)
(* nothing is in the queue before the seal, and the steps that name a chunk *)
(* are taken for chunk messages only, under a number the queue gave; ...    *)
ChunkSteps == { "start", "startRead", "process", "completeRead", "complete",
                "completeReread", "fail", "failRead", "failTx" }

HoldsMessage(r) ==
  r.step # "idle" =>
    /\ job.sealed
    /\ r.msg \in Messages
    /\ r.attempt \in 1..RedriveLimit
    /\ r.step \in ChunkSteps => r.msg # Control

(* ... the outbox is looked at on behalf of a completed chunk, unless the   *)
(* look follows a failure, whose message is handed back anyway; ...         *)
Settling(r) ==
  \/ r.step \in {"send", "mark"}
  \/ r.step \in {"reconcile", "finalize", "loadIntent"} /\ r.within # "fail"

ServesCompleted(r) ==
  Settling(r) /\ r.msg # Control => chunk[r.msg.chunk].status = "COMPLETED"

(* ... and what is sent and marked is the stored event.                     *)
CarriesIntent(r) ==
  /\ r.step \in {"send", "mark"} => intent.state # "none" /\ r.event = EventOf(intent)
  /\ r.step = "mark" => r.event \in completions

Sound(r) == HoldsMessage(r) /\ ServesCompleted(r) /\ CarriesIntent(r)

PipelineInv ==
  /\ PipelineTypeOK
  /\ \A m \in Messages : msg[m].state # "unsent" => job.sealed
  /\ \A m \in Messages : msg[m].receives <= RedriveLimit
  /\ \A w \in Workers : Sound(worker[w])
  /\ AckedChunksAreDone
  /\ EventsAreTheIntent

-----------------------------------------------------------------------------
(* Every step is one of the ledger's, or invisible to it.                   *)
LEMMA WorkerWrites ==
  ASSUME PipelineInv, NEW w \in Workers, WorkerStep(w) \/ Crash(w)
  PROVE  LedgerNext \/ UNCHANGED ledgerVars
<1>a. ~At(w, "idle") =>
        job.sealed /\ worker[w].msg \in Messages /\ worker[w].attempt \in Attempts
  BY PipelineConstants DEF PipelineInv, Sound, HoldsMessage, At
<1>b. worker[w].step \in ChunkSteps => ChunkOf(w) \in Chunks
  BY DEF PipelineInv, Sound, HoldsMessage, ChunkSteps, Messages, Control, ChunkOf
<1>c. w \in Callers
  BY DEF Workers
<1>1. CASE Start(w)
  <2>1. ChunkOf(w) \in Chunks /\ worker[w].attempt \in Attempts /\ job.sealed
    BY <1>a, <1>b, <1>1 DEF Start, At, ChunkSteps
  <2> QED BY <1>1, <2>1 DEF Start, LedgerNext, Execution, NoLedgerChange
<1>2. CASE Complete(w)
  <2>1. ChunkOf(w) \in Chunks /\ worker[w].attempt \in Attempts
    BY <1>a, <1>b, <1>2 DEF Complete, At, ChunkSteps
  <2>2. RecordsOf[ChunkOf(w)] \in Counts
    BY <2>1, PipelineConstants
  <2> QED BY <1>2, <2>1, <2>2 DEF Complete, LedgerNext, Execution, NoLedgerChange
<1>3. CASE FailRetry(w) \/ FailRead(w) \/ FailFinal(w)
  <2>1. ChunkOf(w) \in Chunks /\ worker[w].attempt \in Attempts
    BY <1>a, <1>b, <1>3 DEF FailRetry, FailRead, FailFinal, At, ChunkSteps
  <2> QED BY <1>3, <2>1 DEF FailRetry, FailRead, FailFinal, LedgerNext, Execution,
          NoLedgerChange
<1>4. CASE ReconcileRead(w) \/ Finalize(w) \/ Mark(w) \/ Crash(w)
  BY <1>c, <1>4 DEF ReconcileRead, Finalize, Mark, Crash, LedgerNext, Completion,
     NoLedgerChange
<1>5. CASE \/ Refuse(w) \/ StartRead(w) \/ Process(w) \/ CompleteRead(w)
           \/ CompleteReread(w) \/ LoadIntent(w) \/ Send(w)
  BY <1>5 DEF Refuse, StartRead, Process, CompleteRead, CompleteReread, LoadIntent, Send,
     NoLedgerChange
<1> QED BY <1>1, <1>2, <1>3, <1>4, <1>5 DEF WorkerStep

LEMMA PipelineWrites ==
  PipelineInv /\ [Next]_vars => [LedgerNext]_ledgerVars
<1> SUFFICES ASSUME PipelineInv, [Next]_vars PROVE [LedgerNext]_ledgerVars
  OBVIOUS
<1>1. CASE Organizer
  <2>1. CASE OrganizerPlans
    BY <2>1 DEF OrganizerPlans, LedgerNext, Planning
  <2>2. CASE OrganizerMarks
    BY <2>2 DEF OrganizerMarks, LedgerNext, Planning
  <2>3. CASE \E m \in Messages : OrganizerSends(m)
    BY <2>3 DEF OrganizerSends, NoLedgerChange
  <2> QED BY <1>1, <2>1, <2>2, <2>3 DEF Organizer
<1>2. CASE \E m \in Messages : Sqs(m) \/ Redrive(m) \/ Redeliver(m)
  BY <1>2 DEF Sqs, DeadLetter, Receive, Redrive, Redeliver, NoLedgerChange
<1>3. CASE \E w \in Workers : WorkerStep(w) \/ Crash(w)
  BY <1>3, WorkerWrites
<1>4. CASE UNCHANGED vars
  BY <1>4 DEF vars
<1> QED BY <1>1, <1>2, <1>3, <1>4 DEF Next

-----------------------------------------------------------------------------
(* What a step of invocation w may do to its slot and to its message: the   *)
(* message is left, handed back, or acknowledged for a completed chunk.     *)
GoodStep(w) ==
  /\ worker' = [worker EXCEPT ![w] = worker'[w]]
  /\ worker'[w] \in Invocation
  /\ Sound(worker[w])'
  /\ \/ msg' = msg
     \/ msg' = [msg EXCEPT ![worker[w].msg].state =
                  IF @ = "inflight" THEN "visible" ELSE @]
     \/ /\ msg' = [msg EXCEPT ![worker[w].msg].state = "deleted"]
        /\ worker[w].msg # Control => chunk[ChunkOf(w)].status = "COMPLETED"

(* A busy invocation in a step that takes nothing back.                     *)
Busy(w) ==
  /\ PipelineInv /\ Kept /\ completions \subseteq completions'
  /\ ~At(w, "idle")

LEMMA BusyFacts ==
  ASSUME NEW w \in Workers, Busy(w)
  PROVE  /\ worker \in [Workers -> Invocation]
         /\ worker[w] \in Invocation
         /\ job.sealed /\ job'.sealed
         /\ worker[w].msg \in Messages
         /\ worker[w].attempt \in 1..RedriveLimit
         /\ ServesCompleted(worker[w])
         /\ worker[w].msg # Control => ChunkOf(w) \in Chunks
         /\ worker[w].msg = Control <=> ChunkOf(w) = 0
<1>1. worker \in [Workers -> Invocation] /\ Sound(worker[w])
  BY DEF Busy, PipelineInv, PipelineTypeOK
<1>2. job.sealed /\ worker[w].msg \in Messages /\ worker[w].attempt \in 1..RedriveLimit
  BY <1>1 DEF Sound, HoldsMessage, Busy, At
<1>3. /\ worker[w].msg # Control => ChunkOf(w) \in Chunks
      /\ worker[w].msg = Control <=> ChunkOf(w) = 0
  <2>1. ASSUME NEW m \in Messages
        PROVE  (m # Control => m.chunk \in Chunks) /\ (m = Control <=> m.chunk = 0)
    BY LedgerConstants DEF Messages, Control, Chunks
  <2> QED BY <1>2, <2>1 DEF ChunkOf
<1> QED BY <1>1, <1>2, <1>3 DEF Sound, Busy, Kept

LEMMA IdleIsSound ==
  ASSUME NEW w \in Workers, Busy(w), worker' = [worker EXCEPT ![w] = Idle]
  PROVE  /\ worker' = [worker EXCEPT ![w] = worker'[w]]
         /\ worker'[w] \in Invocation
         /\ Sound(worker[w])'
<1>1. worker'[w] = Idle
  BY BusyFacts
<1>2. Idle \in Invocation
  BY DEF Idle, Invocation, Steps
<1>3. Sound(worker[w])'
  BY <1>1 DEF Sound, HoldsMessage, ServesCompleted, Settling, CarriesIntent, Idle
<1> QED BY <1>1, <1>2, <1>3

LEMMA NackIsGood == ASSUME NEW w \in Workers, Busy(w), Nack(w) PROVE GoodStep(w)
BY IdleIsSound DEF Nack, Release, GoodStep

LEMMA AckIsGood ==
  ASSUME NEW w \in Workers, Busy(w), Ack(w),
         worker[w].msg # Control => chunk[ChunkOf(w)].status = "COMPLETED"
  PROVE  GoodStep(w)
BY IdleIsSound DEF Ack, Release, GoodStep

(* From one step of a chunk's message to the next.                          *)
LEMMA ChunkStepIsGood ==
  ASSUME NEW w \in Workers, Busy(w), NEW s \in ChunkSteps, Goto(w, s), msg' = msg,
         worker[w].msg # Control
  PROVE  GoodStep(w)
<1>1. /\ worker[w] \in Invocation
      /\ worker' = [worker EXCEPT ![w] = [worker[w] EXCEPT !.step = s]]
  BY BusyFacts DEF Goto
<1>2. /\ worker'[w] = [worker[w] EXCEPT !.step = s]
      /\ worker' = [worker EXCEPT ![w] = worker'[w]]
  BY <1>1, BusyFacts
<1>3. worker'[w] \in Invocation
  BY <1>1, <1>2 DEF Invocation, Steps, ChunkSteps
<1>4. /\ worker'[w].step = s /\ worker'[w].msg = worker[w].msg
      /\ worker'[w].attempt = worker[w].attempt
  BY <1>1, <1>2 DEF Invocation
<1>5. Sound(worker[w])'
  BY <1>4, BusyFacts DEF Sound, HoldsMessage, ServesCompleted, Settling,
     CarriesIntent, ChunkSteps
<1> QED BY <1>2, <1>3, <1>5 DEF GoodStep

LEMMA ErrorIsGood == ASSUME NEW w \in Workers, Busy(w), Error(w) PROVE GoodStep(w)
<1>1. CASE ChunkOf(w) = 0
  BY <1>1, NackIsGood DEF Error
<1>2. CASE ChunkOf(w) # 0
  <2>1. PICK s \in {"fail", "failRead"} : Goto(w, s) /\ msg' = msg
    BY <1>2 DEF Error
  <2>2. s \in ChunkSteps /\ worker[w].msg # Control
    BY <1>2, BusyFacts DEF ChunkSteps
  <2> QED BY <2>1, <2>2, ChunkStepIsGood
<1> QED BY <1>1, <1>2

(* ReconcileCompletion is entered for a completed chunk or after a failure. *)
LEMMA ReconcileIsGood ==
  ASSUME NEW w \in Workers, Busy(w), NEW c \in {"complete", "fail", "publish"},
         Reconcile(w, c), msg' = msg,
         c # "fail" /\ worker[w].msg # Control
           => chunk'[ChunkOf(w)].status = "COMPLETED"
  PROVE  GoodStep(w)
<1>1. /\ worker[w] \in Invocation
      /\ worker' = [worker EXCEPT ![w] = [worker[w] EXCEPT !.step = "reconcile",
                                                           !.within = c]]
  BY BusyFacts DEF Reconcile
<1>2. /\ worker'[w] = [worker[w] EXCEPT !.step = "reconcile", !.within = c]
      /\ worker' = [worker EXCEPT ![w] = worker'[w]]
  BY <1>1, BusyFacts
<1>a. ASSUME NEW r \in Invocation,
             NEW q, q = [r EXCEPT !.step = "reconcile", !.within = c]
      PROVE  /\ q \in Invocation
             /\ q.step = "reconcile" /\ q.within = c
             /\ q.msg = r.msg /\ q.attempt = r.attempt
  BY <1>a DEF Invocation, Steps
<1>3. worker'[w] \in Invocation
  BY <1>1, <1>2, <1>a
<1>4. /\ worker'[w].step = "reconcile" /\ worker'[w].msg = worker[w].msg
      /\ worker'[w].attempt = worker[w].attempt /\ worker'[w].within = c
  BY <1>1, <1>2, <1>a
<1>5. Sound(worker[w])'
  BY <1>4, BusyFacts DEF Sound, HoldsMessage, ServesCompleted, Settling,
     CarriesIntent, ChunkSteps, ChunkOf
<1> QED BY <1>2, <1>3, <1>5 DEF GoodStep

(* From one step of ReconcileCompletion to the next.                        *)
LEMMA SettleIsGood ==
  ASSUME NEW w \in Workers, Busy(w), worker[w].step \in {"reconcile", "finalize"},
         NEW s \in {"finalize", "loadIntent"}, Goto(w, s), msg' = msg
  PROVE  GoodStep(w)
<1>1. /\ worker[w] \in Invocation
      /\ worker' = [worker EXCEPT ![w] = [worker[w] EXCEPT !.step = s]]
  BY BusyFacts DEF Goto
<1>2. /\ worker'[w] = [worker[w] EXCEPT !.step = s]
      /\ worker' = [worker EXCEPT ![w] = worker'[w]]
  BY <1>1, BusyFacts
<1>3. worker'[w] \in Invocation
  BY <1>1, <1>2 DEF Invocation, Steps
<1>4. /\ worker'[w].step = s /\ worker'[w].msg = worker[w].msg
      /\ worker'[w].attempt = worker[w].attempt
      /\ worker'[w].within = worker[w].within
  BY <1>1, <1>2 DEF Invocation
<1>5. ServesCompleted(worker[w])'
  <2>1. worker[w].within # "fail" /\ worker[w].msg # Control
          => chunk'[worker[w].msg.chunk].status = "COMPLETED"
    BY BusyFacts DEF ServesCompleted, Settling, ChunkOf, Busy, Kept
  <2> QED BY <1>4, <2>1 DEF ServesCompleted, Settling
<1>6. Sound(worker[w])'
  BY <1>4, <1>5, BusyFacts DEF Sound, HoldsMessage, CarriesIntent, ChunkSteps
<1> QED BY <1>2, <1>3, <1>6 DEF GoodStep

LEMMA ReturnNothingIsGood ==
  ASSUME NEW w \in Workers, Busy(w),
         worker[w].step \in {"reconcile", "finalize", "loadIntent"}, ReturnNothing(w)
  PROVE  GoodStep(w)
<1>1. worker[w].within # "fail" /\ worker[w].msg # Control
        => /\ chunk[ChunkOf(w)].status = "COMPLETED"
           /\ chunk'[ChunkOf(w)].status = "COMPLETED"
  BY BusyFacts DEF ServesCompleted, Settling, ChunkOf, Busy, Kept
<1>2. CASE worker[w].within = "complete"
  <2>1. Reconcile(w, "publish") /\ msg' = msg
    BY <1>2 DEF ReturnNothing
  <2> QED BY <1>1, <1>2, <2>1, ReconcileIsGood
<1>3. CASE worker[w].within = "fail"
  BY <1>3, NackIsGood DEF ReturnNothing
<1>4. CASE worker[w].within \notin {"complete", "fail"}
  <2>1. Ack(w)
    BY <1>4 DEF ReturnNothing
  <2> QED BY <1>1, <1>4, <2>1, AckIsGood
<1> QED BY <1>2, <1>3, <1>4

LEMMA ReturnErrorIsGood ==
  ASSUME NEW w \in Workers, Busy(w), ReturnError(w) PROVE GoodStep(w)
BY NackIsGood, ErrorIsGood DEF ReturnError

(* An intent goes to publishCompletion only, which sends what it is given.  *)
LEMMA ReturnIntentIsGood ==
  ASSUME NEW w \in Workers, Busy(w),
         worker[w].step \in {"reconcile", "finalize", "loadIntent"},
         NEW e \in Event, intent'.state # "none", e = EventOf(intent'),
         ReturnIntent(w, e)
  PROVE  GoodStep(w)
<1>1. CASE worker[w].within # "publish"
  BY <1>1, ReturnNothingIsGood DEF ReturnIntent
<1>2. CASE worker[w].within = "publish"
  <2>1. /\ worker[w] \in Invocation /\ msg' = msg
        /\ worker' = [worker EXCEPT ![w] = [worker[w] EXCEPT !.step = "send",
                                                             !.event = e]]
    BY <1>2, BusyFacts DEF ReturnIntent
  <2>2. /\ worker'[w] = [worker[w] EXCEPT !.step = "send", !.event = e]
        /\ worker' = [worker EXCEPT ![w] = worker'[w]]
    BY <2>1, BusyFacts
  <2>a. ASSUME NEW r \in Invocation,
               NEW q, q = [r EXCEPT !.step = "send", !.event = e]
        PROVE  /\ q \in Invocation
               /\ q.step = "send" /\ q.event = e
               /\ q.msg = r.msg /\ q.attempt = r.attempt
    BY <2>a DEF Invocation, Steps
  <2>3. /\ worker'[w] \in Invocation
        /\ worker'[w].step = "send" /\ worker'[w].event = e
        /\ worker'[w].msg = worker[w].msg /\ worker'[w].attempt = worker[w].attempt
    BY <2>1, <2>2, <2>a
  <2>4. ServesCompleted(worker[w])'
    <3>1. worker[w].msg # Control
            => chunk'[worker[w].msg.chunk].status = "COMPLETED"
      BY <1>2, BusyFacts DEF ServesCompleted, Settling, ChunkOf, Busy, Kept
    <3> QED BY <2>3, <3>1 DEF ServesCompleted
  <2>5. Sound(worker[w])'
    BY <2>3, <2>4, BusyFacts DEF Sound, HoldsMessage, CarriesIntent, ChunkSteps
  <2> QED BY <2>1, <2>2, <2>3, <2>5 DEF GoodStep
<1> QED BY <1>1, <1>2

(* The event was sent.                                                      *)
LEMMA SentIsGood ==
  ASSUME NEW w \in Workers, Busy(w), At(w, "send"), Goto(w, "mark"), msg' = msg,
         worker[w].event \in completions'
  PROVE  GoodStep(w)
<1>1. /\ worker[w] \in Invocation
      /\ worker' = [worker EXCEPT ![w] = [worker[w] EXCEPT !.step = "mark"]]
  BY BusyFacts DEF Goto
<1>2. /\ worker'[w] = [worker[w] EXCEPT !.step = "mark"]
      /\ worker' = [worker EXCEPT ![w] = worker'[w]]
  BY <1>1, BusyFacts
<1>3. worker'[w] \in Invocation
  BY <1>1, <1>2 DEF Invocation, Steps
<1>4. /\ worker'[w].step = "mark" /\ worker'[w].msg = worker[w].msg
      /\ worker'[w].attempt = worker[w].attempt /\ worker'[w].event = worker[w].event
  BY <1>1, <1>2 DEF Invocation
<1>5. worker[w].msg # Control => chunk'[worker[w].msg.chunk].status = "COMPLETED"
  BY BusyFacts DEF ServesCompleted, Settling, ChunkOf, Busy, Kept, At
<1>6. intent'.state # "none" /\ worker[w].event = EventOf(intent')
  BY DEF Busy, Kept, PipelineInv, Sound, CarriesIntent, At
<1>7. Sound(worker[w])'
  BY <1>4, <1>5, <1>6, BusyFacts DEF Sound, HoldsMessage, ServesCompleted,
     Settling, CarriesIntent, ChunkSteps
<1> QED BY <1>2, <1>3, <1>7 DEF GoodStep

-----------------------------------------------------------------------------
(* Every call of an invocation is a good step.                              *)

(* The calls of StartChunk, the publication and CompleteChunk's reads.      *)
LEMMA StartIsGood ==
  ASSUME NEW w \in Workers, Busy(w),
         \/ Refuse(w) \/ Start(w) \/ StartRead(w) \/ Process(w)
         \/ CompleteRead(w) \/ CompleteReread(w)
  PROVE  GoodStep(w)
<1>1. worker[w].step \in ChunkSteps
  BY DEF Refuse, Start, StartRead, Process, CompleteRead, CompleteReread, At, ChunkSteps
<1>2. worker[w].msg # Control
  BY <1>1 DEF Busy, PipelineInv, Sound, HoldsMessage, At
<1>3. CASE Start(w)
  <2>1. PICK s \in {"process", "startRead"} : Goto(w, s) /\ msg' = msg
    BY <1>3 DEF Start
  <2>2. s \in ChunkSteps
    BY DEF ChunkSteps
  <2> QED BY <1>2, <2>1, <2>2, ChunkStepIsGood
<1>4. CASE Process(w)
  <2>1. Error(w) \/ (Goto(w, "completeRead") /\ msg' = msg)
    BY <1>4 DEF Process
  <2>2. "completeRead" \in ChunkSteps
    BY DEF ChunkSteps
  <2> QED BY <1>2, <2>1, <2>2, ChunkStepIsGood, ErrorIsGood
<1>5. CASE Refuse(w) \/ StartRead(w) \/ CompleteRead(w) \/ CompleteReread(w)
  <2>1. \/ Error(w)
        \/ Goto(w, "complete") /\ msg' = msg
        \/ /\ chunk[ChunkOf(w)].status = "COMPLETED"
           /\ Reconcile(w, "publish") /\ msg' = msg
    BY <1>5 DEF Refuse, StartRead, CompleteRead, CompleteReread
  <2>2. "complete" \in ChunkSteps
    BY DEF ChunkSteps
  <2>3. chunk[ChunkOf(w)].status = "COMPLETED"
          => chunk'[ChunkOf(w)].status = "COMPLETED"
    BY <1>2, BusyFacts DEF Busy, Kept
  <2> QED BY <1>2, <2>1, <2>2, <2>3, ChunkStepIsGood, ErrorIsGood, ReconcileIsGood
<1> QED BY <1>3, <1>4, <1>5

(* The transactions of CompleteChunk and FailChunk.                         *)
LEMMA EndIsGood ==
  ASSUME NEW w \in Workers, Busy(w), LedgerInv,
         Complete(w) \/ FailRetry(w) \/ FailRead(w) \/ FailFinal(w) \/ Crash(w)
  PROVE  GoodStep(w)
<1>1. CASE Complete(w)
  <2>1. worker[w].msg # Control /\ ChunkOf(w) \in Chunks
    BY <1>1, BusyFacts DEF Complete, Busy, PipelineInv, Sound, HoldsMessage, At,
       ChunkSteps
  <2>2. "completeReread" \in ChunkSteps
    BY DEF ChunkSteps
  <2>3. \/ Error(w)
        \/ Goto(w, "completeReread") /\ msg' = msg
        \/ /\ CompleteChunk(ChunkOf(w), worker[w].attempt, RecordsOf[ChunkOf(w)])
           /\ Reconcile(w, "complete") /\ msg' = msg
    BY <1>1 DEF Complete
  <2>4. CompleteChunk(ChunkOf(w), worker[w].attempt, RecordsOf[ChunkOf(w)])
          => chunk'[ChunkOf(w)].status = "COMPLETED"
    BY <2>1 DEF CompleteChunk, LedgerInv, LedgerTypeOK, ChunkItem
  <2> QED BY <2>1, <2>2, <2>3, <2>4, ChunkStepIsGood, ErrorIsGood, ReconcileIsGood
<1>2. CASE FailRetry(w) \/ Crash(w)
  BY <1>2, NackIsGood DEF FailRetry, Crash
<1>3. CASE FailFinal(w)
  <2>1. Nack(w) \/ (Reconcile(w, "fail") /\ msg' = msg)
    BY <1>3 DEF FailFinal
  <2> QED BY <2>1, NackIsGood, ReconcileIsGood
<1>4. CASE FailRead(w)
  <2>1. Nack(w) \/ (Goto(w, "failTx") /\ msg' = msg)
    BY <1>4 DEF FailRead
  <2>2. "failTx" \in ChunkSteps /\ worker[w].msg # Control
    BY <1>4 DEF FailRead, Busy, PipelineInv, Sound, HoldsMessage, At, ChunkSteps
  <2> QED BY <2>1, <2>2, NackIsGood, ChunkStepIsGood
<1> QED BY <1>1, <1>2, <1>3, <1>4

(* The event of an intent has the form of an event.                         *)
LEMMA StoredEvent ==
  LedgerInv /\ intent.state # "none" => EventOf(intent) \in Event
BY DEF LedgerInv, LedgerTypeOK, OutboxMatchesJob, IntentItem, EventOf, Event

LEMMA FinalizedEvent ==
  ASSUME NEW w \in Workers, LedgerInv, FinalizeJob(w)
  PROVE  EventOf(intent') \in Event /\ intent'.state # "none"
<1>1. /\ view[w] \in View
      /\ intent' = [state |-> "pending", status |-> TerminalOf(view[w]),
                    result |-> ResultOf(view[w]), published |-> view[w].published,
                    rejected |-> view[w].rejected]
  BY DEF LedgerInv, LedgerTypeOK, FinalizeJob, Workers
<1>2. TerminalOf(view[w]) \in {"COMPLETED", "FAILED"} /\ ResultOf(view[w]) \in JobResults
  BY DEF TerminalOf, ResultOf
<1> QED BY <1>1, <1>2 DEF EventOf, Event, View

(* The calls of ReconcileCompletion and publishCompletion.                  *)
LEMMA OutboxIsGood ==
  ASSUME NEW w \in Workers, Busy(w), LedgerInv,
         ReconcileRead(w) \/ Finalize(w) \/ LoadIntent(w) \/ Send(w) \/ Mark(w)
  PROVE  GoodStep(w)
<1>1. CASE ReconcileRead(w)
  <2>1. /\ worker[w].step = "reconcile"
        /\ \/ Goto(w, "loadIntent") /\ msg' = msg
           \/ Goto(w, "finalize") /\ msg' = msg
           \/ ReturnNothing(w)
           \/ ReturnError(w)
    BY <1>1 DEF ReconcileRead, At
  <2> QED BY <2>1, SettleIsGood, ReturnNothingIsGood, ReturnErrorIsGood
<1>2. CASE Finalize(w)
  <2>1. /\ worker[w].step = "finalize"
        /\ \/ FinalizeJob(w) /\ ReturnIntent(w, EventOf(intent'))
           \/ Goto(w, "loadIntent") /\ msg' = msg
           \/ ReturnError(w)
    BY <1>2 DEF Finalize, At
  <2>2. CASE FinalizeJob(w) /\ ReturnIntent(w, EventOf(intent'))
    BY <2>1, <2>2, FinalizedEvent, ReturnIntentIsGood
  <2> QED BY <2>1, <2>2, SettleIsGood, ReturnErrorIsGood
<1>3. CASE LoadIntent(w)
  <2>1. /\ worker[w].step = "loadIntent" /\ intent' = intent
        /\ \/ intent.state = "pending" /\ ReturnIntent(w, EventOf(intent))
           \/ ReturnNothing(w)
           \/ ReturnError(w)
    BY <1>3 DEF LoadIntent, At, NoLedgerChange, ledgerVars
  <2>2. CASE intent.state = "pending" /\ ReturnIntent(w, EventOf(intent))
    <3>1. EventOf(intent) \in Event
      BY <2>2, StoredEvent
    <3>2. EventOf(intent) = EventOf(intent') /\ intent'.state # "none"
      BY <2>1, <2>2
    <3> QED BY <2>1, <2>2, <3>1, <3>2, ReturnIntentIsGood
  <2> QED BY <2>1, <2>2, ReturnNothingIsGood, ReturnErrorIsGood
<1>4. CASE Send(w)
  <2>1. /\ At(w, "send")
        /\ \/ Error(w)
           \/ /\ worker[w].event \in completions'
              /\ Goto(w, "mark") /\ msg' = msg
    BY <1>4 DEF Send
  <2> QED BY <2>1, ErrorIsGood, SentIsGood
<1>5. CASE Mark(w)
  <2>1. At(w, "mark") /\ (Ack(w) \/ Error(w))
    BY <1>5 DEF Mark
  <2>2. worker[w].msg # Control => chunk[ChunkOf(w)].status = "COMPLETED"
    BY <2>1, BusyFacts DEF ServesCompleted, Settling, ChunkOf, At
  <2> QED BY <2>1, <2>2, ErrorIsGood, AckIsGood
<1> QED BY <1>1, <1>2, <1>3, <1>4, <1>5

LEMMA WorkerIsGood ==
  ASSUME NEW w \in Workers, LedgerInv, PipelineInv, Kept,
         WorkerStep(w) \/ Crash(w)
  PROVE  GoodStep(w) /\ completions \subseteq completions' /\ ~At(w, "idle")
<1>1. ~At(w, "idle")
  BY DEF WorkerStep, Refuse, Start, StartRead, Process, CompleteRead, Complete,
     CompleteReread, ReconcileRead, Finalize, LoadIntent, Send, Mark, FailRetry,
     FailRead, FailFinal, Crash, At
<1>2. completions \subseteq completions'
  BY DEF WorkerStep, Refuse, Start, StartRead, Process, CompleteRead, Complete,
     CompleteReread, ReconcileRead, Finalize, LoadIntent, Send, Mark, FailRetry,
     FailRead, FailFinal, Crash
<1>3. Busy(w)
  BY <1>1, <1>2 DEF Busy
<1> QED BY <1>1, <1>2, <1>3, StartIsGood, EndIsGood, OutboxIsGood DEF WorkerStep

(* An invocation that does not step stays sound, because the ledger takes   *)
(* nothing back.                                                            *)
LEMMA OthersStaySound ==
  ASSUME PipelineInv, Kept, completions \subseteq completions',
         NEW v \in Workers, worker'[v] = worker[v]
  PROVE  Sound(worker[v])'
<1>1. worker[v] \in Invocation /\ Sound(worker[v])
  BY DEF PipelineInv, PipelineTypeOK
<1>2. HoldsMessage(worker[v])'
  BY <1>1 DEF Sound, HoldsMessage, Kept
<1>3. ServesCompleted(worker[v])'
  <2>1. Settling(worker[v]) /\ worker[v].msg # Control => worker[v].msg.chunk \in Chunks
    BY <1>1 DEF Sound, HoldsMessage, Settling, Messages
  <2> QED BY <1>1, <2>1 DEF Sound, ServesCompleted, Settling, Kept
<1>4. CarriesIntent(worker[v])'
  BY <1>1 DEF Sound, CarriesIntent, Kept
<1> QED BY <1>2, <1>3, <1>4 DEF Sound

LEMMA InvInitially == Init => PipelineInv
<1> SUFFICES ASSUME Init PROVE PipelineInv
  OBVIOUS
<1>1. Idle \in Invocation
  BY DEF Idle, Invocation, Steps
<1>2. PipelineTypeOK
  BY <1>1, PipelineConstants DEF Init, PipelineTypeOK, MessageState, Unsent
<1>3. \A w \in Workers : Sound(worker[w])
  BY DEF Init, Idle, Sound, HoldsMessage, ServesCompleted, Settling, CarriesIntent
<1> QED BY <1>2, <1>3, PipelineConstants DEF Init, PipelineInv, AckedChunksAreDone,
        EventsAreTheIntent, LedgerInit, NoIntent, Unsent

(* The fault counter and the events stay in their types.                    *)
LEMMA SmallTypes ==
  ASSUME LedgerInv, PipelineInv, [Next]_vars
  PROVE  faults' \in 0..MaxFaults /\ completions' \subseteq Event
<1>1. faults \in 0..MaxFaults /\ completions \subseteq Event /\ MaxFaults \in Nat
  BY PipelineConstants DEF PipelineInv, PipelineTypeOK
<1>2. faults' \in 0..MaxFaults
  <2>1. ASSUME NEW k, Fault(k) PROVE faults' \in 0..MaxFaults
    BY <1>1, <2>1 DEF Fault
  <2>2. NoFault => faults' \in 0..MaxFaults
    BY <1>1 DEF NoFault
  <2>3. CASE Organizer
    BY <1>1, <2>1, <2>2, <2>3 DEF Organizer, OrganizerPlans, OrganizerSends,
       OrganizerMarks, pipelineVars
  <2>4. CASE \E m \in Messages : Sqs(m) \/ Redrive(m) \/ Redeliver(m)
    BY <1>1, <2>1, <2>2, <2>4 DEF Sqs, DeadLetter, Receive, Redrive, Redeliver
  <2>5. CASE \E w \in Workers : WorkerStep(w) \/ Crash(w)
    <3> PICK w \in Workers : WorkerStep(w) \/ Crash(w)
      BY <2>5
    <3> QED BY <2>1, <2>2 DEF WorkerStep, Refuse, Start, StartRead, Process,
            CompleteRead, Complete, CompleteReread, ReconcileRead, Finalize,
            LoadIntent, Send, Mark, FailRetry, FailRead, FailFinal, Crash, CallFails
  <2> QED BY <1>1, <2>3, <2>4, <2>5 DEF Next, vars, pipelineVars
<1>3. completions' \subseteq Event
  <2>1. CASE \E w \in Workers : Send(w)
    <3> PICK w \in Workers : Send(w)
      BY <2>1
    <3>1. worker[w].event \in Event
      BY StoredEvent DEF Send, At, PipelineInv, Sound, CarriesIntent
    <3> QED BY <1>1, <3>1 DEF Send
  <2>2. CASE ~\E w \in Workers : Send(w)
    BY <1>1, <2>2 DEF Next, vars, pipelineVars, Organizer, OrganizerPlans,
       OrganizerSends, OrganizerMarks, Sqs, DeadLetter, Receive, Redrive,
       Redeliver, WorkerStep, Refuse, Start, StartRead, Process, CompleteRead, Complete,
       CompleteReread, ReconcileRead, Finalize, LoadIntent, Mark, FailRetry,
       FailRead, FailFinal, Crash
  <2> QED BY <2>1, <2>2
<1> QED BY <1>2, <1>3

(* An intent is marked by the invocation that sent its event.               *)
LEMMA MarkedAfterSend ==
  ASSUME LedgerInv, PipelineInv, [Next]_vars, MarkDelivered
  PROVE  EventOf(intent) \in completions
<1>1. intent.state = "pending" /\ intent'.state # "pending"
  BY DEF MarkDelivered, LedgerInv, LedgerTypeOK, IntentItem
<1>2. PICK w \in Workers : Mark(w)
  <2>1. ~Organizer /\ ~UNCHANGED vars
    BY <1>1 DEF Organizer, OrganizerPlans, OrganizerSends, OrganizerMarks, PlanJob,
       PlanChunk, SealManifest, CheckpointChunk, MarkScheduled,
       MarkSchedulingFailed, NoLedgerChange, vars, ledgerVars
  <2>2. ~\E m \in Messages : Sqs(m) \/ Redrive(m) \/ Redeliver(m)
    BY <1>1 DEF Sqs, DeadLetter, Receive, Redrive, Redeliver, NoLedgerChange,
       ledgerVars
  <2>3. PICK w \in Workers : WorkerStep(w) \/ Crash(w)
    BY <2>1, <2>2 DEF Next
  <2>4. Mark(w)
    BY <1>1, <2>3 DEF WorkerStep, Refuse, Start, StartRead, Process, CompleteRead,
       Complete, CompleteReread, ReconcileRead, Finalize, LoadIntent, Send,
       FailRetry, FailRead, FailFinal, Crash, NoLedgerChange, ledgerVars, StartChunk,
       CompleteChunk, RetryChunk, FailChunk, ReadJob, FinalizeJob, CanFinalize,
       DropView
  <2> QED BY <2>4
<1>3. worker[w].event = EventOf(intent) /\ worker[w].event \in completions
  BY <1>2 DEF Mark, At, PipelineInv, Sound, CarriesIntent
<1> QED BY <1>3

LEMMA EventsStep ==
  ASSUME LedgerInv, PipelineInv, Kept, [Next]_vars
  PROVE  EventsAreTheIntent'
<1>1. completions \subseteq completions'
  BY DEF Next, vars, pipelineVars, Organizer, OrganizerPlans,
     OrganizerSends, OrganizerMarks, Sqs, DeadLetter, Receive, Redrive,
     Redeliver, WorkerStep, Refuse, Start, StartRead, Process, CompleteRead, Complete,
     CompleteReread, ReconcileRead, Finalize, LoadIntent, Send, Mark, FailRetry,
     FailRead, FailFinal, Crash
<1>2. ASSUME NEW e \in completions'
      PROVE  intent'.state # "none" /\ e = EventOf(intent')
  <2>1. CASE e \in completions
    BY <2>1 DEF PipelineInv, EventsAreTheIntent, Kept
  <2>2. CASE e \notin completions
    <3>1. PICK w \in Workers : Send(w)
      BY <2>2 DEF Next, vars, pipelineVars, Organizer, OrganizerPlans,
         OrganizerSends, OrganizerMarks, Sqs, DeadLetter, Receive, Redrive,
         Redeliver, WorkerStep, Refuse, Start, StartRead, Process, CompleteRead,
         Complete, CompleteReread, ReconcileRead, Finalize, LoadIntent, Mark,
         FailRetry, FailRead, FailFinal, Crash
    <3>2. e = worker[w].event
      BY <2>2, <3>1 DEF Send
    <3>3. intent.state # "none" /\ worker[w].event = EventOf(intent)
      BY <3>1 DEF Send, At, PipelineInv, Sound, CarriesIntent
    <3> QED BY <3>2, <3>3 DEF Kept
  <2> QED BY <2>1, <2>2
<1>3. ASSUME intent'.state = "delivered" PROVE EventOf(intent') \in completions'
  <2>1. EventOf(intent) \in completions /\ intent.state # "none"
    BY <1>3, MarkedAfterSend DEF Kept, MarkDelivered, PipelineInv,
       EventsAreTheIntent
  <2> QED BY <1>1, <2>1 DEF Kept
<1> QED BY <1>2, <1>3 DEF EventsAreTheIntent

(* The queue: nothing in it before the seal, nothing received too often,    *)
(* and nothing deleted for a chunk that is not completed.                   *)
QueueInv ==
  /\ msg \in [Messages -> MessageState]
  /\ \A m \in Messages : msg[m].state # "unsent" => job.sealed
  /\ \A m \in Messages : msg[m].receives <= RedriveLimit
  /\ AckedChunksAreDone

LEMMA QueueStep ==
  ASSUME LedgerInv, PipelineInv, Kept, [Next]_vars
  PROVE  QueueInv'
<1>a. QueueInv
  BY DEF PipelineInv, PipelineTypeOK, QueueInv
<1>b. \A m \in Messages : m # Control => m.chunk \in Chunks
  BY DEF Messages
<1>1. CASE msg' = msg
  BY <1>a, <1>b, <1>1 DEF QueueInv, AckedChunksAreDone, Kept
<1>c. RedriveLimit \in Nat /\ msg \in [Messages -> MessageState]
  BY <1>a, PipelineConstants DEF QueueInv
<1> DEFINE Becomes(m, s) ==
      /\ msg' \in [Messages -> MessageState]
      /\ \A k \in Messages : k # m => msg'[k] = msg[k]
      /\ msg'[m].state = s /\ msg'[m].receives <= RedriveLimit
<1>2. ASSUME NEW m \in Messages, NEW s \in {"visible", "inflight", "dlq", "deleted"},
             Becomes(m, s), job'.sealed,
             s = "deleted" /\ m # Control => chunk[m.chunk].status = "COMPLETED"
      PROVE  QueueInv'
  <2>1. \A k \in Messages : msg'[k].receives <= RedriveLimit
    BY <1>a, <1>2 DEF QueueInv
  <2>2. AckedChunksAreDone'
    BY <1>a, <1>b, <1>2 DEF QueueInv, AckedChunksAreDone, Kept
  <2> QED BY <1>2, <2>1, <2>2 DEF QueueInv
<1>3. \A m \in Messages : msg[m].receives <= RedriveLimit
  BY <1>a DEF QueueInv
<1>4. CASE \E w \in Workers : WorkerStep(w) \/ Crash(w)
  <2>1. PICK w \in Workers : WorkerStep(w) \/ Crash(w)
    BY <1>4
  <2>2. GoodStep(w) /\ ~At(w, "idle")
    BY <2>1, WorkerIsGood
  <2>3. PICK m \in Messages : m = worker[w].msg /\ job'.sealed
    BY <2>2 DEF PipelineInv, Sound, HoldsMessage, At, Kept
  <2>4. CASE msg' = [msg EXCEPT ![m].state = "deleted"]
    <3>1. Becomes(m, "deleted")
      BY <1>3, <1>c, <2>4 DEF MessageState
    <3>2. m # Control => chunk[m.chunk].status = "COMPLETED" \/ msg[m].state = "deleted"
      BY <1>c, <2>2, <2>3, <3>1 DEF GoodStep, ChunkOf, MessageState
    <3>3. m # Control => chunk[m.chunk].status = "COMPLETED"
      BY <1>a, <3>2 DEF QueueInv, AckedChunksAreDone
    <3> QED BY <1>2, <2>3, <3>1, <3>3
  <2>5. CASE msg' = [msg EXCEPT ![m].state = IF @ = "inflight" THEN "visible" ELSE @]
    <3>1. CASE msg[m].state = "inflight"
      <4>1. Becomes(m, "visible")
        BY <1>3, <1>c, <2>5, <3>1 DEF MessageState
      <4> QED BY <1>2, <2>3, <4>1
    <3>2. CASE msg[m].state # "inflight"
      <4>1. msg' = msg
        BY <1>c, <2>5, <3>2 DEF MessageState
      <4> QED BY <1>1, <4>1
    <3> QED BY <3>1, <3>2
  <2> QED BY <1>1, <2>2, <2>3, <2>4, <2>5 DEF GoodStep
<1>5. CASE Organizer
  <2>1. CASE \E m \in Messages : OrganizerSends(m)
    <3>1. PICK m \in Messages : OrganizerSends(m)
      BY <2>1
    <3>2. Becomes(m, "visible") /\ job.sealed
      BY <1>3, <1>c, <3>1 DEF OrganizerSends, MessageState
    <3> QED BY <1>2, <3>2 DEF Kept
  <2>2. CASE ~\E m \in Messages : OrganizerSends(m)
    BY <1>1, <1>5, <2>2 DEF Organizer, OrganizerPlans, OrganizerMarks, pipelineVars
  <2> QED BY <2>1, <2>2
<1>6. ASSUME NEW m \in Messages, Sqs(m) \/ Redrive(m) \/ Redeliver(m)
      PROVE  QueueInv'
  <2>1. msg[m].state # "unsent"
    BY <1>6 DEF Sqs, DeadLetter, Receive, Redrive, Redeliver
  <2>2. job'.sealed
    BY <1>a, <2>1 DEF QueueInv, Kept
  <2>3. CASE \E w \in Workers : Receive(w, m)
    <3>1. Becomes(m, "inflight")
      BY <1>3, <1>c, <2>3 DEF Receive, MessageState
    <3> QED BY <1>2, <2>2, <3>1
  <2>4. CASE Redrive(m)
    <3>1. msg' = [msg EXCEPT ![m].state = "visible", ![m].receives = 0]
      BY <2>4 DEF Redrive
    <3>2. /\ msg'[m].state = "visible" /\ msg'[m].receives = 0
          /\ \A k \in Messages : k # m => msg'[k] = msg[k]
      BY <1>c, <3>1 DEF MessageState
    <3>3. msg' \in [Messages -> MessageState]
      BY <1>c, <3>1 DEF MessageState
    <3>4. Becomes(m, "visible")
      BY <1>c, <3>2, <3>3
    <3> QED BY <1>2, <2>2, <3>4
  <2>5. CASE DeadLetter(m)
    <3>1. Becomes(m, "dlq")
      BY <1>3, <1>c, <2>5 DEF DeadLetter, MessageState
    <3> QED BY <1>2, <2>2, <3>1
  <2>6. CASE Redeliver(m)
    <3>1. Becomes(m, "visible")
      BY <1>3, <1>c, <2>6 DEF Redeliver, MessageState
    <3> QED BY <1>2, <2>2, <3>1
  <2> QED BY <1>6, <2>3, <2>4, <2>5, <2>6 DEF Sqs
<1> QED BY <1>1, <1>4, <1>5, <1>6 DEF Next, vars, pipelineVars

(* A free slot receives only what the queue holds.                          *)
LEMMA ReceiveIsSound ==
  ASSUME PipelineInv, Kept, NEW w \in Workers, NEW m \in Messages, Receive(w, m)
  PROVE  /\ worker' = [worker EXCEPT ![w] = worker'[w]]
         /\ worker'[w] \in Invocation
         /\ Sound(worker[w])'
<1>1. /\ worker \in [Workers -> Invocation] /\ msg[m].receives \in Nat
      /\ msg[m].receives < RedriveLimit /\ msg[m].state = "visible"
  BY DEF Receive, PipelineInv, PipelineTypeOK, MessageState
<1>2. job'.sealed
  BY <1>1 DEF PipelineInv, Kept
<1>3. worker'[w] =
       [ step |-> IF m = Control THEN "reconcile" ELSE "start",
         msg |-> m, attempt |-> msg[m].receives + 1,
         within |-> IF m = Control THEN "publish" ELSE "none",
         event |-> NoEvent ]
  BY <1>1 DEF Receive
<1>4. worker' = [worker EXCEPT ![w] = worker'[w]]
  BY <1>1, <1>3 DEF Receive
<1>5. worker'[w] \in Invocation
  BY <1>1, <1>3 DEF Invocation, Steps
<1>6. worker'[w].attempt \in 1..RedriveLimit
  BY <1>1, <1>3, PipelineConstants
<1>7. Sound(worker[w])'
  BY <1>2, <1>3, <1>6 DEF Sound, HoldsMessage, ServesCompleted, Settling,
     CarriesIntent, ChunkSteps
<1> QED BY <1>4, <1>5, <1>7

LEMMA InvocationsStep ==
  ASSUME LedgerInv, PipelineInv, Kept, [Next]_vars
  PROVE  worker' \in [Workers -> Invocation] /\ \A v \in Workers : Sound(worker[v])'
<1>a. worker \in [Workers -> Invocation]
  BY DEF PipelineInv, PipelineTypeOK
<1>b. completions \subseteq completions'
  BY DEF Next, vars, pipelineVars, Organizer, OrganizerPlans,
     OrganizerSends, OrganizerMarks, Sqs, DeadLetter, Receive, Redrive,
     Redeliver, WorkerStep, Refuse, Start, StartRead, Process, CompleteRead, Complete,
     CompleteReread, ReconcileRead, Finalize, LoadIntent, Send, Mark, FailRetry,
     FailRead, FailFinal, Crash
<1>1. CASE worker' = worker
  <2>1. \A v \in Workers : Sound(worker[v])'
    BY <1>b, <1>1, OthersStaySound
  <2> QED BY <1>a, <1>1, <2>1
<1>2. ASSUME NEW w \in Workers, worker' = [worker EXCEPT ![w] = worker'[w]],
             worker'[w] \in Invocation, Sound(worker[w])'
      PROVE  worker' \in [Workers -> Invocation]
             /\ \A v \in Workers : Sound(worker[v])'
  <2>1. worker' \in [Workers -> Invocation]
    BY <1>a, <1>2
  <2>2. ASSUME NEW v \in Workers PROVE Sound(worker[v])'
    <3>1. CASE v = w
      BY <1>2, <3>1
    <3>2. CASE v # w
      <4>1. worker'[v] = worker[v]
        BY <1>a, <1>2, <3>2
      <4> QED BY <1>b, <4>1, OthersStaySound
    <3> QED BY <3>1, <3>2
  <2> QED BY <2>1, <2>2
<1>3. CASE Organizer \/ UNCHANGED vars
  BY <1>1, <1>3 DEF Organizer, OrganizerPlans, OrganizerSends, OrganizerMarks,
     pipelineVars, vars
<1>4. CASE \E m \in Messages : Sqs(m) \/ Redrive(m) \/ Redeliver(m)
  <2>1. PICK m \in Messages : Sqs(m) \/ Redrive(m) \/ Redeliver(m)
    BY <1>4
  <2>2. CASE \E w \in Workers : Receive(w, m)
    BY <1>2, <2>2, ReceiveIsSound
  <2>3. CASE DeadLetter(m) \/ Redrive(m) \/ Redeliver(m)
    BY <1>1, <2>3 DEF DeadLetter, Redrive, Redeliver
  <2> QED BY <2>1, <2>2, <2>3 DEF Sqs
<1>5. CASE \E w \in Workers : WorkerStep(w) \/ Crash(w)
  <2>1. PICK w \in Workers : WorkerStep(w) \/ Crash(w)
    BY <1>5
  <2>2. GoodStep(w)
    BY <2>1, WorkerIsGood
  <2> QED BY <1>2, <2>2 DEF GoodStep
<1> QED BY <1>3, <1>4, <1>5 DEF Next

LEMMA InvPreserved ==
  LedgerInv /\ PipelineInv /\ [Next]_vars => PipelineInv'
<1> SUFFICES ASSUME LedgerInv, PipelineInv, [Next]_vars PROVE PipelineInv'
  OBVIOUS
<1>1. Kept
  BY PipelineWrites, LedgerKeeps
<1>2. QueueInv' /\ EventsAreTheIntent'
  BY <1>1, QueueStep, EventsStep
<1>3. worker' \in [Workers -> Invocation] /\ \A v \in Workers : Sound(worker[v])'
  BY <1>1, InvocationsStep
<1>4. faults' \in 0..MaxFaults /\ completions' \subseteq Event
  BY SmallTypes
<1> QED BY <1>2, <1>3, <1>4 DEF PipelineInv, PipelineTypeOK, QueueInv

-----------------------------------------------------------------------------
(* Slots and messages: a step of an invocation keeps the message and the    *)
(* attempt number it was given, ...                                         *)
Continues(w) ==
  /\ msg' = msg
  /\ worker'[w].msg = worker[w].msg
  /\ worker'[w].attempt = worker[w].attempt

(* ... or ends the invocation, handing the message back or deleting it.     *)
HandsBack(w) ==
  /\ worker'[w] = Idle
  /\ msg' = [msg EXCEPT ![worker[w].msg].state =
               IF @ = "inflight" THEN "visible" ELSE @]

Deletes(w) ==
  /\ worker'[w] = Idle
  /\ msg' = [msg EXCEPT ![worker[w].msg].state = "deleted"]

LEMMA ReleaseEnds ==
  ASSUME NEW w \in Workers, Busy(w)
  PROVE  (Nack(w) => HandsBack(w)) /\ (Ack(w) => Deletes(w))
BY BusyFacts DEF Nack, Ack, Release, HandsBack, Deletes

LEMMA GotoContinues ==
  ASSUME NEW w \in Workers, Busy(w), NEW s \in Steps, Goto(w, s), msg' = msg
  PROVE  /\ Continues(w)
         /\ worker'[w].step = s /\ worker'[w].within = worker[w].within
<1>1. worker'[w] = [worker[w] EXCEPT !.step = s]
  BY BusyFacts DEF Goto
<1> QED BY <1>1, BusyFacts DEF Continues, Invocation

LEMMA ReconcileContinues ==
  ASSUME NEW w \in Workers, Busy(w), NEW c \in {"complete", "fail", "publish"},
         Reconcile(w, c), msg' = msg
  PROVE  /\ Continues(w)
         /\ worker'[w].step = "reconcile" /\ worker'[w].within = c
<1>1. /\ worker[w] \in Invocation /\ msg' = msg
      /\ worker'[w] = [worker[w] EXCEPT !.step = "reconcile", !.within = c]
  BY BusyFacts DEF Reconcile
<1>2. ASSUME NEW r \in Invocation,
             NEW q, q = [r EXCEPT !.step = "reconcile", !.within = c]
      PROVE  /\ q.step = "reconcile" /\ q.within = c
             /\ q.msg = r.msg /\ q.attempt = r.attempt
  BY <1>2 DEF Invocation, Steps
<1> QED BY <1>1, <1>2 DEF Continues

(* An error leaves to FailChunk, or hands the control message back.         *)
LEMMA ErrorMoves ==
  ASSUME NEW w \in Workers, Busy(w), Error(w)
  PROVE  HandsBack(w) \/ (Continues(w) /\ worker'[w].step \in {"fail", "failRead"})
<1>1. CASE ChunkOf(w) = 0
  BY <1>1, ReleaseEnds DEF Error
<1>2. CASE ChunkOf(w) # 0
  <2>1. PICK s \in {"fail", "failRead"} : Goto(w, s) /\ msg' = msg
    BY <1>2 DEF Error
  <2> QED BY <2>1, GotoContinues DEF Steps
<1> QED BY <1>1, <1>2

LEMMA ReturnErrorMoves ==
  ASSUME NEW w \in Workers, Busy(w), ReturnError(w)
  PROVE  HandsBack(w) \/ (Continues(w) /\ worker'[w].step \in {"fail", "failRead"})
BY ReleaseEnds, ErrorMoves DEF ReturnError

(* Nothing to publish: CompleteChunk's caller looks again, FailChunk's hands*)
(* the message back, publishCompletion's deletes it.                        *)
LEMMA ReturnNothingMoves ==
  ASSUME NEW w \in Workers, Busy(w), ReturnNothing(w)
  PROVE  \/ /\ worker[w].within = "complete" /\ Continues(w)
            /\ worker'[w].step = "reconcile" /\ worker'[w].within = "publish"
         \/ worker[w].within = "fail" /\ HandsBack(w)
         \/ worker[w].within \in {"none", "publish"} /\ Deletes(w)
<1>1. worker[w].within \in {"none", "complete", "fail", "publish"}
  BY BusyFacts DEF Invocation
<1> QED BY <1>1, ReleaseEnds, ReconcileContinues DEF ReturnNothing

LEMMA ReturnIntentMoves ==
  ASSUME NEW w \in Workers, Busy(w), NEW e, ReturnIntent(w, e)
  PROVE  \/ /\ worker[w].within = "publish" /\ Continues(w)
            /\ worker'[w].step = "send" /\ worker'[w].within = "publish"
         \/ /\ worker[w].within = "complete" /\ Continues(w)
            /\ worker'[w].step = "reconcile" /\ worker'[w].within = "publish"
         \/ worker[w].within = "fail" /\ HandsBack(w)
         \/ worker[w].within = "none" /\ Deletes(w)
<1>1. CASE worker[w].within = "publish"
  <2>1. /\ worker[w] \in Invocation /\ msg' = msg
        /\ worker'[w] = [worker[w] EXCEPT !.step = "send", !.event = e]
    BY <1>1, BusyFacts DEF ReturnIntent
  <2>2. ASSUME NEW r \in Invocation,
               NEW q, q = [r EXCEPT !.step = "send", !.event = e]
        PROVE  /\ q.step = "send" /\ q.within = r.within
               /\ q.msg = r.msg /\ q.attempt = r.attempt
    BY <2>2 DEF Invocation, Steps
  <2> QED BY <1>1, <2>1, <2>2 DEF Continues
<1>2. CASE worker[w].within # "publish"
  BY <1>2, ReturnNothingMoves DEF ReturnIntent
<1> QED BY <1>1, <1>2

LEMMA SlotStep ==
  ASSUME NEW w \in Workers, Busy(w), WorkerStep(w) \/ Crash(w)
  PROVE  Continues(w) \/ HandsBack(w) \/ Deletes(w)
<1>1. CASE \/ Refuse(w) \/ Start(w) \/ StartRead(w) \/ Process(w) \/ CompleteRead(w)
           \/ Complete(w) \/ CompleteReread(w)
  <2>1. \/ Error(w)
        \/ \E s \in Steps : Goto(w, s) /\ msg' = msg
        \/ \E c \in {"complete", "publish"} : Reconcile(w, c) /\ msg' = msg
    BY <1>1 DEF Refuse, Start, StartRead, Process, CompleteRead, Complete, CompleteReread,
       Steps
  <2> QED BY <2>1, ErrorMoves, GotoContinues, ReconcileContinues
<1>2. CASE ReconcileRead(w) \/ Finalize(w) \/ LoadIntent(w)
  <2>1. \/ ReturnError(w) \/ ReturnNothing(w)
        \/ \E e : ReturnIntent(w, e)
        \/ \E s \in Steps : Goto(w, s) /\ msg' = msg
    BY <1>2 DEF ReconcileRead, Finalize, LoadIntent, Steps
  <2> QED BY <2>1, ReturnErrorMoves, ReturnNothingMoves, ReturnIntentMoves,
          GotoContinues
<1>3. CASE Send(w) \/ Mark(w)
  <2>1. Error(w) \/ Ack(w) \/ \E s \in Steps : Goto(w, s) /\ msg' = msg
    BY <1>3 DEF Send, Mark, Steps
  <2> QED BY <2>1, ErrorMoves, ReleaseEnds, GotoContinues
<1>4. CASE FailRetry(w) \/ FailRead(w) \/ FailFinal(w) \/ Crash(w)
  <2>1. \/ Nack(w) \/ (Reconcile(w, "fail") /\ msg' = msg)
        \/ \E s \in Steps : Goto(w, s) /\ msg' = msg
    BY <1>4 DEF FailRetry, FailRead, FailFinal, Crash, Steps
  <2> QED BY <2>1, ReleaseEnds, GotoContinues, ReconcileContinues
<1> QED BY <1>1, <1>2, <1>3, <1>4 DEF WorkerStep

(* Who changes the slots and the queue: the Organizer sends a message, SQS  *)
(* moves one or hands it out, or one invocation makes its step.             *)
LEMMA QueueMoves ==
  ASSUME LedgerInv, PipelineInv, [Next]_vars
  PROVE  \/ worker' = worker /\ msg' = msg
         \/ worker' = worker /\ \E m \in Messages :
              OrganizerSends(m) \/ DeadLetter(m) \/ Redrive(m) \/ Redeliver(m)
         \/ \E w \in Workers, m \in Messages : Receive(w, m)
         \/ \E w \in Workers : /\ WorkerStep(w) \/ Crash(w)
                               /\ Busy(w) /\ GoodStep(w)
                               /\ Continues(w) \/ HandsBack(w) \/ Deletes(w)
<1>1. CASE Organizer \/ UNCHANGED vars
  BY <1>1 DEF Organizer, OrganizerPlans, OrganizerSends, OrganizerMarks,
     pipelineVars, vars
<1>2. CASE \E m \in Messages : Sqs(m) \/ Redrive(m) \/ Redeliver(m)
  BY <1>2 DEF Sqs, DeadLetter, Redrive, Redeliver
<1>3. CASE \E w \in Workers : WorkerStep(w) \/ Crash(w)
  <2>1. PICK w \in Workers : WorkerStep(w) \/ Crash(w)
    BY <1>3
  <2>2. Kept
    BY PipelineWrites, LedgerKeeps
  <2>3. GoodStep(w) /\ Busy(w)
    BY <2>1, <2>2, WorkerIsGood DEF Busy
  <2> QED BY <2>1, <2>3, SlotStep
<1> QED BY <1>1, <1>2, <1>3 DEF Next

(* A message in a slot is in flight, and in no other slot: true as long as  *)
(* SQS does not deliver a message again while it is being handled.          *)
Exclusive ==
  \A w \in Workers : ~At(w, "idle") =>
    /\ msg[worker[w].msg].state = "inflight"
    /\ \A v \in Workers : ~At(v, "idle") /\ worker[v].msg = worker[w].msg => v = w

LEMMA ExclusiveStep ==
  ASSUME LedgerInv, PipelineInv, [Next]_vars, Exclusive,
         \A m \in Messages : ~Redeliver(m)
  PROVE  Exclusive'
<1>a. /\ worker \in [Workers -> Invocation] /\ msg \in [Messages -> MessageState]
      /\ \A w \in Workers : ~At(w, "idle") => worker[w].msg \in Messages
  BY DEF PipelineInv, PipelineTypeOK, Sound, HoldsMessage, At
<1>1. CASE worker' = worker /\ msg' = msg
  BY <1>1 DEF Exclusive, At
<1>2. CASE worker' = worker /\ \E m \in Messages :
             OrganizerSends(m) \/ DeadLetter(m) \/ Redrive(m) \/ Redeliver(m)
  <2>1. PICK m \in Messages :
          OrganizerSends(m) \/ DeadLetter(m) \/ Redrive(m) \/ Redeliver(m)
    BY <1>2
  <2>2. /\ msg[m].state # "inflight"
        /\ \A k \in Messages : k # m => msg'[k] = msg[k]
    BY <1>a, <2>1 DEF OrganizerSends, DeadLetter, Redrive, Redeliver, Fault
  <2> QED BY <1>a, <1>2, <2>2 DEF Exclusive, At
<1>3. ASSUME NEW w \in Workers, NEW m \in Messages, Receive(w, m) PROVE Exclusive'
  <2>1. /\ msg[m].state = "visible" /\ msg'[m].state = "inflight"
        /\ \A k \in Messages : k # m => msg'[k] = msg[k]
    BY <1>a, <1>3 DEF Receive, MessageState
  <2>2. /\ worker'[w].msg = m
        /\ \A v \in Workers : v # w => worker'[v] = worker[v]
    BY <1>a, <1>3 DEF Receive
  <2> QED BY <1>a, <2>1, <2>2 DEF Exclusive, At
<1>4. ASSUME NEW w \in Workers, Busy(w), GoodStep(w),
             Continues(w) \/ HandsBack(w) \/ Deletes(w)
      PROVE  Exclusive'
  <2>1. \A v \in Workers : v # w => worker'[v] = worker[v]
    BY <1>a, <1>4 DEF GoodStep
  <2>2. CASE Continues(w)
    BY <1>4, <2>1, <2>2 DEF Continues, Exclusive, At, Busy
  <2>3. CASE HandsBack(w) \/ Deletes(w)
    <3>1. worker'[w].step = "idle"
      BY <2>3 DEF HandsBack, Deletes, Idle
    <3>2. \A k \in Messages : k # worker[w].msg => msg'[k] = msg[k]
      BY <1>a, <2>3 DEF HandsBack, Deletes
    <3> QED BY <1>4, <1>a, <2>1, <3>1, <3>2 DEF Exclusive, At, Busy
  <2> QED BY <1>4, <2>2, <2>3
<1> QED BY <1>1, <1>2, <1>3, <1>4, QueueMoves

(* A delivery while a message is being handled is not forgotten.            *)
LEMMA OverlappedStep ==
  ASSUME LedgerInv, PipelineInv, [Next]_vars,
         Overlapped \/ \E m \in Messages : Redeliver(m)
  PROVE  Overlapped'
<1>a. msg \in [Messages -> MessageState]
  BY DEF PipelineInv, PipelineTypeOK
<1>1. CASE \E m \in Messages : Redeliver(m)
  BY <1>a, <1>1 DEF Redeliver, Overlapped, MessageState
<1>2. ASSUME NEW m \in Messages, msg[m].overlapped,
             \A k \in Messages : ~Redeliver(k)
      PROVE  msg'[m].overlapped
  <2>1. CASE \E k \in Messages : OrganizerSends(k) \/ DeadLetter(k) \/ Redrive(k)
    BY <1>a, <1>2, <2>1 DEF OrganizerSends, DeadLetter, Redrive, MessageState
  <2>2. CASE \E w \in Workers, k \in Messages : Receive(w, k)
    BY <1>a, <1>2, <2>2 DEF Receive, MessageState
  <2>3. ASSUME NEW w \in Workers, Continues(w) \/ HandsBack(w) \/ Deletes(w)
        PROVE  msg'[m].overlapped
    BY <1>a, <1>2, <2>3 DEF Continues, HandsBack, Deletes, MessageState
  <2> QED BY <1>2, <2>1, <2>2, <2>3, QueueMoves
<1> QED BY <1>1, <1>2 DEF Overlapped

(* The invocations of one message have different attempt numbers, none      *)
(* above the receive count: true as long as no redrive sets it back.        *)
Numbered ==
  /\ \A w \in Workers : ~At(w, "idle") =>
       worker[w].attempt <= msg[worker[w].msg].receives
  /\ \A v, w \in Workers :
       ~At(v, "idle") /\ ~At(w, "idle") /\ worker[v].msg = worker[w].msg
         => v = w \/ worker[v].attempt # worker[w].attempt

LEMMA NumberedStep ==
  ASSUME LedgerInv, PipelineInv, [Next]_vars, "redrive" \notin Faults, Numbered
  PROVE  Numbered'
<1>a. /\ worker \in [Workers -> Invocation] /\ msg \in [Messages -> MessageState]
      /\ \A w \in Workers : ~At(w, "idle") => worker[w].msg \in Messages
      /\ \A w \in Workers : worker[w].attempt \in Nat
      /\ \A m \in Messages : msg[m].receives \in Nat
  BY DEF PipelineInv, PipelineTypeOK, Sound, HoldsMessage, At, Invocation, MessageState
<1>1. CASE worker' = worker /\ msg' = msg
  BY <1>1 DEF Numbered, At
<1>2. CASE worker' = worker /\ \E m \in Messages :
             OrganizerSends(m) \/ DeadLetter(m) \/ Redrive(m) \/ Redeliver(m)
  <2>1. PICK m \in Messages :
          OrganizerSends(m) \/ DeadLetter(m) \/ Redeliver(m)
    BY <1>2 DEF Redrive, Fault
  <2>2. \A k \in Messages : msg'[k].receives = msg[k].receives
    BY <1>a, <2>1 DEF OrganizerSends, DeadLetter, Redeliver, MessageState
  <2> QED BY <1>a, <1>2, <2>2 DEF Numbered, At
<1>3. ASSUME NEW w \in Workers, NEW m \in Messages, Receive(w, m) PROVE Numbered'
  <2>1. /\ msg'[m].receives = msg[m].receives + 1
        /\ \A k \in Messages : k # m => msg'[k] = msg[k]
    BY <1>a, <1>3 DEF Receive, MessageState
  <2>2. /\ worker'[w].msg = m /\ worker'[w].attempt = msg[m].receives + 1
        /\ \A v \in Workers : v # w => worker'[v] = worker[v]
    BY <1>a, <1>3 DEF Receive
  <2>3. ASSUME NEW v \in Workers, worker'[v].step # "idle"
        PROVE  /\ worker'[v].attempt <= msg'[worker'[v].msg].receives
               /\ v # w /\ worker'[v].msg = m => worker'[v].attempt # worker'[w].attempt
    <3>1. CASE v = w
      BY <1>a, <2>1, <2>2, <3>1
    <3>2. CASE v # w
      <4>1. /\ worker'[v] = worker[v] /\ ~At(v, "idle")
            /\ worker[v].msg \in Messages
            /\ worker[v].attempt <= msg[worker[v].msg].receives
        BY <1>a, <2>2, <2>3, <3>2 DEF Numbered, At
      <4>2. CASE worker[v].msg = m
        BY <1>a, <2>1, <2>2, <4>1, <4>2
      <4>3. CASE worker[v].msg # m
        BY <1>a, <2>1, <2>2, <4>1, <4>3
      <4> QED BY <4>2, <4>3
    <3> QED BY <3>1, <3>2
  <2>4. ASSUME NEW u \in Workers, NEW v \in Workers, u # v,
               worker'[u].step # "idle", worker'[v].step # "idle",
               worker'[u].msg = worker'[v].msg
        PROVE  worker'[u].attempt # worker'[v].attempt
    <3>1. CASE u # w /\ v # w
      BY <2>2, <2>4, <3>1 DEF Numbered, At
    <3>2. CASE u = w \/ v = w
      BY <2>2, <2>3, <2>4, <3>2
    <3> QED BY <3>1, <3>2
  <2> QED BY <2>3, <2>4 DEF Numbered, At
<1>4. ASSUME NEW w \in Workers, Busy(w), GoodStep(w),
             Continues(w) \/ HandsBack(w) \/ Deletes(w)
      PROVE  Numbered'
  <2>1. \A v \in Workers : v # w => worker'[v] = worker[v]
    BY <1>a, <1>4 DEF GoodStep
  <2>2. \A k \in Messages : msg'[k].receives = msg[k].receives
    BY <1>a, <1>4 DEF Continues, HandsBack, Deletes, MessageState
  <2>3. ASSUME NEW v \in Workers, worker'[v].step # "idle"
        PROVE  /\ ~At(v, "idle") /\ worker'[v].msg = worker[v].msg
               /\ worker'[v].attempt = worker[v].attempt
    <3>1. CASE v # w
      BY <2>1, <2>3, <3>1 DEF At
    <3>2. CASE v = w
      <4>1. Continues(w)
        BY <1>4, <2>3, <3>2 DEF HandsBack, Deletes, Idle
      <4> QED BY <1>4, <3>2, <4>1 DEF Continues, Busy
    <3> QED BY <3>1, <3>2
  <2>4. \A v \in Workers : worker'[v].step # "idle" =>
          worker'[v].attempt <= msg'[worker'[v].msg].receives
    BY <1>a, <2>2, <2>3 DEF Numbered
  <2> QED BY <2>3, <2>4 DEF Numbered, At
<1> QED BY <1>1, <1>2, <1>3, <1>4, QueueMoves

(* Without resends a chunk has one message.                                 *)
OneCopy ==
  /\ \A m \in Messages : msg[m].state # "unsent" => m.copy <= 1
  /\ \A w \in Workers : ~At(w, "idle") => worker[w].msg.copy <= 1

LEMMA OneCopyStep ==
  ASSUME LedgerInv, PipelineInv, [Next]_vars, "resend" \notin Faults, OneCopy
  PROVE  OneCopy'
<1>a. /\ worker \in [Workers -> Invocation] /\ msg \in [Messages -> MessageState]
      /\ \A m \in Messages : m.copy \in Nat
      /\ \A w \in Workers : ~At(w, "idle") => worker[w].msg \in Messages
  BY PipelineConstants DEF PipelineInv, PipelineTypeOK, Messages, Control, Sound,
     HoldsMessage, At
<1>1. CASE worker' = worker /\ msg' = msg
  BY <1>1 DEF OneCopy, At
<1>2. CASE worker' = worker /\ \E m \in Messages :
             OrganizerSends(m) \/ DeadLetter(m) \/ Redrive(m) \/ Redeliver(m)
  <2>1. PICK m \in Messages :
          OrganizerSends(m) \/ DeadLetter(m) \/ Redrive(m) \/ Redeliver(m)
    BY <1>2
  <2>2. m.copy <= 1
    BY <1>a, <2>1 DEF OrganizerSends, Fault, DeadLetter, Redrive, Redeliver, OneCopy
  <2>3. \A k \in Messages : k # m => msg'[k] = msg[k]
    BY <1>a, <2>1 DEF OrganizerSends, DeadLetter, Redrive, Redeliver
  <2> QED BY <1>2, <2>2, <2>3 DEF OneCopy, At
<1>3. ASSUME NEW w \in Workers, NEW m \in Messages, Receive(w, m) PROVE OneCopy'
  <2>1. /\ m.copy <= 1
        /\ \A k \in Messages : k # m => msg'[k] = msg[k]
    BY <1>a, <1>3 DEF Receive, OneCopy
  <2>2. /\ worker'[w].msg = m
        /\ \A v \in Workers : v # w => worker'[v] = worker[v]
    BY <1>a, <1>3 DEF Receive
  <2> QED BY <2>1, <2>2 DEF OneCopy, At
<1>4. ASSUME NEW w \in Workers, Busy(w), GoodStep(w),
             Continues(w) \/ HandsBack(w) \/ Deletes(w)
      PROVE  OneCopy'
  <2>1. \A v \in Workers : v # w => worker'[v] = worker[v]
    BY <1>a, <1>4 DEF GoodStep
  <2>2. worker[w].msg.copy <= 1
    BY <1>4 DEF Busy, OneCopy
  <2>3. \A k \in Messages : k # worker[w].msg => msg'[k] = msg[k]
    BY <1>a, <1>4 DEF Continues, HandsBack, Deletes
  <2>4. worker'[w].step # "idle" => worker'[w].msg = worker[w].msg
    BY <1>4 DEF Continues, HandsBack, Deletes, Idle
  <2> QED BY <2>1, <2>2, <2>3, <2>4 DEF OneCopy, At
<1> QED BY <1>1, <1>2, <1>3, <1>4, QueueMoves

(* A chunk that a running attempt holds is moved to RETRY_PENDING or FAILED *)
(* by FailChunk only, in an invocation of that chunk with that number.      *)
LEMMA WhoFails ==
  ASSUME LedgerInv, PipelineInv, [Next]_vars, NEW c \in Chunks,
         chunk[c].status = "RUNNING", chunk'[c].status \in {"RETRY_PENDING", "FAILED"}
  PROVE  \E v \in Workers : /\ worker[v].step \in {"fail", "failTx"}
                            /\ ChunkOf(v) = c
                            /\ worker[v].attempt = chunk[c].attempt
<1>a. chunk \in [Chunks -> ChunkItem]
  BY DEF LedgerInv, LedgerTypeOK
<1>b. chunk' # chunk
  OBVIOUS
<1>1. CASE Organizer
  <2>1. CASE \E k \in Configs, d \in Chunks : chunk[d].status = "ABSENT" /\ PlanChunk(k, d)
    BY <1>a, <2>1 DEF PlanChunk, ChunkItem
  <2>2. CASE \E d \in Chunks : CheckpointChunk(d)
    BY <1>a, <2>2 DEF CheckpointChunk, CanCheckpoint, ChunkItem
  <2> QED BY <1>1, <1>b, <2>1, <2>2 DEF Organizer, OrganizerPlans, OrganizerMarks,
          OrganizerSends, PlanJob, SealManifest, MarkScheduled,
          MarkSchedulingFailed, NoLedgerChange, ledgerVars
<1>2. CASE \E m \in Messages : Sqs(m) \/ Redrive(m) \/ Redeliver(m)
  BY <1>b, <1>2 DEF Sqs, DeadLetter, Receive, Redrive, Redeliver, NoLedgerChange,
     ledgerVars
<1>3. ASSUME NEW w \in Workers, WorkerStep(w) \/ Crash(w)
      PROVE  \E v \in Workers : /\ worker[v].step \in {"fail", "failTx"}
                                /\ ChunkOf(v) = c
                                /\ worker[v].attempt = chunk[c].attempt
  <2>1. CASE Start(w)
    BY <1>a, <1>b, <2>1 DEF Start, StartChunk, CanStart, NoLedgerChange, ledgerVars,
       ChunkItem
  <2>2. CASE Complete(w)
    <3>1. PICK n : CompleteChunk(ChunkOf(w), worker[w].attempt, n)
      BY <1>b, <2>2 DEF Complete, NoLedgerChange, ledgerVars
    <3>2. \A d \in Chunks : chunk'[d] = chunk[d] \/ chunk'[d].status = "COMPLETED"
      BY <1>a, <3>1 DEF CompleteChunk, ChunkItem
    <3> QED BY <3>2
  <2>3. CASE FailRetry(w)
    <3>1. RetryChunk(ChunkOf(w), worker[w].attempt)
      BY <1>b, <2>3 DEF FailRetry, NoLedgerChange, ledgerVars
    <3>2. ChunkOf(w) = c
      BY <1>a, <3>1 DEF RetryChunk
    <3> QED BY <2>3, <3>1, <3>2 DEF FailRetry, At, RetryChunk, HoldsChunk
  <2>4. CASE FailFinal(w)
    <3>1. FailChunk(ChunkOf(w), worker[w].attempt)
      BY <1>b, <2>4 DEF FailFinal, NoLedgerChange, ledgerVars
    <3>2. ChunkOf(w) = c
      BY <1>a, <3>1 DEF FailChunk
    <3> QED BY <2>4, <3>1, <3>2 DEF FailFinal, At, FailChunk, CanFail, HoldsChunk
  <2>5. ~(\/ Refuse(w) \/ FailRead(w) \/ StartRead(w) \/ Process(w) \/ CompleteRead(w) \/ CompleteReread(w)
          \/ ReconcileRead(w) \/ Finalize(w) \/ LoadIntent(w) \/ Send(w) \/ Mark(w)
          \/ Crash(w))
    BY <1>b DEF Refuse, FailRead, StartRead, Process, CompleteRead, CompleteReread,
       ReconcileRead, Finalize, LoadIntent, Send, Mark, Crash, NoLedgerChange, ledgerVars, ReadJob,
       DropView, FinalizeJob, MarkDelivered
  <2> QED BY <1>3, <2>1, <2>2, <2>3, <2>4, <2>5 DEF WorkerStep
<1> QED BY <1>b, <1>1, <1>2, <1>3 DEF Next, vars, ledgerVars

LEMMA HolderStep ==
  ASSUME LedgerInv, PipelineInv, OneCopy, Exclusive \/ Numbered, [Next]_vars,
         NEW w \in Workers, worker[w].step \in Working,
         HoldsChunk(ChunkOf(w), worker[w].attempt),
         chunk'[ChunkOf(w)].status \in {"RETRY_PENDING", "FAILED"}
  PROVE  FALSE
<1>a. \A v \in Workers : ~At(v, "idle") => worker[v].msg \in Messages
  BY DEF PipelineInv, Sound, HoldsMessage, At
<1>1. ~At(w, "idle") /\ worker[w].msg # Control
  BY DEF Working, PipelineInv, Sound, HoldsMessage, At, ChunkSteps
<1>2. ChunkOf(w) \in Chunks
  BY <1>a, <1>1 DEF Messages, ChunkOf
<1>3. PICK v \in Workers : /\ worker[v].step \in {"fail", "failTx"}
                           /\ ChunkOf(v) = ChunkOf(w)
                           /\ worker[v].attempt = worker[w].attempt
  BY <1>2, WhoFails DEF HoldsChunk
<1>4. v # w /\ ~At(v, "idle")
  BY <1>3 DEF Working, At
<1>5. worker[v].msg = worker[w].msg
  <2>1. \A m \in Messages : m.chunk \in Chunks =>
          m.copy \in 1..MaxCopies /\ m = [chunk |-> m.chunk, copy |-> m.copy]
    BY LedgerConstants DEF Messages, Control, Chunks
  <2>2. worker[v].msg.copy = 1 /\ worker[w].msg.copy = 1
    BY <1>a, <1>1, <1>2, <1>3, <1>4, <2>1, PipelineConstants DEF OneCopy, ChunkOf
  <2> QED BY <1>a, <1>1, <1>2, <1>3, <1>4, <2>1, <2>2 DEF ChunkOf
<1> QED BY <1>1, <1>3, <1>4, <1>5 DEF Exclusive, Numbered

-----------------------------------------------------------------------------
(* No lost completion.                                                      *)

AllDone == \A c \in Chunks : chunk[c].status \in {"ABSENT", "COMPLETED"}

(* The counters of a sealed job whose chunks are all completed call for its *)
(* terminal state.                                                          *)
LEMMA DoneIsReady ==
  ASSUME LedgerInv, job.sealed, AllDone
  PROVE  job.completed = job.expected /\ job.failed = 0 /\ job.expected \in Nat
<1>1. /\ Cardinality(Planned) = job.expected /\ job.expected \in Nat
  BY SealedManifest
<1>2. InState("COMPLETED") = Planned /\ InState("FAILED") = {}
  BY DEF AllDone, InState, Planned
<1>3. Cardinality({}) = 0
  BY FS_EmptySet
<1> QED BY <1>1, <1>2, <1>3 DEF LedgerInv, CountersMatchChunks

(* Where an invocation stands: in ReconcileCompletion on behalf of one of   *)
(* its callers, after a failure for a failed chunk, in the finalising       *)
(* transaction with the JOB item it read; and what it holds was sent.       *)
Placed(w) ==
  /\ worker[w].step \in {"reconcile", "finalize", "loadIntent"} =>
       /\ worker[w].within # "none"
       /\ worker[w].within = "fail" => /\ worker[w].msg # Control
                                       /\ chunk[ChunkOf(w)].status = "FAILED"
  /\ worker[w].step = "finalize" => view[w].active
  /\ ~At(w, "idle") => msg[worker[w].msg].state # "unsent"

QueuedArePlanned ==
  \A m \in Messages : msg[m].state # "unsent" /\ m # Control
                        => chunk[m.chunk].status # "ABSENT"

PlacesInv == QueuedArePlanned /\ \A w \in Workers : Placed(w)

LEMMA ChunksStay ==
  ASSUME LedgerInv, [LedgerNext]_ledgerVars, NEW c \in Chunks
  PROVE  /\ chunk[c].status = "FAILED" => chunk'[c].status = "FAILED"
         /\ chunk[c].status # "ABSENT" => chunk'[c].status # "ABSENT"
BY ChunkEdge DEF ChunkTransitions

(* Nobody else changes what an invocation read.                             *)
LEMMA ViewsOfOthers ==
  ASSUME LedgerInv, NEW w \in Workers, WorkerStep(w) \/ Crash(w),
         NEW v \in Workers, v # w
  PROVE  view'[v] = view[v]
<1>1. view \in [Workers -> View]
  BY DEF LedgerInv, LedgerTypeOK, Workers
<1> QED BY <1>1 DEF WorkerStep, Refuse, Start, StartRead, Process, CompleteRead, Complete,
        CompleteReread, ReconcileRead, Finalize, LoadIntent, Send, Mark, FailRetry,
        FailRead, FailFinal, Crash, NoLedgerChange, ledgerVars, StartChunk, CompleteChunk,
        RetryChunk, FailChunk, ReadJob, FinalizeJob, DropView, MarkDelivered

(* The place of the invocation that steps.                                  *)
LEMMA OwnPlace ==
  ASSUME LedgerInv, [LedgerNext]_ledgerVars, NEW w \in Workers, Busy(w), Placed(w),
         WorkerStep(w) \/ Crash(w)
  PROVE  Placed(w)'
<1>a. /\ ~At(w, "idle") /\ msg \in [Messages -> MessageState]
      /\ worker[w].msg \in Messages
      /\ worker[w].msg # Control => ChunkOf(w) \in Chunks
  BY BusyFacts DEF Busy, PipelineInv, PipelineTypeOK
<1>b. ASSUME HandsBack(w) \/ Deletes(w) PROVE Placed(w)'
  BY <1>b DEF HandsBack, Deletes, Placed, Idle, At
<1>c. ASSUME Continues(w),
             worker'[w].step \notin {"reconcile", "finalize", "loadIntent"}
      PROVE  Placed(w)'
  BY <1>a, <1>c DEF Continues, Placed, At
<1>d. ASSUME Continues(w), worker'[w].step \in {"reconcile", "finalize", "loadIntent"},
             worker'[w].within \in {"complete", "publish"},
             worker'[w].step = "finalize" => view'[w].active
      PROVE  Placed(w)'
  BY <1>a, <1>d DEF Continues, Placed, At
<1>e. ASSUME ReturnError(w) \/ Error(w) PROVE Placed(w)'
  <2>1. HandsBack(w) \/ (Continues(w) /\ worker'[w].step \in {"fail", "failRead"})
    BY <1>e, ErrorMoves, ReturnErrorMoves DEF Busy
  <2> QED BY <1>b, <1>c, <2>1
<1>1. CASE \/ Refuse(w) \/ Start(w) \/ StartRead(w) \/ Process(w) \/ CompleteRead(w)
           \/ Complete(w) \/ CompleteReread(w)
  <2>1. \/ Error(w)
        \/ \E s \in {"process", "startRead", "completeRead", "complete",
                     "completeReread"} : Goto(w, s) /\ msg' = msg
        \/ \E c \in {"complete", "publish"} : Reconcile(w, c) /\ msg' = msg
    BY <1>1 DEF Refuse, Start, StartRead, Process, CompleteRead, Complete, CompleteReread
  <2>2. ASSUME NEW s \in {"process", "startRead", "completeRead", "complete",
                          "completeReread"}, Goto(w, s), msg' = msg
        PROVE  Placed(w)'
    <3>1. Continues(w) /\ worker'[w].step = s
      BY <2>2, GotoContinues DEF Steps
    <3> QED BY <1>c, <3>1
  <2>3. ASSUME NEW c \in {"complete", "publish"}, Reconcile(w, c), msg' = msg
        PROVE  Placed(w)'
    <3>1. Continues(w) /\ worker'[w].step = "reconcile" /\ worker'[w].within = c
      BY <2>3, ReconcileContinues
    <3> QED BY <1>d, <3>1
  <2> QED BY <1>e, <2>1, <2>2, <2>3
<1>2. CASE ReconcileRead(w) \/ Finalize(w) \/ LoadIntent(w)
  <2>0. /\ worker[w].step \in {"reconcile", "finalize", "loadIntent"}
        /\ worker[w].within \in {"complete", "fail", "publish"}
        /\ worker[w].within = "fail" => /\ worker[w].msg # Control
                                        /\ chunk[ChunkOf(w)].status = "FAILED"
    BY <1>2, BusyFacts DEF ReconcileRead, Finalize, LoadIntent, At, Placed, Invocation
  <2>1. \/ ReturnError(w) \/ ReturnNothing(w)
        \/ \E e : ReturnIntent(w, e)
        \/ Goto(w, "loadIntent") /\ msg' = msg
        \/ ReadJob(w) /\ Goto(w, "finalize") /\ msg' = msg
    BY <1>2 DEF ReconcileRead, Finalize, LoadIntent
  <2>2. CASE ReturnNothing(w) \/ \E e : ReturnIntent(w, e)
    <3>1. \/ HandsBack(w) \/ Deletes(w)
          \/ /\ Continues(w) /\ worker'[w].step \in {"reconcile", "send"}
             /\ worker'[w].within = "publish"
      BY <2>2, ReturnNothingMoves, ReturnIntentMoves
    <3> QED BY <1>b, <1>c, <1>d, <3>1
  <2>3. ASSUME NEW s \in {"loadIntent", "finalize"}, Goto(w, s), msg' = msg,
               s = "finalize" => ReadJob(w)
        PROVE  Placed(w)'
    <3>1. /\ Continues(w) /\ worker'[w].step = s
          /\ worker'[w].within = worker[w].within
      BY <2>3, GotoContinues DEF Steps
    <3>2. s = "finalize" => view'[w].active
      BY <2>3 DEF ReadJob, LedgerInv, LedgerTypeOK, Workers
    <3>3. chunk[ChunkOf(w)].status = "FAILED" /\ worker[w].msg # Control
            => chunk'[ChunkOf(w)].status = "FAILED"
      BY <1>a, ChunksStay
    <3> QED BY <1>a, <2>0, <3>1, <3>2, <3>3 DEF Placed, Continues, At, ChunkOf
  <2> QED BY <1>e, <2>1, <2>2, <2>3
<1>3. CASE Send(w) \/ Mark(w)
  <2>1. Error(w) \/ Ack(w) \/ (Goto(w, "mark") /\ msg' = msg)
    BY <1>3 DEF Send, Mark
  <2>2. CASE Goto(w, "mark") /\ msg' = msg
    <3>1. Continues(w) /\ worker'[w].step = "mark"
      BY <2>2, GotoContinues DEF Steps
    <3> QED BY <1>c, <3>1
  <2> QED BY <1>b, <1>e, <2>1, <2>2, ReleaseEnds
<1>4. CASE FailRetry(w) \/ Crash(w)
  BY <1>b, <1>4, ReleaseEnds DEF FailRetry, Crash
<1>5. CASE FailFinal(w)
  <2>1. \/ Nack(w)
        \/ /\ FailChunk(ChunkOf(w), worker[w].attempt)
           /\ Reconcile(w, "fail") /\ msg' = msg
    BY <1>5 DEF FailFinal
  <2>2. CASE /\ FailChunk(ChunkOf(w), worker[w].attempt)
             /\ Reconcile(w, "fail") /\ msg' = msg
    <3>1. /\ Continues(w) /\ worker'[w].step = "reconcile"
          /\ worker'[w].within = "fail"
      BY <2>2, ReconcileContinues
    <3>2. worker[w].msg # Control
      BY <1>5 DEF FailFinal, At, Busy, PipelineInv, Sound, HoldsMessage, ChunkSteps
    <3>3. chunk'[ChunkOf(w)].status = "FAILED"
      BY <1>a, <2>2, <3>2 DEF FailChunk, LedgerInv, LedgerTypeOK, ChunkItem
    <3> QED BY <1>a, <3>1, <3>2, <3>3 DEF Placed, Continues, At, ChunkOf
  <2> QED BY <1>b, <2>1, <2>2, ReleaseEnds
<1>6. CASE FailRead(w)
  <2>1. Nack(w) \/ (Goto(w, "failTx") /\ msg' = msg)
    BY <1>6 DEF FailRead
  <2>2. CASE Goto(w, "failTx") /\ msg' = msg
    <3>1. Continues(w) /\ worker'[w].step = "failTx"
      BY <2>2, GotoContinues DEF Steps
    <3> QED BY <1>c, <3>1
  <2> QED BY <1>b, <2>1, <2>2, ReleaseEnds
<1> QED BY <1>1, <1>2, <1>3, <1>4, <1>5, <1>6 DEF WorkerStep

(* What was sent stays sent.                                                *)
LEMMA SentStays ==
  ASSUME LedgerInv, PipelineInv, [Next]_vars, NEW m \in Messages,
         msg[m].state # "unsent"
  PROVE  msg'[m].state # "unsent"
<1>a. msg \in [Messages -> MessageState]
  BY DEF PipelineInv, PipelineTypeOK
<1>1. CASE \E k \in Messages :
             OrganizerSends(k) \/ DeadLetter(k) \/ Redrive(k) \/ Redeliver(k)
  BY <1>a, <1>1 DEF OrganizerSends, DeadLetter, Redrive, Redeliver, MessageState
<1>2. CASE \E w \in Workers, k \in Messages : Receive(w, k)
  BY <1>a, <1>2 DEF Receive, MessageState
<1>3. ASSUME NEW w \in Workers, Continues(w) \/ HandsBack(w) \/ Deletes(w)
      PROVE  msg'[m].state # "unsent"
  BY <1>a, <1>3 DEF Continues, HandsBack, Deletes, MessageState
<1> QED BY <1>1, <1>2, <1>3, QueueMoves

LEMMA QueuedStep ==
  ASSUME LedgerInv, PipelineInv, [Next]_vars, PlacesInv
  PROVE  QueuedArePlanned'
<1>a. msg \in [Messages -> MessageState] /\ [LedgerNext]_ledgerVars
  BY PipelineWrites DEF PipelineInv, PipelineTypeOK
<1>b. ASSUME NEW m \in Messages, m # Control,
             msg[m].state # "unsent" \/ chunk[m.chunk].status # "ABSENT"
      PROVE  chunk'[m.chunk].status # "ABSENT"
  <2>1. m.chunk \in Chunks /\ chunk[m.chunk].status # "ABSENT"
    BY <1>b DEF Messages, PlacesInv, QueuedArePlanned
  <2> QED BY <1>a, <2>1, ChunksStay
<1> SUFFICES ASSUME NEW m \in Messages, m # Control, msg[m].state = "unsent",
                    msg'[m].state # "unsent"
             PROVE  chunk[m.chunk].status # "ABSENT"
  BY <1>b DEF QueuedArePlanned
<1>1. CASE OrganizerSends(m)
  BY <1>1 DEF OrganizerSends, Planned
<1>2. ASSUME NEW k \in Messages, k # m, OrganizerSends(k) PROVE FALSE
  BY <1>a, <1>2 DEF OrganizerSends
<1>3. ASSUME NEW k \in Messages, DeadLetter(k) \/ Redrive(k) \/ Redeliver(k) PROVE FALSE
  BY <1>a, <1>3 DEF DeadLetter, Redrive, Redeliver
<1>4. ASSUME NEW k \in Messages, NEW w \in Workers, Receive(w, k) PROVE FALSE
  BY <1>a, <1>4 DEF Receive
<1>5. ASSUME NEW w \in Workers, Busy(w), Continues(w) \/ HandsBack(w) \/ Deletes(w)
      PROVE  FALSE
  BY <1>a, <1>5 DEF Continues, HandsBack, Deletes, PlacesInv, Placed, Busy, MessageState
<1> QED BY <1>1, <1>2, <1>3, <1>4, <1>5, QueueMoves

LEMMA PlacesStep ==
  ASSUME LedgerInv, PipelineInv, [Next]_vars, PlacesInv
  PROVE  PlacesInv'
<1>a. worker \in [Workers -> Invocation] /\ [LedgerNext]_ledgerVars
  BY PipelineWrites DEF PipelineInv, PipelineTypeOK
<1>b. ASSUME NEW v \in Workers, worker'[v] = worker[v], view'[v] = view[v]
      PROVE  Placed(v)'
  <2>1. ~At(v, "idle") => /\ worker[v].msg \in Messages
                          /\ worker[v].msg # Control => ChunkOf(v) \in Chunks
    BY DEF PipelineInv, Sound, HoldsMessage, At, Messages, ChunkOf
  <2>2. ~At(v, "idle") => msg'[worker[v].msg].state # "unsent"
    BY <2>1, SentStays DEF PlacesInv, Placed
  <2>3. chunk[ChunkOf(v)].status = "FAILED" /\ worker[v].msg # Control
           /\ ~At(v, "idle")
          => chunk'[ChunkOf(v)].status = "FAILED"
    BY <1>a, <2>1, ChunksStay
  <2> QED BY <1>b, <2>2, <2>3 DEF PlacesInv, Placed, At, ChunkOf
<1>1. CASE Organizer \/ UNCHANGED vars
  <2>1. worker' = worker /\ view' = view
    BY <1>1 DEF Organizer, OrganizerPlans, OrganizerSends, OrganizerMarks,
       pipelineVars, vars, PlanJob, PlanChunk, SealManifest, CheckpointChunk,
       MarkScheduled, MarkSchedulingFailed, NoLedgerChange, ledgerVars
  <2> QED BY <1>b, <2>1, QueuedStep DEF PlacesInv
<1>2. ASSUME NEW m \in Messages, DeadLetter(m) \/ Redrive(m) \/ Redeliver(m)
      PROVE  PlacesInv'
  <2>1. worker' = worker /\ view' = view
    BY <1>2 DEF DeadLetter, Redrive, Redeliver, NoLedgerChange, ledgerVars
  <2> QED BY <1>b, <2>1, QueuedStep DEF PlacesInv
<1>3. ASSUME NEW m \in Messages, NEW w \in Workers, Receive(w, m) PROVE PlacesInv'
  <2>1. view' = view /\ \A v \in Workers : v # w => worker'[v] = worker[v]
    BY <1>a, <1>3 DEF Receive, NoLedgerChange, ledgerVars
  <2>2. /\ worker'[w].msg = m
        /\ worker'[w].step \in {"start", "reconcile"}
        /\ worker'[w].step = "reconcile" => worker'[w].within = "publish"
    BY <1>a, <1>3 DEF Receive
  <2>3. msg'[m].state # "unsent"
    BY <1>3, SentStays DEF Receive
  <2>4. Placed(w)'
    BY <2>2, <2>3 DEF Placed, At
  <2> QED BY <1>b, <2>1, <2>4, QueuedStep DEF PlacesInv
<1>4. ASSUME NEW w \in Workers, WorkerStep(w) \/ Crash(w) PROVE PlacesInv'
  <2>1. Kept
    BY <1>a, LedgerKeeps
  <2>2. Busy(w) /\ GoodStep(w)
    BY <1>4, <2>1, WorkerIsGood DEF Busy
  <2>3. \A v \in Workers : v # w => worker'[v] = worker[v]
    BY <1>a, <2>2 DEF GoodStep
  <2>4. Placed(w)'
    BY <1>a, <1>4, <2>2, OwnPlace DEF PlacesInv
  <2> QED BY <1>b, <1>4, <2>3, <2>4, ViewsOfOthers, QueuedStep DEF PlacesInv
<1> QED BY <1>1, <1>2, <1>3, <1>4 DEF Next, Sqs

(* Who will still announce a finished job: the invocation or a later        *)
(* delivery of a message that is not deleted, unless that invocation has    *)
(* just lost the finalising transaction and finds no intent.                *)
Yields(w) == worker[w].step = "loadIntent" /\ worker[w].within # "fail"

Answers(m) ==
  /\ msg[m].state \in {"visible", "inflight", "dlq"}
  /\ intent.state = "none" => \A w \in Workers : ~(worker[w].msg = m /\ Yields(w))

SomeoneAnnounces ==
  AllSent /\ AllDone /\ intent.state # "delivered" => \E m \in Messages : Answers(m)

(* What a step of invocation w may do once every chunk is completed and the *)
(* event is not yet marked: keep its message, ...                           *)
Keeps(w) ==
  /\ Continues(w) \/ HandsBack(w)
  /\ ~(Yields(w)' /\ intent'.state = "none")

(* ... give way to the other party of a conflict, ...                       *)
GivesWay(w) ==
  /\ Continues(w)
  /\ \E v \in Workers \ {w} : worker[v].step \in {"finalize", "complete", "failTx"}

(* ... and then leave the rest to it.                                       *)
Leaves(w) ==
  /\ chunk' = chunk /\ intent' = intent /\ Deletes(w)
  /\ Yields(w) /\ intent.state = "none"

(* Once all chunks are completed, the JOB item is ready or terminal, and a  *)
(* terminal job has its intent.                                             *)
LEMMA DoneJob ==
  ASSUME LedgerInv, job.sealed, AllDone
  PROVE  /\ job.status \notin TerminalJob => ReadyToFinalize
         /\ job.status \in TerminalJob => intent.state # "none"
<1>1. job.completed = job.expected /\ job.failed = 0 /\ job.expected \in Nat
  BY DoneIsReady
<1>2. job.status \in OpenForResults \cup {"SCHEDULING_FAILED", "COMPLETED", "FAILED"}
  BY DEF LedgerInv, SealShape
<1>3. intent.state = "none" <=> job.status \notin {"COMPLETED", "FAILED"}
  BY DEF LedgerInv, OutboxMatchesJob
<1> QED BY <1>1, <1>2, <1>3 DEF ReadyToFinalize

(* The steps of a chunk, publishCompletion, FailChunk and a crash never lead *)
(* to the intent, and the message is deleted only after a mark.             *)
LEMMA ChunkOutcome ==
  ASSUME LedgerInv, NEW w \in Workers, Busy(w), intent'.state # "delivered",
         \/ Refuse(w) \/ Start(w) \/ StartRead(w) \/ Process(w) \/ CompleteRead(w)
         \/ Complete(w) \/ CompleteReread(w) \/ Send(w) \/ Mark(w)
         \/ FailRetry(w) \/ FailRead(w) \/ FailFinal(w) \/ Crash(w)
  PROVE  Keeps(w)
<1>a. ASSUME Error(w) \/ Nack(w) PROVE Keeps(w)
  BY <1>a, ErrorMoves, ReleaseEnds DEF Keeps, Yields, HandsBack, Idle
<1>b. ASSUME NEW s \in Steps \ {"loadIntent"}, Goto(w, s), msg' = msg PROVE Keeps(w)
  BY <1>b, GotoContinues DEF Keeps, Yields
<1>c. ASSUME NEW c \in {"complete", "fail", "publish"}, Reconcile(w, c), msg' = msg
      PROVE  Keeps(w)
  BY <1>c, ReconcileContinues DEF Keeps, Yields
<1>1. CASE \/ Refuse(w) \/ Start(w) \/ StartRead(w) \/ Process(w) \/ CompleteRead(w)
           \/ Complete(w) \/ CompleteReread(w)
  <2>1. \/ Error(w)
        \/ \E s \in Steps \ {"loadIntent"} : Goto(w, s) /\ msg' = msg
        \/ \E c \in {"complete", "publish"} : Reconcile(w, c) /\ msg' = msg
    BY <1>1 DEF Refuse, Start, StartRead, Process, CompleteRead, Complete,
       CompleteReread, Steps
  <2> QED BY <1>a, <1>b, <1>c, <2>1
<1>2. CASE FailRetry(w) \/ FailRead(w) \/ FailFinal(w) \/ Crash(w)
  <2>1. \/ Nack(w) \/ (Reconcile(w, "fail") /\ msg' = msg)
        \/ \E s \in Steps \ {"loadIntent"} : Goto(w, s) /\ msg' = msg
    BY <1>2 DEF FailRetry, FailRead, FailFinal, Crash, Steps
  <2> QED BY <1>a, <1>b, <1>c, <2>1
<1>3. CASE Send(w)
  <2>1. Error(w) \/ \E s \in Steps \ {"loadIntent"} : Goto(w, s) /\ msg' = msg
    BY <1>3 DEF Send, Steps
  <2> QED BY <1>a, <1>b, <2>1
<1>4. CASE Mark(w)
  <2>1. intent.state \in {"pending", "delivered"}
    BY <1>4 DEF Mark, At, Busy, PipelineInv, Sound, CarriesIntent, LedgerInv,
       LedgerTypeOK, IntentItem
  <2>2. ~MarkDelivered
    BY DEF MarkDelivered, LedgerInv, LedgerTypeOK, IntentItem
  <2>3. Error(w)
    BY <1>4, <2>1, <2>2 DEF Mark, NoLedgerChange, ledgerVars
  <2> QED BY <1>a, <2>3
<1> QED BY <1>1, <1>2, <1>3, <1>4

(* ReconcileCompletion: with all chunks completed it is called for the      *)
(* caller of CompleteChunk or by publishCompletion.                         *)
LEMMA ReconcileOutcome ==
  ASSUME LedgerInv, NEW w \in Workers, Busy(w), PlacesInv, AllDone',
         intent'.state # "delivered",
         ReconcileRead(w) \/ Finalize(w) \/ LoadIntent(w)
  PROVE  Keeps(w) \/ GivesWay(w) \/ Leaves(w)
<1>1. chunk' = chunk /\ AllDone /\ job.sealed
  BY BusyFacts DEF ReconcileRead, Finalize, LoadIntent, NoLedgerChange, ledgerVars,
     ReadJob, FinalizeJob, DropView, AllDone
<1>2. worker[w].within \in {"complete", "publish"}
  <2>1. worker[w].step \in {"reconcile", "finalize", "loadIntent"}
    BY DEF ReconcileRead, Finalize, LoadIntent, At
  <2>2. worker[w].within = "fail" =>
          ChunkOf(w) \in Chunks /\ chunk[ChunkOf(w)].status = "FAILED"
    BY <2>1, BusyFacts DEF PlacesInv, Placed
  <2> QED BY <1>1, <2>1, <2>2, BusyFacts DEF PlacesInv, Placed, AllDone, Invocation
<1>b. ASSUME ReturnError(w) PROVE Keeps(w)
  BY <1>b, ReturnErrorMoves DEF Keeps, Yields, HandsBack, Idle
<1>c. ASSUME \E e : ReturnIntent(w, e) PROVE Keeps(w)
  BY <1>2, <1>c, ReturnIntentMoves DEF Keeps, Yields
<1>d. ASSUME NEW s \in {"finalize", "loadIntent"}, Goto(w, s), msg' = msg
      PROVE  Continues(w) /\ worker'[w].step = s
  BY <1>d, GotoContinues DEF Steps
<1>3. CASE ReconcileRead(w)
  <2>1. \/ /\ job.status \in TerminalJob /\ intent' = intent
           /\ Goto(w, "loadIntent") /\ msg' = msg
        \/ Goto(w, "finalize") /\ msg' = msg
        \/ ReturnError(w)
    BY <1>1, <1>3, DoneJob DEF ReconcileRead, NoLedgerChange, ledgerVars
  <2>2. CASE /\ job.status \in TerminalJob /\ intent' = intent
             /\ Goto(w, "loadIntent") /\ msg' = msg
    BY <1>1, <1>d, <2>2, DoneJob DEF Keeps
  <2>3. CASE Goto(w, "finalize") /\ msg' = msg
    BY <1>d, <2>3 DEF Keeps, Yields
  <2> QED BY <1>b, <2>1, <2>2, <2>3
<1>4. CASE Finalize(w)
  <2>1. \/ \E e : ReturnIntent(w, e)
        \/ ReturnError(w)
        \/ JobBusy(w) /\ Goto(w, "loadIntent") /\ msg' = msg
    BY <1>4 DEF Finalize
  <2>2. CASE JobBusy(w) /\ Goto(w, "loadIntent") /\ msg' = msg
    BY <1>d, <2>2 DEF GivesWay, JobBusy
  <2> QED BY <1>b, <1>c, <2>1, <2>2
<1>5. CASE LoadIntent(w)
  <2>1. /\ worker[w].step = "loadIntent" /\ intent' = intent
        /\ \/ \E e : ReturnIntent(w, e)
           \/ intent.state # "pending" /\ ReturnNothing(w)
           \/ ReturnError(w)
    BY <1>5 DEF LoadIntent, At, NoLedgerChange, ledgerVars
  <2>2. CASE intent.state # "pending" /\ ReturnNothing(w)
    <3>1. intent.state = "none"
      BY <2>1, <2>2 DEF LedgerInv, LedgerTypeOK, IntentItem
    <3>2. \/ Continues(w) /\ worker'[w].step = "reconcile"
          \/ Deletes(w)
      BY <1>2, <2>2, ReturnNothingMoves
    <3> QED BY <1>1, <1>2, <2>1, <3>1, <3>2 DEF Keeps, Leaves, Yields
  <2> QED BY <1>b, <1>c, <2>1, <2>2
<1> QED BY <1>3, <1>4, <1>5

-----------------------------------------------------------------------------
(* Someone always announces.                                                *)

LEMMA DeliveredStays ==
  LedgerInv /\ [LedgerNext]_ledgerVars /\ intent.state = "delivered"
    => intent'.state = "delivered"
BY DEF LedgerNext, Admission, AdmitPut, LeaseExpires, ReclaimLease,
   BeginValidation, BeginPlanning, RejectJob, AdvanceJob, Planning, PlanJob,
   PlanChunk, SealManifest, CheckpointChunk, MarkScheduled, MarkSchedulingFailed,
   Execution, StartChunk, AcquireChunk, CompleteChunk, RetryChunk, FailChunk,
   Completion, ReadJob, DropView, FinalizeJob, CanFinalize, MarkDelivered, ledgerVars

(* An invocation's step sends nothing and leaves the manifest alone.        *)
LEMMA WorkersSendNothing ==
  ASSUME LedgerInv, PipelineInv, PlacesInv, NEW w \in Workers, Busy(w),
         WorkerStep(w) \/ Crash(w), AllSent'
  PROVE  AllSent
<1>a. /\ msg \in [Messages -> MessageState] /\ worker[w].msg \in Messages
      /\ msg[worker[w].msg].state # "unsent" /\ job.sealed
  BY BusyFacts DEF PipelineInv, PipelineTypeOK, PlacesInv, Placed, Busy
<1>1. \A m \in Messages : msg'[m].state # "unsent" => msg[m].state # "unsent"
  <2>1. Continues(w) \/ HandsBack(w) \/ Deletes(w)
    BY SlotStep
  <2> QED BY <1>a, <2>1 DEF Continues, HandsBack, Deletes, MessageState
<1>2. job'.expected = job.expected
  BY DEF WorkerStep, Refuse, Start, StartRead, Process, CompleteRead, Complete,
     CompleteReread, ReconcileRead, Finalize, LoadIntent, Send, Mark, FailRetry,
     FailRead, FailFinal, Crash, NoLedgerChange, ledgerVars, StartChunk, CompleteChunk,
     RetryChunk, FailChunk, ReadJob, FinalizeJob, DropView, MarkDelivered,
     LedgerInv, LedgerTypeOK, JobItem
<1>3. ASSUME NEW c \in Planned PROVE Queued(c)
  <2>1. [LedgerNext]_ledgerVars /\ c \in Chunks
    BY WorkerWrites DEF Planned
  <2>2. Queued(c)'
    BY <2>1, ChunksStay DEF AllSent, Planned
  <2> QED BY <1>1, <2>1, <2>2 DEF Queued, Messages
<1>4. Control \in Messages
  BY DEF Messages
<1> QED BY <1>a, <1>1, <1>2, <1>3, <1>4 DEF AllSent

(* With exclusive slots, the message of an invocation that keeps it, or that *)
(* others give way to, still answers after a step.                          *)
LEMMA HeldAnswers ==
  ASSUME PipelineInv, Exclusive, NEW w \in Workers, Busy(w), GoodStep(w),
         NEW v \in Workers, ~At(v, "idle"),
         \/ v = w /\ Keeps(w)
         \/ v # w /\ worker[v].step # "loadIntent" /\ Continues(w)
  PROVE  \E m \in Messages : Answers(m)'
<1>a. /\ msg \in [Messages -> MessageState] /\ worker \in [Workers -> Invocation]
      /\ \A u \in Workers : u # w => worker'[u] = worker[u]
  BY DEF PipelineInv, PipelineTypeOK, GoodStep
<1>1. PICK m \in Messages : m = worker[v].msg /\ msg[m].state = "inflight"
  BY DEF Exclusive, PipelineInv, Sound, HoldsMessage, At
<1>2. msg'[m].state \in {"visible", "inflight"}
  BY <1>a, <1>1 DEF Keeps, Continues, HandsBack, MessageState
<1>3. ASSUME intent'.state = "none", NEW u \in Workers, worker'[u].msg = m, Yields(u)'
      PROVE  FALSE
  <2>1. CASE u # w
    <3>1. worker[u] = worker'[u] /\ ~At(u, "idle") /\ worker[u].step = "loadIntent"
      BY <1>a, <1>3, <2>1 DEF Yields, At
    <3>2. u = v
      BY <1>1, <1>3, <3>1 DEF Exclusive
    <3> QED BY <2>1, <3>1, <3>2
  <2>2. CASE u = w /\ v = w
    BY <1>3, <2>2 DEF Keeps
  <2>3. CASE u = w /\ v # w
    BY <1>1, <1>3, <2>3 DEF Continues, Exclusive, Busy
  <2> QED BY <1>1, <2>1, <2>2, <2>3
<1> QED BY <1>1, <1>2, <1>3 DEF Answers

LEMMA WorkerAnnounces ==
  ASSUME LedgerInv, PipelineInv, PlacesInv, NEW w \in Workers,
         WorkerStep(w) \/ Crash(w), SomeoneAnnounces, Exclusive
  PROVE  SomeoneAnnounces'
<1> SUFFICES ASSUME AllSent', AllDone', intent'.state # "delivered"
             PROVE  \E m \in Messages : Answers(m)'
  BY DEF SomeoneAnnounces
<1>1. [LedgerNext]_ledgerVars
  BY WorkerWrites
<1>2. Kept
  BY <1>1, LedgerKeeps
<1>3. Busy(w) /\ GoodStep(w)
  BY <1>2, WorkerIsGood DEF Busy
<1>4. Keeps(w) \/ GivesWay(w) \/ Leaves(w)
  BY <1>3, ChunkOutcome, ReconcileOutcome DEF WorkerStep
<1>5. CASE Keeps(w)
  BY <1>3, <1>5, HeldAnswers DEF Busy
<1>6. CASE GivesWay(w)
  <2>1. PICK v \in Workers \ {w} :
          worker[v].step \in {"finalize", "complete", "failTx"} /\ Continues(w)
    BY <1>6 DEF GivesWay
  <2> QED BY <1>3, <2>1, HeldAnswers DEF At
<1>7. CASE Leaves(w)
  <2>a. /\ msg \in [Messages -> MessageState]
        /\ \A v \in Workers : v # w => worker'[v] = worker[v]
    BY <1>3 DEF GoodStep, PipelineInv, PipelineTypeOK
  <2>1. AllDone /\ AllSent /\ intent.state # "delivered"
    BY <1>1, <1>3, <1>7, WorkersSendNothing, DeliveredStays DEF Leaves, AllDone
  <2>2. PICK m \in Messages : Answers(m)
    BY <2>1 DEF SomeoneAnnounces
  <2>3. m # worker[w].msg
    BY <1>7, <2>2 DEF Leaves, Answers
  <2>4. msg'[m] = msg[m] /\ intent' = intent /\ ~Yields(w)'
    BY <1>7, <2>a, <2>3 DEF Leaves, Deletes, Yields, Idle
  <2>5. Answers(m)'
    BY <2>2, <2>4, <2>a DEF Answers, Yields
  <2> QED BY <2>5
<1> QED BY <1>4, <1>5, <1>6, <1>7

(* Before the seal nothing is sent, and afterwards nothing is planned.      *)
LEMMA PlanAnnounces ==
  ASSUME LedgerInv, LedgerInv', PipelineInv, OrganizerPlans, AllSent'
  PROVE  FALSE
<1>1. msg' = msg /\ job'.sealed
  BY DEF OrganizerPlans, pipelineVars, AllSent
<1>2. CASE job.sealed
  <2>1. job.planned /\ Planned = 1..job.expected
    BY <1>2 DEF LedgerInv, PlanShape
  <2>2. PICK k \in Configs, c \in Chunks :
          ChunkAllowed(k, c) /\ chunk[c].status = "ABSENT" /\ PlanChunk(k, c)
    BY <1>2, <2>1 DEF OrganizerPlans, SealManifest, CanSeal
  <2>3. c \in Planned
    BY <2>1, <2>2 DEF ChunkAllowed, ManifestOf
  <2> QED BY <2>2, <2>3 DEF Planned
<1>3. CASE ~job.sealed
  <2>1. \A m \in Messages : msg'[m].state = "unsent"
    BY <1>1, <1>3 DEF PipelineInv
  <2>2. \A c \in Chunks : ~Queued(c)'
    BY <2>1 DEF Queued, Messages
  <2>3. Planned' = {} /\ Control \in Messages
    BY <2>2 DEF AllSent, Planned, Messages
  <2>4. job'.expected \in Nat /\ Planned' = 1..job'.expected
    BY <1>1 DEF LedgerInv, PlanShape
  <2>5. job'.expected = 0
    BY <2>3, <2>4
  <2> QED BY <2>1, <2>3, <2>5 DEF AllSent
<1> QED BY <1>2, <1>3

LEMMA AnnounceStep ==
  ASSUME LedgerInv, LedgerInv', PipelineInv, PlacesInv, [Next]_vars,
         SomeoneAnnounces, Exclusive
  PROVE  SomeoneAnnounces'
<1>a. worker \in [Workers -> Invocation] /\ msg \in [Messages -> MessageState]
  BY DEF PipelineInv, PipelineTypeOK
<1>b. ASSUME worker' = worker, msg' = msg, intent' = intent,
             AllSent' => AllSent, AllDone' => AllDone
      PROVE  SomeoneAnnounces'
  BY <1>b DEF SomeoneAnnounces, Answers, Yields
<1>c. ASSUME UNCHANGED ledgerVars PROVE intent' = intent /\ (AllDone' => AllDone)
  BY <1>c DEF ledgerVars, AllDone
<1>d. ASSUME UNCHANGED ledgerVars,
             \A m \in Messages : msg'[m].state # "unsent" => msg[m].state # "unsent"
      PROVE  AllSent' => AllSent
  BY <1>d DEF ledgerVars, AllSent, Planned, Queued, Messages
<1>1. CASE OrganizerPlans
  BY <1>1, PlanAnnounces DEF SomeoneAnnounces
<1>2. CASE OrganizerMarks
  <2>1. /\ worker' = worker /\ msg' = msg /\ intent' = intent
        /\ job'.sealed = job.sealed /\ job'.expected = job.expected
        /\ \A c \in Chunks : chunk'[c].status = chunk[c].status
    BY <1>2 DEF OrganizerMarks, pipelineVars, CheckpointChunk, MarkScheduled,
       MarkSchedulingFailed, LedgerInv, LedgerTypeOK, JobItem, ChunkItem
  <2>2. Planned' = Planned
    BY <2>1 DEF Planned
  <2> QED BY <1>b, <2>1, <2>2 DEF AllSent, AllDone, Queued
<1>3. ASSUME NEW m \in Messages, OrganizerSends(m) PROVE SomeoneAnnounces'
  <2>1. msg[m].state = "unsent" /\ msg'[m].state = "visible" /\ worker' = worker
    BY <1>a, <1>3 DEF OrganizerSends, MessageState
  <2>2. \A w \in Workers : ~(worker[w].msg = m /\ Yields(w))
    BY <2>1 DEF PlacesInv, Placed, Yields, At
  <2>3. Answers(m)'
    BY <2>1, <2>2 DEF Answers, Yields
  <2> QED BY <2>3 DEF SomeoneAnnounces
<1>4. ASSUME NEW m \in Messages, DeadLetter(m) \/ Redrive(m) \/ Redeliver(m)
      PROVE  SomeoneAnnounces'
  <2>1. /\ worker' = worker /\ UNCHANGED ledgerVars
        /\ msg[m].state \in {"visible", "dlq", "inflight"}
        /\ msg'[m].state \in {"visible", "dlq"}
        /\ \A k \in Messages : k # m => msg'[k] = msg[k]
    BY <1>a, <1>4 DEF DeadLetter, Redrive, Redeliver, NoLedgerChange, MessageState
  <2>a. \A k \in Messages : msg'[k].state # "unsent" => msg[k].state # "unsent"
    BY <2>1
  <2>b. intent' = intent /\ (AllDone' => AllDone)
    BY <1>c, <2>1
  <2>c. AllSent' => AllSent
    BY <1>d, <2>1, <2>a
  <2>2. intent' = intent /\ (AllDone' => AllDone) /\ (AllSent' => AllSent)
    BY <2>b, <2>c
  <2>3. \A k \in Messages : Answers(k) => Answers(k)'
    BY <2>1, <2>2 DEF Answers, Yields
  <2> QED BY <2>2, <2>3 DEF SomeoneAnnounces
<1>5. ASSUME NEW m \in Messages, NEW w \in Workers, Receive(w, m)
      PROVE  SomeoneAnnounces'
  <2>1. /\ UNCHANGED ledgerVars /\ At(w, "idle")
        /\ msg[m].state = "visible" /\ msg'[m].state = "inflight"
        /\ \A k \in Messages : k # m => msg'[k] = msg[k]
    BY <1>a, <1>5 DEF Receive, NoLedgerChange, MessageState
  <2>a. \A k \in Messages : msg'[k].state # "unsent" => msg[k].state # "unsent"
    BY <2>1
  <2>b. intent' = intent /\ (AllDone' => AllDone)
    BY <1>c, <2>1
  <2>c. AllSent' => AllSent
    BY <1>d, <2>1, <2>a
  <2>2. intent' = intent /\ (AllDone' => AllDone) /\ (AllSent' => AllSent)
    BY <2>b, <2>c
  <2>3. /\ \A v \in Workers : v # w => worker'[v] = worker[v]
        /\ worker'[w].step \in {"start", "reconcile"}
    BY <1>a, <1>5 DEF Receive
  <2>4. \A v \in Workers : Yields(v)' => v # w
    BY <2>3 DEF Yields
  <2>5. \A k \in Messages : Answers(k) => Answers(k)'
    BY <2>1, <2>2, <2>3, <2>4 DEF Answers, Yields
  <2> QED BY <2>2, <2>5 DEF SomeoneAnnounces
<1>6. CASE UNCHANGED vars
  <2>1. UNCHANGED ledgerVars /\ worker' = worker /\ msg' = msg
    BY <1>6 DEF vars, pipelineVars
  <2>2. \A k \in Messages : msg'[k].state # "unsent" => msg[k].state # "unsent"
    BY <2>1
  <2>3. intent' = intent /\ (AllDone' => AllDone)
    BY <1>c, <2>1
  <2>4. AllSent' => AllSent
    BY <1>d, <2>1, <2>2
  <2> QED BY <1>b, <2>1, <2>3, <2>4
<1> QED BY <1>1, <1>2, <1>3, <1>4, <1>5, <1>6, WorkerAnnounces DEF Next, Organizer, Sqs

(* When everything was sent and acknowledged, nothing can answer any more.  *)
LEMMA AnnouncedAtLast ==
  ASSUME PipelineInv, Overlapped \/ SomeoneAnnounces
  PROVE  AcknowledgedMeansAnnounced
<1> SUFFICES ASSUME AllAcknowledged, SomeoneAnnounces, intent.state # "delivered"
             PROVE  FALSE
  BY DEF AcknowledgedMeansAnnounced
<1>1. ASSUME NEW c \in Chunks, chunk[c].status # "ABSENT"
      PROVE  chunk[c].status = "COMPLETED"
  <2>1. PICK i \in 1..MaxCopies : msg[[chunk |-> c, copy |-> i]].state # "unsent"
    BY <1>1 DEF AllAcknowledged, AllSent, Planned, Queued
  <2> DEFINE m == [chunk |-> c, copy |-> i]
  <2>2. m \in Messages /\ m # Control /\ m.chunk = c
    BY LedgerConstants DEF Messages, Control, Chunks
  <2>3. msg[m].state = "deleted"
    BY <2>1, <2>2 DEF AllAcknowledged
  <2> QED BY <2>2, <2>3 DEF PipelineInv, AckedChunksAreDone
<1>2. AllDone
  BY <1>1 DEF AllDone
<1>3. ASSUME NEW m \in Messages, Answers(m) PROVE FALSE
  BY <1>3 DEF Answers, AllAcknowledged
<1> QED BY <1>2, <1>3 DEF SomeoneAnnounces, AllAcknowledged

-----------------------------------------------------------------------------
(* The theorems.                                                            *)

(* The invariants of the ledger and of the pipeline hold together: the      *)
(* Worker's steps are ledger writes as long as its invocations are sound,   *)
(* and sound as long as the ledger takes nothing back.                      *)
LEMMA BothInvariants == Spec => [](LedgerInv /\ PipelineInv)
<1>1. Init => LedgerInv /\ PipelineInv
  BY InvInit, InvInitially DEF Init
<1>2. LedgerInv /\ PipelineInv /\ [Next]_vars => (LedgerInv /\ PipelineInv)'
  BY PipelineWrites, InvStep, InvPreserved
<1> QED BY <1>1, <1>2, PTL DEF Spec

(* Whatever the invocations race on, and whichever calls fail, the Worker   *)
(* writes only what the ledger protocol allows.                             *)
THEOREM WorkerKeepsProtocol == Spec => RefinesLedger
<1>1. Init => LedgerInit
  BY DEF Init
<1> QED BY <1>1, BothInvariants, PipelineWrites, PTL DEF Spec, RefinesLedger, LedgerSpec

(* So a job of the Worker's keeps the promise of JobOutcome.                *)
THEOREM WorkerImplementsOutcome == Spec => ImplementsOutcome
BY WorkerKeepsProtocol, LedgerImplementsOutcome, PTL DEF RefinesLedger

(* The queue and the invocations stay in their types.                       *)
THEOREM PipelineTypeCorrect == Spec => []PipelineTypeOK
<1>1. LedgerInv /\ PipelineInv => PipelineTypeOK
  BY DEF PipelineInv
<1> QED BY <1>1, BothInvariants, PTL

(* No chunk message is deleted before its chunk is COMPLETED, with any      *)
(* number of copies, redeliveries, crashes and lost replies.                *)
THEOREM AcksAreSafe == Spec => []AckedChunksAreDone
<1>1. LedgerInv /\ PipelineInv => AckedChunksAreDone
  BY DEF PipelineInv
<1> QED BY <1>1, BothInvariants, PTL

(* All completion events of a job are the event of its stored intent, and   *)
(* an intent marked delivered was sent.                                     *)
THEOREM EventsAreOne == Spec => []EventsAreTheIntent
<1>1. LedgerInv /\ PipelineInv => EventsAreTheIntent
  BY DEF PipelineInv
<1> QED BY <1>1, BothInvariants, PTL

(* Only the invocation that started a chunk ends it, however many           *)
(* invocations run and calls fail, as long as a chunk has one message and   *)
(* its receive count is not set back while an invocation holds it: two      *)
(* invocations of a chunk then never present the same attempt number.       *)
THEOREM HoldersEndTheirChunks ==
  ASSUME "resend" \notin Faults,
         "redrive" \notin Faults \/ "redelivery" \notin Faults
  PROVE  Spec => HolderEndsItsChunk
<1> DEFINE Told == /\ OneCopy
                   /\ "redelivery" \notin Faults => Exclusive
                   /\ "redrive" \notin Faults => Numbered
<1>1. Init => Told
  BY DEF Init, OneCopy, Exclusive, Numbered, At, Idle, Unsent
<1>2. LedgerInv /\ PipelineInv /\ Told /\ [Next]_vars => Told'
  BY OneCopyStep, ExclusiveStep, NumberedStep DEF Redeliver, Fault
<1>3. LedgerInv /\ PipelineInv /\ Told /\ [Next]_vars =>
        [\A w \in Workers :
           LET c == ChunkOf(w) IN
           ( /\ worker[w].step \in Working
             /\ HoldsChunk(c, worker[w].attempt)
             /\ chunk'[c].status \in {"RETRY_PENDING", "FAILED"} )
             => worker'[w] # worker[w]]_vars
  BY HolderStep
<1> HIDE DEF Told
<1> QED BY <1>1, <1>2, <1>3, BothInvariants, PTL DEF Spec, HolderEndsItsChunk

(* No lost completion: when every message of a sealed job was acknowledged  *)
(* and no invocation is left, its event is out and marked, as long as SQS   *)
(* never delivered a message while it was being handled.  Nothing else is   *)
(* assumed: not of the crashes, failed calls, lost replies, resends and     *)
(* redrives, and not of the conflicts between the transactions on the JOB   *)
(* item, FailChunk's among them.  An invocation that acknowledges without an*)
(* intent gave way to another, whose message is not yet acknowledged.       *)
THEOREM NoLostCompletion == Spec => []AcknowledgedMeansAnnounced
<1> DEFINE Told == PlacesInv /\ (Overlapped \/ (Exclusive /\ SomeoneAnnounces))
<1>1. Init => Told
  BY DEF Init, LedgerInit, NoJob, PlacesInv, QueuedArePlanned, Placed, Exclusive,
     SomeoneAnnounces, AllSent, At, Idle, Unsent
<1>2. LedgerInv /\ PipelineInv /\ Told /\ [Next]_vars => Told'
  <2> SUFFICES ASSUME LedgerInv, PipelineInv, Told, [Next]_vars PROVE Told'
    OBVIOUS
  <2>1. LedgerInv'
    BY PipelineWrites, InvStep
  <2>2. PlacesInv'
    BY PlacesStep
  <2>3. CASE Overlapped \/ \E m \in Messages : Redeliver(m)
    BY <2>2, <2>3, OverlappedStep
  <2>4. CASE ~Overlapped /\ \A m \in Messages : ~Redeliver(m)
    BY <2>1, <2>2, <2>4, ExclusiveStep, AnnounceStep
  <2> QED BY <2>3, <2>4
<1>3. LedgerInv /\ PipelineInv /\ Told => AcknowledgedMeansAnnounced
  BY AnnouncedAtLast
<1> HIDE DEF Told
<1> QED BY <1>1, <1>2, <1>3, BothInvariants, PTL DEF Spec
=============================================================================
