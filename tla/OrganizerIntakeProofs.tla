------------------------ MODULE OrganizerIntakeProofs ------------------------
(***************************************************************************)
(* Proofs about OrganizerIntake: for any number of invocations, messages,  *)
(* chunks, configurations and faults, of whatever kinds.                   *)
(***************************************************************************)
EXTENDS OrganizerIntake, JobOutcomeProofs

USE DEF JobStatuses, ChunkStatuses, JobResults, TerminalJob, TerminalChunk,
        OpenForResults, LeasedStatuses

(* What the ledger never takes back: a phase, a plan, a seal, a chunk.      *)
Kept ==
  /\ job.status # "ABSENT" => job'.status # "ABSENT"
  /\ job.status \notin {"ABSENT", "RECEIVED", "VALIDATING"}
       => job'.status \notin {"ABSENT", "RECEIVED", "VALIDATING"}
  /\ job.planned => job'.planned /\ job'.expected = job.expected
  /\ job.sealed => job'.sealed
  /\ \A c \in Chunks : chunk[c].status # "ABSENT"
       => chunk'[c].status # "ABSENT" /\ chunk'[c].cfg = chunk[c].cfg

LEMMA LedgerKeeps == LedgerInv /\ [LedgerNext]_ledgerVars => Kept
<1> SUFFICES ASSUME LedgerInv, [LedgerNext]_ledgerVars PROVE Kept
  OBVIOUS
<1>a. /\ job \in JobItem /\ chunk \in [Chunks -> ChunkItem]
      /\ PlanShape /\ SealShape
  BY DEF LedgerInv, LedgerTypeOK
<1>1. /\ job.status # "ABSENT" => job'.status # "ABSENT"
      /\ job.status \notin {"ABSENT", "RECEIVED", "VALIDATING"}
           => job'.status \notin {"ABSENT", "RECEIVED", "VALIDATING"}
      /\ job.planned => job'.planned /\ job'.expected = job.expected
      /\ job.sealed => job'.sealed
  <2>1. CASE Admission
    <3>1. CASE (\E k \in Configs : AdmitPut(k)) \/ LeaseExpires \/ ReclaimLease
      BY <1>a, <3>1 DEF AdmitPut, LeaseExpires, ReclaimLease, JobItem
    <3>2. CASE BeginValidation \/ BeginPlanning \/ RejectJob
      BY <1>a, <3>2 DEF BeginValidation, BeginPlanning, RejectJob, AdvanceJob, JobItem
    <3> QED BY <2>1, <3>1, <3>2 DEF Admission
  <2>2. CASE Planning
    <3>1. CASE \E k \in Configs : PlanJob(k)
      BY <1>a, <3>1 DEF PlanJob, CanPlanJob, JobItem
    <3>4. CASE \E k \in Configs : SealManifest(k)
      BY <1>a, <3>4 DEF SealManifest, CanSeal, JobItem
    <3>2. ASSUME NEW c \in Chunks, (\E k \in Configs : PlanChunk(k, c)) \/ CheckpointChunk(c)
          PROVE  job' = job
      BY <3>2 DEF PlanChunk, CheckpointChunk
    <3>3. CASE MarkScheduled \/ MarkSchedulingFailed
      BY <1>a, <3>3 DEF MarkScheduled, CanMarkScheduled, MarkSchedulingFailed,
         CanMarkSchedulingFailed, JobItem
    <3> QED BY <2>2, <3>1, <3>2, <3>3, <3>4 DEF Planning
  <2>3. CASE Execution
    <3>1. ASSUME NEW c \in Chunks, NEW a \in Attempts,
                 StartChunk(c, a) \/ RetryChunk(c, a)
          PROVE  job' = job
      BY <3>1 DEF StartChunk, RetryChunk
    <3>2. ASSUME NEW c \in Chunks, AcquireChunk(c) PROVE job' = job
      BY <3>2 DEF AcquireChunk
    <3>3. ASSUME NEW c \in Chunks, NEW a \in Attempts, FailChunk(c, a)
          PROVE  /\ job'.status = "RUNNING" /\ job'.planned = job.planned
                 /\ job'.expected = job.expected /\ job'.sealed = job.sealed
      BY <1>a, <3>3 DEF FailChunk, JobItem
    <3>4. ASSUME NEW c \in Chunks, NEW a \in Attempts, NEW n \in Counts,
                 CompleteChunk(c, a, n)
          PROVE  /\ job'.status = "RUNNING" /\ job'.planned = job.planned
                 /\ job'.expected = job.expected /\ job'.sealed = job.sealed
      BY <1>a, <3>4 DEF CompleteChunk, JobItem
    <3> QED BY <2>3, <3>1, <3>2, <3>3, <3>4 DEF Execution
  <2>4. CASE Completion
    <3>1. ASSUME NEW w \in Callers, FinalizeJob(w)
          PROVE  /\ job'.status \in TerminalJob /\ job'.planned = job.planned
                 /\ job'.expected = job.expected /\ job'.sealed = job.sealed
      <4>1. TerminalOf(view[w]) \in TerminalJob
        BY DEF TerminalOf
      <4>2. job' = [job EXCEPT !.status = TerminalOf(view[w]),
                               !.result = ResultOf(view[w])]
        BY <3>1 DEF FinalizeJob
      <4> QED BY <1>a, <4>1, <4>2 DEF JobItem
    <3>2. CASE MarkDelivered \/ \E w \in Callers : ReadJob(w) \/ DropView(w)
      BY <3>2 DEF ReadJob, DropView, MarkDelivered
    <3> QED BY <2>4, <3>1, <3>2 DEF Completion
  <2> QED BY <2>1, <2>2, <2>3, <2>4 DEF LedgerNext, ledgerVars
<1>2. ASSUME NEW c \in Chunks, chunk[c].status # "ABSENT"
      PROVE  chunk'[c].status # "ABSENT" /\ chunk'[c].cfg = chunk[c].cfg
  <2>1. CASE Planning
    <3>1. ASSUME NEW k \in Configs, NEW d \in Chunks, PlanChunk(k, d)
          PROVE  chunk'[c].status # "ABSENT" /\ chunk'[c].cfg = chunk[c].cfg
      <4>1. CASE chunk[d].status # "ABSENT"
        BY <1>2, <3>1, <4>1 DEF PlanChunk
      <4>2. CASE chunk[d].status = "ABSENT"
        <5>1. d # c
          BY <1>2, <4>2
        <5>2. chunk' = [chunk EXCEPT ![d] =
                          [chunk[d] EXCEPT !.status = "PENDING", !.cfg = k]]
          BY <3>1, <4>2 DEF PlanChunk
        <5>3. chunk'[c] = chunk[c]
          BY <1>a, <5>1, <5>2
        <5> QED BY <1>2, <5>3
      <4> QED BY <4>1, <4>2
    <3>2. ASSUME NEW d \in Chunks, CheckpointChunk(d)
          PROVE  chunk'[c].status # "ABSENT" /\ chunk'[c].cfg = chunk[c].cfg
      BY <1>a, <1>2, <3>2 DEF CheckpointChunk, ChunkItem
    <3> QED BY <1>2, <2>1, <3>1, <3>2 DEF Planning, PlanJob, SealManifest,
            MarkScheduled, MarkSchedulingFailed
  <2>2. CASE Execution
    <3>1. ASSUME NEW d \in Chunks, NEW a \in Attempts, StartChunk(d, a)
          PROVE  chunk'[c].status # "ABSENT" /\ chunk'[c].cfg = chunk[c].cfg
      BY <1>a, <1>2, <3>1 DEF StartChunk, ChunkItem
    <3>4. ASSUME NEW d \in Chunks, NEW a \in Attempts,
                 RetryChunk(d, a) \/ FailChunk(d, a)
          PROVE  chunk'[c].status # "ABSENT" /\ chunk'[c].cfg = chunk[c].cfg
      BY <1>a, <1>2, <3>4 DEF RetryChunk, FailChunk, ChunkItem
    <3>2. ASSUME NEW d \in Chunks, AcquireChunk(d)
          PROVE  chunk'[c].status # "ABSENT" /\ chunk'[c].cfg = chunk[c].cfg
      BY <1>a, <1>2, <3>2 DEF AcquireChunk, ChunkItem
    <3>3. ASSUME NEW d \in Chunks, NEW a \in Attempts, NEW n \in Counts,
                 CompleteChunk(d, a, n)
          PROVE  chunk'[c].status # "ABSENT" /\ chunk'[c].cfg = chunk[c].cfg
      BY <1>a, <1>2, <3>3 DEF CompleteChunk, ChunkItem
    <3> QED BY <2>2, <3>1, <3>2, <3>3, <3>4 DEF Execution
  <2>3. CASE Admission \/ Completion \/ UNCHANGED ledgerVars
    BY <1>2, <2>3 DEF Admission, AdmitPut, LeaseExpires, ReclaimLease,
       BeginValidation, BeginPlanning, RejectJob, AdvanceJob, Completion, ReadJob,
       DropView, FinalizeJob, MarkDelivered, ledgerVars
  <2> QED BY <2>1, <2>2, <2>3 DEF LedgerNext
<1> QED BY <1>1, <1>2 DEF Kept

-----------------------------------------------------------------------------
(* The inductive invariant, first of one invocation.  A request skips       *)
(* admission; a notification plans only once planning has begun; ...        *)
AdmissionSteps == { "admit", "admitRead", "reclaim", "validate", "validateRead",
                    "beginPlanning", "planningRead" }

InPhase(r) ==
  /\ r.step # "idle" => r.msg \in Notices /\ r.cfg \in Configs
  /\ ~Admits => r.step \notin AdmissionSteps
  /\ Admits /\ r.step \in {"planJob", "planChunk"}
       => job.status \notin {"ABSENT", "RECEIVED", "VALIDATING"}

(* ... the chunks written so far are of the plan the job has, and what is   *)
(* published is sealed; ...                                                 *)
SealedSteps == { "load", "send", "checkpoint", "mark", "markFailed" }

HasPlanned(r) ==
  /\ r.step \in AdmissionSteps \cup {"planJob"} => r.next = 1
  /\ r.step = "planChunk" =>
       /\ job.planned /\ job.expected = ChunkCount[r.cfg]
       /\ r.next \in 1..(ChunkCount[r.cfg] + 1)
       /\ \A c \in 1..(r.next - 1) : chunk[c].status # "ABSENT" /\ CanPlanChunk(r.cfg, c)
  /\ r.step \in SealedSteps => job.sealed

(* ... and whatever is neither sent nor still to be sent by this invocation *)
(* was sent before.                                                         *)
HasSent(r) ==
  /\ \A c \in r.confirmed : sent[c] > 0
  /\ r.step \in {"send", "checkpoint", "mark"} =>
       \A c \in Planned : sent[c] > 0 \/ c \in r.todo \cup r.batch
  /\ r.step = "mark" => r.todo = {} /\ r.batch = {}
  /\ r.step = "send" => r.tries < MaxTries
  /\ Cardinality(r.batch) <= BatchSize

Fit(r) == InPhase(r) /\ HasPlanned(r) /\ HasSent(r)

(* Then of the whole: only what was sent can have been started.             *)
StartedIsSent ==
  /\ job.status # "REJECTED"
  /\ ~Admits => job.status \notin {"RECEIVED", "VALIDATING"}
  /\ \A c \in Chunks : sent[c] > 0 => job.sealed
  /\ \A c \in Chunks : chunk[c].status \notin {"ABSENT", "PENDING"} => sent[c] > 0

IntakeInv ==
  /\ IntakeTypeOK
  /\ \A o \in Invocations : Fit(org[o])
  /\ StartedIsSent
  /\ CheckpointsAreSent
  /\ AcknowledgedIsSent

-----------------------------------------------------------------------------
(* Every step is one of the ledger's, or invisible to it.                   *)
LEMMA OrganizerWrites ==
  ASSUME LedgerInv, IntakeInv, NEW o \in Invocations, OrganizerStep(o) \/ Crash(o)
  PROVE  LedgerNext \/ UNCHANGED ledgerVars
<1>a. Fit(org[o]) /\ org[o] \in Invocation
  BY DEF IntakeInv, IntakeTypeOK
<1>b. ~At(o, "idle") => org[o].cfg \in Configs
  BY <1>a DEF Fit, InPhase, At
<1>1. CASE Admit(o) \/ Reclaim(o) \/ Validate(o) \/ StartPlanning(o)
  <2>1. At(o, "admit") => org[o].cfg \in Configs
    BY <1>b DEF At
  <2> QED BY <1>1, <2>1 DEF Admit, Reclaim, Validate, StartPlanning, Fails,
          NoLedgerChange, LedgerNext, Admission
<1>2. CASE PlanTheJob(o)
  <2>1. org[o].cfg \in Configs /\ PlanAllowed(org[o].cfg)
    BY <1>a, <1>2 DEF PlanTheJob, At, Fit, InPhase, PlanAllowed, IntakeInv,
       StartedIsSent
  <2> QED BY <1>2, <2>1 DEF PlanTheJob, Fails, NoLedgerChange, LedgerNext, Planning
<1>3. CASE PlanAChunk(o)
  <2>1. /\ org[o].cfg \in Configs
        /\ job.planned /\ job.expected = ChunkCount[org[o].cfg]
        /\ org[o].next \in 1..(ChunkCount[org[o].cfg] + 1)
        /\ org[o].next # ChunkCount[org[o].cfg] + 1
    BY <1>a, <1>3 DEF PlanAChunk, At, Fit, InPhase, HasPlanned, AllPlanned
  <2>2. ChunkCount[org[o].cfg] \in 0..MaxChunks /\ MaxChunks \in Nat
    BY <2>1, LedgerConstants
  <2>3. org[o].next \in 1..ChunkCount[org[o].cfg] /\ org[o].next \in Chunks
    BY <2>1, <2>2 DEF Chunks
  <2>4. ChunkAllowed(org[o].cfg, org[o].next)
    BY <2>1, <2>3 DEF ChunkAllowed, ManifestOf
  <2> QED BY <1>3, <2>1, <2>3, <2>4 DEF PlanAChunk, Fails, NoLedgerChange,
          LedgerNext, Planning
<1>4. CASE Seal(o)
  <2>1. /\ org[o].cfg \in Configs
        /\ org[o].next = ChunkCount[org[o].cfg] + 1
        /\ \A c \in 1..(org[o].next - 1) :
             chunk[c].status # "ABSENT" /\ CanPlanChunk(org[o].cfg, c)
    BY <1>a, <1>4 DEF Seal, At, Fit, InPhase, HasPlanned, AllPlanned
  <2>2. ChunkCount[org[o].cfg] \in Nat
    BY <2>1, LedgerConstants
  <2>3. SealAllowed(org[o].cfg)
    BY <2>1, <2>2 DEF SealAllowed, ManifestOf
  <2> QED BY <1>4, <2>1, <2>3 DEF Seal, Fails, NoLedgerChange, LedgerNext, Planning
<1>5. CASE Checkpoint(o)
  <2>1. org[o].confirmed \subseteq Chunks
    BY <1>a DEF Invocation
  <2> QED BY <1>5, <2>1 DEF Checkpoint, NoLedgerChange, LedgerNext, Planning
<1>6. CASE Mark(o) \/ MarkFailed(o)
  BY <1>6 DEF Mark, MarkFailed, Fails, NoLedgerChange, LedgerNext, Planning
<1>7. CASE \/ AdmitRead(o) \/ ValidateRead(o) \/ PlanningRead(o) \/ Load(o)
           \/ Send(o) \/ Checkpointed(o) \/ Crash(o)
  BY <1>7 DEF AdmitRead, ValidateRead, PlanningRead, Load, Send, Checkpointed,
     Crash, NoLedgerChange
<1> QED BY <1>1, <1>2, <1>3, <1>4, <1>5, <1>6, <1>7 DEF OrganizerStep

LEMMA IntakeWrites ==
  LedgerInv /\ IntakeInv /\ [Next]_vars => [LedgerNext]_ledgerVars
<1> SUFFICES ASSUME LedgerInv, IntakeInv, [Next]_vars PROVE [LedgerNext]_ledgerVars
  OBVIOUS
<1>1. CASE \E o \in Invocations : OrganizerStep(o) \/ Crash(o)
  BY <1>1, OrganizerWrites
<1>2. CASE \E m \in Notices : Sqs(m) \/ Redeliver(m)
  BY <1>2 DEF Sqs, DeadLetter, Receive, Redeliver, NoLedgerChange
<1>3. CASE Workers
  BY <1>3 DEF Workers, IntakeInv, StartedIsSent, LedgerNext, Execution, Completion
<1>4. CASE LeaseRunsOut \/ ConfigChanges \/ UNCHANGED vars
  BY <1>4 DEF LeaseRunsOut, ConfigChanges, NoLedgerChange, vars, LedgerNext,
     Admission
<1> QED BY <1>1, <1>2, <1>3, <1>4 DEF Next

-----------------------------------------------------------------------------
(* What a step may take back: nothing that Fit speaks of.                   *)
Grows ==
  /\ LedgerInv /\ LedgerInv' /\ Kept
  /\ \A c \in Chunks : sent[c] > 0 => sent'[c] > 0

LEMMA SealedPlanStays ==
  ASSUME Grows, job.sealed
  PROVE  /\ Planned' = Planned /\ Planned = 1..job.expected
         /\ job'.sealed /\ job'.expected = job.expected
BY DEF Grows, LedgerInv, PlanShape, Kept

LEMMA OthersStayFit ==
  ASSUME NEW p \in Invocations, org[p] \in Invocation, Fit(org[p]),
         org'[p] = org[p], Grows
  PROVE  Fit(org[p])'
<1>1. InPhase(org[p])'
  BY DEF Fit, InPhase, Grows, Kept
<1>2. HasPlanned(org[p])'
  <2>1. ASSUME org[p].step = "planChunk", NEW c \in 1..(org[p].next - 1)
        PROVE  chunk'[c].status # "ABSENT" /\ CanPlanChunk(org[p].cfg, c)'
    <3>1. c \in Chunks
      BY <2>1, LedgerConstants DEF Invocation, Chunks
    <3> QED BY <2>1, <3>1 DEF Fit, HasPlanned, Grows, Kept, CanPlanChunk
  <2> QED BY <2>1 DEF Fit, HasPlanned, Grows, Kept
<1>3. HasSent(org[p])'
  <2>1. \A c \in org[p].confirmed : sent'[c] > 0
    BY DEF Fit, HasSent, Grows, Invocation
  <2>2. ASSUME org[p].step \in {"send", "checkpoint", "mark"}, NEW c \in Planned'
        PROVE  sent'[c] > 0 \/ c \in org[p].todo \cup org[p].batch
    <3>1. job.sealed
      BY <2>2 DEF Fit, HasPlanned, SealedSteps
    <3>2. c \in Planned /\ c \in Chunks
      BY <2>2, <3>1, SealedPlanStays DEF Planned
    <3> QED BY <2>2, <3>2 DEF Fit, HasSent, Grows
  <2> QED BY <2>1, <2>2 DEF Fit, HasSent
<1> QED BY <1>1, <1>2, <1>3 DEF Fit

(* What a step of invocation o may do to its slot and to its message: the   *)
(* message is left, handed back, or acknowledged for a manifest in the      *)
(* queue.                                                                   *)
AllSent == job.sealed /\ \A c \in 1..job.expected : sent[c] > 0

GoodStep(o) ==
  /\ org' = [org EXCEPT ![o] = org'[o]]
  /\ org'[o] \in Invocation
  /\ Fit(org[o])'
  /\ \/ notice' = notice
     \/ notice' = [notice EXCEPT ![org[o].msg].state =
                     IF @ = "inflight" THEN "visible" ELSE @]
     \/ notice' = [notice EXCEPT ![org[o].msg].state = "deleted"] /\ AllSent'

Busy(o) == IntakeInv /\ Grows /\ ~At(o, "idle")

LEMMA BusyFacts ==
  ASSUME NEW o \in Invocations, Busy(o)
  PROVE  /\ org \in [Invocations -> Invocation] /\ org[o] \in Invocation
         /\ org[o].msg \in Notices /\ org[o].cfg \in Configs
         /\ InPhase(org[o]) /\ HasPlanned(org[o]) /\ HasSent(org[o])
         /\ LedgerInv /\ LedgerInv' /\ Grows
BY DEF Busy, Grows, IntakeInv, IntakeTypeOK, Fit, InPhase, At

LEMMA IdleIsFit ==
  ASSUME NEW o \in Invocations, Busy(o), org' = [org EXCEPT ![o] = Idle]
  PROVE  /\ org' = [org EXCEPT ![o] = org'[o]]
         /\ org'[o] \in Invocation
         /\ Fit(org[o])'
<1>1. org'[o] = Idle
  BY BusyFacts
<1>2. Idle \in Invocation
  BY LedgerConstants DEF Idle, Invocation, Steps, MaxTries
<1>3. Cardinality({}) <= BatchSize
  BY FS_EmptySet, IntakeConstants
<1>4. Fit(org[o])'
  BY <1>1, <1>3 DEF Fit, InPhase, HasPlanned, HasSent, Idle, AdmissionSteps,
     SealedSteps
<1> QED BY <1>1, <1>2, <1>4

LEMMA NackIsGood ==
  ASSUME NEW o \in Invocations, Busy(o), Nack(o) PROVE GoodStep(o)
BY IdleIsFit DEF Nack, Release, GoodStep

LEMMA AckIsGood ==
  ASSUME NEW o \in Invocations, Busy(o), Ack(o), AllSent' PROVE GoodStep(o)
BY IdleIsFit DEF Ack, Release, GoodStep

(* From one step of an invocation to the next, before its first send.       *)
LEMMA GotoIsGood ==
  ASSUME NEW o \in Invocations, Busy(o),
         NEW s \in Steps \ {"idle", "send", "checkpoint", "mark"}, Goto(o, s),
         ~Admits => s \notin AdmissionSteps,
         Admits /\ s \in {"planJob", "planChunk"}
           => job'.status \notin {"ABSENT", "RECEIVED", "VALIDATING"},
         s \in AdmissionSteps \cup {"planJob", "planChunk"} => org[o].next = 1,
         s = "planChunk" => job'.planned /\ job'.expected = ChunkCount[org[o].cfg],
         s \in SealedSteps => job'.sealed
  PROVE  GoodStep(o)
<1>1. /\ org[o] \in Invocation
      /\ org' = [org EXCEPT ![o] = [org[o] EXCEPT !.step = s]] /\ notice' = notice
  BY BusyFacts DEF Goto
<1>2. /\ org'[o] = [org[o] EXCEPT !.step = s]
      /\ org' = [org EXCEPT ![o] = org'[o]]
  BY <1>1, BusyFacts
<1>3. org'[o] \in Invocation
  BY <1>1, <1>2 DEF Invocation
<1>4. /\ org'[o].step = s /\ org'[o].msg = org[o].msg
      /\ org'[o].cfg = org[o].cfg /\ org'[o].next = org[o].next
      /\ org'[o].batch = org[o].batch /\ org'[o].confirmed = org[o].confirmed
  BY <1>1, <1>2 DEF Invocation
<1>5. InPhase(org[o])'
  BY <1>4, BusyFacts DEF InPhase
<1>6. HasPlanned(org[o])'
  <2>1. ASSUME s = "planChunk"
        PROVE  /\ org[o].next \in 1..(ChunkCount[org[o].cfg] + 1)
               /\ 1..(org[o].next - 1) = {}
    BY <2>1, BusyFacts, LedgerConstants
  <2> QED BY <1>4, <2>1 DEF HasPlanned
<1>7. HasSent(org[o])'
  <2>1. \A c \in org[o].confirmed : sent'[c] > 0
    BY <1>1, BusyFacts DEF HasSent, Grows, Invocation
  <2>2. Cardinality(org[o].batch) <= BatchSize
    BY BusyFacts DEF HasSent
  <2> QED BY <1>4, <2>1, <2>2 DEF HasSent
<1> QED BY <1>1, <1>2, <1>3, <1>5, <1>6, <1>7 DEF GoodStep, Fit

LEMMA AdmissionIsGood ==
  ASSUME NEW o \in Invocations, Busy(o),
         Admit(o) \/ Reclaim(o) \/ Validate(o) \/ ValidateRead(o)
                  \/ StartPlanning(o) \/ PlanningRead(o)
  PROVE  GoodStep(o)
<1>1. CASE Nack(o)
  BY <1>1, NackIsGood
<1>2. /\ Admits /\ org[o].step \in AdmissionSteps /\ org[o].next = 1
  BY BusyFacts DEF Admit, Reclaim, Validate, ValidateRead, StartPlanning,
     PlanningRead, At, InPhase, HasPlanned, AdmissionSteps
<1>3. ASSUME NEW s \in AdmissionSteps, Goto(o, s) PROVE GoodStep(o)
  <2>1. s \in Steps \ {"idle", "send", "checkpoint", "mark"}
        /\ s \notin SealedSteps \cup {"planJob", "planChunk"}
    BY DEF AdmissionSteps, Steps, Admitted, SealedSteps
  <2> QED BY <1>2, <1>3, <2>1, GotoIsGood
<1>4. ASSUME Goto(o, "planJob"), job'.status = "PLANNING" PROVE GoodStep(o)
  <2>1. "planJob" \in Steps \ {"idle", "send", "checkpoint", "mark"}
        /\ "planJob" \notin SealedSteps \cup {"planChunk"}
    BY DEF Steps, Admitted, SealedSteps
  <2> QED BY <1>2, <1>4, <2>1, GotoIsGood
<1>5. CASE Admit(o) \/ Reclaim(o) \/ Validate(o) \/ ValidateRead(o)
  BY <1>1, <1>3, <1>5 DEF Admit, Reclaim, Validate, ValidateRead, Fails,
     AdmissionSteps
<1>6. CASE StartPlanning(o)
  <2>1. job \in JobItem
    BY BusyFacts DEF LedgerInv, LedgerTypeOK
  <2>2. BeginPlanning => job'.status = "PLANNING"
    BY <2>1 DEF BeginPlanning, AdvanceJob, JobItem
  <2> QED BY <1>1, <1>3, <1>4, <1>6, <2>2 DEF StartPlanning, Fails, AdmissionSteps
<1>7. CASE PlanningRead(o)
  BY <1>1, <1>4, <1>7 DEF PlanningRead, NoLedgerChange, ledgerVars
<1> QED BY <1>5, <1>6, <1>7

(* A terminal job has nothing left to publish.                              *)
LEMMA AdmitReadIsGood ==
  ASSUME NEW o \in Invocations, Busy(o), AdmitRead(o), sent' = sent
  PROVE  GoodStep(o)
<1>1. CASE Nack(o)
  BY <1>1, NackIsGood
<1>2. CASE Goto(o, "reclaim")
  <2>1. Admits /\ org[o].next = 1
    BY BusyFacts DEF AdmitRead, At, InPhase, HasPlanned, AdmissionSteps
  <2>2. "reclaim" \in Steps \ {"idle", "send", "checkpoint", "mark"}
        /\ "reclaim" \notin SealedSteps \cup {"planJob", "planChunk"}
    BY DEF Steps, Admitted, SealedSteps
  <2> QED BY <1>2, <2>1, <2>2, GotoIsGood
<1>3. CASE job.status \in TerminalJob /\ Ack(o)
  <2>1. TerminalIsSettled
    BY BusyFacts, SettledFromInv
  <2>2. StartedIsSent
    BY DEF Busy, IntakeInv
  <2>3. job.sealed /\ \A c \in Planned : chunk[c].status \in TerminalChunk
    BY <1>3, <2>1, <2>2 DEF TerminalIsSettled, StartedIsSent
  <2>4. \A c \in 1..job.expected : sent[c] > 0
    BY <2>2, <2>3, SealedPlanStays DEF StartedIsSent, Planned, Busy
  <2>5. AllSent'
    BY <2>3, <2>4, SealedPlanStays DEF AllSent, Busy
  <2> QED BY <1>3, <2>5, AckIsGood
<1> QED BY <1>1, <1>2, <1>3 DEF AdmitRead

LEMMA PlanTheJobIsGood ==
  ASSUME NEW o \in Invocations, Busy(o), PlanTheJob(o) PROVE GoodStep(o)
<1>1. CASE Nack(o)
  BY <1>1, NackIsGood
<1>2. CASE PlanJob(org[o].cfg) /\ Goto(o, "planChunk")
  <2>1. /\ org[o].next = 1
        /\ Admits => job.status \notin {"ABSENT", "RECEIVED", "VALIDATING"}
    BY BusyFacts DEF PlanTheJob, At, HasPlanned, InPhase
  <2>2. /\ job'.planned /\ job'.expected = ChunkCount[org[o].cfg]
        /\ Admits => job'.status \notin {"ABSENT", "RECEIVED", "VALIDATING"}
    <3>1. job \in JobItem
      BY BusyFacts DEF LedgerInv, LedgerTypeOK
    <3>2. job'.planned /\ job'.expected = ChunkCount[org[o].cfg]
      BY <1>2, <3>1 DEF PlanJob, JobItem
    <3>3. Admits => job'.status \notin {"ABSENT", "RECEIVED", "VALIDATING"}
      BY <2>1, BusyFacts DEF Grows, Kept
    <3> QED BY <3>2, <3>3
  <2>3. "planChunk" \in Steps \ {"idle", "send", "checkpoint", "mark"}
        /\ "planChunk" \notin SealedSteps \cup AdmissionSteps
    BY DEF Steps, Admitted, SealedSteps, AdmissionSteps
  <2> QED BY <1>2, <2>1, <2>2, <2>3, GotoIsGood
<1> QED BY <1>1, <1>2 DEF PlanTheJob, Fails

LEMMA PlanAChunkIsGood ==
  ASSUME NEW o \in Invocations, Busy(o), PlanAChunk(o) PROVE GoodStep(o)
<1>1. CASE Nack(o)
  BY <1>1, NackIsGood
<1> DEFINE k == org[o].cfg
           n == org[o].next
<1>2. CASE /\ PlanChunk(k, n) /\ notice' = notice
           /\ org' = [org EXCEPT ![o].next = n + 1]
  <2>1. /\ org[o].step = "planChunk" /\ job.planned /\ job.expected = ChunkCount[k]
        /\ n \in 1..(ChunkCount[k] + 1) /\ n # ChunkCount[k] + 1
        /\ \A c \in 1..(n - 1) : chunk[c].status # "ABSENT" /\ CanPlanChunk(k, c)
    BY BusyFacts DEF PlanAChunk, At, AllPlanned, HasPlanned
  <2>2. ChunkCount[k] \in 0..MaxChunks /\ MaxChunks \in Nat
    BY BusyFacts, LedgerConstants
  <2>3. n \in 1..ChunkCount[k] /\ n \in Chunks /\ n + 1 \in 1..(MaxChunks + 1)
    BY <2>1, <2>2 DEF Chunks
  <2>4. /\ org'[o] = [org[o] EXCEPT !.next = n + 1]
        /\ org' = [org EXCEPT ![o] = org'[o]]
    BY <1>2, BusyFacts
  <2>5. org'[o] \in Invocation
    BY <2>3, <2>4, BusyFacts DEF Invocation
  <2>6. /\ org'[o].step = "planChunk" /\ org'[o].next = n + 1
        /\ org'[o].msg = org[o].msg /\ org'[o].cfg = org[o].cfg
        /\ org'[o].batch = org[o].batch /\ org'[o].confirmed = org[o].confirmed
    BY <2>1, <2>4, BusyFacts DEF Invocation
  <2>7. chunk \in [Chunks -> ChunkItem]
    BY BusyFacts DEF LedgerInv, LedgerTypeOK
  <2>8. chunk'[n].status # "ABSENT" /\ RangeOf[chunk'[n].cfg] = RangeOf[k]
    <3>1. CASE chunk[n].status # "ABSENT"
      BY <1>2, <3>1 DEF PlanChunk, CanPlanChunk
    <3>2. CASE chunk[n].status = "ABSENT"
      <4>1. chunk'[n] = [chunk[n] EXCEPT !.status = "PENDING", !.cfg = k]
        BY <1>2, <2>3, <2>7, <3>2 DEF PlanChunk
      <4>2. chunk'[n].status = "PENDING" /\ chunk'[n].cfg = k
        BY <2>3, <2>7, <4>1 DEF ChunkItem
      <4> QED BY <4>2
    <3> QED BY <3>1, <3>2
  <2>9. ASSUME NEW c \in 1..n
        PROVE  chunk'[c].status # "ABSENT" /\ RangeOf[chunk'[c].cfg] = RangeOf[k]
    <3>1. CASE c = n
      BY <2>8, <3>1
    <3>2. CASE c # n
      <4>1. c \in 1..(n - 1) /\ c \in Chunks
        BY <2>3, <3>2, <2>2 DEF Chunks
      <4>2. chunk[c].status # "ABSENT" /\ RangeOf[chunk[c].cfg] = RangeOf[k]
        BY <2>1, <4>1 DEF CanPlanChunk
      <4> QED BY <4>1, <4>2, BusyFacts DEF Grows, Kept
    <3> QED BY <3>1, <3>2
  <2>10. InPhase(org[o])'
    BY <2>1, <2>6, BusyFacts DEF InPhase, AdmissionSteps, Grows, Kept
  <2>11. HasPlanned(org[o])'
    <3>1. job'.planned /\ job'.expected = ChunkCount[k]
      BY <2>1, BusyFacts DEF Grows, Kept
    <3>2. n + 1 \in 1..(ChunkCount[k] + 1) /\ (n + 1) - 1 = n
      BY <2>2, <2>3
    <3> QED BY <2>6, <2>9, <3>1, <3>2 DEF HasPlanned, AdmissionSteps, SealedSteps,
               CanPlanChunk
  <2>12. HasSent(org[o])'
    BY <2>1, <2>6, BusyFacts DEF HasSent, Grows, Invocation
  <2> QED BY <1>2, <2>4, <2>5, <2>10, <2>11, <2>12 DEF GoodStep, Fit
<1> QED BY <1>1, <1>2 DEF PlanAChunk, Fails

(* A manifest that is complete but cannot be sealed is sealed already.      *)
LEMMA SealIsGood ==
  ASSUME NEW o \in Invocations, Busy(o), Seal(o) PROVE GoodStep(o)
<1>1. CASE Nack(o)
  BY <1>1, NackIsGood
<1>2. CASE /\ SealManifest(org[o].cfg) \/ ~CanSeal(org[o].cfg)
           /\ Goto(o, "load")
  <2>1. job.planned /\ job.expected = ChunkCount[org[o].cfg]
    BY BusyFacts DEF Seal, At, HasPlanned
  <2>2. job'.sealed
    <3>1. CASE job.sealed
      BY <3>1, BusyFacts DEF Grows, Kept
    <3>2. CASE ~job.sealed
      <4>1. SealManifest(org[o].cfg)
        BY <1>2, <2>1, <3>2 DEF CanSeal
      <4>2. job \in JobItem
        BY BusyFacts DEF LedgerInv, LedgerTypeOK
      <4> QED BY <4>1, <4>2 DEF SealManifest, JobItem
    <3> QED BY <3>1, <3>2
  <2>3. "load" \in Steps \ {"idle", "send", "checkpoint", "mark"}
        /\ "load" \notin AdmissionSteps \cup {"planJob", "planChunk"}
    BY DEF Steps, Admitted, AdmissionSteps
  <2> QED BY <1>2, <2>2, <2>3, GotoIsGood
<1>3. \/ SealManifest(org[o].cfg) /\ Goto(o, "load")
      \/ ~CanSeal(org[o].cfg) /\ Goto(o, "load")
      \/ Nack(o)
  BY DEF Seal, Fails
<1> QED BY <1>1, <1>2, <1>3

-----------------------------------------------------------------------------
(* Sending.  A batch takes no more than BatchSize chunks: each has fewer    *)
(* than BatchSize before it, and no two have the same number.               *)
LEMMA NextBatchFits ==
  ASSUME NEW todo \in SUBSET Chunks
  PROVE  /\ NextBatch(todo) \subseteq todo
         /\ Cardinality(NextBatch(todo)) <= BatchSize
<1> DEFINE Before(c) == { d \in todo : d < c }
           rank == [c \in NextBatch(todo) |-> Cardinality(Before(c))]
<1>1. NextBatch(todo) \subseteq todo
  BY DEF NextBatch
<1>2. Chunks \subseteq Int /\ IsFiniteSet(todo)
  <2>1. MaxChunks \in Int
    BY LedgerConstants
  <2>2. IsFiniteSet(Chunks)
    BY <2>1, FS_Interval DEF Chunks
  <2>3. Chunks \subseteq Int
    BY <2>1 DEF Chunks
  <2> QED BY <2>2, <2>3, FS_Subset
<1>a. \A c, d : d \in Before(c) <=> d \in todo /\ d < c
  OBVIOUS
<1>b. \A c \in NextBatch(todo) : Cardinality(Before(c)) < BatchSize
  BY DEF NextBatch
<1> HIDE DEF Before
<1>3. \A c \in Chunks : IsFiniteSet(Before(c)) /\ Cardinality(Before(c)) \in Nat
  <2>1. ASSUME NEW c \in Chunks
        PROVE  IsFiniteSet(Before(c)) /\ Cardinality(Before(c)) \in Nat
    <3>1. Before(c) \in SUBSET todo
      BY <1>a
    <3>2. IsFiniteSet(Before(c))
      BY <1>2, <3>1, FS_Subset
    <3> QED BY <3>2, FS_CardinalityType
  <2> QED BY <2>1
<1>4. ASSUME NEW c \in NextBatch(todo), NEW d \in NextBatch(todo), c < d
      PROVE  Cardinality(Before(c)) # Cardinality(Before(d))
  <2>1. c \in Int /\ d \in Int /\ d \in Chunks /\ todo \subseteq Int
    BY <1>1, <1>2
  <2>2. Before(c) \in SUBSET Before(d) /\ c \in Before(d) /\ c \notin Before(c)
    <3>1. ASSUME NEW e \in Before(c) PROVE e \in Before(d)
      <4>1. e \in todo /\ e \in Int /\ e < c
        BY <1>a, <2>1, <3>1
      <4>2. e < d
        BY <1>4, <2>1, <4>1
      <4> QED BY <1>a, <4>1, <4>2
    <3>2. c \in todo /\ ~(c < c)
      BY <1>1, <2>1
    <3> QED BY <1>a, <1>4, <3>1, <3>2
  <2>3. IsFiniteSet(Before(d))
    BY <1>3, <2>1
  <2>4. Before(c) # Before(d)
    BY <2>2
  <2> QED BY <2>2, <2>3, <2>4, FS_Subset
<1>5. rank \in Injection(NextBatch(todo), 0..(BatchSize - 1))
  <2>1. \A c \in NextBatch(todo) : Cardinality(Before(c)) \in 0..(BatchSize - 1)
    BY <1>1, <1>3, <1>b, IntakeConstants
  <2>2. rank \in [NextBatch(todo) -> 0..(BatchSize - 1)]
    BY <2>1
  <2>3. ASSUME NEW c \in NextBatch(todo), NEW d \in NextBatch(todo),
               rank[c] = rank[d]
        PROVE  c = d
    <3>1. c \in Int /\ d \in Int
      BY <1>1, <1>2
    <3>2. ~(c < d) /\ ~(d < c)
      BY <1>4, <2>3
    <3> QED BY <3>1, <3>2
  <2> QED BY <2>2, <2>3 DEF Injection, IsInjective
<1>6. IsFiniteSet(0..(BatchSize - 1)) /\ Cardinality(0..(BatchSize - 1)) = BatchSize
  BY FS_Interval, IntakeConstants
<1>7. Cardinality(NextBatch(todo)) <= BatchSize
  BY <1>5, <1>6, FS_Injection
<1> QED BY <1>1, <1>7

LEMMA NextFlushFields ==
  ASSUME NEW r \in Invocation, NEW todo \in SUBSET Chunks,
         NEW q, q = NextFlush(r, todo)
  PROVE  /\ q \in Invocation
         /\ q.step = IF todo = {} THEN "mark" ELSE "send"
         /\ q.todo = todo \ NextBatch(todo) /\ q.batch = NextBatch(todo)
         /\ q.confirmed = {} /\ q.tries = 0
         /\ q.msg = r.msg /\ q.cfg = r.cfg
<1> DEFINE s == IF todo = {} THEN "mark" ELSE "send"
<1>1. NextBatch(todo) \in SUBSET Chunks
  BY NextBatchFits
<1>2. s \in Steps /\ 0 \in 0..MaxTries
  BY DEF Steps, Admitted, MaxTries
<1>3. ASSUME NEW b \in SUBSET Chunks, NEW t \in Steps,
             q = [r EXCEPT !.step = t, !.todo = todo \ b, !.batch = b,
                           !.confirmed = {}, !.tries = 0]
      PROVE  /\ q \in Invocation
             /\ q.step = t /\ q.todo = todo \ b /\ q.batch = b
             /\ q.confirmed = {} /\ q.tries = 0
             /\ q.msg = r.msg /\ q.cfg = r.cfg
  BY <1>2, <1>3 DEF Invocation
<1> QED BY <1>1, <1>2, <1>3 DEF NextFlush

(* The next batch is sent, or there is none and everything was.             *)
LEMMA FlushIsGood ==
  ASSUME NEW o \in Invocations, Busy(o), NEW todo \in SUBSET Chunks, job.sealed,
         \A c \in Planned : sent[c] > 0 \/ c \in todo,
         org' = [org EXCEPT ![o] = NextFlush(org[o], todo)], notice' = notice
  PROVE  GoodStep(o)
<1>1. org'[o] = NextFlush(org[o], todo) /\ org' = [org EXCEPT ![o] = org'[o]]
  BY BusyFacts
<1>2. /\ org'[o] \in Invocation
      /\ org'[o].step = IF todo = {} THEN "mark" ELSE "send"
      /\ org'[o].todo = todo \ NextBatch(todo) /\ org'[o].batch = NextBatch(todo)
      /\ org'[o].confirmed = {} /\ org'[o].tries = 0
      /\ org'[o].msg = org[o].msg /\ org'[o].cfg = org[o].cfg
  BY <1>1, BusyFacts, NextFlushFields
<1>3. InPhase(org[o])'
  BY <1>2, BusyFacts DEF InPhase, AdmissionSteps
<1>4. HasPlanned(org[o])'
  BY <1>2, SealedPlanStays DEF HasPlanned, AdmissionSteps, Busy
<1>5. HasSent(org[o])'
  <2>1. Planned' = Planned /\ Planned \subseteq Chunks
    BY SealedPlanStays DEF Busy, Planned
  <2>2. \A c \in Planned : sent'[c] > 0 \/ c \in todo
    BY <2>1, BusyFacts DEF Grows
  <2>3. /\ NextBatch(todo) \subseteq todo
        /\ Cardinality(NextBatch(todo)) <= BatchSize
    BY NextBatchFits
  <2>4. 0 < MaxTries
    BY DEF MaxTries
  <2> QED BY <1>2, <2>1, <2>2, <2>3, <2>4 DEF HasSent
<1> QED BY <1>1, <1>2, <1>3, <1>4, <1>5 DEF GoodStep, Fit

LEMMA LoadIsGood ==
  ASSUME NEW o \in Invocations, Busy(o), Load(o) PROVE GoodStep(o)
<1>1. CASE Nack(o)
  BY <1>1, NackIsGood
<1>2. CASE /\ org' = [org EXCEPT ![o] = NextFlush(org[o], UnscheduledChunks)]
           /\ notice' = notice
  <2>1. job.sealed
    BY BusyFacts DEF Load, At, HasPlanned, SealedSteps
  <2>2. UnscheduledChunks \in SUBSET Chunks
    BY DEF UnscheduledChunks
  <2>3. \A c \in Planned : sent[c] > 0 \/ c \in UnscheduledChunks
    BY DEF Busy, IntakeInv, CheckpointsAreSent, Planned, UnscheduledChunks
  <2> QED BY <1>2, <2>1, <2>2, <2>3, FlushIsGood
<1> QED BY <1>1, <1>2 DEF Load

(* One flush.  What the answer confirmed is in the queue; what it did not   *)
(* name is still in the batch, until the batch is given up.                 *)
LEMMA MidFlushIsGood ==
  ASSUME NEW o \in Invocations, Busy(o), job.sealed, notice' = notice,
         NEW q \in Invocation, org' = [org EXCEPT ![o] = q],
         q.msg = org[o].msg, q.cfg = org[o].cfg,
         q.step \in {"send", "checkpoint", "markFailed"},
         \A c \in q.confirmed : sent'[c] > 0,
         q.step # "markFailed" =>
           \A c \in Planned : sent'[c] > 0 \/ c \in q.todo \cup q.batch,
         q.step = "send" => q.tries < MaxTries,
         Cardinality(q.batch) <= BatchSize
  PROVE  GoodStep(o)
<1>1. org'[o] = q /\ org' = [org EXCEPT ![o] = org'[o]]
  BY BusyFacts
<1>2. InPhase(org[o])'
  BY <1>1, BusyFacts DEF InPhase, AdmissionSteps
<1>3. HasPlanned(org[o])'
  BY <1>1, SealedPlanStays DEF HasPlanned, AdmissionSteps, Busy
<1>4. HasSent(org[o])'
  BY <1>1, SealedPlanStays DEF HasSent, Busy
<1> QED BY <1>1, <1>2, <1>3, <1>4 DEF GoodStep, Fit

LEMMA Delivered ==
  ASSUME sent \in [Chunks -> Nat], NEW S, Deliver(S)
  PROVE  /\ sent' \in [Chunks -> Nat]
         /\ \A c \in Chunks : /\ sent'[c] > 0 <=> sent[c] > 0 \/ c \in S
                              /\ sent[c] > 0 => sent'[c] > 0
<1>1. \A c \in Chunks : sent'[c] = sent[c] + IF c \in S THEN 1 ELSE 0
  BY DEF Deliver
<1>2. sent' \in [Chunks -> Nat]
  BY DEF Deliver
<1>3. ASSUME NEW c \in Chunks
      PROVE  /\ sent'[c] > 0 <=> sent[c] > 0 \/ c \in S
             /\ sent[c] > 0 => sent'[c] > 0
  <2>1. sent[c] \in Nat
    OBVIOUS
  <2>2. CASE c \in S
    <3>1. sent'[c] = sent[c] + 1
      BY <1>1, <2>2
    <3> QED BY <2>1, <2>2, <3>1
  <2>3. CASE c \notin S
    <3>1. sent'[c] = sent[c] + 0
      BY <1>1, <2>3
    <3> QED BY <2>1, <2>3, <3>1
  <2> QED BY <2>2, <2>3
<1> QED BY <1>2, <1>3

LEMMA SendIsGood ==
  ASSUME NEW o \in Invocations, Busy(o), Send(o) PROVE GoodStep(o)
<1> DEFINE r == org[o]
<1>1. /\ r.step = "send" /\ notice' = notice /\ r \in Invocation
      /\ r.batch \subseteq Chunks /\ Cardinality(r.batch) <= BatchSize
      /\ r.tries \in 0..MaxTries /\ r.tries + 1 \in 0..MaxTries /\ job.sealed
      /\ \A c \in Planned : sent[c] > 0 \/ c \in r.todo \cup r.batch
  BY BusyFacts DEF Send, At, Invocation, HasPlanned, HasSent, SealedSteps, MaxTries
<1>2. sent \in [Chunks -> Nat] /\ Planned \subseteq Chunks
  BY DEF Busy, IntakeInv, IntakeTypeOK, Planned
<1>3. CASE SentAll(o)
  <2>1. PICK q : q = [r EXCEPT !.step = "checkpoint", !.batch = {},
                               !.confirmed = r.batch]
    OBVIOUS
  <2>2. /\ q \in Invocation /\ q.step = "checkpoint" /\ q.msg = r.msg
        /\ q.cfg = r.cfg /\ q.todo = r.todo /\ q.batch = {} /\ q.confirmed = r.batch
    BY <1>1, <2>1 DEF Invocation, Steps, Admitted
  <2>3. org' = [org EXCEPT ![o] = q] /\ Deliver(r.batch)
    BY <1>3, <2>1, BusyFacts DEF SentAll
  <2>4. Cardinality({}) <= BatchSize
    BY FS_EmptySet, IntakeConstants
  <2>5. \A c \in Chunks : (sent[c] > 0 \/ c \in r.batch) => sent'[c] > 0
    BY <1>2, <2>3, Delivered
  <2> QED BY <1>1, <1>2, <2>2, <2>3, <2>4, <2>5, MidFlushIsGood
<1>4. ASSUME NEW F \in SUBSET r.batch, SentSome(o, F) PROVE GoodStep(o)
  <2>1. PICK q : q = [r EXCEPT !.step = "checkpoint", !.batch = F,
                               !.confirmed = r.batch \ F, !.tries = r.tries + 1]
    OBVIOUS
  <2>2. /\ q \in Invocation /\ q.step = "checkpoint" /\ q.msg = r.msg
        /\ q.cfg = r.cfg /\ q.todo = r.todo /\ q.batch = F
        /\ q.confirmed = r.batch \ F
    BY <1>1, <2>1 DEF Invocation, Steps, Admitted
  <2>3. org' = [org EXCEPT ![o] = q] /\ Deliver(r.batch \ F)
    BY <1>4, <2>1, BusyFacts DEF SentSome
  <2>4. Cardinality(F) <= BatchSize
    <3>1. IsFiniteSet(Chunks)
      BY FS_Interval, LedgerConstants DEF Chunks
    <3>2. IsFiniteSet(r.batch)
      BY <1>1, <3>1, FS_Subset
    <3>3. /\ IsFiniteSet(F) /\ Cardinality(F) <= Cardinality(r.batch)
      BY <3>2, FS_Subset
    <3>4. Cardinality(F) \in Nat /\ Cardinality(r.batch) \in Nat
      BY <3>2, <3>3, FS_CardinalityType
    <3> QED BY <1>1, <3>3, <3>4, IntakeConstants
  <2>5. \A c \in Chunks : (sent[c] > 0 \/ c \in r.batch \ F) => sent'[c] > 0
    BY <1>2, <2>3, Delivered
  <2> QED BY <1>1, <1>2, <2>2, <2>3, <2>4, <2>5, MidFlushIsGood
<1>5. CASE SendError(o)
  <2>1. PICK t : t = IF r.tries + 1 = MaxTries THEN "markFailed" ELSE "send"
    OBVIOUS
  <2>a. /\ t \in {"send", "markFailed"} /\ t \in Steps
        /\ t = "send" => r.tries + 1 < MaxTries
    BY <1>1, <2>1 DEF Steps, Admitted, MaxTries
  <2>2. PICK q : q = [r EXCEPT !.tries = r.tries + 1, !.step = t]
    OBVIOUS
  <2>3. /\ q \in Invocation /\ q.step = t /\ q.msg = r.msg /\ q.cfg = r.cfg
        /\ q.todo = r.todo /\ q.batch = r.batch /\ q.confirmed = r.confirmed
        /\ q.tries = r.tries + 1
    BY <1>1, <2>a, <2>2 DEF Invocation
  <2>4. org' = [org EXCEPT ![o] = q]
    BY <1>5, <2>1, <2>2, BusyFacts DEF SendError
  <2>5. \A c \in Chunks : sent[c] > 0 => sent'[c] > 0
    BY BusyFacts DEF Grows
  <2>6. \A c \in r.confirmed : sent'[c] > 0
    BY <2>5, BusyFacts DEF HasSent, Invocation
  <2> QED BY <1>1, <1>2, <2>a, <2>3, <2>4, <2>5, <2>6, MidFlushIsGood
<1> QED BY <1>3, <1>4, <1>5 DEF Send

LEMMA CheckpointIsGood ==
  ASSUME NEW o \in Invocations, Busy(o), Checkpoint(o) PROVE GoodStep(o)
<1> DEFINE r == org[o]
<1>1. /\ r.step = "checkpoint" /\ notice' = notice /\ r \in Invocation
      /\ job.sealed /\ Cardinality(r.batch) <= BatchSize
      /\ \A c \in Planned : sent[c] > 0 \/ c \in r.todo \cup r.batch
      /\ \A c \in r.confirmed : c \in Chunks /\ sent[c] > 0
  BY BusyFacts DEF Checkpoint, At, Invocation, HasPlanned, HasSent, SealedSteps
<1>2. Planned \subseteq Chunks /\ \A c \in Chunks : sent[c] > 0 => sent'[c] > 0
  BY BusyFacts DEF Grows, Planned
<1>3. ASSUME NEW c \in r.confirmed,
             org' = [org EXCEPT ![o].confirmed = @ \ {c}]
      PROVE  GoodStep(o)
  <2>1. PICK q : q = [r EXCEPT !.confirmed = r.confirmed \ {c}]
    OBVIOUS
  <2>2. /\ q \in Invocation /\ q.step = "checkpoint" /\ q.msg = r.msg
        /\ q.cfg = r.cfg /\ q.todo = r.todo /\ q.batch = r.batch
        /\ q.confirmed = r.confirmed \ {c}
    BY <1>1, <2>1 DEF Invocation
  <2>3. org' = [org EXCEPT ![o] = q]
    BY <1>3, <2>1, BusyFacts
  <2> QED BY <1>1, <1>2, <2>2, <2>3, MidFlushIsGood
<1>4. CASE org' = [org EXCEPT ![o].step = "markFailed"]
  <2>1. PICK q : q = [r EXCEPT !.step = "markFailed"]
    OBVIOUS
  <2>2. /\ q \in Invocation /\ q.step = "markFailed" /\ q.msg = r.msg
        /\ q.cfg = r.cfg /\ q.batch = r.batch /\ q.confirmed = r.confirmed
    BY <1>1, <2>1 DEF Invocation, Steps, Admitted
  <2>3. org' = [org EXCEPT ![o] = q]
    BY <1>4, <2>1, BusyFacts
  <2> QED BY <1>1, <1>2, <2>2, <2>3, MidFlushIsGood
<1> QED BY <1>3, <1>4 DEF Checkpoint

LEMMA CheckpointedIsGood ==
  ASSUME NEW o \in Invocations, Busy(o), Checkpointed(o) PROVE GoodStep(o)
<1> DEFINE r == org[o]
<1>1. /\ r.step = "checkpoint" /\ notice' = notice /\ r \in Invocation
      /\ job.sealed /\ Cardinality(r.batch) <= BatchSize /\ r.confirmed = {}
      /\ r.todo \in SUBSET Chunks /\ r.tries \in 0..MaxTries
      /\ \A c \in Planned : sent[c] > 0 \/ c \in r.todo \cup r.batch
  BY BusyFacts DEF Checkpointed, At, Invocation, HasPlanned, HasSent, SealedSteps
<1>2. Planned \subseteq Chunks /\ \A c \in Chunks : sent[c] > 0 => sent'[c] > 0
  BY BusyFacts DEF Grows, Planned
<1>3. CASE r.batch = {}
  <2>1. PICK q : q = NextFlush(r, r.todo)
    OBVIOUS
  <2>2. org' = [org EXCEPT ![o] = q]
    BY <1>3, <2>1, BusyFacts DEF Checkpointed
  <2> QED BY <1>1, <1>3, <2>1, <2>2, FlushIsGood
<1>4. CASE r.batch # {}
  <2>1. PICK t : t = IF r.tries = MaxTries THEN "markFailed" ELSE "send"
    OBVIOUS
  <2>2. PICK q : q = [r EXCEPT !.step = t]
    OBVIOUS
  <2>3. /\ q \in Invocation /\ q.step = t /\ q.msg = r.msg /\ q.cfg = r.cfg
        /\ q.todo = r.todo /\ q.batch = r.batch /\ q.confirmed = {}
        /\ t \in {"send", "markFailed"}
        /\ t = "send" => q.tries < MaxTries
    BY <1>1, <2>1, <2>2 DEF Invocation, Steps, Admitted, MaxTries
  <2>4. org' = [org EXCEPT ![o] = q]
    BY <1>4, <2>1, <2>2, BusyFacts DEF Checkpointed
  <2> QED BY <1>1, <1>2, <2>3, <2>4, MidFlushIsGood
<1> QED BY <1>3, <1>4

LEMMA MarkIsGood ==
  ASSUME NEW o \in Invocations, Busy(o), Mark(o) \/ MarkFailed(o), sent' = sent
  PROVE  GoodStep(o)
<1>1. CASE Nack(o)
  BY <1>1, NackIsGood
<1>2. CASE Mark(o) /\ Ack(o)
  <2>1. /\ job.sealed /\ \A c \in Planned : sent[c] > 0
    BY <1>2, BusyFacts DEF Mark, At, HasPlanned, HasSent, SealedSteps
  <2>2. AllSent'
    BY <2>1, SealedPlanStays DEF AllSent, Busy
  <2> QED BY <1>2, <2>2, AckIsGood
<1> QED BY <1>1, <1>2 DEF Mark, MarkFailed, Fails

LEMMA OrganizerIsGood ==
  ASSUME IntakeInv, Grows, NEW o \in Invocations, OrganizerStep(o) \/ Crash(o)
  PROVE  GoodStep(o)
<1>1. Busy(o)
  BY DEF Busy, OrganizerStep, Admit, AdmitRead, Reclaim, Validate, ValidateRead,
     StartPlanning, PlanningRead, PlanTheJob, PlanAChunk, Seal, Load, Send,
     Checkpoint, Checkpointed, Mark, MarkFailed, Crash, At
<1>2. CASE Crash(o)
  BY <1>1, <1>2, NackIsGood DEF Crash
<1>3. CASE \/ Admit(o) \/ Reclaim(o) \/ Validate(o) \/ ValidateRead(o)
           \/ StartPlanning(o) \/ PlanningRead(o) \/ PlanTheJob(o)
           \/ PlanAChunk(o) \/ Seal(o)
  BY <1>1, <1>3, AdmissionIsGood, PlanTheJobIsGood, PlanAChunkIsGood, SealIsGood
<1>4. CASE AdmitRead(o) \/ Mark(o) \/ MarkFailed(o)
  <2>1. sent' = sent
    BY <1>4 DEF AdmitRead, Mark, MarkFailed
  <2> QED BY <1>1, <1>4, <2>1, AdmitReadIsGood, MarkIsGood
<1>5. CASE Load(o) \/ Send(o) \/ Checkpoint(o) \/ Checkpointed(o)
  BY <1>1, <1>5, LoadIsGood, SendIsGood, CheckpointIsGood, CheckpointedIsGood
<1> QED BY <1>2, <1>3, <1>4, <1>5 DEF OrganizerStep

(* A delivery starts a fresh invocation.                                    *)
LEMMA ReceiveIsFit ==
  ASSUME IntakeInv, Grows, NEW o \in Invocations, NEW m \in Notices, Receive(o, m)
  PROVE  /\ org' = [org EXCEPT ![o] = org'[o]]
         /\ org'[o] \in Invocation
         /\ Fit(org[o])'
<1>1. /\ org \in [Invocations -> Invocation] /\ current \in Configs
      /\ At(o, "idle") /\ job' = job
      /\ ~Admits => job.status \notin {"RECEIVED", "VALIDATING"}
  BY DEF IntakeInv, IntakeTypeOK, StartedIsSent, Receive, NoLedgerChange, ledgerVars
<1>2. PICK s : s = IF Admits THEN "admit" ELSE "planJob"
  OBVIOUS
<1>3. PICK q : q = [Idle EXCEPT !.step = s, !.msg = m, !.cfg = current]
  OBVIOUS
<1>4. org'[o] = q /\ org' = [org EXCEPT ![o] = org'[o]]
  BY <1>1, <1>2, <1>3 DEF Receive
<1>5. s \in Steps /\ s \in {"admit", "planJob"} /\ (s = "admit" <=> Admits)
  BY <1>2, IntakeConstants DEF Steps, Admitted
<1>6. /\ q \in Invocation /\ q.step = s /\ q.msg = m /\ q.cfg = current
      /\ q.next = 1 /\ q.confirmed = {} /\ q.batch = {}
  <2>1. Idle \in Invocation /\ Idle.next = 1 /\ Idle.confirmed = {} /\ Idle.batch = {}
    BY LedgerConstants DEF Idle, Invocation, Steps, MaxTries
  <2> QED BY <1>1, <1>3, <1>5, <2>1 DEF Invocation
<1>7. Cardinality({}) <= BatchSize
  BY FS_EmptySet, IntakeConstants
<1>8. Fit(org[o])'
  BY <1>1, <1>4, <1>5, <1>6, <1>7 DEF Fit, InPhase, HasPlanned, HasSent,
     AdmissionSteps, SealedSteps
<1> QED BY <1>4, <1>6, <1>8

-----------------------------------------------------------------------------
(* What a step may write to the job and its chunks.                         *)
Write ==
  \/ job' = job /\ chunk' = chunk
  \/ Admits /\ (BeginValidation \/ \E k : AdmitPut(k))
  \/ LeaseExpires \/ ReclaimLease \/ BeginPlanning \/ MarkSchedulingFailed
  \/ \E k : PlanJob(k) \/ SealManifest(k) \/ \E c : PlanChunk(k, c)
  \/ \E c \in Chunks : sent[c] > 0 /\ CheckpointChunk(c)
  \/ MarkScheduled /\ \A c \in Planned : sent[c] > 0
  \/ \E c \in Chunks, a \in Attempts : sent[c] > 0 /\
       (StartChunk(c, a) \/ RetryChunk(c, a) \/ FailChunk(c, a)
        \/ \E n : CompleteChunk(c, a, n))
  \/ \E w \in Callers : FinalizeJob(w)

LEMMA OrganizerWrite ==
  ASSUME IntakeInv, NEW o \in Invocations, OrganizerStep(o) \/ Crash(o) PROVE Write
<1>a. InPhase(org[o]) /\ HasSent(org[o]) /\ org[o] \in Invocation
  BY DEF IntakeInv, IntakeTypeOK, Fit
<1>1. CASE Admit(o) \/ Validate(o)
  <2>1. Admits
    BY <1>a, <1>1 DEF Admit, Validate, At, InPhase, AdmissionSteps
  <2> QED BY <1>1, <2>1 DEF Admit, Validate, Fails, NoLedgerChange, ledgerVars, Write
<1>2. CASE Reclaim(o) \/ StartPlanning(o) \/ MarkFailed(o)
  BY <1>2 DEF Reclaim, StartPlanning, MarkFailed, Fails, NoLedgerChange,
     ledgerVars, Write
<1>3. CASE PlanTheJob(o) \/ PlanAChunk(o) \/ Seal(o)
  BY <1>3 DEF PlanTheJob, PlanAChunk, Seal, Fails, NoLedgerChange, ledgerVars, Write
<1>4. CASE Checkpoint(o)
  <2>1. \A c \in org[o].confirmed : c \in Chunks /\ sent[c] > 0
    BY <1>a DEF HasSent, Invocation
  <2> QED BY <1>4, <2>1 DEF Checkpoint, NoLedgerChange, ledgerVars, Write
<1>5. CASE Mark(o)
  <2>1. \A c \in Planned : sent[c] > 0
    BY <1>a, <1>5 DEF Mark, At, HasSent
  <2> QED BY <1>5, <2>1 DEF Mark, Fails, NoLedgerChange, ledgerVars, Write
<1>6. CASE \/ AdmitRead(o) \/ ValidateRead(o) \/ PlanningRead(o) \/ Load(o)
           \/ Send(o) \/ Checkpointed(o) \/ Crash(o)
  <2>1. job' = job /\ chunk' = chunk
    BY <1>6 DEF AdmitRead, ValidateRead, PlanningRead, Load, Send, Checkpointed,
       Crash, NoLedgerChange, ledgerVars
  <2> QED BY <2>1 DEF Write
<1> QED BY <1>1, <1>2, <1>3, <1>4, <1>5, <1>6 DEF OrganizerStep

LEMMA EveryWrite == IntakeInv /\ [Next]_vars => Write
<1> SUFFICES ASSUME IntakeInv, [Next]_vars PROVE Write
  OBVIOUS
<1>1. CASE \E o \in Invocations : OrganizerStep(o) \/ Crash(o)
  BY <1>1, OrganizerWrite
<1>2. CASE (\E m \in Notices : Sqs(m) \/ Redeliver(m)) \/ ConfigChanges \/ UNCHANGED vars
  <2>1. job' = job /\ chunk' = chunk
    BY <1>2 DEF Sqs, DeadLetter, Receive, Redeliver, ConfigChanges, NoLedgerChange,
       vars, ledgerVars
  <2> QED BY <2>1 DEF Write
<1>3. CASE Workers
  <2>1. CASE \E w \in Callers : ReadJob(w) \/ FinalizeJob(w)
    BY <2>1 DEF ReadJob, Write
  <2> QED BY <1>3, <2>1 DEF Workers, Write
<1>4. CASE LeaseRunsOut
  BY <1>4 DEF LeaseRunsOut, Write
<1> QED BY <1>1, <1>2, <1>3, <1>4 DEF Next

(* The chunk queue only grows, and only once the manifest is sealed.        *)
LEMMA SentStep ==
  ASSUME IntakeInv, [Next]_vars
  PROVE  /\ sent' \in [Chunks -> Nat]
         /\ \A c \in Chunks : sent[c] > 0 => sent'[c] > 0
         /\ \A c \in Chunks : sent'[c] > 0 => sent[c] > 0 \/ job.sealed
<1>1. sent \in [Chunks -> Nat]
  BY DEF IntakeInv, IntakeTypeOK
<1>2. CASE sent' = sent
  BY <1>1, <1>2
<1>3. ASSUME NEW o \in Invocations, Send(o)
      PROVE  job.sealed /\ \E S : Deliver(S)
  <2>1. job.sealed
    BY <1>3 DEF Send, At, IntakeInv, Fit, HasPlanned, SealedSteps
  <2>2. \E S : Deliver(S)
    BY <1>3 DEF Send, SentAll, SentSome, SendError
  <2> QED BY <2>1, <2>2
<1>4. ASSUME NEW o \in Invocations, OrganizerStep(o) \/ Crash(o), ~Send(o)
      PROVE  sent' = sent
  BY <1>4 DEF OrganizerStep, Admit, AdmitRead, Reclaim, Validate, ValidateRead,
     StartPlanning, PlanningRead, PlanTheJob, PlanAChunk, Seal, Load, Checkpoint,
     Checkpointed, Mark, MarkFailed, Crash
<1>5. CASE \/ \E m \in Notices : Sqs(m) \/ Redeliver(m)
           \/ Workers \/ LeaseRunsOut \/ ConfigChanges \/ UNCHANGED vars
  <2>1. sent' = sent
    BY <1>5 DEF Sqs, DeadLetter, Receive, Redeliver, Workers, LeaseRunsOut,
       ConfigChanges, vars, intakeVars
  <2> QED BY <1>2, <2>1
<1>6. CASE \E o \in Invocations : Send(o)
  <2>1. PICK S : Deliver(S)
    BY <1>3, <1>6
  <2>2. job.sealed
    BY <1>3, <1>6
  <2> QED BY <1>1, <2>1, <2>2, Delivered
<1> QED BY <1>2, <1>4, <1>5, <1>6 DEF Next

LEMMA StepGrows == LedgerInv /\ IntakeInv /\ [Next]_vars => Grows
BY IntakeWrites, InvStep, LedgerKeeps, SentStep DEF Grows

LEMMA StartedStep ==
  ASSUME IntakeInv, Grows, [Next]_vars PROVE StartedIsSent'
<1>a. /\ job \in JobItem /\ chunk \in [Chunks -> ChunkItem] /\ StartedIsSent /\ Write
      /\ \A c \in Chunks : sent[c] > 0 => sent'[c] > 0
  BY EveryWrite DEF IntakeInv, Grows, LedgerInv, LedgerTypeOK
<1>1. job'.status # "REJECTED"
  <2>1. ASSUME NEW w \in Callers, FinalizeJob(w) PROVE job'.status # "REJECTED"
    <3>1. job' = [job EXCEPT !.status = TerminalOf(view[w]),
                             !.result = ResultOf(view[w])]
      BY <2>1 DEF FinalizeJob
    <3> QED BY <1>a, <3>1 DEF TerminalOf, JobItem
  <2>2. ASSUME NEW c, NEW a, StartChunk(c, a) \/ RetryChunk(c, a) \/ FailChunk(c, a)
        PROVE  job'.status # "REJECTED"
    BY <1>a, <2>2 DEF StartChunk, RetryChunk, FailChunk, JobItem, StartedIsSent
  <2>3. ASSUME NEW c, NEW a, NEW n, CompleteChunk(c, a, n)
        PROVE  job'.status # "REJECTED"
    BY <1>a, <2>3 DEF CompleteChunk, JobItem
  <2>4. ASSUME NEW k, PlanJob(k) \/ SealManifest(k) \/ AdmitPut(k)
        PROVE  job'.status # "REJECTED"
    BY <1>a, <2>4 DEF PlanJob, SealManifest, AdmitPut, JobItem, StartedIsSent
  <2> QED BY <1>a, <2>1, <2>2, <2>3, <2>4 DEF Write, StartedIsSent,
          BeginValidation, AdvanceJob, LeaseExpires, ReclaimLease, BeginPlanning,
          MarkSchedulingFailed, PlanChunk, CheckpointChunk, MarkScheduled, JobItem
<1>2. ~Admits => job'.status \notin {"RECEIVED", "VALIDATING"}
  <2>1. ASSUME NEW w \in Callers, FinalizeJob(w)
        PROVE  job'.status \notin {"RECEIVED", "VALIDATING"}
    <3>1. job' = [job EXCEPT !.status = TerminalOf(view[w]),
                             !.result = ResultOf(view[w])]
      BY <2>1 DEF FinalizeJob
    <3> QED BY <1>a, <3>1 DEF TerminalOf, JobItem
  <2>2. ASSUME NEW c, NEW a, StartChunk(c, a) \/ RetryChunk(c, a) \/ FailChunk(c, a)
        PROVE  job'.status \in {job.status, "RUNNING"}
    BY <1>a, <2>2 DEF StartChunk, RetryChunk, FailChunk, JobItem
  <2>3. ASSUME NEW c, NEW a, NEW n, CompleteChunk(c, a, n)
        PROVE  job'.status = "RUNNING"
    BY <1>a, <2>3 DEF CompleteChunk, JobItem
  <2>4. ASSUME NEW k, PlanJob(k) \/ SealManifest(k)
        PROVE  job'.status \in {job.status, "PENDING"}
    BY <1>a, <2>4 DEF PlanJob, SealManifest, JobItem
  <2> QED BY <1>a, <2>1, <2>2, <2>3, <2>4 DEF Write, StartedIsSent, AdvanceJob,
          LeaseExpires, ReclaimLease, BeginPlanning, MarkSchedulingFailed,
          PlanChunk, CheckpointChunk, MarkScheduled, JobItem
<1>3. \A c \in Chunks : sent'[c] > 0 => job'.sealed
  BY <1>a, SentStep DEF StartedIsSent, Grows, Kept
<1>4. ASSUME NEW c \in Chunks, chunk'[c].status \notin {"ABSENT", "PENDING"}
      PROVE  sent[c] > 0
  <2>1. CASE chunk[c].status \notin {"ABSENT", "PENDING"}
    BY <1>a, <2>1 DEF StartedIsSent
  <2>2. CASE chunk'[c] = chunk[c]
    BY <1>4, <2>1, <2>2
  <2>3. ASSUME NEW k, NEW d, PlanChunk(k, d)
        PROVE  chunk'[c].status \in {chunk[c].status, "PENDING"}
    BY <1>a, <2>3 DEF PlanChunk, ChunkItem
  <2>4. ASSUME NEW d \in Chunks, CheckpointChunk(d)
        PROVE  chunk'[c].status = chunk[c].status
    BY <1>a, <2>4 DEF CheckpointChunk, ChunkItem
  <2>5. ASSUME NEW d \in Chunks, NEW a \in Attempts, d # c,
               StartChunk(d, a) \/ RetryChunk(d, a) \/ FailChunk(d, a)
               \/ \E n : CompleteChunk(d, a, n)
        PROVE  chunk'[c] = chunk[c]
    BY <1>a, <2>5 DEF StartChunk, RetryChunk, FailChunk, CompleteChunk
  <2>6. CASE \E d \in Chunks, a \in Attempts : sent[d] > 0 /\
               (StartChunk(d, a) \/ RetryChunk(d, a) \/ FailChunk(d, a)
                \/ \E n : CompleteChunk(d, a, n))
    BY <2>2, <2>5, <2>6
  <2>7. CASE chunk' = chunk
    BY <2>2, <2>7
  <2> QED BY <1>a, <1>4, <2>1, <2>3, <2>4, <2>6, <2>7 DEF Write, BeginValidation,
          AdvanceJob, AdmitPut, LeaseExpires, ReclaimLease, BeginPlanning, PlanJob,
          SealManifest, MarkSchedulingFailed, MarkScheduled, FinalizeJob
<1>5. \A c \in Chunks : chunk'[c].status \notin {"ABSENT", "PENDING"} => sent'[c] > 0
  BY <1>a, <1>4
<1> QED BY <1>1, <1>2, <1>3, <1>5 DEF StartedIsSent

LEMMA CheckpointsStep ==
  ASSUME IntakeInv, Grows, [Next]_vars PROVE CheckpointsAreSent'
<1>a. /\ job \in JobItem /\ chunk \in [Chunks -> ChunkItem] /\ SealShape
      /\ CheckpointsAreSent /\ Write
      /\ \A c \in Chunks : sent[c] > 0 => sent'[c] > 0
  BY EveryWrite DEF IntakeInv, Grows, LedgerInv, LedgerTypeOK
<1>1. ASSUME NEW c \in Chunks, chunk'[c].scheduled PROVE sent[c] > 0
  <2>1. CASE chunk[c].scheduled
    BY <1>a, <2>1 DEF CheckpointsAreSent
  <2>2. ASSUME NEW k, NEW d, PlanChunk(k, d)
        PROVE  chunk'[c].scheduled = chunk[c].scheduled
    BY <1>a, <2>2 DEF PlanChunk, ChunkItem
  <2>3. ASSUME NEW d \in Chunks, sent[d] > 0, CheckpointChunk(d), ~chunk[c].scheduled
        PROVE  sent[c] > 0
    <3>1. d # c => chunk'[c] = chunk[c]
      BY <1>a, <2>3 DEF CheckpointChunk
    <3> QED BY <1>1, <2>3, <3>1
  <2>4. ASSUME NEW d \in Chunks, NEW a \in Attempts,
               StartChunk(d, a) \/ RetryChunk(d, a) \/ FailChunk(d, a)
        PROVE  chunk'[c].scheduled = chunk[c].scheduled
    <3>1. CASE StartChunk(d, a)
      BY <1>a, <3>1 DEF StartChunk, ChunkItem
    <3>2. CASE RetryChunk(d, a) \/ FailChunk(d, a)
      BY <1>a, <3>2 DEF RetryChunk, FailChunk, ChunkItem
    <3> QED BY <2>4, <3>1, <3>2
  <2>5. ASSUME NEW d \in Chunks, NEW a \in Attempts, NEW n, CompleteChunk(d, a, n)
        PROVE  chunk'[c].scheduled = chunk[c].scheduled
    BY <1>a, <2>5 DEF CompleteChunk, ChunkItem
  <2>6. CASE chunk' = chunk
    BY <1>1, <2>1, <2>6
  <2> QED BY <1>a, <1>1, <2>1, <2>2, <2>3, <2>4, <2>5, <2>6 DEF Write,
          BeginValidation, AdvanceJob, AdmitPut, LeaseExpires, ReclaimLease,
          BeginPlanning, PlanJob, SealManifest, MarkSchedulingFailed,
          MarkScheduled, FinalizeJob
<1>2. ASSUME job'.status = "SCHEDULED"
      PROVE  job.sealed /\ \A c \in Planned : sent[c] > 0
  <2>1. CASE job.status = "SCHEDULED"
    BY <1>a, <2>1 DEF CheckpointsAreSent, SealShape
  <2>2. CASE MarkScheduled /\ \A c \in Planned : sent[c] > 0
    BY <2>2 DEF MarkScheduled, CanMarkScheduled
  <2>3. ASSUME NEW w \in Callers, FinalizeJob(w) PROVE FALSE
    <3>1. job' = [job EXCEPT !.status = TerminalOf(view[w]),
                             !.result = ResultOf(view[w])]
      BY <2>3 DEF FinalizeJob
    <3> QED BY <1>2, <1>a, <3>1 DEF TerminalOf, JobItem
  <2>4. ASSUME NEW c, NEW a, StartChunk(c, a) \/ RetryChunk(c, a) \/ FailChunk(c, a)
        PROVE  job'.status \in {job.status, "RUNNING"}
    BY <1>a, <2>4 DEF StartChunk, RetryChunk, FailChunk, JobItem
  <2>5. ASSUME NEW c, NEW a, NEW n, CompleteChunk(c, a, n)
        PROVE  job'.status = "RUNNING"
    BY <1>a, <2>5 DEF CompleteChunk, JobItem
  <2>6. ASSUME NEW k, PlanJob(k) \/ SealManifest(k) \/ AdmitPut(k)
        PROVE  job'.status \in {job.status, "PENDING", "RECEIVED"}
    BY <1>a, <2>6 DEF PlanJob, SealManifest, AdmitPut, JobItem
  <2> QED BY <1>a, <1>2, <2>1, <2>2, <2>3, <2>4, <2>5, <2>6 DEF Write, AdvanceJob,
          BeginValidation, LeaseExpires, ReclaimLease, BeginPlanning,
          MarkSchedulingFailed, PlanChunk, CheckpointChunk, JobItem
<1>3. Planned \subseteq Chunks
  BY DEF Planned
<1> QED BY <1>a, <1>1, <1>2, <1>3, SealedPlanStays DEF CheckpointsAreSent

(* A message is deleted by an acknowledgement only.                         *)
LEMMA NoticesStep ==
  ASSUME IntakeInv, Grows, [Next]_vars
  PROVE  /\ notice' \in [Notices -> [ state : {"visible", "inflight", "deleted", "dlq"},
                                      receives : 0..MaxReceives ]]
         /\ AcknowledgedIsSent'
<1> DEFINE Messages == [ state : {"visible", "inflight", "deleted", "dlq"},
                         receives : 0..MaxReceives ]
<1>a. notice \in [Notices -> Messages] /\ AcknowledgedIsSent
  BY DEF IntakeInv, IntakeTypeOK
<1>b. AllSent => AllSent'
  <2>1. ASSUME AllSent PROVE AllSent'
    <3>1. job.expected \in 0..MaxChunks /\ MaxChunks \in Nat
      BY LedgerConstants DEF Grows, LedgerInv, PlanShape
    <3>2. 1..job.expected \subseteq Chunks
      BY <3>1 DEF Chunks
    <3> QED BY <2>1, <3>2, SealedPlanStays DEF AllSent, Grows
  <2> QED BY <2>1
<1>1. ASSUME notice' \in [Notices -> Messages],
             \A m \in Notices : notice'[m].state = "deleted"
                                  => notice[m].state = "deleted" \/ AllSent'
      PROVE  notice' \in [Notices -> Messages] /\ AcknowledgedIsSent'
  BY <1>a, <1>b, <1>1 DEF AcknowledgedIsSent, AllSent
<1>2. CASE notice' = notice
  BY <1>a, <1>1, <1>2
<1>3. CASE \E o \in Invocations : OrganizerStep(o) \/ Crash(o)
  <2>1. PICK o \in Invocations : OrganizerStep(o) \/ Crash(o)
    BY <1>3
  <2>2. GoodStep(o)
    BY <2>1, OrganizerIsGood
  <2>3. CASE notice' = [notice EXCEPT ![org[o].msg].state =
                          IF @ = "inflight" THEN "visible" ELSE @]
    BY <1>a, <1>1, <2>3
  <2>4. CASE notice' = [notice EXCEPT ![org[o].msg].state = "deleted"] /\ AllSent'
    BY <1>a, <1>1, <2>4
  <2> QED BY <1>2, <2>2, <2>3, <2>4 DEF GoodStep
<1>4. ASSUME NEW m \in Notices, DeadLetter(m) \/ Redeliver(m)
      PROVE  notice' \in [Notices -> Messages] /\ AcknowledgedIsSent'
  BY <1>a, <1>1, <1>4 DEF DeadLetter, Redeliver
<1>5. ASSUME NEW m \in Notices, NEW o \in Invocations, Receive(o, m)
      PROVE  notice' \in [Notices -> Messages] /\ AcknowledgedIsSent'
  <2>1. PICK q : q = [notice[m] EXCEPT !.state = "inflight",
                                       !.receives = notice[m].receives + 1]
    OBVIOUS
  <2>2. notice' = [notice EXCEPT ![m] = q]
    BY <1>a, <1>5, <2>1 DEF Receive
  <2>3. notice[m] \in Messages /\ notice[m].receives + 1 \in 0..MaxReceives
    BY <1>a, <1>5, IntakeConstants DEF Receive
  <2>4. q \in Messages /\ q.state = "inflight"
    BY <2>1, <2>3
  <2> QED BY <1>a, <1>1, <2>2, <2>4
<1>6. CASE Workers \/ LeaseRunsOut \/ ConfigChanges \/ UNCHANGED vars
  BY <1>2, <1>6 DEF Workers, LeaseRunsOut, ConfigChanges, vars, intakeVars
<1> QED BY <1>3, <1>4, <1>5, <1>6 DEF Next, Sqs

LEMMA InvocationsStep ==
  ASSUME IntakeInv, Grows, [Next]_vars
  PROVE  org' \in [Invocations -> Invocation] /\ \A p \in Invocations : Fit(org[p])'
<1>a. org \in [Invocations -> Invocation] /\ \A p \in Invocations : Fit(org[p])
  BY DEF IntakeInv, IntakeTypeOK
<1>1. CASE org' = org
  <2>1. ASSUME NEW p \in Invocations PROVE Fit(org[p])'
    BY <1>a, <1>1, OthersStayFit
  <2> QED BY <1>a, <1>1, <2>1
<1>2. ASSUME NEW o \in Invocations, org' = [org EXCEPT ![o] = org'[o]],
             org'[o] \in Invocation, Fit(org[o])'
      PROVE  org' \in [Invocations -> Invocation]
             /\ \A p \in Invocations : Fit(org[p])'
  <2>1. org' \in [Invocations -> Invocation]
    BY <1>a, <1>2
  <2>2. ASSUME NEW p \in Invocations PROVE Fit(org[p])'
    <3>1. CASE p = o
      BY <1>2, <3>1
    <3>2. CASE p # o
      <4>1. org'[p] = org[p]
        BY <1>a, <1>2, <3>2
      <4> QED BY <1>a, <4>1, OthersStayFit
    <3> QED BY <3>1, <3>2
  <2> QED BY <2>1, <2>2
<1>3. CASE \E o \in Invocations : OrganizerStep(o) \/ Crash(o)
  <2>1. PICK o \in Invocations : OrganizerStep(o) \/ Crash(o)
    BY <1>3
  <2>2. GoodStep(o)
    BY <2>1, OrganizerIsGood
  <2> QED BY <1>2, <2>2 DEF GoodStep
<1>4. ASSUME NEW m \in Notices, NEW o \in Invocations, Receive(o, m)
      PROVE  org' \in [Invocations -> Invocation]
             /\ \A p \in Invocations : Fit(org[p])'
  BY <1>2, <1>4, ReceiveIsFit
<1>5. CASE \/ \E m \in Notices : DeadLetter(m) \/ Redeliver(m)
           \/ Workers \/ LeaseRunsOut \/ ConfigChanges \/ UNCHANGED vars
  BY <1>1, <1>5 DEF DeadLetter, Redeliver, Workers, LeaseRunsOut, ConfigChanges,
     vars, intakeVars
<1> QED BY <1>3, <1>4, <1>5 DEF Next, Sqs

LEMMA SmallTypes ==
  ASSUME IntakeInv, [Next]_vars PROVE current' \in Configs /\ faults' \in 0..MaxFaults
<1>a. current \in Configs /\ faults \in 0..MaxFaults
  BY DEF IntakeInv, IntakeTypeOK
<1>1. ASSUME NEW kind, Fault(kind) PROVE faults' \in 0..MaxFaults
  BY <1>a, <1>1, IntakeConstants DEF Fault
<1>2. ASSUME NEW o \in Invocations, OrganizerStep(o) \/ Crash(o)
      PROVE  current' = current /\ faults' \in 0..MaxFaults
  <2>1. CASE \/ Admit(o) \/ AdmitRead(o) \/ Reclaim(o) \/ Validate(o)
             \/ ValidateRead(o) \/ StartPlanning(o)
    BY <1>a, <1>1, <2>1 DEF Admit, AdmitRead, Reclaim, Validate, ValidateRead,
       StartPlanning, Fails, NoFault
  <2>2. CASE \/ PlanningRead(o) \/ PlanTheJob(o) \/ PlanAChunk(o) \/ Seal(o) \/ Load(o)
    BY <1>a, <1>1, <2>2 DEF PlanningRead, PlanTheJob, PlanAChunk, Seal, Load, Fails,
       NoFault
  <2>3. CASE Send(o)
    BY <1>a, <1>1, <2>3 DEF Send, SentAll, SentSome, SendError, NoFault
  <2>4. CASE Checkpoint(o) \/ Checkpointed(o) \/ Mark(o) \/ MarkFailed(o) \/ Crash(o)
    BY <1>a, <1>1, <2>4 DEF Checkpoint, Checkpointed, Mark, MarkFailed, Crash, Fails,
       NoFault
  <2> QED BY <1>2, <2>1, <2>2, <2>3, <2>4 DEF OrganizerStep
<1>3. ASSUME NEW m \in Notices, Sqs(m) \/ Redeliver(m)
      PROVE  current' = current /\ faults' \in 0..MaxFaults
  BY <1>a, <1>1, <1>3 DEF Sqs, DeadLetter, Receive, Redeliver
<1>4. CASE Workers \/ LeaseRunsOut \/ ConfigChanges \/ UNCHANGED vars
  BY <1>a, <1>1, <1>4 DEF Workers, LeaseRunsOut, ConfigChanges, vars, intakeVars
<1> QED BY <1>a, <1>2, <1>3, <1>4 DEF Next

LEMMA IntakeInvInitially == Init => IntakeInv
<1> SUFFICES ASSUME Init PROVE IntakeInv
  OBVIOUS
<1>1. \A o \in Invocations : org[o] = Idle
  BY DEF Init
<1>2. Idle \in Invocation
  BY LedgerConstants DEF Idle, Invocation, Steps, MaxTries
<1>3. Cardinality({}) <= BatchSize
  BY FS_EmptySet, IntakeConstants
<1>4. ASSUME NEW o \in Invocations PROVE Fit(org[o])
  <2>1. org[o].step = "idle" /\ org[o].batch = {} /\ org[o].confirmed = {}
    BY <1>1 DEF Idle
  <2> QED BY <1>3, <2>1 DEF Fit, InPhase, HasPlanned, HasSent, AdmissionSteps,
          SealedSteps
<1>5. org \in [Invocations -> Invocation]
  BY <1>2 DEF Init
<1>6. \A o \in Invocations : Cardinality(org[o].batch) <= BatchSize
  BY <1>1, <1>3 DEF Idle
<1>7. IntakeTypeOK
  BY <1>5, <1>6, IntakeConstants DEF Init, IntakeTypeOK
<1>8. StartedIsSent /\ CheckpointsAreSent /\ AcknowledgedIsSent
  BY DEF Init, LedgerInit, NoJob, NoChunk, StartedIsSent, CheckpointsAreSent,
     AcknowledgedIsSent
<1> QED BY <1>4, <1>7, <1>8 DEF IntakeInv

LEMMA IntakeInvPreserved ==
  LedgerInv /\ IntakeInv /\ [Next]_vars => IntakeInv'
<1> SUFFICES ASSUME LedgerInv, IntakeInv, [Next]_vars PROVE IntakeInv'
  OBVIOUS
<1>1. Grows
  BY StepGrows
<1>2. StartedIsSent' /\ CheckpointsAreSent'
  BY <1>1, StartedStep, CheckpointsStep
<1>3. org' \in [Invocations -> Invocation] /\ \A p \in Invocations : Fit(org[p])'
  BY <1>1, InvocationsStep
<1>4. \A p \in Invocations : Cardinality(org'[p].batch) <= BatchSize
  BY <1>3 DEF Fit, HasSent
<1>5. IntakeTypeOK' /\ AcknowledgedIsSent'
  BY <1>1, <1>3, <1>4, NoticesStep, SentStep, SmallTypes DEF IntakeTypeOK
<1> QED BY <1>2, <1>3, <1>5 DEF IntakeInv

-----------------------------------------------------------------------------
(* The theorems.                                                            *)

(* The invariants of the ledger and of the Organizer hold together: its     *)
(* steps are ledger writes as long as its invocations are fit, and those    *)
(* stay fit as long as the ledger takes nothing back.                       *)
LEMMA BothInvariants == Spec => [](LedgerInv /\ IntakeInv)
<1>1. Init => LedgerInv /\ IntakeInv
  BY InvInit, IntakeInvInitially DEF Init
<1>2. LedgerInv /\ IntakeInv /\ [Next]_vars => (LedgerInv /\ IntakeInv)'
  BY IntakeWrites, InvStep, IntakeInvPreserved
<1> QED BY <1>1, <1>2, PTL DEF Spec

(* Whatever the invocations race on, and however often a message comes back,*)
(* the Organizer writes only what the ledger protocol allows.               *)
THEOREM OrganizerKeepsProtocol == Spec => RefinesLedger
<1>1. Init => LedgerInit
  BY DEF Init
<1> QED BY <1>1, BothInvariants, IntakeWrites, PTL DEF Spec, RefinesLedger, LedgerSpec

(* So a job the Organizer plans keeps the promise of JobOutcome.            *)
THEOREM OrganizerImplementsOutcome == Spec => ImplementsOutcome
BY OrganizerKeepsProtocol, LedgerImplementsOutcome, PTL DEF RefinesLedger

(* Messages and invocations stay in their types, and a batch within the     *)
(* limit of SendMessageBatch.                                               *)
THEOREM IntakeTypeCorrect == Spec => []IntakeTypeOK
<1>1. LedgerInv /\ IntakeInv => IntakeTypeOK
  BY DEF IntakeInv
<1> QED BY <1>1, BothInvariants, PTL

(* A checkpoint and the status SCHEDULED are never ahead of the queue.      *)
THEOREM CheckpointsFollowSends == Spec => []CheckpointsAreSent
<1>1. LedgerInv /\ IntakeInv => CheckpointsAreSent
  BY DEF IntakeInv
<1> QED BY <1>1, BothInvariants, PTL

(* A message is deleted only when the whole manifest is in the chunk queue. *)
THEOREM AcknowledgementsAreSafe == Spec => []AcknowledgedIsSent
<1>1. LedgerInv /\ IntakeInv => AcknowledgedIsSent
  BY DEF IntakeInv
<1> QED BY <1>1, BothInvariants, PTL

-----------------------------------------------------------------------------
(* Admission of notifications.  Past admission there is a job, so the first *)
(* receipt of the file lies behind.                                         *)
AdmittedHasJob ==
  \A o \in Invocations : org[o].step \in Admitted => job.status # "ABSENT"

(* A notification's invocation passes admission by the first receipt or by  *)
(* taking over a lease.                                                     *)
LEMMA PassesAdmission ==
  ASSUME Admits, IntakeInv, Grows, [Next]_vars, NEW o \in Invocations,
         org[o].step \notin Admitted, org'[o].step \in Admitted
  PROVE  (\E k : AdmitPut(k)) \/ ReclaimLease
<1>a. org \in [Invocations -> Invocation] /\ org'[o] # org[o]
  BY DEF IntakeInv, IntakeTypeOK
<1>b. org'[o].step \notin {"idle", "admit", "admitRead", "reclaim"}
  BY DEF Admitted
<1>1. ASSUME NEW p \in Invocations, OrganizerStep(p) \/ Crash(p)
      PROVE  (\E k : AdmitPut(k)) \/ ReclaimLease
  <2>1. p = o
    <3>1. org' = [org EXCEPT ![p] = org'[p]]
      BY <1>1, OrganizerIsGood DEF GoodStep
    <3> QED BY <1>a, <3>1
  <2>2. CASE Nack(o) \/ Ack(o)
    BY <1>a, <1>b, <2>2 DEF Nack, Ack, Release, Idle
  <2>3. ASSUME NEW s \in {"admitRead", "reclaim"}, Goto(o, s) PROVE FALSE
    <3>1. org[o] \in Invocation
      BY <1>a
    <3>2. org'[o] = [org[o] EXCEPT !.step = s]
      BY <1>a, <2>3 DEF Goto
    <3>3. org'[o].step = s
      BY <3>1, <3>2 DEF Invocation
    <3> QED BY <1>b, <2>3, <3>3
  <2>4. CASE Admit(o) \/ AdmitRead(o) \/ Reclaim(o)
    BY <2>2, <2>3, <2>4 DEF Admit, AdmitRead, Reclaim, Fails
  <2>5. CASE Crash(o)
    BY <2>2, <2>5 DEF Crash
  <2>6. CASE OrganizerStep(o) /\ ~(Admit(o) \/ AdmitRead(o) \/ Reclaim(o))
    BY <2>6 DEF OrganizerStep, Validate, ValidateRead, StartPlanning, PlanningRead,
       PlanTheJob, PlanAChunk, Seal, Load, Send, Checkpoint, Checkpointed, Mark,
       MarkFailed, At, Admitted
  <2> QED BY <1>1, <2>1, <2>4, <2>5, <2>6
<1>2. ASSUME NEW p \in Invocations, NEW m \in Notices, Receive(p, m)
      PROVE  FALSE
  <2>1. PICK q : q = [Idle EXCEPT !.step = "admit", !.msg = m, !.cfg = current]
    OBVIOUS
  <2>2. q.step = "admit"
    BY <2>1 DEF Idle
  <2>3. org' = [org EXCEPT ![p] = q]
    BY <1>2, <2>1 DEF Receive
  <2> QED BY <1>a, <1>b, <2>2, <2>3
<1>3. CASE \/ \E m \in Notices : DeadLetter(m) \/ Redeliver(m)
           \/ Workers \/ LeaseRunsOut \/ ConfigChanges \/ UNCHANGED vars
  BY <1>a, <1>3 DEF DeadLetter, Redeliver, Workers, LeaseRunsOut, ConfigChanges,
     vars, intakeVars
<1> QED BY <1>1, <1>2, <1>3 DEF Next, Sqs

LEMMA AdmittedStep ==
  ASSUME Admits, IntakeInv, Grows, [Next]_vars, AdmittedHasJob
  PROVE  AdmittedHasJob'
<1>a. job \in JobItem
  BY DEF Grows, LedgerInv, LedgerTypeOK
<1>1. ASSUME NEW o \in Invocations, org'[o].step \in Admitted
      PROVE  job'.status # "ABSENT"
  <2>1. CASE org[o].step \in Admitted
    BY <2>1 DEF AdmittedHasJob, Grows, Kept
  <2>2. CASE org[o].step \notin Admitted
    <3>1. (\E k : AdmitPut(k)) \/ ReclaimLease
      BY <1>1, <2>2, PassesAdmission
    <3> QED BY <1>a, <3>1 DEF AdmitPut, ReclaimLease, CanReclaim, JobItem
  <2> QED BY <2>1, <2>2
<1> QED BY <1>1 DEF AdmittedHasJob

(* Of notifications: an invocation passes admission while another is past   *)
(* it only by taking over an expired lease.                                 *)
THEOREM AdmissionsAreExclusive ==
  ASSUME Admits
  PROVE  Spec => AdmissionIsExclusive
<1> DEFINE Both == LedgerInv /\ IntakeInv /\ AdmittedHasJob
           Exclusive ==
             \A o \in Invocations :
               ( org[o].step \notin Admitted /\ org'[o].step \in Admitted )
                 => \/ \A p \in Invocations \ {o} : org[p].step \notin Admitted
                    \/ job.lease = "expired" /\ job'.lease = "held"
<1>1. Init => Both
  <2>1. Init => AdmittedHasJob
    BY DEF Init, Idle, AdmittedHasJob, Admitted
  <2> QED BY <2>1, InvInit, IntakeInvInitially DEF Init
<1>2. Both /\ [Next]_vars => Both'
  BY StepGrows, IntakeWrites, InvStep, IntakeInvPreserved, AdmittedStep
<1>3. Both /\ [Next]_vars => [Exclusive]_vars
  <2> SUFFICES ASSUME Both, [Next]_vars, NEW o \in Invocations,
                      org[o].step \notin Admitted, org'[o].step \in Admitted
               PROVE  \/ \A p \in Invocations \ {o} : org[p].step \notin Admitted
                      \/ job.lease = "expired" /\ job'.lease = "held"
    OBVIOUS
  <2>1. Grows
    BY StepGrows
  <2>2. (\E k : AdmitPut(k)) \/ ReclaimLease
    BY <2>1, PassesAdmission
  <2>3. job \in JobItem
    BY DEF LedgerInv, LedgerTypeOK
  <2> QED BY <2>2, <2>3 DEF AdmitPut, ReclaimLease, CanReclaim, AdmittedHasJob,
          JobItem
<1> QED BY <1>1, <1>2, <1>3, PTL DEF Spec, AdmissionIsExclusive

-----------------------------------------------------------------------------
(* Resending.  What an invocation still holds has no checkpoint, and a chunk*)
(* is held once: to be batched, in the batch, or confirmed.                 *)
Fresh(r) ==
  r.step \in {"send", "checkpoint"} =>
    /\ r.todo \cap r.batch = {}
    /\ r.step = "checkpoint" => (r.todo \cup r.batch) \cap r.confirmed = {}
    /\ \A c \in r.todo \cup r.batch : ~chunk[c].scheduled

AllFresh == \A o \in Invocations : Fresh(org[o])

SameMarks == \A c \in Chunks : chunk'[c].scheduled = chunk[c].scheduled

LEMMA WorkersKeepMarks ==
  ASSUME LedgerInv, Workers PROVE SameMarks /\ org' = org
<1>1. chunk \in [Chunks -> ChunkItem]
  BY DEF LedgerInv, LedgerTypeOK
<1>2. ASSUME NEW c \in Chunks, NEW q, q \in ChunkItem,
             q.scheduled = chunk[c].scheduled, chunk' = [chunk EXCEPT ![c] = q]
      PROVE  SameMarks
  BY <1>1, <1>2 DEF SameMarks
<1>3. ASSUME NEW c \in Chunks, NEW a \in Attempts, StartChunk(c, a) PROVE SameMarks
  <2>1. PICK q : q = [chunk[c] EXCEPT !.status = "RUNNING", !.attempt = a]
    OBVIOUS
  <2>2. q.scheduled = chunk[c].scheduled
    BY <1>1, <2>1 DEF ChunkItem
  <2>3. chunk' = [chunk EXCEPT ![c] = q]
    BY <1>3, <2>1 DEF StartChunk
  <2> QED BY <1>1, <2>2, <2>3 DEF SameMarks
<1>4. ASSUME NEW c \in Chunks, NEW a \in Attempts, NEW n \in Counts,
             CompleteChunk(c, a, n)
      PROVE  SameMarks
  <2>1. PICK q : q = [chunk[c] EXCEPT !.status = "COMPLETED",
                        !.published = n.published, !.rejected = n.rejected]
    OBVIOUS
  <2>2. q.scheduled = chunk[c].scheduled
    BY <1>1, <2>1 DEF ChunkItem
  <2>3. chunk' = [chunk EXCEPT ![c] = q]
    BY <1>4, <2>1 DEF CompleteChunk
  <2> QED BY <1>1, <2>2, <2>3 DEF SameMarks
<1>5. ASSUME NEW c \in Chunks, NEW a \in Attempts, FailChunk(c, a) PROVE SameMarks
  <2>1. PICK q : q = [chunk[c] EXCEPT !.status = "FAILED"]
    OBVIOUS
  <2>2. q.scheduled = chunk[c].scheduled
    BY <1>1, <2>1 DEF ChunkItem
  <2>3. chunk' = [chunk EXCEPT ![c] = q]
    BY <1>5, <2>1 DEF FailChunk
  <2> QED BY <1>1, <2>2, <2>3 DEF SameMarks
<1>6. ASSUME NEW c \in Chunks, NEW a \in Attempts, RetryChunk(c, a) PROVE SameMarks
  <2>1. PICK q : q = [chunk[c] EXCEPT !.status = "RETRY_PENDING"]
    OBVIOUS
  <2>2. q.scheduled = chunk[c].scheduled
    BY <1>1, <2>1 DEF ChunkItem
  <2>3. chunk' = [chunk EXCEPT ![c] = q]
    BY <1>6, <2>1 DEF RetryChunk
  <2> QED BY <1>1, <2>2, <2>3 DEF SameMarks
<1>7. ASSUME NEW w \in Callers, ReadJob(w) \/ FinalizeJob(w) PROVE SameMarks
  BY <1>7 DEF ReadJob, FinalizeJob, SameMarks
<1>8. org' = org
  BY DEF Workers, intakeVars
<1> QED BY <1>3, <1>4, <1>5, <1>6, <1>7, <1>8 DEF Workers

(* A flush takes its batch out of what is left.                             *)
LEMMA FlushIsFresh ==
  ASSUME NEW o \in Invocations, Busy(o), NEW todo \in SUBSET Chunks,
         \A c \in todo : ~chunk'[c].scheduled,
         org' = [org EXCEPT ![o] = NextFlush(org[o], todo)]
  PROVE  Fresh(org[o])'
<1>1. org'[o] = NextFlush(org[o], todo)
  BY BusyFacts
<1>2. /\ org'[o].step \in {"send", "mark"} /\ org'[o].todo = todo \ NextBatch(todo)
      /\ org'[o].batch = NextBatch(todo)
  BY <1>1, BusyFacts, NextFlushFields
<1> QED BY <1>2, NextBatchFits DEF Fresh

LEMMA SendIsFresh ==
  ASSUME NEW o \in Invocations, Busy(o), Fresh(org[o]), Send(o)
  PROVE  Fresh(org[o])'
<1> DEFINE r == org[o]
<1>1. /\ r.step = "send" /\ chunk' = chunk /\ r \in Invocation
      /\ r.todo \cap r.batch = {} /\ \A c \in r.todo \cup r.batch : ~chunk[c].scheduled
  BY BusyFacts DEF Send, At, Fresh, NoLedgerChange, ledgerVars
<1>2. CASE SentAll(o)
  <2>1. PICK q : q = [r EXCEPT !.step = "checkpoint", !.batch = {},
                               !.confirmed = r.batch]
    OBVIOUS
  <2>2. /\ q.step = "checkpoint" /\ q.todo = r.todo /\ q.batch = {}
        /\ q.confirmed = r.batch
    BY <1>1, <2>1 DEF Invocation
  <2>3. org'[o] = q
    BY <1>2, <2>1, BusyFacts DEF SentAll
  <2> QED BY <1>1, <2>2, <2>3 DEF Fresh
<1>3. ASSUME NEW F \in SUBSET r.batch, SentSome(o, F) PROVE Fresh(org[o])'
  <2>1. PICK t : t = r.tries + 1
    OBVIOUS
  <2>2. PICK q : q = [r EXCEPT !.step = "checkpoint", !.batch = F,
                               !.confirmed = r.batch \ F, !.tries = t]
    OBVIOUS
  <2>3. /\ q.step = "checkpoint" /\ q.todo = r.todo /\ q.batch = F
        /\ q.confirmed = r.batch \ F
    BY <1>1, <2>2 DEF Invocation
  <2>4. org'[o] = q
    BY <1>3, <2>1, <2>2, BusyFacts DEF SentSome
  <2> QED BY <1>1, <1>3, <2>3, <2>4 DEF Fresh
<1>4. CASE SendError(o)
  <2>1. PICK t : t = IF r.tries + 1 = MaxTries THEN "markFailed" ELSE "send"
    OBVIOUS
  <2>2. PICK u : u = r.tries + 1
    OBVIOUS
  <2>3. PICK q : q = [r EXCEPT !.tries = u, !.step = t]
    OBVIOUS
  <2>4. /\ q.step \in {"send", "markFailed"} /\ q.todo = r.todo /\ q.batch = r.batch
    BY <1>1, <2>1, <2>3 DEF Invocation
  <2>5. org'[o] = q
    BY <1>4, <2>1, <2>2, <2>3, BusyFacts DEF SendError
  <2> QED BY <1>1, <2>4, <2>5 DEF Fresh
<1> QED BY <1>2, <1>3, <1>4 DEF Send

LEMMA CheckpointIsFresh ==
  ASSUME NEW o \in Invocations, Busy(o), Fresh(org[o]), Checkpoint(o)
  PROVE  Fresh(org[o])'
<1> DEFINE r == org[o]
<1>1. /\ r.step = "checkpoint" /\ r \in Invocation
      /\ r.todo \cap r.batch = {} /\ (r.todo \cup r.batch) \cap r.confirmed = {}
      /\ r.todo \cup r.batch \subseteq Chunks
      /\ \A c \in r.todo \cup r.batch : ~chunk[c].scheduled
  BY BusyFacts DEF Checkpoint, At, Fresh, Invocation
<1>2. ASSUME NEW c \in r.confirmed, CheckpointChunk(c) \/ NoLedgerChange
      PROVE  \A d \in r.todo \cup r.batch : ~chunk'[d].scheduled
  <2>1. \A d \in r.todo \cup r.batch : d # c
    BY <1>1, <1>2
  <2>2. chunk \in [Chunks -> ChunkItem]
    BY BusyFacts DEF LedgerInv, LedgerTypeOK
  <2>3. \A d \in Chunks \ {c} : chunk'[d] = chunk[d]
    BY <1>2, <2>2 DEF CheckpointChunk, NoLedgerChange, ledgerVars
  <2> QED BY <1>1, <2>1, <2>3
<1>3. ASSUME NEW c \in r.confirmed, CheckpointChunk(c) \/ NoLedgerChange,
             org' = [org EXCEPT ![o].confirmed = @ \ {c}]
      PROVE  Fresh(org[o])'
  <2>1. PICK q : q = [r EXCEPT !.confirmed = r.confirmed \ {c}]
    OBVIOUS
  <2>2. /\ q.step = r.step /\ q.todo = r.todo /\ q.batch = r.batch
        /\ q.confirmed = r.confirmed \ {c}
    BY <1>1, <2>1 DEF Invocation
  <2>3. org'[o] = q
    BY <1>3, <2>1, BusyFacts
  <2> QED BY <1>1, <1>2, <1>3, <2>2, <2>3 DEF Fresh
<1>4. CASE org' = [org EXCEPT ![o].step = "markFailed"]
  <2>1. org'[o] = [r EXCEPT !.step = "markFailed"]
    BY <1>4, BusyFacts
  <2>2. org'[o].step = "markFailed"
    BY <1>1, <2>1 DEF Invocation
  <2> QED BY <2>2 DEF Fresh
<1> QED BY <1>3, <1>4 DEF Checkpoint

LEMMA CheckpointedIsFresh ==
  ASSUME NEW o \in Invocations, Busy(o), Fresh(org[o]), Checkpointed(o)
  PROVE  Fresh(org[o])'
<1> DEFINE r == org[o]
<1>1. /\ r.step = "checkpoint" /\ r \in Invocation /\ chunk' = chunk
      /\ r.todo \in SUBSET Chunks /\ r.todo \cap r.batch = {}
      /\ \A c \in r.todo \cup r.batch : ~chunk[c].scheduled
  BY BusyFacts DEF Checkpointed, At, Fresh, Invocation, NoLedgerChange, ledgerVars
<1>2. CASE r.batch = {}
  <2>1. org' = [org EXCEPT ![o] = NextFlush(r, r.todo)]
    BY <1>2, BusyFacts DEF Checkpointed
  <2> QED BY <1>1, <2>1, FlushIsFresh
<1>3. CASE r.batch # {}
  <2>1. PICK t : t = IF r.tries = MaxTries THEN "markFailed" ELSE "send"
    OBVIOUS
  <2>2. PICK q : q = [r EXCEPT !.step = t]
    OBVIOUS
  <2>3. /\ q.step \in {"send", "markFailed"} /\ q.todo = r.todo /\ q.batch = r.batch
    BY <1>1, <2>1, <2>2 DEF Invocation
  <2>4. org'[o] = q
    BY <1>3, <2>1, <2>2, BusyFacts DEF Checkpointed
  <2> QED BY <1>1, <2>3, <2>4 DEF Fresh
<1> QED BY <1>2, <1>3

(* Another kind of step leaves the invocation outside the send loop.        *)
LEMMA OutsideTheLoop ==
  ASSUME NEW o \in Invocations, Busy(o), OrganizerStep(o) \/ Crash(o),
         ~(Load(o) \/ Send(o) \/ Checkpoint(o) \/ Checkpointed(o))
  PROVE  Fresh(org[o])'
<1>1. CASE Nack(o) \/ Ack(o)
  <2>1. org'[o] = Idle
    BY <1>1, BusyFacts DEF Nack, Ack, Release
  <2> QED BY <2>1 DEF Idle, Fresh
<1>2. ASSUME NEW s, s \notin {"send", "checkpoint"}, Goto(o, s)
      PROVE  Fresh(org[o])'
  <2>1. org'[o] = [org[o] EXCEPT !.step = s]
    BY <1>2, BusyFacts DEF Goto
  <2>2. org'[o].step = s
    BY <2>1, BusyFacts DEF Invocation
  <2> QED BY <1>2, <2>2 DEF Fresh
<1>3. CASE Admit(o) \/ AdmitRead(o) \/ Reclaim(o)
  BY <1>1, <1>2, <1>3 DEF Admit, AdmitRead, Reclaim, Fails
<1>4. CASE Validate(o) \/ ValidateRead(o) \/ StartPlanning(o) \/ PlanningRead(o)
  BY <1>1, <1>2, <1>4 DEF Validate, ValidateRead, StartPlanning, PlanningRead, Fails
<1>5. CASE PlanTheJob(o) \/ Seal(o) \/ Mark(o) \/ MarkFailed(o) \/ Crash(o)
  BY <1>1, <1>2, <1>5 DEF PlanTheJob, Seal, Mark, MarkFailed, Crash, Fails
<1>6. CASE PlanAChunk(o)
  <2>1. CASE org' = [org EXCEPT ![o].next = @ + 1]
    <3>1. PICK n : n = org[o].next + 1
      OBVIOUS
    <3>2. org'[o] = [org[o] EXCEPT !.next = n]
      BY <2>1, <3>1, BusyFacts
    <3>3. org'[o].step = org[o].step /\ org[o].step = "planChunk"
      BY <1>6, <3>2, BusyFacts DEF Invocation, PlanAChunk, At
    <3> QED BY <3>3 DEF Fresh
  <2> QED BY <1>1, <1>2, <1>6, <2>1 DEF PlanAChunk, Fails
<1> QED BY <1>3, <1>4, <1>5, <1>6 DEF OrganizerStep

LEMMA FreshStep ==
  ASSUME LedgerInv, IntakeInv, [Next]_vars, AllFresh,
         \A o, p \in Invocations : o = p
  PROVE  AllFresh'
<1> SUFFICES ASSUME NEW o \in Invocations PROVE Fresh(org[o])'
  BY DEF AllFresh
<1>a. Grows /\ Fresh(org[o]) /\ org \in [Invocations -> Invocation]
  BY StepGrows DEF AllFresh, IntakeInv, IntakeTypeOK
<1>1. CASE OrganizerStep(o) \/ Crash(o)
  <2>1. ~At(o, "idle")
    BY <1>1 DEF OrganizerStep, Admit, AdmitRead, Reclaim, Validate, ValidateRead,
       StartPlanning, PlanningRead, PlanTheJob, PlanAChunk, Seal, Load, Send,
       Checkpoint, Checkpointed, Mark, MarkFailed, Crash, At
  <2>2. Busy(o)
    BY <1>a, <2>1 DEF Busy
  <2>3. CASE Load(o)
    <3>1. CASE Nack(o)
      <4>1. org'[o] = Idle
        BY <1>a, <3>1 DEF Nack, Release
      <4> QED BY <4>1 DEF Idle, Fresh
    <3>2. CASE org' = [org EXCEPT ![o] = NextFlush(org[o], UnscheduledChunks)]
      <4>1. /\ UnscheduledChunks \in SUBSET Chunks
            /\ \A c \in UnscheduledChunks : ~chunk'[c].scheduled
        BY <2>3 DEF UnscheduledChunks, Load, NoLedgerChange, ledgerVars
      <4> QED BY <2>2, <3>2, <4>1, FlushIsFresh
    <3> QED BY <2>3, <3>1, <3>2 DEF Load
  <2> QED BY <1>1, <1>a, <2>2, <2>3, SendIsFresh, CheckpointIsFresh,
          CheckpointedIsFresh, OutsideTheLoop
<1>2. CASE SameMarks /\ org' = org
  <2>1. org[o].todo \cup org[o].batch \subseteq Chunks
    BY <1>a DEF Invocation
  <2> QED BY <1>2, <1>a, <2>1 DEF Fresh, SameMarks
<1>3. ASSUME NEW p \in Invocations, NEW m \in Notices, Receive(p, m)
      PROVE  Fresh(org[o])'
  <2>1. PICK s : s = IF Admits THEN "admit" ELSE "planJob"
    OBVIOUS
  <2>2. PICK q : q = [Idle EXCEPT !.step = s, !.msg = m, !.cfg = current]
    OBVIOUS
  <2>3. q.step \in {"admit", "planJob"}
    BY <2>1, <2>2 DEF Idle
  <2>4. org' = [org EXCEPT ![p] = q]
    BY <1>3, <2>1, <2>2 DEF Receive
  <2>5. o = p
    OBVIOUS
  <2>6. org'[o] = q
    BY <1>a, <2>4, <2>5
  <2> QED BY <2>3, <2>6 DEF Fresh
<1>4. CASE \/ \E m \in Notices : DeadLetter(m) \/ Redeliver(m)
           \/ LeaseRunsOut \/ ConfigChanges \/ UNCHANGED vars
  <2>1. chunk' = chunk /\ org' = org
    BY <1>4 DEF DeadLetter, Redeliver, LeaseRunsOut, LeaseExpires, ConfigChanges,
       NoLedgerChange, ledgerVars, vars, intakeVars
  <2> QED BY <1>2, <2>1 DEF SameMarks
<1>5. CASE Workers
  BY <1>2, <1>5, WorkersKeepMarks
<1>6. ASSUME NEW p \in Invocations, OrganizerStep(p) \/ Crash(p)
      PROVE  Fresh(org[o])'
  <2>1. o = p
    OBVIOUS
  <2> QED BY <1>1, <1>6, <2>1
<1> QED BY <1>3, <1>4, <1>5, <1>6 DEF Next, Sqs

(* Whatever is sent was in a batch, and no batch has a checkpointed chunk.  *)
LEMMA OnlyFreshIsSent ==
  ASSUME LedgerInv, IntakeInv, AllFresh, [Next]_vars,
         NEW c \in Chunks, chunk[c].scheduled
  PROVE  sent'[c] = sent[c]
<1>1. sent \in [Chunks -> Nat]
  BY DEF IntakeInv, IntakeTypeOK
<1>2. ASSUME NEW S, Deliver(S), c \notin S PROVE sent'[c] = sent[c]
  <2>1. sent'[c] = sent[c] + 0
    BY <1>2 DEF Deliver
  <2> QED BY <1>1, <2>1
<1>3. ASSUME NEW o \in Invocations, Send(o) PROVE sent'[c] = sent[c]
  <2>1. c \notin org[o].batch
    BY <1>3 DEF AllFresh, Fresh, Send, At
  <2>2. ASSUME NEW F, SentSome(o, F) PROVE sent'[c] = sent[c]
    BY <1>2, <2>1, <2>2 DEF SentSome
  <2>3. CASE SentAll(o) \/ SendError(o)
    BY <1>2, <2>1, <2>3 DEF SentAll, SendError
  <2> QED BY <1>3, <2>2, <2>3 DEF Send
<1>4. ASSUME NEW o \in Invocations, OrganizerStep(o) \/ Crash(o), ~Send(o)
      PROVE  sent'[c] = sent[c]
  BY <1>4 DEF OrganizerStep, Admit, AdmitRead, Reclaim, Validate, ValidateRead,
     StartPlanning, PlanningRead, PlanTheJob, PlanAChunk, Seal, Load, Checkpoint,
     Checkpointed, Mark, MarkFailed, Crash
<1>5. CASE \E m \in Notices : Sqs(m) \/ Redeliver(m)
  BY <1>5 DEF Sqs, Receive, DeadLetter, Redeliver
<1>6. CASE Workers \/ LeaseRunsOut \/ ConfigChanges
  <2>1. CASE Workers
    BY <2>1 DEF Workers, intakeVars
  <2>2. CASE LeaseRunsOut \/ ConfigChanges
    BY <2>2 DEF LeaseRunsOut, ConfigChanges, intakeVars
  <2> QED BY <1>6, <2>1, <2>2
<1>7. CASE UNCHANGED vars
  BY <1>7 DEF vars, intakeVars
<1> QED BY <1>3, <1>4, <1>5, <1>6, <1>7 DEF Next

(* Of messages taken one at a time: a chunk with a checkpoint is not sent   *)
(* again, by whichever delivery, with any partial answers and retries.      *)
THEOREM CheckpointsEndSending ==
  ASSUME \A o, p \in Invocations : o = p
  PROVE  Spec => NoResendAfterCheckpoint
<1> DEFINE Both == LedgerInv /\ IntakeInv /\ AllFresh
           NotResent == \A c \in Chunks : chunk[c].scheduled => sent'[c] = sent[c]
<1>1. Init => Both
  <2>1. Init => AllFresh
    BY DEF Init, Idle, AllFresh, Fresh
  <2> QED BY <2>1, InvInit, IntakeInvInitially DEF Init
<1>2. Both /\ [Next]_vars => Both'
  BY IntakeWrites, InvStep, IntakeInvPreserved, FreshStep
<1>3. Both /\ [Next]_vars => [NotResent]_vars
  BY OnlyFreshIsSent
<1> QED BY <1>1, <1>2, <1>3, PTL DEF Spec, NoResendAfterCheckpoint
=============================================================================
