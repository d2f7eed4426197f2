-------------------------- MODULE JobLedgerProofs --------------------------
(***************************************************************************)
(* Proofs about JobLedger: for any number of chunks, callers,              *)
(* configurations and attempts.                                            *)
(***************************************************************************)
EXTENDS JobLedger, SumTheorems

USE DEF JobStatuses, ChunkStatuses, JobResults, TerminalJob, TerminalChunk,
        OpenForResults, LeasedStatuses

(* The values of every ledger item stay in their types.                     *)
LEMMA TypeInit == LedgerInit => LedgerTypeOK
<1> SUFFICES ASSUME LedgerInit PROVE LedgerTypeOK
  OBVIOUS
<1>1. job \in JobItem
  BY LedgerConstants DEF LedgerInit, NoJob, JobItem
<1>2. chunk \in [Chunks -> ChunkItem]
  BY LedgerConstants DEF LedgerInit, NoChunk, ChunkItem
<1>3. intent \in IntentItem /\ view \in [Callers -> View]
  BY DEF LedgerInit, NoIntent, IntentItem, NoView, View
<1> QED BY <1>1, <1>2, <1>3 DEF LedgerTypeOK

(* No operation of the ledger takes an item out of its type.                *)
LEMMA TypeStep == LedgerTypeOK /\ [LedgerNext]_ledgerVars => LedgerTypeOK'
<1> SUFFICES ASSUME LedgerTypeOK, [LedgerNext]_ledgerVars PROVE LedgerTypeOK'
  OBVIOUS
<1> USE DEF LedgerTypeOK
<1>1. CASE Admission
  <2>1. ASSUME NEW k \in Configs, AdmitPut(k) PROVE LedgerTypeOK'
    BY <2>1 DEF AdmitPut, JobItem
  <2>2. CASE LeaseExpires \/ ReclaimLease
    BY <2>2 DEF LeaseExpires, ReclaimLease, JobItem
  <2>3. CASE BeginValidation \/ BeginPlanning \/ RejectJob
    BY <2>3 DEF BeginValidation, BeginPlanning, RejectJob, AdvanceJob, JobItem
  <2> QED BY <1>1, <2>1, <2>2, <2>3 DEF Admission
<1>2. CASE Planning
  <2>1. ASSUME NEW k \in Configs, PlanJob(k) PROVE LedgerTypeOK'
    <3>1. ChunkCount[k] \in Nat
      BY LedgerConstants
    <3>2. job' \in JobItem
      BY <2>1, <3>1 DEF PlanJob, JobItem
    <3> QED BY <2>1, <3>2 DEF PlanJob
  <2>2. ASSUME NEW k \in Configs, NEW c \in Chunks, PlanChunk(k, c)
        PROVE  LedgerTypeOK'
    <3>1. [chunk[c] EXCEPT !.status = "PENDING", !.cfg = k] \in ChunkItem
      BY DEF ChunkItem
    <3> QED BY <2>2, <3>1 DEF PlanChunk
  <2>3. ASSUME NEW k \in Configs, SealManifest(k) PROVE LedgerTypeOK'
    BY <2>3 DEF SealManifest, JobItem
  <2>4. ASSUME NEW c \in Chunks, CheckpointChunk(c) PROVE LedgerTypeOK'
    BY <2>4 DEF CheckpointChunk, ChunkItem
  <2>5. CASE MarkScheduled \/ MarkSchedulingFailed
    BY <2>5 DEF MarkScheduled, MarkSchedulingFailed, JobItem
  <2> QED BY <1>2, <2>1, <2>2, <2>3, <2>4, <2>5 DEF Planning
<1>3. CASE Execution
  <2>1. ASSUME NEW c \in Chunks, NEW a \in Attempts, StartChunk(c, a)
        PROVE  LedgerTypeOK'
    <3>1. [chunk[c] EXCEPT !.status = "RUNNING", !.attempt = a] \in ChunkItem
      <4>1. a \in Nat /\ chunk[c] \in ChunkItem
        BY LedgerConstants
      <4> QED BY <4>1 DEF ChunkItem
    <3> QED BY <2>1, <3>1 DEF StartChunk
  <2>2. ASSUME NEW c \in Chunks, AcquireChunk(c) PROVE LedgerTypeOK'
    <3>1. chunk[c].attempt + 1 \in Nat
      BY DEF ChunkItem
    <3>2. [chunk[c] EXCEPT !.status = "RUNNING", !.attempt = chunk[c].attempt + 1]
            \in ChunkItem
      BY <3>1 DEF ChunkItem
    <3> QED BY <2>2, <3>2 DEF AcquireChunk
  <2>3. ASSUME NEW c \in Chunks, NEW a \in Attempts, NEW n \in Counts,
               CompleteChunk(c, a, n)
        PROVE  LedgerTypeOK'
    <3>1. n.published \in Nat /\ n.rejected \in Nat
      BY LedgerConstants
    <3>2. job' \in JobItem
      <4>1. /\ job.completed + 1 \in Nat
            /\ job.published + n.published \in Nat
            /\ job.rejected + n.rejected \in Nat
        BY <3>1 DEF JobItem
      <4> QED BY <2>3, <4>1 DEF CompleteChunk, JobItem
    <3>3. [chunk[c] EXCEPT !.status = "COMPLETED", !.published = n.published,
                           !.rejected = n.rejected] \in ChunkItem
      BY <3>1 DEF ChunkItem
    <3> QED BY <2>3, <3>2, <3>3 DEF CompleteChunk
  <2>4. ASSUME NEW c \in Chunks, NEW a \in Attempts, RetryChunk(c, a)
        PROVE  LedgerTypeOK'
    BY <2>4 DEF RetryChunk, ChunkItem
  <2>5. ASSUME NEW c \in Chunks, NEW a \in Attempts, FailChunk(c, a)
        PROVE  LedgerTypeOK'
    <3>1. job' \in JobItem
      <4>1. job.failed + 1 \in Nat
        BY DEF JobItem
      <4> QED BY <2>5, <4>1 DEF FailChunk, JobItem
    <3>2. [chunk[c] EXCEPT !.status = "FAILED"] \in ChunkItem
      BY DEF ChunkItem
    <3> QED BY <2>5, <3>1, <3>2 DEF FailChunk
  <2> QED BY <1>3, <2>1, <2>2, <2>3, <2>4, <2>5 DEF Execution
<1>4. CASE Completion
  <2>1. ASSUME NEW w \in Callers, ReadJob(w) \/ DropView(w)
        PROVE  LedgerTypeOK'
    <3>1. CASE ReadJob(w)
      BY <3>1 DEF ReadJob, View, JobItem
    <3>2. CASE DropView(w)
      BY <3>2 DEF DropView, NoView, View
    <3> QED BY <2>1, <3>1, <3>2
  <2>2. ASSUME NEW w \in Callers, FinalizeJob(w) PROVE LedgerTypeOK'
    <3>1. /\ TerminalOf(view[w]) \in {"COMPLETED", "FAILED"}
          /\ ResultOf(view[w]) \in JobResults
      BY DEF TerminalOf, ResultOf
    <3>2. job' \in JobItem
      BY <2>2, <3>1 DEF FinalizeJob, JobItem
    <3>3. intent' \in IntentItem /\ view' \in [Callers -> View]
      BY <2>2, <3>1 DEF FinalizeJob, IntentItem, NoView, View
    <3> QED BY <2>2, <3>2, <3>3 DEF FinalizeJob
  <2>3. CASE MarkDelivered
    BY <2>3 DEF MarkDelivered, IntentItem
  <2> QED BY <1>4, <2>1, <2>2, <2>3 DEF Completion
<1>5. CASE UNCHANGED ledgerVars
  BY <1>5 DEF ledgerVars
<1> QED BY <1>1, <1>2, <1>3, <1>4, <1>5 DEF LedgerNext

(* The type invariant of the ledger, for every instance.                    *)
THEOREM LedgerTypeCorrect == LedgerSpec => []LedgerTypeOK
  BY TypeInit, TypeStep, PTL DEF LedgerSpec

-----------------------------------------------------------------------------
(* The counters.                                                            *)

(* Every set of chunks is finite, so the counters can be compared with it.  *)
LEMMA ChunkSetsFinite ==
  ASSUME NEW S \in SUBSET Chunks
  PROVE  IsFiniteSet(S) /\ Cardinality(S) \in Nat
<1>1. IsFiniteSet(Chunks)
  BY LedgerConstants, FS_Interval DEF Chunks
<1> QED BY <1>1, FS_Subset, FS_CardinalityType

(* One chunk entering a state adds one to the number of chunks in it.       *)
LEMMA EnterState ==
  ASSUME NEW s, NEW c \in Chunks, chunk[c].status # s, chunk'[c].status = s,
         \A d \in Chunks \ {c} : chunk'[d].status = chunk[d].status
  PROVE  Cardinality(InState(s)') = Cardinality(InState(s)) + 1
<1>1. InState(s)' = InState(s) \cup {c} /\ c \notin InState(s)
  BY DEF InState
<1>2. IsFiniteSet(InState(s))
  BY ChunkSetsFinite DEF InState
<1> QED BY <1>1, <1>2, FS_AddElement

(* Before admission nothing is counted.                                     *)
LEMMA CountersInit == LedgerInit => CountersMatchChunks
<1> SUFFICES ASSUME LedgerInit PROVE CountersMatchChunks
  OBVIOUS
<1>1. InState("COMPLETED") = {} /\ InState("FAILED") = {}
  BY DEF LedgerInit, InState, NoChunk
<1> QED BY <1>1, FS_EmptySet DEF LedgerInit, NoJob, CountersMatchChunks

(* Every step counts a chunk exactly when the chunk enters that state.      *)
LEMMA CountersStep ==
  LedgerTypeOK /\ CountersMatchChunks /\ [LedgerNext]_ledgerVars
    => CountersMatchChunks'
<1> SUFFICES ASSUME LedgerTypeOK, CountersMatchChunks, [LedgerNext]_ledgerVars
             PROVE  CountersMatchChunks'
  OBVIOUS
<1> USE DEF CountersMatchChunks
<1>a. job \in JobItem /\ chunk \in [Chunks -> ChunkItem]
  BY DEF LedgerTypeOK
<1> DEFINE Quiet ==
      /\ job'.completed = job.completed /\ job'.failed = job.failed
      /\ \A c \in Chunks : \A s \in TerminalChunk :
           (chunk'[c].status = s) <=> (chunk[c].status = s)
<1>1. ASSUME Quiet PROVE CountersMatchChunks'
  <2>1. \A s \in TerminalChunk : InState(s)' = InState(s)
    BY <1>1 DEF InState
  <2> QED BY <1>1, <2>1
<1>2. CASE Admission
  BY <1>1, <1>2, <1>a DEF Admission, AdmitPut, LeaseExpires, ReclaimLease,
     BeginValidation, BeginPlanning, RejectJob, AdvanceJob, JobItem
<1>3. CASE Planning
  <2>1. ASSUME NEW k \in Configs, PlanJob(k) \/ SealManifest(k)
        PROVE  CountersMatchChunks'
    BY <1>1, <1>a, <2>1 DEF PlanJob, SealManifest, JobItem
  <2>2. ASSUME NEW k \in Configs, NEW c \in Chunks, PlanChunk(k, c)
        PROVE  CountersMatchChunks'
    BY <1>1, <1>a, <2>2 DEF PlanChunk, ChunkItem
  <2>3. ASSUME NEW c \in Chunks, CheckpointChunk(c) PROVE CountersMatchChunks'
    BY <1>1, <1>a, <2>3 DEF CheckpointChunk, ChunkItem
  <2>4. CASE MarkScheduled \/ MarkSchedulingFailed
    BY <1>1, <1>a, <2>4 DEF MarkScheduled, MarkSchedulingFailed, JobItem
  <2> QED BY <1>3, <2>1, <2>2, <2>3, <2>4 DEF Planning
<1>4. CASE Execution
  <2>1. ASSUME NEW c \in Chunks, NEW a \in Attempts,
               StartChunk(c, a) \/ RetryChunk(c, a)
        PROVE  CountersMatchChunks'
    BY <1>1, <1>a, <2>1 DEF StartChunk, CanStart, RetryChunk, HoldsChunk,
       ChunkItem
  <2>2. ASSUME NEW c \in Chunks, AcquireChunk(c) PROVE CountersMatchChunks'
    BY <1>1, <1>a, <2>2 DEF AcquireChunk, ChunkItem
  <2>3. ASSUME NEW c \in Chunks, NEW a \in Attempts, NEW n \in Counts,
               CompleteChunk(c, a, n)
        PROVE  CountersMatchChunks'
    <3>1. /\ chunk[c].status = "RUNNING" /\ chunk'[c].status = "COMPLETED"
          /\ \A d \in Chunks \ {c} : chunk'[d] = chunk[d]
          /\ job'.completed = job.completed + 1 /\ job'.failed = job.failed
      BY <1>a, <2>3 DEF CompleteChunk, CanComplete, HoldsChunk, JobItem, ChunkItem
    <3>2. Cardinality(InState("COMPLETED")') = Cardinality(InState("COMPLETED")) + 1
      BY <3>1, EnterState
    <3>3. InState("FAILED")' = InState("FAILED")
      BY <3>1 DEF InState
    <3> QED BY <3>1, <3>2, <3>3
  <2>4. ASSUME NEW c \in Chunks, NEW a \in Attempts, FailChunk(c, a)
        PROVE  CountersMatchChunks'
    <3>1. /\ chunk[c].status = "RUNNING" /\ chunk'[c].status = "FAILED"
          /\ \A d \in Chunks \ {c} : chunk'[d] = chunk[d]
          /\ job'.failed = job.failed + 1 /\ job'.completed = job.completed
      BY <1>a, <2>4 DEF FailChunk, CanFail, HoldsChunk, JobItem, ChunkItem
    <3>2. Cardinality(InState("FAILED")') = Cardinality(InState("FAILED")) + 1
      BY <3>1, EnterState
    <3>3. InState("COMPLETED")' = InState("COMPLETED")
      BY <3>1 DEF InState
    <3> QED BY <3>1, <3>2, <3>3
  <2> QED BY <1>4, <2>1, <2>2, <2>3, <2>4 DEF Execution
<1>5. CASE Completion
  <2>1. Quiet
    BY <1>5, <1>a DEF Completion, ReadJob, DropView, FinalizeJob, MarkDelivered,
       JobItem
  <2> QED BY <1>1, <2>1
<1>6. CASE UNCHANGED ledgerVars
  BY <1>1, <1>6 DEF ledgerVars
<1> QED BY <1>2, <1>3, <1>4, <1>5, <1>6 DEF LedgerNext

(* The counters of the job are exactly its finished chunks, for any number  *)
(* of attempts and invocations.                                             *)
THEOREM CountersCorrect == LedgerSpec => []CountersMatchChunks
<1>1. LedgerInit => LedgerTypeOK /\ CountersMatchChunks
  BY TypeInit, CountersInit
<1>2. /\ LedgerTypeOK /\ CountersMatchChunks
      /\ [LedgerNext]_ledgerVars
      => LedgerTypeOK' /\ CountersMatchChunks'
  BY TypeStep, CountersStep
<1> QED BY <1>1, <1>2, PTL DEF LedgerSpec

-----------------------------------------------------------------------------
(* The inductive invariant.  Each lemma below shows that one of its parts   *)
(* survives every step taken from a state in which all of them hold.        *)

(* The invariant holds before the job is admitted.                          *)
LEMMA InvInit == LedgerInit => LedgerInv
<1> SUFFICES ASSUME LedgerInit PROVE LedgerInv
  OBVIOUS
<1>1. LedgerTypeOK /\ CountersMatchChunks
  BY TypeInit, CountersInit
<1>2. PlanShape /\ SealShape
  BY LedgerConstants DEF LedgerInit, PlanShape, SealShape, NoJob, NoChunk, Planned
<1>3. ViewsAreSettled /\ TerminalShape /\ OutboxMatchesJob
  BY DEF LedgerInit, ViewsAreSettled, TerminalShape, OutboxMatchesJob,
     NoJob, NoView, NoIntent
<1> QED BY <1>1, <1>2, <1>3 DEF LedgerInv

(* Plan's transactions keep the chunk items inside the manifest.            *)
LEMMA PlanShapeStep == LedgerInv /\ [LedgerNext]_ledgerVars => PlanShape'
<1> SUFFICES ASSUME LedgerInv, [LedgerNext]_ledgerVars PROVE PlanShape'
  OBVIOUS
<1> USE DEF PlanShape
<1>a. job \in JobItem /\ chunk \in [Chunks -> ChunkItem] /\ PlanShape
  BY DEF LedgerInv, LedgerTypeOK
<1>1. ASSUME /\ job'.planned = job.planned /\ job'.expected = job.expected
             /\ job'.sealed = job.sealed /\ job'.cfg = job.cfg
             /\ job.planned => job'.status \notin
                                 {"ABSENT", "RECEIVED", "VALIDATING", "REJECTED"}
             /\ \A c \in Chunks : (chunk'[c].status = "ABSENT")
                                     <=> (chunk[c].status = "ABSENT")
      PROVE  PlanShape'
  <2>1. Planned' = Planned
    BY <1>1 DEF Planned
  <2> QED BY <1>a, <1>1, <2>1
<1>2. CASE Admission
  <2>1. ASSUME NEW k \in Configs, AdmitPut(k) PROVE PlanShape'
    BY <1>a, <2>1 DEF AdmitPut, JobItem, Planned
  <2>2. CASE LeaseExpires \/ ReclaimLease
    BY <1>1, <1>a, <2>2 DEF LeaseExpires, ReclaimLease, JobItem
  <2>3. CASE BeginValidation \/ BeginPlanning \/ RejectJob
    BY <1>1, <1>a, <2>3 DEF BeginValidation, BeginPlanning, RejectJob,
       AdvanceJob, JobItem
  <2> QED BY <1>2, <2>1, <2>2, <2>3 DEF Admission
<1>3. CASE Planning
  <2>1. ASSUME NEW k \in Configs, PlanAllowed(k), PlanJob(k) PROVE PlanShape'
    <3>1. ChunkCount[k] \in 0..MaxChunks /\ k # NoConfig
      BY LedgerConstants
    <3>2. Planned' = Planned
      BY <2>1 DEF PlanJob, Planned
    <3>3. /\ job'.planned /\ job'.expected = ChunkCount[k]
          /\ job'.sealed = job.sealed /\ job'.cfg # NoConfig
          /\ job'.status \notin {"ABSENT", "RECEIVED", "VALIDATING", "REJECTED"}
          /\ job.planned => job'.expected = job.expected
      BY <1>a, <2>1, <3>1 DEF PlanJob, CanPlanJob, PlanAllowed, JobItem
    <3>4. job.expected = 0 => Planned = {}
      BY <1>a
    <3> QED BY <1>a, <3>1, <3>2, <3>3, <3>4
  <2>2. ASSUME NEW k \in Configs, NEW c \in Chunks,
               ChunkAllowed(k, c), PlanChunk(k, c)
        PROVE  PlanShape'
    <3>1. c \in 1..job.expected /\ job' = job
      BY <2>2 DEF ChunkAllowed, PlanChunk, ManifestOf
    <3>2. Planned' = Planned \cup {c}
      BY <1>a, <2>2 DEF PlanChunk, Planned, ChunkItem
    <3> QED BY <1>a, <3>1, <3>2
  <2>3. ASSUME NEW k \in Configs, SealAllowed(k), SealManifest(k)
        PROVE  PlanShape'
    <3>1. job.planned /\ job.expected = ChunkCount[k]
      BY <2>3 DEF SealManifest, CanSeal
    <3>2. 1..job.expected \subseteq Chunks
      BY <1>a, LedgerConstants DEF Chunks
    <3>3. Planned = 1..job.expected
      BY <1>a, <2>3, <3>1, <3>2 DEF SealAllowed, ManifestOf, Planned
    <3>4. Planned' = Planned /\ job' = [job EXCEPT !.sealed = TRUE, !.status = "PENDING"]
      BY <2>3 DEF SealManifest, Planned
    <3> QED BY <1>a, <3>1, <3>3, <3>4 DEF JobItem
  <2>4. ASSUME NEW c \in Chunks, CheckpointChunk(c) PROVE PlanShape'
    BY <1>1, <1>a, <2>4 DEF CheckpointChunk, ChunkItem
  <2>5. CASE MarkScheduled \/ MarkSchedulingFailed
    BY <1>1, <1>a, <2>5 DEF MarkScheduled, MarkSchedulingFailed, JobItem
  <2> QED BY <1>3, <2>1, <2>2, <2>3, <2>4, <2>5 DEF Planning
<1>4. CASE Execution
  <2>1. ASSUME NEW c \in Chunks, NEW a \in Attempts,
               StartChunk(c, a) \/ RetryChunk(c, a)
        PROVE  PlanShape'
    BY <1>1, <1>a, <2>1 DEF StartChunk, CanStart, RetryChunk, HoldsChunk, ChunkItem
  <2>2. ASSUME NEW c \in Chunks, AcquireChunk(c) PROVE PlanShape'
    BY <1>1, <1>a, <2>2 DEF AcquireChunk, ChunkItem
  <2>3. ASSUME NEW c \in Chunks, NEW a \in Attempts, NEW n \in Counts,
               CompleteChunk(c, a, n)
        PROVE  PlanShape'
    BY <1>1, <1>a, <2>3 DEF CompleteChunk, CanComplete, HoldsChunk, JobItem, ChunkItem
  <2>4. ASSUME NEW c \in Chunks, NEW a \in Attempts, FailChunk(c, a)
        PROVE  PlanShape'
    BY <1>1, <1>a, <2>4 DEF FailChunk, CanFail, HoldsChunk, JobItem, ChunkItem
  <2> QED BY <1>4, <2>1, <2>2, <2>3, <2>4 DEF Execution
<1>5. CASE Completion
  <2>1. ASSUME NEW w \in Callers, FinalizeJob(w) PROVE PlanShape'
    BY <1>1, <1>a, <2>1 DEF FinalizeJob, TerminalOf, JobItem
  <2>2. ASSUME NEW w \in Callers, ReadJob(w) \/ DropView(w) PROVE PlanShape'
    BY <1>1, <1>a, <2>2 DEF ReadJob, DropView
  <2>3. CASE MarkDelivered
    BY <1>1, <1>a, <2>3 DEF MarkDelivered
  <2> QED BY <1>5, <2>1, <2>2, <2>3 DEF Completion
<1>6. CASE UNCHANGED ledgerVars
  BY <1>1, <1>6, <1>a DEF ledgerVars
<1> QED BY <1>2, <1>3, <1>4, <1>5, <1>6 DEF LedgerNext

(* Once sealed, a job never goes back to planning and its manifest stays.   *)
LEMMA SealShapeStep == LedgerInv /\ [LedgerNext]_ledgerVars => SealShape'
<1> SUFFICES ASSUME LedgerInv, [LedgerNext]_ledgerVars PROVE SealShape'
  OBVIOUS
<1> USE DEF SealShape
<1>a. job \in JobItem /\ chunk \in [Chunks -> ChunkItem] /\ PlanShape /\ SealShape
  BY DEF LedgerInv, LedgerTypeOK
<1>2. CASE Admission
  BY <1>2, <1>a DEF Admission, AdmitPut, LeaseExpires, ReclaimLease, CanReclaim,
     BeginValidation, BeginPlanning, RejectJob, AdvanceJob, JobItem
<1>3. CASE Planning
  <2>1. ASSUME NEW k \in Configs, PlanJob(k) PROVE SealShape'
    BY <1>a, <2>1 DEF PlanJob, JobItem
  <2>2. ASSUME NEW k \in Configs, NEW c \in Chunks, PlanChunk(k, c)
        PROVE  SealShape'
    BY <1>a, <2>2 DEF PlanChunk, ChunkItem
  <2>3. ASSUME NEW k \in Configs, SealManifest(k) PROVE SealShape'
    BY <1>a, <2>3 DEF SealManifest, JobItem
  <2>4. ASSUME NEW c \in Chunks, CheckpointChunk(c) PROVE SealShape'
    BY <1>a, <2>4 DEF CheckpointChunk, ChunkItem
  <2>5. CASE MarkScheduled \/ MarkSchedulingFailed
    BY <1>a, <2>5 DEF MarkScheduled, MarkSchedulingFailed, CanMarkScheduled,
       CanMarkSchedulingFailed, JobItem
  <2> QED BY <1>3, <2>1, <2>2, <2>3, <2>4, <2>5 DEF Planning
<1>4. CASE Execution
  <2>1. job.sealed
    BY <1>4, <1>a DEF Execution, CompleteChunk, CanComplete, RetryChunk,
       FailChunk, CanFail, HoldsChunk
  <2>2. job' = job \/ (job'.sealed = job.sealed /\ job'.status = "RUNNING")
    BY <1>4, <1>a DEF Execution, StartChunk, AcquireChunk, CompleteChunk,
       RetryChunk, FailChunk, JobItem
  <2> QED BY <1>a, <2>1, <2>2
<1>5. CASE Completion
  <2>1. ASSUME NEW w \in Callers, FinalizeJob(w) PROVE SealShape'
    BY <1>a, <2>1 DEF FinalizeJob, CanFinalize, TerminalOf, JobItem
  <2> QED BY <1>5, <1>a, <2>1 DEF Completion, ReadJob, DropView, MarkDelivered
<1>6. CASE UNCHANGED ledgerVars
  BY <1>6, <1>a DEF ledgerVars
<1> QED BY <1>2, <1>3, <1>4, <1>5, <1>6 DEF LedgerNext

(* A step that adds nothing to the counters and totals of a sealed job      *)
(* leaves every read of it as settled as it was.                            *)
LEMMA ViewsStep == LedgerInv /\ [LedgerNext]_ledgerVars => ViewsAreSettled'
<1> SUFFICES ASSUME LedgerInv, [LedgerNext]_ledgerVars PROVE ViewsAreSettled'
  OBVIOUS
<1> USE DEF ViewsAreSettled
<1>a. /\ job \in JobItem /\ view \in [Callers -> View]
      /\ PlanShape /\ SealShape /\ ViewsAreSettled
  BY DEF LedgerInv, LedgerTypeOK
<1>1. ASSUME view' = view, job.sealed => job'.sealed /\ job'.expected = job.expected,
             /\ job'.completed = job.completed /\ job'.failed = job.failed
             /\ job'.published = job.published /\ job'.rejected = job.rejected
      PROVE  ViewsAreSettled'
  BY <1>a, <1>1
<1>2. CASE Admission
  <2>1. ASSUME NEW k \in Configs, AdmitPut(k) PROVE ViewsAreSettled'
    BY <1>1, <1>a, <2>1 DEF AdmitPut, JobItem
  <2>2. CASE LeaseExpires \/ ReclaimLease
    BY <1>1, <1>a, <2>2 DEF LeaseExpires, ReclaimLease, JobItem
  <2>3. CASE BeginValidation \/ BeginPlanning \/ RejectJob
    BY <1>1, <1>a, <2>3 DEF BeginValidation, BeginPlanning, RejectJob, AdvanceJob, JobItem
  <2> QED BY <1>2, <2>1, <2>2, <2>3 DEF Admission
<1>3. CASE Planning
  <2>1. ASSUME NEW k \in Configs, PlanJob(k) PROVE ViewsAreSettled'
    <3>1. job.sealed => ChunkCount[k] = job.expected
      BY <1>a, <2>1 DEF PlanJob, CanPlanJob, PlanShape
    <3> QED BY <1>1, <1>a, <2>1, <3>1 DEF PlanJob, JobItem
  <2>2. ASSUME NEW k \in Configs, SealManifest(k) PROVE ViewsAreSettled'
    BY <1>1, <1>a, <2>2 DEF SealManifest, JobItem
  <2>3. CASE MarkScheduled \/ MarkSchedulingFailed
    BY <1>1, <1>a, <2>3 DEF MarkScheduled, MarkSchedulingFailed, JobItem
  <2> QED BY <1>1, <1>3, <2>1, <2>2, <2>3 DEF Planning, PlanChunk, CheckpointChunk
<1>4. CASE Execution
  <2>1. ASSUME NEW c \in Chunks, NEW a \in Attempts, NEW n \in Counts,
               CompleteChunk(c, a, n)
        PROVE  ViewsAreSettled'
    <3>1. /\ job'.completed = job.completed + 1 /\ job'.failed = job.failed
          /\ job'.sealed = job.sealed /\ job'.expected = job.expected
          /\ view' = view
      BY <1>a, <2>1 DEF CompleteChunk, JobItem
    <3>2. ASSUME NEW w \in Callers, view[w].active
          PROVE  view[w].completed \in Nat /\ view[w].completed < job'.completed
      BY <1>a, <3>1, <3>2 DEF View, JobItem
    <3> QED BY <1>a, <3>1, <3>2 DEF View, JobItem
  <2>2. ASSUME NEW c \in Chunks, NEW a \in Attempts, FailChunk(c, a)
        PROVE  ViewsAreSettled'
    <3>1. /\ job'.completed = job.completed /\ job'.failed = job.failed + 1
          /\ job'.sealed = job.sealed /\ job'.expected = job.expected
          /\ job'.published = job.published /\ job'.rejected = job.rejected
          /\ view' = view
      BY <1>a, <2>2 DEF FailChunk, JobItem
    <3> QED BY <1>a, <3>1 DEF View, JobItem
  <2> QED BY <1>1, <1>4, <2>1, <2>2 DEF Execution, StartChunk, AcquireChunk, RetryChunk
<1>5. CASE Completion
  <2>1. ASSUME NEW w \in Callers, ReadJob(w) PROVE ViewsAreSettled'
    BY <1>a, <2>1 DEF ReadJob, ReadyToFinalize, JobItem
  <2>2. ASSUME NEW w \in Callers, DropView(w) PROVE ViewsAreSettled'
    BY <1>a, <2>2 DEF DropView, NoView
  <2>3. ASSUME NEW w \in Callers, FinalizeJob(w) PROVE ViewsAreSettled'
    <3>1. /\ job'.completed = job.completed /\ job'.failed = job.failed
          /\ job'.sealed = job.sealed /\ job'.expected = job.expected
          /\ job'.published = job.published /\ job'.rejected = job.rejected
          /\ view' = [view EXCEPT ![w] = NoView]
      BY <1>a, <2>3 DEF FinalizeJob, JobItem
    <3> QED BY <1>a, <3>1 DEF NoView
  <2>4. CASE MarkDelivered
    BY <1>1, <2>4 DEF MarkDelivered
  <2> QED BY <1>5, <2>1, <2>2, <2>3, <2>4 DEF Completion
<1>6. CASE UNCHANGED ledgerVars
  BY <1>1, <1>6 DEF ledgerVars
<1> QED BY <1>2, <1>3, <1>4, <1>5, <1>6 DEF LedgerNext

(* Every step other than the finalising transaction leaves a finished job   *)
(* as it is, and finishes none.                                             *)
Untouched ==
  /\ (job'.status \in {"COMPLETED", "FAILED"})
       <=> (job.status \in {"COMPLETED", "FAILED"})
  /\ job.status \in TerminalJob => job' = job
  /\ \/ intent' = intent
     \/ intent.state = "pending" /\ intent' = [intent EXCEPT !.state = "delivered"]

(* Only ReconcileCompletion's transaction ends a sealed job.                *)
LEMMA OnlyFinalizeEnds ==
  LedgerInv /\ [LedgerNext]_ledgerVars
    => Untouched \/ \E w \in Callers : FinalizeJob(w)
<1> SUFFICES ASSUME LedgerInv, [LedgerNext]_ledgerVars,
                    ~ \E w \in Callers : FinalizeJob(w)
             PROVE  Untouched
  OBVIOUS
<1> USE DEF Untouched
<1>a. job \in JobItem /\ PlanShape /\ SealShape /\ TerminalShape
  BY DEF LedgerInv, LedgerTypeOK
<1>1. CASE Admission
  BY <1>1, <1>a DEF Admission, AdmitPut, LeaseExpires, ReclaimLease, CanReclaim,
     BeginValidation, BeginPlanning, RejectJob, AdvanceJob, JobItem
<1>2. CASE Planning
  <2>1. ASSUME NEW k \in Configs, PlanAllowed(k), PlanJob(k) PROVE Untouched
    <3>1. CASE job.status \in {"COMPLETED", "FAILED"}
      <4>1. /\ job.status # "ABSENT" /\ job.cfg # NoConfig
            /\ job.planned = TRUE /\ job.expected = ChunkCount[k]
        BY <1>a, <2>1, <3>1 DEF PlanJob, CanPlanJob, PlanShape, SealShape, JobItem
      <4>2. job' = [job EXCEPT !.status = job.status, !.cfg = job.cfg,
                               !.planned = job.planned, !.expected = job.expected]
        BY <2>1, <4>1 DEF PlanJob
      <4>3. job' = job
        BY <1>a, <4>2 DEF JobItem
      <4> QED BY <2>1, <4>3 DEF PlanJob
    <3>2. CASE job.status \notin {"COMPLETED", "FAILED"}
      BY <1>a, <2>1, <3>2 DEF PlanJob, PlanAllowed, JobItem
    <3> QED BY <3>1, <3>2
  <2>2. ASSUME NEW k \in Configs, SealManifest(k) PROVE Untouched
    <3>1. ~job.sealed /\ job.planned
      BY <2>2 DEF SealManifest, CanSeal
    <3>2. job.status \notin TerminalJob
      BY <1>a, <3>1 DEF PlanShape, SealShape
    <3> QED BY <1>a, <2>2, <3>2 DEF SealManifest, JobItem
  <2>3. CASE MarkScheduled \/ MarkSchedulingFailed
    BY <1>a, <2>3 DEF MarkScheduled, MarkSchedulingFailed, CanMarkScheduled,
       CanMarkSchedulingFailed, JobItem
  <2> QED BY <1>2, <2>1, <2>2, <2>3 DEF Planning, PlanChunk, CheckpointChunk
<1>3. CASE Execution
  BY <1>3, <1>a DEF Execution, StartChunk, AcquireChunk, CompleteChunk,
     CanComplete, RetryChunk, FailChunk, CanFail, JobItem
<1>4. CASE Completion
  BY <1>4, <1>a DEF Completion, ReadJob, DropView, MarkDelivered
<1>5. CASE UNCHANGED ledgerVars
  BY <1>5 DEF ledgerVars
<1> QED BY <1>1, <1>2, <1>3, <1>4, <1>5 DEF LedgerNext

(* The job and its intent become terminal together.                         *)
LEMMA TerminalStep ==
  LedgerInv /\ [LedgerNext]_ledgerVars => TerminalShape' /\ OutboxMatchesJob'
<1> SUFFICES ASSUME LedgerInv, [LedgerNext]_ledgerVars
             PROVE  TerminalShape' /\ OutboxMatchesJob'
  OBVIOUS
<1>a. /\ job \in JobItem /\ intent \in IntentItem /\ view \in [Callers -> View]
      /\ ViewsAreSettled /\ TerminalShape /\ OutboxMatchesJob
  BY DEF LedgerInv, LedgerTypeOK
<1>1. CASE Untouched
  <2>1. TerminalShape'
    BY <1>a, <1>1 DEF Untouched, TerminalShape
  <2>2. OutboxMatchesJob'
    BY <1>a, <1>1 DEF Untouched, OutboxMatchesJob, IntentItem
  <2> QED BY <2>1, <2>2
<1>2. ASSUME NEW w \in Callers, FinalizeJob(w)
      PROVE  TerminalShape' /\ OutboxMatchesJob'
  <2> DEFINE v == view[w]
  <2>1. /\ v \in View /\ job.sealed
        /\ v.completed = job.completed /\ v.failed = job.failed
        /\ v.published = job.published /\ v.rejected = job.rejected
        /\ job.completed + job.failed >= job.expected
    BY <1>a, <1>2 DEF FinalizeJob, CanFinalize, ViewsAreSettled
  <2>2. /\ job' = [job EXCEPT !.status = TerminalOf(v), !.result = ResultOf(v)]
        /\ intent' = [state |-> "pending", status |-> TerminalOf(v),
                      result |-> ResultOf(v), published |-> v.published,
                      rejected |-> v.rejected]
    BY <1>2 DEF FinalizeJob
  <2>3. /\ job'.status = TerminalOf(v) /\ job'.result = ResultOf(v)
        /\ job'.sealed = job.sealed /\ job'.expected = job.expected
        /\ job'.completed = job.completed /\ job'.failed = job.failed
        /\ job'.published = job.published /\ job'.rejected = job.rejected
    BY <1>a, <2>2 DEF JobItem
  <2>4. /\ TerminalOf(v) \in {"COMPLETED", "FAILED"}
        /\ (TerminalOf(v) = "FAILED") <=> (v.failed > 0)
        /\ (ResultOf(v) = "none") <=> (TerminalOf(v) = "FAILED")
    BY DEF TerminalOf, ResultOf
  <2>5. TerminalShape'
    BY <2>1, <2>3, <2>4 DEF TerminalShape
  <2>6. OutboxMatchesJob'
    BY <2>1, <2>2, <2>3, <2>4 DEF OutboxMatchesJob
  <2> QED BY <2>5, <2>6
<1> QED BY <1>1, <1>2, OnlyFinalizeEnds

(* The parts of the invariant are inductive together.                       *)
LEMMA InvStep == LedgerInv /\ [LedgerNext]_ledgerVars => LedgerInv'
<1> SUFFICES ASSUME LedgerInv, [LedgerNext]_ledgerVars PROVE LedgerInv'
  OBVIOUS
<1>1. LedgerTypeOK' /\ CountersMatchChunks'
  BY TypeStep, CountersStep DEF LedgerInv
<1>2. PlanShape' /\ SealShape' /\ ViewsAreSettled'
  BY PlanShapeStep, SealShapeStep, ViewsStep
<1>3. TerminalShape' /\ OutboxMatchesJob'
  BY TerminalStep
<1> QED BY <1>1, <1>2, <1>3 DEF LedgerInv

(* The inductive invariant holds in every reachable state.                  *)
THEOREM LedgerInvariant == LedgerSpec => []LedgerInv
  BY InvInit, InvStep, PTL DEF LedgerSpec

-----------------------------------------------------------------------------
(* What follows from the invariant.                                         *)

(* Disjoint sets of chunks add up.                                          *)
LEMMA DisjointUnion ==
  ASSUME NEW S \in SUBSET Chunks, NEW T \in SUBSET Chunks, S \cap T = {}
  PROVE  Cardinality(S \cup T) = Cardinality(S) + Cardinality(T)
<1>1. IsFiniteSet(S) /\ IsFiniteSet(T)
  BY ChunkSetsFinite
<1>2. Cardinality(S \cap T) = 0
  BY FS_EmptySet
<1>3. Cardinality(S) \in Nat /\ Cardinality(T) \in Nat
  BY ChunkSetsFinite
<1>4. Cardinality(S \cup T)
        = Cardinality(S) + Cardinality(T) - Cardinality(S \cap T)
  BY <1>1, FS_Union
<1> QED BY <1>2, <1>3, <1>4

(* A sealed manifest has as many planned chunks as expectedChunks says.     *)
LEMMA SealedManifest ==
  ASSUME LedgerInv, job.sealed
  PROVE  /\ Planned \in SUBSET Chunks
         /\ Cardinality(Planned) = job.expected
         /\ job.expected \in Nat
<1>1. job.expected \in Nat /\ Planned = 1..job.expected
  BY DEF LedgerInv, PlanShape
<1>2. Cardinality(1..job.expected) = job.expected
  BY <1>1, FS_Interval
<1> QED BY <1>1, <1>2 DEF Planned

(* The counters count exactly the finished chunks, so when they reach the   *)
(* expected number no chunk is left: a set of finished chunks as large as   *)
(* the manifest is the manifest.                                            *)
LEMMA AllChunksFinished ==
  ASSUME LedgerInv, job.sealed, job.completed + job.failed >= job.expected
  PROVE  /\ InState("COMPLETED") \cup InState("FAILED") = Planned
         /\ Cardinality(Planned) = job.expected
         /\ (job.failed > 0) <=> (InState("FAILED") # {})
<1> DEFINE C == InState("COMPLETED")
           F == InState("FAILED")
<1>2. job.completed = Cardinality(C) /\ job.failed = Cardinality(F)
  BY DEF LedgerInv, CountersMatchChunks
<1>3. C \in SUBSET Chunks /\ F \in SUBSET Chunks /\ C \cap F = {}
  BY DEF InState
<1>4. Cardinality(C \cup F) = Cardinality(C) + Cardinality(F)
  BY <1>3, DisjointUnion
<1>5. /\ Planned \in SUBSET Chunks /\ Cardinality(Planned) = job.expected
      /\ job.expected \in Nat
  BY SealedManifest
<1>6. C \cup F \subseteq Planned
  BY DEF InState, Planned
<1>7. C \cup F = Planned
  <2>1. IsFiniteSet(Planned)
    BY <1>5, ChunkSetsFinite
  <2>2. /\ Cardinality(C \cup F) <= Cardinality(Planned)
        /\ Cardinality(Planned) = Cardinality(C \cup F) => Planned = C \cup F
    BY <1>6, <2>1, FS_Subset
  <2>3. Cardinality(C \cup F) \in Nat
    BY <1>3, ChunkSetsFinite
  <2> QED BY <1>2, <1>4, <1>5, <2>2, <2>3
<1>8. (job.failed > 0) <=> (F # {})
  <2>1. Cardinality(F) \in Nat /\ IsFiniteSet(F)
    BY <1>3, ChunkSetsFinite
  <2> QED BY <1>2, <2>1, FS_EmptySet
<1> QED BY <1>5, <1>7, <1>8

(* A terminal job has no chunk left, and is FAILED when one was lost.       *)
LEMMA SettledFromInv == LedgerInv => TerminalIsSettled
<1> SUFFICES ASSUME LedgerInv, job.status \in {"COMPLETED", "FAILED"}
             PROVE  /\ job.sealed
                    /\ \A c \in Planned : chunk[c].status \in TerminalChunk
                    /\ Cardinality(Planned) = job.expected
                    /\ (job.status = "FAILED") <=> (InState("FAILED") # {})
  BY DEF TerminalIsSettled
<1>1. /\ job.sealed /\ job.completed + job.failed >= job.expected
      /\ (job.status = "FAILED") <=> (job.failed > 0)
  BY DEF LedgerInv, TerminalShape
<1>2. /\ InState("COMPLETED") \cup InState("FAILED") = Planned
      /\ Cardinality(Planned) = job.expected
      /\ (job.failed > 0) <=> (InState("FAILED") # {})
  BY <1>1, AllChunksFinished
<1> QED BY <1>1, <1>2 DEF InState

(* The five chunk states partition the planned chunks of a sealed job.      *)
LEMMA AccountedFromInv == LedgerInv => ManifestAccounted
<1> SUFFICES ASSUME LedgerInv, job.sealed
             PROVE  job.expected = Cardinality(InState("PENDING"))
                                   + Cardinality(InState("RUNNING"))
                                   + Cardinality(InState("RETRY_PENDING"))
                                   + job.completed + job.failed
  BY DEF ManifestAccounted
<1> DEFINE P == InState("PENDING")
           R == InState("RUNNING")
           T == InState("RETRY_PENDING")
           C == InState("COMPLETED")
           F == InState("FAILED")
<1>1. /\ P \in SUBSET Chunks /\ R \in SUBSET Chunks /\ T \in SUBSET Chunks
      /\ C \in SUBSET Chunks /\ F \in SUBSET Chunks
  BY DEF InState
<1>2. /\ P \cap R = {} /\ (P \cup R) \cap T = {}
      /\ (P \cup R \cup T) \cap C = {} /\ (P \cup R \cup T \cup C) \cap F = {}
  BY DEF InState
<1>3. Cardinality(P \cup R) = Cardinality(P) + Cardinality(R)
  BY <1>1, <1>2, DisjointUnion
<1>4. Cardinality(P \cup R \cup T) = Cardinality(P \cup R) + Cardinality(T)
  BY <1>1, <1>2, DisjointUnion
<1>5. Cardinality(P \cup R \cup T \cup C)
        = Cardinality(P \cup R \cup T) + Cardinality(C)
  BY <1>1, <1>2, DisjointUnion
<1>6. Cardinality(P \cup R \cup T \cup C \cup F)
        = Cardinality(P \cup R \cup T \cup C) + Cardinality(F)
  BY <1>1, <1>2, DisjointUnion
<1>7. P \cup R \cup T \cup C \cup F = Planned
  <2>1. \A c \in Chunks : chunk[c].status \in ChunkStatuses
    BY DEF LedgerInv, LedgerTypeOK, ChunkItem
  <2> QED BY <2>1 DEF InState, Planned
<1>8. Cardinality(Planned) = job.expected
  BY SealedManifest
<1>9. job.completed = Cardinality(C) /\ job.failed = Cardinality(F)
  BY DEF LedgerInv, CountersMatchChunks
<1> QED BY <1>3, <1>4, <1>5, <1>6, <1>7, <1>8, <1>9

(* A job is terminal only when every chunk of its sealed manifest is, and   *)
(* FAILED exactly when a chunk failed.                                      *)
THEOREM TerminalJobsAreSettled == LedgerSpec => []TerminalIsSettled
  BY LedgerInvariant, SettledFromInv, PTL

(* expectedChunks is always accounted for by the five chunk states.         *)
THEOREM ManifestsAreAccounted == LedgerSpec => []ManifestAccounted
  BY LedgerInvariant, AccountedFromInv, PTL

(* The outbox holds an intent exactly for finished jobs, with their state   *)
(* and totals.                                                              *)
THEOREM OutboxIsExact == LedgerSpec => []OutboxMatchesJob
<1>1. LedgerInv => OutboxMatchesJob
  BY DEF LedgerInv
<1> QED BY <1>1, LedgerInvariant, PTL

-----------------------------------------------------------------------------
(* What no step may do.                                                     *)

(* No step changes a terminal job, its finished chunks or its event.        *)
LEMMA TerminalStays ==
  LedgerInv /\ [LedgerNext]_ledgerVars =>
    (job.status \in TerminalJob =>
       /\ job' = job
       /\ \A c \in Chunks : chunk[c].status \in TerminalChunk
                              => chunk'[c] = chunk[c]
       /\ EventOf(intent') = EventOf(intent))
<1> SUFFICES ASSUME LedgerInv, [LedgerNext]_ledgerVars, job.status \in TerminalJob
             PROVE  /\ job' = job
                    /\ \A c \in Chunks : chunk[c].status \in TerminalChunk
                                           => chunk'[c] = chunk[c]
                    /\ EventOf(intent') = EventOf(intent)
  OBVIOUS
<1>1. Untouched
  BY OnlyFinalizeEnds DEF FinalizeJob, CanFinalize
<1>2. job' = job
  BY <1>1 DEF Untouched
<1>3. EventOf(intent') = EventOf(intent)
  BY <1>1 DEF Untouched, EventOf, LedgerInv, LedgerTypeOK, IntentItem
<1>4. ASSUME NEW c \in Chunks, chunk[c].status \in TerminalChunk
      PROVE  chunk'[c] = chunk[c]
  <2>a. chunk \in [Chunks -> ChunkItem]
    BY DEF LedgerInv, LedgerTypeOK
  <2>1. CASE Planning
    <3>1. ASSUME NEW d \in Chunks, CheckpointChunk(d) PROVE chunk'[c] = chunk[c]
      BY <1>4, <2>a, <3>1 DEF CheckpointChunk, CanCheckpoint
    <3>2. ASSUME NEW k \in Configs, NEW d \in Chunks, PlanChunk(k, d)
          PROVE  chunk'[c] = chunk[c]
      BY <1>4, <2>a, <3>2 DEF PlanChunk
    <3> QED BY <2>1, <3>1, <3>2 DEF Planning, PlanJob, SealManifest,
            MarkScheduled, MarkSchedulingFailed
  <2>2. CASE Execution
    BY <1>4, <2>a, <2>2 DEF Execution, StartChunk, CanStart, AcquireChunk,
       CompleteChunk, CanComplete, RetryChunk, FailChunk, CanFail, HoldsChunk
  <2>3. CASE Admission \/ Completion \/ UNCHANGED ledgerVars
    BY <2>3 DEF Admission, AdmitPut, LeaseExpires, ReclaimLease, BeginValidation,
       BeginPlanning, RejectJob, AdvanceJob, Completion, ReadJob, DropView,
       FinalizeJob, MarkDelivered, ledgerVars
  <2> QED BY <2>1, <2>2, <2>3 DEF LedgerNext
<1> QED BY <1>2, <1>3, <1>4

(* Terminals never regress: no late planning, scheduling, result or second  *)
(* finalisation changes a finished job, its finished chunks or its event.   *)
THEOREM TerminalsNeverRegress == LedgerSpec => TerminalNeverRegresses
<1>1. LedgerInv /\ [LedgerNext]_ledgerVars
        => [job.status \in TerminalJob =>
              /\ job' = job
              /\ \A c \in Chunks : chunk[c].status \in TerminalChunk
                                     => chunk'[c] = chunk[c]
              /\ EventOf(intent') = EventOf(intent)]_ledgerVars
  BY TerminalStays
<1> QED BY <1>1, LedgerInvariant, PTL DEF LedgerSpec, TerminalNeverRegresses

(* Every step moves a chunk along an edge of chunkTransitions.              *)
LEMMA ChunkEdge ==
  LedgerInv /\ [LedgerNext]_ledgerVars =>
    \A c \in Chunks :
      \/ chunk[c].status \in {"ABSENT", chunk'[c].status}
      \/ <<chunk[c].status, chunk'[c].status>> \in ChunkTransitions
<1> SUFFICES ASSUME LedgerInv, [LedgerNext]_ledgerVars, NEW c \in Chunks,
                    chunk[c].status # "ABSENT", chunk'[c].status # chunk[c].status
             PROVE  <<chunk[c].status, chunk'[c].status>> \in ChunkTransitions
  OBVIOUS
<1> USE DEF ChunkTransitions
<1>a. chunk \in [Chunks -> ChunkItem]
  BY DEF LedgerInv, LedgerTypeOK
<1>1. CASE Planning
  <2>1. ASSUME NEW d \in Chunks, CheckpointChunk(d)
        PROVE  chunk'[c].status = chunk[c].status
    BY <1>a, <2>1 DEF CheckpointChunk, ChunkItem
  <2>2. ASSUME NEW k \in Configs, NEW d \in Chunks, PlanChunk(k, d)
        PROVE  chunk'[c].status = chunk[c].status
    BY <1>a, <2>2 DEF PlanChunk
  <2> QED BY <1>1, <2>1, <2>2 DEF Planning, PlanJob, SealManifest, MarkScheduled,
          MarkSchedulingFailed
<1>2. CASE Execution
  <2>1. ASSUME NEW d \in Chunks, NEW a \in Attempts, StartChunk(d, a)
        PROVE  <<chunk[c].status, chunk'[c].status>> \in ChunkTransitions
    BY <1>a, <2>1 DEF StartChunk, CanStart, ChunkItem
  <2>2. ASSUME NEW d \in Chunks, AcquireChunk(d)
        PROVE  <<chunk[c].status, chunk'[c].status>> \in ChunkTransitions
    BY <1>a, <2>2 DEF AcquireChunk, ChunkItem
  <2>3. ASSUME NEW d \in Chunks, NEW a \in Attempts, NEW n \in Counts,
               CompleteChunk(d, a, n)
        PROVE  <<chunk[c].status, chunk'[c].status>> \in ChunkTransitions
    BY <1>a, <2>3 DEF CompleteChunk, CanComplete, HoldsChunk, ChunkItem
  <2>4. ASSUME NEW d \in Chunks, NEW a \in Attempts,
               RetryChunk(d, a) \/ FailChunk(d, a)
        PROVE  <<chunk[c].status, chunk'[c].status>> \in ChunkTransitions
    BY <1>a, <2>4 DEF RetryChunk, FailChunk, CanFail, HoldsChunk, ChunkItem
  <2> QED BY <1>2, <2>1, <2>2, <2>3, <2>4 DEF Execution
<1>3. CASE Admission \/ Completion \/ UNCHANGED ledgerVars
  BY <1>3 DEF Admission, AdmitPut, LeaseExpires, ReclaimLease, BeginValidation,
     BeginPlanning, RejectJob, AdvanceJob, Completion, ReadJob, DropView,
     FinalizeJob, MarkDelivered, ledgerVars
<1> QED BY <1>1, <1>2, <1>3 DEF LedgerNext

(* Chunks follow the transition table of the domain package.                *)
THEOREM ChunksFollowTable == LedgerSpec => ChunkFollowsTable
<1>1. LedgerInv /\ [LedgerNext]_ledgerVars
        => [\A c \in Chunks :
              \/ chunk[c].status \in {"ABSENT", chunk'[c].status}
              \/ <<chunk[c].status, chunk'[c].status>> \in ChunkTransitions
           ]_ledgerVars
  BY ChunkEdge
<1> QED BY <1>1, LedgerInvariant, PTL DEF LedgerSpec, ChunkFollowsTable

(* Every step moves the job along an edge of jobTransitions.                *)
LEMMA JobEdge ==
  LedgerInv /\ [LedgerNext]_ledgerVars =>
    \/ job.status = "ABSENT"
    \/ Canonical(job'.status) = Canonical(job.status)
    \/ <<Canonical(job.status), Canonical(job'.status)>> \in JobTransitions
<1> SUFFICES ASSUME LedgerInv, [LedgerNext]_ledgerVars, job.status # "ABSENT",
                    job'.status # job.status
             PROVE  \/ Canonical(job'.status) = Canonical(job.status)
                    \/ <<Canonical(job.status), Canonical(job'.status)>>
                          \in JobTransitions
  OBVIOUS
<1> DEFINE Edge(from, to) ==
             \/ Canonical(to) = Canonical(from)
             \/ <<Canonical(from), Canonical(to)>> \in JobTransitions
<1>a. job \in JobItem /\ PlanShape /\ SealShape
  BY DEF LedgerInv, LedgerTypeOK
<1>1. \A s \in {"PENDING", "SCHEDULED", "RUNNING"} :
        Edge(s, "RUNNING") /\ Edge(s, "COMPLETED") /\ Edge(s, "FAILED")
  BY DEF Canonical, JobTransitions
<1>2. \A s \in {"PENDING", "SCHEDULED", "PLANNING"} : Edge(s, "SCHEDULED")
  BY DEF Canonical, JobTransitions
<1>3. \A s \in {"PENDING", "PLANNING", "SCHEDULING_FAILED"} :
        Edge(s, "SCHEDULING_FAILED")
  BY DEF Canonical, JobTransitions
<1>4. Edge("PLANNING", "PENDING") /\ Edge("PENDING", "PENDING")
  BY DEF Canonical, JobTransitions
<1>5. /\ Edge("RECEIVED", "VALIDATING") /\ Edge("VALIDATING", "PLANNING")
      /\ Edge("RECEIVED", "REJECTED") /\ Edge("VALIDATING", "REJECTED")
  BY DEF Canonical, JobTransitions
<1>6. Edge(job.status, job'.status)
  <2> HIDE DEF Edge
  <2>1. CASE Admission
    BY <1>a, <1>5, <2>1 DEF Admission, AdmitPut, LeaseExpires, ReclaimLease,
       BeginValidation, BeginPlanning, RejectJob, AdvanceJob, JobItem
  <2>2. CASE Planning
    <3>1. ASSUME NEW k \in Configs, PlanJob(k) PROVE job'.status = job.status
      BY <1>a, <3>1 DEF PlanJob, JobItem
    <3>2. ASSUME NEW k \in Configs, SealManifest(k)
          PROVE  Edge(job.status, job'.status)
      <4>1. job.status \in {"PLANNING", "PENDING"}
        BY <1>a, <3>2 DEF SealManifest, CanSeal, PlanShape, SealShape
      <4> QED BY <1>a, <1>4, <3>2, <4>1 DEF SealManifest, JobItem
    <3>3. CASE MarkScheduled
      BY <1>a, <1>2, <3>3 DEF MarkScheduled, CanMarkScheduled, JobItem
    <3>4. CASE MarkSchedulingFailed
      BY <1>a, <1>3, <3>4 DEF MarkSchedulingFailed, CanMarkSchedulingFailed, JobItem
    <3> QED BY <2>2, <3>1, <3>2, <3>3, <3>4 DEF Planning, PlanChunk, CheckpointChunk
  <2>3. CASE Execution
    BY <1>a, <1>1, <2>3 DEF Execution, StartChunk, AcquireChunk, CompleteChunk,
       CanComplete, RetryChunk, FailChunk, CanFail, JobItem
  <2>4. CASE Completion
    <3>1. ASSUME NEW w \in Callers, FinalizeJob(w)
          PROVE  Edge(job.status, job'.status)
      BY <1>a, <1>1, <3>1 DEF FinalizeJob, CanFinalize, TerminalOf, JobItem
    <3> QED BY <2>4, <3>1 DEF Completion, ReadJob, DropView, MarkDelivered
  <2>5. CASE UNCHANGED ledgerVars
    BY <2>5 DEF ledgerVars
  <2> QED BY <2>1, <2>2, <2>3, <2>4, <2>5 DEF LedgerNext
<1> QED BY <1>6

(* Jobs follow the transition table of the domain package.                  *)
THEOREM JobsFollowTable == LedgerSpec => JobFollowsTable
<1>1. LedgerInv /\ [LedgerNext]_ledgerVars
        => [ \/ job.status = "ABSENT"
             \/ Canonical(job'.status) = Canonical(job.status)
             \/ <<Canonical(job.status), Canonical(job'.status)>> \in JobTransitions
           ]_ledgerVars
  BY JobEdge
<1> QED BY <1>1, LedgerInvariant, PTL DEF LedgerSpec, JobFollowsTable

-----------------------------------------------------------------------------
(* The record totals.                                                       *)

(* The totals as sums of the function from chunks to their counts, which    *)
(* SumTheorems is about.                                                    *)
PublishedBy == [c \in Chunks |-> chunk[c].published]
RejectedBy  == [c \in Chunks |-> chunk[c].rejected]

TotalsAreSums ==
  /\ job.published = SumFunctionOnSet(PublishedBy, InState("COMPLETED"))
  /\ job.rejected = SumFunctionOnSet(RejectedBy, InState("COMPLETED"))

(* The two readings of the totals are the same: the folds build the same    *)
(* table.                                                                   *)
LEMMA TotalsReading == TotalsMatchChunks <=> TotalsAreSums
<1> DEFINE S == InState("COMPLETED")
           P(iter) == iter = [s \in SUBSET S |-> IF s = {} THEN 0
                         ELSE chunk[Pick(s)].published + iter[s \ {Pick(s)}]]
           R(iter) == iter = [s \in SUBSET S |-> IF s = {} THEN 0
                         ELSE chunk[Pick(s)].rejected + iter[s \ {Pick(s)}]]
<1>1. MapThenSumSet(LAMBDA c : chunk[c].published, S) = (CHOOSE iter : P(iter))[S]
  BY DEF MapThenSumSet, MapThenFoldSet, Pick
<1>2. MapThenSumSet(LAMBDA c : chunk[c].rejected, S) = (CHOOSE iter : R(iter))[S]
  BY DEF MapThenSumSet, MapThenFoldSet, Pick
<1>3. ASSUME NEW s \in SUBSET S, s # {}
      PROVE  /\ PublishedBy[Pick(s)] = chunk[Pick(s)].published
             /\ RejectedBy[Pick(s)] = chunk[Pick(s)].rejected
  BY <1>3 DEF Pick, PublishedBy, RejectedBy, InState
<1> HIDE DEF S
<1>4. (CHOOSE iter : P(iter)) = (CHOOSE iter : IsSum(iter, PublishedBy, S))
  <2>1. \A iter : P(iter) <=> IsSum(iter, PublishedBy, S)
    BY <1>3 DEF IsSum
  <2> HIDE DEF P
  <2> QED BY <2>1
<1>5. (CHOOSE iter : R(iter)) = (CHOOSE iter : IsSum(iter, RejectedBy, S))
  <2>1. \A iter : R(iter) <=> IsSum(iter, RejectedBy, S)
    BY <1>3 DEF IsSum
  <2> HIDE DEF R
  <2> QED BY <2>1
<1>6. /\ SumFunctionOnSet(PublishedBy, S) = (CHOOSE iter : IsSum(iter, PublishedBy, S))[S]
      /\ SumFunctionOnSet(RejectedBy, S) = (CHOOSE iter : IsSum(iter, RejectedBy, S))[S]
  BY SumDef
<1> HIDE DEF P, R
<1>7. /\ MapThenSumSet(LAMBDA c : chunk[c].published, S) = SumFunctionOnSet(PublishedBy, S)
      /\ MapThenSumSet(LAMBDA c : chunk[c].rejected, S) = SumFunctionOnSet(RejectedBy, S)
  BY <1>1, <1>2, <1>4, <1>5, <1>6
<1> QED BY <1>7 DEF TotalsMatchChunks, TotalsAreSums, S

(* What a write says of the sums: the completed chunks keep their counts,   *)
(* and only CompleteChunk adds one to them.                                 *)
LEMMA CompletedChunksStay ==
  ASSUME LedgerInv, [LedgerNext]_ledgerVars,
         \A c \in Chunks, a \in Attempts, n \in Counts : ~CompleteChunk(c, a, n)
  PROVE  /\ InState("COMPLETED")' = InState("COMPLETED")
         /\ \A c \in InState("COMPLETED") :
              /\ chunk'[c].published = chunk[c].published
              /\ chunk'[c].rejected = chunk[c].rejected
         /\ job'.published = job.published
         /\ job'.rejected = job.rejected
<1> DEFINE Same(c) == /\ chunk'[c].status = "COMPLETED" <=> chunk[c].status = "COMPLETED"
                      /\ chunk'[c].published = chunk[c].published
                      /\ chunk'[c].rejected = chunk[c].rejected
           SameJob == job'.published = job.published /\ job'.rejected = job.rejected
<1>a. job \in JobItem /\ chunk \in [Chunks -> ChunkItem]
  BY DEF LedgerInv, LedgerTypeOK
<1>1. SameJob
  <2>1. CASE Admission
    BY <1>a, <2>1 DEF Admission, AdmitPut, LeaseExpires, ReclaimLease,
       BeginValidation, BeginPlanning, RejectJob, AdvanceJob, JobItem
  <2>2. CASE Planning
    BY <1>a, <2>2 DEF Planning, PlanJob, PlanChunk, SealManifest, CheckpointChunk,
       MarkScheduled, MarkSchedulingFailed, JobItem
  <2>3. CASE Execution
    BY <1>a, <2>3 DEF Execution, StartChunk, AcquireChunk, RetryChunk, FailChunk,
       JobItem
  <2>4. CASE Completion
    BY <1>a, <2>4 DEF Completion, ReadJob, DropView, FinalizeJob, MarkDelivered,
       JobItem
  <2> QED BY <2>1, <2>2, <2>3, <2>4 DEF LedgerNext, ledgerVars
<1>2. ASSUME NEW c \in Chunks PROVE Same(c)
  <2>1. CASE Admission \/ Completion \/ UNCHANGED ledgerVars
    BY <2>1 DEF Admission, AdmitPut, LeaseExpires, ReclaimLease, BeginValidation,
       BeginPlanning, RejectJob, AdvanceJob, Completion, ReadJob, DropView,
       FinalizeJob, MarkDelivered, ledgerVars
  <2>2. CASE Planning
    <3>1. ASSUME NEW k \in Configs, NEW d \in Chunks, PlanChunk(k, d) PROVE Same(c)
      BY <1>a, <3>1 DEF PlanChunk, ChunkItem
    <3>2. ASSUME NEW d \in Chunks, CheckpointChunk(d) PROVE Same(c)
      BY <1>a, <3>2 DEF CheckpointChunk, ChunkItem
    <3> QED BY <2>2, <3>1, <3>2 DEF Planning, PlanJob, SealManifest, MarkScheduled,
            MarkSchedulingFailed
  <2>3. CASE Execution
    <3>1. ASSUME NEW d \in Chunks, NEW a \in Attempts, StartChunk(d, a)
          PROVE  Same(c)
      BY <1>a, <3>1 DEF StartChunk, CanStart, ChunkItem
    <3>2. ASSUME NEW d \in Chunks, AcquireChunk(d) PROVE Same(c)
      BY <1>a, <3>2 DEF AcquireChunk, ChunkItem
    <3>3. ASSUME NEW d \in Chunks, NEW a \in Attempts,
                 RetryChunk(d, a) \/ FailChunk(d, a)
          PROVE  Same(c)
      BY <1>a, <3>3 DEF RetryChunk, FailChunk, CanFail, HoldsChunk, ChunkItem
    <3> QED BY <2>3, <3>1, <3>2, <3>3 DEF Execution
  <2> QED BY <2>1, <2>2, <2>3 DEF LedgerNext
<1> QED BY <1>1, <1>2 DEF InState

(* The totals stay the sums, in every step.                                 *)
LEMMA TotalsStep ==
  LedgerInv /\ TotalsAreSums /\ [LedgerNext]_ledgerVars => TotalsAreSums'
<1> SUFFICES ASSUME LedgerInv, TotalsAreSums, [LedgerNext]_ledgerVars
             PROVE  TotalsAreSums'
  OBVIOUS
<1> DEFINE S == InState("COMPLETED")
<1>a. job \in JobItem /\ chunk \in [Chunks -> ChunkItem]
      /\ chunk' \in [Chunks -> ChunkItem]
  BY TypeStep DEF LedgerInv, LedgerTypeOK
<1>b. IsFiniteSet(S) /\ S \subseteq Chunks
  BY ChunkSetsFinite DEF InState
<1>c. /\ \A c \in Chunks : PublishedBy[c] \in Nat /\ PublishedBy'[c] \in Nat
      /\ \A c \in Chunks : RejectedBy[c] \in Nat /\ RejectedBy'[c] \in Nat
  BY <1>a DEF PublishedBy, RejectedBy, ChunkItem
<1>d. \A c \in Chunks : /\ PublishedBy'[c] = chunk'[c].published
                        /\ PublishedBy[c] = chunk[c].published
                        /\ RejectedBy'[c] = chunk'[c].rejected
                        /\ RejectedBy[c] = chunk[c].rejected
  BY DEF PublishedBy, RejectedBy
<1>1. CASE \A c \in Chunks, a \in Attempts, n \in Counts : ~CompleteChunk(c, a, n)
  <2>1. /\ InState("COMPLETED")' = S
        /\ \A c \in S : PublishedBy'[c] = PublishedBy[c] /\ RejectedBy'[c] = RejectedBy[c]
        /\ job'.published = job.published /\ job'.rejected = job.rejected
    BY <1>1, <1>b, <1>d, CompletedChunksStay
  <2>2. /\ SumFunctionOnSet(PublishedBy', S) = SumFunctionOnSet(PublishedBy, S)
        /\ SumFunctionOnSet(RejectedBy', S) = SumFunctionOnSet(RejectedBy, S)
    BY <1>b, <2>1, SumAgrees
  <2> QED BY <2>1, <2>2 DEF TotalsAreSums
<1>2. ASSUME NEW c \in Chunks, NEW a \in Attempts, NEW n \in Counts,
             CompleteChunk(c, a, n)
      PROVE  TotalsAreSums'
  <2>1. n.published \in Nat /\ n.rejected \in Nat
    BY LedgerConstants
  <2>2. /\ chunk[c].status = "RUNNING"
        /\ chunk'[c].status = "COMPLETED"
        /\ chunk'[c].published = n.published /\ chunk'[c].rejected = n.rejected
        /\ \A d \in Chunks \ {c} : chunk'[d] = chunk[d]
    BY <1>2, <1>a DEF CompleteChunk, CanComplete, HoldsChunk, ChunkItem
  <2>3. /\ job'.published = job.published + n.published
        /\ job'.rejected = job.rejected + n.rejected
    BY <1>2, <1>a DEF CompleteChunk, JobItem
  <2>4. InState("COMPLETED")' = S \cup {c} /\ c \notin S
    BY <2>2 DEF InState
  <2>5. /\ SumFunctionOnSet(PublishedBy', S \cup {c})
             = n.published + SumFunctionOnSet(PublishedBy', S)
        /\ SumFunctionOnSet(RejectedBy', S \cup {c})
             = n.rejected + SumFunctionOnSet(RejectedBy', S)
    <3>1. PublishedBy'[c] = n.published /\ RejectedBy'[c] = n.rejected
      BY <1>d, <2>2
    <3>2. S \cup {c} \subseteq Chunks
      BY <1>b
    <3> HIDE DEF S
    <3>3. SumFunctionOnSet(PublishedBy', S \cup {c})
             = PublishedBy'[c] + SumFunctionOnSet(PublishedBy', S)
      BY <1>b, <1>c, <2>4, <3>2, SumAdd
    <3>4. SumFunctionOnSet(RejectedBy', S \cup {c})
             = RejectedBy'[c] + SumFunctionOnSet(RejectedBy', S)
      BY <1>b, <1>c, <2>4, <3>2, SumAdd
    <3> QED BY <3>1, <3>3, <3>4
  <2>6. /\ SumFunctionOnSet(PublishedBy', S) = SumFunctionOnSet(PublishedBy, S)
        /\ SumFunctionOnSet(RejectedBy', S) = SumFunctionOnSet(RejectedBy, S)
    <3>1. \A d \in S : PublishedBy'[d] = PublishedBy[d] /\ RejectedBy'[d] = RejectedBy[d]
      BY <1>b, <1>d, <2>2, <2>4
    <3> HIDE DEF S
    <3>2. SumFunctionOnSet(PublishedBy', S) = SumFunctionOnSet(PublishedBy, S)
      BY <1>b, <3>1, SumAgrees
    <3>3. SumFunctionOnSet(RejectedBy', S) = SumFunctionOnSet(RejectedBy, S)
      BY <1>b, <3>1, SumAgrees
    <3> QED BY <3>2, <3>3
  <2>7. job.published \in Nat /\ job.rejected \in Nat
    BY <1>a DEF JobItem
  <2>8. /\ job.published = SumFunctionOnSet(PublishedBy, S)
        /\ job.rejected = SumFunctionOnSet(RejectedBy, S)
    BY DEF TotalsAreSums
  <2>9. job'.published = SumFunctionOnSet(PublishedBy', S \cup {c})
    <3> HIDE DEF S
    <3> QED BY <2>1, <2>3, <2>5, <2>6, <2>7, <2>8
  <2>10. job'.rejected = SumFunctionOnSet(RejectedBy', S \cup {c})
    <3> HIDE DEF S
    <3> QED BY <2>1, <2>3, <2>5, <2>6, <2>7, <2>8
  <2> QED BY <2>4, <2>9, <2>10 DEF TotalsAreSums
<1> QED BY <1>1, <1>2

(* The record totals of a job are the sums over its completed chunks.       *)
THEOREM TotalsCorrect == LedgerSpec => []TotalsMatchChunks
<1>1. LedgerInit => TotalsAreSums
  <2> SUFFICES ASSUME LedgerInit PROVE TotalsAreSums
    OBVIOUS
  <2>1. InState("COMPLETED") = {}
    BY DEF LedgerInit, InState, NoChunk
  <2>2. job.published = 0 /\ job.rejected = 0
    BY DEF LedgerInit, NoJob
  <2> QED BY <2>1, <2>2, SumEmpty DEF TotalsAreSums
<1> QED BY <1>1, TotalsReading, TotalsStep, LedgerInvariant, PTL DEF LedgerSpec
=============================================================================
