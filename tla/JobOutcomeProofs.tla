-------------------------- MODULE JobOutcomeProofs --------------------------
(***************************************************************************)
(* The ledger implements its promise: every conditional write of JobLedger *)
(* is one step of JobOutcome, or changes nothing the promise speaks of.    *)
(***************************************************************************)
EXTENDS JobLedgerProofs

USE DEF JobStatuses, ChunkStatuses, JobResults, TerminalJob, TerminalChunk,
        OpenForResults, LeasedStatuses

(* What the promise sees of a job, its chunks and its intent.               *)
LEMMA InvisibleStep ==
  ASSUME job'.sealed = job.sealed,
         job'.published = job.published, job'.rejected = job.rejected,
         (job.status \in TerminalJob \/ job'.status \in TerminalJob)
           => job'.status = job.status,
         \A c \in Chunks : \A s \in {"COMPLETED", "FAILED"} :
           (chunk'[c].status = s) <=> (chunk[c].status = s),
         job.sealed => Planned' = Planned,
         intent' = intent
  PROVE  UNCHANGED Outcome!vars
<1>1. /\ InState("COMPLETED")' = InState("COMPLETED")
      /\ InState("FAILED")' = InState("FAILED")
  BY DEF InState
<1>2. (IF job.sealed THEN Planned ELSE {})' = IF job.sealed THEN Planned ELSE {}
  OBVIOUS
<1>3. (IF job.status \in TerminalJob THEN job.status ELSE "open")'
        = IF job.status \in TerminalJob THEN job.status ELSE "open"
  OBVIOUS
<1> QED BY <1>1, <1>2, <1>3 DEF Outcome!vars, EventOf

(* The ledger starts where the promise does.                                *)
LEMMA OutcomeInit == LedgerInit => Outcome!Init
<1> SUFFICES ASSUME LedgerInit PROVE Outcome!Init
  OBVIOUS
<1>1. InState("COMPLETED") = {} /\ InState("FAILED") = {}
  BY DEF LedgerInit, InState, NoChunk
<1> QED BY <1>1 DEF LedgerInit, NoJob, NoIntent, EventOf, Outcome!Init,
        Outcome!NoEvent

(* Admission shows only when it refuses the job.                            *)
LEMMA OutcomeAdmission ==
  LedgerInv /\ Admission => [Outcome!Next]_Outcome!vars
<1> SUFFICES ASSUME LedgerInv, Admission PROVE [Outcome!Next]_Outcome!vars
  OBVIOUS
<1>a. job \in JobItem /\ PlanShape /\ SealShape
  BY DEF LedgerInv, LedgerTypeOK
<1>1. CASE RejectJob
  <2>1. /\ job.status \in {"RECEIVED", "VALIDATING"}
        /\ job' = [job EXCEPT !.status = "REJECTED"]
        /\ chunk' = chunk /\ intent' = intent
    BY <1>1 DEF RejectJob, AdvanceJob
  <2>2. ~job.sealed
    BY <1>a, <2>1 DEF SealShape
  <2>3. InState("COMPLETED")' = InState("COMPLETED")
        /\ InState("FAILED")' = InState("FAILED") /\ Planned' = Planned
    BY <2>1 DEF InState, Planned
  <2>4. Outcome!Refuse
    BY <1>a, <2>1, <2>2, <2>3 DEF Outcome!Refuse, JobItem, EventOf
  <2> QED BY <2>4 DEF Outcome!Next
<1>2. CASE ~RejectJob
  <2>1. chunk' = chunk /\ intent' = intent
    BY DEF Admission, AdmitPut, LeaseExpires, ReclaimLease, BeginValidation,
       BeginPlanning, RejectJob, AdvanceJob
  <2>2. /\ job'.sealed = job.sealed
        /\ job'.published = job.published /\ job'.rejected = job.rejected
        /\ (job.status \in TerminalJob \/ job'.status \in TerminalJob)
             => job'.status = job.status
    BY <1>a, <1>2 DEF Admission, AdmitPut, LeaseExpires, ReclaimLease,
       BeginValidation, BeginPlanning, AdvanceJob, JobItem
  <2>3. Planned' = Planned
    BY <2>1 DEF Planned
  <2> QED BY <2>1, <2>2, <2>3, InvisibleStep
<1> QED BY <1>1, <1>2

(* Planning shows only when it seals: what came before is not yet promised, *)
(* and a plan repeated after the seal finds its chunks there.               *)
LEMMA OutcomePlanning ==
  LedgerInv /\ Planning => [Outcome!Next]_Outcome!vars
<1> SUFFICES ASSUME LedgerInv, Planning PROVE [Outcome!Next]_Outcome!vars
  OBVIOUS
<1>a. /\ job \in JobItem /\ chunk \in [Chunks -> ChunkItem]
      /\ PlanShape /\ SealShape
  BY DEF LedgerInv, LedgerTypeOK
<1>1. ASSUME NEW k \in Configs, PlanJob(k) PROVE UNCHANGED Outcome!vars
  <2>1. /\ job'.sealed = job.sealed /\ chunk' = chunk /\ intent' = intent
        /\ job'.published = job.published /\ job'.rejected = job.rejected
        /\ (job.status \in TerminalJob \/ job'.status \in TerminalJob)
             => job'.status = job.status
    BY <1>a, <1>1 DEF PlanJob, JobItem
  <2>2. Planned' = Planned
    BY <2>1 DEF Planned
  <2> QED BY <2>1, <2>2, InvisibleStep
<1>2. ASSUME NEW k \in Configs, NEW c \in Chunks, ChunkAllowed(k, c),
             PlanChunk(k, c)
      PROVE  UNCHANGED Outcome!vars
  <2>1. job.sealed => c \in Planned
    BY <1>2, <1>a DEF ChunkAllowed, ManifestOf, PlanShape
  <2>2. job.sealed => Planned' = Planned
    BY <2>1, <1>2 DEF PlanChunk, Planned
  <2>3. \A d \in Chunks : \A s \in {"COMPLETED", "FAILED"} :
          (chunk'[d].status = s) <=> (chunk[d].status = s)
    BY <1>a, <1>2 DEF PlanChunk, ChunkItem
  <2> QED BY <1>2, <2>2, <2>3, InvisibleStep DEF PlanChunk
<1>3. ASSUME NEW k \in Configs, SealManifest(k) PROVE Outcome!Next
  <2>1. /\ ~job.sealed /\ job.planned
        /\ job' = [job EXCEPT !.sealed = TRUE, !.status = "PENDING"]
        /\ chunk' = chunk /\ intent' = intent
    BY <1>3 DEF SealManifest, CanSeal
  <2>2. job.status \notin TerminalJob
    BY <1>a, <2>1 DEF PlanShape, SealShape
  <2>3. /\ job'.sealed /\ job'.status = "PENDING"
        /\ job'.published = job.published /\ job'.rejected = job.rejected
    BY <1>a, <2>1 DEF JobItem
  <2>4. /\ InState("COMPLETED")' = InState("COMPLETED")
        /\ InState("FAILED")' = InState("FAILED") /\ Planned' = Planned
    BY <2>1 DEF InState, Planned
  <2>5. Planned \in SUBSET Chunks
    BY DEF Planned
  <2>6. Outcome!Fix(Planned)
    BY <2>1, <2>2, <2>3, <2>4 DEF Outcome!Fix, EventOf
  <2> QED BY <2>5, <2>6 DEF Outcome!Next
<1>4. ASSUME NEW c \in Chunks, CheckpointChunk(c) PROVE UNCHANGED Outcome!vars
  <2>1. \A d \in Chunks : chunk'[d].status = chunk[d].status
    BY <1>a, <1>4 DEF CheckpointChunk, ChunkItem
  <2>2. Planned' = Planned
    BY <2>1 DEF Planned
  <2> QED BY <1>4, <2>1, <2>2, InvisibleStep DEF CheckpointChunk
<1>5. CASE MarkScheduled \/ MarkSchedulingFailed
  <2>1. /\ chunk' = chunk /\ intent' = intent /\ job'.sealed = job.sealed
        /\ job'.published = job.published /\ job'.rejected = job.rejected
        /\ job.status \notin TerminalJob /\ job'.status \notin TerminalJob
    BY <1>a, <1>5 DEF MarkScheduled, CanMarkScheduled, MarkSchedulingFailed,
       CanMarkSchedulingFailed, JobItem
  <2>2. Planned' = Planned
    BY <2>1 DEF Planned
  <2> QED BY <2>1, <2>2, InvisibleStep
<1> QED BY <1>1, <1>2, <1>3, <1>4, <1>5 DEF Planning

(* An attempt shows when it ends its chunk, and it can end only a chunk     *)
(* whose fate is open.                                                      *)
LEMMA OutcomeExecution ==
  LedgerInv /\ Execution => [Outcome!Next]_Outcome!vars
<1> SUFFICES ASSUME LedgerInv, Execution PROVE [Outcome!Next]_Outcome!vars
  OBVIOUS
<1>a. /\ job \in JobItem /\ chunk \in [Chunks -> ChunkItem]
      /\ PlanShape /\ SealShape
  BY DEF LedgerInv, LedgerTypeOK
<1>1. ASSUME NEW c \in Chunks, job.sealed, job' = job, intent' = intent,
             \A d \in Chunks \ {c} : chunk'[d] = chunk[d],
             chunk[c].status \in {"PENDING", "RETRY_PENDING", "RUNNING"},
             chunk'[c].status \in {"RETRY_PENDING", "RUNNING"}
      PROVE  UNCHANGED Outcome!vars
  <2>1. Planned' = Planned
    BY <1>1 DEF Planned
  <2>2. \A d \in Chunks : \A s \in {"COMPLETED", "FAILED"} :
          (chunk'[d].status = s) <=> (chunk[d].status = s)
    BY <1>1
  <2> QED BY <1>1, <2>1, <2>2, InvisibleStep
<1>2. ASSUME NEW c \in Chunks, NEW a \in Attempts,
             (job.sealed /\ StartChunk(c, a)) \/ RetryChunk(c, a)
      PROVE  UNCHANGED Outcome!vars
  <2>1. job.sealed
    BY <1>2, <1>a DEF RetryChunk, HoldsChunk, SealShape
  <2>2. /\ job' = job /\ intent' = intent
        /\ chunk[c].status \in {"PENDING", "RETRY_PENDING", "RUNNING"}
        /\ chunk'[c].status \in {"RETRY_PENDING", "RUNNING"}
        /\ \A d \in Chunks \ {c} : chunk'[d] = chunk[d]
    BY <1>2, <1>a DEF StartChunk, CanStart, RetryChunk, HoldsChunk, ChunkItem
  <2> QED BY <1>1, <2>1, <2>2
<1>3. ASSUME NEW c \in Chunks, job.sealed, AcquireChunk(c)
      PROVE  UNCHANGED Outcome!vars
  BY <1>1, <1>3, <1>a DEF AcquireChunk, ChunkItem
<1>4. ASSUME NEW c \in Chunks, chunk[c].status = "RUNNING"
      PROVE  /\ job.sealed /\ c \in Planned
             /\ c \notin InState("COMPLETED") /\ c \notin InState("FAILED")
  BY <1>a, <1>4 DEF SealShape, Planned, InState
<1>5. ASSUME NEW c \in Chunks, NEW a \in Attempts, NEW n \in Counts,
             CompleteChunk(c, a, n)
      PROVE  Outcome!Next
  <2>1. /\ chunk[c].status = "RUNNING" /\ chunk'[c].status = "COMPLETED"
        /\ \A d \in Chunks \ {c} : chunk'[d] = chunk[d]
        /\ intent' = intent /\ job.status \notin TerminalJob
        /\ job'.status = "RUNNING" /\ job'.sealed = job.sealed
        /\ job'.published = job.published + n.published
        /\ job'.rejected = job.rejected + n.rejected
    BY <1>a, <1>5 DEF CompleteChunk, CanComplete, HoldsChunk, JobItem, ChunkItem
  <2>2. /\ InState("COMPLETED")' = InState("COMPLETED") \cup {c}
        /\ InState("FAILED")' = InState("FAILED") /\ Planned' = Planned
    BY <2>1 DEF InState, Planned
  <2>3. Outcome!Finish(c, n)
    BY <1>4, <2>1, <2>2 DEF Outcome!Finish, Outcome!Remaining, EventOf
  <2> QED BY <2>3 DEF Outcome!Next
<1>6. ASSUME NEW c \in Chunks, NEW a \in Attempts, FailChunk(c, a)
      PROVE  Outcome!Next
  <2>1. /\ chunk[c].status = "RUNNING" /\ chunk'[c].status = "FAILED"
        /\ \A d \in Chunks \ {c} : chunk'[d] = chunk[d]
        /\ intent' = intent /\ job.status \notin TerminalJob
        /\ job'.status = "RUNNING" /\ job'.sealed = job.sealed
        /\ job'.published = job.published /\ job'.rejected = job.rejected
    BY <1>a, <1>6 DEF FailChunk, CanFail, HoldsChunk, JobItem, ChunkItem
  <2>2. /\ InState("FAILED")' = InState("FAILED") \cup {c}
        /\ InState("COMPLETED")' = InState("COMPLETED") /\ Planned' = Planned
    BY <2>1 DEF InState, Planned
  <2>3. Outcome!Lose(c)
    BY <1>4, <2>1, <2>2 DEF Outcome!Lose, Outcome!Remaining, EventOf
  <2> QED BY <2>3 DEF Outcome!Next
<1> QED BY <1>2, <1>3, <1>5, <1>6 DEF Execution

(* The finalising transaction closes the promise: what it read was settled, *)
(* and its condition makes sure that it is still what the items say.        *)
LEMMA OutcomeCompletion ==
  LedgerInv /\ Completion => [Outcome!Next]_Outcome!vars
<1> SUFFICES ASSUME LedgerInv, Completion PROVE [Outcome!Next]_Outcome!vars
  OBVIOUS
<1>a. /\ job \in JobItem /\ intent \in IntentItem /\ view \in [Callers -> View]
      /\ ViewsAreSettled /\ OutboxMatchesJob
  BY DEF LedgerInv, LedgerTypeOK
<1>1. ASSUME NEW w \in Callers, ReadJob(w) \/ DropView(w)
      PROVE  UNCHANGED Outcome!vars
  <2>1. job' = job /\ chunk' = chunk /\ intent' = intent
    BY <1>1 DEF ReadJob, DropView
  <2>2. Planned' = Planned
    BY <2>1 DEF Planned
  <2> QED BY <2>1, <2>2, InvisibleStep
<1>2. ASSUME NEW w \in Callers, FinalizeJob(w) PROVE Outcome!Next
  <2> DEFINE v == view[w]
  <2>1. /\ v \in View /\ job.sealed
        /\ v.completed = job.completed /\ v.failed = job.failed
        /\ v.published = job.published /\ v.rejected = job.rejected
        /\ job.completed + job.failed >= job.expected
        /\ job.status \notin TerminalJob
    BY <1>a, <1>2 DEF FinalizeJob, CanFinalize, ViewsAreSettled
  <2>2. /\ InState("COMPLETED") \cup InState("FAILED") = Planned
        /\ (job.failed > 0) <=> (InState("FAILED") # {})
    BY <2>1, AllChunksFinished
  <2>3. /\ job' = [job EXCEPT !.status = TerminalOf(v), !.result = ResultOf(v)]
        /\ intent' = [state |-> "pending", status |-> TerminalOf(v),
                      result |-> ResultOf(v), published |-> v.published,
                      rejected |-> v.rejected]
        /\ chunk' = chunk
    BY <1>2 DEF FinalizeJob
  <2>4. /\ job'.status = TerminalOf(v) /\ job'.sealed = job.sealed
        /\ job'.published = job.published /\ job'.rejected = job.rejected
    BY <1>a, <2>3 DEF JobItem
  <2>5. /\ InState("COMPLETED")' = InState("COMPLETED")
        /\ InState("FAILED")' = InState("FAILED") /\ Planned' = Planned
    BY <2>3 DEF InState, Planned
  <2>6. TerminalOf(v) = IF InState("FAILED") = {} THEN "COMPLETED" ELSE "FAILED"
    BY <2>1, <2>2 DEF TerminalOf
  <2>7. ResultOf(v) =
          Outcome!ResultOf(TerminalOf(v), [published |-> job.published,
                                           rejected |-> job.rejected])
    BY <2>1 DEF ResultOf, TerminalOf, Outcome!ResultOf
  <2>8. TerminalOf(v) \in TerminalJob
    BY DEF TerminalOf
  <2>9. Outcome!Close
    BY <2>1, <2>2, <2>3, <2>4, <2>5, <2>6, <2>7, <2>8
       DEF Outcome!Close, Outcome!Remaining, Outcome!EventOf, EventOf
  <2> QED BY <2>9 DEF Outcome!Next
<1>3. CASE MarkDelivered
  <2>1. /\ intent.state = "pending" /\ job' = job /\ chunk' = chunk
        /\ intent' = [intent EXCEPT !.state = "delivered"]
    BY <1>3 DEF MarkDelivered
  <2>2. intent'.state = "delivered" /\ EventOf(intent') = EventOf(intent)
    BY <1>a, <2>1 DEF IntentItem, EventOf
  <2>3. /\ InState("COMPLETED")' = InState("COMPLETED")
        /\ InState("FAILED")' = InState("FAILED") /\ Planned' = Planned
    BY <2>1 DEF InState, Planned
  <2>4. Outcome!Tell
    BY <2>1, <2>2, <2>3 DEF Outcome!Tell
  <2> QED BY <2>4 DEF Outcome!Next
<1> QED BY <1>1, <1>2, <1>3 DEF Completion

(* The conditional writes of any number of callers, over any number of      *)
(* chunks, attempts and configurations, implement the promise of a job.     *)
THEOREM LedgerImplementsOutcome == LedgerSpec => ImplementsOutcome
<1>1. LedgerInit => Outcome!Init
  BY OutcomeInit
<1>2. LedgerInv /\ [LedgerNext]_ledgerVars => [Outcome!Next]_Outcome!vars
  <2>1. ASSUME UNCHANGED ledgerVars PROVE UNCHANGED Outcome!vars
    <3>1. job' = job /\ chunk' = chunk /\ intent' = intent
      BY <2>1 DEF ledgerVars
    <3>2. Planned' = Planned
      BY <3>1 DEF Planned
    <3> QED BY <3>1, <3>2, InvisibleStep
  <2> QED BY <2>1, OutcomeAdmission, OutcomePlanning, OutcomeExecution,
             OutcomeCompletion DEF LedgerNext
<1> QED BY <1>1, <1>2, LedgerInvariant, PTL
        DEF LedgerSpec, ImplementsOutcome, Outcome!Spec
=============================================================================
