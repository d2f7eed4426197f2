---------------------------- MODULE LedgerStates ----------------------------
(***************************************************************************)
(* The status values the ledger stores and the two state machines the      *)
(* domain package declares for them (internal/domain/f2e/states.go and     *)
(* ledger.go).  "ABSENT" stands for an item DynamoDB does not hold.        *)
(***************************************************************************)

(* Every value the "status" attribute of a JOB item takes. *)
JobStatuses ==
  { "ABSENT", "RECEIVED", "VALIDATING", "PLANNING", "PENDING", "SCHEDULED",
    "SCHEDULING_FAILED", "RUNNING", "COMPLETED", "FAILED", "REJECTED" }

(* Every value the "status" attribute of a CHUNK item takes. *)
ChunkStatuses ==
  { "ABSENT", "PENDING", "RUNNING", "RETRY_PENDING", "COMPLETED", "FAILED" }

JobResults == { "none", "SUCCESS", "WITH_REJECTIONS" }

(* The canonical state a stored (partly legacy) job status stands for. *)
Canonical(status) ==
  CASE status = "PENDING"                  -> "PLANNING"
    [] status \in {"SCHEDULED", "RUNNING"} -> "PROCESSING"
    [] status = "SCHEDULING_FAILED"        -> "FAILED"
    [] OTHER                               -> status

(* jobTransitions: the authoritative table of job transitions. *)
JobTransitions ==
  ({"RECEIVED"}   \X {"VALIDATING", "REJECTED", "FAILED"}) \cup
  ({"VALIDATING"} \X {"PLANNING", "REJECTED", "FAILED"}) \cup
  ({"PLANNING"}   \X {"PROCESSING", "COMPLETED", "REJECTED", "FAILED"}) \cup
  ({"PROCESSING"} \X {"COMPLETED", "FAILED"})

(* chunkTransitions: the authoritative table of chunk transitions. *)
ChunkTransitions ==
  { <<"PENDING", "RUNNING">>,
    <<"RUNNING", "COMPLETED">>, <<"RUNNING", "RETRY_PENDING">>,
    <<"RUNNING", "FAILED">>,
    <<"RETRY_PENDING", "RUNNING">> }

(* Terminal states have no outgoing edge.  The ledger code lists them by     *)
(* name wherever it tests for one.                                          *)
TerminalJob   == {"COMPLETED", "FAILED", "REJECTED"}
TerminalChunk == {"COMPLETED", "FAILED"}

(* The statuses under which a chunk result may still be added to the job.   *)
OpenForResults == {"PENDING", "SCHEDULED", "RUNNING"}

(* The statuses an admission lease protects. *)
LeasedStatuses == {"RECEIVED", "VALIDATING", "PLANNING"}
=============================================================================
