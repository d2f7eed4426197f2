----------------------------- MODULE JobOutcome -----------------------------
(***************************************************************************)
(* What the ledger promises about one job, whatever its callers do: the    *)
(* set of chunks is fixed once; from then on each chunk meets one fate, and*)
(* keeps it; the job ends when every chunk has met its fate, COMPLETED if  *)
(* none was lost and FAILED otherwise; and from that moment one event tells*)
(* the outcome and what the finished chunks counted.  JobLedger, with its  *)
(* items, attempts, leases, counters and stale reads, is shown to implement*)
(* this module.                                                            *)
(***************************************************************************)
EXTENDS Integers, FiniteSets

CONSTANTS
  Chunks,   \* the chunks a job can have
  Counts    \* what a finished chunk can count: records published, rejected

VARIABLES
  fixed,    \* whether the set of chunks is fixed
  manifest, \* that set, empty before
  done,     \* the chunks that finished
  lost,     \* the chunks given up
  totals,   \* the records of the finished chunks
  outcome,  \* how the job ended, "open" before
  event,    \* what is announced of it
  notice    \* whether that announcement is due or delivered

vars == <<fixed, manifest, done, lost, totals, outcome, event, notice>>

Outcomes == {"open", "COMPLETED", "FAILED", "REJECTED"}

NoEvent == [status |-> "none", result |-> "none", published |-> 0, rejected |-> 0]

ResultOf(o, t) ==
  CASE o = "FAILED"                     -> "none"
    [] o # "FAILED" /\ t.rejected > 0   -> "WITH_REJECTIONS"
    [] OTHER                            -> "SUCCESS"

EventOf(o, t) == [status |-> o, result |-> ResultOf(o, t),
                  published |-> t.published, rejected |-> t.rejected]

Init ==
  /\ fixed = FALSE
  /\ manifest = {} /\ done = {} /\ lost = {}
  /\ totals = [published |-> 0, rejected |-> 0]
  /\ outcome = "open"
  /\ event = NoEvent
  /\ notice = "none"

(* The file is refused before its chunks are known.                         *)
Refuse ==
  /\ outcome = "open" /\ ~fixed
  /\ outcome' = "REJECTED"
  /\ UNCHANGED <<fixed, manifest, done, lost, totals, event, notice>>

Fix(S) ==
  /\ outcome = "open" /\ ~fixed
  /\ fixed' = TRUE /\ manifest' = S
  /\ UNCHANGED <<done, lost, totals, outcome, event, notice>>

(* The chunks whose fate is still open.                                     *)
Remaining == manifest \ (done \cup lost)

Finish(c, n) ==
  /\ outcome = "open" /\ c \in Remaining
  /\ done' = done \cup {c}
  /\ totals' = [published |-> totals.published + n.published,
                rejected  |-> totals.rejected + n.rejected]
  /\ UNCHANGED <<fixed, manifest, lost, outcome, event, notice>>

Lose(c) ==
  /\ outcome = "open" /\ c \in Remaining
  /\ lost' = lost \cup {c}
  /\ UNCHANGED <<fixed, manifest, done, totals, outcome, event, notice>>

(* The job ends, and its event is written with it.                          *)
Close ==
  /\ outcome = "open" /\ fixed /\ Remaining = {}
  /\ outcome' = IF lost = {} THEN "COMPLETED" ELSE "FAILED"
  /\ event' = EventOf(outcome', totals)
  /\ notice' = "pending"
  /\ UNCHANGED <<fixed, manifest, done, lost, totals>>

Tell ==
  /\ notice = "pending"
  /\ notice' = "delivered"
  /\ UNCHANGED <<fixed, manifest, done, lost, totals, outcome, event>>

Next ==
  \/ Refuse
  \/ \E S \in SUBSET Chunks : Fix(S)
  \/ \E c \in Chunks, n \in Counts : Finish(c, n)
  \/ \E c \in Chunks : Lose(c)
  \/ Close
  \/ Tell

Spec == Init /\ [][Next]_vars
=============================================================================
