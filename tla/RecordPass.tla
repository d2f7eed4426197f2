----------------------------- MODULE RecordPass -----------------------------
(***************************************************************************)
(* What the pass of a Worker over the records of one chunk promises to the *)
(* completion that reports it and to the readers of the output queue:      *)
(* records are taken in their order, each is refused at once or may be     *)
(* sent, in any order and more than once; no more are counted as published *)
(* than arrived; and a pass that succeeds sent everything it did not       *)
(* refuse, counted exactly that, and sends nothing afterwards.  A pass that*)
(* failed may still have calls under way.  ChunkPublisher, with its        *)
(* bundles, batches, goroutines, retries and cancellation, is shown to     *)
(* implement this module.                                                  *)
(***************************************************************************)
EXTENDS Integers, FiniteSets

CONSTANT
  Total     \* records of the chunk, numbered in the order of the file

VARIABLES
  taken,    \* the records taken are 1..taken
  refused,  \* those of them counted as rejected
  sent,     \* the records that reached the output queue
  counted,  \* how many the pass will report as published if it succeeds
  outcome   \* how the pass ended, "open" before

vars == <<taken, refused, sent, counted, outcome>>

(* The records that may be sent.                                           *)
Admitted == (1..taken) \ refused

Init ==
  /\ taken = 0 /\ refused = {}
  /\ sent = {} /\ counted = 0
  /\ outcome = "open"

Take ==
  /\ outcome = "open" /\ taken < Total
  /\ taken' = taken + 1
  /\ refused' \in {refused, refused \cup {taken + 1}}
  /\ UNCHANGED <<sent, counted, outcome>>

(* A call carries records to the queue; they are counted if an answer      *)
(* confirms them, and never twice.                                         *)
Transmit(S) ==
  /\ outcome # "succeeded"
  /\ sent' = sent \cup S
  /\ counted' \in {counted, counted + Cardinality(S)}
  /\ counted' <= Cardinality(sent')
  /\ UNCHANGED <<taken, refused, outcome>>

Succeed ==
  /\ outcome = "open" /\ taken = Total
  /\ sent = Admitted /\ counted = Cardinality(sent)
  /\ outcome' = "succeeded"
  /\ UNCHANGED <<taken, refused, sent, counted>>

Fail ==
  /\ outcome = "open"
  /\ outcome' = "failed"
  /\ UNCHANGED <<taken, refused, sent, counted>>

Next == Take \/ (\E S \in SUBSET Admitted : Transmit(S)) \/ Succeed \/ Fail

Spec == Init /\ [][Next]_vars
=============================================================================
