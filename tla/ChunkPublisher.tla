--------------------------- MODULE ChunkPublisher ---------------------------
(***************************************************************************)
(* How a Worker sends the records of one chunk (streamWithMetrics with     *)
(* packer.go and concurrent_sender.go of the worker service).  The producer*)
(* turns records into messages, alone or packed in bundles, collects the   *)
(* messages in batches and submits each batch to the concurrent sender,    *)
(* whose goroutines call SendMessageBatch with retries while the producer  *)
(* goes on reading.  One step is one message produced, one slot acquired,  *)
(* or one reply handled by a goroutine.                                    *)
(***************************************************************************)
EXTENDS Integers, SequencesExt

CONSTANTS
  RecordCount,     \* records of the chunk
  Sizes,           \* bytes a serialised envelope can have in the instance
  Settings,        \* job settings, see Setting
  Overhead,        \* bytes of a message around its envelopes
  PhysicalLimit,   \* MaxPhysicalMessageBytes, also the budget of a request
  BatchEntries,    \* MaxMessagesPerBatch
  BatchSize,       \* F2E_BATCH_SIZE
  Concurrency,     \* F2E_PUBLISH_CONCURRENCY
  Faults,          \* the kinds of fault this instance allows
  MaxFaults        \* bound on the number of faults in a behaviour

Records == 1..RecordCount

(* bundleLimit is maxMessageBytes; maxEnvelopes = 0 means no limit.         *)
Setting == [ mode : {"single", "bundle"}, maxEvent : Nat, bundleLimit : Nat,
             maxEnvelopes : Nat ]

FaultKinds == { "someFail", "callFails", "refused", "deadline" }

ASSUME PublisherConstants ==
  /\ RecordCount \in Nat
  /\ Sizes \subseteq Nat
  /\ Settings \subseteq Setting
  /\ {Overhead, PhysicalLimit} \subseteq Nat
  /\ {BatchEntries, BatchSize, Concurrency} \subseteq Nat \ {0}
  /\ Faults \subseteq FaultKinds
  /\ MaxFaults \in Nat

MaxTries == 3    \* calls for one batch before the sender gives up

VARIABLES
  bytes,      \* bytes[r]: size of the envelope of record r
  setting,    \* the settings of the job
  producer,   \* streamWithMetrics: its position, open bundle, open batch
  flights,    \* the goroutines started so far, in order
  sender,     \* fields of concurrentSender: errors and confirmed counts
  expired,    \* whether the deadline of the invocation has passed
  delivered,  \* records that reached the output queue
  faults      \* number of faults so far

vars == <<bytes, setting, producer, flights, sender, expired, delivered, faults>>

Messages == (SUBSET Records) \ {{}}
Results  == { "none", "ok", "tooLong", "unpackable", "deadline", "cut",
              "sendError", "canceled" }

Init ==
  /\ bytes \in [Records -> Sizes]
  /\ setting \in Settings
  /\ producer = [ step |-> "read", next |-> 1, open |-> {}, batch |-> <<>>,
                  parts |-> <<>>, last |-> FALSE, rejected |-> {},
                  result |-> "none" ]
  /\ flights = <<>>
  /\ sender = [ firstErr |-> FALSE, canceled |-> FALSE, messages |-> 0,
                events |-> 0 ]
  /\ expired = FALSE
  /\ delivered = {}
  /\ faults = 0

-----------------------------------------------------------------------------
(* Sizes, bundles and batches.                                              *)

(* Envelopes are joined by commas.                                          *)
BytesOf(m, size) == Overhead + MapThenSumSet(LAMBDA r : size[r], m) + Cardinality(m) - 1

MessageBytes(m) == BytesOf(m, bytes)

RequestBytes(ms) == MapThenSumSet(MessageBytes, ms)

(* What the client sends on to SQS: Send checks the number of entries and   *)
(* the total of more than one, validateOutboundMessage each message.        *)
ClientAccepts(ms) ==
  /\ Cardinality(ms) <= BatchEntries
  /\ Cardinality(ms) > 1 => RequestBytes(ms) <= PhysicalLimit
  /\ \A m \in ms : MessageBytes(m) <= PhysicalLimit

MutSplit(batch) == <<batch>>

(* splitSendBatches: as many messages to a request as both limits of SQS    *)
(* allow, in the order of production.                                       *)
Split(batch) ==
  LET fits(part, m) == /\ Len(part) < BatchEntries
                       /\ RequestBytes(Range(part) \cup {m}) <= PhysicalLimit
      place(parts, m) ==
        IF parts # <<>> /\ fits(Last(parts), m)
          THEN [parts EXCEPT ![Len(parts)] = Append(@, m)]
          ELSE Append(parts, <<m>>)
  IN FoldLeft(place, <<>>, batch)

(* Add a message to the batch, which is submitted when full.                *)
Enqueue(p, m) ==
  LET batch == Append(p.batch, m) IN
  IF Len(batch) = BatchSize
    THEN [p EXCEPT !.batch = <<>>, !.parts = Split(batch), !.step = "submit"]
    ELSE [p EXCEPT !.batch = batch]

BundleLimit ==
  IF setting.bundleLimit \in 1..PhysicalLimit THEN setting.bundleLimit
                                              ELSE PhysicalLimit

MutMustFlush(open, r) ==
  /\ open # {}
  /\ setting.maxEnvelopes > 0 /\ Cardinality(open) >= setting.maxEnvelopes

MustFlush(open, r) ==
  /\ open # {}
  /\ \/ setting.maxEnvelopes > 0 /\ Cardinality(open) >= setting.maxEnvelopes
     \/ MessageBytes(open \cup {r}) > BundleLimit

-----------------------------------------------------------------------------
(* The producer.                                                            *)

Fault(kind) == kind \in Faults /\ faults < MaxFaults /\ faults' = faults + 1

(* streamWithMetrics returns; goroutines still in flight are not waited for.*)
End(result) == producer' = [producer EXCEPT !.step = "ended", !.result = result]

Reading == producer.step = "read" /\ producer.next <= RecordCount

(* The context is looked at before every line.                              *)
ReadAfterDeadline == Reading /\ expired /\ End("deadline")

TooLong(r)  == setting.maxEvent < PhysicalLimit /\ bytes[r] > setting.maxEvent
Oversize(r) == MessageBytes({r}) > (IF setting.mode = "single" THEN PhysicalLimit
                                                               ELSE BundleLimit)
Advance(p) == [p EXCEPT !.next = @ + 1]

ReadRecord ==
  /\ Reading /\ ~expired
  /\ LET r    == producer.next
         p    == Advance(producer)
         skip == [p EXCEPT !.rejected = @ \cup {r}]
     IN CASE TooLong(r) -> End("tooLong")
          [] ~TooLong(r) /\ setting.mode = "single" ->
               producer' = IF Oversize(r) THEN skip ELSE Enqueue(p, {r})
          [] ~TooLong(r) /\ setting.mode = "bundle" ->
               (* The size of one envelope is only looked at when no bundle *)
               (* is open: packer.add, then packer.flush.                   *)
               CASE p.open = {} /\ Oversize(r) -> producer' = skip
                 [] MustFlush(p.open, r) ->
                      IF MessageBytes(p.open) > BundleLimit THEN End("unpackable")
                      ELSE producer' = Enqueue([p EXCEPT !.open = {r}], p.open)
                 [] OTHER -> producer' = [p EXCEPT !.open = @ \cup {r}]

(* The end of the records: what is left in the packer and in the batch.     *)
Flush ==
  /\ producer.step = "read" /\ producer.next > RecordCount
  /\ LET open  == producer.open
         batch == IF open = {} THEN producer.batch ELSE Append(producer.batch, open)
     IN IF open # {} /\ MessageBytes(open) > BundleLimit
          THEN End("unpackable")
          ELSE producer' = [producer EXCEPT !.open = {}, !.batch = <<>>,
                              !.parts = Split(batch), !.last = TRUE,
                              !.step = "submit"]

(* submitOne for each part, in two steps: the look at an earlier error, ... *)
Submit ==
  /\ producer.step = "submit"
  /\ IF producer.parts = <<>>
       THEN producer' = [producer EXCEPT !.step =
                           IF producer.last THEN "wait" ELSE "read"]
       ELSE IF sender.firstErr THEN End("sendError")
            ELSE producer' = [producer EXCEPT !.step = "acquire"]

Cancelled == expired \/ sender.firstErr
InFlight  == { i \in DOMAIN flights : flights[i].step # "done" }

MutSlotFree == Cardinality(InFlight) <= Concurrency

SlotFree == Cardinality(InFlight) < Concurrency

(* A call made with a cancelled context fails at once.                      *)
CallStep == IF Cancelled THEN "stillborn" ELSE "calling"

(* ... and the wait for a slot or for the cancellation, whichever is ready. *)
Acquire ==
  /\ producer.step = "acquire"
  /\ \/ /\ SlotFree
        /\ flights' = Append(flights, [ step |-> CallStep, try |-> 0,
                                        pending |-> Range(Head(producer.parts)) ])
        /\ producer' = [producer EXCEPT !.parts = Tail(@), !.step = "submit"]
     \/ /\ Cancelled
        /\ End("cut") /\ UNCHANGED flights

MutWaitResult ==
  CASE sender.canceled                     -> "canceled"
    [] sender.firstErr /\ ~sender.canceled -> "sendError"
    [] OTHER                               -> "ok"

(* wait: the first error that is not a consequence of the cancellation.     *)
WaitResult ==
  CASE sender.firstErr                     -> "sendError"
    [] sender.canceled /\ ~sender.firstErr -> "canceled"
    [] OTHER                               -> "ok"

Wait ==
  /\ producer.step = "wait"
  /\ InFlight = {}
  /\ End(WaitResult)

Produce ==
  /\ \/ (ReadAfterDeadline \/ ReadRecord \/ Flush \/ Submit \/ Wait)
        /\ UNCHANGED flights
     \/ Acquire
  /\ UNCHANGED <<bytes, setting, sender, expired, delivered, faults>>

-----------------------------------------------------------------------------
(* A goroutine of the sender.                                               *)

Deliver(ms) == delivered' = delivered \cup UNION ms

(* An answer counts at once what it confirms.                               *)
Confirm(ms) ==
  sender' = [sender EXCEPT !.messages = @ + Cardinality(ms),
                           !.events = @ + MapThenSumSet(Cardinality, ms)]

MutFinish(i, error) ==
  /\ flights' = [flights EXCEPT ![i].step = IF error = "none" THEN "done" ELSE @]
  /\ sender' = [sender EXCEPT !.firstErr = @ \/ error = "send",
                              !.canceled = @ \/ error = "canceled"]

(* The goroutine returns an error and gives its slot back; the first error  *)
(* cancels its siblings.                                                    *)
Finish(i, error) ==
  /\ flights' = [flights EXCEPT ![i].step = "done"]
  /\ sender' = [sender EXCEPT !.firstErr = @ \/ error = "send",
                              !.canceled = @ \/ error = "canceled"]

MutBackOff(i, pending) == flights' = [flights EXCEPT ![i].step = "waiting"]

(* What the next call sends: all of it, or what an answer did not confirm.  *)
BackOff(i, pending) ==
  flights' = [flights EXCEPT ![i].step = "waiting", ![i].pending = pending]

MutAnswered(i, failed) ==
  /\ Confirm(flights[i].pending \ failed)
  /\ Deliver(flights[i].pending \ failed)
  /\ flights' = [flights EXCEPT ![i].step = "done"]

(* SendMessageBatch answered; the entries it failed are sent again.         *)
Answered(i, failed) ==
  /\ Confirm(flights[i].pending \ failed)
  /\ Deliver(flights[i].pending \ failed)
  /\ IF failed = {} THEN flights' = [flights EXCEPT ![i].step = "done"]
                    ELSE BackOff(i, failed)

(* The call returned an error, whether or not the queue took the messages.  *)
CallError(i, error) ==
  /\ Deliver({}) \/ Deliver(flights[i].pending)
  /\ IF flights[i].try = MaxTries - 1
       THEN Finish(i, error)
       ELSE BackOff(i, flights[i].pending) /\ UNCHANGED sender

(* An error the client classifies as permanent is not retried.              *)
Refused(i) == Finish(i, "send") /\ UNCHANGED delivered

Call(i) ==
  /\ flights[i].step = "calling"
  /\ \/ Answered(i, {}) /\ UNCHANGED faults
     \/ /\ \E failed \in (SUBSET flights[i].pending) \ {{}} : Answered(i, failed)
        /\ Fault("someFail")
     \/ CallError(i, "send") /\ Fault("callFails")
     \/ Cancelled /\ CallError(i, "canceled") /\ UNCHANGED faults
     \/ Refused(i) /\ Fault("refused")
  /\ UNCHANGED <<bytes, setting, producer, expired>>

Stillborn(i) ==
  /\ flights[i].step = "stillborn"
  /\ IF flights[i].try = MaxTries - 1
       THEN Finish(i, "canceled")
       ELSE BackOff(i, flights[i].pending) /\ UNCHANGED sender
  /\ UNCHANGED <<bytes, setting, producer, expired, delivered, faults>>

(* The pause before the next call ends by itself or by the cancellation.    *)
PauseEnds(i) ==
  /\ flights[i].step = "waiting"
  /\ \/ Cancelled /\ Finish(i, "canceled")
     \/ /\ flights[i].try + 1 < MaxTries
        /\ flights' = [flights EXCEPT ![i].step = CallStep, ![i].try = @ + 1]
        /\ UNCHANGED sender
     \/ /\ flights[i].try + 1 = MaxTries
        /\ Finish(i, "send")
  /\ UNCHANGED <<bytes, setting, producer, expired, delivered, faults>>

(* The Worker's own deadline, shortly before Lambda's.                      *)
Deadline ==
  /\ ~expired /\ Fault("deadline")
  /\ expired' = TRUE
  /\ UNCHANGED <<bytes, setting, producer, flights, sender, delivered>>

Goroutine(i) == Call(i) \/ Stillborn(i) \/ PauseEnds(i)

Next == Produce \/ Deadline \/ \E i \in DOMAIN flights : Goroutine(i)

(* Fairness: the goroutines of a running invocation are scheduled, and a    *)
(* call to SQS returns.                                                     *)
Spec == Init /\ [][Next]_vars
FairSpec == Spec /\ WF_vars(Produce)
                 /\ WF_vars(\E i \in DOMAIN flights : Goroutine(i))

-----------------------------------------------------------------------------
(* Properties.                                                              *)

(* Type invariant; no more goroutines are in flight than there are slots. *)
PublisherTypeOK ==
  /\ producer.next \in 1..(RecordCount + 1)
  /\ producer.open \cup producer.rejected \subseteq Records
  /\ producer.batch \in Seq(Messages)
  /\ producer.result \in Results
  /\ \A i \in DOMAIN flights :
       /\ flights[i].step \in {"calling", "stillborn", "waiting", "done"}
       /\ flights[i].try < MaxTries
  /\ Cardinality(InFlight) <= Concurrency
  /\ sender.messages <= RecordCount /\ sender.events <= RecordCount
  /\ faults \in 0..MaxFaults

(* What CompleteChunk is told is true: when the pass succeeds, nothing is   *)
(* in flight, every record is in the output queue or counted as rejected,   *)
(* and the published count is the number of records that were not rejected, *)
(* whatever was retried, in whichever order replies came.                   *)
SuccessIsComplete ==
  producer.result = "ok" =>
    /\ InFlight = {}
    /\ delivered = Records \ producer.rejected
    /\ sender.events + Cardinality(producer.rejected) = RecordCount

(* Every request, the first and every repetition, is one the client takes,  *)
(* and every bundle respects the limit of its job: a request refused by the *)
(* client would fail a chunk whose records are all legal.                   *)
RequestsFit ==
  \A i \in DOMAIN flights :
    /\ ClientAccepts(flights[i].pending)
    /\ setting.mode = "bundle" =>
         \A m \in flights[i].pending : MessageBytes(m) <= BundleLimit

(* "A sibling's cancellation is a consequence, not the cause": wait reports *)
(* a cancellation only when the caller's deadline caused it.                *)
CauseIsReported == producer.result = "canceled" => expired

(* A pass fails for a reason outside the sender: a fault, or a record too   *)
(* large for what it is put in.  Records that fit never fail a chunk, how-  *)
(* ever they fall into bundles and batches.                                 *)
FailuresAreExplained ==
  producer.result \notin {"none", "ok"} =>
    faults > 0 \/ \E r \in Records : TooLong(r) \/ Oversize(r)

(* The pass as its caller and the readers of the queue see it (RecordPass). *)
Pass == INSTANCE RecordPass WITH
  Total   <- RecordCount,
  taken   <- producer.next - 1,
  refused <- producer.rejected,
  sent    <- delivered,
  counted <- sender.events,
  outcome <- CASE producer.result = "none" -> "open"
               [] producer.result = "ok"   -> "succeeded"
               [] OTHER                    -> "failed"

(* Whatever is bundled, retried, cut short or answered late, every step is  *)
(* one step of that pass or invisible in it: refused records never reach    *)
(* the queue, at no time, even in a pass that fails, are more records       *)
(* counted than arrived, and after a success none arrives.                  *)
ImplementsPass == Pass!Spec

(* The pass ends: no goroutine keeps its slot, no wait is for ever.         *)
PassEnds == <>(producer.result # "none")
=============================================================================
