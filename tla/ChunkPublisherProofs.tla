------------------------- MODULE ChunkPublisherProofs -------------------------
(****************************************************************************)
(* Proofs about ChunkPublisher: for any number of records, sizes, settings, *)
(* slots and faults.  The first part, on slots and on the reasons a pass    *)
(* fails, holds whatever MessageBytes and Split return; the second, on what *)
(* is sent and counted, rests on what they do: a sum over the records of a  *)
(* message, a sum over the messages of a request, and a fold over a batch.  *)
(***************************************************************************)
EXTENDS ChunkPublisher, SumTheorems, SequenceTheorems

(* Goroutines, with whatever they have left to send; ...                    *)
FlightSteps == {"calling", "stillborn", "waiting", "done"}

Flight(P) == [ step : FlightSteps, try : 0..(MaxTries - 1), pending : P ]

FlightsTyped == \E P : flights \in Seq(Flight(P))

(* ... the producer, with whatever batches it has; ...                      *)
Producer(B) ==
  [ step : {"read", "submit", "acquire", "wait", "ended"}, next : Nat \ {0},
    open : SUBSET Records, batch : B, parts : B, last : BOOLEAN,
    rejected : SUBSET Records, result : Results ]

ProducerTyped == \E B : producer \in Producer(B)

(* ... the fields of the sender; ...                                        *)
SenderTyped ==
  \E M : sender \in [ firstErr : BOOLEAN, canceled : BOOLEAN, messages : M,
                      events : M ]

(* ... and the errors: nothing is given up and nothing cancelled without a  *)
(* fault, and a wait that ends the last attempt follows one.                *)
ErrorsHaveCause ==
  /\ faults \in 0..MaxFaults
  /\ sender.firstErr \/ expired => faults > 0
  /\ sender.canceled => sender.firstErr \/ expired
  /\ \A i \in DOMAIN flights :
       /\ flights[i].step = "stillborn" => Cancelled
       /\ flights[i].step = "waiting" /\ flights[i].try = MaxTries - 1 => faults > 0

(* An open bundle over the limit has a record too large for any bundle.     *)
OpenFits ==
  /\ setting.mode \in {"single", "bundle"}
  /\ setting.mode = "single" => producer.open = {}
  /\ producer.open # {} /\ MessageBytes(producer.open) > BundleLimit
       => \E r \in Records : Oversize(r)

PublisherInv ==
  /\ FlightsTyped /\ ProducerTyped /\ SenderTyped
  /\ ErrorsHaveCause /\ OpenFits
  /\ CauseIsReported /\ FailuresAreExplained
  /\ Cardinality(InFlight) <= Concurrency

-----------------------------------------------------------------------------
(* The producer alone: it looks at the errors and changes none.             *)
OnlyProducer == UNCHANGED <<bytes, setting, sender, expired, faults>>

ProducerInv == ProducerTyped /\ OpenFits /\ CauseIsReported /\ FailuresAreExplained

LEMMA SizesStay ==
  ASSUME OnlyProducer
  PROVE  /\ \A m : MessageBytes(m)' = MessageBytes(m)
         /\ BundleLimit' = BundleLimit
         /\ \A r : (TooLong(r)' <=> TooLong(r)) /\ (Oversize(r)' <=> Oversize(r))
<1>1. bytes' = bytes /\ setting' = setting
  BY DEF OnlyProducer
<1> QED BY <1>1 DEF MessageBytes, BundleLimit, TooLong, Oversize

LEMMA GoesOn ==
  ASSUME ProducerInv, OnlyProducer, NEW B, NEW q \in Producer(B), producer' = q,
         q.result = producer.result,
         setting.mode = "single" => q.open = {},
         q.open # {} /\ MessageBytes(q.open) > BundleLimit
           => \E r \in Records : Oversize(r)
  PROVE  ProducerInv'
<1>1. ProducerTyped'
  BY DEF ProducerTyped
<1>2. OpenFits'
  <2>1. setting' = setting
    BY DEF OnlyProducer
  <2>2. MessageBytes(producer.open)' = MessageBytes(q.open)
    BY SizesStay DEF MessageBytes, OnlyProducer
  <2> QED BY <2>1, <2>2, SizesStay DEF OpenFits, ProducerInv
<1>3. CauseIsReported' /\ FailuresAreExplained'
  BY SizesStay DEF ProducerInv, CauseIsReported, FailuresAreExplained, OnlyProducer
<1> QED BY <1>1, <1>2, <1>3 DEF ProducerInv

LEMMA Ends ==
  ASSUME ProducerInv, OnlyProducer, NEW result \in Results, End(result),
         result = "canceled" => expired,
         result \notin {"none", "ok"}
           => faults > 0 \/ \E r \in Records : TooLong(r) \/ Oversize(r)
  PROVE  ProducerInv'
<1>1. PICK B : producer \in Producer(B)
  BY DEF ProducerInv, ProducerTyped
<1>2. PICK q : q = [producer EXCEPT !.step = "ended", !.result = result]
  OBVIOUS
<1>3. /\ q \in Producer(B) /\ q.result = result /\ q.open = producer.open
      /\ producer' = q
  BY <1>1, <1>2 DEF Producer, End
<1>4. ProducerTyped'
  BY <1>3 DEF ProducerTyped
<1>5. OpenFits'
  <2>1. MessageBytes(producer.open)' = MessageBytes(producer.open)
    BY <1>3 DEF MessageBytes, OnlyProducer
  <2> QED BY <1>3, <2>1, SizesStay DEF OpenFits, ProducerInv, OnlyProducer
<1>6. CauseIsReported' /\ FailuresAreExplained'
  BY <1>3, SizesStay DEF CauseIsReported, FailuresAreExplained, OnlyProducer
<1> QED BY <1>4, <1>5, <1>6 DEF ProducerInv

(* A full batch is submitted; the open bundle and the result stay.          *)
LEMMA Enqueued ==
  ASSUME NEW B, NEW p \in Producer(B), NEW m
  PROVE  \E C : /\ Enqueue(p, m) \in Producer(C)
                /\ Enqueue(p, m).open = p.open /\ Enqueue(p, m).result = p.result
<1> DEFINE b == Append(p.batch, m)
<1>1. PICK C : C = B \cup {b, <<>>, Split(b)}
  OBVIOUS
<1>2. CASE Len(b) = BatchSize
  <2>1. PICK q : q = [p EXCEPT !.batch = <<>>, !.parts = Split(b), !.step = "submit"]
    OBVIOUS
  <2>2. Enqueue(p, m) = q
    BY <1>2, <2>1 DEF Enqueue
  <2>3. ASSUME NEW x \in C, NEW y \in C,
               q = [p EXCEPT !.batch = x, !.parts = y, !.step = "submit"]
        PROVE  q \in Producer(C) /\ q.open = p.open /\ q.result = p.result
    BY <1>1, <2>3 DEF Producer
  <2> QED BY <1>1, <2>1, <2>2, <2>3
<1>3. CASE Len(b) # BatchSize
  <2>1. PICK q : q = [p EXCEPT !.batch = b]
    OBVIOUS
  <2>2. Enqueue(p, m) = q
    BY <1>3, <2>1 DEF Enqueue
  <2>3. ASSUME NEW x \in C, q = [p EXCEPT !.batch = x]
        PROVE  q \in Producer(C) /\ q.open = p.open /\ q.result = p.result
    BY <1>1, <2>3 DEF Producer
  <2> QED BY <1>1, <2>1, <2>2, <2>3
<1> QED BY <1>2, <1>3

LEMMA ReadRecordKeeps ==
  ASSUME ProducerInv, OnlyProducer, ReadRecord PROVE ProducerInv'
<1> DEFINE r == producer.next
<1>1. PICK B : producer \in Producer(B)
  BY DEF ProducerInv, ProducerTyped
<1>2. r \in Records
  BY <1>1, PublisherConstants DEF ReadRecord, Reading, Producer, Records
<1>3. PICK p : p = Advance(producer)
  OBVIOUS
<1>4. /\ p \in Producer(B) /\ p.open = producer.open /\ p.result = producer.result
      /\ p.rejected = producer.rejected
  BY <1>1, <1>3 DEF Producer, Advance
<1>5. PICK skip : skip = [p EXCEPT !.rejected = p.rejected \cup {r}]
  OBVIOUS
<1>6. /\ skip \in Producer(B) /\ skip.open = p.open /\ skip.result = p.result
  BY <1>2, <1>4, <1>5 DEF Producer
<1>7. /\ setting.mode = "single" => producer.open = {}
      /\ producer.open # {} /\ MessageBytes(producer.open) > BundleLimit
           => \E s \in Records : Oversize(s)
  BY DEF ProducerInv, OpenFits
<1>8. CASE TooLong(r)
  <2>1. End("tooLong")
    BY <1>8 DEF ReadRecord
  <2>2. "tooLong" \in Results
    BY DEF Results
  <2> QED BY <1>2, <1>8, <2>1, <2>2, Ends
<1>9. CASE producer' = skip
  BY <1>4, <1>6, <1>7, <1>9, GoesOn
<1>10. ASSUME ~TooLong(r), setting.mode = "single" PROVE ProducerInv'
  <2>1. producer' = skip \/ producer' = Enqueue(p, {r})
    BY <1>3, <1>5, <1>10 DEF ReadRecord
  <2>2. CASE producer' = Enqueue(p, {r})
    <3>1. PICK C : /\ Enqueue(p, {r}) \in Producer(C)
                   /\ Enqueue(p, {r}).open = p.open
                   /\ Enqueue(p, {r}).result = p.result
      BY <1>4, Enqueued
    <3> QED BY <1>4, <1>7, <2>2, <3>1, GoesOn
  <2> QED BY <1>9, <2>1, <2>2
<1>11. ASSUME ~TooLong(r), setting.mode = "bundle" PROVE ProducerInv'
  <2>1. CASE p.open = {} /\ Oversize(r)
    <3>1. producer' = skip
      BY <1>3, <1>4, <1>5, <1>11, <2>1 DEF ReadRecord, MustFlush
    <3> QED BY <1>9, <3>1
  <2>2. CASE MustFlush(p.open, r) /\ MessageBytes(p.open) > BundleLimit
    <3>1. End("unpackable") /\ p.open # {}
      BY <1>3, <1>11, <2>2 DEF ReadRecord, MustFlush
    <3>2. "unpackable" \in Results
      BY DEF Results
    <3> QED BY <1>4, <1>7, <2>2, <3>1, <3>2, Ends
  <2>3. CASE MustFlush(p.open, r) /\ ~(MessageBytes(p.open) > BundleLimit)
    <3>1. PICK q : q = [p EXCEPT !.open = {r}]
      OBVIOUS
    <3>2. producer' = Enqueue(q, p.open)
      BY <1>3, <1>11, <2>3, <3>1 DEF ReadRecord, MustFlush
    <3>3. q \in Producer(B) /\ q.open = {r} /\ q.result = p.result
      BY <1>2, <1>4, <3>1 DEF Producer
    <3>4. PICK C : /\ Enqueue(q, p.open) \in Producer(C)
                   /\ Enqueue(q, p.open).open = {r}
                   /\ Enqueue(q, p.open).result = p.result
      BY <3>3, Enqueued
    <3>5. MessageBytes({r}) > BundleLimit => Oversize(r)
      BY <1>11 DEF Oversize
    <3> QED BY <1>2, <1>4, <1>11, <3>2, <3>4, <3>5, GoesOn
  <2>4. CASE ~(p.open = {} /\ Oversize(r)) /\ ~MustFlush(p.open, r)
    <3>1. PICK q : q = [p EXCEPT !.open = p.open \cup {r}]
      OBVIOUS
    <3>2. producer' = q
      BY <1>3, <1>11, <2>4, <3>1 DEF ReadRecord
    <3>3. q \in Producer(B) /\ q.open = p.open \cup {r} /\ q.result = p.result
      BY <1>2, <1>4, <3>1 DEF Producer
    <3>4. ~(MessageBytes(p.open \cup {r}) > BundleLimit)
      <4>1. CASE p.open = {}
        <5>1. p.open \cup {r} = {r}
          BY <4>1
        <5> QED BY <1>11, <2>4, <4>1, <5>1 DEF Oversize
      <4>2. CASE p.open # {}
        BY <2>4, <4>2 DEF MustFlush
      <4> QED BY <4>1, <4>2
    <3> QED BY <1>4, <1>11, <3>2, <3>3, <3>4, GoesOn
  <2> QED BY <2>1, <2>2, <2>3, <2>4
<1> QED BY <1>8, <1>10, <1>11 DEF ProducerInv, OpenFits

LEMMA OthersKeep ==
  ASSUME ProducerInv, ErrorsHaveCause, OnlyProducer,
         ReadAfterDeadline \/ Flush \/ Submit \/ Wait
  PROVE  ProducerInv'
<1>1. PICK B : producer \in Producer(B)
  BY DEF ProducerInv, ProducerTyped
<1>2. /\ setting.mode = "single" => producer.open = {}
      /\ producer.open # {} /\ MessageBytes(producer.open) > BundleLimit
           => \E s \in Records : Oversize(s)
  BY DEF ProducerInv, OpenFits
<1>3. ASSUME NEW result \in {"deadline", "sendError", "unpackable"}, End(result),
             result = "deadline" => expired, result = "sendError" => sender.firstErr,
             result = "unpackable" => \E s \in Records : Oversize(s)
      PROVE  ProducerInv'
  <2>1. result \in Results /\ result # "canceled"
    BY DEF Results
  <2>2. faults > 0 \/ \E r \in Records : TooLong(r) \/ Oversize(r)
    BY <1>3 DEF ErrorsHaveCause
  <2> QED BY <1>3, <2>1, <2>2, Ends
<1>4. ASSUME NEW s \in {"wait", "read", "acquire"},
             producer' = [producer EXCEPT !.step = s]
      PROVE  ProducerInv'
  <2>1. PICK q : q = [producer EXCEPT !.step = s]
    OBVIOUS
  <2>2. q \in Producer(B) /\ q.open = producer.open /\ q.result = producer.result
    BY <1>1, <2>1 DEF Producer
  <2> QED BY <1>2, <1>4, <2>1, <2>2, GoesOn
<1>5. CASE ReadAfterDeadline
  BY <1>3, <1>5 DEF ReadAfterDeadline
<1>6. CASE Flush
  <2> DEFINE open  == producer.open
             batch == IF open = {} THEN producer.batch ELSE Append(producer.batch, open)
  <2>1. CASE open # {} /\ MessageBytes(open) > BundleLimit
    <3>1. End("unpackable")
      BY <1>6, <2>1 DEF Flush
    <3> QED BY <1>2, <1>3, <2>1, <3>1
  <2>2. CASE ~(open # {} /\ MessageBytes(open) > BundleLimit)
    <3>1. PICK x : x = Split(batch)
      OBVIOUS
    <3>2. PICK C : C = B \cup {<<>>, x}
      OBVIOUS
    <3>3. PICK q : q = [producer EXCEPT !.open = {}, !.batch = <<>>, !.parts = x,
                                        !.last = TRUE, !.step = "submit"]
      OBVIOUS
    <3>4. producer' = q
      BY <1>6, <2>2, <3>1, <3>3 DEF Flush
    <3>5. q \in Producer(C) /\ q.open = {} /\ q.result = producer.result
      BY <1>1, <3>2, <3>3 DEF Producer
    <3> QED BY <3>4, <3>5, GoesOn
  <2> QED BY <2>1, <2>2
<1>7. CASE Submit
  <2>1. \/ \E s \in {"wait", "read", "acquire"} :
             producer' = [producer EXCEPT !.step = s]
        \/ sender.firstErr /\ End("sendError")
    BY <1>7 DEF Submit
  <2> QED BY <1>3, <1>4, <2>1
<1>8. CASE Wait
  <2>1. WaitResult \in {"sendError", "canceled", "ok"}
    BY DEF WaitResult
  <2>2. /\ WaitResult = "sendError" => faults > 0
        /\ WaitResult = "canceled" => expired /\ faults > 0
    BY DEF WaitResult, ErrorsHaveCause
  <2>3. End(WaitResult) /\ WaitResult \in Results
    BY <1>8, <2>1 DEF Wait, Results
  <2> QED BY <2>1, <2>2, <2>3, Ends
<1> QED BY <1>5, <1>6, <1>7, <1>8

-----------------------------------------------------------------------------
(* The goroutines: slots, and the errors they leave.                        *)
FlightsInv == FlightsTyped /\ ErrorsHaveCause /\ Cardinality(InFlight) <= Concurrency

LEMMA FlightsFinite ==
  ASSUME FlightsTyped
  PROVE  /\ Len(flights) \in Nat /\ DOMAIN flights = 1..Len(flights)
         /\ IsFiniteSet(InFlight) /\ Cardinality(InFlight) \in Nat
<1>1. PICK P : flights \in Seq(Flight(P))
  BY DEF FlightsTyped
<1>2. Len(flights) \in Nat /\ DOMAIN flights = 1..Len(flights)
  BY <1>1, LenProperties
<1>3. IsFiniteSet(DOMAIN flights)
  BY <1>2, FS_Interval
<1>4. InFlight \in SUBSET DOMAIN flights
  BY DEF InFlight
<1>5. IsFiniteSet(InFlight)
  BY <1>3, <1>4, FS_Subset
<1> QED BY <1>2, <1>5, FS_CardinalityType

(* A slot is taken only while one is free.                                  *)
LEMMA AcquireKeeps ==
  ASSUME ProducerInv, FlightsInv, OnlyProducer, Acquire
  PROVE  ProducerInv' /\ FlightsInv'
<1>1. PICK B : producer \in Producer(B)
  BY DEF ProducerInv, ProducerTyped
<1>2. CASE Cancelled /\ End("cut") /\ flights' = flights
  <2>1. "cut" \in Results /\ faults > 0
    BY <1>2 DEF Results, FlightsInv, ErrorsHaveCause, Cancelled
  <2>2. ProducerInv'
    BY <1>2, <2>1, Ends
  <2>3. FlightsInv'
    BY <1>2 DEF FlightsInv, FlightsTyped, ErrorsHaveCause, InFlight, OnlyProducer,
       Cancelled
  <2> QED BY <2>2, <2>3
<1> DEFINE new == [ step |-> CallStep, try |-> 0,
                    pending |-> Range(Head(producer.parts)) ]
<1>3. CASE /\ SlotFree /\ flights' = Append(flights, new)
           /\ producer' = [producer EXCEPT !.parts = Tail(@), !.step = "submit"]
  <2>1. ProducerInv'
    <3>1. PICK x : x = Tail(producer.parts)
      OBVIOUS
    <3>2. PICK q : q = [producer EXCEPT !.parts = x, !.step = "submit"]
      OBVIOUS
    <3>3. PICK C : C = B \cup {x}
      OBVIOUS
    <3>4. q \in Producer(C) /\ q.open = producer.open /\ q.result = producer.result
      BY <1>1, <3>2, <3>3 DEF Producer
    <3>5. producer' = q
      BY <1>3, <3>1, <3>2
    <3> QED BY <3>4, <3>5, GoesOn DEF ProducerInv, OpenFits
  <2>2. PICK P : flights \in Seq(Flight(P))
    BY DEF FlightsInv, FlightsTyped
  <2>3. PICK Q : Q = P \cup {new.pending}
    OBVIOUS
  <2>4. new \in Flight(Q) /\ new.step = CallStep /\ new.step # "done"
        /\ new.step # "waiting" /\ (new.step = "stillborn" <=> Cancelled)
    BY <2>3 DEF Flight, FlightSteps, CallStep, MaxTries
  <2>5. flights \in Seq(Flight(Q))
    <3>1. Flight(P) \subseteq Flight(Q)
      BY <2>3 DEF Flight
    <3> QED BY <2>2, <3>1, SeqMonotonic
  <2> DEFINE n == Len(flights)
  <2>6. /\ flights' \in Seq(Flight(Q)) /\ n \in Nat
        /\ DOMAIN flights' = 1..(n + 1) /\ DOMAIN flights = 1..n
        /\ flights'[n + 1] = new /\ \A i \in 1..n : flights'[i] = flights[i]
    BY <1>3, <2>4, <2>5
  <2>7. Cancelled' <=> Cancelled
    BY DEF Cancelled, OnlyProducer
  <2>8. ErrorsHaveCause'
    <3>1. ASSUME NEW i \in 1..(n + 1)
          PROVE  /\ flights'[i].step = "stillborn" => Cancelled
                 /\ flights'[i].step = "waiting" /\ flights'[i].try = MaxTries - 1
                      => faults > 0
      <4>1. CASE i = n + 1
        BY <2>4, <2>6, <4>1
      <4>2. CASE i \in 1..n
        BY <2>6, <4>2 DEF FlightsInv, ErrorsHaveCause
      <4> QED BY <2>6, <4>1, <4>2
    <3> QED BY <2>6, <2>7, <3>1 DEF FlightsInv, ErrorsHaveCause, OnlyProducer
  <2>9. Cardinality(InFlight)' <= Concurrency
    <3>1. InFlight' = InFlight \cup {n + 1} /\ n + 1 \notin InFlight
      BY <2>4, <2>6 DEF InFlight
    <3>2. Cardinality(InFlight') = Cardinality(InFlight) + 1
      BY <3>1, FlightsFinite, FS_AddElement DEF FlightsInv
    <3> QED BY <1>3, <3>2, FlightsFinite, PublisherConstants DEF SlotFree, FlightsInv
  <2> QED BY <2>1, <2>6, <2>8, <2>9 DEF FlightsInv, FlightsTyped
<1> QED BY <1>2, <1>3 DEF Acquire

(* One goroutine moves.                                                     *)
LEMMA Moves ==
  ASSUME FlightsTyped, Cardinality(InFlight) <= Concurrency,
         NEW i \in DOMAIN flights, flights[i].step # "done",
         NEW P, flights[i] \in Flight(P), NEW Q, NEW q \in Flight(Q),
         flights' = [flights EXCEPT ![i] = q]
  PROVE  /\ FlightsTyped' /\ (Cardinality(InFlight) <= Concurrency)'
         /\ DOMAIN flights' = DOMAIN flights /\ flights'[i] = q
         /\ \A j \in DOMAIN flights \ {i} : flights'[j] = flights[j]
<1>1. PICK R : flights \in Seq(Flight(R))
  BY DEF FlightsTyped
<1>2. PICK T : T = R \cup Q
  OBVIOUS
<1>3. Flight(R) \subseteq Flight(T) /\ q \in Flight(T)
  BY <1>2 DEF Flight
<1>4. flights \in Seq(Flight(T)) /\ i \in 1..Len(flights)
  BY <1>1, <1>3, SeqMonotonic, LenProperties
<1>5. flights' \in Seq(Flight(T))
  BY <1>3, <1>4, ExceptSeq
<1>6. /\ DOMAIN flights' = DOMAIN flights /\ flights'[i] = q
      /\ \A j \in DOMAIN flights \ {i} : flights'[j] = flights[j]
  OBVIOUS
<1>7. InFlight' \in SUBSET InFlight
  BY <1>6 DEF InFlight
<1>8. /\ Cardinality(InFlight') <= Cardinality(InFlight) /\ IsFiniteSet(InFlight')
  BY <1>7, FlightsFinite, FS_Subset
<1>9. Cardinality(InFlight') <= Concurrency
  BY <1>8, FlightsFinite, FS_CardinalityType, PublisherConstants
<1> QED BY <1>5, <1>6, <1>9 DEF FlightsTyped

LEMMA GoroutineKeeps ==
  ASSUME FlightsInv, SenderTyped, NEW i \in DOMAIN flights, Goroutine(i)
  PROVE  FlightsInv' /\ SenderTyped' /\ faults' >= faults
<1>1. PICK P : flights \in Seq(Flight(P))
  BY DEF FlightsInv, FlightsTyped
<1>2. flights[i] \in Flight(P)
  BY <1>1, LenProperties, ElementOfSeq
<1>3. PICK M : sender \in [ firstErr : BOOLEAN, canceled : BOOLEAN, messages : M,
                            events : M ]
  BY DEF SenderTyped
<1>4. /\ flights[i].step \in {"calling", "stillborn", "waiting"} /\ expired' = expired
      /\ faults \in 0..MaxFaults /\ MaxFaults \in Nat
  BY PublisherConstants DEF Goroutine, Call, Stillborn, PauseEnds, FlightsInv,
     ErrorsHaveCause
<1>5. /\ faults' \in 0..MaxFaults /\ faults' >= faults
      /\ \A kind : Fault(kind) => faults' > 0
  BY <1>4 DEF Goroutine, Call, Stillborn, PauseEnds, Fault
(* The goroutine goes on or ends, with the errors as they are or grown.     *)
<1>6. ASSUME NEW Q, NEW q \in Flight(Q), flights' = [flights EXCEPT ![i] = q],
             SenderTyped', sender.firstErr => sender'.firstErr,
             sender'.firstErr => faults' > 0,
             sender'.canceled => sender'.firstErr \/ expired,
             q.step = "stillborn" => Cancelled,
             q.step = "waiting" /\ q.try = MaxTries - 1 => faults' > 0
      PROVE  FlightsInv'
  <2>1. /\ FlightsTyped' /\ (Cardinality(InFlight) <= Concurrency)'
        /\ DOMAIN flights' = DOMAIN flights /\ flights'[i] = q
        /\ \A j \in DOMAIN flights \ {i} : flights'[j] = flights[j]
    BY <1>2, <1>4, <1>6, Moves DEF FlightsInv
  <2>2. Cancelled => Cancelled'
    BY <1>4, <1>6 DEF Cancelled
  <2>3. ASSUME NEW j \in DOMAIN flights
        PROVE  /\ flights'[j].step = "stillborn" => Cancelled'
               /\ flights'[j].step = "waiting" /\ flights'[j].try = MaxTries - 1
                    => faults' > 0
    <3>1. CASE j = i
      BY <1>6, <2>1, <2>2, <3>1
    <3>2. CASE j # i
      BY <1>4, <1>5, <2>1, <2>2, <3>2 DEF FlightsInv, ErrorsHaveCause
    <3> QED BY <3>1, <3>2
  <2>4. ErrorsHaveCause'
    BY <1>4, <1>5, <1>6, <2>1, <2>3 DEF FlightsInv, ErrorsHaveCause
  <2> QED BY <2>1, <2>4 DEF FlightsInv
<1>7. ASSUME NEW error \in {"send", "canceled"}, Finish(i, error),
             error = "send" => faults' > 0, error = "canceled" => Cancelled
      PROVE  FlightsInv' /\ SenderTyped'
  <2>1. PICK q : q = [flights[i] EXCEPT !.step = "done"]
    OBVIOUS
  <2>2. q \in Flight(P) /\ q.step = "done" /\ flights' = [flights EXCEPT ![i] = q]
    BY <1>2, <1>7, <2>1 DEF Flight, FlightSteps, Finish
  <2>3. PICK s : s = [sender EXCEPT !.firstErr = sender.firstErr \/ error = "send",
                                    !.canceled = sender.canceled \/ error = "canceled"]
    OBVIOUS
  <2>4. /\ s \in [ firstErr : BOOLEAN, canceled : BOOLEAN, messages : M, events : M ]
        /\ s.firstErr <=> sender.firstErr \/ error = "send"
        /\ s.canceled <=> sender.canceled \/ error = "canceled"
        /\ sender' = s
    BY <1>3, <1>7, <2>3 DEF Finish
  <2>5. SenderTyped'
    BY <2>4 DEF SenderTyped
  <2>6. /\ sender.firstErr => faults' > 0
        /\ sender.canceled => sender.firstErr \/ expired
    BY <1>4, <1>5 DEF FlightsInv, ErrorsHaveCause
  <2> QED BY <1>6, <1>7, <2>2, <2>4, <2>5, <2>6 DEF Cancelled
<1>8. ASSUME SenderTyped', sender'.firstErr = sender.firstErr,
             sender'.canceled = sender.canceled,
             NEW Q, NEW q \in Flight(Q), flights' = [flights EXCEPT ![i] = q],
             q.step = "stillborn" => Cancelled,
             q.step = "waiting" /\ q.try = MaxTries - 1 => faults' > 0
      PROVE  FlightsInv' /\ SenderTyped'
  <2>1. /\ sender.firstErr => faults' > 0
        /\ sender.canceled => sender.firstErr \/ expired
    BY <1>4, <1>5 DEF FlightsInv, ErrorsHaveCause
  <2> QED BY <1>6, <1>8, <2>1
<1>9. ASSUME NEW p, BackOff(i, p), SenderTyped', sender'.firstErr = sender.firstErr,
             sender'.canceled = sender.canceled,
             flights[i].try = MaxTries - 1 => faults' > 0
      PROVE  FlightsInv' /\ SenderTyped'
  <2>1. PICK Q : Q = P \cup {p}
    OBVIOUS
  <2>2. PICK q : q = [flights[i] EXCEPT !.step = "waiting", !.pending = p]
    OBVIOUS
  <2>3. /\ q \in Flight(Q) /\ q.step = "waiting" /\ q.try = flights[i].try
    BY <1>2, <2>1, <2>2 DEF Flight, FlightSteps
  <2>4. flights' = [flights EXCEPT ![i] = q]
    BY <1>9, <2>2 DEF BackOff
  <2> QED BY <1>8, <1>9, <2>3, <2>4
<1>10. UNCHANGED sender => /\ SenderTyped' /\ sender'.firstErr = sender.firstErr
                           /\ sender'.canceled = sender.canceled
  BY <1>3 DEF SenderTyped
<1>11. ASSUME NEW ms, Confirm(ms)
       PROVE  /\ SenderTyped' /\ sender'.firstErr = sender.firstErr
              /\ sender'.canceled = sender.canceled
  <2>1. PICK x, y : /\ x = sender.messages + Cardinality(ms)
                    /\ y = sender.events + MapThenSumSet(Cardinality, ms)
    OBVIOUS
  <2>2. sender' = [sender EXCEPT !.messages = x, !.events = y]
    BY <1>11, <2>1 DEF Confirm
  <2>3. PICK N : N = M \cup {x, y}
    OBVIOUS
  <2>4. /\ sender' \in [ firstErr : BOOLEAN, canceled : BOOLEAN, messages : N,
                         events : N ]
        /\ sender'.firstErr = sender.firstErr /\ sender'.canceled = sender.canceled
    BY <1>3, <2>2, <2>3
  <2> QED BY <2>4 DEF SenderTyped
<1>12. CASE Call(i)
  <2>1. ASSUME NEW failed, Answered(i, failed), failed # {} => faults' > 0
        PROVE  FlightsInv' /\ SenderTyped'
    <3>1. /\ SenderTyped' /\ sender'.firstErr = sender.firstErr
          /\ sender'.canceled = sender.canceled
      BY <1>11, <2>1 DEF Answered
    <3>2. CASE failed # {}
      BY <1>9, <2>1, <3>1, <3>2 DEF Answered
    <3>3. CASE failed = {}
      <4>1. PICK q : q = [flights[i] EXCEPT !.step = "done"]
        OBVIOUS
      <4>2. q \in Flight(P) /\ q.step = "done"
        BY <1>2, <4>1 DEF Flight, FlightSteps
      <4>3. flights' = [flights EXCEPT ![i] = q]
        BY <2>1, <3>3, <4>1 DEF Answered
      <4> QED BY <1>8, <3>1, <4>2, <4>3
    <3> QED BY <3>2, <3>3
  <2>2. ASSUME NEW error \in {"send", "canceled"}, CallError(i, error),
               error = "send" => faults' > 0, error = "canceled" => Cancelled
        PROVE  FlightsInv' /\ SenderTyped'
    <3>1. CASE flights[i].try = MaxTries - 1
      BY <1>7, <2>2, <3>1 DEF CallError
    <3>2. CASE flights[i].try # MaxTries - 1
      <4>1. PICK p : p = flights[i].pending
        OBVIOUS
      <4>2. BackOff(i, p) /\ UNCHANGED sender
        BY <2>2, <3>2, <4>1 DEF CallError
      <4> QED BY <1>9, <1>10, <3>2, <4>2
    <3> QED BY <3>1, <3>2
  <2>3. CASE Refused(i) /\ Fault("refused")
    BY <1>5, <1>7, <2>3 DEF Refused
  <2> QED BY <1>5, <1>12, <2>1, <2>2, <2>3 DEF Call
<1>13. CASE Stillborn(i)
  <2>1. Cancelled
    BY <1>13 DEF Stillborn, FlightsInv, ErrorsHaveCause
  <2>2. CASE flights[i].try = MaxTries - 1
    BY <1>5, <1>7, <1>13, <2>1, <2>2 DEF Stillborn
  <2>3. CASE flights[i].try # MaxTries - 1
    <3>1. PICK p : p = flights[i].pending
      OBVIOUS
    <3>2. BackOff(i, p) /\ UNCHANGED sender
      BY <1>13, <2>3, <3>1 DEF Stillborn
    <3> QED BY <1>5, <1>9, <1>10, <2>3, <3>2
  <2> QED BY <2>2, <2>3
<1>14. CASE PauseEnds(i)
  <2>1. CASE Cancelled /\ Finish(i, "canceled")
    BY <1>5, <1>7, <2>1
  <2>2. CASE flights[i].try + 1 = MaxTries /\ Finish(i, "send")
    <3>1. flights[i].try = MaxTries - 1 /\ flights[i].step = "waiting"
      BY <1>2, <1>14, <2>2 DEF Flight, MaxTries, PauseEnds
    <3>2. faults' > 0
      BY <1>4, <1>5, <3>1 DEF FlightsInv, ErrorsHaveCause
    <3> QED BY <1>5, <1>7, <2>2, <3>2
  <2>3. CASE /\ flights[i].try + 1 < MaxTries /\ UNCHANGED sender
             /\ flights' = [flights EXCEPT ![i].step = CallStep, ![i].try = @ + 1]
    <3>1. PICK t : t = flights[i].try + 1
      OBVIOUS
    <3>2. PICK q : q = [flights[i] EXCEPT !.step = CallStep, !.try = t]
      OBVIOUS
    <3>3. CallStep \in {"calling", "stillborn"} /\ (CallStep = "stillborn" => Cancelled)
      BY DEF CallStep
    <3>4. q \in Flight(P) /\ q.step = CallStep
      BY <1>2, <2>3, <3>1, <3>2, <3>3 DEF Flight, FlightSteps, MaxTries
    <3>5. flights' = [flights EXCEPT ![i] = q]
      BY <2>3, <3>1, <3>2
    <3> QED BY <1>5, <1>8, <1>10, <2>3, <3>3, <3>4, <3>5
  <2> QED BY <1>14, <2>1, <2>2, <2>3 DEF PauseEnds
<1> QED BY <1>5, <1>12, <1>13, <1>14 DEF Goroutine

-----------------------------------------------------------------------------
(* The whole publisher.                                                     *)
LEMMA ProducerUndisturbed ==
  ASSUME ProducerInv, UNCHANGED <<bytes, setting, producer>>, expired => expired',
         faults > 0 => faults' > 0
  PROVE  ProducerInv'
<1>1. /\ MessageBytes(producer.open)' = MessageBytes(producer.open)
      /\ BundleLimit' = BundleLimit
      /\ \A r : (TooLong(r)' <=> TooLong(r)) /\ (Oversize(r)' <=> Oversize(r))
  BY DEF MessageBytes, BundleLimit, TooLong, Oversize
<1>2. ProducerTyped'
  BY DEF ProducerInv, ProducerTyped
<1>3. OpenFits'
  BY <1>1 DEF ProducerInv, OpenFits
<1>4. CauseIsReported' /\ FailuresAreExplained'
  BY <1>1 DEF ProducerInv, CauseIsReported, FailuresAreExplained
<1> QED BY <1>2, <1>3, <1>4 DEF ProducerInv

LEMMA ProduceKeeps ==
  ASSUME PublisherInv, Produce PROVE PublisherInv'
<1>1. ProducerInv /\ FlightsInv /\ ErrorsHaveCause /\ SenderTyped
  BY DEF PublisherInv, ProducerInv, FlightsInv
<1>2. OnlyProducer
  BY DEF Produce, OnlyProducer
<1>3. SenderTyped'
  BY <1>1, <1>2 DEF SenderTyped, OnlyProducer
<1>4. ProducerInv' /\ FlightsInv'
  <2>1. CASE Acquire
    BY <1>1, <1>2, <2>1, AcquireKeeps
  <2>2. CASE /\ ReadAfterDeadline \/ ReadRecord \/ Flush \/ Submit \/ Wait
             /\ UNCHANGED flights
    <3>1. ProducerInv'
      BY <1>1, <1>2, <2>2, ReadRecordKeeps, OthersKeep
    <3>2. FlightsInv'
      BY <1>1, <1>2, <2>2 DEF FlightsInv, FlightsTyped, ErrorsHaveCause, InFlight,
         OnlyProducer, Cancelled
    <3> QED BY <3>1, <3>2
  <2> QED BY <2>1, <2>2 DEF Produce
<1> QED BY <1>3, <1>4 DEF PublisherInv, ProducerInv, FlightsInv

LEMMA DeadlineKeeps ==
  ASSUME PublisherInv, Deadline PROVE PublisherInv'
<1>1. /\ faults \in 0..MaxFaults /\ faults' \in 0..MaxFaults /\ faults' > 0
      /\ expired' = TRUE /\ UNCHANGED <<bytes, setting, producer, flights, sender>>
  BY PublisherConstants DEF Deadline, Fault, PublisherInv, ErrorsHaveCause
<1>2. ProducerInv'
  BY <1>1, ProducerUndisturbed DEF PublisherInv, ProducerInv
<1>3. FlightsTyped' /\ SenderTyped' /\ (Cardinality(InFlight) <= Concurrency)'
  BY <1>1 DEF PublisherInv, FlightsTyped, SenderTyped, InFlight
<1>4. ErrorsHaveCause'
  BY <1>1 DEF PublisherInv, ErrorsHaveCause, Cancelled
<1> QED BY <1>2, <1>3, <1>4 DEF PublisherInv, ProducerInv

LEMMA FlightKeeps ==
  ASSUME PublisherInv, NEW i \in DOMAIN flights, Goroutine(i) PROVE PublisherInv'
<1>1. ProducerInv /\ FlightsInv /\ SenderTyped /\ faults \in 0..MaxFaults
  BY DEF PublisherInv, ProducerInv, FlightsInv, ErrorsHaveCause
<1>2. FlightsInv' /\ SenderTyped' /\ faults' >= faults
  BY <1>1, GoroutineKeeps
<1>3. UNCHANGED <<bytes, setting, producer, expired>>
  BY DEF Goroutine, Call, Stillborn, PauseEnds
<1>4. faults > 0 => faults' > 0
  <2>1. faults' \in 0..MaxFaults
    BY <1>2, PublisherConstants DEF FlightsInv, ErrorsHaveCause
  <2> QED BY <1>1, <1>2, <2>1, PublisherConstants
<1>5. ProducerInv'
  BY <1>1, <1>3, <1>4, ProducerUndisturbed
<1> QED BY <1>2, <1>5 DEF PublisherInv, ProducerInv, FlightsInv

LEMMA PublisherInit == Init => PublisherInv
<1> SUFFICES ASSUME Init PROVE PublisherInv
  OBVIOUS
<1>1. FlightsTyped /\ DOMAIN flights = {}
  <2>1. flights \in Seq(Flight({})) /\ DOMAIN flights = {}
    BY DEF Init
  <2> QED BY <2>1 DEF FlightsTyped
<1>2. ProducerTyped /\ producer.open = {} /\ producer.result = "none"
  <2>1. PICK B : B = {<<>>}
    OBVIOUS
  <2>2. producer \in Producer(B)
    BY <2>1 DEF Init, Producer, Results
  <2> QED BY <2>2 DEF ProducerTyped, Init
<1>3. SenderTyped
  <2>1. sender \in [ firstErr : BOOLEAN, canceled : BOOLEAN, messages : {0},
                     events : {0} ]
    BY DEF Init
  <2> QED BY <2>1 DEF SenderTyped
<1>4. ErrorsHaveCause
  BY <1>1, PublisherConstants DEF Init, ErrorsHaveCause
<1>5. OpenFits
  BY <1>2, PublisherConstants DEF Init, OpenFits, Setting
<1>6. CauseIsReported /\ FailuresAreExplained
  BY <1>2 DEF CauseIsReported, FailuresAreExplained
<1>7. Cardinality(InFlight) <= Concurrency
  <2>1. InFlight = {}
    BY <1>1 DEF InFlight
  <2> QED BY <2>1, FS_EmptySet, PublisherConstants
<1> QED BY <1>1, <1>2, <1>3, <1>4, <1>5, <1>6, <1>7 DEF PublisherInv

LEMMA PublisherInvariant == Spec => []PublisherInv
<1>1. ASSUME PublisherInv, UNCHANGED vars PROVE PublisherInv'
  <2>1. ProducerInv'
    BY <1>1, ProducerUndisturbed DEF PublisherInv, ProducerInv, vars
  <2>2. FlightsTyped' /\ SenderTyped' /\ (Cardinality(InFlight) <= Concurrency)'
    BY <1>1 DEF PublisherInv, FlightsTyped, SenderTyped, InFlight, vars
  <2>3. ErrorsHaveCause'
    BY <1>1 DEF PublisherInv, ErrorsHaveCause, Cancelled, vars
  <2> QED BY <2>1, <2>2, <2>3 DEF PublisherInv, ProducerInv
<1>2. PublisherInv /\ [Next]_vars => PublisherInv'
  BY <1>1, ProduceKeeps, DeadlineKeeps, FlightKeeps DEF Next
<1> QED BY <1>2, PublisherInit, PTL DEF Spec

(* wait never reports a sibling's cancellation as the cause: a pass that    *)
(* ends with "canceled" ran into the deadline of the invocation, however    *)
(* many goroutines failed, were cut short or never got to call.             *)
THEOREM CausesAreReported == Spec => []CauseIsReported
BY PublisherInvariant, PTL DEF PublisherInv

(* Records that fit never fail a chunk: without a fault, a pass fails only  *)
(* over a record too large, for any number of records, of slots, of entries *)
(* to a batch and for any sizes.                                            *)
THEOREM FailuresHaveReasons == Spec => []FailuresAreExplained
BY PublisherInvariant, PTL DEF PublisherInv

(* No more goroutines are in flight than the sender has slots, those that   *)
(* wait for a repetition included: the slot is taken before the goroutine   *)
(* starts and given back when it returns, whatever it returns.              *)
THEOREM SlotsAreBounded == Spec => [](Cardinality(InFlight) <= Concurrency)
BY PublisherInvariant, PTL DEF PublisherInv

-----------------------------------------------------------------------------
(* What is sent and what is counted.                                        *)

(* Records in a list of batches, those the producer still holds, and those  *)
(* that went to a goroutine.                                                *)
Within(ps) == UNION { UNION Range(ps[j]) : j \in DOMAIN ps }

Held(q) == q.open \cup (UNION Range(q.batch)) \cup Within(q.parts)

Passed(q) == 1..(q.next - 1) \ (q.rejected \cup Held(q))

(* A record is in one message; a message, a request, a batch and its parts  *)
(* as the limits want them.                                                 *)
Apart(ms) == \A a, b \in ms : a # b => a \cap b = {}

MessageFits(m) ==
  MessageBytes(m) <= IF setting.mode = "single" THEN PhysicalLimit ELSE BundleLimit

Request(ms) ==
  /\ ms \subseteq Messages /\ Apart(ms)
  /\ ClientAccepts(ms) /\ \A m \in ms : MessageFits(m)

BatchShape(b) ==
  /\ b \in Seq(Messages)
  /\ \A k \in DOMAIN b : MessageFits(b[k])
  /\ \A k, l \in DOMAIN b : k # l => b[k] \cap b[l] = {}

PartsShape(ps) ==
  /\ ps \in Seq(Seq(Messages))
  /\ \A j \in DOMAIN ps : Request(Range(ps[j]))
  /\ \A j, l \in DOMAIN ps :
       j # l => (UNION Range(ps[j])) \cap (UNION Range(ps[l])) = {}

(* Every record up to the producer's position was rejected, is held, or went*)
(* to a goroutine, and only one of the three.                               *)
ProducerShape(q) ==
  /\ q.next \in 1..(RecordCount + 1)
  /\ BatchShape(q.batch) /\ PartsShape(q.parts)
  /\ q.rejected \cup Held(q) \subseteq 1..(q.next - 1)
  /\ q.rejected \cap Held(q) = {}
  /\ \A k \in DOMAIN q.batch : q.open \cap q.batch[k] = {}
  /\ \A j \in DOMAIN q.parts : q.open \cap (UNION Range(q.parts[j])) = {}
  /\ q.parts # <<>> => q.batch = <<>>
  /\ q.step = "read" => q.parts = <<>> /\ ~q.last
  /\ q.last => q.open = {} /\ q.batch = <<>> /\ q.next = RecordCount + 1
  /\ q.step = "wait" => q.last /\ q.parts = <<>>
  /\ q.step = "acquire" => q.parts # <<>>
  /\ q.result # "none" => q.step = "ended"

(* What goroutine i has left to send; ...                                   *)
Sent(i) == UNION flights[i].pending
Waiting == UNION { Sent(i) : i \in InFlight }

FlightsShape ==
  \A i \in DOMAIN flights :
    /\ Request(flights[i].pending)
    /\ Sent(i) \subseteq Passed(producer)
    /\ \A j \in DOMAIN flights : i # j => Sent(i) \cap Sent(j) = {}

(* ... what is counted is in the queue and is not sent again; what was      *)
(* neither rejected nor is held or waiting was confirmed, and counted once, *)
(* unless an error was kept: then it may have been given up.                *)
Accounted ==
  /\ delivered \subseteq Passed(producer)
  /\ sender.messages \in Nat /\ sender.events \in Nat
  /\ sender.messages <= sender.events
  /\ sender.events <= Cardinality(delivered \ Waiting)
  /\ ~sender.firstErr /\ ~sender.canceled =>
       /\ Passed(producer) \ Waiting \subseteq delivered
       /\ sender.events = Cardinality(Passed(producer) \ Waiting)

SendInv == ProducerShape(producer) /\ FlightsShape /\ Accounted /\ SuccessIsComplete

(* What was drawn when the job began. *)
JobTyped == bytes \in [Records -> Nat] /\ setting \in Setting

BytesInMessage == [m \in Messages |-> MessageBytes(m)]
SizeOfMessage  == [m \in Messages |-> Cardinality(m)]

LEMMA RecordsFinite == IsFiniteSet(Records) /\ Cardinality(Records) = RecordCount
<1>1. RecordCount \in Nat /\ 1 \in Int /\ RecordCount \in Int
  BY PublisherConstants
<1>2. /\ IsFiniteSet(1..RecordCount)
      /\ Cardinality(1..RecordCount) = IF 1 > RecordCount THEN 0 ELSE RecordCount - 1 + 1
  BY <1>1, FS_Interval, Zenon
<1> QED BY <1>1, <1>2 DEF Records

LEMMA MessagesFinite ==
  ASSUME NEW ms \in SUBSET Messages
  PROVE  /\ IsFiniteSet(Records) /\ Cardinality(Records) = RecordCount
         /\ IsFiniteSet(ms) /\ Cardinality(ms) \in Nat
         /\ IsFiniteSet(UNION ms) /\ UNION ms \subseteq Records
         /\ Cardinality(UNION ms) \in Nat
<1>1. IsFiniteSet(Records) /\ Cardinality(Records) = RecordCount
  BY RecordsFinite
<1>2. IsFiniteSet(SUBSET Records)
  BY <1>1, FS_SUBSET
<1>3. ms \subseteq SUBSET Records /\ UNION ms \subseteq Records
  BY DEF Messages
<1>4. IsFiniteSet(ms) /\ IsFiniteSet(UNION ms)
  BY <1>1, <1>2, <1>3, FS_Subset
<1> QED BY <1>1, <1>3, <1>4, FS_CardinalityType

LEMMA MessageSize ==
  ASSUME NEW m \in Messages
  PROVE  /\ IsFiniteSet(m) /\ Cardinality(m) \in Nat \ {0}
         /\ SizeOfMessage[m] = Cardinality(m)
<1>1. IsFiniteSet(m) /\ m # {}
  <2>1. IsFiniteSet(Records)
    BY RecordsFinite
  <2>2. m \in SUBSET Records /\ m # {}
    BY DEF Messages
  <2> QED BY <2>1, <2>2, FS_Subset
<1>2. Cardinality(m) \in Nat /\ Cardinality(m) # 0
  BY <1>1, FS_CardinalityType, FS_EmptySet
<1> QED BY <1>1, <1>2 DEF SizeOfMessage

(* The bytes of a message are a sum over its records, those of a request a sum over its messages. *)
LEMMA MessageBytesType ==
  ASSUME JobTyped, NEW m \in Messages
  PROVE  MessageBytes(m) \in Nat /\ BytesInMessage[m] = MessageBytes(m)
<1> DEFINE P(iter) == iter = [s \in SUBSET m |-> IF s = {} THEN 0
                         ELSE bytes[Pick(s)] + iter[s \ {Pick(s)}]]
<1>1. MapThenSumSet(LAMBDA r : bytes[r], m) = (CHOOSE iter : P(iter))[m]
  BY DEF MapThenSumSet, MapThenFoldSet, Pick
<1>2. (CHOOSE iter : P(iter)) = (CHOOSE iter : IsSum(iter, bytes, m))
  <2>1. \A iter : P(iter) <=> IsSum(iter, bytes, m)
    BY DEF IsSum
  <2> HIDE DEF P
  <2> QED BY <2>1
<1> HIDE DEF P
<1>3. MapThenSumSet(LAMBDA r : bytes[r], m) = SumFunctionOnSet(bytes, m)
  BY <1>1, <1>2, SumDef
<1>4. SumFunctionOnSet(bytes, m) \in Nat
  <2>1. \A r \in m : bytes[r] \in Nat
    BY DEF JobTyped, Messages
  <2> QED BY <2>1, MessageSize, SumType
<1>5. MessageBytes(m) = Overhead + SumFunctionOnSet(bytes, m) + Cardinality(m) - 1
  BY <1>3 DEF MessageBytes, BytesOf
<1>6. MessageBytes(m) \in Nat
  <2>1. Overhead \in Nat /\ Cardinality(m) \in Nat \ {0}
    BY MessageSize, PublisherConstants
  <2> QED BY <1>4, <1>5, <2>1
<1> QED BY <1>6 DEF BytesInMessage

LEMMA RequestBytesSum ==
  ASSUME NEW ms \in SUBSET Messages
  PROVE  RequestBytes(ms) = SumFunctionOnSet(BytesInMessage, ms)
<1> DEFINE P(iter) == iter = [s \in SUBSET ms |-> IF s = {} THEN 0
                         ELSE MessageBytes(Pick(s)) + iter[s \ {Pick(s)}]]
<1>1. RequestBytes(ms) = (CHOOSE iter : P(iter))[ms]
  BY DEF RequestBytes, MapThenSumSet, MapThenFoldSet, Pick
<1>2. ASSUME NEW s \in SUBSET ms, s # {}
      PROVE  BytesInMessage[Pick(s)] = MessageBytes(Pick(s))
  BY <1>2 DEF Pick, BytesInMessage
<1>3. (CHOOSE iter : P(iter)) = (CHOOSE iter : IsSum(iter, BytesInMessage, ms))
  <2>1. \A iter : P(iter) <=> IsSum(iter, BytesInMessage, ms)
    BY <1>2 DEF IsSum
  <2> HIDE DEF P
  <2> QED BY <2>1
<1> HIDE DEF P
<1> QED BY <1>1, <1>3, SumDef

LEMMA ConfirmedSum ==
  ASSUME NEW ms \in SUBSET Messages
  PROVE  MapThenSumSet(Cardinality, ms) = SumFunctionOnSet(SizeOfMessage, ms)
<1> DEFINE P(iter) == iter = [s \in SUBSET ms |-> IF s = {} THEN 0
                         ELSE Cardinality(Pick(s)) + iter[s \ {Pick(s)}]]
<1>1. MapThenSumSet(Cardinality, ms) = (CHOOSE iter : P(iter))[ms]
  BY DEF MapThenSumSet, MapThenFoldSet, Pick
<1>2. ASSUME NEW s \in SUBSET ms, s # {}
      PROVE  SizeOfMessage[Pick(s)] = Cardinality(Pick(s))
  BY <1>2 DEF Pick, SizeOfMessage
<1>3. (CHOOSE iter : P(iter)) = (CHOOSE iter : IsSum(iter, SizeOfMessage, ms))
  <2>1. \A iter : P(iter) <=> IsSum(iter, SizeOfMessage, ms)
    BY <1>2 DEF IsSum
  <2> HIDE DEF P
  <2> QED BY <2>1
<1> HIDE DEF P
<1> QED BY <1>1, <1>3, SumDef

(* A repetition sends a part of the request. *)
LEMMA PartOfRequest ==
  ASSUME JobTyped, NEW ms, Request(ms), NEW ns \in SUBSET ms
  PROVE  Request(ns)
<1>1. ms \subseteq Messages /\ ns \subseteq Messages
  BY DEF Request
<1>2. Apart(ns) /\ \A m \in ns : MessageFits(m) /\ MessageBytes(m) <= PhysicalLimit
  BY DEF Request, Apart, ClientAccepts
<1>3. Cardinality(ns) <= Cardinality(ms) /\ Cardinality(ns) \in Nat /\ Cardinality(ms) \in Nat
  BY <1>1, MessagesFinite, FS_Subset
<1>4. RequestBytes(ns) <= RequestBytes(ms) /\ RequestBytes(ns) \in Nat /\ RequestBytes(ms) \in Nat
  <2>1. \A m \in ms : BytesInMessage[m] \in Nat
    BY <1>1, MessageBytesType
  <2>2. IsFiniteSet(ms) /\ IsFiniteSet(ns)
    BY <1>1, MessagesFinite
  <2>3. RequestBytes(ns) = SumFunctionOnSet(BytesInMessage, ns)
        /\ RequestBytes(ms) = SumFunctionOnSet(BytesInMessage, ms)
    BY <1>1, RequestBytesSum
  <2>4. SumFunctionOnSet(BytesInMessage, ns) <= SumFunctionOnSet(BytesInMessage, ms)
    BY <2>1, <2>2, SumSubset
  <2>5. SumFunctionOnSet(BytesInMessage, ns) \in Nat /\ SumFunctionOnSet(BytesInMessage, ms) \in Nat
    BY <2>1, <2>2, SumType
  <2> QED BY <2>3, <2>4, <2>5
<1>5. ClientAccepts(ns)
  <2>1. Cardinality(ms) <= BatchEntries /\ (Cardinality(ms) > 1 => RequestBytes(ms) <= PhysicalLimit)
    BY DEF Request, ClientAccepts
  <2>2. BatchEntries \in Nat /\ PhysicalLimit \in Nat
    BY PublisherConstants
  <2> QED BY <1>2, <1>3, <1>4, <2>1, <2>2 DEF ClientAccepts
<1> QED BY <1>1, <1>2, <1>5 DEF Request

-----------------------------------------------------------------------------
(* splitSendBatches: the fold, message by message. *)
PlaceIn(parts, m) ==
  IF /\ parts # <<>>
     /\ Len(Last(parts)) < BatchEntries
     /\ RequestBytes(Range(Last(parts)) \cup {m}) <= PhysicalLimit
    THEN [parts EXCEPT ![Len(parts)] = Append(parts[Len(parts)], m)]
    ELSE Append(parts, <<m>>)

IsSplit(t, b) ==
  t = [s \in SUBSET DOMAIN b |->
         IF s = {} THEN <<>> ELSE PlaceIn(t[s \ {Max(s)}], b[Max(s)])]

SplitTable(b) == CHOOSE t : IsSplit(t, b)

LEMMA SplitDef ==
  ASSUME NEW b PROVE Split(b) = SplitTable(b)[DOMAIN b]
  BY DEF Split, FoldLeft, MapThenFoldSet, IsSplit, SplitTable, PlaceIn

LEMMA GreatestOfInterval ==
  ASSUME NEW s, IsFiniteSet(s), s \subseteq Nat, s # {}
  PROVE  Max(s) \in s /\ \A x \in s : Max(s) >= x
<1> DEFINE T == {n \in Nat : \A t \in SUBSET s : Cardinality(t) = n /\ t # {} =>
                   \E x \in t : \A y \in t : x >= y}
<1>1. 0 \in T
  BY FS_Subset, FS_EmptySet
<1>2. ASSUME NEW n \in Nat, n \in T PROVE n + 1 \in T
  <2>1. ASSUME NEW t \in SUBSET s, Cardinality(t) = n + 1, t # {}
        PROVE  \E x \in t : \A y \in t : x >= y
    <3>1. PICK z \in t : TRUE
      BY <2>1
    <3>2. IsFiniteSet(t) /\ t \ {z} \in SUBSET s
      BY FS_Subset
    <3>3. Cardinality(t \ {z}) = Cardinality(t) - 1
      BY <3>2, FS_RemoveElement
    <3>4. CASE t \ {z} = {}
      BY <3>1, <3>4
    <3>5. CASE t \ {z} # {}
      <4>1. PICK x \in t \ {z} : \A y \in t \ {z} : x >= y
        BY <1>2, <2>1, <3>2, <3>3, <3>5
      <4>2. x \in Nat /\ z \in Nat /\ \A y \in t : y \in Nat
        OBVIOUS
      <4>3. CASE x >= z
        BY <4>1, <4>2, <4>3
      <4>4. CASE ~(x >= z)
        BY <3>1, <4>1, <4>2, <4>4
      <4> QED BY <4>3, <4>4
    <3> QED BY <3>4, <3>5
  <2> QED BY <2>1
<1>3. Nat \subseteq T
  <2> HIDE DEF T
  <2> QED BY <1>1, <1>2, NaturalSet
<1>4. \E x \in s : \A y \in s : x >= y
  BY <1>3, FS_CardinalityType
<1> QED BY <1>4 DEF Max

LEMMA SplitExists ==
  ASSUME NEW b, NEW n \in Nat, DOMAIN b = 1..n
  PROVE  IsSplit(SplitTable(b), b)
<1> DEFINE S == 1..n
           Small(k) == {s \in SUBSET S : Cardinality(s) <= k}
           Partial(g, k) ==
             g = [s \in Small(k) |->
                    IF s = {} THEN <<>> ELSE PlaceIn(g[s \ {Max(s)}], b[Max(s)])]
           N == {k \in Nat : \E g : Partial(g, k)}
<1>0. IsFiniteSet(S) /\ S \subseteq Nat /\ DOMAIN b = S
  BY FS_Interval
<1> HIDE DEF S
<1>1. 0 \in N
  <2> DEFINE g == [s \in Small(0) |-> <<>>]
  <2>1. ASSUME NEW s \in Small(0) PROVE s = {}
    <3>1. IsFiniteSet(s) /\ Cardinality(s) <= 0
      BY <1>0, FS_Subset
    <3> QED BY <3>1, FS_EmptySet, FS_CardinalityType
  <2>2. Partial(g, 0)
    BY <2>1
  <2> QED BY <2>2
<1>2. ASSUME NEW k \in Nat, k \in N PROVE k + 1 \in N
  <2>1. PICK g : Partial(g, k)
    BY <1>2
  <2> DEFINE h == [s \in Small(k + 1) |->
                     IF s = {} THEN <<>> ELSE PlaceIn(g[s \ {Max(s)}], b[Max(s)])]
  <2>2. ASSUME NEW s \in Small(k + 1), s # {} PROVE s \ {Max(s)} \in Small(k)
    <3>1. IsFiniteSet(s) /\ Cardinality(s) <= k + 1
      BY <1>0, FS_Subset
    <3>2. s \subseteq Nat
      BY <1>0
    <3>3. Max(s) \in s
      BY <2>2, <3>1, <3>2, GreatestOfInterval
    <3>4. Cardinality(s \ {Max(s)}) = Cardinality(s) - 1
      BY <3>1, <3>3, FS_RemoveElement
    <3>5. Cardinality(s) \in Nat
      BY <3>1, FS_CardinalityType
    <3> QED BY <3>1, <3>4, <3>5
  <2>3. ASSUME NEW s \in Small(k) PROVE s \in Small(k + 1) /\ h[s] = g[s]
    <3>1. s \in Small(k + 1)
      <4>1. IsFiniteSet(s)
        BY <1>0, FS_Subset
      <4>2. Cardinality(s) \in Nat
        BY <4>1, FS_CardinalityType
      <4> QED BY <4>2
    <3> HIDE DEF Small
    <3>2. g[s] = IF s = {} THEN <<>> ELSE PlaceIn(g[s \ {Max(s)}], b[Max(s)])
      BY <2>1, Zenon
    <3> QED BY <3>1, <3>2
  <2>4. Partial(h, k + 1)
    <3> HIDE DEF Small
    <3>1. ASSUME NEW s \in Small(k + 1)
          PROVE  h[s] = IF s = {} THEN <<>> ELSE PlaceIn(h[s \ {Max(s)}], b[Max(s)])
      BY <2>2, <2>3
    <3> HIDE DEF h
    <3>2. h = [s \in Small(k + 1) |-> h[s]]
      BY Zenon DEF h
    <3> QED BY <3>1, <3>2, Zenon
  <2>5. QED
    <3> HIDE DEF Partial, h
    <3> QED BY <2>4
<1>3. Nat \subseteq N
  <2> HIDE DEF N
  <2> QED BY <1>1, <1>2, NaturalSet
<1>4. Cardinality(S) \in Nat
  BY <1>0, FS_CardinalityType
<1>5. Small(Cardinality(S)) = SUBSET S
  BY <1>0, FS_Subset, FS_CardinalityType
<1>6. PICK g : Partial(g, Cardinality(S))
  BY <1>3, <1>4
<1>7. IsSplit(g, b)
  <2> HIDE DEF Small
  <2> QED BY <1>0, <1>5, <1>6, Zenon DEF IsSplit
<1>8. QED
  BY <1>7, Zenon DEF SplitTable

LEMMA SplitStep ==
  ASSUME NEW b, NEW n \in Nat, DOMAIN b = 1..n
  PROVE  /\ SplitTable(b)[{}] = <<>>
         /\ \A k \in 1..n :
              SplitTable(b)[1..k] = PlaceIn(SplitTable(b)[1..(k - 1)], b[k])
<1> DEFINE t == SplitTable(b)
<1>1. t = [s \in SUBSET (1..n) |->
             IF s = {} THEN <<>> ELSE PlaceIn(t[s \ {Max(s)}], b[Max(s)])]
  BY SplitExists, Zenon DEF IsSplit
<1> HIDE DEF t
<1>2. \A s \in SUBSET (1..n) :
        t[s] = IF s = {} THEN <<>> ELSE PlaceIn(t[s \ {Max(s)}], b[Max(s)])
  BY <1>1, Zenon
<1>3. ASSUME NEW k \in 1..n PROVE t[1..k] = PlaceIn(t[1..(k - 1)], b[k])
  <2>1. 1..k # {} /\ 1..k \in SUBSET (1..n) /\ 1..k \subseteq Nat
    OBVIOUS
  <2>2. IsFiniteSet(1..k)
    BY FS_Interval
  <2>3. Max(1..k) \in 1..k /\ \A x \in 1..k : Max(1..k) >= x
    BY <2>1, <2>2, GreatestOfInterval
  <2>4. Max(1..k) = k
    BY <2>3
  <2>5. (1..k) \ {k} = 1..(k - 1)
    OBVIOUS
  <2> QED BY <1>2, <2>1, <2>4, <2>5
<1> QED BY <1>2, <1>3 DEF t

LEMMA FitsClient ==
  ASSUME JobTyped, NEW m \in Messages, MessageFits(m)
  PROVE  MessageBytes(m) <= PhysicalLimit
<1>1. PhysicalLimit \in Nat /\ MessageBytes(m) \in Nat
  BY MessageBytesType, PublisherConstants
<1>2. BundleLimit \in Nat /\ BundleLimit <= PhysicalLimit
  BY <1>1 DEF BundleLimit, JobTyped, Setting
<1> QED BY <1>1, <1>2 DEF MessageFits

LEMMA RangeOfAppend ==
  ASSUME NEW S, NEW s \in Seq(S), NEW x
  PROVE  Range(Append(s, x)) = Range(s) \cup {x}
<1> DEFINE T == S \cup {x}
<1> HIDE DEF T
<1>0. s \in Seq(T) /\ x \in T
  BY SeqMonotonic DEF T
<1>1. /\ Len(s) \in Nat /\ DOMAIN s = 1..Len(s)
      /\ DOMAIN Append(s, x) = 1..(Len(s) + 1)
  BY <1>0
<1>2. /\ \A i \in 1..Len(s) : Append(s, x)[i] = s[i]
      /\ Append(s, x)[Len(s) + 1] = x
  BY <1>0
<1> QED BY <1>1, <1>2 DEF Range

(* The requests filled so far carry the records U. *)
Carry(ps, U) ==
  /\ PartsShape(ps) /\ Within(ps) = U
  /\ \A j \in DOMAIN ps : /\ Cardinality(Range(ps[j])) <= Len(ps[j])
                          /\ Len(ps[j]) <= BatchEntries

LEMMA RequestGrows ==
  ASSUME JobTyped, NEW part \in Seq(Messages), Request(Range(part)),
         NEW m \in Messages, MessageFits(m), m \cap (UNION Range(part)) = {},
         Len(part) < BatchEntries, Cardinality(Range(part)) <= Len(part),
         RequestBytes(Range(part) \cup {m}) <= PhysicalLimit
  PROVE  /\ Append(part, m) \in Seq(Messages)
         /\ Range(Append(part, m)) = Range(part) \cup {m}
         /\ Request(Range(part) \cup {m})
         /\ Cardinality(Range(part) \cup {m}) <= Len(part) + 1
         /\ Len(Append(part, m)) = Len(part) + 1
         /\ Len(part) + 1 <= BatchEntries
<1>1. /\ Append(part, m) \in Seq(Messages) /\ Len(Append(part, m)) = Len(part) + 1
      /\ Len(part) \in Nat /\ BatchEntries \in Nat
  BY PublisherConstants
<1>2. Range(Append(part, m)) = Range(part) \cup {m}
  BY RangeOfAppend
<1> DEFINE ms == Range(part)
<1> HIDE DEF ms
<1>3. ms \subseteq Messages /\ Apart(ms) /\ ClientAccepts(ms) /\ \A a \in ms : MessageFits(a)
  BY DEF Request, ms
<1>4. IsFiniteSet(ms) /\ Cardinality(ms) \in Nat
  BY <1>3, MessagesFinite
<1>5. /\ Cardinality(ms \cup {m}) \in Nat
      /\ Cardinality(ms \cup {m}) <= Cardinality(ms) + 1
  <2>1. Cardinality(ms \cup {m}) =
          IF m \in ms THEN Cardinality(ms) ELSE Cardinality(ms) + 1
    BY <1>4, FS_AddElement
  <2> QED BY <1>4, <2>1
<1>6. Cardinality(ms \cup {m}) <= Len(part) + 1 /\ Len(part) + 1 <= BatchEntries
  <2>1. Cardinality(ms) <= Len(part) /\ Len(part) < BatchEntries
    BY DEF ms
  <2> QED BY <1>1, <1>4, <1>5, <2>1
<1>7. Apart(ms \cup {m})
  <2>1. \A a \in ms : a \cap m = {}
    BY DEF ms
  <2> QED BY <1>3, <2>1 DEF Apart
<1>8. ClientAccepts(ms \cup {m})
  <2>1. Cardinality(ms \cup {m}) <= BatchEntries
    BY <1>1, <1>5, <1>6
  <2>2. RequestBytes(ms \cup {m}) <= PhysicalLimit
    BY DEF ms
  <2>3. \A a \in ms \cup {m} : MessageBytes(a) <= PhysicalLimit
    BY <1>3, FitsClient DEF ClientAccepts
  <2> QED BY <2>1, <2>2, <2>3 DEF ClientAccepts
<1>9. Request(ms \cup {m})
  BY <1>3, <1>7, <1>8 DEF Request
<1> QED BY <1>1, <1>2, <1>6, <1>9 DEF ms

LEMMA RequestOfOne ==
  ASSUME JobTyped, NEW m \in Messages, MessageFits(m)
  PROVE  /\ <<m>> \in Seq(Messages) /\ Range(<<m>>) = {m} /\ Len(<<m>>) = 1
         /\ Request({m}) /\ Cardinality({m}) = 1
<1>1. <<m>> \in Seq(Messages) /\ Len(<<m>>) = 1 /\ Range(<<m>>) = {m}
  BY DEF Range
<1>2. Cardinality({m}) = 1
  BY FS_Singleton
<1>3. ClientAccepts({m})
  BY <1>2, FitsClient, PublisherConstants DEF ClientAccepts
<1> QED BY <1>1, <1>2, <1>3 DEF Request, Apart

LEMMA PlaceKeeps ==
  ASSUME JobTyped, NEW ps, NEW U, Carry(ps, U),
         NEW m \in Messages, MessageFits(m), m \cap U = {}
  PROVE  Carry(PlaceIn(ps, m), U \cup m)
<1> DEFINE n == Len(ps)
<1>1. /\ ps \in Seq(Seq(Messages)) /\ n \in Nat /\ DOMAIN ps = 1..n
      /\ \A j \in 1..n : /\ ps[j] \in Seq(Messages) /\ Request(Range(ps[j]))
                         /\ Cardinality(Range(ps[j])) <= Len(ps[j])
                         /\ Len(ps[j]) <= BatchEntries
      /\ \A j, l \in 1..n :
           j # l => (UNION Range(ps[j])) \cap (UNION Range(ps[l])) = {}
  <2>1. ps \in Seq(Seq(Messages))
    BY DEF Carry, PartsShape
  <2>2. n \in Nat /\ DOMAIN ps = 1..n /\ \A j \in 1..n : ps[j] \in Seq(Messages)
    BY <2>1
  <2> QED BY <2>1, <2>2 DEF Carry, PartsShape
<1>2. \A j \in 1..n : UNION Range(ps[j]) \subseteq U
  BY <1>1 DEF Carry, Within
<1>3. ASSUME NEW qs \in Seq(Seq(Messages)), NEW k \in {n, n + 1}, k # 0, Len(qs) = k,
             \A j \in 1..n : j # k => qs[j] = ps[j],
             Request(Range(qs[k])),
             Cardinality(Range(qs[k])) <= Len(qs[k]), Len(qs[k]) <= BatchEntries,
             UNION Range(qs[k]) = IF k = n THEN (UNION Range(ps[n])) \cup m ELSE m
      PROVE  Carry(qs, U \cup m)
  <2>0. n \in Nat /\ (k = n \/ k = n + 1) /\ k # 0
    BY <1>1, <1>3
  <2>1. DOMAIN qs = 1..k /\ k \in Nat /\ \A j \in 1..k : j # k => j \in 1..n
    BY <1>1, <1>3
  <2>2. \A j \in 1..k : /\ Request(Range(qs[j]))
                        /\ Cardinality(Range(qs[j])) <= Len(qs[j])
                        /\ Len(qs[j]) <= BatchEntries
    BY <1>1, <1>3, <2>1
  <2>3. \A j \in 1..k : j # k => UNION Range(qs[j]) = UNION Range(ps[j])
    BY <1>3, <2>1
  <2>4. \A j \in 1..k : j # k => (UNION Range(qs[j])) \cap (UNION Range(qs[k])) = {}
    <3>1. SUFFICES ASSUME NEW j \in 1..k, j # k
                   PROVE  (UNION Range(ps[j])) \cap (UNION Range(qs[k])) = {}
      BY <2>3
    <3>2. j \in 1..n /\ UNION Range(ps[j]) \subseteq U
      BY <1>2, <2>1, <3>1
    <3>3. CASE k = n
      <4>1. n \in 1..n
        BY <2>0, <3>3
      <4>2. (UNION Range(ps[j])) \cap (UNION Range(ps[n])) = {}
        BY <1>1, <3>1, <3>2, <3>3, <4>1
      <4>3. UNION Range(qs[k]) = (UNION Range(ps[n])) \cup m
        BY <1>3, <3>3
      <4> QED BY <3>2, <4>2, <4>3
    <3>4. CASE k # n
      <4>1. UNION Range(qs[k]) = m
        BY <1>3, <3>4
      <4> QED BY <3>2, <4>1
    <3> QED BY <3>3, <3>4
  <2>5. \A j, l \in 1..k :
          j # l => (UNION Range(qs[j])) \cap (UNION Range(qs[l])) = {}
    BY <1>1, <2>1, <2>3, <2>4
  <2>6. Within(qs) = U \cup m
    <3>1. ASSUME NEW x \in Within(qs) PROVE x \in U \cup m
      <4>1. PICK j \in 1..k : x \in UNION Range(qs[j])
        BY <2>1, <3>1 DEF Within
      <4>2. CASE j # k
        <5>1. j \in 1..n /\ UNION Range(qs[j]) = UNION Range(ps[j])
          BY <2>1, <2>3, <4>2
        <5> QED BY <1>2, <4>1, <5>1
      <4>3. CASE j = k /\ k = n
        <5>1. n \in 1..n
          BY <2>0, <4>3
        <5>2. UNION Range(qs[k]) = (UNION Range(ps[n])) \cup m
          BY <1>3, <4>3
        <5>3. UNION Range(ps[n]) \subseteq U
          BY <1>2, <5>1
        <5> QED BY <4>1, <4>3, <5>2, <5>3
      <4>4. CASE j = k /\ k # n
        <5>1. UNION Range(qs[k]) = m
          BY <1>3, <4>4
        <5> QED BY <4>1, <4>4, <5>1
      <4> QED BY <4>2, <4>3, <4>4
    <3>2. ASSUME NEW x \in m PROVE x \in Within(qs)
      BY <1>3, <2>1, <3>2 DEF Within
    <3>3. ASSUME NEW x \in U PROVE x \in Within(qs)
      <4>1. PICK j \in 1..n : x \in UNION Range(ps[j])
        BY <1>1, <3>3 DEF Carry, Within
      <4>2. j \in 1..k
        BY <1>1, <1>3
      <4>3. x \in UNION Range(qs[j])
        <5>1. CASE j = k
          <6>1. k = n
            BY <2>0, <5>1
          <6>2. UNION Range(qs[k]) = (UNION Range(ps[n])) \cup m
            BY <1>3, <6>1
          <6> QED BY <4>1, <5>1, <6>1, <6>2
        <5>2. CASE j # k
          BY <2>3, <4>1, <4>2, <5>2
        <5> QED BY <5>1, <5>2
      <4> QED BY <2>1, <4>2, <4>3 DEF Within
    <3> QED BY <3>1, <3>2, <3>3
  <2> QED BY <1>3, <2>1, <2>2, <2>5, <2>6 DEF Carry, PartsShape
<1> DEFINE part == ps[n]
<1>4. CASE /\ ps # <<>> /\ Len(Last(ps)) < BatchEntries
           /\ RequestBytes(Range(Last(ps)) \cup {m}) <= PhysicalLimit
  <2>1. n \in 1..n /\ Last(ps) = part
    BY <1>1, <1>4, EmptySeq DEF Last
  <2>2. m \cap (UNION Range(part)) = {}
    BY <1>2, <2>1
  <2>3. /\ Append(part, m) \in Seq(Messages)
        /\ Range(Append(part, m)) = Range(part) \cup {m}
        /\ Request(Range(part) \cup {m})
        /\ Cardinality(Range(part) \cup {m}) <= Len(part) + 1
        /\ Len(Append(part, m)) = Len(part) + 1
        /\ Len(part) + 1 <= BatchEntries
    BY <1>1, <1>4, <2>1, <2>2, RequestGrows
  <2>4. PICK a : a = Append(part, m)
    OBVIOUS
  <2>5. PICK qs : qs = [ps EXCEPT ![n] = a]
    OBVIOUS
  <2>6. /\ qs \in Seq(Seq(Messages)) /\ Len(qs) = n /\ qs[n] = a
        /\ \A j \in 1..n : j # n => qs[j] = ps[j]
    BY <1>1, <2>1, <2>3, <2>4, <2>5, ExceptSeq
  <2>7. UNION Range(a) = (UNION Range(part)) \cup m
    BY <2>3, <2>4
  <2>8. PlaceIn(ps, m) = qs
    BY <1>4, <2>4, <2>5 DEF PlaceIn
  <2>9. Carry(qs, U \cup m)
    <3>1. /\ Request(Range(qs[n])) /\ Cardinality(Range(qs[n])) <= Len(qs[n])
          /\ Len(qs[n]) <= BatchEntries
          /\ UNION Range(qs[n]) = (UNION Range(ps[n])) \cup m
      BY <2>3, <2>4, <2>6, <2>7
    <3>2. n \in {n, n + 1} /\ n # 0
      BY <1>1, <2>1
    <3> QED BY <1>3, <2>6, <3>1, <3>2
  <2> QED BY <2>8, <2>9
<1>5. CASE ~( /\ ps # <<>> /\ Len(Last(ps)) < BatchEntries
              /\ RequestBytes(Range(Last(ps)) \cup {m}) <= PhysicalLimit )
  <2>1. PICK a : a = <<m>>
    OBVIOUS
  <2>2. a \in Seq(Messages) /\ Range(a) = {m} /\ Len(a) = 1 /\ Request({m})
        /\ Cardinality({m}) = 1
    BY <2>1, RequestOfOne
  <2>3. PICK qs : qs = Append(ps, a)
    OBVIOUS
  <2>4. /\ qs \in Seq(Seq(Messages)) /\ Len(qs) = n + 1 /\ qs[n + 1] = a
        /\ \A j \in 1..n : qs[j] = ps[j]
    BY <1>1, <2>2, <2>3
  <2>5. PlaceIn(ps, m) = qs
    BY <1>5, <2>1, <2>3, Zenon DEF PlaceIn
  <2>6. 1 <= BatchEntries
    BY PublisherConstants
  <2>7. Carry(qs, U \cup m)
    <3>1. /\ Request(Range(qs[n + 1])) /\ Cardinality(Range(qs[n + 1])) <= Len(qs[n + 1])
          /\ Len(qs[n + 1]) <= BatchEntries /\ UNION Range(qs[n + 1]) = m
      <4>1. UNION {m} = m /\ 1 <= 1
        OBVIOUS
      <4> QED BY <2>2, <2>4, <2>6, <4>1
    <3>2. n + 1 \in {n, n + 1} /\ n + 1 # 0 /\ n + 1 # n
      <4>1. n \in Nat
        BY <1>1
      <4> HIDE DEF n
      <4> QED BY <4>1
    <3> QED BY <1>3, <2>4, <3>1, <3>2
  <2> QED BY <2>5, <2>7
<1> QED BY <1>4, <1>5

LEMMA SplitKeeps ==
  ASSUME JobTyped, NEW b, BatchShape(b)
  PROVE  PartsShape(Split(b)) /\ Within(Split(b)) = UNION Range(b)
<1>1. b \in Seq(Messages) /\ Len(b) \in Nat /\ DOMAIN b = 1..Len(b)
  BY DEF BatchShape
<1> DEFINE n == Len(b)
           First(k) == UNION { b[i] : i \in 1..k }
           N == {k \in Nat : k <= n => Carry(SplitTable(b)[1..k], First(k))}
<1>2. /\ SplitTable(b)[{}] = <<>>
      /\ \A k \in 1..n : SplitTable(b)[1..k] = PlaceIn(SplitTable(b)[1..(k - 1)], b[k])
  BY <1>1, SplitStep
<1>3. 0 \in N
  <2>1. 1..0 = {} /\ First(0) = {}
    OBVIOUS
  <2>2. Carry(<<>>, {})
    BY DEF Carry, PartsShape, Within
  <2> QED BY <1>2, <2>1, <2>2
<1>4. ASSUME NEW k \in Nat, k \in N PROVE k + 1 \in N
  <2>1. ASSUME k + 1 <= n PROVE Carry(SplitTable(b)[1..(k + 1)], First(k + 1))
    <3>1. k + 1 \in 1..n /\ (k + 1) - 1 = k /\ k <= n
      BY <1>1, <2>1
    <3>2. /\ b[k + 1] \in Messages /\ MessageFits(b[k + 1])
          /\ \A i \in 1..k : b[i] \cap b[k + 1] = {}
      BY <1>1, <3>1 DEF BatchShape
    <3>3. b[k + 1] \cap First(k) = {}
      BY <3>2
    <3>4. First(k + 1) = First(k) \cup b[k + 1]
      <4>1. \A i \in 1..(k + 1) : i \in 1..k \/ i = k + 1
        OBVIOUS
      <4>2. k + 1 \in 1..(k + 1) /\ 1..k \subseteq 1..(k + 1)
        OBVIOUS
      <4> QED BY <4>1, <4>2
    <3>5. Carry(SplitTable(b)[1..k], First(k))
      BY <1>4, <3>1
    <3> HIDE DEF First
    <3>6. Carry(PlaceIn(SplitTable(b)[1..k], b[k + 1]), First(k) \cup b[k + 1])
      BY <3>2, <3>3, <3>5, PlaceKeeps
    <3> QED BY <1>2, <3>1, <3>4, <3>6
  <2> QED BY <2>1
<1>5. Nat \subseteq N
  <2> HIDE DEF N
  <2> QED BY <1>3, <1>4, NaturalSet
<1>6. Carry(Split(b), First(n))
  <2>1. n \in N
    <3> HIDE DEF N
    <3> QED BY <1>1, <1>5
  <2>2. Carry(SplitTable(b)[1..n], First(n))
    BY <1>1, <2>1
  <2>3. Split(b) = SplitTable(b)[1..n]
    BY <1>1, SplitDef
  <2> QED BY <2>2, <2>3
<1>7. First(n) = UNION Range(b)
  BY <1>1 DEF Range
<1> QED BY <1>6, <1>7 DEF Carry

-----------------------------------------------------------------------------
(* The producer, on what it holds. *)
RequestsAreSums ==
  \A ms \in SUBSET Messages : RequestBytes(ms) = SumFunctionOnSet(BytesInMessage, ms)

LEMMA RequestsSummed == RequestsAreSums
BY RequestBytesSum DEF RequestsAreSums

LEMMA WeightsStay ==
  ASSUME bytes' = bytes, setting' = setting
  PROVE  /\ \A m : MessageFits(m)' <=> MessageFits(m)
         /\ \A ms : Request(ms)' <=> Request(ms)
         /\ JobTyped' <=> JobTyped
<1>1. \A m : MessageBytes(m)' = MessageBytes(m)
  BY DEF MessageBytes
<1>2. \A m : MessageFits(m)' <=> MessageFits(m)
  BY <1>1 DEF MessageFits, BundleLimit
<1>3. BytesInMessage' = BytesInMessage
  BY <1>1 DEF BytesInMessage
<1>4. ASSUME NEW ms \in SUBSET Messages PROVE RequestBytes(ms)' = RequestBytes(ms)
  <2>1. RequestsAreSums /\ RequestsAreSums'
    BY RequestsSummed, PTL
  <2>2. RequestBytes(ms) = SumFunctionOnSet(BytesInMessage, ms)
    BY <2>1 DEF RequestsAreSums
  <2>3. RequestBytes(ms)' = SumFunctionOnSet(BytesInMessage', ms)
    BY <2>1 DEF RequestsAreSums, Messages, Records
  <2> QED BY <1>3, <2>2, <2>3
<1>5. ASSUME NEW ms PROVE Request(ms)' <=> Request(ms)
  <2>1. CASE ms \in SUBSET Messages
    BY <1>1, <1>2, <1>4, <2>1 DEF Request, ClientAccepts
  <2>2. CASE ms \notin SUBSET Messages
    BY <2>2 DEF Request
  <2> QED BY <2>1, <2>2
<1> QED BY <1>2, <1>5 DEF JobTyped

LEMMA ShapeOfNext ==
  ASSUME bytes' = bytes, setting' = setting, NEW q, producer' = q
  PROVE  (ProducerShape(producer)' <=> ProducerShape(q)) /\ Passed(producer)' = Passed(q)
<1>1. \A ps : PartsShape(ps)' <=> PartsShape(ps)
  BY WeightsStay DEF PartsShape
<1>2. \A b : BatchShape(b)' <=> BatchShape(b)
  BY WeightsStay DEF BatchShape
<1> QED BY <1>1, <1>2 DEF ProducerShape, Passed, Held, Within

(* The records up to the producer's position, by what became of them. *)
LEMMA AdvanceShape ==
  ASSUME NEW B, NEW p \in Producer(B), ProducerShape(p), p.step = "read",
         p.next <= RecordCount, NEW q, q = Advance(p)
  PROVE  /\ q \in Producer(B) /\ ProducerShape(q) /\ p.next \in 1..(q.next - 1)
         /\ p.next \in Records
         /\ p.next \notin q.rejected \cup Held(q) \cup Passed(p)
         /\ Passed(q) = Passed(p) \cup {p.next}
<1> DEFINE r == p.next
<1>1. /\ q \in Producer(B) /\ q.next = r + 1 /\ q.open = p.open /\ q.batch = p.batch
      /\ q.parts = p.parts /\ q.last = p.last /\ q.rejected = p.rejected
      /\ q.step = p.step /\ q.result = p.result
  BY DEF Advance, Producer
<1>2. r \in Nat \ {0} /\ RecordCount \in Nat /\ r <= RecordCount
  BY PublisherConstants DEF Producer
<1>3. Held(q) = Held(p)
  BY <1>1 DEF Held
<1>4. p.rejected \cup Held(p) \subseteq 1..(r - 1)
  BY DEF ProducerShape
<1>5. 1..(q.next - 1) = (1..(r - 1)) \cup {r} /\ r \notin 1..(r - 1)
  BY <1>1, <1>2
<1>6. q.next \in 1..(RecordCount + 1) /\ r \in Records
  BY <1>1, <1>2 DEF Records
<1>7. ~p.last
  BY DEF ProducerShape
<1>8. ProducerShape(q)
  BY <1>1, <1>3, <1>4, <1>5, <1>6, <1>7 DEF ProducerShape
<1>9. Passed(q) = Passed(p) \cup {r} /\ r \notin Passed(p)
  BY <1>1, <1>3, <1>4, <1>5 DEF Passed
<1> QED BY <1>1, <1>3, <1>4, <1>5, <1>6, <1>8, <1>9

LEMMA RejectShape ==
  ASSUME NEW B, NEW p \in Producer(B), ProducerShape(p), NEW r \in Records,
         r \in 1..(p.next - 1), r \notin p.rejected \cup Held(p),
         NEW q, q = [p EXCEPT !.rejected = p.rejected \cup {r}]
  PROVE  ProducerShape(q) /\ Passed(q) = Passed(p) \ {r} /\ q.result = p.result
<1>1. /\ q.next = p.next /\ q.open = p.open /\ q.batch = p.batch
      /\ q.parts = p.parts /\ q.last = p.last /\ q.rejected = p.rejected \cup {r}
      /\ q.step = p.step /\ q.result = p.result
  BY DEF Producer
<1>2. Held(q) = Held(p)
  BY <1>1 DEF Held
<1>3. Passed(q) = Passed(p) \ {r}
  BY <1>1, <1>2 DEF Passed
<1>4. q.rejected \cup Held(q) \subseteq 1..(q.next - 1) /\ q.rejected \cap Held(q) = {}
  <2>1. p.rejected \cup Held(p) \subseteq 1..(p.next - 1) /\ p.rejected \cap Held(p) = {}
    BY DEF ProducerShape
  <2>2. q.rejected \cap Held(q) = {}
    BY <1>1, <1>2, <2>1, Zenon
  <2>3. q.rejected \subseteq 1..(q.next - 1)
    BY <1>1, <2>1, Zenon
  <2>4. Held(q) \subseteq 1..(q.next - 1)
    BY <1>1, <1>2, <2>1, Zenon
  <2> QED BY <2>2, <2>3, <2>4
<1> QED BY <1>1, <1>2, <1>3, <1>4 DEF ProducerShape

LEMMA OpenShape ==
  ASSUME NEW B, NEW p \in Producer(B), ProducerShape(p), NEW r \in Records, ~p.last,
         r \in 1..(p.next - 1), r \notin p.rejected \cup Held(p), NEW o,
         o = {r} \/ o = p.open \cup {r}
  PROVE  LET q == [p EXCEPT !.open = o] IN
         /\ ProducerShape(q)
         /\ Passed(q) = (Passed(p) \ {r}) \cup (p.open \ o)
         /\ (p.open \ o) \cap (q.rejected \cup Held(q)) = {}
<1> DEFINE q == [p EXCEPT !.open = o]
<1>1. /\ q.next = p.next /\ q.open = o /\ q.batch = p.batch
      /\ q.parts = p.parts /\ q.last = p.last /\ q.rejected = p.rejected
      /\ q.step = p.step /\ q.result = p.result
  BY DEF Producer
<1> HIDE DEF q
<1> DEFINE Rest == (UNION Range(p.batch)) \cup Within(p.parts)
<1>2. Held(q) = o \cup Rest /\ Held(p) = p.open \cup Rest
  BY <1>1 DEF Held
<1>3. /\ p.rejected \cup Held(p) \subseteq 1..(p.next - 1) /\ p.rejected \cap Held(p) = {}
      /\ \A k \in DOMAIN p.batch : p.open \cap p.batch[k] = {}
      /\ \A j \in DOMAIN p.parts : p.open \cap (UNION Range(p.parts[j])) = {}
  BY DEF ProducerShape
<1>4. /\ \A k \in DOMAIN p.batch : p.batch[k] \subseteq UNION Range(p.batch)
      /\ \A j \in DOMAIN p.parts : (UNION Range(p.parts[j])) \subseteq Within(p.parts)
  BY DEF Range, Within
<1>5. p.open \cap Rest = {}
  <2>1. p.open \cap (UNION Range(p.batch)) = {}
    BY <1>3 DEF Range
  <2>2. p.open \cap Within(p.parts) = {}
    BY <1>3 DEF Within
  <2> QED BY <2>1, <2>2
<1>6. /\ \A k \in DOMAIN p.batch : o \cap p.batch[k] = {}
      /\ \A j \in DOMAIN p.parts : o \cap (UNION Range(p.parts[j])) = {}
  <2>1. r \notin Rest
    BY <1>2
  <2> QED BY <1>3, <1>4, <2>1
<1> HIDE DEF Rest
<1>7. q.rejected \cup Held(q) \subseteq 1..(q.next - 1) /\ q.rejected \cap Held(q) = {}
  BY <1>1, <1>2, <1>3
<1>8. /\ Passed(q) = (Passed(p) \ {r}) \cup (p.open \ o)
      /\ (p.open \ o) \cap (q.rejected \cup Held(q)) = {}
  BY <1>1, <1>2, <1>3, <1>5 DEF Passed
<1>9. ProducerShape(q)
  BY <1>1, <1>6, <1>7 DEF ProducerShape
<1> QED BY <1>8, <1>9 DEF q

LEMMA AppendBatch ==
  ASSUME JobTyped, NEW b, BatchShape(b), NEW m \in Messages, MessageFits(m),
         m \cap (UNION Range(b)) = {}
  PROVE  /\ BatchShape(Append(b, m)) /\ Append(b, m) # <<>>
         /\ UNION Range(Append(b, m)) = (UNION Range(b)) \cup m
         /\ \A k \in DOMAIN Append(b, m) : Append(b, m)[k] \subseteq (UNION Range(b)) \cup m
<1>1. /\ b \in Seq(Messages) /\ Len(b) \in Nat /\ DOMAIN b = 1..Len(b)
      /\ \A k \in 1..Len(b) : MessageFits(b[k])
      /\ \A k, l \in 1..Len(b) : k # l => b[k] \cap b[l] = {}
  BY DEF BatchShape
<1>2. \A k \in 1..Len(b) : m \cap b[k] = {} /\ b[k] \subseteq UNION Range(b)
  BY <1>1 DEF Range
<1> DEFINE c == Append(b, m)
<1>3. /\ c \in Seq(Messages) /\ Len(c) = Len(b) + 1 /\ DOMAIN c = 1..(Len(b) + 1)
      /\ \A k \in 1..Len(b) : c[k] = b[k]
      /\ c[Len(b) + 1] = m
  BY <1>1
<1>4. Range(c) = Range(b) \cup {m}
  BY <1>1, RangeOfAppend
<1> HIDE DEF c
<1>5. \A k \in DOMAIN c : k \in 1..Len(b) \/ k = Len(b) + 1
  BY <1>1, <1>3
<1>6. BatchShape(c)
  BY <1>1, <1>2, <1>3, <1>5 DEF BatchShape
<1>7. c # <<>>
  BY <1>1, <1>3
<1>8. UNION Range(c) = (UNION Range(b)) \cup m
  BY <1>4
<1>9. \A k \in DOMAIN c : c[k] \subseteq UNION Range(c)
  BY DEF Range
<1> QED BY <1>6, <1>7, <1>8, <1>9 DEF c

(* A batch goes to the sender in parts, or waits for more messages. *)
LEMMA BatchMoves ==
  ASSUME NEW p, ProducerShape(p), p.parts = <<>>,
         p.result = "none",
         NEW U, U \cap (p.rejected \cup Held(p)) = {}, U \subseteq 1..(p.next - 1),
         NEW q, q.next = p.next, q.open = p.open, q.rejected = p.rejected,
         q.result = p.result, ~p.last,
         q.last \in BOOLEAN, q.last => p.next = RecordCount + 1 /\ p.open = {},
         q.step \in {"read", "submit"}, q.step = "read" => ~q.last,
         BatchShape(q.batch), PartsShape(q.parts),
         \/ q.batch = <<>> /\ q.step = "submit"
              /\ Within(q.parts) = (UNION Range(p.batch)) \cup U
         \/ q.parts = <<>> /\ ~q.last
              /\ UNION Range(q.batch) = (UNION Range(p.batch)) \cup U
  PROVE  ProducerShape(q) /\ Passed(q) = Passed(p) \ U
<1>1. Range(<<>>) = {} /\ Within(<<>>) = {}
  BY DEF Range, Within
<1>2. /\ Held(p) = p.open \cup (UNION Range(p.batch))
      /\ Held(q) = Held(p) \cup U
  BY <1>1 DEF Held
<1>3. Passed(q) = Passed(p) \ U
  BY <1>2 DEF Passed
<1>4. /\ p.rejected \cup Held(p) \subseteq 1..(p.next - 1) /\ p.rejected \cap Held(p) = {}
      /\ \A k \in DOMAIN p.batch : p.open \cap p.batch[k] = {}
      /\ p.next \in 1..(RecordCount + 1)
  BY DEF ProducerShape
<1>5. p.open \cap ((UNION Range(p.batch)) \cup U) = {}
  <2>1. p.open \cap (UNION Range(p.batch)) = {}
    BY <1>4 DEF Range
  <2> QED BY <1>2, <2>1
<1>6. /\ \A k \in DOMAIN q.batch : q.open \cap q.batch[k] = {}
      /\ \A j \in DOMAIN q.parts : q.open \cap (UNION Range(q.parts[j])) = {}
  <2>1. /\ \A k \in DOMAIN q.batch : q.batch[k] \subseteq UNION Range(q.batch)
        /\ \A j \in DOMAIN q.parts : (UNION Range(q.parts[j])) \subseteq Within(q.parts)
    BY DEF Range, Within
  <2>2. DOMAIN <<>> = {}
    OBVIOUS
  <2> QED BY <1>5, <2>1, <2>2
<1>7. q.rejected \cup Held(q) \subseteq 1..(q.next - 1) /\ q.rejected \cap Held(q) = {}
  BY <1>2, <1>4
<1>8. /\ q.step \notin {"wait", "acquire"}
      /\ q.parts # <<>> => q.batch = <<>>
      /\ q.step = "read" => q.parts = <<>> /\ ~q.last
      /\ q.last => q.open = {} /\ q.batch = <<>> /\ q.next = RecordCount + 1
  BY DEF ProducerShape
<1> QED BY <1>3, <1>4, <1>6, <1>7, <1>8 DEF ProducerShape

LEMMA EnqueueShape ==
  ASSUME JobTyped, NEW B, NEW p \in Producer(B), ProducerShape(p), p.step = "read",
         NEW m \in Messages, MessageFits(m), m \subseteq 1..(p.next - 1),
         m \cap (p.rejected \cup Held(p)) = {}
  PROVE  LET q == Enqueue(p, m)
         IN ProducerShape(q) /\ Passed(q) = Passed(p) \ m /\ q.result = p.result
<1>1. p.parts = <<>> /\ ~p.last /\ p.result = "none" /\ BatchShape(p.batch)
  BY DEF ProducerShape
<1> DEFINE b == Append(p.batch, m)
<1>2. BatchShape(b) /\ UNION Range(b) = (UNION Range(p.batch)) \cup m
  <2>1. m \cap (UNION Range(p.batch)) = {}
    BY DEF Held
  <2> QED BY <1>1, <2>1, AppendBatch
<1>3. PartsShape(Split(b)) /\ Within(Split(b)) = UNION Range(b)
  BY <1>2, SplitKeeps
<1>4. BatchShape(<<>>) /\ PartsShape(<<>>)
  BY DEF BatchShape, PartsShape
<1> HIDE DEF b
<1>5. CASE Len(b) = BatchSize
  <2>1. PICK s : s = Split(b)
    OBVIOUS
  <2>2. PICK q : q = [p EXCEPT !.batch = <<>>, !.parts = s, !.step = "submit"]
    OBVIOUS
  <2>3. Enqueue(p, m) = q
    BY <1>5, <2>1, <2>2 DEF Enqueue, b
  <2>4. /\ q.next = p.next /\ q.open = p.open /\ q.batch = <<>> /\ q.parts = s
        /\ q.last = p.last /\ q.rejected = p.rejected
        /\ q.step = "submit" /\ q.result = p.result
    BY <2>2 DEF Producer
  <2>5. /\ BatchShape(q.batch) /\ PartsShape(q.parts) /\ q.last = FALSE
        /\ Within(q.parts) = (UNION Range(p.batch)) \cup m
    BY <1>1, <1>2, <1>3, <1>4, <2>1, <2>4 DEF Producer
  <2>6. /\ q.step \in {"read", "submit"} /\ (q.step = "read" => ~q.last)
        /\ q.last \in BOOLEAN /\ (q.last => p.next = RecordCount + 1 /\ p.open = {})
        /\ q.batch = <<>> /\ q.step = "submit"
    BY <2>4, <2>5
  <2>7. ProducerShape(q) /\ Passed(q) = Passed(p) \ m
    BY ONLY ProducerShape(p), m \cap (p.rejected \cup Held(p)) = {},
            m \subseteq 1..(p.next - 1), <1>1, <2>4, <2>5, <2>6, BatchMoves, ZenonT(30)
  <2> QED BY <2>3, <2>4, <2>7
<1>6. CASE Len(b) # BatchSize
  <2>2. PICK q : q = [p EXCEPT !.batch = b]
    OBVIOUS
  <2>3. Enqueue(p, m) = q
    BY <1>6, <2>2 DEF Enqueue, b
  <2>4. /\ q.next = p.next /\ q.open = p.open /\ q.batch = b /\ q.parts = <<>>
        /\ q.last = p.last /\ q.rejected = p.rejected
        /\ q.step = "read" /\ q.result = p.result
    BY <1>1, <2>2 DEF Producer
  <2>5. /\ BatchShape(q.batch) /\ PartsShape(q.parts) /\ q.last = FALSE
        /\ UNION Range(q.batch) = (UNION Range(p.batch)) \cup m
    BY <1>1, <1>2, <1>4, <2>4 DEF Producer
  <2>6. /\ q.step \in {"read", "submit"} /\ (q.step = "read" => ~q.last)
        /\ q.last \in BOOLEAN /\ (q.last => p.next = RecordCount + 1 /\ p.open = {})
        /\ q.parts = <<>> /\ ~q.last
    BY <2>4, <2>5
  <2>7. ProducerShape(q) /\ Passed(q) = Passed(p) \ m
    BY ONLY ProducerShape(p), m \cap (p.rejected \cup Held(p)) = {},
            m \subseteq 1..(p.next - 1), <1>1, <2>4, <2>5, <2>6, BatchMoves, ZenonT(30)
  <2> QED BY <2>3, <2>4, <2>7
<1> QED BY <1>5, <1>6

LEMMA EndShape ==
  ASSUME ProducerTyped, ProducerShape(producer), NEW x,
         NEW q, q = [producer EXCEPT !.step = "ended", !.result = x]
  PROVE  ProducerShape(q) /\ Passed(q) = Passed(producer) /\ q.result = x
<1>1. /\ q.next = producer.next /\ q.open = producer.open
      /\ q.batch = producer.batch /\ q.parts = producer.parts
      /\ q.last = producer.last /\ q.rejected = producer.rejected
      /\ q.step = "ended" /\ q.result = x
  BY DEF ProducerTyped, Producer
<1>2. Held(q) = Held(producer)
  BY <1>1 DEF Held
<1>3. Passed(q) = Passed(producer)
  BY <1>1, <1>2 DEF Passed
<1> QED BY <1>1, <1>2, <1>3 DEF ProducerShape

(* The producer goes on with the same records passed and has not ended, or ends. *)
GoesOrEnds ==
  /\ ProducerShape(producer)' /\ Passed(producer)' = Passed(producer)
  /\ producer'.result = "ok" => WaitResult = "ok" /\ producer.step = "wait"

LEMMA ReadRecordShape ==
  ASSUME JobTyped, ProducerTyped, ProducerShape(producer), OnlyProducer, ReadRecord
  PROVE  GoesOrEnds
<1> DEFINE r == producer.next
<1>1. PICK B : producer \in Producer(B)
  BY DEF ProducerTyped
<1>2. /\ producer.step = "read" /\ r <= RecordCount
      /\ bytes' = bytes /\ setting' = setting
  BY DEF ReadRecord, Reading, OnlyProducer
<1>3. PICK p : p = Advance(producer)
  OBVIOUS
<1>4. /\ p \in Producer(B) /\ ProducerShape(p) /\ r \in 1..(p.next - 1) /\ r \in Records
      /\ r \notin p.rejected \cup Held(p) \cup Passed(producer)
      /\ Passed(p) = Passed(producer) \cup {r}
  BY <1>1, <1>2, <1>3, AdvanceShape
<1>5. /\ p.step = "read" /\ p.open = producer.open /\ p.rejected = producer.rejected
      /\ p.result = "none" /\ ~p.last
  <2>1. p.step = "read" /\ p.open = producer.open /\ p.rejected = producer.rejected
        /\ p.result = producer.result
    BY <1>1, <1>2, <1>3 DEF Advance, Producer
  <2> QED BY <1>4, <2>1 DEF ProducerShape
<1>6. ASSUME NEW q, producer' = q, ProducerShape(q), Passed(q) = Passed(producer),
             q.result # "ok"
      PROVE  GoesOrEnds
  BY <1>2, <1>6, ShapeOfNext DEF GoesOrEnds
<1>7. ASSUME NEW x \in {"tooLong", "unpackable"}, End(x) PROVE GoesOrEnds
  <2>1. PICK q : q = [producer EXCEPT !.step = "ended", !.result = x]
    OBVIOUS
  <2>2. ProducerShape(q) /\ Passed(q) = Passed(producer) /\ q.result = x
    BY <2>1, EndShape
  <2> QED BY <1>6, <1>7, <2>1, <2>2 DEF End
<1>8. PICK skip : skip = [p EXCEPT !.rejected = p.rejected \cup {r}]
  OBVIOUS
<1>9. CASE producer' = skip
  <2>1. ProducerShape(skip) /\ Passed(skip) = Passed(p) \ {r} /\ skip.result = p.result
    BY <1>4, <1>8, RejectShape
  <2> QED BY <1>4, <1>5, <1>6, <1>9, <2>1
<1>10. ASSUME ~TooLong(r), setting.mode = "single" PROVE GoesOrEnds
  <2>1. producer' = skip \/ (~Oversize(r) /\ producer' = Enqueue(p, {r}))
    BY <1>3, <1>8, <1>10 DEF ReadRecord
  <2>2. CASE ~Oversize(r) /\ producer' = Enqueue(p, {r})
    <3>1. {r} \in Messages /\ {r} \subseteq 1..(p.next - 1)
          /\ {r} \cap (p.rejected \cup Held(p)) = {}
      BY <1>4 DEF Messages
    <3>2. MessageFits({r})
      <4>1. MessageBytes({r}) \in Nat /\ PhysicalLimit \in Nat
        BY <3>1, MessageBytesType, PublisherConstants
      <4> QED BY <1>10, <2>2, <4>1 DEF MessageFits, Oversize
    <3>3. PICK q : q = Enqueue(p, {r})
      OBVIOUS
    <3>4. ProducerShape(q) /\ Passed(q) = Passed(p) \ {r} /\ q.result = p.result
      BY <1>4, <1>5, <3>1, <3>2, <3>3, EnqueueShape
    <3> QED BY <1>4, <1>5, <1>6, <2>2, <3>3, <3>4
  <2> QED BY <1>9, <2>1, <2>2
<1>11. ASSUME ~TooLong(r), setting.mode = "bundle" PROVE GoesOrEnds
  <2>1. CASE p.open = {} /\ Oversize(r)
    <3>1. producer' = skip
      BY <1>3, <1>5, <1>8, <1>11, <2>1 DEF ReadRecord, MustFlush
    <3> QED BY <1>9, <3>1
  <2>2. CASE MustFlush(p.open, r) /\ MessageBytes(p.open) > BundleLimit
    <3>1. End("unpackable")
      BY <1>3, <1>11, <2>2 DEF ReadRecord, MustFlush
    <3> QED BY <1>7, <3>1
  <2>3. CASE MustFlush(p.open, r) /\ ~(MessageBytes(p.open) > BundleLimit)
    <3>1. PICK q : q = [p EXCEPT !.open = {r}]
      OBVIOUS
    <3>2. producer' = Enqueue(q, p.open)
      BY <1>3, <1>11, <2>3, <3>1 DEF ReadRecord, MustFlush
    <3>3. q \in Producer(B) /\ q.result = p.result /\ q.step = "read" /\ q.next = p.next
          /\ q.rejected = p.rejected
      BY <1>4, <1>5, <3>1 DEF Producer
    <3>4. r \notin p.open
      BY <1>4 DEF Held
    <3>5. /\ ProducerShape(q)
          /\ Passed(q) = (Passed(p) \ {r}) \cup p.open
          /\ p.open \cap (q.rejected \cup Held(q)) = {}
      <4>1. p.open \ {r} = p.open
        BY <3>4
      <4>2. /\ ProducerShape(q)
            /\ Passed(q) = (Passed(p) \ {r}) \cup (p.open \ {r})
            /\ (p.open \ {r}) \cap (q.rejected \cup Held(q)) = {}
        <5>1. r \notin p.rejected \cup Held(p)
          BY <1>4
        <5>2. p \in Producer(B) /\ ProducerShape(p) /\ r \in Records /\ ~p.last
              /\ r \in 1..(p.next - 1)
          BY <1>4, <1>5
        <5> QED BY <3>1, <5>1, <5>2, OpenShape, Zenon
      <4> QED BY <4>1, <4>2
    <3>6. p.open \in Messages /\ p.open \subseteq 1..(q.next - 1)
      <4>1. p.open # {} /\ p.open \in SUBSET Records
        BY <1>4, <2>3 DEF MustFlush, Producer
      <4>2. p.open \subseteq 1..(p.next - 1)
        BY <1>4 DEF ProducerShape, Held
      <4> QED BY <3>3, <4>1, <4>2 DEF Messages
    <3>7. MessageFits(p.open)
      <4>1. MessageBytes(p.open) \in Nat /\ PhysicalLimit \in Nat
        BY <3>6, MessageBytesType, PublisherConstants
      <4>2. BundleLimit \in Nat
        BY <4>1 DEF BundleLimit, JobTyped, Setting
      <4> QED BY <1>11, <2>3, <4>1, <4>2 DEF MessageFits
    <3>8. PICK t : t = Enqueue(q, p.open)
      OBVIOUS
    <3>9. ProducerShape(t) /\ Passed(t) = Passed(q) \ p.open /\ t.result = q.result
      BY <3>3, <3>5, <3>6, <3>7, <3>8, EnqueueShape
    <3>10. Passed(producer) \cap p.open = {}
      BY <1>5 DEF Passed, Held
    <3>11. Passed(t) = Passed(producer)
      BY <1>4, <3>5, <3>9, <3>10
    <3> QED BY <1>5, <1>6, <3>2, <3>3, <3>8, <3>9, <3>11
  <2>4. CASE ~(p.open = {} /\ Oversize(r)) /\ ~MustFlush(p.open, r)
    <3>1. PICK q : q = [p EXCEPT !.open = p.open \cup {r}]
      OBVIOUS
    <3>2. producer' = q
      BY <1>3, <1>11, <2>4, <3>1 DEF ReadRecord
    <3>3. /\ ProducerShape(q) /\ q.result = p.result
          /\ Passed(q) = (Passed(p) \ {r}) \cup (p.open \ (p.open \cup {r}))
      <4>1. r \notin p.rejected \cup Held(p)
        BY <1>4
      <4>2. PICK o : o = p.open \cup {r}
        OBVIOUS
      <4>3. q.result = p.result /\ q = [p EXCEPT !.open = o]
        BY <1>4, <3>1, <4>2 DEF Producer
      <4>4. ProducerShape(q) /\ Passed(q) = (Passed(p) \ {r}) \cup (p.open \ o)
        <5>2. p \in Producer(B) /\ ProducerShape(p) /\ r \in Records /\ ~p.last
              /\ r \in 1..(p.next - 1)
          BY <1>4, <1>5
        <5> QED BY <4>1, <4>2, <4>3, <5>2, OpenShape, Zenon
      <4> QED BY <4>2, <4>3, <4>4
    <3> QED BY <1>4, <1>5, <1>6, <3>2, <3>3
  <2> QED BY <2>1, <2>2, <2>3, <2>4
<1>12. CASE TooLong(r)
  <2>1. End("tooLong")
    BY <1>12 DEF ReadRecord
  <2> QED BY <1>7, <2>1
<1>13. setting.mode \in {"single", "bundle"}
  BY DEF JobTyped, Setting
<1> QED BY <1>10, <1>11, <1>12, <1>13

LEMMA OthersShape ==
  ASSUME JobTyped, ProducerTyped, ProducerShape(producer), OnlyProducer,
         ReadAfterDeadline \/ Flush \/ Submit \/ Wait
  PROVE  GoesOrEnds
<1>1. PICK B : producer \in Producer(B)
  BY DEF ProducerTyped
<1>2. bytes' = bytes /\ setting' = setting
  BY DEF OnlyProducer
<1>3. ASSUME NEW q, producer' = q, ProducerShape(q), Passed(q) = Passed(producer),
             q.result = "ok" => WaitResult = "ok" /\ producer.step = "wait"
      PROVE  GoesOrEnds
  BY <1>2, <1>3, ShapeOfNext DEF GoesOrEnds
<1>4. ASSUME NEW x, End(x), x = "ok" => WaitResult = "ok" /\ producer.step = "wait"
      PROVE  GoesOrEnds
  <2>1. PICK q : q = [producer EXCEPT !.step = "ended", !.result = x]
    OBVIOUS
  <2>2. ProducerShape(q) /\ Passed(q) = Passed(producer) /\ q.result = x
    BY <2>1, EndShape
  <2> QED BY <1>3, <1>4, <2>1, <2>2 DEF End
<1>5. CASE ReadAfterDeadline
  BY <1>4, <1>5 DEF ReadAfterDeadline
<1>6. CASE Wait
  BY <1>4, <1>6 DEF Wait
<1>7. CASE Submit
  <2>1. CASE producer.parts # <<>> /\ sender.firstErr
    BY <1>4, <1>7, <2>1 DEF Submit
  <2>2. CASE ~(producer.parts # <<>> /\ sender.firstErr)
    <3>1. PICK x : x = IF producer.parts # <<>> THEN "acquire"
                       ELSE IF producer.last THEN "wait" ELSE "read"
      OBVIOUS
    <3>2. PICK q : q = [producer EXCEPT !.step = x]
      OBVIOUS
    <3>3. producer' = q
      BY <1>7, <2>2, <3>1, <3>2 DEF Submit
    <3>4. /\ q.next = producer.next /\ q.open = producer.open /\ q.batch = producer.batch
          /\ q.parts = producer.parts /\ q.last = producer.last
          /\ q.rejected = producer.rejected /\ q.step = x /\ q.result = producer.result
      BY <1>1, <3>2 DEF Producer
    <3>5. q.result = "none"
      BY <1>7, <3>4 DEF ProducerShape, Submit
    <3>6. Held(q) = Held(producer)
      BY <3>4 DEF Held
    <3>7. Passed(q) = Passed(producer)
      BY <3>4, <3>6 DEF Passed
    <3>8. ProducerShape(q)
      BY <3>1, <3>4, <3>5, <3>6 DEF ProducerShape
    <3> QED BY <1>3, <3>3, <3>5, <3>7, <3>8
  <2> QED BY <2>1, <2>2
<1>8. CASE Flush
  <2> DEFINE open  == producer.open
             batch == IF open = {} THEN producer.batch ELSE Append(producer.batch, open)
  <2>1. CASE open # {} /\ MessageBytes(open) > BundleLimit
    <3>1. End("unpackable")
      BY <1>8, <2>1 DEF Flush
    <3> QED BY <1>4, <3>1
  <2>2. CASE ~(open # {} /\ MessageBytes(open) > BundleLimit)
    <3>1. /\ producer.step = "read" /\ producer.parts = <<>> /\ ~producer.last
          /\ producer.result = "none" /\ BatchShape(producer.batch)
          /\ producer.next = RecordCount + 1
      <4>1. /\ producer.next > RecordCount /\ producer.next \in 1..(RecordCount + 1)
            /\ producer.step = "read"
        BY <1>8 DEF Flush, ProducerShape
      <4>2. producer.next = RecordCount + 1
        BY <4>1, PublisherConstants
      <4> QED BY <4>1, <4>2 DEF ProducerShape
    <3>2. PICK x : x = Split(batch)
      OBVIOUS
    <3>3. PICK q : q = [producer EXCEPT !.open = {}, !.batch = <<>>, !.parts = x,
                                        !.last = TRUE, !.step = "submit"]
      OBVIOUS
    <3>4. producer' = q
      BY <1>8, <2>2, <3>2, <3>3 DEF Flush
    <3>5. BatchShape(batch) /\ UNION Range(batch) = open \cup (UNION Range(producer.batch))
      <4>1. CASE open = {}
        BY <3>1, <4>1
      <4>2. CASE open # {}
        <5>1. open \in Messages
          BY <1>1, <4>2 DEF Producer, Messages
        <5>2. MessageFits(open)
          <6>1. MessageBytes(open) \in Nat /\ PhysicalLimit \in Nat
            BY <5>1, MessageBytesType, PublisherConstants
          <6>2. BundleLimit \in Nat /\ BundleLimit <= PhysicalLimit
            BY <6>1 DEF BundleLimit, JobTyped, Setting
          <6> QED BY <2>2, <4>2, <6>1, <6>2 DEF MessageFits
        <5>3. open \cap (UNION Range(producer.batch)) = {}
          BY DEF ProducerShape, Range
        <5> QED BY <3>1, <4>2, <5>1, <5>2, <5>3, AppendBatch
      <4> QED BY <4>1, <4>2
    <3>6. PartsShape(x) /\ Within(x) = UNION Range(batch)
      BY <3>2, <3>5, SplitKeeps
    <3> HIDE DEF batch
    <3>7. /\ q.next = producer.next /\ q.open = {} /\ q.batch = <<>>
          /\ q.parts = x /\ q.last = TRUE
          /\ q.rejected = producer.rejected /\ q.step = "submit"
          /\ q.result = "none"
      BY <1>1, <3>1, <3>3 DEF Producer
    <3>8. Held(q) = Held(producer)
      <4>1. Within(<<>>) = {} /\ Range(<<>>) = {}
        BY DEF Within, Range
      <4> QED BY <3>1, <3>5, <3>6, <3>7, <4>1 DEF Held
    <3>9. Passed(q) = Passed(producer)
      BY <3>7, <3>8 DEF Passed
    <3>10. ProducerShape(q)
      <4>1. BatchShape(<<>>) /\ DOMAIN <<>> = {}
        BY DEF BatchShape
      <4> QED BY <3>1, <3>6, <3>7, <3>8, <4>1 DEF ProducerShape
    <3> QED BY <1>3, <3>4, <3>7, <3>9, <3>10
  <2> QED BY <2>1, <2>2
<1> QED BY <1>5, <1>6, <1>7, <1>8

-----------------------------------------------------------------------------
(* What the goroutines have left to send, and what the counts say. *)
LEMMA FlightsStay ==
  ASSUME bytes' = bytes, setting' = setting, UNCHANGED <<flights, sender, delivered>>,
         FlightsShape, Accounted, Passed(producer)' = Passed(producer)
  PROVE  FlightsShape' /\ Accounted'
<1>1. /\ \A i : Sent(i)' = Sent(i)
      /\ InFlight' = InFlight
  BY DEF Sent, InFlight
<1>2. Waiting' = Waiting
  BY <1>1 DEF Waiting
<1>3. FlightsShape'
  BY <1>1, WeightsStay DEF FlightsShape
<1>4. Accounted'
  BY <1>2 DEF Accounted
<1> QED BY <1>3, <1>4

LEMMA RecordsPassed ==
  ASSUME NEW B, NEW p \in Producer(B), ProducerShape(p)
  PROVE  /\ Passed(p) \subseteq Records /\ IsFiniteSet(Passed(p))
         /\ Cardinality(Passed(p)) \in Nat /\ Cardinality(Passed(p)) <= RecordCount
         /\ \A S \in SUBSET Passed(p) : /\ IsFiniteSet(S) /\ Cardinality(S) \in Nat
                                        /\ Cardinality(S) <= RecordCount
<1>1. p.next \in 1..(RecordCount + 1) /\ RecordCount \in Nat
  BY PublisherConstants DEF ProducerShape
<1>2. Passed(p) \subseteq 1..(p.next - 1)
  BY DEF Passed
<1>3. Passed(p) \subseteq Records
  BY <1>1, <1>2 DEF Records
<1>4. \A S \in SUBSET Records : /\ IsFiniteSet(S) /\ Cardinality(S) \in Nat
                                /\ Cardinality(S) <= RecordCount
  BY RecordsFinite, FS_Subset, FS_CardinalityType
<1> QED BY <1>3, <1>4

LEMMA SuccessCounted ==
  ASSUME ProducerTyped, ProducerShape(producer), FlightsShape, Accounted,
         producer.step = "wait", InFlight = {}, WaitResult = "ok"
  PROVE  /\ delivered = Records \ producer.rejected
         /\ sender.events + Cardinality(producer.rejected) = RecordCount
         /\ sender.events = Cardinality(delivered)
         /\ producer.next = RecordCount + 1
<1>1. PICK B : producer \in Producer(B)
  BY DEF ProducerTyped
<1>2. /\ producer.open = {} /\ producer.batch = <<>> /\ producer.parts = <<>>
      /\ producer.next = RecordCount + 1
  BY DEF ProducerShape
<1>3. Held(producer) = {}
  BY <1>2 DEF Held, Within, Range
<1>4. RecordCount \in Nat /\ producer.rejected \in SUBSET Records
  BY <1>1, PublisherConstants DEF Producer
<1>5. Passed(producer) = Records \ producer.rejected
  BY <1>2, <1>3, <1>4 DEF Passed, Records
<1>6. Waiting = {}
  BY DEF Waiting
<1>7. ~sender.firstErr /\ ~sender.canceled
  BY DEF WaitResult
<1>8. /\ delivered = Passed(producer)
      /\ sender.events = Cardinality(Passed(producer))
  <2>1. Passed(producer) \ Waiting = Passed(producer)
    BY <1>6
  <2> QED BY <1>7, <2>1 DEF Accounted
<1>9. /\ Cardinality(Records \ producer.rejected) = RecordCount - Cardinality(producer.rejected)
      /\ Cardinality(producer.rejected) \in Nat
  <2>1. Records \cap producer.rejected = producer.rejected
    BY <1>4
  <2>2. IsFiniteSet(Records) /\ IsFiniteSet(producer.rejected)
    BY <1>4, RecordsFinite, FS_Subset
  <2>3. Cardinality(Records \ producer.rejected)
          = Cardinality(Records) - Cardinality(Records \cap producer.rejected)
    BY <2>2, FS_Difference
  <2> QED BY <2>1, <2>2, <2>3, RecordsFinite, FS_CardinalityType
<1> QED BY <1>2, <1>4, <1>5, <1>8, <1>9

LEMMA HeadLeaves ==
  ASSUME NEW B, NEW p \in Producer(B), ProducerShape(p), p.step = "acquire"
  PROVE  LET q == [p EXCEPT !.parts = Tail(p.parts), !.step = "submit"]
             U == UNION Range(Head(p.parts)) IN
         /\ ProducerShape(q) /\ Request(Range(Head(p.parts))) /\ q.result = "none"
         /\ Passed(q) = Passed(p) \cup U /\ U \cap Passed(p) = {}
<1> DEFINE q == [p EXCEPT !.parts = Tail(p.parts), !.step = "submit"]
           U == UNION Range(Head(p.parts))
           n == Len(p.parts)
           t == Tail(p.parts)
<1>1. p.parts # <<>> /\ PartsShape(p.parts) /\ p.batch = <<>> /\ p.result = "none"
  BY DEF ProducerShape
<1>2. /\ p.parts \in Seq(Seq(Messages)) /\ n \in Nat \ {0} /\ DOMAIN p.parts = 1..n
      /\ Head(p.parts) = p.parts[1] /\ t \in Seq(Seq(Messages))
      /\ DOMAIN t = 1..(n - 1) /\ \A j \in 1..(n - 1) : t[j] = p.parts[j + 1]
  <2>1. p.parts \in Seq(Seq(Messages))
    BY <1>1 DEF PartsShape
  <2> QED BY <1>1, <2>1
<1> HIDE DEF t
<1>3. /\ q.next = p.next /\ q.open = p.open /\ q.batch = p.batch /\ q.parts = t
      /\ q.last = p.last /\ q.rejected = p.rejected
      /\ q.step = "submit" /\ q.result = p.result
  BY DEF Producer, t
<1> HIDE DEF n, q
<1>4. /\ \A j \in 1..n : Request(Range(p.parts[j]))
      /\ \A j, l \in 1..n : j # l => (UNION Range(p.parts[j])) \cap (UNION Range(p.parts[l])) = {}
  BY <1>1, <1>2 DEF PartsShape
<1>5. PartsShape(t)
  <2>1. \A j \in 1..(n - 1) : j + 1 \in 1..n
    BY <1>2
  <2>2. \A j \in DOMAIN t : Request(Range(t[j]))
    BY <1>2, <1>4, <2>1
  <2>3. \A j, l \in DOMAIN t : j # l => (UNION Range(t[j])) \cap (UNION Range(t[l])) = {}
    <3>1. ASSUME NEW j \in 1..(n - 1), NEW l \in 1..(n - 1), j # l
          PROVE  (UNION Range(t[j])) \cap (UNION Range(t[l])) = {}
      <4>1. j + 1 # l + 1
        BY <3>1
      <4> QED BY <1>2, <1>4, <2>1, <4>1
    <3> QED BY <1>2, <3>1
  <2> QED BY <1>2, <2>2, <2>3 DEF PartsShape
<1>6. Within(p.parts) = U \cup Within(t)
  <2>1. 1 \in 1..n /\ \A j \in 1..n : j = 1 \/ (j - 1 \in 1..(n - 1) /\ (j - 1) + 1 = j)
    BY <1>2
  <2>2. \A j \in 1..(n - 1) : j + 1 \in 1..n
    BY <1>2
  <2>3. Within(p.parts) \subseteq U \cup Within(t)
    <3>1. ASSUME NEW j \in 1..n PROVE (UNION Range(p.parts[j])) \subseteq U \cup Within(t)
      <4>1. CASE j = 1
        BY <1>2, <4>1
      <4>2. CASE j - 1 \in 1..(n - 1) /\ (j - 1) + 1 = j
        <5>1. t[j - 1] = p.parts[j]
          BY <1>2, <4>2
        <5> QED BY <1>2, <4>2, <5>1 DEF Within
      <4> QED BY <2>1, <4>1, <4>2
    <3> QED BY <1>2, <3>1 DEF Within
  <2>4. U \subseteq Within(p.parts)
    BY <1>2, <2>1 DEF Within
  <2>5. Within(t) \subseteq Within(p.parts)
    <3>1. ASSUME NEW j \in 1..(n - 1)
          PROVE  (UNION Range(t[j])) \subseteq Within(p.parts)
      <4>1. t[j] = p.parts[j + 1] /\ j + 1 \in DOMAIN p.parts
        BY <1>2, <2>2
      <4> QED BY <4>1 DEF Within
    <3> QED BY <1>2, <3>1 DEF Within
  <2> QED BY <2>3, <2>4, <2>5
<1>7. U \cap Within(t) = {}
  <2>1. ASSUME NEW j \in 1..(n - 1) PROVE U \cap (UNION Range(t[j])) = {}
    <3>1. 1 \in 1..n /\ j + 1 \in 1..n /\ j + 1 # 1
      BY <1>2
    <3> QED BY <1>2, <1>4, <3>1
  <2> QED BY <1>2, <2>1 DEF Within
<1>8. U \cap p.open = {} /\ U \cap (UNION Range(p.batch)) = {}
  <2>1. 1 \in DOMAIN p.parts
    BY <1>2
  <2>2. p.open \cap (UNION Range(p.parts[1])) = {}
    BY <2>1 DEF ProducerShape
  <2>3. Range(p.batch) = {}
    BY <1>1 DEF Range
  <2> QED BY <1>2, <2>2, <2>3
<1>9. Held(p) = Held(q) \cup U /\ U \cap Held(q) = {}
  BY <1>3, <1>6, <1>7, <1>8 DEF Held
<1>10. p.rejected \cup Held(p) \subseteq 1..(p.next - 1) /\ p.rejected \cap Held(p) = {}
  BY DEF ProducerShape
<1>11. Passed(q) = Passed(p) \cup U /\ U \cap Passed(p) = {}
  BY <1>3, <1>9, <1>10 DEF Passed
<1>12. \A j \in DOMAIN t : p.open \cap (UNION Range(t[j])) = {}
  <2>1. ASSUME NEW j \in 1..(n - 1) PROVE p.open \cap (UNION Range(t[j])) = {}
    <3>1. j + 1 \in 1..n
      BY <1>2
    <3>2. t[j] = p.parts[j + 1] /\ j + 1 \in DOMAIN p.parts
      BY <1>2, <3>1
    <3> QED BY <3>2 DEF ProducerShape
  <2> QED BY <1>2, <2>1
<1>13. ProducerShape(q)
  BY <1>1, <1>3, <1>5, <1>9, <1>10, <1>12 DEF ProducerShape
<1>14. Request(Range(Head(p.parts)))
  BY <1>2, <1>4
<1> QED BY <1>1, <1>3, <1>11, <1>13, <1>14 DEF q

LEMMA AcquireShape ==
  ASSUME JobTyped, ProducerTyped, FlightsTyped, SendInv, OnlyProducer,
         delivered' = delivered, Acquire
  PROVE  SendInv'
<1>1. PICK B : producer \in Producer(B)
  BY DEF ProducerTyped
<1>2. /\ bytes' = bytes /\ setting' = setting /\ sender' = sender
      /\ ProducerShape(producer) /\ producer.step = "acquire" /\ FlightsShape /\ Accounted
  BY DEF OnlyProducer, SendInv, Acquire
<1>3. CASE Cancelled /\ End("cut") /\ UNCHANGED flights
  <2>1. PICK q : q = [producer EXCEPT !.step = "ended", !.result = "cut"]
    OBVIOUS
  <2>2. ProducerShape(q) /\ Passed(q) = Passed(producer) /\ q.result = "cut"
    BY <1>2, <2>1, EndShape
  <2>3. producer' = q
    BY <1>3, <2>1 DEF End
  <2>4. ProducerShape(producer)' /\ Passed(producer)' = Passed(producer)
    BY <1>2, <2>2, <2>3, ShapeOfNext
  <2>5. FlightsShape' /\ Accounted'
    BY <1>2, <1>3, <2>4, FlightsStay
  <2>6. SuccessIsComplete'
    BY <2>2, <2>3 DEF SuccessIsComplete
  <2> QED BY <2>4, <2>5, <2>6 DEF SendInv
<1>4. CASE /\ flights' = Append(flights, [ step |-> CallStep, try |-> 0,
                                          pending |-> Range(Head(producer.parts)) ])
           /\ producer' = [producer EXCEPT !.parts = Tail(@), !.step = "submit"]
  <2>1. PICK U : U = UNION Range(Head(producer.parts))
    OBVIOUS
  <2>2. PICK q : q = [producer EXCEPT !.parts = Tail(producer.parts), !.step = "submit"]
    OBVIOUS
  <2>3. /\ ProducerShape(q) /\ Request(Range(Head(producer.parts))) /\ q.result = "none"
        /\ Passed(q) = Passed(producer) \cup U /\ U \cap Passed(producer) = {}
    BY <1>1, <1>2, <2>1, <2>2, HeadLeaves, Zenon
  <2>4. producer' = q
    BY <1>4, <2>2
  <2>5. ProducerShape(producer)' /\ Passed(producer)' = Passed(producer) \cup U
    BY <1>2, <2>3, <2>4, ShapeOfNext
  <2>6. PICK new : new = [ step |-> CallStep, try |-> 0,
                           pending |-> Range(Head(producer.parts)) ]
    OBVIOUS
  <2>7. flights' = Append(flights, new) /\ UNION new.pending = U /\ new.step # "done"
        /\ Request(new.pending)
    BY <1>4, <2>1, <2>3, <2>6 DEF CallStep
  <2> PICK n : n = Len(flights)
    OBVIOUS
  <2>8. /\ n \in Nat /\ DOMAIN flights = 1..n /\ DOMAIN flights' = 1..(n + 1)
        /\ flights'[n + 1] = new /\ \A i \in 1..n : flights'[i] = flights[i]
    <3>1. PICK P : flights \in Seq(Flight(P))
      BY DEF FlightsTyped
    <3> QED BY <2>7, <3>1
  <2>9. /\ \A i \in 1..n : Sent(i)' = Sent(i) /\ Request(flights[i].pending)
                           /\ Sent(i) \subseteq Passed(producer)
        /\ \A i, j \in 1..n : i # j => Sent(i) \cap Sent(j) = {}
        /\ Sent(n + 1)' = U
    <3>1. \A i \in 1..n : Sent(i)' = Sent(i)
      BY <2>8 DEF Sent
    <3>2. Sent(n + 1)' = U
      BY <2>7, <2>8 DEF Sent
    <3> QED BY <1>2, <2>8, <3>1, <3>2 DEF FlightsShape
  <2>10. FlightsShape'
    <3>1. ASSUME NEW i \in 1..(n + 1)
          PROVE  /\ Request(flights[i].pending)' /\ Sent(i)' \subseteq Passed(producer)'
                 /\ \A j \in 1..(n + 1) : i # j => Sent(i)' \cap Sent(j)' = {}
      <4>1. PICK ms : ms = flights'[i].pending
        OBVIOUS
      <4>0. Request(ms)
        BY <2>7, <2>8, <2>9, <3>1, <4>1
      <4>2. Request(flights[i].pending)'
        BY <1>2, <4>0, <4>1, WeightsStay
      <4>3. \A j \in 1..(n + 1) : j \in 1..n \/ j = n + 1
        BY <2>8
      <4>4. Sent(i)' \subseteq Passed(producer)'
        BY <2>5, <2>9, <4>3
      <4>5. ASSUME NEW j \in 1..(n + 1), i # j PROVE Sent(i)' \cap Sent(j)' = {}
        <5>1. CASE i \in 1..n /\ j \in 1..n
          BY <2>9, <4>5, <5>1
        <5>2. CASE i = n + 1 /\ j \in 1..n
          BY <2>3, <2>9, <5>2
        <5>3. CASE i \in 1..n /\ j = n + 1
          BY <2>3, <2>9, <5>3
        <5> QED BY <3>1, <4>3, <4>5, <5>1, <5>2, <5>3
      <4> QED BY <4>2, <4>4, <4>5
    <3> QED BY <2>8, <3>1 DEF FlightsShape
  <2>11. InFlight' = InFlight \cup {n + 1} /\ InFlight \subseteq 1..n
    BY <2>7, <2>8 DEF InFlight
  <2>12. Waiting' = Waiting \cup U /\ Waiting \subseteq Passed(producer)
    <3>1. \A i \in InFlight : Sent(i)' = Sent(i) /\ Sent(i) \subseteq Passed(producer)
      BY <2>9, <2>11
    <3> QED BY <2>9, <2>11, <3>1 DEF Waiting
  <2>13. /\ (Passed(producer) \ Waiting)' = Passed(producer) \ Waiting
         /\ (delivered \ Waiting)' = delivered \ Waiting
         /\ delivered' \subseteq Passed(producer)'
    <3>1. delivered \subseteq Passed(producer)
      BY <1>2 DEF Accounted
    <3> QED BY <2>3, <2>5, <2>12, <3>1
  <2>14. Accounted'
    BY <1>2, <2>5, <2>13 DEF Accounted
  <2>15. SuccessIsComplete'
    BY <2>3, <2>4 DEF SuccessIsComplete
  <2> QED BY <2>5, <2>10, <2>14, <2>15 DEF SendInv
<1> QED BY <1>3, <1>4 DEF Acquire

LEMMA ProduceShape ==
  ASSUME JobTyped, ProducerTyped, FlightsTyped, SendInv, Produce
  PROVE  SendInv' /\ JobTyped'
<1>1. OnlyProducer /\ delivered' = delivered /\ bytes' = bytes /\ setting' = setting
      /\ sender' = sender
  BY DEF Produce, OnlyProducer
<1>2. CASE Acquire
  BY <1>1, <1>2, AcquireShape DEF JobTyped
<1>3. CASE /\ ReadAfterDeadline \/ ReadRecord \/ Flush \/ Submit \/ Wait
           /\ UNCHANGED flights
  <2>1. GoesOrEnds
    BY <1>1, <1>3, ReadRecordShape, OthersShape DEF SendInv
  <2>2. FlightsShape' /\ Accounted'
    BY <1>1, <1>3, <2>1, FlightsStay DEF SendInv, GoesOrEnds
  <2>3. ASSUME producer'.result = "ok"
        PROVE  /\ InFlight' = {}
               /\ delivered' = Records \ producer'.rejected
               /\ sender'.events + Cardinality(producer'.rejected) = RecordCount
    <3>1. WaitResult = "ok" /\ producer.step = "wait"
      BY <2>1, <2>3 DEF GoesOrEnds
    <3>2. InFlight = {} /\ End(WaitResult)
      BY <1>3, <3>1 DEF ReadAfterDeadline, ReadRecord, Reading, Flush, Submit, Wait
    <3>3. producer'.rejected = producer.rejected
      <4>1. PICK B : producer \in Producer(B)
        BY DEF ProducerTyped
      <4> QED BY <3>2, <4>1 DEF End, Producer
    <3>4. /\ delivered = Records \ producer.rejected
          /\ sender.events + Cardinality(producer.rejected) = RecordCount
      BY <3>1, <3>2, SuccessCounted DEF SendInv
    <3>5. InFlight' = InFlight
      BY <1>3 DEF InFlight
    <3> QED BY <1>1, <3>2, <3>3, <3>4, <3>5
  <2>4. SuccessIsComplete'
    BY <2>3 DEF SuccessIsComplete, Records
  <2> QED BY <1>1, <2>1, <2>2, <2>4 DEF SendInv, GoesOrEnds, JobTyped
<1> QED BY <1>2, <1>3 DEF Produce

-----------------------------------------------------------------------------
(* The goroutines, on what they have left to send. *)

(* Messages are never empty and share no record. *)
LEMMA FewerMessages ==
  ASSUME NEW ms \in SUBSET Messages, Apart(ms)
  PROVE  /\ Cardinality(ms) <= Cardinality(UNION ms)
         /\ MapThenSumSet(Cardinality, ms) = Cardinality(UNION ms)
         /\ Cardinality(ms) \in Nat /\ Cardinality(UNION ms) \in Nat
         /\ IsFiniteSet(UNION ms)
<1>1. /\ IsFiniteSet(Records) /\ IsFiniteSet(UNION ms) /\ Cardinality(UNION ms) \in Nat
      /\ Cardinality(ms) \in Nat
  BY MessagesFinite
<1>2. Cardinality(ms) <= Cardinality(UNION ms)
  <2> DEFINE g == [m \in ms |-> CHOOSE r \in m : TRUE]
  <2>1. \A m \in ms : g[m] \in m
    BY DEF Messages
  <2>2. g \in [ms -> UNION ms]
    BY <2>1
  <2>3. \A a, b \in ms : g[a] = g[b] => a = b
    <3> HIDE DEF g
    <3> QED BY <2>1 DEF Apart
  <2>4. DOMAIN g = ms
    OBVIOUS
  <2> HIDE DEF g
  <2>5. g \in Injection(ms, UNION ms)
    BY <2>2, <2>3, <2>4 DEF Injection, IsInjective
  <2> QED BY <1>1, <2>5, FS_Injection
<1>3. MapThenSumSet(Cardinality, ms) = Cardinality(UNION ms)
  <2>1. MapThenSumSet(Cardinality, ms) = SumFunctionOnSet(SizeOfMessage, ms)
    BY ConfirmedSum
  <2>2. \A m \in ms : SizeOfMessage[m] = Cardinality(m)
    BY MessageSize
  <2>3. ms \in SUBSET (SUBSET Records) /\ \A a, b \in ms : a # b => a \cap b = {}
    BY DEF Messages, Apart
  <2>4. SumFunctionOnSet(SizeOfMessage, ms) = Cardinality(UNION ms)
    BY <1>1, <2>2, <2>3, SumOfParts
  <2> QED BY <2>1, <2>4
<1> QED BY <1>1, <1>2, <1>3

(* One goroutine moves, with a part of its messages left. *)
LEMMA FlightShape ==
  ASSUME JobTyped, FlightsTyped, FlightsShape, UNCHANGED <<bytes, setting, producer>>,
         NEW i \in InFlight, NEW q, flights' = [flights EXCEPT ![i] = q],
         q.pending \subseteq flights[i].pending
  PROVE  /\ FlightsShape' /\ Passed(producer)' = Passed(producer)
         /\ Waiting \subseteq Passed(producer) /\ Sent(i) \subseteq Waiting
         /\ InFlight' = IF q.step = "done" THEN InFlight \ {i} ELSE InFlight
         /\ Waiting' = Waiting \ (IF q.step = "done" THEN Sent(i)
                                   ELSE Sent(i) \ (UNION q.pending))
<1>1. /\ i \in DOMAIN flights /\ DOMAIN flights' = DOMAIN flights /\ flights'[i] = q
      /\ \A j \in DOMAIN flights \ {i} : flights'[j] = flights[j]
  BY DEF InFlight
<1>2. /\ \A j \in DOMAIN flights \ {i} : Sent(j)' = Sent(j)
      /\ Sent(i)' = UNION q.pending /\ Sent(i)' \subseteq Sent(i)
      /\ (UNION q.pending) \subseteq Sent(i)
  BY <1>1 DEF Sent
<1>3. /\ \A j \in DOMAIN flights : /\ Request(flights[j].pending)
                                   /\ Sent(j) \subseteq Passed(producer)
      /\ \A j, k \in DOMAIN flights : j # k => Sent(j) \cap Sent(k) = {}
  BY DEF FlightsShape
<1>4. Passed(producer)' = Passed(producer)
  BY DEF Passed, Held, Within
<1>5. FlightsShape'
  <2>1. ASSUME NEW j \in DOMAIN flights PROVE Request(flights[j].pending)'
    <3>1. PICK ms : ms = flights'[j].pending
      OBVIOUS
    <3>2. Request(ms)
      <4>1. CASE j = i
        BY <1>1, <1>3, <3>1, <4>1, PartOfRequest
      <4>2. CASE j # i
        BY <1>1, <1>3, <3>1, <4>2
      <4> QED BY <4>1, <4>2
    <3> QED BY <3>1, <3>2, WeightsStay
  <2>2. \A j \in DOMAIN flights : Sent(j)' \subseteq Sent(j)
    BY <1>2
  <2>3. \A j \in DOMAIN flights : Sent(j)' \subseteq Passed(producer)'
    BY <1>3, <1>4, <2>2
  <2>4. \A j, k \in DOMAIN flights : j # k => Sent(j)' \cap Sent(k)' = {}
    BY <1>3, <2>2
  <2> QED BY <1>1, <2>1, <2>3, <2>4 DEF FlightsShape
<1>6. InFlight' = IF q.step = "done" THEN InFlight \ {i} ELSE InFlight
  BY <1>1 DEF InFlight
<1>7. Waiting \subseteq Passed(producer) /\ Sent(i) \subseteq Waiting
  BY <1>3 DEF Waiting, InFlight
<1> DEFINE Others == UNION { Sent(j) : j \in InFlight \ {i} }
<1>8. Waiting = Others \cup Sent(i) /\ Others \cap Sent(i) = {}
  <2>1. \A j \in InFlight : j = i \/ j \in InFlight \ {i}
    OBVIOUS
  <2>2. Waiting = Others \cup Sent(i)
    BY <2>1 DEF Waiting
  <2>3. \A j \in InFlight \ {i} : Sent(j) \cap Sent(i) = {}
    BY <1>3 DEF InFlight
  <2> QED BY <2>2, <2>3
<1>9. Waiting' = Others \cup (IF q.step = "done" THEN {} ELSE UNION q.pending)
  <2>1. \A j \in InFlight \ {i} : Sent(j)' = Sent(j)
    BY <1>2 DEF InFlight
  <2>2. CASE q.step = "done"
    <3>1. Waiting' = UNION { Sent(j)' : j \in InFlight \ {i} }
      BY <1>6, <2>2 DEF Waiting
    <3>2. { Sent(j)' : j \in InFlight \ {i} } = { Sent(j) : j \in InFlight \ {i} }
      BY <2>1
    <3> QED BY <2>2, <3>1, <3>2
  <2>3. CASE q.step # "done"
    <3>1. Waiting' = UNION { Sent(j)' : j \in InFlight }
      BY <1>6, <2>3 DEF Waiting
    <3>2. { Sent(j)' : j \in InFlight } = { Sent(j) : j \in InFlight \ {i} } \cup {UNION q.pending}
      BY <1>2, <2>1
    <3> QED BY <2>3, <3>1, <3>2
  <2> QED BY <2>2, <2>3
<1> HIDE DEF Others
<1>10. Waiting' = Waiting \ (IF q.step = "done" THEN Sent(i)
                                   ELSE Sent(i) \ (UNION q.pending))
  BY <1>2, <1>8, <1>9
<1> QED BY <1>4, <1>5, <1>6, <1>7, <1>10

(* A step that confirms nothing. *)
LEMMA NothingConfirmed ==
  ASSUME NEW B, producer \in Producer(B), ProducerShape(producer), Accounted,
         Passed(producer)' = Passed(producer), Waiting' \subseteq Waiting,
         sender'.messages = sender.messages, sender'.events = sender.events,
         delivered \subseteq delivered', delivered' \subseteq Passed(producer),
         ~sender'.firstErr /\ ~sender'.canceled
           => ~sender.firstErr /\ ~sender.canceled /\ Waiting' = Waiting
  PROVE  Accounted'
<1>1. PICK S, T : S = delivered \ Waiting /\ T = delivered' \ Waiting'
  OBVIOUS
<1>2. S \subseteq T /\ T \in SUBSET Passed(producer)
  BY <1>1
<1>3. /\ IsFiniteSet(T) /\ Cardinality(T) \in Nat
      /\ Cardinality(S) <= Cardinality(T) /\ Cardinality(S) \in Nat
  <2>1. IsFiniteSet(T) /\ Cardinality(T) \in Nat
    BY <1>2, RecordsPassed
  <2> QED BY <1>2, <2>1, FS_Subset, FS_CardinalityType
<1>4. /\ sender.messages \in Nat /\ sender.events \in Nat
      /\ sender.messages <= sender.events /\ sender.events <= Cardinality(S)
      /\ ~sender.firstErr /\ ~sender.canceled =>
           /\ Passed(producer) \ Waiting \subseteq delivered
           /\ sender.events = Cardinality(Passed(producer) \ Waiting)
  BY <1>1 DEF Accounted
<1>5. sender'.events <= Cardinality(T)
  BY <1>3, <1>4
<1>6. ~sender'.firstErr /\ ~sender'.canceled =>
        /\ Passed(producer) \ Waiting' \subseteq delivered'
        /\ sender'.events = Cardinality(Passed(producer) \ Waiting')
  BY <1>4
<1>7. T = (delivered \ Waiting)'
  BY <1>1
<1> QED BY <1>4, <1>5, <1>6, <1>7 DEF Accounted

(* A step that confirms messages of one request. *)
LEMMA SomeConfirmed ==
  ASSUME NEW B, producer \in Producer(B), ProducerShape(producer), Accounted,
         NEW ms \in SUBSET Messages, Apart(ms), (UNION ms) \subseteq Waiting,
         Waiting \subseteq Passed(producer),
         Passed(producer)' = Passed(producer), Waiting' = Waiting \ (UNION ms),
         sender'.messages = sender.messages + Cardinality(ms),
         sender'.events = sender.events + MapThenSumSet(Cardinality, ms),
         delivered' = delivered \cup (UNION ms),
         sender'.firstErr = sender.firstErr, sender'.canceled = sender.canceled
  PROVE  Accounted'
<1>1. PICK U : U = UNION ms
  OBVIOUS
<1>2. /\ Cardinality(ms) <= Cardinality(U)
      /\ MapThenSumSet(Cardinality, ms) = Cardinality(U)
      /\ Cardinality(ms) \in Nat /\ Cardinality(U) \in Nat /\ IsFiniteSet(U)
  BY <1>1, FewerMessages
<1>3. ASSUME NEW S \in SUBSET Passed(producer), S \cap U = {}
      PROVE  /\ Cardinality(S) \in Nat
             /\ Cardinality(S \cup U) = Cardinality(S) + Cardinality(U)
  <2>1. IsFiniteSet(S) /\ Cardinality(S) \in Nat
    BY <1>3, RecordsPassed
  <2>2. Cardinality(S \cup U) = Cardinality(S) + Cardinality(U) - Cardinality(S \cap U)
    BY <1>2, <2>1, FS_Union
  <2>3. Cardinality(S \cap U) = 0
    BY <1>3, FS_EmptySet
  <2> QED BY <1>2, <2>1, <2>2, <2>3
<1>4. PICK S, T : S = delivered \ Waiting /\ T = Passed(producer) \ Waiting
  OBVIOUS
<1>5. /\ sender.messages \in Nat /\ sender.events \in Nat
      /\ sender.messages <= sender.events /\ sender.events <= Cardinality(S)
      /\ delivered \subseteq Passed(producer)
      /\ ~sender.firstErr /\ ~sender.canceled =>
           T \subseteq delivered /\ sender.events = Cardinality(T)
  BY <1>4 DEF Accounted
<1>6. /\ (delivered \ Waiting)' = S \cup U /\ (Passed(producer) \ Waiting)' = T \cup U
      /\ S \in SUBSET Passed(producer) /\ S \cap U = {}
      /\ T \in SUBSET Passed(producer) /\ T \cap U = {}
      /\ delivered' = delivered \cup U /\ U \subseteq Passed(producer)
  BY <1>1, <1>4, <1>5
<1>7. /\ Cardinality(S) \in Nat /\ Cardinality(S \cup U) = Cardinality(S) + Cardinality(U)
      /\ Cardinality(T) \in Nat /\ Cardinality(T \cup U) = Cardinality(T) + Cardinality(U)
  BY <1>3, <1>6
<1>8. /\ sender'.messages \in Nat /\ sender'.events \in Nat
      /\ sender'.messages <= sender'.events
      /\ sender'.events <= Cardinality(S \cup U)
  BY <1>2, <1>5, <1>7
<1>9. ~sender'.firstErr /\ ~sender'.canceled =>
        /\ T \cup U \subseteq delivered'
        /\ sender'.events = Cardinality(T \cup U)
  BY <1>2, <1>5, <1>6, <1>7
<1>10. delivered' \subseteq Passed(producer)'
  BY <1>5, <1>6
<1> QED BY <1>6, <1>8, <1>9, <1>10 DEF Accounted

(* What a step of goroutine i comes to: either nothing is confirmed, and its *)
(* messages are kept or given up with an error; ...                         *)
ConfirmsNothing(i) ==
  \E q : /\ flights' = [flights EXCEPT ![i] = q]
         /\ q.pending = flights[i].pending
         /\ q.step = "done" => sender'.firstErr \/ sender'.canceled
         /\ sender'.messages = sender.messages /\ sender'.events = sender.events
         /\ sender.firstErr => sender'.firstErr
         /\ sender.canceled => sender'.canceled
         /\ delivered' = delivered \/ delivered' = delivered \cup Sent(i)

(* ... or all of them but those that failed are. *)
Confirms(i, failed) ==
  LET ms == flights[i].pending \ failed IN
  \E q : /\ flights' = [flights EXCEPT ![i] = q]
         /\ failed = {} => q.step = "done" /\ q.pending = flights[i].pending
         /\ failed # {} => q.step = "waiting" /\ q.pending = failed
         /\ sender'.messages = sender.messages + Cardinality(ms)
         /\ sender'.events = sender.events + MapThenSumSet(Cardinality, ms)
         /\ sender'.firstErr = sender.firstErr /\ sender'.canceled = sender.canceled
         /\ delivered' = delivered \cup (UNION ms)

LEMMA GoroutineActs ==
  ASSUME FlightsTyped, SenderTyped, NEW i \in DOMAIN flights, Goroutine(i)
  PROVE  \/ ConfirmsNothing(i)
         \/ \E failed \in SUBSET flights[i].pending : Confirms(i, failed)
<1>1. PICK P : flights \in Seq(Flight(P))
  BY DEF FlightsTyped
<1>2. PICK M : sender \in [ firstErr : BOOLEAN, canceled : BOOLEAN, messages : M,
                            events : M ]
  BY DEF SenderTyped
<1>3. flights[i] \in Flight(P)
  BY <1>1, LenProperties, ElementOfSeq
<1>4. ASSUME NEW error \in {"send", "canceled"}, Finish(i, error),
             delivered' = delivered \/ delivered' = delivered \cup Sent(i)
      PROVE  ConfirmsNothing(i)
  <2>1. PICK q : q = [flights[i] EXCEPT !.step = "done"]
    OBVIOUS
  <2>2. q.pending = flights[i].pending /\ flights' = [flights EXCEPT ![i] = q]
    BY <1>3, <1>4, <2>1 DEF Flight, Finish
  <2>3. PICK s : s = [sender EXCEPT !.firstErr = sender.firstErr \/ error = "send",
                                    !.canceled = sender.canceled \/ error = "canceled"]
    OBVIOUS
  <2>4. /\ s.firstErr <=> sender.firstErr \/ error = "send"
        /\ s.canceled <=> sender.canceled \/ error = "canceled"
        /\ s.messages = sender.messages /\ s.events = sender.events
        /\ sender' = s
    BY <1>2, <1>4, <2>3 DEF Finish
  <2> QED BY <1>4, <2>2, <2>4 DEF ConfirmsNothing
<1>5. ASSUME NEW q, flights' = [flights EXCEPT ![i] = q],
             q.pending = flights[i].pending, q.step # "done", UNCHANGED sender,
             delivered' = delivered \/ delivered' = delivered \cup Sent(i)
      PROVE  ConfirmsNothing(i)
  BY <1>5 DEF ConfirmsNothing
<1>6. ASSUME BackOff(i, flights[i].pending), UNCHANGED sender,
             delivered' = delivered \/ delivered' = delivered \cup Sent(i)
      PROVE  ConfirmsNothing(i)
  <2>1. PICK q : q = [flights[i] EXCEPT !.step = "waiting"]
    OBVIOUS
  <2>2. /\ q.pending = flights[i].pending /\ q.step = "waiting"
        /\ flights' = [flights EXCEPT ![i] = q]
    BY <1>3, <1>6, <2>1 DEF Flight, BackOff
  <2> QED BY <1>5, <1>6, <2>2
<1>7. ASSUME NEW failed \in SUBSET flights[i].pending, Answered(i, failed)
      PROVE  Confirms(i, failed)
  <2>1. PICK ms : ms = flights[i].pending \ failed
    OBVIOUS
  <2>2. PICK q : q = IF failed = {} THEN [flights[i] EXCEPT !.step = "done"]
                     ELSE [flights[i] EXCEPT !.step = "waiting", !.pending = failed]
    OBVIOUS
  <2>3. /\ flights' = [flights EXCEPT ![i] = q]
        /\ failed = {} => q.step = "done" /\ q.pending = flights[i].pending
        /\ failed # {} => q.step = "waiting" /\ q.pending = failed
    BY <1>3, <1>7, <2>2 DEF Flight, Answered, BackOff
  <2>4. PICK x, y : /\ x = sender.messages + Cardinality(ms)
                    /\ y = sender.events + MapThenSumSet(Cardinality, ms)
    OBVIOUS
  <2>5. sender' = [sender EXCEPT !.messages = x, !.events = y]
    BY <1>7, <2>1, <2>4 DEF Answered, Confirm
  <2>6. /\ sender'.messages = x /\ sender'.events = y
        /\ sender'.firstErr = sender.firstErr /\ sender'.canceled = sender.canceled
    BY <1>2, <2>5
  <2>7. delivered' = delivered \cup (UNION ms)
    BY <1>7, <2>1 DEF Answered, Deliver
  <2> QED BY <2>1, <2>3, <2>4, <2>6, <2>7 DEF Confirms
<1>8. CASE Call(i)
  <2>1. ASSUME NEW error \in {"send", "canceled"}, CallError(i, error)
        PROVE  ConfirmsNothing(i)
    <3>1. delivered' = delivered \/ delivered' = delivered \cup Sent(i)
      BY <2>1 DEF CallError, Deliver, Sent
    <3> QED BY <1>4, <1>6, <2>1, <3>1 DEF CallError
  <2>2. CASE Refused(i)
    BY <1>4, <2>2 DEF Refused
  <2> QED BY <1>7, <1>8, <2>1, <2>2 DEF Call
<1>9. CASE Stillborn(i)
  BY <1>4, <1>6, <1>9 DEF Stillborn
<1>10. CASE PauseEnds(i)
  <2>1. ASSUME flights' = [flights EXCEPT ![i].step = CallStep, ![i].try = @ + 1],
               UNCHANGED <<sender, delivered>>
        PROVE  ConfirmsNothing(i)
    <3>1. PICK t, x : t = flights[i].try + 1 /\ x = CallStep /\ x # "done"
      BY DEF CallStep
    <3>2. PICK q : q = [flights[i] EXCEPT !.step = x, !.try = t]
      OBVIOUS
    <3>3. /\ q.pending = flights[i].pending /\ q.step # "done"
          /\ flights' = [flights EXCEPT ![i] = q]
      BY <1>3, <2>1, <3>1, <3>2 DEF Flight
    <3> QED BY <1>5, <2>1, <3>3
  <2> QED BY <1>4, <1>10, <2>1 DEF PauseEnds
<1> QED BY <1>8, <1>9, <1>10 DEF Goroutine

LEMMA GoroutineShape ==
  ASSUME JobTyped, ProducerTyped, FlightsTyped, SenderTyped, SendInv,
         NEW i \in DOMAIN flights, Goroutine(i)
  PROVE  SendInv' /\ JobTyped'
<1>1. PICK B : producer \in Producer(B)
  BY DEF ProducerTyped
<1>2. UNCHANGED <<bytes, setting, producer>> /\ i \in InFlight
  BY DEF Goroutine, Call, Stillborn, PauseEnds, InFlight
<1>3. /\ ProducerShape(producer) /\ FlightsShape /\ Accounted
      /\ delivered \subseteq Passed(producer)
      /\ Request(flights[i].pending) /\ Sent(i) \subseteq Passed(producer)
  BY <1>2 DEF SendInv, Accounted, FlightsShape, InFlight
<1>4. ProducerShape(producer)' /\ JobTyped' /\ SuccessIsComplete'
  <2>1. ProducerShape(producer)'
    <3>1. PICK q : q = producer
      OBVIOUS
    <3> QED BY <1>2, <1>3, <3>1, ShapeOfNext
  <2>2. producer.result # "ok"
    BY <1>2 DEF SendInv, SuccessIsComplete
  <2> QED BY <1>2, <2>1, <2>2 DEF SuccessIsComplete, JobTyped
<1>5. ASSUME NEW q, flights' = [flights EXCEPT ![i] = q],
             q.pending \subseteq flights[i].pending, Accounted'
      PROVE  SendInv' /\ JobTyped'
  BY <1>2, <1>3, <1>4, <1>5, FlightShape DEF SendInv
<1>6. CASE ConfirmsNothing(i)
  <2>1. PICK q : /\ flights' = [flights EXCEPT ![i] = q]
                 /\ q.pending = flights[i].pending
                 /\ q.step = "done" => sender'.firstErr \/ sender'.canceled
    BY <1>6 DEF ConfirmsNothing
  <2>2. /\ sender'.messages = sender.messages /\ sender'.events = sender.events
        /\ sender.firstErr => sender'.firstErr
        /\ sender.canceled => sender'.canceled
        /\ delivered' = delivered \/ delivered' = delivered \cup Sent(i)
    BY <1>6 DEF ConfirmsNothing
  <2>3. /\ Passed(producer)' = Passed(producer)
        /\ Waiting' = Waiting \ (IF q.step = "done" THEN Sent(i)
                                   ELSE Sent(i) \ (UNION q.pending))
    BY <1>2, <1>3, <2>1, FlightShape
  <2>4. Waiting' \subseteq Waiting /\ (q.step # "done" => Waiting' = Waiting)
    BY <2>1, <2>3 DEF Sent
  <2>5. delivered \subseteq delivered' /\ delivered' \subseteq Passed(producer)
    BY <1>3, <2>2
  <2>6. ~sender'.firstErr /\ ~sender'.canceled
           => ~sender.firstErr /\ ~sender.canceled /\ Waiting' = Waiting
    BY <2>1, <2>2, <2>4
  <2>7. Accounted'
    BY <1>1, <1>3, <2>2, <2>3, <2>4, <2>5, <2>6, NothingConfirmed
  <2> QED BY <1>5, <2>1, <2>7
<1>7. ASSUME NEW failed \in SUBSET flights[i].pending, Confirms(i, failed)
      PROVE  SendInv' /\ JobTyped'
  <2>1. PICK ms : ms = flights[i].pending \ failed
    OBVIOUS
  <2>2. ms \in SUBSET Messages /\ Apart(ms) /\ (UNION ms) \subseteq Sent(i)
    BY <1>3, <2>1 DEF Request, Apart, Sent
  <2>3. PICK q : /\ flights' = [flights EXCEPT ![i] = q]
                 /\ failed = {} => q.step = "done" /\ q.pending = flights[i].pending
                 /\ failed # {} => q.step = "waiting" /\ q.pending = failed
    BY <1>7 DEF Confirms
  <2>4. /\ sender'.messages = sender.messages + Cardinality(ms)
        /\ sender'.events = sender.events + MapThenSumSet(Cardinality, ms)
        /\ sender'.firstErr = sender.firstErr /\ sender'.canceled = sender.canceled
        /\ delivered' = delivered \cup (UNION ms)
    BY <1>7, <2>1 DEF Confirms
  <2>5. /\ Passed(producer)' = Passed(producer)
        /\ Waiting \subseteq Passed(producer) /\ Sent(i) \subseteq Waiting
        /\ Waiting' = Waiting \ (IF q.step = "done" THEN Sent(i)
                                   ELSE Sent(i) \ (UNION q.pending))
    BY <1>2, <1>3, <2>3, FlightShape
  <2>6. (UNION ms) = IF q.step = "done" THEN Sent(i) ELSE Sent(i) \ (UNION q.pending)
    <3>1. CASE failed = {}
      BY <2>1, <2>3, <3>1 DEF Sent
    <3>2. CASE failed # {}
      <4>1. \A a, b \in flights[i].pending : a # b => a \cap b = {}
        BY <1>3 DEF Request, Apart
      <4>2. (UNION ms) \cap (UNION failed) = {}
        BY <2>1, <4>1
      <4>3. Sent(i) = (UNION ms) \cup (UNION failed)
        BY <2>1 DEF Sent
      <4> QED BY <2>3, <3>2, <4>2, <4>3
    <3> QED BY <3>1, <3>2
  <2>7. (UNION ms) \subseteq Waiting /\ Waiting' = Waiting \ (UNION ms)
    BY <2>2, <2>5, <2>6
  <2>8. Accounted'
    BY <1>1, <1>3, <2>2, <2>4, <2>5, <2>7, SomeConfirmed
  <2>9. q.pending \subseteq flights[i].pending
    BY <2>3
  <2> QED BY <1>5, <2>3, <2>8, <2>9
<1> QED BY <1>6, <1>7, GoroutineActs

-----------------------------------------------------------------------------
(* The pass its caller sees: every step is one of RecordPass, or invisible. *)
(* RecordPass counts with its own instance of FiniteSets. *)
LEMMA SameCardinality == \A S : Pass!Cardinality(S) = Cardinality(S)
BY DEF Cardinality, Pass!Cardinality

LEMMA PassUnmoved ==
  ASSUME UNCHANGED <<sender, delivered>>, producer'.next = producer.next,
         producer'.rejected = producer.rejected, producer'.result = producer.result
  PROVE  UNCHANGED Pass!vars
BY DEF Pass!vars

LEMMA PassTakes ==
  ASSUME ProducerShape(producer), UNCHANGED <<sender, delivered>>,
         producer.result = "none", producer.next <= RecordCount,
         producer'.next = producer.next + 1, producer'.result = "none",
         producer'.rejected \in {producer.rejected, producer.rejected \cup {producer.next}}
  PROVE  Pass!Next
<1>1. /\ producer.next - 1 < RecordCount
      /\ producer'.next - 1 = (producer.next - 1) + 1
      /\ producer.next = (producer.next - 1) + 1
  BY PublisherConstants DEF ProducerShape
<1>2. Pass!Take
  BY <1>1 DEF Pass!Take
<1> QED BY <1>2 DEF Pass!Next

LEMMA PassCloses ==
  ASSUME ProducerTyped, SendInv, UNCHANGED <<sender, delivered>>,
         producer.result = "none", NEW x \in Results \ {"none"}, End(x),
         x = "ok" => WaitResult = "ok" /\ producer.step = "wait" /\ InFlight = {}
  PROVE  Pass!Next
<1>1. /\ producer'.next = producer.next /\ producer'.rejected = producer.rejected
      /\ producer'.result = x
  <2>1. PICK B : producer \in Producer(B)
    BY DEF ProducerTyped
  <2> QED BY <2>1 DEF End, Producer
<1>2. CASE x # "ok"
  <2>1. Pass!Fail
    BY <1>1, <1>2 DEF Pass!Fail
  <2> QED BY <2>1 DEF Pass!Next
<1>3. CASE x = "ok"
  <2>1. /\ delivered = Records \ producer.rejected
        /\ sender.events = Cardinality(delivered)
        /\ producer.next = RecordCount + 1
    BY <1>3, SuccessCounted DEF SendInv
  <2>2. producer.next - 1 = RecordCount
    BY <2>1, PublisherConstants
  <2>3. delivered = Pass!Admitted /\ sender.events = Pass!Cardinality(delivered)
    BY <2>1, <2>2, SameCardinality DEF Records, Pass!Admitted
  <2>4. producer'.next - 1 = producer.next - 1 /\ producer'.result = "ok"
    BY <1>1, <1>3
  <2>5. Pass!Succeed
    BY <1>1, <2>2, <2>3, <2>4 DEF Pass!Succeed
  <2> QED BY <2>5 DEF Pass!Next
<1> QED BY <1>2, <1>3

LEMMA EnqueueKeeps ==
  ASSUME NEW B, NEW p \in Producer(B), NEW m, NEW q, q = Enqueue(p, m)
  PROVE  q.next = p.next /\ q.rejected = p.rejected /\ q.result = p.result
<1>1. PICK b, s : b = Append(p.batch, m) /\ s = Split(b)
  OBVIOUS
<1>2. \/ q = [p EXCEPT !.batch = <<>>, !.parts = s, !.step = "submit"]
      \/ q = [p EXCEPT !.batch = b]
  BY <1>1 DEF Enqueue
<1> QED BY <1>2 DEF Producer

LEMMA ReadRecordIsPass ==
  ASSUME ProducerTyped, SendInv, UNCHANGED <<sender, delivered>>,
         setting.mode \in {"single", "bundle"}, ReadRecord
  PROVE  Pass!Next
<1> DEFINE r == producer.next
<1>1. PICK B : producer \in Producer(B)
  BY DEF ProducerTyped
<1>2. /\ ProducerShape(producer) /\ producer.step = "read" /\ r <= RecordCount
      /\ producer.result = "none"
  BY DEF SendInv, ProducerShape, ReadRecord, Reading
<1>3. PICK p : p = Advance(producer)
  OBVIOUS
<1>4. /\ p \in Producer(B) /\ p.next = r + 1
      /\ p.rejected = producer.rejected /\ p.result = "none"
  BY <1>1, <1>2, <1>3 DEF Advance, Producer
<1>5. ASSUME NEW q, producer' = q, q.next = p.next, q.result = "none",
             q.rejected \in {p.rejected, p.rejected \cup {r}}
      PROVE  Pass!Next
  BY <1>2, <1>4, <1>5, PassTakes
<1>6. ASSUME NEW x \in {"tooLong", "unpackable"}, End(x) PROVE Pass!Next
  BY <1>2, <1>6, PassCloses DEF Results
<1>7. PICK skip : skip = [p EXCEPT !.rejected = p.rejected \cup {r}]
  OBVIOUS
<1>8. CASE producer' = skip
  <2>1. /\ skip.next = p.next /\ skip.result = p.result
        /\ skip.rejected = p.rejected \cup {r}
    BY <1>4, <1>7 DEF Producer
  <2> QED BY <1>4, <1>5, <1>8, <2>1
<1>9. ASSUME NEW s \in Producer(B), s.next = p.next, s.rejected = p.rejected,
             s.result = p.result, NEW m, producer' = s \/ producer' = Enqueue(s, m)
      PROVE  Pass!Next
  <2>1. PICK q : q = Enqueue(s, m)
    OBVIOUS
  <2>2. q.next = s.next /\ q.rejected = s.rejected /\ q.result = s.result
    BY <2>1, EnqueueKeeps
  <2> QED BY <1>4, <1>5, <1>9, <2>1, <2>2
<1>10. ASSUME NEW o \in SUBSET Records, NEW m, NEW s, s = [p EXCEPT !.open = o],
              producer' = s \/ producer' = Enqueue(s, m)
       PROVE  Pass!Next
  <2>1. s \in Producer(B) /\ s.next = p.next /\ s.rejected = p.rejected
        /\ s.result = p.result
    BY <1>4, <1>10 DEF Producer
  <2> QED BY <1>9, <1>10, <2>1
<1>11. r \in Records /\ p.open \in SUBSET Records
  BY <1>1, <1>2, <1>4, PublisherConstants DEF Records, Producer
<1>12. CASE TooLong(r)
  <2>1. End("tooLong")
    BY <1>12 DEF ReadRecord
  <2> QED BY <1>6, <2>1
<1>13. CASE ~TooLong(r) /\ setting.mode = "single"
  <2>1. producer' = skip \/ producer' = Enqueue(p, {r})
    BY <1>3, <1>7, <1>13 DEF ReadRecord
  <2> QED BY <1>4, <1>8, <1>9, <2>1
<1>14. CASE ~TooLong(r) /\ setting.mode = "bundle"
  <2>1. CASE p.open = {} /\ Oversize(r)
    <3>1. producer' = skip
      BY <1>3, <1>7, <1>14, <2>1 DEF ReadRecord, MustFlush
    <3> QED BY <1>8, <3>1
  <2>2. CASE MustFlush(p.open, r)
    <3>1. PICK s : s = [p EXCEPT !.open = {r}]
      OBVIOUS
    <3>2. End("unpackable") \/ producer' = Enqueue(s, p.open)
      BY <1>3, <1>14, <2>2, <3>1 DEF ReadRecord, MustFlush
    <3>3. {r} \in SUBSET Records
      BY <1>11
    <3> QED BY <1>6, <1>10, <3>1, <3>2, <3>3
  <2>3. CASE ~(p.open = {} /\ Oversize(r)) /\ ~MustFlush(p.open, r)
    <3>1. PICK s : s = [p EXCEPT !.open = p.open \cup {r}]
      OBVIOUS
    <3>2. producer' = s
      BY <1>3, <1>14, <2>3, <3>1 DEF ReadRecord
    <3>3. p.open \cup {r} \in SUBSET Records
      BY <1>11
    <3> QED BY <1>10, <3>1, <3>2, <3>3
  <2> QED BY <2>1, <2>2, <2>3
<1> QED BY <1>12, <1>13, <1>14

LEMMA OthersArePass ==
  ASSUME ProducerTyped, SendInv, UNCHANGED <<sender, delivered>>,
         ReadAfterDeadline \/ Flush \/ Submit \/ Wait \/ Acquire
  PROVE  [Pass!Next]_Pass!vars
<1>1. PICK B : producer \in Producer(B)
  BY DEF ProducerTyped
<1>2. producer.result = "none"
  BY DEF SendInv, ProducerShape, ReadAfterDeadline, Reading, Flush, Submit, Wait, Acquire
<1>3. ASSUME NEW x \in Results \ {"none", "ok"}, End(x) PROVE Pass!Next
  BY <1>2, <1>3, PassCloses
<1>4. CASE ReadAfterDeadline
  BY <1>3, <1>4 DEF ReadAfterDeadline, Results
<1>5. CASE Wait
  <2>1. PICK x : x = WaitResult
    OBVIOUS
  <2>2. x \in Results \ {"none"}
    BY <2>1 DEF WaitResult, Results
  <2> QED BY <1>2, <1>5, <2>1, <2>2, PassCloses DEF Wait
<1>6. ASSUME NEW q, producer' = q, q.next = producer.next,
             q.rejected = producer.rejected, q.result = producer.result
      PROVE  UNCHANGED Pass!vars
  BY <1>6, PassUnmoved
<1>7. CASE Flush
  <2>1. PICK ps : ps = Split(IF producer.open = {} THEN producer.batch
                             ELSE Append(producer.batch, producer.open))
    OBVIOUS
  <2>2. PICK q : q = [producer EXCEPT !.open = {}, !.batch = <<>>, !.parts = ps,
                                      !.last = TRUE, !.step = "submit"]
    OBVIOUS
  <2>3. End("unpackable") \/ producer' = q
    BY <1>7, <2>1, <2>2 DEF Flush
  <2>4. /\ q.next = producer.next /\ q.rejected = producer.rejected
        /\ q.result = producer.result
    BY <1>1, <2>2 DEF Producer
  <2>5. "unpackable" \in Results \ {"none", "ok"}
    BY DEF Results
  <2> QED BY <1>3, <1>6, <2>3, <2>4, <2>5
<1>8. ASSUME NEW ps, NEW step, NEW q,
             q = [producer EXCEPT !.parts = ps, !.step = step], producer' = q
      PROVE  UNCHANGED Pass!vars
  <2>1. /\ q.next = producer.next /\ q.rejected = producer.rejected
        /\ q.result = producer.result
    BY <1>1, <1>8 DEF Producer
  <2> QED BY <1>6, <1>8, <2>1
<1>9. CASE Submit
  <2>1. PICK step : step = IF producer.parts = <<>>
                           THEN (IF producer.last THEN "wait" ELSE "read") ELSE "acquire"
    OBVIOUS
  <2>2. PICK q : q = [producer EXCEPT !.step = step]
    OBVIOUS
  <2>3. End("sendError") \/ producer' = q
    BY <1>9, <2>1, <2>2 DEF Submit
  <2>4. /\ q.next = producer.next /\ q.rejected = producer.rejected
        /\ q.result = producer.result
    BY <1>1, <2>2 DEF Producer
  <2>5. "sendError" \in Results \ {"none", "ok"}
    BY DEF Results
  <2> QED BY <1>3, <1>6, <2>3, <2>4, <2>5
<1>10. CASE Acquire
  <2>1. "cut" \in Results \ {"none", "ok"}
    BY DEF Results
  <2> QED BY <1>3, <1>8, <1>10, <2>1 DEF Acquire
<1> QED BY <1>4, <1>5, <1>7, <1>9, <1>10

(* A goroutine carries what it has left, or a part of it, to the queue. *)
LEMMA GoroutineIsPass ==
  ASSUME ProducerTyped, FlightsTyped, SenderTyped, SendInv, SendInv',
         NEW i \in DOMAIN flights, Goroutine(i)
  PROVE  [Pass!Next]_Pass!vars
<1>1. PICK B : producer \in Producer(B)
  BY DEF ProducerTyped
<1>2. UNCHANGED producer /\ i \in InFlight /\ producer.result # "ok"
  BY DEF Goroutine, Call, Stillborn, PauseEnds, InFlight, SendInv, SuccessIsComplete
<1>3. /\ Sent(i) \subseteq Passed(producer) /\ Request(flights[i].pending)
      /\ Passed(producer) \subseteq (1..(producer.next - 1)) \ producer.rejected
  BY DEF SendInv, FlightsShape, Passed
<1>4. sender'.events <= Cardinality(delivered')
  <2>1. PICK q : q = producer'
    OBVIOUS
  <2>2. q \in Producer(B) /\ ProducerShape(q) /\ delivered' \subseteq Passed(q)
    <3>1. Passed(producer)' = Passed(q) /\ q = producer
      BY <1>2, <2>1 DEF Passed, Held, Within
    <3> QED BY <1>1, <3>1 DEF SendInv, Accounted
  <2>3. PICK S, T : S = (delivered \ Waiting)' /\ T = delivered'
    OBVIOUS
  <2>4. IsFiniteSet(T) /\ Cardinality(T) \in Nat /\ S \subseteq T
    BY <2>2, <2>3, RecordsPassed
  <2>5. Cardinality(S) \in Nat /\ Cardinality(S) <= Cardinality(T)
    BY <2>4, FS_Subset, FS_CardinalityType
  <2>6. sender'.events \in Nat /\ sender'.events <= Cardinality(S)
    BY <2>3 DEF SendInv, Accounted
  <2> QED BY <2>3, <2>4, <2>5, <2>6
<1>5. ASSUME NEW S \in SUBSET Sent(i), delivered' = delivered \cup S,
             sender'.events \in {sender.events, sender.events + Cardinality(S)}
      PROVE  Pass!Next
  <2>1. S \in SUBSET Pass!Admitted
    BY <1>3 DEF Pass!Admitted
  <2>2. Pass!Transmit(S)
    <3>1. /\ producer'.next - 1 = producer.next - 1
          /\ producer'.rejected = producer.rejected
          /\ producer'.result = producer.result /\ producer.result # "ok"
      BY <1>2
    <3>2. /\ sender'.events <= Pass!Cardinality(delivered')
          /\ sender'.events \in {sender.events, sender.events + Pass!Cardinality(S)}
      BY <1>4, <1>5, SameCardinality
    <3> QED BY <1>5, <3>1, <3>2 DEF Pass!Transmit
  <2> QED BY <2>1, <2>2 DEF Pass!Next
<1>6. CASE ConfirmsNothing(i)
  <2>1. /\ sender'.events = sender.events
        /\ delivered' = delivered \cup {} \/ delivered' = delivered \cup Sent(i)
    BY <1>6 DEF ConfirmsNothing
  <2> QED BY <1>5, <2>1
<1>7. ASSUME NEW failed \in SUBSET flights[i].pending, Confirms(i, failed)
      PROVE  Pass!Next
  <2>1. PICK ms : ms = flights[i].pending \ failed
    OBVIOUS
  <2>2. /\ sender'.events = sender.events + MapThenSumSet(Cardinality, ms)
        /\ delivered' = delivered \cup (UNION ms)
    BY <1>7, <2>1 DEF Confirms
  <2>3. ms \in SUBSET Messages /\ Apart(ms) /\ (UNION ms) \in SUBSET Sent(i)
    BY <1>3, <2>1 DEF Request, Apart, Sent
  <2>4. MapThenSumSet(Cardinality, ms) = Cardinality(UNION ms)
    BY <2>3, FewerMessages
  <2> QED BY <1>5, <2>2, <2>3, <2>4
<1> QED BY <1>6, <1>7, GoroutineActs

-----------------------------------------------------------------------------
LEMMA SendInit == Init => SendInv /\ JobTyped
<1> SUFFICES ASSUME Init PROVE SendInv /\ JobTyped
  OBVIOUS
<1>1. JobTyped
  BY PublisherConstants DEF Init, JobTyped
<1>2. /\ producer.next = 1 /\ producer.open = {} /\ producer.batch = <<>>
      /\ producer.parts = <<>> /\ producer.last = FALSE /\ producer.rejected = {}
      /\ producer.step = "read" /\ producer.result = "none"
      /\ flights = <<>> /\ DOMAIN <<>> = {} /\ delivered = {}
      /\ sender.messages = 0 /\ sender.events = 0
  BY DEF Init
<1>3. Held(producer) = {} /\ Passed(producer) = {}
  BY <1>2 DEF Held, Passed, Within, Range
<1>4. BatchShape(<<>>) /\ PartsShape(<<>>)
  BY DEF BatchShape, PartsShape
<1>5. ProducerShape(producer)
  BY <1>2, <1>3, <1>4, PublisherConstants DEF ProducerShape
<1>6. FlightsShape /\ Waiting = {}
  BY <1>2 DEF FlightsShape, Waiting, InFlight
<1>7. Accounted
  <2>1. /\ Cardinality(Passed(producer) \ Waiting) = 0
        /\ Cardinality(delivered \ Waiting) = 0
    BY <1>2, <1>3, FS_EmptySet
  <2> QED BY <1>2, <1>3, <2>1 DEF Accounted
<1>8. SuccessIsComplete
  BY <1>2 DEF SuccessIsComplete
<1> QED BY <1>1, <1>5, <1>6, <1>7, <1>8 DEF SendInv

LEMMA SendInvariant == Spec => [](SendInv /\ JobTyped)
<1>1. ASSUME SendInv, JobTyped, UNCHANGED <<bytes, setting, producer, flights, sender, delivered>>
      PROVE  (SendInv /\ JobTyped)'
  <2>1. Passed(producer)' = Passed(producer)
    BY <1>1 DEF Passed, Held, Within
  <2>2. FlightsShape' /\ Accounted'
    BY <1>1, <2>1, FlightsStay DEF SendInv
  <2>3. ProducerShape(producer)'
    <3>1. PICK q : q = producer
      OBVIOUS
    <3> QED BY <1>1, <3>1, ShapeOfNext DEF SendInv
  <2>4. SuccessIsComplete' /\ JobTyped'
    BY <1>1 DEF SendInv, SuccessIsComplete, JobTyped, InFlight
  <2> QED BY <2>2, <2>3, <2>4 DEF SendInv
<1>2. ASSUME SendInv, JobTyped, PublisherInv, [Next]_vars PROVE (SendInv /\ JobTyped)'
  <2>1. ProducerTyped /\ FlightsTyped /\ SenderTyped
    BY <1>2 DEF PublisherInv
  <2>2. CASE Produce
    BY <1>2, <2>1, <2>2, ProduceShape
  <2>3. CASE Deadline \/ UNCHANGED vars
    BY <1>1, <1>2, <2>3 DEF Deadline, vars
  <2>4. CASE \E i \in DOMAIN flights : Goroutine(i)
    BY <1>2, <2>1, <2>4, GoroutineShape
  <2> QED BY <1>2, <2>2, <2>3, <2>4 DEF Next
<1> QED BY <1>2, SendInit, PublisherInvariant, PTL DEF Spec

(* When a pass succeeds, nothing is in flight, the output queue has every   *)
(* record that was not rejected, and the published count is their number:   *)
(* whatever was answered in part, repeated after an error that hid a        *)
(* delivery, and in whichever order the goroutines finished.                *)
THEOREM SuccessIsTrue == Spec => []SuccessIsComplete
BY SendInvariant, PTL DEF SendInv

(* Every request and every repetition is within the limits the client       *)
(* checks, and every bundle within the limit of its job: splitSendBatches   *)
(* and the packer see to both for any sizes and any limits.                 *)
THEOREM RequestsAreAccepted == Spec => []RequestsFit
<1>1. SendInv => RequestsFit
  BY DEF SendInv, FlightsShape, Request, MessageFits, RequestsFit
<1> QED BY <1>1, SendInvariant, PTL

(* The type invariant, with the counts of what was confirmed: neither       *)
(* exceeds the records of the chunk.                                        *)
THEOREM PublisherTypes == Spec => []PublisherTypeOK
<1>1. ASSUME SendInv, PublisherInv PROVE PublisherTypeOK
  <2>1. PICK B : producer \in Producer(B)
    BY <1>1 DEF PublisherInv, ProducerTyped
  <2>2. PICK P : flights \in Seq(Flight(P))
    BY <1>1 DEF PublisherInv, FlightsTyped
  <2>3. /\ producer.next \in 1..(RecordCount + 1)
        /\ producer.batch \in Seq(Messages)
        /\ producer.open \cup producer.rejected \subseteq Records
        /\ producer.result \in Results
    BY <1>1, <2>1 DEF SendInv, ProducerShape, BatchShape, Producer
  <2>4. ASSUME NEW i \in DOMAIN flights
        PROVE  /\ flights[i].step \in {"calling", "stillborn", "waiting", "done"}
               /\ flights[i].try < MaxTries
    <3>1. flights[i] \in Flight(P)
      BY <2>2, LenProperties, ElementOfSeq
    <3> QED BY <3>1 DEF Flight, FlightSteps, MaxTries
  <2>5. sender.messages <= RecordCount /\ sender.events <= RecordCount
    <3>1. PICK c : c = Cardinality(delivered \ Waiting)
      OBVIOUS
    <3>2. c \in Nat /\ c <= RecordCount
      <4>1. delivered \ Waiting \in SUBSET Passed(producer)
        BY <1>1 DEF SendInv, Accounted
      <4> QED BY <1>1, <2>1, <3>1, <4>1, RecordsPassed DEF SendInv
    <3>3. /\ sender.messages \in Nat /\ sender.events \in Nat
          /\ sender.messages <= sender.events /\ sender.events <= c
      BY <1>1, <3>1 DEF SendInv, Accounted
    <3> QED BY <3>2, <3>3, PublisherConstants
  <2>6. Cardinality(InFlight) <= Concurrency /\ faults \in 0..MaxFaults
    BY <1>1 DEF PublisherInv, ErrorsHaveCause
  <2> QED BY <2>3, <2>4, <2>5, <2>6 DEF PublisherTypeOK
<1> QED BY <1>1, SendInvariant, PublisherInvariant, PTL

(* The pass keeps its promise (RecordPass), for any records, sizes, bundles *)
(* and faults: what is refused never reaches the queue, no more is counted  *)
(* than arrived, even by a pass that fails, and after a success, which takes*)
(* everything sent or refused, and counted, nothing arrives.                *)
THEOREM PublisherImplementsPass == Spec => ImplementsPass
<1>1. Init => Pass!Init
  <2> SUFFICES ASSUME Init PROVE Pass!Init
    OBVIOUS
  <2>1. /\ producer.next = 1 /\ producer.rejected = {} /\ producer.result = "none"
        /\ delivered = {} /\ sender.events = 0
    BY DEF Init
  <2> QED BY <2>1 DEF Pass!Init
<1>2. /\ SendInv /\ JobTyped /\ SendInv' /\ PublisherInv /\ [Next]_vars
      => [Pass!Next]_Pass!vars
  <2> SUFFICES ASSUME SendInv, JobTyped, SendInv', PublisherInv, [Next]_vars
               PROVE  [Pass!Next]_Pass!vars
    OBVIOUS
  <2>1. ProducerTyped /\ FlightsTyped /\ SenderTyped /\ setting.mode \in {"single", "bundle"}
    BY DEF PublisherInv, OpenFits
  <2>2. CASE Produce
    <3>1. UNCHANGED <<sender, delivered>>
      BY <2>2 DEF Produce
    <3> QED BY <2>1, <2>2, <3>1, ReadRecordIsPass, OthersArePass DEF Produce
  <2>3. CASE Deadline \/ UNCHANGED vars
    <3>1. UNCHANGED <<producer, sender, delivered>>
      BY <2>3 DEF Deadline, vars
    <3> QED BY <3>1, PassUnmoved
  <2>4. CASE \E i \in DOMAIN flights : Goroutine(i)
    BY <2>1, <2>4, GoroutineIsPass
  <2> QED BY <2>2, <2>3, <2>4 DEF Next
<1> QED BY <1>1, <1>2, SendInvariant, PublisherInvariant, PTL
        DEF Spec, ImplementsPass, Pass!Spec
=============================================================================
