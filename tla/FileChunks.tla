----------------------------- MODULE FileChunks -----------------------------
(***************************************************************************)
(* A file cut into byte ranges by the Organizer (Plan, by data type) and   *)
(* read back by Workers that find the records in them (processWithMetrics).*)
(* Text and JSON files are cut without looking into them and read with an  *)
(* overlap; a multi-line file is cut with a look at each boundary and read *)
(* without.  Offsets are those of the file, from 0.  The passes over       *)
(* different chunks share nothing but the file, so one step is one pass.   *)
(***************************************************************************)
EXTENDS MultiLine, JsonScan

CONSTANTS
  Inputs,               \* files with their configuration
  MinimumTarget,        \* minimumTargetChunkBytes (5 MiB in the code)
  AutomaticChunkCount,  \* automaticChunkCount (100 in the code)
  OverlapRecords,       \* records read beyond each end (9 in the code)
  DefaultLineLimit      \* F2E_MAX_EVENT_BYTES, the limit of an undivided file

DataTypes == {"text", "multi-line", "json"}

(* limit: the longest record, 0 for a text file without one.  target: 0 for *)
(* automatic.  perChunk: RecordsPerChunk.  OPEN is outside strings, JsonScan*)
(* says why.                                                                *)
IsInput(i) ==
  /\ DOMAIN i = {"dataType", "file", "limit", "maxChunk", "target", "perChunk"}
  /\ i.dataType \in DataTypes
  /\ IsFiniteSet(DOMAIN i.file)
  /\ DOMAIN i.file = 0..(Cardinality(DOMAIN i.file) - 1)
  /\ \A k \in DOMAIN i.file :
       /\ i.file[k] \in Bytes \cup Tokens
       /\ i.dataType = "json" /\ i.file[k] = OPEN => ~InString(i.file, 0, k)
  /\ i.limit \in Nat /\ (i.dataType # "text" => i.limit > 0)
  /\ i.maxChunk \in Nat \ {0} /\ i.target \in Nat /\ i.perChunk \in Nat \ {0}

ASSUME ChunkingConstants ==
  /\ \A i \in Inputs : IsInput(i)
  /\ MinimumTarget \in Nat \ {0}
  /\ AutomaticChunkCount \in Nat \ {0}
  /\ OverlapRecords \in Nat \ {0}
  /\ DefaultLineLimit \in Nat \ {0}

VARIABLES
  input,    \* the file
  status,   \* "received", then "planned" or "refused"
  jobs,     \* the chunks by index: first and last byte, trailing padding
  pass,     \* pass[c]: "todo", "completed", "failed" by what it
            \* read, "interrupted" by a batch that could not be sent
  events    \* the events sent: chunk, byte offset and record

vars == <<input, status, jobs, pass, events>>

file   == input.file
size   == Cardinality(DOMAIN file)
limit  == input.limit
Chunks == DOMAIN jobs
PassStates == {"todo", "completed", "failed", "interrupted"}

Init ==
  /\ input \in Inputs
  /\ status = "received"
  /\ jobs = <<>> /\ pass = <<>> /\ events = {}

-----------------------------------------------------------------------------
(* Planning.                                                                *)

CeilDiv(m, n) == (m + n - 1) \div n

Job(first, last, padding) == [start |-> first, end |-> last, padding |-> padding]

(* A text file without a record limit is one chunk.                         *)
WholeFile == input.dataType = "text" /\ limit = 0

DesiredChunks == IF input.target > 0 THEN CeilDiv(size, input.target)
                                     ELSE AutomaticChunkCount

MutTextChunkCount ==
  IF size < MinimumTarget THEN 1 ELSE Min({DesiredChunks, size \div MinimumTarget})

TextChunkCount ==
  IF size < MinimumTarget THEN 1
  ELSE Min({ Max({DesiredChunks, CeilDiv(size, input.maxChunk)}),
             size \div MinimumTarget })

TextJobs ==
  [ c \in 0..(TextChunkCount - 1) |->
      Job((size * c) \div TextChunkCount, (size * (c + 1)) \div TextChunkCount - 1, 0) ]

(* The other formats are cut into ranges of a fixed size.                   *)
NominalSize     == input.perChunk * limit
NominalStarts   == { c * NominalSize : c \in 0..(CeilDiv(size, NominalSize) - 1) }
OwnedEnd(start) == Min({start + NominalSize, size}) - 1

JsonJobs ==
  [ c \in 0..(Cardinality(NominalStarts) - 1) |->
      Job(c * NominalSize, OwnedEnd(c * NominalSize), 0) ]

(* A multi-line chunk is extended to the next break, which is looked for    *)
(* within one record's length.                                              *)
LookEnd(start) == Min({OwnedEnd(start) + limit, size - 1})

BreaksAhead(start) ==
  { l.off : l \in { m \in Lines(file, OwnedEnd(start) + 1, LookEnd(start)) :
                      IsBreak(file, m) } }

NextBreakFound(start) == BreaksAhead(start) # {} \/ LookEnd(start) = size - 1

MutPadding(start) == 0

Padding(start) ==
  IF OwnedEnd(start) = size - 1 THEN 0
  ELSE Min(BreaksAhead(start) \cup {LookEnd(start) + 1}) - (OwnedEnd(start) + 1)

MultiLineJobs ==
  [ c \in 0..(Cardinality(NominalStarts) - 1) |->
      LET start == c * NominalSize
      IN Job(start, OwnedEnd(start) + Padding(start), Padding(start)) ]

PlanIsRefused ==
  \/ size = 0
  \/ WholeFile /\ size > input.maxChunk
  \/ /\ input.dataType = "text" /\ limit > 0
     /\ size >= MinimumTarget /\ input.maxChunk < MinimumTarget
  \/ input.dataType # "text" /\ NominalSize > input.maxChunk
  \/ input.dataType = "multi-line" /\ \E s \in NominalStarts : ~NextBreakFound(s)

PlannedJobs ==
  IF WholeFile THEN [c \in {0} |-> Job(0, size - 1, 0)]
  ELSE CASE input.dataType = "multi-line" -> MultiLineJobs
         [] input.dataType = "json"       -> JsonJobs
         [] OTHER                         -> TextJobs

RefusePlan ==
  /\ status = "received" /\ PlanIsRefused
  /\ status' = "refused"
  /\ UNCHANGED <<input, jobs, pass, events>>

Plan ==
  /\ status = "received" /\ ~PlanIsRefused
  /\ status' = "planned"
  /\ jobs' = PlannedJobs
  /\ pass' = [c \in DOMAIN jobs' |-> "todo"]
  /\ UNCHANGED <<input, events>>

-----------------------------------------------------------------------------
(* What a Worker makes of one chunk j.                                      *)

Accepted(j) ==
  LET length == j.end - j.start + 1 IN
  /\ j.start <= j.end
  /\ length <= input.maxChunk
  /\ limit > 0 => j.padding \in 0..Min({limit, length})

Overlap == CASE input.dataType = "json"       -> limit
             [] input.dataType = "multi-line" -> 0
             [] OTHER                         -> OverlapRecords * limit

ReadStart(j) == Max({j.start - Overlap, 0})
ReadEnd(j)   == Min({j.end + Overlap, size - 1})

(* Text: a terminator before the chunk and one after it, unless it touches  *)
(* the end of the file there.                                               *)
HasTerminator(from, to) == \E i \in from..to : file[i] \in {CR, LF}

BoundariesFound(j) ==
  /\ j.start > 0 => HasTerminator(ReadStart(j), j.start - 1)
  /\ j.end < size - 1 => HasTerminator(j.end + 1, ReadEnd(j))

(* A final LF is added to the bytes read when the file ends without one.    *)
NeedsTerminator(j) ==
  limit > 0 /\ ReadEnd(j) = size - 1 /\ file[size - 1] \notin {CR, LF}
View(j)    == [ i \in ReadStart(j)..(ReadEnd(j) + 1) |->
                  IF i <= ReadEnd(j) THEN file[i] ELSE LF ]
ViewEnd(j) == IF NeedsTerminator(j) THEN ReadEnd(j) + 1 ELSE ReadEnd(j)

(* What a pass reads: whether it reaches the end, the offset its own        *)
(* offsets count from, and the records, each the set of its lines.          *)
Reading(ok, base, records) == [ok |-> ok, base |-> base, records |-> records]
Nothing(j) == Reading(FALSE, ReadStart(j), {})

ReadText(j) ==
  LET reading == ReadLines(View(j), ReadStart(j), ViewEnd(j),
                           IF limit = 0 THEN DefaultLineLimit ELSE limit,
                           limit > 0 /\ ReadStart(j) > 0)
  IN IF limit > 0 /\ ~BoundariesFound(j)
     THEN Nothing(j)
     ELSE Reading(reading.ok, ReadStart(j), { {l} : l \in reading.lines })

ReadMultiLine(j) ==
  LET reading == ReadRecords(file, j.start, j.end, limit)
  IN Reading(reading.ok, j.start, reading.records)

(* Only an element that begins in the chunk is measured.                    *)
ReadJSONArray(j) ==
  LET base     == AlignedStart(file, ReadStart(j), ReadEnd(j))
      elements == { ElementAt(file, i, ReadEnd(j)) :
                      i \in FindJSONObjectStarts(file, base, ReadEnd(j)) }
      tooLong  == { e \in elements : e.off \in j.start..j.end /\ e.len > limit }
      before   == { e \in elements : \A t \in tooLong : e.off < t.off }
  IN Reading(tooLong = {}, base, { {e} : e \in before })

ReadChunk(j) ==
  IF ~Accepted(j) THEN Nothing(j)
  ELSE CASE input.dataType = "multi-line" -> ReadMultiLine(j)
         [] input.dataType = "json"       -> ReadJSONArray(j)
         [] OTHER                         -> ReadText(j)

StartOf(record) == Min({ l.off : l \in record })

MutOwns(j, record) ==
  WholeFile \/ StartOf(record) \in j.start..(j.end - j.padding + 1)

(* A chunk owns the records that start in its nominal range.                *)
Owns(j, record) == WholeFile \/ StartOf(record) \in j.start..(j.end - j.padding)

MutByteOffset(j, base, record) == j.start + (StartOf(record) - base)
MutUnclamped(j, base, record)  == j.start - Overlap + (StartOf(record) - base)

(* The offset the event carries, which its identity is derived from.  The   *)
(* reader counts from base and the publisher adds the start of the read.    *)
ByteOffset(j, base, record) ==
  (IF WholeFile THEN j.start ELSE ReadStart(j)) + (StartOf(record) - base)

-----------------------------------------------------------------------------
(* Passes.                                                                  *)

EventsOf(c, base, records) ==
  { [chunk |-> c, off |-> ByteOffset(jobs[c], base, r), record |-> r] : r \in records }

Owned(c, reading) == { r \in reading.records : Owns(jobs[c], r) }

CompletePass(c, reading) ==
  /\ reading.ok
  /\ events' = events \cup EventsOf(c, reading.base, Owned(c, reading))
  /\ pass' = [pass EXCEPT ![c] = "completed"]

(* Batches are sent concurrently with the reading: any of the records read  *)
(* may have been sent when the pass stops.                                  *)
SendSome(c, reading) ==
  \E sent \in SUBSET Owned(c, reading) :
    events' = events \cup EventsOf(c, reading.base, sent)

(* The job, a boundary or a record is refused.                              *)
FailPass(c, reading) ==
  /\ ~reading.ok
  /\ SendSome(c, reading)
  /\ pass' = [pass EXCEPT ![c] = "failed"]

(* A batch that could not be sent ends the pass, and the message comes back *)
(* for another one.                                                         *)
InterruptPass(c, reading) ==
  /\ Owned(c, reading) # {}
  /\ SendSome(c, reading)
  /\ pass' = [pass EXCEPT ![c] = "interrupted"]

Process(c) ==
  /\ pass[c] \in {"todo", "interrupted"}
  /\ LET reading == ReadChunk(jobs[c])
     IN \/ CompletePass(c, reading)
        \/ FailPass(c, reading)
        \/ InterruptPass(c, reading)
  /\ UNCHANGED <<input, status, jobs>>

Next == RefusePlan \/ Plan \/ \E c \in Chunks : Process(c)

Spec == Init /\ [][Next]_vars

-----------------------------------------------------------------------------
(* Properties.                                                              *)

(* The records of the file, whatever its chunks.                            *)
AllLines == Lines(file, 0, size - 1)

Records ==
  CASE input.dataType = "text" -> { {l} : l \in AllLines }
    [] input.dataType = "multi-line" ->
         { RecordFrom(file, AllLines, l) : l \in { m \in AllLines : IsBreak(file, m) } }
    [] input.dataType = "json" ->
         { {ElementAt(file, i, size - 1)} : i \in FindJSONObjectStarts(file, 0, size - 1) }

NominalRange(c) == jobs[c].start..(jobs[c].end - jobs[c].padding)

(* The end of a line does not look like the line that begins a record.  A   *)
(* planner or Worker that starts inside such a line takes it for one.       *)
Unambiguous ==
  input.dataType = "multi-line" =>
    \A l \in AllLines : \A k \in 1..(l.len - 1) :
      ~IsBreak(file, [off |-> l.off + k, len |-> l.len - k])

(* Elements over the limit are refused only where the scan sees their end.  *)
Fits(record) == input.dataType = "json" => \A l \in record : l.len <= limit

(* Type invariant. *)
ChunksTypeOK ==
  /\ input \in Inputs
  /\ status \in {"received", "planned", "refused"}
  /\ \A c \in Chunks : jobs[c] \in [start : Nat, end : Nat, padding : Nat]
  /\ Chunks # {} <=> status = "planned"
  /\ pass \in [Chunks -> PassStates]
  /\ \A e \in events : e.chunk \in Chunks /\ e.off \in Nat

(* The configurations whose chunks fit the Worker's limit.  textChunkCount  *)
(* never plans more chunks than the file has text minimums, so that many    *)
(* must hold the file; and the size check of multiLineJobs is of a nominal  *)
(* range, to which a look of up to one record is added.                     *)
RoomForChunks ==
  CASE input.dataType = "text" ->
         size <= Max({size \div MinimumTarget, 1}) * input.maxChunk
    [] input.dataType = "multi-line" -> NominalSize + limit <= input.maxChunk
    [] OTHER -> TRUE

(* The nominal ranges of a plan divide the file, and where there is room    *)
(* every chunk is one that the Worker accepts, with its padding: the counts *)
(* and size checks of the planners on one side, valid() on the other, are   *)
(* one contract.                                                            *)
PlannedChunksFit ==
  status = "planned" =>
    /\ \A i \in 0..(size - 1) : \E c \in Chunks :
         i \in NominalRange(c) /\ \A d \in Chunks \ {c} : i \notin NominalRange(d)
    /\ RoomForChunks => \A c \in Chunks : Accepted(jobs[c])

(* No pass, completed or stopped halfway, ever sends a fragment or joins    *)
(* two records: what an event carries is a whole record of the file.        *)
EventsAreRecords ==
  Unambiguous => { e.record : e \in events } \subseteq Records

(* A line or a record of lines goes out under the offset it has in the file,*)
(* whatever chunk and overlap it was read with: publish adds readStart.     *)
OffsetIsPosition ==
  input.dataType # "json" => \A e \in events : e.off = StartOf(e.record)

(* "sem gerar duplicatas ou lacunas": a record is sent by the completed pass*)
(* of the chunk it starts in, and by no other chunk.                        *)
EachRecordOnce ==
  Unambiguous =>
    \A r \in Records, c \in Chunks :
      LET sent == \E e \in events : e.chunk = c /\ e.record = r IN
      /\ StartOf(r) \notin NominalRange(c) => ~sent
      /\ StartOf(r) \in NominalRange(c) /\ Fits(r) /\ pass[c] = "completed" => sent

(* sourceRecordId "derived solely from the immutable physical source and    *)
(* the record's starting byte offset": two records never share one.         *)
RecordsHaveIdentities ==
  \A e, f \in events : e.off = f.off => e.record = f.record

(* A text file within the declared contract: terminated lines of valid      *)
(* UTF-8, no longer than maxRecordLengthBytes.                              *)
Conforming ==
  input.dataType = "text" /\ limit > 0
  /\ \A l \in AllLines : ~Refused(file, size - 1, limit, l)

(* "Esse limite permite ... que os Workers tratem registros que cruzam uma  *)
(* fronteira": no chunk of a conforming file fails.                         *)
ConformingFilesComplete ==
  Conforming => \A c \in Chunks : pass[c] # "failed"
=============================================================================
