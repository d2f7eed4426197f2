----------------------------- MODULE ObjectJobs -----------------------------
(***************************************************************************)
(* Which bytes a job reads, and which jobs a message becomes: S3 objects   *)
(* that are overwritten and deleted while notifications and requests about *)
(* them are in flight, in a bucket with versioning enabled, suspended or   *)
(* off (headAdmissionObject and jobsFor of cmd/organizer/main.go, Plan and *)
(* Publish of the organizer service, Replay of the ledger, HeadObject and  *)
(* the range reads of the AWS client).                                     *)
(*                                                                         *)
(* Several jobs and several files per message are modelled, every step     *)
(* that looks at an object, and every write after which an invocation may  *)
(* be interrupted with something left behind: admission, a prefix of the   *)
(* writes of Plan, some of the sends, StartChunk.  What OrganizerIntake    *)
(* and WorkerPipeline show call by call (the phases of admission, the      *)
(* batches and checkpoints of Publish, attempt numbers and the calls of an *)
(* attempt after its read) is one step here, and so is a whole replay.     *)
(***************************************************************************)
EXTENDS LedgerStates, Integers, SequencesExt

CONSTANTS
  Keys,          \* the object keys
  Contents,      \* contents an object can have; the content is its ETag
  SizeOf,        \* SizeOf[x]: the chunks planned for content x
  Gone,          \* the current "content" of a deleted object
  Invocations,   \* execution slots of the Organizer
  MaxReceives,   \* redrive limit of the intake queue
  Limits         \* combinations of bounds a behaviour may have

(* A behaviour is bounded in the writes and deletions of objects, in the    *)
(* intake messages and the objects of one message, in replays and in        *)
(* invocations that are interrupted; its bucket notifies writes or not.     *)
ASSUME ObjectConstants ==
  /\ IsFiniteSet(Keys) /\ IsFiniteSet(Limits)
  /\ IsFiniteSet(Contents) /\ Contents # {} /\ Gone \notin Contents
  /\ SizeOf \in [Contents -> Nat \ {0}]
  /\ MaxReceives \in Nat
  /\ Limits \subseteq 
       [ puts : Nat, messages : Nat, refs : Nat, replays : Nat, crashes : Nat,
         notifies : BOOLEAN ]

MaxPuts     == Max({l.puts : l \in Limits})
MaxMessages == Max({l.messages : l \in Limits})
MaxReplays  == Max({l.replays : l \in Limits})

Chunks   == 1..Max({SizeOf[x] : x \in Contents})
Stray    == 0                  \* the chunk id of a payload that is no chunk

NoVersion   == 0               \* no version id: versioning was never enabled
NullVersion == -1              \* "null", the mutable version of a suspended bucket
Versions    == {NullVersion, NoVersion} \cup 1..MaxPuts

Identities  == [key : Keys, version : Versions, content : Contents]
NoIdentity  == [key |-> "none", version |-> NoVersion, content |-> Gone]

(* Job ids: the file id of an admitted object, the id of a request's queue  *)
(* message, or a new one per replay.                                        *)
FileJob(f)  == <<"file", f>>
RequestJob(m) == <<"request", m>>
ReplayJob(n)  == <<"replay", n>>
Jobs == {FileJob(f) : f \in Identities} \cup {RequestJob(m) : m \in 1..MaxMessages}
        \cup {ReplayJob(n) : n \in 1..MaxReplays}

VARIABLES
  limit,       \* the bounds of this behaviour, and its bucket's setting
  versioning,  \* the versioning of the bucket
  puts,        \* puts[k]: what was written under k, oldest first
  queue,       \* the messages of the intake queue
  org,         \* org[o]: the invocation running in slot o
  job,         \* job[j]: the JOB item of job j
  item,        \* item[j][c]: the CHUNK item c of job j
  replays,     \* the replays so far: of which job, what was wanted and sent
  crashes      \* invocations that were interrupted so far

world == <<limit, versioning>>      \* chosen once, by Init
vars  == <<world, puts, queue, org, job, item, replays, crashes>>

Reference == [key : Keys, version : Versions, put : 0..MaxPuts]

NoJob  == [ status |-> "ABSENT", lease |-> "none", file |-> NoIdentity,
            expected |-> 0, sealed |-> FALSE ]
NoItem == [ status |-> "ABSENT", file |-> NoIdentity, sent |-> FALSE, read |-> Gone ]

(* A plan is a group of chunk messages: a job id and the files it is about. *)
(* jobIDs are the jobs whose plan Publish has persisted.                    *)
Idle == [ step |-> "idle", msg |-> 0, at |-> 0, object |-> NoIdentity,
          plans |-> <<>>, jobIDs |-> {} ]

Init ==
  /\ limit \in Limits
  /\ versioning \in {"enabled", "suspended", "off"}
  /\ puts = [k \in Keys |-> <<>>]
  /\ queue = <<>>
  /\ org = [o \in Invocations |-> Idle]
  /\ job = [j \in Jobs |-> NoJob]
  /\ item = [j \in Jobs |-> [c \in Chunks \cup {Stray} |-> NoItem]]
  /\ replays = <<>>
  /\ crashes = 0

-----------------------------------------------------------------------------
(* S3, and what the AWS client makes of its answers.                        *)

Current(k) == IF puts[k] = <<>> THEN Gone ELSE Last(puts[k])

(* The version id S3 gives the i-th write of a key.                         *)
VersionOf(i) == CASE versioning = "enabled"   -> i
                  [] versioning = "suspended" -> NullVersion
                  [] OTHER                    -> NoVersion

(* HeadObject of a version, or of the current object: without a version id, *)
(* and for "null", which names whatever is there now.                       *)
HeadObject(k, v) ==
  IF v \in 1..MaxPuts
    THEN [key |-> k, version |-> v, content |-> puts[k][v]]
    ELSE [key |-> k, version |-> VersionOf(Len(puts[k])), content |-> Current(k)]

(* GetObject with the version id of an identity or, without one, If-Match.  *)
GetObject(f) ==
  CASE f.version \in 1..MaxPuts  -> puts[f.key][f.version]
    [] f.version = NullVersion   -> Current(f.key)
    [] OTHER -> IF Current(f.key) = f.content THEN f.content ELSE Gone

MutReadRange(f) == GetObject(f)

(* An answer with another ETag than the admitted one is refused.            *)
ReadRange(f) == IF GetObject(f) = f.content THEN f.content ELSE Gone

-----------------------------------------------------------------------------
(* The world: objects are written and deleted, S3 may notify each write, a  *)
(* producer asks for files, the admission lease of a job runs out.          *)

TotalPuts == SumFunction([k \in Keys |-> Len(puts[k])])

NewMessage(kind, refs) ==
  /\ Len(queue) < limit.messages
  /\ queue' = Append(queue, [ kind |-> kind, refs |-> refs,
                              state |-> "visible", receives |-> 0 ])

(* A notification may carry the records of several writes.                  *)
Notify(ref) ==
  \/ NewMessage("notification", <<ref>>)
  \/ \E m \in DOMAIN queue :
       /\ queue[m].kind = "notification"
       /\ queue[m].state = "visible" /\ queue[m].receives = 0
       /\ Len(queue[m].refs) < limit.refs
       /\ queue' = [queue EXCEPT ![m].refs = Append(@, ref)]

Put(k, x) ==
  /\ TotalPuts < limit.puts
  /\ puts' = [puts EXCEPT ![k] = Append(@, x)]
  /\ LET i == Len(puts[k]) + 1
     IN /\ x = Gone => Current(k) # Gone
        /\ IF limit.notifies /\ x # Gone
             THEN Notify([key |-> k, version |-> VersionOf(i), put |-> i])
             ELSE UNCHANGED queue
  /\ UNCHANGED <<world, org, job, item, replays, crashes>>

(* An explicit request names objects without pinning them.                  *)
Request(ks) ==
  /\ NewMessage("request",
       [i \in DOMAIN ks |-> [key |-> ks[i], version |-> NoVersion, put |-> 0]])
  /\ UNCHANGED <<world, puts, org, job, item, replays, crashes>>

(* The lease is as long as a Lambda invocation may be: its holder is gone.  *)
Holds(o, j) ==
  \/ org[o].step = "plan" /\ j = FileJob(org[o].object)
  \/ \E i \in DOMAIN org[o].plans : org[o].plans[i].job = j

LeaseExpires(j) ==
  /\ job[j].lease = "held"
  /\ job[j].status \in LeasedStatuses
  /\ \A o \in Invocations : ~Holds(o, j)
  /\ job' = [job EXCEPT ![j].lease = "expired"]
  /\ UNCHANGED <<world, puts, queue, org, item, replays, crashes>>

-----------------------------------------------------------------------------
(* The Organizer: one message, reference by reference, then Publish.        *)

At(o, step) == org[o].step = step
Ref(o)      == queue[org[o].msg].refs[org[o].at]
Goto(o, step) == org' = [org EXCEPT ![o].step = step] /\ UNCHANGED queue

Release(o, state) ==
  /\ org' = [org EXCEPT ![o] = Idle]
  /\ queue' = [queue EXCEPT ![org[o].msg].state = state]

Ack(o)  == Release(o, "deleted")
Nack(o) == Release(o, "visible")

(* jobsFor goes on with the next reference, or returns the plans it has.    *)
NextReference(r) ==
  LET m == queue[r.msg]
  IN [ r EXCEPT !.at = @ + 1, !.object = NoIdentity,
         !.step = IF r.at = Len(m.refs) THEN "publish"
                  ELSE IF m.kind = "notification" THEN "head" ELSE "plan" ]

Receive(o, m) ==
  /\ At(o, "idle")
  /\ queue[m].state = "visible"
  /\ queue[m].receives < MaxReceives
  /\ queue' = [queue EXCEPT ![m].state = "inflight", ![m].receives = @ + 1]
  /\ org' = [org EXCEPT ![o] = NextReference([Idle EXCEPT !.msg = m])]
  /\ UNCHANGED <<world, puts, job, item, replays, crashes>>

DeadLetter(m) ==
  /\ queue[m].state = "visible"
  /\ queue[m].receives >= MaxReceives
  /\ queue' = [queue EXCEPT ![m].state = "dlq"]
  /\ UNCHANGED <<world, puts, org, job, item, replays, crashes>>

(* The first look at the object decides which job the reference becomes.    *)
HeadForAdmission(o) ==
  /\ At(o, "head")
  /\ LET f == HeadObject(Ref(o).key, Ref(o).version)
     IN IF f.content = Gone THEN Nack(o)
        ELSE /\ org' = [org EXCEPT ![o].step = "admit", ![o].object = f]
             /\ UNCHANGED queue
  /\ UNCHANGED <<world, puts, job, item, replays, crashes>>

MutSkipped(j) == job[j].status \in TerminalJob \cup LeasedStatuses

(* AlreadyCompleted: jobsFor skips the reference.                           *)
Skipped(j) == job[j].status \in TerminalJob

(* Acquired: a new job, or one whose lease ran out.                         *)
Acquirable(j) ==
  \/ job[j].status = "ABSENT"
  \/ job[j].status \in LeasedStatuses /\ job[j].lease = "expired"

(* Admit, BeginValidation and BeginPlanning; a reclaimed job keeps what an  *)
(* interrupted Plan left of it.  Anything else is Busy, and fails the       *)
(* message with the references already planned in it.                       *)
Admit(o) ==
  /\ At(o, "admit")
  /\ LET j == FileJob(org[o].object)
     IN \/ /\ Acquirable(j)
           /\ job' = [job EXCEPT ![j] =
                [@ EXCEPT !.status = "PLANNING", !.lease = "held",
                          !.file = org[o].object]]
           /\ Goto(o, "plan")
        \/ /\ Skipped(j) /\ UNCHANGED <<job, queue>>
           /\ org' = [org EXCEPT ![o] = NextReference(@)]
        \/ ~Acquirable(j) /\ ~Skipped(j) /\ Nack(o) /\ UNCHANGED job
  /\ UNCHANGED <<world, puts, item, replays, crashes>>

(* The file is added to the group of its job.                               *)
AddFile(plans, j, f) ==
  IF plans # <<>> /\ Last(plans).job = j
    THEN [plans EXCEPT ![Len(plans)].files = Append(@, f)]
    ELSE Append(plans, [job |-> j, files |-> <<f>>])

(* The second look, at the admitted version if there is one: an object that *)
(* is gone or has another ETag fails the message.  A request is not pinned. *)
Plan(o) ==
  /\ At(o, "plan")
  /\ LET pinned == queue[org[o].msg].kind = "notification"
         f == HeadObject(Ref(o).key, org[o].object.version)
         j == IF pinned THEN FileJob(org[o].object) ELSE RequestJob(org[o].msg)
     IN IF f.content = Gone \/ (pinned /\ f.content # org[o].object.content)
        THEN Nack(o)
        ELSE /\ org' = [org EXCEPT ![o] = NextReference(
                          [@ EXCEPT !.plans = AddFile(org[o].plans, j, f)])]
             /\ UNCHANGED queue
  /\ UNCHANGED <<world, puts, job, item, replays, crashes>>

-----------------------------------------------------------------------------
(* Publish: Plan for each job, then the sends, then the status.             *)

Sizes(files) == [i \in DOMAIN files |-> SizeOf[files[i].content]]

MutExpectedChunks(files) == Max(ToSet(Sizes(files)))

(* len(chunks) of the group.                                                *)
ExpectedChunks(files) == SumFunction(Sizes(files))

CanPlanJob(j, files) ==
  \/ job[j].status = "ABSENT"
  \/ /\ job[j].file = files[1]
     /\ job[j].expected \in {0, ExpectedChunks(files)}

(* Every file numbers its chunks from 1.  A chunk item that exists is kept, *)
(* with its payload, if the ranges are the same (files of as many chunks);  *)
(* otherwise the write fails and the manifest stays open.                   *)
Collides(files) == \E i, k \in DOMAIN files : Sizes(files)[i] # Sizes(files)[k]

(* The first write of Plan, and its last: the seal is refused, without an   *)
(* error, where the manifest is sealed already.                             *)
Registered(j, files) ==
  [job[j] EXCEPT !.file = files[1], !.expected = ExpectedChunks(files),
                 !.status = IF @ = "ABSENT" THEN "PENDING" ELSE @]

Sealed(j, files) ==
  [Registered(j, files) EXCEPT !.status = IF job[j].sealed THEN @ ELSE "PENDING",
                               !.sealed = TRUE]

(* The CHUNK items after Plan has written the first n of them. *)
Written(j, f, n) ==
  [c \in DOMAIN item[j] |->
     IF c \in 1..n /\ item[j][c].status = "ABSENT"
       THEN [NoItem EXCEPT !.status = "PENDING", !.file = f]
       ELSE item[j][c]]

ToPersist(o, i) ==
  /\ At(o, "publish")
  /\ org[o].plans[i].job \notin org[o].jobIDs

PersistPlan(o, i) ==
  /\ ToPersist(o, i)
  /\ LET j == org[o].plans[i].job
         files == org[o].plans[i].files
     IN /\ CanPlanJob(j, files) /\ ~Collides(files)
        /\ job' = [job EXCEPT ![j] = Sealed(j, files)]
        /\ item' = [item EXCEPT ![j] = Written(j, files[1], Sizes(files)[1])]
        /\ org' = [org EXCEPT ![o].jobIDs = @ \cup {j}]
  /\ UNCHANGED <<world, puts, queue, replays, crashes>>

(* A Plan of another file or chunk count is refused; one that collides, or  *)
(* is interrupted, leaves its JOB item and a prefix of its CHUNK items.     *)
Interrupted == crashes < limit.crashes /\ crashes' = crashes + 1

PlanFails(o, i) ==
  /\ ToPersist(o, i) /\ Nack(o)
  /\ LET j == org[o].plans[i].job
         files == org[o].plans[i].files
     IN \/ ~CanPlanJob(j, files) /\ UNCHANGED <<job, item, crashes>>
        \/ /\ CanPlanJob(j, files)
           /\ job' = [job EXCEPT ![j] = Registered(j, files)]
           /\ \E n \in 0..Sizes(files)[1] :
                /\ item' = [item EXCEPT ![j] = Written(j, files[1], n)]
                /\ \/ Collides(files) /\ n = Sizes(files)[1] /\ UNCHANGED crashes
                   \/ Interrupted
  /\ UNCHANGED <<world, puts, replays>>

(* All plans are persisted before the first chunk is sent.  A batch may be  *)
(* taken in part, so any of its chunks may be the next.                     *)
AllPersisted(o) ==
  /\ At(o, "publish")
  /\ \A i \in DOMAIN org[o].plans : org[o].plans[i].job \in org[o].jobIDs

Unsent(j) == {c \in DOMAIN item[j] : item[j][c].status # "ABSENT" /\ ~item[j][c].sent}

Send(o, j, c) ==
  /\ AllPersisted(o)
  /\ item' = [item EXCEPT ![j][c].sent = TRUE]
  /\ UNCHANGED <<world, puts, queue, org, job, replays, crashes>>

(* MarkScheduled refuses a job whose results already come in, and that      *)
(* fails the message.  "PENDING" stands for SCHEDULED here.                 *)
FinishPublish(o) ==
  /\ AllPersisted(o)
  /\ \A j \in org[o].jobIDs : Unsent(j) = {}
  /\ IF \A j \in org[o].jobIDs : job[j].status = "PENDING" THEN Ack(o) ELSE Nack(o)
  /\ UNCHANGED <<world, puts, job, item, replays, crashes>>

(* The execution environment disappears, or a call fails and the message    *)
(* with it.                                                                 *)
Crash(o) ==
  /\ ~At(o, "idle")
  /\ Interrupted
  /\ Nack(o)
  /\ UNCHANGED <<world, puts, job, item, replays>>

-----------------------------------------------------------------------------
(* A Worker's attempt at a chunk, and the end of the job with its last one. *)
(* Which attempt it is, and so whether a failure is the last one, is left   *)
(* open.  An invocation that disappears leaves its chunk RUNNING.           *)

(* valid() refuses a payload that is no chunk, before StartChunk: the stray *)
(* item of a replay never starts.                                           *)
StartChunk(j, c) ==
  /\ c # Stray
  /\ item[j][c].sent /\ item[j][c].status \in {"PENDING", "RETRY_PENDING"}
  /\ item' = [item EXCEPT ![j][c].status = "RUNNING"]
  /\ UNCHANGED <<world, puts, queue, org, job, replays, crashes>>

Ended(j) == {c \in DOMAIN item[j] : item[j][c].status \in TerminalChunk}

(* The JOB item when one more chunk gets its final status.                  *)
AfterChunk(j, status) ==
  [job[j] EXCEPT !.status =
     IF ~job[j].sealed \/ Cardinality(Ended(j)) + 1 < job[j].expected THEN "RUNNING"
     ELSE IF status = "FAILED" \/ \E d \in Ended(j) : item[j][d].status = "FAILED"
       THEN "FAILED" ELSE "COMPLETED"]

FinishChunk(j, c, status, content) ==
  /\ item[j][c].status = "RUNNING"
  /\ job[j].status \in OpenForResults
  /\ item' = [item EXCEPT ![j][c] = [@ EXCEPT !.status = status, !.read = content]]
  /\ job' = [job EXCEPT ![j] = AfterChunk(j, status)]

CompleteChunk(j, c) ==
  /\ FinishChunk(j, c, "COMPLETED", ReadRange(item[j][c].file))
  /\ ReadRange(item[j][c].file) # Gone
  /\ UNCHANGED <<world, puts, queue, org, replays, crashes>>

(* A range that is refused fails the attempt; anything else that fails it   *)
(* counts as an interruption.                                               *)
FailChunk(j, c) ==
  /\ \/ FinishChunk(j, c, "FAILED", Gone)
     \/ /\ item[j][c].status = "RUNNING"
        /\ item' = [item EXCEPT ![j][c].status = "RETRY_PENDING"]
        /\ UNCHANGED job
  /\ IF ReadRange(item[j][c].file) = Gone THEN UNCHANGED crashes ELSE Interrupted
  /\ UNCHANGED <<world, puts, queue, org, replays>>

-----------------------------------------------------------------------------
(* Replay: an operator has the chunks of a job sent again under a new id.   *)

(* Replay reads every item of the partition that has a payload: chunks, the *)
(* completion intent of a finished job and the audits of earlier replays.   *)
(* The last two decode to messages without a chunk id.                      *)
Payloads(j) == {c \in DOMAIN item[j] : item[j][c].status # "ABSENT"}

Strays(j) ==
  (IF job[j].status \in TerminalJob THEN 1 ELSE 0)
  + Cardinality({n \in DOMAIN replays : replays[n].of = j})
  + (IF Stray \in Payloads(j) THEN 1 ELSE 0)

MutStraysIn(j, wanted) == Strays(j)

(* With chunk ids, only the items of those ids are taken.                   *)
StraysIn(j, wanted) == IF wanted = {} THEN Strays(j) ELSE 0

ReplayedChunks(j, wanted) ==
  IF wanted = {} THEN Payloads(j) \ {Stray} ELSE Payloads(j) \cap wanted

(* Replay and the Publish that follows it.  Messages without a chunk id     *)
(* sort first, give the plan its file, and share one item.                  *)
Replay(j, wanted) ==
  LET n == ReplayJob(Len(replays) + 1)
      chunks == ReplayedChunks(j, wanted)
      strays == StraysIn(j, wanted)
  IN /\ Len(replays) < limit.replays
     /\ Cardinality(chunks) + strays > 0
     /\ wanted # {} => chunks = wanted
     /\ replays' = Append(replays, [of |-> j, wanted |-> wanted, chunks |-> chunks])
     /\ job' = [job EXCEPT ![n] =
          [NoJob EXCEPT !.status = "PENDING", !.sealed = TRUE,
             !.expected = Cardinality(chunks) + strays,
             !.file = IF strays > 0 THEN NoIdentity
                      ELSE item[j][Min(chunks)].file]]
     /\ item' = [item EXCEPT ![n] = [c \in DOMAIN @ |->
          IF c \in chunks \/ (c = Stray /\ strays > 0)
            THEN [NoItem EXCEPT !.status = "PENDING", !.sent = TRUE,
                                !.file = item[j][c].file]
            ELSE @[c]]]
     /\ UNCHANGED <<world, puts, queue, org, crashes>>

-----------------------------------------------------------------------------

OrganizerStep(o) ==
  \/ HeadForAdmission(o) \/ Admit(o) \/ Plan(o) \/ FinishPublish(o)
  \/ \E i \in DOMAIN org[o].plans : PersistPlan(o, i) \/ PlanFails(o, i)
  \/ \E j \in org[o].jobIDs : \E c \in Unsent(j) : Send(o, j, c)

Sqs(m) == DeadLetter(m) \/ \E o \in Invocations : Receive(o, m)

Workers == \E j \in Jobs, c \in Chunks :
  StartChunk(j, c) \/ CompleteChunk(j, c) \/ FailChunk(j, c)

World ==
  \/ \E k \in Keys, x \in Contents \cup {Gone} : Put(k, x)
  \/ \E n \in 1..limit.refs : \E ks \in [1..n -> Keys] :
       IsInjective(ks) /\ Request(ks)
  \/ \E j \in Jobs : LeaseExpires(j)
  \/ \E o \in Invocations : Crash(o)

Next ==
  \/ World \/ Workers
  \/ \E o \in Invocations : OrganizerStep(o)
  \/ \E m \in DOMAIN queue : Sqs(m)
  \/ \E j \in Jobs, wanted \in SUBSET Chunks : Replay(j, wanted)

Spec == Init /\ [][Next]_vars

-----------------------------------------------------------------------------
(* Properties.                                                              *)

(* The same physical object for admission, planning and reading: whatever   *)
(* is written or deleted meanwhile, every chunk a job completes was read    *)
(* from the content the job was admitted or planned for, so no job mixes    *)
(* two contents of its object.                                              *)
ReadsAreTheObject ==
  \A j \in Jobs : \A c \in Chunks : item[j][c].status = "COMPLETED" =>
    /\ item[j][c].read = item[j][c].file.content
    /\ job[j].file # NoIdentity => item[j][c].file = job[j].file

(* A job is COMPLETED only when every chunk of everything it was asked for  *)
(* was read: the admitted object, the files of the request, the chunks that *)
(* were there to replay.                                                    *)
WholeFile(j, k) ==
  \E f \in Identities :
    /\ f.key = k
    /\ \A c \in 1..SizeOf[f.content] :
         item[j][c].status = "COMPLETED" /\ item[j][c].file = f

CompletedReadEverything ==
  /\ \A f \in Identities :
       job[FileJob(f)].status = "COMPLETED" => WholeFile(FileJob(f), f.key)
  /\ \A m \in DOMAIN queue : job[RequestJob(m)].status = "COMPLETED" =>
       \A i \in DOMAIN queue[m].refs : WholeFile(RequestJob(m), queue[m].refs[i].key)
  /\ \A n \in DOMAIN replays : job[ReplayJob(n)].status = "COMPLETED" =>
       \A c \in replays[n].chunks : item[ReplayJob(n)][c].status = "COMPLETED"

(* A notification is acknowledged only when each object it names has a job  *)
(* whose whole manifest was sent: of the version it names or, without one,  *)
(* of what was written then or later.                                       *)
Answers(f, ref) ==
  /\ f.key = ref.key
  /\ IF ref.version \in 1..MaxPuts THEN f.version = ref.version
     ELSE \E i \in ref.put..Len(puts[ref.key]) : f.content = puts[ref.key][i]

AcknowledgedIsPlanned ==
  \A m \in DOMAIN queue :
    queue[m].state = "deleted" /\ queue[m].kind = "notification" =>
      \A i \in DOMAIN queue[m].refs : \E f \in Identities :
        /\ Answers(f, queue[m].refs[i])
        /\ job[FileJob(f)].sealed
        /\ \A c \in 1..SizeOf[f.content] : item[FileJob(f)][c].sent

(* A manifest is one Workers can end: for the job of an admitted object, or *)
(* of a replay of chosen chunks, however often its plan was interrupted and *)
(* taken up again, what the job waits for is the number of its chunks, and  *)
(* no message is among them that Workers refuse.  (Requests of several      *)
(* files and replays of whole finished jobs do not promise it.)             *)
Promised(j) ==
  \/ \E f \in Identities : j = FileJob(f)
  \/ \E n \in DOMAIN replays : j = ReplayJob(n) /\ replays[n].wanted # {}

ManifestIsAttainable ==
  \A j \in Jobs : job[j].sealed /\ Promised(j) =>
    /\ Stray \notin Payloads(j)
    /\ job[j].expected = Cardinality(Payloads(j))
=============================================================================
