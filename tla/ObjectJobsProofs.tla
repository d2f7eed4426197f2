--------------------------- MODULE ObjectJobsProofs ---------------------------
(***************************************************************************)
(* Proofs about ObjectJobs, for any set of keys, any contents and sizes,   *)
(* any number of invocations and any bounds: what a job reads, what it has *)
(* read when it is COMPLETED, what an acknowledged notification stands for *)
(* and which manifests are complete, however Publish was interrupted.      *)
(*                                                                         *)
(* The inductive invariant has three parts.  JobsInv says what the JOB and *)
(* CHUNK items of one job are (Fits) and, by the kind of the job, which    *)
(* chunks it has and expects (FileFits, RequestFits, ReplayFits).          *)
(* WorldInv is about messages: what a notification names was written, and  *)
(* when it is acknowledged each of its objects has its whole manifest sent *)
(* (Published).  OrgInv is about invocations: one per message in flight,   *)
(* with the leases of what it plans, so that two of them never plan the    *)
(* same object, with every reference it has passed ended or planned        *)
(* (Handled), and with every plan it has persisted sealed (Persisted).     *)
(***************************************************************************)
EXTENDS ObjectJobs, SumTheorems, SequenceTheorems

Ids == Chunks \cup {Stray}
PayloadsOf(I) == {c \in Ids : I[c].status # "ABSENT"}
EndedOf(I)    == {c \in Ids : I[c].status \in TerminalChunk}

(* The JOB item, and the CHUNK item. *)
JobRecord ==
  [ status : {"ABSENT", "PLANNING", "PENDING", "RUNNING", "COMPLETED", "FAILED"},
    lease : {"none", "held", "expired"}, file : Identities \cup {NoIdentity},
    expected : Nat, sealed : BOOLEAN ]
ItemRecord ==
  [ status : {"ABSENT", "PENDING", "RUNNING", "RETRY_PENDING", "COMPLETED", "FAILED"},
    file : Identities \cup {NoIdentity}, sent : BOOLEAN, read : Contents \cup {Gone} ]

(* What the JOB item J and the CHUNK items I of one job agree on: no chunk  *)
(* is sent before the manifest is sealed, and none starts before it is      *)
(* sent; all are of one file; and the status of the job is that of its      *)
(* ended chunks.                                                            *)
Unstarted(I) ==
  /\ I[Stray].status \in {"ABSENT", "PENDING"}
  /\ \A c \in Ids : ~I[c].sent => I[c].status \in {"ABSENT", "PENDING"}

OneContent(J, I) ==
  /\ \A c \in Chunks : I[c].status = "COMPLETED" => I[c].read = I[c].file.content
  /\ \A c, d \in PayloadsOf(I) \ {Stray} : I[c].file = I[d].file
  /\ J.file # NoIdentity => \A c \in PayloadsOf(I) \ {Stray} : I[c].file = J.file

Counted(J, I) ==
  /\ J.sealed /\ J.status \in OpenForResults => Cardinality(EndedOf(I)) < J.expected
  /\ J.status \in TerminalJob => J.sealed /\ Cardinality(EndedOf(I)) >= J.expected
  /\ J.status = "COMPLETED" => \A c \in EndedOf(I) : I[c].status = "COMPLETED"

Fits(J, I) ==
  /\ J \in JobRecord /\ I \in [Ids -> ItemRecord]
  /\ J.status = "ABSENT" => PayloadsOf(I) = {} /\ J.expected = 0
  /\ J.status \in {"ABSENT", "PLANNING"} => ~J.sealed
  /\ ~J.sealed => \A c \in Ids : ~I[c].sent
  /\ Unstarted(I) /\ OneContent(J, I) /\ Counted(J, I)

(* The plan of content x, in a job expecting n chunks: a prefix of its      *)
(* chunks, and once the manifest is sealed all of them.                     *)
Planned(x, n, J, I) ==
  /\ PayloadsOf(I) \subseteq 1..SizeOf[x]
  /\ J.sealed => PayloadsOf(I) = 1..SizeOf[x] /\ J.expected = n

(* The job of an admitted object f has the chunks of its content. *)
FileFits(f, J, I) ==
  /\ J.status # "ABSENT" => J.file = f
  /\ J.expected \in {0, SizeOf[f.content]}
  /\ J.status \notin {"ABSENT", "PLANNING"} => J.sealed
  /\ Planned(f.content, SizeOf[f.content], J, I)

(* The job of a request M has chunks of one of its files, and expects more  *)
(* than those when M names more than one.                                   *)
RequestFits(M, J, I) ==
  /\ M.kind = "request" /\ J.status # "PLANNING"
  /\ J.file \in Identities /\ J.file.key = M.refs[1].key
  /\ Planned(J.file.content, J.expected, J, I)
  /\ J.expected >= SizeOf[J.file.content]
  /\ Len(M.refs) > 1 => J.expected > SizeOf[J.file.content]

(* A replay has the chunks it took and, when it took items that are no      *)
(* chunks, one stray item for all of those.                                 *)
ReplayFits(r, J, I) ==
  /\ J.status \notin {"ABSENT", "PLANNING"} /\ J.sealed
  /\ PayloadsOf(I) \ {Stray} = r.chunks
  /\ Stray \notin PayloadsOf(I) => J.expected = Cardinality(r.chunks)
  /\ Stray \in PayloadsOf(I) => J.expected > Cardinality(r.chunks) /\ r.wanted = {}

JobsInv ==
  /\ job \in [Jobs -> JobRecord] /\ item \in [Jobs -> [Ids -> ItemRecord]]
  /\ \A j \in Jobs : Fits(job[j], item[j])
  /\ \A f \in Identities : FileFits(f, job[FileJob(f)], item[FileJob(f)])
  /\ \A m \in 1..MaxMessages : job[RequestJob(m)].status # "ABSENT" =>
       m \in DOMAIN queue /\ RequestFits(queue[m], job[RequestJob(m)], item[RequestJob(m)])
  /\ \A n \in 1..MaxReplays :
       IF n \in DOMAIN replays
         THEN ReplayFits(replays[n], job[ReplayJob(n)], item[ReplayJob(n)])
         ELSE job[ReplayJob(n)].status = "ABSENT"

Message == [ kind : {"notification", "request"}, refs : Seq(Reference),
             state : {"visible", "inflight", "deleted", "dlq"}, receives : Nat ]

(* Answers, when P is what was written so far. *)
Answered(P, f, ref) ==
  /\ f.key = ref.key
  /\ IF ref.version \in 1..MaxPuts THEN f.version = ref.version
     ELSE \E i \in ref.put..Len(P[ref.key]) : f.content = P[ref.key][i]

(* The version ids S3 gives under the versioning V, and what a reference of *)
(* a notification is.                                                       *)
VersionsOf(V, i) == CASE V = "enabled"   -> i
                      [] V = "suspended" -> NullVersion
                      [] OTHER           -> NoVersion
Noticed(V, P, ref) ==
  ref.put \in 1..Len(P[ref.key]) /\ ref.version = VersionsOf(V, ref.put)

(* The objects whose job has its whole manifest sent. *)
Published ==
  {f \in Identities : /\ job[FileJob(f)].sealed
                      /\ \A c \in 1..SizeOf[f.content] : item[FileJob(f)][c].sent}

(* Each object the notification M names is among the published ones, D. *)
Served(M, D, P) == \A i \in DOMAIN M.refs : \E f \in D : Answered(P, f, M.refs[i])

MessageFits(M, V, D, P) ==
  /\ M.refs # <<>>
  /\ M.kind = "notification" => \A i \in DOMAIN M.refs : Noticed(V, P, M.refs[i])
  /\ M.kind = "notification" /\ M.state = "deleted" => Served(M, D, P)

Replayed == [of : Jobs, wanted : SUBSET Chunks, chunks : SUBSET Chunks]

WorldInv ==
  /\ limit \in Limits /\ versioning \in {"enabled", "suspended", "off"}
  /\ puts \in [Keys -> Seq(Contents \cup {Gone})]
  /\ \A k \in Keys : Len(puts[k]) <= MaxPuts
  /\ queue \in Seq(Message) /\ Len(queue) <= MaxMessages
  /\ replays \in Seq(Replayed) /\ Len(replays) <= MaxReplays
  /\ \A m \in DOMAIN queue : MessageFits(queue[m], versioning, Published, puts)

Steps == {"idle", "head", "admit", "plan", "publish"}
Invocation == [ step : Steps, msg : Nat, at : Nat, object : Identities \cup {NoIdentity},
                plans : Seq([job : Jobs, files : Seq(Identities)]),
                jobIDs : SUBSET Jobs ]

(* The version id of f is one the versioning V gives. *)
Versioned(V, f) == \E i \in 1..MaxPuts : f.version = VersionsOf(V, i)
Leased(J) == J.status = "PLANNING" /\ J.lease = "held"

(* The jobs an invocation holds the lease of. *)
Held(r, j) ==
  \/ r.step = "plan" /\ j = FileJob(r.object)
  \/ \E i \in DOMAIN r.plans : r.plans[i].job = j

(* The object an invocation was answered is one its reference names. *)
Pinned(r, M, V, P) ==
  r.step \in {"admit", "plan"} =>
    r.object \in Identities /\ Versioned(V, r.object) /\ Answered(P, r.object, M.refs[r.at])

(* The plans of a notification are of different objects, each leased until  *)
(* its plan is persisted.                                                   *)
FilePlans(r, JB) ==
  /\ \A i \in DOMAIN r.plans :
       \E f \in Identities : r.plans[i] = [job |-> FileJob(f), files |-> <<f>>]
  /\ \A f \in Identities :
       Held(r, FileJob(f)) /\ FileJob(f) \notin r.jobIDs => Leased(JB[FileJob(f)])
  /\ r.step = "plan" => \A i \in DOMAIN r.plans : r.plans[i].job # FileJob(r.object)
  /\ \A i, k \in DOMAIN r.plans : r.plans[i].job = r.plans[k].job => i = k

(* The references before the current one have ended or are planned. *)
Handled(r, M, JB, P) ==
  \A i \in 1..(r.at - 1) : \E f \in Identities :
    /\ Answered(P, f, M.refs[i])
    /\ \/ JB[FileJob(f)].status \in TerminalJob
       \/ \E k \in DOMAIN r.plans : r.plans[k].job = FileJob(f)

NotificationInv(r, M, V, JB, P) ==
  /\ Pinned(r, M, V, P) /\ FilePlans(r, JB) /\ Handled(r, M, JB, P)

(* A request has one plan, with the files seen so far. *)
RequestInv(r, M) ==
  /\ r.step \in {"plan", "publish"} /\ r.object = NoIdentity
  /\ IF r.at = 1 THEN r.plans = <<>>
     ELSE /\ Len(r.plans) = 1 /\ r.plans[1].job = RequestJob(r.msg)
          /\ Len(r.plans[1].files) = r.at - 1
          /\ \A i \in 1..(r.at - 1) : r.plans[1].files[i].key = M.refs[i].key

(* The plans an invocation has persisted are sealed. *)
Persisted(r, JB) ==
  /\ r.step # "publish" => r.jobIDs = {}
  /\ \A j \in r.jobIDs : JB[j].sealed /\ \E i \in DOMAIN r.plans : r.plans[i].job = j

(* An invocation at work: on a message in flight, at one of its references. *)
Working(r, Q, V, JB, P) ==
  /\ r.step # "idle" /\ r.msg \in DOMAIN Q /\ Q[r.msg].state = "inflight"
  /\ IF r.step = "publish" THEN r.at = Len(Q[r.msg].refs) + 1
     ELSE r.at \in 1..Len(Q[r.msg].refs)
  /\ Persisted(r, JB)
  /\ IF Q[r.msg].kind = "notification" THEN NotificationInv(r, Q[r.msg], V, JB, P)
     ELSE RequestInv(r, Q[r.msg])

(* Two invocations have neither a message nor a lease in common. *)
Apart(r, s) ==
  /\ r.step # "idle" /\ s.step # "idle" => r.msg # s.msg
  /\ \A f \in Identities : ~(Held(r, FileJob(f)) /\ Held(s, FileJob(f)))

OrgInv ==
  /\ org \in [Invocations -> Invocation]
  /\ \A o \in Invocations : org[o] = Idle \/ Working(org[o], queue, versioning, job, puts)
  /\ \A o, p \in Invocations : o # p => Apart(org[o], org[p])

-----------------------------------------------------------------------------
LEMMA Greatest ==
  ASSUME NEW S, IsFiniteSet(S), S # {}, S \subseteq Nat
  PROVE  Max(S) \in S /\ \A x \in S : x <= Max(S)
<1> DEFINE T == {s \in SUBSET S : s = {} \/ \E n \in s : \A m \in s : m <= n}
<1>1. {} \in T
  OBVIOUS
<1>2. \A s \in SUBSET S : s \in T => \A x \in S \ s : s \cup {x} \in T
  <2> SUFFICES ASSUME NEW s \in SUBSET S, s \in T, NEW x \in S \ s
               PROVE  \E n \in s \cup {x} : \A m \in s \cup {x} : m <= n
    OBVIOUS
  <2>1. CASE s = {}
    BY <2>1
  <2>2. CASE s # {}
    <3>1. PICK n \in s : \A m \in s : m <= n
      BY <2>2
    <3>2. n \in Nat /\ x \in Nat /\ \A m \in s : m \in Nat
      OBVIOUS
    <3>3. CASE x <= n
      BY <3>1, <3>2, <3>3
    <3>4. CASE n <= x
      BY <3>1, <3>2, <3>4
    <3> QED BY <3>2, <3>3, <3>4
  <2> QED BY <2>1, <2>2
<1>3. S \in T
  <2> HIDE DEF T
  <2>1. SUBSET S \subseteq T
    BY <1>1, <1>2, FiniteSubsets, Zenon
  <2> QED BY <2>1
<1>4. PICK n \in S : \A m \in S : n >= m
  BY <1>3
<1>5. Max(S) \in S /\ \A m \in S : Max(S) >= m
  BY <1>4 DEF Max
<1>6. \A m \in S : m \in Nat
  OBVIOUS
<1> QED BY <1>5, <1>6

LEMMA ChunkNumbers ==
  /\ \E n \in Nat : Chunks = 1..n
  /\ \A x \in Contents : /\ SizeOf[x] \in Nat \ {0} /\ 1..SizeOf[x] \subseteq Chunks
                         /\ 1 \in Chunks
                         /\ IsFiniteSet(1..SizeOf[x])
                         /\ Cardinality(1..SizeOf[x]) = SizeOf[x]
  /\ IsFiniteSet(Ids) /\ Stray \notin Chunks /\ Gone \notin Contents
  /\ NoIdentity \notin Identities /\ \A f \in Identities : f.content \in Contents
<1> DEFINE S == {SizeOf[x] : x \in Contents}
<1>1. SizeOf \in [Contents -> Nat \ {0}] /\ IsFiniteSet(Contents) /\ Contents # {}
      /\ Gone \notin Contents
  BY ObjectConstants
<1>2. IsFiniteSet(S)
  <2> DEFINE g == [x \in Contents |-> SizeOf[x]]
  <2>1. g \in [Contents -> S] /\ \A y \in S : \E x \in Contents : g[x] = y
    OBVIOUS
  <2> HIDE DEF g, S
  <2>2. g \in Surjection(Contents, S)
    BY <2>1 DEF Surjection
  <2> QED BY <1>1, <2>2, FS_Surjection
<1>3. S # {} /\ S \subseteq Nat
  BY <1>1
<1>4. PICK n : n = Max(S)
  OBVIOUS
<1>5. n \in S /\ \A y \in S : y <= n
  <2> HIDE DEF S
  <2> QED BY <1>2, <1>3, <1>4, Greatest
<1>6. n \in Nat /\ Chunks = 1..n /\ \A x \in Contents : SizeOf[x] <= n
  BY <1>3, <1>4, <1>5 DEF Chunks
<1>7. ASSUME NEW x \in Contents
      PROVE  /\ SizeOf[x] \in Nat \ {0} /\ 1..SizeOf[x] \subseteq Chunks
             /\ 1 \in Chunks
             /\ IsFiniteSet(1..SizeOf[x])
             /\ Cardinality(1..SizeOf[x]) = SizeOf[x]
  <2> HIDE DEF S
  <2>1. SizeOf[x] \in Nat \ {0} /\ SizeOf[x] <= n
    BY <1>1, <1>6
  <2>2. 1..SizeOf[x] \subseteq 1..n /\ 1 \in 1..n
    BY <1>6, <2>1
  <2>3. IsFiniteSet(1..SizeOf[x]) /\ Cardinality(1..SizeOf[x]) = SizeOf[x]
    <3>1. PICK k : k = SizeOf[x]
      OBVIOUS
    <3>2. 1 \in Int /\ k \in Int /\ k >= 1
      BY <2>1, <3>1
    <3>3. /\ IsFiniteSet(1..k)
          /\ Cardinality(1..k) = IF 1 > k THEN 0 ELSE k - 1 + 1
      BY <3>2, FS_Interval, Zenon
    <3> QED BY <3>1, <3>2, <3>3
  <2> QED BY <1>6, <2>1, <2>2, <2>3
<1>8. IsFiniteSet(Ids)
  <2>1. IsFiniteSet(1..n)
    <3>1. 1 \in Int /\ n \in Int
      BY <1>6
    <3> QED BY <3>1, FS_Interval, Zenon
  <2> QED BY <1>6, <2>1, FS_AddElement DEF Ids
<1>9. Stray \notin Chunks
  BY <1>6 DEF Stray
<1>10. NoIdentity \notin Identities /\ \A f \in Identities : f.content \in Contents
  BY <1>1 DEF NoIdentity, Identities
<1> QED BY <1>1, <1>6, <1>7, <1>8, <1>9, <1>10

-----------------------------------------------------------------------------
(* One job: every write keeps it fit. *)
LEMMA RecordFields ==
  /\ NoJob \in JobRecord /\ NoItem \in ItemRecord
  /\ \A I : I \in [Ids -> ItemRecord] =>
       EndedOf(I) \subseteq PayloadsOf(I) /\ IsFiniteSet(EndedOf(I)) /\ IsFiniteSet(PayloadsOf(I))
       /\ Cardinality(EndedOf(I)) \in Nat /\ Cardinality(PayloadsOf(I)) \in Nat
<1>1. NoJob \in JobRecord /\ NoItem \in ItemRecord
  BY DEF NoJob, NoItem, JobRecord, ItemRecord
<1>2. ASSUME NEW I, I \in [Ids -> ItemRecord]
      PROVE  EndedOf(I) \subseteq PayloadsOf(I) /\ IsFiniteSet(EndedOf(I)) /\ IsFiniteSet(PayloadsOf(I))
             /\ Cardinality(EndedOf(I)) \in Nat /\ Cardinality(PayloadsOf(I)) \in Nat
  <2>1. EndedOf(I) \subseteq PayloadsOf(I) /\ PayloadsOf(I) \subseteq Ids /\ EndedOf(I) \subseteq Ids
    BY DEF EndedOf, PayloadsOf, TerminalChunk
  <2>2. IsFiniteSet(EndedOf(I)) /\ IsFiniteSet(PayloadsOf(I))
    BY <2>1, ChunkNumbers, FS_Subset
  <2> QED BY <2>1, <2>2, FS_CardinalityType
<1> QED BY <1>1, <1>2

LEMMA BlankFits ==
  LET I == [c \in Ids |-> NoItem] IN Fits(NoJob, I) /\ PayloadsOf(I) = {}
<1> DEFINE I == [c \in Ids |-> NoItem]
<1>1. I \in [Ids -> ItemRecord] /\ \A c \in Ids : I[c] = NoItem
  BY RecordFields
<1>2. \A c \in Ids : I[c].status = "ABSENT" /\ ~I[c].sent
  BY <1>1 DEF NoItem
<1>3. Stray \in Ids /\ \A c \in Chunks : c \in Ids
  BY DEF Ids
<1> HIDE DEF I
<1>4. PayloadsOf(I) = {}
  BY <1>2 DEF PayloadsOf
<1>5. NoJob.status = "ABSENT" /\ ~NoJob.sealed /\ NoJob.expected = 0
  BY DEF NoJob
<1>6. Unstarted(I) /\ OneContent(NoJob, I) /\ Counted(NoJob, I)
  BY <1>2, <1>3, <1>4, <1>5 DEF Unstarted, OneContent, Counted, TerminalJob, OpenForResults
<1>7. Fits(NoJob, I)
  BY <1>1, <1>2, <1>4, <1>5, <1>6, RecordFields DEF Fits
<1> QED BY <1>4, <1>7 DEF I

(* The JOB item of an admitted object. *)
AdmitRecord(J, f) == [J EXCEPT !.status = "PLANNING", !.lease = "held", !.file = f]

LEMMA AdmitFits ==
  ASSUME NEW J, NEW I, Fits(J, I), NEW f \in Identities, FileFits(f, J, I),
         J.status \in {"ABSENT", "PLANNING"}, NEW K, K = AdmitRecord(J, f)
  PROVE  /\ Fits(K, I) /\ FileFits(f, K, I)
         /\ K.status = "PLANNING" /\ K.lease = "held" /\ K.file = f
<1>1. J \in JobRecord /\ ~J.sealed
  BY DEF Fits
<1>2. /\ K \in JobRecord /\ K.status = "PLANNING" /\ K.lease = "held" /\ K.file = f
      /\ ~K.sealed /\ K.expected = J.expected
  BY <1>1 DEF JobRecord, AdmitRecord
<1>3. OneContent(K, I)
  <2>1. J.status = "ABSENT" => PayloadsOf(I) = {}
    BY DEF Fits
  <2>2. J.status = "PLANNING" => J.file = f
    BY DEF FileFits
  <2>3. f # NoIdentity
    BY ChunkNumbers
  <2>4. OneContent(J, I)
    BY DEF Fits
  <2> QED BY <1>2, <2>1, <2>2, <2>3, <2>4 DEF OneContent
<1>4. Counted(K, I)
  BY <1>2 DEF Counted, TerminalJob, OpenForResults
<1>5. Fits(K, I)
  BY <1>1, <1>2, <1>3, <1>4 DEF Fits
<1>6. FileFits(f, K, I)
  BY <1>2 DEF FileFits, Planned
<1> QED BY <1>2, <1>5, <1>6

LEMMA ExpiryFits ==
  ASSUME NEW J, NEW I, Fits(J, I)
  PROVE  LET K == [J EXCEPT !.lease = "expired"] IN
         /\ Fits(K, I)
         /\ K.status = J.status /\ K.file = J.file /\ K.expected = J.expected
         /\ K.sealed = J.sealed
<1> DEFINE K == [J EXCEPT !.lease = "expired"]
<1>1. J \in JobRecord
  BY DEF Fits
<1>2. /\ K \in JobRecord /\ K.status = J.status /\ K.file = J.file
      /\ K.expected = J.expected /\ K.sealed = J.sealed
  BY <1>1 DEF JobRecord
<1> HIDE DEF K
<1>3. Fits(K, I)
  BY <1>2 DEF Fits, OneContent, Counted
<1> QED BY <1>2, <1>3 DEF K

(* The JOB item and the CHUNK items after a Plan that wrote the first k     *)
(* chunks, and sealed the manifest or not.                                  *)
PlanRecord(J, f, n, seal) ==
  [J EXCEPT !.file = f, !.expected = n,
            !.status = IF @ = "ABSENT" \/ (seal /\ ~J.sealed) THEN "PENDING" ELSE @,
            !.sealed = @ \/ seal]
PlanItems(I, f, k) ==
  [c \in Ids |-> IF c \in 1..k /\ I[c].status = "ABSENT"
                   THEN [NoItem EXCEPT !.status = "PENDING", !.file = f]
                   ELSE I[c]]

LEMMA NewItem ==
  ASSUME NEW f \in Identities, NEW q, q = [NoItem EXCEPT !.status = "PENDING", !.file = f]
  PROVE  q \in ItemRecord /\ q.status = "PENDING" /\ q.file = f /\ ~q.sent
<1>1. q \in ItemRecord /\ q.status = "PENDING" /\ q.file = f /\ q.sent = FALSE
  BY DEF NoItem, ItemRecord
<1> QED BY <1>1

LEMMA PlanFits ==
  ASSUME NEW J, NEW I, Fits(J, I), NEW f \in Identities, NEW n \in Nat, NEW seal \in BOOLEAN,
         n >= SizeOf[f.content], NEW k \in 0..SizeOf[f.content],
         seal => k = SizeOf[f.content],
         J.status # "ABSENT" => J.file = f /\ J.expected \in {0, n},
         Planned(f.content, n, J, I),
         NEW K, K = PlanRecord(J, f, n, seal), NEW L, L = PlanItems(I, f, k)
  PROVE  /\ Fits(K, L) /\ Planned(f.content, n, K, L)
         /\ K.file = f /\ K.expected = n /\ K.sealed = (J.sealed \/ seal)
         /\ K.status \in {"PENDING", J.status} /\ K.status # "ABSENT"
         /\ K.status = "PLANNING" => ~seal
         /\ J.status = "PLANNING" /\ ~seal => K.status = "PLANNING" /\ K.lease = J.lease
         /\ J.status \in TerminalJob => K.status = J.status
         /\ \A c \in Ids : L[c].sent = I[c].sent
<1> DEFINE P == 1..SizeOf[f.content]
<1>1. /\ P \subseteq Chunks /\ P # {} /\ SizeOf[f.content] \in Nat \ {0}
      /\ f # NoIdentity /\ f.content \in Contents
      /\ Stray \notin P /\ P \subseteq Ids /\ Stray \in Ids /\ Chunks \subseteq Ids
      /\ 1..k \subseteq P
  BY ChunkNumbers DEF Ids
<1>2. /\ J \in JobRecord /\ I \in [Ids -> ItemRecord]
      /\ (J.sealed => J.status \notin {"ABSENT", "PLANNING"} /\ J.expected = n /\ PayloadsOf(I) = P)
      /\ PayloadsOf(I) \subseteq P
  BY DEF Fits, Planned
<1>3. /\ K \in JobRecord /\ K.file = f /\ K.expected = n /\ K.sealed = (J.sealed \/ seal)
      /\ K.status = (IF J.status = "ABSENT" \/ (seal /\ ~J.sealed) THEN "PENDING" ELSE J.status)
      /\ K.lease = J.lease
  BY <1>2 DEF JobRecord, PlanRecord
<1>4. \A c \in Ids : /\ L[c] \in ItemRecord /\ L[c].sent = I[c].sent
                     /\ c \in 1..k /\ I[c].status = "ABSENT" =>
                          L[c].status = "PENDING" /\ L[c].file = f
                     /\ ~(c \in 1..k /\ I[c].status = "ABSENT") => L[c] = I[c]
  <2> SUFFICES ASSUME NEW c \in Ids
               PROVE /\ L[c] \in ItemRecord /\ L[c].sent = I[c].sent
                     /\ c \in 1..k /\ I[c].status = "ABSENT" =>
                          L[c].status = "PENDING" /\ L[c].file = f
                     /\ ~(c \in 1..k /\ I[c].status = "ABSENT") => L[c] = I[c]
    OBVIOUS
  <2>1. I[c] \in ItemRecord
    BY <1>2
  <2>2. CASE c \in 1..k /\ I[c].status = "ABSENT"
    <3>1. L[c] = [NoItem EXCEPT !.status = "PENDING", !.file = f]
      BY <2>2 DEF PlanItems
    <3>2. L[c] \in ItemRecord /\ L[c].status = "PENDING" /\ L[c].file = f /\ ~L[c].sent
      BY <3>1, NewItem
    <3>3. ~I[c].sent
      <4>1. c \in P /\ c \notin PayloadsOf(I)
        BY <2>2, <1>1 DEF PayloadsOf
      <4>2. ~J.sealed
        BY <4>1, <1>2
      <4> QED BY <4>2 DEF Fits
    <3>4. L[c].sent \in BOOLEAN /\ I[c].sent \in BOOLEAN
      BY <2>1, <3>2 DEF ItemRecord
    <3> QED BY <2>2, <3>2, <3>3, <3>4
  <2>3. CASE ~(c \in 1..k /\ I[c].status = "ABSENT")
    BY <2>1, <2>3 DEF PlanItems
  <2> QED BY <2>2, <2>3
<1> HIDE DEF P
<1>5. L \in [Ids -> ItemRecord]
  BY <1>4 DEF PlanItems
<1>6. \A c \in Ids : \/ L[c] = I[c]
                     \/ I[c].status = "ABSENT" /\ L[c].status = "PENDING" /\ c \in 1..k
  BY <1>4
<1>7. PayloadsOf(L) \subseteq P /\ (seal => PayloadsOf(L) = P) /\ (PayloadsOf(I) = P => PayloadsOf(L) = P)
  <2>1. \A c \in Ids : L[c].status # "ABSENT" => c \in P
    BY <1>1, <1>2, <1>6 DEF PayloadsOf
  <2>2. seal => \A c \in P : L[c].status # "ABSENT"
    BY <1>1, <1>4 DEF P
  <2>3. PayloadsOf(I) = P => \A c \in P : L[c].status # "ABSENT"
    BY <1>1, <1>6 DEF PayloadsOf
  <2> QED BY <1>1, <2>1, <2>2, <2>3 DEF PayloadsOf
<1>8. Planned(f.content, n, K, L)
  BY <1>2, <1>3, <1>7 DEF Planned, P
<1>9. EndedOf(L) = EndedOf(I) /\ \A c \in EndedOf(I) : L[c] = I[c]
  <2>1. \A c \in Ids : L[c].status \in TerminalChunk <=> I[c].status \in TerminalChunk
    BY <1>6 DEF TerminalChunk
  <2>2. \A c \in EndedOf(I) : c \in Ids /\ I[c].status # "ABSENT"
    BY DEF EndedOf, TerminalChunk
  <2> QED BY <1>6, <2>1, <2>2 DEF EndedOf
<1>10. Unstarted(L)
  <2>1. Unstarted(I)
    BY DEF Fits
  <2> QED BY <1>1, <1>4, <1>6, <2>1 DEF Unstarted
<1>11. OneContent(K, L)
  <2>1. OneContent(J, I)
    BY DEF Fits
  <2>2. \A c \in PayloadsOf(I) \ {Stray} : I[c].file = f
    <3>1. J.status = "ABSENT" => PayloadsOf(I) = {}
      BY DEF Fits
    <3> QED BY <1>1, <2>1, <3>1 DEF OneContent
  <2>3. \A c \in PayloadsOf(L) \ {Stray} : L[c].file = f
    <3> SUFFICES ASSUME NEW c \in PayloadsOf(L) \ {Stray} PROVE L[c].file = f
      OBVIOUS
    <3>1. c \in Ids /\ L[c].status # "ABSENT"
      BY DEF PayloadsOf
    <3>2. CASE c \in 1..k /\ I[c].status = "ABSENT"
      BY <3>1, <3>2, <1>4
    <3>3. CASE ~(c \in 1..k /\ I[c].status = "ABSENT")
      <4>1. L[c] = I[c]
        BY <3>1, <3>3, <1>4
      <4>2. c \in PayloadsOf(I) \ {Stray}
        BY <3>1, <4>1 DEF PayloadsOf
      <4> QED BY <4>1, <4>2, <2>2
    <3> QED BY <3>2, <3>3
  <2>4. \A c \in Chunks : L[c].status = "COMPLETED" => L[c].read = L[c].file.content
    <3> SUFFICES ASSUME NEW c \in Chunks, L[c].status = "COMPLETED"
                 PROVE  L[c].read = L[c].file.content
      OBVIOUS
    <3>1. L[c] = I[c]
      BY <1>1, <1>6
    <3> QED BY <2>1, <3>1 DEF OneContent
  <2> QED BY <1>3, <2>3, <2>4 DEF OneContent
<1>12. Counted(K, L)
  <2>1. Counted(J, I)
    BY DEF Fits
  <2>2. CASE J.sealed
    <3>1. J.status = K.status /\ K.sealed /\ K.expected = J.expected
      BY <2>2, <1>2, <1>3
    <3> QED BY <2>1, <2>2, <3>1, <1>9 DEF Counted
  <2>3. CASE ~J.sealed
    <3>1. EndedOf(I) = {}
      <4>1. \A c \in Ids : I[c].status \in {"ABSENT", "PENDING"}
        BY <2>3 DEF Fits, Unstarted
      <4> QED BY <4>1 DEF EndedOf, TerminalChunk
    <3>2. Cardinality(EndedOf(L)) = 0 /\ n > 0 /\ EndedOf(L) = {}
      BY <3>1, <1>1, <1>9, FS_EmptySet
    <3>3. K.status \notin TerminalJob
      BY <2>1, <2>3, <1>3 DEF Counted, TerminalJob
    <3> QED BY <3>2, <3>3, <1>3 DEF Counted, TerminalJob
  <2> QED BY <2>2, <2>3
<1>13. K.status \in {"PENDING", J.status} /\ K.status # "ABSENT" /\ (K.status = "PLANNING" => ~seal)
  BY <1>2, <1>3
<1>14. ~K.sealed => \A c \in Ids : ~L[c].sent
  BY <1>3, <1>4 DEF Fits
<1>15. K.status = "PLANNING" => ~K.sealed
  BY <1>2, <1>3
<1>16. Fits(K, L)
  BY <1>3, <1>5, <1>10, <1>11, <1>12, <1>13, <1>14, <1>15 DEF Fits
<1>17. J.status \in TerminalJob => K.status = J.status
  <2>1. J.status \in TerminalJob => J.sealed /\ J.status # "ABSENT"
    BY DEF Fits, Counted, TerminalJob
  <2> QED BY <1>3, <2>1
<1>18. J.status = "PLANNING" /\ ~seal => K.status = "PLANNING" /\ K.lease = J.lease
  BY <1>3
<1> QED BY <1>3, <1>4, <1>8, <1>13, <1>16, <1>17, <1>18

(* One chunk is sent, started, retried or ended. *)
ItemStep(I, c, L) ==
  /\ L \in [Ids -> ItemRecord] /\ \A d \in Ids \ {c} : L[d] = I[d]
  /\ L[c].file = I[c].file /\ (I[c].sent => L[c].sent)
  /\ I[c].status # "ABSENT" /\ L[c].status # "ABSENT"

LEMMA ItemStepFacts ==
  ASSUME NEW J, NEW I, Fits(J, I), NEW c \in Ids, NEW L, ItemStep(I, c, L)
  PROVE  /\ PayloadsOf(L) = PayloadsOf(I)
         /\ \A d \in Ids : L[d].file = I[d].file /\ (I[d].sent => L[d].sent)
         /\ (c \in Chunks /\ L[c].status = "COMPLETED" => L[c].read = L[c].file.content) =>
              OneContent(J, L)
         /\ (L[c].sent \/ L[c].status \in {"ABSENT", "PENDING"}) /\ (c = Stray => L[c].status = "PENDING")
              => Unstarted(L)
<1>1. /\ J \in JobRecord /\ I \in [Ids -> ItemRecord] /\ L \in [Ids -> ItemRecord]
      /\ (\A d \in Ids \ {c} : L[d] = I[d]) /\ L[c].file = I[c].file /\ (I[c].sent => L[c].sent)
      /\ I[c].status # "ABSENT" /\ L[c].status # "ABSENT"
  BY DEF Fits, ItemStep
<1>2. \A d \in Ids : L[d].file = I[d].file /\ (I[d].sent => L[d].sent)
  BY <1>1
<1>3. PayloadsOf(L) = PayloadsOf(I)
  <2>1. \A d \in Ids : L[d].status # "ABSENT" <=> I[d].status # "ABSENT"
    BY <1>1
  <2> QED BY <2>1 DEF PayloadsOf
<1>4. ASSUME c \in Chunks /\ L[c].status = "COMPLETED" => L[c].read = L[c].file.content
      PROVE  OneContent(J, L)
  <2>1. OneContent(J, I)
    BY DEF Fits
  <2>2. \A d \in PayloadsOf(I) : d \in Ids
    BY DEF PayloadsOf
  <2>3. \A d \in Chunks : L[d].status = "COMPLETED" => L[d].read = L[d].file.content
    <3> SUFFICES ASSUME NEW d \in Chunks, L[d].status = "COMPLETED"
                 PROVE  L[d].read = L[d].file.content
      OBVIOUS
    <3>1. CASE d = c
      BY <3>1, <1>4
    <3>2. CASE d # c
      <4>1. L[d] = I[d]
        BY <3>2, <1>1 DEF Ids
      <4> QED BY <4>1, <2>1 DEF OneContent
    <3> QED BY <3>1, <3>2
  <2>4. \A d, e \in PayloadsOf(L) \ {Stray} : L[d].file = L[e].file
    BY <1>2, <1>3, <2>1, <2>2 DEF OneContent
  <2>5. J.file # NoIdentity => \A d \in PayloadsOf(L) \ {Stray} : L[d].file = J.file
    BY <1>2, <1>3, <2>1, <2>2 DEF OneContent
  <2> QED BY <2>3, <2>4, <2>5 DEF OneContent
<1>5. ASSUME L[c].sent \/ L[c].status \in {"ABSENT", "PENDING"}, c = Stray => L[c].status = "PENDING"
      PROVE  Unstarted(L)
  <2>1. Unstarted(I)
    BY DEF Fits
  <2>2. Stray \in Ids
    BY DEF Ids
  <2> QED BY <1>1, <1>5, <2>1, <2>2 DEF Unstarted
<1> QED BY <1>2, <1>3, <1>4, <1>5

(* A step of a chunk that has not ended and does not end. *)
LEMMA MoveFits ==
  ASSUME NEW J, NEW I, Fits(J, I), J.sealed, NEW c \in Ids, NEW L, ItemStep(I, c, L),
         I[c].status \notin TerminalChunk, L[c].status \notin TerminalChunk,
         L[c].sent \/ L[c].status \in {"ABSENT", "PENDING"}, c = Stray => L[c].status = "PENDING"
  PROVE  Fits(J, L) /\ PayloadsOf(L) = PayloadsOf(I) /\ \A d \in Ids : I[d].sent => L[d].sent
<1>1. /\ PayloadsOf(L) = PayloadsOf(I) /\ (\A d \in Ids : I[d].sent => L[d].sent)
      /\ OneContent(J, L) /\ Unstarted(L)
  BY ItemStepFacts DEF TerminalChunk
<1>2. EndedOf(L) = EndedOf(I) /\ \A d \in EndedOf(I) : L[d] = I[d]
  <2>1. \A d \in Ids : L[d].status \in TerminalChunk <=> I[d].status \in TerminalChunk
    BY DEF ItemStep
  <2>2. \A d \in EndedOf(I) : d \in Ids \ {c}
    BY DEF EndedOf
  <2> QED BY <2>1, <2>2 DEF EndedOf, ItemStep
<1>3. Counted(J, L)
  BY <1>2 DEF Fits, Counted
<1>4. Fits(J, L)
  BY <1>1, <1>3 DEF Fits, ItemStep
<1> QED BY <1>1, <1>4

(* One chunk ends, and the job with its last one. *)
LEMMA FinishFits ==
  ASSUME NEW J, NEW I, Fits(J, I), NEW c \in Chunks, J.status \in OpenForResults,
         I[c].status = "RUNNING", NEW L, ItemStep(I, c, L),
         NEW s \in {"COMPLETED", "FAILED"}, L[c].status = s,
         s = "COMPLETED" => L[c].read = I[c].file.content,
         NEW K \in JobRecord, K.file = J.file, K.expected = J.expected, K.sealed = J.sealed,
         K.status = (IF ~J.sealed \/ Cardinality(EndedOf(I)) + 1 < J.expected THEN "RUNNING"
           ELSE IF s = "FAILED" \/ \E d \in EndedOf(I) : I[d].status = "FAILED"
             THEN "FAILED" ELSE "COMPLETED")
  PROVE  /\ Fits(K, L) /\ PayloadsOf(L) = PayloadsOf(I) /\ \A d \in Ids : I[d].sent => L[d].sent
         /\ K.status \in {"RUNNING", "COMPLETED", "FAILED"}
<1>1. /\ J \in JobRecord /\ I \in [Ids -> ItemRecord] /\ L \in [Ids -> ItemRecord]
      /\ c \in Ids /\ c # Stray /\ I[c].sent /\ J.sealed
  BY ChunkNumbers DEF Fits, Ids, ItemStep, Unstarted
<1>2. /\ PayloadsOf(L) = PayloadsOf(I) /\ (\A d \in Ids : I[d].sent => L[d].sent)
      /\ OneContent(J, L) /\ Unstarted(L)
  <2>1. L[c].file = I[c].file /\ L[c].sent
    BY <1>1 DEF ItemStep
  <2>2. c \in Chunks /\ L[c].status = "COMPLETED" => L[c].read = L[c].file.content
    BY <2>1
  <2> QED BY <1>1, <2>1, <2>2, ItemStepFacts
<1> DEFINE N == Cardinality(EndedOf(I))
<1>3. N \in Nat /\ J.expected \in Nat /\ IsFiniteSet(EndedOf(I))
  BY <1>1, RecordFields DEF JobRecord
<1>4. K.status = (IF N + 1 < J.expected THEN "RUNNING"
           ELSE IF s = "FAILED" \/ \E d \in EndedOf(I) : I[d].status = "FAILED"
             THEN "FAILED" ELSE "COMPLETED")
  BY <1>1
<1>5. EndedOf(L) = EndedOf(I) \cup {c} /\ c \notin EndedOf(I)
  <2>1. \A d \in Ids \ {c} : L[d].status = I[d].status
    BY DEF ItemStep
  <2>2. L[c].status \in TerminalChunk /\ I[c].status \notin TerminalChunk
    BY DEF TerminalChunk
  <2> QED BY <1>1, <2>1, <2>2 DEF EndedOf
<1>6. Cardinality(EndedOf(L)) = N + 1
  <2>1. Cardinality(EndedOf(I) \cup {c}) = Cardinality(EndedOf(I)) + 1
    BY ONLY <1>3, <1>5, FS_AddElement
  <2> QED BY ONLY <1>5, <2>1 DEF N
<1> HIDE DEF N
<1>7. K.status \in {"RUNNING", "COMPLETED", "FAILED"}
  BY <1>4
<1>8. Counted(K, L)
  <2>1. K.status \in OpenForResults => Cardinality(EndedOf(L)) < K.expected
    BY <1>3, <1>4, <1>6 DEF OpenForResults
  <2>2. K.status \in TerminalJob => K.sealed /\ Cardinality(EndedOf(L)) >= K.expected
    BY <1>1, <1>3, <1>4, <1>6 DEF TerminalJob
  <2>3. ASSUME K.status = "COMPLETED", NEW d \in EndedOf(L) PROVE L[d].status = "COMPLETED"
    <3>1. s = "COMPLETED" /\ \A e \in EndedOf(I) : I[e].status # "FAILED"
      BY <1>4, <2>3
    <3>2. CASE d = c
      BY <3>1, <3>2
    <3>3. CASE d # c
      <4>1. d \in EndedOf(I) /\ d \in Ids \ {c}
        BY <2>3, <3>3, <1>5 DEF EndedOf
      <4>2. L[d] = I[d] /\ I[d].status \in {"COMPLETED", "FAILED"}
        BY <4>1 DEF ItemStep, EndedOf, TerminalChunk
      <4> QED BY <3>1, <4>1, <4>2
    <3> QED BY <3>2, <3>3
  <2> QED BY <2>1, <2>2, <2>3 DEF Counted
<1>9. OneContent(K, L)
  BY <1>2 DEF OneContent
<1>10. Fits(K, L)
  BY <1>1, <1>2, <1>7, <1>8, <1>9 DEF Fits
<1> QED BY <1>2, <1>7, <1>10

LEMMA Least ==
  ASSUME NEW S, S # {}, S \subseteq Nat
  PROVE  Min(S) \in S
  BY LeastNatural DEF Min

LEMMA ReplayCounts ==
  ASSUME NEW S, IsFiniteSet(S), S \subseteq Chunks, NEW n \in Nat, Cardinality(S) + n > 0
  PROVE  /\ Cardinality(S) + n \in Nat /\ (n > 0 \/ n = 0)
         /\ n = 0 => Min(S) \in S
<1>1. Cardinality(S) \in Nat
  BY FS_CardinalityType
<1>2. S # {} \/ Cardinality(S) = 0
  BY FS_EmptySet
<1>3. n = 0 => S # {}
  BY <1>1, <1>2
<1>4. S \subseteq Nat
  <2>1. PICK k \in Nat : Chunks = 1..k
    BY ChunkNumbers
  <2>2. 1..k \subseteq Nat
    OBVIOUS
  <2> QED BY <2>1, <2>2
<1>5. S # {} => Min(S) \in S
  BY <1>4, Least, Zenon
<1> QED BY <1>1, <1>3, <1>5

(* What Replay writes. *)
ReplayRecord(I, chunks, strays) ==
  [NoJob EXCEPT !.status = "PENDING", !.sealed = TRUE,
                !.expected = Cardinality(chunks) + strays,
                !.file = IF strays > 0 THEN NoIdentity ELSE I[Min(chunks)].file]
ReplayItems(I, Old, chunks, strays) ==
  [c \in Ids |->
     IF c \in chunks \/ (c = Stray /\ strays > 0)
       THEN [NoItem EXCEPT !.status = "PENDING", !.sent = TRUE, !.file = I[c].file]
       ELSE Old[c]]

LEMMA SentItem ==
  ASSUME NEW g \in Identities \cup {NoIdentity}, NEW q,
         q = [NoItem EXCEPT !.status = "PENDING", !.sent = TRUE, !.file = g]
  PROVE  q \in ItemRecord /\ q.status = "PENDING" /\ q.sent /\ q.file = g
  BY DEF NoItem, ItemRecord

LEMMA ReplayedFits ==
  ASSUME NEW J, NEW I, Fits(J, I), NEW Old, Old \in [Ids -> ItemRecord],
         PayloadsOf(Old) = {},
         NEW chunks, chunks \subseteq PayloadsOf(I) \ {Stray}, NEW strays \in Nat,
         Cardinality(chunks) + strays > 0,
         NEW K, K = ReplayRecord(I, chunks, strays),
         NEW L, L = ReplayItems(I, Old, chunks, strays)
  PROVE  /\ Fits(K, L) /\ K.status = "PENDING" /\ K.sealed
         /\ PayloadsOf(L) \ {Stray} = chunks
         /\ Stray \in PayloadsOf(L) <=> strays > 0
         /\ K.expected = Cardinality(chunks) + strays /\ Cardinality(chunks) \in Nat
<1>1. /\ J \in JobRecord /\ I \in [Ids -> ItemRecord] /\ chunks \subseteq Ids
      /\ Stray \in Ids /\ Stray \notin chunks /\ chunks \subseteq Chunks
  BY DEF Fits, PayloadsOf, Ids
<1>2. IsFiniteSet(chunks) /\ Cardinality(chunks) \in Nat
  BY <1>1, ChunkNumbers, FS_Subset, FS_CardinalityType
<1> DEFINE N == Cardinality(chunks) + strays
<1>3. N \in Nat /\ N > 0 /\ (strays > 0 \/ strays = 0)
  BY <1>1, <1>2, ReplayCounts
<1>4. strays = 0 => Min(chunks) \in chunks
  BY <1>1, <1>2, ReplayCounts
<1> HIDE DEF N
<1>5. /\ K \in JobRecord /\ K.status = "PENDING" /\ K.sealed /\ K.expected = N
      /\ K.file = IF strays > 0 THEN NoIdentity ELSE I[Min(chunks)].file
  <2>1. PICK g : g = IF strays > 0 THEN NoIdentity ELSE I[Min(chunks)].file
    OBVIOUS
  <2>2. g \in Identities \cup {NoIdentity}
    <3>1. CASE strays > 0
      BY <2>1, <3>1
    <3>2. CASE strays = 0
      <4>1. I[Min(chunks)] \in ItemRecord
        BY <3>2, <1>1, <1>4
      <4> QED BY <2>1, <3>2, <4>1 DEF ItemRecord
    <3> QED BY <3>1, <3>2, <1>3
  <2>3. K = [NoJob EXCEPT !.status = "PENDING", !.sealed = TRUE, !.expected = N, !.file = g]
    BY <2>1 DEF N, ReplayRecord
  <2> QED BY <2>1, <2>2, <2>3, <1>3 DEF NoJob, JobRecord
<1>6. \A c \in Ids : /\ L[c] \in ItemRecord
                     /\ c \in chunks \/ (c = Stray /\ strays > 0) =>
                          L[c].status = "PENDING" /\ L[c].sent /\ L[c].file = I[c].file
                     /\ ~(c \in chunks \/ (c = Stray /\ strays > 0)) => L[c].status = "ABSENT"
  <2> SUFFICES ASSUME NEW c \in Ids
               PROVE /\ L[c] \in ItemRecord
                     /\ c \in chunks \/ (c = Stray /\ strays > 0) =>
                          L[c].status = "PENDING" /\ L[c].sent /\ L[c].file = I[c].file
                     /\ ~(c \in chunks \/ (c = Stray /\ strays > 0)) => L[c].status = "ABSENT"
    OBVIOUS
  <2>1. CASE c \in chunks \/ (c = Stray /\ strays > 0)
    <3>1. L[c] = [NoItem EXCEPT !.status = "PENDING", !.sent = TRUE, !.file = I[c].file]
      BY <2>1 DEF ReplayItems
    <3>2. I[c] \in ItemRecord
      BY <1>1
    <3>3. I[c].file \in Identities \cup {NoIdentity}
      BY <3>2 DEF ItemRecord
    <3>4. PICK g \in Identities \cup {NoIdentity} : g = I[c].file
      BY <3>3
    <3>5. L[c] = [NoItem EXCEPT !.status = "PENDING", !.sent = TRUE, !.file = g]
      BY <3>1, <3>4
    <3>6. L[c] \in ItemRecord /\ L[c].status = "PENDING" /\ L[c].sent /\ L[c].file = g
      BY <3>5, SentItem
    <3> QED BY <2>1, <3>4, <3>6
  <2>2. CASE ~(c \in chunks \/ (c = Stray /\ strays > 0))
    <3>1. L[c] = Old[c] /\ Old[c] \in ItemRecord
      BY <2>2 DEF ReplayItems
    <3>2. Old[c].status = "ABSENT"
      BY DEF PayloadsOf
    <3> QED BY <2>2, <3>1, <3>2
  <2> QED BY <2>1, <2>2
<1>7. L \in [Ids -> ItemRecord]
  BY <1>6 DEF ReplayItems
<1>8. \A c \in Ids : c \in PayloadsOf(L) <=> c \in chunks \/ (c = Stray /\ strays > 0)
  BY <1>6 DEF PayloadsOf
<1>9. /\ PayloadsOf(L) \ {Stray} = chunks /\ (Stray \in PayloadsOf(L) <=> strays > 0)
      /\ PayloadsOf(L) \subseteq Ids
  <2>1. PayloadsOf(L) \subseteq Ids
    BY DEF PayloadsOf
  <2> QED BY <1>1, <1>8, <2>1
<1>10. EndedOf(L) = {}
  BY <1>6 DEF EndedOf, TerminalChunk
<1>11. Cardinality(EndedOf(L)) < K.expected
  BY <1>3, <1>5, <1>10, FS_EmptySet
<1>14. \A c \in PayloadsOf(L) \ {Stray} : L[c].file = I[c].file /\ c \in PayloadsOf(I) \ {Stray}
  BY <1>1, <1>6, <1>9
<1>15. \A c, d \in PayloadsOf(I) \ {Stray} : I[c].file = I[d].file
  BY DEF Fits, OneContent
<1>16. \A c, d \in PayloadsOf(L) \ {Stray} : L[c].file = L[d].file
  <2> SUFFICES ASSUME NEW c \in PayloadsOf(L) \ {Stray}, NEW d \in PayloadsOf(L) \ {Stray}
               PROVE  L[c].file = L[d].file
    OBVIOUS
  <2>1. /\ L[c].file = I[c].file /\ c \in PayloadsOf(I) \ {Stray}
        /\ L[d].file = I[d].file /\ d \in PayloadsOf(I) \ {Stray}
    BY <1>14
  <2> QED BY <2>1, <1>15
<1>17. K.file # NoIdentity => \A c \in PayloadsOf(L) \ {Stray} : L[c].file = K.file
  <2> SUFFICES ASSUME K.file # NoIdentity, NEW c \in PayloadsOf(L) \ {Stray}
               PROVE  L[c].file = K.file
    OBVIOUS
  <2>1. strays = 0 /\ K.file = I[Min(chunks)].file
    BY <1>3, <1>5
  <2>2. Min(chunks) \in PayloadsOf(I) \ {Stray}
    BY <2>1, <1>4
  <2> QED BY <2>1, <2>2, <1>14, <1>15
<1>18. L[Stray].status \in {"ABSENT", "PENDING"}
  BY <1>1, <1>6
<1>19. \A c \in Chunks : L[c].status # "COMPLETED"
  BY <1>6 DEF Ids
<1>20. OneContent(K, L)
  BY <1>16, <1>17, <1>19 DEF OneContent
<1>21. Unstarted(L)
  <2>1. \A c \in Ids : L[c].status \in {"ABSENT", "PENDING"}
    BY <1>6
  <2> QED BY <1>18, <2>1 DEF Unstarted
<1>22. Counted(K, L)
  BY <1>5, <1>11 DEF Counted, TerminalJob
<1>23. Fits(K, L)
  BY <1>5, <1>7, <1>20, <1>21, <1>22 DEF Fits
<1> QED BY <1>2, <1>5, <1>9, <1>23 DEF N

-----------------------------------------------------------------------------
(* The jobs together. *)

LEMMA JobIds ==
  /\ \A f \in Identities : FileJob(f) \in Jobs
  /\ \A m \in 1..MaxMessages : RequestJob(m) \in Jobs
  /\ \A n \in 1..MaxReplays : ReplayJob(n) \in Jobs
  /\ \A j \in Jobs : \/ \E f \in Identities : j = FileJob(f)
                     \/ \E m \in 1..MaxMessages : j = RequestJob(m)
                     \/ \E n \in 1..MaxReplays : j = ReplayJob(n)
  /\ \A f, g : (FileJob(f) = FileJob(g) => f = g)
               /\ (RequestJob(f) = RequestJob(g) => f = g)
               /\ (ReplayJob(f) = ReplayJob(g) => f = g)
  /\ \A f, g : FileJob(f) # RequestJob(g) /\ FileJob(f) # ReplayJob(g)
               /\ RequestJob(f) # ReplayJob(g)
  BY DEF Jobs, FileJob, RequestJob, ReplayJob

(* A step of a job after its plan, or none: what identifies it stays. *)
SameShape(J, I, K, L) ==
  /\ K.file = J.file /\ K.expected = J.expected /\ K.sealed = J.sealed
  /\ PayloadsOf(L) = PayloadsOf(I)
  /\ K.status = J.status \/ {J.status, K.status} \cap {"ABSENT", "PLANNING"} = {}

KeptRequests ==
  \A m \in DOMAIN queue :
    /\ m \in DOMAIN queue' /\ queue'[m].kind = queue[m].kind
    /\ queue[m].kind = "request" => queue'[m].refs = queue[m].refs

LEMMA JobsKept ==
  ASSUME JobsInv, KeptRequests,
         job' \in [Jobs -> JobRecord], item' \in [Jobs -> [Ids -> ItemRecord]],
         \A j \in Jobs : Fits(job'[j], item'[j]),
         \A f \in Identities :
           \/ SameShape(job[FileJob(f)], item[FileJob(f)], job'[FileJob(f)], item'[FileJob(f)])
           \/ FileFits(f, job'[FileJob(f)], item'[FileJob(f)]),
         \A m \in 1..MaxMessages :
           \/ SameShape(job[RequestJob(m)], item[RequestJob(m)],
                        job'[RequestJob(m)], item'[RequestJob(m)])
           \/ /\ m \in DOMAIN queue'
              /\ RequestFits(queue'[m], job'[RequestJob(m)], item'[RequestJob(m)]),
         \A n \in 1..MaxReplays :
           \/ /\ n \in DOMAIN replays' <=> n \in DOMAIN replays
              /\ n \in DOMAIN replays => replays'[n] = replays[n]
              /\ SameShape(job[ReplayJob(n)], item[ReplayJob(n)],
                           job'[ReplayJob(n)], item'[ReplayJob(n)])
           \/ /\ n \in DOMAIN replays'
              /\ ReplayFits(replays'[n], job'[ReplayJob(n)], item'[ReplayJob(n)])
  PROVE  JobsInv'
<1>1. ASSUME NEW f \in Identities
      PROVE  FileFits(f, job'[FileJob(f)], item'[FileJob(f)])
  <2>1. FileFits(f, job[FileJob(f)], item[FileJob(f)])
    BY DEF JobsInv
  <2>2. CASE SameShape(job[FileJob(f)], item[FileJob(f)], job'[FileJob(f)], item'[FileJob(f)])
    BY <2>1, <2>2 DEF FileFits, SameShape, Planned
  <2> QED BY <2>2
<1>2. ASSUME NEW m \in 1..MaxMessages, job'[RequestJob(m)].status # "ABSENT"
      PROVE  /\ m \in DOMAIN queue'
             /\ RequestFits(queue'[m], job'[RequestJob(m)], item'[RequestJob(m)])
  <2>1. CASE SameShape(job[RequestJob(m)], item[RequestJob(m)],
                       job'[RequestJob(m)], item'[RequestJob(m)])
    <3>1. job[RequestJob(m)].status # "ABSENT"
      BY <1>2, <2>1 DEF SameShape
    <3>2. m \in DOMAIN queue /\ RequestFits(queue[m], job[RequestJob(m)], item[RequestJob(m)])
      BY <3>1 DEF JobsInv
    <3>3. m \in DOMAIN queue' /\ queue'[m].kind = queue[m].kind /\ queue'[m].refs = queue[m].refs
      BY <3>2 DEF KeptRequests, RequestFits
    <3>4. RequestFits(queue'[m], job'[RequestJob(m)], item'[RequestJob(m)])
      <4>1. job'[RequestJob(m)].status # "PLANNING"
        BY <3>2, <2>1 DEF SameShape, RequestFits
      <4> QED BY <3>2, <3>3, <4>1, <2>1 DEF SameShape, RequestFits, Planned
    <3> QED BY <3>3, <3>4
  <2> QED BY <2>1
<1>3. ASSUME NEW n \in 1..MaxReplays
      PROVE  IF n \in DOMAIN replays'
               THEN ReplayFits(replays'[n], job'[ReplayJob(n)], item'[ReplayJob(n)])
               ELSE job'[ReplayJob(n)].status = "ABSENT"
  <2>1. CASE /\ n \in DOMAIN replays' <=> n \in DOMAIN replays
             /\ n \in DOMAIN replays => replays'[n] = replays[n]
             /\ SameShape(job[ReplayJob(n)], item[ReplayJob(n)],
                          job'[ReplayJob(n)], item'[ReplayJob(n)])
    <3>1. CASE n \in DOMAIN replays
      <4>1. ReplayFits(replays[n], job[ReplayJob(n)], item[ReplayJob(n)])
        BY <3>1 DEF JobsInv
      <4>2. ReplayFits(replays[n], job'[ReplayJob(n)], item'[ReplayJob(n)])
        BY <4>1, <2>1 DEF SameShape, ReplayFits
      <4> QED BY <2>1, <3>1, <4>2
    <3>2. CASE n \notin DOMAIN replays
      <4>1. job[ReplayJob(n)].status = "ABSENT"
        BY <3>2 DEF JobsInv
      <4> QED BY <2>1, <3>2, <4>1 DEF SameShape
    <3> QED BY <3>1, <3>2
  <2> QED BY <2>1
<1> QED BY <1>1, <1>2, <1>3 DEF JobsInv

-----------------------------------------------------------------------------
(* The bounds of a behaviour. *)

LEMMA GreatestOf ==
  ASSUME NEW D, IsFiniteSet(D), D # {}, NEW g \in [D -> Nat]
  PROVE  LET S == {g[d] : d \in D} IN Max(S) \in Nat /\ \A d \in D : g[d] <= Max(S)
<1> DEFINE S == {g[d] : d \in D}
<1>1. S # {} /\ S \subseteq Nat /\ \A d \in D : g[d] \in S
  OBVIOUS
<1>2. IsFiniteSet(S)
  <2>1. g \in [D -> S] /\ \A y \in S : \E x \in D : g[x] = y
    OBVIOUS
  <2> HIDE DEF S
  <2>2. g \in Surjection(D, S)
    BY <2>1 DEF Surjection
  <2> QED BY <2>2, FS_Surjection
<1> HIDE DEF S
<1>3. Max(S) \in S /\ \A x \in S : x <= Max(S)
  BY <1>1, <1>2, Greatest
<1>4. Max(S) \in Nat /\ \A d \in D : g[d] <= Max(S)
  BY <1>1, <1>3
<1> QED BY <1>4 DEF S

LEMMA Bounds ==
  ASSUME NEW l \in Limits
  PROVE  /\ MaxPuts \in Nat /\ MaxMessages \in Nat /\ MaxReplays \in Nat
         /\ l.puts \in Nat /\ l.messages \in Nat /\ l.replays \in Nat /\ l.refs \in Nat
         /\ l.puts <= MaxPuts /\ l.messages <= MaxMessages /\ l.replays <= MaxReplays
<1>1. /\ IsFiniteSet(Limits)
      /\ Limits \subseteq [ puts : Nat, messages : Nat, refs : Nat, replays : Nat,
                            crashes : Nat, notifies : BOOLEAN ]
  BY ObjectConstants
<1>2. \A d \in Limits : /\ d.puts \in Nat /\ d.messages \in Nat
                          /\ d.replays \in Nat /\ d.refs \in Nat
  BY <1>1
<1>3. MaxPuts \in Nat /\ l.puts <= MaxPuts
  <2> DEFINE g == [d \in Limits |-> d.puts]
  <2>1. g \in [Limits -> Nat] /\ \A d \in Limits : g[d] = d.puts
    BY <1>2
  <2>2. {g[d] : d \in Limits} = {d.puts : d \in Limits}
    BY <2>1
  <2> HIDE DEF g
  <2>3. Max({g[d] : d \in Limits}) \in Nat /\ g[l] <= Max({g[d] : d \in Limits})
    BY <1>1, <2>1, GreatestOf
  <2> QED BY <2>1, <2>2, <2>3 DEF MaxPuts
<1>4. MaxMessages \in Nat /\ l.messages <= MaxMessages
  <2> DEFINE g == [d \in Limits |-> d.messages]
  <2>1. g \in [Limits -> Nat] /\ \A d \in Limits : g[d] = d.messages
    BY <1>2
  <2>2. {g[d] : d \in Limits} = {d.messages : d \in Limits}
    BY <2>1
  <2> HIDE DEF g
  <2>3. Max({g[d] : d \in Limits}) \in Nat /\ g[l] <= Max({g[d] : d \in Limits})
    BY <1>1, <2>1, GreatestOf
  <2> QED BY <2>1, <2>2, <2>3 DEF MaxMessages
<1>5. MaxReplays \in Nat /\ l.replays <= MaxReplays
  <2> DEFINE g == [d \in Limits |-> d.replays]
  <2>1. g \in [Limits -> Nat] /\ \A d \in Limits : g[d] = d.replays
    BY <1>2
  <2>2. {g[d] : d \in Limits} = {d.replays : d \in Limits}
    BY <2>1
  <2> HIDE DEF g
  <2>3. Max({g[d] : d \in Limits}) \in Nat /\ g[l] <= Max({g[d] : d \in Limits})
    BY <1>1, <2>1, GreatestOf
  <2> QED BY <2>1, <2>2, <2>3 DEF MaxReplays
<1> QED BY <1>2, <1>3, <1>4, <1>5

-----------------------------------------------------------------------------
(* The world: messages keep what they are about. *)

(* Only the state of a message, and how often it was received, changes. *)
SameMessages ==
  /\ queue' \in Seq(Message) /\ Len(queue') = Len(queue)
  /\ \A m \in DOMAIN queue : queue'[m].kind = queue[m].kind /\ queue'[m].refs = queue[m].refs

(* What is sealed, or sent, stays so. *)
KeptSeals ==
  \A j \in Jobs : /\ job[j].sealed => job'[j].sealed
                  /\ \A c \in Ids : item[j][c].sent => item'[j][c].sent

LEMMA PublishedKept ==
  ASSUME KeptSeals
  PROVE  Published \subseteq Published' /\ Published \subseteq Identities
<1>1. ASSUME NEW f \in Published PROVE f \in Published'
  <2>1. /\ f \in Identities /\ FileJob(f) \in Jobs /\ job[FileJob(f)].sealed
        /\ \A c \in 1..SizeOf[f.content] : item[FileJob(f)][c].sent
    BY JobIds DEF Published
  <2>2. 1..SizeOf[f.content] \subseteq Ids
    BY <2>1, ChunkNumbers DEF Ids
  <2>3. job'[FileJob(f)].sealed /\ \A c \in 1..SizeOf[f.content] : item'[FileJob(f)][c].sent
    BY <2>1, <2>2 DEF KeptSeals
  <2> QED BY <2>1, <2>3 DEF Published
<1> QED BY <1>1 DEF Published

LEMMA WorldKept ==
  ASSUME WorldInv, UNCHANGED <<world, puts, replays>>, SameMessages, KeptSeals,
         \A m \in DOMAIN queue :
           queue'[m].state = "deleted" /\ queue[m].kind = "notification" =>
             queue[m].state = "deleted" \/ Served(queue[m], Published', puts)
  PROVE  WorldInv' /\ KeptRequests
<1>1. DOMAIN queue' = DOMAIN queue
  BY DEF WorldInv, SameMessages
<1> DEFINE E == Published'
<1>3. Published \subseteq E
  BY PublishedKept
<1> HIDE DEF E
<1>2. ASSUME NEW m \in DOMAIN queue
      PROVE  MessageFits(queue'[m], versioning, E, puts)
  <2>1. MessageFits(queue[m], versioning, Published, puts) /\ queue'[m].kind = queue[m].kind
        /\ queue'[m].refs = queue[m].refs
    BY DEF WorldInv, SameMessages
  <2>2. ASSUME queue'[m].kind = "notification", queue'[m].state = "deleted"
        PROVE  Served(queue'[m], E, puts)
    <3>1. CASE Served(queue[m], E, puts)
      BY <2>1, <3>1 DEF Served
    <3>2. CASE queue[m].state = "deleted"
      <4>1. Served(queue[m], Published, puts)
        BY <2>1, <2>2, <3>2 DEF MessageFits
      <4>2. Served(queue[m], E, puts)
        BY <4>1, <1>3 DEF Served
      <4> QED BY <2>1, <4>2 DEF Served
    <3> QED BY <2>1, <2>2, <3>1, <3>2 DEF E
  <2> QED BY <2>1, <2>2 DEF MessageFits
<1>4. \A m \in DOMAIN queue' : MessageFits(queue'[m], versioning', Published', puts')
  BY <1>1, <1>2 DEF world, E
<1> QED BY <1>1, <1>4 DEF WorldInv, SameMessages, KeptRequests, world

-----------------------------------------------------------------------------
(* An invocation: what the others do leaves it right. *)

Histories == [Keys -> Seq(Contents \cup {Gone})]

Extends(P, R) ==
  \A k \in Keys : /\ Len(P[k]) <= Len(R[k])
                  /\ \A i \in 1..Len(P[k]) : R[k][i] = P[k][i]

LEMMA AnsweredKept ==
  ASSUME NEW V, NEW P \in Histories, NEW R \in Histories, Extends(P, R), NEW f \in Identities,
         NEW ref \in Reference, Noticed(V, P, ref), Answered(P, f, ref)
  PROVE  Answered(R, f, ref) /\ Noticed(V, R, ref)
<1>1. /\ ref.key \in Keys /\ Len(P[ref.key]) \in Nat /\ Len(R[ref.key]) \in Nat
      /\ ref.put \in 1..Len(P[ref.key]) /\ ref.put \in Nat
  BY DEF Histories, Reference, Noticed
<1>2. Len(P[ref.key]) <= Len(R[ref.key])
      /\ \A i \in 1..Len(P[ref.key]) : R[ref.key][i] = P[ref.key][i]
  BY <1>1 DEF Extends
<1>3. Noticed(V, R, ref)
  BY <1>1, <1>2 DEF Noticed
<1>4. CASE ref.version \in 1..MaxPuts
  BY <1>3, <1>4 DEF Answered
<1>5. CASE ref.version \notin 1..MaxPuts
  <2>1. PICK i \in ref.put..Len(P[ref.key]) : f.content = P[ref.key][i]
    BY <1>5 DEF Answered
  <2>2. i \in ref.put..Len(R[ref.key]) /\ i \in 1..Len(P[ref.key])
    BY <1>1, <1>2, <2>1
  <2>3. f.content = R[ref.key][i]
    BY <1>2, <2>1, <2>2
  <2> QED BY <1>3, <1>5, <2>2, <2>3 DEF Answered
<1> QED BY <1>4, <1>5

LEMMA WorkingKept ==
  ASSUME NEW r \in Invocation, NEW Q, NEW V, NEW JB, NEW P \in Histories, NEW D,
         Working(r, Q, V, JB, P), Q[r.msg] \in Message, MessageFits(Q[r.msg], V, D, P),
         NEW S, NEW JC, NEW R \in Histories, Extends(P, R),
         r.msg \in DOMAIN S, S[r.msg].state = "inflight",
         S[r.msg].kind = Q[r.msg].kind, S[r.msg].refs = Q[r.msg].refs,
         \A f \in Identities :
           Held(r, FileJob(f)) /\ Leased(JB[FileJob(f)]) => Leased(JC[FileJob(f)]),
         \A f \in Identities :
           JB[FileJob(f)].status \in TerminalJob => JC[FileJob(f)].status \in TerminalJob,
         \A j \in Jobs : JB[j].sealed => JC[j].sealed
  PROVE  Working(r, S, V, JC, R)
<1> DEFINE M == Q[r.msg]
           N == S[r.msg]
<1>1. /\ r.step # "idle"
      /\ IF r.step = "publish" THEN r.at = Len(N.refs) + 1 ELSE r.at \in 1..Len(N.refs)
      /\ r.at \in Nat /\ M.refs \in Seq(Reference)
  BY DEF Working, Invocation, Message
<1>4. Persisted(r, JC)
  <2>1. Persisted(r, JB) /\ r.jobIDs \subseteq Jobs
    BY DEF Working, Invocation
  <2> QED BY <2>1 DEF Persisted
<1>2. CASE M.kind = "notification"
  <2>1. NotificationInv(r, M, V, JB, P)
    BY <1>2 DEF Working
  <2>2. ASSUME NEW i \in 1..Len(M.refs), NEW f \in Identities, Answered(P, f, M.refs[i])
        PROVE  Answered(R, f, N.refs[i])
    <3>1. i \in DOMAIN M.refs /\ M.refs[i] \in Reference /\ Noticed(V, P, M.refs[i])
      BY <1>1, <1>2 DEF MessageFits
    <3>2. Answered(R, f, M.refs[i])
      BY <2>2, <3>1, AnsweredKept
    <3> QED BY <3>2
  <2>3. Pinned(r, N, V, R)
    <3> SUFFICES ASSUME r.step \in {"admit", "plan"}
                 PROVE  r.object \in Identities /\ Versioned(V, r.object)
                        /\ Answered(R, r.object, N.refs[r.at])
      BY DEF Pinned
    <3>1. r.object \in Identities /\ Versioned(V, r.object) /\ Answered(P, r.object, M.refs[r.at])
      BY <2>1 DEF NotificationInv, Pinned
    <3>2. r.at \in 1..Len(M.refs)
      BY <1>1
    <3> QED BY <2>2, <3>1, <3>2
  <2>4. FilePlans(r, JC)
    <3>1. FilePlans(r, JB)
      BY <2>1 DEF NotificationInv
    <3>2. \A f \in Identities :
            Held(r, FileJob(f)) /\ FileJob(f) \notin r.jobIDs => Leased(JC[FileJob(f)])
      BY <3>1 DEF FilePlans
    <3> QED BY <3>1, <3>2 DEF FilePlans
  <2>5. Handled(r, N, JC, R)
    <3> SUFFICES ASSUME NEW i \in 1..(r.at - 1)
                 PROVE  \E f \in Identities :
                          /\ Answered(R, f, N.refs[i])
                          /\ \/ JC[FileJob(f)].status \in TerminalJob
                             \/ \E k \in DOMAIN r.plans : r.plans[k].job = FileJob(f)
      BY DEF Handled
    <3>1. PICK f \in Identities :
            /\ Answered(P, f, M.refs[i])
            /\ \/ JB[FileJob(f)].status \in TerminalJob
               \/ \E k \in DOMAIN r.plans : r.plans[k].job = FileJob(f)
      BY <2>1 DEF NotificationInv, Handled
    <3>2. i \in 1..Len(M.refs)
      <4>1. Len(M.refs) \in Nat
        BY <1>1
      <4> QED BY <4>1, <1>1
    <3>3. Answered(R, f, N.refs[i])
      BY <2>2, <3>1, <3>2
    <3> QED BY <3>1, <3>3
  <2>6. NotificationInv(r, N, V, JC, R)
    BY <2>3, <2>4, <2>5 DEF NotificationInv
  <2> QED BY <1>1, <1>2, <1>4, <2>6 DEF Working
<1>3. CASE M.kind # "notification"
  <2>1. RequestInv(r, N)
    BY <1>3 DEF Working, RequestInv
  <2> QED BY <1>1, <1>3, <1>4, <2>1 DEF Working
<1> QED BY <1>2, <1>3

KeptEnds ==
  \A f \in Identities :
    job[FileJob(f)].status \in TerminalJob => job'[FileJob(f)].status \in TerminalJob

(* A step of an invocation that leaves the others alone: it takes a message *)
(* nobody has and leases nobody holds.                                      *)
Alone(o) ==
  /\ org'[o] = Idle \/ Working(org'[o], queue', versioning', job', puts')
  /\ \A f \in Identities :
       Held(org'[o], FileJob(f)) =>
         \/ Held(org[o], FileJob(f))
         \/ ~Leased(job[FileJob(f)]) /\ ~job[FileJob(f)].sealed
  /\ org'[o].step # "idle" =>
       \/ org[o].step # "idle" /\ org'[o].msg = org[o].msg
       \/ queue[org'[o].msg].state # "inflight"

LEMMA IdleFacts ==
  Idle \in Invocation /\ Idle.step = "idle" /\ Idle.plans = <<>> /\ Idle.jobIDs = {}
  /\ \A f \in Identities : ~Held(Idle, FileJob(f))
<1>1. Idle.step = "idle" /\ Idle.plans = <<>> /\ Idle.msg = 0 /\ Idle.at = 0
      /\ Idle.object = NoIdentity /\ Idle.jobIDs = {}
      /\ Idle = [ step |-> "idle", msg |-> 0, at |-> 0, object |-> NoIdentity,
                  plans |-> <<>>, jobIDs |-> {} ]
  BY DEF Idle
<1>2. Idle \in Invocation
  BY <1>1 DEF Invocation, Steps
<1>3. \A f \in Identities : ~Held(Idle, FileJob(f))
  BY <1>1 DEF Held
<1> QED BY <1>1, <1>2, <1>3

(* An invocation with a request holds no lease. *)
LEMMA RequestHolds ==
  ASSUME NEW r \in Invocation, NEW M, RequestInv(r, M), NEW f \in Identities
  PROVE  ~Held(r, FileJob(f))
<1>1. r.object = NoIdentity /\ FileJob(f) # FileJob(r.object)
  BY ChunkNumbers, JobIds DEF RequestInv
<1>2. \A i \in DOMAIN r.plans : r.plans[i].job = RequestJob(r.msg)
  <2>1. r.plans \in Seq([job : Jobs, files : Seq(Identities)])
    BY DEF Invocation
  <2> QED BY <2>1 DEF RequestInv
<1> QED BY <1>1, <1>2, JobIds DEF Held

LEMMA OrgKept ==
  ASSUME OrgInv, WorldInv, UNCHANGED world, puts' \in Histories, Extends(puts, puts'),
         NEW Moving \in SUBSET Invocations, \A o, p \in Moving : o = p,
         org' \in [Invocations -> Invocation],
         \A p \in Invocations \ Moving : org'[p] = org[p],
         \A o \in Moving : Alone(o),
         \A m \in DOMAIN queue : queue[m].state = "inflight" =>
           \/ \E o \in Moving : org[o].step # "idle" /\ org[o].msg = m
           \/ m \in DOMAIN queue' /\ queue'[m] = queue[m],
         \A p \in Invocations \ Moving : \A f \in Identities :
           Held(org[p], FileJob(f)) /\ Leased(job[FileJob(f)]) => Leased(job'[FileJob(f)]),
         KeptEnds, KeptSeals
  PROVE  OrgInv'
<1>1. /\ \A p \in Invocations : /\ org[p] \in Invocation
                                /\ org[p] = Idle \/ Working(org[p], queue, versioning, job, puts)
      /\ \A o, p \in Invocations : o # p => Apart(org[o], org[p])
  BY DEF OrgInv
<1>2. versioning' = versioning /\ puts \in Histories /\ queue \in Seq(Message)
      /\ \A m \in DOMAIN queue : MessageFits(queue[m], versioning, Published, puts) /\ queue[m] \in Message
  BY DEF world, WorldInv, Histories
<1>3. ASSUME NEW p \in Invocations \ Moving
      PROVE  org'[p] = Idle \/ Working(org'[p], queue', versioning', job', puts')
  <2>1. org'[p] = org[p]
    OBVIOUS
  <2>2. CASE org[p] = Idle
    BY <2>1, <2>2
  <2>3. CASE org[p] # Idle
    <3>1. Working(org[p], queue, versioning, job, puts)
      BY <1>1, <2>3
    <3>2. /\ org[p].step # "idle" /\ org[p].msg \in DOMAIN queue
          /\ queue[org[p].msg].state = "inflight"
      BY <3>1 DEF Working
    <3>3. ASSUME NEW o \in Moving, org[o].step # "idle", org[o].msg = org[p].msg
          PROVE  FALSE
      <4>1. o \in Invocations /\ o # p
        OBVIOUS
      <4> QED BY <1>1, <3>2, <3>3, <4>1 DEF Apart
    <3>4. org[p].msg \in DOMAIN queue' /\ queue'[org[p].msg] = queue[org[p].msg]
      BY <3>2, <3>3
    <3>5. \A f \in Identities :
            Held(org[p], FileJob(f)) /\ Leased(job[FileJob(f)]) => Leased(job'[FileJob(f)])
      OBVIOUS
    <3>6. \A f \in Identities :
            job[FileJob(f)].status \in TerminalJob => job'[FileJob(f)].status \in TerminalJob
      BY DEF KeptEnds
    <3>7. org[p] \in Invocation /\ queue[org[p].msg] \in Message
          /\ MessageFits(queue[org[p].msg], versioning, Published, puts)
      BY <1>1, <1>2, <3>2
    <3>9. \A j \in Jobs : job[j].sealed => job'[j].sealed
      BY DEF KeptSeals
    <3>8. Working(org[p], queue', versioning, job', puts')
      BY <1>2, <3>1, <3>2, <3>4, <3>5, <3>6, <3>7, <3>9, WorkingKept
    <3> QED BY <1>2, <2>1, <3>8
  <2> QED BY <2>2, <2>3
<1>4. \A o \in Invocations : org'[o] = Idle \/ Working(org'[o], queue', versioning', job', puts')
  BY <1>3 DEF Alone
<1>5. ASSUME NEW o \in Moving, NEW p \in Invocations, o # p
      PROVE  Apart(org'[o], org'[p]) /\ Apart(org'[p], org'[o])
  <2>1. p \notin Moving /\ org'[p] = org[p] /\ o \in Invocations
    BY <1>5
  <2>2. Apart(org[o], org[p])
    BY <1>1, <1>5, <2>1
  <2>3. Alone(o)
    OBVIOUS
  <2>4. org[p] = Idle \/ Working(org[p], queue, versioning, job, puts)
    BY <1>1
  <2>5. ASSUME org'[o].step # "idle", org[p].step # "idle"
        PROVE  org'[o].msg # org[p].msg
    <3>1. queue[org[p].msg].state = "inflight"
      BY <2>4, <2>5, IdleFacts DEF Working
    <3> QED BY <2>2, <2>3, <2>5, <3>1 DEF Alone, Apart
  <2>6. ASSUME NEW f \in Identities, Held(org'[o], FileJob(f)), Held(org[p], FileJob(f))
        PROVE  FALSE
    <3>1. \/ Held(org[o], FileJob(f))
          \/ ~Leased(job[FileJob(f)]) /\ ~job[FileJob(f)].sealed
      BY <2>3, <2>6 DEF Alone
    <3>2. ~Held(org[o], FileJob(f))
      BY <2>2, <2>6 DEF Apart
    <3>3. Working(org[p], queue, versioning, job, puts)
      BY <2>4, <2>6, IdleFacts
    <3>4. CASE queue[org[p].msg].kind = "notification"
      <4>1. FilePlans(org[p], job) /\ Persisted(org[p], job)
        BY <3>3, <3>4 DEF Working, NotificationInv
      <4>2. FileJob(f) \in org[p].jobIDs => job[FileJob(f)].sealed
        BY <4>1 DEF Persisted
      <4> QED BY <2>6, <3>1, <3>2, <4>1, <4>2 DEF FilePlans
    <3>5. CASE queue[org[p].msg].kind # "notification"
      <4>1. RequestInv(org[p], queue[org[p].msg])
        BY <3>3, <3>5 DEF Working
      <4>2. ~Held(org[p], FileJob(f))
        BY <1>1, <4>1, RequestHolds
      <4> QED BY <2>6, <4>2
    <3> QED BY <3>4, <3>5
  <2> QED BY <2>1, <2>5, <2>6 DEF Apart
<1>6. ASSUME NEW o \in Invocations, NEW p \in Invocations, o # p
      PROVE  Apart(org'[o], org'[p])
  <2>1. CASE o \in Moving \/ p \in Moving
    BY <1>5, <1>6, <2>1
  <2>2. CASE o \notin Moving /\ p \notin Moving
    <3>1. org'[o] = org[o] /\ org'[p] = org[p]
      BY <2>2
    <3> QED BY <1>1, <1>6, <3>1
  <2> QED BY <2>1, <2>2
<1> QED BY <1>4, <1>6 DEF OrgInv

-----------------------------------------------------------------------------
(* The steps of the world. *)

LEMMA JobsSame ==
  ASSUME JobsInv, WorldInv, KeptRequests, UNCHANGED <<job, item, replays>>
  PROVE  JobsInv' /\ KeptSeals /\ KeptEnds
<1>1. /\ job \in [Jobs -> JobRecord] /\ item \in [Jobs -> [Ids -> ItemRecord]]
      /\ \A j \in Jobs : Fits(job[j], item[j])
  BY DEF JobsInv
<1>2. \A j \in Jobs : SameShape(job[j], item[j], job'[j], item'[j])
  BY DEF SameShape
<1>3. KeptSeals /\ KeptEnds
  BY DEF KeptSeals, KeptEnds
<1>4. JobsInv'
  BY <1>1, <1>2, JobIds, JobsKept
<1> QED BY <1>3, <1>4

LEMMA PutsKept ==
  ASSUME WorldInv, UNCHANGED puts
  PROVE  puts' \in Histories /\ Extends(puts, puts')
<1>1. \A k \in Keys : Len(puts[k]) \in Nat
  BY DEF WorldInv
<1> QED BY <1>1 DEF Extends, WorldInv, Histories

LEMMA OrgStays ==
  ASSUME OrgInv, WorldInv, UNCHANGED <<world, org>>, puts' \in Histories, Extends(puts, puts'),
         \A m \in DOMAIN queue : queue[m].state = "inflight" =>
           m \in DOMAIN queue' /\ queue'[m] = queue[m],
         \A p \in Invocations : \A f \in Identities :
           Held(org[p], FileJob(f)) /\ Leased(job[FileJob(f)]) => Leased(job'[FileJob(f)]),
         KeptEnds, KeptSeals
  PROVE  OrgInv'
<1>1. org' \in [Invocations -> Invocation] /\ \A p \in Invocations : org'[p] = org[p]
  BY DEF OrgInv
<1>2. {} \in SUBSET Invocations /\ \A o \in {} : Alone(o)
  OBVIOUS
<1> QED BY <1>1, <1>2, OrgKept

IInv == JobsInv /\ WorldInv /\ OrgInv

LEMMA DeadLetterStep ==
  ASSUME IInv, NEW m \in DOMAIN queue, DeadLetter(m) PROVE IInv'
<1>1. queue \in Seq(Message) /\ queue[m] \in Message
  BY DEF IInv, WorldInv
<1>2. PICK q : q = [queue[m] EXCEPT !.state = "dlq"]
  OBVIOUS
<1>3. q \in Message /\ q.kind = queue[m].kind /\ q.refs = queue[m].refs /\ q.state = "dlq"
  BY <1>1, <1>2 DEF Message
<1>4. /\ queue' = [queue EXCEPT ![m] = q] /\ queue[m].state = "visible"
      /\ UNCHANGED <<world, puts, org, job, item, replays, crashes>>
  BY <1>2 DEF DeadLetter
<1>5. SameMessages /\ \A k \in DOMAIN queue : k # m => queue'[k] = queue[k]
  BY <1>1, <1>3, <1>4 DEF SameMessages
<1>6. KeptRequests
  BY <1>1, <1>5 DEF KeptRequests, SameMessages
<1>7. JobsInv' /\ KeptSeals /\ KeptEnds
  BY <1>4, <1>6, JobsSame DEF IInv
<1>8. WorldInv'
  <2>1. \A k \in DOMAIN queue : queue'[k].state = "deleted" => queue[k].state = "deleted"
    BY <1>1, <1>3, <1>4, <1>5
  <2> QED BY <2>1, <1>4, <1>5, <1>7, WorldKept DEF IInv
<1>9. OrgInv'
  <2>1. \A k \in DOMAIN queue : queue[k].state = "inflight" => k \in DOMAIN queue' /\ queue'[k] = queue[k]
    BY <1>1, <1>4, <1>5
  <2>2. puts' \in Histories /\ Extends(puts, puts')
    BY <1>4, PutsKept DEF IInv
  <2>3. \A p \in Invocations : \A f \in Identities :
           Held(org[p], FileJob(f)) /\ Leased(job[FileJob(f)]) => Leased(job'[FileJob(f)])
    BY <1>4
  <2> QED BY <2>1, <2>2, <2>3, <1>4, <1>7, OrgStays DEF IInv
<1> QED BY <1>7, <1>8, <1>9 DEF IInv

(* No key has more writes than there may be in all. *)
LEMMA PutsBound ==
  ASSUME puts \in Histories, NEW k \in Keys
  PROVE  TotalPuts \in Nat /\ Len(puts[k]) \in Nat /\ Len(puts[k]) <= TotalPuts
<1> DEFINE g == [x \in Keys |-> Len(puts[x])]
<1>1. \A x \in Keys : g[x] \in Nat
  BY DEF Histories
<1>2. DOMAIN g = Keys /\ g[k] = Len(puts[k])
  OBVIOUS
<1> HIDE DEF g
<1>3. IsFiniteSet(Keys)
  BY ObjectConstants
<1>4. SumFunctionOnSet(g, Keys) = g[k] + SumFunctionOnSet(g, Keys \ {k})
  BY <1>1, <1>3, SumRemove
<1>5. SumFunctionOnSet(g, Keys) \in Nat
  BY <1>1, <1>3, SumType
<1>6. SumFunctionOnSet(g, Keys \ {k}) \in Nat
  BY <1>1, <1>3, FS_Subset, SumType
<1>7. TotalPuts = SumFunctionOnSet(g, Keys)
  BY <1>2 DEF g, TotalPuts, SumFunction
<1> QED BY <1>1, <1>2, <1>4, <1>5, <1>6, <1>7

LEMMA MessageFitsKept ==
  ASSUME NEW M \in Message, NEW V, NEW D, D \subseteq Identities, NEW P \in Histories, NEW R \in Histories,
         Extends(P, R), MessageFits(M, V, D, P)
  PROVE  MessageFits(M, V, D, R)
<1>1. M.refs \in Seq(Reference) /\ \A i \in DOMAIN M.refs : M.refs[i] \in Reference
  BY DEF Message
<1>2. ASSUME M.kind = "notification", NEW i \in DOMAIN M.refs
      PROVE  Noticed(V, R, M.refs[i])
             /\ \A f \in Identities : Answered(P, f, M.refs[i]) => Answered(R, f, M.refs[i])
  <2>1. M.refs[i] \in Reference /\ Noticed(V, P, M.refs[i])
    BY <1>1, <1>2 DEF MessageFits
  <2>2. \A f \in Identities : Answered(P, f, M.refs[i]) => Answered(R, f, M.refs[i])
    BY <2>1, AnsweredKept
  <2>3. Noticed(V, R, M.refs[i])
    <3>1. /\ M.refs[i].key \in Keys /\ M.refs[i].put \in Nat
      BY <2>1 DEF Reference
    <3>2. /\ Len(P[M.refs[i].key]) \in Nat /\ Len(R[M.refs[i].key]) \in Nat
          /\ Len(P[M.refs[i].key]) <= Len(R[M.refs[i].key])
      BY <3>1 DEF Extends, Histories
    <3> QED BY <2>1, <3>1, <3>2 DEF Noticed
  <2> QED BY <2>2, <2>3
<1>3. M.kind = "notification" /\ M.state = "deleted" => Served(M, D, R)
  <2> SUFFICES ASSUME M.kind = "notification", M.state = "deleted", NEW i \in DOMAIN M.refs
               PROVE  \E f \in D : Answered(R, f, M.refs[i])
    BY DEF Served
  <2>1. PICK f \in D : Answered(P, f, M.refs[i])
    BY DEF MessageFits, Served
  <2> QED BY <2>1, <1>2
<1> QED BY <1>2, <1>3 DEF MessageFits

(* One message more, or a reference more in a message nobody has. *)
LEMMA NewMessageFits ==
  ASSUME WorldInv, NEW kind \in {"notification", "request"}, NEW refs \in Seq(Reference), refs # <<>>,
         NewMessage(kind, refs), NEW P,
         kind = "notification" => \A i \in DOMAIN refs : Noticed(versioning, P, refs[i]),
         \A m \in DOMAIN queue : MessageFits(queue[m], versioning, Published, P)
  PROVE  /\ queue' \in Seq(Message) /\ Len(queue') <= MaxMessages /\ KeptRequests
         /\ \A m \in DOMAIN queue : m \in DOMAIN queue' /\ queue'[m] = queue[m]
         /\ \A m \in DOMAIN queue' : MessageFits(queue'[m], versioning, Published, P)
<1>1. PICK M : M = [kind |-> kind, refs |-> refs, state |-> "visible", receives |-> 0]
  OBVIOUS
<1>2. M \in Message /\ M.kind = kind /\ M.refs = refs /\ M.state = "visible"
  BY <1>1 DEF Message
<1>3. queue \in Seq(Message) /\ limit \in Limits
  BY DEF WorldInv
<1>4. queue' = Append(queue, M) /\ Len(queue) < limit.messages
  BY <1>1 DEF NewMessage
<1>5. /\ queue' \in Seq(Message) /\ Len(queue') = Len(queue) + 1
      /\ DOMAIN queue' = 1..(Len(queue) + 1) /\ DOMAIN queue = 1..Len(queue)
      /\ \A m \in DOMAIN queue : m \in DOMAIN queue' /\ queue'[m] = queue[m]
      /\ queue'[Len(queue) + 1] = M
  BY <1>2, <1>3, <1>4
<1>6. Len(queue') <= MaxMessages
  BY <1>3, <1>4, <1>5, Bounds
<1>7. MessageFits(M, versioning, Published, P)
  BY <1>2 DEF MessageFits
<1>8. \A m \in DOMAIN queue' : m \in DOMAIN queue \/ m = Len(queue) + 1
  <2>1. Len(queue) \in Nat
    BY <1>3
  <2> QED BY <1>5, <2>1
<1>9. \A m \in DOMAIN queue' : MessageFits(queue'[m], versioning, Published, P)
  BY <1>5, <1>7, <1>8
<1>10. KeptRequests
  BY <1>5 DEF KeptRequests
<1> QED BY <1>5, <1>6, <1>9, <1>10

LEMMA NotifyFits ==
  ASSUME WorldInv, NEW P, NEW ref \in Reference, Notify(ref), Noticed(versioning, P, ref),
         \A m \in DOMAIN queue : MessageFits(queue[m], versioning, Published, P)
  PROVE  /\ queue' \in Seq(Message) /\ Len(queue') <= MaxMessages /\ KeptRequests
         /\ \A m \in DOMAIN queue : queue[m].state = "inflight" =>
              m \in DOMAIN queue' /\ queue'[m] = queue[m]
         /\ \A m \in DOMAIN queue' : MessageFits(queue'[m], versioning, Published, P)
<1>1. queue \in Seq(Message) /\ Len(queue) <= MaxMessages
  BY DEF WorldInv
<1>2. CASE NewMessage("notification", <<ref>>)
  <2>1. PICK refs : refs = <<ref>>
    OBVIOUS
  <2>2. refs \in Seq(Reference) /\ refs # <<>> /\ \A i \in DOMAIN refs : Noticed(versioning, P, refs[i])
    BY <2>1
  <2>3. PICK kind \in {"notification", "request"} : kind = "notification"
    OBVIOUS
  <2>4. NewMessage(kind, refs)
    BY <1>2, <2>1, <2>3
  <2>5. /\ queue' \in Seq(Message) /\ Len(queue') <= MaxMessages /\ KeptRequests
        /\ \A m \in DOMAIN queue : m \in DOMAIN queue' /\ queue'[m] = queue[m]
        /\ \A m \in DOMAIN queue' : MessageFits(queue'[m], versioning, Published, P)
    BY <2>2, <2>4, NewMessageFits
  <2> QED BY <2>5
<1>3. CASE \E m \in DOMAIN queue :
       /\ queue[m].kind = "notification"
       /\ queue[m].state = "visible" /\ queue[m].receives = 0
       /\ Len(queue[m].refs) < limit.refs
       /\ queue' = [queue EXCEPT ![m].refs = Append(@, ref)]
  <2>1. PICK m \in DOMAIN queue :
       /\ queue[m].kind = "notification" /\ queue[m].state = "visible"
       /\ queue' = [queue EXCEPT ![m].refs = Append(@, ref)]
    BY <1>3
  <2>2. queue[m] \in Message /\ MessageFits(queue[m], versioning, Published, P)
    BY <1>1
  <2>3. PICK refs : refs = Append(queue[m].refs, ref)
    OBVIOUS
  <2>4. queue[m].refs \in Seq(Reference)
    BY <2>2 DEF Message
  <2>5. /\ refs \in Seq(Reference) /\ refs # <<>>
        /\ \A i \in DOMAIN refs : \/ i \in DOMAIN queue[m].refs /\ refs[i] = queue[m].refs[i]
                                  \/ refs[i] = ref
    BY <2>3, <2>4
  <2>6. PICK M : M = [queue[m] EXCEPT !.refs = refs]
    OBVIOUS
  <2>7. M \in Message /\ M.kind = "notification" /\ M.state = "visible" /\ M.refs = refs
    BY <2>1, <2>2, <2>5, <2>6 DEF Message
  <2>8. queue' = [queue EXCEPT ![m] = M]
    BY <2>1, <2>3, <2>6
  <2>9. /\ queue' \in Seq(Message) /\ Len(queue') = Len(queue) /\ DOMAIN queue' = DOMAIN queue
        /\ queue'[m] = M /\ \A k \in DOMAIN queue : k # m => queue'[k] = queue[k]
    BY <1>1, <2>7, <2>8
  <2>10. MessageFits(M, versioning, Published, P)
    <3>1. \A i \in DOMAIN refs : Noticed(versioning, P, refs[i])
      <4> SUFFICES ASSUME NEW i \in DOMAIN refs PROVE Noticed(versioning, P, refs[i])
        OBVIOUS
      <4>1. \A k \in DOMAIN queue[m].refs : Noticed(versioning, P, queue[m].refs[k])
        BY <2>1, <2>2 DEF MessageFits
      <4> QED BY <2>5, <4>1
    <3> QED BY <2>5, <2>7, <3>1 DEF MessageFits
  <2>11. \A k \in DOMAIN queue' : MessageFits(queue'[k], versioning, Published, P)
    BY <2>9, <2>10
  <2>12. KeptRequests
    BY <2>1, <2>7, <2>9 DEF KeptRequests
  <2> QED BY <1>1, <2>1, <2>9, <2>11, <2>12
<1> QED BY <1>2, <1>3 DEF Notify

LEMMA PutStep ==
  ASSUME IInv, NEW k \in Keys, NEW x \in Contents \cup {Gone}, Put(k, x) PROVE IInv'
<1>1. /\ TotalPuts < limit.puts /\ puts' = [puts EXCEPT ![k] = Append(@, x)]
      /\ UNCHANGED <<world, org, job, item, replays, crashes>>
  BY DEF Put
<1>2. /\ limit \in Limits /\ puts \in Histories /\ versioning \in {"enabled", "suspended", "off"}
      /\ \A y \in Keys : puts[y] \in Seq(Contents \cup {Gone}) /\ Len(puts[y]) <= MaxPuts
      /\ queue \in Seq(Message) /\ Len(queue) <= MaxMessages
      /\ \A m \in DOMAIN queue : queue[m] \in Message /\ MessageFits(queue[m], versioning, Published, puts)
  BY DEF IInv, WorldInv, Histories
<1>3. PICK P : P = puts'
  OBVIOUS
<1>4. /\ P \in Histories /\ P[k] = Append(puts[k], x)
      /\ \A y \in Keys : y # k => P[y] = puts[y]
  BY <1>1, <1>2, <1>3 DEF Histories
<1> DEFINE n == Len(puts[k]) + 1
<1>5. /\ n \in 1..MaxPuts /\ Len(P[k]) = n /\ MaxPuts \in Nat
      /\ \A i \in 1..Len(puts[k]) : P[k][i] = puts[k][i]
  <2>1. /\ TotalPuts \in Nat /\ Len(puts[k]) \in Nat /\ Len(puts[k]) <= TotalPuts
    BY <1>2, PutsBound
  <2>2. limit.puts \in Nat /\ MaxPuts \in Nat /\ limit.puts <= MaxPuts
    BY <1>2, Bounds
  <2>3. n \in 1..MaxPuts
    BY <1>1, <2>1, <2>2
  <2> QED BY <1>2, <1>4, <2>2, <2>3
<1> HIDE DEF n
<1>6. Extends(puts, P) /\ \A y \in Keys : Len(P[y]) <= MaxPuts
  <2>1. \A y \in Keys : Len(puts[y]) \in Nat
    BY <1>2
  <2>2. Len(puts[k]) <= Len(P[k]) /\ Len(P[k]) <= MaxPuts
    BY <1>2, <1>5, <2>1 DEF n
  <2>3. \A y \in Keys : y # k => Len(puts[y]) <= Len(P[y]) /\ Len(P[y]) <= MaxPuts
    BY <1>2, <1>4, <2>1
  <2>4. \A y \in Keys : \A i \in 1..Len(puts[y]) : P[y][i] = puts[y][i]
    BY <1>4, <1>5
  <2> QED BY <2>2, <2>3, <2>4 DEF Extends
<1>7. \A m \in DOMAIN queue : MessageFits(queue[m], versioning, Published, P)
  <2>1. Published \subseteq Identities
    BY DEF Published
  <2> QED BY <2>1, <1>2, <1>4, <1>6, MessageFitsKept
<1>8. /\ queue' \in Seq(Message) /\ Len(queue') <= MaxMessages /\ KeptRequests
      /\ \A m \in DOMAIN queue : queue[m].state = "inflight" =>
           m \in DOMAIN queue' /\ queue'[m] = queue[m]
      /\ \A m \in DOMAIN queue' : MessageFits(queue'[m], versioning, Published, P)
  <2>1. CASE ~(limit.notifies /\ x # Gone)
    <3>1. queue' = queue
      BY <2>1 DEF Put
    <3> QED BY <1>2, <1>7, <3>1 DEF KeptRequests
  <2>2. CASE limit.notifies /\ x # Gone
    <3>1. PICK ref : ref = [key |-> k, version |-> VersionOf(n), put |-> n]
      OBVIOUS
    <3>2. Notify(ref)
      BY <2>2, <3>1 DEF Put, n
    <3>3. VersionOf(n) = VersionsOf(versioning, n)
      BY DEF VersionOf, VersionsOf
    <3>4. ref \in Reference /\ Noticed(versioning, P, ref)
      <4>1. VersionOf(n) \in Versions
        BY <1>5 DEF VersionOf, Versions
      <4>2. n \in 0..MaxPuts /\ n \in 1..Len(P[k])
        BY <1>5
      <4> QED BY <3>1, <3>3, <4>1, <4>2 DEF Reference, Noticed
    <3> QED BY <1>7, <3>2, <3>4, NotifyFits DEF IInv
  <2> QED BY <2>1, <2>2
<1>9. JobsInv' /\ KeptEnds /\ KeptSeals
  BY <1>1, <1>8, JobsSame DEF IInv
<1>10. WorldInv'
  <2>1. /\ limit' = limit /\ versioning' = versioning /\ replays' = replays
        /\ Published' = Published
    BY <1>1 DEF world, Published
  <2>2. P \in [Keys -> Seq(Contents \cup {Gone})]
    BY <1>4 DEF Histories
  <2> QED BY <1>3, <1>6, <1>8, <2>1, <2>2 DEF IInv, WorldInv
<1>11. OrgInv'
  <2>1. \A p \in Invocations : \A f \in Identities :
           Held(org[p], FileJob(f)) /\ Leased(job[FileJob(f)]) => Leased(job'[FileJob(f)])
    BY <1>1
  <2> QED BY <1>1, <1>3, <1>4, <1>6, <1>8, <1>9, <2>1, OrgStays DEF IInv
<1> QED BY <1>9, <1>10, <1>11 DEF IInv

LEMMA RequestStep ==
  ASSUME IInv, NEW n \in 1..limit.refs, NEW ks \in [1..n -> Keys], Request(ks) PROVE IInv'
<1>1. PICK refs : refs = [i \in DOMAIN ks |-> [key |-> ks[i], version |-> NoVersion, put |-> 0]]
  OBVIOUS
<1>2. NewMessage("request", refs) /\ UNCHANGED <<world, puts, org, job, item, replays, crashes>>
  BY <1>1 DEF Request
<1>3. refs \in Seq(Reference) /\ refs # <<>>
  <2>1. \A i \in 1..n : [key |-> ks[i], version |-> NoVersion, put |-> 0] \in Reference
    <3>1. MaxPuts \in Nat
      BY Bounds DEF IInv, WorldInv
    <3>2. 0 \in 0..MaxPuts /\ NoVersion \in Versions
      BY <3>1 DEF Versions
    <3> QED BY <3>2 DEF Reference
  <2>2. n \in Nat /\ n >= 1 /\ DOMAIN ks = 1..n
    <3>1. limit.refs \in Nat
      BY Bounds DEF IInv, WorldInv
    <3> QED BY <3>1
  <2>3. refs \in [1..n -> Reference]
    BY <1>1, <2>1, <2>2
  <2>4. refs \in Seq(Reference)
    BY <2>2, <2>3
  <2>5. Len(refs) = n
    BY <2>2, <2>3, <2>4
  <2> QED BY <2>2, <2>4, <2>5
<1>4. \A m \in DOMAIN queue : MessageFits(queue[m], versioning, Published, puts)
  BY DEF IInv, WorldInv
<1>5. /\ queue' \in Seq(Message) /\ Len(queue') <= MaxMessages /\ KeptRequests
      /\ \A m \in DOMAIN queue : m \in DOMAIN queue' /\ queue'[m] = queue[m]
      /\ \A m \in DOMAIN queue' : MessageFits(queue'[m], versioning, Published, puts)
  <2>1. PICK kind \in {"notification", "request"} : kind = "request"
    OBVIOUS
  <2>2. NewMessage(kind, refs) /\ kind # "notification"
    BY <1>2, <2>1
  <2> QED BY <1>3, <1>4, <2>2, NewMessageFits DEF IInv
<1>6. JobsInv' /\ KeptEnds /\ KeptSeals
  BY <1>2, <1>5, JobsSame DEF IInv
<1>7. WorldInv'
  <2>1. /\ limit' = limit /\ versioning' = versioning /\ replays' = replays
        /\ puts' = puts /\ Published' = Published
    BY <1>2 DEF world, Published
  <2> QED BY <1>5, <2>1 DEF IInv, WorldInv
<1>8. OrgInv'
  <2>1. \A p \in Invocations : \A f \in Identities :
           Held(org[p], FileJob(f)) /\ Leased(job[FileJob(f)]) => Leased(job'[FileJob(f)])
    BY <1>2
  <2>2. puts' \in Histories /\ Extends(puts, puts')
    BY <1>2, PutsKept DEF IInv
  <2> QED BY <1>2, <1>5, <1>6, <2>1, <2>2, OrgStays DEF IInv
<1> QED BY <1>6, <1>7, <1>8 DEF IInv

LEMMA WorldStays ==
  ASSUME WorldInv, UNCHANGED <<world, puts, queue, replays>>, KeptSeals
  PROVE  WorldInv' /\ KeptRequests
<1>1. SameMessages
  BY DEF SameMessages, WorldInv
<1>2. \A m \in DOMAIN queue : queue'[m].state = "deleted" => queue[m].state = "deleted"
  OBVIOUS
<1> QED BY <1>1, <1>2, WorldKept

(* What job j may become: the same, or what its kind may be. *)
May(j, K, L) ==
  \/ SameShape(job[j], item[j], K, L)
  \/ \E f \in Identities : j = FileJob(f) /\ FileFits(f, K, L)
  \/ \E m \in DOMAIN queue : j = RequestJob(m) /\ RequestFits(queue[m], K, L)

(* A step of one job. *)
LEMMA JobStep ==
  ASSUME JobsInv, NEW j \in Jobs, NEW K, NEW L, Fits(K, L), May(j, K, L),
         job' = [job EXCEPT ![j] = K], item' = [item EXCEPT ![j] = L],
         replays' = replays, KeptRequests,
         job[j].sealed => K.sealed, \A c \in Ids : item[j][c].sent => L[c].sent,
         job[j].status \in TerminalJob => K.status \in TerminalJob
  PROVE  JobsInv' /\ KeptSeals /\ KeptEnds
<1>1. /\ job \in [Jobs -> JobRecord] /\ item \in [Jobs -> [Ids -> ItemRecord]]
      /\ \A i \in Jobs : Fits(job[i], item[i])
  BY DEF JobsInv
<1>2. K \in JobRecord /\ L \in [Ids -> ItemRecord]
  BY DEF Fits
<1>3. /\ job' \in [Jobs -> JobRecord] /\ item' \in [Jobs -> [Ids -> ItemRecord]]
      /\ job'[j] = K /\ item'[j] = L
      /\ \A i \in Jobs : i # j => job'[i] = job[i] /\ item'[i] = item[i]
  BY <1>1, <1>2
<1>4. \A i \in Jobs : Fits(job'[i], item'[i])
  BY <1>1, <1>3
<1>5. \A i \in Jobs : i # j => SameShape(job[i], item[i], job'[i], item'[i])
  BY <1>3 DEF SameShape
<1>6. KeptSeals
  BY <1>3 DEF KeptSeals
<1>7. KeptEnds
  BY <1>3, JobIds DEF KeptEnds
<1>8. \A f \in Identities :
        \/ SameShape(job[FileJob(f)], item[FileJob(f)], job'[FileJob(f)], item'[FileJob(f)])
        \/ FileFits(f, job'[FileJob(f)], item'[FileJob(f)])
  <2> SUFFICES ASSUME NEW f \in Identities, FileJob(f) = j
               PROVE  SameShape(job[j], item[j], K, L) \/ FileFits(f, K, L)
    BY <1>3, <1>5, JobIds
  <2> QED BY JobIds DEF May
<1>9. \A m \in 1..MaxMessages :
        \/ SameShape(job[RequestJob(m)], item[RequestJob(m)],
                     job'[RequestJob(m)], item'[RequestJob(m)])
        \/ /\ m \in DOMAIN queue'
           /\ RequestFits(queue'[m], job'[RequestJob(m)], item'[RequestJob(m)])
  <2> SUFFICES ASSUME NEW m \in 1..MaxMessages, RequestJob(m) = j,
                      ~SameShape(job[j], item[j], K, L)
               PROVE  m \in DOMAIN queue' /\ RequestFits(queue'[m], K, L)
    BY <1>3, <1>5, JobIds
  <2>1. m \in DOMAIN queue /\ RequestFits(queue[m], K, L)
    BY JobIds DEF May
  <2>2. m \in DOMAIN queue' /\ queue'[m].kind = queue[m].kind /\ queue'[m].refs = queue[m].refs
    BY <2>1 DEF KeptRequests, RequestFits
  <2> QED BY <2>1, <2>2 DEF RequestFits
<1>10. \A n \in 1..MaxReplays :
         SameShape(job[ReplayJob(n)], item[ReplayJob(n)], job'[ReplayJob(n)], item'[ReplayJob(n)])
  <2> SUFFICES ASSUME NEW n \in 1..MaxReplays, ReplayJob(n) = j
               PROVE  SameShape(job[j], item[j], K, L)
    BY <1>3, <1>5, JobIds
  <2> QED BY JobIds DEF May
<1>11. JobsInv'
  <2>1. replays' = replays
    OBVIOUS
  <2> QED BY <1>3, <1>4, <1>8, <1>9, <1>10, <2>1, JobsKept
<1> QED BY <1>3, <1>6, <1>7, <1>11

(* Such a step, of somebody who is no invocation or stays where it is. *)
LEMMA OneJob ==
  ASSUME IInv, NEW j \in Jobs, NEW K, NEW L, Fits(K, L), SameShape(job[j], item[j], K, L),
         job' = [job EXCEPT ![j] = K], item' = [item EXCEPT ![j] = L],
         UNCHANGED <<world, puts, queue, org, replays>>,
         \A p \in Invocations : Held(org[p], j) /\ Leased(job[j]) => Leased(K),
         \A c \in Ids : item[j][c].sent => L[c].sent,
         job[j].status \in TerminalJob => K.status \in TerminalJob
  PROVE  IInv'
<1>1. KeptRequests
  BY DEF KeptRequests
<1>2. job[j].sealed => K.sealed
  BY DEF SameShape
<1>3. /\ JobsInv' /\ KeptSeals /\ KeptEnds /\ job'[j] = K
      /\ \A i \in Jobs \ {j} : job'[i] = job[i] /\ item'[i] = item[i]
  <2>1. JobsInv /\ replays' = replays
    BY DEF IInv
  <2>2. May(j, K, L)
    BY DEF May
  <2>3. JobsInv' /\ KeptSeals /\ KeptEnds
    BY <1>1, <1>2, <2>1, <2>2, JobStep
  <2>4. job \in [Jobs -> JobRecord] /\ item \in [Jobs -> [Ids -> ItemRecord]]
    BY <2>1 DEF JobsInv
  <2>5. job'[j] = K /\ \A i \in Jobs \ {j} : job'[i] = job[i] /\ item'[i] = item[i]
    BY <2>4
  <2> QED BY <2>3, <2>5
<1>4. WorldInv'
  BY <1>3, WorldStays DEF IInv
<1>5. OrgInv'
  <2>1. \A p \in Invocations : \A f \in Identities :
           Held(org[p], FileJob(f)) /\ Leased(job[FileJob(f)]) => Leased(job'[FileJob(f)])
    BY <1>3, JobIds
  <2>2. puts' \in Histories /\ Extends(puts, puts')
    BY PutsKept DEF IInv
  <2>3. \A m \in DOMAIN queue : m \in DOMAIN queue' /\ queue'[m] = queue[m]
    OBVIOUS
  <2> QED BY <1>3, <2>1, <2>2, <2>3, OrgStays DEF IInv
<1> QED BY <1>3, <1>4, <1>5 DEF IInv

LEMMA LeaseExpiresStep ==
  ASSUME IInv, NEW j \in Jobs, LeaseExpires(j) PROVE IInv'
<1>1. PICK K : K = [job[j] EXCEPT !.lease = "expired"]
  OBVIOUS
<1>2. /\ job' = [job EXCEPT ![j] = K] /\ \A o \in Invocations : ~Holds(o, j)
      /\ UNCHANGED <<world, puts, queue, org, item, replays, crashes>>
  BY <1>1 DEF LeaseExpires
<1>3. item \in [Jobs -> [Ids -> ItemRecord]] /\ Fits(job[j], item[j])
  BY DEF IInv, JobsInv
<1>4. Fits(K, item[j]) /\ SameShape(job[j], item[j], K, item[j]) /\ K.status = job[j].status
  BY <1>1, <1>3, ExpiryFits DEF SameShape
<1>5. item' = [item EXCEPT ![j] = item[j]]
  BY <1>2, <1>3
<1>6. \A p \in Invocations : ~Held(org[p], j)
  BY <1>2 DEF Holds, Held
<1> QED BY <1>2, <1>4, <1>5, <1>6, OneJob

(* A chunk is sent, started or given back: its job item stays. *)
LEMMA MoveStep ==
  ASSUME IInv, NEW j \in Jobs, NEW c \in Ids, NEW q \in ItemRecord,
         item' = [item EXCEPT ![j][c] = q],
         UNCHANGED <<world, puts, queue, org, job, replays>>, job[j].sealed,
         item[j][c].status # "ABSENT", item[j][c].status \notin TerminalChunk,
         q.status # "ABSENT", q.status \notin TerminalChunk, q.file = item[j][c].file,
         item[j][c].sent => q.sent, q.sent \/ q.status = "PENDING",
         c = Stray => q.status = "PENDING"
  PROVE  IInv'
<1>1. /\ job \in [Jobs -> JobRecord] /\ item \in [Jobs -> [Ids -> ItemRecord]]
      /\ Fits(job[j], item[j])
  BY DEF IInv, JobsInv
<1>2. PICK I : I = item[j]
  OBVIOUS
<1>3. PICK L : L = [I EXCEPT ![c] = q]
  OBVIOUS
<1>4. item' = [item EXCEPT ![j] = L]
  BY <1>2, <1>3
<1>5. I \in [Ids -> ItemRecord] /\ I[c] = item[j][c]
  BY <1>1, <1>2
<1>6. L \in [Ids -> ItemRecord] /\ L[c] = q /\ \A d \in Ids \ {c} : L[d] = I[d]
  BY <1>3, <1>5
<1>7. ItemStep(I, c, L) /\ I[c].status \notin TerminalChunk /\ L[c].status \notin TerminalChunk
  BY <1>5, <1>6 DEF ItemStep
<1>8. Fits(job[j], L) /\ PayloadsOf(L) = PayloadsOf(I) /\ \A d \in Ids : I[d].sent => L[d].sent
  BY <1>1, <1>2, <1>6, <1>7, MoveFits
<1>9. SameShape(job[j], item[j], job[j], L)
  BY <1>2, <1>8 DEF SameShape
<1>10. job' = [job EXCEPT ![j] = job[j]]
  BY <1>1
<1> QED BY <1>2, <1>4, <1>8, <1>9, <1>10, OneJob

(* What an item that was sent is. *)
LEMMA SentFacts ==
  ASSUME IInv, NEW j \in Jobs, NEW c \in Ids
  PROVE  /\ item[j][c] \in ItemRecord /\ Fits(job[j], item[j])
         /\ item[j][c].status \notin {"ABSENT", "PENDING"} => item[j][c].sent
         /\ item[j][c].sent => job[j].sealed
<1>1. /\ item \in [Jobs -> [Ids -> ItemRecord]] /\ Fits(job[j], item[j])
  BY DEF IInv, JobsInv
<1> QED BY <1>1 DEF Fits, Unstarted

LEMMA StartStep ==
  ASSUME IInv, NEW j \in Jobs, NEW c \in Chunks, StartChunk(j, c) PROVE IInv'
<1>1. /\ item[j][c].sent /\ item[j][c].status \in {"PENDING", "RETRY_PENDING"}
      /\ item' = [item EXCEPT ![j][c].status = "RUNNING"] /\ c # Stray
      /\ UNCHANGED <<world, puts, queue, org, job, replays>>
  BY DEF StartChunk
<1>2. c \in Ids /\ item[j][c] \in ItemRecord /\ job[j].sealed
  BY <1>1, SentFacts DEF Ids
<1>3. PICK q : q = [item[j][c] EXCEPT !.status = "RUNNING"]
  OBVIOUS
<1>4. q \in ItemRecord /\ q.status = "RUNNING" /\ q.file = item[j][c].file /\ q.sent
  BY <1>1, <1>2, <1>3 DEF ItemRecord
<1>5. item' = [item EXCEPT ![j][c] = q]
  BY <1>1, <1>3
<1> QED BY <1>1, <1>2, <1>4, <1>5, MoveStep DEF TerminalChunk

LEMMA FinishStep ==
  ASSUME IInv, NEW j \in Jobs, NEW c \in Chunks, NEW s \in {"COMPLETED", "FAILED"},
         NEW x \in Contents \cup {Gone}, s = "COMPLETED" => x = item[j][c].file.content,
         FinishChunk(j, c, s, x), UNCHANGED <<world, puts, queue, org, replays>>
  PROVE  IInv'
<1>1. /\ item[j][c].status = "RUNNING" /\ job[j].status \in OpenForResults
      /\ item' = [item EXCEPT ![j][c] = [item[j][c] EXCEPT !.status = s, !.read = x]]
      /\ job' = [job EXCEPT ![j] = AfterChunk(j, s)]
  BY DEF FinishChunk
<1>2. /\ c \in Ids /\ item[j][c] \in ItemRecord /\ Fits(job[j], item[j]) /\ item[j][c].sent
      /\ job \in [Jobs -> JobRecord] /\ item \in [Jobs -> [Ids -> ItemRecord]]
  BY <1>1, SentFacts DEF Ids, IInv, JobsInv
<1>3. PICK I : I = item[j]
  OBVIOUS
<1>4. PICK J : J = job[j]
  OBVIOUS
<1>5. PICK q : q = [item[j][c] EXCEPT !.status = s, !.read = x]
  OBVIOUS
<1>6. q \in ItemRecord /\ q.status = s /\ q.read = x /\ q.sent /\ q.file = I[c].file
  BY <1>2, <1>3, <1>5 DEF ItemRecord
<1>7. PICK L : L = [I EXCEPT ![c] = q]
  OBVIOUS
<1>8. I \in [Ids -> ItemRecord] /\ J \in JobRecord /\ Fits(J, I) /\ I[c].status = "RUNNING"
      /\ J.status \in OpenForResults
  BY <1>1, <1>2, <1>3, <1>4
<1>9. L \in [Ids -> ItemRecord] /\ L[c] = q /\ \A d \in Ids \ {c} : L[d] = I[d]
  BY <1>2, <1>6, <1>7, <1>8
<1>10. item' = [item EXCEPT ![j] = L]
  <2>1. item' = [item EXCEPT ![j][c] = q]
    BY <1>1, <1>5, Zenon
  <2> QED BY <2>1, <1>3, <1>7
<1>11. ItemStep(I, c, L)
  BY <1>6, <1>8, <1>9 DEF ItemStep
<1>12. Ended(j) = EndedOf(I)
  BY <1>2, <1>3 DEF Ended, EndedOf
<1>13. PICK K : K = AfterChunk(j, s)
  OBVIOUS
<1>14. PICK t : t = (IF ~J.sealed \/ Cardinality(EndedOf(I)) + 1 < J.expected THEN "RUNNING"
           ELSE IF s = "FAILED" \/ \E d \in EndedOf(I) : I[d].status = "FAILED"
             THEN "FAILED" ELSE "COMPLETED")
  OBVIOUS
<1>15. K = [J EXCEPT !.status = t]
  BY <1>3, <1>4, <1>12, <1>13, <1>14 DEF AfterChunk
<1>16. t \in {"RUNNING", "COMPLETED", "FAILED"}
  BY <1>14
<1>17. /\ K \in JobRecord /\ K.file = J.file /\ K.expected = J.expected /\ K.sealed = J.sealed
       /\ K.status = t
  BY <1>8, <1>15, <1>16 DEF JobRecord
<1>18. /\ Fits(K, L) /\ PayloadsOf(L) = PayloadsOf(I) /\ \A d \in Ids : I[d].sent => L[d].sent
  <2>1. s = "COMPLETED" => L[c].read = I[c].file.content
    BY <1>3, <1>6, <1>9
  <2>2. L[c].status = s
    BY <1>6, <1>9
  <2> QED BY <1>8, <1>11, <1>14, <1>17, <2>1, <2>2, FinishFits
<1>19. SameShape(J, I, K, L)
  BY <1>8, <1>16, <1>17, <1>18 DEF SameShape, OpenForResults
<1>20. job[j].status \notin TerminalJob /\ ~Leased(job[j])
  BY <1>1 DEF OpenForResults, TerminalJob, Leased
<1>21. job' = [job EXCEPT ![j] = K]
  BY <1>1, <1>13
<1> QED BY <1>3, <1>4, <1>10, <1>18, <1>19, <1>20, <1>21, OneJob

LEMMA CompleteStep ==
  ASSUME IInv, NEW j \in Jobs, NEW c \in Chunks, CompleteChunk(j, c) PROVE IInv'
<1>1. PICK x : x = ReadRange(item[j][c].file)
  OBVIOUS
<1>2. /\ FinishChunk(j, c, "COMPLETED", x) /\ x # Gone
      /\ UNCHANGED <<world, puts, queue, org, replays>>
  BY <1>1 DEF CompleteChunk
<1>3. x = item[j][c].file.content
  BY <1>1, <1>2 DEF ReadRange
<1>4. x \in Contents \cup {Gone}
  <2>1. c \in Ids
    BY DEF Ids
  <2>2. item[j][c].file \in Identities \cup {NoIdentity}
    BY <2>1, SentFacts DEF ItemRecord
  <2>3. NoIdentity.content = Gone
    BY DEF NoIdentity
  <2> QED BY <1>3, <2>2, <2>3, ChunkNumbers
<1>5. PICK s \in {"COMPLETED", "FAILED"} : s = "COMPLETED"
  OBVIOUS
<1>6. FinishChunk(j, c, s, x)
  BY <1>2, <1>5
<1> QED BY <1>2, <1>3, <1>4, <1>6, FinishStep

LEMMA FailStep ==
  ASSUME IInv, NEW j \in Jobs, NEW c \in Chunks, FailChunk(j, c) PROVE IInv'
<1>1. UNCHANGED <<world, puts, queue, org, replays>>
  BY DEF FailChunk
<1>2. CASE FinishChunk(j, c, "FAILED", Gone)
  <2>1. PICK s \in {"COMPLETED", "FAILED"} : s = "FAILED"
    OBVIOUS
  <2>2. PICK x \in Contents \cup {Gone} : x = Gone
    OBVIOUS
  <2>3. FinishChunk(j, c, s, x) /\ s # "COMPLETED"
    BY <1>2, <2>1, <2>2
  <2> QED BY <1>1, <2>3, FinishStep
<1>3. CASE /\ item[j][c].status = "RUNNING"
           /\ item' = [item EXCEPT ![j][c].status = "RETRY_PENDING"]
           /\ UNCHANGED job
  <2>1. c \in Ids /\ c # Stray
    BY ChunkNumbers DEF Ids
  <2>2. item[j][c] \in ItemRecord /\ item[j][c].sent /\ job[j].sealed
    BY <1>3, <2>1, SentFacts
  <2>3. PICK q : q = [item[j][c] EXCEPT !.status = "RETRY_PENDING"]
    OBVIOUS
  <2>4. q \in ItemRecord /\ q.status = "RETRY_PENDING" /\ q.file = item[j][c].file /\ q.sent
    BY <2>2, <2>3 DEF ItemRecord
  <2>5. item' = [item EXCEPT ![j][c] = q]
    BY <1>3, <2>3
  <2> QED BY <1>1, <1>3, <2>1, <2>2, <2>4, <2>5, MoveStep DEF TerminalChunk
<1> QED BY <1>2, <1>3 DEF FailChunk

(* A message is given back or acknowledged. *)
LEMMA Released ==
  ASSUME WorldInv, OrgInv, NEW o \in Invocations, ~At(o, "idle"),
         NEW s \in {"visible", "deleted"}, Release(o, s), UNCHANGED <<world, puts, replays>>,
         KeptSeals, KeptEnds,
         \A p \in Invocations \ {o} : \A f \in Identities :
           Held(org[p], FileJob(f)) /\ Leased(job[FileJob(f)]) => Leased(job'[FileJob(f)]),
         s = "deleted" /\ queue[org[o].msg].kind = "notification" =>
           Served(queue[org[o].msg], Published', puts)
  PROVE  WorldInv' /\ OrgInv' /\ KeptRequests
<1> DEFINE m == org[o].msg
<1>1. Working(org[o], queue, versioning, job, puts)
  BY IdleFacts DEF OrgInv, At
<1>2. m \in DOMAIN queue /\ queue[m].state = "inflight"
  BY <1>1 DEF Working
<1>3. queue \in Seq(Message) /\ queue[m] \in Message
  BY <1>2 DEF WorldInv
<1>4. org' = [org EXCEPT ![o] = Idle] /\ queue' = [queue EXCEPT ![m].state = s]
  BY DEF Release
<1>5. PICK M : M = [queue[m] EXCEPT !.state = s]
  OBVIOUS
<1>6. M \in Message /\ M.kind = queue[m].kind /\ M.refs = queue[m].refs /\ M.state = s
  BY <1>3, <1>5 DEF Message
<1>7. queue' = [queue EXCEPT ![m] = M]
  BY <1>4, <1>5
<1> HIDE DEF m
<1>8. SameMessages /\ queue'[m] = M /\ \A k \in DOMAIN queue : k # m => queue'[k] = queue[k]
  BY <1>2, <1>3, <1>6, <1>7 DEF SameMessages
<1>9. WorldInv' /\ KeptRequests
  <2>1. \A k \in DOMAIN queue :
          queue'[k].state = "deleted" /\ queue[k].kind = "notification" =>
             queue[k].state = "deleted" \/ Served(queue[k], Published', puts)
    <3> SUFFICES ASSUME NEW k \in DOMAIN queue, queue'[k].state = "deleted",
                        queue[k].kind = "notification", queue[k].state # "deleted"
                 PROVE  Served(queue[k], Published', puts)
      OBVIOUS
    <3>1. k = m
      BY <1>8
    <3>2. s = "deleted"
      BY <1>6, <1>8, <3>1
    <3> QED BY <3>1, <3>2 DEF m
  <2> QED BY <1>8, <2>1, WorldKept
<1>10. OrgInv'
  <2>1. puts' \in Histories /\ Extends(puts, puts')
    BY PutsKept
  <2>2. org \in [Invocations -> Invocation]
    BY DEF OrgInv
  <2>3. /\ org' \in [Invocations -> Invocation] /\ org'[o] = Idle
        /\ \A p \in Invocations \ {o} : org'[p] = org[p]
    BY <1>4, <2>2, IdleFacts
  <2>4. Alone(o)
    BY <2>3, IdleFacts DEF Alone
  <2>5. \A k \in DOMAIN queue : queue[k].state = "inflight" =>
           \/ \E p \in {o} : org[p].step # "idle" /\ org[p].msg = k
           \/ k \in DOMAIN queue' /\ queue'[k] = queue[k]
    <3>1. org[o].step # "idle"
      BY DEF At
    <3>2. DOMAIN queue' = DOMAIN queue
      BY <1>3, <1>7
    <3> QED BY <1>8, <3>1, <3>2 DEF m
  <2>6. {o} \in SUBSET Invocations /\ (\A p, q \in {o} : p = q) /\ \A p \in {o} : Alone(p)
    BY <2>4
  <2> QED BY <2>1, <2>3, <2>5, <2>6, OrgKept
<1> QED BY <1>9, <1>10

LEMMA NackSame ==
  ASSUME IInv, NEW o \in Invocations, ~At(o, "idle"), Nack(o),
         UNCHANGED <<world, puts, job, item, replays>>
  PROVE  IInv'
<1>1. KeptSeals /\ KeptEnds
  BY DEF KeptSeals, KeptEnds
<1>2. PICK s \in {"visible", "deleted"} : s = "visible"
  OBVIOUS
<1>3. Release(o, s) /\ s # "deleted"
  BY <1>2 DEF Nack
<1>4. \A p \in Invocations \ {o} : \A f \in Identities :
           Held(org[p], FileJob(f)) /\ Leased(job[FileJob(f)]) => Leased(job'[FileJob(f)])
  OBVIOUS
<1>5. WorldInv' /\ OrgInv' /\ KeptRequests
  BY <1>1, <1>3, <1>4, Released DEF IInv
<1>6. JobsInv'
  BY <1>5, JobsSame DEF IInv
<1> QED BY <1>5, <1>6 DEF IInv

LEMMA CrashStep ==
  ASSUME IInv, NEW o \in Invocations, Crash(o) PROVE IInv'
<1>1. ~At(o, "idle") /\ Nack(o) /\ UNCHANGED <<world, puts, job, item, replays>>
  BY DEF Crash
<1> QED BY <1>1, NackSame

(* Replay adds one job. *)
LEMMA ReplayStep ==
  ASSUME IInv, NEW j \in Jobs, NEW wanted \in SUBSET Chunks, Replay(j, wanted) PROVE IInv'
<1> DEFINE n == Len(replays) + 1
           r == ReplayJob(n)
           chunks == ReplayedChunks(j, wanted)
           strays == StraysIn(j, wanted)
<1>1. /\ Len(replays) < limit.replays /\ Cardinality(chunks) + strays > 0
      /\ wanted # {} => chunks = wanted
      /\ replays' = Append(replays, [of |-> j, wanted |-> wanted, chunks |-> chunks])
      /\ UNCHANGED <<world, puts, queue, org, crashes>>
  BY DEF Replay
<1>2. /\ job \in [Jobs -> JobRecord] /\ item \in [Jobs -> [Ids -> ItemRecord]]
      /\ \A i \in Jobs : Fits(job[i], item[i])
      /\ replays \in Seq(Replayed) /\ limit \in Limits
  BY DEF IInv, JobsInv, WorldInv
<1>3. n \in Nat /\ n >= 1 /\ n <= MaxReplays /\ n \in 1..MaxReplays /\ n \notin DOMAIN replays
  <2>1. Len(replays) \in Nat /\ DOMAIN replays = 1..Len(replays)
    BY <1>2
  <2>2. limit.replays \in Nat /\ MaxReplays \in Nat /\ limit.replays <= MaxReplays
    BY <1>2, Bounds
  <2> QED BY <1>1, <2>1, <2>2
<1>4. r \in Jobs
  BY <1>3, JobIds
<1>5. /\ job[r].status = "ABSENT" /\ PayloadsOf(item[r]) = {}
      /\ ~job[r].sealed /\ \A c \in Ids : ~item[r][c].sent
  <2>1. job[r].status = "ABSENT"
    BY <1>3 DEF IInv, JobsInv
  <2>2. Fits(job[r], item[r])
    BY <1>2, <1>4
  <2> QED BY <2>1, <2>2 DEF Fits
<1>6. chunks \subseteq PayloadsOf(item[j]) \ {Stray} /\ strays \in Nat
      /\ (wanted # {} => strays = 0)
  <2>1. chunks \subseteq PayloadsOf(item[j]) \ {Stray}
    <3>1. Payloads(j) = PayloadsOf(item[j])
      BY <1>2 DEF Payloads, PayloadsOf
    <3> QED BY <3>1, ChunkNumbers DEF ReplayedChunks
  <2>2. Strays(j) \in Nat
    <3> DEFINE T == {i \in DOMAIN replays : replays[i].of = j}
    <3>1. Cardinality(T) \in Nat
      <4>1. Len(replays) \in Nat /\ DOMAIN replays = 1..Len(replays)
        BY <1>2
      <4>2. IsFiniteSet(DOMAIN replays)
        <5>1. 1 \in Int /\ Len(replays) \in Int
          BY <4>1
        <5>2. IsFiniteSet(1..Len(replays))
          BY <5>1, FS_Interval, Zenon
        <5> QED BY <4>1, <5>2
      <4>3. T \subseteq DOMAIN replays
        OBVIOUS
      <4> QED BY <4>2, <4>3, FS_Subset, FS_CardinalityType
    <3> HIDE DEF T
    <3>2. PICK t \in Nat : t = Cardinality(T)
      BY <3>1
    <3>3. Strays(j) = (IF job[j].status \in TerminalJob THEN 1 ELSE 0) + t
                      + (IF Stray \in Payloads(j) THEN 1 ELSE 0)
      BY <3>2 DEF Strays, T
    <3> QED BY <3>3
  <2> QED BY <2>1, <2>2 DEF StraysIn
<1>7. PICK K : K = ReplayRecord(item[j], chunks, strays)
  OBVIOUS
<1>8. PICK L : L = ReplayItems(item[j], item[r], chunks, strays)
  OBVIOUS
<1>9. job' = [job EXCEPT ![r] = K]
  BY <1>7 DEF Replay, ReplayRecord
<1>10. item' = [item EXCEPT ![r] = L]
  <2>1. item' = [item EXCEPT ![r] = [c \in DOMAIN item[r] |->
          IF c \in chunks \/ (c = Stray /\ strays > 0)
            THEN [NoItem EXCEPT !.status = "PENDING", !.sent = TRUE, !.file = item[j][c].file]
            ELSE item[r][c]]]
    BY DEF Replay
  <2>2. DOMAIN item[r] = Ids
    BY <1>2, <1>4
  <2> QED BY <1>8, <2>1, <2>2 DEF ReplayItems
<1> HIDE DEF n, r, chunks, strays
<1>11. /\ Fits(K, L) /\ K.status = "PENDING" /\ K.sealed
       /\ PayloadsOf(L) \ {Stray} = chunks
       /\ (Stray \in PayloadsOf(L) <=> strays > 0)
       /\ K.expected = Cardinality(chunks) + strays /\ Cardinality(chunks) \in Nat
  <2>1. Fits(job[j], item[j]) /\ item[r] \in [Ids -> ItemRecord]
    BY <1>2, <1>4
  <2> QED BY <2>1, <1>1, <1>5, <1>6, <1>7, <1>8, ReplayedFits
<1>12. K \in JobRecord /\ L \in [Ids -> ItemRecord]
  BY <1>11 DEF Fits
<1>13. /\ job' \in [Jobs -> JobRecord] /\ item' \in [Jobs -> [Ids -> ItemRecord]]
       /\ job'[r] = K /\ item'[r] = L
       /\ \A i \in Jobs : i # r => job'[i] = job[i] /\ item'[i] = item[i]
  BY <1>2, <1>4, <1>9, <1>10, <1>12
<1>14. \A f \in Identities : job'[FileJob(f)] = job[FileJob(f)] /\ item'[FileJob(f)] = item[FileJob(f)]
  BY <1>13, JobIds DEF r
<1>15. KeptSeals /\ KeptEnds
  BY <1>5, <1>13, <1>14 DEF KeptSeals, KeptEnds
<1>16. KeptRequests
  BY <1>1 DEF KeptRequests
<1>17. chunks \in SUBSET Chunks
  BY <1>6 DEF PayloadsOf, Ids
<1>18. /\ replays' \in Seq(Replayed) /\ Len(replays') = n
       /\ DOMAIN replays' = DOMAIN replays \cup {n}
       /\ replays'[n].wanted = wanted /\ replays'[n].chunks = chunks
       /\ \A i \in DOMAIN replays : replays'[i] = replays[i]
  <2>1. PICK e : e = [of |-> j, wanted |-> wanted, chunks |-> chunks]
    OBVIOUS
  <2>2. e \in Replayed /\ e.wanted = wanted /\ e.chunks = chunks
    BY <1>17, <2>1 DEF Replayed
  <2>3. replays \in Seq(Replayed) /\ replays' = Append(replays, e)
    BY <1>1, <1>2, <2>1
  <2>4. /\ replays' \in Seq(Replayed) /\ Len(replays') = n
        /\ DOMAIN replays' = DOMAIN replays \cup {n} /\ replays'[n] = e
        /\ \A i \in DOMAIN replays : replays'[i] = replays[i]
    BY <2>2, <2>3 DEF n
  <2> QED BY <2>2, <2>4
<1>19. JobsInv'
  <2>1. \A i \in Jobs : Fits(job'[i], item'[i])
    BY <1>2, <1>11, <1>13
  <2>3. \A i \in Jobs : i # r => SameShape(job[i], item[i], job'[i], item'[i])
    BY <1>13 DEF SameShape
  <2>7. ReplayFits(replays'[n], job'[ReplayJob(n)], item'[ReplayJob(n)])
    <3>1. Stray \notin PayloadsOf(L) => K.expected = Cardinality(chunks)
      BY <1>6, <1>11
    <3>2. Stray \in PayloadsOf(L) => K.expected > Cardinality(chunks) /\ wanted = {}
      BY <1>6, <1>11
    <3> QED BY <1>11, <1>13, <1>18, <3>1, <3>2 DEF ReplayFits, r
  <2>8. \A i \in 1..MaxReplays : i # n =>
          /\ i \in DOMAIN replays' <=> i \in DOMAIN replays
          /\ i \in DOMAIN replays => replays'[i] = replays[i]
          /\ SameShape(job[ReplayJob(i)], item[ReplayJob(i)], job'[ReplayJob(i)], item'[ReplayJob(i)])
    BY <1>18, <2>3, JobIds DEF r
  <2>9. /\ \A f \in Identities : SameShape(job[FileJob(f)], item[FileJob(f)],
                                             job'[FileJob(f)], item'[FileJob(f)])
        /\ \A m \in 1..MaxMessages : SameShape(job[RequestJob(m)], item[RequestJob(m)],
                                                job'[RequestJob(m)], item'[RequestJob(m)])
    BY <2>3, JobIds DEF r
  <2>10. JobsInv
    BY DEF IInv
  <2> QED BY <1>13, <1>16, <1>18, <2>1, <2>7, <2>8, <2>9, <2>10, JobsKept
<1>20. WorldInv'
  <2> DEFINE E == Published'
  <2>1. Published \subseteq E
    BY <1>15, PublishedKept
  <2> HIDE DEF E
  <2>2. \A m \in DOMAIN queue : MessageFits(queue[m], versioning, E, puts)
    <3> SUFFICES ASSUME NEW m \in DOMAIN queue
                 PROVE  MessageFits(queue[m], versioning, E, puts)
      OBVIOUS
    <3>1. MessageFits(queue[m], versioning, Published, puts)
      BY DEF IInv, WorldInv
    <3>2. Served(queue[m], Published, puts) => Served(queue[m], E, puts)
      BY <2>1 DEF Served
    <3> QED BY <3>1, <3>2 DEF MessageFits
  <2>3. limit' = limit /\ versioning' = versioning /\ puts' = puts /\ queue' = queue
    BY <1>1 DEF world
  <2>4. \A m \in DOMAIN queue' : MessageFits(queue'[m], versioning', Published', puts')
    BY <2>2, <2>3 DEF E
  <2> QED BY <1>3, <1>18, <2>3, <2>4 DEF IInv, WorldInv
<1>21. OrgInv'
  <2>1. \A p \in Invocations : \A f \in Identities :
           Held(org[p], FileJob(f)) /\ Leased(job[FileJob(f)]) => Leased(job'[FileJob(f)])
    BY <1>14
  <2>2. puts' \in Histories /\ Extends(puts, puts')
    BY <1>1, PutsKept DEF IInv
  <2>3. \A m \in DOMAIN queue : m \in DOMAIN queue' /\ queue'[m] = queue[m]
    BY <1>1
  <2> QED BY <1>1, <1>15, <2>1, <2>2, <2>3, OrgStays DEF IInv
<1> QED BY <1>19, <1>20, <1>21 DEF IInv

-----------------------------------------------------------------------------
(* The steps of an invocation. *)

LEMMA NextReferenceFacts ==
  ASSUME NEW r \in Invocation, NEW n, n = NextReference(r)
  PROVE  /\ n \in Invocation /\ n.msg = r.msg /\ n.at = r.at + 1
         /\ n.object = NoIdentity /\ n.plans = r.plans /\ n.jobIDs = r.jobIDs
         /\ n.step = (IF r.at = Len(queue[r.msg].refs) THEN "publish"
                      ELSE IF queue[r.msg].kind = "notification" THEN "head" ELSE "plan")
<1>1. /\ r.at \in Nat /\ r.at + 1 \in Nat /\ r.step \in Steps /\ r.msg \in Nat
      /\ r.object \in Identities \cup {NoIdentity}
      /\ r.plans \in Seq([job : Jobs, files : Seq(Identities)]) /\ r.jobIDs \in SUBSET Jobs
  BY DEF Invocation
<1>2. PICK s \in Steps : s = (IF r.at = Len(queue[r.msg].refs) THEN "publish"
                              ELSE IF queue[r.msg].kind = "notification" THEN "head" ELSE "plan")
  BY DEF Steps
<1>3. n = [r EXCEPT !.at = r.at + 1, !.object = NoIdentity, !.step = s]
  BY <1>2 DEF NextReference
<1> QED BY <1>1, <1>2, <1>3 DEF Invocation

LEMMA Advanced ==
  ASSUME OrgInv, WorldInv, NEW o \in Invocations, ~At(o, "idle"), NEW R \in Invocation,
         org' = [org EXCEPT ![o] = R], UNCHANGED <<world, puts, queue>>,
         Working(R, queue, versioning, job', puts), R.msg = org[o].msg,
         \A f \in Identities :
           Held(R, FileJob(f)) =>
             \/ Held(org[o], FileJob(f))
             \/ ~Leased(job[FileJob(f)]) /\ ~job[FileJob(f)].sealed,
         \A p \in Invocations \ {o} : \A f \in Identities :
           Held(org[p], FileJob(f)) /\ Leased(job[FileJob(f)]) => Leased(job'[FileJob(f)]),
         KeptEnds, KeptSeals
  PROVE  OrgInv'
<1>1. org \in [Invocations -> Invocation]
  BY DEF OrgInv
<1>2. /\ org' \in [Invocations -> Invocation] /\ org'[o] = R
      /\ \A p \in Invocations \ {o} : org'[p] = org[p]
  BY <1>1
<1>3. puts' \in Histories /\ Extends(puts, puts')
  BY PutsKept
<1>4. Alone(o)
  BY <1>2 DEF Alone, At, world
<1>5. \A k \in DOMAIN queue : k \in DOMAIN queue' /\ queue'[k] = queue[k]
  OBVIOUS
<1>6. {o} \in SUBSET Invocations /\ (\A p, q \in {o} : p = q) /\ \A p \in {o} : Alone(p)
  BY <1>4
<1> QED BY <1>2, <1>3, <1>5, <1>6, OrgKept

(* What HeadObject answers of an object that is there. *)
LEMMA HeadFacts ==
  ASSUME WorldInv, NEW k \in Keys, NEW v \in Versions, NEW f, f = HeadObject(k, v),
         f.content # Gone, v \in 1..MaxPuts => v <= Len(puts[k])
  PROVE  /\ f \in Identities /\ f.key = k
         /\ v \in 1..MaxPuts => f.version = v /\ f.content = puts[k][v]
         /\ v \notin 1..MaxPuts =>
              /\ Len(puts[k]) \in 1..MaxPuts
              /\ f.version = VersionsOf(versioning, Len(puts[k]))
              /\ f.content = puts[k][Len(puts[k])]
<1>1. /\ puts[k] \in Seq(Contents \cup {Gone}) /\ Len(puts[k]) \in Nat /\ Len(puts[k]) <= MaxPuts
      /\ limit \in Limits /\ versioning \in {"enabled", "suspended", "off"}
  BY DEF WorldInv
<1>2. MaxPuts \in Nat
  BY <1>1, Bounds
<1>3. CASE v \in 1..MaxPuts
  <2>1. f = [key |-> k, version |-> v, content |-> puts[k][v]]
    BY <1>3 DEF HeadObject
  <2>2. puts[k][v] \in Contents \cup {Gone}
    BY <1>1, <1>3
  <2> QED BY <1>3, <2>1, <2>2 DEF Identities
<1>4. CASE v \notin 1..MaxPuts
  <2>1. f = [key |-> k, version |-> VersionOf(Len(puts[k])), content |-> Current(k)]
    BY <1>4 DEF HeadObject
  <2>2. puts[k] # <<>> /\ Current(k) = puts[k][Len(puts[k])]
    BY <2>1 DEF Current, Last
  <2>3. Len(puts[k]) \in 1..MaxPuts
    BY <1>1, <1>2, <2>2
  <2>4. VersionOf(Len(puts[k])) = VersionsOf(versioning, Len(puts[k]))
        /\ VersionOf(Len(puts[k])) \in Versions
    BY <2>3 DEF VersionOf, VersionsOf, Versions
  <2>5. Current(k) \in Contents \cup {Gone}
    BY <1>1, <2>2, <2>3
  <2> QED BY <1>4, <2>1, <2>2, <2>3, <2>4, <2>5 DEF Identities
<1> QED BY <1>3, <1>4

(* The message of a busy invocation. *)
LEMMA WorkingFacts ==
  ASSUME WorldInv, OrgInv, NEW o \in Invocations, ~At(o, "idle")
  PROVE  LET r == org[o]  m == r.msg  M == queue[m] IN
         /\ r \in Invocation /\ Working(r, queue, versioning, job, puts)
         /\ m \in DOMAIN queue /\ M \in Message /\ M.state = "inflight"
         /\ M.refs \in Seq(Reference) /\ MessageFits(M, versioning, Published, puts)
         /\ r.at \in Nat /\ r.plans \in Seq([job : Jobs, files : Seq(Identities)])
         /\ M.kind \in {"notification", "request"}
         /\ r.step # "publish" =>
              /\ r.jobIDs = {}
              /\ r.at \in 1..Len(M.refs) /\ M.refs[r.at] \in Reference /\ Ref(o) = M.refs[r.at]
              /\ M.kind = "notification" => Noticed(versioning, puts, M.refs[r.at])
<1> DEFINE r == org[o]
           m == r.msg
           M == queue[m]
<1>1. r \in Invocation /\ Working(r, queue, versioning, job, puts)
  BY IdleFacts DEF OrgInv, At
<1>2. m \in DOMAIN queue /\ M.state = "inflight"
      /\ (r.step # "publish" => r.jobIDs = {} /\ r.at \in 1..Len(M.refs))
  BY <1>1 DEF Working, Persisted
<1>3. M \in Message /\ MessageFits(M, versioning, Published, puts)
  BY <1>2 DEF WorldInv
<1>4. M.refs \in Seq(Reference) /\ M.kind \in {"notification", "request"}
  BY <1>3 DEF Message
<1>5. r.at \in Nat /\ r.plans \in Seq([job : Jobs, files : Seq(Identities)])
  BY <1>1 DEF Invocation
<1>6. r.step # "publish" =>
        /\ r.jobIDs = {}
        /\ r.at \in 1..Len(M.refs) /\ M.refs[r.at] \in Reference /\ Ref(o) = M.refs[r.at]
        /\ M.kind = "notification" => Noticed(versioning, puts, M.refs[r.at])
  BY <1>2, <1>3, <1>4 DEF Ref, MessageFits
<1> QED BY <1>1, <1>2, <1>3, <1>4, <1>5, <1>6

LEMMA HeadStep ==
  ASSUME IInv, NEW o \in Invocations, HeadForAdmission(o) PROVE IInv'
<1>1. ~At(o, "idle") /\ org[o].step = "head" /\ UNCHANGED <<world, puts, job, item, replays, crashes>>
  BY DEF HeadForAdmission, At
<1>2. PICK f : f = HeadObject(Ref(o).key, Ref(o).version)
  OBVIOUS
<1>3. CASE f.content = Gone
  <2>1. Nack(o)
    BY <1>2, <1>3 DEF HeadForAdmission
  <2> QED BY <1>1, <2>1, NackSame
<1>4. CASE f.content # Gone
  <2> DEFINE M == queue[org[o].msg]
             ref == M.refs[org[o].at]
  <2>1. PICK R : R = [org[o] EXCEPT !.step = "admit", !.object = f]
    OBVIOUS
  <2>2. org' = [org EXCEPT ![o] = R] /\ UNCHANGED queue
    BY <1>2, <1>4, <2>1 DEF HeadForAdmission
  <2>3. /\ org[o] \in Invocation /\ Working(org[o], queue, versioning, job, puts)
        /\ M \in Message /\ M.state = "inflight" /\ MessageFits(M, versioning, Published, puts)
        /\ org[o].at \in 1..Len(M.refs) /\ ref \in Reference /\ Ref(o) = ref
        /\ org[o].jobIDs = {}
        /\ M.kind = "notification" => Noticed(versioning, puts, ref)
    BY <1>1, WorkingFacts DEF IInv
  <2>4. M.kind = "notification"
    BY <1>1, <2>3 DEF Working, RequestInv
  <2> HIDE DEF M, ref
  <2>5. /\ ref.key \in Keys /\ ref.version \in Versions /\ ref.put \in 1..Len(puts[ref.key])
        /\ ref.version = VersionsOf(versioning, ref.put)
    BY <2>3, <2>4 DEF Reference, Noticed
  <2>6. /\ versioning \in {"enabled", "suspended", "off"} /\ Len(puts[ref.key]) \in Nat
        /\ Len(puts[ref.key]) <= MaxPuts /\ MaxPuts \in Nat
    BY <2>5, Bounds DEF IInv, WorldInv
  <2>7. ref.put \in 1..MaxPuts
    BY <2>5, <2>6
  <2>8. IF versioning = "enabled" THEN ref.version = ref.put ELSE ref.version \notin 1..MaxPuts
    BY <2>5, <2>6 DEF VersionsOf, NullVersion, NoVersion
  <2>9. ref.version \in 1..MaxPuts => ref.version <= Len(puts[ref.key])
    BY <2>5, <2>6, <2>8
  <2>10. /\ f \in Identities /\ f.key = ref.key
         /\ ref.version \in 1..MaxPuts => f.version = ref.version
         /\ ref.version \notin 1..MaxPuts =>
              /\ Len(puts[ref.key]) \in 1..MaxPuts
              /\ f.version = VersionsOf(versioning, Len(puts[ref.key]))
              /\ f.content = puts[ref.key][Len(puts[ref.key])]
    BY <1>2, <1>4, <2>3, <2>5, <2>9, HeadFacts DEF IInv
  <2>11. Versioned(versioning, f)
    BY <2>5, <2>7, <2>10 DEF Versioned
  <2>12. Answered(puts, f, ref)
    <3>1. CASE ref.version \in 1..MaxPuts
      BY <2>10, <3>1 DEF Answered
    <3>2. CASE ref.version \notin 1..MaxPuts
      <4>1. Len(puts[ref.key]) \in ref.put..Len(puts[ref.key])
        BY <2>5, <2>6
      <4> QED BY <2>10, <3>2, <4>1 DEF Answered
    <3> QED BY <3>1, <3>2
  <2>13. /\ R \in Invocation /\ R.step = "admit" /\ R.object = f /\ R.msg = org[o].msg
         /\ R.at = org[o].at /\ R.plans = org[o].plans /\ R.jobIDs = {}
    BY <2>1, <2>3, <2>10 DEF Invocation, Steps
  <2>14. \A j : Held(R, j) <=> Held(org[o], j)
    BY <1>1, <2>13 DEF Held
  <2>15. NotificationInv(R, M, versioning, job, puts)
    <3>1. NotificationInv(org[o], M, versioning, job, puts)
      BY <2>3, <2>4 DEF Working, M
    <3>2. Pinned(R, M, versioning, puts)
      BY <2>10, <2>11, <2>12, <2>13 DEF Pinned, ref
    <3>3. FilePlans(R, job)
      BY <3>1, <2>3, <2>13, <2>14 DEF NotificationInv, FilePlans
    <3>4. Handled(R, M, job, puts)
      BY <3>1, <2>13 DEF NotificationInv, Handled
    <3> QED BY <3>2, <3>3, <3>4 DEF NotificationInv
  <2>16. Working(R, queue, versioning, job, puts)
    BY <2>3, <2>4, <2>13, <2>15 DEF Working, Persisted, M
  <2>17. KeptSeals /\ KeptEnds
    BY <1>1 DEF KeptSeals, KeptEnds
  <2>18. OrgInv'
    <3>1. Working(R, queue, versioning, job', puts)
      BY <1>1, <2>16
    <3> QED BY <1>1, <2>2, <2>13, <2>14, <2>17, <3>1, Advanced DEF IInv
  <2>19. WorldInv' /\ KeptRequests
    BY <1>1, <2>2, <2>17, WorldStays DEF IInv
  <2>20. JobsInv'
    BY <1>1, <2>19, JobsSame DEF IInv
  <2> QED BY <2>18, <2>19, <2>20 DEF IInv
<1> QED BY <1>3, <1>4

LEMMA ReceiveStep ==
  ASSUME IInv, NEW o \in Invocations, NEW m \in DOMAIN queue, Receive(o, m) PROVE IInv'
<1>1. /\ org[o].step = "idle" /\ queue[m].state = "visible"
      /\ queue' = [queue EXCEPT ![m].state = "inflight", ![m].receives = @ + 1]
      /\ org' = [org EXCEPT ![o] = NextReference([Idle EXCEPT !.msg = m])]
      /\ UNCHANGED <<world, puts, job, item, replays, crashes>>
  BY DEF Receive, At
<1>2. queue \in Seq(Message) /\ queue[m] \in Message /\ MessageFits(queue[m], versioning, Published, puts)
      /\ m \in Nat /\ org \in [Invocations -> Invocation]
  BY DEF IInv, WorldInv, OrgInv
<1>3. PICK M : M = [queue[m] EXCEPT !.state = "inflight", !.receives = @ + 1]
  OBVIOUS
<1>4. M \in Message /\ M.kind = queue[m].kind /\ M.refs = queue[m].refs /\ M.state = "inflight"
      /\ M.refs \in Seq(Reference) /\ M.kind \in {"notification", "request"}
  <2>1. queue[m].receives + 1 \in Nat
    BY <1>2 DEF Message
  <2> QED BY <1>2, <1>3, <2>1 DEF Message
<1>5. queue' = [queue EXCEPT ![m] = M]
  BY <1>1, <1>3
<1>6. /\ SameMessages /\ queue'[m] = M /\ DOMAIN queue' = DOMAIN queue
      /\ \A k \in DOMAIN queue : k # m => queue'[k] = queue[k]
  BY <1>2, <1>4, <1>5 DEF SameMessages
<1>7. KeptSeals /\ KeptEnds
  BY <1>1 DEF KeptSeals, KeptEnds
<1>8. WorldInv' /\ KeptRequests
  <2>1. \A k \in DOMAIN queue : queue'[k].state = "deleted" => queue[k].state = "deleted"
    BY <1>4, <1>6
  <2> QED BY <1>1, <1>6, <1>7, <2>1, WorldKept DEF IInv
<1>9. JobsInv'
  BY <1>1, <1>8, JobsSame DEF IInv
<1>10. PICK r : r = [Idle EXCEPT !.msg = m]
  OBVIOUS
<1>11. /\ r \in Invocation /\ r.msg = m /\ r.at = 0 /\ r.plans = <<>> /\ r.jobIDs = {}
  BY <1>2, <1>10, IdleFacts DEF Invocation, Idle
<1>12. PICK R : R = NextReference(r)
  OBVIOUS
<1>13. /\ R \in Invocation /\ R.msg = m /\ R.at = 1 /\ R.object = NoIdentity /\ R.plans = <<>>
       /\ R.jobIDs = {}
       /\ R.step = IF M.kind = "notification" THEN "head" ELSE "plan"
  <2>1. Len(M.refs) # 0
    BY <1>2, <1>4 DEF MessageFits
  <2> QED BY <1>4, <1>11, <1>12, <2>1, NextReferenceFacts
<1>14. \A f \in Identities : ~Held(R, FileJob(f))
  BY <1>13, ChunkNumbers, JobIds DEF Held
<1>15. Working(R, queue', versioning, job, puts)
  <2>1. /\ R.step # "idle" /\ R.step # "publish" /\ R.at \in 1..Len(M.refs)
    <3>1. Len(M.refs) \in Nat /\ Len(M.refs) # 0
      BY <1>2, <1>4 DEF MessageFits
    <3> QED BY <1>13, <3>1
  <2>4. Persisted(R, job)
    BY <1>13 DEF Persisted
  <2>2. CASE M.kind = "notification"
    <3>1. Pinned(R, M, versioning, puts)
      BY <1>13, <2>2 DEF Pinned
    <3>2. FilePlans(R, job)
      BY <1>13, <1>14, <2>2 DEF FilePlans
    <3>3. Handled(R, M, job, puts)
      BY <1>13 DEF Handled
    <3> QED BY <1>4, <1>6, <1>13, <2>1, <2>2, <2>4, <3>1, <3>2, <3>3 DEF Working, NotificationInv
  <2>3. CASE M.kind # "notification"
    <3>1. RequestInv(R, M)
      BY <1>13, <2>3 DEF RequestInv
    <3> QED BY <1>4, <1>6, <1>13, <2>1, <2>3, <2>4, <3>1 DEF Working
  <2> QED BY <2>2, <2>3
<1>16. OrgInv'
  <2>1. /\ org' \in [Invocations -> Invocation] /\ org'[o] = R
        /\ \A p \in Invocations \ {o} : org'[p] = org[p]
    BY <1>1, <1>2, <1>10, <1>12, <1>13
  <2>2. puts' \in Histories /\ Extends(puts, puts')
    BY <1>1, PutsKept DEF IInv
  <2>3. Alone(o)
    <3>1. Working(R, queue', versioning', job', puts')
      BY <1>1, <1>15 DEF world
    <3>2. queue[org'[o].msg].state # "inflight"
      BY <1>1, <1>13, <2>1
    <3> QED BY <1>14, <2>1, <3>1, <3>2 DEF Alone
  <2>4. \A k \in DOMAIN queue : queue[k].state = "inflight" => k \in DOMAIN queue' /\ queue'[k] = queue[k]
    BY <1>1, <1>6
  <2>5. \A p \in Invocations \ {o} : \A f \in Identities :
           Held(org[p], FileJob(f)) /\ Leased(job[FileJob(f)]) => Leased(job'[FileJob(f)])
    BY <1>1
  <2>6. {o} \in SUBSET Invocations /\ (\A p, q \in {o} : p = q) /\ \A p \in {o} : Alone(p)
    BY <2>3
  <2> QED BY <1>1, <1>7, <2>1, <2>2, <2>4, <2>5, <2>6, OrgKept DEF IInv
<1> QED BY <1>8, <1>9, <1>16 DEF IInv

(* The reference at hand has ended or is planned: on to the next one. *)
LEMMA MovesOn ==
  ASSUME IInv, NEW o \in Invocations, ~At(o, "idle"), org[o].step # "publish",
         NEW r \in Invocation, r.msg = org[o].msg, r.at = org[o].at, r.jobIDs = org[o].jobIDs,
         org' = [org EXCEPT ![o] = NextReference(r)],
         UNCHANGED <<world, puts, queue, job, item, replays>>,
         \A f \in Identities : (\E i \in DOMAIN r.plans : r.plans[i].job = FileJob(f))
                                 => Held(org[o], FileJob(f)),
         queue[org[o].msg].kind = "notification" =>
           /\ \A i \in DOMAIN r.plans :
                \E f \in Identities : r.plans[i] = [job |-> FileJob(f), files |-> <<f>>]
           /\ \A i, k \in DOMAIN r.plans : r.plans[i].job = r.plans[k].job => i = k
           /\ \A i \in 1..r.at : \E f \in Identities :
                /\ Answered(puts, f, queue[org[o].msg].refs[i])
                /\ \/ job[FileJob(f)].status \in TerminalJob
                   \/ \E k \in DOMAIN r.plans : r.plans[k].job = FileJob(f),
         queue[org[o].msg].kind # "notification" =>
           /\ Len(r.plans) = 1 /\ r.plans[1].job = RequestJob(r.msg)
           /\ Len(r.plans[1].files) = r.at
           /\ \A i \in 1..r.at : r.plans[1].files[i].key = queue[org[o].msg].refs[i].key
  PROVE  IInv'
<1> DEFINE M == queue[org[o].msg]
<1>1. /\ Working(org[o], queue, versioning, job, puts) /\ org[o].msg \in DOMAIN queue
      /\ M.state = "inflight" /\ org[o].at \in 1..Len(M.refs) /\ M.refs \in Seq(Reference)
      /\ M.kind \in {"notification", "request"} /\ r.jobIDs = {}
  BY WorkingFacts DEF IInv
<1>2. Len(M.refs) \in Nat /\ r.at \in Nat /\ r.at >= 1 /\ r.at <= Len(M.refs)
  BY <1>1
<1>3. PICK R : R = NextReference(r)
  OBVIOUS
<1>4. /\ R \in Invocation /\ R.msg = org[o].msg /\ R.at = r.at + 1
      /\ R.object = NoIdentity /\ R.plans = r.plans /\ R.jobIDs = {}
      /\ R.step = (IF r.at = Len(M.refs) THEN "publish"
                   ELSE IF M.kind = "notification" THEN "head" ELSE "plan")
  BY <1>1, <1>3, NextReferenceFacts
<1>5. \A f \in Identities : Held(R, FileJob(f)) => \E i \in DOMAIN r.plans : r.plans[i].job = FileJob(f)
  BY <1>4, ChunkNumbers, JobIds DEF Held
<1> HIDE DEF M
<1>6. /\ R.step # "idle"
      /\ IF R.step = "publish" THEN R.at = Len(M.refs) + 1 ELSE R.at \in 1..Len(M.refs)
  BY <1>1, <1>2, <1>4
<1>7. Working(R, queue, versioning, job, puts)
  <2>3. Persisted(R, job)
    BY <1>4 DEF Persisted
  <2>1. CASE M.kind = "notification"
    <3>1. FilePlans(org[o], job) /\ org[o].jobIDs = {}
      BY <1>1, <2>1 DEF Working, NotificationInv, M
    <3>2. Pinned(R, M, versioning, puts)
      BY <1>4, <2>1 DEF Pinned
    <3>3. FilePlans(R, job)
      <4>1. \A f \in Identities : Held(R, FileJob(f)) => Leased(job[FileJob(f)])
        BY <1>5, <3>1 DEF FilePlans
      <4>2. R.step # "plan" /\ R.plans = r.plans
        BY <1>4, <2>1
      <4>3. /\ \A i \in DOMAIN R.plans :
                 \E f \in Identities : R.plans[i] = [job |-> FileJob(f), files |-> <<f>>]
            /\ \A i, k \in DOMAIN R.plans : R.plans[i].job = R.plans[k].job => i = k
        BY <2>1, <4>2 DEF M
      <4> QED BY <4>1, <4>2, <4>3 DEF FilePlans
    <3>4. Handled(R, M, job, puts)
      <4>1. 1..(R.at - 1) = 1..r.at
        BY <1>2, <1>4
      <4> SUFFICES ASSUME NEW i \in 1..(R.at - 1)
                   PROVE  \E f \in Identities :
                            /\ Answered(puts, f, M.refs[i])
                            /\ \/ job[FileJob(f)].status \in TerminalJob
                               \/ \E k \in DOMAIN R.plans : R.plans[k].job = FileJob(f)
        BY DEF Handled
      <4>2. i \in 1..r.at
        BY <4>1
      <4>3. PICK f \in Identities :
              /\ Answered(puts, f, M.refs[i])
              /\ \/ job[FileJob(f)].status \in TerminalJob
                 \/ \E k \in DOMAIN r.plans : r.plans[k].job = FileJob(f)
        BY <2>1, <4>2 DEF M
      <4> QED BY <1>4, <4>3
    <3> QED BY <1>1, <1>4, <1>6, <2>1, <2>3, <3>2, <3>3, <3>4 DEF Working, NotificationInv, M
  <2>2. CASE M.kind # "notification"
    <3>1. RequestInv(R, M)
      <4>1. R.step \in {"plan", "publish"} /\ R.at # 1 /\ R.at - 1 = r.at
        BY <1>2, <1>4, <2>2
      <4> QED BY <1>4, <2>2, <4>1 DEF RequestInv, M
    <3> QED BY <1>1, <1>4, <1>6, <2>2, <2>3, <3>1 DEF Working, M
  <2> QED BY <2>1, <2>2
<1>8. KeptSeals /\ KeptEnds
  BY DEF KeptSeals, KeptEnds
<1>9. WorldInv' /\ KeptRequests
  BY <1>8, WorldStays DEF IInv
<1>10. JobsInv'
  BY <1>9, JobsSame DEF IInv
<1>11. OrgInv'
  <2>1. Working(R, queue, versioning, job', puts)
    BY <1>7
  <2>2. \A f \in Identities : Held(R, FileJob(f)) => Held(org[o], FileJob(f))
    BY <1>5
  <2> QED BY <1>3, <1>4, <1>8, <2>1, <2>2, Advanced DEF IInv
<1> QED BY <1>9, <1>10, <1>11 DEF IInv

LEMMA AdmitStep ==
  ASSUME IInv, NEW o \in Invocations, Admit(o) PROVE IInv'
<1> DEFINE f == org[o].object
           j == FileJob(f)
           M == queue[org[o].msg]
<1>1. ~At(o, "idle") /\ org[o].step = "admit" /\ UNCHANGED <<world, puts, item, replays, crashes>>
  BY DEF Admit, At
<1>2. /\ org[o] \in Invocation /\ Working(org[o], queue, versioning, job, puts)
      /\ org[o].msg \in DOMAIN queue /\ M.state = "inflight" /\ M.refs \in Seq(Reference)
      /\ org[o].at \in 1..Len(M.refs) /\ M.kind \in {"notification", "request"}
      /\ org[o].jobIDs = {}
  BY <1>1, WorkingFacts DEF IInv
<1>3. M.kind = "notification"
  BY <1>1, <1>2 DEF Working, RequestInv
<1>4. NotificationInv(org[o], M, versioning, job, puts)
  BY <1>2, <1>3 DEF Working
<1>5. f \in Identities /\ Versioned(versioning, f) /\ Answered(puts, f, M.refs[org[o].at])
  BY <1>1, <1>4 DEF NotificationInv, Pinned
<1>6. j \in Jobs /\ job \in [Jobs -> JobRecord] /\ item \in [Jobs -> [Ids -> ItemRecord]]
      /\ (\A i \in Jobs : Fits(job[i], item[i])) /\ org \in [Invocations -> Invocation]
  BY <1>5, JobIds DEF IInv, JobsInv, OrgInv
<1>7. CASE Acquirable(j) /\ Goto(o, "plan")
           /\ job' = [job EXCEPT ![j] =
                [job[j] EXCEPT !.status = "PLANNING", !.lease = "held", !.file = f]]
  <2>1. PICK K : K = [job[j] EXCEPT !.status = "PLANNING", !.lease = "held", !.file = f]
    OBVIOUS
  <2>2. job' = [job EXCEPT ![j] = K]
    BY <1>7, <2>1
  <2>3. job[j].status \in {"ABSENT", "PLANNING"} /\ ~Leased(job[j])
    <3>1. job[j] \in JobRecord
      BY <1>6
    <3> QED BY <1>7, <3>1 DEF Acquirable, JobRecord, LeasedStatuses, Leased
  <2>4. /\ Fits(K, item[j]) /\ FileFits(f, K, item[j])
        /\ K.status = "PLANNING" /\ K.lease = "held" /\ K.file = f
    <3>1. PICK J : J = job[j]
      OBVIOUS
    <3>2. PICK I : I = item[j]
      OBVIOUS
    <3>3. FileFits(f, J, I)
      BY <1>5, <3>1, <3>2 DEF IInv, JobsInv
    <3>4. K = AdmitRecord(J, f)
      BY <2>1, <3>1 DEF AdmitRecord
    <3>5. Fits(J, I) /\ J.status \in {"ABSENT", "PLANNING"}
      BY <1>6, <2>3, <3>1, <3>2
    <3>6. PICK g \in Identities : g = f
      BY <1>5
    <3>7. FileFits(g, J, I) /\ K = AdmitRecord(J, g)
      BY <3>3, <3>4, <3>6
    <3>8. /\ Fits(K, I) /\ FileFits(g, K, I)
          /\ K.status = "PLANNING" /\ K.lease = "held" /\ K.file = g
      BY ONLY g \in Identities, <3>5, <3>7, AdmitFits
    <3> QED BY <3>2, <3>6, <3>8
  <2>5. ~job[j].sealed /\ K \in JobRecord /\ job[j].status \notin TerminalJob
    <3>1. Fits(job[j], item[j])
      BY <1>6
    <3> QED BY <2>3, <2>4, <3>1 DEF Fits, TerminalJob
  <2>6. PICK R : R = [org[o] EXCEPT !.step = "plan"]
    OBVIOUS
  <2>7. org' = [org EXCEPT ![o] = R] /\ UNCHANGED queue
    BY <1>7, <2>6 DEF Goto
  <2>8. /\ R \in Invocation /\ R.step = "plan" /\ R.object = f /\ R.msg = org[o].msg
        /\ R.at = org[o].at /\ R.plans = org[o].plans /\ R.jobIDs = {}
    BY <1>2, <2>6 DEF Invocation, Steps
  <2> HIDE DEF f, j, M
  <2>21. KeptRequests
    BY <2>7 DEF KeptRequests
  <2>9. /\ JobsInv' /\ KeptSeals /\ KeptEnds /\ job'[j] = K
        /\ \A i \in Jobs \ {j} : job'[i] = job[i]
    <3>1. item' = [item EXCEPT ![j] = item[j]]
      BY <1>1, <1>6
    <3>2. May(j, K, item[j])
      BY <1>5, <2>4 DEF May, j, f
    <3>3. JobsInv /\ j \in Jobs /\ replays' = replays /\ Fits(K, item[j])
      BY <1>1, <1>6, <2>4 DEF IInv
    <3>4. /\ job[j].sealed => K.sealed
          /\ job[j].status \in TerminalJob => K.status \in TerminalJob
      BY <2>5
    <3>5. \A c \in Ids : item[j][c].sent => item[j][c].sent
      OBVIOUS
    <3>6. JobsInv' /\ KeptSeals /\ KeptEnds
      BY <2>2, <2>21, <3>1, <3>2, <3>3, <3>4, <3>5, JobStep
    <3>7. job'[j] = K /\ \A i \in Jobs \ {j} : job'[i] = job[i]
      BY <1>6, <2>2
    <3> QED BY <3>6, <3>7
  <2>10. KeptSeals
    BY <2>9
  <2>11. KeptEnds
    BY <2>9
  <2>12. WorldInv' /\ KeptRequests
    BY <1>1, <2>7, <2>10, WorldStays DEF IInv
  <2>13. JobsInv'
    BY <2>9
  <2>14. FilePlans(org[o], job) /\ org[o].jobIDs = {}
    BY <1>2, <1>4 DEF NotificationInv
  <2>15. \A g \in Identities : Leased(job[FileJob(g)]) => g # f /\ Leased(job'[FileJob(g)])
    BY <2>3, <2>9, JobIds DEF j
  <2>16. FilePlans(R, job')
    <3>1. \A g \in Identities : Held(R, FileJob(g)) => Leased(job'[FileJob(g)])
      <4> SUFFICES ASSUME NEW g \in Identities, Held(R, FileJob(g))
                   PROVE  Leased(job'[FileJob(g)])
        OBVIOUS
      <4>1. CASE g = f
        BY <2>4, <2>9, <4>1 DEF Leased, j
      <4>2. CASE g # f
        <5>1. FileJob(g) # FileJob(f)
          BY <4>2, JobIds
        <5>2. Held(org[o], FileJob(g))
          BY <2>8, <5>1 DEF Held
        <5> QED BY <2>14, <2>15, <5>2 DEF FilePlans
      <4> QED BY <4>1, <4>2
    <3>2. \A i \in DOMAIN R.plans : R.plans[i].job # FileJob(R.object)
      <4> SUFFICES ASSUME NEW i \in DOMAIN R.plans, R.plans[i].job = FileJob(f) PROVE FALSE
        BY <2>8
      <4>1. Held(org[o], FileJob(f))
        BY <2>8 DEF Held
      <4> QED BY <1>5, <2>14, <2>15, <4>1 DEF FilePlans
    <3> QED BY <2>8, <2>14, <3>1, <3>2 DEF FilePlans
  <2>17. Pinned(R, M, versioning, puts)
    BY <1>5, <2>8 DEF Pinned
  <2>18. Handled(R, M, job', puts)
    <3>1. Handled(org[o], M, job, puts)
      BY <1>4 DEF NotificationInv
    <3> QED BY <2>8, <2>11, <3>1 DEF Handled, KeptEnds
  <2>19. Working(R, queue, versioning, job', puts)
    BY <1>2, <1>3, <2>8, <2>16, <2>17, <2>18 DEF Working, NotificationInv, Persisted, M
  <2>20. OrgInv'
    <3>1. \A g \in Identities : Held(R, FileJob(g)) =>
            Held(org[o], FileJob(g)) \/ (~Leased(job[FileJob(g)]) /\ ~job[FileJob(g)].sealed)
      BY <2>3, <2>5, <2>8 DEF Held, j
    <3>2. \A p \in Invocations \ {o} : \A g \in Identities :
           Held(org[p], FileJob(g)) /\ Leased(job[FileJob(g)]) => Leased(job'[FileJob(g)])
      BY <2>15
    <3> QED BY <1>1, <2>7, <2>8, <2>10, <2>11, <2>19, <3>1, <3>2, Advanced DEF IInv
  <2> QED BY <2>12, <2>13, <2>20 DEF IInv
<1>8. CASE /\ Skipped(j) /\ UNCHANGED <<job, queue>>
           /\ org' = [org EXCEPT ![o] = NextReference(org[o])]
  <2>1. FilePlans(org[o], job) /\ Handled(org[o], M, job, puts)
    BY <1>4 DEF NotificationInv
  <2>2. job[FileJob(f)].status \in TerminalJob
    BY <1>8 DEF Skipped
  <2> HIDE DEF f, j, M
  <2>3. \A i \in 1..org[o].at : \E g \in Identities :
                /\ Answered(puts, g, M.refs[i])
                /\ \/ job[FileJob(g)].status \in TerminalJob
                   \/ \E k \in DOMAIN org[o].plans : org[o].plans[k].job = FileJob(g)
    <3> SUFFICES ASSUME NEW i \in 1..org[o].at
                 PROVE  \E g \in Identities :
                          /\ Answered(puts, g, M.refs[i])
                          /\ \/ job[FileJob(g)].status \in TerminalJob
                             \/ \E k \in DOMAIN org[o].plans : org[o].plans[k].job = FileJob(g)
      OBVIOUS
    <3>1. CASE i = org[o].at
      BY <1>5, <2>2, <3>1
    <3>2. CASE i # org[o].at
      <4>1. i \in 1..(org[o].at - 1)
        <5>1. org[o].at \in Nat
          BY <1>2 DEF Invocation
        <5> QED BY <3>2, <5>1
      <4> QED BY <2>1, <4>1 DEF Handled
    <3> QED BY <3>1, <3>2
  <2>4. \A g \in Identities : (\E i \in DOMAIN org[o].plans : org[o].plans[i].job = FileJob(g))
                                 => Held(org[o], FileJob(g))
    BY DEF Held
  <2>5. PICK r \in Invocation : r = org[o]
    BY <1>2
  <2>6. /\ r.msg = org[o].msg /\ r.at = org[o].at /\ r.jobIDs = org[o].jobIDs /\ org' = [org EXCEPT ![o] = NextReference(r)]
        /\ UNCHANGED <<world, puts, queue, job, item, replays>> /\ org[o].step # "publish"
    BY <1>1, <1>8, <2>5
  <2>7. \A g \in Identities : (\E i \in DOMAIN r.plans : r.plans[i].job = FileJob(g))
                                 => Held(org[o], FileJob(g))
    BY <2>4, <2>5
  <2>8. /\ \A i \in DOMAIN r.plans :
                \E g \in Identities : r.plans[i] = [job |-> FileJob(g), files |-> <<g>>]
        /\ \A i, k \in DOMAIN r.plans : r.plans[i].job = r.plans[k].job => i = k
        /\ \A i \in 1..r.at : \E g \in Identities :
                /\ Answered(puts, g, queue[org[o].msg].refs[i])
                /\ \/ job[FileJob(g)].status \in TerminalJob
                   \/ \E k \in DOMAIN r.plans : r.plans[k].job = FileJob(g)
    BY <2>1, <2>3, <2>5 DEF FilePlans, M
  <2>9. queue[org[o].msg].kind = "notification"
    BY <1>3 DEF M
  <2> QED BY <1>1, <2>6, <2>7, <2>8, <2>9, MovesOn
<1>9. CASE Nack(o) /\ UNCHANGED job
  BY <1>1, <1>9, NackSame
<1>10. \/ Acquirable(j) /\ Goto(o, "plan")
           /\ job' = [job EXCEPT ![j] =
                [job[j] EXCEPT !.status = "PLANNING", !.lease = "held", !.file = f]]
       \/ /\ Skipped(j) /\ UNCHANGED <<job, queue>>
          /\ org' = [org EXCEPT ![o] = NextReference(org[o])]
       \/ Nack(o) /\ UNCHANGED job
  BY DEF Admit
<1> QED BY <1>7, <1>8, <1>9, <1>10

(* The second look of a notification finds the admitted object, or fails. *)
LEMMA SecondLook ==
  ASSUME WorldInv, NEW ref \in Reference, Noticed(versioning, puts, ref),
         NEW g \in Identities, Versioned(versioning, g), Answered(puts, g, ref),
         NEW f, f = HeadObject(ref.key, g.version), f.content = g.content
  PROVE  f = g
<1>1. /\ ref.key \in Keys /\ ref.put \in 1..Len(puts[ref.key]) /\ g.key = ref.key
      /\ ref.version = VersionsOf(versioning, ref.put)
      /\ versioning \in {"enabled", "suspended", "off"} /\ g.version \in Versions
      /\ g = [key |-> g.key, version |-> g.version, content |-> g.content]
  BY DEF Reference, Noticed, Answered, WorldInv, Identities
<1>2. Len(puts[ref.key]) \in Nat /\ Len(puts[ref.key]) <= MaxPuts /\ MaxPuts \in Nat
  BY <1>1, Bounds DEF WorldInv
<1>3. PICK i \in 1..MaxPuts : g.version = VersionsOf(versioning, i)
  BY DEF Versioned
<1>4. f.content # Gone
  BY ChunkNumbers
<1>5. g.version \in 1..MaxPuts => versioning = "enabled" /\ g.version <= Len(puts[ref.key])
  <2> SUFFICES ASSUME g.version \in 1..MaxPuts
               PROVE  versioning = "enabled" /\ g.version <= Len(puts[ref.key])
    OBVIOUS
  <2>1. versioning = "enabled"
    BY <1>1, <1>2, <1>3 DEF VersionsOf, NullVersion, NoVersion
  <2>2. ref.version = ref.put /\ ref.put \in 1..MaxPuts
    BY <1>1, <1>2, <2>1 DEF VersionsOf
  <2>3. g.version = ref.put
    BY <2>2 DEF Answered
  <2> QED BY <1>1, <1>2, <2>1, <2>3
<1>6. /\ f \in Identities /\ f.key = ref.key
      /\ g.version \in 1..MaxPuts => f.version = g.version
      /\ g.version \notin 1..MaxPuts =>
              f.version = VersionsOf(versioning, Len(puts[ref.key]))
  BY <1>1, <1>4, <1>5, HeadFacts
<1>7. g.version \notin 1..MaxPuts =>
        \A k : VersionsOf(versioning, k) = VersionsOf(versioning, i)
  BY <1>1, <1>3 DEF VersionsOf
<1>8. f.version = g.version
  BY <1>3, <1>6, <1>7
<1>9. f = [key |-> f.key, version |-> f.version, content |-> f.content]
  BY <1>6 DEF Identities
<1> QED BY <1>1, <1>6, <1>8, <1>9

LEMMA PlanStep ==
  ASSUME IInv, NEW o \in Invocations, Plan(o) PROVE IInv'
<1> DEFINE M == queue[org[o].msg]
           pinned == M.kind = "notification"
           f == HeadObject(Ref(o).key, org[o].object.version)
           j == IF pinned THEN FileJob(org[o].object) ELSE RequestJob(org[o].msg)
           plans == org[o].plans
           ref == M.refs[org[o].at]
<1>1. ~At(o, "idle") /\ org[o].step = "plan" /\ UNCHANGED <<world, puts, job, item, replays, crashes>>
  BY DEF Plan, At
<1>2. /\ org[o] \in Invocation /\ Working(org[o], queue, versioning, job, puts)
      /\ org[o].msg \in DOMAIN queue /\ M.state = "inflight" /\ M.refs \in Seq(Reference)
      /\ org[o].at \in 1..Len(M.refs) /\ M.kind \in {"notification", "request"}
      /\ plans \in Seq([job : Jobs, files : Seq(Identities)])
      /\ ref \in Reference /\ Ref(o) = ref
      /\ M.kind = "notification" => Noticed(versioning, puts, ref)
  BY <1>1, WorkingFacts DEF IInv
<1>3. CASE f.content = Gone \/ (pinned /\ f.content # org[o].object.content)
  <2>1. Nack(o)
    BY <1>3 DEF Plan
  <2> QED BY <1>1, <2>1, NackSame
<1>4. CASE ~(f.content = Gone \/ (pinned /\ f.content # org[o].object.content))
  <2>1. PICK g : g = f
    OBVIOUS
  <2>2. PICK i : i = j
    OBVIOUS
  <2>3. PICK added : added = AddFile(plans, i, g)
    OBVIOUS
  <2>4. PICK r : r = [org[o] EXCEPT !.plans = added]
    OBVIOUS
  <2>5. org' = [org EXCEPT ![o] = NextReference(r)] /\ UNCHANGED queue
    BY <1>4, <2>1, <2>2, <2>3, <2>4 DEF Plan
  <2>6. g = HeadObject(ref.key, org[o].object.version) /\ g.content # Gone
    BY <1>2, <1>4, <2>1
  <2>7. ref.key \in Keys
    BY <1>2 DEF Reference
  <2>8. org[o].at \in Nat /\ org[o].at >= 1
    BY <1>2 DEF Invocation
  <2>9. CASE pinned
    <3>1. NotificationInv(org[o], M, versioning, job, puts)
      BY <1>2, <2>9 DEF Working
    <3>2. /\ org[o].object \in Identities /\ Versioned(versioning, org[o].object)
          /\ Answered(puts, org[o].object, ref)
      BY <1>1, <3>1 DEF NotificationInv, Pinned
    <3>3. g.content = org[o].object.content
      BY <1>4, <2>1, <2>9
    <3>4. g = org[o].object /\ i = FileJob(g)
      <4>1. Noticed(versioning, puts, ref)
        BY <1>2, <2>9
      <4>2. g = org[o].object
        BY <1>2, <2>6, <3>2, <3>3, <4>1, SecondLook DEF IInv
      <4> QED BY <2>2, <2>9, <4>2
    <3> HIDE DEF M, f, j, ref
    <3>5. FilePlans(org[o], job) /\ Handled(org[o], M, job, puts)
      BY <3>1 DEF NotificationInv
    <3>6. \A k \in DOMAIN plans : plans[k].job # FileJob(g)
      BY <1>1, <3>4, <3>5 DEF FilePlans
    <3>7. added = Append(plans, [job |-> i, files |-> <<g>>])
      <4>1. plans # <<>> => Last(plans).job # i
        <5> SUFFICES ASSUME plans # <<>> PROVE Last(plans).job # i
          OBVIOUS
        <5>1. Len(plans) \in DOMAIN plans /\ Last(plans) = plans[Len(plans)]
          BY <1>2 DEF Last
        <5> QED BY <3>4, <3>6, <5>1
      <4> QED BY <2>3, <4>1 DEF AddFile
    <3>8. PICK e : e = [job |-> i, files |-> <<g>>]
      OBVIOUS
    <3>9. e \in [job : Jobs, files : Seq(Identities)] /\ e.job = FileJob(g)
      BY <3>2, <3>4, <3>8, JobIds
    <3>10. PICK E : E = [job : Jobs, files : Seq(Identities)]
      OBVIOUS
    <3>11. plans \in Seq(E) /\ e \in E /\ added = Append(plans, e)
      BY <1>2, <3>7, <3>8, <3>9, <3>10
    <3> HIDE DEF plans
    <3>12. /\ added \in Seq(E) /\ DOMAIN added = 1..(Len(plans) + 1) /\ DOMAIN plans = 1..Len(plans)
           /\ Len(plans) \in Nat
           /\ added[Len(plans) + 1] = e /\ \A k \in DOMAIN plans : added[k] = plans[k]
           /\ \A k \in DOMAIN added : k \in DOMAIN plans \/ k = Len(plans) + 1
           /\ \A k \in DOMAIN plans : k \in DOMAIN added
      BY <3>11
    <3>13. /\ r \in Invocation /\ r.msg = org[o].msg /\ r.at = org[o].at
          /\ r.plans = added /\ r.jobIDs = org[o].jobIDs
      BY <1>2, <2>4, <3>10, <3>12 DEF Invocation
    <3>14. \A h \in Identities : (\E k \in DOMAIN r.plans : r.plans[k].job = FileJob(h))
                                   => Held(org[o], FileJob(h))
      <4> SUFFICES ASSUME NEW h \in Identities, NEW k \in DOMAIN added, added[k].job = FileJob(h)
                   PROVE  Held(org[o], FileJob(h))
        BY <3>13
      <4>1. CASE k \in DOMAIN plans
        BY <3>12, <4>1 DEF Held, plans
      <4>2. CASE k = Len(plans) + 1
        <5>1. FileJob(h) = FileJob(org[o].object)
          BY <3>4, <3>9, <3>12, <4>2
        <5> QED BY <1>1, <5>1 DEF Held
      <4> QED BY <3>12, <4>1, <4>2
    <3>15. \A k \in DOMAIN r.plans :
             \E h \in Identities : r.plans[k] = [job |-> FileJob(h), files |-> <<h>>]
      <4> SUFFICES ASSUME NEW k \in DOMAIN added
                   PROVE  \E h \in Identities : added[k] = [job |-> FileJob(h), files |-> <<h>>]
        BY <3>13
      <4>1. CASE k \in DOMAIN plans
        BY <3>5, <3>12, <4>1 DEF FilePlans, plans
      <4>2. CASE k = Len(plans) + 1
        BY <3>2, <3>4, <3>8, <3>12, <4>2
      <4> QED BY <3>12, <4>1, <4>2
    <3>16. \A k, l \in DOMAIN r.plans : r.plans[k].job = r.plans[l].job => k = l
      <4> SUFFICES ASSUME NEW k \in DOMAIN added, NEW l \in DOMAIN added,
                          added[k].job = added[l].job
                   PROVE  k = l
        BY <3>13
      <4>1. CASE k \in DOMAIN plans /\ l \in DOMAIN plans
        BY <3>5, <3>12, <4>1 DEF FilePlans, plans
      <4>2. CASE k \in DOMAIN plans /\ l = Len(plans) + 1
        BY <3>6, <3>9, <3>12, <4>2
      <4>3. CASE k = Len(plans) + 1 /\ l \in DOMAIN plans
        BY <3>6, <3>9, <3>12, <4>3
      <4> QED BY <3>12, <4>1, <4>2, <4>3
    <3>17. \A k \in 1..r.at : \E h \in Identities :
             /\ Answered(puts, h, M.refs[k])
             /\ \/ job[FileJob(h)].status \in TerminalJob
                \/ \E l \in DOMAIN r.plans : r.plans[l].job = FileJob(h)
      <4> SUFFICES ASSUME NEW k \in 1..org[o].at
                   PROVE  \E h \in Identities :
                            /\ Answered(puts, h, M.refs[k])
                            /\ \/ job[FileJob(h)].status \in TerminalJob
                               \/ \E l \in DOMAIN added : added[l].job = FileJob(h)
        BY <3>13
      <4>1. CASE k = org[o].at
        <5>1. added[Len(plans) + 1].job = FileJob(g) /\ Len(plans) + 1 \in DOMAIN added
          BY <3>9, <3>12
        <5> QED BY <3>2, <3>4, <4>1, <5>1 DEF ref
      <4>2. CASE k # org[o].at
        <5>1. k \in 1..(org[o].at - 1)
          BY <2>8, <4>2
        <5>2. PICK h \in Identities :
                /\ Answered(puts, h, M.refs[k])
                /\ \/ job[FileJob(h)].status \in TerminalJob
                   \/ \E l \in DOMAIN plans : plans[l].job = FileJob(h)
          BY <3>5, <5>1 DEF Handled, plans
        <5>3. \A l \in DOMAIN plans : l \in DOMAIN added /\ added[l] = plans[l]
          BY <3>12
        <5> QED BY <5>2, <5>3
      <4> QED BY <4>1, <4>2
    <3>18. queue[org[o].msg].kind = "notification" /\ org[o].step # "publish"
      BY <1>1, <2>9 DEF M
    <3> QED BY <1>1, <2>5, <3>13, <3>14, <3>15, <3>16, <3>17, <3>18, MovesOn DEF M
  <2>10. CASE ~pinned
    <3>1. RequestInv(org[o], M)
      BY <1>2, <2>10 DEF Working
    <3>2. org[o].object.version = NoVersion /\ NoVersion \in Versions
      BY <3>1 DEF RequestInv, NoIdentity, Versions
    <3>3. g \in Identities /\ g.key = ref.key
      <4>1. NoVersion \notin 1..MaxPuts
        BY DEF NoVersion
      <4>2. PICK k, v : k = ref.key /\ v = org[o].object.version
        BY Zenon
      <4>3. /\ WorldInv /\ k \in Keys /\ v \in Versions /\ v \notin 1..MaxPuts
            /\ g = HeadObject(k, v) /\ g.content # Gone
        BY <2>6, <2>7, <3>2, <4>1, <4>2 DEF IInv
      <4>4. g \in Identities /\ g.key = k
        BY ONLY <4>3, HeadFacts
      <4> QED BY <4>2, <4>4
    <3>4. i = RequestJob(org[o].msg) /\ i \in Jobs
      <4>1. org[o].msg \in 1..MaxMessages
        <5>1. queue \in Seq(Message) /\ Len(queue) <= MaxMessages /\ limit \in Limits
          BY DEF IInv, WorldInv
        <5> QED BY <1>2, <5>1, Bounds
      <4> QED BY <2>2, <2>10, <4>1, JobIds
    <3> HIDE DEF M, f, j, ref
    <3>5. PICK E : E = [job : Jobs, files : Seq(Identities)]
      OBVIOUS
    <3>6. /\ added \in Seq(E) /\ Len(added) = 1 /\ added[1].job = i
          /\ Len(added[1].files) = org[o].at
          /\ \A k \in 1..org[o].at : added[1].files[k].key = M.refs[k].key
      <4>1. CASE org[o].at = 1
        <5>1. plans = <<>>
          BY <3>1, <4>1 DEF RequestInv
        <5>2. PICK e : e = [job |-> i, files |-> <<g>>]
          OBVIOUS
        <5>3. e \in E /\ e.job = i /\ e.files = <<g>>
          BY <3>3, <3>4, <3>5, <5>2
        <5>4. added = <<e>>
          BY <2>3, <5>1, <5>2 DEF AddFile
        <5>5. added \in Seq(E) /\ Len(added) = 1 /\ added[1] = e
          BY <5>3, <5>4
        <5>6. \A k \in 1..1 : e.files[k].key = M.refs[k].key
          BY <3>3, <4>1, <5>3 DEF ref
        <5>7. Len(e.files) = 1
          BY <5>3
        <5> QED BY <4>1, <5>3, <5>5, <5>6, <5>7
      <4>2. CASE org[o].at # 1
        <5>1. /\ Len(plans) = 1 /\ plans[1].job = i
              /\ Len(plans[1].files) = org[o].at - 1
              /\ \A k \in 1..(org[o].at - 1) : plans[1].files[k].key = M.refs[k].key
          BY <3>1, <3>4, <4>2 DEF RequestInv
        <5>2. plans \in Seq(E) /\ plans[1] \in E
          <6>1. plans \in Seq(E)
            BY <1>2, <3>5
          <6> HIDE DEF plans
          <6>2. 1 \in DOMAIN plans
            BY <5>1, <6>1
          <6> QED BY <6>1, <6>2
        <5>3. PICK files : files = Append(plans[1].files, g)
          OBVIOUS
        <5>4. plans[1].files \in Seq(Identities)
          BY <3>5, <5>2
        <5>5. /\ files \in Seq(Identities) /\ Len(files) = org[o].at
              /\ \A k \in 1..(org[o].at - 1) : files[k] = plans[1].files[k]
              /\ files[org[o].at] = g
          BY <2>8, <3>3, <5>1, <5>3, <5>4
        <5>6. PICK e : e = [plans[1] EXCEPT !.files = files]
          OBVIOUS
        <5>7. e \in E /\ e.job = i /\ e.files = files
          BY <3>5, <5>1, <5>2, <5>5, <5>6
        <5>8. added = [plans EXCEPT ![1] = e]
          <6>1. plans # <<>> /\ Last(plans) = plans[1]
            BY <5>1, <5>2 DEF Last
          <6>2. added = [plans EXCEPT ![Len(plans)].files = Append(@, g)]
            BY <2>3, <5>1, <6>1 DEF AddFile
          <6> QED BY <5>1, <5>3, <5>6, <6>2
        <5>9. added \in Seq(E) /\ Len(added) = 1 /\ added[1] = e
          BY <5>1, <5>2, <5>7, <5>8
        <5>10. \A k \in 1..org[o].at : e.files[k].key = M.refs[k].key
          <6> SUFFICES ASSUME NEW k \in 1..org[o].at PROVE files[k].key = M.refs[k].key
            BY <5>7
          <6>1. CASE k = org[o].at
            BY <3>3, <5>5, <6>1 DEF ref
          <6>2. CASE k # org[o].at
            <7>1. k \in 1..(org[o].at - 1)
              BY <2>8, <6>2
            <7> QED BY <5>1, <5>5, <7>1
          <6> QED BY <6>1, <6>2
        <5> QED BY <5>5, <5>7, <5>9, <5>10
      <4> QED BY <4>1, <4>2
    <3>7. /\ r \in Invocation /\ r.msg = org[o].msg /\ r.at = org[o].at
          /\ r.plans = added /\ r.jobIDs = org[o].jobIDs
      BY <1>2, <2>4, <3>5, <3>6 DEF Invocation
    <3>8. \A h \in Identities : ~\E k \in DOMAIN r.plans : r.plans[k].job = FileJob(h)
      <4>1. DOMAIN added = {1}
        BY <3>6
      <4> QED BY <3>4, <3>6, <3>7, <4>1, JobIds
    <3>9. queue[org[o].msg].kind # "notification" /\ org[o].step # "publish"
      BY <1>1, <2>10 DEF M
    <3>10. /\ Len(r.plans) = 1 /\ r.plans[1].job = RequestJob(r.msg)
           /\ Len(r.plans[1].files) = r.at
           /\ \A k \in 1..r.at : r.plans[1].files[k].key = queue[org[o].msg].refs[k].key
      BY <3>4, <3>6, <3>7 DEF M
    <3> QED BY <1>1, <2>5, <3>7, <3>8, <3>9, <3>10, MovesOn
  <2> QED BY <2>9, <2>10
<1> QED BY <1>3, <1>4

-----------------------------------------------------------------------------
(* Publish. *)

LEMMA GroupSize ==
  ASSUME NEW files \in Seq(Identities), files # <<>>
  PROVE  /\ files[1] \in Identities /\ ExpectedChunks(files) \in Nat
         /\ Sizes(files)[1] = SizeOf[files[1].content]
         /\ ExpectedChunks(files) >= SizeOf[files[1].content]
         /\ Len(files) > 1 => ExpectedChunks(files) > SizeOf[files[1].content]
<1> DEFINE D == DOMAIN files
           g == Sizes(files)
<1>1. /\ Len(files) \in Nat /\ Len(files) >= 1 /\ D = 1..Len(files) /\ 1 \in D
      /\ \A i \in D : files[i] \in Identities
  BY EmptySeq
<1>2. \A i \in D : g[i] = SizeOf[files[i].content] /\ g[i] \in Nat /\ g[i] >= 1
  <2> SUFFICES ASSUME NEW i \in D
               PROVE  g[i] = SizeOf[files[i].content] /\ g[i] \in Nat /\ g[i] >= 1
    OBVIOUS
  <2>1. g[i] = SizeOf[files[i].content]
    BY DEF Sizes
  <2>2. SizeOf[files[i].content] \in Nat \ {0}
    BY <1>1, ChunkNumbers
  <2> QED BY <2>1, <2>2
<1>3. DOMAIN g = D
  BY DEF Sizes
<1>4. ExpectedChunks(files) = SumFunctionOnSet(g, D)
  BY <1>3 DEF ExpectedChunks, SumFunction
<1>5. IsFiniteSet(D)
  <2>1. D = 1..Len(files) /\ 1 \in Int /\ Len(files) \in Int
    BY <1>1
  <2> HIDE DEF D
  <2>2. IsFiniteSet(1..Len(files))
    BY <2>1, FS_Interval, Zenon
  <2> QED BY <2>1, <2>2
<1> HIDE DEF g, D
<1>6. SumFunctionOnSet(g, D) = g[1] + SumFunctionOnSet(g, D \ {1})
  <2>1. \A i \in D : g[i] \in Nat
    BY <1>2
  <2> QED BY ONLY <1>1, <1>5, <2>1, SumRemove
<1>7. IsFiniteSet(D \ {1}) /\ \A i \in D \ {1} : g[i] \in Nat
  BY <1>2, <1>5, FS_Subset
<1>8. SumFunctionOnSet(g, D \ {1}) \in Nat
  BY <1>7, SumType
<1>9. Len(files) > 1 => SumFunctionOnSet(g, D \ {1}) >= 1
  <2> SUFFICES ASSUME Len(files) > 1 PROVE SumFunctionOnSet(g, D \ {1}) >= 1
    OBVIOUS
  <2>1. 2 \in D \ {1}
    BY <1>1
  <2>2. SumFunctionOnSet(g, D \ {1}) = g[2] + SumFunctionOnSet(g, (D \ {1}) \ {2})
    BY <1>7, <2>1, SumRemove
  <2>3. IsFiniteSet((D \ {1}) \ {2}) /\ \A i \in (D \ {1}) \ {2} : g[i] \in Nat
    BY <1>7, FS_Subset
  <2>4. SumFunctionOnSet(g, (D \ {1}) \ {2}) \in Nat
    BY <2>3, SumType
  <2> QED BY <1>2, <2>1, <2>2, <2>4
<1>10. g[1] = SizeOf[files[1].content] /\ g[1] \in Nat
  BY <1>1, <1>2
<1> QED BY <1>1, <1>4, <1>6, <1>8, <1>9, <1>10 DEF g

LEMMA OneFile ==
  ASSUME NEW f \in Identities
  PROVE  /\ <<f>> \in Seq(Identities) /\ <<f>> # <<>> /\ <<f>>[1] = f
         /\ ExpectedChunks(<<f>>) = SizeOf[f.content] /\ ~Collides(<<f>>)
<1> DEFINE g == Sizes(<<f>>)
<1>1. DOMAIN g = {1} /\ DOMAIN <<f>> = {1} /\ g[1] = SizeOf[f.content]
  BY DEF Sizes
<1>2. SizeOf[f.content] \in Nat
  BY ChunkNumbers
<1>3. ~Collides(<<f>>)
  BY <1>1 DEF Collides
<1>4. ExpectedChunks(<<f>>) = SumFunctionOnSet(g, {1})
  BY <1>1 DEF ExpectedChunks, SumFunction
<1> HIDE DEF g
<1>5. IsFiniteSet({1}) /\ {1} \ {1} = {}
  BY FS_Singleton
<1>6. SumFunctionOnSet(g, {1}) = g[1] + SumFunctionOnSet(g, {1} \ {1})
  BY <1>1, <1>2, <1>5, SumRemove
<1>7. SumFunctionOnSet(g, {1} \ {1}) = 0
  BY <1>5, SumEmpty
<1> QED BY <1>1, <1>2, <1>3, <1>4, <1>6, <1>7

(* The plans of a notification: one file each, of a job whose lease the *)
(* invocation holds.                                                    *)
LEMMA NotifiedPlans ==
  ASSUME IInv, NEW o \in Invocations, org[o].step = "publish",
         queue[org[o].msg].kind = "notification", NEW p \in ToSet(org[o].plans)
  PROVE  \E f \in Identities : /\ p = [job |-> FileJob(f), files |-> <<f>>]
                               /\ Held(org[o], FileJob(f))
                               /\ FileJob(f) \notin org[o].jobIDs => Leased(job[FileJob(f)])
<1>1. FilePlans(org[o], job)
  <2>1. ~At(o, "idle")
    BY DEF At
  <2> QED BY <2>1, WorkingFacts DEF IInv, Working, NotificationInv
<1>2. PICK i \in DOMAIN org[o].plans : p = org[o].plans[i]
  BY DEF ToSet
<1>3. PICK f \in Identities : p = [job |-> FileJob(f), files |-> <<f>>]
  BY <1>1, <1>2 DEF FilePlans
<1>4. Held(org[o], FileJob(f))
  <2>1. p.job = FileJob(f)
    BY <1>3
  <2>2. org[o].plans[i].job = FileJob(f)
    BY <1>2, <2>1
  <2> QED BY <2>2 DEF Held
<1> QED BY <1>1, <1>3, <1>4 DEF FilePlans

(* The plan of a request: its files, of the job of its message. *)
LEMMA RequestedPlans ==
  ASSUME IInv, NEW o \in Invocations, org[o].step = "publish",
         queue[org[o].msg].kind # "notification", NEW p \in ToSet(org[o].plans)
  PROVE  /\ org[o].msg \in 1..MaxMessages /\ p.job = RequestJob(org[o].msg)
         /\ p.files \in Seq(Identities) /\ p.files # <<>>
         /\ Len(p.files) = Len(queue[org[o].msg].refs)
         /\ p.files[1].key = queue[org[o].msg].refs[1].key
<1> DEFINE r == org[o]
           M == queue[r.msg]
<1>1. ~At(o, "idle")
  BY DEF At
<1>2. /\ Working(r, queue, versioning, job, puts) /\ r.msg \in DOMAIN queue /\ r \in Invocation
      /\ M.refs \in Seq(Reference) /\ MessageFits(M, versioning, Published, puts)
      /\ r.plans \in Seq([job : Jobs, files : Seq(Identities)])
  BY <1>1, WorkingFacts DEF IInv
<1>3. RequestInv(r, M) /\ r.at = Len(M.refs) + 1
  BY <1>2 DEF Working
<1>4. Len(M.refs) \in Nat /\ Len(M.refs) >= 1
  BY <1>2, EmptySeq DEF MessageFits
<1>5. /\ Len(r.plans) = 1 /\ r.plans[1].job = RequestJob(r.msg)
      /\ Len(r.plans[1].files) = r.at - 1
      /\ \A i \in 1..(r.at - 1) : r.plans[1].files[i].key = M.refs[i].key
  BY <1>3, <1>4 DEF RequestInv
<1>6. r.msg \in 1..MaxMessages
  <2>1. queue \in Seq(Message) /\ Len(queue) <= MaxMessages /\ limit \in Limits
    BY DEF IInv, WorldInv
  <2> QED BY <1>2, <2>1, Bounds
<1> HIDE DEF M, r
<1>7. r.plans[1] \in [job : Jobs, files : Seq(Identities)] /\ DOMAIN r.plans = {1}
  <2>1. PICK E : E = [job : Jobs, files : Seq(Identities)]
    OBVIOUS
  <2>2. r.plans \in Seq(E)
    BY <1>2, <2>1
  <2>3. r.plans[1] \in E /\ DOMAIN r.plans = {1}
    BY <1>5, <2>2
  <2> QED BY <2>1, <2>3
<1>8. p = r.plans[1]
  BY <1>7 DEF ToSet, r
<1>9. p.files \in Seq(Identities) /\ Len(p.files) = Len(M.refs)
  BY <1>3, <1>4, <1>5, <1>7, <1>8
<1>10. p.files # <<>> /\ 1 \in 1..(r.at - 1)
  BY <1>3, <1>4, <1>9
<1> QED BY <1>5, <1>6, <1>8, <1>9, <1>10 DEF M, r

(* Plan accepts p: it keeps what an earlier Plan left of the same job. *)
Plannable(p) ==
  /\ p.job \in Jobs /\ p.files \in Seq(Identities) /\ p.files # <<>>
  /\ job[p.job].status # "ABSENT" =>
       job[p.job].file = p.files[1] /\ job[p.job].expected \in {0, ExpectedChunks(p.files)}
  /\ Planned(p.files[1].content, ExpectedChunks(p.files), job[p.job], item[p.job])

LEMMA PlansArePlannable ==
  ASSUME IInv, NEW o \in Invocations, org[o].step = "publish", NEW p \in ToSet(org[o].plans),
         CanPlanJob(p.job, p.files)
  PROVE  Plannable(p)
<1>3. job[p.job].status # "ABSENT" =>
        job[p.job].file = p.files[1] /\ job[p.job].expected \in {0, ExpectedChunks(p.files)}
  BY DEF CanPlanJob
<1>1. CASE queue[org[o].msg].kind = "notification"
  <2>1. PICK f \in Identities : p = [job |-> FileJob(f), files |-> <<f>>]
    BY <1>1, NotifiedPlans
  <2>2. p.job = FileJob(f) /\ p.files = <<f>> /\ p.job \in Jobs
    BY <2>1, JobIds
  <2>3. /\ p.files \in Seq(Identities) /\ p.files # <<>> /\ p.files[1] = f
        /\ ExpectedChunks(p.files) = SizeOf[f.content]
    BY <2>2, OneFile
  <2>4. Planned(f.content, SizeOf[f.content], job[p.job], item[p.job])
    BY <2>2 DEF IInv, JobsInv, FileFits
  <2> QED BY <1>3, <2>2, <2>3, <2>4 DEF Plannable
<1>2. CASE queue[org[o].msg].kind # "notification"
  <2>1. /\ org[o].msg \in 1..MaxMessages /\ p.job = RequestJob(org[o].msg)
        /\ p.files \in Seq(Identities) /\ p.files # <<>>
    BY <1>2, RequestedPlans
  <2>2. p.job \in Jobs
    BY <2>1, JobIds
  <2>3. CASE job[p.job].status = "ABSENT"
    <3>1. Fits(job[p.job], item[p.job])
      BY <2>2 DEF IInv, JobsInv
    <3>2. ~job[p.job].sealed /\ PayloadsOf(item[p.job]) = {}
      BY <2>3, <3>1 DEF Fits
    <3> QED BY <1>3, <2>1, <2>2, <3>2 DEF Plannable, Planned
  <2>4. CASE job[p.job].status # "ABSENT"
    <3>1. RequestFits(queue[org[o].msg], job[p.job], item[p.job])
      BY <2>1, <2>4 DEF IInv, JobsInv
    <3>2. /\ job[p.job].expected >= SizeOf[job[p.job].file.content]
          /\ job[p.job].file \in Identities
          /\ Planned(job[p.job].file.content, job[p.job].expected, job[p.job], item[p.job])
      BY <3>1 DEF RequestFits
    <3>3. SizeOf[job[p.job].file.content] \in Nat \ {0}
      BY <3>2, ChunkNumbers
    <3>4. job[p.job].expected # 0
      BY <3>2, <3>3
    <3> QED BY <1>3, <2>1, <2>2, <2>4, <3>2, <3>4 DEF Plannable
  <2> QED BY <2>3, <2>4
<1> QED BY <1>1, <1>2

(* The plans an invocation has left to persist. *)
LEMMA PlanFacts ==
  ASSUME IInv, NEW o \in Invocations, NEW i \in DOMAIN org[o].plans, ToPersist(o, i)
  PROVE  LET r == org[o]  p == r.plans[i] IN
         /\ r \in Invocation /\ r.step = "publish" /\ ~At(o, "idle") /\ p.job \notin r.jobIDs
         /\ p \in ToSet(r.plans) /\ p.job \in Jobs
         /\ \A f \in Identities : p.job = FileJob(f) =>
              /\ queue[r.msg].kind = "notification" /\ p.files = <<f>>
              /\ Held(r, FileJob(f)) /\ Leased(job[FileJob(f)])
         /\ \A n : p.job = RequestJob(n) => n = r.msg /\ queue[r.msg].kind # "notification"
         /\ \A n : p.job # ReplayJob(n)
<1> DEFINE r == org[o]
           p == r.plans[i]
<1>1. /\ r \in Invocation /\ r.step = "publish" /\ ~At(o, "idle") /\ p.job \notin r.jobIDs
      /\ p \in ToSet(r.plans)
  BY DEF IInv, OrgInv, ToPersist, At, ToSet
<1>2. CASE queue[r.msg].kind = "notification"
  <2>1. PICK f \in Identities : /\ p = [job |-> FileJob(f), files |-> <<f>>] /\ Held(r, FileJob(f))
                                /\ FileJob(f) \notin r.jobIDs => Leased(job[FileJob(f)])
    BY <1>1, <1>2, NotifiedPlans
  <2>2. p.job = FileJob(f) /\ p.files = <<f>> /\ Leased(job[FileJob(f)])
    BY <1>1, <2>1
  <2> HIDE DEF p, r
  <2>3. \A g \in Identities : p.job = FileJob(g) => g = f
    BY <2>2, JobIds
  <2> QED BY <1>1, <1>2, <2>1, <2>2, <2>3, JobIds DEF p, r
<1>3. CASE queue[r.msg].kind # "notification"
  <2>1. r.msg \in 1..MaxMessages /\ p.job = RequestJob(r.msg)
    BY <1>1, <1>3, RequestedPlans
  <2> QED BY <1>1, <1>3, <2>1, JobIds
<1> QED BY <1>2, <1>3

(* What Plan makes of a job, K and L: all of it, sealed, or a prefix, of k  *)
(* chunks.  What was sealed, sent or ended stays so.                        *)
Writes(j, files, seal, k, K, L) ==
  /\ CanPlanJob(j, files) /\ k \in 0..Sizes(files)[1] /\ (seal => k = Sizes(files)[1])
  /\ K = PlanRecord(job[j], files[1], ExpectedChunks(files), seal)
  /\ L = PlanItems(item[j], files[1], k)
Grows(j, seal, K, L) ==
  /\ (job[j].sealed => K.sealed) /\ (seal => K.sealed)
  /\ \A c \in Ids : item[j][c].sent => L[c].sent
  /\ job[j].status \in TerminalJob => K.status \in TerminalJob

LEMMA PlanWrites ==
  ASSUME IInv, NEW o \in Invocations, NEW i \in DOMAIN org[o].plans, ToPersist(o, i),
         NEW j \in Jobs, j = org[o].plans[i].job, NEW files, files = org[o].plans[i].files,
         NEW seal \in BOOLEAN, NEW k, NEW K, NEW L, Writes(j, files, seal, k, K, L)
  PROVE  Fits(K, L) /\ May(j, K, L) /\ Grows(j, seal, K, L)
<1> USE DEF Writes
<1>1. /\ org[o].step = "publish" /\ org[o].plans[i] \in ToSet(org[o].plans)
      /\ \A f \in Identities : j = FileJob(f) => files = <<f>> /\ Leased(job[j])
      /\ \A n : j = RequestJob(n) => n = org[o].msg /\ queue[org[o].msg].kind # "notification"
      /\ \A n : j # ReplayJob(n)
  BY PlanFacts
<1>2. /\ files \in Seq(Identities) /\ files # <<>>
      /\ job[j].status # "ABSENT" =>
           job[j].file = files[1] /\ job[j].expected \in {0, ExpectedChunks(files)}
      /\ Planned(files[1].content, ExpectedChunks(files), job[j], item[j])
  BY <1>1, PlansArePlannable DEF Plannable
<1>3. PICK J : J = job[j]
  OBVIOUS
<1>4. PICK I : I = item[j]
  OBVIOUS
<1>5. PICK f \in Identities : f = files[1]
  BY <1>2, GroupSize
<1>6. PICK n \in Nat : n = ExpectedChunks(files)
  BY <1>2, GroupSize
<1>7. /\ n >= SizeOf[f.content] /\ Sizes(files)[1] = SizeOf[f.content]
      /\ Len(files) > 1 => n > SizeOf[f.content]
  BY <1>2, <1>5, <1>6, GroupSize
<1>8. /\ Fits(J, I) /\ Planned(f.content, n, J, I)
      /\ J.status # "ABSENT" => J.file = f /\ J.expected \in {0, n}
      /\ k \in 0..SizeOf[f.content] /\ (seal => k = SizeOf[f.content])
      /\ K = PlanRecord(J, f, n, seal) /\ L = PlanItems(I, f, k)
  <2>1. Fits(J, I)
    BY <1>3, <1>4 DEF IInv, JobsInv
  <2> QED BY <1>2, <1>3, <1>4, <1>5, <1>6, <1>7, <2>1
<1> HIDE DEF Writes
<1>9. /\ Fits(K, L) /\ Planned(f.content, n, K, L)
      /\ K.file = f /\ K.expected = n /\ K.sealed = (J.sealed \/ seal)
      /\ K.status \in {"PENDING", J.status} /\ K.status # "ABSENT"
      /\ K.status = "PLANNING" => ~seal
      /\ J.status = "PLANNING" /\ ~seal => K.status = "PLANNING" /\ K.lease = J.lease
      /\ J.status \in TerminalJob => K.status = J.status
      /\ \A c \in Ids : L[c].sent = I[c].sent
  BY <1>7, <1>8, PlanFits
<1>10. May(j, K, L)
  <2>1. ASSUME NEW g \in Identities, j = FileJob(g)
        PROVE  FileFits(g, K, L)
    <3>1. files = <<g>> /\ Leased(J)
      BY <1>1, <1>3, <2>1
    <3>2. f = g /\ n = SizeOf[g.content]
      BY <1>5, <1>6, <3>1, OneFile
    <3>3. K.status \notin {"ABSENT", "PLANNING"} => K.sealed
      BY <1>9, <3>1 DEF Leased
    <3> QED BY <1>9, <3>2, <3>3 DEF FileFits
  <2>2. ASSUME NEW m \in 1..MaxMessages, j = RequestJob(m)
        PROVE  m \in DOMAIN queue /\ RequestFits(queue[m], K, L)
    <3>1. m = org[o].msg /\ queue[m].kind # "notification"
      BY <1>1, <2>2
    <3>2. m \in DOMAIN queue /\ queue[m] \in Message
      <4>1. ~At(o, "idle")
        BY PlanFacts
      <4> QED BY <3>1, <4>1, WorkingFacts DEF IInv
    <3>3. queue[m].kind = "request"
      BY <3>1, <3>2 DEF Message
    <3>4. Len(files) = Len(queue[m].refs) /\ files[1].key = queue[m].refs[1].key
      BY <1>1, <3>1, RequestedPlans
    <3>5. J.status # "PLANNING"
      <4>1. J.status # "ABSENT" => RequestFits(queue[m], J, I)
        BY <1>3, <1>4, <2>2 DEF IInv, JobsInv
      <4> QED BY <4>1 DEF RequestFits
    <3>6. K.status # "PLANNING"
      BY <1>9, <3>5
    <3>7. K.file.key = queue[m].refs[1].key
      BY <1>5, <1>9, <3>4
    <3> QED BY <1>7, <1>9, <3>2, <3>3, <3>4, <3>6, <3>7 DEF RequestFits
  <2>3. \/ \E g \in Identities : j = FileJob(g)
        \/ \E m \in 1..MaxMessages : j = RequestJob(m)
    BY <1>1, JobIds
  <2> QED BY <2>1, <2>2, <2>3 DEF May
<1>11. Grows(j, seal, K, L)
  BY <1>3, <1>4, <1>9 DEF Grows
<1> QED BY <1>9, <1>10, <1>11

(* The job's lease is the invocation's own: no other one loses its own.     *)
LEMMA OwnLease ==
  ASSUME IInv, NEW o \in Invocations, NEW i \in DOMAIN org[o].plans, ToPersist(o, i),
         \A h \in Jobs : h # org[o].plans[i].job => job'[h] = job[h]
  PROVE  \A p \in Invocations \ {o} : \A f \in Identities :
           Held(org[p], FileJob(f)) /\ Leased(job[FileJob(f)]) => Leased(job'[FileJob(f)])
<1> SUFFICES ASSUME NEW p \in Invocations \ {o}, NEW f \in Identities,
                    Held(org[p], FileJob(f)), Leased(job[FileJob(f)])
             PROVE  Leased(job'[FileJob(f)])
  OBVIOUS
<1>1. ~Held(org[o], FileJob(f))
  BY DEF IInv, OrgInv, Apart
<1>2. FileJob(f) # org[o].plans[i].job /\ FileJob(f) \in Jobs
  BY <1>1, JobIds DEF Held
<1> QED BY <1>2

LEMMA PersistPlanStep ==
  ASSUME IInv, NEW o \in Invocations, NEW i \in DOMAIN org[o].plans, PersistPlan(o, i)
  PROVE  IInv'
<1>1. PICK j : j = org[o].plans[i].job
  OBVIOUS
<1>2. PICK files : files = org[o].plans[i].files
  OBVIOUS
<1>3. /\ ToPersist(o, i) /\ CanPlanJob(j, files)
      /\ job' = [job EXCEPT ![j] = Sealed(j, files)]
      /\ item' = [item EXCEPT ![j] = Written(j, files[1], Sizes(files)[1])]
      /\ org' = [org EXCEPT ![o].jobIDs = @ \cup {j}]
      /\ UNCHANGED <<world, puts, queue, replays, crashes>>
  BY <1>1, <1>2 DEF PersistPlan
<1>4. /\ org[o] \in Invocation /\ org[o].step = "publish" /\ ~At(o, "idle") /\ j \in Jobs
      /\ org[o].plans[i] \in ToSet(org[o].plans)
  BY <1>1, <1>3, PlanFacts
<1>5. PICK seal \in BOOLEAN : seal = TRUE
  OBVIOUS
<1>6. PICK K : K = Sealed(j, files)
  OBVIOUS
<1>7. PICK k : k = Sizes(files)[1]
  OBVIOUS
<1>8. PICK L : L = Written(j, files[1], k)
  OBVIOUS
<1>9. K = PlanRecord(job[j], files[1], ExpectedChunks(files), seal)
  <2>1. job[j] \in JobRecord
    BY <1>4 DEF IInv, JobsInv
  <2> QED BY <1>5, <1>6, <2>1 DEF Sealed, Registered, PlanRecord, JobRecord
<1>10. L = PlanItems(item[j], files[1], k)
  <2>1. DOMAIN item[j] = Ids
    BY <1>4 DEF IInv, JobsInv
  <2> QED BY <1>8, <2>1 DEF Written, PlanItems
<1>11. k \in 0..Sizes(files)[1]
  <2>1. files \in Seq(Identities) /\ files # <<>>
    BY <1>1, <1>2, <1>3, <1>4, PlansArePlannable DEF Plannable
  <2>2. k = SizeOf[files[1].content] /\ files[1] \in Identities
    BY <1>7, <2>1, GroupSize
  <2>3. k \in Nat
    BY <2>2, ChunkNumbers
  <2> QED BY <1>7, <2>3
<1>12. /\ Fits(K, L) /\ May(j, K, L) /\ K.sealed
       /\ \A c \in Ids : item[j][c].sent => L[c].sent
       /\ job[j].status \in TerminalJob => K.status \in TerminalJob
  <2>1. Writes(j, files, seal, k, K, L)
    BY <1>3, <1>7, <1>9, <1>10, <1>11 DEF Writes
  <2>2. ToPersist(o, i) /\ j \in Jobs
    BY <1>3, <1>4
  <2>3. Fits(K, L) /\ May(j, K, L) /\ Grows(j, seal, K, L)
    BY <1>1, <1>2, <2>1, <2>2, PlanWrites
  <2> QED BY <1>5, <2>3 DEF Grows
<1>13. job' = [job EXCEPT ![j] = K] /\ item' = [item EXCEPT ![j] = L]
  BY <1>3, <1>6, <1>7, <1>8
<1>14. KeptRequests
  BY <1>3 DEF KeptRequests
<1>15. JobsInv' /\ KeptSeals /\ KeptEnds
  <2>1. JobsInv /\ replays' = replays
    BY <1>3 DEF IInv
  <2> QED BY <1>4, <1>12, <1>13, <1>14, <2>1, JobStep
<1>16. job'[j] = K /\ \A h \in Jobs : h # j => job'[h] = job[h]
  <2>1. job \in [Jobs -> JobRecord]
    BY DEF IInv, JobsInv
  <2> QED BY <1>4, <1>13, <2>1
<1>17. WorldInv'
  BY <1>3, <1>15, WorldStays DEF IInv
<1>18. PICK R : R = [org[o] EXCEPT !.jobIDs = @ \cup {j}]
  OBVIOUS
<1>19. org' = [org EXCEPT ![o] = R]
  BY <1>3, <1>18
<1>20. /\ R \in Invocation /\ R.step = org[o].step /\ R.msg = org[o].msg /\ R.at = org[o].at
       /\ R.object = org[o].object /\ R.plans = org[o].plans /\ R.jobIDs = org[o].jobIDs \cup {j}
  <2>1. org[o].jobIDs \cup {j} \in SUBSET Jobs
    BY <1>4 DEF Invocation
  <2> QED BY <1>4, <1>18, <2>1 DEF Invocation
<1>21. \A h : Held(R, h) <=> Held(org[o], h)
  BY <1>20 DEF Held
<1>22. Working(R, queue, versioning, job', puts)
  <2> DEFINE M == queue[org[o].msg]
  <2>1. Working(org[o], queue, versioning, job, puts)
    BY <1>4, WorkingFacts DEF IInv
  <2>2. Persisted(R, job')
    <3>1. Persisted(org[o], job) /\ org[o].jobIDs \subseteq Jobs
      BY <1>4, <2>1 DEF Working, Invocation
    <3>2. \A h \in Jobs : job[h].sealed => job'[h].sealed
      BY <1>15 DEF KeptSeals
    <3> QED BY <1>1, <1>4, <1>12, <1>16, <1>20, <3>1, <3>2 DEF Persisted
  <2>3. CASE M.kind = "notification"
    <3>1. NotificationInv(org[o], M, versioning, job, puts)
      BY <2>1, <2>3 DEF Working
    <3>2. Pinned(R, M, versioning, puts)
      BY <1>4, <1>20 DEF Pinned
    <3>3. FilePlans(R, job')
      <4>1. FilePlans(org[o], job)
        BY <3>1 DEF NotificationInv
      <4>2. \A f \in Identities :
              Held(R, FileJob(f)) /\ FileJob(f) \notin R.jobIDs => Leased(job'[FileJob(f)])
        BY <1>16, <1>20, <1>21, <4>1, JobIds DEF FilePlans
      <4> QED BY <1>4, <1>20, <4>1, <4>2 DEF FilePlans
    <3>4. Handled(R, M, job', puts)
      <4>1. Handled(org[o], M, job, puts)
        BY <3>1 DEF NotificationInv
      <4> QED BY <1>15, <1>20, <4>1 DEF Handled, KeptEnds
    <3> QED BY <1>20, <2>1, <2>2, <2>3, <3>2, <3>3, <3>4 DEF Working, NotificationInv
  <2>4. CASE M.kind # "notification"
    <3>1. RequestInv(R, M)
      BY <1>20, <2>1, <2>4 DEF Working, RequestInv
    <3> QED BY <1>20, <2>1, <2>2, <2>4, <3>1 DEF Working
  <2> QED BY <2>3, <2>4
<1>23. \A p \in Invocations \ {o} : \A f \in Identities :
         Held(org[p], FileJob(f)) /\ Leased(job[FileJob(f)]) => Leased(job'[FileJob(f)])
  BY <1>1, <1>3, <1>16, OwnLease
<1>24. OrgInv'
  BY <1>3, <1>4, <1>15, <1>19, <1>20, <1>21, <1>22, <1>23, Advanced DEF IInv
<1> QED BY <1>15, <1>17, <1>24 DEF IInv

(* A message that is given back, or acknowledged, is about the same objects. *)
LEMMA ReleasedRequests ==
  ASSUME WorldInv, OrgInv, NEW o \in Invocations, ~At(o, "idle"), Nack(o)
  PROVE  KeptRequests
<1> DEFINE m == org[o].msg
<1>1. m \in DOMAIN queue /\ queue \in Seq(Message) /\ queue[m] \in Message
  BY WorkingFacts DEF WorldInv
<1>2. PICK M : M = [queue[m] EXCEPT !.state = "visible"]
  OBVIOUS
<1>3. M.kind = queue[m].kind /\ M.refs = queue[m].refs
  BY <1>1, <1>2 DEF Message
<1>4. queue' = [queue EXCEPT ![m] = M]
  BY <1>2 DEF Nack, Release
<1> HIDE DEF m
<1>5. DOMAIN queue' = DOMAIN queue /\ queue'[m] = M /\ \A k \in DOMAIN queue : k # m => queue'[k] = queue[k]
  BY <1>1, <1>4
<1> QED BY <1>3, <1>5 DEF KeptRequests

LEMMA PlanFailsStep ==
  ASSUME IInv, NEW o \in Invocations, NEW i \in DOMAIN org[o].plans, PlanFails(o, i)
  PROVE  IInv'
<1>1. PICK j : j = org[o].plans[i].job
  OBVIOUS
<1>2. PICK files : files = org[o].plans[i].files
  OBVIOUS
<1>3. /\ ToPersist(o, i) /\ Nack(o) /\ UNCHANGED <<world, puts, replays>>
      /\ \/ ~CanPlanJob(j, files) /\ UNCHANGED <<job, item, crashes>>
         \/ /\ CanPlanJob(j, files)
            /\ job' = [job EXCEPT ![j] = Registered(j, files)]
            /\ \E k \in 0..Sizes(files)[1] : item' = [item EXCEPT ![j] = Written(j, files[1], k)]
  BY <1>1, <1>2 DEF PlanFails
<1>4. ~At(o, "idle") /\ j \in Jobs
  BY <1>1, <1>3, PlanFacts
<1>5. CASE UNCHANGED <<job, item>>
  BY <1>3, <1>4, <1>5, NackSame
<1>6. CASE /\ CanPlanJob(j, files)
           /\ job' = [job EXCEPT ![j] = Registered(j, files)]
           /\ \E k \in 0..Sizes(files)[1] : item' = [item EXCEPT ![j] = Written(j, files[1], k)]
  <2>1. PICK k \in 0..Sizes(files)[1] : item' = [item EXCEPT ![j] = Written(j, files[1], k)]
    BY <1>6
  <2>2. PICK seal \in BOOLEAN : seal = FALSE
    OBVIOUS
  <2>3. PICK K : K = Registered(j, files)
    OBVIOUS
  <2>4. PICK L : L = Written(j, files[1], k)
    OBVIOUS
  <2>5. K = PlanRecord(job[j], files[1], ExpectedChunks(files), seal)
    <3>1. job[j] \in JobRecord
      BY <1>4 DEF IInv, JobsInv
    <3> QED BY <2>2, <2>3, <3>1 DEF Registered, PlanRecord, JobRecord
  <2>6. L = PlanItems(item[j], files[1], k)
    <3>1. DOMAIN item[j] = Ids
      BY <1>4 DEF IInv, JobsInv
    <3> QED BY <2>4, <3>1 DEF Written, PlanItems
  <2>7. /\ Fits(K, L) /\ May(j, K, L) /\ (job[j].sealed => K.sealed)
        /\ \A c \in Ids : item[j][c].sent => L[c].sent
        /\ job[j].status \in TerminalJob => K.status \in TerminalJob
    <3>1. Writes(j, files, seal, k, K, L)
      BY <1>6, <2>2, <2>5, <2>6 DEF Writes
    <3>2. ToPersist(o, i) /\ j \in Jobs
      BY <1>3, <1>4
    <3>3. Fits(K, L) /\ May(j, K, L) /\ Grows(j, seal, K, L)
      BY <1>1, <1>2, <3>1, <3>2, PlanWrites
    <3> QED BY <3>3 DEF Grows
  <2>8. job' = [job EXCEPT ![j] = K] /\ item' = [item EXCEPT ![j] = L]
    BY <1>6, <2>1, <2>3, <2>4
  <2>9. KeptRequests
    BY <1>3, <1>4, ReleasedRequests DEF IInv
  <2>10. JobsInv' /\ KeptSeals /\ KeptEnds
    <3>1. JobsInv /\ replays' = replays
      BY <1>3 DEF IInv
    <3> QED BY <1>4, <2>7, <2>8, <2>9, <3>1, JobStep
  <2>11. \A h \in Jobs : h # j => job'[h] = job[h]
    <3>1. job \in [Jobs -> JobRecord]
      BY DEF IInv, JobsInv
    <3> QED BY <1>4, <2>8, <3>1
  <2>12. \A p \in Invocations \ {o} : \A f \in Identities :
           Held(org[p], FileJob(f)) /\ Leased(job[FileJob(f)]) => Leased(job'[FileJob(f)])
    BY <1>1, <1>3, <2>11, OwnLease
  <2>13. WorldInv' /\ OrgInv'
    <3>1. PICK s \in {"visible", "deleted"} : s = "visible"
      OBVIOUS
    <3>2. Release(o, s) /\ s # "deleted"
      BY <1>3, <3>1 DEF Nack
    <3> QED BY <1>3, <1>4, <2>10, <2>12, <3>2, Released DEF IInv
  <2> QED BY <2>10, <2>13 DEF IInv
<1> QED BY <1>3, <1>5, <1>6

(* The plans that are persisted: their jobs are sealed.                     *)
LEMMA PersistedFacts ==
  ASSUME IInv, NEW o \in Invocations, AllPersisted(o)
  PROVE  /\ ~At(o, "idle") /\ org[o].step = "publish"
         /\ \A j \in org[o].jobIDs : j \in Jobs /\ job[j].sealed
<1>1. ~At(o, "idle") /\ org[o].step = "publish"
  BY DEF AllPersisted, At
<1>2. Persisted(org[o], job) /\ org[o].jobIDs \subseteq Jobs
  BY <1>1, WorkingFacts DEF IInv, Working, Invocation
<1> QED BY <1>1, <1>2 DEF Persisted

LEMMA SendStep ==
  ASSUME IInv, NEW o \in Invocations, NEW j \in org[o].jobIDs, NEW c \in Unsent(j), Send(o, j, c)
  PROVE  IInv'
<1>1. /\ AllPersisted(o) /\ item' = [item EXCEPT ![j][c].sent = TRUE]
      /\ UNCHANGED <<world, puts, queue, org, job, replays>>
  BY DEF Send
<1>2. j \in Jobs /\ job[j].sealed
  BY <1>1, PersistedFacts
<1>3. item[j] \in [Ids -> ItemRecord] /\ Fits(job[j], item[j])
  BY <1>2 DEF IInv, JobsInv
<1>4. c \in Ids /\ item[j][c].status # "ABSENT" /\ ~item[j][c].sent /\ item[j][c] \in ItemRecord
  BY <1>3 DEF Unsent
<1>5. item[j][c].status = "PENDING"
  BY <1>3, <1>4 DEF Fits, Unstarted
<1>6. PICK q : q = [item[j][c] EXCEPT !.sent = TRUE]
  OBVIOUS
<1>7. q \in ItemRecord /\ q.status = "PENDING" /\ q.file = item[j][c].file /\ q.sent = TRUE
  BY <1>4, <1>5, <1>6 DEF ItemRecord
<1>8. item' = [item EXCEPT ![j][c] = q]
  BY <1>1, <1>6
<1>9. "PENDING" \notin TerminalChunk /\ "PENDING" # "ABSENT"
  BY DEF TerminalChunk
<1> QED BY <1>1, <1>2, <1>4, <1>5, <1>7, <1>8, <1>9, MoveStep

(* All chunks of an ended job are sent: they have all ended.                *)
LEMMA EndedIsSent ==
  ASSUME NEW J, NEW I, Fits(J, I), NEW f \in Identities, FileFits(f, J, I),
         J.status \in TerminalJob
  PROVE  J.sealed /\ \A c \in 1..SizeOf[f.content] : I[c].sent
<1> DEFINE S == 1..SizeOf[f.content]
           E == EndedOf(I)
<1>1. J.sealed /\ Cardinality(E) >= J.expected
  BY DEF Fits, Counted
<1>2. PayloadsOf(I) = S /\ J.expected = SizeOf[f.content]
  BY <1>1 DEF FileFits, Planned
<1>3. IsFiniteSet(S) /\ Cardinality(S) = SizeOf[f.content] /\ SizeOf[f.content] \in Nat
  BY ChunkNumbers
<1>4. E \subseteq PayloadsOf(I)
  BY DEF EndedOf, PayloadsOf, TerminalChunk
<1>5. \A c \in E : c \in Ids /\ I[c].status \notin {"ABSENT", "PENDING"}
  BY DEF EndedOf, TerminalChunk
<1>6. \A c \in E : I[c].sent
  BY <1>5 DEF Fits, Unstarted
<1> HIDE DEF S, E
<1>7. E \subseteq S
  BY <1>2, <1>4
<1>8. /\ IsFiniteSet(E) /\ Cardinality(E) <= Cardinality(S)
      /\ Cardinality(E) = Cardinality(S) => E = S
  BY <1>3, <1>7, FS_Subset
<1>9. Cardinality(E) \in Nat
  BY <1>8, FS_CardinalityType
<1>10. E = S
  BY <1>1, <1>2, <1>3, <1>8, <1>9
<1> QED BY <1>1, <1>6, <1>10 DEF S

LEMMA FinishPublishStep ==
  ASSUME IInv, NEW o \in Invocations, FinishPublish(o) PROVE IInv'
<1> DEFINE M == queue[org[o].msg]
<1>1. /\ AllPersisted(o) /\ (\A j \in org[o].jobIDs : Unsent(j) = {})
      /\ Ack(o) \/ Nack(o)
      /\ UNCHANGED <<world, puts, job, item, replays>>
  BY DEF FinishPublish
<1>2. ~At(o, "idle") /\ org[o].step = "publish" /\ \A j \in org[o].jobIDs : j \in Jobs /\ job[j].sealed
  BY <1>1, PersistedFacts
<1>3. CASE Nack(o)
  BY <1>1, <1>2, <1>3, NackSame
<1>4. CASE Ack(o)
  <2>1. KeptSeals /\ KeptEnds
    BY <1>1 DEF KeptSeals, KeptEnds
  <2>2. ASSUME M.kind = "notification" PROVE Served(M, Published, puts)
    <3> SUFFICES ASSUME NEW i \in DOMAIN M.refs
                 PROVE  \E f \in Published : Answered(puts, f, M.refs[i])
      BY DEF Served
    <3>1. Working(org[o], queue, versioning, job, puts) /\ M.refs \in Seq(Reference)
      BY <1>2, WorkingFacts DEF IInv
    <3>2. Handled(org[o], M, job, puts) /\ org[o].at = Len(M.refs) + 1
      BY <1>2, <2>2, <3>1 DEF Working, NotificationInv
    <3>3. i \in 1..(org[o].at - 1)
      BY <3>1, <3>2
    <3>4. PICK f \in Identities :
            /\ Answered(puts, f, M.refs[i])
            /\ \/ job[FileJob(f)].status \in TerminalJob
               \/ \E k \in DOMAIN org[o].plans : org[o].plans[k].job = FileJob(f)
      BY <3>2, <3>3 DEF Handled
    <3>5. /\ Fits(job[FileJob(f)], item[FileJob(f)]) /\ FileJob(f) \in Jobs
          /\ FileFits(f, job[FileJob(f)], item[FileJob(f)])
          /\ item[FileJob(f)] \in [Ids -> ItemRecord]
      BY JobIds DEF IInv, JobsInv
    <3>6. CASE job[FileJob(f)].status \in TerminalJob
      <4>1. f \in Published
        BY <3>5, <3>6, EndedIsSent DEF Published
      <4> QED BY <3>4, <4>1
    <3>7. CASE \E k \in DOMAIN org[o].plans : org[o].plans[k].job = FileJob(f)
      <4>1. FileJob(f) \in org[o].jobIDs
        BY <1>1, <3>7 DEF AllPersisted
      <4>2. job[FileJob(f)].sealed /\ Unsent(FileJob(f)) = {}
        BY <1>1, <1>2, <4>1
      <4>3. PayloadsOf(item[FileJob(f)]) = 1..SizeOf[f.content]
        BY <3>5, <4>2 DEF FileFits, Planned
      <4>4. \A c \in PayloadsOf(item[FileJob(f)]) : item[FileJob(f)][c].sent
        BY <3>5, <4>2 DEF Unsent, PayloadsOf
      <4>5. f \in Published
        BY <4>2, <4>3, <4>4 DEF Published
      <4> QED BY <3>4, <4>5
    <3> QED BY <3>4, <3>6, <3>7
  <2> DEFINE D == Published'
  <2>3. Published \subseteq D
    BY <2>1, PublishedKept
  <2> HIDE DEF D, M
  <2>4. M.kind = "notification" => Served(M, D, puts)
    BY <2>2, <2>3 DEF Served
  <2>5. PICK s \in {"visible", "deleted"} : s = "deleted"
    OBVIOUS
  <2>6. Release(o, s)
    BY <1>4, <2>5 DEF Ack
  <2>7. queue[org[o].msg].kind = "notification" => Served(queue[org[o].msg], Published', puts)
    BY <2>4 DEF D, M
  <2>8. \A p \in Invocations \ {o} : \A f \in Identities :
          Held(org[p], FileJob(f)) /\ Leased(job[FileJob(f)]) => Leased(job'[FileJob(f)])
    BY <1>1
  <2>9. WorldInv' /\ OrgInv' /\ KeptRequests
    BY <1>1, <1>2, <2>1, <2>6, <2>7, <2>8, Released DEF IInv
  <2>10. JobsInv'
    BY <1>1, <2>9, JobsSame DEF IInv
  <2> QED BY <2>9, <2>10 DEF IInv
<1> QED BY <1>1, <1>3, <1>4

-----------------------------------------------------------------------------
(* The inductive invariant. *)

LEMMA InitInv == Init => IInv
<1> SUFFICES ASSUME Init PROVE IInv
  OBVIOUS
<1>1. /\ limit \in Limits /\ versioning \in {"enabled", "suspended", "off"}
      /\ puts = [k \in Keys |-> <<>>] /\ queue = <<>> /\ replays = <<>>
      /\ org = [o \in Invocations |-> Idle] /\ job = [j \in Jobs |-> NoJob]
      /\ item = [j \in Jobs |-> [c \in Ids |-> NoItem]]
  BY DEF Init, Ids
<1>2. MaxPuts \in Nat /\ MaxMessages \in Nat /\ MaxReplays \in Nat
  BY <1>1, Bounds
<1>3. PICK I : I = [c \in Ids |-> NoItem]
  OBVIOUS
<1>4. /\ Fits(NoJob, I) /\ PayloadsOf(I) = {}
      /\ NoJob.status = "ABSENT" /\ ~NoJob.sealed /\ NoJob.expected = 0
  BY <1>3, BlankFits DEF NoJob
<1>5. \A j \in Jobs : job[j] = NoJob /\ item[j] = I
  BY <1>1, <1>3
<1>6. JobsInv
  <2>1. NoJob \in JobRecord /\ I \in [Ids -> ItemRecord]
    BY <1>4 DEF Fits
  <2>2. job \in [Jobs -> JobRecord] /\ item \in [Jobs -> [Ids -> ItemRecord]]
    BY <1>1, <1>3, <2>1
  <2>3. \A f \in Identities : FileFits(f, job[FileJob(f)], item[FileJob(f)])
    BY <1>4, <1>5, JobIds DEF FileFits, Planned
  <2>4. DOMAIN replays = {}
    BY <1>1
  <2> QED BY <1>4, <1>5, <2>2, <2>3, <2>4, JobIds DEF JobsInv
<1>7. WorldInv
  <2>1. /\ queue \in Seq(Message) /\ Len(queue) = 0 /\ DOMAIN queue = {}
        /\ Len(replays) = 0
    BY <1>1
  <2>2. replays \in Seq(Replayed)
    BY <1>1, EmptySeq
  <2>3. \A k \in Keys : puts[k] = <<>> /\ Len(puts[k]) = 0
    BY <1>1
  <2>4. puts \in [Keys -> Seq(Contents \cup {Gone})]
    BY <1>1
  <2> QED BY <1>1, <1>2, <2>1, <2>2, <2>3, <2>4 DEF WorldInv
<1>8. OrgInv
  <2>1. \A o \in Invocations : org[o] = Idle
    BY <1>1
  <2>2. org \in [Invocations -> Invocation]
    BY <1>1, IdleFacts
  <2>3. \A o, p \in Invocations : Apart(org[o], org[p])
    BY <2>1, IdleFacts DEF Apart
  <2> QED BY <2>1, <2>2, <2>3 DEF OrgInv
<1> QED BY <1>6, <1>7, <1>8 DEF IInv

LEMMA NextInv == IInv /\ [Next]_vars => IInv'
<1> SUFFICES ASSUME IInv, [Next]_vars PROVE IInv'
  OBVIOUS
<1>1. CASE World
  BY <1>1, PutStep, RequestStep, LeaseExpiresStep, CrashStep DEF World
<1>2. CASE Workers
  BY <1>2, StartStep, CompleteStep, FailStep DEF Workers
<1>3. CASE \E o \in Invocations : OrganizerStep(o)
  BY <1>3, HeadStep, AdmitStep, PlanStep, PersistPlanStep, PlanFailsStep, SendStep,
     FinishPublishStep DEF OrganizerStep
<1>4. CASE \E m \in DOMAIN queue : Sqs(m)
  BY <1>4, DeadLetterStep, ReceiveStep DEF Sqs
<1>5. CASE \E j \in Jobs, wanted \in SUBSET Chunks : Replay(j, wanted)
  BY <1>5, ReplayStep
<1>6. CASE UNCHANGED vars
  <2>1. UNCHANGED <<world, puts, queue, org, job, item, replays>>
    BY <1>6 DEF vars
  <2>2. KeptSeals /\ KeptEnds
    BY <2>1 DEF KeptSeals, KeptEnds
  <2>3. WorldInv' /\ KeptRequests
    BY <2>1, <2>2, WorldStays DEF IInv
  <2>4. JobsInv'
    BY <2>1, <2>3, JobsSame DEF IInv
  <2>5. OrgInv'
    <3>1. puts' \in Histories /\ Extends(puts, puts')
      BY <2>1, PutsKept DEF IInv
    <3>2. \A m \in DOMAIN queue : m \in DOMAIN queue' /\ queue'[m] = queue[m]
      BY <2>1
    <3>3. \A p \in Invocations : \A f \in Identities :
            Held(org[p], FileJob(f)) /\ Leased(job[FileJob(f)]) => Leased(job'[FileJob(f)])
      BY <2>1
    <3> QED BY <2>1, <2>2, <3>1, <3>2, <3>3, OrgStays DEF IInv
  <2> QED BY <2>3, <2>4, <2>5 DEF IInv
<1> QED BY <1>1, <1>2, <1>3, <1>4, <1>5, <1>6 DEF Next

LEMMA Invariance == Spec => []IInv
  BY InitInv, NextInv, PTL DEF Spec

-----------------------------------------------------------------------------
(* The properties. *)

(* ReadsAreTheObject, for every bucket, history of writes and number of     *)
(* invocations: a completed chunk was read from the content its job was     *)
(* planned for (ReadRange, the ETag check of the AWS client).               *)
THEOREM ReadsAgree == Spec => []ReadsAreTheObject
<1>1. IInv => ReadsAreTheObject
  <2> SUFFICES ASSUME IInv, NEW j \in Jobs, NEW c \in Chunks, item[j][c].status = "COMPLETED"
               PROVE  /\ item[j][c].read = item[j][c].file.content
                      /\ job[j].file # NoIdentity => item[j][c].file = job[j].file
    BY DEF ReadsAreTheObject
  <2>1. Fits(job[j], item[j])
    BY DEF IInv, JobsInv
  <2>2. c \in PayloadsOf(item[j]) \ {Stray}
    BY ChunkNumbers DEF PayloadsOf, Ids
  <2> QED BY <2>1, <2>2 DEF Fits, OneContent
<1> QED BY <1>1, Invariance, PTL

(* A completed job of no more chunks than it expects: all of them ended.    *)
LEMMA AllCompleted ==
  ASSUME NEW J, NEW I, Fits(J, I), J.status = "COMPLETED",
         J.expected >= Cardinality(PayloadsOf(I) \ {Stray})
  PROVE  /\ J.expected = Cardinality(PayloadsOf(I) \ {Stray})
         /\ \A c \in PayloadsOf(I) \ {Stray} : I[c].status = "COMPLETED"
<1> DEFINE S == PayloadsOf(I) \ {Stray}
           E == EndedOf(I)
<1>1. /\ Cardinality(E) >= J.expected /\ \A c \in E : I[c].status = "COMPLETED"
      /\ I[Stray].status \in {"ABSENT", "PENDING"} /\ J.expected \in Nat
  BY DEF Fits, Counted, Unstarted, TerminalJob, JobRecord
<1>2. E \subseteq S
  BY <1>1 DEF EndedOf, PayloadsOf, TerminalChunk
<1>3. IsFiniteSet(S)
  <2>1. S \subseteq Ids
    BY DEF PayloadsOf
  <2> QED BY <2>1, ChunkNumbers, FS_Subset
<1> HIDE DEF S, E
<1>4. IsFiniteSet(E) /\ Cardinality(E) <= Cardinality(S)
      /\ (Cardinality(E) = Cardinality(S) => E = S)
  BY <1>2, <1>3, FS_Subset
<1>5. Cardinality(S) \in Nat /\ Cardinality(E) \in Nat
  BY <1>3, <1>4, FS_CardinalityType
<1>6. J.expected >= Cardinality(S)
  BY DEF S
<1>7. J.expected = Cardinality(S) /\ Cardinality(E) = Cardinality(S)
  BY <1>1, <1>4, <1>5, <1>6
<1> QED BY <1>1, <1>4, <1>7 DEF S

LEMMA ReplayNumbers == IInv => DOMAIN replays \subseteq 1..MaxReplays
<1> SUFFICES ASSUME IInv, NEW n \in DOMAIN replays PROVE n \in 1..MaxReplays
  OBVIOUS
<1>1. replays \in Seq(Replayed) /\ Len(replays) <= MaxReplays /\ limit \in Limits
  BY DEF IInv, WorldInv
<1> QED BY <1>1, Bounds

(* CompletedReadEverything, for any number of files, requests and replays:  *)
(* no job is COMPLETED with a chunk it was asked for missing.               *)
THEOREM CompletedIsComplete == Spec => []CompletedReadEverything
<1>1. ASSUME IInv, NEW f \in Identities, job[FileJob(f)].status = "COMPLETED"
      PROVE  WholeFile(FileJob(f), f.key)
  <2>1. /\ Fits(job[FileJob(f)], item[FileJob(f)])
        /\ FileFits(f, job[FileJob(f)], item[FileJob(f)])
    BY <1>1, JobIds DEF IInv, JobsInv
  <2>2. /\ job[FileJob(f)].file = f /\ job[FileJob(f)].expected = SizeOf[f.content]
        /\ PayloadsOf(item[FileJob(f)]) = 1..SizeOf[f.content]
    <3>1. job[FileJob(f)].sealed
      BY <1>1, <2>1 DEF Fits, Counted, TerminalJob
    <3> QED BY <1>1, <2>1, <3>1 DEF FileFits, Planned
  <2>3. PayloadsOf(item[FileJob(f)]) \ {Stray} = 1..SizeOf[f.content]
    BY <2>2, ChunkNumbers
  <2>4. /\ SizeOf[f.content] \in Nat /\ f # NoIdentity
        /\ Cardinality(1..SizeOf[f.content]) = SizeOf[f.content]
    BY ChunkNumbers
  <2>5. \A c \in 1..SizeOf[f.content] : item[FileJob(f)][c].status = "COMPLETED"
    <3>1. job[FileJob(f)].expected >= Cardinality(PayloadsOf(item[FileJob(f)]) \ {Stray})
      <4>1. PICK S : S = 1..SizeOf[f.content]
        OBVIOUS
      <4>2. PICK n : n = SizeOf[f.content]
        OBVIOUS
      <4>3. PICK x : x = job[FileJob(f)].expected
        OBVIOUS
      <4>4. n \in Nat /\ Cardinality(S) = n /\ x = n
        BY <2>2, <2>4, <4>1, <4>2, <4>3
      <4>5. PayloadsOf(item[FileJob(f)]) \ {Stray} = S
        BY <2>3, <4>1
      <4> QED BY <4>3, <4>4, <4>5
    <3> QED BY <1>1, <2>1, <2>3, <3>1, AllCompleted
  <2>6. \A c \in 1..SizeOf[f.content] : item[FileJob(f)][c].file = f
    BY <2>1, <2>2, <2>3, <2>4 DEF Fits, OneContent
  <2> QED BY <2>5, <2>6 DEF WholeFile
<1>2. ASSUME IInv, NEW m \in DOMAIN queue, job[RequestJob(m)].status = "COMPLETED",
             NEW i \in DOMAIN queue[m].refs
      PROVE  WholeFile(RequestJob(m), queue[m].refs[i].key)
  <2> DEFINE J == job[RequestJob(m)]
             I == item[RequestJob(m)]
             M == queue[m]
  <2>1. queue \in Seq(Message) /\ M \in Message /\ m \in 1..MaxMessages
    <3>1. queue \in Seq(Message) /\ Len(queue) <= MaxMessages /\ limit \in Limits
      BY <1>2 DEF IInv, WorldInv
    <3> QED BY <3>1, Bounds
  <2>2. Fits(J, I) /\ RequestFits(M, J, I)
    BY <1>2, <2>1, JobIds DEF IInv, JobsInv
  <2>3. /\ J.file \in Identities /\ J.file.key = M.refs[1].key
        /\ PayloadsOf(I) = 1..SizeOf[J.file.content] /\ J.expected >= SizeOf[J.file.content]
        /\ Len(M.refs) > 1 => J.expected > SizeOf[J.file.content]
    <3>1. J.sealed
      BY <1>2, <2>2 DEF Fits, Counted, TerminalJob
    <3> QED BY <2>2, <3>1 DEF RequestFits, Planned
  <2>4. /\ SizeOf[J.file.content] \in Nat /\ J.file # NoIdentity
        /\ Cardinality(1..SizeOf[J.file.content]) = SizeOf[J.file.content]
        /\ PayloadsOf(I) \ {Stray} = 1..SizeOf[J.file.content]
    BY <2>3, ChunkNumbers
  <2> HIDE DEF J, I
  <2>5. /\ J.expected = SizeOf[J.file.content]
        /\ \A c \in 1..SizeOf[J.file.content] : I[c].status = "COMPLETED"
    <3>1. J.status = "COMPLETED"
      BY <1>2 DEF J
    <3> QED BY <2>2, <2>3, <2>4, <3>1, AllCompleted
  <2>6. i = 1
    <3>1. M.refs \in Seq(Reference)
      BY <2>1 DEF Message
    <3>2. ~(Len(M.refs) > 1)
      BY <2>3, <2>4, <2>5
    <3> QED BY <1>2, <3>1, <3>2
  <2>7. \A c \in 1..SizeOf[J.file.content] : I[c].file = J.file
    BY <2>2, <2>4 DEF Fits, OneContent
  <2> QED BY <2>3, <2>5, <2>6, <2>7 DEF WholeFile, J, I
<1>3. ASSUME IInv, NEW n \in DOMAIN replays, job[ReplayJob(n)].status = "COMPLETED",
             NEW c \in replays[n].chunks
      PROVE  item[ReplayJob(n)][c].status = "COMPLETED"
  <2> DEFINE J == job[ReplayJob(n)]
             I == item[ReplayJob(n)]
             S == replays[n].chunks
  <2>1. n \in 1..MaxReplays
    BY <1>3, ReplayNumbers
  <2>2. Fits(J, I) /\ ReplayFits(replays[n], J, I)
    BY <1>3, <2>1, JobIds DEF IInv, JobsInv
  <2>3. J.status = "COMPLETED" /\ c \in S
    BY <1>3
  <2>4. PayloadsOf(I) \ {Stray} = S
    BY <2>2 DEF ReplayFits
  <2>5. J.expected >= Cardinality(S)
    <3>1. J.expected \in Nat
      BY <2>2 DEF Fits, JobRecord
    <3>2. Cardinality(S) \in Nat
      <4>1. S \subseteq Ids
        BY <2>4 DEF PayloadsOf
      <4> QED BY <4>1, ChunkNumbers, FS_Subset, FS_CardinalityType
    <3> QED BY <2>2, <3>1, <3>2 DEF ReplayFits
  <2> HIDE DEF J, I, S
  <2> QED BY <2>2, <2>3, <2>4, <2>5, AllCompleted DEF I
<1>4. IInv => CompletedReadEverything
  BY <1>1, <1>2, <1>3 DEF CompletedReadEverything
<1> QED BY <1>4, Invariance, PTL

(* AcknowledgedIsPlanned, whatever crashes, expired leases and overwritten  *)
(* objects come in between: a notification is deleted only when the         *)
(* manifest of each of its objects is sealed and sent (Publish).            *)
THEOREM NothingIsLost == Spec => []AcknowledgedIsPlanned
<1>1. ASSUME IInv, NEW m \in DOMAIN queue, queue[m].state = "deleted",
             queue[m].kind = "notification", NEW i \in DOMAIN queue[m].refs
      PROVE  \E f \in Identities :
               /\ Answers(f, queue[m].refs[i]) /\ job[FileJob(f)].sealed
               /\ \A c \in 1..SizeOf[f.content] : item[FileJob(f)][c].sent
  <2>1. MessageFits(queue[m], versioning, Published, puts)
    BY <1>1 DEF IInv, WorldInv
  <2>2. PICK f \in Published : Answered(puts, f, queue[m].refs[i])
    BY <1>1, <2>1 DEF MessageFits, Served
  <2> QED BY <2>2 DEF Answers, Answered, Published
<1>2. IInv => AcknowledgedIsPlanned
  BY <1>1 DEF AcknowledgedIsPlanned
<1> QED BY <1>2, Invariance, PTL

(* ManifestIsAttainable, for every schedule: what the job of an admitted    *)
(* object, or of a replay of chosen chunks, waits for is the number of its  *)
(* chunks (Plan, Replay).                                                   *)
THEOREM ManifestsAreAttainable == Spec => []ManifestIsAttainable
<1>1. ASSUME IInv, NEW j \in Jobs, job[j].sealed, Promised(j)
      PROVE  /\ Stray \notin PayloadsOf(item[j])
             /\ job[j].expected = Cardinality(PayloadsOf(item[j]))
  <2>1. ASSUME NEW f \in Identities, j = FileJob(f)
        PROVE  /\ Stray \notin PayloadsOf(item[j])
               /\ job[j].expected = Cardinality(PayloadsOf(item[j]))
    <3>1. FileFits(f, job[j], item[j])
      BY <1>1, <2>1 DEF IInv, JobsInv
    <3>2. PayloadsOf(item[j]) = 1..SizeOf[f.content] /\ job[j].expected = SizeOf[f.content]
      BY <1>1, <3>1 DEF FileFits, Planned
    <3>3. /\ Cardinality(1..SizeOf[f.content]) = SizeOf[f.content]
          /\ 1..SizeOf[f.content] \subseteq Chunks /\ Stray \notin Chunks
      BY ChunkNumbers
    <3> QED BY <3>2, <3>3
  <2>2. ASSUME NEW n \in DOMAIN replays, j = ReplayJob(n), replays[n].wanted # {}
        PROVE  /\ Stray \notin PayloadsOf(item[j])
               /\ job[j].expected = Cardinality(PayloadsOf(item[j]))
    <3>1. ReplayFits(replays[n], job[j], item[j])
      BY <1>1, <2>2, ReplayNumbers DEF IInv, JobsInv
    <3>2. Stray \notin PayloadsOf(item[j])
      BY <2>2, <3>1 DEF ReplayFits
    <3>3. PayloadsOf(item[j]) = replays[n].chunks
      BY <3>1, <3>2 DEF ReplayFits
    <3> QED BY <3>1, <3>2, <3>3 DEF ReplayFits
  <2> QED BY <1>1, <2>1, <2>2 DEF Promised
<1>2. IInv => ManifestIsAttainable
  <2> SUFFICES ASSUME IInv, NEW j \in Jobs, job[j].sealed, Promised(j)
               PROVE  /\ Stray \notin Payloads(j)
                      /\ job[j].expected = Cardinality(Payloads(j))
    BY DEF ManifestIsAttainable
  <2>1. Payloads(j) = PayloadsOf(item[j])
    <3>1. DOMAIN item[j] = Ids
      BY DEF IInv, JobsInv
    <3> QED BY <3>1 DEF Payloads, PayloadsOf
  <2> QED BY <1>1, <2>1
<1> QED BY <1>2, Invariance, PTL
=============================================================================
