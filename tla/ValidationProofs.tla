-------------------------- MODULE ValidationProofs --------------------------
(***************************************************************************)
(* Proofs about Validation for every number of files, workers, callers and *)
(* runs, every pool size, and every choice of twins and damaged files.     *)
(*                                                                         *)
(* TypeInv and Apart (one validator of a file) come first, as everything   *)
(* else relies on them; Holds says what a job and a caller have in hand.   *)
(* EntryMoves and JobMoves then describe a step by what it does to one     *)
(* entry and to one job, and the later invariants are proved from these    *)
(* descriptions: SoundInv (nothing unsound is COMPLETED), QuietPool (a run *)
(* that is over left nothing), HistInv (no verdict is lost) and BytesInv   *)
(* (a verdict belongs to its bytes).                                       *)
(***************************************************************************)
EXTENDS ValidationHistory, SequenceTheorems, WellFoundedInduction, TLAPS

USE ValidationAssumption DEF File

-----------------------------------------------------------------------------
\* A new element at the end of a deque adds exactly that element.
LEMMA AppendContents ==
  ASSUME NEW S, NEW s \in Seq(S), NEW e \in S
  PROVE  /\ Append(s, e) \in Seq(S)
         /\ Range(Append(s, e)) = Range(s) \cup {e}
         /\ IsInjective(s) /\ e \notin Range(s) => IsInjective(Append(s, e))
<1> DEFINE t == Append(s, e)
<1>1. /\ t \in Seq(S) /\ Len(t) = Len(s) + 1
      /\ \A i \in 1..Len(s) : t[i] = s[i]
      /\ t[Len(s) + 1] = e
  BY AppendProperties
<1>2. DOMAIN t = 1..Len(s) + 1 /\ DOMAIN s = 1..Len(s) /\ Len(s) \in Nat
  BY <1>1, LenProperties
<1>3. Range(t) = Range(s) \cup {e}
  <2>1. \A x \in Range(t) : x \in Range(s) \cup {e}
    BY <1>1, <1>2 DEF Range
  <2>2. \A x \in Range(s) : x \in Range(t)
    BY <1>1, <1>2 DEF Range
  <2>3. e \in Range(t)
    BY <1>1, <1>2 DEF Range
  <2> QED BY <2>1, <2>2, <2>3
<1>4. ASSUME IsInjective(s), e \notin Range(s)
      PROVE  IsInjective(t)
  BY <1>1, <1>2, <1>4 DEF Range, IsInjective
<1> QED BY <1>1, <1>3, <1>4

-----------------------------------------------------------------------------
\* A set of numbers has a first one.
LEMMA FirstIsLeast ==
  ASSUME NEW S \in SUBSET Nat, S # {}
  PROVE  First(S) \in S
<1> DEFINE R == {ss \in Nat \X Nat : ss[1] < ss[2]}
<1>1. IsWellFoundedOn(R, Nat)
  BY NatLessThanWellFounded DEF OpToRel
<1>2. \E x \in S : \A y \in S : ~(<<y, x>> \in R)
  <2> HIDE DEF R
  <2> QED BY <1>1, WFMin
<1>3. PICK x \in S : \A y \in S : ~(<<y, x>> \in R)
  BY <1>2
<1>4. ASSUME NEW y \in S PROVE x <= y
  <2>1. ~(<<y, x>> \in R) /\ x \in Nat /\ y \in Nat
    BY <1>3
  <2>2. ~(y < x)
    BY <2>1 DEF R
  <2> QED BY <2>1, <2>2
<1> QED BY <1>4 DEF First

-----------------------------------------------------------------------------
\* Type correctness.

Validations == Verdicts \cup {"QUEUED", "RUNNING", "DUPLICATE_PENDING"}
Paths == Places \cup {"none"}
JobType == [file : 0..Files, step : JobSteps, timer : BOOLEAN,
            verdict : Verdicts \cup {"DUPLICATE_PENDING"}, path : Places \cup {"none"},
            listed : SUBSET File]
CallType == [file : 0..Files, step : CallSteps]

\* What is reported is a verdict, as only a duplicate is told to wait, and it has
\* no report of its own; an idle worker has no timer.
JobFits(r) == /\ r \in JobType
              /\ r.file = 0 <=> r.step = "idle"
              /\ r.step \in {"relocate", "report"} => r.verdict \in Verdicts
              /\ r.timer => r.step # "idle"
CallFits(r) == r \in CallType /\ (r.file = 0 <=> r.step = "idle")

DiskOK == /\ copies \in [File -> SUBSET Places] /\ sound \in [File -> BOOLEAN]
          /\ report \in [File -> Verdicts]
LedgerOK == ledger \in [File -> Entry]
PoolOK == queue \in Seq(File) /\ Len(queue) <= QueueSize /\ known \subseteq File
JobsOK == job \in [Worker -> JobType] /\ \A w \in Worker : JobFits(job[w])
CallsOK == call \in [Caller -> CallType] /\ \A c \in Caller : CallFits(call[c])
RunOK == /\ phase \in Phases /\ todo \subseteq File
         /\ admitted \in BOOLEAN /\ fetch \subseteq File /\ runs \in 1..MaxRuns

TypeInv == /\ DiskOK /\ LedgerOK /\ PoolOK /\ JobsOK /\ CallsOK /\ RunOK
           /\ late \subseteq File

LEMMA TypeInvTypes == TypeInv => TypeOK
BY DEF TypeInv, TypeOK, DiskOK, LedgerOK, PoolOK, JobsOK, CallsOK, RunOK, JobFits,
       CallFits, JobType, CallType, At, InCall

LEMMA NothingAtWork == JobFits(NoJob) /\ CallFits(NoCall)
<1>1. NoJob \in JobType /\ NoCall \in CallType
  BY DEF NoJob, NoCall, JobType, CallType, JobSteps, CallSteps, Verdicts, Places
<1> QED BY <1>1 DEF JobFits, CallFits, NoJob, NoCall

\* One record at a time changes.
LEMMA JobUpdate ==
  ASSUME JobsOK, NEW w \in Worker, NEW r, JobFits(r), job' = [job EXCEPT ![w] = r]
  PROVE  JobsOK'
BY DEF JobsOK, JobFits

LEMMA CallUpdate ==
  ASSUME CallsOK, NEW c \in Caller, NEW r, CallFits(r), call' = [call EXCEPT ![c] = r]
  PROVE  CallsOK'
BY DEF CallsOK, CallFits

LEMMA GoesOK ==
  ASSUME JobsOK, NEW w \in Worker, ~At(w, "idle"), NEW s \in JobSteps \ {"idle"},
         s \in {"relocate", "report"} => job[w].verdict \in Verdicts, Goes(w, s)
  PROVE  JobsOK'
<1> DEFINE r == [job[w] EXCEPT !.step = s]
<1>1. job[w] \in JobType /\ JobFits(job[w])
  BY DEF JobsOK
<1>2. r \in JobType
  BY <1>1 DEF JobType
<1>3. r.step = s /\ r.file = job[w].file /\ r.verdict = job[w].verdict
  BY <1>1 DEF JobType
<1>4. JobFits(r)
  BY <1>1, <1>2, <1>3 DEF JobFits, At
<1>5. job' = [job EXCEPT ![w] = r]
  BY DEF Goes
<1> QED BY <1>4, <1>5, JobUpdate

LEMMA CallGoesOK ==
  ASSUME CallsOK, NEW c \in Caller, ~InCall(c, "idle"), NEW s \in CallSteps \ {"idle"},
         CallGoes(c, s)
  PROVE  CallsOK'
<1> DEFINE r == [call[c] EXCEPT !.step = s]
<1>1. call[c] \in CallType /\ CallFits(call[c])
  BY DEF CallsOK
<1>2. r \in CallType /\ r.step = s /\ r.file = call[c].file
  BY <1>1 DEF CallType
<1>4. CallFits(r)
  BY <1>1, <1>2 DEF CallFits, InCall
<1>5. call' = [call EXCEPT ![c] = r]
  BY DEF CallGoes
<1> QED BY <1>4, <1>5, CallUpdate

LEMMA ReturnsOK ==
  ASSUME CallsOK, RunOK, NEW c \in Caller, NEW b, Returns(c, b)
  PROVE  CallsOK' /\ RunOK'
<1>1. CallsOK'
  BY NothingAtWork, CallUpdate DEF Returns
<1>2. admitted' \in BOOLEAN
  BY Zenon DEF Returns
<1> QED BY <1>1, <1>2 DEF Returns, RunOK

\* The ledger writes keep the shape of an entry.
LEMMA UnprovenType ==
  ASSUME NEW e \in Entry, NEW s \in {"DOWNLOADING", "INTEGRITY_PENDING"}
  PROVE  Unproven(e, s) \in Entry
<1>1. ASSUME NEW b \in BOOLEAN, NEW d \in 0..Files
      PROVE  [e EXCEPT !.status = s, !.integrity = "PENDING",
                       !.hashed = b, !.duplicate_of = d] \in Entry
  BY DEF Entry
<1>2. FALSE \in BOOLEAN /\ 0 \in 0..Files
  OBVIOUS
<1> QED BY <1>1, <1>2, Zenon DEF Unproven

LEMMA MarkedType ==
  ASSUME ledger \in [File -> Entry], NEW f \in File, NEW v \in Validations, NEW b \in BOOLEAN
  PROVE  Marked(f, v, b) \in Entry
<1>1. Resolved(f) \in Entry
  BY UnprovenType DEF Resolved
<1> HIDE DEF Resolved
<1> QED BY <1>1 DEF Marked, Entry, Validations

LEMMA MarkType ==
  ASSUME ledger \in [File -> Entry], NEW f, NEW v \in Validations, Mark(f, v)
  PROVE  ledger' \in [File -> Entry]
<1>1. CASE f \in File
  <2>1. Marked(f, v, FALSE) \in Entry
    BY <1>1, MarkedType
  <2> QED BY <2>1 DEF Mark
<1>2. CASE f \notin File
  BY <1>2 DEF Mark
<1> QED BY <1>1, <1>2

LEMMA CertifyType ==
  ASSUME ledger \in [File -> Entry], NEW f \in File, NEW p \in Paths,
         NEW v \in Validations, Certify(f, p, v)
  PROVE  ledger' \in [File -> Entry]
<1>1. ASSUME NEW b \in BOOLEAN
      PROVE  [ledger[f] EXCEPT !.status = "COMPLETED", !.integrity = "VALID", !.path = p,
                               !.validation = v, !.full = b] \in Entry
  <2>1. ledger[f] \in Entry
    OBVIOUS
  <2> QED BY <2>1 DEF Entry, Validations, Paths
<1>2. FALSE \in BOOLEAN
  OBVIOUS
<1>3. Certified(f, p, v) \in Entry
  BY <1>1, <1>2, Zenon DEF Certified
<1> QED BY <1>3 DEF Certify

LEMMA TypeInvInit == Init => TypeInv
<1> SUFFICES ASSUME Init PROVE TypeInv
  OBVIOUS
<1>1. copies \in [File -> SUBSET Places] /\ sound \in [File -> BOOLEAN]
      /\ report \in [File -> Verdicts]
  BY DEF Init, Verdicts
<1>2. ledger \in [File -> Entry]
  BY DEF Init, Entry, Verdicts, Places
<1>4. JobsOK /\ CallsOK
  <2>1. job \in [Worker -> JobType] /\ call \in [Caller -> CallType]
    BY NothingAtWork DEF Init, JobFits, CallFits
  <2> QED BY <2>1, NothingAtWork DEF Init, JobsOK, CallsOK
<1>6. queue \in Seq(File) /\ Len(queue) <= QueueSize /\ known \subseteq File
  BY DEF Init
<1>7. /\ late \subseteq File /\ phase \in Phases /\ todo \subseteq File
      /\ fetch \subseteq File /\ runs \in 1..MaxRuns
  BY DEF Init, Phases
<1>9. admitted \in BOOLEAN
  BY Zenon DEF Init
<1> QED
  BY <1>1, <1>2, <1>4, <1>6, <1>7, <1>9 DEF TypeInv, DiskOK, LedgerOK, PoolOK, RunOK

\* What a step leaves alone keeps its type.
LEMMA Untouched ==
  /\ DiskOK /\ UNCHANGED disk => DiskOK'
  /\ LedgerOK /\ UNCHANGED ledger => LedgerOK'
  /\ PoolOK /\ UNCHANGED pool => PoolOK'
  /\ JobsOK /\ UNCHANGED job => JobsOK'
  /\ CallsOK /\ UNCHANGED call => CallsOK'
  /\ RunOK /\ UNCHANGED run => RunOK'
BY DEF DiskOK, LedgerOK, PoolOK, JobsOK, CallsOK, RunOK, disk, pool, run, JobFits, CallFits

LEMMA CallStepType ==
  ASSUME TypeInv, NEW c \in Caller, CallStep(c)
  PROVE  TypeInv'
<1> DEFINE f == call[c].file
<1>0. /\ ~InCall(c, "idle") => f \in File
      /\ DiskOK /\ LedgerOK /\ PoolOK /\ JobsOK /\ CallsOK /\ RunOK /\ late \subseteq File
  BY DEF TypeInv, CallsOK, CallFits, CallType, InCall
<1>1. CASE Record(c)
  <2>1. LedgerOK'
    BY <1>0, <1>1, MarkType DEF Record, LedgerOK, Entry, Validation, Validations, InCall
  <2>2. CallsOK'
    BY <1>0, <1>1, CallGoesOK DEF Record, InCall, CallSteps
  <2> QED BY <1>0, <1>1, <2>1, <2>2, Untouched DEF Record, TypeInv
<1>2. CASE Read(c)
  <2>1. CASE Returns(c, Located(f))
    <3>2. CallsOK' /\ RunOK'
      BY <1>0, <2>1, ReturnsOK
    <3> QED BY <1>0, <1>2, <3>2, Untouched DEF Read, TypeInv
  <2>2. CASE CallGoes(c, "check") /\ UNCHANGED run
    <3>1. CallsOK'
      BY <1>0, <1>2, <2>2, CallGoesOK DEF Read, InCall, CallSteps
    <3> QED BY <1>0, <1>2, <2>2, <3>1, Untouched DEF Read, TypeInv
  <2> QED BY <1>2, <2>1, <2>2 DEF Read
<1>3. CASE Check(c)
  <2>1. CASE Returns(c, TRUE)
    <3>2. CallsOK' /\ RunOK'
      BY <1>0, <2>1, ReturnsOK, Zenon
    <3> QED BY <1>0, <1>3, <3>2, Untouched DEF Check, TypeInv
  <2>2. CASE CallGoes(c, "queue") /\ UNCHANGED run
    <3>1. CallsOK'
      BY <1>0, <1>3, <2>2, CallGoesOK DEF Check, InCall, CallSteps
    <3> QED BY <1>0, <1>3, <2>2, <3>1, Untouched DEF Check, TypeInv
  <2> QED BY <1>3, <2>1, <2>2 DEF Check
<1>4. CASE Queue(c)
  <2>1. LedgerOK'
    BY <1>0, <1>4, MarkType DEF Queue, LedgerOK, Validations, InCall
  <2>2. CallsOK'
    BY <1>0, <1>4, CallGoesOK DEF Queue, InCall, CallSteps
  <2> QED BY <1>0, <1>4, <2>1, <2>2, Untouched DEF Queue, TypeInv
<1>5. CASE Put(c)
  <2>1. CASE Returns(c, TRUE)
    <3>1. CallsOK' /\ RunOK'
      BY <1>0, <2>1, ReturnsOK, Zenon
    <3>2. PoolOK'
      <4>1. CASE UNCHANGED pool
        BY <1>0, <4>1, Untouched
      <4>2. CASE /\ f \notin known /\ Len(queue) < QueueSize
                 /\ queue' = Append(queue, f) /\ known' = known \cup {f}
        <5>1. f \in File
          BY <1>0, <1>5 DEF Put, InCall
        <5>2. queue \in Seq(File) /\ Len(queue) \in Nat /\ known \subseteq File
          BY <1>0, LenProperties DEF PoolOK
        <5>3. Append(queue, f) \in Seq(File) /\ Len(Append(queue, f)) = Len(queue) + 1
          BY <5>1, <5>2, AppendProperties
        <5>4. Len(queue) + 1 <= QueueSize
          BY <4>2, <5>2
        <5> QED BY <4>2, <5>1, <5>2, <5>3, <5>4 DEF PoolOK
      <4>3. CASE CallGoes(c, "refuse") /\ UNCHANGED pool
        BY <1>0, <4>3, Untouched
      <4> QED BY <1>5, <4>1, <4>2, <4>3 DEF Put
    <3> QED BY <1>0, <1>5, <3>1, <3>2, Untouched DEF Put, TypeInv
  <2>2. CASE CallGoes(c, "refuse") /\ UNCHANGED <<pool, run>>
    <3>1. CallsOK'
      BY <1>0, <1>5, <2>2, CallGoesOK DEF Put, InCall, CallSteps
    <3> QED BY <1>0, <1>5, <2>2, <3>1, Untouched DEF Put, TypeInv
  <2> QED BY <1>5, <2>1, <2>2 DEF Put
<1>6. CASE Refuse(c)
  <2>1. LedgerOK'
    <3>1. f \in File /\ "PENDING" \in Validations
      BY <1>0, <1>6 DEF Refuse, InCall, Validations, Verdicts
    <3>2. Marked(f, "PENDING", TRUE) \in Entry
      BY <1>0, <3>1, MarkedType, Zenon DEF LedgerOK
    <3> QED BY <1>0, <1>6, <3>2 DEF Refuse, LedgerOK
  <2>2. CallsOK' /\ RunOK'
    BY <1>0, <1>6, ReturnsOK, Zenon DEF Refuse
  <2> QED BY <1>0, <1>6, <2>1, <2>2, Untouched DEF Refuse, TypeInv
<1> QED BY <1>1, <1>2, <1>3, <1>4, <1>5, <1>6 DEF CallStep

\* A job that has only moved on, or changed one more field.
LEMMA JobChange ==
  ASSUME NEW r, JobFits(r), r.step # "idle", NEW s \in JobSteps \ {"idle"},
         NEW v \in Verdicts \cup {"DUPLICATE_PENDING"}, NEW p \in Paths,
         NEW b \in BOOLEAN, NEW l \in SUBSET File
  PROVE  /\ s \notin {"relocate", "report"} => JobFits([r EXCEPT !.path = p, !.step = s])
         /\ s \notin {"relocate", "report"} => JobFits([r EXCEPT !.step = s, !.timer = b])
         /\ s \notin {"relocate", "report"} => JobFits([r EXCEPT !.step = s, !.verdict = v])
         /\ v \in Verdicts => JobFits([r EXCEPT !.step = s, !.verdict = v, !.path = p])
         /\ s \notin {"relocate", "report"} => JobFits([r EXCEPT !.listed = l, !.step = s])
         /\ JobFits([r EXCEPT !.timer = b])
<1> USE DEF JobFits, Paths
<1>0. r \in JobType
  OBVIOUS
<1>1. ASSUME s \notin {"relocate", "report"}
      PROVE  JobFits([r EXCEPT !.path = p, !.step = s])
  BY <1>0, <1>1 DEF JobType
<1>2. ASSUME s \notin {"relocate", "report"}
      PROVE  JobFits([r EXCEPT !.step = s, !.timer = b])
  BY <1>0, <1>2 DEF JobType
<1>3. ASSUME s \notin {"relocate", "report"}
      PROVE  JobFits([r EXCEPT !.step = s, !.verdict = v])
  BY <1>0, <1>3 DEF JobType
<1>4. ASSUME v \in Verdicts
      PROVE  JobFits([r EXCEPT !.step = s, !.verdict = v, !.path = p])
  BY <1>0, <1>4 DEF JobType
<1>5. ASSUME s \notin {"relocate", "report"}
      PROVE  JobFits([r EXCEPT !.listed = l, !.step = s])
  BY <1>0, <1>5 DEF JobType
<1>6. JobFits([r EXCEPT !.timer = b])
  BY <1>0 DEF JobType
<1> QED BY <1>1, <1>2, <1>3, <1>4, <1>5, <1>6

\* A job that is taken from the queue.
LEMMA NewJobFits ==
  ASSUME NEW h \in File
  PROVE  JobFits([NoJob EXCEPT !.file = h, !.step = "open"])
<1>1. PICK z : z = NoJob /\ z \in JobType /\ ~z.timer
  BY NothingAtWork, Zenon DEF JobFits, NoJob
<1>2. ASSUME NEW n \in 0..Files, n # 0, NEW s \in JobSteps \ {"idle", "relocate", "report"}
      PROVE  JobFits([z EXCEPT !.file = n, !.step = s])
  <2>0. z \in JobType
    BY <1>1
  <2> DEFINE y == [z EXCEPT !.file = n, !.step = s]
  <2>1. y \in JobType
    BY <2>0 DEF JobType
  <2>2. y.file = n /\ y.step = s
    BY <2>0 DEF JobType
  <2>3. JobFits(y)
    <3> HIDE DEF y
    <3> QED BY <1>2, <2>1, <2>2 DEF JobFits, JobType
  <2> QED BY <2>3
<1>3. /\ h \in 0..Files /\ h # 0
      /\ "open" \in JobSteps \ {"idle", "relocate", "report"}
  BY DEF JobSteps
<1> QED BY <1>1, <1>2, <1>3

LEMMA JobStepType ==
  ASSUME TypeInv, NEW w \in Worker, JobStep(w) \/ Expire(w)
  PROVE  TypeInv'
<1> DEFINE f == job[w].file
           r == job[w]
<1>0. /\ ~At(w, "idle") => f \in File
      /\ DiskOK /\ LedgerOK /\ PoolOK /\ JobsOK /\ CallsOK /\ RunOK /\ late \subseteq File
      /\ JobFits(r) /\ r \in JobType
  BY DEF TypeInv, JobsOK, JobFits, JobType, At
<1>a. /\ \A s \in {"run", "gate", "inspect", "discard", "hash", "inherit", "evaluate",
                   "verdict", "confirm", "propagate", "copy", "error", "leave", "open"} :
           s \in JobSteps \ {"idle"} /\ s \notin {"relocate", "report"}
      /\ "relocate" \in JobSteps \ {"idle"} /\ "report" \in JobSteps \ {"idle"}
  BY DEF JobSteps
<1>b. /\ \A v \in {"PENDING", "RUNNING", "QUEUED"} : v \in Validations
      /\ Verdicts \cup {"DUPLICATE_PENDING"} \subseteq Validations
      /\ "PENDING" \in Verdicts /\ Decided \subseteq Verdicts /\ Decided \subseteq Paths
  BY DEF Validations, Verdicts, Paths, Places, Decided
<1>c. r.path \in Paths /\ r.verdict \in Verdicts \cup {"DUPLICATE_PENDING"}
      /\ r.listed \in SUBSET File /\ r.timer \in BOOLEAN
  BY <1>0 DEF JobType, Paths
<1>d. TRUE \in BOOLEAN /\ FALSE \in BOOLEAN
  OBVIOUS
<1>1. CASE Take(w)
  <2>1. queue # <<>> /\ Head(queue) \in File /\ Tail(queue) \in Seq(File)
        /\ Len(Tail(queue)) = Len(queue) - 1 /\ Len(queue) \in Nat
    BY <1>0, <1>1, HeadTailProperties, EmptySeq, LenProperties DEF Take, PoolOK
  <2>2. PoolOK'
    BY <1>0, <1>1, <2>1 DEF Take, PoolOK
  <2> DEFINE q == [NoJob EXCEPT !.file = Head(queue), !.step = "open"]
  <2>3. JobFits(q)
    BY <2>1, NewJobFits
  <2>4. JobsOK'
    BY <1>0, <1>1, <2>3, JobUpdate DEF Take
  <2> QED BY <1>0, <1>1, <2>2, <2>4, Untouched DEF Take, TypeInv
<1>2. CASE Open(w)
  <2> DEFINE s == IF ~Located(f) THEN "leave"
                  ELSE IF VerifiedAt(f, Destination(f)) THEN "run" ELSE "gate"
  <2>1. s \in JobSteps \ {"idle"} /\ s \notin {"relocate", "report"}
    BY <1>a
  <2>2. Destination(f) \in Paths
    BY <1>0, <1>2 DEF Open, At, Destination, Paths, Places, LedgerOK, Entry
  <2>3. JobFits([r EXCEPT !.path = Destination(f), !.step = s])
    <3> HIDE DEF s
    <3> QED BY <1>0, <1>2, <1>c, <2>1, <2>2, JobChange DEF Open, At
  <2>4. job' = [job EXCEPT ![w] = [r EXCEPT !.path = Destination(f), !.step = s]]
    BY <1>2 DEF Open
  <2>5. JobsOK'
    <3> HIDE DEF s
    <3> QED BY <1>0, <2>3, <2>4, JobUpdate
  <2> QED BY <1>0, <1>2, <2>5, Untouched DEF Open, TypeInv
<1>3. CASE Gate(w)
  <2>1. LedgerOK'
    BY <1>0, <1>3, <1>b, MarkType DEF Gate, LedgerOK
  <2>2. JobsOK'
    BY <1>0, <1>3, <1>a, GoesOK DEF Gate, At
  <2> QED BY <1>0, <1>3, <2>1, <2>2, Untouched DEF Gate, TypeInv
<1>4. CASE Inspect(w)
  <2>0. f \in File /\ ~At(w, "idle")
    BY <1>0, <1>4 DEF Inspect, At
  <2>1. CASE Certify(f, r.path, "PENDING") /\ Goes(w, "run") /\ UNCHANGED disk
    <3>1. LedgerOK'
      BY <1>0, <2>0, <2>1, <1>b, <1>c, CertifyType DEF LedgerOK
    <3>2. JobsOK'
      BY <1>0, <2>0, <2>1, <1>a, GoesOK
    <3> QED BY <1>0, <1>4, <2>1, <3>1, <3>2, Untouched DEF Inspect, TypeInv
  <2>2. CASE /\ copies' = [copies EXCEPT ![f] = @ \ {"managed"}] /\ Goes(w, "discard")
             /\ UNCHANGED <<ledger, sound, report>>
    <3>1. DiskOK'
      BY <1>0, <2>2 DEF DiskOK
    <3>2. JobsOK'
      BY <1>0, <2>0, <2>2, <1>a, GoesOK
    <3> QED BY <1>0, <1>4, <2>2, <3>1, <3>2, Untouched DEF Inspect, TypeInv
  <2>3. CASE Goes(w, "leave") /\ UNCHANGED <<disk, ledger>>
    <3>2. JobsOK'
      BY <1>0, <2>0, <2>3, <1>a, GoesOK
    <3> QED BY <1>0, <1>4, <2>3, <3>2, Untouched DEF Inspect, TypeInv
  <2> QED BY <1>4, <2>1, <2>2, <2>3 DEF Inspect
<1>5. CASE Discard(w)
  <2>0. f \in File /\ ~At(w, "idle")
    BY <1>0, <1>5 DEF Discard, At
  <2>1. LedgerOK'
    <3>1. ASSUME NEW b \in BOOLEAN
          PROVE  [ledger[f] EXCEPT !.status = "RETRY", !.integrity = "INVALID",
                                   !.validation = "PENDING", !.full = b] \in Entry
      <4>1. ledger[f] \in Entry
        BY <1>0, <2>0 DEF LedgerOK
      <4> QED BY <4>1 DEF Entry, Verdicts
    <3>2. [ledger[f] EXCEPT !.status = "RETRY", !.integrity = "INVALID",
                            !.validation = "PENDING", !.full = FALSE] \in Entry
      BY <3>1, <1>d, Zenon
    <3> QED BY <1>0, <1>5, <3>2 DEF Discard, LedgerOK
  <2>2. JobsOK'
    BY <1>0, <1>5, <2>0, <1>a, GoesOK DEF Discard
  <2> QED BY <1>0, <1>5, <2>1, <2>2, Untouched DEF Discard, TypeInv
<1>6. CASE Run(w)
  <2>1. LedgerOK'
    BY <1>0, <1>6, <1>b, MarkType DEF Run, LedgerOK
  <2>2. r.step # "idle"
    BY <1>6 DEF Run, At
  <2>3. JobFits([r EXCEPT !.step = "hash", !.timer = TRUE])
    BY <1>0, <1>a, <1>d, <2>2, <1>c, JobChange, Zenon
  <2>4. job' = [job EXCEPT ![w] = [r EXCEPT !.step = "hash", !.timer = TRUE]]
    BY <1>6 DEF Run
  <2>5. JobsOK'
    BY <1>0, <2>3, <2>4, JobUpdate
  <2> QED BY <1>0, <1>6, <2>1, <2>5, Untouched DEF Run, TypeInv
<1>7. CASE Hash(w)
  <2> DEFINE original == IF Matches(f) = {} THEN 0 ELSE First(Matches(f))
  <2>0. f \in File /\ ~At(w, "idle") /\ r.step # "idle"
    BY <1>0, <1>7 DEF Hash, At
  <2>1. original \in 0..Files
    <3>1. Matches(f) \subseteq File /\ Matches(f) \in SUBSET Nat
      BY DEF Matches
    <3> QED BY <3>1, FirstIsLeast
  <2>2. LedgerOK'
    <3>1. CASE UNCHANGED ledger
      BY <1>0, <3>1, Untouched
    <3>2. CASE ledger' = [ledger EXCEPT ![f].hashed = TRUE, ![f].duplicate_of = original]
      <4>1. ASSUME NEW b \in BOOLEAN, NEW d \in 0..Files
            PROVE  [ledger[f] EXCEPT !.hashed = b, !.duplicate_of = d] \in Entry
        <5>1. ledger[f] \in Entry
          BY <1>0, <2>0 DEF LedgerOK
        <5> QED BY <5>1 DEF Entry
      <4> HIDE DEF original
      <4>2. [ledger[f] EXCEPT !.hashed = TRUE, !.duplicate_of = original] \in Entry
        BY <4>1, <1>d, <2>1, Zenon
      <4>3. ledger' = [ledger EXCEPT
                         ![f] = [ledger[f] EXCEPT !.hashed = TRUE, !.duplicate_of = original]]
        BY <1>0, <2>0, <3>2 DEF LedgerOK
      <4> QED BY <1>0, <2>0, <4>2, <4>3 DEF LedgerOK
    <3> QED BY <1>7, <3>1, <3>2 DEF Hash
  <2>3. JobsOK'
    <3>1. CASE Goes(w, "evaluate")
      BY <1>0, <2>0, <3>1, <1>a, GoesOK
    <3>2. CASE job' = [job EXCEPT ![w].step = "inherit", ![w].verdict = Inherited(original)]
      <4> DEFINE q == [r EXCEPT !.step = "inherit", !.verdict = Inherited(original)]
      <4>1. Inherited(original) \in Verdicts \cup {"DUPLICATE_PENDING"}
        BY DEF Inherited, Verdicts
      <4>2. JobFits(q)
        BY <1>0, <1>a, <1>c, <2>0, <4>1, JobChange
      <4>3. job' = [job EXCEPT ![w] = q]
        BY <3>2
      <4> QED BY <1>0, <4>2, <4>3, JobUpdate
    <3> QED BY <1>7, <3>1, <3>2 DEF Hash
  <2> QED BY <1>0, <1>7, <2>2, <2>3, Untouched DEF Hash, TypeInv
<1>8. CASE Inherit(w)
  <2>1. LedgerOK'
    BY <1>0, <1>8, <1>b, <1>c, MarkType DEF Inherit, LedgerOK
  <2>2. JobsOK'
    BY <1>0, <1>8, <1>a, GoesOK DEF Inherit, At
  <2> QED BY <1>0, <1>8, <2>1, <2>2, Untouched DEF Inherit, TypeInv
<1>9. CASE Evaluate(w)
  <2>0. f \in File /\ ~At(w, "idle") /\ r.step # "idle"
    BY <1>0, <1>9 DEF Evaluate, At
  <2>1. ASSUME NEW v \in Verdicts, NEW p \in Paths, NEW s \in JobSteps \ {"idle"},
               job' = [job EXCEPT ![w].step = s, ![w].verdict = v, ![w].path = p]
        PROVE  JobsOK'
    <3> DEFINE q == [r EXCEPT !.step = s, !.verdict = v, !.path = p]
    <3>1. JobFits(q)
      BY <1>0, <1>c, <2>0, JobChange
    <3>2. job' = [job EXCEPT ![w] = q]
      BY <2>1
    <3> QED BY <1>0, <3>1, <3>2, JobUpdate
  <2>2. UNCHANGED <<sound, report, ledger, pool, late, call, run>>
    BY <1>9 DEF Evaluate
  <2>3. DiskOK' /\ JobsOK'
    <3>1. CASE /\ report[f] = r.path
               /\ job' = [job EXCEPT ![w].step = "confirm", ![w].verdict = r.path,
                                     ![w].path = r.path]
               /\ UNCHANGED copies
      <4>1. r.path \in Verdicts
        BY <1>0, <2>0, <3>1 DEF DiskOK
      <4>2. JobsOK'
        BY <1>a, <1>c, <2>1, <3>1, <4>1
      <4> QED BY <1>0, <2>2, <3>1, <4>2 DEF DiskOK
    <3>2. ASSUME NEW v \in Decided,
                 copies' = [copies EXCEPT ![f] = (@ \ {r.path}) \cup {v}],
                 job' = [job EXCEPT
                           ![w].step = IF r.path = v THEN "report" ELSE "relocate",
                           ![w].verdict = v, ![w].path = v]
          PROVE  DiskOK' /\ JobsOK'
      <4> DEFINE s == IF r.path = v THEN "report" ELSE "relocate"
      <4>1. s \in JobSteps \ {"idle"} /\ v \in Verdicts /\ v \in Paths /\ v \in Places
        BY <1>a, <1>b DEF Places
      <4>2. JobsOK'
        <5> HIDE DEF s
        <5> QED BY <2>1, <3>2, <4>1 DEF s
      <4>3. DiskOK'
        BY <1>0, <2>2, <3>2, <4>1 DEF DiskOK
      <4> QED BY <4>2, <4>3
    <3>3. CASE /\ job' = [job EXCEPT ![w].step = "report", ![w].verdict = "PENDING",
                                     ![w].path = r.path]
               /\ UNCHANGED copies
      <4>1. JobsOK'
        BY <1>a, <1>b, <1>c, <2>1, <3>3
      <4> QED BY <1>0, <2>2, <3>3, <4>1 DEF DiskOK
    <3>4. CASE Goes(w, "error") /\ UNCHANGED copies
      <4>1. JobsOK'
        BY <1>0, <2>0, <3>4, <1>a, GoesOK
      <4> QED BY <1>0, <2>2, <3>4, <4>1 DEF DiskOK
    <3> QED BY <1>9, <3>1, <3>2, <3>3, <3>4 DEF Evaluate
  <2> QED BY <1>0, <2>2, <2>3, Untouched DEF TypeInv
<1>10. CASE Relocate(w)
  <2>0. f \in File /\ ~At(w, "idle") /\ r.verdict \in Verdicts
    BY <1>0, <1>10 DEF Relocate, At, JobFits
  <2>1. Validation(f) \in Validations
    BY <1>0, <2>0 DEF Validation, LedgerOK, Entry, Validations
  <2>2. LedgerOK'
    BY <1>0, <1>10, <2>0, <2>1, <1>c, CertifyType DEF Relocate, LedgerOK
  <2>3. JobsOK'
    BY <1>0, <1>10, <2>0, <1>a, GoesOK DEF Relocate
  <2> QED BY <1>0, <1>10, <2>2, <2>3, Untouched DEF Relocate, TypeInv
<1>11. CASE Report(w)
  <2>0. f \in File /\ ~At(w, "idle") /\ r.verdict \in Verdicts
    BY <1>0, <1>11 DEF Report, At, JobFits
  <2>1. DiskOK'
    BY <1>0, <1>11, <2>0 DEF Report, DiskOK
  <2>2. JobsOK'
    BY <1>0, <1>11, <2>0, <1>a, GoesOK DEF Report
  <2> QED BY <1>0, <1>11, <2>1, <2>2, Untouched DEF Report, TypeInv
<1>12. CASE Verdict(w)
  <2>0. f \in File /\ ~At(w, "idle")
    BY <1>0, <1>12 DEF Verdict, At
  <2>1. LedgerOK'
    BY <1>0, <1>12, <2>0, <1>b, <1>c, CertifyType DEF Verdict, LedgerOK
  <2>2. JobsOK'
    BY <1>0, <1>12, <2>0, <1>a, GoesOK DEF Verdict
  <2> QED BY <1>0, <1>12, <2>1, <2>2, Untouched DEF Verdict, TypeInv
<1>13. CASE Confirm(w)
  <2>1. LedgerOK'
    <3>1. CASE Mark(f, r.verdict)
      BY <1>0, <3>1, <1>b, <1>c, MarkType DEF LedgerOK
    <3>2. CASE UNCHANGED ledger
      BY <1>0, <3>2, Untouched
    <3> QED BY <1>13, <3>1, <3>2 DEF Confirm
  <2>2. JobsOK'
    BY <1>0, <1>13, <1>a, GoesOK DEF Confirm, At
  <2> QED BY <1>0, <1>13, <2>1, <2>2, Untouched DEF Confirm, TypeInv
<1>14. CASE Propagate(w)
  <2> DEFINE listed == IF r.verdict \in Decided THEN Waiting(f) ELSE {}
             s == IF listed = {} THEN "leave" ELSE "copy"
             q == [r EXCEPT !.listed = listed, !.step = s]
  <2>1. listed \in SUBSET File /\ s \in JobSteps \ {"idle"} /\ s \notin {"relocate", "report"}
    BY <1>a DEF Waiting
  <2>2. job' = [job EXCEPT ![w] = q] /\ r.step # "idle"
    BY <1>14 DEF Propagate, At
  <2>3. JobFits(q)
    <3> HIDE DEF listed, s
    <3> QED BY <1>0, <1>c, <2>1, <2>2, JobChange
  <2>4. JobsOK'
    <3> HIDE DEF q
    <3> QED BY <1>0, <2>2, <2>3, JobUpdate
  <2> QED BY <1>0, <1>14, <2>4, Untouched DEF Propagate, TypeInv
<1>15. CASE Copy(w)
  <2> DEFINE g == First(r.listed)
             rest == r.listed \ {g}
             s == IF rest = {} THEN "leave" ELSE "copy"
             q == [r EXCEPT !.listed = rest, !.step = s]
  <2>1. rest \in SUBSET File /\ s \in JobSteps \ {"idle"} /\ s \notin {"relocate", "report"}
    BY <1>a, <1>c
  <2>2. job' = [job EXCEPT ![w] = q] /\ r.step # "idle"
    BY <1>15 DEF Copy, At
  <2>3. JobFits(q)
    <3> HIDE DEF rest, s
    <3> QED BY <1>0, <1>c, <2>1, <2>2, JobChange
  <2>4. JobsOK'
    <3> HIDE DEF q
    <3> QED BY <1>0, <2>2, <2>3, JobUpdate
  <2>5. LedgerOK'
    BY <1>0, <1>15, <1>b, <1>c, MarkType DEF Copy, LedgerOK
  <2> QED BY <1>0, <1>15, <2>4, <2>5, Untouched DEF Copy, TypeInv
<1>16. CASE Error(w)
  <2>1. LedgerOK'
    BY <1>0, <1>16, <1>b, MarkType DEF Error, LedgerOK
  <2>2. JobsOK'
    BY <1>0, <1>16, <1>a, GoesOK DEF Error, At
  <2> QED BY <1>0, <1>16, <2>1, <2>2, Untouched DEF Error, TypeInv
<1>17. CASE Leave(w)
  <2>1. JobsOK'
    BY <1>0, <1>17, NothingAtWork, JobUpdate DEF Leave
  <2>2. PoolOK'
    BY <1>0, <1>17 DEF Leave, PoolOK
  <2> QED BY <1>0, <1>17, <2>1, <2>2, Untouched DEF Leave, TypeInv
<1>18. CASE Expire(w)
  <2> DEFINE q == [r EXCEPT !.timer = FALSE]
  <2>1. JobFits(q) /\ f \in File
    <3>0. r.step # "idle"
      BY <1>0, <1>18 DEF Expire, JobFits
    <3>1. ASSUME NEW b \in BOOLEAN
          PROVE  JobFits([r EXCEPT !.timer = b])
      BY <1>0, <3>0 DEF JobFits, JobType
    <3>2. JobFits(q)
      BY <3>1, <1>d, Zenon
    <3> QED BY <1>0, <1>18, <3>2 DEF Expire, JobFits, At
  <2>2. job' = [job EXCEPT ![w] = q]
    BY <1>18 DEF Expire
  <2>3. JobsOK'
    <3> HIDE DEF q
    <3> QED BY <1>0, <2>1, <2>2, JobUpdate
  <2>4. (late \subseteq File)'
    BY <1>0, <1>18, <2>1 DEF Expire
  <2> QED BY <1>0, <1>18, <2>3, <2>4, Untouched DEF Expire, TypeInv
<1> QED
  BY <1>1, <1>2, <1>3, <1>4, <1>5, <1>6, <1>7, <1>8, <1>9, <1>10, <1>11, <1>12,
     <1>13, <1>14, <1>15, <1>16, <1>17, <1>18 DEF JobStep

\* A caller that turns to a file.
LEMMA NewCallOK ==
  ASSUME CallsOK, NEW c \in Caller, NEW f \in File, NEW s \in CallSteps \ {"idle"},
         call' = [call EXCEPT ![c] = [file |-> f, step |-> s]]
  PROVE  CallsOK'
<1>1. CallFits([file |-> f, step |-> s])
  BY DEF CallFits, CallType
<1> QED BY <1>1, CallUpdate

LEMMA EntryChanges ==
  ASSUME NEW e \in Entry
  PROVE  /\ [e EXCEPT !.full = FALSE] \in Entry
         /\ [e EXCEPT !.validation = "PENDING"] \in Entry
         /\ [e EXCEPT !.status = "WAITING"] \in Entry
         /\ [e EXCEPT !.status = "INTEGRITY_PENDING", !.integrity = "PENDING",
                      !.validation = "PENDING"] \in Entry
<1>1. ASSUME NEW b \in BOOLEAN
      PROVE  [e EXCEPT !.full = b] \in Entry
  BY DEF Entry
<1>2. FALSE \in BOOLEAN
  OBVIOUS
<1>3. [e EXCEPT !.full = FALSE] \in Entry
  BY <1>1, <1>2, Zenon
<1>4. [e EXCEPT !.validation = "PENDING"] \in Entry
  BY DEF Entry, Verdicts
<1>5. [e EXCEPT !.status = "WAITING"] \in Entry
  BY DEF Entry
<1>6. ASSUME NEW s \in {"INTEGRITY_PENDING"}, NEW i \in {"PENDING"}, NEW v \in Validations
      PROVE  [e EXCEPT !.status = s, !.integrity = i, !.validation = v] \in Entry
  BY DEF Entry, Validations
<1>7. "PENDING" \in Validations
  BY DEF Validations, Verdicts
<1>8. [e EXCEPT !.status = "INTEGRITY_PENDING", !.integrity = "PENDING",
                !.validation = "PENDING"] \in Entry
  BY <1>6, <1>7
<1> QED BY <1>3, <1>4, <1>5, <1>8

LEMMA ReadyType ==
  ASSUME LedgerOK, NEW f \in File
  PROVE  Recovered(f) \in Entry /\ Reconciled(f) \in Entry
<1>1. ledger[f] \in Entry
  BY DEF LedgerOK
<1>2. Recovered(f) \in Entry
  BY <1>1, EntryChanges DEF Recovered
<1>3. Reconciled(f) \in Entry
  <2>1. Unproven(ledger[f], "INTEGRITY_PENDING") \in Entry
    BY <1>1, UnprovenType
  <2> QED BY <1>1, <2>1, EntryChanges DEF Reconciled
<1> QED BY <1>2, <1>3

LEMMA NewRunType ==
  ASSUME TypeInv, NewRun, (late \subseteq File)'
  PROVE  TypeInv'
<1>1. DiskOK' /\ LedgerOK'
  BY Untouched, ReadyType DEF NewRun, TypeInv, LedgerOK
<1>2. JobsOK' /\ CallsOK'
  <2>1. job' \in [Worker -> JobType] /\ call' \in [Caller -> CallType]
    BY NothingAtWork DEF NewRun, JobFits, CallFits
  <2> QED BY <2>1, NothingAtWork DEF NewRun, JobsOK, CallsOK
<1>3. PoolOK'
  BY DEF NewRun, PoolOK
<1>4. admitted' \in BOOLEAN
  BY Zenon DEF NewRun
<1>5. RunOK'
  <2>1. runs' \in 1..MaxRuns
    BY DEF NewRun, TypeInv, RunOK
  <2>2. phase' \in Phases /\ todo' \subseteq File /\ fetch' \subseteq File
    BY DEF NewRun, Phases
  <2> QED BY <1>4, <2>1, <2>2 DEF RunOK
<1> QED BY <1>1, <1>2, <1>3, <1>5 DEF TypeInv

LEMMA RunStepType ==
  ASSUME TypeInv, RunStep \/ Interrupt \/ Abandon
  PROVE  TypeInv'
<1>0. /\ DiskOK /\ LedgerOK /\ PoolOK /\ JobsOK /\ CallsOK /\ RunOK /\ late \subseteq File
      /\ admitted \in BOOLEAN /\ FALSE \in BOOLEAN
  BY DEF TypeInv, RunOK
<1>1. CASE RestoreNext
  <2> DEFINE f == First(todo)
  <2>1. f \in File
    <3>1. todo \in SUBSET Nat /\ todo # {} /\ todo \subseteq File
      BY <1>0, <1>1 DEF RestoreNext, RunOK
    <3> QED BY <3>1, FirstIsLeast
  <2>2. CallsOK'
    <3> HIDE DEF f
    <3>1. Main \in Caller /\ "read" \in CallSteps \ {"idle"}
      BY DEF Caller, CallSteps
    <3>2. call' = [call EXCEPT ![Main] = [file |-> f, step |-> "read"]]
      BY <1>1 DEF RestoreNext, f
    <3> QED BY <1>0, <2>1, <3>1, <3>2, NewCallOK
  <2>3. RunOK'
    BY <1>0, <1>1 DEF RestoreNext, RunOK
  <2> QED BY <1>0, <1>1, <2>2, <2>3, Untouched DEF RestoreNext, TypeInv
<1>2. CASE Recover
  <2>1. LedgerOK'
    BY <1>0, <1>2, ReadyType DEF Recover, LedgerOK
  <2>2. RunOK'
    BY <1>0, <1>2 DEF Recover, RunOK, Phases, Unfinished
  <2> QED BY <1>0, <1>2, <2>1, <2>2, Untouched DEF Recover, TypeInv
<1>3. CASE EndSearch
  <2>1. RunOK'
    BY <1>0, <1>3 DEF EndSearch, RunOK, Phases
  <2> QED BY <1>0, <1>3, <2>1, Untouched DEF EndSearch, TypeInv
<1>4. CASE Stopped
  <2>1. admitted' \in BOOLEAN
    BY <1>4, Zenon DEF Stopped
  <2>2. RunOK'
    BY <1>0, <1>4, <2>1 DEF Stopped, RunOK, Phases
  <2> QED BY <1>0, <1>4, <2>2, Untouched DEF Stopped, TypeInv
<1>5. CASE Admitted
  <2>1. RunOK'
    BY <1>0, <1>5 DEF Admitted, RunOK, Phases
  <2> QED BY <1>0, <1>5, <2>1, Untouched DEF Admitted, TypeInv
<1>6. CASE Closed
  <2>1. RunOK'
    BY <1>0, <1>6 DEF Closed, RunOK, Phases
  <2> QED BY <1>0, <1>6, <2>1, Untouched DEF Closed, TypeInv
<1>7. CASE Interrupt
  <2>1. RunOK'
    BY <1>0, <1>7 DEF Interrupt, RunOK, Phases
  <2>2. PoolOK'
    <3>1. queue' = <<>> /\ known' \subseteq File
      BY <1>0, <1>7 DEF Interrupt, PoolOK
    <3>2. <<>> \in Seq(File) /\ Len(<<>>) = 0
      OBVIOUS
    <3> QED BY <3>1, <3>2 DEF PoolOK
  <2> QED BY <1>0, <1>7, <2>1, <2>2, Untouched DEF Interrupt, TypeInv
<1>8. CASE Abandon
  <2>1. RunOK'
    BY <1>0, <1>8 DEF Abandon, RunOK, Phases
  <2> QED BY <1>0, <1>8, <2>1, Untouched DEF Abandon, TypeInv
<1> QED BY <1>1, <1>2, <1>3, <1>4, <1>5, <1>6, <1>7, <1>8 DEF RunStep

LEMMA FetchType ==
  ASSUME TypeInv, NEW d \in Downloader, NEW f \in File, Fetch(d, f)
  PROVE  TypeInv'
<1>0. /\ DiskOK /\ LedgerOK /\ PoolOK /\ JobsOK /\ CallsOK /\ RunOK /\ late \subseteq File
      /\ d \in Caller /\ Main \in Caller
      /\ \A s \in {"land", "record"} : s \in CallSteps \ {"idle"}
  BY DEF TypeInv, Caller, CallSteps
<1>1. LedgerOK'
  <2>1. Unproven(ledger[f], "DOWNLOADING") \in Entry
    BY <1>0, UnprovenType DEF LedgerOK
  <2>2. [Unproven(ledger[f], "DOWNLOADING") EXCEPT !.full = FALSE] \in Entry
    BY <2>1, EntryChanges
  <2> QED BY <1>0, <2>2 DEF Fetch, LedgerOK
<1>2. CallsOK'
  <2>1. call' = [call EXCEPT ![d] = [file |-> f, step |-> "land"]]
    BY DEF Fetch
  <2> QED BY <1>0, <2>1, NewCallOK
<1>3. RunOK'
  BY <1>0 DEF Fetch, RunOK
<1> QED BY <1>0, <1>1, <1>2, <1>3, Untouched DEF Fetch, TypeInv

LEMMA LandType ==
  ASSUME TypeInv, NEW d \in Downloader, Land(d)
  PROVE  TypeInv'
<1>0. /\ DiskOK /\ LedgerOK /\ PoolOK /\ JobsOK /\ CallsOK /\ RunOK /\ late \subseteq File
      /\ d \in Caller /\ Main \in Caller
      /\ \A s \in {"land", "record"} : s \in CallSteps \ {"idle"}
  BY DEF TypeInv, Caller, CallSteps
<1>1. DiskOK'
  <2>1. copies' \in [File -> SUBSET Places]
    BY <1>0 DEF Land, DiskOK, Places
  <2>2. PICK good \in {TRUE, call[d].file \notin Damaged} :
          sound' = [sound EXCEPT ![call[d].file] = good]
    BY DEF Land
  <2>3. good \in BOOLEAN
    BY <2>2, Zenon
  <2>4. sound' \in [File -> BOOLEAN]
    BY <1>0, <2>2, <2>3 DEF DiskOK
  <2> QED BY <1>0, <2>1, <2>4 DEF Land, DiskOK
<1>2. CallsOK'
  BY <1>0, CallGoesOK DEF Land, InCall
<1> QED BY <1>0, <1>1, <1>2, Untouched DEF Land, TypeInv

LEMMA OtherStepType ==
  ASSUME TypeInv, NEW f \in File, LateWrite(f) \/ Rediscover(f)
  PROVE  TypeInv'
<1>0. /\ DiskOK /\ LedgerOK /\ PoolOK /\ JobsOK /\ CallsOK /\ RunOK /\ late \subseteq File
      /\ Main \in Caller
      /\ \A s \in {"land", "record"} : s \in CallSteps \ {"idle"}
  BY DEF TypeInv, Caller, CallSteps
<1>1. CASE Rediscover(f)
  <2>2. CallsOK'
    <3>1. call' = [call EXCEPT ![Main] = [file |-> f, step |-> "record"]]
      BY <1>1 DEF Rediscover
    <3> QED BY <1>0, <3>1, NewCallOK
  <2>3. RunOK'
    BY <1>0, <1>1 DEF Rediscover, RunOK
  <2> QED BY <1>0, <1>1, <2>2, <2>3, Untouched DEF Rediscover, TypeInv
<1>2. CASE LateWrite(f)
  <2>1. LedgerOK'
    <3>1. "PENDING" \in Validations
      BY DEF Validations, Verdicts
    <3> QED BY <1>0, <1>2, <3>1, MarkType DEF LateWrite, LedgerOK
  <2>2. (late \subseteq File)'
    BY <1>0, <1>2 DEF LateWrite
  <2> QED BY <1>0, <1>2, <2>1, <2>2, Untouched DEF LateWrite, TypeInv
<1> QED BY <1>1, <1>2

LEMMA TypeInvStutter == TypeInv /\ UNCHANGED vars => TypeInv'
BY Untouched DEF vars, TypeInv

LEMMA TypeInvStep == TypeInv /\ [Next]_vars => TypeInv'
<1> SUFFICES ASSUME TypeInv, [Next]_vars PROVE TypeInv'
  OBVIOUS
<1>1. CASE UNCHANGED vars
  BY <1>1, TypeInvStutter
<1>2. ASSUME NEW c \in Caller, CallStep(c)
      PROVE  TypeInv'
  BY <1>2, CallStepType
<1>3. ASSUME NEW w \in Worker, JobStep(w) \/ Expire(w)
      PROVE  TypeInv'
  BY <1>3, JobStepType
<1>4. ASSUME NEW d \in Downloader, Land(d) \/ \E f \in File : Fetch(d, f)
      PROVE  TypeInv'
  BY <1>4, LandType, FetchType
<1>5. ASSUME NEW f \in File, LateWrite(f) \/ Rediscover(f)
      PROVE  TypeInv'
  BY <1>5, OtherStepType
<1>6. CASE RunStep \/ Interrupt \/ Abandon
  BY <1>6, RunStepType
<1>7. CASE Rerun \/ Crash
  <2>1. NewRun /\ (late \subseteq File)'
    BY <1>7 DEF Rerun, Crash, TypeInv
  <2> QED BY <2>1, NewRunType
<1> QED BY <1>1, <1>2, <1>3, <1>4, <1>5, <1>6, <1>7 DEF Next

\* Every variable of the pipeline keeps its type in every run, and a step that
\* works on a file has one.
THEOREM TypeCorrect == Spec => []TypeOK
<1>1. Spec => []TypeInv
  BY TypeInvInit, TypeInvStep, PTL DEF Spec
<1> QED BY <1>1, TypeInvTypes, PTL

-----------------------------------------------------------------------------
\* One validator for a file.

\* OneValidator, with a busy worker told by its file.
Apart ==
  /\ \A v, w \in Worker : v # w /\ job[v].file # 0 => job[v].file # job[w].file
  /\ \A w \in Worker : job[w].file \notin Range(queue)
  /\ IsInjective(queue)
  /\ known = Range(queue) \cup {job[w].file : w \in {v \in Worker : job[v].file # 0}}

LEMMA ApartIsOneValidator == TypeInv => (Apart <=> OneValidator)
<1> SUFFICES ASSUME TypeInv PROVE Apart <=> OneValidator
  OBVIOUS
<1>1. \A w \in Worker : At(w, "idle") <=> job[w].file = 0
  BY DEF TypeInv, JobsOK, JobFits, At
<1>2. Range(queue) = ToSet(queue)
  BY DEF Range, ToSet
<1>3. {job[w].file : w \in {v \in Worker : job[v].file # 0}}
        = {job[w].file : w \in {v \in Worker : ~At(v, "idle")}}
  BY <1>1
<1> QED BY <1>1, <1>2, <1>3 DEF Apart, OneValidator

\* Most steps leave alone which files the pool holds.
LEMMA CalmStep ==
  ASSUME Apart, UNCHANGED pool, \A w \in Worker : job'[w].file = job[w].file
  PROVE  Apart'
BY DEF Apart, pool

LEMMA TakeApart ==
  ASSUME TypeInv, Apart, NEW w \in Worker, Take(w)
  PROVE  Apart'
<1> DEFINE f == Head(queue)
<1>1. /\ job \in [Worker -> JobType] /\ queue \in Seq(File) /\ queue # <<>>
      /\ job[w].file = 0 /\ NoJob \in JobType
  BY NothingAtWork DEF Take, TypeInv, JobsOK, PoolOK, JobFits, At
<1>2. /\ f \in File /\ f = queue[1] /\ 1 \in DOMAIN queue
      /\ Tail(queue) \in Seq(File) /\ Len(Tail(queue)) = Len(queue) - 1
      /\ \A i \in 1..Len(Tail(queue)) : Tail(queue)[i] = queue[i + 1]
      /\ Len(queue) \in Nat /\ DOMAIN queue = 1..Len(queue)
      /\ DOMAIN Tail(queue) = 1..Len(Tail(queue))
  BY <1>1, HeadTailProperties, EmptySeq, LenProperties
<1>3. \A i, j \in DOMAIN queue : queue[i] = queue[j] => i = j
  BY DEF Apart, IsInjective
<1>4. Range(queue) = Range(Tail(queue)) \cup {f} /\ f \notin Range(Tail(queue))
  <2> DEFINE t == Tail(queue)
  <2>1. DOMAIN t = 1..Len(queue) - 1 /\ \A i \in DOMAIN t : t[i] = queue[i + 1]
    BY <1>2
  <2>2. \A i \in DOMAIN t : i + 1 \in DOMAIN queue /\ i + 1 # 1
    BY <1>2, <2>1
  <2>3. f \notin Range(t) /\ Range(t) \subseteq Range(queue)
    BY <1>2, <1>3, <2>1, <2>2 DEF Range
  <2>4. ASSUME NEW i \in DOMAIN queue, i # 1
        PROVE  queue[i] \in Range(t)
    <3>1. i - 1 \in DOMAIN t /\ t[i - 1] = queue[i]
      BY <1>2, <2>1, <2>4
    <3> QED BY <3>1 DEF Range
  <2>5. Range(queue) \subseteq Range(t) \cup {f} /\ f \in Range(queue)
    BY <1>2, <2>4 DEF Range
  <2> QED BY <2>3, <2>5
<1>5. IsInjective(Tail(queue))
  BY <1>2, <1>3 DEF IsInjective
<1>6. \A v \in Worker : job'[v].file = IF v = w THEN f ELSE job[v].file
  BY <1>1 DEF Take, JobType
<1>7. queue' = Tail(queue) /\ known' = known /\ f # 0
  BY <1>2 DEF Take
<1>8. {job'[v].file : v \in {u \in Worker : job'[u].file # 0}}
        = {job[v].file : v \in {u \in Worker : job[u].file # 0}} \cup {f}
  BY <1>1, <1>6, <1>7
<1>9. \A v \in Worker : job[v].file # f
  BY <1>4 DEF Apart
<1> QED BY <1>1, <1>4, <1>5, <1>6, <1>7, <1>8, <1>9 DEF Apart

LEMMA LeaveApart ==
  ASSUME TypeInv, Apart, NEW w \in Worker, Leave(w)
  PROVE  Apart'
<1>1. job \in [Worker -> JobType] /\ queue \in Seq(File) /\ job[w].file # 0
  BY DEF Leave, TypeInv, JobsOK, PoolOK, JobFits, At
<1>2. \A v \in Worker : job'[v].file = IF v = w THEN 0 ELSE job[v].file
  BY <1>1 DEF Leave, NoJob
<1>3. queue' = queue /\ known' = known \ {job[w].file}
  BY DEF Leave
<1>4. 0 \notin Range(queue)
  <2>1. \A i \in DOMAIN queue : queue[i] \in File
    BY <1>1
  <2> QED BY <2>1 DEF Range
<1>5. {job'[v].file : v \in {u \in Worker : job'[u].file # 0}}
        = {job[v].file : v \in {u \in Worker : job[u].file # 0}} \ {job[w].file}
  BY <1>1, <1>2 DEF Apart
<1> QED BY <1>1, <1>2, <1>3, <1>4, <1>5 DEF Apart

LEMMA JobStepApart ==
  ASSUME TypeInv, Apart, NEW w \in Worker, JobStep(w) \/ Expire(w)
  PROVE  Apart'
<1>0. job \in [Worker -> JobType]
  BY DEF TypeInv, JobsOK
<1>1. CASE Take(w)
  BY <1>1, TakeApart
<1>2. CASE Leave(w)
  BY <1>2, LeaveApart
<1>3. CASE \E s \in JobSteps : Goes(w, s) /\ UNCHANGED pool
  BY <1>0, <1>3, CalmStep DEF Goes, JobType
<1>4. CASE Open(w)
  BY <1>0, <1>4, CalmStep DEF Open, JobType
<1>5. CASE Run(w)
  BY <1>0, <1>5, CalmStep DEF Run, JobType
<1>6. CASE Hash(w)
  BY <1>0, <1>6, CalmStep DEF Hash, Goes, JobType
<1>7. CASE Evaluate(w)
  <2>1. ASSUME NEW s, NEW v, NEW p,
               job' = [job EXCEPT ![w].step = s, ![w].verdict = v, ![w].path = p]
        PROVE  \A u \in Worker : job'[u].file = job[u].file
    BY <1>0, <2>1 DEF JobType
  <2>2. CASE Goes(w, "error")
    BY <1>0, <1>7, <2>2, CalmStep DEF Evaluate, Goes, JobType
  <2>3. UNCHANGED pool
    BY <1>7 DEF Evaluate
  <2>4. CASE \E s, v, p : job' = [job EXCEPT ![w].step = s, ![w].verdict = v, ![w].path = p]
    BY <2>1, <2>3, <2>4, CalmStep
  <2>5. ASSUME NEW v,
               job' = [job EXCEPT ![w].step = IF job[w].path = v THEN "report" ELSE "relocate",
                                  ![w].verdict = v, ![w].path = v]
        PROVE  Apart'
    BY <2>4, <2>5
  <2>6. ASSUME NEW s, NEW v,
               job' = [job EXCEPT ![w].step = s, ![w].verdict = v, ![w].path = job[w].path]
        PROVE  Apart'
    BY <2>4, <2>6
  <2> QED BY <1>7, <2>2, <2>5, <2>6 DEF Evaluate
<1>8. CASE Propagate(w)
  BY <1>0, <1>8, CalmStep DEF Propagate, JobType
<1>9. CASE Copy(w)
  BY <1>0, <1>9, CalmStep DEF Copy, JobType
<1>10. CASE Expire(w)
  BY <1>0, <1>10, CalmStep DEF Expire, JobType
<1>11. /\ \A s \in {"inspect", "discard", "run", "leave", "report", "verdict", "confirm",
                   "propagate", "error"} : s \in JobSteps
  BY DEF JobSteps
<1>12. CASE Gate(w) \/ Inspect(w) \/ Discard(w) \/ Inherit(w) \/ Relocate(w) \/ Report(w)
            \/ Verdict(w) \/ Confirm(w) \/ Error(w)
  BY <1>3, <1>11, <1>12
     DEF Gate, Inspect, Discard, Inherit, Relocate, Report, Verdict, Confirm, Error
<1> QED
  BY <1>1, <1>2, <1>4, <1>5, <1>6, <1>7, <1>8, <1>9, <1>10, <1>12 DEF JobStep

LEMMA CallStepApart ==
  ASSUME TypeInv, Apart, NEW c \in Caller, CallStep(c)
  PROVE  Apart'
<1> DEFINE f == call[c].file
<1>1. CASE UNCHANGED <<pool, job>>
  BY <1>1, CalmStep
<1>2. CASE /\ InCall(c, "put") /\ f \notin known
           /\ queue' = Append(queue, f) /\ known' = known \cup {f} /\ UNCHANGED job
  <2>1. f \in File /\ queue \in Seq(File)
    BY <1>2 DEF TypeInv, CallsOK, CallFits, CallType, InCall, PoolOK
  <2>2. f \notin Range(queue) /\ \A w \in Worker : job[w].file # f
    BY <1>2, <2>1 DEF Apart
  <2>3. Range(queue') = Range(queue) \cup {f} /\ IsInjective(queue')
    BY <1>2, <2>1, <2>2, AppendContents DEF Apart
  <2> QED BY <1>2, <2>2, <2>3 DEF Apart
<1> QED
  BY <1>1, <1>2 DEF CallStep, Record, Read, Check, Queue, Put, Refuse

LEMMA EmptyApart ==
  ASSUME queue' = <<>>,
         \A v, w \in Worker : v # w /\ job'[v].file # 0 => job'[v].file # job'[w].file,
         known' = {job'[w].file : w \in {v \in Worker : job'[v].file # 0}}
  PROVE  Apart'
<1>1. Range(queue') = {} /\ IsInjective(queue')
  BY DEF Range, IsInjective
<1> QED BY <1>1 DEF Apart

LEMMA OneValidatorStep == TypeInv /\ Apart /\ [Next]_vars => Apart'
<1> SUFFICES ASSUME TypeInv, Apart, [Next]_vars PROVE Apart'
  OBVIOUS
<1>1. CASE UNCHANGED <<pool, job>>
  BY <1>1, CalmStep
<1>2. ASSUME NEW c \in Caller, CallStep(c)
      PROVE  Apart'
  BY <1>2, CallStepApart
<1>3. ASSUME NEW w \in Worker, JobStep(w) \/ Expire(w)
      PROVE  Apart'
  BY <1>3, JobStepApart
<1>4. CASE Interrupt
  <2>1. Range(queue) = ToSet(queue)
    BY DEF Range, ToSet
  <2>2. queue' = <<>> /\ known' = known \ Range(queue) /\ job' = job
    BY <1>4, <2>1 DEF Interrupt
  <2>3. known' = {job'[w].file : w \in {v \in Worker : job'[v].file # 0}}
    BY <2>2 DEF Apart
  <2> QED BY <2>2, <2>3, EmptyApart DEF Apart
<1>5. CASE Rerun \/ Crash
  <2>1. queue' = <<>> /\ known' = {} /\ \A w \in Worker : job'[w].file = 0
    BY <1>5 DEF Rerun, Crash, NewRun, NoJob
  <2> QED BY <2>1, EmptyApart
<1>6. CASE \/ \E d \in Downloader : Land(d) \/ \E f \in File : Fetch(d, f)
           \/ \E f \in File : LateWrite(f) \/ Rediscover(f)
           \/ RunStep \/ Abandon \/ UNCHANGED vars
  <2>1. UNCHANGED <<pool, job>>
    BY <1>6 DEF Land, Fetch, LateWrite, Rediscover, RunStep, RestoreNext, Recover,
                EndSearch, Stopped, Admitted, Closed, Abandon, vars
  <2> QED BY <1>1, <2>1
<1> QED BY <1>2, <1>3, <1>4, <1>5, <1>6 DEF Next

\* No file is validated by two workers at once, nor by one while it waits for
\* another, whatever the callers read before they enqueue it; and the set that
\* contains() looks into is exactly what the pool holds.
THEOREM SingleValidator == Spec => []OneValidator
<1>1. Init => Apart
  <2> SUFFICES ASSUME Init PROVE Apart
    OBVIOUS
  <2>1. Range(queue) = {} /\ IsInjective(queue)
    BY DEF Init, Range, IsInjective
  <2> QED BY <2>1 DEF Init, Apart, NoJob
<1>2. Spec => [](TypeInv /\ Apart)
  BY <1>1, TypeInvInit, TypeInvStep, OneValidatorStep, PTL DEF Spec
<1>3. TypeInv /\ Apart => OneValidator
  BY ApartIsOneValidator
<1> QED BY <1>2, <1>3, PTL

-----------------------------------------------------------------------------
\* An integrity failure stands.

\* From the moment a job has found its file until the verdict is recorded, the
\* bytes are where the job believes them to be.
Holding == {"gate", "inspect", "run", "hash", "evaluate", "relocate", "report", "verdict"}
Holds == \A w \in Worker : job[w].step \in Holding => job[w].path \in copies[job[w].file]

\* A file that failed waits for another transfer.
Failed == \A f \in File : ledger[f].integrity = "INVALID" => Status(f) = "RETRY"

\* What may happen to the integrity of a file in one step.
Moves(f) ==
  \/ ledger'[f].integrity = ledger[f].integrity /\ ledger'[f].status = ledger[f].status
  \/ ledger[f].integrity # "INVALID" /\ ledger'[f].integrity # "INVALID"
  \/ ledger'[f].integrity = "VALID" /\ copies[f] # {}
  \/ ledger'[f].integrity = "PENDING" /\ ledger'[f].status = "DOWNLOADING"
  \/ ledger'[f].integrity = "PENDING" /\ copies[f] # {}
  \/ ledger'[f].integrity = "INVALID" /\ ledger'[f].status = "RETRY"

LEMMA HoldsStep == TypeInv /\ Apart /\ Holds /\ [Next]_vars => Holds'
<1> SUFFICES ASSUME TypeInv, Apart, Holds, [Next]_vars PROVE Holds'
  OBVIOUS
<1>0. /\ job \in [Worker -> JobType] /\ copies \in [File -> SUBSET Places]
      /\ \A w \in Worker : job[w].step # "idle" => job[w].file # 0 /\ job[w].file \in File
      /\ "idle" \notin Holding
  BY DEF TypeInv, JobsOK, JobFits, JobType, DiskOK, Holding
\* Nothing disappears, and the jobs do not change or enter the holding steps
\* only with the bytes found.
<1>1. ASSUME \A f \in File : copies[f] \subseteq copies'[f],
             \A w \in Worker : job'[w].step \in Holding =>
               \/ /\ job[w].step \in Holding
                  /\ job'[w].file = job[w].file /\ job'[w].path = job[w].path
               \/ job'[w].file \in File /\ job'[w].path \in copies[job'[w].file]
      PROVE  Holds'
  BY <1>0, <1>1 DEF Holds
<1>2. ASSUME NEW w \in Worker, JobStep(w) \/ Expire(w)
      PROVE  Holds'
  <2> DEFINE f == job[w].file
  <2>1. CASE Open(w)
    <3>1. f \in File /\ UNCHANGED copies
      BY <1>0, <2>1 DEF Open, At, disk
    <3>2. \A u \in Worker : u # w => job'[u] = job[u]
      BY <1>0, <2>1 DEF Open
    <3>3. job'[w].file = f /\ job'[w].path = Destination(f)
          /\ (job'[w].step \in Holding => Destination(f) \in copies[f])
      BY <1>0, <2>1 DEF Open, JobType, Located, Holding
    <3> QED BY <1>0, <1>1, <3>1, <3>2, <3>3
  <2>2. CASE Inspect(w)
    <3>1. \A u \in Worker : u # w => job'[u] = job[u]
      BY <1>0, <2>2 DEF Inspect, Goes
    <3>2. f \in File /\ job[w].step \in Holding /\ job'[w].path = job[w].path
          /\ job'[w].file = f /\ job'[w].step \in {"run", "discard", "leave"}
      BY <1>0, <2>2 DEF Inspect, Goes, At, JobType, Holding
    <3>3. \/ UNCHANGED copies
          \/ copies' = [copies EXCEPT ![f] = @ \ {"managed"}] /\ job'[w].step = "discard"
      BY <1>0, <2>2 DEF Inspect, Goes, At, JobType, disk
    <3>4. \A u \in Worker : u # w /\ job[u].step \in Holding => job[u].file # f
      BY <1>0, <3>2 DEF Apart
    <3>5. CASE UNCHANGED copies
      BY <1>0, <1>1, <3>1, <3>2, <3>5
    <3>6. CASE copies' = [copies EXCEPT ![f] = @ \ {"managed"}] /\ job'[w].step = "discard"
      <4>1. "discard" \notin Holding
        BY DEF Holding
      <4>2. \A g \in File : g # f => copies'[g] = copies[g]
        BY <1>0, <3>6
      <4> QED BY <1>0, <3>1, <3>2, <3>4, <3>6, <4>1, <4>2 DEF Holds
    <3> QED BY <3>3, <3>5, <3>6
  <2>3. CASE Evaluate(w)
    <3>1. \A u \in Worker : u # w => job'[u] = job[u]
      BY <1>0, <2>3 DEF Evaluate, Goes
    <3>2. f \in File /\ job[w].step \in Holding /\ job[w].path \in copies[f]
      BY <1>0, <2>3 DEF Evaluate, At, Holding, Holds
    <3>3. \A u \in Worker : u # w /\ job[u].step \in Holding => job[u].file # f
      BY <1>0, <3>2 DEF Apart
    <3>a. CASE UNCHANGED copies /\ Goes(w, "error")
      BY <1>0, <1>1, <3>1, <3>2, <3>a DEF Goes, JobType
    <3>b. ASSUME NEW s, NEW v, UNCHANGED copies,
                 job' = [job EXCEPT ![w].step = s, ![w].verdict = v, ![w].path = job[w].path]
          PROVE  Holds'
      <4>1. job'[w].file = f /\ job'[w].path = job[w].path
        BY <1>0, <3>b DEF JobType
      <4> QED BY <1>0, <1>1, <3>1, <3>2, <3>b, <4>1
    <3>c. ASSUME NEW s, NEW v \in Decided,
                 copies' = [copies EXCEPT ![f] = (@ \ {job[w].path}) \cup {v}],
                 job' = [job EXCEPT ![w].step = s, ![w].verdict = v, ![w].path = v]
          PROVE  Holds'
      <4>1. job'[w].file = f /\ job'[w].path = v
        BY <1>0, <3>c DEF JobType
      <4>2. v \in copies'[f] /\ \A g \in File : g # f => copies'[g] = copies[g]
        BY <1>0, <3>2, <3>c
      <4>3. \A u \in Worker : u # w /\ job'[u].step \in Holding => job'[u].path \in copies'[job'[u].file]
        BY <1>0, <3>1, <3>3, <4>2 DEF Holds
      <4> QED BY <3>2, <4>1, <4>2, <4>3 DEF Holds
    <3>d. ASSUME NEW v \in Decided,
                 copies' = [copies EXCEPT ![f] = (@ \ {job[w].path}) \cup {v}],
                 job' = [job EXCEPT ![w].step = IF job[w].path = v THEN "report" ELSE "relocate",
                                    ![w].verdict = v, ![w].path = v]
          PROVE  Holds'
      BY <3>c, <3>d
    <3> QED BY <2>3, <3>a, <3>b, <3>d DEF Evaluate
  <2>4. CASE Take(w) \/ Leave(w)
    <3>1. UNCHANGED copies /\ \A u \in Worker : u # w => job'[u] = job[u]
      BY <1>0, <2>4 DEF Take, Leave, disk
    <3>2. job'[w].step \notin Holding
      <4>1. NoJob \in JobType /\ NoJob.step = "idle"
        BY NothingAtWork DEF JobFits, NoJob
      <4>2. "open" \notin Holding
        BY DEF Holding
      <4> QED BY <1>0, <2>4, <4>1, <4>2 DEF Take, Leave, JobType
    <3> QED BY <1>0, <1>1, <3>1, <3>2
  <2>5. CASE Gate(w) \/ Discard(w) \/ Run(w) \/ Inherit(w) \/ Relocate(w) \/ Report(w)
             \/ Verdict(w) \/ Confirm(w) \/ Propagate(w) \/ Copy(w) \/ Error(w) \/ Hash(w)
             \/ Expire(w)
    <3>1. UNCHANGED copies
      BY <2>5 DEF Gate, Discard, Run, Inherit, Relocate, Report, Verdict, Confirm,
                  Propagate, Copy, Error, Hash, Expire, disk
    <3>2. \A u \in Worker : u # w => job'[u] = job[u]
      BY <1>0, <2>5 DEF Gate, Discard, Run, Inherit, Relocate, Report, Verdict, Confirm,
                  Propagate, Copy, Error, Hash, Expire, Goes
    <3>3. job'[w].file = f /\ job'[w].path = job[w].path
      BY <1>0, <2>5 DEF Gate, Discard, Run, Inherit, Relocate, Report, Verdict, Confirm,
                  Propagate, Copy, Error, Hash, Expire, Goes, JobType
    <3>4. job'[w].step \in Holding => job[w].step \in Holding
      BY <1>0, <2>5 DEF Gate, Discard, Run, Inherit, Relocate, Report, Verdict, Confirm,
                  Propagate, Copy, Error, Hash, Expire, Goes, JobType, At, Holding
    <3> QED BY <1>0, <1>1, <3>1, <3>2, <3>3, <3>4
  <2> QED BY <1>2, <2>1, <2>2, <2>3, <2>4, <2>5 DEF JobStep
<1>3. ASSUME NEW d \in Downloader, Land(d)
      PROVE  Holds'
  BY <1>0, <1>1, <1>3 DEF Land
<1>4. CASE Rerun \/ Crash
  <2>1. \A w \in Worker : job'[w].step = "idle"
    BY <1>4 DEF Rerun, Crash, NewRun, NoJob
  <2> QED BY <1>0, <2>1 DEF Holds
<1>5. CASE UNCHANGED <<disk, job>>
  BY <1>0, <1>1, <1>5 DEF disk
<1>6. CASE \/ \E d \in Downloader, f \in File : Fetch(d, f)
           \/ \E c \in Caller : CallStep(c)
           \/ \E f \in File : LateWrite(f) \/ Rediscover(f)
           \/ RunStep \/ Interrupt \/ Abandon \/ UNCHANGED vars
  <2>1. UNCHANGED <<disk, job>>
    BY <1>6 DEF Fetch, CallStep, Record, Read, Check, Queue, Put, Refuse, LateWrite,
                Rediscover, RunStep, RestoreNext, Recover, EndSearch, Stopped, Admitted,
                Closed, Interrupt, Abandon, vars
  <2> QED BY <1>5, <2>1
<1> QED BY <1>2, <1>3, <1>4, <1>6 DEF Next

\* The writes that do not vouch for bytes leave a failure as it is.
LEMMA MarkedMoves ==
  ASSUME LedgerOK, NEW f \in File, NEW v, NEW b, ledger'[f] = Marked(f, v, b)
  PROVE  Moves(f)
<1>1. ledger[f] \in Entry
  BY DEF LedgerOK
<1>2. /\ Resolved(f) \in Entry
      /\ \/ Resolved(f) = ledger[f]
         \/ /\ ledger[f].integrity # "INVALID"
            /\ Resolved(f).integrity = "PENDING"
  <2>1. CASE Verified(f) \/ ledger[f].integrity = "INVALID"
    BY <1>1, <2>1 DEF Resolved
  <2>2. CASE ~(Verified(f) \/ ledger[f].integrity = "INVALID")
    <3>1. Unproven(ledger[f], "INTEGRITY_PENDING") \in Entry
      BY <1>1, UnprovenType
    <3>2. Unproven(ledger[f], "INTEGRITY_PENDING").integrity = "PENDING"
      BY <1>1 DEF Unproven, Entry
    <3> QED BY <2>2, <3>1, <3>2 DEF Resolved
  <2> QED BY <2>1, <2>2
<1>3. /\ ledger'[f].integrity = Resolved(f).integrity
      /\ ledger'[f].status = Resolved(f).status
  BY <1>2 DEF Marked, Entry
<1> QED BY <1>2, <1>3 DEF Moves

LEMMA MarkMoves ==
  ASSUME LedgerOK, NEW g, NEW v, Mark(g, v), NEW f \in File
  PROVE  Moves(f)
<1>1. CASE f = g
  <2>1. ledger'[f] = Marked(f, v, FALSE)
    BY <1>1 DEF Mark, LedgerOK
  <2> QED BY <2>1, MarkedMoves
<1>2. CASE f # g
  BY <1>2 DEF Mark, LedgerOK, Moves
<1> QED BY <1>1, <1>2

LEMMA CertifyMoves ==
  ASSUME LedgerOK, NEW g \in File, NEW p, NEW v, Certify(g, p, v), p \in copies[g],
         NEW f \in File
  PROVE  Moves(f)
<1>1. ledger[g] \in Entry
  BY DEF LedgerOK
<1>2. CASE f = g
  <2>1. ledger'[f] = Certified(g, p, v)
    BY <1>2 DEF Certify, LedgerOK
  <2>2. Certified(g, p, v).integrity = "VALID"
    BY <1>1 DEF Certified, Entry
  <2> QED BY <1>2, <2>1, <2>2 DEF Moves
<1>3. CASE f # g
  BY <1>3 DEF Certify, LedgerOK, Moves
<1> QED BY <1>2, <1>3

LEMMA EveryMove ==
  ASSUME TypeInv, Holds, Failed, [Next]_vars, NEW f \in File
  PROVE  Moves(f)
<1>0. /\ LedgerOK /\ ledger \in [File -> Entry] /\ ledger[f] \in Entry
      /\ \A w \in Worker : ~At(w, "idle") => job[w].file \in File
  BY DEF TypeInv, LedgerOK, JobsOK, JobFits, JobType, At
<1>1. CASE UNCHANGED ledger
  BY <1>1 DEF Moves
<1>2. ASSUME NEW w \in Worker, JobStep(w)
      PROVE  Moves(f)
  <2>1. CASE \E g, v : Mark(g, v)
    BY <1>0, <2>1, MarkMoves
  <2>2. CASE \E p, v : Certify(job[w].file, p, v) /\ At(w, "idle") = FALSE
                       /\ p \in copies[job[w].file]
    BY <1>0, <2>2, CertifyMoves
  <2>3. CASE Gate(w) \/ Run(w) \/ Inherit(w) \/ Confirm(w) \/ Copy(w) \/ Error(w)
    BY <1>1, <2>1, <2>3 DEF Gate, Run, Inherit, Confirm, Copy, Error
  <2>4. CASE Inspect(w) \/ Relocate(w) \/ Verdict(w)
    <3>1. ~At(w, "idle") /\ job[w].path \in copies[job[w].file]
      BY <2>4 DEF Inspect, Relocate, Verdict, At, Holds, Holding
    <3>2. job[w].file \in File
      BY <1>0, <3>1
    <3>3. CASE \E v : Certify(job[w].file, job[w].path, v)
      BY <1>0, <3>1, <3>2, <3>3, CertifyMoves
    <3> QED BY <1>1, <2>4, <3>3 DEF Inspect, Relocate, Verdict
  <2>5. CASE Discard(w)
    <3> DEFINE g == job[w].file
    <3>1. g \in File /\ ledger[g] \in Entry
      BY <1>0, <2>5 DEF Discard, At
    <3>2. CASE f = g
      <4>1. ledger'[f].integrity = "INVALID" /\ ledger'[f].status = "RETRY"
        BY <1>0, <2>5, <3>1, <3>2 DEF Discard, Entry
      <4> QED BY <4>1 DEF Moves
    <3>3. CASE f # g
      BY <1>0, <2>5, <3>3 DEF Discard, Moves
    <3> QED BY <3>2, <3>3
  <2>6. CASE Hash(w)
    <3>1. CASE UNCHANGED ledger
      BY <1>1, <3>1
    <3>2. ASSUME NEW d,
                 ledger' = [ledger EXCEPT ![job[w].file].hashed = TRUE,
                                          ![job[w].file].duplicate_of = d]
          PROVE  Moves(f)
      <4>1. /\ ledger'[f].integrity = ledger[f].integrity
            /\ ledger'[f].status = ledger[f].status
        BY <1>0, <3>2 DEF Entry
      <4> QED BY <4>1 DEF Moves
    <3> QED BY <2>6, <3>1, <3>2 DEF Hash
  <2>7. CASE Take(w) \/ Open(w) \/ Evaluate(w) \/ Report(w) \/ Propagate(w) \/ Leave(w)
    BY <1>1, <2>7 DEF Take, Open, Evaluate, Report, Propagate, Leave
  <2> QED BY <1>2, <2>3, <2>4, <2>5, <2>6, <2>7 DEF JobStep
<1>3. ASSUME NEW c \in Caller, CallStep(c)
      PROVE  Moves(f)
  <2>1. CASE Record(c) \/ Queue(c)
    BY <1>0, <2>1, MarkMoves DEF Record, Queue
  <2>2. CASE Refuse(c)
    <3>1. CASE f = call[c].file
      <4>1. ledger'[f] = Marked(f, "PENDING", TRUE)
        BY <1>0, <2>2, <3>1 DEF Refuse
      <4> QED BY <1>0, <4>1, MarkedMoves
    <3>2. CASE f # call[c].file
      BY <1>0, <2>2, <3>2 DEF Refuse, Moves
    <3> QED BY <3>1, <3>2
  <2>3. CASE Read(c) \/ Check(c) \/ Put(c)
    BY <1>1, <2>3 DEF Read, Check, Put
  <2> QED BY <1>3, <2>1, <2>2, <2>3 DEF CallStep
<1>4. ASSUME NEW d \in Downloader, NEW g \in File, Fetch(d, g)
      PROVE  Moves(f)
  <2>1. CASE f = g
    <3> DEFINE u == Unproven(ledger[f], "DOWNLOADING")
    <3>1. u \in Entry /\ u.status = "DOWNLOADING" /\ u.integrity = "PENDING"
      <4>1. u \in Entry
        BY <1>0, UnprovenType
      <4> QED BY <1>0, <4>1 DEF Unproven, Entry
    <3>2. ledger'[f] = [u EXCEPT !.full = FALSE]
      BY <1>0, <1>4, <2>1 DEF Fetch
    <3>3. ledger'[f].status = "DOWNLOADING" /\ ledger'[f].integrity = "PENDING"
      <4> HIDE DEF u
      <4> QED BY <3>1, <3>2 DEF Entry
    <3> QED BY <3>3 DEF Moves
  <2>2. CASE f # g
    BY <1>0, <1>4, <2>2 DEF Fetch, Moves
  <2> QED BY <2>1, <2>2
<1>5. ASSUME NEW g \in File, LateWrite(g)
      PROVE  Moves(f)
  BY <1>0, <1>5, MarkMoves DEF LateWrite
<1>6. CASE Recover
  <2>1. CASE ledger'[f] = ledger[f]
    BY <2>1 DEF Moves
  <2>2. CASE f \in Unfinished /\ ledger'[f] = Recovered(f) /\ "managed" \in copies[f]
    <3>1. ledger'[f].integrity = "PENDING"
      BY <1>0, <2>2 DEF Recovered, Entry
    <3> QED BY <2>2, <3>1 DEF Moves
  <2>3. CASE f \in Unfinished /\ ledger'[f] = Recovered(f) /\ "managed" \notin copies[f]
    <3>1. ledger'[f].integrity = ledger[f].integrity
      BY <1>0, <2>3 DEF Recovered, Entry
    <3>2. ledger[f].integrity = "INVALID" => ledger'[f].status = ledger[f].status
      BY <1>0, <2>3 DEF Recovered, Failed
    <3> QED BY <3>1, <3>2 DEF Moves
  <2> QED BY <1>6, <2>1, <2>2, <2>3 DEF Recover
<1>7. CASE Rerun \/ Crash
  <2>1. ledger'[f] = Reconciled(f)
    BY <1>7 DEF Rerun, Crash, NewRun
  <2>2. CASE ledger'[f] = ledger[f]
    BY <2>2 DEF Moves
  <2>3. CASE ledger'[f] # ledger[f]
    <3> DEFINE u == Unproven(ledger[f], "INTEGRITY_PENDING")
    <3>1. u \in Entry /\ u.integrity = "PENDING"
      <4>1. u \in Entry
        BY <1>0, UnprovenType
      <4> QED BY <1>0, <4>1 DEF Unproven, Entry
    <3>2. "managed" \in copies[f] /\ ledger'[f] = [u EXCEPT !.validation = "PENDING"]
      BY <2>1, <2>3 DEF Reconciled
    <3>3. ledger'[f].integrity = "PENDING"
      <4> HIDE DEF u
      <4> QED BY <3>1, <3>2 DEF Entry
    <3> QED BY <3>2, <3>3 DEF Moves
  <2> QED BY <2>2, <2>3
<1>8. CASE \/ \E d \in Downloader : Land(d)
           \/ \E w \in Worker : Expire(w)
           \/ \E g \in File : Rediscover(g)
           \/ RestoreNext \/ EndSearch \/ Stopped \/ Admitted \/ Closed
           \/ Interrupt \/ Abandon \/ UNCHANGED vars
  BY <1>1, <1>8 DEF Land, Expire, Rediscover, RestoreNext, EndSearch, Stopped, Admitted,
                    Closed, Interrupt, Abandon, vars
<1> QED
  BY <1>2, <1>3, <1>4, <1>5, <1>6, <1>7, <1>8 DEF Next, RunStep

LEMMA FailedStep == TypeInv /\ TypeInv' /\ Holds /\ Failed /\ [Next]_vars => Failed'
<1> SUFFICES ASSUME TypeInv, TypeInv', Holds, Failed, [Next]_vars, NEW f \in File,
                    ledger'[f].integrity = "INVALID"
             PROVE  ledger'[f].status = "RETRY"
  BY DEF Failed, Status
<1>1. Moves(f)
  BY EveryMove
<1> QED BY <1>1 DEF Moves, Failed, Status

\* An integrity failure is not overwritten by the late writes of callers, timers
\* and duplicates, nor by a restart: only a new transfer replaces it.
THEOREM FailuresStand == Spec => FailureStands
<1> DEFINE Inv == TypeInv /\ Apart /\ Holds /\ Failed
<1>1. Init => Inv
  <2> SUFFICES ASSUME Init PROVE Inv
    OBVIOUS
  <2>1. Apart
    <3>1. Range(queue) = {} /\ IsInjective(queue)
      BY DEF Init, Range, IsInjective
    <3> QED BY <3>1 DEF Init, Apart, NoJob
  <2>2. Holds /\ Failed
    BY DEF Init, Holds, Holding, Failed, NoJob
  <2> QED BY <2>1, <2>2, TypeInvInit
<1>2. Inv /\ [Next]_vars => Inv'
  BY TypeInvStep, OneValidatorStep, HoldsStep, FailedStep
<1>3. Inv /\ [Next]_vars
      => [\A f \in File : ledger[f].integrity = "INVALID" /\ copies[f] = {} =>
            \/ ledger'[f].integrity = "INVALID" /\ ledger'[f].status = "RETRY"
            \/ ledger'[f].status = "DOWNLOADING"]_vars
  <2> SUFFICES ASSUME Inv, [Next]_vars, NEW f \in File,
                      ledger[f].integrity = "INVALID", copies[f] = {}
               PROVE  \/ ledger'[f].integrity = "INVALID" /\ ledger'[f].status = "RETRY"
                      \/ ledger'[f].status = "DOWNLOADING"
    OBVIOUS
  <2>1. Moves(f)
    BY EveryMove
  <2> QED BY <2>1 DEF Moves, Failed, Status
<1> QED BY <1>1, <1>2, <1>3, PTL DEF Spec, FailureStands

-----------------------------------------------------------------------------
\* What one step may do to the entry of a file, field by field.

\* A job that copies its verdict has entries left to copy it to.
Lists == \A w \in Worker : job[w].step = "copy" => job[w].listed # {}

SameProof(f) ==
  /\ ledger'[f].status = ledger[f].status /\ ledger'[f].integrity = ledger[f].integrity
  /\ ledger'[f].path = ledger[f].path /\ ledger'[f].hashed = ledger[f].hashed
  /\ ledger'[f].duplicate_of = ledger[f].duplicate_of
LostProof(f) ==
  /\ ledger'[f].integrity = "PENDING" /\ ledger'[f].path = ledger[f].path
  /\ ~ledger'[f].hashed /\ ledger'[f].duplicate_of = 0

\* The validation that a step without an integrity result writes.
Says(f, v) ==
  \/ v \in {"QUEUED", "PENDING", "RUNNING"}
  \/ v = Validation(f)
  \/ \E w \in Worker :
       /\ job[w].verdict = v
       /\ \/ job[w].step \in {"inherit", "confirm"} /\ job[w].file = f
          \/ job[w].step = "copy" /\ f \in job[w].listed

Written(f) ==
  /\ \/ (Verified(f) \/ ledger[f].integrity = "INVALID") /\ SameProof(f)
     \/ /\ ~Verified(f) /\ ledger[f].integrity # "INVALID"
        /\ LostProof(f) /\ ledger'[f].status = "INTEGRITY_PENDING"
  /\ Says(f, ledger'[f].validation)
  /\ ledger'[f].full => ledger'[f].validation = "PENDING"
  /\ ledger'[f].full => \E c \in Caller : call[c].step = "refuse"
  /\ UNCHANGED disk

Vouched(f, w) ==
  /\ job[w].file = f /\ job[w].step \in {"inspect", "relocate", "verdict"}
  /\ ledger'[f].status = "COMPLETED" /\ ledger'[f].integrity = "VALID"
  /\ ledger'[f].path = job[w].path /\ ledger'[f].hashed = ledger[f].hashed
  /\ ledger'[f].duplicate_of = ledger[f].duplicate_of /\ ~ledger'[f].full
  /\ \/ job[w].step = "inspect" /\ ledger'[f].validation = "PENDING"
     \/ job[w].step = "relocate" /\ ledger'[f].validation = Validation(f)
     \/ job[w].step = "verdict" /\ ledger'[f].validation = job[w].verdict
  /\ job[w].step = "inspect" /\ job[w].path = "managed" => sound[f]
  /\ UNCHANGED disk

Condemned(f, w) ==
  /\ job[w].file = f /\ job[w].step = "discard"
  /\ ledger'[f].status = "RETRY" /\ ledger'[f].integrity = "INVALID"
  /\ ledger'[f].hashed = ledger[f].hashed /\ ledger'[f].duplicate_of = ledger[f].duplicate_of
  /\ ledger'[f].validation = "PENDING" /\ ~ledger'[f].full
  /\ UNCHANGED disk

Hashed(f, w) ==
  /\ job[w].file = f /\ job[w].step = "hash" /\ VerifiedAt(f, "managed")
  /\ ledger'[f].status = ledger[f].status /\ ledger'[f].integrity = ledger[f].integrity
  /\ ledger'[f].path = ledger[f].path /\ ledger'[f].validation = ledger[f].validation
  /\ ledger'[f].full = ledger[f].full
  /\ ledger'[f].duplicate_of \in Matches(f) \cup {0}
  /\ UNCHANGED disk

Refetched(f) ==
  /\ \E d \in Downloader : Fetch(d, f)
  /\ LostProof(f) /\ ledger'[f].status = "DOWNLOADING"
  /\ ledger'[f].validation = ledger[f].validation /\ ~ledger'[f].full

Renewed(f) ==
  /\ Recover /\ ledger[f].status # "COMPLETED" /\ ledger'[f].status # "COMPLETED"
  /\ ledger'[f].path = ledger[f].path /\ ledger'[f].hashed = ledger[f].hashed
  /\ ledger'[f].duplicate_of = ledger[f].duplicate_of /\ ledger'[f].full = ledger[f].full
  /\ ledger'[f].validation \in {"PENDING", Validation(f)}

Reviewed(f) ==
  /\ Rerun \/ Crash
  /\ "managed" \in copies[f] /\ ~VerifiedAt(f, "managed")
  /\ LostProof(f) /\ ledger'[f].status = "INTEGRITY_PENDING"
  /\ ledger'[f].validation = "PENDING" /\ ledger'[f].full = ledger[f].full

EntryMoves(f) ==
  \/ ledger'[f] = ledger[f]
  \/ Written(f)
  \/ \E w \in Worker : Vouched(f, w) \/ Condemned(f, w) \/ Hashed(f, w)
  \/ Refetched(f) \/ Renewed(f) \/ Reviewed(f)

LEMMA UnprovenFields ==
  ASSUME NEW e \in Entry, NEW s
  PROVE  /\ Unproven(e, s).status = s /\ Unproven(e, s).integrity = "PENDING"
         /\ Unproven(e, s).path = e.path /\ ~Unproven(e, s).hashed
         /\ Unproven(e, s).duplicate_of = 0
         /\ Unproven(e, s).validation = e.validation /\ Unproven(e, s).full = e.full
<1> DEFINE U(b, d) == [e EXCEPT !.status = s, !.integrity = "PENDING",
                                !.hashed = b, !.duplicate_of = d]
<1>1. ASSUME NEW b, NEW d
      PROVE  /\ U(b, d).status = s /\ U(b, d).integrity = "PENDING" /\ U(b, d).path = e.path
             /\ U(b, d).hashed = b /\ U(b, d).duplicate_of = d
             /\ U(b, d).validation = e.validation /\ U(b, d).full = e.full
  BY DEF Entry
<1>2. PICK b : b = FALSE
  OBVIOUS
<1>3. Unproven(e, s) = U(b, 0)
  BY <1>2, Zenon DEF Unproven
<1>4. ~b
  BY <1>2, Zenon
<1> HIDE DEF U
<1> QED BY <1>1, <1>3, <1>4

LEMMA MarkedWrites ==
  ASSUME LedgerOK, NEW f \in File, NEW v, NEW b, ledger'[f] = Marked(f, v, b)
  PROVE  /\ \/ (Verified(f) \/ ledger[f].integrity = "INVALID") /\ SameProof(f)
            \/ /\ ~Verified(f) /\ ledger[f].integrity # "INVALID"
               /\ LostProof(f) /\ ledger'[f].status = "INTEGRITY_PENDING"
         /\ ledger'[f].validation = v /\ ledger'[f].full = b
<1> DEFINE u == Unproven(ledger[f], "INTEGRITY_PENDING")
<1>1. ledger[f] \in Entry /\ u \in Entry
  BY UnprovenType DEF LedgerOK
<1>2. /\ u.status = "INTEGRITY_PENDING" /\ u.integrity = "PENDING"
      /\ u.path = ledger[f].path /\ ~u.hashed /\ u.duplicate_of = 0
  <2> HIDE DEF u
  <2> QED BY <1>1, UnprovenFields DEF u
<1>3. Resolved(f) \in Entry
  BY <1>1 DEF Resolved
<1>4. /\ ledger'[f].status = Resolved(f).status /\ ledger'[f].integrity = Resolved(f).integrity
      /\ ledger'[f].path = Resolved(f).path /\ ledger'[f].hashed = Resolved(f).hashed
      /\ ledger'[f].duplicate_of = Resolved(f).duplicate_of
      /\ ledger'[f].validation = v /\ ledger'[f].full = b
  BY <1>3 DEF Marked, Entry
<1> HIDE DEF u
<1>5. CASE Verified(f) \/ ledger[f].integrity = "INVALID"
  BY <1>4, <1>5 DEF Resolved, SameProof
<1>6. CASE ~(Verified(f) \/ ledger[f].integrity = "INVALID")
  <2>1. Resolved(f) = u
    BY <1>6 DEF Resolved, u
  <2> QED BY <1>2, <1>4, <1>6, <2>1 DEF LostProof
<1> QED BY <1>4, <1>5, <1>6

LEMMA MarkWrites ==
  ASSUME LedgerOK, NEW g, NEW v, Mark(g, v), NEW f \in File, f = g => Says(f, v), UNCHANGED disk
  PROVE  ledger'[f] = ledger[f] \/ Written(f)
<1>1. CASE f = g
  <2>1. PICK b : b = FALSE
    OBVIOUS
  <2>2. ledger'[f] = Marked(f, v, b)
    BY <1>1, <2>1 DEF Mark, LedgerOK
  <2>3. ~b
    BY <2>1, Zenon
  <2> QED BY <1>1, <2>2, <2>3, MarkedWrites DEF Written
<1>2. CASE f # g
  BY <1>2 DEF Mark, LedgerOK
<1> QED BY <1>1, <1>2

LEMMA CertifyWrites ==
  ASSUME LedgerOK, NEW g \in File, NEW p, NEW v, Certify(g, p, v), NEW f \in File
  PROVE  \/ ledger'[f] = ledger[f]
         \/ /\ f = g
            /\ ledger'[f].status = "COMPLETED" /\ ledger'[f].integrity = "VALID"
            /\ ledger'[f].path = p /\ ledger'[f].hashed = ledger[f].hashed
            /\ ledger'[f].duplicate_of = ledger[f].duplicate_of
            /\ ~ledger'[f].full /\ ledger'[f].validation = v
<1>1. ledger[g] \in Entry
  BY DEF LedgerOK
<1>2. CASE f = g
  <2> DEFINE C(b) == [ledger[f] EXCEPT !.status = "COMPLETED", !.integrity = "VALID",
                                       !.path = p, !.validation = v, !.full = b]
  <2>1. ASSUME NEW b
        PROVE  /\ C(b).status = "COMPLETED" /\ C(b).integrity = "VALID"
               /\ C(b).path = p /\ C(b).hashed = ledger[f].hashed
               /\ C(b).duplicate_of = ledger[f].duplicate_of
               /\ C(b).full = b /\ C(b).validation = v
    BY <1>1, <1>2 DEF Entry
  <2>2. PICK b : b = FALSE
    OBVIOUS
  <2>3. Certified(f, p, v) = C(b) /\ ~b
    BY <2>2, Zenon DEF Certified
  <2>4. ledger'[f] = C(b)
    BY <1>2, <2>3 DEF Certify, LedgerOK
  <2> HIDE DEF C
  <2> QED BY <1>2, <2>1, <2>3, <2>4
<1>3. CASE f # g
  BY <1>3 DEF Certify, LedgerOK
<1> QED BY <1>2, <1>3

LEMMA EntryOfCaller ==
  ASSUME TypeInv, NEW c \in Caller, CallStep(c), NEW f \in File
  PROVE  ledger'[f] = ledger[f] \/ Written(f)
<1>0. LedgerOK
  BY DEF TypeInv
<1>1. CASE Record(c) \/ Queue(c)
  BY <1>0, <1>1, MarkWrites DEF Record, Queue, Says
<1>2. CASE Refuse(c)
  <2>1. CASE f = call[c].file
    <3>1. ledger'[f] = Marked(f, "PENDING", TRUE)
      BY <1>0, <1>2, <2>1 DEF Refuse, LedgerOK
    <3>2. call[c].step = "refuse" /\ UNCHANGED disk
      BY <1>2 DEF Refuse, InCall
    <3>3. "PENDING" \in {"QUEUED", "PENDING", "RUNNING"}
      OBVIOUS
    <3>4. ledger'[f].validation = "PENDING"
      BY <1>0, <3>1, MarkedWrites, Zenon
    <3>5. /\ \/ (Verified(f) \/ ledger[f].integrity = "INVALID") /\ SameProof(f)
             \/ /\ ~Verified(f) /\ ledger[f].integrity # "INVALID"
                /\ LostProof(f) /\ ledger'[f].status = "INTEGRITY_PENDING"
      BY <1>0, <3>1, MarkedWrites, Zenon
    <3> QED BY <3>2, <3>3, <3>4, <3>5 DEF Written, Says
  <2>2. CASE f # call[c].file
    BY <1>0, <1>2, <2>2 DEF Refuse, LedgerOK
  <2> QED BY <2>1, <2>2
<1>3. CASE Read(c) \/ Check(c) \/ Put(c)
  BY <1>3 DEF Read, Check, Put
<1> QED BY <1>1, <1>2, <1>3 DEF CallStep

LEMMA EntryOfJob ==
  ASSUME TypeInv, Lists, NEW w \in Worker, JobStep(w), NEW f \in File
  PROVE  \/ ledger'[f] = ledger[f] \/ Written(f)
         \/ Vouched(f, w) \/ Condemned(f, w) \/ Hashed(f, w)
<1> DEFINE g == job[w].file
<1>0. /\ LedgerOK /\ ledger \in [File -> Entry]
      /\ ~At(w, "idle") => g \in File
      /\ job[w].listed \in SUBSET Nat
  BY DEF TypeInv, LedgerOK, JobsOK, JobFits, JobType, At
<1>1. CASE Gate(w) \/ Run(w) \/ Error(w)
  BY <1>0, <1>1, MarkWrites DEF Gate, Run, Error, Says
<1>2. CASE Inherit(w) \/ Confirm(w)
  <2>1. Says(g, job[w].verdict)
    BY <1>2 DEF Inherit, Confirm, At, Says
  <2> QED BY <1>0, <1>2, <2>1, MarkWrites DEF Inherit, Confirm
<1>3. CASE Copy(w)
  <2> DEFINE h == First(job[w].listed)
  <2>1. h \in job[w].listed
    BY <1>0, <1>3, FirstIsLeast DEF Copy, At, Lists
  <2>2. Mark(h, job[w].verdict) /\ UNCHANGED disk
    BY <1>3 DEF Copy
  <2>3. Says(h, job[w].verdict)
    BY <1>3, <2>1 DEF Copy, At, Says
  <2> HIDE DEF h
  <2> QED BY <1>0, <2>2, <2>3, MarkWrites
<1>4. CASE Inspect(w) \/ Relocate(w) \/ Verdict(w)
  <2>0. g \in File
    BY <1>0, <1>4 DEF Inspect, Relocate, Verdict, At
  <2>1. CASE UNCHANGED ledger
    BY <2>1
  <2>2. CASE Inspect(w) /\ Certify(g, job[w].path, "PENDING") /\ UNCHANGED disk
             /\ (job[w].path = "managed" => sound[g])
    <3>1. job[w].step = "inspect"
      BY <2>2 DEF Inspect, At
    <3> QED BY <1>0, <2>0, <2>2, <3>1, CertifyWrites DEF Vouched
  <2>3. CASE Relocate(w)
    <3>1. Certify(g, job[w].path, Validation(g)) /\ UNCHANGED disk /\ job[w].step = "relocate"
      BY <2>3 DEF Relocate, At
    <3> QED BY <1>0, <2>0, <3>1, CertifyWrites DEF Vouched
  <2>4. CASE Verdict(w)
    <3>1. Certify(g, job[w].path, job[w].verdict) /\ UNCHANGED disk /\ job[w].step = "verdict"
      BY <2>4 DEF Verdict, At
    <3> QED BY <1>0, <2>0, <3>1, CertifyWrites DEF Vouched
  <2> QED BY <1>4, <2>1, <2>2, <2>3, <2>4 DEF Inspect
<1>5. CASE Discard(w)
  <2>0. g \in File /\ job[w].step = "discard" /\ UNCHANGED disk
    BY <1>0, <1>5 DEF Discard, At
  <2>1. CASE f # g
    BY <1>0, <1>5, <2>0, <2>1 DEF Discard
  <2>2. CASE f = g
    <3> DEFINE C(b) == [ledger[f] EXCEPT !.status = "RETRY", !.integrity = "INVALID",
                                         !.validation = "PENDING", !.full = b]
    <3>1. ASSUME NEW b
          PROVE  /\ C(b).status = "RETRY" /\ C(b).integrity = "INVALID"
                 /\ C(b).hashed = ledger[f].hashed
                 /\ C(b).duplicate_of = ledger[f].duplicate_of
                 /\ C(b).full = b /\ C(b).validation = "PENDING"
      BY <1>0 DEF Entry
    <3>2. PICK b : b = FALSE
      OBVIOUS
    <3>a. ~b
      BY <3>2, Zenon
    <3>3. ledger'[f] = C(b)
      <4>1. ledger' = [ledger EXCEPT ![g] = [@ EXCEPT !.status = "RETRY", !.integrity = "INVALID",
                            !.validation = "PENDING", !.full = FALSE]]
        BY <1>5 DEF Discard
      <4>2. ledger' = [ledger EXCEPT ![f] = C(b)]
        BY <2>2, <3>2, <4>1, Zenon
      <4> HIDE DEF C
      <4> QED BY <1>0, <4>2
    <3> HIDE DEF C
    <3>4. /\ ledger'[f].status = "RETRY" /\ ledger'[f].integrity = "INVALID"
          /\ ledger'[f].hashed = ledger[f].hashed
          /\ ledger'[f].duplicate_of = ledger[f].duplicate_of
          /\ ~ledger'[f].full /\ ledger'[f].validation = "PENDING"
      BY <3>1, <3>a, <3>3
    <3> QED BY <2>0, <2>2, <3>4 DEF Condemned
  <2> QED BY <2>1, <2>2
<1>6. CASE Hash(w)
  <2> DEFINE original == IF Matches(g) = {} THEN 0 ELSE First(Matches(g))
  <2>0. g \in File /\ job[w].step = "hash" /\ UNCHANGED disk
    BY <1>0, <1>6 DEF Hash, At
  <2>1. original \in Matches(g) \cup {0}
    <3>1. Matches(g) \in SUBSET Nat
      BY DEF Matches
    <3> QED BY <3>1, FirstIsLeast
  <2> HIDE DEF original
  <2>2. CASE UNCHANGED ledger
    BY <2>2
  <2>3. CASE /\ VerifiedAt(g, "managed")
             /\ ledger' = [ledger EXCEPT ![g].hashed = TRUE, ![g].duplicate_of = original]
    <3>1. CASE f # g
      BY <1>0, <2>3, <3>1
    <3>2. CASE f = g
      <4>1. /\ ledger'[f].status = ledger[f].status
            /\ ledger'[f].integrity = ledger[f].integrity
            /\ ledger'[f].path = ledger[f].path
            /\ ledger'[f].validation = ledger[f].validation
            /\ ledger'[f].full = ledger[f].full
            /\ ledger'[f].duplicate_of = original
        BY <1>0, <2>0, <2>3, <3>2 DEF Entry
      <4> QED BY <2>0, <2>1, <2>3, <3>2, <4>1 DEF Hashed
    <3> QED BY <3>1, <3>2
  <2> QED BY <1>6, <2>2, <2>3 DEF Hash, original
<1>7. CASE Take(w) \/ Open(w) \/ Evaluate(w) \/ Report(w) \/ Propagate(w) \/ Leave(w)
  BY <1>7 DEF Take, Open, Evaluate, Report, Propagate, Leave
<1> QED BY <1>1, <1>2, <1>3, <1>4, <1>5, <1>6, <1>7 DEF JobStep

LEMMA EntryStep ==
  ASSUME TypeInv, Lists, [Next]_vars, NEW f \in File
  PROVE  EntryMoves(f)
<1> USE DEF EntryMoves
<1>0. LedgerOK /\ ledger \in [File -> Entry] /\ ledger[f] \in Entry
  BY DEF TypeInv, LedgerOK
<1>1. CASE UNCHANGED ledger
  BY <1>1
<1>2. ASSUME NEW c \in Caller, CallStep(c)
      PROVE  EntryMoves(f)
  BY <1>2, EntryOfCaller
<1>3. ASSUME NEW w \in Worker, JobStep(w)
      PROVE  EntryMoves(f)
  BY <1>3, EntryOfJob
<1>4. ASSUME NEW d \in Downloader, NEW g \in File, Fetch(d, g)
      PROVE  EntryMoves(f)
  <2>1. CASE f # g
    BY <1>0, <1>4, <2>1 DEF Fetch
  <2>2. CASE f = g
    <3> DEFINE u == Unproven(ledger[f], "DOWNLOADING")
    <3>1. ledger' = [ledger EXCEPT ![f] = [u EXCEPT !.full = FALSE]]
      BY <1>4, <2>2 DEF Fetch
    <3>2. /\ u.status = "DOWNLOADING" /\ u.integrity = "PENDING"
          /\ u.path = ledger[f].path /\ ~u.hashed /\ u.duplicate_of = 0
          /\ u.validation = ledger[f].validation
      BY <1>0, UnprovenFields
    <3>3. u \in Entry
      BY <1>0, UnprovenType
    <3> HIDE DEF u
    <3>4. PICK b : b = FALSE
      OBVIOUS
    <3>5. ledger'[f] = [u EXCEPT !.full = b]
      BY <1>0, <3>1, <3>4
    <3>6. /\ ledger'[f].status = "DOWNLOADING" /\ ledger'[f].integrity = "PENDING"
          /\ ledger'[f].path = ledger[f].path /\ ~ledger'[f].hashed
          /\ ledger'[f].duplicate_of = 0
          /\ ledger'[f].validation = ledger[f].validation /\ ledger'[f].full = b
      BY <3>2, <3>3, <3>5 DEF Entry
    <3> QED BY <1>4, <2>2, <3>4, <3>6 DEF Refetched, LostProof
  <2> QED BY <2>1, <2>2
<1>5. ASSUME NEW g \in File, LateWrite(g)
      PROVE  EntryMoves(f)
  BY <1>0, <1>5, MarkWrites DEF LateWrite, Says
<1>6. CASE Recover
  <2>1. CASE ledger'[f] = ledger[f]
    BY <2>1
  <2>2. CASE f \in Unfinished /\ ledger'[f] = Recovered(f) /\ ledger'[f] # ledger[f]
    <3>1. CASE "managed" \in copies[f]
      BY <1>0, <1>6, <2>2, <3>1 DEF Recovered, Entry, Renewed, Unfinished, Status
    <3>2. CASE "managed" \notin copies[f]
      BY <1>0, <1>6, <2>2, <3>2 DEF Recovered, Entry, Renewed, Unfinished, Status, Validation
    <3> QED BY <3>1, <3>2
  <2> QED BY <1>6, <2>1, <2>2 DEF Recover
<1>7. CASE Rerun \/ Crash
  <2>1. ledger'[f] = Reconciled(f)
    BY <1>7 DEF Rerun, Crash, NewRun
  <2>2. CASE ledger'[f] # ledger[f]
    <3> DEFINE u == Unproven(ledger[f], "INTEGRITY_PENDING")
    <3>1. /\ u.status = "INTEGRITY_PENDING" /\ u.integrity = "PENDING"
          /\ u.path = ledger[f].path /\ ~u.hashed /\ u.duplicate_of = 0
          /\ u.full = ledger[f].full
      BY <1>0, UnprovenFields
    <3>2. u \in Entry
      BY <1>0, UnprovenType
    <3>3. /\ "managed" \in copies[f] /\ ~VerifiedAt(f, "managed")
          /\ ledger'[f] = [u EXCEPT !.validation = "PENDING"]
      BY <2>1, <2>2 DEF Reconciled
    <3> HIDE DEF u
    <3>4. /\ ledger'[f].status = "INTEGRITY_PENDING" /\ ledger'[f].integrity = "PENDING"
          /\ ledger'[f].path = ledger[f].path /\ ~ledger'[f].hashed
          /\ ledger'[f].duplicate_of = 0
          /\ ledger'[f].validation = "PENDING" /\ ledger'[f].full = ledger[f].full
      BY <3>1, <3>2, <3>3 DEF Entry
    <3> QED BY <1>7, <3>3, <3>4 DEF Reviewed, LostProof
  <2> QED BY <2>2
<1>8. CASE \/ \E d \in Downloader : Land(d)
           \/ \E w \in Worker : Expire(w)
           \/ \E g \in File : Rediscover(g)
           \/ RestoreNext \/ EndSearch \/ Stopped \/ Admitted \/ Closed
           \/ Interrupt \/ Abandon \/ UNCHANGED vars
  BY <1>1, <1>8 DEF Land, Expire, Rediscover, RestoreNext, EndSearch, Stopped, Admitted,
                    Closed, Interrupt, Abandon, vars
<1> QED
  BY <1>2, <1>3, <1>4, <1>5, <1>6, <1>7, <1>8 DEF Next, RunStep

-----------------------------------------------------------------------------
\* What one step may do to the record of a worker, field by field.

LEMMA OtherJobs ==
  ASSUME NEW w \in Worker, JobStep(w) \/ Expire(w), NEW u \in Worker, u # w, TypeInv
  PROVE  job'[u] = job[u]
<1>0. job \in [Worker -> JobType]
  BY DEF TypeInv, JobsOK
<1>1. CASE Take(w) \/ Open(w) \/ Gate(w) \/ Inspect(w) \/ Discard(w) \/ Run(w) \/ Hash(w)
           \/ Inherit(w) \/ Evaluate(w)
  BY <1>0, <1>1 DEF Take, Open, Gate, Inspect, Discard, Run, Hash, Inherit, Evaluate, Goes
<1>2. CASE Relocate(w) \/ Report(w) \/ Verdict(w) \/ Confirm(w) \/ Propagate(w) \/ Copy(w)
           \/ Error(w) \/ Leave(w) \/ Expire(w)
  BY <1>0, <1>2 DEF Relocate, Report, Verdict, Confirm, Propagate, Copy, Error, Leave,
                    Expire, Goes
<1> QED BY <1>1, <1>2 DEF JobStep

\* Only workers and a new run touch the workers' records.
LEMMA JobsLeftAlone ==
  ASSUME [Next]_vars, ~Rerun, ~Crash, \A w \in Worker : ~JobStep(w) /\ ~Expire(w)
  PROVE  UNCHANGED <<job, report>>
BY DEF Next, Land, Fetch, CallStep, Record, Read, Check, Queue, Put, Refuse, LateWrite,
       Rediscover, RunStep, RestoreNext, Recover, EndSearch, Stopped, Admitted,
       Closed, Interrupt, Abandon, vars, disk

Keeps(w) == job'[w].file = job[w].file
KeepsPath(w) == Keeps(w) /\ job'[w].path = job[w].path
Stays(w) == /\ KeepsPath(w)
            /\ job'[w].verdict = job[w].verdict /\ job'[w].listed = job[w].listed

Proceeds(w, s) == Stays(w) /\ job'[w].step = s

\* The steps of the job of w, with what they leave in the record.
OpenMoves(w) ==
  /\ Open(w) /\ Keeps(w) /\ job'[w].path = Destination(job[w].file)
  /\ \/ ~Located(job[w].file) /\ job'[w].step = "leave"
     \/ VerifiedAt(job[w].file, Destination(job[w].file)) /\ job'[w].step = "run"
     \/ Located(job[w].file) /\ job'[w].step = "gate"
InspectMoves(w) ==
  /\ Inspect(w) /\ Stays(w) /\ UNCHANGED <<sound, report>>
  /\ \/ /\ job[w].path = "managed" => sound[job[w].file]
        /\ job'[w].step = "run" /\ UNCHANGED copies
        /\ Certify(job[w].file, job[w].path, "PENDING")
     \/ /\ job[w].path = "managed" /\ job'[w].step = "discard" /\ UNCHANGED ledger
        /\ copies' = [copies EXCEPT ![job[w].file] = @ \ {"managed"}]
     \/ job'[w].step = "leave" /\ UNCHANGED <<copies, ledger>>
HashMoves(w) ==
  /\ Hash(w) /\ KeepsPath(w)
  /\ \/ job'[w].step = "evaluate"
     \/ /\ job'[w].step = "inherit" /\ VerifiedAt(job[w].file, "managed")
        /\ Matches(job[w].file) # {}
        /\ job'[w].verdict = Inherited(First(Matches(job[w].file)))
        /\ ledger'[job[w].file].duplicate_of = First(Matches(job[w].file))
EvaluateMoves(w) ==
  /\ Evaluate(w) /\ Keeps(w)
  /\ \/ /\ report[job[w].file] = job[w].path /\ UNCHANGED copies
        /\ job'[w].step = "confirm" /\ job'[w].verdict = job[w].path
        /\ job'[w].path = job[w].path
     \/ /\ report[job[w].file] # job[w].path
        /\ job'[w].verdict \in Decided /\ job'[w].path = job'[w].verdict
        /\ copies' = [copies EXCEPT ![job[w].file] = (@ \ {job[w].path}) \cup {job'[w].verdict}]
        /\ \/ job[w].path = job'[w].verdict /\ job'[w].step = "report"
           \/ job[w].path # job'[w].verdict /\ job'[w].step = "relocate"
     \/ /\ report[job[w].file] # job[w].path
        /\ UNCHANGED copies /\ job'[w].path = job[w].path
        /\ job'[w].verdict = "PENDING" /\ job'[w].step = "report"
     \/ UNCHANGED copies /\ job'[w].path = job[w].path /\ job'[w].step = "error"
ReportMoves(w) ==
  /\ Report(w) /\ Stays(w)
  /\ \/ /\ job'[w].step = "verdict"
        /\ report' = [report EXCEPT ![job[w].file] = job[w].verdict]
     \/ job'[w].step = "error" /\ UNCHANGED report
PropagateMoves(w) ==
  /\ Propagate(w) /\ KeepsPath(w) /\ job'[w].verdict = job[w].verdict
  /\ \/ job'[w].step = "leave"
     \/ /\ job'[w].step = "copy" /\ job'[w].verdict \in Decided
        /\ job'[w].listed = Waiting(job[w].file) /\ job'[w].listed # {}
CopyMoves(w) ==
  /\ Copy(w) /\ KeepsPath(w) /\ job'[w].verdict = job[w].verdict
  /\ \/ job'[w].step = "leave"
     \/ /\ job'[w].step = "copy" /\ job'[w].listed \subseteq job[w].listed
        /\ job'[w].listed # {}

JobMoves(w) ==
  \/ Expire(w) /\ Proceeds(w, job[w].step)
  \/ Take(w) /\ job'[w].file = Head(queue) /\ job'[w].step = "open"
  \/ OpenMoves(w) \/ InspectMoves(w) \/ HashMoves(w) \/ EvaluateMoves(w) \/ ReportMoves(w)
  \/ PropagateMoves(w) \/ CopyMoves(w)
  \/ Gate(w) /\ Proceeds(w, "inspect")
  \/ Run(w) /\ Proceeds(w, "hash")
  \/ Relocate(w) /\ Proceeds(w, "report")
  \/ Verdict(w) /\ Proceeds(w, "confirm")
  \/ Confirm(w) /\ Proceeds(w, "propagate")
  \/ (Discard(w) \/ Inherit(w) \/ Error(w)) /\ Proceeds(w, "leave")
  \/ Leave(w) /\ job'[w].file = 0 /\ job'[w].step = "idle"

LEMMA JobStepMoves ==
  ASSUME TypeInv, NEW w \in Worker, JobStep(w) \/ Expire(w)
  PROVE  JobMoves(w)
<1> DEFINE r == job[w]
           f == job[w].file
<1> USE DEF Keeps, KeepsPath, Stays, Proceeds, OpenMoves, InspectMoves, HashMoves, EvaluateMoves,
            ReportMoves, PropagateMoves, CopyMoves
<1>0. /\ job \in [Worker -> JobType] /\ r \in JobType
      /\ ~At(w, "idle") => f \in File
  BY DEF TypeInv, JobsOK, JobFits, JobType, At
\* A job that changes its step only.
<1>1. ASSUME NEW s, Goes(w, s)
      PROVE  Stays(w) /\ job'[w].step = s
  BY <1>0, <1>1 DEF Goes, JobType
<1>2. CASE Gate(w) \/ Discard(w) \/ Inherit(w) \/ Relocate(w) \/ Verdict(w) \/ Confirm(w) \/ Error(w)
  BY <1>1, <1>2 DEF Gate, Discard, Inherit, Relocate, Verdict, Confirm, Error, JobMoves
<1>3. CASE Inspect(w)
  BY <1>1, <1>3 DEF Inspect, JobMoves, disk
<1>13. CASE Report(w)
  BY <1>1, <1>13 DEF Report, JobMoves
<1>4. CASE Take(w)
  <2>1. NoJob \in JobType
    BY NothingAtWork DEF JobFits
  <2>2. job'[w].file = Head(queue) /\ job'[w].step = "open"
    BY <1>0, <1>4, <2>1 DEF Take, JobType
  <2> QED BY <1>4, <2>2 DEF JobMoves
<1>5. CASE Leave(w)
  <2>1. job'[w].file = 0 /\ job'[w].step = "idle"
    BY <1>0, <1>5 DEF Leave, NoJob
  <2> QED BY <1>5, <2>1 DEF JobMoves
<1>6. CASE Open(w)
  <2> DEFINE s == IF ~Located(f) THEN "leave"
                  ELSE IF VerifiedAt(f, Destination(f)) THEN "run" ELSE "gate"
  <2>1. job' = [job EXCEPT ![w].path = Destination(f), ![w].step = s]
    BY <1>6 DEF Open
  <2>2. job'[w].file = f /\ job'[w].path = Destination(f) /\ job'[w].step = s
    <3> HIDE DEF s
    <3> QED BY <1>0, <2>1 DEF JobType
  <2> QED BY <1>6, <2>2 DEF JobMoves
<1>7. CASE Run(w)
  <2>1. PICK b : b = TRUE
    OBVIOUS
  <2>2. job' = [job EXCEPT ![w].step = "hash", ![w].timer = b]
    BY <1>7, <2>1 DEF Run
  <2>3. Stays(w) /\ job'[w].step = "hash"
    BY <1>0, <2>2 DEF JobType
  <2> QED BY <1>7, <2>3 DEF JobMoves
<1>8. CASE Hash(w)
  <2> DEFINE original == IF Matches(f) = {} THEN 0 ELSE First(Matches(f))
  <2>1. CASE Goes(w, "evaluate")
    BY <1>1, <1>8, <2>1 DEF JobMoves
  <2>2. CASE /\ VerifiedAt(f, "managed") /\ original # 0
             /\ job' = [job EXCEPT ![w].step = "inherit", ![w].verdict = Inherited(original)]
             /\ ledger' = [ledger EXCEPT ![f].hashed = TRUE, ![f].duplicate_of = original]
    <3>1. Matches(f) # {} /\ original = First(Matches(f))
      BY <2>2
    <3>2. f \in File /\ ledger \in [File -> Entry]
      BY <1>0, <1>8 DEF Hash, At, TypeInv, LedgerOK
    <3> HIDE DEF original
    <3>3. KeepsPath(w) /\ job'[w].step = "inherit" /\ job'[w].verdict = Inherited(original)
      BY <1>0, <2>2 DEF JobType
    <3>4. ledger'[f].duplicate_of = original
      BY <2>2, <3>2 DEF Entry
    <3> QED BY <1>8, <2>2, <3>1, <3>3, <3>4 DEF JobMoves
  <2> QED BY <1>8, <2>1, <2>2 DEF Hash
<1>9. CASE Evaluate(w)
  <2>1. ASSUME NEW s, NEW v, NEW p,
               job' = [job EXCEPT ![w].step = s, ![w].verdict = v, ![w].path = p]
        PROVE  Keeps(w) /\ job'[w].step = s /\ job'[w].verdict = v /\ job'[w].path = p
    BY <1>0, <2>1 DEF JobType
  <2>2. CASE /\ report[f] = r.path
             /\ job' = [job EXCEPT ![w].step = "confirm", ![w].verdict = r.path,
                                   ![w].path = r.path]
             /\ UNCHANGED copies
    <3>1. Keeps(w) /\ job'[w].step = "confirm" /\ job'[w].verdict = r.path /\ job'[w].path = r.path
      BY <2>1, <2>2
    <3> QED BY <1>9, <2>2, <3>1 DEF JobMoves
  <2>3. ASSUME NEW v \in Decided, report[f] # r.path,
               copies' = [copies EXCEPT ![f] = (@ \ {r.path}) \cup {v}],
               job' = [job EXCEPT
                         ![w].step = IF r.path = v THEN "report" ELSE "relocate",
                         ![w].verdict = v, ![w].path = v]
        PROVE  JobMoves(w)
    <3> DEFINE s == IF r.path = v THEN "report" ELSE "relocate"
    <3>1. Keeps(w) /\ job'[w].step = s /\ job'[w].verdict = v /\ job'[w].path = v
      <4>1. job' = [job EXCEPT ![w].step = s, ![w].verdict = v, ![w].path = v]
        BY <2>3
      <4> HIDE DEF s
      <4> QED BY <2>1, <4>1
    <3> QED BY <1>9, <2>3, <3>1 DEF JobMoves
  <2>4. CASE /\ job' = [job EXCEPT ![w].step = "report", ![w].verdict = "PENDING",
                                   ![w].path = r.path]
             /\ UNCHANGED copies /\ report[f] # r.path
    <3>1. Keeps(w) /\ job'[w].step = "report" /\ job'[w].verdict = "PENDING" /\ job'[w].path = r.path
      BY <2>1, <2>4
    <3> QED BY <1>9, <2>4, <3>1 DEF JobMoves
  <2>5. CASE Goes(w, "error") /\ UNCHANGED copies
    BY <1>1, <1>9, <2>5 DEF JobMoves
  <2> QED BY <1>9, <2>2, <2>3, <2>4, <2>5 DEF Evaluate
<1>10. CASE Propagate(w)
  <2> DEFINE listed == IF r.verdict \in Decided THEN Waiting(f) ELSE {}
             s == IF listed = {} THEN "leave" ELSE "copy"
  <2>1. job' = [job EXCEPT ![w].listed = listed, ![w].step = s]
    BY <1>10 DEF Propagate
  <2>2. KeepsPath(w) /\ job'[w].verdict = r.verdict /\ job'[w].listed = listed /\ job'[w].step = s
    <3> HIDE DEF listed, s
    <3> QED BY <1>0, <2>1 DEF JobType
  <2> QED BY <1>10, <2>2 DEF JobMoves
<1>11. CASE Copy(w)
  <2> DEFINE rest == r.listed \ {First(r.listed)}
             s == IF rest = {} THEN "leave" ELSE "copy"
  <2>1. job' = [job EXCEPT ![w].listed = rest, ![w].step = s]
    BY <1>11 DEF Copy
  <2>2. KeepsPath(w) /\ job'[w].verdict = r.verdict /\ job'[w].listed = rest /\ job'[w].step = s
    <3> HIDE DEF rest, s
    <3> QED BY <1>0, <2>1 DEF JobType
  <2>3. rest \subseteq r.listed
    OBVIOUS
  <2> HIDE DEF rest
  <2> QED BY <1>11, <2>2, <2>3 DEF JobMoves
<1>12. CASE Expire(w)
  <2>1. PICK b : b = FALSE
    OBVIOUS
  <2>2. job' = [job EXCEPT ![w].timer = b]
    BY <1>12, <2>1 DEF Expire
  <2>3. Stays(w) /\ job'[w].step = r.step
    BY <1>0, <2>2 DEF JobType
  <2> QED BY <1>12, <2>3 DEF JobMoves
<1> QED
  BY <1>2, <1>3, <1>4, <1>5, <1>6, <1>7, <1>8, <1>9, <1>10, <1>11, <1>12,
     <1>13 DEF JobStep

-----------------------------------------------------------------------------
\* Completed means sound.

\* Callers work only while the run searches, restores or admits.
CallersRest ==
  /\ phase # "searching" => \A d \in Downloader : call[d].step = "idle"
  /\ phase \in {"stopping", "done", "closing", "closed"} => call[Main].step = "idle"

\* A job that has gone past the parser works on sound bytes.
PastParser == {"run", "hash", "evaluate", "relocate", "report", "verdict"}
Checked == \A w \in Worker :
  job[w].step \in PastParser /\ job[w].path = "managed" => sound[job[w].file]

\* A file on its way has no bytes at its managed path, is on its way once, and
\* nothing says that it is complete there.
Awaited ==
  /\ \A f \in fetch : "managed" \notin copies[f]
  /\ \A c \in Caller : call[c].step = "land" =>
       /\ "managed" \notin copies[call[c].file]
       /\ call[c].file \notin fetch
       /\ ~(Status(call[c].file) = "COMPLETED" /\ ledger[call[c].file].path = "managed")
  /\ \A c, d \in Caller : c # d /\ call[c].step = "land" /\ call[d].step = "land" =>
       call[c].file # call[d].file

LEMMA ListsStep == TypeInv /\ Lists /\ [Next]_vars => Lists'
<1> SUFFICES ASSUME TypeInv, Lists, [Next]_vars, NEW w \in Worker, job'[w].step = "copy"
             PROVE  job'[w].listed # {}
  BY DEF Lists
<1>1. CASE JobStep(w) \/ Expire(w)
  <2>1. JobMoves(w)
    BY <1>1, JobStepMoves
  <2> QED
    BY <2>1 DEF JobMoves, Lists, Stays, Proceeds, OpenMoves, InspectMoves, HashMoves,
                EvaluateMoves, ReportMoves, PropagateMoves, CopyMoves
<1>2. CASE \E u \in Worker : u # w /\ (JobStep(u) \/ Expire(u))
  BY <1>2, OtherJobs DEF Lists
<1>3. CASE Rerun \/ Crash
  BY <1>3 DEF Rerun, Crash, NewRun, NoJob
<1>4. CASE ~Rerun /\ ~Crash /\ \A u \in Worker : ~JobStep(u) /\ ~Expire(u)
  BY <1>4, JobsLeftAlone DEF Lists
<1> QED BY <1>1, <1>2, <1>3, <1>4

LEMMA CallersRestStep == TypeInv /\ CallersRest /\ [Next]_vars => CallersRest'
<1> SUFFICES ASSUME TypeInv, CallersRest, [Next]_vars PROVE CallersRest'
  OBVIOUS
<1>0. call \in [Caller -> CallType] /\ Main \in Caller /\ Downloader \subseteq Caller
      /\ Main \notin Downloader
  BY DEF TypeInv, CallsOK, Caller
<1>1. ASSUME NEW c \in Caller, CallStep(c)
      PROVE  CallersRest'
  <2>1. call[c].step # "idle" /\ phase' = phase
    BY <1>1 DEF CallStep, Record, Read, Check, Queue, Put, Refuse, InCall, run, Returns
  <2>2. \A d \in Caller : d # c => call'[d] = call[d]
    BY <1>0, <1>1 DEF CallStep, Record, Read, Check, Queue, Put, Refuse, CallGoes, Returns
  <2> QED BY <1>0, <2>1, <2>2 DEF CallersRest, Caller
<1>2. CASE \/ \E d \in Downloader : Land(d) \/ \E f \in File : Fetch(d, f)
           \/ \E f \in File : Rediscover(f)
  <2>1. phase = "searching" /\ phase' = phase
    BY <1>2 DEF Land, Fetch, Rediscover, InCall, run, CallersRest
  <2> QED BY <2>1 DEF CallersRest
<1>3. CASE \/ \E w \in Worker : JobStep(w) \/ Expire(w)
           \/ \E f \in File : LateWrite(f)
           \/ UNCHANGED vars
  <2>1. UNCHANGED <<call, phase>>
    BY <1>3 DEF JobStep, Take, Open, Gate, Inspect, Discard, Run, Hash, Inherit, Evaluate,
                Relocate, Report, Verdict, Confirm, Propagate, Copy, Error, Leave, Expire,
                LateWrite, run, vars
  <2> QED BY <2>1 DEF CallersRest
<1>4. CASE RestoreNext
  <2>1. phase \in {"restoring", "admitting"} /\ phase' = phase
        /\ \A d \in Downloader : call'[d] = call[d]
    BY <1>0, <1>4 DEF RestoreNext
  <2> QED BY <2>1 DEF CallersRest
<1>5. CASE Recover \/ EndSearch \/ Stopped \/ Admitted \/ Closed \/ Interrupt \/ Abandon
  BY <1>0, <1>5 DEF Recover, EndSearch, Stopped, Admitted, Closed, Interrupt, Abandon,
                    CallersRest, InCall
<1>6. CASE Rerun \/ Crash
  BY <1>0, <1>6 DEF Rerun, Crash, NewRun, CallersRest, NoCall
<1> QED BY <1>1, <1>2, <1>3, <1>4, <1>5, <1>6 DEF Next, RunStep

\* Bytes come to a managed path, and change there, only when a transfer lands.
LEMMA BytesArrive ==
  ASSUME TypeInv, [Next]_vars, NEW f \in File
  PROVE  \/ \E d \in Downloader : Land(d) /\ call[d].file = f
         \/ /\ sound'[f] = sound[f]
            /\ "managed" \in copies'[f] => "managed" \in copies[f]
<1>0. /\ copies \in [File -> SUBSET Places] /\ sound \in [File -> BOOLEAN]
      /\ "managed" \notin Decided
  BY DEF TypeInv, DiskOK, Decided
<1>1. CASE UNCHANGED disk
  BY <1>1 DEF disk
<1>2. ASSUME NEW d \in Downloader, Land(d), call[d].file # f
      PROVE  sound'[f] = sound[f] /\ copies'[f] = copies[f]
  BY <1>0, <1>2 DEF Land
<1>3. ASSUME NEW w \in Worker, Inspect(w) \/ Evaluate(w) \/ Report(w)
      PROVE  sound' = sound /\ ("managed" \in copies'[f] => "managed" \in copies[f])
  <2>1. sound' = sound
    BY <1>3 DEF Inspect, Evaluate, Report, disk
  <2>2. CASE copies' = copies
    BY <2>1, <2>2
  <2>3. CASE copies' = [copies EXCEPT ![job[w].file] = @ \ {"managed"}]
    BY <1>0, <2>1, <2>3
  <2>4. ASSUME NEW v \in Decided,
               copies' = [copies EXCEPT ![job[w].file] = (@ \ {job[w].path}) \cup {v}]
        PROVE  sound' = sound /\ ("managed" \in copies'[f] => "managed" \in copies[f])
    BY <1>0, <2>1, <2>4
  <2> QED BY <1>3, <2>2, <2>3, <2>4 DEF Inspect, Evaluate, Report, disk
<1>4. CASE \/ \E w \in Worker : JobStep(w) \/ Expire(w)
  BY <1>1, <1>3, <1>4 DEF JobStep, Take, Open, Gate, Discard, Run, Hash, Inherit, Relocate,
         Verdict, Confirm, Propagate, Copy, Error, Leave, Expire
<1>5. CASE \/ \E d \in Downloader : \E g \in File : Fetch(d, g)
           \/ \E c \in Caller : CallStep(c)
           \/ \E g \in File : LateWrite(g) \/ Rediscover(g)
           \/ RunStep \/ Interrupt \/ Abandon \/ Rerun \/ Crash \/ UNCHANGED vars
  BY <1>1, <1>5 DEF Fetch, CallStep, Record, Read, Check, Queue, Put, Refuse, LateWrite,
       Rediscover, RunStep, RestoreNext, Recover, EndSearch, Stopped, Admitted,
       Closed, Interrupt, Abandon, Rerun, Crash, NewRun, vars
<1> QED BY <1>2, <1>4, <1>5 DEF Next

LEMMA CompletedStep ==
  TypeInv /\ Lists /\ Awaited /\ Checked /\ CompletedIsSound /\ [Next]_vars => CompletedIsSound'
<1> SUFFICES ASSUME TypeInv, Lists, Awaited, Checked, CompletedIsSound, [Next]_vars,
                    NEW f \in File, ledger'[f].status = "COMPLETED"
             PROVE  /\ ledger'[f].integrity = "VALID"
                    /\ ledger'[f].path = "managed" => sound'[f]
  BY DEF CompletedIsSound, Status
<1>1. EntryMoves(f)
  BY EntryStep
<1>2. CASE ledger'[f] = ledger[f]
  <2>1. Downloader \subseteq Caller
    BY DEF Caller
  <2>2. ASSUME NEW d \in Downloader, Land(d), call[d].file = f
        PROVE  ledger[f].path # "managed"
    BY <1>2, <2>1, <2>2 DEF Awaited, Land, InCall, Status
  <2>3. \/ ledger[f].path # "managed"
        \/ sound'[f] = sound[f]
    BY <2>2, BytesArrive
  <2> QED BY <1>2, <2>3 DEF CompletedIsSound, Status
<1>3. CASE Written(f)
  BY <1>3 DEF Written, SameProof, CompletedIsSound, Status, disk
<1>4. ASSUME NEW w \in Worker, Vouched(f, w)
      PROVE  /\ ledger'[f].integrity = "VALID"
             /\ ledger'[f].path = "managed" => sound'[f]
  BY <1>4 DEF Vouched, Checked, PastParser, disk
<1>5. ASSUME NEW w \in Worker, Hashed(f, w)
      PROVE  /\ ledger'[f].integrity = "VALID"
             /\ ledger'[f].path = "managed" => sound'[f]
  BY <1>5 DEF Hashed, CompletedIsSound, Status, disk
<1> QED
  BY <1>1, <1>2, <1>3, <1>4, <1>5 DEF EntryMoves, Condemned, Refetched, Renewed, Reviewed

LEMMA CheckedStep ==
  TypeInv /\ Holds /\ Awaited /\ Checked /\ CompletedIsSound /\ [Next]_vars => Checked'
<1> SUFFICES ASSUME TypeInv, Holds, Awaited, Checked, CompletedIsSound, [Next]_vars,
                    NEW w \in Worker, job'[w].step \in PastParser, job'[w].path = "managed"
             PROVE  sound'[job'[w].file]
  BY DEF Checked
<1>0. /\ job \in [Worker -> JobType]
      /\ \A u \in Worker : job[u].step # "idle" => job[u].file \in File
      /\ Downloader \subseteq Caller /\ "managed" \notin Decided
  BY DEF TypeInv, JobsOK, JobFits, JobType, Caller, Decided
<1>1. CASE JobStep(w) \/ Expire(w)
  <2> DEFINE f == job[w].file
  <2>1. JobMoves(w)
    BY <1>1, JobStepMoves
  <2>2. sound' = sound
    BY <1>1 DEF JobStep, Take, Open, Gate, Inspect, Discard, Run, Hash, Inherit, Evaluate,
                Relocate, Report, Verdict, Confirm, Propagate, Copy, Error, Leave, Expire,
                disk
  <2>a. ASSUME job[w].step \in PastParser, KeepsPath(w)
        PROVE  sound'[job'[w].file]
    BY <2>2, <2>a DEF Checked, KeepsPath, Keeps
  <2>3. CASE OpenMoves(w)
    <3>1. f \in File
      BY <1>0, <2>3 DEF OpenMoves, Open, At
    <3> QED BY <2>2, <2>3, <3>1 DEF OpenMoves, Keeps, VerifiedAt, Verified, CompletedIsSound, PastParser
  <2>4. CASE InspectMoves(w)
    BY <2>2, <2>4 DEF InspectMoves, Stays, KeepsPath, Keeps, PastParser
  <2>5. CASE HashMoves(w)
    BY <2>a, <2>5 DEF HashMoves, Hash, At, PastParser
  <2>6. CASE EvaluateMoves(w)
    <3>1. job[w].step \in PastParser /\ job[w].path = "managed" /\ KeepsPath(w)
      BY <1>0, <2>6 DEF EvaluateMoves, Evaluate, At, PastParser, KeepsPath, Keeps
    <3> QED BY <2>a, <3>1
  <2>7. CASE ReportMoves(w)
    BY <2>a, <2>7 DEF ReportMoves, Report, At, PastParser, Stays
  <2>8. CASE Run(w) /\ Proceeds(w, "hash")
    BY <2>a, <2>8 DEF Proceeds, Stays, Run, At, PastParser
  <2>9. CASE Relocate(w) /\ Proceeds(w, "report")
    BY <2>a, <2>9 DEF Proceeds, Stays, Relocate, At, PastParser
  <2>10. CASE Proceeds(w, job[w].step)
    BY <2>a, <2>10 DEF Proceeds, Stays
  <2> QED
    BY <2>1, <2>3, <2>4, <2>5, <2>6, <2>7, <2>8, <2>9, <2>10
       DEF JobMoves, Proceeds, PropagateMoves, CopyMoves, PastParser
\* The record stays, and no transfer lands where a job works.
<1>2. ASSUME job'[w] = job[w]
      PROVE  sound'[job'[w].file]
  <2> DEFINE f == job[w].file
  <2>1. f \in File /\ "managed" \in copies[f] /\ sound[f]
    BY <1>0, <1>2 DEF Checked, Holds, Holding, PastParser
  <2>2. ASSUME NEW d \in Downloader, Land(d), call[d].file = f
        PROVE  FALSE
    BY <1>0, <2>1, <2>2 DEF Awaited, Land, InCall
  <2> QED BY <1>2, <2>1, <2>2, BytesArrive
<1>3. CASE \E u \in Worker : u # w /\ (JobStep(u) \/ Expire(u))
  BY <1>2, <1>3, OtherJobs
<1>4. CASE Rerun \/ Crash
  BY <1>4 DEF Rerun, Crash, NewRun, NoJob, PastParser
<1>5. CASE ~Rerun /\ ~Crash /\ \A u \in Worker : ~JobStep(u) /\ ~Expire(u)
  BY <1>2, <1>5, JobsLeftAlone
<1> QED BY <1>1, <1>3, <1>4, <1>5

\* Only a download worker that fetches a file turns to the landing.
LEMMA LandingCalls ==
  ASSUME TypeInv, [Next]_vars, NEW c \in Caller, call'[c].step = "land"
  PROVE  \/ call'[c] = call[c]
         \/ c \in Downloader /\ \E f \in File : Fetch(c, f) /\ call'[c].file = f
<1>0. call \in [Caller -> CallType] /\ Main \in Caller /\ Downloader \subseteq Caller
  BY DEF TypeInv, CallsOK, Caller
<1>1. CASE call'[c] = call[c]
  BY <1>1
<1>2. ASSUME NEW d \in Caller, CallStep(d)
      PROVE  call'[c] = call[c]
  <2>1. call' = [call EXCEPT ![d] = NoCall] \/ \E s \in CallSteps \ {"land"} : CallGoes(d, s)
    <3>1. \A s \in {"read", "check", "queue", "put", "refuse"} : s \in CallSteps \ {"land"}
      BY DEF CallSteps
    <3> QED BY <1>2, <3>1 DEF CallStep, Record, Read, Check, Queue, Put, Refuse, Returns
  <2> QED BY <1>0, <2>1 DEF CallGoes, NoCall, CallType
<1>3. ASSUME NEW d \in Downloader, Land(d)
      PROVE  call'[c] = call[c]
  BY <1>0, <1>3 DEF Land, CallGoes, CallType
<1>4. ASSUME NEW d \in Downloader, NEW f \in File, Fetch(d, f)
      PROVE  call'[c] = call[c] \/ (c \in Downloader /\ Fetch(c, f) /\ call'[c].file = f)
  BY <1>0, <1>4 DEF Fetch
<1>5. CASE (\E f \in File : Rediscover(f)) \/ RestoreNext
  BY <1>0, <1>5 DEF Rediscover, RestoreNext
<1>6. CASE Rerun \/ Crash
  BY <1>6 DEF Rerun, Crash, NewRun, NoCall
<1>7. CASE \/ \E w \in Worker : JobStep(w) \/ Expire(w)
           \/ \E f \in File : LateWrite(f)
           \/ Recover \/ EndSearch \/ Stopped \/ Admitted \/ Closed
           \/ Interrupt \/ Abandon \/ UNCHANGED vars
  <2>1. UNCHANGED call
    BY <1>7 DEF JobStep, Take, Open, Gate, Inspect, Discard, Run, Hash, Inherit, Evaluate,
                Relocate, Report, Verdict, Confirm, Propagate, Copy, Error, Leave, Expire,
                LateWrite, Recover, EndSearch, Stopped, Admitted, Closed, Interrupt, Abandon, vars
  <2> QED BY <1>1, <2>1
<1> QED BY <1>1, <1>2, <1>3, <1>4, <1>5, <1>6, <1>7 DEF Next, RunStep

LEMMA FetchGrows ==
  ASSUME TypeInv, [Next]_vars, NEW f \in fetch'
  PROVE  f \in fetch \/ (Recover /\ f \in File /\ "managed" \notin copies[f] /\ UNCHANGED copies)
<1>1. CASE Recover
  BY <1>1 DEF Recover, disk, Unfinished
<1>2. CASE ~Recover
  <2>1. ASSUME NEW c \in Caller, CallStep(c)
        PROVE  fetch' = fetch
    BY <2>1 DEF CallStep, Record, Read, Check, Queue, Put, Refuse, Returns, run
  <2>2. ASSUME NEW w \in Worker, JobStep(w) \/ Expire(w)
        PROVE  fetch' = fetch
    BY <2>2 DEF JobStep, Take, Open, Gate, Inspect, Discard, Run, Hash, Inherit, Evaluate,
                Relocate, Report, Verdict, Confirm, Propagate, Copy, Error, Leave, Expire, run
  <2>3. CASE \/ \E d \in Downloader : Land(d) \/ \E g \in File : Fetch(d, g)
             \/ \E g \in File : LateWrite(g) \/ Rediscover(g)
             \/ RunStep \/ Interrupt \/ Abandon \/ Rerun \/ Crash \/ UNCHANGED vars
    BY <1>2, <2>3 DEF Land, Fetch, LateWrite, Rediscover, RunStep, RestoreNext, EndSearch,
         Stopped, Admitted, Closed, Interrupt, Abandon, Rerun, Crash, NewRun, vars, run
  <2> QED BY <2>1, <2>2, <2>3 DEF Next
<1> QED BY <1>1, <1>2

LEMMA AwaitedStep ==
  TypeInv /\ Lists /\ Holds /\ CallersRest /\ Awaited /\ [Next]_vars => Awaited'
<1> SUFFICES ASSUME TypeInv, Lists, Holds, CallersRest, Awaited, [Next]_vars PROVE Awaited'
  OBVIOUS
<1>0. /\ call \in [Caller -> CallType] /\ Main \in Caller /\ Downloader \subseteq Caller
      /\ \A c \in Caller : call[c].step # "idle" => call[c].file \in File
      /\ fetch \subseteq File /\ LedgerOK
  BY DEF TypeInv, CallsOK, CallFits, CallType, Caller, RunOK
\* A caller that fetches.
<1>a. ASSUME NEW c \in Caller, NEW f \in File, Fetch(c, f), call'[c].file = f
      PROVE  /\ f \in fetch /\ f \notin fetch' /\ UNCHANGED copies
             /\ \A d \in Caller : d # c => call'[d] = call[d]
             /\ ledger'[f].status = "DOWNLOADING"
  <2>1. f \in fetch /\ f \notin fetch' /\ UNCHANGED copies
    BY <1>a DEF Fetch, disk
  <2>2. \A d \in Caller : d # c => call'[d] = call[d]
    BY <1>0, <1>a DEF Fetch
  <2>3. ledger'[f].status = "DOWNLOADING"
    <3> DEFINE u == Unproven(ledger[f], "DOWNLOADING")
    <3>1. u \in Entry /\ u.status = "DOWNLOADING"
      BY <1>0, UnprovenType, UnprovenFields DEF LedgerOK
    <3>2. ledger'[f] = [u EXCEPT !.full = FALSE]
      BY <1>0, <1>a DEF Fetch, LedgerOK
    <3> HIDE DEF u
    <3> QED BY <3>1, <3>2 DEF Entry
  <2> QED BY <2>1, <2>2, <2>3
\* A caller that stays where it was.
<1>b. ASSUME NEW c \in Caller, call'[c] = call[c], call[c].step = "land",
             NEW d \in Downloader, Land(d), call[d].file = call[c].file
      PROVE  FALSE
  <2>1. d \in Caller /\ call[d].step = "land" /\ call'[d].step = "record"
    BY <1>0, <1>b DEF Land, InCall, CallGoes, CallType
  <2>2. d # c
    BY <1>b, <2>1
  <2> QED BY <1>b, <2>1, <2>2 DEF Awaited
<1>1. ASSUME NEW f \in fetch'
      PROVE  "managed" \notin copies'[f]
  <2>1. CASE f \in fetch
    <3>1. "managed" \notin copies[f] /\ f \in File
      BY <1>0, <2>1 DEF Awaited
    <3>2. ASSUME NEW d \in Downloader, Land(d), call[d].file = f
          PROVE  FALSE
      BY <1>0, <2>1, <3>2 DEF Awaited, Land, InCall
    <3> QED BY <3>1, <3>2, BytesArrive
  <2>2. CASE f \notin fetch
    BY <2>2, FetchGrows
  <2> QED BY <2>1, <2>2
<1>2. ASSUME NEW c \in Caller, call'[c].step = "land"
      PROVE  /\ "managed" \notin copies'[call'[c].file]
             /\ call'[c].file \notin fetch'
             /\ ~(ledger'[call'[c].file].status = "COMPLETED"
                    /\ ledger'[call'[c].file].path = "managed")
  <2> DEFINE f == call[c].file
  <2>1. CASE call'[c] = call[c]
    <3>1. f \in File /\ "managed" \notin copies[f] /\ f \notin fetch
          /\ ~(ledger[f].status = "COMPLETED" /\ ledger[f].path = "managed")
      BY <1>0, <1>2, <2>1 DEF Awaited, Status
    <3>2. "managed" \notin copies'[f]
      BY <1>2, <1>b, <2>1, <3>1, BytesArrive
    <3>3. f \notin fetch'
      <4>1. CASE Recover
        <5>1. call[c].step = "idle"
          BY <1>0, <4>1 DEF Recover, CallersRest, InCall, Caller
        <5> QED BY <1>2, <2>1, <5>1
      <4>2. CASE ~Recover
        BY <3>1, <4>2, FetchGrows
      <4> QED BY <4>1, <4>2
    <3>4. ~(ledger'[f].status = "COMPLETED" /\ ledger'[f].path = "managed")
      <4>1. EntryMoves(f)
        BY <3>1, EntryStep
      <4>2. ASSUME NEW w \in Worker, Vouched(f, w)
            PROVE  ledger'[f].path # "managed"
        <5>1. job[w].path \in copies[f]
          BY <4>2 DEF Vouched, Holds, Holding
        <5> QED BY <3>1, <4>2, <5>1 DEF Vouched
      <4> QED BY <3>1, <4>1, <4>2 DEF EntryMoves, Written, SameProof, LostProof, Condemned,
                                      Hashed, Refetched, Renewed, Reviewed
    <3> QED BY <2>1, <3>2, <3>3, <3>4
  <2>2. ASSUME NEW g \in File, Fetch(c, g), call'[c].file = g
        PROVE  /\ "managed" \notin copies'[g] /\ g \notin fetch'
               /\ ledger'[g].status = "DOWNLOADING"
    BY <1>a, <2>2 DEF Awaited
  <2>3. \/ call'[c] = call[c]
        \/ \E g \in File : Fetch(c, g) /\ call'[c].file = g
    BY <1>2, LandingCalls
  <2> QED BY <2>1, <2>2, <2>3
<1>3. ASSUME NEW c \in Caller, NEW d \in Caller, c # d,
             call'[c].step = "land", call'[d].step = "land"
      PROVE  call'[c].file # call'[d].file
  <2>1. /\ call'[c] = call[c] \/ \E f \in File : Fetch(c, f) /\ call'[c].file = f
        /\ call'[d] = call[d] \/ \E f \in File : Fetch(d, f) /\ call'[d].file = f
    BY <1>3, LandingCalls
  <2>2. CASE call'[c] = call[c] /\ call'[d] = call[d]
    BY <1>3, <2>2 DEF Awaited
  <2>3. ASSUME NEW f \in File, Fetch(c, f), call'[c].file = f
        PROVE  call'[c].file # call'[d].file
    <3>1. call'[d] = call[d] /\ f \in fetch
      BY <1>3, <1>a, <2>3
    <3>2. call[d].file \notin fetch
      BY <1>3, <3>1 DEF Awaited
    <3> QED BY <2>3, <3>1, <3>2
  <2>4. ASSUME NEW f \in File, Fetch(d, f), call'[d].file = f
        PROVE  call'[c].file # call'[d].file
    <3>1. call'[c] = call[c] /\ f \in fetch
      BY <1>3, <1>a, <2>4
    <3>2. call[c].file \notin fetch
      BY <1>3, <3>1 DEF Awaited
    <3> QED BY <2>4, <3>1, <3>2
  <2> QED BY <2>1, <2>2, <2>3, <2>4
<1> QED BY <1>1, <1>2, <1>3 DEF Awaited, Status

SoundInv == /\ TypeInv /\ Apart /\ Holds /\ Lists
            /\ CallersRest /\ Awaited /\ Checked /\ CompletedIsSound

LEMMA SoundInvInit == Init => SoundInv
<1> SUFFICES ASSUME Init PROVE SoundInv
  OBVIOUS
<1>1. TypeInv
  BY TypeInvInit
<1>2. Apart
  <2>1. Range(queue) = {} /\ IsInjective(queue)
    BY DEF Init, Range, IsInjective
  <2> QED BY <2>1 DEF Init, Apart, NoJob
<1>3. Holds /\ Lists /\ Checked
  BY DEF Init, Holds, Holding, Lists, Checked, PastParser, NoJob
<1>4. \A c \in Caller : call[c].step = "idle"
  BY DEF Init, NoCall
<1>5. CallersRest /\ Awaited
  BY <1>4 DEF Init, CallersRest, Awaited
<1>6. CompletedIsSound
  BY DEF Init, CompletedIsSound, Status
<1> QED BY <1>1, <1>2, <1>3, <1>5, <1>6 DEF SoundInv

LEMMA SoundInvStep == SoundInv /\ [Next]_vars => SoundInv'
BY TypeInvStep, OneValidatorStep, HoldsStep, ListsStep, CallersRestStep, AwaitedStep,
   CheckedStep, CompletedStep DEF SoundInv

\* No record says COMPLETED for bytes the parser did not accept, whatever
\* transfer, timer, duplicate or verdict write comes late, in every run and after
\* every crash.
THEOREM CompletedMeansSound == Spec => []CompletedIsSound
<1>1. SoundInv => CompletedIsSound
  BY DEF SoundInv
<1> QED BY <1>1, SoundInvInit, SoundInvStep, PTL DEF Spec

-----------------------------------------------------------------------------
\* A run that ends by itself leaves nothing behind.

\* A file that was refused for lack of room is pending.
FullWaits == \A f \in File : ledger[f].full => Validation(f) = "PENDING"

\* The last pass of the admission, from the moment the pool is found empty.
Quiet == phase = "done" \/ (phase = "admitting" /\ ~admitted)
Refused(f) == ledger[f].full /\ Restorable(f) /\ Located(f)
QuietPool == Quiet =>
  /\ queue = <<>> /\ \A w \in Worker : job[w].step = "idle"
  /\ call[Main].step \in {"idle", "read", "check", "queue", "put"}
  /\ phase = "done" => todo = {}
  /\ \A f \in File : Refused(f) => f \in todo \/ call[Main].file = f

LEMMA FullWaitsStep == TypeInv /\ Lists /\ FullWaits /\ [Next]_vars => FullWaits'
<1> SUFFICES ASSUME TypeInv, Lists, FullWaits, [Next]_vars, NEW f \in File, ledger'[f].full
             PROVE  ledger'[f].validation = "PENDING"
  BY DEF FullWaits, Validation
<1>1. EntryMoves(f)
  BY EntryStep
<1> QED BY <1>1 DEF EntryMoves, Written, Vouched, Condemned, Hashed, Refetched, Renewed,
                    Reviewed, FullWaits, Validation

LEMMA RefusedSame ==
  ASSUME NEW f, ledger'[f] = ledger[f], copies'[f] = copies[f], Refused(f)'
  PROVE  Refused(f)
BY DEF Refused, Restorable, Located, Destination, Verified, Status, Validation

LEMMA QuietCallStep ==
  ASSUME TypeInv, Apart, CallersRest, QuietPool, NEW c \in Caller, CallStep(c)
  PROVE  QuietPool'
<1> SUFFICES ASSUME Quiet' PROVE QuietPool'
  BY DEF QuietPool
<1> DEFINE f == call[c].file
<1>0. /\ call \in [Caller -> CallType] /\ Main \in Caller /\ LedgerOK
      /\ call[c].step # "idle"
  BY DEF TypeInv, CallsOK, Caller, CallStep, Record, Read, Check, Queue, Put, Refuse, InCall
<1>1. phase' = phase /\ todo' = todo /\ UNCHANGED <<job, copies>>
  BY DEF CallStep, Record, Read, Check, Queue, Put, Refuse, Returns, run, disk
<1>2. admitted => admitted'
  BY DEF CallStep, Record, Read, Check, Queue, Put, Refuse, Returns, run
<1>3. phase = "admitting" /\ c = Main /\ Quiet /\ ~admitted'
  BY <1>0, <1>1, <1>2 DEF Quiet, CallersRest, Caller
<1>4. /\ queue = <<>> /\ \A w \in Worker : job[w].step = "idle"
      /\ call[Main].step \in {"read", "check", "queue", "put"}
      /\ \A g \in File : Refused(g) => g \in todo \/ f = g
  BY <1>0, <1>3 DEF QuietPool
<1>5. known = {} /\ f \in File
  <2>1. \A w \in Worker : job[w].file = 0
    BY <1>4 DEF TypeInv, JobsOK, JobFits
  <2>2. Range(queue) = {}
    BY <1>4 DEF Range
  <2> QED BY <1>0, <2>1, <2>2 DEF Apart, TypeInv, CallsOK, CallFits, CallType
<1>6. CASE Read(c)
  <2>1. UNCHANGED <<ledger, queue>>
    BY <1>6 DEF Read, pool
  <2>2. CASE Returns(c, Located(f))
    <3>1. call'[Main] = NoCall /\ ~Located(f)
      BY <1>0, <1>3, <2>2 DEF Returns
    <3>2. ASSUME NEW g \in File, Refused(g)'
          PROVE  g \in todo
      <4>1. Refused(g)
        BY <1>1, <2>1, <3>2, RefusedSame
      <4> QED BY <1>4, <3>1, <4>1 DEF Refused
    <3> QED BY <1>1, <1>3, <1>4, <2>1, <3>1, <3>2 DEF QuietPool, NoCall
  <2>3. CASE CallGoes(c, "check")
    <3>1. call'[Main].step = "check" /\ call'[Main].file = f
      BY <1>0, <1>3, <2>3 DEF CallGoes, CallType
    <3>2. ASSUME NEW g \in File, Refused(g)'
          PROVE  g \in todo \/ f = g
      BY <1>1, <1>4, <2>1, <3>2, RefusedSame
    <3> QED BY <1>1, <1>3, <1>4, <2>1, <3>1, <3>2 DEF QuietPool
  <2> QED BY <1>6, <2>2, <2>3 DEF Read
<1>7. CASE Check(c)
  <2>1. UNCHANGED <<ledger, queue>> /\ CallGoes(c, "queue")
    BY <1>5, <1>7 DEF Check, pool
  <2>2. call'[Main].step = "queue" /\ call'[Main].file = f
    BY <1>0, <1>3, <2>1 DEF CallGoes, CallType
  <2>3. ASSUME NEW g \in File, Refused(g)'
        PROVE  g \in todo \/ f = g
    BY <1>1, <1>4, <2>1, <2>3, RefusedSame
  <2> QED BY <1>1, <1>3, <1>4, <2>1, <2>2, <2>3 DEF QuietPool
<1>8. CASE Queue(c)
  <2>1. UNCHANGED queue /\ CallGoes(c, "put")
    BY <1>8 DEF Queue, pool
  <2>2. call'[Main].step = "put" /\ call'[Main].file = f
    BY <1>0, <1>3, <2>1 DEF CallGoes, CallType
  <2>3. ASSUME NEW g \in File, Refused(g)'
        PROVE  g \in todo \/ f = g
    <3>1. CASE g = f
      BY <3>1
    <3>2. CASE g # f
      <4>1. ledger'[g] = ledger[g]
        BY <1>0, <1>8, <3>2 DEF Queue, Mark, LedgerOK
      <4> QED BY <1>1, <1>4, <2>3, <4>1, RefusedSame
    <3> QED BY <3>1, <3>2
  <2> QED BY <1>1, <1>3, <1>4, <2>1, <2>2, <2>3 DEF QuietPool
<1>9. CASE Put(c)
  <2>1. ~(Len(queue) >= QueueSize)
    <3>1. Len(queue) = 0
      BY <1>4
    <3> QED BY <3>1
  <2>a. f \notin known
    BY <1>5
  <2>2. Returns(c, TRUE)
    BY <1>9, <2>a, <2>1, Zenon DEF Put
  <2>3. admitted'
    BY <1>3, <2>2, Zenon DEF Returns
  <2> QED BY <1>3, <2>3
<1>10. CASE Record(c) \/ Refuse(c)
  BY <1>3, <1>4, <1>10 DEF Record, Refuse, InCall
<1> QED BY <1>6, <1>7, <1>8, <1>9, <1>10 DEF CallStep

LEMMA QuietStep ==
  TypeInv /\ Apart /\ CallersRest /\ QuietPool /\ [Next]_vars => QuietPool'
<1> SUFFICES ASSUME TypeInv, Apart, CallersRest, QuietPool, [Next]_vars, Quiet'
             PROVE  QuietPool'
  BY DEF QuietPool
<1>0. /\ call \in [Caller -> CallType] /\ Main \in Caller /\ Downloader \subseteq Caller
      /\ LedgerOK /\ \A c \in Caller : CallFits(call[c])
  BY DEF TypeInv, CallsOK, Caller
<1>1. ASSUME NEW c \in Caller, CallStep(c)
      PROVE  QuietPool'
  BY <1>1, QuietCallStep
<1>2. ASSUME NEW f \in File, LateWrite(f)
      PROVE  QuietPool'
  <2>1. UNCHANGED <<disk, pool, job, call, run>>
    BY <1>2 DEF LateWrite
  <2>2. ASSUME NEW g \in File, Refused(g)'
        PROVE  Refused(g)
    <3>1. CASE g = f
      <4>1. PICK b : b = FALSE
        OBVIOUS
      <4>2. ledger'[f] = Marked(f, "PENDING", b)
        BY <1>0, <1>2, <4>1 DEF LateWrite, Mark, LedgerOK
      <4>3. ledger'[f].full = b /\ ~b
        <5>1. ledger'[f].full = b
          BY <1>0, <4>2, MarkedWrites
        <5> QED BY <4>1, <5>1, Zenon
      <4> QED BY <2>2, <3>1, <4>3 DEF Refused
    <3>2. CASE g # f
      <4>1. ledger'[g] = ledger[g] /\ copies'[g] = copies[g]
        BY <1>0, <1>2, <2>1, <3>2 DEF LateWrite, Mark, LedgerOK, disk
      <4> QED BY <2>2, <4>1, RefusedSame
    <3> QED BY <3>1, <3>2
  <2>3. Quiet
    BY <2>1 DEF Quiet, run
  <2> QED BY <2>1, <2>2, <2>3 DEF QuietPool, pool, run
<1>3. CASE UNCHANGED vars
  <2>1. \A f \in File : Refused(f)' => Refused(f)
    BY <1>3, RefusedSame DEF vars, disk
  <2> QED BY <1>3, <2>1 DEF QuietPool, Quiet, vars, pool, run
<1>4. ASSUME NEW w \in Worker, JobStep(w) \/ Expire(w)
      PROVE  FALSE
  <2>1. UNCHANGED run
    BY <1>4 DEF JobStep, Take, Open, Gate, Inspect, Discard, Run, Hash, Inherit, Evaluate,
                Relocate, Report, Verdict, Confirm, Propagate, Copy, Error, Leave, Expire
  <2>2. queue = <<>> /\ job[w].step = "idle"
    BY <2>1 DEF QuietPool, Quiet, run
  <2>3. ~job[w].timer
    BY <2>2 DEF TypeInv, JobsOK, JobFits
  <2> QED
    BY <1>4, <2>2, <2>3
       DEF JobStep, Take, Open, Gate, Inspect, Discard, Run, Hash, Inherit, Evaluate,
           Relocate, Report, Verdict, Confirm, Propagate, Copy, Error, Leave, Expire, At
<1>5. ASSUME \/ \E d \in Downloader : Land(d) \/ \E f \in File : Fetch(d, f)
             \/ \E f \in File : Rediscover(f)
      PROVE  FALSE
  <2>1. phase' = "searching"
    BY <1>5 DEF Land, Fetch, Rediscover, InCall, run, CallersRest
  <2> QED BY <2>1 DEF Quiet
<1>6. CASE RestoreNext
  <2>1. Quiet /\ phase = "admitting" /\ phase' = phase /\ call[Main].file = 0
    BY <1>0, <1>6 DEF RestoreNext, Quiet, InCall, CallFits
  <2>2. call'[Main].file = First(todo) /\ call'[Main].step = "read" /\ todo' = todo \ {First(todo)}
    BY <1>0, <1>6 DEF RestoreNext
  <2>3. UNCHANGED <<queue, job>> /\ UNCHANGED <<ledger, copies>>
    BY <1>6 DEF RestoreNext, pool, disk
  <2>4. ASSUME NEW g \in File, Refused(g)'
        PROVE  g \in todo
    <3>1. Refused(g)
      BY <2>3, <2>4, RefusedSame
    <3> QED BY <2>1, <3>1 DEF QuietPool
  <2> QED BY <2>1, <2>2, <2>3, <2>4 DEF QuietPool
<1>7. CASE Stopped
  <2>1. \A f \in File : Refused(f)' => Refused(f)
    BY <1>7, RefusedSame DEF Stopped, disk
  <2>2. \A f \in File : Refused(f) => f \in todo'
    BY <1>7 DEF Stopped, Refused
  <2>3. call'[Main].step = "idle" /\ phase' = "admitting"
    BY <1>7 DEF Stopped, CallersRest
  <2>4. queue' = <<>> /\ \A w \in Worker : job'[w].step = "idle"
    BY <1>7 DEF Stopped, At, pool
  <2> QED BY <2>1, <2>2, <2>3, <2>4 DEF QuietPool
<1>8. CASE Admitted
  <2>1. phase' = "done" /\ Quiet /\ todo = {}
    BY <1>8 DEF Admitted, Quiet
  <2>2. \A f \in File : Refused(f)' => Refused(f)
    BY <1>8, RefusedSame DEF Admitted, disk
  <2>3. UNCHANGED <<queue, job, call, todo>>
    BY <1>8 DEF Admitted, pool
  <2> QED BY <2>1, <2>2, <2>3 DEF QuietPool
<1>9. ASSUME Recover \/ EndSearch \/ Closed \/ Interrupt \/ Abandon \/ Rerun \/ Crash
      PROVE  FALSE
  BY <1>9 DEF Recover, EndSearch, Closed, Interrupt, Abandon, Rerun, Crash, NewRun, Quiet
<1> QED BY <1>1, <1>2, <1>3, <1>4, <1>5, <1>6, <1>7, <1>8, <1>9 DEF Next, RunStep

\* A run that ends by itself has validated all that its pool accepted, and has
\* admitted every file that was once refused for lack of room, whatever the
\* number of passes it took.
THEOREM NothingLeftInThePool == Spec => []RunDrainsPool
<1> DEFINE Inv == SoundInv /\ FullWaits /\ QuietPool
<1>1. Init => Inv
  <2>1. Init => FullWaits /\ QuietPool
    BY DEF Init, FullWaits, Validation, QuietPool, Quiet
  <2> QED BY <2>1, SoundInvInit
<1>2. Inv /\ [Next]_vars => Inv'
  BY SoundInvStep, FullWaitsStep, QuietStep DEF SoundInv
<1>3. Inv => RunDrainsPool
  <2> SUFFICES ASSUME Inv, phase = "done" PROVE RunDrainsPool
    BY DEF RunDrainsPool
  <2>1. /\ queue = <<>> /\ \A w \in Worker : job[w].step = "idle"
        /\ \A f \in File : ~Refused(f)
    BY DEF QuietPool, Quiet, SoundInv, CallersRest, TypeInv, CallsOK, CallFits, Caller
  <2>2. ASSUME NEW f \in File, ledger[f].full, Located(f),
               Status(f) \in {"COMPLETED", "INTEGRITY_PENDING"}
        PROVE  FALSE
    <3>1. Validation(f) = "PENDING"
      BY <2>2 DEF FullWaits
    <3>2. Refused(f)
      BY <2>2, <3>1 DEF Refused, Restorable, Decided
    <3> QED BY <2>1, <3>2
  <2> QED BY <2>1, <2>2 DEF RunDrainsPool, At
<1> QED BY <1>1, <1>2, <1>3, PTL DEF Spec

-----------------------------------------------------------------------------
\* A verdict is not lost.

\* Only a file whose bytes are at its managed path is told to wait for a
\* duplicate; the other jobs pass on verdicts.
Waits ==
  /\ \A f \in File : Validation(f) = "DUPLICATE_PENDING" => "managed" \in copies[f]
  /\ \A w \in Worker :
       /\ job[w].step = "inherit" => "managed" \in copies[job[w].file]
       /\ job[w].step \in {"inspect", "hash", "evaluate"} =>
            Validation(job[w].file) # "DUPLICATE_PENDING"
       /\ job[w].step = "copy" => job[w].verdict \in Decided
       /\ job[w].step \in {"verdict", "confirm", "propagate"} => job[w].verdict \in Verdicts

\* The bytes of a file move when a transfer lands, when the parser refuses them
\* and when the evaluator decides.
CopiesMove(f) ==
  \/ copies'[f] = copies[f]
  \/ \E d \in Downloader : /\ Land(d) /\ call[d].file = f
                           /\ copies'[f] = copies[f] \cup {"managed"}
  \/ \E w \in Worker : /\ Inspect(w) /\ job[w].file = f /\ job[w].path = "managed"
                       /\ copies'[f] = copies[f] \ {"managed"}
  \/ \E w \in Worker : /\ Evaluate(w) /\ job[w].file = f /\ report[f] # job[w].path
                       /\ \E v \in Decided : copies'[f] = (copies[f] \ {job[w].path}) \cup {v}

LEMMA CopiesStep ==
  ASSUME TypeInv, [Next]_vars, NEW f \in File
  PROVE  CopiesMove(f)
<1> USE DEF CopiesMove
<1>0. copies \in [File -> SUBSET Places]
  BY DEF TypeInv, DiskOK
<1>1. CASE UNCHANGED copies
  BY <1>1
<1>2. ASSUME NEW d \in Downloader, Land(d)
      PROVE  CopiesMove(f)
  BY <1>0, <1>2 DEF Land
<1>3. ASSUME NEW w \in Worker, Inspect(w)
      PROVE  CopiesMove(f)
  <2>1. CASE /\ copies' = [copies EXCEPT ![job[w].file] = @ \ {"managed"}]
             /\ job[w].path = "managed"
    BY <1>0, <1>3, <2>1
  <2> QED BY <1>1, <1>3, <2>1 DEF Inspect, disk
<1>4. ASSUME NEW w \in Worker, Evaluate(w)
      PROVE  CopiesMove(f)
  <2>1. ASSUME NEW v \in Decided, report[job[w].file] # job[w].path,
               copies' = [copies EXCEPT ![job[w].file] = (@ \ {job[w].path}) \cup {v}]
        PROVE  CopiesMove(f)
    BY <1>0, <1>4, <2>1
  <2> QED BY <1>1, <1>4, <2>1 DEF Evaluate
<1>5. CASE \/ \E w \in Worker : JobStep(w) \/ Expire(w)
  BY <1>1, <1>3, <1>4, <1>5 DEF JobStep, Take, Open, Gate, Discard, Run, Hash, Inherit,
       Relocate, Report, Verdict, Confirm, Propagate, Copy, Error, Leave, Expire, disk
<1>6. CASE \/ \E d \in Downloader : \E g \in File : Fetch(d, g)
           \/ \E c \in Caller : CallStep(c)
           \/ \E g \in File : LateWrite(g) \/ Rediscover(g)
           \/ RunStep \/ Interrupt \/ Abandon \/ Rerun \/ Crash \/ UNCHANGED vars
  BY <1>1, <1>6 DEF Fetch, CallStep, Record, Read, Check, Queue, Put, Refuse, LateWrite,
       Rediscover, RunStep, RestoreNext, Recover, EndSearch, Stopped, Admitted,
       Closed, Interrupt, Abandon, Rerun, Crash, NewRun, vars, disk
<1> QED BY <1>2, <1>5, <1>6 DEF Next

LEMMA ReportStep ==
  ASSUME TypeInv, [Next]_vars, NEW f \in File
  PROVE  \/ report'[f] = report[f]
         \/ \E w \in Worker : /\ Report(w) /\ job[w].file = f /\ report'[f] = job[w].verdict
<1>0. report \in [File -> Verdicts]
  BY DEF TypeInv, DiskOK
<1>1. CASE UNCHANGED report
  BY <1>1
<1>2. ASSUME NEW w \in Worker, Report(w)
      PROVE  \/ report'[f] = report[f]
             \/ /\ job[w].file = f /\ report'[f] = job[w].verdict
  BY <1>0, <1>2 DEF Report
<1>3. ASSUME NEW w \in Worker, JobStep(w) \/ Expire(w), ~Report(w)
      PROVE  UNCHANGED report
  BY <1>3 DEF JobStep, Take, Open, Gate, Inspect, Discard, Run, Hash, Inherit, Evaluate,
       Relocate, Verdict, Confirm, Propagate, Copy, Error, Leave, Expire, disk
<1>4. CASE Rerun \/ Crash
  BY <1>1, <1>4 DEF Rerun, Crash, NewRun, disk
<1>5. CASE ~Rerun /\ ~Crash /\ \A u \in Worker : ~JobStep(u) /\ ~Expire(u)
  BY <1>1, <1>5, JobsLeftAlone
<1> QED BY <1>1, <1>2, <1>3, <1>4, <1>5

\* Workers that hold the bytes of a file are told apart by it.
LEMMA OneHolder ==
  ASSUME TypeInv, Apart, NEW u \in Worker, NEW w \in Worker,
         job[u].file = job[w].file, job[w].step # "idle"
  PROVE  u = w
BY DEF TypeInv, JobsOK, JobFits, Apart

\* A step of a worker that leaves the record of w alone, or is its own.
LEMMA WhoseStep ==
  ASSUME TypeInv, [Next]_vars, NEW w \in Worker
  PROVE  \/ (JobStep(w) \/ Expire(w)) /\ JobMoves(w)
         \/ job'[w] = job[w] /\ ~JobStep(w) /\ ~Expire(w)
         \/ job'[w] = NoJob
<1>1. CASE JobStep(w) \/ Expire(w)
  BY <1>1, JobStepMoves
<1>2. CASE ~JobStep(w) /\ ~Expire(w) /\ \E u \in Worker : JobStep(u) \/ Expire(u)
  BY <1>2, OtherJobs
<1>3. CASE Rerun \/ Crash
  BY <1>3 DEF Rerun, Crash, NewRun
<1>4. CASE ~Rerun /\ ~Crash /\ \A u \in Worker : ~JobStep(u) /\ ~Expire(u)
  BY <1>4, JobsLeftAlone
<1> QED BY <1>1, <1>2, <1>3, <1>4

LEMMA WaitsStep ==
  TypeInv /\ Apart /\ Lists /\ Waits /\ [Next]_vars => Waits'
<1> SUFFICES ASSUME TypeInv, Apart, Lists, Waits, [Next]_vars PROVE Waits'
  OBVIOUS
<1>0. /\ \A w \in Worker : job[w].step # "idle" => job[w].file \in File /\ job[w].file # 0
      /\ "DUPLICATE_PENDING" \notin Verdicts /\ "DUPLICATE_PENDING" \notin Decided
      /\ Decided \subseteq Verdicts
      /\ NoJob.step = "idle"
  BY DEF TypeInv, JobsOK, JobFits, JobType, Verdicts, Decided, NoJob
\* Who takes the bytes away from the managed path works on the file.
<1>1. ASSUME NEW f \in File, "managed" \in copies[f], "managed" \notin copies'[f]
      PROVE  \E w \in Worker : job[w].file = f /\ job[w].step \in {"inspect", "evaluate"}
  <2>1. CopiesMove(f)
    BY CopiesStep
  <2> QED BY <1>1, <2>1 DEF CopiesMove, Inspect, Evaluate, At
\* The steps that write that a file waits.
<1>2. ASSUME NEW f \in File, ledger'[f].validation = "DUPLICATE_PENDING",
             Validation(f) # "DUPLICATE_PENDING"
      PROVE  /\ \E w \in Worker : job[w].file = f /\ job[w].step = "inherit"
             /\ UNCHANGED copies
  <2>1. EntryMoves(f)
    BY EntryStep
  <2>2. CASE Written(f)
    <3>1. Says(f, "DUPLICATE_PENDING") /\ UNCHANGED copies
      BY <1>2, <2>2 DEF Written, disk
    <3>2. PICK w \in Worker :
            /\ job[w].verdict = "DUPLICATE_PENDING"
            /\ \/ job[w].step \in {"inherit", "confirm"} /\ job[w].file = f
               \/ job[w].step = "copy" /\ f \in job[w].listed
      BY <1>2, <3>1 DEF Says
    <3> QED BY <1>0, <3>1, <3>2 DEF Waits
  <2>3. ASSUME NEW w \in Worker, Vouched(f, w)
        PROVE  FALSE
    BY <1>0, <1>2, <2>3 DEF Vouched, Waits
  <2> QED BY <1>2, <2>1, <2>2, <2>3 DEF EntryMoves, Condemned, Hashed, Refetched, Renewed,
                                        Reviewed, Validation
<1>3. ASSUME NEW f \in File, ledger'[f].validation = "DUPLICATE_PENDING"
      PROVE  "managed" \in copies'[f]
  <2>1. CASE Validation(f) = "DUPLICATE_PENDING"
    BY <1>0, <1>1, <2>1 DEF Waits
  <2>2. CASE Validation(f) # "DUPLICATE_PENDING"
    BY <1>2, <1>3, <2>2 DEF Waits
  <2> QED BY <2>1, <2>2
<1>4. ASSUME NEW w \in Worker
      PROVE  /\ job'[w].step = "inherit" => "managed" \in copies'[job'[w].file]
             /\ job'[w].step \in {"inspect", "hash", "evaluate"} =>
                  ledger'[job'[w].file].validation # "DUPLICATE_PENDING"
             /\ job'[w].step = "copy" => job'[w].verdict \in Decided
             /\ job'[w].step \in {"verdict", "confirm", "propagate"} => job'[w].verdict \in Verdicts
  <2> DEFINE f == job[w].file
  <2>1. CASE job'[w] = job[w]
    <3>1. ASSUME job[w].step = "inherit"
          PROVE  "managed" \in copies'[f]
      <4>1. f \in File /\ "managed" \in copies[f]
        BY <1>0, <3>1 DEF Waits
      <4>2. ASSUME NEW u \in Worker, job[u].file = f, job[u].step \in {"inspect", "evaluate"}
            PROVE  FALSE
        <5>1. u = w
          BY <3>1, <4>2, OneHolder
        <5> QED BY <3>1, <4>2, <5>1
      <4> QED BY <1>1, <4>1, <4>2
    <3>2. ASSUME job[w].step \in {"inspect", "hash", "evaluate"}
          PROVE  ledger'[f].validation # "DUPLICATE_PENDING"
      <4>1. f \in File /\ Validation(f) # "DUPLICATE_PENDING"
        BY <1>0, <3>2 DEF Waits
      <4>2. ASSUME NEW u \in Worker, job[u].file = f, job[u].step = "inherit"
            PROVE  FALSE
        <5>1. u = w
          BY <3>2, <4>2, OneHolder
        <5> QED BY <3>2, <4>2, <5>1
      <4> QED BY <1>2, <4>1, <4>2
    <3> QED BY <2>1, <3>1, <3>2 DEF Waits
  <2>2. CASE job'[w] = NoJob
    BY <1>0, <2>2
  <2>3. CASE (JobStep(w) \/ Expire(w)) /\ JobMoves(w)
    <3> USE DEF Proceeds, Stays, KeepsPath, Keeps
    <3>1. ASSUME NEW v, Mark(f, v), f \in File
          PROVE  ledger'[f].validation = v
      <4>1. PICK b : b = FALSE
        OBVIOUS
      <4>2. ledger'[f] = Marked(f, v, b) /\ LedgerOK
        BY <3>1, <4>1 DEF Mark, TypeInv, LedgerOK
      <4> QED BY <3>1, <4>2, MarkedWrites
    <3>2. CASE (Gate(w) /\ Proceeds(w, "inspect")) \/ (Run(w) /\ Proceeds(w, "hash"))
      <4>1. f \in File /\ job'[w].file = f /\ job'[w].step \in {"inspect", "hash"}
        BY <1>0, <3>2 DEF Gate, Run, At
      <4>2. Mark(f, "PENDING") \/ Mark(f, "RUNNING")
        BY <3>2 DEF Gate, Run
      <4>3. ledger'[f].validation # "DUPLICATE_PENDING"
        BY <3>1, <4>1, <4>2
      <4> QED BY <4>1, <4>3
    <3>3. CASE HashMoves(w)
      <4>1. f \in File /\ job[w].step = "hash" /\ UNCHANGED copies
        BY <1>0, <3>3 DEF HashMoves, Hash, At, disk
      <4>2. /\ job'[w].file = f
            /\ \/ job'[w].step = "evaluate"
               \/ job'[w].step = "inherit" /\ VerifiedAt(f, "managed")
        BY <3>3 DEF HashMoves
      <4>3. ASSUME NEW u \in Worker, job[u].file = f, job[u].step = "inherit"
            PROVE  FALSE
        <5>1. u = w
          BY <4>1, <4>3, OneHolder
        <5> QED BY <4>1, <4>3, <5>1
      <4>4. ledger'[f].validation # "DUPLICATE_PENDING"
        BY <1>2, <4>1, <4>3 DEF Waits
      <4> QED BY <4>1, <4>2, <4>4 DEF VerifiedAt, Verified
    <3>4. CASE Expire(w) /\ Proceeds(w, job[w].step)
      <4>1. UNCHANGED <<copies, ledger>>
        BY <3>4 DEF Expire, disk
      <4> QED BY <3>4, <4>1 DEF Waits, Validation
    <3>5. CASE \/ ReportMoves(w)
               \/ Verdict(w) /\ Proceeds(w, "confirm")
               \/ Confirm(w) /\ Proceeds(w, "propagate")
      <4>1. job[w].verdict \in Verdicts
        BY <3>5 DEF ReportMoves, Report, Verdict, Confirm, At, Waits, TypeInv, JobsOK, JobFits
      <4>2. job'[w].verdict = job[w].verdict
            /\ job'[w].step \in {"verdict", "error", "confirm", "propagate"}
        BY <3>5 DEF ReportMoves
      <4> QED BY <4>1, <4>2
    <3>6. CASE EvaluateMoves(w)
      <4>1. f \in File /\ report[f] \in Verdicts
        BY <1>0, <3>6 DEF EvaluateMoves, Evaluate, At, TypeInv, DiskOK
      <4> QED BY <3>6, <4>1 DEF EvaluateMoves
    <3>7. CASE CopyMoves(w)
      BY <3>7 DEF CopyMoves, Copy, At, Waits
    <3>8. CASE \/ job'[w].step \in {"open", "idle"}
               \/ OpenMoves(w) \/ InspectMoves(w) \/ PropagateMoves(w)
               \/ Proceeds(w, "report") \/ Proceeds(w, "leave")
      BY <3>8 DEF OpenMoves, InspectMoves, PropagateMoves
    <3> QED BY <2>3, <3>2, <3>3, <3>4, <3>5, <3>6, <3>7, <3>8 DEF JobMoves
  <2> QED BY <2>1, <2>2, <2>3, WhoseStep
<1> QED BY <1>3, <1>4 DEF Waits, Validation

\* Of a file that was not fetched again there is one copy; once it has a report,
\* the copy lies where the report put it and the ledger says so; and a job knows
\* where it is before it asks for a verdict and before it reports one.
Settled(f) ==
  report[f] \in Decided => VerifiedAt(f, report[f]) /\ copies[f] = {report[f]}
OneCopy(f) == \A p, q \in copies[f] : p = q
Absent(f) == \A c \in Caller : call[c].file = f /\ call[c].step = "land" => copies[f] = {}
Knows(f, w) ==
  /\ job[w].step \in {"run", "hash", "evaluate"} => VerifiedAt(f, job[w].path)
  /\ job[w].step = "report" /\ job[w].verdict \in Decided =>
       VerifiedAt(f, job[w].path) /\ job[w].path = job[w].verdict
  /\ job[w].step = "relocate" => job[w].path = job[w].verdict /\ job[w].verdict \in Decided
  /\ job[w].step = "discard" \/ (job[w].step = "report" /\ job[w].verdict \notin Decided) =>
       report[f] \notin Decided
Traced(f) == /\ Settled(f) /\ OneCopy(f) /\ Absent(f)
             /\ \A w \in Worker : job[w].file = f => Knows(f, w)

\* The file is not fetched while there is a copy of it.
FirstFetch(f) == copies[f] # {} => ~ \E d \in Downloader : Fetch(d, f)

\* An entry that vouches for a copy goes on doing so.
LEMMA VerifiedStays ==
  ASSUME TypeInv, Lists, [Next]_vars, NEW f \in File, NEW p, VerifiedAt(f, p), p \in copies'[f],
         ~ \E d \in Downloader : Fetch(d, f),
         \A w \in Worker : Vouched(f, w) => job[w].path = p,
         \A w \in Worker : ~Condemned(f, w),
         "managed" \in copies[f] => p = "managed"
  PROVE  VerifiedAt(f, p)'
<1>1. EntryMoves(f)
  BY EntryStep
<1>2. /\ ledger[f].status = "COMPLETED" /\ ledger[f].integrity = "VALID" /\ ledger[f].path = p
  BY DEF VerifiedAt, Verified, Status
<1>3. /\ ledger'[f].status = "COMPLETED" /\ ledger'[f].integrity = "VALID" /\ ledger'[f].path = p
  BY <1>1, <1>2
     DEF EntryMoves, Written, SameProof, Vouched, Hashed, Refetched, Renewed, Reviewed,
         VerifiedAt
<1> QED BY <1>3 DEF VerifiedAt, Verified, Status

LEMMA HolderOfOne ==
  ASSUME TypeInv, Holds, NEW f \in File, Traced(f), NEW w \in Worker, job[w].file = f,
         job[w].step \in Holding
  PROVE  copies[f] = {job[w].path}
BY DEF Holds, Traced, OneCopy

\* What a report says does not change the place of the copy.
LEMMA SettledCopies ==
  ASSUME TypeInv, Holds, Awaited, [Next]_vars, NEW f \in File, Traced(f),
         report[f] \in Decided
  PROVE  copies'[f] = copies[f]
<1>1. copies[f] = {report[f]} /\ report[f] # "managed" /\ report[f] \in copies[f]
  BY DEF Traced, Settled, Decided
<1>2. CopiesMove(f)
  BY CopiesStep
<1>3. ASSUME NEW d \in Downloader, Land(d), call[d].file = f
      PROVE  FALSE
  BY <1>1, <1>3 DEF Land, InCall, Traced, Absent, Caller
<1>4. ASSUME NEW w \in Worker, Inspect(w), job[w].file = f, job[w].path = "managed"
      PROVE  FALSE
  BY <1>1, <1>4 DEF Inspect, At, Holds, Holding
<1>5. ASSUME NEW w \in Worker, Evaluate(w), job[w].file = f, report[f] # job[w].path
      PROVE  FALSE
  BY <1>1, <1>5 DEF Evaluate, At, Holds, Holding
<1> QED BY <1>2, <1>3, <1>4, <1>5 DEF CopiesMove

LEMMA SettledStep ==
  ASSUME TypeInv, Holds, Lists, Awaited, [Next]_vars, NEW f \in File, Traced(f), FirstFetch(f)
  PROVE  Settled(f)'
<1> SUFFICES ASSUME report'[f] \in Decided
             PROVE  VerifiedAt(f, report[f])' /\ copies'[f] = {report'[f]}
  BY DEF Settled
<1>1. CASE report'[f] = report[f]
  <2> DEFINE p == report[f]
  <2>1. /\ copies[f] = {p} /\ p # "managed" /\ copies'[f] = {p} /\ VerifiedAt(f, p)
        /\ p \in Decided
    BY <1>1, SettledCopies DEF Traced, Settled, Decided
  <2>2. ~ \E d \in Downloader : Fetch(d, f)
    BY <2>1 DEF FirstFetch
  <2>3. \A w \in Worker : Vouched(f, w) => job[w].path = p
    BY <2>1 DEF Vouched, Holds, Holding
  <2>4. \A w \in Worker : ~Condemned(f, w)
    BY <2>1 DEF Condemned, Traced, Knows
  <2>5. VerifiedAt(f, p)'
    <3>1. PICK q : q = p
      OBVIOUS
    <3>2. VerifiedAt(f, q)'
      BY <2>1, <2>2, <2>3, <2>4, <3>1, VerifiedStays
    <3> QED BY <1>1, <3>1, <3>2 DEF VerifiedAt, Verified, Status
  <2> QED BY <1>1, <2>1, <2>5
<1>2. ASSUME NEW w \in Worker, Report(w), job[w].file = f, report'[f] = job[w].verdict
      PROVE  VerifiedAt(f, report[f])' /\ copies'[f] = {report'[f]}
  <2>1. VerifiedAt(f, job[w].path) /\ job[w].path = job[w].verdict
    BY <1>2 DEF Report, At, Traced, Knows
  <2>2. copies[f] = {job[w].path}
    BY <1>2, HolderOfOne DEF Report, At, Holding
  <2>3. UNCHANGED <<copies, ledger>>
    BY <1>2 DEF Report
  <2> QED BY <1>2, <2>1, <2>2, <2>3 DEF VerifiedAt, Verified, Status
<1> QED BY <1>1, <1>2, ReportStep

LEMMA OneCopyStep ==
  ASSUME TypeInv, Holds, [Next]_vars, NEW f \in File, Traced(f)
  PROVE  OneCopy(f)'
<1>1. CopiesMove(f)
  BY CopiesStep
<1>2. ASSUME NEW d \in Downloader, Land(d), call[d].file = f,
             copies'[f] = copies[f] \cup {"managed"}
      PROVE  OneCopy(f)'
  BY <1>2 DEF Land, InCall, Traced, Absent, Caller, OneCopy
<1>3. ASSUME NEW w \in Worker, Inspect(w), job[w].file = f,
             copies'[f] = copies[f] \ {"managed"}
      PROVE  OneCopy(f)'
  BY <1>3 DEF Traced, OneCopy
<1>4. ASSUME NEW w \in Worker, Evaluate(w), job[w].file = f, NEW v,
             copies'[f] = (copies[f] \ {job[w].path}) \cup {v}
      PROVE  OneCopy(f)'
  <2>1. copies[f] = {job[w].path}
    BY <1>4, HolderOfOne DEF Evaluate, At, Holding
  <2> QED BY <1>4, <2>1 DEF OneCopy
<1> QED BY <1>1, <1>2, <1>3, <1>4 DEF CopiesMove, Traced, OneCopy

LEMMA AbsentStep ==
  ASSUME TypeInv, Holds, Awaited, [Next]_vars, NEW f \in File, Traced(f), FirstFetch(f)
  PROVE  Absent(f)'
<1> SUFFICES ASSUME NEW c \in Caller, call'[c].file = f, call'[c].step = "land"
             PROVE  copies'[f] = {}
  BY DEF Absent
<1>1. CASE call'[c] = call[c]
  <2>1. copies[f] = {}
    BY <1>1 DEF Traced, Absent
  <2>2. CopiesMove(f)
    BY CopiesStep
  <2>3. ASSUME NEW d \in Downloader, Land(d), call[d].file = f
        PROVE  FALSE
    <3>1. d \in Caller /\ call[d].step = "land" /\ call'[d].step = "record"
      BY <2>3 DEF Land, InCall, CallGoes, TypeInv, CallsOK, CallType, Caller
    <3>2. d # c
      BY <3>1
    <3> QED BY <1>1, <2>3, <3>1, <3>2 DEF Awaited
  <2>4. ASSUME NEW w \in Worker, Inspect(w) \/ Evaluate(w), job[w].file = f
        PROVE  FALSE
    BY <2>1, <2>4 DEF Inspect, Evaluate, At, Holds, Holding
  <2> QED BY <2>1, <2>2, <2>3, <2>4 DEF CopiesMove
<1>2. ASSUME c \in Downloader, NEW g \in File, Fetch(c, g), call'[c].file = g
      PROVE  copies'[f] = {}
  <2>1. f = g /\ UNCHANGED copies
    BY <1>2 DEF Fetch, disk
  <2> QED BY <1>2, <2>1 DEF FirstFetch
<1> QED BY <1>1, <1>2, LandingCalls

LEMMA KnowsStep ==
  ASSUME TypeInv, Apart, Holds, Lists, [Next]_vars, NEW f \in File, Traced(f), FirstFetch(f),
         NEW w \in Worker, job'[w].file = f
  PROVE  Knows(f, w)'
<1>0. /\ LedgerOK /\ "PENDING" \notin Decided /\ NoJob.step = "idle"
      /\ job[w].step # "idle" <=> job[w].file # 0
      /\ f # 0
  BY DEF TypeInv, Decided, NoJob, JobsOK, JobFits
<1> DEFINE Sure(p) == /\ ledger'[f].status = "COMPLETED" /\ ledger'[f].integrity = "VALID"
                      /\ ledger'[f].path = p /\ p \in copies'[f]
<1>1. ASSUME Sure(job'[w].path)
      PROVE  VerifiedAt(f, job[w].path)'
  BY <1>1 DEF VerifiedAt, Verified, Status
<1>2. ASSUME VerifiedAt(f, job[w].path), ledger'[f] = ledger[f], copies'[f] = copies[f]
      PROVE  Sure(job[w].path)
  BY <1>2 DEF VerifiedAt, Verified, Status
\* A proof that the step of another leaves alone, or this worker's own step
\* that does not vouch for the bytes.
<1>3. ASSUME VerifiedAt(f, job[w].path), job[w].file = f,
             job[w].step \in {"run", "hash", "report"} \/
               (job[w].step = "evaluate" /\ ~Evaluate(w))
      PROVE  Sure(job[w].path)
  <2> DEFINE p == job[w].path
  <2>1. p \in copies[f] /\ copies[f] = {p}
    BY <1>3, HolderOfOne DEF Holds, Holding
  <2>2. ASSUME NEW u \in Worker, job[u].file = f
        PROVE  u = w
    BY <1>3, <2>2, OneHolder
  <2>3. p \in copies'[f]
    <3>1. CopiesMove(f)
      BY CopiesStep
    <3>2. ASSUME NEW u \in Worker, Inspect(u) \/ Evaluate(u), job[u].file = f
          PROVE  FALSE
      <4>1. u = w
        BY <2>2, <3>2
      <4> QED BY <1>3, <3>2, <4>1 DEF Inspect, At, Evaluate
    <3> QED BY <2>1, <3>1, <3>2 DEF CopiesMove
  <2>4. ~ \E d \in Downloader : Fetch(d, f)
    BY <2>1 DEF FirstFetch
  <2>5. \A u \in Worker : ~Vouched(f, u) /\ ~Condemned(f, u)
    BY <1>3, <2>2 DEF Vouched, Condemned
  <2>6. PICK q : q = p
    OBVIOUS
  <2>7. VerifiedAt(f, q)'
    BY <1>3, <2>1, <2>3, <2>4, <2>5, <2>6, VerifiedStays
  <2> QED BY <2>6, <2>7 DEF VerifiedAt, Verified, Status
<1>4. CASE job'[w] = job[w] /\ ~JobStep(w)
  <2>1. Knows(f, w) /\ job[w].file = f
    BY <1>4 DEF Traced
  <2>2. ASSUME job[w].step \in {"run", "hash", "evaluate"} \/
                 (job[w].step = "report" /\ job[w].verdict \in Decided)
        PROVE  VerifiedAt(f, job[w].path)'
    BY <1>1, <1>3, <1>4, <2>1, <2>2 DEF Knows, JobStep
  <2>3. ASSUME job[w].step = "discard" \/ (job[w].step = "report" /\ job[w].verdict \notin Decided)
        PROVE  report'[f] \notin Decided
    <3>1. ASSUME NEW u \in Worker, Report(u), job[u].file = f
          PROVE  FALSE
      <4>1. u = w
        BY <2>1, <2>3, <3>1, OneHolder
      <4> QED BY <1>4, <3>1, <4>1 DEF JobStep
    <3> QED BY <2>1, <2>3, <3>1, ReportStep DEF Knows
  <2> QED BY <1>4, <2>1, <2>2, <2>3 DEF Knows
<1>5. CASE job'[w] = NoJob
  BY <1>0, <1>5 DEF NoJob
<1>6. CASE JobMoves(w)
  <2> USE DEF Proceeds, Stays, KeepsPath, Keeps
  <2>1. CASE OpenMoves(w)
    <3>1. UNCHANGED <<ledger, copies>> /\ job[w].file = f
      BY <2>1 DEF OpenMoves, Open, disk
    <3>2. CASE job'[w].step = "run" /\ VerifiedAt(f, job'[w].path)
      <4>1. Sure(job'[w].path)
        BY <3>1, <3>2 DEF VerifiedAt, Verified, Status
      <4> QED BY <1>1, <3>2, <4>1 DEF Knows
    <3> QED BY <2>1, <3>1, <3>2 DEF OpenMoves, Knows
  <2>2. CASE InspectMoves(w)
    <3>1. job[w].file = f /\ job[w].path \in copies[f] /\ copies[f] = {job[w].path}
          /\ report' = report /\ job'[w].path = job[w].path
      <4>1. job[w].file = f /\ job[w].step = "inspect" /\ report' = report
            /\ job'[w].path = job[w].path
        BY <2>2 DEF InspectMoves, Inspect, At
      <4> QED BY <4>1, HolderOfOne DEF Holds, Holding
    <3>2. CASE /\ job'[w].step = "run" /\ UNCHANGED copies
               /\ Certify(f, job[w].path, "PENDING")
      <4>1. Sure(job'[w].path)
        <5>1. ledger'[f] = Certified(f, job[w].path, "PENDING")
          BY <1>0, <3>2 DEF Certify, LedgerOK
        <5>2. ledger[f] \in Entry
          BY <1>0 DEF LedgerOK
        <5>3. ledger'[f].status = "COMPLETED" /\ ledger'[f].integrity = "VALID"
              /\ ledger'[f].path = job[w].path
          BY <5>1, <5>2 DEF Certified, Entry
        <5> QED BY <3>1, <3>2, <5>3
      <4> QED BY <1>1, <3>2, <4>1 DEF Knows
    <3>3. CASE job'[w].step = "discard" /\ job[w].path = "managed"
      <4>1. report[f] \notin Decided
        BY <3>1, <3>3 DEF Traced, Settled, Decided
      <4> QED BY <3>1, <3>3, <4>1 DEF Knows
    <3> QED BY <2>2, <3>1, <3>2, <3>3 DEF InspectMoves, Knows
  <2>3. CASE HashMoves(w)
    <3>1. /\ job[w].file = f /\ job[w].step = "hash" /\ job'[w].path = job[w].path
          /\ job'[w].step \in {"evaluate", "inherit"}
      BY <2>3 DEF HashMoves, Hash, At
    <3>2. VerifiedAt(f, job[w].path)
      BY <3>1 DEF Traced, Knows
    <3> QED BY <1>1, <1>3, <3>1, <3>2 DEF Knows
  <2>4. CASE EvaluateMoves(w)
    <3>1. /\ job[w].file = f /\ job[w].step = "evaluate" /\ UNCHANGED ledger
          /\ job'[w].step \in {"confirm", "report", "relocate", "error"}
      BY <2>4 DEF EvaluateMoves, Evaluate, At
    <3>2. VerifiedAt(f, job[w].path)
      BY <3>1 DEF Traced, Knows
    <3>3. ASSUME job'[w].step = "report", job'[w].verdict \in Decided
          PROVE  VerifiedAt(f, job[w].path)' /\ job'[w].path = job'[w].verdict
      <4>1. /\ job'[w].path = job'[w].verdict /\ job[w].path = job'[w].verdict
            /\ copies' = [copies EXCEPT ![f] = (@ \ {job[w].path}) \cup {job'[w].verdict}]
        BY <1>0, <2>4, <3>1, <3>3 DEF EvaluateMoves
      <4>2. job[w].path \in copies'[f]
        BY <4>1 DEF TypeInv, DiskOK
      <4>3. Sure(job'[w].path)
        BY <3>1, <3>2, <4>1, <4>2 DEF VerifiedAt, Verified, Status
      <4> QED BY <1>1, <4>1, <4>3
    <3>4. job'[w].step = "relocate" => /\ job'[w].path = job'[w].verdict
                                       /\ job'[w].verdict \in Decided
      BY <2>4 DEF EvaluateMoves
    <3>5. ASSUME job'[w].step = "report", job'[w].verdict \notin Decided
          PROVE  report'[f] \notin Decided
      <4>1. report[f] # job[w].path /\ report' = report
        BY <2>4, <3>1, <3>5 DEF EvaluateMoves, Evaluate
      <4>2. copies[f] = {job[w].path}
        BY <3>1, HolderOfOne DEF Holding
      <4> QED BY <4>1, <4>2 DEF Traced, Settled
    <3> QED BY <3>1, <3>3, <3>4, <3>5 DEF Knows
  <2>5. CASE Run(w) /\ Proceeds(w, "hash")
    <3>1. job[w].file = f /\ job[w].step = "run" /\ job'[w].path = job[w].path
      BY <2>5 DEF Run, At
    <3>2. VerifiedAt(f, job[w].path)
      BY <3>1 DEF Traced, Knows
    <3> QED BY <1>1, <1>3, <2>5, <3>1, <3>2 DEF Knows
  <2>6. CASE Relocate(w) /\ Proceeds(w, "report")
    <3>1. /\ job[w].file = f /\ job[w].step = "relocate" /\ job'[w].path = job[w].path
          /\ job'[w].verdict = job[w].verdict /\ job[w].path = job[w].verdict
          /\ job[w].verdict \in Decided
          /\ UNCHANGED copies /\ Certify(f, job[w].path, Validation(f))
      BY <2>6 DEF Relocate, At, disk, Traced, Knows
    <3>2. Sure(job'[w].path)
      <4>1. ledger'[f] = Certified(f, job[w].path, Validation(f)) /\ ledger[f] \in Entry
        BY <1>0, <3>1 DEF Certify, LedgerOK
      <4>2. ledger'[f].status = "COMPLETED" /\ ledger'[f].integrity = "VALID"
            /\ ledger'[f].path = job[w].path
        <5> DEFINE v == Validation(f)
        <5> HIDE DEF v
        <5>1. ledger'[f] = Certified(f, job[w].path, v)
          BY <4>1 DEF v
        <5> QED BY <4>1, <5>1 DEF Certified, Entry
      <4>3. job[w].path \in copies[f]
        BY <3>1 DEF Holds, Holding
      <4> QED BY <3>1, <4>2, <4>3
    <3> QED BY <1>1, <2>6, <3>1, <3>2 DEF Knows
  <2>7. CASE Expire(w) /\ Proceeds(w, job[w].step)
    <3>1. UNCHANGED <<ledger, copies, report>> /\ Knows(f, w)
      BY <2>7 DEF Expire, disk, Traced
    <3>2. ASSUME VerifiedAt(f, job[w].path)
          PROVE  VerifiedAt(f, job[w].path)'
      BY <1>1, <1>2, <2>7, <3>1, <3>2
    <3> QED BY <2>7, <3>1, <3>2 DEF Knows
  <2>8. CASE \/ job'[w].step \in {"open", "idle", "inspect", "confirm", "propagate", "leave"}
             \/ ReportMoves(w) \/ PropagateMoves(w) \/ CopyMoves(w)
    BY <2>8 DEF ReportMoves, PropagateMoves, CopyMoves, Knows
  <2> QED BY <1>6, <2>1, <2>2, <2>3, <2>4, <2>5, <2>6, <2>7, <2>8 DEF JobMoves
<1> QED BY <1>4, <1>5, <1>6, WhoseStep

TracedInv == \A f \in File \ again : Traced(f)

LEMMA TracedStep ==
  /\ TypeInv /\ Apart /\ Holds /\ Lists /\ Awaited /\ TracedInv /\ [HistNext]_histVars
  => TracedInv'
<1> SUFFICES ASSUME TypeInv, Apart, Holds, Lists, Awaited, TracedInv, [HistNext]_histVars,
                    NEW f \in File, f \notin again'
             PROVE  Traced(f)'
  BY DEF TracedInv
<1>1. [Next]_vars
  BY DEF HistNext, histVars
<1>2. Traced(f)
  BY DEF TracedInv, HistNext, histVars
<1>3. FirstFetch(f)
  <2>1. CASE HistNext
    BY <2>1 DEF HistNext, FetchedAgain, FirstFetch
  <2>2. CASE UNCHANGED histVars
    BY <2>2 DEF histVars, vars, run, FirstFetch, Fetch
  <2> QED BY <2>1, <2>2
<1>4. Settled(f)' /\ OneCopy(f)' /\ Absent(f)'
  BY <1>1, <1>2, <1>3, SettledStep, OneCopyStep, AbsentStep
<1>5. \A w \in Worker : job'[w].file = f => Knows(f, w)'
  BY <1>1, <1>2, <1>3, KnowsStep
<1> QED BY <1>4, <1>5 DEF Traced

HistInv == SoundInv /\ Waits /\ TracedInv

LEMMA HistInvInit == HistInit => HistInv
<1> SUFFICES ASSUME HistInit PROVE HistInv
  OBVIOUS
<1>1. Init /\ SoundInv
  BY SoundInvInit DEF HistInit
<1>2. Waits
  BY <1>1 DEF Init, Waits, Validation, NoJob
<1>3. TracedInv
  BY <1>1 DEF Init, TracedInv, Traced, Settled, OneCopy, Absent, Knows, NoJob, Decided
<1> QED BY <1>1, <1>2, <1>3 DEF HistInv

LEMMA HistInvStep == HistInv /\ [HistNext]_histVars => HistInv'
<1> SUFFICES ASSUME HistInv, [HistNext]_histVars PROVE HistInv'
  OBVIOUS
<1>1. [Next]_vars
  BY DEF HistNext, histVars
<1>2. SoundInv' /\ Waits'
  BY <1>1, SoundInvStep, WaitsStep DEF HistInv, SoundInv
<1>3. TracedInv'
  BY TracedStep DEF HistInv, SoundInv
<1> QED BY <1>2, <1>3 DEF HistInv

\* A verdict that was reported is in the ledger, or the entry is one that the
\* next run restores and finds, unless the file was transferred once more while
\* its bytes were here: whatever timers, late callers and errors write over the
\* entry, and wherever the program stops.
THEOREM NoVerdictLost == HistSpec => []VerdictNotLost
<1>1. HistInv => VerdictNotLost
  <2> SUFFICES ASSUME HistInv, NEW f \in File, f \notin again, report[f] \in Decided,
                      Validation(f) \notin Decided
               PROVE  Restorable(f) /\ Located(f)
    BY DEF VerdictNotLost
  <2>1. VerifiedAt(f, report[f]) /\ copies[f] = {report[f]} /\ "managed" \notin Decided
    BY DEF HistInv, TracedInv, Traced, Settled, Decided
  <2>2. Validation(f) # "DUPLICATE_PENDING"
    BY <2>1 DEF HistInv, Waits
  <2> QED BY <2>1, <2>2 DEF VerifiedAt, Verified, Restorable, Located, Destination
<1> QED BY <1>1, HistInvInit, HistInvStep, PTL DEF HistSpec

-----------------------------------------------------------------------------
\* A verdict belongs to the bytes.

LEMMA SameBytesClasses ==
  /\ \A f \in File : SameBytes(f, f)
  /\ \A f, g \in File : SameBytes(f, g) => SameBytes(g, f)
  /\ \A f, g, h \in File : SameBytes(f, g) /\ SameBytes(g, h) => SameBytes(f, h)
BY DEF SameBytes

\* What is recorded, and what is listed, as a duplicate is one.
Twinned ==
  /\ \A f \in File : ledger[f].duplicate_of # 0 => SameBytes(f, ledger[f].duplicate_of)
  /\ \A w \in Worker : job[w].step = "copy" =>
       \A g \in job[w].listed : SameBytes(job[w].file, g)

LEMMA TwinnedStep == TypeInv /\ Lists /\ Twinned /\ [Next]_vars => Twinned'
<1> SUFFICES ASSUME TypeInv, Lists, Twinned, [Next]_vars PROVE Twinned'
  OBVIOUS
<1>1. ASSUME NEW f \in File, ledger'[f].duplicate_of # 0
      PROVE  SameBytes(f, ledger'[f].duplicate_of)
  <2>1. EntryMoves(f)
    BY EntryStep
  <2>2. ledger'[f].duplicate_of = ledger[f].duplicate_of \/ ledger'[f].duplicate_of \in Matches(f)
    BY <1>1, <2>1 DEF EntryMoves, Written, SameProof, LostProof, Vouched, Condemned, Hashed,
                      Refetched, Renewed, Reviewed
  <2> QED BY <1>1, <2>2 DEF Matches, Twinned
<1>2. ASSUME NEW w \in Worker, job'[w].step = "copy", NEW g \in job'[w].listed
      PROVE  SameBytes(job'[w].file, g)
  <2>1. CASE job'[w] = job[w]
    BY <1>2, <2>1 DEF Twinned
  <2>2. CASE job'[w] = NoJob
    BY <1>2, <2>2 DEF NoJob
  <2>3. CASE PropagateMoves(w)
    <3> DEFINE f == job[w].file
    <3>1. f \in File /\ f # 0
      BY <2>3 DEF PropagateMoves, Propagate, At, TypeInv, JobsOK, JobFits, JobType
    <3>2. job'[w].file = f /\ g \in Waiting(f)
      BY <1>2, <2>3 DEF PropagateMoves, KeepsPath, Keeps
    <3>3. g \in File /\ SameBytes(g, f)
      BY <3>1, <3>2 DEF Waiting, Twinned
    <3> QED BY <3>1, <3>2, <3>3, SameBytesClasses
  <2>4. CASE CopyMoves(w)
    BY <1>2, <2>4 DEF CopyMoves, Copy, At, KeepsPath, Keeps, Twinned
  <2>5. CASE Proceeds(w, job[w].step)
    BY <1>2, <2>5 DEF Proceeds, Stays, KeepsPath, Keeps, Twinned
  <2>6. CASE JobMoves(w)
    BY <1>2, <2>3, <2>4, <2>5, <2>6
       DEF JobMoves, Proceeds, OpenMoves, InspectMoves, HashMoves, EvaluateMoves, ReportMoves
  <2> QED BY <2>1, <2>2, <2>6, WhoseStep
<1> QED BY <1>1, <1>2 DEF Twinned

\* No file with the bytes of f was fetched again.
Unmixed(f) == \A g \in File : SameBytes(f, g) => g \notin again
Given(f, v) == \E g \in File : SameBytes(f, g) /\ report[g] = v

Awarded(f, w) ==
  /\ job[w].step = "inherit" /\ job[w].verdict \in Decided => Given(f, job[w].verdict)
  /\ job[w].step \in {"verdict", "confirm", "propagate", "copy"} /\ job[w].verdict \in Decided =>
       report[f] = job[w].verdict
Awards(f) == /\ Validation(f) \in Decided => Given(f, Validation(f))
             /\ \A w \in Worker : job[w].file = f => Awarded(f, w)
AwardsInv == \A f \in File : Unmixed(f) => Awards(f)

\* A report of a copy that was not mixed with another stays.
LEMMA ReportStays ==
  ASSUME TypeInv, Holds, [Next]_vars, NEW f \in File, Traced(f), report[f] \in Decided
  PROVE  report'[f] = report[f]
<1>1. ASSUME NEW w \in Worker, Report(w), job[w].file = f
      PROVE  job[w].verdict = report[f]
  <2>1. job[w].step = "report" /\ job[w].verdict \in Decided
    BY <1>1 DEF Report, At, Traced, Knows
  <2>2. job[w].path = job[w].verdict /\ copies[f] = {job[w].path}
    BY <1>1, <2>1, HolderOfOne DEF Traced, Knows, Holding
  <2> QED BY <2>2 DEF Traced, Settled
<1> QED BY <1>1, ReportStep

LEMMA GivenStays ==
  ASSUME TypeInv, Holds, [Next]_vars, TracedInv, NEW f \in File, Unmixed(f),
         NEW v \in Decided, Given(f, v)
  PROVE  Given(f, v)'
<1>1. PICK g \in File : SameBytes(f, g) /\ report[g] = v
  BY DEF Given
<1>2. report'[g] = v
  BY <1>1, ReportStays DEF Unmixed, TracedInv
<1> QED BY <1>1, <1>2 DEF Given

LEMMA AwardsStep ==
  /\ TypeInv /\ Apart /\ Holds /\ Lists /\ Waits /\ Twinned /\ TracedInv /\ AwardsInv
  /\ [HistNext]_histVars
  => AwardsInv'
<1> SUFFICES ASSUME TypeInv, Apart, Holds, Lists, Waits, Twinned, TracedInv, AwardsInv,
                    [HistNext]_histVars, NEW f \in File, Unmixed(f)'
             PROVE  Awards(f)'
  BY DEF AwardsInv
<1>1. [Next]_vars /\ again \subseteq again'
  BY DEF HistNext, histVars
<1>2. ASSUME NEW g \in File, SameBytes(f, g)
      PROVE  Unmixed(g) /\ Awards(g) /\ Traced(g)
  <2>1. Unmixed(g)
    BY <1>1, <1>2, SameBytesClasses DEF Unmixed
  <2>2. g \notin again
    BY <1>1, <1>2 DEF Unmixed
  <2> QED BY <2>1, <2>2 DEF AwardsInv, TracedInv
<1>3. Unmixed(f) /\ Awards(f) /\ Traced(f)
  BY <1>2, SameBytesClasses
<1>4. ASSUME NEW v \in Decided, Given(f, v)
      PROVE  Given(f, v)'
  BY <1>1, <1>3, <1>4, GivenStays
<1>0. /\ "PENDING" \notin Decided /\ "QUEUED" \notin Decided /\ "RUNNING" \notin Decided
      /\ "DUPLICATE_PENDING" \notin Decided
      /\ \A w \in Worker : job[w].step # "idle" => job[w].file \in File
  BY DEF Decided, TypeInv, JobsOK, JobFits, JobType
<1>5. ASSUME ledger'[f].validation \in Decided
      PROVE  \E g \in File : SameBytes(f, g) /\ report'[g] = ledger'[f].validation
  <2> DEFINE v == ledger'[f].validation
  <2>1. ASSUME Given(f, v)
        PROVE  \E g \in File : SameBytes(f, g) /\ report'[g] = v
    <3>1. PICK u \in Decided : u = v
      BY <1>5
    <3>2. Given(f, u)'
      BY <1>4, <2>1, <3>1
    <3> HIDE DEF v
    <3> QED BY <3>1, <3>2 DEF Given
  <2>2. Given(f, v)
    <3>1. EntryMoves(f)
      BY <1>1, EntryStep
    <3>2. CASE v = Validation(f)
      BY <1>3, <1>5, <3>2 DEF Awards
    <3>3. CASE Written(f)
      <4>1. CASE \E w \in Worker : /\ job[w].verdict = v
                                   /\ \/ job[w].step \in {"inherit", "confirm"} /\ job[w].file = f
                                      \/ job[w].step = "copy" /\ f \in job[w].listed
        <5>1. PICK w \in Worker : /\ job[w].verdict = v
                                  /\ \/ job[w].step \in {"inherit", "confirm"} /\ job[w].file = f
                                     \/ job[w].step = "copy" /\ f \in job[w].listed
          BY <4>1
        <5>2. CASE job[w].step = "inherit" /\ job[w].file = f
          BY <1>3, <1>5, <5>1, <5>2 DEF Awards, Awarded
        <5>3. CASE job[w].step = "confirm" /\ job[w].file = f
          BY <1>3, <1>5, <5>1, <5>3, SameBytesClasses DEF Awards, Awarded, Given
        <5>4. CASE job[w].step = "copy" /\ f \in job[w].listed
          <6>1. job[w].file \in File /\ SameBytes(job[w].file, f)
            BY <1>0, <5>4 DEF Twinned
          <6>2. SameBytes(f, job[w].file)
            BY <6>1, SameBytesClasses
          <6>3. report[job[w].file] = v
            BY <1>2, <1>5, <5>1, <5>4, <6>1, <6>2 DEF Awards, Awarded
          <6> QED BY <6>1, <6>2, <6>3 DEF Given
        <5> QED BY <5>1, <5>2, <5>3, <5>4
      <4> QED BY <1>0, <1>5, <3>2, <3>3, <4>1 DEF Written, Says
    <3>4. ASSUME NEW w \in Worker, Vouched(f, w)
          PROVE  Given(f, v)
      <4>1. CASE job[w].step = "verdict" /\ v = job[w].verdict
        BY <1>3, <1>5, <3>4, <4>1, SameBytesClasses DEF Vouched, Awards, Awarded, Given
      <4> QED BY <1>0, <1>5, <3>2, <3>4, <4>1 DEF Vouched
    <3> QED BY <1>0, <1>5, <3>1, <3>2, <3>3, <3>4
            DEF EntryMoves, Condemned, Hashed, Refetched, Renewed, Reviewed, Validation
  <2> QED BY <2>1, <2>2
<1>6. ASSUME NEW w \in Worker, job'[w].file = f
      PROVE  Awarded(f, w)'
  <2>1. CASE job'[w] = job[w]
    <3>1. job[w].file = f
      BY <1>6, <2>1
    <3>2. ASSUME job'[w].step = "inherit", job'[w].verdict \in Decided
          PROVE  \E g \in File : SameBytes(f, g) /\ report'[g] = job'[w].verdict
      <4>1. Given(f, job[w].verdict)
        BY <1>3, <2>1, <3>1, <3>2 DEF Awards, Awarded
      <4> QED BY <1>4, <2>1, <3>2, <4>1 DEF Given
    <3>3. ASSUME job'[w].step \in {"verdict", "confirm", "propagate", "copy"},
                 job'[w].verdict \in Decided
          PROVE  report'[f] = job'[w].verdict
      BY <1>1, <1>3, <2>1, <3>1, <3>3, ReportStays DEF Awards, Awarded
    <3> QED BY <3>2, <3>3 DEF Awarded, Given
  <2>2. CASE job'[w] = NoJob
    BY <2>2 DEF NoJob, Awarded
  <2>3. CASE JobMoves(w)
    <3>1. CASE HashMoves(w)
      <4>1. ASSUME job'[w].step = "inherit", job'[w].verdict \in Decided
            PROVE  \E g \in File : SameBytes(f, g) /\ report'[g] = job'[w].verdict
        <5> DEFINE g == First(Matches(f))
        <5>1. job[w].file = f /\ Matches(f) # {} /\ job'[w].verdict = Inherited(g)
          BY <1>6, <3>1, <4>1 DEF HashMoves, KeepsPath, Keeps
        <5>2. g \in Matches(f)
          BY <5>1, FirstIsLeast DEF Matches
        <5>3. g \in File /\ SameBytes(f, g)
          BY <5>2 DEF Matches
        <5>4. job'[w].verdict = Validation(g)
          BY <1>0, <4>1, <5>1 DEF Inherited
        <5>5. Given(g, job'[w].verdict)
          BY <1>2, <4>1, <5>3, <5>4 DEF Awards
        <5>6. Given(f, job'[w].verdict)
          BY <5>3, <5>5, SameBytesClasses DEF Given
        <5> HIDE DEF g
        <5> QED BY <1>4, <4>1, <5>6 DEF Given
      <4>2. job'[w].step \in {"evaluate", "inherit"}
        BY <3>1 DEF HashMoves
      <4> QED BY <4>1, <4>2 DEF Awarded, Given
    <3>2. CASE EvaluateMoves(w)
      <4>1. ASSUME job'[w].step = "confirm", job'[w].verdict \in Decided
            PROVE  report'[f] = job'[w].verdict
        <5>1. job[w].file = f /\ report[f] = job'[w].verdict
          BY <1>6, <3>2, <4>1 DEF EvaluateMoves, Keeps
        <5> QED BY <1>1, <1>3, <4>1, <5>1, ReportStays
      <4>2. job'[w].step \in {"confirm", "report", "relocate", "error"}
        BY <3>2 DEF EvaluateMoves
      <4> QED BY <4>1, <4>2 DEF Awarded
    <3>3. CASE ReportMoves(w)
      <4>1. job[w].file = f /\ job'[w].verdict = job[w].verdict
        BY <1>6, <3>3 DEF ReportMoves, Stays, KeepsPath, Keeps
      <4>2. job'[w].step = "verdict" => report'[f] = job'[w].verdict
        BY <3>3, <4>1 DEF ReportMoves, TypeInv, DiskOK
      <4>3. job'[w].step \in {"verdict", "error"}
        BY <3>3 DEF ReportMoves
      <4> QED BY <4>2, <4>3 DEF Awarded
    <3>4. CASE \/ PropagateMoves(w) \/ CopyMoves(w)
               \/ Verdict(w) /\ Proceeds(w, "confirm")
               \/ Confirm(w) /\ Proceeds(w, "propagate")
      <4>1. /\ job[w].file = f /\ job'[w].verdict = job[w].verdict
            /\ job[w].step \in {"propagate", "copy", "verdict", "confirm"}
            /\ job'[w].step # "inherit"
        BY <1>6, <3>4 DEF PropagateMoves, CopyMoves, Proceeds, Stays, KeepsPath, Keeps, Propagate,
                          Copy, Verdict, Confirm, At
      <4>2. job'[w].verdict \in Decided => report'[f] = job'[w].verdict
        BY <1>1, <1>3, <4>1, ReportStays DEF Awards, Awarded
      <4> QED BY <4>1, <4>2 DEF Awarded
    <3>5. CASE Expire(w) /\ Proceeds(w, job[w].step)
      <4>1. /\ job[w].file = f /\ job'[w].verdict = job[w].verdict
            /\ job'[w].step = job[w].step
        BY <1>6, <3>5 DEF Proceeds, Stays, KeepsPath, Keeps
      <4>2. ASSUME job'[w].step = "inherit", job'[w].verdict \in Decided
            PROVE  \E g \in File : SameBytes(f, g) /\ report'[g] = job'[w].verdict
        <5>1. Given(f, job[w].verdict)
          BY <1>3, <4>1, <4>2 DEF Awards, Awarded
        <5> QED BY <1>4, <4>1, <4>2, <5>1 DEF Given
      <4>3. ASSUME job'[w].step \in {"verdict", "confirm", "propagate", "copy"},
                   job'[w].verdict \in Decided
            PROVE  report'[f] = job'[w].verdict
        BY <1>1, <1>3, <4>1, <4>3, ReportStays DEF Awards, Awarded
      <4> QED BY <4>2, <4>3 DEF Awarded, Given
    <3>6. CASE job'[w].step \notin {"inherit", "verdict", "confirm", "propagate", "copy"}
      BY <3>6 DEF Awarded
    <3> QED BY <2>3, <3>1, <3>2, <3>3, <3>4, <3>5, <3>6
            DEF JobMoves, Proceeds, OpenMoves, InspectMoves
  <2> QED BY <1>1, <2>1, <2>2, <2>3, WhoseStep
<1> QED BY <1>5, <1>6 DEF Awards, Given, Validation

BytesInv == HistInv /\ Twinned /\ AwardsInv

LEMMA BytesInvInit == HistInit => BytesInv
<1> SUFFICES ASSUME HistInit PROVE BytesInv
  OBVIOUS
<1>1. HistInv
  BY HistInvInit
<1>2. Twinned
  BY DEF HistInit, Init, Twinned, NoJob
<1>3. AwardsInv
  BY DEF HistInit, Init, AwardsInv, Awards, Awarded, Validation, NoJob, Decided
<1> QED BY <1>1, <1>2, <1>3 DEF BytesInv

LEMMA BytesInvStep == BytesInv /\ [HistNext]_histVars => BytesInv'
<1> SUFFICES ASSUME BytesInv, [HistNext]_histVars PROVE BytesInv'
  OBVIOUS
<1>1. [Next]_vars
  BY DEF HistNext, histVars
<1>2. HistInv'
  BY HistInvStep DEF BytesInv
<1>3. Twinned'
  BY <1>1, TwinnedStep DEF BytesInv, HistInv, SoundInv
<1>4. AwardsInv'
  BY AwardsStep DEF BytesInv, HistInv, SoundInv
<1> QED BY <1>2, <1>3, <1>4 DEF BytesInv

\* A verdict in the ledger, inherited or not, was given to the same bytes when no
\* file with these bytes was transferred once more; when no file at all was, that
\* is what the run checks.
THEOREM VerdictBelongsToBytes ==
  HistSpec => [](/\ \A f \in File : Unmixed(f) /\ Validation(f) \in Decided
                                      => Given(f, Validation(f))
                 /\ again = {} => VerdictOfTheseBytes)
<1>1. BytesInv => /\ \A f \in File : Unmixed(f) /\ Validation(f) \in Decided
                                       => Given(f, Validation(f))
                  /\ again = {} => VerdictOfTheseBytes
  <2> SUFFICES ASSUME BytesInv
               PROVE  /\ \A f \in File : Unmixed(f) /\ Validation(f) \in Decided
                                           => Given(f, Validation(f))
                      /\ again = {} => VerdictOfTheseBytes
    OBVIOUS
  <2>1. \A f \in File : Unmixed(f) /\ Validation(f) \in Decided => Given(f, Validation(f))
    BY DEF BytesInv, AwardsInv, Awards
  <2>2. again = {} => \A f \in File : Unmixed(f)
    BY DEF Unmixed
  <2>3. again = {} => VerdictOfTheseBytes
    BY <2>1, <2>2 DEF VerdictOfTheseBytes, Given
  <2> QED BY <2>1, <2>3
<1> QED BY <1>1, BytesInvInit, BytesInvStep, PTL DEF HistSpec

=============================================================================
