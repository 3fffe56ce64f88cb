----------------------------- MODULE Validation -----------------------------
(***************************************************************************)
(* The Stage 2 validation pipeline of app.py in the strict mode of the     *)
(* Colab runtime (scheduler_admission): download workers and the search    *)
(* loop hand finished files to a bounded pool (BoundedWorkQueue), whose    *)
(* workers check the bytes, detect byte-identical files, evaluate the rest *)
(* and record the verdict in downloads.json, while a timer marks slow jobs *)
(* pending.  Every critical section of the ledger lock is one step; what a *)
(* thread read in an earlier section is in its local record.               *)
(*                                                                         *)
(* Left out: events, reports of undecided files, local library files, the  *)
(* PDF_INVALID verdict of the non-strict mode, a timeout of the ledger's   *)
(* process lock, and the attempt limit of the recovery scan.               *)
(***************************************************************************)
EXTENDS Integers, Sequences, FiniteSets, SequencesExt

CONSTANTS Files,        \* how many files the ledger has, in ledger order
          Twins,        \* the files whose good bytes are identical
          Damaged,      \* the files whose transfer may leave unsound bytes
          Listed,       \* the files that the result pages of a run list again
          Worker,       \* threads of the validation pool
          Downloader,   \* download workers
          Main,         \* the thread of run_scraping_pipeline
          QueueSize,    \* stage2_queue_maxsize
          MaxRuns       \* bound: runs of the program on one ledger

File == 1..Files
Caller == Downloader \cup {Main}

ASSUME ValidationAssumption ==
  /\ Files \in Nat /\ QueueSize \in Nat \ {0} /\ MaxRuns \in Nat \ {0}
  /\ Twins \subseteq File /\ Damaged \subseteq File /\ Listed \subseteq File
  /\ Main \notin Downloader

VARIABLES
  copies,   \* where bytes of a file are: managed path, approved/, rejected/
  sound,    \* whether check_pdf_integrity accepts those at the managed path
  report,   \* the last validation report, of the copy it filed
  ledger,   \* downloads.json
  queue,    \* BoundedWorkQueue._jobs
  known,    \* BoundedWorkQueue._known
  job,      \* what each pool worker is doing, with its timer
  late,     \* timers that tested the flag and have not written yet
  call,     \* what each caller of _schedule_validation is doing
  phase,    \* where the run is
  todo,     \* files the restore loop, or the search, has not reached
  admitted, \* a file of this restore pass was scheduled
  fetch,    \* files the download queue will still transfer in this run
  runs      \* runs started so far

disk == <<copies, sound, report>>
pool == <<queue, known>>
run  == <<phase, todo, admitted, fetch, runs>>
vars == <<disk, ledger, pool, job, late, call, run>>

Decided == {"APPROVED", "REJECTED"}
Verdicts == Decided \cup {"PENDING"}
Places == {"managed"} \cup Decided   \* the download directory, approved/, rejected/

\* The fields of a ledger entry that a decision of this pipeline reads.
\* WAITING stands for QUEUED and RECOVERING, RETRY for PARTIAL and
\* FAILED_FOR_ROUND; `full` is the reason written when the queue had no room.
Entry == [status : {"WAITING", "DOWNLOADING", "INTEGRITY_PENDING", "COMPLETED", "RETRY"},
          integrity : {"PENDING", "VALID", "INVALID"},
          path : Places \cup {"none"}, hashed : BOOLEAN, duplicate_of : 0..Files,
          validation : Verdicts \cup {"QUEUED", "RUNNING", "DUPLICATE_PENDING"},
          full : BOOLEAN]

JobSteps == {"idle", "open", "gate", "inspect", "discard", "run", "hash", "inherit",
             "evaluate", "relocate", "report", "verdict", "confirm",
             "propagate", "copy", "error", "leave"}
CallSteps == {"idle", "land", "record", "read", "check", "queue", "put", "refuse"}
Phases == {"restoring", "searching", "stopping", "admitting", "done", "closing", "closed"}

NoJob == [file |-> 0, step |-> "idle", path |-> "none", verdict |-> "PENDING",
          listed |-> {}, timer |-> FALSE]
NoCall == [file |-> 0, step |-> "idle"]

SameBytes(f, g) == f = g \/ {f, g} \subseteq Twins
First(S) == CHOOSE f \in S : \A g \in S : f <= g
Status(f) == ledger[f].status
Validation(f) == ledger[f].validation

-----------------------------------------------------------------------------
(* Ledger writes                                                           *)

\* verified_download: complete, structurally valid, and the recorded path
\* still holds the bytes that were checked.
Verified(f) == /\ Status(f) = "COMPLETED"
               /\ ledger[f].integrity = "VALID"
               /\ ledger[f].path \in copies[f]
VerifiedAt(f, path) == Verified(f) /\ ledger[f].path = path

\* A job or a caller looks for the bytes at the managed path and, when they
\* are not there, at the path the ledger recorded.
Destination(f) == IF "managed" \in copies[f] THEN "managed" ELSE ledger[f].path
Located(f) == Destination(f) \in copies[f]

\* An entry that loses its proof of integrity loses what was derived from it.
Unproven(e, status) == [e EXCEPT !.status = status, !.integrity = "PENDING",
                                 !.hashed = FALSE, !.duplicate_of = 0]

\* Mutants of Resolved: a late write hides an integrity failure; the requested
\* status is believed.
Resolved_OverFailure(f) ==
  IF Verified(f) THEN ledger[f] ELSE Unproven(ledger[f], "INTEGRITY_PENDING")
Resolved_Trusting(f) ==
  IF Verified(f) \/ ledger[f].integrity = "INVALID"
  THEN ledger[f] ELSE [ledger[f] EXCEPT !.status = "COMPLETED"]

\* _update_download_state(COMPLETED or INTEGRITY_PENDING) without an integrity
\* result: the status that is stored follows from the entry, not the request.
Resolved(f) == IF Verified(f) \/ ledger[f].integrity = "INVALID"
               THEN ledger[f] ELSE Unproven(ledger[f], "INTEGRITY_PENDING")
Marked(f, validation, full) ==
  [Resolved(f) EXCEPT !.validation = validation, !.full = full]
Mark(f, validation) == ledger' = [ledger EXCEPT ![f] = Marked(f, validation, FALSE)]

\* The same with integrity_status = VALID for the bytes at a path.
Certified(f, path, validation) ==
  [ledger[f] EXCEPT !.status = "COMPLETED", !.integrity = "VALID", !.path = path,
                    !.validation = validation, !.full = FALSE]
Certify(f, path, validation) ==
  ledger' = [ledger EXCEPT ![f] = Certified(f, path, validation)]

-----------------------------------------------------------------------------
(* Callers of _schedule_validation                                         *)

InCall(c, step) == call[c].step = step
CallGoes(c, step) == call' = [call EXCEPT ![c].step = step]
Returns(c, scheduled) ==
  /\ call' = [call EXCEPT ![c] = NoCall]
  /\ admitted' = (admitted \/ (c = Main /\ scheduled))
  /\ UNCHANGED <<phase, todo, fetch, runs>>

\* A download worker starts a transfer: DOWNLOADING clears the old proof.
Fetch(d, f) ==
  /\ phase = "searching" /\ InCall(d, "idle") /\ f \in fetch
  /\ call' = [call EXCEPT ![d] = [file |-> f, step |-> "land"]]
  /\ ledger' = [ledger EXCEPT ![f] = [Unproven(@, "DOWNLOADING") EXCEPT !.full = FALSE]]
  /\ fetch' = fetch \ {f}
  /\ UNCHANGED <<disk, pool, job, late, phase, todo, admitted, runs>>

\* The finished file is renamed to its managed path.
Land(d) ==
  /\ InCall(d, "land")
  /\ LET f == call[d].file IN
       /\ copies' = [copies EXCEPT ![f] = @ \cup {"managed"}]
       /\ \E good \in {TRUE, f \notin Damaged} : sound' = [sound EXCEPT ![f] = good]
  /\ CallGoes(d, "record")
  /\ UNCHANGED <<report, ledger, pool, job, late, run>>

\* The search loop meets a file whose bytes are on disk and not verified.
Rediscover(f) ==
  /\ phase = "searching" /\ InCall(Main, "idle") /\ f \in todo
  /\ "managed" \in copies[f] /\ ~VerifiedAt(f, "managed")
  /\ call' = [call EXCEPT ![Main] = [file |-> f, step |-> "record"]]
  /\ todo' = todo \ {f}
  /\ UNCHANGED <<disk, ledger, pool, job, late, phase, admitted, fetch, runs>>

\* The transfer's own status write, INTEGRITY_PENDING.
Record(c) ==
  /\ InCall(c, "record")
  /\ Mark(call[c].file, Validation(call[c].file))
  /\ CallGoes(c, "read")
  /\ UNCHANGED <<disk, pool, job, late, run>>

\* _schedule_validation: nothing to do for a missing file or a decided one.
Read(c) ==
  /\ InCall(c, "read")
  /\ LET f == call[c].file
         decided == Validation(f) \in Decided /\ VerifiedAt(f, Destination(f))
     IN IF ~Located(f) \/ decided
        THEN Returns(c, Located(f))
        ELSE CallGoes(c, "check") /\ UNCHANGED run
  /\ UNCHANGED <<disk, ledger, pool, job, late>>

\* BoundedWorkQueue.contains
Check(c) ==
  /\ InCall(c, "check")
  /\ IF call[c].file \in known THEN Returns(c, TRUE)
     ELSE CallGoes(c, "queue") /\ UNCHANGED run
  /\ UNCHANGED <<disk, ledger, pool, job, late>>

Queue(c) ==
  /\ InCall(c, "queue")
  /\ Mark(call[c].file, "QUEUED")
  /\ CallGoes(c, "put")
  /\ UNCHANGED <<disk, pool, job, late, run>>

\* Mutant of Put: the key is not looked up again.
Put_Unchecked(c) ==
  LET f == call[c].file IN
  /\ InCall(c, "put") /\ Len(queue) < QueueSize
  /\ queue' = Append(queue, f) /\ known' = known \cup {f}
  /\ Returns(c, TRUE)
  /\ UNCHANGED <<disk, ledger, job, late>>
\* BoundedWorkQueue.try_enqueue: a known key is a success, a full queue is not.
Put(c) ==
  LET f == call[c].file IN
  /\ InCall(c, "put")
  /\ \/ /\ f \in known
        /\ Returns(c, TRUE) /\ UNCHANGED pool
     \/ /\ f \notin known /\ Len(queue) < QueueSize
        /\ queue' = Append(queue, f) /\ known' = known \cup {f}
        /\ Returns(c, TRUE)
     \/ /\ f \notin known /\ Len(queue) >= QueueSize
        /\ CallGoes(c, "refuse") /\ UNCHANGED <<pool, run>>
  /\ UNCHANGED <<disk, ledger, job, late>>

Refuse(c) ==
  /\ InCall(c, "refuse")
  /\ ledger' = [ledger EXCEPT ![call[c].file] = Marked(call[c].file, "PENDING", TRUE)]
  /\ Returns(c, FALSE)
  /\ UNCHANGED <<disk, pool, job, late>>

-----------------------------------------------------------------------------
(* Pool workers: _consume and _run_validation_job                          *)

At(w, step) == job[w].step = step
Goes(w, step) == job' = [job EXCEPT ![w].step = step]

Take(w) ==
  /\ At(w, "idle") /\ queue # <<>>
  /\ job' = [job EXCEPT ![w] = [NoJob EXCEPT !.file = Head(queue), !.step = "open"]]
  /\ queue' = Tail(queue)
  /\ UNCHANGED <<disk, ledger, known, late, call, run>>

Open(w) ==
  /\ At(w, "open")
  /\ LET f == job[w].file IN
       job' = [job EXCEPT
         ![w].path = Destination(f),
         ![w].step = IF ~Located(f) THEN "leave"
                     ELSE IF VerifiedAt(f, Destination(f)) THEN "run" ELSE "gate"]
  /\ UNCHANGED <<disk, ledger, pool, late, call, run>>

\* Unverified bytes are pending until the parser has seen them.
Gate(w) ==
  /\ At(w, "gate")
  /\ Mark(job[w].file, "PENDING")
  /\ Goes(w, "inspect")
  /\ UNCHANGED <<disk, pool, late, call, run>>

\* Sound bytes are promoted; unsound ones leave the managed path first (to
\* .part or to quarantine); a read error leaves the file pending.
Inspect(w) ==
  LET f == job[w].file
      accepted == job[w].path = "managed" => sound[f]
  IN
  /\ At(w, "inspect")
  /\ \/ /\ accepted
        /\ Certify(f, job[w].path, "PENDING") /\ Goes(w, "run")
        /\ UNCHANGED disk
     \/ /\ ~accepted
        /\ copies' = [copies EXCEPT ![f] = @ \ {"managed"}] /\ Goes(w, "discard")
        /\ UNCHANGED <<ledger, sound, report>>
     \/ /\ Goes(w, "leave")
        /\ UNCHANGED <<disk, ledger>>
  /\ UNCHANGED <<pool, late, call, run>>

Discard(w) ==
  /\ At(w, "discard")
  /\ ledger' = [ledger EXCEPT ![job[w].file] =
                  [@ EXCEPT !.status = "RETRY", !.integrity = "INVALID",
                            !.validation = "PENDING", !.full = FALSE]]
  /\ Goes(w, "leave")
  /\ UNCHANGED <<disk, pool, late, call, run>>

\* RUNNING is recorded and the timer is started.
Run(w) ==
  /\ At(w, "run")
  /\ Mark(job[w].file, "RUNNING")
  /\ job' = [job EXCEPT ![w].step = "hash", ![w].timer = TRUE]
  /\ UNCHANGED <<disk, pool, late, call, run>>

\* Entries whose hash shows that they hold the bytes of f.
Matches(f) == {g \in File \ {f} : SameBytes(f, g) /\ ledger[g].hashed /\ Verified(g)}
Inherited(g) == IF Validation(g) \in Decided THEN Validation(g) ELSE "DUPLICATE_PENDING"

\* _record_completed_content_hash: the first match is the canonical file, and
\* its validation status is read here and used in a later step.
Hash(w) ==
  LET f == job[w].file
      original == IF Matches(f) = {} THEN 0 ELSE First(Matches(f))
  IN
  /\ At(w, "hash")
  /\ IF VerifiedAt(f, "managed")
     THEN /\ ledger' = [ledger EXCEPT ![f].hashed = TRUE, ![f].duplicate_of = original]
          /\ IF original = 0 THEN Goes(w, "evaluate")
             ELSE job' = [job EXCEPT ![w].step = "inherit", ![w].verdict = Inherited(original)]
     ELSE Goes(w, "evaluate") /\ UNCHANGED ledger
  /\ UNCHANGED <<disk, pool, late, call, run>>

Inherit(w) ==
  /\ At(w, "inherit")
  /\ Mark(job[w].file, job[w].verdict)
  /\ Goes(w, "leave")
  /\ UNCHANGED <<disk, pool, late, call, run>>

\* _validate_pdf_stage2: a decided report of these bytes is reused; otherwise
\* the evaluator decides and the file is moved to where its verdict puts it,
\* or it does not decide, or it fails.
Evaluate(w) ==
  LET from == job[w].path
      reusable == report[job[w].file] = from
      Answers(v, path, step) ==
        job' = [job EXCEPT ![w].step = step, ![w].verdict = v, ![w].path = path]
  IN
  /\ At(w, "evaluate")
  /\ \/ /\ reusable /\ Answers(from, from, "confirm")
        /\ UNCHANGED copies
     \/ /\ ~reusable
        /\ \E v \in Decided :
             /\ copies' = [copies EXCEPT ![job[w].file] = (@ \ {from}) \cup {v}]
             /\ Answers(v, v, IF from = v THEN "report" ELSE "relocate")
     \/ /\ ~reusable /\ UNCHANGED copies
        /\ Answers("PENDING", from, "report") \/ Goes(w, "error")
  /\ UNCHANGED <<sound, report, ledger, pool, late, call, run>>

\* Mutant of Relocate: the new path is recorded only with the verdict.
Relocate_Skipped(w) ==
  /\ At(w, "relocate")
  /\ Goes(w, "report")
  /\ UNCHANGED <<disk, ledger, pool, late, call, run>>

Relocate(w) ==
  /\ At(w, "relocate")
  /\ Certify(job[w].file, job[w].path, Validation(job[w].file))
  /\ Goes(w, "report")
  /\ UNCHANGED <<disk, pool, late, call, run>>

\* Mutant of Report: a report that could not be written is ignored.
Report_Ignored(w) ==
  /\ At(w, "report")
  /\ \/ report' = [report EXCEPT ![job[w].file] = job[w].verdict]
     \/ UNCHANGED report
  /\ Goes(w, "verdict")
  /\ UNCHANGED <<copies, sound, ledger, pool, late, call, run>>

Report(w) ==
  /\ At(w, "report")
  /\ \/ /\ report' = [report EXCEPT ![job[w].file] = job[w].verdict]
        /\ Goes(w, "verdict")
     \/ Goes(w, "error") /\ UNCHANGED report
  /\ UNCHANGED <<copies, sound, ledger, pool, late, call, run>>

Verdict(w) ==
  /\ At(w, "verdict")
  /\ Certify(job[w].file, job[w].path, job[w].verdict)
  /\ Goes(w, "confirm")
  /\ UNCHANGED <<disk, pool, late, call, run>>

\* Back in the job: rewrite the verdict if the ledger shows something else.
Confirm(w) ==
  /\ At(w, "confirm")
  /\ IF Validation(job[w].file) # job[w].verdict
     THEN Mark(job[w].file, job[w].verdict) ELSE UNCHANGED ledger
  /\ Goes(w, "propagate")
  /\ UNCHANGED <<disk, pool, late, call, run>>

\* _propagate_duplicate_validation: the waiting duplicates are listed under
\* the lock, then written one by one.
Waiting(f) == {g \in File : /\ ledger[g].duplicate_of = f
                            /\ Validation(g) = "DUPLICATE_PENDING"}
Propagate(w) ==
  /\ At(w, "propagate")
  /\ LET listed == IF job[w].verdict \in Decided THEN Waiting(job[w].file) ELSE {}
     IN job' = [job EXCEPT ![w].listed = listed,
                           ![w].step = IF listed = {} THEN "leave" ELSE "copy"]
  /\ UNCHANGED <<disk, ledger, pool, late, call, run>>

Copy(w) ==
  LET g == First(job[w].listed)
      rest == job[w].listed \ {g}
  IN
  /\ At(w, "copy")
  /\ Mark(g, job[w].verdict)
  /\ job' = [job EXCEPT ![w].listed = rest,
                        ![w].step = IF rest = {} THEN "leave" ELSE "copy"]
  /\ UNCHANGED <<disk, pool, late, call, run>>

\* An exception of the evaluation leaves the file pending.
Error(w) ==
  /\ At(w, "error")
  /\ Mark(job[w].file, "PENDING")
  /\ Goes(w, "leave")
  /\ UNCHANGED <<disk, pool, late, call, run>>

\* The flag is set, the timer cancelled and the key forgotten.
Leave(w) ==
  /\ At(w, "leave")
  /\ job' = [job EXCEPT ![w] = NoJob]
  /\ known' = known \ {job[w].file}
  /\ UNCHANGED <<disk, ledger, queue, late, call, run>>

\* mark_pending_if_slow: the timer finds the flag unset ...
Expire(w) ==
  /\ job[w].timer
  /\ job' = [job EXCEPT ![w].timer = FALSE]
  /\ late' = late \cup {job[w].file}
  /\ UNCHANGED <<disk, ledger, pool, call, run>>

\* ... and writes later, whatever the job has recorded since.
LateWrite(f) ==
  /\ f \in late
  /\ Mark(f, "PENDING")
  /\ late' = late \ {f}
  /\ UNCHANGED <<disk, pool, job, call, run>>

-----------------------------------------------------------------------------
(* The run: restore, search, stop, admit what had no room                  *)

\* _restore_pending_validation_jobs
Restorable(f) ==
  /\ Status(f) \in {"COMPLETED", "INTEGRITY_PENDING"}
  /\ Verified(f) => Validation(f) \notin Decided \cup {"DUPLICATE_PENDING"}

RestoreNext ==
  /\ phase \in {"restoring", "admitting"} /\ InCall(Main, "idle") /\ todo # {}
  /\ call' = [call EXCEPT ![Main] = [file |-> First(todo), step |-> "read"]]
  /\ todo' = todo \ {First(todo)}
  /\ UNCHANGED <<disk, ledger, pool, job, late, phase, admitted, fetch, runs>>

\* _recovery_candidates: what was not finished is transferred again, unless
\* its bytes are here.
Unfinished == {f \in File : Status(f) # "COMPLETED"}
Recovered(f) ==
  IF "managed" \in copies[f]
  THEN [ledger[f] EXCEPT !.status = "INTEGRITY_PENDING", !.integrity = "PENDING",
                         !.validation = "PENDING"]
  ELSE IF Status(f) \in {"INTEGRITY_PENDING", "DOWNLOADING"}
  THEN [ledger[f] EXCEPT !.status = "WAITING"]
  ELSE ledger[f]

Recover ==
  /\ phase = "restoring" /\ todo = {} /\ InCall(Main, "idle")
  /\ ledger' = [f \in File |-> IF f \in Unfinished THEN Recovered(f) ELSE ledger[f]]
  /\ fetch' = {f \in Unfinished : "managed" \notin copies[f]}
  /\ phase' = "searching" /\ todo' = Listed
  /\ UNCHANGED <<disk, pool, job, late, call, admitted, runs>>

\* The search ends, by target or by pages, and no download is left running.
EndSearch ==
  /\ phase = "searching" /\ \A c \in Caller : InCall(c, "idle")
  /\ phase' = "stopping" /\ todo' = {} /\ fetch' = {}
  /\ UNCHANGED <<disk, ledger, pool, job, late, call, admitted, runs>>

\* Mutant of Stopped: everything restorable is collected, not only what was
\* refused.
Stopped_Everything ==
  /\ phase = "stopping" /\ queue = <<>> /\ \A w \in Worker : At(w, "idle")
  /\ phase' = "admitting" /\ admitted' = FALSE
  /\ todo' = {f \in File : Restorable(f)}
  /\ UNCHANGED <<disk, ledger, pool, job, late, call, fetch, runs>>

\* _stop_validation_queue waits for every queued job; then what was refused
\* for lack of room is collected.
Stopped ==
  /\ phase = "stopping" /\ queue = <<>> /\ \A w \in Worker : At(w, "idle")
  /\ phase' = "admitting" /\ admitted' = FALSE
  /\ todo' = {f \in File : ledger[f].full /\ Restorable(f)}
  /\ UNCHANGED <<disk, ledger, pool, job, late, call, fetch, runs>>

\* Mutant of Admitted: the run does not wait for what it has just admitted.
Admitted_Once ==
  /\ phase = "admitting" /\ todo = {} /\ InCall(Main, "idle")
  /\ phase' = "done"
  /\ UNCHANGED <<disk, ledger, pool, job, late, call, todo, admitted, fetch, runs>>

Admitted ==
  /\ phase = "admitting" /\ todo = {} /\ InCall(Main, "idle")
  /\ phase' = IF admitted THEN "stopping" ELSE "done"
  /\ UNCHANGED <<disk, ledger, pool, job, late, call, todo, admitted, fetch, runs>>

\* A run that is interrupted drops the jobs that wait and lets the others end.
Interrupt ==
  /\ phase \in {"restoring", "searching", "admitting"}
  /\ \A c \in Caller : InCall(c, "idle")
  /\ queue' = <<>> /\ known' = known \ ToSet(queue)
  /\ phase' = "closing" /\ todo' = {} /\ fetch' = {}
  /\ UNCHANGED <<disk, ledger, job, late, call, admitted, runs>>

Closed ==
  /\ phase = "closing" /\ \A w \in Worker : At(w, "idle")
  /\ phase' = "closed"
  /\ UNCHANGED <<disk, ledger, pool, job, late, call, todo, admitted, fetch, runs>>

\* Cancelled while it waits for the pool, the run ends without it: the global
\* queue was already taken, so the runner finds nothing to stop.
Abandon ==
  /\ phase = "stopping" /\ phase' = "closed"
  /\ UNCHANGED <<disk, ledger, pool, job, late, call, todo, admitted, fetch, runs>>

\* _completed_download_count at the start of a run: bytes at the managed path
\* that nothing vouches for are pending.
Reconciled(f) ==
  IF "managed" \in copies[f] /\ ~VerifiedAt(f, "managed") /\ ledger[f].integrity # "INVALID"
     /\ ~(Status(f) = "INTEGRITY_PENDING" /\ ledger[f].integrity = "PENDING")
  THEN [Unproven(ledger[f], "INTEGRITY_PENDING") EXCEPT !.validation = "PENDING"]
  ELSE ledger[f]

NewRun ==
  /\ runs < MaxRuns /\ runs' = runs + 1
  /\ UNCHANGED disk
  /\ ledger' = [f \in File |-> Reconciled(f)]
  /\ todo' = {f \in File : Restorable(f)'}
  /\ phase' = "restoring" /\ admitted' = FALSE /\ fetch' = {}
  /\ queue' = <<>> /\ known' = {} /\ job' = [w \in Worker |-> NoJob]
  /\ call' = [c \in Caller |-> NoCall]

\* The next run of the same process, or the first one after a crash.  Bound: a
\* run is not started while the abandoned pool of the last one still works.
Rerun ==
  /\ phase \in {"done", "closed"} /\ queue = <<>> /\ \A w \in Worker : At(w, "idle")
  /\ NewRun /\ UNCHANGED late
Crash == NewRun /\ late' = {}

-----------------------------------------------------------------------------
Init ==
  /\ copies = [f \in File |-> {}] /\ sound = [f \in File |-> FALSE]
  /\ report = [f \in File |-> "PENDING"]
  /\ ledger = [f \in File |->
       [status |-> "WAITING", integrity |-> "PENDING", path |-> "none", hashed |-> FALSE,
        duplicate_of |-> 0, validation |-> "PENDING", full |-> FALSE]]
  /\ queue = <<>> /\ known = {} /\ job = [w \in Worker |-> NoJob]
  /\ late = {} /\ call = [c \in Caller |-> NoCall]
  /\ phase = "searching" /\ todo = Listed /\ admitted = FALSE /\ fetch = File /\ runs = 1

CallStep(c) == Record(c) \/ Read(c) \/ Check(c) \/ Queue(c) \/ Put(c) \/ Refuse(c)

JobStep(w) ==
  \/ Take(w) \/ Open(w) \/ Gate(w) \/ Inspect(w) \/ Discard(w) \/ Run(w) \/ Hash(w)
  \/ Inherit(w) \/ Evaluate(w) \/ Relocate(w) \/ Report(w) \/ Verdict(w)
  \/ Confirm(w) \/ Propagate(w) \/ Copy(w) \/ Error(w) \/ Leave(w)

RunStep == RestoreNext \/ Recover \/ EndSearch \/ Stopped \/ Admitted \/ Closed

Next ==
  \/ \E c \in Caller : CallStep(c)
  \/ \E d \in Downloader : Land(d) \/ \E f \in File : Fetch(d, f)
  \/ \E w \in Worker : JobStep(w) \/ Expire(w)
  \/ \E f \in File : LateWrite(f) \/ Rediscover(f)
  \/ RunStep \/ Interrupt \/ Abandon \/ Rerun \/ Crash

\* Threads are scheduled and calls return: no thread stops for ever between
\* two steps.  The search meets what it meets, and timers may be cancelled.
Fairness ==
  /\ \A c \in Caller : WF_vars(CallStep(c))
  /\ \A d \in Downloader : WF_vars(Land(d))
  /\ \A w \in Worker : WF_vars(JobStep(w))
  /\ WF_vars(RunStep)

Spec == Init /\ [][Next]_vars
FairSpec == Spec /\ Fairness

-----------------------------------------------------------------------------
(* Properties                                                              *)

\* Every variable keeps its shape, and a step that works on a file has one.
TypeOK ==
  /\ copies \in [File -> SUBSET Places] /\ sound \in [File -> BOOLEAN]
  /\ report \in [File -> Verdicts] /\ ledger \in [File -> Entry]
  /\ queue \in Seq(File) /\ Len(queue) <= QueueSize /\ known \subseteq File
  /\ job \in [Worker -> [file : 0..Files, step : JobSteps, timer : BOOLEAN,
                         verdict : Verdicts \cup {"DUPLICATE_PENDING"}, path : Places \cup {"none"}, listed : SUBSET File]]
  /\ \A w \in Worker : job[w].file = 0 <=> At(w, "idle")
  /\ call \in [Caller -> [file : 0..Files, step : CallSteps]]
  /\ \A c \in Caller : call[c].file = 0 <=> InCall(c, "idle")
  /\ late \subseteq File /\ phase \in Phases /\ todo \subseteq File
  /\ admitted \in BOOLEAN /\ fetch \subseteq File /\ runs \in 1..MaxRuns

\* No file is validated by two workers, or by one while it waits for another:
\* a job moves the file and rewrites its entry.  Two callers pass the check of
\* contains() for one file at once; only try_enqueue keeps them apart.
OneValidator ==
  /\ \A v, w \in Worker : v # w /\ ~At(v, "idle") => job[v].file # job[w].file
  /\ \A w \in Worker : job[w].file \notin ToSet(queue)
  /\ IsInjective(queue)
  /\ known = ToSet(queue) \cup {job[w].file : w \in {v \in Worker : ~At(v, "idle")}}

\* No record says COMPLETED for bytes the parser did not accept, whatever
\* transfer, timer, duplicate or verdict write comes late, and after a crash.
CompletedIsSound ==
  \A f \in File : Status(f) = "COMPLETED" =>
    /\ ledger[f].integrity = "VALID"
    /\ ledger[f].path = "managed" => sound[f]

\* A verdict in the ledger, inherited or not, was given to the same bytes.
VerdictOfTheseBytes ==
  \A f \in File : Validation(f) \in Decided =>
    \E g \in File : SameBytes(f, g) /\ report[g] = Validation(f)

\* A run that ends by itself has validated all it accepted and has admitted
\* every file that was refused for lack of room.
RunDrainsPool ==
  phase = "done" =>
    /\ queue = <<>> /\ \A w \in Worker : At(w, "idle")
    /\ \A f \in File : ledger[f].full /\ Located(f) =>
         Status(f) \notin {"COMPLETED", "INTEGRITY_PENDING"}

\* An integrity failure is not overwritten by the late writes of callers,
\* timers and duplicates; only a new transfer replaces it.
FailureStands ==
  [][\A f \in File : ledger[f].integrity = "INVALID" /\ copies[f] = {} =>
       \/ ledger'[f].integrity = "INVALID" /\ ledger'[f].status = "RETRY"
       \/ ledger'[f].status = "DOWNLOADING"]_vars

\* Every run comes to its end: the pool drains, and the passes that admit
\* refused files do not go on for ever.
EveryRunEnds == []<>(phase \in {"done", "closed"})

=============================================================================
