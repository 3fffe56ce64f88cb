---------------------------- MODULE DownloadPool ----------------------------
(***************************************************************************)
(* The download pool of the Streamlit runtime: GlobalDownloadQueue         *)
(* (app/pipeline_scheduler.py), the document-level attempt its threads     *)
(* make (_download_worker in app.py) and the records the attempt leaves in *)
(* the ledger.  A queue operation, a ledger write and the rename of the    *)
(* finished file are one step each.  The module has no Init or Next of its *)
(* own: Driver, which feeds the pool, composes its actions.                *)
(*                                                                         *)
(* Left out: the requests inside an attempt (Routes, Transfer), a ledger   *)
(* write that the process lock drops (Transfer), and the hand-over of a    *)
(* finished file to Stage 2 (Validation).                                  *)
(***************************************************************************)
EXTENDS Integers, Sequences, FiniteSets

CONSTANTS Doc,            \* documents, by their stable identity
          NoJob,          \* what an idle thread has
          Filename,       \* keys of the ledger and names of the files
          Worker,         \* threads of the pool
          MaxSize,        \* download_queue_maxsize
          MaxAttempts,    \* max_document_attempts
          MaxTroubles     \* bound: exceptions in a worker and crashes

ASSUME PoolAssumption ==
  /\ IsFiniteSet(Worker) /\ Worker # {}
  /\ NoJob \notin [doc : Doc, name : Filename, attempt : 1..MaxAttempts]
  /\ MaxSize \in Nat \ {0} /\ MaxAttempts \in Nat \ {0} /\ MaxTroubles \in Nat

VARIABLES jobs,        \* the queue of jobs
          unfinished,  \* its unfinished_tasks
          turn,        \* what each thread does, with which job, to what result
          outcomes,    \* finished turns, for the main thread
          stop,        \* the stop event of the run
          closed,      \* the queue takes no more jobs
          ledger,      \* filename -> record
          files,       \* names of the finished PDFs on disk
          troubles     \* troubles so far

poolVars == <<jobs, unfinished, turn, outcomes, stop, closed, ledger, files, troubles>>

Job == [doc: Doc, name: Filename, attempt: 1..MaxAttempts]

Results == {"success", "failure", "permanent"}

Steps == {"idle", "taken", "working", "landed", "ended", "reported", "exited"}

\* The statuses of a record, in the upper case the readers compare; PARTIAL
\* stands for "partial" and "failed", which download_file writes inside an
\* attempt and the restart reads alike.
Statuses == {"QUEUED", "RECOVERING", "DOWNLOADING", "PARTIAL",
             "FAILED_FOR_ROUND", "PERMANENTLY_FAILED", "COMPLETED",
             "STAGE1_REJECTED"}

Record == [doc: Doc, status: Statuses, attempt: 0..MaxAttempts]

Known(n) == n \in DOMAIN ledger

Written(n, d, s, a) ==
  [m \in DOMAIN ledger \union {n} |->
     IF m = n THEN [doc |-> d, status |-> s, attempt |-> a] ELSE ledger[m]]

\* _update_download_state for a job, with the attempt it carries.
Write(job, status) ==
  ledger' = Written(job.name, job.doc, status, job.attempt)

Room == Len(jobs) < MaxSize

Put(job) ==
  /\ jobs' = Append(jobs, job)
  /\ unfinished' = unfinished + 1

Active == {w \in Worker : turn[w].step \in {"working", "landed", "ended"}}

\* Mutant: an empty queue and no active turn are taken for an idle pool.
Idle_Quiet == jobs = <<>> /\ Active = {}

\* unfinished_tasks is read before the number of active turns; only the
\* reader adds jobs, so what it sees still holds when the second is read.
Idle == unfinished = 0 /\ Active = {}

Resting(step) == [step |-> step, job |-> NoJob, result |-> "failure"]

Goes(w, step, result) ==
  turn' = [turn EXCEPT ![w] =
             [step |-> step, job |-> turn[w].job, result |-> result]]

(***************************************************************************)
(* The threads.                                                            *)
(***************************************************************************)
Take(w) ==
  /\ turn[w].step = "idle" /\ jobs # <<>>
  /\ turn' = [turn EXCEPT ![w] = [step |-> "taken", job |-> Head(jobs),
                                  result |-> "failure"]]
  /\ jobs' = Tail(jobs)
  /\ UNCHANGED <<unfinished, outcomes, stop, closed, ledger, files, troubles>>

Begin(w) ==
  /\ turn[w].step = "taken"
  /\ Write(turn[w].job, "DOWNLOADING")
  /\ Goes(w, "working", "failure")
  /\ UNCHANGED <<jobs, unfinished, outcomes, stop, closed, files, troubles>>

\* The attempt raises before its first record; the pool makes it a failure
\* that is not permanent.
Raise(w) ==
  /\ turn[w].step = "taken" /\ troubles < MaxTroubles
  /\ troubles' = troubles + 1
  /\ Goes(w, "ended", "failure")
  /\ UNCHANGED <<jobs, unfinished, outcomes, stop, closed, ledger, files>>

\* A request of the attempt starts, breaks off or is refused.
Request(w) ==
  /\ turn[w].step = "working" /\ ~stop
  /\ \E s \in {"DOWNLOADING", "PARTIAL"} :
       /\ ledger[turn[w].job.name].status # s
       /\ Write(turn[w].job, s)
  /\ UNCHANGED <<jobs, unfinished, turn, outcomes, stop, closed, files, troubles>>

\* os.replace of the finished partial.
Land(w) ==
  /\ turn[w].step = "working"
  /\ files' = files \union {turn[w].job.name}
  /\ Goes(w, "landed", "success")
  /\ UNCHANGED <<jobs, unfinished, outcomes, stop, closed, ledger, troubles>>

Complete(w) ==
  /\ turn[w].step = "landed"
  /\ Write(turn[w].job, "COMPLETED")
  /\ Goes(w, "ended", "success")
  /\ UNCHANGED <<jobs, unfinished, outcomes, stop, closed, files, troubles>>

\* No route delivered, or the stop event interrupted the attempt: the attempt
\* is spent either way.
Fail(w) ==
  LET job == turn[w].job
      last == job.attempt >= MaxAttempts
  IN  /\ turn[w].step = "working"
      /\ Write(job, IF last THEN "PERMANENTLY_FAILED" ELSE "FAILED_FOR_ROUND")
      /\ Goes(w, "ended", IF last THEN "permanent" ELSE "failure")
      /\ UNCHANGED <<jobs, unfinished, outcomes, stop, closed, files, troubles>>

\* The turn is no longer active, and its outcome is put.
Report(w) ==
  /\ turn[w].step = "ended"
  /\ outcomes' = Append(outcomes,
                        [job |-> turn[w].job, result |-> turn[w].result])
  /\ Goes(w, "reported", turn[w].result)
  /\ UNCHANGED <<jobs, unfinished, stop, closed, ledger, files, troubles>>

\* Mutant: only a successful turn is counted as done.
TaskDone_OnSuccess(w) ==
  /\ turn[w].step = "reported"
  /\ unfinished' = IF turn[w].result = "success" THEN unfinished - 1 ELSE unfinished
  /\ turn' = [turn EXCEPT ![w] = Resting("idle")]
  /\ UNCHANGED <<jobs, outcomes, stop, closed, ledger, files, troubles>>

TaskDone(w) ==
  /\ turn[w].step = "reported"
  /\ unfinished' = unfinished - 1
  /\ turn' = [turn EXCEPT ![w] = Resting("idle")]
  /\ UNCHANGED <<jobs, outcomes, stop, closed, ledger, files, troubles>>

\* close() puts one stop mark per thread behind the jobs that are left.
Exit(w) ==
  /\ turn[w].step = "idle" /\ closed /\ jobs = <<>>
  /\ turn' = [turn EXCEPT ![w] = Resting("exited")]
  /\ UNCHANGED <<jobs, unfinished, outcomes, stop, closed, ledger, files, troubles>>

WorkerStep(w) ==
  \/ Take(w) \/ Begin(w) \/ Raise(w) \/ Request(w) \/ Land(w)
  \/ Complete(w) \/ Fail(w) \/ Report(w) \/ TaskDone(w) \/ Exit(w)

Exited == \A w \in Worker : turn[w].step = "exited"
=============================================================================
