----------------------------- MODULE Dashboard -----------------------------
(***************************************************************************)
(* The telemetry of a Streamlit process: the event bus, RunMetrics,        *)
(* DownloadPresentation and PipelineDashboardSnapshot of                   *)
(* app/pipeline_events.py with the threads of app.py that publish to them: *)
(* the main thread of one run after another, the download workers and the  *)
(* Stage 2 validators, which outlive a run.  A run may be cancelled at an  *)
(* await; its events stay on the bus.                                      *)
(*                                                                         *)
(* BUSY stands for the row states STARTING, DOWNLOADING, MAKING_PROGRESS,  *)
(* STALLED, RETRYING and SWITCHING_ROUTE, which the snapshot treats alike. *)
(* A thread writes the record of a document and publishes the event about  *)
(* it in one step, but a job is queued in one step and announced in        *)
(* another, where the event can be overtaken.  What a worker writes about  *)
(* the end of an attempt and what the hand-over to Stage 2 writes may be   *)
(* dropped, and the event is published all the same: the record keeps both *)
(* the status on disk and the one told to _update_download_state.          *)
(*                                                                         *)
(* Left out: the text of the activity log, the recovery numbers of the     *)
(* snapshot, which are the scheduler's, and what other modules say in full:*)
(* targets, duplicates and the bookkeeping around an attempt, also one     *)
(* that raises (Driver, DownloadPool), the timer and the reads and writes  *)
(* inside a validation (Validation).  The headless runtime is Colab's.     *)
(* Left out as well: dropped writes of an admission, of Stage 1, of a      *)
(* validator and of the start of a run, and PDFs older than the ledger,    *)
(* whose records have no run_id.                                           *)
(***************************************************************************)
EXTENDS Integers, SequencesExt

CONSTANTS Doc,          \* documents, one file each
          NoDoc,        \* no document
          Worker,       \* download workers, 1..max_workers
          Validator,    \* threads of the Stage 2 pool
          Bytes,        \* the content of each document
          Pages,        \* the sets of documents a result page lists
          MaxSize,      \* download_queue_maxsize
          MaxStage2,    \* stage2_queue_maxsize
          MaxAttempts,  \* max_document_attempts
          MaxRuns       \* bound: runs of the pipeline in this process

ASSUME DashboardAssumption ==
  /\ IsFiniteSet(Doc) /\ NoDoc \notin Doc /\ DOMAIN Bytes = Doc
  /\ Pages \subseteq SUBSET Doc
  /\ IsFiniteSet(Worker) /\ Worker = 1..Cardinality(Worker) /\ Worker # {}
  /\ IsFiniteSet(Validator) /\ Validator # {}
  /\ MaxSize \in Nat \ {0} /\ MaxStage2 \in Nat \ {0}
  /\ MaxAttempts \in Nat \ {0} /\ MaxRuns \in Nat \ {0}

VARIABLES bus,       \* _PIPELINE_EVENTS
          net,       \* network.events of this run
          metrics,   \* live_metrics of this run
          rows,      \* coordinator.presentation.workers
          run,       \* run_id of the newest run
          pc,        \* where its main thread is
          drain,     \* where it is inside coordinator.drain
          items,     \* documents or jobs it still has to treat
          item,      \* the one it treats
          backlog,   \* failed and restored jobs for the next round
          jobs,      \* the download queue
          turn,      \* the attempt of each worker
          outcomes,  \* finished attempts, for the main thread
          stage2Queue, \* the Stage 2 queue
          judge,     \* the document of each validator
          ledger     \* the record of each document

busVars == <<bus, net>>
viewVars == <<metrics, rows>>
mainVars == <<run, pc, drain, items, item, backlog>>
poolVars == <<jobs, turn, outcomes>>
stage2Vars == <<stage2Queue, judge>>
dashboardVars == <<busVars, viewVars, mainVars, poolVars, stage2Vars, ledger>>

Job == [doc: Doc, attempt: 1..MaxAttempts, run: 1..MaxRuns, again: BOOLEAN]

(***************************************************************************)
(* The event bus and RunMetrics.                                           *)
(***************************************************************************)
Event(kind, r, d, n) == [kind |-> kind, run |-> r, doc |-> d, n |-> n, again |-> FALSE]

\* _emit_pipeline_event for a job.
About(kind, job) == [Event(kind, job.run, job.doc, 1) EXCEPT !.again = job.again]

Phases == {"queued", "running", "pending"}

Fresh(existing) ==
  [existing |-> existing, discovered |-> 0, stage1Pending |-> 0,
   stage1Approved |-> 0, stage1Rejected |-> 0, queued |-> 0, recovery |-> 0,
   downloading |-> 0, stored |-> 0, failed |-> 0, permanent |-> 0,
   stage2 |-> [k \in Phases |-> 0], inflight |-> [d \in Doc |-> "none"],
   approved |-> 0, rejected |-> 0, invalid |-> 0, duplicates |-> 0]

Minus(a, b) == IF a > b THEN a - b ELSE 0

\* _set_stage2_state: each file is in one phase.
SetStage2(m, d, phase) ==
  IF m.inflight[d] = phase THEN m
  ELSE [m EXCEPT
          !.inflight[d] = phase,
          !.stage2 = [k \in Phases |->
                        IF k = phase THEN @[k] + 1
                        ELSE IF k = m.inflight[d] THEN Minus(@[k], 1) ELSE @[k]]]

\* _complete_stage2
CompleteStage2(m, d) ==
  [m EXCEPT !.inflight[d] = "none",
            !.stage2 = [k \in Phases |->
                          IF k = m.inflight[d] THEN Minus(@[k], 1) ELSE @[k]]]

\* RunMetrics.consume; every Stage 2 event names its file.
Consumed(m, e) ==
  CASE e.kind = "DOCUMENT_DISCOVERED" -> [m EXCEPT !.discovered = @ + e.n]
    [] e.kind = "STAGE1_STARTED" -> [m EXCEPT !.stage1Pending = @ + e.n]
    [] e.kind = "STAGE1_APPROVED" ->
         [m EXCEPT !.stage1Pending = Minus(@, e.n), !.stage1Approved = @ + e.n]
    [] e.kind = "STAGE1_REJECTED" ->
         [m EXCEPT !.stage1Pending = Minus(@, e.n), !.stage1Rejected = @ + e.n]
    [] e.kind = "STAGE1_FAILED" -> [m EXCEPT !.stage1Pending = Minus(@, e.n)]
    [] e.kind = "DOWNLOAD_QUEUED" -> [m EXCEPT !.queued = @ + e.n]
    [] e.kind = "DOWNLOAD_STARTED" ->
         [m EXCEPT !.queued = Minus(@, e.n),
                   !.recovery = IF e.again THEN Minus(@, e.n) ELSE @,
                   !.downloading = @ + e.n]
    [] e.kind = "DOWNLOAD_COMPLETED" ->
         [m EXCEPT !.downloading = Minus(@, e.n), !.stored = @ + e.n]
    [] e.kind = "DOWNLOAD_FAILED_FOR_ROUND" ->
         [m EXCEPT !.downloading = Minus(@, e.n), !.failed = @ + e.n]
    [] e.kind = "DOWNLOAD_PERMANENTLY_FAILED" ->
         [m EXCEPT !.downloading = Minus(@, e.n), !.permanent = @ + e.n]
    [] e.kind = "RECOVERY_QUEUED" -> [m EXCEPT !.recovery = @ + e.n]
    [] e.kind = "STAGE2_QUEUED" -> SetStage2(m, e.doc, "queued")
    [] e.kind = "STAGE2_STARTED" -> SetStage2(m, e.doc, "running")
    [] e.kind \in {"STAGE2_PENDING", "STAGE2_DUPLICATE_PENDING"} ->
         SetStage2(m, e.doc, "pending")
    [] e.kind = "STAGE2_APPROVED" ->
         [CompleteStage2(m, e.doc) EXCEPT !.approved = @ + e.n]
    [] e.kind = "STAGE2_REJECTED" ->
         [CompleteStage2(m, e.doc) EXCEPT !.rejected = @ + e.n]
    [] e.kind = "STAGE2_INVALID" ->
         [CompleteStage2(m, e.doc) EXCEPT !.invalid = @ + e.n]
    [] e.kind = "DUPLICATE_DETECTED" -> [m EXCEPT !.duplicates = @ + e.n]
    [] OTHER -> m

\* Mutant: a run consumes what another run left on the bus.
Own_Any(e, r) == TRUE
\* The run's own events, and those of no run (0 stands for the empty run_id).
Own(e, r) == e.run \in {0, r}

\* The metrics of run r when they have consumed its events, in order.
Metered(m, events, r) ==
  LET upTo[i \in 0..Len(events)] ==
        IF i = 0 THEN m
        ELSE IF Own(events[i], r) THEN Consumed(upTo[i - 1], events[i]) ELSE upTo[i - 1]
  IN  upTo[Len(events)]

\* The events of other runs, in order.
Others(events, r) ==
  LET upTo[i \in 0..Len(events)] ==
        IF i = 0 THEN <<>>
        ELSE IF Own(events[i], r) THEN upTo[i - 1] ELSE Append(upTo[i - 1], events[i])
  IN  upTo[Len(events)]

\* refresh_live_metrics: drain takes this run's events, the others go back.
Refresh(events) ==
  metrics' = Metered(metrics, events, run) /\ bus' = Others(events, run)

(***************************************************************************)
(* DownloadPresentation: one row for each worker.                          *)
(***************************************************************************)
\* network.emit
Report(w, state) == [worker |-> w, state |-> state]

\* consume: another document or attempt starts the row afresh, and every
\* event carries the state it leaves the row in.
Presented(row, e) == e.state

\* The rows when they have consumed the workers' events, in order.
AllPresented(r, events) ==
  LET upTo[i \in 0..Len(events)] ==
        IF i = 0 THEN r
        ELSE [upTo[i - 1] EXCEPT ![events[i].worker] = Presented(@, events[i])]
  IN  upTo[Len(events)]

(***************************************************************************)
(* PipelineDashboardSnapshot.from_sources: the rows it shows.              *)
(***************************************************************************)
Active == {w \in Worker : turn[w].step # "idle"}
ActiveRows == {w \in Worker : rows[w] = "BUSY"}

\* The first n workers of a set.
FirstOf(set, n) == {w \in set : Cardinality({v \in set : v <= w}) <= n}

\* Mutant: a row that outlives its work is shown all the same.
Kept_All == ActiveRows
\* The queue owns the active work: rows beyond its count are shown idle.
Kept == FirstOf(ActiveRows, Cardinality(Active))

\* A worker that is active before its first event shows on an idle row.
Surfaced ==
  FirstOf({w \in Worker : rows[w] = "IDLE" \/ w \in ActiveRows \ Kept},
          Minus(Cardinality(Active), Cardinality(Kept)))

Shown == Kept \union Surfaced

(***************************************************************************)
(* The hand-over to Stage 2: _schedule_validation.                         *)
(***************************************************************************)
Verdicts == {"APPROVED", "REJECTED", "PDF_INVALID"}

Put(events) == bus' = bus \o events

Job2(d) == [doc |-> d, run |-> ledger[d].run, again |-> FALSE]

\* BoundedWorkQueue.contains
InStage2(d) ==
  d \in Range(stage2Queue) \/ \E v \in Validator : judge[v] = d

\* What Stage 2 writes about a document says that its PDF is complete.
Ruling(record, verdict) == [record EXCEPT !.status = "COMPLETED", !.verdict = verdict]

\* Where the caller goes on: a job that was queued is announced afterwards.  Of
\* the writes any may be dropped; a full queue makes two.
Scheduled(d, next, record) ==
  LET ruled(verdicts) ==
        \E new \in {record} \union {Ruling(record, verdict) : verdict \in verdicts} :
          ledger' = [ledger EXCEPT ![d] = new]
      free == record.verdict \notin Verdicts /\ ~InStage2(d)
  IN  \/ /\ record.verdict \in Verdicts \/ InStage2(d)
         /\ ruled({})
         /\ next = "landed"
         /\ UNCHANGED <<stage2Queue, bus>>
      \/ /\ record.verdict \notin Verdicts
         /\ ruled({"PDF_INVALID"}) /\ Put(<<About("STAGE2_INVALID", Job2(d))>>)
         /\ next = "landed"
         /\ UNCHANGED stage2Queue
      \/ /\ free /\ Len(stage2Queue) < MaxStage2
         /\ ruled({"QUEUED"}) /\ stage2Queue' = Append(stage2Queue, d)
         /\ next = "announce"
         /\ UNCHANGED bus
      \/ /\ free /\ Len(stage2Queue) >= MaxStage2
         /\ ruled({"QUEUED", "PENDING"}) /\ Put(<<About("STAGE2_PENDING", Job2(d))>>)
         /\ next = "landed"
         /\ UNCHANGED stage2Queue

(***************************************************************************)
(* The download workers: what _download_worker writes and publishes.       *)
(***************************************************************************)
Wrote(record, status) == [record EXCEPT !.status = status, !.told = status]

\* The record after a worker's _update_download_state with the end of its
\* attempt, which the caller takes for written: the lock or the file may be
\* busy.  The record of a local PDF is opened for a new validation.
Recorded(d, status) ==
  {[ledger[d] EXCEPT !.told = status],
   [Wrote(ledger[d], status) EXCEPT !.verdict = IF ledger[d].local THEN "PENDING" ELSE @]}

Goes(w, step) == turn' = [turn EXCEPT ![w].step = step]
Sends(w, state) == net' = Append(net, Report(w, state))

UnchangedByWorker == <<viewVars, mainVars, judge>>

Take(w) ==
  /\ turn[w].step = "idle" /\ jobs # <<>>
  /\ turn' = [turn EXCEPT ![w] = [step |-> "taken", job |-> Head(jobs),
                                  result |-> "success"]]
  /\ jobs' = Tail(jobs)
  /\ UNCHANGED <<UnchangedByWorker, busVars, outcomes, stage2Queue, ledger>>

BeginAttempt(w) ==
  /\ turn[w].step = "taken" /\ ~ledger[turn[w].job.doc].local
  /\ ledger' = [ledger EXCEPT ![turn[w].job.doc] = Wrote(@, "OPEN")]
  /\ Put(<<About("DOWNLOAD_STARTED", turn[w].job)>>)
  /\ Sends(w, "BUSY")
  /\ Goes(w, "working")
  /\ UNCHANGED <<UnchangedByWorker, jobs, outcomes, stage2Queue>>

\* The PDF is complete, or is one of the local library, and goes to Stage 2.
Store(w) ==
  LET d == turn[w].job.doc
  IN  /\ turn[w].step \in {"taken", "working"}
      /\ turn[w].step = "taken" <=> ledger[d].local
      /\ \E next \in {"announce", "landed"} :
           /\ \E record \in Recorded(d, "COMPLETED") : Scheduled(d, next, record)
           /\ Goes(w, next)
      /\ UNCHANGED <<UnchangedByWorker, net, jobs, outcomes>>

FinalAttempt(w) == turn[w].job.attempt >= MaxAttempts

Fail(w) ==
  /\ turn[w].step = "working"
  /\ \E record \in Recorded(turn[w].job.doc, IF FinalAttempt(w) THEN "PERMANENTLY_FAILED"
                                              ELSE "FAILED_FOR_ROUND") :
       ledger' = [ledger EXCEPT ![turn[w].job.doc] = record]
  /\ Sends(w, IF FinalAttempt(w) THEN "PERMANENTLY_FAILED" ELSE "RECOVERY_WAIT")
  /\ Put(<<About(IF FinalAttempt(w) THEN "DOWNLOAD_PERMANENTLY_FAILED"
                 ELSE "DOWNLOAD_FAILED_FOR_ROUND", turn[w].job)>>)
  /\ turn' = [turn EXCEPT ![w] = [@ EXCEPT !.step = "ended", !.result = "failure"]]
  /\ UNCHANGED <<UnchangedByWorker, jobs, outcomes, stage2Queue>>

\* The validator may have the job, and be done with it, before this.
Announce(w) ==
  /\ turn[w].step = "announce"
  /\ Put(<<About("STAGE2_QUEUED", Job2(turn[w].job.doc))>>)
  /\ Goes(w, "landed")
  /\ UNCHANGED <<UnchangedByWorker, net, jobs, outcomes, stage2Queue, ledger>>

Land(w) ==
  /\ turn[w].step = "landed"
  /\ Sends(w, "COMPLETED")
  /\ Put(<<About(IF ledger[turn[w].job.doc].local THEN "LOCAL_PDF_REUSED"
                 ELSE "DOWNLOAD_COMPLETED", turn[w].job)>>)
  /\ Goes(w, "ended")
  /\ UNCHANGED <<UnchangedByWorker, jobs, outcomes, stage2Queue, ledger>>

Resting == [step |-> "idle", job |-> NoDoc, result |-> "success"]

Return(w) ==
  /\ turn[w].step = "ended"
  /\ outcomes' = Append(outcomes, [job |-> turn[w].job, result |-> turn[w].result])
  /\ turn' = [turn EXCEPT ![w] = Resting]
  /\ UNCHANGED <<UnchangedByWorker, busVars, jobs, stage2Queue, ledger>>

DownloadStep(w) ==
  \/ Take(w) \/ BeginAttempt(w) \/ Store(w) \/ Fail(w) \/ Announce(w)
  \/ Land(w) \/ Return(w)

(***************************************************************************)
(* The Stage 2 validators: _run_validation_job.                            *)
(***************************************************************************)
UnchangedByValidator == <<net, viewVars, mainVars, poolVars>>

Check(v) ==
  /\ judge[v] = NoDoc /\ stage2Queue # <<>>
  /\ judge' = [judge EXCEPT ![v] = Head(stage2Queue)] /\ stage2Queue' = Tail(stage2Queue)
  /\ ledger' = [ledger EXCEPT ![Head(stage2Queue)] = Ruling(@, "RUNNING")]
  /\ Put(<<About("STAGE2_STARTED", Job2(Head(stage2Queue)))>>)
  /\ UNCHANGED UnchangedByValidator

Released(v) == judge' = [judge EXCEPT ![v] = NoDoc]

\* The finished documents another one may be a copy of.
Originals(d) ==
  {c \in Doc \ {d} : /\ ledger[c].hashed /\ Bytes[c] = Bytes[d]
                     /\ ledger[c].status = "COMPLETED"}

\* Mutant: a technically invalid file is reported by no event.
KindOf_ExceptInvalid(verdict) ==
  CASE verdict = "PDF_INVALID" -> "STAGE2_NONE"
    [] verdict = "APPROVED" -> "STAGE2_APPROVED"
    [] verdict = "REJECTED" -> "STAGE2_REJECTED"
    [] verdict = "DUPLICATE_PENDING" -> "STAGE2_DUPLICATE_PENDING"
    [] OTHER -> "STAGE2_PENDING"

KindOf(verdict) ==
  CASE verdict = "PDF_INVALID" -> "STAGE2_INVALID"
    [] verdict = "APPROVED" -> "STAGE2_APPROVED"
    [] verdict = "REJECTED" -> "STAGE2_REJECTED"
    [] verdict = "DUPLICATE_PENDING" -> "STAGE2_DUPLICATE_PENDING"
    [] OTHER -> "STAGE2_PENDING"

\* _record_completed_content_hash finds the same bytes, and the document
\* inherits the verdict of the other or waits for it.
LinkCopy(v) ==
  LET d == judge[v]
  IN  /\ d # NoDoc /\ ~ledger[d].local
      /\ \E c \in Originals(d) :
           LET verdict == IF ledger[c].verdict \in {"APPROVED", "REJECTED"}
                          THEN ledger[c].verdict ELSE "DUPLICATE_PENDING"
           IN  /\ ledger' = [ledger EXCEPT ![d] =
                               [Ruling(@, verdict) EXCEPT !.hashed = TRUE, !.copyOf = c]]
               /\ Put(<<About("DUPLICATE_DETECTED", Job2(d)),
                        About(KindOf(verdict), Job2(d))>>)
      /\ Released(v)
      /\ UNCHANGED <<UnchangedByValidator, stage2Queue>>

\* _propagate_duplicate_validation: the copies that wait for a verdict.
Copies(d, verdict) ==
  {c \in Doc : /\ verdict \in {"APPROVED", "REJECTED"}
               /\ ledger[c].copyOf = d /\ ledger[c].verdict = "DUPLICATE_PENDING"}

Judge(v) ==
  LET d == judge[v]
  IN  /\ d # NoDoc /\ (ledger[d].local \/ Originals(d) = {})
      /\ \E verdict \in Verdicts \union {"PENDING"} :
           LET copies == SetToSeq(Copies(d, verdict))
               news == [i \in DOMAIN copies |-> About(KindOf(verdict), Job2(copies[i]))]
           IN  /\ ledger' =
                    [c \in Doc |->
                       IF c = d THEN [Ruling(ledger[d], verdict) EXCEPT
                                        !.hashed = ~ledger[d].local, !.copyOf = NoDoc]
                       ELSE IF c \in Copies(d, verdict)
                            THEN [ledger[c] EXCEPT !.verdict = verdict]
                            ELSE ledger[c]]
               /\ Put(news \o <<About(KindOf(verdict), Job2(d))>>)
      /\ Released(v)
      /\ UNCHANGED <<UnchangedByValidator, stage2Queue>>

\* An exception leaves the document PENDING and publishes nothing.
Raise(v) ==
  /\ judge[v] # NoDoc
  /\ ledger' = [ledger EXCEPT ![judge[v]] = Ruling(@, "PENDING")]
  /\ Released(v)
  /\ UNCHANGED <<UnchangedByValidator, bus, stage2Queue>>

ValidatorStep(v) ==
  Check(v) \/ LinkCopy(v) \/ Judge(v) \/ Raise(v)

(***************************************************************************)
(* The main thread.                                                        *)
(***************************************************************************)
UnchangedByMain == <<turn, judge>>

\* _completed_download_count: a PDF in the download directory is complete,
\* whatever its record says.  A new run knows what the records say, not what was
\* told to them.
Healed(record) ==
  LET status == IF record.told = "COMPLETED" /\ ~record.local THEN record.told ELSE record.status
  IN  Wrote(record, status)

Stored == {d \in Doc : Healed(ledger[d]).status = "COMPLETED"}
Unsettled == {d \in Doc : Healed(ledger[d]).status \in {"OPEN", "FAILED_FOR_ROUND"}}

\* A restored job keeps the run_id of the run that first queued it.
RestoredJob(d) ==
  [doc |-> d, run |-> ledger[d].run, again |-> TRUE,
   attempt |-> IF ledger[d].status = "FAILED_FOR_ROUND"
               THEN ledger[d].attempt + 1 ELSE ledger[d].attempt]

Start ==
  /\ pc \in {"over", "done"} /\ run < MaxRuns
  /\ run' = run + 1
  /\ metrics' = Fresh(Cardinality(Stored))
  /\ rows' = [w \in Worker |-> "IDLE"] /\ net' = <<>>
  /\ ledger' = [d \in Doc |-> Healed(ledger[d])]
  /\ items' = {d \in Stored : ledger[d].verdict \notin
                               Verdicts \union {"DUPLICATE_PENDING"}}
  /\ backlog' = {RestoredJob(d) : d \in Unsettled}
  /\ pc' = "restore" /\ item' = NoDoc
  /\ UNCHANGED <<UnchangedByMain, bus, drain, jobs, outcomes, stage2Queue>>

\* _restore_pending_validation_jobs
Restore ==
  /\ pc = "restore"
  /\ IF items = {} THEN /\ pc' = "page"
                       /\ UNCHANGED <<bus, items, item, stage2Queue, ledger>>
     ELSE \E d \in items : \E next \in {"announce", "landed"} :
            /\ Scheduled(d, next, ledger[d])
            /\ items' = items \ {d}
            /\ item' = d
            /\ pc' = IF next = "announce" THEN next ELSE pc
  /\ UNCHANGED <<UnchangedByMain, net, viewVars, run, drain, backlog, jobs,
                 outcomes>>

AnnounceRestored ==
  /\ pc = "announce"
  /\ Put(<<About("STAGE2_QUEUED", Job2(item))>>)
  /\ pc' = "restore" /\ item' = NoDoc
  /\ UNCHANGED <<UnchangedByMain, net, viewVars, run, drain, items, backlog,
                 jobs, outcomes, stage2Queue, ledger>>

(***************************************************************************)
(* coordinator.drain: the workers' events, the outcomes, the run's events. *)
(***************************************************************************)
Idle == jobs = <<>> /\ Active = {}

Draining == \/ pc \in {"page", "approve", "last"}
            \/ pc = "put" /\ Len(jobs) >= MaxSize
            \/ pc = "drain" /\ ~Idle

AfterDrain == CASE pc = "page" -> "turn" [] pc = "approve" -> "admit"
                [] pc = "last" -> "rounds" [] OTHER -> pc

DrainPool ==
  /\ drain = "no" /\ Draining
  /\ pc \in {"put", "drain"} => net # <<>> \/ bus # <<>> \/ outcomes # <<>>
  /\ rows' = AllPresented(rows, net) /\ net' = <<>>
  /\ backlog' = backlog \union
       {[outcomes[i].job EXCEPT !.attempt = @ + 1, !.again = TRUE] :
        i \in {k \in DOMAIN outcomes : /\ outcomes[k].result = "failure"
                                       /\ outcomes[k].job.attempt < MaxAttempts}}
  /\ outcomes' = <<>>
  /\ drain' = "bus"
  /\ UNCHANGED <<UnchangedByMain, bus, metrics, run, pc, items, item, jobs, stage2Queue,
                 ledger>>

DrainBus ==
  /\ drain = "bus"
  /\ Refresh(bus)
  /\ drain' = "no" /\ pc' = AfterDrain
  /\ UNCHANGED <<UnchangedByMain, net, rows, run, items, item, backlog, jobs,
                 outcomes, stage2Queue, ledger>>

(***************************************************************************)
(* Discovery, Stage 1 and the admission of the approved documents.         *)
(***************************************************************************)
New == {d \in Doc : ledger[d].status = "none"}

\* A page of documents goes to the evaluator.
Discover ==
  /\ pc = "turn"
  /\ \E batch \in {listed \cap New : listed \in Pages} \ {{}} :
       /\ items' = batch
       /\ Refresh(bus \o
            <<Event("DOCUMENT_DISCOVERED", run, NoDoc, Cardinality(batch)),
              Event("STAGE1_STARTED", run, NoDoc, Cardinality(batch))>>)
  /\ pc' = "stage1"
  /\ UNCHANGED <<UnchangedByMain, net, rows, run, drain, item, backlog, jobs,
                 outcomes, stage2Queue, ledger>>

LastPage ==
  /\ pc = "turn" /\ pc' = "drain"
  /\ UNCHANGED <<UnchangedByMain, busVars, viewVars, run, drain, items, item,
                 backlog, jobs, outcomes, stage2Queue, ledger>>

Evaluated ==
  /\ pc = "stage1"
  /\ \E approved \in SUBSET items :
       /\ ledger' = [d \in Doc |-> IF d \notin items \ approved THEN ledger[d]
                                   ELSE Wrote(ledger[d], "STAGE1_REJECTED")]
       /\ Put(<<Event("STAGE1_APPROVED", run, NoDoc, Cardinality(approved)),
                Event("STAGE1_REJECTED", run, NoDoc, Cardinality(items \ approved))>>)
       /\ items' = approved
       /\ pc' = IF approved = {} THEN "page" ELSE "approve"
  /\ UNCHANGED <<UnchangedByMain, net, viewVars, run, drain, item, backlog, jobs,
                 outcomes, stage2Queue>>

NotEvaluated ==
  /\ pc = "stage1"
  /\ Refresh(Append(bus, Event("STAGE1_FAILED", run, NoDoc, Cardinality(items))))
  /\ items' = {} /\ pc' = "page"
  /\ UNCHANGED <<UnchangedByMain, net, rows, run, drain, item, backlog, jobs,
                 outcomes, stage2Queue, ledger>>

\* The record of a job is written before the queue can see it.
Admit ==
  /\ pc = "admit" /\ items # {}
  /\ \E d \in items, local \in BOOLEAN :
       /\ item' = [doc |-> d, attempt |-> 1, run |-> run, again |-> FALSE]
       /\ items' = items \ {d}
       /\ ledger' = [ledger EXCEPT ![d] =
                       [Wrote(@, "OPEN") EXCEPT !.attempt = 1, !.run = run,
                                                !.local = local]]
  /\ pc' = "put"
  /\ UNCHANGED <<UnchangedByMain, busVars, viewVars, run, drain, backlog, jobs,
                 outcomes, stage2Queue>>

PageDone ==
  /\ pc = "admit" /\ items = {}
  /\ Refresh(bus)
  /\ pc' = "page"
  /\ UNCHANGED <<UnchangedByMain, net, rows, run, drain, items, item, backlog, jobs,
                 outcomes, stage2Queue, ledger>>

Enqueue ==
  /\ pc = "put" /\ drain = "no" /\ Len(jobs) < MaxSize
  /\ jobs' = Append(jobs, item)
  /\ pc' = "emit"
  /\ UNCHANGED <<UnchangedByMain, busVars, viewVars, run, drain, items, item,
                 backlog, outcomes, stage2Queue, ledger>>

\* A worker may have started the job before this.
Emit ==
  /\ pc = "emit"
  /\ Put(<<About(IF item.again THEN "RECOVERY_QUEUED" ELSE "DOWNLOAD_QUEUED", item)>>)
  /\ pc' = IF item.again THEN "retry" ELSE "admit"
  /\ item' = NoDoc
  /\ UNCHANGED <<UnchangedByMain, net, viewVars, run, drain, items, backlog, jobs,
                 outcomes, stage2Queue, ledger>>

(***************************************************************************)
(* The recovery rounds and the end of a run.                               *)
(***************************************************************************)
DrainedOut ==
  /\ pc = "drain" /\ drain = "no" /\ Idle
  /\ pc' = "last"
  /\ UNCHANGED <<UnchangedByMain, busVars, viewVars, run, drain, items, item,
                 backlog, jobs, outcomes, stage2Queue, ledger>>

Round ==
  /\ pc = "rounds" /\ backlog # {}
  /\ items' = backlog /\ backlog' = {}
  /\ pc' = "retry"
  /\ UNCHANGED <<UnchangedByMain, busVars, viewVars, run, drain, item, jobs,
                 outcomes, stage2Queue, ledger>>

Retry ==
  /\ pc = "retry" /\ items # {}
  /\ \E job \in items :
       /\ item' = job
       /\ items' = items \ {job}
       /\ ledger' = [ledger EXCEPT ![job.doc] =
                       [Wrote(@, "OPEN") EXCEPT !.attempt = job.attempt]]
  /\ pc' = "put"
  /\ UNCHANGED <<UnchangedByMain, busVars, viewVars, run, drain, backlog, jobs,
                 outcomes, stage2Queue>>

RoundAdmitted ==
  /\ pc = "retry" /\ items = {}
  /\ Refresh(bus)
  /\ pc' = "drain"
  /\ UNCHANGED <<UnchangedByMain, net, rows, run, drain, items, item, backlog, jobs,
                 outcomes, stage2Queue, ledger>>

\* The last refresh; validators may still be at work.
Finish ==
  /\ pc = "rounds" /\ backlog = {}
  /\ Refresh(bus)
  /\ pc' = "done"
  /\ UNCHANGED <<UnchangedByMain, net, rows, run, drain, items, item, backlog, jobs,
                 outcomes, stage2Queue, ledger>>

\* The run is cancelled at an await: waiting jobs are dropped.
Cancel ==
  /\ pc \in {"turn", "stage1", "put", "drain", "rounds"} /\ drain = "no"
  /\ jobs' = <<>>
  /\ pc' = "closing"
  /\ UNCHANGED <<UnchangedByMain, busVars, viewVars, run, drain, items, item,
                 backlog, outcomes, stage2Queue, ledger>>

Closed ==
  /\ pc = "closing" /\ Active = {}
  /\ pc' = "over" /\ outcomes' = <<>>
  /\ items' = {} /\ item' = NoDoc /\ backlog' = {}
  /\ UNCHANGED <<UnchangedByMain, busVars, viewVars, run, drain, jobs, stage2Queue,
                 ledger>>

MainStep ==
  \/ Start \/ Restore \/ AnnounceRestored
  \/ DrainPool \/ DrainBus
  \/ Discover \/ LastPage \/ Evaluated \/ NotEvaluated
  \/ Admit \/ PageDone \/ Enqueue \/ Emit
  \/ DrainedOut \/ Round \/ Retry \/ RoundAdmitted \/ Finish
  \/ Cancel \/ Closed

DashboardInit ==
  /\ bus = <<>> /\ net = <<>>
  /\ metrics = Fresh(0) /\ rows = [w \in Worker |-> "IDLE"]
  /\ run = 0 /\ pc = "over" /\ drain = "no" /\ items = {} /\ item = NoDoc
  /\ backlog = {}
  /\ jobs = <<>> /\ outcomes = <<>> /\ turn = [w \in Worker |-> Resting]
  /\ stage2Queue = <<>> /\ judge = [v \in Validator |-> NoDoc]
  /\ ledger = [d \in Doc |->
                 [status |-> "none", told |-> "none", attempt |-> 0, run |-> 0, local |-> FALSE,
                  verdict |-> "", hashed |-> FALSE, copyOf |-> NoDoc]]

DashboardNext ==
  \/ MainStep
  \/ \E w \in Worker : DownloadStep(w)
  \/ \E v \in Validator : ValidatorStep(v)

DashboardSpec == DashboardInit /\ [][DashboardNext]_dashboardVars

(***************************************************************************)
(* Properties.                                                             *)
(***************************************************************************)
\* The attempts of this run's jobs that are published as begun and not yet
\* as ended.
Downloading ==
  {w \in Worker : /\ turn[w].step \in {"working", "announce", "landed"}
                  /\ turn[w].job.run = run /\ ~ledger[turn[w].job.doc].local}

\* With the events that wait for the next refresh, the dashboard counts
\* exactly the attempts under way: none is lost, counted twice, or taken from
\* another run, though the runs share one bus and a new run begins while
\* events of a cancelled one are still on it.
ActiveIsExact ==
  Metered(metrics, bus, run).downloading = Cardinality(Downloading)

Outcome(status) ==
  Cardinality({d \in Doc : /\ ledger[d].told = status /\ ledger[d].run = run
                           /\ ~ledger[d].local})

\* When a run has ended normally, its metrics agree with what the workers told
\* _update_download_state about the documents it queued: the PDFs they fetched
\* and the ones they gave up (download_failures of the result); nothing is in
\* progress.  The records on disk differ from it by the dropped writes alone.
CountsAgree ==
  pc = "done" =>
    /\ metrics.stored = Outcome("COMPLETED")
    /\ metrics.permanent = Outcome("PERMANENTLY_FAILED")
    /\ metrics.downloading = 0 /\ metrics.stage1Pending = 0

\* The counters of a run agree with its attempts at every moment and with its
\* documents at its end.
MetricsAgree == ActiveIsExact /\ CountsAgree

\* The Stage 2 counters are the sizes of the phases, and a document whose
\* verdict was published no longer shows as being validated, whatever the
\* order of its events and however often it was queued.
Stage2RowsAgree ==
  /\ \A k \in Phases :
       metrics.stage2[k] = Cardinality({d \in Doc : metrics.inflight[d] = k})
  /\ \A d \in Doc :
       (/\ ledger[d].verdict \in Verdicts
        /\ \A v \in Validator : judge[v] # d
        /\ \A i \in DOMAIN bus : Own(bus[i], run) => bus[i].doc # d)
       => metrics.inflight[d] # "running"

\* The snapshot never shows more active rows than the queue has active
\* attempts; once the workers' events are drained it shows exactly those,
\* unless an attempt has published its end but not left the queue.
SnapshotFollowsTheQueue ==
  /\ Cardinality(Shown) <= Cardinality(Active)
  /\ (net = <<>> /\ \A w \in Active : turn[w].step = "working")
     => Shown = Active

=============================================================================
