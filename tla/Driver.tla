------------------------------- MODULE Driver -------------------------------
(***************************************************************************)
(* run_scraping_pipeline of app.py as the Streamlit runtime runs it: the   *)
(* search pages, Stage 1, the decisions that fill the download pool, the   *)
(* global recovery rounds, and what a later run rebuilds from the ledger   *)
(* after a normal end, a cancellation or a crash.  What the main thread    *)
(* does between two awaits is one step.                                    *)
(*                                                                         *)
(* Left out: delays, rendering and metrics; a result row without a usable  *)
(* link, which the parser does not return; Stage 2 (Validation); a         *)
(* configuration that lowers max_document_attempts between two runs.       *)
(***************************************************************************)
EXTENDS DownloadPool, FiniteSetsExt, SequencesExt

CONSTANTS Listing,   \* the documents on each result page, in order
          Title,     \* the title of each document
          Target,    \* target_documents
          MaxRuns    \* bound: runs of the pipeline

ASSUME DriverAssumption ==
  /\ Listing \in Seq(Seq(Doc)) /\ DOMAIN Title = Doc
  /\ \A p \in DOMAIN Listing : \A i, j \in DOMAIN Listing[p] :
       <<Title[Listing[p][i]], p, j>> \in Filename
  /\ Target \in Nat \ {0} /\ MaxRuns \in Nat \ {0}

VARIABLES pc,           \* where the main thread is
          run,          \* runs so far
          page,         \* page_number
          cache,        \* pages whose HTML is in the search cache
          todo,         \* candidates of this page or of this round
          downloaded,   \* documents_downloaded
          queued,       \* primary_jobs_queued
          completed,    \* coordinator.completed
          seen,         \* queue_completions_seen
          held,         \* coordinator._admission_failures
          failed,       \* primary_failed_results, or those of the round
          backlog,      \* GlobalRecoveryBacklog
          scheduled     \* the names and identities this run has scheduled

driverVars == <<pc, run, page, cache, todo, downloaded, queued, completed,
                seen, held, failed, backlog, scheduled>>
vars == <<poolVars, driverVars>>

Name(d, p, i) == <<Title[d], p, i>>

Places == {"page", "search", "decide", "admit", "drain", "rounds",
           "retry", "readmit", "redrain", "cancel", "closing", "over"}

\* While a run may put jobs into the pool or wait for them.
Running == pc \notin {"cancel", "closing", "over"}

TypeOK ==
  /\ jobs \in Seq(Job) /\ Len(jobs) <= MaxSize /\ unfinished \in Nat
  /\ turn \in [Worker -> [step : Steps, job : Job \union {NoJob},
                          result : Results]]
  /\ \A w \in Worker :
       (turn[w].job = NoJob) <=> turn[w].step \in {"idle", "exited"}
  /\ outcomes \in Seq([job : Job, result : Results])
  /\ stop \in BOOLEAN /\ closed \in BOOLEAN
  /\ DOMAIN ledger \subseteq Filename
  /\ \A n \in DOMAIN ledger : ledger[n] \in Record
  /\ files \subseteq Filename
  /\ troubles \in 0..MaxTroubles
  /\ pc \in Places /\ run \in 0..MaxRuns
  /\ page \in 1..(Len(Listing) + 1) /\ cache \subseteq DOMAIN Listing
  /\ todo \in Seq(Job)
  /\ downloaded \in Nat /\ queued \in Nat /\ completed \in Nat /\ seen \in Nat
  /\ held \subseteq Job /\ failed \subseteq Job /\ backlog \subseteq Job
  /\ scheduled \in [names : SUBSET Filename, docs : SUBSET Doc]

Init ==
  /\ jobs = <<>> /\ unfinished = 0 /\ outcomes = <<>>
  /\ turn = [w \in Worker |-> Resting("idle")]
  /\ stop = FALSE /\ closed = FALSE
  /\ ledger = <<>> /\ files = {}
  /\ troubles = 0
  /\ pc = "over" /\ run = 0 /\ page = 1 /\ cache = {} /\ todo = <<>>
  /\ downloaded = 0 /\ queued = 0 /\ completed = 0 /\ seen = 0
  /\ held = {} /\ failed = {} /\ backlog = {}
  /\ scheduled = [names |-> {}, docs |-> {}]

(***************************************************************************)
(* The start of a run: the count of finished files, and                    *)
(* _recovery_candidates.                                                   *)
(***************************************************************************)
Settled == {"COMPLETED", "PERMANENTLY_FAILED", "STAGE1_REJECTED"}

\* _completed_download_count: a file on disk is a completed download.
Counted ==
  [n \in DOMAIN ledger |->
     IF n \in files THEN [ledger[n] EXCEPT !.status = "COMPLETED"]
     ELSE ledger[n]]

Previous(r) == IF r.attempt = 0 THEN 1 ELSE r.attempt

\* A failed attempt is spent, an interrupted or a waiting one is not.
Spent(r) == r.status \in {"FAILED_FOR_ROUND", "PARTIAL"}
Exhausted(r) == Spent(r) /\ Previous(r) >= MaxAttempts

Restored(l) ==
  [n \in DOMAIN l |->
     CASE Exhausted(l[n]) -> [l[n] EXCEPT !.status = "PERMANENTLY_FAILED"]
       [] l[n].status = "DOWNLOADING" -> [l[n] EXCEPT !.status = "RECOVERING"]
       [] OTHER -> l[n]]

\* The jobs that may go on, with the attempt each resumes or begins.
Interrupted(l) ==
  {[doc |-> l[n].doc, name |-> n,
    attempt |-> IF Spent(l[n]) THEN Previous(l[n]) + 1 ELSE Previous(l[n])] :
   n \in {m \in DOMAIN l : l[m].status \notin Settled /\ ~Exhausted(l[m])}}

\* add_restored keeps one job of a document, of its lowest attempt.
Lowest(set) ==
  {kept \in SUBSET set :
     /\ \A j, k \in kept : j.doc = k.doc => j = k
     /\ \A j \in set : \E k \in kept : k.doc = j.doc /\ k.attempt <= j.attempt}

Left(n) == IF n < Target THEN Target - n ELSE 0

Start ==
  /\ pc = "over" /\ run < MaxRuns
  /\ LET count == Cardinality({n \in DOMAIN Counted :
                                 Counted[n].status = "COMPLETED"})
         all == Interrupted(Counted)
     IN  \E chosen \in SUBSET all :
           /\ Cardinality(chosen) = Min({Left(count), Cardinality(all)})
           /\ ledger' = IF Left(count) = 0 THEN Counted ELSE Restored(Counted)
           /\ downloaded' = count
           /\ backlog' \in Lowest(chosen)
           /\ scheduled' = [names |-> {j.name : j \in chosen},
                            docs |-> {j.doc : j \in chosen}]
  /\ pc' = "page" /\ run' = run + 1
  /\ UNCHANGED <<jobs, unfinished, turn, outcomes, stop, closed, files,
                 troubles, page, cache, todo, queued, completed, seen, held,
                 failed>>

(***************************************************************************)
(* coordinator.drain: permanent failures are dropped, they are recorded.   *)
(***************************************************************************)
Drained(result) ==
  {outcomes[i].job : i \in {k \in DOMAIN outcomes : outcomes[k].result = result}}

Succeeded ==
  Cardinality({i \in DOMAIN outcomes : outcomes[i].result = "success"})

\* A drain whose failures the driver keeps, and the count of completions.
Collect ==
  /\ failed' = failed \union held \union Drained("failure")
  /\ held' = {} /\ outcomes' = <<>>
  /\ completed' = completed + Succeeded
  /\ downloaded' = downloaded + (completed' - seen)
  /\ seen' = completed'

UnchangedByMain == <<unfinished, turn, stop, closed, files, troubles>>

(***************************************************************************)
(* Discovery.                                                              *)
(***************************************************************************)
\* Mutant: only finished downloads count towards the target.
Outstanding_None(done) == 0
Outstanding(done) == IF queued > done THEN queued - done ELSE 0

TurnPage ==
  /\ pc = "page"
  /\ Collect
  /\ pc' = IF \/ page > Len(Listing)
              \/ downloaded' + Outstanding(completed') >= Target
           THEN "drain" ELSE "search"
  /\ UNCHANGED <<UnchangedByMain, jobs, ledger, run, page, cache, todo, queued,
                 backlog, scheduled>>

\* _stage1_completed_document_ids: every record that carries a candidate.
KnownDocs == {ledger[n].doc : n \in DOMAIN ledger}

NextPage == pc' = "page" /\ page' = page + 1

SearchUnchanged ==
  UNCHANGED <<UnchangedByMain, jobs, outcomes, run, todo, downloaded, queued,
              completed, seen, held, failed, backlog, scheduled>>

\* No provider delivers usable HTML, and the cache has none.
Unavailable ==
  /\ pc = "search" /\ page \notin cache
  /\ NextPage
  /\ SearchUnchanged /\ UNCHANGED <<ledger, cache>>

\* The HTML holds no document record: the last page is behind us.
NoRecords ==
  /\ pc = "search"
  /\ cache' = cache \union {page}
  /\ pc' = "drain"
  /\ SearchUnchanged /\ UNCHANGED <<ledger, page>>

\* The places on the page whose documents Stage 1 has not seen, in order: the
\* batch.  The identifier of a document is its place in the batch.
Batch == {i \in DOMAIN Listing[page] : Listing[page][i] \notin KnownDocs}
BatchName(i) ==
  Name(Listing[page][i], page, Cardinality({k \in Batch : k <= i}))

\* Everything on the page went through Stage 1 before, or the page cannot be
\* prepared, or the evaluation fails.
Unevaluated ==
  /\ pc = "search"
  /\ cache' = cache \union {page}
  /\ NextPage
  /\ SearchUnchanged /\ UNCHANGED ledger

InOrder(set) ==
  {s \in [1..Cardinality(set) -> set] :
     \A k, m \in DOMAIN s : k < m => s[k] < s[m]}

\* The evaluator may select any part of the batch; _approved_batch_documents
\* refuses the answer that names another document, and keeps the order.
Evaluated ==
  /\ pc = "search" /\ Batch # {}
  /\ cache' = cache \union {page}
  /\ Collect
  /\ \E approved \in SUBSET Batch :
       LET rejected == {BatchName(i) : i \in Batch \ approved}
           room == Left(downloaded' + Outstanding(completed'))
       IN  /\ ledger' =
                [n \in DOMAIN ledger \union rejected |->
                   IF n \notin rejected THEN ledger[n]
                   ELSE [doc |-> Listing[page][CHOOSE i \in Batch \ approved : BatchName(i) = n],
                         status |-> "STAGE1_REJECTED",
                         attempt |-> IF Known(n) THEN ledger[n].attempt ELSE 0]]
           /\ \E order \in InOrder(approved) :
                todo' = [k \in 1..Min({room, Len(order)}) |->
                           [doc |-> Listing[page][order[k]],
                            name |-> BatchName(order[k]), attempt |-> 1]]
  /\ pc' = "decide"
  /\ UNCHANGED <<UnchangedByMain, jobs, run, page, queued, backlog, scheduled>>

(***************************************************************************)
(* The decision on one approved document, and its admission.               *)
(***************************************************************************)
DecideUnchanged ==
  UNCHANGED <<UnchangedByMain, jobs, outcomes, run, cache, downloaded,
              completed, seen, held, failed, backlog>>

PageDone ==
  /\ pc = "decide" /\ todo = <<>>
  /\ NextPage
  /\ DecideUnchanged /\ UNCHANGED <<ledger, todo, queued, scheduled>>

Duplicate(job) ==
  job.name \in files \/ job.name \in scheduled.names \/ job.doc \in scheduled.docs

\* Already stored, or retained by what this run has scheduled.
Skip ==
  /\ pc = "decide" /\ todo # <<>> /\ Duplicate(Head(todo))
  /\ todo' = Tail(todo)
  /\ DecideUnchanged /\ UNCHANGED <<ledger, pc, page, queued, scheduled>>

\* QUEUED is recorded before the pool can see the job.
Decide ==
  /\ pc = "decide" /\ todo # <<>> /\ ~Duplicate(Head(todo))
  /\ scheduled' = [names |-> scheduled.names \union {Head(todo).name},
                   docs |-> scheduled.docs \union {Head(todo).doc}]
  /\ queued' = queued + 1
  /\ Write(Head(todo), "QUEUED")
  /\ pc' = "admit"
  /\ DecideUnchanged /\ UNCHANGED <<todo, page>>

Admit ==
  /\ pc \in {"admit", "readmit"} /\ Room
  /\ Put(Head(todo))
  /\ todo' = Tail(todo)
  /\ pc' = IF pc = "admit" THEN "decide" ELSE "retry"
  /\ UNCHANGED <<turn, outcomes, stop, closed, ledger, files,
                 troubles, run, page, cache, downloaded, queued, completed,
                 seen, held, failed, backlog, scheduled>>

\* The pool is full: drain while waiting, and keep the failures.
Backpressure ==
  /\ pc \in {"admit", "readmit"} /\ ~Room /\ outcomes # <<>>
  /\ held' = held \union Drained("failure")
  /\ completed' = completed + Succeeded
  /\ outcomes' = <<>>
  /\ UNCHANGED <<UnchangedByMain, jobs, ledger, pc, run, page, cache, todo,
                 downloaded, queued, seen, failed, backlog, scheduled>>

(***************************************************************************)
(* drain_until_idle and the recovery rounds.                               *)
(***************************************************************************)
\* A pass of drain_until_idle that finds the pool busy.
DrainBusy ==
  /\ pc \in {"drain", "redrain"} /\ ~Idle /\ outcomes # <<>>
  /\ failed' = failed \union held \union Drained("failure")
  /\ held' = {} /\ outcomes' = <<>>
  /\ completed' = completed + Succeeded
  /\ UNCHANGED <<UnchangedByMain, jobs, ledger, pc, run, page, cache, todo,
                 downloaded, queued, seen, backlog, scheduled>>

\* add_failed_attempt: attempt n schedules n + 1, the last one nothing.
Advanced(set) ==
  {[j EXCEPT !.attempt = @ + 1] : j \in {k \in set : k.attempt < MaxAttempts}}

\* It keeps one job of a document, of its highest attempt.
Highest(set) ==
  {kept \in SUBSET set :
     /\ \A j, k \in kept : j.doc = k.doc => j = k
     /\ \A j \in set : \E k \in kept : k.doc = j.doc /\ k.attempt >= j.attempt}

\* The last drain, and the failed turns go to the backlog.
DrainIdle ==
  /\ pc \in {"drain", "redrain"} /\ Idle
  /\ held' = {} /\ outcomes' = <<>> /\ failed' = {}
  /\ completed' = completed + Succeeded
  /\ downloaded' = downloaded + (completed' - seen)
  /\ seen' = completed'
  /\ backlog' \in Highest(backlog \union
                          Advanced(failed \union held \union Drained("failure")))
  /\ pc' = "rounds"
  /\ UNCHANGED <<UnchangedByMain, jobs, ledger, run, page, cache, todo, queued,
                 scheduled>>

\* take_round drains the backlog.
Round ==
  /\ pc = "rounds" /\ backlog # {}
  /\ todo' = SetToSeq(backlog)
  /\ backlog' = {}
  /\ pc' = "retry"
  /\ UNCHANGED <<UnchangedByMain, jobs, outcomes, ledger, run, page, cache,
                 downloaded, queued, completed, seen, held, failed, scheduled>>

Retry ==
  /\ pc = "retry"
  /\ IF todo = <<>> THEN pc' = "redrain" /\ UNCHANGED ledger
     ELSE pc' = "readmit" /\ Write(Head(todo), "RECOVERING")
  /\ UNCHANGED <<UnchangedByMain, jobs, outcomes, run, page, cache, todo,
                 downloaded, queued, completed, seen, held, failed, backlog,
                 scheduled>>

(***************************************************************************)
(* The end of a run.                                                       *)
(***************************************************************************)
EndUnchanged ==
  UNCHANGED <<turn, ledger, files, run, page, cache, downloaded,
              queued, seen, failed, backlog, scheduled>>

\* coordinator.close: what its drain returns is dropped.
Close ==
  /\ pc = "rounds" /\ backlog = {}
  /\ closed' = TRUE /\ pc' = "closing"
  /\ held' = {} /\ outcomes' = <<>> /\ completed' = completed + Succeeded
  /\ EndUnchanged /\ UNCHANGED <<jobs, unfinished, stop, troubles, todo>>

\* The script is cancelled at an await.
Interrupt ==
  /\ Running /\ troubles < MaxTroubles
  /\ troubles' = troubles + 1
  /\ stop' = TRUE /\ pc' = "cancel"
  /\ EndUnchanged
  /\ UNCHANGED <<jobs, unfinished, outcomes, closed, todo, completed, held>>

\* close(cancel_pending): jobs that have not started stay in the ledger.
CancelPending ==
  /\ pc = "cancel"
  /\ jobs' = <<>> /\ unfinished' = unfinished - Len(jobs)
  /\ closed' = TRUE /\ pc' = "closing"
  /\ EndUnchanged
  /\ UNCHANGED <<outcomes, stop, troubles, todo, completed, held>>

\* What the process kept in memory is gone.
Forgotten ==
  /\ jobs' = <<>> /\ unfinished' = 0 /\ outcomes' = <<>>
  /\ turn' = [w \in Worker |-> Resting("idle")]
  /\ stop' = FALSE /\ closed' = FALSE
  /\ page' = 1 /\ todo' = <<>>
  /\ downloaded' = 0 /\ queued' = 0 /\ completed' = 0 /\ seen' = 0
  /\ held' = {} /\ failed' = {} /\ backlog' = {}
  /\ scheduled' = [names |-> {}, docs |-> {}]
  /\ UNCHANGED <<ledger, files, run, cache>>

\* The threads have returned.
End ==
  /\ pc = "closing" /\ Exited
  /\ pc' = "over"
  /\ Forgotten /\ UNCHANGED troubles

\* The process dies; the ledger, the files and the search cache are left.
Crash ==
  /\ pc # "over" /\ troubles < MaxTroubles
  /\ troubles' = troubles + 1
  /\ pc' = "over"
  /\ Forgotten

MainStep ==
  \/ Start \/ TurnPage \/ Unavailable \/ NoRecords \/ Unevaluated \/ Evaluated
  \/ PageDone \/ Skip \/ Decide \/ Admit \/ Backpressure
  \/ DrainBusy \/ DrainIdle \/ Round \/ Retry \/ Close \/ CancelPending \/ End

ThreadStep(w) == WorkerStep(w) /\ UNCHANGED driverVars

Next == MainStep \/ Interrupt \/ Crash \/ \E w \in Worker : ThreadStep(w)

Spec == Init /\ [][Next]_vars

\* Some thread or the event loop is always scheduled, and an attempt comes to
\* its end: its requests have timeouts and a budget (Routes).
Advance(w) ==
  \/ Take(w) \/ Begin(w) \/ Land(w) \/ Complete(w) \/ Fail(w) \/ Report(w)
  \/ TaskDone(w) \/ Exit(w)

Progress ==
  MainStep \/ \E w \in Worker : Advance(w) /\ UNCHANGED driverVars

FairSpec == Spec /\ WF_vars(Progress)

(***************************************************************************)
(* Properties.                                                             *)
(***************************************************************************)
\* When drain_until_idle has returned, every document this run has scheduled
\* has ended, waits in the backlog, or has used up its attempts: no outcome
\* slips between the threads, the drains under backpressure and the rounds.
NothingForgotten ==
  pc = "rounds" =>
    \A d \in scheduled.docs :
      \/ \E job \in backlog : job.doc = d
      \/ \E n \in DOMAIN ledger :
           /\ ledger[n].doc = d
           /\ \/ ledger[n].status \in {"COMPLETED", "PERMANENTLY_FAILED"}
              \/ ledger[n].attempt = MaxAttempts

\* Discovery never schedules more documents than the target leaves, however
\* completions interleave with the pages and with the waits for the pool.
TargetRespected ==
  Running =>
    LET existing == downloaded - seen
    IN  existing + queued <= IF existing < Target THEN Target ELSE existing

\* Every run comes to its end, whatever fails, and so does the last.
EveryRunEnds == <>[](pc = "over" /\ run = MaxRuns)
=============================================================================
