# Agentic Scraper: specification and proofs

The repository is a document collector: a search loop discovers candidate PDFs,
an LLM stage selects them, download workers fetch them over unreliable mirrors,
and a second stage validates the files. Two copies of the program exist: the
Streamlit runtime at the root (`src/app.py`, `src/app/`) and the headless Colab
runtime under `src/Colab_Version/source`, which adds the fair scheduler's later
fixes, strict integrity, Drive snapshots and the distributed mode. Each part is
modelled from the copy that drives it: scheduler, ledger, transfer, Stage 2,
snapshots and coordination from Colab; download pool, page loop, routes and
dashboard from Streamlit. In sections 1 and 3 to 6 paths are relative to the Colab copy.

## 1. The system and its parts

| Part | State it keeps | Operations | Talks to |
|---|---|---|---|
| Fair download scheduler `app/fair_download_queue.py` | three deques, running table, known / completed / terminal identities, cursor, closed flag | try_enqueue, select and dispatch, execute, next state, close | workers, network deadlines, ledger (`on_defer`), coordinator (outcomes) |
| Download worker `app.py` 766-1414, 2112-2331 | `.part` file, PDF, session | download_file, parse_mirror_and_download, _download_worker | network manager, ledger, Stage 2 |
| Ledger `app.py` 303-714, 2007-2109 | `downloads.json`, one entry per file | update under a thread and a process lock, reconcile files, restart recovery | everything |
| Stage 2 `app.py` 1531-1951, `app/pipeline_scheduler.py` 116-198 | bounded queue, known keys, validation status of each entry, timers | schedule, run, propagate to duplicates, restore, stop | ledger, LLM |
| Download pool and backlog `src/app/pipeline_scheduler.py` | queue, threads, backlog | try_enqueue, consume, drain_outcomes, close, add_restored, add_failed_attempt, take_round | driver, ledger |
| Distributed coordination `colab/db.py`, `colab/distributed_coordinator.py` | PostgreSQL rows: claims, tokens, leases, attempts; per-runtime owners | claim, renew, finish, recovery, pages, validation leases, heartbeat, publish | shared files, workers |
| Network manager `app/network_manager.py` | route failures and waits, host limits, proxy health | before_request, gateway_result, rate_limit, result | workers, scheduler |
| Drive snapshots `colab/storage.py` | copied files, manifest | sync, restore | ledger, files |
| Events and metrics `src/app/pipeline_events.py` | event bus, counters, worker rows, snapshot | publish, drain, consume, build | driver, workers, display |
| Pipeline driver `app.py` 2729-3556, `colab/pipeline_runner.py` | page cursor, targets | search loop, shutdown | all |

What is hard in it: one dispatcher, many executor threads, a producer and a
shutdown share the scheduler, whose workers leave the lock between deciding and
enqueuing; ledger transitions are read-modify-write under a lock that may time
out; Stage 2 jobs, timers and duplicate propagation write the same status field;
processes crash and restart with files and ledger in any relative order; leases
expire under live owners. `PROJECT.json` lists each hazard at its line.

What makes each part correct:

* scheduler: a document has one owner, nothing is lost, nothing finished comes
  back, failures are bounded, deferrals are free, no kind of work starves;
* ledger: a finished file is never forgotten or resurrected, a restart resumes the
  attempt that was interrupted, COMPLETED means a verified file;
* Stage 2: at most one validation of a file, no result is overwritten by a late
  QUEUED, RUNNING or PENDING, every duplicate learns its canonical's result;
* coordination: one owner per token, only the current owner completes, an attempt is
  charged once, a searched page and a verdict stand, no lease is held for ever;
* driver: no outcome is forgotten, the target bounds what is scheduled, every run ends;
* routes: one transfer a turn, a host that asked to be left alone is, a stored
  document ends the search;
* transfer: the promoted PDF is the server's file, the partial only ever grows or
  restarts from zero;
* snapshots: what is on Drive is whole, and a run that ends has saved everything;
* dashboard: counters, rows and snapshot agree with the ledger and the pool.

## 2. Modules

| Module | Models | Checked | Proved |
|---|---|---|---|
| `FairQueue`, `FairShare` | the fair scheduler (section 3) | `queue_lifecycle`, `queue_share` | all its invariants, in `FairQueueProofs` |
| `DocumentLifecycle`, `FairQueueLifecycle` | what it promises per document, and the refinement | `queue_lifecycle` | the refinement, in `FairQueueProofs` |
| `Validation`, `ValidationHistory` | Stage 2: queue, jobs, timers, duplicates, restore, end of a run (4) | `validation_pool`, `validation_restart` | all safety properties, one of them under a condition |
| `Leases` | ownership of documents in the distributed mode (5) | `leases` | all safety properties |
| `Transfer` | one document: download, `.part` and Range, ledger record, integrity check, crash and restart (6) | `transfer` | all safety properties |
| `DownloadPool`, `Driver` | the pool of threads, the page loop that fills it, recovery rounds, restarts (7) | `driver` | both safety properties |
| `Routes` | mirrors, nested pages, gateways and waits of one attempt (8) | `routes` | all its properties, in `StreamlitProofs` |
| `Runtimes` | what the next two share: the runtimes of one database and what may go wrong (9) | | |
| `SharedPages` | search pages, shared Stage 1 decisions and recovery between runtimes (9) | `shared_pages` | types; searched pages stand |
| `SharedVerdict` | validation leases, shared verdicts and identities (9) | `verdict` | both safety properties |
| `Snapshot` | Drive snapshots and the runner around them (10) | `snapshot` | all its properties |
| `Dashboard` | event bus, metrics, rows and snapshot (11) | `dashboard` | all its properties, in `StreamlitProofs` |

`Driver` extends `DownloadPool` and composes its actions with the main thread's;
`FairQueueLifecycle` instantiates `DocumentLifecycle` under a refinement mapping. The
other modules stand beside each other: what one takes from another is a
nondeterministic step there (a validation that ends in `Snapshot`, a finished transfer in
`SharedPages`, a deadline in `FairQueue`), named in its header. The `MC*` modules give
constants their values for TLC. A `TypeOK` states the types of every component but `Dashboard`,
whose types are stated where they are proved (`DashboardTypes`); theorems establish them
for all components. Worth adding next: `FairQueue` composed with the ledger entries of
several documents.

## 3. The fair scheduler

### Model and code

`FairQueue` has one variable per field of `FairDownloadQueue`: `queues`, `known`,
`completed_ids`, `terminal_ids`, `running`, `cursor`, `closed`, and `job` for the
dictionaries that travel through the queues (only the keys that scheduling reads).
Three more variables hold what the code keeps on thread stacks: `step[w]` says how
far the turn in slot `w` has come, `verdict[w]` how its worker ended and `next[w]`
what `_next_state` returned. `slotKind` is the `_queue_kind` of the object in the
running table: `recovery_active` reads it, not the kind the document has meanwhile.

| Action | Code |
|---|---|
| `Enqueue` | `try_enqueue` |
| `Dispatch` | one successful pass of the `_dispatch` loop with its `_select` |
| `Start` | an executor thread picks the future up |
| `EndTurn` | the worker returns or raises, and `_next_state` decides, in one critical section |
| `Record` | `on_defer`, outside the lock; its failure is only counted |
| `Requeue` / `Report` | the second critical section: back into a queue, or an outcome |
| `Release` | the `finally`: the slot is removed from the running table |
| `RouteBlocked`, `DeadlinePasses` | the network manager's deadlines and the clock, as the set `waiting` |
| `Stop`, `Close` | `stop_event.set()` and `close(cancel_pending=True)` in the driver's `finally` |

Abstracted: clock values (a deadline is either in the future or not), pacing between
admissions (a delay the code waits out itself), counters and telemetry. The worker's
result is any of the results `_download_worker` and the coordinator return; the
distributed claim may replace the attempt number, `ClaimJump` says how far.
`Close` follows the executor: futures no thread has picked up may be cancelled, and
their entries stay in the running table for good, as in the code.

`DocumentLifecycle` is the abstract specification: per document a phase, the failed
turns it has used, and whether the scheduler is open. `FairQueueLifecycle` gives the
refinement mapping.

### Properties

* `OneOwner`, `OneTurnAtATime`: one place per document; the second is about the window
  between `Requeue` and `Release`, when a document is queued and its old turn is still
  in the running table. `active_ids` in `_select` is what makes it hold.
* `NothingLost`: while open, the known identities are exactly what queues and workers hold.
* `BypassBounded`, `RecoveryShare` (`FairShare`): primary work on offer is passed over at
  most once in a row, the other kinds at most four times; with primary work ready no
  admission of the other kinds takes more than `max(1, ceil(0.4 * workers))` slots.
  `FairShare` adds one history variable that counts how often a kind was passed over.
* `ImplementsLifecycle`: exactly one next state, deferral is free, no life after the end.
* `EveryDocumentSettles`: an accepted document leaves the scheduler, unless it is closed.

### Runs

| Run | Instance | Shows |
|---|---|---|
| `queue_share` | 3 documents at their last attempt, primary, recovered or handed on, 2 workers, queue of 2 | `BypassBounded`, `RecoveryShare`, 0.68 million states |
| `queue_lifecycle` | 2 documents, 2 workers, queue of 2, 2 attempts, attempt jump 1, 1 deferral or route block; fresh jobs, and restored ones at their last attempt | the three invariants, refinement and liveness, 0.18 million states |

Two documents and two workers are enough for every conflict over one slot, one
document and one window; three documents are needed for the three kinds to compete.
`MaxTroubles` bounds deferrals and route blocks: for safety it only limits the depth,
for liveness it states that the environment defers a document finitely often (with
endless rate limiting no scheduler could finish it). Documents that fail beyond these
bounds are covered by the proofs.

Fairness: weak fairness of admission (the dispatcher loops until closed and wakes at
least every 50 ms), of each worker's next step (requests carry connect and read
timeouts, the callback a lock timeout), and of deadlines passing. Nothing is assumed
of the producer, `Stop` or `Close`. Deadlock checking is off: a closed queue stops.

### Observation

When the stop event interrupts a transfer, the turn is counted as a failed attempt.
`_download_worker` raises `InterruptedError` and swallows it in its own `except Exception`
(`app.py:2291`), so `FairDownloadQueue._execute` never sees the exception it would treat
as a cancellation (`fair_download_queue.py:225`). The next attempt, or at the last attempt
the permanent failure, is then persisted, although the queue is about to be closed.

## 4. Stage 2 validation

### Model and code

Download workers and the search loop hand finished files to a bounded pool. Each
critical section of the ledger lock, of the pool's own lock, and each file operation
is one step of `Validation`; what a thread read earlier is in its local record.

| State | Code |
|---|---|
| `copies`, `sound`, `report` | the bytes at the managed path, in `approved/` and in `rejected/`; whether the parser accepts those at the managed path; the last validation report |
| `ledger` | the fields of an entry of `downloads.json` that a decision of this pipeline reads |
| `queue`, `known` | `BoundedWorkQueue._jobs` and `_known` |
| `job[w]`, `late` | the stack of a pool worker with its timer; timers that have tested `finished` and not yet written |
| `call[c]` | the stack of a caller of `_schedule_validation` |
| `phase`, `todo`, `admitted`, `fetch`, `runs` | where `run_scraping_pipeline` is, and what its loops have still to visit |

| Actions | Code |
|---|---|
| `Fetch`, `Land`, `Record`, `Rediscover` | a transfer starts, its file is renamed into place, the worker or the search loop writes INTEGRITY_PENDING |
| `Read`, `Check`, `Queue`, `Put`, `Refuse` | `_schedule_validation` around `contains` and `try_enqueue` (`app.py` 1866-1928) |
| `Take`, `Leave` | `BoundedWorkQueue._consume` |
| `Open` ... `Run` | `_run_validation_job` up to RUNNING; `Inspect` and `Discard` are `_record_pdf_integrity` |
| `Hash`, `Inherit` | `_record_completed_content_hash`, then the duplicate's own write |
| `Evaluate` ... `Verdict` | `_validate_pdf_stage2`: reuse of a report, evaluation, move of the file, report, verdict |
| `Confirm`, `Propagate`, `Copy`, `Error` | back in the job: repair, propagation to duplicates, exceptions |
| `Expire`, `LateWrite` | the two halves of `mark_pending_if_slow` |
| `RestoreNext`, `Recover` | `_restore_pending_validation_jobs`, `_recovery_candidates` |
| `EndSearch`, `Stopped`, `Admitted` | the loop at the end of a run that stops the pool and admits what was refused |
| `Interrupt`, `Closed`, `Abandon` | the runner's `finally`; cancellation before, or while, the run waits for its pool |
| `Rerun`, `Crash` | another run in the same process; a new process |

`Resolved` is the heart of it: what `_update_download_state` stores for a requested
COMPLETED or INTEGRITY_PENDING follows from the entry and from the files, not from the
request. `Verified` is `verified_download`.

Abstracted: WAITING stands for QUEUED and RECOVERING, RETRY for PARTIAL and
FAILED_FOR_ROUND; `full` says that the reason of an entry is the one written when the
pool had no room. `Twins` are the files with equal content, `Damaged` those whose
transfer may leave bytes the parser refuses. The evaluator may decide either way, not
decide, or raise. Entries are scanned in ledger order, 1, 2, ...

Left out: the non-strict mode with its PDF_INVALID verdict, files found in a local
library, a timeout of the ledger's process lock, the attempt limit of the recovery scan,
events, and `scan_and_validate_existing_pdfs`. One bound is named in the module: no run
is started while the pool that an interrupted run abandoned still works.

### Properties

* `OneValidator`: a file is in the pool once, and `known` is exactly what the pool holds.
  Two callers may pass `contains` for one file; `try_enqueue` alone keeps them apart.
* `CompletedIsSound`: COMPLETED means bytes the parser accepted, whichever timer,
  duplicate or verdict writes late, and after a crash.
* `VerdictOfTheseBytes`: a verdict, inherited or not, was reported for the same bytes.
* `VerdictNotLost`: a reported verdict is in the ledger, or in an entry that the next run
  restores. A late timer does overwrite verdicts with PENDING; this says that it costs a
  second look and nothing else. It is stated for the files that were not transferred a
  second time beside bytes of their own, and `ValidationHistory` adds the history variable
  `again` that remembers which ones were (see the observations).
* `FailureStands`: the record of an integrity failure is replaced by a new transfer only.
* `RunDrainsPool`: a run that ends by itself has emptied its pool and admitted every file
  that had been refused for lack of room.
* `EveryRunEnds`: the pool drains, and the passes that admit refused files stop.

### Runs

| Run | Instance | Shows |
|---|---|---|
| `validation_pool` | 2 identical files, one may be damaged, 2 workers, 2 callers on file 1, room for one job, 1 run | `OneValidator`, `RunDrainsPool`, `FailureStands`; 1.0 million states |
| `validation_restart` | the same files, 1 worker, 2 runs with an end, an interruption or a crash at any step | `CompletedIsSound`, `VerdictNotLost`, `VerdictOfTheseBytes`, `EveryRunEnds`; 1.25 million states |

Two files are needed for an original and its duplicate, two workers for both to be
validated at once, room for one job so that the second is refused; the second run starts
from every state in which the first can stop, and a third would start from states of the
same kind. The pool workers are interchangeable, and only `validation_pool`, which has no
liveness property, uses that symmetry.

Fairness (`validation_restart`): the threads of callers, of the pool and of the run take
their next step when they stay able to (locks have timeouts, the search ends at its target
or its last page, and an evaluation is assumed to return: the code sets no timeout of its
own). Nothing is assumed of new transfers, timers, interruptions and crashes. Deadlock
checking is off, because the last run is the last.

### Observations

The model reaches these states, which is why no property excludes them:

* `contains`, the QUEUED write and `try_enqueue` are three critical sections (`app.py` 1904,
  1910, 1914). When the search loop and a download worker hand over one file, the slower one
  writes QUEUED over RUNNING, which the comment at line 1908 rules out. The verdict written
  at the end repairs the entry, unless the process stops first; then the file is restored.
* An entry that is itself a duplicate is accepted as the original of another (`app.py` 692).
  After a restart two identical files can wait for each other for ever
  (compare `DEVELOPER_GUIDE.md:628`).
* A validated file can be fetched again. A restart restores its entry, and the restored job
  moves the PDF to `approved/` or `rejected/` as soon as its report is read; its timer, when
  it writes between the move and the verdict (`app.py` 1770-1778), finds nothing at the
  managed path and makes the entry INTEGRITY_PENDING. If the process stops there,
  `_recovery_candidates` (2042-2096) takes the document for unfinished and transfers it once
  more, beside the validated copy. Then two copies exist, and what the report says of one
  may be unknown to the ledger of the other.
* A duplicate reads that its original is undecided, the original is decided and serves its
  waiting duplicates, and then the duplicate starts to wait (`app.py` 1789). Nothing
  restores it.

## 5. Distributed ownership

### Model and code

In the distributed mode several runtimes share one PostgreSQL row per document and a
directory of finished PDFs. `Leases` models how a runtime comes to own a document, keeps
it, publishes it and gives it back. A transaction, a file operation, and the arrival of a
reply that sets a local deadline are one step each.

| State | Code |
|---|---|
| `row[d]` | the fields of table `documents` that a WHERE clause reads or an UPDATE of the claim protocol writes |
| `objects` | the files below `objects/`, named by the token of the claim that wrote them |
| `job` | per runtime and document, the stack of `execute` and `publish` with `owner` (token, `deadline`, `lost`) |
| `beat` | a `renew` whose result the heartbeat thread has not yet turned into a deadline |
| `up`, `reached` | `coordination_ok`; whether enough results are approved |

| Actions | Code |
|---|---|
| `Begin`, `Look`, `Check`, `Invalidate`, `Claim`, `Granted`, `Withdraw` | `execute` up to the registration of the owner, with `invalidate_missing` and `claim` |
| `Fetch`, `TransferFails`, `Defer` | the transfer, in which every request and every chunk calls `ensure_owner` |
| `Upload`, `Verify`, `Commit`, `Committed` | `publish`; `Commit` is `finish` with a key |
| `Settle` | the `finally` of `execute`: `finish` without a key, or its failure |
| `Renew`, `Renewed`, `HeartbeatFails`, `Sweep` | `_heartbeat`; `Sweep` is its end, with the UPDATE in `recovery` |
| `Tick`, `Lose`, `ReachTarget`, `Crash` | time, the shared directory, other parts of the program, the machine |

Time is discrete. `row[d].left` is what remains of the lease on the server's clock,
`local` what remains until the owner's own deadline, which is `Margin` earlier but counts
from the arrival of the reply. A reply travels at most `MaxDelay` ticks, and the module
assumes `MaxDelay <= Margin < Lease`: with slower replies than the margin of five seconds
two runtimes could believe in their claims, and the code has nothing against it.

Abstracted: the six statuses of an unfinished document are one (no decision tells them
apart); `not_before` lies in the future or not, and a tick ends every wait; `Defer` is every
turn that ends with a refund. A runtime that dies is replaced by another under the same
name: the claims of the dead one are held by its instance id, but nobody has their tokens.

### Properties

* `OneTransfer`: at most one runtime that `ensure_owner` lets request, receive or upload.
  It relates the clocks of two runtimes and of the server through claims, slow replies,
  renewals, failed heartbeats, stale releases and takeovers.
* `CompletionStands`: a completion whose object is there is not undone. A stale owner may
  still release, a sweep may run, and a runtime may have seen an older object missing
  and invalidate only now.
* `LastAttemptCounts`: nobody but the owner gives up a document that has a live claim.
* `EveryDocumentSettles`: with fair threads, a document is completed or given up unless
  the target is reached first, whoever dies while it owns it.

### Runs

| Run | Instance | Shows |
|---|---|---|
| `leases` | 2 runtimes, 1 document, lease 3, margin 1, delay 1, 2 attempts, 1 trouble | the three safety properties and liveness; 0.42 million states |

Documents meet only in the heartbeat thread, which renews one after the other, and in a
failed heartbeat; the proofs cover any number of them. Two runtimes give every owner a
competitor, two attempts a takeover that is not the last, a lease of three with a margin
of one room for a renewal that is late and still in time. `MaxTroubles` bounds deferred
turns, database failures and crashes: unbounded deferral would also refund for ever. The
safety properties are proved for all values; the run was also made with two troubles,
0.70 million states up to symmetry, without the liveness property.

Fairness: threads go on, and requests time out (weak fairness of a turn's
next step and of a reply); the recovery poll offers every unsettled document to the
scheduler of each runtime (weak fairness of `Begin`); every round of the heartbeat thread
ends with its poll unless the database fails, which happens finitely often (strong
fairness of `Sweep`, because a renewal on its way disables it again and again); time passes.
Deadlock checking is off: settled documents at full troubles need no further step.

## 6. The transfer and its record

### Model and code

`Transfer` follows one document through turns, runs and crashes. Each ledger transaction,
each file operation and each reply of a server is one step, and a process may die between
any two of them.

| State | Code |
|---|---|
| `part`, `pdf` | `<filename>.pdf.part` and the finished file, as sequences of the document's units 1, 2, ... |
| `entry` | status, attempt, handoff count, byte count and integrity of the entry in `downloads.json`, and whether it has a candidate |
| `job` | the document in memory: where its turn is, its attempt and handoffs, what the server sends next, `DownloadProgress.last_bytes` |
| `check` | its integrity check in the validation pool: to be done, or done with the file moved and not yet recorded |
| `run`, `seen` | how far `run_scraping_pipeline` is, and `scheduled_filenames` |
| `spent` | history: failed turns, handoffs and refused files |

| Actions | Code |
|---|---|
| `Discover`, `Rediscover` | Stage 1 approves the document; its file is missing, or there already |
| `Persist`, `Offer`, `Dispatch` | `enqueue`: the record first, then the queue; admission |
| `Begin`, `Resolve`, `Defer` | `_download_worker` up to the route; a deadline or a 429 raises `RequestDeferred` |
| `Enter`, `Open`, `Refused`, `Unsatisfiable`, `Restarts`, `Resumes` | `download_file`: its records, and the reply by its status; 200 starts from zero, 206 goes on |
| `Chunk`, `Break`, `EndOfStream`, `Promote`, `RecordPromoted`, `RecordLost` | the stream, its checkpoints, and its end |
| `Succeed`, `Fail`, `Deferred`, `Requeue` | back in the worker; `_next_state` with `on_defer`; back in the queue |
| `Certify`, `Discard`, `Reject` | `_record_pdf_integrity`; the file is moved before the record says so |
| `Start`, `Count`, `Recover` | the start of a run: `_completed_download_count`, `_restore_pending_validation_jobs`, `_recovery_candidates` |
| `Stop`, `Close`, `End`, `Crash` | the stop event, the `finally`, the end of a run, the end of a process |

`Known`, `Waits`, `Retries`, `Downloads`, `Pending` and `Abandoned` say what
`_update_download_state` makes of an entry. A transaction whose lock or file is busy is
dropped (`Saves`), and no caller repeats it; the worker then goes on with what it has in
memory.

Abstracted: WAITING stands for the seven states that resume the attempt they name, RETRY for the three that cost it.
Every server that has the document sends the same units; an empty `.part` counts as none.
A checkpoint is due after `Gate` units and possible at every call, because two seconds may
have passed. One route is tried in a turn, as with `defer_download_retries`.

Left out: the settings without scheduler admission, the distributed mode, local library
files, the limit of the recovery scan, route scores. One document is enough for what is
asked here: documents share the ledger's lock, whose absence is a trouble, the slots of
`FairQueue`, and rate limits, which appear as deferrals.

### Properties

* `BytesInOrder`: both files are a prefix of the document. A partial is resumed, restarted by
  a server that ignores Range, dropped on 416, or made from a file the parser called truncated.
* `NotFetchedAgain`: no queued or running turn while there is a finished file, including one
  that a crash left without a record.
* `AttemptsPaid`: an attempt number above the first was paid for by a failed turn, a refused
  file or a trouble. The worker, the scheduler, the integrity check and the restart all
  count attempts, from memory or from the record; none is counted by two of them. A crash
  may pay for one: between `Enter` and `Open` the entry of a resumed transfer says PARTIAL
  (`app.py:794`), which a restart reads as a failed attempt.
* `EveryDocumentEnds`: a document whose candidate was recorded is completed or given up.

That one more holds is proved only: the durable byte count follows the partial
(`CheckpointsKeepUp`). That COMPLETED is final is not claimed, since it is not true of the
code: the timer of Stage 2 may write INTEGRITY_PENDING over the record of a file that was moved
and whose new path is not recorded yet (`app.py:1768`; `Validation` models the timer), and an
exception after the record (an upload, `_schedule_validation`) makes the turn a failed one.
`Transfer` leaves both writes out.

The end of a document makes an exception (`Overtaken`). The validations that a restart restores run
already when its recovery scan looks at the records (`app.py:2778`, `app.py:2785`). A file that a
check has just moved is then taken for lost (`app.py:2054`), and is transferred once more
while the check records its result. This can repeat at every restart.

### Runs

| Run | Instance | Shows |
|---|---|---|
| `transfer` | a document of 4 units, files under 2 refused, checkpoints every 2, 2 attempts, 1 handoff, 1 deferral, 2 troubles; with or without an old file | the three safety properties and liveness; 0.44 million states |

Four units give a partial that is resumed, checkpointed twice and truncated on either side
of the minimum; two attempts give one that is resumed and one that is the last; one handoff
a turn that keeps its attempt. Two troubles are a dropped record followed by a crash. The number
of runs is not bounded, nor is that of refusals, except in the history.

Fairness: the threads of a turn, of the pool and of the run go on (requests carry timeouts,
an evaluation returns), the dispatcher admits, and somebody starts the next run after one
has ended. Nothing is assumed of searches, stops and crashes; `MaxTroubles` says that they
and the busy locks are finitely many, `MaxDeferrals` the same of rate limits.
Deadlock is checked.

## 7. The driver and the download pool

### Model and code

Paths in this section and the next are relative to `src/`. `DownloadPool` models the threads
that take jobs from a bounded queue and the records their attempts leave in the ledger;
`Driver` adds `run_scraping_pipeline`: what the main thread does between two awaits is one
step, so a thread may act in between.

| State | Code |
|---|---|
| `jobs`, `unfinished`, `turn`, `outcomes`, `stop`, `closed` | `GlobalDownloadQueue`: queue, its `unfinished_tasks`, the stacks of the threads, finished turns, events |
| `ledger`, `files` | `downloads.json` by file name, with the document a record speaks of; finished PDFs |
| `pc`, `run`, `page`, `todo`, `cache` | where the main thread is, the page it treats, the search cache on disk |
| `downloaded`, `queued`, `completed`, `seen` | the four counters from which it computes what the target leaves |
| `held`, `failed`, `backlog`, `scheduled` | failures drained while waiting for room, those of the page or round, `GlobalRecoveryBacklog`, `scheduled_filenames` and identities |

| Actions | Code |
|---|---|
| `Take`, `Begin`, `Request`, `Land`, `Complete`, `Fail`, `Raise`, `Report`, `TaskDone`, `Exit` | `_consume` around `_download_worker` |
| `Start` | `_completed_download_count`, `_recovery_candidates` and the backlog |
| `TurnPage`, `Unavailable`, `NoRecords`, `Unevaluated`, `Evaluated`, `PageDone` | the page loop up to the batch evaluation |
| `Skip`, `Decide`, `Admit`, `Backpressure` | one approved document: duplicates, the record, the wait for room |
| `DrainBusy`, `DrainIdle`, `Round`, `Retry` | `drain_until_idle`, `add_failed_attempt`, `take_round` |
| `Close`, `Interrupt`, `CancelPending`, `End`, `Crash` | the `finally`, a cancelled script, a dead process |

Abstracted: PARTIAL stands for the two statuses an attempt writes that a restart reads
alike; a request is not looked into. Left out: a lock timeout of the ledger (`Transfer`),
Stage 2 (`Validation`), delays, rendering.

### Properties and run

* `NothingForgotten`: when the pool counts as idle, every scheduled document has ended, is
  in the backlog or has used up its attempts. `idle()` reads `unfinished_tasks`, because
  between `get` and the registration of the worker a job is in no other place.
* `TargetRespected`: completions arrive while pages are evaluated and while the main thread
  waits for room, and each is counted once, as a download or as queued work.
* `EveryRunEnds`: whatever is interrupted or raises.

`driver` (0.71 million states): two pages, the second lists one document twice; two threads,
room for one job, two attempts, a target of two, two runs, one crash, cancellation or
exception. Two pages make the target bind in the middle of the second; room for one job
makes every enqueue wait; a second run reads what every interruption left. Fairness: the
event loop or some thread goes on, and an attempt ends (its requests have timeouts and a
budget); nothing is assumed of exceptions and crashes, or of which thread runs. Deadlock
checking is off: the last run is the last.

### Observations

* File names are made from the title, the page and the position in the filtered batch
  (`app.py:2986`), so that two editions with one title can get the same name in two runs;
  the second then overwrites the record of the first, although `app.py:130` calls the name
  collision-resistant. The run uses distinct titles; the proofs assume nothing about them.
* An interruption is recorded as a failed attempt, as in section 3. Recovery jobs are not
  counted against the target, and approved documents that the target cuts off are evaluated
  again by the next run.

## 8. Routes of an attempt

### Model and code

`Routes` models one attempt of `_download_worker`: the mirrors of a candidate,
`parse_mirror_and_download` with its recursion as a stack of frames, the request loop of
`download_file`, and the part of `NetworkManager` that decides whether a request may be made.

| Actions | Code |
|---|---|
| `Begin`, `MirrorStep` | the worker takes a document; the loop over its mirrors |
| `Enter`, `Through`, `Fetch`, `Early`, `RouteStep`, `Late` | a call: checks, a direct route, the page, navigation links without routes, routes by priority, navigation links at the end |
| `Request` | `download_file`: one request and every answer a server may give |
| `WaitPasses`, `OthersFail` | a deadline passes; other workers' failures make a host wait |

Answers are the document, a break, a server error, 416, 429 with Retry-After, a refusal, HTML
in place of a file, a file that is too small. `told` is history: hosts whose Retry-After has not passed.

### Properties and run

* `OneTransferPerTurn`: with deferred retries a turn asks for one file, however the calls are
  nested; every level decides for itself whether to go on.
* `LimitedHostIsLeftAlone`: across mirrors, pages, routes and turns.
* `StoredEndsTheSearch`: the success reaches the worker through all open calls.

`routes` (0.26 million states; six links on two hosts that link to each other: a result page, a navigation page
that links back, a library.lol page, two gateways, an advertisement; both settings of
deferred retries; two attempts; one wait caused by others). The cycle makes `visited_pages`
matter, the second offer of a gateway `attempted_download_routes`. Deadlock checking is
off: the attempts are bounded.

### Observations

* Without deferred retries, a 429 for a route found on a mirror page is followed by another
  gateway of the page in the same attempt (`app.py:1308`), against the comment at
  `app.py:2081` and `docs/PIPELINE.md:392`, and a 429 for the page itself ignores
  Retry-After (`app.py:1174`). The second and third property say "with deferred retries"
  where it matters.
* A library.lol page all of whose routes fail ends the loop over the routes of the outer page
  (`app.py:1311`), also without deferred retries. `context.deferred` is reset by the fair
  queue only: in the other mode a worker thread that was denied once no longer counts
  failures (`network_manager.py:161`).

## 9. Pages and verdicts shared by runtimes

### Model and code

`SharedPages` models the search in the distributed mode and `SharedVerdict` the validation of
one document, both over `Runtimes`; a transaction or a wait is one step. Leases are live or have lapsed, a lapse
being a step (`Leases` has the clocks). Each start of a runtime is a new instance, so the
leases of a lost one belong to `Gone`, and the owner says what the token says.

| Actions of `SharedPages` | Code |
|---|---|
| `Start`, `Refresh` | the jobs `recovery()` lists, at the start and by the heartbeat |
| `ClaimPage`, `LookAtTarget`, `Fetch`, `Remember`, `EvaluatePage`, `Record`, `StageFails`, `Report`, `Enqueue`, `Release`, `End` | the page loop with `claim_page`, `target_reached`, `stage1`, `upsert`, `page_result`, `page_done` |
| `ClaimDocument`, `Finish`, `Accept` | a download turn, and Stage 2's approval |
| `LeasesLapse`, `LoseRuntime` | a heartbeat that fails for a whole lease; a lost runtime |

| Actions of `SharedVerdict` | Code |
|---|---|
| `Read`, `Look`, `Claim`, `Recheck`, `Evaluate`, `Save`, `Leave`, `Fails` | `stage2` with `claim_validation`, `save_validation`, `release_validation` |
| `Lapse`, `Crash`, `Replace` | a lease nobody renews, a lost runtime, a new download of other bytes |

An answer of the model is graded as `_pdf_validation_result` and the identity rules do
(`Grade`, `Status`, `Adjusted`).

### Properties and runs

* `PageStands`, `EveryPageIsSearched`, `ApprovedIsSettled`: a late `page_done` cannot reopen or
  close what another runtime finished; the page of a lost runtime is taken over; what a
  lost runtime approved is recovered by another.
* `NotPaidAgain`, `VerdictStands`, `LeaseEnds`: the cache is read again under the lease, a
  validator without its lease writes nothing, and a finished job is not renewed.

| Run | Instance |
|---|---|
| `shared_pages` | 2 runtimes of which one takes pages over, 3 pages in two shards, a document listed on both sides, an empty last page, 1 trouble; 0.10 million states |
| `verdict` | 2 runtimes with one query, 2 versions of the bytes, 2 troubles; 0.09 million states |

Two runtimes are an owner and one that takes over; the document that two shards list is
evaluated twice. Two troubles let a lease lapse and its owner come back after the bytes
changed. Proofs cover any number. Fairness: calls under way go on, an ended runtime is
started again, leases of lost instances lapse, and a download that is claimed again and
again is settled once (strong fairness of `Settle`: attempts are bounded, see `Leases`).
Deadlock is checked in both.

### Observations

* Stage 1 rows carry `candidate-N.pdf` as file name (`colab/distributed_coordinator.py:224`)
  and overwrite `documents.filename` (`colab/db.py:68`); jobs recovered from different
  pages may share it.
* A stored document whose runtime is lost before a verdict, or whose verdict is PENDING, is not
  validated again by others once its page is COMPLETED.
* `execute` writes APPROVED over another runtime's REJECTED. `save_validation` writes the identity
  read before another query's save, also of an undecided verdict, and a stale row can
  overwrite the verdict of newer bytes. `VerdictStands` therefore speaks of one query and the
  same bytes.
* Nothing bounds how far approvals overshoot the target.

## 10. Drive snapshots

### Model and code

`Snapshot` models `DriveSnapshots` with `run_colab_pipeline` around it. A document's way goes
from a partial file over the managed path to approved/ or rejected/, its entry says how far
it got, and `job` names the documents whose file is ahead of the entry.

| Actions | Code |
|---|---|
| `Start` | `restore`, then `_completed_download_count` on what is there |
| `Transfer`, `Land`, `Record`, `Certify`, `Move`, `Relocate`, `Decide` | workers and validators, as far as files and entries change |
| `Begin`, `Walk`, `Visit`, `Publish`, `CopyLedger`, `WriteManifest` | one pass of `sync`, directory by directory and file by file |
| `PassFails`, `Stop`, `Final`, `Lose` | an error of a pass, the end of the run, the last pass, a lost machine |
| `Abandon` | a cancellation at the `await` of `_stop_validation_queue` (`app.py:3514`) |

`Abandon` is the end that waits for nothing: `_stop_validation_queue` has taken the queue out of
the global before it waits (1857-1863), so the runner's own call (`pipeline_runner.py:258`)
finds none and the last pass starts (260) while the pool, its queued jobs included, goes on.
`left` holds the documents of such a pool; they are validated and filed in any phase. Bound: the
next run starts when no job of the pool is at work (a second pool is not modelled).

### Properties and run

* `NoTornPdf`: copies come to their place by a rename, whenever the machine is lost.
* `ManifestIsThere`: also with partial files that only some passes copy.
* `EndIsSaved`: for every document outside an abandoned pool, a run that ends with its last pass
  has saved the entry and the files. An uncancelled run waits for its pools, so its last pass
  meets no file that is ahead of its entry; under a cancelled one the documents of the pool
  change while the pass walks, and the property says that this costs no other document. For
  those themselves it does not hold, see below.

`snapshot` (1.87 million states): two documents, alike. With one of them met there are up to
three runs and three events (a pass during the run, a failed pass or a lost machine), with both
two runs or one run and one event (`CONSTRAINT Bound` in `MCSnapshot`): that is where an
abandoned document and a saved one are on the disk together. Documents meet in passes and in the
ledger's copy only, and the proofs cover any number; a third run restores what a run that itself
restored had left. Deadlock checking is off.

### Observations

After a cancellation at `app.py:3514` the last pass can miss a PDF altogether: it is moved when
approved/ has been listed and the download directory has not, and the ledger that is copied
then has a decided entry whose PDF is nowhere on Drive, with no later pass of this run to bring
it. The model reaches this end in 17 steps; such documents are what `EndIsSaved` excepts.

Between two passes the snapshot promises less than `storage.py:117` suggests: a PDF that is
certified or moved between the walk and the copy of the ledger leaves, if the machine is
lost then, a COMPLETED entry without its PDF. A restore on the same machine after a failed
last pass brings back the old Drive copy of a file that was moved, and the start withdraws
its verdict. Not modelled: a `.part` that is truncated and rewritten while it is copied.

## 11. Events and dashboard

### Model and code

`Dashboard` models `src/app/pipeline_events.py` with the threads that publish to it. `bus` and
`net` are the two queues of events, `metrics` is `RunMetrics` (`Consumed` is its `consume`),
`rows` is `DownloadPresentation`, `Shown` the active rows of the snapshot. The main thread
drains at its awaits; workers and validators publish between. The three loops over a drained
list are recursive functions: `Metered` (the metrics after the events of a run), `Others` (the
events `drain` puts back) and `AllPresented` (the rows after the workers' reports).
`stage2Queue` is the Stage 2 queue, `items` and `item` are what the main thread iterates over.

`_update_download_state` returns False when its lock times out or the file cannot be replaced
(`src/app.py:443`), and its callers publish all the same. So a record has two statuses:
`status` on disk, and `told`, the last one a caller gave to `_update_download_state` about the download.
What a worker writes at the end of an attempt (`Recorded`) and each write of the hand-over to
Stage 2 (`Scheduled`) may be dropped. `Healed` is what the next start makes of a record: a PDF in
the download directory is complete whatever its record says (`_completed_download_count`).
`Own` takes, like `drain`, the events of the run and those without a `run_id`; a step of the
model publishes none of the latter.

### Properties and run

* `MetricsAgree`: with the events still on the bus, the counters are those of the attempts
  under way, none lost or counted twice, though a new run begins while events of a
  cancelled one wait; at a normal end `stored` and `permanent` count the documents of
  the run whose end was told, though each of these writes may have been dropped. They
  need not agree with `status`, which lags behind `told` by the dropped writes.
* `Stage2RowsAgree`: counters are sizes of the phases, and a verdict ends RUNNING.
* `SnapshotFollowsTheQueue`: never more active rows than active attempts, and the same ones once
  the events are drained, unless an attempt has published its end and not left.

`dashboard` (2.5 million states up to symmetry and view): two documents with the same
bytes, one worker, one validator, two attempts, two runs. One worker and one validator suffice for an event to be
overtaken by the main thread; two documents for one to be the other's duplicate. The view
leaves out counters nothing reads, events of finished runs, and the order of events about
different documents, whose effects commute. Deadlock checking is off.

### Observations

* A dropped FAILED_FOR_ROUND or PERMANENTLY_FAILED is counted and leaves the record open:
  the next run repeats the attempt. A dropped COMPLETED is put right by the next start.
* Restored jobs keep the `run_id` of the run that queued them (`src/app.py:2580`): their events
  go to a run that is over, appear in no live counter nor in `download_failures`, and stay on
  the bus.
* DOWNLOAD_QUEUED is published after the job is in the pool (`src/app.py:3194`) and STAGE2_QUEUED
  likewise (1739): overtaken by the worker, they leave a document "queued" for ever.
  LOCAL_PDF_REUSED never lowers the counter. A validation that raises publishes no end.
* With two validators a duplicate's waiting state can be published after its verdict.
* The snapshot cuts surplus rows by index, so it may keep a stale row and idle a true one.

## 12. Proofs

`FairQueueProofs` proves, for all values of the constants that satisfy
`ConstantsOK`: `TypeCorrect`, `SingleOwnership`, `SingleTurn`, `NoDocumentLost`,
`FinishedForGood`, `FailuresBounded`. None of the invariants is inductive alone. The
strengthening says, next to typing: which slot fields are set at which step; that a
document in hand is known and not finished; that queues hold only known documents; that
the running table of a settled slot may share its document with a queue but with no other
slot; and that the job a worker decided on has used no more failures than its attempt and
handoff allow. The proofs have one step per action; `Requeue`, `Report`, `Dispatch` and
`Close` carry the weight.

For `FairShare` it proves `NobodyStarves` from `BypassInv`: what a kind has waited plus the
distance of the cursor to its next turn never exceeds its patience. `RecoveryNeverCrowdsOut`
needs only types and the guard of the selection, with a lemma for the rounding of the share.
`QueueImplementsLifecycle` is the refinement, step by step: the invariants above say in
which phase the mapping sees a document, and each action moves one document by one step
of `DocumentLifecycle` or none; `Close` ends all of them at once.

`ValidationProofs` proves seven properties of `Validation` and `ValidationHistory` under `ValidationAssumption`
(any numbers of files, workers, callers, runs; any pool size; any twins and damaged files):

* `TypeCorrect`, from `TypeInv`: the type invariant by parts, with two facts it does not
  say: what a job reports is a verdict, never the instruction to wait, and an idle worker
  has no timer. `NewRun` resets every thread, so a crash needs no case of its own.
* `SingleValidator`, from `Apart`: `OneValidator` restated by files, so that each step is
  about one file. Only `Take`, `Leave`, `Put` and the actions that empty the pool move a file.
* `FailuresStand`, from `Holds` and `Failed`. A job that has opened its file has the bytes
  where it says (`Holds`): files are moved by the one job that holds them, by `Apart`.
  Hence a job whose file is gone certifies nothing. `EveryMove` then says for each action
  what it can do to one entry, and `Failed` that INVALID always stands with RETRY.
* `CompletedMeansSound`, from `SoundInv`: a job past the parser works on sound bytes
  (`Checked`), and a file on its way has no bytes at its managed path, is on its way once,
  and nothing says that it is complete there (`Awaited`), so no transfer changes bytes
  under an entry that vouches for them.
* `NothingLeftInThePool`, from `QuietPool`: from the moment the last pass finds the pool
  empty, the pool stays empty, and each refused file is in what the pass has still to visit
  or in the hands of the main thread.
* `NoVerdictLost`, from `Waits` and `Traced`: a file with a report has one copy, and each
  thread that works on it, or will write late, knows where. The step from the move to the
  verdict is where a second transfer would break this, hence the condition on `again`.
* `VerdictBelongsToBytes`, from `Twinned` and `Awards`: what is recorded as a duplicate is one,
  and what a job passes on was given (`Given`) to a file with the same bytes. The theorem
  speaks of the classes of equal files of which none was transferred a second time, and
  of the property itself while `again` is empty. The run checks the property without the
  condition; an exploration with three runs (19 million states) did not violate it
  either. Whether it holds without the condition for any number of runs is open.

`LeasesProofs` proves five properties of `Leases` under `LeaseAssumption` (any documents and
runtimes, any lease, margin and delay in that order, any limits):

* `TypeCorrect`, with `Charged`: a row with an owner was charged for it, so that a refund
  stays in range.
* `SingleTransfer`, from `Timing`. A reply on its way and the lease it reports add up to at
  least a full lease; a deadline that has not passed is at most the row's lease; a renewal
  on its way belongs to the claim it was made for or is ignored. So whoever believes in a
  claim owns the row (`OwnerIsLive`), and a row has one owner.
* `CompletionsStand`, from `Objects`: claims held at the same time differ in their tokens,
  a completed row has no owner, and nobody is still to upload the object it points at or
  one that was found missing.
* `ClaimsArePaid`, from `Accounts`: tokens never exceed attempts plus troubles, and are one
  less while the owner is about to be refunded.
* `LastAttempts`: a sweep looks at the lease, and a release is fenced.

`Shapes` lists the eleven things the step of a turn can do to the turn and its row, and
that it does nothing to any other; the invariants are then proved shape by shape.

`TransferProofs` proves five properties of `Transfer` under `TransferAssumption` (any length of
the document, any limits and bounds):

* `TypeCorrect`, `BytesStayInOrder`, `NeverFetchedAgain`, together, from `FileInv`: what the
  server sends next is the unit after the partial (`Positions`). `StreamGoesOn` says once
  what a reply or a chunk does to the turn, the partial and the record.
* `CheckpointsKeepUp`, from `Marked`: the partial is less than a checkpoint past the mark, and
  the ledger is at the mark or past it, unless the mark is zero.
* `AttemptsArePaid`, from `Fees`: next to the property itself, a record that a restart would
  read as a failed attempt, while no turn has it in memory, has already been paid for; and
  a turn whose record still shows a refused file has paid for the next attempt. It uses
  `EndInv`: a run that has not recovered has no turn, and a record that has ended in this
  model has neither turn nor check.

`DriverProofs` proves three properties of `Driver` with its pool under `PoolAssumption` and
`DriverAssumption` (any documents, titles and pages, any number of threads, size of the
queue, target, attempts, runs and troubles):

* `TypeCorrect`, from `TypeInv`, whose `Accounting` says what `unfinished_tasks` counts: the
  jobs in the queue and the threads that have one. An idle pool is therefore an empty one.
* `TargetIsRespected`, from `TargetInv`: a completion moves a document from the outstanding to the
  downloaded ones, so `Existing` (what was there before the run) never changes, and only a
  decision uses up room. `WithinTarget` adds that the candidates of the page fit in the room
  that was left when the page was cut, also while one of them waits for room in the pool.
* `NothingIsForgotten`, from `PlacesInv`: each scheduled document is in the hands of the pool
  (`Live`), waits for a later round (`Later`) or has ended in a record that nobody writes
  again (`Ended`). The hard part is that records are found by file name and names
  may be shared. Hence `Owned`: a job in hand owns the record of its name, no other job in
  hand or to come has that name, and the name lies before the pages still to be read
  (`Early`), so that no later rejection can overwrite it. `Rested` says that between two runs
  the pool is empty.

`StreamlitProofs` proves the three properties of `Dashboard` under `DashboardAssumption` (any
documents, bytes and pages, any numbers of workers, validators, runs and attempts, any size of
the queues). They compare the state with what a list of events adds up to, so the proofs begin
with recursion over lists. The library's induction rules take an operator, which the provers
cannot instantiate; `ByInduction` is induction over a set instead, from the well-foundedness of
the natural numbers. From it follow `RunExists` and `RunsAgree`, that a recursive function over a
list exists and is the only one, and the two facts everything else uses: appending a list to the
bus consumes it after what was there, and removing the events of other runs changes nothing.

* `DashboardPlaced`, from `Placed`: the types, and that each document of a run is in one place.
  A job is in the queue, in one turn or among the outcomes (`PoolFits`, `OneJob`); the jobs
  still to be tried are unended documents of their own, which nobody has (`Later`); nobody
  writes for a run to come (`Runs`); at the end of a run the pool is empty (`Quiet`).
  `Records` says how far a record may be behind: only of a document that was queued, whose
  record then is open or has its PDF (`Lags`), and Stage 2 hears only of such documents (`Handed`).
* `MetricsAlwaysAgree`, from `CountInv`. `Now` is the metrics as they will be when the run has
  consumed what is on the bus: a refresh does not change it, and a step of a worker changes
  it exactly by what the worker publishes. Of `Now` the invariant says that it counts the
  attempts under way, the documents stored and announced (`Credited`), those given up
  (`GivenUp`) and the page in Stage 1. A job published under an older run counts nowhere,
  on either side. At the normal end the bus has been consumed and the pool is empty, so
  `metrics` is `Now` and agrees with what was told about the documents.
* `Stage2RowsAlwaysAgree`, from `Stage2Inv`: the counters are sizes of the phases before and
  after the bus is consumed (`Sized`), and `Now` shows a document with a verdict as running only
  while a validator has it (`Ruled`), because the step that records a verdict, of a document or
  of its copy, publishes an event that ends RUNNING.
* `SnapshotAlwaysFollows`, from `RowsInv`: after the reports still in `net`, a row is busy exactly
  while its worker is between its start and its end. The snapshot cuts the rows to the
  number of active attempts, so it shows no more of them; and when `net` is empty the
  busy rows are the active workers.

`Tells` says what a step does to the bus: it publishes a list of events and perhaps refreshes.
Each action is reduced to it once, and the counters are then proved per kind of event.

`StreamlitProofs` also proves four properties of `Routes` under `RoutesAssumption` (any links, hosts and
mirrors, any pages that offer any links, any limits):

* `TypeCorrect`, from `TypeInv` and `Depth`: every open call has entered a page of its own,
  but perhaps for the innermost, so at most `MaxPages + 1` calls are open.
* `PatienceIsKept`, from `Heeded`: with deferred retries a host that asked for patience is
  waited for, and `Ask` looks at the wait.
* `OneTransfer`, from `Once` and `Orderly`: once a route was tried, it is being asked or its answer
  is on its way up through the calls, and a call with an answer starts nothing new.
* `StoredIsTheEnd`, from `OnItsWay`: the document is stored exactly while `stored` is that answer.

What a step does to the stack is one of three things, it returns, calls, or goes on in the
innermost call (`FrameStep`); the invariants are proved for these.

`SharedProofs` proves `PagesStand` of `SharedPages` from `PagesInv`: a closed page has no owner and no live
lease, so that no claim, release, lapse or loss applies to it. `SearchTyped` gives the types of
the whole search; the loop over the pages needs `LoopInv`, that between the claim of a page
and its release a runtime is on a page there is.

It proves `TypeCorrect`, `NeverPaidAgain` and `VerdictsStand` of `SharedVerdict` from `Undecided`:
a runtime between its second look at the cache and its save that still owns the lease has
no verdict before it. `NotPaidAgain` alone is not inductive, because it says nothing of the
step from the answer to the save. Each action either leaves the runtime's row alone, or
takes its ownership, or ends its judgement.

`SnapshotProofs` proves `TypeCorrect`, `NeverTorn`, `ManifestHolds` and `EndsAreSaved` from
`DriveInv` (what Drive and the open copy hold, what a pass has listed) and `EndInv`: during the
last pass only documents of an abandoned pool change, and what the pass has visited, listed
or copied of any other is as on the disk; so when it has visited all, those are saved.

Only model-checked: `VerdictOfTheseBytes` beyond what was said above, and liveness (the prover
does not handle fairness).
No module with a theorem uses a `RECURSIVE` operator, and no theorem cites an induction rule
that takes an operator.

## 13. Not modelled

* Prompts, parsing of result pages, the browser, PDF parsing and the local title index:
  external or stateless; what they may answer is an input of the models.
* Rendering, the activity log, throughput counters, benchmarks and the notebook.
* Host limits shared through PostgreSQL, proxies, and the setting of the Colab copy without
  scheduler admission, which is the pool of section 7.
* The Stage 2 and the fair queue of the Streamlit copy: older forms of those modelled.
* A second pool beside one that a cancelled Colab run abandoned (`app.py:3514`): the step is
  modelled, the next run is held back until the jobs end.
* An exception between COMPLETED and the hand-over to Stage 2, which turns the record into
  FAILED_FOR_ROUND; ledger files that cannot be read. `Transfer` leaves out the timer that writes
  INTEGRITY_PENDING over COMPLETED, so it claims nothing about the finality of records.
* In `Dashboard`: dropped writes of an admission, of Stage 1, of a validator and of a start; PDFs
  older than the ledger, whose records and events have no `run_id`.
