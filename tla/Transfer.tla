------------------------------ MODULE Transfer ------------------------------
(***************************************************************************)
(* The transfer of one document and its record in downloads.json, over     *)
(* turns, runs and crashes: the enqueue of the coordinator, one turn of    *)
(* _download_worker with parse_mirror_and_download and download_file, the  *)
(* scheduler's next state with on_defer, the integrity check that follows  *)
(* a transfer, and what the start of the next run makes of the files and   *)
(* of the record it finds.  Each ledger transaction, each file operation   *)
(* and each reply of a server is one step; a process may die between any   *)
(* two of them, and a ledger transaction may be dropped because its lock   *)
(* or its file is busy.                                                    *)
(*                                                                         *)
(* A document is the sequence 1, 2, ..., Full of its units; every server   *)
(* that has it sends the same units.  An empty .part counts as none.  One  *)
(* document is enough: documents share only the ledger's lock, the slots   *)
(* (module FairQueue) and the rate limits, which appear as deferrals.      *)
(*                                                                         *)
(* Left out: the settings without scheduler admission, the distributed     *)
(* mode (module Leases), files of a local library, the limit of the        *)
(* recovery scan, reports, telemetry, proxies and route scores.  So are    *)
(* two writes that can follow COMPLETED: the timer of Stage 2 over a file  *)
(* that was moved (module Validation), and the failure of a worker whose   *)
(* hand-over raises.  COMPLETED is therefore not claimed to be final.      *)
(***************************************************************************)
EXTENDS Integers, Sequences

CONSTANTS Full,         \* the length of the document
          MinSize,      \* 2048 bytes
          Gate,         \* state_bytes: a checkpoint is due after so much
          MaxAttempts,  \* max_document_attempts
          MaxHandoffs,  \* max_fast_handoffs_per_attempt
          MaxDeferrals, \* bound: turns deferred by a rate limit or a route wait
          MaxTroubles   \* bound: dropped ledger writes, stops and crashes

ASSUME TransferAssumption ==
  /\ Full \in Nat \ {0} /\ MinSize \in Nat \ {0} /\ Gate \in Nat \ {0}
  /\ MaxAttempts \in Nat \ {0} /\ MaxHandoffs \in Nat
  /\ MaxDeferrals \in Nat /\ MaxTroubles \in Nat

VARIABLES
  part,      \* <filename>.pdf.part
  pdf,       \* the finished file; the empty sequence: there is none
  entry,     \* the document's entry of downloads.json
  job,       \* the document in the memory of the process
  check,     \* its integrity check
  run,       \* how far run_scraping_pipeline is
  seen,      \* scheduled_filenames of this run
  defers,    \* deferrals so far
  troubles,  \* troubles so far
  spent      \* history: what has been paid for attempts

vars == <<part, pdf, entry, job, check, run, seen, defers, troubles, spent>>

Units == 1..Full
Whole == [i \in Units |-> i]

\* WAITING stands for QUEUED, RECOVERING, HANDOFF_READY, RECOVERY_READY and
\* the DEFERRED states, RETRY for PARTIAL, FAILED and FAILED_FOR_ROUND.
Restorable_NotDownloading == {"WAITING", "RETRY", "INTEGRITY_PENDING"}   \* mutant
Restorable == {"WAITING", "RETRY", "DOWNLOADING", "INTEGRITY_PENDING"}
Final == {"COMPLETED", "PERMANENTLY_FAILED"}
Entry == [status : {"NONE"} \cup Restorable \cup Final,
          attempt : 1..MaxAttempts, handoffs : 0..MaxHandoffs, size : Nat,
          cand : BOOLEAN,          \* has a candidate, with its mirrors
          integrity : {"PENDING", "VALID", "PDF_INVALID"}]
NoEntry == [status |-> "NONE", attempt |-> 1, handoffs |-> 0, size |-> 0,
            cand |-> FALSE, integrity |-> "PENDING"]

Turn == {"begin", "resolve", "enter", "open", "ask", "stream", "ended", "lost",
         "promoted", "recorded", "failed", "deferred", "return"}
Job == [step : {"none", "persist", "offer", "queued"} \cup Turn,
        attempt : 1..MaxAttempts, handoffs : 0..MaxHandoffs,
        next : 1..(Full + 1),      \* what the server sends next
        sized : BOOLEAN,           \* the reply has a Content-Length
        kept : Nat,                \* DownloadProgress.last_bytes
        missed : BOOLEAN]          \* a write of this transfer was dropped
NewJob(a, h) == [step |-> "persist", attempt |-> a, handoffs |-> h, next |-> 1,
                 sized |-> FALSE, kept |-> 0, missed |-> FALSE]
NoJob == [NewJob(1, 0) EXCEPT !.step = "none"]

Runs == {"off", "count", "recover", "on", "stopping", "closing"}

At(step) == job.step = step
Goes(step) == job' = [job EXCEPT !.step = step]
Trouble == troubles < MaxTroubles /\ troubles' = troubles + 1
Stopped == run \in {"stopping", "closing"}
Verified == entry.status = "COMPLETED" /\ entry.integrity = "VALID" /\ pdf # << >>

\* _download_size
Size == IF pdf # << >> THEN Len(pdf) ELSE Len(part)

\* What _update_download_state makes of the entry, with the candidate or
\* without it: DOWNLOADING and INTEGRITY_PENDING forget the last check, and a
\* check that failed is only forgotten by DOWNLOADING.
Known(e) == [e EXCEPT !.cand = TRUE, !.attempt = job.attempt, !.handoffs = job.handoffs]
Waits(e) == [e EXCEPT !.status = "WAITING", !.size = Size]
Retries(e) == [e EXCEPT !.status = "RETRY", !.size = Size]
Downloads(e, n) == [e EXCEPT !.status = "DOWNLOADING", !.size = n, !.integrity = "PENDING"]
Pending(e) == IF e.integrity = "PDF_INVALID" THEN [e EXCEPT !.size = Size]
              ELSE [e EXCEPT !.status = "INTEGRITY_PENDING", !.size = Size,
                             !.integrity = "PENDING"]
Abandoned(e) == [e EXCEPT !.status = "PERMANENTLY_FAILED"]

\* The history counts no further than the properties look.
Budget == MaxAttempts * (MaxHandoffs + 1) + MaxTroubles
Counted(n) == IF n <= Budget THEN n + 1 ELSE n

\* A ledger transaction, which the callers do not repeat when it is dropped.
Saves(new) == \/ entry' = new /\ UNCHANGED troubles
              \/ Trouble /\ UNCHANGED entry

-----------------------------------------------------------------------------
(* The driver: search results and restored documents                       *)

\* Stage 1 approves the document; its filename and identity are new to the
\* run, and no entry with its candidate says that Stage 1 has seen it.
Discover ==
  /\ run = "on" /\ ~seen /\ ~entry.cand /\ At("none") /\ pdf = << >>
  /\ seen' = TRUE /\ job' = NewJob(1, 0)
  /\ UNCHANGED <<part, pdf, entry, check, run, defers, troubles, spent>>

\* The same when the file is there already: it is checked, not transferred.
Rediscover ==
  /\ run = "on" /\ ~entry.cand /\ At("none")
  /\ pdf # << >> /\ ~Verified
  /\ Saves([Pending(entry) EXCEPT !.cand = TRUE])
  /\ check' = "due"
  /\ UNCHANGED <<part, pdf, job, run, seen, defers, spent>>

\* enqueue records QUEUED or RECOVERING before it offers the job.
Persist ==
  /\ run = "on" /\ At("persist")
  /\ Saves(Waits(Known(entry)))
  /\ Goes("offer")
  /\ UNCHANGED <<part, pdf, check, run, seen, defers, spent>>

Offer ==
  /\ run = "on" /\ At("offer") /\ Goes("queued")
  /\ UNCHANGED <<part, pdf, entry, check, run, seen, defers, troubles, spent>>

-----------------------------------------------------------------------------
(* One turn of a worker                                                    *)

Dispatch ==
  /\ run \in {"on", "stopping"} /\ At("queued") /\ Goes("begin")
  /\ UNCHANGED <<part, pdf, entry, check, run, seen, defers, troubles, spent>>

Begin ==
  /\ At("begin")
  /\ Saves(Downloads(Known(entry), Size))
  /\ Goes("resolve")
  /\ UNCHANGED <<part, pdf, check, run, seen, defers, spent>>

\* before_request finds a deadline, or a server answers 429: RequestDeferred.
Defer ==
  /\ job.step \in {"resolve", "enter", "ask"}
  /\ defers < MaxDeferrals /\ defers' = defers + 1
  /\ Goes("deferred")
  /\ UNCHANGED <<part, pdf, entry, check, run, seen, troubles, spent>>

\* The mirror's page, unless the mirror is a route itself; one route a turn.
Resolve ==
  /\ At("resolve")
  /\ Goes("failed") \/ Goes("enter")
  /\ UNCHANGED <<part, pdf, entry, check, run, seen, defers, troubles, spent>>

\* download_file up to its request loop.
Enter ==
  /\ At("enter")
  /\ Saves(IF part # << >> THEN Retries(entry) ELSE Downloads(entry, Size))
  /\ Goes("open")
  /\ UNCHANGED <<part, pdf, check, run, seen, defers, spent>>

Open ==
  /\ At("open")
  /\ IF Stopped THEN Goes("lost") /\ UNCHANGED <<entry, troubles>>
     ELSE LET ready == [job EXCEPT !.step = "ask", !.next = Len(part) + 1,
                                   !.kept = Len(part), !.missed = FALSE]
          IN  \/ /\ entry' = Downloads(entry, Len(part)) /\ UNCHANGED troubles
                 /\ job' = ready
              \/ /\ Trouble /\ UNCHANGED entry
                 /\ job' = [ready EXCEPT !.missed = TRUE]
  /\ UNCHANGED <<part, pdf, check, run, seen, defers, spent>>

\* No connection, a 5xx or another status, a page instead of a file, a wrong type.
Refused ==
  /\ At("ask") /\ Goes("lost")
  /\ UNCHANGED <<part, pdf, entry, check, run, seen, defers, troubles, spent>>

\* 416: nothing is left to send.
Unsatisfiable ==
  /\ At("ask") /\ job.next = Full + 1
  /\ part' = << >> /\ Goes("lost")
  /\ UNCHANGED <<pdf, entry, check, run, seen, defers, troubles, spent>>

\* DownloadProgress, called when the reply comes and after every chunk: a
\* write is due after so many bytes, and after two seconds, so it is always
\* possible.  `turn' is the turn after the call that made n bytes of it.
Due(turn, n) == n - turn.kept >= Gate
Progress(turn, n) ==
  \/ ~Due(turn, n) /\ job' = turn /\ UNCHANGED <<entry, troubles>>
  \/ /\ entry' = Downloads(Known(entry), n) /\ UNCHANGED troubles
     /\ job' = [turn EXCEPT !.kept = n]
  \/ Trouble /\ UNCHANGED entry /\ job' = [turn EXCEPT !.missed = TRUE]

Streaming(next, sized, kept) ==
  [job EXCEPT !.step = "stream", !.next = next, !.sized = sized, !.kept = kept]

\* Mutant of Restarts: the partial is not rewritten.
Restarts_Appending ==
  /\ At("ask")
  /\ \E sized \in BOOLEAN : Progress(Streaming(1, sized, 0), 0)
  /\ UNCHANGED <<part, pdf, check, run, seen, defers, spent>>

\* 200: the whole file, with or without a Content-Length.
Restarts ==
  /\ At("ask")
  /\ part' = << >>
  /\ \E sized \in BOOLEAN : Progress(Streaming(1, sized, 0), 0)
  /\ UNCHANGED <<pdf, check, run, seen, defers, spent>>

\* 206: the rest of it.
Resumes ==
  /\ At("ask") /\ job.next \in 2..Full
  /\ \E sized \in BOOLEAN : Progress(Streaming(job.next, sized, job.kept), Len(part))
  /\ UNCHANGED <<part, pdf, check, run, seen, defers, spent>>

Chunk ==
  /\ At("stream") /\ ~Stopped /\ job.next <= Full
  /\ part' = Append(part, job.next)
  /\ Progress([job EXCEPT !.next = @ + 1], Len(part) + 1)
  /\ UNCHANGED <<pdf, check, run, seen, defers, spent>>

\* The connection breaks, or the next chunk sees the stop event.
Break ==
  /\ At("stream") /\ Goes("lost")
  /\ UNCHANGED <<part, pdf, entry, check, run, seen, defers, troubles, spent>>

\* The stream ends, early perhaps.
EndOfStream ==
  /\ At("stream") /\ Goes("ended")
  /\ UNCHANGED <<part, pdf, entry, check, run, seen, defers, troubles, spent>>

Promote ==
  /\ At("ended")
  /\ IF job.sized /\ Len(part) < Full THEN Goes("lost") /\ UNCHANGED <<part, pdf>>
     ELSE IF Len(part) < MinSize THEN part' = << >> /\ Goes("lost") /\ UNCHANGED pdf
     ELSE pdf' = part /\ part' = << >> /\ Goes("promoted")
  /\ UNCHANGED <<entry, check, run, seen, defers, troubles, spent>>

\* download_file records the file; _download_worker, and the admission to the
\* pool after it, do it again.
RecordPromoted ==
  /\ At("promoted")
  /\ Saves(Pending(entry))
  /\ Goes("recorded")
  /\ UNCHANGED <<part, pdf, check, run, seen, defers, spent>>

Succeed ==
  /\ At("recorded")
  /\ Saves(Pending(Known(entry)))
  /\ check' = (IF check = "moved" THEN check ELSE "due")   \* once in the pool
  /\ job' = NoJob
  /\ UNCHANGED <<part, pdf, run, seen, defers, spent>>

RecordLost ==
  /\ At("lost")
  /\ Saves(Retries(entry))
  /\ Goes("failed")
  /\ UNCHANGED <<part, pdf, check, run, seen, defers, spent>>

-----------------------------------------------------------------------------
(* The scheduler's next state, recorded by on_defer                        *)

Moves(a, h) ==
  /\ Saves(Waits([entry EXCEPT !.cand = TRUE, !.attempt = a, !.handoffs = h]))
  /\ job' = [job EXCEPT !.step = "return", !.attempt = a, !.handoffs = h]

\* Mutant of Deferred: it costs an attempt.
Deferred_Charged ==
  /\ At("deferred")
  /\ IF job.attempt < MaxAttempts THEN Moves(job.attempt + 1, 0)
     ELSE Saves(Abandoned(Known(entry))) /\ job' = NoJob
  /\ UNCHANGED <<part, pdf, check, run, seen, defers, spent>>

Deferred ==
  /\ At("deferred")
  /\ Saves(Waits(Known(entry)))
  /\ Goes("return")
  /\ UNCHANGED <<part, pdf, check, run, seen, defers, spent>>

Handoff == Size > 0 /\ job.handoffs < MaxHandoffs

Fail ==
  /\ At("failed")
  /\ IF Handoff
     THEN /\ Moves(job.attempt, job.handoffs + 1)
          /\ spent' = [spent EXCEPT !.handoffs = Counted(@)]
     ELSE /\ IF job.attempt >= MaxAttempts
             THEN Saves(Abandoned(Known(entry))) /\ job' = NoJob
             ELSE Moves(job.attempt + 1, 0)
          /\ spent' = [spent EXCEPT !.attempts = Counted(@)]
  /\ UNCHANGED <<part, pdf, check, run, seen, defers>>

Requeue ==
  /\ At("return")
  /\ IF run = "closing" THEN job' = NoJob ELSE Goes("queued")
  /\ UNCHANGED <<part, pdf, entry, check, run, seen, defers, troubles, spent>>

-----------------------------------------------------------------------------
(* The integrity check of the validation pool                              *)

Certify ==
  /\ check = "due" /\ pdf = Whole
  /\ Saves([entry EXCEPT !.status = "COMPLETED", !.integrity = "VALID", !.size = Len(pdf)])
  /\ check' = "none"
  /\ UNCHANGED <<part, pdf, job, run, seen, defers, spent>>

\* The parser may refuse any file.  A truncated one becomes the partial.
Discard ==
  /\ check = "due"
  /\ pdf' = << >>
  /\ \/ UNCHANGED part
     \/ part = << >> /\ part' = pdf
  /\ check' = "moved"
  /\ UNCHANGED <<entry, job, run, seen, defers, troubles, spent>>

Reject ==
  /\ check = "moved"
  /\ Saves([entry EXCEPT !.status = "RETRY", !.size = Len(part),
                         !.integrity = "PDF_INVALID"])
  /\ check' = "none"
  /\ spent' = [spent EXCEPT !.rejected = IF @ < MaxAttempts - 1 THEN @ + 1 ELSE @]
  /\ UNCHANGED <<part, pdf, job, run, seen, defers>>

-----------------------------------------------------------------------------
(* Runs: start, end, interruption, crash                                   *)

Start ==
  /\ run = "off" /\ run' = "count" /\ seen' = FALSE
  /\ UNCHANGED <<part, pdf, entry, job, check, defers, troubles, spent>>

\* _completed_download_count: a file without a certificate is to be checked.
Unrecorded == /\ pdf # << >> /\ ~Verified /\ entry.integrity # "PDF_INVALID"
              /\ ~(entry.status = "INTEGRITY_PENDING" /\ entry.integrity = "PENDING")
Reconcile == IF Unrecorded THEN Saves(Pending(entry)) ELSE UNCHANGED <<entry, troubles>>

\* Then _restore_pending_validation_jobs.
Count ==
  /\ run = "count" /\ run' = "recover"
  /\ Reconcile
  /\ check' = IF pdf # << >> /\ entry'.status = "INTEGRITY_PENDING" THEN "due" ELSE "none"
  /\ UNCHANGED <<part, pdf, job, seen, defers, spent>>

Restores(a) == job' = NewJob(a, entry.handoffs) /\ seen' = TRUE
RestoresNone == UNCHANGED <<job, seen>>

Exhausted == entry.attempt >= MaxAttempts

\* Mutant of Unfinished: the finished file is not looked for.
Unfinished_Blind == entry.cand /\ entry.status \in Restorable
Unfinished == entry.cand /\ entry.status \in Restorable /\ pdf = << >>

\* _recovery_candidates
Recover ==
  /\ run = "recover" /\ run' = "on"
  /\ \/ Trouble /\ RestoresNone /\ UNCHANGED entry
     \/ /\ ~entry.cand \/ entry.status \notin Restorable
        /\ RestoresNone /\ UNCHANGED <<entry, troubles>>
     \/ /\ entry.cand /\ entry.status \in Restorable /\ ~Unfinished
        /\ Saves([entry EXCEPT !.status = "INTEGRITY_PENDING", !.size = Size,
                               !.integrity = "PENDING"])
        /\ RestoresNone
     \/ /\ Unfinished /\ entry.status = "RETRY"
        /\ IF Exhausted
           THEN Saves(Abandoned(entry)) /\ RestoresNone
           ELSE Restores(entry.attempt + 1) /\ UNCHANGED <<entry, troubles>>
     \/ /\ Unfinished /\ entry.status # "RETRY"
        /\ Saves([entry EXCEPT !.status = "WAITING"])
        /\ Restores(entry.attempt)
  /\ UNCHANGED <<part, pdf, check, defers, spent>>

\* The stop event, and then close(cancel_pending=True) in the finally.
Stop ==
  /\ run = "on" /\ run' = "stopping" /\ Trouble
  /\ IF job.step \in {"persist", "offer"} THEN job' = NoJob ELSE UNCHANGED job
  /\ UNCHANGED <<part, pdf, entry, check, seen, defers, spent>>

Close ==
  /\ run = "stopping" /\ run' = "closing"
  /\ IF At("queued") THEN job' = NoJob ELSE UNCHANGED job
  /\ UNCHANGED <<part, pdf, entry, check, seen, defers, troubles, spent>>

\* A run ends when its workers and its pool have, and counts once more; an
\* interrupted one cancels the checks that have not begun.
End ==
  /\ run \in {"on", "closing"} /\ At("none")
  /\ \/ check = "none"
     \/ check = "due" /\ run = "closing"
  /\ IF run = "on" THEN Reconcile ELSE UNCHANGED <<entry, troubles>>
  /\ run' = "off" /\ check' = "none"
  /\ UNCHANGED <<part, pdf, job, seen, defers, spent>>

Crash ==
  /\ run # "off" /\ run' = "off" /\ Trouble
  /\ job' = NoJob /\ check' = "none"
  /\ UNCHANGED <<part, pdf, entry, seen, defers, spent>>

\* A file may be older than the ledger (_completed_download_count).
Init ==
  /\ part = << >> /\ pdf \in {<< >>, Whole} /\ entry = NoEntry /\ job = NoJob
  /\ check = "none" /\ run = "off" /\ seen = FALSE /\ defers = 0 /\ troubles = 0
  /\ spent = [attempts |-> 0, handoffs |-> 0, rejected |-> 0]

Worker == \/ Begin \/ Resolve \/ Enter \/ Open \/ Refused \/ Unsatisfiable \/ Restarts
          \/ Resumes \/ Chunk \/ Break \/ EndOfStream \/ Promote \/ RecordPromoted
          \/ Succeed \/ RecordLost \/ Deferred \/ Fail \/ Requeue
Pool == Certify \/ Discard \/ Reject
Driver == Persist \/ Offer \/ Start \/ Count \/ Recover \/ Close \/ End

Next == \/ Discover \/ Rediscover \/ Dispatch \/ Defer \/ Worker \/ Pool \/ Driver
        \/ Stop \/ Crash

Spec == Init /\ [][Next]_vars

\* Threads go on, requests time out, an evaluation returns, and somebody
\* starts the next run.  Nothing is assumed of searches, stops and crashes.
FairSpec == Spec /\ WF_vars(Dispatch) /\ WF_vars(Worker) /\ WF_vars(Pool) /\ WF_vars(Driver)

-----------------------------------------------------------------------------
(* Properties                                                              *)

TypeOK ==
  /\ part \in Seq(Units) /\ pdf \in Seq(Units)
  /\ entry \in Entry /\ job \in Job
  /\ check \in {"none", "due", "moved"} /\ run \in Runs /\ seen \in BOOLEAN
  /\ defers \in 0..MaxDeferrals /\ troubles \in 0..MaxTroubles
  /\ spent \in [attempts : Nat, handoffs : Nat, rejected : Nat]

\* The partial and the finished file hold the document's units from the
\* first on, in order and none twice, however often a transfer was resumed,
\* restarted by a server that ignores Range, refused, cut off or handed back
\* by the integrity check (download_file, _record_pdf_integrity).
Leading(file) == \A i \in DOMAIN file : file[i] = i
BytesInOrder == Leading(part) /\ Leading(pdf)

\* A finished file is not transferred again: no turn is on its way to a
\* server, and none is queued, while there is one (docs: "completed PDFs are
\* not downloaded again").
NotFetchedAgain ==
  job.step \notin {"none", "promoted", "recorded"} => pdf = << >>

\* Every attempt number above the first was paid for: by a failed turn, a
\* refused file, or a trouble; a deferral pays for none, and no failure,
\* refusal, crash or dropped write is charged twice, by the scheduler and by
\* the next restart (_recovery_candidates, _next_state).
Paid == spent.attempts + spent.rejected + troubles
AttemptsPaid == entry.attempt <= Paid + 1 /\ job.attempt <= Paid + 1

\* While a transfer goes on and no ledger write was dropped, the ledger's
\* byte count is off by less than a checkpoint, also after a server started
\* from zero below an old mark (DownloadProgress).
CheckpointClose ==
  job.step \in {"stream", "ended"} /\ ~job.missed /\ Len(part) >= Gate =>
    Len(part) - entry.size < Gate /\ entry.size - Len(part) < Gate

\* A document with a durable candidate is completed or given up in the end,
\* whenever processes stop and die; unless a restart overtakes a check that
\* has moved the file and not recorded it, which it can do again and again.
Overtaken == check = "moved" /\ job.step # "none"
EveryDocumentEnds == entry.cand ~> (entry.status \in Final \/ Overtaken)
=============================================================================
