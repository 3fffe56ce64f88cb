---------------------------- MODULE MCDashboard ----------------------------
(***************************************************************************)
(* Two documents with the same bytes, one download worker, one validator  *)
(* and two runs.  States are compared up to what no property and no step   *)
(* depends on: counters and events nothing reads, the events of finished   *)
(* runs, which no later run takes, and the order of events about different *)
(* documents, whose effects commute.                                       *)
(***************************************************************************)
EXTENDS Dashboard

SameBytes == [d \in Doc |-> "bytes"]

Alike == Permutations(Doc)

Silent == {"DOCUMENT_DISCOVERED", "DOWNLOAD_QUEUED", "RECOVERY_QUEUED",
           "LOCAL_PDF_REUSED", "DUPLICATE_DETECTED"}

\* No step tells a rejection from an approval, or one open verdict from another.
Alias(kind) == CASE kind = "REJECTED" -> "APPROVED"
                 [] kind \in {"QUEUED", "RUNNING", "PENDING"} -> ""
                 [] kind = "STAGE2_REJECTED" -> "STAGE2_APPROVED"
                 [] OTHER -> kind

\* What was told is read for fetched PDFs, and at the end of a run for failures.
Read(record) ==
  IF \/ record.local
     \/ record.told # "COMPLETED" /\ ~(record.told = "PERMANENTLY_FAILED" /\ record.run = run)
  THEN "" ELSE record.told

View ==
  LET own == SelectSeq(bus, LAMBDA e : Own(e, run) /\ e.kind \notin Silent)
      of(d) == LET events == SelectSeq(own, LAMBDA e : e.doc = d)
               IN  [i \in DOMAIN events |-> <<Alias(events[i].kind), events[i].n>>]
  IN  <<metrics.stage1Pending, metrics.downloading, metrics.stored, metrics.permanent,
        metrics.stage2, metrics.inflight,
        [d \in Doc \union {NoDoc} |-> of(d)],
        net,
        rows, mainVars, jobs, turn, Range(outcomes), stage2Vars,
        [d \in Doc |-> [ledger[d] EXCEPT !.verdict = Alias(@), !.told = Read(ledger[d])]]>>

=============================================================================
