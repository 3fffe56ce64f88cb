---------------------------- MODULE SharedPages ----------------------------
(***************************************************************************)
(* The search of the distributed mode: runtimes claim search pages under   *)
(* leases, evaluate the documents of a page once for all of them (Stage 1  *)
(* rows in PostgreSQL), queue the approved ones, and recover the approved  *)
(* documents that a lost runtime left behind (colab/db.py,                 *)
(* colab/distributed_coordinator.py and the page loop of                   *)
(* run_scraping_pipeline).  A transaction or a wait is one step; reading   *)
(* recovery() and queueing what it returned are taken together.            *)
(*                                                                         *)
(* A lease is live or it has lapsed: renewing keeps it live.  Each start   *)
(* is a new instance, so the leases of a lost one belong to Gone and a     *)
(* runtime claims a page at most once per start: the owner says what the   *)
(* fencing token says.  A download turn is claim and finish; module Leases *)
(* has the rest of it.  Acceptance (Stage 2) is module SharedVerdict; here *)
(* a stored document may be accepted.  Left out: host pacing, documents    *)
(* without a link, local matches.                                          *)
(***************************************************************************)
EXTENDS Runtimes, FiniteSets

CONSTANTS Doc,
          Pages,        \* max_pages
          Listing,      \* page -> the documents the source lists on it
          Assigned,     \* page -> the runtime with its shard
          Takeover,     \* the runtimes with takeover_abandoned_pages
          Target        \* target_documents

ASSUME SharedPagesAssumption ==
  /\ Pages \in Nat /\ Target \in Nat
  /\ Listing \in [1..Pages -> SUBSET Doc] /\ Assigned \in [1..Pages -> Runtime]
  /\ Takeover \subseteq Runtime

VARIABLES
  pages,     \* table search_pages
  decided,   \* table query_document_results: stage1_status
  download,  \* table documents: status and claim
  accepted,  \* the documents with final_query_status APPROVED
  main,      \* the page loop of each runtime
  jobs       \* the documents in the download queue of each runtime

pagesVars == <<pages, decided, download, accepted, main, jobs, troubles>>

Owner == Runtime \cup {Nobody, Gone}
Page == [status : {"READY", "RUNNING", "COMPLETED", "FAILED"}, owner : Owner, live : BOOLEAN]
Download == [state : {"open", "stored", "given up"}, owner : Owner, live : BOOLEAN]
MainSteps == {"off", "pages", "look", "fetch", "cached", "evaluate", "record",
              "report", "enqueue", "release", "drain"}
Main == [at : MainSteps, page : 1..Pages + 1,
         todo : SUBSET Doc,      \* the documents the current loop has left
         fresh : SUBSET Doc,     \* documents nobody has evaluated
         good : SUBSET Doc,      \* approved documents of this page
         found : BOOLEAN,        \* page_result was called
         last : BOOLEAN]         \* the loop over the pages is being left
AtPage(p) == [at |-> "pages", page |-> p, todo |-> {}, fresh |-> {}, good |-> {},
              found |-> FALSE, last |-> FALSE]
Off == [AtPage(1) EXCEPT !.at = "off"]

PagesTypeOK ==
  /\ pages \in [1..Pages -> Page] /\ decided \in [Doc -> {"NONE", "APPROVED", "REJECTED"}]
  /\ download \in [Doc -> Download] /\ accepted \in SUBSET Doc
  /\ main \in [Runtime -> Main] /\ jobs \in [Runtime -> SUBSET Doc]
  /\ troubles \in 0..MaxTroubles

PagesInit ==
  /\ pages = [p \in 1..Pages |-> [status |-> "READY", owner |-> Nobody, live |-> FALSE]]
  /\ decided = [d \in Doc |-> "NONE"]
  /\ download = [d \in Doc |-> [state |-> "open", owner |-> Nobody, live |-> FALSE]]
  /\ accepted = {} /\ troubles = 0
  /\ main = [r \in Runtime |-> Off] /\ jobs = [r \in Runtime |-> {}]

Reached == Cardinality(accepted) >= Target
Up(r) == main[r].at # "off"
MainAt(r, step) == main[r].at = step
MainGoes(r, new) == main' = [main EXCEPT ![r] = new]
Free(row) == row.owner = Nobody \/ ~row.live

-----------------------------------------------------------------------------
(* Recovery                                                                *)

\* Mutant of Recoverable: what another runtime approved is not looked for.
Recoverable_None == {}

\* recovery: approved, not settled, and no live claim.
Recoverable == {d \in Doc : /\ decided[d] = "APPROVED" /\ download[d].state = "open"
                            /\ Free(download[d])}

\* A runtime starts as a new instance, with the jobs recovery() lists.
Start(r) ==
  /\ MainAt(r, "off")
  /\ MainGoes(r, AtPage(1)) /\ jobs' = [jobs EXCEPT ![r] = Recoverable]
  /\ UNCHANGED <<pages, decided, download, accepted, troubles>>

\* The heartbeat lists recovery jobs and the pump queues them.
Refresh(r) ==
  /\ Up(r) /\ ~(Recoverable \subseteq jobs[r])
  /\ jobs' = [jobs EXCEPT ![r] = @ \cup Recoverable]
  /\ UNCHANGED <<pages, decided, download, accepted, main, troubles>>

-----------------------------------------------------------------------------
(* The page loop                                                           *)

InShard(r, p) == Assigned[p] = r
Lapsed(row) == row.owner # Nobody /\ ~row.live

\* Mutant of Claimable: a page that is being searched is never claimed again.
Claimable_Ready(r, p) ==
  /\ pages[p].status # "COMPLETED" /\ InShard(r, p) /\ pages[p].owner = Nobody

\* The WHERE clause of claim_page.
Claimable(r, p) ==
  /\ pages[p].status # "COMPLETED"
  /\ InShard(r, p) \/ (r \in Takeover /\ Lapsed(pages[p]))
  /\ Free(pages[p])

ClaimPage(r) ==
  /\ MainAt(r, "pages")
  /\ LET p == main[r].page
     IN IF p > Pages
        THEN MainGoes(r, [main[r] EXCEPT !.at = "drain"]) /\ UNCHANGED pages
        ELSE IF Claimable(r, p)
        THEN /\ pages' = [pages EXCEPT ![p] = [status |-> "RUNNING", owner |-> r, live |-> TRUE]]
             /\ MainGoes(r, [main[r] EXCEPT !.at = "look"])
        ELSE MainGoes(r, AtPage(p + 1)) /\ UNCHANGED pages
  /\ UNCHANGED <<decided, download, accepted, jobs, troubles>>

\* target_reached ends the loop; the page counts as not searched.
LookAtTarget(r) ==
  /\ MainAt(r, "look")
  /\ MainGoes(r, IF Reached THEN [main[r] EXCEPT !.at = "release", !.last = TRUE]
                 ELSE [main[r] EXCEPT !.at = "fetch"])
  /\ UNCHANGED <<pages, decided, download, accepted, jobs, troubles>>

\* An empty listing ends the loop, and so does one that cannot be parsed; a
\* page no provider returns is skipped.
Fetch(r) ==
  /\ MainAt(r, "fetch")
  /\ \/ LET found == Listing[main[r].page]
        IN /\ MainGoes(r, IF found = {}
                          THEN [main[r] EXCEPT !.at = "release", !.found = TRUE, !.last = TRUE]
                          ELSE [main[r] EXCEPT !.at = "cached", !.todo = found])
           /\ UNCHANGED troubles
     \/ \E unparsed \in BOOLEAN :
          Trouble /\ MainGoes(r, [main[r] EXCEPT !.at = "release", !.last = unparsed])
  /\ UNCHANGED <<pages, decided, download, accepted, jobs>>

\* stage1: a document with a decision is not evaluated again.
Remember(r, d) ==
  /\ MainAt(r, "cached") /\ d \in main[r].todo
  /\ LET left == main[r].todo \ {d}
         fresh == main[r].fresh \cup IF decided[d] = "NONE" THEN {d} ELSE {}
     IN MainGoes(r, [main[r] EXCEPT
          !.todo = left, !.fresh = fresh,
          !.good = @ \cup IF decided[d] = "APPROVED" THEN {d} ELSE {},
          !.at = IF left # {} THEN "cached" ELSE IF fresh = {} THEN "report" ELSE "evaluate"])
  /\ UNCHANGED <<pages, decided, download, accepted, jobs, troubles>>

EvaluatePage(r) ==
  /\ MainAt(r, "evaluate")
  /\ \E chosen \in SUBSET main[r].fresh :
       MainGoes(r, [main[r] EXCEPT !.at = "record", !.todo = main[r].fresh, !.good = @ \cup chosen])
  /\ UNCHANGED <<pages, decided, download, accepted, jobs, troubles>>

\* upsert, one document at a time: the last writer decides.
Record(r, d) ==
  /\ MainAt(r, "record") /\ d \in main[r].todo
  /\ decided' = [decided EXCEPT ![d] = IF d \in main[r].good THEN "APPROVED" ELSE "REJECTED"]
  /\ MainGoes(r, [main[r] EXCEPT !.todo = @ \ {d},
                                 !.at = IF main[r].todo = {d} THEN "report" ELSE "record"])
  /\ UNCHANGED <<pages, download, accepted, jobs, troubles>>

\* An exception anywhere in Stage 1: the page is skipped.
StageFails(r) ==
  /\ main[r].at \in {"cached", "evaluate", "record"} /\ Trouble
  /\ MainGoes(r, [main[r] EXCEPT !.at = "release", !.todo = {}, !.good = {}, !.fresh = {}])
  /\ UNCHANGED <<pages, decided, download, accepted, jobs>>

\* page_result, before anything is queued.
Report(r) ==
  /\ MainAt(r, "report")
  /\ MainGoes(r, [main[r] EXCEPT !.found = TRUE, !.fresh = {}, !.todo = main[r].good,
                                 !.at = IF main[r].good = {} THEN "release" ELSE "enqueue"])
  /\ UNCHANGED <<pages, decided, download, accepted, jobs, troubles>>

Enqueue(r, d) ==
  /\ MainAt(r, "enqueue") /\ d \in main[r].todo
  /\ jobs' = [jobs EXCEPT ![r] = @ \cup {d}]
  /\ MainGoes(r, [main[r] EXCEPT !.todo = @ \ {d},
                                 !.at = IF main[r].todo = {d} THEN "release" ELSE "enqueue"])
  /\ UNCHANGED <<pages, decided, download, accepted, troubles>>

\* Mutant of Closed: page_done does not look at the owner.
Closed_Unfenced(r, p) ==
  [status |-> IF main[r].found THEN "COMPLETED" ELSE "FAILED", owner |-> Nobody, live |-> FALSE]
\* page_done: only under a live claim of one's own.
Closed(r, p) ==
  IF pages[p].owner = r /\ pages[p].live
  THEN [status |-> IF main[r].found THEN "COMPLETED" ELSE "FAILED",
        owner |-> Nobody, live |-> FALSE]
  ELSE pages[p]

Release(r) ==
  /\ MainAt(r, "release")
  /\ LET p == main[r].page
     IN /\ pages' = [pages EXCEPT ![p] = Closed(r, p)]
        /\ MainGoes(r, IF main[r].last THEN [AtPage(p) EXCEPT !.at = "drain"] ELSE AtPage(p + 1))
  /\ UNCHANGED <<decided, download, accepted, jobs, troubles>>

\* drain_until_idle and the end of the run.
End(r) ==
  /\ MainAt(r, "drain") /\ jobs[r] = {}
  /\ MainGoes(r, Off)
  /\ UNCHANGED <<pages, decided, download, accepted, jobs, troubles>>

-----------------------------------------------------------------------------
(* Downloads, and what goes wrong                                          *)

\* execute up to claim: the candidate is written as approved; what is settled
\* or beyond the target leaves the queue, what another owns comes again.
ClaimDocument(r, d) ==
  /\ Up(r) /\ d \in jobs[r]
  /\ download[d].owner # r \/ ~download[d].live
  /\ decided' = [decided EXCEPT ![d] = "APPROVED"]
  /\ IF download[d].state # "open" \/ Reached
     THEN jobs' = [jobs EXCEPT ![r] = @ \ {d}] /\ UNCHANGED download
     ELSE /\ download' = IF Free(download[d])
                        THEN [download EXCEPT ![d] = [state |-> "open", owner |-> r, live |-> TRUE]]
                        ELSE download
          /\ UNCHANGED jobs
  /\ UNCHANGED <<pages, accepted, main, troubles>>

\* finish: stored, given up, or to be tried again.
Finish(r, d, outcome) ==
  /\ Up(r) /\ download[d].owner = r /\ download[d].live
  /\ download' = [download EXCEPT ![d] = [state |-> outcome, owner |-> Nobody, live |-> FALSE]]
  /\ jobs' = [jobs EXCEPT ![r] = IF outcome = "open" THEN @ ELSE @ \ {d}]
  /\ UNCHANGED <<pages, decided, accepted, main, troubles>>
Settle(r, d) == \E outcome \in {"stored", "given up"} : Finish(r, d, outcome)

Accept(d) ==
  /\ download[d].state = "stored" /\ d \notin accepted
  /\ accepted' = accepted \cup {d}
  /\ UNCHANGED <<pages, decided, download, main, jobs, troubles>>

\* The heartbeat of r fails for a whole lease.
LapseRow(row, r) == IF row.owner = r THEN [row EXCEPT !.live = FALSE] ELSE row
LeasesLapse(r) ==
  /\ \/ \E p \in 1..Pages : pages[p].owner = r /\ pages[p].live
     \/ \E d \in Doc : download[d].owner = r /\ download[d].live
  /\ \/ r \in Runtime /\ Trouble
     \/ r = Gone /\ UNCHANGED troubles
  /\ pages' = [p \in 1..Pages |-> LapseRow(pages[p], r)]
  /\ download' = [d \in Doc |-> LapseRow(download[d], r)]
  /\ UNCHANGED <<decided, accepted, main, jobs>>

\* The runtime is lost, or a database error ends its run.
LoseRuntime(r) ==
  /\ Up(r) /\ Trouble
  /\ LET left(row) == IF row.owner = r THEN [row EXCEPT !.owner = Gone] ELSE row
     IN /\ pages' = [p \in 1..Pages |-> left(pages[p])]
        /\ download' = [d \in Doc |-> left(download[d])]
  /\ MainGoes(r, Off) /\ jobs' = [jobs EXCEPT ![r] = {}]
  /\ UNCHANGED <<decided, accepted>>

PageStep(r) ==
  \/ ClaimPage(r) \/ LookAtTarget(r) \/ Fetch(r) \/ EvaluatePage(r) \/ Report(r) \/ Release(r)
  \/ End(r)
  \/ \E d \in Doc : Remember(r, d) \/ Record(r, d) \/ Enqueue(r, d)

PagesNext ==
  \/ \E r \in Runtime :
       \/ Start(r) \/ Refresh(r) \/ PageStep(r) \/ StageFails(r) \/ LoseRuntime(r)
       \/ \E d \in Doc : \/ ClaimDocument(r, d)
                         \/ \E outcome \in {"open", "stored", "given up"} : Finish(r, d, outcome)
  \/ \E d \in Doc : Accept(d)
  \/ \E r \in Runtime \cup {Gone} : LeasesLapse(r)

\* A runtime that ended is started again, the page loop and the downloads go
\* on, the attempts of a document are bounded (module Leases), and the leases
\* of a lost instance lapse.
PagesFairness ==
  /\ WF_pagesVars(LeasesLapse(Gone))
  /\ \A r \in Runtime :
       /\ WF_pagesVars(Start(r)) /\ WF_pagesVars(PageStep(r))
       /\ \A d \in Doc : WF_pagesVars(ClaimDocument(r, d)) /\ SF_pagesVars(Settle(r, d))

PagesSpec == PagesInit /\ [][PagesNext]_pagesVars
PagesFairSpec == PagesSpec /\ PagesFairness

-----------------------------------------------------------------------------
(* Properties                                                              *)

\* A page that counts as searched stays so: a runtime whose lease lapsed in
\* the middle cannot reopen or re-close what another one finished.
PageStands ==
  [][\A p \in 1..Pages : pages[p].status = "COMPLETED" => pages'[p] = pages[p]]_pagesVars

\* Every page is searched in the end, or the target is reached: also the page
\* that a lost runtime was searching, and the one whose search failed.
EveryPageIsSearched == \A p \in 1..Pages : <>(pages[p].status = "COMPLETED" \/ Reached)

\* A document that Stage 1 approved is stored or given up in the end, or the
\* target is reached, or an evaluation that was under way rejects it: also when
\* the runtime that approved it is lost after the page was closed.
ApprovedIsSettled ==
  \A d \in Doc : decided[d] = "APPROVED" ~>
    (download[d].state # "open" \/ Reached \/ decided[d] = "REJECTED")
=============================================================================
