---------------------------- MODULE SharedProofs ----------------------------
(***************************************************************************)
(* What holds of the distributed mode for any number of runtimes, losses   *)
(* and lapsed leases: of the search pages, for any pages, documents and    *)
(* assignment of the pages; of a document's verdicts, for any queries and  *)
(* versions of the bytes.                                                  *)
(*                                                                         *)
(* The invariant of the pages says that closing a page ends its claim:     *)
(* then neither the claim nor the release of anybody else applies to it,   *)
(* and no lease is left on it that could lapse or pass to a lost instance. *)
(* The types of the search need one thing more: the loop is on a page      *)
(* there is whenever it is not between two pages.                          *)
(*                                                                         *)
(* The invariant of the verdicts says of a runtime between the second look *)
(* at the cache and its save what NotPaidAgain says of the question alone: *)
(* as long as it owns the lease there is no verdict for the bytes it       *)
(* judges.  A save by its owner therefore never meets an earlier verdict   *)
(* for these bytes, and a save by anyone else changes nothing.             *)
(***************************************************************************)
EXTENDS SharedPages, SharedVerdict, TLAPS

-----------------------------------------------------------------------------
(* The search pages                                                        *)

Closing(row) == row.status = "COMPLETED" => row.owner = Nobody /\ ~row.live

PagesInv ==
  /\ pages \in [1..Pages -> Page]
  /\ \A p \in 1..Pages : Closing(pages[p])

\* A row of the table that closing leaves alone.
Keeps(old, new) == new \in Page /\ Closing(new) /\ (old.status = "COMPLETED" => new = old)

\* A step that keeps each row keeps the invariant.
LEMMA RowByRow ==
  ASSUME PagesInv, pages' \in [1..Pages -> Page],
         \A p \in 1..Pages : Keeps(pages[p], pages'[p])
  PROVE  PagesInv' /\ \A p \in 1..Pages : pages[p].status = "COMPLETED" => pages'[p] = pages[p]
  BY DEF PagesInv, Keeps

\* A step that replaces one row, the one behind the last page included.
LEMMA OneRow ==
  ASSUME PagesInv, NEW p, NEW new, pages' = [pages EXCEPT ![p] = new],
         p \in 1..Pages => Keeps(pages[p], new)
  PROVE  pages' \in [1..Pages -> Page] /\ \A o \in 1..Pages : Keeps(pages[o], pages'[o])
  <1>1. pages \in [1..Pages -> Page] /\ \A o \in 1..Pages : Keeps(pages[o], pages[o])
    BY DEF PagesInv, Keeps
  <1>2. CASE p \notin 1..Pages
    <2>1. pages' = pages
      BY <1>1, <1>2
    <2> QED
      BY <1>1, <2>1
  <1>3. CASE p \in 1..Pages
    <2>1. new \in Page
      BY <1>3 DEF Keeps
    <2>2. pages' \in [1..Pages -> Page] /\ pages'[p] = new
          /\ \A o \in 1..Pages : o # p => pages'[o] = pages[o]
      BY <1>1, <1>3, <2>1
    <2> QED
      BY <1>1, <1>3, <2>2
  <1> QED
    BY <1>2, <1>3

LEMMA PagesInvInit == PagesInit => PagesInv
  <1> SUFFICES ASSUME PagesInit PROVE PagesInv
    OBVIOUS
  <1> DEFINE row == [status |-> "READY", owner |-> Nobody, live |-> FALSE]
  <1>1. row \in Page /\ Closing(row)
    BY DEF Page, Owner, Closing
  <1>2. pages = [p \in 1..Pages |-> row]
    BY DEF PagesInit
  <1> QED
    BY <1>1, <1>2 DEF PagesInv

\* A claim is taken on a page that is not closed.
LEMMA ClaimKeeps ==
  ASSUME PagesInv, NEW r \in Runtime, ClaimPage(r)
  PROVE  pages' \in [1..Pages -> Page] /\ \A p \in 1..Pages : Keeps(pages[p], pages'[p])
  <1> DEFINE p == main[r].page
             new == [status |-> "RUNNING", owner |-> r, live |-> TRUE]
  <1>1. CASE UNCHANGED pages
    BY <1>1 DEF PagesInv, Keeps
  <1>2. CASE Claimable(r, p) /\ pages' = [pages EXCEPT ![p] = new]
    <2>1. new \in Page /\ Closing(new)
      BY DEF Page, Owner, Closing
    <2>2. pages[p].status # "COMPLETED"
      BY <1>2 DEF Claimable
    <2>3. Keeps(pages[p], new)
      BY <2>1, <2>2 DEF Keeps
    <2> HIDE DEF new, p
    <2> QED
      BY <1>2, <2>3, OneRow
  <1> QED
    BY <1>1, <1>2 DEF ClaimPage

\* page_done closes a page under a live claim, which a closed page does not have.
LEMMA ReleaseKeeps ==
  ASSUME PagesInv, NEW r \in Runtime, Release(r)
  PROVE  pages' \in [1..Pages -> Page] /\ \A p \in 1..Pages : Keeps(pages[p], pages'[p])
  <1> DEFINE p == main[r].page
             new == Closed(r, p)
  <1>1. pages' = [pages EXCEPT ![p] = new]
    BY DEF Release
  <1>2. ASSUME p \in 1..Pages PROVE Keeps(pages[p], new)
    <2>1. pages[p] \in Page /\ Closing(pages[p])
      BY <1>2 DEF PagesInv
    <2>2. CASE pages[p].owner = r /\ pages[p].live
      <3> DEFINE done == [status |-> IF main[r].found THEN "COMPLETED" ELSE "FAILED",
                          owner |-> Nobody, live |-> FALSE]
      <3>1. new = done
        BY <2>2 DEF Closed
      <3>2. done \in Page /\ Closing(done)
        BY DEF Page, Owner, Closing
      <3>3. pages[p].status # "COMPLETED"
        BY <2>1, <2>2 DEF Closing
      <3> HIDE DEF done, new
      <3> QED
        BY <3>1, <3>2, <3>3 DEF Keeps
    <2>3. CASE ~(pages[p].owner = r /\ pages[p].live)
      BY <2>1, <2>3 DEF Closed, Keeps
    <2> QED
      BY <2>2, <2>3
  <1> HIDE DEF new, p
  <1> QED
    BY <1>1, <1>2, OneRow

\* Leases lapse, and pass to a lost instance, only on pages with a claim.
LEMMA LossKeeps ==
  ASSUME PagesInv,
         (\E r \in Runtime \cup {Gone} : LeasesLapse(r)) \/ (\E r \in Runtime : LoseRuntime(r))
  PROVE  pages' \in [1..Pages -> Page] /\ \A p \in 1..Pages : Keeps(pages[p], pages'[p])
  <1>0. \A p \in 1..Pages : pages[p] \in Page /\ Closing(pages[p])
    BY DEF PagesInv
  <1>1. ASSUME NEW r \in Runtime \cup {Gone}, LeasesLapse(r)
        PROVE  pages' \in [1..Pages -> Page] /\ \A p \in 1..Pages : Keeps(pages[p], pages'[p])
    <2>1. \A row \in Page : Closing(row) => Keeps(row, LapseRow(row, r))
      BY RuntimesAssumption DEF Page, Owner, Closing, Keeps, LapseRow
    <2>2. pages' = [p \in 1..Pages |-> LapseRow(pages[p], r)]
      BY <1>1 DEF LeasesLapse
    <2>3. \A p \in 1..Pages : pages'[p] = LapseRow(pages[p], r) /\ Keeps(pages[p], LapseRow(pages[p], r))
      BY <1>0, <2>1, <2>2
    <2> QED
      BY <2>2, <2>3 DEF Keeps
  <1>2. ASSUME NEW r \in Runtime, LoseRuntime(r)
        PROVE  pages' \in [1..Pages -> Page] /\ \A p \in 1..Pages : Keeps(pages[p], pages'[p])
    <2> DEFINE left(row) == IF row.owner = r THEN [row EXCEPT !.owner = Gone] ELSE row
    <2>1. \A row \in Page : Closing(row) => Keeps(row, left(row))
      BY RuntimesAssumption DEF Page, Owner, Closing, Keeps
    <2>2. pages' = [p \in 1..Pages |-> left(pages[p])]
      BY <1>2 DEF LoseRuntime
    <2> HIDE DEF left
    <2>3. \A p \in 1..Pages : pages'[p] = left(pages[p]) /\ Keeps(pages[p], left(pages[p]))
      BY <1>0, <2>1, <2>2
    <2> QED
      BY <2>2, <2>3 DEF Keeps
  <1> QED
    BY <1>1, <1>2

LEMMA PagesStep ==
  ASSUME PagesInv, [PagesNext]_pagesVars
  PROVE  PagesInv' /\ \A p \in 1..Pages : pages[p].status = "COMPLETED" => pages'[p] = pages[p]
  <1>1. CASE UNCHANGED pages
    BY <1>1 DEF PagesInv
  <1>2. CASE \E r \in Runtime : ClaimPage(r)
    BY <1>2, ClaimKeeps, RowByRow
  <1>3. CASE \E r \in Runtime : Release(r)
    BY <1>3, ReleaseKeeps, RowByRow
  <1>4. CASE (\E r \in Runtime \cup {Gone} : LeasesLapse(r)) \/ (\E r \in Runtime : LoseRuntime(r))
    BY <1>4, LossKeeps, RowByRow
  <1>5. ASSUME NEW r \in Runtime, PageStep(r) \/ StageFails(r) \/ Start(r) \/ Refresh(r)
        PROVE  UNCHANGED pages \/ ClaimPage(r) \/ Release(r)
    BY <1>5 DEF PageStep, LookAtTarget, Fetch, EvaluatePage, Report, End, Remember, Record, Enqueue,
                StageFails, Start, Refresh
  <1>6. ASSUME NEW d \in Doc,
               Accept(d) \/ \E r \in Runtime :
                 ClaimDocument(r, d) \/ \E outcome \in {"open", "stored", "given up"} : Finish(r, d, outcome)
        PROVE  UNCHANGED pages
    BY <1>6 DEF Accept, ClaimDocument, Finish
  <1>7. CASE UNCHANGED pagesVars
    BY <1>1, <1>7 DEF pagesVars
  <1> QED
    BY <1>1, <1>2, <1>3, <1>4, <1>5, <1>6, <1>7 DEF PagesNext

\* A page that counts as searched is never claimed, closed or lost again: a
\* runtime whose lease lapsed in the middle of it comes too late.
THEOREM PagesStand == PagesSpec => PageStands
  <1> DEFINE Stand == \A p \in 1..Pages : pages[p].status = "COMPLETED" => pages'[p] = pages[p]
  <1>1. PagesInv /\ [PagesNext]_pagesVars => PagesInv'
    BY PagesStep
  <1>2. PagesInv /\ [PagesNext]_pagesVars => [Stand]_pagesVars
    BY PagesStep
  <1> QED
    BY <1>1, <1>2, PagesInvInit, PTL DEF PagesSpec, PageStands

-----------------------------------------------------------------------------
(* Types of the search                                                     *)

\* The page loop between the claim of a page and its release.
Searching == MainSteps \ {"off", "pages", "drain"}
LoopInv == \A r \in Runtime : main[r].at \in Searching => main[r].page \in 1..Pages
SearchInv == PagesTypeOK /\ LoopInv

\* What a step may make of the page loop of a runtime.
Sane(m) == m \in Main /\ (m.at \in Searching => m.page \in 1..Pages)

\* The records that a loop starts, ends or drains with are sane.
LEMMA AtPageSane ==
  ASSUME NEW p \in 1..Pages + 1
  PROVE  /\ Sane(AtPage(p)) /\ Sane(Off)
         /\ Sane([AtPage(p) EXCEPT !.at = "drain"])
  <1>1. Pages \in Nat /\ 1 \in 1..Pages + 1
    BY SharedPagesAssumption
  <1>2. ASSUME NEW q \in 1..Pages + 1, NEW step \in {"pages", "off", "drain"}
        PROVE  Sane([AtPage(q) EXCEPT !.at = step])
    <2>1. AtPage(q) \in Main /\ AtPage(q).page = q
      BY <1>2 DEF AtPage, Main, MainSteps
    <2>2. /\ [AtPage(q) EXCEPT !.at = step] \in Main
          /\ [AtPage(q) EXCEPT !.at = step].at = step
      BY <2>1 DEF Main, MainSteps
    <2> QED BY <2>2 DEF Sane, Searching
  <1>3. Sane(AtPage(p))
    BY DEF AtPage, Sane, Main, MainSteps, Searching
  <1> QED BY <1>1, <1>2, <1>3 DEF Off

\* They hold when the table is new and no runtime has started.
LEMMA SearchInit == PagesInit => SearchInv
  <1> SUFFICES ASSUME PagesInit PROVE SearchInv
    OBVIOUS
  <1>1. Pages \in Nat /\ 1 \in 1..Pages + 1 /\ MaxTroubles \in Nat
    BY SharedPagesAssumption, RuntimesAssumption
  <1>2. Sane(Off)
    BY <1>1, AtPageSane
  <1>3. pages \in [1..Pages -> Page]
    BY DEF PagesInit, Page, Owner
  <1>4. download \in [Doc -> Download]
    BY DEF PagesInit, Download, Owner
  <1>5. main \in [Runtime -> Main] /\ LoopInv
    BY <1>2 DEF PagesInit, Sane, LoopInv
  <1>6. /\ decided \in [Doc -> {"NONE", "APPROVED", "REJECTED"}] /\ accepted \in SUBSET Doc
        /\ jobs \in [Runtime -> SUBSET Doc] /\ troubles \in 0..MaxTroubles
    BY <1>1 DEF PagesInit
  <1> QED BY <1>3, <1>4, <1>5, <1>6 DEF SearchInv, PagesTypeOK

\* A step of one page loop keeps the types if its record stays sane.
LEMMA LoopStep ==
  ASSUME SearchInv, NEW r \in Runtime, NEW m, Sane(m), MainGoes(r, m)
  PROVE  main' \in [Runtime -> Main] /\ LoopInv'
  <1>1. main' \in [Runtime -> Main]
    BY DEF SearchInv, PagesTypeOK, MainGoes, Sane
  <1>2. ASSUME NEW q \in Runtime, main'[q].at \in Searching PROVE main'[q].page \in 1..Pages
    <2>1. main'[q] = IF q = r THEN m ELSE main[q]
      BY DEF SearchInv, PagesTypeOK, MainGoes
    <2> QED BY <1>2, <2>1 DEF SearchInv, LoopInv, Sane
  <1> QED BY <1>1, <1>2 DEF LoopInv

\* The count of troubles stays below its bound.
LEMMA TroubleTypes ==
  ASSUME troubles \in 0..MaxTroubles, Trouble \/ troubles' = troubles
  PROVE  troubles' \in 0..MaxTroubles
  BY RuntimesAssumption DEF Trouble

\* The page loop.
LEMMA MainTypes ==
  ASSUME SearchInv, NEW r \in Runtime,
         PageStep(r) \/ StageFails(r) \/ Start(r)
  PROVE  main' \in [Runtime -> Main] /\ LoopInv'
  <1> DEFINE m == main[r]
  <1>1. /\ m \in Main /\ m.page \in 1..Pages + 1 /\ m.todo \in SUBSET Doc /\ m.fresh \in SUBSET Doc
        /\ m.good \in SUBSET Doc /\ m.found \in BOOLEAN /\ m.last \in BOOLEAN /\ m.at \in MainSteps
        /\ m.at \in Searching => m.page \in 1..Pages
    BY DEF SearchInv, PagesTypeOK, LoopInv, Main
  <1>2. Pages \in Nat /\ 1 \in 1..Pages + 1 /\ Listing \in [1..Pages -> SUBSET Doc]
    BY SharedPagesAssumption
  <1>3. ASSUME NEW n, Sane(n), MainGoes(r, n) PROVE main' \in [Runtime -> Main] /\ LoopInv'
    BY <1>3, LoopStep
  <1>4. ASSUME Start(r) \/ End(r) PROVE main' \in [Runtime -> Main] /\ LoopInv'
    BY <1>2, <1>3, <1>4, AtPageSane DEF Start, End
  <1>5. ASSUME ClaimPage(r) PROVE main' \in [Runtime -> Main] /\ LoopInv'
    <2>1. CASE m.page > Pages
      <3>1. Sane([m EXCEPT !.at = "drain"])
        BY <1>1 DEF Sane, Main, MainSteps, Searching
      <3> QED BY <1>3, <1>5, <2>1, <3>1 DEF ClaimPage
    <2>2. CASE ~(m.page > Pages) /\ Claimable(r, m.page)
      <3>1. Sane([m EXCEPT !.at = "look"])
        BY <1>1, <1>2, <2>2 DEF Sane, Main, MainSteps, Searching
      <3> QED BY <1>3, <1>5, <2>2, <3>1 DEF ClaimPage
    <2>3. CASE ~(m.page > Pages) /\ ~Claimable(r, m.page)
      <3>1. m.page + 1 \in 1..Pages + 1
        BY <1>1, <1>2, <2>3
      <3>2. Sane(AtPage(m.page + 1))
        BY <3>1, AtPageSane
      <3> QED BY <1>3, <1>5, <2>3, <3>2 DEF ClaimPage
    <2> QED BY <2>1, <2>2, <2>3
  <1>6. ASSUME Release(r) PROVE main' \in [Runtime -> Main] /\ LoopInv'
    <2>1. m.page \in 1..Pages + 1 /\ m.page + 1 \in 1..Pages + 1
      BY <1>1, <1>2, <1>6 DEF Release, MainAt, Searching, MainSteps
    <2>2. Sane(AtPage(m.page + 1)) /\ Sane([AtPage(m.page) EXCEPT !.at = "drain"])
      BY <2>1, AtPageSane
    <2> QED BY <1>3, <1>6, <2>2 DEF Release
  <1>7. ASSUME m.at \in Searching,
               NEW n \in Main, n.page = m.page, MainGoes(r, n)
        PROVE  main' \in [Runtime -> Main] /\ LoopInv'
    BY <1>1, <1>3, <1>7 DEF Sane
  <1>8. ASSUME LookAtTarget(r) PROVE main' \in [Runtime -> Main] /\ LoopInv'
    <2> DEFINE n == IF Reached THEN [m EXCEPT !.at = "release", !.last = TRUE]
                    ELSE [m EXCEPT !.at = "fetch"]
    <2>1. n \in Main /\ n.page = m.page
      BY <1>1 DEF Main, MainSteps
    <2>2. MainGoes(r, n) /\ m.at \in Searching
      BY <1>8 DEF LookAtTarget, MainAt, Searching, MainSteps
    <2> QED BY <1>7, <2>1, <2>2
  <1>9. ASSUME Fetch(r) PROVE main' \in [Runtime -> Main] /\ LoopInv'
    <2>1. m.at \in Searching
      BY <1>9 DEF Fetch, MainAt, Searching, MainSteps
    <2> DEFINE listed == Listing[m.page]
    <2>2. listed \in SUBSET Doc
      BY <1>1, <1>2, <2>1
    <2>3. /\ [m EXCEPT !.at = "release", !.found = TRUE, !.last = TRUE] \in Main
          /\ [m EXCEPT !.at = "cached", !.todo = listed] \in Main
          /\ \A unparsed \in BOOLEAN : [m EXCEPT !.at = "release", !.last = unparsed] \in Main
      BY <1>1, <2>2 DEF Main, MainSteps
    <2>4. /\ [m EXCEPT !.at = "release", !.found = TRUE, !.last = TRUE].page = m.page
          /\ [m EXCEPT !.at = "cached", !.todo = listed].page = m.page
          /\ \A unparsed \in BOOLEAN : [m EXCEPT !.at = "release", !.last = unparsed].page = m.page
      BY <1>1 DEF Main
    <2>5. \/ MainGoes(r, [m EXCEPT !.at = "release", !.found = TRUE, !.last = TRUE])
          \/ MainGoes(r, [m EXCEPT !.at = "cached", !.todo = listed])
          \/ \E unparsed \in BOOLEAN : MainGoes(r, [m EXCEPT !.at = "release", !.last = unparsed])
      BY <1>9 DEF Fetch
    <2> QED BY <1>7, <2>1, <2>3, <2>4, <2>5
  <1>10. ASSUME NEW d \in Doc, Remember(r, d) PROVE main' \in [Runtime -> Main] /\ LoopInv'
    <2> DEFINE left == m.todo \ {d}
               fresh == m.fresh \cup IF decided[d] = "NONE" THEN {d} ELSE {}
               good == m.good \cup IF decided[d] = "APPROVED" THEN {d} ELSE {}
               at == IF left # {} THEN "cached" ELSE IF fresh = {} THEN "report" ELSE "evaluate"
               n == [m EXCEPT !.todo = left, !.fresh = fresh, !.good = good, !.at = at]
    <2>1. left \in SUBSET Doc /\ fresh \in SUBSET Doc /\ good \in SUBSET Doc /\ at \in MainSteps
      BY <1>1 DEF MainSteps
    <2>2. MainGoes(r, n) /\ m.at \in Searching
      BY <1>10 DEF Remember, MainAt, Searching, MainSteps
    <2> HIDE DEF left, fresh, good, at
    <2>3. n \in Main /\ n.page = m.page
      BY <1>1, <2>1 DEF Main
    <2> QED BY <1>7, <2>2, <2>3
  <1>11. ASSUME EvaluatePage(r) PROVE main' \in [Runtime -> Main] /\ LoopInv'
    <2>1. PICK chosen \in SUBSET m.fresh :
            MainGoes(r, [m EXCEPT !.at = "record", !.todo = m.fresh, !.good = m.good \cup chosen])
      BY <1>11 DEF EvaluatePage
    <2> DEFINE n == [m EXCEPT !.at = "record", !.todo = m.fresh, !.good = m.good \cup chosen]
    <2>2. n \in Main /\ n.page = m.page
      BY <1>1 DEF Main, MainSteps
    <2>3. m.at \in Searching
      BY <1>11 DEF EvaluatePage, MainAt, Searching, MainSteps
    <2> QED BY <1>7, <2>1, <2>2, <2>3
  <1>12. ASSUME NEW d \in Doc, Record(r, d) \/ Enqueue(r, d)
         PROVE  main' \in [Runtime -> Main] /\ LoopInv'
    <2>1. PICK at \in MainSteps : MainGoes(r, [m EXCEPT !.todo = m.todo \ {d}, !.at = at])
      BY <1>12 DEF Record, Enqueue, MainSteps
    <2> DEFINE n == [m EXCEPT !.todo = m.todo \ {d}, !.at = at]
    <2>2. n \in Main /\ n.page = m.page
      BY <1>1 DEF Main
    <2>3. m.at \in Searching
      BY <1>12 DEF Record, Enqueue, MainAt, Searching, MainSteps
    <2> QED BY <1>7, <2>1, <2>2, <2>3
  <1>13. ASSUME StageFails(r) PROVE main' \in [Runtime -> Main] /\ LoopInv'
    <2> DEFINE n == [m EXCEPT !.at = "release", !.todo = {}, !.good = {}, !.fresh = {}]
    <2>1. n \in Main /\ n.page = m.page
      BY <1>1 DEF Main, MainSteps
    <2>2. MainGoes(r, n) /\ m.at \in Searching
      BY <1>13 DEF StageFails, Searching, MainSteps
    <2> QED BY <1>7, <2>1, <2>2
  <1>14. ASSUME Report(r) PROVE main' \in [Runtime -> Main] /\ LoopInv'
    <2> DEFINE at == IF m.good = {} THEN "release" ELSE "enqueue"
               n == [m EXCEPT !.found = TRUE, !.fresh = {}, !.todo = m.good, !.at = at]
    <2>1. n \in Main /\ n.page = m.page
      BY <1>1 DEF Main, MainSteps
    <2>2. MainGoes(r, n) /\ m.at \in Searching
      BY <1>14 DEF Report, MainAt, Searching, MainSteps
    <2> QED BY <1>7, <2>1, <2>2
  <1> QED
    BY <1>4, <1>5, <1>6, <1>8, <1>9, <1>10, <1>11, <1>12, <1>13, <1>14 DEF PageStep

\* The rows of the documents: a claim, an end, a lapse or a loss.
LEMMA DownloadTypes ==
  ASSUME SearchInv,
         \/ \E r \in Runtime, d \in Doc : ClaimDocument(r, d)
         \/ \E r \in Runtime, d \in Doc, outcome \in {"open", "stored", "given up"} :
              Finish(r, d, outcome)
         \/ \E r \in Runtime \cup {Gone} : LeasesLapse(r)
         \/ \E r \in Runtime : LoseRuntime(r)
  PROVE  download' \in [Doc -> Download]
  <1>1. download \in [Doc -> Download] /\ Runtime \subseteq Owner /\ {Nobody, Gone} \subseteq Owner
    BY DEF SearchInv, PagesTypeOK, Owner
  <1>2. ASSUME NEW r \in Runtime, NEW d \in Doc, ClaimDocument(r, d)
        PROVE  download' \in [Doc -> Download]
    <2>1. [state |-> "open", owner |-> r, live |-> TRUE] \in Download
      BY <1>1 DEF Download
    <2> QED BY <1>1, <1>2, <2>1 DEF ClaimDocument
  <1>3. ASSUME NEW r \in Runtime, NEW d \in Doc, NEW outcome \in {"open", "stored", "given up"},
               Finish(r, d, outcome)
        PROVE  download' \in [Doc -> Download]
    <2>1. [state |-> outcome, owner |-> Nobody, live |-> FALSE] \in Download
      BY <1>1, <1>3 DEF Download
    <2> QED BY <1>1, <1>3, <2>1 DEF Finish
  <1>4. ASSUME NEW r, LeasesLapse(r) PROVE download' \in [Doc -> Download]
    <2>1. \A d \in Doc : LapseRow(download[d], r) \in Download
      BY <1>1 DEF LapseRow, Download
    <2> QED BY <1>4, <2>1 DEF LeasesLapse
  <1>5. ASSUME NEW r, LoseRuntime(r) PROVE download' \in [Doc -> Download]
    <2> DEFINE left(row) == IF row.owner = r THEN [row EXCEPT !.owner = Gone] ELSE row
    <2>1. \A d \in Doc : left(download[d]) \in Download
      BY <1>1 DEF Download
    <2>2. download' = [d \in Doc |-> left(download[d])]
      BY <1>5 DEF LoseRuntime
    <2> QED BY <2>1, <2>2
  <1> QED BY <1>2, <1>3, <1>4, <1>5

\* Every step keeps the types, and the page loop on its pages.
LEMMA SearchStep == PagesInv /\ SearchInv /\ [PagesNext]_pagesVars => SearchInv'
  <1> SUFFICES ASSUME PagesInv, SearchInv, [PagesNext]_pagesVars PROVE SearchInv'
    OBVIOUS
  <1>1. pages' \in [1..Pages -> Page]
    BY PagesStep DEF PagesInv
  <1>2. /\ decided \in [Doc -> {"NONE", "APPROVED", "REJECTED"}] /\ download \in [Doc -> Download]
        /\ accepted \in SUBSET Doc /\ jobs \in [Runtime -> SUBSET Doc]
        /\ main \in [Runtime -> Main] /\ LoopInv /\ troubles \in 0..MaxTroubles
    BY DEF SearchInv, PagesTypeOK
  <1>3. ASSUME main' \in [Runtime -> Main] /\ LoopInv', download' \in [Doc -> Download],
               decided' \in [Doc -> {"NONE", "APPROVED", "REJECTED"}], accepted' \in SUBSET Doc,
               jobs' \in [Runtime -> SUBSET Doc], Trouble \/ troubles' = troubles
        PROVE  SearchInv'
    BY <1>1, <1>2, <1>3, TroubleTypes DEF SearchInv, PagesTypeOK
  <1>4. Recoverable \in SUBSET Doc
    BY DEF Recoverable
  <1>5. ASSUME NEW r \in Runtime, PageStep(r) \/ StageFails(r) \/ Start(r) PROVE SearchInv'
    <2>1. main' \in [Runtime -> Main] /\ LoopInv'
      BY <1>5, MainTypes
    <2>2. download' = download /\ accepted' = accepted
      BY <1>5 DEF PageStep, ClaimPage, LookAtTarget, Fetch, Remember, EvaluatePage, Record, Report,
                  Enqueue, Release, End, StageFails, Start
    <2>3. Trouble \/ troubles' = troubles
      BY <1>5 DEF PageStep, ClaimPage, LookAtTarget, Fetch, Remember, EvaluatePage, Record, Report,
                  Enqueue, Release, End, StageFails, Start
    <2>4. decided' \in [Doc -> {"NONE", "APPROVED", "REJECTED"}]
      BY <1>2, <1>5 DEF PageStep, ClaimPage, LookAtTarget, Fetch, Remember, EvaluatePage, Record,
                        Report, Enqueue, Release, End, StageFails, Start
    <2>5. jobs' \in [Runtime -> SUBSET Doc]
      <3>1. CASE \E d \in Doc : Enqueue(r, d)
        <4>1. PICK d \in Doc : jobs' = [jobs EXCEPT ![r] = jobs[r] \cup {d}]
          BY <3>1 DEF Enqueue
        <4>2. jobs[r] \cup {d} \in SUBSET Doc
          BY <1>2
        <4> QED BY <1>2, <4>1, <4>2
      <3>2. CASE Start(r)
        BY <1>2, <1>4, <3>2 DEF Start
      <3>3. CASE ~Start(r) /\ ~\E d \in Doc : Enqueue(r, d)
        BY <1>2, <1>5, <3>3 DEF PageStep, ClaimPage, LookAtTarget, Fetch, Remember, EvaluatePage,
                                Record, Report, Release, End, StageFails
      <3> QED BY <3>1, <3>2, <3>3
    <2> QED BY <1>2, <1>3, <2>1, <2>2, <2>3, <2>4, <2>5
  <1>6. ASSUME NEW r \in Runtime, Refresh(r) PROVE SearchInv'
    <2>1. jobs' \in [Runtime -> SUBSET Doc]
      BY <1>2, <1>4, <1>6 DEF Refresh
    <2>2. LoopInv' /\ UNCHANGED <<decided, download, accepted, main, troubles>>
      BY <1>2, <1>6 DEF Refresh, LoopInv
    <2> QED BY <1>2, <1>3, <2>1, <2>2
  <1>7. ASSUME NEW r \in Runtime, LoseRuntime(r) PROVE SearchInv'
    <2>1. Sane(Off)
      <3>1. 1 \in 1..Pages + 1
        BY SharedPagesAssumption
      <3> QED BY <3>1, AtPageSane
    <2>2. main' \in [Runtime -> Main] /\ LoopInv'
      BY <1>7, <2>1, LoopStep DEF LoseRuntime
    <2>3. download' \in [Doc -> Download]
      BY <1>7, DownloadTypes
    <2>4. jobs' \in [Runtime -> SUBSET Doc] /\ Trouble /\ UNCHANGED <<decided, accepted>>
      BY <1>2, <1>7 DEF LoseRuntime
    <2> QED BY <1>2, <1>3, <2>2, <2>3, <2>4
  <1>8. ASSUME NEW r \in Runtime, NEW d \in Doc,
               ClaimDocument(r, d) \/ \E outcome \in {"open", "stored", "given up"} : Finish(r, d, outcome)
        PROVE  SearchInv'
    <2>1. download' \in [Doc -> Download]
      BY <1>8, DownloadTypes
    <2>2. decided' \in [Doc -> {"NONE", "APPROVED", "REJECTED"}]
      BY <1>2, <1>8 DEF ClaimDocument, Finish
    <2>3. jobs' \in [Runtime -> SUBSET Doc]
      <3>1. jobs[r] \in SUBSET Doc /\ jobs[r] \ {d} \in SUBSET Doc
        BY <1>2
      <3>2. \/ jobs' = jobs \/ jobs' = [jobs EXCEPT ![r] = jobs[r] \ {d}]
            \/ jobs' = [jobs EXCEPT ![r] = jobs[r]]
        BY <1>8 DEF ClaimDocument, Finish
      <3> QED BY <1>2, <3>1, <3>2
    <2>4. LoopInv' /\ UNCHANGED <<accepted, main, troubles>>
      BY <1>2, <1>8 DEF ClaimDocument, Finish, LoopInv
    <2> QED BY <1>2, <1>3, <2>1, <2>2, <2>3, <2>4
  <1>9. ASSUME NEW d \in Doc, Accept(d) PROVE SearchInv'
    <2>1. accepted' \in SUBSET Doc
      BY <1>2, <1>9 DEF Accept
    <2>2. LoopInv' /\ UNCHANGED <<decided, download, main, jobs, troubles>>
      BY <1>2, <1>9 DEF Accept, LoopInv
    <2> QED BY <1>2, <1>3, <2>1, <2>2
  <1>10. ASSUME NEW r \in Runtime \cup {Gone}, LeasesLapse(r) PROVE SearchInv'
    <2>1. download' \in [Doc -> Download]
      BY <1>10, DownloadTypes
    <2>2. LoopInv' /\ UNCHANGED <<decided, accepted, main, jobs>> /\ (Trouble \/ troubles' = troubles)
      BY <1>2, <1>10 DEF LeasesLapse, LoopInv
    <2> QED BY <1>2, <1>3, <2>1, <2>2
  <1>11. CASE UNCHANGED pagesVars
    <2>1. LoopInv' /\ UNCHANGED <<decided, download, accepted, main, jobs, troubles>>
      BY <1>2, <1>11 DEF pagesVars, LoopInv
    <2> QED BY <1>2, <1>3, <2>1
  <1> QED
    BY <1>5, <1>6, <1>7, <1>8, <1>9, <1>10, <1>11 DEF PagesNext

\* Every variable of the search keeps its type, and a runtime that searches,
\* evaluates or releases does so on a page there is: the loop over the pages
\* never runs past the last one, whichever way its steps fail.
THEOREM SearchTyped == PagesSpec => [](PagesTypeOK /\ LoopInv)
  <1> QED
    BY SearchInit, SearchStep, PagesInvInit, PagesStep, PTL DEF PagesSpec, SearchInv

-----------------------------------------------------------------------------
(* The verdicts                                                            *)

RunRow == [at : Steps, row : Row, verdict : Verdict]
Result == [verdict : Verdict, of : 0..MaxSha,
           owner : Runtime \cup {Nobody, Gone}, live : BOOLEAN]

Judges(r) == run[r].at \in {"evaluate", "save"}

\* The strengthening: an owner that judges has no verdict before it.
Undecided == \A r \in Runtime : Judges(r) /\ Owns(r) => ~Decided(QueryOf[r], run[r].row.sha)

IInv == TypeOK /\ Undecided

-----------------------------------------------------------------------------
(* Types                                                                   *)

\* The names of the steps and of the statuses.
LEMMA Names ==
  /\ "off" \in Steps /\ "look" \in Steps /\ "claim" \in Steps /\ "recheck" \in Steps
  /\ "evaluate" \in Steps /\ "save" \in Steps /\ "leave" \in Steps
  /\ "PENDING" \in Statuses /\ "APPROVED" \in Statuses /\ "REJECTED" \in Statuses
  /\ "?" \in Tri
  BY DEF Steps, Statuses, Tri

\* The verdict nobody was asked for.
LEMMA PendingType == Pending \in Verdict
  BY Names DEF Pending, Verdict

\* A runtime that does nothing.
LEMMA IdleType == Idle \in RunRow
  <1>1. [sha |-> 1, known |-> "?"] \in Row
    BY Names, RuntimesAssumption, SharedVerdictAssumption DEF Row
  <1> QED
    BY <1>1, Names, PendingType DEF Idle, RunRow

\* What stage2 read of the document, at the first look.
LEMMA ReadType == \A rr \in Row : [Idle EXCEPT !.at = "look", !.row = rr] \in RunRow
  BY IdleType, Names DEF RunRow

\* One step of stage2 keeps what it read.
LEMMA ToType == \A rr \in RunRow : \A st \in Steps : [rr EXCEPT !.at = st] \in RunRow
  BY DEF RunRow

\* ... and one that has a verdict keeps it.
LEMMA BackType ==
  \A rr \in RunRow : \A v \in Verdict :
    /\ [rr EXCEPT !.at = "leave", !.verdict = v] \in RunRow
    /\ [rr EXCEPT !.at = "save", !.verdict = v] \in RunRow
  BY Names DEF RunRow

\* The status of an answer is one of the three.
LEMMA StatusType == \A a : Status(a) \in Statuses
  <1> TAKE a
  <1>1. Grade(a) \in Statuses
    <2>1. CASE a.more
      BY <2>1, Names DEF Grade
    <2>2. CASE ~a.more /\ a.approved /\ a.score = "high"
      BY <2>2, Names DEF Grade
    <2>3. CASE ~a.more /\ ~a.approved /\ a.score = "low"
      BY <2>3, Names DEF Grade
    <2>4. CASE /\ ~a.more
               /\ ~(~a.more /\ a.approved /\ a.score = "high")
               /\ ~(~a.more /\ ~a.approved /\ a.score = "low")
      BY <2>4, Names DEF Grade
    <2> QED
      BY <2>1, <2>2, <2>3, <2>4
  <1> QED
    BY <1>1, Names DEF Status

\* What the evaluation can say is a verdict.
LEMMA EvaluationType == \A bytes : Evaluations(bytes) \subseteq Verdict
  <1> TAKE bytes
  <1>1. \A a \in Answer : [status |-> Status(a), identity |-> a.identity] \in Verdict
    BY StatusType DEF Answer, Verdict
  <1> QED
    BY <1>1, PendingType DEF Evaluations, Replies

\* The shared identity leaves a verdict a verdict.
LEMMA AdjustedType == \A v \in Verdict : \A known \in Tri : Adjusted(v, known) \in Verdict
  BY Names DEF Adjusted, Verdict

\* The row of a query after a claim, a release, a lapse and a loss.
LEMMA RowTypes ==
  \A row \in Result : \A r \in Runtime \cup {Nobody, Gone} :
    /\ [row EXCEPT !.owner = r, !.live = TRUE] \in Result
    /\ Released(row, r) \in Result
    /\ LapsedRow(row, r) \in Result
    /\ [row EXCEPT !.owner = Gone] \in Result
  BY DEF Result, Released, LapsedRow

\* The types with the names of the records.
LEMMA Typed ==
  TypeOK <=> /\ sha \in 1..MaxSha /\ identity \in Known
             /\ result \in [Query -> Result] /\ run \in [Runtime -> RunRow]
             /\ troubles \in 0..MaxTroubles
  BY DEF TypeOK, Result, RunRow

\* ... and in the next state.
LEMMA TypedNext ==
  TypeOK' <=> /\ sha' \in 1..MaxSha /\ identity' \in Known
              /\ result' \in [Query -> Result] /\ run' \in [Runtime -> RunRow]
              /\ troubles' \in 0..MaxTroubles
  BY DEF TypeOK, Result, RunRow

\* The query of a runtime.
LEMMA QueryType == \A r \in Runtime : QueryOf[r] \in Query
  BY RuntimesAssumption, SharedVerdictAssumption

LEMMA TypeInit == Init => TypeOK
  <1> SUFFICES ASSUME Init PROVE TypeOK
    OBVIOUS
  <1>1. [verdict |-> Pending, of |-> 0, owner |-> Nobody, live |-> FALSE] \in Result
    BY PendingType, RuntimesAssumption, SharedVerdictAssumption DEF Result
  <1>2. [of |-> 0, value |-> "?"] \in Known
    BY Names, RuntimesAssumption, SharedVerdictAssumption DEF Known
  <1>3. sha \in 1..MaxSha /\ troubles \in 0..MaxTroubles
    BY RuntimesAssumption, SharedVerdictAssumption DEF Init
  <1>4. result \in [Query -> Result] /\ run \in [Runtime -> RunRow]
    BY <1>1, IdleType DEF Init
  <1> QED
    BY <1>2, <1>3, <1>4, Typed DEF Init

\* Types through the steps of stage2 that only move the runtime.
LEMMA TypeMoves ==
  ASSUME TypeOK, NEW r \in Runtime, Read(r) \/ Look(r) \/ Recheck(r) \/ Evaluate(r)
  PROVE  TypeOK'
  <1>1. run[r] \in RunRow /\ run[r].row \in Row /\ run[r].row.known \in Tri
    BY Typed DEF RunRow, Row
  <1>2. UNCHANGED <<sha, identity, result, troubles>>
    BY DEF Read, Look, Recheck, Evaluate
  <1>3. \E new \in RunRow : Goes(r, new)
    <2>1. CASE Read(r)
      <3> DEFINE known == IF identity.of = sha THEN identity.value ELSE "?"
                 read == [sha |-> sha, known |-> known]
      <3>1. read \in Row
        BY Typed, Names DEF Row, Known
      <3>2. Goes(r, [Idle EXCEPT !.at = "look", !.row = read])
        BY <2>1 DEF Read
      <3> QED
        BY <3>1, <3>2, ReadType
    <2>2. CASE Look(r)
      BY <2>2, <1>1, IdleType, ToType, Names DEF Look, To
    <2>3. CASE Recheck(r)
      <3>1. Mine(r).verdict \in Verdict
        BY Typed, QueryType DEF Mine, Result
      <3> QED
        BY <2>3, <3>1, <1>1, ToType, BackType, Names DEF Recheck, To, GivesBack
    <2>4. CASE Evaluate(r)
      <3>1. PICK v \in Evaluations(run[r].row.sha) :
              Goes(r, [run[r] EXCEPT !.at = "save", !.verdict = Adjusted(v, run[r].row.known)])
        BY <2>4 DEF Evaluate
      <3>2. Adjusted(v, run[r].row.known) \in Verdict
        BY <1>1, EvaluationType, AdjustedType
      <3> QED
        BY <3>1, <3>2, <1>1, BackType
    <2> QED
      BY <2>1, <2>2, <2>3, <2>4
  <1>4. run' \in [Runtime -> RunRow]
    BY <1>3, Typed DEF Goes
  <1> QED
    BY <1>2, <1>4, Typed, TypedNext

\* Types when the row of the runtime's query is replaced by another one.
LEMMA TypeRow ==
  ASSUME TypeOK, NEW q \in Query, NEW new \in Result, result' = [result EXCEPT ![q] = new]
  PROVE  result' \in [Query -> Result]
  BY Typed

\* Types through the claim, the save and the release of the lease.
LEMMA TypeLease ==
  ASSUME TypeOK, NEW r \in Runtime, Claim(r) \/ Save(r) \/ Leave(r)
  PROVE  TypeOK'
  <1> DEFINE q == QueryOf[r]
  <1>1. q \in Query /\ result[q] \in Result /\ run[r] \in RunRow /\ run[r].verdict \in Verdict
        /\ run[r].row.sha \in 1..MaxSha
    BY Typed, QueryType DEF RunRow, Row
  <1>2. CASE Claim(r)
    <2>1. result' \in [Query -> Result]
      <3>1. CASE UNCHANGED result
        BY <3>1, Typed
      <3>2. CASE result' = [result EXCEPT ![q].owner = r, ![q].live = TRUE]
        <4> DEFINE new == [result[q] EXCEPT !.owner = r, !.live = TRUE]
        <4>1. new \in Result
          BY <1>1, RowTypes
        <4>2. result' = [result EXCEPT ![q] = new]
          BY <3>2, Typed, <1>1
        <4> QED
          BY <4>1, <4>2, <1>1, TypeRow
      <3> QED
        BY <1>2, <3>1, <3>2 DEF Claim
    <2>2. run' \in [Runtime -> RunRow]
      BY <1>1, <1>2, IdleType, ToType, Names, Typed DEF Claim, To, Goes
    <2> QED
      BY <2>1, <2>2, <1>2, Typed, TypedNext DEF Claim
  <1>3. CASE Save(r)
    <2> DEFINE new == [verdict |-> run[r].verdict, of |-> run[r].row.sha,
                       owner |-> Nobody, live |-> FALSE]
               known == [of |-> run[r].row.sha, value |-> run[r].verdict.identity]
    <2>1. new \in Result /\ known \in Known
      BY <1>1, RuntimesAssumption, SharedVerdictAssumption DEF Result, Known, Verdict
    <2>2. result' = result \/ result' = [result EXCEPT ![q] = new]
      BY <1>3 DEF Save
    <2>3. identity' = identity \/ identity' = known
      BY <1>3 DEF Save
    <2>4. Returned(r) \in Verdict
      BY <1>1, PendingType DEF Returned
    <2>5. run' \in [Runtime -> RunRow]
      BY <1>1, <1>3, <2>4, BackType, Typed DEF Save, GivesBack, Goes
    <2>6. result' \in [Query -> Result] /\ identity' \in Known
      <3> HIDE DEF new, known
      <3> QED
        BY <2>1, <2>2, <2>3, <1>1, TypeRow, Typed
    <2> QED
      BY <2>5, <2>6, <1>3, Typed, TypedNext DEF Save
  <1>4. CASE Leave(r)
    <2>1. Released(result[q], r) \in Result
      BY <1>1, RowTypes
    <2>2. result' = [result EXCEPT ![q] = Released(result[q], r)]
      BY <1>4, <1>1, Typed DEF Leave
    <2>3. result' \in [Query -> Result]
      BY <2>1, <2>2, <1>1, TypeRow
    <2>4. run' \in [Runtime -> RunRow]
      BY <1>4, IdleType, Typed DEF Leave, Goes
    <2> QED
      BY <2>3, <2>4, <1>4, Typed, TypedNext DEF Leave
  <1> QED
    BY <1>2, <1>3, <1>4

\* Types through errors, losses, lapses and new downloads.
LEMMA TypeTroubles ==
  ASSUME TypeOK,
         \/ \E r \in Runtime : Fails(r) \/ Crash(r)
         \/ \E r \in Runtime \cup {Gone} : Lapse(r)
         \/ Replace
  PROVE  TypeOK'
  <1>1. troubles' \in 0..MaxTroubles
    <2>1. UNCHANGED troubles \/ (troubles < MaxTroubles /\ troubles' = troubles + 1)
      BY DEF Fails, Crash, Lapse, Replace, Trouble
    <2>2. troubles \in 0..MaxTroubles /\ MaxTroubles \in Nat
      BY Typed, RuntimesAssumption, SharedVerdictAssumption
    <2> QED
      BY <2>1, <2>2
  <1>2. ASSUME NEW r \in Runtime, Fails(r) PROVE TypeOK'
    <2>1. run[r] \in RunRow
      BY Typed
    <2>2. run' \in [Runtime -> RunRow]
      BY <1>2, <2>1, IdleType, PendingType, BackType, Typed DEF Fails, GivesBack, Goes
    <2> QED
      BY <1>1, <1>2, <2>2, Typed, TypedNext DEF Fails
  <1>3. ASSUME NEW r \in Runtime, Crash(r) PROVE TypeOK'
    <2> DEFINE q == QueryOf[r]
               new == IF result[q].owner = r THEN [result[q] EXCEPT !.owner = Gone] ELSE result[q]
    <2>1. q \in Query /\ result[q] \in Result
      BY Typed, QueryType
    <2>2. new \in Result
      BY <2>1, RowTypes
    <2>3. result' = [result EXCEPT ![q] = new]
      BY <1>3, <2>1, Typed DEF Crash
    <2>4. result' \in [Query -> Result]
      <3> HIDE DEF new
      <3> QED
        BY <2>1, <2>2, <2>3, TypeRow
    <2>5. run' \in [Runtime -> RunRow]
      BY <1>3, IdleType, Typed DEF Crash, Goes
    <2> QED
      BY <1>1, <1>3, <2>4, <2>5, Typed, TypedNext DEF Crash
  <1>4. ASSUME NEW r \in Runtime \cup {Gone}, Lapse(r) PROVE TypeOK'
    <2>1. \A row \in Result : LapsedRow(row, r) \in Result
      BY DEF Result, LapsedRow
    <2>2. result' \in [Query -> Result]
      BY <1>4, <2>1, Typed DEF Lapse
    <2> QED
      BY <1>1, <1>4, <2>2, Typed, TypedNext DEF Lapse
  <1>5. CASE Replace
    BY <1>1, <1>5, Typed, TypedNext, RuntimesAssumption, SharedVerdictAssumption DEF Replace
  <1> QED
    BY <1>2, <1>3, <1>4, <1>5

LEMMA TypeStep == TypeOK /\ [Next]_vars => TypeOK'
  <1> SUFFICES ASSUME TypeOK, [Next]_vars PROVE TypeOK'
    OBVIOUS
  <1>1. CASE UNCHANGED vars
    BY <1>1 DEF vars, TypeOK
  <1>2. CASE Next
    BY <1>2, TypeMoves, TypeLease, TypeTroubles DEF Next, Stage2
  <1> QED
    BY <1>1, <1>2

-----------------------------------------------------------------------------
(* The owner that judges                                                   *)

\* A runtime that keeps its state, and whose row keeps its verdict and gives it
\* no new lease, is as undecided as before.
LEMMA StaysUndecided ==
  ASSUME Undecided, NEW p \in Runtime, run'[p] = run[p],
         result'[QueryOf[p]].verdict = result[QueryOf[p]].verdict,
         result'[QueryOf[p]].of = result[QueryOf[p]].of,
         Owns(p)' => Owns(p)
  PROVE  Judges(p)' /\ Owns(p)' => ~Decided(QueryOf[p], run[p].row.sha)'
  BY DEF Undecided, Judges, Decided

\* The record a runtime goes to.
LEMMA GoneTo ==
  ASSUME TypeOK, NEW r \in Runtime, NEW new, Goes(r, new)
  PROVE  /\ run'[r] = new
         /\ \A p \in Runtime \ {r} : run'[p] = run[p]
  BY Typed DEF Goes

\* A runtime that is idle, looks, claims or leaves does not judge.
LEMMA Quiet ==
  ASSUME TypeOK, NEW r \in Runtime,
         \/ Goes(r, Idle) \/ To(r, "claim") \/ To(r, "recheck")
         \/ \E v : GivesBack(r, v)
         \/ \E row : Goes(r, [Idle EXCEPT !.at = "look", !.row = row])
  PROVE  ~Judges(r)'
  <1>1. run[r] \in RunRow /\ Idle \in RunRow /\ run \in [Runtime -> RunRow]
    BY Typed, IdleType
  <1>2. CASE Goes(r, Idle)
    <2>1. run'[r] = Idle
      BY <1>1, <1>2 DEF Goes
    <2>2. Idle.at = "off"
      BY DEF Idle
    <2> QED
      BY <2>1, <2>2 DEF Judges
  <1>3. ASSUME NEW st \in {"claim", "recheck"}, To(r, st) PROVE ~Judges(r)'
    <2>1. run'[r] = [run[r] EXCEPT !.at = st]
      BY <1>1, <1>3 DEF To, Goes
    <2>2. run'[r].at = st
      BY <1>1, <2>1 DEF RunRow
    <2> QED
      BY <2>2 DEF Judges
  <1>4. ASSUME NEW v, GivesBack(r, v) PROVE ~Judges(r)'
    <2>1. run'[r] = [run[r] EXCEPT !.at = "leave", !.verdict = v]
      BY <1>1, <1>4 DEF GivesBack, Goes
    <2>2. run'[r].at = "leave"
      BY <1>1, <2>1 DEF RunRow
    <2> QED
      BY <2>2 DEF Judges
  <1>5. ASSUME NEW row, Goes(r, [Idle EXCEPT !.at = "look", !.row = row]) PROVE ~Judges(r)'
    <2>1. run'[r] = [Idle EXCEPT !.at = "look", !.row = row]
      BY <1>1, <1>5 DEF Goes
    <2>2. run'[r].at = "look"
      BY <1>1, <2>1 DEF RunRow
    <2> QED
      BY <2>2 DEF Judges
  <1> QED
    BY <1>2, <1>3, <1>4, <1>5

\* Steps that leave the verdicts and the leases alone.
LEMMA UndecidedMoves ==
  ASSUME IInv, NEW r \in Runtime,
         Read(r) \/ Look(r) \/ Recheck(r) \/ Evaluate(r) \/ Fails(r)
  PROVE  Undecided'
  <1> SUFFICES ASSUME NEW p \in Runtime
               PROVE  Judges(p)' /\ Owns(p)' => ~Decided(QueryOf[p], run[p].row.sha)'
    BY DEF Undecided
  <1>1. TypeOK /\ Undecided /\ UNCHANGED result /\ run[r] \in RunRow
    BY Typed DEF IInv, Read, Look, Recheck, Evaluate, Fails
  <1>2. Owns(p)' => Owns(p)
    BY <1>1 DEF Owns, Mine
  <1>3. CASE p # r
    <2>1. \E new : Goes(r, new)
      BY DEF Read, Look, Recheck, Evaluate, Fails, To, GivesBack
    <2>2. run'[p] = run[p]
      BY <1>1, <1>3, <2>1, GoneTo
    <2> QED
      BY <1>1, <1>2, <2>2, StaysUndecided
  <1>4. CASE p = r
    <2>1. CASE Read(r) \/ Look(r) \/ Fails(r)
      BY <1>1, <1>4, <2>1, Quiet DEF Read, Look, Fails
    <2>2. CASE Recheck(r)
      <3>1. CASE Cached(r)
        BY <1>1, <1>4, <2>2, <3>1, Quiet DEF Recheck
      <3>2. CASE ~Cached(r)
        <4>1. run'[r] = [run[r] EXCEPT !.at = "evaluate"]
          BY <1>1, <2>2, <3>2, GoneTo DEF Recheck, To
        <4>2. run'[r].row = run[r].row
          BY <4>1, <1>1 DEF RunRow
        <4> QED
          BY <1>1, <1>4, <3>2, <4>2 DEF Cached, Decided
      <3> QED
        BY <3>1, <3>2
    <2>3. CASE Evaluate(r)
      <3>1. PICK v : Goes(r, [run[r] EXCEPT !.at = "save", !.verdict = v])
        BY <2>3 DEF Evaluate
      <3>2. run'[r].row = run[r].row
        <4>1. run'[r] = [run[r] EXCEPT !.at = "save", !.verdict = v]
          BY <3>1, <1>1, Typed DEF Goes
        <4> QED
          BY <4>1, <1>1 DEF RunRow
      <3>3. Judges(r)
        BY <2>3 DEF Evaluate, At, Judges
      <3> QED
        BY <1>1, <1>2, <1>4, <3>2, <3>3 DEF Undecided, Decided
    <2> QED
      BY <2>1, <2>2, <2>3
  <1> QED
    BY <1>3, <1>4

\* Steps that change the row of the runtime's query.
LEMMA UndecidedRow ==
  ASSUME IInv, NEW r \in Runtime, Claim(r) \/ Save(r) \/ Leave(r) \/ Crash(r)
  PROVE  Undecided'
  <1> DEFINE q == QueryOf[r]
  <1> SUFFICES ASSUME NEW p \in Runtime
               PROVE  Judges(p)' /\ Owns(p)' => ~Decided(QueryOf[p], run[p].row.sha)'
    BY DEF Undecided
  <1>1. TypeOK /\ Undecided /\ q \in Query /\ QueryOf[p] \in Query
    BY QueryType DEF IInv
  <1>2. result[q] \in Result /\ result[QueryOf[p]] \in Result /\ run[r] \in RunRow
        /\ result \in [Query -> Result]
    BY <1>1, Typed
  <1>3. CASE p = r
    BY <1>1, <1>3, Quiet DEF Claim, Save, Leave, Crash
  <1>4. CASE p # r
    <2>1. run'[p] = run[p]
      <3>1. \E new : Goes(r, new)
        BY DEF Claim, Save, Leave, Crash, To, GivesBack
      <3> QED
        BY <1>1, <1>4, <3>1, GoneTo
    <2>2. PICK new : /\ result' = result \/ result' = [result EXCEPT ![q] = new]
                     /\ new.owner # p \/ \/ new = result[q]
                                         \/ new.verdict = result[q].verdict /\ new.of = result[q].of
                                            /\ (new.owner = p /\ new.live => result[q].owner = p /\ result[q].live)
      <3>1. CASE Claim(r)
        <4> DEFINE new == [result[q] EXCEPT !.owner = r, !.live = TRUE]
        <4>1. new.owner # p
          BY <1>2, <1>4 DEF Result
        <4>2. result' = result \/ result' = [result EXCEPT ![q] = new]
          BY <3>1, <1>2, <1>1 DEF Claim
        <4> QED
          BY <4>1, <4>2
      <3>2. CASE Save(r)
        <4> DEFINE new == [verdict |-> run[r].verdict, of |-> run[r].row.sha,
                           owner |-> Nobody, live |-> FALSE]
        <4>1. new.owner # p
          BY RuntimesAssumption, SharedVerdictAssumption
        <4>2. result' = result \/ result' = [result EXCEPT ![q] = new]
          BY <3>2 DEF Save
        <4> QED
          BY <4>1, <4>2
      <3>3. CASE Leave(r)
        <4> DEFINE new == Released(result[q], r)
        <4>1. result' = [result EXCEPT ![q] = new]
          BY <3>3, <1>1, <1>2 DEF Leave
        <4>2. new.owner # p \/ new = result[q]
          BY <1>2, RuntimesAssumption, SharedVerdictAssumption DEF Released, Result
        <4> QED
          BY <4>1, <4>2
      <3>4. CASE Crash(r)
        <4> DEFINE new == IF result[q].owner = r THEN [result[q] EXCEPT !.owner = Gone] ELSE result[q]
        <4>1. result' = [result EXCEPT ![q] = new]
          BY <3>4, <1>1, <1>2 DEF Crash
        <4>2. new.owner # p \/ new = result[q]
          BY <1>2, RuntimesAssumption, SharedVerdictAssumption DEF Result
        <4> QED
          BY <4>1, <4>2
      <3> QED
        BY <3>1, <3>2, <3>3, <3>4
    <2>3. CASE result'[QueryOf[p]] = result[QueryOf[p]]
      BY <1>1, <2>1, <2>3, StaysUndecided DEF Owns, Mine
    <2>4. CASE QueryOf[p] = q /\ result'[q] = new
      <3>1. CASE new.owner # p
        BY <2>4, <3>1 DEF Owns, Mine
      <3>2. CASE new = result[q]
        BY <2>3, <2>4, <3>2
      <3>3. CASE /\ new.verdict = result[q].verdict /\ new.of = result[q].of
                 /\ (new.owner = p /\ new.live => result[q].owner = p /\ result[q].live)
        BY <1>1, <2>1, <2>4, <3>3, StaysUndecided DEF Owns, Mine
      <3> QED
        BY <2>2, <3>1, <3>2, <3>3
    <2> QED
      BY <1>1, <1>2, <2>2, <2>3, <2>4
  <1> QED
    BY <1>3, <1>4

LEMMA UndecidedStep == IInv /\ [Next]_vars => Undecided'
  <1> SUFFICES ASSUME IInv, [Next]_vars PROVE Undecided'
    OBVIOUS
  <1>1. CASE UNCHANGED vars
    BY <1>1 DEF vars, IInv, Undecided, Judges, Owns, Mine, Decided
  <1>2. ASSUME NEW r \in Runtime \cup {Gone}, Lapse(r) PROVE Undecided'
    <2> SUFFICES ASSUME NEW p \in Runtime
                 PROVE  Judges(p)' /\ Owns(p)' => ~Decided(QueryOf[p], run[p].row.sha)'
      BY DEF Undecided
    <2>1. TypeOK /\ Undecided /\ QueryOf[p] \in Query /\ result[QueryOf[p]] \in Result
      BY QueryType, Typed DEF IInv
    <2>2. result'[QueryOf[p]] = LapsedRow(result[QueryOf[p]], r) /\ run' = run
      BY <1>2, <2>1 DEF Lapse
    <2> QED
      BY <2>1, <2>2, StaysUndecided DEF LapsedRow, Result, Owns, Mine
  <1>3. CASE Replace
    BY <1>3 DEF Replace, IInv, Undecided, Judges, Owns, Mine, Decided
  <1>4. CASE Next
    BY <1>2, <1>3, <1>4, UndecidedMoves, UndecidedRow DEF Next, Stage2
  <1> QED
    BY <1>1, <1>4

-----------------------------------------------------------------------------
(* The theorems                                                            *)

LEMMA Always == Spec => []IInv
  <1>1. Init => IInv
    <2>1. Init => Undecided
      BY DEF Init, Idle, Undecided, Judges
    <2> QED
      BY <2>1, TypeInit DEF IInv
  <1>2. IInv /\ [Next]_vars => IInv'
    BY TypeStep, UndecidedStep DEF IInv
  <1> QED
    BY <1>1, <1>2, PTL DEF Spec

\* The table and the runtimes keep their types through claims, lapses and losses.
THEOREM TypeCorrect == Spec => []TypeOK
  <1>1. IInv => TypeOK
    BY DEF IInv
  <1> QED
    BY <1>1, Always, PTL

\* No owner of the lease asks the model about bytes that have a verdict, for any
\* number of runtimes and queries: the second look at the cache is enough.
THEOREM NeverPaidAgain == Spec => []NotPaidAgain
  <1>1. IInv => NotPaidAgain
    BY DEF IInv, Undecided, Judges, NotPaidAgain, At
  <1> QED
    BY <1>1, Always, PTL

\* Each query keeps the first verdict it has for the bytes of a document: what
\* comes late, from a lease that lapsed, is not written.
THEOREM VerdictsStand == Spec => VerdictStands
  <1> DEFINE Stands == \A q \in Query :
                         /\ result[q].verdict.status # "PENDING"
                         /\ result'[q].of = result[q].of
                         => result'[q].verdict = result[q].verdict
  <1>1. IInv /\ [Next]_vars => Stands \/ UNCHANGED vars
    <2> SUFFICES ASSUME IInv, Next, NEW q \in Query, result[q].verdict.status # "PENDING",
                        result'[q].of = result[q].of
                 PROVE  result'[q].verdict = result[q].verdict
      BY DEF vars
    <2>1. result[q] \in Result /\ result \in [Query -> Result]
      BY Typed DEF IInv
    <2>2. CASE result' = result
      BY <2>2
    <2>3. ASSUME NEW r \in Runtime, Claim(r) \/ Leave(r) \/ Crash(r)
          PROVE  result'[q].verdict = result[q].verdict
      <3>1. CASE Claim(r)
        BY <2>1, <3>1 DEF Claim, Result
      <3>2. CASE Leave(r)
        BY <2>1, <3>2 DEF Leave, Released, Result
      <3>3. CASE Crash(r)
        BY <2>1, <3>3 DEF Crash, Result
      <3> QED
        BY <2>3, <3>1, <3>2, <3>3
    <2>4. ASSUME NEW r \in Runtime \cup {Gone}, Lapse(r)
          PROVE  result'[q].verdict = result[q].verdict
      BY <2>1, <2>4 DEF Lapse, LapsedRow, Result
    <2>5. ASSUME NEW r \in Runtime, Save(r)
          PROVE  result'[q].verdict = result[q].verdict
      <3>1. CASE QueryOf[r] # q \/ ~Saves(r)
        BY <2>1, <2>5, <3>1 DEF Save
      <3>2. CASE QueryOf[r] = q /\ Saves(r)
        <4>1. result'[q].of = run[r].row.sha
          BY <2>1, <2>5, <3>2 DEF Save
        <4>2. ~Decided(q, run[r].row.sha)
          BY <2>5, <3>2 DEF IInv, Undecided, Judges, Saves, Save, At
        <4> QED
          BY <4>1, <4>2 DEF Decided
      <3> QED
        BY <3>1, <3>2
    <2>6. CASE \E r \in Runtime : Read(r) \/ Look(r) \/ Recheck(r) \/ Evaluate(r) \/ Fails(r)
      BY <2>2, <2>6 DEF Read, Look, Recheck, Evaluate, Fails
    <2>7. CASE Replace
      BY <2>2, <2>7 DEF Replace
    <2> QED
      BY <2>3, <2>4, <2>5, <2>6, <2>7 DEF Next, Stage2
  <1>2. IInv /\ [Next]_vars => [Stands]_vars
    BY <1>1
  <1> QED
    BY <1>2, Always, PTL DEF Spec, VerdictStands
=============================================================================
