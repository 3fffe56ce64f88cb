--------------------------- MODULE TransferProofs ---------------------------
(***************************************************************************)
(* Proofs about Transfer for every length of the document, checkpoint      *)
(* size, minimal size, and every number of attempts, handoffs, deferrals   *)
(* and troubles.                                                           *)
(***************************************************************************)
EXTENDS Transfer, TLAPS

USE TransferAssumption

-----------------------------------------------------------------------------
(* Files and records                                                       *)

Files == part \in Seq(Units) /\ pdf \in Seq(Units)
Records == entry \in Entry /\ job \in Job
Bookkeeping == /\ check \in {"none", "due", "moved"} /\ run \in Runs /\ seen \in BOOLEAN
               /\ defers \in 0..MaxDeferrals /\ troubles \in 0..MaxTroubles
               /\ spent \in [attempts : Nat, handoffs : Nat, rejected : Nat]

LEMMA Types == TypeOK <=> Files /\ Records /\ Bookkeeping
  BY DEF TypeOK, Files, Records, Bookkeeping

LEMMA SizeType == ASSUME Files PROVE Size \in Nat /\ Len(part) \in Nat /\ Len(pdf) \in Nat
  BY DEF Files, Size

Steps == {"none", "persist", "offer", "queued"} \cup Turn
Statuses == {"NONE"} \cup Restorable \cup Final

LEMMA Names ==
  /\ \A st \in {"none", "persist", "offer", "queued", "begin", "resolve", "enter", "open",
                "ask", "stream", "ended", "lost", "promoted", "recorded", "failed",
                "deferred", "return"} : st \in Steps
  /\ \A s \in {"NONE", "WAITING", "RETRY", "DOWNLOADING", "INTEGRITY_PENDING", "COMPLETED",
               "PERMANENTLY_FAILED"} : s \in Statuses
  BY DEF Steps, Statuses, Turn, Restorable, Final

\* A new turn is a turn.
LEMMA NewJobType ==
  ASSUME NEW a \in 1..MaxAttempts, NEW h \in 0..MaxHandoffs
  PROVE  NewJob(a, h) \in Job /\ NoJob \in Job
<1>1. \A b \in 1..MaxAttempts, g \in 0..MaxHandoffs : NewJob(b, g) \in Job
  <2> SUFFICES ASSUME NEW b \in 1..MaxAttempts, NEW g \in 0..MaxHandoffs,
                      NEW f \in BOOLEAN, f = FALSE, NEW st \in Steps, st = "persist"
               PROVE  NewJob(b, g) \in Job
    BY Names, Zenon
  <2>1. 1 \in 1..(Full + 1) /\ 0 \in Nat
    OBVIOUS
  <2>2. [step |-> st, attempt |-> b, handoffs |-> g, next |-> 1, sized |-> f,
         kept |-> 0, missed |-> f] \in Job
    BY <2>1 DEF Job, Steps
  <2> QED BY <2>2, Zenon DEF NewJob
<1>2. 1 \in 1..MaxAttempts /\ 0 \in 0..MaxHandoffs
  OBVIOUS
<1>3. "none" \in Steps
  BY Names, Zenon
<1>4. \A j \in Job : [j EXCEPT !.step = "none"] \in Job
  BY <1>3 DEF Job, Steps
<1> QED BY <1>1, <1>2, <1>4, Zenon DEF NoJob

\* So is what a ledger transaction makes of an entry.
LEMMA EntryType ==
  ASSUME NEW e \in Entry, NEW s \in Statuses, NEW n \in Nat, NEW b \in BOOLEAN,
         NEW i \in {"PENDING", "VALID", "PDF_INVALID"},
         NEW a \in 1..MaxAttempts, NEW h \in 0..MaxHandoffs
  PROVE  /\ [e EXCEPT !.status = s] \in Entry
         /\ [e EXCEPT !.status = s, !.size = n] \in Entry
         /\ [e EXCEPT !.status = s, !.size = n, !.integrity = i] \in Entry
         /\ [e EXCEPT !.status = s, !.integrity = i, !.size = n] \in Entry
         /\ [e EXCEPT !.size = n] \in Entry
         /\ [e EXCEPT !.cand = b] \in Entry
         /\ [e EXCEPT !.cand = b, !.attempt = a, !.handoffs = h] \in Entry
  BY DEF Entry, Statuses

LEMMA EntryMoves ==
  ASSUME Files, job \in Job, NEW e \in Entry
  PROVE  /\ Known(e) \in Entry /\ Waits(e) \in Entry /\ Retries(e) \in Entry
         /\ Pending(e) \in Entry /\ Abandoned(e) \in Entry
         /\ \A n \in Nat : Downloads(e, n) \in Entry
         /\ \A a \in 1..MaxAttempts, h \in 0..MaxHandoffs :
              [e EXCEPT !.cand = TRUE, !.attempt = a, !.handoffs = h] \in Entry
<1>1. /\ job.attempt \in 1..MaxAttempts /\ job.handoffs \in 0..MaxHandoffs
      /\ TRUE \in BOOLEAN /\ "PENDING" \in {"PENDING", "VALID", "PDF_INVALID"}
  BY DEF Job
<1>2. Size \in Nat
  BY SizeType
<1>3. \A a \in 1..MaxAttempts, h \in 0..MaxHandoffs :
        [e EXCEPT !.cand = TRUE, !.attempt = a, !.handoffs = h] \in Entry
  BY <1>1, EntryType, Names, Zenon
<1>4. \A s \in Statuses, n \in Nat : /\ [e EXCEPT !.status = s] \in Entry
                                   /\ [e EXCEPT !.status = s, !.size = n] \in Entry
                                   /\ [e EXCEPT !.size = n] \in Entry
  BY <1>1, EntryType, Zenon
<1>5. \A s \in Statuses, n \in Nat :
        /\ [e EXCEPT !.status = s, !.size = n, !.integrity = "PENDING"] \in Entry
  BY <1>1, EntryType, Zenon
<1>6. Known(e) \in Entry
  BY <1>1, <1>3, Zenon DEF Known
<1>7. Waits(e) \in Entry /\ Retries(e) \in Entry /\ Abandoned(e) \in Entry
  BY <1>2, <1>4, Names, Zenon DEF Waits, Retries, Abandoned
<1>8. Pending(e) \in Entry
  BY <1>2, <1>4, <1>5, Names, Zenon DEF Pending
<1>9. \A n \in Nat : Downloads(e, n) \in Entry
  BY <1>5, Names, Zenon DEF Downloads
<1> QED BY <1>3, <1>6, <1>7, <1>8, <1>9

LEMMA FieldTypes ==
  ASSUME Records
  PROVE  /\ job.attempt \in 1..MaxAttempts /\ job.handoffs \in 0..MaxHandoffs
         /\ job.next \in 1..(Full + 1) /\ job.kept \in Nat
         /\ job.sized \in BOOLEAN /\ job.missed \in BOOLEAN /\ job.step \in Steps
         /\ entry.attempt \in 1..MaxAttempts /\ entry.handoffs \in 0..MaxHandoffs
         /\ entry.size \in Nat /\ entry.cand \in BOOLEAN /\ entry.status \in Statuses
         /\ entry.integrity \in {"PENDING", "VALID", "PDF_INVALID"}
  BY DEF Records, Job, Entry, Steps, Statuses

-----------------------------------------------------------------------------
(* The type invariant, the order of the bytes, and the finished file       *)

\* A transfer goes on where the partial ends.
Positions == job.step \in {"ask", "stream"} => job.next = Len(part) + 1
FileInv == BytesInOrder /\ Positions /\ NotFetchedAgain

LEMMA LeadingFits == ASSUME NEW f \in Seq(Units), Leading(f) PROVE Len(f) <= Full
<1>1. CASE Len(f) = 0
  BY <1>1
<1>2. CASE Len(f) # 0
  <2>1. Len(f) \in DOMAIN f
    BY <1>2
  <2>2. f[Len(f)] = Len(f) /\ f[Len(f)] \in Units
    BY <2>1 DEF Leading
  <2> QED BY <2>2 DEF Units
<1> QED BY <1>1, <1>2

LEMMA OneMore ==
  ASSUME NEW f \in Seq(Units), Leading(f), NEW n \in Units, n = Len(f) + 1
  PROVE  /\ Append(f, n) \in Seq(Units) /\ Leading(Append(f, n))
         /\ Len(Append(f, n)) = Len(f) + 1
  BY DEF Leading

LEMMA WholeType == Whole \in Seq(Units) /\ Leading(Whole) /\ Whole # << >>
<1>1. Whole \in [1..Full -> Units] /\ Full \in Nat
  BY DEF Whole, Units
<1>2. Whole \in Seq(Units)
  BY <1>1
<1>3. Leading(Whole)
  BY DEF Whole, Leading
<1>4. Whole # << >>
  <2>1. DOMAIN Whole = 1..Full
    BY DEF Whole, Units
  <2> QED BY <2>1
<1> QED BY <1>2, <1>3, <1>4

LEMMA NothingType == << >> \in Seq(Units) /\ Leading(<< >>) /\ Len(<< >>) = 0
  BY DEF Leading

\* What a call of DownloadProgress does to the turn and to the record.
LEMMA ProgressMade ==
  ASSUME NEW turn \in Job, NEW n \in Nat, Progress(turn, n)
  PROVE  /\ job' \in Job /\ job'.step = turn.step /\ job'.next = turn.next
         /\ job'.attempt = turn.attempt
         /\ UNCHANGED <<entry, troubles>> \/ Saves(Downloads(Known(entry), n))
         /\ \/ /\ n - turn.kept < Gate /\ UNCHANGED entry
               /\ job'.kept = turn.kept /\ job'.missed = turn.missed
            \/ entry' = Downloads(Known(entry), n) /\ job'.kept = n
            \/ UNCHANGED entry /\ job'.missed = TRUE
<1> DEFINE marked == [turn EXCEPT !.kept = n]
           missed == [turn EXCEPT !.missed = TRUE]
<1>1. /\ marked \in Job /\ marked.step = turn.step /\ marked.next = turn.next
      /\ marked.attempt = turn.attempt /\ marked.kept = n
  BY DEF Job
<1>2. /\ missed \in Job /\ missed.step = turn.step /\ missed.next = turn.next
      /\ missed.attempt = turn.attempt /\ missed.missed = TRUE
  <2>1. \A b \in BOOLEAN : [turn EXCEPT !.missed = b] \in Job
    BY DEF Job
  <2>2. missed \in Job
    BY <2>1, Zenon
  <2>3. missed.missed = TRUE
    BY DEF Job
  <2> QED BY <2>2, <2>3 DEF Job
<1>3. \/ n - turn.kept < Gate /\ job' = turn /\ UNCHANGED <<entry, troubles>>
      \/ entry' = Downloads(Known(entry), n) /\ UNCHANGED troubles /\ job' = marked
      \/ Trouble /\ UNCHANGED entry /\ job' = missed
  <2>1. ~Due(turn, n) => n - turn.kept < Gate
    BY DEF Due, Job
  <2> QED BY <2>1 DEF Progress
<1> HIDE DEF marked, missed
<1> QED BY <1>1, <1>2, <1>3, Zenon DEF Saves

LEMMA StreamingType ==
  ASSUME job \in Job, NEW n \in 1..(Full + 1), NEW b \in BOOLEAN, NEW k \in Nat
  PROVE  /\ Streaming(n, b, k) \in Job
         /\ Streaming(n, b, k).step = "stream" /\ Streaming(n, b, k).next = n
         /\ Streaming(n, b, k).kept = k
         /\ Streaming(n, b, k).attempt = job.attempt
         /\ Streaming(n, b, k).missed = job.missed
<1>1. \A st \in Steps : [job EXCEPT !.step = st, !.next = n, !.sized = b, !.kept = k] \in Job
  BY DEF Job, Steps
<1>2. Streaming(n, b, k) \in Job
  BY <1>1, Names, Zenon DEF Streaming
<1> QED BY <1>2 DEF Streaming, Job

\* A reply, and every chunk after it, is followed by such a call.
LEMMA StreamGoesOn ==
  ASSUME TypeOK, FileInv, Restarts \/ Resumes \/ Chunk
  PROVE  /\ job.step \in {"ask", "stream"} /\ job'.step = "stream"
         /\ job' \in Job /\ job'.attempt = job.attempt
         /\ part' \in Seq(Units) /\ job'.next = Len(part') + 1
         /\ UNCHANGED <<pdf, check, run, seen, defers, spent>>
         /\ \/ UNCHANGED <<entry, troubles>>
            \/ Saves(Downloads(Known(entry), Len(part')))
         /\ \/ Restarts /\ part' = << >>
            \/ Resumes /\ UNCHANGED part
            \/ Chunk /\ part' = Append(part, job.next) /\ job.next \in Units
         /\ \E k \in {job.kept, 0} :
              /\ k = 0 \/ UNCHANGED part \/ Len(part') = Len(part) + 1
              /\ Restarts => k = 0
              /\ \/ /\ Len(part') - k < Gate /\ UNCHANGED entry
                    /\ job'.kept = k /\ job'.missed = job.missed
                 \/ entry' = Downloads(Known(entry), Len(part')) /\ job'.kept = Len(part')
                 \/ UNCHANGED entry /\ job'.missed = TRUE
<1>1. /\ part \in Seq(Units) /\ Len(part) \in Nat /\ job \in Job
      /\ job.next \in 1..(Full + 1) /\ job.kept \in Nat /\ Positions
      /\ 1 \in 1..(Full + 1) /\ 0 \in Nat /\ << >> \in Seq(Units) /\ Len(<< >>) = 0
  BY Types, SizeType, FieldTypes, NothingType DEF Files, Records, FileInv
<1>2. CASE Restarts
  <2>1. PICK b \in BOOLEAN : Progress(Streaming(1, b, 0), 0)
    BY <1>2 DEF Restarts
  <2>2. /\ part' = << >> /\ job.step = "ask"
        /\ UNCHANGED <<pdf, check, run, seen, defers, spent>>
    BY <1>2 DEF Restarts, At
  <2> DEFINE turn == Streaming(1, b, 0)
  <2>3. /\ turn \in Job /\ turn.step = "stream" /\ turn.next = 1 /\ turn.kept = 0
        /\ turn.attempt = job.attempt /\ turn.missed = job.missed
    BY <1>1, StreamingType
  <2> HIDE DEF turn
  <2>4. /\ job' \in Job /\ job'.step = "stream" /\ job'.next = 1 /\ job'.attempt = job.attempt
        /\ UNCHANGED <<entry, troubles>> \/ Saves(Downloads(Known(entry), 0))
        /\ \/ /\ 0 - 0 < Gate /\ UNCHANGED entry
              /\ job'.kept = 0 /\ job'.missed = job.missed
           \/ entry' = Downloads(Known(entry), 0) /\ job'.kept = 0
           \/ UNCHANGED entry /\ job'.missed = TRUE
    BY <1>1, <2>1, <2>3, ProgressMade DEF turn
  <2>5. Len(part') = 0 /\ part' \in Seq(Units) /\ 0 + 1 = 1
    BY <1>1, <2>2
  <2> QED BY <1>2, <2>2, <2>4, <2>5
<1>3. CASE Resumes
  <2>1. PICK b \in BOOLEAN : Progress(Streaming(job.next, b, job.kept), Len(part))
    BY <1>3 DEF Resumes
  <2>2. /\ part' = part /\ job.step = "ask" /\ job.next = Len(part) + 1
        /\ UNCHANGED <<pdf, check, run, seen, defers, spent>>
    BY <1>1, <1>3 DEF Resumes, At, Positions
  <2> DEFINE turn == Streaming(job.next, b, job.kept)
  <2>3. /\ turn \in Job /\ turn.step = "stream" /\ turn.next = job.next
        /\ turn.kept = job.kept /\ turn.attempt = job.attempt /\ turn.missed = job.missed
    BY <1>1, StreamingType
  <2>4. Progress(turn, Len(part))
    BY <2>1
  <2> HIDE DEF turn
  <2>5. /\ job' \in Job /\ job'.step = "stream" /\ job'.next = job.next
        /\ job'.attempt = job.attempt
        /\ UNCHANGED <<entry, troubles>> \/ Saves(Downloads(Known(entry), Len(part)))
        /\ \/ /\ Len(part) - job.kept < Gate /\ UNCHANGED entry
              /\ job'.kept = job.kept /\ job'.missed = job.missed
           \/ entry' = Downloads(Known(entry), Len(part)) /\ job'.kept = Len(part)
           \/ UNCHANGED entry /\ job'.missed = TRUE
    BY <1>1, <2>3, <2>4, ProgressMade
  <2>6. ~Restarts
    BY <1>1, <1>3, <2>2 DEF Resumes, Restarts
  <2> QED BY <1>1, <1>3, <2>2, <2>5, <2>6
<1>4. CASE Chunk
  <2> DEFINE on == [job EXCEPT !.next = @ + 1]
  <2>1. /\ part' = Append(part, job.next) /\ job.step = "stream" /\ job.next \in Units
        /\ job.next = Len(part) + 1 /\ Progress(on, Len(part) + 1)
        /\ UNCHANGED <<pdf, check, run, seen, defers, spent>>
    BY <1>1, <1>4 DEF Chunk, At, Positions, Units
  <2>2. part' \in Seq(Units) /\ Len(part') = Len(part) + 1 /\ Len(part) + 1 \in Nat
    BY <1>1, <2>1
  <2>3. job.next + 1 \in 1..(Full + 1)
    BY <2>1 DEF Units
  <2>4. /\ on \in Job /\ on.step = "stream" /\ on.next = Len(part') + 1
        /\ on.kept = job.kept /\ on.missed = job.missed /\ on.attempt = job.attempt
    BY <1>1, <2>1, <2>2, <2>3 DEF Job
  <2> HIDE DEF on
  <2>5. /\ job' \in Job /\ job'.step = "stream" /\ job'.next = Len(part') + 1
        /\ job'.attempt = job.attempt
        /\ UNCHANGED <<entry, troubles>> \/ Saves(Downloads(Known(entry), Len(part')))
        /\ \/ /\ Len(part') - job.kept < Gate /\ UNCHANGED entry
              /\ job'.kept = job.kept /\ job'.missed = job.missed
           \/ entry' = Downloads(Known(entry), Len(part')) /\ job'.kept = Len(part')
           \/ UNCHANGED entry /\ job'.missed = TRUE
    BY <2>1, <2>2, <2>4, ProgressMade
  <2>6. ~Restarts
    BY <2>1 DEF Restarts, At
  <2> QED BY <1>4, <2>1, <2>2, <2>5, <2>6
<1> QED BY <1>2, <1>3, <1>4

LEMMA FileInit == Init => TypeOK /\ FileInv
<1> SUFFICES ASSUME Init PROVE TypeOK /\ FileInv
  OBVIOUS
<1>1. Files /\ BytesInOrder
  BY WholeType, NothingType DEF Init, Files, BytesInOrder
<1>2. job \in Job /\ job.step = "none"
  <2>1. 1 \in 1..MaxAttempts /\ 0 \in 0..MaxHandoffs
    OBVIOUS
  <2>2. NoJob \in Job
    BY <2>1, NewJobType
  <2> QED BY <2>2 DEF Init, NoJob, NewJob
<1>3. entry \in Entry
  <2>1. \A b \in BOOLEAN : [status |-> "NONE", attempt |-> 1, handoffs |-> 0, size |-> 0,
                            cand |-> b, integrity |-> "PENDING"] \in Entry
    BY DEF Entry
  <2> QED BY <2>1, Zenon DEF Init, NoEntry
<1>4. Bookkeeping
  <2>1. \A n \in Nat : [attempts |-> n, handoffs |-> n, rejected |-> n]
                       \in [attempts : Nat, handoffs : Nat, rejected : Nat]
    OBVIOUS
  <2>2. spent \in [attempts : Nat, handoffs : Nat, rejected : Nat]
    BY <2>1, Zenon DEF Init
  <2>3. 0 \in 0..MaxDeferrals /\ 0 \in 0..MaxTroubles
    OBVIOUS
  <2> QED BY <2>2, <2>3, Zenon DEF Init, Bookkeeping, Runs
<1> QED BY <1>1, <1>2, <1>3, <1>4, Types DEF Records, FileInv, Positions, NotFetchedAgain

\* The types of a step, one action at a time.
LEMMA TypeStep == TypeOK /\ FileInv /\ [Next]_vars => TypeOK'
<1> SUFFICES ASSUME TypeOK, FileInv, [Next]_vars PROVE TypeOK'
  OBVIOUS
<1> USE Names
<1>1. Files /\ Records /\ Bookkeeping
  BY Types
<1>2. /\ part \in Seq(Units) /\ pdf \in Seq(Units) /\ entry \in Entry /\ job \in Job
      /\ Size \in Nat /\ Len(part) \in Nat /\ Len(pdf) \in Nat
  BY <1>1, SizeType DEF Files, Records
<1>3. ASSUME Files', Records', Bookkeeping' PROVE TypeOK'
  BY <1>3 DEF TypeOK, Files, Records, Bookkeeping
<1>4. \A st \in Steps : Goes(st) => job' \in Job
  <2>1. \A st \in Steps : [job EXCEPT !.step = st] \in Job
    BY <1>2 DEF Job, Steps
  <2> QED BY <2>1, Zenon DEF Goes
<1>5. Trouble => troubles' \in 0..MaxTroubles
  BY <1>1 DEF Trouble, Bookkeeping
<1>6. \A e \in Entry : Saves(e) => entry' \in Entry /\ troubles' \in 0..MaxTroubles
  BY <1>1, <1>2, <1>5 DEF Saves, Bookkeeping
<1>7. ASSUME UNCHANGED <<part, pdf>> PROVE Files'
  BY <1>7, <1>1 DEF Files
<1>8. ASSUME check' \in {"none", "due", "moved"}, run' \in Runs, seen' \in BOOLEAN,
             defers' \in 0..MaxDeferrals, troubles' \in 0..MaxTroubles,
             spent' \in [attempts : Nat, handoffs : Nat, rejected : Nat]
      PROVE  Bookkeeping'
  BY <1>8 DEF Bookkeeping
<1>9. NoJob \in Job /\ \A a \in 1..MaxAttempts, h \in 0..MaxHandoffs : NewJob(a, h) \in Job
  <2>1. 1 \in 1..MaxAttempts /\ 0 \in 0..MaxHandoffs
    OBVIOUS
  <2> QED BY <2>1, NewJobType
<1>10. /\ check \in {"none", "due", "moved"} /\ run \in Runs /\ seen \in BOOLEAN
       /\ defers \in 0..MaxDeferrals /\ troubles \in 0..MaxTroubles
       /\ spent \in [attempts : Nat, handoffs : Nat, rejected : Nat]
  BY <1>1 DEF Bookkeeping
<1>11. /\ Known(entry) \in Entry /\ Waits(Known(entry)) \in Entry /\ Retries(entry) \in Entry
       /\ Pending(entry) \in Entry /\ Pending(Known(entry)) \in Entry
       /\ Abandoned(entry) \in Entry /\ Abandoned(Known(entry)) \in Entry
       /\ \A n \in Nat : Downloads(entry, n) \in Entry /\ Downloads(Known(entry), n) \in Entry
  <2>1. Known(entry) \in Entry
    BY <1>1, <1>2, EntryMoves
  <2> QED BY <1>1, <1>2, <2>1, EntryMoves
<1> DEFINE Quiet == UNCHANGED <<check, run, seen, defers, spent>>
<1>12. ASSUME NEW e \in Entry, Saves(e), job' \in Job, UNCHANGED <<part, pdf>>, Quiet
       PROVE  TypeOK'
  BY <1>3, <1>6, <1>7, <1>8, <1>10, <1>12 DEF Records
<1>13. ASSUME UNCHANGED <<entry, troubles>>, job' \in Job, UNCHANGED <<part, pdf>>, Quiet
       PROVE  TypeOK'
  BY <1>2, <1>3, <1>7, <1>8, <1>10, <1>13 DEF Records
<1>14. ASSUME UNCHANGED entry, job' \in Job, troubles' \in 0..MaxTroubles, Files',
              check' \in {"none", "due", "moved"}, run' \in Runs, seen' \in BOOLEAN,
              defers' \in 0..MaxDeferrals, UNCHANGED spent
       PROVE  TypeOK'
  BY <1>2, <1>3, <1>8, <1>10, <1>14 DEF Records
<1>15. /\ job.next \in 1..(Full + 1) /\ job.attempt \in 1..MaxAttempts
       /\ job.handoffs \in 0..MaxHandoffs
       /\ entry.attempt \in 1..MaxAttempts /\ entry.handoffs \in 0..MaxHandoffs
  BY <1>1, FieldTypes
<1>16. << >> \in Seq(Units)
  OBVIOUS
<1> HIDE DEF Quiet
\* The driver and the dispatcher.
<1>21. CASE Discover
  <2>1. job' \in Job
    <3>1. 1 \in 1..MaxAttempts /\ 0 \in 0..MaxHandoffs
      OBVIOUS
    <3> QED BY <1>21, <1>9, <3>1 DEF Discover
  <2> QED BY <1>21, <2>1, <1>7, <1>10, <1>14 DEF Discover
<1>22. CASE Rediscover
  <2>1. [Pending(entry) EXCEPT !.cand = TRUE] \in Entry
    BY <1>11 DEF Entry
  <2> QED BY <1>22, <2>1, <1>2, <1>3, <1>6, <1>7, <1>8, <1>10 DEF Rediscover, Records
<1>23. CASE Persist
  BY <1>23, <1>4, <1>11, <1>12 DEF Persist, Quiet
<1>24. CASE Offer \/ Dispatch \/ Resolve
  BY <1>24, <1>4, <1>13 DEF Offer, Dispatch, Resolve, Quiet
\* One turn.
<1>25. CASE Begin
  BY <1>25, <1>2, <1>4, <1>11, <1>12 DEF Begin, Quiet
<1>26. CASE Defer
  BY <1>26, <1>4, <1>7, <1>10, <1>14 DEF Defer
<1>27. CASE Enter
  BY <1>27, <1>2, <1>4, <1>11, <1>12 DEF Enter, Quiet
<1>28. CASE Open
  <2>1. CASE Stopped
    BY <1>28, <2>1, <1>4, <1>13 DEF Open, Quiet
  <2>2. CASE ~Stopped
    <3>1. Len(part) + 1 \in 1..(Full + 1)
      BY <1>2, LeadingFits DEF FileInv, BytesInOrder
    <3>2. \A b \in BOOLEAN : [job EXCEPT !.step = "ask", !.next = Len(part) + 1,
                                       !.kept = Len(part), !.missed = b] \in Job
      BY <1>2, <3>1 DEF Job, Turn
    <3>3. job' \in Job
      BY <1>28, <2>2, <3>2 DEF Open
    <3> QED BY <1>28, <2>2, <3>3, <1>2, <1>11, <1>12 DEF Open, Saves, Quiet
  <2> QED BY <2>1, <2>2
<1>29. CASE Refused \/ Break \/ EndOfStream \/ Requeue
  BY <1>29, <1>4, <1>9, <1>13 DEF Refused, Break, EndOfStream, Requeue, Quiet
<1>30. CASE Unsatisfiable
  BY <1>30, <1>2, <1>4, <1>10, <1>14, <1>16 DEF Unsatisfiable, Files
<1>31. CASE Restarts \/ Resumes \/ Chunk
  <2>1. /\ job' \in Job /\ part' \in Seq(Units) /\ UNCHANGED <<pdf, check, run, seen, defers, spent>>
        /\ UNCHANGED <<entry, troubles>> \/ Saves(Downloads(Known(entry), Len(part')))
    BY <1>31, StreamGoesOn
  <2>2. Len(part') \in Nat
    BY <2>1
  <2>3. UNCHANGED entry \/ entry' = Downloads(Known(entry), Len(part'))
    BY <2>1 DEF Saves
  <2>4. entry' \in Entry /\ troubles' \in 0..MaxTroubles
    BY <2>1, <2>2, <2>3, <1>2, <1>6, <1>10, <1>11
  <2> QED BY <2>1, <2>4, <1>2, <1>3, <1>10 DEF Records, Files, Bookkeeping
<1>34. CASE Promote
  <2>1. Files' /\ job' \in Job
    BY <1>34, <1>2, <1>4, <1>16 DEF Promote, Files
  <2> QED BY <1>34, <2>1, <1>10, <1>14 DEF Promote
<1>35. CASE RecordPromoted \/ RecordLost \/ Deferred
  BY <1>35, <1>4, <1>11, <1>12 DEF RecordPromoted, RecordLost, Deferred, Quiet
<1>36. CASE Succeed
  BY <1>36, <1>2, <1>3, <1>6, <1>7, <1>8, <1>9, <1>10, <1>11 DEF Succeed, Records
<1>37. CASE Fail
  <2>1. \A n \in Nat : Counted(n) \in Nat
    BY DEF Counted
  <2>2. spent' \in [attempts : Nat, handoffs : Nat, rejected : Nat]
    BY <1>37, <1>10, <2>1 DEF Fail
  <2>3. \A a \in 1..MaxAttempts, h \in 0..MaxHandoffs :
          Moves(a, h) => entry' \in Entry /\ job' \in Job /\ troubles' \in 0..MaxTroubles
    <3> SUFFICES ASSUME NEW a \in 1..MaxAttempts, NEW h \in 0..MaxHandoffs, Moves(a, h)
                 PROVE  entry' \in Entry /\ job' \in Job /\ troubles' \in 0..MaxTroubles
      OBVIOUS
    <3>1. [entry EXCEPT !.cand = TRUE, !.attempt = a, !.handoffs = h] \in Entry
      BY <1>1, <1>2, EntryMoves
    <3>2. Waits([entry EXCEPT !.cand = TRUE, !.attempt = a, !.handoffs = h]) \in Entry
      BY <1>1, <1>2, <3>1, EntryMoves
    <3>3. [job EXCEPT !.step = "return", !.attempt = a, !.handoffs = h] \in Job
      BY <1>2 DEF Job, Turn
    <3> QED BY <3>2, <3>3, <1>6 DEF Moves
  <2>4. entry' \in Entry /\ job' \in Job /\ troubles' \in 0..MaxTroubles
    <3>1. CASE Handoff
      <4>1. job.attempt \in 1..MaxAttempts /\ job.handoffs + 1 \in 0..MaxHandoffs
        BY <3>1, <1>15 DEF Handoff
      <4> QED BY <1>37, <3>1, <4>1, <2>3 DEF Fail
    <3>2. CASE ~Handoff /\ job.attempt >= MaxAttempts
      BY <1>37, <3>2, <1>6, <1>9, <1>11 DEF Fail
    <3>3. CASE ~Handoff /\ ~(job.attempt >= MaxAttempts)
      <4>1. job.attempt + 1 \in 1..MaxAttempts /\ 0 \in 0..MaxHandoffs
        BY <3>3, <1>15
      <4> QED BY <1>37, <3>3, <4>1, <2>3 DEF Fail
    <3> QED BY <3>1, <3>2, <3>3
  <2>5. Files' /\ Bookkeeping'
    BY <1>37, <2>2, <2>4, <1>7, <1>8, <1>10 DEF Fail
  <2> QED BY <2>4, <2>5, <1>3 DEF Records
\* The pool.
<1>38. CASE Certify
  <2>1. \A n \in Nat : [entry EXCEPT !.status = "COMPLETED", !.integrity = "VALID", !.size = n] \in Entry
    BY <1>2 DEF Entry, Final
  <2> QED BY <1>38, <2>1, <1>2, <1>3, <1>6, <1>7, <1>8, <1>10 DEF Certify, Records
<1>39. CASE Discard
  <2>1. Files'
    BY <1>39, <1>2, <1>16 DEF Discard, Files
  <2> QED BY <1>39, <2>1, <1>2, <1>10, <1>14 DEF Discard
<1>40. CASE Reject
  <2>1. \A n \in Nat : [entry EXCEPT !.status = "RETRY", !.size = n, !.integrity = "PDF_INVALID"] \in Entry
    BY <1>2 DEF Entry, Restorable
  <2>2. spent' \in [attempts : Nat, handoffs : Nat, rejected : Nat]
    BY <1>40, <1>10 DEF Reject
  <2> QED BY <1>40, <2>1, <2>2, <1>2, <1>3, <1>6, <1>7, <1>8, <1>10 DEF Reject, Records
\* Runs.
<1>41. CASE Start
  BY <1>41, <1>2, <1>7, <1>10, <1>14 DEF Start, Runs
<1>42. CASE Count \/ End
  <2>1. entry' \in Entry /\ troubles' \in 0..MaxTroubles
    BY <1>42, <1>2, <1>6, <1>10, <1>11 DEF Count, End, Reconcile
  <2>2. Files' /\ Bookkeeping'
    BY <1>42, <2>1, <1>7, <1>8, <1>10 DEF Count, End, Runs
  <2> QED BY <1>42, <2>1, <2>2, <1>2, <1>3 DEF Count, End, Records
<1>43. CASE Recover
  <2>1. \A a \in 1..MaxAttempts : Restores(a) => job' \in Job /\ seen' \in BOOLEAN
    BY <1>9, <1>15 DEF Restores
  <2>2. RestoresNone => job' \in Job /\ seen' \in BOOLEAN
    BY <1>2, <1>10 DEF RestoresNone
  <2>3. /\ [entry EXCEPT !.status = "INTEGRITY_PENDING", !.size = Size,
                         !.integrity = "PENDING"] \in Entry
        /\ [entry EXCEPT !.status = "WAITING"] \in Entry
    BY <1>2 DEF Entry, Restorable
  <2>4. ~Exhausted => entry.attempt + 1 \in 1..MaxAttempts
    BY <1>15 DEF Exhausted
  <2>5. /\ entry' \in Entry /\ troubles' \in 0..MaxTroubles
        /\ job' \in Job /\ seen' \in BOOLEAN
    BY <1>43, <2>1, <2>2, <2>3, <2>4, <1>2, <1>5, <1>6, <1>10, <1>11, <1>15 DEF Recover
  <2>6. Files' /\ Bookkeeping'
    BY <1>43, <2>5, <1>7, <1>8, <1>10 DEF Recover, Runs
  <2> QED BY <2>5, <2>6, <1>3 DEF Records
<1>44. CASE Stop
  BY <1>44, <1>2, <1>5, <1>7, <1>9, <1>10, <1>14 DEF Stop, Runs
<1>45. CASE Close
  BY <1>45, <1>2, <1>7, <1>9, <1>10, <1>14 DEF Close, Runs
<1>46. CASE Crash
  BY <1>46, <1>2, <1>5, <1>7, <1>9, <1>10, <1>14 DEF Crash, Runs
<1>47. CASE UNCHANGED vars
  BY <1>47, <1>2, <1>13 DEF vars, Quiet
<1> QED
  BY <1>21, <1>22, <1>23, <1>24, <1>25, <1>26, <1>27, <1>28, <1>29, <1>30, <1>31, <1>34,
     <1>35, <1>36, <1>37, <1>38, <1>39, <1>40, <1>41, <1>42, <1>43, <1>44,
     <1>45, <1>46, <1>47, Zenon DEF Next, Worker, Pool, Driver

\* Only Chunk, Restarts, Unsatisfiable, Promote and Discard touch a file, and
\* a turn has left for a server only when there was no finished file.
LEMMA FileStep == TypeOK /\ FileInv /\ [Next]_vars => FileInv'
<1> SUFFICES ASSUME TypeOK, FileInv, [Next]_vars PROVE FileInv'
  OBVIOUS
<1>1. /\ part \in Seq(Units) /\ pdf \in Seq(Units) /\ job \in Job /\ Leading(part) /\ Leading(pdf)
      /\ Positions /\ NotFetchedAgain
  BY DEF TypeOK, FileInv, BytesInOrder
<1>2. \A st \in Steps : Goes(st) => job'.step = st
  BY <1>1 DEF Goes, Job
<1> DEFINE Away(st) == st \notin {"none", "promoted", "recorded"}
<1>3. ASSUME UNCHANGED <<part, pdf>>, job'.step \notin {"ask", "stream"},
             Away(job'.step) => Away(job.step) \/ pdf = << >>
      PROVE  FileInv'
  BY <1>1, <1>3 DEF FileInv, BytesInOrder, Positions, NotFetchedAgain, Leading
<1>4. ASSUME UNCHANGED <<part, pdf, job>> PROVE FileInv'
  BY <1>1, <1>4 DEF FileInv, BytesInOrder, Positions, NotFetchedAgain, Leading
<1>5. NoJob.step = "none" /\ \A a, h : NewJob(a, h).step = "persist"
  BY DEF NoJob, NewJob
<1>6. ASSUME Leading(part'), Leading(pdf'), Positions', NotFetchedAgain' PROVE FileInv'
  BY <1>6 DEF FileInv, BytesInOrder
<1>7. Leading(<< >>) /\ Len(<< >>) = 0
  BY NothingType
<1>8. CASE Discover
  BY <1>8, <1>3, <1>5 DEF Discover
<1>9. CASE Rediscover \/ Certify \/ Reject \/ Start \/ Count \/ End \/ UNCHANGED vars
  BY <1>9, <1>4 DEF Rediscover, Certify, Reject, Start, Count, End, vars
<1>10. CASE Persist \/ Offer \/ Dispatch \/ Begin \/ Resolve \/ Enter \/ Deferred
  BY <1>10, <1>2, <1>3, Names DEF Persist, Offer, Dispatch, Begin, Resolve, Enter, Deferred, At
<1>11. CASE Defer \/ Refused \/ Break \/ EndOfStream \/ RecordPromoted \/ RecordLost
  BY <1>11, <1>2, <1>3, Names DEF Defer, Refused, Break, EndOfStream, RecordPromoted, RecordLost, At
<1>12. CASE Requeue \/ Close \/ Crash \/ Stop
  BY <1>12, <1>2, <1>3, <1>4, <1>5, Names DEF Requeue, Close, Crash, Stop, At
<1>13. CASE Succeed
  BY <1>13, <1>3, <1>5 DEF Succeed
<1>14. CASE Fail
  <2>1. \A a, h : Moves(a, h) => job'.step = "return"
    BY <1>1 DEF Moves, Job
  <2>2. job'.step \in {"return", "none"}
    BY <1>14, <2>1, <1>5 DEF Fail
  <2> QED BY <1>14, <2>2, <1>3 DEF Fail, At
<1>15. CASE Open
  <2>1. CASE Stopped
    BY <1>15, <2>1, <1>2, <1>3, Names DEF Open, At
  <2>2. CASE ~Stopped
    <3>1. job'.step = "ask" /\ job'.next = Len(part) + 1
      BY <1>15, <2>2, <1>1 DEF Open, Job
    <3>2. UNCHANGED <<part, pdf>> /\ job.step = "open"
      BY <1>15, <2>2 DEF Open, At
    <3> QED BY <3>1, <3>2, <1>1, <1>6 DEF Positions, NotFetchedAgain, Leading
  <2> QED BY <2>1, <2>2
<1>16. CASE Unsatisfiable
  <2>1. job.step = "ask" /\ job'.step = "lost" /\ part' = << >> /\ pdf' = pdf
    BY <1>16, <1>2, Names DEF Unsatisfiable, At
  <2> QED BY <2>1, <1>1, <1>6, <1>7 DEF Positions, NotFetchedAgain, Leading
<1>17. CASE Restarts \/ Resumes \/ Chunk
  <2>1. /\ job.step \in {"ask", "stream"} /\ job'.step = "stream" /\ job'.next = Len(part') + 1
        /\ pdf' = pdf /\ part' \in Seq(Units)
        /\ \/ part' = << >> \/ part' = part
           \/ part' = Append(part, job.next) /\ job.next \in Units /\ job.step = "stream"
    BY <1>17, StreamGoesOn DEF Chunk, At
  <2>2. job.next = Len(part) + 1
    BY <2>1, <1>1 DEF Positions
  <2>3. Leading(part')
    BY <2>1, <2>2, <1>1, <1>7, OneMore
  <2> QED BY <2>1, <2>3, <1>1, <1>6 DEF Positions, NotFetchedAgain, Leading
<1>20. CASE Promote
  <2>1. /\ job.step = "ended" /\ job'.step \in {"lost", "promoted"}
        /\ job'.step = "lost" => pdf' = pdf
        /\ part' \in {part, << >>} /\ pdf' \in {pdf, part}
    BY <1>20, <1>2, Names DEF Promote, At
  <2> QED BY <2>1, <1>1, <1>6, <1>7 DEF Positions, NotFetchedAgain
<1>21. CASE Discard
  <2>1. /\ pdf' = << >> /\ UNCHANGED job
        /\ part' = part \/ (part = << >> /\ part' = pdf)
    BY <1>21 DEF Discard
  <2>2. Leading(part') /\ Leading(pdf')
    BY <2>1, <1>1, <1>7
  <2>3. job.step \in {"ask", "stream"} => part' = part
    BY <2>1, <1>1 DEF NotFetchedAgain
  <2> QED BY <2>1, <2>2, <2>3, <1>1, <1>6 DEF Positions, NotFetchedAgain
<1>22. CASE Recover
  <2>1. CASE UNCHANGED job
    BY <1>22, <2>1, <1>4 DEF Recover
  <2>2. CASE Unfinished /\ (Restores(entry.attempt) \/ Restores(entry.attempt + 1))
    BY <1>22, <2>2, <1>3, <1>5 DEF Recover, Unfinished, Restores
  <2>3. \/ UNCHANGED job
        \/ Unfinished /\ (Restores(entry.attempt) \/ Restores(entry.attempt + 1))
    BY <1>22 DEF Recover, RestoresNone
  <2> QED BY <2>1, <2>2, <2>3
<1> QED
  BY <1>8, <1>9, <1>10, <1>11, <1>12, <1>13, <1>14, <1>15, <1>16, <1>17, <1>20,
     <1>21, <1>22, Zenon DEF Next, Worker, Pool, Driver

\* The type invariant holds for every value of the constants.
THEOREM TypeCorrect == Spec => []TypeOK
<1>1. Init => TypeOK /\ FileInv
  BY FileInit
<1>2. (TypeOK /\ FileInv) /\ [Next]_vars => (TypeOK /\ FileInv)'
  BY TypeStep, FileStep
<1> QED BY <1>1, <1>2, PTL DEF Spec

\* Files hold the document's units in order (download_file,
\* _record_pdf_integrity).
THEOREM BytesStayInOrder == Spec => []BytesInOrder
<1>1. Init => TypeOK /\ FileInv
  BY FileInit
<1>2. (TypeOK /\ FileInv) /\ [Next]_vars => (TypeOK /\ FileInv)'
  BY TypeStep, FileStep
<1>3. FileInv => BytesInOrder
  BY DEF FileInv
<1> QED BY <1>1, <1>2, <1>3, PTL DEF Spec

\* A document with a finished file is not on its way to a server.
THEOREM NeverFetchedAgain == Spec => []NotFetchedAgain
<1>1. Init => TypeOK /\ FileInv
  BY FileInit
<1>2. (TypeOK /\ FileInv) /\ [Next]_vars => (TypeOK /\ FileInv)'
  BY TypeStep, FileStep
<1>3. FileInv => NotFetchedAgain
  BY DEF FileInv
<1> QED BY <1>1, <1>2, <1>3, PTL DEF Spec

-----------------------------------------------------------------------------
(* The end of a document                                                   *)

Busy == job.step # "none"

\* A run that has not restored anything yet has no turn; a file that was
\* promoted stays until its turn ends, and one that is to be checked until the
\* check moves it; a document that has ended has no turn and no check to come.
EndInv ==
  /\ run \in {"off", "count", "recover"} => ~Busy
  /\ job.step \in {"promoted", "recorded"} => pdf # << >>
  /\ check = "due" => ~Busy /\ pdf # << >>
  /\ entry.status = "COMPLETED" =>
       ~Busy /\ check = "none" /\ pdf # << >> /\ entry.integrity = "VALID"
  /\ entry.status = "PERMANENTLY_FAILED" => ~Busy /\ pdf = << >> /\ entry.cand

LEMMA EndInit == Init => EndInv
  BY DEF Init, EndInv, Busy, NoJob, NewJob, NoEntry

LEMMA Disjoint ==
  /\ {"WAITING", "RETRY", "DOWNLOADING", "INTEGRITY_PENDING"} \cap Final = {}
  /\ Restorable \cap Final = {} /\ Final = {"COMPLETED", "PERMANENTLY_FAILED"}
  BY DEF Final, Restorable

\* A ledger transaction of a turn leaves a document unfinished, but for the last.
LEMMA Writes ==
  ASSUME NEW e \in Entry, job \in Job, Files
  PROVE  /\ Known(e).status = e.status /\ Known(e).integrity = e.integrity
         /\ Known(e).cand = TRUE /\ Known(e).size = e.size
         /\ Waits(e).status = "WAITING" /\ Retries(e).status = "RETRY"
         /\ \A n \in Nat : Downloads(e, n).status = "DOWNLOADING" /\ Downloads(e, n).size = n
         /\ Pending(e).status \in {e.status, "INTEGRITY_PENDING"}
         /\ Abandoned(e).status = "PERMANENTLY_FAILED" /\ Abandoned(e).cand = e.cand
         /\ Abandoned(e).size = e.size
  BY DEF Known, Waits, Retries, Downloads, Pending, Abandoned, Entry

LEMMA EndStep == TypeOK /\ FileInv /\ EndInv /\ [Next]_vars => EndInv'
<1> SUFFICES ASSUME TypeOK, FileInv, EndInv, [Next]_vars PROVE EndInv'
  OBVIOUS
<1>1. /\ Files /\ Records /\ entry \in Entry /\ job \in Job /\ NotFetchedAgain
      /\ part \in Seq(Units) /\ pdf \in Seq(Units) /\ Size \in Nat /\ Len(part) \in Nat
  BY Types, SizeType DEF FileInv, Records, Files
<1>2. \A st \in Steps : Goes(st) => job'.step = st
  BY <1>1 DEF Goes, Job
<1>3. NoJob.step = "none" /\ \A a, h : NewJob(a, h).step = "persist"
  BY DEF NoJob, NewJob
<1>4. Known(entry) \in Entry
  BY <1>1, EntryMoves
<1> DEFINE Live(e) == e.status \notin Final
<1>30. /\ \A e \in Entry : Live(Waits(e)) /\ Live(Retries(e)) /\ (Live(e) => Live(Pending(e)))
       /\ \A e \in Entry, n \in Nat : Live(Downloads(e, n))
  <2>1. \A s \in {"WAITING", "RETRY", "DOWNLOADING", "INTEGRITY_PENDING"} : s \notin Final
    BY Disjoint
  <2>2. ASSUME NEW e \in Entry
        PROVE  /\ Live(Waits(e)) /\ Live(Retries(e)) /\ (Live(e) => Live(Pending(e)))
               /\ \A n \in Nat : Live(Downloads(e, n))
    <3>1. Live(Waits(e)) /\ Live(Retries(e))
      BY <2>1 DEF Waits, Retries, Entry
    <3>2. Live(e) => Live(Pending(e))
      BY <2>1 DEF Pending, Entry
    <3>3. \A n \in Nat : Live(Downloads(e, n))
      BY <2>1 DEF Downloads, Entry
    <3> QED BY <3>1, <3>2, <3>3
  <2> QED BY <2>2
\* A step of a turn that goes on, or of a turn that ends without a record.
<1>5. ASSUME Busy, UNCHANGED <<run, check, pdf>>, entry' = entry \/ Live(entry'),
             job'.step \notin {"promoted", "recorded"} \/ pdf # << >>
      PROVE  EndInv'
  BY <1>5, Disjoint DEF EndInv, Busy
\* A step that leaves the document alone.
<1>6. ASSUME UNCHANGED <<entry, pdf, job, check>>, run' \in {"off", "count", "recover"} => ~Busy
      PROVE  EndInv'
  BY <1>6 DEF EndInv, Busy
<1>7. Busy => entry.status \notin Final
  BY Disjoint DEF EndInv
<1>8. CASE Discover
  <2>1. /\ run = "on" /\ ~entry.cand /\ pdf = << >> /\ job'.step = "persist"
        /\ UNCHANGED <<pdf, entry, check, run>>
    BY <1>8, <1>3 DEF Discover
  <2> QED BY <2>1 DEF EndInv, Busy
<1>9. CASE Rediscover
  <2>1. /\ ~Busy /\ pdf # << >> /\ check' = "due" /\ UNCHANGED <<pdf, job, run>>
        /\ entry.status \notin Final
    BY <1>9, Disjoint DEF Rediscover, At, Busy, EndInv, Verified
  <2>2. entry'.status \notin Final
    <3>1. Pending(entry) \in Entry /\ Pending(entry).status \notin Final
      BY <1>1, <2>1, Writes, EntryMoves, Disjoint
    <3>2. [Pending(entry) EXCEPT !.cand = TRUE].status \notin Final
      BY <3>1 DEF Entry
    <3> QED BY <1>9, <2>1, <3>2 DEF Rediscover, Saves
  <2> QED BY <2>1, <2>2, Disjoint DEF EndInv, Busy
<1>10. CASE Persist \/ Begin \/ Enter \/ RecordLost \/ Deferred
  <2>1. Busy /\ UNCHANGED <<run, check, pdf>> /\ job'.step \notin {"promoted", "recorded"}
    BY <1>10, <1>2, Names DEF Persist, Begin, Enter, RecordLost, Deferred, At, Busy
  <2>2. entry' = entry \/ Live(entry')
    BY <1>10, <1>1, <1>4, <1>30 DEF Persist, Begin, Enter, RecordLost, Deferred, Saves
  <2> QED BY <2>1, <2>2, <1>5
<1>11. CASE Offer \/ Dispatch \/ Defer \/ Resolve \/ Refused \/ Break \/ EndOfStream
  <2>1. /\ Busy /\ UNCHANGED <<run, check, pdf, entry>>
        /\ job'.step \notin {"promoted", "recorded"}
    BY <1>11, <1>2, Names
       DEF Offer, Dispatch, Defer, Resolve, Refused, Break, EndOfStream, At, Busy
  <2> QED BY <2>1, <1>5
<1>12. CASE Unsatisfiable
  <2>1. /\ Busy /\ UNCHANGED <<run, check, pdf, entry>>
        /\ job'.step \notin {"promoted", "recorded"}
    BY <1>12, <1>2, Names DEF Unsatisfiable, At, Busy
  <2> QED BY <2>1, <1>5
<1>13. CASE Open
  <2>1. /\ Busy /\ UNCHANGED <<run, check, pdf>> /\ job'.step \notin {"promoted", "recorded"}
    BY <1>13, <1>1, <1>2, Names DEF Open, At, Busy, Job
  <2>2. entry' = entry \/ entry' = Downloads(entry, Len(part))
    BY <1>13 DEF Open
  <2> QED BY <2>1, <2>2, <1>1, <1>5, <1>30
<1>14. CASE Restarts \/ Resumes \/ Chunk
  <2>1. /\ Busy /\ UNCHANGED <<run, check, pdf>> /\ job'.step \notin {"promoted", "recorded"}
        /\ part' \in Seq(Units)
        /\ UNCHANGED entry \/ entry' = Downloads(Known(entry), Len(part'))
    BY <1>14, StreamGoesOn DEF Busy, Saves
  <2>2. Len(part') \in Nat
    BY <2>1
  <2> QED BY <2>1, <2>2, <1>4, <1>5, <1>30
<1>15. CASE Promote
  <2>1. /\ Busy /\ UNCHANGED <<run, check, entry>> /\ job.step = "ended"
        /\ \/ UNCHANGED pdf /\ job'.step = "lost"
           \/ pdf' = part /\ Len(part) >= MinSize /\ job'.step = "promoted"
    BY <1>15, <1>1, <1>2, Names DEF Promote, At, Busy
  <2>2. Len(part) >= MinSize => part # << >>
    BY <1>1, NothingType
  <2>3. entry.status \notin Final /\ check # "due" /\ run \notin {"off", "count", "recover"}
    BY <2>1, <1>7 DEF EndInv
  <2> QED BY <2>1, <2>2, <2>3, Disjoint DEF EndInv, Busy
<1>16. CASE RecordPromoted
  <2>1. Busy /\ UNCHANGED <<run, check, pdf>> /\ pdf # << >>
    BY <1>16 DEF RecordPromoted, At, Busy, EndInv
  <2>2. entry' = entry \/ Live(entry')
    BY <1>16, <1>1, <1>7, <2>1, <1>30 DEF RecordPromoted, Saves
  <2> QED BY <2>1, <2>2, <1>5
<1>17. CASE Succeed
  <2>1. /\ Busy /\ pdf # << >> /\ UNCHANGED <<run, pdf>> /\ job'.step = "none"
        /\ entry.status \notin Final
    BY <1>17, <1>3, <1>7 DEF Succeed, At, Busy, EndInv
  <2>2. entry'.status \notin Final
    <3>1. Known(entry).status \notin Final
      BY <2>1, <1>1, Writes
    <3>2. Pending(Known(entry)).status \notin Final
      BY <3>1, <1>1, <1>4, Writes, Disjoint
    <3> QED BY <1>17, <2>1, <3>2 DEF Succeed, Saves
  <2> QED BY <2>1, <2>2, Disjoint DEF EndInv, Busy
<1>18. CASE Fail
  <2>1. /\ Busy /\ job.step = "failed" /\ pdf = << >> /\ UNCHANGED <<run, check, pdf>>
        /\ entry.status \notin Final
    BY <1>18, <1>1, <1>7 DEF Fail, At, Busy, NotFetchedAgain
  <2>2. \A a \in 1..MaxAttempts, h \in 0..MaxHandoffs :
          Moves(a, h) => job'.step = "return" /\ (entry' = entry \/ Live(entry'))
    <3> SUFFICES ASSUME NEW a \in 1..MaxAttempts, NEW h \in 0..MaxHandoffs, Moves(a, h)
                 PROVE  job'.step = "return" /\ (entry' = entry \/ Live(entry'))
      OBVIOUS
    <3>1. [entry EXCEPT !.cand = TRUE, !.attempt = a, !.handoffs = h] \in Entry
      BY <1>1, EntryMoves
    <3> QED BY <3>1, <1>1, Writes, Disjoint DEF Moves, Saves, Job
  <2>3. /\ job.attempt \in 1..MaxAttempts /\ job.handoffs \in 0..MaxHandoffs
        /\ 0 \in 0..MaxHandoffs
    BY <1>1, FieldTypes
  <2>4. CASE Handoff
    <3>1. job.handoffs + 1 \in 0..MaxHandoffs
      BY <2>3, <2>4 DEF Handoff
    <3> QED BY <1>18, <2>1, <2>2, <2>3, <2>4, <3>1, <1>5 DEF Fail
  <2>5. CASE ~Handoff /\ ~(job.attempt >= MaxAttempts)
    <3>1. job.attempt + 1 \in 1..MaxAttempts
      BY <2>3, <2>5
    <3> QED BY <1>18, <2>1, <2>2, <2>3, <2>5, <3>1, <1>5 DEF Fail
  <2>6. CASE ~Handoff /\ job.attempt >= MaxAttempts
    <3>1. job'.step = "none" /\ (entry' = entry \/ entry' = Abandoned(Known(entry)))
      BY <1>18, <2>6, <1>3 DEF Fail, Saves
    <3>2. Abandoned(Known(entry)).cand = TRUE
      BY <1>1, <1>4, Writes
    <3>3. Abandoned(Known(entry)).status = "PERMANENTLY_FAILED"
      BY <1>1, <1>4, Writes
    <3> QED BY <3>1, <3>2, <3>3, <2>1, Disjoint DEF EndInv, Busy
  <2> QED BY <2>4, <2>5, <2>6
<1>19. CASE Requeue
  <2>1. Busy /\ UNCHANGED <<run, check, pdf, entry>> /\ job'.step \in {"none", "queued"}
    BY <1>19, <1>2, <1>3, Names DEF Requeue, At, Busy
  <2> QED BY <2>1, <1>5
<1>20. CASE Certify
  <2>1. /\ ~Busy /\ pdf # << >> /\ check' = "none" /\ UNCHANGED <<pdf, job, run>>
        /\ entry.status \notin Final
    BY <1>20, Disjoint DEF Certify, EndInv
  <2>2. \/ entry' = entry
        \/ entry'.status = "COMPLETED" /\ entry'.integrity = "VALID"
    <3> DEFINE e == [entry EXCEPT !.status = "COMPLETED", !.integrity = "VALID", !.size = Len(pdf)]
    <3>1. e.status = "COMPLETED"
      BY <1>1 DEF Entry
    <3>2. e.integrity = "VALID"
      BY <1>1 DEF Entry
    <3>3. entry' = entry \/ entry' = e
      BY <1>20 DEF Certify, Saves
    <3> HIDE DEF e
    <3> QED BY <3>1, <3>2, <3>3
  <2> QED BY <2>1, <2>2, Disjoint DEF EndInv, Busy
<1>21. CASE Discard
  <2>1. /\ ~Busy /\ pdf' = << >> /\ check' = "moved" /\ UNCHANGED <<job, run, entry>>
        /\ entry.status \notin Final
    BY <1>21, Disjoint DEF Discard, EndInv
  <2> QED BY <2>1, Disjoint DEF EndInv, Busy
<1>22. CASE Reject
  <2>1. /\ check = "moved" /\ check' = "none" /\ UNCHANGED <<pdf, job, run>>
        /\ entry' = entry \/ entry'.status = "RETRY"
    BY <1>22, <1>1 DEF Reject, Saves, Entry
  <2> QED BY <2>1, Disjoint DEF EndInv, Busy
<1>23. CASE Start
  BY <1>23, <1>6 DEF Start, EndInv
<1>24. CASE Count \/ End
  <2>1. ~Busy /\ UNCHANGED <<pdf, job>>
    BY <1>24 DEF Count, End, At, Busy, EndInv
  <2>2. Reconcile \/ UNCHANGED entry
    BY <1>24 DEF Count, End
  <2>3. entry.status \in Final => entry' = entry
    BY <2>2, Disjoint DEF Reconcile, Unrecorded, EndInv, Verified
  <2>4. entry.status \notin Final => entry'.status \notin Final
    BY <2>2, <1>1, <1>30 DEF Reconcile, Saves
  <2>5. /\ check' \in {"due", "none"}
        /\ check' = "due" => pdf # << >> /\ entry'.status = "INTEGRITY_PENDING"
    BY <1>24 DEF Count, End
  <2> QED BY <2>1, <2>3, <2>4, <2>5, Disjoint DEF EndInv, Busy
<1>25. CASE Recover
  <2>1. ~Busy /\ UNCHANGED <<pdf, check>> /\ run' = "on"
    BY <1>25 DEF Recover, EndInv
  <2>2. \A a \in Int : Restores(a) => job'.step = "persist"
    BY <1>3 DEF Restores
  <2>3. entry.attempt \in Int /\ entry.attempt + 1 \in Int
    BY <1>1, FieldTypes
  <2>4. \/ UNCHANGED <<job, entry>>
        \/ UNCHANGED job /\ entry' = Abandoned(entry) /\ Unfinished
        \/ UNCHANGED job /\ entry'.status = "INTEGRITY_PENDING" /\ entry.status \in Restorable
        \/ /\ Unfinished /\ job'.step = "persist"
           /\ entry' = entry \/ entry'.status = "WAITING"
    BY <1>25, <1>1, <2>2, <2>3 DEF Recover, RestoresNone, Saves, Entry
  <2>5. Unfinished => entry.cand /\ entry.status \notin Final /\ pdf = << >>
    BY Disjoint DEF Unfinished
  <2>6. Abandoned(entry).status = "PERMANENTLY_FAILED" /\ Abandoned(entry).cand = entry.cand
    BY <1>1, Writes
  <2> QED BY <2>1, <2>4, <2>5, <2>6, Disjoint DEF EndInv, Busy
<1>26. CASE Stop \/ Close
  <2>1. /\ UNCHANGED <<entry, pdf, check>> /\ run' \notin {"off", "count", "recover"}
        /\ UNCHANGED job \/ job'.step = "none"
    BY <1>26, <1>3 DEF Stop, Close
  <2> QED BY <2>1 DEF EndInv, Busy
<1>28. CASE Crash
  <2>1. job'.step = "none" /\ check' = "none" /\ UNCHANGED <<entry, pdf>>
    BY <1>28, <1>3 DEF Crash
  <2> QED BY <2>1 DEF EndInv, Busy
<1>29. CASE UNCHANGED vars
  BY <1>29, <1>6 DEF vars, EndInv
<1> QED
  BY <1>8, <1>9, <1>10, <1>11, <1>12, <1>13, <1>14, <1>15, <1>16, <1>17, <1>18, <1>19, <1>20,
     <1>21, <1>22, <1>23, <1>24, <1>25, <1>26, <1>28, <1>29, Zenon
     DEF Next, Worker, Pool, Driver

-----------------------------------------------------------------------------
(* The checkpoints of a transfer                                           *)

\* The last durable mark is at most a checkpoint behind the partial, and
\* the ledger is at the mark or past it; after a restart from zero the mark is
\* zero, whatever the ledger says, until the first checkpoint.
Streams(j) == j.step \in {"ask", "stream", "ended"} /\ ~j.missed
Marked ==
  Streams(job) =>
    /\ job.kept <= Len(part) /\ Len(part) - job.kept < Gate
    /\ \/ job.kept = 0
       \/ job.kept <= entry.size /\ entry.size <= Len(part)

LEMMA MarkedInit == Init => Marked
  BY DEF Init, Marked, Streams, NoJob, NewJob

LEMMA MarkedStep == TypeOK /\ FileInv /\ Marked /\ [Next]_vars => Marked'
<1> SUFFICES ASSUME TypeOK, FileInv, Marked, [Next]_vars PROVE Marked'
  OBVIOUS
<1>1. /\ Files /\ Records /\ entry \in Entry /\ job \in Job /\ NotFetchedAgain
      /\ part \in Seq(Units) /\ Size \in Nat /\ Len(part) \in Nat
      /\ entry.size \in Nat /\ job.kept \in Nat
  BY Types, SizeType, FieldTypes DEF FileInv, Records, Files
<1>2. \A st \in Steps : Goes(st) => /\ job'.step = st /\ job'.kept = job.kept
                                   /\ job'.missed = job.missed
  BY <1>1 DEF Goes, Job
<1>3. NoJob.step = "none" /\ \A a, h : NewJob(a, h).step = "persist"
  BY DEF NoJob, NewJob
<1>4. Known(entry) \in Entry
  BY <1>1, EntryMoves
<1>5. ASSUME ~Streams(job') PROVE Marked'
  BY <1>5 DEF Marked
<1>6. ASSUME Streams(job') => Streams(job), job'.kept = job.kept, UNCHANGED part,
             entry'.size = entry.size
      PROVE  Marked'
  BY <1>6 DEF Marked
<1>7. ASSUME Streams(job), pdf # << >> PROVE FALSE
  BY <1>7, <1>1 DEF Streams, NotFetchedAgain
<1>8. CASE Discover \/ Succeed \/ Crash
  BY <1>8, <1>3, <1>5 DEF Discover, Succeed, Crash, Streams
<1>9. CASE Persist \/ Offer \/ Dispatch \/ Begin \/ Resolve \/ Enter
  <2>1. job'.step \in {"offer", "queued", "begin", "resolve", "failed", "enter", "open"}
    BY <1>9, <1>2, Names DEF Persist, Offer, Dispatch, Begin, Resolve, Enter
  <2> QED BY <2>1, <1>5 DEF Streams
<1>10. CASE Defer \/ Refused \/ Unsatisfiable \/ Break \/ RecordPromoted \/ RecordLost \/ Deferred
  <2>1. job'.step \in {"deferred", "lost", "recorded", "failed", "return"}
    BY <1>10, <1>2, Names
       DEF Defer, Refused, Unsatisfiable, Break, RecordPromoted, RecordLost, Deferred
  <2> QED BY <2>1, <1>5 DEF Streams
<1>11. CASE Promote \/ Requeue
  <2>1. job'.step \in {"lost", "promoted", "queued", "none"}
    BY <1>11, <1>2, <1>3, Names DEF Promote, Requeue
  <2> QED BY <2>1, <1>5 DEF Streams
<1>12. CASE Fail
  <2>1. \A a, h : Moves(a, h) => job'.step = "return"
    BY <1>1 DEF Moves, Job
  <2>2. job'.step \in {"return", "none"}
    BY <1>12, <2>1, <1>3 DEF Fail
  <2> QED BY <2>2, <1>5 DEF Streams
<1>13. CASE Open
  <2>1. CASE Stopped
    BY <1>13, <2>1, <1>2, <1>5, Names DEF Open, Streams
  <2>2. CASE ~Stopped
    <3>1. \/ /\ entry' = Downloads(entry, Len(part)) /\ job'.kept = Len(part)
          \/ job'.missed = TRUE
      BY <1>13, <2>2, <1>1 DEF Open, Job
    <3>2. Downloads(entry, Len(part)).size = Len(part)
      BY <1>1 DEF Downloads, Entry
    <3>3. part' = part
      BY <1>13 DEF Open
    <3> QED BY <3>1, <3>2, <3>3, <1>1 DEF Marked, Streams
  <2> QED BY <2>1, <2>2
<1>15. CASE EndOfStream
  <2>1. /\ Streams(job') => Streams(job)
        /\ job'.kept = job.kept /\ UNCHANGED <<part, entry>>
    BY <1>15, <1>2, Names DEF EndOfStream, At, Streams
  <2> QED BY <2>1, <1>6
<1>16. CASE Restarts \/ Resumes \/ Chunk
  <2>1. PICK k \in {job.kept, 0} :
          /\ k = 0 \/ UNCHANGED part \/ Len(part') = Len(part) + 1
          /\ Restarts => k = 0
          /\ \/ /\ Len(part') - k < Gate /\ UNCHANGED entry
                /\ job'.kept = k /\ job'.missed = job.missed
             \/ entry' = Downloads(Known(entry), Len(part')) /\ job'.kept = Len(part')
             \/ UNCHANGED entry /\ job'.missed = TRUE
    BY <1>16, StreamGoesOn
  <2>2. job.step \in {"ask", "stream"} /\ job'.step = "stream" /\ part' \in Seq(Units)
    BY <1>16, StreamGoesOn
  <2>3. Len(part') \in Nat
    BY <2>2
  <2>4. Downloads(Known(entry), Len(part')).size = Len(part')
    BY <2>3, <1>4 DEF Downloads, Entry
  <2> QED BY <2>1, <2>2, <2>3, <2>4, <1>1 DEF Marked, Streams
<1>17. CASE Rediscover
  BY <1>17, <1>5 DEF Rediscover, At, Streams
<1>18. CASE Reject
  <2>1. entry'.size \in {entry.size, Len(part)} /\ UNCHANGED <<part, job>>
    BY <1>18, <1>1 DEF Reject, Saves, Entry
  <2> QED BY <2>1, <1>1 DEF Marked
<1>19. CASE Certify \/ Discard
  <2>1. Streams(job) => pdf = << >>
    BY <1>7
  <2>2. CASE ~Streams(job)
    BY <1>19, <2>2, <1>5 DEF Certify, Discard
  <2>3. CASE pdf = << >>
    BY <1>19, <2>3, <1>6, WholeType DEF Certify, Discard
  <2> QED BY <2>1, <2>2, <2>3
<1>20. CASE Count
  BY <1>20, <1>5, <1>6, <1>7 DEF Count, Reconcile, Unrecorded
<1>21. CASE Recover
  <2>1. \A a : Restores(a) => ~Streams(job')
    BY <1>3 DEF Restores, Streams
  <2>2. \/ ~Streams(job')
        \/ UNCHANGED <<job, part>> /\ entry' \in {entry, Abandoned(entry)}
        \/ UNCHANGED job /\ pdf # << >>
    BY <1>21, <2>1 DEF Recover, RestoresNone, Saves, Unfinished
  <2>3. Abandoned(entry).size = entry.size
    BY <1>1, Writes
  <2> QED BY <2>2, <2>3, <1>5, <1>6, <1>7
<1>22. CASE Start \/ Stop \/ Close
  <2>1. UNCHANGED <<part, entry>> /\ (UNCHANGED job \/ job' = NoJob)
    BY <1>22 DEF Start, Stop, Close
  <2> QED BY <2>1, <1>3, <1>5, <1>6 DEF Streams
<1>24. CASE End
  BY <1>24, <1>5 DEF End, At, Streams
<1>23. CASE UNCHANGED vars
  BY <1>23, <1>6 DEF vars
<1> QED
  BY <1>8, <1>9, <1>10, <1>11, <1>12, <1>13, <1>15, <1>16, <1>17, <1>18, <1>19, <1>20,
     <1>21, <1>22, <1>23, <1>24, Zenon DEF Next, Worker, Pool, Driver

\* The ledger's byte count keeps up with a transfer (DownloadProgress).
THEOREM CheckpointsKeepUp == Spec => []CheckpointClose
<1>1. Init => TypeOK /\ FileInv /\ Marked
  BY FileInit, MarkedInit
<1>2. (TypeOK /\ FileInv /\ Marked) /\ [Next]_vars => (TypeOK /\ FileInv /\ Marked)'
  BY TypeStep, FileStep, MarkedStep
<1>3. TypeOK /\ Marked => CheckpointClose
  <2> SUFFICES ASSUME TypeOK, Marked PROVE CheckpointClose
    OBVIOUS
  <2>1. entry.size \in Nat /\ job.kept \in Nat /\ Len(part) \in Nat
    BY Types, FieldTypes, SizeType
  <2> QED BY <2>1 DEF Marked, Streams, CheckpointClose
<1> QED BY <1>1, <1>2, <1>3, PTL DEF Spec

-----------------------------------------------------------------------------
(* What attempts cost                                                      *)

\* A record that the next restart will charge for, and a turn whose record
\* will be one if it ends now, have been paid for.
Resting == {"none", "persist", "offer", "queued", "return"}
Begun == Turn \ {"begin", "return"}
Covered(a) == a < MaxAttempts => a <= Paid
Fees ==
  /\ AttemptsPaid
  /\ job.step \in Resting /\ entry.status = "RETRY" => Covered(entry.attempt)
  /\ job.step \in Begun /\ entry.integrity = "PDF_INVALID" => Covered(job.attempt)

LEMMA PaidType == ASSUME Bookkeeping
                  PROVE  /\ Paid \in Nat /\ troubles \in Nat /\ spent.attempts \in Nat
                         /\ spent.rejected \in Nat /\ spent.handoffs \in Nat
  BY DEF Bookkeeping, Paid

LEMMA BudgetCovers == Budget \in Nat /\ Budget >= MaxAttempts
<1>1. \A a \in Nat, h \in Nat : a * h \in Nat /\ a * (h + 1) = a * h + a
  OBVIOUS
<1>2. MaxAttempts * (MaxHandoffs + 1) \in Nat /\ MaxAttempts * (MaxHandoffs + 1) >= MaxAttempts
  BY <1>1
<1> QED BY <1>2 DEF Budget

LEMMA FeesInit == Init => Fees
<1> SUFFICES ASSUME Init PROVE Fees
  OBVIOUS
<1>1. Bookkeeping
  BY FileInit, Types
<1>2. /\ entry.status = "NONE" /\ entry.attempt = 1 /\ job.attempt = 1 /\ job.step = "none"
  BY DEF Init, NoEntry, NoJob, NewJob
<1> QED BY <1>1, <1>2, PaidType DEF Fees, AttemptsPaid, Begun, Turn

LEMMA FeesStep == TypeOK /\ TypeOK' /\ FileInv /\ EndInv /\ Fees /\ [Next]_vars => Fees'
<1> SUFFICES ASSUME TypeOK, TypeOK', FileInv, EndInv, Fees, [Next]_vars PROVE Fees'
  OBVIOUS
<1>0. Paid' \in Nat /\ spent'.attempts \in Nat /\ spent'.rejected \in Nat /\ troubles' \in Nat
  BY DEF TypeOK, Paid
<1>1. /\ Files /\ Records /\ Bookkeeping /\ entry \in Entry /\ job \in Job
      /\ entry.attempt \in 1..MaxAttempts /\ job.attempt \in 1..MaxAttempts
      /\ Paid \in Nat /\ troubles \in Nat
      /\ spent.attempts \in Nat /\ spent.rejected \in Nat /\ spent.handoffs \in Nat
      /\ entry.attempt <= Paid + 1 /\ job.attempt <= Paid + 1
  BY Types, FieldTypes, PaidType DEF Records, Fees, AttemptsPaid
<1>2. \A st \in Steps : Goes(st) => job'.step = st /\ job'.attempt = job.attempt
  BY <1>1 DEF Goes, Job
<1>3. /\ NoJob.step = "none" /\ NoJob.attempt = 1
      /\ \A a, h : NewJob(a, h).step = "persist" /\ NewJob(a, h).attempt = a
  BY DEF NoJob, NewJob
<1>4. /\ Known(entry) \in Entry /\ Known(entry).attempt = job.attempt
      /\ Known(entry).integrity = entry.integrity /\ Known(entry).status = entry.status
  BY <1>1, EntryMoves DEF Known, Entry
<1>5. \A e \in Entry :
        /\ Waits(e).status = "WAITING" /\ Waits(e).attempt = e.attempt
        /\ Waits(e).integrity = e.integrity
        /\ Retries(e).attempt = e.attempt /\ Retries(e).integrity = e.integrity
        /\ Abandoned(e).status = "PERMANENTLY_FAILED" /\ Abandoned(e).attempt = e.attempt
        /\ Abandoned(e).integrity = e.integrity
        /\ \A n \in Nat : Downloads(e, n).attempt = e.attempt /\ Downloads(e, n).integrity = "PENDING"
        /\ Pending(e).attempt = e.attempt
        /\ \/ Pending(e).status = "INTEGRITY_PENDING" /\ Pending(e).integrity = "PENDING"
           \/ /\ e.integrity = "PDF_INVALID" /\ Pending(e).status = e.status
              /\ Pending(e).integrity = e.integrity
  BY DEF Waits, Retries, Abandoned, Downloads, Pending, Entry
<1>6. /\ UNCHANGED <<spent, troubles>> => Paid' = Paid
      /\ UNCHANGED spent /\ Trouble => Paid' = Paid + 1
  BY <1>1 DEF Trouble, Paid
<1>7. ASSUME UNCHANGED spent, NEW e, Saves(e)
      PROVE  \/ entry' = e /\ Paid' = Paid
             \/ entry' = entry /\ Paid' = Paid + 1
  BY <1>6, <1>7, Zenon DEF Saves
<1> DEFINE Charged == Paid' > Paid \/ Paid' >= MaxAttempts - 1
\* Nothing is charged: the next record and the next turn inherit what was paid.
<1>8. ASSUME Paid' \in Nat, Paid' >= Paid,
             job'.attempt \in {job.attempt, entry.attempt, 1},
             entry'.attempt \in {entry.attempt, job.attempt},
             job'.step \in Resting /\ entry'.status = "RETRY" =>
               \/ Charged
               \/ job.step \in Resting /\ entry.status = "RETRY" /\ entry'.attempt = entry.attempt
               \/ /\ job.step \in Begun /\ entry.integrity = "PDF_INVALID"
                  /\ entry'.attempt = job.attempt,
             job'.step \in Begun /\ entry'.integrity = "PDF_INVALID" =>
               /\ job'.attempt = job.attempt
               /\ Charged \/ (job.step \in Begun /\ entry.integrity = "PDF_INVALID")
      PROVE  Fees'
  BY <1>1, <1>8 DEF Fees, AttemptsPaid, Covered
<1>9. Charged <=> Paid' > Paid \/ Paid' >= MaxAttempts - 1
  OBVIOUS
<1>10. Paid + 1 > Paid /\ Paid + 1 \in Nat /\ Paid + 1 >= Paid
  BY <1>1
<1> HIDE DEF Charged
<1>11. /\ "RETRY" # "WAITING" /\ "RETRY" # "COMPLETED" /\ "RETRY" # "PERMANENTLY_FAILED"
       /\ "RETRY" # "INTEGRITY_PENDING" /\ "PDF_INVALID" # "PENDING" /\ "PDF_INVALID" # "VALID"
  OBVIOUS
<1>12. ASSUME UNCHANGED <<entry, spent, troubles>>, job'.attempt = job.attempt,
              job'.step \in Resting => job.step \in Resting,
              job'.step \in Begun => job.step \in Begun
       PROVE  Fees'
  BY <1>1, <1>6, <1>8, <1>12
<1>13. Begun = {"resolve", "enter", "open", "ask", "stream", "ended", "lost", "promoted",
                "recorded", "failed", "deferred"}
  BY DEF Begun, Turn
\* A ledger transaction of a turn that goes on in the turn.
<1>14. ASSUME NEW e \in Entry, Saves(e), UNCHANGED spent, job'.attempt = job.attempt,
              e.attempt \in {entry.attempt, job.attempt}, job'.step \notin Resting,
              job.step \in Begun => e.integrity \in {"PENDING", entry.integrity},
              job.step \notin Begun => e.integrity = "PENDING"
       PROVE  Fees'
  BY <1>1, <1>7, <1>8, <1>9, <1>10, <1>11, <1>14
<1>15. CASE Offer \/ Dispatch
  <2>1. /\ UNCHANGED <<entry, spent, troubles>> /\ job'.attempt = job.attempt
        /\ job.step \in {"offer", "queued"} /\ job'.step \in {"queued", "begin"}
    BY <1>15, <1>2, Names DEF Offer, Dispatch, At
  <2> QED BY <2>1, <1>12, <1>13 DEF Resting
<1>16. CASE Resolve \/ Defer \/ Refused \/ Unsatisfiable \/ Break \/ EndOfStream \/ Promote
  <2>1. /\ UNCHANGED <<entry, spent, troubles>> /\ job'.attempt = job.attempt
        /\ job.step \in Begun /\ job'.step \in Begun
    BY <1>16, <1>2, <1>13, Names
       DEF Resolve, Defer, Refused, Unsatisfiable, Break, EndOfStream, Promote, At
  <2> QED BY <2>1, <1>12, <1>13 DEF Resting
<1>17. CASE Restarts \/ Resumes \/ Chunk
  <2>1. /\ UNCHANGED spent /\ job'.attempt = job.attempt /\ job.step \in {"ask", "stream"}
        /\ job'.step = "stream" /\ part' \in Seq(Units)
        /\ \/ UNCHANGED <<entry, troubles>>
           \/ Saves(Downloads(Known(entry), Len(part')))
    BY <1>17, StreamGoesOn
  <2>2. Len(part') \in Nat
    BY <2>1
  <2>3. Downloads(Known(entry), Len(part')) \in Entry
    BY <2>2, <1>1, <1>4, EntryMoves
  <2>4. CASE UNCHANGED <<entry, troubles>>
    BY <2>1, <2>4, <1>12, <1>13 DEF Resting
  <2>5. CASE Saves(Downloads(Known(entry), Len(part')))
    BY <2>1, <2>2, <2>3, <2>5, <1>1, <1>4, <1>5, <1>13, <1>14 DEF Resting
  <2> QED BY <2>1, <2>4, <2>5
<1>18. CASE Persist
  <2>1. /\ UNCHANGED spent /\ job'.attempt = job.attempt /\ job'.step = "offer"
        /\ Saves(Waits(Known(entry)))
    BY <1>18, <1>2, Names DEF Persist
  <2>2. Waits(Known(entry)).status = "WAITING" /\ Waits(Known(entry)).attempt = job.attempt
    BY <1>4, <1>5
  <2>3. \/ entry' = Waits(Known(entry)) /\ Paid' = Paid
        \/ entry' = entry /\ Paid' = Paid + 1
    BY <2>1, <1>7
  <2> QED BY <2>1, <2>2, <2>3, <1>1, <1>8, <1>9, <1>10, <1>11, <1>13
<1>19. CASE Begin \/ Enter \/ RecordPromoted \/ RecordLost
  <2>1. /\ UNCHANGED spent /\ job'.attempt = job.attempt /\ job'.step \notin Resting
        /\ job'.step \in Begun
        /\ job.step \notin Begun => Begin
    BY <1>19, <1>2, <1>13, Names DEF Begin, Enter, RecordPromoted, RecordLost, At, Resting
  <2>2. Size \in Nat
    BY <1>1, SizeType
  <2>3. CASE Begin
    <3>1. Downloads(Known(entry), Size) \in Entry
      BY <1>1, <1>4, <2>2, EntryMoves
    <3> QED BY <2>1, <2>2, <2>3, <3>1, <1>4, <1>5, <1>14 DEF Begin
  <2>4. CASE ~Begin
    <3>1. \E e \in Entry : /\ Saves(e) /\ e.attempt = entry.attempt
                          /\ e.integrity \in {"PENDING", entry.integrity}
      <4>1. /\ Retries(entry) \in Entry /\ Downloads(entry, Size) \in Entry
            /\ Pending(entry) \in Entry
        BY <1>1, <2>2, EntryMoves
      <4> QED BY <1>19, <2>4, <4>1, <2>2, <1>1, <1>5 DEF Enter, RecordPromoted, RecordLost
    <3>2. PICK e \in Entry : /\ Saves(e) /\ e.attempt = entry.attempt
                            /\ e.integrity \in {"PENDING", entry.integrity}
      BY <3>1
    <3>3. e.attempt \in {entry.attempt, job.attempt} /\ job.step \in Begun
      BY <2>1, <2>4, <3>2
    <3> QED BY <2>1, <3>2, <3>3, <1>14
  <2> QED BY <2>3, <2>4
<1>20. CASE Open
  <2>1. CASE Stopped
    <3>1. /\ UNCHANGED <<entry, spent, troubles>> /\ job'.attempt = job.attempt
          /\ job.step = "open" /\ job'.step = "lost"
      BY <1>20, <2>1, <1>2, Names DEF Open, At
    <3> QED BY <3>1, <1>12, <1>13 DEF Resting
  <2>2. CASE ~Stopped
    <3>1. /\ UNCHANGED spent /\ job'.attempt = job.attempt /\ job.step = "open"
          /\ job'.step = "ask" /\ Saves(Downloads(entry, Len(part)))
      BY <1>20, <2>2, <1>1 DEF Open, At, Saves, Job
    <3>2. Len(part) \in Nat
      BY <1>1, SizeType
    <3>3. Downloads(entry, Len(part)) \in Entry
      BY <1>1, <3>2, EntryMoves
    <3> QED BY <3>1, <3>2, <3>3, <1>1, <1>5, <1>13, <1>14 DEF Resting
  <2> QED BY <2>1, <2>2
<1>22. CASE Succeed
  <2>1. UNCHANGED spent /\ job' = NoJob /\ job.step = "recorded" /\ Saves(Pending(Known(entry)))
    BY <1>22 DEF Succeed, At
  <2>2. \/ entry' = Pending(Known(entry)) /\ Paid' = Paid
        \/ entry' = entry /\ Paid' = Paid + 1
    BY <2>1, <1>7
  <2>3. /\ Pending(Known(entry)).attempt = job.attempt
        /\ Pending(Known(entry)).status = "RETRY" => entry.integrity = "PDF_INVALID"
    BY <1>4, <1>5, <1>11
  <2> QED BY <2>1, <2>2, <2>3, <1>1, <1>3, <1>8, <1>9, <1>10, <1>13
<1>23. CASE Deferred
  <2>1. /\ UNCHANGED spent /\ job'.attempt = job.attempt /\ job'.step = "return"
        /\ Saves(Waits(Known(entry)))
    BY <1>23, <1>2, Names DEF Deferred
  <2>2. Waits(Known(entry)).status = "WAITING" /\ Waits(Known(entry)).attempt = job.attempt
    BY <1>4, <1>5
  <2>3. \/ entry' = Waits(Known(entry)) /\ Paid' = Paid
        \/ entry' = entry /\ Paid' = Paid + 1
    BY <2>1, <1>7
  <2> QED BY <2>1, <2>2, <2>3, <1>1, <1>8, <1>9, <1>10, <1>11, <1>13
<1>24. CASE Fail
  <2>1. /\ Counted(spent.attempts) \in Nat /\ Counted(spent.handoffs) \in Nat
        /\ Counted(spent.attempts) >= spent.attempts
        /\ \/ Counted(spent.attempts) = spent.attempts + 1
           \/ spent.attempts >= MaxAttempts
    BY <1>1, BudgetCovers DEF Counted
  <2>2. ASSUME NEW a \in 1..MaxAttempts, NEW h \in 0..MaxHandoffs, Moves(a, h)
        PROVE  /\ job'.step = "return" /\ job'.attempt = a
               /\ \/ entry'.status = "WAITING" /\ entry'.attempt = a /\ UNCHANGED troubles
                  \/ entry' = entry /\ troubles' = troubles + 1
    <3> DEFINE e == [entry EXCEPT !.cand = TRUE, !.attempt = a, !.handoffs = h]
    <3>1. e \in Entry
      BY <1>1, EntryMoves
    <3>2. e.attempt = a
      BY <1>1 DEF Entry
    <3>3. job'.step = "return" /\ job'.attempt = a
      BY <2>2, <1>1 DEF Moves, Job
    <3>4. Saves(Waits(e))
      BY <2>2, Zenon DEF Moves
    <3> HIDE DEF e
    <3>5. Waits(e).status = "WAITING" /\ Waits(e).attempt = a
      BY <3>1, <3>2, <1>5
    <3> QED BY <3>3, <3>4, <3>5 DEF Saves, Trouble
  <2>3. /\ job.handoffs \in 0..MaxHandoffs /\ 0 \in 0..MaxHandoffs
        /\ job.step = "failed"
    BY <1>1, <1>24, FieldTypes DEF Fail, At
  <2>4. CASE Handoff
    <3>1. job.handoffs + 1 \in 0..MaxHandoffs
      BY <2>3, <2>4 DEF Handoff
    <3>2. spent'.attempts = spent.attempts /\ spent'.rejected = spent.rejected
      BY <1>24, <2>4, <1>1 DEF Fail, Bookkeeping
    <3>3. Moves(job.attempt, job.handoffs + 1)
      BY <1>24, <2>4 DEF Fail
    <3>4. /\ job'.step = "return" /\ job'.attempt = job.attempt
          /\ \/ entry'.status = "WAITING" /\ entry'.attempt = job.attempt /\ UNCHANGED troubles
             \/ entry' = entry /\ troubles' = troubles + 1
      BY <3>1, <3>3, <2>2, <1>1
    <3>5. Paid' >= Paid /\ (troubles' = troubles + 1 => Paid' > Paid)
      BY <3>2, <3>4, <1>1 DEF Paid
    <3> QED BY <3>4, <3>5, <1>0, <1>1, <1>8, <1>9, <1>11, <1>13
  <2>5. CASE ~Handoff /\ job.attempt >= MaxAttempts
    <3>1. /\ Saves(Abandoned(Known(entry))) /\ job' = NoJob
          /\ spent'.attempts = Counted(spent.attempts) /\ spent'.rejected = spent.rejected
      BY <1>24, <2>5, <1>1 DEF Fail, Bookkeeping
    <3>2. /\ Abandoned(Known(entry)).status = "PERMANENTLY_FAILED"
          /\ Abandoned(Known(entry)).attempt = job.attempt
      BY <1>4, <1>5
    <3>3. \/ entry' = Abandoned(Known(entry)) /\ Paid' >= Paid
          \/ entry' = entry /\ Paid' > Paid
      BY <3>1, <2>1, <1>1 DEF Saves, Trouble, Paid
    <3> QED BY <3>1, <3>2, <3>3, <1>0, <1>1, <1>3, <1>8, <1>9, <1>11, <1>13
  <2>6. CASE ~Handoff /\ ~(job.attempt >= MaxAttempts)
    <3>1. job.attempt + 1 \in 1..MaxAttempts
      BY <2>6, <1>1
    <3>2. /\ Moves(job.attempt + 1, 0)
          /\ spent'.attempts = Counted(spent.attempts) /\ spent'.rejected = spent.rejected
      BY <1>24, <2>6, <1>1 DEF Fail, Bookkeeping
    <3>3. /\ job'.step = "return" /\ job'.attempt = job.attempt + 1
          /\ \/ entry'.status = "WAITING" /\ entry'.attempt = job.attempt + 1 /\ UNCHANGED troubles
             \/ entry' = entry /\ troubles' = troubles + 1
      BY <3>1, <3>2, <2>2, <2>3
    <3>4. /\ Paid' >= Paid /\ (troubles' = troubles + 1 => Paid' > Paid)
          /\ Paid' >= Paid + 1 \/ Paid' >= MaxAttempts
      BY <3>2, <3>3, <2>1, <1>1 DEF Paid
    <3>5. job'.step \notin Begun
      BY <3>3, <1>13
    <3>6. CASE entry' = entry /\ Paid' > Paid
      BY <3>1, <3>3, <3>4, <3>5, <3>6, <1>0, <1>1 DEF Fees, AttemptsPaid, Covered
    <3>7. CASE entry'.status = "WAITING" /\ entry'.attempt = job.attempt + 1
      BY <3>1, <3>3, <3>4, <3>5, <3>7, <1>0, <1>1, <1>11 DEF Fees, AttemptsPaid
    <3> QED BY <3>3, <3>4, <3>6, <3>7
  <2> QED BY <2>4, <2>5, <2>6
<1>25. CASE Requeue \/ Close
  <2>1. /\ UNCHANGED <<entry, spent, troubles>>
        /\ (job'.step \notin Begun \/ job' = job)
        /\ job'.attempt \in {job.attempt, 1}
        /\ job'.step \in Resting => job.step \in Resting
    BY <1>25, <1>2, <1>3, <1>13, Names DEF Requeue, Close, At, Resting
  <2> QED BY <2>1, <1>0, <1>1, <1>6, <1>8
<1>26. CASE Discard \/ Start \/ UNCHANGED vars
  <2>1. UNCHANGED <<entry, spent, troubles, job>>
    BY <1>26 DEF Discard, Start, vars
  <2> QED BY <2>1, <1>12
<1>27. CASE Certify
  <2>1. \/ /\ entry'.status = "COMPLETED" /\ entry'.attempt = entry.attempt
           /\ entry'.integrity = "VALID" /\ Paid' = Paid
        \/ entry' = entry /\ Paid' = Paid + 1
    <3> DEFINE e == [entry EXCEPT !.status = "COMPLETED", !.integrity = "VALID", !.size = Len(pdf)]
    <3>1. e.status = "COMPLETED" /\ e.attempt = entry.attempt /\ e.integrity = "VALID"
      BY <1>1 DEF Entry
    <3>2. Saves(e) /\ UNCHANGED spent
      BY <1>27 DEF Certify
    <3> HIDE DEF e
    <3> QED BY <3>1, <3>2, <1>7
  <2>2. UNCHANGED job
    BY <1>27 DEF Certify
  <2> QED BY <2>1, <2>2, <1>0, <1>1, <1>8, <1>9, <1>10, <1>11
<1>28. CASE Reject
  <2>1. UNCHANGED job /\ entry'.attempt = entry.attempt
    BY <1>28, <1>1 DEF Reject, Saves, Entry
  <2>2. spent'.attempts = spent.attempts
    BY <1>28, <1>1 DEF Reject, Bookkeeping
  <2>3. \/ spent'.rejected = spent.rejected + 1
        \/ spent'.rejected = spent.rejected /\ spent.rejected >= MaxAttempts - 1
    BY <1>28, <1>1 DEF Reject, Bookkeeping
  <2>4. troubles' >= troubles
    BY <1>28, <1>1 DEF Reject, Saves, Trouble
  <2>5. Paid' >= Paid /\ (Paid' > Paid \/ Paid' >= MaxAttempts - 1)
    BY <2>2, <2>3, <2>4, <1>0, <1>1 DEF Paid
  <2> QED BY <2>1, <2>5, <1>0, <1>1, <1>8, <1>9
<1>29. CASE Discover
  <2>1. /\ UNCHANGED <<entry, spent, troubles>> /\ job.step = "none"
        /\ job'.step = "persist" /\ job'.attempt = 1
    BY <1>29, <1>3 DEF Discover, At
  <2> QED BY <2>1, <1>0, <1>1, <1>6, <1>8, <1>13 DEF Resting
<1>30. CASE Rediscover
  <2>1. UNCHANGED <<job, spent>> /\ job.step = "none"
    BY <1>30 DEF Rediscover, At
  <2>2. \/ /\ entry'.status = Pending(entry).status /\ entry'.attempt = entry.attempt
           /\ Paid' = Paid
        \/ entry' = entry /\ Paid' = Paid + 1
    <3> DEFINE e == [Pending(entry) EXCEPT !.cand = TRUE]
    <3>1. Pending(entry) \in Entry
      BY <1>1, EntryMoves
    <3>2. e.status = Pending(entry).status /\ e.attempt = Pending(entry).attempt
      BY <3>1 DEF Entry
    <3>3. Saves(e) /\ UNCHANGED spent
      BY <1>30 DEF Rediscover
    <3> HIDE DEF e
    <3> QED BY <3>2, <3>3, <1>1, <1>5, <1>7
  <2>3. Pending(entry).status = "RETRY" => entry.status = "RETRY"
    BY <1>1, <1>5, <1>11
  <2> QED BY <2>1, <2>2, <2>3, <1>0, <1>1, <1>8, <1>9, <1>10, <1>13 DEF Resting
<1>31. CASE Count \/ End
  <2>1. UNCHANGED <<job, spent>>
    BY <1>31 DEF Count, End
  <2>2. \/ entry' = entry /\ UNCHANGED troubles
        \/ Saves(Pending(entry)) /\ entry.integrity # "PDF_INVALID"
    BY <1>31 DEF Count, End, Reconcile, Unrecorded
  <2>3. CASE entry' = entry /\ UNCHANGED troubles
    BY <2>1, <2>3, <1>12
  <2>4. CASE Saves(Pending(entry)) /\ entry.integrity # "PDF_INVALID"
    <3>1. /\ Pending(entry).status = "INTEGRITY_PENDING" /\ Pending(entry).attempt = entry.attempt
          /\ Pending(entry).integrity = "PENDING"
      BY <2>4, <1>1, <1>5
    <3> QED BY <2>1, <2>4, <3>1, <1>0, <1>1, <1>7, <1>8, <1>9, <1>10, <1>11
  <2> QED BY <2>2, <2>3, <2>4
<1>32. CASE Recover
  <2>1. job.step = "none" /\ UNCHANGED spent
    BY <1>32 DEF Recover, EndInv, Busy
  <2>2. CASE UNCHANGED job
    <3>1. \/ entry' = entry /\ Paid' >= Paid
          \/ /\ entry'.status # "RETRY" /\ entry'.attempt = entry.attempt
             /\ Paid' >= Paid
      <4>1. troubles' >= troubles
        BY <1>32, <1>1 DEF Recover, Trouble, Saves
      <4>2. Paid' >= Paid
        BY <4>1, <2>1, <1>0, <1>1 DEF Paid
      <4>3. entry' = entry \/ (entry'.status # "RETRY" /\ entry'.attempt = entry.attempt)
        <5> DEFINE checked == [entry EXCEPT !.status = "INTEGRITY_PENDING", !.size = Size,
                                            !.integrity = "PENDING"]
                   waiting == [entry EXCEPT !.status = "WAITING"]
        <5>1. checked.status = "INTEGRITY_PENDING" /\ checked.attempt = entry.attempt
          BY <1>1 DEF Entry
        <5>2. waiting.status = "WAITING" /\ waiting.attempt = entry.attempt
          BY <1>1 DEF Entry
        <5>3. /\ Abandoned(entry).status = "PERMANENTLY_FAILED"
              /\ Abandoned(entry).attempt = entry.attempt
          BY <1>1, <1>5
        <5>4. entry' \in {entry, checked, waiting, Abandoned(entry)}
          BY <1>32 DEF Recover, Saves
        <5> HIDE DEF checked, waiting
        <5> QED BY <5>1, <5>2, <5>3, <5>4
      <4> QED BY <4>2, <4>3
    <3> QED BY <2>1, <2>2, <3>1, <1>0, <1>1, <1>8, <1>9, <1>13 DEF Resting
  <2>3. CASE /\ Restores(entry.attempt + 1) /\ UNCHANGED <<entry, troubles>>
             /\ entry.status = "RETRY" /\ ~Exhausted
    <3>1. job'.step = "persist" /\ job'.attempt = entry.attempt + 1 /\ Paid' = Paid
      BY <2>1, <2>3, <1>3, <1>6 DEF Restores
    <3>2. entry.attempt <= Paid
      BY <2>1, <2>3, <1>1 DEF Fees, Resting, Covered, Exhausted
    <3> QED BY <3>1, <3>2, <2>1, <2>3, <1>1, <1>13 DEF Fees, AttemptsPaid, Covered, Resting
  <2>4. CASE Restores(entry.attempt) /\ Saves([entry EXCEPT !.status = "WAITING"])
    <3> DEFINE e == [entry EXCEPT !.status = "WAITING"]
    <3>1. e.status = "WAITING" /\ e.attempt = entry.attempt
      BY <1>1 DEF Entry
    <3>2. job'.step = "persist" /\ job'.attempt = entry.attempt
      BY <2>4, <1>3 DEF Restores
    <3>3. Saves(e)
      BY <2>4
    <3> HIDE DEF e
    <3> QED BY <3>1, <3>2, <3>3, <2>1, <1>0, <1>1, <1>7, <1>8, <1>9, <1>10, <1>11, <1>13
  <2> QED BY <1>32, <2>2, <2>3, <2>4 DEF Recover, RestoresNone
<1>33. CASE Stop \/ Crash
  <2>1. /\ UNCHANGED <<entry, spent>> /\ Trouble /\ job' \in {job, NoJob}
    BY <1>33 DEF Stop, Crash
  <2> QED BY <2>1, <1>0, <1>1, <1>3, <1>6, <1>8, <1>9, <1>10, <1>13
<1> QED
  BY <1>15, <1>16, <1>17, <1>18, <1>19, <1>20, <1>22, <1>23, <1>24, <1>25, <1>26,
     <1>27, <1>28, <1>29, <1>30, <1>31, <1>32, <1>33, Zenon DEF Next, Worker, Pool, Driver

\* Attempts are paid for, however crashes, dropped records and restarts meet.
THEOREM AttemptsArePaid == Spec => []AttemptsPaid
<1>1. Init => TypeOK /\ FileInv /\ EndInv /\ Fees
  BY FileInit, EndInit, FeesInit
<1>2. (TypeOK /\ FileInv /\ EndInv /\ Fees) /\ [Next]_vars
        => (TypeOK /\ FileInv /\ EndInv /\ Fees)'
  BY TypeStep, FileStep, EndStep, FeesStep
<1>3. Fees => AttemptsPaid
  BY DEF Fees
<1> QED BY <1>1, <1>2, <1>3, PTL DEF Spec

=============================================================================
