-------------------------- MODULE StreamlitProofs --------------------------
(***************************************************************************)
(* Proofs about the Streamlit process: the telemetry of module Dashboard,  *)
(* for every number of documents, workers, validators, runs and attempts,  *)
(* and, in the last part, one attempt of a download worker of module       *)
(* Routes, for every set of links and hosts and every way the pages lead   *)
(* to one another.                                                         *)
(*                                                                         *)
(* The dashboard reads its numbers off a list of events, so the proofs     *)
(* begin with recursion over lists.  The installed provers cannot use the  *)
(* library's induction theorems, which take an operator; here induction is *)
(* over a set (ByInduction), from the well-foundedness of the order of the *)
(* natural numbers.                                                        *)
(*                                                                         *)
(* The inductive invariant speaks of Now, the metrics as they will be when *)
(* this run has consumed what is on the bus, and of the rows as they will  *)
(* be when the workers' reports are drained: those change only with what a *)
(* step publishes, not with when the main thread gets round to it.         *)
(***************************************************************************)
EXTENDS Dashboard, Routes, SequenceTheorems, FiniteSetTheorems, WellFoundedInduction, TLAPS

-----------------------------------------------------------------------------
(* Types                                                                   *)

Stage2Kinds == {"STAGE2_QUEUED", "STAGE2_STARTED", "STAGE2_PENDING", "STAGE2_DUPLICATE_PENDING",
                "STAGE2_APPROVED", "STAGE2_REJECTED", "STAGE2_INVALID"}
DownloadKinds == {"DOWNLOAD_STARTED", "DOWNLOAD_COMPLETED", "DOWNLOAD_FAILED_FOR_ROUND",
                  "DOWNLOAD_PERMANENTLY_FAILED"}
Stage1Kinds == {"STAGE1_STARTED", "STAGE1_APPROVED", "STAGE1_REJECTED", "STAGE1_FAILED"}
Kinds == Stage2Kinds \cup DownloadKinds \cup Stage1Kinds \cup
         {"DOCUMENT_DISCOVERED", "DOWNLOAD_QUEUED", "RECOVERY_QUEUED", "LOCAL_PDF_REUSED", "DUPLICATE_DETECTED"}
Message == {e \in [kind : Kinds, run : 1..MaxRuns, doc : Doc \cup {NoDoc}, n : Nat, again : BOOLEAN] :
              e.kind \in Stage2Kinds => e.doc \in Doc}

Metrics == [existing : Nat, discovered : Nat, stage1Pending : Nat, stage1Approved : Nat,
            stage1Rejected : Nat, queued : Nat, recovery : Nat, downloading : Nat, stored : Nat,
            failed : Nat, permanent : Nat, stage2 : [Phases -> Nat],
            inflight : [Doc -> Phases \cup {"none"}],
            approved : Nat, rejected : Nat, invalid : Nat, duplicates : Nat]

RowStates == {"IDLE", "BUSY", "COMPLETED", "RECOVERY_WAIT", "PERMANENTLY_FAILED"}
Statuses == {"none", "OPEN", "COMPLETED", "FAILED_FOR_ROUND", "PERMANENTLY_FAILED", "STAGE1_REJECTED"}
Rulings == Verdicts \cup {"", "QUEUED", "PENDING", "RUNNING", "DUPLICATE_PENDING"}
Entry == [status : Statuses, told : Statuses, attempt : 0..MaxAttempts, run : 0..MaxRuns, local : BOOLEAN,
          verdict : Rulings, hashed : BOOLEAN, copyOf : Doc \cup {NoDoc}]
Results == {"success", "failure"}
TurnSteps == {"idle", "taken", "working", "announce", "landed", "ended"}
Turn == [step : TurnSteps, job : Job \cup {NoDoc}, result : Results]
Places == {"over", "done", "restore", "announce", "page", "turn", "stage1", "approve", "admit",
           "put", "emit", "last", "drain", "rounds", "retry", "closing"}

BusOK == bus \in Seq(Message) /\ net \in Seq([worker : Worker, state : RowStates])
ViewOK == metrics \in Metrics /\ rows \in [Worker -> RowStates]
MainOK == run \in 0..MaxRuns /\ pc \in Places /\ drain \in {"no", "bus"} /\ backlog \subseteq Job
PoolOK == /\ jobs \in Seq(Job) /\ outcomes \in Seq([job : Job, result : Results])
          /\ turn \in [Worker -> Turn] /\ \A w \in Active : turn[w].job \in Job
Stage2OK == stage2Queue \in Seq(Doc) /\ judge \in [Validator -> Doc \cup {NoDoc}]
LedgerOK == ledger \in [Doc -> Entry]

\* What the main thread has before it: documents or jobs.
Retrying == pc = "retry" \/ (pc \in {"put", "emit"} /\ item.again)
ItemsOK ==
  /\ pc \in {"restore", "announce"} => items \subseteq Doc
  /\ pc = "announce" => item \in Doc
  /\ pc \in {"stage1", "approve", "admit"} => items \subseteq New
  /\ pc \in {"put", "emit"} => item \in Job
  /\ pc \in {"put", "emit"} /\ ~item.again => items \subseteq New
  /\ Retrying => items \subseteq Job

DashboardTypes == BusOK /\ ViewOK /\ MainOK /\ PoolOK /\ Stage2OK /\ LedgerOK /\ ItemsOK

-----------------------------------------------------------------------------
(* Documents and their jobs                                                *)

Fits(book, j) == book[j.doc].run = j.run /\ book[j.doc].attempt = j.attempt
Open(book, j) == Fits(book, j) /\ book[j.doc].told = "OPEN"
Settled(book, j, result) ==
  /\ Fits(book, j)
  /\ book[j.doc].told = IF result = "success" THEN "COMPLETED"
                          ELSE IF j.attempt >= MaxAttempts THEN "PERMANENTLY_FAILED"
                          ELSE "FAILED_FOR_ROUND"

InTurn == {turn[w].job.doc : w \in Active}
InQueue == {jobs[i].doc : i \in DOMAIN jobs}
Reported == {outcomes[i].job.doc : i \in DOMAIN outcomes}

PoolFits ==
  /\ \A i \in DOMAIN jobs : Open(ledger, jobs[i])
  /\ \A w \in Active :
       /\ turn[w].step \in {"taken", "working"} => Open(ledger, turn[w].job)
       /\ turn[w].step = "working" => ~ledger[turn[w].job.doc].local
       /\ turn[w].step \in {"announce", "landed"} => Settled(ledger, turn[w].job, "success")
       /\ turn[w].step = "ended" => Settled(ledger, turn[w].job, turn[w].result)
       /\ turn[w].step # "ended" => turn[w].result = "success"
  /\ \A i \in DOMAIN outcomes : Settled(ledger, outcomes[i].job, outcomes[i].result)

OneJob ==
  /\ \A i, k \in DOMAIN jobs : jobs[i].doc = jobs[k].doc => i = k
  /\ \A v, w \in Active : turn[v].job.doc = turn[w].job.doc => v = w
  /\ \A i, k \in DOMAIN outcomes : outcomes[i].job.doc = outcomes[k].job.doc => i = k
  /\ InQueue \cap InTurn = {} /\ InQueue \cap Reported = {} /\ InTurn \cap Reported = {}

InPool == InQueue \cup InTurn \cup Reported

Unended == {"OPEN", "FAILED_FOR_ROUND"}
Begun == {"OPEN", "FAILED_FOR_ROUND", "COMPLETED", "PERMANENTLY_FAILED"}
Waits(j) == /\ ledger[j.doc].run = j.run /\ ledger[j.doc].told \in Unended
            /\ j.doc \notin InPool /\ j.again

Behind == /\ \A j \in backlog : Waits(j)
          /\ \A j, k \in backlog : j.doc = k.doc => j = k
Ahead == Retrying => /\ \A j \in items : Waits(j)
                     /\ \A j, k \in items : j.doc = k.doc => j = k
                     /\ \A j \in items, k \in backlog : j.doc # k.doc
AtHand == pc = "put" => /\ Open(ledger, item) /\ item.doc \notin InPool
                        /\ \A k \in backlog : k.doc # item.doc
                        /\ item.again => \A k \in items : k.doc # item.doc
Later == Behind /\ Ahead /\ AtHand

Runs == /\ \A d \in Doc : /\ ledger[d].run <= run
                          /\ ledger[d].told \in Begun => ledger[d].run # 0 /\ ledger[d].attempt # 0
                          /\ ledger[d].told = "FAILED_FOR_ROUND" => ledger[d].attempt < MaxAttempts
        /\ \A i \in DOMAIN bus : bus[i].run <= run
        /\ pc \in {"put", "emit"} => item.run <= run
        /\ pc # "over" => run # 0

\* A dropped write leaves a record behind what was told, but never far: the
\* document was queued, and its record says that it is open or has its PDF.
Near(record) == \/ record.status = record.told
                \/ record.told \in Begun /\ record.status \in {"OPEN", "COMPLETED"}
Lags == \A d \in Doc : Near(ledger[d])

\* Stage 2 hears only of documents that were queued.
InValidation(d) == \/ InStage2(d) \/ ledger[d].copyOf # NoDoc
                   \/ pc \in {"restore", "announce"} /\ d \in items
                   \/ pc = "announce" /\ d = item
Handed == \A d \in Doc : InValidation(d) => ledger[d].told \in Begun
Records == Lags /\ Handed

Quiet ==
  /\ pc = "closing" => jobs = <<>>
  /\ pc \in {"last", "rounds", "done", "over"} => jobs = <<>> /\ Active = {}
  /\ pc \in {"rounds", "done", "over"} \/ (pc = "last" /\ drain = "bus") => outcomes = <<>>

PlacesInv ==
  PoolFits /\ OneJob /\ (pc \notin {"closing", "over", "done"} => Later) /\ Runs /\ Quiet /\ Records

-----------------------------------------------------------------------------
(* The counters, with what is still on the bus                             *)

Now == Metered(metrics, bus, run)

Own2(d) == ledger[d].run = run /\ ~ledger[d].local
Credited == {d \in Doc : /\ ledger[d].told = "COMPLETED" /\ Own2(d)
                         /\ \A w \in Worker : turn[w].step \in {"announce", "landed"} => turn[w].job.doc # d}
GivenUp == {d \in Doc : ledger[d].told = "PERMANENTLY_FAILED" /\ Own2(d)}

Counts ==
  /\ Now.downloading = Cardinality(Downloading)
  /\ Now.stored = Cardinality(Credited)
  /\ Now.permanent = Cardinality(GivenUp)
  /\ pc \notin {"closing", "over"} =>
       Now.stage1Pending = IF pc = "stage1" THEN Cardinality(items) ELSE 0
CountInv == Counts /\ CountsAgree

Sized(m) == \A k \in Phases : m.stage2[k] = Cardinality({d \in Doc : m.inflight[d] = k})
Ruled ==
  \A d \in Doc :
    /\ Now.inflight[d] # "none" => ledger[d].run = run
    /\ Now.inflight[d] = "running" /\ ledger[d].verdict \in Verdicts => \E v \in Validator : judge[v] = d
Stage2Inv == Sized(metrics) /\ Sized(Now) /\ Ruled

RowsInv ==
  \A w \in Worker :
    AllPresented(rows, net)[w] = "BUSY" <=>
      turn[w].step \in {"working", "announce", "landed"} /\ ~ledger[turn[w].job.doc].local

-----------------------------------------------------------------------------
(* Induction                                                               *)

\* The natural numbers are well ordered, hence a set that holds zero and with
\* each number the next one holds all of them.
LEMMA LeastNumber ==
  ASSUME NEW T \in SUBSET Nat, T # {}
  PROVE  \E n \in T : \A m \in T : n <= m
<1> DEFINE Less == OpToRel(<, Nat)
<1>1. \A a, b \in Nat : a < b => <<a, b>> \in Less
  BY DEF OpToRel
<1>2. IsWellFoundedOn(Less, Nat)
  BY NatLessThanWellFounded
<1> HIDE DEF Less
<1>3. PICK n \in T : \A m \in T : <<m, n>> \notin Less
  BY <1>2, WFMin
<1>4. \A m \in T : ~(m < n)
  BY <1>1, <1>3
<1>5. \A m \in T : n <= m
  BY <1>4
<1> QED BY <1>5

\* Induction up to a bound, over a set instead of an operator.
LEMMA ByInduction ==
  ASSUME NEW S, NEW n \in Nat, 0 \in S, \A k \in 0..n : k \in S /\ k < n => k + 1 \in S
  PROVE  0..n \subseteq S
<1> SUFFICES ASSUME (0..n) \ S # {} PROVE FALSE
  OBVIOUS
<1>1. PICK k \in (0..n) \ S : \A m \in (0..n) \ S : k <= m
  <2>1. (0..n) \ S \in SUBSET Nat
    OBVIOUS
  <2> QED BY <2>1, LeastNumber
<1>2. k # 0 /\ k - 1 \in 0..n /\ k - 1 < n /\ k - 1 \in S /\ (k - 1) + 1 = k
  BY <1>1
<1> QED BY <1>1, <1>2

\* f starts with the base and takes a step for each place.
RunsOver(f, n, base, step) ==
  f[0] = base /\ \A i \in 1..n : f[i] = step[i][f[i - 1]]

\* A recursion whose steps stay in a set stays in it.
LEMMA RunStays ==
  ASSUME NEW S, NEW base \in S, NEW n \in Nat, NEW step,
         \A x \in S, i \in 1..n : step[i][x] \in S, NEW f,
         f[0] = base, \A i \in 1..n : f[i - 1] \in S => f[i] = step[i][f[i - 1]]
  PROVE  \A i \in 0..n : f[i] \in S
<1> DEFINE K == {k \in 0..n : f[k] \in S}
<1>1. 0 \in K
  OBVIOUS
<1>2. ASSUME NEW k \in 0..n, k \in K, k < n PROVE k + 1 \in K
  <2>1. k + 1 \in 1..n /\ (k + 1) - 1 = k
    BY <1>2
  <2>2. f[k + 1] = step[k + 1][f[k]]
    BY <1>2, <2>1
  <2> QED BY <1>2, <2>1, <2>2
<1>3. 0..n \subseteq K
  <2> HIDE DEF K
  <2> QED BY <1>1, <1>2, ByInduction
<1> QED BY <1>3

\* So a recursion up to a bound has a function that obeys it.
LEMMA RunExists ==
  ASSUME NEW S, NEW base \in S, NEW n \in Nat, NEW step,
         \A x \in S, i \in 1..n : step[i][x] \in S
  PROVE  \E f \in [0..n -> S] : RunsOver(f, n, base, step)
<1> DEFINE Upto(f, k) == RunsOver(f, k, base, step)
           K == {k \in 0..n : \E f \in [0..k -> S] : Upto(f, k)}
<1>1. 0 \in K
  <2> DEFINE g == [i \in 0..0 |-> base]
  <2>1. Upto(g, 0)
    BY DEF RunsOver
  <2>2. g \in [0..0 -> S]
    OBVIOUS
  <2>3. 0 \in 0..n
    OBVIOUS
  <2> HIDE DEF g, Upto
  <2> QED BY <2>1, <2>2, <2>3
<1>2. ASSUME NEW k \in 0..n, k \in K, k < n PROVE k + 1 \in K
  <2>1. PICK f \in [0..k -> S] : Upto(f, k)
    BY <1>2
  <2> DEFINE g == [i \in 0..(k + 1) |-> IF i = k + 1 THEN step[i][f[k]] ELSE f[i]]
  <2>2. f[k] \in S /\ step[k + 1][f[k]] \in S
    BY <1>2
  <2>3. g \in [0..(k + 1) -> S]
    BY <2>2
  <2>4. ASSUME NEW i \in 0..(k + 1) PROVE g[i] = IF i = 0 THEN base ELSE step[i][g[i - 1]]
    <3>1. CASE i = k + 1
      BY <3>1
    <3>2. CASE i # k + 1
      <4>1. i \in 0..k /\ f[i] = IF i = 0 THEN base ELSE step[i][f[i - 1]]
        BY <2>1, <3>2 DEF RunsOver
      <4> QED BY <3>2, <4>1
    <3> QED BY <3>1, <3>2
  <2>5. Upto(g, k + 1)
    BY <2>3, <2>4 DEF RunsOver
  <2> HIDE DEF g, Upto
  <2>6. k + 1 \in 0..n
    BY <1>2
  <2> QED BY <2>3, <2>5, <2>6
<1>3. 0..n \subseteq K
  <2> HIDE DEF K
  <2> QED BY <1>1, <1>2, ByInduction
<1> QED BY <1>3

\* Two runs that take the same steps for a while are the same for that while.
Stays(f, n, S) == \A i \in 0..n : f[i] \in S
Steps(f, n, S, step) == \A i \in 1..n : f[i - 1] \in S => f[i] = step[i][f[i - 1]]
Alongside(f, g, n, S, step) ==
  f[0] = g[0] /\ Stays(f, n, S) /\ Steps(f, n, S, step) /\ Steps(g, n, S, step)

\* Two functions that obey one recursion are equal up to its bound.
LEMMA RunsAgree ==
  ASSUME NEW S, NEW n \in Nat, NEW step, NEW f, NEW g,
         Alongside(f, g, n, S, step)
  PROVE  \A i \in 0..n : f[i] = g[i]
<1> USE DEF Alongside
<1> DEFINE K == {k \in 0..n : f[k] = g[k]}
<1>1. 0 \in K
  OBVIOUS
<1>2. ASSUME NEW k \in 0..n, k \in K, k < n PROVE k + 1 \in K
  <2>1. k + 1 \in 1..n /\ (k + 1) - 1 = k
    BY <1>2
  <2>2. f[k] \in S /\ g[k] = f[k]
    BY <1>2 DEF Stays
  <2>3. f[k + 1] = step[k + 1][f[k]] /\ g[k + 1] = step[k + 1][g[k]]
    BY <2>1, <2>2 DEF Steps
  <2> QED BY <1>2, <2>1, <2>2, <2>3
<1>3. 0..n \subseteq K
  <2> HIDE DEF K
  <2> QED BY <1>1, <1>2, ByInduction
<1> QED BY <1>3

\* The elements of a sequence over S are in S.
LEMMA ElementType ==
  ASSUME NEW S, NEW s \in Seq(S), NEW i \in DOMAIN s
  PROVE  s[i] \in S
OBVIOUS

-----------------------------------------------------------------------------
(* What consuming events does                                              *)

\* The Stage 2 counters stay counters.
LEMMA Stage2Type ==
  ASSUME NEW m \in Metrics, NEW d \in Doc
  PROVE  /\ \A phase \in Phases : SetStage2(m, d, phase) \in Metrics
         /\ CompleteStage2(m, d) \in Metrics
<1>1. m.stage2 \in [Phases -> Nat] /\ m.inflight \in [Doc -> Phases \cup {"none"}]
  BY DEF Metrics
<1> DEFINE With(t, s) == [m EXCEPT !.inflight = t, !.stage2 = s]
<1>2. \A s \in [Phases -> Nat], t \in [Doc -> Phases \cup {"none"}] : With(t, s) \in Metrics
  BY DEF Metrics
<1>3. ASSUME NEW phase \in Phases PROVE SetStage2(m, d, phase) \in Metrics
  <2> DEFINE t == [m.inflight EXCEPT ![d] = phase]
             s == [k \in Phases |-> IF k = phase THEN m.stage2[k] + 1
                         ELSE IF k = m.inflight[d] THEN Minus(m.stage2[k], 1) ELSE m.stage2[k]]
  <2>1. t \in [Doc -> Phases \cup {"none"}]
    BY <1>1
  <2>2. s \in [Phases -> Nat]
    BY <1>1 DEF Minus
  <2>3. CASE m.inflight[d] = phase
    BY <2>3 DEF SetStage2
  <2>4. CASE m.inflight[d] # phase
    <3>1. SetStage2(m, d, phase) = With(t, s)
      BY <2>4 DEF SetStage2
    <3> HIDE DEF s, t, With
    <3> QED BY <1>2, <2>1, <2>2, <3>1
  <2> QED BY <2>3, <2>4
<1>4. CompleteStage2(m, d) \in Metrics
  <2> DEFINE t == [m.inflight EXCEPT ![d] = "none"]
             s == [k \in Phases |-> IF k = m.inflight[d] THEN Minus(m.stage2[k], 1) ELSE m.stage2[k]]
  <2>1. t \in [Doc -> Phases \cup {"none"}]
    BY <1>1
  <2>2. s \in [Phases -> Nat]
    BY <1>1 DEF Minus
  <2>3. CompleteStage2(m, d) = With(t, s)
    BY DEF CompleteStage2
  <2> HIDE DEF s, t, With
  <2> QED BY <1>2, <2>1, <2>2, <2>3
<1> QED BY <1>3, <1>4

\* RunMetrics.consume keeps the metrics metrics.
LEMMA ConsumedType ==
  ASSUME NEW m \in Metrics, NEW e \in Message
  PROVE  Consumed(m, e) \in Metrics
<1>1. e.n \in Nat
  BY DEF Message
<1>2. \A a \in Nat : Minus(a, e.n) \in Nat /\ a + e.n \in Nat
  BY <1>1 DEF Minus
<1>3. e.kind \in Stage2Kinds => e.doc \in Doc
  BY DEF Message, Stage2Kinds
<1>4. CASE e.kind = "DOCUMENT_DISCOVERED"
  <2>1. Consumed(m, e) = [m EXCEPT !.discovered = @ + e.n]
    BY <1>4 DEF Consumed
  <2> QED BY <1>2, <2>1 DEF Metrics
<1>5. CASE e.kind = "STAGE1_STARTED"
  <2>1. Consumed(m, e) = [m EXCEPT !.stage1Pending = @ + e.n]
    BY <1>5 DEF Consumed
  <2> QED BY <1>2, <2>1 DEF Metrics
<1>6. CASE e.kind = "STAGE1_APPROVED"
  <2>1. Consumed(m, e) = [m EXCEPT !.stage1Pending = Minus(@, e.n), !.stage1Approved = @ + e.n]
    BY <1>6 DEF Consumed
  <2> QED BY <1>2, <2>1 DEF Metrics
<1>7. CASE e.kind = "STAGE1_REJECTED"
  <2>1. Consumed(m, e) = [m EXCEPT !.stage1Pending = Minus(@, e.n), !.stage1Rejected = @ + e.n]
    BY <1>7 DEF Consumed
  <2> QED BY <1>2, <2>1 DEF Metrics
<1>8. CASE e.kind = "STAGE1_FAILED"
  <2>1. Consumed(m, e) = [m EXCEPT !.stage1Pending = Minus(@, e.n)]
    BY <1>8 DEF Consumed
  <2> QED BY <1>2, <2>1 DEF Metrics
<1>9. CASE e.kind = "DOWNLOAD_QUEUED"
  <2>1. Consumed(m, e) = [m EXCEPT !.queued = @ + e.n]
    BY <1>9 DEF Consumed
  <2> QED BY <1>2, <2>1 DEF Metrics
<1>10. CASE e.kind = "DOWNLOAD_STARTED"
  <2>1. Consumed(m, e) = [m EXCEPT !.queued = Minus(@, e.n),
                                     !.recovery = IF e.again THEN Minus(@, e.n) ELSE @,
                                     !.downloading = @ + e.n]
    BY <1>10 DEF Consumed
  <2> DEFINE again == IF e.again THEN Minus(m.recovery, e.n) ELSE m.recovery
  <2>2. Consumed(m, e) = [m EXCEPT !.queued = Minus(m.queued, e.n), !.recovery = again,
                                   !.downloading = m.downloading + e.n]
    BY <2>1
  <2>3. Minus(m.queued, e.n) \in Nat /\ m.downloading + e.n \in Nat /\ again \in Nat
    BY <1>2 DEF Metrics
  <2> HIDE DEF again
  <2> QED BY <2>2, <2>3 DEF Metrics
<1>11. CASE e.kind = "DOWNLOAD_COMPLETED"
  <2>1. Consumed(m, e) = [m EXCEPT !.downloading = Minus(@, e.n), !.stored = @ + e.n]
    BY <1>11 DEF Consumed
  <2> QED BY <1>2, <2>1 DEF Metrics
<1>12. CASE e.kind = "DOWNLOAD_FAILED_FOR_ROUND"
  <2>1. Consumed(m, e) = [m EXCEPT !.downloading = Minus(@, e.n), !.failed = @ + e.n]
    BY <1>12 DEF Consumed
  <2> QED BY <1>2, <2>1 DEF Metrics
<1>13. CASE e.kind = "DOWNLOAD_PERMANENTLY_FAILED"
  <2>1. Consumed(m, e) = [m EXCEPT !.downloading = Minus(@, e.n), !.permanent = @ + e.n]
    BY <1>13 DEF Consumed
  <2> QED BY <1>2, <2>1 DEF Metrics
<1>14. CASE e.kind = "RECOVERY_QUEUED"
  <2>1. Consumed(m, e) = [m EXCEPT !.recovery = @ + e.n]
    BY <1>14 DEF Consumed
  <2> QED BY <1>2, <2>1 DEF Metrics
<1>15. CASE e.kind = "DUPLICATE_DETECTED"
  <2>1. Consumed(m, e) = [m EXCEPT !.duplicates = @ + e.n]
    BY <1>15 DEF Consumed
  <2> QED BY <1>2, <2>1 DEF Metrics
<1>16. CASE e.kind \in Stage2Kinds
  <2> DEFINE c == CompleteStage2(m, e.doc)
  <2>1. c \in Metrics /\ \A phase \in Phases : SetStage2(m, e.doc, phase) \in Metrics
    BY <1>3, <1>16, Stage2Type
  <2>2. \/ Consumed(m, e) \in {[c EXCEPT !.approved = @ + e.n], [c EXCEPT !.rejected = @ + e.n],
                               [c EXCEPT !.invalid = @ + e.n]}
        \/ \E phase \in Phases : Consumed(m, e) = SetStage2(m, e.doc, phase)
    BY <1>16 DEF Consumed, Stage2Kinds, Phases
  <2> HIDE DEF c
  <2>3. [c EXCEPT !.approved = @ + e.n] \in Metrics
    BY <1>2, <2>1 DEF Metrics
  <2>4. [c EXCEPT !.rejected = @ + e.n] \in Metrics
    BY <1>2, <2>1 DEF Metrics
  <2>5. [c EXCEPT !.invalid = @ + e.n] \in Metrics
    BY <1>2, <2>1 DEF Metrics
  <2> QED BY <2>1, <2>2, <2>3, <2>4, <2>5
<1>17. CASE Consumed(m, e) = m
  BY <1>17
<1> QED
  BY <1>4, <1>5, <1>6, <1>7, <1>8, <1>9, <1>10, <1>11, <1>12, <1>13, <1>14, <1>15, <1>16, <1>17
     DEF Consumed, Stage2Kinds

\* A sequence of values, the first m and each next one consumed from it, ends
\* with the metrics.
Fed(f, m, es, r) ==
  f[0] = m /\ \A i \in 1..Len(es) : f[i] = IF Own(es[i], r) THEN Consumed(f[i - 1], es[i]) ELSE f[i - 1]

\* The metrics after each event of a list: what Metered computes, step by step.
LEMMA MeteredRun ==
  ASSUME NEW m \in Metrics, NEW es \in Seq(Message), NEW r
  PROVE  \E f \in [0..Len(es) -> Metrics] : Fed(f, m, es, r) /\ Metered(m, es, r) = f[Len(es)]
<1> DEFINE n == Len(es)
           step == [i \in 1..n |-> [x \in Metrics |-> IF Own(es[i], r) THEN Consumed(x, es[i]) ELSE x]]
           Body(f) == [i \in 0..n |-> IF i = 0 THEN m
                             ELSE IF Own(es[i], r) THEN Consumed(f[i - 1], es[i]) ELSE f[i - 1]]
           chosen == CHOOSE f : f = Body(f)
<1>1. n \in Nat /\ \A i \in 1..n : es[i] \in Message
  OBVIOUS
<1>2. \A x \in Metrics, i \in 1..n : step[i][x] \in Metrics
  BY <1>1, ConsumedType
<1>3. \E f \in [0..n -> Metrics] : RunsOver(f, n, m, step)
  <2> HIDE DEF step, n
  <2> QED BY <1>1, <1>2, RunExists
<1>4. PICK f \in [0..n -> Metrics] : f[0] = m /\ \A i \in 1..n : f[i] = step[i][f[i - 1]]
  BY <1>3 DEF RunsOver
<1>5. \A i \in 0..n : f[i] = Body(f)[i]
  <2> TAKE i \in 0..n
  <2>1. CASE i = 0
    BY <1>4, <2>1
  <2>2. CASE i # 0
    <3>1. i \in 1..n /\ f[i - 1] \in Metrics
      BY <1>1, <2>2
    <3> QED BY <1>4, <2>2, <3>1
  <2> QED BY <2>1, <2>2
<1>6. f = Body(f)
  BY <1>5
<1>7. chosen = Body(chosen) /\ Metered(m, es, r) = chosen[n]
  BY <1>6 DEF Metered
<1>8. chosen[0] = m
  <2> HIDE DEF chosen
  <2> QED BY <1>1, <1>7
<1>9. ASSUME NEW i \in 1..n, chosen[i - 1] \in Metrics PROVE chosen[i] = step[i][chosen[i - 1]]
  <2>1. chosen[i] = Body(chosen)[i]
    <3> HIDE DEF Body, chosen
    <3> QED BY <1>7
  <2>2. i \in 0..n /\ i # 0
    BY <1>1
  <2> HIDE DEF chosen
  <2> QED BY <1>9, <2>1, <2>2
<1>10. \A i \in 0..n : f[i] = chosen[i]
  <2>1. Stays(f, n, Metrics) /\ Steps(f, n, Metrics, step) /\ Steps(chosen, n, Metrics, step)
    BY <1>1, <1>4, <1>9 DEF Stays, Steps
  <2>2. f[0] = chosen[0]
    BY <1>4, <1>8
  <2>3. Alongside(f, chosen, n, Metrics, step)
    BY <2>1, <2>2 DEF Alongside
  <2> HIDE DEF step, n, chosen
  <2> QED BY <1>1, <2>3, RunsAgree
<1>11. Metered(m, es, r) = f[n]
  BY <1>1, <1>7, <1>10
<1>12. \A i \in 1..n : f[i] = IF Own(es[i], r) THEN Consumed(f[i - 1], es[i]) ELSE f[i - 1]
  <2> TAKE i \in 1..n
  <2>1. i \in 0..n /\ i # 0
    BY <1>1
  <2> QED BY <1>5, <2>1
<1>13. Fed(f, m, es, r)
  BY <1>4, <1>12 DEF Fed
<1> QED BY <1>11, <1>13

\* No events, no change.
LEMMA MeteredNothing ==
  ASSUME NEW m \in Metrics, NEW r
  PROVE  Metered(m, <<>>, r) = m
<1>1. <<>> \in Seq(Message) /\ Len(<<>>) = 0
  OBVIOUS
<1>2. PICK f \in [0..0 -> Metrics] : Fed(f, m, <<>>, r) /\ Metered(m, <<>>, r) = f[0]
  BY <1>1, MeteredRun
<1> QED BY <1>2 DEF Fed

\* Metrics stay metrics through any list of events.
LEMMA MeteredType ==
  ASSUME NEW m \in Metrics, NEW es \in Seq(Message), NEW r
  PROVE  Metered(m, es, r) \in Metrics
<1>1. PICK f \in [0..Len(es) -> Metrics] : Metered(m, es, r) = f[Len(es)]
  BY MeteredRun
<1> QED BY <1>1

\* What every event after the k-th keeps, the metrics keep from there on.
LEMMA FedFrom ==
  ASSUME NEW m \in Metrics, NEW es \in Seq(Message), NEW r, NEW f \in [0..Len(es) -> Metrics],
         Fed(f, m, es, r), NEW k \in 0..Len(es), NEW S, f[k] \in S,
         \A i \in 1..Len(es), x \in Metrics :
           i > k /\ x \in S /\ Own(es[i], r) => Consumed(x, es[i]) \in S
  PROVE  f[Len(es)] \in S
<1> DEFINE n == Len(es)
           K == {i \in 0..n : i >= k => f[i] \in S}
<1>1. n \in Nat
  OBVIOUS
<1>2. 0 \in K
  <2>1. 0 >= k => k = 0
    BY <1>1
  <2> QED BY <1>1, <2>1
<1>3. ASSUME NEW i \in 0..n, i \in K, i < n PROVE i + 1 \in K
  <2>1. i + 1 \in 1..n /\ (i + 1) - 1 = i /\ i + 1 \in 0..n
    BY <1>1, <1>3
  <2>2. f[i + 1] = IF Own(es[i + 1], r) THEN Consumed(f[i], es[i + 1]) ELSE f[i]
    BY <2>1 DEF Fed
  <2>3. CASE i >= k
    <3>1. f[i] \in S /\ f[i] \in Metrics /\ i + 1 > k
      BY <1>3, <2>3
    <3>2. f[i + 1] \in S
      BY <2>1, <2>2, <3>1
    <3> QED BY <2>1, <3>2
  <2>4. CASE ~(i >= k)
    <3>1. i + 1 >= k => i + 1 = k
      BY <1>1, <2>4
    <3> QED BY <2>1, <3>1
  <2> QED BY <2>3, <2>4
<1>4. 0..n \subseteq K
  <2> HIDE DEF K, n
  <2> QED BY <1>1, <1>2, <1>3, ByInduction
<1>5. n \in K /\ n >= k
  BY <1>1, <1>4
<1> QED BY <1>5

\* Feeding two sequences one after the other passes through the first's.
LEMMA MeteredPrefix ==
  ASSUME NEW m \in Metrics, NEW es \in Seq(Message), NEW ts \in Seq(Message), NEW r
  PROVE  \E f \in [0..Len(es \o ts) -> Metrics] :
           /\ Fed(f, m, es \o ts, r)
           /\ Metered(m, es, r) = f[Len(es)] /\ Metered(m, es \o ts, r) = f[Len(es \o ts)]
<1> DEFINE all == es \o ts
           n == Len(es)
           step == [i \in 1..n |-> [x \in Metrics |-> IF Own(es[i], r) THEN Consumed(x, es[i]) ELSE x]]
<1>1. all \in Seq(Message) /\ Len(all) = n + Len(ts) /\ n \in Nat /\ Len(ts) \in Nat
  OBVIOUS
<1>2. PICK f \in [0..Len(all) -> Metrics] : Fed(f, m, all, r) /\ Metered(m, all, r) = f[Len(all)]
  <2> HIDE DEF all
  <2> QED BY <1>1, MeteredRun
<1>3. PICK g \in [0..n -> Metrics] : Fed(g, m, es, r) /\ Metered(m, es, r) = g[n]
  BY MeteredRun
<1>4. f[0] = g[0]
  BY <1>2, <1>3 DEF Fed
<1>5. Stays(f, n, Metrics)
  BY <1>1 DEF Stays
<1>6. Steps(f, n, Metrics, step)
  <2> SUFFICES ASSUME NEW i \in 1..n, f[i - 1] \in Metrics PROVE f[i] = step[i][f[i - 1]]
    BY DEF Steps
  <2>1. i \in 1..Len(all) /\ all[i] = es[i]
    BY <1>1
  <2>2. f[i] = IF Own(es[i], r) THEN Consumed(f[i - 1], es[i]) ELSE f[i - 1]
    <3> HIDE DEF all
    <3> QED BY <1>2, <2>1 DEF Fed
  <2> HIDE DEF all
  <2> QED BY <2>2
<1>7. Steps(g, n, Metrics, step)
  BY <1>3 DEF Steps, Fed
<1>8. \A i \in 0..n : f[i] = g[i]
  <2>1. Alongside(f, g, n, Metrics, step)
    BY <1>4, <1>5, <1>6, <1>7 DEF Alongside
  <2> HIDE DEF all, step, n
  <2> QED BY <1>1, <2>1, RunsAgree
<1>9. Metered(m, es, r) = f[n]
  BY <1>1, <1>3, <1>8
<1> QED BY <1>2, <1>9

\* What each further event keeps, the further events keep.
LEMMA MeteredKeeps ==
  ASSUME NEW m \in Metrics, NEW es \in Seq(Message), NEW ts \in Seq(Message), NEW r, NEW S,
         Metered(m, es, r) \in S,
         \A i \in 1..Len(ts), x \in Metrics :
           x \in S /\ Own(ts[i], r) => Consumed(x, ts[i]) \in S
  PROVE  Metered(m, es \o ts, r) \in S
<1> DEFINE all == es \o ts
           n == Len(es)
<1>1. all \in Seq(Message) /\ Len(all) = n + Len(ts) /\ n \in Nat /\ Len(ts) \in Nat
  OBVIOUS
<1>2. PICK f \in [0..Len(all) -> Metrics] :
        Fed(f, m, all, r) /\ Metered(m, es, r) = f[n] /\ Metered(m, all, r) = f[Len(all)]
  BY MeteredPrefix
<1>3. ASSUME NEW i \in 1..Len(all), NEW x \in Metrics, i > n, x \in S, Own(all[i], r)
      PROVE  Consumed(x, all[i]) \in S
  <2>1. i - n \in 1..Len(ts) /\ all[i] = ts[i - n]
    BY <1>1, <1>3
  <2> QED BY <1>3, <2>1
<1>4. n \in 0..Len(all) /\ f[n] \in S
  BY <1>1, <1>2
<1>5. f[Len(all)] \in S
  <2> HIDE DEF all, n
  <2> QED BY <1>1, <1>2, <1>3, <1>4, FedFrom
<1> QED BY <1>2, <1>5

\* What one event establishes and the later ones keep holds at the end.
LEMMA MeteredReaches ==
  ASSUME NEW m \in Metrics, NEW es \in Seq(Message), NEW r, NEW S,
         NEW k \in 1..Len(es), Own(es[k], r), \A x \in Metrics : Consumed(x, es[k]) \in S,
         \A i \in 1..Len(es), x \in Metrics :
           i > k /\ x \in S /\ Own(es[i], r) => Consumed(x, es[i]) \in S
  PROVE  Metered(m, es, r) \in S
<1>1. PICK f \in [0..Len(es) -> Metrics] : Fed(f, m, es, r) /\ Metered(m, es, r) = f[Len(es)]
  BY MeteredRun
<1>2. k \in 0..Len(es) /\ k - 1 \in 0..Len(es)
  OBVIOUS
<1>3. f[k] = Consumed(f[k - 1], es[k]) /\ f[k - 1] \in Metrics
  BY <1>1, <1>2 DEF Fed
<1>4. f[k] \in S
  BY <1>3
<1>5. f[Len(es)] \in S
  BY <1>1, <1>2, <1>4, FedFrom
<1> QED BY <1>1, <1>5

\* One more event.
LEMMA MeteredAppend ==
  ASSUME NEW m \in Metrics, NEW es \in Seq(Message), NEW e \in Message, NEW r
  PROVE  Metered(m, es \o <<e>>, r) =
           IF Own(e, r) THEN Consumed(Metered(m, es, r), e) ELSE Metered(m, es, r)
<1> DEFINE n == Len(es)
<1>0. <<e>> \in Seq(Message)
  OBVIOUS
<1> SUFFICES ASSUME NEW ts \in Seq(Message), ts = <<e>>
             PROVE  Metered(m, es \o ts, r) =
                      IF Own(e, r) THEN Consumed(Metered(m, es, r), e) ELSE Metered(m, es, r)
  BY <1>0, Zenon
<1>1. /\ Len(es \o ts) = n + 1 /\ n \in Nat /\ (es \o ts)[n + 1] = e
      /\ n + 1 \in 1..Len(es \o ts) /\ (n + 1) - 1 = n
  OBVIOUS
<1>2. PICK f \in [0..Len(es \o ts) -> Metrics] :
        /\ Fed(f, m, es \o ts, r) /\ Metered(m, es, r) = f[Len(es)]
        /\ Metered(m, es \o ts, r) = f[Len(es \o ts)]
  BY MeteredPrefix
<1>3. f[n + 1] = IF Own((es \o ts)[n + 1], r) THEN Consumed(f[n], (es \o ts)[n + 1]) ELSE f[n]
  <2> HIDE DEF n
  <2> QED BY <1>1, <1>2 DEF Fed
<1> QED BY <1>1, <1>2, <1>3

\* The events of other runs count for nothing.
LEMMA MeteredOther ==
  ASSUME NEW m \in Metrics, NEW es \in Seq(Message), NEW r, \A i \in 1..Len(es) : ~Own(es[i], r)
  PROVE  Metered(m, es, r) = m
<1>1. <<>> \in Seq(Message) /\ <<>> \o es = es
  OBVIOUS
<1>2. Metered(m, <<>>, r) \in {m}
  BY MeteredNothing
<1>3. Metered(m, <<>> \o es, r) \in {m}
  BY <1>1, <1>2, MeteredKeeps
<1> QED BY <1>1, <1>3

\* What goes back to the bus is of other runs, and was on it.
LEMMA OthersLeft ==
  ASSUME NEW es \in Seq(Message), NEW r
  PROVE  /\ Others(es, r) \in Seq(Message)
         /\ \A i \in 1..Len(Others(es, r)) :
              ~Own(Others(es, r)[i], r) /\ \E k \in 1..Len(es) : Others(es, r)[i] = es[k]
<1> DEFINE n == Len(es)
           Left == {s \in Seq(Message) : \A i \in 1..Len(s) : ~Own(s[i], r) /\ \E k \in 1..n : s[i] = es[k]}
           step == [i \in 1..n |-> [x \in Left |-> IF Own(es[i], r) THEN x ELSE Append(x, es[i])]]
           Body(f) == [i \in 0..n |-> IF i = 0 THEN <<>>
                             ELSE IF Own(es[i], r) THEN f[i - 1] ELSE Append(f[i - 1], es[i])]
           chosen == CHOOSE f : f = Body(f)
<1>1. n \in Nat /\ \A i \in 1..n : es[i] \in Message
  OBVIOUS
<1>2. <<>> \in Left
  OBVIOUS
<1>3. ASSUME NEW x \in Left, NEW i \in 1..n PROVE step[i][x] \in Left
  <2>1. CASE Own(es[i], r)
    BY <2>1
  <2>2. CASE ~Own(es[i], r)
    <3>1. Append(x, es[i]) \in Seq(Message)
      BY <1>1
    <3>2. ASSUME NEW j \in 1..Len(Append(x, es[i]))
          PROVE ~Own(Append(x, es[i])[j], r) /\ \E k \in 1..n : Append(x, es[i])[j] = es[k]
      <4>1. CASE j = Len(x) + 1
        <5>1. Append(x, es[i])[j] = es[i]
          BY <4>1
        <5> QED BY <2>2, <5>1
      <4>2. CASE j # Len(x) + 1
        <5>1. j \in 1..Len(x) /\ Append(x, es[i])[j] = x[j]
          BY <3>2, <4>2
        <5> QED BY <5>1
      <4> QED BY <4>1, <4>2
    <3> QED BY <2>2, <3>1, <3>2
  <2> QED BY <2>1, <2>2
<1>4. \E f \in [0..n -> Left] : RunsOver(f, n, <<>>, step)
  <2> HIDE DEF step, n, Left
  <2> QED BY <1>1, <1>2, <1>3, RunExists
<1>5. PICK f \in [0..n -> Left] : f[0] = <<>> /\ \A i \in 1..n : f[i] = step[i][f[i - 1]]
  BY <1>4 DEF RunsOver
<1>6. \A i \in 0..n : f[i] = Body(f)[i]
  <2> TAKE i \in 0..n
  <2>1. CASE i = 0
    BY <1>5, <2>1
  <2>2. CASE i # 0
    <3> HIDE DEF Left
    <3>1. i \in 1..n /\ i - 1 \in 0..n /\ f[i - 1] \in Left
      BY <1>1, <2>2
    <3> QED BY <1>5, <2>2, <3>1
  <2> QED BY <2>1, <2>2
<1>7. f = Body(f)
  BY <1>6
<1>8. chosen = Body(chosen) /\ Others(es, r) = chosen[n]
  BY <1>7 DEF Others
<1>9. chosen[0] = <<>>
  <2> HIDE DEF chosen
  <2> QED BY <1>1, <1>8
<1>10. ASSUME NEW i \in 1..n, chosen[i - 1] \in Left PROVE chosen[i] = step[i][chosen[i - 1]]
  <2>1. chosen[i] = Body(chosen)[i]
    <3> HIDE DEF Body, chosen
    <3> QED BY <1>8
  <2>2. i \in 0..n /\ i # 0
    BY <1>1
  <2> HIDE DEF chosen, Left
  <2> QED BY <1>10, <2>1, <2>2
<1>11. \A i \in 0..n : chosen[i] \in Left
  <2>1. Stays(f, n, Left) /\ Steps(f, n, Left, step) /\ Steps(chosen, n, Left, step)
    BY <1>1, <1>5, <1>10 DEF Stays, Steps
  <2>2. f[0] = chosen[0]
    BY <1>5, <1>9
  <2>3. \A i \in 0..n : f[i] = chosen[i] /\ f[i] \in Left
    <3>1. Alongside(f, chosen, n, Left, step)
      BY <2>1, <2>2 DEF Alongside
    <3> HIDE DEF step, n, chosen, Left
    <3> QED BY <1>1, <3>1, RunsAgree
  <2> QED BY <2>3
<1>12. Others(es, r) \in Left
  <2> HIDE DEF Left, chosen
  <2> QED BY <1>1, <1>8, <1>11
<1> QED BY <1>12

\* The rows after each of the workers' events.
Rows == [Worker -> RowStates]
Tidings == [worker : Worker, state : RowStates]

\* The rows after each event of a worker: what AllPresented computes.
LEMMA PresentedRun ==
  ASSUME NEW r \in Rows, NEW es \in Seq(Tidings)
  PROVE  \E f \in [0..Len(es) -> Rows] :
           /\ f[0] = r /\ AllPresented(r, es) = f[Len(es)]
           /\ \A i \in 1..Len(es) : f[i] = [f[i - 1] EXCEPT ![es[i].worker] = es[i].state]
<1> DEFINE n == Len(es)
           step == [i \in 1..n |-> [x \in Rows |-> [x EXCEPT ![es[i].worker] = es[i].state]]]
           Body(f) == [i \in 0..n |-> IF i = 0 THEN r
                             ELSE [f[i - 1] EXCEPT ![es[i].worker] = es[i].state]]
           chosen == CHOOSE f : f = Body(f)
<1>1. n \in Nat /\ \A i \in 1..n : es[i].worker \in Worker /\ es[i].state \in RowStates
  <2>1. \A i \in 1..n : es[i] \in Tidings
    OBVIOUS
  <2> QED BY <2>1 DEF Tidings
<1>2. ASSUME NEW x \in Rows, NEW i \in 1..n PROVE step[i][x] \in Rows
  BY <1>1 DEF Rows
<1>3. \E f \in [0..n -> Rows] : RunsOver(f, n, r, step)
  <2> HIDE DEF step, n
  <2> QED BY <1>1, <1>2, RunExists
<1>4. PICK f \in [0..n -> Rows] : f[0] = r /\ \A i \in 1..n : f[i] = step[i][f[i - 1]]
  BY <1>3 DEF RunsOver
<1>5. \A i \in 1..n : f[i] = [f[i - 1] EXCEPT ![es[i].worker] = es[i].state]
  <2> TAKE i \in 1..n
  <2>1. i - 1 \in 0..n /\ f[i - 1] \in Rows
    BY <1>1
  <2> QED BY <1>4, <2>1
<1>6. \A i \in 0..n : f[i] = Body(f)[i]
  <2> TAKE i \in 0..n
  <2>1. CASE i = 0
    BY <1>4, <2>1
  <2>2. CASE i # 0
    <3>1. i \in 1..n
      BY <1>1, <2>2
    <3> QED BY <1>5, <2>2, <3>1
  <2> QED BY <2>1, <2>2
<1>7. f = Body(f)
  BY <1>6
<1>8. chosen = Body(chosen) /\ AllPresented(r, es) = chosen[n]
  BY <1>7 DEF AllPresented, Presented
<1>9. chosen[0] = r
  <2> HIDE DEF chosen
  <2> QED BY <1>1, <1>8
<1>10. ASSUME NEW i \in 1..n, chosen[i - 1] \in Rows PROVE chosen[i] = step[i][chosen[i - 1]]
  <2>1. chosen[i] = Body(chosen)[i]
    <3> HIDE DEF Body, chosen
    <3> QED BY <1>8
  <2>2. i \in 0..n /\ i # 0
    BY <1>1
  <2> HIDE DEF chosen
  <2> QED BY <1>10, <2>1, <2>2
<1>11. f[n] = chosen[n]
  <2>1. Stays(f, n, Rows) /\ Steps(f, n, Rows, step) /\ Steps(chosen, n, Rows, step)
    BY <1>1, <1>4, <1>10 DEF Stays, Steps
  <2>2. Alongside(f, chosen, n, Rows, step)
    BY <1>4, <1>9, <2>1 DEF Alongside
  <2>3. \A i \in 0..n : f[i] = chosen[i]
    <3> HIDE DEF step, n, chosen
    <3> QED BY <1>1, <2>2, RunsAgree
  <2> QED BY <1>1, <2>3
<1> QED BY <1>4, <1>5, <1>8, <1>11

\* No events, the same rows.
LEMMA PresentedNothing ==
  ASSUME NEW r \in Rows
  PROVE  AllPresented(r, <<>>) = r
<1>1. <<>> \in Seq(Tidings) /\ Len(<<>>) = 0
  OBVIOUS
<1>2. ASSUME NEW es \in Seq(Tidings), Len(es) = 0 PROVE AllPresented(r, es) = r
  <2>1. PICK f \in [0..Len(es) -> Rows] : f[0] = r /\ AllPresented(r, es) = f[Len(es)]
    BY PresentedRun
  <2> QED BY <1>2, <2>1
<1> QED BY <1>1, <1>2, Zenon

\* Rows stay rows through any list of events.
LEMMA PresentedType ==
  ASSUME NEW r \in Rows, NEW es \in Seq(Tidings)
  PROVE  AllPresented(r, es) \in Rows
<1>1. PICK f \in [0..Len(es) -> Rows] : AllPresented(r, es) = f[Len(es)]
  BY PresentedRun
<1> QED BY <1>1

\* The last event decides the row of its worker.
LEMMA PresentedAppend ==
  ASSUME NEW r \in Rows, NEW es \in Seq(Tidings), NEW e \in Tidings
  PROVE  AllPresented(r, Append(es, e)) = [AllPresented(r, es) EXCEPT ![e.worker] = e.state]
<1> DEFINE all == Append(es, e)
           n == Len(es)
           step == [i \in 1..n |-> [x \in Rows |-> [x EXCEPT ![es[i].worker] = es[i].state]]]
<1>1. /\ all \in Seq(Tidings) /\ Len(all) = n + 1 /\ n \in Nat
      /\ all[n + 1] = e /\ \A i \in 1..n : all[i] = es[i]
      /\ n + 1 \in 1..Len(all) /\ (n + 1) - 1 = n
  OBVIOUS
<1>2. PICK f \in [0..Len(all) -> Rows] :
        /\ f[0] = r /\ AllPresented(r, all) = f[Len(all)]
        /\ \A i \in 1..Len(all) : f[i] = [f[i - 1] EXCEPT ![all[i].worker] = all[i].state]
  <2> HIDE DEF all
  <2> QED BY <1>1, PresentedRun
<1>3. PICK g \in [0..n -> Rows] :
        /\ g[0] = r /\ AllPresented(r, es) = g[n]
        /\ \A i \in 1..n : g[i] = [g[i - 1] EXCEPT ![es[i].worker] = es[i].state]
  BY PresentedRun
<1>4. \A i \in 1..n : i \in 1..Len(all)
  <2> HIDE DEF all
  <2> QED BY <1>1
<1>5. f[n] = g[n]
  <2>1. Stays(g, n, Rows)
    BY DEF Stays
  <2>2. Steps(g, n, Rows, step)
    BY <1>3 DEF Steps
  <2>3. Steps(f, n, Rows, step)
    <3> SUFFICES ASSUME NEW i \in 1..n, f[i - 1] \in Rows PROVE f[i] = step[i][f[i - 1]]
      BY DEF Steps
    <3>1. all[i] = es[i] /\ f[i] = [f[i - 1] EXCEPT ![all[i].worker] = all[i].state]
      <4> HIDE DEF all
      <4> QED BY <1>1, <1>2, <1>4
    <3> HIDE DEF all
    <3> QED BY <3>1
  <2>4. Alongside(g, f, n, Rows, step)
    BY <1>2, <1>3, <2>1, <2>2, <2>3 DEF Alongside
  <2>5. \A i \in 0..n : g[i] = f[i]
    <3> HIDE DEF all, step, n
    <3> QED BY <1>1, <2>4, RunsAgree
  <2> QED BY <1>1, <2>5
<1>6. f[n + 1] = [f[n] EXCEPT ![e.worker] = e.state]
  <2> HIDE DEF all, n
  <2> QED BY <1>1, <1>2
<1> QED BY <1>1, <1>2, <1>3, <1>5, <1>6

-----------------------------------------------------------------------------
(* The workers the snapshot shows                                          *)

\* There are finitely many workers, so every set of them has a size.
LEMMA WorkersFinite ==
  /\ IsFiniteSet(Worker) /\ Worker \subseteq Nat
  /\ \A s \in SUBSET Worker : IsFiniteSet(s) /\ Cardinality(s) \in Nat
<1>1. IsFiniteSet(Worker) /\ Worker = 1..Cardinality(Worker)
  BY DashboardAssumption
<1>2. Cardinality(Worker) \in Nat
  BY <1>1, FS_CardinalityType
<1>3. \A s \in SUBSET Worker : IsFiniteSet(s)
  BY <1>1, FS_Subset
<1> QED BY <1>1, <1>2, <1>3, FS_CardinalityType

\* FirstOf takes at most n of a set, and all of it when it has no more.
LEMMA FirstAreFew ==
  ASSUME NEW s \in SUBSET Worker, NEW n \in Nat
  PROVE  /\ FirstOf(s, n) \in SUBSET s /\ Cardinality(FirstOf(s, n)) <= n
         /\ Cardinality(s) <= n => FirstOf(s, n) = s
<1> DEFINE F == FirstOf(s, n)
           Upto(w) == {v \in s : v <= w}
<1>1. F \in SUBSET s /\ \A w \in F : Cardinality(Upto(w)) <= n
  BY DEF FirstOf
<1>2. Cardinality(s) <= n => F = s
  <2>1. ASSUME NEW w \in s, Cardinality(s) <= n PROVE Cardinality(Upto(w)) <= n
    <3>1. Upto(w) \in SUBSET s /\ IsFiniteSet(s)
      BY WorkersFinite
    <3>2. Cardinality(Upto(w)) <= Cardinality(s)
      BY <3>1, FS_Subset
    <3> QED BY <2>1, <3>1, <3>2, WorkersFinite
  <2> QED BY <1>1, <2>1 DEF FirstOf
<1>3. Cardinality(F) <= n
  <2>1. CASE F = {}
    BY <2>1, FS_EmptySet
  <2>2. CASE F # {}
    <3> DEFINE Above == {k \in Nat : \A w \in F : w <= k}
    <3>1. F \in SUBSET Worker /\ F \in SUBSET Nat
      BY <1>1, WorkersFinite
    <3>2. PICK w \in F : \A v \in F : v <= w
      <4>1. Cardinality(Worker) \in Nat /\ \A v \in F : v <= Cardinality(Worker)
        <5>1. Worker = 1..Cardinality(Worker) /\ Cardinality(Worker) \in Nat
          BY DashboardAssumption, FS_CardinalityType
        <5> QED BY <3>1, <5>1
      <4>2. Above \in SUBSET Nat /\ Above # {}
        BY <4>1
      <4>3. PICK k \in Above : \A j \in Above : k <= j
        <5> HIDE DEF Above
        <5> QED BY <4>2, LeastNumber
      <4>4. k \in F
        <5> SUFFICES ASSUME k \notin F PROVE FALSE
          OBVIOUS
        <5>1. PICK v \in F : TRUE
          BY <2>2
        <5>2. v \in Nat /\ v <= k /\ v # k
          BY <3>1, <4>3
        <5>3. k - 1 \in Nat /\ \A u \in F : u <= k - 1
          <6> HIDE DEF F
          <6> QED BY <3>1, <4>3, <5>2
        <5>4. k - 1 \in Above
          BY <5>3
        <5> QED BY <4>3, <5>3, <5>4
      <4> QED BY <4>3, <4>4
    <3>3. F \in SUBSET Upto(w)
      BY <1>1, <3>2
    <3>4. Upto(w) \in SUBSET Worker /\ IsFiniteSet(Upto(w))
      BY WorkersFinite
    <3>5. Cardinality(F) <= Cardinality(Upto(w))
      BY <3>3, <3>4, FS_Subset
    <3> QED BY <1>1, <3>1, <3>2, <3>4, <3>5, WorkersFinite
  <2> QED BY <2>1, <2>2
<1> QED BY <1>1, <1>2, <1>3

\* The snapshot never shows more rows than there are active attempts.
LEMMA ShownAreFew ==
  Cardinality(Shown) <= Cardinality(Active)
<1> DEFINE Free == {w \in Worker : rows[w] = "IDLE" \/ w \in ActiveRows \ Kept}
           a == Cardinality(Active)
           k == Cardinality(Kept)
           n == Minus(a, k)
<1>1. Active \in SUBSET Worker /\ ActiveRows \in SUBSET Worker /\ Free \in SUBSET Worker
  BY DEF Active, ActiveRows
<1>2. a \in Nat
  BY <1>1, WorkersFinite
<1>3. Kept \in SUBSET Worker /\ k <= a /\ k \in Nat
  BY <1>1, <1>2, FirstAreFew, WorkersFinite DEF Kept
<1>4. n = a - k /\ n \in Nat
  BY <1>2, <1>3 DEF Minus
<1>5. Surfaced = FirstOf(Free, n)
  BY DEF Surfaced
<1>6. Surfaced \in SUBSET Worker /\ Cardinality(Surfaced) <= n
  <2> HIDE DEF Free, n
  <2> QED BY <1>1, <1>4, <1>5, FirstAreFew
<1>7. IsFiniteSet(Kept) /\ IsFiniteSet(Surfaced) /\ Cardinality(Surfaced) \in Nat
  BY <1>3, <1>6, WorkersFinite
<1>8. Cardinality(Shown) <= k + Cardinality(Surfaced)
  <2>1. Cardinality(Kept \union Surfaced) =
          k + Cardinality(Surfaced) - Cardinality(Kept \intersect Surfaced)
    BY <1>7, FS_Union
  <2>2. Cardinality(Kept \intersect Surfaced) \in Nat
    BY <1>3, WorkersFinite
  <2> QED BY <1>3, <1>7, <2>1, <2>2 DEF Shown
<1>9. Cardinality(Shown) \in Nat
  BY <1>3, <1>6, WorkersFinite DEF Shown
<1> QED BY <1>2, <1>3, <1>4, <1>6, <1>7, <1>8, <1>9

\* Once each row is active exactly when its worker is, it shows them all.
LEMMA ShownExactly ==
  ASSUME ActiveRows = Active
  PROVE  Shown = Active
<1> DEFINE Free == {w \in Worker : rows[w] = "IDLE" \/ w \in ActiveRows \ Kept}
<1>1. Active \in SUBSET Worker /\ Cardinality(Active) \in Nat /\ Free \in SUBSET Worker
  BY WorkersFinite DEF Active
<1>2. Kept = Active
  BY <1>1, FirstAreFew DEF Kept
<1>3. Minus(Cardinality(Active), Cardinality(Kept)) = 0
  BY <1>1, <1>2 DEF Minus
<1>4. Surfaced = FirstOf(Free, 0)
  BY <1>3 DEF Surfaced
<1>5. Surfaced \in SUBSET Worker /\ Cardinality(Surfaced) <= 0
  <2> HIDE DEF Free
  <2> QED BY <1>1, <1>4, FirstAreFew
<1>6. Surfaced = {}
  BY <1>5, WorkersFinite, FS_EmptySet
<1> QED BY <1>2, <1>6 DEF Shown

-----------------------------------------------------------------------------
(* What a step tells the dashboard                                         *)

\* A step publishes the events es, and perhaps refreshes.
Tells(es) ==
  /\ es \in Seq(Message) /\ \A i \in 1..Len(es) : es[i].run <= run
  /\ run' = run /\ metrics' \in Metrics
  /\ bus' \in Seq(Message) /\ \A i \in 1..Len(bus') : bus'[i].run <= run
  /\ Now' = Metered(metrics, bus \o es, run)
  /\ metrics' = metrics \/ metrics' = Now'

\* What the bus and the metrics satisfy before each step.
Heard ==
  /\ bus \in Seq(Message) /\ metrics \in Metrics /\ run \in 0..MaxRuns
  /\ \A i \in 1..Len(bus) : bus[i].run <= run

\* Events that are put on the bus are told.
LEMMA PublishTells ==
  ASSUME Heard, NEW es \in Seq(Message), \A i \in 1..Len(es) : es[i].run <= run,
         Put(es), metrics' = metrics, run' = run
  PROVE  Tells(es)
<1> USE DEF Heard
<1>1. bus' \in Seq(Message) /\ Len(bus') = Len(bus) + Len(es)
  BY DEF Put
<1>2. ASSUME NEW i \in 1..Len(bus') PROVE bus'[i].run <= run
  <2>1. CASE i <= Len(bus)
    BY <1>1, <2>1 DEF Put
  <2>2. CASE i > Len(bus)
    <3>1. i - Len(bus) \in 1..Len(es) /\ bus'[i] = es[i - Len(bus)]
      BY <1>1, <2>2 DEF Put
    <3> QED BY <3>1
  <2> QED BY <2>1, <2>2
<1>3. Now' = Metered(metrics, bus \o es, run)
  BY DEF Now, Put
<1> QED BY <1>1, <1>2, <1>3 DEF Tells

\* A refresh tells its events, takes in all of this run's and leaves the others.
LEMMA RefreshTells ==
  ASSUME Heard, NEW es \in Seq(Message), \A i \in 1..Len(es) : es[i].run <= run,
         Refresh(bus \o es), run' = run
  PROVE  Tells(es) /\ metrics' = Now' /\ \A i \in 1..Len(bus') : ~Own(bus'[i], run)
<1> USE DEF Heard
<1> DEFINE all == bus \o es
<1>1. all \in Seq(Message) /\ Len(all) = Len(bus) + Len(es)
  OBVIOUS
<1>2. ASSUME NEW i \in 1..Len(all) PROVE all[i].run <= run
  <2>1. CASE i <= Len(bus)
    BY <1>1, <2>1
  <2>2. CASE i > Len(bus)
    <3>1. i - Len(bus) \in 1..Len(es) /\ all[i] = es[i - Len(bus)]
      BY <1>1, <2>2
    <3> QED BY <3>1
  <2> QED BY <2>1, <2>2
<1>3. metrics' = Metered(metrics, all, run) /\ bus' = Others(all, run)
  BY DEF Refresh
<1> HIDE DEF all
<1>4. /\ bus' \in Seq(Message)
      /\ \A i \in 1..Len(bus') : ~Own(bus'[i], run) /\ \E k \in 1..Len(all) : bus'[i] = all[k]
  <2> DEFINE left == Others(all, run)
  <2>1. /\ left \in Seq(Message)
        /\ \A i \in 1..Len(left) : ~Own(left[i], run) /\ \E k \in 1..Len(all) : left[i] = all[k]
    BY <1>1, OthersLeft
  <2> HIDE DEF left
  <2>2. bus' = left
    BY <1>3 DEF left
  <2> QED BY <2>1, <2>2
<1>5. \A i \in 1..Len(bus') : bus'[i].run <= run
  BY <1>2, <1>4
<1>6. metrics' \in Metrics
  BY <1>1, <1>3, MeteredType
<1>7. Now' = metrics'
  <2>1. Metered(metrics', bus', run) = metrics'
    BY <1>4, <1>6, MeteredOther
  <2> QED BY <2>1 DEF Now
<1>8. Now' = Metered(metrics, bus \o es, run)
  BY <1>3, <1>7 DEF all
<1> QED BY <1>4, <1>5, <1>6, <1>7, <1>8 DEF Tells

\* A step that touches neither bus nor metrics tells nothing.
LEMMA SilenceTells ==
  ASSUME Heard, UNCHANGED <<bus, metrics, run>>
  PROVE  Tells(<<>>)
<1>1. <<>> \in Seq(Message) /\ Put(<<>>)
  BY DEF Heard, Put
<1>2. \A i \in 1..Len(<<>>) : <<>>[i].run <= run
  OBVIOUS
<1> QED BY <1>1, <1>2, PublishTells

\* What the run will show after the next refresh is metrics.
LEMMA NowType ==
  ASSUME Heard
  PROVE  Now \in Metrics
BY MeteredType DEF Heard, Now

\* The counters after nothing, one event or two.
LEMMA ToldNothing ==
  ASSUME Heard, Tells(<<>>)
  PROVE  Now' = Now
<1>1. bus \o <<>> = bus
  BY DEF Heard
<1> QED BY <1>1 DEF Tells, Now

\* One event changes the counters by itself, if it is of this run.
LEMMA ToldOne ==
  ASSUME Heard, NEW e \in Message, Tells(<<e>>)
  PROVE  Now' = IF Own(e, run) THEN Consumed(Now, e) ELSE Now
<1>1. bus \in Seq(Message) /\ metrics \in Metrics
  BY DEF Heard
<1>2. Now' = Metered(metrics, bus \o <<e>>, run)
  BY DEF Tells
<1> QED BY <1>1, <1>2, MeteredAppend DEF Now

\* What each of the events keeps, the counters keep.
LEMMA ToldKeeps ==
  ASSUME Heard, NEW es, Tells(es), NEW S, Now \in S,
         \A i \in 1..Len(es), x \in Metrics : x \in S /\ Own(es[i], run) => Consumed(x, es[i]) \in S
  PROVE  Now' \in S
<1>1. bus \in Seq(Message) /\ metrics \in Metrics /\ es \in Seq(Message)
  BY DEF Heard, Tells
<1>2. Metered(metrics, bus, run) \in S
  BY DEF Now
<1>3. Metered(metrics, bus \o es, run) \in S
  BY <1>1, <1>2, MeteredKeeps
<1> QED BY <1>3 DEF Tells

\* What one of the events establishes and the later ones keep.
LEMMA ToldReaches ==
  ASSUME Heard, NEW es, Tells(es), NEW S, NEW k \in 1..Len(es), Own(es[k], run),
         \A x \in Metrics : Consumed(x, es[k]) \in S,
         \A i \in 1..Len(es), x \in Metrics : i > k /\ x \in S /\ Own(es[i], run) => Consumed(x, es[i]) \in S
  PROVE  Now' \in S
<1> DEFINE all == bus \o es
           n == Len(bus)
<1>1. bus \in Seq(Message) /\ metrics \in Metrics /\ es \in Seq(Message)
  BY DEF Heard, Tells
<1>2. all \in Seq(Message) /\ Len(all) = n + Len(es) /\ n \in Nat /\ Len(es) \in Nat
  BY <1>1
<1>3. n + k \in 1..Len(all) /\ all[n + k] = es[k]
  BY <1>1, <1>2
<1>4. ASSUME NEW i \in 1..Len(all), NEW x \in Metrics, i > n + k, x \in S, Own(all[i], run)
      PROVE  Consumed(x, all[i]) \in S
  <2>1. i - n \in 1..Len(es) /\ i - n > k /\ all[i] = es[i - n]
    BY <1>1, <1>2, <1>4
  <2> QED BY <1>4, <2>1
<1>5. Metered(metrics, all, run) \in S
  <2> HIDE DEF all, n
  <2> QED BY <1>1, <1>2, <1>3, <1>4, MeteredReaches
<1> QED BY <1>5 DEF Tells

-----------------------------------------------------------------------------
(* What an event does to the counters                                      *)

SameDownloads(x, y) ==
  y.downloading = x.downloading /\ y.stored = x.stored /\ y.permanent = x.permanent
SameStage1(x, y) == y.stage1Pending = x.stage1Pending
SameStage2(x, y) == y.inflight = x.inflight /\ y.stage2 = x.stage2

\* Events of other kinds leave a counter as it is.
LEMMA ConsumedElsewhere ==
  ASSUME NEW m \in Metrics, NEW e \in Message
  PROVE  /\ e.kind \notin DownloadKinds => SameDownloads(m, Consumed(m, e))
         /\ e.kind \notin Stage1Kinds => SameStage1(m, Consumed(m, e))
         /\ e.kind \notin Stage2Kinds => SameStage2(m, Consumed(m, e))
<1> USE DEF SameDownloads, SameStage1, SameStage2
<1>1. CASE e.kind = "DOCUMENT_DISCOVERED"
  <2>1. Consumed(m, e) = [m EXCEPT !.discovered = @ + e.n]
    BY <1>1 DEF Consumed
  <2> QED BY <1>1, <2>1 DEF Metrics
<1>2. CASE e.kind = "STAGE1_STARTED"
  <2>1. Consumed(m, e) = [m EXCEPT !.stage1Pending = @ + e.n]
    BY <1>2 DEF Consumed
  <2> QED BY <1>2, <2>1 DEF Metrics, Stage1Kinds
<1>3. CASE e.kind = "STAGE1_APPROVED"
  <2>1. Consumed(m, e) = [m EXCEPT !.stage1Pending = Minus(@, e.n), !.stage1Approved = @ + e.n]
    BY <1>3 DEF Consumed
  <2> QED BY <1>3, <2>1 DEF Metrics, Stage1Kinds
<1>4. CASE e.kind = "STAGE1_REJECTED"
  <2>1. Consumed(m, e) = [m EXCEPT !.stage1Pending = Minus(@, e.n), !.stage1Rejected = @ + e.n]
    BY <1>4 DEF Consumed
  <2> QED BY <1>4, <2>1 DEF Metrics, Stage1Kinds
<1>5. CASE e.kind = "STAGE1_FAILED"
  <2>1. Consumed(m, e) = [m EXCEPT !.stage1Pending = Minus(@, e.n)]
    BY <1>5 DEF Consumed
  <2> QED BY <1>5, <2>1 DEF Metrics, Stage1Kinds
<1>6. CASE e.kind = "DOWNLOAD_QUEUED"
  <2>1. Consumed(m, e) = [m EXCEPT !.queued = @ + e.n]
    BY <1>6 DEF Consumed
  <2> QED BY <1>6, <2>1 DEF Metrics
<1>7. CASE e.kind = "DOWNLOAD_STARTED"
  <2>1. Consumed(m, e) = [m EXCEPT !.queued = Minus(@, e.n),
                                   !.recovery = IF e.again THEN Minus(@, e.n) ELSE @,
                                   !.downloading = @ + e.n]
    BY <1>7 DEF Consumed
  <2> QED BY <1>7, <2>1 DEF Metrics, DownloadKinds
<1>8. CASE e.kind = "DOWNLOAD_COMPLETED"
  <2>1. Consumed(m, e) = [m EXCEPT !.downloading = Minus(@, e.n), !.stored = @ + e.n]
    BY <1>8 DEF Consumed
  <2> QED BY <1>8, <2>1 DEF Metrics, DownloadKinds
<1>9. CASE e.kind = "DOWNLOAD_FAILED_FOR_ROUND"
  <2>1. Consumed(m, e) = [m EXCEPT !.downloading = Minus(@, e.n), !.failed = @ + e.n]
    BY <1>9 DEF Consumed
  <2> QED BY <1>9, <2>1 DEF Metrics, DownloadKinds
<1>10. CASE e.kind = "DOWNLOAD_PERMANENTLY_FAILED"
  <2>1. Consumed(m, e) = [m EXCEPT !.downloading = Minus(@, e.n), !.permanent = @ + e.n]
    BY <1>10 DEF Consumed
  <2> QED BY <1>10, <2>1 DEF Metrics, DownloadKinds
<1>11. CASE e.kind = "RECOVERY_QUEUED"
  <2>1. Consumed(m, e) = [m EXCEPT !.recovery = @ + e.n]
    BY <1>11 DEF Consumed
  <2> QED BY <1>11, <2>1 DEF Metrics
<1>12. CASE e.kind = "DUPLICATE_DETECTED"
  <2>1. Consumed(m, e) = [m EXCEPT !.duplicates = @ + e.n]
    BY <1>12 DEF Consumed
  <2> QED BY <1>12, <2>1 DEF Metrics
<1>13. CASE e.kind \in Stage2Kinds
  <2>1. \E x \in {SetStage2(m, e.doc, "queued"), SetStage2(m, e.doc, "running"),
                  SetStage2(m, e.doc, "pending"), CompleteStage2(m, e.doc)} :
          Consumed(m, e) \in {x, [x EXCEPT !.approved = @ + e.n], [x EXCEPT !.rejected = @ + e.n],
                              [x EXCEPT !.invalid = @ + e.n]}
    BY <1>13 DEF Consumed, Stage2Kinds
  <2>2. e.doc \in Doc
    BY <1>13 DEF Message, Stage2Kinds
  <2>3. ASSUME NEW x \in {SetStage2(m, e.doc, "queued"), SetStage2(m, e.doc, "running"),
                          SetStage2(m, e.doc, "pending"), CompleteStage2(m, e.doc)}
        PROVE  x \in Metrics /\ SameDownloads(m, x) /\ SameStage1(m, x)
    <3>1. x \in Metrics
      BY <2>2, Stage2Type DEF Phases
    <3>2. \A p : SameDownloads(m, SetStage2(m, e.doc, p)) /\ SameStage1(m, SetStage2(m, e.doc, p))
      BY DEF SetStage2, Metrics
    <3>3. SameDownloads(m, CompleteStage2(m, e.doc)) /\ SameStage1(m, CompleteStage2(m, e.doc))
      BY DEF CompleteStage2, Metrics
    <3> QED BY <3>1, <3>2, <3>3
  <2>4. SameDownloads(m, Consumed(m, e)) /\ SameStage1(m, Consumed(m, e))
    BY <2>1, <2>3 DEF Metrics
  <2> QED BY <1>13, <2>4
<1>14. CASE Consumed(m, e) = m
  BY <1>14
<1> QED
  BY <1>1, <1>2, <1>3, <1>4, <1>5, <1>6, <1>7, <1>8, <1>9, <1>10, <1>11, <1>12, <1>13, <1>14
     DEF Consumed, Stage2Kinds

\* Where an event leaves its document.
PhaseAfter(kind) ==
  CASE kind = "STAGE2_QUEUED" -> "queued" [] kind = "STAGE2_STARTED" -> "running"
    [] kind \in {"STAGE2_PENDING", "STAGE2_DUPLICATE_PENDING"} -> "pending" [] OTHER -> "none"

\* _set_stage2_state keeps the sizes of the phases.
LEMMA SetSized ==
  ASSUME NEW m \in Metrics, Sized(m), NEW d \in Doc, NEW phase \in Phases
  PROVE  /\ Sized(SetStage2(m, d, phase))
         /\ SetStage2(m, d, phase).inflight = [m.inflight EXCEPT ![d] = phase]
<1>1. m.stage2 \in [Phases -> Nat] /\ m.inflight \in [Doc -> Phases \cup {"none"}]
  BY DEF Metrics
<1>2. CASE m.inflight[d] = phase
  <2>1. [m.inflight EXCEPT ![d] = phase] = m.inflight
    BY <1>1, <1>2
  <2> QED BY <1>2, <2>1 DEF SetStage2
<1>3. CASE m.inflight[d] # phase
  <2> DEFINE new == SetStage2(m, d, phase)
             Before(k) == {c \in Doc : m.inflight[c] = k}
             After(k) == {c \in Doc : new.inflight[c] = k}
  <2>1. /\ new.inflight = [m.inflight EXCEPT ![d] = phase]
        /\ new.stage2 = [k \in Phases |-> IF k = phase THEN m.stage2[k] + 1
                           ELSE IF k = m.inflight[d] THEN Minus(m.stage2[k], 1) ELSE m.stage2[k]]
    BY <1>3 DEF SetStage2, Metrics
  <2> HIDE DEF new
  <2>2. \A k : IsFiniteSet(Before(k))
    BY DashboardAssumption, FS_Subset
  <2>3. \A k \in Phases : Cardinality(Before(k)) = m.stage2[k] /\ m.stage2[k] \in Nat
    BY <1>1 DEF Sized
  <2>4. ASSUME NEW k \in Phases PROVE new.stage2[k] = Cardinality(After(k))
    <3>1. CASE k = phase
      <4>1. After(k) = Before(k) \cup {d} /\ d \notin Before(k)
        BY <1>1, <1>3, <2>1, <3>1
      <4>2. Cardinality(After(k)) = Cardinality(Before(k)) + 1
        <5> HIDE DEF After, Before
        <5> QED BY <2>2, <4>1, FS_AddElement
      <4> QED BY <2>1, <2>3, <3>1, <4>2
    <3>2. CASE k # phase /\ k = m.inflight[d]
      <4>1. After(k) = Before(k) \ {d} /\ d \in Before(k)
        BY <1>1, <2>1, <3>2
      <4>2. Cardinality(After(k)) = Cardinality(Before(k)) - 1
        <5> HIDE DEF After, Before
        <5> QED BY <2>2, <4>1, FS_RemoveElement
      <4>3. Cardinality(Before(k)) # 0
        BY <2>2, <4>1, FS_EmptySet
      <4>4. new.stage2[k] = Minus(m.stage2[k], 1)
        BY <2>1, <3>2
      <4>5. m.stage2[k] \in Nat /\ m.stage2[k] # 0 /\ Cardinality(After(k)) = m.stage2[k] - 1
        BY <2>3, <4>2, <4>3
      <4> QED BY <4>4, <4>5 DEF Minus
    <3>3. CASE k # phase /\ k # m.inflight[d]
      <4>1. After(k) = Before(k)
        BY <1>1, <2>1, <3>3
      <4> QED BY <2>1, <2>3, <3>3, <4>1
    <3> QED BY <3>1, <3>2, <3>3
  <2>5. Sized(new)
    BY <2>4 DEF Sized
  <2> QED BY <2>1, <2>5 DEF new
<1> QED BY <1>2, <1>3

\* _complete_stage2 keeps the sizes of the phases.
LEMMA CompleteSized ==
  ASSUME NEW m \in Metrics, Sized(m), NEW d \in Doc
  PROVE  /\ Sized(CompleteStage2(m, d))
         /\ CompleteStage2(m, d).inflight = [m.inflight EXCEPT ![d] = "none"]
<1> DEFINE new == CompleteStage2(m, d)
           Before(k) == {c \in Doc : m.inflight[c] = k}
           After(k) == {c \in Doc : new.inflight[c] = k}
<1>1. m.stage2 \in [Phases -> Nat] /\ m.inflight \in [Doc -> Phases \cup {"none"}]
  BY DEF Metrics
<1>2. /\ new.inflight = [m.inflight EXCEPT ![d] = "none"]
      /\ new.stage2 = [k \in Phases |-> IF k = m.inflight[d] THEN Minus(m.stage2[k], 1) ELSE m.stage2[k]]
  BY DEF CompleteStage2, Metrics
<1> HIDE DEF new
<1>3. \A k : IsFiniteSet(Before(k))
  BY DashboardAssumption, FS_Subset
<1>4. \A k \in Phases : Cardinality(Before(k)) = m.stage2[k] /\ m.stage2[k] \in Nat
  BY <1>1 DEF Sized
<1>5. ASSUME NEW k \in Phases PROVE new.stage2[k] = Cardinality(After(k))
  <2>0. k # "none"
    BY DEF Phases
  <2>1. CASE k = m.inflight[d]
    <3>1. After(k) = Before(k) \ {d} /\ d \in Before(k)
      BY <1>1, <1>2, <2>0, <2>1
    <3>2. Cardinality(After(k)) = Cardinality(Before(k)) - 1
      <4> HIDE DEF After, Before
      <4> QED BY <1>3, <3>1, FS_RemoveElement
    <3>3. Cardinality(Before(k)) # 0
      BY <1>3, <3>1, FS_EmptySet
    <3>4. new.stage2[k] = Minus(m.stage2[k], 1)
      BY <1>2, <2>1
    <3>5. m.stage2[k] \in Nat /\ m.stage2[k] # 0 /\ Cardinality(After(k)) = m.stage2[k] - 1
      BY <1>4, <3>2, <3>3
    <3> QED BY <3>4, <3>5 DEF Minus
  <2>2. CASE k # m.inflight[d]
    <3>1. After(k) = Before(k)
      BY <1>1, <1>2, <2>0, <2>2
    <3> QED BY <1>2, <1>4, <2>2, <3>1
  <2> QED BY <2>1, <2>2
<1>6. Sized(new)
  BY <1>5 DEF Sized
<1> QED BY <1>2, <1>6 DEF new

\* An event keeps the phase counts and puts its document in its phase.
LEMMA ConsumedStage2 ==
  ASSUME NEW m \in Metrics, Sized(m), NEW e \in Message
  PROVE  /\ Sized(Consumed(m, e))
         /\ e.kind \in Stage2Kinds =>
              /\ e.doc \in Doc
              /\ Consumed(m, e).inflight = [m.inflight EXCEPT ![e.doc] = PhaseAfter(e.kind)]
         /\ e.kind \notin Stage2Kinds => Consumed(m, e).inflight = m.inflight
<1>1. CASE e.kind \notin Stage2Kinds
  <2>1. SameStage2(m, Consumed(m, e))
    BY <1>1, ConsumedElsewhere
  <2> QED BY <1>1, <2>1 DEF SameStage2, Sized
<1>2. CASE e.kind \in Stage2Kinds
  <2>1. e.doc \in Doc
    BY <1>2 DEF Message, Stage2Kinds
  <2>2. CASE e.kind \in {"STAGE2_QUEUED", "STAGE2_STARTED", "STAGE2_PENDING", "STAGE2_DUPLICATE_PENDING"}
    <3>1. PhaseAfter(e.kind) \in Phases
      BY <2>2 DEF PhaseAfter, Phases
    <3>2. Consumed(m, e) = SetStage2(m, e.doc, PhaseAfter(e.kind))
      BY <2>2 DEF Consumed, PhaseAfter
    <3> QED BY <1>2, <2>1, <3>1, <3>2, SetSized
  <2>3. CASE e.kind \in {"STAGE2_APPROVED", "STAGE2_REJECTED", "STAGE2_INVALID"}
    <3> DEFINE c == CompleteStage2(m, e.doc)
    <3>1. Consumed(m, e) \in {[c EXCEPT !.approved = @ + e.n], [c EXCEPT !.rejected = @ + e.n],
                              [c EXCEPT !.invalid = @ + e.n]}
      BY <2>3 DEF Consumed
    <3>2. c \in Metrics /\ Sized(c) /\ c.inflight = [m.inflight EXCEPT ![e.doc] = "none"]
      BY <2>1, CompleteSized, Stage2Type
    <3> HIDE DEF c
    <3>3. Consumed(m, e).inflight = c.inflight /\ Consumed(m, e).stage2 = c.stage2
      BY <3>1, <3>2 DEF Metrics
    <3>4. PhaseAfter(e.kind) = "none"
      BY <2>3 DEF PhaseAfter
    <3> QED BY <1>2, <2>1, <3>2, <3>3, <3>4 DEF Sized
  <2> QED BY <1>2, <2>2, <2>3 DEF Stage2Kinds
<1> QED BY <1>1, <1>2

\* What each event of an attempt does to the counters of the downloads.
LEMMA ConsumedDownloads ==
  ASSUME NEW m \in Metrics, NEW e \in Message, e.n = 1, NEW x, x = Consumed(m, e)
  PROVE  /\ e.kind = "DOWNLOAD_STARTED" =>
              x.downloading = m.downloading + 1 /\ x.stored = m.stored /\ x.permanent = m.permanent
         /\ e.kind = "DOWNLOAD_COMPLETED" =>
              x.downloading = Minus(m.downloading, 1) /\ x.stored = m.stored + 1 /\ x.permanent = m.permanent
         /\ e.kind = "DOWNLOAD_FAILED_FOR_ROUND" =>
              x.downloading = Minus(m.downloading, 1) /\ x.stored = m.stored /\ x.permanent = m.permanent
         /\ e.kind = "DOWNLOAD_PERMANENTLY_FAILED" =>
              x.downloading = Minus(m.downloading, 1) /\ x.stored = m.stored /\ x.permanent = m.permanent + 1
<1>1. CASE e.kind = "DOWNLOAD_STARTED"
  <2>1. x = [m EXCEPT !.queued = Minus(@, e.n), !.recovery = IF e.again THEN Minus(@, e.n) ELSE @,
                      !.downloading = @ + e.n]
    BY <1>1 DEF Consumed
  <2>2. x.downloading = m.downloading + 1 /\ x.stored = m.stored /\ x.permanent = m.permanent
    BY <2>1 DEF Metrics
  <2> QED BY <1>1, <2>2
<1>2. CASE e.kind = "DOWNLOAD_COMPLETED"
  <2>1. x = [m EXCEPT !.downloading = Minus(@, e.n), !.stored = @ + e.n]
    BY <1>2 DEF Consumed
  <2>2. x.downloading = Minus(m.downloading, 1) /\ x.stored = m.stored + 1 /\ x.permanent = m.permanent
    BY <2>1 DEF Metrics
  <2> QED BY <1>2, <2>2
<1>3. CASE e.kind = "DOWNLOAD_FAILED_FOR_ROUND"
  <2>1. x = [m EXCEPT !.downloading = Minus(@, e.n), !.failed = @ + e.n]
    BY <1>3 DEF Consumed
  <2>2. x.downloading = Minus(m.downloading, 1) /\ x.stored = m.stored /\ x.permanent = m.permanent
    BY <2>1 DEF Metrics
  <2> QED BY <1>3, <2>2
<1>4. CASE e.kind = "DOWNLOAD_PERMANENTLY_FAILED"
  <2>1. x = [m EXCEPT !.downloading = Minus(@, e.n), !.permanent = @ + e.n]
    BY <1>4 DEF Consumed
  <2>2. x.downloading = Minus(m.downloading, 1) /\ x.stored = m.stored /\ x.permanent = m.permanent + 1
    BY <2>1 DEF Metrics
  <2> QED BY <1>4, <2>2
<1>5. CASE e.kind \notin DownloadKinds
  BY <1>5 DEF DownloadKinds
<1> QED BY <1>1, <1>2, <1>3, <1>4, <1>5 DEF DownloadKinds

\* The Stage 1 counter while a batch is out, and when it is back.
LEMMA ConsumedStage1 ==
  ASSUME NEW m \in Metrics, NEW e \in Message
  PROVE  /\ e.kind = "STAGE1_STARTED" => Consumed(m, e).stage1Pending = m.stage1Pending + e.n
         /\ e.kind \in {"STAGE1_APPROVED", "STAGE1_REJECTED", "STAGE1_FAILED"} =>
              Consumed(m, e).stage1Pending = Minus(m.stage1Pending, e.n)
<1>1. CASE e.kind = "STAGE1_STARTED"
  <2>1. Consumed(m, e) = [m EXCEPT !.stage1Pending = @ + e.n]
    BY <1>1 DEF Consumed
  <2> QED BY <1>1, <2>1 DEF Metrics
<1>2. CASE e.kind = "STAGE1_APPROVED"
  <2>1. Consumed(m, e) = [m EXCEPT !.stage1Pending = Minus(@, e.n), !.stage1Approved = @ + e.n]
    BY <1>2 DEF Consumed
  <2> QED BY <1>2, <2>1 DEF Metrics
<1>3. CASE e.kind = "STAGE1_REJECTED"
  <2>1. Consumed(m, e) = [m EXCEPT !.stage1Pending = Minus(@, e.n), !.stage1Rejected = @ + e.n]
    BY <1>3 DEF Consumed
  <2> QED BY <1>3, <2>1 DEF Metrics
<1>4. CASE e.kind = "STAGE1_FAILED"
  <2>1. Consumed(m, e) = [m EXCEPT !.stage1Pending = Minus(@, e.n)]
    BY <1>4 DEF Consumed
  <2> QED BY <1>4, <2>1 DEF Metrics
<1> QED BY <1>1, <1>2, <1>3, <1>4

-----------------------------------------------------------------------------
(* What is written to the ledger                                           *)

SameCandidate(record, other) ==
  /\ record.attempt = other.attempt /\ record.run = other.run /\ record.local = other.local

\* A write that succeeds is what was told.
LEMMA WroteIs ==
  ASSUME NEW record \in Entry, NEW status \in Statuses
  PROVE  /\ Wrote(record, status) \in Entry /\ SameCandidate(Wrote(record, status), record)
         /\ Wrote(record, status).status = status /\ Wrote(record, status).told = status
         /\ Wrote(record, status).verdict = record.verdict
         /\ Wrote(record, status).copyOf = record.copyOf
BY DEF Wrote, Entry, SameCandidate

\* Stage 2 tells nothing about the download.
LEMMA RulingIs ==
  ASSUME NEW record \in Entry, NEW verdict \in Rulings
  PROVE  /\ Ruling(record, verdict) \in Entry /\ SameCandidate(Ruling(record, verdict), record)
         /\ Ruling(record, verdict).status = "COMPLETED"
         /\ Ruling(record, verdict).told = record.told
         /\ Ruling(record, verdict).verdict = verdict
         /\ Ruling(record, verdict).copyOf = record.copyOf
<1>1. "COMPLETED" \in Statuses
  BY DEF Statuses
<1> QED BY <1>1 DEF Ruling, Entry, SameCandidate

\* The end of an attempt is told, and written or not.
LEMMA RecordedIs ==
  ASSUME LedgerOK, NEW d \in Doc, NEW status \in Statuses, NEW record \in Recorded(d, status)
  PROVE  /\ record \in Entry /\ SameCandidate(record, ledger[d])
         /\ record.told = status /\ record.status \in {ledger[d].status, status}
         /\ record.verdict \in {ledger[d].verdict, "PENDING"}
         /\ record.copyOf = ledger[d].copyOf
<1>1. ledger[d] \in Entry /\ "PENDING" \in Rulings
  BY DEF LedgerOK, Rulings
<1>2. CASE record = [ledger[d] EXCEPT !.told = status]
  BY <1>1, <1>2 DEF Entry, SameCandidate
<1>3. CASE record = [Wrote(ledger[d], status) EXCEPT
                       !.verdict = IF ledger[d].local THEN "PENDING" ELSE @]
  <2>1. PICK verdict \in {ledger[d].verdict, "PENDING"} :
          record = [Wrote(ledger[d], status) EXCEPT !.verdict = verdict]
    BY <1>1, <1>3, WroteIs
  <2>2. Wrote(ledger[d], status) \in Entry /\ verdict \in Rulings
    BY <1>1, <2>1, WroteIs DEF Entry
  <2>3. /\ record \in Entry /\ record.told = Wrote(ledger[d], status).told
        /\ record.status = Wrote(ledger[d], status).status /\ record.verdict = verdict
        /\ record.copyOf = Wrote(ledger[d], status).copyOf
        /\ SameCandidate(record, Wrote(ledger[d], status))
    BY <2>1, <2>2 DEF Entry, SameCandidate
  <2> QED BY <1>1, <2>1, <2>3, WroteIs DEF SameCandidate
<1> QED BY <1>2, <1>3 DEF Recorded

\* What a run finds in a record when it starts.
LEMMA HealedIs ==
  ASSUME NEW record \in Entry
  PROVE  /\ Healed(record) \in Entry /\ SameCandidate(Healed(record), record)
         /\ Healed(record).told = Healed(record).status
         /\ Healed(record).status = IF record.told = "COMPLETED" /\ ~record.local
                                   THEN "COMPLETED" ELSE record.status
         /\ Healed(record).verdict = record.verdict /\ Healed(record).copyOf = record.copyOf
<1> DEFINE status == IF record.told = "COMPLETED" /\ ~record.local THEN record.told ELSE record.status
<1>1. status \in Statuses
  BY DEF Entry
<1>2. Healed(record) = Wrote(record, status)
  BY DEF Healed
<1> HIDE DEF status
<1>3. /\ Healed(record) \in Entry /\ SameCandidate(Healed(record), record)
      /\ Healed(record).told = Healed(record).status /\ Healed(record).status = status
      /\ Healed(record).verdict = record.verdict /\ Healed(record).copyOf = record.copyOf
  BY <1>1, <1>2, WroteIs
<1> QED BY <1>3 DEF status

\* Where no write lags far, a document is new when nothing was told of it, and
\* it stays new as long as nothing is told.
LEMMA NewIs ==
  ASSUME Lags
  PROVE  /\ New = {d \in Doc : ledger[d].told = "none"}
         /\ (/\ Lags'
             /\ \A d \in Doc : ledger'[d].told = "none" <=> ledger[d].told = "none")
            => New' = New
<1>1. New = {d \in Doc : ledger[d].told = "none"}
  BY DEF Lags, Near, Begun, New
<1>2. Lags' => New' = {d \in Doc : ledger'[d].told = "none"}
  BY DEF Lags, Near, Begun, New
<1> QED BY <1>1, <1>2

-----------------------------------------------------------------------------
(* What each step tells                                                    *)

\* What jobs, documents and batches are announced with are events.
LEMMA MessageTypes ==
  /\ \A kind \in Kinds, job \in Job : About(kind, job) \in Message
  /\ LedgerOK =>
       \A kind \in Kinds, d \in Doc : ledger[d].run # 0 =>
         /\ About(kind, Job2(d)) \in Message
         /\ About(kind, Job2(d)).run = ledger[d].run /\ About(kind, Job2(d)).doc = d
  /\ \A kind \in Kinds \ Stage2Kinds, r \in 1..MaxRuns, n \in Nat :
       Event(kind, r, NoDoc, n) \in Message
<1>1. ASSUME NEW kind \in Kinds, NEW job \in Job PROVE About(kind, job) \in Message
  BY DashboardAssumption DEF About, Event, Job, Message
<1>2. ASSUME LedgerOK, NEW kind \in Kinds, NEW d \in Doc, ledger[d].run # 0
      PROVE  /\ About(kind, Job2(d)) \in Message
             /\ About(kind, Job2(d)).run = ledger[d].run /\ About(kind, Job2(d)).doc = d
  <2>1. ledger[d].run \in 1..MaxRuns
    BY <1>2 DEF LedgerOK, Entry
  <2> QED BY <1>2, <2>1 DEF About, Event, Job2, Message
<1>3. ASSUME NEW kind \in Kinds \ Stage2Kinds, NEW r \in 1..MaxRuns, NEW n \in Nat
      PROVE  Event(kind, r, NoDoc, n) \in Message
  BY <1>3 DEF Event, Message, Stage2Kinds
<1> QED BY <1>1, <1>2, <1>3

Sound == DashboardTypes /\ Runs /\ PoolFits /\ Records

\* Typed messages and their runs are what the lemmas about events ask for.
LEMMA SoundHeard ==
  ASSUME Sound
  PROVE  Heard
<1>1. bus \in Seq(Message) /\ \A i \in DOMAIN bus : bus[i].run <= run
  BY DEF Sound, DashboardTypes, BusOK, Runs
<1> QED BY <1>1 DEF Sound, DashboardTypes, ViewOK, MainOK, Heard

\* The job of an active worker.
LEMMA TurnJob ==
  ASSUME Sound, NEW w \in Worker, turn[w].step # "idle"
  PROVE  /\ turn[w].job \in Job /\ turn[w].job.doc \in Doc
         /\ turn[w].job.run = ledger[turn[w].job.doc].run
         /\ turn[w].job.attempt = ledger[turn[w].job.doc].attempt
         /\ turn[w].job.run <= run /\ ledger[turn[w].job.doc].told \in Begun
<1>1. w \in Active /\ turn[w].job \in Job
  BY DEF Sound, DashboardTypes, PoolOK, Active
<1>2. turn[w].job.doc \in Doc
  BY <1>1 DEF Job
<1>3. turn[w].step \in TurnSteps
  BY DEF Sound, DashboardTypes, PoolOK, Turn
<1>4. Open(ledger, turn[w].job) \/ \E r \in Results : Settled(ledger, turn[w].job, r)
  <2>1. turn[w].result \in Results
    BY DEF Sound, DashboardTypes, PoolOK, Turn
  <2> QED BY <1>1, <1>3, <2>1 DEF Sound, PoolFits, TurnSteps, Results
<1>5. Fits(ledger, turn[w].job) /\ ledger[turn[w].job.doc].told \in Begun
  BY <1>4 DEF Open, Settled, Begun
<1> QED BY <1>1, <1>2, <1>5 DEF Fits, Sound, Runs

\* One event.
LEMMA OneTells ==
  ASSUME Sound, NEW e \in Message, e.run <= run, Put(<<e>>), UNCHANGED <<metrics, run>>
  PROVE  Tells(<<e>>)
<1>1. <<e>> \in Seq(Message) /\ \A i \in 1..Len(<<e>>) : <<e>>[i].run <= run
  OBVIOUS
<1> QED BY <1>1, SoundHeard, PublishTells

\* The ledger's event about a document.
LEMMA LedgerTells ==
  ASSUME Sound, NEW kind \in Kinds, NEW d \in Doc, ledger[d].told \in Begun,
         Put(<<About(kind, Job2(d))>>), UNCHANGED <<metrics, run>>
  PROVE  Tells(<<About(kind, Job2(d))>>)
<1>1. About(kind, Job2(d)) \in Message /\ About(kind, Job2(d)).run <= run
  BY MessageTypes DEF Sound, DashboardTypes, Runs
<1> QED BY <1>1, OneTells

\* What the hand-over to Stage 2 does.
Rules(d, record, verdicts) ==
  \E new \in {record} \union {Ruling(record, verdict) : verdict \in verdicts} :
    ledger' = [ledger EXCEPT ![d] = new]
Queueing(d, next) ==
  \/ UNCHANGED stage2Queue
  \/ stage2Queue' = Append(stage2Queue, d)
RulesWith(kind) == IF kind = "STAGE2_INVALID" THEN {"PDF_INVALID"} ELSE {"QUEUED", "PENDING"}

\* The four outcomes of _schedule_validation, with what each publishes.
LEMMA ScheduledDoes ==
  ASSUME Sound, NEW d \in Doc, ledger[d].told \in Begun, NEW next, NEW record,
         Scheduled(d, next, record), UNCHANGED <<metrics, run>>
  PROVE  /\ Queueing(d, next)
         /\ \/ Rules(d, record, {"QUEUED"}) /\ Tells(<<>>)
            \/ \E kind \in {"STAGE2_INVALID", "STAGE2_PENDING"} :
                 Rules(d, record, RulesWith(kind)) /\ Tells(<<About(kind, Job2(d))>>)
<1>1. CASE Rules(d, record, {}) /\ UNCHANGED <<stage2Queue, bus>>
  <2>1. Rules(d, record, {"QUEUED"})
    BY <1>1 DEF Rules
  <2> QED BY <1>1, <2>1, SoundHeard, SilenceTells DEF Queueing
<1>2. ASSUME NEW kind \in {"STAGE2_INVALID", "STAGE2_PENDING"}, UNCHANGED stage2Queue,
             Rules(d, record, RulesWith(kind)), Put(<<About(kind, Job2(d))>>)
      PROVE  Queueing(d, next) /\ Rules(d, record, RulesWith(kind)) /\ Tells(<<About(kind, Job2(d))>>)
  <2>1. kind \in Kinds
    BY DEF Kinds, Stage2Kinds
  <2> QED BY <1>2, <2>1, LedgerTells DEF Queueing
<1>3. CASE Rules(d, record, {"QUEUED"}) /\ stage2Queue' = Append(stage2Queue, d) /\ UNCHANGED bus
  BY <1>3, SoundHeard, SilenceTells DEF Queueing
<1>4. \/ Rules(d, record, {}) /\ UNCHANGED <<stage2Queue, bus>>
      \/ Rules(d, record, {"QUEUED"}) /\ stage2Queue' = Append(stage2Queue, d) /\ UNCHANGED bus
      \/ \E kind \in {"STAGE2_INVALID", "STAGE2_PENDING"} :
           UNCHANGED stage2Queue /\ Rules(d, record, RulesWith(kind)) /\ Put(<<About(kind, Job2(d))>>)
  BY DEF Scheduled, Rules, RulesWith
<1> QED BY <1>1, <1>2, <1>3, <1>4

\* What the hand-over leaves in the record.
LEMMA RulesLeave ==
  ASSUME LedgerOK, NEW d \in Doc, NEW record \in Entry, NEW verdicts \in SUBSET Rulings,
         Rules(d, record, verdicts)
  PROVE  /\ \A c \in Doc \ {d} : ledger'[c] = ledger[c]
         /\ ledger'[d] \in Entry /\ SameCandidate(ledger'[d], record)
         /\ ledger'[d].told = record.told /\ ledger'[d].status \in {record.status, "COMPLETED"}
         /\ ledger'[d].verdict \in {record.verdict} \union verdicts
         /\ ledger'[d].copyOf = record.copyOf
         /\ LedgerOK'
<1>1. PICK new \in {record} \union {Ruling(record, verdict) : verdict \in verdicts} :
        ledger' = [ledger EXCEPT ![d] = new]
  BY DEF Rules
<1>2. /\ new \in Entry /\ SameCandidate(new, record) /\ new.told = record.told
      /\ new.status \in {record.status, "COMPLETED"} /\ new.copyOf = record.copyOf
      /\ new.verdict \in {record.verdict} \union verdicts
  <2>1. CASE new = record
    BY <2>1 DEF SameCandidate
  <2>2. ASSUME NEW verdict \in verdicts, new = Ruling(record, verdict)
        PROVE  /\ new \in Entry /\ SameCandidate(new, record) /\ new.told = record.told
               /\ new.status \in {record.status, "COMPLETED"} /\ new.copyOf = record.copyOf
               /\ new.verdict \in {record.verdict} \union verdicts
    <3>1. verdict \in Rulings
      OBVIOUS
    <3> QED BY <2>2, <3>1, RulingIs
  <2> QED BY <2>1, <2>2
<1>3. ledger'[d] = new /\ \A c \in Doc \ {d} : ledger'[c] = ledger[c]
  BY <1>1 DEF LedgerOK
<1>4. LedgerOK'
  BY <1>1, <1>2 DEF LedgerOK
<1> QED BY <1>2, <1>3, <1>4

\* The verdicts that the hand-over may leave are verdicts.
LEMMA RulesTypes ==
  /\ {"QUEUED"} \in SUBSET Rulings
  /\ \A kind : RulesWith(kind) \in SUBSET Rulings
BY DEF RulesWith, Rulings, Verdicts

\* Steps that publish nothing, and those that only refresh.
SilentStep ==
  \/ \E w \in Worker : Take(w) \/ Return(w)
  \/ \E v \in Validator : Raise(v)
  \/ DrainPool \/ LastPage \/ Admit \/ Enqueue \/ DrainedOut \/ Round \/ Retry \/ Cancel \/ Closed

\* The steps that publish nothing.
LEMMA SilentTells ==
  ASSUME Sound, SilentStep
  PROVE  Tells(<<>>)
<1>1. UNCHANGED <<bus, metrics, run>>
  <2>1. ASSUME NEW w \in Worker, Take(w) \/ Return(w) PROVE UNCHANGED <<bus, metrics, run>>
    BY <2>1 DEF Take, Return, UnchangedByWorker, viewVars, mainVars, busVars
  <2>2. ASSUME NEW v \in Validator, Raise(v) PROVE UNCHANGED <<bus, metrics, run>>
    BY <2>2 DEF Raise, UnchangedByValidator, viewVars, mainVars
  <2>3. ASSUME DrainPool \/ LastPage \/ Admit \/ Enqueue \/ DrainedOut
        PROVE UNCHANGED <<bus, metrics, run>>
    BY <2>3 DEF DrainPool, LastPage, Admit, Enqueue, DrainedOut, viewVars, busVars
  <2>4. ASSUME Round \/ Retry \/ Cancel \/ Closed PROVE UNCHANGED <<bus, metrics, run>>
    BY <2>4 DEF Round, Retry, Cancel, Closed, viewVars, busVars
  <2> QED BY <2>1, <2>2, <2>3, <2>4 DEF SilentStep
<1> QED BY <1>1, SoundHeard, SilenceTells

\* The steps that only refresh show all that was published.
LEMMA RefreshOnlyTells ==
  ASSUME Sound, DrainBus \/ PageDone \/ RoundAdmitted \/ Finish
  PROVE  Tells(<<>>) /\ metrics' = Now'
<1>1. Refresh(bus) /\ run' = run
  BY DEF DrainBus, PageDone, RoundAdmitted, Finish
<1>2. Heard /\ <<>> \in Seq(Message) /\ bus \o <<>> = bus
  BY SoundHeard DEF Heard
<1>3. \A i \in 1..Len(<<>>) : <<>>[i].run <= run
  OBVIOUS
<1>4. Refresh(bus \o <<>>)
  BY <1>1, <1>2
<1> QED BY <1>1, <1>2, <1>3, <1>4, RefreshTells

-----------------------------------------------------------------------------
(* Types                                                                   *)

Parts ==
  /\ net \in Seq([worker : Worker, state : RowStates]) /\ rows \in [Worker -> RowStates]
  /\ MainOK /\ PoolOK /\ Stage2OK /\ LedgerOK

\* A record of the ledger is rewritten.
LEMMA LedgerPut ==
  ASSUME LedgerOK, NEW d \in Doc, NEW record \in Entry, ledger' = [ledger EXCEPT ![d] = record]
  PROVE  LedgerOK'
BY DEF LedgerOK

\* _schedule_validation keeps the ledger and the Stage 2 queue typed.
LEMMA RulingPut ==
  ASSUME Sound, NEW d \in Doc, ledger[d].told \in Begun, NEW next, NEW record \in Entry,
         Scheduled(d, next, record), UNCHANGED <<metrics, run, judge>>
  PROVE  LedgerOK' /\ Stage2OK'
<1>1. /\ Queueing(d, next)
      /\ \E verdicts \in SUBSET Rulings : Rules(d, record, verdicts)
  BY ScheduledDoes, RulesTypes
<1>2. Stage2OK'
  BY <1>1 DEF Queueing, Sound, DashboardTypes, Stage2OK
<1>3. LedgerOK'
  BY <1>1, RulesLeave DEF Sound, DashboardTypes
<1> QED BY <1>2, <1>3

\* The worker goes on with its job.
LEMMA TurnGoes ==
  ASSUME Sound, NEW w \in Worker, turn[w].step # "idle", NEW step \in TurnSteps, NEW result \in Results,
         \/ turn' = [turn EXCEPT ![w].step = step]
         \/ turn' = [turn EXCEPT ![w] = [@ EXCEPT !.step = step, !.result = result]],
         UNCHANGED <<jobs, outcomes>>
  PROVE  PoolOK'
<1> USE DEF Sound, DashboardTypes, PoolOK
<1>1. turn \in [Worker -> Turn] /\ turn[w] \in Turn /\ turn[w].job \in Job
  BY TurnJob
<1>2. [turn[w] EXCEPT !.step = step] \in Turn /\ [turn[w] EXCEPT !.step = step, !.result = result] \in Turn
  BY <1>1 DEF Turn
<1>3. turn' \in [Worker -> Turn]
  BY <1>1, <1>2
<1>4. turn'[w].job \in Job /\ \A v \in Worker \ {w} : turn'[v] = turn[v]
  BY <1>1 DEF Turn
<1>5. \A v \in Active' : turn'[v].job \in Job
  BY <1>4 DEF Active
<1> QED BY <1>3, <1>5

\* Each step of a worker keeps its parts of the state typed.
LEMMA WorkerParts ==
  ASSUME Sound, NEW w \in Worker, DownloadStep(w)
  PROVE  Parts'
<1> USE DEF Sound, DashboardTypes, UnchangedByWorker, viewVars, mainVars, busVars
<1>0. Parts
  BY DEF Parts, BusOK, ViewOK
<1>1. CASE Take(w)
  <2>1. /\ jobs # <<>> /\ jobs' = Tail(jobs) /\ UNCHANGED <<net, rows, run, pc, drain, backlog, outcomes>>
        /\ turn' = [turn EXCEPT ![w] = [step |-> "taken", job |-> Head(jobs), result |-> "success"]]
        /\ UNCHANGED <<stage2Queue, judge, ledger>>
    BY <1>1 DEF Take
  <2>2. Head(jobs) \in Job /\ Tail(jobs) \in Seq(Job)
    BY <2>1 DEF PoolOK
  <2>3. PoolOK'
    <3>1. [step |-> "taken", job |-> Head(jobs), result |-> "success"] \in Turn
      BY <2>2 DEF Turn, TurnSteps, Results
    <3>2. turn' \in [Worker -> Turn] /\ turn'[w].job \in Job /\ \A v \in Worker \ {w} : turn'[v] = turn[v]
      BY <2>1, <2>2, <3>1 DEF PoolOK
    <3>3. \A v \in Active' : turn'[v].job \in Job
      BY <3>2 DEF Active, PoolOK
    <3> QED BY <2>1, <2>2, <3>2, <3>3 DEF PoolOK
  <2> QED BY <1>0, <2>1, <2>3 DEF Parts, MainOK, Stage2OK, LedgerOK
<1>2. CASE BeginAttempt(w)
  <2>1. /\ turn[w].step = "taken" /\ turn' = [turn EXCEPT ![w].step = "working"]
        /\ net' = Append(net, Report(w, "BUSY")) /\ UNCHANGED <<rows, run, pc, drain, backlog>>
        /\ UNCHANGED <<jobs, outcomes, stage2Queue, judge>>
        /\ ledger' = [ledger EXCEPT ![turn[w].job.doc] = Wrote(@, "OPEN")]
    BY <1>2 DEF BeginAttempt, Goes, Sends
  <2>2. turn[w].job.doc \in Doc /\ ledger[turn[w].job.doc] \in Entry
    BY <2>1, TurnJob DEF LedgerOK
  <2>3. LedgerOK'
    <3>1. Wrote(ledger[turn[w].job.doc], "OPEN") \in Entry
      BY <2>2, WroteIs DEF Statuses
    <3> QED BY <2>1, <2>2, <3>1 DEF LedgerOK
  <2>4. PoolOK'
    BY <2>1, TurnGoes DEF TurnSteps, Results
  <2>5. net' \in Seq([worker : Worker, state : RowStates])
    BY <1>0, <2>1 DEF Parts, Report, RowStates
  <2> QED BY <1>0, <2>1, <2>3, <2>4, <2>5 DEF Parts, MainOK, Stage2OK
<1>3. CASE Store(w)
  <2> DEFINE d == turn[w].job.doc
  <2>1. PICK next \in {"announce", "landed"}, record \in Recorded(d, "COMPLETED") :
          Scheduled(d, next, record) /\ turn' = [turn EXCEPT ![w].step = next]
    BY <1>3 DEF Store, Goes
  <2>2. /\ turn[w].step # "idle" /\ UNCHANGED <<net, rows, metrics, run, pc, drain, backlog, jobs, outcomes, judge>>
    BY <1>3 DEF Store
  <2>3. d \in Doc /\ ledger[d].told \in Begun
    BY <2>2, TurnJob
  <2>4. record \in Entry
    <3>1. "COMPLETED" \in Statuses
      BY DEF Statuses
    <3> HIDE DEF d
    <3> QED BY <2>1, <2>3, <3>1, RecordedIs
  <2>5. LedgerOK' /\ Stage2OK'
    <3> HIDE DEF d
    <3> QED BY <2>1, <2>2, <2>3, <2>4, RulingPut
  <2>6. PoolOK'
    BY <2>1, <2>2, TurnGoes DEF TurnSteps, Results
  <2> QED BY <1>0, <2>2, <2>5, <2>6 DEF Parts, MainOK
<1>4. CASE Fail(w)
  <2>1. /\ turn[w].step = "working"
        /\ turn' = [turn EXCEPT ![w] = [@ EXCEPT !.step = "ended", !.result = "failure"]]
        /\ UNCHANGED <<rows, run, pc, drain, backlog>>
        /\ UNCHANGED <<jobs, outcomes, stage2Queue, judge>>
    BY <1>4 DEF Fail, Goes, Sends
  <2>2. turn[w].job.doc \in Doc
    BY <2>1, TurnJob
  <2>3. LedgerOK'
    <3>0. PICK s \in Statuses : \E record \in Recorded(turn[w].job.doc, s) :
            ledger' = [ledger EXCEPT ![turn[w].job.doc] = record]
      BY <1>4 DEF Fail, Statuses
    <3>1. PICK record \in Recorded(turn[w].job.doc, s) :
            ledger' = [ledger EXCEPT ![turn[w].job.doc] = record]
      BY <3>0
    <3>2. record \in Entry
      BY <2>2, <3>1, RecordedIs
    <3> QED BY <2>2, <3>1, <3>2 DEF LedgerOK
  <2>4. PoolOK'
    BY <2>1, TurnGoes DEF TurnSteps, Results
  <2>5. net' \in Seq([worker : Worker, state : RowStates])
    <3>1. PICK s \in RowStates : net' = Append(net, Report(w, s))
      BY <1>4 DEF Fail, Sends, RowStates
    <3> QED BY <1>0, <3>1 DEF Parts, Report
  <2> QED BY <1>0, <2>1, <2>3, <2>4, <2>5 DEF Parts, MainOK, Stage2OK
<1>5. CASE Announce(w)
  <2>1. /\ turn[w].step = "announce" /\ turn' = [turn EXCEPT ![w].step = "landed"]
        /\ UNCHANGED <<net, rows, run, pc, drain, backlog>>
        /\ UNCHANGED <<jobs, outcomes, stage2Queue, judge, ledger>>
    BY <1>5 DEF Announce, Goes
  <2>2. PoolOK'
    BY <2>1, TurnGoes DEF TurnSteps, Results
  <2> QED BY <1>0, <2>1, <2>2 DEF Parts, MainOK, Stage2OK, LedgerOK
<1>6. CASE Land(w)
  <2>1. /\ turn[w].step = "landed" /\ turn' = [turn EXCEPT ![w].step = "ended"]
        /\ net' = Append(net, Report(w, "COMPLETED")) /\ UNCHANGED <<rows, run, pc, drain, backlog>>
        /\ UNCHANGED <<jobs, outcomes, stage2Queue, judge, ledger>>
    BY <1>6 DEF Land, Goes, Sends
  <2>2. PoolOK'
    BY <2>1, TurnGoes DEF TurnSteps, Results
  <2>3. net' \in Seq([worker : Worker, state : RowStates])
    BY <1>0, <2>1 DEF Parts, Report, RowStates
  <2> QED BY <1>0, <2>1, <2>2, <2>3 DEF Parts, MainOK, Stage2OK, LedgerOK
<1>7. CASE Return(w)
  <2>1. /\ turn[w].step = "ended" /\ turn' = [turn EXCEPT ![w] = Resting]
        /\ outcomes' = Append(outcomes, [job |-> turn[w].job, result |-> turn[w].result])
        /\ UNCHANGED <<net, rows, run, pc, drain, backlog, jobs, stage2Queue, judge, ledger>>
    BY <1>7 DEF Return
  <2>2. turn[w].job \in Job /\ turn[w].result \in Results
    BY <2>1, TurnJob DEF PoolOK, Turn
  <2>3. outcomes' \in Seq([job : Job, result : Results])
    BY <2>1, <2>2 DEF PoolOK
  <2>4. Resting \in Turn
    BY DEF Resting, Turn, TurnSteps, Results
  <2>5. turn' \in [Worker -> Turn] /\ turn'[w].step = "idle" /\ \A v \in Worker \ {w} : turn'[v] = turn[v]
    BY <2>1, <2>4 DEF PoolOK, Resting
  <2>6. \A v \in Active' : turn'[v].job \in Job
    BY <2>5 DEF Active, PoolOK
  <2>7. PoolOK'
    BY <2>1, <2>3, <2>5, <2>6 DEF PoolOK
  <2> QED BY <1>0, <2>1, <2>7 DEF Parts, MainOK, Stage2OK, LedgerOK
<1> QED BY <1>1, <1>2, <1>3, <1>4, <1>5, <1>6, <1>7 DEF DownloadStep

\* Each step of a validator keeps its parts of the state typed.
LEMMA ValidatorParts ==
  ASSUME Sound, NEW v \in Validator, ValidatorStep(v)
  PROVE  Parts'
<1> USE DEF Sound, DashboardTypes, UnchangedByValidator, viewVars, mainVars, poolVars
<1>0. Parts
  BY DEF Parts, BusOK, ViewOK
<1>1. UNCHANGED <<net, rows, run, pc, drain, backlog, jobs, turn, outcomes>>
  BY DEF ValidatorStep, Check, LinkCopy, Judge, Raise
<1>2. CASE Check(v)
  <2>1. /\ stage2Queue # <<>> /\ judge' = [judge EXCEPT ![v] = Head(stage2Queue)]
        /\ stage2Queue' = Tail(stage2Queue)
        /\ ledger' = [ledger EXCEPT ![Head(stage2Queue)] = Ruling(@, "RUNNING")]
    BY <1>2 DEF Check
  <2>2. Head(stage2Queue) \in Doc /\ Tail(stage2Queue) \in Seq(Doc)
    BY <2>1 DEF Stage2OK
  <2>3. LedgerOK'
    <3>1. Ruling(ledger[Head(stage2Queue)], "RUNNING") \in Entry
      BY <2>2, RulingIs DEF LedgerOK, Rulings
    <3> QED BY <2>1, <2>2, <3>1 DEF LedgerOK
  <2>4. Stage2OK'
    BY <2>1, <2>2 DEF Stage2OK
  <2> QED BY <1>0, <1>1, <2>3, <2>4 DEF Parts, MainOK, PoolOK, Active
<1>3. CASE LinkCopy(v) \/ Judge(v) \/ Raise(v)
  <2>1. judge[v] \in Doc /\ judge' = [judge EXCEPT ![v] = NoDoc] /\ stage2Queue' = stage2Queue
    BY <1>3 DEF LinkCopy, Judge, Raise, Released, Stage2OK
  <2>2. Stage2OK'
    BY <2>1 DEF Stage2OK
  <2>3. LedgerOK'
    <3>1. CASE LinkCopy(v)
      <4>1. PICK c \in Doc, r \in Rulings :
              ledger' = [ledger EXCEPT ![judge[v]] = [Ruling(@, r) EXCEPT !.hashed = TRUE, !.copyOf = c]]
        BY <3>1 DEF LinkCopy, Originals, Rulings, Verdicts
      <4>2. Ruling(ledger[judge[v]], r) \in Entry
        BY <2>1, <4>1, RulingIs DEF LedgerOK
      <4>3. [Ruling(ledger[judge[v]], r) EXCEPT !.hashed = TRUE, !.copyOf = c] \in Entry
        BY <4>2 DEF Entry
      <4> QED BY <2>1, <4>1, <4>3 DEF LedgerOK
    <3>2. CASE Judge(v)
      <4> DEFINE d == judge[v]
      <4>1. PICK r \in Verdicts \union {"PENDING"} :
              ledger' = [c \in Doc |->
                 IF c = d THEN [Ruling(ledger[d], r) EXCEPT !.hashed = ~ledger[d].local, !.copyOf = NoDoc]
                 ELSE IF c \in Copies(d, r) THEN [ledger[c] EXCEPT !.verdict = r] ELSE ledger[c]]
        BY <3>2 DEF Judge
      <4>2. r \in Rulings
        BY <4>1 DEF Rulings
      <4>3. \A c \in Doc : ledger[c] \in Entry /\ [ledger[c] EXCEPT !.verdict = r] \in Entry
        BY <4>2 DEF LedgerOK, Entry
      <4>4. [Ruling(ledger[d], r) EXCEPT !.hashed = ~ledger[d].local, !.copyOf = NoDoc] \in Entry
        <5>1. Ruling(ledger[d], r) \in Entry /\ ledger[d].local \in BOOLEAN
          BY <2>1, <4>2, RulingIs DEF LedgerOK, Entry
        <5>2. \A h \in BOOLEAN :
                [Ruling(ledger[d], r) EXCEPT !.hashed = h, !.copyOf = NoDoc] \in Entry
          BY <5>1 DEF Entry
        <5>3. CASE ledger[d].local = TRUE
          BY <5>2, <5>3
        <5>4. CASE ledger[d].local = FALSE
          BY <5>2, <5>4
        <5> QED BY <5>1, <5>3, <5>4
      <4> HIDE DEF d
      <4> QED BY <4>1, <4>3, <4>4 DEF LedgerOK
    <3>3. CASE Raise(v)
      <4>1. ledger' = [ledger EXCEPT ![judge[v]] = Ruling(@, "PENDING")]
        BY <3>3 DEF Raise
      <4>2. Ruling(ledger[judge[v]], "PENDING") \in Entry
        BY <2>1, RulingIs DEF LedgerOK, Rulings
      <4> QED BY <2>1, <4>1, <4>2 DEF LedgerOK
    <3> QED BY <1>3, <3>1, <3>2, <3>3
  <2> QED BY <1>0, <1>1, <2>2, <2>3 DEF Parts, MainOK, PoolOK, Active
<1> QED BY <1>2, <1>3 DEF ValidatorStep

\* Each step of the main thread keeps its parts of the state typed.
LEMMA MainParts ==
  ASSUME Sound, MainStep
  PROVE  Parts'
<1> USE DEF Sound, DashboardTypes, UnchangedByMain, viewVars, busVars
<1>0. /\ net \in Seq([worker : Worker, state : RowStates]) /\ rows \in [Worker -> RowStates]
      /\ MainOK /\ PoolOK /\ Stage2OK /\ LedgerOK
  BY DEF BusOK, ViewOK
<1>1. UNCHANGED <<turn, judge>>
  <2>1. ASSUME Start \/ Restore \/ AnnounceRestored \/ DrainPool \/ DrainBus \/ Discover \/ LastPage \/ Evaluated
               \/ NotEvaluated \/ Admit
        PROVE  UNCHANGED <<turn, judge>>
    BY <2>1 DEF Start, Restore, AnnounceRestored, DrainPool, DrainBus, Discover, LastPage, Evaluated,
                NotEvaluated, Admit
  <2>2. ASSUME PageDone \/ Enqueue \/ Emit \/ DrainedOut \/ Round \/ Retry \/ RoundAdmitted \/ Finish
               \/ Cancel \/ Closed
        PROVE  UNCHANGED <<turn, judge>>
    BY <2>2 DEF PageDone, Enqueue, Emit, DrainedOut, Round, Retry, RoundAdmitted, Finish, Cancel, Closed
  <2> QED BY <2>1, <2>2 DEF MainStep
<1>2. Active' = Active
  BY <1>1 DEF Active
<1>3. CASE Start
  <2>1. /\ net' = <<>> /\ rows' = [w \in Worker |-> "IDLE"] /\ run < MaxRuns /\ run' = run + 1
        /\ pc' = "restore" /\ UNCHANGED <<drain, jobs, outcomes, stage2Queue>>
        /\ ledger' = [d \in Doc |-> Healed(ledger[d])]
        /\ backlog' = {RestoredJob(d) : d \in Unsettled}
    BY <1>3 DEF Start
  <2>2. ASSUME NEW d \in Unsettled PROVE RestoredJob(d) \in Job
    <3>1. /\ d \in Doc /\ ledger[d] \in Entry /\ ledger[d].status \in {"OPEN", "FAILED_FOR_ROUND"}
          /\ ledger[d].told \in Begun
          /\ ledger[d].status = "FAILED_FOR_ROUND" => ledger[d].told = "FAILED_FOR_ROUND"
      <4>1. d \in Doc /\ ledger[d] \in Entry /\ Healed(ledger[d]).status \in {"OPEN", "FAILED_FOR_ROUND"}
        BY <2>2 DEF Unsettled, LedgerOK
      <4>2. ledger[d].status \in {"OPEN", "FAILED_FOR_ROUND"}
        BY <4>1, HealedIs
      <4> QED BY <4>1, <4>2 DEF Records, Lags, Near, Begun
    <3>2. ledger[d].run \in 1..MaxRuns /\ ledger[d].attempt \in 1..MaxAttempts
      BY <3>1 DEF Runs, Entry
    <3>3. ledger[d].status = "FAILED_FOR_ROUND" => ledger[d].attempt + 1 \in 1..MaxAttempts
      BY <3>1, <3>2, DashboardAssumption DEF Runs
    <3> QED BY <3>1, <3>2, <3>3 DEF RestoredJob, Job
  <2>3. MainOK'
    <3>1. backlog' \subseteq Job
      BY <2>1, <2>2
    <3>2. run' \in 0..MaxRuns
      BY <2>1, DashboardAssumption DEF MainOK
    <3> QED BY <2>1, <3>1, <3>2 DEF MainOK, Places
  <2>4. net' \in Seq([worker : Worker, state : RowStates]) /\ rows' \in [Worker -> RowStates]
    BY <2>1 DEF RowStates
  <2>5. LedgerOK'
    <3>1. \A d \in Doc : Healed(ledger[d]) \in Entry
      BY HealedIs DEF LedgerOK
    <3> QED BY <2>1, <3>1 DEF LedgerOK
  <2> QED BY <1>0, <1>1, <1>2, <2>1, <2>3, <2>4, <2>5 DEF Parts, PoolOK, Stage2OK
<1>4. CASE Restore
  <2>1. /\ pc = "restore" /\ UNCHANGED <<net, rows, metrics, run, drain, backlog, jobs, outcomes>>
        /\ pc' \in {"page", "restore", "announce"}
    BY <1>4 DEF Restore
  <2>2. MainOK'
    BY <2>1 DEF MainOK, Places
  <2>3. LedgerOK' /\ Stage2OK'
    <3>1. CASE items = {}
      <4>1. UNCHANGED <<stage2Queue, ledger>>
        BY <1>4, <3>1 DEF Restore
      <4> QED BY <1>0, <1>1, <4>1 DEF LedgerOK, Stage2OK
    <3>2. CASE items # {}
      <4>1. PICK d \in items, next \in {"announce", "landed"} : Scheduled(d, next, ledger[d])
        BY <1>4, <3>2 DEF Restore
      <4>2. d \in Doc /\ ledger[d] \in Entry /\ ledger[d].told \in Begun
        BY <2>1, <4>1 DEF ItemsOK, LedgerOK, Records, Handed, InValidation
      <4> QED BY <1>1, <2>1, <4>1, <4>2, RulingPut
    <3> QED BY <3>1, <3>2
  <2> QED BY <1>0, <1>1, <1>2, <2>1, <2>2, <2>3 DEF Parts, PoolOK
<1>5. CASE DrainPool
  <2>1. /\ rows' = AllPresented(rows, net) /\ net' = <<>> /\ outcomes' = <<>> /\ drain' = "bus"
        /\ UNCHANGED <<run, pc, jobs, stage2Queue, ledger>>
        /\ backlog' = backlog \union
             {[outcomes[i].job EXCEPT !.attempt = @ + 1, !.again = TRUE] :
              i \in {k \in DOMAIN outcomes : /\ outcomes[k].result = "failure"
                                             /\ outcomes[k].job.attempt < MaxAttempts}}
    BY <1>5 DEF DrainPool
  <2>2. ASSUME NEW i \in DOMAIN outcomes, outcomes[i].job.attempt < MaxAttempts
        PROVE  [outcomes[i].job EXCEPT !.attempt = @ + 1, !.again = TRUE] \in Job
    <3>1. outcomes[i] \in [job : Job, result : Results]
      <4>1. outcomes \in Seq([job : Job, result : Results])
        BY <1>0 DEF PoolOK
      <4> QED BY <2>2, <4>1, ElementType
    <3>2. outcomes[i].job \in Job
      BY <3>1
    <3>3. outcomes[i].job.attempt + 1 \in 1..MaxAttempts
      BY <2>2, <3>2, DashboardAssumption DEF Job
    <3> QED BY <3>2, <3>3 DEF Job
  <2>3. backlog' \subseteq Job
    BY <1>0, <2>1, <2>2 DEF MainOK
  <2>4. MainOK'
    BY <1>0, <2>1, <2>3 DEF MainOK
  <2>5. rows' \in [Worker -> RowStates]
    BY <1>0, <2>1, PresentedType DEF Rows, Tidings
  <2>6. outcomes' \in Seq([job : Job, result : Results]) /\ net' \in Seq([worker : Worker, state : RowStates])
    <3>1. <<>> \in Seq([job : Job, result : Results]) /\ <<>> \in Seq([worker : Worker, state : RowStates])
      OBVIOUS
    <3> QED BY <2>1, <3>1
  <2> QED BY <1>0, <1>1, <1>2, <2>1, <2>4, <2>5, <2>6 DEF Parts, PoolOK, Stage2OK, LedgerOK
<1>6. CASE Evaluated
  <2>1. /\ UNCHANGED <<net, rows, run, drain, backlog, jobs, outcomes, stage2Queue>>
        /\ pc' \in {"page", "approve"}
    BY <1>6 DEF Evaluated
  <2>2. PICK approved \in SUBSET items :
          ledger' = [d \in Doc |-> IF d \notin items \ approved THEN ledger[d]
                                   ELSE Wrote(ledger[d], "STAGE1_REJECTED")]
    BY <1>6 DEF Evaluated
  <2>3. \A d \in Doc : ledger[d] \in Entry /\ Wrote(ledger[d], "STAGE1_REJECTED") \in Entry
    BY <1>0, WroteIs DEF LedgerOK, Statuses
  <2>4. LedgerOK'
    BY <2>2, <2>3 DEF LedgerOK
  <2>5. MainOK'
    BY <1>0, <2>1 DEF MainOK, Places
  <2> QED BY <1>0, <1>1, <1>2, <2>1, <2>4, <2>5 DEF Parts, PoolOK, Stage2OK
<1>7. CASE Admit
  <2>1. /\ UNCHANGED <<net, rows, run, drain, backlog, jobs, outcomes, stage2Queue>>
        /\ pc = "admit" /\ pc' = "put"
    BY <1>7 DEF Admit
  <2>2. PICK d \in items, local \in BOOLEAN :
          ledger' = [ledger EXCEPT ![d] = [Wrote(@, "OPEN") EXCEPT !.attempt = 1, !.run = run, !.local = local]]
    BY <1>7 DEF Admit
  <2>3. d \in Doc
    BY <2>1 DEF ItemsOK, New
  <2>4. 1 \in 0..MaxAttempts /\ run \in 0..MaxRuns
    BY <1>0, DashboardAssumption DEF MainOK
  <2>5. LedgerOK'
    <3>1. [Wrote(ledger[d], "OPEN") EXCEPT !.attempt = 1, !.run = run, !.local = local] \in Entry
      <4>1. Wrote(ledger[d], "OPEN") \in Entry
        BY <1>0, <2>3, WroteIs DEF LedgerOK, Statuses
      <4> QED BY <2>4, <4>1 DEF Entry
    <3> QED BY <1>0, <2>2, <2>3, <3>1 DEF LedgerOK
  <2>6. MainOK'
    BY <1>0, <2>1 DEF MainOK, Places
  <2> QED BY <1>0, <1>1, <1>2, <2>1, <2>5, <2>6 DEF Parts, PoolOK, Stage2OK
<1>8. CASE Retry
  <2>1. /\ UNCHANGED <<net, rows, run, drain, backlog, jobs, outcomes, stage2Queue>>
        /\ pc = "retry" /\ pc' = "put"
    BY <1>8 DEF Retry
  <2>2. PICK job \in items :
          ledger' = [ledger EXCEPT ![job.doc] = [Wrote(@, "OPEN") EXCEPT !.attempt = job.attempt]]
    BY <1>8 DEF Retry
  <2>3. job \in Job
    BY <2>1 DEF ItemsOK, Retrying
  <2>4. job.doc \in Doc /\ job.attempt \in 0..MaxAttempts
    BY <2>3 DEF Job
  <2>5. LedgerOK'
    <3>1. [Wrote(ledger[job.doc], "OPEN") EXCEPT !.attempt = job.attempt] \in Entry
      <4>1. Wrote(ledger[job.doc], "OPEN") \in Entry
        BY <1>0, <2>4, WroteIs DEF LedgerOK, Statuses
      <4> QED BY <2>4, <4>1 DEF Entry
    <3> QED BY <1>0, <2>2, <2>4, <3>1 DEF LedgerOK
  <2>6. MainOK'
    BY <1>0, <2>1 DEF MainOK, Places
  <2> QED BY <1>0, <1>1, <1>2, <2>1, <2>5, <2>6 DEF Parts, PoolOK, Stage2OK
<1>9. CASE Enqueue
  <2>1. /\ UNCHANGED <<net, rows, run, drain, backlog, outcomes, stage2Queue, ledger>>
        /\ pc = "put" /\ pc' = "emit" /\ jobs' = Append(jobs, item)
    BY <1>9 DEF Enqueue
  <2>2. jobs' \in Seq(Job)
    BY <1>0, <2>1 DEF ItemsOK, PoolOK
  <2>3. MainOK'
    BY <1>0, <2>1 DEF MainOK, Places
  <2> QED BY <1>0, <1>1, <1>2, <2>1, <2>2, <2>3 DEF Parts, PoolOK, Stage2OK, LedgerOK
<1>10. CASE Round
  <2>1. /\ UNCHANGED <<net, rows, run, drain, jobs, outcomes, stage2Queue, ledger>>
        /\ pc' = "retry" /\ backlog' = {}
    BY <1>10 DEF Round
  <2>2. MainOK'
    BY <1>0, <2>1 DEF MainOK, Places
  <2> QED BY <1>0, <1>1, <1>2, <2>1, <2>2 DEF Parts, PoolOK, Stage2OK, LedgerOK
<1>11. CASE Cancel \/ Closed
  <2>1. /\ UNCHANGED <<net, rows, run, drain, stage2Queue, ledger>> /\ pc' \in {"closing", "over"}
        /\ jobs' \in {jobs, <<>>} /\ outcomes' \in {outcomes, <<>>} /\ backlog' \in {backlog, {}}
    BY <1>11 DEF Cancel, Closed
  <2>2. MainOK'
    BY <1>0, <2>1 DEF MainOK, Places
  <2>3. <<>> \in Seq(Job) /\ <<>> \in Seq([job : Job, result : Results])
    OBVIOUS
  <2> QED BY <1>0, <1>1, <1>2, <2>1, <2>2, <2>3 DEF Parts, PoolOK, Stage2OK, LedgerOK
<1>12. CASE AnnounceRestored \/ DrainBus \/ Discover \/ LastPage \/ NotEvaluated \/ PageDone \/ Emit
            \/ DrainedOut \/ RoundAdmitted \/ Finish
  <2>1. UNCHANGED <<net, rows, run, backlog, jobs, outcomes, stage2Queue, ledger>>
    BY <1>12 DEF AnnounceRestored, DrainBus, Discover, LastPage, NotEvaluated, PageDone, Emit, DrainedOut,
                 RoundAdmitted, Finish
  <2>2. MainOK'
    <3>1. ASSUME AnnounceRestored \/ DrainBus \/ Discover \/ LastPage \/ NotEvaluated
          PROVE  pc' \in Places /\ drain' \in {"no", "bus"}
      BY <1>0, <3>1 DEF AnnounceRestored, DrainBus, Discover, LastPage, NotEvaluated, AfterDrain, MainOK, Places
    <3>2. ASSUME PageDone \/ Emit \/ DrainedOut \/ RoundAdmitted \/ Finish
          PROVE  pc' \in Places /\ drain' \in {"no", "bus"}
      BY <1>0, <3>2 DEF PageDone, Emit, DrainedOut, RoundAdmitted, Finish, MainOK, Places
    <3> QED BY <1>0, <1>12, <2>1, <3>1, <3>2 DEF MainOK
  <2> QED BY <1>0, <1>1, <1>2, <2>1, <2>2 DEF Parts, PoolOK, Stage2OK, LedgerOK
<1> QED BY <1>3, <1>4, <1>5, <1>6, <1>7, <1>8, <1>9, <1>10, <1>11, <1>12 DEF MainStep

-----------------------------------------------------------------------------
(* One place for each document                                             *)

SameCourse(d) ==
  /\ ledger'[d].told = ledger[d].told /\ ledger'[d].attempt = ledger[d].attempt
  /\ ledger'[d].run = ledger[d].run /\ ledger'[d].local = ledger[d].local

\* What Stage 2 may do to the record of a download.
Left(d) ==
  /\ SameCourse(d) /\ ledger'[d].copyOf = ledger[d].copyOf
  /\ \/ ledger'[d].status = ledger[d].status
     \/ ledger'[d].status = "COMPLETED" /\ ledger[d].told \in Begun

Placed == DashboardTypes /\ PlacesInv

\* The invariant with its parts by name.
LEMMA PlacedSound ==
  ASSUME Placed
  PROVE  Sound /\ OneJob /\ Heard
BY SoundHeard DEF Placed, PlacesInv, Sound

\* The jobs of the pool are of documents.
LEMMA PoolTypes ==
  ASSUME PoolOK
  PROVE  /\ \A i \in DOMAIN jobs : jobs[i] \in Job /\ jobs[i].doc \in Doc
         /\ \A w \in Active : turn[w].job \in Job /\ turn[w].job.doc \in Doc
         /\ \A i \in DOMAIN outcomes : outcomes[i].job \in Job /\ outcomes[i].job.doc \in Doc
         /\ InPool \subseteq Doc
<1>1. \A j \in Job : j.doc \in Doc
  BY DEF Job
<1>2. \A i \in DOMAIN jobs : jobs[i] \in Job
  BY ElementType DEF PoolOK
<1>3. \A i \in DOMAIN outcomes : outcomes[i] \in [job : Job, result : Results]
  BY ElementType DEF PoolOK
<1>4. \A i \in DOMAIN outcomes : outcomes[i].job \in Job
  BY <1>3
<1>5. \A w \in Active : turn[w].job \in Job
  BY DEF PoolOK
<1> QED BY <1>1, <1>2, <1>4, <1>5 DEF InPool, InQueue, InTurn, Reported

\* The ledger's course of a document decides what fits it.
LEMMA CourseFits ==
  ASSUME NEW j, SameCourse(j.doc)
  PROVE  /\ Open(ledger', j) <=> Open(ledger, j)
         /\ \A r : Settled(ledger', j, r) <=> Settled(ledger, j, r)
BY DEF SameCourse, Fits, Open, Settled

\* A step outside the pool that leaves its documents alone keeps it in order.
LEMMA PoolKept ==
  ASSUME Sound, OneJob, \A d \in InPool : SameCourse(d), UNCHANGED <<jobs, turn, outcomes>>
  PROVE  PoolFits' /\ OneJob' /\ InPool' = InPool
<1>1. PoolOK /\ PoolFits
  BY DEF Sound, DashboardTypes
<1>2. Active' = Active /\ InQueue' = InQueue /\ InTurn' = InTurn /\ Reported' = Reported
  BY DEF Active, InQueue, InTurn, Reported
<1>0. /\ \A i \in DOMAIN jobs : SameCourse(jobs[i].doc)
      /\ \A i \in DOMAIN outcomes : SameCourse(outcomes[i].job.doc)
      /\ \A w \in Active : SameCourse(turn[w].job.doc)
  BY DEF InPool, InQueue, InTurn, Reported
<1>3. PoolFits'
  <2>1. \A i \in DOMAIN jobs : Open(ledger', jobs[i])
    BY <1>0, <1>1, CourseFits DEF PoolFits
  <2>2. \A i \in DOMAIN outcomes : Settled(ledger', outcomes[i].job, outcomes[i].result)
    BY <1>0, <1>1, CourseFits DEF PoolFits
  <2>3. ASSUME NEW w \in Active
        PROVE /\ turn[w].step \in {"taken", "working"} => Open(ledger', turn[w].job)
              /\ turn[w].step = "working" => ~ledger'[turn[w].job.doc].local
              /\ turn[w].step \in {"announce", "landed"} => Settled(ledger', turn[w].job, "success")
              /\ turn[w].step = "ended" => Settled(ledger', turn[w].job, turn[w].result)
              /\ turn[w].step # "ended" => turn[w].result = "success"
    <3>1. SameCourse(turn[w].job.doc)
      BY <1>0
    <3>2. /\ Open(ledger', turn[w].job) <=> Open(ledger, turn[w].job)
          /\ \A r : Settled(ledger', turn[w].job, r) <=> Settled(ledger, turn[w].job, r)
      BY <3>1, CourseFits
    <3> QED BY <1>1, <3>1, <3>2 DEF PoolFits, SameCourse
  <2> QED BY <1>2, <2>1, <2>2, <2>3 DEF PoolFits, Open, Settled, Fits
<1>4. OneJob'
  BY <1>2 DEF OneJob
<1> QED BY <1>2, <1>3, <1>4 DEF InPool

\* A worker goes on with its job, and only its document changes its course.
LEMMA MoveKept ==
  ASSUME Sound, OneJob, NEW w \in Worker, turn[w].step # "idle", turn'[w].step # "idle",
         turn'[w].job = turn[w].job, \A v \in Worker \ {w} : turn'[v] = turn[v],
         UNCHANGED <<jobs, outcomes>>, \A d \in Doc \ {turn[w].job.doc} : SameCourse(d),
         turn'[w].step \in {"taken", "working"} => Open(ledger', turn[w].job),
         turn'[w].step = "working" => ~ledger'[turn[w].job.doc].local,
         turn'[w].step \in {"announce", "landed"} => Settled(ledger', turn[w].job, "success"),
         turn'[w].step = "ended" => Settled(ledger', turn[w].job, turn'[w].result),
         turn'[w].step # "ended" => turn'[w].result = "success"
  PROVE  PoolFits' /\ OneJob' /\ InPool' = InPool
<1>1. PoolOK /\ PoolFits /\ w \in Active
  BY DEF Sound, DashboardTypes, Active
<1>2. Active' = Active /\ \A v \in Active : turn'[v].job = turn[v].job
  BY DEF Active
<1>3. InQueue' = InQueue /\ InTurn' = InTurn /\ Reported' = Reported
  BY <1>2 DEF InQueue, InTurn, Reported
<1>4. /\ turn[w].job.doc \in InTurn /\ turn[w].job.doc \notin InQueue /\ turn[w].job.doc \notin Reported
      /\ \A v \in Active \ {w} : turn[v].job.doc # turn[w].job.doc
  BY <1>1 DEF OneJob, InTurn
<1>5. \A i \in DOMAIN jobs : SameCourse(jobs[i].doc)
  BY <1>1, <1>4, PoolTypes DEF InQueue
<1>6. \A i \in DOMAIN outcomes : SameCourse(outcomes[i].job.doc)
  BY <1>1, <1>4, PoolTypes DEF Reported
<1>7. \A v \in Active \ {w} : SameCourse(turn[v].job.doc)
  BY <1>1, <1>4, PoolTypes
<1>8. \A i \in DOMAIN jobs : Open(ledger', jobs[i])
  BY <1>1, <1>5, CourseFits DEF PoolFits
<1>9. \A i \in DOMAIN outcomes : Settled(ledger', outcomes[i].job, outcomes[i].result)
  BY <1>1, <1>6, CourseFits DEF PoolFits
<1>10. ASSUME NEW v \in Active \ {w}
       PROVE /\ turn[v].step \in {"taken", "working"} => Open(ledger', turn[v].job)
             /\ turn[v].step = "working" => ~ledger'[turn[v].job.doc].local
             /\ turn[v].step \in {"announce", "landed"} => Settled(ledger', turn[v].job, "success")
             /\ turn[v].step = "ended" => Settled(ledger', turn[v].job, turn[v].result)
             /\ turn[v].step # "ended" => turn[v].result = "success"
  <2>1. SameCourse(turn[v].job.doc)
    BY <1>7
  <2>2. /\ Open(ledger', turn[v].job) <=> Open(ledger, turn[v].job)
        /\ \A r : Settled(ledger', turn[v].job, r) <=> Settled(ledger, turn[v].job, r)
    BY <2>1, CourseFits
  <2> QED BY <1>1, <2>1, <2>2 DEF PoolFits, SameCourse
<1>11. PoolFits'
  <2>1. \A v \in Active \ {w} : v \in Worker /\ turn'[v] = turn[v]
    BY DEF Active
  <2> QED BY <1>2, <1>8, <1>9, <1>10, <2>1 DEF PoolFits, Open, Settled, Fits
<1>12. OneJob'
  BY <1>2, <1>3 DEF OneJob
<1> QED BY <1>3, <1>11, <1>12 DEF InPool

\* What waits outside the pool goes on waiting.
LEMMA LaterKept ==
  ASSUME DashboardTypes, Later, UNCHANGED <<pc, items, item, backlog>>, InPool' = InPool,
         \A d \in Doc \ InPool : SameCourse(d)
  PROVE  Later'
<1>1. \A j \in Job : j.doc \in Doc
  BY DEF Job
<1>2. \A j \in Job : Waits(j) => Waits(j)'
  BY <1>1 DEF Waits, SameCourse
<1>3. Behind'
  BY <1>2 DEF Later, Behind, DashboardTypes, MainOK
<1>4. Ahead'
  <2>1. Retrying' = Retrying /\ (Retrying => items \subseteq Job)
    BY DEF Retrying, DashboardTypes, ItemsOK
  <2> QED BY <1>2, <2>1 DEF Later, Ahead
<1>5. AtHand'
  <2> SUFFICES ASSUME pc = "put" PROVE AtHand'
    BY DEF AtHand
  <2>1. item \in Job /\ item.doc \notin InPool
    BY DEF Later, AtHand, DashboardTypes, ItemsOK
  <2>2. SameCourse(item.doc)
    BY <1>1, <2>1
  <2>3. Open(ledger', item) <=> Open(ledger, item)
    BY <2>2 DEF SameCourse, Open, Fits
  <2> QED BY <2>3 DEF Later, AtHand
<1> QED BY <1>3, <1>4, <1>5 DEF Later

\* While the main thread rests, what it has before it stays as it is.
LEMMA ItemsKept ==
  ASSUME DashboardTypes, UNCHANGED mainVars, New' = New
  PROVE  ItemsOK'
BY DEF DashboardTypes, ItemsOK, Retrying, mainVars

\* Events of runs that have begun, and documents on their course, keep the order of runs.
LEMMA RunsKept ==
  ASSUME Sound, NEW es, Tells(es), UNCHANGED <<run, pc, item>>, \A d \in Doc : SameCourse(d)
  PROVE  Runs'
BY DEF Sound, Runs, Tells, SameCourse

\* A worker publishes about the job it holds.
LEMMA JobTells ==
  ASSUME Sound, NEW kind \in Kinds, NEW w \in Worker, turn[w].step # "idle",
         Put(<<About(kind, turn[w].job)>>), UNCHANGED <<metrics, run>>
  PROVE  Tells(<<About(kind, turn[w].job)>>) /\ About(kind, turn[w].job) \in Message
<1>1. turn[w].job \in Job /\ turn[w].job.run <= run
  BY TurnJob
<1>2. About(kind, turn[w].job) \in Message /\ About(kind, turn[w].job).run <= run
  BY <1>1, MessageTypes DEF About, Event
<1> QED BY <1>2, OneTells

\* What each step of an attempt publishes.
LEMMA WorkerTells ==
  ASSUME Sound, NEW w \in Worker
  PROVE  /\ BeginAttempt(w) => Tells(<<About("DOWNLOAD_STARTED", turn[w].job)>>)
         /\ Fail(w) => Tells(<<About(IF FinalAttempt(w) THEN "DOWNLOAD_PERMANENTLY_FAILED"
                                     ELSE "DOWNLOAD_FAILED_FOR_ROUND", turn[w].job)>>)
         /\ Announce(w) => Tells(<<About("STAGE2_QUEUED", Job2(turn[w].job.doc))>>)
         /\ Land(w) => Tells(<<About(IF ledger[turn[w].job.doc].local THEN "LOCAL_PDF_REUSED"
                                     ELSE "DOWNLOAD_COMPLETED", turn[w].job)>>)
<1> USE DEF UnchangedByWorker, viewVars, mainVars
<1>1. ASSUME BeginAttempt(w) PROVE Tells(<<About("DOWNLOAD_STARTED", turn[w].job)>>)
  <2>1. /\ turn[w].step # "idle" /\ Put(<<About("DOWNLOAD_STARTED", turn[w].job)>>)
        /\ UNCHANGED <<metrics, run>> /\ "DOWNLOAD_STARTED" \in Kinds
    BY <1>1 DEF BeginAttempt, Kinds, DownloadKinds
  <2> QED BY <2>1, JobTells
<1>2. ASSUME Fail(w)
      PROVE Tells(<<About(IF FinalAttempt(w) THEN "DOWNLOAD_PERMANENTLY_FAILED"
                          ELSE "DOWNLOAD_FAILED_FOR_ROUND", turn[w].job)>>)
  <2> DEFINE kind == IF FinalAttempt(w) THEN "DOWNLOAD_PERMANENTLY_FAILED" ELSE "DOWNLOAD_FAILED_FOR_ROUND"
  <2>1. kind \in Kinds
    BY DEF Kinds, DownloadKinds
  <2>2. turn[w].step # "idle" /\ Put(<<About(kind, turn[w].job)>>) /\ UNCHANGED <<metrics, run>>
    BY <1>2 DEF Fail
  <2> HIDE DEF kind
  <2>3. Tells(<<About(kind, turn[w].job)>>)
    BY <2>1, <2>2, JobTells
  <2> QED BY <2>3 DEF kind
<1>3. ASSUME Announce(w) PROVE Tells(<<About("STAGE2_QUEUED", Job2(turn[w].job.doc))>>)
  <2>1. /\ turn[w].step # "idle" /\ Put(<<About("STAGE2_QUEUED", Job2(turn[w].job.doc))>>)
        /\ UNCHANGED <<metrics, run>> /\ "STAGE2_QUEUED" \in Kinds
    BY <1>3 DEF Announce, Kinds, Stage2Kinds
  <2>2. turn[w].job.doc \in Doc /\ ledger[turn[w].job.doc].told \in Begun
    BY <2>1, TurnJob
  <2> QED BY <2>1, <2>2, LedgerTells
<1>4. ASSUME Land(w)
      PROVE Tells(<<About(IF ledger[turn[w].job.doc].local THEN "LOCAL_PDF_REUSED"
                          ELSE "DOWNLOAD_COMPLETED", turn[w].job)>>)
  <2> DEFINE kind == IF ledger[turn[w].job.doc].local THEN "LOCAL_PDF_REUSED" ELSE "DOWNLOAD_COMPLETED"
  <2>1. kind \in Kinds
    BY DEF Kinds, DownloadKinds
  <2>2. turn[w].step # "idle" /\ Put(<<About(kind, turn[w].job)>>) /\ UNCHANGED <<metrics, run>>
    BY <1>4 DEF Land
  <2> HIDE DEF kind
  <2>3. Tells(<<About(kind, turn[w].job)>>)
    BY <2>1, <2>2, JobTells
  <2> QED BY <2>3 DEF kind
<1> QED BY <1>1, <1>2, <1>3, <1>4

\* A stored document is completed, and ruled on as the hand-over says.
LEMMA StoreDoes ==
  ASSUME Sound, NEW w \in Worker, Store(w)
  PROVE  LET d == turn[w].job.doc
         IN  /\ \E next \in {"announce", "landed"} : turn' = [turn EXCEPT ![w].step = next]
             /\ \E next : Queueing(d, next)
             /\ \E record \in Recorded(d, "COMPLETED") :
                  \/ Tells(<<>>) /\ Rules(d, record, {"QUEUED"})
                  \/ \E kind \in {"STAGE2_INVALID", "STAGE2_PENDING"} :
                       Rules(d, record, RulesWith(kind)) /\ Tells(<<About(kind, Job2(d))>>)
<1> DEFINE d == turn[w].job.doc
<1>1. d \in Doc /\ ledger[d].told \in Begun /\ UNCHANGED <<metrics, run>>
  BY TurnJob DEF Store, UnchangedByWorker, viewVars, mainVars
<1>2. PICK next \in {"announce", "landed"}, record \in Recorded(d, "COMPLETED") :
        Scheduled(d, next, record) /\ turn' = [turn EXCEPT ![w].step = next]
  BY DEF Store, Goes
<1> HIDE DEF d
<1>3. /\ Queueing(d, next)
      /\ \/ Rules(d, record, {"QUEUED"}) /\ Tells(<<>>)
         \/ \E kind \in {"STAGE2_INVALID", "STAGE2_PENDING"} :
              Rules(d, record, RulesWith(kind)) /\ Tells(<<About(kind, Job2(d))>>)
  BY <1>1, <1>2, ScheduledDoes
<1> QED BY <1>2, <1>3 DEF d

\* What a stored document's record holds.
LEMMA StoreWrites ==
  ASSUME Sound, NEW w \in Worker, Store(w)
  PROVE  LET d == turn[w].job.doc
         IN  /\ \A c \in Doc \ {d} : ledger'[c] = ledger[c]
             /\ SameCandidate(ledger'[d], ledger[d])
             /\ ledger'[d].copyOf = ledger[d].copyOf
             /\ ledger'[d].told = "COMPLETED"
             /\ ledger'[d].status \in {ledger[d].status, "COMPLETED"}
<1> DEFINE d == turn[w].job.doc
<1>1. d \in Doc
  BY TurnJob DEF Store
<1>2. \E record \in Recorded(d, "COMPLETED"), verdicts \in SUBSET Rulings : Rules(d, record, verdicts)
  BY StoreDoes, RulesTypes
<1> HIDE DEF d
<1>3. PICK record \in Recorded(d, "COMPLETED"), verdicts \in SUBSET Rulings : Rules(d, record, verdicts)
  BY <1>2
<1>4. LedgerOK /\ "COMPLETED" \in Statuses
  BY DEF Sound, DashboardTypes, Statuses
<1>5. /\ record \in Entry /\ SameCandidate(record, ledger[d]) /\ record.told = "COMPLETED"
      /\ record.status \in {ledger[d].status, "COMPLETED"} /\ record.copyOf = ledger[d].copyOf
  BY <1>1, <1>3, <1>4, RecordedIs
<1>6. /\ \A c \in Doc \ {d} : ledger'[c] = ledger[c]
      /\ SameCandidate(ledger'[d], record) /\ ledger'[d].told = record.told
      /\ ledger'[d].status \in {record.status, "COMPLETED"} /\ ledger'[d].copyOf = record.copyOf
  BY <1>1, <1>3, <1>4, <1>5, RulesLeave
<1> QED BY <1>5, <1>6 DEF d, SameCandidate

\* A stored PDF is announced to Stage 2 or has landed.
LEMMA StoreGoes ==
  ASSUME Sound, NEW w \in Worker, Store(w)
  PROVE  turn'[w].step \in {"announce", "landed"}
<1>1. PICK next \in {"announce", "landed"} : turn' = [turn EXCEPT ![w].step = next]
  BY StoreDoes
<1>2. turn \in [Worker -> Turn]
  BY DEF Sound, DashboardTypes, PoolOK
<1> QED BY <1>1, <1>2 DEF Turn

\* Each step of a worker is a list of events.
LEMMA WorkerSomethingTold ==
  ASSUME Sound, NEW w \in Worker, DownloadStep(w)
  PROVE  \E es : Tells(es)
<1>1. CASE Take(w) \/ Return(w)
  BY <1>1, SilentTells DEF SilentStep
<1>2. CASE Store(w)
  BY <1>2, StoreDoes
<1>3. CASE BeginAttempt(w) \/ Fail(w) \/ Announce(w) \/ Land(w)
  BY <1>3, WorkerTells
<1> QED BY <1>1, <1>2, <1>3 DEF DownloadStep

\* The worker's own document goes the expected way.
LEMMA WorkerCourse ==
  ASSUME Sound, NEW w \in Worker, turn[w].step # "idle",
         BeginAttempt(w) \/ Store(w) \/ Fail(w) \/ Announce(w) \/ Land(w)
  PROVE  LET d == turn[w].job.doc
         IN  /\ \A c \in Doc \ {d} : SameCourse(c)
             /\ ledger'[d].attempt = ledger[d].attempt /\ ledger'[d].run = ledger[d].run
             /\ ledger'[d].local = ledger[d].local
             /\ Store(w) => ledger'[d].told = "COMPLETED"
             /\ BeginAttempt(w) => ledger'[d].told = "OPEN"
             /\ Fail(w) => ledger'[d].told = IF turn[w].job.attempt >= MaxAttempts THEN "PERMANENTLY_FAILED"
                                               ELSE "FAILED_FOR_ROUND"
             /\ Announce(w) \/ Land(w) => ledger'[d].told = ledger[d].told
             /\ \A c \in Doc \ {d} : ledger'[c] = ledger[c]
             /\ ledger'[d].copyOf = ledger[d].copyOf /\ ledger'[d].told \in Begun /\ Near(ledger'[d])
<1> DEFINE d == turn[w].job.doc
<1>1. d \in Doc /\ ledger \in [Doc -> Entry]
  BY TurnJob DEF Sound, DashboardTypes, LedgerOK
<1>0. /\ Near(ledger[d])
      /\ turn[w].step \in {"taken", "working"} =>
           ledger[d].told = "OPEN" /\ ledger[d].status \in {"OPEN", "COMPLETED"}
      /\ ledger[d].told \in Begun
  <2>1. turn[w].step \in {"taken", "working"} => ledger[d].told = "OPEN"
    BY DEF Sound, PoolFits, Active, Open
  <2> QED BY <1>1, <2>1, TurnJob DEF Sound, Records, Lags, Near
<1>2. CASE Store(w)
  <2>1. /\ \A c \in Doc \ {d} : ledger'[c] = ledger[c]
        /\ SameCandidate(ledger'[d], ledger[d])
        /\ ledger'[d].copyOf = ledger[d].copyOf
        /\ ledger'[d].told = "COMPLETED"
        /\ ledger'[d].status \in {ledger[d].status, "COMPLETED"}
    BY <1>2, StoreWrites
  <2>2. turn[w].step \in {"taken", "working"}
    BY <1>2 DEF Store
  <2>3. Near(ledger'[d]) /\ ledger'[d].told \in Begun
    BY <1>0, <2>1, <2>2 DEF Near, Begun
  <2>5. ~BeginAttempt(w) /\ ~Fail(w) /\ ~Announce(w) /\ ~Land(w)
    <3>1. turn'[w].step \in {"announce", "landed"} /\ turn[w].step \in {"taken", "working"}
      BY <1>2, StoreGoes DEF Store
    <3>2. BeginAttempt(w) => turn'[w].step = "working"
      BY DEF BeginAttempt, Goes, Sound, DashboardTypes, PoolOK, Turn
    <3>3. Fail(w) => turn'[w].step = "ended"
      BY DEF Fail, Sound, DashboardTypes, PoolOK, Turn
    <3> QED BY <3>1, <3>2, <3>3 DEF Announce, Land
  <2> QED BY <1>2, <2>1, <2>3, <2>5 DEF SameCourse, SameCandidate
<1>3. CASE BeginAttempt(w)
  <2>1. ledger' = [ledger EXCEPT ![d] = Wrote(@, "OPEN")] /\ turn[w].step = "taken" /\ ~ledger[d].local
    BY <1>3 DEF BeginAttempt
  <2>2. ~Store(w) /\ ~Fail(w) /\ ~Announce(w) /\ ~Land(w)
    BY <2>1 DEF Store, Fail, Announce, Land
  <2>3. /\ SameCandidate(Wrote(ledger[d], "OPEN"), ledger[d]) /\ Wrote(ledger[d], "OPEN").told = "OPEN"
        /\ Wrote(ledger[d], "OPEN").status = "OPEN" /\ Wrote(ledger[d], "OPEN").copyOf = ledger[d].copyOf
    <3>1. ledger[d] \in Entry /\ "OPEN" \in Statuses
      BY <1>1 DEF Statuses
    <3> HIDE DEF d
    <3> QED BY <3>1, WroteIs
  <2>4. ledger'[d] = Wrote(ledger[d], "OPEN") /\ \A c \in Doc \ {d} : ledger'[c] = ledger[c]
    BY <1>1, <2>1
  <2> QED BY <1>3, <2>2, <2>3, <2>4 DEF SameCourse, SameCandidate, Near, Begun
<1>4. CASE Fail(w)
  <2> DEFINE status == IF turn[w].job.attempt >= MaxAttempts THEN "PERMANENTLY_FAILED" ELSE "FAILED_FOR_ROUND"
  <2>1. /\ \E record \in Recorded(d, status) : ledger' = [ledger EXCEPT ![d] = record]
        /\ turn[w].step = "working" /\ turn'[w].step = "ended"
    BY <1>4 DEF Fail, FinalAttempt, Sound, DashboardTypes, PoolOK, Turn
  <2>2. ~Store(w) /\ ~BeginAttempt(w) /\ ~Announce(w) /\ ~Land(w)
    <3>1. Store(w) => turn'[w].step \in {"announce", "landed"}
      BY StoreGoes
    <3> QED BY <2>1, <3>1 DEF BeginAttempt, Announce, Land
  <2>3. status \in {"PERMANENTLY_FAILED", "FAILED_FOR_ROUND"}
    OBVIOUS
  <2>4. /\ \A c \in Doc \ {d} : ledger'[c] = ledger[c]
        /\ SameCandidate(ledger'[d], ledger[d]) /\ ledger'[d].told = status
        /\ ledger'[d].status \in {ledger[d].status, status} /\ ledger'[d].copyOf = ledger[d].copyOf
    <3> HIDE DEF d, status
    <3>1. PICK record \in Recorded(d, status) : ledger' = [ledger EXCEPT ![d] = record]
      BY <2>1
    <3>2. status \in Statuses /\ LedgerOK
      BY <2>3 DEF Statuses, Sound, DashboardTypes
    <3>3. ledger'[d] = record /\ \A c \in Doc \ {d} : ledger'[c] = ledger[c]
      BY <1>1, <3>1
    <3> QED BY <1>1, <3>1, <3>2, <3>3, RecordedIs
  <2>5. Near(ledger'[d]) /\ ledger'[d].told \in Begun
    BY <1>0, <2>1, <2>3, <2>4 DEF Near, Begun
  <2>6. ledger'[d].told = IF turn[w].job.attempt >= MaxAttempts THEN "PERMANENTLY_FAILED" ELSE "FAILED_FOR_ROUND"
    BY <2>4
  <2> QED BY <1>4, <2>2, <2>4, <2>5, <2>6 DEF SameCourse, SameCandidate
<1>5. CASE Announce(w) \/ Land(w)
  <2>1. ledger' = ledger /\ turn[w].step \in {"announce", "landed"}
    BY <1>5 DEF Announce, Land
  <2>2. ~Store(w) /\ ~BeginAttempt(w) /\ ~Fail(w)
    BY <2>1 DEF Store, BeginAttempt, Fail
  <2> QED BY <1>0, <2>1, <2>2 DEF SameCourse
<1> QED BY <1>2, <1>3, <1>4, <1>5

\* Stage 2 goes on hearing of documents that were queued.
LEMMA HandedKept ==
  ASSUME Handed, \A d \in Doc : ledger[d].told \in Begun => ledger'[d].told \in Begun,
         \A d \in Doc : InValidation(d)' => InValidation(d) \/ ledger[d].told \in Begun
  PROVE  Handed'
BY DEF Handed

\* A worker's step leaves no record far behind.
LEMMA WorkerRecords ==
  ASSUME Sound, NEW w \in Worker, DownloadStep(w)
  PROVE  Records'
<1>1. UNCHANGED <<pc, items, item, judge>>
  BY DEF DownloadStep, Take, BeginAttempt, Store, Fail, Announce, Land, Return, UnchangedByWorker, mainVars
<1>2. CASE UNCHANGED <<ledger, stage2Queue>>
  BY <1>1, <1>2 DEF Sound, Records, Lags, Handed, InValidation, InStage2
<1>3. CASE BeginAttempt(w) \/ Store(w) \/ Fail(w) \/ Announce(w) \/ Land(w)
  <2> DEFINE d == turn[w].job.doc
  <2>1. turn[w].step # "idle"
    BY <1>3 DEF BeginAttempt, Store, Fail, Announce, Land
  <2>2. d \in Doc /\ ledger[d].told \in Begun
    BY <2>1, TurnJob
  <2>3. /\ \A c \in Doc \ {d} : ledger'[c] = ledger[c]
        /\ ledger'[d].copyOf = ledger[d].copyOf /\ ledger'[d].told \in Begun /\ Near(ledger'[d])
    BY <1>3, <2>1, WorkerCourse
  <2>4. UNCHANGED stage2Queue \/ stage2Queue' = Append(stage2Queue, d)
    <3>1. CASE Store(w)
      BY <3>1, StoreDoes DEF Queueing
    <3> QED BY <1>3, <3>1 DEF BeginAttempt, Fail, Announce, Land
  <2> HIDE DEF d
  <2>5. \A c \in Range(stage2Queue') : c \in Range(stage2Queue) \/ c = d
    <3>1. stage2Queue \in Seq(Doc)
      BY DEF Sound, DashboardTypes, Stage2OK
    <3> QED BY <2>2, <2>4, <3>1 DEF Range
  <2>6. Lags'
    BY <2>3 DEF Sound, Records, Lags
  <2>7. \A c \in Doc : InValidation(c)' => InValidation(c) \/ ledger[c].told \in Begun
    BY <1>1, <2>2, <2>3, <2>5 DEF InValidation, InStage2
  <2>8. \A c \in Doc : ledger[c].told \in Begun => ledger'[c].told \in Begun
    BY <2>3
  <2>9. Handed'
    BY <2>7, <2>8, HandedKept DEF Sound, Records
  <2> QED BY <2>6, <2>9 DEF Records
<1>4. CASE Take(w) \/ Return(w)
  <2>1. UNCHANGED <<ledger, stage2Queue>>
    BY <1>4 DEF Take, Return
  <2> QED BY <1>2, <2>1
<1> QED BY <1>3, <1>4 DEF DownloadStep

\* The types of the parts make up those of the state.
LEMMA TypesAgain ==
  ASSUME Parts', NEW es, Tells(es), ItemsOK'
  PROVE  DashboardTypes'
BY DEF Parts, Tells, DashboardTypes, BusOK, ViewOK

\* Closing and ended runs have nothing waiting outside the pool.
Waiting == pc \notin {"closing", "over", "done"} => Later

\* A worker takes the first job of the queue.
LEMMA TakePlaces ==
  ASSUME Placed, NEW w \in Worker, Take(w)
  PROVE  PoolFits' /\ OneJob' /\ InPool' = InPool
<1> USE DEF UnchangedByWorker
<1>1. /\ turn[w].step = "idle" /\ jobs # <<>> /\ jobs' = Tail(jobs) /\ UNCHANGED <<outcomes, ledger>>
      /\ turn' = [turn EXCEPT ![w] = [step |-> "taken", job |-> Head(jobs), result |-> "success"]]
  BY DEF Take
<1>2. PoolOK /\ PoolFits /\ OneJob
  BY PlacedSound DEF Sound, DashboardTypes
<1>3. jobs \in Seq(Job) /\ turn \in [Worker -> Turn]
  BY <1>2 DEF PoolOK
<1>4. /\ DOMAIN jobs' = 1..(Len(jobs) - 1) /\ \A i \in DOMAIN jobs' : jobs'[i] = jobs[i + 1] /\ i + 1 \in DOMAIN jobs
      /\ 1 \in DOMAIN jobs /\ \A i \in DOMAIN jobs : i # 1 => i - 1 \in DOMAIN jobs' /\ jobs'[i - 1] = jobs[i]
      /\ Head(jobs) = jobs[1] /\ \A i \in DOMAIN jobs' : i \in Nat /\ i + 1 # 1
  BY <1>1, <1>3
<1>5. /\ turn'[w].step = "taken" /\ turn'[w].job = jobs[1] /\ \A v \in Worker \ {w} : turn'[v] = turn[v]
      /\ Active' = Active \cup {w} /\ w \notin Active
  BY <1>1, <1>3, <1>4 DEF Active
<1>6. /\ InTurn' = InTurn \cup {jobs[1].doc} /\ Reported' = Reported
      /\ InQueue = InQueue' \cup {jobs[1].doc}
  <2>1. InTurn' = InTurn \cup {jobs[1].doc}
    <3>1. \A v \in Active : v \in Worker \ {w} /\ turn'[v] = turn[v]
      BY <1>5 DEF Active
    <3> QED BY <1>5, <3>1 DEF InTurn
  <2>2. InQueue = InQueue' \cup {jobs[1].doc}
    <3>1. \A i \in DOMAIN jobs : jobs[i].doc \in InQueue' \cup {jobs[1].doc}
      BY <1>4 DEF InQueue
    <3>2. \A i \in DOMAIN jobs' : jobs'[i].doc \in InQueue
      BY <1>4 DEF InQueue
    <3> QED BY <1>4, <3>1, <3>2 DEF InQueue
  <2> QED BY <1>1, <2>1, <2>2 DEF Reported
<1>7. jobs[1].doc \notin InQueue'
  BY <1>2, <1>4 DEF OneJob, InQueue
<1>8. InPool' = InPool
  BY <1>6 DEF InPool
<1>9. OneJob'
  <2>1. \A i, k \in DOMAIN jobs' : jobs'[i].doc = jobs'[k].doc => i = k
    <3> SUFFICES ASSUME NEW i \in DOMAIN jobs', NEW k \in DOMAIN jobs', jobs'[i].doc = jobs'[k].doc
                 PROVE  i = k
      OBVIOUS
    <3>1. i + 1 = k + 1
      BY <1>2, <1>4 DEF OneJob
    <3> QED BY <1>4, <3>1
  <2>2. \A u, v \in Active' : turn'[u].job.doc = turn'[v].job.doc => u = v
    <3>1. jobs[1].doc \notin InTurn
      BY <1>2, <1>4 DEF OneJob, InQueue
    <3>2. \A v \in Active : v \in Worker \ {w} /\ turn'[v] = turn[v] /\ turn[v].job.doc \in InTurn
      BY <1>5 DEF Active, InTurn
    <3> QED BY <1>2, <1>5, <3>1, <3>2 DEF OneJob
  <2>3. \A i, k \in DOMAIN outcomes' : outcomes'[i].job.doc = outcomes'[k].job.doc => i = k
    BY <1>1, <1>2 DEF OneJob
  <2>4. InQueue' \cap InTurn' = {} /\ InQueue' \cap Reported' = {} /\ InTurn' \cap Reported' = {}
    BY <1>2, <1>6, <1>7 DEF OneJob
  <2> QED BY <2>1, <2>2, <2>3, <2>4 DEF OneJob
<1>10. PoolFits'
  <2>1. \A i \in DOMAIN jobs' : Open(ledger', jobs'[i])
    BY <1>1, <1>2, <1>4 DEF PoolFits
  <2>2. \A i \in DOMAIN outcomes' : Settled(ledger', outcomes'[i].job, outcomes'[i].result)
    BY <1>1, <1>2 DEF PoolFits
  <2>3. ASSUME NEW v \in Active'
        PROVE  /\ turn'[v].step \in {"taken", "working"} => Open(ledger', turn'[v].job)
               /\ turn'[v].step = "working" => ~ledger'[turn'[v].job.doc].local
               /\ turn'[v].step \in {"announce", "landed"} => Settled(ledger', turn'[v].job, "success")
               /\ turn'[v].step = "ended" => Settled(ledger', turn'[v].job, turn'[v].result)
               /\ turn'[v].step # "ended" => turn'[v].result = "success"
    <3>1. CASE v = w
      BY <1>1, <1>2, <1>4, <1>5, <3>1 DEF PoolFits
    <3>2. CASE v # w
      <4>1. v \in Active /\ v \in Worker \ {w} /\ turn'[v] = turn[v]
        BY <1>5, <2>3, <3>2 DEF Active
      <4> QED BY <1>1, <1>2, <4>1 DEF PoolFits
    <3> QED BY <3>1, <3>2
  <2> QED BY <2>1, <2>2, <2>3 DEF PoolFits
<1> QED BY <1>8, <1>9, <1>10

\* A worker hands its outcome to the main thread.
LEMMA ReturnPlaces ==
  ASSUME Placed, NEW w \in Worker, Return(w)
  PROVE  PoolFits' /\ OneJob' /\ InPool' = InPool
<1> DEFINE o == [job |-> turn[w].job, result |-> turn[w].result]
           n == Len(outcomes)
<1>1. /\ turn[w].step = "ended" /\ turn' = [turn EXCEPT ![w] = Resting]
      /\ outcomes' = Append(outcomes, o) /\ UNCHANGED <<jobs, ledger>>
  BY DEF Return
<1>2. PoolOK /\ PoolFits /\ OneJob /\ w \in Active
  BY <1>1, PlacedSound DEF Sound, DashboardTypes, Active
<1>3. outcomes \in Seq([job : Job, result : Results]) /\ turn \in [Worker -> Turn] /\ n \in Nat
  BY <1>2 DEF PoolOK
<1>4. /\ DOMAIN outcomes' = 1..(n + 1) /\ DOMAIN outcomes = 1..n /\ outcomes'[n + 1] = o
      /\ \A i \in 1..n : outcomes'[i] = outcomes[i]
      /\ \A i \in 1..(n + 1) : i \in 1..n \/ i = n + 1
  <2> HIDE DEF o
  <2> QED BY <1>1, <1>3
<1>5. turn'[w].step = "idle" /\ \A v \in Worker \ {w} : turn'[v] = turn[v]
  BY <1>1, <1>3 DEF Resting
<1>6. Active' = Active \ {w} /\ \A v \in Active' : v \in Active /\ v # w /\ turn'[v] = turn[v]
  BY <1>5 DEF Active
<1>7. InQueue' = InQueue
  BY <1>1 DEF InQueue
<1>8. Reported' = Reported \cup {turn[w].job.doc}
  <2>1. \A i \in 1..(n + 1) : outcomes'[i].job.doc \in Reported \cup {turn[w].job.doc}
    BY <1>4 DEF Reported
  <2>2. \A i \in 1..n : outcomes[i].job.doc \in Reported'
    <3>1. \A i \in 1..n : i \in 1..(n + 1)
      BY <1>3
    <3> QED BY <1>4, <3>1 DEF Reported
  <2>3. turn[w].job.doc \in Reported'
    <3>1. n + 1 \in 1..(n + 1)
      BY <1>3
    <3> QED BY <1>4, <3>1 DEF Reported
  <2> QED BY <1>4, <2>1, <2>2, <2>3 DEF Reported
<1>9. InTurn = InTurn' \cup {turn[w].job.doc} /\ turn[w].job.doc \notin InTurn'
  <2>1. \A v \in Active : v # w => v \in Active' /\ turn'[v] = turn[v]
    BY <1>6
  <2> QED BY <1>2, <1>6, <2>1 DEF InTurn, OneJob
<1>10. InPool' = InPool
  BY <1>7, <1>8, <1>9 DEF InPool
<1>11. OneJob'
  <2>1. \A i, k \in DOMAIN outcomes' : outcomes'[i].job.doc = outcomes'[k].job.doc => i = k
    <3>1. turn[w].job.doc \notin Reported
      BY <1>2, <1>9 DEF OneJob
    <3>2. \A i \in 1..n : outcomes'[i].job.doc \in Reported
      BY <1>4 DEF Reported
    <3> QED BY <1>2, <1>4, <3>1, <3>2 DEF OneJob
  <2>2. \A u, v \in Active' : turn'[u].job.doc = turn'[v].job.doc => u = v
    BY <1>2, <1>6 DEF OneJob
  <2>3. \A i, k \in DOMAIN jobs' : jobs'[i].doc = jobs'[k].doc => i = k
    BY <1>1, <1>2 DEF OneJob
  <2>4. InQueue' \cap InTurn' = {} /\ InQueue' \cap Reported' = {} /\ InTurn' \cap Reported' = {}
    BY <1>2, <1>7, <1>8, <1>9 DEF OneJob
  <2> QED BY <2>1, <2>2, <2>3, <2>4 DEF OneJob
<1>12. PoolFits'
  <2>1. \A i \in DOMAIN jobs' : Open(ledger', jobs'[i])
    BY <1>1, <1>2 DEF PoolFits
  <2>2. ASSUME NEW i \in DOMAIN outcomes' PROVE Settled(ledger', outcomes'[i].job, outcomes'[i].result)
    <3>1. CASE i = n + 1
      <4>1. Settled(ledger, turn[w].job, turn[w].result)
        BY <1>1, <1>2 DEF PoolFits
      <4> QED BY <1>1, <1>4, <3>1, <4>1
    <3>2. CASE i # n + 1
      BY <1>1, <1>2, <1>4, <2>2, <3>2 DEF PoolFits
    <3> QED BY <3>1, <3>2
  <2>3. ASSUME NEW v \in Active'
        PROVE  /\ turn'[v].step \in {"taken", "working"} => Open(ledger', turn'[v].job)
               /\ turn'[v].step = "working" => ~ledger'[turn'[v].job.doc].local
               /\ turn'[v].step \in {"announce", "landed"} => Settled(ledger', turn'[v].job, "success")
               /\ turn'[v].step = "ended" => Settled(ledger', turn'[v].job, turn'[v].result)
               /\ turn'[v].step # "ended" => turn'[v].result = "success"
    BY <1>1, <1>2, <1>6 DEF PoolFits
  <2> QED BY <2>1, <2>2, <2>3 DEF PoolFits
<1> QED BY <1>10, <1>11, <1>12

\* A worker goes on with its job.
LEMMA WorkPlaces ==
  ASSUME Placed, NEW w \in Worker,
         BeginAttempt(w) \/ Store(w) \/ Fail(w) \/ Announce(w) \/ Land(w)
  PROVE  /\ PoolFits' /\ OneJob' /\ InPool' = InPool
         /\ turn[w].step # "idle" /\ turn'[w].step # "idle" /\ turn'[w].job = turn[w].job
         /\ \A v \in Worker \ {w} : turn'[v] = turn[v]
<1> DEFINE d == turn[w].job.doc
<1>1. Sound /\ OneJob
  BY PlacedSound
<1>2. turn[w].step # "idle" /\ UNCHANGED <<jobs, outcomes>>
  BY DEF BeginAttempt, Store, Fail, Announce, Land
<1>3. turn \in [Worker -> Turn] /\ w \in Active /\ PoolFits
  BY <1>1, <1>2 DEF Sound, DashboardTypes, PoolOK, Active
<1>4. /\ turn'[w].job = turn[w].job /\ \A v \in Worker \ {w} : turn'[v] = turn[v]
      /\ BeginAttempt(w) => turn'[w].step = "working" /\ turn[w].step = "taken"
      /\ Store(w) => turn'[w].step \in {"announce", "landed"} /\ turn[w].step \in {"taken", "working"}
      /\ Fail(w) => turn'[w].step = "ended" /\ turn'[w].result = "failure" /\ turn[w].step = "working"
      /\ ~Fail(w) => turn'[w].result = turn[w].result
      /\ Announce(w) => turn'[w].step = "landed" /\ turn[w].step = "announce"
      /\ Land(w) => turn'[w].step = "ended" /\ turn'[w].result = turn[w].result /\ turn[w].step = "landed"
  <2>1. CASE BeginAttempt(w)
    BY <1>3, <2>1 DEF BeginAttempt, Goes, Turn, Store, Fail, Announce, Land
  <2>2. CASE Store(w)
    <3>1. PICK next \in {"announce", "landed"} : turn' = [turn EXCEPT ![w].step = next]
      BY <2>2 DEF Store, Goes
    <3>2. turn[w].step \in {"taken", "working"}
      BY <2>2 DEF Store
    <3>3. /\ turn'[w].step = next /\ turn'[w].job = turn[w].job /\ turn'[w].result = turn[w].result
          /\ \A v \in Worker \ {w} : turn'[v] = turn[v]
      BY <1>3, <3>1 DEF Turn
    <3>4. BeginAttempt(w) => turn'[w].step = "working"
      BY <1>3 DEF BeginAttempt, Goes, Turn
    <3>5. Fail(w) => turn'[w].step = "ended"
      BY <1>3 DEF Fail, Turn
    <3> QED BY <3>2, <3>3, <3>4, <3>5 DEF Announce, Land
  <2>3. CASE Fail(w)
    <3>1. /\ turn'[w].step = "ended" /\ turn'[w].result = "failure" /\ turn[w].step = "working"
          /\ turn'[w].job = turn[w].job /\ \A v \in Worker \ {w} : turn'[v] = turn[v]
      BY <1>3, <2>3 DEF Fail, Turn
    <3>2. Store(w) => turn'[w].step \in {"announce", "landed"}
      BY <1>1, StoreGoes
    <3> QED BY <3>1, <3>2 DEF BeginAttempt, Announce, Land
  <2>4. CASE Announce(w)
    BY <1>3, <2>4 DEF BeginAttempt, Goes, Turn, Store, Fail, Announce, Land
  <2>5. CASE Land(w)
    BY <1>3, <2>5 DEF BeginAttempt, Goes, Turn, Store, Fail, Announce, Land
  <2> QED BY <2>1, <2>2, <2>3, <2>4, <2>5
<1>5. /\ \A c \in Doc \ {d} : SameCourse(c)
      /\ ledger'[d].attempt = ledger[d].attempt /\ ledger'[d].run = ledger[d].run
      /\ ledger'[d].local = ledger[d].local
      /\ Store(w) => ledger'[d].told = "COMPLETED"
      /\ BeginAttempt(w) => ledger'[d].told = "OPEN"
      /\ Fail(w) => ledger'[d].told = IF turn[w].job.attempt >= MaxAttempts THEN "PERMANENTLY_FAILED"
                                        ELSE "FAILED_FOR_ROUND"
      /\ Announce(w) \/ Land(w) => ledger'[d].told = ledger[d].told
  BY <1>1, <1>2, WorkerCourse
<1>6. Fits(ledger', turn[w].job)
  BY <1>1, <1>2, <1>5, TurnJob DEF Fits
<1>7. /\ turn'[w].step # "idle"
      /\ turn'[w].step \in {"taken", "working"} => Open(ledger', turn[w].job)
      /\ turn'[w].step = "working" => ~ledger'[turn[w].job.doc].local
      /\ turn'[w].step \in {"announce", "landed"} => Settled(ledger', turn[w].job, "success")
      /\ turn'[w].step = "ended" => Settled(ledger', turn[w].job, turn'[w].result)
      /\ turn'[w].step # "ended" => turn'[w].result = "success"
  <2>0. /\ turn[w].result = "success"
        /\ turn'[w].step # "ended" => turn'[w].result = turn[w].result
        /\ turn[w].step # "ended"
    BY <1>3, <1>4 DEF PoolFits
  <2>1. CASE BeginAttempt(w)
    <3>1. ~ledger[d].local
      BY <2>1 DEF BeginAttempt
    <3> QED BY <1>4, <1>5, <1>6, <2>1, <3>1, <2>0 DEF Open
  <2>2. CASE Store(w)
    BY <2>0, <1>4, <1>5, <1>6, <2>2 DEF Settled
  <2>3. CASE Fail(w)
    BY <1>4, <1>5, <1>6, <2>3 DEF Settled
  <2>4. CASE Announce(w)
    BY <2>0, <1>3, <1>4, <1>5, <1>6, <2>4 DEF Settled, PoolFits
  <2>5. CASE Land(w)
    <3>1. Settled(ledger, turn[w].job, "success") /\ turn[w].result \in Results
      BY <1>3, <1>4, <2>5 DEF PoolFits, Turn
    <3> QED BY <1>4, <1>5, <1>6, <2>0, <2>5, <3>1 DEF Settled
  <2> QED BY <2>1, <2>2, <2>3, <2>4, <2>5
<1>8. PoolFits' /\ OneJob' /\ InPool' = InPool
  BY <1>1, <1>2, <1>4, <1>5, <1>7, MoveKept
<1> QED BY <1>2, <1>4, <1>7, <1>8

\* Each step of a worker keeps every document in one place.
LEMMA WorkerPlaces ==
  ASSUME Placed, NEW w \in Worker, DownloadStep(w)
  PROVE  Placed'
<1> DEFINE d == turn[w].job.doc
<1>1. Sound /\ OneJob /\ DashboardTypes /\ LedgerOK /\ PoolOK /\ Runs /\ Quiet /\ Waiting
  BY PlacedSound DEF Sound, DashboardTypes, Placed, PlacesInv, Waiting
<1>2. PICK es : Tells(es)
  BY <1>1, WorkerSomethingTold
<1>3. Parts'
  BY <1>1, WorkerParts
<1>4. UNCHANGED mainVars
  BY DEF DownloadStep, Take, BeginAttempt, Store, Fail, Announce, Land, Return, UnchangedByWorker
<1>5. /\ PoolFits' /\ OneJob' /\ InPool' = InPool
      /\ (Take(w) \/ Return(w)) \/ (turn[w].step # "idle" /\ turn'[w].step # "idle"
                                    /\ \A v \in Worker \ {w} : turn'[v] = turn[v])
  BY TakePlaces, ReturnPlaces, WorkPlaces DEF DownloadStep
<1>6. \A c \in Doc \ InPool : SameCourse(c)
  <2>1. CASE Take(w) \/ Return(w)
    <3>1. ledger' = ledger
      BY <2>1 DEF Take, Return
    <3> QED BY <3>1 DEF SameCourse
  <2>2. CASE ~(Take(w) \/ Return(w))
    <3>1. turn[w].step # "idle"
      BY <1>5, <2>2
    <3>2. \A c \in Doc \ {d} : SameCourse(c)
      BY <1>1, <2>2, <3>1, WorkerCourse DEF DownloadStep
    <3>3. d \in InPool
      BY <3>1 DEF Active, InTurn, InPool
    <3> QED BY <3>2, <3>3
  <2> QED BY <2>1, <2>2
<1>7. \A c \in Doc : /\ ledger'[c].run = ledger[c].run /\ ledger'[c].attempt = ledger[c].attempt
                     /\ ledger'[c].told = "none" <=> ledger[c].told = "none"
                     /\ ledger'[c].told \in Begun => ledger[c].told \in Begun
                     /\ ledger'[c].told = "FAILED_FOR_ROUND" =>
                          ledger[c].told = "FAILED_FOR_ROUND" \/ ledger[c].attempt < MaxAttempts
  <2>1. CASE Take(w) \/ Return(w)
    <3>1. ledger' = ledger
      BY <2>1 DEF Take, Return
    <3> QED BY <3>1
  <2>2. CASE ~(Take(w) \/ Return(w))
    <3>1. turn[w].step # "idle"
      BY <1>5, <2>2
    <3>2. /\ \A c \in Doc \ {d} : SameCourse(c)
          /\ ledger'[d].attempt = ledger[d].attempt /\ ledger'[d].run = ledger[d].run
          /\ Store(w) => ledger'[d].told = "COMPLETED"
          /\ BeginAttempt(w) => ledger'[d].told = "OPEN"
          /\ Fail(w) => ledger'[d].told = IF turn[w].job.attempt >= MaxAttempts THEN "PERMANENTLY_FAILED"
                                            ELSE "FAILED_FOR_ROUND"
          /\ Announce(w) \/ Land(w) => ledger'[d].told = ledger[d].told
      BY <1>1, <2>2, <3>1, WorkerCourse DEF DownloadStep
    <3>3. /\ ledger[d].told \in Begun /\ turn[w].job.attempt = ledger[d].attempt
          /\ turn[w].job \in Job
      BY <1>1, <3>1, TurnJob
    <3>4. BeginAttempt(w) \/ Fail(w) => ledger[d].told = "OPEN"
      <4>1. BeginAttempt(w) \/ Fail(w) => turn[w].step \in {"taken", "working"}
        BY DEF BeginAttempt, Fail
      <4>2. turn[w].step \in {"taken", "working"} => Open(ledger, turn[w].job)
        BY <1>1, <3>1 DEF Sound, PoolFits, Active
      <4> QED BY <4>1, <4>2 DEF Open
    <3>5. ASSUME Fail(w), ~(turn[w].job.attempt >= MaxAttempts) PROVE ledger[d].attempt < MaxAttempts
      BY <3>3, <3>5, DashboardAssumption DEF Job
    <3>6. ASSUME NEW c \in Doc \ {d}
          PROVE /\ ledger'[c].run = ledger[c].run /\ ledger'[c].attempt = ledger[c].attempt
                /\ ledger'[c].told = ledger[c].told
      BY <3>2 DEF SameCourse
    <3>7. /\ ledger'[d].told = "none" <=> ledger[d].told = "none"
          /\ ledger'[d].told \in Begun => ledger[d].told \in Begun
          /\ ledger'[d].told = "FAILED_FOR_ROUND" =>
               ledger[d].told = "FAILED_FOR_ROUND" \/ ledger[d].attempt < MaxAttempts
      <4> HIDE DEF d
      <4>1. CASE BeginAttempt(w)
        BY <3>2, <3>3, <3>4, <4>1 DEF Begun
      <4>2. CASE Store(w)
        BY <3>2, <3>3, <4>2 DEF Begun
      <4>3. CASE Fail(w)
        BY <3>2, <3>3, <3>4, <3>5, <4>3 DEF Begun
      <4>4. CASE Announce(w) \/ Land(w)
        BY <3>2, <4>4
      <4> QED BY <2>2, <4>1, <4>2, <4>3, <4>4 DEF DownloadStep
    <3> HIDE DEF d
    <3> QED BY <3>2, <3>6, <3>7
  <2> QED BY <2>1, <2>2
<1>0. Records'
  BY <1>1, WorkerRecords
<1>8. New' = New
  BY <1>0, <1>1, <1>7, NewIs DEF Sound, Records
<1>9. ItemsOK'
  BY <1>1, <1>4, <1>8, ItemsKept
<1>10. DashboardTypes'
  BY <1>2, <1>3, <1>9, TypesAgain
<1>11. Runs'
  <2>1. run' = run /\ pc' = pc /\ item' = item /\ \A i \in 1..Len(bus') : bus'[i].run <= run
    BY <1>2, <1>4 DEF Tells, mainVars
  <2>2. DOMAIN bus' = 1..Len(bus')
    BY <1>2 DEF Tells
  <2> QED BY <1>1, <1>7, <2>1, <2>2 DEF Runs
<1>12. Waiting'
  <2>1. Waiting' = (pc \notin {"closing", "over", "done"} => Later')
    BY <1>4 DEF Waiting, mainVars
  <2> QED BY <1>1, <1>4, <1>5, <1>6, <2>1, LaterKept DEF Waiting, mainVars
<1>13. Quiet'
  <2>1. pc' = pc /\ drain' = drain
    BY <1>4 DEF mainVars
  <2>2. jobs = <<>> => jobs' = <<>>
    BY DEF DownloadStep, Take, BeginAttempt, Store, Fail, Announce, Land, Return
  <2>3. CASE Active = {}
    <3>1. turn[w].step = "idle"
      BY <2>3 DEF Active
    <3>2. Take(w)
      BY <3>1 DEF DownloadStep, Take, BeginAttempt, Store, Fail, Announce, Land, Return
    <3>3. jobs # <<>> /\ outcomes' = outcomes
      BY <3>2 DEF Take
    <3> QED BY <1>1, <2>1, <2>2, <3>3 DEF Quiet
  <2>4. CASE Active # {}
    <3>1. pc \notin {"last", "rounds", "done", "over"}
      BY <1>1, <2>4 DEF Quiet
    <3> QED BY <1>1, <2>1, <2>2, <3>1 DEF Quiet
  <2> QED BY <2>3, <2>4
<1> QED BY <1>0, <1>5, <1>10, <1>11, <1>12, <1>13 DEF Placed, PlacesInv, Waiting

-----------------------------------------------------------------------------
(* What the validators tell                                                *)

\* A verdict is published as an event of Stage 2 that is not its start.
LEMMA KindOfType ==
  ASSUME NEW verdict
  PROVE  KindOf(verdict) \in {"STAGE2_INVALID", "STAGE2_APPROVED", "STAGE2_REJECTED",
                              "STAGE2_DUPLICATE_PENDING", "STAGE2_PENDING"}
         /\ KindOf(verdict) \in Kinds /\ KindOf(verdict) \in Stage2Kinds
BY DEF KindOf, Kinds, Stage2Kinds

\* SetToSeq lists the elements of a finite set, each of them somewhere.
LEMMA ListOfSet ==
  ASSUME NEW S, IsFiniteSet(S)
  PROVE  /\ SetToSeq(S) \in Seq(S)
         /\ \A x \in S : \E i \in 1..Len(SetToSeq(S)) : SetToSeq(S)[i] = x
<1> DEFINE n == Cardinality(S)
           s == SetToSeq(S)
<1>1. n \in Nat /\ ExistsBijection(1..n, S)
  BY FS_CardinalityType
<1>2. \E f \in [1..n -> S] : IsInjective(f)
  BY <1>1 DEF ExistsBijection, Bijection, Injection
<1>3. s \in [1..n -> S] /\ IsInjective(s)
  BY <1>2 DEF SetToSeq
<1>4. s \in Injection(1..n, S)
  BY <1>3 DEF Injection
<1>5. Cardinality(1..n) = n
  BY <1>1, FS_Interval
<1>6. s \in Surjection(1..n, S)
  BY <1>1, <1>4, <1>5, FS_Injection
<1>7. \A x \in S : \E i \in 1..n : s[i] = x
  BY <1>3, <1>6 DEF Surjection
<1>8. s \in Seq(S) /\ Len(s) = n
  BY <1>1, <1>3
<1> QED BY <1>7, <1>8

\* The copies' events, then the document's own.
\* A verdict on a document, and on the copies that waited for it.
Judged(d, verdict, es) ==
  /\ Tells(es) /\ Len(es) >= 1
  /\ \A i \in 1..Len(es) : \E c \in Copies(d, verdict) \cup {d} : es[i] = About(KindOf(verdict), Job2(c))
  /\ \A c \in Copies(d, verdict) \cup {d} : \E i \in 1..Len(es) : es[i] = About(KindOf(verdict), Job2(c))
  /\ ledger' = [c \in Doc |->
       IF c = d THEN [Ruling(ledger[c], verdict) EXCEPT !.hashed = ~ledger[c].local, !.copyOf = NoDoc]
       ELSE IF c \in Copies(d, verdict) THEN [ledger[c] EXCEPT !.verdict = verdict]
       ELSE ledger[c]]

\* What a validator has before it was queued once, and so were the copies of it.
LEMMA JudgedBegun ==
  ASSUME Sound, NEW v \in Validator, judge[v] # NoDoc
  PROVE  /\ judge[v] \in Doc /\ ledger[judge[v]].told \in Begun
         /\ \A verdict : \A c \in Copies(judge[v], verdict) : c \in Doc /\ ledger[c].told \in Begun
<1>1. judge[v] \in Doc
  BY DEF Sound, DashboardTypes, Stage2OK
<1>2. InValidation(judge[v])
  BY <1>1 DEF InValidation, InStage2
<1>3. ASSUME NEW verdict, NEW c \in Copies(judge[v], verdict) PROVE c \in Doc /\ InValidation(c)
  BY <1>1, DashboardAssumption DEF Copies, InValidation
<1> QED BY <1>1, <1>2, <1>3 DEF Sound, Records, Handed

\* A verdict is told of the copies first and then of the document.
LEMMA JudgeTells ==
  ASSUME Sound, NEW v \in Validator, Judge(v)
  PROVE  \E verdict \in Verdicts \union {"PENDING"} : \E es : Judged(judge[v], verdict, es)
<1> DEFINE d == judge[v]
<1>1. LedgerOK /\ d \in Doc /\ UNCHANGED <<metrics, run>>
  BY DEF Judge, Sound, DashboardTypes, Stage2OK, UnchangedByValidator, viewVars, mainVars
<1>0. \A verdict : \A c \in Copies(d, verdict) \cup {d} : c \in Doc /\ ledger[c].told \in Begun
  BY JudgedBegun DEF Judge
<1> HIDE DEF d
<1>2. PICK verdict \in Verdicts \union {"PENDING"} :
        LET copies == SetToSeq(Copies(d, verdict))
            words == [i \in DOMAIN copies |-> About(KindOf(verdict), Job2(copies[i]))]
        IN  /\ ledger' = [c \in Doc |->
                 IF c = d THEN [Ruling(ledger[d], verdict) EXCEPT !.hashed = ~ledger[d].local,
                                                                  !.copyOf = NoDoc]
                 ELSE IF c \in Copies(d, verdict) THEN [ledger[c] EXCEPT !.verdict = verdict]
                 ELSE ledger[c]]
            /\ Put(words \o <<About(KindOf(verdict), Job2(d))>>)
  BY DEF Judge, d
<1> DEFINE copies == SetToSeq(Copies(d, verdict))
           Word(c) == About(KindOf(verdict), Job2(c))
           words == [i \in DOMAIN copies |-> Word(copies[i])]
           es == words \o <<Word(d)>>
<1>3. Copies(d, verdict) \subseteq Doc /\ IsFiniteSet(Copies(d, verdict))
  <2>1. Copies(d, verdict) \subseteq Doc
    BY DEF Copies
  <2> QED BY <2>1, DashboardAssumption, FS_Subset
<1>4. /\ copies \in Seq(Copies(d, verdict))
      /\ \A c \in Copies(d, verdict) : \E i \in 1..Len(copies) : copies[i] = c
  BY <1>3, ListOfSet
<1>5. \A c \in Copies(d, verdict) \cup {d} :
        Word(c) \in Message /\ Word(c).run = ledger[c].run /\ ledger[c].run <= run
  BY <1>0, <1>1, KindOfType, MessageTypes DEF Sound, Runs
<1> HIDE DEF copies, Word
<1>6. Len(copies) \in Nat /\ DOMAIN copies = 1..Len(copies)
      /\ \A i \in 1..Len(copies) : copies[i] \in Copies(d, verdict) /\ copies[i] \in Doc
  BY <1>3, <1>4
<1>7. words \in Seq(Message) /\ Len(words) = Len(copies) /\ \A i \in 1..Len(copies) : words[i] = Word(copies[i])
  BY <1>5, <1>6
<1> HIDE DEF words
<1>8. /\ es \in Seq(Message) /\ Len(es) = Len(copies) + 1 /\ es[Len(copies) + 1] = Word(d)
      /\ \A i \in 1..Len(copies) : es[i] = Word(copies[i])
  BY <1>1, <1>5, <1>6, <1>7
<1>9. \A i \in 1..Len(es) : \E c \in Copies(d, verdict) \cup {d} : es[i] = Word(c)
  <2> TAKE i \in 1..Len(es)
  <2>1. CASE i = Len(copies) + 1
    BY <1>8, <2>1
  <2>2. CASE i # Len(copies) + 1
    <3>1. i \in 1..Len(copies)
      BY <1>6, <1>8, <2>2
    <3> QED BY <1>6, <1>8, <3>1
  <2> QED BY <2>1, <2>2
<1>10. \A c \in Copies(d, verdict) \cup {d} : \E i \in 1..Len(es) : es[i] = Word(c)
  <2>1. Len(copies) + 1 \in 1..Len(es) /\ \A i \in 1..Len(copies) : i \in 1..Len(es)
    BY <1>6, <1>8
  <2> HIDE DEF es
  <2> QED BY <1>4, <1>8, <2>1
<1>11. Put(es)
  BY <1>2 DEF copies, words, Word
<1> HIDE DEF es
<1>12. \A i \in 1..Len(es) : es[i].run <= run
  BY <1>1, <1>3, <1>5, <1>9
<1>13. Tells(es)
  BY <1>1, <1>8, <1>11, <1>12, SoundHeard, PublishTells
<1>14. Len(es) >= 1
  BY <1>6, <1>8
<1>15. ledger' = [c \in Doc |->
         IF c = d THEN [Ruling(ledger[c], verdict) EXCEPT !.hashed = ~ledger[c].local, !.copyOf = NoDoc]
         ELSE IF c \in Copies(d, verdict) THEN [ledger[c] EXCEPT !.verdict = verdict]
         ELSE ledger[c]]
  BY <1>2
<1>16. Judged(d, verdict, es)
  BY <1>9, <1>10, <1>13, <1>14, <1>15 DEF Judged, Word
<1> QED BY <1>16 DEF d

\* The other validators' steps: one event, or two about a copy.
LEMMA CheckTells ==
  ASSUME Sound, NEW v \in Validator, Check(v)
  PROVE  /\ Tells(<<About("STAGE2_STARTED", Job2(Head(stage2Queue)))>>)
         /\ Head(stage2Queue) \in Doc /\ ledger[Head(stage2Queue)].told \in Begun
<1>1. /\ stage2Queue # <<>> /\ Put(<<About("STAGE2_STARTED", Job2(Head(stage2Queue)))>>)
      /\ UNCHANGED <<metrics, run>> /\ "STAGE2_STARTED" \in Kinds
  BY DEF Check, UnchangedByValidator, viewVars, mainVars, Kinds, Stage2Kinds
<1>2. Head(stage2Queue) \in Doc /\ Head(stage2Queue) \in Range(stage2Queue)
  BY <1>1 DEF Sound, DashboardTypes, Stage2OK, Range
<1>3. ledger[Head(stage2Queue)].told \in Begun
  BY <1>2 DEF Sound, Records, Handed, InValidation, InStage2
<1> QED BY <1>1, <1>2, <1>3, LedgerTells

\* A copy is told as a duplicate and then with the verdict it inherits.
LEMMA LinkCopyTells ==
  ASSUME Sound, NEW v \in Validator, LinkCopy(v)
  PROVE  LET d == judge[v]
         IN  \E verdict \in {"APPROVED", "REJECTED", "DUPLICATE_PENDING"}, c \in Doc :
               /\ Tells(<<About("DUPLICATE_DETECTED", Job2(d)), About(KindOf(verdict), Job2(d))>>)
               /\ ledger' = [ledger EXCEPT ![d] = [Ruling(@, verdict) EXCEPT !.hashed = TRUE, !.copyOf = c]]
<1> DEFINE d == judge[v]
<1>1. LedgerOK /\ d \in Doc /\ UNCHANGED <<metrics, run>>
  BY DEF LinkCopy, Sound, DashboardTypes, Stage2OK, UnchangedByValidator, viewVars, mainVars
<1>2. PICK verdict \in {"APPROVED", "REJECTED", "DUPLICATE_PENDING"}, c \in Doc :
        /\ ledger' = [ledger EXCEPT ![d] = [Ruling(@, verdict) EXCEPT !.hashed = TRUE, !.copyOf = c]]
        /\ Put(<<About("DUPLICATE_DETECTED", Job2(d)), About(KindOf(verdict), Job2(d))>>)
  BY DEF LinkCopy, Originals
<1>0. ledger[d].told \in Begun
  BY JudgedBegun DEF LinkCopy
<1> DEFINE first == About("DUPLICATE_DETECTED", Job2(d))
           second == About(KindOf(verdict), Job2(d))
<1> HIDE DEF d
<1>3. "DUPLICATE_DETECTED" \in Kinds /\ KindOf(verdict) \in Kinds
  BY KindOfType DEF Kinds
<1>4. first \in Message /\ second \in Message /\ first.run <= run /\ second.run <= run
  BY <1>0, <1>1, <1>3, MessageTypes DEF Sound, Runs
<1> HIDE DEF first, second
<1>5. <<first, second>> \in Seq(Message) /\ \A i \in 1..Len(<<first, second>>) : <<first, second>>[i].run <= run
  BY <1>4
<1>6. Put(<<first, second>>)
  BY <1>2 DEF first, second
<1>7. Tells(<<first, second>>)
  BY <1>1, <1>5, <1>6, SoundHeard, PublishTells
<1> QED BY <1>2, <1>7 DEF d, first, second

\* Each step of a validator is a list of events.
LEMMA ValidatorSomethingTold ==
  ASSUME Sound, NEW v \in Validator, ValidatorStep(v)
  PROVE  \E es : Tells(es)
<1>1. CASE Check(v)
  BY <1>1, CheckTells
<1>2. CASE LinkCopy(v)
  BY <1>2, LinkCopyTells
<1>3. CASE Judge(v)
  BY <1>3, JudgeTells DEF Judged
<1>4. CASE Raise(v)
  BY <1>4, SilentTells DEF SilentStep
<1> QED BY <1>1, <1>2, <1>3, <1>4 DEF ValidatorStep

\* A validator changes nothing that was told of a document's download, and writes
\* a record only of one that was queued.
LEMMA ValidatorWrites ==
  ASSUME Sound, NEW v \in Validator, ValidatorStep(v)
  PROVE  \A d \in Doc :
           /\ SameCourse(d)
           /\ \/ ledger'[d].status = ledger[d].status
              \/ ledger'[d].status = "COMPLETED" /\ ledger[d].told \in Begun
           /\ ledger'[d].copyOf = ledger[d].copyOf \/ ledger'[d].copyOf = NoDoc \/ ledger[d].told \in Begun
<1>0. ledger \in [Doc -> Entry] /\ \A d \in Doc : ledger[d] \in Entry
  BY DEF Sound, DashboardTypes, LedgerOK
<1> DEFINE May(d, new) ==
             /\ SameCandidate(new, ledger[d]) /\ new.told = ledger[d].told
             /\ \/ new.status = ledger[d].status
                \/ new.status = "COMPLETED" /\ ledger[d].told \in Begun
             /\ new.copyOf = ledger[d].copyOf \/ new.copyOf = NoDoc \/ ledger[d].told \in Begun
<1>1. ASSUME NEW d \in Doc, ledger[d].told \in Begun, NEW r \in Rulings, NEW h \in BOOLEAN,
             NEW c \in Doc \cup {NoDoc}
      PROVE  /\ May(d, Ruling(ledger[d], r))
             /\ May(d, [Ruling(ledger[d], r) EXCEPT !.hashed = h, !.copyOf = c])
  <2>1. /\ Ruling(ledger[d], r) \in Entry /\ SameCandidate(Ruling(ledger[d], r), ledger[d])
        /\ Ruling(ledger[d], r).status = "COMPLETED" /\ Ruling(ledger[d], r).told = ledger[d].told
        /\ Ruling(ledger[d], r).copyOf = ledger[d].copyOf
    BY <1>0, RulingIs
  <2>2. \A e \in Entry : LET f == [e EXCEPT !.hashed = h, !.copyOf = c]
                         IN  SameCandidate(f, e) /\ f.told = e.told /\ f.status = e.status
    BY DEF SameCandidate, Entry
  <2> QED BY <1>1, <2>1, <2>2 DEF SameCandidate
<1>2. ASSUME NEW d \in Doc PROVE May(d, ledger[d]) /\ \A r : May(d, [ledger[d] EXCEPT !.verdict = r])
  <2>1. May(d, ledger[d])
    BY DEF SameCandidate
  <2>2. ASSUME NEW e \in Entry, NEW r
        PROVE  LET f == [e EXCEPT !.verdict = r]
               IN  SameCandidate(f, e) /\ f.told = e.told /\ f.status = e.status /\ f.copyOf = e.copyOf
    BY DEF Entry, SameCandidate
  <2>3. ledger[d] \in Entry
    BY <1>0
  <2> QED BY <2>1, <2>2, <2>3
<1>3. ASSUME NEW d \in Doc PROVE May(d, ledger'[d])
  <2>1. CASE Check(v)
    <3>1. /\ ledger' = [ledger EXCEPT ![Head(stage2Queue)] = Ruling(@, "RUNNING")]
          /\ Head(stage2Queue) \in Doc /\ ledger[Head(stage2Queue)].told \in Begun
      BY <2>1, CheckTells DEF Check
    <3>2. \/ ledger'[d] = ledger[d]
          \/ d = Head(stage2Queue) /\ ledger'[d] = Ruling(ledger[d], "RUNNING")
      <4>1. CASE d = Head(stage2Queue)
        BY <1>0, <3>1, <4>1
      <4>2. CASE d # Head(stage2Queue)
        BY <1>0, <3>1, <4>2
      <4> QED BY <4>1, <4>2
    <3>3. "RUNNING" \in Rulings
      BY DEF Rulings
    <3> HIDE DEF May
    <3>4. CASE ledger'[d] = ledger[d]
      BY <1>2, <3>4
    <3>5. CASE d = Head(stage2Queue) /\ ledger'[d] = Ruling(ledger[d], "RUNNING")
      <4>1. May(d, Ruling(ledger[d], "RUNNING"))
        BY <1>1, <3>1, <3>3, <3>5
      <4> QED BY <3>5, <4>1
    <3> QED BY <3>2, <3>4, <3>5
  <2>2. CASE LinkCopy(v)
    <3>1. judge[v] \in Doc /\ ledger[judge[v]].told \in Begun
      BY <2>2, JudgedBegun DEF LinkCopy
    <3>2. PICK verdict \in {"APPROVED", "REJECTED", "DUPLICATE_PENDING"}, c \in Doc :
            ledger' = [ledger EXCEPT ![judge[v]] = [Ruling(@, verdict) EXCEPT !.hashed = TRUE, !.copyOf = c]]
      BY <2>2, LinkCopyTells
    <3>3. \/ ledger'[d] = ledger[d]
          \/ d = judge[v] /\ ledger'[d] = [Ruling(ledger[d], verdict) EXCEPT !.hashed = TRUE, !.copyOf = c]
      BY <1>0, <3>1, <3>2
    <3>4. verdict \in Rulings
      BY DEF Rulings, Verdicts
    <3> HIDE DEF May
    <3>5. CASE ledger'[d] = ledger[d]
      BY <1>2, <3>5
    <3>6. CASE d = judge[v] /\ ledger'[d] = [Ruling(ledger[d], verdict) EXCEPT !.hashed = TRUE, !.copyOf = c]
      <4>1. May(d, [Ruling(ledger[d], verdict) EXCEPT !.hashed = TRUE, !.copyOf = c])
        BY <1>1, <3>1, <3>4, <3>6
      <4> QED BY <3>6, <4>1
    <3> QED BY <3>3, <3>5, <3>6
  <2>3. CASE Judge(v)
    <3>1. PICK verdict \in Verdicts \union {"PENDING"} : \E es : Judged(judge[v], verdict, es)
      BY <2>3, JudgeTells
    <3>2. judge[v] \in Doc /\ ledger[judge[v]].told \in Begun
      BY <2>3, JudgedBegun DEF Judge
    <3>3. \/ d = judge[v] /\ ledger'[d] = [Ruling(ledger[d], verdict) EXCEPT
                                            !.hashed = ~ledger[d].local, !.copyOf = NoDoc]
          \/ ledger'[d] = [ledger[d] EXCEPT !.verdict = verdict]
          \/ ledger'[d] = ledger[d]
      BY <3>1 DEF Judged
    <3>4. verdict \in Rulings /\ (~ledger[d].local) \in BOOLEAN
      BY <1>0 DEF Rulings, Entry
    <3> HIDE DEF May
    <3>5. CASE d = judge[v] /\ ledger'[d] = [Ruling(ledger[d], verdict) EXCEPT
                                             !.hashed = ~ledger[d].local, !.copyOf = NoDoc]
      <4>1. May(d, [Ruling(ledger[d], verdict) EXCEPT !.hashed = ~ledger[d].local, !.copyOf = NoDoc])
        BY <1>1, <3>2, <3>4, <3>5
      <4> QED BY <3>5, <4>1
    <3>6. CASE ledger'[d] = [ledger[d] EXCEPT !.verdict = verdict]
      BY <1>2, <3>6
    <3>7. CASE ledger'[d] = ledger[d]
      BY <1>2, <3>7
    <3> QED BY <3>3, <3>5, <3>6, <3>7
  <2>4. CASE Raise(v)
    <3>1. ledger' = [ledger EXCEPT ![judge[v]] = Ruling(@, "PENDING")]
      BY <2>4 DEF Raise
    <3>2. judge[v] \in Doc /\ ledger[judge[v]].told \in Begun
      BY <2>4, JudgedBegun DEF Raise
    <3>3. \/ ledger'[d] = ledger[d]
          \/ d = judge[v] /\ ledger'[d] = Ruling(ledger[d], "PENDING")
      <4>1. CASE d = judge[v]
        BY <1>0, <3>1, <3>2, <4>1
      <4>2. CASE d # judge[v]
        BY <1>0, <3>1, <4>2
      <4> QED BY <4>1, <4>2
    <3>4. "PENDING" \in Rulings
      BY DEF Rulings
    <3> HIDE DEF May
    <3>5. CASE ledger'[d] = ledger[d]
      BY <1>2, <3>5
    <3>6. CASE d = judge[v] /\ ledger'[d] = Ruling(ledger[d], "PENDING")
      <4>1. May(d, Ruling(ledger[d], "PENDING"))
        BY <1>1, <3>2, <3>4, <3>6
      <4> QED BY <3>6, <4>1
    <3> QED BY <3>3, <3>5, <3>6
  <2> QED BY <2>1, <2>2, <2>3, <2>4 DEF ValidatorStep
<1> QED BY <1>3 DEF SameCourse, SameCandidate

\* A validator touches neither what was told nor the run of a document.
LEMMA ValidatorCourse ==
  ASSUME Sound, NEW v \in Validator, ValidatorStep(v)
  PROVE  \A d \in Doc : SameCourse(d)
BY ValidatorWrites

\* A validator's step leaves no record far behind.
LEMMA ValidatorRecords ==
  ASSUME Sound, NEW v \in Validator, ValidatorStep(v)
  PROVE  Records'
<1>1. UNCHANGED <<pc, items, item>>
  BY DEF ValidatorStep, Check, LinkCopy, Judge, Raise, UnchangedByValidator, mainVars
<1>2. \A d \in Doc :
        /\ SameCourse(d)
        /\ \/ ledger'[d].status = ledger[d].status
           \/ ledger'[d].status = "COMPLETED" /\ ledger[d].told \in Begun
        /\ ledger'[d].copyOf = ledger[d].copyOf \/ ledger'[d].copyOf = NoDoc \/ ledger[d].told \in Begun
  BY ValidatorWrites
<1>3. Lags'
  BY <1>2 DEF Sound, Records, Lags, Near, SameCourse
<1>4. \A d \in Doc : InStage2(d)' => InStage2(d)
  <2>1. CASE Check(v)
    <3>1. /\ stage2Queue # <<>> /\ judge' = [judge EXCEPT ![v] = Head(stage2Queue)]
          /\ stage2Queue' = Tail(stage2Queue) /\ stage2Queue \in Seq(Doc)
          /\ judge \in [Validator -> Doc \cup {NoDoc}]
      BY <2>1 DEF Check, Sound, DashboardTypes, Stage2OK
    <3>2. Head(stage2Queue) \in Range(stage2Queue) /\ Range(stage2Queue') \subseteq Range(stage2Queue)
      BY <3>1 DEF Range
    <3> QED BY <3>1, <3>2 DEF InStage2
  <2>2. CASE LinkCopy(v) \/ Judge(v) \/ Raise(v)
    <3>1. stage2Queue' = stage2Queue /\ judge' = [judge EXCEPT ![v] = NoDoc]
          /\ judge \in [Validator -> Doc \cup {NoDoc}]
      BY <2>2 DEF LinkCopy, Judge, Raise, Released, Sound, DashboardTypes, Stage2OK
    <3> QED BY <3>1, DashboardAssumption DEF InStage2
  <2> QED BY <2>1, <2>2 DEF ValidatorStep
<1>5. \A d \in Doc : InValidation(d)' => InValidation(d) \/ ledger[d].told \in Begun
  BY <1>1, <1>2, <1>4 DEF InValidation
<1>6. \A d \in Doc : ledger[d].told \in Begun => ledger'[d].told \in Begun
  BY <1>2 DEF SameCourse
<1>7. Handed'
  BY <1>5, <1>6, HandedKept DEF Sound, Records
<1> QED BY <1>3, <1>7 DEF Records

\* Each step of a validator keeps every document in one place.
LEMMA ValidatorPlaces ==
  ASSUME Placed, NEW v \in Validator, ValidatorStep(v)
  PROVE  Placed'
<1>1. Sound /\ OneJob /\ DashboardTypes /\ Runs /\ Quiet /\ Waiting
  BY PlacedSound DEF Sound, Placed, PlacesInv, Waiting
<1>2. PICK es : Tells(es)
  BY <1>1, ValidatorSomethingTold
<1>3. Parts'
  BY <1>1, ValidatorParts
<1>4. UNCHANGED mainVars /\ UNCHANGED poolVars
  BY DEF ValidatorStep, Check, LinkCopy, Judge, Raise, UnchangedByValidator
<1>5. \A d \in Doc : SameCourse(d)
  BY <1>1, ValidatorCourse
<1>6. PoolFits' /\ OneJob' /\ InPool' = InPool
  <2>1. InPool \subseteq Doc
    BY <1>1, PoolTypes DEF DashboardTypes
  <2> QED BY <1>1, <1>4, <1>5, <2>1, PoolKept DEF poolVars
<1>0. Records'
  BY <1>1, ValidatorRecords
<1>7. ItemsOK'
  <2>1. New' = New
    BY <1>0, <1>1, <1>5, NewIs DEF Sound, Records, SameCourse
  <2> QED BY <1>1, <1>4, <2>1, ItemsKept
<1>8. DashboardTypes'
  BY <1>2, <1>3, <1>7, TypesAgain
<1>9. Runs'
  BY <1>1, <1>2, <1>4, <1>5, RunsKept DEF mainVars
<1>10. Waiting'
  <2>1. Waiting' = (pc \notin {"closing", "over", "done"} => Later')
    BY <1>4 DEF Waiting, mainVars
  <2> QED BY <1>1, <1>4, <1>5, <1>6, <2>1, LaterKept DEF Waiting, mainVars
<1>11. Quiet'
  BY <1>1, <1>4 DEF Quiet, mainVars, poolVars, Active
<1> QED BY <1>0, <1>6, <1>8, <1>9, <1>10, <1>11 DEF Placed, PlacesInv, Waiting

-----------------------------------------------------------------------------
(* What the main thread tells                                              *)

\* What _restore_pending_validation_jobs does with a document, of which any
\* write may be dropped.
LEMMA RestoreDoes ==
  ASSUME Sound, Restore
  PROVE  \/ /\ items = {} /\ Tells(<<>>) /\ pc' = "page"
            /\ UNCHANGED <<ledger, items, item, stage2Queue>>
         \/ \E d \in items :
              /\ d \in Doc /\ ledger[d].told \in Begun
              /\ items' = items \ {d} /\ item' = d /\ pc' \in {"announce", "restore"}
              /\ UNCHANGED stage2Queue \/ stage2Queue' = Append(stage2Queue, d)
              /\ \/ Rules(d, ledger[d], {"QUEUED"}) /\ Tells(<<>>)
                 \/ \E kind \in {"STAGE2_INVALID", "STAGE2_PENDING"} :
                      Rules(d, ledger[d], RulesWith(kind)) /\ Tells(<<About(kind, Job2(d))>>)
<1>1. pc = "restore" /\ UNCHANGED <<metrics, run>> /\ items \subseteq Doc
  BY DEF Restore, viewVars, Sound, DashboardTypes, ItemsOK
<1>2. CASE items = {}
  <2>1. UNCHANGED <<bus, items, item, ledger, stage2Queue>> /\ pc' = "page"
    BY <1>2 DEF Restore
  <2> QED BY <1>1, <1>2, <2>1, SoundHeard, SilenceTells
<1>3. CASE items # {}
  <2>1. PICK d \in items : \E next \in {"announce", "landed"} :
          /\ Scheduled(d, next, ledger[d]) /\ items' = items \ {d} /\ item' = d
          /\ pc' = IF next = "announce" THEN next ELSE pc
    BY <1>3 DEF Restore
  <2>2. PICK next \in {"announce", "landed"} :
          /\ Scheduled(d, next, ledger[d]) /\ items' = items \ {d} /\ item' = d
          /\ pc' = IF next = "announce" THEN next ELSE pc
    BY <2>1
  <2>3. d \in Doc /\ InValidation(d)
    BY <1>1 DEF InValidation
  <2>4. ledger[d].told \in Begun
    BY <2>3 DEF Sound, Records, Handed
  <2>5. /\ Queueing(d, next)
        /\ \/ Rules(d, ledger[d], {"QUEUED"}) /\ Tells(<<>>)
           \/ \E kind \in {"STAGE2_INVALID", "STAGE2_PENDING"} :
                Rules(d, ledger[d], RulesWith(kind)) /\ Tells(<<About(kind, Job2(d))>>)
    BY <1>1, <2>2, <2>3, <2>4, ScheduledDoes
  <2> QED BY <1>1, <2>2, <2>3, <2>4, <2>5 DEF Queueing
<1> QED BY <1>2, <1>3

\* What the restoring of a document leaves.
LEMMA RestoreLeaves ==
  ASSUME Sound, Restore
  PROVE  \A d \in Doc : Left(d)
<1> SUFFICES ASSUME NEW c \in Doc PROVE Left(c)
  OBVIOUS
<1>1. CASE ledger' = ledger
  BY <1>1 DEF SameCourse, Left
<1>2. ASSUME NEW d \in Doc, ledger[d].told \in Begun, NEW verdicts \in SUBSET Rulings,
             Rules(d, ledger[d], verdicts)
      PROVE  Left(c)
  <2>1. LedgerOK /\ ledger[d] \in Entry
    BY DEF Sound, DashboardTypes, LedgerOK
  <2>2. /\ \A b \in Doc \ {d} : ledger'[b] = ledger[b]
        /\ SameCandidate(ledger'[d], ledger[d]) /\ ledger'[d].told = ledger[d].told
        /\ ledger'[d].status \in {ledger[d].status, "COMPLETED"}
        /\ ledger'[d].copyOf = ledger[d].copyOf
    BY <1>2, <2>1, RulesLeave
  <2>3. CASE c = d
    BY <1>2, <2>2, <2>3 DEF SameCourse, SameCandidate, Left
  <2>4. CASE c # d
    BY <2>2, <2>4 DEF SameCourse, Left
  <2> QED BY <2>3, <2>4
<1>3. ledger' = ledger \/ \E d \in Doc : /\ ledger[d].told \in Begun
                                        /\ \E verdicts \in SUBSET Rulings : Rules(d, ledger[d], verdicts)
  BY RestoreDoes, RulesTypes
<1> QED BY <1>1, <1>2, <1>3

\* A job is announced as queued, or as queued again.
LEMMA EmitTells ==
  ASSUME Sound, Emit
  PROVE  \E kind \in {"RECOVERY_QUEUED", "DOWNLOAD_QUEUED"} :
           Tells(<<About(kind, item)>>) /\ About(kind, item) \in Message
<1>1. item \in Job /\ item.run <= run /\ UNCHANGED <<metrics, run>>
  BY DEF Emit, Sound, DashboardTypes, ItemsOK, Runs, viewVars
<1>2. PICK kind \in {"RECOVERY_QUEUED", "DOWNLOAD_QUEUED"} : Put(<<About(kind, item)>>)
  BY DEF Emit
<1>3. kind \in Kinds
  BY DEF Kinds
<1>4. About(kind, item) \in Message /\ About(kind, item).run <= run
  BY <1>1, <1>3, MessageTypes DEF About, Event
<1> QED BY <1>1, <1>2, <1>4, OneTells

\* A restored validation is announced by its document.
LEMMA AnnounceRestoredTells ==
  ASSUME Sound, AnnounceRestored
  PROVE  Tells(<<About("STAGE2_QUEUED", Job2(item))>>) /\ item \in Doc
<1>1. /\ item \in Doc /\ UNCHANGED <<metrics, run>> /\ Put(<<About("STAGE2_QUEUED", Job2(item))>>)
      /\ "STAGE2_QUEUED" \in Kinds /\ InValidation(item)
  BY DEF AnnounceRestored, Sound, DashboardTypes, ItemsOK, viewVars, Kinds, Stage2Kinds, InValidation
<1>2. ledger[item].told \in Begun
  BY <1>1 DEF Sound, Records, Handed
<1> QED BY <1>1, <1>2, LedgerTells

\* Sets of documents are finite.
LEMMA DocsFinite ==
  \A s \in SUBSET Doc : IsFiniteSet(s) /\ Cardinality(s) \in Nat
BY DashboardAssumption, FS_Subset, FS_CardinalityType

Batch(kind, s) == Event(kind, run, NoDoc, Cardinality(s))

\* The evaluator's events are events of this run.
LEMMA BatchType ==
  ASSUME Sound, pc # "over", NEW s \in SUBSET Doc, NEW kind \in Kinds \ Stage2Kinds
  PROVE  /\ Batch(kind, s) \in Message /\ Batch(kind, s).run = run /\ Batch(kind, s).kind = kind
         /\ Batch(kind, s).n = Cardinality(s)
<1>1. Cardinality(s) \in Nat /\ run \in 1..MaxRuns
  BY DocsFinite DEF Sound, DashboardTypes, MainOK, Runs
<1>2. Batch(kind, s) \in Message
  BY <1>1, MessageTypes DEF Batch
<1> QED BY <1>2 DEF Batch, Event

\* A page is told as discovered and as begun, and shown at once.
LEMMA DiscoverTells ==
  ASSUME Sound, Discover
  PROVE  /\ items' \in SUBSET New /\ metrics' = Now'
         /\ Tells(<<Batch("DOCUMENT_DISCOVERED", items'), Batch("STAGE1_STARTED", items')>>)
<1> DEFINE first == Batch("DOCUMENT_DISCOVERED", items')
           second == Batch("STAGE1_STARTED", items')
<1>1. items' \in SUBSET New /\ items' \in SUBSET Doc /\ run' = run /\ pc # "over"
  BY DEF Discover, New
<1>2. Refresh(bus \o <<first, second>>)
  BY DEF Discover, Batch
<1>3. "DOCUMENT_DISCOVERED" \in Kinds \ Stage2Kinds /\ "STAGE1_STARTED" \in Kinds \ Stage2Kinds
  BY DEF Kinds, Stage2Kinds, Stage1Kinds
<1>4. first \in Message /\ second \in Message /\ first.run = run /\ second.run = run /\ run \in Nat
  <2>1. PICK page \in SUBSET Doc : page = items'
    BY <1>1
  <2>2. /\ Batch("DOCUMENT_DISCOVERED", page) \in Message /\ Batch("DOCUMENT_DISCOVERED", page).run = run
        /\ Batch("STAGE1_STARTED", page) \in Message /\ Batch("STAGE1_STARTED", page).run = run
    BY <1>1, <1>3, BatchType
  <2> QED BY <2>1, <2>2 DEF Sound, DashboardTypes, MainOK
<1> HIDE DEF first, second
<1>5. <<first, second>> \in Seq(Message) /\ \A i \in 1..Len(<<first, second>>) : <<first, second>>[i].run <= run
  BY <1>4
<1>6. Tells(<<first, second>>) /\ metrics' = Now'
  BY <1>1, <1>2, <1>5, SoundHeard, RefreshTells
<1> QED BY <1>1, <1>6 DEF first, second

\* The answer is told as approved and rejected documents.
LEMMA EvaluatedTells ==
  ASSUME Sound, Evaluated
  PROVE  \E approved \in SUBSET items :
           /\ Tells(<<Batch("STAGE1_APPROVED", approved), Batch("STAGE1_REJECTED", items \ approved)>>)
           /\ items' = approved /\ pc' = (IF approved = {} THEN "page" ELSE "approve")
           /\ ledger' = [d \in Doc |-> IF d \notin items \ approved THEN ledger[d]
                                       ELSE Wrote(ledger[d], "STAGE1_REJECTED")]
<1>1. PICK approved \in SUBSET items :
           /\ Put(<<Batch("STAGE1_APPROVED", approved), Batch("STAGE1_REJECTED", items \ approved)>>)
           /\ items' = approved /\ pc' = (IF approved = {} THEN "page" ELSE "approve")
           /\ ledger' = [d \in Doc |-> IF d \notin items \ approved THEN ledger[d]
                                       ELSE Wrote(ledger[d], "STAGE1_REJECTED")]
  BY DEF Evaluated, Batch
<1> DEFINE first == Batch("STAGE1_APPROVED", approved)
           second == Batch("STAGE1_REJECTED", items \ approved)
<1>2. /\ items \subseteq Doc /\ approved \in SUBSET Doc /\ items \ approved \in SUBSET Doc
      /\ UNCHANGED <<metrics, run>> /\ pc # "over"
  BY DEF Evaluated, Sound, DashboardTypes, ItemsOK, New, viewVars
<1>3. "STAGE1_APPROVED" \in Kinds \ Stage2Kinds /\ "STAGE1_REJECTED" \in Kinds \ Stage2Kinds
  BY DEF Kinds, Stage2Kinds, Stage1Kinds
<1>4. first \in Message /\ second \in Message /\ first.run = run /\ second.run = run /\ run \in Nat
  BY <1>2, <1>3, BatchType DEF Sound, DashboardTypes, MainOK
<1>5. Put(<<first, second>>)
  BY <1>1
<1> HIDE DEF first, second
<1>6. <<first, second>> \in Seq(Message) /\ \A i \in 1..Len(<<first, second>>) : <<first, second>>[i].run <= run
  BY <1>4
<1>7. Tells(<<first, second>>)
  BY <1>2, <1>5, <1>6, SoundHeard, PublishTells
<1> QED BY <1>1, <1>7 DEF first, second

\* An evaluator that fails is told for the whole page, and shown at once.
LEMMA NotEvaluatedTells ==
  ASSUME Sound, NotEvaluated
  PROVE  Tells(<<Batch("STAGE1_FAILED", items)>>) /\ items \in SUBSET Doc /\ metrics' = Now'
<1> DEFINE e == Batch("STAGE1_FAILED", items)
<1>1. items \in SUBSET Doc /\ run' = run /\ Refresh(Append(bus, e)) /\ pc # "over"
  BY DEF NotEvaluated, Sound, DashboardTypes, ItemsOK, New, Batch
<1>2. "STAGE1_FAILED" \in Kinds \ Stage2Kinds
  BY DEF Kinds, Stage2Kinds, Stage1Kinds
<1>3. e \in Message /\ e.run = run /\ run \in Nat
  BY <1>1, <1>2, BatchType DEF Sound, DashboardTypes, MainOK
<1> HIDE DEF e
<1>4. <<e>> \in Seq(Message) /\ \A i \in 1..Len(<<e>>) : <<e>>[i].run <= run
  BY <1>3
<1>5. Append(bus, e) = bus \o <<e>>
  BY <1>3, SoundHeard DEF Heard
<1>6. Refresh(bus \o <<e>>)
  BY <1>1, <1>5
<1>7. Tells(<<e>>) /\ metrics' = Now'
  BY <1>1, <1>4, <1>6, SoundHeard, RefreshTells
<1> QED BY <1>1, <1>7 DEF e

-----------------------------------------------------------------------------
(* The steps of the main thread: types                                     *)

\* Each step of the main thread but Start is a list of events.
LEMMA MainSomethingTold ==
  ASSUME Sound, MainStep, ~Start
  PROVE  \E es : Tells(es)
<1>1. CASE SilentStep
  BY <1>1, SilentTells
<1>2. CASE DrainBus \/ PageDone \/ RoundAdmitted \/ Finish
  BY <1>2, RefreshOnlyTells
<1>3. CASE Restore
  BY <1>3, RestoreDoes
<1>4. CASE AnnounceRestored
  BY <1>4, AnnounceRestoredTells
<1>5. CASE Emit
  BY <1>5, EmitTells
<1>6. CASE Discover
  BY <1>6, DiscoverTells
<1>7. CASE Evaluated
  BY <1>7, EvaluatedTells
<1>8. CASE NotEvaluated
  BY <1>8, NotEvaluatedTells
<1> QED BY <1>1, <1>2, <1>3, <1>4, <1>5, <1>6, <1>7, <1>8 DEF MainStep, SilentStep

\* The metrics of a new run are metrics.
LEMMA FreshType ==
  ASSUME NEW n \in Nat
  PROVE  Fresh(n) \in Metrics
BY DEF Fresh, Metrics, Phases

\* What the start of a run leaves, resets and restores.
LEMMA StartDoes ==
  ASSUME Sound, Start
  PROVE  /\ pc \in {"over", "done"} /\ pc' = "restore" /\ run' = run + 1 /\ run \in Nat
         /\ metrics' = Fresh(Cardinality(Stored)) /\ metrics' \in Metrics /\ bus' = bus /\ net' = <<>>
         /\ rows' = [w \in Worker |-> "IDLE"] /\ items' \subseteq Doc
         /\ backlog' = {RestoredJob(d) : d \in Unsettled}
         /\ ledger' = [d \in Doc |-> Healed(ledger[d])] /\ ledger \in [Doc -> Entry]
         /\ UNCHANGED <<turn, judge, drain, jobs, outcomes, stage2Queue>>
<1>1. Stored \in SUBSET Doc
  BY DEF Stored
<1>2. Cardinality(Stored) \in Nat
  BY <1>1, DocsFinite
<1> QED
  BY <1>1, <1>2, FreshType DEF Start, UnchangedByMain, Sound, DashboardTypes, MainOK, LedgerOK, Stored

\* What a new run finds in the records.
LEMMA StartLeaves ==
  ASSUME Sound, Start
  PROVE  \A d \in Doc :
           /\ SameCandidate(ledger'[d], ledger[d])
           /\ ledger'[d].told = ledger'[d].status /\ ledger'[d].status = Healed(ledger[d]).status
           /\ ledger'[d].verdict = ledger[d].verdict /\ ledger'[d].copyOf = ledger[d].copyOf
           /\ ledger'[d].told \in Begun <=> ledger[d].told \in Begun
           /\ ledger'[d].told = "none" <=> ledger[d].told = "none"
           /\ ledger'[d].told = "FAILED_FOR_ROUND" => ledger[d].told = "FAILED_FOR_ROUND"
<1> SUFFICES ASSUME NEW d \in Doc
             PROVE  /\ SameCandidate(ledger'[d], ledger[d])
                    /\ ledger'[d].told = ledger'[d].status /\ ledger'[d].status = Healed(ledger[d]).status
                    /\ ledger'[d].verdict = ledger[d].verdict /\ ledger'[d].copyOf = ledger[d].copyOf
                    /\ ledger'[d].told \in Begun <=> ledger[d].told \in Begun
                    /\ ledger'[d].told = "none" <=> ledger[d].told = "none"
                    /\ ledger'[d].told = "FAILED_FOR_ROUND" => ledger[d].told = "FAILED_FOR_ROUND"
  OBVIOUS
<1>1. ledger[d] \in Entry /\ ledger'[d] = Healed(ledger[d])
  BY StartDoes
<1>2. /\ SameCandidate(ledger'[d], ledger[d]) /\ ledger'[d].told = ledger'[d].status
      /\ ledger'[d].status = IF ledger[d].told = "COMPLETED" /\ ~ledger[d].local
                             THEN "COMPLETED" ELSE ledger[d].status
      /\ ledger'[d].verdict = ledger[d].verdict /\ ledger'[d].copyOf = ledger[d].copyOf
  BY <1>1, HealedIs
<1>3. Near(ledger[d])
  BY DEF Sound, Records, Lags
<1> QED BY <1>1, <1>2, <1>3 DEF Near, Begun

\* What each step of the main thread writes.
LEMMA MainWrites ==
  ASSUME Sound, MainStep
  PROVE  \A d \in Doc :
           \/ Left(d)
           \/ Start
           \/ /\ Evaluated /\ d \in New
              /\ ledger'[d].status = "STAGE1_REJECTED" /\ ledger'[d].told = "STAGE1_REJECTED"
              /\ SameCandidate(ledger'[d], ledger[d]) /\ ledger'[d].copyOf = ledger[d].copyOf
           \/ /\ Admit \/ Retry
              /\ d = item'.doc /\ ledger'[d].status = "OPEN" /\ ledger'[d].told = "OPEN"
              /\ ledger'[d].copyOf = ledger[d].copyOf
              /\ Admit => d \in New
              /\ Retry => pc = "retry" /\ pc' = "put" /\ item' \in items
<1>1. LedgerOK /\ ItemsOK /\ ledger \in [Doc -> Entry] /\ \A d \in Doc : ledger[d] \in Entry
  BY DEF Sound, DashboardTypes, LedgerOK
<1>2. CASE Restore
  BY <1>2, RestoreLeaves
<1>3. CASE Evaluated
  <2>1. PICK approved :
          ledger' = [d \in Doc |-> IF d \notin items \ approved THEN ledger[d]
                                   ELSE Wrote(ledger[d], "STAGE1_REJECTED")]
    BY <1>3 DEF Evaluated
  <2>2. items \subseteq New
    BY <1>1, <1>3 DEF ItemsOK, Evaluated
  <2>3. "STAGE1_REJECTED" \in Statuses
    BY DEF Statuses
  <2>4. ASSUME NEW d \in items \ approved
        PROVE  /\ d \in New /\ SameCandidate(ledger'[d], ledger[d]) /\ ledger'[d].copyOf = ledger[d].copyOf
               /\ ledger'[d].status = "STAGE1_REJECTED" /\ ledger'[d].told = "STAGE1_REJECTED"
    <3>1. d \in New /\ d \in Doc
      BY <2>2 DEF New
    <3>2. ledger'[d] = Wrote(ledger[d], "STAGE1_REJECTED")
      BY <2>1, <3>1
    <3> QED BY <1>1, <2>3, <3>1, <3>2, WroteIs
  <2>5. \A d \in Doc : d \notin items \ approved => ledger'[d] = ledger[d]
    BY <2>1
  <2> QED BY <1>3, <2>4, <2>5 DEF Left, SameCourse
<1>4. ASSUME NEW d \in Doc, NEW record,
             /\ ledger' = [ledger EXCEPT ![d] = record]
             /\ record.status = "OPEN" /\ record.told = "OPEN" /\ record.copyOf = ledger[d].copyOf
      PROVE  \A c \in Doc :
               \/ Left(c)
               \/ /\ c = d /\ ledger'[c].status = "OPEN" /\ ledger'[c].told = "OPEN"
                  /\ ledger'[c].copyOf = ledger[c].copyOf
  BY <1>1, <1>4 DEF Left, SameCourse
<1>5. CASE Admit
  <2>1. PICK d \in items : \E local \in BOOLEAN :
          /\ item' = [doc |-> d, attempt |-> 1, run |-> run, again |-> FALSE]
          /\ ledger' = [ledger EXCEPT ![d] =
                          [Wrote(@, "OPEN") EXCEPT !.attempt = 1, !.run = run, !.local = local]]
    BY <1>5 DEF Admit
  <2>2. PICK local \in BOOLEAN :
          /\ item' = [doc |-> d, attempt |-> 1, run |-> run, again |-> FALSE]
          /\ ledger' = [ledger EXCEPT ![d] =
                          [Wrote(@, "OPEN") EXCEPT !.attempt = 1, !.run = run, !.local = local]]
    BY <2>1
  <2>3. d \in New /\ d \in Doc
    BY <1>1, <1>5 DEF ItemsOK, Admit, New
  <2> DEFINE record == [Wrote(ledger[d], "OPEN") EXCEPT !.attempt = 1, !.run = run, !.local = local]
  <2>4. ledger' = [ledger EXCEPT ![d] = record] /\ item'.doc = d
    BY <2>2
  <2>5. "OPEN" \in Statuses
    BY DEF Statuses
  <2>6. \A e \in Entry : LET f == [e EXCEPT !.attempt = 1, !.run = run, !.local = local]
                         IN  f.status = e.status /\ f.told = e.told /\ f.copyOf = e.copyOf
    BY DEF Entry
  <2>7. record.status = "OPEN" /\ record.told = "OPEN" /\ record.copyOf = ledger[d].copyOf
    BY <1>1, <2>3, <2>5, <2>6, WroteIs
  <2> HIDE DEF record
  <2> QED BY <1>4, <1>5, <2>3, <2>4, <2>7 DEF Admit, Retry
<1>6. CASE Retry
  <2>1. PICK job \in items :
          /\ item' = job
          /\ ledger' = [ledger EXCEPT ![job.doc] = [Wrote(@, "OPEN") EXCEPT !.attempt = job.attempt]]
    BY <1>6 DEF Retry
  <2>2. job.doc \in Doc /\ pc = "retry" /\ pc' = "put" /\ item' \in items
    BY <1>1, <1>6, <2>1 DEF ItemsOK, Retry, Retrying, Job
  <2> DEFINE record == [Wrote(ledger[job.doc], "OPEN") EXCEPT !.attempt = job.attempt]
  <2>4. ledger' = [ledger EXCEPT ![job.doc] = record]
    BY <2>1
  <2>5. "OPEN" \in Statuses
    BY DEF Statuses
  <2>6. \A e \in Entry : LET f == [e EXCEPT !.attempt = job.attempt]
                         IN  f.status = e.status /\ f.told = e.told /\ f.copyOf = e.copyOf
    BY DEF Entry
  <2>7. record.status = "OPEN" /\ record.told = "OPEN" /\ record.copyOf = ledger[job.doc].copyOf
    BY <1>1, <2>2, <2>5, <2>6, WroteIs
  <2> HIDE DEF record
  <2> QED BY <1>4, <1>6, <2>1, <2>2, <2>4, <2>7 DEF Admit, Retry
<1>7. CASE ~(Restore \/ Evaluated \/ Admit \/ Retry \/ Start)
  <2>1. ASSUME AnnounceRestored \/ DrainPool \/ DrainBus \/ Discover \/ LastPage \/ NotEvaluated
               \/ PageDone \/ Enqueue
        PROVE  ledger' = ledger
    BY <2>1 DEF AnnounceRestored, DrainPool, DrainBus, Discover, LastPage, NotEvaluated, PageDone, Enqueue
  <2>2. ASSUME Emit \/ DrainedOut \/ Round \/ RoundAdmitted \/ Finish \/ Cancel \/ Closed
        PROVE  ledger' = ledger
    BY <2>2 DEF Emit, DrainedOut, Round, RoundAdmitted, Finish, Cancel, Closed
  <2>3. ledger' = ledger
    BY <1>7, <2>1, <2>2 DEF MainStep
  <2> QED BY <2>3 DEF Left, SameCourse
<1> QED BY <1>2, <1>3, <1>5, <1>6, <1>7

\* No step of the main thread leaves a record far behind.
LEMMA MainRecords ==
  ASSUME Sound, MainStep
  PROVE  Records'
<1>1. \A d \in Doc : Near(ledger[d]) /\ (InValidation(d) => ledger[d].told \in Begun)
  BY DEF Sound, Records, Lags, Handed
<1>2. \A d \in New : ledger[d].told = "none"
  BY NewIs DEF Sound, Records
<1>3. Lags'
  <2>1. CASE Start
    BY <2>1, StartLeaves DEF Lags, Near
  <2>2. CASE ~Start
    <3>1. \A d \in Doc : Left(d) \/ ledger'[d].status = ledger'[d].told
      BY <2>2, MainWrites
    <3>2. \A d \in Doc : Left(d) => Near(ledger'[d])
      BY <1>1 DEF Left, SameCourse, Near, Begun
    <3> QED BY <3>1, <3>2 DEF Lags, Near
  <2> QED BY <2>1, <2>2
<1>4. \A d \in Doc : ledger[d].told \in Begun => ledger'[d].told \in Begun
  <2>1. CASE Start
    BY <2>1, StartLeaves
  <2>2. CASE ~Start
    BY <1>2, <2>2, MainWrites DEF Left, SameCourse, Begun
  <2> QED BY <2>1, <2>2
<1>5. \A d \in Doc : ledger'[d].copyOf = ledger[d].copyOf
  BY MainWrites, StartLeaves DEF Left
<1>6. CASE Start
  <2>1. UNCHANGED <<stage2Queue, judge>> /\ pc' = "restore"
    BY <1>6, StartDoes
  <2>2. \A d \in items' : Healed(ledger[d]).status = "COMPLETED" /\ d \in Doc
    BY <1>6 DEF Start, Stored
  <2>3. \A d \in items' : ledger[d].told \in Begun
    <3> SUFFICES ASSUME NEW d \in items' PROVE ledger[d].told \in Begun
      OBVIOUS
    <3>1. ledger'[d].told = "COMPLETED" /\ d \in Doc
      BY <1>6, <2>2, StartLeaves
    <3> QED BY <1>6, <3>1, StartLeaves DEF Begun
  <2>4. \A d \in Doc : InValidation(d)' => InValidation(d) \/ ledger[d].told \in Begun
    BY <1>5, <2>1, <2>3 DEF InValidation, InStage2
  <2> QED BY <1>3, <1>4, <2>4, HandedKept DEF Records, Sound
<1>7. CASE Restore
  <2>1. judge' = judge
    BY <1>7 DEF Restore, UnchangedByMain
  <2>2. stage2Queue \in Seq(Doc) /\ pc = "restore" /\ items \subseteq Doc
    BY <1>7 DEF Restore, Sound, DashboardTypes, Stage2OK, ItemsOK
  <2>3. \/ pc' = "page" /\ stage2Queue' = stage2Queue
        \/ \E d \in items : /\ items' = items \ {d} /\ item' = d
                            /\ UNCHANGED stage2Queue \/ stage2Queue' = Append(stage2Queue, d)
    BY <1>7, RestoreDoes
  <2>4. ASSUME NEW d \in items, items' = items \ {d}, item' = d,
               UNCHANGED stage2Queue \/ stage2Queue' = Append(stage2Queue, d)
        PROVE  Handed'
    <3>1. \A c \in Range(stage2Queue') : c \in Range(stage2Queue) \/ c = d
      BY <2>2, <2>4 DEF Range
    <3>2. \A c \in Doc : InValidation(c)' => InValidation(c)
      BY <1>5, <2>1, <2>2, <2>4, <3>1 DEF InValidation, InStage2
    <3> QED BY <1>4, <3>2, HandedKept DEF Records, Sound
  <2>5. CASE pc' = "page" /\ stage2Queue' = stage2Queue
    <3>1. \A c \in Doc : InValidation(c)' => InValidation(c)
      BY <1>5, <2>1, <2>5 DEF InValidation, InStage2
    <3> QED BY <1>3, <1>4, <3>1, HandedKept DEF Records, Sound
  <2>6. CASE \E d \in items : /\ items' = items \ {d} /\ item' = d
                              /\ UNCHANGED stage2Queue \/ stage2Queue' = Append(stage2Queue, d)
    <3>1. PICK d \in items : /\ items' = items \ {d} /\ item' = d
                             /\ UNCHANGED stage2Queue \/ stage2Queue' = Append(stage2Queue, d)
      BY <2>6
    <3>2. Handed'
      BY <2>4, <3>1
    <3> QED BY <1>3, <3>2 DEF Records
  <2> QED BY <2>3, <2>5, <2>6
<1>8. CASE ~(Start \/ Restore)
  <2>1. /\ UNCHANGED <<stage2Queue, judge>>
        /\ pc' \in {"restore", "announce"} =>
             pc \in {"restore", "announce"} /\ items' = items /\ (pc' = "announce" => pc = pc' /\ item' = item)
    <3>1. CASE AnnounceRestored \/ DrainPool \/ DrainBus
      BY <3>1 DEF AnnounceRestored, DrainPool, DrainBus, AfterDrain, UnchangedByMain
    <3>2. CASE Discover \/ LastPage \/ Evaluated \/ NotEvaluated \/ Admit \/ PageDone \/ Enqueue
      BY <3>2 DEF Discover, LastPage, Evaluated, NotEvaluated, Admit, PageDone, Enqueue, UnchangedByMain
    <3>3. CASE Emit \/ DrainedOut \/ Round \/ Retry \/ RoundAdmitted \/ Finish \/ Cancel \/ Closed
      BY <3>3 DEF Emit, DrainedOut, Round, Retry, RoundAdmitted, Finish, Cancel, Closed, UnchangedByMain
    <3> QED BY <1>8, <3>1, <3>2, <3>3 DEF MainStep
  <2>2. \A c \in Doc : InValidation(c)' => InValidation(c)
    BY <1>5, <2>1 DEF InValidation, InStage2
  <2> QED BY <1>3, <1>4, <2>2, HandedKept DEF Records, Sound
<1> QED BY <1>6, <1>7, <1>8

\* Each step of the main thread keeps the state typed.
LEMMA MainTypes ==
  ASSUME Sound, MainStep, ItemsOK'
  PROVE  DashboardTypes'
<1>1. Parts'
  BY MainParts
<1>2. CASE Start
  <2>1. bus' \in Seq(Message) /\ metrics' \in Metrics
    BY <1>2, StartDoes DEF Sound, DashboardTypes, BusOK
  <2> QED BY <1>1, <2>1 DEF Parts, DashboardTypes, BusOK, ViewOK
<1>3. CASE ~Start
  BY <1>1, <1>3, MainSomethingTold, TypesAgain
<1> QED BY <1>2, <1>3

\* The jobs that wait outside the pool.
LEMMA WaitingJobs ==
  ASSUME Placed, pc = "retry"
  PROVE  items \subseteq Job /\ (\A j \in items : Waits(j) /\ j.doc \in Doc) /\ Later
<1>1. Later /\ Retrying /\ items \subseteq Job
  BY DEF Placed, PlacesInv, DashboardTypes, ItemsOK, Retrying
<1> QED BY <1>1 DEF Later, Ahead, Job

\* What the main thread has before it is what its place in the code asks for.
LEMMA MainItems ==
  ASSUME Placed, MainStep
  PROVE  ItemsOK'
<1> USE DEF ItemsOK, Retrying
<1>1. Sound /\ ItemsOK /\ LedgerOK /\ MainOK
  BY PlacedSound DEF Sound, DashboardTypes
<1>2. CASE Start
  BY <1>1, <1>2, StartDoes
<1>3. CASE Restore
  <2>1. pc = "restore" /\ items \subseteq Doc
    BY <1>1, <1>3 DEF Restore
  <2>2. pc' \in {"page", "announce", "restore"} /\ items' \subseteq items
        /\ (pc' = "page" \/ item' \in Doc)
    BY <1>1, <1>3, RestoreDoes
  <2> QED BY <2>1, <2>2
<1>4. CASE DrainPool \/ DrainBus
  <2>1. UNCHANGED <<items, item, ledger>>
    BY <1>4 DEF DrainPool, DrainBus
  <2>2. pc' = pc \/ (pc = "approve" /\ pc' = "admit") \/ pc' \in {"turn", "rounds"}
    BY <1>4 DEF DrainPool, DrainBus, AfterDrain
  <2> QED BY <1>1, <2>1, <2>2 DEF New
<1>5. CASE Discover
  <2>1. items' \in SUBSET New /\ pc' = "stage1" /\ ledger' = ledger
    BY <1>1, <1>5, DiscoverTells DEF Discover
  <2> QED BY <2>1 DEF New
<1>6. CASE Evaluated
  <2>1. PICK approved \in SUBSET items :
           /\ items' = approved /\ pc' = (IF approved = {} THEN "page" ELSE "approve")
           /\ ledger' = [d \in Doc |-> IF d \notin items \ approved THEN ledger[d]
                                       ELSE Wrote(ledger[d], "STAGE1_REJECTED")]
    BY <1>1, <1>6, EvaluatedTells
  <2>2. items \subseteq New
    BY <1>1, <1>6 DEF Evaluated
  <2>3. items' \subseteq New'
    BY <2>1, <2>2 DEF New
  <2> QED BY <2>1, <2>3
<1>7. CASE Admit
  <2>1. PICK d \in items, local \in BOOLEAN :
       /\ item' = [doc |-> d, attempt |-> 1, run |-> run, again |-> FALSE]
       /\ items' = items \ {d}
       /\ ledger' = [ledger EXCEPT ![d] = [Wrote(@, "OPEN") EXCEPT !.attempt = 1, !.run = run, !.local = local]]
    BY <1>7 DEF Admit
  <2>2. items \subseteq New /\ pc = "admit" /\ pc' = "put"
    BY <1>1, <1>7 DEF Admit
  <2>3. d \in Doc
    BY <2>1, <2>2 DEF New
  <2>4. run \in 1..MaxRuns /\ 1 \in 1..MaxAttempts
    BY <1>1, <2>2, DashboardAssumption DEF MainOK, Sound, Runs
  <2>5. item' \in Job
    BY <2>1, <2>3, <2>4 DEF Job
  <2>6. items' \subseteq New'
    BY <1>1, <2>1, <2>2, <2>3 DEF New, LedgerOK
  <2> QED BY <2>1, <2>2, <2>5, <2>6
<1>8. CASE Enqueue
  BY <1>1, <1>8 DEF Enqueue, New
<1>9. CASE Emit
  <2>1. pc = "emit" /\ pc' = (IF item.again THEN "retry" ELSE "admit") /\ UNCHANGED <<items, ledger>>
    BY <1>9 DEF Emit
  <2> QED BY <1>1, <2>1 DEF New
<1>10. CASE Round
  <2>1. items' = backlog /\ pc' = "retry"
    BY <1>10 DEF Round
  <2> QED BY <1>1, <2>1 DEF MainOK
<1>11. CASE Retry
  <2>1. pc = "retry" /\ pc' = "put" /\ item' \in items /\ items' \subseteq items
    BY <1>11 DEF Retry
  <2>2. items \subseteq Job /\ item'.again
    BY <2>1, WaitingJobs DEF Waits
  <2> QED BY <2>1, <2>2
<1>12. CASE AnnounceRestored
  BY <1>1, <1>12 DEF AnnounceRestored
<1>13. CASE LastPage \/ NotEvaluated \/ PageDone \/ DrainedOut \/ RoundAdmitted \/ Finish \/ Cancel \/ Closed
  <2>1. pc' \in {"drain", "page", "last", "done", "closing", "over"}
    BY <1>13 DEF LastPage, NotEvaluated, PageDone, DrainedOut, RoundAdmitted, Finish, Cancel, Closed
  <2> QED BY <2>1
<1> QED BY <1>2, <1>3, <1>4, <1>5, <1>6, <1>7, <1>8, <1>9, <1>10, <1>11, <1>12, <1>13 DEF MainStep

-----------------------------------------------------------------------------
(* The steps of the main thread: the runs                                  *)

\* No event, job or document is of a run that has not begun.
LEMMA MainRuns ==
  ASSUME Placed, MainStep
  PROVE  Runs'
<1>1. Sound /\ LedgerOK /\ MainOK /\ Runs /\ run \in Nat
  BY PlacedSound DEF Sound, DashboardTypes, MainOK
<1>2. /\ \A i \in DOMAIN bus' : bus'[i].run <= run'
      /\ run' \in Nat /\ run <= run' /\ (~Start => run' = run)
  <2>1. CASE Start
    <3>1. bus' = bus /\ run' = run + 1
      BY <1>1, <2>1, StartDoes
    <3>2. \A i \in DOMAIN bus : bus[i].run \in Int /\ bus[i].run <= run
      <4>1. \A e \in Message : e.run \in Int
        BY DashboardAssumption DEF Message
      <4>2. \A i \in DOMAIN bus : bus[i] \in Message
        BY <1>1, ElementType DEF Sound, DashboardTypes, BusOK
      <4> QED BY <1>1, <4>1, <4>2 DEF Runs
    <3> QED BY <1>1, <2>1, <3>1, <3>2
  <2>2. CASE ~Start
    <3>1. PICK es : Tells(es)
      BY <1>1, <2>2, MainSomethingTold
    <3>2. DOMAIN bus' = 1..Len(bus')
      BY <3>1 DEF Tells
    <3> QED BY <1>1, <3>1, <3>2 DEF Tells
  <2> QED BY <2>1, <2>2
<1>3. pc' # "over" => run' # 0
  <2>1. CASE Start
    BY <1>1, <2>1, StartDoes
  <2>2. CASE ~Start
    <3>1. pc' # "over" => pc # "over"
      <4>1. ASSUME Restore \/ AnnounceRestored \/ DrainPool \/ DrainBus \/ Discover \/ LastPage \/ Evaluated
                   \/ NotEvaluated \/ Admit
            PROVE  pc' # "over" => pc # "over"
        BY <4>1 DEF Restore, AnnounceRestored, DrainPool, Draining, DrainBus, AfterDrain, Discover, LastPage,
                    Evaluated, NotEvaluated, Admit
      <4>2. ASSUME PageDone \/ Enqueue \/ Emit \/ DrainedOut \/ Round \/ Retry \/ RoundAdmitted \/ Finish
                   \/ Cancel \/ Closed
            PROVE  pc' # "over" => pc # "over"
        BY <4>2 DEF PageDone, Enqueue, Emit, DrainedOut, Round, Retry, RoundAdmitted, Finish, Cancel, Closed
      <4> QED BY <2>2, <4>1, <4>2 DEF MainStep
    <3> QED BY <1>1, <1>2, <2>2, <3>1 DEF Runs
  <2> QED BY <2>1, <2>2
<1>4. CASE Admit
  <2>1. PICK d \in items, local \in BOOLEAN :
       /\ item' = [doc |-> d, attempt |-> 1, run |-> run, again |-> FALSE]
       /\ ledger' = [ledger EXCEPT ![d] = [Wrote(@, "OPEN") EXCEPT !.attempt = 1, !.run = run, !.local = local]]
    BY <1>4 DEF Admit
  <2>2. pc = "admit" /\ items \subseteq Doc
    BY <1>1, <1>4 DEF Admit, Sound, DashboardTypes, ItemsOK, New
  <2>3. run' = run /\ run # 0
    BY <1>1, <1>4, <2>2 DEF Runs, Admit
  <2>4. ASSUME NEW c \in Doc
        PROVE  /\ ledger'[c].run <= run
               /\ ledger'[c].told \in Begun => ledger'[c].run # 0 /\ ledger'[c].attempt # 0
               /\ ledger'[c].told = "FAILED_FOR_ROUND" => ledger'[c].attempt < MaxAttempts
    <3>1. CASE c = d
      <4>1. ledger'[d].told = "OPEN" /\ ledger'[d].attempt = 1 /\ ledger'[d].run = run
        BY <1>1, <2>1, <2>2 DEF LedgerOK, Entry, Wrote
      <4> QED BY <1>1, <2>3, <3>1, <4>1
    <3>2. CASE c # d
      BY <1>1, <2>1, <3>2 DEF Runs, LedgerOK
    <3> QED BY <3>1, <3>2
  <2>5. item'.run <= run'
    BY <1>1, <2>1, <2>3
  <2> QED BY <1>2, <1>3, <2>3, <2>4, <2>5 DEF Runs
<1>5. CASE Retry
  <2>1. PICK job \in items :
       /\ item' = job
       /\ ledger' = [ledger EXCEPT ![job.doc] = [Wrote(@, "OPEN") EXCEPT !.attempt = job.attempt]]
    BY <1>5 DEF Retry
  <2>2. pc = "retry" /\ run' = run
    BY <1>5 DEF Retry
  <2>3. job \in Job /\ job.doc \in Doc /\ Waits(job)
    BY <2>1, <2>2, WaitingJobs
  <2>4. job.run = ledger[job.doc].run /\ job.run # 0 /\ job.attempt # 0
    BY <2>3, DashboardAssumption DEF Waits, Job
  <2>5. ASSUME NEW c \in Doc
        PROVE  /\ ledger'[c].run <= run
               /\ ledger'[c].told \in Begun => ledger'[c].run # 0 /\ ledger'[c].attempt # 0
               /\ ledger'[c].told = "FAILED_FOR_ROUND" => ledger'[c].attempt < MaxAttempts
    <3>1. CASE c = job.doc
      <4>1. /\ ledger'[c].told = "OPEN" /\ ledger'[c].attempt = job.attempt
            /\ ledger'[c].run = ledger[c].run
        BY <1>1, <2>1, <2>3, <3>1 DEF LedgerOK, Entry, Wrote
      <4> QED BY <1>1, <2>4, <3>1, <4>1 DEF Runs
    <3>2. CASE c # job.doc
      BY <1>1, <2>1, <3>2 DEF Runs, LedgerOK
    <3> QED BY <3>1, <3>2
  <2>6. item'.run <= run'
    BY <1>1, <2>1, <2>2, <2>3, <2>4 DEF Runs
  <2> QED BY <1>2, <1>3, <2>2, <2>5, <2>6 DEF Runs
<1>6. CASE ~Admit /\ ~Retry
  <2>1. \A d \in Doc :
          /\ ledger'[d].run = ledger[d].run /\ ledger'[d].attempt = ledger[d].attempt
          /\ ledger'[d].told \in Begun => ledger[d].told \in Begun
          /\ ledger'[d].told = "FAILED_FOR_ROUND" => ledger[d].told = "FAILED_FOR_ROUND"
    <3>1. CASE Start
      BY <1>1, <3>1, StartLeaves DEF SameCandidate
    <3>2. CASE ~Start
      <4>1. \A d \in Doc : \/ Left(d)
                           \/ /\ ledger'[d].told = "STAGE1_REJECTED"
                              /\ SameCandidate(ledger'[d], ledger[d])
        BY <1>1, <1>6, <3>2, MainWrites
      <4> QED BY <4>1 DEF Left, SameCourse, SameCandidate, Begun
    <3> QED BY <3>1, <3>2
  <2>2. pc' \in {"put", "emit"} => pc \in {"put", "emit"} /\ item' = item
    <3>1. ASSUME Start \/ Restore \/ AnnounceRestored \/ Discover \/ LastPage \/ Evaluated \/ NotEvaluated
                 \/ PageDone \/ Emit
          PROVE  pc' \notin {"put", "emit"}
      BY <3>1 DEF Start, Restore, AnnounceRestored, Discover, LastPage, Evaluated, NotEvaluated, PageDone, Emit
    <3>2. ASSUME DrainedOut \/ Round \/ RoundAdmitted \/ Finish \/ Cancel \/ Closed
          PROVE  pc' \notin {"put", "emit"}
      BY <3>2 DEF DrainedOut, Round, RoundAdmitted, Finish, Cancel, Closed
    <3>3. ASSUME DrainPool \/ DrainBus \/ Enqueue
          PROVE  pc' \in {"put", "emit"} => pc \in {"put", "emit"} /\ item' = item
      BY <3>3 DEF DrainPool, DrainBus, AfterDrain, Enqueue
    <3> QED BY <1>6, <3>1, <3>2, <3>3 DEF MainStep
  <2>3. ~(Start /\ pc' \in {"put", "emit"})
    BY DEF Start
  <2>4. \A d \in Doc : ledger[d].run \in Int
    BY <1>1 DEF LedgerOK, Entry
  <2>5. \A d \in Doc : ledger'[d].run <= run'
    BY <1>1, <1>2, <2>1, <2>4 DEF Runs
  <2>6. pc' \in {"put", "emit"} => item'.run <= run'
    <3>1. pc' \in {"put", "emit"} => run' = run
      BY <1>2, <2>3
    <3> QED BY <1>1, <2>2, <3>1 DEF Runs
  <2>7. \A d \in Doc : /\ ledger'[d].told \in Begun => ledger'[d].run # 0 /\ ledger'[d].attempt # 0
                       /\ ledger'[d].told = "FAILED_FOR_ROUND" => ledger'[d].attempt < MaxAttempts
    BY <1>1, <2>1 DEF Runs
  <2> QED BY <1>2, <1>3, <2>5, <2>6, <2>7 DEF Runs
<1> QED BY <1>4, <1>5, <1>6

-----------------------------------------------------------------------------
(* The steps of the main thread: places                                    *)

\* A document of the pool has a record.
LEMMA PoolDocs ==
  ASSUME Sound
  PROVE  \A d \in InPool : d \in Doc /\ ledger[d].told \notin {"none", "STAGE1_REJECTED"}
<1>1. PoolOK /\ PoolFits
  BY DEF Sound, DashboardTypes
<1>2. \A i \in DOMAIN jobs : ledger[jobs[i].doc].told \notin {"none", "STAGE1_REJECTED"}
  BY <1>1 DEF PoolFits, Open
<1>3. \A w \in Active : ledger[turn[w].job.doc].told \notin {"none", "STAGE1_REJECTED"}
  BY TurnJob DEF Active, Begun
<1>4. \A i \in DOMAIN outcomes : ledger[outcomes[i].job.doc].told \notin {"none", "STAGE1_REJECTED"}
  BY <1>1 DEF PoolFits, Settled
<1>5. InPool \subseteq Doc
  BY <1>1, PoolTypes
<1> QED BY <1>2, <1>3, <1>4, <1>5 DEF InPool, InQueue, InTurn, Reported

\* Between runs the pool is empty.
LEMMA PoolEmpty ==
  ASSUME Placed, pc \in {"over", "done"}
  PROVE  InPool = {}
<1>1. jobs = <<>> /\ outcomes = <<>> /\ Active = {}
  BY DEF Placed, PlacesInv, Quiet
<1> QED BY <1>1 DEF InPool, InQueue, InTurn, Reported

\* Jobs or outcomes are dropped.
LEMMA PoolDropped ==
  ASSUME Sound, OneJob, jobs' \in {jobs, <<>>}, outcomes' \in {outcomes, <<>>}, UNCHANGED <<turn, ledger>>
  PROVE  /\ PoolFits' /\ OneJob' /\ InTurn' = InTurn /\ InQueue' \in {InQueue, {}} /\ Reported' \in {Reported, {}}
         /\ outcomes' = <<>> => Reported' = {}
         /\ outcomes' = outcomes => Reported' = Reported
         /\ jobs' = jobs => InQueue' = InQueue
<1>1. PoolFits
  BY DEF Sound
<1>2. /\ Active' = Active /\ InTurn' = InTurn
      /\ outcomes' = outcomes => Reported' = Reported
      /\ jobs' = jobs => InQueue' = InQueue
  BY DEF Active, InTurn, InQueue, Reported
<1>3. /\ jobs' = <<>> => DOMAIN jobs' = {} /\ InQueue' = {}
      /\ outcomes' = <<>> => DOMAIN outcomes' = {} /\ Reported' = {}
  BY DEF InQueue, Reported
<1>4. PoolFits'
  BY <1>1, <1>2, <1>3 DEF PoolFits, Open, Settled, Fits
<1>5. OneJob'
  <2>1. \A i, k \in DOMAIN jobs' : jobs'[i].doc = jobs'[k].doc => i = k
    BY <1>3 DEF OneJob
  <2>2. \A i, k \in DOMAIN outcomes' : outcomes'[i].job.doc = outcomes'[k].job.doc => i = k
    BY <1>3 DEF OneJob
  <2>3. \A v, w \in Active' : turn'[v].job.doc = turn'[w].job.doc => v = w
    BY <1>2 DEF OneJob
  <2>4. InQueue' \cap InTurn' = {} /\ InQueue' \cap Reported' = {} /\ InTurn' \cap Reported' = {}
    BY <1>2, <1>3 DEF OneJob
  <2> QED BY <2>1, <2>2, <2>3, <2>4 DEF OneJob
<1> QED BY <1>2, <1>3, <1>4, <1>5

\* The job at hand enters the queue.
LEMMA EnqueuePlaces ==
  ASSUME Placed, Enqueue
  PROVE  PoolFits' /\ OneJob' /\ InPool' = InPool \cup {item.doc}
<1> DEFINE n == Len(jobs)
<1>1. /\ pc = "put" /\ jobs' = Append(jobs, item) /\ UNCHANGED <<turn, outcomes, ledger>>
  BY DEF Enqueue, UnchangedByMain
<1>2. Sound /\ OneJob /\ PoolOK /\ PoolFits /\ item \in Job /\ Open(ledger, item) /\ item.doc \notin InPool
  BY <1>1, PlacedSound DEF Sound, DashboardTypes, ItemsOK, Placed, PlacesInv, Later, AtHand
<1>3. jobs \in Seq(Job) /\ n \in Nat
  BY <1>2 DEF PoolOK
<1>4. /\ DOMAIN jobs' = 1..(n + 1) /\ DOMAIN jobs = 1..n /\ jobs'[n + 1] = item
      /\ \A i \in 1..n : jobs'[i] = jobs[i] /\ i \in 1..(n + 1)
      /\ \A i \in 1..(n + 1) : i \in 1..n \/ i = n + 1
      /\ n + 1 \in 1..(n + 1)
  BY <1>1, <1>3
<1>5. Active' = Active /\ InTurn' = InTurn /\ Reported' = Reported
  BY <1>1 DEF Active, InTurn, Reported
<1>6. InQueue' = InQueue \cup {item.doc}
  <2>1. \A i \in 1..(n + 1) : jobs'[i].doc \in InQueue \cup {item.doc}
    BY <1>4 DEF InQueue
  <2>2. \A i \in 1..n : jobs[i].doc \in InQueue'
    BY <1>4 DEF InQueue
  <2>3. item.doc \in InQueue'
    BY <1>4 DEF InQueue
  <2> QED BY <1>4, <2>1, <2>2, <2>3 DEF InQueue
<1>7. item.doc \notin InQueue /\ item.doc \notin InTurn /\ item.doc \notin Reported
  BY <1>2 DEF InPool
<1>8. OneJob'
  <2>1. \A i, k \in DOMAIN jobs' : jobs'[i].doc = jobs'[k].doc => i = k
    <3>1. \A i \in 1..n : jobs'[i].doc \in InQueue
      BY <1>4 DEF InQueue
    <3> QED BY <1>2, <1>4, <1>7, <3>1 DEF OneJob
  <2>2. /\ \A i, k \in DOMAIN outcomes' : outcomes'[i].job.doc = outcomes'[k].job.doc => i = k
        /\ \A v, w \in Active' : turn'[v].job.doc = turn'[w].job.doc => v = w
    BY <1>1, <1>2, <1>5 DEF OneJob
  <2>3. InQueue' \cap InTurn' = {} /\ InQueue' \cap Reported' = {} /\ InTurn' \cap Reported' = {}
    BY <1>2, <1>5, <1>6, <1>7 DEF OneJob
  <2> QED BY <2>1, <2>2, <2>3 DEF OneJob
<1>9. PoolFits'
  <2>1. \A i \in DOMAIN jobs' : Open(ledger', jobs'[i])
    BY <1>1, <1>2, <1>4 DEF PoolFits
  <2>2. \A i \in DOMAIN outcomes' : Settled(ledger', outcomes'[i].job, outcomes'[i].result)
    BY <1>1, <1>2 DEF PoolFits
  <2>3. ASSUME NEW v \in Active'
        PROVE  /\ turn'[v].step \in {"taken", "working"} => Open(ledger', turn'[v].job)
               /\ turn'[v].step = "working" => ~ledger'[turn'[v].job.doc].local
               /\ turn'[v].step \in {"announce", "landed"} => Settled(ledger', turn'[v].job, "success")
               /\ turn'[v].step = "ended" => Settled(ledger', turn'[v].job, turn'[v].result)
               /\ turn'[v].step # "ended" => turn'[v].result = "success"
    BY <1>1, <1>2, <1>5 DEF PoolFits
  <2> QED BY <2>1, <2>2, <2>3 DEF PoolFits
<1> QED BY <1>5, <1>6, <1>8, <1>9 DEF InPool

\* The steps that leave the pool as it is.
Aside == MainStep /\ ~(DrainPool \/ Enqueue \/ Cancel \/ Closed)

\* Which records a step of the main thread changes.
LEMMA AsideCourse ==
  ASSUME Placed, Aside
  PROVE  /\ UNCHANGED <<jobs, turn, outcomes>>
         /\ \A d \in Doc : \/ SameCourse(d)
                           \/ Start
                           \/ ledger[d].told = "none" /\ (Admit \/ Evaluated)
                           \/ pc = "retry" /\ pc' = "put" /\ item' \in items /\ d = item'.doc
<1>1. Sound /\ LedgerOK /\ ItemsOK
  BY PlacedSound DEF Sound, DashboardTypes
<1>2. UNCHANGED <<jobs, turn, outcomes>>
  <2>1. ASSUME Start \/ Restore \/ AnnounceRestored \/ DrainBus \/ Discover \/ LastPage \/ Evaluated
               \/ NotEvaluated \/ Admit
        PROVE  UNCHANGED <<jobs, turn, outcomes>>
    BY <2>1 DEF Start, Restore, AnnounceRestored, DrainBus, Discover, LastPage, Evaluated, NotEvaluated, Admit,
                UnchangedByMain
  <2>2. ASSUME PageDone \/ Emit \/ DrainedOut \/ Round \/ Retry \/ RoundAdmitted \/ Finish
        PROVE  UNCHANGED <<jobs, turn, outcomes>>
    BY <2>2 DEF PageDone, Emit, DrainedOut, Round, Retry, RoundAdmitted, Finish, UnchangedByMain
  <2> QED BY <2>1, <2>2 DEF Aside, MainStep
<1>3. \A d \in New : ledger[d].told = "none"
  BY <1>1, NewIs DEF Sound, Records
<1>4. MainStep
  BY DEF Aside
<1>5. ASSUME NEW d \in Doc
      PROVE  \/ SameCourse(d)
             \/ Start
             \/ ledger[d].told = "none" /\ (Admit \/ Evaluated)
             \/ pc = "retry" /\ pc' = "put" /\ item' \in items /\ d = item'.doc
  <2>1. CASE Left(d)
    BY <2>1 DEF Left
  <2>2. CASE ~Left(d)
    BY <1>1, <1>3, <1>4, <2>2, MainWrites
  <2> QED BY <2>1, <2>2
<1> QED BY <1>2, <1>5

\* Steps outside the pool keep it in order.
LEMMA AsidePlaces ==
  ASSUME Placed, Aside
  PROVE  PoolFits' /\ OneJob' /\ InPool' = InPool
<1>1. Sound /\ OneJob
  BY PlacedSound
<1>2. \A d \in InPool : SameCourse(d)
  <2> SUFFICES ASSUME NEW d \in InPool PROVE SameCourse(d)
    OBVIOUS
  <2>1. d \in Doc /\ ledger[d].told # "none"
    BY <1>1, PoolDocs
  <2>2. ASSUME pc = "retry", item' \in items PROVE item'.doc # d
    BY <2>2, WaitingJobs DEF Waits
  <2>3. ~Start
    BY PoolEmpty DEF Start
  <2> QED BY <2>1, <2>2, <2>3, AsideCourse
<1> QED BY <1>1, <1>2, AsideCourse, PoolKept

\* Each step of the main thread keeps the pool in order.
LEMMA MainPool ==
  ASSUME Placed, MainStep
  PROVE  PoolFits' /\ OneJob'
<1>1. CASE Aside
  BY <1>1, AsidePlaces
<1>2. CASE Enqueue
  BY <1>2, EnqueuePlaces
<1>3. CASE DrainPool \/ Cancel \/ Closed
  <2>1. jobs' \in {jobs, <<>>} /\ outcomes' \in {outcomes, <<>>} /\ UNCHANGED <<turn, ledger>>
    BY <1>3 DEF DrainPool, Cancel, Closed, UnchangedByMain
  <2> QED BY <2>1, PlacedSound, PoolDropped
<1> QED BY <1>1, <1>2, <1>3 DEF Aside

-----------------------------------------------------------------------------
(* The steps of the main thread: what waits                                *)

\* What is behind stays behind.
LEMMA BehindKept ==
  ASSUME DashboardTypes, Behind, backlog' = backlog,
         \A k \in backlog : k.doc \notin InPool' /\ SameCourse(k.doc)
  PROVE  Behind'
BY DEF Behind, Waits, SameCourse

\* The steps after which nothing is ahead.
LEMMA NothingAhead ==
  ASSUME Placed, Aside, pc \notin {"closing", "over", "done"}, backlog' = backlog,
         pc' \notin {"put", "emit", "retry"}
  PROVE  Later'
<1>1. Later /\ DashboardTypes /\ MainOK
  BY DEF Placed, PlacesInv, DashboardTypes
<1>2. InPool' = InPool
  BY AsidePlaces
<1>3. \A k \in backlog : k.doc \notin InPool' /\ SameCourse(k.doc)
  <2> SUFFICES ASSUME NEW k \in backlog PROVE k.doc \notin InPool' /\ SameCourse(k.doc)
    OBVIOUS
  <2>1. Waits(k) /\ k.doc \in Doc
    BY <1>1 DEF Later, Behind, MainOK, Job
  <2>2. ledger[k.doc].told # "none"
    BY <2>1 DEF Waits, Unended
  <2>3. ~Start
    BY DEF Start
  <2> QED BY <1>2, <2>1, <2>2, <2>3, AsideCourse DEF Waits
<1>4. Behind'
  BY <1>1, <1>3, BehindKept DEF Later
<1> QED BY <1>4 DEF Later, Ahead, AtHand, Retrying

\* The jobs that a new run restores wait outside the pool, one for each document.
LEMMA StartLater ==
  ASSUME Placed, Start
  PROVE  Later'
<1>1. Sound /\ LedgerOK /\ Quiet
  BY PlacedSound DEF Sound, DashboardTypes, Placed, PlacesInv
<1>2. /\ pc' = "restore" /\ pc \in {"over", "done"}
      /\ backlog' = {RestoredJob(d) : d \in Unsettled} /\ UNCHANGED <<turn, jobs, outcomes>>
  BY <1>1, StartDoes
<1>3. InPool' = {}
  <2>1. jobs' = <<>> /\ outcomes' = <<>> /\ Active' = {}
    BY <1>1, <1>2 DEF Quiet, Active
  <2> QED BY <2>1 DEF InPool, InQueue, InTurn, Reported
<1>4. \A d \in Unsettled : /\ RestoredJob(d).doc = d /\ RestoredJob(d).run = ledger'[d].run
                           /\ RestoredJob(d).again /\ ledger'[d].told \in Unended
  BY <1>1, StartLeaves DEF RestoredJob, Unsettled, Unended, SameCandidate
<1>5. Behind'
  BY <1>2, <1>3, <1>4 DEF Behind, Waits
<1> QED BY <1>2, <1>5 DEF Later, Ahead, AtHand, Retrying

\* An outcome that failed goes to the backlog.
LEMMA DrainLater ==
  ASSUME Placed, DrainPool
  PROVE  Later'
<1> DEFINE failed == {k \in DOMAIN outcomes : /\ outcomes[k].result = "failure"
                                              /\ outcomes[k].job.attempt < MaxAttempts}
           again(i) == [outcomes[i].job EXCEPT !.attempt = @ + 1, !.again = TRUE]
<1>1. Sound /\ OneJob /\ PoolFits /\ PoolOK /\ MainOK /\ DashboardTypes
  BY PlacedSound DEF Sound, DashboardTypes
<1>2. /\ backlog' = backlog \cup {again(i) : i \in failed} /\ outcomes' = <<>>
      /\ UNCHANGED <<pc, items, item, jobs, turn, ledger>> /\ pc \notin {"closing", "over", "done", "retry", "emit"}
  BY DEF DrainPool, Draining, UnchangedByMain
<1>3. Later
  BY <1>2 DEF Placed, PlacesInv
<1>4. InTurn' = InTurn /\ InQueue' = InQueue /\ Reported' = {}
  BY <1>1, <1>2, PoolDropped
<1>5. InPool' \subseteq InPool /\ InPool' \cap Reported = {}
  BY <1>1, <1>4 DEF InPool, OneJob
<1>6. ASSUME NEW i \in failed, NEW j, j = again(i)
      PROVE  /\ j.doc = outcomes[i].job.doc /\ j.doc \in Reported /\ Waits(j)'
             /\ i \in DOMAIN outcomes
  <2>1. outcomes[i].job \in Job /\ i \in DOMAIN outcomes
    BY <1>1, PoolTypes
  <2>2. Settled(ledger, outcomes[i].job, "failure") /\ outcomes[i].job.attempt < MaxAttempts
    BY <1>1, <2>1 DEF PoolFits
  <2>3. outcomes[i].job.attempt \in Int /\ MaxAttempts \in Int
    BY <2>1, DashboardAssumption DEF Job
  <2>4. ledger[outcomes[i].job.doc].told = "FAILED_FOR_ROUND" /\ ledger[outcomes[i].job.doc].run = outcomes[i].job.run
    BY <2>2, <2>3 DEF Settled, Fits
  <2>5. j.doc = outcomes[i].job.doc /\ j.run = outcomes[i].job.run /\ j.again
    BY <1>6, <2>1 DEF Job
  <2>6. j.doc \in Reported
    BY <2>1, <2>5 DEF Reported
  <2> HIDE DEF again
  <2>7. Waits(j)'
    BY <1>2, <1>5, <2>4, <2>5, <2>6 DEF Waits, Unended
  <2> QED BY <2>1, <2>5, <2>6, <2>7
<1> HIDE DEF again, failed
<1>7. \A j \in backlog : Waits(j)' /\ j.doc \notin Reported
  <2>1. \A j \in backlog : Waits(j)
    BY <1>3 DEF Later, Behind
  <2> QED BY <1>2, <1>5, <2>1 DEF Waits, InPool
<1>8. Behind'
  <2>1. \A j \in backlog' : Waits(j)'
    BY <1>2, <1>6, <1>7
  <2>2. \A j, k \in backlog' : j.doc = k.doc => j = k
    <3>1. \A i, k \in failed : again(i).doc = again(k).doc => i = k
      BY <1>1, <1>6 DEF OneJob
    <3>2. \A j, k \in backlog : j.doc = k.doc => j = k
      BY <1>3 DEF Later, Behind
    <3>3. \A j \in backlog, i \in failed : j.doc # again(i).doc
      BY <1>6, <1>7
    <3> QED BY <1>2, <3>1, <3>2, <3>3
  <2> QED BY <2>1, <2>2 DEF Behind
<1>9. Ahead'
  <2>1. Retrying' = Retrying
    BY <1>2 DEF Retrying
  <2> SUFFICES ASSUME Retrying PROVE Ahead'
    BY <2>1 DEF Ahead
  <2>2. /\ \A j \in items : Waits(j) /\ j.doc \notin Reported
        /\ \A j, k \in items : j.doc = k.doc => j = k
        /\ \A j \in items, k \in backlog : j.doc # k.doc
    BY <1>3 DEF Later, Ahead, Waits, InPool
  <2>3. \A j \in items : Waits(j)'
    BY <1>2, <1>5, <2>2 DEF Waits
  <2>4. \A j \in items, k \in backlog' : j.doc # k.doc
    BY <1>2, <1>6, <2>2
  <2> QED BY <1>2, <2>2, <2>3, <2>4 DEF Ahead
<1>10. AtHand'
  <2> SUFFICES ASSUME pc = "put" PROVE AtHand'
    BY <1>2 DEF AtHand
  <2>1. /\ Open(ledger, item) /\ item.doc \notin InPool /\ item.doc \notin Reported
        /\ \A k \in backlog : k.doc # item.doc
        /\ item.again => \A k \in items : k.doc # item.doc
    BY <1>3 DEF Later, AtHand, InPool
  <2>2. \A k \in backlog' : k.doc # item.doc
    BY <1>2, <1>6, <2>1
  <2> QED BY <1>2, <1>5, <2>1, <2>2 DEF AtHand
<1> QED BY <1>8, <1>9, <1>10 DEF Later

\* A new document is at hand.
LEMMA AdmitLater ==
  ASSUME Placed, Admit
  PROVE  Later'
<1>1. Sound /\ LedgerOK /\ ItemsOK /\ MainOK /\ DashboardTypes
  BY PlacedSound DEF Sound, DashboardTypes
<1>2. pc = "admit" /\ pc' = "put" /\ backlog' = backlog
  BY DEF Admit
<1>3. PICK d \in items, local \in BOOLEAN :
        /\ item' = [doc |-> d, attempt |-> 1, run |-> run, again |-> FALSE]
        /\ ledger' = [ledger EXCEPT ![d] = [Wrote(@, "OPEN") EXCEPT !.attempt = 1, !.run = run, !.local = local]]
  BY DEF Admit
<1>4. d \in Doc /\ ledger[d].told = "none"
  BY <1>1, <1>2, NewIs DEF ItemsOK, Sound, Records
<1>5. Later
  BY <1>2 DEF Placed, PlacesInv
<1>6. InPool' = InPool /\ d \notin InPool
  <2>1. InPool' = InPool
    BY AsidePlaces DEF Aside, MainStep, Admit, DrainPool, Enqueue, Cancel, Closed, Draining
  <2> QED BY <1>1, <1>4, <2>1, PoolDocs
<1>7. \A k \in backlog : k.doc \in Doc /\ k.doc # d /\ k.doc \notin InPool
  <2>1. \A k \in backlog : k.doc \in Doc
    BY <1>1 DEF MainOK, Job
  <2>2. \A k \in backlog : Waits(k)
    BY <1>5 DEF Later, Behind
  <2> QED BY <1>4, <2>1, <2>2 DEF Waits, Unended
<1>8. \A c \in Doc : c # d => SameCourse(c)
  BY <1>1, <1>3 DEF LedgerOK, SameCourse
<1>9. Behind'
  BY <1>1, <1>2, <1>5, <1>6, <1>7, <1>8, BehindKept DEF Later
<1>10. Ahead'
  BY <1>2, <1>3 DEF Ahead, Retrying
<1>11. AtHand'
  <2>1. ledger'[d].told = "OPEN" /\ ledger'[d].attempt = 1 /\ ledger'[d].run = run
    BY <1>1, <1>3, <1>4 DEF LedgerOK, Entry, Wrote
  <2>2. item'.doc = d /\ item'.attempt = 1 /\ item'.run = run /\ ~item'.again
    BY <1>3
  <2>3. Open(ledger', item')
    BY <2>1, <2>2 DEF Open, Fits
  <2> QED BY <1>2, <1>6, <1>7, <2>2, <2>3 DEF AtHand
<1> QED BY <1>9, <1>10, <1>11 DEF Later

\* A job of the recovery round is at hand.
LEMMA RetryLater ==
  ASSUME Placed, Retry
  PROVE  Later'
<1>1. Sound /\ LedgerOK /\ MainOK /\ DashboardTypes
  BY PlacedSound DEF Sound, DashboardTypes
<1>2. pc = "retry" /\ pc' = "put" /\ backlog' = backlog
  BY DEF Retry
<1>3. PICK job \in items :
        /\ item' = job /\ items' = items \ {job}
        /\ ledger' = [ledger EXCEPT ![job.doc] = [Wrote(@, "OPEN") EXCEPT !.attempt = job.attempt]]
  BY DEF Retry
<1>4. items \subseteq Job /\ (\A j \in items : Waits(j) /\ j.doc \in Doc) /\ Later
  BY <1>2, WaitingJobs
<1>5. /\ \A j, k \in items : j.doc = k.doc => j = k
      /\ \A j \in items, k \in backlog : j.doc # k.doc
  BY <1>2, <1>4 DEF Later, Ahead, Retrying
<1>6. InPool' = InPool
  BY AsidePlaces DEF Aside, MainStep, Retry, DrainPool, Enqueue, Cancel, Closed, Draining
<1>7. \A c \in Doc : c # job.doc => SameCourse(c)
  BY <1>1, <1>3 DEF LedgerOK, SameCourse
<1>8. Behind'
  <2>1. \A k \in backlog : k.doc \notin InPool /\ k.doc \in Doc /\ k.doc # job.doc
    BY <1>1, <1>4, <1>5 DEF Later, Behind, Waits, MainOK, Job
  <2> QED BY <1>1, <1>2, <1>4, <1>6, <1>7, <2>1, BehindKept DEF Later
<1>9. Ahead'
  <2>1. \A j \in items' : Waits(j)'
    <3> SUFFICES ASSUME NEW j \in items' PROVE Waits(j)'
      OBVIOUS
    <3>1. j \in items /\ j.doc # job.doc
      BY <1>3, <1>5
    <3>2. SameCourse(j.doc) /\ Waits(j)
      BY <1>4, <1>7, <3>1
    <3> QED BY <1>6, <3>2 DEF Waits, SameCourse
  <2> QED BY <1>2, <1>3, <1>5, <2>1 DEF Ahead
<1>10. AtHand'
  <2>1. Open(ledger', job)
    <3>1. job.doc \in Doc /\ ledger[job.doc].run = job.run
      BY <1>4 DEF Waits
    <3>2. /\ ledger'[job.doc].told = "OPEN" /\ ledger'[job.doc].attempt = job.attempt
          /\ ledger'[job.doc].run = ledger[job.doc].run
      BY <1>1, <1>3, <3>1 DEF LedgerOK, Entry, Wrote
    <3> QED BY <3>1, <3>2 DEF Open, Fits
  <2>2. job.doc \notin InPool
    BY <1>4 DEF Waits
  <2>3. \A k \in items' : k.doc # job.doc
    BY <1>3, <1>5
  <2> QED BY <1>2, <1>3, <1>5, <1>6, <2>1, <2>2, <2>3 DEF AtHand
<1> QED BY <1>8, <1>9, <1>10 DEF Later

\* The steps around the queue.
LEMMA EnqueueLater ==
  ASSUME Placed, Enqueue
  PROVE  Later'
<1>1. pc = "put" /\ pc' = "emit" /\ UNCHANGED <<items, item, backlog, ledger>>
  BY DEF Enqueue
<1>2. Later /\ DashboardTypes
  BY <1>1 DEF Placed, PlacesInv
<1>3. InPool' = InPool \cup {item.doc}
  BY EnqueuePlaces
<1>4. \A k \in backlog : k.doc # item.doc /\ Waits(k)
  BY <1>1, <1>2 DEF Later, AtHand, Behind
<1>5. Behind'
  BY <1>1, <1>2, <1>3, <1>4, BehindKept DEF Later, Waits, SameCourse
<1>6. Ahead'
  <2>1. Retrying' => Retrying /\ item.again
    BY <1>1 DEF Retrying
  <2> SUFFICES ASSUME Retrying, item.again PROVE Ahead'
    BY <2>1 DEF Ahead
  <2>2. \A k \in items : k.doc # item.doc /\ Waits(k)
    BY <1>1, <1>2 DEF Later, AtHand, Ahead
  <2>3. \A k \in items : Waits(k)'
    BY <1>1, <1>3, <2>2 DEF Waits
  <2> QED BY <1>1, <1>2, <2>3 DEF Later, Ahead
<1>7. AtHand'
  BY <1>1 DEF AtHand
<1> QED BY <1>5, <1>6, <1>7 DEF Later

\* Each step of the main thread keeps the waiting jobs in order.
LEMMA MainLater ==
  ASSUME Placed, MainStep, pc' \notin {"closing", "over", "done"}
  PROVE  Later'
<1>1. CASE Start \/ DrainPool \/ Admit \/ Retry \/ Enqueue
  BY <1>1, StartLater, DrainLater, AdmitLater, RetryLater, EnqueueLater
<1>2. CASE Restore \/ AnnounceRestored \/ Discover \/ LastPage \/ Evaluated \/ NotEvaluated \/ PageDone
           \/ DrainedOut \/ RoundAdmitted
  <2>1. /\ pc \in {"restore", "announce", "turn", "stage1", "admit", "drain", "retry"} /\ backlog' = backlog
        /\ pc' \notin {"put", "emit", "retry"}
    BY <1>2 DEF Restore, AnnounceRestored, Discover, LastPage, Evaluated, NotEvaluated, PageDone, DrainedOut,
                RoundAdmitted
  <2>2. ~(DrainPool \/ Enqueue \/ Cancel \/ Closed)
    BY <1>1, <1>2 DEF Restore, AnnounceRestored, Discover, LastPage, Evaluated, NotEvaluated, PageDone,
                DrainedOut, RoundAdmitted, DrainPool, Draining, Enqueue, Cancel, Closed
  <2> QED BY <2>1, <2>2, NothingAhead DEF Aside
<1>3. CASE DrainBus \/ Emit \/ Round
  <2>1. Aside
    BY <1>3 DEF Aside, MainStep, DrainBus, AfterDrain, Emit, Round, DrainPool, Draining, Enqueue, Cancel, Closed
  <2>2. UNCHANGED <<ledger>> /\ InPool' = InPool
    BY <1>3, <2>1, AsidePlaces DEF DrainBus, Emit, Round
  <2>3. pc \notin {"closing", "over", "done"}
    BY <1>3 DEF DrainBus, AfterDrain, Emit, Round
  <2>4. DashboardTypes /\ Later
    BY <2>3 DEF Placed, PlacesInv
  <2>5. \A d \in Doc : SameCourse(d)
    BY <2>2 DEF SameCourse
  <2>6. \A j : Waits(j)' <=> Waits(j)
    BY <2>2 DEF Waits
  <2>7. CASE Round
    <3>1. items' = backlog /\ backlog' = {} /\ pc' = "retry"
      BY <2>7 DEF Round
    <3> QED BY <2>4, <2>6, <3>1 DEF Later, Behind, Ahead, AtHand
  <2>8. CASE Emit
    <3>1. items' = items /\ backlog' = backlog /\ pc = "emit" /\ pc' = IF item.again THEN "retry" ELSE "admit"
      BY <2>8 DEF Emit
    <3>2. Retrying' => Retrying
      BY <3>1 DEF Retrying
    <3> QED BY <2>4, <2>6, <3>1, <3>2 DEF Later, Behind, Ahead, AtHand
  <2>9. CASE DrainBus
    <3>1. UNCHANGED <<items, item, backlog>> /\ (pc' = pc \/ pc' \in {"turn", "admit", "rounds"})
      BY <2>9 DEF DrainBus, AfterDrain
    <3>2. CASE pc' = pc
      BY <2>2, <2>4, <2>5, <3>1, <3>2, LaterKept
    <3>3. CASE pc' \in {"turn", "admit", "rounds"}
      BY <2>1, <2>3, <3>1, <3>3, NothingAhead
    <3> QED BY <3>1, <3>2, <3>3
  <2> QED BY <1>3, <2>7, <2>8, <2>9
<1>4. CASE Finish \/ Cancel \/ Closed
  BY <1>4 DEF Finish, Cancel, Closed
<1> QED BY <1>1, <1>2, <1>3, <1>4 DEF MainStep

-----------------------------------------------------------------------------
(* The steps of the main thread: the quiet moments                         *)

\* A run comes to its end with an empty pool.
LEMMA MainQuiet ==
  ASSUME Placed, MainStep
  PROVE  Quiet'
<1>1. Quiet /\ Sound
  BY PlacedSound DEF Placed, PlacesInv
<1>2. CASE Start
  BY <1>1, <1>2, StartDoes DEF Quiet
<1>3. CASE Restore \/ AnnounceRestored \/ Discover \/ LastPage \/ Evaluated \/ NotEvaluated \/ PageDone
  <2>1. pc' \notin {"closing", "last", "rounds", "done", "over"}
    BY <1>3 DEF Restore, AnnounceRestored, Discover, LastPage, Evaluated, NotEvaluated, PageDone
  <2> QED BY <2>1 DEF Quiet
<1>4. CASE Admit \/ Enqueue \/ Emit \/ Round \/ Retry \/ RoundAdmitted
  <2>1. pc' \notin {"closing", "last", "rounds", "done", "over"}
    BY <1>4 DEF Admit, Enqueue, Emit, Round, Retry, RoundAdmitted
  <2> QED BY <2>1 DEF Quiet
<1>5. CASE DrainPool
  <2>1. pc' = pc /\ outcomes' = <<>> /\ jobs' = jobs /\ turn' = turn
    BY <1>5 DEF DrainPool, UnchangedByMain
  <2> QED BY <1>1, <2>1 DEF Quiet, Active
<1>6. CASE DrainBus
  <2>1. /\ outcomes' = outcomes /\ jobs' = jobs /\ turn' = turn /\ drain = "bus" /\ drain' = "no"
        /\ \/ pc' = pc /\ pc \notin {"last"}
           \/ pc = "last" /\ pc' = "rounds"
           \/ pc' \in {"turn", "admit"}
    BY <1>6 DEF DrainBus, AfterDrain, UnchangedByMain
  <2> QED BY <1>1, <2>1 DEF Quiet, Active
<1>7. CASE DrainedOut
  <2>1. pc' = "last" /\ drain' = "no" /\ jobs' = <<>> /\ Active' = {}
    BY <1>7 DEF DrainedOut, Idle, Active, UnchangedByMain
  <2> QED BY <2>1 DEF Quiet
<1>8. CASE Finish
  <2>1. pc = "rounds" /\ pc' = "done" /\ jobs' = jobs /\ outcomes' = outcomes /\ Active' = Active
    BY <1>8 DEF Finish, Active, UnchangedByMain
  <2> QED BY <1>1, <2>1 DEF Quiet
<1>9. CASE Cancel
  BY <1>9 DEF Cancel, Quiet
<1>10. CASE Closed
  <2>1. pc = "closing" /\ pc' = "over" /\ jobs' = jobs /\ outcomes' = <<>> /\ Active = {} /\ Active' = Active
    BY <1>10 DEF Closed, Active, UnchangedByMain
  <2> QED BY <1>1, <2>1 DEF Quiet
<1> QED BY <1>2, <1>3, <1>4, <1>5, <1>6, <1>7, <1>8, <1>9, <1>10 DEF MainStep

\* Each step of the main thread keeps every document in one place.
LEMMA MainPlaces ==
  ASSUME Placed, MainStep
  PROVE  Placed'
<1>1. DashboardTypes'
  BY PlacedSound, MainItems, MainTypes
<1>2. Records'
  BY PlacedSound, MainRecords
<1> QED BY <1>1, <1>2, MainRuns, MainPool, MainLater, MainQuiet DEF Placed, PlacesInv

\* The empty list is a list of anything.
LEMMA NothingYet ==
  /\ <<>> \in Seq(Message) /\ <<>> \in Seq([worker : Worker, state : RowStates])
  /\ <<>> \in Seq(Job) /\ <<>> \in Seq([job : Job, result : Results]) /\ <<>> \in Seq(Doc)
  /\ \A s : s = <<>> => DOMAIN s = {}
OBVIOUS

\* At first there is nothing to place.
LEMMA PlacedStart ==
  ASSUME DashboardInit
  PROVE  Placed
<1> DEFINE empty == [status |-> "none", told |-> "none", attempt |-> 0, run |-> 0, local |-> FALSE,
                     verdict |-> "", hashed |-> FALSE, copyOf |-> NoDoc]
<1>1. /\ bus = <<>> /\ net = <<>> /\ metrics = Fresh(0) /\ rows = [w \in Worker |-> "IDLE"]
      /\ run = 0 /\ pc = "over" /\ drain = "no" /\ items = {} /\ item = NoDoc /\ backlog = {}
      /\ jobs = <<>> /\ outcomes = <<>> /\ turn = [w \in Worker |-> Resting]
      /\ stage2Queue = <<>> /\ judge = [v \in Validator |-> NoDoc]
      /\ ledger = [d \in Doc |-> empty]
  BY DEF DashboardInit
<1>2. DOMAIN jobs = {} /\ DOMAIN outcomes = {} /\ DOMAIN bus = {}
  BY <1>1, NothingYet
<1>3. Active = {}
  BY <1>1 DEF Active, Resting
<1>4. BusOK
  BY <1>1, NothingYet DEF BusOK
<1>5. ViewOK
  BY <1>1, FreshType DEF ViewOK, RowStates
<1>6. MainOK
  <2>1. 0 \in 0..MaxRuns
    BY DashboardAssumption
  <2> QED BY <1>1, <2>1 DEF MainOK, Places
<1>7. PoolOK
  <2>1. Resting \in Turn
    BY DEF Resting, Turn, TurnSteps, Results
  <2> QED BY <1>1, <1>3, <2>1, NothingYet DEF PoolOK
<1>8. Stage2OK
  BY <1>1, NothingYet DEF Stage2OK
<1>9. LedgerOK
  <2>1. 0 \in 0..MaxRuns /\ 0 \in 0..MaxAttempts
    BY DashboardAssumption
  <2>2. empty \in Entry
    BY <2>1 DEF Entry, Statuses, Rulings
  <2> HIDE DEF empty
  <2> QED BY <1>1, <2>2 DEF LedgerOK
<1>10. ItemsOK
  BY <1>1 DEF ItemsOK, Retrying
<1>11. PoolFits /\ OneJob
  BY <1>2, <1>3 DEF PoolFits, OneJob, InQueue, InTurn, Reported
<1>12. Runs
  <2>1. \A d \in Doc : ledger[d].run = 0 /\ ledger[d].told = "none"
    BY <1>1
  <2>2. run = 0 /\ pc = "over"
    BY <1>1
  <2> HIDE DEF empty
  <2> QED BY <1>2, <2>1, <2>2 DEF Runs, Begun
<1>13. Quiet
  BY <1>1, <1>3 DEF Quiet
<1>14. Records
  <2>1. \A d \in Doc : ledger[d].status = "none" /\ ledger[d].told = "none" /\ ledger[d].copyOf = NoDoc
    BY <1>1
  <2>2. Range(stage2Queue) = {} /\ \A v \in Validator : judge[v] = NoDoc
    BY <1>1, NothingYet DEF Range
  <2> HIDE DEF empty
  <2>3. \A d \in Doc : ~InValidation(d)
    BY <1>1, <2>1, <2>2, DashboardAssumption DEF InValidation, InStage2
  <2> QED BY <2>1, <2>3 DEF Records, Lags, Near, Handed
<1> QED
  BY <1>14, <1>1, <1>4, <1>5, <1>6, <1>7, <1>8, <1>9, <1>10, <1>11, <1>12, <1>13 DEF Placed, DashboardTypes, PlacesInv

\* A stutter keeps every document in its place.
LEMMA PlacedStays ==
  ASSUME Placed, UNCHANGED dashboardVars
  PROVE  Placed'
<1>1. UNCHANGED <<bus, net, metrics, rows, run, pc, drain, items, item, backlog, jobs, turn, outcomes,
                  stage2Queue, judge, ledger>>
  BY DEF dashboardVars, busVars, viewVars, mainVars, poolVars, stage2Vars
<1>2. Sound /\ OneJob /\ DashboardTypes /\ PlacesInv
  BY PlacedSound DEF Placed
<1>3. /\ BusOK' /\ ViewOK' /\ MainOK' /\ PoolOK' /\ Stage2OK' /\ LedgerOK' /\ ItemsOK'
  BY <1>1, <1>2 DEF DashboardTypes, BusOK, ViewOK, MainOK, PoolOK, Active, Stage2OK, LedgerOK, ItemsOK, New, Retrying
<1>4. \A d : SameCourse(d)
  BY <1>1 DEF SameCourse
<1>5. PoolFits' /\ OneJob' /\ InPool' = InPool
  BY <1>1, <1>2, <1>4, PoolKept
<1>6. pc \notin {"closing", "over", "done"} => Later'
  BY <1>1, <1>2, <1>4, <1>5, LaterKept DEF PlacesInv
<1>7. Runs' /\ Quiet'
  BY <1>1, <1>2 DEF PlacesInv, Runs, Quiet, Active
<1>8. Records'
  BY <1>1, <1>2 DEF Sound, Records, Lags, Handed, InValidation, InStage2
<1> QED BY <1>1, <1>3, <1>5, <1>6, <1>7, <1>8 DEF Placed, DashboardTypes, PlacesInv

\* Every step keeps every document in one place.
LEMMA PlacedStep ==
  ASSUME Placed, [DashboardNext]_dashboardVars
  PROVE  Placed'
BY PlacedStays, WorkerPlaces, ValidatorPlaces, MainPlaces DEF DashboardNext

-----------------------------------------------------------------------------
(* The rows                                                                *)

\* The rows when the workers' events are consumed.
RowsNow == AllPresented(rows, net)
AtWork(w) == turn[w].step \in {"working", "announce", "landed"} /\ ~ledger[turn[w].job.doc].local

\* The rows agree with the attempts, worker by worker.
LEMMA RowsAre ==
  RowsInv <=> \A w \in Worker : RowsNow[w] = "BUSY" <=> AtWork(w)
BY DEF RowsInv, RowsNow, AtWork

\* What the rows will show is rows, and one report changes one row.
LEMMA RowsTyped ==
  ASSUME Sound
  PROVE  /\ rows \in Rows /\ net \in Seq(Tidings) /\ RowsNow \in Rows
         /\ UNCHANGED <<rows, net>> => RowsNow' = RowsNow
         /\ \A w \in Worker, s \in RowStates :
              rows' = rows /\ net' = Append(net, Report(w, s)) => RowsNow' = [RowsNow EXCEPT ![w] = s]
<1>1. rows \in Rows /\ net \in Seq(Tidings)
  BY DEF Sound, DashboardTypes, BusOK, ViewOK, Rows, Tidings
<1>2. RowsNow \in Rows
  BY <1>1, PresentedType DEF RowsNow
<1>3. ASSUME NEW w \in Worker, NEW s \in RowStates, rows' = rows, net' = Append(net, Report(w, s))
      PROVE  RowsNow' = [RowsNow EXCEPT ![w] = s]
  <2>1. Report(w, s) \in Tidings /\ Report(w, s).worker = w /\ Report(w, s).state = s
    BY DEF Report, Tidings
  <2>2. AllPresented(rows, Append(net, Report(w, s))) = [AllPresented(rows, net) EXCEPT ![w] = s]
    BY <1>1, <2>1, PresentedAppend
  <2> QED BY <1>3, <2>2 DEF RowsNow
<1> QED BY <1>1, <1>2, <1>3 DEF RowsNow

\* The documents of the workers keep their course, but for the one of a step.
LEMMA WorkerRows ==
  ASSUME Placed, RowsInv, NEW w \in Worker, DownloadStep(w)
  PROVE  RowsInv'
<1> DEFINE d == turn[w].job.doc
<1>1. Sound /\ PoolFits /\ rows' = rows /\ turn \in [Worker -> Turn]
  BY PlacedSound DEF DownloadStep, Take, BeginAttempt, Store, Fail, Announce, Land, Return, UnchangedByWorker,
     viewVars, Sound, DashboardTypes, PoolOK
<1>2. \A v \in Worker : RowsNow[v] = "BUSY" <=> AtWork(v)
  BY RowsAre
<1>3. RowsNow \in Rows
  BY <1>1, RowsTyped
<1>4. \A v \in Worker \ {w} : turn'[v] = turn[v]
  <2>1. CASE Take(w) \/ Return(w)
    BY <1>1, <2>1 DEF Take, Return
  <2>2. CASE ~(Take(w) \/ Return(w))
    BY <2>2, WorkPlaces DEF DownloadStep
  <2> QED BY <2>1, <2>2
<1>5. \A v \in Worker : turn[v].step # "idle" => ledger'[turn[v].job.doc].local = ledger[turn[v].job.doc].local
  <2>1. CASE Take(w) \/ Return(w)
    BY <2>1 DEF Take, Return
  <2>2. CASE ~(Take(w) \/ Return(w))
    <3>1. turn[w].step # "idle"
      BY <2>2, WorkPlaces DEF DownloadStep
    <3>2. \A c \in Doc : ledger'[c].local = ledger[c].local
      BY <1>1, <2>2, <3>1, WorkerCourse DEF DownloadStep, SameCourse
    <3> QED BY <1>1, <3>2, TurnJob
  <2> QED BY <2>1, <2>2
<1>6. \A v \in Worker \ {w} : AtWork(v)' <=> AtWork(v)
  <2> SUFFICES ASSUME NEW v \in Worker \ {w} PROVE AtWork(v)' <=> AtWork(v)
    OBVIOUS
  <2>1. turn'[v] = turn[v] /\ (turn[v].step # "idle" => ledger'[turn[v].job.doc].local = ledger[turn[v].job.doc].local)
    BY <1>4, <1>5
  <2> QED BY <2>1 DEF AtWork
<1>7. SUFFICES /\ \A v \in Worker \ {w} : RowsNow'[v] = RowsNow[v]
               /\ RowsNow'[w] = "BUSY" <=> AtWork(w)'
  <2>1. \A v \in Worker : RowsNow'[v] = "BUSY" <=> AtWork(v)'
    BY <1>2, <1>6, <1>7
  <2> QED BY <2>1 DEF RowsInv, RowsNow, AtWork
<1>8. CASE Take(w)
  <2>1. net' = net /\ turn[w].step = "idle" /\ turn'[w].step = "taken"
    BY <1>1, <1>8 DEF Take, busVars
  <2>2. RowsNow' = RowsNow
    BY <1>1, <2>1, RowsTyped
  <2> QED BY <1>2, <2>1, <2>2 DEF AtWork
<1>9. CASE Return(w)
  <2>1. net' = net /\ turn[w].step = "ended" /\ turn'[w].step = "idle"
    BY <1>1, <1>9 DEF Return, Resting, busVars
  <2>2. RowsNow' = RowsNow
    BY <1>1, <2>1, RowsTyped
  <2> QED BY <1>2, <2>1, <2>2 DEF AtWork
<1>10. CASE BeginAttempt(w)
  <2>1. /\ net' = Append(net, Report(w, "BUSY")) /\ turn[w].step = "taken" /\ turn'[w].step = "working"
        /\ turn'[w].job = turn[w].job /\ ~ledger[d].local
    BY <1>1, <1>10 DEF BeginAttempt, Sends, Goes, Turn
  <2>2. RowsNow' = [RowsNow EXCEPT ![w] = "BUSY"]
    BY <1>1, <2>1, RowsTyped DEF RowStates
  <2>3. ~ledger'[d].local
    BY <1>5, <2>1
  <2> QED BY <1>3, <2>1, <2>2, <2>3 DEF AtWork, Rows
<1>11. CASE Store(w)
  <2>1. net' = net /\ turn[w].step \in {"taken", "working"} /\ (turn[w].step = "taken" <=> ledger[d].local)
    BY <1>11 DEF Store
  <2>2. turn'[w].step \in {"announce", "landed"} /\ turn'[w].job = turn[w].job
    BY <1>1, <1>11, StoreGoes, WorkPlaces
  <2>3. RowsNow' = RowsNow
    BY <1>1, <2>1, RowsTyped
  <2>4. ledger'[d].local = ledger[d].local
    BY <1>5, <2>1
  <2> QED BY <1>2, <2>1, <2>2, <2>3, <2>4 DEF AtWork
<1>12. CASE Announce(w)
  <2>1. /\ net' = net /\ turn[w].step = "announce" /\ turn'[w].step = "landed" /\ turn'[w].job = turn[w].job
        /\ ledger' = ledger
    BY <1>1, <1>12 DEF Announce, Goes, Turn
  <2>2. RowsNow' = RowsNow
    BY <1>1, <2>1, RowsTyped
  <2> QED BY <1>2, <2>1, <2>2 DEF AtWork
<1>13. CASE Fail(w) \/ Land(w)
  <2>1. PICK s \in {"COMPLETED", "RECOVERY_WAIT", "PERMANENTLY_FAILED"} : net' = Append(net, Report(w, s))
    BY <1>13 DEF Fail, Land, Sends
  <2>2. turn'[w].step = "ended"
    <3>1. CASE Fail(w)
      BY <1>1, <3>1 DEF Fail, Turn
    <3>2. CASE Land(w)
      BY <1>1, <3>2 DEF Land, Goes, Turn
    <3> QED BY <1>13, <3>1, <3>2
  <2>3. RowsNow' = [RowsNow EXCEPT ![w] = s]
    BY <1>1, <2>1, RowsTyped DEF RowStates
  <2> QED BY <1>3, <2>1, <2>2, <2>3 DEF AtWork, Rows
<1> QED BY <1>8, <1>9, <1>10, <1>11, <1>12, <1>13 DEF DownloadStep

\* The pool keeps its course during a step of the main thread.
LEMMA MainCourse ==
  ASSUME Placed, MainStep
  PROVE  turn' = turn /\ \A d \in InPool : SameCourse(d)
<1>1. Sound
  BY PlacedSound
<1>2. CASE Aside
  <2> SUFFICES ASSUME NEW d \in InPool PROVE SameCourse(d)
    BY <1>2, AsideCourse
  <2>1. d \in Doc /\ ledger[d].told # "none"
    BY <1>1, PoolDocs
  <2>2. ASSUME pc = "retry", item' \in items PROVE item'.doc # d
    BY <2>2, WaitingJobs DEF Waits
  <2>3. ~Start
    BY PoolEmpty DEF Start
  <2> QED BY <1>2, <2>1, <2>2, <2>3, AsideCourse
<1>3. CASE DrainPool \/ Enqueue \/ Cancel \/ Closed
  <2>1. turn' = turn /\ ledger' = ledger
    BY <1>3 DEF DrainPool, Enqueue, Cancel, Closed, UnchangedByMain
  <2> QED BY <2>1 DEF SameCourse
<1> QED BY <1>2, <1>3 DEF Aside

\* The main thread drains the workers' events but leaves what they say.
LEMMA MainRows ==
  ASSUME Placed, RowsInv, MainStep
  PROVE  RowsInv'
<1>1. Sound /\ Quiet
  BY PlacedSound DEF Placed, PlacesInv
<1>2. \A v \in Worker : RowsNow[v] = "BUSY" <=> AtWork(v)
  BY RowsAre
<1>3. \A v \in Worker : AtWork(v)' <=> AtWork(v)
  <2> SUFFICES ASSUME NEW v \in Worker PROVE AtWork(v)' <=> AtWork(v)
    OBVIOUS
  <2>1. turn' = turn
    BY MainCourse
  <2>2. ASSUME turn[v].step # "idle" PROVE ledger'[turn[v].job.doc].local = ledger[turn[v].job.doc].local
    <3>1. turn[v].job.doc \in InPool
      BY <2>2 DEF InPool, InTurn, Active
    <3> QED BY <3>1, MainCourse DEF SameCourse
  <2> QED BY <2>1, <2>2 DEF AtWork
<1>4. \A v \in Worker : RowsNow'[v] = "BUSY" <=> RowsNow[v] = "BUSY"
  <2>1. CASE Start
    <3>1. pc \in {"over", "done"} /\ rows' = [w \in Worker |-> "IDLE"] /\ net' = <<>>
      BY <1>1, <2>1, StartDoes
    <3>2. Active = {}
      BY <1>1, <3>1 DEF Quiet
    <3>3. \A v \in Worker : ~AtWork(v)
      BY <3>2 DEF AtWork, Active
    <3>4. rows' \in Rows
      BY <3>1 DEF Rows, RowStates
    <3>5. RowsNow' = rows'
      BY <3>1, <3>4, PresentedNothing DEF RowsNow
    <3> QED BY <1>2, <3>1, <3>3, <3>5
  <2>2. CASE DrainPool
    <3>1. rows' = RowsNow /\ net' = <<>>
      BY <2>2 DEF DrainPool, RowsNow
    <3>2. RowsNow' = rows'
      BY <1>1, <3>1, RowsTyped, PresentedNothing DEF RowsNow
    <3> QED BY <3>1, <3>2
  <2>3. CASE ~Start /\ ~DrainPool
    <3>1. ASSUME Restore \/ AnnounceRestored \/ DrainBus \/ Discover \/ LastPage \/ Evaluated
                 \/ NotEvaluated \/ Admit \/ PageDone
          PROVE  UNCHANGED <<rows, net>>
      BY <3>1 DEF Restore, AnnounceRestored, DrainBus, Discover, LastPage, Evaluated, NotEvaluated, Admit,
                  PageDone, viewVars, busVars
    <3>2. ASSUME Enqueue \/ Emit \/ DrainedOut \/ Round \/ Retry \/ RoundAdmitted \/ Finish
                 \/ Cancel \/ Closed
          PROVE  UNCHANGED <<rows, net>>
      BY <3>2 DEF Enqueue, Emit, DrainedOut, Round, Retry, RoundAdmitted, Finish, Cancel, Closed, viewVars, busVars
    <3>3. UNCHANGED <<rows, net>>
      BY <2>3, <3>1, <3>2 DEF MainStep
    <3> QED BY <1>1, <3>3, RowsTyped
  <2> QED BY <2>1, <2>2, <2>3
<1> QED BY <1>2, <1>3, <1>4 DEF RowsInv, RowsNow, AtWork

\* The rows are not about validations.
LEMMA ValidatorRows ==
  ASSUME Placed, RowsInv, NEW v \in Validator, ValidatorStep(v)
  PROVE  RowsInv'
<1>1. Sound
  BY PlacedSound
<1>2. UNCHANGED <<rows, net, turn>>
  BY DEF ValidatorStep, Check, LinkCopy, Judge, Raise, UnchangedByValidator, viewVars, poolVars
<1>3. \A d \in Doc : ledger'[d].local = ledger[d].local
  BY <1>1, ValidatorCourse DEF SameCourse
<1>4. \A w \in Worker : turn[w].step # "idle" => turn[w].job.doc \in Doc
  BY <1>1, TurnJob
<1>5. \A w \in Worker : AtWork(w)' <=> AtWork(w)
  <2> SUFFICES ASSUME NEW w \in Worker PROVE AtWork(w)' <=> AtWork(w)
    OBVIOUS
  <2> QED BY <1>2, <1>3, <1>4 DEF AtWork
<1>6. RowsNow' = RowsNow
  BY <1>1, <1>2, RowsTyped
<1>7. \A w \in Worker : RowsNow[w] = "BUSY" <=> AtWork(w)
  BY RowsAre
<1> QED BY <1>5, <1>6, <1>7 DEF RowsInv, RowsNow, AtWork

\* At first every row is idle.
LEMMA RowsStart ==
  ASSUME DashboardInit
  PROVE  RowsInv
<1>1. rows = [w \in Worker |-> "IDLE"] /\ net = <<>> /\ \A w \in Worker : turn[w].step = "idle"
  BY DEF DashboardInit, Resting
<1>2. rows \in Rows
  BY <1>1 DEF Rows, RowStates
<1>3. AllPresented(rows, net) = rows
  BY <1>1, <1>2, PresentedNothing
<1> QED BY <1>1, <1>3 DEF RowsInv

\* Every step keeps the rows in agreement with the attempts.
LEMMA RowsStep ==
  ASSUME Placed, RowsInv, [DashboardNext]_dashboardVars
  PROVE  RowsInv'
<1>1. CASE UNCHANGED dashboardVars
  BY <1>1 DEF dashboardVars, busVars, viewVars, poolVars, RowsInv
<1> QED BY <1>1, WorkerRows, ValidatorRows, MainRows DEF DashboardNext

\* What the snapshot shows follows.
LEMMA SnapshotFollows ==
  ASSUME Placed, RowsInv
  PROVE  SnapshotFollowsTheQueue
<1>1. Sound /\ PoolFits
  BY PlacedSound DEF Sound
<1>2. ASSUME net = <<>>, \A w \in Active : turn[w].step = "working" PROVE Shown = Active
  <2>1. RowsNow = rows
    BY <1>1, <1>2, RowsTyped, PresentedNothing DEF RowsNow
  <2>2. \A w \in Worker : rows[w] = "BUSY" <=> AtWork(w)
    BY <2>1, RowsAre
  <2>3. \A w \in Active : AtWork(w)
    BY <1>1, <1>2 DEF PoolFits, AtWork
  <2>4. \A w \in Worker : AtWork(w) => w \in Active
    BY DEF AtWork, Active
  <2>5. ActiveRows = Active
    BY <2>2, <2>3, <2>4 DEF ActiveRows, Active
  <2> QED BY <2>5, ShownExactly
<1> QED BY <1>2, ShownAreFew DEF SnapshotFollowsTheQueue

-----------------------------------------------------------------------------
(* The Stage 2 counters                                                    *)

\* An event moves its own document only.
LEMMA ConsumedPhase ==
  ASSUME NEW m \in Metrics, NEW e \in Message, NEW d \in Doc
  PROVE  /\ e.kind \in Stage2Kinds /\ e.doc = d => Consumed(m, e).inflight[d] = PhaseAfter(e.kind)
         /\ ~(e.kind \in Stage2Kinds /\ e.doc = d) => Consumed(m, e).inflight[d] = m.inflight[d]
<1>1. CASE e.kind \notin Stage2Kinds
  <2>1. SameStage2(m, Consumed(m, e))
    BY <1>1, ConsumedElsewhere
  <2> QED BY <1>1, <2>1 DEF SameStage2
<1>2. CASE e.kind \in Stage2Kinds
  <2>1. e.doc \in Doc /\ m.inflight \in [Doc -> Phases \cup {"none"}]
    BY <1>2 DEF Message, Stage2Kinds, Metrics
  <2>2. CASE e.kind \in {"STAGE2_QUEUED", "STAGE2_STARTED", "STAGE2_PENDING", "STAGE2_DUPLICATE_PENDING"}
    <3>1. Consumed(m, e) = SetStage2(m, e.doc, PhaseAfter(e.kind))
      BY <2>2 DEF Consumed, PhaseAfter
    <3>2. \A p : SetStage2(m, e.doc, p).inflight = [m.inflight EXCEPT ![e.doc] = p]
      BY <2>1 DEF SetStage2, Metrics
    <3>3. Consumed(m, e).inflight = [m.inflight EXCEPT ![e.doc] = PhaseAfter(e.kind)]
      BY <3>1, <3>2
    <3> QED BY <1>2, <2>1, <3>3
  <2>3. CASE e.kind \in {"STAGE2_APPROVED", "STAGE2_REJECTED", "STAGE2_INVALID"}
    <3> DEFINE c == CompleteStage2(m, e.doc)
    <3>1. Consumed(m, e) \in {[c EXCEPT !.approved = @ + e.n], [c EXCEPT !.rejected = @ + e.n],
                              [c EXCEPT !.invalid = @ + e.n]}
      BY <2>3 DEF Consumed
    <3>2. c \in Metrics
      BY <2>1, Stage2Type
    <3>3. c.inflight = [m.inflight EXCEPT ![e.doc] = "none"]
      BY DEF CompleteStage2, Metrics
    <3> HIDE DEF c
    <3>4. Consumed(m, e).inflight = c.inflight
      BY <3>1, <3>2 DEF Metrics
    <3>5. PhaseAfter(e.kind) = "none"
      BY <2>3 DEF PhaseAfter
    <3> QED BY <1>2, <2>1, <3>3, <3>4, <3>5
  <2> QED BY <1>2, <2>2, <2>3 DEF Stage2Kinds
<1> QED BY <1>1, <1>2

\* No list of events upsets the sizes of the phases.
LEMMA ToldSized ==
  ASSUME Sound, Sized(metrics), Sized(Now), NEW es, Tells(es)
  PROVE  Sized(metrics)' /\ Sized(Now)'
<1>1. Heard /\ Now \in Metrics /\ es \in Seq(Message)
  BY SoundHeard, NowType DEF Tells
<1> DEFINE S == {x \in Metrics : Sized(x)}
<1>2. \A i \in 1..Len(es) : es[i] \in Message
  BY <1>1
<1>3. \A i \in 1..Len(es), x \in Metrics : x \in S /\ Own(es[i], run) => Consumed(x, es[i]) \in S
  BY <1>2, ConsumedStage2, ConsumedType
<1>4. Now \in S
  BY <1>1
<1>5. Now' \in S
  <2> HIDE DEF S
  <2> QED BY <1>1, <1>3, <1>4, ToldKeeps
<1>6. Sized(Now')
  BY <1>5
<1>7. Sized(metrics')
  <2>1. CASE metrics' = metrics
    BY <2>1
  <2>2. CASE metrics' = Now'
    BY <1>6, <2>2
  <2> QED BY <2>1, <2>2 DEF Tells
<1> QED BY <1>6, <1>7 DEF Sized

\* Events about other documents leave a document in its phase.
LEMMA ToldElsewhere ==
  ASSUME Sound, NEW es, Tells(es), NEW d \in Doc,
         \A i \in 1..Len(es) : Own(es[i], run) => ~(es[i].kind \in Stage2Kinds /\ es[i].doc = d)
  PROVE  Now'.inflight[d] = Now.inflight[d]
<1>1. Heard /\ Now \in Metrics /\ es \in Seq(Message)
  BY SoundHeard, NowType DEF Tells
<1> DEFINE S == {x \in Metrics : x.inflight[d] = Now.inflight[d]}
<1>2. \A i \in 1..Len(es) : es[i] \in Message
  BY <1>1
<1>3. \A i \in 1..Len(es), x \in Metrics : x \in S /\ Own(es[i], run) => Consumed(x, es[i]) \in S
  BY <1>2, ConsumedPhase, ConsumedType
<1>4. Now \in S
  BY <1>1
<1>5. Now' \in S
  <2> HIDE DEF S
  <2> QED BY <1>1, <1>3, <1>4, ToldKeeps
<1> QED BY <1>5

\* Events that agree about a document put it into their phase.
LEMMA ToldAbout ==
  ASSUME Sound, NEW es, Tells(es), NEW d \in Doc, NEW p, NEW k \in 1..Len(es), Own(es[k], run),
         es[k].kind \in Stage2Kinds, es[k].doc = d,
         \A i \in 1..Len(es) : es[i].kind \in Stage2Kinds /\ es[i].doc = d => PhaseAfter(es[i].kind) = p
  PROVE  Now'.inflight[d] = p
<1>1. Heard /\ es \in Seq(Message)
  BY SoundHeard DEF Tells
<1> DEFINE S == {x \in Metrics : x.inflight[d] = p}
<1>2. \A i \in 1..Len(es) : es[i] \in Message
  BY <1>1
<1>3. \A x \in Metrics : Consumed(x, es[k]) \in S
  BY <1>2, ConsumedPhase, ConsumedType
<1>4. \A i \in 1..Len(es), x \in Metrics : i > k /\ x \in S /\ Own(es[i], run) => Consumed(x, es[i]) \in S
  BY <1>2, ConsumedPhase, ConsumedType
<1>5. Now' \in S
  <2> HIDE DEF S
  <2> QED BY <1>1, <1>3, <1>4, ToldReaches
<1> QED BY <1>5

\* A step that is silent about a document leaves its ruling standing.
Steady(c) ==
  /\ ledger'[c].run \in {ledger[c].run, run}
  /\ \/ ledger'[c].verdict \notin Verdicts
     \/ ledger[c].verdict \in Verdicts /\ \A v \in Validator : judge[v] = c => judge'[v] = c

\* The events of a step are about the documents T, all of one kind.
AllAbout(es, kind, T) ==
  /\ \A i \in 1..Len(es) : es[i].kind \notin Stage2Kinds \/ \E c \in T : es[i] = About(kind, Job2(c))
  /\ \A c \in T : \E i \in 1..Len(es) : es[i] = About(kind, Job2(c))

\* Events of one kind about some documents, and none about the others, keep the phases right.
LEMMA RuledAfter ==
  ASSUME Sound, Ruled, NEW T \in SUBSET Doc, NEW kind \in Stage2Kinds, NEW es, Tells(es),
         AllAbout(es, kind, T),
         \A c \in T : /\ ledger'[c].run = ledger[c].run
                      /\ kind # "STAGE2_STARTED" \/ ledger'[c].verdict \notin Verdicts,
         \A c \in Doc \ T : Steady(c)
  PROVE  Ruled'
<1>1. run' = run
  BY DEF Tells
<1>2. \A c \in Doc : About(kind, Job2(c)).doc = c /\ About(kind, Job2(c)).run = ledger[c].run
                     /\ About(kind, Job2(c)).kind = kind
  BY DEF About, Event, Job2
<1>3. ASSUME NEW c \in T PROVE Now'.inflight[c] = "none" \/ (Now'.inflight[c] = PhaseAfter(kind) /\ ledger[c].run = run)
  <2>0. \A i \in 1..Len(es) : es[i].kind \in Stage2Kinds /\ es[i].doc = c =>
                                es[i].run = ledger[c].run /\ es[i].kind = kind /\ es[i].run # 0
    <3>1. \A i \in 1..Len(es) : es[i] \in Message
      BY DEF Tells
    <3>2. \A e \in Message : e.run # 0
      BY DashboardAssumption DEF Message
    <3> QED BY <1>2, <3>1, <3>2 DEF AllAbout
  <2>1. CASE ledger[c].run = run
    <3>1. PICK k \in 1..Len(es) : es[k] = About(kind, Job2(c))
      BY <1>3 DEF AllAbout
    <3>2. Own(es[k], run) /\ es[k].kind \in Stage2Kinds /\ es[k].doc = c
      BY <1>2, <2>1, <3>1 DEF Own
    <3>3. \A i \in 1..Len(es) : es[i].kind \in Stage2Kinds /\ es[i].doc = c => PhaseAfter(es[i].kind) = PhaseAfter(kind)
      BY <2>0
    <3>4. Now'.inflight[c] = PhaseAfter(kind)
      BY <3>2, <3>3, ToldAbout
    <3> QED BY <2>1, <3>4
  <2>2. CASE ledger[c].run # run
    <3>1. \A i \in 1..Len(es) : Own(es[i], run) => ~(es[i].kind \in Stage2Kinds /\ es[i].doc = c)
      BY <2>0, <2>2 DEF Own
    <3>2. Now'.inflight[c] = Now.inflight[c]
      BY <3>1, ToldElsewhere
    <3> QED BY <2>2, <3>2 DEF Ruled
  <2> QED BY <2>1, <2>2
<1>4. ASSUME NEW c \in Doc \ T PROVE Now'.inflight[c] = Now.inflight[c]
  <2>1. \A i \in 1..Len(es) : Own(es[i], run) => ~(es[i].kind \in Stage2Kinds /\ es[i].doc = c)
    BY <1>2 DEF AllAbout
  <2> QED BY <2>1, ToldElsewhere
<1>5. PhaseAfter(kind) = "running" => kind = "STAGE2_STARTED"
  BY DEF PhaseAfter
<1>6. ASSUME NEW c \in Doc
      PROVE  /\ Now'.inflight[c] # "none" => ledger'[c].run = run'
             /\ Now'.inflight[c] = "running" /\ ledger'[c].verdict \in Verdicts => \E v \in Validator : judge'[v] = c
  <2>1. CASE c \in T
    BY <1>1, <1>3, <1>5, <2>1
  <2>2. CASE c \notin T
    BY <1>1, <1>4, <2>2 DEF Ruled, Steady
  <2> QED BY <2>1, <2>2
<1> QED BY <1>6 DEF Ruled

\* Events that are not of Stage 2 keep the phases right.
LEMMA RuledSilently ==
  ASSUME Sound, Ruled, NEW es, Tells(es), \A i \in 1..Len(es) : es[i].kind \notin Stage2Kinds,
         \A c \in Doc : Steady(c)
  PROVE  Ruled'
<1>1. AllAbout(es, "STAGE2_QUEUED", {}) /\ "STAGE2_QUEUED" \in Stage2Kinds
  BY DEF AllAbout, Stage2Kinds
<1> QED BY <1>1, RuledAfter

\* One event of Stage 2 keeps the phases right.
LEMMA RuledOne ==
  ASSUME Sound, Ruled, NEW kind \in Stage2Kinds, NEW d \in Doc, Tells(<<About(kind, Job2(d))>>),
         ledger'[d].run = ledger[d].run, kind # "STAGE2_STARTED" \/ ledger'[d].verdict \notin Verdicts,
         \A c \in Doc \ {d} : Steady(c)
  PROVE  Ruled'
<1> DEFINE e == About(kind, Job2(d))
           es == <<e>>
<1>1. Len(es) = 1 /\ 1 \in 1..Len(es) /\ \A i \in 1..Len(es) : es[i] = e
  OBVIOUS
<1>2. AllAbout(es, kind, {d})
  <2> HIDE DEF es
  <2> QED BY <1>1 DEF AllAbout
<1>3. Tells(es)
  OBVIOUS
<1> HIDE DEF es
<1> QED BY <1>2, <1>3, RuledAfter

\* A record that is rewritten without its verdict stays ruled on.
LEMMA SteadyIf ==
  ASSUME NEW c, ledger'[c].run \in {ledger[c].run, run}, ledger'[c].verdict = ledger[c].verdict,
         \A v \in Validator : judge[v] = c => judge'[v] = c
  PROVE  Steady(c)
BY DEF Steady

\* A list of one event, and the empty list.
LEMMA Brief ==
  ASSUME NEW e
  PROVE  /\ Len(<<e>>) = 1 /\ \A i \in 1..Len(<<e>>) : <<e>>[i] = e
         /\ \A i \in 1..Len(<<>>) : FALSE
OBVIOUS

\* What an event says of its job.
LEMMA AboutKind ==
  ASSUME NEW kind, NEW job
  PROVE  About(kind, job).kind = kind /\ About(kind, job).run = job.run /\ About(kind, job).doc = job.doc
         /\ About(kind, job).n = 1
BY DEF About, Event

\* The hand-over to Stage 2 keeps the phases right, whatever is dropped of its
\* writes: no write but that of a verdict calls for an event.
LEMMA HandOverRuled ==
  ASSUME Sound, Ruled, NEW d \in Doc, NEW record \in Entry, SameCandidate(record, ledger[d]),
         record.verdict \in {ledger[d].verdict, "PENDING"}, judge' = judge,
         \/ Rules(d, record, {"QUEUED"}) /\ Tells(<<>>)
         \/ \E kind \in {"STAGE2_INVALID", "STAGE2_PENDING"} :
              Rules(d, record, RulesWith(kind)) /\ Tells(<<About(kind, Job2(d))>>)
  PROVE  Ruled'
<1>1. LedgerOK
  BY DEF Sound, DashboardTypes
<1>2. ASSUME NEW verdicts \in SUBSET Rulings, Rules(d, record, verdicts)
      PROVE  /\ \A c \in Doc \ {d} : Steady(c)
             /\ ledger'[d].run = ledger[d].run
             /\ ledger'[d].verdict \in {ledger[d].verdict, "PENDING"} \union verdicts
  <2>1. /\ \A c \in Doc \ {d} : ledger'[c] = ledger[c]
        /\ SameCandidate(ledger'[d], record) /\ ledger'[d].verdict \in {record.verdict} \union verdicts
    BY <1>1, <1>2, RulesLeave
  <2>2. \A c \in Doc \ {d} : Steady(c)
    BY <2>1, SteadyIf
  <2> QED BY <2>1, <2>2 DEF SameCandidate
<1>3. CASE Rules(d, record, {"QUEUED"}) /\ Tells(<<>>)
  <2>1. /\ \A c \in Doc \ {d} : Steady(c)
        /\ ledger'[d].run = ledger[d].run /\ ledger'[d].verdict \in {ledger[d].verdict, "PENDING", "QUEUED"}
    BY <1>2, <1>3, RulesTypes
  <2>2. Steady(d)
    BY <2>1 DEF Steady, Verdicts
  <2>3. \A c \in Doc : Steady(c)
    BY <2>1, <2>2
  <2>4. \A i \in 1..Len(<<>>) : <<>>[i].kind \notin Stage2Kinds
    BY Brief
  <2> QED BY <1>3, <2>3, <2>4, RuledSilently
<1>4. ASSUME NEW kind \in {"STAGE2_INVALID", "STAGE2_PENDING"}, Rules(d, record, RulesWith(kind)),
             Tells(<<About(kind, Job2(d))>>)
      PROVE  Ruled'
  <2>1. kind \in Stage2Kinds /\ kind # "STAGE2_STARTED"
    BY DEF Stage2Kinds
  <2>2. ledger'[d].run = ledger[d].run /\ \A c \in Doc \ {d} : Steady(c)
    BY <1>2, <1>4, RulesTypes
  <2> QED BY <1>4, <2>1, <2>2, RuledOne
<1> QED BY <1>3, <1>4

\* The hand-over of a PDF keeps the phases right.
LEMMA StoreRuled ==
  ASSUME Sound, Ruled, NEW w \in Worker, Store(w)
  PROVE  Ruled'
<1> DEFINE d == turn[w].job.doc
<1>1. d \in Doc /\ judge' = judge /\ LedgerOK /\ "COMPLETED" \in Statuses
  BY TurnJob DEF Store, UnchangedByWorker, Sound, DashboardTypes, Statuses
<1>2. \E record \in Recorded(d, "COMPLETED") :
        \/ Tells(<<>>) /\ Rules(d, record, {"QUEUED"})
        \/ \E kind \in {"STAGE2_INVALID", "STAGE2_PENDING"} :
             Rules(d, record, RulesWith(kind)) /\ Tells(<<About(kind, Job2(d))>>)
  BY StoreDoes
<1> HIDE DEF d
<1>3. \A record \in Recorded(d, "COMPLETED") :
        /\ record \in Entry /\ SameCandidate(record, ledger[d])
        /\ record.verdict \in {ledger[d].verdict, "PENDING"}
  BY <1>1, RecordedIs
<1> QED BY <1>1, <1>2, <1>3, HandOverRuled

\* What a worker writes at the beginning and at the end of an attempt.
LEMMA WorkerRewrites ==
  ASSUME Sound, NEW w \in Worker, BeginAttempt(w) \/ Fail(w)
  PROVE  \E d \in Doc, record \in Entry :
           /\ ledger' = [ledger EXCEPT ![d] = record]
           /\ record.run = ledger[d].run /\ record.verdict \in {ledger[d].verdict, "PENDING"}
<1> DEFINE d == turn[w].job.doc
<1>1. d \in Doc /\ LedgerOK /\ ledger[d] \in Entry
  BY TurnJob DEF Sound, DashboardTypes, LedgerOK, BeginAttempt, Fail
<1>2. {"OPEN", "PERMANENTLY_FAILED", "FAILED_FOR_ROUND"} \subseteq Statuses
  BY DEF Statuses
<1>3. CASE BeginAttempt(w)
  <2>1. ledger' = [ledger EXCEPT ![d] = Wrote(ledger[d], "OPEN")]
    BY <1>3 DEF BeginAttempt
  <2> HIDE DEF d
  <2>2. Wrote(ledger[d], "OPEN") \in Entry /\ SameCandidate(Wrote(ledger[d], "OPEN"), ledger[d])
        /\ Wrote(ledger[d], "OPEN").verdict = ledger[d].verdict
    BY <1>1, <1>2, WroteIs
  <2> QED BY <1>1, <2>1, <2>2 DEF SameCandidate
<1>4. CASE Fail(w)
  <2>1. PICK status \in {"PERMANENTLY_FAILED", "FAILED_FOR_ROUND"} :
          \E record \in Recorded(d, status) : ledger' = [ledger EXCEPT ![d] = record]
    BY <1>4 DEF Fail
  <2> HIDE DEF d
  <2>2. PICK record \in Recorded(d, status) : ledger' = [ledger EXCEPT ![d] = record]
    BY <2>1
  <2>3. record \in Entry /\ SameCandidate(record, ledger[d])
        /\ record.verdict \in {ledger[d].verdict, "PENDING"}
    BY <1>1, <1>2, <2>1, <2>2, RecordedIs
  <2> QED BY <1>1, <2>2, <2>3 DEF SameCandidate
<1> QED BY <1>3, <1>4

\* Each step of a worker keeps the phases right.
LEMMA WorkerRuled ==
  ASSUME Sound, Ruled, NEW w \in Worker, DownloadStep(w)
  PROVE  Ruled'
<1>1. judge' = judge /\ ledger \in [Doc -> Entry]
  BY DEF DownloadStep, Take, BeginAttempt, Store, Fail, Announce, Land, Return, UnchangedByWorker, Sound, DashboardTypes,
     LedgerOK
<1>2. CASE Store(w)
  BY <1>2, StoreRuled
<1>3. CASE ~Store(w)
  <2>1. \A c \in Doc : Steady(c)
    <3>1. CASE BeginAttempt(w) \/ Fail(w)
      <4>1. \E d \in Doc, record \in Entry :
              /\ ledger' = [ledger EXCEPT ![d] = record]
              /\ record.run = ledger[d].run /\ record.verdict \in {ledger[d].verdict, "PENDING"}
        BY <3>1, WorkerRewrites
      <4>2. \A c \in Doc : /\ ledger'[c].run = ledger[c].run
                          /\ ledger'[c].verdict \in {ledger[c].verdict, "PENDING"}
        BY <1>1, <4>1
      <4> QED BY <1>1, <4>2 DEF Steady, Verdicts
    <3>2. CASE Take(w) \/ Announce(w) \/ Land(w) \/ Return(w)
      <4>1. ledger' = ledger
        BY <3>2 DEF Take, Announce, Land, Return
      <4> QED BY <1>1, <4>1, SteadyIf
    <3> QED BY <1>3, <3>1, <3>2 DEF DownloadStep
  <2>2. CASE Take(w) \/ Return(w)
    <3>1. Tells(<<>>)
      BY <2>2, SilentTells DEF SilentStep
    <3>2. \A i \in 1..Len(<<>>) : <<>>[i].kind \notin Stage2Kinds
      BY Brief
    <3> QED BY <2>1, <3>1, <3>2, RuledSilently
  <2>3. CASE Announce(w)
    <3>1. Tells(<<About("STAGE2_QUEUED", Job2(turn[w].job.doc))>>) /\ turn[w].job.doc \in Doc /\ ledger' = ledger
      BY <2>3, WorkerTells, TurnJob DEF Announce
    <3>2. "STAGE2_QUEUED" \in Stage2Kinds
      BY DEF Stage2Kinds
    <3> QED BY <2>1, <3>1, <3>2, RuledOne
  <2>4. CASE BeginAttempt(w) \/ Fail(w) \/ Land(w)
    <3>1. PICK kind \in {"DOWNLOAD_STARTED", "DOWNLOAD_PERMANENTLY_FAILED", "DOWNLOAD_FAILED_FOR_ROUND",
                         "LOCAL_PDF_REUSED", "DOWNLOAD_COMPLETED"} : Tells(<<About(kind, turn[w].job)>>)
      BY <2>4, WorkerTells
    <3>2. kind \notin Stage2Kinds
      BY DEF Stage2Kinds
    <3> DEFINE e == About(kind, turn[w].job)
    <3>3. \A i \in 1..Len(<<e>>) : <<e>>[i].kind \notin Stage2Kinds
      <4>1. e.kind = kind
        BY AboutKind
      <4> HIDE DEF e
      <4> QED BY <3>2, <4>1, Brief
    <3> QED BY <2>1, <3>1, <3>3, RuledSilently
  <2> QED BY <1>3, <2>2, <2>3, <2>4 DEF DownloadStep
<1> QED BY <1>2, <1>3

\* Each step of a validator keeps the phases right.
LEMMA ValidatorRuled ==
  ASSUME Sound, Ruled, NEW v \in Validator, ValidatorStep(v)
  PROVE  Ruled'
<1>1. ledger \in [Doc -> Entry] /\ judge \in [Validator -> Doc \cup {NoDoc}] /\ NoDoc \notin Doc
      /\ \A d \in Doc : ledger[d] \in Entry
  BY DashboardAssumption DEF Sound, DashboardTypes, LedgerOK, Stage2OK
<1>2. \A d \in Doc : ledger'[d].run = ledger[d].run
  BY ValidatorCourse DEF SameCourse
<1>3. CASE Check(v)
  <2> DEFINE d == Head(stage2Queue)
  <2>1. Tells(<<About("STAGE2_STARTED", Job2(d))>>) /\ d \in Doc
    BY <1>3, CheckTells
  <2>2. /\ ledger' = [ledger EXCEPT ![d] = Ruling(ledger[d], "RUNNING")] /\ judge[v] = NoDoc
        /\ judge' = [judge EXCEPT ![v] = d]
    BY <1>3 DEF Check
  <2> HIDE DEF d
  <2>3. ledger'[d].verdict \notin Verdicts
    <3>1. "RUNNING" \in Rulings /\ "RUNNING" \notin Verdicts
      BY DEF Rulings, Verdicts
    <3>2. Ruling(ledger[d], "RUNNING").verdict = "RUNNING"
      BY <1>1, <2>1, <3>1, RulingIs
    <3> QED BY <1>1, <2>1, <2>2, <3>1, <3>2
  <2>4. \A c \in Doc \ {d} : Steady(c)
    <3> SUFFICES ASSUME NEW c \in Doc \ {d} PROVE Steady(c)
      OBVIOUS
    <3>1. ledger'[c] = ledger[c]
      BY <1>1, <2>2
    <3>2. \A u \in Validator : judge[u] = c => judge'[u] = c
      BY <1>1, <2>2
    <3> QED BY <3>1, <3>2, SteadyIf
  <2>5. "STAGE2_STARTED" \in Stage2Kinds
    BY DEF Stage2Kinds
  <2> QED BY <1>2, <2>1, <2>3, <2>4, <2>5, RuledOne
<1>4. CASE LinkCopy(v) \/ Judge(v) \/ Raise(v)
  <2> DEFINE d == judge[v]
  <2>1. d \in Doc /\ judge' = [judge EXCEPT ![v] = NoDoc]
    BY <1>1, <1>4 DEF LinkCopy, Judge, Raise, Released
  <2>2. \A c \in Doc \ {d}, u \in Validator : judge[u] = c => judge'[u] = c
    BY <1>1, <2>1
  <2>3. CASE LinkCopy(v)
    <3>1. PICK verdict \in {"APPROVED", "REJECTED", "DUPLICATE_PENDING"}, c \in Doc :
            /\ Tells(<<About("DUPLICATE_DETECTED", Job2(d)), About(KindOf(verdict), Job2(d))>>)
            /\ ledger' = [ledger EXCEPT ![d] = [Ruling(@, verdict) EXCEPT !.hashed = TRUE, !.copyOf = c]]
      BY <2>3, LinkCopyTells
    <3> DEFINE first == About("DUPLICATE_DETECTED", Job2(d))
               second == About(KindOf(verdict), Job2(d))
               es == <<first, second>>
    <3>2. first.kind \notin Stage2Kinds /\ second.kind = KindOf(verdict)
      BY AboutKind DEF Stage2Kinds
    <3>3. KindOf(verdict) \in Stage2Kinds /\ KindOf(verdict) # "STAGE2_STARTED"
      BY KindOfType
    <3>4. AllAbout(es, KindOf(verdict), {d})
      <4>1. Len(es) = 2 /\ es[1] = first /\ es[2] = second
        OBVIOUS
      <4>2. \A i \in 1..Len(es) : i = 1 \/ i = 2
        BY <4>1
      <4>3. 2 \in 1..Len(es)
        BY <4>1
      <4> HIDE DEF es, first
      <4> QED BY <3>2, <4>1, <4>2, <4>3 DEF AllAbout
    <3>5. Tells(es)
      BY <3>1
    <3>6. \A c1 \in Doc \ {d} : Steady(c1)
      <4> HIDE DEF d
      <4>1. \A c1 \in Doc \ {d} : ledger'[c1] = ledger[c1]
        BY <1>1, <3>1
      <4> QED BY <2>2, <4>1, SteadyIf
    <3> HIDE DEF es, d
    <3> QED BY <1>2, <2>1, <3>3, <3>4, <3>5, <3>6, RuledAfter
  <2>4. CASE Judge(v)
    <3>0. PICK verdict \in Verdicts \union {"PENDING"} : \E es : Judged(d, verdict, es)
      BY <2>4, JudgeTells
    <3>1. PICK es : Judged(d, verdict, es)
      BY <3>0
    <3> DEFINE T == Copies(d, verdict) \cup {d}
    <3>2. T \in SUBSET Doc
      BY <2>1 DEF Copies
    <3>3. KindOf(verdict) \in Stage2Kinds /\ KindOf(verdict) # "STAGE2_STARTED"
      BY KindOfType
    <3>4. AllAbout(es, KindOf(verdict), T)
      BY <3>1 DEF AllAbout, Judged
    <3>5. \A c \in Doc \ T : Steady(c)
      <4>1. \A c \in Doc \ T : ledger'[c] = ledger[c] /\ c # d
        BY <3>1 DEF Judged
      <4> HIDE DEF d, T
      <4> QED BY <2>2, <4>1, SteadyIf
    <3>6. Tells(es)
      BY <3>1 DEF Judged
    <3> HIDE DEF T
    <3> QED BY <1>2, <3>2, <3>3, <3>4, <3>5, <3>6, RuledAfter
  <2>5. CASE Raise(v)
    <3>1. Tells(<<>>)
      BY <2>5, SilentTells DEF SilentStep
    <3>2. ledger' = [ledger EXCEPT ![d] = Ruling(ledger[d], "PENDING")]
      BY <2>5 DEF Raise
    <3> HIDE DEF d
    <3>3. \A c \in Doc \ {d} : ledger'[c] = ledger[c]
      BY <1>1, <3>2
    <3>4. ledger'[d].verdict \notin Verdicts
      <4>1. "PENDING" \in Rulings /\ "PENDING" \notin Verdicts
        BY DEF Rulings, Verdicts
      <4>2. Ruling(ledger[d], "PENDING").verdict = "PENDING"
        BY <1>1, <2>1, <4>1, RulingIs
      <4> QED BY <1>1, <2>1, <3>2, <4>1, <4>2
    <3>5. \A c \in Doc : Steady(c)
      <4>1. Steady(d)
        BY <1>2, <2>1, <3>4 DEF Steady
      <4>2. \A c \in Doc \ {d} : Steady(c)
        BY <2>2, <3>3, SteadyIf
      <4> QED BY <4>1, <4>2
    <3>6. \A i \in 1..Len(<<>>) : <<>>[i].kind \notin Stage2Kinds
      BY Brief
    <3> QED BY <3>1, <3>5, <3>6, RuledSilently
  <2> QED BY <1>4, <2>3, <2>4, <2>5
<1> QED BY <1>3, <1>4 DEF ValidatorStep

\* The main thread leaves the verdicts alone, but for the restored validations.
LEMMA MainSteady ==
  ASSUME Sound, MainStep, ~Restore
  PROVE  judge' = judge /\ (~Start => \A c \in Doc : Steady(c))
<1>1. LedgerOK /\ ItemsOK /\ \A j \in Job : j.doc \in Doc
  BY DEF Sound, DashboardTypes, Job
<1>2. judge' = judge
  <2>1. ASSUME Start \/ AnnounceRestored \/ DrainPool \/ DrainBus \/ Discover \/ LastPage \/ Evaluated
               \/ NotEvaluated \/ Admit
        PROVE  judge' = judge
    BY <2>1 DEF Start, AnnounceRestored, DrainPool, DrainBus, Discover, LastPage, Evaluated,
                NotEvaluated, Admit, UnchangedByMain
  <2>2. ASSUME PageDone \/ Enqueue \/ Emit \/ DrainedOut \/ Round \/ Retry \/ RoundAdmitted \/ Finish
               \/ Cancel \/ Closed
        PROVE  judge' = judge
    BY <2>2 DEF PageDone, Enqueue, Emit, DrainedOut, Round, Retry, RoundAdmitted, Finish, Cancel, Closed,
                UnchangedByMain
  <2> QED BY <2>1, <2>2 DEF MainStep
<1>3. ASSUME ~Start, NEW c \in Doc
      PROVE  ledger'[c].verdict = ledger[c].verdict /\ ledger'[c].run \in {ledger[c].run, run}
  <2>1. CASE Evaluated
    <3>1. PICK approved :
            ledger' = [d \in Doc |-> IF d \notin items \ approved THEN ledger[d]
                                     ELSE Wrote(ledger[d], "STAGE1_REJECTED")]
      BY <2>1 DEF Evaluated
    <3>2. ledger'[c] = ledger[c] \/ ledger'[c] = Wrote(ledger[c], "STAGE1_REJECTED")
      BY <1>3, <3>1
    <3>3. ledger[c] \in Entry
      BY <1>1, <1>3 DEF LedgerOK
    <3> QED BY <3>2, <3>3 DEF Wrote, Entry
  <2>2. CASE Admit
    <3>1. PICK d \in items, local \in BOOLEAN :
       ledger' = [ledger EXCEPT ![d] = [Wrote(@, "OPEN") EXCEPT !.attempt = 1, !.run = run, !.local = local]]
      BY <2>2 DEF Admit
    <3> QED BY <1>1, <1>3, <3>1 DEF LedgerOK, Entry, Wrote
  <2>3. CASE Retry
    <3>1. PICK job \in items :
        ledger' = [ledger EXCEPT ![job.doc] = [Wrote(@, "OPEN") EXCEPT !.attempt = job.attempt]]
      BY <2>3 DEF Retry
    <3> QED BY <1>1, <1>3, <3>1 DEF LedgerOK, Entry, Wrote
  <2>4. CASE ~(Evaluated \/ Admit \/ Retry)
    <3>1. ASSUME AnnounceRestored \/ DrainPool \/ DrainBus \/ Discover \/ LastPage \/ NotEvaluated \/ PageDone
                 \/ Enqueue \/ Emit
          PROVE  ledger' = ledger
      BY <3>1 DEF AnnounceRestored, DrainPool, DrainBus, Discover, LastPage, NotEvaluated, PageDone, Enqueue, Emit
    <3>2. ASSUME DrainedOut \/ Round \/ RoundAdmitted \/ Finish \/ Cancel \/ Closed
          PROVE  ledger' = ledger
      BY <3>2 DEF DrainedOut, Round, RoundAdmitted, Finish, Cancel, Closed
    <3> QED BY <1>3, <2>4, <3>1, <3>2 DEF MainStep
  <2> QED BY <2>1, <2>2, <2>3, <2>4
<1> QED BY <1>2, <1>3, SteadyIf

\* A restored validation keeps the phases right.
LEMMA RestoreRuled ==
  ASSUME Sound, Ruled, Restore
  PROVE  Ruled'
<1>1. judge' = judge /\ ledger \in [Doc -> Entry]
  BY DEF Restore, UnchangedByMain, Sound, DashboardTypes, LedgerOK
<1>2. \A i \in 1..Len(<<>>) : <<>>[i].kind \notin Stage2Kinds
  BY Brief
<1>3. CASE Tells(<<>>) /\ ledger' = ledger
  BY <1>1, <1>2, <1>3, RuledSilently, SteadyIf
<1>4. ASSUME NEW d \in Doc,
             \/ Rules(d, ledger[d], {"QUEUED"}) /\ Tells(<<>>)
             \/ \E kind \in {"STAGE2_INVALID", "STAGE2_PENDING"} :
                  Rules(d, ledger[d], RulesWith(kind)) /\ Tells(<<About(kind, Job2(d))>>)
      PROVE  Ruled'
  <2>1. ledger[d] \in Entry /\ SameCandidate(ledger[d], ledger[d])
    BY <1>1, <1>4 DEF SameCandidate
  <2> QED BY <1>1, <1>4, <2>1, HandOverRuled
<1> QED BY <1>3, <1>4, RestoreDoes

\* A new run knows nothing of the events of others.
LEMMA StartNow ==
  ASSUME Sound, Start
  PROVE  Now' = Fresh(Cardinality(Stored)) /\ metrics' = Now'
<1>1. Heard /\ run \in Nat /\ run' = run + 1 /\ bus' = bus /\ metrics' = Fresh(Cardinality(Stored))
      /\ metrics' \in Metrics
  BY SoundHeard, StartDoes
<1>2. \A i \in 1..Len(bus) : ~Own(bus[i], run')
  BY <1>1, DashboardAssumption DEF Heard, Own, Message
<1>3. Metered(metrics', bus, run') = metrics'
  BY <1>1, <1>2, MeteredOther DEF Heard
<1> QED BY <1>1, <1>3 DEF Now

\* A new run shows no document in validation.
LEMMA FreshSized ==
  ASSUME NEW n
  PROVE  Sized(Fresh(n)) /\ \A d \in Doc : Fresh(n).inflight[d] = "none"
<1>1. \A d \in Doc : Fresh(n).inflight[d] = "none"
  BY DEF Fresh
<1>2. ASSUME NEW k \in Phases PROVE Fresh(n).stage2[k] = Cardinality({d \in Doc : Fresh(n).inflight[d] = k})
  <2>1. {d \in Doc : Fresh(n).inflight[d] = k} = {}
    BY <1>1 DEF Phases
  <2>2. Fresh(n).stage2[k] = 0
    BY DEF Fresh
  <2> QED BY <2>1, <2>2, FS_EmptySet
<1> QED BY <1>1, <1>2 DEF Sized

\* Each step of the main thread keeps the phases right.
LEMMA MainRuled ==
  ASSUME Placed, Ruled, MainStep
  PROVE  Ruled'
<1>1. Sound /\ ItemsOK
  BY PlacedSound DEF Sound, DashboardTypes
<1>2. CASE Start
  <2>1. \A d \in Doc : Now'.inflight[d] = "none"
    BY <1>1, <1>2, StartNow, FreshSized
  <2> QED BY <2>1 DEF Ruled
<1>3. CASE Restore
  BY <1>1, <1>3, RestoreRuled
<1>4. CASE AnnounceRestored
  <2>1. Tells(<<About("STAGE2_QUEUED", Job2(item))>>) /\ item \in Doc /\ ledger' = ledger /\ judge' = judge
    BY <1>1, <1>4, AnnounceRestoredTells DEF AnnounceRestored, UnchangedByMain
  <2>2. "STAGE2_QUEUED" \in Stage2Kinds
    BY DEF Stage2Kinds
  <2>3. \A c \in Doc : Steady(c)
    BY <2>1, SteadyIf
  <2> HIDE DEF Steady
  <2> QED BY <1>1, <2>1, <2>2, <2>3, RuledOne
<1>5. CASE ~Start /\ ~Restore /\ ~AnnounceRestored
  <2>1. \A c \in Doc : Steady(c)
    BY <1>1, <1>5, MainSteady
  <2>2. ASSUME NEW es, Tells(es), \A i \in 1..Len(es) : es[i].kind \notin Stage2Kinds PROVE Ruled'
    BY <1>1, <2>1, <2>2, RuledSilently
  <2>3. ASSUME NEW e, e.kind \notin Stage2Kinds, Tells(<<e>>) PROVE Ruled'
    <3>1. \A i \in 1..Len(<<e>>) : <<e>>[i].kind \notin Stage2Kinds
      BY <2>3, Brief
    <3> QED BY <2>2, <2>3, <3>1
  <2>4. ASSUME NEW e, NEW f, e.kind \notin Stage2Kinds, f.kind \notin Stage2Kinds, Tells(<<e, f>>) PROVE Ruled'
    <3>1. \A i \in 1..Len(<<e, f>>) : <<e, f>>[i].kind \notin Stage2Kinds
      BY <2>4
    <3> QED BY <2>2, <2>4, <3>1
  <2>5. \A kind \in Kinds \ Stage2Kinds : \A s : Batch(kind, s).kind \notin Stage2Kinds
    BY DEF Batch, Event
  <2>6. /\ "DOCUMENT_DISCOVERED" \in Kinds \ Stage2Kinds /\ "STAGE1_STARTED" \in Kinds \ Stage2Kinds
        /\ "STAGE1_APPROVED" \in Kinds \ Stage2Kinds /\ "STAGE1_REJECTED" \in Kinds \ Stage2Kinds
        /\ "STAGE1_FAILED" \in Kinds \ Stage2Kinds
        /\ "RECOVERY_QUEUED" \notin Stage2Kinds /\ "DOWNLOAD_QUEUED" \notin Stage2Kinds
    BY DEF Kinds, Stage2Kinds, Stage1Kinds
  <2>7. CASE Emit
    <3>1. PICK kind \in {"RECOVERY_QUEUED", "DOWNLOAD_QUEUED"} : Tells(<<About(kind, item)>>)
      BY <1>1, <2>7, EmitTells
    <3> QED BY <2>3, <2>6, <3>1, AboutKind
  <2>8. CASE Discover
    BY <1>1, <2>4, <2>5, <2>6, <2>8, DiscoverTells
  <2>9. CASE Evaluated
    BY <1>1, <2>4, <2>5, <2>6, <2>9, EvaluatedTells
  <2>10. CASE NotEvaluated
    BY <1>1, <2>3, <2>5, <2>6, <2>10, NotEvaluatedTells
  <2>11. CASE SilentStep \/ DrainBus \/ PageDone \/ RoundAdmitted \/ Finish
    <3>1. Tells(<<>>)
      BY <1>1, <2>11, SilentTells, RefreshOnlyTells
    <3> QED BY <2>2, <3>1, Brief
  <2> QED BY <1>5, <2>7, <2>8, <2>9, <2>10, <2>11 DEF MainStep, SilentStep
<1> QED BY <1>2, <1>3, <1>4, <1>5

\* At first no document is in validation.
LEMMA Stage2Start ==
  ASSUME DashboardInit
  PROVE  Stage2Inv
<1>1. bus = <<>> /\ metrics = Fresh(0)
  BY DEF DashboardInit
<1>2. Now = metrics
  BY <1>1, FreshType, MeteredNothing DEF Now
<1> QED BY <1>1, <1>2, FreshSized DEF Stage2Inv, Ruled

\* Every step keeps the phases right.
LEMMA Stage2Step ==
  ASSUME Placed, Stage2Inv, [DashboardNext]_dashboardVars
  PROVE  Stage2Inv'
<1>1. Sound /\ Sized(metrics) /\ Sized(Now) /\ Ruled
  BY PlacedSound DEF Stage2Inv
<1>2. CASE UNCHANGED dashboardVars
  <2>1. UNCHANGED <<bus, metrics, run, ledger, judge>>
    BY <1>2 DEF dashboardVars, busVars, viewVars, mainVars, stage2Vars
  <2>2. Now' = Now
    BY <2>1 DEF Now
  <2> QED BY <1>1, <2>1, <2>2 DEF Stage2Inv, Sized, Ruled
<1>3. ASSUME NEW es, Tells(es), Ruled' PROVE Stage2Inv'
  BY <1>1, <1>3, ToldSized DEF Stage2Inv
<1>4. ASSUME NEW w \in Worker, DownloadStep(w) PROVE Stage2Inv'
  BY <1>1, <1>3, <1>4, WorkerRuled, WorkerSomethingTold
<1>5. ASSUME NEW v \in Validator, ValidatorStep(v) PROVE Stage2Inv'
  BY <1>1, <1>3, <1>5, ValidatorRuled, ValidatorSomethingTold
<1>6. CASE MainStep
  <2>1. Ruled'
    BY <1>1, <1>6, MainRuled
  <2>2. CASE Start
    <3>1. Sized(Now') /\ metrics' = Now'
      BY <1>1, <2>2, StartNow, FreshSized
    <3> QED BY <2>1, <3>1 DEF Stage2Inv, Sized
  <2>3. CASE ~Start
    BY <1>1, <1>3, <1>6, <2>1, <2>3, MainSomethingTold
  <2> QED BY <2>2, <2>3
<1> QED BY <1>2, <1>4, <1>5, <1>6 DEF DashboardNext

\* The phases are what the property asks for.
LEMMA Stage2Agrees ==
  ASSUME Placed, Stage2Inv
  PROVE  Stage2RowsAgree
<1>1. Sound /\ Heard
  BY PlacedSound
<1>2. ASSUME NEW d \in Doc, \A i \in DOMAIN bus : Own(bus[i], run) => bus[i].doc # d
      PROVE  Now.inflight[d] = metrics.inflight[d]
  <2> DEFINE S == {x \in Metrics : x.inflight[d] = metrics.inflight[d]}
  <2>1. bus \in Seq(Message) /\ metrics \in Metrics /\ <<>> \in Seq(Message) /\ DOMAIN bus = 1..Len(bus)
    BY <1>1, NothingYet DEF Heard
  <2>2. Metered(metrics, <<>>, run) \in S
    BY <2>1, MeteredNothing
  <2>3. \A i \in 1..Len(bus) : bus[i] \in Message
    BY <2>1
  <2>4. \A i \in 1..Len(bus), x \in Metrics : x \in S /\ Own(bus[i], run) => Consumed(x, bus[i]) \in S
    BY <1>2, <2>1, <2>3, ConsumedPhase, ConsumedType
  <2>5. Metered(metrics, <<>> \o bus, run) \in S
    <3> HIDE DEF S
    <3> QED BY <2>1, <2>2, <2>4, MeteredKeeps
  <2>6. <<>> \o bus = bus
    BY <2>1
  <2> QED BY <2>5, <2>6 DEF Now
<1> QED BY <1>2 DEF Stage2RowsAgree, Stage2Inv, Ruled, Sized

-----------------------------------------------------------------------------
(* The counters and the attempts they count                                *)

Apart(es, kinds) == \A i \in 1..Len(es) : es[i].kind \notin kinds

\* Events of other kinds leave a counter as it is.
LEMMA ToldApart ==
  ASSUME Sound, NEW es, Tells(es)
  PROVE  /\ Apart(es, DownloadKinds) => SameDownloads(Now, Now')
         /\ Apart(es, Stage1Kinds) => SameStage1(Now, Now')
<1>1. Heard /\ Now \in Metrics /\ es \in Seq(Message)
  BY SoundHeard, NowType DEF Tells
<1>2. \A i \in 1..Len(es) : es[i] \in Message
  BY <1>1
<1> DEFINE D == {x \in Metrics : SameDownloads(Now, x)}
           T == {x \in Metrics : SameStage1(Now, x)}
<1>3. Now \in D /\ Now \in T
  BY <1>1 DEF SameDownloads, SameStage1
<1>4. ASSUME Apart(es, DownloadKinds) PROVE SameDownloads(Now, Now')
  <2>1. ASSUME NEW i \in 1..Len(es), NEW x \in Metrics, x \in D PROVE Consumed(x, es[i]) \in D
    <3>1. SameDownloads(x, Consumed(x, es[i])) /\ Consumed(x, es[i]) \in Metrics
      BY <1>2, <1>4, <2>1, ConsumedElsewhere, ConsumedType DEF Apart
    <3> QED BY <2>1, <3>1 DEF SameDownloads
  <2>2. Now' \in D
    <3> HIDE DEF D
    <3> QED BY <1>1, <1>3, <2>1, ToldKeeps
  <2> QED BY <2>2
<1>5. ASSUME Apart(es, Stage1Kinds) PROVE SameStage1(Now, Now')
  <2>1. ASSUME NEW i \in 1..Len(es), NEW x \in Metrics, x \in T PROVE Consumed(x, es[i]) \in T
    <3>1. SameStage1(x, Consumed(x, es[i])) /\ Consumed(x, es[i]) \in Metrics
      BY <1>2, <1>5, <2>1, ConsumedElsewhere, ConsumedType DEF Apart
    <3> QED BY <2>1, <3>1 DEF SameStage1
  <2>2. Now' \in T
    <3> HIDE DEF T
    <3> QED BY <1>1, <1>3, <2>1, ToldKeeps
  <2> QED BY <2>2
<1> QED BY <1>4, <1>5

\* Short lists without an event of some kinds.
LEMMA ApartFrom ==
  ASSUME NEW kinds
  PROVE  /\ Apart(<<>>, kinds)
         /\ \A e : e.kind \notin kinds => Apart(<<e>>, kinds)
         /\ \A e, f : e.kind \notin kinds /\ f.kind \notin kinds => Apart(<<e, f>>, kinds)
<1>1. Apart(<<>>, kinds)
  BY Brief DEF Apart
<1>2. ASSUME NEW e, e.kind \notin kinds PROVE Apart(<<e>>, kinds)
  BY <1>2, Brief DEF Apart
<1>3. ASSUME NEW e, NEW f, e.kind \notin kinds, f.kind \notin kinds PROVE Apart(<<e, f>>, kinds)
  BY <1>3 DEF Apart
<1> QED BY <1>1, <1>2, <1>3

\* The kinds of the events that steps publish.
Uncounted == {"STAGE2_QUEUED", "STAGE2_STARTED", "STAGE2_PENDING", "STAGE2_DUPLICATE_PENDING",
              "STAGE2_APPROVED", "STAGE2_REJECTED", "STAGE2_INVALID", "DUPLICATE_DETECTED",
              "RECOVERY_QUEUED", "DOWNLOAD_QUEUED", "DOCUMENT_DISCOVERED", "LOCAL_PDF_REUSED"}
\* The kinds that neither the downloads nor Stage 1 count.
LEMMA UncountedApart ==
  /\ \A kind \in Uncounted : kind \notin DownloadKinds /\ kind \notin Stage1Kinds
  /\ \A kind \in DownloadKinds : kind \notin Stage1Kinds
  /\ \A kind \in Stage1Kinds : kind \notin DownloadKinds
  /\ Stage2Kinds \subseteq Uncounted
BY DEF Uncounted, DownloadKinds, Stage1Kinds, Stage2Kinds

\* A step that counts nothing.
Silent(es) == Tells(es) /\ Apart(es, DownloadKinds) /\ Apart(es, Stage1Kinds)

\* Lists that the downloads and Stage 1 do not count.
LEMMA SilentOnes ==
  /\ Tells(<<>>) => Silent(<<>>)
  /\ \A kind \in Uncounted : \A job : Tells(<<About(kind, job)>>) => Silent(<<About(kind, job)>>)
<1>1. Tells(<<>>) => Silent(<<>>)
  BY ApartFrom DEF Silent
<1>2. ASSUME NEW kind \in Uncounted, NEW job, Tells(<<About(kind, job)>>)
      PROVE  Silent(<<About(kind, job)>>)
  <2> DEFINE e == About(kind, job)
  <2>1. e.kind = kind /\ Tells(<<e>>)
    BY <1>2, AboutKind
  <2> HIDE DEF e
  <2>2. Silent(<<e>>)
    BY <1>2, <2>1, UncountedApart, ApartFrom DEF Silent
  <2> QED BY <2>2 DEF e
<1> QED BY <1>1, <1>2

\* The steps of a worker outside an attempt, and its hand-over to Stage 2.
LEMMA WorkerSilent ==
  ASSUME Sound, NEW w \in Worker, Take(w) \/ Store(w) \/ Announce(w) \/ Return(w)
  PROVE  \E es : Silent(es)
<1>1. "STAGE2_QUEUED" \in Uncounted /\ {"STAGE2_INVALID", "STAGE2_PENDING"} \subseteq Uncounted
  BY DEF Uncounted
<1>2. CASE Take(w) \/ Return(w)
  BY <1>2, SilentTells, SilentOnes DEF SilentStep
<1>3. CASE Store(w)
  <2>1. Tells(<<>>) \/ \E kind \in {"STAGE2_INVALID", "STAGE2_PENDING"} :
                          Tells(<<About(kind, Job2(turn[w].job.doc))>>)
    BY <1>3, StoreDoes
  <2> QED BY <1>1, <2>1, SilentOnes
<1>4. CASE Announce(w)
  BY <1>1, <1>4, WorkerTells, SilentOnes
<1> QED BY <1>2, <1>3, <1>4

\* No step of a validator is counted by the downloads or by Stage 1.
LEMMA ValidatorSilent ==
  ASSUME Sound, NEW v \in Validator, ValidatorStep(v)
  PROVE  \E es : Silent(es)
<1>1. "STAGE2_STARTED" \in Uncounted /\ "DUPLICATE_DETECTED" \in Uncounted
      /\ \A verdict : KindOf(verdict) \in Uncounted
  BY KindOfType, UncountedApart DEF Uncounted
<1>2. CASE Check(v)
  BY <1>1, <1>2, CheckTells, SilentOnes
<1>3. CASE LinkCopy(v)
  <2>1. PICK verdict : Tells(<<About("DUPLICATE_DETECTED", Job2(judge[v])), About(KindOf(verdict), Job2(judge[v]))>>)
    BY <1>3, LinkCopyTells
  <2> DEFINE e == About("DUPLICATE_DETECTED", Job2(judge[v]))
             f == About(KindOf(verdict), Job2(judge[v]))
  <2>2. e.kind = "DUPLICATE_DETECTED" /\ f.kind = KindOf(verdict) /\ Tells(<<e, f>>)
    BY <2>1, AboutKind
  <2> HIDE DEF e, f
  <2> QED BY <1>1, <2>2, UncountedApart, ApartFrom DEF Silent
<1>4. CASE Judge(v)
  <2>1. PICK verdict, es : Judged(judge[v], verdict, es)
    BY <1>4, JudgeTells
  <2>2. ASSUME NEW i \in 1..Len(es) PROVE es[i].kind = KindOf(verdict)
    <3>1. PICK c \in Copies(judge[v], verdict) \cup {judge[v]} : es[i] = About(KindOf(verdict), Job2(c))
      BY <2>1 DEF Judged
    <3>2. About(KindOf(verdict), Job2(c)).kind = KindOf(verdict)
      BY AboutKind
    <3> QED BY <3>1, <3>2
  <2>3. Apart(es, DownloadKinds) /\ Apart(es, Stage1Kinds)
    BY <1>1, <2>2, UncountedApart DEF Apart
  <2>4. Tells(es)
    BY <2>1 DEF Judged
  <2> QED BY <2>3, <2>4 DEF Silent
<1>5. CASE Raise(v)
  BY <1>5, SilentTells, SilentOnes DEF SilentStep
<1> QED BY <1>2, <1>3, <1>4, <1>5 DEF ValidatorStep

Batched == Discover \/ Evaluated \/ NotEvaluated

\* Of the main thread only a new run and the evaluator are counted.
LEMMA MainSilent ==
  ASSUME Sound, MainStep, ~Start, ~Batched
  PROVE  \E es : Silent(es)
<1>1. {"STAGE2_QUEUED", "STAGE2_INVALID", "STAGE2_PENDING", "RECOVERY_QUEUED", "DOWNLOAD_QUEUED"} \subseteq Uncounted
  BY DEF Uncounted
<1>2. CASE Restore
  <2>1. Tells(<<>>) \/ \E kind \in {"STAGE2_INVALID", "STAGE2_PENDING"} : \E d : Tells(<<About(kind, Job2(d))>>)
    BY <1>2, RestoreDoes
  <2> QED BY <1>1, <2>1, SilentOnes
<1>3. CASE AnnounceRestored
  BY <1>1, <1>3, AnnounceRestoredTells, SilentOnes
<1>4. CASE Emit
  BY <1>1, <1>4, EmitTells, SilentOnes
<1>5. CASE SilentStep \/ DrainBus \/ PageDone \/ RoundAdmitted \/ Finish
  BY <1>5, SilentTells, RefreshOnlyTells, SilentOnes
<1> QED BY <1>2, <1>3, <1>4, <1>5 DEF MainStep, Batched, SilentStep

\* The evaluator's batches do not touch the counters of the downloads.
LEMMA BatchedApart ==
  ASSUME Sound, Batched
  PROVE  SameDownloads(Now, Now')
<1>1. \A kind \in {"DOCUMENT_DISCOVERED", "STAGE1_STARTED", "STAGE1_APPROVED", "STAGE1_REJECTED", "STAGE1_FAILED"} : \A s :
        Batch(kind, s).kind \notin DownloadKinds
  BY DEF Batch, Event, DownloadKinds
<1>2. \A e : Tells(<<e>>) /\ e.kind \notin DownloadKinds => SameDownloads(Now, Now')
  BY ToldApart, ApartFrom
<1>3. \A e, f : Tells(<<e, f>>) /\ e.kind \notin DownloadKinds /\ f.kind \notin DownloadKinds
                  => SameDownloads(Now, Now')
  BY ToldApart, ApartFrom
<1>4. CASE Discover
  BY <1>1, <1>3, <1>4, DiscoverTells
<1>5. CASE Evaluated
  BY <1>1, <1>3, <1>5, EvaluatedTells
<1>6. CASE NotEvaluated
  BY <1>1, <1>2, <1>6, NotEvaluatedTells
<1> QED BY <1>4, <1>5, <1>6 DEF Batched

\* The counters of the downloads are the sizes of three sets.
Tallied ==
  /\ Now.downloading = Cardinality(Downloading)
  /\ Now.stored = Cardinality(Credited)
  /\ Now.permanent = Cardinality(GivenUp)

Evaluating ==
  pc \notin {"closing", "over"} =>
    Now.stage1Pending = IF pc = "stage1" THEN Cardinality(items) ELSE 0

\* The counters of the downloads and the one of Stage 1.
LEMMA CountsAre ==
  Counts <=> Tallied /\ Evaluating
BY DEF Counts, Tallied, Evaluating

\* Sets of documents and workers count by one element at a time.
LEMMA OneMore ==
  ASSUME NEW S, IsFiniteSet(S), NEW T, NEW x
  PROVE  /\ x \notin S /\ T = S \cup {x} => Cardinality(T) = Cardinality(S) + 1
         /\ x \in S /\ T = S \ {x} => Cardinality(T) = Minus(Cardinality(S), 1)
<1>1. Cardinality(S) \in Nat
  BY FS_CardinalityType
<1>2. ASSUME x \notin S, T = S \cup {x} PROVE Cardinality(T) = Cardinality(S) + 1
  BY <1>2, FS_AddElement
<1>3. ASSUME x \in S, T = S \ {x} PROVE Cardinality(T) = Minus(Cardinality(S), 1)
  <2>1. Cardinality(T) = Cardinality(S) - 1
    BY <1>3, FS_RemoveElement
  <2>2. Cardinality(S) # 0
    BY <1>3, FS_EmptySet
  <2> QED BY <1>1, <2>1, <2>2 DEF Minus
<1> QED BY <1>2, <1>3

\* What the counters count is finite.
LEMMA CountedFinite ==
  /\ IsFiniteSet(Downloading) /\ IsFiniteSet(Credited) /\ IsFiniteSet(GivenUp)
<1>1. Downloading \in SUBSET Worker /\ Credited \in SUBSET Doc /\ GivenUp \in SUBSET Doc
  BY DEF Downloading, Credited, GivenUp
<1> QED BY <1>1, WorkersFinite, DocsFinite

\* A silent step that leaves the sets alone.
LEMMA TalliedKept ==
  ASSUME Tallied, SameDownloads(Now, Now'), Downloading' = Downloading, Credited' = Credited, GivenUp' = GivenUp
  PROVE  Tallied'
BY DEF Tallied, SameDownloads

Ended == {"COMPLETED", "PERMANENTLY_FAILED"}

\* Steps that move no attempt and end none.
LEMMA SetsKept ==
  ASSUME run' = run, turn' = turn,
         \A d \in Doc : SameCourse(d) \/ (ledger[d].told \notin Ended /\ ledger'[d].told \notin Ended),
         \A w \in Active : SameCourse(turn[w].job.doc)
  PROVE  Downloading' = Downloading /\ Credited' = Credited /\ GivenUp' = GivenUp
<1>1. Downloading' = Downloading
  <2>1. \A w \in Worker : turn[w].step # "idle" => ledger'[turn[w].job.doc].local = ledger[turn[w].job.doc].local
    BY DEF Active, SameCourse
  <2> QED BY <2>1 DEF Downloading
<1>2. ASSUME NEW d \in Doc
      PROVE  /\ ledger'[d].told \in Ended <=> ledger[d].told \in Ended
             /\ ledger[d].told \in Ended => ledger'[d].told = ledger[d].told
             /\ ledger[d].told \in Ended => (Own2(d)' <=> Own2(d))
  BY <1>2 DEF SameCourse, Own2
<1>3. ASSUME NEW d \in Doc, NEW s \in Ended
      PROVE  (ledger'[d].told = s /\ Own2(d)') <=> (ledger[d].told = s /\ Own2(d))
  BY <1>2, <1>3
<1>4. Credited' = Credited
  BY <1>3 DEF Credited, Ended
<1>5. GivenUp' = GivenUp
  BY <1>3 DEF GivenUp, Ended
<1> QED BY <1>1, <1>4, <1>5

\* Taking a job and giving one back are outside the attempt.
LEMMA TakeReturnSets ==
  ASSUME Placed, NEW w \in Worker, Take(w) \/ Return(w)
  PROVE  Downloading' = Downloading /\ Credited' = Credited /\ GivenUp' = GivenUp
<1>1. ledger' = ledger /\ run' = run /\ turn \in [Worker -> Turn]
  BY DEF Take, Return, UnchangedByWorker, mainVars, Placed, DashboardTypes, PoolOK
<1>2. turn[w].step \in {"idle", "ended"} /\ turn'[w].step \in {"taken", "idle"}
      /\ \A v \in Worker \ {w} : turn'[v] = turn[v]
  BY <1>1 DEF Take, Return, Resting
<1>3. \A v \in Worker : turn'[v].step \in {"working", "announce", "landed"}
                          <=> turn[v].step \in {"working", "announce", "landed"}
  BY <1>2
<1>4. \A v \in Worker : turn[v].step \in {"working", "announce", "landed"} => turn'[v] = turn[v]
  BY <1>2
<1>5. Downloading' = Downloading
  BY <1>1, <1>3, <1>4 DEF Downloading
<1>6. Credited' = Credited
  <2>1. \A d \in Doc : (\A v \in Worker : turn'[v].step \in {"announce", "landed"} => turn'[v].job.doc # d)
                         <=> \A v \in Worker : turn[v].step \in {"announce", "landed"} => turn[v].job.doc # d
    BY <1>2, <1>3, <1>4
  <2> QED BY <1>1, <2>1 DEF Credited, Own2
<1>7. GivenUp' = GivenUp
  BY <1>1 DEF GivenUp, Own2
<1> QED BY <1>5, <1>6, <1>7

Work(w) == BeginAttempt(w) \/ Store(w) \/ Fail(w) \/ Announce(w) \/ Land(w)

Doing == {"working", "announce", "landed"}
Landing == {"announce", "landed"}

\* A step of an attempt moves one worker and one document.
LEMMA WorkMoves ==
  ASSUME Placed, NEW w \in Worker, Work(w), NEW d, d = turn[w].job.doc
  PROVE  /\ run' = run /\ d \in Doc /\ turn[w].step # "idle" /\ turn'[w].step # "idle"
         /\ turn[w].job.run = ledger[d].run /\ turn'[w].job = turn[w].job
         /\ \A v \in Worker \ {w} : turn'[v] = turn[v] /\ (turn[v].step # "idle" => turn[v].job.doc # d)
         /\ \A c \in Doc \ {d} : SameCourse(c)
         /\ ledger'[d].run = ledger[d].run /\ ledger'[d].local = ledger[d].local
<1>1. Sound /\ OneJob
  BY PlacedSound
<1>2. run' = run
  BY DEF Work, BeginAttempt, Store, Fail, Announce, Land, UnchangedByWorker, mainVars
<1>3. /\ turn[w].step # "idle" /\ turn'[w].step # "idle" /\ turn'[w].job = turn[w].job
      /\ \A v \in Worker \ {w} : turn'[v] = turn[v]
  BY WorkPlaces DEF Work
<1>4. d \in Doc /\ turn[w].job.run = ledger[d].run
  BY <1>1, <1>3, TurnJob
<1>5. \A v \in Worker \ {w} : turn[v].step # "idle" => turn[v].job.doc # d
  BY <1>1, <1>3 DEF OneJob, Active
<1>6. /\ \A c \in Doc \ {d} : SameCourse(c)
      /\ ledger'[d].run = ledger[d].run /\ ledger'[d].local = ledger[d].local
  BY <1>1, <1>3, WorkerCourse DEF Work
<1> QED BY <1>2, <1>3, <1>4, <1>5, <1>6

\* So the sets change at most by that worker and that document.
LEMMA WorkSets ==
  ASSUME Placed, NEW w \in Worker, Work(w), NEW d, d = turn[w].job.doc
  PROVE  /\ Downloading \ {w} = Downloading' \ {w}
         /\ w \in Downloading <=> turn[w].step \in Doing /\ Own2(d)
         /\ w \in Downloading' <=> turn'[w].step \in Doing /\ Own2(d)
         /\ Credited \ {d} = Credited' \ {d}
         /\ d \in Credited <=> ledger[d].told = "COMPLETED" /\ Own2(d) /\ turn[w].step \notin Landing
         /\ d \in Credited' <=> ledger'[d].told = "COMPLETED" /\ Own2(d) /\ turn'[w].step \notin Landing
         /\ GivenUp \ {d} = GivenUp' \ {d}
         /\ d \in GivenUp <=> ledger[d].told = "PERMANENTLY_FAILED" /\ Own2(d)
         /\ d \in GivenUp' <=> ledger'[d].told = "PERMANENTLY_FAILED" /\ Own2(d)
<1>1. /\ run' = run /\ d \in Doc /\ turn[w].step # "idle" /\ turn'[w].step # "idle"
      /\ turn[w].job.run = ledger[d].run /\ turn'[w].job = turn[w].job
      /\ \A v \in Worker \ {w} : turn'[v] = turn[v] /\ (turn[v].step # "idle" => turn[v].job.doc # d)
      /\ \A c \in Doc \ {d} : SameCourse(c)
      /\ ledger'[d].run = ledger[d].run /\ ledger'[d].local = ledger[d].local
  BY WorkMoves
<1>2. Sound
  BY PlacedSound
<1>3. \A c \in Doc : Own2(c)' <=> Own2(c)
  BY <1>1 DEF SameCourse, Own2
<1>4. /\ w \in Downloading <=> turn[w].step \in Doing /\ Own2(d)
      /\ w \in Downloading' <=> turn'[w].step \in Doing /\ Own2(d)
  BY <1>1 DEF Downloading, Own2, Doing
<1>5. Downloading \ {w} = Downloading' \ {w}
  <2>1. ASSUME NEW v \in Worker \ {w}
        PROVE  v \in Downloading <=> v \in Downloading'
    <3>1. CASE turn[v].step = "idle"
      BY <1>1, <2>1, <3>1 DEF Downloading
    <3>2. CASE turn[v].step # "idle"
      <4>1. turn[v].job.doc \in Doc \ {d}
        BY <1>1, <1>2, <2>1, <3>2, TurnJob
      <4>2. ledger'[turn[v].job.doc].local = ledger[turn[v].job.doc].local
        BY <1>1, <4>1 DEF SameCourse
      <4> QED BY <1>1, <2>1, <4>2 DEF Downloading
    <3> QED BY <3>1, <3>2
  <2> QED BY <2>1 DEF Downloading
<1>6. ASSUME NEW c \in Doc \ {d}
      PROVE  (c \in Credited <=> c \in Credited') /\ (c \in GivenUp <=> c \in GivenUp')
  <2>1. ledger'[c].told = ledger[c].told /\ (Own2(c)' <=> Own2(c))
    BY <1>1, <1>3, <1>6 DEF SameCourse
  <2>2. (\A v \in Worker : turn'[v].step \in {"announce", "landed"} => turn'[v].job.doc # c)
           <=> \A v \in Worker : turn[v].step \in {"announce", "landed"} => turn[v].job.doc # c
    BY <1>1, <1>6
  <2> QED BY <2>1, <2>2 DEF Credited, GivenUp
<1>7. Credited \ {d} = Credited' \ {d} /\ GivenUp \ {d} = GivenUp' \ {d}
  BY <1>6 DEF Credited, GivenUp
<1>8. /\ d \in Credited <=> ledger[d].told = "COMPLETED" /\ Own2(d) /\ turn[w].step \notin Landing
      /\ d \in Credited' <=> ledger'[d].told = "COMPLETED" /\ Own2(d) /\ turn'[w].step \notin Landing
  <2>1. /\ (\A v \in Worker : turn[v].step \in {"announce", "landed"} => turn[v].job.doc # d)
             <=> turn[w].step \notin Landing
        /\ (\A v \in Worker : turn'[v].step \in {"announce", "landed"} => turn'[v].job.doc # d)
             <=> turn'[w].step \notin Landing
    BY <1>1 DEF Landing
  <2> QED BY <1>1, <1>3, <2>1 DEF Credited
<1>9. /\ d \in GivenUp <=> ledger[d].told = "PERMANENTLY_FAILED" /\ Own2(d)
      /\ d \in GivenUp' <=> ledger'[d].told = "PERMANENTLY_FAILED" /\ Own2(d)
  BY <1>1, <1>3 DEF GivenUp
<1> QED BY <1>4, <1>5, <1>7, <1>8, <1>9

\* Where the worker and its document stand before and after each step.
LEMMA WorkGoes ==
  ASSUME Placed, NEW w \in Worker, Work(w), NEW d, d = turn[w].job.doc
  PROVE  /\ BeginAttempt(w) =>
              /\ turn[w].step = "taken" /\ turn'[w].step = "working"
              /\ ledger[d].told = "OPEN" /\ ledger'[d].told = "OPEN" /\ ~ledger[d].local
         /\ Store(w) =>
              /\ turn[w].step \in {"taken", "working"} /\ turn'[w].step \in Landing
              /\ turn[w].step = "taken" <=> ledger[d].local
              /\ ledger[d].told = "OPEN" /\ ledger'[d].told = "COMPLETED"
         /\ Fail(w) =>
              /\ turn[w].step = "working" /\ turn'[w].step = "ended"
              /\ ledger[d].told = "OPEN" /\ ~ledger[d].local
              /\ ledger'[d].told = IF FinalAttempt(w) THEN "PERMANENTLY_FAILED" ELSE "FAILED_FOR_ROUND"
         /\ Announce(w) =>
              /\ turn[w].step = "announce" /\ turn'[w].step = "landed"
              /\ ledger[d].told = "COMPLETED" /\ ledger'[d].told = "COMPLETED"
         /\ Land(w) =>
              /\ turn[w].step = "landed" /\ turn'[w].step = "ended"
              /\ ledger[d].told = "COMPLETED" /\ ledger'[d].told = "COMPLETED"
<1>1. Sound /\ PoolFits /\ turn \in [Worker -> Turn] /\ w \in Worker
  BY PlacedSound DEF Sound, DashboardTypes, PoolOK
<1>2. turn[w].step # "idle" /\ w \in Active /\ turn[w] \in Turn
  BY <1>1, WorkMoves DEF Active
<1>3. /\ turn[w].step \in {"taken", "working"} => ledger[d].told = "OPEN"
      /\ turn[w].step = "working" => ~ledger[d].local
      /\ turn[w].step \in {"announce", "landed"} => ledger[d].told = "COMPLETED"
  BY <1>1, <1>2 DEF PoolFits, Open, Settled
<1>4. /\ Store(w) => ledger'[d].told = "COMPLETED"
      /\ BeginAttempt(w) => ledger'[d].told = "OPEN"
      /\ Fail(w) => ledger'[d].told = IF FinalAttempt(w) THEN "PERMANENTLY_FAILED" ELSE "FAILED_FOR_ROUND"
      /\ Announce(w) \/ Land(w) => ledger'[d].told = ledger[d].told
  BY <1>1, <1>2, WorkerCourse DEF Work, FinalAttempt
<1>5. ASSUME BeginAttempt(w)
      PROVE  turn[w].step = "taken" /\ turn'[w].step = "working" /\ ~ledger[d].local
  BY <1>1, <1>2, <1>5 DEF BeginAttempt, Goes, Turn
<1>6. ASSUME Store(w)
      PROVE  /\ turn[w].step \in {"taken", "working"} /\ turn'[w].step \in Landing
             /\ turn[w].step = "taken" <=> ledger[d].local
  <2>1. turn'[w].step \in Landing
    BY <1>1, <1>6, StoreGoes DEF Landing
  <2> QED BY <1>6, <2>1 DEF Store
<1>7. ASSUME Fail(w) PROVE turn[w].step = "working" /\ turn'[w].step = "ended"
  BY <1>1, <1>2, <1>7 DEF Fail, Turn
<1>8. ASSUME Announce(w) PROVE turn[w].step = "announce" /\ turn'[w].step = "landed"
  BY <1>1, <1>2, <1>8 DEF Announce, Goes, Turn
<1>9. ASSUME Land(w) PROVE turn[w].step = "landed" /\ turn'[w].step = "ended"
  BY <1>1, <1>2, <1>9 DEF Land, Goes, Turn
<1> QED BY <1>3, <1>4, <1>5, <1>6, <1>7, <1>8, <1>9

\* What its event does to the counters: nothing for a job of another run.
LEMMA WorkCounts ==
  ASSUME Placed, NEW w \in Worker, NEW d, d = turn[w].job.doc, turn[w].step # "idle",
         BeginAttempt(w) \/ Fail(w) \/ Land(w)
  PROVE  /\ ledger[d].run # run => SameDownloads(Now, Now')
         /\ BeginAttempt(w) /\ ledger[d].run = run =>
              Now'.downloading = Now.downloading + 1 /\ Now'.stored = Now.stored /\ Now'.permanent = Now.permanent
         /\ Fail(w) /\ ledger[d].run = run =>
              /\ Now'.downloading = Minus(Now.downloading, 1) /\ Now'.stored = Now.stored
              /\ Now'.permanent = IF FinalAttempt(w) THEN Now.permanent + 1 ELSE Now.permanent
         /\ Land(w) /\ ledger[d].local => SameDownloads(Now, Now')
         /\ Land(w) /\ ledger[d].run = run /\ ~ledger[d].local =>
              /\ Now'.downloading = Minus(Now.downloading, 1) /\ Now'.stored = Now.stored + 1
              /\ Now'.permanent = Now.permanent
<1>1. Sound /\ Heard /\ Now \in Metrics
  BY PlacedSound, NowType
<1>2. turn[w].job \in Job /\ turn[w].job.run = ledger[d].run /\ turn[w].job.run # 0
  <2>1. turn[w].job \in Job /\ turn[w].job.run = ledger[d].run
    BY <1>1, TurnJob
  <2> QED BY <2>1, DashboardAssumption DEF Job
<1> DEFINE e(kind) == About(kind, turn[w].job)
<1>3. \A kind : e(kind).kind = kind /\ e(kind).n = 1 /\ (Own(e(kind), run) <=> ledger[d].run = run)
  BY <1>2, AboutKind DEF Own
<1>4. DownloadKinds \subseteq Kinds /\ "LOCAL_PDF_REUSED" \in Kinds /\ "LOCAL_PDF_REUSED" \notin DownloadKinds
  BY DEF Kinds, DownloadKinds
<1>5. \A kind \in Kinds : e(kind) \in Message
  BY <1>2, MessageTypes
<1>6. /\ BeginAttempt(w) => Tells(<<e("DOWNLOAD_STARTED")>>)
      /\ Fail(w) => Tells(<<e(IF FinalAttempt(w) THEN "DOWNLOAD_PERMANENTLY_FAILED"
                              ELSE "DOWNLOAD_FAILED_FOR_ROUND")>>)
      /\ Land(w) => Tells(<<e(IF ledger[d].local THEN "LOCAL_PDF_REUSED" ELSE "DOWNLOAD_COMPLETED")>>)
  BY <1>1, WorkerTells
<1> HIDE DEF e
<1>7. ASSUME NEW kind \in Kinds, Tells(<<e(kind)>>)
      PROVE  Now' = IF ledger[d].run = run THEN Consumed(Now, e(kind)) ELSE Now
  BY <1>1, <1>3, <1>5, <1>7, ToldOne
<1>8. ASSUME NEW kind \in DownloadKinds, Tells(<<e(kind)>>), ledger[d].run = run
      PROVE  /\ kind = "DOWNLOAD_STARTED" =>
                  Now'.downloading = Now.downloading + 1 /\ Now'.stored = Now.stored
                  /\ Now'.permanent = Now.permanent
             /\ kind = "DOWNLOAD_COMPLETED" =>
                  Now'.downloading = Minus(Now.downloading, 1) /\ Now'.stored = Now.stored + 1
                  /\ Now'.permanent = Now.permanent
             /\ kind = "DOWNLOAD_FAILED_FOR_ROUND" =>
                  Now'.downloading = Minus(Now.downloading, 1) /\ Now'.stored = Now.stored
                  /\ Now'.permanent = Now.permanent
             /\ kind = "DOWNLOAD_PERMANENTLY_FAILED" =>
                  Now'.downloading = Minus(Now.downloading, 1) /\ Now'.stored = Now.stored
                  /\ Now'.permanent = Now.permanent + 1
  <2>1. Now' = Consumed(Now, e(kind)) /\ e(kind) \in Message /\ e(kind).n = 1 /\ e(kind).kind = kind
    BY <1>3, <1>4, <1>5, <1>7, <1>8
  <2> QED BY <1>1, <2>1, ConsumedDownloads
<1>9. ASSUME NEW kind \in Kinds, Tells(<<e(kind)>>), ledger[d].run # run \/ kind \notin DownloadKinds
      PROVE  SameDownloads(Now, Now')
  <2>1. CASE ledger[d].run # run
    BY <1>7, <1>9, <2>1 DEF SameDownloads
  <2>2. CASE kind \notin DownloadKinds
    BY <1>1, <1>3, <1>9, <2>2, ToldApart, ApartFrom
  <2> QED BY <1>9, <2>1, <2>2
<1>10. {"DOWNLOAD_STARTED", "DOWNLOAD_PERMANENTLY_FAILED", "DOWNLOAD_FAILED_FOR_ROUND", "DOWNLOAD_COMPLETED"}
         = DownloadKinds
  BY DEF DownloadKinds
<1> QED BY <1>4, <1>6, <1>8, <1>9, <1>10

\* The counters follow the sets through every step of an attempt.
LEMMA WorkTallied ==
  ASSUME Placed, Tallied, NEW w \in Worker, Work(w)
  PROVE  Tallied'
<1> DEFINE d == turn[w].job.doc
<1>1. Sound /\ d \in Doc /\ turn[w].step # "idle"
  BY PlacedSound, WorkMoves
<1>2. /\ Downloading \ {w} = Downloading' \ {w}
      /\ w \in Downloading <=> turn[w].step \in Doing /\ Own2(d)
      /\ w \in Downloading' <=> turn'[w].step \in Doing /\ Own2(d)
      /\ Credited \ {d} = Credited' \ {d}
      /\ d \in Credited <=> ledger[d].told = "COMPLETED" /\ Own2(d) /\ turn[w].step \notin Landing
      /\ d \in Credited' <=> ledger'[d].told = "COMPLETED" /\ Own2(d) /\ turn'[w].step \notin Landing
      /\ GivenUp \ {d} = GivenUp' \ {d}
      /\ d \in GivenUp <=> ledger[d].told = "PERMANENTLY_FAILED" /\ Own2(d)
      /\ d \in GivenUp' <=> ledger'[d].told = "PERMANENTLY_FAILED" /\ Own2(d)
  BY WorkSets
<1>3. /\ IsFiniteSet(Downloading) /\ IsFiniteSet(Credited) /\ IsFiniteSet(GivenUp)
      /\ Now.downloading = Cardinality(Downloading) /\ Now.stored = Cardinality(Credited)
      /\ Now.permanent = Cardinality(GivenUp)
  BY CountedFinite DEF Tallied
<1>4. Own2(d) <=> ledger[d].run = run /\ ~ledger[d].local
  BY DEF Own2
<1>5. {"working"} \subseteq Doing /\ Landing \subseteq Doing /\ "taken" \notin Doing /\ "ended" \notin Doing
      /\ "working" \notin Landing /\ "ended" \notin Landing
  BY DEF Doing, Landing
<1>6. ASSUME BeginAttempt(w) PROVE Tallied'
  <2>1. /\ turn[w].step = "taken" /\ turn'[w].step = "working"
        /\ ledger[d].told = "OPEN" /\ ledger'[d].told = "OPEN" /\ ~ledger[d].local
    BY <1>6, WorkGoes DEF Work
  <2>2. Credited' = Credited /\ GivenUp' = GivenUp
    BY <1>2, <2>1
  <2>3. CASE ledger[d].run = run
    <3>1. w \notin Downloading /\ Downloading' = Downloading \cup {w}
      BY <1>2, <1>4, <1>5, <2>1, <2>3
    <3>2. Cardinality(Downloading') = Cardinality(Downloading) + 1
      BY <1>3, <3>1, OneMore
    <3>3. Now'.downloading = Now.downloading + 1 /\ Now'.stored = Now.stored /\ Now'.permanent = Now.permanent
      BY <1>1, <1>6, <2>3, WorkCounts
    <3> QED BY <1>3, <2>2, <3>2, <3>3 DEF Tallied
  <2>4. CASE ledger[d].run # run
    <3>1. SameDownloads(Now, Now')
      BY <1>1, <1>6, <2>4, WorkCounts
    <3>2. Downloading' = Downloading
      BY <1>2, <1>4, <2>4
    <3> QED BY <2>2, <3>1, <3>2, TalliedKept
  <2> QED BY <2>3, <2>4
<1>7. ASSUME Store(w) \/ Announce(w) PROVE Tallied'
  <2>1. SameDownloads(Now, Now')
    BY <1>1, <1>7, WorkerSilent, ToldApart DEF Silent
  <2>2. Downloading' = Downloading
    <3>1. (turn[w].step \in Doing /\ Own2(d)) <=> (turn'[w].step \in Doing /\ Own2(d))
      BY <1>4, <1>5, <1>7, WorkGoes DEF Work, Landing
    <3> QED BY <1>2, <3>1
  <2>3. turn'[w].step \in Landing
    BY <1>7, WorkGoes DEF Work, Landing
  <2>4. ledger[d].told = "OPEN" \/ turn[w].step \in Landing
    BY <1>7, WorkGoes DEF Work, Landing
  <2>5. Credited' = Credited
    BY <1>2, <2>3, <2>4
  <2>6. ledger[d].told \in {"OPEN", "COMPLETED"} /\ ledger'[d].told = "COMPLETED"
    BY <1>7, WorkGoes DEF Work
  <2>7. GivenUp' = GivenUp
    BY <1>2, <2>6
  <2> QED BY <2>1, <2>2, <2>5, <2>7, TalliedKept
<1>8. ASSUME Fail(w) PROVE Tallied'
  <2>1. /\ turn[w].step = "working" /\ turn'[w].step = "ended"
        /\ ledger[d].told = "OPEN" /\ ~ledger[d].local
        /\ ledger'[d].told = IF FinalAttempt(w) THEN "PERMANENTLY_FAILED" ELSE "FAILED_FOR_ROUND"
    BY <1>8, WorkGoes DEF Work
  <2>2. Credited' = Credited
    BY <1>2, <2>1
  <2>3. CASE ledger[d].run = run
    <3>1. w \in Downloading /\ Downloading' = Downloading \ {w}
      BY <1>2, <1>4, <1>5, <2>1, <2>3
    <3>2. Cardinality(Downloading') = Minus(Cardinality(Downloading), 1)
      BY <1>3, <3>1, OneMore
    <3>3. /\ Now'.downloading = Minus(Now.downloading, 1) /\ Now'.stored = Now.stored
          /\ Now'.permanent = IF FinalAttempt(w) THEN Now.permanent + 1 ELSE Now.permanent
      BY <1>1, <1>8, <2>3, WorkCounts
    <3>4. Cardinality(GivenUp') = IF FinalAttempt(w) THEN Cardinality(GivenUp) + 1 ELSE Cardinality(GivenUp)
      <4>1. CASE FinalAttempt(w)
        <5>1. d \notin GivenUp /\ GivenUp' = GivenUp \cup {d}
          BY <1>2, <1>4, <2>1, <2>3, <4>1
        <5>2. Cardinality(GivenUp') = Cardinality(GivenUp) + 1
          <6> HIDE DEF d
          <6> QED BY <1>3, <5>1, OneMore
        <5> QED BY <4>1, <5>2
      <4>2. CASE ~FinalAttempt(w)
        <5>1. GivenUp' = GivenUp
          BY <1>2, <2>1, <4>2
        <5> QED BY <4>2, <5>1
      <4> QED BY <4>1, <4>2
    <3> QED BY <1>3, <2>2, <3>2, <3>3, <3>4 DEF Tallied
  <2>4. CASE ledger[d].run # run
    <3>1. SameDownloads(Now, Now')
      BY <1>1, <1>8, <2>4, WorkCounts
    <3>2. Downloading' = Downloading /\ GivenUp' = GivenUp
      BY <1>2, <1>4, <2>4
    <3> QED BY <2>2, <3>1, <3>2, TalliedKept
  <2> QED BY <2>3, <2>4
<1>9. ASSUME Land(w) PROVE Tallied'
  <2>1. /\ turn[w].step = "landed" /\ turn'[w].step = "ended"
        /\ ledger[d].told = "COMPLETED" /\ ledger'[d].told = "COMPLETED"
    BY <1>9, WorkGoes DEF Work
  <2>2. GivenUp' = GivenUp
    BY <1>2, <2>1
  <2>3. CASE ledger[d].run = run /\ ~ledger[d].local
    <3>1. w \in Downloading /\ Downloading' = Downloading \ {w}
      BY <1>2, <1>4, <1>5, <2>1, <2>3 DEF Doing
    <3>2. Cardinality(Downloading') = Minus(Cardinality(Downloading), 1)
      BY <1>3, <3>1, OneMore
    <3>3. d \notin Credited /\ Credited' = Credited \cup {d}
      BY <1>2, <1>4, <1>5, <2>1, <2>3 DEF Landing
    <3>4. Cardinality(Credited') = Cardinality(Credited) + 1
      <4> HIDE DEF d
      <4> QED BY <1>3, <3>3, OneMore
    <3>5. /\ Now'.downloading = Minus(Now.downloading, 1) /\ Now'.stored = Now.stored + 1
          /\ Now'.permanent = Now.permanent
      BY <1>1, <1>9, <2>3, WorkCounts
    <3> QED BY <1>3, <2>2, <3>2, <3>4, <3>5 DEF Tallied
  <2>4. CASE ~(ledger[d].run = run /\ ~ledger[d].local)
    <3>1. SameDownloads(Now, Now')
      BY <1>1, <1>9, <2>4, WorkCounts
    <3>2. Downloading' = Downloading /\ Credited' = Credited
      BY <1>2, <1>4, <2>4
    <3> QED BY <2>2, <3>1, <3>2, TalliedKept
  <2> QED BY <2>3, <2>4
<1> QED BY <1>6, <1>7, <1>8, <1>9 DEF Work

\* Each step of a worker keeps the counters of the downloads.
LEMMA WorkerTallied ==
  ASSUME Placed, Tallied, NEW w \in Worker, DownloadStep(w)
  PROVE  Tallied'
<1>1. CASE Take(w) \/ Return(w)
  <2>1. Downloading' = Downloading /\ Credited' = Credited /\ GivenUp' = GivenUp
    BY <1>1, TakeReturnSets
  <2>2. SameDownloads(Now, Now')
    BY <1>1, PlacedSound, WorkerSilent, ToldApart DEF Silent
  <2> QED BY <2>1, <2>2, TalliedKept
<1>2. CASE Work(w)
  BY <1>2, WorkTallied
<1> QED BY <1>1, <1>2 DEF DownloadStep, Work

\* Each step of a validator keeps the counters of the downloads.
LEMMA ValidatorTallied ==
  ASSUME Placed, Tallied, NEW v \in Validator, ValidatorStep(v)
  PROVE  Tallied'
<1>1. Sound
  BY PlacedSound
<1>2. \A d \in Doc : SameCourse(d)
  BY <1>1, ValidatorCourse
<1>3. turn' = turn /\ run' = run
  BY DEF ValidatorStep, Check, LinkCopy, Judge, Raise, UnchangedByValidator, poolVars, mainVars
<1>4. \A w \in Active : SameCourse(turn[w].job.doc)
  BY <1>1, <1>2, TurnJob DEF Active
<1>5. Downloading' = Downloading /\ Credited' = Credited /\ GivenUp' = GivenUp
  <2>1. \A d \in Doc : SameCourse(d) \/ (ledger[d].told \notin Ended /\ ledger'[d].told \notin Ended)
    BY <1>2
  <2> QED BY <1>3, <1>4, <2>1, SetsKept
<1>6. SameDownloads(Now, Now')
  BY <1>1, ValidatorSilent, ToldApart DEF Silent
<1> QED BY <1>5, <1>6, TalliedKept

\* The main thread settles no document that has begun.
LEMMA MainEnds ==
  ASSUME Placed, MainStep, ~Start, NEW d \in Doc
  PROVE  SameCourse(d) \/ (ledger[d].told \notin Ended /\ ledger'[d].told \notin Ended)
<1>1. Sound /\ New = {c \in Doc : ledger[c].told = "none"}
  BY PlacedSound, NewIs DEF Placed, PlacesInv, Records
<1>2. "none" \notin Ended /\ "OPEN" \notin Ended /\ "STAGE1_REJECTED" \notin Ended /\ Unended \cap Ended = {}
  BY DEF Ended, Unended
<1>3. CASE Left(d)
  BY <1>3 DEF Left
<1>4. CASE Evaluated /\ d \in New /\ ledger'[d].told = "STAGE1_REJECTED"
  BY <1>1, <1>2, <1>4
<1>5. CASE Admit /\ d \in New /\ ledger'[d].told = "OPEN"
  BY <1>1, <1>2, <1>5
<1>6. CASE Retry /\ pc = "retry" /\ item' \in items /\ d = item'.doc /\ ledger'[d].told = "OPEN"
  <2>1. ledger[d].told \in Unended
    BY <1>6, WaitingJobs DEF Waits
  <2> QED BY <1>2, <1>6, <2>1
<1> QED BY <1>1, <1>3, <1>4, <1>5, <1>6, MainWrites

\* A run begins with nothing counted.
LEMMA StartTallied ==
  ASSUME Placed, Start
  PROVE  Tallied' /\ Evaluating'
<1>1. Sound /\ Runs /\ Quiet
  BY PlacedSound DEF Placed, PlacesInv
<1>2. /\ pc' = "restore" /\ run' = run + 1 /\ run \in Nat /\ turn' = turn
      /\ Active = {} /\ \A d \in Doc : ledger'[d].run = ledger[d].run
  BY <1>1, StartDoes, StartLeaves DEF Quiet, SameCandidate
<1>3. \A d \in Doc : ledger[d].run <= run /\ ledger[d].run \in Nat
  BY <1>1 DEF Runs, Sound, DashboardTypes, LedgerOK, Entry
<1>4. \A d \in Doc : ledger'[d].run # run'
  BY <1>2, <1>3
<1>5. Downloading' = {} /\ Credited' = {} /\ GivenUp' = {}
  BY <1>2, <1>4 DEF Downloading, Credited, GivenUp, Own2, Active
<1>6. Now' = Fresh(Cardinality(Stored))
  BY <1>1, StartNow
<1>7. Now'.downloading = 0 /\ Now'.stored = 0 /\ Now'.permanent = 0 /\ Now'.stage1Pending = 0
  BY <1>6 DEF Fresh
<1> QED BY <1>2, <1>5, <1>7, FS_EmptySet DEF Tallied, Evaluating

\* Each step of the main thread keeps the counters of the downloads.
LEMMA MainTallied ==
  ASSUME Placed, Tallied, MainStep
  PROVE  Tallied'
<1>1. Sound
  BY PlacedSound
<1>2. CASE Start
  BY <1>2, StartTallied
<1>3. CASE ~Start
  <2>1. turn' = turn /\ \A d \in InPool : SameCourse(d)
    BY MainCourse
  <2>2. \A w \in Active : turn[w].job.doc \in InPool
    BY DEF InPool, InTurn
  <2>3. \A w \in Active : SameCourse(turn[w].job.doc)
    BY <2>1, <2>2
  <2>4. \A d \in Doc : SameCourse(d) \/ (ledger[d].told \notin Ended /\ ledger'[d].told \notin Ended)
    BY <1>3, MainEnds
  <2>5. run' = run
    <3>1. \E es : Tells(es)
      BY <1>1, <1>3, MainSomethingTold
    <3> QED BY <3>1 DEF Tells
  <2>6. Downloading' = Downloading /\ Credited' = Credited /\ GivenUp' = GivenUp
    BY <2>1, <2>3, <2>4, <2>5, SetsKept
  <2>7. SameDownloads(Now, Now')
    <3>1. CASE Batched
      BY <1>1, <3>1, BatchedApart
    <3>2. CASE ~Batched
      BY <1>1, <1>3, <3>2, MainSilent, ToldApart DEF Silent
    <3> QED BY <3>1, <3>2
  <2> QED BY <2>6, <2>7, TalliedKept
<1> QED BY <1>2, <1>3

\* Two events of this run are consumed in order.
LEMMA ToldTwo ==
  ASSUME Heard, NEW e \in Message, NEW f \in Message, Tells(<<e, f>>), Own(e, run), Own(f, run)
  PROVE  Now' = Consumed(Consumed(Now, e), f)
<1>1. bus \in Seq(Message) /\ metrics \in Metrics
  BY DEF Heard
<1>2. bus \o <<e>> \in Seq(Message) /\ bus \o <<e, f>> = (bus \o <<e>>) \o <<f>>
  <2>1. <<e>> \in Seq(Message) /\ <<f>> \in Seq(Message)
    OBVIOUS
  <2>2. <<e, f>> = <<e>> \o <<f>>
    <3> DEFINE s == <<e, f>>
               t == <<e>> \o <<f>>
    <3>1. s \in Seq(Message) /\ Len(s) = 2 /\ s[1] = e /\ s[2] = f
      OBVIOUS
    <3>2. t \in Seq(Message) /\ Len(t) = 2 /\ t[1] = e /\ t[2] = f
      BY <2>1, ConcatProperties
    <3> HIDE DEF s, t
    <3>3. \A i \in 1..Len(s) : s[i] = t[i]
      BY <3>1, <3>2
    <3>4. s = t
      BY <3>1, <3>2, <3>3, SeqEqual
    <3> QED BY <3>4 DEF s, t
  <2>3. (bus \o <<e>>) \o <<f>> = bus \o (<<e>> \o <<f>>) /\ bus \o <<e>> \in Seq(Message)
    BY <1>1, <2>1, ConcatAssociative, ConcatProperties
  <2> QED BY <2>2, <2>3
<1>3. Now' = Metered(metrics, bus \o <<e, f>>, run)
  BY DEF Tells
<1>4. Metered(metrics, bus \o <<e>>, run) = Consumed(Now, e)
  BY <1>1, MeteredAppend DEF Now
<1>5. Metered(metrics, (bus \o <<e>>) \o <<f>>, run) = Consumed(Metered(metrics, bus \o <<e>>, run), f)
  BY <1>1, <1>2, MeteredAppend
<1> QED BY <1>2, <1>3, <1>4, <1>5

\* The counter of Stage 1 goes up by a page and down by its answers.
LEMMA BatchedEvaluating ==
  ASSUME Placed, Evaluating, Batched
  PROVE  Evaluating'
<1>1. Sound /\ Heard /\ Now \in Metrics /\ ItemsOK
  BY PlacedSound, NowType DEF Sound, DashboardTypes
<1>2. \A kind \in {"DOCUMENT_DISCOVERED", "STAGE1_STARTED", "STAGE1_APPROVED", "STAGE1_REJECTED", "STAGE1_FAILED"} :
        kind \in Kinds \ Stage2Kinds
  BY DEF Kinds, Stage1Kinds, Stage2Kinds
<1>3. ASSUME NEW s \in SUBSET Doc,
             NEW kind \in {"DOCUMENT_DISCOVERED", "STAGE1_STARTED", "STAGE1_APPROVED", "STAGE1_REJECTED", "STAGE1_FAILED"}
      PROVE  /\ Batch(kind, s) \in Message /\ Own(Batch(kind, s), run) /\ Batch(kind, s).kind = kind
             /\ Batch(kind, s).n = Cardinality(s)
  <2>1. pc # "over"
    BY DEF Batched, Discover, Evaluated, NotEvaluated
  <2> QED BY <1>1, <1>2, <1>3, <2>1, BatchType DEF Own
<1>4. New \in SUBSET Doc
  BY DEF New
<1>5. CASE Discover
  <2> DEFINE e == Batch("DOCUMENT_DISCOVERED", items')
             f == Batch("STAGE1_STARTED", items')
  <2>1. items' \in SUBSET Doc /\ Tells(<<e, f>>)
    BY <1>1, <1>4, <1>5, DiscoverTells
  <2>2. /\ e \in Message /\ f \in Message /\ Own(e, run) /\ Own(f, run)
        /\ e.kind = "DOCUMENT_DISCOVERED" /\ f.kind = "STAGE1_STARTED" /\ f.n = Cardinality(items')
    BY <1>3, <2>1
  <2>3. pc = "turn" /\ pc' = "stage1"
    BY <1>5 DEF Discover
  <2> HIDE DEF e, f
  <2>4. Now' = Consumed(Consumed(Now, e), f)
    BY <1>1, <2>1, <2>2, ToldTwo
  <2>5. Consumed(Now, e) \in Metrics /\ Consumed(Now, e).stage1Pending = Now.stage1Pending
    BY <1>1, <2>2, ConsumedType, ConsumedElsewhere DEF SameStage1, Stage1Kinds
  <2>6. Now'.stage1Pending = Now.stage1Pending + Cardinality(items')
    BY <2>2, <2>4, <2>5, ConsumedStage1
  <2>7. Now.stage1Pending = 0 /\ Cardinality(items') \in Nat
    BY <2>1, <2>3, DocsFinite DEF Evaluating
  <2> QED BY <2>3, <2>6, <2>7 DEF Evaluating
<1>6. CASE Evaluated
  <2>1. pc = "stage1" /\ items \in SUBSET Doc
    BY <1>1, <1>4, <1>6 DEF ItemsOK, Evaluated
  <2>2. PICK approved \in SUBSET items :
           /\ Tells(<<Batch("STAGE1_APPROVED", approved), Batch("STAGE1_REJECTED", items \ approved)>>)
           /\ pc' = (IF approved = {} THEN "page" ELSE "approve")
    BY <1>1, <1>6, EvaluatedTells
  <2> DEFINE e == Batch("STAGE1_APPROVED", approved)
             f == Batch("STAGE1_REJECTED", items \ approved)
  <2>3. approved \in SUBSET Doc /\ items \ approved \in SUBSET Doc
    BY <2>1
  <2>4. /\ e \in Message /\ f \in Message /\ Own(e, run) /\ Own(f, run)
        /\ e.kind = "STAGE1_APPROVED" /\ e.n = Cardinality(approved)
        /\ f.kind = "STAGE1_REJECTED" /\ f.n = Cardinality(items \ approved)
    BY <1>3, <2>3
  <2> HIDE DEF e, f
  <2>5. Now' = Consumed(Consumed(Now, e), f)
    <3>1. Tells(<<e, f>>)
      BY <2>2 DEF e, f
    <3> QED BY <1>1, <2>4, <3>1, ToldTwo
  <2>6. Consumed(Now, e) \in Metrics /\ Consumed(Now, e).stage1Pending = Minus(Now.stage1Pending, Cardinality(approved))
    BY <1>1, <2>4, ConsumedType, ConsumedStage1
  <2>7. Now'.stage1Pending = Minus(Minus(Now.stage1Pending, Cardinality(approved)), Cardinality(items \ approved))
    BY <2>4, <2>5, <2>6, ConsumedStage1
  <2>8. Now.stage1Pending = Cardinality(items)
    BY <2>1 DEF Evaluating
  <2>9. /\ Cardinality(items) \in Nat /\ Cardinality(approved) \in Nat /\ Cardinality(items \ approved) \in Nat
        /\ Cardinality(items) = Cardinality(approved) + Cardinality(items \ approved)
    <3>1. IsFiniteSet(approved) /\ IsFiniteSet(items \ approved) /\ Cardinality(items) \in Nat
          /\ Cardinality(approved) \in Nat /\ Cardinality(items \ approved) \in Nat
      BY <2>1, <2>3, DocsFinite
    <3>2. approved \cap (items \ approved) = {} /\ items = approved \cup (items \ approved)
      OBVIOUS
    <3>3. Cardinality(approved \cup (items \ approved)) =
            Cardinality(approved) + Cardinality(items \ approved) - Cardinality(approved \cap (items \ approved))
      BY <3>1, FS_Union
    <3> QED BY <3>1, <3>2, <3>3, FS_EmptySet
  <2>10. Now'.stage1Pending = 0
    BY <2>7, <2>8, <2>9 DEF Minus
  <2> QED BY <2>2, <2>10 DEF Evaluating
<1>7. CASE NotEvaluated
  <2> DEFINE e == Batch("STAGE1_FAILED", items)
  <2>1. Tells(<<e>>) /\ items \in SUBSET Doc /\ pc = "stage1" /\ pc' = "page"
    BY <1>1, <1>7, NotEvaluatedTells DEF NotEvaluated
  <2>2. e \in Message /\ Own(e, run) /\ e.kind = "STAGE1_FAILED" /\ e.n = Cardinality(items)
    BY <1>3, <2>1
  <2> HIDE DEF e
  <2>3. Now' = Consumed(Now, e)
    BY <1>1, <2>1, <2>2, ToldOne
  <2>4. Now'.stage1Pending = Minus(Now.stage1Pending, Cardinality(items))
    BY <1>1, <2>2, <2>3, ConsumedStage1
  <2>5. Now.stage1Pending = Cardinality(items) /\ Cardinality(items) \in Nat
    BY <2>1, DocsFinite DEF Evaluating
  <2>6. Now'.stage1Pending = 0
    BY <2>4, <2>5 DEF Minus
  <2> QED BY <2>1, <2>6 DEF Evaluating
<1> QED BY <1>5, <1>6, <1>7 DEF Batched

\* Where the other steps of the main thread leave it.
LEMMA MainBeside ==
  ASSUME MainStep, ~Start, ~Batched, pc' \notin {"closing", "over"}
  PROVE  /\ pc \notin {"closing", "over"} /\ (pc' = "stage1" <=> pc = "stage1")
         /\ pc' = "stage1" => items' = items
<1>1. ASSUME Restore \/ AnnounceRestored \/ LastPage \/ Admit \/ PageDone \/ Enqueue
      PROVE  pc \notin {"closing", "over", "stage1"} /\ pc' # "stage1"
  BY <1>1 DEF Restore, AnnounceRestored, LastPage, Admit, PageDone, Enqueue
<1>2. ASSUME Emit \/ DrainedOut \/ Round \/ Retry \/ RoundAdmitted \/ Finish
      PROVE  pc \notin {"closing", "over", "stage1"} /\ pc' # "stage1"
  BY <1>2 DEF Emit, DrainedOut, Round, Retry, RoundAdmitted, Finish
<1>3. ASSUME DrainPool \/ DrainBus
      PROVE  /\ pc \notin {"closing", "over"} /\ (pc' = "stage1" <=> pc = "stage1") /\ items' = items
  BY <1>3 DEF DrainPool, DrainBus, AfterDrain
<1>4. ~Cancel /\ ~Closed
  BY DEF Cancel, Closed
<1> QED BY <1>1, <1>2, <1>3, <1>4 DEF MainStep, Batched

\* Every step keeps the counter of Stage 1.
LEMMA EvaluatingStep ==
  ASSUME Placed, Evaluating, DashboardNext
  PROVE  Evaluating'
<1>1. Sound
  BY PlacedSound
<1>2. ASSUME SameStage1(Now, Now'), pc' = pc, items' = items PROVE Evaluating'
  BY <1>2 DEF Evaluating, SameStage1
<1>3. ASSUME NEW w \in Worker, DownloadStep(w) PROVE Evaluating'
  <2>1. pc' = pc /\ items' = items
    BY <1>3 DEF DownloadStep, Take, BeginAttempt, Store, Fail, Announce, Land, Return, UnchangedByWorker, mainVars
  <2>2. SameStage1(Now, Now')
    <3>1. CASE Take(w) \/ Store(w) \/ Announce(w) \/ Return(w)
      BY <1>1, <3>1, WorkerSilent, ToldApart DEF Silent
    <3>2. CASE BeginAttempt(w) \/ Fail(w) \/ Land(w)
      <4>1. PICK kind \in {"DOWNLOAD_STARTED", "DOWNLOAD_PERMANENTLY_FAILED", "DOWNLOAD_FAILED_FOR_ROUND",
                           "LOCAL_PDF_REUSED", "DOWNLOAD_COMPLETED"} : Tells(<<About(kind, turn[w].job)>>)
        BY <1>1, <3>2, WorkerTells
      <4> DEFINE e == About(kind, turn[w].job)
      <4>2. e.kind = kind /\ kind \notin Stage1Kinds
        BY AboutKind DEF Stage1Kinds
      <4>3. Tells(<<e>>)
        BY <4>1
      <4> HIDE DEF e
      <4>4. Apart(<<e>>, Stage1Kinds)
        BY <4>2, ApartFrom
      <4> QED BY <1>1, <4>3, <4>4, ToldApart
    <3> QED BY <1>3, <3>1, <3>2 DEF DownloadStep
  <2> QED BY <1>2, <2>1, <2>2
<1>4. ASSUME NEW v \in Validator, ValidatorStep(v) PROVE Evaluating'
  <2>1. pc' = pc /\ items' = items
    BY <1>4 DEF ValidatorStep, Check, LinkCopy, Judge, Raise, UnchangedByValidator, mainVars
  <2>2. SameStage1(Now, Now')
    BY <1>1, <1>4, ValidatorSilent, ToldApart DEF Silent
  <2> QED BY <1>2, <2>1, <2>2
<1>5. CASE MainStep
  <2>1. CASE Start
    BY <2>1, StartTallied
  <2>2. CASE Batched
    BY <2>2, BatchedEvaluating
  <2>3. CASE ~Start /\ ~Batched
    <3>1. SameStage1(Now, Now')
      BY <1>1, <1>5, <2>3, MainSilent, ToldApart DEF Silent
    <3>2. pc' \notin {"closing", "over"} =>
            /\ pc \notin {"closing", "over"} /\ (pc' = "stage1" <=> pc = "stage1")
            /\ pc' = "stage1" => items' = items
      BY <1>5, <2>3, MainBeside
    <3> QED BY <3>1, <3>2 DEF Evaluating, SameStage1
  <2> QED BY <2>1, <2>2, <2>3
<1> QED BY <1>3, <1>4, <1>5 DEF DashboardNext

\* A run that has ended shows what its ledger holds, when it shows all it was told.
LEMMA CountsAgreeThen ==
  ASSUME Placed', Counts', pc' = "done", metrics' = Now'
  PROVE  CountsAgree'
<1>1. Active' = {}
  BY DEF Placed, PlacesInv, Quiet
<1>2. /\ Now'.downloading = Cardinality(Downloading)' /\ Now'.stored = Cardinality(Credited)'
      /\ Now'.permanent = Cardinality(GivenUp)' /\ Now'.stage1Pending = 0
  BY DEF Counts
<1>3. Downloading' = {}
  BY <1>1 DEF Downloading, Active
<1>4. Credited' = {d \in Doc : ledger'[d].told = "COMPLETED" /\ ledger'[d].run = run' /\ ~ledger'[d].local}
  BY <1>1 DEF Credited, Own2, Active
<1>5. GivenUp' = {d \in Doc : /\ ledger'[d].told = "PERMANENTLY_FAILED" /\ ledger'[d].run = run'
                              /\ ~ledger'[d].local}
  BY DEF GivenUp, Own2
<1>6. metrics'.downloading = 0
  BY <1>2, <1>3, FS_EmptySet
<1> QED BY <1>2, <1>4, <1>5, <1>6 DEF CountsAgree, Outcome

\* At the end of a run nothing but validations goes on.
LEMMA CountsAgreeStays ==
  ASSUME Placed, Counts, CountsAgree, Counts', Placed', [DashboardNext]_dashboardVars
  PROVE  CountsAgree'
<1>1. Sound /\ Quiet
  BY PlacedSound DEF Placed, PlacesInv
<1>2. ASSUME UNCHANGED <<pc, run, metrics>>, \A d \in Doc : SameCourse(d) PROVE CountsAgree'
  <2>1. ASSUME NEW status PROVE Outcome(status)' = Outcome(status)
    BY <1>2 DEF Outcome, SameCourse
  <2> QED BY <1>2, <2>1 DEF CountsAgree
<1>3. CASE UNCHANGED dashboardVars
  BY <1>2, <1>3 DEF dashboardVars, viewVars, mainVars, SameCourse
<1>4. ASSUME NEW v \in Validator, ValidatorStep(v) PROVE CountsAgree'
  <2>1. UNCHANGED <<pc, run, metrics>>
    BY <1>4 DEF ValidatorStep, Check, LinkCopy, Judge, Raise, UnchangedByValidator, mainVars, viewVars
  <2> QED BY <1>1, <1>2, <1>4, <2>1, ValidatorCourse
<1>5. ASSUME NEW w \in Worker, DownloadStep(w) PROVE CountsAgree'
  <2>1. pc' = pc
    BY <1>5 DEF DownloadStep, Take, BeginAttempt, Store, Fail, Announce, Land, Return, UnchangedByWorker, mainVars
  <2>2. pc # "done"
    <3>1. CASE Take(w)
      BY <1>1, <3>1 DEF Take, Quiet
    <3>2. CASE ~Take(w)
      <4>1. w \in Active
        BY <1>5, <3>2 DEF DownloadStep, BeginAttempt, Store, Fail, Announce, Land, Return, Active
      <4> QED BY <1>1, <4>1 DEF Quiet
    <3> QED BY <3>1, <3>2
  <2> QED BY <2>1, <2>2 DEF CountsAgree
<1>6. CASE MainStep
  <2>1. CASE Finish \/ DrainBus
    <3>1. metrics' = Now'
      BY <1>1, <2>1, RefreshOnlyTells
    <3> QED BY <3>1, CountsAgreeThen DEF CountsAgree
  <2>2. CASE DrainPool
    BY <1>2, <2>2 DEF DrainPool, SameCourse
  <2>3. CASE ~Finish /\ ~DrainBus /\ ~DrainPool
    <3>1. ASSUME Start \/ Restore \/ AnnounceRestored \/ Discover \/ LastPage \/ Evaluated \/ NotEvaluated \/ Admit
          PROVE  pc' # "done"
      BY <3>1 DEF Start, Restore, AnnounceRestored, Discover, LastPage, Evaluated, NotEvaluated, Admit
    <3>2. ASSUME PageDone \/ Enqueue \/ Emit \/ DrainedOut \/ Round \/ Retry \/ RoundAdmitted \/ Cancel \/ Closed
          PROVE  pc' # "done"
      BY <3>2 DEF PageDone, Enqueue, Emit, DrainedOut, Round, Retry, RoundAdmitted, Cancel, Closed
    <3>3. pc' # "done"
      BY <1>6, <2>3, <3>1, <3>2 DEF MainStep
    <3> QED BY <3>3 DEF CountsAgree
  <2> QED BY <2>1, <2>2, <2>3
<1> QED BY <1>3, <1>4, <1>5, <1>6 DEF DashboardNext

\* At first nothing is counted.
LEMMA CountsStart ==
  ASSUME DashboardInit
  PROVE  CountInv
<1>1. bus = <<>> /\ metrics = Fresh(0) /\ pc = "over" /\ run = 0
      /\ (\A w \in Worker : turn[w].step = "idle") /\ \A d \in Doc : ledger[d].told = "none"
  BY DEF DashboardInit, Resting
<1>2. Now = metrics
  BY <1>1, FreshType, MeteredNothing DEF Now
<1>3. Downloading = {} /\ Credited = {} /\ GivenUp = {}
  BY <1>1 DEF Downloading, Credited, GivenUp
<1>4. Now.downloading = 0 /\ Now.stored = 0 /\ Now.permanent = 0
  BY <1>1, <1>2 DEF Fresh
<1> QED BY <1>1, <1>3, <1>4, FS_EmptySet DEF CountInv, Counts, CountsAgree

\* Every step keeps the counters.
LEMMA CountsStep ==
  ASSUME Placed, CountInv, [DashboardNext]_dashboardVars
  PROVE  CountInv'
<1>1. Placed' /\ Tallied /\ Evaluating
  BY PlacedStep, CountsAre DEF CountInv
<1>2. Counts'
  <2>1. CASE UNCHANGED dashboardVars
    <3>1. Now' = Now /\ Downloading' = Downloading /\ Credited' = Credited /\ GivenUp' = GivenUp
          /\ pc' = pc /\ items' = items
      BY <2>1 DEF dashboardVars, busVars, viewVars, mainVars, poolVars, Now, Downloading, Credited, GivenUp, Own2
    <3> QED BY <1>1, <3>1 DEF Counts, Tallied, Evaluating
  <2>2. CASE DashboardNext
    <3>1. Evaluating'
      BY <1>1, <2>2, EvaluatingStep
    <3>2. Tallied'
      BY <1>1, <2>2, WorkerTallied, ValidatorTallied, MainTallied DEF DashboardNext
    <3> QED BY <3>1, <3>2 DEF Counts, Tallied, Evaluating
  <2> QED BY <2>1, <2>2
<1>3. CountsAgree'
  BY <1>1, <1>2, CountsAgreeStays DEF CountInv
<1> QED BY <1>2, <1>3 DEF CountInv

\* The counters are what the property asks for.
LEMMA MetricsAgreeThen ==
  ASSUME CountInv
  PROVE  MetricsAgree
BY DEF CountInv, Counts, Now, MetricsAgree, ActiveIsExact

-----------------------------------------------------------------------------
(* The theorems                                                            *)

\* Type correctness of the Dashboard, and one place for each document: every
\* job that is queued, at a worker or reported is of a document with the
\* matching record, and no document is in two of these places.
THEOREM DashboardPlaced == DashboardSpec => []Placed
<1>1. DashboardInit => Placed
  BY PlacedStart
<1>2. Placed /\ [DashboardNext]_dashboardVars => Placed'
  BY PlacedStep
<1> QED BY <1>1, <1>2, PTL DEF DashboardSpec

\* RunMetrics counts exactly the attempts under way and, when a run has ended,
\* the PDFs it fetched and gave up, whatever other runs left on the bus.
THEOREM MetricsAlwaysAgree == DashboardSpec => []MetricsAgree
<1>1. DashboardInit => CountInv
  BY CountsStart
<1>2. Placed /\ CountInv /\ [DashboardNext]_dashboardVars => CountInv'
  BY CountsStep
<1>3. CountInv => MetricsAgree
  BY MetricsAgreeThen
<1> QED BY <1>1, <1>2, <1>3, DashboardPlaced, PTL DEF DashboardSpec

\* The Stage 2 counters are the sizes of the phases, and a published verdict
\* ends the phase "running", in whatever order the events come.
THEOREM Stage2RowsAlwaysAgree == DashboardSpec => []Stage2RowsAgree
<1>1. DashboardInit => Stage2Inv
  BY Stage2Start
<1>2. Placed /\ Stage2Inv /\ [DashboardNext]_dashboardVars => Stage2Inv'
  BY Stage2Step
<1>3. Placed /\ Stage2Inv => Stage2RowsAgree
  BY Stage2Agrees
<1> QED BY <1>1, <1>2, <1>3, DashboardPlaced, PTL DEF DashboardSpec

\* The snapshot shows no more rows at work than the queue has attempts, and
\* exactly those once the workers' events are drained.
THEOREM SnapshotAlwaysFollows == DashboardSpec => []SnapshotFollowsTheQueue
<1>1. DashboardInit => RowsInv
  BY RowsStart
<1>2. Placed /\ RowsInv /\ [DashboardNext]_dashboardVars => RowsInv'
  BY RowsStep
<1>3. Placed /\ RowsInv => SnapshotFollowsTheQueue
  BY SnapshotFollows
<1> QED BY <1>1, <1>2, <1>3, DashboardPlaced, PTL DEF DashboardSpec

-----------------------------------------------------------------------------
(* One attempt of a download worker                                        *)

USE RoutesAssumption

-----------------------------------------------------------------------------
(* The stack of calls                                                      *)

\* Returning uncovers the call below.
LEMMA Popped ==
  ASSUME NEW S, NEW s \in Seq(S), s # <<>>
  PROVE  /\ Head(s) \in S /\ Head(s) = s[1] /\ Len(s) \in Nat \ {0}
         /\ Tail(s) \in Seq(S) /\ Len(Tail(s)) = Len(s) - 1
         /\ \A i \in 1..Len(s) - 1 : Tail(s)[i] = s[i + 1]
         /\ Tail(s) # <<>> => Head(Tail(s)) = s[2] /\ Len(s) >= 2
<1>1. /\ Head(s) \in S /\ Tail(s) \in Seq(S) /\ Len(Tail(s)) = Len(s) - 1
      /\ \A i \in 1..Len(s) - 1 : Tail(s)[i] = s[i + 1]
  BY HeadTailProperties
<1>2. Len(s) \in Nat \ {0} /\ Head(s) = s[1]
  BY EmptySeq, LenProperties
<1>3. ASSUME Tail(s) # <<>>
      PROVE  Head(Tail(s)) = s[2] /\ Len(s) >= 2
  <2>1. Len(Tail(s)) \in Nat \ {0}
    BY <1>1, <1>3, EmptySeq, LenProperties
  <2>2. Len(s) >= 2 /\ 1 \in 1..Len(s) - 1
    BY <1>1, <1>2, <2>1
  <2>3. Tail(s)[1] = s[2]
    BY <1>1, <2>2
  <2>4. Head(Tail(s)) = Tail(s)[1]
    BY <1>1, <1>3
  <2> QED BY <2>2, <2>3, <2>4
<1> QED BY <1>1, <1>2, <1>3

\* A call goes on: its frame is replaced.
LEMMA Replaced ==
  ASSUME NEW S, NEW s \in Seq(S), s # <<>>, NEW e \in S
  PROVE  LET t == <<e>> \o Tail(s)
         IN  /\ t \in Seq(S) /\ Len(t) = Len(s) /\ t # <<>> /\ Head(t) = e
             /\ \A i \in 2..Len(s) : t[i] = s[i]
<1> DEFINE t == <<e>> \o Tail(s)
<1>1. /\ Tail(s) \in Seq(S) /\ Len(Tail(s)) = Len(s) - 1 /\ Len(s) \in Nat \ {0}
      /\ \A i \in 1..Len(s) - 1 : Tail(s)[i] = s[i + 1]
  BY Popped
<1>2. <<e>> \in Seq(S) /\ Len(<<e>>) = 1 /\ <<e>>[1] = e
  OBVIOUS
<1>3. /\ t \in Seq(S) /\ Len(t) = Len(<<e>>) + Len(Tail(s))
      /\ \A i \in 1..Len(<<e>>) + Len(Tail(s)) :
           t[i] = IF i <= Len(<<e>>) THEN <<e>>[i] ELSE Tail(s)[i - Len(<<e>>)]
  BY <1>1, <1>2, ConcatProperties
<1> HIDE DEF t
<1>4. Len(t) = Len(s) /\ t[1] = e
  BY <1>1, <1>2, <1>3
<1>5. t # <<>> /\ Head(t) = e
  BY <1>1, <1>3, <1>4
<1>6. ASSUME NEW i \in 2..Len(s)
      PROVE  t[i] = s[i]
  <2>1. i - 1 \in 1..Len(s) - 1 /\ ~(i <= 1) /\ i \in 1..1 + (Len(s) - 1) /\ (i - 1) + 1 = i
    BY <1>1
  <2>2. t[i] = Tail(s)[i - 1]
    BY <1>1, <1>2, <1>3, <2>1
  <2>3. Tail(s)[i - 1] = s[(i - 1) + 1]
    BY <1>1, <2>1
  <2> QED BY <2>1, <2>2, <2>3
<1> QED BY <1>3, <1>4, <1>5, <1>6 DEF t

\* A call makes another: its frame is replaced and one is put on top.
LEMMA Pushed ==
  ASSUME NEW S, NEW s \in Seq(S), s # <<>>, NEW d \in S, NEW e \in S
  PROVE  LET t == <<d, e>> \o Tail(s)
         IN  /\ t \in Seq(S) /\ Len(t) = Len(s) + 1 /\ t # <<>> /\ Head(t) = d
             /\ t[2] = e
             /\ \A i \in 3..Len(s) + 1 : t[i] = s[i - 1]
<1> DEFINE t == <<d, e>> \o Tail(s)
<1>1. /\ Tail(s) \in Seq(S) /\ Len(Tail(s)) = Len(s) - 1 /\ Len(s) \in Nat \ {0}
      /\ \A i \in 1..Len(s) - 1 : Tail(s)[i] = s[i + 1]
  BY Popped
<1>2. <<d, e>> \in Seq(S) /\ Len(<<d, e>>) = 2 /\ <<d, e>>[1] = d /\ <<d, e>>[2] = e
  OBVIOUS
<1>3. /\ t \in Seq(S) /\ Len(t) = Len(<<d, e>>) + Len(Tail(s))
      /\ \A i \in 1..Len(<<d, e>>) + Len(Tail(s)) :
           t[i] = IF i <= Len(<<d, e>>) THEN <<d, e>>[i] ELSE Tail(s)[i - Len(<<d, e>>)]
  BY <1>1, <1>2, ConcatProperties
<1> HIDE DEF t
<1>4. Len(t) = Len(s) + 1 /\ t[1] = d /\ t[2] = e
  BY <1>1, <1>2, <1>3
<1>5. t # <<>> /\ Head(t) = d
  BY <1>1, <1>3, <1>4
<1>6. ASSUME NEW i \in 3..Len(s) + 1
      PROVE  t[i] = s[i - 1]
  <2>1. i - 2 \in 1..Len(s) - 1 /\ ~(i <= 2) /\ i \in 1..2 + (Len(s) - 1) /\ (i - 2) + 1 = i - 1
    BY <1>1
  <2>2. t[i] = Tail(s)[i - 2]
    BY <1>1, <1>2, <1>3, <2>1
  <2>3. Tail(s)[i - 2] = s[(i - 2) + 1]
    BY <1>1, <2>1
  <2> QED BY <2>1, <2>2, <2>3
<1> QED BY <1>3, <1>4, <1>5, <1>6 DEF t

-----------------------------------------------------------------------------
(* Types                                                                   *)

\* Only the loops over links call; the calls below the innermost one are in one.
Calling == {"early", "routes", "late"}
StackOK == /\ stack \in Seq(Frame)
           /\ \A i \in 2..Len(stack) : stack[i].mode \in Calling

WorkerOK == /\ defer \in BOOLEAN /\ attempt \in 1..MaxTurns /\ turns \in 0..MaxTurns
            /\ at \in {"idle", "running", "stored", "failed"} /\ todo \in Seq(Link)
            /\ at # "idle" => attempt <= turns
CallsOK == /\ StackOK /\ returned \in Answers
           /\ sending \in {NoRoute} \cup [link : Link, tries : 1..Budget]
MemoryOK == visited \in SUBSET Link /\ tried \in SUBSET Link
RecordOK == /\ part \in BOOLEAN /\ file \in BOOLEAN /\ denied \in BOOLEAN /\ limited \in BOOLEAN
NetworkOK == /\ waiting \in SUBSET Host /\ told \in SUBSET Host
             /\ failures \in [Host -> 0..FailureLimit]
             /\ sent \in [Link -> Nat] /\ troubles \in 0..MaxTroubles
TypeInv == WorkerOK /\ CallsOK /\ MemoryOK /\ RecordOK /\ NetworkOK

\* Every call that is open entered its page, but for the innermost one before
\* it looked: the depth of the recursion is bounded by the pages.
Depth ==
  /\ IsFiniteSet(visited) /\ Cardinality(visited) <= MaxPages
  /\ stack # <<>> =>
       Len(stack) <= Cardinality(visited) + (IF Top.mode = "enter" THEN 1 ELSE 0)

LEMMA TypeInvTypes == TypeInv /\ Depth => TypeOK
<1> SUFFICES ASSUME TypeInv, Depth PROVE TypeOK
  OBVIOUS
<1>1. Cardinality(visited) \in Nat
  BY FS_CardinalityType DEF Depth
<1>2. Len(stack) <= MaxPages + 1
  <2>1. CASE stack = <<>>
    BY <2>1
  <2>2. CASE stack # <<>>
    <3>1. Len(stack) \in Nat /\ Len(stack) <= Cardinality(visited) + 1
      BY <1>1, <2>2, LenProperties DEF TypeInv, CallsOK, StackOK, Depth
    <3> QED BY <1>1, <3>1 DEF Depth
  <2> QED BY <2>1, <2>2
<1> QED BY <1>2 DEF TypeInv, TypeOK, WorkerOK, CallsOK, StackOK, MemoryOK, RecordOK, NetworkOK

LEMMA StackReturns ==
  ASSUME StackOK, stack # <<>>, stack' = Tail(stack)
  PROVE  /\ StackOK' /\ Len(stack') = Len(stack) - 1
         /\ stack' # <<>> => Top'.mode \in Calling
<1>1. /\ stack' \in Seq(Frame) /\ Len(stack') = Len(stack) - 1 /\ Len(stack) \in Nat
      /\ \A i \in 1..Len(stack) - 1 : stack'[i] = stack[i + 1]
      /\ stack' # <<>> => Head(stack') = stack[2] /\ Len(stack) >= 2
  BY Popped DEF StackOK
<1>2. ASSUME NEW i \in 2..Len(stack')
      PROVE  stack'[i].mode \in Calling
  <2>1. i \in 1..Len(stack) - 1 /\ i + 1 \in 2..Len(stack)
    BY <1>1
  <2> QED BY <1>1, <2>1 DEF StackOK
<1>3. ASSUME stack' # <<>> PROVE Head(stack').mode \in Calling
  <2>1. 2 \in 2..Len(stack)
    BY <1>1, <1>3
  <2> QED BY <1>1, <1>3, <2>1 DEF StackOK
<1> QED BY <1>1, <1>2, <1>3 DEF StackOK, Top

LEMMA StackGoesOn ==
  ASSUME StackOK, stack # <<>>, NEW e \in Frame, stack' = <<e>> \o Tail(stack)
  PROVE  StackOK' /\ Len(stack') = Len(stack) /\ stack' # <<>> /\ Top' = e
BY Replaced DEF StackOK, Top

LEMMA StackCalls ==
  ASSUME StackOK, stack # <<>>, NEW d \in Frame, NEW e \in Frame, e.mode \in Calling,
         stack' = <<d, e>> \o Tail(stack)
  PROVE  StackOK' /\ Len(stack') = Len(stack) + 1 /\ stack' # <<>> /\ Top' = d
<1>1. /\ stack' \in Seq(Frame) /\ Len(stack') = Len(stack) + 1 /\ stack' # <<>>
      /\ Head(stack') = d /\ stack'[2] = e
      /\ \A i \in 3..Len(stack) + 1 : stack'[i] = stack[i - 1]
      /\ Len(stack) \in Nat
  BY Pushed, LenProperties DEF StackOK
<1>2. ASSUME NEW i \in 2..Len(stack')
      PROVE  stack'[i].mode \in Calling
  <2>1. CASE i = 2
    BY <1>1, <2>1
  <2>2. CASE i # 2
    <3>1. i \in 3..Len(stack) + 1 /\ i - 1 \in 2..Len(stack)
      BY <1>1, <2>2
    <3> QED BY <1>1, <3>1 DEF StackOK
  <2> QED BY <2>1, <2>2
<1> QED BY <1>1, <1>2 DEF StackOK, Top

LEMMA TopIsFrame ==
  ASSUME StackOK, stack # <<>>
  PROVE  Top \in Frame /\ Top.page \in Link
<1>1. Top \in Frame
  BY Popped DEF StackOK, Top
<1> QED BY <1>1 DEF Frame

\* What the three ways to go on with a frame make of it.
LEMMA Frames ==
  ASSUME NEW l \in Link, NEW e \in Frame
  PROVE  /\ Enters(l) \in Frame
         /\ \A m \in Modes : [e EXCEPT !.mode = m] \in Frame
         /\ \A r \in SUBSET Link : [e EXCEPT !.rest = r] \in Frame
         /\ \A m \in Modes : \A r \in SUBSET Link : [e EXCEPT !.mode = m, !.rest = r] \in Frame
         /\ \A r \in SUBSET Link : [e EXCEPT !.routes = r] \in Frame
BY DEF Enters, Frame, Modes

LEMMA TypeInvInit == Init => TypeInv /\ Depth
<1> SUFFICES ASSUME Init PROVE TypeInv /\ Depth
  OBVIOUS
<1>1. Cardinality(visited) = 0 /\ IsFiniteSet(visited)
  BY FS_EmptySet DEF Init
<1>2. Depth
  BY <1>1 DEF Init, Depth
<1>3. WorkerOK
  BY DEF Init, WorkerOK
<1>4. CallsOK
  BY DEF Init, CallsOK, StackOK, Answers
<1>5. MemoryOK /\ RecordOK
  BY DEF Init, MemoryOK, RecordOK
<1>6. NetworkOK
  BY DEF Init, NetworkOK
<1> QED BY <1>2, <1>3, <1>4, <1>5, <1>6 DEF TypeInv

\* The mirrors of an attempt are mirrors.
LEMMA ChosenType ==
  ASSUME NEW n \in Nat \ {0}
  PROVE  Chosen(n) \in Seq(Link)
<1>1. Len(Mirrors) \in Nat \ {0}
  BY LenProperties
<1>2. (n - 1) % Len(Mirrors) \in 0..Len(Mirrors) - 1
  BY <1>1
<1>3. ((n - 1) % Len(Mirrors)) + 1 \in 1..Len(Mirrors)
  BY <1>1, <1>2
<1>4. Mirrors[((n - 1) % Len(Mirrors)) + 1] \in Link
  BY <1>3, ElementOfSeq
<1> QED BY <1>4 DEF Chosen

LEMMA BeginType ==
  ASSUME TypeInv, Depth, Begin, stack = <<>>
  PROVE  TypeInv' /\ Depth'
<1>1. Cardinality(visited') = 0 /\ IsFiniteSet(visited')
  BY FS_EmptySet DEF Begin
<1>2. /\ attempt' = IF at = "failed" THEN attempt + 1 ELSE 1
      /\ todo' = Chosen(attempt')
      /\ turns' = turns + 1 /\ turns + 1 <= MaxTurns
  BY DEF Begin, TypeInv, WorkerOK
<1>3. attempt' \in 1..MaxTurns /\ attempt' <= turns' /\ turns' \in 0..MaxTurns
  BY <1>2 DEF TypeInv, WorkerOK
<1>4. todo' \in Seq(Link)
  BY <1>2, <1>3, ChosenType
<1>5. WorkerOK'
  BY <1>3, <1>4 DEF Begin, TypeInv, WorkerOK
<1>6. CallsOK' /\ MemoryOK' /\ RecordOK'
  BY DEF Begin, TypeInv, CallsOK, StackOK, MemoryOK, RecordOK, calls, network
<1>7. NetworkOK'
  BY DEF Begin, TypeInv, NetworkOK, network
<1>8. Depth'
  BY <1>1 DEF Begin, Depth, calls
<1> QED BY <1>5, <1>6, <1>7, <1>8 DEF TypeInv

LEMMA MirrorStepType ==
  ASSUME TypeInv, Depth, MirrorStep
  PROVE  TypeInv' /\ Depth'
<1>1. /\ stack = <<>> /\ stack' \in Seq(Frame) /\ Len(stack') <= 1
      /\ stack' # <<>> => Top'.mode = "enter" /\ returned' = "none"
  <2>1. CASE stack' = stack
    BY <2>1 DEF MirrorStep, TypeInv, CallsOK, StackOK
  <2>2. CASE todo # <<>> /\ stack' = <<Enters(Head(todo))>>
    <3>1. Head(todo) \in Link
      BY <2>2, Popped DEF TypeInv, WorkerOK
    <3>2. Enters(Head(todo)) \in Frame /\ Enters(Head(todo)).mode = "enter"
      BY <3>1, Frames DEF Enters, Frame, Modes
    <3> QED BY <2>2, <3>2 DEF MirrorStep, Ends, Top
  <2> QED BY <2>1, <2>2 DEF MirrorStep
<1>2. WorkerOK'
  <2>1. todo # <<>> => Tail(todo) \in Seq(Link)
    BY Popped DEF TypeInv, WorkerOK
  <2>2. todo' \in Seq(Link) /\ at' \in {"running", "stored", "failed"}
    <3>1. \/ Ends("stored") \/ Ends("failed")
          \/ todo # <<>> /\ todo' = Tail(todo) /\ UNCHANGED at
      BY DEF MirrorStep
    <3>2. CASE Ends("stored") \/ Ends("failed")
      BY <3>2, EmptySeq DEF Ends
    <3>3. CASE todo # <<>> /\ todo' = Tail(todo) /\ UNCHANGED at
      BY <2>1, <3>3 DEF MirrorStep
    <3> QED BY <3>1, <3>2, <3>3
  <2>3. UNCHANGED <<defer, attempt, turns>> /\ at = "running"
    BY DEF MirrorStep, Ends, bounds
  <2> QED BY <2>2, <2>3 DEF TypeInv, WorkerOK
<1>3. CallsOK'
  <2>1. StackOK'
    BY <1>1, LenProperties DEF StackOK
  <2> QED BY <2>1 DEF MirrorStep, Ends, TypeInv, CallsOK, Answers
<1>4. MemoryOK' /\ RecordOK' /\ NetworkOK'
  BY DEF MirrorStep, TypeInv, MemoryOK, RecordOK, NetworkOK, memory, disk, network, seen, bounds
<1>5. Depth'
  <2>1. Cardinality(visited) \in Nat
    BY FS_CardinalityType DEF Depth
  <2>2. UNCHANGED visited /\ Len(stack') \in Nat
    BY <1>1, LenProperties DEF MirrorStep, memory
  <2> QED BY <1>1, <2>1, <2>2 DEF Depth
<1> QED BY <1>2, <1>3, <1>4, <1>5 DEF TypeInv
-----------------------------------------------------------------------------
(* One step of the innermost call                                          *)

\* It returns ...
Back == stack' = Tail(stack) /\ UNCHANGED <<sending, tried>>

\* ... or goes on, perhaps with a request for a route ...
On(e) ==
  /\ stack' = <<e>> \o Tail(stack) /\ e.mode # "enter"
  /\ e.mode = "fetch" => ~IsRoute(e.page) /\ returned' = "none" /\ sending' = sending
  /\ \/ UNCHANGED <<sending, tried>>
     \/ \E l \in Link : Tries(l) /\ (defer => returned = "none")

\* ... or calls itself for another page.
Down(l, e) ==
  /\ stack' = <<Enters(l), e>> \o Tail(stack) /\ e.mode \in Calling
  /\ returned' = "none" /\ UNCHANGED <<sending, tried>>
  /\ Top.mode # "enter"

\* A page is entered once, and while there is room.
Visits ==
  \/ Top.mode # "enter" /\ UNCHANGED visited
  \/ Back /\ UNCHANGED visited
  \/ ~Known(Top.page) /\ visited' = visited \cup {Top.page}

FrameStep ==
  /\ at = "running" /\ stack # <<>> /\ sending = NoRoute
  /\ Back \/ (\E e \in Frame : On(e)) \/ (\E l \in Link, e \in Frame : Down(l, e))
  /\ Visits
  /\ returned' \in Answers /\ (returned' = "stored" <=> returned = "stored")
  /\ defer /\ returned # "none" => returned' # "none"
  /\ \A l \in Link : IsRoute(l) => sent'[l] = sent[l]
  /\ UNCHANGED <<defer, worker, disk, bounds>>

LEMMA EnterMoves ==
  ASSUME TypeInv, Enter, stack # <<>> => returned = "none"
  PROVE  FrameStep
<1>1. Top \in Frame /\ Top.page \in Link /\ stack # <<>>
  BY TopIsFrame DEF Enter, In, TypeInv, CallsOK
<1>2. returned = "none" /\ at = "running" /\ sending = NoRoute /\ Top.mode = "enter"
  BY <1>1 DEF Enter, In
<1>3. /\ UNCHANGED <<defer, worker, disk, bounds>>
      /\ \A l \in Link : IsRoute(l) => sent'[l] = sent[l]
  BY DEF Enter, seen
<1>4. CASE Known(Top.page)
  BY <1>1, <1>2, <1>3, <1>4 DEF Enter, Returns, FrameStep, Back, Visits, memory, Answers
<1>5. CASE ~Known(Top.page) /\ Returns("next") /\ UNCHANGED <<sending, tried>>
  BY <1>1, <1>2, <1>3, <1>5 DEF Enter, Returns, FrameStep, Back, Visits, Answers
<1>6. CASE /\ ~Known(Top.page) /\ IsRoute(Top.page)
           /\ Becomes([Top EXCEPT !.mode = "through"]) /\ Tries(Top.page)
  <2> DEFINE e == [Top EXCEPT !.mode = "through"]
  <2>1. e \in Frame /\ e.mode = "through"
    BY <1>1 DEF Frame, Modes
  <2>2. stack' = <<e>> \o Tail(stack)
    BY <1>6 DEF Becomes
  <2> HIDE DEF e
  <2>3. On(e)
    BY <1>1, <1>2, <1>6, <2>1, <2>2 DEF On
  <2>4. visited' = visited \cup {Top.page} /\ returned' = "none"
    BY <1>6 DEF Enter, Tries
  <2> QED BY <1>1, <1>2, <1>3, <1>6, <2>1, <2>3, <2>4 DEF FrameStep, Visits, Answers
<1>7. CASE /\ ~Known(Top.page) /\ ~IsRoute(Top.page)
           /\ Becomes([Top EXCEPT !.mode = "fetch"]) /\ UNCHANGED <<returned, sending, tried>>
  <2> DEFINE e == [Top EXCEPT !.mode = "fetch"]
  <2>1. e \in Frame /\ e.mode = "fetch" /\ e.page = Top.page
    BY <1>1 DEF Frame, Modes
  <2>2. stack' = <<e>> \o Tail(stack)
    BY <1>7 DEF Becomes
  <2> HIDE DEF e
  <2>3. On(e)
    BY <1>2, <1>7, <2>1, <2>2 DEF On
  <2>4. visited' = visited \cup {Top.page}
    BY <1>7 DEF Enter
  <2> QED BY <1>1, <1>2, <1>3, <1>7, <2>1, <2>3, <2>4 DEF FrameStep, Visits, Answers
<1> QED BY <1>4, <1>5, <1>6, <1>7 DEF Enter

LEMMA ThroughMoves ==
  ASSUME TypeInv, Through
  PROVE  FrameStep
BY DEF Through, In, Returns, FrameStep, Back, Visits, memory, seen, TypeInv, CallsOK

LEMMA FetchMoves ==
  ASSUME TypeInv, Fetch, returned = "none", ~IsRoute(Top.page)
  PROVE  FrameStep
<1>1. Top \in Frame /\ Top.page \in Link /\ stack # <<>>
  BY TopIsFrame DEF Fetch, In, TypeInv, CallsOK
<1>2. /\ at = "running" /\ sending = NoRoute /\ Top.mode = "fetch"
      /\ UNCHANGED <<defer, worker, sending, memory, disk, bounds>>
  BY DEF Fetch, In
<1>3. \A l \in Link : IsRoute(l) => sent'[l] = sent[l]
  BY <1>1 DEF Fetch, Ask, seen, TypeInv, NetworkOK
<1>4. Visits /\ UNCHANGED <<sending, tried>>
  BY <1>2 DEF Visits, memory
<1>5. CASE Returns("next") \/ Returns("failed")
  BY <1>1, <1>2, <1>3, <1>4, <1>5 DEF Returns, FrameStep, Back, Answers
<1>6. ASSUME NEW m \in {"early", "routes"},
             Becomes([Top EXCEPT !.routes = Found, !.nav = Onward, !.rest = Onward, !.mode = m]),
             UNCHANGED returned
      PROVE  FrameStep
  <2> DEFINE e == [Top EXCEPT !.routes = Found, !.nav = Onward, !.rest = Onward, !.mode = m]
  <2>1. Found \in SUBSET Link /\ Onward \in SUBSET Link
    BY <1>1 DEF Found, Onward
  <2>2. e \in Frame /\ e.mode = m
    BY <1>1, <2>1 DEF Frame, Modes
  <2>3. stack' = <<e>> \o Tail(stack)
    BY <1>6 DEF Becomes
  <2> HIDE DEF e
  <2>4. On(e)
    BY <1>4, <2>2, <2>3 DEF On
  <2> QED BY <1>1, <1>2, <1>3, <1>4, <1>6, <2>2, <2>4 DEF FrameStep, TypeInv, CallsOK
<1>7. \/ Returns("next") \/ Returns("failed")
      \/ \E m \in {"early", "routes"} :
           /\ Becomes([Top EXCEPT !.routes = Found, !.nav = Onward, !.rest = Onward, !.mode = m])
           /\ UNCHANGED returned
  BY DEF Fetch
<1> QED BY <1>5, <1>6, <1>7
\* The two loops over discovery pages.
LEMMA LoopMoves ==
  ASSUME TypeInv, Early \/ Late
  PROVE  FrameStep
<1>1. /\ Top \in Frame /\ stack # <<>> /\ at = "running" /\ sending = NoRoute
      /\ Top.mode \in {"early", "late"}
      /\ UNCHANGED <<defer, worker, sending, memory, disk, bounds>>
      /\ \A l \in Link : IsRoute(l) => sent'[l] = sent[l]
  BY TopIsFrame DEF Early, Late, In, TypeInv, CallsOK, seen
<1>2. Visits /\ UNCHANGED <<sending, tried>>
  BY <1>1 DEF Visits, memory
<1>3. CASE \/ returned = "stored" /\ Returns("stored")
           \/ returned \in {"next", "failed"} /\ Returns("next")
           \/ returned \in {"none"} /\ Returns("failed")
           \/ returned # "stored" /\ ~defer /\ Returns("failed")
  BY <1>1, <1>2, <1>3 DEF Returns, FrameStep, Back, Answers
<1>4. ASSUME NEW l \in Top.rest, Calls(l, [Top EXCEPT !.rest = @ \ {l}]),
             returned = "none" \/ (returned # "stored" /\ ~defer)
      PROVE  FrameStep
  <2> DEFINE e == [Top EXCEPT !.rest = @ \ {l}]
  <2>1. l \in Link /\ Top.rest \ {l} \in SUBSET Link
    BY <1>1, <1>4 DEF Frame
  <2>2. e \in Frame /\ e.mode = Top.mode
    BY <1>1, <2>1 DEF Frame
  <2>3. stack' = <<Enters(l), e>> \o Tail(stack) /\ returned' = "none"
    BY <1>4 DEF Calls
  <2> HIDE DEF e
  <2>4. Down(l, e)
    BY <1>1, <1>2, <2>2, <2>3 DEF Down, Calling
  <2> QED BY <1>1, <1>2, <1>4, <2>1, <2>2, <2>3, <2>4 DEF FrameStep, Answers
<1>5. CASE /\ Becomes([Top EXCEPT !.mode = "routes"]) /\ returned' = "none"
           /\ returned = "none" \/ (returned # "stored" /\ ~defer)
  <2> DEFINE e == [Top EXCEPT !.mode = "routes"]
  <2>1. e \in Frame /\ e.mode = "routes"
    BY <1>1 DEF Frame, Modes
  <2>2. stack' = <<e>> \o Tail(stack)
    BY <1>5 DEF Becomes
  <2> HIDE DEF e
  <2>3. On(e)
    BY <1>2, <2>1, <2>2 DEF On
  <2> QED BY <1>1, <1>2, <1>5, <2>1, <2>3 DEF FrameStep, Answers
<1> QED BY <1>3, <1>4, <1>5 DEF Early, Late

LEMMA RouteStepMoves ==
  ASSUME TypeInv, RouteStep
  PROVE  FrameStep
<1>1. /\ Top \in Frame /\ stack # <<>> /\ at = "running" /\ sending = NoRoute
      /\ Top.mode = "routes" /\ returned \in Answers
      /\ UNCHANGED <<defer, worker, visited, disk, bounds>>
      /\ \A l \in Link : IsRoute(l) => sent'[l] = sent[l]
  BY TopIsFrame DEF RouteStep, In, TypeInv, CallsOK, seen
<1>2. Visits
  BY <1>1 DEF Visits
<1>3. CASE /\ StopsAfter /\ Returns(IF returned = "stored" THEN "stored" ELSE "next")
           /\ UNCHANGED <<sending, tried>>
  BY <1>1, <1>2, <1>3 DEF Returns, FrameStep, Back, Answers
<1>4. CASE /\ ~StopsAfter /\ Becomes([Top EXCEPT !.mode = "late", !.rest = Top.nav])
           /\ returned' = "none" /\ UNCHANGED <<sending, tried>>
  <2> DEFINE e == [Top EXCEPT !.mode = "late", !.rest = Top.nav]
  <2>1. e \in Frame /\ e.mode = "late"
    BY <1>1 DEF Frame, Modes
  <2>2. stack' = <<e>> \o Tail(stack)
    BY <1>4 DEF Becomes
  <2> HIDE DEF e
  <2>3. On(e)
    BY <1>4, <2>1, <2>2 DEF On
  <2> QED BY <1>1, <1>2, <1>4, <2>1, <2>3 DEF FrameStep, Answers, StopsAfter
<1>5. ASSUME ~StopsAfter, NEW l \in First(Top.routes)
      PROVE  /\ l \in Link
             /\ [Top EXCEPT !.routes = @ \ {l}] \in Frame
             /\ [Top EXCEPT !.routes = @ \ {l}].mode = "routes"
  <2>1. l \in Top.routes
    BY DEF First
  <2>2. Top.routes \in SUBSET Link
    BY <1>1 DEF Frame
  <2> QED BY <1>1, <2>1, <2>2 DEF Frame, Modes
<1>6. ASSUME ~StopsAfter, NEW l \in First(Top.routes),
             Calls(l, [Top EXCEPT !.routes = @ \ {l}]), UNCHANGED <<sending, tried>>
      PROVE  FrameStep
  <2> DEFINE e == [Top EXCEPT !.routes = @ \ {l}]
  <2>1. l \in Link /\ e \in Frame /\ e.mode = "routes"
    BY <1>5, <1>6
  <2>2. stack' = <<Enters(l), e>> \o Tail(stack) /\ returned' = "none"
    BY <1>6 DEF Calls
  <2> HIDE DEF e
  <2>3. Down(l, e)
    BY <1>1, <1>6, <2>1, <2>2 DEF Down, Calling
  <2> QED BY <1>1, <1>2, <1>6, <2>1, <2>2, <2>3 DEF FrameStep, Answers, StopsAfter
<1>7. ASSUME ~StopsAfter, NEW l \in First(Top.routes),
             Becomes([Top EXCEPT !.routes = @ \ {l}]),
             \/ Tries(l)
             \/ returned' = "next" /\ UNCHANGED <<sending, tried>>
      PROVE  FrameStep
  <2> DEFINE e == [Top EXCEPT !.routes = @ \ {l}]
  <2>1. l \in Link /\ e \in Frame /\ e.mode = "routes"
    BY <1>5, <1>7
  <2>2. stack' = <<e>> \o Tail(stack) /\ returned' \in {"none", "next"}
    BY <1>7 DEF Becomes, Tries
  <2> HIDE DEF e
  <2>3. On(e)
    BY <1>1, <1>7, <2>1, <2>2 DEF On, StopsAfter
  <2> QED BY <1>1, <1>2, <1>7, <2>1, <2>2, <2>3 DEF FrameStep, Answers, StopsAfter
<1> QED BY <1>3, <1>4, <1>6, <1>7 DEF RouteStep
-----------------------------------------------------------------------------
(* Who waits for an answer                                                 *)

\* Between attempts nothing is open.  An answer is for a caller that is inside a
\* loop or behind a mirror: a call that has not looked at its page has none, and
\* while a route is requested there is none.
Orderly ==
  /\ at # "running" => stack = <<>> /\ sending = NoRoute /\ returned = "none"
  /\ sending # NoRoute => returned = "none" /\ sending.link \in tried
  /\ stack # <<>> /\ Top.mode \in {"enter", "fetch"} => returned = "none" /\ sending = NoRoute
  /\ stack # <<>> /\ Top.mode = "fetch" => ~IsRoute(Top.page)

LEMMA VisitsGrow ==
  ASSUME MemoryOK, Depth, Visits, Top.page \in Link
  PROVE  /\ visited' \in SUBSET Link /\ IsFiniteSet(visited')
         /\ Cardinality(visited) \in Nat /\ Cardinality(visited') \in Nat
         /\ Cardinality(visited') <= MaxPages /\ Cardinality(visited) <= Cardinality(visited')
         /\ \/ Top.mode # "enter" \/ Back
            \/ Cardinality(visited') = Cardinality(visited) + 1
<1>1. Cardinality(visited) \in Nat /\ IsFiniteSet(visited) /\ Cardinality(visited) <= MaxPages
  BY FS_CardinalityType DEF Depth
<1>2. CASE UNCHANGED visited
  BY <1>1, <1>2 DEF Visits, Known, MemoryOK
<1>3. CASE ~Known(Top.page) /\ visited' = visited \cup {Top.page}
  <2>1. /\ IsFiniteSet(visited \cup {Top.page})
        /\ Cardinality(visited \cup {Top.page}) = Cardinality(visited) + 1
    BY <1>1, <1>3, FS_AddElement DEF Known
  <2>2. Cardinality(visited) < MaxPages
    BY <1>1, <1>3 DEF Known
  <2> QED BY <1>1, <1>3, <2>1, <2>2 DEF MemoryOK
<1> QED BY <1>2, <1>3 DEF Visits

LEMMA FrameStepCalls ==
  ASSUME TypeInv, Depth, Orderly, FrameStep
  PROVE  WorkerOK' /\ CallsOK' /\ MemoryOK' /\ Depth' /\ Orderly'
<1>1. /\ stack # <<>> /\ StackOK /\ Top \in Frame /\ Top.page \in Link /\ Len(stack) \in Nat
      /\ at = "running" /\ sending = NoRoute
      /\ Len(stack) <= Cardinality(visited) + (IF Top.mode = "enter" THEN 1 ELSE 0)
  BY TopIsFrame, LenProperties DEF FrameStep, TypeInv, CallsOK, StackOK, Depth
<1>2. /\ visited' \in SUBSET Link /\ IsFiniteSet(visited')
      /\ Cardinality(visited) \in Nat /\ Cardinality(visited') \in Nat
      /\ Cardinality(visited') <= MaxPages /\ Cardinality(visited) <= Cardinality(visited')
      /\ \/ Top.mode # "enter" \/ Back
         \/ Cardinality(visited') = Cardinality(visited) + 1
  BY <1>1, VisitsGrow DEF FrameStep, TypeInv
<1>3. WorkerOK'
  BY DEF FrameStep, TypeInv, WorkerOK, worker, bounds
<1>4. CASE Back
  <2>1. /\ StackOK' /\ Len(stack') = Len(stack) - 1
        /\ stack' # <<>> => Top'.mode \in Calling
    BY <1>1, <1>4, StackReturns DEF Back
  <2>2. Depth'
    BY <1>1, <1>2, <2>1 DEF Depth, Calling
  <2>3. Orderly'
    BY <1>1, <1>4, <2>1 DEF Orderly, Back, FrameStep, worker, Calling
  <2>4. CallsOK' /\ MemoryOK'
    BY <1>2, <1>4, <2>1 DEF Back, FrameStep, TypeInv, CallsOK, MemoryOK
  <2> QED BY <1>3, <2>2, <2>3, <2>4
<1>5. ASSUME NEW e \in Frame, On(e)
      PROVE  WorkerOK' /\ CallsOK' /\ MemoryOK' /\ Depth' /\ Orderly'
  <2>1. /\ StackOK' /\ Len(stack') = Len(stack) /\ stack' # <<>> /\ Top' = e
        /\ e.mode # "enter"
    BY <1>1, <1>5, StackGoesOn DEF On
  <2>2. ~Back
    BY <1>1, <2>1, StackReturns DEF Back
  <2>3. Depth'
    BY <1>1, <1>2, <2>1, <2>2 DEF Depth
  <2>4. \/ UNCHANGED <<sending, tried>>
        \/ \E l \in Link : /\ tried' = tried \cup {l} /\ sending' = [link |-> l, tries |-> 1]
                           /\ returned' = "none"
    BY <1>5 DEF On, Tries
  <2>5. 1 \in 1..Budget
    OBVIOUS
  <2>6. CallsOK' /\ MemoryOK'
    BY <1>2, <2>1, <2>4, <2>5 DEF FrameStep, TypeInv, CallsOK, MemoryOK
  <2>7. e.mode = "fetch" => ~IsRoute(e.page) /\ returned' = "none" /\ sending' = NoRoute
    BY <1>1, <1>5 DEF On
  <2>8. sending' # NoRoute => returned' = "none" /\ sending'.link \in tried'
    BY <1>1, <2>4
  <2>9. Orderly'
    BY <1>1, <2>1, <2>7, <2>8 DEF Orderly, FrameStep, worker
  <2> QED BY <1>3, <2>3, <2>6, <2>9
<1>6. ASSUME NEW l \in Link, NEW e \in Frame, Down(l, e)
      PROVE  WorkerOK' /\ CallsOK' /\ MemoryOK' /\ Depth' /\ Orderly'
  <2>1. Enters(l) \in Frame /\ Enters(l).mode = "enter"
    BY <1>6, Frames DEF Enters
  <2>2. /\ StackOK' /\ Len(stack') = Len(stack) + 1 /\ stack' # <<>> /\ Top' = Enters(l)
        /\ returned' = "none" /\ UNCHANGED <<sending, tried>>
    BY <1>1, <1>6, <2>1, StackCalls DEF Down
  <2>3. Depth'
    BY <1>1, <1>2, <1>6, <2>1, <2>2 DEF Depth, Down
  <2>4. CallsOK' /\ MemoryOK'
    BY <1>2, <2>2 DEF TypeInv, CallsOK, MemoryOK, Answers
  <2>5. Orderly'
    BY <1>1, <2>1, <2>2 DEF Orderly, FrameStep, worker
  <2> QED BY <1>3, <2>3, <2>4, <2>5
<1> QED BY <1>4, <1>5, <1>6 DEF FrameStep

\* A step of an attempt is one of its mirror loop, of a call, or of a request.
LEMMA StepMoves ==
  ASSUME TypeInv, Orderly, Step
  PROVE  \/ MirrorStep
         \/ (Enter \/ Through \/ Fetch \/ Early \/ RouteStep \/ Late) /\ FrameStep
         \/ Request
<1>1. Enter => stack # <<>> /\ Top.mode = "enter" /\ returned = "none"
  BY DEF Orderly, Enter, In
<1>2. Fetch => returned = "none" /\ ~IsRoute(Top.page)
  BY DEF Orderly, Fetch, In
<1> QED BY <1>1, <1>2, EnterMoves, ThroughMoves, FetchMoves, LoopMoves, RouteStepMoves DEF Step

-----------------------------------------------------------------------------
(* Hosts                                                                   *)

LEMMA FailsType ==
  ASSUME NetworkOK, NEW h \in Host, Fails(h)
  PROVE  waiting \subseteq waiting' /\ waiting' \in SUBSET Host /\ failures' \in [Host -> 0..FailureLimit]
<1> DEFINE count == IF failures[h] < FailureLimit THEN failures[h] + 1 ELSE FailureLimit
<1>1. count \in 0..FailureLimit
  BY DEF NetworkOK
<1>2. \/ UNCHANGED <<waiting, failures>>
      \/ /\ failures' = [failures EXCEPT ![h] = count]
         /\ waiting' = IF count = FailureLimit THEN waiting \cup {h} ELSE waiting
  BY DEF Fails
<1> HIDE DEF count
<1> QED BY <1>1, <1>2 DEF NetworkOK

\* When retries are deferred, a host that asked for patience is waited for.
Heeded == defer => told \subseteq waiting
HostsOK == NetworkOK /\ RecordOK /\ Heeded

\* Asking a host needs its wait to be over.
Asked(l) == HostOf[l] \notin waiting /\ Ask(l)

LEMMA AskedType ==
  ASSUME NetworkOK, NEW l \in Link, Ask(l)
  PROVE  /\ sent' \in [Link -> Nat] /\ sent'[l] = sent[l] + 1
         /\ \A m \in Link \ {l} : sent'[m] = sent[m]
BY DEF Ask, NetworkOK

\* What a page answers.
LEMMA FetchHosts ==
  ASSUME TypeInv, Heeded, Fetch
  PROVE  HostsOK' /\ (UNCHANGED sent \/ Asked(Top.page)) /\ Top.page \in Link
<1> DEFINE h == HostOf[Top.page]
<1>1. Top.page \in Link /\ h \in Host /\ UNCHANGED <<defer, part, file, troubles>>
  BY TopIsFrame DEF Fetch, In, TypeInv, CallsOK, disk, bounds
<1>2. CASE denied' = TRUE /\ UNCHANGED <<waiting, failures, limited, seen>>
  BY <1>1, <1>2 DEF TypeInv, NetworkOK, RecordOK, HostsOK, Heeded, seen
<1>3. CASE Asked(Top.page) /\ UNCHANGED denied
  <2>1. sent' \in [Link -> Nat]
    BY <1>1, <1>3, AskedType DEF Asked, TypeInv
  <2>2. CASE UNCHANGED <<waiting, failures, limited, told>>
    BY <1>1, <1>3, <2>1, <2>2 DEF TypeInv, NetworkOK, RecordOK, HostsOK, Heeded
  <2>3. CASE Fails(h) /\ UNCHANGED <<limited, told>>
    <3>1. /\ waiting \subseteq waiting' /\ waiting' \in SUBSET Host
          /\ failures' \in [Host -> 0..FailureLimit]
      BY <1>1, <2>3, FailsType DEF TypeInv
    <3> QED BY <1>1, <1>3, <2>1, <2>3, <3>1 DEF TypeInv, NetworkOK, RecordOK, HostsOK, Heeded
  <2>4. CASE PageLimited(h) /\ told' = told \cup {h} /\ UNCHANGED failures
    <3>1. /\ defer => waiting' = waiting \cup {h} /\ limited' = TRUE
          /\ ~defer => UNCHANGED <<waiting, limited>>
      BY <2>4 DEF PageLimited
    <3>2. limited' \in BOOLEAN /\ waiting' \in SUBSET Host /\ told' \in SUBSET Host
      BY <1>1, <2>4, <3>1 DEF TypeInv, NetworkOK, RecordOK
    <3>3. Heeded'
      BY <1>1, <2>4, <3>1 DEF Heeded
    <3> QED BY <1>1, <1>3, <2>1, <2>4, <3>2, <3>3 DEF TypeInv, NetworkOK, RecordOK, HostsOK
  <2> QED BY <1>3, <2>2, <2>3, <2>4 DEF Fetch, Asked
<1> QED BY <1>1, <1>2, <1>3 DEF Fetch, Asked, seen

\* What a route answers.
LEMMA RequestHosts ==
  ASSUME TypeInv, Heeded, Request
  PROVE  /\ HostsOK' /\ (UNCHANGED sent \/ Asked(sending.link)) /\ sending.link \in Link
         /\ sending.tries \in Nat \ {0}
<1> DEFINE h == HostOf[sending.link]
<1>1. /\ sending \in [link : Link, tries : 1..Budget] /\ sending.link \in Link /\ h \in Host
      /\ sending.tries \in Nat \ {0} /\ UNCHANGED <<defer, troubles>>
  BY DEF Request, TypeInv, CallsOK, bounds
<1>2. CASE denied' = TRUE /\ limited' = FALSE /\ UNCHANGED <<disk, waiting, failures, seen>>
  BY <1>1, <1>2 DEF TypeInv, NetworkOK, RecordOK, HostsOK, Heeded, seen, disk
<1>3. CASE Asked(sending.link) /\ UNCHANGED denied
  <2>1. sent' \in [Link -> Nat]
    BY <1>1, <1>3, AskedType DEF Asked, TypeInv
  <2>2. part' \in BOOLEAN /\ file' \in BOOLEAN /\ limited' \in BOOLEAN
    BY <1>3 DEF Request, Asked, TypeInv, RecordOK, disk
  <2>3. RecordOK'
    BY <1>3, <2>2 DEF TypeInv, RecordOK
  <2>4. CASE UNCHANGED <<waiting, failures, told>>
    BY <1>1, <1>3, <2>1, <2>3, <2>4 DEF TypeInv, NetworkOK, HostsOK, Heeded
  <2>5. CASE Fails(h) /\ UNCHANGED told
    <3>1. /\ waiting \subseteq waiting' /\ waiting' \in SUBSET Host
          /\ failures' \in [Host -> 0..FailureLimit]
      BY <1>1, <2>5, FailsType DEF TypeInv
    <3> QED BY <1>1, <1>3, <2>1, <2>3, <2>5, <3>1 DEF TypeInv, NetworkOK, HostsOK, Heeded
  <2>6. CASE waiting' = waiting \cup {h} /\ told' = told \cup {h} /\ UNCHANGED failures
    BY <1>1, <1>3, <2>1, <2>3, <2>6 DEF TypeInv, NetworkOK, HostsOK, Heeded
  <2>7. CASE failures' = [failures EXCEPT ![h] = 0] /\ UNCHANGED <<waiting, told>>
    BY <1>1, <1>3, <2>1, <2>3, <2>7 DEF TypeInv, NetworkOK, HostsOK, Heeded
  <2> QED BY <1>3, <2>4, <2>5, <2>6, <2>7 DEF Request, Asked
<1> QED BY <1>1, <1>2, <1>3 DEF Request, Asked, seen

LEMMA HostsStep ==
  ASSUME TypeInv, Heeded, [Next]_vars
  PROVE  HostsOK'
<1>1. CASE UNCHANGED vars
  BY <1>1 DEF vars, disk, network, seen, bounds, TypeInv, NetworkOK, RecordOK, HostsOK, Heeded
<1>2. CASE Begin
  BY <1>2 DEF Begin, calls, network, TypeInv, NetworkOK, RecordOK, HostsOK, Heeded
<1>3. CASE MirrorStep \/ Through \/ Early \/ Late
  BY <1>3 DEF MirrorStep, Through, Early, Late, disk, network, seen, bounds,
              TypeInv, NetworkOK, RecordOK, HostsOK, Heeded
<1>4. CASE Enter
  <2>1. limited' \in BOOLEAN
    BY <1>4 DEF Enter, Tries, memory, TypeInv, RecordOK
  <2> QED BY <1>4, <2>1 DEF Enter, disk, network, seen, bounds,
                            TypeInv, NetworkOK, RecordOK, HostsOK, Heeded
<1>5. CASE RouteStep
  <2>1. limited' \in BOOLEAN
    BY <1>5 DEF RouteStep, Tries, TypeInv, RecordOK
  <2> QED BY <1>5, <2>1 DEF RouteStep, disk, network, seen, bounds,
                            TypeInv, NetworkOK, RecordOK, HostsOK, Heeded
<1>6. ASSUME NEW h \in Host, WaitPasses(h)
      PROVE  HostsOK'
  BY <1>6 DEF WaitPasses, disk, bounds, TypeInv, NetworkOK, RecordOK, HostsOK, Heeded
<1>7. ASSUME NEW h \in Host, OthersFail(h)
      PROVE  HostsOK'
  BY <1>7 DEF OthersFail, disk, seen, TypeInv, NetworkOK, RecordOK, HostsOK, Heeded
<1> QED BY <1>1, <1>2, <1>3, <1>4, <1>5, <1>6, <1>7, FetchHosts, RequestHosts DEF Next, Step
-----------------------------------------------------------------------------
(* The calls, whatever happens                                             *)

\* A request leaves its route, with the document or without it, or repeats it.
RequestEnds ==
  /\ at = "running" /\ sending # NoRoute
  /\ UNCHANGED <<defer, worker, stack, memory, bounds>>
  /\ \/ GivesUp /\ UNCHANGED file
     \/ Stores /\ file' = TRUE
     \/ /\ sending.tries < Budget /\ sending' = [sending EXCEPT !.tries = @ + 1]
        /\ UNCHANGED <<returned, file>>

LEMMA RequestMoves ==
  ASSUME TypeInv, Request
  PROVE  RequestEnds
<1>1. sending \in [link : Link, tries : 1..Budget]
  BY DEF Request, TypeInv, CallsOK
<1>2. Again => \/ GivesUp
               \/ /\ sending.tries < Budget /\ sending' = [sending EXCEPT !.tries = @ + 1]
                  /\ UNCHANGED returned
  BY <1>1 DEF Again, Requests
<1> QED BY <1>2 DEF Request, RequestEnds, disk

LEMMA RequestCalls ==
  ASSUME TypeInv, Depth, Orderly, RequestEnds
  PROVE  WorkerOK' /\ CallsOK' /\ MemoryOK' /\ Depth' /\ Orderly'
<1>1. sending \in [link : Link, tries : 1..Budget]
  BY DEF RequestEnds, TypeInv, CallsOK
<1>2. WorkerOK' /\ MemoryOK' /\ Depth'
  BY DEF RequestEnds, TypeInv, WorkerOK, MemoryOK, Depth, Top, worker, memory, bounds
<1>3. \/ sending' = NoRoute
      \/ /\ sending' \in [link : Link, tries : 1..Budget] /\ sending'.link = sending.link
         /\ UNCHANGED returned
  BY <1>1 DEF RequestEnds, GivesUp, Stores
<1>4. returned' \in Answers
  BY DEF RequestEnds, GivesUp, Stores, TypeInv, CallsOK, Answers
<1>5. CallsOK'
  BY <1>3, <1>4 DEF RequestEnds, TypeInv, CallsOK, StackOK
<1>6. Orderly'
  BY <1>3 DEF RequestEnds, Orderly, Top, memory, worker
<1> QED BY <1>2, <1>5, <1>6

LEMMA CallsStep ==
  ASSUME TypeInv, Depth, Orderly, Heeded, [Next]_vars
  PROVE  TypeInv' /\ Depth' /\ Orderly' /\ Heeded'
<1>1. HostsOK'
  BY HostsStep
<1>2. CASE \/ UNCHANGED vars
           \/ \E h \in Host : WaitPasses(h) \/ OthersFail(h)
  <2>1. UNCHANGED <<defer, worker, stack, returned, sending, memory>> /\ turns' = turns
    BY <1>2 DEF vars, WaitPasses, OthersFail, calls, bounds
  <2>2. WorkerOK' /\ CallsOK' /\ MemoryOK'
    BY <2>1 DEF TypeInv, WorkerOK, CallsOK, StackOK, MemoryOK, worker, memory
  <2>3. Depth' /\ Orderly'
    BY <2>1 DEF Depth, Orderly, Top, worker, memory
  <2> QED BY <1>1, <2>2, <2>3 DEF TypeInv, HostsOK
<1>3. CASE Begin
  <2>1. stack = <<>> /\ sending = NoRoute /\ returned = "none"
    BY <1>3 DEF Begin, Orderly
  <2>2. Orderly'
    BY <1>3, <2>1 DEF Begin, Orderly, calls
  <2> QED BY <1>1, <1>3, <2>1, <2>2, BeginType DEF HostsOK
<1>4. CASE MirrorStep
  <2>1. /\ sending' = NoRoute /\ UNCHANGED tried /\ at = "running"
        /\ \/ stack' = <<>> /\ returned' = "none" /\ at' # "running"
           \/ /\ stack' = <<Enters(Head(todo))>> /\ returned' = "none" /\ at' = at
    BY <1>4 DEF MirrorStep, Ends, memory
  <2>2. stack' # <<>> => Top'.mode = "enter"
    BY <2>1 DEF Top, Enters
  <2>3. Orderly'
    BY <2>1, <2>2 DEF Orderly
  <2> QED BY <1>1, <1>4, <2>3, MirrorStepType DEF HostsOK
<1>5. CASE FrameStep
  BY <1>1, <1>5, FrameStepCalls DEF TypeInv, HostsOK
<1>6. CASE Request
  BY <1>1, <1>6, RequestMoves, RequestCalls DEF TypeInv, HostsOK
<1> QED BY <1>2, <1>3, <1>4, <1>5, <1>6, StepMoves DEF Next

CallsInv == TypeInv /\ Depth /\ Orderly /\ Heeded

LEMMA CallsInvInit == Init => CallsInv
<1>1. Init => Orderly /\ Heeded
  BY DEF Init, Orderly, Heeded
<1> QED BY <1>1, TypeInvInit DEF CallsInv

LEMMA CallsInvStep == CallsInv /\ [Next]_vars => CallsInv'
BY CallsStep DEF CallsInv

\* Every variable keeps its shape.  In particular the recursion goes no deeper
\* than the pages an attempt may visit, whatever leads to what, in circles too.
THEOREM TypeCorrect == Spec => []TypeOK
<1>1. CallsInv => TypeOK
  BY TypeInvTypes DEF CallsInv
<1> QED BY <1>1, CallsInvInit, CallsInvStep, PTL DEF Spec

\* With deferred retries no host is asked again before the Retry-After of a 429
\* has passed: a host that answered 429, to a page or to a file, has a wait that
\* nothing ends but the time.
THEOREM PatienceIsKept == Spec => LimitedHostIsLeftAlone
<1>1. CallsInv /\ [Next]_vars
      => [defer => \A l \in Link : sent'[l] > sent[l] => HostOf[l] \notin told]_vars
  <2> SUFFICES ASSUME CallsInv, Next, defer, NEW l \in Link, sent'[l] > sent[l]
               PROVE  HostOf[l] \notin told
    BY DEF vars, seen
  <2>1. sent \in [Link -> Nat]
    BY DEF CallsInv, TypeInv, NetworkOK
  <2>2. \E m \in Link : Asked(m)
    <3>1. ~Begin
      <4>1. Begin => sent'[l] = 0
        BY DEF Begin
      <4> QED BY <2>1, <4>1
    <3>2. ASSUME NEW h \in Host, WaitPasses(h) \/ OthersFail(h)
          PROVE  sent' = sent
      BY <3>2 DEF WaitPasses, OthersFail, seen
    <3>3. sent' # sent
      BY <2>1
    <3>4. Fetch \/ Request
      BY <3>1, <3>2, <3>3 DEF Next, Step, MirrorStep, Enter, Through, Early, RouteStep, Late, seen
    <3> QED BY <3>3, <3>4, FetchHosts, RequestHosts DEF CallsInv
  <2>3. PICK m \in Link : Asked(m)
    BY <2>2
  <2>4. l = m
    BY <2>1, <2>3, AskedType DEF Asked, CallsInv, TypeInv
  <2> QED BY <2>3, <2>4 DEF Asked, CallsInv, Heeded
<1> QED BY <1>1, CallsInvInit, CallsInvStep, PTL DEF Spec, LimitedHostIsLeftAlone
-----------------------------------------------------------------------------
(* One transfer in a turn                                                  *)

\* The routes asked in this attempt were tried; with deferred retries there is
\* one at most, and from then on either it is asked or its answer goes up
\* through the calls.
Once ==
  /\ \A l \in Link : IsRoute(l) /\ sent[l] > 0 => l \in tried
  /\ defer => /\ \A l, m \in tried : l = m
              /\ at = "running" /\ tried # {} => sending # NoRoute \/ returned # "none"

LEMMA OnceStep ==
  ASSUME CallsInv, Once, [Next]_vars
  PROVE  Once'
<1>1. TypeInv /\ Orderly /\ Heeded /\ sent \in [Link -> Nat]
  BY DEF CallsInv, TypeInv, NetworkOK
<1>2. CASE \/ UNCHANGED vars
           \/ \E h \in Host : WaitPasses(h) \/ OthersFail(h)
  BY <1>2 DEF Once, vars, WaitPasses, OthersFail, calls, memory, worker, seen
<1>3. CASE Begin
  BY <1>3 DEF Begin, Once
<1>4. CASE MirrorStep
  <2>1. UNCHANGED <<defer, tried, sent>> /\ sending = NoRoute /\ at = "running"
    BY <1>4 DEF MirrorStep, memory, seen
  <2>2. defer /\ tried # {} => at' # "running"
    BY <1>4, <2>1 DEF MirrorStep, Once, Ends
  <2> QED BY <2>1, <2>2 DEF Once
<1>5. CASE FrameStep
  <2>1. \A l \in Link : IsRoute(l) => sent'[l] = sent[l]
    BY <1>5 DEF FrameStep
  <2>2. UNCHANGED <<defer, at>> /\ at = "running" /\ sending = NoRoute
    BY <1>5 DEF FrameStep, worker
  <2>3. CASE UNCHANGED <<sending, tried>>
    <3>1. defer /\ tried # {} => returned' # "none"
      BY <1>5, <2>2 DEF FrameStep, Once
    <3> QED BY <2>1, <2>2, <2>3, <3>1 DEF Once
  <2>4. ASSUME NEW l \in Link, Tries(l), defer => returned = "none"
        PROVE  Once'
    <3>1. tried' = tried \cup {l} /\ sending' # NoRoute
      BY <2>4 DEF Tries, NoRoute
    <3>2. defer => tried = {}
      BY <2>2, <2>4 DEF Once
    <3> QED BY <2>1, <2>2, <3>1, <3>2 DEF Once
  <2> QED BY <1>5, <2>3, <2>4 DEF FrameStep, Back, On, Down
<1>6. CASE Request
  <2>1. RequestEnds
    BY <1>1, <1>6, RequestMoves
  <2>2. UNCHANGED <<defer, at, tried>> /\ (sending' # NoRoute \/ returned' # "none")
    <3>1. sending \in [link : Link, tries : 1..Budget]
      BY <1>1, <2>1 DEF RequestEnds, TypeInv, CallsOK
    <3>2. sending' = [sending EXCEPT !.tries = @ + 1] => sending'.tries # 0
      BY <3>1
    <3>3. NoRoute.tries = 0
      BY DEF NoRoute
    <3>4. sending' = [sending EXCEPT !.tries = @ + 1] => sending' # NoRoute
      BY <3>2, <3>3
    <3> QED BY <2>1, <3>4 DEF RequestEnds, worker, memory, GivesUp, Stores
  <2>3. sending.link \in tried /\ (UNCHANGED sent \/ Asked(sending.link)) /\ sending.link \in Link
    BY <1>1, <1>6, RequestHosts DEF Request, Orderly
  <2>4. \A l \in Link : IsRoute(l) /\ sent'[l] > 0 => l \in tried
    BY <1>1, <2>3, AskedType DEF Asked, Once, TypeInv
  <2> QED BY <2>2, <2>4 DEF Once
<1> QED BY <1>1, <1>2, <1>3, <1>4, <1>5, <1>6, StepMoves DEF Next

\* With deferred retries a turn makes requests for one file at most, however deep
\* the calls of the pages are nested and whatever the pages offer: after the
\* first route every loop in every open call ends with the answer of the call
\* it made.
THEOREM OneTransfer == Spec => []OneTransferPerTurn
<1>1. CallsInv /\ Once => OneTransferPerTurn
  <2> SUFFICES ASSUME CallsInv, Once, defer
               PROVE  Cardinality({l \in Link : IsRoute(l) /\ sent[l] > 0}) <= 1
    BY DEF OneTransferPerTurn
  <2> DEFINE S == {l \in Link : IsRoute(l) /\ sent[l] > 0}
  <2>1. \A l, m \in S : l = m
    BY DEF Once
  <2> HIDE DEF S
  <2>2. Cardinality(S) <= 1
    <3>1. CASE S = {}
      BY <3>1, FS_EmptySet
    <3>2. CASE S # {}
      <4>1. PICK l \in S : TRUE
        BY <3>2
      <4>2. S = {l}
        BY <2>1, <4>1
      <4>3. Cardinality({l}) = 1
        BY FS_Singleton
      <4> QED BY <4>2, <4>3
    <3> QED BY <3>1, <3>2
  <2> QED BY <2>2 DEF S
<1>2. Init => CallsInv /\ Once
  BY CallsInvInit DEF Init, Once
<1>3. CallsInv /\ Once /\ [Next]_vars => CallsInv' /\ Once'
  BY CallsInvStep, OnceStep
<1> QED BY <1>1, <1>2, <1>3, PTL DEF Spec

-----------------------------------------------------------------------------
(* A stored document                                                       *)

\* The document is stored exactly while the answer "stored" is on its way up.
OnItsWay == at = "running" => (file <=> returned = "stored")

LEMMA OnItsWayStep ==
  ASSUME CallsInv, OnItsWay, [Next]_vars
  PROVE  OnItsWay'
<1>1. TypeInv /\ Orderly /\ file \in BOOLEAN
  BY DEF CallsInv, TypeInv, RecordOK
<1>2. CASE \/ UNCHANGED vars
           \/ \E h \in Host : WaitPasses(h) \/ OthersFail(h)
  BY <1>2 DEF OnItsWay, vars, WaitPasses, OthersFail, calls, disk, worker
<1>3. CASE Begin
  BY <1>1, <1>3 DEF Begin, Orderly, OnItsWay, calls
<1>4. CASE MirrorStep
  <2>1. UNCHANGED file /\ returned' = "none" /\ at = "running" /\ (at' = at => returned # "stored")
    BY <1>4 DEF MirrorStep, Ends, disk
  <2> QED BY <2>1 DEF OnItsWay
<1>5. CASE FrameStep
  BY <1>5 DEF FrameStep, OnItsWay, worker, disk
<1>6. CASE Request
  <2>1. RequestEnds
    BY <1>1, <1>6, RequestMoves
  <2>2. ~file /\ returned = "none"
    BY <1>1, <2>1 DEF RequestEnds, Orderly, OnItsWay
  <2> QED BY <2>1, <2>2 DEF RequestEnds, GivesUp, Stores, OnItsWay
<1> QED BY <1>1, <1>2, <1>3, <1>4, <1>5, <1>6, StepMoves DEF Next

\* When the document is stored nothing more is requested, whatever routes and
\* pages the open calls still have, and the attempt ends as a success.
THEOREM StoredIsTheEnd == Spec => StoredEndsTheSearch
<1>1. CallsInv /\ OnItsWay /\ [Next]_vars
      => [/\ file /\ at = "running" => sent' = sent
          /\ at' # at /\ at' \in {"stored", "failed"} => (at' = "stored" <=> file)]_vars
  <2> SUFFICES ASSUME CallsInv, OnItsWay, Next
               PROVE  /\ file /\ at = "running" => sent' = sent
                      /\ at' # at /\ at' \in {"stored", "failed"} => (at' = "stored" <=> file)
    OBVIOUS
  <2>1. TypeInv /\ Orderly /\ file \in BOOLEAN
    BY DEF CallsInv, TypeInv, RecordOK
  <2>2. ASSUME file, at = "running"
        PROVE  sent' = sent
    <3>1. returned = "stored"
      BY <2>2 DEF OnItsWay
    <3>2. ~Fetch /\ ~Request /\ ~Begin
      BY <2>1, <2>2, <3>1 DEF Fetch, Request, Begin, Orderly, In
    <3> QED BY <3>2 DEF Next, Step, MirrorStep, Enter, Through, Early, RouteStep, Late,
                        WaitPasses, OthersFail, seen
  <2>3. ASSUME at' # at, at' \in {"stored", "failed"}
        PROVE  at' = "stored" <=> file
    <3>1. MirrorStep
      <4>1. ~Begin
        BY <2>3 DEF Begin
      <4>2. ~FrameStep /\ ~RequestEnds
        BY <2>3 DEF FrameStep, RequestEnds, worker
      <4>3. ASSUME NEW h \in Host, WaitPasses(h) \/ OthersFail(h)
            PROVE  FALSE
        BY <2>3, <4>3 DEF WaitPasses, OthersFail, worker
      <4> QED BY <2>1, <4>1, <4>2, <4>3, StepMoves, RequestMoves DEF Next
    <3>2. /\ at = "running"
          /\ returned = "stored" => at' = "stored"
          /\ returned # "stored" => at' # "stored"
      BY <2>3, <3>1 DEF MirrorStep, Ends
    <3> QED BY <2>1, <3>2 DEF OnItsWay
  <2> QED BY <2>2, <2>3
<1>2. Init => CallsInv /\ OnItsWay
  BY CallsInvInit DEF Init, OnItsWay
<1>3. CallsInv /\ OnItsWay /\ [Next]_vars => CallsInv' /\ OnItsWay'
  BY CallsInvStep, OnItsWayStep
<1> QED BY <1>1, <1>2, <1>3, PTL DEF Spec, StoredEndsTheSearch

=============================================================================
