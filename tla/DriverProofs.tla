----------------------------- MODULE DriverProofs -----------------------------
(***************************************************************************)
(* What holds of the pool and its driver for any documents, titles, pages, *)
(* threads, sizes of the queue and of the target, attempts, runs and       *)
(* troubles.                                                               *)
(*                                                                         *)
(* TypeInv: types, and what unfinished_tasks counts: the queue and the     *)
(* threads with a job.  An idle pool is therefore an empty one.            *)
(*                                                                         *)
(* TargetInv: a completion moves from the outstanding to the downloaded    *)
(* documents, so what was there before the run (Existing) never changes    *)
(* and only a decision uses up room; the page was cut to the room.         *)
(*                                                                         *)
(* PlacesInv: a document of the run is in the hands of the pool (Live),    *)
(* waits for a later round (Later) or has ended in a record nobody will    *)
(* write again.  For that every job in hand owns the record of its name:   *)
(* the record carries the job's document and attempt, no job to come has   *)
(* the name, and no rejection of a later page can take it.                 *)
(***************************************************************************)
EXTENDS Driver, SequenceTheorems, FiniteSetTheorems, TLAPS

-----------------------------------------------------------------------------
(* Sequences and sets                                                      *)

LEMMA LeastOfTwo ==
  ASSUME NEW a \in Int, NEW b \in Int
  PROVE  Min({a, b}) \in {a, b} /\ Min({a, b}) <= a /\ Min({a, b}) <= b
<1>1. \E x \in {a, b} : \A y \in {a, b} : x <= y
  <2>1. CASE a <= b
    BY <2>1
  <2>2. CASE b <= a
    BY <2>2
  <2> QED BY <2>1, <2>2
<1>2. Min({a, b}) \in {a, b} /\ \A y \in {a, b} : Min({a, b}) <= y
  BY <1>1 DEF Min
<1> QED BY <1>2

\* What a function makes of finitely many things is finitely many things.
LEMMA ImageIsFinite ==
  ASSUME NEW f, IsFiniteSet(DOMAIN f), f = [x \in DOMAIN f |-> f[x]]
  PROVE  IsFiniteSet(Range(f))
<1>1. f \in Surjection(DOMAIN f, Range(f))
  BY DEF Surjection, Range
<1> QED BY <1>1, FS_Surjection

LEMMA SequenceOfSet ==
  ASSUME NEW S, IsFiniteSet(S)
  PROVE  /\ SetToSeq(S) \in Seq(S) /\ Range(SetToSeq(S)) = S
         /\ IsInjective(SetToSeq(S))
<1> DEFINE n == Cardinality(S)
           s == SetToSeq(S)
<1>1. n \in Nat /\ ExistsBijection(1..n, S)
  BY FS_CardinalityType
<1>2. \E f \in [1..n -> S] : IsInjective(f)
  BY <1>1 DEF ExistsBijection, Bijection, Injection
<1>3. s \in [1..n -> S] /\ IsInjective(s)
  BY <1>2 DEF SetToSeq
<1>4. s \in Injection(1..n, S)
  BY <1>3 DEF Injection
<1>5. Cardinality(1..n) = n
  BY <1>1, FS_Interval
<1>6. s \in Surjection(1..n, S)
  BY <1>1, <1>4, <1>5, FS_Injection
<1>7. Range(s) = S
  BY <1>3, <1>6 DEF Surjection, Range
<1>8. s \in Seq(S)
  BY <1>1, <1>3
<1> QED BY <1>3, <1>7, <1>8

\* The first job leaves the queue, or one joins it.
LEMMA TailContents ==
  ASSUME NEW S, NEW s \in Seq(S), s # <<>>
  PROVE  /\ Head(s) \in S /\ Tail(s) \in Seq(S) /\ Len(Tail(s)) = Len(s) - 1
         /\ Range(s) = Range(Tail(s)) \cup {Head(s)}
<1>1. /\ Head(s) \in S /\ Tail(s) \in Seq(S) /\ Len(Tail(s)) = Len(s) - 1
      /\ \A i \in 1..Len(Tail(s)) : Tail(s)[i] = s[i + 1]
  BY HeadTailProperties
<1>2. Len(s) \in Nat \ {0} /\ DOMAIN s = 1..Len(s) /\ Head(s) = s[1]
  BY EmptySeq, LenProperties
<1> DEFINE t == Tail(s)
<1>3. DOMAIN t = 1..Len(s) - 1
  BY <1>1, LenProperties
<1>4. \A i \in 1..Len(s) - 1 : t[i] = s[i + 1]
  BY <1>1
<1> HIDE DEF t
<1>5. \A x \in Range(s) : x \in Range(t) \cup {Head(s)}
  <2> SUFFICES ASSUME NEW i \in 1..Len(s), i # 1 PROVE s[i] \in Range(t)
    BY <1>2 DEF Range
  <2>1. i - 1 \in 1..Len(s) - 1 /\ (i - 1) + 1 = i
    BY <1>2
  <2>2. t[i - 1] = s[i]
    BY <2>1, <1>4
  <2> QED BY <2>1, <2>2, <1>3 DEF Range
<1>6. \A x \in Range(t) : x \in Range(s)
  <2> SUFFICES ASSUME NEW i \in 1..Len(s) - 1 PROVE t[i] \in Range(s)
    BY <1>3 DEF Range
  <2>1. i + 1 \in 1..Len(s)
    BY <1>2
  <2> QED BY <2>1, <1>2, <1>4 DEF Range
<1>7. Head(s) \in Range(s)
  BY <1>2 DEF Range
<1>8. Range(s) = Range(t) \cup {Head(s)}
  BY <1>5, <1>6, <1>7
<1> QED BY <1>1, <1>8 DEF t

LEMMA AppendContents ==
  ASSUME NEW S, NEW s \in Seq(S), NEW e \in S
  PROVE  /\ Append(s, e) \in Seq(S) /\ Len(Append(s, e)) = Len(s) + 1
         /\ Range(Append(s, e)) = Range(s) \cup {e}
<1> DEFINE t == Append(s, e)
<1>1. /\ t \in Seq(S) /\ Len(t) = Len(s) + 1
      /\ \A i \in 1..Len(s) : t[i] = s[i]
      /\ t[Len(s) + 1] = e
  BY AppendProperties
<1>2. DOMAIN t = 1..Len(s) + 1 /\ DOMAIN s = 1..Len(s) /\ Len(s) \in Nat
  BY <1>1, LenProperties
<1> HIDE DEF t
<1>3. \A x \in Range(t) : x \in Range(s) \cup {e}
  BY <1>1, <1>2 DEF Range
<1>4. \A x \in Range(s) : x \in Range(t)
  BY <1>1, <1>2 DEF Range
<1>5. e \in Range(t)
  BY <1>1, <1>2 DEF Range
<1>6. Range(t) = Range(s) \cup {e}
  BY <1>3, <1>4, <1>5
<1> QED BY <1>1, <1>6 DEF t

-----------------------------------------------------------------------------
(* Types                                                                   *)

Outcome == [job : Job, result : Results]
Turn == [step : Steps, job : Job \cup {NoJob}, result : Results]
Busy == {w \in Worker : turn[w].step \notin {"idle", "exited"}}

PoolOK == /\ jobs \in Seq(Job) /\ Len(jobs) <= MaxSize /\ outcomes \in Seq(Outcome)
          /\ stop \in BOOLEAN /\ closed \in BOOLEAN /\ troubles \in 0..MaxTroubles
TurnsOK == /\ turn \in [Worker -> Turn]
           /\ \A w \in Worker : turn[w].job = NoJob <=> turn[w].step \in {"idle", "exited"}
LedgerOK == /\ DOMAIN ledger \subseteq Filename /\ IsFiniteSet(DOMAIN ledger)
            /\ \A n \in DOMAIN ledger : ledger[n] \in Record
            /\ files \subseteq Filename
MainOK == /\ pc \in Places /\ run \in 0..MaxRuns
          /\ page \in 1..(Len(Listing) + 1) /\ cache \subseteq DOMAIN Listing
          /\ todo \in Seq(Job)
          /\ pc \in {"admit", "readmit"} => todo # <<>>
          /\ pc \in {"search", "decide", "admit"} => page <= Len(Listing)
CountsOK == /\ downloaded \in Nat /\ queued \in Nat /\ completed \in Nat /\ seen \in Nat
            /\ seen <= completed
SetsOK == /\ held \subseteq Job /\ failed \subseteq Job /\ backlog \subseteq Job
          /\ IsFiniteSet(held) /\ IsFiniteSet(failed) /\ IsFiniteSet(backlog)
          /\ scheduled \in [names : SUBSET Filename, docs : SUBSET Doc]

\* What was put into the queue and not yet marked as done is in it or in hand.
Accounting == unfinished = Len(jobs) + Cardinality(Busy)

TypeInv == PoolOK /\ TurnsOK /\ LedgerOK /\ MainOK /\ CountsOK /\ SetsOK /\ Accounting

LEMMA Sizes == MaxSize \in Nat \ {0} /\ MaxAttempts \in Nat \ {0} /\ MaxTroubles \in Nat
BY PoolAssumption

LEMMA BusyIsFinite ==
  /\ IsFiniteSet(Busy) /\ Cardinality(Busy) \in Nat
  /\ Busy # {} <=> Cardinality(Busy) # 0
<1>1. IsFiniteSet(Busy)
  BY PoolAssumption, FS_Subset DEF Busy
<1> QED BY <1>1, FS_CardinalityType, FS_EmptySet

LEMMA TypeInvTypes == TypeInv => TypeOK
BY BusyIsFinite, LenProperties
   DEF TypeInv, TypeOK, PoolOK, TurnsOK, LedgerOK, MainOK, CountsOK, SetsOK, Accounting, Turn, Outcome

LEMMA RestingType == ASSUME NEW s \in {"idle", "exited"}
                     PROVE  Resting(s) \in Turn
BY DEF Resting, Turn, Steps, Results

LEMMA TypeInvInit == Init => TypeInv
<1> SUFFICES ASSUME Init PROVE TypeInv
  OBVIOUS
<1>1. PoolOK
  <2>1. <<>> \in Seq(Job) /\ <<>> \in Seq(Outcome) /\ Len(<<>>) = 0
    BY EmptySeq
  <2>2. jobs = <<>> /\ outcomes = <<>> /\ troubles = 0
    BY DEF Init
  <2>3. stop \in BOOLEAN /\ closed \in BOOLEAN
    BY Zenon DEF Init
  <2>4. 0 <= MaxSize /\ 0 \in 0..MaxTroubles
    BY Sizes
  <2> QED BY <2>1, <2>2, <2>3, <2>4 DEF PoolOK
<1>2. TurnsOK
  BY RestingType, PoolAssumption DEF Init, TurnsOK, Resting, Job
<1>3. LedgerOK
  BY FS_EmptySet DEF Init, LedgerOK
<1>4. MainOK
  BY EmptySeq, LenProperties, DriverAssumption DEF Init, MainOK, Places
<1>5. CountsOK /\ SetsOK
  BY FS_EmptySet DEF Init, CountsOK, SetsOK
<1>6. Busy = {} /\ Len(jobs) = 0
  BY EmptySeq DEF Init, Busy, Resting
<1>7. Accounting
  BY <1>6, FS_EmptySet DEF Init, Accounting
<1> QED BY <1>1, <1>2, <1>3, <1>4, <1>5, <1>7 DEF TypeInv

\* One thread changes its step.
LEMMA BusyMoves ==
  ASSUME TurnsOK, NEW w \in Worker, NEW t \in Turn, turn' = [turn EXCEPT ![w] = t]
  PROVE  /\ turn[w].step \in {"idle", "exited"} /\ t.step \notin {"idle", "exited"} =>
              Cardinality(Busy') = Cardinality(Busy) + 1
         /\ turn[w].step \notin {"idle", "exited"} /\ t.step \in {"idle", "exited"} =>
              Cardinality(Busy') = Cardinality(Busy) - 1
         /\ (turn[w].step \in {"idle", "exited"} <=> t.step \in {"idle", "exited"}) =>
              Cardinality(Busy') = Cardinality(Busy)
<1>1. IsFiniteSet(Busy) /\ Cardinality(Busy) \in Nat
  BY BusyIsFinite
<1>2. turn'[w] = t /\ \A v \in Worker \ {w} : turn'[v] = turn[v]
  BY DEF TurnsOK
<1>3. CASE turn[w].step \in {"idle", "exited"} /\ t.step \notin {"idle", "exited"}
  <2>1. Busy' = Busy \cup {w} /\ w \notin Busy
    BY <1>2, <1>3 DEF Busy
  <2> QED BY <1>1, <1>3, <2>1, FS_AddElement
<1>4. CASE turn[w].step \notin {"idle", "exited"} /\ t.step \in {"idle", "exited"}
  <2>1. Busy' = Busy \ {w} /\ w \in Busy
    BY <1>2, <1>4 DEF Busy
  <2> QED BY <1>1, <1>4, <2>1, FS_RemoveElement
<1>5. CASE turn[w].step \in {"idle", "exited"} <=> t.step \in {"idle", "exited"}
  <2>1. Busy' = Busy
    BY <1>2, <1>5 DEF Busy
  <2> QED BY <1>5, <2>1
<1> QED BY <1>3, <1>4, <1>5

\* What the actions do to the pool.
LEMMA PoolStep == TypeInv /\ [Next]_vars => PoolOK' /\ TurnsOK' /\ Accounting'
<1> SUFFICES ASSUME TypeInv, [Next]_vars PROVE PoolOK' /\ TurnsOK' /\ Accounting'
  OBVIOUS
<1>1. PoolOK /\ TurnsOK /\ Accounting /\ MainOK
  BY DEF TypeInv
<1>2. Cardinality(Busy) \in Nat /\ IsFiniteSet(Busy)
  BY BusyIsFinite
<1>3. /\ Len(jobs) \in Nat /\ Len(outcomes) \in Nat
      /\ <<>> \in Seq(Job) /\ <<>> \in Seq(Outcome) /\ Len(<<>>) = 0
  BY <1>1, EmptySeq, LenProperties DEF PoolOK
<1>4. ASSUME UNCHANGED <<jobs, unfinished, turn, stop, closed>>,
             outcomes' = outcomes \/ outcomes' = <<>>, troubles' \in 0..MaxTroubles
      PROVE  PoolOK' /\ TurnsOK' /\ Accounting'
  <2>1. PoolOK'
    BY <1>1, <1>3, <1>4 DEF PoolOK
  <2>2. TurnsOK'
    BY <1>1, <1>4 DEF TurnsOK
  <2>3. Accounting'
    BY <1>1, <1>4 DEF Accounting, Busy
  <2> QED BY <2>1, <2>2, <2>3
<1>5. CASE \/ Start \/ TurnPage \/ Unavailable \/ NoRecords \/ Unevaluated \/ Evaluated
           \/ PageDone \/ Skip \/ Decide \/ Backpressure \/ DrainBusy \/ DrainIdle
           \/ Round \/ Retry \/ UNCHANGED vars
  <2>1. UNCHANGED <<jobs, unfinished, turn, stop, closed, troubles>>
    BY <1>5 DEF Start, TurnPage, Unavailable, NoRecords, Unevaluated, Evaluated, PageDone, Skip,
                Decide, Backpressure, DrainBusy, DrainIdle, Round, Retry, vars, poolVars,
                UnchangedByMain, SearchUnchanged, DecideUnchanged
  <2>2. outcomes' = outcomes \/ outcomes' = <<>>
    BY <1>5 DEF Start, TurnPage, Unavailable, NoRecords, Unevaluated, Evaluated, PageDone, Skip,
                Decide, Backpressure, DrainBusy, DrainIdle, Round, Retry, vars, poolVars,
                Collect, SearchUnchanged, DecideUnchanged
  <2> QED BY <1>1, <1>4, <2>1, <2>2 DEF PoolOK
<1>6. CASE Admit
  <2>1. Head(todo) \in Job /\ todo # <<>>
    BY <1>1, <1>6, TailContents DEF Admit, MainOK
  <2>2. jobs' \in Seq(Job) /\ Len(jobs') = Len(jobs) + 1
    BY <1>1, <1>6, <2>1, AppendContents DEF Admit, Put, PoolOK
  <2>3. PoolOK'
    BY <1>1, <1>3, <1>6, <2>2, PoolAssumption DEF Admit, Room, PoolOK
  <2>4. TurnsOK' /\ Busy' = Busy
    BY <1>1, <1>6 DEF Admit, TurnsOK, Busy
  <2>5. Accounting'
    BY <1>1, <1>2, <1>3, <1>6, <2>2, <2>4 DEF Admit, Put, Accounting
  <2> QED BY <2>3, <2>4, <2>5
<1>7. CASE Close \/ Interrupt
  <2>1. /\ UNCHANGED <<jobs, unfinished, turn>> /\ outcomes' \in {outcomes, <<>>}
        /\ stop' \in BOOLEAN /\ closed' \in BOOLEAN /\ troubles' \in 0..MaxTroubles
    <3>1. CASE Close
      <4>1. stop' = stop /\ closed' \in BOOLEAN
        BY <3>1, Zenon DEF Close
      <4> QED BY <1>1, <3>1, <4>1 DEF Close, EndUnchanged, PoolOK
    <3>2. CASE Interrupt
      <4>1. closed' = closed /\ stop' \in BOOLEAN
        BY <3>2, Zenon DEF Interrupt
      <4> QED BY <1>1, <3>2, <4>1, Sizes DEF Interrupt, EndUnchanged, PoolOK
    <3> QED BY <1>7, <3>1, <3>2
  <2>2. PoolOK'
    BY <1>1, <1>3, <2>1 DEF PoolOK
  <2>3. TurnsOK' /\ Accounting'
    BY <1>1, <2>1 DEF TurnsOK, Accounting, Busy
  <2> QED BY <2>2, <2>3
<1>8. CASE CancelPending
  <2>1. PoolOK'
    BY <1>1, <1>3, <1>8, PoolAssumption DEF CancelPending, PoolOK
  <2>2. TurnsOK' /\ Busy' = Busy
    BY <1>1, <1>8 DEF CancelPending, EndUnchanged, TurnsOK, Busy
  <2>3. Accounting'
    BY <1>1, <1>2, <1>3, <1>8, <2>2 DEF CancelPending, Accounting
  <2> QED BY <2>1, <2>2, <2>3
<1>9. CASE End \/ Crash
  <2>1. Forgotten /\ troubles' \in 0..MaxTroubles
    BY <1>1, <1>9, PoolAssumption DEF End, Crash, PoolOK
  <2>2. PoolOK'
    <3>1. stop' \in BOOLEAN /\ closed' \in BOOLEAN
      BY <2>1, Zenon DEF Forgotten
    <3>2. jobs' = <<>> /\ outcomes' = <<>>
      BY <2>1 DEF Forgotten
    <3> QED BY <1>3, <2>1, <3>1, <3>2, Sizes DEF PoolOK
  <2>3. TurnsOK' /\ Busy' = {}
    BY <2>1, RestingType, PoolAssumption DEF Forgotten, TurnsOK, Busy, Resting, Job
  <2>4. Accounting'
    BY <1>3, <2>1, <2>3, FS_EmptySet DEF Forgotten, Accounting
  <2> QED BY <2>2, <2>3, <2>4
<1>10. ASSUME NEW w \in Worker, ThreadStep(w)
       PROVE  PoolOK' /\ TurnsOK' /\ Accounting'
  <2>1. turn[w] \in Turn
    BY <1>1 DEF TurnsOK
  <2>2. CASE Request(w)
    BY <1>1, <1>4, <2>2 DEF Request, PoolOK
  <2>3. ASSUME NEW t \in Turn, turn' = [turn EXCEPT ![w] = t],
               t.job = NoJob <=> t.step \in {"idle", "exited"}
        PROVE  TurnsOK'
    <3>1. turn' \in [Worker -> Turn]
      BY <1>1, <2>3 DEF TurnsOK
    <3>2. \A v \in Worker : turn'[v] = IF v = w THEN t ELSE turn[v]
      BY <1>1, <2>3 DEF TurnsOK
    <3> QED BY <1>1, <2>3, <3>1, <3>2 DEF TurnsOK
  <2>4. CASE Take(w)
    <3> DEFINE t == [step |-> "taken", job |-> Head(jobs), result |-> "failure"]
    <3>1. /\ turn' = [turn EXCEPT ![w] = t] /\ jobs # <<>> /\ jobs' = Tail(jobs)
          /\ UNCHANGED <<unfinished, outcomes, stop, closed, troubles>>
          /\ turn[w].step \in {"idle", "exited"}
      BY <2>4 DEF Take
    <3>2. Head(jobs) \in Job /\ Tail(jobs) \in Seq(Job) /\ Len(Tail(jobs)) = Len(jobs) - 1
      BY <1>1, <3>1, TailContents DEF PoolOK
    <3>3. t \in Turn /\ t.job # NoJob /\ t.step \notin {"idle", "exited"}
      BY <3>2, PoolAssumption DEF Turn, Steps, Results, Job
    <3> HIDE DEF t
    <3>4. Cardinality(Busy') = Cardinality(Busy) + 1
      BY <1>1, <3>1, <3>3, BusyMoves
    <3>5. PoolOK' /\ Accounting'
      BY <1>1, <1>2, <1>3, <3>1, <3>2, <3>4, Sizes DEF PoolOK, Accounting
    <3> QED BY <2>3, <3>1, <3>3, <3>5
  <2>5. ASSUME NEW s \in Steps \ {"idle", "exited"}, NEW x \in Results, Goes(w, s, x),
               turn[w].step \notin {"idle", "exited"}, UNCHANGED <<jobs, unfinished>>
        PROVE  TurnsOK' /\ Accounting'
    <3> DEFINE t == [step |-> s, job |-> turn[w].job, result |-> x]
    <3>1. turn' = [turn EXCEPT ![w] = t]
      BY <2>5 DEF Goes
    <3>2. t \in Turn /\ t.job # NoJob /\ t.step \notin {"idle", "exited"}
      BY <1>1, <2>1, <2>5 DEF Turn, TurnsOK
    <3> HIDE DEF t
    <3>3. Cardinality(Busy') = Cardinality(Busy)
      BY <1>1, <2>5, <3>1, <3>2, BusyMoves
    <3> QED BY <1>1, <2>3, <2>5, <3>1, <3>2, <3>3 DEF Accounting
  <2>6. CASE Begin(w) \/ Raise(w) \/ Land(w) \/ Complete(w) \/ Fail(w)
    <3>1. \E s \in Steps \ {"idle", "exited"}, x \in Results : Goes(w, s, x)
      BY <2>6 DEF Begin, Raise, Land, Complete, Fail, Steps, Results
    <3>2. turn[w].step \notin {"idle", "exited"} /\ UNCHANGED <<jobs, unfinished>>
      BY <2>6 DEF Begin, Raise, Land, Complete, Fail
    <3>3. UNCHANGED <<outcomes, stop, closed>> /\ troubles' \in 0..MaxTroubles
      BY <1>1, <2>6, PoolAssumption DEF Begin, Raise, Land, Complete, Fail, PoolOK
    <3>4. PoolOK'
      BY <1>1, <3>2, <3>3 DEF PoolOK
    <3> QED BY <2>5, <3>1, <3>2, <3>4
  <2>7. CASE Report(w)
    <3> DEFINE o == [job |-> turn[w].job, result |-> turn[w].result]
    <3>1. /\ outcomes' = Append(outcomes, o) /\ Goes(w, "reported", turn[w].result)
          /\ turn[w].step \notin {"idle", "exited"} /\ UNCHANGED <<jobs, unfinished>>
          /\ UNCHANGED <<stop, closed, troubles>>
      BY <2>7 DEF Report
    <3>2. o \in Outcome /\ turn[w].result \in Results
      BY <1>1, <2>1, <3>1 DEF Turn, TurnsOK, Outcome
    <3>3. outcomes' \in Seq(Outcome)
      BY <1>1, <3>1, <3>2, AppendContents DEF PoolOK
    <3>4. PoolOK'
      BY <1>1, <3>1, <3>3 DEF PoolOK
    <3>5. "reported" \in Steps \ {"idle", "exited"}
      BY DEF Steps
    <3> QED BY <2>5, <3>1, <3>2, <3>4, <3>5
  <2>8. CASE TaskDone(w) \/ Exit(w)
    <3>1. PICK s \in {"idle", "exited"} : turn' = [turn EXCEPT ![w] = Resting(s)]
      BY <2>8 DEF TaskDone, Exit
    <3> DEFINE t == Resting(s)
    <3>2. t \in Turn /\ t.job = NoJob /\ t.step \in {"idle", "exited"}
      BY RestingType DEF Resting
    <3>3. UNCHANGED <<jobs, outcomes, stop, closed, troubles>>
      BY <2>8 DEF TaskDone, Exit
    <3>4. PoolOK'
      BY <1>1, <3>3 DEF PoolOK
    <3> HIDE DEF t
    <3>5. TurnsOK'
      BY <2>3, <3>1, <3>2 DEF t
    <3>6. turn' = [turn EXCEPT ![w] = t]
      BY <3>1 DEF t
    <3>7. CASE TaskDone(w)
      <4>1. Cardinality(Busy') = Cardinality(Busy) - 1
        BY <1>1, <3>2, <3>6, <3>7, BusyMoves DEF TaskDone
      <4>2. unfinished' = unfinished - 1
        BY <3>7 DEF TaskDone
      <4>3. Accounting'
        BY <1>1, <1>2, <1>3, <3>3, <4>1, <4>2 DEF Accounting
      <4> QED BY <3>4, <3>5, <4>3
    <3>8. CASE Exit(w)
      <4>1. Cardinality(Busy') = Cardinality(Busy)
        BY <1>1, <3>2, <3>6, <3>8, BusyMoves DEF Exit
      <4>2. unfinished' = unfinished
        BY <3>8 DEF Exit
      <4>3. Accounting'
        BY <1>1, <3>3, <4>1, <4>2 DEF Accounting
      <4> QED BY <3>4, <3>5, <4>3
    <3> QED BY <2>8, <3>7, <3>8
  <2> QED BY <1>10, <2>2, <2>4, <2>6, <2>7, <2>8 DEF ThreadStep, WorkerStep
<1> QED BY <1>5, <1>6, <1>7, <1>8, <1>9, <1>10 DEF Next, MainStep

-----------------------------------------------------------------------------
(* What is read of the ledger, of the page and of the outcomes             *)

LEMMA WrittenType ==
  ASSUME LedgerOK, NEW j \in Job, NEW s \in Statuses, Write(j, s)
  PROVE  /\ DOMAIN ledger' = DOMAIN ledger \cup {j.name}
         /\ DOMAIN ledger' \subseteq Filename /\ IsFiniteSet(DOMAIN ledger')
         /\ \A n \in DOMAIN ledger' : ledger'[n] \in Record
         /\ ledger'[j.name] = [doc |-> j.doc, status |-> s, attempt |-> j.attempt]
         /\ \A n \in DOMAIN ledger \ {j.name} : ledger'[n] = ledger[n]
<1> DEFINE D == DOMAIN ledger \cup {j.name}
           e == [doc |-> j.doc, status |-> s, attempt |-> j.attempt]
<1>1. ledger' = [m \in D |-> IF m = j.name THEN e ELSE ledger[m]]
  BY DEF Write, Written
<1>2. e \in Record /\ j.name \in Filename
  BY Sizes DEF Record, Job
<1>3. IsFiniteSet(D) /\ D \subseteq Filename
  BY <1>2, FS_AddElement DEF LedgerOK
<1> HIDE DEF e
<1>4. \A n \in D : ledger'[n] \in Record
  BY <1>1, <1>2 DEF LedgerOK
<1>5. /\ DOMAIN ledger' = D /\ ledger'[j.name] = e
      /\ \A n \in DOMAIN ledger \ {j.name} : ledger'[n] = ledger[n]
  BY <1>1
<1> QED BY <1>3, <1>4, <1>5 DEF e

\* Jobs from records that are open: an attempt that is spent and not the last is
\* followed by the next, another one by itself.
RecordsOf(l) == /\ DOMAIN l \subseteq Filename /\ IsFiniteSet(DOMAIN l)
                /\ \A n \in DOMAIN l : l[n] \in Record

LEMMA CountedType ==
  ASSUME LedgerOK
  PROVE  DOMAIN Counted = DOMAIN ledger /\ RecordsOf(Counted)
<1>1. DOMAIN Counted = DOMAIN ledger
  BY DEF Counted
<1>2. ASSUME NEW n \in DOMAIN ledger PROVE Counted[n] \in Record
  <2>1. ledger[n] \in Record
    BY DEF LedgerOK
  <2>2. [ledger[n] EXCEPT !.status = "COMPLETED"] \in Record
    BY <2>1 DEF Record, Statuses
  <2>3. Counted[n] \in {[ledger[n] EXCEPT !.status = "COMPLETED"], ledger[n]}
    BY DEF Counted
  <2> QED BY <2>1, <2>2, <2>3
<1> QED BY <1>1, <1>2 DEF LedgerOK, RecordsOf

LEMMA RestoredType ==
  ASSUME NEW l, RecordsOf(l)
  PROVE  DOMAIN Restored(l) = DOMAIN l /\ RecordsOf(Restored(l))
<1>1. DOMAIN Restored(l) = DOMAIN l
  BY DEF Restored
<1>2. ASSUME NEW n \in DOMAIN l PROVE Restored(l)[n] \in Record
  <2>1. l[n] \in Record
    BY DEF RecordsOf
  <2>2. /\ [l[n] EXCEPT !.status = "PERMANENTLY_FAILED"] \in Record
        /\ [l[n] EXCEPT !.status = "RECOVERING"] \in Record
    BY <2>1 DEF Record, Statuses
  <2>3. Restored(l)[n] = CASE Exhausted(l[n]) -> [l[n] EXCEPT !.status = "PERMANENTLY_FAILED"]
                           [] l[n].status = "DOWNLOADING" -> [l[n] EXCEPT !.status = "RECOVERING"]
                           [] OTHER -> l[n]
    BY DEF Restored
  <2>4. Restored(l)[n] \in {[l[n] EXCEPT !.status = "PERMANENTLY_FAILED"],
                            [l[n] EXCEPT !.status = "RECOVERING"], l[n]}
    BY <2>3
  <2> QED BY <2>1, <2>2, <2>4
<1> QED BY <1>1, <1>2 DEF RecordsOf

LEMMA InterruptedType ==
  ASSUME NEW l, RecordsOf(l)
  PROVE  /\ Interrupted(l) \subseteq Job /\ IsFiniteSet(Interrupted(l))
         /\ \A j \in Interrupted(l) : j.name \in DOMAIN l
         /\ \A j, k \in Interrupted(l) : j.name = k.name => j = k
<1> DEFINE D == {m \in DOMAIN l : l[m].status \notin Settled /\ ~Exhausted(l[m])}
           f == [n \in D |-> [doc |-> l[n].doc, name |-> n,
                              attempt |-> IF Spent(l[n]) THEN Previous(l[n]) + 1
                                          ELSE Previous(l[n])]]
<1>1. IsFiniteSet(D)
  BY FS_Subset DEF RecordsOf
<1>2. Interrupted(l) = {f[n] : n \in D}
  BY DEF Interrupted
<1>3. ASSUME NEW n \in D PROVE f[n] \in Job /\ f[n].name = n
  <2>1. l[n].doc \in Doc /\ l[n].attempt \in 0..MaxAttempts /\ n \in Filename
    BY DEF RecordsOf, Record
  <2>2. Previous(l[n]) \in 1..MaxAttempts
    BY <2>1, Sizes DEF Previous
  <2>3. Spent(l[n]) => Previous(l[n]) < MaxAttempts
    BY <2>2, Sizes DEF Exhausted
  <2>4. (IF Spent(l[n]) THEN Previous(l[n]) + 1 ELSE Previous(l[n])) \in 1..MaxAttempts
    BY <2>2, <2>3, Sizes
  <2> QED BY <2>1, <2>4 DEF Job
<1>4. DOMAIN f = D /\ f = [x \in DOMAIN f |-> f[x]]
  OBVIOUS
<1> HIDE DEF f, D
<1>5. Interrupted(l) = Range(f)
  BY <1>2, <1>4 DEF Range
<1>6. IsFiniteSet(Interrupted(l))
  BY <1>1, <1>4, <1>5, ImageIsFinite
<1>7. D \subseteq DOMAIN l
  BY DEF D
<1> QED BY <1>2, <1>3, <1>6, <1>7

LEMMA BatchTypes ==
  ASSUME MainOK, pc = "search"
  PROVE  /\ page \in DOMAIN Listing /\ IsFiniteSet(Batch) /\ Batch \subseteq DOMAIN Listing[page]
         /\ \A i \in Batch : /\ Listing[page][i] \in Doc /\ BatchName(i) \in Filename
                             /\ \E k \in Nat : BatchName(i) = Name(Listing[page][i], page, k)
<1>1. page \in DOMAIN Listing /\ Listing[page] \in Seq(Doc)
  <2>1. DOMAIN Listing = 1..Len(Listing) /\ Len(Listing) \in Nat
    BY DriverAssumption, LenProperties
  <2>2. page \in 1..Len(Listing)
    BY <2>1 DEF MainOK
  <2> QED BY <2>1, <2>2, DriverAssumption, ElementOfSeq
<1> DEFINE L == Listing[page]
<1>2. DOMAIN L = 1..Len(L) /\ Len(L) \in Nat
  BY <1>1, LenProperties
<1>3. IsFiniteSet(DOMAIN L) /\ Cardinality(DOMAIN L) = Len(L)
  BY <1>2, FS_Interval
<1>4. Batch \subseteq DOMAIN L
  BY DEF Batch
<1>5. IsFiniteSet(Batch)
  BY <1>3, <1>4, FS_Subset
<1>6. ASSUME NEW i \in Batch
      PROVE  /\ L[i] \in Doc /\ BatchName(i) \in Filename
             /\ \E k \in Nat : BatchName(i) = Name(L[i], page, k)
  <2> DEFINE B == {k \in Batch : k <= i}
             c == Cardinality(B)
  <2>1. IsFiniteSet(B) /\ c \in Nat /\ c <= Len(L)
    <3>1. B \in SUBSET (DOMAIN L)
      BY <1>4
    <3> QED BY <1>3, <3>1, FS_Subset, FS_CardinalityType
  <2>2. i \in B
    BY <1>2, <1>4
  <2>3. c # 0
    BY <2>1, <2>2, FS_EmptySet
  <2>4. c \in DOMAIN L
    BY <1>2, <2>1, <2>3
  <2>5. BatchName(i) = Name(L[i], page, c)
    BY DEF BatchName
  <2>6. i \in DOMAIN L
    BY <1>4
  <2> HIDE DEF c
  <2>7. <<Title[L[i]], page, c>> \in Filename
    BY <1>1, <2>4, <2>6, DriverAssumption
  <2>8. L[i] \in Doc
    BY <1>1, <1>2, <2>6, ElementOfSeq
  <2> QED BY <2>1, <2>5, <2>7, <2>8 DEF Name
<1> QED BY <1>1, <1>4, <1>5, <1>6

LEMMA OutcomeTypes ==
  ASSUME PoolOK
  PROVE  /\ Succeeded \in Nat
         /\ \A x \in Results : Drained(x) \subseteq Job /\ IsFiniteSet(Drained(x))
         /\ outcomes = <<>> => \A x \in Results : Drained(x) = {}
<1>1. /\ DOMAIN outcomes = 1..Len(outcomes) /\ Len(outcomes) \in Nat
      /\ \A i \in DOMAIN outcomes : outcomes[i] \in Outcome
  BY LenProperties, ElementOfSeq DEF PoolOK
<1>2. IsFiniteSet(DOMAIN outcomes)
  BY <1>1, FS_Interval
<1>3. Succeeded \in Nat
  BY <1>2, FS_Subset, FS_CardinalityType DEF Succeeded
<1>4. ASSUME NEW x \in Results
      PROVE  Drained(x) \subseteq Job /\ IsFiniteSet(Drained(x))
  <2> DEFINE D == {k \in DOMAIN outcomes : outcomes[k].result = x}
             f == [k \in D |-> outcomes[k].job]
  <2>1. IsFiniteSet(D)
    BY <1>2, FS_Subset
  <2>2. DOMAIN f = D /\ f = [k \in DOMAIN f |-> f[k]] /\ Drained(x) = Range(f)
    BY DEF Drained, Range
  <2>3. \A k \in D : outcomes[k].job \in Job
    BY <1>1 DEF Outcome
  <2>4. Drained(x) \subseteq Job
    BY <2>3 DEF Drained
  <2> HIDE DEF f, D
  <2> QED BY <2>1, <2>2, <2>4, ImageIsFinite
<1>5. outcomes = <<>> => DOMAIN outcomes = {}
  OBVIOUS
<1> QED BY <1>3, <1>4, <1>5 DEF Drained

LEMMA AdvancedType ==
  ASSUME NEW S, S \subseteq Job, IsFiniteSet(S)
  PROVE  Advanced(S) \subseteq Job /\ IsFiniteSet(Advanced(S))
<1> DEFINE D == {k \in S : k.attempt < MaxAttempts}
           f == [j \in D |-> [j EXCEPT !.attempt = @ + 1]]
<1>1. IsFiniteSet(D)
  BY FS_Subset
<1>2. DOMAIN f = D /\ f = [k \in DOMAIN f |-> f[k]] /\ Advanced(S) = Range(f)
  BY DEF Advanced, Range
<1>3. \A j \in D : [j EXCEPT !.attempt = @ + 1] \in Job
  BY Sizes DEF Job
<1>4. Advanced(S) \subseteq Job
  BY <1>3 DEF Advanced
<1> HIDE DEF f, D
<1> QED BY <1>1, <1>2, <1>4, ImageIsFinite

-----------------------------------------------------------------------------
(* Types of the ledger, the main thread, the counts and the sets           *)

\* Who writes records, and for which job.
LEMMA WorkerWrites ==
  ASSUME TypeInv, NEW w \in Worker, WorkerStep(w)
  PROVE  \/ UNCHANGED ledger
         \/ /\ turn[w].step \in {"taken", "working", "landed"} /\ turn[w].job \in Job
            /\ \E s \in Statuses : Write(turn[w].job, s)
<1>1. turn[w].step \notin {"idle", "exited"} => turn[w].job \in Job
  BY DEF TypeInv, TurnsOK, Turn
<1>2. CASE Take(w) \/ Raise(w) \/ Land(w) \/ Report(w) \/ TaskDone(w) \/ Exit(w)
  BY <1>2 DEF Take, Raise, Land, Report, TaskDone, Exit
<1>3. CASE Begin(w) \/ Request(w) \/ Complete(w) \/ Fail(w)
  <2>1. turn[w].step \in {"taken", "working", "landed"}
    BY <1>3 DEF Begin, Request, Complete, Fail
  <2>2. \E s \in Statuses : Write(turn[w].job, s)
    BY <1>3 DEF Begin, Request, Complete, Fail, Statuses
  <2> QED BY <1>1, <2>1, <2>2
<1> QED BY <1>2, <1>3 DEF WorkerStep

\* Stage 1 rejects: what the ledger says of other documents stays.
LEMMA RejectedType ==
  ASSUME TypeInv, Evaluated
  PROVE  /\ LedgerOK'
         /\ \E approved \in SUBSET Batch :
              /\ DOMAIN ledger' = DOMAIN ledger \cup {BatchName(i) : i \in Batch \ approved}
              /\ \A n \in DOMAIN ledger : n \notin {BatchName(i) : i \in Batch \ approved}
                                            => ledger'[n] = ledger[n]
<1>1. LedgerOK /\ MainOK /\ pc = "search" /\ UNCHANGED files
  BY DEF TypeInv, Evaluated, UnchangedByMain
<1>2. PICK approved \in SUBSET Batch :
        LET rejected == {BatchName(i) : i \in Batch \ approved}
        IN  ledger' = [n \in DOMAIN ledger \cup rejected |->
                         IF n \notin rejected THEN ledger[n]
                         ELSE [doc |-> Listing[page][CHOOSE i \in Batch \ approved : BatchName(i) = n],
                               status |-> "STAGE1_REJECTED",
                               attempt |-> IF Known(n) THEN ledger[n].attempt ELSE 0]]
  BY DEF Evaluated
<1> DEFINE R == Batch \ approved
           rejected == {BatchName(i) : i \in R}
           f == [i \in R |-> BatchName(i)]
           D == DOMAIN ledger \cup rejected
           entry(n) == [doc |-> Listing[page][CHOOSE i \in R : BatchName(i) = n],
                        status |-> "STAGE1_REJECTED",
                        attempt |-> IF Known(n) THEN ledger[n].attempt ELSE 0]
<1>3. IsFiniteSet(rejected)
  <2>1. IsFiniteSet(R)
    BY <1>1, BatchTypes, FS_Subset
  <2>2. DOMAIN f = R /\ f = [i \in DOMAIN f |-> f[i]] /\ Range(f) = rejected
    BY DEF Range
  <2> HIDE DEF f, R, rejected
  <2> QED BY <2>1, <2>2, ImageIsFinite
<1>4. rejected \subseteq Filename
  BY <1>1, BatchTypes
<1>5. ASSUME NEW n \in rejected PROVE entry(n) \in Record
  <2>1. \E i \in R : BatchName(i) = n
    OBVIOUS
  <2>2. (CHOOSE i \in R : BatchName(i) = n) \in Batch
    BY <2>1
  <2>3. Listing[page][CHOOSE i \in R : BatchName(i) = n] \in Doc
    BY <1>1, <2>2, BatchTypes
  <2>4. (IF Known(n) THEN ledger[n].attempt ELSE 0) \in 0..MaxAttempts
    BY <1>1, Sizes DEF LedgerOK, Record, Known
  <2> HIDE DEF R
  <2> QED BY <2>3, <2>4 DEF Record, Statuses
<1>6. ledger' = [n \in D |-> IF n \notin rejected THEN ledger[n] ELSE entry(n)]
  BY <1>2
<1>7. IsFiniteSet(D) /\ D \subseteq Filename
  BY <1>1, <1>3, <1>4, FS_Union DEF LedgerOK
<1> HIDE DEF entry, rejected
<1>8. \A n \in D : ledger'[n] \in Record
  BY <1>1, <1>5, <1>6 DEF LedgerOK
<1>9. LedgerOK'
  BY <1>1, <1>6, <1>7, <1>8 DEF LedgerOK
<1>10. DOMAIN ledger' = D /\ \A n \in DOMAIN ledger : n \notin rejected => ledger'[n] = ledger[n]
  BY <1>6
<1> QED BY <1>9, <1>10 DEF rejected

LEMMA LedgerStep == TypeInv /\ [Next]_vars => LedgerOK'
<1> SUFFICES ASSUME TypeInv, [Next]_vars PROVE LedgerOK'
  OBVIOUS
<1>1. LedgerOK /\ MainOK /\ TurnsOK
  BY DEF TypeInv
<1>2. CASE UNCHANGED <<ledger, files>>
  BY <1>1, <1>2 DEF LedgerOK
<1>3. CASE \/ TurnPage \/ Unavailable \/ NoRecords \/ Unevaluated \/ PageDone \/ Skip \/ Admit
           \/ Backpressure \/ DrainBusy \/ DrainIdle \/ Round \/ Close \/ Interrupt
           \/ CancelPending \/ End \/ Crash \/ UNCHANGED vars
  BY <1>2, <1>3
     DEF TurnPage, Unavailable, NoRecords, Unevaluated, PageDone, Skip, Admit, Backpressure, DrainBusy,
         DrainIdle, Round, Close, Interrupt, CancelPending, End, Crash, Forgotten, EndUnchanged,
         UnchangedByMain, SearchUnchanged, DecideUnchanged, vars, poolVars
<1>4. ASSUME NEW j \in Job, NEW s \in Statuses, Write(j, s), files' \subseteq Filename
      PROVE  LedgerOK'
  BY <1>1, <1>4, WrittenType DEF LedgerOK
<1>5. CASE Start
  <2>1. ledger' \in {Counted, Restored(Counted)} /\ files' = files
    BY <1>5 DEF Start
  <2>2. RecordsOf(Counted) /\ RecordsOf(Restored(Counted))
    BY <1>1, CountedType, RestoredType
  <2> QED BY <1>1, <2>1, <2>2 DEF RecordsOf, LedgerOK
<1>6. CASE Evaluated
  BY <1>6, RejectedType
<1>7. CASE Decide \/ (Retry /\ todo # <<>>)
  <2>1. todo # <<>> /\ Head(todo) \in Job
    BY <1>1, <1>7, TailContents DEF Decide, MainOK
  <2>2. (\E s \in Statuses : Write(Head(todo), s)) /\ files' = files
    BY <1>7 DEF Decide, Retry, DecideUnchanged, UnchangedByMain, Statuses
  <2>3. files' \subseteq Filename
    BY <1>1, <2>2 DEF LedgerOK
  <2> QED BY <1>4, <2>1, <2>2, <2>3
<1>8. CASE Retry /\ todo = <<>>
  BY <1>2, <1>8 DEF Retry, UnchangedByMain
<1>9. ASSUME NEW w \in Worker, ThreadStep(w)
      PROVE  LedgerOK'
  <2>1. files' = files \/ (turn[w].job \in Job /\ files' = files \cup {turn[w].job.name})
    <3>1. CASE Land(w)
      BY <1>1, <3>1 DEF Land, TurnsOK, Turn
    <3> QED BY <1>9, <3>1 DEF ThreadStep, WorkerStep, Take, Begin, Raise, Request, Complete, Fail,
                              Report, TaskDone, Exit
  <2>2. files' \subseteq Filename
    BY <1>1, <2>1 DEF LedgerOK, Job
  <2>3. CASE UNCHANGED ledger
    BY <1>1, <2>2, <2>3 DEF LedgerOK
  <2> QED BY <1>4, <1>9, <2>2, <2>3, WorkerWrites DEF ThreadStep
<1> QED BY <1>3, <1>5, <1>6, <1>7, <1>8, <1>9 DEF Next, MainStep

\* The documents Evaluated takes over are a sequence of jobs of this page, no
\* longer than the room that is left.
LEMMA ChosenType ==
  ASSUME TypeInv, Evaluated
  PROVE  /\ todo' \in Seq(Job)
         /\ \E room \in Nat : /\ room = Left(downloaded' + Outstanding(completed'))
                              /\ Len(todo') <= room
         /\ \A k \in DOMAIN todo' : \E d \in Doc, i \in Nat : todo'[k].name = Name(d, page, i)
<1>1. MainOK /\ CountsOK /\ PoolOK /\ pc = "search"
  BY DEF TypeInv, Evaluated
<1>2. downloaded' \in Nat /\ completed' \in Nat
  <2>1. /\ completed' = completed + Succeeded
        /\ downloaded' = downloaded + (completed' - seen)
    BY DEF Evaluated, Collect
  <2>2. Succeeded \in Nat
    BY <1>1, OutcomeTypes
  <2> QED BY <1>1, <2>1, <2>2 DEF CountsOK
<1> DEFINE room == Left(downloaded' + Outstanding(completed'))
<1>3. room \in Nat
  <2>1. queued \in Nat /\ Target \in Nat
    BY <1>1, DriverAssumption DEF CountsOK
  <2>2. Outstanding(completed') \in Nat
    <3>1. \A c \in Nat : Outstanding(c) \in Nat
      BY <2>1 DEF Outstanding
    <3> QED BY <1>2, <3>1
  <2>3. downloaded' + Outstanding(completed') \in Nat
    BY <1>2, <2>2
  <2> QED BY <2>1, <2>3 DEF Left
<1> HIDE DEF room
<1>4. PICK approved \in SUBSET Batch : \E order \in InOrder(approved) :
        todo' = [k \in 1..Min({room, Len(order)}) |->
                   [doc |-> Listing[page][order[k]],
                    name |-> BatchName(order[k]), attempt |-> 1]]
  BY DEF Evaluated, room
<1>5. PICK order \in InOrder(approved) :
        todo' = [k \in 1..Min({room, Len(order)}) |->
                   [doc |-> Listing[page][order[k]],
                    name |-> BatchName(order[k]), attempt |-> 1]]
  BY <1>4
<1> DEFINE n == Cardinality(approved)
<1>6. n \in Nat
  BY <1>1, BatchTypes, FS_Subset, FS_CardinalityType
<1>7. order \in [1..n -> approved] /\ Len(order) = n
  <2>1. order \in [1..n -> approved]
    BY DEF InOrder
  <2>2. order \in Seq(approved)
    BY <1>6, <2>1
  <2>3. DOMAIN order = 1..Len(order) /\ Len(order) \in Nat
    BY <2>2, LenProperties
  <2> QED BY <1>6, <2>1, <2>3
<1> DEFINE m == Min({room, Len(order)})
<1> HIDE DEF n
<1>8. m \in Nat /\ m <= room /\ m <= n
  <2>1. room \in Int /\ Len(order) \in Int /\ Len(order) = n
    BY <1>3, <1>6, <1>7
  <2>2. m \in {room, Len(order)} /\ m <= room /\ m <= Len(order)
    BY <2>1, LeastOfTwo
  <2> HIDE DEF m
  <2> QED BY <1>3, <1>6, <2>1, <2>2
<1> DEFINE e(k) == [doc |-> Listing[page][order[k]], name |-> BatchName(order[k]), attempt |-> 1]
<1>9. ASSUME NEW k \in 1..m
      PROVE  e(k) \in Job /\ \E d \in Doc, i \in Nat : e(k).name = Name(d, page, i)
  <2>1. order[k] \in Batch
    BY <1>6, <1>7, <1>8
  <2>2. /\ Listing[page][order[k]] \in Doc /\ BatchName(order[k]) \in Filename
        /\ \E i \in Nat : BatchName(order[k]) = Name(Listing[page][order[k]], page, i)
    BY <1>1, <2>1, BatchTypes
  <2> QED BY <2>2, Sizes DEF Job
<1> HIDE DEF e, m
<1>10. todo' = [k \in 1..m |-> e(k)]
  BY <1>5 DEF m, e
<1>11. todo' \in Seq(Job) /\ DOMAIN todo' = 1..m
  BY <1>8, <1>9, <1>10, IsASeq
<1>12. Len(todo') = m
  BY <1>8, <1>11, LenProperties
<1>13. \A k \in DOMAIN todo' : \E d \in Doc, i \in Nat : todo'[k].name = Name(d, page, i)
  BY <1>9, <1>10
<1> QED BY <1>3, <1>8, <1>11, <1>12, <1>13 DEF room

LEMMA MainStepTypes == TypeInv /\ [Next]_vars => MainOK'
<1> SUFFICES ASSUME TypeInv, [Next]_vars PROVE MainOK'
  OBVIOUS
<1>1. MainOK /\ SetsOK /\ Len(Listing) \in Nat
  BY DriverAssumption, LenProperties DEF TypeInv
<1>2. CASE \/ TurnPage \/ Unavailable \/ NoRecords \/ Unevaluated \/ PageDone \/ Backpressure
           \/ DrainBusy \/ DrainIdle \/ Close \/ Interrupt \/ CancelPending
  <2>1. UNCHANGED <<run, todo>> /\ cache' \subseteq DOMAIN Listing
    <3>1. pc = "search" => page \in DOMAIN Listing
      BY <1>1, DriverAssumption, LenProperties DEF MainOK
    <3> QED BY <1>1, <1>2, <3>1
        DEF TurnPage, Unavailable, NoRecords, Unevaluated, PageDone, Backpressure, DrainBusy, DrainIdle,
            Close, Interrupt, CancelPending, UnchangedByMain, SearchUnchanged, DecideUnchanged,
            EndUnchanged, MainOK
  <2>2. \/ pc' = pc /\ page' = page
        \/ pc' = "search" /\ page' = page /\ page <= Len(Listing)
        \/ pc' = "page" /\ page' = page + 1 /\ pc \in {"search", "decide"}
        \/ pc' \in {"drain", "rounds", "cancel", "closing"} /\ page' = page
    BY <1>1, <1>2
       DEF TurnPage, Unavailable, NoRecords, Unevaluated, PageDone, Backpressure, DrainBusy, DrainIdle,
           Close, Interrupt, CancelPending, UnchangedByMain, SearchUnchanged, DecideUnchanged,
           EndUnchanged, NextPage, MainOK
  <2> QED BY <1>1, <2>1, <2>2 DEF MainOK, Places
<1>3. CASE Start
  <2>1. /\ pc = "over" /\ run < MaxRuns /\ run' = run + 1 /\ pc' = "page"
        /\ UNCHANGED <<page, cache, todo>>
    BY <1>3 DEF Start
  <2>2. run' \in 0..MaxRuns
    BY <1>1, <2>1, DriverAssumption DEF MainOK
  <2> QED BY <1>1, <2>1, <2>2 DEF MainOK, Places
<1>4. CASE Evaluated
  <2>1. /\ pc = "search" /\ pc' = "decide" /\ UNCHANGED <<run, page>>
        /\ cache' = cache \cup {page}
    BY <1>4 DEF Evaluated
  <2>2. page \in DOMAIN Listing
    BY <1>1, <2>1, BatchTypes
  <2>3. todo' \in Seq(Job)
    BY <1>4, ChosenType
  <2> QED BY <1>1, <2>1, <2>2, <2>3 DEF MainOK, Places
<1>5. CASE Skip \/ Decide \/ Admit
  <2>1. todo # <<>> /\ Tail(todo) \in Seq(Job)
    BY <1>1, <1>5, TailContents DEF Skip, Decide, Admit, MainOK
  <2>2. /\ UNCHANGED <<run, page, cache>>
        /\ todo' \in {todo, Tail(todo)} /\ (pc' = "admit" => todo' = todo)
        /\ \/ pc = "decide" /\ pc' \in {"decide", "admit"}
           \/ pc = "admit" /\ pc' = "decide"
           \/ pc = "readmit" /\ pc' = "retry"
    BY <1>5 DEF Skip, Decide, Admit, DecideUnchanged
  <2> QED BY <1>1, <2>1, <2>2 DEF MainOK, Places
<1>6. CASE Round
  <2>1. SetToSeq(backlog) \in Seq(backlog)
    BY <1>1, SequenceOfSet DEF SetsOK
  <2>2. todo' \in Seq(Job)
    BY <1>1, <1>6, <2>1, SeqMonotonic DEF Round, SetsOK
  <2> QED BY <1>1, <1>6, <2>2 DEF Round, MainOK, Places
<1>7. CASE Retry
  BY <1>1, <1>7 DEF Retry, MainOK, Places
<1>8. CASE End \/ Crash
  <2>1. <<>> \in Seq(Job)
    BY EmptySeq
  <2>2. pc' = "over" /\ page' = 1 /\ todo' = <<>> /\ UNCHANGED <<run, cache>>
    BY <1>8 DEF End, Crash, Forgotten
  <2> QED BY <1>1, <2>1, <2>2 DEF MainOK, Places
<1>9. CASE UNCHANGED driverVars
  BY <1>1, <1>9 DEF driverVars, MainOK
<1>10. UNCHANGED vars \/ (\E w \in Worker : ThreadStep(w)) => UNCHANGED driverVars
  BY DEF vars, ThreadStep
<1> QED BY <1>2, <1>3, <1>4, <1>5, <1>6, <1>7, <1>8, <1>9, <1>10 DEF Next, MainStep

LEMMA SetsStep == TypeInv /\ [Next]_vars => CountsOK' /\ SetsOK'
<1> SUFFICES ASSUME TypeInv, [Next]_vars PROVE CountsOK' /\ SetsOK'
  OBVIOUS
<1>1. MainOK /\ SetsOK /\ CountsOK /\ PoolOK /\ LedgerOK
  BY DEF TypeInv
<1>2. /\ Succeeded \in Nat
      /\ Drained("failure") \subseteq Job /\ IsFiniteSet(Drained("failure"))
  BY <1>1, OutcomeTypes DEF Results
<1> DEFINE kept == failed \cup held \cup Drained("failure")
<1>3. kept \subseteq Job /\ IsFiniteSet(kept)
  BY <1>1, <1>2, FS_Union DEF SetsOK
<1>4. Advanced(kept) \subseteq Job /\ IsFiniteSet(Advanced(kept))
  BY <1>3, AdvancedType
<1>5. IsFiniteSet(held \cup Drained("failure")) /\ IsFiniteSet({}) /\ IsFiniteSet(backlog \cup Advanced(kept))
  BY <1>1, <1>2, <1>4, FS_Union, FS_EmptySet DEF SetsOK
<1> HIDE DEF kept
<1>6. ASSUME \/ UNCHANGED <<downloaded, completed, seen>>
             \/ completed' = completed + Succeeded /\ UNCHANGED <<downloaded, seen>>
             \/ /\ completed' = completed + Succeeded /\ seen' = completed'
                /\ downloaded' = downloaded + (completed' - seen),
             queued' \in {queued, queued + 1}
      PROVE  CountsOK'
  BY <1>1, <1>2, <1>6 DEF CountsOK
<1>7. ASSUME held' \in {held, {}, held \cup Drained("failure")}, failed' \in {failed, {}, kept},
             \/ backlog' \in {backlog, {}}
             \/ backlog' \subseteq backlog \cup Advanced(kept),
             \/ scheduled' = scheduled
             \/ /\ todo # <<>>
                /\ scheduled' = [names |-> scheduled.names \cup {Head(todo).name},
                                 docs |-> scheduled.docs \cup {Head(todo).doc}]
      PROVE  SetsOK'
  <2>1. held' \subseteq Job /\ IsFiniteSet(held') /\ failed' \subseteq Job /\ IsFiniteSet(failed')
    BY <1>1, <1>2, <1>3, <1>5, <1>7 DEF SetsOK
  <2>2. backlog' \subseteq Job /\ IsFiniteSet(backlog')
    BY <1>1, <1>4, <1>5, <1>7, FS_Subset DEF SetsOK
  <2>3. todo # <<>> => Head(todo) \in Job
    BY <1>1, TailContents DEF MainOK
  <2>4. scheduled' \in [names : SUBSET Filename, docs : SUBSET Doc]
    BY <1>1, <1>7, <2>3 DEF SetsOK, Job
  <2> QED BY <2>1, <2>2, <2>4 DEF SetsOK
<1>8. CASE \/ Unavailable \/ NoRecords \/ Unevaluated \/ PageDone \/ Skip \/ Admit
           \/ Round \/ Retry \/ Interrupt \/ CancelPending \/ UNCHANGED driverVars
  <2>1. UNCHANGED <<downloaded, queued, completed, seen, held, failed, scheduled>>
    BY <1>8 DEF Unavailable, NoRecords, Unevaluated, PageDone, Skip, Admit, Round, Retry, Interrupt,
                CancelPending, EndUnchanged, SearchUnchanged, DecideUnchanged, driverVars
  <2>2. backlog' \in {backlog, {}}
    BY <1>8 DEF Unavailable, NoRecords, Unevaluated, PageDone, Skip, Admit, Round, Retry, Interrupt,
                CancelPending, EndUnchanged, SearchUnchanged, DecideUnchanged, driverVars
  <2> QED BY <1>6, <1>7, <2>1, <2>2
<1>9. CASE TurnPage \/ Evaluated
  <2>1. Collect /\ UNCHANGED <<queued, backlog, scheduled>>
    BY <1>9 DEF TurnPage, Evaluated
  <2>2. CountsOK'
    BY <1>6, <2>1 DEF Collect
  <2>3. SetsOK'
    BY <1>7, <2>1 DEF Collect, kept
  <2> QED BY <2>2, <2>3
<1>10. CASE Backpressure \/ DrainBusy \/ Close
  <2>1. UNCHANGED <<downloaded, queued, seen, backlog, scheduled>> /\ completed' = completed + Succeeded
    BY <1>10 DEF Backpressure, DrainBusy, Close, EndUnchanged
  <2>2. held' \in {{}, held \cup Drained("failure")} /\ failed' \in {failed, kept}
    BY <1>10 DEF Backpressure, DrainBusy, Close, EndUnchanged, kept
  <2> QED BY <1>6, <1>7, <2>1, <2>2
<1>11. CASE DrainIdle
  <2>1. /\ completed' = completed + Succeeded /\ seen' = completed'
        /\ downloaded' = downloaded + (completed' - seen)
        /\ held' = {} /\ failed' = {} /\ UNCHANGED <<queued, scheduled>>
    BY <1>11 DEF DrainIdle
  <2>2. backlog' \subseteq backlog \cup Advanced(kept)
    BY <1>11 DEF DrainIdle, Highest, kept
  <2> QED BY <1>6, <1>7, <2>1, <2>2
<1>12. CASE Decide
  <2>1. /\ todo # <<>> /\ queued' = queued + 1
        /\ scheduled' = [names |-> scheduled.names \cup {Head(todo).name},
                         docs |-> scheduled.docs \cup {Head(todo).doc}]
        /\ UNCHANGED <<downloaded, completed, seen, held, failed, backlog>>
    BY <1>12 DEF Decide, DecideUnchanged
  <2> QED BY <1>6, <1>7, <2>1
<1>13. CASE Start
  <2> DEFINE all == Interrupted(Counted)
             count == Cardinality({n \in DOMAIN Counted : Counted[n].status = "COMPLETED"})
  <2>1. PICK chosen \in SUBSET all :
          /\ downloaded' = count /\ backlog' \in Lowest(chosen)
          /\ scheduled' = [names |-> {j.name : j \in chosen}, docs |-> {j.doc : j \in chosen}]
    BY <1>13 DEF Start
  <2>2. all \subseteq Job /\ IsFiniteSet(all) /\ IsFiniteSet(DOMAIN Counted)
    BY <1>1, CountedType, InterruptedType DEF RecordsOf
  <2>3. count \in Nat
    BY <2>2, FS_Subset, FS_CardinalityType
  <2> HIDE DEF all, count
  <2>4. CountsOK'
    BY <1>1, <1>13, <2>1, <2>3 DEF Start, CountsOK
  <2>5. backlog' \subseteq chosen
    BY <2>1 DEF Lowest
  <2>6. backlog' \subseteq Job /\ IsFiniteSet(backlog')
    BY <2>2, <2>5, FS_Subset
  <2>7. \A j \in chosen : j.name \in Filename /\ j.doc \in Doc
    BY <2>2 DEF Job
  <2>8. UNCHANGED <<held, failed>>
    BY <1>13 DEF Start
  <2> QED BY <1>1, <2>1, <2>4, <2>6, <2>7, <2>8 DEF SetsOK
<1>14. CASE End \/ Crash
  <2>1. Forgotten
    BY <1>14 DEF End, Crash
  <2> QED BY <1>5, <2>1 DEF Forgotten, CountsOK, SetsOK
<1>15. UNCHANGED vars \/ (\E w \in Worker : ThreadStep(w)) => UNCHANGED driverVars
  BY DEF vars, ThreadStep
<1> QED BY <1>8, <1>9, <1>10, <1>11, <1>12, <1>13, <1>14, <1>15 DEF Next, MainStep

LEMMA TypeInvStep == TypeInv /\ [Next]_vars => TypeInv'
BY PoolStep, LedgerStep, MainStepTypes, SetsStep DEF TypeInv

\* Every variable of the pool and of its driver keeps its type, and the count of
\* unfinished jobs is never below zero.
THEOREM TypeCorrect == Spec => []TypeOK
BY TypeInvInit, TypeInvStep, TypeInvTypes, PTL DEF Spec

-----------------------------------------------------------------------------
(* The target                                                              *)

\* What was on disk when the run began, and the documents it scheduled since,
\* stay within the target, counted with the candidates that are left on a page.
Existing == downloaded - seen
WithinTarget ==
  /\ Existing + queued <= IF Existing < Target THEN Target ELSE Existing
  /\ pc = "decide" => todo = <<>> \/ Existing + queued + Len(todo) <= Target
  /\ pc = "admit" => Existing + queued + Len(todo) - 1 <= Target
TargetInv == /\ Running => WithinTarget
             /\ pc = "over" => queued = 0 /\ seen = 0

LEMMA TargetInvInit == Init => TargetInv
BY DEF Init, TargetInv, Running

\* Only the start of a run moves what existed before it.
LEMMA ExistingStays ==
  ASSUME TypeInv, [Next]_vars, ~Start, pc' # "over"
  PROVE  Existing' = Existing /\ (queued' = queued \/ Decide)
<1>1. CountsOK /\ Succeeded \in Nat
  BY OutcomeTypes DEF TypeInv
<1>2. CASE TurnPage \/ Evaluated \/ DrainIdle
  <2>1. /\ completed' = completed + Succeeded /\ queued' = queued /\ seen' = completed'
        /\ downloaded' = downloaded + (completed' - seen)
    BY <1>2 DEF TurnPage, Evaluated, DrainIdle, Collect
  <2> QED BY <1>1, <2>1 DEF Existing, CountsOK
<1>3. CASE \/ Unavailable \/ NoRecords \/ Unevaluated \/ PageDone \/ Skip \/ Admit \/ Backpressure
           \/ DrainBusy \/ Round \/ Retry \/ Close \/ Interrupt \/ CancelPending \/ UNCHANGED driverVars
  BY <1>3 DEF Unavailable, NoRecords, Unevaluated, PageDone, Skip, Admit, Backpressure, DrainBusy,
              Round, Retry, Close, Interrupt, CancelPending, EndUnchanged, UnchangedByMain,
              SearchUnchanged, DecideUnchanged, driverVars, Existing
<1>4. CASE Decide
  BY <1>4 DEF Decide, DecideUnchanged, Existing
<1>5. ~(End \/ Crash)
  BY DEF End, Crash
<1>6. UNCHANGED vars \/ (\E w \in Worker : ThreadStep(w)) => UNCHANGED driverVars
  BY DEF vars, ThreadStep
<1> QED BY <1>2, <1>3, <1>4, <1>5, <1>6 DEF Next, MainStep

LEMMA TargetInvStep == TypeInv /\ TargetInv /\ [Next]_vars => TargetInv'
<1> SUFFICES ASSUME TypeInv, TargetInv, [Next]_vars PROVE TargetInv'
  OBVIOUS
<1>1. CountsOK /\ MainOK /\ Target \in Nat /\ CountsOK'
  BY SetsStep, DriverAssumption DEF TypeInv
<1>2. Len(todo) \in Nat
  BY <1>1, LenProperties DEF MainOK
<1>3. CASE pc' = "over"
  <2>1. CASE End \/ Crash
    BY <1>3, <2>1 DEF End, Crash, Forgotten, TargetInv, Running
  <2>2. CASE UNCHANGED driverVars
    BY <2>2 DEF driverVars, TargetInv, Running, WithinTarget, Existing
  <2>3. pc' # "over" \/ End \/ Crash \/ UNCHANGED driverVars
    BY DEF Next, MainStep, Start, TurnPage, Unavailable, NoRecords, Unevaluated, Evaluated, PageDone,
           Skip, Decide, Admit, Backpressure, DrainBusy, DrainIdle, Round, Retry, Close,
           Interrupt, CancelPending, NextPage, ThreadStep, vars
  <2> QED BY <1>3, <2>1, <2>2, <2>3
<1>4. CASE Start
  <2>1. queued' = 0 /\ seen' = 0 /\ pc' = "page"
    BY <1>4 DEF Start, TargetInv
  <2>2. downloaded' \in Nat
    BY <1>1 DEF CountsOK
  <2>3. Existing' = downloaded' - seen'
    BY DEF Existing
  <2>4. Existing' = downloaded'
    <3>1. seen' = 0
      BY <2>1
    <3>2. \A d \in Nat : d - 0 = d
      OBVIOUS
    <3>3. downloaded' - seen' = downloaded'
      BY <2>2, <3>1, <3>2
    <3> QED BY <2>3, <3>3
  <2>5. WithinTarget'
    <3>1. \A e \in Nat : e + 0 <= IF e < Target THEN Target ELSE e
      BY <1>1
    <3>2. Existing' + 0 <= IF Existing' < Target THEN Target ELSE Existing'
      BY <2>2, <2>4, <3>1
    <3>3. Existing' + queued' <= IF Existing' < Target THEN Target ELSE Existing'
      BY <2>1, <3>2
    <3> QED BY <2>1, <3>3 DEF WithinTarget
  <2> QED BY <2>1, <2>5 DEF TargetInv
<1>5. CASE pc' # "over" /\ ~Start
  <2> SUFFICES ASSUME Running' PROVE WithinTarget'
    BY <1>5 DEF TargetInv
  <2>1. Existing' = Existing /\ (queued' = queued \/ Decide) /\ Existing \in Int
    <3>1. Existing' = Existing /\ (queued' = queued \/ Decide)
      BY <1>5, ExistingStays
    <3>2. downloaded \in Nat /\ seen \in Nat
      BY <1>1 DEF CountsOK
    <3>3. Existing \in Int
      BY <3>2 DEF Existing
    <3> QED BY <3>1, <3>3
  <2>2. Running
    BY <1>5 DEF Running, Next, MainStep, Start, TurnPage, Unavailable, NoRecords, Unevaluated,
                Evaluated, PageDone, Skip, Decide, Admit, Backpressure, DrainBusy, DrainIdle, Round,
                Retry, Close, Interrupt, CancelPending, End, Crash, NextPage, ThreadStep, vars, driverVars
  <2>3. WithinTarget
    BY <2>2 DEF TargetInv
  <2>4. CASE Evaluated
    <3>1. /\ pc' = "decide" /\ queued' = queued /\ completed' = completed + Succeeded
          /\ seen' = completed'
      BY <2>4 DEF Evaluated, Collect
    <3>2. PICK room \in Nat : /\ room = Left(downloaded' + Outstanding(completed'))
                              /\ Len(todo') <= room /\ todo' \in Seq(Job)
      BY <2>4, ChosenType
    <3>3. /\ downloaded' \in Nat /\ completed' \in Nat /\ queued \in Nat
          /\ downloaded' = Existing + completed'
      BY <1>1, <2>1, <3>1 DEF Existing, CountsOK
    <3>4. Len(todo') \in Nat /\ (Len(todo') = 0 => todo' = <<>>)
      BY <3>2, EmptySeq, LenProperties
    <3>5. Outstanding(completed') \in Nat /\ completed' + Outstanding(completed') >= queued
      <4>1. \A c \in Nat : Outstanding(c) \in Nat /\ c + Outstanding(c) >= queued
        BY <1>1 DEF Outstanding, CountsOK
      <4> QED BY <3>3, <4>1
    <3>6. room = 0 \/ room = Target - (downloaded' + Outstanding(completed'))
      BY <3>2 DEF Left
    <3>7. Len(todo') = 0 \/ Existing + queued + Len(todo') <= Target
      <4>1. \A c, d, o, q, r, n \in Nat, e \in Int :
              d = e + c /\ c + o >= q /\ (r = 0 \/ r = Target - (d + o)) /\ n <= r
                => n = 0 \/ e + q + n <= Target
        BY <1>1
      <4> QED BY <2>1, <3>2, <3>3, <3>4, <3>5, <3>6, <4>1
    <3> QED BY <2>1, <2>3, <3>1, <3>4, <3>7 DEF WithinTarget
  <2>5. CASE Decide
    <3>1. pc = "decide" /\ todo # <<>> /\ todo' = todo /\ queued' = queued + 1 /\ pc' = "admit"
      BY <2>5 DEF Decide
    <3>2. Len(todo) >= 1
      BY <1>1, <1>2, <3>1, EmptySeq DEF MainOK
    <3> QED BY <1>1, <1>2, <2>1, <2>3, <3>1, <3>2 DEF WithinTarget, CountsOK
  <2>6. CASE Skip \/ Admit
    <3>1. todo # <<>> /\ todo' = Tail(todo) /\ queued' = queued
      BY <1>1, <2>6 DEF Skip, Admit, DecideUnchanged, MainOK
    <3>2. Len(todo') = Len(todo) - 1
      BY <1>1, <3>1, TailContents DEF MainOK
    <3>3. (pc = "decide" /\ pc' = "decide") \/ (pc = "admit" /\ pc' = "decide") \/ pc' = "retry"
      BY <2>6 DEF Skip, Admit, DecideUnchanged
    <3> QED BY <1>1, <1>2, <2>1, <2>3, <3>1, <3>2, <3>3 DEF WithinTarget, CountsOK
  <2>7. CASE ~Evaluated /\ ~Decide /\ ~Skip /\ ~Admit
    <3>1. pc' \in {"decide", "admit"} => pc' = pc /\ todo' = todo
      BY <1>5, <2>7 DEF Running, Next, MainStep, Start, TurnPage, Unavailable, NoRecords, Unevaluated,
                PageDone, Backpressure, DrainBusy, DrainIdle, Round, UnchangedByMain, DecideUnchanged,
                Retry, Close, Interrupt, CancelPending, End, Crash, NextPage, ThreadStep, vars, driverVars
    <3> QED BY <2>1, <2>3, <2>7, <3>1 DEF WithinTarget
  <2> QED BY <2>4, <2>5, <2>6, <2>7
<1> QED BY <1>3, <1>4, <1>5

\* However completions, failures and waits for the pool interleave with the
\* pages, discovery never schedules more documents than the target leaves.
THEOREM TargetIsRespected == Spec => []TargetRespected
<1>1. TargetInv => TargetRespected
  BY DEF TargetInv, WithinTarget, TargetRespected, Existing
<1> QED BY <1>1, TypeInvInit, TypeInvStep, TargetInvInit, TargetInvStep, PTL DEF Spec

-----------------------------------------------------------------------------
(* Where a document can be                                                 *)

InTurn == {"taken", "working", "landed", "ended"}

\* The candidate whose record is written and which waits for room in the pool.
AtDoor == IF pc \in {"admit", "readmit"} THEN {Head(todo)} ELSE {}

\* The jobs of the running round: queued, in a turn, reported, or kept as failures.
InPool == Range(jobs) \cup {turn[w].job : w \in {v \in Worker : turn[v].step \in InTurn}}
          \cup {o.job : o \in Range(outcomes)} \cup held \cup failed
InHand == InPool \cup AtDoor

\* Those of them from which an attempt or its failure is still to come.
Pending(w) == \/ turn[w].step \in {"taken", "working", "landed"}
              \/ turn[w].step = "ended" /\ turn[w].result = "failure"
Live == Range(jobs) \cup {turn[w].job : w \in {v \in Worker : Pending(v)}}
        \cup Drained("failure") \cup held \cup failed \cup AtDoor

\* The jobs of the rounds to come, and what this round has not yet begun.
ToRetry == CASE pc = "retry" -> Range(todo)
             [] pc = "readmit" -> Range(Tail(todo))
             [] OTHER -> {}
Later == backlog \cup ToRetry
LaterNames == {k.name : k \in Later}

\* During discovery: the name was given on a page that is behind, so that no
\* rejection can overwrite its record any more.
Discovery == {"page", "search", "decide", "admit"}
Early(n) ==
  pc \in Discovery =>
    n[2] \in 1..(IF pc \in {"decide", "admit"} THEN page ELSE page - 1)

\* The record of the name is the job's own, and no job to come shares it.
Owns(j) ==
  /\ j.name \in DOMAIN ledger
  /\ ledger[j.name].doc = j.doc /\ ledger[j.name].attempt = j.attempt
  /\ j.name \in scheduled.names \ LaterNames /\ Early(j.name)
Owned == \A j \in InHand : Owns(j)

LaterOK ==
  /\ LaterNames \subseteq scheduled.names
  /\ \A j, k \in Later : j.name = k.name => j = k
  /\ pc \in {"retry", "readmit"} =>
       \A a, b \in DOMAIN todo : todo[a].name = todo[b].name => a = b
  /\ pc \in {"retry", "readmit", "redrain"} => backlog = {}
  /\ pc \in {"decide", "admit"} => \A k \in Range(todo) : Early(k.name)

\* A record that no job will touch again says that the document has ended.
EndedAs(d, n) ==
  /\ n \in scheduled.names \ LaterNames /\ Early(n)
  /\ n \in DOMAIN ledger /\ ledger[n].doc = d
  /\ \/ ledger[n].status \in {"COMPLETED", "PERMANENTLY_FAILED"}
     \/ ledger[n].attempt = MaxAttempts
Ended(d) == \E n \in Filename : EndedAs(d, n)

Placed == \A d \in scheduled.docs : (\E j \in Live \cup Later : j.doc = d) \/ Ended(d)

Quiet == pc = "rounds" => InPool = {}

\* Between two runs the process keeps nothing.
Rested == jobs = <<>> /\ outcomes = <<>> /\ Busy = {} /\ held = {} /\ failed = {}

PlacesInv == /\ Running => Owned /\ LaterOK /\ Placed /\ Quiet
             /\ pc = "over" => Rested

LEMMA PlacesInvInit == Init => PlacesInv
<1> SUFFICES ASSUME Init PROVE PlacesInv
  OBVIOUS
<1>1. Busy = {} /\ pc = "over"
  BY DEF Init, Busy, Resting
<1> QED BY <1>1 DEF Init, PlacesInv, Rested, Running

\* Jobs of outcomes.
LEMMA ReportedJobs ==
  /\ \A x \in Results : Drained(x) = {o.job : o \in {p \in Range(outcomes) : p.result = x}}
  /\ \A x \in Results : Drained(x) \subseteq {o.job : o \in Range(outcomes)}
<1>1. ASSUME NEW x \in Results
      PROVE  Drained(x) = {o.job : o \in {p \in Range(outcomes) : p.result = x}}
  BY DEF Drained, Range
<1> QED BY <1>1

LEMMA HandTypes ==
  ASSUME TypeInv
  PROVE  /\ InHand \subseteq Job /\ Later \subseteq Job /\ Live \subseteq InHand
         /\ LaterNames \subseteq Filename
<1>1. /\ Range(jobs) \subseteq Job /\ Range(outcomes) \subseteq Outcome /\ Range(todo) \subseteq Job
      /\ todo # <<>> => Head(todo) \in Job /\ Range(Tail(todo)) \subseteq Job
  <2>1. \A S : \A s \in Seq(S) : Range(s) \subseteq S
    BY ElementOfSeq, LenProperties DEF Range
  <2>2. jobs \in Seq(Job) /\ outcomes \in Seq(Outcome) /\ todo \in Seq(Job)
    BY DEF TypeInv, PoolOK, MainOK
  <2>3. todo # <<>> => Head(todo) \in Job /\ Tail(todo) \in Seq(Job)
    BY <2>2, TailContents
  <2> QED BY <2>1, <2>2, <2>3
<1>2. \A w \in Worker : turn[w].step \in InTurn => turn[w].job \in Job
  BY DEF TypeInv, TurnsOK, Turn, InTurn
<1>3. {o.job : o \in Range(outcomes)} \subseteq Job
  BY <1>1 DEF Outcome
<1>4. AtDoor \subseteq Job /\ ToRetry \subseteq Job
  BY <1>1 DEF AtDoor, ToRetry, TypeInv, MainOK
<1>5. InHand \subseteq Job
  BY <1>1, <1>2, <1>3, <1>4 DEF InHand, InPool, TypeInv, SetsOK
<1>6. Later \subseteq Job
  BY <1>4 DEF Later, TypeInv, SetsOK
<1>7. Live \subseteq InHand
  <2>1. Drained("failure") \subseteq InPool
    BY ReportedJobs DEF InPool, Results
  <2>2. \A w \in Worker : Pending(w) => turn[w].step \in InTurn
    BY DEF Pending, InTurn
  <2> QED BY <2>1, <2>2 DEF Live, InHand, InPool
<1>8. LaterNames \subseteq Filename
  BY <1>6 DEF LaterNames, Job
<1> QED BY <1>5, <1>6, <1>7, <1>8

\* A thread moves its job along, and drops it from what is to come only when the
\* document is stored or the last attempt has failed.
LEMMA WorkerHand ==
  ASSUME TypeInv, NEW w \in Worker, ThreadStep(w)
  PROVE  /\ InPool' \subseteq InPool /\ InHand' \subseteq InHand
         /\ \A j \in Live : \/ j \in Live'
                            \/ j = turn[w].job /\ Complete(w)
                            \/ j = turn[w].job /\ Fail(w) /\ j.attempt >= MaxAttempts
<1>1. PoolOK /\ TurnsOK /\ UNCHANGED driverVars
  BY DEF TypeInv, ThreadStep
<1>2. AtDoor' = AtDoor /\ UNCHANGED <<held, failed>>
  BY <1>1 DEF driverVars, AtDoor
<1> DEFINE Turns == {turn[v].job : v \in {u \in Worker : turn[u].step \in InTurn}}
           Awaited == {turn[v].job : v \in {u \in Worker : Pending(u)}}
           Reports == {o.job : o \in Range(outcomes)}
           Gone(j) == \/ j = turn[w].job /\ Complete(w)
                      \/ j = turn[w].job /\ Fail(w) /\ j.attempt >= MaxAttempts
<1>3. /\ InPool = Range(jobs) \cup Turns \cup Reports \cup held \cup failed
      /\ Live = Range(jobs) \cup Awaited \cup Drained("failure") \cup held \cup failed \cup AtDoor
  BY DEF InPool, Live
<1>4. SUFFICES /\ Range(jobs') \cup Turns' \cup Reports' \subseteq Range(jobs) \cup Turns \cup Reports
               /\ \A j \in Range(jobs) \cup Awaited \cup Drained("failure") :
                    j \in Range(jobs') \cup Awaited' \cup Drained("failure")' \/ Gone(j)
  <2> HIDE DEF Turns, Awaited, Reports, Gone
  <2>1. InPool' = Range(jobs') \cup Turns' \cup Reports' \cup held' \cup failed'
    BY DEF InPool, Turns, Reports
  <2>2. Live' = Range(jobs') \cup Awaited' \cup Drained("failure")' \cup held' \cup failed' \cup AtDoor'
    BY DEF Live, Awaited
  <2>3. InPool' \subseteq InPool
    BY <1>2, <1>3, <1>4, <2>1
  <2>4. InHand' \subseteq InHand
    BY <1>2, <2>3 DEF InHand
  <2>5. \A j \in Live : j \in Live' \/ Gone(j)
    BY <1>2, <1>3, <1>4, <2>2
  <2> QED BY <2>3, <2>4, <2>5 DEF Gone
<1>5. ASSUME NEW t, turn' = [turn EXCEPT ![w] = t]
      PROVE  \A v \in Worker : turn'[v] = IF v = w THEN t ELSE turn[v]
  BY <1>1, <1>5 DEF TurnsOK
<1>6. ASSUME NEW s, NEW x, Goes(w, s, x)
      PROVE  \A v \in Worker : turn'[v] = IF v = w THEN [step |-> s, job |-> turn[w].job, result |-> x]
                                          ELSE turn[v]
  BY <1>5, <1>6 DEF Goes
<1>0. ASSUME NEW s, NEW x, Goes(w, s, x)
       PROVE  turn'[w].step = s /\ turn'[w].result = x
  <2> DEFINE t == [step |-> s, job |-> turn[w].job, result |-> x]
  <2>1. turn'[w] = t
    BY <1>6, <1>0
  <2> QED BY <2>1
<1>7. CASE Take(w)
  <2> DEFINE t == [step |-> "taken", job |-> Head(jobs), result |-> "failure"]
  <2>1. turn' = [turn EXCEPT ![w] = t] /\ outcomes' = outcomes /\ turn[w].step = "idle"
    BY <1>7 DEF Take
  <2>2. Range(jobs) = Range(jobs') \cup {Head(jobs)}
    BY <1>1, <1>7, TailContents DEF Take, PoolOK
  <2>3. \A v \in Worker : turn'[v] = IF v = w THEN t ELSE turn[v]
    BY <1>5, <2>1
  <2>4. Turns' \subseteq Turns \cup {Head(jobs)}
    BY <2>3
  <2>5. Reports' = Reports /\ Drained("failure")' = Drained("failure")
    BY <2>1 DEF Drained
  <2>6. Head(jobs) \in Awaited' /\ Awaited \subseteq Awaited'
    BY <2>1, <2>3 DEF Pending
  <2> QED BY <2>2, <2>4, <2>5, <2>6
<1>8. CASE Begin(w) \/ Raise(w) \/ Request(w) \/ Land(w)
  <2>1. UNCHANGED <<jobs, outcomes>>
    BY <1>8 DEF Begin, Raise, Request, Land
  <2>2. /\ \A v \in Worker : turn'[v].job = turn[v].job
        /\ \A v \in Worker : turn[v].step \in InTurn <=> turn'[v].step \in InTurn
        /\ \A v \in Worker : Pending(v) => Pending(v)'
    <3>1. CASE Request(w)
      <4>1. turn' = turn
        BY <3>1 DEF Request
      <4> QED BY <4>1 DEF Pending
    <3>2. CASE Begin(w) \/ Raise(w) \/ Land(w)
      <4>1. PICK s \in {"working", "ended", "landed"}, x \in Results :
              Goes(w, s, x) /\ (s = "ended" => x = "failure")
        BY <3>2 DEF Begin, Raise, Land, Results
      <4>2. turn[w].step \in {"taken", "working"}
        BY <3>2 DEF Begin, Raise, Land
      <4>3. \A v \in Worker : turn'[v] = IF v = w THEN [step |-> s, job |-> turn[w].job, result |-> x]
                                         ELSE turn[v]
        BY <1>6, <4>1
      <4> QED BY <4>1, <4>2, <4>3 DEF InTurn, Pending
    <3> QED BY <1>8, <3>1, <3>2
  <2>3. Turns' = Turns /\ Awaited \subseteq Awaited'
    BY <2>2
  <2>4. Reports' = Reports /\ Drained("failure")' = Drained("failure")
    BY <2>1 DEF Drained
  <2> QED BY <2>1, <2>3, <2>4
<1>9. CASE Complete(w) \/ Fail(w)
  <2>1. UNCHANGED <<jobs, outcomes>>
    BY <1>9 DEF Complete, Fail
  <2>2. /\ \A v \in Worker : turn'[v].job = turn[v].job
        /\ \A v \in Worker : turn[v].step \in InTurn <=> turn'[v].step \in InTurn
        /\ \A v \in Worker \ {w} : Pending(v) => Pending(v)'
        /\ Pending(w)' \/ Complete(w) \/ (Fail(w) /\ turn[w].job.attempt >= MaxAttempts)
    <3>1. PICK x \in Results : Goes(w, "ended", x)
      BY <1>9 DEF Complete, Fail, Results
    <3>2. /\ turn[w].step \in {"landed", "working"}
          /\ \/ Complete(w) \/ (Fail(w) /\ turn[w].job.attempt >= MaxAttempts)
             \/ Goes(w, "ended", "failure")
      BY <1>9 DEF Complete, Fail
    <3>3. \A v \in Worker : turn'[v] = IF v = w THEN [step |-> "ended", job |-> turn[w].job, result |-> x]
                                       ELSE turn[v]
      BY <1>6, <3>1
    <3>4. Goes(w, "ended", "failure") => turn'[w].step = "ended" /\ turn'[w].result = "failure"
      BY <1>0
    <3> QED BY <3>2, <3>3, <3>4 DEF InTurn, Pending
  <2>3. Turns' = Turns /\ \A j \in Awaited : j \in Awaited' \/ Gone(j)
    BY <2>2
  <2>4. Reports' = Reports /\ Drained("failure")' = Drained("failure")
    BY <2>1 DEF Drained
  <2> HIDE DEF Turns, Awaited, Reports, Gone
  <2> QED BY <2>1, <2>3, <2>4
<1>10. CASE Report(w)
  <2> DEFINE o == [job |-> turn[w].job, result |-> turn[w].result]
  <2>1. jobs' = jobs /\ outcomes' = Append(outcomes, o) /\ Goes(w, "reported", turn[w].result)
        /\ turn[w].step = "ended"
    BY <1>10 DEF Report
  <2>2. o \in Outcome
    BY <1>1, <2>1 DEF TurnsOK, Turn, Outcome
  <2>3. Range(outcomes') = Range(outcomes) \cup {o}
    BY <1>1, <2>1, <2>2, AppendContents DEF PoolOK
  <2>4. \A v \in Worker : v # w => turn'[v] = turn[v]
    BY <1>6, <2>1
  <2>5. turn'[w].step = "reported" /\ turn[w].job \in Turns
    <3>1. turn'[w].step = "reported"
      BY <1>0, <2>1
    <3> QED BY <2>1, <3>1 DEF InTurn
  <2>6. Turns' \subseteq Turns
    BY <2>4, <2>5 DEF InTurn
  <2>7. Reports' = Reports \cup {turn[w].job}
    <3>1. o.job = turn[w].job
      OBVIOUS
    <3> HIDE DEF o
    <3> QED BY <2>3, <3>1
  <2>8. /\ Drained("failure") = {p.job : p \in {q \in Range(outcomes) : q.result = "failure"}}
        /\ Drained("failure")' = {p.job : p \in {q \in Range(outcomes') : q.result = "failure"}}
    BY DEF Drained, Range
  <2>9. Drained("failure") \subseteq Drained("failure")'
    BY <2>3, <2>8
  <2>10. ASSUME NEW v \in Worker, Pending(v)
         PROVE  turn[v].job \in Awaited' \cup Drained("failure")'
    <3>1. CASE v # w
      BY <2>4, <2>10, <3>1 DEF Pending
    <3>2. CASE v = w
      <4>1. o \in Range(outcomes') /\ o.result = "failure" /\ o.job = turn[v].job
        BY <2>1, <2>3, <2>10, <3>2 DEF Pending
      <4> QED BY <2>8, <4>1
    <3> QED BY <3>1, <3>2
  <2> QED BY <2>1, <2>5, <2>6, <2>7, <2>9, <2>10
<1>11. CASE TaskDone(w) \/ Exit(w)
  <2>1. UNCHANGED <<jobs, outcomes>> /\ turn[w].step \in {"reported", "idle"}
    BY <1>11 DEF TaskDone, Exit
  <2>2. \A v \in Worker : v # w => turn'[v] = turn[v]
    BY <1>5, <1>11 DEF TaskDone, Exit
  <2>3. turn'[w].step \in {"idle", "exited"}
    <3>1. PICK s \in {"idle", "exited"} : turn' = [turn EXCEPT ![w] = Resting(s)]
      BY <1>11 DEF TaskDone, Exit
    <3>2. turn'[w] = Resting(s)
      BY <1>5, <3>1
    <3> QED BY <3>2 DEF Resting
  <2>4. Turns' \subseteq Turns
    BY <2>2, <2>3 DEF InTurn
  <2>5. Awaited \subseteq Awaited'
    BY <2>1, <2>2 DEF Pending
  <2>6. Reports' = Reports /\ Drained("failure")' = Drained("failure")
    BY <2>1 DEF Drained
  <2> QED BY <2>1, <2>4, <2>5, <2>6
<1> QED BY <1>7, <1>8, <1>9, <1>10, <1>11 DEF ThreadStep, WorkerStep

LEMMA OneJobPerName ==
  ASSUME TypeInv, Owned, NEW j \in InHand, NEW k \in InHand, j.name = k.name
  PROVE  j = k
<1>1. j \in Job /\ k \in Job
  BY HandTypes
<1>2. j.doc = k.doc /\ j.attempt = k.attempt
  BY DEF Owned, Owns
<1> QED BY <1>1, <1>2 DEF Job

\* Pages are only left behind while a run goes on.
LEMMA EarlyStays ==
  ASSUME TypeInv, [Next]_vars, Running, pc' # "over"
  PROVE  \A n : Early(n) => Early(n)'
<1>1. page \in Nat \ {0} /\ pc \in Places
  BY DriverAssumption, LenProperties DEF TypeInv, MainOK
<1>2. \/ pc' \notin Discovery
      \/ pc' = pc /\ page' = page
      \/ pc' = "search" /\ pc = "page" /\ page' = page
      \/ pc' = "page" /\ page' = page + 1 /\ pc \in {"search", "decide"}
      \/ pc' \in {"decide", "admit"} /\ pc \in {"search", "decide", "admit"} /\ page' = page
  BY DEF Running, Next, MainStep, Start, TurnPage, Unavailable, NoRecords, Unevaluated, Evaluated, PageDone,
         Skip, Decide, Admit, Backpressure, DrainBusy, DrainIdle, Round, Retry, Close, CancelPending, End,
         Crash, Interrupt, ThreadStep, driverVars, vars, NextPage, UnchangedByMain, SearchUnchanged,
         DecideUnchanged, EndUnchanged, Discovery
<1>3. ASSUME NEW n, Early(n)
      PROVE  Early(n)'
  <2>1. CASE pc' \notin Discovery
    BY <2>1 DEF Early
  <2>2. CASE pc' = pc /\ page' = page
    BY <1>3, <2>2 DEF Early
  <2>3. CASE pc' = "search" /\ pc = "page" /\ page' = page
    BY <1>3, <2>3 DEF Early, Discovery
  <2>4. CASE pc' = "page" /\ page' = page + 1 /\ pc \in {"search", "decide"}
    <3>1. n[2] \in 1..page
      BY <1>1, <1>3, <2>4 DEF Early, Discovery
    <3>2. n[2] \in 1..(page' - 1)
      BY <1>1, <2>4, <3>1
    <3> QED BY <2>4, <3>2 DEF Early
  <2>5. CASE pc' \in {"decide", "admit"} /\ pc \in {"search", "decide", "admit"} /\ page' = page
    <3>1. n[2] \in 1..page
      BY <1>1, <1>3, <2>5 DEF Early, Discovery
    <3> QED BY <2>5, <3>1 DEF Early
  <2> QED BY <1>2, <2>1, <2>2, <2>3, <2>4, <2>5
<1> QED BY <1>3

\* A step that writes no record and loses no job.
LEMMA Moves ==
  ASSUME TypeInv, Owned, LaterOK, Placed, UNCHANGED <<ledger, scheduled>>, Later' = Later,
         InHand' \subseteq InHand, Live \subseteq Live', \A n : Early(n) => Early(n)'
  PROVE  /\ Owned' /\ Placed'
         /\ LaterNames' \subseteq scheduled'.names
         /\ \A j, k \in Later' : j.name = k.name => j = k
<1>1. LaterNames' = LaterNames
  BY DEF LaterNames
<1>2. Owned'
  BY <1>1 DEF Owned, Owns
<1>3. \A d, n : EndedAs(d, n) => EndedAs(d, n)'
  BY <1>1 DEF EndedAs
<1>4. Placed'
  BY <1>3 DEF Placed, Ended
<1> QED BY <1>1, <1>2, <1>4 DEF LaterOK

\* The main thread drains the outcomes and keeps the failures, or leaves them.
LEMMA Drains ==
  ASSUME TypeInv, UNCHANGED <<jobs, turn>>, AtDoor' = AtDoor,
         \/ UNCHANGED <<outcomes, held, failed>>
         \/ /\ outcomes' = <<>>
            /\ held' \cup failed' = held \cup failed \cup Drained("failure")
  PROVE  InPool' \subseteq InPool /\ InHand' \subseteq InHand /\ Live \subseteq Live'
<1>1. Drained("failure") \subseteq {o.job : o \in Range(outcomes)}
  BY ReportedJobs DEF Results
<1> DEFINE Turns == {turn[v].job : v \in {u \in Worker : turn[u].step \in InTurn}}
           Awaited == {turn[v].job : v \in {u \in Worker : Pending(u)}}
<1>2. Turns' = Turns /\ Awaited' = Awaited
  BY DEF Pending
<1>3. /\ InPool = Range(jobs) \cup Turns \cup {o.job : o \in Range(outcomes)} \cup (held \cup failed)
      /\ InPool' = Range(jobs') \cup Turns' \cup {o.job : o \in Range(outcomes')} \cup (held' \cup failed')
      /\ Live = Range(jobs) \cup Awaited \cup Drained("failure") \cup (held \cup failed) \cup AtDoor
      /\ Live' = Range(jobs') \cup Awaited' \cup Drained("failure")' \cup (held' \cup failed') \cup AtDoor'
  BY DEF InPool, Live
<1>4. outcomes' = <<>> => Range(outcomes') = {}
  BY DEF Range
<1>5. outcomes' = outcomes => Drained("failure")' = Drained("failure")
  BY DEF Drained
<1> HIDE DEF Turns, Awaited
<1>6. InPool' \subseteq InPool
  BY <1>1, <1>2, <1>3, <1>4
<1>7. Live \subseteq Live'
  BY <1>2, <1>3, <1>5
<1> QED BY <1>6, <1>7 DEF InHand

\* The candidates of a page or of a round are not touched.
LEMMA Untouched ==
  ASSUME \/ {pc, pc'} \cap {"admit", "readmit", "retry"} = {}
         \/ pc' = pc /\ todo' = todo
  PROVE  AtDoor' = AtDoor /\ ToRetry' = ToRetry
<1>1. CASE {pc, pc'} \cap {"admit", "readmit", "retry"} = {}
  BY <1>1 DEF AtDoor, ToRetry
<1>2. CASE pc' = pc /\ todo' = todo
  BY <1>2 DEF AtDoor, ToRetry
<1> QED BY <1>1, <1>2

LEMMA TailDistinct ==
  ASSUME NEW s \in Seq(Job), s # <<>>,
         \A a, b \in DOMAIN s : s[a].name = s[b].name => a = b
  PROVE  /\ \A a, b \in DOMAIN Tail(s) : Tail(s)[a].name = Tail(s)[b].name => a = b
         /\ \A k \in Range(Tail(s)) : k.name # Head(s).name
<1> DEFINE t == Tail(s)
<1>1. /\ t \in Seq(Job) /\ Len(t) = Len(s) - 1
      /\ \A i \in 1..Len(t) : t[i] = s[i + 1]
  BY HeadTailProperties
<1>2. /\ Len(s) \in Nat \ {0} /\ DOMAIN s = 1..Len(s) /\ Head(s) = s[1]
      /\ DOMAIN t = 1..Len(s) - 1
  BY <1>1, EmptySeq, LenProperties
<1> HIDE DEF t
<1>3. ASSUME NEW a \in DOMAIN t
      PROVE  a \in Nat \ {0} /\ a + 1 \in DOMAIN s /\ t[a] = s[a + 1]
  BY <1>1, <1>2
<1>4. ASSUME NEW a \in DOMAIN t, NEW b \in DOMAIN t, t[a].name = t[b].name
      PROVE  a = b
  BY <1>3, <1>4
<1>5. ASSUME NEW a \in DOMAIN t
      PROVE  t[a].name # Head(s).name
  <2>1. a + 1 # 1 /\ 1 \in DOMAIN s /\ a + 1 \in DOMAIN s /\ t[a] = s[a + 1]
    BY <1>2, <1>3
  <2> QED BY <1>2, <2>1
<1> QED BY <1>4, <1>5 DEF t, Range

\* What keeps the candidates in order when the page or the round goes on as it was.
LEMMA LaterGoesOn ==
  ASSUME LaterOK, backlog' = backlog, \A n : Early(n) => Early(n)',
         \/ pc' \notin {"retry", "readmit", "redrain", "decide", "admit"}
         \/ pc' = pc /\ todo' = todo,
         LaterNames' \subseteq scheduled'.names,
         \A j, k \in Later' : j.name = k.name => j = k
  PROVE  LaterOK'
<1>1. CASE pc' \notin {"retry", "readmit", "redrain", "decide", "admit"}
  BY <1>1 DEF LaterOK
<1>2. CASE pc' = pc /\ todo' = todo
  BY <1>2 DEF LaterOK
<1> QED BY <1>1, <1>2

KeptInPlace == Owned /\ LaterOK /\ Placed /\ Quiet

LEMMA PlacesOnPages ==
  ASSUME TypeInv, KeptInPlace, \A n : Early(n) => Early(n)',
         \/ TurnPage \/ Unavailable \/ NoRecords \/ Unevaluated \/ PageDone
         \/ Backpressure \/ DrainBusy \/ UNCHANGED vars
  PROVE  KeptInPlace'
<1>1. UNCHANGED <<jobs, turn, ledger, scheduled, backlog>>
  BY DEF TurnPage, Unavailable, NoRecords, Unevaluated, PageDone, Backpressure, DrainBusy,
         UnchangedByMain, SearchUnchanged, DecideUnchanged, vars, poolVars, driverVars
<1>2. \/ pc' = pc /\ todo' = todo
      \/ /\ {pc, pc'} \cap {"admit", "readmit", "retry"} = {}
         /\ pc' \notin {"retry", "readmit", "redrain", "decide", "admit"}
  BY DEF TurnPage, Unavailable, NoRecords, Unevaluated, PageDone, Backpressure, DrainBusy,
         UnchangedByMain, SearchUnchanged, DecideUnchanged, NextPage, vars, driverVars
<1>3. pc' = "rounds" => pc = "rounds"
  BY DEF TurnPage, Unavailable, NoRecords, Unevaluated, PageDone, Backpressure, DrainBusy,
         UnchangedByMain, SearchUnchanged, DecideUnchanged, NextPage, vars, driverVars
<1>4. AtDoor' = AtDoor /\ ToRetry' = ToRetry
  BY <1>2, Untouched
<1>5. \/ UNCHANGED <<outcomes, held, failed>>
      \/ /\ outcomes' = <<>>
         /\ held' \cup failed' = held \cup failed \cup Drained("failure")
  BY DEF TurnPage, Unavailable, NoRecords, Unevaluated, PageDone, Backpressure, DrainBusy,
         UnchangedByMain, SearchUnchanged, DecideUnchanged, Collect, vars, poolVars, driverVars
<1>6. InPool' \subseteq InPool /\ InHand' \subseteq InHand /\ Live \subseteq Live'
  BY <1>1, <1>4, <1>5, Drains
<1>7. Later' = Later
  BY <1>1, <1>4 DEF Later
<1>8. /\ Owned' /\ Placed' /\ LaterNames' \subseteq scheduled'.names
      /\ \A j, k \in Later' : j.name = k.name => j = k
  BY <1>1, <1>6, <1>7, Moves DEF KeptInPlace
<1>9. LaterOK'
  BY <1>1, <1>2, <1>8, LaterGoesOn DEF KeptInPlace
<1> QED BY <1>3, <1>6, <1>8, <1>9 DEF KeptInPlace, Quiet

LEMMA PlacesOnCandidates ==
  ASSUME TypeInv, KeptInPlace, \A n : Early(n) => Early(n)',
         Skip \/ Admit \/ Round \/ (Retry /\ todo = <<>>)
  PROVE  KeptInPlace'
<1>1. UNCHANGED <<turn, ledger, scheduled, outcomes, held, failed>> /\ pc' # "rounds"
  BY DEF Skip, Admit, Round, Retry, UnchangedByMain, DecideUnchanged
<1>2. todo \in Seq(Job) /\ jobs \in Seq(Job)
  BY DEF TypeInv, MainOK, PoolOK
<1>3. ASSUME InHand' \subseteq InHand, Live \subseteq Live', Later' = Later
      PROVE  /\ Owned' /\ Placed' /\ LaterNames' \subseteq scheduled'.names
             /\ \A j, k \in Later' : j.name = k.name => j = k
  BY <1>1, <1>3, Moves DEF KeptInPlace
<1>4. CASE Skip
  <2>1. pc = "decide" /\ pc' = "decide" /\ todo # <<>> /\ todo' = Tail(todo) /\ UNCHANGED <<jobs, backlog>>
    BY <1>4 DEF Skip, DecideUnchanged
  <2>2. AtDoor' = AtDoor /\ ToRetry' = ToRetry
    BY <2>1, Untouched
  <2>3. InHand' \subseteq InHand /\ Live \subseteq Live' /\ Later' = Later
    BY <1>1, <2>1, <2>2, Drains DEF Later
  <2>4. Range(todo') \subseteq Range(todo)
    BY <1>2, <2>1, TailContents
  <2>5. LaterOK'
    BY <1>3, <2>1, <2>3, <2>4 DEF LaterOK, KeptInPlace
  <2> QED BY <1>1, <1>3, <2>3, <2>5 DEF KeptInPlace, Quiet
<1>5. CASE Admit
  <2>1. /\ todo # <<>> /\ Head(todo) \in Job /\ todo' = Tail(todo) /\ jobs' = Append(jobs, Head(todo))
        /\ Range(todo') \subseteq Range(todo) /\ backlog' = backlog
        /\ (pc = "admit" /\ pc' = "decide") \/ (pc = "readmit" /\ pc' = "retry")
    <3>1. pc \in {"admit", "readmit"} /\ todo # <<>>
      BY <1>5 DEF Admit, TypeInv, MainOK
    <3>2. Head(todo) \in Job /\ Range(Tail(todo)) \subseteq Range(todo)
      BY <1>2, <3>1, TailContents
    <3>3. /\ todo' = Tail(todo) /\ jobs' = Append(jobs, Head(todo)) /\ backlog' = backlog
          /\ pc' = IF pc = "admit" THEN "decide" ELSE "retry"
      BY <1>5 DEF Admit, Put
    <3> QED BY <3>1, <3>2, <3>3
  <2>2. Range(jobs') = Range(jobs) \cup {Head(todo)}
    BY <1>2, <2>1, AppendContents
  <2>3. AtDoor = {Head(todo)} /\ AtDoor' = {} /\ ToRetry' = ToRetry
    BY <2>1 DEF AtDoor, ToRetry
  <2>4. Drained("failure")' = Drained("failure") /\ \A w \in Worker : Pending(w)' = Pending(w)
    BY <1>1 DEF Drained, Pending
  <2>5. Live \subseteq Live'
    BY <1>1, <2>2, <2>3, <2>4 DEF Live
  <2>6. InHand' \subseteq InHand
    BY <1>1, <2>2, <2>3 DEF InHand, InPool
  <2>7. Later' = Later
    BY <2>1, <2>3 DEF Later
  <2>8. pc' = "retry" => \A a, b \in DOMAIN todo' : todo'[a].name = todo'[b].name => a = b
    BY <1>2, <2>1, TailDistinct DEF LaterOK, KeptInPlace
  <2>9. LaterOK'
    BY <1>3, <2>1, <2>5, <2>6, <2>7, <2>8 DEF LaterOK, KeptInPlace
  <2> QED BY <1>1, <1>3, <2>5, <2>6, <2>7, <2>9 DEF KeptInPlace, Quiet
<1>6. CASE Round
  <2>1. /\ pc = "rounds" /\ pc' = "retry" /\ todo' = SetToSeq(backlog) /\ backlog' = {}
        /\ jobs' = jobs
    BY <1>6 DEF Round
  <2>2. /\ SetToSeq(backlog) \in Seq(backlog) /\ Range(SetToSeq(backlog)) = backlog
        /\ IsInjective(SetToSeq(backlog))
    BY SequenceOfSet DEF TypeInv, SetsOK
  <2>3. AtDoor' = {} /\ AtDoor = {} /\ ToRetry = {} /\ ToRetry' = backlog
    BY <2>1, <2>2 DEF AtDoor, ToRetry
  <2>4. Later' = Later
    BY <2>1, <2>3 DEF Later
  <2>5. InHand' \subseteq InHand /\ Live \subseteq Live'
    BY <1>1, <2>1, <2>3, Drains
  <2>6. \A a, b \in DOMAIN todo' : todo'[a].name = todo'[b].name => a = b
    <3> SUFFICES ASSUME NEW a \in DOMAIN todo', NEW b \in DOMAIN todo', todo'[a].name = todo'[b].name
                 PROVE  a = b
      OBVIOUS
    <3>1. todo'[a] \in Later /\ todo'[b] \in Later
      BY <2>1, <2>2 DEF Later, Range
    <3>2. todo'[a] = todo'[b]
      BY <3>1 DEF LaterOK, KeptInPlace
    <3> QED BY <2>1, <2>2, <3>2 DEF IsInjective
  <2>7. LaterOK'
    BY <1>3, <2>1, <2>4, <2>5, <2>6 DEF LaterOK
  <2> QED BY <1>1, <1>3, <2>4, <2>5, <2>7 DEF KeptInPlace, Quiet
<1>7. CASE Retry /\ todo = <<>>
  <2>1. pc = "retry" /\ pc' = "redrain" /\ UNCHANGED <<jobs, backlog>>
    BY <1>7 DEF Retry, UnchangedByMain
  <2>2. AtDoor' = {} /\ AtDoor = {} /\ ToRetry = {} /\ ToRetry' = {}
    BY <1>7, <2>1 DEF AtDoor, ToRetry, Range
  <2>3. InHand' \subseteq InHand /\ Live \subseteq Live' /\ Later' = Later
    BY <1>1, <2>1, <2>2, Drains DEF Later
  <2>4. LaterOK'
    BY <1>3, <2>1, <2>3 DEF LaterOK, KeptInPlace
  <2> QED BY <1>1, <1>3, <2>3, <2>4 DEF KeptInPlace, Quiet
<1> QED BY <1>4, <1>5, <1>6, <1>7

LEMMA PlacesInThreads ==
  ASSUME TypeInv, KeptInPlace, NEW w \in Worker, ThreadStep(w)
  PROVE  KeptInPlace'
<1> DEFINE job == turn[w].job
<1>1. UNCHANGED <<pc, page, todo, backlog, scheduled>>
  BY DEF ThreadStep, driverVars
<1>2. Later' = Later /\ (\A n : Early(n)' <=> Early(n)) /\ LaterNames' = LaterNames
  BY <1>1 DEF Later, ToRetry, Early, LaterNames
<1>3. InHand' \subseteq InHand /\ InPool' \subseteq InPool
  BY WorkerHand
<1>4. ASSUME NEW s \in Statuses, Write(job, s), job \in Job,
             turn[w].step \in {"taken", "working", "landed"}
      PROVE  /\ job \in Live /\ job \in InHand /\ Owns(job)
             /\ DOMAIN ledger' = DOMAIN ledger
             /\ ledger'[job.name] = [doc |-> job.doc, status |-> s, attempt |-> job.attempt]
             /\ \A n \in DOMAIN ledger \ {job.name} : ledger'[n] = ledger[n]
  <2>1. job \in Live
    BY <1>4 DEF Live, Pending
  <2>2. job \in InHand
    BY <2>1, HandTypes
  <2>3. Owns(job)
    BY <2>2 DEF KeptInPlace, Owned
  <2>4. /\ DOMAIN ledger' = DOMAIN ledger \cup {job.name}
        /\ ledger'[job.name] = [doc |-> job.doc, status |-> s, attempt |-> job.attempt]
        /\ \A n \in DOMAIN ledger \ {job.name} : ledger'[n] = ledger[n]
    BY <1>4, WrittenType DEF TypeInv
  <2>5. job.name \in DOMAIN ledger
    BY <2>3 DEF Owns
  <2> QED BY <2>1, <2>2, <2>3, <2>4, <2>5
<1>5. \/ UNCHANGED ledger
      \/ /\ turn[w].step \in {"taken", "working", "landed"} /\ job \in Job
         /\ \E s \in Statuses : Write(job, s)
  BY WorkerWrites DEF ThreadStep
<1>6. Owned'
  <2> SUFFICES ASSUME NEW j \in InHand' PROVE Owns(j)'
    BY DEF Owned
  <2>1. j \in InHand /\ Owns(j)
    BY <1>3 DEF KeptInPlace, Owned
  <2>2. CASE UNCHANGED ledger
    BY <1>1, <1>2, <2>1, <2>2 DEF Owns
  <2>3. ASSUME NEW s \in Statuses, Write(job, s), job \in Job,
               turn[w].step \in {"taken", "working", "landed"}
        PROVE  Owns(j)'
    <3>1. /\ job \in InHand /\ DOMAIN ledger' = DOMAIN ledger
          /\ ledger'[job.name] = [doc |-> job.doc, status |-> s, attempt |-> job.attempt]
          /\ \A n \in DOMAIN ledger \ {job.name} : ledger'[n] = ledger[n]
      BY <1>4, <2>3
    <3>2. j.name = job.name => j = job
      BY <2>1, <3>1, OneJobPerName DEF KeptInPlace
    <3>3. ledger'[j.name].doc = j.doc /\ ledger'[j.name].attempt = j.attempt
      <4>1. CASE j.name = job.name
        BY <3>1, <3>2, <4>1
      <4>2. CASE j.name # job.name
        BY <2>1, <3>1, <4>2 DEF Owns
      <4> QED BY <4>1, <4>2
    <3> QED BY <1>1, <1>2, <2>1, <3>1, <3>3 DEF Owns
  <2> QED BY <1>5, <2>2, <2>3
<1>7. Placed'
  <2> SUFFICES ASSUME NEW d \in scheduled.docs
               PROVE  (\E j \in Live' \cup Later' : j.doc = d) \/ Ended(d)'
    BY <1>1 DEF Placed
  <2>1. ASSUME NEW j \in Live, j.doc = d
        PROVE  (\E k \in Live' \cup Later' : k.doc = d) \/ Ended(d)'
    <3>1. CASE j \in Live'
      BY <2>1, <3>1
    <3>2. ASSUME NEW s \in {"COMPLETED", "PERMANENTLY_FAILED"}, Write(j, s), j = job,
                 turn[w].step \in {"taken", "working", "landed"}
          PROVE  Ended(d)'
      <4>2. j \in Job /\ s \in Statuses
        BY <2>1, HandTypes DEF Statuses
      <4>3. /\ Owns(j) /\ DOMAIN ledger' = DOMAIN ledger
            /\ ledger'[j.name] = [doc |-> j.doc, status |-> s, attempt |-> j.attempt]
        BY <1>4, <3>2, <4>2
      <4>4. EndedAs(d, j.name)'
        BY <1>1, <1>2, <2>1, <4>3 DEF EndedAs, Owns
      <4>5. j.name \in Filename
        BY <4>2 DEF Job
      <4> QED BY <4>4, <4>5 DEF Ended
    <3>3. CASE j = job /\ Complete(w)
      BY <3>2, <3>3 DEF Complete
    <3>4. CASE j = job /\ Fail(w) /\ j.attempt >= MaxAttempts
      BY <3>2, <3>4 DEF Fail
    <3> QED BY <2>1, <3>1, <3>3, <3>4, WorkerHand
  <2>2. ASSUME NEW j \in Later, j.doc = d
        PROVE  \E k \in Live' \cup Later' : k.doc = d
    BY <1>2, <2>2
  <2>3. ASSUME NEW n \in Filename, EndedAs(d, n)
        PROVE  (\E k \in Live' \cup Later' : k.doc = d) \/ Ended(d)'
    <3>1. CASE n \in DOMAIN ledger' /\ ledger'[n] = ledger[n]
      <4>1. EndedAs(d, n)'
        BY <1>1, <1>2, <2>3, <3>1 DEF EndedAs
      <4> QED BY <4>1 DEF Ended
    <3>2. ASSUME NEW s \in Statuses, Write(job, s), job \in Job,
                 turn[w].step \in {"taken", "working", "landed"}
          PROVE  (n \in DOMAIN ledger' /\ ledger'[n] = ledger[n]) \/ (job \in Live /\ job.doc = d)
      <4>1. /\ job \in Live /\ Owns(job) /\ DOMAIN ledger' = DOMAIN ledger
            /\ \A m \in DOMAIN ledger \ {job.name} : ledger'[m] = ledger[m]
        BY <1>4, <3>2
      <4> QED BY <2>3, <4>1 DEF EndedAs, Owns
    <3> QED BY <1>5, <2>1, <2>3, <3>1, <3>2 DEF EndedAs
  <2> QED BY <2>1, <2>2, <2>3 DEF KeptInPlace, Placed, Ended
<1>8. LaterOK'
  BY <1>1, <1>2 DEF KeptInPlace, LaterOK
<1>9. Quiet'
  BY <1>1, <1>3 DEF KeptInPlace, Quiet
<1> QED BY <1>6, <1>7, <1>8, <1>9 DEF KeptInPlace

LEMMA PlacesInEvaluated ==
  ASSUME TypeInv, KeptInPlace, \A n : Early(n) => Early(n)', Evaluated
  PROVE  KeptInPlace'
<1>1. /\ pc = "search" /\ pc' = "decide" /\ UNCHANGED <<jobs, turn, page, backlog, scheduled>>
      /\ outcomes' = <<>> /\ held' = {} /\ failed' = failed \cup held \cup Drained("failure")
  BY DEF Evaluated, Collect, UnchangedByMain
<1>2. AtDoor' = AtDoor /\ ToRetry' = ToRetry
  BY <1>1, Untouched
<1>3. InHand' \subseteq InHand /\ Live \subseteq Live' /\ Later' = Later /\ LaterNames' = LaterNames
  <2>1. held' \cup failed' = held \cup failed \cup Drained("failure")
    BY <1>1
  <2> QED BY <1>1, <1>2, <2>1, Drains DEF Later, LaterNames
<1>4. page \in Nat \ {0}
  BY DriverAssumption, LenProperties DEF TypeInv, MainOK
<1>5. ASSUME NEW n \in DOMAIN ledger, Early(n)
      PROVE  n \in DOMAIN ledger' /\ ledger'[n] = ledger[n]
  <2>1. PICK approved \in SUBSET Batch :
          /\ DOMAIN ledger' = DOMAIN ledger \cup {BatchName(i) : i \in Batch \ approved}
          /\ \A m \in DOMAIN ledger : m \notin {BatchName(i) : i \in Batch \ approved}
                                        => ledger'[m] = ledger[m]
    BY RejectedType
  <2>2. ASSUME NEW i \in Batch, n = BatchName(i)
        PROVE  FALSE
    <3>1. n[2] = page
      BY <2>2 DEF BatchName, Name
    <3>2. n[2] \in 1..(page - 1)
      BY <1>1, <1>5 DEF Early, Discovery
    <3> QED BY <1>4, <3>1, <3>2
  <2> QED BY <2>1, <2>2
<1>6. Owned'
  <2> SUFFICES ASSUME NEW j \in InHand' PROVE Owns(j)'
    BY DEF Owned
  <2>1. Owns(j)
    BY <1>3 DEF KeptInPlace, Owned
  <2>2. j.name \in DOMAIN ledger' /\ ledger'[j.name] = ledger[j.name]
    BY <1>5, <2>1 DEF Owns
  <2> QED BY <1>1, <1>3, <2>1, <2>2 DEF Owns
<1>7. \A d, n : EndedAs(d, n) => EndedAs(d, n)'
  BY <1>1, <1>3, <1>5 DEF EndedAs
<1>8. Placed'
  BY <1>1, <1>3, <1>7 DEF KeptInPlace, Placed, Ended
<1>9. ASSUME NEW k \in Range(todo')
      PROVE  Early(k.name)'
  <2>1. PICK d \in Doc, i \in Nat : k.name = Name(d, page, i)
    BY ChosenType DEF Range
  <2>2. k.name[2] = page
    BY <2>1 DEF Name
  <2>3. page \in 1..page
    BY <1>4
  <2> QED BY <1>1, <2>2, <2>3 DEF Early
<1>10. LaterOK'
  BY <1>1, <1>3, <1>9 DEF KeptInPlace, LaterOK
<1> QED BY <1>1, <1>6, <1>8, <1>10 DEF KeptInPlace, Quiet

\* A job comes to the door with a record of its own.
LEMMA PlacesAtTheDoor ==
  ASSUME TypeInv, KeptInPlace, \A n : Early(n) => Early(n)',
         NEW h \in Job, AtDoor = {}, UNCHANGED <<jobs, turn, outcomes, held, failed>>,
         AtDoor' = {h}, NEW s \in Statuses, Write(h, s),
         scheduled.names \subseteq scheduled'.names, h.name \in scheduled'.names,
         scheduled'.docs \subseteq scheduled.docs \cup {h.doc},
         Later' \subseteq Later, Later \subseteq Later' \cup {h},
         \A j \in InHand : j.name # h.name, h.name \notin LaterNames',
         Early(h.name)',
         \A d, n : EndedAs(d, n) => n # h.name
  PROVE  Owned' /\ Placed'
<1>1. /\ DOMAIN ledger' = DOMAIN ledger \cup {h.name}
      /\ ledger'[h.name] = [doc |-> h.doc, status |-> s, attempt |-> h.attempt]
      /\ \A n \in DOMAIN ledger \ {h.name} : ledger'[n] = ledger[n]
  BY WrittenType DEF TypeInv
<1>2. Drained("failure")' = Drained("failure") /\ \A w \in Worker : Pending(w)' = Pending(w)
  BY DEF Drained, Pending
<1>3. InPool' = InPool /\ InHand' = InHand \cup {h} /\ Live' = Live \cup {h}
  BY <1>2 DEF InHand, InPool, Live
<1>4. LaterNames' \subseteq LaterNames
  BY DEF LaterNames
<1>5. Owned'
  <2>1. ASSUME NEW j \in InHand PROVE Owns(j)'
    <3>1. Owns(j) /\ j.name # h.name
      BY DEF KeptInPlace, Owned
    <3>2. j.name \in DOMAIN ledger' /\ ledger'[j.name] = ledger[j.name]
      BY <1>1, <3>1 DEF Owns
    <3> QED BY <1>4, <3>1, <3>2 DEF Owns
  <2>2. Owns(h)'
    BY <1>1 DEF Owns
  <2> QED BY <1>3, <2>1, <2>2 DEF Owned
<1>6. \A d, n : EndedAs(d, n) => EndedAs(d, n)'
  BY <1>1, <1>4 DEF EndedAs
<1>7. ASSUME NEW d \in scheduled'.docs
      PROVE  (\E j \in Live' \cup Later' : j.doc = d) \/ Ended(d)'
  <2>1. CASE d = h.doc
    BY <1>3, <2>1
  <2>2. CASE d \in scheduled.docs
    <3>1. (\E j \in Live \cup Later : j.doc = d) \/ Ended(d)
      BY <2>2 DEF KeptInPlace, Placed
    <3>2. Live \cup Later \subseteq Live' \cup Later'
      BY <1>3
    <3> QED BY <1>6, <3>1, <3>2 DEF Ended
  <2> QED BY <2>1, <2>2
<1> QED BY <1>5, <1>7 DEF Placed

LEMMA PlacesInDecide ==
  ASSUME TypeInv, KeptInPlace, \A n : Early(n) => Early(n)', Decide
  PROVE  KeptInPlace'
<1> PICK h \in Job : todo # <<>> /\ h = Head(todo) /\ h \in Range(todo)
  BY TailContents DEF Decide, TypeInv, MainOK
<1>1. /\ pc = "decide" /\ pc' = "admit" /\ todo' = todo
      /\ scheduled' = [names |-> scheduled.names \cup {h.name},
                       docs |-> scheduled.docs \cup {h.doc}]
      /\ UNCHANGED <<jobs, turn, outcomes, held, failed, backlog>>
  <2>1. /\ pc = "decide" /\ pc' = "admit" /\ todo' = todo
        /\ scheduled' = [names |-> scheduled.names \cup {Head(todo).name},
                         docs |-> scheduled.docs \cup {Head(todo).doc}]
    BY DEF Decide
  <2>2. UNCHANGED <<turn, jobs, outcomes, held, failed, backlog>>
    BY DEF Decide, DecideUnchanged, UnchangedByMain
  <2> QED BY <2>1, <2>2
<1>2. h.name \notin scheduled.names
  BY DEF Decide, Duplicate
<1>3. AtDoor = {} /\ AtDoor' = {h} /\ ToRetry = {} /\ ToRetry' = {}
  BY <1>1 DEF AtDoor, ToRetry
<1>4. Later' = Later /\ LaterNames' = LaterNames /\ LaterNames \subseteq scheduled.names
  BY <1>1, <1>3 DEF Later, LaterNames, KeptInPlace, LaterOK
<1>5. Write(h, "QUEUED") /\ "QUEUED" \in Statuses
  BY DEF Decide, Statuses
<1>6. \A k \in Range(todo') : Early(k.name)'
  BY <1>1 DEF KeptInPlace, LaterOK
<1>7. \A j \in InHand : j.name # h.name
  BY <1>2 DEF KeptInPlace, Owned, Owns
<1>8. \A d, n : EndedAs(d, n) => n # h.name
  BY <1>2 DEF EndedAs
<1>9. Owned' /\ Placed'
  BY <1>1, <1>2, <1>3, <1>4, <1>5, <1>6, <1>7, <1>8, PlacesAtTheDoor
<1>10. LaterOK'
  BY <1>1, <1>4, <1>6 DEF KeptInPlace, LaterOK
<1> QED BY <1>1, <1>9, <1>10 DEF KeptInPlace, Quiet

LEMMA PlacesInRetry ==
  ASSUME TypeInv, KeptInPlace, \A n : Early(n) => Early(n)', Retry, todo # <<>>
  PROVE  KeptInPlace'
<1> PICK h \in Job : h = Head(todo) /\ h \in Range(todo)
  BY TailContents DEF TypeInv, MainOK
<1>1. /\ pc = "retry" /\ pc' = "readmit" /\ todo' = todo
      /\ UNCHANGED <<jobs, turn, outcomes, held, failed, backlog, scheduled>>
      /\ Write(h, "RECOVERING") /\ "RECOVERING" \in Statuses
  BY DEF Retry, UnchangedByMain, Statuses
<1>2. todo \in Seq(Job)
  BY DEF TypeInv, MainOK
<1>3. Range(todo) = Range(Tail(todo)) \cup {h}
  BY <1>2, TailContents
<1>4. \A k \in Range(Tail(todo)) : k.name # h.name
  BY <1>1, <1>2, TailDistinct DEF KeptInPlace, LaterOK
<1>5. AtDoor = {} /\ AtDoor' = {h} /\ backlog = {} /\ backlog' = {}
  BY <1>1 DEF AtDoor, KeptInPlace, LaterOK
<1>6. Later = Range(todo) /\ Later' = Range(Tail(todo))
  BY <1>1, <1>5 DEF Later, ToRetry
<1>7. /\ Later' \subseteq Later /\ Later = Later' \cup {h}
      /\ h.name \in LaterNames /\ h.name \notin LaterNames'
      /\ LaterNames' \subseteq LaterNames
  BY <1>3, <1>4, <1>6 DEF LaterNames
<1>8. \A j \in InHand : j.name # h.name
  BY <1>7 DEF KeptInPlace, Owned, Owns
<1>9. \A d, n : EndedAs(d, n) => n # h.name
  BY <1>7 DEF EndedAs
<1>10. h.name \in scheduled.names
  BY <1>7 DEF KeptInPlace, LaterOK
<1>11. Early(h.name)'
  BY <1>1 DEF Early, Discovery
<1>12. Owned' /\ Placed'
  BY <1>1, <1>5, <1>7, <1>8, <1>9, <1>10, <1>11, PlacesAtTheDoor
<1>13. LaterOK'
  BY <1>1, <1>5, <1>7 DEF KeptInPlace, LaterOK
<1> QED BY <1>1, <1>12, <1>13 DEF KeptInPlace, Quiet

\* An idle pool has nothing in its queue and nothing in a turn.
LEMMA IdleIsEmpty == TypeInv /\ Idle => jobs = <<>> /\ Busy = {}
<1> SUFFICES ASSUME TypeInv, Idle PROVE jobs = <<>> /\ Busy = {}
  OBVIOUS
<1>1. jobs \in Seq(Job) /\ unfinished = Len(jobs) + Cardinality(Busy) /\ unfinished = 0
  BY DEF TypeInv, PoolOK, Accounting, Idle
<1>2. Len(jobs) \in Nat /\ Cardinality(Busy) \in Nat
  BY <1>1, LenProperties, BusyIsFinite
<1>3. Len(jobs) = 0 /\ Cardinality(Busy) = 0
  BY <1>1, <1>2
<1> QED BY <1>1, <1>3, EmptySeq, BusyIsFinite

LEMMA EmptyPool ==
  ASSUME jobs = <<>>, Busy = {}
  PROVE  /\ InPool = {o.job : o \in Range(outcomes)} \cup held \cup failed
         /\ Live = Drained("failure") \cup held \cup failed \cup AtDoor
<1>1. \A w \in Worker : turn[w].step \notin InTurn /\ ~Pending(w)
  BY DEF Busy, InTurn, Pending
<1>2. Range(jobs) = {}
  BY DEF Range
<1> QED BY <1>1, <1>2 DEF InPool, Live

LEMMA PlacesInDrainIdle ==
  ASSUME TypeInv, KeptInPlace, DrainIdle
  PROVE  KeptInPlace'
<1> DEFINE S == failed \cup held \cup Drained("failure")
<1>1. /\ pc \in {"drain", "redrain"} /\ pc' = "rounds" /\ Idle
      /\ UNCHANGED <<jobs, turn, ledger, scheduled>>
      /\ outcomes' = <<>> /\ held' = {} /\ failed' = {}
      /\ backlog' \in Highest(backlog \cup Advanced(S))
  BY DEF DrainIdle, UnchangedByMain
<1>2. jobs = <<>> /\ Busy = {} /\ jobs' = <<>> /\ Busy' = {}
  BY <1>1, IdleIsEmpty DEF Busy
<1>3. InPool' = {} /\ AtDoor' = {} /\ AtDoor = {} /\ ToRetry = {} /\ ToRetry' = {}
  <2>1. InPool' = {o.job : o \in Range(outcomes')} \cup held' \cup failed'
    <3>1. \A w \in Worker : turn'[w].step \notin InTurn
      BY <1>2 DEF Busy, InTurn
    <3>2. Range(jobs') = {}
      BY <1>2 DEF Range
    <3> QED BY <3>1, <3>2 DEF InPool
  <2>2. Range(outcomes') = {}
    BY <1>1 DEF Range
  <2> QED BY <1>1, <2>1, <2>2 DEF AtDoor, ToRetry
<1>4. InHand' = {} /\ Later = backlog /\ Later' = backlog'
  BY <1>3 DEF InHand, Later
<1>5. S \subseteq InHand /\ Live = S
  BY <1>2, <1>3, EmptyPool, HandTypes DEF Live
<1>6. \A j \in S : j \in Job /\ Owns(j)
  BY <1>5, HandTypes DEF KeptInPlace, Owned
<1>7. \A j, k \in S : j.name = k.name => j = k
  BY <1>5, OneJobPerName DEF KeptInPlace
<1> HIDE DEF S
<1>8. \A k \in Advanced(S) : \E j \in S : /\ j.attempt < MaxAttempts /\ k.name = j.name
                                          /\ k.doc = j.doc /\ k = [j EXCEPT !.attempt = @ + 1]
  BY <1>6 DEF Advanced, Job
<1>9. /\ backlog' \subseteq backlog \cup Advanced(S)
      /\ \A j \in backlog \cup Advanced(S) : \E k \in backlog' : k.doc = j.doc
  BY <1>1 DEF Highest
<1>10. \A n \in LaterNames' : n \in LaterNames \/ \E j \in S : j.attempt < MaxAttempts /\ j.name = n
  BY <1>4, <1>8, <1>9 DEF LaterNames
<1>11. \A n : Early(n)'
  BY <1>1 DEF Early, Discovery
<1>12. ASSUME NEW j \in S, j.attempt < MaxAttempts
       PROVE  \E k \in Later' : k.doc = j.doc
  <2>1. [j EXCEPT !.attempt = @ + 1] \in Advanced(S) /\ [j EXCEPT !.attempt = @ + 1].doc = j.doc
    BY <1>6, <1>12 DEF Advanced, Job
  <2> QED BY <1>4, <1>9, <2>1
<1>13. ASSUME NEW j \in S, ~(j.attempt < MaxAttempts)
       PROVE  EndedAs(j.doc, j.name)' /\ j.name \in Filename
  <2>1. j \in Job /\ Owns(j)
    BY <1>6
  <2>2. j.attempt = MaxAttempts /\ j.name \in Filename
    BY <1>13, <2>1, Sizes DEF Job
  <2>3. j.name \notin LaterNames'
    BY <1>7, <1>10, <1>13, <2>1 DEF Owns
  <2> QED BY <1>1, <1>11, <2>1, <2>2, <2>3 DEF EndedAs, Owns
<1>14. ASSUME NEW d, NEW n \in Filename, EndedAs(d, n)
       PROVE  (\E k \in Later' : k.doc = d) \/ EndedAs(d, n)'
  <2>1. CASE n \in LaterNames'
    <3>1. PICK j \in S : j.attempt < MaxAttempts /\ j.name = n
      BY <1>10, <1>14, <2>1 DEF EndedAs
    <3>2. j.doc = d
      BY <1>6, <1>14, <3>1 DEF EndedAs, Owns
    <3> QED BY <1>12, <3>1, <3>2
  <2>2. CASE n \notin LaterNames'
    BY <1>1, <1>11, <1>14, <2>2 DEF EndedAs
  <2> QED BY <2>1, <2>2
<1>15. ASSUME NEW d \in scheduled'.docs
       PROVE  (\E j \in Live' \cup Later' : j.doc = d) \/ Ended(d)'
  <2>1. (\E j \in S \cup backlog : j.doc = d) \/ Ended(d)
    BY <1>1, <1>4, <1>5, <1>15 DEF KeptInPlace, Placed
  <2>2. ASSUME NEW j \in S, j.doc = d
        PROVE  (\E k \in Live' \cup Later' : k.doc = d) \/ Ended(d)'
    BY <1>12, <1>13, <2>2 DEF Ended
  <2>3. ASSUME NEW j \in backlog, j.doc = d
        PROVE  \E k \in Live' \cup Later' : k.doc = d
    BY <1>4, <1>9, <2>3
  <2>4. CASE Ended(d)
    BY <1>14, <2>4 DEF Ended
  <2> QED BY <2>1, <2>2, <2>3, <2>4
<1>16. LaterNames' \subseteq scheduled'.names
  BY <1>1, <1>6, <1>10 DEF KeptInPlace, LaterOK, Owns
<1>17. ASSUME NEW j \in Later', NEW k \in Later', j.name = k.name
       PROVE  j = k
  <2>1. ASSUME NEW a \in backlog, NEW b \in Advanced(S)
        PROVE  a.name # b.name
    <3>1. a.name \in LaterNames
      BY <1>4 DEF LaterNames
    <3> QED BY <1>6, <1>8, <3>1 DEF Owns
  <2>2. CASE j \in backlog /\ k \in backlog
    BY <1>4, <1>17, <2>2 DEF KeptInPlace, LaterOK
  <2>3. CASE j \in Advanced(S) /\ k \in Advanced(S)
    BY <1>7, <1>8, <1>17, <2>3
  <2> QED BY <1>4, <1>9, <1>17, <2>1, <2>2, <2>3
<1>18. LaterOK'
  BY <1>1, <1>16, <1>17 DEF LaterOK
<1> QED BY <1>3, <1>4, <1>15, <1>18 DEF KeptInPlace, Owned, Placed, Quiet

LEMMA PlacesInStart ==
  ASSUME TypeInv, Rested, Start
  PROVE  KeptInPlace'
<1> DEFINE all == Interrupted(Counted)
<1>1. PICK chosen \in SUBSET all :
        /\ backlog' \in Lowest(chosen)
        /\ scheduled' = [names |-> {j.name : j \in chosen}, docs |-> {j.doc : j \in chosen}]
  BY DEF Start
<1>2. pc' = "page" /\ UNCHANGED <<jobs, turn, outcomes, held, failed>>
  BY DEF Start
<1>3. \A j, k \in all : j.name = k.name => j = k
  BY CountedType, InterruptedType DEF TypeInv
<1> HIDE DEF all
<1>4. backlog' \subseteq chosen /\ \A j \in chosen : \E k \in backlog' : k.doc = j.doc
  BY <1>1 DEF Lowest
<1>5. InHand' = {} /\ Later' = backlog'
  <2>1. \A w \in Worker : turn'[w].step \notin InTurn
    BY <1>2 DEF Rested, Busy, InTurn
  <2>2. Range(jobs') = {} /\ Range(outcomes') = {} /\ held' = {} /\ failed' = {}
    BY <1>2 DEF Rested, Range
  <2>3. AtDoor' = {} /\ ToRetry' = {}
    BY <1>2 DEF AtDoor, ToRetry
  <2> QED BY <2>1, <2>2, <2>3 DEF InHand, InPool, Later
<1>6. LaterOK'
  BY <1>1, <1>2, <1>3, <1>4, <1>5 DEF LaterOK, LaterNames
<1>7. Placed'
  BY <1>1, <1>4, <1>5 DEF Placed
<1> QED BY <1>2, <1>5, <1>6, <1>7 DEF KeptInPlace, Owned, Quiet

LEMMA RestedStays ==
  ASSUME TypeInv, PlacesInv, [Next]_vars, pc' = "over"
  PROVE  Rested'
<1>1. CASE End \/ Crash
  <2>1. /\ jobs' = <<>> /\ outcomes' = <<>> /\ held' = {} /\ failed' = {}
        /\ turn' = [w \in Worker |-> Resting("idle")]
    BY <1>1 DEF End, Crash, Forgotten
  <2>2. Busy' = {}
    BY <2>1 DEF Busy, Resting
  <2> QED BY <2>1, <2>2 DEF Rested
<1>2. CASE UNCHANGED vars
  BY <1>2 DEF vars, poolVars, driverVars, PlacesInv, Rested, Busy
<1>3. ASSUME NEW w \in Worker, ThreadStep(w)
      PROVE  Rested'
  <2>1. pc = "over" /\ Rested /\ UNCHANGED <<held, failed>>
    BY <1>3 DEF ThreadStep, driverVars, PlacesInv
  <2>2. turn[w].step \in {"idle", "exited"}
    BY <2>1 DEF Rested, Busy
  <2>3. Exit(w)
    BY <1>3, <2>1, <2>2 DEF ThreadStep, WorkerStep, Take, Begin, Raise, Request, Land, Complete, Fail, Report,
                            TaskDone, Rested
  <2>4. jobs' = jobs /\ outcomes' = outcomes /\ turn' = [turn EXCEPT ![w] = Resting("exited")]
    BY <2>3 DEF Exit
  <2>5. Busy' = {}
    BY <2>1, <2>4 DEF Rested, Busy, Resting, TypeInv, TurnsOK
  <2> QED BY <2>1, <2>4, <2>5 DEF Rested
<1>4. pc' # "over" \/ End \/ Crash \/ UNCHANGED vars \/ \E w \in Worker : ThreadStep(w)
  BY DEF Next, MainStep, Start, TurnPage, Unavailable, NoRecords, Unevaluated, Evaluated, PageDone,
         Skip, Decide, Admit, Backpressure, DrainBusy, DrainIdle, Round, Retry, Close,
         Interrupt, CancelPending, NextPage
<1> QED BY <1>1, <1>2, <1>3, <1>4

LEMMA PlacesInvStep == TypeInv /\ PlacesInv /\ [Next]_vars => PlacesInv'
<1> SUFFICES ASSUME TypeInv, PlacesInv, [Next]_vars PROVE PlacesInv'
  OBVIOUS
<1>1. pc' = "over" => Rested' /\ ~Running'
  BY RestedStays DEF Running
<1>2. CASE Start
  <2>1. Rested /\ pc' = "page"
    BY <1>2 DEF Start, PlacesInv
  <2> QED BY <1>2, <2>1, PlacesInStart DEF PlacesInv, KeptInPlace
<1>3. CASE ~Start /\ Running'
  <2>1. Running /\ pc' # "over"
    BY <1>3 DEF Running, Next, MainStep, Start, TurnPage, Unavailable, NoRecords, Unevaluated,
                Evaluated, PageDone, Skip, Decide, Admit, Backpressure, DrainBusy, DrainIdle, Round,
                Retry, Close, Interrupt, CancelPending, End, Crash, NextPage, ThreadStep, vars, driverVars
  <2>2. KeptInPlace /\ \A n : Early(n) => Early(n)'
    BY <2>1, EarlyStays DEF PlacesInv, KeptInPlace
  <2>4. ~(Close \/ Interrupt \/ CancelPending \/ End \/ Crash)
    BY <1>3 DEF Running, Close, Interrupt, CancelPending, End, Crash
  <2>5. KeptInPlace'
    <3>1. CASE \/ TurnPage \/ Unavailable \/ NoRecords \/ Unevaluated \/ PageDone \/ Backpressure
               \/ DrainBusy \/ UNCHANGED vars
      BY <2>2, <3>1, PlacesOnPages
    <3>2. CASE Skip \/ Admit \/ Round \/ (Retry /\ todo = <<>>)
      BY <2>2, <3>2, PlacesOnCandidates
    <3>3. CASE Evaluated
      BY <2>2, <3>3, PlacesInEvaluated
    <3>4. CASE Decide
      BY <2>2, <3>4, PlacesInDecide
    <3>5. CASE Retry /\ todo # <<>>
      BY <2>2, <3>5, PlacesInRetry
    <3>6. CASE DrainIdle
      BY <2>2, <3>6, PlacesInDrainIdle
    <3>7. ASSUME NEW w \in Worker, ThreadStep(w) PROVE KeptInPlace'
      BY <2>2, <3>7, PlacesInThreads
    <3> QED BY <1>3, <2>4, <3>1, <3>2, <3>3, <3>4, <3>5, <3>6, <3>7 DEF Next, MainStep
  <2> QED BY <2>1, <2>5 DEF PlacesInv, KeptInPlace
<1>4. CASE ~Running' /\ pc' # "over"
  BY <1>4 DEF PlacesInv
<1> QED BY <1>1, <1>2, <1>3, <1>4 DEF PlacesInv

\* When the pool is drained, each document of the run has ended, waits for its
\* next round, or has used up its attempts, in whatever order threads report,
\* the main thread drains, candidates wait and rounds follow.
THEOREM NothingIsForgotten == Spec => []NothingForgotten
<1>1. ASSUME TypeInv, PlacesInv
      PROVE  NothingForgotten
  <2> SUFFICES ASSUME pc = "rounds", NEW d \in scheduled.docs
               PROVE  \/ \E job \in backlog : job.doc = d
                      \/ \E n \in DOMAIN ledger :
                           /\ ledger[n].doc = d
                           /\ \/ ledger[n].status \in {"COMPLETED", "PERMANENTLY_FAILED"}
                              \/ ledger[n].attempt = MaxAttempts
    BY DEF NothingForgotten
  <2>1. Placed /\ Quiet
    BY <1>1 DEF PlacesInv, Running
  <2>2. InHand = {} /\ Later = backlog
    BY <2>1 DEF Quiet, InHand, Later, AtDoor, ToRetry
  <2>3. Live = {}
    BY <1>1, <2>2, HandTypes
  <2> QED BY <2>1, <2>2, <2>3 DEF Placed, Ended, EndedAs
<1> QED BY <1>1, TypeInvInit, TypeInvStep, PlacesInvInit, PlacesInvStep, PTL DEF Spec
=============================================================================
