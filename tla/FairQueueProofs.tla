--------------------------- MODULE FairQueueProofs ---------------------------
(***************************************************************************)
(* Proofs about FairQueue and FairShare for every set of documents, number *)
(* of workers, capacity and budget.  The inductive invariant IInv          *)
(* strengthens the properties with what ties the slots to the table of     *)
(* running jobs; ShareInv bounds how long a kind of work is passed over;   *)
(* the last part maps every step to a step of DocumentLifecycle.           *)
(***************************************************************************)
EXTENDS FairShare, FairQueueLifecycle, SequenceTheorems, FiniteSetTheorems, TLAPS

-----------------------------------------------------------------------------
\* The queues of the scheduler are deques without repetitions.

\* A new element at the end of a deque adds exactly that element.
LEMMA AppendContents ==
  ASSUME NEW S, NEW s \in Seq(S), NEW e \in S
  PROVE  /\ Append(s, e) \in Seq(S)
         /\ Range(Append(s, e)) = Range(s) \cup {e}
         /\ IsInjective(s) /\ e \notin Range(s) => IsInjective(Append(s, e))
<1> DEFINE t == Append(s, e)
<1>1. /\ t \in Seq(S) /\ Len(t) = Len(s) + 1
      /\ \A i \in 1..Len(s) : t[i] = s[i]
      /\ t[Len(s) + 1] = e
  BY AppendProperties
<1>2. DOMAIN t = 1..Len(s) + 1 /\ DOMAIN s = 1..Len(s) /\ Len(s) \in Nat
  BY <1>1, LenProperties
<1>3. Range(t) = Range(s) \cup {e}
  <2>1. \A x \in Range(t) : x \in Range(s) \cup {e}
    BY <1>1, <1>2 DEF Range
  <2>2. \A x \in Range(s) : x \in Range(t)
    BY <1>1, <1>2 DEF Range
  <2>3. e \in Range(t)
    BY <1>1, <1>2 DEF Range
  <2> QED BY <2>1, <2>2, <2>3
<1>4. ASSUME IsInjective(s), e \notin Range(s)
      PROVE  IsInjective(t)
  BY <1>1, <1>2, <1>4 DEF Range, IsInjective
<1> QED BY <1>1, <1>3, <1>4

\* Taking a job out of the middle removes exactly that job, and no order changes
\* the others into duplicates.
LEMMA RemoveAtContents ==
  ASSUME NEW S, NEW s \in Seq(S), NEW p \in 1..Len(s), IsInjective(s)
  PROVE  /\ RemoveAt(s, p) \in Seq(S)
         /\ Range(RemoveAt(s, p)) = Range(s) \ {s[p]}
         /\ IsInjective(RemoveAt(s, p))
<1> DEFINE t == RemoveAt(s, p)
<1>1. /\ t \in Seq(S) /\ Len(t) = Len(s) - 1
      /\ \A i \in 1..Len(s) - 1 : t[i] = IF i < p THEN s[i] ELSE s[i + 1]
  <2> DEFINE a == SubSeq(s, 1, p - 1)
             b == SubSeq(s, p + 1, Len(s))
  <2>1. Len(s) \in Nat
    BY LenProperties
  <2>2. /\ a \in Seq(S) /\ Len(a) = p - 1
        /\ \A i \in 1..p - 1 : a[i] = s[i]
    BY <2>1, SubSeqProperties
  <2>3. /\ b \in Seq(S) /\ Len(b) = Len(s) - p
        /\ \A i \in 1..Len(s) - p : b[i] = s[p + i]
    BY <2>1, SubSeqProperties
  <2>4. t = a \o b
    BY DEF RemoveAt
  <2> HIDE DEF a, b, t
  <2>5. /\ t \in Seq(S) /\ Len(t) = Len(a) + Len(b)
        /\ \A i \in 1..Len(a) + Len(b) : t[i] = IF i <= Len(a) THEN a[i] ELSE b[i - Len(a)]
    BY <2>2, <2>3, <2>4, ConcatProperties
  <2>6. ASSUME NEW i \in 1..Len(s) - 1
        PROVE  t[i] = IF i < p THEN s[i] ELSE s[i + 1]
    <3>1. CASE i < p
      <4>1. i \in 1..p - 1 /\ i \in 1..Len(a) + Len(b) /\ i <= Len(a)
        BY <2>1, <2>2, <2>3, <3>1
      <4> QED BY <4>1, <2>2, <2>5, <3>1
    <3>2. CASE i >= p
      <4>1. /\ i - Len(a) \in 1..Len(s) - p /\ p + (i - Len(a)) = i + 1
            /\ i \in 1..Len(a) + Len(b) /\ ~(i <= Len(a)) /\ ~(i < p)
        BY <2>1, <2>2, <2>3, <3>2
      <4>2. t[i] = b[i - Len(a)] /\ b[i - Len(a)] = s[p + (i - Len(a))]
        BY <4>1, <2>3, <2>5
      <4> QED BY <4>1, <4>2
    <3> QED BY <2>1, <3>1, <3>2
  <2>7. t \in Seq(S)
    BY <2>5
  <2>8. Len(t) = Len(s) - 1
    BY <2>1, <2>2, <2>3, <2>5
  <2> QED BY <2>6, <2>7, <2>8
<1> HIDE DEF t
<1>2. DOMAIN t = 1..Len(s) - 1 /\ DOMAIN s = 1..Len(s) /\ Len(s) \in Nat
  BY <1>1, LenProperties
<1>3. \A x \in Range(t) : x \in Range(s) \ {s[p]}
  BY <1>1, <1>2 DEF Range, IsInjective
<1>4. ASSUME NEW x \in Range(s) \ {s[p]}
      PROVE  x \in Range(t)
  <2>1. PICK i \in 1..Len(s) : x = s[i] /\ i # p
    BY <1>2 DEF Range
  <2>2. CASE i < p
    BY <1>1, <1>2, <2>1, <2>2 DEF Range
  <2>3. CASE i > p
    <3>1. i - 1 \in 1..Len(s) - 1 /\ t[i - 1] = s[i]
      BY <1>1, <1>2, <2>1, <2>3
    <3> QED BY <3>1, <1>2, <2>1 DEF Range
  <2> QED BY <2>1, <2>2, <2>3
<1>5. ASSUME NEW i \in 1..Len(s) - 1, NEW j \in 1..Len(s) - 1, t[i] = t[j]
      PROVE  i = j
  <2> DEFINE o(x) == IF x < p THEN x ELSE x + 1
  <2>1. t[i] = s[o(i)] /\ t[j] = s[o(j)] /\ o(i) \in 1..Len(s) /\ o(j) \in 1..Len(s)
    BY <1>1, <1>2
  <2>2. o(i) = o(j)
    BY <2>1, <1>2, <1>5 DEF IsInjective
  <2> QED BY <2>2, <1>2
<1>6. IsInjective(t)
  BY <1>2, <1>5 DEF IsInjective
<1> QED BY <1>1, <1>3, <1>4, <1>6 DEF t

\* The same without the assumption that nothing is repeated.
LEMMA RemoveAtType ==
  ASSUME NEW S, NEW s \in Seq(S), NEW p \in 1..Len(s)
  PROVE  s[p] \in S /\ RemoveAt(s, p) \in Seq(S)
<1>1. SubSeq(s, 1, p - 1) \in Seq(S) /\ SubSeq(s, p + 1, Len(s)) \in Seq(S)
  BY LenProperties, SubSeqProperties
<1> QED BY <1>1, ConcatProperties, LenProperties DEF RemoveAt

-----------------------------------------------------------------------------
\* Type correctness.

\* Busy slots hold a document, and a decision is missing exactly where it must be.
SlotsOK ==
  \A w \in Workers :
    /\ step[w] # "free" => running[w] \in Docs
    /\ step[w] = "decided" => next[w] # NoJob
    /\ verdict[w] = "success" => next[w] = NoJob

TypeInv == TypeOK /\ SlotsOK

LEMMA CycleKinds == \A i \in 1..5 : cycle[i] \in Kinds
  BY DEF cycle, Kinds

LEMMA TypeInvInit == Init => TypeInv
<1> SUFFICES ASSUME Init PROVE TypeInv
  OBVIOUS
<1>1. [kind |-> "primary", state |-> "QUEUED", attempt |-> 1, handoffs |-> 0,
       failures |-> 0] \in Job
  BY ConstantsOK DEF Job, Kinds, States
<1>2. \A k \in Kinds : <<>> \in Seq(Docs)
  OBVIOUS
<1>3. TypeOK
  <2>1. queues \in [Kinds -> Seq(Docs)] /\ job \in [Docs -> Job]
    BY <1>1, <1>2 DEF Init
  <2>2. /\ running \in [Workers -> Docs \cup {NoDoc}] /\ slotKind \in [Workers -> Kinds]
        /\ step \in [Workers -> Steps] /\ verdict \in [Workers -> Verdicts]
        /\ next \in [Workers -> Job \cup {NoJob}]
    BY DEF Init, Kinds, Steps, Verdicts
  <2>3. /\ cursor \in 0..4 /\ waiting \subseteq Docs /\ known \subseteq Docs
        /\ completed_ids \subseteq Docs /\ terminal_ids \subseteq Docs
        /\ troubles \in Nat
    BY DEF Init
  <2>4. closed \in BOOLEAN /\ stopping \in BOOLEAN
    BY Zenon DEF Init
  <2> QED BY <2>1, <2>2, <2>3, <2>4 DEF TypeOK
<1>4. SlotsOK
  BY DEF Init, SlotsOK
<1> QED BY <1>3, <1>4 DEF TypeInv

\* The end of a turn preserves the type if the decision is a job or NoJob.
LEMMA TurnEndsType ==
  ASSUME TypeInv, NEW w \in Workers,
         NEW v \in Verdicts, NEW j \in Job \cup {NoJob}, v = "success" => j = NoJob,
         step[w] = "transfer", troubles' \in Nat, TurnEnds(w, v, j)
  PROVE  TypeInv'
<1> USE DEF TypeInv, TypeOK, TurnEnds, schedVars, idVars
<1>1. TypeOK'
  BY DEF Steps
<1>2. SlotsOK'
  BY DEF SlotsOK
<1> QED BY <1>1, <1>2

\* The attempt number a turn reports is one a document may have.
LEMMA ClaimedRange ==
  ASSUME TypeOK, NEW d \in Docs, NEW a \in ClaimedAttempts(d)
  PROVE  a \in 1..MaxAttempts
  BY ConstantsOK DEF TypeOK, ClaimedAttempts, Job

LEMMA DeferredType ==
  ASSUME TypeInv, NEW w \in Workers, step[w] = "transfer",
         NEW a \in ClaimedAttempts(running[w]), Deferred(w, a)
  PROVE  TypeInv'
<1> DEFINE j == [job[running[w]] EXCEPT !.state = "DEFERRED", !.attempt = a]
<1>1. running[w] \in Docs /\ a \in 1..MaxAttempts
  BY ClaimedRange DEF TypeInv, SlotsOK
<1>2. job[running[w]] \in Job
  BY <1>1 DEF TypeInv, TypeOK
<1>3. j \in Job
  BY <1>1, <1>2 DEF Job, States
<1>4. TurnEnds(w, "deferred", j) /\ troubles' \in Nat
  BY DEF Deferred, Trouble, TypeInv, TypeOK
<1> QED BY <1>3, <1>4, TurnEndsType DEF Verdicts

LEMMA HandedOffType ==
  ASSUME TypeInv, NEW w \in Workers, step[w] = "transfer",
         NEW v \in FailureVerdicts, NEW a \in ClaimedAttempts(running[w]), HandedOff(w, v, a)
  PROVE  TypeInv'
<1> DEFINE j == [job[running[w]] EXCEPT !.kind = "handoff", !.state = "HANDOFF_READY",
                     !.attempt = a, !.handoffs = Handoffs(w) + 1, !.failures = job[running[w]].failures + 1]
<1>1. running[w] \in Docs /\ a \in 1..MaxAttempts /\ v \in Verdicts /\ v # "success"
  BY ClaimedRange DEF TypeInv, SlotsOK, FailureVerdicts, Verdicts
<1>2. /\ job[running[w]] \in Job /\ Handoffs(w) + 1 \in 0..MaxHandoffs
      /\ job[running[w]].failures + 1 \in Nat
  BY <1>1, ConstantsOK DEF TypeInv, TypeOK, Job, HandedOff, Handoffs
<1>3. j \in Job
  BY <1>1, <1>2 DEF Job, States, Kinds
<1>4. TurnEnds(w, v, j) /\ troubles' \in Nat
  BY DEF HandedOff, HandOff, TypeInv, TypeOK
<1> QED BY <1>1, <1>3, <1>4, TurnEndsType

LEMMA RecoversType ==
  ASSUME TypeInv, NEW w \in Workers, step[w] = "transfer", NEW partial \in BOOLEAN,
         NEW v \in FailureVerdicts, NEW a \in ClaimedAttempts(running[w]),
         Recovers(w, v, a, partial)
  PROVE  TypeInv'
<1> DEFINE j == [job[running[w]] EXCEPT !.kind = "recovery", !.state = "RECOVERY_READY",
                     !.attempt = a + 1, !.handoffs = 0, !.failures = job[running[w]].failures + 1]
<1>1. running[w] \in Docs /\ a \in 1..MaxAttempts /\ v \in Verdicts /\ v # "success"
  BY ClaimedRange DEF TypeInv, SlotsOK, FailureVerdicts, Verdicts
<1>2. /\ job[running[w]] \in Job /\ a + 1 \in 1..MaxAttempts /\ 0 \in 0..MaxHandoffs
      /\ job[running[w]].failures + 1 \in Nat
  BY <1>1, ConstantsOK DEF TypeInv, TypeOK, Job, Recovers
<1>3. j \in Job
  BY <1>1, <1>2 DEF Job, States, Kinds
<1>4. TurnEnds(w, v, j) /\ troubles' \in Nat
  BY DEF Recovers, TypeInv, TypeOK
<1> QED BY <1>1, <1>3, <1>4, TurnEndsType

LEMMA GivesUpType ==
  ASSUME TypeInv, NEW w \in Workers, step[w] = "transfer", NEW partial \in BOOLEAN,
         NEW v \in FailureVerdicts, NEW a \in ClaimedAttempts(running[w]),
         GivesUp(w, v, a, partial)
  PROVE  TypeInv'
<1> DEFINE j == [job[running[w]] EXCEPT !.state = "PERMANENTLY_FAILED", !.attempt = a,
                                        !.failures = job[running[w]].failures + 1]
<1>1. running[w] \in Docs /\ a \in 1..MaxAttempts /\ v \in Verdicts /\ v # "success"
  BY ClaimedRange DEF TypeInv, SlotsOK, FailureVerdicts, Verdicts
<1>2. job[running[w]] \in Job /\ job[running[w]].failures + 1 \in Nat
  BY <1>1 DEF TypeInv, TypeOK, Job
<1>3. j \in Job
  BY <1>1, <1>2 DEF Job, States
<1>4. TurnEnds(w, v, j) /\ troubles' \in Nat
  BY DEF GivesUp, TypeInv, TypeOK
<1> QED BY <1>1, <1>3, <1>4, TurnEndsType

LEMMA EndTurnType == ASSUME TypeInv, NEW w \in Workers, EndTurn(w) PROVE TypeInv'
<1>1. step[w] = "transfer"
  BY DEF EndTurn
<1>2. CASE Succeeds(w) \/ Cancelled(w)
  <2>1. \E v \in {"success", "cancelled"} : TurnEnds(w, v, NoJob) /\ troubles' \in Nat
    BY <1>2 DEF Succeeds, Cancelled, TypeInv, TypeOK
  <2> QED BY <1>1, <2>1, TurnEndsType DEF Verdicts
<1>3. CASE \E a \in ClaimedAttempts(running[w]) : Deferred(w, a)
  BY <1>1, <1>3, DeferredType
<1>4. CASE Fails(w)
  BY <1>1, <1>4, HandedOffType, RecoversType, GivesUpType DEF Fails
<1> QED BY <1>2, <1>3, <1>4 DEF EndTurn

LEMMA CursorKind ==
  ASSUME TypeOK, NEW s \in 0..4
  PROVE  CycleKind(s) \in Kinds /\ (cursor + s + 1) % 5 \in 0..4
  BY CycleKinds DEF TypeOK, CycleKind

LEMMA DispatchType ==
  ASSUME TypeInv, NEW w \in Workers, NEW s \in 0..4,
         NEW p \in 1..Len(queues[CycleKind(s)]), Dispatch(w, s, p)
  PROVE  TypeInv'
<1> DEFINE k == CycleKind(s)
<1>1. k \in Kinds /\ queues[k] \in Seq(Docs) /\ cursor' \in 0..4
  BY CursorKind DEF TypeInv, TypeOK, Dispatch
<1>2. queues[k][p] \in Docs /\ RemoveAt(queues[k], p) \in Seq(Docs)
  BY <1>1, RemoveAtType
<1> HIDE DEF k
<1>3. TypeOK'
  BY <1>1, <1>2 DEF TypeInv, TypeOK, Dispatch, Selects, idVars, Steps, k
<1>4. SlotsOK'
  BY <1>1, <1>2 DEF TypeInv, TypeOK, SlotsOK, Dispatch, Selects, idVars, Steps, k
<1> QED BY <1>3, <1>4 DEF TypeInv

LEMMA WorkerStepType == ASSUME TypeInv, NEW w \in Workers, WorkerStep(w) PROVE TypeInv'
<1> USE DEF TypeInv, TypeOK, SlotsOK, schedVars, idVars, turnVars
<1>1. CASE Start(w)
  BY <1>1 DEF Start, Steps
<1>2. CASE EndTurn(w)
  BY <1>2, EndTurnType
<1>3. CASE Record(w)
  BY <1>3 DEF Record, Steps
<1>4. CASE Requeue(w)
  <2>1. running[w] \in Docs /\ next[w] \in Job /\ next[w].kind \in Kinds
    BY <1>4 DEF Requeue, Continues, Job
  <2>2. Append(queues[next[w].kind], running[w]) \in Seq(Docs)
    BY <2>1
  <2> QED BY <1>4, <2>1, <2>2 DEF Requeue, Steps
<1>5. CASE Report(w)
  BY <1>5 DEF Report, Steps
<1>6. CASE Release(w)
  BY <1>6 DEF Release, Steps, Verdicts, Kinds
<1> QED BY <1>1, <1>2, <1>3, <1>4, <1>5, <1>6 DEF WorkerStep

LEMMA OtherStepType == ASSUME TypeInv, OtherStep PROVE TypeInv'
<1> USE DEF TypeInv, TypeOK, SlotsOK, schedVars, idVars, slotVars, turnVars
<1>1. ASSUME NEW d \in Docs, NEW j \in Admissions, Enqueue(d, j)
      PROVE  TypeInv'
  <2>1. j \in Job /\ j.kind \in Kinds
    BY ConstantsOK DEF Job
  <2>2. Append(queues[j.kind], d) \in Seq(Docs)
    BY <2>1
  <2> QED BY <1>1, <2>1, <2>2 DEF Enqueue, Accept
<1>2. ASSUME NEW d \in Docs, RouteBlocked(d) \/ DeadlinePasses(d)
      PROVE  TypeInv'
  BY <1>2 DEF RouteBlocked, DeadlinePasses, Trouble
<1>3. CASE Stop
  BY <1>3 DEF Stop
<1>4. ASSUME NEW lost \in SUBSET Submitted, Close(lost)
      PROVE  TypeInv'
  BY <1>4 DEF Close, Submitted, Steps
<1> QED BY <1>1, <1>2, <1>3, <1>4, WorkerStepType DEF OtherStep

LEMMA TypeInvNext == TypeInv /\ [Next]_vars => TypeInv'
<1> SUFFICES ASSUME TypeInv, [Next]_vars PROVE TypeInv'
  OBVIOUS
<1>1. CASE Admit
  BY <1>1, DispatchType DEF Admit
<1>2. CASE OtherStep
  BY <1>2, OtherStepType
<1>3. CASE UNCHANGED vars
  BY <1>3 DEF TypeInv, TypeOK, SlotsOK, vars, schedVars, idVars, slotVars, turnVars
<1> QED BY <1>1, <1>2, <1>3 DEF Next

\* Every variable keeps its type for every number of documents and workers; no
\* job ever leaves its attempt and handoff ranges.
THEOREM TypeCorrect == Spec => []TypeOK
<1>1. TypeInv => TypeOK
  BY DEF TypeInv
<1> QED BY <1>1, TypeInvInit, TypeInvNext, PTL DEF Spec

-----------------------------------------------------------------------------
\* Ownership.

IInv == TypeInv /\ OneOwner /\ OneTurnAtATime /\ NothingLost /\ FinishedStaysFinished

LEMMA IInvInit == Init => IInv
<1> SUFFICES ASSUME Init PROVE IInv
  OBVIOUS
<1>1. Active = {} /\ Holding = {} /\ InHand = {}
  BY DEF Init, Active, Holding, InHand
<1>2. \A k \in Kinds : queues[k] = <<>> /\ Range(queues[k]) = {} /\ IsInjective(queues[k])
  BY DEF Init, Range, IsInjective
<1>3. Queued = {}
  BY <1>2 DEF Queued
<1> QED BY <1>1, <1>2, <1>3, TypeInvInit
        DEF IInv, OneOwner, OneTurnAtATime, NothingLost, FinishedStaysFinished, Init

\* What is in hand is owned, whether the queue is open or closed; so is what is queued.
LEMMA HeldIsKnown == NothingLost => Queued \subseteq known /\ InHand \subseteq known
  BY DEF NothingLost

\* A step of _execute that leaves the document in the worker's hand.
LEMMA InHandStep ==
  ASSUME IInv, TypeInv', UNCHANGED <<queues, idVars, running, closed>>,
         NEW w \in Holding, NEW st \in Steps \ {"free", "settled"},
         step' = [step EXCEPT ![w] = st]
  PROVE  IInv'
<1>1. Active' = Active /\ Holding' = Holding
  BY DEF IInv, TypeInv, TypeOK, Active, Holding
<1>2. InHand' = InHand /\ Queued' = Queued
  BY <1>1 DEF InHand, Queued
<1> QED BY <1>1, <1>2 DEF IInv, OneOwner, OneTurnAtATime, NothingLost, FinishedStaysFinished, idVars

\* The contents of the queues after an append.
LEMMA AppendQueued ==
  ASSUME TypeOK, OneOwner, NEW k \in Kinds, NEW d \in Docs, d \notin Queued,
         queues' = [queues EXCEPT ![k] = Append(@, d)]
  PROVE  /\ Queued' = Queued \cup {d}
         /\ \A l \in Kinds : IsInjective(queues'[l])
         /\ \A l, m \in Kinds : l # m => Range(queues'[l]) \cap Range(queues'[m]) = {}
<1>1. queues[k] \in Seq(Docs) /\ IsInjective(queues[k]) /\ d \notin Range(queues[k])
  BY DEF TypeOK, OneOwner, Queued
<1>2. Range(queues'[k]) = Range(queues[k]) \cup {d} /\ IsInjective(queues'[k])
  BY <1>1, AppendContents DEF TypeOK
<1>3. \A l \in Kinds \ {k} : queues'[l] = queues[l]
  BY DEF TypeOK
<1>4. Queued' = Queued \cup {d}
  BY <1>2, <1>3 DEF Queued
<1>5. \A l \in Kinds : IsInjective(queues'[l])
  BY <1>2, <1>3 DEF OneOwner
<1>6. \A l, m \in Kinds : l # m => Range(queues'[l]) \cap Range(queues'[m]) = {}
  BY <1>2, <1>3 DEF OneOwner, Queued
<1> QED BY <1>4, <1>5, <1>6

LEMMA EnqueueIInv ==
  ASSUME IInv, TypeInv', NEW d \in Docs, NEW j \in Admissions, Enqueue(d, j)
  PROVE  IInv'
<1>1. j.kind \in Kinds
  BY ConstantsOK DEF Job
<1>2. d \notin Queued /\ d \notin InHand
  BY HeldIsKnown DEF IInv, Enqueue
<1>3. Active' = Active /\ Holding' = Holding /\ InHand' = InHand
  BY DEF Enqueue, Accept, slotVars, Active, Holding, InHand
<1>4. /\ Queued' = Queued \cup {d}
      /\ \A l \in Kinds : IsInjective(queues'[l])
      /\ \A l, m \in Kinds : l # m => Range(queues'[l]) \cap Range(queues'[m]) = {}
  BY <1>1, <1>2, AppendQueued DEF IInv, TypeInv, Enqueue, Accept
<1>5. running' = running /\ closed' = closed /\ ~closed
  BY DEF Enqueue, Accept, slotVars
<1>6. OneOwner' /\ OneTurnAtATime'
  BY <1>2, <1>3, <1>4, <1>5 DEF IInv, OneOwner, OneTurnAtATime
<1>7. NothingLost' /\ FinishedStaysFinished'
  BY <1>3, <1>4, <1>5 DEF IInv, NothingLost, FinishedStaysFinished, Enqueue, Accept
<1> QED BY <1>6, <1>7 DEF IInv

LEMMA DispatchIInv ==
  ASSUME IInv, TypeInv', NEW w \in Workers, NEW s \in 0..4,
         NEW p \in 1..Len(queues[CycleKind(s)]), Dispatch(w, s, p)
  PROVE  IInv'
<1> DEFINE k == CycleKind(s)
           d == queues[k][p]
<1>1. /\ k \in Kinds /\ queues[k] \in Seq(Docs) /\ IsInjective(queues[k])
      /\ p \in 1..Len(queues[k]) /\ d \in Range(queues[k])
  <2>1. k \in Kinds
    BY CursorKind DEF IInv, TypeInv
  <2> QED BY <2>1 DEF IInv, TypeInv, TypeOK, OneOwner, Range
<1>2. /\ w \notin Active /\ d \notin active_ids
      /\ queues' = [queues EXCEPT ![k] = RemoveAt(@, p)]
      /\ running' = [running EXCEPT ![w] = d]
      /\ step' = [step EXCEPT ![w] = "submitted"]
      /\ UNCHANGED <<idVars, closed>> /\ ~closed
  BY DEF Dispatch, Selects, First, Selectable
<1> HIDE DEF k, d
<1>3. Range(queues'[k]) = Range(queues[k]) \ {d} /\ IsInjective(queues'[k])
  BY <1>1, <1>2, RemoveAtContents DEF IInv, TypeInv, TypeOK, d
<1>4. \A l \in Kinds \ {k} : queues'[l] = queues[l] /\ d \notin Range(queues[l])
  BY <1>1, <1>2 DEF IInv, TypeInv, TypeOK, OneOwner
<1>5. Queued' = Queued \ {d} /\ d \in Queued
  BY <1>1, <1>3, <1>4 DEF Queued
<1>6. /\ Active' = Active \cup {w} /\ Holding' = Holding \cup {w}
      /\ running'[w] = d /\ \A v \in Workers \ {w} : running'[v] = running[v]
  BY <1>2 DEF IInv, TypeInv, TypeOK, Active, Holding
<1>7. InHand' = InHand \cup {d}
  BY <1>2, <1>6 DEF InHand, Holding, Active
<1>8. OneTurnAtATime'
  BY <1>2, <1>6 DEF IInv, OneTurnAtATime, active_ids, Active
<1>9. OneOwner'
  <2>1. \A l \in Kinds : IsInjective(queues'[l])
    BY <1>3, <1>4 DEF IInv, OneOwner
  <2>2. \A l, m \in Kinds : l # m => Range(queues'[l]) \cap Range(queues'[m]) = {}
    BY <1>3, <1>4 DEF IInv, OneOwner
  <2>3. \A v, u \in Holding' : running'[v] = running'[u] => v = u
    BY <1>6, <1>8 DEF OneTurnAtATime, Holding
  <2>4. Queued' \cap InHand' = {}
    BY <1>5, <1>7 DEF IInv, OneOwner
  <2> QED BY <2>1, <2>2, <2>3, <2>4 DEF OneOwner
<1>10. NothingLost' /\ FinishedStaysFinished'
  BY <1>2, <1>5, <1>7 DEF IInv, NothingLost, FinishedStaysFinished, idVars
<1> QED BY <1>8, <1>9, <1>10 DEF IInv

LEMMA RequeueIInv ==
  ASSUME IInv, TypeInv', NEW w \in Workers, Requeue(w)
  PROVE  IInv'
<1> DEFINE d == running[w]
           k == next[w].kind
<1>1. /\ step[w] = "recorded" /\ ~closed /\ w \in Holding /\ w \in Active
      /\ k \in Kinds /\ d \in Docs /\ d \in InHand
  BY DEF Requeue, Continues, IInv, TypeInv, TypeOK, SlotsOK, Job, Holding, Active, InHand
<1>2. /\ queues' = [queues EXCEPT ![k] = Append(@, d)]
      /\ step' = [step EXCEPT ![w] = "settled"]
      /\ UNCHANGED <<idVars, running, closed>>
  BY DEF Requeue, idVars
<1> HIDE DEF d, k
<1>3. d \notin Queued
  BY <1>1 DEF IInv, OneOwner
<1>4. /\ Queued' = Queued \cup {d}
      /\ \A l \in Kinds : IsInjective(queues'[l])
      /\ \A l, m \in Kinds : l # m => Range(queues'[l]) \cap Range(queues'[m]) = {}
  BY <1>1, <1>2, <1>3, AppendQueued DEF IInv, TypeInv
<1>5. Active' = Active /\ Holding' = Holding \ {w}
  BY <1>1, <1>2 DEF IInv, TypeInv, TypeOK, Active, Holding
<1>6. InHand' = InHand \ {d}
  BY <1>1, <1>2, <1>5 DEF IInv, OneOwner, InHand, d
<1>7. OneOwner' /\ OneTurnAtATime'
  BY <1>2, <1>4, <1>5, <1>6 DEF IInv, OneOwner, OneTurnAtATime
<1>8. NothingLost' /\ FinishedStaysFinished'
  BY <1>1, <1>2, <1>4, <1>6 DEF IInv, NothingLost, FinishedStaysFinished, idVars
<1> QED BY <1>7, <1>8 DEF IInv

LEMMA ReportIInv ==
  ASSUME IInv, TypeInv', NEW w \in Workers, Report(w)
  PROVE  IInv'
<1> DEFINE d == running[w]
<1>1. /\ step[w] = "recorded" /\ w \in Holding /\ d \in InHand
      /\ queues' = queues /\ closed' = closed /\ running' = running
      /\ known' = known \ {d}
      /\ step' = [step EXCEPT ![w] = "settled"]
  BY DEF Report, schedVars, IInv, TypeInv, TypeOK, Holding, Active, InHand
<1>2. verdict[w] = "success" => ~Permanent(w)
  BY DEF IInv, TypeInv, SlotsOK, Permanent
<1>3. /\ completed_ids' \subseteq completed_ids \cup {d}
      /\ terminal_ids' \subseteq terminal_ids \cup {d}
      /\ d \notin completed_ids' \/ d \notin terminal_ids'
      /\ d \in known /\ d \notin completed_ids \cup terminal_ids
  BY <1>1, <1>2, HeldIsKnown DEF Report, IInv, FinishedStaysFinished
<1> HIDE DEF d
<1>4. Active' = Active /\ Holding' = Holding \ {w} /\ Queued' = Queued
  BY <1>1 DEF IInv, TypeInv, TypeOK, Active, Holding, Queued
<1>5. InHand' = InHand \ {d} /\ d \notin Queued
  BY <1>1, <1>4 DEF IInv, OneOwner, InHand, d
<1>6. OneOwner' /\ OneTurnAtATime'
  BY <1>1, <1>4, <1>5 DEF IInv, OneOwner, OneTurnAtATime
<1>7. NothingLost'
  BY <1>1, <1>4, <1>5 DEF IInv, NothingLost
<1>8. FinishedStaysFinished'
  BY <1>1, <1>3 DEF IInv, FinishedStaysFinished
<1> QED BY <1>6, <1>7, <1>8 DEF IInv

LEMMA ReleaseIInv ==
  ASSUME IInv, TypeInv', NEW w \in Workers, Release(w)
  PROVE  IInv'
<1>1. /\ step[w] = "settled" /\ step' = [step EXCEPT ![w] = "free"]
      /\ running' = [running EXCEPT ![w] = NoDoc]
      /\ UNCHANGED <<queues, idVars, closed>>
  BY DEF Release, schedVars
<1>2. /\ Active' = Active \ {w} /\ Holding' = Holding /\ w \notin Holding
      /\ \A v \in Workers \ {w} : running'[v] = running[v]
      /\ Queued' = Queued
  BY <1>1 DEF IInv, TypeInv, TypeOK, Active, Holding, Queued
<1>3. \A v \in Holding' : running'[v] = running[v]
  BY <1>2 DEF Holding, Active
<1>4. InHand' = InHand
  BY <1>2, <1>3 DEF InHand
<1>5. OneOwner'
  BY <1>1, <1>2, <1>3, <1>4 DEF IInv, OneOwner
<1>6. OneTurnAtATime'
  BY <1>2 DEF IInv, OneTurnAtATime, Active
<1>7. NothingLost' /\ FinishedStaysFinished'
  BY <1>1, <1>2, <1>4 DEF IInv, NothingLost, FinishedStaysFinished, idVars
<1> QED BY <1>5, <1>6, <1>7 DEF IInv

LEMMA CloseIInv ==
  ASSUME IInv, TypeInv', NEW lost \in SUBSET Submitted, Close(lost)
  PROVE  IInv'
<1>1. /\ running' = running /\ closed' /\ UNCHANGED idVars
      /\ queues' = [k \in Kinds |-> <<>>]
      /\ step' = [v \in Workers |-> IF v \in lost THEN "cancelled" ELSE step[v]]
  BY DEF Close, turnVars
<1>2. Active' = Active /\ Holding' = Holding
  BY <1>1 DEF IInv, TypeInv, TypeOK, Active, Holding, Submitted
<1>3. InHand' = InHand
  BY <1>1, <1>2 DEF InHand
<1>4. \A k \in Kinds : Range(queues'[k]) = {} /\ IsInjective(queues'[k])
  BY <1>1 DEF Range, IsInjective
<1>5. Queued' = {}
  BY <1>4 DEF Queued
<1>6. OneOwner' /\ OneTurnAtATime'
  BY <1>1, <1>2, <1>4, <1>5 DEF IInv, OneOwner, OneTurnAtATime
<1>7. NothingLost' /\ FinishedStaysFinished'
  BY <1>1, <1>3, <1>5, HeldIsKnown DEF IInv, NothingLost, FinishedStaysFinished, idVars
<1> QED BY <1>6, <1>7 DEF IInv

LEMMA WorkerStepIInv == ASSUME IInv, TypeInv', NEW w \in Workers, WorkerStep(w) PROVE IInv'
<1> DEFINE Moves(st) == /\ UNCHANGED <<queues, idVars, running, closed>>
                        /\ w \in Holding /\ step' = [step EXCEPT ![w] = st]
<1>1. CASE Start(w) \/ EndTurn(w) \/ Record(w)
  <2>1. \E st \in {"transfer", "decided", "recorded"} : Moves(st)
    <3>1. CASE Start(w)
      BY <3>1 DEF Start, schedVars, Holding, Active
    <3>2. CASE Record(w)
      BY <3>2 DEF Record, schedVars, Holding, Active
    <3>3. CASE EndTurn(w)
      <4>1. step[w] = "transfer" /\ \E v \in Verdicts : \E j : TurnEnds(w, v, j)
        BY <3>3 DEF EndTurn, Succeeds, Cancelled, Deferred, Fails, HandedOff, HandOff,
                    Recovers, GivesUp, FailureVerdicts, Verdicts
      <4> QED BY <4>1 DEF TurnEnds, schedVars, Holding, Active
    <3> QED BY <1>1, <3>1, <3>2, <3>3
  <2> QED BY <2>1, InHandStep DEF Steps
<1>2. CASE Requeue(w)
  BY <1>2, RequeueIInv
<1>3. CASE Report(w)
  BY <1>3, ReportIInv
<1>4. CASE Release(w)
  BY <1>4, ReleaseIInv
<1> QED BY <1>1, <1>2, <1>3, <1>4 DEF WorkerStep

LEMMA IInvNext == IInv /\ [Next]_vars => IInv'
<1> SUFFICES ASSUME IInv, [Next]_vars PROVE IInv'
  OBVIOUS
<1>1. TypeInv'
  BY TypeInvNext DEF IInv
<1>2. CASE Admit
  BY <1>1, <1>2, DispatchIInv DEF Admit
<1>3. CASE \E d \in Docs, j \in Admissions : Enqueue(d, j)
  BY <1>1, <1>3, EnqueueIInv
<1>4. CASE \E w \in Workers : WorkerStep(w)
  BY <1>1, <1>4, WorkerStepIInv
<1>5. CASE \E lost \in SUBSET Submitted : Close(lost)
  BY <1>1, <1>5, CloseIInv
<1>6. CASE \/ \E d \in Docs : RouteBlocked(d) \/ DeadlinePasses(d)
           \/ Stop \/ UNCHANGED vars
  <2>1. UNCHANGED <<queues, idVars, running, step, closed>>
    BY <1>6 DEF RouteBlocked, DeadlinePasses, Stop, vars, schedVars, idVars, slotVars
  <2>2. Active' = Active /\ Holding' = Holding /\ InHand' = InHand /\ Queued' = Queued
    BY <2>1 DEF Active, Holding, InHand, Queued
  <2> QED BY <1>1, <2>1, <2>2
          DEF IInv, OneOwner, OneTurnAtATime, NothingLost, FinishedStaysFinished, idVars
<1> QED BY <1>2, <1>3, <1>4, <1>5, <1>6 DEF Next, OtherStep

LEMMA IInvAlways == Spec => []IInv
  BY IInvInit, IInvNext, PTL DEF Spec

\* A document is at one place of one queue or in one worker's hand, whatever the
\* interleaving of producer, dispatcher, workers and close().
THEOREM SingleOwnership == Spec => []OneOwner
  BY IInvAlways, PTL DEF IInv

\* A document that was put back is not admitted while its old turn still cleans up.
THEOREM SingleTurn == Spec => []OneTurnAtATime
  BY IInvAlways, PTL DEF IInv

\* The identity set and the places that hold documents never drift apart.
THEOREM NoDocumentLost == Spec => []NothingLost
  BY IInvAlways, PTL DEF IInv

\* Completed and given-up documents are never scheduled again.
THEOREM FinishedForGood == Spec => []FinishedStaysFinished
  BY IInvAlways, PTL DEF IInv
-----------------------------------------------------------------------------
\* The failure budget.

\* A claim that moves the attempt ahead never lowers what may have been used, one
\* more handoff or the next attempt allows one more failure, and nothing that is
\* still scheduled has used the whole budget.
LEMMA UsedGrows ==
  ASSUME NEW a \in 1..MaxAttempts, NEW b \in 1..MaxAttempts, a <= b,
         NEW h \in 0..MaxHandoffs
  PROVE  /\ Used(a, h) \in Nat /\ Used(b, h) \in Nat
         /\ Used(a, h) <= Used(b, h)
         /\ Used(b, h + 1) = Used(b, h) + 1
         /\ Used(b, h) + 1 <= Used(b + 1, 0)
         /\ Used(b, h) + 1 <= Budget
<1> DEFINE c == MaxHandoffs + 1
<1>1. /\ c \in Nat /\ c > h /\ h \in Nat /\ MaxAttempts \in Nat
      /\ a \in Nat /\ b \in Nat /\ a - 1 \in Nat /\ b - 1 \in Nat
      /\ b - a \in Nat /\ MaxAttempts - b \in Nat
  BY ConstantsOK
<1> HIDE DEF c
<1>2. ASSUME NEW x \in Nat, NEW y \in Nat, NEW z \in Nat
      PROVE  (x + y) * z = x * z + y * z /\ x * z \in Nat
  OBVIOUS
<1>3. (b - 1) * c = (a - 1) * c + (b - a) * c /\ (a - 1) * c \in Nat /\ (b - a) * c \in Nat
  <2>1. b - 1 = (a - 1) + (b - a)
    BY <1>1
  <2> QED BY <1>1, <1>2, <2>1
<1>4. b * c = (b - 1) * c + c
  <2>1. b = (b - 1) + 1 /\ 1 * c = c
    BY <1>1
  <2> QED BY <1>1, <1>2, <2>1
<1>5. MaxAttempts * c = b * c + (MaxAttempts - b) * c /\ (MaxAttempts - b) * c \in Nat
  <2>1. MaxAttempts = b + (MaxAttempts - b)
    BY <1>1
  <2> QED BY <1>1, <1>2, <2>1
<1>6. /\ Used(a, h) = (a - 1) * c + h /\ Used(b, h) = (b - 1) * c + h
      /\ Used(b, h + 1) = (b - 1) * c + (h + 1)
      /\ Budget = MaxAttempts * c
  BY DEF Used, Budget, c
<1>7. Used(b + 1, 0) = b * c
  BY <1>1 DEF Used, c
<1> QED BY <1>1, <1>3, <1>4, <1>5, <1>6, <1>7

\* What a job may have used, and what the decision for it may.
JobWithin(j) == j.failures <= Used(j.attempt, j.handoffs)
DecisionWithin(j) == IF j.state = "PERMANENTLY_FAILED" THEN j.failures <= Budget ELSE JobWithin(j)

BudgetInv ==
  /\ TypeInv
  /\ \A d \in Docs : JobWithin(job[d])
  /\ \A w \in Workers : next[w] # NoJob => DecisionWithin(next[w])

LEMMA BudgetInvImplies == BudgetInv => BudgetBound
<1> SUFFICES ASSUME BudgetInv, NEW w \in Workers, next[w] # NoJob
             PROVE  next[w].failures <= Budget
  BY DEF BudgetInv, BudgetBound, Active, JobWithin
<1>1. next[w] \in Job
  BY DEF BudgetInv, TypeInv, TypeOK
<1>2. /\ next[w].attempt \in 1..MaxAttempts /\ next[w].handoffs \in 0..MaxHandoffs
      /\ next[w].failures \in Nat /\ Budget \in Nat
  BY <1>1, ConstantsOK DEF Job, Budget
<1>3. Used(next[w].attempt, next[w].handoffs) \in Nat
      /\ Used(next[w].attempt, next[w].handoffs) + 1 <= Budget
  BY <1>2, UsedGrows
<1> QED BY <1>2, <1>3 DEF BudgetInv, DecisionWithin, JobWithin

\* A decision within the budget keeps the invariant.
LEMMA TurnEndsBudget ==
  ASSUME BudgetInv, TypeInv', NEW w \in Workers, NEW v, NEW j \in Job \cup {NoJob},
         j # NoJob => DecisionWithin(j), TurnEnds(w, v, j)
  PROVE  BudgetInv'
<1>1. job' = job /\ next' = [next EXCEPT ![w] = j]
  BY DEF TurnEnds, schedVars
<1>2. \A u \in Workers : next'[u] # NoJob => DecisionWithin(next'[u])
  BY <1>1 DEF BudgetInv, TypeInv, TypeOK
<1> QED BY <1>1, <1>2 DEF BudgetInv, DecisionWithin, JobWithin

LEMMA EndTurnBudget ==
  ASSUME BudgetInv, TypeInv', NEW w \in Workers, EndTurn(w)
  PROVE  BudgetInv'
<1> DEFINE j == job[running[w]]
<1>1. step[w] = "transfer" /\ running[w] \in Docs /\ j \in Job
  BY DEF EndTurn, BudgetInv, TypeInv, TypeOK, SlotsOK
<1>2. /\ j.attempt \in 1..MaxAttempts /\ j.handoffs \in 0..MaxHandoffs /\ j.failures \in Nat
      /\ j.failures <= Used(j.attempt, j.handoffs)
  BY <1>1 DEF Job, BudgetInv, JobWithin
<1>3. ASSUME NEW a \in ClaimedAttempts(running[w])
      PROVE  /\ a \in 1..MaxAttempts
             /\ j.failures <= Used(a, j.handoffs)
             /\ j.failures + 1 <= Used(a, j.handoffs + 1)
             /\ j.failures + 1 <= Used(a + 1, 0)
             /\ j.failures + 1 <= Budget
  <2>1. a \in 1..MaxAttempts /\ j.attempt <= a
    BY <1>1, ClaimedRange DEF ClaimedAttempts, BudgetInv, TypeInv
  <2>2. Budget \in Nat /\ Used(a + 1, 0) \in Int
    BY <2>1, ConstantsOK DEF Budget, Used
  <2> QED BY <1>2, <2>1, <2>2, UsedGrows
<1>4. CASE Succeeds(w) \/ Cancelled(w)
  BY <1>4, TurnEndsBudget DEF Succeeds, Cancelled
<1>5. ASSUME NEW a \in ClaimedAttempts(running[w]), Deferred(w, a)
      PROVE  BudgetInv'
  <2> DEFINE n == [j EXCEPT !.state = "DEFERRED", !.attempt = a]
  <2>1. n \in Job
    BY <1>1, <1>3 DEF Job, States
  <2>2. DecisionWithin(n)
    BY <1>1, <1>3 DEF DecisionWithin, JobWithin, Job
  <2> QED BY <1>5, <2>1, <2>2, TurnEndsBudget DEF Deferred
<1>6. ASSUME NEW v, NEW a \in ClaimedAttempts(running[w]), HandedOff(w, v, a)
      PROVE  BudgetInv'
  <2> DEFINE n == [j EXCEPT !.kind = "handoff", !.state = "HANDOFF_READY", !.attempt = a,
                            !.handoffs = j.handoffs + 1, !.failures = j.failures + 1]
  <2>1. j.handoffs + 1 \in 0..MaxHandoffs /\ j.failures + 1 \in Nat
    BY <1>2, <1>6, ConstantsOK DEF HandedOff, Handoffs
  <2>2. n \in Job
    BY <1>1, <1>3, <2>1 DEF Job, States, Kinds
  <2>3. DecisionWithin(n)
    BY <1>1, <1>3 DEF DecisionWithin, JobWithin, Job
  <2>4. TurnEnds(w, v, n)
    BY <1>6 DEF HandedOff, HandOff, Handoffs
  <2> QED BY <2>2, <2>3, <2>4, TurnEndsBudget
<1>7. ASSUME NEW v, NEW a \in ClaimedAttempts(running[w]), NEW partial \in BOOLEAN,
             Recovers(w, v, a, partial)
      PROVE  BudgetInv'
  <2> DEFINE n == [j EXCEPT !.kind = "recovery", !.state = "RECOVERY_READY",
                            !.attempt = a + 1, !.handoffs = 0, !.failures = j.failures + 1]
  <2>1. a + 1 \in 1..MaxAttempts /\ 0 \in 0..MaxHandoffs /\ j.failures + 1 \in Nat
    BY <1>2, <1>3, <1>7, ConstantsOK DEF Recovers
  <2>2. n \in Job
    BY <1>1, <2>1 DEF Job, States, Kinds
  <2>3. DecisionWithin(n)
    BY <1>1, <1>3 DEF DecisionWithin, JobWithin, Job
  <2>4. TurnEnds(w, v, n)
    BY <1>7 DEF Recovers
  <2> QED BY <2>2, <2>3, <2>4, TurnEndsBudget
<1>8. ASSUME NEW v, NEW a \in ClaimedAttempts(running[w]), NEW partial \in BOOLEAN,
             GivesUp(w, v, a, partial)
      PROVE  BudgetInv'
  <2> DEFINE n == [j EXCEPT !.state = "PERMANENTLY_FAILED", !.attempt = a,
                            !.failures = j.failures + 1]
  <2>1. j.failures + 1 \in Nat
    BY <1>2
  <2>2. n \in Job
    BY <1>1, <1>3, <2>1 DEF Job, States
  <2>3. DecisionWithin(n)
    BY <1>1, <1>3 DEF DecisionWithin, Job
  <2>4. TurnEnds(w, v, n)
    BY <1>8 DEF GivesUp
  <2> QED BY <2>2, <2>3, <2>4, TurnEndsBudget
<1> QED BY <1>4, <1>5, <1>6, <1>7, <1>8 DEF EndTurn, Fails

LEMMA BudgetInvInit == Init => BudgetInv
<1> SUFFICES ASSUME Init PROVE BudgetInv
  OBVIOUS
<1>1. Used(1, 0) = 0
  BY ConstantsOK DEF Used
<1>2. \A d \in Docs : JobWithin(job[d])
  BY <1>1 DEF Init, JobWithin
<1> QED BY <1>2, TypeInvInit DEF Init, BudgetInv

LEMMA BudgetInvNext == BudgetInv /\ [Next]_vars => BudgetInv'
<1> SUFFICES ASSUME BudgetInv, [Next]_vars PROVE BudgetInv'
  OBVIOUS
<1>1. TypeInv'
  BY TypeInvNext DEF BudgetInv
<1>2. CASE UNCHANGED <<job, next>>
  BY <1>1, <1>2 DEF BudgetInv, JobWithin, DecisionWithin
<1>3. ASSUME NEW d \in Docs, NEW j \in Admissions, Enqueue(d, j)
      PROVE  BudgetInv'
  <2>1. JobWithin(j) /\ next' = next /\ job' = [job EXCEPT ![d] = j]
    BY <1>3, ConstantsOK DEF JobWithin, Enqueue, Accept, slotVars, turnVars
  <2> QED BY <1>1, <2>1 DEF BudgetInv, TypeInv, TypeOK, JobWithin, DecisionWithin
<1>4. ASSUME NEW w \in Workers, EndTurn(w)
      PROVE  BudgetInv'
  BY <1>1, <1>4, EndTurnBudget
<1>5. ASSUME NEW w \in Workers, Requeue(w)
      PROVE  BudgetInv'
  <2>1. /\ next[w] # NoJob /\ JobWithin(next[w]) /\ next' = next
        /\ job' = [job EXCEPT ![running[w]] = next[w]]
    BY <1>5 DEF Requeue, Continues, Permanent, BudgetInv, DecisionWithin, turnVars
  <2> QED BY <1>1, <2>1 DEF BudgetInv, TypeInv, TypeOK, JobWithin, DecisionWithin
<1>6. ASSUME NEW w \in Workers, Release(w)
      PROVE  BudgetInv'
  <2>1. next' = [next EXCEPT ![w] = NoJob] /\ job' = job
    BY <1>6 DEF Release, schedVars
  <2> QED BY <1>1, <2>1 DEF BudgetInv, TypeInv, TypeOK, JobWithin, DecisionWithin
<1>7. CASE Admit
  BY <1>2, <1>7 DEF Admit, Dispatch, Selects
<1>8. ASSUME NEW w \in Workers, Start(w) \/ Record(w) \/ Report(w)
      PROVE  BudgetInv'
  BY <1>2, <1>8 DEF Start, Record, Report, schedVars, turnVars
<1>9. CASE \/ \E d \in Docs : RouteBlocked(d) \/ DeadlinePasses(d)
           \/ Stop \/ \E lost \in SUBSET Submitted : Close(lost)
           \/ UNCHANGED vars
  BY <1>2, <1>9 DEF RouteBlocked, DeadlinePasses, Stop, Close, vars, schedVars, slotVars, turnVars
<1> QED BY <1>3, <1>4, <1>5, <1>6, <1>7, <1>8, <1>9 DEF Next, OtherStep, WorkerStep

\* For every number of attempts and handoffs, a document uses at most
\* MaxAttempts * (MaxHandoffs + 1) failed turns, however its deferrals, handoffs,
\* recoveries and the shared claim's jumps of the attempt number interleave.
THEOREM FailuresBounded == Spec => []BudgetBound
  BY BudgetInvInit, BudgetInvNext, BudgetInvImplies, PTL DEF Spec

-----------------------------------------------------------------------------
\* The share of each kind of work: no kind is passed over for longer than the
\* cycle's gaps.


ShareInv == ShareTypeOK /\ TypeInv /\ BypassInv

LEMMA ShareInvInit == ShareInit => ShareInv
<1> SUFFICES ASSUME ShareInit PROVE ShareInv
  OBVIOUS
<1>1. TypeInv /\ cursor = 0
  BY TypeInvInit DEF ShareInit, Init
<1>2. \A k \in Kinds : passed[k] = 0 /\ Distance(k) <= Patience(k)
  BY <1>1 DEF ShareInit, Distance, Patience, Kinds
<1>3. \A k \in Kinds : Distance(k) \in Nat
  BY <1>1 DEF Distance, Kinds
<1> QED BY <1>1, <1>2, <1>3 DEF ShareInv, ShareTypeOK, BypassInv, TypeInv, ShareInit, Patience

\* Positions of the cycle: a kind lies within its distance, so an admission that
\* takes an earlier position for another kind brings the cursor closer to it.
LEMMA DistanceShrinks ==
  ASSUME TypeOK, NEW s \in 0..4, NEW k \in Kinds, cursor' = (cursor + s + 1) % 5,
         \A t \in 0..4 : CycleKind(t) = k => s <= t, CycleKind(s) # k
  PROVE  Distance(k)' + s + 1 <= Distance(k)
<1> DEFINE at(i) == cycle[i + 1]
<1>1. /\ at(0) = "primary" /\ at(1) = "primary" /\ at(2) = "handoff"
      /\ at(3) = "primary" /\ at(4) = "recovery"
  BY DEF cycle
<1>2. \A t \in 0..4 : CycleKind(t) = at((cursor + t) % 5)
  BY DEF CycleKind
<1> HIDE DEF at
<1>3. cursor \in {0, 1, 2, 3, 4} /\ k \in {"primary", "handoff", "recovery"}
  BY DEF TypeOK, Kinds
<1>4. Distance(k) \in 0..4 /\ at((cursor + Distance(k)) % 5) = k
  <2>1. CASE k = "primary"
    BY <1>1, <1>3, <2>1 DEF Distance
  <2>2. CASE k = "handoff"
    BY <1>1, <1>3, <2>2 DEF Distance
  <2>3. CASE k = "recovery"
    BY <1>1, <1>3, <2>3 DEF Distance
  <2> QED BY <1>3, <2>1, <2>2, <2>3
<1>5. s <= Distance(k) /\ s # Distance(k)
  BY <1>2, <1>4
<1>6. CASE k = "primary"
  <2>1. cursor \in {2, 4} /\ s = 0 /\ Distance(k) = 1
    BY <1>3, <1>5, <1>6 DEF Distance
  <2>2. cursor' \in {3, 0}
    BY <2>1
  <2>3. Distance(k)' = 0
    BY <1>6, <2>2 DEF Distance
  <2> QED BY <2>1, <2>3
<1>7. ASSUME NEW c \in {2, 4}, Distance(k) = (c - cursor) % 5, Distance(k)' = (c - cursor') % 5
      PROVE  Distance(k)' + s + 1 <= Distance(k)
  <2>1. s \in {0, 1, 2, 3, 4} /\ s < Distance(k)
    BY <1>4, <1>5
  <2> QED BY <1>3, <1>7, <2>1
<1>8. CASE k = "handoff"
  BY <1>7, <1>8 DEF Distance
<1>9. CASE k = "recovery"
  BY <1>7, <1>9 DEF Distance
<1> QED BY <1>3, <1>6, <1>8, <1>9

LEMMA DistanceBounds ==
  ASSUME cursor \in 0..4, NEW k \in Kinds
  PROVE  Distance(k) \in Nat /\ Patience(k) \in Nat /\ Distance(k) <= Patience(k)
<1>1. cursor \in {0, 1, 2, 3, 4}
  OBVIOUS
<1> QED BY <1>1 DEF Kinds, Distance, Patience

LEMMA NextDistanceBounds ==
  ASSUME cursor' \in 0..4, NEW k \in Kinds
  PROVE  Distance(k)' \in Nat /\ Distance(k)' <= Patience(k)
<1>1. cursor' \in {0, 1, 2, 3, 4}
  OBVIOUS
<1> QED BY <1>1 DEF Kinds, Distance, Patience

LEMMA AdmitShareInv == ASSUME ShareInv, TypeInv', ShareAdmit PROVE ShareInv'
<1>1. PICK w \in Workers, s \in 0..4 :
        \E p \in 1..Len(queues[CycleKind(s)]) : Dispatch(w, s, p) /\ PassOver(CycleKind(s))
  BY DEF ShareAdmit
<1>2. /\ cursor' = (cursor + s + 1) % 5 /\ PassOver(CycleKind(s))
      /\ \A t \in 0..4 : Offered(CycleKind(t)) => s <= t
  BY <1>1 DEF Dispatch, Selects, First
<1>3. passed \in [Kinds -> Nat] /\ TypeOK /\ TypeOK' /\ cursor' \in 0..4
  BY DEF ShareInv, ShareTypeOK, TypeInv, TypeOK
<1>4. passed' \in [Kinds -> Nat]
  BY <1>2, <1>3 DEF PassOver
<1>5. ASSUME NEW k \in Kinds
      PROVE  passed'[k] + Distance(k)' <= Patience(k)
  <2>1. CASE k # CycleKind(s) /\ Offered(k)
    <3>1. passed'[k] = passed[k] + 1 /\ passed[k] \in Nat
      BY <1>2, <1>3, <2>1 DEF PassOver
    <3>2. Distance(k)' + s + 1 <= Distance(k)
      BY <1>2, <1>3, <2>1, DistanceShrinks
    <3>3. passed[k] + Distance(k) <= Patience(k)
      BY DEF ShareInv, BypassInv
    <3>4. Distance(k) \in Nat /\ Distance(k)' \in Nat /\ Patience(k) \in Nat
      BY <1>3, DistanceBounds, NextDistanceBounds DEF TypeOK
    <3> QED BY <3>1, <3>2, <3>3, <3>4
  <2>2. CASE ~(k # CycleKind(s) /\ Offered(k))
    <3>1. passed'[k] = 0
      BY <1>2, <1>3, <2>2 DEF PassOver
    <3>2. Distance(k)' \in Nat /\ Distance(k)' <= Patience(k)
      BY <1>3, NextDistanceBounds
    <3> QED BY <3>1, <3>2
  <2> QED BY <2>1, <2>2
<1>6. BypassInv'
  BY <1>5 DEF BypassInv, Patience
<1> QED BY <1>3, <1>4, <1>6 DEF ShareInv, ShareTypeOK

LEMMA ShareInvNext == ShareInv /\ [ShareNext]_shareVars => ShareInv'
<1> SUFFICES ASSUME ShareInv, [ShareNext]_shareVars PROVE ShareInv'
  OBVIOUS
<1>1. [Next]_vars
  BY DEF ShareNext, ShareAdmit, Next, Admit, shareVars
<1>2. TypeInv'
  BY <1>1, TypeInvNext DEF ShareInv
<1>3. CASE ShareAdmit
  BY <1>2, <1>3, AdmitShareInv
<1>4. CASE OtherStep /\ UNCHANGED passed
  <2>1. cursor' = cursor
    <3>1. ASSUME NEW w \in Workers, EndTurn(w)
          PROVE  cursor' = cursor
      <4>1. \E v, j : TurnEnds(w, v, j)
        BY <3>1 DEF EndTurn, Succeeds, Cancelled, Deferred, Fails, HandedOff, HandOff,
                    Recovers, GivesUp
      <4> QED BY <4>1 DEF TurnEnds, schedVars
    <3>2. ASSUME NEW w \in Workers, WorkerStep(w)
          PROVE  cursor' = cursor
      BY <3>1, <3>2 DEF WorkerStep, Start, Record, Requeue, Report, Release, schedVars
    <3>3. CASE \E d \in Docs, j \in Admissions : Enqueue(d, j)
      BY <3>3 DEF Enqueue, Accept
    <3>4. CASE \/ \E d \in Docs : RouteBlocked(d) \/ DeadlinePasses(d)
               \/ Stop \/ \E lost \in SUBSET Submitted : Close(lost)
      BY <3>4 DEF RouteBlocked, DeadlinePasses, Stop, Close, schedVars
    <3> QED BY <1>4, <3>2, <3>3, <3>4 DEF OtherStep
  <2> QED BY <1>2, <1>4, <2>1 DEF ShareInv, ShareTypeOK, TypeInv, BypassInv, Distance, Patience
<1>5. CASE UNCHANGED shareVars
  BY <1>2, <1>5 DEF ShareInv, ShareTypeOK, TypeInv, BypassInv, Distance, Patience,
                    shareVars, vars, schedVars
<1> QED BY <1>3, <1>4, <1>5 DEF ShareNext

\* Primary work on offer is passed over at most once in a row and other work at
\* most four times, for every number of documents and workers.
THEOREM NobodyStarves == ShareSpec => []BypassBounded
<1>1. ShareInv => BypassBounded
  <2> SUFFICES ASSUME ShareInv, NEW k \in Kinds PROVE passed[k] <= Patience(k)
    BY DEF BypassBounded
  <2>1. passed[k] \in Nat /\ passed[k] + Distance(k) <= Patience(k)
    BY DEF ShareInv, ShareTypeOK, BypassInv
  <2>2. Distance(k) \in Nat /\ Patience(k) \in Nat
    BY DistanceBounds DEF ShareInv, TypeInv, TypeOK
  <2> QED BY <2>1, <2>2
<1> QED BY <1>1, ShareInvInit, ShareInvNext, PTL DEF ShareSpec
-----------------------------------------------------------------------------
\* The share of the slots that handoff and recovery work may take.

Recovering == {w \in Workers : step[w] # "free" /\ slotKind[w] # "primary"}

LEMMA RecoveringCounted == /\ recovery_active = Cardinality(Recovering)
                           /\ recovery_active' = Cardinality(Recovering')
<1>1. {w \in Active : slotKind[w] # "primary"} = Recovering
  BY DEF Active, Recovering
<1>2. {w \in Active' : slotKind'[w] # "primary"} = Recovering'
  BY DEF Active, Recovering
<1> QED BY <1>1, <1>2 DEF recovery_active

\* Only the dispatcher takes a free slot, and it fills exactly that one.
LEMMA OnlyDispatchSubmits ==
  ASSUME TypeInv, [Next]_vars, NEW w \in Workers, step[w] = "free", step'[w] = "submitted"
  PROVE  \E s \in 0..4 : \E p \in 1..Len(queues[CycleKind(s)]) : Dispatch(w, s, p)
<1> USE DEF TypeInv, TypeOK
<1>1. ASSUME NEW v \in Workers, WorkerStep(v)
      PROVE  FALSE
  <2>1. CASE EndTurn(v)
    <3>1. \E x, j : TurnEnds(v, x, j)
      BY <2>1 DEF EndTurn, Succeeds, Cancelled, Deferred, Fails, HandedOff, HandOff,
                  Recovers, GivesUp
    <3> QED BY <3>1 DEF TurnEnds
  <2> QED BY <1>1, <2>1 DEF WorkerStep, Start, Record, Requeue, Report, Release
<1>2. CASE \/ \E d \in Docs, j \in Admissions : Enqueue(d, j)
           \/ \E d \in Docs : RouteBlocked(d) \/ DeadlinePasses(d)
           \/ Stop \/ UNCHANGED vars
  BY <1>2 DEF Enqueue, Accept, RouteBlocked, DeadlinePasses, Stop, vars, slotVars
<1>3. CASE \E lost \in SUBSET Submitted : Close(lost)
  BY <1>3 DEF Close
<1>4. CASE Admit
  <2>1. PICK v \in Workers, s \in 0..4 :
          \E p \in 1..Len(queues[CycleKind(s)]) : Dispatch(v, s, p)
    BY <1>4 DEF Admit
  <2>2. step' = [step EXCEPT ![v] = "submitted"]
    BY <2>1 DEF Dispatch, Selects
  <2>3. v = w
    BY <2>2
  <2> QED BY <2>1, <2>3
<1> QED BY <1>1, <1>2, <1>3, <1>4 DEF Next, OtherStep

LEMMA WorkersFinite == IsFiniteSet(Workers)
  BY ConstantsOK, FS_Interval DEF Workers

LEMMA AdmitWithinShare ==
  ASSUME TypeInv, [Next]_vars, NEW w \in Workers, step[w] = "free", step'[w] = "submitted",
         slotKind'[w] # "primary", Ready("primary")
  PROVE  recovery_active' <= RecoveryLimit
<1>1. PICK s \in 0..4 : \E p \in 1..Len(queues[CycleKind(s)]) : Dispatch(w, s, p)
  BY OnlyDispatchSubmits
<1>2. /\ step' = [step EXCEPT ![w] = "submitted"]
      /\ slotKind' = [slotKind EXCEPT ![w] = CycleKind(s)]
      /\ Offered(CycleKind(s))
  BY <1>1 DEF Dispatch, Selects, First
<1>3. CycleKind(s) # "primary"
  BY <1>2 DEF TypeInv, TypeOK
<1>4. ~(recovery_active >= RecoveryLimit)
  BY <1>2, <1>3 DEF Offered, HeldBack
<1>5. Recovering' = Recovering \cup {w} /\ w \notin Recovering
  BY <1>2, <1>3 DEF Recovering, TypeInv, TypeOK
<1>6. IsFiniteSet(Recovering)
  BY WorkersFinite, FS_Subset DEF Recovering
<1>7. Cardinality(Recovering') = Cardinality(Recovering) + 1 /\ Cardinality(Recovering) \in Nat
  BY <1>5, <1>6, FS_AddElement, FS_CardinalityType
<1>8. recovery_active = Cardinality(Recovering) /\ recovery_active' = Cardinality(Recovering')
  BY RecoveringCounted
<1>9. RecoveryLimit \in Int
  BY ConstantsOK DEF RecoveryLimit
<1> QED BY <1>4, <1>7, <1>8, <1>9

\* While primary work is ready no admission of a handoff or a recovery job lets
\* such work hold more than ceil(0.4 * MaxWorkers) slots, for every number of
\* workers and however many of them were held before.
THEOREM RecoveryNeverCrowdsOut == ShareSpec => RecoveryShare
<1>1. TypeInv /\ [ShareNext]_shareVars =>
        [\A w \in Workers :
           (step[w] = "free" /\ step'[w] = "submitted" /\ slotKind'[w] # "primary"
              /\ Ready("primary"))
           => recovery_active' <= RecoveryLimit]_vars
  <2> SUFFICES ASSUME TypeInv, [ShareNext]_shareVars, NEW w \in Workers,
                      step[w] = "free", step'[w] = "submitted", slotKind'[w] # "primary",
                      Ready("primary")
               PROVE  recovery_active' <= RecoveryLimit
    OBVIOUS
  <2>1. [Next]_vars
    BY DEF ShareNext, ShareAdmit, Next, Admit, shareVars
  <2> QED BY <2>1, AdmitWithinShare
<1>2. ShareInv => TypeInv
  BY DEF ShareInv
<1> QED BY <1>1, <1>2, ShareInvInit, ShareInvNext, PTL DEF ShareSpec, RecoveryShare
-----------------------------------------------------------------------------
\* The refinement of DocumentLifecycle.  A document's phase follows from five
\* sets; a step that leaves them alone is invisible, every other step moves the
\* phase of one document (or, at the shutdown, drops the waiting ones).

PhaseTable ==
  /\ Turning \cap Waiting = {} /\ Turning \cup Waiting \subseteq known
  /\ known \subseteq Docs
  /\ completed_ids \cap terminal_ids = {} /\ (completed_ids \cup terminal_ids) \cap known = {}
  /\ phase = [d \in Docs |-> phase[d]]
  /\ \A d \in Docs :
       /\ d \in completed_ids => phase[d] = "completed"
       /\ d \in terminal_ids => phase[d] = "terminal"
       /\ d \notin known \cup completed_ids \cup terminal_ids => phase[d] = "out"
       /\ d \in Turning => phase[d] = "working"
       /\ d \in Waiting => phase[d] = "waiting"
       /\ d \in known \ (Turning \cup Waiting) => phase[d] = "dropped"

LEMMA PhaseTableHolds == IInv => PhaseTable
<1> SUFFICES ASSUME IInv PROVE PhaseTable
  OBVIOUS
<1>1. Turning \subseteq InHand /\ {running[w] : w \in Submitted} \subseteq InHand
  BY DEF Turning, Submitted, InHand, Holding, Active
<1>2. Turning \cap Waiting = {}
  <2>1. Turning \cap Queued = {}
    BY <1>1 DEF IInv, OneOwner
  <2>2. \A w, v \in Workers :
          (step[w] \in {"transfer", "decided", "recorded"} /\ step[v] = "submitted")
          => running[w] # running[v]
    BY DEF IInv, OneTurnAtATime, Active
  <2> QED BY <2>1, <2>2 DEF Turning, Waiting, Submitted
<1>3. Turning \cup Waiting \subseteq known
  BY <1>1, HeldIsKnown DEF IInv, Waiting
<1>4. known \subseteq Docs
  BY DEF IInv, TypeInv, TypeOK
<1>5. completed_ids \cap terminal_ids = {} /\ (completed_ids \cup terminal_ids) \cap known = {}
  BY DEF IInv, FinishedStaysFinished
<1>6. phase = [d \in Docs |-> phase[d]]
  BY DEF phase
<1>7. ASSUME NEW d \in Docs
      PROVE  /\ d \in completed_ids => phase[d] = "completed"
             /\ d \in terminal_ids => phase[d] = "terminal"
             /\ d \notin known \cup completed_ids \cup terminal_ids => phase[d] = "out"
             /\ d \in Turning => phase[d] = "working"
             /\ d \in Waiting => phase[d] = "waiting"
             /\ d \in known \ (Turning \cup Waiting) => phase[d] = "dropped"
  BY <1>2, <1>3, <1>5 DEF phase
<1> QED BY <1>2, <1>3, <1>4, <1>5, <1>6, <1>7 DEF PhaseTable

LEMMA PhaseTableNext == IInv' => PhaseTable'
  BY PhaseTableHolds, PTL

\* A step that touches the sets at one document moves only its phase.
LEMMA OnePhaseMoves ==
  ASSUME PhaseTable, PhaseTable', NEW d \in Docs,
         known' \ {d} = known \ {d}, completed_ids' \ {d} = completed_ids \ {d},
         terminal_ids' \ {d} = terminal_ids \ {d},
         Turning' \ {d} = Turning \ {d}, Waiting' \ {d} = Waiting \ {d}
  PROVE  phase' = [phase EXCEPT ![d] = phase'[d]]
<1>1. ASSUME NEW e \in Docs \ {d}
      PROVE  phase'[e] = phase[e]
  <2>1. CASE e \in completed_ids
    BY <1>1, <2>1 DEF PhaseTable
  <2>2. CASE e \in terminal_ids
    BY <1>1, <2>2 DEF PhaseTable
  <2>3. CASE e \notin known \cup completed_ids \cup terminal_ids
    BY <1>1, <2>3 DEF PhaseTable
  <2>4. CASE e \in Turning
    BY <1>1, <2>4 DEF PhaseTable
  <2>5. CASE e \in Waiting
    BY <1>1, <2>5 DEF PhaseTable
  <2>6. CASE e \in known \ (Turning \cup Waiting)
    BY <1>1, <2>6 DEF PhaseTable
  <2> QED BY <2>1, <2>2, <2>3, <2>4, <2>5, <2>6
<1>2. phase = [e \in Docs |-> phase[e]] /\ phase' = [e \in Docs |-> phase'[e]]
  BY DEF PhaseTable
<1> HIDE DEF phase
<1> QED BY <1>1, <1>2

LEMMA NoPhaseMoves ==
  ASSUME UNCHANGED <<known, completed_ids, terminal_ids, Turning, Waiting>>
  PROVE  phase' = phase
  BY DEF phase

\* The document of a turn that did not end it carries at most one failure more
\* than its job does, and the job does not change until the turn is over.
ChargeInv ==
  \A w \in Workers :
    (step[w] \in {"decided", "recorded"} /\ next[w] # NoJob) =>
      next[w].failures \in {job[running[w]].failures, job[running[w]].failures + 1}

LifeInv == IInv /\ BudgetInv /\ ChargeInv
LEMMA ChargeInvInit == Init => ChargeInv
  BY DEF Init, ChargeInv

\* A step that leaves the slots where they are, or only lets one of them move to
\* a step that carries no new decision.
LEMMA ChargeKept ==
  ASSUME ChargeInv,
         \A w \in Workers : (step'[w] \in {"decided", "recorded"} /\ next'[w] # NoJob) =>
            /\ step[w] \in {"decided", "recorded"} /\ next'[w] = next[w]
            /\ job'[running'[w]].failures = job[running[w]].failures
  PROVE  ChargeInv'
  BY DEF ChargeInv

LEMMA EndTurnCharge ==
  ASSUME IInv, ChargeInv, NEW w \in Workers, EndTurn(w)
  PROVE  ChargeInv'
<1> DEFINE j == job[running[w]]
<1>1. step[w] = "transfer" /\ running[w] \in Docs /\ j \in Job
  BY DEF EndTurn, IInv, TypeInv, TypeOK, SlotsOK
<1>2. ASSUME NEW v, NEW n, TurnEnds(w, v, n),
             n # NoJob => n.failures \in {j.failures, j.failures + 1}
      PROVE  ChargeInv'
  <2>1. /\ job' = job /\ running' = running /\ next' = [next EXCEPT ![w] = n]
        /\ step' = [step EXCEPT ![w] = IF n = NoJob THEN "recorded" ELSE "decided"]
    BY <1>2 DEF TurnEnds, schedVars
  <2>2. /\ next'[w] = n
        /\ \A u \in Workers \ {w} : next'[u] = next[u] /\ step'[u] = step[u]
    BY <2>1 DEF IInv, TypeInv, TypeOK
  <2> QED BY <1>2, <2>1, <2>2 DEF ChargeInv
<1> HIDE DEF j
<1>3. CASE Succeeds(w) \/ Cancelled(w)
  BY <1>2, <1>3 DEF Succeeds, Cancelled
<1>4. ASSUME NEW a, Deferred(w, a)
      PROVE  ChargeInv'
  <2>1. TurnEnds(w, "deferred", [j EXCEPT !.state = "DEFERRED", !.attempt = a])
    BY <1>4 DEF Deferred, j
  <2> QED BY <1>1, <1>2, <2>1 DEF Job
<1>5. ASSUME NEW v, NEW a, HandedOff(w, v, a)
      PROVE  ChargeInv'
  <2>1. TurnEnds(w, v, [j EXCEPT !.kind = "handoff", !.state = "HANDOFF_READY", !.attempt = a,
                                 !.handoffs = Handoffs(w) + 1, !.failures = j.failures + 1])
    BY <1>5 DEF HandedOff, HandOff, j
  <2> QED BY <1>1, <1>2, <2>1 DEF Job
<1>6. ASSUME NEW v, NEW a, NEW partial, Recovers(w, v, a, partial)
      PROVE  ChargeInv'
  <2>1. TurnEnds(w, v, [j EXCEPT !.kind = "recovery", !.state = "RECOVERY_READY",
                                 !.attempt = a + 1, !.handoffs = 0, !.failures = j.failures + 1])
    BY <1>6 DEF Recovers, j
  <2> QED BY <1>1, <1>2, <2>1 DEF Job
<1>7. ASSUME NEW v, NEW a, NEW partial, GivesUp(w, v, a, partial)
      PROVE  ChargeInv'
  <2>1. TurnEnds(w, v, [j EXCEPT !.state = "PERMANENTLY_FAILED", !.attempt = a,
                                 !.failures = j.failures + 1])
    BY <1>7 DEF GivesUp, j
  <2> QED BY <1>1, <1>2, <2>1 DEF Job
<1> QED BY <1>3, <1>4, <1>5, <1>6, <1>7 DEF EndTurn, Fails

LEMMA ChargeInvNext == IInv /\ ChargeInv /\ [Next]_vars => ChargeInv'
<1> SUFFICES ASSUME IInv, ChargeInv, [Next]_vars PROVE ChargeInv'
  OBVIOUS
<1> USE DEF IInv, TypeInv, TypeOK
<1>1. ASSUME NEW d \in Docs, NEW j \in Admissions, Enqueue(d, j)
      PROVE  ChargeInv'
  <2>1. /\ job' = [job EXCEPT ![d] = j] /\ UNCHANGED <<step, running, next>>
        /\ d \notin known
    BY <1>1 DEF Enqueue, Accept, slotVars, turnVars
  <2>2. \A w \in Workers : step[w] \in {"decided", "recorded"} => running[w] \in known
    BY HeldIsKnown DEF InHand, Holding, Active
  <2>3. \A w \in Workers : step[w] \in {"decided", "recorded"} =>
                           job'[running[w]] = job[running[w]]
    BY <2>1, <2>2
  <2> QED BY <2>1, <2>3, ChargeKept
<1>2. ASSUME NEW w \in Workers, WorkerStep(w)
      PROVE  ChargeInv'
  <2>1. CASE Start(w)
    BY <2>1, ChargeKept DEF Start, schedVars, turnVars
  <2>2. CASE EndTurn(w)
    BY <2>2, EndTurnCharge
  <2>3. CASE Record(w)
    BY <2>3, ChargeKept DEF Record, schedVars, turnVars
  <2>4. CASE Requeue(w)
    <3>1. /\ step[w] = "recorded" /\ step' = [step EXCEPT ![w] = "settled"]
          /\ job' = [job EXCEPT ![running[w]] = next[w]]
          /\ UNCHANGED <<running, next>>
      BY <2>4 DEF Requeue, turnVars
    <3>2. \A u \in Workers : step'[u] \in {"decided", "recorded"} =>
            u # w /\ step'[u] = step[u] /\ running[u] # running[w]
      BY <3>1 DEF OneTurnAtATime, Active
    <3>3. \A u \in Workers : step'[u] \in {"decided", "recorded"} =>
            job'[running[u]] = job[running[u]]
      BY <3>1, <3>2 DEF SlotsOK
    <3> QED BY <3>1, <3>2, <3>3, ChargeKept
  <2>5. CASE Report(w)
    BY <2>5, ChargeKept DEF Report, schedVars, turnVars
  <2>6. CASE Release(w)
    BY <2>6, ChargeKept DEF Release, schedVars
  <2> QED BY <1>2, <2>1, <2>2, <2>3, <2>4, <2>5, <2>6 DEF WorkerStep
<1>3. CASE Admit
  BY <1>3, ChargeKept DEF Admit, Dispatch, Selects
<1>4. CASE \E lost \in SUBSET Submitted : Close(lost)
  BY <1>4, ChargeKept DEF Close, turnVars
<1>5. CASE \/ \E d \in Docs : RouteBlocked(d) \/ DeadlinePasses(d)
           \/ Stop \/ UNCHANGED vars
  BY <1>5, ChargeKept DEF RouteBlocked, DeadlinePasses, Stop, vars, schedVars, slotVars, turnVars
<1> QED BY <1>1, <1>2, <1>3, <1>4, <1>5 DEF Next, OtherStep

LEMMA LifeInvAlways == Spec => []LifeInv
<1>1. Init => LifeInv
  BY IInvInit, BudgetInvInit, ChargeInvInit DEF LifeInv
<1>2. LifeInv /\ [Next]_vars => LifeInv'
  BY IInvNext, BudgetInvNext, ChargeInvNext DEF LifeInv
<1> QED BY <1>1, <1>2, PTL DEF Spec
\* One lemma per step that the lifecycle sees.

LEMMA MoveOf ==
  ASSUME NEW d \in Docs, NEW from, NEW to, PhaseTable,
         phase' = [phase EXCEPT ![d] = phase'[d]], phase[d] = from, phase'[d] = to,
         closed' = closed
  PROVE  Lifecycle!Move(d, from, to)
<1> HIDE DEF phase
<1> QED BY DEF Lifecycle!Move

LEMMA EnqueueAdmits ==
  ASSUME LifeInv, PhaseTable, PhaseTable', NEW d \in Docs, NEW j \in Admissions, Enqueue(d, j)
  PROVE  Lifecycle!Admit(d)
<1>1. j \in Job /\ j.kind \in Kinds
  BY ConstantsOK DEF Job
<1>2. /\ d \notin known \cup completed_ids \cup terminal_ids /\ known' = known \cup {d}
      /\ UNCHANGED <<completed_ids, terminal_ids, running, step>>
      /\ closed' = closed /\ ~closed
      /\ job' = [job EXCEPT ![d] = j]
      /\ queues' = [queues EXCEPT ![j.kind] = Append(@, d)]
  BY DEF Enqueue, Accept, slotVars
<1>3. Turning' = Turning /\ Submitted' = Submitted
  BY <1>2 DEF Turning, Submitted
<1>4. Queued' = Queued \cup {d}
  BY <1>1, <1>2, AppendQueued, HeldIsKnown DEF LifeInv, IInv, TypeInv
<1>5. Waiting' = Waiting \cup {d}
  BY <1>2, <1>3, <1>4 DEF Waiting
<1>6. phase[d] = "out" /\ phase'[d] = "waiting" /\ phase' = [phase EXCEPT ![d] = phase'[d]]
  BY <1>2, <1>3, <1>5, OnePhaseMoves DEF PhaseTable
<1>7. j.failures \in 0..Budget /\ j.failures < Budget
  <2>1. /\ j.attempt \in 1..MaxAttempts /\ j.handoffs \in 0..MaxHandoffs /\ j.failures \in Nat
        /\ j.failures <= Used(j.attempt, j.handoffs) /\ Budget \in Nat
    BY <1>1, ConstantsOK DEF Job, Budget
  <2> QED BY <2>1, UsedGrows
<1>8. spent' = [spent EXCEPT ![d] = j.failures]
  BY <1>2 DEF spent, LifeInv, IInv, TypeInv, TypeOK
<1>9. Lifecycle!Move(d, "out", "waiting")
  BY <1>2, <1>6, MoveOf
<1> QED BY <1>2, <1>7, <1>8, <1>9 DEF Lifecycle!Admit

LEMMA StartTakes ==
  ASSUME LifeInv, PhaseTable, PhaseTable', NEW w \in Workers, Start(w)
  PROVE  Lifecycle!Take(running[w])
<1> DEFINE d == running[w]
<1>1. /\ step[w] = "submitted" /\ step' = [step EXCEPT ![w] = "transfer"]
      /\ UNCHANGED <<queues, job, known, completed_ids, terminal_ids, running, closed>>
      /\ d \in Docs
  BY DEF Start, schedVars, idVars, LifeInv, IInv, TypeInv, SlotsOK
<1>2. \A v \in Workers \ {w} : step'[v] = step[v]
  BY <1>1 DEF LifeInv, IInv, TypeInv, TypeOK
<1>3. \A v \in Workers \ {w} : step[v] # "free" => running[v] # d
  BY <1>1 DEF LifeInv, IInv, OneTurnAtATime, Active
<1>4. step'[w] = "transfer"
  BY <1>1 DEF LifeInv, IInv, TypeInv, TypeOK
<1>5. Turning' = Turning \cup {d} /\ d \notin Turning
  BY <1>1, <1>2, <1>3, <1>4 DEF Turning
<1>6. Queued' = Queued
  BY <1>1 DEF Queued
<1>7. Waiting' \ {d} = Waiting \ {d} /\ d \in Waiting
  BY <1>1, <1>2, <1>4, <1>6 DEF Waiting, Submitted
<1> HIDE DEF d
<1>8. phase[d] = "waiting" /\ phase'[d] = "working" /\ phase' = [phase EXCEPT ![d] = phase'[d]]
  BY <1>1, <1>5, <1>7, OnePhaseMoves DEF PhaseTable
<1>9. spent' = spent
  BY <1>1 DEF spent
<1> QED BY <1>1, <1>8, <1>9, MoveOf DEF Lifecycle!Take, d

\* A turn is over: its document leaves the workers' hands and no other does.
LEMMA TurnOver ==
  ASSUME LifeInv, NEW w \in Workers, step[w] = "recorded", running' = running,
         step' = [step EXCEPT ![w] = "settled"]
  PROVE  /\ running[w] \in Docs /\ running[w] \in Turning
         /\ Turning' = Turning \ {running[w]} /\ Submitted' = Submitted
<1>1. \A v \in Workers \ {w} : step'[v] = step[v]
  BY DEF LifeInv, IInv, TypeInv, TypeOK
<1>2. \A v \in Workers \ {w} : step[v] # "free" => running[v] # running[w]
  BY DEF LifeInv, IInv, OneTurnAtATime, Active
<1>3. step'[w] = "settled" /\ running[w] \in Docs
  BY DEF LifeInv, IInv, TypeInv, TypeOK, SlotsOK
<1> QED BY <1>1, <1>2, <1>3 DEF Turning, Submitted

LEMMA RequeueReturns ==
  ASSUME LifeInv, PhaseTable, PhaseTable', NEW w \in Workers, Requeue(w)
  PROVE  Lifecycle!Defer(running[w]) \/ Lifecycle!Retry(running[w])
<1> DEFINE d == running[w]
<1>1. /\ step[w] = "recorded" /\ step' = [step EXCEPT ![w] = "settled"]
      /\ next[w] # NoJob /\ next[w].state # "PERMANENTLY_FAILED" /\ ~closed
      /\ queues' = [queues EXCEPT ![next[w].kind] = Append(@, d)]
      /\ job' = [job EXCEPT ![d] = next[w]]
      /\ UNCHANGED <<known, completed_ids, terminal_ids, running, closed>>
  BY DEF Requeue, Continues, Permanent, idVars
<1>2. /\ d \in Docs /\ d \in Turning
      /\ Turning' = Turning \ {d} /\ Submitted' = Submitted
  BY <1>1, TurnOver
<1>3. next[w] \in Job /\ job[d] \in Job /\ next[w].kind \in Kinds
  BY <1>1, <1>2 DEF LifeInv, IInv, TypeInv, TypeOK, Job
<1>4. d \notin Queued
  BY <1>1 DEF LifeInv, IInv, OneOwner, InHand, Holding, Active
<1> HIDE DEF d
<1>5. Queued' = Queued \cup {d}
  BY <1>1, <1>2, <1>3, <1>4, AppendQueued DEF LifeInv, IInv, TypeInv
<1>6. Waiting' = Waiting \cup {d}
  BY <1>1, <1>2, <1>5 DEF Waiting
<1>7. phase[d] = "working" /\ phase'[d] = "waiting" /\ phase' = [phase EXCEPT ![d] = phase'[d]]
  BY <1>1, <1>2, <1>6, OnePhaseMoves DEF PhaseTable
<1>8. Lifecycle!Move(d, "working", "waiting")
  BY <1>1, <1>2, <1>7, MoveOf
<1>9. /\ spent' = [spent EXCEPT ![d] = next[w].failures] /\ spent[d] = job[d].failures
      /\ spent = [e \in Docs |-> spent[e]]
  BY <1>1, <1>2 DEF spent, LifeInv, IInv, TypeInv, TypeOK
<1>10. /\ next[w].failures \in {job[d].failures, job[d].failures + 1}
       /\ next[w].failures < Budget
  <2>1. next[w].failures \in {job[d].failures, job[d].failures + 1}
    BY <1>1 DEF LifeInv, ChargeInv, d
  <2>2. JobWithin(next[w])
    BY <1>1 DEF LifeInv, BudgetInv, DecisionWithin
  <2>3. /\ next[w].attempt \in 1..MaxAttempts /\ next[w].handoffs \in 0..MaxHandoffs
        /\ next[w].failures \in Nat /\ Budget \in Nat
    BY <1>3, ConstantsOK DEF Job, Budget
  <2> QED BY <2>1, <2>2, <2>3, UsedGrows DEF JobWithin
<1> HIDE DEF spent
<1>11. CASE next[w].failures = job[d].failures
  BY <1>1, <1>2, <1>8, <1>9, <1>11 DEF Lifecycle!Defer, d
<1>12. CASE next[w].failures = job[d].failures + 1
  BY <1>1, <1>2, <1>8, <1>9, <1>10, <1>12 DEF Lifecycle!Retry, d
<1> QED BY <1>10, <1>11, <1>12

LEMMA ReportFinishes ==
  ASSUME LifeInv, PhaseTable, PhaseTable', NEW w \in Workers, Report(w)
  PROVE  \/ Lifecycle!Complete(running[w]) \/ Lifecycle!GiveUp(running[w])
         \/ Lifecycle!Abandon(running[w])
<1> DEFINE d == running[w]
<1>1. /\ step[w] = "recorded" /\ step' = [step EXCEPT ![w] = "settled"]
      /\ known' = known \ {d}
      /\ completed_ids' = completed_ids \cup (IF verdict[w] = "success" THEN {d} ELSE {})
      /\ terminal_ids' = terminal_ids \cup (IF Permanent(w) THEN {d} ELSE {})
      /\ UNCHANGED <<queues, job, running, closed>>
  BY DEF Report, schedVars
<1>2. /\ d \in Docs /\ d \in Turning
      /\ Turning' = Turning \ {d} /\ Submitted' = Submitted
  BY <1>1, TurnOver
<1> HIDE DEF d
<1>3. Waiting' = Waiting
  BY <1>1, <1>2 DEF Waiting, Queued
<1>4. phase[d] = "working" /\ phase' = [phase EXCEPT ![d] = phase'[d]]
  BY <1>1, <1>2, <1>3, OnePhaseMoves DEF PhaseTable
<1>5. phase'[d] \in {"completed", "terminal", "out"}
  BY <1>1, <1>2 DEF PhaseTable
<1>6. spent' = spent
  BY <1>1 DEF spent
<1>7. Lifecycle!Move(d, "working", phase'[d])
  BY <1>1, <1>2, <1>4, MoveOf
<1> QED BY <1>5, <1>6, <1>7 DEF Lifecycle!Complete, Lifecycle!GiveUp, Lifecycle!Abandon, d
LEMMA CloseShutsDown ==
  ASSUME LifeInv, PhaseTable, PhaseTable', NEW lost \in SUBSET Submitted, Close(lost)
  PROVE  Lifecycle!Shutdown
<1>1. /\ closed' = TRUE
      /\ queues' = [k \in Kinds |-> <<>>]
      /\ step' = [w \in Workers |-> IF w \in lost THEN "cancelled" ELSE step[w]]
      /\ UNCHANGED <<job, known, completed_ids, terminal_ids, running>>
  BY DEF Close, idVars, turnVars
<1>2. \A w \in Workers : step'[w] = step[w] \/ (step[w] = "submitted" /\ step'[w] = "cancelled")
  BY <1>1 DEF Submitted
<1>3. Turning' = Turning /\ Submitted' \subseteq Submitted
  BY <1>1, <1>2 DEF Turning, Submitted
<1>4. Queued' = {}
  <2>1. \A k \in Kinds : Range(queues'[k]) = {}
    BY <1>1 DEF Range
  <2> QED BY <2>1 DEF Queued
<1>5. Waiting' \subseteq Waiting
  BY <1>1, <1>3, <1>4 DEF Waiting
<1> DEFINE gone == {d \in Docs : d \in Waiting /\ d \notin Waiting'}
<1>6. gone \in SUBSET {d \in Docs : phase[d] = "waiting"}
  BY DEF PhaseTable
<1>7. ASSUME NEW d \in Docs
      PROVE  phase'[d] = IF d \in gone THEN "dropped" ELSE phase[d]
  <2>1. CASE d \in gone
    BY <1>1, <1>3, <2>1 DEF PhaseTable
  <2>2. CASE d \in Waiting'
    BY <1>1, <1>5, <2>2 DEF PhaseTable
  <2>3. CASE d \notin Waiting
    <3>1. CASE d \in completed_ids \/ d \in terminal_ids
      BY <1>1, <2>3, <3>1 DEF PhaseTable
    <3>2. CASE d \notin known \cup completed_ids \cup terminal_ids
      BY <1>1, <2>3, <3>2 DEF PhaseTable
    <3>3. CASE d \in Turning
      BY <1>1, <1>3, <2>3, <3>3 DEF PhaseTable
    <3>4. CASE d \in known \ Turning
      BY <1>1, <1>3, <1>5, <2>3, <3>4 DEF PhaseTable
    <3> QED BY <3>1, <3>2, <3>3, <3>4
  <2> QED BY <2>1, <2>2, <2>3
<1>8. phase' = [d \in Docs |-> IF d \in gone THEN "dropped" ELSE phase[d]]
  <2>1. phase' = [d \in Docs |-> phase'[d]]
    BY DEF PhaseTable
  <2> HIDE DEF phase, gone
  <2> QED BY <1>7, <2>1
<1>9. spent' = spent
  BY <1>1 DEF spent
<1> QED BY <1>1, <1>6, <1>8, <1>9 DEF Lifecycle!Shutdown

\* Admissions into a slot, the executor's own steps between decision and requeue,
\* and everything that only concerns deadlines are invisible.
LEMMA DispatchStutters ==
  ASSUME LifeInv, NEW w \in Workers, NEW s \in 0..4,
         NEW p \in 1..Len(queues[CycleKind(s)]), Dispatch(w, s, p)
  PROVE  UNCHANGED <<known, completed_ids, terminal_ids, Turning, Waiting, job, closed>>
<1> DEFINE k == CycleKind(s)
           d == queues[k][p]
<1>1. k \in Kinds
  BY CursorKind DEF LifeInv, IInv, TypeInv
<1>2. /\ queues[k] \in Seq(Docs) /\ IsInjective(queues[k]) /\ d \in Range(queues[k])
  BY <1>1 DEF LifeInv, IInv, TypeInv, TypeOK, OneOwner, Range
<1>3. /\ w \notin Active
      /\ queues' = [queues EXCEPT ![k] = RemoveAt(@, p)]
      /\ running' = [running EXCEPT ![w] = d]
      /\ step' = [step EXCEPT ![w] = "submitted"]
      /\ UNCHANGED <<known, completed_ids, terminal_ids, job, closed>>
  BY DEF Dispatch, Selects, First, idVars
<1>4. p \in 1..Len(queues[k])
  OBVIOUS
<1> HIDE DEF k
<1>5. Range(queues'[k]) = Range(queues[k]) \ {d}
  BY <1>1, <1>2, <1>3, <1>4, RemoveAtContents DEF LifeInv, IInv, TypeInv, TypeOK
<1> HIDE DEF d
<1>6. \A l \in Kinds \ {k} : queues'[l] = queues[l] /\ d \notin Range(queues[l])
  BY <1>1, <1>2, <1>3 DEF LifeInv, IInv, TypeInv, TypeOK, OneOwner
<1>7. Queued' = Queued \ {d} /\ d \in Queued
  BY <1>1, <1>2, <1>5, <1>6 DEF Queued
<1>8. /\ step[w] = "free" /\ step'[w] = "submitted" /\ running'[w] = d
      /\ \A v \in Workers \ {w} : step'[v] = step[v] /\ running'[v] = running[v]
  BY <1>3 DEF LifeInv, IInv, TypeInv, TypeOK, Active
<1>9. Turning' = Turning
  BY <1>8 DEF Turning
<1>10. {running'[v] : v \in Submitted'} = {running[v] : v \in Submitted} \cup {d}
  BY <1>8 DEF Submitted
<1>11. Waiting' = Waiting
  BY <1>7, <1>10 DEF Waiting
<1> QED BY <1>3, <1>9, <1>11

LEMMA SlotStutters ==
  ASSUME LifeInv, NEW w \in Workers, EndTurn(w) \/ Record(w) \/ Release(w)
  PROVE  UNCHANGED <<known, completed_ids, terminal_ids, Turning, Waiting, job, closed>>
<1>1. /\ UNCHANGED <<queues, known, completed_ids, terminal_ids, job, closed>>
      /\ \/ /\ running' = running
            /\ step[w] \in {"transfer", "decided"}
            /\ \E st \in {"decided", "recorded"} : step' = [step EXCEPT ![w] = st]
         \/ /\ running' = [running EXCEPT ![w] = NoDoc] /\ step[w] = "settled"
            /\ step' = [step EXCEPT ![w] = "free"]
  <2>1. CASE EndTurn(w)
    <3>1. step[w] = "transfer" /\ \E v, j : TurnEnds(w, v, j)
      BY <2>1 DEF EndTurn, Succeeds, Cancelled, Deferred, Fails, HandedOff, HandOff,
                  Recovers, GivesUp
    <3> QED BY <3>1 DEF TurnEnds, schedVars, idVars
  <2>2. CASE Record(w)
    BY <2>2 DEF Record, schedVars, idVars
  <2>3. CASE Release(w)
    BY <2>3 DEF Release, schedVars, idVars
  <2> QED BY <2>1, <2>2, <2>3
<1>2. /\ \A v \in Workers \ {w} : step'[v] = step[v] /\ running'[v] = running[v]
      /\ \/ /\ running'[w] = running[w] /\ step[w] \in {"transfer", "decided"}
            /\ step'[w] \in {"decided", "recorded"}
         \/ step[w] = "settled" /\ step'[w] = "free"
  BY <1>1 DEF LifeInv, IInv, TypeInv, TypeOK
<1>3. Turning' = Turning
  BY <1>2 DEF Turning
<1>4. Queued' = Queued /\ {running'[v] : v \in Submitted'} = {running[v] : v \in Submitted}
  BY <1>1, <1>2 DEF Queued, Submitted
<1> QED BY <1>1, <1>3, <1>4 DEF Waiting

LEMMA StepRefines == LifeInv /\ LifeInv' /\ [Next]_vars => [Lifecycle!Next]_(Lifecycle!lifeVars)
<1> SUFFICES ASSUME LifeInv, LifeInv', [Next]_vars
             PROVE  [Lifecycle!Next]_(Lifecycle!lifeVars)
  OBVIOUS
<1>1. PhaseTable /\ PhaseTable'
  BY PhaseTableHolds, PhaseTableNext DEF LifeInv
<1>2. ASSUME UNCHANGED <<known, completed_ids, terminal_ids, Turning, Waiting, job, closed>>
      PROVE  UNCHANGED Lifecycle!lifeVars
  BY <1>2, NoPhaseMoves DEF Lifecycle!lifeVars, spent
<1>3. ASSUME NEW d \in Docs, NEW j \in Admissions, Enqueue(d, j)
      PROVE  Lifecycle!Next
  BY <1>1, <1>3, EnqueueAdmits DEF Lifecycle!Next
<1>4. ASSUME NEW w \in Workers, WorkerStep(w)
      PROVE  [Lifecycle!Next]_(Lifecycle!lifeVars)
  <2>1. CASE Start(w)
    <3>1. running[w] \in Docs
      BY <2>1 DEF Start, LifeInv, IInv, TypeInv, SlotsOK
    <3> QED BY <1>1, <2>1, <3>1, StartTakes DEF Lifecycle!Next
  <2>2. CASE EndTurn(w) \/ Record(w) \/ Release(w)
    BY <1>2, <2>2, SlotStutters
  <2>3. CASE Requeue(w)
    <3>1. running[w] \in Docs
      BY <2>3 DEF Requeue, LifeInv, IInv, TypeInv, SlotsOK
    <3> QED BY <1>1, <2>3, <3>1, RequeueReturns DEF Lifecycle!Next
  <2>4. CASE Report(w)
    <3>1. running[w] \in Docs
      BY <2>4 DEF Report, LifeInv, IInv, TypeInv, SlotsOK
    <3> QED BY <1>1, <2>4, <3>1, ReportFinishes DEF Lifecycle!Next
  <2> QED BY <1>4, <2>1, <2>2, <2>3, <2>4 DEF WorkerStep
<1>5. CASE Admit
  BY <1>2, <1>5, DispatchStutters DEF Admit
<1>6. CASE \E lost \in SUBSET Submitted : Close(lost)
  BY <1>1, <1>6, CloseShutsDown DEF Lifecycle!Next
<1>7. CASE \/ \E d \in Docs : RouteBlocked(d) \/ DeadlinePasses(d)
           \/ Stop \/ UNCHANGED vars
  <2>1. UNCHANGED <<queues, job, known, completed_ids, terminal_ids, running, step, closed>>
    BY <1>7 DEF RouteBlocked, DeadlinePasses, Stop, vars, schedVars, idVars, slotVars
  <2>2. UNCHANGED <<known, completed_ids, terminal_ids, Turning, Waiting, job, closed>>
    BY <2>1 DEF Turning, Waiting, Queued, Submitted
  <2> QED BY <1>2, <2>2
<1> QED BY <1>3, <1>4, <1>5, <1>6, <1>7 DEF Next, OtherStep

LEMMA InitRefines == Init => Lifecycle!Init
<1> SUFFICES ASSUME Init PROVE Lifecycle!Init
  OBVIOUS
<1>1. PhaseTable /\ known = {} /\ completed_ids = {} /\ terminal_ids = {}
  BY IInvInit, PhaseTableHolds DEF Init
<1>2. phase = [d \in Docs |-> "out"]
  <2>1. \A d \in Docs : phase[d] = "out"
    BY <1>1 DEF PhaseTable
  <2>2. phase = [d \in Docs |-> phase[d]]
    BY <1>1 DEF PhaseTable
  <2> HIDE DEF phase
  <2> QED BY <2>1, <2>2
<1>3. spent = [d \in Docs |-> 0] /\ closed = FALSE
  BY DEF Init, spent
<1> QED BY <1>2, <1>3 DEF Lifecycle!Init

\* The scheduler implements DocumentLifecycle for every number of documents,
\* workers, attempts and handoffs: with its three deques, its slots and its
\* lock-free window between decision and requeue it does to each document exactly
\* one of the lifecycle's steps at a time, or nothing.
THEOREM QueueImplementsLifecycle == Spec => ImplementsLifecycle
<1>1. LifeInv /\ LifeInv' /\ [Next]_vars => [Lifecycle!Next]_(Lifecycle!lifeVars)
  BY StepRefines
<1>2. Init => Lifecycle!Init
  BY InitRefines
<1> QED BY <1>1, <1>2, LifeInvAlways, PTL DEF Spec, ImplementsLifecycle, Lifecycle!Spec
=============================================================================
