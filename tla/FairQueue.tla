------------------------------ MODULE FairQueue ------------------------------
(***************************************************************************)
(* The optimized download scheduler, app/fair_download_queue.py of the     *)
(* Colab runtime.  One dispatcher thread admits documents from three       *)
(* queues to at most MaxWorkers executor threads; a worker runs one turn   *)
(* of a document, decides its single next state under the lock, records    *)
(* that state outside the lock, puts the document back (or reports its     *)
(* outcome) under the lock again, and frees its slot in a third critical   *)
(* section.  The producer enqueues, and the pipeline's finally block sets  *)
(* the stop event and closes the queue, at any moment.                     *)
(*                                                                         *)
(* Time is abstracted to the set `waiting` of the documents whose deadline *)
(* (not-before, route cooldown or Retry-After) lies in the future.         *)
(***************************************************************************)
EXTENDS Integers, Sequences, FiniteSets, SequencesExt

CONSTANTS
  Docs,          \* document identities (stable_document_id)
  NoDoc,         \* an empty entry of the table of running jobs
  NoJob,         \* _next_state returned None
  MaxWorkers,    \* max_workers
  MaxSize,       \* maxsize of the primary queue; the others hold 20 times more
  MaxAttempts,   \* settings.max_document_attempts
  MaxHandoffs,   \* settings.max_fast_handoffs_per_attempt
  ClaimJump,     \* how far a shared claim may move the attempt number ahead
  MaxTroubles,   \* bound: deferrals and route blocks the environment causes
  Admissions     \* the jobs the producer and the restart recovery enqueue

Kinds == {"primary", "handoff", "recovery"}

\* The admission cycle; position i of the code is cycle[i + 1].
cycle == <<"primary", "primary", "handoff", "primary", "recovery">>

Workers == 1..MaxWorkers

\* _queue_state.  DEFERRED stands for DEFERRED_ROUTE and DEFERRED_RATE_LIMIT,
\* which differ only in the deadline they wait for.
States == {"QUEUED", "DEFERRED", "HANDOFF_READY", "RECOVERY_READY", "PERMANENTLY_FAILED"}

\* The fields of the job dictionary that scheduling reads or writes.
Job == [kind: Kinds, state: States, attempt: 1..MaxAttempts,
        handoffs: 0..MaxHandoffs, failures: Nat]

\* The failed turns a document that reached (attempt, handoffs) may have used.
Used(attempt, handoffs) == (attempt - 1) * (MaxHandoffs + 1) + handoffs

Budget == MaxAttempts * (MaxHandoffs + 1)

ASSUME ConstantsOK ==
  /\ NoDoc \notin Docs
  /\ NoJob \notin Job
  /\ MaxWorkers \in Nat \ {0}
  /\ MaxSize \in Nat \ {0}
  /\ MaxAttempts \in Nat \ {0}
  /\ MaxHandoffs \in Nat
  /\ ClaimJump \in Nat
  /\ MaxTroubles \in Nat
  /\ IsFiniteSet(Docs)
  /\ Admissions \subseteq Job
  /\ \A j \in Admissions : /\ j.failures <= Used(j.attempt, j.handoffs)
                           /\ j.state # "PERMANENTLY_FAILED"

VARIABLES
  queues,         \* one deque per kind
  job,            \* the job dictionary of each document
  cursor,
  waiting,        \* queued documents that are not eligible yet
  known,          \* documents some queue or worker owns
  completed_ids, terminal_ids,
  running,        \* worker -> the document it runs, NoDoc when absent
  slotKind,       \* worker -> _queue_kind of the job object in running
  step,           \* worker -> how far _execute has come
  verdict,        \* worker -> how the worker's turn ended
  next,           \* worker -> the job _next_state returned
  closed,
  stopping,       \* network.stop_event
  troubles        \* deferrals and route blocks so far

schedVars == <<queues, job, cursor, waiting>>
idVars == <<known, completed_ids, terminal_ids>>
turnVars == <<slotKind, verdict, next>>
slotVars == <<running, step, turnVars>>
vars == <<schedVars, idVars, slotVars, closed, stopping, troubles>>

Steps == {"free", "submitted", "transfer", "decided", "recorded", "settled", "cancelled"}
Verdicts == {"none", "success", "cancelled", "deferred", "failed", "interrupted"}

-----------------------------------------------------------------------------
\* Who holds a document.

Queued == UNION {Range(queues[k]) : k \in Kinds}

Active == {w \in Workers : step[w] # "free"}

\* Slots whose worker has not yet put the document back or reported it.
Holding == {w \in Active : step[w] # "settled"}
InHand == {running[w] : w \in Holding}

active_ids == {running[w] : w \in Active}
recovery_active == Cardinality({w \in Active : slotKind[w] # "primary"})

\* max(1, ceil(max_workers * .4))
RecoveryLimit == (2 * MaxWorkers + 4) \div 5

Capacity(k) == IF k = "primary" THEN MaxSize ELSE 20 * MaxSize

-----------------------------------------------------------------------------
\* Selection.  Positions of the queue are tried in order, so the first
\* eligible document of a kind is the one that is admitted.

Ready(k) == \E d \in Range(queues[k]) : d \notin waiting

\* Mutant: a document that is being released is admitted again.
Selectable_Running(k) == {p \in 1..Len(queues[k]) : queues[k][p] \notin waiting}

Selectable(k) == {p \in 1..Len(queues[k]) : queues[k][p] \notin active_ids \cup waiting}

\* Mutant: one recovery slot too many while primary work is ready.
HeldBack_OneMore(k) == k # "primary" /\ Ready("primary") /\ recovery_active > RecoveryLimit

\* While primary work is ready the other kinds share RecoveryLimit slots.
HeldBack(k) == k # "primary" /\ Ready("primary") /\ recovery_active >= RecoveryLimit

Offered(k) == ~HeldBack(k) /\ Selectable(k) # {}

CycleKind(s) == cycle[((cursor + s) % 5) + 1]

First(S, x) == x \in S /\ \A y \in S : x <= y

-----------------------------------------------------------------------------
Init ==
  /\ queues = [k \in Kinds |-> <<>>]
  /\ job = [d \in Docs |-> [kind |-> "primary", state |-> "QUEUED", attempt |-> 1,
                            handoffs |-> 0, failures |-> 0]]
  /\ cursor = 0 /\ waiting = {}
  /\ known = {} /\ completed_ids = {} /\ terminal_ids = {}
  /\ running = [w \in Workers |-> NoDoc]
  /\ slotKind = [w \in Workers |-> "primary"]
  /\ step = [w \in Workers |-> "free"]
  /\ verdict = [w \in Workers |-> "none"]
  /\ next = [w \in Workers |-> NoJob]
  /\ closed = FALSE /\ stopping = FALSE /\ troubles = 0

\* The append of try_enqueue; a restored job may carry a deadline.
Accept(d, j) ==
  /\ queues' = [queues EXCEPT ![j.kind] = Append(@, d)]
  /\ job' = [job EXCEPT ![d] = j]
  /\ known' = known \cup {d}
  /\ waiting' \in {waiting, waiting \cup {d}}
  /\ UNCHANGED <<cursor, completed_ids, terminal_ids, slotVars, closed, stopping, troubles>>

\* Mutant of Enqueue: a document that is owned is accepted again.
Enqueue_Owned(d, j) ==
  /\ ~closed /\ d \notin completed_ids \cup terminal_ids
  /\ Len(queues[j.kind]) < Capacity(j.kind)
  /\ Accept(d, j)

\* The producer, the restart recovery or a rediscovery of the same document.
\* An identity that is owned or finished is refused; so is a full queue.
Enqueue(d, j) ==
  /\ ~closed /\ d \notin known \cup completed_ids \cup terminal_ids
  /\ Len(queues[j.kind]) < Capacity(j.kind)
  /\ Accept(d, j)

\* Selection s steps after the cursor, at position p, for free worker w.
Selects(w, s, p) ==
  LET k == CycleKind(s)
  IN /\ ~closed
     /\ First(Workers \ Active, w)
     /\ First({t \in 0..4 : Offered(CycleKind(t))}, s)
     /\ First(Selectable(k), p)
     /\ queues' = [queues EXCEPT ![k] = RemoveAt(@, p)]
     /\ running' = [running EXCEPT ![w] = queues[k][p]]
     /\ slotKind' = [slotKind EXCEPT ![w] = k]
     /\ step' = [step EXCEPT ![w] = "submitted"]
     /\ UNCHANGED <<job, waiting, idVars, verdict, next, closed, stopping, troubles>>

\* Mutant: every admission starts from the head of the cycle.
Dispatch_FixedCursor(w, s, p) == Selects(w, s, p) /\ cursor' = cursor

\* One admission of the dispatcher: the first offered kind from the cursor on,
\* its first selectable document, the lowest free worker.
Dispatch(w, s, p) == Selects(w, s, p) /\ cursor' = (cursor + s + 1) % 5

\* An executor thread picks the submitted future up and calls the worker.
Start(w) ==
  /\ step[w] = "submitted"
  /\ step' = [step EXCEPT ![w] = "transfer"]
  /\ UNCHANGED <<schedVars, idVars, running, turnVars, closed, stopping, troubles>>

\* The model's bound, not the code's, on what costs a document nothing.
Trouble == troubles < MaxTroubles /\ troubles' = troubles + 1

\* The third failure of a route, or a 429 of its host, moves the deadline of a
\* queued document into the future.
RouteBlocked(d) ==
  /\ d \in Queued \ waiting
  /\ waiting' = waiting \cup {d}
  /\ Trouble
  /\ UNCHANGED <<queues, job, cursor, idVars, slotVars, closed, stopping>>

DeadlinePasses(d) ==
  /\ d \in waiting
  /\ waiting' = waiting \ {d}
  /\ UNCHANGED <<queues, job, cursor, idVars, slotVars, closed, stopping, troubles>>

-----------------------------------------------------------------------------
\* How a turn ends: the worker's result and _next_state's decision, made under
\* the lock.  Without a next job there is nothing for on_defer to record.

TurnEnds(w, v, j) ==
  /\ verdict' = [verdict EXCEPT ![w] = v]
  /\ next' = [next EXCEPT ![w] = j]
  /\ step' = [step EXCEPT ![w] = IF j = NoJob THEN "recorded" ELSE "decided"]
  /\ UNCHANGED <<schedVars, idVars, running, slotKind, closed, stopping>>

\* result['attempt']: a shared claim may have moved the number ahead.
ClaimedAttempts(d) == {a \in job[d].attempt..MaxAttempts : a <= job[d].attempt + ClaimJump}

\* _download_worker turns the InterruptedError of a stop into an ordinary failure.
FailureVerdicts == {"failed"} \cup (IF stopping THEN {"interrupted"} ELSE {})

Succeeds(w) == TurnEnds(w, "success", NoJob) /\ UNCHANGED troubles

Cancelled(w) == TurnEnds(w, "cancelled", NoJob) /\ UNCHANGED troubles

\* Mutant: waiting for a route consumes failure budget.
Deferred_Charged(w, a) ==
  LET j == job[running[w]]
  IN TurnEnds(w, "deferred", [j EXCEPT !.state = "DEFERRED", !.attempt = a,
                                       !.failures = j.failures + 1]) /\ Trouble

\* Route cooldown, 429, or a document another runtime holds.
Deferred(w, a) ==
  LET j == job[running[w]]
  IN TurnEnds(w, "deferred", [j EXCEPT !.state = "DEFERRED", !.attempt = a]) /\ Trouble

\* A partial transfer is resumed soon, within the same attempt.
HandOff(w, v, a, handoffs) ==
  LET j == job[running[w]]
  IN TurnEnds(w, v, [j EXCEPT !.kind = "handoff", !.state = "HANDOFF_READY", !.attempt = a,
                              !.handoffs = handoffs, !.failures = j.failures + 1])
     /\ UNCHANGED troubles

Handoffs(w) == job[running[w]].handoffs

HandedOff(w, v, a) == Handoffs(w) < MaxHandoffs /\ HandOff(w, v, a, Handoffs(w) + 1)

\* The next document attempt, with a fresh handoff allowance: nothing was
\* transferred, or the handoffs of this attempt are used up.
Recovers(w, v, a, partial) ==
  LET j == job[running[w]]
  IN /\ ~(partial /\ Handoffs(w) < MaxHandoffs)
     /\ a < MaxAttempts
     /\ TurnEnds(w, v, [j EXCEPT !.kind = "recovery", !.state = "RECOVERY_READY",
                                 !.attempt = a + 1, !.handoffs = 0, !.failures = j.failures + 1])
     /\ UNCHANGED troubles

\* The worker called the failure permanent, or the last attempt failed.
GivesUp(w, v, a, partial) ==
  LET j == job[running[w]]
  IN /\ \/ v = "failed"
        \/ a = MaxAttempts /\ ~(partial /\ Handoffs(w) < MaxHandoffs)
     /\ TurnEnds(w, v, [j EXCEPT !.state = "PERMANENTLY_FAILED", !.attempt = a,
                                 !.failures = j.failures + 1])
     /\ UNCHANGED troubles

Fails(w) ==
  \E v \in FailureVerdicts, a \in ClaimedAttempts(running[w]), partial \in BOOLEAN :
    \/ partial /\ HandedOff(w, v, a)
    \/ Recovers(w, v, a, partial)
    \/ GivesUp(w, v, a, partial)

EndTurn(w) ==
  /\ step[w] = "transfer"
  /\ \/ Succeeds(w)
     \/ Cancelled(w)
     \/ \E a \in ClaimedAttempts(running[w]) : Deferred(w, a)
     \/ Fails(w)

\* on_defer: the next state is made durable outside the dispatcher's lock.  An
\* exception of the callback is only counted, so the step is taken either way.
Record(w) ==
  /\ step[w] = "decided"
  /\ step' = [step EXCEPT ![w] = "recorded"]
  /\ UNCHANGED <<schedVars, idVars, running, turnVars, closed, stopping, troubles>>

Permanent(w) == next[w] # NoJob /\ next[w].state = "PERMANENTLY_FAILED"

\* Mutant: a worker that finishes after close() queues its document again.
Continues_AfterClose(w) == next[w] # NoJob /\ ~Permanent(w)

Continues(w) == next[w] # NoJob /\ ~Permanent(w) /\ ~closed

\* Back into a queue: the document stays owned, and its slot stays taken until
\* Release.  No capacity applies to a document that comes back.
Requeue(w) ==
  LET d == running[w]
  IN /\ step[w] = "recorded" /\ Continues(w)
     /\ queues' = [queues EXCEPT ![next[w].kind] = Append(@, d)]
     /\ job' = [job EXCEPT ![d] = next[w]]
     /\ waiting' = waiting \cup {d}
     /\ step' = [step EXCEPT ![w] = "settled"]
     /\ UNCHANGED <<cursor, idVars, running, turnVars, closed, stopping, troubles>>

\* The outcome goes to the coordinator and the identity is given up.
Report(w) ==
  LET d == running[w]
  IN /\ step[w] = "recorded" /\ ~Continues(w)
     /\ known' = known \ {d}
     /\ completed_ids' = completed_ids \cup (IF verdict[w] = "success" THEN {d} ELSE {})
     /\ terminal_ids' = terminal_ids \cup (IF Permanent(w) THEN {d} ELSE {})
     /\ step' = [step EXCEPT ![w] = "settled"]
     /\ UNCHANGED <<schedVars, running, turnVars, closed, stopping, troubles>>

\* The finally of _execute: the slot becomes reusable.
Release(w) ==
  /\ step[w] = "settled"
  /\ running' = [running EXCEPT ![w] = NoDoc]
  /\ slotKind' = [slotKind EXCEPT ![w] = "primary"]
  /\ verdict' = [verdict EXCEPT ![w] = "none"]
  /\ next' = [next EXCEPT ![w] = NoJob]
  /\ step' = [step EXCEPT ![w] = "free"]
  /\ UNCHANGED <<schedVars, idVars, closed, stopping, troubles>>

-----------------------------------------------------------------------------
\* The finally of run_scraping_pipeline.
Stop ==
  /\ ~stopping
  /\ stopping' = TRUE
  /\ UNCHANGED <<schedVars, idVars, slotVars, closed, troubles>>

\* close(): queued jobs are dropped from memory, and cancel_futures drops the
\* futures no thread has picked up; their table entries are never removed.
\* The second disjunct of the guard is the executor's shutdown, which follows
\* the critical section that closes the queue.
Close(lost) ==
  /\ ~closed \/ lost # {}
  /\ closed' = TRUE
  /\ queues' = [k \in Kinds |-> <<>>]
  /\ waiting' = {}
  /\ step' = [w \in Workers |-> IF w \in lost THEN "cancelled" ELSE step[w]]
  /\ UNCHANGED <<job, cursor, idVars, running, turnVars, stopping, troubles>>

Submitted == {w \in Workers : step[w] = "submitted"}

Admit == \E w \in Workers, s \in 0..4 :
           \E p \in 1..Len(queues[CycleKind(s)]) : Dispatch(w, s, p)

WorkerStep(w) ==
  Start(w) \/ EndTurn(w) \/ Record(w) \/ Requeue(w) \/ Report(w) \/ Release(w)

\* Every step that is not an admission.
OtherStep ==
  \/ \E d \in Docs, j \in Admissions : Enqueue(d, j)
  \/ \E w \in Workers : WorkerStep(w)
  \/ \E d \in Docs : RouteBlocked(d) \/ DeadlinePasses(d)
  \/ Stop
  \/ \E lost \in SUBSET Submitted : Close(lost)

Next == Admit \/ OtherStep

\* The dispatcher thread keeps looping, every executor thread runs to the end of
\* its turn (requests carry timeouts), and every deadline passes.  Nothing is
\* assumed of the producer, of the stop event or of close().
Fairness ==
  /\ WF_vars(Admit)
  /\ \A w \in Workers : WF_vars(WorkerStep(w))
  /\ \A d \in Docs : WF_vars(DeadlinePasses(d))

Spec == Init /\ [][Next]_vars
FairSpec == Spec /\ Fairness

-----------------------------------------------------------------------------
\* Every variable has its type; in particular no job leaves its attempt and
\* handoff ranges, whatever the workers return.
TypeOK ==
  /\ queues \in [Kinds -> Seq(Docs)]
  /\ job \in [Docs -> Job]
  /\ cursor \in 0..4
  /\ waiting \subseteq Docs
  /\ known \subseteq Docs /\ completed_ids \subseteq Docs /\ terminal_ids \subseteq Docs
  /\ running \in [Workers -> Docs \cup {NoDoc}]
  /\ slotKind \in [Workers -> Kinds]
  /\ step \in [Workers -> Steps]
  /\ verdict \in [Workers -> Verdicts]
  /\ next \in [Workers -> Job \cup {NoJob}]
  /\ closed \in BOOLEAN /\ stopping \in BOOLEAN
  /\ troubles \in Nat

\* A document sits at one place of one queue or in the hand of one worker, never
\* in two: "primary, handoff and recovery cannot simultaneously own it".
OneOwner ==
  /\ \A k \in Kinds : IsInjective(queues[k])
  /\ \A k, l \in Kinds : k # l => Range(queues[k]) \cap Range(queues[l]) = {}
  /\ \A w, v \in Holding : running[w] = running[v] => w = v
  /\ Queued \cap InHand = {}

\* No two slots run the same document, not even while the old turn is still
\* cleaning up after its document went back into a queue.
OneTurnAtATime ==
  \A w, v \in Active : running[w] = running[v] => w = v

\* While the queue is open an identity is owned exactly as long as some queue or
\* worker has it, and once it is closed nothing is queued any more.
NothingLost ==
  /\ ~closed => known = Queued \cup InHand
  /\ closed => Queued = {} /\ InHand \subseteq known

\* A document that was completed or given up is never scheduled again in this run.
FinishedStaysFinished ==
  /\ completed_ids \cap terminal_ids = {}
  /\ (completed_ids \cup terminal_ids) \cap known = {}

\* However deferrals, handoffs, recoveries and admissions interleave, a document
\* fails at most MaxAttempts * (MaxHandoffs + 1) times: two fast handoffs within an
\* attempt and a bounded number of attempts.
BudgetBound ==
  /\ \A d \in Docs : job[d].failures <= Used(job[d].attempt, job[d].handoffs)
  /\ \A w \in Active : next[w] # NoJob => next[w].failures <= Budget

\* A document the queue accepted is completed, given up or reported, unless the
\* run is closed: nothing waits for ever behind other documents or a dead slot.
EveryDocumentSettles ==
  \A d \in Docs : d \in known ~> (d \notin known \/ closed)
=============================================================================
