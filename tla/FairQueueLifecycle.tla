------------------------- MODULE FairQueueLifecycle -------------------------
(***************************************************************************)
(* FairQueue implements DocumentLifecycle.  A document is "working" from   *)
(* the moment an executor thread picked it up until it is put back or      *)
(* reported; every queue, submission, decision, persistence and release    *)
(* step in between is invisible to it.                                     *)
(***************************************************************************)
EXTENDS FairQueue

Turning == {running[w] : w \in {v \in Workers : step[v] \in {"transfer", "decided", "recorded"}}}

Waiting == Queued \cup {running[w] : w \in Submitted}

phase == [d \in Docs |->
  CASE d \in completed_ids -> "completed"
    [] d \in terminal_ids -> "terminal"
    [] d \notin known \cup completed_ids \cup terminal_ids -> "out"
    [] d \in known \cap Turning -> "working"
    [] d \in known \cap Waiting -> "waiting"
    [] OTHER -> "dropped"]

spent == [d \in Docs |-> job[d].failures]

Lifecycle == INSTANCE DocumentLifecycle WITH open <- ~closed

\* The queue with its three deques, its worker slots and its lock-free window
\* between decision and requeue behaves, document by document, as the lifecycle
\* says: exactly one next state, a free deferral, a bounded number of failures.
ImplementsLifecycle == Lifecycle!Spec
=============================================================================
