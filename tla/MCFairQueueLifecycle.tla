------------------------- MODULE MCFairQueueLifecycle -------------------------
(***************************************************************************)
(* An instance of FairQueueLifecycle for TLC: a fresh document, or one the *)
(* ledger restored at its last attempt.                                    *)
(***************************************************************************)
EXTENDS FairQueueLifecycle

Fresh == [kind |-> "primary", state |-> "QUEUED", attempt |-> 1, handoffs |-> 0,
          failures |-> 0]

\* A job the ledger restored at its last attempt.
Resumed == [Fresh EXCEPT !.kind = "recovery", !.state = "RECOVERY_READY",
                         !.attempt = MaxAttempts, !.failures = MaxAttempts - 1]

FreshOrResumed == {Fresh, Resumed}
=============================================================================
