----------------------------- MODULE MCFairShare -----------------------------
(***************************************************************************)
(* Instances of FairShare for TLC: primary and recovery work at its last   *)
(* attempt; handoffs arise on the way.                                     *)
(***************************************************************************)
EXTENDS FairShare, TLC

Restored(k) == [kind |-> k, state |-> "RECOVERY_READY", attempt |-> MaxAttempts,
                handoffs |-> 0, failures |-> 0]

PrimaryAndRecovery == {Restored("primary"), Restored("recovery")}

DocSymmetry == Permutations(Docs)
=============================================================================
