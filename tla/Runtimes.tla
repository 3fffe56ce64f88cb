------------------------------ MODULE Runtimes ------------------------------
(***************************************************************************)
(* What SharedPages and SharedVerdict share: the runtimes that work on one *)
(* PostgreSQL database, whose instances own leases in its rows             *)
(* (colab/distributed_coordinator.py), and what may go wrong with them.    *)
(***************************************************************************)
EXTENDS Naturals

CONSTANTS Runtime,
          Nobody,       \* claimed_by or validation_owner IS NULL
          Gone,         \* an instance that was lost
          MaxTroubles   \* bound: losses, lapsed leases, failures and new downloads

ASSUME RuntimesAssumption ==
  /\ Nobody \notin Runtime /\ Gone \notin Runtime /\ Nobody # Gone
  /\ MaxTroubles \in Nat

VARIABLE troubles   \* troubles so far

Trouble == troubles < MaxTroubles /\ troubles' = troubles + 1
=============================================================================
