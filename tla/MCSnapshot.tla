----------------------------- MODULE MCSnapshot -----------------------------
(***************************************************************************)
(* Snapshot for TLC: documents are alike, and two of them are on the disk  *)
(* or on Drive at a time in fewer runs, with fewer events, than one.       *)
(***************************************************************************)
EXTENDS Snapshot, FiniteSets, TLC

Symmetry == Permutations(Doc)

Met == {d \in Doc : ledger[d] # "new" \/ saved[d] # "new" \/ files[d] # {}}
Bound == Cardinality(Met) > 1 => starts + events <= 2
=============================================================================
