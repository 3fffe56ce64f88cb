-------------------------- MODULE MCSharedVerdict ---------------------------
(* Two runtimes with the same query; the document may be downloaded again. *)
EXTENDS SharedVerdict

CONSTANTS r1, r2, q1

MCQueryOf == [r \in {r1, r2} |-> q1]
============================================================================
