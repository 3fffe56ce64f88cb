------------------------------ MODULE MCDriver ------------------------------
(***************************************************************************)
(* Instances of Driver for TLC.                                            *)
(***************************************************************************)
EXTENDS Driver

CONSTANTS d1, d2, d3

\* Two result pages; document d3 is listed twice on the second.
TwoPages == <<<<d1, d2>>, <<d3, d3>>>>

OwnTitles == [d \in Doc |-> d]

Names == {Title[d] : d \in Doc} \X (DOMAIN Listing) \X (1..2)
=============================================================================
