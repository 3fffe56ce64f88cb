------------------------------ MODULE FairShare ------------------------------
(***************************************************************************)
(* What the admission cycle of the fair queue promises to each kind of     *)
(* work.  A history variable counts, for every kind, the admissions in a   *)
(* row that passed it over although it had a document on offer.            *)
(***************************************************************************)
EXTENDS FairQueue

VARIABLE passed    \* kind -> admissions in a row that passed it over

shareVars == <<vars, passed>>

ShareInit == Init /\ passed = [k \in Kinds |-> 0]

\* The admission of kind c: the kinds on offer that were not chosen wait on.
PassOver(c) ==
  passed' = [k \in Kinds |-> IF k # c /\ Offered(k) THEN passed[k] + 1 ELSE 0]

ShareAdmit ==
  \E w \in Workers, s \in 0..4 :
    \E p \in 1..Len(queues[CycleKind(s)]) : Dispatch(w, s, p) /\ PassOver(CycleKind(s))

ShareNext == ShareAdmit \/ (OtherStep /\ UNCHANGED passed)

ShareSpec == ShareInit /\ [][ShareNext]_shareVars

-----------------------------------------------------------------------------
\* Positions between the cursor and the next turn of a kind in the cycle.
Distance(k) ==
  CASE k = "primary"  -> IF cursor \in {2, 4} THEN 1 ELSE 0
    [] k = "handoff"  -> (2 - cursor) % 5
    [] k = "recovery" -> (4 - cursor) % 5

Patience(k) == IF k = "primary" THEN 1 ELSE 4

\* The history stays a natural number; what it counts is bounded below.
ShareTypeOK == TypeOK /\ passed \in [Kinds -> Nat]

\* Strengthening of BypassBounded: the wait so far and the wait to come.
BypassInv == \A k \in Kinds : passed[k] + Distance(k) <= Patience(k)

\* "skipping unavailable classes": whatever the other queues hold and however
\* documents move between them, primary work on offer is passed over at most once
\* in a row, handoff and recovery work at most four times.
BypassBounded == \A k \in Kinds : passed[k] <= Patience(k)

\* "With primary work ready, at most ceil(workers * 0.4) handoff/recovery jobs may
\* be active at admission": spare capacity may have been given to more of them
\* before, but then no further one is admitted.
RecoveryShare ==
  [][\A w \in Workers :
       (step[w] = "free" /\ step'[w] = "submitted" /\ slotKind'[w] # "primary"
          /\ Ready("primary"))
       => recovery_active' <= RecoveryLimit]_vars
=============================================================================
