-------------------------- MODULE ValidationHistory --------------------------
(***************************************************************************)
(* Validation with one thing remembered that the program does not keep:    *)
(* which files were transferred once more although bytes of them were      *)
(* here.  The recovery of a run does that to a file whose only copy is in  *)
(* approved/ or rejected/, and not at the managed path, when a slow job's  *)
(* timer has made its entry INTEGRITY_PENDING while the restored job was   *)
(* moving the file.  Two copies then exist, and what the ledger says of    *)
(* one of them may have been found out about the other.                    *)
(***************************************************************************)
EXTENDS Validation

VARIABLE again   \* files that were fetched while bytes of them existed

FetchedAgain == {f \in File : copies[f] # {} /\ \E d \in Downloader : Fetch(d, f)}

HistInit == Init /\ again = {}
HistNext == Next /\ again' = again \cup FetchedAgain
histVars == <<vars, again>>

HistSpec == HistInit /\ [][HistNext]_histVars
HistFairSpec == HistSpec /\ Fairness

-----------------------------------------------------------------------------
(* Properties                                                              *)

\* A verdict that was reported is not lost, although timers, late callers and
\* errors overwrite the entry and the program may stop at any step: the ledger
\* shows a verdict, or an entry that the next run restores and finds.
VerdictNotLost ==
  \A f \in File \ again : report[f] \in Decided =>
    \/ Validation(f) \in Decided
    \/ Restorable(f) /\ Located(f)
=============================================================================
