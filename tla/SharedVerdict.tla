--------------------------- MODULE SharedVerdict ----------------------------
(***************************************************************************)
(* Stage 2 in the distributed mode, for one document: runtimes of several  *)
(* queries ask the model whether the stored PDF is an ASHRAE publication   *)
(* and relevant to their query, each query under a validation lease, and   *)
(* share the verdicts per query and the identity per document              *)
(* (DistributedCoordinator.stage2, the validation functions of colab/db.py *)
(* and evaluate_pdf_content in orchestrator.py).                           *)
(*                                                                         *)
(* The bytes of the document are a number that grows when it is downloaded *)
(* again.  A start is a new instance, as in SharedPages: the owner says    *)
(* what the validation token says.  Left out: the retry for strong titles, *)
(* which require_ashrae_identity turns off.                                *)
(***************************************************************************)
EXTENDS Runtimes

CONSTANTS Query,
          QueryOf,      \* Runtime -> Query
          MaxSha,       \* bound: versions of the bytes
          Thin          \* versions without enough text to judge

ASSUME SharedVerdictAssumption ==
  /\ QueryOf \in [Runtime -> Query] /\ Thin \subseteq 1..MaxSha
  /\ MaxSha \in Nat \ {0}

VARIABLES
  sha,       \* documents.sha256
  identity,  \* documents: identity_sha and ashrae_identity
  result,    \* table query_document_results, by query
  run        \* stage2 of each runtime, and the verdict it has or gives back

vars == <<sha, identity, result, run, troubles>>

Tri == {"yes", "no", "?"}
Statuses == {"PENDING", "APPROVED", "REJECTED"}
Verdict == [status : Statuses, identity : Tri]
Steps == {"off", "look", "claim", "recheck", "evaluate", "save", "leave"}
Leased == {"recheck", "evaluate", "save", "leave"}  \* the job is in `validations`
Known == [of : 0..MaxSha, value : Tri]
Row == [sha : 1..MaxSha, known : Tri]       \* what stage2 read of the document

Pending == [status |-> "PENDING", identity |-> "?"]
Idle == [at |-> "off", row |-> [sha |-> 1, known |-> "?"], verdict |-> Pending]

TypeOK ==
  /\ sha \in 1..MaxSha /\ identity \in Known
  /\ result \in [Query -> [verdict : Verdict, of : 0..MaxSha,
                           owner : Runtime \cup {Nobody, Gone}, live : BOOLEAN]]
  /\ run \in [Runtime -> [at : Steps, row : Row, verdict : Verdict]]
  /\ troubles \in 0..MaxTroubles

Init ==
  /\ sha = 1 /\ identity = [of |-> 0, value |-> "?"] /\ troubles = 0
  /\ result = [q \in Query |-> [verdict |-> Pending, of |-> 0, owner |-> Nobody, live |-> FALSE]]
  /\ run = [r \in Runtime |-> Idle]

Mine(r) == result[QueryOf[r]]
At(r, step) == run[r].at = step
Goes(r, new) == run' = [run EXCEPT ![r] = new]
To(r, step) == Goes(r, [run[r] EXCEPT !.at = step])
GivesBack(r, v) == Goes(r, [run[r] EXCEPT !.at = "leave", !.verdict = v])
Owns(r) == Mine(r).owner = r /\ Mine(r).live
Decided(q, bytes) == result[q].of = bytes /\ result[q].verdict.status # "PENDING"

-----------------------------------------------------------------------------
(* What a reply of the model means                                         *)

Answer == [approved : BOOLEAN, score : {"low", "mid", "high"}, identity : Tri,
           relevant : Tri, sure : BOOLEAN, more : BOOLEAN]

\* _pdf_validation_result: up to 30 is low, from 70 on high.
Grade(a) ==
  CASE a.more -> "PENDING"
    [] ~a.more /\ a.approved /\ a.score = "high" -> "APPROVED"
    [] ~a.more /\ ~a.approved /\ a.score = "low" -> "REJECTED"
    [] OTHER -> "PENDING"

\* require_identity: an approval needs both, a rejection a sure no.
Status(a) ==
  IF a.identity = "yes" /\ a.relevant = "yes" THEN Grade(a)
  ELSE IF "no" \in {a.identity, a.relevant} /\ a.sure /\ ~a.more THEN "REJECTED"
  ELSE "PENDING"

\* evaluate_pdf_content: thin text asks nobody; a reply that cannot be read, nor
\* repaired, and an error of the service leave the document pending.
Replies == {[status |-> Status(a), identity |-> a.identity] : a \in Answer}
Evaluations(bytes) == {Pending} \cup (IF bytes \in Thin THEN {} ELSE Replies)

\* The shared identity replaces the answer's, and no approval contradicts it.
Adjusted(v, known) ==
  IF known = "?" THEN v
  ELSE [v EXCEPT !.identity = known,
                 !.status = IF known = "no" /\ @ = "APPROVED" THEN "PENDING" ELSE @]

-----------------------------------------------------------------------------
(* stage2                                                                  *)

Read(r) ==
  /\ At(r, "off")
  /\ LET known == IF identity.of = sha THEN identity.value ELSE "?"
     IN Goes(r, [Idle EXCEPT !.at = "look", !.row = [sha |-> sha, known |-> known]])
  /\ UNCHANGED <<sha, identity, result, troubles>>

\* A verdict of the query for these bytes is given back as it is.
Look(r) ==
  /\ At(r, "look")
  /\ IF Decided(QueryOf[r], run[r].row.sha) THEN Goes(r, Idle) ELSE To(r, "claim")
  /\ UNCHANGED <<sha, identity, result, troubles>>

\* claim_validation
Claim(r) ==
  /\ At(r, "claim")
  /\ IF Mine(r).owner = Nobody \/ ~Mine(r).live
     THEN /\ result' = [result EXCEPT ![QueryOf[r]].owner = r, ![QueryOf[r]].live = TRUE]
          /\ To(r, "recheck")
     ELSE Goes(r, Idle) /\ UNCHANGED result
  /\ UNCHANGED <<sha, identity, troubles>>

\* Mutant of Cached: the cache is not read again under the lease.
Cached_Never(r) == FALSE

\* "A prior validator may have saved between the first cache read and our atomic
\* lease claim."
Cached(r) == Decided(QueryOf[r], run[r].row.sha)

Recheck(r) ==
  /\ At(r, "recheck")
  /\ IF Cached(r) THEN GivesBack(r, Mine(r).verdict) ELSE To(r, "evaluate")
  /\ UNCHANGED <<sha, identity, result, troubles>>

Evaluate(r) ==
  /\ At(r, "evaluate")
  /\ \E v \in Evaluations(run[r].row.sha) :
       Goes(r, [run[r] EXCEPT !.at = "save", !.verdict = Adjusted(v, run[r].row.known)])
  /\ UNCHANGED <<sha, identity, result, troubles>>

\* Mutant of Saves: the lease is not looked at.
Saves_Anyway(r) == TRUE

\* The WHERE clause of save_validation.
Saves(r) == Owns(r)

\* What stage2 returns after save_validation.
Returned(r) == IF Saves(r) THEN run[r].verdict ELSE Pending

\* save_validation: the identity is written for the bytes the document has.
Save(r) ==
  /\ At(r, "save")
  /\ LET v == run[r].verdict
         bytes == run[r].row.sha
     IN IF Saves(r)
        THEN /\ result' = [result EXCEPT ![QueryOf[r]] =
                             [verdict |-> v, of |-> bytes, owner |-> Nobody, live |-> FALSE]]
             /\ identity' = IF v.identity # "?" /\ sha = bytes
                            THEN [of |-> bytes, value |-> v.identity] ELSE identity
        ELSE UNCHANGED <<result, identity>>
  /\ GivesBack(r, Returned(r))
  /\ UNCHANGED <<sha, troubles>>

\* release_validation
Released(row, r) == IF row.owner = r THEN [row EXCEPT !.owner = Nobody, !.live = FALSE] ELSE row

Leave(r) ==
  /\ At(r, "leave")
  /\ result' = [result EXCEPT ![QueryOf[r]] = Released(@, r)]
  /\ Goes(r, Idle)
  /\ UNCHANGED <<sha, identity, troubles>>

\* An exception on the way leaves the document pending; when the release fails
\* too, the lease is left to lapse.
Fails(r) ==
  /\ run[r].at \in Leased /\ Trouble
  /\ IF At(r, "leave") THEN Goes(r, Idle) ELSE GivesBack(r, Pending)
  /\ UNCHANGED <<sha, identity, result>>

-----------------------------------------------------------------------------
(* The rest of the world                                                   *)

\* Mutant of Renewed: the finished job is never taken from the renewals.
Renewed_Always(r) == r \in Runtime

\* The leases the heartbeat renews: those of jobs that are under way.
Renewed(r) == r \in Runtime /\ run[r].at \in Leased

LapsedRow(row, r) == IF row.owner = r THEN [row EXCEPT !.live = FALSE] ELSE row
Holds(r) == \E q \in Query : result[q].owner = r /\ result[q].live

\* A lease nobody renews lapses; the heartbeat may fail for that long.
Lapse(r) ==
  /\ Holds(r)
  /\ IF Renewed(r) THEN Trouble ELSE UNCHANGED troubles
  /\ result' = [q \in Query |-> LapsedRow(result[q], r)]
  /\ UNCHANGED <<sha, identity, run>>

Crash(r) ==
  /\ ~At(r, "off") /\ Trouble
  /\ result' = [result EXCEPT ![QueryOf[r]] =
                  IF @.owner = r THEN [@ EXCEPT !.owner = Gone] ELSE @]
  /\ Goes(r, Idle)
  /\ UNCHANGED <<sha, identity>>

\* The stored object was missing, and another download brought other bytes.
Replace ==
  /\ sha < MaxSha /\ Trouble
  /\ sha' = sha + 1
  /\ UNCHANGED <<identity, result, run>>

Stage2(r) == Look(r) \/ Claim(r) \/ Recheck(r) \/ Evaluate(r) \/ Save(r) \/ Leave(r)

Next ==
  \/ \E r \in Runtime : Read(r) \/ Stage2(r) \/ Fails(r) \/ Crash(r)
  \/ \E r \in Runtime \cup {Gone} : Lapse(r)
  \/ Replace

\* A call that was begun goes on; a lease that is not renewed lapses.
Unrenewed(r) == ~Renewed(r) /\ Lapse(r)
Fairness ==
  /\ \A r \in Runtime : WF_vars(Stage2(r))
  /\ \A r \in Runtime \cup {Gone} : WF_vars(Unrenewed(r))

Spec == Init /\ [][Next]_vars
FairSpec == Spec /\ Fairness

-----------------------------------------------------------------------------
(* Properties                                                              *)

\* A verdict that was reached for some bytes is not replaced by another one for
\* the same bytes, however late a validator comes back that lost its lease.
VerdictStands ==
  [][\A q \in Query :
       /\ result[q].verdict.status # "PENDING"
       /\ result'[q].of = result[q].of
       => result'[q].verdict = result[q].verdict]_vars

\* While a runtime asks the model under its lease there is no verdict for the
\* bytes yet: a decision that is shared is not paid for again.
NotPaidAgain ==
  \A r \in Runtime : At(r, "evaluate") /\ Owns(r) => ~Decided(QueryOf[r], run[r].row.sha)

\* No validation lease is held for ever, also when its runtime is lost or could
\* not release it: another runtime can validate the document.
LeaseEnds ==
  \A q \in Query : (result[q].owner # Nobody /\ result[q].live)
                     ~> (result[q].owner = Nobody \/ ~result[q].live)

=============================================================================
