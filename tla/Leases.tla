------------------------------- MODULE Leases -------------------------------
(***************************************************************************)
(* Ownership of documents in the distributed mode: several runtimes share  *)
(* a PostgreSQL row per document (colab/db.py) and a directory of finished *)
(* PDFs, and claim, renew, publish and release documents under leases with *)
(* fencing tokens (colab/distributed_coordinator.py).  A transaction, a    *)
(* file operation, and the arrival of a reply that sets a local deadline   *)
(* are one step each.  Time passes in ticks: a lease is the number of      *)
(* ticks it has left, and a runtime's deadline the number of ticks for     *)
(* which ensure_owner still lets it work.                                  *)
(*                                                                         *)
(* Left out: search pages, validation leases and host limits (tables of    *)
(* their own), byte counts, metrics, and the telemetry fields of a row.    *)
(***************************************************************************)
EXTENDS Integers, FiniteSets

CONSTANTS Document, Runtime,
          Nobody,        \* claimed_by IS NULL
          Lease,         \* lease_seconds, in ticks
          Margin,        \* the seconds by which the local deadline is earlier
          MaxDelay,      \* bound: how long the reply of a commit travels
          MaxAttempts,   \* the document_attempt at which a document is given up
          MaxTroubles    \* bound: deferred turns, database failures and crashes

ASSUME LeaseAssumption ==
  /\ Runtime # {} /\ Nobody \notin Runtime
  /\ MaxDelay \in Nat /\ Margin \in Nat /\ Lease \in Nat
  /\ MaxDelay <= Margin /\ Margin < Lease
  /\ MaxAttempts \in Nat \ {0} /\ MaxTroubles \in Nat

VARIABLES
  row,       \* table documents
  objects,   \* <<document, token>> of the PDFs in the shared directory
  job,       \* what each runtime does with each document: execute and publish
  beat,      \* the renewal whose reply the heartbeat thread waits for
  up,        \* coordination_ok
  reached,   \* the target of the query is reached
  troubles   \* troubles so far

vars == <<row, objects, job, beat, up, reached, troubles>>

\* OPEN stands for READY, CLAIMED, DOWNLOADING, RECOVERY_READY,
\* FAST_HANDOFF_READY and RATE_LIMIT_WAIT, which no decision tells apart.
Statuses == {"OPEN", "COMPLETED", "PERMANENTLY_FAILED"}
Row == [status : Statuses, owner : Runtime \cup {Nobody}, token : Nat, left : 0..Lease,
        attempt : 0..MaxAttempts,
        wait : BOOLEAN,     \* not_before lies in the future
        by : Nat]           \* storage_location: the token in the object's key

Steps == {"idle", "look", "check", "missing", "claim", "reply",
          "transfer", "publish", "verify", "commit", "committed", "settle"}
Active == {"transfer", "publish", "verify", "commit", "committed", "settle"}
Job == [step : Steps, token : Nat, local : 0..Lease, lost : BOOLEAN,
        age : 0..MaxDelay, seen : Nat, refund : BOOLEAN]
NoJob == [step |-> "idle", token |-> 0, local |-> 0, lost |-> FALSE,
          age |-> 0, seen |-> 0, refund |-> FALSE]
Beat == [token : Nat, age : 0..MaxDelay]
NoBeat == [token |-> 0, age |-> 0]

Turn(r, d) == job[<<r, d>>]
Becomes(r, d, turn) == job' = [job EXCEPT ![<<r, d>>] = turn]
Updates(d, new) == row' = [row EXCEPT ![d] = new]

Settled(d) == row[d].status # "OPEN"
Expired(d) == row[d].left = 0
Free(d) == row[d].owner = Nobody \/ Expired(d)
\* The WHERE clause of renew and finish.
Fenced(r, d) == /\ row[d].owner = r /\ row[d].token = Turn(r, d).token
                /\ ~Expired(d)
\* ensure_owner
Believes(r, d) == ~Turn(r, d).lost /\ Turn(r, d).local > 0

At(r, d, step) == Turn(r, d).step = step
Goes(r, d, step) == Becomes(r, d, [Turn(r, d) EXCEPT !.step = step])
Stops(r, d) == Becomes(r, d, NoJob)
Fails(r, d) == Becomes(r, d, [Turn(r, d) EXCEPT !.step = "settle", !.refund = FALSE])

-----------------------------------------------------------------------------
(* execute: up to the claim                                                *)

Begin(r, d) ==
  /\ At(r, d, "idle") /\ up[r]
  /\ Goes(r, d, "look")
  /\ UNCHANGED <<row, objects, beat, up, reached, troubles>>

Look(r, d) ==
  /\ At(r, d, "look")
  /\ \/ row[d].status = "PERMANENTLY_FAILED" /\ Stops(r, d)
     \/ /\ row[d].status = "COMPLETED"
        /\ Becomes(r, d, [Turn(r, d) EXCEPT !.step = "check", !.seen = row[d].by])
     \/ row[d].status = "OPEN" /\ Goes(r, d, "claim")
  /\ UNCHANGED <<row, objects, beat, up, reached, troubles>>

\* A completed document is copied from the shared directory.
Check(r, d) ==
  /\ At(r, d, "check")
  /\ IF <<d, Turn(r, d).seen>> \in objects THEN Stops(r, d) ELSE Goes(r, d, "missing")
  /\ UNCHANGED <<row, objects, beat, up, reached, troubles>>

\* Mutant of Invalidate: whatever the row points at now is taken for missing.
Invalidate_Unkeyed(r, d) ==
  /\ At(r, d, "missing")
  /\ IF row[d].owner = Nobody /\ row[d].by # 0
     THEN Updates(d, [row[d] EXCEPT !.status = "OPEN", !.by = 0]) ELSE UNCHANGED row
  /\ Goes(r, d, "claim")
  /\ UNCHANGED <<objects, beat, up, reached, troubles>>

\* invalidate_missing: only the object that was seen to be missing.
Invalidate(r, d) ==
  /\ At(r, d, "missing")
  /\ IF row[d].owner = Nobody /\ row[d].by = Turn(r, d).seen
     THEN Updates(d, [row[d] EXCEPT !.status = "OPEN", !.by = 0]) ELSE UNCHANGED row
  /\ Goes(r, d, "claim")
  /\ UNCHANGED <<objects, beat, up, reached, troubles>>

Claimable(d) == /\ ~reached /\ row[d].status = "OPEN" /\ row[d].attempt < MaxAttempts
                /\ ~row[d].wait /\ Free(d)

Claimed(r, d) == [row[d] EXCEPT !.owner = r, !.token = row[d].token + 1, !.left = Lease,
                                !.attempt = row[d].attempt + 1]
Takes(r, d) == Becomes(r, d, [Turn(r, d) EXCEPT !.step = "reply", !.token = row[d].token + 1])

\* Mutant of Claim: an expired lease is never taken over.
Claim_NoTakeover(r, d) ==
  /\ At(r, d, "claim")
  /\ IF Claimable(d) /\ row[d].owner = Nobody
     THEN Updates(d, Claimed(r, d)) /\ Takes(r, d)
     ELSE Stops(r, d) /\ UNCHANGED row
  /\ UNCHANGED <<objects, beat, up, reached, troubles>>
\* One conditional UPDATE: it charges an attempt and raises the token.
Claim(r, d) ==
  /\ At(r, d, "claim")
  /\ IF Claimable(d)
     THEN Updates(d, Claimed(r, d)) /\ Takes(r, d)
     ELSE Stops(r, d) /\ UNCHANGED row
  /\ UNCHANGED <<objects, beat, up, reached, troubles>>

\* Mutant of Granted: the deadline is not earlier than the lease.
Granted_NoMargin(r, d) ==
  /\ At(r, d, "reply")
  /\ Becomes(r, d, [Turn(r, d) EXCEPT !.step = "transfer", !.local = Lease, !.age = 0])
  /\ UNCHANGED <<row, objects, beat, up, reached, troubles>>

\* The local deadline counts from the reply, not from the transaction.
Granted(r, d) ==
  /\ At(r, d, "reply")
  /\ Becomes(r, d, [Turn(r, d) EXCEPT !.step = "transfer", !.local = Lease - Margin, !.age = 0])
  /\ UNCHANGED <<row, objects, beat, up, reached, troubles>>

\* A database error anywhere before the reply: no request is admitted, and a
\* claim that was made runs out.
Withdraw(r, d) ==
  /\ Turn(r, d).step \in {"look", "check", "missing", "claim", "reply"}
  /\ troubles < MaxTroubles /\ troubles' = troubles + 1
  /\ Stops(r, d)
  /\ UNCHANGED <<row, objects, beat, up, reached>>

-----------------------------------------------------------------------------
(* The transfer, publish, and the finally of execute                       *)

\* Every request and every chunk asks ensure_owner.
Fetch(r, d) ==
  /\ At(r, d, "transfer") /\ Believes(r, d)
  /\ Goes(r, d, "publish")
  /\ UNCHANGED <<row, objects, beat, up, reached, troubles>>

TransferFails(r, d) == At(r, d, "transfer") /\ Fails(r, d)
                       /\ UNCHANGED <<row, objects, beat, up, reached, troubles>>

\* A route cooldown or a 429 ends the turn; the attempt will be refunded.
Defer(r, d) ==
  /\ At(r, d, "transfer")
  /\ troubles < MaxTroubles /\ troubles' = troubles + 1
  /\ Becomes(r, d, [Turn(r, d) EXCEPT !.step = "settle", !.refund = TRUE])
  /\ UNCHANGED <<row, objects, beat, up, reached>>

\* The object's key holds the token, so that owners never share a file.
Upload(r, d) ==
  /\ At(r, d, "publish")
  /\ \/ /\ Believes(r, d)
        /\ objects' = objects \cup {<<d, Turn(r, d).token>>} /\ Goes(r, d, "verify")
     \/ Fails(r, d) /\ UNCHANGED objects
  /\ UNCHANGED <<row, beat, up, reached, troubles>>

Verify(r, d) ==
  /\ At(r, d, "verify")
  /\ IF <<d, Turn(r, d).token>> \in objects /\ Believes(r, d)
     THEN Goes(r, d, "commit") ELSE Fails(r, d)
  /\ UNCHANGED <<row, objects, beat, up, reached, troubles>>

\* finish with a key; a stale owner is told so.
Commit(r, d) ==
  /\ At(r, d, "commit")
  /\ IF Fenced(r, d)
     THEN /\ Updates(d, [row[d] EXCEPT !.status = "COMPLETED", !.by = Turn(r, d).token,
                                       !.owner = Nobody, !.left = 0, !.wait = FALSE])
          /\ Goes(r, d, "committed")
     ELSE Fails(r, d) /\ UNCHANGED row
  /\ UNCHANGED <<objects, beat, up, reached, troubles>>

\* The turn is over, or the reply of the commit is lost and the turn is taken
\* for a failed one.
Committed(r, d) ==
  /\ At(r, d, "committed")
  /\ Stops(r, d) \/ Fails(r, d)
  /\ UNCHANGED <<row, objects, beat, up, reached, troubles>>

Released(d, refund) ==
  [row[d] EXCEPT !.status = IF row[d].attempt >= MaxAttempts /\ ~refund
                            THEN "PERMANENTLY_FAILED" ELSE "OPEN",
                 !.attempt = IF refund THEN row[d].attempt - 1 ELSE row[d].attempt,
                 !.owner = Nobody, !.left = 0, !.wait = TRUE]

\* finish without a key, or an error of the database: then the lease runs out.
Settle(r, d) ==
  /\ At(r, d, "settle")
  /\ \/ Fenced(r, d) /\ Updates(d, Released(d, Turn(r, d).refund))
     \/ UNCHANGED row
  /\ Stops(r, d)
  /\ UNCHANGED <<objects, beat, up, reached, troubles>>

-----------------------------------------------------------------------------
(* The heartbeat thread                                                    *)

Renew(r, d) ==
  /\ Turn(r, d).step \in Active /\ \A e \in Document : beat[<<r, e>>] = NoBeat
  /\ IF Fenced(r, d)
     THEN /\ Updates(d, [row[d] EXCEPT !.left = Lease])
          /\ beat' = [beat EXCEPT ![<<r, d>>] = [token |-> Turn(r, d).token, age |-> 0]]
          /\ UNCHANGED job
     ELSE /\ Becomes(r, d, [Turn(r, d) EXCEPT !.lost = TRUE])
          /\ UNCHANGED <<row, beat>>
  /\ UNCHANGED <<objects, up, reached, troubles>>

\* The reply moves the deadline of the claim it was made for, if it is alive.
Renewed(r, d) ==
  /\ beat[<<r, d>>] # NoBeat
  /\ beat' = [beat EXCEPT ![<<r, d>>] = NoBeat]
  /\ IF Turn(r, d).step \in Active /\ Turn(r, d).token = beat[<<r, d>>].token
     THEN Becomes(r, d, [Turn(r, d) EXCEPT !.local = Lease - Margin]) ELSE UNCHANGED job
  /\ UNCHANGED <<row, objects, up, reached, troubles>>

\* An exception of any database call: every owner is told that it lost.
HeartbeatFails(r) ==
  /\ troubles < MaxTroubles /\ troubles' = troubles + 1
  /\ up' = [up EXCEPT ![r] = FALSE]
  /\ beat' = [p \in DOMAIN beat |-> IF p[1] = r THEN NoBeat ELSE beat[p]]
  /\ job' = [p \in DOMAIN job |-> IF p[1] = r /\ job[p].step \in Active
                                  THEN [job[p] EXCEPT !.lost = TRUE] ELSE job[p]]
  /\ UNCHANGED <<row, objects, reached>>

\* recovery: who used up the attempts and has no live owner is given up.
Exhausted(d) == row[d].attempt >= MaxAttempts /\ row[d].status # "COMPLETED" /\ Free(d)

\* Mutant of Sweep: the owner's lease is not looked at.
Sweep_Hasty(r) ==
  /\ \A d \in Document : beat[<<r, d>>] = NoBeat
  /\ row' = [d \in Document |->
       IF row[d].attempt >= MaxAttempts /\ row[d].status # "COMPLETED"
       THEN [row[d] EXCEPT !.status = "PERMANENTLY_FAILED", !.owner = Nobody, !.left = 0]
       ELSE row[d]]
  /\ up' = [up EXCEPT ![r] = TRUE]
  /\ UNCHANGED <<objects, job, beat, reached, troubles>>

\* The end of a heartbeat, with the recovery poll.
Sweep(r) ==
  /\ \A d \in Document : beat[<<r, d>>] = NoBeat
  /\ row' = [d \in Document |->
       IF Exhausted(d)
       THEN [row[d] EXCEPT !.status = "PERMANENTLY_FAILED", !.owner = Nobody, !.left = 0]
       ELSE row[d]]
  /\ up' = [up EXCEPT ![r] = TRUE]
  /\ UNCHANGED <<objects, job, beat, reached, troubles>>

-----------------------------------------------------------------------------
(* The environment                                                         *)

Less(n) == IF n = 0 THEN 0 ELSE n - 1

\* Time passes; no reply travels longer than MaxDelay.
Tick ==
  /\ \A p \in DOMAIN job : job[p].step = "reply" => job[p].age < MaxDelay
  /\ \A p \in DOMAIN beat : beat[p] # NoBeat => beat[p].age < MaxDelay
  /\ row' = [d \in Document |-> [row[d] EXCEPT !.left = Less(@), !.wait = FALSE]]
  /\ job' = [p \in DOMAIN job |->
       [job[p] EXCEPT !.local = Less(@), !.age = IF job[p].step = "reply" THEN @ + 1 ELSE @]]
  /\ beat' = [p \in DOMAIN beat |->
       IF beat[p] = NoBeat THEN NoBeat ELSE [beat[p] EXCEPT !.age = @ + 1]]
  /\ UNCHANGED <<objects, up, reached, troubles>>

\* A shared file disappears or is damaged.
Lose(o) ==
  /\ objects' = objects \ {o}
  /\ UNCHANGED <<row, job, beat, up, reached, troubles>>

\* Enough results of the query were approved.
ReachTarget ==
  /\ ~reached /\ reached' = TRUE
  /\ UNCHANGED <<row, objects, job, beat, up, troubles>>

\* A runtime dies and another takes its place, with an instance id of its own:
\* nobody has the tokens of the dead one.
Crash(r) ==
  /\ troubles < MaxTroubles /\ troubles' = troubles + 1
  /\ job' = [p \in DOMAIN job |-> IF p[1] = r THEN NoJob ELSE job[p]]
  /\ beat' = [p \in DOMAIN beat |-> IF p[1] = r THEN NoBeat ELSE beat[p]]
  /\ up' = [up EXCEPT ![r] = TRUE]
  /\ UNCHANGED <<row, objects, reached>>

-----------------------------------------------------------------------------
Init ==
  /\ row = [d \in Document |-> [status |-> "OPEN", owner |-> Nobody, token |-> 0, left |-> 0,
                                attempt |-> 0, wait |-> FALSE, by |-> 0]]
  /\ objects = {}
  /\ job = [p \in Runtime \X Document |-> NoJob]
  /\ beat = [p \in Runtime \X Document |-> NoBeat]
  /\ up = [r \in Runtime |-> TRUE] /\ reached = FALSE /\ troubles = 0

Transfer(r, d) == Fetch(r, d) \/ TransferFails(r, d) \/ Defer(r, d)
JobStep(r, d) ==
  \/ Look(r, d) \/ Check(r, d) \/ Invalidate(r, d) \/ Claim(r, d) \/ Granted(r, d)
  \/ Transfer(r, d) \/ Upload(r, d) \/ Verify(r, d) \/ Commit(r, d) \/ Committed(r, d)
  \/ Settle(r, d)

Next ==
  \/ \E r \in Runtime, d \in Document :
       Begin(r, d) \/ JobStep(r, d) \/ Withdraw(r, d) \/ Renew(r, d) \/ Renewed(r, d)
  \/ \E r \in Runtime : HeartbeatFails(r) \/ Sweep(r) \/ Crash(r)
  \/ Tick \/ \E o \in objects : Lose(o)
  \/ ReachTarget

\* Threads are scheduled, requests time out, the poll hands every document
\* that is not settled to the scheduler of each runtime, every round of a
\* heartbeat ends with its poll, and time passes.
Fairness ==
  /\ \A r \in Runtime, d \in Document :
       WF_vars(Begin(r, d) /\ ~Settled(d)) /\ WF_vars(JobStep(r, d)) /\ WF_vars(Renewed(r, d))
  /\ \A r \in Runtime : SF_vars(Sweep(r))
  /\ WF_vars(Tick)

Spec == Init /\ [][Next]_vars
FairSpec == Spec /\ Fairness

-----------------------------------------------------------------------------
(* Properties                                                              *)

\* Every variable keeps its shape; the attempts never pass their limit.
TypeOK ==
  /\ row \in [Document -> Row]
  /\ objects \subseteq Document \X Nat
  /\ job \in [Runtime \X Document -> Job]
  /\ beat \in [Runtime \X Document -> Beat]
  /\ up \in [Runtime -> BOOLEAN] /\ reached \in BOOLEAN
  /\ troubles \in 0..MaxTroubles

\* At most one runtime that ensure_owner still lets request, receive or upload:
\* whoever is taken over stops before the next owner starts, with renewals,
\* slow replies, failed heartbeats, releases and crashes in any order.
Working(r, d) == Turn(r, d).step \in {"transfer", "publish"} /\ Believes(r, d)
OneTransfer ==
  \A d \in Document, r, s \in Runtime : Working(r, d) /\ Working(s, d) => r = s

\* A completion whose object is there is not undone: not by a stale owner, not
\* by the poll, not by a runtime that saw an earlier object missing.
CompletionStands ==
  [][\A d \in Document :
       row[d].status = "COMPLETED" /\ <<d, row[d].by>> \in objects
         => row'[d].status = "COMPLETED"]_vars

\* A document is not given up while a runtime holds a live claim on it, except
\* by that runtime: the last attempt counts.
LastAttemptCounts ==
  [][\A d \in Document, r \in Runtime :
       /\ row[d].status = "OPEN" /\ row'[d].status = "PERMANENTLY_FAILED"
       /\ Turn(r, d).step # "idle" /\ Fenced(r, d)
       => At(r, d, "settle")]_vars

\* Expired leases, lost replies, stale releases and crashes give no attempt away:
\* a document is claimed once per attempt and once per deferred turn.
ClaimsBounded == \A d \in Document : row[d].token <= MaxAttempts + troubles

\* Every document ends up completed or given up, whoever crashes while it owns
\* it, unless the target is reached before.
EveryDocumentSettles == \A d \in Document : <>[](Settled(d) \/ reached)
=============================================================================
