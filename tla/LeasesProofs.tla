---------------------------- MODULE LeasesProofs ----------------------------
(***************************************************************************)
(* Proofs about Leases for every set of documents and runtimes, every      *)
(* lease, margin and delay that LeaseAssumption allows, and every limit.   *)
(***************************************************************************)
EXTENDS Leases, TLAPS

USE LeaseAssumption

Jobs == [Runtime \X Document -> Job]
Rows == [Document -> Row]

\* A row that has an owner was charged for it.
Charged == \A d \in Document : row[d].owner # Nobody => row[d].attempt >= 1

-----------------------------------------------------------------------------
(* Records, and the updates of one turn and of one row                     *)

LEMMA LessType == \A n \in 0..Lease : Less(n) \in 0..Lease
  BY DEF Less

LEMMA Apart == /\ \A r \in Runtime : r # Nobody
               /\ Lease - Margin \in 0..Lease /\ Lease \in 0..Lease /\ Lease > MaxDelay
               /\ 0 \in Nat /\ 0 \in 0..Lease /\ 0 \in 0..MaxDelay
  OBVIOUS

LEMMA NoneType == NoJob \in Job /\ NoBeat \in Beat
  BY DEF NoJob, Job, Steps, NoBeat, Beat

\* What a turn may turn into is a turn.
LEMMA JobType ==
  ASSUME NEW j \in Job, NEW st \in Steps, NEW l \in 0..Lease, NEW n \in Nat,
         NEW a \in 0..MaxDelay, NEW b \in BOOLEAN
  PROVE  /\ [j EXCEPT !.step = st] \in Job
         /\ [j EXCEPT !.step = st, !.refund = b] \in Job
         /\ [j EXCEPT !.step = st, !.seen = n] \in Job
         /\ [j EXCEPT !.step = st, !.token = n] \in Job
         /\ [j EXCEPT !.step = st, !.local = l, !.age = a] \in Job
         /\ [j EXCEPT !.local = l, !.age = a] \in Job
         /\ [j EXCEPT !.local = l] \in Job
         /\ [j EXCEPT !.lost = b] \in Job
  BY DEF Job

LEMMA RowType ==
  ASSUME NEW w \in Row, NEW s \in Statuses, NEW o \in Runtime \cup {Nobody}, NEW n \in Nat,
         NEW l \in 0..Lease, NEW a \in 0..MaxAttempts, NEW b \in BOOLEAN
  PROVE  /\ [w EXCEPT !.status = s, !.by = n] \in Row
         /\ [w EXCEPT !.owner = o, !.token = n, !.left = l, !.attempt = a] \in Row
         /\ [w EXCEPT !.status = s, !.by = n, !.owner = o, !.left = l, !.wait = b] \in Row
         /\ [w EXCEPT !.status = s, !.attempt = a, !.owner = o, !.left = l, !.wait = b] \in Row
         /\ [w EXCEPT !.status = s, !.owner = o, !.left = l] \in Row
         /\ [w EXCEPT !.left = l, !.wait = b] \in Row
         /\ [w EXCEPT !.left = l] \in Row
  BY DEF Row

LEMMA StepNames ==
  /\ \A st \in {"idle", "look", "check", "missing", "claim", "reply", "transfer", "publish",
                "verify", "commit", "committed", "settle"} : st \in Steps
  /\ \A s \in {"OPEN", "COMPLETED", "PERMANENTLY_FAILED"} : s \in Statuses
  BY DEF Steps, Statuses

LEMMA OneTurn ==
  ASSUME job \in Jobs, NEW r \in Runtime, NEW d \in Document, NEW t \in Job, Becomes(r, d, t)
  PROVE  /\ job' \in Jobs /\ Turn(r, d)' = t
         /\ \A s \in Runtime, e \in Document : s # r \/ e # d => Turn(s, e)' = Turn(s, e)
<1>1. job' = [job EXCEPT ![<<r, d>>] = t]
  BY DEF Becomes
<1>2. \A s \in Runtime, e \in Document :
        <<s, e>> \in Runtime \X Document /\ (s # r \/ e # d => <<s, e>> # <<r, d>>)
  OBVIOUS
<1> QED BY <1>1, <1>2 DEF Jobs, Turn

LEMMA OneRow ==
  ASSUME row \in Rows, NEW d \in Document, NEW w \in Row, Updates(d, w)
  PROVE  /\ row' \in Rows /\ row'[d] = w
         /\ \A e \in Document : e # d => row'[e] = row[e]
  BY DEF Updates, Rows

\* The turns that the steps of execute and publish lead to.
LEMMA NextTurn ==
  ASSUME job \in Jobs, NEW r \in Runtime, NEW d \in Document
  PROVE  /\ Turn(r, d) \in Job
         /\ \A st \in Steps : Goes(r, d, st) => job' \in Jobs
         /\ Stops(r, d) => job' \in Jobs
         /\ Fails(r, d) => job' \in Jobs
<1>1. Turn(r, d) \in Job
  BY DEF Turn, Jobs
<1>2. \A t \in Job : Becomes(r, d, t) => job' \in Jobs
  BY OneTurn
<1>3. \A st \in Steps : [Turn(r, d) EXCEPT !.step = st] \in Job
  BY <1>1, JobType, Apart
<1>4. [Turn(r, d) EXCEPT !.step = "settle", !.refund = FALSE] \in Job
  BY <1>1, JobType, Apart, StepNames
<1> QED BY <1>1, <1>2, <1>3, <1>4, NoneType, Zenon DEF Goes, Stops, Fails

-----------------------------------------------------------------------------
(* Types                                                                   *)

LEMMA TypeInit == Init => TypeOK /\ Charged
<1> SUFFICES ASSUME Init PROVE TypeOK /\ Charged
  OBVIOUS
<1>1. row \in [Document -> Row] /\ Charged
  BY DEF Init, Row, Statuses, Charged
<1>2. NoJob \in Job /\ NoBeat \in Beat
  BY NoneType
<1>3. job \in [Runtime \X Document -> Job] /\ beat \in [Runtime \X Document -> Beat]
  BY <1>2 DEF Init
<1>4. /\ objects \subseteq Document \X Nat /\ up \in [Runtime -> BOOLEAN]
      /\ reached \in BOOLEAN /\ troubles \in 0..MaxTroubles
  <2>1. objects = {} /\ up = [r \in Runtime |-> TRUE] /\ reached = FALSE /\ troubles = 0
    BY Zenon DEF Init
  <2>2. [r \in Runtime |-> TRUE] \in [Runtime -> BOOLEAN]
    OBVIOUS
  <2>3. 0 \in 0..MaxTroubles /\ {} \subseteq Document \X Nat /\ FALSE \in BOOLEAN
    OBVIOUS
  <2> QED BY <2>1, <2>2, <2>3, Zenon
<1> QED BY <1>1, <1>3, <1>4, Zenon DEF TypeOK

LEMMA TypeStep == TypeOK /\ Charged /\ [Next]_vars => TypeOK' /\ Charged'
<1> SUFFICES ASSUME TypeOK, Charged, [Next]_vars PROVE TypeOK' /\ Charged'
  OBVIOUS
<1>1. /\ row \in Rows /\ objects \subseteq Document \X Nat /\ job \in Jobs
      /\ beat \in [Runtime \X Document -> Beat]
      /\ up \in [Runtime -> BOOLEAN] /\ reached \in BOOLEAN /\ troubles \in 0..MaxTroubles
  BY DEF TypeOK, Rows, Jobs
<1>2. UNCHANGED row => row' \in Rows /\ Charged'
  BY <1>1 DEF Charged
<1>3. ASSUME job' \in Jobs, row' \in Rows /\ Charged', objects' \subseteq Document \X Nat,
             beat' \in [Runtime \X Document -> Beat], up' \in [Runtime -> BOOLEAN],
             reached' \in BOOLEAN, troubles' \in 0..MaxTroubles
      PROVE  TypeOK' /\ Charged'
  BY <1>3 DEF TypeOK, Rows, Jobs
<1>4. ASSUME NEW d \in Document, NEW w \in Row, Updates(d, w),
             w.owner # Nobody => w.attempt >= 1
      PROVE  row' \in Rows /\ Charged'
  BY <1>4, <1>1, OneRow DEF Charged
<1>5. \A d \in Document :
        /\ row[d] \in Row /\ row[d].token \in Nat /\ row[d].by \in Nat
        /\ row[d].attempt \in 0..MaxAttempts /\ row[d].left \in 0..Lease
  BY <1>1 DEF Row, Rows
<1>6. \A r \in Runtime, d \in Document :
        /\ Turn(r, d) \in Job /\ Turn(r, d).token \in Nat /\ Turn(r, d).refund \in BOOLEAN
        /\ \A t \in Job : Becomes(r, d, t) => job' \in Jobs
  <2> TAKE r \in Runtime, d \in Document
  <2>1. Turn(r, d) \in Job
    BY <1>1, NextTurn
  <2>2. Turn(r, d).token \in Nat /\ Turn(r, d).refund \in BOOLEAN
    BY <2>1 DEF Job
  <2> QED BY <2>1, <2>2, <1>1, OneTurn
<1>7. ASSUME NEW r \in Runtime, NEW d \in Document,
             Begin(r, d) \/ JobStep(r, d) \/ Withdraw(r, d) \/ Renew(r, d) \/ Renewed(r, d)
      PROVE  TypeOK' /\ Charged'
  <2>0. /\ \A st \in Steps : Goes(r, d, st) => job' \in Jobs
        /\ Stops(r, d) => job' \in Jobs
        /\ Fails(r, d) => job' \in Jobs
    BY <1>1, NextTurn
  <2>1. CASE Begin(r, d)
    BY <2>1, <2>0, <1>1, <1>2, <1>3, StepNames DEF Begin
  <2>2. CASE Look(r, d)
    <3>1. [Turn(r, d) EXCEPT !.step = "check", !.seen = row[d].by] \in Job
      BY <1>5, <1>6, JobType, StepNames, Apart
    <3>2. job' \in Jobs
      BY <2>2, <3>1, <2>0, <1>6, StepNames DEF Look
    <3> QED BY <2>2, <3>2, <1>1, <1>2, <1>3 DEF Look
  <2>3. CASE Check(r, d)
    BY <2>3, <2>0, <1>1, <1>2, <1>3, StepNames DEF Check
  <2>4. CASE Invalidate(r, d)
    <3>1. job' \in Jobs
      BY <2>4, <2>0, StepNames DEF Invalidate
    <3>2. row' \in Rows /\ Charged'
      <4>1. CASE row[d].owner = Nobody /\ row[d].by = Turn(r, d).seen
        <5>1. [row[d] EXCEPT !.status = "OPEN", !.by = 0] \in Row
          BY <1>5, RowType, StepNames, Apart
        <5>2. [row[d] EXCEPT !.status = "OPEN", !.by = 0].owner = Nobody
          BY <4>1, <1>5 DEF Row
        <5> QED BY <2>4, <4>1, <5>1, <5>2, <1>4 DEF Invalidate
      <4>2. CASE ~(row[d].owner = Nobody /\ row[d].by = Turn(r, d).seen)
        BY <2>4, <4>2, <1>2 DEF Invalidate
      <4> QED BY <4>1, <4>2
    <3> QED BY <2>4, <3>1, <3>2, <1>1, <1>3 DEF Invalidate
  <2>5. CASE Claim(r, d)
    <3>1. CASE Claimable(d)
      <4>1. /\ row[d].token + 1 \in Nat /\ row[d].attempt + 1 \in 1..MaxAttempts
            /\ row[d].attempt + 1 \in 0..MaxAttempts
        BY <3>1, <1>5 DEF Claimable
      <4>2. Claimed(r, d) \in Row
        BY <4>1, <1>5, RowType, StepNames, Apart DEF Claimed
      <4>3. Claimed(r, d).attempt >= 1
        BY <4>1, <1>5 DEF Claimed, Row
      <4>4. [Turn(r, d) EXCEPT !.step = "reply", !.token = row[d].token + 1] \in Job
        BY <4>1, <1>6, JobType, StepNames, Apart
      <4>5. job' \in Jobs
        BY <2>5, <3>1, <4>4, <1>6 DEF Claim, Takes
      <4>6. row' \in Rows /\ Charged'
        BY <2>5, <3>1, <4>2, <4>3, <1>4 DEF Claim
      <4> QED BY <2>5, <4>5, <4>6, <1>1, <1>3 DEF Claim
    <3>2. CASE ~Claimable(d)
      BY <2>5, <3>2, <2>0, <1>1, <1>2, <1>3 DEF Claim
    <3> QED BY <3>1, <3>2
  <2>6. CASE Granted(r, d)
    <3>1. [Turn(r, d) EXCEPT !.step = "transfer", !.local = Lease - Margin, !.age = 0] \in Job
      BY <1>6, JobType, StepNames, Apart
    <3> QED BY <2>6, <3>1, <1>1, <1>2, <1>3, <1>6 DEF Granted
  <2>7. CASE Fetch(r, d)
    BY <2>7, <2>0, <1>1, <1>2, <1>3, StepNames DEF Fetch
  <2>8. CASE TransferFails(r, d)
    BY <2>8, <2>0, <1>1, <1>2, <1>3 DEF TransferFails
  <2>9. CASE Defer(r, d)
    <3>1. [Turn(r, d) EXCEPT !.step = "settle", !.refund = TRUE] \in Job
      BY <1>6, JobType, StepNames, Apart
    <3>2. troubles' \in 0..MaxTroubles
      BY <2>9, <1>1 DEF Defer
    <3> QED BY <2>9, <3>1, <3>2, <1>1, <1>2, <1>3, <1>6 DEF Defer
  <2>10. CASE Upload(r, d)
    <3>1. job' \in Jobs
      BY <2>10, <2>0, StepNames DEF Upload
    <3>2. objects' \subseteq Document \X Nat
      BY <2>10, <1>1, <1>6 DEF Upload
    <3> QED BY <2>10, <3>1, <3>2, <1>1, <1>2, <1>3 DEF Upload
  <2>11. CASE Verify(r, d)
    BY <2>11, <2>0, <1>1, <1>2, <1>3, StepNames DEF Verify
  <2>12. CASE Commit(r, d)
    <3> DEFINE done == [row[d] EXCEPT !.status = "COMPLETED", !.by = Turn(r, d).token,
                                      !.owner = Nobody, !.left = 0, !.wait = FALSE]
    <3>1. done \in Row
      BY <1>5, <1>6, RowType, StepNames, Apart
    <3>2. done.owner = Nobody
      BY <1>5 DEF Row
    <3>3. CASE Fenced(r, d)
      <4>1. row' \in Rows /\ Charged'
        BY <2>12, <3>1, <3>2, <3>3, <1>4 DEF Commit
      <4>2. job' \in Jobs
        BY <2>12, <3>3, <2>0, StepNames DEF Commit
      <4> QED BY <2>12, <4>1, <4>2, <1>1, <1>3 DEF Commit
    <3>4. CASE ~Fenced(r, d)
      BY <2>12, <3>4, <2>0, <1>1, <1>2, <1>3 DEF Commit
    <3> QED BY <3>3, <3>4
  <2>13. CASE Committed(r, d)
    BY <2>13, <2>0, <1>1, <1>2, <1>3 DEF Committed
  <2>14. CASE Settle(r, d)
    <3>1. CASE Fenced(r, d) /\ Updates(d, Released(d, Turn(r, d).refund))
      <4>1. row[d].attempt >= 1
        BY <3>1, Apart DEF Fenced, Charged
      <4>2. ASSUME NEW s \in Statuses, NEW a \in 0..MaxAttempts
            PROVE  /\ [row[d] EXCEPT !.status = s, !.attempt = a, !.owner = Nobody, !.left = 0,
                                     !.wait = TRUE] \in Row
                   /\ [row[d] EXCEPT !.status = s, !.attempt = a, !.owner = Nobody, !.left = 0,
                                     !.wait = TRUE].owner = Nobody
        <5>1. [row[d] EXCEPT !.status = s, !.attempt = a, !.owner = Nobody, !.left = 0,
                             !.wait = TRUE] \in Row
          BY <4>2, <1>5, RowType, Apart
        <5> QED BY <5>1, <1>5 DEF Row
      <4>3. ASSUME NEW refund \in BOOLEAN
            PROVE  /\ (IF row[d].attempt >= MaxAttempts /\ ~refund
                       THEN "PERMANENTLY_FAILED" ELSE "OPEN") \in Statuses
                   /\ (IF refund THEN row[d].attempt - 1 ELSE row[d].attempt) \in 0..MaxAttempts
        BY <4>1, <4>3, <1>5, StepNames
      <4>4. \A refund \in BOOLEAN :
              Released(d, refund) \in Row /\ Released(d, refund).owner = Nobody
        BY <4>2, <4>3, Zenon DEF Released
      <4>5. row' \in Rows /\ Charged'
        BY <3>1, <4>4, <1>4, <1>6
      <4> QED BY <2>14, <4>5, <2>0, <1>1, <1>3 DEF Settle
    <3>2. CASE UNCHANGED row
      BY <2>14, <3>2, <2>0, <1>1, <1>2, <1>3 DEF Settle
    <3> QED BY <2>14, <3>1, <3>2 DEF Settle
  <2>15. CASE Withdraw(r, d)
    <3>1. troubles' \in 0..MaxTroubles
      BY <2>15, <1>1 DEF Withdraw
    <3> QED BY <2>15, <3>1, <2>0, <1>1, <1>2, <1>3 DEF Withdraw
  <2>16. CASE Renew(r, d)
    <3>1. CASE Fenced(r, d)
      <4>1. [row[d] EXCEPT !.left = Lease] \in Row
        BY <1>5, RowType, StepNames, Apart
      <4>2. [row[d] EXCEPT !.left = Lease].owner # Nobody
              => [row[d] EXCEPT !.left = Lease].attempt >= 1
        BY <1>5 DEF Row, Charged
      <4>3. row' \in Rows /\ Charged'
        BY <2>16, <3>1, <4>1, <4>2, <1>4 DEF Renew
      <4>4. beat' \in [Runtime \X Document -> Beat]
        <5>1. [token |-> Turn(r, d).token, age |-> 0] \in Beat
          BY <1>6, Apart DEF Beat
        <5> QED BY <2>16, <3>1, <5>1, <1>1 DEF Renew
      <4> QED BY <2>16, <3>1, <4>3, <4>4, <1>1, <1>3 DEF Renew
    <3>2. CASE ~Fenced(r, d)
      <4>1. [Turn(r, d) EXCEPT !.lost = TRUE] \in Job
        BY <1>6, JobType, StepNames, Apart
      <4> QED BY <2>16, <3>2, <4>1, <1>1, <1>2, <1>3, <1>6 DEF Renew
    <3> QED BY <3>1, <3>2
  <2>17. CASE Renewed(r, d)
    <3>1. [Turn(r, d) EXCEPT !.local = Lease - Margin] \in Job
      BY <1>6, JobType, StepNames, Apart
    <3>2. job' \in Jobs
      BY <2>17, <3>1, <1>1, <1>6 DEF Renewed
    <3>3. beat' \in [Runtime \X Document -> Beat]
      BY <2>17, <1>1, NoneType DEF Renewed
    <3> QED BY <2>17, <3>2, <3>3, <1>1, <1>2, <1>3 DEF Renewed
  <2> QED BY <1>7, <2>1, <2>2, <2>3, <2>4, <2>5, <2>6, <2>7, <2>8, <2>9, <2>10, <2>11, <2>12,
             <2>13, <2>14, <2>15, <2>16, <2>17 DEF JobStep, Transfer
<1>8. ASSUME NEW r \in Runtime, HeartbeatFails(r) PROVE TypeOK' /\ Charged'
  <2>1. job' \in Jobs
    BY <1>8, <1>1, JobType, StepNames, Apart DEF HeartbeatFails, Jobs
  <2>2. beat' \in [Runtime \X Document -> Beat]
    BY <1>8, <1>1, NoneType DEF HeartbeatFails
  <2>3. troubles' \in 0..MaxTroubles
    BY <1>8, <1>1 DEF HeartbeatFails
  <2> QED BY <1>8, <2>1, <2>2, <2>3, <1>1, <1>2, <1>3 DEF HeartbeatFails
<1>9. ASSUME NEW r \in Runtime, Sweep(r) PROVE TypeOK' /\ Charged'
  <2>1. ASSUME NEW d \in Document
        PROVE  /\ [row[d] EXCEPT !.status = "PERMANENTLY_FAILED", !.owner = Nobody, !.left = 0]
                    \in Row
               /\ [row[d] EXCEPT !.status = "PERMANENTLY_FAILED", !.owner = Nobody, !.left = 0]
                    .owner = Nobody
    <3>1. [row[d] EXCEPT !.status = "PERMANENTLY_FAILED", !.owner = Nobody, !.left = 0] \in Row
      BY <1>5, RowType, StepNames, Apart
    <3> QED BY <3>1, <1>5 DEF Row
  <2>2. row' \in Rows
    BY <1>9, <2>1, <1>5 DEF Sweep, Rows
  <2>3. Charged'
    BY <1>9, <2>1 DEF Sweep, Charged
  <2> QED BY <1>9, <2>2, <2>3, <1>1, <1>3 DEF Sweep
<1>10. ASSUME NEW r \in Runtime, Crash(r) PROVE TypeOK' /\ Charged'
  <2>1. job' \in Jobs
    BY <1>10, <1>1, NoneType DEF Crash, Jobs
  <2>2. beat' \in [Runtime \X Document -> Beat]
    BY <1>10, <1>1, NoneType DEF Crash
  <2>3. troubles' \in 0..MaxTroubles
    BY <1>10, <1>1 DEF Crash
  <2> QED BY <1>10, <2>1, <2>2, <2>3, <1>1, <1>2, <1>3 DEF Crash
<1>11. ASSUME Tick PROVE TypeOK' /\ Charged'
  <2>1. ASSUME NEW d \in Document
        PROVE  /\ row'[d] \in Row
               /\ row'[d].owner = row[d].owner /\ row'[d].attempt = row[d].attempt
    <3>1. row'[d] = [row[d] EXCEPT !.left = Less(row[d].left), !.wait = FALSE]
      BY <1>11 DEF Tick
    <3>2. Less(row[d].left) \in 0..Lease
      BY <1>5, LessType
    <3>3. \A l \in 0..Lease, b \in BOOLEAN :
            /\ [row[d] EXCEPT !.left = l, !.wait = b] \in Row
            /\ [row[d] EXCEPT !.left = l, !.wait = b].owner = row[d].owner
            /\ [row[d] EXCEPT !.left = l, !.wait = b].attempt = row[d].attempt
      BY <1>5 DEF Row
    <3> QED BY <3>1, <3>2, <3>3, Zenon
  <2>2. row' \in Rows
    BY <1>11, <2>1 DEF Tick, Rows
  <2>3. Charged'
    BY <1>11, <2>1 DEF Charged
  <2>4. ASSUME NEW p \in Runtime \X Document PROVE job'[p] \in Job
    <3> DEFINE a == IF job[p].step = "reply" THEN job[p].age + 1 ELSE job[p].age
    <3>0. job[p] \in Job
      BY <1>1 DEF Jobs
    <3>1. job'[p] = [job[p] EXCEPT !.local = Less(job[p].local), !.age = a]
      BY <1>11, <1>1 DEF Tick, Jobs
    <3>2. a \in 0..MaxDelay
      <4>1. DOMAIN job = Runtime \X Document
        BY <1>1 DEF Jobs
      <4>2. job[p].step = "reply" => job[p].age < MaxDelay
        BY <1>11, <4>1 DEF Tick
      <4> QED BY <4>2, <3>0 DEF Job
    <3>3. Less(job[p].local) \in 0..Lease
      BY <3>0, LessType DEF Job
    <3>4. \A l \in 0..Lease, n \in 0..MaxDelay : [job[p] EXCEPT !.local = l, !.age = n] \in Job
      BY <3>0 DEF Job
    <3> HIDE DEF a
    <3> QED BY <3>1, <3>2, <3>3, <3>4, Zenon
  <2>5. job' \in Jobs
    BY <1>11, <1>1, <2>4 DEF Tick, Jobs
  <2>6. ASSUME NEW p \in Runtime \X Document PROVE beat'[p] \in Beat
    <3>1. CASE beat[p] = NoBeat
      BY <3>1, <1>11, <1>1, NoneType DEF Tick
    <3>2. CASE beat[p] # NoBeat
      <4>1. beat[p] \in Beat /\ beat[p].age + 1 \in 0..MaxDelay
        <5>1. DOMAIN beat = Runtime \X Document /\ beat[p] \in Beat
          BY <1>1
        <5>2. beat[p].age < MaxDelay
          BY <3>2, <1>11, <5>1 DEF Tick
        <5> QED BY <5>1, <5>2 DEF Beat
      <4>2. beat'[p] = [beat[p] EXCEPT !.age = beat[p].age + 1]
        BY <3>2, <1>11, <1>1 DEF Tick
      <4> QED BY <4>1, <4>2 DEF Beat
    <3> QED BY <3>1, <3>2
  <2>7. beat' \in [Runtime \X Document -> Beat]
    BY <1>11, <1>1, <2>6 DEF Tick
  <2> QED BY <1>11, <2>2, <2>3, <2>5, <2>7, <1>1, <1>3 DEF Tick
<1>12. ASSUME NEW o \in objects, Lose(o) PROVE TypeOK' /\ Charged'
  BY <1>12, <1>1, <1>2, <1>3 DEF Lose
<1>13. CASE ReachTarget
  BY <1>13, <1>1, <1>2, <1>3 DEF ReachTarget
<1>14. CASE UNCHANGED vars
  BY <1>14, <1>1, <1>2, <1>3 DEF vars
<1> QED BY <1>7, <1>8, <1>9, <1>10, <1>11, <1>12, <1>13, <1>14 DEF Next

\* Every variable keeps its shape in every reachable state, and no interleaving
\* of claims, refunds and takeovers charges more attempts than the limit.
THEOREM TypeCorrect == Spec => []TypeOK
<1>1. Init => TypeOK /\ Charged
  BY TypeInit
<1>2. TypeOK /\ Charged /\ [Next]_vars => (TypeOK /\ Charged)'
  BY TypeStep
<1> QED BY <1>1, <1>2, PTL DEF Spec

-----------------------------------------------------------------------------
(* Time: what a runtime believes of its claim, in the time of the row      *)

\* From the reply of a claim to its commit.
Holding(r, d) == Turn(r, d).step \in {"reply", "transfer", "publish", "verify", "commit"}
Owns(r, d) == row[d].owner = r /\ row[d].token = Turn(r, d).token

\* A reply that travels was sent at most MaxDelay ago, when the lease was full;
\* a deadline that has not passed lies before the end of the row's lease.
Timely(r, d) ==
  /\ At(r, d, "reply") => Owns(r, d) /\ Turn(r, d).age + row[d].left >= Lease
  /\ Holding(r, d) /\ ~At(r, d, "reply") /\ Turn(r, d).local > 0
       => Owns(r, d) /\ Turn(r, d).local <= row[d].left
  /\ Holding(r, d) /\ beat[<<r, d>>] # NoBeat /\ beat[<<r, d>>].token = Turn(r, d).token
       => Owns(r, d) /\ beat[<<r, d>>].age + row[d].left >= Lease

\* Tokens are only ever handed out by the row, and grow.
Tokens(r, d) == /\ Turn(r, d).token <= row[d].token /\ Turn(r, d).seen <= row[d].token
                /\ beat[<<r, d>>].token <= row[d].token /\ row[d].by <= row[d].token

Timing == \A r \in Runtime, d \in Document : Timely(r, d) /\ Tokens(r, d)

-----------------------------------------------------------------------------
(* Objects: who may still write what a row points at                       *)

\* An upload of the claim's object may be ahead.
Early(r, d) == Turn(r, d).step \in {"reply", "transfer", "publish"}

\* Claims that are held at the same time have different tokens.
Distinct(d) == \A r, s \in Runtime :
  r # s /\ Holding(r, d) /\ Holding(s, d) => Turn(r, d).token # Turn(s, d).token
\* A completed row has no owner, and its object is not to be uploaded again.
Finished(d) == row[d].status = "COMPLETED" =>
  row[d].owner = Nobody /\ \A s \in Runtime : Early(s, d) => Turn(s, d).token # row[d].by
\* Nor is one that a runtime saw: what it found missing stays missing.
Gone(d) == \A r \in Runtime :
  /\ Turn(r, d).step \in {"check", "missing"} =>
       \A s \in Runtime : Early(s, d) => Turn(s, d).token # Turn(r, d).seen
  /\ At(r, d, "missing") => <<d, Turn(r, d).seen>> \notin objects
Kept(d) == Distinct(d) /\ Finished(d) /\ Gone(d)
Objects == \A d \in Document : Kept(d)

-----------------------------------------------------------------------------
(* What the step of a turn does to the turn, to its row, and to nothing    *)
(* else.                                                                   *)

Frame(r, d) ==
  /\ \A s \in Runtime, e \in Document :
       s # r \/ e # d => Turn(s, e)' = Turn(s, e) /\ beat'[<<s, e>>] = beat[<<s, e>>]
  /\ \A e \in Document : e # d => row'[e] = row[e]
SameTurn(r, d) ==
  /\ Turn(r, d)'.step = Turn(r, d).step /\ Turn(r, d)'.token = Turn(r, d).token
  /\ Turn(r, d)'.seen = Turn(r, d).seen /\ Turn(r, d)'.age = Turn(r, d).age
  /\ Turn(r, d)'.refund = Turn(r, d).refund
SameBeat(r, d) == beat'[<<r, d>>] = beat[<<r, d>>]
Rests(r, d) ==
  /\ row'[d] = row[d] /\ objects' = objects /\ SameBeat(r, d)
  /\ Turn(r, d)'.step \in {"idle", "look", "claim", "settle"}
  /\ Turn(r, d)'.token \in {0, Turn(r, d).token} /\ Turn(r, d)'.seen \in {0, Turn(r, d).seen}
  /\ Turn(r, d)'.step = "settle" /\ Turn(r, d)'.refund => troubles' = troubles + 1
Sees(r, d) ==
  /\ row'[d] = row[d] /\ objects' = objects /\ SameBeat(r, d)
  /\ Turn(r, d)'.step = "check" /\ Turn(r, d)'.token = Turn(r, d).token
  /\ row[d].status = "COMPLETED" /\ Turn(r, d)'.seen = row[d].by
Misses(r, d) ==
  /\ row'[d] = row[d] /\ objects' = objects /\ SameBeat(r, d)
  /\ At(r, d, "check") /\ Turn(r, d)'.step = "missing"
  /\ Turn(r, d)'.token = Turn(r, d).token /\ Turn(r, d)'.seen = Turn(r, d).seen
  /\ <<d, Turn(r, d).seen>> \notin objects
Reopens(r, d) ==
  /\ At(r, d, "missing") /\ row[d].owner = Nobody /\ row[d].by = Turn(r, d).seen
  /\ row'[d].status = "OPEN" /\ row'[d].owner = Nobody /\ row'[d].token = row[d].token
  /\ row'[d].left = row[d].left /\ row'[d].by = 0 /\ row'[d].attempt = row[d].attempt
  /\ objects' = objects /\ SameBeat(r, d)
  /\ Turn(r, d)'.step = "claim" /\ Turn(r, d)'.token = Turn(r, d).token
  /\ Turn(r, d)'.seen = Turn(r, d).seen
Acquires(r, d) ==
  /\ Claimable(d) /\ row'[d].status = row[d].status /\ row'[d].owner = r
  /\ row'[d].token = row[d].token + 1 /\ row'[d].left = Lease /\ row'[d].by = row[d].by
  /\ row'[d].attempt = row[d].attempt + 1
  /\ objects' = objects /\ SameBeat(r, d)
  /\ Turn(r, d)'.step = "reply" /\ Turn(r, d)'.token = row[d].token + 1
  /\ Turn(r, d)'.age = Turn(r, d).age /\ Turn(r, d)'.seen = Turn(r, d).seen
Starts(r, d) ==
  /\ row'[d] = row[d] /\ objects' = objects /\ SameBeat(r, d)
  /\ At(r, d, "reply") /\ Turn(r, d)'.step = "transfer" /\ Turn(r, d)'.local = Lease - Margin
  /\ Turn(r, d)'.token = Turn(r, d).token /\ Turn(r, d)'.seen = Turn(r, d).seen
Proceeds(r, d) ==
  /\ row'[d] = row[d] /\ SameBeat(r, d)
  /\ \/ At(r, d, "transfer") /\ Turn(r, d)'.step = "publish" /\ objects' = objects
     \/ /\ At(r, d, "publish") /\ Turn(r, d)'.step = "verify"
        /\ objects' = objects \cup {<<d, Turn(r, d).token>>}
     \/ At(r, d, "verify") /\ Turn(r, d)'.step = "commit" /\ objects' = objects
  /\ Turn(r, d)'.token = Turn(r, d).token /\ Turn(r, d)'.local = Turn(r, d).local
  /\ Turn(r, d)'.seen = Turn(r, d).seen
Completes(r, d) ==
  /\ Fenced(r, d) /\ At(r, d, "commit")
  /\ row'[d].status = "COMPLETED" /\ row'[d].owner = Nobody /\ row'[d].token = row[d].token
  /\ row'[d].left = 0 /\ row'[d].by = Turn(r, d).token /\ row'[d].attempt = row[d].attempt
  /\ objects' = objects /\ SameBeat(r, d)
  /\ Turn(r, d)'.step = "committed" /\ Turn(r, d)'.token = Turn(r, d).token
  /\ Turn(r, d)'.seen = Turn(r, d).seen
Releases(r, d) ==
  /\ Fenced(r, d) /\ At(r, d, "settle")
  /\ row'[d].status # "COMPLETED" /\ row'[d].owner = Nobody /\ row'[d].token = row[d].token
  /\ row'[d].left = 0 /\ row'[d].by = row[d].by
  /\ row'[d].attempt = IF Turn(r, d).refund THEN row[d].attempt - 1 ELSE row[d].attempt
  /\ objects' = objects /\ SameBeat(r, d)
  /\ Turn(r, d)'.step = "idle" /\ Turn(r, d)'.token = 0 /\ Turn(r, d)'.seen = 0
Renews(r, d) ==
  /\ Fenced(r, d)
  /\ row'[d].status = row[d].status /\ row'[d].owner = row[d].owner
  /\ row'[d].token = row[d].token /\ row'[d].left = Lease /\ row'[d].by = row[d].by
  /\ row'[d].attempt = row[d].attempt
  /\ objects' = objects /\ Turn(r, d)' = Turn(r, d)
  /\ beat'[<<r, d>>].token = Turn(r, d).token /\ beat'[<<r, d>>].age = 0
Learns(r, d) ==
  /\ row'[d] = row[d] /\ objects' = objects /\ SameTurn(r, d)
  /\ \/ SameBeat(r, d) /\ Turn(r, d)'.local = Turn(r, d).local
     \/ /\ beat[<<r, d>>] # NoBeat /\ beat'[<<r, d>>] = NoBeat
        /\ \/ Turn(r, d)'.local = Turn(r, d).local
           \/ /\ Turn(r, d)'.local = Lease - Margin
              /\ Turn(r, d).token = beat[<<r, d>>].token

TurnStep(r, d) == Begin(r, d) \/ JobStep(r, d) \/ Withdraw(r, d) \/ Renew(r, d) \/ Renewed(r, d)
Shape(r, d) ==
  /\ troubles' \in {troubles, troubles + 1}
  /\ \/ Rests(r, d) \/ Sees(r, d) \/ Misses(r, d) \/ Reopens(r, d) \/ Acquires(r, d)
     \/ Starts(r, d) \/ Proceeds(r, d) \/ Completes(r, d) \/ Releases(r, d) \/ Renews(r, d)
     \/ Learns(r, d)

LEMMA Shapes ==
  ASSUME TypeOK, NEW r \in Runtime, NEW d \in Document, TurnStep(r, d)
  PROVE  Frame(r, d) /\ Shape(r, d)
<1>1. /\ row \in Rows /\ job \in Jobs /\ beat \in [Runtime \X Document -> Beat]
  BY DEF TypeOK, Rows, Jobs
<1>2. Turn(r, d) \in Job /\ row[d] \in Row
  BY <1>1, NextTurn DEF Rows
<1>3. Turn(r, d).token \in Nat /\ row[d].token \in Nat
  BY <1>2 DEF Job, Row
<1>4. \A t : Becomes(r, d, t) => Turn(r, d)' = t
  BY <1>1 DEF Becomes, Turn, Jobs
<1>5. \A w : Updates(d, w) => row'[d] = w
  BY <1>1 DEF Updates, Rows
<1>6. NoJob.step = "idle" /\ NoJob.token = 0 /\ NoJob.seen = 0
  BY DEF NoJob
<1>7. ASSUME NEW st \in Steps, Goes(r, d, st)
      PROVE  /\ Turn(r, d)'.step = st /\ Turn(r, d)'.token = Turn(r, d).token
             /\ Turn(r, d)'.seen = Turn(r, d).seen /\ Turn(r, d)'.local = Turn(r, d).local
  BY <1>7, <1>2, <1>4 DEF Goes, Job
<1>8. ASSUME Fails(r, d)
      PROVE  /\ Turn(r, d)'.step = "settle" /\ Turn(r, d)'.token = Turn(r, d).token
             /\ Turn(r, d)'.seen = Turn(r, d).seen /\ ~Turn(r, d)'.refund
  BY <1>8, <1>2, <1>4 DEF Fails, Job
<1>9. ASSUME Stops(r, d)
      PROVE  Turn(r, d)'.step = "idle" /\ Turn(r, d)'.token = 0 /\ Turn(r, d)'.seen = 0
  BY <1>9, <1>4, <1>6 DEF Stops
<1>10. Frame(r, d)
  <2>1. \/ job' = job \/ \E t : Becomes(r, d, t)
    BY Zenon DEF TurnStep, JobStep, Begin, Look, Check, Invalidate, Claim, Takes, Granted, Transfer,
         Fetch, TransferFails, Defer, Upload, Verify, Commit, Committed, Settle, Withdraw, Renew,
         Renewed, Goes, Stops, Fails
  <2>2. \/ row' = row \/ \E w : Updates(d, w)
    BY Zenon DEF TurnStep, JobStep, Begin, Look, Check, Invalidate, Claim, Granted, Transfer,
         Fetch, TransferFails, Defer, Upload, Verify, Commit, Committed, Settle, Withdraw, Renew,
         Renewed
  <2>3. \/ beat' = beat \/ \E b : beat' = [beat EXCEPT ![<<r, d>>] = b]
    BY Zenon DEF TurnStep, JobStep, Begin, Look, Check, Invalidate, Claim, Granted, Transfer,
         Fetch, TransferFails, Defer, Upload, Verify, Commit, Committed, Settle, Withdraw, Renew,
         Renewed
  <2>4. \A s \in Runtime, e \in Document :
          <<s, e>> \in Runtime \X Document /\ (s # r \/ e # d => <<s, e>> # <<r, d>>)
    OBVIOUS
  <2>5. \A s \in Runtime, e \in Document : s # r \/ e # d => Turn(s, e)' = Turn(s, e)
    BY <2>1, <2>4, <1>1 DEF Becomes, Turn, Jobs
  <2>6. \A s \in Runtime, e \in Document :
          s # r \/ e # d => beat'[<<s, e>>] = beat[<<s, e>>]
    BY <2>3, <2>4, <1>1
  <2>7. \A e \in Document : e # d => row'[e] = row[e]
    BY <2>2, <1>1 DEF Updates, Rows
  <2> QED BY <2>5, <2>6, <2>7 DEF Frame
<1> SUFFICES Shape(r, d)
  BY <1>10
<1>0. troubles' \in {troubles, troubles + 1}
  BY Zenon DEF TurnStep, JobStep, Begin, Look, Check, Invalidate, Claim, Granted, Transfer, Fetch,
     TransferFails, Defer, Upload, Verify, Commit, Committed, Settle, Withdraw, Renew, Renewed
<1> USE <1>0
<1>11. CASE Begin(r, d)
  BY <1>11, <1>7, StepNames DEF Begin, Shape, Rests, SameBeat
<1>12. CASE Look(r, d)
  <2>1. CASE /\ row[d].status = "COMPLETED"
             /\ Becomes(r, d, [Turn(r, d) EXCEPT !.step = "check", !.seen = row[d].by])
    BY <1>12, <2>1, <1>2, <1>4 DEF Look, Job, Shape, Sees, SameBeat
  <2>2. CASE Stops(r, d) \/ Goes(r, d, "claim")
    BY <1>12, <2>2, <1>7, <1>9, StepNames DEF Look, Shape, Rests, SameBeat
  <2> QED BY <1>12, <2>1, <2>2 DEF Look
<1>13. CASE Check(r, d)
  BY <1>13, <1>7, <1>9, StepNames DEF Check, Shape, Rests, Misses, SameBeat
<1>14. CASE Invalidate(r, d)
  <2>1. CASE row[d].owner = Nobody /\ row[d].by = Turn(r, d).seen
    <3>1. row'[d] = [row[d] EXCEPT !.status = "OPEN", !.by = 0]
      BY <1>14, <2>1, <1>5 DEF Invalidate
    <3>2. /\ row'[d].status = "OPEN" /\ row'[d].by = 0 /\ row'[d].owner = row[d].owner
          /\ row'[d].token = row[d].token /\ row'[d].left = row[d].left
          /\ row'[d].attempt = row[d].attempt
      BY <3>1, <1>2 DEF Row
    <3> QED BY <1>14, <2>1, <3>2, <1>7, StepNames DEF Invalidate, Shape, Reopens, SameBeat
  <2>2. CASE ~(row[d].owner = Nobody /\ row[d].by = Turn(r, d).seen)
    BY <1>14, <2>2, <1>7, StepNames DEF Invalidate, Shape, Rests, SameBeat
  <2> QED BY <2>1, <2>2
<1>15. CASE Claim(r, d)
  <2>1. CASE Claimable(d)
    <3>1. row'[d] = Claimed(r, d)
          /\ Turn(r, d)' = [Turn(r, d) EXCEPT !.step = "reply", !.token = row[d].token + 1]
      BY <1>15, <2>1, <1>4, <1>5 DEF Claim, Takes
    <3>2. /\ row'[d].status = row[d].status /\ row'[d].owner = r /\ row'[d].by = row[d].by
          /\ row'[d].token = row[d].token + 1 /\ row'[d].left = Lease
          /\ row'[d].attempt = row[d].attempt + 1
      BY <3>1, <1>2 DEF Claimed, Row
    <3>3. /\ Turn(r, d)'.step = "reply" /\ Turn(r, d)'.token = row[d].token + 1
          /\ Turn(r, d)'.age = Turn(r, d).age /\ Turn(r, d)'.seen = Turn(r, d).seen
      BY <3>1, <1>2 DEF Job
    <3> QED BY <1>15, <2>1, <3>2, <3>3 DEF Claim, Shape, Acquires, SameBeat
  <2>2. CASE ~Claimable(d)
    BY <1>15, <2>2, <1>9 DEF Claim, Shape, Rests, SameBeat
  <2> QED BY <2>1, <2>2
<1>16. CASE Granted(r, d)
  <2>1. Turn(r, d)' = [Turn(r, d) EXCEPT !.step = "transfer", !.local = Lease - Margin, !.age = 0]
    BY <1>16, <1>4 DEF Granted
  <2>2. /\ Turn(r, d)'.step = "transfer" /\ Turn(r, d)'.local = Lease - Margin
        /\ Turn(r, d)'.token = Turn(r, d).token /\ Turn(r, d)'.seen = Turn(r, d).seen
    BY <2>1, <1>2 DEF Job
  <2> QED BY <1>16, <2>2 DEF Granted, Shape, Starts, SameBeat
<1>17. CASE Transfer(r, d)
  <2>1. CASE Fetch(r, d)
    BY <2>1, <1>7, StepNames DEF Fetch, Shape, Proceeds, SameBeat
  <2>2. CASE TransferFails(r, d)
    BY <2>2, <1>8 DEF TransferFails, Shape, Rests, SameBeat
  <2>3. CASE Defer(r, d)
    <3>1. Turn(r, d)' = [Turn(r, d) EXCEPT !.step = "settle", !.refund = TRUE]
      BY <2>3, <1>4 DEF Defer
    <3>2. /\ Turn(r, d)'.step = "settle" /\ Turn(r, d)'.token = Turn(r, d).token
          /\ Turn(r, d)'.seen = Turn(r, d).seen
      BY <3>1, <1>2 DEF Job
    <3> QED BY <2>3, <3>2 DEF Defer, Shape, Rests, SameBeat
  <2> QED BY <1>17, <2>1, <2>2, <2>3 DEF Transfer
<1>18. CASE Upload(r, d)
  BY <1>18, <1>7, <1>8, StepNames DEF Upload, Shape, Rests, Proceeds, SameBeat
<1>19. CASE Verify(r, d)
  BY <1>19, <1>7, <1>8, StepNames DEF Verify, Shape, Rests, Proceeds, SameBeat
<1>20. CASE Commit(r, d)
  <2>1. CASE Fenced(r, d)
    <3>1. row'[d] = [row[d] EXCEPT !.status = "COMPLETED", !.by = Turn(r, d).token,
                                   !.owner = Nobody, !.left = 0, !.wait = FALSE]
      BY <1>20, <2>1, <1>5 DEF Commit
    <3>2. /\ row'[d].status = "COMPLETED" /\ row'[d].owner = Nobody /\ row'[d].left = 0
          /\ row'[d].token = row[d].token /\ row'[d].by = Turn(r, d).token
          /\ row'[d].attempt = row[d].attempt
      BY <3>1, <1>2 DEF Row
    <3> QED BY <1>20, <2>1, <3>2, <1>7, StepNames DEF Commit, Shape, Completes, SameBeat
  <2>2. CASE ~Fenced(r, d)
    BY <1>20, <2>2, <1>8 DEF Commit, Shape, Rests, SameBeat
  <2> QED BY <2>1, <2>2
<1>21. CASE Committed(r, d)
  BY <1>21, <1>8, <1>9 DEF Committed, Shape, Rests, SameBeat
<1>22. CASE Settle(r, d)
  <2>1. CASE Fenced(r, d) /\ Updates(d, Released(d, Turn(r, d).refund))
    <3>1. row'[d] = Released(d, Turn(r, d).refund)
      BY <2>1, <1>5
    <3>2. /\ row'[d].status # "COMPLETED" /\ row'[d].owner = Nobody /\ row'[d].left = 0
          /\ row'[d].token = row[d].token /\ row'[d].by = row[d].by
          /\ row'[d].attempt = IF Turn(r, d).refund THEN row[d].attempt - 1 ELSE row[d].attempt
      BY <3>1, <1>2 DEF Released, Row
    <3> QED BY <1>22, <2>1, <3>2, <1>9 DEF Settle, Shape, Releases, SameBeat
  <2>2. CASE UNCHANGED row
    BY <1>22, <2>2, <1>9 DEF Settle, Shape, Rests, SameBeat
  <2> QED BY <1>22, <2>1, <2>2 DEF Settle
<1>23. CASE Withdraw(r, d)
  BY <1>23, <1>9 DEF Withdraw, Shape, Rests, SameBeat
<1>24. CASE Renew(r, d)
  <2>1. CASE Fenced(r, d)
    <3>1. row'[d] = [row[d] EXCEPT !.left = Lease] /\ Turn(r, d)' = Turn(r, d)
      BY <1>24, <2>1, <1>5 DEF Renew, Turn
    <3>2. /\ row'[d].status = row[d].status /\ row'[d].owner = row[d].owner
          /\ row'[d].token = row[d].token /\ row'[d].left = Lease /\ row'[d].by = row[d].by
          /\ row'[d].attempt = row[d].attempt
      BY <3>1, <1>2 DEF Row
    <3>3. beat'[<<r, d>>] = [token |-> Turn(r, d).token, age |-> 0]
      BY <1>24, <2>1, <1>1 DEF Renew
    <3> QED BY <1>24, <2>1, <3>1, <3>2, <3>3 DEF Renew, Shape, Renews
  <2>2. CASE ~Fenced(r, d)
    <3>1. Turn(r, d)' = [Turn(r, d) EXCEPT !.lost = TRUE]
      BY <1>24, <2>2, <1>4 DEF Renew
    <3>2. SameTurn(r, d) /\ Turn(r, d)'.local = Turn(r, d).local
      BY <3>1, <1>2 DEF Job, SameTurn
    <3> QED BY <1>24, <2>2, <3>2 DEF Renew, Shape, Learns, SameBeat
  <2> QED BY <2>1, <2>2
<1>25. CASE Renewed(r, d)
  <2>1. beat'[<<r, d>>] = NoBeat /\ beat[<<r, d>>] # NoBeat
    BY <1>25, <1>1 DEF Renewed
  <2>2. CASE Turn(r, d).step \in Active /\ Turn(r, d).token = beat[<<r, d>>].token
    <3>1. Turn(r, d)' = [Turn(r, d) EXCEPT !.local = Lease - Margin]
      BY <1>25, <2>2, <1>4 DEF Renewed
    <3>2. SameTurn(r, d) /\ Turn(r, d)'.local = Lease - Margin
      BY <3>1, <1>2 DEF Job, SameTurn
    <3> QED BY <1>25, <2>1, <2>2, <3>2 DEF Renewed, Shape, Learns
  <2>3. CASE ~(Turn(r, d).step \in Active /\ Turn(r, d).token = beat[<<r, d>>].token)
    <3>1. Turn(r, d)' = Turn(r, d)
      BY <1>25, <2>3 DEF Renewed, Turn
    <3> QED BY <1>25, <2>1, <3>1 DEF Renewed, Shape, Learns, SameTurn
  <2> QED BY <2>2, <2>3
<1> QED BY <1>11, <1>12, <1>13, <1>14, <1>15, <1>16, <1>17, <1>18, <1>19, <1>20, <1>21,
           <1>22, <1>23, <1>24, <1>25 DEF TurnStep, JobStep

-----------------------------------------------------------------------------
(* At most one transfer                                                    *)

LEMMA Numbers ==
  ASSUME TypeOK, NEW r \in Runtime, NEW d \in Document
  PROVE  /\ Turn(r, d) \in Job /\ Turn(r, d).token \in Nat /\ Turn(r, d).seen \in Nat
         /\ Turn(r, d).age \in 0..MaxDelay /\ Turn(r, d).local \in 0..Lease
         /\ beat[<<r, d>>] \in Beat /\ beat[<<r, d>>].token \in Nat
         /\ beat[<<r, d>>].age \in 0..MaxDelay
         /\ row[d] \in Row /\ row[d].token \in Nat /\ row[d].by \in Nat /\ row[d].left \in 0..Lease
<1>1. Turn(r, d) \in Job /\ beat[<<r, d>>] \in Beat /\ row[d] \in Row
  BY DEF TypeOK, Turn
<1> QED BY <1>1 DEF Job, Beat, Row

\* Whoever believes that it holds a claim owns the row, and its lease runs.
LEMMA OwnerIsLive ==
  ASSUME TypeOK, NEW r \in Runtime, NEW d \in Document, Timely(r, d),
         \/ At(r, d, "reply")
         \/ Holding(r, d) /\ Turn(r, d).local > 0
         \/ Holding(r, d) /\ beat[<<r, d>>] # NoBeat /\ beat[<<r, d>>].token = Turn(r, d).token
  PROVE  Owns(r, d) /\ row[d].owner # Nobody /\ ~Free(d)
<1>1. Owns(r, d) /\ row[d].left > 0
  BY Numbers, Apart DEF Timely
<1> QED BY <1>1, Apart, Numbers DEF Owns, Free, Expired

\* A claim that the step does not touch stays timely.
LEMMA OthersTimely ==
  ASSUME TypeOK, NEW r \in Runtime, NEW d \in Document, Timely(r, d),
         Turn(r, d)' = Turn(r, d), beat'[<<r, d>>] = beat[<<r, d>>],
         \/ row[d].owner # r \/ Free(d)
         \/ /\ row'[d].owner = row[d].owner /\ row'[d].token = row[d].token
            /\ row'[d].left = row[d].left
  PROVE  Timely(r, d)'
<1>1. /\ At(r, d, "reply")' = At(r, d, "reply") /\ Holding(r, d)' = Holding(r, d)
  BY DEF At, Holding
<1>2. CASE /\ row'[d].owner = row[d].owner /\ row'[d].token = row[d].token
           /\ row'[d].left = row[d].left
  BY <1>1, <1>2 DEF Timely, Owns
<1>3. CASE row[d].owner # r \/ Free(d)
  BY <1>1, <1>3, OwnerIsLive DEF Timely, Owns
<1> QED BY <1>2, <1>3

\* The step of a turn keeps its own claim timely.
LEMMA OwnTimely ==
  ASSUME TypeOK, TypeOK', NEW r \in Runtime, NEW d \in Document, Timely(r, d), Tokens(r, d),
         Shape(r, d)
  PROVE  Timely(r, d)' /\ Tokens(r, d)'
<1>1. /\ Turn(r, d).token \in Nat /\ Turn(r, d).seen \in Nat
      /\ Turn(r, d).age \in 0..MaxDelay /\ Turn(r, d).local \in 0..Lease
      /\ beat[<<r, d>>].token \in Nat /\ beat[<<r, d>>].age \in 0..MaxDelay
      /\ row[d].token \in Nat /\ row[d].by \in Nat /\ row[d].left \in 0..Lease
  BY Numbers
<1>2. /\ Turn(r, d)'.age \in 0..MaxDelay /\ Turn(r, d)'.local \in 0..Lease
  BY Numbers DEF TypeOK, Turn, Job
<1> DEFINE t == Turn(r, d)
<1>3. CASE Rests(r, d) \/ Sees(r, d) \/ Misses(r, d)
  BY <1>3, <1>1 DEF Rests, Sees, Misses, Timely, Tokens, SameBeat, Holding, At
<1>4. CASE Reopens(r, d)
  BY <1>4, <1>1 DEF Reopens, Timely, Tokens, SameBeat, Holding, At
<1>5. CASE Acquires(r, d)
  BY <1>5, <1>1, <1>2 DEF Acquires, Timely, Tokens, SameBeat, Holding, At, Owns
<1>6. CASE Starts(r, d)
  BY <1>6, <1>1, <1>2, Apart DEF Starts, Timely, Tokens, SameBeat, Holding, At, Owns
<1>7. CASE Proceeds(r, d)
  BY <1>7, <1>1 DEF Proceeds, Timely, Tokens, SameBeat, Holding, At, Owns
<1>8. CASE Completes(r, d) \/ Releases(r, d)
  BY <1>8, <1>1 DEF Completes, Releases, Timely, Tokens, SameBeat, Holding, At
<1>9. CASE Renews(r, d)
  BY <1>9, <1>1, <1>2 DEF Renews, Timely, Tokens, Holding, At, Owns, Fenced
<1>10. CASE Learns(r, d)
  <2>1. NoBeat.token = 0
    BY DEF NoBeat
  <2> QED BY <1>10, <2>1, <1>1 DEF Learns, SameTurn, SameBeat, Timely, Tokens, Holding, At, Owns
<1> QED BY <1>3, <1>4, <1>5, <1>6, <1>7, <1>8, <1>9, <1>10 DEF Shape

\* To the others the step of a turn changes a row only when it is not theirs,
\* or no longer.
LEMMA RowChange ==
  ASSUME TypeOK, NEW r \in Runtime, NEW d \in Document, Shape(r, d)
  PROVE  /\ row'[d].token >= row[d].token
         /\ \A s \in Runtime : s # r =>
              \/ row[d].owner # s \/ Free(d)
              \/ /\ row'[d].owner = row[d].owner /\ row'[d].token = row[d].token
                 /\ row'[d].left = row[d].left
<1>1. row[d].token \in Nat
  BY Numbers
<1>2. CASE row'[d] = row[d]
  BY <1>2, <1>1
<1>3. CASE Reopens(r, d)
  BY <1>3, <1>1 DEF Reopens
<1>4. CASE Acquires(r, d)
  BY <1>4, <1>1 DEF Acquires, Claimable
<1>5. CASE Completes(r, d) \/ Releases(r, d) \/ Renews(r, d)
  BY <1>5, <1>1 DEF Completes, Releases, Renews, Fenced
<1> QED BY <1>2, <1>3, <1>4, <1>5 DEF Shape, Rests, Sees, Misses, Starts, Proceeds, Learns

LEMMA TimingInit == Init => Timing
<1> SUFFICES ASSUME Init, NEW r \in Runtime, NEW d \in Document
             PROVE  Timely(r, d) /\ Tokens(r, d)
  BY DEF Timing
<1>1. Turn(r, d) = NoJob /\ beat[<<r, d>>] = NoBeat /\ row[d].token = 0 /\ row[d].by = 0
  BY DEF Init, Turn
<1> QED BY <1>1 DEF Timely, Tokens, At, Holding, NoJob, NoBeat

LEMMA TimingStep == TypeOK /\ TypeOK' /\ Timing /\ [Next]_vars => Timing'
<1> SUFFICES ASSUME TypeOK, TypeOK', Timing, [Next]_vars,
                    NEW s \in Runtime, NEW e \in Document
             PROVE  Timely(s, e)' /\ Tokens(s, e)'
  BY DEF Timing
<1>0. Timely(s, e) /\ Tokens(s, e)
  BY DEF Timing
<1>1. /\ Turn(s, e).token \in Nat /\ Turn(s, e).seen \in Nat
      /\ Turn(s, e).age \in 0..MaxDelay /\ Turn(s, e).local \in 0..Lease
      /\ beat[<<s, e>>].token \in Nat /\ beat[<<s, e>>].age \in 0..MaxDelay
      /\ row[e].token \in Nat /\ row[e].by \in Nat /\ row[e].left \in 0..Lease
  BY Numbers
<1>2. ASSUME row'[e] = row[e], Turn(s, e)' = Turn(s, e), beat'[<<s, e>>] = beat[<<s, e>>]
      PROVE  Timely(s, e)' /\ Tokens(s, e)'
  BY <1>2, <1>0, OthersTimely DEF Tokens
<1>3. ASSUME NEW r \in Runtime, NEW d \in Document, TurnStep(r, d)
      PROVE  Timely(s, e)' /\ Tokens(s, e)'
  <2>1. Frame(r, d) /\ Shape(r, d)
    BY <1>3, Shapes
  <2>2. Timely(r, d)' /\ Tokens(r, d)'
    BY <2>1, OwnTimely DEF Timing
  <2>3. CASE e # d
    BY <2>1, <2>3, <1>2 DEF Frame
  <2>4. CASE e = d /\ s # r
    <3>1. Turn(s, d)' = Turn(s, d) /\ beat'[<<s, d>>] = beat[<<s, d>>]
      BY <2>1, <2>4 DEF Frame
    <3>2. Timely(s, d)'
      BY <2>1, <2>4, <3>1, <1>0, RowChange, OthersTimely
    <3>3. row'[d].token \in Nat
      BY DEF TypeOK, Row
    <3>4. Tokens(s, d)'
      BY <2>1, <2>2, <2>4, <3>1, <3>3, <1>0, <1>1, RowChange DEF Tokens
    <3> QED BY <2>4, <3>2, <3>4
  <2> QED BY <2>2, <2>3, <2>4
<1>4. ASSUME NEW r \in Runtime, HeartbeatFails(r) \/ Crash(r)
      PROVE  Timely(s, e)' /\ Tokens(s, e)'
  <2>0. <<s, e>> \in Runtime \X Document /\ <<s, e>>[1] = s
    OBVIOUS
  <2>1. row' = row
    BY <1>4 DEF HeartbeatFails, Crash
  <2>2. CASE s # r
    <3>1. Turn(s, e)' = Turn(s, e) /\ beat'[<<s, e>>] = beat[<<s, e>>]
      BY <1>4, <2>0, <2>2 DEF HeartbeatFails, Crash, TypeOK, Turn
    <3> QED BY <2>1, <3>1, <1>2
  <2>3. CASE s = r /\ Crash(r)
    <3>1. Turn(s, e)' = NoJob /\ beat'[<<s, e>>] = NoBeat
      BY <2>0, <2>3 DEF Crash, TypeOK, Turn
    <3> QED BY <2>1, <3>1, <1>0, <1>1 DEF Timely, Tokens, At, Holding, NoJob, NoBeat
  <2>4. CASE s = r /\ HeartbeatFails(r)
    <3>1. beat'[<<s, e>>] = NoBeat
      BY <2>0, <2>4 DEF HeartbeatFails, TypeOK
    <3>2. \/ Turn(s, e)' = Turn(s, e) \/ Turn(s, e)' = [Turn(s, e) EXCEPT !.lost = TRUE]
      BY <2>0, <2>4 DEF HeartbeatFails, TypeOK, Turn
    <3>3. SameTurn(s, e) /\ Turn(s, e)'.local = Turn(s, e).local
      BY <3>2, Numbers DEF SameTurn, Job
    <3>4. NoBeat.token = 0
      BY DEF NoBeat
    <3> QED BY <2>1, <3>1, <3>3, <3>4, <1>0, <1>1
            DEF SameTurn, Timely, Tokens, At, Holding, Owns
  <2> QED BY <1>4, <2>2, <2>3, <2>4
<1>5. ASSUME NEW r \in Runtime, Sweep(r) PROVE Timely(s, e)' /\ Tokens(s, e)'
  <2>1. Turn(s, e)' = Turn(s, e) /\ beat' = beat
    BY <1>5 DEF Sweep, Turn
  <2>2. CASE Exhausted(e)
    <3>1. row'[e] = [row[e] EXCEPT !.status = "PERMANENTLY_FAILED", !.owner = Nobody, !.left = 0]
      BY <1>5, <2>2 DEF Sweep
    <3>2. row'[e].token = row[e].token /\ row'[e].by = row[e].by
      BY <3>1, Numbers DEF Row
    <3> QED BY <2>1, <2>2, <3>2, <1>0, OthersTimely DEF Exhausted, Tokens
  <2>3. CASE ~Exhausted(e)
    BY <1>5, <2>1, <2>3, <1>2 DEF Sweep
  <2> QED BY <2>2, <2>3
<1>6. ASSUME Tick PROVE Timely(s, e)' /\ Tokens(s, e)'
  <2>0. <<s, e>> \in DOMAIN job /\ <<s, e>> \in DOMAIN beat
    BY DEF TypeOK
  <2>1. /\ row'[e].owner = row[e].owner /\ row'[e].token = row[e].token /\ row'[e].by = row[e].by
        /\ row'[e].left = Less(row[e].left)
    <3>1. row'[e] = [row[e] EXCEPT !.left = Less(row[e].left), !.wait = FALSE]
      BY <1>6 DEF Tick
    <3> QED BY <3>1, Numbers DEF Row
  <2>2. /\ Turn(s, e)'.step = Turn(s, e).step /\ Turn(s, e)'.token = Turn(s, e).token
        /\ Turn(s, e)'.seen = Turn(s, e).seen /\ Turn(s, e)'.local = Less(Turn(s, e).local)
        /\ At(s, e, "reply") => /\ Turn(s, e)'.age = Turn(s, e).age + 1
                                /\ Turn(s, e).age < MaxDelay
    <3>1. Turn(s, e)' = [Turn(s, e) EXCEPT !.local = Less(Turn(s, e).local),
             !.age = IF Turn(s, e).step = "reply" THEN Turn(s, e).age + 1 ELSE Turn(s, e).age]
      BY <1>6, <2>0 DEF Tick, Turn
    <3>2. At(s, e, "reply") => Turn(s, e).age < MaxDelay
      BY <1>6, <2>0 DEF Tick, Turn, At
    <3> QED BY <3>1, <3>2, Numbers DEF Job, At
  <2>3. \/ beat[<<s, e>>] = NoBeat /\ beat'[<<s, e>>] = NoBeat
        \/ /\ beat[<<s, e>>] # NoBeat /\ beat[<<s, e>>].age < MaxDelay
           /\ beat'[<<s, e>>].token = beat[<<s, e>>].token
           /\ beat'[<<s, e>>].age = beat[<<s, e>>].age + 1
    <3>1. CASE beat[<<s, e>>] = NoBeat
      BY <1>6, <2>0, <3>1 DEF Tick
    <3>2. CASE beat[<<s, e>>] # NoBeat
      <4>1. beat'[<<s, e>>] = [beat[<<s, e>>] EXCEPT !.age = beat[<<s, e>>].age + 1]
        BY <1>6, <2>0, <3>2 DEF Tick
      <4>2. beat[<<s, e>>].age < MaxDelay
        BY <1>6, <2>0, <3>2 DEF Tick
      <4> QED BY <3>2, <4>1, <4>2, Numbers DEF Beat
    <3> QED BY <3>1, <3>2
  <2>4. /\ At(s, e, "reply")' = At(s, e, "reply") /\ Holding(s, e)' = Holding(s, e)
        /\ Owns(s, e)' = Owns(s, e)
    BY <2>1, <2>2 DEF At, Holding, Owns
  <2>5. Tokens(s, e)'
    BY <2>1, <2>2, <2>3, <1>0 DEF Tokens
  <2>6. Timely(s, e)'
    BY <2>1, <2>2, <2>3, <2>4, <1>0, <1>1, Apart DEF Timely, Less
  <2> QED BY <2>5, <2>6
<1>7. CASE ReachTarget \/ (\E o \in objects : Lose(o)) \/ UNCHANGED vars
  BY <1>7, <1>2 DEF ReachTarget, Lose, vars, Turn
<1> QED BY <1>3, <1>4, <1>5, <1>6, <1>7 DEF Next, TurnStep

\* At most one runtime requests, receives or uploads a document, for every lease
\* and every delay of a reply up to the margin.
THEOREM SingleTransfer == Spec => []OneTransfer
<1>1. Init => TypeOK /\ Charged /\ Timing
  BY TypeInit, TimingInit
<1>2. TypeOK /\ Charged /\ Timing /\ [Next]_vars => (TypeOK /\ Charged /\ Timing)'
  BY TypeStep, TimingStep
<1>3. TypeOK /\ Timing => OneTransfer
  <2> SUFFICES ASSUME TypeOK, Timing, NEW d \in Document, NEW r \in Runtime, NEW s \in Runtime,
                      Working(r, d), Working(s, d)
               PROVE  r = s
    BY DEF OneTransfer
  <2>1. \A q \in {r, s} : Holding(q, d) /\ ~At(q, d, "reply") /\ Turn(q, d).local > 0
    BY DEF Working, Believes, Holding, At
  <2>2. row[d].owner = r /\ row[d].owner = s
    BY <2>1 DEF Timing, Timely, Owns
  <2> QED BY <2>2
<1> QED BY <1>1, <1>2, <1>3, PTL DEF Spec

-----------------------------------------------------------------------------
(* Completions stand                                                       *)

LEMMA ObjectsInit == Init => Objects
<1> SUFFICES ASSUME Init PROVE Objects
  OBVIOUS
<1>1. /\ \A r \in Runtime, d \in Document : Turn(r, d).step = "idle"
      /\ \A d \in Document : row[d].status = "OPEN"
  BY DEF Init, Turn, NoJob
<1> QED BY <1>1 DEF Objects, Kept, Distinct, Finished, Gone, Holding, Early, At

\* The turns of one document keep their relations through a step that completes
\* nothing, uploads nothing and moves no turn forward.
LEMMA Unmoved ==
  ASSUME TypeOK, NEW d \in Document, Kept(d),
         row'[d].status = "COMPLETED" => /\ row[d].status = "COMPLETED"
                                         /\ row'[d].by = row[d].by
                                         /\ row[d].owner = Nobody => row'[d].owner = Nobody,
         \A n \in Nat : <<d, n>> \notin objects => <<d, n>> \notin objects',
         \A s \in Runtime :
           /\ Holding(s, d)' => Holding(s, d) /\ Turn(s, d)'.token = Turn(s, d).token
           /\ Early(s, d)' => Early(s, d)
           /\ Turn(s, d)'.step \in {"check", "missing"}
                => Turn(s, d)'.step = Turn(s, d).step /\ Turn(s, d)'.seen = Turn(s, d).seen
  PROVE  Kept(d)'
<1>1. \A s \in Runtime : Early(s, d)' => Holding(s, d)'
  BY DEF Early, Holding
<1>2. \A s \in Runtime : Turn(s, d).seen \in Nat
  BY Numbers
<1>3. Distinct(d)'
  BY DEF Kept, Distinct
<1>4. Finished(d)'
  BY <1>1 DEF Kept, Finished
<1>5. Gone(d)'
  BY <1>1, <1>2 DEF Kept, Gone, At
<1> QED BY <1>3, <1>4, <1>5 DEF Kept

\* The step of a turn keeps what is known of its own document.
LEMMA OwnKept ==
  ASSUME TypeOK, NEW r \in Runtime, NEW d \in Document, Kept(d), Frame(r, d), Shape(r, d),
         \A s \in Runtime : Tokens(s, d)
  PROVE  Kept(d)'
<1>1. \A s \in Runtime : s # r => Turn(s, d)' = Turn(s, d)
  BY DEF Frame
<1>2. \A s \in Runtime : s # r => /\ Holding(s, d)' = Holding(s, d)
                                  /\ Early(s, d)' = Early(s, d)
                                  /\ At(s, d, "missing")' = At(s, d, "missing")
  BY <1>1 DEF Holding, Early, At
<1>3. \A s \in Runtime : Early(s, d) => Holding(s, d)
  BY DEF Early, Holding
<1>4. \A s \in Runtime : Turn(s, d).token \in Nat /\ Turn(s, d).seen \in Nat
  BY Numbers
<1>5. row[d].token \in Nat /\ row[d].by \in Nat
  BY Numbers
<1>6. CASE Rests(r, d)
  BY <1>6, <1>1, <1>2, Unmoved DEF Rests, Holding, Early
<1>7. CASE Reopens(r, d) \/ Releases(r, d)
  BY <1>7, <1>1, <1>2, Unmoved DEF Reopens, Releases, Holding, Early
<1>8. CASE Renews(r, d)
  BY <1>8, <1>1, <1>2, Unmoved DEF Renews, Holding, Early
<1>9. CASE Learns(r, d)
  BY <1>9, <1>1, <1>2, Unmoved DEF Learns, SameTurn, Holding, Early
<1>10. CASE Sees(r, d)
  <2>1. ~Holding(r, d)' /\ ~Early(r, d)' /\ ~At(r, d, "missing")'
    BY <1>10 DEF Sees, Holding, Early, At
  <2>2. Distinct(d)'
    BY <2>1, <1>1, <1>2 DEF Kept, Distinct
  <2>3. Finished(d)'
    BY <1>10, <2>1, <1>1, <1>2 DEF Kept, Finished, Sees
  <2>4. Gone(d)'
    BY <1>10, <2>1, <1>1, <1>2 DEF Kept, Finished, Gone, Sees
  <2> QED BY <2>2, <2>3, <2>4 DEF Kept
<1>11. CASE Misses(r, d)
  <2>1. ~Holding(r, d)' /\ ~Early(r, d)'
    BY <1>11 DEF Misses, Holding, Early
  <2>2. Distinct(d)'
    BY <2>1, <1>1, <1>2 DEF Kept, Distinct
  <2>3. Finished(d)'
    BY <1>11, <2>1, <1>1, <1>2 DEF Kept, Finished, Misses
  <2>4. Gone(d)'
    BY <1>11, <2>1, <1>1, <1>2 DEF Kept, Gone, Misses, At
  <2> QED BY <2>2, <2>3, <2>4 DEF Kept
<1>12. CASE Acquires(r, d)
  <2>1. ASSUME NEW s \in Runtime
        PROVE  Turn(s, d).token # row[d].token + 1 /\ Turn(s, d).seen # row[d].token + 1
    <3>1. Tokens(s, d)
      OBVIOUS
    <3>2. Turn(s, d).token <= row[d].token /\ Turn(s, d).seen <= row[d].token
      BY <3>1 DEF Tokens
    <3> QED BY <3>2, <1>4, <1>5
  <2>2. row'[d].status # "COMPLETED"
    BY <1>12 DEF Acquires, Claimable
  <2>3. /\ Turn(r, d)'.token = row[d].token + 1 /\ objects' = objects
        /\ Turn(r, d)'.step = "reply"
    BY <1>12 DEF Acquires
  <2>4. Distinct(d)'
    BY <2>1, <2>3, <1>1, <1>2, <1>4, <1>5 DEF Kept, Distinct
  <2>5. Gone(d)'
    BY <2>1, <2>3, <1>1, <1>2, <1>4, <1>5 DEF Kept, Gone, At
  <2> QED BY <2>2, <2>4, <2>5 DEF Kept, Finished
<1>13. CASE Starts(r, d)
  BY <1>13, <1>1, <1>2, Unmoved DEF Starts, Holding, Early, At
<1>14. CASE Proceeds(r, d)
  <2>1. /\ Turn(r, d)'.token = Turn(r, d).token /\ Holding(r, d)
        /\ Early(r, d)' => Early(r, d)
        /\ Turn(r, d)'.step \notin {"check", "missing"} /\ row'[d] = row[d]
    BY <1>14 DEF Proceeds, Holding, Early, At
  <2>2. CASE objects' = objects
    BY <2>1, <2>2, <1>1, <1>2, Unmoved
  <2>3. CASE At(r, d, "publish") /\ objects' = objects \cup {<<d, Turn(r, d).token>>}
    <3>1. Early(r, d)
      BY <2>3 DEF Early, At
    <3>2. Distinct(d)'
      BY <2>1, <1>1, <1>2 DEF Kept, Distinct
    <3>3. Finished(d)'
      BY <2>1, <1>1, <1>2 DEF Kept, Finished
    <3>4. Gone(d)'
      BY <2>1, <2>3, <3>1, <1>1, <1>2 DEF Kept, Gone, At
    <3> QED BY <3>2, <3>3, <3>4 DEF Kept
  <2> QED BY <1>14, <2>2, <2>3 DEF Proceeds
<1>15. CASE Completes(r, d)
  <2>1. /\ ~Holding(r, d)' /\ ~Early(r, d)' /\ Holding(r, d)
        /\ Turn(r, d)'.step \notin {"check", "missing"}
    BY <1>15 DEF Completes, Holding, Early, At
  <2>2. Distinct(d)'
    BY <2>1, <1>1, <1>2 DEF Kept, Distinct
  <2>3. Finished(d)'
    BY <1>15, <2>1, <1>1, <1>2, <1>3 DEF Kept, Distinct, Finished, Completes
  <2>4. Gone(d)'
    BY <1>15, <2>1, <1>1, <1>2 DEF Kept, Gone, Completes, At
  <2> QED BY <2>2, <2>3, <2>4 DEF Kept
<1> QED BY <1>6, <1>7, <1>8, <1>9, <1>10, <1>11, <1>12, <1>13, <1>14, <1>15 DEF Shape

LEMMA ObjectsStep == TypeOK /\ Timing /\ Objects /\ [Next]_vars => Objects'
<1> SUFFICES ASSUME TypeOK, Timing, Objects, [Next]_vars, NEW e \in Document PROVE Kept(e)'
  BY DEF Objects
<1>0. Kept(e)
  BY DEF Objects
<1>1. ASSUME NEW r \in Runtime, NEW d \in Document, TurnStep(r, d) PROVE Kept(e)'
  <2>1. Frame(r, d) /\ Shape(r, d)
    BY <1>1, Shapes
  <2>2. CASE e = d
    BY <2>1, <2>2, <1>0, OwnKept DEF Timing
  <2>3. CASE e # d
    <3>1. row'[e] = row[e] /\ \A s \in Runtime : Turn(s, e)' = Turn(s, e)
      BY <2>1, <2>3 DEF Frame
    <3>2. objects' \subseteq objects \cup {<<d, Turn(r, d).token>>}
      BY <2>1 DEF Shape, Rests, Sees, Misses, Reopens, Acquires, Starts, Proceeds, Completes,
                  Releases, Renews, Learns
    <3>3. \A n \in Nat : <<e, n>> \notin objects => <<e, n>> \notin objects'
      BY <2>3, <3>2
    <3> QED BY <3>1, <3>3, <1>0, Unmoved DEF Holding, Early
  <2> QED BY <2>2, <2>3
<1>2. ASSUME NEW r \in Runtime, HeartbeatFails(r) \/ Crash(r) PROVE Kept(e)'
  <2>1. row' = row /\ objects' = objects
    BY <1>2 DEF HeartbeatFails, Crash
  <2>2. ASSUME NEW s \in Runtime
        PROVE  \/ Turn(s, e)' = Turn(s, e) \/ Turn(s, e)' = NoJob
               \/ Turn(s, e)' = [Turn(s, e) EXCEPT !.lost = TRUE]
    <3>1. <<s, e>> \in DOMAIN job
      BY DEF TypeOK
    <3> QED BY <1>2, <3>1 DEF HeartbeatFails, Crash, Turn
  <2>3. ASSUME NEW s \in Runtime
        PROVE  \/ /\ Turn(s, e)'.step = Turn(s, e).step /\ Turn(s, e)'.token = Turn(s, e).token
                  /\ Turn(s, e)'.seen = Turn(s, e).seen
               \/ Turn(s, e)'.step = "idle"
    <3>1. NoJob.step = "idle"
      BY DEF NoJob
    <3> QED BY <2>2, <3>1, Numbers DEF Job
  <2> QED BY <2>1, <2>3, <1>0, Unmoved DEF Holding, Early
<1>3. ASSUME NEW r \in Runtime, Sweep(r) PROVE Kept(e)'
  <2>1. objects' = objects /\ \A s \in Runtime : Turn(s, e)' = Turn(s, e)
    BY <1>3 DEF Sweep, Turn
  <2>2. row'[e] = row[e] \/ row'[e].status # "COMPLETED"
    <3>1. \/ row'[e] = row[e]
          \/ row'[e] = [row[e] EXCEPT !.status = "PERMANENTLY_FAILED", !.owner = Nobody, !.left = 0]
      BY <1>3 DEF Sweep
    <3> QED BY <3>1, Numbers DEF Row
  <2> QED BY <2>1, <2>2, <1>0, Unmoved DEF Holding, Early
<1>4. ASSUME Tick PROVE Kept(e)'
  <2>1. row'[e].owner = row[e].owner /\ row'[e].status = row[e].status /\ row'[e].by = row[e].by
    <3>1. row'[e] = [row[e] EXCEPT !.left = Less(row[e].left), !.wait = FALSE]
      BY <1>4 DEF Tick
    <3> QED BY <3>1, Numbers DEF Row
  <2>2. ASSUME NEW s \in Runtime
        PROVE  /\ Turn(s, e)'.step = Turn(s, e).step /\ Turn(s, e)'.token = Turn(s, e).token
               /\ Turn(s, e)'.seen = Turn(s, e).seen
    <3>1. <<s, e>> \in DOMAIN job
      BY DEF TypeOK
    <3>2. Turn(s, e)' = [Turn(s, e) EXCEPT !.local = Less(Turn(s, e).local),
             !.age = IF Turn(s, e).step = "reply" THEN Turn(s, e).age + 1 ELSE Turn(s, e).age]
      BY <1>4, <3>1 DEF Tick, Turn
    <3> QED BY <3>2, Numbers DEF Job
  <2> QED BY <1>4, <2>1, <2>2, <1>0, Unmoved DEF Tick, Holding, Early
<1>5. CASE ReachTarget \/ (\E o \in objects : Lose(o)) \/ UNCHANGED vars
  <2>1. /\ row' = row /\ objects' \subseteq objects
        /\ \A s \in Runtime : Turn(s, e)' = Turn(s, e)
    BY <1>5 DEF ReachTarget, Lose, vars, Turn
  <2> QED BY <2>1, <1>0, Unmoved DEF Holding, Early
<1> QED BY <1>1, <1>2, <1>3, <1>4, <1>5 DEF Next, TurnStep

\* A completion whose object is there stands: no stale owner, no sweep and no
\* runtime that saw an older object missing reopens it.
THEOREM CompletionsStand == Spec => CompletionStands
<1> DEFINE Stands == \A d \in Document :
             row[d].status = "COMPLETED" /\ <<d, row[d].by>> \in objects
               => row'[d].status = "COMPLETED"
<1>1. Init => TypeOK /\ Charged /\ Timing /\ Objects
  BY TypeInit, TimingInit, ObjectsInit
<1>2. TypeOK /\ Charged /\ Timing /\ Objects /\ [Next]_vars
        => (TypeOK /\ Charged /\ Timing /\ Objects)'
  BY TypeStep, TimingStep, ObjectsStep
<1>3. TypeOK /\ Objects /\ [Next]_vars => [Stands]_vars
  <2> SUFFICES ASSUME TypeOK, Objects, Next, NEW e \in Document,
                      row[e].status = "COMPLETED", <<e, row[e].by>> \in objects
               PROVE  row'[e].status = "COMPLETED"
    OBVIOUS
  <2>1. row[e].owner = Nobody
    BY DEF Objects, Kept, Finished
  <2>2. ASSUME NEW r \in Runtime, NEW d \in Document, TurnStep(r, d)
        PROVE  row'[e].status = "COMPLETED"
    <3>1. Frame(r, d) /\ Shape(r, d)
      BY <2>2, Shapes
    <3>2. ~Fenced(r, e) /\ ~Claimable(e)
      BY <2>1, Apart DEF Fenced, Claimable
    <3>3. ~Reopens(r, e)
      BY DEF Reopens, Objects, Kept, Gone
    <3> QED BY <3>1, <3>2, <3>3 DEF Frame, Shape, Rests, Sees, Misses, Acquires, Starts, Proceeds,
                                   Completes, Releases, Renews, Learns
  <2>3. ASSUME NEW r \in Runtime, HeartbeatFails(r) \/ Crash(r) \/ Sweep(r)
        PROVE  row'[e].status = "COMPLETED"
    BY <2>3 DEF HeartbeatFails, Crash, Sweep, Exhausted
  <2>4. CASE Tick
    <3>1. row'[e] = [row[e] EXCEPT !.left = Less(row[e].left), !.wait = FALSE]
      BY <2>4 DEF Tick
    <3> QED BY <3>1, Numbers DEF Row
  <2>5. CASE ReachTarget \/ \E o \in objects : Lose(o)
    BY <2>5 DEF ReachTarget, Lose
  <2> QED BY <2>2, <2>3, <2>4, <2>5 DEF Next, TurnStep
<1> QED BY <1>1, <1>2, <1>3, PTL DEF Spec, CompletionStands

\* Nobody else gives up a document whose owner holds a live claim.
THEOREM LastAttempts == Spec => LastAttemptCounts
<1> DEFINE Counts == \A d \in Document, r \in Runtime :
             /\ row[d].status = "OPEN" /\ row'[d].status = "PERMANENTLY_FAILED"
             /\ Turn(r, d).step # "idle" /\ Fenced(r, d)
             => At(r, d, "settle")
<1>1. Init => TypeOK /\ Charged
  BY TypeInit
<1>2. TypeOK /\ Charged /\ [Next]_vars => (TypeOK /\ Charged)'
  BY TypeStep
<1>3. TypeOK /\ [Next]_vars => [Counts]_vars
  <2> SUFFICES ASSUME TypeOK, Next, NEW e \in Document, NEW s \in Runtime,
                      row[e].status = "OPEN", row'[e].status = "PERMANENTLY_FAILED",
                      Fenced(s, e)
               PROVE  At(s, e, "settle")
    OBVIOUS
  <2>1. ASSUME NEW r \in Runtime, NEW d \in Document, TurnStep(r, d) PROVE At(s, e, "settle")
    <3>1. Frame(r, d) /\ Shape(r, d)
      BY <2>1, Shapes
    <3>2. e = d /\ Releases(r, d)
      BY <3>1 DEF Frame, Shape, Rests, Sees, Misses, Reopens, Acquires, Starts, Proceeds,
                  Completes, Renews, Learns
    <3> QED BY <3>2 DEF Releases, Fenced
  <2>2. ASSUME NEW r \in Runtime, HeartbeatFails(r) \/ Crash(r) PROVE FALSE
    BY <2>2 DEF HeartbeatFails, Crash
  <2>3. ASSUME NEW r \in Runtime, Sweep(r) PROVE FALSE
    BY <2>3, Apart DEF Sweep, Exhausted, Free, Fenced
  <2>4. CASE Tick
    <3>1. row'[e] = [row[e] EXCEPT !.left = Less(row[e].left), !.wait = FALSE]
      BY <2>4 DEF Tick
    <3> QED BY <3>1, Numbers DEF Row
  <2>5. CASE ReachTarget \/ \E o \in objects : Lose(o)
    BY <2>5 DEF ReachTarget, Lose
  <2> QED BY <2>1, <2>2, <2>3, <2>4, <2>5 DEF Next, TurnStep
<1> QED BY <1>1, <1>2, <1>3, PTL DEF Spec, LastAttemptCounts

-----------------------------------------------------------------------------
(* Claims are paid for                                                     *)

\* A turn that will be refunded has been counted among the troubles.
Paid(r, d) ==
  /\ row[d].token <= row[d].attempt + troubles
  /\ At(r, d, "settle") /\ Turn(r, d).refund /\ Owns(r, d)
       => row[d].token + 1 <= row[d].attempt + troubles
Accounts == \A r \in Runtime, d \in Document : Paid(r, d)

LEMMA PaidInit == Init => Accounts
<1> SUFFICES ASSUME Init, NEW r \in Runtime, NEW d \in Document PROVE Paid(r, d)
  BY DEF Accounts
<1>1. Turn(r, d).step = "idle" /\ row[d].token = 0 /\ row[d].attempt = 0 /\ troubles = 0
  BY DEF Init, Turn, NoJob
<1> QED BY <1>1 DEF Paid, At

LEMMA PaidStep == TypeOK /\ TypeOK' /\ Accounts /\ [Next]_vars => Accounts'
<1> SUFFICES ASSUME TypeOK, TypeOK', Accounts, [Next]_vars, NEW s \in Runtime, NEW e \in Document
             PROVE  Paid(s, e)'
  BY DEF Accounts
<1>0. Paid(s, e)
  BY DEF Accounts
<1>1. /\ row[e].token \in Nat /\ row[e].attempt \in Nat /\ troubles \in Nat
      /\ Turn(s, e) \in Job /\ row[e] \in Row
  <2>1. Turn(s, e) \in Job /\ row[e] \in Row /\ troubles \in 0..MaxTroubles
    BY Numbers DEF TypeOK
  <2>2. row[e].token \in Nat /\ row[e].attempt \in 0..MaxAttempts
    BY <2>1 DEF Row
  <2> QED BY <2>1, <2>2
<1>2. ASSUME row'[e].token = row[e].token, row'[e].attempt = row[e].attempt,
             troubles' \in {troubles, troubles + 1},
             \/ row'[e].owner = Nobody
             \/ /\ row'[e].owner = row[e].owner
                /\ \/ Turn(s, e)'.step # "settle" \/ ~Turn(s, e)'.refund
                   \/ /\ Turn(s, e)'.step = Turn(s, e).step
                      /\ Turn(s, e)'.token = Turn(s, e).token
                      /\ Turn(s, e)'.refund = Turn(s, e).refund
      PROVE  Paid(s, e)'
  BY <1>0, <1>1, <1>2, Apart DEF Paid, At, Owns
<1>3. ASSUME NEW r \in Runtime, NEW d \in Document, TurnStep(r, d) PROVE Paid(s, e)'
  <2>1. Frame(r, d) /\ Shape(r, d)
    BY <1>3, Shapes
  <2>2. troubles' \in {troubles, troubles + 1}
    BY <2>1 DEF Shape
  <2>3. CASE e # d
    BY <2>1, <2>2, <2>3, <1>2 DEF Frame
  <2>4. CASE e = d /\ s # r
    <3>1. Turn(s, d)' = Turn(s, d)
      BY <2>1, <2>4 DEF Frame
    <3>2. CASE Acquires(r, d)
      BY <2>2, <2>4, <3>2, <1>0, <1>1 DEF Acquires, Paid, Owns
    <3>3. CASE Releases(r, d)
      <4>1. row'[d].owner = Nobody /\ row'[d].token = row[d].token
        BY <3>3 DEF Releases
      <4>2. Turn(r, d).refund => row[d].token + 1 <= row[d].attempt + troubles
        BY <3>3 DEF Releases, Fenced, Accounts, Paid, Owns
      <4>3. row'[d].token <= row'[d].attempt + troubles'
        BY <2>2, <2>4, <3>3, <4>2, <1>0, <1>1 DEF Releases, Paid
      <4> QED BY <2>4, <4>1, <4>3, Apart DEF Paid, Owns
    <3>4. CASE row'[d] = row[d] \/ Reopens(r, d) \/ Completes(r, d) \/ Renews(r, d)
      BY <2>2, <2>4, <3>1, <3>4, <1>2 DEF Reopens, Completes, Renews
    <3> QED BY <2>1, <3>2, <3>3, <3>4 DEF Shape, Rests, Sees, Misses, Starts, Proceeds, Learns
  <2>5. CASE e = d /\ s = r
    <3>1. CASE Rests(r, d)
      BY <2>2, <2>5, <3>1, <1>0, <1>1 DEF Rests, Paid, At, Owns
    <3>2. CASE Acquires(r, d)
      BY <2>2, <2>5, <3>2, <1>0, <1>1 DEF Acquires, Paid, At
    <3>3. CASE Releases(r, d)
      BY <2>2, <2>5, <3>3, <1>0, <1>1 DEF Releases, Fenced, Paid, Owns, At
    <3>4. CASE Sees(r, d) \/ Misses(r, d) \/ Reopens(r, d) \/ Starts(r, d) \/ Proceeds(r, d)
      BY <2>2, <2>5, <3>4, <1>2 DEF Sees, Misses, Reopens, Starts, Proceeds
    <3>5. CASE Completes(r, d) \/ Renews(r, d)
      BY <2>2, <2>5, <3>5, <1>2 DEF Completes, Renews
    <3>6. CASE Learns(r, d)
      BY <2>2, <2>5, <3>6, <1>2 DEF Learns, SameTurn
    <3> QED BY <2>1, <3>1, <3>2, <3>3, <3>4, <3>5, <3>6 DEF Shape
  <2> QED BY <2>3, <2>4, <2>5
<1>4. ASSUME NEW r \in Runtime, HeartbeatFails(r) \/ Crash(r) PROVE Paid(s, e)'
  <2>1. row' = row /\ troubles' = troubles + 1
    BY <1>4 DEF HeartbeatFails, Crash
  <2>2. \/ Turn(s, e)' = Turn(s, e) \/ Turn(s, e)' = NoJob
        \/ Turn(s, e)' = [Turn(s, e) EXCEPT !.lost = TRUE]
    <3>1. <<s, e>> \in DOMAIN job
      BY DEF TypeOK
    <3> QED BY <1>4, <3>1 DEF HeartbeatFails, Crash, Turn
  <2>3. NoJob.step = "idle"
    BY DEF NoJob
  <2>4. \/ /\ Turn(s, e)'.step = Turn(s, e).step /\ Turn(s, e)'.token = Turn(s, e).token
           /\ Turn(s, e)'.refund = Turn(s, e).refund
        \/ Turn(s, e)'.step = "idle"
    BY <2>2, <2>3, <1>1 DEF Job
  <2> QED BY <2>1, <2>4, <1>2
<1>5. ASSUME NEW r \in Runtime, Sweep(r) PROVE Paid(s, e)'
  <2>1. troubles' = troubles /\ Turn(s, e)' = Turn(s, e)
    BY <1>5 DEF Sweep, Turn
  <2>2. \/ row'[e] = row[e]
        \/ row'[e] = [row[e] EXCEPT !.status = "PERMANENTLY_FAILED", !.owner = Nobody, !.left = 0]
    BY <1>5 DEF Sweep
  <2>3. \/ row'[e] = row[e]
        \/ /\ row'[e].owner = Nobody /\ row'[e].token = row[e].token
           /\ row'[e].attempt = row[e].attempt
    BY <2>2, <1>1 DEF Row
  <2> QED BY <2>1, <2>3, <1>2
<1>6. ASSUME Tick PROVE Paid(s, e)'
  <2>1. /\ row'[e].owner = row[e].owner /\ row'[e].token = row[e].token
        /\ row'[e].attempt = row[e].attempt
    <3>1. row'[e] = [row[e] EXCEPT !.left = Less(row[e].left), !.wait = FALSE]
      BY <1>6 DEF Tick
    <3> QED BY <3>1, <1>1 DEF Row
  <2>2. /\ Turn(s, e)'.step = Turn(s, e).step /\ Turn(s, e)'.token = Turn(s, e).token
        /\ Turn(s, e)'.refund = Turn(s, e).refund
    <3>1. <<s, e>> \in DOMAIN job
      BY DEF TypeOK
    <3>2. Turn(s, e)' = [Turn(s, e) EXCEPT !.local = Less(Turn(s, e).local),
             !.age = IF Turn(s, e).step = "reply" THEN Turn(s, e).age + 1 ELSE Turn(s, e).age]
      BY <1>6, <3>1 DEF Tick, Turn
    <3> QED BY <3>2, <1>1 DEF Job
  <2>3. troubles' = troubles
    BY <1>6 DEF Tick
  <2> QED BY <2>1, <2>2, <2>3, <1>2
<1>7. CASE ReachTarget \/ (\E o \in objects : Lose(o)) \/ UNCHANGED vars
  BY <1>7, <1>2 DEF ReachTarget, Lose, vars, Turn
<1> QED BY <1>3, <1>4, <1>5, <1>6, <1>7 DEF Next, TurnStep

\* A document is claimed once per attempt and once per deferred turn, whatever
\* expires, is lost or crashes.
THEOREM ClaimsArePaid == Spec => []ClaimsBounded
<1>1. Init => TypeOK /\ Charged /\ Accounts
  BY TypeInit, PaidInit
<1>2. TypeOK /\ Charged /\ Accounts /\ [Next]_vars => (TypeOK /\ Charged /\ Accounts)'
  BY TypeStep, PaidStep
<1>3. TypeOK /\ Accounts => ClaimsBounded
  <2> SUFFICES ASSUME TypeOK, Accounts, NEW d \in Document
               PROVE  row[d].token <= MaxAttempts + troubles
    BY DEF ClaimsBounded
  <2>1. row[d].attempt \in 0..MaxAttempts /\ row[d].token \in Nat /\ troubles \in Nat
    BY DEF TypeOK, Row
  <2>2. PICK r \in Runtime : Paid(r, d)
    BY DEF Accounts
  <2> QED BY <2>1, <2>2 DEF Paid
<1> QED BY <1>1, <1>2, <1>3, PTL DEF Spec
=============================================================================
