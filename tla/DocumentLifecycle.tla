-------------------------- MODULE DocumentLifecycle --------------------------
(***************************************************************************)
(* What the download scheduler promises for each document, with no queue,  *)
(* no worker and no lock: one life at a time, a bounded number of failed   *)
(* turns, deferrals that cost nothing, and no way back once it is finished *)
(* or once the run has been shut down.                                     *)
(***************************************************************************)
EXTENDS Integers

CONSTANTS
  Docs,
  Budget      \* failed turns a document may use

VARIABLES
  phase,      \* document -> where it is in its life
  spent,      \* document -> failed turns it used
  open        \* the scheduler accepts and retries work

lifeVars == <<phase, spent, open>>

Phases == {"out", "waiting", "working", "completed", "terminal", "dropped"}

Init == /\ phase = [d \in Docs |-> "out"]
        /\ spent = [d \in Docs |-> 0]
        /\ open = TRUE

Move(d, from, to) ==
  /\ phase[d] = from
  /\ phase' = [phase EXCEPT ![d] = to]
  /\ open' = open

\* A document enters, possibly with what it spent in an earlier process.
Admit(d) ==
  /\ open
  /\ Move(d, "out", "waiting")
  /\ \E used \in 0..Budget : used < Budget /\ spent' = [spent EXCEPT ![d] = used]

Take(d) == Move(d, "waiting", "working") /\ spent' = spent

\* A turn that does not finish the document: a deferral is free, a failure costs
\* one of the turns it has left.
Defer(d) == open /\ Move(d, "working", "waiting") /\ spent' = spent

Retry(d) ==
  /\ open
  /\ Move(d, "working", "waiting")
  /\ spent[d] + 1 < Budget
  /\ spent' = [spent EXCEPT ![d] = @ + 1]

Complete(d) == Move(d, "working", "completed") /\ spent' = spent

GiveUp(d) == Move(d, "working", "terminal") /\ spent' = spent

\* The turn was cancelled, or it ended after the shutdown.
Abandon(d) == Move(d, "working", "out") /\ spent' = spent

\* Waiting documents are forgotten; those in a worker's hand finish their turn.
Shutdown ==
  /\ open' = FALSE
  /\ \E lost \in SUBSET {d \in Docs : phase[d] = "waiting"} :
       phase' = [d \in Docs |-> IF d \in lost THEN "dropped" ELSE phase[d]]
  /\ spent' = spent

Next ==
  \/ \E d \in Docs : \/ Admit(d) \/ Take(d) \/ Defer(d) \/ Retry(d)
                     \/ Complete(d) \/ GiveUp(d) \/ Abandon(d)
  \/ Shutdown

Spec == Init /\ [][Next]_lifeVars
=============================================================================
