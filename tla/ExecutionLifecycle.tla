------------------------- MODULE ExecutionLifecycle -------------------------
(***************************************************************************)
(* What a durable execution promises its owner, without tasks, crashes or  *)
(* databases: the steps of the composition are done one at a time, in the  *)
(* order they are declared and each of them once; an execution waits only  *)
(* in front of a step and goes on when that step is answered; it completes *)
(* only when every step is done; and what has ended stays as it ended.     *)
(*                                                                         *)
(* One thing is not promised, because a suspension has no identity: an     *)
(* answer prepared while the execution waited elsewhere may be taken for   *)
(* the answer awaited now.  Then the execution goes on from where that     *)
(* answer was prepared, and is marked as misplaced.                        *)
(***************************************************************************)
EXTENDS Naturals

CONSTANTS Executions, Length   \* Length[e]: number of steps of e

VARIABLES
  phase,
  done,        \* done[e]: the steps of e that are done
  misplaced    \* misplaced[e]: e took an answer that was not for it

lvars == <<phase, done, misplaced>>

Ended == {"completed", "failed", "expired", "cancelled"}

Enter(e, from, to) == phase[e] = from /\ phase' = [phase EXCEPT ![e] = to]

\* The next step of e, in order, becomes done.
DoNext(e) ==
  \E k \in 1..Length[e] :
    /\ done[e] = 1..(k - 1)
    /\ done' = [done EXCEPT ![e] = 1..k]

Start(e) == Enter(e, "absent", "running") /\ UNCHANGED <<done, misplaced>>

Advance(e) == phase[e] = "running" /\ DoNext(e) /\ UNCHANGED <<phase, misplaced>>

Wait(e) ==
  /\ done[e] # 1..Length[e]
  /\ Enter(e, "running", "suspended")
  /\ UNCHANGED <<done, misplaced>>

Answer(e) ==
  Enter(e, "suspended", "running") /\ DoNext(e) /\ UNCHANGED misplaced

Misplace(e) ==
  /\ Enter(e, "suspended", "running")
  /\ \E j \in 0..Length[e] : done' = [done EXCEPT ![e] = 1..j]
  /\ misplaced' = [misplaced EXCEPT ![e] = TRUE]

Complete(e) ==
  /\ done[e] = 1..Length[e]
  /\ Enter(e, "running", "completed")
  /\ UNCHANGED <<done, misplaced>>

Cancel(e) == Enter(e, "running", "cancelled") /\ UNCHANGED <<done, misplaced>>

Expire(e) == Enter(e, "suspended", "expired") /\ UNCHANGED <<done, misplaced>>

\* A restart may fail every running execution at once.
Fail(S) ==
  /\ \A e \in S : phase[e] = "running"
  /\ phase' = [e \in Executions |-> IF e \in S THEN "failed" ELSE phase[e]]
  /\ UNCHANGED <<done, misplaced>>

LInit ==
  /\ phase = [e \in Executions |-> "absent"]
  /\ done = [e \in Executions |-> {}]
  /\ misplaced = [e \in Executions |-> FALSE]

LNext ==
  \/ \E e \in Executions :
       \/ Start(e) \/ Advance(e) \/ Wait(e) \/ Answer(e) \/ Misplace(e)
       \/ Complete(e) \/ Cancel(e) \/ Expire(e)
  \/ \E S \in SUBSET Executions : Fail(S)

LSpec == LInit /\ [][LNext]_lvars
=============================================================================
