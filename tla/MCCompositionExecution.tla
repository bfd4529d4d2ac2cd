----------------------- MODULE MCCompositionExecution -----------------------
(* Instances of CompositionExecution for TLC. *)
EXTENDS CompositionExecution, TLC

CONSTANTS r1, r2, r3, t1, t2, t3

\* One execution that waits for a clock, calls a tool and asks a person.
GatesPlan == r1 :> <<"wait_until", "tool", "approval">>

\* A parent that waits for one child.  r2 would call a sub-composition of
\* its own, which the depth cap refuses; r3 waits for a clock.
NestedPlan == r1 :> <<"subcomposition", "tool">>
              @@ r2 :> <<"subcomposition">>
              @@ r3 :> <<"wait_until">>

\* Two questions in a row.
TwoGatesPlan == r1 :> <<"wait_until", "approval">>

TaskSymmetry == Permutations(Tasks)
=============================================================================
