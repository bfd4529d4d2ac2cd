---------------------- MODULE CompositionExecution_proofs ----------------------
(***************************************************************************)
(* What holds of CompositionExecution for all executions, compositions,    *)
(* numbers of coroutines and depth caps: RunnerInv is an inductive         *)
(* invariant, and the safety properties below follow from it.              *)
(*                                                                         *)
(* The argument.  A coroutine inside _run_loop owns its row; the row is    *)
(* then running.  The ways to come to own a row are an INSERT of an absent *)
(* row and the conditional UPDATE of resume() on a suspended one, and      *)
(* neither can be owned; the ways out of running retire the owner first,   *)
(* or happen (the sweep) when no coroutine is alive.                       *)
(***************************************************************************)
EXTENDS CompositionExecution, WellFoundedInduction, TLAPS

-----------------------------------------------------------------------------
(* Data *)

\* Every non-empty set of naturals has a least element.
LEMMA LeastNat ==
  ASSUME NEW S \in SUBSET Nat, S # {}
  PROVE  \E m \in S : \A u \in S : m <= u
<1>1. PICK m \in S : \A u \in S : <<u, m>> \notin OpToRel(<, Nat)
  BY NatLessThanWellFounded, WFMin
<1>2. \A u \in S : ~(u < m)
  BY <1>1 DEF OpToRel
<1> QED
  BY <1>2

\* The step the loop takes next is one of the open ones.
LEMMA NextStepIsOpen ==
  ASSUME NEW r \in Rows, NEW st, OpenSteps(r, st) # {}
  PROVE  NextStep(r, st) \in OpenSteps(r, st)
<1>1. OpenSteps(r, st) \subseteq Nat
  BY DEF OpenSteps
<1>2. \E s \in OpenSteps(r, st) : \A u \in OpenSteps(r, st) : s <= u
  BY <1>1, LeastNat
<1> QED
  BY <1>2 DEF NextStep

\* Steps of a composition are steps, and their kinds are step kinds.
LEMMA PlanSteps ==
  ASSUME NEW r \in Rows
  PROVE  /\ 1..Len(Plan[r]) \subseteq Steps
         /\ \A s \in 1..Len(Plan[r]) : Kind(r, s) \in StepKinds
<1>1. Plan[r] \in Seq(StepKinds) /\ Len(Plan[r]) <= MaxSteps /\ MaxSteps \in Nat
  BY PlanAssumption
<1>2. Len(Plan[r]) \in Nat /\ \A s \in 1..Len(Plan[r]) : Plan[r][s] \in StepKinds
  BY <1>1
<1> QED
  BY <1>1, <1>2 DEF Steps, Kind

LEMMA FreshStateType == FreshState \in ExecutionState
  BY DEF FreshState, ExecutionState, StepStatuses

LEMMA WithStepType ==
  ASSUME NEW st \in ExecutionState, NEW s \in Steps, NEW v \in StepStatuses
  PROVE  /\ WithStep(st, s, v) \in ExecutionState
         /\ WithStep(st, s, v).current = st.current
  BY DEF WithStep, ExecutionState

LEMMA AnsweredType ==
  ASSUME NEW st \in ExecutionState, st.current # 0
  PROVE  Answered(st) \in ExecutionState
  BY DEF Answered, ExecutionState, StepStatuses, Steps
-----------------------------------------------------------------------------
(* What the helpers on tasks do *)

LEMMA RetireEffect ==
  ASSUME task \in [Tasks -> TaskRecords], NEW t \in Tasks, Retire(t)
  PROVE  /\ task' \in [Tasks -> TaskRecords]
         /\ task'[t].pc = "idle" /\ task'[t].via = "none"
         /\ \A u \in Tasks : u # t => task'[u] = task[u]
  BY FreshStateType DEF Retire, Idle, TaskRecord, TaskRecords, Pcs

LEMMA ContinueEffect ==
  ASSUME task \in [Tasks -> TaskRecords], NEW t \in Tasks,
         NEW pc \in Pcs, NEW st \in ExecutionState, Continue(t, pc, st)
  PROVE  /\ task' \in [Tasks -> TaskRecords]
         /\ task'[t].pc = pc /\ task'[t].state = st
         /\ task'[t].row = task[t].row /\ task'[t].via = task[t].via
         /\ task'[t].outcome = task[t].outcome
         /\ task'[t].checked = task[t].checked
         /\ \A u \in Tasks : u # t => task'[u] = task[u]
  BY DEF Continue, TaskRecords

\* The same, whatever the state is.
LEMMA ContinueMoves ==
  ASSUME task \in [Tasks -> TaskRecords], NEW t \in Tasks,
         NEW pc, NEW st, Continue(t, pc, st)
  PROVE  /\ task'[t].pc = pc /\ task'[t].state = st /\ task'[t].row = task[t].row
         /\ \A u \in Tasks : u # t => task'[u] = task[u]
  BY DEF Continue, TaskRecords

LEMMA FinishAsMoves ==
  ASSUME task \in [Tasks -> TaskRecords], NEW t \in Tasks,
         NEW outcome, NEW st, FinishAs(t, outcome, st)
  PROVE  /\ task'[t].pc = "finish" /\ task'[t].state = st
         /\ task'[t].row = task[t].row
         /\ \A u \in Tasks : u # t => task'[u] = task[u]
  BY DEF FinishAs, TaskRecords

LEMMA FinishAsEffect ==
  ASSUME task \in [Tasks -> TaskRecords], NEW t \in Tasks,
         NEW outcome \in {"completed", "failed", "cancelled"},
         NEW st \in ExecutionState, FinishAs(t, outcome, st)
  PROVE  /\ task' \in [Tasks -> TaskRecords]
         /\ task'[t].pc = "finish" /\ task'[t].state = st
         /\ task'[t].row = task[t].row /\ task'[t].via = task[t].via
         /\ task'[t].outcome = outcome
         /\ \A u \in Tasks : u # t => task'[u] = task[u]
  BY ZenonT(40) DEF FinishAs, TaskRecords, Pcs

\* A coroutine starts, detached or to resume a row.
LEMMA DetachedType ==
  ASSUME NEW r \in Rows
  PROVE  /\ Detached(r) \in TaskRecords
         /\ Detached(r).pc = "spawned" /\ Detached(r).row = r
         /\ Detached(r).via = "detached"
  BY FreshStateType DEF Detached, TaskRecord, TaskRecords, Pcs

LEMMA ResumingType ==
  ASSUME NEW r \in Rows, NEW via \in Responders, NEW s \in Steps \cup {0}
  PROVE  /\ Resuming(r, via, s) \in TaskRecords
         /\ Resuming(r, via, s).pc = "resume" /\ Resuming(r, via, s).row = r
         /\ Resuming(r, via, s).via = via
  BY FreshStateType DEF Resuming, TaskRecord, TaskRecords, Pcs
LEMMA SpawnChildEffect ==
  ASSUME task \in [Tasks -> TaskRecords], NEW t \in Tasks, NEW u \in Tasks,
         NEW c \in Rows, SpawnChild(t, u, c)
  PROVE  /\ t # u
         /\ task' \in [Tasks -> TaskRecords]
         /\ task'[t].pc = "suspend" /\ task'[t].row = task[t].row
         /\ task'[t].via = task[t].via /\ task'[t].outcome = task[t].outcome
         /\ task'[t].state.current = task[t].state.current
         /\ task'[u] = Detached(c)
         /\ \A v \in Tasks : v \notin {t, u} => task'[v] = task[v]
<1> DEFINE st == [task[t].state EXCEPT !.child = c]
           x == [task[t] EXCEPT !.pc = "suspend", !.state = st]
<1>1. t # u
  BY DEF SpawnChild, IsIdle
<1>s. task[t].state \in ExecutionState
  BY DEF TaskRecords
<1>2. st \in ExecutionState /\ st.current = task[t].state.current
  BY <1>s, SMTT(30) DEF ExecutionState
<1>3. /\ x \in TaskRecords
      /\ x.pc = "suspend" /\ x.row = task[t].row /\ x.via = task[t].via
      /\ x.outcome = task[t].outcome /\ x.state = st
  BY <1>2, ZenonT(40) DEF TaskRecords, Pcs
<1>4. task' = [task EXCEPT ![t] = x, ![u] = Detached(c)]
  BY DEF SpawnChild
<1> HIDE DEF st, x
<1>5. Detached(c) \in TaskRecords
  BY DetachedType
<1> QED
  BY <1>1, <1>2, <1>3, <1>4, <1>5
-----------------------------------------------------------------------------
(* The invariant holds initially *)

LEMMA RunnerInvInit == Init => RunnerInv
<1> SUFFICES ASSUME Init PROVE RunnerInv
  OBVIOUS
<1>1. Idle \in TaskRecords /\ Idle.pc = "idle" /\ Idle.via = "none"
  BY FreshStateType DEF Idle, TaskRecord, TaskRecords, Pcs
<1>2. \A t \in Tasks : task[t] = Idle
  BY DEF Init
<1>3. TypeOK
  BY <1>1, <1>2, FreshStateType, BoundAssumption DEF Init, TypeOK, IsIdle
<1>4. DownMeansEmpty
  BY DEF Init, DownMeansEmpty
<1>5. ProgramPoints
  BY <1>1, <1>2 DEF ProgramPoints, AtItsPoint
<1>6. OneRunnerPerRow
  BY <1>1, <1>2 DEF OneRunnerPerRow, Owns, LoopPcs
<1>7. ParentsExist /\ DepthBounded
  BY BoundAssumption DEF Init, ParentsExist, DepthBounded
<1> QED
  BY <1>3, <1>4, <1>5, <1>6, <1>7 DEF RunnerInv
-----------------------------------------------------------------------------
(* Type correctness *)

\* What TypeOK and ProgramPoints say of one live task.
LEMMA LiveTask ==
  ASSUME RunnerInv, NEW t \in Tasks, ~IsIdle(t)
  PROVE  /\ task \in [Tasks -> TaskRecords]
         /\ task[t] \in TaskRecords
         /\ task[t].row \in Rows
         /\ task[t].state \in ExecutionState
         /\ state[task[t].row] \in ExecutionState
  BY DEF RunnerInv, TypeOK, TaskRecords

\* A step that touches nothing but coroutines.
LEMMA OnlyTasksMove ==
  ASSUME TypeOK, UNCHANGED <<rowVars, scan, up, crashes, faults>>,
         task' \in [Tasks -> TaskRecords],
         \A t \in Tasks : task'[t].pc # "idle" => task'[t].row \in Rows
  PROVE  TypeOK'
<1>1. UNCHANGED <<status, state, cancel_requested, due, parent, depth, late,
                  calls, misplaced, scan, up, crashes, faults>>
  BY DEF rowVars, history
<1> QED
  BY <1>1 DEF TypeOK, IsIdle

LEMMA TypeStep == RunnerInv /\ Next => TypeOK'
<1> SUFFICES ASSUME RunnerInv, Next PROVE TypeOK'
  OBVIOUS
<1> USE DEF RunnerInv, history
<1>1. ASSUME NEW t \in Tasks, RunLoad(t) PROVE TypeOK'
  <2>1. ~IsIdle(t)
    BY <1>1 DEF RunLoad, IsIdle
  <2>2. CASE Retire(t)
    BY <1>1, <2>2, RetireEffect, OnlyTasksMove DEF RunLoad, TypeOK, IsIdle
  <2>3. CASE Continue(t, "check", state[task[t].row])
    <3>1. /\ task' \in [Tasks -> TaskRecords] /\ task'[t].row \in Rows
          /\ \A u \in Tasks : u # t => task'[u] = task[u]
      BY <2>1, <2>3, LiveTask, ContinueEffect DEF Pcs
    <3> QED
      BY <1>1, <3>1, OnlyTasksMove DEF RunLoad, TypeOK, IsIdle
  <2> QED
    BY <1>1, <2>2, <2>3 DEF RunLoad
<1>2. ASSUME NEW t \in Tasks, Boundary(t) PROVE TypeOK'
  <2>1. ~IsIdle(t)
    BY <1>2 DEF Boundary, IsIdle
  <2>2. CASE Continue(t, "begin", task[t].state)
    <3>1. /\ task' \in [Tasks -> TaskRecords] /\ task'[t].row \in Rows
          /\ \A u \in Tasks : u # t => task'[u] = task[u]
      BY <2>1, <2>2, LiveTask, ContinueEffect DEF Pcs
    <3> QED
      BY <1>2, <3>1, OnlyTasksMove DEF Boundary, TypeOK, IsIdle
  <2>3. CASE \E o \in {"cancelled", "completed"} : FinishAs(t, o, task[t].state)
    <3>1. /\ task' \in [Tasks -> TaskRecords] /\ task'[t].row \in Rows
          /\ \A u \in Tasks : u # t => task'[u] = task[u]
      BY <2>1, <2>3, LiveTask, FinishAsEffect
    <3> QED
      BY <1>2, <3>1, OnlyTasksMove DEF Boundary, TypeOK, IsIdle
  <2> QED
    BY <1>2, <2>2, <2>3 DEF Boundary
<1>3. ASSUME NEW t \in Tasks, BeginStep(t) PROVE TypeOK'
  <2> DEFINE r == task[t].row
             s == NextStep(r, task[t].state)
             st == [WithStep(task[t].state, s, "in_progress") EXCEPT !.current = s]
  <2>1. ~IsIdle(t)
    BY <1>3 DEF BeginStep, IsIdle
  <2>2. r \in Rows /\ task[t].state \in ExecutionState
    BY <2>1, LiveTask
  <2>3. s \in Steps
    BY <1>3, <2>2, NextStepIsOpen, PlanSteps DEF BeginStep, ProgramPoints, AtItsPoint, OpenSteps
  <2>4. st \in ExecutionState
    BY <2>2, <2>3, WithStepType DEF ExecutionState, StepStatuses
  <2>5. Continue(t, "dispatch", st) /\ Save(r, st)
    BY <1>3 DEF BeginStep
  <2>6. calls' \in [Rows -> [Steps -> Nat]] /\ late' \in [Rows -> Nat]
    BY <1>3, <2>2, <2>3 DEF BeginStep, TypeOK
  <2>7. UNCHANGED <<status, cancel_requested, due, parent, depth, misplaced,
                    scan, up, crashes, faults>>
    BY <1>3 DEF BeginStep
  <2> HIDE DEF s, st
  <2>8. /\ task' \in [Tasks -> TaskRecords] /\ task'[t].row \in Rows
        /\ \A u \in Tasks : u # t => task'[u] = task[u]
    BY <2>1, <2>2, <2>4, <2>5, LiveTask, ContinueEffect DEF Pcs
  <2>9. state' \in [Rows -> ExecutionState]
    BY <2>2, <2>4, <2>5 DEF Save, TypeOK
  <2>10. \A u \in Tasks : task'[u].pc # "idle" => task'[u].row \in Rows
    BY <2>8 DEF TypeOK, IsIdle
  <2> QED
    BY <2>6, <2>7, <2>8, <2>9, <2>10 DEF TypeOK, IsIdle
<1>4. ASSUME NEW t \in Tasks, StepSucceeds(t) PROVE TypeOK'
  <2> DEFINE r == task[t].row
             s == task[t].state.current
             st == [WithStep(task[t].state, s, "succeeded") EXCEPT !.current = 0]
  <2>1. ~IsIdle(t)
    BY <1>4 DEF StepSucceeds, IsIdle
  <2>2. r \in Rows /\ task[t].state \in ExecutionState /\ s \in Steps
    BY <1>4, <2>1, LiveTask, PlanSteps DEF StepSucceeds, ProgramPoints, AtItsPoint
  <2>3. st \in ExecutionState
    BY <2>2, WithStepType DEF ExecutionState, StepStatuses
  <2>4. Continue(t, "check", st) /\ Save(r, st)
    BY <1>4 DEF StepSucceeds
  <2> QED
    BY <1>4, <2>1, <2>2, <2>3, <2>4, ContinueEffect
    DEF StepSucceeds, TypeOK, IsIdle, Save, Pcs
<1>5. ASSUME NEW t \in Tasks, StepRaises(t) PROVE TypeOK'
  <2> DEFINE r == task[t].row
             s == task[t].state.current
             st == WithStep(task[t].state, s, "failed")
  <2>1. ~IsIdle(t)
    BY <1>5 DEF StepRaises, IsIdle
  <2>2. r \in Rows /\ task[t].state \in ExecutionState /\ s \in Steps
    BY <1>5, <2>1, LiveTask, PlanSteps DEF StepRaises, ProgramPoints, AtItsPoint
  <2>3. st \in ExecutionState
    BY <2>2, WithStepType DEF StepStatuses
  <2>4. FinishAs(t, "failed", st) /\ Save(r, st)
    BY <1>5 DEF StepRaises
  <2> QED
    BY <1>5, <2>1, <2>2, <2>3, <2>4, FinishAsEffect
    DEF StepRaises, TypeOK, IsIdle, Save
<1>6. ASSUME NEW t \in Tasks, NEW u \in Tasks, NEW c \in Rows, SpawnChild(t, u, c)
      PROVE  TypeOK'
  <2>1. ~IsIdle(t) /\ IsIdle(u) /\ t # u
    BY <1>6 DEF SpawnChild, IsIdle
  <2>2. /\ task[t].row \in Rows
        /\ task' \in [Tasks -> TaskRecords]
        /\ task'[t].row = task[t].row /\ task'[u].row = c
        /\ \A v \in Tasks : v \notin {t, u} => task'[v] = task[v]
    BY <1>6, <2>1, LiveTask, SpawnChildEffect, DetachedType DEF TypeOK
  <2>3. UNCHANGED <<cancel_requested, due, late, calls, misplaced,
                    scan, up, crashes, faults>>
    BY <1>6 DEF SpawnChild
  <2>4. \A v \in Tasks : task'[v].pc # "idle" => task'[v].row \in Rows
    BY <2>2 DEF TypeOK, IsIdle
  <2>5. /\ status' \in [Rows -> TerminalStatuses \cup {"absent", "running", "suspended"}]
        /\ state' \in [Rows -> ExecutionState]
        /\ parent' \in [Rows -> Rows \cup {NoRow}]
        /\ depth' \in [Rows -> Nat]
    BY <1>6, <2>2, FreshStateType DEF SpawnChild, Insert, TypeOK
  <2> QED
    BY <2>2, <2>3, <2>4, <2>5 DEF TypeOK, IsIdle
<1>7. ASSUME NEW t \in Tasks, MarkSuspended(t) PROVE TypeOK'
  <2> DEFINE r == task[t].row
             kind == Kind(r, task[t].state.current)
             st == [task[t].state EXCEPT !.suspension = kind]
  <2>1. ~IsIdle(t) /\ Retire(t)
    BY <1>7 DEF MarkSuspended, IsIdle
  <2>2. /\ r \in Rows /\ task[t].state \in ExecutionState
        /\ task[t].state.current \in 1..Len(Plan[r])
    BY <1>7, <2>1, LiveTask DEF MarkSuspended, ProgramPoints, AtItsPoint
  <2>3. st \in ExecutionState
    BY <2>2, PlanSteps DEF ExecutionState
  <2>4. /\ task' \in [Tasks -> TaskRecords]
        /\ \A u \in Tasks : task'[u].pc # "idle" => task'[u].row \in Rows
    BY <2>1, RetireEffect DEF TypeOK, IsIdle
  <2>5. UNCHANGED <<cancel_requested, parent, depth, late, calls, misplaced,
                    scan, up, crashes, faults>>
    BY <1>7 DEF MarkSuspended
  <2>6. /\ status' \in [Rows -> TerminalStatuses \cup {"absent", "running", "suspended"}]
        /\ state' \in [Rows -> ExecutionState] /\ due' \in [Rows -> BOOLEAN]
    BY <1>7, <2>2, <2>3 DEF MarkSuspended, TypeOK, Save
  <2> QED
    BY <2>4, <2>5, <2>6 DEF TypeOK, IsIdle
<1>8. ASSUME NEW t \in Tasks, MarkTerminal(t) PROVE TypeOK'
  <2> DEFINE r == task[t].row
  <2>1. ~IsIdle(t) /\ task[t].outcome # "none"
    BY <1>8 DEF MarkTerminal, IsIdle, ProgramPoints, AtItsPoint
  <2>2. /\ r \in Rows /\ task[t].state \in ExecutionState
        /\ task[t].outcome \in TerminalStatuses
    BY <2>1, LiveTask DEF TaskRecords, TerminalStatuses
  <2>3. CASE Retire(t)
    BY <1>8, <2>1, <2>2, <2>3, RetireEffect DEF MarkTerminal, TypeOK, IsIdle, Save
  <2>4. CASE /\ Continue(t, "propagate", task[t].state)
             /\ Save(r, task[t].state)
             /\ status' = [status EXCEPT ![r] = task[t].outcome]
    BY <1>8, <2>1, <2>2, <2>4, ContinueEffect, ZenonT(40)
    DEF MarkTerminal, TypeOK, IsIdle, Save, Pcs
  <2> QED
    BY <1>8, <2>3, <2>4 DEF MarkTerminal
<1>9. ASSUME NEW t \in Tasks, PropagateToParent(t) PROVE TypeOK'
  <2> DEFINE p == parent[task[t].row]
  <2>1. ~IsIdle(t)
    BY <1>9 DEF PropagateToParent, IsIdle
  <2>2. p \in Rows /\ state[p].current \in Steps \cup {0}
    BY <1>9, <2>1, LiveTask DEF PropagateToParent, ProgramPoints, AtItsPoint, TypeOK, ExecutionState
  <2>3. CASE Retire(t)
    BY <1>9, <2>3, RetireEffect, OnlyTasksMove DEF PropagateToParent, TypeOK, IsIdle
  <2>4. CASE task' = [task EXCEPT ![t] = Resuming(p, "child", state[p].current)]
    <3>1. /\ Resuming(p, "child", state[p].current) \in TaskRecords
          /\ Resuming(p, "child", state[p].current).row = p
      BY <2>2, ResumingType DEF Responders
    <3> QED
      BY <1>9, <2>2, <2>4, <3>1, OnlyTasksMove DEF PropagateToParent, TypeOK, IsIdle
  <2> QED
    BY <1>9, <2>3, <2>4 DEF PropagateToParent
<1>10. ASSUME NEW t \in Tasks, ResumeLoad(t) PROVE TypeOK'
  <2> DEFINE st == state[task[t].row]
  <2>1. ~IsIdle(t)
    BY <1>10 DEF ResumeLoad, IsIdle
  <2>2. CASE Retire(t)
    BY <1>10, <2>2, RetireEffect, OnlyTasksMove DEF ResumeLoad, TypeOK, IsIdle
  <2>3. CASE st.current # 0 /\ Continue(t, "resume_update", Answered(st))
    <3>1. Answered(st) \in ExecutionState
      BY <2>1, <2>3, LiveTask, AnsweredType
    <3>2. /\ task' \in [Tasks -> TaskRecords] /\ task'[t].row \in Rows
          /\ \A u \in Tasks : u # t => task'[u] = task[u]
      BY <2>1, <2>3, <3>1, LiveTask, ContinueEffect DEF Pcs
    <3> QED
      BY <1>10, <3>2, OnlyTasksMove DEF ResumeLoad, TypeOK, IsIdle
  <2> QED
    BY <1>10, <2>2, <2>3 DEF ResumeLoad
<1>11. ASSUME NEW t \in Tasks, ResumeUpdate(t) PROVE TypeOK'
  <2> DEFINE r == task[t].row
  <2>1. ~IsIdle(t) /\ r \in Rows /\ task[t].state \in ExecutionState
    BY <1>11, LiveTask DEF ResumeUpdate, IsIdle
  <2>0. UNCHANGED <<cancel_requested, due, parent, depth, late, calls,
                    scan, up, crashes, faults>>
    BY <1>11 DEF ResumeUpdate
  <2>2. CASE Retire(t) /\ UNCHANGED <<status, state, misplaced>>
    BY <2>0, <2>2, RetireEffect DEF TypeOK, IsIdle
  <2>3. CASE /\ Continue(t, "check", task[t].state)
             /\ Save(r, task[t].state)
             /\ status' = [status EXCEPT ![r] = "running"]
             /\ misplaced' = [misplaced EXCEPT
                               ![r] = @ \/ task[t].state # Answered(state[r])]
    <3>1. misplaced' \in [Rows -> BOOLEAN]
      BY <2>1, <2>3 DEF TypeOK
    <3>2. /\ task' \in [Tasks -> TaskRecords] /\ task'[t].row \in Rows
          /\ \A u \in Tasks : u # t => task'[u] = task[u]
      BY <2>1, <2>3, LiveTask, ContinueEffect DEF Pcs
    <3> QED
      BY <2>0, <2>1, <2>3, <3>1, <3>2 DEF TypeOK, IsIdle, Save
  <2> QED
    BY <1>11, <2>2, <2>3 DEF ResumeUpdate
<1>12. ASSUME NEW t \in Tasks, NEW r \in Rows, StartExecution(t, r) PROVE TypeOK'
  BY <1>12, DetachedType, FreshStateType DEF StartExecution, Insert, TypeOK, IsIdle
<1>13. ASSUME NEW t \in Tasks, NEW r \in Rows,
              NEW via \in {"owner", "approver", "callback"}, Respond(t, r, via)
       PROVE  TypeOK'
  <2>1. state[r].current \in Steps \cup {0} /\ via \in Responders
    BY DEF TypeOK, ExecutionState, Responders
  <2> QED
    BY <1>13, <2>1, ResumingType DEF Respond, TypeOK, IsIdle, rowVars
<1>14. ASSUME NEW r \in Rows, RequestCancel(r) \/ ClockReachesExpiry(r) PROVE TypeOK'
  BY <1>14 DEF RequestCancel, ClockReachesExpiry, TypeOK, IsIdle, procVars
<1>15. ASSUME ScanSelect PROVE TypeOK'
  <2>1. \A r \in Rows : state[r].current \in Steps \cup {0}
    BY DEF TypeOK, ExecutionState
  <2> QED
    BY <1>15, <2>1 DEF ScanSelect, TypeOK, IsIdle, rowVars
<1>16. ASSUME NEW c \in scan, ScanExpire(c) PROVE TypeOK'
  BY <1>16 DEF ScanExpire, TypeOK, IsIdle, TerminalStatuses
<1>17. ASSUME NEW t \in Tasks, NEW c \in scan, ScanFire(t, c) PROVE TypeOK'
  <2>1. c.row \in Rows /\ c.step \in Steps \cup {0} /\ "timer" \in Responders
    BY DEF TypeOK, Responders
  <2> QED
    BY <1>17, <2>1, ResumingType DEF ScanFire, TypeOK, IsIdle, rowVars
<1>18. ASSUME Crash PROVE TypeOK'
  <2>1. Idle \in TaskRecords /\ Idle.pc = "idle"
    BY FreshStateType DEF Idle, TaskRecord, TaskRecords, Pcs
  <2> QED
    <3>1. /\ task' \in [Tasks -> TaskRecords]
          /\ \A t \in Tasks : task'[t].pc = "idle"
      BY <1>18, <2>1 DEF Crash
    <3>2. crashes' \in 0..MaxCrashes
      BY <1>18, BoundAssumption DEF Crash, TypeOK
    <3> QED
      BY <1>18, <3>1, <3>2 DEF Crash, TypeOK, IsIdle, rowVars
<1>19. ASSUME Restart PROVE TypeOK'
  BY <1>19 DEF Restart, TypeOK, IsIdle, TerminalStatuses
<1>20. ASSUME RestartUnswept PROVE TypeOK'
  BY <1>20, BoundAssumption DEF RestartUnswept, TypeOK, IsIdle, rowVars
<1>21. ASSUME NEW t \in Tasks, DatabaseError(t) PROVE TypeOK'
  <2>1. Retire(t) /\ task[t].row \in Rows
    BY <1>21, LiveTask DEF DatabaseError
  <2> QED
    BY <1>21, <2>1, RetireEffect, BoundAssumption
    DEF DatabaseError, TypeOK, IsIdle, TerminalStatuses
<1> QED
  BY <1>1, <1>2, <1>3, <1>4, <1>5, <1>6, <1>7, <1>8, <1>9, <1>10, <1>11, <1>12,
     <1>13, <1>14, <1>15, <1>16, <1>17, <1>18, <1>19, <1>20, <1>21
  DEF Next, TaskStep, ScanStep
-----------------------------------------------------------------------------
(* What a step does to a row *)

\* A task at a program point of the loop owns its row, which is running.
LEMMA OwnerRuns ==
  ASSUME RunnerInv, NEW t \in Tasks, task[t].pc \in LoopPcs
  PROVE  /\ task[t].row \in Rows
         /\ Owns(t, task[t].row)
         /\ status[task[t].row] = "running"
         /\ ~IsTerminal(task[t].row)
  BY DEF RunnerInv, TypeOK, OneRunnerPerRow, Owns, LoopPcs, IsIdle,
         IsTerminal, TerminalStatuses

\* A terminal row is left alone, and a row once inserted keeps its place in
\* the tree of executions.
LEMMA RowStep ==
  ASSUME RunnerInv, Next, NEW r \in Rows
  PROVE  /\ IsTerminal(r) => status'[r] = status[r] /\ state'[r] = state[r]
         /\ status[r] # "absent" => /\ status'[r] # "absent"
                                    /\ parent'[r] = parent[r]
                                    /\ depth'[r] = depth[r]
<1> DEFINE Kept == /\ IsTerminal(r) => status'[r] = status[r] /\ state'[r] = state[r]
                   /\ status[r] # "absent" => /\ status'[r] # "absent"
                                              /\ parent'[r] = parent[r]
                                              /\ depth'[r] = depth[r]
<1> SUFFICES Kept
  OBVIOUS
<1>t. TypeOK
  BY DEF RunnerInv
<1>1. ASSUME NEW t \in Tasks,
             \/ RunLoad(t) \/ Boundary(t) \/ PropagateToParent(t) \/ ResumeLoad(t)
      PROVE  Kept
  BY <1>1 DEF RunLoad, Boundary, PropagateToParent, ResumeLoad, rowVars
<1>2. ASSUME NEW t \in Tasks, BeginStep(t) \/ StepSucceeds(t) \/ StepRaises(t)
      PROVE  Kept
  <2>1. ~IsTerminal(task[t].row)
    BY <1>2, OwnerRuns DEF BeginStep, StepSucceeds, StepRaises, LoopPcs
  <2> QED
    BY <1>2, <2>1, <1>t DEF BeginStep, StepSucceeds, StepRaises, Save, TypeOK
<1>3. ASSUME NEW t \in Tasks, NEW u \in Tasks, NEW c \in Rows, SpawnChild(t, u, c)
      PROVE  Kept
  BY <1>3, <1>t DEF SpawnChild, Insert, TypeOK, IsTerminal, TerminalStatuses
<1>4. ASSUME NEW t \in Tasks, MarkSuspended(t) PROVE Kept
  BY <1>4, <1>t DEF MarkSuspended, Save, TypeOK, IsTerminal, TerminalStatuses
<1>5. ASSUME NEW t \in Tasks, MarkTerminal(t) PROVE Kept
  <2>1. task[t].row \in Rows /\ task[t] \in TaskRecords
    BY <1>5, <1>t DEF MarkTerminal, TypeOK, IsIdle
  <2>2. task[t].outcome # "absent"
    BY <2>1 DEF TaskRecords
  <2> QED
    BY <1>5, <2>1, <2>2, <1>t DEF MarkTerminal, Save, TypeOK
<1>6. ASSUME NEW t \in Tasks, ResumeUpdate(t) PROVE Kept
  BY <1>6, <1>t DEF ResumeUpdate, Save, TypeOK, IsTerminal, TerminalStatuses
<1>7. ASSUME NEW t \in Tasks, NEW x \in Rows, StartExecution(t, x) PROVE Kept
  BY <1>7, <1>t DEF StartExecution, Insert, TypeOK, IsTerminal, TerminalStatuses
<1>8. ASSUME NEW x \in Rows, RequestCancel(x) \/ ClockReachesExpiry(x) PROVE Kept
  BY <1>8 DEF RequestCancel, ClockReachesExpiry
<1>9. ASSUME NEW c \in scan, ScanExpire(c) PROVE Kept
  BY <1>9, <1>t DEF ScanExpire, TypeOK, IsTerminal, TerminalStatuses
<1>10. ASSUME Restart PROVE Kept
  BY <1>10, <1>t DEF Restart, TypeOK, IsTerminal, TerminalStatuses
<1>11. ASSUME NEW t \in Tasks, DatabaseError(t) PROVE Kept
  BY <1>11, <1>t DEF DatabaseError, TypeOK
<1>12. ASSUME \/ ScanSelect \/ Crash \/ RestartUnswept
              \/ \E t \in Tasks, c \in scan : ScanFire(t, c)
              \/ \E t \in Tasks, x \in Rows, via \in {"owner", "approver", "callback"} :
                   Respond(t, x, via)
       PROVE  Kept
  BY <1>12 DEF ScanSelect, Crash, RestartUnswept, ScanFire, Respond, rowVars
<1> QED
  BY <1>1, <1>2, <1>3, <1>4, <1>5, <1>6, <1>7, <1>8, <1>9, <1>10, <1>11, <1>12
  DEF Next, TaskStep, ScanStep
-----------------------------------------------------------------------------
(* The tree of executions *)

LEMMA TreeStep ==
  ASSUME RunnerInv, Next
  PROVE  ParentsExist' /\ DepthBounded'
<1> USE DEF RunnerInv
<1>1. ASSUME NEW t \in Tasks, NEW u \in Tasks, NEW c \in Rows, SpawnChild(t, u, c)
      PROVE  ParentsExist' /\ DepthBounded'
  <2>1. task[t].row \in Rows /\ status[task[t].row] = "running"
    BY <1>1, OwnerRuns DEF SpawnChild, LoopPcs
  <2>2. /\ status' = [status EXCEPT ![c] = "running"]
        /\ parent' = [parent EXCEPT ![c] = task[t].row]
        /\ depth' = [depth EXCEPT ![c] = depth[task[t].row] + 1]
        /\ status[c] = "absent" /\ depth[task[t].row] + 1 <= MaxDepth
    BY <1>1 DEF SpawnChild, Insert
  <2>3. task[t].row # NoRow /\ task[t].row # c
    BY <2>1, <2>2, PlanAssumption
  <2>4. ParentsExist'
    BY <2>1, <2>2, <2>3 DEF ParentsExist, TypeOK
  <2>5. DepthBounded'
    BY <2>1, <2>2, <2>3 DEF ParentsExist, DepthBounded, TypeOK
  <2> QED
    BY <2>4, <2>5
<1>2. ASSUME NEW t \in Tasks, NEW x \in Rows, StartExecution(t, x)
      PROVE  ParentsExist' /\ DepthBounded'
  <2>1. /\ status' = [status EXCEPT ![x] = "running"]
        /\ parent' = [parent EXCEPT ![x] = NoRow]
        /\ depth' = [depth EXCEPT ![x] = 0]
        /\ status[x] = "absent"
    BY <1>2 DEF StartExecution, Insert
  <2>2. ParentsExist'
    BY <2>1, PlanAssumption DEF ParentsExist, TypeOK
  <2>3. DepthBounded'
    BY <2>1, PlanAssumption, BoundAssumption DEF ParentsExist, DepthBounded, TypeOK
  <2> QED
    BY <2>2, <2>3
<1>3. ASSUME UNCHANGED <<parent, depth>>, \A r \in Rows : status[r] # "absent" => status'[r] # "absent"
      PROVE  ParentsExist' /\ DepthBounded'
  BY <1>3, PlanAssumption DEF ParentsExist, DepthBounded, TypeOK
<1>4. \A r \in Rows : status[r] # "absent" => status'[r] # "absent"
  BY RowStep
<1>5. CASE UNCHANGED <<parent, depth>>
  BY <1>3, <1>4, <1>5
<1>6. \/ UNCHANGED <<parent, depth>>
      \/ \E t \in Tasks, u \in Tasks, c \in Rows : SpawnChild(t, u, c)
      \/ \E t \in Tasks, x \in Rows : StartExecution(t, x)
  BY ZenonT(40) DEF Next, TaskStep, ScanStep, RunLoad, Boundary, BeginStep, StepSucceeds,
         StepRaises, MarkSuspended, MarkTerminal, PropagateToParent, ResumeLoad,
         ResumeUpdate, Respond, RequestCancel, ClockReachesExpiry, ScanSelect,
         ScanExpire, ScanFire, Crash, Restart, RestartUnswept, DatabaseError, rowVars
<1> QED
  BY <1>1, <1>2, <1>5, <1>6
-----------------------------------------------------------------------------
(* Program points *)

\* A task that a step leaves alone is still where it was.
LEMMA PointKept ==
  ASSUME RunnerInv, Next, NEW u \in Tasks, task'[u] = task[u]
  PROVE  AtItsPoint(u)'
<1>1. AtItsPoint(u)
  BY DEF RunnerInv, ProgramPoints
<1>2. ASSUME task[u].pc = "propagate"
      PROVE  IsTerminal(task[u].row)' /\ parent'[task[u].row] # NoRow
  <2>1. task[u].row \in Rows
    BY <1>2 DEF RunnerInv, TypeOK, IsIdle
  <2>2. IsTerminal(task[u].row) /\ parent[task[u].row] # NoRow
    BY <1>1, <1>2 DEF AtItsPoint
  <2> QED
    BY <2>1, <2>2, RowStep DEF IsTerminal, TerminalStatuses
<1> QED
  BY <1>1, <1>2 DEF AtItsPoint, IsTerminal, OpenSteps

\* A task that retires, or that starts, is where it should be.
LEMMA RetiredPoint ==
  ASSUME task \in [Tasks -> TaskRecords], NEW t \in Tasks, Retire(t)
  PROVE  AtItsPoint(t)'
  BY RetireEffect DEF AtItsPoint

LEMMA ResumingPoint ==
  ASSUME NEW t \in Tasks, NEW r \in Rows, NEW via \in Responders,
         NEW s \in Steps \cup {0}, task'[t] = Resuming(r, via, s)
  PROVE  AtItsPoint(t)'
  BY ResumingType DEF AtItsPoint, Responders

LEMMA PointsStep ==
  ASSUME RunnerInv, Next
  PROVE  ProgramPoints'
<1> USE DEF RunnerInv
<1>t. task \in [Tasks -> TaskRecords]
  BY DEF TypeOK
<1>1. ASSUME NEW t \in Tasks, AtItsPoint(t)',
             \A u \in Tasks : u # t => task'[u] = task[u]
      PROVE  ProgramPoints'
  BY <1>1, PointKept DEF ProgramPoints
<1>2. ASSUME NEW t \in Tasks, Retire(t) PROVE ProgramPoints'
  BY <1>1, <1>2, <1>t, RetiredPoint, RetireEffect
<1>3. ASSUME NEW t \in Tasks, RunLoad(t) PROVE ProgramPoints'
  <2>1. task[t].row \in Rows /\ state[task[t].row] \in ExecutionState
    BY <1>3, OwnerRuns DEF RunLoad, LoopPcs, TypeOK
  <2>2. CASE Continue(t, "check", state[task[t].row])
    BY <1>1, <1>t, <2>1, <2>2, ContinueEffect DEF AtItsPoint, Pcs, LoopPcs
  <2> QED
    BY <1>2, <1>3, <2>2 DEF RunLoad
<1>4. ASSUME NEW t \in Tasks, Boundary(t) PROVE ProgramPoints'
  <2> DEFINE st == task[t].state
  <2>1. st \in ExecutionState
    BY <1>4, LiveTask DEF Boundary, IsIdle
  <2>2. CASE \E o \in {"cancelled", "completed"} : FinishAs(t, o, st)
    BY <1>1, <1>t, <2>1, <2>2, FinishAsEffect DEF AtItsPoint, LoopPcs
  <2>3. CASE Continue(t, "begin", st) /\ OpenSteps(task[t].row, st) # {}
    BY <1>1, <1>t, <2>1, <2>3, ContinueEffect DEF AtItsPoint, Pcs, LoopPcs, OpenSteps
  <2> QED
    BY <1>4, <2>2, <2>3 DEF Boundary
<1>5. ASSUME NEW t \in Tasks, BeginStep(t) PROVE ProgramPoints'
  <2> DEFINE r == task[t].row
             s == NextStep(r, task[t].state)
             st == [WithStep(task[t].state, s, "in_progress") EXCEPT !.current = s]
  <2>1. r \in Rows /\ task[t].state \in ExecutionState
    BY <1>5, LiveTask DEF BeginStep, IsIdle
  <2>2. s \in 1..Len(Plan[r])
    BY <1>5, <2>1, NextStepIsOpen DEF BeginStep, ProgramPoints, AtItsPoint, OpenSteps
  <2>3. st \in ExecutionState /\ st.current = s
    BY <2>1, <2>2, PlanSteps, WithStepType DEF ExecutionState, StepStatuses
  <2>4. Continue(t, "dispatch", st)
    BY <1>5 DEF BeginStep
  <2> HIDE DEF s, st
  <2>5. /\ task'[t].pc = "dispatch" /\ task'[t].row = r /\ task'[t].state = st
        /\ \A u \in Tasks : u # t => task'[u] = task[u]
    BY <1>t, <2>3, <2>4, ContinueEffect DEF Pcs
  <2>6. AtItsPoint(t)'
    BY <2>2, <2>3, <2>5 DEF AtItsPoint, LoopPcs
  <2> QED
    BY <1>1, <2>5, <2>6
<1>6. ASSUME NEW t \in Tasks, StepSucceeds(t) \/ StepRaises(t) PROVE ProgramPoints'
  <2> DEFINE r == task[t].row
             s == task[t].state.current
             ok == [WithStep(task[t].state, s, "succeeded") EXCEPT !.current = 0]
             bad == WithStep(task[t].state, s, "failed")
  <2>1. r \in Rows /\ task[t].state \in ExecutionState /\ s \in Steps
    BY <1>6, LiveTask, PlanSteps
    DEF StepSucceeds, StepRaises, IsIdle, ProgramPoints, AtItsPoint
  <2>2. ok \in ExecutionState /\ bad \in ExecutionState
    BY <2>1, WithStepType DEF ExecutionState, StepStatuses
  <2>3. CASE Continue(t, "check", ok)
    BY <1>1, <1>t, <2>2, <2>3, ContinueEffect DEF AtItsPoint, Pcs, LoopPcs
  <2>4. CASE FinishAs(t, "failed", bad)
    BY <1>1, <1>t, <2>2, <2>4, FinishAsEffect DEF AtItsPoint, LoopPcs
  <2> QED
    BY <1>6, <2>3, <2>4 DEF StepSucceeds, StepRaises
<1>7. ASSUME NEW t \in Tasks, NEW u \in Tasks, NEW c \in Rows, SpawnChild(t, u, c)
      PROVE  ProgramPoints'
  <2>1. task[t].state.current \in 1..Len(Plan[task[t].row])
    BY <1>7 DEF SpawnChild, ProgramPoints, AtItsPoint
  <2>2. AtItsPoint(t)'
    BY <1>7, <1>t, <2>1, SpawnChildEffect DEF AtItsPoint, LoopPcs
  <2>3. AtItsPoint(u)'
    BY <1>7, <1>t, SpawnChildEffect, DetachedType DEF AtItsPoint, LoopPcs
  <2> QED
    BY <1>7, <1>t, <2>2, <2>3, SpawnChildEffect, PointKept DEF ProgramPoints
<1>8. ASSUME NEW t \in Tasks, MarkTerminal(t) PROVE ProgramPoints'
  <2> DEFINE r == task[t].row
  <2>1. /\ r \in Rows /\ task[t].state \in ExecutionState
        /\ task[t].outcome \in TerminalStatuses
    BY <1>8, LiveTask
    DEF MarkTerminal, IsIdle, TaskRecords, TerminalStatuses, ProgramPoints, AtItsPoint
  <2>2. CASE /\ status' = [status EXCEPT ![r] = task[t].outcome]
             /\ parent[r] # NoRow
             /\ Continue(t, "propagate", task[t].state)
    <3>1. status'[r] \in TerminalStatuses /\ parent'[r] # NoRow
      BY <1>8, <2>1, <2>2 DEF MarkTerminal, TypeOK
    <3>2. /\ task'[t].pc = "propagate" /\ task'[t].row = r
          /\ \A u \in Tasks : u # t => task'[u] = task[u]
      BY <1>t, <2>1, <2>2, ContinueEffect DEF Pcs
    <3>3. AtItsPoint(t)'
      BY <3>1, <3>2 DEF AtItsPoint, IsTerminal, LoopPcs
    <3> QED
      BY <1>1, <3>2, <3>3
  <2> QED
    BY <1>2, <1>8, <2>2 DEF MarkTerminal
<1>9. ASSUME NEW t \in Tasks, PropagateToParent(t) PROVE ProgramPoints'
  <2> DEFINE p == parent[task[t].row]
  <2>1. p \in Rows /\ state[p].current \in Steps \cup {0}
    BY <1>9, LiveTask
    DEF PropagateToParent, IsIdle, ProgramPoints, AtItsPoint, TypeOK, ExecutionState
  <2>2. CASE task' = [task EXCEPT ![t] = Resuming(p, "child", state[p].current)]
    BY <1>1, <1>t, <2>1, <2>2, ResumingPoint DEF Responders
  <2> QED
    BY <1>2, <1>9, <2>2 DEF PropagateToParent
<1>10. ASSUME NEW t \in Tasks, ResumeLoad(t) PROVE ProgramPoints'
  <2> DEFINE st == state[task[t].row]
  <2>1. CASE st.current # 0 /\ Continue(t, "resume_update", Answered(st))
    <3>1. Answered(st) \in ExecutionState /\ task[t].via # "detached"
      BY <1>10, <2>1, LiveTask, AnsweredType
      DEF ResumeLoad, IsIdle, ProgramPoints, AtItsPoint, LoopPcs
    <3> QED
      BY <1>1, <1>t, <2>1, <3>1, ContinueEffect DEF AtItsPoint, Pcs
  <2> QED
    BY <1>2, <1>10, <2>1 DEF ResumeLoad
<1>11. ASSUME NEW t \in Tasks, ResumeUpdate(t) PROVE ProgramPoints'
  <2>1. task[t].state \in ExecutionState
    BY <1>11, LiveTask DEF ResumeUpdate, IsIdle
  <2>2. CASE Continue(t, "check", task[t].state)
    BY <1>1, <1>t, <2>1, <2>2, ContinueEffect DEF AtItsPoint, Pcs, LoopPcs
  <2> QED
    BY <1>2, <1>11, <2>2 DEF ResumeUpdate
<1>12. ASSUME NEW t \in Tasks, NEW r \in Rows, StartExecution(t, r) PROVE ProgramPoints'
  <2>1. task'[t] = Detached(r) /\ \A u \in Tasks : u # t => task'[u] = task[u]
    BY <1>12, <1>t DEF StartExecution
  <2> QED
    BY <1>1, <2>1, DetachedType DEF AtItsPoint, LoopPcs
<1>13. ASSUME NEW t \in Tasks, NEW r \in Rows,
              NEW via \in {"owner", "approver", "callback"}, Respond(t, r, via)
       PROVE  ProgramPoints'
  <2>1. state[r].current \in Steps \cup {0} /\ via \in Responders
    BY DEF TypeOK, ExecutionState, Responders
  <2>2. /\ task'[t] = Resuming(r, via, state[r].current)
        /\ \A u \in Tasks : u # t => task'[u] = task[u]
    BY <1>13, <1>t DEF Respond
  <2> QED
    BY <1>1, <2>1, <2>2, ResumingPoint
<1>14. ASSUME NEW t \in Tasks, NEW c \in scan, ScanFire(t, c) PROVE ProgramPoints'
  <2>1. c.row \in Rows /\ c.step \in Steps \cup {0} /\ "timer" \in Responders
    BY DEF TypeOK, Responders
  <2>2. /\ task'[t] = Resuming(c.row, "timer", c.step)
        /\ \A u \in Tasks : u # t => task'[u] = task[u]
    BY <1>14, <1>t DEF ScanFire
  <2> QED
    BY <1>1, <2>1, <2>2, ResumingPoint
<1>15. ASSUME Crash PROVE ProgramPoints'
  BY <1>15 DEF Crash, ProgramPoints, AtItsPoint, Idle, TaskRecord
<1>16. CASE UNCHANGED task
  BY <1>16, PointKept DEF ProgramPoints
<1>17. ASSUME NEW t \in Tasks, MarkSuspended(t) \/ DatabaseError(t) PROVE ProgramPoints'
  BY <1>2, <1>17 DEF MarkSuspended, DatabaseError
<1>18. ASSUME \/ ScanSelect \/ Restart \/ RestartUnswept
              \/ \E c \in scan : ScanExpire(c)
              \/ \E r \in Rows : RequestCancel(r) \/ ClockReachesExpiry(r)
       PROVE  ProgramPoints'
  BY <1>16, <1>18
  DEF ScanSelect, Restart, RestartUnswept, ScanExpire, RequestCancel,
      ClockReachesExpiry, procVars
<1> QED
  BY <1>3, <1>4, <1>5, <1>6, <1>7, <1>8, <1>9, <1>10, <1>11, <1>12, <1>13, <1>14,
     <1>15, <1>17, <1>18
  DEF Next, TaskStep, ScanStep
-----------------------------------------------------------------------------
(* One runner per row *)

\* If no task becomes an owner and every row that is owned keeps running,
\* there is still one runner per row.
LEMMA NoNewOwner ==
  ASSUME RunnerInv,
         \A u \in Tasks, r \in Rows : Owns(u, r)' => Owns(u, r) /\ status'[r] = "running"
  PROVE  OneRunnerPerRow'
<1> SUFFICES ASSUME NEW u \in Tasks, NEW r \in Rows, Owns(u, r)',
                    NEW v \in Tasks, Owns(v, r)'
             PROVE  status'[r] = "running" /\ u = v
  BY DEF OneRunnerPerRow
<1>1. Owns(u, r) /\ Owns(v, r) /\ status'[r] = "running"
  OBVIOUS
<1> QED
  BY <1>1 DEF RunnerInv, OneRunnerPerRow

\* If t becomes the owner of a row that was not running, and nothing else
\* changes, there is still one runner per row.
LEMMA NewOwner ==
  ASSUME RunnerInv, NEW t \in Tasks, NEW c \in Rows, status[c] # "running",
         status' = [status EXCEPT ![c] = "running"],
         \A u \in Tasks, r \in Rows :
           Owns(u, r)' => Owns(u, r) \/ (u = t /\ r = c)
  PROVE  OneRunnerPerRow'
<1>1. \A u \in Tasks : ~Owns(u, c)
  BY DEF RunnerInv, OneRunnerPerRow
<1>2. \A u \in Tasks, r \in Rows : Owns(u, r) => status'[r] = "running"
  BY DEF RunnerInv, OneRunnerPerRow, TypeOK
<1>3. status'[c] = "running"
  BY DEF RunnerInv, TypeOK
<1> HIDE DEF Owns
<1> QED
  BY <1>1, <1>2, <1>3 DEF RunnerInv, OneRunnerPerRow

LEMMA RunnerStep ==
  ASSUME RunnerInv, Next
  PROVE  OneRunnerPerRow'
<1> USE DEF RunnerInv
<1>t. TypeOK /\ task \in [Tasks -> TaskRecords]
  BY DEF TypeOK
<1>o. \A u \in Tasks, r \in Rows : Owns(u, r) => status[r] = "running"
  BY DEF OneRunnerPerRow
\* t alone changes, and does not change the row it runs, if it runs one.
<1>1. ASSUME NEW t \in Tasks, UNCHANGED status,
             \A u \in Tasks : u # t => task'[u] = task[u],
             task'[t].pc \in LoopPcs => task[t].pc \in LoopPcs /\ task'[t].row = task[t].row
      PROVE  OneRunnerPerRow'
  BY <1>1, <1>o, NoNewOwner DEF Owns
<1>2. ASSUME NEW t \in Tasks, UNCHANGED status, Retire(t) PROVE OneRunnerPerRow'
  BY <1>1, <1>2, <1>t, RetireEffect DEF LoopPcs
\* t stops being the runner of r, whose status it changes.
<1>3. ASSUME NEW t \in Tasks, task[t].row \in Rows, task[t].pc \in LoopPcs,
             \A r \in Rows : r # task[t].row => status'[r] = status[r],
             \A u \in Tasks : u # t => task'[u] = task[u],
             task'[t].pc \notin LoopPcs
      PROVE  OneRunnerPerRow'
  <2>1. ASSUME NEW u \in Tasks, NEW r \in Rows, Owns(u, r)'
        PROVE  Owns(u, r) /\ status'[r] = "running"
    <3>1. u # t /\ Owns(u, r)
      BY <1>3, <2>1 DEF Owns
    <3>2. Owns(t, task[t].row)
      BY <1>3 DEF Owns
    <3>3. r # task[t].row
      BY <1>3, <3>1, <3>2 DEF OneRunnerPerRow
    <3> QED
      BY <1>3, <1>o, <3>1, <3>3
  <2> QED
    BY <2>1, NoNewOwner
<1>4. ASSUME NEW t \in Tasks, RunLoad(t) PROVE OneRunnerPerRow'
  <2>1. state[task[t].row] \in ExecutionState
    BY <1>4, LiveTask DEF RunLoad, IsIdle
  <2>2. CASE Continue(t, "check", state[task[t].row])
    BY <1>1, <1>4, <1>t, <2>1, <2>2, ContinueEffect DEF RunLoad, rowVars, Pcs, LoopPcs
  <2> QED
    BY <1>2, <1>4, <2>2 DEF RunLoad, rowVars
<1>5. ASSUME NEW t \in Tasks, Boundary(t) PROVE OneRunnerPerRow'
  <2> DEFINE st == task[t].state
  <2>1. st \in ExecutionState
    BY <1>5, LiveTask DEF Boundary, IsIdle
  <2>2. CASE \E o \in {"cancelled", "completed"} : FinishAs(t, o, st)
    BY <1>1, <1>5, <1>t, <2>1, <2>2, FinishAsEffect DEF Boundary, rowVars, LoopPcs
  <2>3. CASE Continue(t, "begin", st)
    BY <1>1, <1>5, <1>t, <2>1, <2>3, ContinueEffect DEF Boundary, rowVars, Pcs, LoopPcs
  <2> QED
    BY <1>5, <2>2, <2>3 DEF Boundary
<1>6. ASSUME NEW t \in Tasks, BeginStep(t) \/ StepSucceeds(t) \/ StepRaises(t)
      PROVE  OneRunnerPerRow'
  <2>1. /\ task[t].pc \in LoopPcs /\ task'[t].row = task[t].row
        /\ \A u \in Tasks : u # t => task'[u] = task[u]
    BY <1>6, <1>t, ContinueMoves, FinishAsMoves
    DEF BeginStep, StepSucceeds, StepRaises, LoopPcs
  <2> QED
    BY <1>1, <1>6, <2>1 DEF BeginStep, StepSucceeds, StepRaises
<1>7. ASSUME NEW t \in Tasks, NEW u \in Tasks, NEW c \in Rows, SpawnChild(t, u, c)
      PROVE  OneRunnerPerRow'
  <2>1. ASSUME NEW v \in Tasks, NEW r \in Rows, Owns(v, r)'
        PROVE  Owns(v, r) \/ (v = u /\ r = c)
    <3>1. CASE v = t
      BY <1>7, <1>t, <2>1, <3>1, SpawnChildEffect DEF SpawnChild, Owns, LoopPcs
    <3>2. CASE v = u
      BY <1>7, <1>t, <2>1, <3>2, SpawnChildEffect, DetachedType DEF Owns
    <3>3. CASE v \notin {t, u}
      BY <1>7, <1>t, <2>1, <3>3, SpawnChildEffect DEF Owns
    <3> QED
      BY <3>1, <3>2, <3>3
  <2> QED
    BY <1>7, <2>1, NewOwner DEF SpawnChild, Insert
<1>8. ASSUME NEW t \in Tasks, MarkSuspended(t) PROVE OneRunnerPerRow'
  <2>1. task[t].pc \in LoopPcs /\ task[t].row \in Rows
    BY <1>8, OwnerRuns DEF MarkSuspended, LoopPcs
  <2>2. task'[t].pc = "idle" /\ \A u \in Tasks : u # t => task'[u] = task[u]
    BY <1>8, <1>t, RetireEffect DEF MarkSuspended
  <2> QED
    BY <1>3, <1>8, <1>t, <2>1, <2>2 DEF MarkSuspended, TypeOK, LoopPcs
<1>9. ASSUME NEW t \in Tasks, MarkTerminal(t) PROVE OneRunnerPerRow'
  <2>1. /\ task[t].pc \in LoopPcs /\ task[t].row \in Rows
        /\ task[t].state \in ExecutionState
    BY <1>9, OwnerRuns, LiveTask DEF MarkTerminal, LoopPcs, IsIdle
  <2>2. /\ task'[t].pc \in {"idle", "propagate"}
        /\ \A u \in Tasks : u # t => task'[u] = task[u]
    BY <1>9, <1>t, <2>1, RetireEffect, ContinueEffect DEF MarkTerminal, Pcs
  <2> QED
    BY <1>3, <1>9, <1>t, <2>1, <2>2 DEF MarkTerminal, TypeOK, LoopPcs
<1>10. ASSUME NEW t \in Tasks, PropagateToParent(t) PROVE OneRunnerPerRow'
  <2>1. CASE Retire(t)
    BY <1>2, <1>10, <2>1 DEF PropagateToParent, rowVars
  <2>2. CASE \E p, s : task' = [task EXCEPT ![t] = Resuming(p, "child", s)]
    BY <1>1, <1>10, <1>t, <2>2 DEF PropagateToParent, rowVars, Resuming, TaskRecord, LoopPcs
  <2> QED
    BY <1>10, <2>1, <2>2 DEF PropagateToParent
<1>11. ASSUME NEW t \in Tasks, ResumeLoad(t) PROVE OneRunnerPerRow'
  <2>1. CASE task' = [task EXCEPT ![t] = [@ EXCEPT !.pc = "resume_update",
                                            !.state = Answered(state[task[t].row])]]
    BY <1>1, <1>11, <1>t, <2>1 DEF ResumeLoad, rowVars, TaskRecords, LoopPcs
  <2> QED
    BY <1>2, <1>11, <2>1 DEF ResumeLoad, rowVars, Continue
<1>12. ASSUME NEW t \in Tasks, ResumeUpdate(t) PROVE OneRunnerPerRow'
  <2> DEFINE r == task[t].row
  <2>1. r \in Rows /\ task[t].state \in ExecutionState
    BY <1>12, LiveTask DEF ResumeUpdate, IsIdle
  <2>2. CASE Retire(t) /\ UNCHANGED status
    BY <1>2, <2>2
  <2>3. CASE /\ status[r] = "suspended"
             /\ status' = [status EXCEPT ![r] = "running"]
             /\ Continue(t, "check", task[t].state)
    <3>1. task'[t].row = r /\ \A u \in Tasks : u # t => task'[u] = task[u]
      BY <1>t, <2>1, <2>3, ContinueEffect DEF Pcs
    <3>2. \A u \in Tasks, x \in Rows : Owns(u, x)' => Owns(u, x) \/ (u = t /\ x = r)
      BY <3>1 DEF Owns
    <3> QED
      BY <2>1, <2>3, <3>2, NewOwner
  <2> QED
    BY <1>12, <2>2, <2>3 DEF ResumeUpdate
<1>13. ASSUME NEW t \in Tasks, NEW r \in Rows, StartExecution(t, r) PROVE OneRunnerPerRow'
  <2>1. task'[t] = Detached(r) /\ \A u \in Tasks : u # t => task'[u] = task[u]
    BY <1>13, <1>t DEF StartExecution
  <2>2. \A u \in Tasks, x \in Rows : Owns(u, x)' => Owns(u, x) \/ (u = t /\ x = r)
    BY <2>1, DetachedType DEF Owns
  <2> QED
    BY <1>13, <2>2, NewOwner DEF StartExecution, Insert
<1>14. ASSUME NEW t \in Tasks, NEW r, NEW via, NEW s, UNCHANGED status,
              task' = [task EXCEPT ![t] = Resuming(r, via, s)]
       PROVE  OneRunnerPerRow'
  BY <1>1, <1>14, <1>t DEF Resuming, TaskRecord, LoopPcs
<1>15. ASSUME \/ \E t \in Tasks, c \in scan : ScanFire(t, c)
              \/ \E t \in Tasks, r \in Rows, via \in {"owner", "approver", "callback"} :
                   Respond(t, r, via)
       PROVE  OneRunnerPerRow'
  BY <1>14, <1>15 DEF ScanFire, Respond, rowVars
<1>16. CASE UNCHANGED <<status, task>>
  BY <1>16 DEF OneRunnerPerRow, Owns
<1>17. ASSUME \/ ScanSelect \/ RestartUnswept
              \/ \E r \in Rows : RequestCancel(r) \/ ClockReachesExpiry(r)
       PROVE  OneRunnerPerRow'
  BY <1>16, <1>17
  DEF ScanSelect, RestartUnswept, RequestCancel, ClockReachesExpiry, rowVars, procVars
<1>18. ASSUME NEW c \in scan, ScanExpire(c) PROVE OneRunnerPerRow'
  BY <1>18, <1>t, <1>o, NoNewOwner DEF ScanExpire, TypeOK, Owns
<1>19. ASSUME Crash PROVE OneRunnerPerRow'
  BY <1>19, NoNewOwner DEF Crash, Owns, Idle, TaskRecord, LoopPcs
<1>20. ASSUME Restart PROVE OneRunnerPerRow'
  BY <1>20, NoNewOwner DEF Restart, DownMeansEmpty, Owns, IsIdle, LoopPcs
<1>21. ASSUME NEW t \in Tasks, DatabaseError(t) PROVE OneRunnerPerRow'
  <2>1. CASE UNCHANGED status
    BY <1>2, <1>21, <2>1 DEF DatabaseError
  <2>2. CASE /\ task[t].via = "detached" /\ ~IsTerminal(task[t].row)
             /\ status' = [status EXCEPT ![task[t].row] = "failed"]
    <3>1. task[t].pc \in LoopPcs
      BY <2>2 DEF ProgramPoints, AtItsPoint
    <3>2. task[t].row \in Rows
      BY <3>1, OwnerRuns
    <3>3. task'[t].pc = "idle" /\ \A u \in Tasks : u # t => task'[u] = task[u]
      BY <1>21, <1>t, RetireEffect DEF DatabaseError
    <3> QED
      BY <1>3, <1>t, <2>2, <3>1, <3>2, <3>3 DEF TypeOK, LoopPcs
  <2> QED
    BY <1>21, <2>1, <2>2 DEF DatabaseError
<1> QED
  BY <1>4, <1>5, <1>6, <1>7, <1>8, <1>9, <1>10, <1>11, <1>12, <1>13, <1>15, <1>17,
     <1>18, <1>19, <1>20, <1>21
  DEF Next, TaskStep, ScanStep
-----------------------------------------------------------------------------
(* A dead process is empty *)

LEMMA DownStep ==
  ASSUME RunnerInv, Next
  PROVE  DownMeansEmpty'
<1> USE DEF RunnerInv
<1>1. CASE up'
  BY <1>1 DEF DownMeansEmpty
<1>2. CASE Crash
  BY <1>2 DEF Crash, DownMeansEmpty, IsIdle, Idle, TaskRecord
<1>3. CASE UNCHANGED <<up, task, scan>>
  BY <1>3 DEF DownMeansEmpty, IsIdle
<1>4. ASSUME ~up
      PROVE  /\ \A t \in Tasks : ~TaskStep(t) /\ ~DatabaseError(t)
             /\ \A t \in Tasks, r \in Rows, via \in Responders :
                  ~StartExecution(t, r) /\ ~Respond(t, r, via)
             /\ ~ScanStep
  BY <1>4, ZenonT(40)
  DEF DownMeansEmpty, IsIdle, TaskStep, DatabaseError, StartExecution, Respond,
      ScanStep, RunLoad, Boundary, BeginStep, StepSucceeds, StepRaises, SpawnChild,
      MarkSuspended, MarkTerminal, PropagateToParent, ResumeLoad, ResumeUpdate,
      ScanSelect, ScanExpire, ScanFire
<1>5. ASSUME up, ~Crash PROVE up'
  BY <1>5, ZenonT(40)
  DEF Next, TaskStep, ScanStep, RunLoad, Boundary, BeginStep, StepSucceeds,
      StepRaises, SpawnChild, MarkSuspended, MarkTerminal, PropagateToParent,
      ResumeLoad, ResumeUpdate, StartExecution, Respond, RequestCancel,
      ClockReachesExpiry, ScanSelect, ScanExpire, ScanFire, Restart, RestartUnswept,
      DatabaseError, procVars
<1>6. ASSUME ~up PROVE up' \/ UNCHANGED <<up, task, scan>>
  BY <1>4, <1>6
  DEF Next, Responders, RequestCancel, ClockReachesExpiry, Crash, Restart,
      RestartUnswept, procVars
<1> QED
  BY <1>1, <1>2, <1>3, <1>5, <1>6 DEF TypeOK
-----------------------------------------------------------------------------
(* Theorems *)

LEMMA RunnerInvStep == RunnerInv /\ [Next]_vars => RunnerInv'
<1> SUFFICES ASSUME RunnerInv, [Next]_vars PROVE RunnerInv'
  OBVIOUS
<1>1. CASE Next
  BY <1>1, TypeStep, DownStep, PointsStep, RunnerStep, TreeStep DEF RunnerInv
<1>2. CASE UNCHANGED vars
  BY <1>2
  DEF RunnerInv, vars, rowVars, history, procVars, TypeOK, DownMeansEmpty, ProgramPoints,
      AtItsPoint, OneRunnerPerRow, Owns, ParentsExist, DepthBounded, IsIdle,
      IsTerminal, OpenSteps
<1> QED
  BY <1>1, <1>2

\* The strengthening is an invariant of the executor.
THEOREM Invariance == Spec => []RunnerInv
  BY RunnerInvInit, RunnerInvStep, PTL DEF Spec

\* Every variable has its type, for any compositions, tasks and bounds.
THEOREM TypeCorrect == Spec => []TypeOK
<1>1. RunnerInv => TypeOK
  BY DEF RunnerInv
<1> QED
  BY <1>1, Invariance, PTL

\* Whatever resumes, timers, children, cancels, crashes and database errors
\* interleave, no row is ever run by two coroutines, and a coroutine only
\* runs a row whose status is running.
THEOREM Exclusion == Spec => []OneRunnerPerRow
<1>1. RunnerInv => OneRunnerPerRow
  BY DEF RunnerInv
<1> QED
  BY <1>1, Invariance, PTL

\* Compositions that call each other never nest deeper than the cap, and
\* parent links follow the nesting.
THEOREM Depth == Spec => []DepthBounded
<1>1. RunnerInv => DepthBounded
  BY DEF RunnerInv
<1> QED
  BY <1>1, Invariance, PTL

\* Nothing ever writes to the status or the state of a terminal row.
THEOREM Finality == Spec => TerminalIsFinal
<1>1. RunnerInv /\ [Next]_vars =>
        [\A r \in Rows : IsTerminal(r) => status'[r] = status[r] /\ state'[r] = state[r]]_vars
  BY RowStep
<1> QED
  BY <1>1, Invariance, PTL DEF Spec, TerminalIsFinal
-----------------------------------------------------------------------------
(* The in-memory state is the row's *)

\* No one but the runner of a row writes to its state.
LEMMA OthersKeepState ==
  ASSUME RunnerInv, Next, NEW u \in Tasks, task[u].pc \in LoopPcs, task'[u] = task[u]
  PROVE  state'[task[u].row] = state[task[u].row]
<1> DEFINE x == task[u].row
           Kept == state'[x] = state[x]
<1>t. TypeOK /\ task \in [Tasks -> TaskRecords]
  BY DEF RunnerInv, TypeOK
<1>u. x \in Rows /\ Owns(u, x) /\ status[x] = "running"
  BY OwnerRuns
\* A task at another program point of the loop runs another row.
<1>o. ASSUME NEW t \in Tasks, task[t].pc \in LoopPcs, t # u
      PROVE  task[t].row # x
  BY <1>o, <1>u, OwnerRuns DEF RunnerInv, OneRunnerPerRow
<1>1. ASSUME NEW t \in Tasks, BeginStep(t) \/ StepSucceeds(t) \/ StepRaises(t)
      PROVE  Kept
  <2>1. task[t].pc \in LoopPcs /\ task'[t].pc # task[t].pc
    BY <1>1, <1>t, ContinueMoves, FinishAsMoves
    DEF BeginStep, StepSucceeds, StepRaises, LoopPcs
  <2>2. task[t].row # x
    BY <1>o, <2>1
  <2> QED
    BY <1>1, <1>t, <1>u, <2>2 DEF BeginStep, StepSucceeds, StepRaises, Save, TypeOK
<1>2. ASSUME NEW t \in Tasks, MarkSuspended(t) \/ MarkTerminal(t) PROVE Kept
  <2>1. task[t].pc \in LoopPcs /\ task'[t].pc # task[t].pc
    BY <1>2, <1>t, RetireEffect, ContinueMoves DEF MarkSuspended, MarkTerminal, LoopPcs
  <2>2. task[t].row # x
    BY <1>o, <2>1
  <2> QED
    BY <1>2, <1>t, <1>u, <2>2 DEF MarkSuspended, MarkTerminal, Save, TypeOK
<1>3. ASSUME NEW t \in Tasks, ResumeUpdate(t) PROVE Kept
  BY <1>3, <1>t, <1>u DEF ResumeUpdate, Save, TypeOK
<1>4. ASSUME NEW t \in Tasks, NEW c \in Rows,
             StartExecution(t, c) \/ \E v \in Tasks : SpawnChild(t, v, c)
      PROVE  Kept
  BY <1>4, <1>t, <1>u DEF StartExecution, SpawnChild, Insert, TypeOK
<1>5. CASE UNCHANGED state
  BY <1>5
<1>6. \/ UNCHANGED state
      \/ \E t \in Tasks : \/ BeginStep(t) \/ StepSucceeds(t) \/ StepRaises(t)
                          \/ MarkSuspended(t) \/ MarkTerminal(t) \/ ResumeUpdate(t)
      \/ \E t \in Tasks, c \in Rows :
           StartExecution(t, c) \/ \E v \in Tasks : SpawnChild(t, v, c)
  BY DEF Next, TaskStep, ScanStep, RunLoad, Boundary, PropagateToParent, ResumeLoad,
         Respond, RequestCancel, ClockReachesExpiry, ScanSelect, ScanExpire, ScanFire,
         Crash, Restart, RestartUnswept, DatabaseError, rowVars
<1> QED
  BY <1>1, <1>2, <1>3, <1>4, <1>5, <1>6

LEMMA FreshInit == Init => InMemoryStateIsFresh
  BY DEF Init, InMemoryStateIsFresh, Idle, TaskRecord

LEMMA FreshStep ==
  ASSUME RunnerInv, InMemoryStateIsFresh, Next
  PROVE  InMemoryStateIsFresh'
<1> DEFINE Inside == {"check", "begin", "dispatch", "finish"}
           FreshAt(t) == task[t].pc \in Inside => task[t].state = state[task[t].row]
<1>t. TypeOK /\ task \in [Tasks -> TaskRecords]
  BY DEF RunnerInv, TypeOK
<1>i. \A t \in Tasks : FreshAt(t)
  BY DEF InMemoryStateIsFresh
\* A task that is left alone keeps its state, and so does its row.
<1>k. ASSUME NEW u \in Tasks, task'[u] = task[u] PROVE FreshAt(u)'
  BY <1>i, <1>k, OthersKeepState DEF LoopPcs
<1>1. ASSUME NEW t \in Tasks, FreshAt(t)', \A u \in Tasks : u # t => task'[u] = task[u]
      PROVE  InMemoryStateIsFresh'
  BY <1>1, <1>k DEF InMemoryStateIsFresh
\* t leaves the loop, or has not entered it yet.
<1>2. ASSUME NEW t \in Tasks, task'[t].pc \notin Inside,
             \A u \in Tasks : u # t => task'[u] = task[u]
      PROVE  InMemoryStateIsFresh'
  BY <1>1, <1>2
<1>3. ASSUME NEW t \in Tasks, Retire(t) PROVE InMemoryStateIsFresh'
  BY <1>2, <1>3, <1>t, RetireEffect
<1>4. ASSUME NEW t \in Tasks, RunLoad(t) PROVE InMemoryStateIsFresh'
  <2>1. state[task[t].row] \in ExecutionState
    BY <1>4, LiveTask DEF RunLoad, IsIdle
  <2>2. CASE Continue(t, "check", state[task[t].row])
    BY <1>1, <1>4, <1>t, <2>1, <2>2, ContinueEffect DEF RunLoad, rowVars, Pcs
  <2> QED
    BY <1>3, <1>4, <2>2 DEF RunLoad
<1>5. ASSUME NEW t \in Tasks, Boundary(t) PROVE InMemoryStateIsFresh'
  <2> DEFINE st == task[t].state
  <2>1. st \in ExecutionState /\ st = state[task[t].row] /\ UNCHANGED state
    BY <1>5, <1>i, LiveTask DEF Boundary, IsIdle, rowVars
  <2>2. CASE \E o \in {"cancelled", "completed"} : FinishAs(t, o, st)
    BY <1>1, <1>t, <2>1, <2>2, FinishAsEffect
  <2>3. CASE Continue(t, "begin", st)
    BY <1>1, <1>t, <2>1, <2>3, ContinueEffect DEF Pcs
  <2> QED
    BY <1>5, <2>2, <2>3 DEF Boundary
\* t saves what it holds.
<1>6. ASSUME NEW t \in Tasks, NEW st, Save(task[t].row, st), task[t].pc \in LoopPcs,
             \/ \E pc \in Pcs : Continue(t, pc, st)
             \/ FinishAs(t, "failed", st)
      PROVE  InMemoryStateIsFresh'
  <2>1. task[t].row \in Rows
    BY <1>6, OwnerRuns
  <2>2. state'[task[t].row] = st
    BY <1>6, <1>t, <2>1 DEF Save, TypeOK
  <2>3. /\ task'[t].row = task[t].row /\ task'[t].state = st
        /\ \A u \in Tasks : u # t => task'[u] = task[u]
    BY <1>6, <1>t, ContinueMoves, FinishAsMoves
  <2>4. FreshAt(t)'
    BY <2>2, <2>3
  <2> QED
    BY <1>1, <2>3, <2>4
<1>7. ASSUME NEW t \in Tasks, BeginStep(t) \/ StepSucceeds(t) \/ StepRaises(t)
      PROVE  InMemoryStateIsFresh'
  BY <1>6, <1>7 DEF BeginStep, StepSucceeds, StepRaises, LoopPcs, Pcs
<1>8. ASSUME NEW t \in Tasks, NEW u \in Tasks, NEW c \in Rows, SpawnChild(t, u, c)
      PROVE  InMemoryStateIsFresh'
  <2>1. FreshAt(t)' /\ FreshAt(u)'
    BY <1>8, <1>t, SpawnChildEffect, DetachedType
  <2> QED
    BY <1>8, <1>t, <1>k, <2>1, SpawnChildEffect DEF InMemoryStateIsFresh
<1>9. ASSUME NEW t \in Tasks, MarkTerminal(t) PROVE InMemoryStateIsFresh'
  <2>1. task[t].state \in ExecutionState
    BY <1>9, LiveTask DEF MarkTerminal, IsIdle
  <2>2. CASE Continue(t, "propagate", task[t].state)
    BY <1>2, <1>t, <2>1, <2>2, ContinueEffect DEF Pcs
  <2> QED
    BY <1>3, <1>9, <2>2 DEF MarkTerminal
<1>10. ASSUME NEW t \in Tasks, ResumeUpdate(t) PROVE InMemoryStateIsFresh'
  <2>1. task[t].row \in Rows /\ task[t].state \in ExecutionState
    BY <1>10, LiveTask DEF ResumeUpdate, IsIdle
  <2>2. CASE Save(task[t].row, task[t].state) /\ Continue(t, "check", task[t].state)
    BY <1>1, <1>t, <2>1, <2>2, ContinueEffect DEF Save, TypeOK, Pcs
  <2> QED
    BY <1>3, <1>10, <2>2 DEF ResumeUpdate
<1>11. ASSUME NEW t \in Tasks, NEW r, NEW via, NEW s,
              task' = [task EXCEPT ![t] = Resuming(r, via, s)]
       PROVE  InMemoryStateIsFresh'
  BY <1>2, <1>11, <1>t DEF Resuming, TaskRecord
<1>12. ASSUME \/ \E t \in Tasks : PropagateToParent(t)
              \/ \E t \in Tasks, c \in scan : ScanFire(t, c)
              \/ \E t \in Tasks, r \in Rows, via \in {"owner", "approver", "callback"} :
                   Respond(t, r, via)
       PROVE  InMemoryStateIsFresh'
  BY <1>3, <1>11, <1>12, SMTT(30) DEF PropagateToParent, ScanFire, Respond
<1>13. ASSUME NEW t \in Tasks, ResumeLoad(t) PROVE InMemoryStateIsFresh'
  <2>1. CASE task' = [task EXCEPT ![t] = [@ EXCEPT !.pc = "resume_update",
                                            !.state = Answered(state[task[t].row])]]
    BY <1>2, <1>t, <2>1 DEF TaskRecords
  <2> QED
    BY <1>3, <1>13, <2>1 DEF ResumeLoad, Continue
<1>14. ASSUME NEW t \in Tasks, NEW r \in Rows, StartExecution(t, r)
       PROVE  InMemoryStateIsFresh'
  BY <1>2, <1>14, <1>t, DetachedType DEF StartExecution
<1>15. ASSUME NEW t \in Tasks, MarkSuspended(t) \/ DatabaseError(t)
       PROVE  InMemoryStateIsFresh'
  BY <1>3, <1>15 DEF MarkSuspended, DatabaseError
<1>16. ASSUME Crash PROVE InMemoryStateIsFresh'
  BY <1>16 DEF Crash, InMemoryStateIsFresh, Idle, TaskRecord
<1>17. ASSUME \/ ScanSelect \/ Restart \/ RestartUnswept
              \/ \E c \in scan : ScanExpire(c)
              \/ \E r \in Rows : RequestCancel(r) \/ ClockReachesExpiry(r)
       PROVE  InMemoryStateIsFresh'
  <2>1. UNCHANGED <<state, task>>
    BY <1>17
    DEF ScanSelect, Restart, RestartUnswept, ScanExpire, RequestCancel,
        ClockReachesExpiry, rowVars, procVars
  <2> QED
    BY <2>1 DEF InMemoryStateIsFresh
<1> QED
  BY <1>4, <1>5, <1>7, <1>8, <1>9, <1>10, <1>12, <1>13, <1>14, <1>15, <1>16, <1>17
  DEF Next, TaskStep, ScanStep

\* The run loop never re-reads the state column and need not: what it holds
\* is what the row holds, at every boundary and when it ends.
THEOREM Freshness == Spec => []InMemoryStateIsFresh
<1>1. RunnerInv /\ InMemoryStateIsFresh /\ [Next]_vars => InMemoryStateIsFresh'
  <2>1. CASE UNCHANGED vars
    BY <2>1 DEF vars, rowVars, procVars, InMemoryStateIsFresh
  <2> QED
    BY <2>1, FreshStep
<1> QED
  BY <1>1, FreshInit, Invariance, PTL DEF Spec
=============================================================================
