----------------------- MODULE CompositionSteps_proofs -----------------------
(***************************************************************************)
(* How far an execution has come, for all compositions: its steps are      *)
(* begun in order and one at a time, so a row is always between two steps, *)
(* inside one, or ended.  What a suspended row says, what a completed one  *)
(* promises, that no step is begun twice, that a cancel leaves at most one *)
(* step to begin and that no running row is abandoned follow.              *)
(***************************************************************************)
EXTENDS CompositionExecution_proofs

-----------------------------------------------------------------------------
(* States between and inside steps *)

\* The step the loop takes next is the first of the open ones.
LEMMA NextStepIsFirst ==
  ASSUME NEW r \in Rows, NEW st, OpenSteps(r, st) # {}
  PROVE  /\ NextStep(r, st) \in OpenSteps(r, st)
         /\ \A u \in OpenSteps(r, st) : NextStep(r, st) <= u
<1>1. OpenSteps(r, st) \subseteq Nat
  BY DEF OpenSteps
<1>2. \E s \in OpenSteps(r, st) : \A u \in OpenSteps(r, st) : s <= u
  BY <1>1, LeastNat
<1> QED
  BY <1>2 DEF NextStep

LEMMA PlanLength == ASSUME NEW r \in Rows PROVE Len(Plan[r]) \in Nat
  BY PlanAssumption

\* A new execution is before its first step.
LEMMA FreshIsBetween == ASSUME NEW r \in Rows PROVE BetweenSteps(r, FreshState)
<1>1. Len(Plan[r]) \in Nat /\ 1..Len(Plan[r]) \subseteq Steps
  BY PlanLength, PlanSteps
<1>2. \A s \in 1..Len(Plan[r]) : FreshState.step[s] = "pending"
  BY <1>1 DEF FreshState
<1>3. 0 \in 0..Len(Plan[r]) /\ \A s \in 1..Len(Plan[r]) : ~(s <= 0)
  BY <1>1
<1> QED
  BY <1>2, <1>3 DEF BetweenSteps

\* Between two steps the next one is pending, and beginning it is being
\* inside it.
LEMMA BeginsInside ==
  ASSUME NEW r \in Rows, NEW st \in ExecutionState, BetweenSteps(r, st),
         OpenSteps(r, st) # {}
  PROVE  LET s == NextStep(r, st) IN
         /\ s \in 1..Len(Plan[r])
         /\ st.step[s] = "pending"
         /\ InsideStep(r, [WithStep(st, s, "in_progress") EXCEPT !.current = s])
<1> DEFINE s == NextStep(r, st)
           begun == [WithStep(st, s, "in_progress") EXCEPT !.current = s]
<1>1. PICK k \in 0..Len(Plan[r]) :
        \A u \in 1..Len(Plan[r]) : st.step[u] = IF u <= k THEN "succeeded" ELSE "pending"
  BY DEF BetweenSteps
<1>2. /\ s \in 1..Len(Plan[r]) /\ st.step[s] # "succeeded"
      /\ \A u \in 1..Len(Plan[r]) : st.step[u] \notin {"succeeded", "failed"} => s <= u
  BY NextStepIsFirst DEF OpenSteps
<1>3. Len(Plan[r]) \in Nat /\ 1..Len(Plan[r]) \subseteq Steps
  BY PlanLength, PlanSteps
<1>4. s = k + 1
  <2>1. s > k
    BY <1>1, <1>2
  <2>2. k + 1 \in 1..Len(Plan[r]) /\ st.step[k + 1] = "pending"
    BY <1>1, <1>2, <1>3, <2>1
  <2> QED
    BY <1>1, <1>2, <2>1, <2>2
<1>5. /\ begun.current = s
      /\ \A u \in 1..Len(Plan[r]) :
           begun.step[u] = IF u = s THEN "in_progress" ELSE st.step[u]
  BY <1>2, <1>3 DEF WithStep, ExecutionState
<1> HIDE DEF s, begun
<1>6. InsideStep(r, begun)
  BY <1>1, <1>2, <1>3, <1>4, <1>5 DEF InsideStep
<1> QED
  BY <1>1, <1>2, <1>4, <1>6 DEF s, begun

\* When the current step succeeds, the execution is between two steps again.
LEMMA SucceedsBetween ==
  ASSUME NEW r \in Rows, NEW st \in ExecutionState, InsideStep(r, st),
         NEW after, after.step = [st.step EXCEPT ![st.current] = "succeeded"]
  PROVE  BetweenSteps(r, after)
<1> DEFINE k == st.current
<1>1. Len(Plan[r]) \in Nat /\ 1..Len(Plan[r]) \subseteq Steps /\ k \in 1..Len(Plan[r])
  BY PlanLength, PlanSteps DEF InsideStep
<1>2. \A s \in 1..Len(Plan[r]) :
        after.step[s] = IF s = k THEN "succeeded" ELSE st.step[s]
  BY <1>1 DEF ExecutionState
<1>3. \A s \in 1..Len(Plan[r]) :
        after.step[s] = IF s <= k THEN "succeeded" ELSE "pending"
  BY <1>1, <1>2 DEF InsideStep
<1>4. k \in 0..Len(Plan[r])
  BY <1>1
<1> HIDE DEF k
<1> QED
  BY <1>3, <1>4 DEF BetweenSteps

\* Between two steps, with none open, all are done.
LEMMA NoneOpenAllDone ==
  ASSUME NEW r \in Rows, NEW st, BetweenSteps(r, st), OpenSteps(r, st) = {}
  PROVE  AllDone(r, st)
<1>1. \A s \in 1..Len(Plan[r]) : st.step[s] \in {"succeeded", "failed"}
  BY DEF OpenSteps
<1>2. \A s \in 1..Len(Plan[r]) : st.step[s] \in {"succeeded", "pending"}
  BY DEF BetweenSteps
<1> QED
  BY <1>1, <1>2 DEF AllDone
-----------------------------------------------------------------------------
(* Tasks in order *)

\* A task that arrives at a program point with the state st.
LEMMA ArrivesInOrder ==
  ASSUME NEW t \in Tasks, NEW r, NEW st, task'[t].row = r, task'[t].state = st,
         task'[t].pc # "spawned",
         task'[t].pc \in {"check", "begin", "resume_update"} => BetweenSteps(r, st),
         task'[t].pc \in {"dispatch", "suspend"} => InsideStep(r, st),
         task'[t].pc = "suspend" =>
           state'[r].step = st.step /\ Kind(r, st.current) = "subcomposition",
         task'[t].pc = "finish" /\ task'[t].outcome = "completed" => AllDone(r, st)
  PROVE  TaskInOrder(t)'
  BY DEF TaskInOrder, BetweenSteps, InsideStep, AllDone, Kind

\* A task that a step leaves alone: nobody else writes to the row it runs.
LEMMA LeftInOrder ==
  ASSUME RunnerInv, Next, NEW u \in Tasks, TaskInOrder(u), task'[u] = task[u]
  PROVE  TaskInOrder(u)'
<1>1. task[u].pc \in LoopPcs => state'[task[u].row] = state[task[u].row]
  BY OthersKeepState
<1> QED
  BY <1>1 DEF TaskInOrder, BetweenSteps, InsideStep, AllDone, Kind, LoopPcs

LEMMA TasksInOrderStep ==
  ASSUME RunnerInv, InMemoryStateIsFresh, StepsInOrder, Next, NEW u \in Tasks
  PROVE  TaskInOrder(u)'
<1> DEFINE Left(t) == \A v \in Tasks : v # t => task'[v] = task[v]
<1>t. TypeOK /\ task \in [Tasks -> TaskRecords]
  BY DEF RunnerInv, TypeOK
<1>i. \A v \in Tasks : TaskInOrder(v)
  BY DEF StepsInOrder
<1>k. task'[u] = task[u] => TaskInOrder(u)'
  BY <1>i, LeftInOrder
\* t leaves for a place where nothing is asked.
<1>1. ASSUME NEW t \in Tasks, Left(t),
             task'[t].pc \in {"idle", "resume", "propagate"}
      PROVE  TaskInOrder(u)'
  BY <1>1, <1>k DEF TaskInOrder
<1>2. ASSUME NEW t \in Tasks, Retire(t) PROVE TaskInOrder(u)'
  BY <1>1, <1>2, <1>t, RetireEffect
\* t arrives with the state st.
<1>3. ASSUME NEW t \in Tasks, Left(t), TaskInOrder(t)' PROVE TaskInOrder(u)'
  BY <1>3, <1>k
<1>4. ASSUME NEW t \in Tasks, RunLoad(t) PROVE TaskInOrder(u)'
  <2> DEFINE r == task[t].row
  <2>1. r \in Rows /\ state[r] \in ExecutionState
    BY <1>4, LiveTask DEF RunLoad, IsIdle
  <2>2. CASE Continue(t, "check", state[r])
    <3>1. BetweenSteps(r, state[r])
      BY <1>4, <1>i, <2>1, FreshIsBetween DEF RunLoad, TaskInOrder
    <3>2. /\ task'[t].pc = "check" /\ task'[t].row = r /\ task'[t].state = state[r]
          /\ Left(t)
      BY <1>t, <2>1, <2>2, ContinueMoves
    <3>3. TaskInOrder(t)'
      BY <3>1, <3>2, ArrivesInOrder
    <3> QED
      BY <1>3, <3>2, <3>3
  <2> QED
    BY <1>2, <1>4, <2>2 DEF RunLoad
<1>5. ASSUME NEW t \in Tasks, Boundary(t) PROVE TaskInOrder(u)'
  <2> DEFINE r == task[t].row
             st == task[t].state
  <2>1. r \in Rows /\ st \in ExecutionState /\ BetweenSteps(r, st)
    BY <1>5, <1>i, LiveTask DEF Boundary, IsIdle, TaskInOrder
  <2>2. CASE FinishAs(t, "cancelled", st)
    <3>1. /\ task'[t].pc = "finish" /\ task'[t].outcome = "cancelled"
          /\ task'[t].row = r /\ task'[t].state = st /\ Left(t)
      BY <1>t, <2>1, <2>2, FinishAsEffect
    <3> QED
      BY <1>3, <3>1, ArrivesInOrder
  <2>3. CASE FinishAs(t, "completed", st) /\ OpenSteps(r, st) = {}
    <3>1. /\ task'[t].pc = "finish" /\ task'[t].row = r /\ task'[t].state = st
          /\ Left(t)
      BY <1>t, <2>1, <2>3, FinishAsMoves
    <3> QED
      BY <1>3, <2>1, <2>3, <3>1, NoneOpenAllDone, ArrivesInOrder
  <2>4. CASE Continue(t, "begin", st)
    <3>1. /\ task'[t].pc = "begin" /\ task'[t].row = r /\ task'[t].state = st
          /\ Left(t)
      BY <1>t, <2>1, <2>4, ContinueMoves
    <3> QED
      BY <1>3, <2>1, <3>1, ArrivesInOrder
  <2> QED
    BY <1>5, <2>2, <2>3, <2>4 DEF Boundary
<1>6. ASSUME NEW t \in Tasks, BeginStep(t) PROVE TaskInOrder(u)'
  <2> DEFINE r == task[t].row
             s == NextStep(r, task[t].state)
             st == [WithStep(task[t].state, s, "in_progress") EXCEPT !.current = s]
  <2>1. /\ r \in Rows /\ task[t].state \in ExecutionState
        /\ BetweenSteps(r, task[t].state) /\ OpenSteps(r, task[t].state) # {}
    BY <1>6, <1>i, LiveTask
    DEF BeginStep, IsIdle, TaskInOrder, RunnerInv, ProgramPoints, AtItsPoint
  <2>2. InsideStep(r, st)
    BY <2>1, BeginsInside
  <2>3. Continue(t, "dispatch", st)
    BY <1>6 DEF BeginStep
  <2> HIDE DEF s, st
  <2>4. task'[t].pc = "dispatch" /\ task'[t].row = r /\ task'[t].state = st /\ Left(t)
    BY <1>t, <2>3, ContinueMoves
  <2> QED
    BY <1>3, <2>2, <2>4, ArrivesInOrder
<1>7. ASSUME NEW t \in Tasks, StepSucceeds(t) PROVE TaskInOrder(u)'
  <2> DEFINE r == task[t].row
             s == task[t].state.current
             st == [WithStep(task[t].state, s, "succeeded") EXCEPT !.current = 0]
  <2>1. /\ r \in Rows /\ task[t].state \in ExecutionState
        /\ InsideStep(r, task[t].state)
    BY <1>7, <1>i, LiveTask DEF StepSucceeds, IsIdle, TaskInOrder
  <2>2. st.step = [task[t].state.step EXCEPT ![task[t].state.current] = "succeeded"]
    BY <2>1 DEF WithStep, ExecutionState
  <2>3. Continue(t, "check", st)
    BY <1>7 DEF StepSucceeds
  <2> HIDE DEF st
  <2>4. BetweenSteps(r, st)
    BY <2>1, <2>2, SucceedsBetween
  <2>5. task'[t].pc = "check" /\ task'[t].row = r /\ task'[t].state = st /\ Left(t)
    BY <1>t, <2>3, ContinueMoves
  <2> QED
    BY <1>3, <2>4, <2>5, ArrivesInOrder
<1>8. ASSUME NEW t \in Tasks, StepRaises(t) PROVE TaskInOrder(u)'
  <2> DEFINE st == WithStep(task[t].state, task[t].state.current, "failed")
  <2>1. FinishAs(t, "failed", st)
    BY <1>8 DEF StepRaises
  <2>2. task'[t].pc = "finish" /\ task'[t].outcome = "failed" /\ Left(t)
    BY <1>t, <2>1 DEF FinishAs, TaskRecords
  <2> QED
    BY <1>3, <2>2 DEF TaskInOrder
<1>9. ASSUME NEW t \in Tasks, NEW v \in Tasks, NEW c \in Rows, SpawnChild(t, v, c)
      PROVE  TaskInOrder(u)'
  <2> DEFINE r == task[t].row
             st == [task[t].state EXCEPT !.child = c]
  <2>1. /\ r \in Rows /\ task[t].state \in ExecutionState
        /\ InsideStep(r, task[t].state) /\ task[t].state = state[r]
        /\ Kind(r, task[t].state.current) = "subcomposition"
    BY <1>9, <1>i, LiveTask DEF SpawnChild, IsIdle, TaskInOrder, InMemoryStateIsFresh
  <2>2. st.step = task[t].state.step /\ st.current = task[t].state.current
    BY <2>1 DEF ExecutionState
  <2>3. r # c /\ state' = [state EXCEPT ![c] = FreshState]
    BY <1>9, OwnerRuns DEF SpawnChild, Insert, LoopPcs
  <2>4. InsideStep(r, st)
    BY <2>1, <2>2 DEF InsideStep
  <2>5. task'[t].pc = "suspend" /\ task'[t].row = r /\ task'[t].state = st
    BY <1>9, <1>t DEF SpawnChild, TaskRecords, IsIdle
  <2>6. state'[r].step = st.step /\ state'[c] = FreshState
    BY <1>t, <2>1, <2>2, <2>3 DEF TypeOK
  <2> HIDE DEF st
  <2>7. TaskInOrder(t)'
    BY <2>1, <2>2, <2>4, <2>5, <2>6, ArrivesInOrder
  <2>8. TaskInOrder(v)'
    BY <1>9, <1>t, <2>6, SpawnChildEffect, DetachedType DEF TaskInOrder
  <2> QED
    BY <1>9, <1>t, <1>k, <2>7, <2>8, SpawnChildEffect
<1>10. ASSUME NEW t \in Tasks, MarkTerminal(t) PROVE TaskInOrder(u)'
  <2>1. CASE Continue(t, "propagate", task[t].state)
    BY <1>1, <1>t, <2>1, ContinueMoves
  <2> QED
    BY <1>2, <1>10, <2>1 DEF MarkTerminal
<1>11. ASSUME NEW t \in Tasks, ResumeLoad(t) PROVE TaskInOrder(u)'
  <2> DEFINE r == task[t].row
  <2>1. r \in Rows /\ state[r] \in ExecutionState
    BY <1>11, LiveTask DEF ResumeLoad, IsIdle
  <2>2. CASE status[r] = "suspended" /\ Continue(t, "resume_update", Answered(state[r]))
    <3>1. InsideStep(r, state[r])
      BY <2>1, <2>2 DEF StepsInOrder, RowInOrder
    <3>2. Answered(state[r]).step = [state[r].step EXCEPT ![state[r].current] = "succeeded"]
      BY DEF Answered
    <3>3. BetweenSteps(r, Answered(state[r]))
      BY <2>1, <3>1, <3>2, SucceedsBetween
    <3>4. /\ task'[t].pc = "resume_update" /\ task'[t].row = r
          /\ task'[t].state = Answered(state[r]) /\ Left(t)
      BY <1>t, <2>2, ContinueMoves
    <3> QED
      BY <1>3, <3>3, <3>4, ArrivesInOrder
  <2> QED
    BY <1>2, <1>11, <2>2 DEF ResumeLoad
<1>12. ASSUME NEW t \in Tasks, ResumeUpdate(t) PROVE TaskInOrder(u)'
  <2> DEFINE r == task[t].row
             st == task[t].state
  <2>1. CASE Continue(t, "check", st)
    <3>1. BetweenSteps(r, st)
      BY <1>12, <1>i DEF ResumeUpdate, TaskInOrder
    <3>2. task'[t].pc = "check" /\ task'[t].row = r /\ task'[t].state = st /\ Left(t)
      BY <1>t, <2>1, ContinueMoves
    <3> QED
      BY <1>3, <3>1, <3>2, ArrivesInOrder
  <2> QED
    BY <1>2, <1>12, <2>1 DEF ResumeUpdate
<1>13. ASSUME NEW t \in Tasks, NEW r \in Rows, StartExecution(t, r)
       PROVE  TaskInOrder(u)'
  <2>1. state'[r] = FreshState /\ task'[t] = Detached(r) /\ Left(t)
    BY <1>13, <1>t DEF StartExecution, Insert, TypeOK
  <2>2. TaskInOrder(t)'
    BY <2>1, DetachedType DEF TaskInOrder
  <2> QED
    BY <1>3, <2>1, <2>2
<1>14. ASSUME NEW t \in Tasks, NEW r, NEW via, NEW s,
              task' = [task EXCEPT ![t] = Resuming(r, via, s)]
       PROVE  TaskInOrder(u)'
  BY <1>1, <1>14, <1>t DEF Resuming, TaskRecord
<1>15. ASSUME \/ \E t \in Tasks : PropagateToParent(t)
              \/ \E t \in Tasks, c \in scan : ScanFire(t, c)
              \/ \E t \in Tasks, r \in Rows, via \in {"owner", "approver", "callback"} :
                   Respond(t, r, via)
       PROVE  TaskInOrder(u)'
  BY <1>2, <1>14, <1>15, SMTT(30) DEF PropagateToParent, ScanFire, Respond
<1>16. ASSUME NEW t \in Tasks, MarkSuspended(t) \/ DatabaseError(t)
       PROVE  TaskInOrder(u)'
  BY <1>2, <1>16 DEF MarkSuspended, DatabaseError
<1>17. ASSUME Crash PROVE TaskInOrder(u)'
  BY <1>17 DEF Crash, TaskInOrder, Idle, TaskRecord
<1>18. ASSUME \/ ScanSelect \/ Restart \/ RestartUnswept
              \/ \E c \in scan : ScanExpire(c)
              \/ \E r \in Rows : RequestCancel(r) \/ ClockReachesExpiry(r)
       PROVE  TaskInOrder(u)'
  BY <1>18, <1>k
  DEF ScanSelect, Restart, RestartUnswept, ScanExpire, RequestCancel,
      ClockReachesExpiry, procVars
<1> QED
  BY <1>4, <1>5, <1>6, <1>7, <1>8, <1>9, <1>10, <1>11, <1>12, <1>13, <1>15, <1>16,
     <1>17, <1>18
  DEF Next, TaskStep, ScanStep
-----------------------------------------------------------------------------
(* Rows in order *)

LEMMA RowInOrderStep ==
  ASSUME RunnerInv, InMemoryStateIsFresh, StepsInOrder, Next, NEW r \in Rows
  PROVE  RowInOrder(r)'
<1>t. TypeOK /\ task \in [Tasks -> TaskRecords]
  BY DEF RunnerInv, TypeOK
<1>i. RowInOrder(r) /\ \A t \in Tasks : TaskInOrder(t)
  BY DEF StepsInOrder
<1>1. CASE status'[r] = status[r] /\ state'[r] = state[r]
  BY <1>1, <1>i DEF RowInOrder, InsideStep, AllDone, Kind
<1>2. CASE status'[r] \in {"running", "failed", "cancelled", "expired"}
  BY <1>2 DEF RowInOrder
<1>3. ASSUME NEW t \in Tasks, BeginStep(t) \/ StepSucceeds(t) \/ StepRaises(t)
      PROVE  RowInOrder(r)'
  <2>1. task[t].row \in Rows /\ status[task[t].row] = "running"
    BY <1>3, OwnerRuns DEF BeginStep, StepSucceeds, StepRaises, LoopPcs
  <2> QED
    BY <1>1, <1>2, <1>3, <1>t, <2>1 DEF BeginStep, StepSucceeds, StepRaises, Save, TypeOK
<1>4. ASSUME NEW t \in Tasks, MarkSuspended(t) PROVE RowInOrder(r)'
  <2> DEFINE x == task[t].row
             st == [task[t].state EXCEPT !.suspension = Kind(x, task[t].state.current)]
  <2>1. /\ x \in Rows /\ task[t].state \in ExecutionState
        /\ InsideStep(x, task[t].state)
        /\ Kind(x, task[t].state.current) # "tool"
    <3>1. task[t].pc \in {"dispatch", "suspend"} /\ TaskInOrder(t)
      BY <1>4, <1>i DEF MarkSuspended
    <3>2. x \in Rows /\ task[t].state \in ExecutionState
      BY <3>1, LiveTask DEF IsIdle
    <3>3. task[t].pc = "dispatch" => Kind(x, task[t].state.current) # "tool"
      BY <1>4 DEF MarkSuspended
    <3> QED
      BY <3>1, <3>2, <3>3 DEF TaskInOrder
  <2>2. /\ st.step = task[t].state.step /\ st.current = task[t].state.current
        /\ st.suspension = Kind(x, task[t].state.current)
    BY <2>1 DEF ExecutionState
  <2>3. \/ UNCHANGED <<status, state>>
        \/ /\ status' = [status EXCEPT ![x] = "suspended"]
           /\ state' = [state EXCEPT ![x] = st]
    BY <1>4 DEF MarkSuspended, Save
  <2> HIDE DEF st
  <2>4. /\ InsideStep(x, st)
        /\ st.suspension = Kind(x, st.current) /\ st.suspension # "tool"
    BY <2>1, <2>2 DEF InsideStep
  <2>5. CASE r = x /\ status'[r] = "suspended" /\ state'[r] = st
    BY <2>4, <2>5 DEF RowInOrder, InsideStep, Kind
  <2> QED
    BY <1>1, <1>t, <2>1, <2>3, <2>5 DEF TypeOK
<1>5. ASSUME NEW t \in Tasks, MarkTerminal(t) PROVE RowInOrder(r)'
  <2> DEFINE x == task[t].row
  <2>1. /\ x \in Rows /\ task[t].outcome \in {"completed", "failed", "cancelled"}
        /\ task[t].outcome = "completed" => AllDone(x, task[t].state)
    BY <1>5, <1>i, LiveTask
    DEF MarkTerminal, IsIdle, TaskInOrder, TaskRecords, RunnerInv, ProgramPoints, AtItsPoint
  <2>2. \/ UNCHANGED <<status, state>>
        \/ /\ status' = [status EXCEPT ![x] = task[t].outcome]
           /\ state' = [state EXCEPT ![x] = task[t].state]
    BY <1>5 DEF MarkTerminal, Save
  <2>3. CASE r = x /\ status'[r] = task[t].outcome /\ state'[r] = task[t].state
    BY <2>1, <2>3 DEF RowInOrder, AllDone
  <2> QED
    BY <1>1, <1>t, <2>1, <2>2, <2>3 DEF TypeOK
<1>6. ASSUME NEW t \in Tasks, ResumeUpdate(t) PROVE RowInOrder(r)'
  BY <1>1, <1>2, <1>6, <1>t DEF ResumeUpdate, Save, TypeOK
<1>7. ASSUME NEW t \in Tasks, NEW c \in Rows,
             StartExecution(t, c) \/ \E v \in Tasks : SpawnChild(t, v, c)
      PROVE  RowInOrder(r)'
  BY <1>1, <1>2, <1>7, <1>t DEF StartExecution, SpawnChild, Insert, TypeOK
<1>8. ASSUME NEW c \in scan, ScanExpire(c) PROVE RowInOrder(r)'
  BY <1>1, <1>2, <1>8, <1>t DEF ScanExpire, TypeOK
<1>9. ASSUME Restart PROVE RowInOrder(r)'
  BY <1>1, <1>2, <1>9, <1>t DEF Restart, TypeOK
<1>10. ASSUME NEW t \in Tasks, DatabaseError(t) PROVE RowInOrder(r)'
  BY <1>1, <1>2, <1>10, <1>t DEF DatabaseError, TypeOK
<1>11. ASSUME UNCHANGED <<status, state>> PROVE RowInOrder(r)'
  BY <1>1, <1>11
<1>12. ASSUME \/ ScanSelect \/ Crash \/ RestartUnswept
              \/ \E t \in Tasks : \/ RunLoad(t) \/ Boundary(t) \/ ResumeLoad(t)
                                  \/ PropagateToParent(t)
              \/ \E t \in Tasks, c \in scan : ScanFire(t, c)
              \/ \E t \in Tasks, x \in Rows, via \in {"owner", "approver", "callback"} :
                   Respond(t, x, via)
              \/ \E x \in Rows : RequestCancel(x) \/ ClockReachesExpiry(x)
       PROVE  RowInOrder(r)'
  BY <1>11, <1>12
  DEF ScanSelect, Crash, RestartUnswept, RunLoad, Boundary, ResumeLoad,
      PropagateToParent, ScanFire, Respond, RequestCancel, ClockReachesExpiry, rowVars
<1> QED
  BY <1>3, <1>4, <1>5, <1>6, <1>7, <1>8, <1>9, <1>10, <1>12
  DEF Next, TaskStep, ScanStep

LEMMA StepsInOrderInit == Init => StepsInOrder
<1> SUFFICES ASSUME Init PROVE StepsInOrder
  OBVIOUS
<1>1. \A t \in Tasks : TaskInOrder(t)
  BY DEF Init, TaskInOrder, Idle, TaskRecord
<1>2. \A r \in Rows : RowInOrder(r)
  BY DEF Init, RowInOrder
<1> QED
  BY <1>1, <1>2 DEF StepsInOrder

\* Every execution takes its steps in order, one at a time: what a row and
\* the task that runs it hold is always the state between two steps, inside
\* one, or at the end.
THEOREM Order == Spec => []StepsInOrder
<1>1. RunnerInv /\ InMemoryStateIsFresh /\ StepsInOrder /\ [Next]_vars => StepsInOrder'
  <2> SUFFICES ASSUME RunnerInv, InMemoryStateIsFresh, StepsInOrder, [Next]_vars
               PROVE  StepsInOrder'
    OBVIOUS
  <2>1. CASE Next
    BY <2>1, TasksInOrderStep, RowInOrderStep DEF StepsInOrder
  <2>2. CASE UNCHANGED vars
    <3>1. /\ UNCHANGED <<status, state, task>>
          /\ \A t \in Tasks : TaskInOrder(t)
          /\ \A r \in Rows : RowInOrder(r)
      BY <2>2 DEF vars, rowVars, procVars, StepsInOrder
    <3>2. \A t \in Tasks : TaskInOrder(t)'
      BY <3>1 DEF TaskInOrder, BetweenSteps, InsideStep, AllDone, Kind
    <3>3. \A r \in Rows : RowInOrder(r)'
      BY <3>1 DEF RowInOrder, InsideStep, AllDone, Kind
    <3> QED
      BY <3>2, <3>3 DEF StepsInOrder
  <2> QED
    BY <2>1, <2>2
<1> QED
  BY <1>1, StepsInOrderInit, Invariance, Freshness, PTL DEF Spec

\* A suspended row names the step it waits on, with everything before it
\* done and nothing after it begun: a response has one place to go.
THEOREM WaitsOnOneStep == Spec => []SuspensionWellFormed
<1>1. StepsInOrder => SuspensionWellFormed
  BY DEF StepsInOrder, RowInOrder, InsideStep, SuspensionWellFormed
<1> QED
  BY <1>1, Order, PTL

-----------------------------------------------------------------------------
(* How often a step is begun *)

\* The step a loop is about to begin was not begun before.
LEMMA BeginsNewStep ==
  ASSUME RunnerInv, StepsInOrder, NEW t \in Tasks, task[t].pc = "begin"
  PROVE  /\ NextStep(task[t].row, task[t].state) \in Steps
         /\ task[t].state.step[NextStep(task[t].row, task[t].state)] = "pending"
<1>1. task[t].row \in Rows /\ task[t].state \in ExecutionState
  BY LiveTask DEF IsIdle
<1>2. /\ BetweenSteps(task[t].row, task[t].state)
      /\ OpenSteps(task[t].row, task[t].state) # {}
  BY DEF StepsInOrder, TaskInOrder, RunnerInv, ProgramPoints, AtItsPoint
<1> QED
  BY <1>1, <1>2, BeginsInside, PlanSteps

\* What a step of the executor leaves of a row as far as counting goes.
SameCount(r) ==
  /\ calls'[r] = calls[r] /\ misplaced'[r] = misplaced[r]
  /\ \A s \in Steps : (state'[r].step[s] = "pending") <=> (state[r].step[s] = "pending")

CountsOne(r) ==
  /\ misplaced'[r] = misplaced[r]
  /\ \E s \in Steps :
       /\ state[r].step[s] = "pending"
       /\ state'[r].step = [state[r].step EXCEPT ![s] = "in_progress"]
       /\ calls'[r] = [calls[r] EXCEPT ![s] = @ + 1]

TakesAnswer(r, t) ==
  /\ task[t].pc = "resume_update" /\ task[t].row = r /\ status[r] = "suspended"
  /\ state'[r] = task[t].state
  /\ calls'[r] = calls[r]
  /\ misplaced'[r] = (misplaced[r] \/ task[t].state # Answered(state[r]))

LEMMA CountMoves ==
  ASSUME RunnerInv, InMemoryStateIsFresh, StepsInOrder, Next, NEW r \in Rows
  PROVE  SameCount(r) \/ CountsOne(r) \/ \E t \in Tasks : TakesAnswer(r, t)
<1> DEFINE Goal == SameCount(r) \/ CountsOne(r) \/ \E t \in Tasks : TakesAnswer(r, t)
<1>t. TypeOK
  BY DEF RunnerInv
\* r is not written, or only what says nothing of pending steps.
<1>1. ASSUME UNCHANGED <<calls, misplaced>>, state'[r] = state[r] PROVE Goal
  BY <1>1 DEF SameCount
<1>2. ASSUME UNCHANGED <<calls, misplaced>>, NEW x \in Rows, NEW st,
             state' = [state EXCEPT ![x] = st],
             \A s \in Steps : (st.step[s] = "pending") <=> (state[x].step[s] = "pending")
      PROVE  Goal
  BY <1>2, <1>t DEF SameCount, TypeOK
<1>3. ASSUME NEW t \in Tasks, BeginStep(t) PROVE Goal
  <2> DEFINE x == task[t].row
             s == NextStep(x, task[t].state)
             st == [WithStep(task[t].state, s, "in_progress") EXCEPT !.current = s]
  <2>1. /\ x \in Rows /\ task[t].state = state[x] /\ state[x] \in ExecutionState
        /\ s \in Steps /\ state[x].step[s] = "pending"
    BY <1>3, LiveTask, BeginsNewStep DEF BeginStep, IsIdle, InMemoryStateIsFresh
  <2>2. /\ state' = [state EXCEPT ![x] = st] /\ calls' = [calls EXCEPT ![x][s] = @ + 1]
        /\ misplaced' = misplaced
    BY <1>3 DEF BeginStep, Save
  <2>3. st.step = [state[x].step EXCEPT ![s] = "in_progress"]
    BY <2>1 DEF WithStep, ExecutionState
  <2> HIDE DEF s, st
  <2>4. CASE r = x
    <3>1. state'[r] = st /\ calls'[r] = [calls[r] EXCEPT ![s] = @ + 1]
      BY <1>t, <2>1, <2>2, <2>4 DEF TypeOK
    <3> QED
      BY <2>1, <2>2, <2>3, <2>4, <3>1 DEF CountsOne
  <2>5. CASE r # x
    BY <1>t, <2>1, <2>2, <2>5 DEF SameCount, TypeOK
  <2> QED
    BY <2>4, <2>5
<1>4. ASSUME NEW t \in Tasks, StepSucceeds(t) \/ StepRaises(t) PROVE Goal
  <2> DEFINE x == task[t].row
             k == task[t].state.current
             ok == [WithStep(task[t].state, k, "succeeded") EXCEPT !.current = 0]
             bad == WithStep(task[t].state, k, "failed")
  <2>1. /\ x \in Rows /\ task[t].state = state[x] /\ state[x] \in ExecutionState
        /\ InsideStep(x, state[x])
    BY <1>4, LiveTask
    DEF StepSucceeds, StepRaises, IsIdle, InMemoryStateIsFresh, StepsInOrder, TaskInOrder
  <2>2. k \in Steps /\ state[x].step[k] = "in_progress"
    BY <2>1, PlanLength, PlanSteps DEF InsideStep
  <2>3. /\ ok.step = [state[x].step EXCEPT ![k] = "succeeded"]
        /\ bad.step = [state[x].step EXCEPT ![k] = "failed"]
    BY <2>1 DEF WithStep, ExecutionState
  <2>4. /\ \E st \in {ok, bad} : state' = [state EXCEPT ![x] = st]
        /\ UNCHANGED <<calls, misplaced>>
    BY <1>4 DEF StepSucceeds, StepRaises, Save, history
  <2> HIDE DEF k, ok, bad
  <2>5. \A st \in {ok, bad} : \A s \in Steps :
          (st.step[s] = "pending") <=> (state[x].step[s] = "pending")
    BY <2>1, <2>2, <2>3 DEF ExecutionState
  <2>6. PICK st : st \in {ok, bad} /\ state' = [state EXCEPT ![x] = st]
    BY <2>4
  <2>7. \A s \in Steps : (st.step[s] = "pending") <=> (state[x].step[s] = "pending")
    BY <2>5, <2>6
  <2>8. UNCHANGED <<calls, misplaced>>
    BY <2>4
  <2>9. CASE r = x
    BY <1>t, <2>1, <2>6, <2>7, <2>8, <2>9 DEF SameCount, TypeOK
  <2>10. CASE r # x
    BY <1>1, <1>t, <2>6, <2>8, <2>10 DEF TypeOK
  <2> QED
    BY <2>9, <2>10
<1>5. ASSUME NEW t \in Tasks, MarkSuspended(t) PROVE Goal
  <2> DEFINE x == task[t].row
             st == [task[t].state EXCEPT !.suspension = Kind(x, task[t].state.current)]
  <2>1. /\ x \in Rows /\ task[t].state \in ExecutionState
        /\ task[t].state.step = state[x].step
    BY <1>5, LiveTask
    DEF MarkSuspended, IsIdle, InMemoryStateIsFresh, StepsInOrder, TaskInOrder
  <2>2. st.step = state[x].step
    BY <2>1 DEF ExecutionState
  <2>3. /\ state' = state \/ state' = [state EXCEPT ![x] = st]
        /\ UNCHANGED <<calls, misplaced>>
    BY <1>5 DEF MarkSuspended, Save, history
  <2> HIDE DEF st
  <2> QED
    BY <1>1, <1>2, <2>1, <2>2, <2>3
<1>6. ASSUME NEW t \in Tasks, MarkTerminal(t) PROVE Goal
  <2>1. task[t].row \in Rows /\ task[t].state = state[task[t].row]
    BY <1>6, LiveTask DEF MarkTerminal, IsIdle, InMemoryStateIsFresh
  <2>2. /\ state' = state \/ state' = [state EXCEPT ![task[t].row] = task[t].state]
        /\ UNCHANGED <<calls, misplaced>>
    BY <1>6 DEF MarkTerminal, Save, history
  <2> QED
    BY <1>1, <1>2, <2>1, <2>2
<1>7. ASSUME NEW t \in Tasks, ResumeUpdate(t) PROVE Goal
  <2>1. task[t].row \in Rows /\ calls' = calls
    BY <1>7, LiveTask DEF ResumeUpdate, IsIdle
  <2>2. CASE status[task[t].row] = "suspended" /\ r = task[t].row
    <3>1. TakesAnswer(r, t)
      BY <1>7, <1>t, <2>1, <2>2 DEF ResumeUpdate, TakesAnswer, Save, TypeOK
    <3> QED
      BY <3>1
  <2>3. CASE status[task[t].row] # "suspended" \/ r # task[t].row
    BY <1>7, <1>t, <2>1, <2>3 DEF ResumeUpdate, SameCount, Save, TypeOK
  <2> QED
    BY <2>2, <2>3
\* A row is inserted in the state it is in.
<1>8. ASSUME NEW t \in Tasks, NEW c \in Rows,
             StartExecution(t, c) \/ \E v \in Tasks : SpawnChild(t, v, c)
      PROVE  Goal
  <2>1. /\ status[c] = "absent" /\ state' = [state EXCEPT ![c] = FreshState]
        /\ UNCHANGED <<calls, misplaced>>
    BY <1>8 DEF StartExecution, SpawnChild, Insert, history
  <2>2. state[c] = FreshState
    BY <2>1 DEF StepsInOrder, RowInOrder
  <2> QED
    BY <1>2, <2>1, <2>2
<1>9. ASSUME \/ ScanSelect \/ Crash \/ Restart \/ RestartUnswept
             \/ \E c \in scan : ScanExpire(c)
             \/ \E t \in Tasks : \/ RunLoad(t) \/ Boundary(t) \/ ResumeLoad(t)
                                 \/ PropagateToParent(t) \/ DatabaseError(t)
             \/ \E t \in Tasks, c \in scan : ScanFire(t, c)
             \/ \E t \in Tasks, x \in Rows, via \in {"owner", "approver", "callback"} :
                  Respond(t, x, via)
             \/ \E x \in Rows : RequestCancel(x) \/ ClockReachesExpiry(x)
      PROVE  Goal
  <2>1. UNCHANGED <<state, calls, misplaced>>
    BY <1>9
    DEF ScanSelect, Crash, Restart, RestartUnswept, ScanExpire, RunLoad, Boundary,
        ResumeLoad, PropagateToParent, DatabaseError, ScanFire, Respond, RequestCancel,
        ClockReachesExpiry, rowVars, history
  <2> QED
    BY <1>1, <2>1
<1> QED
  BY <1>3, <1>4, <1>5, <1>6, <1>7, <1>8, <1>9 DEF Next, TaskStep, ScanStep

\* The count of a row, after each of the three.
LEMMA RowCountStep ==
  ASSUME RunnerInv, InMemoryStateIsFresh, StepsInOrder, CallsAreCounted, Next,
         NEW r \in Rows
  PROVE  /\ EachIsCounted(r)' /\ WasBegun(r, state[r])'
         /\ \A s \in Steps : calls[r][s] # 0 => calls'[r][s] # 0
<1>t. /\ state[r] \in ExecutionState /\ calls[r] \in [Steps -> Nat]
      /\ calls \in [Rows -> [Steps -> Nat]]
  BY DEF RunnerInv, TypeOK
<1>i. EachIsCounted(r) /\ WasBegun(r, state[r])
  BY DEF CallsAreCounted
<1>1. CASE SameCount(r)
  BY <1>1, <1>i DEF SameCount, EachIsCounted, WasBegun
<1>2. CASE CountsOne(r)
  <2>1. PICK s \in Steps :
          /\ state[r].step[s] = "pending"
          /\ state'[r].step = [state[r].step EXCEPT ![s] = "in_progress"]
          /\ calls'[r] = [calls[r] EXCEPT ![s] = @ + 1]
    BY <1>2 DEF CountsOne
  <2>2. \A u \in Steps : /\ calls'[r][u] = IF u = s THEN calls[r][u] + 1 ELSE calls[r][u]
                         /\ state'[r].step[u] = IF u = s THEN "in_progress"
                                                ELSE state[r].step[u]
    BY <1>t, <2>1 DEF ExecutionState
  <2>3. misplaced'[r] = misplaced[r]
    BY <1>2 DEF CountsOne
  <2>4. \A u \in Steps : calls[r][u] \in Nat
    BY <1>t
  <2> QED
    BY <1>i, <2>1, <2>2, <2>3, <2>4 DEF EachIsCounted, WasBegun
<1>3. ASSUME NEW t \in Tasks, TakesAnswer(r, t)
      PROVE  /\ EachIsCounted(r)' /\ WasBegun(r, state[r])'
             /\ \A s \in Steps : calls[r][s] # 0 => calls'[r][s] # 0
  <2>1. state'[r] = task[t].state /\ calls'[r] = calls[r]
    BY <1>3 DEF TakesAnswer
  <2>2. WasBegun(r, task[t].state)
    BY <1>3 DEF TakesAnswer, CallsAreCounted
  <2>3. InsideStep(r, state[r])
    BY <1>3 DEF TakesAnswer, StepsInOrder, RowInOrder
  <2>4. state[r].current \in Steps /\ state[r].step[state[r].current] = "in_progress"
    BY <2>3, PlanLength, PlanSteps DEF InsideStep
  <2>5. ~misplaced'[r] => ~misplaced[r] /\ task[t].state = Answered(state[r])
    BY <1>3 DEF TakesAnswer
  <2>6. \A s \in Steps :
          (Answered(state[r]).step[s] = "pending") <=> (state[r].step[s] = "pending")
    BY <1>t, <2>4 DEF Answered, ExecutionState
  <2>7. EachIsCounted(r)'
    BY <1>i, <2>1, <2>5, <2>6 DEF EachIsCounted
  <2> QED
    BY <2>1, <2>2, <2>7 DEF WasBegun
<1> QED
  BY <1>1, <1>2, <1>3, CountMoves

\* An answer on its way was prepared from the row, and stays as it is.
LEMMA OnlyLoadPrepares ==
  ASSUME RunnerInv, Next, NEW u \in Tasks, task'[u].pc = "resume_update",
         ~ResumeLoad(u)
  PROVE  task'[u] = task[u]
<1>t. task \in [Tasks -> TaskRecords]
  BY DEF RunnerInv, TypeOK
<1>1. ASSUME NEW t \in Tasks, \A v \in Tasks : v # t => task'[v] = task[v],
             t = u => task'[t].pc # "resume_update"
      PROVE  task'[u] = task[u]
  BY <1>1
<1>2. ASSUME NEW t \in Tasks, ResumeLoad(t) PROVE task'[u] = task[u]
  BY <1>2, <1>t, RetireEffect, ContinueMoves DEF ResumeLoad
<1>3. ASSUME NEW t \in Tasks,
             \/ RunLoad(t) \/ Boundary(t) \/ BeginStep(t) \/ StepSucceeds(t)
             \/ StepRaises(t) \/ MarkSuspended(t) \/ MarkTerminal(t) \/ ResumeUpdate(t)
             \/ DatabaseError(t)
      PROVE  task'[u] = task[u]
  BY <1>1, <1>3, <1>t, RetireEffect, ContinueMoves, FinishAsMoves
  DEF RunLoad, Boundary, BeginStep, StepSucceeds, StepRaises, MarkSuspended,
      MarkTerminal, ResumeUpdate, DatabaseError
<1>4. ASSUME NEW t \in Tasks,
             \/ PropagateToParent(t)
             \/ \E c \in scan : ScanFire(t, c)
             \/ \E x \in Rows, via \in {"owner", "approver", "callback"} : Respond(t, x, via)
      PROVE  task'[u] = task[u]
  BY <1>1, <1>4, <1>t, RetireEffect
  DEF PropagateToParent, ScanFire, Respond, Resuming, TaskRecord
<1>5. ASSUME NEW t \in Tasks, NEW x \in Rows, StartExecution(t, x)
      PROVE  task'[u] = task[u]
  BY <1>1, <1>5, <1>t, DetachedType DEF StartExecution
<1>6. ASSUME NEW t \in Tasks, NEW v \in Tasks, NEW c \in Rows, SpawnChild(t, v, c)
      PROVE  task'[u] = task[u]
  BY <1>6, <1>t, SpawnChildEffect, DetachedType
<1>7. ASSUME \/ ScanSelect \/ Crash \/ Restart \/ RestartUnswept
             \/ \E c \in scan : ScanExpire(c)
             \/ \E x \in Rows : RequestCancel(x) \/ ClockReachesExpiry(x)
      PROVE  task'[u] = task[u]
  BY <1>7
  DEF ScanSelect, Crash, Restart, RestartUnswept, ScanExpire, RequestCancel,
      ClockReachesExpiry, procVars, Idle, TaskRecord
<1> QED
  BY <1>2, <1>3, <1>4, <1>5, <1>6, <1>7 DEF Next, TaskStep, ScanStep

LEMMA AnswerCountStep ==
  ASSUME RunnerInv, InMemoryStateIsFresh, StepsInOrder, CallsAreCounted, Next,
         NEW t \in Tasks, task'[t].pc = "resume_update"
  PROVE  WasBegun(task[t].row, task[t].state)'
<1>1. CASE ResumeLoad(t)
  <2> DEFINE r == task[t].row
  <2>1. /\ r \in Rows /\ state[r] \in ExecutionState /\ status[r] = "suspended"
        /\ task'[t].row = r /\ task'[t].state = Answered(state[r])
    <3>1. task \in [Tasks -> TaskRecords] /\ r \in Rows /\ state[r] \in ExecutionState
      BY <1>1, LiveTask DEF ResumeLoad, IsIdle
    <3>2. ~Retire(t)
      BY <3>1, RetireEffect
    <3>3. status[r] = "suspended" /\ Continue(t, "resume_update", Answered(state[r]))
      BY <1>1, <3>2 DEF ResumeLoad
    <3> QED
      BY <3>1, <3>3, ContinueMoves
  <2>2. calls' = calls
    BY <1>1 DEF ResumeLoad, rowVars, history
  <2>3. InsideStep(r, state[r]) /\ WasBegun(r, state[r])
    BY <2>1 DEF StepsInOrder, RowInOrder, CallsAreCounted
  <2>4. state[r].current \in Steps /\ state[r].step[state[r].current] = "in_progress"
    BY <2>1, <2>3, PlanLength, PlanSteps DEF InsideStep
  <2>5. \A s \in Steps :
          (Answered(state[r]).step[s] = "pending") <=> (state[r].step[s] = "pending")
    BY <2>1, <2>4 DEF Answered, ExecutionState
  <2> QED
    BY <2>1, <2>2, <2>3, <2>5 DEF WasBegun
<1>2. CASE ~ResumeLoad(t)
  <2>1. task'[t] = task[t]
    BY <1>2, OnlyLoadPrepares
  <2>2. PICK x \in Rows : x = task[t].row
    BY <2>1 DEF RunnerInv, TypeOK, IsIdle
  <2>3. WasBegun(x, task[t].state)
    BY <2>1, <2>2 DEF CallsAreCounted
  <2>4. \A s \in Steps : calls[x][s] # 0 => calls'[x][s] # 0
    BY <2>2, RowCountStep
  <2> QED
    BY <2>1, <2>2, <2>3, <2>4 DEF WasBegun
<1> QED
  BY <1>1, <1>2

\* The count of each step says how often it was begun, until an answer lands
\* on a suspension it was not prepared on.
THEOREM Counting == Spec => []CallsAreCounted
<1>1. Init => CallsAreCounted
  BY DEF Init, CallsAreCounted, EachIsCounted, WasBegun, FreshState, Idle, TaskRecord
<1>2. RunnerInv /\ InMemoryStateIsFresh /\ StepsInOrder /\ CallsAreCounted /\ [Next]_vars
        => CallsAreCounted'
  <2>1. ASSUME CallsAreCounted, UNCHANGED vars PROVE CallsAreCounted'
    <3>1. UNCHANGED <<state, calls, misplaced, task>>
      BY <2>1 DEF vars, rowVars, history, procVars
    <3> QED
      BY <2>1, <3>1 DEF CallsAreCounted, EachIsCounted, WasBegun
  <2>2. ASSUME RunnerInv, InMemoryStateIsFresh, StepsInOrder, CallsAreCounted, Next
        PROVE  CallsAreCounted'
    <3>1. \A r \in Rows : EachIsCounted(r)' /\ WasBegun(r, state[r])'
      BY <2>2, RowCountStep
    <3>2. \A t \in Tasks : task'[t].pc = "resume_update" =>
            WasBegun(task[t].row, task[t].state)'
      BY <2>2, AnswerCountStep
    <3> QED
      BY <3>1, <3>2 DEF CallsAreCounted, EachIsCounted, WasBegun
  <2> QED
    BY <2>1, <2>2
<1> QED
  BY <1>1, <1>2, Invariance, Freshness, Order, PTL DEF Spec

\* Whatever is resumed, crashes and fails, an execution that ends completed
\* has begun every step of its composition and recorded it as succeeded.
THEOREM CompletionIsEarned == Spec => []CompletedMeansAllDone
<1>1. StepsInOrder /\ CallsAreCounted => CompletedMeansAllDone
  <2> SUFFICES ASSUME StepsInOrder, CallsAreCounted, NEW r \in Rows,
                      status[r] = "completed", NEW s \in 1..Len(Plan[r])
               PROVE  state[r].step[s] = "succeeded" /\ calls[r][s] # 0
    BY DEF CompletedMeansAllDone
  <2>1. state[r].step[s] = "succeeded" /\ s \in Steps
    BY PlanSteps DEF StepsInOrder, RowInOrder, AllDone
  <2> QED
    BY <2>1 DEF CallsAreCounted, WasBegun
<1> QED
  BY <1>1, Order, Counting, PTL

\* Whatever crashes, restarts and resumes, no step is begun a second time,
\* unless an answer landed on a suspension it was not prepared on.
THEOREM StepsBeginOnce == Spec => []BegunOnce
<1>1. CallsAreCounted => BegunOnce
  BY DEF CallsAreCounted, EachIsCounted, BegunOnce
<1> QED
  BY <1>1, Counting, PTL
-----------------------------------------------------------------------------
(* No running row is abandoned *)

LEMMA NotStrandedStep ==
  ASSUME RunnerInv, NoStrandedRow, Next
  PROVE  NoStrandedRow'
<1> SUFFICES ASSUME up', faults' = 0, NEW r \in Rows, status'[r] = "running"
             PROVE  \E t \in Tasks : Owns(t, r)'
  BY DEF NoStrandedRow
<1> DEFINE Goal == \E t \in Tasks : Owns(t, r)'
           Left(t) == \A v \in Tasks : v # t => task'[v] = task[v]
           Quiet == UNCHANGED <<up, faults>> /\ status[r] = "running"
<1>t. TypeOK /\ task \in [Tasks -> TaskRecords]
  BY DEF RunnerInv, TypeOK
<1>h. Quiet => \E t \in Tasks : Owns(t, r)
  BY DEF NoStrandedRow
\* t moves and goes on running r, if it ran r.
<1>1. ASSUME NEW t \in Tasks, Left(t), Quiet, Owns(t, r) => Owns(t, r)' PROVE Goal
  BY <1>1, <1>h DEF Owns
<1>2. ASSUME NEW t \in Tasks, Left(t), Quiet, ~Owns(t, r) PROVE Goal
  BY <1>1, <1>2
<1>3. ASSUME NEW t \in Tasks, Retire(t), Quiet, ~Owns(t, r) PROVE Goal
  BY <1>2, <1>3, <1>t, RetireEffect
<1>4. ASSUME NEW t \in Tasks, RunLoad(t) PROVE Goal
  <2>1. ~IsTerminal(task[t].row)
    BY <1>4, OwnerRuns DEF RunLoad, LoopPcs
  <2>2. task'[t].pc = "check" /\ task'[t].row = task[t].row /\ Left(t)
    BY <1>4, <1>t, <2>1, ContinueMoves DEF RunLoad
  <2> QED
    BY <1>1, <1>4, <2>2 DEF RunLoad, Owns, rowVars, LoopPcs
<1>5. ASSUME NEW t \in Tasks,
             \/ Boundary(t) \/ BeginStep(t) \/ StepSucceeds(t) \/ StepRaises(t)
      PROVE  Goal
  <2>1. task'[t].pc \in LoopPcs /\ task'[t].row = task[t].row /\ Left(t)
    BY <1>5, <1>t, ContinueMoves, FinishAsMoves, ZenonT(40)
    DEF Boundary, BeginStep, StepSucceeds, StepRaises, LoopPcs
  <2>2. Quiet
    BY <1>5 DEF Boundary, BeginStep, StepSucceeds, StepRaises, rowVars
  <2> QED
    BY <1>1, <2>1, <2>2 DEF Owns
<1>6. ASSUME NEW t \in Tasks, NEW v \in Tasks, NEW c \in Rows, SpawnChild(t, v, c)
      PROVE  Goal
  <2>1. /\ task'[v] = Detached(c)
        /\ task'[t].pc = "suspend" /\ task'[t].row = task[t].row
        /\ \A w \in Tasks : w \notin {t, v} => task'[w] = task[w]
    BY <1>6, <1>t, SpawnChildEffect
  <2>2. CASE r = c
    BY <2>1, <2>2, DetachedType DEF Owns, LoopPcs
  <2>3. CASE r # c
    <3>1. Quiet
      BY <1>6, <1>t, <2>3 DEF SpawnChild, Insert, TypeOK
    <3>2. ~Owns(v, r)
      BY <1>6 DEF SpawnChild, IsIdle, Owns, LoopPcs
    <3> QED
      BY <1>h, <2>1, <3>1, <3>2 DEF Owns, LoopPcs
  <2> QED
    BY <2>2, <2>3
<1>7. ASSUME NEW t \in Tasks, MarkSuspended(t) \/ MarkTerminal(t) PROVE Goal
  <2> DEFINE x == task[t].row
  <2>1. x \in Rows /\ status[x] = "running" /\ ~IsTerminal(x)
    BY <1>7, OwnerRuns DEF MarkSuspended, MarkTerminal, LoopPcs
  <2>2. task[t].outcome # "running"
    BY <1>t DEF TaskRecords
  <2>3. r # x /\ Quiet
    BY <1>7, <1>t, <2>1, <2>2 DEF MarkSuspended, MarkTerminal, TypeOK
  <2>4. Left(t) /\ ~Owns(t, r)
    BY <1>7, <1>t, <2>3, RetireEffect, ContinueMoves DEF MarkSuspended, MarkTerminal, Owns
  <2> QED
    BY <1>2, <2>3, <2>4
<1>8. ASSUME NEW t \in Tasks, PropagateToParent(t) \/ ResumeLoad(t) PROVE Goal
  <2>1. Left(t)
    BY <1>8, <1>t, RetireEffect, ContinueMoves DEF PropagateToParent, ResumeLoad
  <2>2. Quiet /\ ~Owns(t, r)
    BY <1>8 DEF PropagateToParent, ResumeLoad, rowVars, Owns, LoopPcs
  <2> QED
    BY <1>2, <2>1, <2>2
<1>9. ASSUME NEW t \in Tasks, ResumeUpdate(t) PROVE Goal
  <2> DEFINE x == task[t].row
  <2>1. ~Owns(t, r) /\ UNCHANGED <<up, faults>>
    BY <1>9 DEF ResumeUpdate, Owns, LoopPcs
  <2>2. CASE Retire(t) /\ UNCHANGED status
    BY <1>3, <2>1, <2>2
  <2>3. CASE /\ status' = [status EXCEPT ![x] = "running"]
             /\ Continue(t, "check", task[t].state)
    <3>1. task'[t].pc = "check" /\ task'[t].row = x /\ Left(t)
      BY <1>t, <2>3, ContinueMoves
    <3>2. CASE r = x
      BY <3>1, <3>2 DEF Owns, LoopPcs
    <3>3. CASE r # x
      BY <1>2, <1>t, <2>1, <2>3, <3>1, <3>3 DEF TypeOK
    <3> QED
      BY <3>2, <3>3
  <2> QED
    BY <1>9, <2>2, <2>3 DEF ResumeUpdate
<1>10. ASSUME NEW t \in Tasks, NEW x \in Rows, StartExecution(t, x) PROVE Goal
  <2>1. task'[t] = Detached(x) /\ Left(t) /\ ~Owns(t, r)
    BY <1>10, <1>t DEF StartExecution, IsIdle, Owns, LoopPcs
  <2>2. CASE r = x
    BY <2>1, <2>2, DetachedType DEF Owns, LoopPcs
  <2>3. CASE r # x
    BY <1>2, <1>10, <1>t, <2>1, <2>3 DEF StartExecution, Insert, TypeOK
  <2> QED
    BY <2>2, <2>3
<1>11. ASSUME NEW t \in Tasks,
              \/ \E x \in Rows, via \in {"owner", "approver", "callback"} : Respond(t, x, via)
              \/ \E c \in scan : ScanFire(t, c)
       PROVE  Goal
  BY <1>2, <1>11, <1>t DEF Respond, ScanFire, rowVars, IsIdle, Owns, LoopPcs
<1>12. ASSUME UNCHANGED task, Quiet PROVE Goal
  BY <1>h, <1>12 DEF Owns
<1>13. ASSUME NEW c \in scan, ScanExpire(c) PROVE Goal
  BY <1>12, <1>13, <1>t DEF ScanExpire, TypeOK
<1>14. ASSUME ScanSelect \/ \E x \in Rows : RequestCancel(x) \/ ClockReachesExpiry(x)
       PROVE  Goal
  BY <1>12, <1>14
  DEF ScanSelect, RequestCancel, ClockReachesExpiry, rowVars, procVars
\* A crash takes the process down, and the sweep leaves no row running.
<1>15. ASSUME Crash \/ Restart PROVE Goal
  BY <1>15 DEF Crash, Restart
<1>16. ASSUME RestartUnswept \/ \E t \in Tasks : DatabaseError(t) PROVE Goal
  <2>1. faults' = faults + 1
    BY <1>16 DEF RestartUnswept, DatabaseError
  <2>2. faults \in Nat
    BY <1>t, BoundAssumption DEF TypeOK
  <2> QED
    BY <2>1, <2>2
<1> QED
  BY <1>4, <1>5, <1>6, <1>7, <1>8, <1>9, <1>10, <1>11, <1>13, <1>14, <1>15, <1>16
  DEF Next, TaskStep, ScanStep

\* While the process is up and no database error was swallowed, every
\* running row is run by somebody: starts, resumes, children, cancels,
\* crashes and sweeps leave no row that nobody will move.
THEOREM NobodyStranded == Spec => []NoStrandedRow
<1>1. Init => NoStrandedRow
  BY DEF Init, NoStrandedRow
<1>2. RunnerInv /\ NoStrandedRow /\ [Next]_vars => NoStrandedRow'
  <2>1. ASSUME NoStrandedRow, UNCHANGED vars PROVE NoStrandedRow'
    BY <2>1 DEF vars, rowVars, procVars, NoStrandedRow, Owns
  <2> QED
    BY <2>1, NotStrandedStep
<1> QED
  BY <1>1, <1>2, Invariance, PTL DEF Spec
-----------------------------------------------------------------------------
(* A cancel leaves at most one step to begin *)

\* Only the boundary brings a task in front of a step.
LEMMA OnlyBoundaryBegins ==
  ASSUME RunnerInv, Next, NEW u \in Tasks, task'[u].pc = "begin",
         ~Boundary(u)
  PROVE  task[u].pc = "begin" /\ task'[u].row = task[u].row
<1> DEFINE Left(t) == \A v \in Tasks : v # t => task'[v] = task[v]
<1>t. task \in [Tasks -> TaskRecords]
  BY DEF RunnerInv, TypeOK
<1>1. ASSUME NEW t \in Tasks, Left(t), t = u => task'[t].pc # "begin"
      PROVE  task'[u] = task[u]
  BY <1>1
<1>2. ASSUME NEW t \in Tasks, Boundary(t) PROVE task'[u] = task[u]
  BY <1>2, <1>t, ContinueMoves, FinishAsMoves DEF Boundary
<1>3. ASSUME NEW t \in Tasks,
             \/ RunLoad(t) \/ BeginStep(t) \/ StepSucceeds(t) \/ StepRaises(t)
             \/ MarkSuspended(t) \/ MarkTerminal(t) \/ ResumeLoad(t) \/ ResumeUpdate(t)
             \/ DatabaseError(t)
      PROVE  task'[u] = task[u]
  BY <1>1, <1>3, <1>t, RetireEffect, ContinueMoves, FinishAsMoves
  DEF RunLoad, BeginStep, StepSucceeds, StepRaises, MarkSuspended, MarkTerminal,
      ResumeLoad, ResumeUpdate, DatabaseError
<1>4. ASSUME NEW t \in Tasks,
             \/ PropagateToParent(t)
             \/ \E c \in scan : ScanFire(t, c)
             \/ \E x \in Rows, via \in {"owner", "approver", "callback"} : Respond(t, x, via)
      PROVE  task'[u] = task[u]
  BY <1>1, <1>4, <1>t, RetireEffect
  DEF PropagateToParent, ScanFire, Respond, Resuming, TaskRecord
<1>5. ASSUME NEW t \in Tasks, NEW x \in Rows, StartExecution(t, x)
      PROVE  task'[u] = task[u]
  BY <1>1, <1>5, <1>t, DetachedType DEF StartExecution
<1>6. ASSUME NEW t \in Tasks, NEW v \in Tasks, NEW c \in Rows, SpawnChild(t, v, c)
      PROVE  task'[u] = task[u]
  BY <1>6, <1>t, SpawnChildEffect, DetachedType
<1>7. ASSUME \/ ScanSelect \/ Crash \/ Restart \/ RestartUnswept
             \/ \E c \in scan : ScanExpire(c)
             \/ \E x \in Rows : RequestCancel(x) \/ ClockReachesExpiry(x)
      PROVE  task'[u] = task[u]
  BY <1>7
  DEF ScanSelect, Crash, Restart, RestartUnswept, ScanExpire, RequestCancel,
      ClockReachesExpiry, procVars, Idle, TaskRecord
<1>8. task'[u] = task[u]
  BY <1>2, <1>3, <1>4, <1>5, <1>6, <1>7 DEF Next, TaskStep, ScanStep
<1> QED
  BY <1>8

\* Only a step begun after the cancel counts, and a cancel is never undone.
LEMMA LateMoves ==
  ASSUME RunnerInv, Next, NEW r \in Rows
  PROVE  /\ cancel_requested[r] => cancel_requested'[r]
         /\ \/ late'[r] = late[r]
            \/ /\ late'[r] = late[r] + 1
               /\ cancel_requested[r]
               /\ \E t \in Tasks : BeginStep(t) /\ task[t].row = r
<1>t. TypeOK
  BY DEF RunnerInv
<1>1. ASSUME NEW t \in Tasks, BeginStep(t)
      PROVE  /\ cancel_requested' = cancel_requested
             /\ \/ late'[r] = late[r]
                \/ late'[r] = late[r] + 1 /\ cancel_requested[r] /\ task[t].row = r
  BY <1>1, <1>t DEF BeginStep, TypeOK
<1>2. ASSUME NEW x \in Rows, RequestCancel(x)
      PROVE  late' = late /\ (cancel_requested[r] => cancel_requested'[r])
  BY <1>2, <1>t DEF RequestCancel, TypeOK, history
<1>3. CASE \E t \in Tasks : TaskStep(t)
  <2>1. PICK t \in Tasks : TaskStep(t)
    BY <1>3
  <2>2. UNCHANGED <<cancel_requested, late>> \/ BeginStep(t)
    BY <2>1
    DEF TaskStep, RunLoad, Boundary, StepSucceeds, StepRaises, SpawnChild, MarkSuspended,
        MarkTerminal, PropagateToParent, ResumeLoad, ResumeUpdate, rowVars, history
  <2> QED
    BY <1>1, <2>1, <2>2
<1>4. CASE ScanStep \/ Crash \/ Restart \/ RestartUnswept
  <2>1. UNCHANGED <<cancel_requested, late>>
    BY <1>4
    DEF ScanStep, ScanSelect, ScanExpire, ScanFire, Crash, Restart, RestartUnswept,
        rowVars, history
  <2> QED
    BY <2>1
<1>5. CASE \E t \in Tasks, x \in Rows : StartExecution(t, x)
  BY <1>5 DEF StartExecution, history
<1>6. CASE \E t \in Tasks, x \in Rows, via \in {"owner", "approver", "callback"} :
             Respond(t, x, via)
  BY <1>6 DEF Respond, rowVars, history
<1>7. CASE \E x \in Rows : RequestCancel(x) \/ ClockReachesExpiry(x)
  <2>1. ASSUME NEW x \in Rows, ClockReachesExpiry(x)
        PROVE  UNCHANGED <<cancel_requested, late>>
    BY <2>1 DEF ClockReachesExpiry, history
  <2> QED
    BY <1>2, <1>7, <2>1
<1>8. CASE \E t \in Tasks : DatabaseError(t)
  BY <1>8 DEF DatabaseError, history
<1> QED
  BY <1>3, <1>4, <1>5, <1>6, <1>7, <1>8 DEF Next

LEMMA LastBegunStep ==
  ASSUME RunnerInv, CancelLeavesOne, Next, NEW r \in Rows
  PROVE  LastBegun(r)'
<1>t. TypeOK /\ task \in [Tasks -> TaskRecords]
  BY DEF RunnerInv, TypeOK
<1>i. LastBegun(r)
  BY DEF CancelLeavesOne
\* With the cancel in the row, nobody comes in front of a step of r.
<1>1. ASSUME NEW u \in Tasks, cancel_requested[r],
             task'[u].pc = "begin", task'[u].row = r
      PROVE  task[u].pc = "begin" /\ task[u].row = r
  <2>1. ~Boundary(u)
    BY <1>1, <1>t, FinishAsMoves, ContinueMoves DEF Boundary
  <2> QED
    BY <1>1, <2>1, OnlyBoundaryBegins
<1>2. CASE late'[r] = late[r]
  BY <1>1, <1>2, <1>i, LateMoves DEF LastBegun
<1>3. ASSUME NEW t \in Tasks, BeginStep(t), task[t].row = r, cancel_requested[r],
             late'[r] = late[r] + 1
      PROVE  LastBegun(r)'
  <2>1. late[r] = 0 /\ late'[r] = 1
    BY <1>3, <1>i, <1>t DEF LastBegun, BeginStep, TypeOK
  <2>2. task'[t].pc = "dispatch"
    BY <1>3, <1>t, ContinueMoves DEF BeginStep
  <2>3. \A u \in Tasks : task[u].pc = "begin" /\ task[u].row = r => u = t
    BY <1>3 DEF RunnerInv, OneRunnerPerRow, Owns, BeginStep, LoopPcs
  <2>4. \A u \in Tasks : ~(task'[u].pc = "begin" /\ task'[u].row = r)
    BY <1>1, <1>3, <2>2, <2>3
  <2> QED
    BY <1>3, <2>1, <2>4, LateMoves DEF LastBegun
<1> QED
  BY <1>2, <1>3, LateMoves

\* After a cancel was accepted at most the step whose boundary check had
\* already passed still begins, however often the row is resumed.
THEOREM CancelIsHeard == Spec => []CancelStopsSteps
<1>1. Init => CancelLeavesOne
  BY DEF Init, CancelLeavesOne, LastBegun
<1>2. RunnerInv /\ CancelLeavesOne /\ [Next]_vars => CancelLeavesOne'
  <2>1. ASSUME CancelLeavesOne, UNCHANGED vars PROVE CancelLeavesOne'
    BY <2>1 DEF vars, rowVars, history, procVars, CancelLeavesOne, LastBegun
  <2> QED
    BY <2>1, LastBegunStep DEF CancelLeavesOne
<1>3. CancelLeavesOne => CancelStopsSteps
  BY DEF CancelLeavesOne, LastBegun, CancelStopsSteps
<1> QED
  BY <1>1, <1>2, <1>3, Invariance, PTL DEF Spec
=============================================================================
