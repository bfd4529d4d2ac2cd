--------------------- MODULE CompositionLifecycle_proofs ---------------------
(***************************************************************************)
(* The executor implements ExecutionLifecycle, for all compositions; and   *)
(* what holds only of those that suspend in at most one place: an answer   *)
(* meant for a suspension finds it or finds nothing, only an overdue       *)
(* suspension expires, and a parent is resumed by its own child only.  A   *)
(* row does not say which of several suspensions a response was meant for, *)
(* so these are false of the other compositions.                           *)
(***************************************************************************)
EXTENDS CompositionSteps_proofs

-----------------------------------------------------------------------------
(* Once a row was seen suspended *)

\* What the arguments below know before a step.
Known ==
  /\ RunnerInv
  /\ InMemoryStateIsFresh
  /\ StepsInOrder
  /\ OneSuspension

LEMMA SuspendedIsSeen ==
  ASSUME StepsInOrder, NEW r \in Rows, status[r] = "suspended"
  PROVE  SeenAt(r, state[r].current)
  BY DEF StepsInOrder, RowInOrder, InsideStep, SeenAt

\* A row that was seen suspended on its only suspending step does not
\* suspend again: once it runs, that step has succeeded.
LEMMA SeenStep ==
  ASSUME Known, Next, NEW r \in Rows, NEW g, SuspendsOnce(r), SeenAt(r, g)
  PROVE  /\ SeenAt(r, g)'
         /\ status'[r] = "suspended" => status[r] = "suspended" /\ state'[r] = state[r]
<1> DEFINE Goal == /\ SeenAt(r, g)'
                   /\ status'[r] = "suspended" =>
                        status[r] = "suspended" /\ state'[r] = state[r]
<1> SUFFICES Goal
  OBVIOUS
<1>t. TypeOK /\ task \in [Tasks -> TaskRecords]
  BY DEF Known, RunnerInv, TypeOK
<1>g. /\ g \in 1..Len(Plan[r]) /\ Kind(r, g) # "tool" /\ status[r] # "absent"
      /\ status[r] = "running" => state[r].step[g] = "succeeded"
      /\ g \in Steps
  BY PlanSteps DEF SeenAt
\* The only step that suspends is g.
<1>o. \A s \in 1..Len(Plan[r]) : Kind(r, s) # "tool" => s = g
  BY <1>g DEF SuspendsOnce
<1>1. CASE status'[r] = status[r] /\ state'[r] = state[r]
  BY <1>1, <1>g DEF SeenAt, Kind
<1>2. CASE status'[r] \in TerminalStatuses
  BY <1>2, <1>g DEF SeenAt, Kind, TerminalStatuses
<1>3. CASE status'[r] = "running" /\ state'[r].step[g] = "succeeded"
  BY <1>3, <1>g DEF SeenAt, Kind
\* What the owner of r holds.
<1>4. ASSUME NEW t \in Tasks, task[t].pc \in {"begin", "dispatch", "suspend"},
             task[t].row = r
      PROVE  /\ status[r] = "running" /\ task[t].state \in ExecutionState
             /\ task[t].state.step[g] = "succeeded"
             /\ task[t].pc # "begin" => task[t].state.current # g
                                        /\ task[t].state.current \in Steps
                                        /\ Kind(r, task[t].state.current) = "tool"
  <2>1. status[r] = "running" /\ task[t].state \in ExecutionState
    BY <1>4, OwnerRuns, LiveTask DEF Known, LoopPcs, IsIdle
  <2>2. task[t].state.step = state[r].step
    BY <1>4 DEF Known, InMemoryStateIsFresh, StepsInOrder, TaskInOrder
  <2>3. CASE task[t].pc # "begin"
    <3>1. InsideStep(r, task[t].state)
      BY <1>4, <2>3 DEF Known, StepsInOrder, TaskInOrder
    <3>2. /\ task[t].state.current \in 1..Len(Plan[r])
          /\ task[t].state.step[task[t].state.current] = "in_progress"
      BY <3>1, PlanLength DEF InsideStep
    <3>3. task[t].state.current # g
      BY <1>g, <2>1, <2>2, <3>2
    <3> QED
      BY <1>g, <1>o, <2>1, <2>2, <3>2, <3>3, PlanSteps
  <2> QED
    BY <1>g, <2>1, <2>2, <2>3
<1>5. ASSUME NEW t \in Tasks, BeginStep(t) PROVE Goal
  <2>1. CASE task[t].row = r
    <3> DEFINE s == NextStep(r, task[t].state)
               st == [WithStep(task[t].state, s, "in_progress") EXCEPT !.current = s]
    <3>1. /\ status[r] = "running" /\ task[t].state \in ExecutionState
          /\ task[t].state.step[g] = "succeeded"
      BY <1>4, <1>5, <2>1 DEF BeginStep
    <3>2. s \in OpenSteps(r, task[t].state)
      BY <1>5, <2>1, NextStepIsFirst
      DEF BeginStep, Known, RunnerInv, ProgramPoints, AtItsPoint
    <3>3. s # g
      BY <3>1, <3>2 DEF OpenSteps
    <3>4. st.step[g] = "succeeded"
      BY <1>g, <3>1, <3>3 DEF WithStep, ExecutionState
    <3>5. state' = [state EXCEPT ![r] = st] /\ status' = status
      BY <1>5, <2>1 DEF BeginStep, Save
    <3> HIDE DEF s, st
    <3> QED
      BY <1>3, <1>t, <3>1, <3>4, <3>5 DEF TypeOK
  <2> QED
    BY <1>1, <1>5, <1>t, <2>1 DEF BeginStep, Save, TypeOK
<1>6. ASSUME NEW t \in Tasks, StepSucceeds(t) \/ StepRaises(t) PROVE Goal
  <2>1. CASE task[t].row = r
    <3> DEFINE k == task[t].state.current
               ok == [WithStep(task[t].state, k, "succeeded") EXCEPT !.current = 0]
               bad == WithStep(task[t].state, k, "failed")
    <3>1. /\ status[r] = "running" /\ task[t].state \in ExecutionState
          /\ task[t].state.step[g] = "succeeded" /\ k # g
      BY <1>4, <1>6, <2>1 DEF StepSucceeds, StepRaises
    <3>2. ok.step[g] = "succeeded" /\ bad.step[g] = "succeeded"
      BY <1>g, <3>1 DEF WithStep, ExecutionState
    <3>3. status' = status /\ \E st \in {ok, bad} : state' = [state EXCEPT ![r] = st]
      BY <1>6, <2>1 DEF StepSucceeds, StepRaises, Save
    <3> HIDE DEF ok, bad
    <3> QED
      BY <1>3, <1>t, <3>1, <3>2, <3>3 DEF TypeOK
  <2> QED
    BY <1>1, <1>6, <1>t, <2>1 DEF StepSucceeds, StepRaises, Save, TypeOK
<1>7. ASSUME NEW t \in Tasks, MarkSuspended(t) PROVE Goal
  <2>1. task[t].row # r
    <3> SUFFICES ASSUME task[t].row = r PROVE FALSE
      OBVIOUS
    <3>1. Kind(r, task[t].state.current) = "tool"
      BY <1>4, <1>7 DEF MarkSuspended
    <3>2. task[t].pc = "suspend" => Kind(r, task[t].state.current) = "subcomposition"
      BY DEF Known, StepsInOrder, TaskInOrder
    <3> QED
      BY <1>7, <3>1, <3>2 DEF MarkSuspended
  <2> QED
    BY <1>1, <1>7, <1>t, <2>1 DEF MarkSuspended, Save, TypeOK
<1>8. ASSUME NEW t \in Tasks, MarkTerminal(t) PROVE Goal
  <2>1. task[t].row \in Rows /\ task[t].outcome \in TerminalStatuses
    BY <1>8, LiveTask
    DEF MarkTerminal, IsIdle, Known, RunnerInv, ProgramPoints, AtItsPoint, TaskRecords,
        TerminalStatuses
  <2> QED
    BY <1>1, <1>2, <1>8, <1>t, <2>1 DEF MarkTerminal, Save, TypeOK
<1>9. ASSUME NEW t \in Tasks, ResumeUpdate(t) PROVE Goal
  <2>1. CASE task[t].row = r /\ status[r] = "suspended"
    <3> DEFINE st == task[t].state
    <3>1. st = Answered(state[r]) /\ SeenAt(r, st.current)
      BY <1>9, <2>1 DEF ResumeUpdate, Known, OneSuspension, AnswerIsCurrent
    <3>2. st.current = g /\ st.current = state[r].current
      BY <1>o, <3>1 DEF SeenAt, Answered
    <3>3. st.step[g] = "succeeded"
      BY <1>g, <1>t, <3>1, <3>2 DEF Answered, TypeOK, ExecutionState
    <3>4. status'[r] = "running" /\ state'[r] = st
      BY <1>9, <1>t, <2>1 DEF ResumeUpdate, Save, TypeOK
    <3> QED
      BY <1>3, <3>3, <3>4
  <2> QED
    BY <1>1, <1>9, <1>t, <2>1 DEF ResumeUpdate, Save, TypeOK
<1>10. ASSUME NEW t \in Tasks, NEW c \in Rows,
              StartExecution(t, c) \/ \E v \in Tasks : SpawnChild(t, v, c)
       PROVE  Goal
  BY <1>1, <1>10, <1>g, <1>t DEF StartExecution, SpawnChild, Insert, TypeOK
<1>11. ASSUME \/ \E c \in scan : ScanExpire(c)
              \/ Restart
              \/ \E t \in Tasks : DatabaseError(t)
       PROVE  Goal
  BY <1>1, <1>2, <1>11, <1>t DEF ScanExpire, Restart, DatabaseError, TypeOK, TerminalStatuses
<1>12. ASSUME UNCHANGED <<status, state>> PROVE Goal
  BY <1>1, <1>12
<1>13. ASSUME \/ ScanSelect \/ Crash \/ RestartUnswept
              \/ \E t \in Tasks : \/ RunLoad(t) \/ Boundary(t) \/ ResumeLoad(t)
                                  \/ PropagateToParent(t)
              \/ \E t \in Tasks, c \in scan : ScanFire(t, c)
              \/ \E t \in Tasks, x \in Rows, via \in {"owner", "approver", "callback"} :
                   Respond(t, x, via)
              \/ \E x \in Rows : RequestCancel(x) \/ ClockReachesExpiry(x)
       PROVE  Goal
  BY <1>12, <1>13
  DEF ScanSelect, Crash, RestartUnswept, RunLoad, Boundary, ResumeLoad,
      PropagateToParent, ScanFire, Respond, RequestCancel, ClockReachesExpiry, rowVars
<1> QED
  BY <1>5, <1>6, <1>7, <1>8, <1>9, <1>10, <1>11, <1>13
  DEF Next, TaskStep, ScanStep
-----------------------------------------------------------------------------
(* The tasks on their way to answer, and the scan *)

\* A child that has ended stays the ended child of its parent.
LEMMA EndedChildStays ==
  ASSUME RunnerInv, Next, NEW p \in Rows, ChildHasEnded(p), state'[p] = state[p]
  PROVE  ChildHasEnded(p)'
<1> DEFINE c == state[p].child
<1>1. c \in Rows /\ parent[c] = p /\ c # NoRow /\ IsTerminal(c)
  BY DEF ChildHasEnded, RunnerInv, TypeOK, ExecutionState
<1>2. status[c] # "absent" /\ status'[c] = status[c] /\ parent'[c] = parent[c]
  BY <1>1, RowStep DEF IsTerminal, TerminalStatuses
<1> QED
  BY <1>1, <1>2 DEF ChildHasEnded, IsTerminal

\* A task that a step leaves alone.
LEMMA AnswerKept ==
  ASSUME Known, Next, NEW u \in Tasks, task'[u] = task[u]
  PROVE  AnswerIsCurrent(u)'
<1> DEFINE r == task[u].row
           g == task[u].state.current
           k == task[u].checked
<1>i. AnswerIsCurrent(u)
  BY DEF Known, OneSuspension
<1>r. ~IsIdle(u) => r \in Rows
  BY DEF Known, RunnerInv, TypeOK
<1>1. ASSUME task[u].pc = "resume_update", SuspendsOnce(r)
      PROVE  SeenAt(r, g)' /\ (status'[r] = "suspended" => task[u].state = Answered(state'[r]))
  <2>1. /\ r \in Rows /\ SeenAt(r, g)
        /\ status[r] = "suspended" => task[u].state = Answered(state[r])
    BY <1>1, <1>i, <1>r DEF AnswerIsCurrent, IsIdle
  <2>2. status'[r] = "suspended" => status[r] = "suspended" /\ state'[r] = state[r]
    BY <1>1, <2>1, SeenStep
  <2>3. SeenAt(r, g)'
    <3>1. PICK x \in Rows, n \in Steps : x = r /\ n = g
      BY <2>1, PlanSteps DEF SeenAt
    <3>2. SeenAt(x, n)'
      BY <1>1, <2>1, <3>1, SeenStep
    <3> QED
      BY <3>1, <3>2 DEF SeenAt, Kind
  <2> QED
    BY <2>1, <2>2, <2>3
<1>2. ASSUME task[u].pc \in {"resume", "resume_update"}, task[u].via = "child",
             SuspendsOnce(r)
      PROVE  SeenAt(r, k)' /\ (status'[r] = "suspended" => ChildHasEnded(r)')
  <2>1. /\ r \in Rows /\ SeenAt(r, k)
        /\ status[r] = "suspended" => ChildHasEnded(r)
    BY <1>2, <1>i, <1>r DEF AnswerIsCurrent, IsIdle
  <2>2. PICK x \in Rows, n \in Steps : x = r /\ n = k
    BY <2>1, PlanSteps DEF SeenAt
  <2>3. /\ SeenAt(x, n)'
        /\ status'[x] = "suspended" => status[x] = "suspended" /\ state'[x] = state[x]
    BY <1>2, <2>1, <2>2, SeenStep
  <2>4. status'[x] = "suspended" => ChildHasEnded(x)'
    BY <2>1, <2>2, <2>3, EndedChildStays DEF Known
  <2> QED
    BY <2>2, <2>3, <2>4 DEF SeenAt, ChildHasEnded, IsTerminal, Kind
<1> QED
  BY <1>1, <1>2, SMTT(30) DEF AnswerIsCurrent, SeenAt, ChildHasEnded, IsTerminal, SuspendsOnce,
                    Answered, Kind

LEMMA AnswersStep ==
  ASSUME Known, Next, NEW u \in Tasks
  PROVE  AnswerIsCurrent(u)'
<1> DEFINE Left(t) == \A v \in Tasks : v # t => task'[v] = task[v]
           On == {"resume", "resume_update"}
<1>t. TypeOK /\ task \in [Tasks -> TaskRecords]
  BY DEF Known, RunnerInv, TypeOK
<1>i. \A v \in Tasks : AnswerIsCurrent(v)
  BY DEF Known, OneSuspension
<1>k. task'[u] = task[u] => AnswerIsCurrent(u)'
  BY AnswerKept
\* t goes where nothing is asked.
<1>1. ASSUME NEW t \in Tasks, Left(t), task'[t].pc \notin On PROVE AnswerIsCurrent(u)'
  BY <1>1, <1>k DEF AnswerIsCurrent
<1>2. ASSUME NEW t \in Tasks, Left(t), task'[t].pc = "resume", task'[t].via # "child"
      PROVE  AnswerIsCurrent(u)'
  BY <1>2, <1>k DEF AnswerIsCurrent
<1>3. ASSUME NEW t \in Tasks, Retire(t) PROVE AnswerIsCurrent(u)'
  BY <1>1, <1>3, <1>t, RetireEffect
<1>4. ASSUME NEW t \in Tasks,
             \/ RunLoad(t) \/ Boundary(t) \/ BeginStep(t) \/ StepSucceeds(t)
             \/ StepRaises(t) \/ MarkSuspended(t) \/ MarkTerminal(t) \/ ResumeUpdate(t)
             \/ DatabaseError(t)
      PROVE  AnswerIsCurrent(u)'
  <2>1. Left(t) /\ task'[t].pc \notin On
    BY <1>4, <1>t, RetireEffect, ContinueMoves, FinishAsMoves
    DEF RunLoad, Boundary, BeginStep, StepSucceeds, StepRaises, MarkSuspended,
        MarkTerminal, ResumeUpdate, DatabaseError
  <2> QED
    BY <1>1, <2>1
<1>5. ASSUME NEW t \in Tasks, NEW v \in Tasks, NEW c \in Rows, SpawnChild(t, v, c)
      PROVE  AnswerIsCurrent(u)'
  <2>1. /\ task'[t].pc = "suspend" /\ task'[v].pc = "spawned"
        /\ \A w \in Tasks : w \notin {t, v} => task'[w] = task[w]
    BY <1>5, <1>t, SpawnChildEffect, DetachedType
  <2>2. task'[u] = task[u] \/ task'[u].pc \notin On
    BY <2>1
  <2> QED
    BY <1>k, <2>2 DEF AnswerIsCurrent
<1>6. ASSUME NEW t \in Tasks, NEW x \in Rows, StartExecution(t, x)
      PROVE  AnswerIsCurrent(u)'
  BY <1>1, <1>6, <1>t, DetachedType DEF StartExecution
<1>7. ASSUME NEW t \in Tasks,
             \/ \E c \in scan : ScanFire(t, c)
             \/ \E x \in Rows, via \in {"owner", "approver", "callback"} : Respond(t, x, via)
      PROVE  AnswerIsCurrent(u)'
  BY <1>2, <1>7, <1>t DEF ScanFire, Respond, Resuming, TaskRecord
\* The ended child found its parent suspended on it.
<1>8. ASSUME NEW t \in Tasks, PropagateToParent(t) PROVE AnswerIsCurrent(u)'
  <2> DEFINE c == task[t].row
             p == parent[c]
  <2>1. CASE /\ status[p] = "suspended" /\ state[p].child = c
             /\ task' = [task EXCEPT ![t] = Resuming(p, "child", state[p].current)]
    <3>1. /\ p \in Rows /\ c \in Rows /\ IsTerminal(c)
      BY <1>8, LiveTask
      DEF PropagateToParent, IsIdle, Known, RunnerInv, ProgramPoints, AtItsPoint, TypeOK
    <3>2. SeenAt(p, state[p].current) /\ ChildHasEnded(p)
      BY <2>1, <3>1, SuspendedIsSeen, PlanAssumption DEF Known, ChildHasEnded
    <3>3. /\ task'[t].pc = "resume" /\ task'[t].row = p
          /\ task'[t].checked = state[p].current /\ Left(t)
      BY <1>t, <2>1 DEF Resuming, TaskRecord
    <3>4. UNCHANGED <<status, state, parent>>
      BY <1>8 DEF PropagateToParent, rowVars
    <3>5. AnswerIsCurrent(t)'
      BY <3>2, <3>3, <3>4 DEF AnswerIsCurrent, SeenAt, ChildHasEnded, IsTerminal, Kind
    <3> QED
      BY <1>k, <3>3, <3>5
  <2> QED
    BY <1>3, <1>8, <2>1 DEF PropagateToParent
\* t prepares its answer from the row it just loaded.
<1>9. ASSUME NEW t \in Tasks, ResumeLoad(t) PROVE AnswerIsCurrent(u)'
  <2> DEFINE r == task[t].row
             st == state[r]
  <2>1. CASE status[r] = "suspended" /\ Continue(t, "resume_update", Answered(st))
    <3>1. r \in Rows /\ SeenAt(r, st.current)
      BY <1>9, <2>1, LiveTask, SuspendedIsSeen DEF ResumeLoad, IsIdle, Known
    <3>2. /\ task'[t].pc = "resume_update" /\ task'[t].row = r
          /\ task'[t].state = Answered(st)
          /\ task'[t].via = task[t].via /\ task'[t].checked = task[t].checked /\ Left(t)
      BY <1>t, <2>1 DEF Continue, TaskRecords
    <3>3. Answered(st).current = st.current
      BY DEF Answered
    <3>4. UNCHANGED <<status, state, parent>> /\ task[t].pc = "resume"
      BY <1>9 DEF ResumeLoad, rowVars
    <3>5. SuspendsOnce(r) /\ task[t].via = "child" =>
            SeenAt(r, task[t].checked) /\ ChildHasEnded(r)
      BY <1>i, <2>1, <3>4 DEF AnswerIsCurrent
    <3>6. AnswerIsCurrent(t)'
      BY <3>1, <3>2, <3>3, <3>4, <3>5, SMTT(30)
      DEF AnswerIsCurrent, SeenAt, ChildHasEnded, IsTerminal, SuspendsOnce, Kind, Answered
    <3> QED
      BY <1>k, <3>2, <3>6
  <2> QED
    BY <1>3, <1>9, <2>1 DEF ResumeLoad
<1>10. ASSUME Crash PROVE AnswerIsCurrent(u)'
  BY <1>10 DEF Crash, AnswerIsCurrent, Idle, TaskRecord
<1>11. ASSUME \/ ScanSelect \/ Restart \/ RestartUnswept
              \/ \E c \in scan : ScanExpire(c)
              \/ \E x \in Rows : RequestCancel(x) \/ ClockReachesExpiry(x)
       PROVE  AnswerIsCurrent(u)'
  BY <1>11, <1>k
  DEF ScanSelect, Restart, RestartUnswept, ScanExpire, RequestCancel,
      ClockReachesExpiry, procVars
<1> QED
  BY <1>4, <1>5, <1>6, <1>7, <1>8, <1>9, <1>10, <1>11 DEF Next, TaskStep, ScanStep

\* A suspension that is overdue stays so until the row suspends again.
LEMMA DueStays ==
  ASSUME RunnerInv, Next, NEW r \in Rows, due[r],
         status'[r] = "suspended" => status[r] = "suspended"
  PROVE  due'[r]
<1>t. TypeOK
  BY DEF RunnerInv
<1>1. ASSUME NEW t \in Tasks, MarkSuspended(t) PROVE due'[r]
  <2>1. task[t].row \in Rows
    BY <1>1, LiveTask DEF MarkSuspended, IsIdle
  <2> QED
    BY <1>1, <1>t, <2>1 DEF MarkSuspended, TypeOK
<1>2. ASSUME NEW x \in Rows, ClockReachesExpiry(x) PROVE due'[r]
  BY <1>2, <1>t DEF ClockReachesExpiry, TypeOK
<1>3. \/ UNCHANGED due
      \/ \E t \in Tasks : MarkSuspended(t)
      \/ \E x \in Rows : ClockReachesExpiry(x)
  BY ZenonT(40) DEF Next, TaskStep, ScanStep, RunLoad, Boundary, BeginStep, StepSucceeds,
         StepRaises, SpawnChild, MarkTerminal, PropagateToParent, ResumeLoad,
         ResumeUpdate, StartExecution, Respond, RequestCancel, ScanSelect, ScanExpire,
         ScanFire, Crash, Restart, RestartUnswept, DatabaseError, rowVars
<1> QED
  BY <1>1, <1>2, <1>3

\* An entry of the scan, old or new.
LEMMA ScanEntryStep ==
  ASSUME Known, Next, NEW c \in scan'
  PROVE  ScanIsCurrent(c)'
<1>t. TypeOK
  BY DEF Known, RunnerInv
<1>1. CASE c \in scan
  <2> SUFFICES ASSUME SuspendsOnce(c.row) PROVE SeenAt(c.row, c.step)' /\ due'[c.row]
    BY DEF ScanIsCurrent, SuspendsOnce, SeenAt, Kind
  <2>1. c.row \in Rows /\ SeenAt(c.row, c.step) /\ due[c.row]
    BY <1>1, <1>t DEF Known, OneSuspension, ScanIsCurrent, TypeOK
  <2>2. /\ SeenAt(c.row, c.step)'
        /\ status'[c.row] = "suspended" => status[c.row] = "suspended"
    BY <2>1, SeenStep
  <2>3. due'[c.row]
    BY <2>1, <2>2, DueStays DEF Known
  <2> QED
    BY <2>2, <2>3
<1>2. CASE c \notin scan
  <2>1. ScanSelect
    BY <1>2, ZenonT(40)
    DEF Next, TaskStep, ScanStep, RunLoad, Boundary, BeginStep, StepSucceeds,
        StepRaises, SpawnChild, MarkSuspended, MarkTerminal, PropagateToParent,
        ResumeLoad, ResumeUpdate, StartExecution, Respond, RequestCancel,
        ClockReachesExpiry, ScanExpire, ScanFire, Crash, Restart, RestartUnswept,
        DatabaseError, procVars
  <2>2. PICK r \in Rows : status[r] = "suspended" /\ due[r]
                          /\ c = [row |-> r, step |-> state[r].current]
    BY <2>1 DEF ScanSelect
  <2>3. SeenAt(r, state[r].current)
    BY <2>2, SuspendedIsSeen DEF Known
  <2>4. UNCHANGED <<status, state, due>>
    BY <2>1 DEF ScanSelect, rowVars
  <2>5. c.row = r /\ c.step = state[r].current
    BY <2>2
  <2> QED
    BY <2>2, <2>3, <2>4, <2>5 DEF ScanIsCurrent, SeenAt, Kind
<1> QED
  BY <1>1, <1>2

LEMMA OneSuspensionInit == Init => OneSuspension
  BY DEF Init, OneSuspension, AnswerIsCurrent, Idle, TaskRecord

\* Of a composition that suspends once, every answer under way was prepared
\* from the suspension the row still is in, or comes to nothing; and what
\* the scan selected is overdue.
THEOREM AnswersFit == Spec => []OneSuspension
<1>1. Known /\ [Next]_vars => OneSuspension'
  <2> SUFFICES ASSUME Known, [Next]_vars PROVE OneSuspension'
    OBVIOUS
  <2>1. CASE Next
    BY <2>1, AnswersStep, ScanEntryStep DEF OneSuspension
  <2>2. CASE UNCHANGED vars
    <3>1. /\ UNCHANGED <<status, state, due, parent, task, scan>>
          /\ \A t \in Tasks : AnswerIsCurrent(t)
          /\ \A c \in scan : ScanIsCurrent(c)
      BY <2>2 DEF vars, rowVars, procVars, Known, OneSuspension
    <3>2. \A t \in Tasks : AnswerIsCurrent(t)'
      BY <3>1, SMTT(30) DEF AnswerIsCurrent, SeenAt, ChildHasEnded, IsTerminal, SuspendsOnce, Kind
    <3>3. \A c \in scan' : ScanIsCurrent(c)'
      BY <3>1 DEF ScanIsCurrent, SeenAt, SuspendsOnce, Kind
    <3> QED
      BY <3>2, <3>3 DEF OneSuspension
  <2> QED
    BY <2>1, <2>2
<1>2. RunnerInv /\ InMemoryStateIsFresh /\ StepsInOrder /\ OneSuspension => Known
  BY DEF Known
<1> QED
  BY <1>1, <1>2, OneSuspensionInit, Invariance, Freshness, Order, PTL DEF Spec

\* Everything the arguments below start from.
LEMMA AlwaysKnown == Spec => []Known
<1>1. RunnerInv /\ InMemoryStateIsFresh /\ StepsInOrder /\ OneSuspension => Known
  BY DEF Known
<1> QED
  BY <1>1, AnswersFit, Invariance, Freshness, Order, PTL
-----------------------------------------------------------------------------
(* What answers and expiries may do *)

\* Only the expiry scan expires a row, and it does so to a row it selected.
LEMMA ExpiredByScan ==
  ASSUME RunnerInv, Next, NEW r \in Rows, status[r] # "expired", status'[r] = "expired"
  PROVE  \E c \in scan : ScanExpire(c) /\ c.row = r
<1>t. TypeOK
  BY DEF RunnerInv
<1>1. ASSUME NEW c \in scan, ScanExpire(c) PROVE c.row = r
  BY <1>1, <1>t DEF ScanExpire, TypeOK
<1>2. ASSUME NEW t \in Tasks, MarkTerminal(t) PROVE FALSE
  <2>1. task[t].outcome # "expired"
    BY <1>t DEF TypeOK, TaskRecords
  <2> QED
    BY <1>2, <1>t, <2>1 DEF MarkTerminal, TypeOK
<1>3. ASSUME NEW t \in Tasks, MarkSuspended(t) \/ ResumeUpdate(t) \/ DatabaseError(t)
      PROVE  FALSE
  BY <1>3, <1>t DEF MarkSuspended, ResumeUpdate, DatabaseError, TypeOK
<1>4. ASSUME NEW t \in Tasks, NEW c \in Rows,
             StartExecution(t, c) \/ \E v \in Tasks : SpawnChild(t, v, c)
      PROVE  FALSE
  BY <1>4, <1>t DEF StartExecution, SpawnChild, Insert, TypeOK
<1>5. ~Restart
  BY <1>t DEF Restart, TypeOK
<1> QED
  BY <1>1, <1>2, <1>3, <1>4, <1>5
  DEF Next, TaskStep, ScanStep, RunLoad, Boundary, BeginStep, StepSucceeds, StepRaises,
      PropagateToParent, ResumeLoad, Respond, RequestCancel, ClockReachesExpiry,
      ScanSelect, ScanFire, Crash, RestartUnswept, rowVars

\* Only the conditional UPDATE of resume() lands an answer, and only on a
\* suspended row.
LEMMA LandsByUpdate ==
  ASSUME RunnerInv, Next, NEW t \in Tasks,
         task[t].pc = "resume_update", task'[t].pc = "check"
  PROVE  ResumeUpdate(t) /\ status[task[t].row] = "suspended"
<1>t. task \in [Tasks -> TaskRecords]
  BY DEF RunnerInv, TypeOK
<1>m. task'[t] # task[t]
  OBVIOUS
<1>1. ASSUME NEW u \in Tasks, ResumeUpdate(u)
      PROVE  ResumeUpdate(t) /\ status[task[t].row] = "suspended"
  BY <1>1, <1>t, <1>m, RetireEffect, ContinueMoves DEF ResumeUpdate
<1>2. ASSUME NEW u \in Tasks,
             \/ RunLoad(u) \/ Boundary(u) \/ BeginStep(u) \/ StepSucceeds(u)
             \/ StepRaises(u) \/ MarkSuspended(u) \/ MarkTerminal(u) \/ ResumeLoad(u)
             \/ PropagateToParent(u) \/ DatabaseError(u)
      PROVE  FALSE
  <2>1. \A v \in Tasks : v # u => task'[v] = task[v]
    BY <1>2, <1>t, RetireEffect, ContinueMoves, FinishAsMoves, SMTT(30)
    DEF RunLoad, Boundary, BeginStep, StepSucceeds, StepRaises, MarkSuspended,
        MarkTerminal, ResumeLoad, PropagateToParent, DatabaseError
  <2>2. u = t
    BY <1>m, <2>1
  <2>3. DatabaseError(t)
    BY <1>2, <2>2
    DEF RunLoad, Boundary, BeginStep, StepSucceeds, StepRaises, MarkSuspended,
        MarkTerminal, ResumeLoad, PropagateToParent
  <2> QED
    BY <1>t, <2>3, RetireEffect DEF DatabaseError
<1>3. ASSUME NEW u \in Tasks, NEW v \in Tasks, NEW c \in Rows, SpawnChild(u, v, c)
      PROVE  FALSE
  BY <1>3, <1>t, SpawnChildEffect DEF SpawnChild, IsIdle
<1>4. ASSUME NEW u \in Tasks,
             \/ \E c \in scan : ScanFire(u, c)
             \/ \E x \in Rows : StartExecution(u, x)
             \/ \E x \in Rows, via \in {"owner", "approver", "callback"} : Respond(u, x, via)
      PROVE  FALSE
  BY <1>4, <1>t, <1>m DEF ScanFire, StartExecution, Respond, IsIdle
<1>5. ASSUME \/ ScanSelect \/ Crash \/ Restart \/ RestartUnswept
             \/ \E c \in scan : ScanExpire(c)
             \/ \E x \in Rows : RequestCancel(x) \/ ClockReachesExpiry(x)
      PROVE  FALSE
  BY <1>5, <1>m
  DEF ScanSelect, Crash, Restart, RestartUnswept, ScanExpire, RequestCancel,
      ClockReachesExpiry, procVars, Idle, TaskRecord
<1> QED
  BY <1>1, <1>2, <1>3, <1>4, <1>5 DEF Next, TaskStep, ScanStep

\* Only a suspension whose own time ran out expires, and a wait_until never
\* does, however resumes, scans and clocks interleave.
THEOREM ExpiriesAreDue == Spec => ExpiresOnlyWhenDue
<1>1. ASSUME Known, Next, NEW r \in Rows, SuspendsOnce(r),
             status[r] = "suspended", status'[r] = "expired"
      PROVE  due[r] /\ state[r].suspension # "wait_until"
  <2>1. PICK c \in scan : ScanExpire(c) /\ c.row = r
    BY <1>1, ExpiredByScan DEF Known
  <2>2. SeenAt(r, c.step) /\ due[r]
    BY <1>1, <2>1 DEF Known, OneSuspension, ScanIsCurrent
  <2>3. /\ InsideStep(r, state[r])
        /\ state[r].suspension = Kind(r, state[r].current)
        /\ state[r].suspension # "tool"
    BY <1>1 DEF Known, StepsInOrder, RowInOrder
  <2>4. state[r].current = c.step
    BY <1>1, <2>2, <2>3 DEF SuspendsOnce, SeenAt, InsideStep
  <2> QED
    BY <2>1, <2>2, <2>3, <2>4 DEF ScanExpire, IsTimer
<1>2. Known /\ [Next]_vars =>
        [\A r \in Rows :
           SuspendsOnce(r) /\ status[r] = "suspended" /\ status'[r] = "expired" =>
             due[r] /\ state[r].suspension # "wait_until"]_vars
  BY <1>1
<1> QED
  BY <1>2, AlwaysKnown, PTL DEF Spec, ExpiresOnlyWhenDue

\* A child's result lands only in the parent that waits for that very child,
\* and only when the child has ended.
THEOREM ChildrenAnswerTheirParent == Spec => ChildAnswersOwnParent
<1>1. ASSUME Known, Next, NEW t \in Tasks, task[t].pc = "resume_update",
             task'[t].pc = "check", task[t].via = "child", SuspendsOnce(task[t].row)
      PROVE  ChildHasEnded(task[t].row)
  <2>1. status[task[t].row] = "suspended"
    BY <1>1, LandsByUpdate DEF Known
  <2> QED
    BY <1>1, <2>1 DEF Known, OneSuspension, AnswerIsCurrent
<1>2. Known /\ [Next]_vars =>
        [\A t \in Tasks :
           task[t].pc = "resume_update" /\ task'[t].pc = "check"
             /\ task[t].via = "child" /\ SuspendsOnce(task[t].row) =>
               LET c == state[task[t].row].child IN
               c # NoRow /\ parent[c] = task[t].row /\ IsTerminal(c)]_vars
  BY <1>1 DEF ChildHasEnded
<1> QED
  BY <1>2, AlwaysKnown, PTL DEF Spec, ChildAnswersOwnParent

-----------------------------------------------------------------------------
(* The executor implements ExecutionLifecycle                               *)

\* The refinement mapping: the steps of each execution that are done.
DoneSteps ==
  [r \in Rows |-> {s \in 1..Len(Plan[r]) : state[r].step[s] = "succeeded"}]

\* What becomes of them when rows are written.
LEMMA DoneKept ==
  ASSUME \A r \in Rows : \A s \in 1..Len(Plan[r]) :
           (state'[r].step[s] = "succeeded") <=> (state[r].step[s] = "succeeded")
  PROVE  DoneSteps' = DoneSteps
  BY DEF DoneSteps

LEMMA DoneInside ==
  ASSUME NEW r \in Rows, InsideStep(r, state[r])
  PROVE  /\ state[r].current \in 1..Len(Plan[r])
         /\ DoneSteps[r] = 1..(state[r].current - 1)
         /\ DoneSteps[r] # 1..Len(Plan[r])
<1> DEFINE k == state[r].current
<1>1. Len(Plan[r]) \in Nat /\ k \in 1..Len(Plan[r])
  BY PlanLength DEF InsideStep
<1>2. \A s \in 1..Len(Plan[r]) : state[r].step[s] = "succeeded" <=> s < k
  BY <1>1 DEF InsideStep
<1>3. DoneSteps[r] = {s \in 1..Len(Plan[r]) : s < k}
  BY <1>2 DEF DoneSteps
<1> QED
  BY <1>1, <1>3

LEMMA DoneNext ==
  ASSUME TypeOK, NEW r \in Rows, InsideStep(r, state[r]), NEW st,
         st.step = [state[r].step EXCEPT ![state[r].current] = "succeeded"],
         state' = [state EXCEPT ![r] = st]
  PROVE  DoneSteps' = [DoneSteps EXCEPT ![r] = 1..state[r].current]
<1> DEFINE k == state[r].current
           D == {s \in 1..Len(Plan[r]) : st.step[s] = "succeeded"}
<1>1. Len(Plan[r]) \in Nat /\ k \in 1..Len(Plan[r]) /\ 1..Len(Plan[r]) \subseteq Steps
  BY PlanLength, PlanSteps DEF InsideStep
<1>2. \A s \in 1..Len(Plan[r]) : st.step[s] = IF s = k THEN "succeeded" ELSE state[r].step[s]
  BY <1>1 DEF TypeOK, ExecutionState
<1>3. \A s \in 1..Len(Plan[r]) : st.step[s] = "succeeded" <=> s <= k
  BY <1>1, <1>2 DEF InsideStep
<1>4. D = 1..k
  BY <1>1, <1>3
<1>5. state'[r] = st /\ \A x \in Rows : x # r => state'[x] = state[x]
  BY DEF TypeOK
<1> HIDE DEF D
<1>6. DoneSteps'[r] = D /\ \A x \in Rows : x # r => DoneSteps'[x] = DoneSteps[x]
  BY <1>5 DEF DoneSteps, D
<1>7. DoneSteps' = [x \in Rows |-> DoneSteps'[x]] /\ DoneSteps = [x \in Rows |-> DoneSteps[x]]
  BY DEF DoneSteps
<1> QED
  BY <1>4, <1>6, <1>7

\* A row that takes on a state between two steps.
LEMMA DoneTaken ==
  ASSUME TypeOK, NEW r \in Rows, NEW st, BetweenSteps(r, st),
         state' = [state EXCEPT ![r] = st]
  PROVE  \E j \in 0..Len(Plan[r]) : DoneSteps' = [DoneSteps EXCEPT ![r] = 1..j]
<1> DEFINE D == {s \in 1..Len(Plan[r]) : st.step[s] = "succeeded"}
<1>1. PICK j \in 0..Len(Plan[r]) :
        \A s \in 1..Len(Plan[r]) : st.step[s] = IF s <= j THEN "succeeded" ELSE "pending"
  BY DEF BetweenSteps
<1>2. \A s \in 1..Len(Plan[r]) : st.step[s] = "succeeded" <=> s <= j
  BY <1>1
<1>3. Len(Plan[r]) \in Nat
  BY PlanLength
<1>4. D = 1..j
  BY <1>2, <1>3
<1>5. state'[r] = st /\ \A x \in Rows : x # r => state'[x] = state[x]
  BY DEF TypeOK
<1> HIDE DEF D
<1>6. DoneSteps'[r] = D /\ \A x \in Rows : x # r => DoneSteps'[x] = DoneSteps[x]
  BY <1>5 DEF DoneSteps, D
<1>7. DoneSteps' = [x \in Rows |-> DoneSteps'[x]] /\ DoneSteps = [x \in Rows |-> DoneSteps[x]]
  BY DEF DoneSteps
<1>8. DoneSteps' = [DoneSteps EXCEPT ![r] = 1..j]
  BY <1>4, <1>6, <1>7
<1> QED
  BY <1>8

\* The steps of the abstract specification, through the mapping.
LEMMA AbstractStutter ==
  ASSUME UNCHANGED <<status, misplaced>>, DoneSteps' = DoneSteps
  PROVE  UNCHANGED Lifecycle!lvars
  BY DEF Lifecycle!lvars, DoneSteps

LEMMA AbstractStart ==
  ASSUME UNCHANGED misplaced,
         NEW r \in Rows, status[r] = "absent", DoneSteps' = DoneSteps,
         status' = [status EXCEPT ![r] = "running"]
  PROVE  Lifecycle!LNext
  BY DEF Lifecycle!LNext, Lifecycle!Start, Lifecycle!Enter, DoneSteps

LEMMA AbstractAdvance ==
  ASSUME UNCHANGED misplaced,
         NEW r \in Rows, status[r] = "running", UNCHANGED status,
         NEW k \in 1..Len(Plan[r]), DoneSteps[r] = 1..(k - 1),
         DoneSteps' = [DoneSteps EXCEPT ![r] = 1..k]
  PROVE  Lifecycle!LNext
  BY DEF Lifecycle!LNext, Lifecycle!Advance, Lifecycle!DoNext, DoneSteps

LEMMA AbstractWait ==
  ASSUME UNCHANGED misplaced,
         NEW r \in Rows, status[r] = "running", DoneSteps' = DoneSteps,
         status' = [status EXCEPT ![r] = "suspended"],
         DoneSteps[r] # 1..Len(Plan[r])
  PROVE  Lifecycle!LNext
  BY DEF Lifecycle!LNext, Lifecycle!Wait, Lifecycle!Enter, DoneSteps

LEMMA AbstractAnswer ==
  ASSUME UNCHANGED misplaced,
         NEW r \in Rows, status[r] = "suspended",
         status' = [status EXCEPT ![r] = "running"],
         NEW k \in 1..Len(Plan[r]), DoneSteps[r] = 1..(k - 1),
         DoneSteps' = [DoneSteps EXCEPT ![r] = 1..k]
  PROVE  Lifecycle!LNext
  BY DEF Lifecycle!LNext, Lifecycle!Answer, Lifecycle!Enter, Lifecycle!DoNext, DoneSteps

LEMMA AbstractMisplace ==
  ASSUME NEW r \in Rows, status[r] = "suspended",
         status' = [status EXCEPT ![r] = "running"],
         NEW j \in 0..Len(Plan[r]), DoneSteps' = [DoneSteps EXCEPT ![r] = 1..j],
         misplaced' = [misplaced EXCEPT ![r] = TRUE]
  PROVE  Lifecycle!LNext
  BY DEF Lifecycle!LNext, Lifecycle!Misplace, Lifecycle!Enter, DoneSteps

LEMMA AbstractComplete ==
  ASSUME UNCHANGED misplaced,
         NEW r \in Rows, status[r] = "running", DoneSteps' = DoneSteps,
         status' = [status EXCEPT ![r] = "completed"],
         DoneSteps[r] = 1..Len(Plan[r])
  PROVE  Lifecycle!LNext
  BY DEF Lifecycle!LNext, Lifecycle!Complete, Lifecycle!Enter, DoneSteps

LEMMA AbstractCancel ==
  ASSUME UNCHANGED misplaced,
         NEW r \in Rows, status[r] = "running", DoneSteps' = DoneSteps,
         status' = [status EXCEPT ![r] = "cancelled"]
  PROVE  Lifecycle!LNext
  BY DEF Lifecycle!LNext, Lifecycle!Cancel, Lifecycle!Enter, DoneSteps

LEMMA AbstractExpire ==
  ASSUME UNCHANGED misplaced,
         NEW r \in Rows, status[r] = "suspended", DoneSteps' = DoneSteps,
         status' = [status EXCEPT ![r] = "expired"]
  PROVE  Lifecycle!LNext
  BY DEF Lifecycle!LNext, Lifecycle!Expire, Lifecycle!Enter, DoneSteps

LEMMA AbstractFail ==
  ASSUME UNCHANGED misplaced,
         NEW S \in SUBSET Rows, \A r \in S : status[r] = "running",
         DoneSteps' = DoneSteps,
         status' = [r \in Rows |-> IF r \in S THEN "failed" ELSE status[r]]
  PROVE  Lifecycle!LNext
  BY DEF Lifecycle!LNext, Lifecycle!Fail, DoneSteps

LEMMA LifecycleInit == Init => Lifecycle!LInit
<1> SUFFICES ASSUME Init PROVE Lifecycle!LInit
  OBVIOUS
<1>1. \A r \in Rows : \A s \in 1..Len(Plan[r]) : state[r].step[s] # "succeeded"
  BY PlanSteps DEF Init, FreshState
<1> QED
  BY <1>1 DEF Init, Lifecycle!LInit

\* Every step of the executor is a step of the abstract specification, or
\* leaves it where it was.
LEMMA LifecycleStep ==
  ASSUME Known, Next
  PROVE  Lifecycle!LNext \/ UNCHANGED Lifecycle!lvars
<1> DEFINE Goal == Lifecycle!LNext \/ UNCHANGED Lifecycle!lvars
<1>t. TypeOK /\ task \in [Tasks -> TaskRecords]
  BY DEF Known, RunnerInv, TypeOK
<1>1. ASSUME UNCHANGED <<status, state, misplaced>> PROVE Goal
  BY <1>1, AbstractStutter DEF DoneSteps
<1>2. ASSUME NEW t \in Tasks, BeginStep(t) PROVE Goal
  <2> DEFINE r == task[t].row
             s == NextStep(r, task[t].state)
             st == [WithStep(task[t].state, s, "in_progress") EXCEPT !.current = s]
  <2>1. /\ r \in Rows /\ task[t].state = state[r] /\ task[t].state \in ExecutionState
        /\ BetweenSteps(r, task[t].state) /\ OpenSteps(r, task[t].state) # {}
    BY <1>2, LiveTask
    DEF BeginStep, IsIdle, Known, InMemoryStateIsFresh, StepsInOrder, TaskInOrder,
        RunnerInv, ProgramPoints, AtItsPoint
  <2>2. s \in 1..Len(Plan[r]) /\ task[t].state.step[s] = "pending"
    BY <2>1, BeginsInside
  <2>3. st.step = [task[t].state.step EXCEPT ![s] = "in_progress"]
    BY <2>1 DEF WithStep, ExecutionState
  <2>4. UNCHANGED <<status, misplaced>> /\ state' = [state EXCEPT ![r] = st]
    BY <1>2 DEF BeginStep, Save
  <2> HIDE DEF s, st
  <2>5. \A x \in 1..Len(Plan[r]) :
          (st.step[x] = "succeeded") <=> (state[r].step[x] = "succeeded")
    BY <2>1, <2>2, <2>3, PlanSteps DEF ExecutionState
  <2>6. DoneSteps' = DoneSteps
    BY <1>t, <2>1, <2>4, <2>5, DoneKept DEF TypeOK
  <2> QED
    BY <2>4, <2>6, AbstractStutter
<1>3. ASSUME NEW t \in Tasks, StepSucceeds(t) PROVE Goal
  <2> DEFINE r == task[t].row
             k == task[t].state.current
             st == [WithStep(task[t].state, k, "succeeded") EXCEPT !.current = 0]
  <2>1. /\ r \in Rows /\ status[r] = "running" /\ task[t].state = state[r]
        /\ task[t].state \in ExecutionState /\ InsideStep(r, state[r])
    BY <1>3, LiveTask, OwnerRuns
    DEF StepSucceeds, IsIdle, LoopPcs, Known, InMemoryStateIsFresh, StepsInOrder, TaskInOrder
  <2>2. st.step = [state[r].step EXCEPT ![state[r].current] = "succeeded"]
    BY <2>1 DEF WithStep, ExecutionState
  <2>3. UNCHANGED <<status, misplaced>> /\ state' = [state EXCEPT ![r] = st]
    BY <1>3 DEF StepSucceeds, Save, history
  <2> HIDE DEF st
  <2>4. DoneSteps' = [DoneSteps EXCEPT ![r] = 1..state[r].current]
    BY <1>t, <2>1, <2>2, <2>3, DoneNext
  <2> QED
    BY <2>1, <2>3, <2>4, DoneInside, AbstractAdvance
<1>4. ASSUME NEW t \in Tasks, StepRaises(t) PROVE Goal
  <2> DEFINE r == task[t].row
             k == task[t].state.current
             st == WithStep(task[t].state, k, "failed")
  <2>1. /\ r \in Rows /\ task[t].state = state[r] /\ task[t].state \in ExecutionState
        /\ InsideStep(r, state[r])
    BY <1>4, LiveTask
    DEF StepRaises, IsIdle, Known, InMemoryStateIsFresh, StepsInOrder, TaskInOrder
  <2>2. st.step = [state[r].step EXCEPT ![k] = "failed"]
    BY <2>1 DEF WithStep, ExecutionState
  <2>3. k \in 1..Len(Plan[r]) /\ state[r].step[k] = "in_progress"
    BY <2>1, PlanLength DEF InsideStep
  <2>4. UNCHANGED <<status, misplaced>> /\ state' = [state EXCEPT ![r] = st]
    BY <1>4 DEF StepRaises, Save, history
  <2> HIDE DEF k, st
  <2>5. \A x \in 1..Len(Plan[r]) :
          (st.step[x] = "succeeded") <=> (state[r].step[x] = "succeeded")
    BY <2>1, <2>2, <2>3, PlanSteps DEF ExecutionState
  <2>6. DoneSteps' = DoneSteps
    BY <1>t, <2>1, <2>4, <2>5, DoneKept DEF TypeOK
  <2> QED
    BY <2>4, <2>6, AbstractStutter
\* A row is inserted: it had done nothing, and has done nothing.
<1>5. ASSUME NEW t \in Tasks, NEW c \in Rows,
             StartExecution(t, c) \/ \E v \in Tasks : SpawnChild(t, v, c)
      PROVE  Goal
  <2>1. /\ status[c] = "absent" /\ status' = [status EXCEPT ![c] = "running"]
        /\ state' = [state EXCEPT ![c] = FreshState]
        /\ UNCHANGED misplaced
    BY <1>5 DEF StartExecution, SpawnChild, Insert, history
  <2>2. state[c] = FreshState
    BY <2>1 DEF Known, StepsInOrder, RowInOrder
  <2>3. state' = state
    BY <1>t, <2>1, <2>2 DEF TypeOK
  <2> QED
    BY <2>1, <2>3, AbstractStart DEF DoneSteps
<1>6. ASSUME NEW t \in Tasks, MarkSuspended(t) PROVE Goal
  <2> DEFINE r == task[t].row
             k == task[t].state.current
             st == [task[t].state EXCEPT !.suspension = Kind(r, k)]
  <2>1. task[t].pc \in {"dispatch", "suspend"}
    BY <1>6 DEF MarkSuspended
  <2>2. /\ r \in Rows /\ status[r] = "running" /\ task[t].state \in ExecutionState
        /\ InsideStep(r, task[t].state) /\ task[t].state.step = state[r].step
    BY <2>1, LiveTask, OwnerRuns
    DEF IsIdle, LoopPcs, Known, InMemoryStateIsFresh, StepsInOrder, TaskInOrder
  <2>3. /\ status' = [status EXCEPT ![r] = "suspended"]
        /\ state' = [state EXCEPT ![r] = st]
        /\ UNCHANGED misplaced
    BY <1>6, <2>2 DEF MarkSuspended, Save, history
  <2>4. st.step = state[r].step
    BY <2>2 DEF ExecutionState
  <2> HIDE DEF st
  <2>5. \A x \in Rows : state'[x].step = state[x].step
    BY <1>t, <2>3, <2>4 DEF TypeOK
  <2>6. k \in 1..Len(Plan[r]) /\ state[r].step[k] # "succeeded"
    BY <2>2, PlanLength DEF InsideStep
  <2>7. DoneSteps[r] # 1..Len(Plan[r])
    BY <2>2, <2>6 DEF DoneSteps
  <2>8. DoneSteps' = DoneSteps
    BY <2>5, DoneKept
  <2> QED
    BY <2>2, <2>3, <2>7, <2>8, AbstractWait
<1>7. ASSUME NEW t \in Tasks, MarkTerminal(t) PROVE Goal
  <2> DEFINE r == task[t].row
             o == task[t].outcome
  <2>1. /\ r \in Rows /\ status[r] = "running" /\ ~IsTerminal(r)
        /\ task[t].state = state[r] /\ o \in {"completed", "failed", "cancelled"}
        /\ o = "completed" => AllDone(r, state[r])
    BY <1>7, LiveTask, OwnerRuns
    DEF MarkTerminal, IsIdle, LoopPcs, TaskRecords, Known, InMemoryStateIsFresh,
        StepsInOrder, TaskInOrder, RunnerInv, ProgramPoints, AtItsPoint
  <2>2. status' = [status EXCEPT ![r] = o] /\ UNCHANGED <<state, misplaced>>
    <3>1. /\ status' = [status EXCEPT ![r] = o]
          /\ state' = [state EXCEPT ![r] = task[t].state]
          /\ UNCHANGED misplaced
      BY <1>7, <2>1 DEF MarkTerminal, Save, history
    <3>2. [state EXCEPT ![r] = task[t].state] = state
      BY <1>t, <2>1 DEF TypeOK
    <3> QED
      BY <3>1, <3>2
  <2>3. DoneSteps' = DoneSteps
    BY <2>2 DEF DoneSteps
  <2>4. CASE o = "completed"
    <3>1. DoneSteps[r] = 1..Len(Plan[r])
      BY <2>1, <2>4 DEF AllDone, DoneSteps
    <3> QED
      BY <2>1, <2>2, <2>3, <2>4, <3>1, AbstractComplete
  <2>5. CASE o = "cancelled"
    BY <2>1, <2>2, <2>3, <2>5, AbstractCancel
  <2>6. CASE o = "failed"
    <3>1. PICK S \in SUBSET Rows : S = {r}
      BY <2>1
    <3>2. status' = [x \in Rows |-> IF x \in S THEN "failed" ELSE status[x]]
      BY <1>t, <2>1, <2>2, <2>6, <3>1 DEF TypeOK
    <3> QED
      BY <2>1, <2>2, <2>3, <3>1, <3>2, AbstractFail
  <2> QED
    BY <2>1, <2>4, <2>5, <2>6
<1>8. ASSUME NEW t \in Tasks, ResumeUpdate(t) PROVE Goal
  <2> DEFINE r == task[t].row
  <2>1. CASE status[r] = "suspended"
    <3>1. r \in Rows /\ InsideStep(r, state[r]) /\ BetweenSteps(r, task[t].state)
      BY <1>8, <2>1, LiveTask
      DEF ResumeUpdate, IsIdle, Known, StepsInOrder, RowInOrder, TaskInOrder
    <3>2. /\ status' = [status EXCEPT ![r] = "running"]
          /\ state' = [state EXCEPT ![r] = task[t].state]
          /\ misplaced' = [misplaced EXCEPT
                            ![r] = @ \/ task[t].state # Answered(state[r])]
      BY <1>8, <2>1 DEF ResumeUpdate, Save
    \* It lands where it was prepared.
    <3>3. CASE task[t].state = Answered(state[r])
      <4>1. task[t].state.step = [state[r].step EXCEPT ![state[r].current] = "succeeded"]
        BY <3>3 DEF Answered
      <4>2. DoneSteps' = [DoneSteps EXCEPT ![r] = 1..state[r].current]
        BY <1>t, <3>1, <3>2, <4>1, DoneNext
      <4>3. UNCHANGED misplaced
        BY <1>t, <3>1, <3>2, <3>3 DEF TypeOK
      <4> QED
        BY <2>1, <3>1, <3>2, <4>2, <4>3, DoneInside, AbstractAnswer
    \* It lands elsewhere, and takes the row to where it was prepared.
    <3>4. CASE task[t].state # Answered(state[r])
      <4>1. PICK j \in 0..Len(Plan[r]) :
              DoneSteps' = [DoneSteps EXCEPT ![r] = 1..j]
        BY <1>t, <3>1, <3>2, DoneTaken
      <4>2. misplaced' = [misplaced EXCEPT ![r] = TRUE]
        <5>1. (misplaced[r] \/ task[t].state # Answered(state[r])) = TRUE
          BY <3>4
        <5> QED
          BY <3>2, <5>1
      <4> QED
        BY <2>1, <3>1, <3>2, <4>1, <4>2, AbstractMisplace
    <3> QED
      BY <3>3, <3>4
  <2> QED
    BY <1>1, <1>8, <2>1 DEF ResumeUpdate
<1>9. ASSUME NEW c \in scan, ScanExpire(c) PROVE Goal
  <2>1. c.row \in Rows /\ DoneSteps' = DoneSteps /\ UNCHANGED misplaced
    BY <1>9, <1>t DEF ScanExpire, TypeOK, DoneSteps, history
  <2>2. CASE status[c.row] = "suspended"
    BY <1>9, <2>1, <2>2, AbstractExpire DEF ScanExpire
  <2>3. CASE status[c.row] # "suspended"
    BY <1>1, <1>9, <1>t, <2>1, <2>3 DEF ScanExpire, TypeOK
  <2> QED
    BY <2>2, <2>3
<1>10. ASSUME Restart PROVE Goal
  <2>1. PICK S \in SUBSET Rows : \A r \in Rows : r \in S <=> status[r] = "running"
    <3>1. {r \in Rows : status[r] = "running"} \in SUBSET Rows
      OBVIOUS
    <3> QED
      BY <3>1
  <2>2. status' = [r \in Rows |-> IF r \in S THEN "failed" ELSE status[r]]
    BY <1>10, <2>1 DEF Restart
  <2>3. DoneSteps' = DoneSteps /\ UNCHANGED misplaced
    BY <1>10 DEF Restart, DoneSteps, history
  <2> QED
    BY <2>1, <2>2, <2>3, AbstractFail
\* run_detached fails its own row only while it is inside the loop.
<1>11. ASSUME NEW t \in Tasks, DatabaseError(t) PROVE Goal
  <2> DEFINE r == task[t].row
  <2>1. CASE /\ task[t].via = "detached" /\ ~IsTerminal(r)
             /\ status' = [status EXCEPT ![r] = "failed"]
    <3>1. task[t].pc \in LoopPcs
      BY <2>1 DEF Known, RunnerInv, ProgramPoints, AtItsPoint
    <3>2. r \in Rows /\ status[r] = "running"
      BY <3>1, OwnerRuns DEF Known
    <3>3. PICK S \in SUBSET Rows : S = {r}
      BY <3>2
    <3>4. status' = [x \in Rows |-> IF x \in S THEN "failed" ELSE status[x]]
      BY <1>t, <2>1, <3>2, <3>3 DEF TypeOK
    <3>5. DoneSteps' = DoneSteps /\ UNCHANGED misplaced
      BY <1>11 DEF DatabaseError, DoneSteps, history
    <3> QED
      BY <3>2, <3>3, <3>4, <3>5, AbstractFail
  <2> QED
    BY <1>1, <1>11, <2>1 DEF DatabaseError, history
<1>12. ASSUME \/ ScanSelect \/ Crash \/ RestartUnswept
              \/ \E t \in Tasks : \/ RunLoad(t) \/ Boundary(t) \/ ResumeLoad(t)
                                  \/ PropagateToParent(t)
              \/ \E t \in Tasks, c \in scan : ScanFire(t, c)
              \/ \E t \in Tasks, x \in Rows, via \in {"owner", "approver", "callback"} :
                   Respond(t, x, via)
              \/ \E x \in Rows : RequestCancel(x) \/ ClockReachesExpiry(x)
       PROVE  Goal
  BY <1>1, <1>12
  DEF ScanSelect, Crash, RestartUnswept, RunLoad, Boundary, ResumeLoad,
      PropagateToParent, ScanFire, Respond, RequestCancel, ClockReachesExpiry, rowVars, history
<1> QED
  BY <1>2, <1>3, <1>4, <1>5, <1>6, <1>7, <1>8, <1>9, <1>10, <1>11, <1>12
  DEF Next, TaskStep, ScanStep

\* Every execution keeps what ExecutionLifecycle promises: every step done
\* once and in order, waiting only in front of a step, completing only when
\* all is done, and no end undone; and only an answer that lands on another
\* suspension than its own takes an execution out of that order.
THEOREM KeepsPromise == Spec => KeepsLifecycle
<1>1. Known /\ [Next]_vars => [Lifecycle!LNext]_(Lifecycle!lvars)
  <2>1. ASSUME UNCHANGED vars PROVE UNCHANGED Lifecycle!lvars
    BY <2>1 DEF vars, rowVars, history, procVars, Lifecycle!lvars
  <2> QED
    BY <2>1, LifecycleStep
<1> QED
  BY <1>1, LifecycleInit, AlwaysKnown, PTL DEF Spec, KeepsLifecycle, Lifecycle!LSpec
=============================================================================
