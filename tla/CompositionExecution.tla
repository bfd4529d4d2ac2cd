------------------------ MODULE CompositionExecution ------------------------
(***************************************************************************)
(* Durable composition executions: the run loop of ResumableExecutor, the  *)
(* endpoints that answer a suspended step, the expiry scan and the orphan  *)
(* sweep, over the rows of the composition_execution table.                *)
(*                                                                         *)
(* A row is what the database holds; a task is a coroutine of the backend  *)
(* process (a detached run, a REST handler, a background resume) with its  *)
(* own in-memory copy of the row's state.  Every action is what a task     *)
(* does between two awaits that reach the database, so any two tasks       *)
(* interleave wherever the event loop lets them.  A crash loses every task *)
(* and keeps every row.                                                    *)
(*                                                                         *)
(* Abstractions.  A step result is not represented, only whether the step  *)
(* has one.  Time is one bit per row: expires_at lies in the past.  The    *)
(* four answers a person, a webhook, a clock or a child can give differ    *)
(* only in who may give them and when.  create_execution followed by       *)
(* create_task is one action: a crash between the two leaves the same      *)
(* database as a crash after both.                                         *)
(*                                                                         *)
(* The operators marked "Seeded fault" are the definition below them with  *)
(* a plausible bug in it.  No behaviour of Spec uses them; each shows that *)
(* a property would notice.                                                *)
(***************************************************************************)
EXTENDS Naturals, Sequences, FiniteSets

CONSTANTS
  Rows,        \* execution ids
  Roots,       \* the ids a tool call or the API may start directly
  Plan,        \* Plan[r] is the list of step types of r's composition
  MaxSteps,    \* bound: no composition is longer
  Tasks,       \* bound: coroutines alive at the same time
  NoRow,       \* "no execution": a null parent or child id
  MaxDepth,    \* MAX_SUBCOMPOSITION_DEPTH
  MaxCrashes,  \* bound: process crashes in one behaviour
  MaxFaults    \* bound: database errors and failed sweeps in one behaviour

StepKinds == {"tool", "elicit", "approval", "wait_callback", "wait_until",
              "subcomposition"}

ASSUME PlanAssumption ==
  /\ Roots \subseteq Rows
  /\ NoRow \notin Rows
  /\ MaxSteps \in Nat
  /\ Plan \in [Rows -> Seq(StepKinds)]
  /\ \A r \in Rows : Len(Plan[r]) <= MaxSteps

ASSUME BoundAssumption ==
  /\ MaxDepth \in Nat
  /\ MaxCrashes \in Nat
  /\ MaxFaults \in Nat

VARIABLES
  status,            \* column status; "absent" before the INSERT
  state,             \* column state (JSONB)
  cancel_requested,  \* column cancel_requested
  due,               \* column expires_at lies in the past
  parent,            \* column parent_execution_id
  depth,             \* state.depth, fixed at creation
  late,              \* history: steps begun after cancel_requested was set
  calls,             \* history: how often each step was begun
  misplaced,         \* history: an answer prepared on another suspension landed
  task,              \* the coroutines
  scan,              \* rows the current expiry scan selected, with the step seen
  up,                \* the process has finished its startup
  crashes,           \* crashes so far
  faults             \* database errors so far

history  == <<late, calls, misplaced>>
rowVars  == <<status, state, cancel_requested, due, parent, depth, history>>
procVars == <<task, scan, up, crashes, faults>>
vars     == <<rowVars, procVars>>

-----------------------------------------------------------------------------
(* Data *)

Steps == 1..MaxSteps

TerminalStatuses == {"completed", "failed", "expired", "cancelled"}

StepStatuses == {"pending", "in_progress", "succeeded", "failed"}

ExecutionState == [step       : [Steps -> StepStatuses],
                   current    : Steps \cup {0},
                   suspension : StepKinds \cup {"none"},
                   child      : Rows \cup {NoRow}]

\* The state create_execution seeds, and the one a task has not loaded yet.
FreshState == [step       |-> [s \in Steps |-> "pending"],
               current    |-> 0,
               suspension |-> "none",
               child      |-> NoRow]

IsTerminal(r) == status[r] \in TerminalStatuses

Kind(r, s) == Plan[r][s]

\* Steps of r that neither succeeded nor failed, and the first of them.
OpenSteps(r, st) ==
  {s \in 1..Len(Plan[r]) : st.step[s] \notin {"succeeded", "failed"}}

\* Seeded fault: the steps are taken from the back.
NextStepReversed(r, st) ==
  CHOOSE s \in OpenSteps(r, st) : \A u \in OpenSteps(r, st) : s >= u

NextStep(r, st) ==
  CHOOSE s \in OpenSteps(r, st) : \A u \in OpenSteps(r, st) : s <= u

WithStep(st, s, v) == [st EXCEPT !.step = [@ EXCEPT ![s] = v]]

\* Seeded fault: the answered step stays in progress.
AnsweredUnmarked(st) == [st EXCEPT !.suspension = "none", !.child = NoRow]

\* What resume() makes of the state it loaded: the response goes into the
\* current step and the suspension is cleared.
Answered(st) ==
  [step       |-> [st.step EXCEPT ![st.current] = "succeeded"],
   current    |-> st.current,
   suspension |-> "none",
   child      |-> NoRow]
-----------------------------------------------------------------------------
(* Tasks.  via says who started the coroutine: run_detached, or the caller  *)
(* of resume().  checked is the step that caller saw the row suspended on.  *)

Responders == {"owner", "approver", "callback", "timer", "child"}

Pcs == {"idle", "spawned", "check", "begin", "dispatch", "suspend", "finish",
        "propagate", "resume", "resume_update"}

\* Program points inside _run_loop: the task owns the row it runs.
LoopPcs == {"spawned", "check", "begin", "dispatch", "suspend", "finish"}

TaskRecord(pc, r, st, via, checked, outcome) ==
  [pc |-> pc, row |-> r, state |-> st, via |-> via, checked |-> checked,
   outcome |-> outcome]

Idle == TaskRecord("idle", NoRow, FreshState, "none", 0, "none")

Detached(r) == TaskRecord("spawned", r, FreshState, "detached", 0, "none")

Resuming(r, via, s) == TaskRecord("resume", r, FreshState, via, s, "none")

IsIdle(t) == task[t].pc = "idle"

Retire(t) == task' = [task EXCEPT ![t] = Idle]

\* t goes on at pc with the in-memory state st.
Continue(t, pc, st) ==
  task' = [task EXCEPT ![t] = [@ EXCEPT !.pc = pc, !.state = st]]

\* t goes on to _mark_terminal with the in-memory state st.
FinishAs(t, outcome, st) ==
  task' = [task EXCEPT ![t] =
             [@ EXCEPT !.pc = "finish", !.state = st, !.outcome = outcome]]

\* _save: an UPDATE of the state column that asks nothing of the status.
Save(r, st) == state' = [state EXCEPT ![r] = st]

Owns(t, r) == task[t].row = r /\ task[t].pc \in LoopPcs
-----------------------------------------------------------------------------
(* Starting an execution, and one turn of its loop *)

\* Seeded fault: parent and depth change places.
InsertSwapped(r, p, d) ==
  /\ status' = [status EXCEPT ![r] = "running"]
  /\ state'  = [state EXCEPT ![r] = FreshState]
  /\ parent' = [parent EXCEPT ![r] = d]
  /\ depth'  = [depth EXCEPT ![r] = p]

Insert(r, p, d) ==
  /\ status' = [status EXCEPT ![r] = "running"]
  /\ state'  = [state EXCEPT ![r] = FreshState]
  /\ parent' = [parent EXCEPT ![r] = p]
  /\ depth'  = [depth EXCEPT ![r] = d]

\* route_composition_call: insert a running row, run it in the background.
StartExecution(t, r) ==
  /\ up
  /\ IsIdle(t)
  /\ r \in Roots
  /\ status[r] = "absent"
  /\ Insert(r, NoRow, 0)
  /\ task' = [task EXCEPT ![t] = Detached(r)]
  /\ UNCHANGED <<cancel_requested, due, history, scan, up, crashes, faults>>

\* run(): load the row; a terminal one is left alone.
RunLoad(t) ==
  LET r == task[t].row IN
  /\ task[t].pc = "spawned"
  /\ IF IsTerminal(r) THEN Retire(t) ELSE Continue(t, "check", state[r])
  /\ UNCHANGED <<rowVars, scan, up, crashes, faults>>

\* Seeded fault: cancel_requested is read when the run starts, not here.
BoundaryDeaf(t) ==
  LET r == task[t].row
      st == task[t].state
  IN
  /\ task[t].pc = "check"
  /\ \/ OpenSteps(r, st) = {} /\ FinishAs(t, "completed", st)
     \/ OpenSteps(r, st) # {} /\ Continue(t, "begin", st)
  /\ UNCHANGED <<rowVars, scan, up, crashes, faults>>

\* The step boundary: re-read cancel_requested, then look for a step.
Boundary(t) ==
  LET r == task[t].row
      st == task[t].state
  IN
  /\ task[t].pc = "check"
  /\ \/ /\ cancel_requested[r]
        /\ FinishAs(t, "cancelled", st)
     \/ /\ ~cancel_requested[r]
        /\ OpenSteps(r, st) = {}
        /\ FinishAs(t, "completed", st)
     \/ /\ ~cancel_requested[r]
        /\ OpenSteps(r, st) # {}
        /\ Continue(t, "begin", st)
  /\ UNCHANGED <<rowVars, scan, up, crashes, faults>>

\* Seeded fault: the step is called before it is saved as in_progress.
BeginStepUnsaved(t) ==
  LET r == task[t].row
      s == NextStep(r, task[t].state)
      st == [WithStep(task[t].state, s, "in_progress") EXCEPT !.current = s]
  IN
  /\ task[t].pc = "begin"
  /\ Continue(t, "dispatch", st)
  /\ UNCHANGED <<rowVars, scan, up, crashes, faults>>

\* _execute_step up to the first save: the step is in_progress in the row
\* before anything is called.
BeginStep(t) ==
  LET r == task[t].row
      s == NextStep(r, task[t].state)
      st == [WithStep(task[t].state, s, "in_progress") EXCEPT !.current = s]
  IN
  /\ task[t].pc = "begin"
  /\ Save(r, st)
  /\ Continue(t, "dispatch", st)
  /\ late' = [late EXCEPT ![r] = IF cancel_requested[r] THEN @ + 1 ELSE @]
  /\ calls' = [calls EXCEPT ![r][s] = @ + 1]
  /\ UNCHANGED <<status, cancel_requested, due, parent, depth, misplaced,
                 scan, up, crashes, faults>>

\* A tool, transform or foreach step returns; the loop records it.
StepSucceeds(t) ==
  LET r == task[t].row
      s == task[t].state.current
      st == [WithStep(task[t].state, s, "succeeded") EXCEPT !.current = 0]
  IN
  /\ task[t].pc = "dispatch"
  /\ Kind(r, s) = "tool"
  /\ Save(r, st)
  /\ Continue(t, "check", st)
  /\ UNCHANGED <<status, cancel_requested, due, parent, depth, history,
                 scan, up, crashes, faults>>

\* Seeded fault: the loop skips the step that failed.
StepRaisesSkips(t) ==
  LET r == task[t].row
      st == WithStep(task[t].state, task[t].state.current, "failed")
  IN
  /\ task[t].pc = "dispatch"
  /\ Save(r, st)
  /\ Continue(t, "check", st)
  /\ UNCHANGED <<status, cancel_requested, due, parent, depth, history,
                 scan, up, crashes, faults>>

\* Any step type may raise (tool error, oversized result, bad step config,
\* refused sub-composition): the step is saved as failed and the loop gives
\* up on the execution, whatever step.optional says.
StepRaises(t) ==
  LET r == task[t].row
      st == WithStep(task[t].state, task[t].state.current, "failed")
  IN
  /\ task[t].pc = "dispatch"
  /\ Save(r, st)
  /\ FinishAs(t, "failed", st)
  /\ UNCHANGED <<status, cancel_requested, due, parent, depth, history,
                 scan, up, crashes, faults>>

\* Seeded fault: the depth cap is not looked at.
SpawnChildUncapped(t, u, c) ==
  LET r == task[t].row
      st == [task[t].state EXCEPT !.child = c]
  IN
  /\ task[t].pc = "dispatch"
  /\ Kind(r, task[t].state.current) = "subcomposition"
  /\ IsIdle(u) /\ c \notin Roots /\ status[c] = "absent"
  /\ Insert(c, r, depth[r] + 1)
  /\ task' = [task EXCEPT ![t] = [@ EXCEPT !.pc = "suspend", !.state = st],
                          ![u] = Detached(c)]
  /\ UNCHANGED <<cancel_requested, due, history, scan, up, crashes, faults>>

\* A subcomposition step inserts the child row, starts the child's own
\* detached task u, and only then goes on to suspend the parent.
SpawnChild(t, u, c) ==
  LET r == task[t].row
      st == [task[t].state EXCEPT !.child = c]
  IN
  /\ task[t].pc = "dispatch"
  /\ Kind(r, task[t].state.current) = "subcomposition"
  /\ IsIdle(u)
  /\ c \notin Roots
  /\ status[c] = "absent"
  /\ depth[r] + 1 <= MaxDepth
  /\ Insert(c, r, depth[r] + 1)
  /\ task' = [task EXCEPT ![t] = [@ EXCEPT !.pc = "suspend", !.state = st],
                          ![u] = Detached(c)]
  /\ UNCHANGED <<cancel_requested, due, history, scan, up, crashes, faults>>

\* Seeded fault: a child that suspends tells its parent as if it had ended.
MarkSuspendedTells(t) ==
  LET r == task[t].row
      kind == Kind(r, task[t].state.current)
      st == [task[t].state EXCEPT !.suspension = kind]
  IN
  /\ \/ task[t].pc = "suspend"
     \/ task[t].pc = "dispatch" /\ kind \notin {"tool", "subcomposition"}
  /\ status' = [status EXCEPT ![r] = "suspended"]
  /\ due' = [due EXCEPT ![r] = FALSE]
  /\ Save(r, st)
  /\ IF parent[r] = NoRow THEN Retire(t) ELSE Continue(t, "propagate", st)
  /\ UNCHANGED <<cancel_requested, parent, depth, history,
                 scan, up, crashes, faults>>

\* _mark_suspended: conditional on the row still being running.
MarkSuspended(t) ==
  LET r == task[t].row
      kind == Kind(r, task[t].state.current)
      st == [task[t].state EXCEPT !.suspension = kind]
  IN
  /\ \/ task[t].pc = "suspend"
     \/ task[t].pc = "dispatch" /\ kind \notin {"tool", "subcomposition"}
  /\ IF status[r] = "running"
       THEN /\ status' = [status EXCEPT ![r] = "suspended"]
            /\ due' = [due EXCEPT ![r] = FALSE]
            /\ Save(r, st)
       ELSE UNCHANGED <<status, state, due>>
  /\ Retire(t)
  /\ UNCHANGED <<cancel_requested, parent, depth, history,
                 scan, up, crashes, faults>>

\* _mark_terminal: conditional on the row not being terminal; the child of a
\* parent goes on to tell it.
MarkTerminal(t) ==
  LET r == task[t].row IN
  /\ task[t].pc = "finish"
  /\ IF IsTerminal(r)
       THEN /\ Retire(t)
            /\ UNCHANGED <<status, state>>
       ELSE /\ status' = [status EXCEPT ![r] = task[t].outcome]
            /\ Save(r, task[t].state)
            /\ IF parent[r] = NoRow
                 THEN Retire(t)
                 ELSE Continue(t, "propagate", task[t].state)
  /\ UNCHANGED <<cancel_requested, due, parent, depth, history,
                 scan, up, crashes, faults>>

\* _propagate_to_parent: only a parent found suspended on this very child is
\* resumed, by a background task; otherwise the news is dropped.
PropagateToParent(t) ==
  LET c == task[t].row
      p == parent[c]
  IN
  /\ task[t].pc = "propagate"
  /\ \/ /\ status[p] = "suspended"
        /\ state[p].suspension = "subcomposition"
        /\ state[p].child = c
        /\ task' = [task EXCEPT ![t] = Resuming(p, "child", state[p].current)]
     \/ /\ \/ status[p] # "suspended"
           \/ state[p].suspension # "subcomposition"
           \/ state[p].child # c
        /\ Retire(t)
  /\ UNCHANGED <<rowVars, scan, up, crashes, faults>>
-----------------------------------------------------------------------------
(* Answering a suspended step *)

\* What the endpoints require of the suspension they answer: /resume asks
\* only that there is one, /approve and /reject an approval, /callback a
\* wait_callback with its token.
Admits(via, reason) ==
  \/ via = "owner"
  \/ via = "approver" /\ reason = "approval"
  \/ via = "callback" /\ reason = "wait_callback"

\* An endpoint loads the row, checks it, and calls resume().
Respond(t, r, via) ==
  /\ up
  /\ IsIdle(t)
  /\ status[r] = "suspended"
  /\ Admits(via, state[r].suspension)
  /\ task' = [task EXCEPT ![t] = Resuming(r, via, state[r].current)]
  /\ UNCHANGED <<rowVars, scan, up, crashes, faults>>

\* resume(), first half: load the row again, prepare the new state.
ResumeLoad(t) ==
  LET r == task[t].row IN
  /\ task[t].pc = "resume"
  /\ IF status[r] = "suspended" /\ state[r].current # 0
       THEN Continue(t, "resume_update", Answered(state[r]))
       ELSE Retire(t)
  /\ UNCHANGED <<rowVars, scan, up, crashes, faults>>

\* Seeded fault: the UPDATE of resume() asks nothing of the status.
ResumeUpdateUnguarded(t) ==
  LET r == task[t].row IN
  /\ task[t].pc = "resume_update"
  /\ status' = [status EXCEPT ![r] = "running"]
  /\ Save(r, task[t].state)
  /\ Continue(t, "check", task[t].state)
  /\ UNCHANGED <<cancel_requested, due, parent, depth, history,
                 scan, up, crashes, faults>>

\* resume(), second half: UPDATE ... WHERE status = 'suspended'; the winner
\* goes into the loop with the state it prepared, on whichever suspension of
\* the row it did so.
ResumeUpdate(t) ==
  LET r == task[t].row IN
  /\ task[t].pc = "resume_update"
  /\ IF status[r] = "suspended"
       THEN /\ status' = [status EXCEPT ![r] = "running"]
            /\ Save(r, task[t].state)
            /\ misplaced' = [misplaced EXCEPT
                              ![r] = @ \/ task[t].state # Answered(state[r])]
            /\ Continue(t, "check", task[t].state)
       ELSE /\ Retire(t)
            /\ UNCHANGED <<status, state, misplaced>>
  /\ UNCHANGED <<cancel_requested, due, parent, depth, late, calls,
                 scan, up, crashes, faults>>

\* request_cancel: one conditional UPDATE.
RequestCancel(r) ==
  /\ up
  /\ status[r] \in {"running", "suspended"}
  /\ ~cancel_requested[r]
  /\ cancel_requested' = [cancel_requested EXCEPT ![r] = TRUE]
  /\ UNCHANGED <<status, state, due, parent, depth, history, procVars>>
-----------------------------------------------------------------------------
(* The queue worker's expiry scan *)

\* The clock reaches the row's expires_at.
ClockReachesExpiry(r) ==
  /\ status[r] = "suspended"
  /\ ~due[r]
  /\ due' = [due EXCEPT ![r] = TRUE]
  /\ UNCHANGED <<status, state, cancel_requested, parent, depth, history, procVars>>

IsTimer(c) == Kind(c.row, c.step) = "wait_until"

\* Seeded fault: the SELECT forgets expires_at.
ScanSelectEarly ==
  LET found == {r \in Rows : status[r] = "suspended"} IN
  /\ up /\ scan = {} /\ found # {}
  /\ scan' = {[row |-> r, step |-> state[r].current] : r \in found}
  /\ UNCHANGED <<rowVars, task, up, crashes, faults>>

\* SELECT the suspended rows past their expires_at.
ScanSelect ==
  LET found == {r \in Rows : status[r] = "suspended" /\ due[r]} IN
  /\ up
  /\ scan = {}
  /\ found # {}
  /\ scan' = {[row |-> r, step |-> state[r].current] : r \in found}
  /\ UNCHANGED <<rowVars, task, up, crashes, faults>>

\* Seeded fault: the UPDATE of the expiry scan asks nothing of the status.
ScanExpireUnguarded(c) ==
  /\ c \in scan
  /\ ~IsTimer(c)
  /\ scan' = scan \ {c}
  /\ status' = [status EXCEPT ![c.row] = "expired"]
  /\ UNCHANGED <<state, cancel_requested, due, parent, depth, history,
                 task, up, crashes, faults>>

\* A row selected for any other reason than wait_until: UPDATE ... WHERE
\* status = 'suspended'.
ScanExpire(c) ==
  /\ c \in scan
  /\ ~IsTimer(c)
  /\ scan' = scan \ {c}
  /\ status' = [status EXCEPT ![c.row] =
                  IF @ = "suspended" THEN "expired" ELSE @]
  /\ UNCHANGED <<state, cancel_requested, due, parent, depth, history,
                 task, up, crashes, faults>>

\* Then the wait_until rows are resumed, each by a background task.
ScanFire(t, c) ==
  /\ c \in scan
  /\ \A x \in scan : IsTimer(x)
  /\ IsIdle(t)
  /\ scan' = scan \ {c}
  /\ task' = [task EXCEPT ![t] = Resuming(c.row, "timer", c.step)]
  /\ UNCHANGED <<rowVars, up, crashes, faults>>
-----------------------------------------------------------------------------
(* Failures *)

\* The backend process dies: its coroutines and the scan are gone.
Crash ==
  /\ up
  /\ crashes < MaxCrashes
  /\ up' = FALSE
  /\ crashes' = crashes + 1
  /\ task' = [t \in Tasks |-> Idle]
  /\ scan' = {}
  /\ UNCHANGED <<rowVars, faults>>

\* Seeded fault: startup without the sweep.
RestartNoSweep ==
  /\ ~up
  /\ up' = TRUE
  /\ UNCHANGED <<rowVars, task, scan, crashes, faults>>

\* Seeded fault: the sweep fails suspended rows as well.
RestartSweepsAll ==
  /\ ~up
  /\ up' = TRUE
  /\ status' = [r \in Rows |-> IF status[r] \in {"running", "suspended"}
                               THEN "failed" ELSE status[r]]
  /\ UNCHANGED <<state, cancel_requested, due, parent, depth, history,
                 task, scan, crashes, faults>>

\* Seeded fault: the sweep runs the rows again instead of failing them.
RestartReruns ==
  /\ ~up
  /\ up' = TRUE
  /\ \E runner \in [{r \in Rows : status[r] = "running"} -> Tasks] :
       task' = [t \in Tasks |->
                  IF \E r \in DOMAIN runner : runner[r] = t
                    THEN Detached(CHOOSE r \in DOMAIN runner : runner[r] = t)
                    ELSE Idle]
  /\ UNCHANGED <<rowVars, scan, crashes, faults>>

\* Startup: recover_orphan_executions fails every running row.
Restart ==
  /\ ~up
  /\ up' = TRUE
  /\ status' = [r \in Rows |->
                  IF status[r] = "running" THEN "failed" ELSE status[r]]
  /\ UNCHANGED <<state, cancel_requested, due, parent, depth, history,
                 task, scan, crashes, faults>>

\* Startup when the sweep raises: the error is logged and startup goes on.
RestartUnswept ==
  /\ ~up
  /\ faults < MaxFaults
  /\ faults' = faults + 1
  /\ up' = TRUE
  /\ UNCHANGED <<rowVars, task, scan, crashes>>

\* A database error ends the task: the handler of _run_loop tries
\* _mark_terminal on the session that just failed and is not rolled back.
\* run_detached then marks its row failed in a session of its own, if it
\* can; nothing does for a loop that resume() entered.
DatabaseError(t) ==
  LET r == task[t].row IN
  /\ ~IsIdle(t)
  /\ faults < MaxFaults
  /\ faults' = faults + 1
  /\ Retire(t)
  /\ \/ UNCHANGED status
     \/ /\ task[t].via = "detached"
        /\ ~IsTerminal(r)
        /\ status' = [status EXCEPT ![r] = "failed"]
  /\ UNCHANGED <<state, cancel_requested, due, parent, depth, history,
                 scan, up, crashes>>
-----------------------------------------------------------------------------
Init ==
  /\ status = [r \in Rows |-> "absent"]
  /\ state = [r \in Rows |-> FreshState]
  /\ cancel_requested = [r \in Rows |-> FALSE]
  /\ due = [r \in Rows |-> FALSE]
  /\ parent = [r \in Rows |-> NoRow]
  /\ depth = [r \in Rows |-> 0]
  /\ late = [r \in Rows |-> 0]
  /\ calls = [r \in Rows |-> [s \in Steps |-> 0]]
  /\ misplaced = [r \in Rows |-> FALSE]
  /\ task = [t \in Tasks |-> Idle]
  /\ scan = {}
  /\ up = TRUE
  /\ crashes = 0
  /\ faults = 0

\* What a live task does next without waiting for anyone.
TaskStep(t) ==
  \/ RunLoad(t)
  \/ Boundary(t)
  \/ BeginStep(t)
  \/ StepSucceeds(t)
  \/ StepRaises(t)
  \/ \E u \in Tasks, c \in Rows : SpawnChild(t, u, c)
  \/ MarkSuspended(t)
  \/ MarkTerminal(t)
  \/ PropagateToParent(t)
  \/ ResumeLoad(t)
  \/ ResumeUpdate(t)

ScanStep ==
  \/ ScanSelect
  \/ \E c \in scan : ScanExpire(c)
  \/ \E t \in Tasks, c \in scan : ScanFire(t, c)

Next ==
  \/ \E t \in Tasks : TaskStep(t)
  \/ \E t \in Tasks, r \in Rows : StartExecution(t, r)
  \/ \E t \in Tasks, r \in Rows, via \in {"owner", "approver", "callback"} :
       Respond(t, r, via)
  \/ \E r \in Rows : RequestCancel(r) \/ ClockReachesExpiry(r)
  \/ ScanStep
  \/ Crash
  \/ Restart
  \/ RestartUnswept
  \/ \E t \in Tasks : DatabaseError(t)

Spec == Init /\ [][Next]_vars

\* The event loop runs every ready coroutine, the worker ticks, the clock
\* advances and the supervisor restarts a dead process.
Fairness ==
  /\ \A t \in Tasks : WF_vars(TaskStep(t))
  /\ WF_vars(ScanStep)
  /\ \A r \in Rows : WF_vars(ClockReachesExpiry(r))
  /\ WF_vars(Restart)

FairSpec == Spec /\ Fairness
-----------------------------------------------------------------------------
(* Properties *)

TaskRecords ==
  [pc : Pcs, row : Rows \cup {NoRow}, state : ExecutionState,
   via : Responders \cup {"detached", "none"}, checked : Steps \cup {0},
   outcome : {"none", "completed", "failed", "cancelled"}]

TypeOK ==
  /\ status \in [Rows -> TerminalStatuses \cup {"absent", "running", "suspended"}]
  /\ state \in [Rows -> ExecutionState]
  /\ cancel_requested \in [Rows -> BOOLEAN]
  /\ due \in [Rows -> BOOLEAN]
  /\ parent \in [Rows -> Rows \cup {NoRow}]
  /\ depth \in [Rows -> Nat]
  /\ late \in [Rows -> Nat]
  /\ calls \in [Rows -> [Steps -> Nat]]
  /\ misplaced \in [Rows -> BOOLEAN]
  /\ task \in [Tasks -> TaskRecords]
  /\ \A t \in Tasks : ~IsIdle(t) => task[t].row \in Rows
  /\ scan \subseteq [row : Rows, step : Steps \cup {0}]
  /\ up \in BOOLEAN
  /\ crashes \in 0..MaxCrashes
  /\ faults \in 0..MaxFaults

\* The status column is the only lock there is: whatever resumes, scans and
\* crashes interleave, a task that is inside the run loop finds its row
\* running and is alone in it.  This is what makes the unconditional
\* UPDATEs of _save safe.
OneRunnerPerRow ==
  \A t \in Tasks, r \in Rows :
    Owns(t, r) => /\ status[r] = "running"
                  /\ \A u \in Tasks : Owns(u, r) => u = t

\* The loop never re-reads the state column: it trusts that its own copy is
\* what the row holds, at every step boundary and when it ends.
InMemoryStateIsFresh ==
  \A t \in Tasks :
    task[t].pc \in {"check", "begin", "dispatch", "finish"} =>
      task[t].state = state[task[t].row]

\* While the process is up and no database error was swallowed, a running
\* row has a task that runs it: no start, resume, spawn or crash leaves a
\* row nobody will move again.
NoStrandedRow ==
  up /\ faults = 0 =>
    \A r \in Rows : status[r] = "running" => \E t \in Tasks : Owns(t, r)

\* A suspended row always says which step it waits on: that step is in
\* progress, every earlier one has succeeded and no later one has started.
\* resume() depends on it to know where the response belongs.
SuspensionWellFormed ==
  \A r \in Rows : status[r] = "suspended" =>
    LET st == state[r] IN
    /\ st.current \in 1..Len(Plan[r])
    /\ st.suspension = Kind(r, st.current)
    /\ \A s \in 1..Len(Plan[r]) :
         st.step[s] = IF s < st.current THEN "succeeded"
                      ELSE IF s = st.current THEN "in_progress" ELSE "pending"

\* An execution is completed only when every step of its composition was
\* begun and is recorded as succeeded.  In this code that includes the steps
\* declared optional: one that fails fails the execution, though the
\* docstring of _next_step and docs/composition_executions_b0.md have it
\* skipped.  And it says nothing of a decision: a rejected approval is
\* recorded as succeeded too, and the loop goes on, whatever the docstring of
\* /reject says.
CompletedMeansAllDone ==
  \A r \in Rows : status[r] = "completed" =>
    \A s \in 1..Len(Plan[r]) :
      state[r].step[s] = "succeeded" /\ calls[r][s] # 0

\* No step of an execution is begun twice, whatever crashes, restarts and
\* resumes, so no tool is called a second time; with one exception, which
\* the code has: an answer that was prepared on another suspension of the
\* row than the one it lands on writes the older state back, and the steps
\* in between are begun again (SecondResumeGetsNothing shows that it may).
\* The guard of _execute_step for a step found in_progress is not what
\* prevents it: the sweep fails such rows, and the guard is not reached.
BegunOnce ==
  \A r \in Rows : \A s \in Steps : calls[r][s] > 1 => misplaced[r]

\* After a cancel was accepted at most the step whose boundary check had
\* already passed still begins, across suspensions, resumes and restarts.
CancelStopsSteps == \A r \in Rows : late[r] <= 1

\* A composition that calls itself cannot recurse past the cap, and a
\* child's parent is always the row whose step inserted it.
DepthBounded ==
  \A r \in Rows :
    /\ depth[r] <= MaxDepth
    /\ parent[r] # NoRow => depth[r] = depth[parent[r]] + 1

\* A terminal row keeps its status and its state: no late save, resume,
\* expiry or sweep changes it.
TerminalIsFinal ==
  [][\A r \in Rows : IsTerminal(r) =>
       status'[r] = status[r] /\ state'[r] = state[r]]_vars

\* A composition that suspends in at most one place.  The row records no
\* identity of the suspension a response is meant for, so what is said of
\* one suspension below is said of such compositions only; the two
\* properties after this block say what happens to the others.
SuspendsOnce(r) ==
  \A s, u \in 1..Len(Plan[r]) : Kind(r, s) # "tool" /\ Kind(r, u) # "tool" => s = u

\* Only a suspension whose own time to live ran out expires, and a
\* wait_until never does: its time running out is the answer it waits for.
ExpiresOnlyWhenDue ==
  [][\A r \in Rows :
       SuspendsOnce(r) /\ status[r] = "suspended" /\ status'[r] = "expired" =>
         due[r] /\ state[r].suspension # "wait_until"]_vars

\* A child's result lands only in a parent that still waits for a child, and
\* only when that very child has ended.
ChildAnswersOwnParent ==
  [][\A t \in Tasks :
       task[t].pc = "resume_update" /\ task'[t].pc = "check"
         /\ task[t].via = "child" /\ SuspendsOnce(task[t].row) =>
           LET c == state[task[t].row].child IN
           c # NoRow /\ parent[c] = task[t].row /\ IsTerminal(c)]_vars

\* Of two concurrent resumes only the first lands: whoever lands does so on
\* the very state it prepared its answer from.
SecondResumeGetsNothing ==
  [][\A t \in Tasks :
       task[t].pc = "resume_update" /\ task'[t].pc = "check" =>
         task[t].state = Answered(state[task[t].row])]_vars

\* No parent stays suspended on a child that has ended: somebody is on the
\* way to resume it.
NoStrandedParent ==
  up /\ faults = 0 =>
    \A p, c \in Rows :
      status[p] = "suspended" /\ state[p].child = c /\ IsTerminal(c) =>
        \E t \in Tasks :
          \/ task[t].pc = "propagate" /\ task[t].row = c
          \/ task[t].pc \in {"resume", "resume_update"} /\ task[t].row = p

\* Every execution comes to an end: by its steps, by cancel, by its time to
\* live, or by the sweep after a crash.
EventuallyEnds == \A r \in Rows : status[r] # "absent" ~> IsTerminal(r)

\* The executor keeps the promise of ExecutionLifecycle.
Lifecycle ==
  INSTANCE ExecutionLifecycle WITH
    Executions <- Rows,
    Length     <- [r \in Rows |-> Len(Plan[r])],
    phase      <- status,
    done       <- [r \in Rows |->
                     {s \in 1..Len(Plan[r]) : state[r].step[s] = "succeeded"}],
    misplaced  <- misplaced

KeepsLifecycle == Lifecycle!LSpec

-----------------------------------------------------------------------------
(* Inductive strengthening: what the proofs add to the properties above     *)

\* A dead process has no coroutines and no scan in progress.
DownMeansEmpty == ~up => scan = {} /\ \A t \in Tasks : IsIdle(t)

\* What each program point knows about the task that is there.
AtItsPoint(t) ==
  /\ task[t].pc = "begin" => OpenSteps(task[t].row, task[t].state) # {}
  /\ task[t].pc \in {"dispatch", "suspend"} =>
       task[t].state.current \in 1..Len(Plan[task[t].row])
  /\ task[t].pc = "finish" => task[t].outcome # "none"
  /\ task[t].pc = "propagate" =>
       IsTerminal(task[t].row) /\ parent[task[t].row] # NoRow
  /\ task[t].via = "detached" => task[t].pc \in LoopPcs \cup {"propagate"}

ProgramPoints == \A t \in Tasks : AtItsPoint(t)

\* A parent was inserted before its child.
ParentsExist ==
  \A r \in Rows :
    /\ status[r] = "absent" => parent[r] = NoRow
    /\ parent[r] # NoRow => parent[r] # r /\ status[parent[r]] # "absent"

RunnerInv ==
  /\ TypeOK
  /\ DownMeansEmpty
  /\ ProgramPoints
  /\ OneRunnerPerRow
  /\ ParentsExist
  /\ DepthBounded

\* Between two steps of r: some first steps succeeded, no other was begun.
BetweenSteps(r, st) ==
  \E k \in 0..Len(Plan[r]) :
    \A s \in 1..Len(Plan[r]) :
      st.step[s] = IF s <= k THEN "succeeded" ELSE "pending"

\* Inside a step of r: it is in progress, those before it succeeded.
InsideStep(r, st) ==
  /\ st.current \in 1..Len(Plan[r])
  /\ \A s \in 1..Len(Plan[r]) :
       st.step[s] = IF s < st.current THEN "succeeded"
                    ELSE IF s = st.current THEN "in_progress" ELSE "pending"

AllDone(r, st) == \A s \in 1..Len(Plan[r]) : st.step[s] = "succeeded"

\* How far the copy of the state that a task holds has come.
TaskInOrder(t) ==
  LET r == task[t].row
      st == task[t].state
  IN
  /\ task[t].pc = "spawned" => state[r] = FreshState
  /\ task[t].pc \in {"check", "begin", "resume_update"} => BetweenSteps(r, st)
  /\ task[t].pc \in {"dispatch", "suspend"} => InsideStep(r, st)
  /\ task[t].pc = "suspend" =>
       state[r].step = st.step /\ Kind(r, st.current) = "subcomposition"
  /\ task[t].pc = "finish" /\ task[t].outcome = "completed" => AllDone(r, st)

\* How far a row has come when no task runs it.
RowInOrder(r) ==
  /\ status[r] = "absent" => state[r] = FreshState
  /\ status[r] = "suspended" =>
       /\ InsideStep(r, state[r])
       /\ state[r].suspension = Kind(r, state[r].current)
       /\ state[r].suspension # "tool"
  /\ status[r] = "completed" => AllDone(r, state[r])

\* The step a loop is about to begin is one that was never begun.
BegunStepIsNew ==
  \A t \in Tasks : task[t].pc = "begin" =>
    task[t].state.step[NextStep(task[t].row, task[t].state)] = "pending"

\* What the row and an answer on its way to it say was begun.
EachIsCounted(r) ==
  ~misplaced[r] =>
    \A s \in Steps : calls[r][s] = IF state[r].step[s] = "pending" THEN 0 ELSE 1

WasBegun(r, st) == \A s \in Steps : st.step[s] # "pending" => calls[r][s] # 0

CallsAreCounted ==
  /\ \A r \in Rows : EachIsCounted(r) /\ WasBegun(r, state[r])
  /\ \A t \in Tasks : task[t].pc = "resume_update" =>
       WasBegun(task[t].row, task[t].state)

StepsInOrder ==
  (\A t \in Tasks : TaskInOrder(t)) /\ (\A r \in Rows : RowInOrder(r))

\* A step begun after the cancel was accepted is the last one: whoever stands
\* before a step of that row passed the boundary before the cancel.
LastBegun(r) ==
  late[r] # 0 => /\ late[r] = 1
                 /\ cancel_requested[r]
                 /\ \A t \in Tasks : ~(task[t].pc = "begin" /\ task[t].row = r)

CancelLeavesOne == \A r \in Rows : LastBegun(r)

\* r was seen suspended on its step g.
SeenAt(r, g) ==
  /\ status[r] # "absent"
  /\ g \in 1..Len(Plan[r])
  /\ Kind(r, g) # "tool"
  /\ status[r] = "running" => state[r].step[g] = "succeeded"

\* p waits for a child of its own, which has ended.
ChildHasEnded(p) ==
  LET c == state[p].child IN c # NoRow /\ parent[c] = p /\ IsTerminal(c)

\* What is known, of a composition that suspends once, by whoever saw it
\* suspended: a task on its way to answer, and the expiry scan.
AnswerIsCurrent(t) ==
  LET r == task[t].row IN
  /\ task[t].pc = "resume_update" /\ SuspendsOnce(r) =>
       /\ SeenAt(r, task[t].state.current)
       /\ status[r] = "suspended" => task[t].state = Answered(state[r])
  /\ task[t].pc \in {"resume", "resume_update"} /\ task[t].via = "child"
       /\ SuspendsOnce(r) =>
       /\ SeenAt(r, task[t].checked)
       /\ status[r] = "suspended" => ChildHasEnded(r)

ScanIsCurrent(c) == SuspendsOnce(c.row) => SeenAt(c.row, c.step) /\ due[c.row]

OneSuspension ==
  (\A t \in Tasks : AnswerIsCurrent(t)) /\ (\A c \in scan : ScanIsCurrent(c))
=============================================================================
