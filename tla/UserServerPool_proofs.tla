------------------------- MODULE UserServerPool_proofs -------------------------
(***************************************************************************)
(* What holds of UserServerPool for all users, servers, limits and numbers *)
(* of calls: PoolInv is an inductive invariant; in particular nobody is    *)
(* ever served by another user's process, and no closed server stays in    *)
(* the pool.                                                               *)
(*                                                                         *)
(* The argument.  A wrapper is made for one key and keeps it as long as    *)
(* anybody holds it: a start takes an object nobody holds.  A wrapper that *)
(* is being closed was made for the key its entry is deleted under, so the *)
(* moment it is closed for good its entry is gone.                         *)
(*                                                                         *)
(* The limits.  A call that found room joins the starts while there are    *)
(* fewer servers than the limit, so the two together are fewer than the    *)
(* limit and the calls; one that evicted joins them in the place of what   *)
(* it evicted; and a start that is stored stops being a start.             *)
(***************************************************************************)
EXTENDS UserServerPool, FiniteSetTheorems, TLAPS

-----------------------------------------------------------------------------
(* Types *)

\* Records of tasks are closed under the ways they are made.
LEMMA TaskRecordType ==
  ASSUME NEW pc \in Pcs, NEW k \in Keys \cup {Nothing},
         NEW l \in Locks \cup {Nothing}, NEW w \in Wrappers \cup {Nothing},
         NEW v \in Keys \cup {Nothing}, NEW n \in Nexts
  PROVE  TaskRecord(pc, k, l, w, v, n) \in TaskRecords
  BY DEF TaskRecord, TaskRecords

LEMMA IdleType == Idle \in TaskRecords
  BY DEF Idle, TaskRecord, TaskRecords, Pcs, Nexts

LEMMA AtType ==
  ASSUME TypeOK, NEW t \in Tasks, NEW pc \in Pcs, NEW w \in Wrappers \cup {Nothing}
  PROVE  At(t, pc, w) \in TaskRecords
<1>1. task[t] \in TaskRecords
  BY DEF TypeOK
<1> QED
  BY <1>1 DEF At, TaskRecord, TaskRecords, Nexts

\* A new record for one task leaves the others what they are.
LEMMA TaskUpdateType ==
  ASSUME TypeOK, NEW t \in Tasks, NEW rec \in TaskRecords,
         task' = [task EXCEPT ![t] = rec]
  PROVE  task' \in [Tasks -> TaskRecords]
  BY DEF TypeOK

LEMMA TouchType ==
  ASSUME TypeOK, NEW k \in Keys, Touch(k)
  PROVE  older' \in [Keys -> SUBSET Keys] /\ idle' \subseteq Keys
  BY DEF TypeOK, Touch, Pooled

LEMMA DropType ==
  ASSUME TypeOK, NEW K \in SUBSET Keys, Drop(K)
  PROVE  /\ pool' \in [Keys -> Wrappers \cup {Nothing}]
         /\ older' \in [Keys -> SUBSET Keys]
         /\ idle' \subseteq Keys
  BY DEF TypeOK, Drop

ProcStates == {"gone", "live", "closing", "exited", "closed"}

LEMMA WrappedType ==
  ASSUME NEW p \in [Wrappers -> ProcStates],
         NEW m \in [Wrappers -> Keys \cup {Nothing}], Wrapped(p, m)
  PROVE  /\ proc' \in [Wrappers -> ProcStates]
         /\ madeFor' \in [Wrappers -> Keys \cup {Nothing}]
  BY DEF Wrapped, ProcStates

LEMMA AfterTerminateType ==
  ASSUME TypeOK, NEW w
  PROVE  AfterTerminate(w) \in [Wrappers -> ProcStates]
  BY DEF TypeOK, AfterTerminate, ProcStates

LEMMA ClosedType ==
  ASSUME TypeOK, NEW w, Closed(w)
  PROVE  /\ proc' \in [Wrappers -> ProcStates]
         /\ madeFor' \in [Wrappers -> Keys \cup {Nothing}]
<1>1. /\ proc \in [Wrappers -> ProcStates]
      /\ [proc EXCEPT ![w] = "closed"] \in [Wrappers -> ProcStates]
      /\ madeFor \in [Wrappers -> Keys \cup {Nothing}]
  BY DEF TypeOK, ProcStates
<1> QED
  BY <1>1, WrappedType DEF Closed

LEMMA RemoveType ==
  ASSUME TypeOK, NEW t \in Tasks, NEW k \in Pooled, NEW n \in Nexts, Remove(t, k, n)
  PROVE  /\ proc' \in [Wrappers -> ProcStates]
         /\ task' \in [Tasks -> TaskRecords]
<1>1. k \in Keys /\ pool[k] \in Wrappers \cup {Nothing} /\ task[t] \in TaskRecords
  BY DEF TypeOK, Pooled
<1>2. TaskRecord("close", task[t].key, task[t].lock, pool[k], k, n) \in TaskRecords
  BY <1>1, TaskRecordType DEF TaskRecords, Pcs
<1> QED
  BY <1>1, <1>2, AfterTerminateType, TaskUpdateType DEF Remove

LEMMA MakeRoomForAllType ==
  ASSUME TypeOK, NEW t \in Tasks, MakeRoomForAll(t)
  PROVE  /\ proc' \in [Wrappers -> ProcStates]
         /\ task' \in [Tasks -> TaskRecords]
<1>1. CASE Cardinality(Pooled) >= MaxTotal
  BY <1>1, RemoveType DEF MakeRoomForAll, IsLRU, Nexts
<1>2. CASE ~(Cardinality(Pooled) >= MaxTotal)
  <2>1. At(t, "start", Nothing) \in TaskRecords
    BY AtType DEF Pcs
  <2> QED
    BY <1>2, <2>1, TaskUpdateType DEF MakeRoomForAll, TypeOK, ProcStates
<1> QED
  BY <1>1, <1>2

LEMMA MakeRoomType ==
  ASSUME TypeOK, NEW t \in Tasks, MakeRoom(t)
  PROVE  /\ proc' \in [Wrappers -> ProcStates]
         /\ task' \in [Tasks -> TaskRecords]
<1>1. ServersOf(task[t].key[1]) \subseteq Pooled
  BY DEF ServersOf, Pooled
<1> QED
  BY <1>1, RemoveType, MakeRoomForAllType DEF MakeRoom, IsLRU, Nexts

LEMMA SweepRemoveType ==
  ASSUME TypeOK, NEW k \in Pooled, NEW s \in SweepRecords, SweepRemove(k, s)
  PROVE  proc' \in [Wrappers -> ProcStates] /\ sweep' \in SweepRecords
<1>1. k \in Keys /\ pool[k] \in Wrappers \cup {Nothing}
  BY DEF TypeOK, Pooled
<1> QED
  BY <1>1, AfterTerminateType DEF SweepRemove, SweepRecords

LEMMA AsleepType == Asleep \in SweepRecords
  BY DEF Asleep, SweepRecords

\* What the loop remembers of the round it is in, and what it knows of the
\* user it is at.
LEMMA RoundType ==
  ASSUME TypeOK, SweepHolds, BetweenUsers
  PROVE  /\ Round.users \subseteq Users /\ Round.left \subseteq Users
         /\ Round.empty \subseteq Users
         /\ Round \in [pc : {"asleep", "next"}, users : SUBSET Users,
                       left : SUBSET Users, user : Users \cup {Nothing},
                       todo : SUBSET Keys, empty : SUBSET Users,
                       wrapper : Wrappers \cup {Nothing},
                       victim : Keys \cup {Nothing}]
<1>1. CASE sweep.pc = "asleep"
  BY <1>1 DEF Round, Asleep, TypeOK
<1>2. CASE sweep.pc # "asleep"
  <2>1. sweep \in SweepRecords /\ sweep.pc = "next" /\ sweep.user \in Users
    BY <1>2 DEF BetweenUsers, TypeOK, SweepHolds
  <2>2. WithoutServers({sweep.user}) \subseteq Users
    BY <2>1 DEF WithoutServers
  <2> QED
    BY <1>2, <2>1, <2>2 DEF Round, SweepRecords
<1> QED
  BY <1>1, <1>2

\* The records of a type are sets of fields; this spells one out.
LEMMA TypeParts ==
  ASSUME TypeOK
  PROVE  /\ proc \in [Wrappers -> ProcStates]
         /\ \A t \in Tasks :
              /\ task[t] \in TaskRecords
              /\ task[t].key \in Keys \cup {Nothing}
              /\ task[t].lock \in Locks \cup {Nothing}
              /\ task[t].wrapper \in Wrappers \cup {Nothing}
              /\ task[t].victim \in Keys \cup {Nothing}
              /\ task[t].then \in Nexts
         /\ \A k \in Keys : lock[k] \in Locks
  BY DEF TypeOK, TaskRecords, ProcStates

\* Every step of a call keeps the types.
LEMMA CallType ==
  ASSUME TypeOK, \A t \in Tasks : TaskHolds(t), NEW t \in Tasks,
         Acquire(t) \/ Proceed(t) \/ Answered(t) \/ Cancelled(t)
  PROVE  TypeOK'
<1> USE TypeParts
<1> DEFINE k == task[t].key
<1>1. task[t].pc # "idle" => k \in Keys
  BY DEF TaskHolds, IsIdle
<1>2. CASE Acquire(t)
  <2>1. k \in Keys
    BY <1>1, <1>2 DEF Acquire
  <2>2. CASE pool[k] # Nothing /\ IsHealthy(pool[k])
    <3>1. At(t, "call", pool[k]) \in TaskRecords
      BY <2>1, AtType DEF TypeOK, Pcs
    <3> QED
      BY <1>2, <2>1, <2>2, <3>1, TouchType, TaskUpdateType
         DEF Acquire, TypeOK, ProcStates
  <2>3. CASE pool[k] # Nothing /\ ~IsHealthy(pool[k])
    <3>1. k \in Pooled /\ Remove(t, k, "user")
      BY <1>2, <2>1, <2>3 DEF Acquire, Pooled
    <3> QED
      BY <1>2, <2>3, <3>1, RemoveType DEF Acquire, TypeOK, ProcStates, Nexts
  <2>4. CASE pool[k] = Nothing
    BY <1>2, <2>4, MakeRoomType DEF Acquire, TypeOK, ProcStates
  <2> QED
    BY <2>2, <2>3, <2>4
<1>3. CASE Continue(t)
  BY <1>3, MakeRoomType, MakeRoomForAllType DEF Continue, TypeOK, ProcStates
<1>4. ASSUME NEW w \in Wrappers, StartProcess(t, w)
      PROVE  TypeOK'
  <2>1. k \in Keys
    BY <1>1, <1>4 DEF StartProcess
  <2>2. At(t, "init", w) \in TaskRecords
    BY AtType DEF Pcs
  <2> QED
    BY <1>4, <2>1, <2>2, TaskUpdateType DEF StartProcess, TypeOK
<1>5. CASE StartFails(t)
  <2>1. Wrapped(proc, madeFor) /\ Retire(t)
    BY <1>5 DEF StartFails
  <2> QED
    BY <1>5, <2>1, WrappedType, IdleType, TaskUpdateType
       DEF StartFails, TypeOK, ProcStates, Retire
<1>6. CASE Store(t)
  <2>1. k \in Keys /\ k[1] \in Users
    BY <1>1, <1>6 DEF Store, Keys
  <2>2. At(t, "call", task[t].wrapper) \in TaskRecords
    BY AtType DEF Pcs
  <2>3. Wrapped(proc, madeFor) /\ Touch(k)
    BY <1>6 DEF Store
  <2> QED
    BY <1>6, <2>1, <2>2, <2>3, WrappedType, TouchType, TaskUpdateType
       DEF Store, TypeOK, ProcStates
<1>7. CASE UseWrapper(t)
  <2>1. [proc EXCEPT ![task[t].wrapper] = IF @ = "closed" THEN "live" ELSE @]
          \in [Wrappers -> ProcStates]
    BY DEF ProcStates
  <2> QED
    BY <1>7, <2>1, WrappedType, IdleType, TaskUpdateType
       DEF UseWrapper, TypeOK, ProcStates, Retire
<1>8. CASE CloseEnds(t)
  <2> DEFINE n == task[t].then
             rec == [At(t, n, Nothing) EXCEPT
                       !.lock = IF n = "lock" THEN lock[task[t].key] ELSE @]
  <2>1. k \in Keys /\ task[t].victim \in Keys
    BY <1>1, <1>8 DEF CloseEnds, TaskHolds
  <2>2. At(t, n, Nothing) \in TaskRecords
    BY AtType DEF Pcs, Nexts
  <2>3. rec \in TaskRecords
    BY <2>1, <2>2 DEF TaskRecords
  <2>4. task' \in [Tasks -> TaskRecords]
    BY <1>8, <2>3, IdleType, TaskUpdateType DEF CloseEnds, Retire
  <2>5. Drop({task[t].victim}) /\ Closed(task[t].wrapper)
    BY <1>8 DEF CloseEnds
  <2> QED
    BY <1>8, <2>1, <2>4, <2>5, ClosedType, DropType
       DEF CloseEnds, TypeOK, ProcStates
<1>9. CASE Cancelled(t)
  <2>1. /\ Wrapped(proc, madeFor)
        /\ task' \in [Tasks -> TaskRecords]
        /\ users' = users /\ lock' = lock /\ sweep' = sweep
    BY <1>9, IdleType, TaskUpdateType DEF Cancelled, Retire, TypeOK
  <2>2. /\ pool' \in [Keys -> Wrappers \cup {Nothing}]
        /\ older' \in [Keys -> SUBSET Keys]
        /\ idle' \subseteq Keys
    <3>1. CASE task[t].pc = "close"
      <4>1. Drop({task[t].victim}) /\ task[t].victim \in Keys
        BY <1>9, <3>1 DEF Cancelled, TaskHolds
      <4> QED
        BY <4>1, DropType DEF TypeOK
    <3>2. CASE task[t].pc # "close"
      BY <1>9, <3>2 DEF Cancelled, TypeOK
    <3> QED
      BY <3>1, <3>2
  <2> QED
    BY <2>1, <2>2, WrappedType DEF TypeOK, ProcStates
<1> QED
  BY <1>2, <1>3, <1>4, <1>5, <1>6, <1>7, <1>8, <1>9 DEF Proceed, Answered

\* Every step of the cleanup loop keeps the types.
LEMMA SweepType ==
  ASSUME TypeOK, SweepHolds, Sweep
  PROVE  TypeOK'
<1> USE TypeParts
<1>1. CASE SweepRaises
  BY <1>1, AsleepType DEF SweepRaises, TypeOK
<1>2. ASSUME NEW u \in Users, SweepVisit(u)
      PROVE  TypeOK'
  <2>1. PICK passed \in SUBSET {v \in Round.left : IdleOf(v) = {}}, k \in IdleOf(u) :
          SweepRemove(k, [Round EXCEPT
            !.left = @ \ (passed \cup {u}),
            !.user = u,
            !.todo = IdleOf(u),
            !.empty = @ \cup WithoutServers(passed)])
    BY <1>2 DEF SweepVisit
  <2>2. /\ k \in Pooled
        /\ IdleOf(u) \subseteq Keys
        /\ WithoutServers(passed) \subseteq Users
    BY <1>2, RoundType DEF IdleOf, ServersOf, Pooled, WithoutServers, SweepVisit
  <2>3. [Round EXCEPT !.left = @ \ (passed \cup {u}), !.user = u,
                      !.todo = IdleOf(u), !.empty = @ \cup WithoutServers(passed)]
          \in SweepRecords
    BY <1>2, <2>2, RoundType DEF SweepVisit, SweepRecords
  <2> QED
    BY <1>2, <2>1, <2>2, <2>3, SweepRemoveType DEF SweepVisit, TypeOK, ProcStates
<1>3. CASE SweepCloseEnds
  <2>1. sweep \in SweepRecords /\ sweep.victim \in Keys
    BY <1>3 DEF SweepCloseEnds, TypeOK, SweepHolds
  <2>2. [sweep EXCEPT !.pc = "next", !.wrapper = Nothing, !.victim = Nothing]
          \in SweepRecords
    BY <2>1 DEF SweepRecords
  <2>3. Drop({sweep.victim}) /\ Closed(sweep.wrapper)
    BY <1>3 DEF SweepCloseEnds
  <2> QED
    BY <1>3, <2>1, <2>2, <2>3, ClosedType, DropType, AsleepType
       DEF SweepCloseEnds, TypeOK, ProcStates
<1>4. CASE SweepNext
  <2>1. PICK k \in StillThere : SweepRemove(k, sweep)
    BY <1>4 DEF SweepNext
  <2>2. k \in Pooled /\ sweep \in SweepRecords
    BY <2>1 DEF StillThere, Pooled, TypeOK, SweepRecords
  <2> QED
    BY <1>4, <2>1, <2>2, SweepRemoveType DEF SweepNext, TypeOK, ProcStates
<1>5. CASE SweepEnd
  <2> DEFINE empty == Round.empty \cup WithoutServers(Round.left)
             K == {k \in Keys : k[1] \in empty}
  <2>1. Drop(K) /\ Wrapped(proc, madeFor) /\ DropLocks(Users \ users')
    BY <1>5 DEF SweepEnd
  <2>2. lock' \in [Keys -> Locks]
    BY <2>1 DEF DropLocks, TypeOK
  <2> QED
    BY <1>5, <2>1, <2>2, DropType, WrappedType, AsleepType
       DEF SweepEnd, TypeOK, ProcStates
<1> QED
  BY <1>1, <1>2, <1>3, <1>4, <1>5 DEF Sweep

LEMMA TypeStep ==
  ASSUME TypeOK, \A t \in Tasks : TaskHolds(t), SweepHolds, [Next]_vars
  PROVE  TypeOK'
<1> USE TypeParts
<1>1. ASSUME NEW t \in Tasks, NEW k \in Keys, Request(t, k)
      PROVE  TypeOK'
  <2>1. TaskRecord("lock", k, lock[k], Nothing, Nothing, "idle") \in TaskRecords
    BY TaskRecordType DEF Pcs, Nexts
  <2> QED
    BY <1>1, <2>1, TaskUpdateType DEF Request, TypeOK
<1>2. ASSUME NEW t \in Tasks, NEW k \in Keys, StopServer(t, k)
      PROVE  TypeOK'
  <2>1. PICK n \in {"idle", "lock"} :
          /\ proc' = AfterTerminate(pool[k])
          /\ task' = [task EXCEPT ![t] =
                        TaskRecord("close", k, Nothing, pool[k], k, n)]
    BY <1>2 DEF StopServer
  <2>2. TaskRecord("close", k, Nothing, pool[k], k, n) \in TaskRecords
    BY TaskRecordType DEF Pcs, Nexts, TypeOK
  <2> QED
    BY <1>2, <2>1, <2>2, AfterTerminateType, TaskUpdateType
       DEF StopServer, TypeOK, ProcStates
<1>3. ASSUME NEW k \in Keys, GoesIdle(k)
      PROVE  TypeOK'
  BY <1>3 DEF GoesIdle, TypeOK
<1>4. ASSUME NEW w \in Wrappers, ProcessExits(w)
      PROVE  TypeOK'
  BY <1>4 DEF ProcessExits, TypeOK
<1>5. CASE UNCHANGED vars
  BY <1>5 DEF vars, TypeOK
<1> QED
  BY <1>1, <1>2, <1>3, <1>4, <1>5, CallType, SweepType DEF Next
-----------------------------------------------------------------------------
(* Who holds which wrapper *)

\* What somebody may take hold of in a step of an actor whose own wrapper is
\* x: a wrapper in the pool, or one nobody holds.
Known(w, x) ==
  \/ w \in {Nothing, x}
  \/ \E k \in Keys : pool[k] = w
  \/ ~InUse(w)

\* What such a step may do to a wrapper: it keeps its key, and only that of
\* the actor or one in the pool is told to end.
Kept(w, x) ==
  /\ madeFor'[w] = madeFor[w]
  /\ \/ proc'[w] \in {proc[w], "exited"}
     \/ w = x
     \/ \E k \in Keys : pool[k] = w

\* A step of the tasks in T (one, or none) whose wrapper is x leaves what
\* all the others know, and the keys of the entries it does not touch.
LEMMA Others ==
  ASSUME PoolInv, TypeOK', NEW T \in SUBSET Tasks, NEW x,
         \A u \in Tasks \ T : task[u].pc = "init" => task[u].wrapper # x,
         \A u \in Tasks \ T : task'[u] = task[u],
         \A u \in T : Known(task'[u].wrapper, x),
         sweep' = sweep \/ Known(sweep'.wrapper, x),
         \A k \in Keys : pool'[k] \in {pool[k], Nothing, x},
         \A w \in Wrappers : InUse(w) /\ InUse(w)' => Kept(w, x)
  PROVE  /\ \A u \in Tasks \ T : TaskHolds(u)'
         /\ sweep' = sweep => SweepHolds'
         /\ \A k \in Keys : pool'[k] = pool[k] /\ pool[k] # Nothing =>
              madeFor'[pool'[k]] = k
<1>1. ASSUME NEW u \in Tasks \ T
      PROVE  TaskHolds(u)'
  <2> DEFINE w == task[u].wrapper
  <2>1. TaskHolds(u) /\ task'[u] = task[u] /\ w \in Wrappers \cup {Nothing}
    BY <1>1, TypeParts DEF PoolInv
  <2>2. w \in Wrappers => InUse(w) /\ InUse(w)' /\ Kept(w, x)
    BY <1>1, <2>1 DEF InUse
  <2>3. CASE task[u].pc = "init"
    <3>1. /\ w \in Wrappers
          /\ w # x /\ w # Nothing
          /\ madeFor[w] = task[u].key
          /\ proc[w] \in {"live", "exited"}
          /\ \A k \in Keys : pool[k] # w
          /\ \A v \in Tasks : v # u => task[v].wrapper # w
          /\ sweep.wrapper # w
      BY <1>1, <2>1, <2>3, PoolAssumption DEF TaskHolds
    <3>2. ~Known(w, x)
      BY <2>2, <3>1 DEF Known
    <3>3. /\ madeFor'[w] = task[u].key
          /\ proc'[w] \in {"live", "exited"}
      BY <2>2, <3>1 DEF Kept
    <3>4. \A k \in Keys : pool'[k] # w
      BY <3>1
    <3>5. \A v \in Tasks : v # u => task'[v].wrapper # w
      BY <3>1, <3>2
    <3>6. sweep'.wrapper # w
      BY <3>1, <3>2
    <3> QED
      BY <2>1, <2>3, <3>1, <3>3, <3>4, <3>5, <3>6 DEF TaskHolds, IsIdle
  <2>4. CASE task[u].pc # "init"
    BY <2>1, <2>2, <2>4 DEF TaskHolds, IsIdle, Kept
  <2> QED
    BY <2>3, <2>4
<1>2. ASSUME sweep' = sweep
      PROVE  SweepHolds'
  <2>1. sweep.pc = "close" => sweep.wrapper \in Wrappers /\ Kept(sweep.wrapper, x)
    BY <1>2 DEF PoolInv, SweepHolds, InUse
  <2> QED
    BY <1>2, <2>1 DEF PoolInv, SweepHolds, Kept
<1>3. ASSUME NEW k \in Keys, pool'[k] = pool[k], pool[k] # Nothing
      PROVE  madeFor'[pool'[k]] = k
  <2>1. pool[k] \in Wrappers /\ Kept(pool[k], x)
    BY <1>3 DEF PoolInv, TypeOK, InUse
  <2> QED
    BY <1>3, <2>1 DEF PoolInv, OwnServerOnly, Kept
<1> QED
  BY <1>1, <1>2, <1>3

\* A task moves on, and at most takes hold of a wrapper in the pool and
\* tells its process to end.
LEMMA TakeStep ==
  ASSUME PoolInv, TypeOK', NEW t \in Tasks, NEW rec,
         task' = [task EXCEPT ![t] = rec],
         rec.wrapper = Nothing \/ \E k \in Keys : pool[k] = rec.wrapper,
         \A w \in Wrappers :
           \/ proc'[w] = proc[w]
           \/ /\ proc[w] = "live"
              /\ proc'[w] = "closing"
              /\ \E k \in Keys : pool[k] = w,
         pool' = pool, madeFor' = madeFor, sweep' = sweep,
         TaskHolds(t)'
  PROVE  PoolInv'
<1>1. /\ \A u \in Tasks \ {t} : task'[u] = task[u]
      /\ task'[t] = rec
  BY DEF PoolInv, TypeOK
<1>2. \A w \in Wrappers : InUse(w)' => InUse(w)
  BY <1>1, PoolAssumption DEF InUse
<1>3. HeldWasStarted'
  BY <1>2 DEF HeldWasStarted, PoolInv
<1>4. /\ \A u \in Tasks \ {t} : TaskHolds(u)'
      /\ SweepHolds'
      /\ \A k \in Keys : pool[k] # Nothing => madeFor'[pool'[k]] = k
  <2> DEFINE T == {t}
  <2>1. T \in SUBSET Tasks /\ \A u \in Tasks \ T : task'[u] = task[u]
    BY <1>1
  <2>2. \A u \in Tasks \ T : task[u].pc = "init" => task[u].wrapper # Nothing
    BY PoolAssumption DEF PoolInv, TaskHolds
  <2>3. \A u \in T : Known(task'[u].wrapper, Nothing)
    BY <1>1 DEF Known
  <2>4. \A w \in Wrappers : InUse(w) /\ InUse(w)' => Kept(w, Nothing)
    BY DEF Kept
  <2>5. \A k \in Keys : pool'[k] \in {pool[k], Nothing, Nothing}
    OBVIOUS
  <2> HIDE DEF T
  <2>6. /\ \A u \in Tasks \ T : TaskHolds(u)'
        /\ SweepHolds'
        /\ \A k \in Keys : pool[k] # Nothing => madeFor'[pool'[k]] = k
    BY <2>1, <2>2, <2>3, <2>4, <2>5, Others
  <2> QED
    BY <2>6 DEF T
<1>5. \A u \in Tasks : TaskHolds(u)'
  BY <1>4
<1>6. OwnServerOnly'
  BY <1>4, <1>5 DEF OwnServerOnly, TaskHolds
<1>7. PooledIsOpen'
  BY DEF PooledIsOpen, PoolInv, TypeOK
<1> QED
  BY <1>3, <1>4, <1>5, <1>6, <1>7 DEF PoolInv

\* The tasks in T (one, or none) and their wrapper x: a step lets go of x,
\* stores it or closes it.  p tells the processes after it.
Releases(T, x, p) ==
  /\ \A u \in Tasks \ T : task[u].pc = "init" => task[u].wrapper # x
  /\ \A u \in Tasks \ T : task'[u] = task[u]
  /\ \A u \in T : task'[u].wrapper \in {Nothing, x} /\ TaskHolds(u)'
  /\ sweep' = sweep \/ (sweep'.wrapper = Nothing /\ SweepHolds')
  /\ x \in Wrappers => InUse(x)
  /\ Wrapped(p, madeFor)
  /\ \A w \in Wrappers : p[w] = proc[w] \/ (w = x /\ p[w] # "gone")
  /\ \A k \in Keys :
       /\ pool'[k] \in {pool[k], Nothing, x}
       /\ pool'[k] \in Wrappers /\ pool'[k] = x =>
            madeFor[x] = k /\ p[x] # "closed"

\* Such a step keeps the invariant.
LEMMA ReleaseStep ==
  ASSUME PoolInv, TypeOK', NEW T \in SUBSET Tasks, NEW x, NEW p,
         Releases(T, x, p)
  PROVE  PoolInv'
<1> USE DEF Releases
<1>1. \A w \in Wrappers : InUse(w)' => InUse(w)
  <2>1. ASSUME NEW w \in Wrappers, NEW k \in Keys, pool'[k] = w
        PROVE  InUse(w)
    BY <2>1, PoolAssumption DEF InUse
  <2>2. ASSUME NEW w \in Wrappers, NEW u \in Tasks, task'[u].wrapper = w
        PROVE  InUse(w)
    BY <2>2, PoolAssumption DEF InUse
  <2>3. ASSUME NEW w \in Wrappers, sweep'.wrapper = w
        PROVE  InUse(w)
    BY <2>3, PoolAssumption DEF InUse
  <2> QED
    BY <2>1, <2>2, <2>3 DEF InUse
<1>2. \A w \in Wrappers :
        InUse(w)' => proc'[w] = p[w] /\ madeFor'[w] = madeFor[w]
  BY DEF Wrapped
<1>3. HeldWasStarted'
  BY <1>1, <1>2 DEF HeldWasStarted, PoolInv
<1>4. /\ \A u \in Tasks \ T : TaskHolds(u)'
      /\ sweep' = sweep => SweepHolds'
      /\ \A k \in Keys : pool'[k] = pool[k] /\ pool[k] # Nothing =>
           madeFor'[pool'[k]] = k
  <2>1. \A u \in T : Known(task'[u].wrapper, x)
    BY DEF Known
  <2>2. sweep' = sweep \/ Known(sweep'.wrapper, x)
    BY DEF Known
  <2>3. \A w \in Wrappers : InUse(w) /\ InUse(w)' => Kept(w, x)
    BY <1>2 DEF Kept
  <2>4. \A k \in Keys : pool'[k] \in {pool[k], Nothing, x}
    OBVIOUS
  <2> QED
    BY <2>1, <2>2, <2>3, <2>4, Others
<1>5. (\A u \in Tasks : TaskHolds(u)') /\ SweepHolds'
  BY <1>4
<1>6. ASSUME NEW k \in Keys, pool'[k] # Nothing
      PROVE  madeFor'[pool'[k]] = k /\ proc'[pool'[k]] # "closed"
  <2>1. PICK w \in Wrappers : pool'[k] = w
    BY <1>6 DEF TypeOK
  <2>2. InUse(w)'
    BY <2>1 DEF InUse
  <2>3. CASE w = x
    BY <1>2, <2>1, <2>2, <2>3
  <2>4. CASE w # x
    BY <1>2, <1>4, <1>6, <2>1, <2>2, <2>4 DEF PoolInv, PooledIsOpen
  <2> QED
    BY <2>3, <2>4
<1>7. OwnServerOnly' /\ PooledIsOpen'
  BY <1>5, <1>6 DEF OwnServerOnly, PooledIsOpen, TaskHolds
<1> QED
  BY <1>3, <1>5, <1>7 DEF PoolInv

-----------------------------------------------------------------------------
(* The steps *)

\* A task begins to close the wrapper under key k.
LEMMA RemoveStep ==
  ASSUME PoolInv, TypeOK', NEW t \in Tasks, NEW k \in Pooled, NEW n \in Nexts,
         task[t].key \in Keys, Remove(t, k, n),
         pool' = pool, madeFor' = madeFor, sweep' = sweep
  PROVE  PoolInv'
<1> DEFINE rec == TaskRecord("close", task[t].key, task[t].lock, pool[k], k, n)
<1>1. k \in Keys /\ pool[k] \in Wrappers /\ madeFor[pool[k]] = k
  BY DEF Pooled, PoolInv, TypeOK, OwnServerOnly
<1>2. task' = [task EXCEPT ![t] = rec] /\ proc' = AfterTerminate(pool[k])
  BY DEF Remove
<1>3. TaskHolds(t)'
  <2>1. task'[t] = rec
    BY <1>2 DEF PoolInv, TypeOK
  <2> QED
    BY <1>1, <2>1 DEF TaskHolds, IsIdle, TaskRecord
<1>4. rec.wrapper = pool[k]
  BY DEF TaskRecord
<1>5. \A w \in Wrappers :
        \/ proc'[w] = proc[w]
        \/ /\ proc[w] = "live"
           /\ proc'[w] = "closing"
           /\ \E j \in Keys : pool[j] = w
  BY <1>1, <1>2, TypeParts DEF AfterTerminate, PoolInv
<1> HIDE DEF rec
<1> QED
  BY <1>1, <1>2, <1>3, <1>4, <1>5, TakeStep

\* A task moves to a program point where it holds nothing.
LEMMA MoveStep ==
  ASSUME PoolInv, TypeOK', NEW t \in Tasks, NEW rec,
         task' = [task EXCEPT ![t] = rec],
         rec.wrapper = Nothing, rec.pc \notin {"init", "close", "call"},
         rec.pc # "idle" => rec.key \in Keys,
         pool' = pool, proc' = proc, madeFor' = madeFor, sweep' = sweep
  PROVE  PoolInv'
<1>1. task'[t] = rec
  BY DEF PoolInv, TypeOK
<1>2. TaskHolds(t)'
  BY <1>1 DEF TaskHolds, IsIdle
<1> QED
  BY <1>2, TakeStep

LEMMA MakeRoomForAllStep ==
  ASSUME PoolInv, TypeOK', NEW t \in Tasks, task[t].key \in Keys,
         MakeRoomForAll(t),
         pool' = pool, madeFor' = madeFor, sweep' = sweep
  PROVE  PoolInv'
<1>1. CASE Cardinality(Pooled) >= MaxTotal
  BY <1>1, RemoveStep DEF MakeRoomForAll, IsLRU, Nexts
<1>2. CASE ~(Cardinality(Pooled) >= MaxTotal)
  <2> DEFINE rec == At(t, "start", Nothing)
  <2>1. /\ rec.wrapper = Nothing
        /\ rec.pc = "start"
        /\ rec.key \in Keys
    BY DEF At, TaskRecord
  <2>2. task' = [task EXCEPT ![t] = rec] /\ proc' = proc
    BY <1>2 DEF MakeRoomForAll
  <2> HIDE DEF rec
  <2> QED
    BY <2>1, <2>2, MoveStep
<1> QED
  BY <1>1, <1>2

LEMMA MakeRoomStep ==
  ASSUME PoolInv, TypeOK', NEW t \in Tasks, task[t].key \in Keys, MakeRoom(t),
         pool' = pool, madeFor' = madeFor, sweep' = sweep
  PROVE  PoolInv'
<1>1. ServersOf(task[t].key[1]) \subseteq Pooled
  BY DEF ServersOf, Pooled
<1> QED
  BY <1>1, RemoveStep, MakeRoomForAllStep DEF MakeRoom, IsLRU, Nexts

\* The lock is obtained: the server is reused, removed, or room is made.
LEMMA AcquireStep ==
  ASSUME PoolInv, TypeOK', NEW t \in Tasks, Acquire(t)
  PROVE  PoolInv'
<1> DEFINE k == task[t].key
<1>1. k \in Keys /\ pool' = pool /\ madeFor' = madeFor /\ sweep' = sweep
  BY DEF Acquire, PoolInv, TaskHolds, IsIdle
<1>2. CASE pool[k] # Nothing /\ IsHealthy(pool[k])
  <2> DEFINE rec == At(t, "call", pool[k])
  <2>1. task' = [task EXCEPT ![t] = rec] /\ proc' = proc
    BY <1>2 DEF Acquire
  <2>2. rec.wrapper = pool[k] /\ rec.pc = "call" /\ rec.key = k
    BY DEF At, TaskRecord
  <2>3. pool[k] \in Wrappers /\ madeFor[pool[k]] = k
    BY <1>1, <1>2 DEF PoolInv, TypeOK, OwnServerOnly
  <2>4. task'[t] = rec
    BY <2>1 DEF PoolInv, TypeOK
  <2>5. TaskHolds(t)'
    BY <1>1, <2>2, <2>3, <2>4 DEF TaskHolds, IsIdle
  <2> HIDE DEF rec
  <2> QED
    BY <1>1, <2>1, <2>2, <2>5, TakeStep
<1>3. CASE pool[k] # Nothing /\ ~IsHealthy(pool[k])
  <2>1. Remove(t, k, "user") /\ k \in Pooled
    BY <1>1, <1>3 DEF Acquire, Pooled
  <2> QED
    BY <1>1, <2>1, RemoveStep DEF Nexts
<1>4. CASE pool[k] = Nothing
  BY <1>1, <1>4, MakeRoomStep DEF Acquire
<1> QED
  BY <1>2, <1>3, <1>4

\* A start takes a wrapper nobody holds.
LEMMA StartStep ==
  ASSUME PoolInv, TypeOK', NEW t \in Tasks, NEW w \in Wrappers, StartProcess(t, w)
  PROVE  PoolInv'
<1> DEFINE T == {t}
<1>1. /\ task[t].key \in Keys
      /\ task'[t] = At(t, "init", w)
      /\ \A u \in Tasks \ {t} : task'[u] = task[u]
  BY DEF StartProcess, PoolInv, TypeOK, TaskHolds, IsIdle
<1>2. task'[t].wrapper = w /\ task'[t].pc = "init" /\ task'[t].key = task[t].key
  BY <1>1 DEF At, TaskRecord
<1>3. ~InUse(w)
  BY DEF StartProcess, PoolInv, HeldWasStarted
<1>4. /\ \A k \in Keys : pool[k] # w
      /\ \A u \in Tasks : task[u].wrapper # w
      /\ sweep.wrapper # w
  BY <1>3 DEF InUse
<1>5. /\ pool' = pool /\ sweep' = sweep
      /\ \A v \in Wrappers \ {w} : proc'[v] = proc[v] /\ madeFor'[v] = madeFor[v]
      /\ proc'[w] = "live" /\ madeFor'[w] = task[t].key
  BY DEF StartProcess, PoolInv, TypeOK
<1>6. TaskHolds(t)'
  BY <1>1, <1>2, <1>4, <1>5 DEF TaskHolds, IsIdle
<1>7. HeldWasStarted'
  <2>1. \A v \in Wrappers \ {w} : InUse(v)' => InUse(v)
    BY <1>1, <1>2, <1>5 DEF InUse
  <2> QED
    BY <1>5, <2>1 DEF HeldWasStarted, PoolInv
<1>8. /\ \A u \in Tasks \ T : TaskHolds(u)'
      /\ SweepHolds'
      /\ \A k \in Keys : pool[k] # Nothing => madeFor'[pool'[k]] = k
  <2>1. T \in SUBSET Tasks /\ \A u \in Tasks \ T : task'[u] = task[u]
    BY <1>1
  <2>2. \A u \in Tasks \ T : task[u].pc = "init" => task[u].wrapper # Nothing
    BY PoolAssumption DEF PoolInv, TaskHolds
  <2>3. \A u \in T : Known(task'[u].wrapper, Nothing)
    BY <1>2, <1>3 DEF Known
  <2>4. \A v \in Wrappers : InUse(v) /\ InUse(v)' => Kept(v, Nothing)
    BY <1>3, <1>5 DEF Kept
  <2>5. \A k \in Keys : pool'[k] \in {pool[k], Nothing, Nothing}
    BY <1>5
  <2> HIDE DEF T
  <2> QED
    BY <1>5, <2>1, <2>2, <2>3, <2>4, <2>5, Others
<1>9. \A u \in Tasks : TaskHolds(u)'
  BY <1>6, <1>8
<1>10. OwnServerOnly' /\ PooledIsOpen'
  BY <1>4, <1>5, <1>8, <1>9 DEF OwnServerOnly, PooledIsOpen, TaskHolds, PoolInv, TypeOK
<1> QED
  BY <1>7, <1>8, <1>9, <1>10 DEF PoolInv

\* A task retires, closing or reviving nothing.
LEMMA StartFailsStep ==
  ASSUME PoolInv, TypeOK', NEW t \in Tasks, StartFails(t)
  PROVE  PoolInv'
<1> DEFINE T == {t}
<1>1. /\ T \in SUBSET Tasks
      /\ task'[t] = Idle
      /\ \A u \in Tasks \ T : task'[u] = task[u]
  BY DEF StartFails, Retire, PoolInv, TypeOK
<1>2. \A u \in T : task'[u].wrapper \in {Nothing, Nothing} /\ TaskHolds(u)'
  BY <1>1 DEF TaskHolds, IsIdle, Idle, TaskRecord
<1>3. \A u \in Tasks \ T : task[u].pc = "init" => task[u].wrapper # Nothing
  BY PoolAssumption DEF PoolInv, TaskHolds
<1>4. pool' = pool /\ sweep' = sweep /\ Wrapped(proc, madeFor)
  BY DEF StartFails
<1>5. Nothing \in Wrappers => InUse(Nothing)
  BY PoolAssumption
<1>6. \A w \in Wrappers : proc[w] = proc[w] \/ (w = Nothing /\ proc[w] # "gone")
  OBVIOUS
<1>7. \A k \in Keys :
        /\ pool'[k] \in {pool[k], Nothing, Nothing}
        /\ pool'[k] \in Wrappers /\ pool'[k] = Nothing =>
             madeFor[Nothing] = k /\ proc[Nothing] # "closed"
  BY <1>4, PoolAssumption
<1> HIDE DEF T
<1> QED
  <2>1. Releases(T, Nothing, proc)
    BY <1>1, <1>2, <1>3, <1>4, <1>5, <1>6, <1>7 DEF Releases
  <2> QED
    BY <1>1, <2>1, ReleaseStep

\* The timeout of a step ends a call, and the removal it was waiting for.
LEMMA CancelledStep ==
  ASSUME PoolInv, TypeOK', NEW t \in Tasks, Cancelled(t)
  PROVE  PoolInv'
<1> DEFINE T == {t}
<1>1. /\ T \in SUBSET Tasks
      /\ task'[t] = Idle
      /\ \A u \in Tasks \ T : task'[u] = task[u]
  BY DEF Cancelled, Retire, PoolInv, TypeOK
<1>2. \A u \in T : task'[u].wrapper \in {Nothing, Nothing} /\ TaskHolds(u)'
  BY <1>1 DEF TaskHolds, IsIdle, Idle, TaskRecord
<1>3. \A u \in Tasks \ T : task[u].pc = "init" => task[u].wrapper # Nothing
  BY PoolAssumption DEF PoolInv, TaskHolds
<1>4. sweep' = sweep /\ Wrapped(proc, madeFor)
  BY DEF Cancelled
<1>5. Nothing \in Wrappers => InUse(Nothing)
  BY PoolAssumption
<1>6. \A w \in Wrappers : proc[w] = proc[w] \/ (w = Nothing /\ proc[w] # "gone")
  OBVIOUS
<1>7. \A k \in Keys :
        /\ pool'[k] \in {pool[k], Nothing, Nothing}
        /\ pool'[k] \in Wrappers /\ pool'[k] = Nothing =>
             madeFor[Nothing] = k /\ proc[Nothing] # "closed"
  BY PoolAssumption DEF Cancelled, Drop
<1> HIDE DEF T
<1> QED
  <2>1. Releases(T, Nothing, proc)
    BY <1>1, <1>2, <1>3, <1>4, <1>5, <1>6, <1>7 DEF Releases
  <2> QED
    BY <1>1, <2>1, ReleaseStep

\* The new server enters the pool, over whatever is there.
LEMMA StoreStep ==
  ASSUME PoolInv, TypeOK', NEW t \in Tasks, Store(t)
  PROVE  PoolInv'
<1> DEFINE T == {t}
           x == task[t].wrapper
<1>1. /\ x \in Wrappers
      /\ madeFor[x] = task[t].key
      /\ proc[x] \in {"live", "exited"}
      /\ task[t].key \in Keys
      /\ \A k \in Keys : pool[k] # x
      /\ \A u \in Tasks \ T : task[u].wrapper # x
  BY DEF Store, PoolInv, TaskHolds, IsIdle
<1>2. /\ T \in SUBSET Tasks
      /\ task'[t] = At(t, "call", x)
      /\ \A u \in Tasks \ T : task'[u] = task[u]
  BY DEF Store, PoolInv, TypeOK
<1>3. InUse(x)
  BY DEF InUse
<1>4. \A k \in Keys : pool'[k] = IF k = task[t].key THEN x ELSE pool[k]
  BY <1>1 DEF Store, PoolInv, TypeOK
<1>5. \A u \in T : task'[u].wrapper \in {Nothing, x} /\ TaskHolds(u)'
  <2>1. task'[t].wrapper = x /\ task'[t].pc = "call" /\ task'[t].key = task[t].key
    BY <1>2 DEF At, TaskRecord
  <2>2. PICK w \in Wrappers : w = x
    BY <1>1
  <2>3. InUse(w)'
    BY <2>1, <2>2 DEF InUse
  <2>4. madeFor'[w] = madeFor[w]
    BY <2>3 DEF Store, Wrapped
  <2> QED
    BY <1>1, <2>1, <2>2, <2>4 DEF TaskHolds, IsIdle
<1>6. sweep' = sweep /\ Wrapped(proc, madeFor)
  BY DEF Store
<1>7. /\ \A u \in Tasks \ T : task[u].pc = "init" => task[u].wrapper # x
      /\ \A k \in Keys :
           /\ pool'[k] \in {pool[k], Nothing, x}
           /\ pool'[k] \in Wrappers /\ pool'[k] = x =>
                madeFor[x] = k /\ proc[x] # "closed"
  BY <1>1, <1>4
<1>8. \A w \in Wrappers : proc[w] = proc[w] \/ (w = x /\ proc[w] # "gone")
  OBVIOUS
<1> HIDE DEF T, x
<1> QED
  <2>1. Releases(T, x, proc)
    BY <1>2, <1>3, <1>5, <1>6, <1>7, <1>8 DEF Releases
  <2> QED
    BY <1>2, <2>1, ReleaseStep

\* The caller goes; call_tool may have revived a closed wrapper.
LEMMA UseWrapperStep ==
  ASSUME PoolInv, TypeOK', NEW t \in Tasks, UseWrapper(t)
  PROVE  PoolInv'
<1> DEFINE T == {t}
           x == task[t].wrapper
<1>1. PICK p : /\ Wrapped(p, madeFor)
               /\ \A w \in Wrappers :
                    p[w] = proc[w] \/ (w = x /\ p[w] \notin {"gone", "closed"})
  <2>1. CASE Wrapped(proc, madeFor)
    BY <2>1
  <2>2. CASE Wrapped([proc EXCEPT ![x] = IF @ = "closed" THEN "live" ELSE @], madeFor)
    <3> DEFINE q == [proc EXCEPT ![x] = IF @ = "closed" THEN "live" ELSE @]
    <3>1. \A w \in Wrappers :
            q[w] = proc[w] \/ (w = x /\ q[w] \notin {"gone", "closed"})
      BY TypeParts DEF PoolInv
    <3> HIDE DEF q
    <3> QED
      BY <2>2, <3>1 DEF q
  <2> QED
    BY <2>1, <2>2 DEF UseWrapper
<1>2. /\ T \in SUBSET Tasks
      /\ task'[t] = Idle
      /\ \A u \in Tasks \ T : task'[u] = task[u]
      /\ pool' = pool
      /\ sweep' = sweep
      /\ InUse(x)
  BY DEF UseWrapper, Retire, PoolInv, TypeOK, InUse
<1>3. \A u \in T : task'[u].wrapper \in {Nothing, x} /\ TaskHolds(u)'
  BY <1>2 DEF TaskHolds, IsIdle, Idle, TaskRecord
<1>4. \A u \in Tasks \ T : task[u].pc = "init" => task[u].wrapper # x
  BY DEF PoolInv, TaskHolds
<1>5. \A k \in Keys :
        /\ pool'[k] \in {pool[k], Nothing, x}
        /\ pool'[k] \in Wrappers /\ pool'[k] = x =>
             madeFor[x] = k /\ p[x] # "closed"
  BY <1>1, <1>2, PoolAssumption DEF PoolInv, OwnServerOnly, PooledIsOpen
<1>6. \A w \in Wrappers : p[w] = proc[w] \/ (w = x /\ p[w] # "gone")
  BY <1>1
<1> HIDE DEF T, x
<1> QED
  <2>1. Releases(T, x, p)
    BY <1>1, <1>2, <1>3, <1>4, <1>5, <1>6 DEF Releases
  <2> QED
    BY <1>2, <2>1, ReleaseStep

\* What both removals have in common: the wrapper was made for the key whose
\* entry is deleted, so it is in the pool no longer.
LEMMA ClosedEffect ==
  ASSUME PoolInv, NEW v \in Keys, NEW x \in Wrappers, madeFor[x] = v,
         Drop({v}), Closed(x)
  PROVE  /\ \A k \in Keys : pool'[k] \in {pool[k], Nothing} /\ pool'[k] # x
         /\ \E p : /\ Wrapped(p, madeFor)
                   /\ \A w \in Wrappers :
                        p[w] = proc[w] \/ (w = x /\ p[w] # "gone")
<1>1. \A k \in Keys : pool'[k] \in {pool[k], Nothing} /\ pool'[k] # x
  BY PoolAssumption DEF Drop, PoolInv, OwnServerOnly
<1>2. CASE Wrapped(proc, madeFor)
  BY <1>1, <1>2
<1>3. CASE Wrapped([proc EXCEPT ![x] = "closed"], madeFor)
  <2> DEFINE q == [proc EXCEPT ![x] = "closed"]
  <2>1. \A w \in Wrappers : q[w] = proc[w] \/ (w = x /\ q[w] # "gone")
    BY TypeParts DEF PoolInv
  <2> HIDE DEF q
  <2> QED
    BY <1>1, <1>3, <2>1 DEF q
<1> QED
  BY <1>2, <1>3 DEF Closed

\* A removal ends, for a task.
LEMMA CloseEndsStep ==
  ASSUME PoolInv, TypeOK', NEW t \in Tasks, CloseEnds(t)
  PROVE  PoolInv'
<1> DEFINE T == {t}
           x == task[t].wrapper
           n == task[t].then
           rec == [At(t, n, Nothing) EXCEPT
                     !.lock = IF n = "lock" THEN lock[task[t].key] ELSE @]
<1>1. /\ x \in Wrappers
      /\ task[t].victim \in Keys
      /\ madeFor[x] = task[t].victim
      /\ task[t].key \in Keys
      /\ Drop({task[t].victim})
      /\ Closed(x)
      /\ sweep' = sweep
      /\ InUse(x)
  BY DEF CloseEnds, PoolInv, TaskHolds, IsIdle, InUse
<1>2. PICK p : /\ Wrapped(p, madeFor)
               /\ \A w \in Wrappers : p[w] = proc[w] \/ (w = x /\ p[w] # "gone")
  BY <1>1, ClosedEffect
<1>3. \A k \in Keys : pool'[k] \in {pool[k], Nothing} /\ pool'[k] # x
  BY <1>1, ClosedEffect
<1>4. /\ T \in SUBSET Tasks
      /\ \A u \in Tasks \ T : task'[u] = task[u]
      /\ task'[t] \in {Idle, rec}
  BY DEF CloseEnds, Retire, PoolInv, TypeOK
<1>5. /\ rec.wrapper = Nothing /\ rec.pc = n /\ rec.key = task[t].key
      /\ n \in Nexts
  BY TypeParts DEF At, TaskRecord, PoolInv
<1>6. \A u \in T : task'[u].wrapper \in {Nothing, x} /\ TaskHolds(u)'
  <2>1. CASE task'[t] = Idle
    BY <2>1 DEF TaskHolds, IsIdle, Idle, TaskRecord
  <2>2. CASE task'[t] = rec
    BY <1>1, <1>5, <2>2 DEF TaskHolds, IsIdle, Nexts
  <2> QED
    BY <1>4, <2>1, <2>2
<1>7. \A u \in Tasks \ T : task[u].pc = "init" => task[u].wrapper # x
  BY DEF PoolInv, TaskHolds
<1> HIDE DEF T, x, n, rec
<1> QED
  <2>1. Releases(T, x, p)
    BY <1>1, <1>2, <1>3, <1>4, <1>6, <1>7 DEF Releases
  <2> QED
    BY <1>4, <2>1, ReleaseStep

\* The cleanup loop moves on, and at most begins to close a server.
LEMMA SweepTakeStep ==
  ASSUME PoolInv, TypeOK',
         sweep'.wrapper = Nothing \/ \E k \in Keys : pool[k] = sweep'.wrapper,
         SweepHolds',
         \A w \in Wrappers :
           \/ proc'[w] = proc[w]
           \/ /\ proc[w] = "live"
              /\ proc'[w] = "closing"
              /\ \E k \in Keys : pool[k] = w,
         pool' = pool, madeFor' = madeFor, task' = task
  PROVE  PoolInv'
<1>1. \A w \in Wrappers : InUse(w)' => InUse(w)
  BY PoolAssumption DEF InUse
<1>2. HeldWasStarted'
  BY <1>1 DEF HeldWasStarted, PoolInv
<1>3. /\ \A u \in Tasks : TaskHolds(u)'
      /\ \A k \in Keys : pool[k] # Nothing => madeFor'[pool'[k]] = k
  <2> DEFINE T == {}
  <2>1. T \in SUBSET Tasks /\ \A u \in Tasks \ T : task'[u] = task[u]
    OBVIOUS
  <2>2. \A u \in Tasks \ T : task[u].pc = "init" => task[u].wrapper # Nothing
    BY PoolAssumption DEF PoolInv, TaskHolds
  <2>3. \A u \in T : Known(task'[u].wrapper, Nothing)
    OBVIOUS
  <2>4. sweep' = sweep \/ Known(sweep'.wrapper, Nothing)
    BY DEF Known
  <2>5. \A w \in Wrappers : InUse(w) /\ InUse(w)' => Kept(w, Nothing)
    BY DEF Kept
  <2>6. \A k \in Keys : pool'[k] \in {pool[k], Nothing, Nothing}
    OBVIOUS
  <2> HIDE DEF T
  <2>7. /\ \A u \in Tasks \ T : TaskHolds(u)'
        /\ \A k \in Keys : pool[k] # Nothing => madeFor'[pool'[k]] = k
    BY <2>1, <2>2, <2>3, <2>4, <2>5, <2>6, Others
  <2> QED
    BY <2>7 DEF T
<1>4. OwnServerOnly' /\ PooledIsOpen'
  BY <1>3 DEF OwnServerOnly, PooledIsOpen, TaskHolds, PoolInv, TypeOK
<1> QED
  BY <1>2, <1>3, <1>4 DEF PoolInv

\* The loop begins to close the server under key k; s is what it remembers.
LEMMA SweepRemoveStep ==
  ASSUME PoolInv, TypeOK', NEW k \in Pooled, NEW s \in SweepRecords,
         s.user \in Users, SweepRemove(k, s),
         pool' = pool, madeFor' = madeFor, task' = task
  PROVE  PoolInv'
<1>1. k \in Keys /\ pool[k] \in Wrappers /\ madeFor[pool[k]] = k
  BY DEF Pooled, PoolInv, TypeOK, OwnServerOnly
<1>2. /\ sweep'.wrapper = pool[k] /\ sweep'.victim = k
      /\ sweep'.pc = "close" /\ sweep'.user = s.user
  BY DEF SweepRemove, SweepRecords
<1>3. SweepHolds'
  BY <1>1, <1>2 DEF SweepHolds
<1>4. \A w \in Wrappers :
        \/ proc'[w] = proc[w]
        \/ /\ proc[w] = "live"
           /\ proc'[w] = "closing"
           /\ \E j \in Keys : pool[j] = w
  BY <1>1, TypeParts DEF SweepRemove, AfterTerminate, PoolInv
<1> QED
  BY <1>1, <1>2, <1>3, <1>4, SweepTakeStep

LEMMA SweepVisitStep ==
  ASSUME PoolInv, TypeOK', NEW u \in Users, SweepVisit(u)
  PROVE  PoolInv'
<1>1. PICK passed \in SUBSET {v \in Round.left : IdleOf(v) = {}}, k \in IdleOf(u) :
        SweepRemove(k, [Round EXCEPT
          !.left = @ \ (passed \cup {u}),
          !.user = u,
          !.todo = IdleOf(u),
          !.empty = @ \cup WithoutServers(passed)])
  BY DEF SweepVisit
<1> DEFINE s == [Round EXCEPT !.left = @ \ (passed \cup {u}), !.user = u,
                   !.todo = IdleOf(u), !.empty = @ \cup WithoutServers(passed)]
<1>2. /\ k \in Pooled
      /\ IdleOf(u) \subseteq Keys
      /\ WithoutServers(passed) \subseteq Users
  BY RoundType DEF IdleOf, ServersOf, Pooled, WithoutServers, SweepVisit, PoolInv
<1>3. s \in SweepRecords /\ s.user = u
  BY <1>2, RoundType DEF SweepVisit, SweepRecords, PoolInv
<1>4. pool' = pool /\ madeFor' = madeFor /\ task' = task
  BY DEF SweepVisit
<1> HIDE DEF s
<1>5. SweepRemove(k, s)
  BY <1>1 DEF s
<1> QED
  BY <1>2, <1>3, <1>4, <1>5, SweepRemoveStep

\* A removal ends, for the cleanup loop.
LEMMA SweepCloseEndsStep ==
  ASSUME PoolInv, TypeOK', SweepCloseEnds
  PROVE  PoolInv'
<1> DEFINE T == {}
           x == sweep.wrapper
<1>1. /\ x \in Wrappers
      /\ sweep.victim \in Keys
      /\ madeFor[x] = sweep.victim
      /\ sweep.user \in Users
      /\ Drop({sweep.victim})
      /\ Closed(x)
      /\ InUse(x)
  BY DEF SweepCloseEnds, PoolInv, SweepHolds, InUse
<1>2. PICK p : /\ Wrapped(p, madeFor)
               /\ \A w \in Wrappers : p[w] = proc[w] \/ (w = x /\ p[w] # "gone")
  BY <1>1, ClosedEffect
<1>3. \A k \in Keys : pool'[k] \in {pool[k], Nothing} /\ pool'[k] # x
  BY <1>1, ClosedEffect
<1>4. sweep'.wrapper = Nothing /\ SweepHolds'
  BY <1>1 DEF SweepCloseEnds, SweepHolds, Asleep, PoolInv, TypeOK, SweepRecords
<1>5. T \in SUBSET Tasks /\ \A u \in Tasks \ T : task'[u] = task[u]
  BY DEF SweepCloseEnds
<1>6. \A u \in Tasks \ T : task[u].pc = "init" => task[u].wrapper # x
  BY DEF PoolInv, TaskHolds
<1>7. \A u \in T : task'[u].wrapper \in {Nothing, x} /\ TaskHolds(u)'
  OBVIOUS
<1> HIDE DEF T, x
<1>8. Releases(T, x, p)
  BY <1>1, <1>2, <1>3, <1>4, <1>5, <1>6, <1>7 DEF Releases
<1> QED
  BY <1>5, <1>8, ReleaseStep

\* The round ends; the dictionaries that are deleted take their entries along.
LEMMA SweepEndStep ==
  ASSUME PoolInv, TypeOK', SweepEnd
  PROVE  PoolInv'
<1> DEFINE T == {}
<1>1. sweep'.wrapper = Nothing /\ SweepHolds'
  BY DEF SweepEnd, SweepHolds, Asleep
<1>2. \A k \in Keys : pool'[k] \in {pool[k], Nothing}
  BY DEF SweepEnd, Drop
<1>3. /\ T \in SUBSET Tasks
      /\ \A u \in Tasks \ T : task'[u] = task[u]
      /\ Wrapped(proc, madeFor)
  BY DEF SweepEnd
<1>4. \A u \in Tasks \ T : task[u].pc = "init" => task[u].wrapper # Nothing
  BY PoolAssumption DEF PoolInv, TaskHolds
<1>5. \A u \in T : task'[u].wrapper \in {Nothing, Nothing} /\ TaskHolds(u)'
  OBVIOUS
<1> HIDE DEF T
<1>6. Releases(T, Nothing, proc)
  BY <1>1, <1>2, <1>3, <1>4, <1>5, PoolAssumption DEF Releases
<1> QED
  BY <1>3, <1>6, ReleaseStep

LEMMA SweepStep ==
  ASSUME PoolInv, TypeOK', Sweep
  PROVE  PoolInv'
<1>1. CASE SweepRaises
  <2>1. sweep'.wrapper = Nothing /\ SweepHolds'
    BY <1>1 DEF SweepRaises, SweepHolds, Asleep
  <2> QED
    BY <1>1, <2>1, SweepTakeStep DEF SweepRaises
<1>2. CASE SweepNext
  <2>1. PICK k \in StillThere : SweepRemove(k, sweep)
    BY <1>2 DEF SweepNext
  <2>2. k \in Pooled /\ sweep \in SweepRecords /\ sweep.user \in Users
    BY <1>2, <2>1
       DEF SweepNext, StillThere, Pooled, PoolInv, TypeOK, SweepRecords, SweepHolds
  <2> QED
    BY <1>2, <2>1, <2>2, SweepRemoveStep DEF SweepNext
<1> QED
  BY <1>1, <1>2, SweepVisitStep, SweepCloseEndsStep, SweepEndStep DEF Sweep

-----------------------------------------------------------------------------
(* The invariant *)

LEMMA ProceedStep ==
  ASSUME PoolInv, TypeOK', NEW t \in Tasks,
         Proceed(t) \/ Answered(t) \/ Cancelled(t)
  PROVE  PoolInv'
<1>1. CASE Continue(t)
  <2>1. /\ task[t].key \in Keys
        /\ pool' = pool /\ madeFor' = madeFor /\ sweep' = sweep
        /\ MakeRoom(t) \/ MakeRoomForAll(t)
    BY <1>1 DEF Continue, PoolInv, TaskHolds, IsIdle
  <2> QED
    BY <2>1, MakeRoomStep, MakeRoomForAllStep
<1> QED
  BY <1>1, StartStep, StartFailsStep, StoreStep, UseWrapperStep, CloseEndsStep,
     CancelledStep
     DEF Proceed, Answered

LEMMA PoolInvStep ==
  ASSUME PoolInv, [Next]_vars
  PROVE  PoolInv'
<1>1. TypeOK'
  BY TypeStep DEF PoolInv
<1>2. ASSUME NEW t \in Tasks, NEW k \in Keys, Request(t, k)
      PROVE  PoolInv'
  <2> DEFINE rec == TaskRecord("lock", k, lock[k], Nothing, Nothing, "idle")
  <2>1. rec.wrapper = Nothing /\ rec.pc = "lock" /\ rec.key = k
    BY DEF TaskRecord
  <2>2. /\ task' = [task EXCEPT ![t] = rec]
        /\ pool' = pool /\ proc' = proc /\ madeFor' = madeFor /\ sweep' = sweep
    BY <1>2 DEF Request
  <2> HIDE DEF rec
  <2> QED
    BY <1>1, <2>1, <2>2, MoveStep
<1>3. ASSUME NEW t \in Tasks, NEW k \in Keys, StopServer(t, k)
      PROVE  PoolInv'
  <2>1. PICK n \in {"idle", "lock"} :
          /\ proc' = AfterTerminate(pool[k])
          /\ task' = [task EXCEPT ![t] =
                        TaskRecord("close", k, Nothing, pool[k], k, n)]
    BY <1>3 DEF StopServer
  <2> DEFINE rec == TaskRecord("close", k, Nothing, pool[k], k, n)
  <2>2. pool[k] \in Wrappers /\ madeFor[pool[k]] = k
    BY <1>3 DEF StopServer, PoolInv, TypeOK, OwnServerOnly
  <2>3. pool' = pool /\ madeFor' = madeFor /\ sweep' = sweep
    BY <1>3 DEF StopServer
  <2>4. rec.wrapper = pool[k] /\ task'[t] = rec
    BY <2>1 DEF TaskRecord, PoolInv, TypeOK
  <2>5. TaskHolds(t)'
    BY <2>2, <2>3, <2>4 DEF TaskHolds, IsIdle, TaskRecord
  <2>6. \A w \in Wrappers :
          \/ proc'[w] = proc[w]
          \/ /\ proc[w] = "live"
             /\ proc'[w] = "closing"
             /\ \E j \in Keys : pool[j] = w
    BY <2>1, <2>2, TypeParts DEF AfterTerminate, PoolInv
  <2>7. task' = [task EXCEPT ![t] = rec]
    BY <2>1
  <2> HIDE DEF rec
  <2> QED
    BY <1>1, <2>3, <2>4, <2>5, <2>6, <2>7, TakeStep
<1>4. ASSUME NEW t \in Tasks,
             Acquire(t) \/ Proceed(t) \/ Answered(t) \/ Cancelled(t)
      PROVE  PoolInv'
  BY <1>1, <1>4, AcquireStep, ProceedStep
<1>5. CASE Sweep
  BY <1>1, <1>5, SweepStep
<1>6. ASSUME pool' = pool, proc' = proc, madeFor' = madeFor, task' = task,
             sweep' = sweep
      PROVE  PoolInv'
  BY <1>1, <1>6 DEF PoolInv, HeldWasStarted, InUse, TaskHolds, IsIdle, SweepHolds,
                    OwnServerOnly, PooledIsOpen
<1>7. ASSUME NEW w \in Wrappers, ProcessExits(w)
      PROVE  PoolInv'
  <2>1. /\ pool' = pool /\ madeFor' = madeFor /\ task' = task /\ sweep' = sweep
        /\ \A v \in Wrappers : proc'[v] \in {proc[v], "exited"}
    BY <1>7 DEF ProcessExits, PoolInv, TypeOK
  <2>2. HeldWasStarted' /\ PooledIsOpen'
    BY <2>1 DEF PoolInv, HeldWasStarted, InUse, PooledIsOpen, TypeOK
  <2>3. (\A t \in Tasks : TaskHolds(t)') /\ SweepHolds' /\ OwnServerOnly'
    BY <2>1 DEF PoolInv, TaskHolds, IsIdle, SweepHolds, OwnServerOnly
  <2> QED
    BY <1>1, <2>2, <2>3 DEF PoolInv
<1> QED
  BY <1>2, <1>3, <1>4, <1>5, <1>6, <1>7 DEF Next, vars, GoesIdle

LEMMA PoolInvInit == Init => PoolInv
<1> SUFFICES ASSUME Init PROVE PoolInv
  OBVIOUS
<1>1. TypeOK
  BY IdleType, AsleepType DEF Init, TypeOK
<1>2. /\ \A k \in Keys : pool[k] = Nothing
      /\ \A t \in Tasks : task[t] = Idle
      /\ sweep = Asleep
  BY DEF Init
<1>3. \A t \in Tasks : TaskHolds(t)
  BY <1>2 DEF TaskHolds, IsIdle, Idle, TaskRecord
<1>4. HeldWasStarted
  BY <1>2, PoolAssumption DEF HeldWasStarted, InUse, Idle, TaskRecord, Asleep
<1>5. SweepHolds
  BY <1>2 DEF SweepHolds, Asleep
<1>6. OwnServerOnly /\ PooledIsOpen
  BY <1>2 DEF OwnServerOnly, PooledIsOpen, Idle, TaskRecord
<1> QED
  BY <1>1, <1>3, <1>4, <1>5, <1>6 DEF PoolInv

\* PoolInv is an invariant of the pool, for all users, servers, tasks and
\* limits.
THEOREM PoolInvariance == Spec => []PoolInv
<1>1. Init => PoolInv
  BY PoolInvInit
<1>2. PoolInv /\ [Next]_vars => PoolInv'
  BY PoolInvStep
<1> QED
  BY <1>1, <1>2, PTL DEF Spec

\* All variables of the pool keep their types.
THEOREM PoolTyped == Spec => []TypeOK
<1>1. PoolInv => TypeOK
  BY DEF PoolInv
<1> QED
  BY <1>1, PoolInvariance, PTL

\* Whatever is evicted, stopped, replaced and started concurrently, a user is
\* served only by processes started for that user and that server.
THEOREM Isolation == Spec => []OwnServerOnly
<1>1. PoolInv => OwnServerOnly
  BY DEF PoolInv
<1> QED
  BY <1>1, PoolInvariance, PTL

\* No race of removals, by calls or by the cleanup loop, leaves a server in
\* the pool that was closed for good.
THEOREM NoClosedInPool == Spec => []PooledIsOpen
<1>1. PoolInv => PooledIsOpen
  BY DEF PoolInv
<1> QED
  BY <1>1, PoolInvariance, PTL

-----------------------------------------------------------------------------
(* The limits *)

\* Servers P and starts U are fewer than limit M and the calls together.
Fits(P, U, M) ==
  /\ IsFiniteSet(P)
  /\ Cardinality(P) + Cardinality(U) < M + Cardinality(Tasks)

\* What a step may do to servers and starts: take from both, let a start take
\* the place of a server or a server that of a start, or let anybody start
\* while the limit is not reached.
MayBecome(P, U, Q, V, M) ==
  \/ Q \subseteq P /\ V \subseteq U
  \/ \E k \in P, t \in Tasks : Q \subseteq P \ {k} /\ V \subseteq U \cup {t}
  \/ \E t \in U : \E k : Q \subseteq P \cup {k} /\ V \subseteq U \ {t}
  \/ Cardinality(P) < M /\ Q \subseteq P

\* No such step passes the limit by more than the calls.
LEMMA StillFits ==
  ASSUME NEW P, NEW U \in SUBSET Tasks, NEW Q, NEW V \in SUBSET Tasks,
         NEW M \in Nat, Fits(P, U, M), MayBecome(P, U, Q, V, M)
  PROVE  Fits(Q, V, M)
<1>1. /\ IsFiniteSet(P) /\ Cardinality(P) \in Nat
      /\ IsFiniteSet(U) /\ Cardinality(U) \in Nat
      /\ IsFiniteSet(V) /\ Cardinality(V) \in Nat
      /\ Cardinality(Tasks) \in Nat
      /\ Cardinality(V) <= Cardinality(Tasks)
      /\ Cardinality(P) + Cardinality(U) < M + Cardinality(Tasks)
  BY TaskAssumption, FS_Subset, FS_CardinalityType DEF Fits
<1>2. CASE Q \subseteq P /\ V \subseteq U
  <2>1. /\ IsFiniteSet(Q) /\ Cardinality(Q) \in Nat
        /\ Cardinality(Q) <= Cardinality(P)
        /\ Cardinality(V) <= Cardinality(U)
    BY <1>1, <1>2, FS_Subset, FS_CardinalityType
  <2> QED
    BY <1>1, <2>1 DEF Fits
<1>3. ASSUME NEW k \in P, NEW t \in Tasks, Q \subseteq P \ {k}, V \subseteq U \cup {t}
      PROVE  Fits(Q, V, M)
  <2>1. IsFiniteSet(P \ {k}) /\ Cardinality(P \ {k}) = Cardinality(P) - 1
    BY <1>1, FS_RemoveElement
  <2>2. /\ IsFiniteSet(Q) /\ Cardinality(Q) \in Nat
        /\ Cardinality(Q) <= Cardinality(P) - 1
    BY <1>3, <2>1, FS_Subset, FS_CardinalityType
  <2>3. /\ IsFiniteSet(U \cup {t})
        /\ Cardinality(U \cup {t}) = IF t \in U THEN Cardinality(U) ELSE Cardinality(U) + 1
    BY <1>1, FS_AddElement
  <2>4. Cardinality(V) <= Cardinality(U) + 1
    <3>1. Cardinality(V) <= Cardinality(U \cup {t})
      BY <1>3, <2>3, FS_Subset
    <3> QED
      BY <1>1, <2>3, <3>1
  <2> QED
    BY <1>1, <2>2, <2>4 DEF Fits
<1>4. ASSUME NEW t \in U, NEW k, Q \subseteq P \cup {k}, V \subseteq U \ {t}
      PROVE  Fits(Q, V, M)
  <2>1. IsFiniteSet(U \ {t}) /\ Cardinality(U \ {t}) = Cardinality(U) - 1
    BY <1>1, FS_RemoveElement
  <2>2. Cardinality(V) <= Cardinality(U) - 1
    BY <1>4, <2>1, FS_Subset
  <2>3. /\ IsFiniteSet(P \cup {k})
        /\ Cardinality(P \cup {k}) = IF k \in P THEN Cardinality(P) ELSE Cardinality(P) + 1
    BY <1>1, FS_AddElement
  <2>4. /\ IsFiniteSet(Q) /\ Cardinality(Q) \in Nat
        /\ Cardinality(Q) <= Cardinality(P) + 1
    <3>1. IsFiniteSet(Q) /\ Cardinality(Q) <= Cardinality(P \cup {k})
      BY <1>4, <2>3, FS_Subset
    <3>2. Cardinality(Q) \in Nat
      BY <3>1, FS_CardinalityType
    <3> QED
      BY <1>1, <2>3, <3>1, <3>2
  <2> QED
    BY <1>1, <2>2, <2>4 DEF Fits
<1>5. CASE Cardinality(P) < M /\ Q \subseteq P
  <2>1. /\ IsFiniteSet(Q) /\ Cardinality(Q) \in Nat
        /\ Cardinality(Q) <= Cardinality(P)
    BY <1>1, <1>5, FS_Subset, FS_CardinalityType
  <2> QED
    BY <1>1, <1>5, <2>1 DEF Fits
<1> QED
  BY <1>2, <1>3, <1>4, <1>5 DEF MayBecome

\* What a step does to all servers and starts, and to those of user u.
AllMayBecome ==
  MayBecome(Pooled, StartsUnderWay, Pooled', StartsUnderWay', MaxTotal)

OfMayBecome(u) ==
  MayBecome(ServersOf(u), StartsFor(u), ServersOf(u)', StartsFor(u)', MaxPerUser)

LEMMA RoomKept ==
  ASSUME RoomInv, AllMayBecome, \A u \in Users : OfMayBecome(u),
         \A t \in Tasks : EvictsItsOwn(t)'
  PROVE  RoomInv'
<1>1. MaxTotal \in Nat /\ MaxPerUser \in Nat
  BY PoolAssumption
<1>2. /\ StartsUnderWay \in SUBSET Tasks /\ StartsUnderWay' \in SUBSET Tasks
      /\ \A u : StartsFor(u) \in SUBSET Tasks /\ StartsFor(u)' \in SUBSET Tasks
      /\ \A u : ServersOf(u) \subseteq Pooled
  BY DEF StartsUnderWay, StartsFor, ServersOf, Pooled
<1>3. RoomForAll'
  <2>1. Fits(Pooled, StartsUnderWay, MaxTotal)
    BY DEF RoomInv, RoomForAll, Fits
  <2>2. Fits(Pooled', StartsUnderWay', MaxTotal)
    BY <1>1, <1>2, <2>1, StillFits DEF AllMayBecome
  <2> QED
    BY <2>2 DEF RoomForAll, Fits
<1>4. ASSUME NEW u \in Users
      PROVE  RoomFor(u)'
  <2>1. IsFiniteSet(ServersOf(u))
    BY <1>2, FS_Subset DEF RoomInv, RoomForAll
  <2>2. Fits(ServersOf(u), StartsFor(u), MaxPerUser)
    BY <2>1 DEF RoomInv, RoomFor, Fits
  <2>3. Fits(ServersOf(u)', StartsFor(u)', MaxPerUser)
    BY <1>1, <1>2, <1>4, <2>2, StillFits DEF OfMayBecome
  <2> QED
    BY <2>3 DEF RoomFor, Fits
<1> QED
  BY <1>3, <1>4 DEF RoomInv

\* Where the entries of the pool go, all of them and those of one user.
LEMMA EntriesGo ==
  ASSUME \A k \in Keys : pool'[k] \in {pool[k], Nothing}
  PROVE  Pooled' \subseteq Pooled /\ \A u : ServersOf(u)' \subseteq ServersOf(u)
  BY DEF Pooled, ServersOf

\* A step that starts nothing and stores nothing.
LEMMA NothingStarts ==
  ASSUME RoomInv, \A k \in Keys : pool'[k] \in {pool[k], Nothing},
         StartsUnderWay' \subseteq StartsUnderWay,
         \A u \in Users : StartsFor(u)' \subseteq StartsFor(u),
         \A v \in Tasks : EvictsItsOwn(v)'
  PROVE  RoomInv'
  BY EntriesGo, RoomKept DEF AllMayBecome, OfMayBecome, MayBecome

\* If nobody but t moves, nobody but t begins to start, and what t is after
\* the step tells whether it does.
LEMMA OneMoves ==
  ASSUME RoomInv, NEW t \in Tasks, \A v \in Tasks \ {t} : task'[v] = task[v]
  PROVE  /\ StartsUnderWay' \subseteq StartsUnderWay \cup {t}
         /\ t \notin StartsUnderWay' => StartsUnderWay' \subseteq StartsUnderWay \ {t}
         /\ \A u : /\ StartsFor(u)' \subseteq StartsFor(u) \cup {t}
                   /\ t \notin StartsFor(u)' => StartsFor(u)' \subseteq StartsFor(u) \ {t}
         /\ EvictsItsOwn(t)' => \A v \in Tasks : EvictsItsOwn(v)'
<1>1. \A v \in Tasks \ {t} :
        /\ v \in StartsUnderWay' => v \in StartsUnderWay
        /\ \A u : v \in StartsFor(u)' => v \in StartsFor(u)
        /\ EvictsItsOwn(v)'
  BY DEF StartsUnderWay, StartsFor, EvictsItsOwn, RoomInv
<1>2. StartsUnderWay' \subseteq Tasks /\ \A u : StartsFor(u)' \subseteq Tasks
  BY DEF StartsUnderWay, StartsFor
<1> QED
  BY <1>1, <1>2

\* A call that does not start anything after the step.
LEMMA StartsNothing ==
  ASSUME RoomInv, NEW t \in Tasks, \A v \in Tasks \ {t} : task'[v] = task[v],
         task'[t].pc \in {"idle", "lock", "user", "call", "close"},
         task'[t].pc = "close" => task'[t].then \in {"user", "idle", "lock"},
         \A k \in Keys : pool'[k] \in {pool[k], Nothing}
  PROVE  RoomInv'
<1>1. t \notin StartsUnderWay' /\ \A u : t \notin StartsFor(u)'
  BY DEF StartsUnderWay, StartsFor
<1>2. EvictsItsOwn(t)'
  BY DEF EvictsItsOwn
<1> QED
  BY <1>1, <1>2, OneMoves, NothingStarts

\* The look at the global limit, by a call that passed its user's limit or
\* that does so in this step.
LEMMA RoomForAllStep ==
  ASSUME PoolInv, RoomInv, NEW t \in Tasks, MakeRoomForAll(t), pool' = pool,
         t \notin StartsUnderWay, task[t].key \in Keys,
         \/ t \in StartsFor(task[t].key[1])
         \/ Cardinality(ServersOf(task[t].key[1])) < MaxPerUser
  PROVE  RoomInv'
<1> DEFINE o == task[t].key[1]
<1>1. /\ \A v \in Tasks \ {t} : task'[v] = task[v]
      /\ task'[t].key = task[t].key
      /\ task'[t].pc \in {"start", "close"}
      /\ task'[t].pc = "close" => task'[t].then = "start"
      /\ task'[t].pc = "start" => ~(Cardinality(Pooled) >= MaxTotal)
  <2>1. CASE Cardinality(Pooled) >= MaxTotal
    <3>1. PICK k \in Pooled : Remove(t, k, "start")
      BY <2>1 DEF MakeRoomForAll
    <3> QED
      BY <3>1 DEF Remove, TaskRecord, PoolInv, TypeOK
  <2>2. CASE ~(Cardinality(Pooled) >= MaxTotal)
    BY <2>2 DEF MakeRoomForAll, At, TaskRecord, PoolInv, TypeOK
  <2> QED
    BY <2>1, <2>2
<1>2. Pooled' = Pooled /\ \A u : ServersOf(u)' = ServersOf(u)
  BY DEF Pooled, ServersOf
<1>3. AllMayBecome
  <2>1. CASE task'[t].pc = "start"
    <3>1. Cardinality(Pooled) \in Nat /\ MaxTotal \in Nat
      BY FS_CardinalityType, PoolAssumption DEF RoomInv, RoomForAll
    <3>2. Cardinality(Pooled) < MaxTotal
      BY <1>1, <2>1, <3>1
    <3> QED
      BY <1>2, <3>2 DEF AllMayBecome, MayBecome
  <2>2. CASE task'[t].pc = "close"
    <3>1. t \notin StartsUnderWay'
      BY <2>2 DEF StartsUnderWay
    <3> QED
      BY <1>1, <1>2, <3>1, OneMoves DEF AllMayBecome, MayBecome
  <2> QED
    BY <1>1, <2>1, <2>2
<1>4. ASSUME NEW u \in Users
      PROVE  OfMayBecome(u)
  <2>1. CASE u # o
    <3>1. t \notin StartsFor(u)'
      BY <1>1, <2>1 DEF StartsFor
    <3> QED
      BY <1>1, <1>2, <3>1, OneMoves DEF OfMayBecome, MayBecome
  <2>2. CASE u = o /\ t \in StartsFor(o)
    <3>1. StartsFor(u)' \subseteq StartsFor(u) \cup {t}
      BY <1>1, OneMoves
    <3> QED
      BY <1>2, <2>2, <3>1 DEF OfMayBecome, MayBecome
  <2>3. CASE u = o /\ Cardinality(ServersOf(o)) < MaxPerUser
    BY <1>2, <2>3 DEF OfMayBecome, MayBecome
  <2> QED
    BY <2>1, <2>2, <2>3
<1>5. \A v \in Tasks : EvictsItsOwn(v)'
  <2>1. EvictsItsOwn(t)'
    BY <1>1 DEF EvictsItsOwn
  <2> QED
    BY <1>1, <2>1, OneMoves
<1> QED
  BY <1>3, <1>4, <1>5, RoomKept

\* The look at both limits.
LEMMA RoomStep ==
  ASSUME PoolInv, RoomInv, NEW t \in Tasks, MakeRoom(t), pool' = pool,
         task[t].pc \in {"lock", "user"}
  PROVE  RoomInv'
<1> DEFINE o == task[t].key[1]
           mine == ServersOf(o)
<1>1. t \notin StartsUnderWay /\ task[t].key \in Keys
  BY DEF StartsUnderWay, PoolInv, TaskHolds, IsIdle
<1>2. IsFiniteSet(mine) /\ Cardinality(mine) \in Nat /\ MaxPerUser \in Nat
  <2>1. mine \subseteq Pooled /\ IsFiniteSet(Pooled)
    BY DEF ServersOf, Pooled, RoomInv, RoomForAll
  <2> QED
    BY <2>1, FS_Subset, FS_CardinalityType, PoolAssumption
<1>3. CASE Cardinality(mine) >= MaxPerUser
  <2>1. PICK k \in mine : Remove(t, k, "total")
    BY <1>3 DEF MakeRoom
  <2>2. /\ \A v \in Tasks \ {t} : task'[v] = task[v]
        /\ task'[t].key = task[t].key
        /\ task'[t].pc = "close" /\ task'[t].then = "total"
        /\ task'[t].victim = k
    BY <2>1 DEF Remove, TaskRecord, PoolInv, TypeOK
  <2>3. t \notin StartsUnderWay' /\ \A u : t \notin StartsFor(u)'
    BY <2>2 DEF StartsUnderWay, StartsFor
  <2>4. EvictsItsOwn(t)'
    BY <2>1, <2>2 DEF EvictsItsOwn, ServersOf
  <2> QED
    BY <2>2, <2>3, <2>4, OneMoves, NothingStarts
<1>4. CASE ~(Cardinality(mine) >= MaxPerUser)
  <2>1. Cardinality(mine) < MaxPerUser /\ MakeRoomForAll(t)
    BY <1>2, <1>4 DEF MakeRoom
  <2> QED
    BY <1>1, <2>1, RoomForAllStep
<1> QED
  BY <1>3, <1>4

\* A start is stored: it is a start no longer, and its key has an entry.
LEMMA StoreRoom ==
  ASSUME PoolInv, RoomInv, NEW t \in Tasks, Store(t)
  PROVE  RoomInv'
<1> DEFINE k == task[t].key
<1>1. /\ k \in Keys
      /\ \A j \in Keys \ {k} : pool'[j] = pool[j]
      /\ \A v \in Tasks \ {t} : task'[v] = task[v]
      /\ task'[t].pc = "call"
  BY DEF Store, PoolInv, TypeOK, TaskHolds, IsIdle, At, TaskRecord
<1>2. /\ t \in StartsUnderWay /\ t \in StartsFor(k[1])
      /\ t \notin StartsUnderWay' /\ \A u : t \notin StartsFor(u)'
  BY <1>1 DEF StartsUnderWay, StartsFor, Store
<1>3. /\ StartsUnderWay' \subseteq StartsUnderWay \ {t}
      /\ \A u : StartsFor(u)' \subseteq StartsFor(u) \ {t}
  BY <1>1, <1>2, OneMoves
<1>4. /\ Pooled' \subseteq Pooled \cup {k}
      /\ \A u : u = k[1] => ServersOf(u)' \subseteq ServersOf(u) \cup {k}
      /\ \A u : u # k[1] => ServersOf(u)' \subseteq ServersOf(u)
  BY <1>1 DEF Pooled, ServersOf
<1>5. AllMayBecome
  BY <1>2, <1>3, <1>4 DEF AllMayBecome, MayBecome
<1>6. ASSUME NEW u \in Users
      PROVE  OfMayBecome(u)
  <2>1. CASE u = k[1]
    BY <1>2, <1>3, <1>4, <2>1 DEF OfMayBecome, MayBecome
  <2>2. CASE u # k[1]
    BY <1>3, <1>4, <2>2 DEF OfMayBecome, MayBecome
  <2> QED
    BY <2>1, <2>2
<1>7. EvictsItsOwn(t)'
  BY <1>1 DEF EvictsItsOwn
<1> QED
  BY <1>1, <1>5, <1>6, <1>7, OneMoves, RoomKept

\* A removal ends: what was evicted for a start leaves its place to it.
LEMMA CloseEndsRoom ==
  ASSUME PoolInv, RoomInv, NEW t \in Tasks, CloseEnds(t)
  PROVE  RoomInv'
<1> DEFINE k == task[t].key
           x == task[t].victim
           n == task[t].then
<1>1. /\ task[t].pc = "close"
      /\ k \in Keys /\ x \in Keys /\ n \in Nexts
      /\ \A j \in Keys : pool'[j] = IF j = x THEN Nothing ELSE pool[j]
      /\ \A v \in Tasks \ {t} : task'[v] = task[v]
  BY TypeParts
     DEF CloseEnds, Drop, Retire, PoolInv, TypeOK, TaskHolds, IsIdle
<1>2. \A j \in Keys : pool'[j] \in {pool[j], Nothing}
  BY <1>1
<1>3. CASE pool[x] = Nothing \/ n = "idle"
  <2>1. task'[t].pc = "idle"
    BY <1>3 DEF CloseEnds, Retire, Idle, TaskRecord, PoolInv, TypeOK
  <2> QED
    BY <1>1, <1>2, <2>1, StartsNothing
<1>4. CASE ~(pool[x] = Nothing \/ n = "idle")
  <2> DEFINE rec == [At(t, n, Nothing) EXCEPT
                       !.lock = IF n = "lock" THEN lock[task[t].key] ELSE @]
  <2>1. task'[t] = rec
    BY <1>4 DEF CloseEnds, PoolInv, TypeOK
  <2>2. rec.pc = n /\ rec.key = k
    BY DEF At, TaskRecord
  <2> HIDE DEF rec
  <2>3. task'[t].pc = n /\ task'[t].key = k
    BY <2>1, <2>2
  <2>4. EvictsItsOwn(t)'
    BY <1>1, <2>3 DEF EvictsItsOwn, Nexts
  <2>5. CASE n \in {"user", "lock"}
    BY <1>1, <1>2, <2>3, <2>5, StartsNothing
  <2>6. CASE n = "total"
    <3>1. t \notin StartsUnderWay' /\ \A u : u # k[1] => t \notin StartsFor(u)'
      BY <2>3, <2>6 DEF StartsUnderWay, StartsFor
    <3>2. AllMayBecome
      BY <1>1, <1>2, <3>1, EntriesGo, OneMoves DEF AllMayBecome, MayBecome
    <3>3. ASSUME NEW u \in Users, u = k[1]
          PROVE  OfMayBecome(u)
      <4>1. x \in ServersOf(u)
        BY <1>1, <1>4, <2>6, <3>3 DEF ServersOf, RoomInv, EvictsItsOwn
      <4>2. ServersOf(u)' \subseteq ServersOf(u) \ {x}
        BY <1>1 DEF ServersOf
      <4>3. StartsFor(u)' \subseteq StartsFor(u) \cup {t}
        BY <1>1, OneMoves
      <4> QED
        BY <4>1, <4>2, <4>3 DEF OfMayBecome, MayBecome
    <3>4. ASSUME NEW u \in Users, u # k[1]
          PROVE  OfMayBecome(u)
      <4>1. ServersOf(u)' \subseteq ServersOf(u)
        BY <1>2, EntriesGo
      <4>2. StartsFor(u)' \subseteq StartsFor(u)
        BY <1>1, <3>1, <3>4, OneMoves
      <4> QED
        BY <4>1, <4>2 DEF OfMayBecome, MayBecome
    <3> QED
      BY <1>1, <2>4, <3>2, <3>3, <3>4, OneMoves, RoomKept
  <2>7. CASE n = "start"
    <3>1. AllMayBecome
      <4>1. x \in Pooled /\ Pooled' \subseteq Pooled \ {x}
        BY <1>1, <1>4 DEF Pooled
      <4>2. StartsUnderWay' \subseteq StartsUnderWay \cup {t}
        BY <1>1, OneMoves
      <4> QED
        BY <4>1, <4>2 DEF AllMayBecome, MayBecome
    <3>2. ASSUME NEW u \in Users
          PROVE  OfMayBecome(u)
      <4>1. ServersOf(u)' \subseteq ServersOf(u)
        BY <1>2, EntriesGo
      <4>2. t \in StartsFor(u)' => t \in StartsFor(u)
        BY <1>1, <2>3, <2>7 DEF StartsFor
      <4>3. StartsFor(u)' \subseteq StartsFor(u)
        BY <1>1, <4>2, OneMoves
      <4> QED
        BY <4>1, <4>3 DEF OfMayBecome, MayBecome
    <3> QED
      BY <1>1, <2>4, <3>1, <3>2, OneMoves, RoomKept
  <2> QED
    BY <1>1, <1>4, <2>5, <2>6, <2>7 DEF Nexts
<1> QED
  BY <1>3, <1>4

LEMMA AcquireRoom ==
  ASSUME PoolInv, RoomInv, NEW t \in Tasks, Acquire(t)
  PROVE  RoomInv'
<1> DEFINE k == task[t].key
<1>1. task[t].pc = "lock" /\ pool' = pool
  BY DEF Acquire
<1>2. CASE pool[k] = Nothing
  BY <1>1, <1>2, RoomStep DEF Acquire
<1>3. CASE pool[k] # Nothing /\ IsHealthy(pool[k])
  <2>1. task' = [task EXCEPT ![t] = At(t, "call", pool[k])]
    BY <1>3 DEF Acquire
  <2>2. task'[t].pc = "call" /\ \A v \in Tasks \ {t} : task'[v] = task[v]
    BY <2>1 DEF At, TaskRecord, PoolInv, TypeOK
  <2> QED
    BY <1>1, <2>2, StartsNothing
<1>4. CASE pool[k] # Nothing /\ ~IsHealthy(pool[k])
  <2>1. Remove(t, k, "user")
    BY <1>4 DEF Acquire
  <2>2. /\ task'[t].pc = "close" /\ task'[t].then = "user"
        /\ \A v \in Tasks \ {t} : task'[v] = task[v]
    BY <2>1 DEF Remove, TaskRecord, PoolInv, TypeOK
  <2> QED
    BY <1>1, <2>2, StartsNothing
<1> QED
  BY <1>2, <1>3, <1>4

LEMMA ProceedRoom ==
  ASSUME PoolInv, RoomInv, NEW t \in Tasks,
         Proceed(t) \/ Answered(t) \/ Cancelled(t)
  PROVE  RoomInv'
<1>1. CASE Continue(t)
  <2>1. pool' = pool
    BY <1>1 DEF Continue
  <2>2. CASE task[t].pc = "user" /\ MakeRoom(t)
    BY <2>1, <2>2, RoomStep
  <2>3. CASE task[t].pc = "total" /\ MakeRoomForAll(t)
    <3>1. task[t].key \in Keys
      BY <2>3 DEF PoolInv, TaskHolds, IsIdle
    <3>2. t \notin StartsUnderWay /\ t \in StartsFor(task[t].key[1])
      BY <2>3 DEF StartsUnderWay, StartsFor
    <3> QED
      BY <2>1, <2>3, <3>1, <3>2, RoomForAllStep
  <2> QED
    BY <1>1, <2>2, <2>3 DEF Continue
<1>2. ASSUME NEW w \in Wrappers, StartProcess(t, w)
      PROVE  RoomInv'
  <2>1. /\ pool' = pool /\ task[t].pc = "start" /\ task'[t].pc = "init"
        /\ task'[t].key = task[t].key
        /\ \A v \in Tasks \ {t} : task'[v] = task[v]
    BY <1>2 DEF StartProcess, At, TaskRecord, PoolInv, TypeOK
  <2>2. t \in StartsUnderWay /\ \A u : t \in StartsFor(u)' => t \in StartsFor(u)
    BY <2>1 DEF StartsUnderWay, StartsFor
  <2>3. EvictsItsOwn(t)'
    BY <2>1 DEF EvictsItsOwn
  <2>4. StartsUnderWay' \subseteq StartsUnderWay
    BY <2>1, <2>2, OneMoves
  <2>5. \A u : StartsFor(u)' \subseteq StartsFor(u)
    BY <2>1, <2>2, OneMoves
  <2> QED
    BY <2>1, <2>3, <2>4, <2>5, OneMoves, NothingStarts
<1>3. CASE StartFails(t) \/ UseWrapper(t) \/ Cancelled(t)
  <2>1. Retire(t) /\ \A k \in Keys : pool'[k] \in {pool[k], Nothing}
    BY <1>3 DEF StartFails, UseWrapper, Cancelled, Drop
  <2>2. task'[t].pc = "idle" /\ \A v \in Tasks \ {t} : task'[v] = task[v]
    BY <2>1 DEF Retire, Idle, TaskRecord, PoolInv, TypeOK
  <2> QED
    BY <2>1, <2>2, StartsNothing
<1> QED
  BY <1>1, <1>2, <1>3, StoreRoom, CloseEndsRoom DEF Proceed, Answered

\* The cleanup loop only takes away.
LEMMA SweepTakes ==
  ASSUME Sweep
  PROVE  task' = task /\ \A k \in Keys : pool'[k] \in {pool[k], Nothing}
<1>1. CASE SweepCloseEnds \/ SweepEnd
  BY <1>1 DEF SweepCloseEnds, SweepEnd, Drop
<1>2. CASE SweepRaises \/ SweepNext \/ \E u \in Users : SweepVisit(u)
  BY <1>2 DEF SweepRaises, SweepNext, SweepVisit
<1> QED
  BY <1>1, <1>2 DEF Sweep

LEMMA RoomInvStep ==
  ASSUME PoolInv, RoomInv, [Next]_vars
  PROVE  RoomInv'
<1>1. ASSUME NEW t \in Tasks, NEW k \in Keys, Request(t, k)
      PROVE  RoomInv'
  <2>1. /\ pool' = pool /\ task'[t].pc = "lock"
        /\ \A v \in Tasks \ {t} : task'[v] = task[v]
    BY <1>1 DEF Request, TaskRecord, PoolInv, TypeOK
  <2> QED
    BY <2>1, StartsNothing
<1>2. ASSUME NEW t \in Tasks, NEW k \in Keys, StopServer(t, k)
      PROVE  RoomInv'
  <2>1. /\ pool' = pool /\ task'[t].pc = "close"
        /\ task'[t].then \in {"idle", "lock"}
        /\ \A v \in Tasks \ {t} : task'[v] = task[v]
    BY <1>2 DEF StopServer, TaskRecord, PoolInv, TypeOK
  <2> QED
    BY <2>1, StartsNothing
<1>3. ASSUME task' = task, \A k \in Keys : pool'[k] \in {pool[k], Nothing}
      PROVE  RoomInv'
  <2>1. /\ StartsUnderWay' = StartsUnderWay
        /\ \A u : StartsFor(u)' = StartsFor(u)
        /\ \A v \in Tasks : EvictsItsOwn(v)'
    BY <1>3 DEF StartsUnderWay, StartsFor, EvictsItsOwn, RoomInv
  <2> QED
    BY <1>3, <2>1, NothingStarts
<1>4. CASE UNCHANGED <<pool, task>>
  BY <1>3, <1>4
<1> QED
  BY <1>1, <1>2, <1>3, <1>4, AcquireRoom, ProceedRoom, SweepTakes
     DEF Next, vars, GoesIdle, ProcessExits

LEMMA RoomInvInit == Init => RoomInv
<1> SUFFICES ASSUME Init PROVE RoomInv
  OBVIOUS
<1>1. /\ Pooled = {} /\ \A u : ServersOf(u) = {}
      /\ StartsUnderWay = {} /\ \A u : StartsFor(u) = {}
      /\ \A t \in Tasks : EvictsItsOwn(t)
  BY DEF Init, Pooled, ServersOf, StartsUnderWay, StartsFor, EvictsItsOwn, Idle,
         TaskRecord
<1>2. IsFiniteSet({}) /\ Cardinality({}) = 0 /\ Cardinality(Tasks) \in Nat
  BY TaskAssumption, FS_EmptySet, FS_CardinalityType
<1>3. MaxTotal \in Nat /\ MaxPerUser \in Nat /\ MaxTotal > 0 /\ MaxPerUser > 0
  BY PoolAssumption
<1> QED
  BY <1>1, <1>2, <1>3 DEF RoomInv, RoomForAll, RoomFor

LEMMA RoomInvGives == RoomInv => LimitsWithSlack
<1> SUFFICES ASSUME RoomInv PROVE LimitsWithSlack
  OBVIOUS
<1>1. /\ IsFiniteSet(Tasks) /\ Cardinality(Tasks) \in Nat
      /\ IsFiniteSet(StartsUnderWay) /\ Cardinality(StartsUnderWay) \in Nat
      /\ \A u : IsFiniteSet(StartsFor(u)) /\ Cardinality(StartsFor(u)) \in Nat
  <2>1. StartsUnderWay \subseteq Tasks /\ \A u : StartsFor(u) \subseteq Tasks
    BY DEF StartsUnderWay, StartsFor
  <2> QED
    BY <2>1, TaskAssumption, FS_Subset, FS_CardinalityType
<1>2. /\ Cardinality(Pooled) \in Nat
      /\ \A u : Cardinality(ServersOf(u)) \in Nat
  <2>1. \A u : ServersOf(u) \subseteq Pooled
    BY DEF ServersOf, Pooled
  <2> QED
    BY <2>1, FS_Subset, FS_CardinalityType DEF RoomInv, RoomForAll
<1>3. Cardinality(Pooled) <= MaxTotal + (Cardinality(Tasks) - 1)
  BY <1>1, <1>2, PoolAssumption DEF RoomInv, RoomForAll
<1>4. ASSUME NEW u \in Users
      PROVE  Cardinality(ServersOf(u)) <= MaxPerUser + (Cardinality(Tasks) - 1)
  BY <1>1, <1>2, PoolAssumption DEF RoomInv, RoomFor
<1> QED
  BY <1>3, <1>4 DEF LimitsWithSlack

\* The limits of the pool are looked at long before a server is stored, and
\* nothing is reserved meanwhile; still they are never passed by more than
\* the other calls under way, for any limits and any number of calls.
THEOREM LimitsHold == Spec => []LimitsWithSlack
<1>1. Init => PoolInv /\ RoomInv
  BY PoolInvInit, RoomInvInit
<1>2. PoolInv /\ RoomInv /\ [Next]_vars => (PoolInv /\ RoomInv)'
  BY PoolInvStep, RoomInvStep
<1>3. RoomInv => LimitsWithSlack
  BY RoomInvGives
<1> QED
  BY <1>1, <1>2, <1>3, PTL DEF Spec
=============================================================================
