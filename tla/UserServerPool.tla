---------------------------- MODULE UserServerPool ----------------------------
(***************************************************************************)
(* The pool of MCP servers that run on behalf of each user: starting one   *)
(* under a lock of its own, the two limits with eviction of the least      *)
(* recently used, stop and restart, and the background cleanup loop.       *)
(*                                                                         *)
(* A task is a coroutine inside the pool.  Every action is what it does    *)
(* between two awaits that really suspend: waiting for a lock, for a       *)
(* server to come up, for a process to go down.  Locks guard starts only;  *)
(* evictions, stops, restarts and the cleanup loop close what they like.   *)
(*                                                                         *)
(* Abstractions.  last_used is an order, not a time: older[k] are the keys *)
(* used less recently than k.  A server the cleanup loop may take, because *)
(* it is idle for too long or no longer in the database, is a member of    *)
(* idle.  The semantic index, tool lists and statuses in the database are  *)
(* left out, and so is the shutdown of the pool.                           *)
(*                                                                         *)
(* The operators marked "Seeded fault" are the definition below them with  *)
(* a plausible bug in it.  No behaviour of Spec uses them.                 *)
(***************************************************************************)
EXTENDS Naturals, FiniteSets

CONSTANTS
  Users, Servers,
  Tasks,        \* bound: coroutines inside the pool at the same time
  Wrappers,     \* bound: wrapper objects somebody still holds
  Locks,        \* bound: lock objects alive for one key
  Nothing,      \* "no wrapper", "no key"
  MaxPerUser,   \* max_servers_per_user
  MaxTotal      \* max_total_servers

ASSUME PoolAssumption ==
  /\ MaxPerUser \in Nat \ {0}
  /\ MaxTotal \in Nat \ {0}
  /\ Nothing \notin Wrappers \cup (Users \X Servers)

\* A process has finitely many coroutines.
ASSUME TaskAssumption == IsFiniteSet(Tasks)

Keys == Users \X Servers

VARIABLES
  pool,    \* _servers: the wrapper under a key
  users,   \* the users that have a dictionary in _servers
  older,   \* last_used, as an order
  idle,    \* keys the cleanup loop may take
  lock,    \* _start_locks: the lock object the next caller for a key gets
  proc,    \* the process behind a wrapper
  madeFor, \* the key whose configuration and credentials a wrapper has
  task,    \* the coroutines
  sweep    \* the cleanup loop

vars == <<pool, users, older, idle, lock, proc, madeFor, task, sweep>>

-----------------------------------------------------------------------------
(* Data *)

ServersOf(u) == {k \in Keys : k[1] = u /\ pool[k] # Nothing}

Pooled == {k \in Keys : pool[k] # Nothing}

\* The least recently used of a set of keys.
IsLRU(k, S) == k \in S /\ older[k] \cap S = {}

\* k becomes the most recently used key.
Touch(k) ==
  /\ older' = [j \in Keys |-> IF j = k THEN Pooled \ {k} ELSE older[j] \ {k}]
  /\ idle' = idle \ {k}

\* K leaves the pool.
Drop(K) ==
  /\ pool' = [k \in Keys |-> IF k \in K THEN Nothing ELSE pool[k]]
  /\ older' = [k \in Keys |-> IF k \in K THEN {} ELSE older[k] \ K]
  /\ idle' = idle \ K

\* wrapper.close() up to its first await: the process is told to end.
AfterTerminate(w) == [proc EXCEPT ![w] = IF @ = "live" THEN "closing" ELSE @]

\* _is_server_healthy: there is a process and it has not ended yet; one that
\* is about to end passes.
IsHealthy(w) == proc[w] \in {"live", "closing"}

-----------------------------------------------------------------------------
(* Tasks.  pc: lock, waiting for the start lock; user, total, start, the    *)
(* stages of a start; init, waiting for the new server; close, waiting for  *)
(* one to end; call, using a wrapper.  then: where close leads to.          *)

Pcs == {"idle", "lock", "user", "total", "start", "init", "close", "call"}

Nexts == {"user", "total", "start", "lock", "idle"}

TaskRecord(pc, k, l, w, victim, then) ==
  [pc |-> pc, key |-> k, lock |-> l, wrapper |-> w, victim |-> victim, then |-> then]

Idle == TaskRecord("idle", Nothing, Nothing, Nothing, Nothing, "idle")

IsIdle(t) == task[t].pc = "idle"

Retire(t) == task' = [task EXCEPT ![t] = Idle]

At(t, pc, w) ==
  TaskRecord(pc, task[t].key, task[t].lock, w, Nothing, "idle")

\* Inside `async with lock`.
InLock(t) ==
  \/ task[t].pc \in {"user", "total", "start", "init"}
  \/ task[t].pc = "close" /\ task[t].then \in {"user", "total", "start"}

LockIsFree(k, l) ==
  ~ \E t \in Tasks : InLock(t) /\ task[t].key = k /\ task[t].lock = l

\* Somebody still holds a reference to wrapper w.
InUse(w) ==
  \/ \E k \in Keys : pool[k] = w
  \/ \E t \in Tasks : task[t].wrapper = w
  \/ sweep.wrapper = w

\* The wrappers after a step: p tells their processes, m their keys.  One
\* that nobody holds any more is not represented; if its process lives on,
\* it does so out of the reach of the pool.
Wrapped(p, m) ==
  /\ proc' = [w \in Wrappers |-> IF InUse(w)' THEN p[w] ELSE "gone"]
  /\ madeFor' = [w \in Wrappers |-> IF InUse(w)' THEN m[w] ELSE Nothing]
-----------------------------------------------------------------------------
(* get_or_start_server *)

\* _get_or_create_lock, then wait for the lock.
Request(t, k) ==
  /\ IsIdle(t)
  /\ task' = [task EXCEPT ![t] =
                TaskRecord("lock", k, lock[k], Nothing, Nothing, "idle")]
  /\ UNCHANGED <<pool, users, older, idle, lock, proc, madeFor, sweep>>

\* _remove_user_server(k), up to the end of the process.
Remove(t, k, then) ==
  /\ proc' = AfterTerminate(pool[k])
  /\ task' = [task EXCEPT ![t] =
                TaskRecord("close", task[t].key, task[t].lock, pool[k], k, then)]

\* The global limit: evict the least recently used server of all.
MakeRoomForAll(t) ==
  IF Cardinality(Pooled) >= MaxTotal
    THEN \E k \in Pooled : IsLRU(k, Pooled) /\ Remove(t, k, "start")
    ELSE /\ task' = [task EXCEPT ![t] = At(t, "start", Nothing)]
         /\ UNCHANGED proc

\* Seeded fault: the limits are not looked at.
MakeRoomNever(t) ==
  /\ task' = [task EXCEPT ![t] = At(t, "start", Nothing)]
  /\ UNCHANGED proc

\* The limit of the user, then the global one.
MakeRoom(t) ==
  LET mine == ServersOf(task[t].key[1]) IN
  IF Cardinality(mine) >= MaxPerUser
    THEN \E k \in mine : IsLRU(k, mine) /\ Remove(t, k, "total")
    ELSE MakeRoomForAll(t)

\* Seeded fault: a server that runs for another user will do.
AcquireAnyUsers(t) ==
  LET k == task[t].key IN
  /\ task[t].pc = "lock"
  /\ LockIsFree(k, task[t].lock)
  /\ \/ \E j \in Pooled :
          /\ j[2] = k[2]
          /\ task' = [task EXCEPT ![t] = At(t, "call", pool[j])]
          /\ UNCHANGED proc
     \/ pool[k] = Nothing /\ MakeRoom(t)
  /\ UNCHANGED <<pool, users, older, idle, lock, madeFor, sweep>>

\* The lock is ours: reuse the server, replace it if its process ended, or
\* make room for a new one.
Acquire(t) ==
  LET k == task[t].key IN
  /\ task[t].pc = "lock"
  /\ LockIsFree(k, task[t].lock)
  /\ \/ /\ pool[k] # Nothing
        /\ IsHealthy(pool[k])
        /\ Touch(k)
        /\ task' = [task EXCEPT ![t] = At(t, "call", pool[k])]
        /\ UNCHANGED proc
     \/ /\ pool[k] # Nothing
        /\ ~IsHealthy(pool[k])
        /\ Remove(t, k, "user")
        /\ UNCHANGED <<older, idle>>
     \/ /\ pool[k] = Nothing
        /\ MakeRoom(t)
        /\ UNCHANGED <<older, idle>>
  /\ UNCHANGED <<pool, users, lock, madeFor, sweep>>

\* After the removal of an ended server, or of an evicted one.
Continue(t) ==
  /\ \/ task[t].pc = "user" /\ MakeRoom(t)
     \/ task[t].pc = "total" /\ MakeRoomForAll(t)
  /\ UNCHANGED <<pool, users, older, idle, lock, madeFor, sweep>>

\* _start_server_internal: configuration, credentials, and a new process.
StartProcess(t, w) ==
  /\ task[t].pc = "start"
  /\ proc[w] = "gone"
  /\ proc' = [proc EXCEPT ![w] = "live"]
  /\ madeFor' = [madeFor EXCEPT ![w] = task[t].key]
  /\ task' = [task EXCEPT ![t] = At(t, "init", w)]
  /\ UNCHANGED <<pool, users, older, idle, lock, sweep>>

\* Unknown server, failed installation, failed handshake, database error.
\* Nothing closes a process that has been started already.
StartFails(t) ==
  /\ task[t].pc \in {"start", "init"}
  /\ Retire(t)
  /\ UNCHANGED <<pool, users, older, idle, lock, sweep>>
  /\ Wrapped(proc, madeFor)

\* Seeded fault: the dictionary is made under the id of the server.
StoreUnderServer(t) ==
  LET k == task[t].key IN
  /\ task[t].pc = "init"
  /\ pool' = [pool EXCEPT ![k] = task[t].wrapper]
  /\ users' = users \cup {k[2]}
  /\ Touch(k)
  /\ task' = [task EXCEPT ![t] = At(t, "call", task[t].wrapper)]
  /\ UNCHANGED <<lock, sweep>>
  /\ Wrapped(proc, madeFor)

\* The server is up: it is stored in the pool, whatever is there.
Store(t) ==
  LET k == task[t].key IN
  /\ task[t].pc = "init"
  /\ pool' = [pool EXCEPT ![k] = task[t].wrapper]
  /\ users' = users \cup {k[1]}
  /\ Touch(k)
  /\ task' = [task EXCEPT ![t] = At(t, "call", task[t].wrapper)]
  /\ UNCHANGED <<lock, sweep>>
  /\ Wrapped(proc, madeFor)

\* The caller goes, after a call_tool or without one.  call_tool initializes
\* a wrapper that was closed meanwhile, and so starts its process again.
UseWrapper(t) ==
  LET w == task[t].wrapper IN
  /\ task[t].pc = "call"
  /\ Retire(t)
  /\ UNCHANGED <<pool, users, older, idle, lock, sweep>>
  /\ \/ Wrapped(proc, madeFor)
     \/ Wrapped([proc EXCEPT ![w] = IF @ = "closed" THEN "live" ELSE @], madeFor)

\* The timeout of a composition step cancels the call wherever it waits: its
\* lock is released, and the `finally` of a removal deletes the entry although
\* close() did not return.
Cancelled(t) ==
  /\ task[t].pc \in {"lock", "call"} \/ InLock(t)
  /\ IF task[t].pc = "close"
       THEN Drop({task[t].victim})
       ELSE UNCHANGED <<pool, older, idle>>
  /\ Retire(t)
  /\ UNCHANGED <<users, lock, sweep>>
  /\ Wrapped(proc, madeFor)

-----------------------------------------------------------------------------
(* Removing a server *)

\* stop_user_server and restart_user_server take no lock.
StopServer(t, k) ==
  /\ IsIdle(t)
  /\ pool[k] # Nothing
  /\ \E then \in {"idle", "lock"} :
       /\ proc' = AfterTerminate(pool[k])
       /\ task' = [task EXCEPT ![t] =
                     TaskRecord("close", k, Nothing, pool[k], k, then)]
  /\ UNCHANGED <<pool, users, older, idle, lock, madeFor, sweep>>

\* wrapper.close() returns.  A process that had ended before it was told to
\* makes close() raise, which leaves the wrapper as it is.
Closed(w) ==
  \/ Wrapped([proc EXCEPT ![w] = "closed"], madeFor)
  \/ proc[w] = "exited" /\ Wrapped(proc, madeFor)

\* Seeded fault: the entry stays in the pool.
CloseEndsKeepsEntry(t) ==
  LET then == task[t].then IN
  /\ task[t].pc = "close"
  /\ IF then = "idle"
       THEN Retire(t)
       ELSE task' = [task EXCEPT ![t] =
                [At(t, then, Nothing) EXCEPT
                   !.lock = IF then = "lock" THEN lock[task[t].key] ELSE @]]
  /\ UNCHANGED <<pool, users, older, idle, lock, sweep>>
  /\ Closed(task[t].wrapper)

\* Seeded fault: a KeyError is answered by closing once more.
CloseEndsRetries(t) ==
  LET k == task[t].victim IN
  /\ task[t].pc = "close"
  /\ Drop({k})
  /\ IF task[t].then = "idle" /\ pool[k] # Nothing
       THEN Retire(t)
       ELSE task' = [task EXCEPT ![t] = IF pool[k] = Nothing THEN @
                                        ELSE At(t, task[t].then, Nothing)]
  /\ UNCHANGED <<users, lock, sweep>>
  /\ Closed(task[t].wrapper)

\* The end of _remove_user_server deletes what is under the key now; if
\* there is nothing left to delete, the KeyError ends the coroutine.
CloseEnds(t) ==
  LET k == task[t].victim
      then == task[t].then
  IN
  /\ task[t].pc = "close"
  /\ Drop({k})
  /\ IF pool[k] = Nothing \/ then = "idle"
       THEN Retire(t)
       ELSE task' = [task EXCEPT ![t] =
                [At(t, then, Nothing) EXCEPT
                   !.lock = IF then = "lock" THEN lock[task[t].key] ELSE @]]
  /\ UNCHANGED <<users, lock, sweep>>
  /\ Closed(task[t].wrapper)

-----------------------------------------------------------------------------
(* The cleanup loop.  users: the dictionary when the iteration began; left: *)
(* users not reached yet; todo: servers of user still to be removed; empty: *)
(* users found without servers.                                             *)

Asleep == [pc |-> "asleep", users |-> {}, left |-> {}, user |-> Nothing,
           todo |-> {}, empty |-> {}, wrapper |-> Nothing, victim |-> Nothing]

WithoutServers(U) == {v \in U : ServersOf(v) = {}}

IdleOf(u) == {k \in ServersOf(u) : k \in idle}

\* What is still to be removed of the user the loop is at.
StillThere == {k \in sweep.todo : pool[k] # Nothing}

\* The loop is about to reach for a user: it begins an iteration, or it is
\* through with the servers of the last one.
BetweenUsers ==
  \/ sweep.pc = "asleep"
  \/ sweep.pc = "next" /\ StillThere = {}

Round ==
  IF sweep.pc = "asleep"
    THEN [Asleep EXCEPT !.users = users, !.left = users]
    ELSE [sweep EXCEPT !.empty = @ \cup WithoutServers({sweep.user})]

\* The dictionary grew during an await: the iteration raises.
SweepRaises ==
  /\ BetweenUsers
  /\ users # Round.users
  /\ sweep' = Asleep
  /\ UNCHANGED <<pool, users, older, idle, lock, proc, madeFor, task>>

SweepRemove(k, s) ==
  /\ proc' = AfterTerminate(pool[k])
  /\ sweep' = [s EXCEPT !.pc = "close", !.todo = @ \ {k}, !.victim = k,
                        !.wrapper = pool[k]]

\* Users with nothing to remove are passed by until one has a server to
\* close; the order is that of the dictionary.
SweepVisit(u) ==
  /\ BetweenUsers
  /\ users = Round.users
  /\ u \in Round.left
  /\ \E passed \in SUBSET {v \in Round.left : IdleOf(v) = {}}, k \in IdleOf(u) :
       SweepRemove(k, [Round EXCEPT
         !.left = @ \ (passed \cup {u}),
         !.user = u,
         !.todo = IdleOf(u),
         !.empty = @ \cup WithoutServers(passed)])
  /\ UNCHANGED <<pool, users, older, idle, lock, madeFor, task>>

\* The server is closed; a KeyError abandons the whole iteration.
SweepCloseEnds ==
  LET k == sweep.victim IN
  /\ sweep.pc = "close"
  /\ Drop({k})
  /\ sweep' = IF pool[k] = Nothing
                THEN Asleep
                ELSE [sweep EXCEPT !.pc = "next", !.wrapper = Nothing,
                                   !.victim = Nothing]
  /\ UNCHANGED <<users, lock, task>>
  /\ Closed(sweep.wrapper)

\* The next server of the same user, if it is still there.
SweepNext ==
  /\ sweep.pc = "next"
  /\ \E k \in StillThere : SweepRemove(k, sweep)
  /\ UNCHANGED <<pool, users, older, idle, lock, madeFor, task>>

\* Tasks that hold or wait for lock object l of key k.
HasReference(k, l) ==
  \E t \in Tasks : task[t].key = k /\ task[t].lock = l

\* The locks of users without a dictionary are dropped; if somebody still
\* refers to the old object, the next caller gets another one.
DropLocks(gone) ==
  LET dropped(k) == k[1] \in gone /\ HasReference(k, lock[k]) IN
  /\ \A k \in Keys : dropped(k) => \E l \in Locks : ~HasReference(k, l)
  /\ lock' = [k \in Keys |->
                IF dropped(k) THEN CHOOSE l \in Locks : ~HasReference(k, l)
                ELSE lock[k]]

\* Everybody was visited: users found empty lose their dictionary, with
\* whatever was stored there since.
SweepEnd ==
  LET empty == Round.empty \cup WithoutServers(Round.left) IN
  /\ BetweenUsers
  /\ users = Round.users
  /\ \A v \in Round.left : IdleOf(v) = {}
  /\ users' = users \ empty
  /\ Drop({k \in Keys : k[1] \in empty})
  /\ DropLocks(Users \ users')
  /\ sweep' = Asleep
  /\ UNCHANGED task
  /\ Wrapped(proc, madeFor)

-----------------------------------------------------------------------------
(* Environment *)

\* A server was not used for cleanup_timeout, or is deleted in the database.
GoesIdle(k) ==
  /\ pool[k] # Nothing
  /\ k \notin idle
  /\ idle' = idle \cup {k}
  /\ UNCHANGED <<pool, users, older, lock, proc, madeFor, task, sweep>>

\* A process ends by itself, or after it was told to.
ProcessExits(w) ==
  /\ proc[w] \in {"live", "closing"}
  /\ proc' = [proc EXCEPT ![w] = "exited"]
  /\ UNCHANGED <<pool, users, older, idle, lock, madeFor, task, sweep>>

Init ==
  /\ pool = [k \in Keys |-> Nothing]
  /\ users = {}
  /\ older = [k \in Keys |-> {}]
  /\ idle = {}
  /\ lock \in {[k \in Keys |-> l] : l \in Locks}
  /\ proc = [w \in Wrappers |-> "gone"]
  /\ madeFor = [w \in Wrappers |-> Nothing]
  /\ task = [t \in Tasks |-> Idle]
  /\ sweep = Asleep

\* What a coroutine does by itself within a bounded time: close() waits for
\* the process at most 5 s, and then kills it.
Proceed(t) == Continue(t) \/ CloseEnds(t)

\* What it does when a server, an installer or the database answers.
Answered(t) ==
  \/ \E w \in Wrappers : StartProcess(t, w)
  \/ StartFails(t)
  \/ Store(t)
  \/ UseWrapper(t)

Sweep ==
  \/ SweepRaises
  \/ \E u \in Users : SweepVisit(u)
  \/ SweepCloseEnds
  \/ SweepNext
  \/ SweepEnd

Next ==
  \/ \E t \in Tasks, k \in Keys : Request(t, k) \/ StopServer(t, k)
  \/ \E t \in Tasks : Acquire(t) \/ Proceed(t) \/ Answered(t) \/ Cancelled(t)
  \/ Sweep
  \/ \E k \in Keys : GoesIdle(k)
  \/ \E w \in Wrappers : ProcessExits(w)

Spec == Init /\ [][Next]_vars

\* close() is bounded, and asyncio.Lock serves its waiters in order.  Nothing
\* is assumed of a start or of a call: while a server comes up, stderr.read()
\* (mcp_wrapper.py:162, 249) waits for whoever holds the pipe, drain() (356)
\* for a server that reads, the installer and the database for as long as they
\* take, all of it under the start lock.
Fairness == \A t \in Tasks : WF_vars(Proceed(t)) /\ SF_vars(Acquire(t))

FairSpec == Spec /\ Fairness
-----------------------------------------------------------------------------
(* Properties *)

TaskRecords ==
  [pc : Pcs, key : Keys \cup {Nothing}, lock : Locks \cup {Nothing},
   wrapper : Wrappers \cup {Nothing}, victim : Keys \cup {Nothing}, then : Nexts]

SweepRecords ==
  [pc : {"asleep", "close", "next"}, users : SUBSET Users, left : SUBSET Users,
   user : Users \cup {Nothing}, todo : SUBSET Keys, empty : SUBSET Users,
   wrapper : Wrappers \cup {Nothing}, victim : Keys \cup {Nothing}]

TypeOK ==
  /\ pool \in [Keys -> Wrappers \cup {Nothing}]
  /\ users \subseteq Users
  /\ older \in [Keys -> SUBSET Keys]
  /\ idle \subseteq Keys
  /\ lock \in [Keys -> Locks]
  /\ proc \in [Wrappers -> {"gone", "live", "closing", "exited", "closed"}]
  /\ madeFor \in [Wrappers -> Keys \cup {Nothing}]
  /\ task \in [Tasks -> TaskRecords]
  /\ sweep \in SweepRecords

\* A user is only ever served by processes that were started with that
\* user's credentials and for the server asked for, whatever is evicted,
\* replaced and started again in between.
OwnServerOnly ==
  /\ \A k \in Keys : pool[k] # Nothing => madeFor[pool[k]] = k
  /\ \A t \in Tasks : task[t].pc = "call" => madeFor[task[t].wrapper] = task[t].key

\* What the pool holds was not closed for good: no race of removals leaves
\* an entry behind whose process it has ended.
PooledIsOpen == \A k \in Keys : pool[k] # Nothing => proc[pool[k]] # "closed"

\* Both limits are looked at before the server that counts is started, so
\* they can be passed; but only by as many servers as there are other calls
\* at the same time, however often that happens.
LimitsWithSlack ==
  LET slack == Cardinality(Tasks) - 1 IN
  /\ \A u \in Users : Cardinality(ServersOf(u)) <= MaxPerUser + slack
  /\ Cardinality(Pooled) <= MaxTotal + slack

\* The lock prevents concurrent starts of one server for one user.
OneStartPerServer ==
  \A t, u \in Tasks :
    task[t].pc = "init" /\ task[u].pc = "init" /\ task[t].key = task[u].key => t = u

\* If no start and no use of a server hangs for ever, every call into the
\* pool comes to an end, by itself and not by a timeout of its caller: nobody
\* waits for a lock while holding one, although the coroutine that holds the
\* start lock of one server evicts others, which may be starting again, and no
\* waiter is passed over for ever.
CallsReturn ==
  (\A t \in Tasks : []<>(task[t].pc \notin {"start", "init", "call"}))
    => \A t \in Tasks : []<>IsIdle(t)
-----------------------------------------------------------------------------
(* Inductive strengthening: what the proofs add to the properties above     *)

\* Whoever holds a wrapper holds one whose process was started.
HeldWasStarted == \A w \in Wrappers : InUse(w) => proc[w] # "gone"

\* What each program point knows of its wrapper.  The one a start waits for
\* is nobody else's yet.
TaskHolds(t) ==
  LET w == task[t].wrapper IN
  /\ ~IsIdle(t) => task[t].key \in Keys
  /\ task[t].pc = "call" => w \in Wrappers /\ madeFor[w] = task[t].key
  /\ task[t].pc = "close" =>
       w \in Wrappers /\ task[t].victim \in Keys /\ madeFor[w] = task[t].victim
  /\ task[t].pc = "init" =>
       /\ w \in Wrappers
       /\ madeFor[w] = task[t].key
       /\ proc[w] \in {"live", "exited"}
       /\ \A k \in Keys : pool[k] # w
       /\ \A u \in Tasks : u # t => task[u].wrapper # w
       /\ sweep.wrapper # w

SweepHolds ==
  /\ sweep.pc = "close" =>
       /\ sweep.wrapper \in Wrappers
       /\ sweep.victim \in Keys
       /\ madeFor[sweep.wrapper] = sweep.victim
  /\ sweep.pc \in {"close", "next"} => sweep.user \in Users

PoolInv ==
  /\ TypeOK
  /\ HeldWasStarted
  /\ \A t \in Tasks : TaskHolds(t)
  /\ SweepHolds
  /\ OwnServerOnly
  /\ PooledIsOpen

\* Starts that have passed the global limit, and those that have passed the
\* limit of user u.
StartsUnderWay == {t \in Tasks : task[t].pc \in {"start", "init"}}

StartsFor(u) ==
  {t \in Tasks :
     /\ \/ task[t].pc \in {"total", "start", "init"}
        \/ task[t].pc = "close" /\ task[t].then = "start"
     /\ task[t].key[1] = u}

\* A start counts from the moment it passed a limit.  Whoever evicts for a
\* limit takes the place of what it evicts.
RoomForAll ==
  /\ IsFiniteSet(Pooled)
  /\ Cardinality(Pooled) + Cardinality(StartsUnderWay) < MaxTotal + Cardinality(Tasks)

RoomFor(u) ==
  Cardinality(ServersOf(u)) + Cardinality(StartsFor(u)) < MaxPerUser + Cardinality(Tasks)

EvictsItsOwn(t) ==
  task[t].pc = "close" /\ task[t].then = "total" => task[t].victim[1] = task[t].key[1]

RoomInv ==
  /\ RoomForAll
  /\ \A u \in Users : RoomFor(u)
  /\ \A t \in Tasks : EvictsItsOwn(t)
=============================================================================
