----------------------------- MODULE StdioWrapper -----------------------------
(* StdioMCPWrapper of app/core/mcp_wrapper.py: one wrapper multiplexes the     *)
(* calls of several coroutines over the pipes of one MCP server process.       *)
(*                                                                             *)
(* A call registers a future under a fresh request id, writes the request      *)
(* under the send lock and waits for the future; a reader task hands each      *)
(* response to the future registered under its id.  Callers initialize a       *)
(* wrapper that is not: the pool initializes before it hands a wrapper out,    *)
(* but a wrapper closed in the meantime is started again by the next call.     *)
(* Nothing serializes those starts, nor a start and a close.                   *)
(*                                                                             *)
(* An action runs from one suspension of a coroutine to the next; acquiring a  *)
(* free asyncio lock does not suspend, and the pending lock is never held      *)
(* across a suspension, so it needs no state.  A reader that is cancelled is   *)
(* over at once.  Left out: the contents of requests and results.              *)
EXTENDS Naturals, FiniteSets

CONSTANTS
  Callers,      \* coroutines in call_tool (or list_tools)
  Closers,      \* coroutines that call close(), once each
  Timed,        \* those that are cancelled if they take too long: composition steps
  MaxCalls,     \* bound on the calls of one caller
  MaxSpawn,     \* bound on the processes ever started
  OwnIds,       \* the ids under which a server sends messages of its own
  Npx,          \* whether the command is npx, which has a fallback
  None          \* no caller, or the server

ASSUME BoundsAreNaturals == MaxCalls \in Nat /\ MaxSpawn \in Nat
ASSUME OwnIdsAreNaturals == OwnIds \subseteq Nat
ASSUME NpxIsBoolean == Npx \in BOOLEAN
ASSUME NoneIsNoCaller == None \notin Callers
(* A process has finitely many coroutines. *)
ASSUME FinitelyMany == IsFiniteSet(Callers) /\ IsFiniteSet(Closers)

VARIABLES
  process,      \* self._process: a process by its number, 0 for None
  initialized,  \* self._initialized
  requestId,    \* self._request_id
  pending,      \* self._pending_requests: who waits under which id
  sendLock,     \* who holds self._send_lock
  readerTask,   \* self._reader_task, 0 for None
  pc,           \* where each caller is suspended
  method,       \* what the caller's request asks for
  request,      \* the request the caller has sent last
  future,       \* the state of that request's future
  got,          \* the response the future holds once it is "answered"
  calls,        \* calls begun by each caller
  closing,      \* what each closer does
  target,       \* the process it waits for
  held,         \* the process a caller has in hand: one it has started and not
                \* stored yet, or the one it cleans up
  running,      \* the processes alive
  spawned,      \* how many were ever started
  reader,       \* what each reader task does, the stream it reads
  on,
  sent,         \* the requests written to a process
  astray        \* history: two starts or closes were in progress at once, or a
                \* start was cancelled with its process in hand

wrapper == <<process, initialized, requestId, pending, sendLock, readerTask>>
caller == <<pc, method, request, future, got, calls>>
closer == <<closing, target>>
server == <<held, running, spawned, sent>>
readers == <<reader, on>>
vars == <<wrapper, caller, closer, server, readers, astray>>

Procs == 1 .. MaxSpawn
MaybeProc == 0 .. MaxSpawn
Methods == {"initialize", "tools/call"}
Futures == {"unset", "answered", "failed", "closed"}
Places == {"idle", "spawn", "nap", "exitread", "fallback", "fallbackread",
           "lock", "drain", "wait", "stderr", "cleanup"}
Requests == [id : Nat, proc : MaybeProc, by : Callers, call : Nat, method : Methods]
FromServer == [id : Nat, proc : MaybeProc, by : {None}, call : {0}, method : {"none"}]
Entry == [id : Nat, by : Callers \cup {None}]

(* No request: what a caller holds before its first one. *)
NoRequest(c) == [id |-> 0, proc |-> 0, by |-> c, call |-> 0, method |-> "initialize"]

Init ==
  /\ process = 0 /\ initialized = FALSE /\ requestId = 0 /\ pending = {}
  /\ sendLock = None /\ readerTask = 0
  /\ pc = [c \in Callers |-> "idle"]
  /\ method = [c \in Callers |-> "initialize"]
  /\ request = [c \in Callers |-> NoRequest(c)]
  /\ future = [c \in Callers |-> "unset"]
  /\ got = [c \in Callers |-> NoRequest(c)]
  /\ calls = [c \in Callers |-> 0]
  /\ closing = [k \in Closers |-> "ready"]
  /\ target = [k \in Closers |-> 0]
  /\ held = [c \in Callers |-> 0]
  /\ running = {} /\ spawned = 0
  /\ reader = [r \in Procs |-> "none"] /\ on = [r \in Procs |-> 0]
  /\ sent = {}
  /\ astray = FALSE

Starting ==
  {c \in Callers : pc[c] \in {"spawn", "nap", "exitread", "fallback", "fallbackread",
                              "stderr", "cleanup"}}
Closing == {k \in Closers : closing[k] = "closing"}

(****************************************************************************)
(* The futures.                                                             *)
(****************************************************************************)

(* The futures registered in pending that are not done fail, and the          *)
(* registrations are dropped: close and the end of a reader.                  *)
FailPending(how) ==
  /\ future' = [c \in Callers |->
                  IF future[c] = "unset" /\ \E e \in pending : e.by = c
                    THEN how ELSE future[c]]
  /\ pending' = {}

(* Seeded fault: id and future swapped in the table. *)
RegisteredSwapped(i, c, others) == {e \in others : e.id # i} \cup {[id |-> c, by |-> i]}

(* The table with caller c registered under id i. *)
Registered(i, c, others) == {e \in others : e.id # i} \cup {[id |-> i, by |-> c]}

(* The registration of a caller who no longer awaits its future. *)
Disowned(c) == {IF e.id = request[c].id THEN [e EXCEPT !.by = None] ELSE e : e \in pending}

(* The finally of _send_request: the caller's registration goes. *)
Without(c) == {e \in pending : e.id # request[c].id}

(* The local variables of a call: the future and the request it belongs to.   *)
Forget(c) ==
  /\ request' = [request EXCEPT ![c] = NoRequest(c)]
  /\ got' = [got EXCEPT ![c] = NoRequest(c)]
  /\ future' = [future EXCEPT ![c] = "unset"]

(* A call ends, with a result or an exception. *)
Ends(c) ==
  /\ pc' = [pc EXCEPT ![c] = "idle"]
  /\ method' = [method EXCEPT ![c] = "initialize"]
  /\ Forget(c)

(****************************************************************************)
(* _send_request                                                            *)
(****************************************************************************)

(* Seeded fault: ids are reused once their request is gone. *)
SendReusesId(c, m, others) ==
  LET q == [id |-> Cardinality(others) + 1, proc |-> process', by |-> c,
            call |-> calls'[c], method |-> m]
  IN /\ requestId' = q.id
     /\ \/ /\ process' # 0
           /\ pending' = Registered(q.id, c, others)
           /\ sent' = IF process' \in running' THEN sent \cup {q} ELSE sent
           /\ method' = [method EXCEPT ![c] = m]
           /\ request' = [request EXCEPT ![c] = q]
           /\ got' = [got EXCEPT ![c] = NoRequest(c)]
           /\ future' = [future EXCEPT ![c] = "unset"]
           /\ \/ pc' = [pc EXCEPT ![c] = "wait"] /\ sendLock' = None
              \/ pc' = [pc EXCEPT ![c] = "drain"] /\ sendLock' = c
        \/ /\ process' \notin running'
           /\ Ends(c)
           /\ pending' = others /\ sendLock' = None
           /\ UNCHANGED sent

(* Under the send lock: take the next id, register the future, write the      *)
(* request.  drain() returns at once, or suspends with the lock held while    *)
(* the pipe is full.  Writing to a process that is gone raises, or is lost.   *)
(* "others" are the registrations the caller leaves there.                    *)
Send(c, m, others) ==
  LET q == [id |-> requestId + 1, proc |-> process', by |-> c,
            call |-> calls'[c], method |-> m]
  IN /\ requestId' = q.id
     /\ \/ /\ process' # 0
           /\ pending' = Registered(q.id, c, others)
           /\ sent' = IF process' \in running' THEN sent \cup {q} ELSE sent
           /\ method' = [method EXCEPT ![c] = m]
           /\ request' = [request EXCEPT ![c] = q]
           /\ got' = [got EXCEPT ![c] = NoRequest(c)]
           /\ future' = [future EXCEPT ![c] = "unset"]
           /\ \/ pc' = [pc EXCEPT ![c] = "wait"] /\ sendLock' = None
              \/ pc' = [pc EXCEPT ![c] = "drain"] /\ sendLock' = c
        \/ /\ process' \notin running'
           /\ Ends(c)
           /\ pending' = others /\ sendLock' = None
           /\ UNCHANGED sent

(* _send_request up to its first suspension: without a process it raises,     *)
(* with the lock taken or awaited by others it queues.                        *)
EnterSend(c, m, others) ==
  \/ /\ process' = 0
     /\ Ends(c)
     /\ pending' = others
     /\ UNCHANGED <<requestId, sent, sendLock>>
  \/ /\ process' # 0
     /\ sendLock # None \/ \E d \in Callers : pc[d] = "lock"
     /\ pc' = [pc EXCEPT ![c] = "lock"]
     /\ method' = [method EXCEPT ![c] = m]
     /\ Forget(c)
     /\ pending' = others
     /\ UNCHANGED <<requestId, sent, sendLock>>
  \/ /\ process' # 0
     /\ sendLock = None /\ \A d \in Callers : pc[d] # "lock"
     /\ Send(c, m, others)

LockAcquired(c) ==
  /\ pc[c] = "lock"
  /\ sendLock = None
  /\ UNCHANGED <<process, initialized, readerTask, calls, held, running, spawned, readers, closer>>
  /\ Send(c, method[c], pending)

(* drain() returns: the server has read its input, or the pipe closed without *)
(* an error.                                                                  *)
Drained(c) ==
  /\ pc[c] = "drain"
  /\ pc' = [pc EXCEPT ![c] = "wait"]
  /\ sendLock' = None
  /\ UNCHANGED <<process, initialized, requestId, pending, readerTask, method, request,
                 future, got, calls, server, readers, closer>>

(* Seeded fault: a failed write keeps the send lock. *)
DrainFailsKeepsLock(c) ==
  /\ pc[c] = "drain"
  /\ request[c].proc \notin running
  /\ pending' = Without(c)
  /\ UNCHANGED sendLock
  /\ Ends(c)
  /\ UNCHANGED <<process, initialized, requestId, readerTask, calls, server, readers, closer>>

(* drain() raises because the process is gone. *)
DrainFails(c) ==
  /\ pc[c] = "drain"
  /\ request[c].proc \notin running
  /\ pending' = Without(c)
  /\ sendLock' = None
  /\ Ends(c)
  /\ UNCHANGED <<process, initialized, requestId, readerTask, calls, server, readers, closer>>

(****************************************************************************)
(* call_tool and initialize                                                 *)
(****************************************************************************)

(* Caller c starts a process, which it has in hand then, and goes on at       *)
(* "place"; or the command cannot be executed, and its call fails.  "alive"   *)
(* are the other processes.                                                   *)
Launches(c, place, alive) ==
  \/ /\ spawned < MaxSpawn
     /\ spawned' = spawned + 1
     /\ held' = [held EXCEPT ![c] = spawned']
     /\ running' = alive \cup {spawned'}
     /\ pc' = [pc EXCEPT ![c] = place]
     /\ UNCHANGED <<method, request, future, got>>
  \/ /\ held' = [held EXCEPT ![c] = 0]
     /\ running' = alive
     /\ Ends(c)
     /\ UNCHANGED spawned

(* The process a caller has in hand becomes self._process. *)
Stores(c) ==
  /\ process' = held[c]
  /\ held' = [held EXCEPT ![c] = 0]

(* An initialized wrapper sends at once; one with a process but without the   *)
(* handshake sends "initialize"; one without a process starts it.             *)
CallTool(c) ==
  /\ pc[c] = "idle"
  /\ calls[c] < MaxCalls
  /\ calls' = [calls EXCEPT ![c] = @ + 1]
  /\ UNCHANGED <<process, initialized, readerTask, readers, closer>>
  /\ \/ /\ initialized \/ process # 0
        /\ UNCHANGED <<held, running, spawned>>
        /\ EnterSend(c, IF initialized THEN "tools/call" ELSE "initialize", pending)
     \/ /\ ~initialized /\ process = 0
        /\ Launches(c, "spawn", running)
        /\ UNCHANGED <<requestId, pending, sent, sendLock>>

(* _start_process: create_subprocess_exec returns, then 0.3 s of sleep. *)
Spawned(c) ==
  /\ pc[c] = "spawn"
  /\ Stores(c)
  /\ pc' = [pc EXCEPT ![c] = "nap"]
  /\ UNCHANGED <<initialized, requestId, pending, sendLock, readerTask, method, request,
                 future, got, calls, running, spawned, sent, readers, closer>>

(* A reader task is created and becomes self._reader_task. *)
StartReader ==
  LET r == Cardinality({x \in Procs : reader[x] # "none"}) + 1
  IN /\ r \in Procs
     /\ reader' = [reader EXCEPT ![r] = "new"]
     /\ readerTask' = r
     /\ UNCHANGED on

(* After the sleep self._process, whichever it is now, must not have exited;  *)
(* if it has, its stderr is read to the end.  A process that exited stays in  *)
(* self._process.                                                             *)
NapEnds(c) ==
  /\ pc[c] = "nap"
  /\ UNCHANGED <<process, initialized, calls, held, running, spawned, closer>>
  /\ \/ /\ process \in running
        /\ StartReader
        /\ EnterSend(c, "initialize", pending)
     \/ /\ process \notin running
        /\ IF process = 0
             THEN Ends(c)
             ELSE pc' = [pc EXCEPT ![c] = "exitread"]
                  /\ UNCHANGED <<method, request, future, got>>
        /\ UNCHANGED <<requestId, readerTask, readers, pending, sent, sendLock>>

(* The end of that stderr, once nobody holds the pipe: for npx the fallback   *)
(* is started if the error looks like a missing shebang, else the call fails. *)
ExitRead(c) ==
  /\ pc[c] = "exitread"
  /\ \/ Npx /\ Launches(c, "fallback", running)
     \/ Ends(c) /\ UNCHANGED <<held, running, spawned>>
  /\ UNCHANGED <<wrapper, calls, sent, readers, closer>>

(* _start_with_npx_node_fallback has started a process and slept for 0.5 s.   *)
(* If the process has not exited it is stored, a reader is created, and       *)
(* "initialize" is sent; else its stderr is read to the end.                  *)
FallbackUp(c) ==
  /\ pc[c] = "fallback"
  /\ UNCHANGED <<initialized, calls, running, spawned, closer>>
  /\ \/ /\ held[c] \in running
        /\ Stores(c)
        /\ StartReader
        /\ EnterSend(c, "initialize", pending)
     \/ /\ held[c] \notin running
        /\ held' = [held EXCEPT ![c] = 0]
        /\ pc' = [pc EXCEPT ![c] = "fallbackread"]
        /\ UNCHANGED <<process, requestId, pending, sendLock, readerTask, method, request,
                       future, got, sent, readers>>

(* The end of that stderr, too: the call fails. *)
FallbackRead(c) ==
  /\ pc[c] = "fallbackread"
  /\ Ends(c)
  /\ UNCHANGED <<wrapper, calls, server, readers, closer>>

(* The response is there: the registration goes.  A result of "initialize"    *)
(* makes the wrapper initialized, whatever has become of the process since,   *)
(* and the call goes on to its tool; an error ends the call.                  *)
Receive(c) ==
  /\ pc[c] = "wait"
  /\ future[c] = "answered"
  /\ UNCHANGED <<process, readerTask, calls, held, running, spawned, readers, closer>>
  /\ \/ /\ Ends(c)
        /\ pending' = Without(c)
        /\ UNCHANGED <<initialized, requestId, sent, sendLock>>
     \/ /\ method[c] = "initialize"
        /\ initialized' = TRUE
        /\ EnterSend(c, "tools/call", Without(c))

(* The future failed.  When the process exited under an npx "initialize", the *)
(* caller reads stderr to decide about the fallback.                          *)
Fails(c) ==
  /\ pc[c] = "wait"
  /\ future[c] \in {"failed", "closed"}
  /\ pending' = Without(c)
  /\ IF Npx /\ method[c] = "initialize" /\ future[c] = "failed"
       THEN pc' = [pc EXCEPT ![c] = "stderr"] /\ Forget(c) /\ UNCHANGED method
       ELSE Ends(c)
  /\ UNCHANGED <<process, initialized, requestId, sendLock, readerTask, calls, server,
                 readers, closer>>

(* Seeded fault: the registration stays after a timeout. *)
TimeoutKeepsEntry(c) ==
  /\ pc[c] = "wait"
  /\ future[c] = "unset"
  /\ UNCHANGED pending
  /\ Ends(c)
  /\ UNCHANGED <<process, initialized, requestId, sendLock, readerTask, calls, server,
                 readers, closer>>

(* wait_for gives up after 120 s. *)
Timeout(c) ==
  /\ pc[c] = "wait"
  /\ future[c] = "unset"
  /\ pending' = Without(c)
  /\ Ends(c)
  /\ UNCHANGED <<process, initialized, requestId, sendLock, readerTask, calls, server,
                 readers, closer>>

(* A reader task is over. *)
Over(R) ==
  /\ reader' = [r \in Procs |-> IF r \in R THEN "done" ELSE reader[r]]
  /\ on' = [r \in Procs |-> IF r \in R THEN 0 ELSE on[r]]

(* The reader is cancelled: it ends without failing the pending requests. *)
CancelReader == Over({readerTask} \ {0})

(* stderr shows no missing shebang, and the call fails; or it does, and       *)
(* _cleanup_process cancels the reader and tells the process to terminate.    *)
(* Without a process the fallback is started at once.                         *)
StderrRead(c) ==
  /\ pc[c] = "stderr"
  /\ \/ /\ Ends(c)
        /\ UNCHANGED <<readers, readerTask, pending, held, running, spawned>>
     \/ /\ CancelReader
        /\ readerTask' = 0
        /\ IF process = 0
             THEN pending' = {} /\ Launches(c, "fallback", running)
             ELSE /\ pc' = [pc EXCEPT ![c] = "cleanup"]
                  /\ held' = [held EXCEPT ![c] = process]
                  /\ UNCHANGED <<pending, running, spawned, method, request, future, got>>
  /\ UNCHANGED <<process, initialized, requestId, sendLock, calls, sent, closer>>

(* The process has exited, or after 2 s the one in self._process is killed,   *)
(* which raises without one.  The registrations are dropped and their futures *)
(* left as they are: their callers wait for the timeout.                      *)
CleanupEnds(c) ==
  /\ pc[c] = "cleanup"
  /\ IF held[c] \in running /\ process = 0
       THEN /\ Ends(c)
            /\ held' = [held EXCEPT ![c] = 0]
            /\ UNCHANGED <<process, pending, running, spawned>>
       ELSE /\ process' = 0
            /\ pending' = {}
            /\ Launches(c, "fallback",
                        IF held[c] \in running THEN running \ {process} ELSE running)
  /\ UNCHANGED <<initialized, requestId, sendLock, readerTask, calls, sent, readers, closer>>

(* The caller is cancelled, by the timeout of a composition step or because   *)
(* its client is gone.  A create_subprocess_exec that is cancelled kills its  *)
(* process, a sleep does not; a drain() leaves the registration behind.       *)
Cancelled(c) ==
  /\ c \in Timed /\ pc[c] # "idle"
  /\ Ends(c)
  /\ held' = [held EXCEPT ![c] = 0]
  /\ sendLock' = IF sendLock = c THEN None ELSE sendLock
  /\ pending' = CASE pc[c] = "wait" -> Without(c)
                  [] pc[c] = "drain" -> Disowned(c)
                  [] OTHER -> pending
  /\ \/ pc[c] \in {"spawn", "fallback"} /\ running' = running \ {held[c]}
     \/ pc[c] # "spawn" /\ UNCHANGED running
  /\ astray' = (astray \/ (pc[c] = "fallback" /\ held[c] \in running'))
  /\ UNCHANGED <<process, initialized, requestId, readerTask, calls, spawned, sent,
                 readers, closer>>

(****************************************************************************)
(* close                                                                    *)
(****************************************************************************)

(* Pending requests fail, the reader is cancelled, the process is told to     *)
(* terminate and waited for.  terminate() raises for a process that is known  *)
(* to have exited: close ends there, and the wrapper stays as it was.         *)
Close(k) ==
  /\ closing[k] = "ready"
  /\ FailPending("closed")
  /\ CancelReader
  /\ \/ /\ process = 0
        /\ initialized' = FALSE
        /\ closing' = [closing EXCEPT ![k] = "done"]
        /\ UNCHANGED target
     \/ /\ process # 0 /\ process \notin running
        /\ closing' = [closing EXCEPT ![k] = "done"]
        /\ UNCHANGED <<initialized, target>>
     \/ /\ process # 0
        /\ closing' = [closing EXCEPT ![k] = "closing"]
        /\ target' = [target EXCEPT ![k] = process]
        /\ UNCHANGED initialized
  /\ UNCHANGED <<process, requestId, sendLock, readerTask, pc, method, request, got, calls,
                 server>>

(* Seeded fault: close gives up on a process that does not terminate. *)
CloseEndsWithoutKill(k) ==
  /\ closing[k] = "closing"
  /\ closing' = [closing EXCEPT ![k] = "done"]
  /\ target' = [target EXCEPT ![k] = 0]
  /\ process' = 0
  /\ initialized' = FALSE
  /\ UNCHANGED <<requestId, pending, sendLock, readerTask, caller, server, readers>>

(* The process it waits for has exited, or after 5 s the one in self._process *)
(* is killed, which raises if there is none or if it has exited.  The wrapper *)
(* is closed then, whatever process it holds.                                 *)
CloseEnds(k) ==
  /\ closing[k] = "closing"
  /\ closing' = [closing EXCEPT ![k] = "done"]
  /\ target' = [target EXCEPT ![k] = 0]
  /\ IF target[k] \in running /\ process \notin running
       THEN UNCHANGED <<process, initialized, running>>
       ELSE /\ process' = 0
            /\ initialized' = FALSE
            /\ running' = IF target[k] \in running THEN running \ {process} ELSE running
  /\ UNCHANGED <<requestId, pending, sendLock, readerTask, caller, held, spawned, sent,
                 readers>>

(****************************************************************************)
(* The reader task and the server                                           *)
(****************************************************************************)

(* The head of the reader's loop: without a process it ends, as it does when  *)
(* another task is reading the stream (readline raises); else it reads.       *)
ReadOn(r, fut, pend) ==
  \/ /\ process # 0
     /\ \A s \in Procs \ {r} : ~(reader[s] = "reading" /\ on[s] = process)
     /\ reader' = [reader EXCEPT ![r] = "reading"]
     /\ on' = [on EXCEPT ![r] = process]
     /\ future' = fut /\ pending' = pend
  \/ /\ \/ process = 0
        \/ \E s \in Procs \ {r} : reader[s] = "reading" /\ on[s] = process
     /\ Over({r})
     /\ future' = [c \in Callers |->
                     IF fut[c] = "unset" /\ \E e \in pend : e.by = c THEN "failed" ELSE fut[c]]
     /\ pending' = {}

ReaderStarts(r) ==
  /\ reader[r] = "new"
  /\ ReadOn(r, future, pending)
  /\ UNCHANGED <<process, initialized, requestId, sendLock, readerTask, pc, method, request,
                 got, calls, server, closer>>

(* A line from the server: its answer to a request on this stream, in any     *)
(* order, late or once more, or a message of its own, under no id (0) or one  *)
(* that may be pending.  Whatever has an id is taken for a response: it goes  *)
(* to the future registered under it, if that is not done; else it is dropped.*)
Route(r) ==
  /\ reader[r] = "reading"
  /\ \E m \in {q \in sent : q.proc = on[r]}
             \cup {[id |-> i, proc |-> on[r], by |-> None, call |-> 0, method |-> "none"] :
                    i \in {0} \cup OwnIds} :
       LET waiting == {e.by : e \in {x \in pending : x.id = m.id}}
           to == {c \in Callers \cap waiting : future[c] = "unset"}
       IN /\ got' = [c \in Callers |-> IF c \in to THEN m ELSE got[c]]
          /\ ReadOn(r, [c \in Callers |-> IF c \in to THEN "answered" ELSE future[c]], pending)
  /\ UNCHANGED <<process, initialized, requestId, sendLock, readerTask, pc, method, request,
                 calls, server, closer>>

(* End of file once the process is gone, or a line that is JSON but no        *)
(* object (from a process alive or not), ends the reader and fails the        *)
(* pending requests.  The process stays in the wrapper, and later requests    *)
(* have no reader.                                                            *)
ReaderStops(r) ==
  /\ reader[r] = "reading"
  /\ Over({r})
  /\ FailPending("failed")
  /\ UNCHANGED <<process, initialized, requestId, sendLock, readerTask, pc, method, request,
                 got, calls, server, closer>>

(* External: the process exits, by itself or because it was told to.  What it *)
(* answered before may still be in the pipe.                                  *)
Exits ==
  /\ \E p \in running : running' = running \ {p}
  /\ UNCHANGED <<wrapper, caller, closer, held, spawned, sent, readers>>

(****************************************************************************)
(* The specification                                                        *)
(****************************************************************************)

(* A caller goes on within a bounded time: a timer fires, a process starts,   *)
(* or the lock it is waiting for is free.                                     *)
Resumes(c) ==
  \/ Spawned(c) \/ NapEnds(c) \/ FallbackUp(c) \/ LockAcquired(c)
  \/ Receive(c) \/ Fails(c) \/ Timeout(c) \/ StderrRead(c) \/ CleanupEnds(c)

(* A caller goes on when the server, or who holds its pipes, lets it: these   *)
(* awaits have no timeout.                                                    *)
IsLet(c) == Drained(c) \/ DrainFails(c) \/ ExitRead(c) \/ FallbackRead(c)

Step ==
  \/ \E c \in Callers : CallTool(c) \/ Resumes(c) \/ IsLet(c)
  \/ \E k \in Closers : Close(k) \/ CloseEnds(k)
  \/ \E r \in Procs : ReaderStarts(r) \/ Route(r) \/ ReaderStops(r)
  \/ Exits

Observe ==
  astray' = (astray \/ Cardinality(Starting') + Cardinality(Closing') > 1)

Next == (Step /\ Observe) \/ \E c \in Callers : Cancelled(c)

Spec == Init /\ [][Next]_vars

(* A coroutine that can run does so in the end, and timers fire.  Nothing is  *)
(* assumed of the server: that it reads (drain(), 356, under the send lock),  *)
(* answers, or lets go of stderr (162, 249); nor of a reader or of close().   *)
Fairness == \A c \in Callers : WF_vars(Resumes(c) /\ Observe)

FairSpec == Spec /\ Fairness

(****************************************************************************)
(* Properties                                                               *)
(****************************************************************************)

TypeOK ==
  /\ process \in MaybeProc /\ initialized \in BOOLEAN /\ requestId \in Nat
  /\ pending \subseteq Entry
  /\ sendLock \in Callers \cup {None} /\ readerTask \in MaybeProc
  /\ pc \in [Callers -> Places] /\ method \in [Callers -> Methods]
  /\ request \in [Callers -> Requests] /\ got \in [Callers -> Requests \cup FromServer]
  /\ future \in [Callers -> Futures] /\ calls \in [Callers -> 0 .. MaxCalls]
  /\ closing \in [Closers -> {"ready", "closing", "done"}]
  /\ target \in [Closers -> MaybeProc]
  /\ held \in [Callers -> MaybeProc]
  /\ running \subseteq Procs /\ spawned \in MaybeProc
  /\ reader \in [Procs -> {"none", "new", "reading", "done"}] /\ on \in [Procs -> MaybeProc]
  /\ sent \subseteq Requests
  /\ astray \in BOOLEAN

(* g is the answer to request q, or a message of the server under its id. *)
Answers(g, q) == g = q \/ (g \in FromServer /\ g.id = q.id)

(* No caller is answered in the place of another: what a caller gets is the   *)
(* response to its own request, or a message the server made up under that    *)
(* very id.  It never gets the result of another caller's call, of its own    *)
(* earlier call that timed out, or of its own "initialize", although ids are  *)
(* all that tells them apart and late responses, restarts and several readers *)
(* are about.  The second case is the code's: a request the server sends      *)
(* (a ping, say) under a pending id is taken for the response, and the true   *)
(* response is dropped as an orphan after it.                                 *)
OwnAnswer ==
  \A c \in Callers :
    pc[c] = "wait" /\ future[c] = "answered" =>
      Answers(got[c], request[c])

(* Nothing is left in the table of pending requests: every registration       *)
(* belongs to a caller that is still sending or awaiting that very request,   *)
(* except that of a caller who was cancelled while it was sending.            *)
PendingIsAwaited ==
  \A e \in pending :
    e.by # None => pc[e.by] \in {"drain", "wait"} /\ request[e.by].id = e.id

(* As long as no two starts or closes overlapped and no fallback was          *)
(* cancelled, every process the wrapper started that is alive is in           *)
(* self._process or in the hand of the one call that starts it and will store *)
(* it: failed starts, retries and closes lose none.  A close in the meantime  *)
(* does not see the process in hand; the wrapper has it again after the close.*)
KnowsItsProcess == ~astray => running \subseteq {process} \cup {held[c] : c \in Callers}

(* If every drain() and every reading of stderr to its end returns, every     *)
(* call ends by itself, with its answer, an error, or after the timeout,      *)
(* whatever becomes of the process, its readers and the wrapper.  The premise *)
(* is needed: a server that stops reading blocks all callers for ever.        *)
CallsEnd ==
  (\A c \in Callers : []<>(pc[c] \notin {"drain", "exitread", "fallbackread"}))
    => \A c \in Callers : []<>(pc[c] = "idle")

(****************************************************************************)
(* Inductive strengthening: what the proofs add to KnowsItsProcess          *)
(****************************************************************************)

(* Starts and closes take turns.  Who has started a process, or is about to,  *)
(* finds no other alive; who cleans up or closes waits for the process the    *)
(* wrapper still holds.                                                       *)
TakesTurns ==
  ~astray =>
    /\ Cardinality(Starting) + Cardinality(Closing) <= 1
    /\ \A c \in Callers :
         /\ held[c] # 0 => pc[c] \in {"spawn", "fallback", "cleanup"}
         /\ pc[c] \in {"spawn", "fallback"} => running \subseteq {held[c]}
         /\ pc[c] \in {"exitread", "fallbackread"} => running = {}
         /\ pc[c] = "cleanup" => held[c] = process
    /\ \A k \in Closing : target[k] = process

ProcessInv == KnowsItsProcess /\ TakesTurns
=============================================================================
