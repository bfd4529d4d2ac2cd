------------------------- MODULE StdioWrapper_proofs -------------------------
(* Theorems about StdioWrapper for any number of callers, closers, calls and   *)
(* processes.                                                                  *)
(*                                                                             *)
(* The argument is about ids.  An id is taken once, so whatever is registered, *)
(* written to a process or held by a caller carries an id that is not ahead of *)
(* the counter, and a request written under the id a caller is waiting for is  *)
(* that caller's request.  Routing by id is then routing to the right caller.  *)
(*                                                                             *)
(* Processes: as long as no two starts or closes overlap, whoever starts one   *)
(* finds none alive, and whoever closes waits for the one the wrapper holds.   *)
EXTENDS StdioWrapper, FiniteSetTheorems, TLAPS

Awaiting == {c \in Callers : pc[c] \in {"drain", "wait"}}

(* The variables routing depends on have their types. *)
RoutingTyped ==
  /\ requestId \in Nat
  /\ pending \subseteq Entry
  /\ sendLock \in Callers \cup {None}
  /\ pc \in [Callers -> Places]
  /\ method \in [Callers -> Methods]
  /\ request \in [Callers -> Requests]
  /\ got \in [Callers -> Requests \cup FromServer]
  /\ future \in [Callers -> Futures]
  /\ sent \subseteq Requests

(* No id is ahead of the counter. *)
IdsAreTaken ==
  /\ \A e \in pending : e.id <= requestId
  /\ \A q \in sent : q.id <= requestId
  /\ \A c \in Callers : request[c].id <= requestId

(* The request a process has under the id a caller awaits is that caller's. *)
SentIsOwn == \A q \in sent : \A c \in Awaiting : q.id = request[c].id => q = request[c]

(* The response a future holds answers the request the caller has sent. *)
GotIsOwn == \A c \in Awaiting : future[c] = "answered" => Answers(got[c], request[c])

Routing == RoutingTyped /\ IdsAreTaken /\ SentIsOwn /\ GotIsOwn /\ PendingIsAwaited

(* The variables beside the routing have their types. *)
RestTyped ==
  /\ process \in MaybeProc /\ initialized \in BOOLEAN /\ readerTask \in MaybeProc
  /\ calls \in [Callers -> 0 .. MaxCalls]
  /\ closing \in [Closers -> {"ready", "closing", "done"}]
  /\ target \in [Closers -> MaybeProc]
  /\ held \in [Callers -> MaybeProc]
  /\ running \subseteq Procs /\ spawned \in MaybeProc
  /\ reader \in [Procs -> {"none", "new", "reading", "done"}] /\ on \in [Procs -> MaybeProc]
  /\ astray \in BOOLEAN

IInv == RestTyped /\ Routing

LEMMA NoRequestTyped == ASSUME NEW c \in Callers PROVE NoRequest(c) \in Requests
  BY BoundsAreNaturals DEF NoRequest, Requests, MaybeProc, Methods

(* A registration is removed for its caller only. *)
LEMMA WithoutOwn ==
  ASSUME Routing, NEW c \in Callers
  PROVE  /\ Without(c) \subseteq pending
         /\ \A e \in Without(c) : e.by # c
  BY NoneIsNoCaller DEF Without, Routing, RoutingTyped, PendingIsAwaited, Entry

(* A registration that nobody awaits any more. *)
Orphan(e) == e \in Entry /\ e.by = None /\ e.id <= requestId

(* Of a caller that is cancelled while it sends nothing but that is left. *)
LEMMA DisownedOrphan ==
  ASSUME Routing, NEW c \in Callers
  PROVE  \A e \in Disowned(c) : e.by # c /\ (e \in pending \/ Orphan(e))
<1> SUFFICES ASSUME NEW x \in pending,
                    NEW e, e = IF x.id = request[c].id THEN [x EXCEPT !.by = None] ELSE x
             PROVE  e.by # c /\ (e \in pending \/ Orphan(e))
  BY DEF Disowned
<1>1. x \in Entry /\ x.id <= requestId
  BY DEF Routing, RoutingTyped, IdsAreTaken
<1>2. CASE x.id = request[c].id
  BY <1>1, <1>2, NoneIsNoCaller DEF Orphan, Entry
<1>3. CASE x.id # request[c].id
  BY <1>1, <1>3, NoneIsNoCaller DEF Routing, PendingIsAwaited, Entry
<1> QED BY <1>2, <1>3

(* The variables of routing change only by dropping what belongs to caller c, *)
(* who is no longer waiting.                                                  *)
Lets(c, others) ==
  /\ pc' \in [Callers -> Places] /\ pc'[c] \notin {"drain", "wait"}
  /\ \A d \in Callers \ {c} : pc'[d] = pc[d] /\ request'[d] = request[d]
                               /\ future'[d] = future[d] /\ got'[d] = got[d]
  /\ method' \in [Callers -> Methods] /\ request' \in [Callers -> Requests]
  /\ got' \in [Callers -> Requests \cup FromServer] /\ future' \in [Callers -> Futures]
  /\ sendLock' \in Callers \cup {None}
  /\ request'[c].id <= requestId
  /\ pending' = others
  /\ sent' = sent /\ requestId' = requestId

LEMMA LetsKeepsRouting ==
  ASSUME Routing, NEW c \in Callers, NEW others,
         \A e \in others : e.by # c /\ (e \in pending \/ Orphan(e)),
         Lets(c, others)
  PROVE  Routing'
<1>1. RoutingTyped'
  BY DEF Routing, RoutingTyped, Lets, Orphan
<1>2. IdsAreTaken'
  BY DEF Routing, RoutingTyped, IdsAreTaken, Lets, Orphan
<1>3. SentIsOwn' /\ GotIsOwn'
  BY DEF Routing, RoutingTyped, SentIsOwn, GotIsOwn, Awaiting, Lets
<1>4. PendingIsAwaited'
  BY DEF Routing, RoutingTyped, PendingIsAwaited, Entry, Lets, Orphan
<1> QED BY <1>1, <1>2, <1>3, <1>4 DEF Routing

(* Ends and Forget are such changes. *)
LEMMA EndsLets ==
  ASSUME Routing, NEW c \in Callers, NEW others, Ends(c), pending' = others,
         sendLock' \in Callers \cup {None}, sent' = sent, requestId' = requestId
  PROVE  Lets(c, others)
  BY NoRequestTyped DEF Routing, RoutingTyped, Ends, Forget, Lets, NoRequest, Places,
       Methods, Futures

LEMMA ForgetLets ==
  ASSUME Routing, NEW c \in Callers, NEW others, NEW p \in Places \ {"drain", "wait"},
         NEW m \in Methods,
         Forget(c), pc' = [pc EXCEPT ![c] = p],
         method' = method \/ method' = [method EXCEPT ![c] = m], pending' = others,
         sendLock' = sendLock, sent' = sent, requestId' = requestId
  PROVE  Lets(c, others)
  BY NoRequestTyped DEF Routing, RoutingTyped, Forget, Lets, NoRequest, Futures

(* _send_request registers a fresh id and writes the request under it. *)
LEMMA SendKeepsRouting ==
  ASSUME Routing, NEW c \in Callers, NEW m \in Methods, NEW others,
         others \subseteq pending, \A e \in others : e.by # c,
         process' \in MaybeProc, calls' \in [Callers -> 0 .. MaxCalls],
         Send(c, m, others)
  PROVE  Routing'
<1> DEFINE q == [id |-> requestId + 1, proc |-> process', by |-> c,
                 call |-> calls'[c], method |-> m]
<1>1. q \in Requests /\ q.id = requestId + 1
  BY BoundsAreNaturals DEF Routing, RoutingTyped, Requests
<1>2. CASE process' # 0 /\ Registered(q.id, c, others) = pending'
           /\ request' = [request EXCEPT ![c] = q]
           /\ got' = [got EXCEPT ![c] = NoRequest(c)]
           /\ future' = [future EXCEPT ![c] = "unset"]
           /\ method' = [method EXCEPT ![c] = m]
           /\ requestId' = q.id
           /\ sent' \subseteq sent \cup {q}
           /\ sendLock' \in {c, None}
           /\ \E p \in {"drain", "wait"} : pc' = [pc EXCEPT ![c] = p]
  <2> HIDE DEF q
  <2>1. PICK p \in {"drain", "wait"} : pc' = [pc EXCEPT ![c] = p]
    BY <1>2
  <2>2. RoutingTyped'
    BY <1>1, <1>2, <2>1, NoRequestTyped
    DEF Routing, RoutingTyped, Registered, Entry, Places, Futures, Requests
  <2>3. IdsAreTaken'
    <3>1. \A e \in pending' : e.id <= requestId'
      BY <1>1, <1>2 DEF Routing, RoutingTyped, IdsAreTaken, Registered, Entry
    <3>2. \A r \in sent' : r.id <= requestId'
      BY <1>1, <1>2 DEF Routing, RoutingTyped, IdsAreTaken, Requests
    <3>3. \A d \in Callers : request'[d].id <= requestId'
      BY <1>1, <1>2 DEF Routing, RoutingTyped, IdsAreTaken, Requests
    <3> QED BY <3>1, <3>2, <3>3 DEF IdsAreTaken
  <2>4. SentIsOwn'
    <3> SUFFICES ASSUME NEW r \in sent', NEW d \in Callers, pc'[d] \in {"drain", "wait"},
                        r.id = request'[d].id
                 PROVE  r = request'[d]
      BY DEF SentIsOwn, Awaiting
    <3>1. CASE d = c
      BY <1>1, <1>2, <3>1 DEF Routing, RoutingTyped, IdsAreTaken, Requests
    <3>2. CASE d # c
      <4>1. request'[d] = request[d] /\ pc'[d] = pc[d] /\ request[d].id <= requestId
        BY <1>2, <2>1, <3>2 DEF Routing, RoutingTyped, IdsAreTaken
      <4>2. r \in sent
        BY <1>1, <1>2, <4>1 DEF Routing, RoutingTyped, Requests
      <4> QED BY <4>1, <4>2 DEF Routing, SentIsOwn, Awaiting
    <3> QED BY <3>1, <3>2
  <2>5. GotIsOwn'
    BY <1>2, <2>1 DEF Routing, RoutingTyped, GotIsOwn, Awaiting
  <2>6. PendingIsAwaited'
    BY <1>1, <1>2, <2>1 DEF Routing, RoutingTyped, PendingIsAwaited, Registered, Entry
  <2> QED BY <2>2, <2>3, <2>4, <2>5, <2>6 DEF Routing
<1>3. CASE Ends(c) /\ pending' = others /\ sendLock' = None /\ sent' = sent
           /\ requestId' = q.id
  <2>1. RoutingTyped'
    BY <1>1, <1>3, NoRequestTyped
    DEF Routing, RoutingTyped, Ends, Forget, Places, Methods, Futures
  <2>2. IdsAreTaken' /\ SentIsOwn' /\ GotIsOwn'
    BY <1>1, <1>3 DEF Routing, RoutingTyped, IdsAreTaken, SentIsOwn, GotIsOwn, Awaiting,
         Ends, Forget, NoRequest, Requests, Entry
  <2>3. PendingIsAwaited'
    BY <1>3 DEF Routing, RoutingTyped, PendingIsAwaited, Ends, Forget, Entry
  <2> QED BY <2>1, <2>2, <2>3 DEF Routing
<1> HIDE DEF q
<1>4. \/ process' # 0 /\ Registered(q.id, c, others) = pending'
           /\ request' = [request EXCEPT ![c] = q]
           /\ got' = [got EXCEPT ![c] = NoRequest(c)]
           /\ future' = [future EXCEPT ![c] = "unset"]
           /\ method' = [method EXCEPT ![c] = m]
           /\ requestId' = q.id
           /\ sent' \subseteq sent \cup {q}
           /\ sendLock' \in {c, None}
           /\ \E p \in {"drain", "wait"} : pc' = [pc EXCEPT ![c] = p]
      \/ Ends(c) /\ pending' = others /\ sendLock' = None /\ sent' = sent
           /\ requestId' = q.id
  BY DEF Send, q
<1> QED BY <1>2, <1>3, <1>4

LEMMA EnterSendKeepsRouting ==
  ASSUME Routing, NEW c \in Callers, NEW m \in Methods, NEW others,
         others \subseteq pending, \A e \in others : e.by # c,
         process' \in MaybeProc, calls' \in [Callers -> 0 .. MaxCalls],
         EnterSend(c, m, others)
  PROVE  Routing'
<1>1. CASE Ends(c) /\ pending' = others /\ UNCHANGED <<requestId, sent, sendLock>>
  BY <1>1, EndsLets, LetsKeepsRouting DEF Routing, RoutingTyped
<1>2. CASE /\ pc' = [pc EXCEPT ![c] = "lock"]
           /\ method' = [method EXCEPT ![c] = m]
           /\ Forget(c) /\ pending' = others
           /\ UNCHANGED <<requestId, sent, sendLock>>
  <2>1. Lets(c, others)
    BY <1>2, ForgetLets DEF Places
  <2> QED BY <2>1, LetsKeepsRouting
<1>3. CASE Send(c, m, others)
  BY <1>3, SendKeepsRouting
<1> QED BY <1>1, <1>2, <1>3 DEF EnterSend

(* Futures that are not done fail, and registrations go. *)
LEMMA FailingKeepsRouting ==
  ASSUME Routing, future' \in [Callers -> Futures],
         \A c \in Callers : future'[c] = "answered" => future[c] = "answered",
         pending' = {},
         UNCHANGED <<requestId, sendLock, pc, method, request, got>>, sent' \subseteq sent
  PROVE  Routing'
  BY DEF Routing, RoutingTyped, IdsAreTaken, SentIsOwn, GotIsOwn, PendingIsAwaited, Awaiting

LEMMA FailPendingKeepsRouting ==
  ASSUME Routing, NEW how \in {"failed", "closed"}, FailPending(how),
         UNCHANGED <<requestId, sendLock, pc, method, request, got, sent>>
  PROVE  Routing'
<1>1. future' \in [Callers -> Futures]
  BY DEF FailPending, Routing, RoutingTyped, Futures
<1>2. \A c \in Callers : future'[c] = "answered" => future[c] = "answered"
  BY DEF FailPending
<1> QED BY <1>1, <1>2, FailingKeepsRouting DEF FailPending

(* The variables of routing apart, a step keeps the types of the others. *)
RoutingVars == <<requestId, pending, sendLock, pc, method, request, got, future, sent>>

LEMMA UnchangedRouting ==
  ASSUME Routing, UNCHANGED RoutingVars
  PROVE  Routing'
  BY DEF Routing, RoutingVars, RoutingTyped, IdsAreTaken, SentIsOwn, GotIsOwn,
       PendingIsAwaited, Awaiting

(* A step of Next, RestTyped part: the types of what routing does not use. *)
LEMMA LaunchesTyped ==
  ASSUME RestTyped, NEW c \in Callers, NEW place, NEW alive \in SUBSET Procs,
         Launches(c, place, alive)
  PROVE  /\ held' \in [Callers -> MaybeProc]
         /\ spawned' \in MaybeProc /\ running' \subseteq Procs
<1>1. spawned < MaxSpawn => spawned + 1 \in Procs /\ spawned + 1 \in MaybeProc
  BY BoundsAreNaturals DEF RestTyped, MaybeProc, Procs
<1>2. 0 \in MaybeProc
  BY BoundsAreNaturals DEF MaybeProc
<1> QED BY <1>1, <1>2 DEF RestTyped, Launches

LEMMA StartReaderTyped ==
  ASSUME RestTyped, StartReader
  PROVE  /\ reader' \in [Procs -> {"none", "new", "reading", "done"}]
         /\ on' \in [Procs -> MaybeProc] /\ readerTask' \in MaybeProc
<1>1. PICK r \in Procs : /\ reader' = [reader EXCEPT ![r] = "new"]
                         /\ readerTask' = r /\ on' = on
  BY DEF StartReader
<1> QED BY <1>1, BoundsAreNaturals DEF RestTyped, Procs, MaybeProc

LEMMA OverTyped ==
  ASSUME RestTyped, NEW R, Over(R)
  PROVE  /\ reader' \in [Procs -> {"none", "new", "reading", "done"}]
         /\ on' \in [Procs -> MaybeProc]
  BY BoundsAreNaturals DEF RestTyped, Over, MaybeProc

LEMMA ReadOnTyped ==
  ASSUME RestTyped, NEW r \in Procs, NEW fut, NEW pend, ReadOn(r, fut, pend)
  PROVE  /\ reader' \in [Procs -> {"none", "new", "reading", "done"}]
         /\ on' \in [Procs -> MaybeProc]
<1>1. CASE Over({r})
  BY <1>1, OverTyped
<1>2. CASE reader' = [reader EXCEPT ![r] = "reading"] /\ on' = [on EXCEPT ![r] = process]
  BY <1>2 DEF RestTyped
<1> QED BY <1>1, <1>2 DEF ReadOn

LEMMA CallerKeepsTypes ==
  ASSUME RestTyped, astray' \in BOOLEAN, NEW c \in Callers,
         CallTool(c) \/ Resumes(c) \/ IsLet(c) \/ Cancelled(c)
  PROVE  RestTyped'
<1> USE DEF RestTyped
<1>z. 0 \in MaybeProc
  BY BoundsAreNaturals DEF MaybeProc
<1>1. CASE CallTool(c)
  <2>1. calls' \in [Callers -> 0 .. MaxCalls]
    BY <1>1, BoundsAreNaturals DEF CallTool
  <2>2. /\ held' \in [Callers -> MaybeProc]
        /\ spawned' \in MaybeProc /\ running' \subseteq Procs
    BY <1>1, LaunchesTyped DEF CallTool
  <2> QED BY <1>1, <2>1, <2>2 DEF CallTool, readers, closer
<1>2. CASE Spawned(c)
  BY <1>2, <1>z DEF Spawned, Stores, readers, closer
<1>3. CASE NapEnds(c)
  <2>1. CASE StartReader
    BY <1>3, <2>1, StartReaderTyped DEF NapEnds, closer
  <2>2. CASE UNCHANGED <<readerTask, readers>>
    BY <1>3, <2>2 DEF NapEnds, closer, readers
  <2> QED BY <1>3, <2>1, <2>2 DEF NapEnds
<1>4. CASE ExitRead(c)
  <2>1. /\ held' \in [Callers -> MaybeProc]
        /\ spawned' \in MaybeProc /\ running' \subseteq Procs
    BY <1>4, LaunchesTyped DEF ExitRead
  <2> QED BY <1>4, <2>1 DEF ExitRead, wrapper, readers, closer
<1>5. CASE FallbackUp(c)
  <2>1. CASE StartReader /\ Stores(c)
    BY <1>5, <1>z, <2>1, StartReaderTyped DEF FallbackUp, Stores, closer
  <2>2. CASE held' = [held EXCEPT ![c] = 0] /\ UNCHANGED <<process, readerTask, readers>>
    BY <1>5, <1>z, <2>2 DEF FallbackUp, closer, readers
  <2> QED BY <1>5, <2>1, <2>2 DEF FallbackUp
<1>6. CASE LockAcquired(c)
  BY <1>6 DEF LockAcquired, readers, closer
<1>7. CASE Drained(c) \/ DrainFails(c) \/ FallbackRead(c)
  BY <1>7 DEF Drained, DrainFails, FallbackRead, wrapper, server, readers, closer
<1>8. CASE Receive(c)
  BY <1>8 DEF Receive, readers, closer
<1>9. CASE Fails(c) \/ Timeout(c)
  BY <1>9 DEF Fails, Timeout, server, readers, closer
<1>10. CASE StderrRead(c)
  <2>1. CASE CancelReader /\ readerTask' = 0
    <3>1. /\ held' \in [Callers -> MaybeProc]
          /\ spawned' \in MaybeProc /\ running' \subseteq Procs
      BY <1>10, LaunchesTyped DEF StderrRead
    <3>2. /\ reader' \in [Procs -> {"none", "new", "reading", "done"}]
          /\ on' \in [Procs -> MaybeProc]
      BY <2>1, OverTyped DEF CancelReader
    <3> QED BY <1>10, <1>z, <2>1, <3>1, <3>2 DEF StderrRead, closer
  <2>2. CASE UNCHANGED <<readers, readerTask, held, running, spawned>>
    BY <1>10, <2>2 DEF StderrRead, readers, closer
  <2> QED BY <1>10, <2>1, <2>2 DEF StderrRead
<1>11. CASE CleanupEnds(c)
  <2>1. CASE process' = 0 /\ Launches(c, "fallback",
                   IF held[c] \in running THEN running \ {process} ELSE running)
    <3>1. (IF held[c] \in running THEN running \ {process} ELSE running) \in SUBSET Procs
      OBVIOUS
    <3>2. /\ held' \in [Callers -> MaybeProc]
          /\ spawned' \in MaybeProc /\ running' \subseteq Procs
      BY <2>1, <3>1, LaunchesTyped
    <3> QED BY <1>11, <1>z, <2>1, <3>2 DEF CleanupEnds, readers, closer
  <2>2. CASE held' = [held EXCEPT ![c] = 0] /\ UNCHANGED <<process, running, spawned>>
    BY <1>11, <1>z, <2>2 DEF CleanupEnds, readers, closer
  <2> QED BY <1>11, <2>1, <2>2 DEF CleanupEnds
<1>12. CASE Cancelled(c)
  <2>1. held' \in [Callers -> MaybeProc] /\ running' \subseteq Procs
    BY <1>12, <1>z DEF Cancelled
  <2> QED BY <1>12, <2>1 DEF Cancelled, readers, closer
<1> QED BY <1>1, <1>2, <1>3, <1>4, <1>5, <1>6, <1>7, <1>8, <1>9, <1>10, <1>11, <1>12
        DEF Resumes, IsLet

(* A caller that is not in _send_request moves on, without entering it. *)
LEMMA MovesOn ==
  ASSUME Routing, NEW c \in Callers, pc[c] \notin {"drain", "wait"},
         NEW p \in {"spawn", "nap", "exitread", "fallback", "fallbackread", "cleanup"},
         pc' = [pc EXCEPT ![c] = p],
         UNCHANGED <<requestId, sendLock, sent, method, request, future, got>>,
         pending' \subseteq pending
  PROVE  Routing'
  BY DEF Routing, RoutingTyped, IdsAreTaken, SentIsOwn, GotIsOwn, PendingIsAwaited,
         Awaiting, Places, Entry

LEMMA GivesUp ==
  ASSUME Routing, NEW c \in Callers, pc[c] \notin {"drain", "wait"}, Ends(c),
         UNCHANGED <<requestId, sendLock, sent>>, pending' \subseteq pending
  PROVE  Routing'
<1>1. PICK others \in SUBSET pending : pending' = others
  OBVIOUS
<1>2. \A e \in others : e.by # c
  BY NoneIsNoCaller DEF Routing, PendingIsAwaited, RoutingTyped, Entry
<1>3. Lets(c, others)
  BY <1>1, EndsLets DEF Routing, RoutingTyped
<1> QED BY <1>2, <1>3, LetsKeepsRouting

LEMMA LaunchesKeepsRouting ==
  ASSUME Routing, NEW c \in Callers, pc[c] \notin {"drain", "wait"},
         NEW place \in {"spawn", "fallback"}, NEW alive, Launches(c, place, alive),
         UNCHANGED <<requestId, sendLock, sent>>, pending' \subseteq pending
  PROVE  Routing'
<1>1. CASE pc' = [pc EXCEPT ![c] = place] /\ UNCHANGED <<method, request, future, got>>
  BY <1>1, MovesOn
<1>2. CASE Ends(c)
  BY <1>2, GivesUp
<1> QED BY <1>1, <1>2 DEF Launches

LEMMA CallerKeepsRouting ==
  ASSUME IInv, RestTyped', NEW c \in Callers,
         CallTool(c) \/ Resumes(c) \/ IsLet(c) \/ Cancelled(c)
  PROVE  Routing'
<1> USE DEF IInv
<1>1. process' \in MaybeProc /\ calls' \in [Callers -> 0 .. MaxCalls]
  BY DEF RestTyped
<1>2. ASSUME pc[c] \notin {"drain", "wait"}
      PROVE  \A e \in pending : e.by # c
  BY <1>2, NoneIsNoCaller DEF Routing, PendingIsAwaited
<1>3. ASSUME NEW m \in Methods, pc[c] \notin {"drain", "wait"}, EnterSend(c, m, pending)
      PROVE  Routing'
  BY <1>1, <1>2, <1>3, EnterSendKeepsRouting
<1>4. CASE CallTool(c)
  <2>1. pc[c] = "idle"
    BY <1>4 DEF CallTool
  <2>2. CASE EnterSend(c, IF initialized THEN "tools/call" ELSE "initialize", pending)
    BY <1>3, <2>1, <2>2 DEF Methods
  <2>3. CASE Launches(c, "spawn", running) /\ UNCHANGED <<requestId, pending, sent, sendLock>>
    BY <2>1, <2>3, LaunchesKeepsRouting
  <2> QED BY <1>4, <2>2, <2>3 DEF CallTool
<1>5. CASE Spawned(c)
  BY <1>5, MovesOn DEF Spawned
<1>6. CASE NapEnds(c)
  <2>1. CASE process \in running
    BY <1>3, <1>6, <2>1 DEF NapEnds, Methods
  <2>2. CASE process \notin running
    <3>1. UNCHANGED <<requestId, pending, sent, sendLock>> /\ pc[c] = "nap"
      BY <1>6, <2>2 DEF NapEnds
    <3>2. CASE Ends(c)
      BY <3>1, <3>2, GivesUp
    <3>3. CASE /\ pc' = [pc EXCEPT ![c] = "exitread"]
               /\ UNCHANGED <<method, request, future, got>>
      BY <3>1, <3>3, MovesOn
    <3> QED BY <1>6, <2>2, <3>2, <3>3 DEF NapEnds
  <2> QED BY <2>1, <2>2
<1>7. CASE ExitRead(c)
  <2>1. pc[c] = "exitread" /\ UNCHANGED <<requestId, pending, sent, sendLock>>
    BY <1>7 DEF ExitRead, wrapper
  <2> QED BY <1>7, <2>1, GivesUp, LaunchesKeepsRouting DEF ExitRead
<1>8. CASE FallbackUp(c)
  <2>1. pc[c] = "fallback"
    BY <1>8 DEF FallbackUp
  <2>2. CASE EnterSend(c, "initialize", pending)
    BY <1>3, <2>1, <2>2 DEF Methods
  <2>3. CASE /\ pc' = [pc EXCEPT ![c] = "fallbackread"]
             /\ UNCHANGED <<requestId, pending, sendLock, method, request, future, got, sent>>
    BY <2>1, <2>3, MovesOn
  <2> QED BY <1>8, <2>2, <2>3 DEF FallbackUp
<1>9. CASE LockAcquired(c)
  <2>1. method[c] \in Methods /\ \A e \in pending : e.by # c
    BY <1>2, <1>9 DEF LockAcquired, Routing, RoutingTyped
  <2> QED BY <1>1, <1>9, <2>1, SendKeepsRouting DEF LockAcquired
<1>10. CASE Drained(c)
  BY <1>10 DEF Drained, Routing, RoutingTyped, IdsAreTaken, SentIsOwn, GotIsOwn,
       PendingIsAwaited, Awaiting, Places, Entry, server
<1>11. ASSUME Lets(c, Without(c))
       PROVE  Routing'
  BY <1>11, WithoutOwn, LetsKeepsRouting
<1>12. CASE DrainFails(c) \/ Timeout(c) \/ (Fails(c) /\ Ends(c))
  <2>1. Lets(c, Without(c))
    BY <1>12, EndsLets DEF DrainFails, Timeout, Fails, server, Routing, RoutingTyped
  <2> QED BY <1>11, <2>1
<1>13. CASE Fails(c) /\ pc' = [pc EXCEPT ![c] = "stderr"] /\ Forget(c) /\ UNCHANGED method
  <2>1. Lets(c, Without(c))
    BY <1>13, ForgetLets DEF Fails, server, Places, Methods
  <2> QED BY <1>11, <2>1
<1>14. CASE Receive(c)
  <2>1. CASE Ends(c) /\ pending' = Without(c) /\ UNCHANGED <<requestId, sent, sendLock>>
    BY <1>11, <2>1, EndsLets DEF Routing, RoutingTyped
  <2>2. CASE EnterSend(c, "tools/call", Without(c))
    BY <1>1, <2>2, WithoutOwn, EnterSendKeepsRouting DEF Methods
  <2> QED BY <1>14, <2>1, <2>2 DEF Receive
<1>15. CASE StderrRead(c)
  <2>1. /\ pc[c] = "stderr" /\ UNCHANGED <<requestId, sendLock, sent>>
        /\ pending' \subseteq pending
    BY <1>15 DEF StderrRead
  <2>2. CASE Ends(c)
    BY <2>1, <2>2, GivesUp
  <2>3. CASE Launches(c, "fallback", running)
    BY <2>1, <2>3, LaunchesKeepsRouting
  <2>4. CASE /\ pc' = [pc EXCEPT ![c] = "cleanup"]
             /\ UNCHANGED <<method, request, future, got>>
    BY <2>1, <2>4, MovesOn
  <2> QED BY <1>15, <2>2, <2>3, <2>4 DEF StderrRead
<1>16. CASE FallbackRead(c)
  BY <1>16, GivesUp DEF FallbackRead, wrapper, server
<1>17. CASE CleanupEnds(c)
  <2>1. /\ pc[c] = "cleanup" /\ UNCHANGED <<requestId, sendLock, sent>>
        /\ pending' \subseteq pending
    BY <1>17 DEF CleanupEnds
  <2> QED BY <1>17, <2>1, GivesUp, LaunchesKeepsRouting DEF CleanupEnds
<1>18. CASE Cancelled(c)
  <2>1. Lets(c, pending')
    BY <1>18, EndsLets DEF Cancelled, Routing, RoutingTyped
  <2>2. CASE pc[c] = "wait"
    BY <1>11, <1>18, <2>1, <2>2 DEF Cancelled
  <2>3. CASE pc[c] = "drain"
    <3>1. Lets(c, Disowned(c))
      BY <1>18, <2>1, <2>3 DEF Cancelled
    <3> QED BY <3>1, DisownedOrphan, LetsKeepsRouting
  <2>4. CASE pc[c] \notin {"wait", "drain"}
    <3>1. Lets(c, pending)
      BY <1>18, <2>1, <2>4 DEF Cancelled
    <3> QED BY <1>2, <2>4, <3>1, LetsKeepsRouting
  <2> QED BY <2>2, <2>3, <2>4
<1>19. CASE Fails(c)
  BY <1>12, <1>13, <1>19 DEF Fails
<1> QED BY <1>4, <1>5, <1>6, <1>7, <1>8, <1>9, <1>10, <1>12, <1>14, <1>15, <1>16, <1>17,
           <1>18, <1>19 DEF Resumes, IsLet

(* A message found under an id goes to the caller waiting for that id: it is  *)
(* that caller's response, or the server's own.                               *)
LEMMA RouteKeepsRouting ==
  ASSUME IInv, NEW r \in Procs, Route(r)
  PROVE  Routing'
<1> USE DEF IInv
<1> DEFINE own == {[id |-> i, proc |-> on[r], by |-> None, call |-> 0, method |-> "none"] :
                     i \in {0} \cup OwnIds}
<1>1. PICK m \in {q \in sent : q.proc = on[r]} \cup own :
        LET waiting == {e.by : e \in {x \in pending : x.id = m.id}}
            to == {c \in Callers \cap waiting : future[c] = "unset"}
        IN /\ got' = [c \in Callers |-> IF c \in to THEN m ELSE got[c]]
           /\ ReadOn(r, [c \in Callers |-> IF c \in to THEN "answered" ELSE future[c]], pending)
  BY DEF Route
<1> DEFINE to == {c \in Callers \cap {e.by : e \in {x \in pending : x.id = m.id}} :
                    future[c] = "unset"}
<1>m. m \in sent \/ m \in FromServer
  BY <1>1, OwnIdsAreNaturals DEF FromServer, RestTyped
<1>2. \A c \in to : c \in Awaiting /\ Answers(m, request[c])
  <2> TAKE c \in to
  <2>1. c \in Awaiting /\ m.id = request[c].id
    BY NoneIsNoCaller DEF Routing, PendingIsAwaited, Awaiting
  <2> QED BY <1>m, <2>1 DEF Routing, SentIsOwn, Answers
<1>3. /\ got' = [c \in Callers |-> IF c \in to THEN m ELSE got[c]]
      /\ ReadOn(r, [c \in Callers |-> IF c \in to THEN "answered" ELSE future[c]], pending)
  BY <1>1
<1>4. UNCHANGED <<requestId, sendLock, pc, method, request, sent>>
  BY DEF Route, server
<1>t. m \in Requests \cup FromServer
  BY <1>m DEF Routing, RoutingTyped
<1> HIDE DEF to, own
<1>5. pending' \subseteq pending
  BY <1>3 DEF ReadOn
<1>6. \A c \in Callers : /\ future'[c] \in Futures
                         /\ future'[c] = "answered" => c \in to \/ future[c] = "answered"
  BY <1>3 DEF ReadOn, Routing, RoutingTyped, Futures
<1>7. future' \in [Callers -> Futures]
  <2>1. DOMAIN future' = Callers /\ future' = [c \in Callers |-> future'[c]]
    BY <1>3 DEF ReadOn
  <2> QED BY <1>6, <2>1
<1>8. RoutingTyped'
  <2>1. got' \in [Callers -> Requests \cup FromServer]
    BY <1>3, <1>t DEF Routing, RoutingTyped
  <2> QED BY <1>4, <1>5, <1>7, <2>1 DEF Routing, RoutingTyped
<1>9. IdsAreTaken' /\ SentIsOwn' /\ PendingIsAwaited'
  BY <1>4, <1>5 DEF Routing, IdsAreTaken, SentIsOwn, PendingIsAwaited, Awaiting
<1>10. GotIsOwn'
  BY <1>2, <1>3, <1>4, <1>6 DEF Routing, GotIsOwn, Awaiting
<1> QED BY <1>8, <1>9, <1>10 DEF Routing

LEMMA OtherStepsKeep ==
  ASSUME IInv, astray' \in BOOLEAN,
         \/ \E k \in Closers : Close(k) \/ CloseEnds(k)
         \/ \E r \in Procs : ReaderStarts(r) \/ Route(r) \/ ReaderStops(r)
         \/ Exits
  PROVE  RestTyped' /\ Routing'
<1> USE DEF IInv
<1>1. ASSUME NEW k \in Closers, Close(k)
      PROVE  RestTyped' /\ Routing'
  <2>1. RestTyped'
    BY <1>1, OverTyped DEF RestTyped, Close, CancelReader, server
  <2>2. Routing'
    BY <1>1, FailPendingKeepsRouting DEF Close, server
  <2> QED BY <2>1, <2>2
<1>2. ASSUME NEW k \in Closers, CloseEnds(k)
      PROVE  RestTyped' /\ Routing'
  <2>1. RestTyped'
    <3>1. /\ target' \in [Closers -> MaybeProc]
          /\ closing' \in [Closers -> {"ready", "closing", "done"}]
      BY <1>2, BoundsAreNaturals DEF RestTyped, CloseEnds, MaybeProc
    <3>2. process' \in MaybeProc
      BY <1>2, BoundsAreNaturals DEF RestTyped, CloseEnds, MaybeProc
    <3>3. running' \subseteq Procs /\ initialized' \in BOOLEAN
      BY <1>2 DEF RestTyped, CloseEnds
    <3>4. held' = held /\ spawned' = spawned
      BY <1>2 DEF CloseEnds
    <3> QED BY <1>2, <3>1, <3>2, <3>3, <3>4 DEF RestTyped, CloseEnds, caller, readers
  <2>2. Routing'
    BY <1>2, UnchangedRouting DEF CloseEnds, caller, RoutingVars
  <2> QED BY <2>1, <2>2
<1>3. ASSUME NEW r \in Procs, ReaderStarts(r)
      PROVE  RestTyped' /\ Routing'
  <2>1. RestTyped'
    BY <1>3, ReadOnTyped DEF RestTyped, ReaderStarts, server, closer
  <2>2. CASE future' = future /\ pending' = pending
    BY <1>3, <2>1, <2>2, UnchangedRouting DEF ReaderStarts, server, RoutingVars
  <2>3. CASE /\ future' = [c \in Callers |->
                     IF future[c] = "unset" /\ \E e \in pending : e.by = c
                       THEN "failed" ELSE future[c]]
             /\ pending' = {}
    BY <1>3, <2>1, <2>3, FailPendingKeepsRouting DEF ReaderStarts, server, FailPending
  <2> QED BY <1>3, <2>2, <2>3, <2>1 DEF ReaderStarts, ReadOn
<1>4. ASSUME NEW r \in Procs, Route(r)
      PROVE  RestTyped' /\ Routing'
  <2>1. RestTyped'
    BY <1>4, ReadOnTyped DEF RestTyped, Route, server, closer
  <2> QED BY <1>4, <2>1, RouteKeepsRouting
<1>5. ASSUME NEW r \in Procs, ReaderStops(r)
      PROVE  RestTyped' /\ Routing'
  <2>1. RestTyped'
    BY <1>5, OverTyped DEF RestTyped, ReaderStops, server, closer
  <2>2. Routing'
    BY <1>5, FailPendingKeepsRouting DEF ReaderStops, server
  <2> QED BY <2>1, <2>2
<1>6. CASE Exits
  <2>1. RestTyped'
    BY <1>6 DEF RestTyped, Exits, wrapper, caller, closer, readers
  <2>2. Routing'
    BY <1>6, UnchangedRouting DEF Exits, wrapper, caller, RoutingVars
  <2> QED BY <2>1, <2>2
<1> QED BY <1>1, <1>2, <1>3, <1>4, <1>5, <1>6

(* The invariant holds in every reachable state: types, ids that are not      *)
(* ahead of the counter, own requests, own responses, awaited registrations.  *)
THEOREM WrapperInvariance == Spec => []IInv
<1>1. Init => IInv
  <2> SUFFICES ASSUME Init PROVE IInv
    OBVIOUS
  <2>1. RestTyped
    <3>1. 0 \in MaybeProc /\ 0 \in 0 .. MaxCalls
      BY BoundsAreNaturals DEF MaybeProc
    <3> QED BY <3>1 DEF Init, RestTyped
  <2>2. RoutingTyped
    BY NoRequestTyped DEF Init, RoutingTyped, Places, Methods, Futures
  <2>3. IdsAreTaken /\ SentIsOwn /\ GotIsOwn /\ PendingIsAwaited
    BY DEF Init, IdsAreTaken, SentIsOwn, GotIsOwn, PendingIsAwaited, Awaiting, NoRequest
  <2> QED BY <2>1, <2>2, <2>3 DEF IInv, Routing
<1>2. IInv /\ [Next]_vars => IInv'
  <2> SUFFICES ASSUME IInv, [Next]_vars PROVE IInv'
    OBVIOUS
  <2>1. CASE Next
    <3>1. astray' \in BOOLEAN
      <4>1. (astray \/ Cardinality(Starting') + Cardinality(Closing') > 1) \in BOOLEAN
        OBVIOUS
      <4>2. \A c \in Callers :
              (astray \/ (pc[c] = "fallback" /\ held[c] \in running')) \in BOOLEAN
        OBVIOUS
      <4> QED BY <2>1, <4>1, <4>2 DEF Next, Observe, Cancelled
    <3>2. ASSUME NEW c \in Callers, CallTool(c) \/ Resumes(c) \/ IsLet(c) \/ Cancelled(c)
          PROVE  IInv'
      BY <3>1, <3>2, CallerKeepsTypes, CallerKeepsRouting DEF IInv
    <3>3. CASE \/ \E k \in Closers : Close(k) \/ CloseEnds(k)
               \/ \E r \in Procs : ReaderStarts(r) \/ Route(r) \/ ReaderStops(r)
               \/ Exits
      BY <3>1, <3>3, OtherStepsKeep DEF IInv
    <3> QED BY <2>1, <3>2, <3>3 DEF Next, Step
  <2>2. CASE UNCHANGED vars
    <3>1. RestTyped'
      BY <2>2 DEF IInv, RestTyped, vars, wrapper, caller, closer, server, readers
    <3>2. Routing'
      BY <2>2, UnchangedRouting DEF IInv, RoutingVars, vars, wrapper, caller, server
    <3> QED BY <3>1, <3>2 DEF IInv
  <2> QED BY <2>1, <2>2
<1> QED BY <1>1, <1>2, PTL DEF Spec

(* Every variable keeps its type. *)
THEOREM WrapperTyped == Spec => []TypeOK
<1>1. IInv => TypeOK
  BY DEF IInv, RestTyped, Routing, RoutingTyped, TypeOK
<1> QED BY <1>1, WrapperInvariance, PTL

(* No caller is answered in the place of another: what reaches a request is   *)
(* its response, or a message the server sent under that id, for any number   *)
(* of callers, restarts and readers and whatever the server sends.            *)
THEOREM RoutesToOwner == Spec => []OwnAnswer
<1>1. IInv => OwnAnswer
  BY DEF IInv, Routing, GotIsOwn, Awaiting, OwnAnswer
<1> QED BY <1>1, WrapperInvariance, PTL

(* The table of pending requests holds awaited requests only.                 *)
THEOREM NothingLeftPending == Spec => []PendingIsAwaited
<1>1. IInv => PendingIsAwaited
  BY DEF IInv, Routing
<1> QED BY <1>1, WrapperInvariance, PTL

(****************************************************************************)
(* The process                                                              *)
(*                                                                          *)
(* Only a start or a close replaces the process of the wrapper. While one   *)
(* of them is on its own nothing replaces the process behind its back: what *)
(* a start saw dead is still all there was, and what a close waits for is   *)
(* still what the wrapper holds.                                            *)
(****************************************************************************)

LEMMA TurnsFinite ==
  /\ Cardinality(Starting) \in Nat /\ Cardinality(Closing) \in Nat
  /\ IsFiniteSet(Starting) /\ IsFiniteSet(Closing)
<1>1. Starting \subseteq Callers /\ Closing \subseteq Closers
  BY DEF Starting, Closing
<1> QED BY <1>1, FinitelyMany, FS_Subset, FS_CardinalityType

LEMMA OneOfTwo ==
  ASSUME NEW S, NEW T, IsFiniteSet(S), IsFiniteSet(T),
         Cardinality(S) + Cardinality(T) <= 1, NEW x \in S
  PROVE  S = {x} /\ T = {}
<1>1. IsFiniteSet(S \ {x}) /\ Cardinality(S \ {x}) = Cardinality(S) - 1
  BY FS_RemoveElement
<1>2. /\ Cardinality(S) \in Nat /\ Cardinality(T) \in Nat
      /\ Cardinality(S \ {x}) \in Nat
  BY <1>1, FS_CardinalityType
<1>3. Cardinality(S \ {x}) = 0 /\ Cardinality(T) = 0
  BY <1>1, <1>2
<1>4. S \ {x} = {} /\ T = {}
  BY <1>1, <1>3, FS_EmptySet
<1> QED BY <1>4

(* Whoever starts or closes a process does so alone. *)
LEMMA Alone ==
  ASSUME ~astray, TakesTurns
  PROVE  /\ \A c \in Starting : Starting = {c} /\ Closing = {}
         /\ \A k \in Closing : Closing = {k} /\ Starting = {}
<1>1. /\ Cardinality(Starting) + Cardinality(Closing) <= 1
      /\ Cardinality(Closing) + Cardinality(Starting) <= 1
  BY TurnsFinite DEF TakesTurns
<1> QED BY <1>1, OneOfTwo, TurnsFinite

StartPlaces == {"spawn", "nap", "exitread", "fallback", "fallbackread", "stderr", "cleanup"}

(* Only a caller at a start has a process in hand. *)
LEMMA InHand ==
  ASSUME IInv, ProcessInv, ~astray, NEW c \in Callers,
         \A d \in Callers \ {c} : pc[d] \notin StartPlaces
  PROVE  /\ \A d \in Callers \ {c} : held[d] = 0
         /\ running \subseteq {process, held[c]}
         /\ pc[c] \notin {"spawn", "fallback"} => running \subseteq {process}
<1>1. \A d \in Callers \ {c} : held[d] = 0
  BY DEF ProcessInv, TakesTurns, StartPlaces
<1>2. 0 \notin running
  BY DEF IInv, RestTyped, Procs
<1>3. running \subseteq {process, held[c]}
  BY <1>1, <1>2 DEF ProcessInv, KnowsItsProcess
<1>4. pc[c] \notin {"spawn", "fallback"} => held[c] = 0 \/ held[c] = process
  BY DEF ProcessInv, TakesTurns
<1> QED BY <1>1, <1>2, <1>3, <1>4

(* A caller that is at a start, or comes to one, is alone there. *)
LEMMA AtStart ==
  ASSUME IInv, ProcessInv, ~astray, NEW c \in Callers, NEW p \in Places,
         pc' = [pc EXCEPT ![c] = p], closing' = closing,
         pc[c] \in StartPlaces \/ p \in StartPlaces,
         Cardinality(Starting') + Cardinality(Closing') <= 1,
         IsFiniteSet(Starting'), IsFiniteSet(Closing')
  PROVE  /\ \A d \in Callers \ {c} : pc[d] \notin StartPlaces
         /\ Closing' = {}
<1>0. pc \in [Callers -> Places]
  BY DEF IInv, Routing, RoutingTyped
<1>1. CASE pc[c] \in StartPlaces
  <2>1. c \in Starting
    BY <1>1 DEF Starting, StartPlaces
  <2>2. Starting = {c} /\ Closing = {}
    BY <2>1, Alone DEF ProcessInv
  <2> QED BY <2>2 DEF Starting, Closing, StartPlaces
<1>2. CASE p \in StartPlaces
  <2>1. c \in Starting'
    BY <1>0, <1>2 DEF Starting, StartPlaces
  <2>2. Starting' = {c} /\ Closing' = {}
    BY <2>1, OneOfTwo
  <2>3. \A d \in Callers \ {c} : pc'[d] \notin StartPlaces /\ pc'[d] = pc[d]
    BY <1>0, <2>2 DEF Starting, StartPlaces
  <2> QED BY <2>2, <2>3
<1> QED BY <1>1, <1>2

(* What such a caller c does to the processes: it goes to place p and has     *)
(* process h in hand then.                                                    *)
LEMMA SoloStep ==
  ASSUME IInv, ProcessInv, ~astray, NEW c \in Callers, NEW p \in Places,
         NEW h \in MaybeProc,
         pc' = [pc EXCEPT ![c] = p], held' = [held EXCEPT ![c] = h],
         \A d \in Callers \ {c} : pc[d] \notin StartPlaces,
         Closing' = {}, Cardinality(Starting') + Cardinality(Closing') <= 1,
         running' \subseteq {process', h},
         h # 0 => p \in {"spawn", "fallback", "cleanup"},
         p \in {"spawn", "fallback"} => running' \subseteq {h},
         p \in {"exitread", "fallbackread"} => running' = {},
         p = "cleanup" => h = process'
  PROVE  ProcessInv'
<1>1. /\ pc \in [Callers -> Places] /\ held \in [Callers -> MaybeProc]
  BY DEF IInv, RestTyped, Routing, RoutingTyped
<1>2. pc'[c] = p /\ held'[c] = h
  BY <1>1
<1>3. \A d \in Callers \ {c} : pc'[d] \notin StartPlaces /\ held'[d] = 0
  BY <1>1, InHand
<1>4. KnowsItsProcess'
  BY <1>2 DEF KnowsItsProcess
<1>5. \A d \in Callers :
        /\ held'[d] # 0 => pc'[d] \in {"spawn", "fallback", "cleanup"}
        /\ pc'[d] \in {"spawn", "fallback"} => running' \subseteq {held'[d]}
        /\ pc'[d] \in {"exitread", "fallbackread"} => running' = {}
        /\ pc'[d] = "cleanup" => held'[d] = process'
  BY <1>2, <1>3 DEF StartPlaces
<1> QED BY <1>4, <1>5 DEF ProcessInv, TakesTurns

(* A step that leaves the processes alone and starts none. *)
LEMMA ProcessStays ==
  ASSUME IInv, ProcessInv, ~astray, process' = process, running' \subseteq running,
         held' = held,
         \A c \in Callers : pc'[c] = pc[c] \/ (held[c] = 0 /\ pc'[c] \notin StartPlaces),
         \A k \in Closing' : target'[k] = process \/ (k \in Closing /\ target'[k] = target[k]),
         Cardinality(Starting') + Cardinality(Closing') <= 1
  PROVE  ProcessInv'
<1>1. KnowsItsProcess'
  BY DEF ProcessInv, KnowsItsProcess
<1>2. \A c \in Callers :
        /\ held'[c] # 0 => pc'[c] \in {"spawn", "fallback", "cleanup"}
        /\ pc'[c] \in {"spawn", "fallback"} => running' \subseteq {held'[c]}
        /\ pc'[c] \in {"exitread", "fallbackread"} => running' = {}
        /\ pc'[c] = "cleanup" => held'[c] = process'
  BY DEF ProcessInv, TakesTurns, StartPlaces
<1>3. \A k \in Closing' : target'[k] = process'
  BY DEF ProcessInv, TakesTurns
<1> QED BY <1>1, <1>2, <1>3 DEF ProcessInv, TakesTurns

(* Wherever _send_request leaves a caller, it is at no start. *)
LEMMA SendingIsNoStart ==
  ASSUME NEW c \in Callers, NEW m, NEW others, EnterSend(c, m, others)
  PROVE  \E p \in {"idle", "lock", "drain", "wait"} : pc' = [pc EXCEPT ![c] = p]
  BY DEF EnterSend, Send, Ends

(* A caller with no other process about starts one. *)
LEMMA LaunchKeepsProcess ==
  ASSUME IInv, ProcessInv, ~astray, NEW c \in Callers, NEW place \in {"spawn", "fallback"},
         \A d \in Callers \ {c} : pc[d] \notin StartPlaces, closing' = closing,
         Closing' = {}, Cardinality(Starting') + Cardinality(Closing') <= 1,
         Launches(c, place, {})
  PROVE  ProcessInv'
<1>0. 0 \in MaybeProc
  BY BoundsAreNaturals DEF MaybeProc
<1>1. CASE /\ spawned < MaxSpawn
           /\ spawned' = spawned + 1
           /\ held' = [held EXCEPT ![c] = spawned']
           /\ running' = {spawned'}
           /\ pc' = [pc EXCEPT ![c] = place]
  <2>1. spawned' \in MaybeProc
    BY <1>1, BoundsAreNaturals DEF IInv, RestTyped, MaybeProc
  <2>2. PICK h \in MaybeProc : h = spawned'
    BY <2>1
  <2> QED BY <1>1, <2>2, SoloStep DEF Places
<1>2. CASE held' = [held EXCEPT ![c] = 0] /\ running' = {} /\ Ends(c)
  BY <1>0, <1>2, SoloStep DEF Ends, Places
<1> QED BY <1>1, <1>2 DEF Launches

LEMMA CallerKeepsProcess ==
  ASSUME IInv, ProcessInv, ~astray, NEW c \in Callers,
         CallTool(c) \/ Resumes(c) \/ IsLet(c),
         IsFiniteSet(Starting'), IsFiniteSet(Closing'),
         Cardinality(Starting') + Cardinality(Closing') <= 1
  PROVE  ProcessInv'
<1>1. /\ pc \in [Callers -> Places] /\ held \in [Callers -> MaybeProc]
      /\ running \subseteq Procs /\ 0 \notin Procs /\ 0 \in MaybeProc
      /\ closing' = closing /\ target' = target
  <2>1. closing' = closing /\ target' = target
    BY DEF closer, CallTool, Resumes, IsLet, Spawned, NapEnds, ExitRead, FallbackUp,
           FallbackRead, LockAcquired, Drained, DrainFails, Receive, Fails, Timeout,
           StderrRead, CleanupEnds
  <2> QED BY <2>1, BoundsAreNaturals DEF IInv, RestTyped, Routing, RoutingTyped, Procs,
             MaybeProc
<1>2. ASSUME pc[c] \in StartPlaces, NEW p \in Places, pc' = [pc EXCEPT ![c] = p]
      PROVE  /\ \A d \in Callers \ {c} : pc[d] \notin StartPlaces
             /\ Closing' = {}
  BY <1>1, <1>2, AtStart
<1>3. ASSUME pc[c] \notin {"spawn", "fallback", "cleanup"}
      PROVE  held[c] = 0 /\ held = [held EXCEPT ![c] = 0]
  BY <1>1, <1>3 DEF ProcessInv, TakesTurns
<1>4. ASSUME NEW p \in Places, p \notin StartPlaces, pc' = [pc EXCEPT ![c] = p],
             pc[c] \notin {"spawn", "fallback", "cleanup"},
             process' = process, running' = running, held' = held
      PROVE  ProcessInv'
  <2>1. \A d \in Callers : pc'[d] = pc[d] \/ (held[d] = 0 /\ pc'[d] \notin StartPlaces)
    BY <1>1, <1>3, <1>4
  <2>2. Closing' = Closing
    BY <1>1 DEF Closing
  <2> QED BY <1>1, <1>4, <2>1, <2>2, ProcessStays
<1>5. ASSUME NEW m, NEW others, EnterSend(c, m, others),
             pc[c] \notin {"spawn", "fallback", "cleanup"},
             process' = process, running' = running, held' = held
      PROVE  ProcessInv'
  BY <1>4, <1>5, SendingIsNoStart DEF Places, StartPlaces
<1>6. CASE CallTool(c)
  <2>1. pc[c] = "idle" /\ process' = process
    BY <1>6 DEF CallTool
  <2>2. CASE /\ UNCHANGED <<held, running, spawned>>
             /\ EnterSend(c, IF initialized THEN "tools/call" ELSE "initialize", pending)
    BY <1>5, <2>1, <2>2
  <2>3. CASE process = 0 /\ Launches(c, "spawn", running)
    <3>1. CASE pc' = [pc EXCEPT ![c] = "spawn"]
      <4>1. /\ \A d \in Callers \ {c} : pc[d] \notin StartPlaces
            /\ Closing' = {}
        BY <1>1, <3>1, AtStart DEF Places, StartPlaces
      <4>2. running = {}
        BY <1>1, <2>1, <2>3, <4>1, InHand
      <4> QED BY <1>1, <2>3, <4>1, <4>2, LaunchKeepsProcess
    <3>2. CASE Ends(c) /\ running' = running /\ held' = [held EXCEPT ![c] = 0]
      BY <1>3, <1>4, <2>1, <3>2 DEF Ends, Places, StartPlaces
    <3> QED BY <2>3, <3>1, <3>2 DEF Launches
  <2> QED BY <1>6, <2>2, <2>3 DEF CallTool
<1>7. CASE Spawned(c)
  <2>1. pc[c] = "spawn" /\ pc' = [pc EXCEPT ![c] = "nap"] /\ running' = running
        /\ process' = held[c] /\ held' = [held EXCEPT ![c] = 0]
    BY <1>7 DEF Spawned, Stores
  <2>2. /\ \A d \in Callers \ {c} : pc[d] \notin StartPlaces
        /\ Closing' = {}
    BY <1>2, <2>1 DEF Places, StartPlaces
  <2>3. running \subseteq {held[c]}
    BY <2>1 DEF ProcessInv, TakesTurns
  <2>4. running' \subseteq {process', 0}
    BY <2>1, <2>3
  <2>5. "nap" \in Places
    BY DEF Places
  <2> QED BY <1>1, <2>1, <2>2, <2>4, <2>5, SoloStep
<1>8. CASE NapEnds(c)
  <2>1. /\ pc[c] = "nap" /\ process' = process /\ running' = running /\ held' = held
    BY <1>8 DEF NapEnds
  <2>2. CASE process \in running
    BY <1>5, <1>8, <2>1, <2>2 DEF NapEnds
  <2>3. CASE Ends(c)
    BY <1>4, <2>1, <2>3 DEF Ends, Places, StartPlaces
  <2>4. CASE process \notin running /\ pc' = [pc EXCEPT ![c] = "exitread"]
    <3>1. /\ \A d \in Callers \ {c} : pc[d] \notin StartPlaces
          /\ Closing' = {}
      BY <1>2, <2>1, <2>4 DEF Places, StartPlaces
    <3>2. running = {}
      BY <2>1, <2>4, <3>1, InHand
    <3>3. held' = [held EXCEPT ![c] = 0]
      BY <1>3, <2>1
    <3> QED BY <1>1, <2>1, <2>4, <3>1, <3>2, <3>3, SoloStep DEF Places
  <2> QED BY <1>8, <2>2, <2>3, <2>4 DEF NapEnds
<1>9. CASE ExitRead(c)
  <2>1. pc[c] = "exitread" /\ process' = process
    BY <1>9 DEF ExitRead, wrapper
  <2>2. running = {}
    BY <2>1 DEF ProcessInv, TakesTurns
  <2>3. CASE Launches(c, "fallback", running)
    <3>1. \E p \in {"fallback", "idle"} : pc' = [pc EXCEPT ![c] = p]
      BY <2>3 DEF Launches, Ends
    <3>2. /\ \A d \in Callers \ {c} : pc[d] \notin StartPlaces
          /\ Closing' = {}
      BY <1>2, <2>1, <3>1 DEF Places, StartPlaces
    <3> QED BY <1>1, <2>2, <2>3, <3>2, LaunchKeepsProcess
  <2>4. CASE Ends(c) /\ UNCHANGED <<held, running, spawned>>
    BY <1>4, <2>1, <2>4 DEF Ends, Places, StartPlaces
  <2> QED BY <1>9, <2>3, <2>4 DEF ExitRead
<1>10. CASE FallbackUp(c)
  <2>1. pc[c] = "fallback" /\ running' = running
    BY <1>10 DEF FallbackUp
  <2>2. running \subseteq {held[c]}
    BY <2>1 DEF ProcessInv, TakesTurns
  <2>3. PICK p \in {"idle", "lock", "drain", "wait", "fallbackread"} :
               pc' = [pc EXCEPT ![c] = p]
    BY <1>10, SendingIsNoStart DEF FallbackUp
  <2>4. /\ \A d \in Callers \ {c} : pc[d] \notin StartPlaces
        /\ Closing' = {}
    BY <1>2, <2>1, <2>3 DEF Places, StartPlaces
  <2>5. CASE Stores(c) /\ EnterSend(c, "initialize", pending)
    <3>1. p # "fallbackread"
      BY <1>1, <2>3, <2>5, SendingIsNoStart
    <3>2. running' \subseteq {process', 0} /\ held' = [held EXCEPT ![c] = 0]
      BY <2>1, <2>2, <2>5 DEF Stores
    <3>3. p \in {"idle", "lock", "drain", "wait"} /\ p \in Places
      BY <3>1 DEF Places
    <3> QED BY <1>1, <2>3, <2>4, <3>2, <3>3, SoloStep
  <2>6. CASE held[c] \notin running /\ held' = [held EXCEPT ![c] = 0] /\ process' = process
    <3>1. running' = {}
      BY <2>1, <2>2, <2>6
    <3>2. p \in Places /\ p \notin {"spawn", "fallback", "cleanup"}
      BY DEF Places
    <3> QED BY <1>1, <2>3, <2>4, <2>6, <3>1, <3>2, SoloStep
  <2> QED BY <1>10, <2>5, <2>6 DEF FallbackUp
<1>11. CASE \/ FallbackRead(c) \/ LockAcquired(c) \/ Drained(c) \/ DrainFails(c)
            \/ Timeout(c)
  <2>1. process' = process /\ running' = running /\ held' = held
        /\ pc[c] \notin {"spawn", "fallback", "cleanup"}
    BY <1>11 DEF FallbackRead, LockAcquired, Drained, DrainFails, Timeout, wrapper, server
  <2>2. \E p \in {"idle", "wait", "drain"} : pc' = [pc EXCEPT ![c] = p]
    BY <1>11 DEF FallbackRead, LockAcquired, Drained, DrainFails, Timeout, Send, Ends
  <2> QED BY <1>4, <2>1, <2>2 DEF Places, StartPlaces
<1>12. CASE Receive(c)
  <2>1. process' = process /\ running' = running /\ held' = held /\ pc[c] = "wait"
    BY <1>12 DEF Receive
  <2>2. CASE Ends(c)
    BY <1>4, <2>1, <2>2 DEF Ends, Places, StartPlaces
  <2> QED BY <1>5, <1>12, <2>1, <2>2 DEF Receive
<1>13. CASE Fails(c)
  <2>1. process' = process /\ running' = running /\ held' = held /\ pc[c] = "wait"
    BY <1>13 DEF Fails, server
  <2>2. CASE Ends(c)
    BY <1>4, <2>1, <2>2 DEF Ends, Places, StartPlaces
  <2>3. CASE pc' = [pc EXCEPT ![c] = "stderr"]
    <3>1. /\ \A d \in Callers \ {c} : pc[d] \notin StartPlaces
          /\ Closing' = {}
      BY <1>1, <2>3, AtStart DEF Places, StartPlaces
    <3>2. running' \subseteq {process'} /\ held' = [held EXCEPT ![c] = 0]
      BY <1>3, <2>1, <3>1, InHand
    <3> QED BY <1>1, <2>3, <3>1, <3>2, SoloStep, ZenonT(40) DEF Places
  <2> QED BY <1>13, <2>2, <2>3 DEF Fails
<1>14. CASE StderrRead(c)
  <2>1. pc[c] = "stderr" /\ process' = process
    BY <1>14 DEF StderrRead
  <2>2. PICK p \in {"idle", "fallback", "cleanup"} : pc' = [pc EXCEPT ![c] = p]
    BY <1>14 DEF StderrRead, Launches, Ends
  <2>3. /\ \A d \in Callers \ {c} : pc[d] \notin StartPlaces
        /\ Closing' = {}
    BY <1>2, <2>1, <2>2 DEF Places, StartPlaces
  <2>4. running \subseteq {process}
    BY <2>1, <2>3, InHand
  <2>5. CASE Ends(c) /\ UNCHANGED <<held, running>>
    BY <1>4, <2>1, <2>5 DEF Ends, Places, StartPlaces
  <2>6. CASE process = 0 /\ Launches(c, "fallback", running)
    <3>1. running = {}
      BY <1>1, <2>4, <2>6
    <3> QED BY <1>1, <2>3, <2>6, <3>1, LaunchKeepsProcess
  <2>7. CASE /\ pc' = [pc EXCEPT ![c] = "cleanup"]
             /\ held' = [held EXCEPT ![c] = process] /\ running' = running
    <3>1. PICK h \in MaybeProc : h = process
      BY DEF IInv, RestTyped
    <3>2. "cleanup" \in Places /\ running' \subseteq {process', h} /\ h = process'
      BY <2>1, <2>4, <2>7, <3>1 DEF Places
    <3> QED BY <1>1, <2>3, <2>7, <3>1, <3>2, SoloStep
  <2> QED BY <1>14, <2>5, <2>6, <2>7 DEF StderrRead
<1>15. CASE CleanupEnds(c)
  <2>1. pc[c] = "cleanup" /\ held[c] = process
    BY <1>15 DEF CleanupEnds, ProcessInv, TakesTurns
  <2>2. PICK p \in {"idle", "fallback"} : pc' = [pc EXCEPT ![c] = p]
    BY <1>15 DEF CleanupEnds, Launches, Ends
  <2>3. /\ \A d \in Callers \ {c} : pc[d] \notin StartPlaces
        /\ Closing' = {}
    BY <1>2, <2>1, <2>2 DEF Places, StartPlaces
  <2>4. running \subseteq {process}
    BY <2>1, <2>3, InHand
  <2>5. (IF held[c] \in running THEN running \ {process} ELSE running) = {}
    BY <2>1, <2>4
  <2>6. Launches(c, "fallback",
                 IF held[c] \in running THEN running \ {process} ELSE running)
    BY <1>1, <1>15, <2>1 DEF CleanupEnds
  <2> QED BY <1>1, <2>3, <2>5, <2>6, LaunchKeepsProcess
<1> QED BY <1>6, <1>7, <1>8, <1>9, <1>10, <1>11, <1>12, <1>13, <1>14, <1>15
        DEF Resumes, IsLet

(* A caller that is cancelled loses no process but that of a fallback. *)
LEMMA CancelledKeepsProcess ==
  ASSUME IInv, ProcessInv, NEW c \in Callers, Cancelled(c), ~astray'
  PROVE  ProcessInv'
<1>0. ~astray /\ ~(pc[c] = "fallback" /\ held[c] \in running')
  BY DEF Cancelled
<1>1. /\ pc \in [Callers -> Places] /\ held \in [Callers -> MaybeProc] /\ 0 \in MaybeProc
      /\ pc' = [pc EXCEPT ![c] = "idle"] /\ held' = [held EXCEPT ![c] = 0]
      /\ process' = process /\ closing' = closing /\ target' = target
      /\ ~astray /\ ~(pc[c] = "fallback" /\ held[c] \in running')
  BY <1>0, BoundsAreNaturals
  DEF Cancelled, Ends, closer, IInv, RestTyped, Routing, RoutingTyped, MaybeProc
<1>2. /\ running' \subseteq running
      /\ pc[c] \in {"spawn", "fallback"} => held[c] \notin running'
  BY <1>1 DEF Cancelled
<1>3. Starting' \subseteq Starting /\ Closing' = Closing
  BY <1>1 DEF Starting, Closing
<1>4. /\ Cardinality(Starting') \in Nat /\ Cardinality(Starting') <= Cardinality(Starting)
  BY <1>3, TurnsFinite, FS_Subset, FS_CardinalityType
<1>5. Cardinality(Starting') + Cardinality(Closing') <= 1
  BY <1>1, <1>3, <1>4, TurnsFinite DEF ProcessInv, TakesTurns
<1>6. CASE pc[c] \in StartPlaces
  <2>1. c \in Starting
    BY <1>6 DEF Starting, StartPlaces
  <2>2. Starting = {c} /\ Closing = {}
    BY <1>1, <2>1, Alone DEF ProcessInv
  <2>3. \A d \in Callers \ {c} : pc[d] \notin StartPlaces
    BY <2>2 DEF Starting, StartPlaces
  <2>4. running' \subseteq {process'}
    BY <1>1, <1>2, <2>3, InHand
  <2> QED BY <1>1, <1>3, <1>5, <2>2, <2>3, <2>4, SoloStep DEF Places
<1>7. CASE pc[c] \notin StartPlaces
  <2>1. held[c] = 0 /\ held' = held
    BY <1>1, <1>7 DEF ProcessInv, TakesTurns, StartPlaces
  <2>2. \A d \in Callers : pc'[d] = pc[d] \/ (held[d] = 0 /\ pc'[d] \notin StartPlaces)
    BY <1>1, <2>1 DEF StartPlaces
  <2> QED BY <1>1, <1>2, <1>3, <1>5, <2>1, <2>2, ProcessStays
<1> QED BY <1>6, <1>7

LEMMA OthersKeepProcess ==
  ASSUME IInv, ProcessInv, ~astray,
         \/ \E k \in Closers : Close(k) \/ CloseEnds(k)
         \/ \E r \in Procs : ReaderStarts(r) \/ Route(r) \/ ReaderStops(r)
         \/ Exits,
         Cardinality(Starting') + Cardinality(Closing') <= 1
  PROVE  ProcessInv'
<1>1. ASSUME NEW k \in Closers, Close(k)
      PROVE  ProcessInv'
  <2>1. process' = process /\ running' = running /\ held' = held /\ pc' = pc
    BY <1>1 DEF Close, server
  <2>2. /\ closing \in [Closers -> {"ready", "closing", "done"}]
        /\ target \in [Closers -> MaybeProc]
    BY DEF IInv, RestTyped
  <2>3. \A j \in Closing' : target'[j] = process \/ (j \in Closing /\ target'[j] = target[j])
    BY <1>1, <2>2 DEF Close, Closing
  <2> QED BY <2>1, <2>3, ProcessStays
<1>2. ASSUME NEW k \in Closers, CloseEnds(k)
      PROVE  ProcessInv'
  <2>1. k \in Closing
    BY <1>2 DEF CloseEnds, Closing
  <2>2. Closing = {k} /\ Starting = {} /\ target[k] = process
    BY <2>1, Alone DEF ProcessInv, TakesTurns
  <2>3. \A d \in Callers : pc[d] \notin StartPlaces /\ held[d] = 0
    BY <2>2 DEF Starting, StartPlaces, ProcessInv, TakesTurns
  <2>4. running \subseteq {process}
    <3>1. 0 \notin running
      BY DEF IInv, RestTyped, Procs
    <3> QED BY <2>3, <3>1 DEF ProcessInv, KnowsItsProcess
  <2>5. running' = {} /\ pc' = pc /\ held' = held
    BY <1>2, <2>2, <2>4 DEF CloseEnds, caller
  <2>6. Closing' = {}
    BY <1>2, <2>2 DEF CloseEnds, Closing, IInv, RestTyped
  <2> QED BY <2>3, <2>5, <2>6 DEF ProcessInv, KnowsItsProcess, TakesTurns, StartPlaces
<1>3. ASSUME process' = process, running' \subseteq running, held' = held, pc' = pc,
             closing' = closing, target' = target
      PROVE  ProcessInv'
  <2>1. Closing' = Closing
    BY <1>3 DEF Closing
  <2> QED BY <1>3, <2>1, ProcessStays
<1>4. CASE Exits
  BY <1>3, <1>4 DEF Exits, wrapper, caller, closer
<1>5. ASSUME NEW r \in Procs, ReaderStarts(r) \/ Route(r) \/ ReaderStops(r)
      PROVE  ProcessInv'
  BY <1>3, <1>5 DEF ReaderStarts, Route, ReaderStops, server, closer
<1> QED BY <1>1, <1>2, <1>4, <1>5

(* As long as starts and closes take turns and no fallback is cancelled, no   *)
(* process the wrapper has started is alive without being its process or in   *)
(* the hand of the call that will store it, whatever fails, exits, times out  *)
(* or is cancelled on the way, at every suspension point of the start.        *)
THEOREM NoneLeftBehind == Spec => []KnowsItsProcess
<1>1. Init => ProcessInv
  <2> SUFFICES ASSUME Init PROVE ProcessInv
    OBVIOUS
  <2>1. Starting = {} /\ Closing = {} /\ running = {}
    BY DEF Init, Starting, Closing
  <2>2. Cardinality({}) = 0
    BY FS_EmptySet
  <2>3. \A c \in Callers : held[c] = 0 /\ pc[c] = "idle"
    BY DEF Init
  <2> QED BY <2>1, <2>2, <2>3 DEF ProcessInv, KnowsItsProcess, TakesTurns
<1>2. IInv /\ ProcessInv /\ [Next]_vars => ProcessInv'
  <2> SUFFICES ASSUME IInv, ProcessInv, [Next]_vars PROVE ProcessInv'
    OBVIOUS
  <2>1. CASE astray'
    BY <2>1 DEF ProcessInv, KnowsItsProcess, TakesTurns
  <2>2. CASE Step /\ Observe /\ ~astray'
    <3>1. ~astray /\ ~(Cardinality(Starting') + Cardinality(Closing') > 1)
      BY <2>2 DEF Observe
    <3>2. /\ Cardinality(Starting') \in Nat /\ Cardinality(Closing') \in Nat
          /\ IsFiniteSet(Starting') /\ IsFiniteSet(Closing')
      <4>1. Starting' \subseteq Callers /\ Closing' \subseteq Closers
        BY DEF Starting, Closing
      <4> QED BY <4>1, FinitelyMany, FS_Subset, FS_CardinalityType
    <3>3. Cardinality(Starting') + Cardinality(Closing') <= 1
      BY <3>1, <3>2
    <3> QED BY <2>2, <3>1, <3>2, <3>3, CallerKeepsProcess, OthersKeepProcess DEF Step
  <2>3. ASSUME NEW c \in Callers, Cancelled(c), ~astray'
        PROVE  ProcessInv'
    BY <2>3, CancelledKeepsProcess
  <2>4. CASE UNCHANGED vars
    BY <2>4 DEF vars, wrapper, caller, closer, server, ProcessInv, KnowsItsProcess,
         TakesTurns, Starting, Closing
  <2> QED BY <2>1, <2>2, <2>3, <2>4 DEF Next
<1>3. ProcessInv => KnowsItsProcess
  BY DEF ProcessInv
<1> QED BY <1>1, <1>2, <1>3, WrapperInvariance, PTL DEF Spec
=============================================================================
