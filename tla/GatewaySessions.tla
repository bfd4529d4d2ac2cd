---------------------------- MODULE GatewaySessions ----------------------------
(* The sessions of the MCP gateway and the resource notifications sent over    *)
(* them: services/mcp_session_store.py, the SSE endpoint and the notification  *)
(* helpers of routers/mcp_unified.py, orchestration/composition_resources.py.  *)
(*                                                                             *)
(* A session is metadata in Redis and a queue in the memory of the process     *)
(* that an SSE stream drains.  Every Redis operation is an await of its own:   *)
(* the actions below are single Redis operations, and single accesses to the   *)
(* map of queues.  Putting a message on a queue never suspends.                *)
(*                                                                             *)
(* A stream registers or rebinds its session, touches it while it lives, and   *)
(* deletes it when it ends.  Helpers do what other parts of the gateway do to  *)
(* sessions: close those of a user whose tools changed, and walk those of an   *)
(* organization to notify them.  Posts are JSON-RPC calls and executions that  *)
(* concern notifications: an update is pushed to the queues of the subscribed  *)
(* sessions and kept as a row for the others; initialize replays the rows.     *)
(*                                                                             *)
(* Left out: the contents of the queues, and errors of Redis (the backend      *)
(* turns them into missing keys).  The indexes of the sessions of a user and   *)
(* of an organization, lists read and written back by separate operations,     *)
(* lose entries to races and to their expiry and keep dead ones: a helper may  *)
(* find any id there.                                                          *)
EXTENDS Naturals, FiniteSets

CONSTANTS
  Sids,        \* bound on the session ids ever minted
  Users,
  Streams,     \* GET /sse requests in progress
  Helpers,     \* coroutines that close or walk sessions
  Posts,       \* coroutines that notify or replay
  Uris,        \* execution resources
  Chains,      \* the resources one update concerns: an execution, its parents
  None,        \* no metadata
  MaxTouches,  \* bound: SESSION_TIMEOUT_SECONDS / KEEPALIVE_INTERVAL_SECONDS
  MaxBatches,  \* bound on the updates that leave rows in pending_notification
  MaxFailures  \* bound on the streams cancelled and the restarts of the process

ASSUME NoneIsNoUser == None \notin Users
ASSUME ChainsAreUris == Chains \subseteq SUBSET Uris
ASSUME ActorsDiffer == Streams \cap Helpers = {}
ASSUME SessionBounds ==
  MaxTouches \in Nat /\ MaxBatches \in Nat /\ MaxFailures \in Nat

VARIABLES
  minted,    \* session ids handed out so far
  meta,      \* Redis: whose session an id is, None when there is no metadata
  queues,    \* self._queues: the ids with a queue in this process
  act,       \* the streams and helpers: where each is, and its locals
  subs,      \* the subscription tracker: pairs of a session and a resource
  pending,   \* rows of pending_notification
  post,      \* the posts: where each is, and the rows it works on
  batches, failures,         \* for the bounds
  cut,       \* history: sessions whose stream was cancelled before its clean-up
  spent      \* history: rows a replay has put on a queue, or found too old

sessionVars == <<minted, meta, queues, act, cut>>
noteVars == <<subs, pending, post, batches, spent>>
vars == <<sessionVars, noteVars, failures>>

Actors == Streams \cup Helpers

Pcs == {"free", "attach", "rebind", "refresh", "attached", "create", "bind",
        "live", "loop", "touch", "delete", "forget", "unbind", "visited"}

\* The locals of an actor: the session and the user it works for, the metadata
\* it has read, and how often it has refreshed its session.
Actor == [pc : Pcs, sid : Sids \cup {None}, user : Users \cup {None},
          found : Users \cup {None}, touches : 0..MaxTouches]

Starting(place, s, u, m) ==
  [pc |-> place, sid |-> s, user |-> u, found |-> m, touches |-> 0]

Free == Starting("free", None, None, None)

\* A row and the update that wrote it.
Row == [batch : 1..MaxBatches, sid : Sids, uri : Uris]
Post == [pc : {"free", "persist", "push", "drop"}, rows : SUBSET Row]
Idle == [pc |-> "free", rows |-> {}]

At(a, place) == act[a].pc = place
Become(a, r) == act' = [act EXCEPT ![a] = r]
Goto(a, place) == Become(a, [act[a] EXCEPT !.pc = place])

\* A stream in the body of event_generator, or about to enter it with a queue.
Serving == {"refresh", "attached", "live", "loop", "touch", "delete", "forget", "unbind"}

-----------------------------------------------------------------------------
(* The SSE endpoint *)

\* Seeded fault: any known session can be resumed.
ResumeAnyones(g, u, s) ==
  /\ At(g, "free")
  /\ meta[s] # None
  /\ Become(g, Starting("attach", s, u, None))
  /\ UNCHANGED <<minted, meta, queues, cut>>

\* The metadata of the requested id exists and belongs to the caller.
Resume(g, u, s) ==
  /\ At(g, "free")
  /\ meta[s] = u
  /\ Become(g, Starting("attach", s, u, None))
  /\ UNCHANGED <<minted, meta, queues, cut>>

\* No id requested, or not found: a new one is minted.
Fresh(g, u, s) ==
  /\ At(g, "free")
  /\ s \notin minted
  /\ minted' = minted \cup {s}
  /\ Become(g, Starting("create", s, u, None))
  /\ UNCHANGED <<meta, queues, cut>>

-----------------------------------------------------------------------------
(* attach_local_queue *)

AttachRead(g) ==
  /\ At(g, "attach")
  /\ LET m == meta[act[g].sid] IN
     Become(g, [act[g] EXCEPT !.found = m, !.pc = IF m = None THEN "create" ELSE "rebind"])
  /\ UNCHANGED <<minted, meta, queues, cut>>

AttachBind(g) ==
  /\ At(g, "rebind")
  /\ queues' = queues \cup {act[g].sid}
  /\ Goto(g, "refresh")
  /\ UNCHANGED <<minted, meta, cut>>

\* Writes back what was read, even if the metadata was deleted meanwhile.
AttachWrite(g) ==
  /\ At(g, "refresh")
  /\ meta' = [meta EXCEPT ![act[g].sid] = act[g].found]
  /\ Become(g, [act[g] EXCEPT !.pc = "attached", !.found = None])
  /\ UNCHANGED <<minted, queues, cut>>

\* self._queues[sid] raises KeyError when the queue is gone; the stream then
\* ends before it has entered the block that cleans up.
AttachReturn(g) ==
  /\ At(g, "attached")
  /\ IF act[g].sid \in queues THEN Goto(g, "live") ELSE Become(g, Free)
  /\ UNCHANGED <<minted, meta, queues, cut>>

-----------------------------------------------------------------------------
(* create *)

CreateMeta(g) ==
  /\ At(g, "create")
  /\ meta' = [meta EXCEPT ![act[g].sid] = act[g].user]
  /\ Goto(g, "bind")
  /\ UNCHANGED <<minted, queues, cut>>

CreateBind(g) ==
  /\ At(g, "bind")
  /\ queues' = queues \cup {act[g].sid}
  /\ Goto(g, "live")
  /\ UNCHANGED <<minted, meta, cut>>

-----------------------------------------------------------------------------
(* delete, by a stream that ends or by a helper *)

\* Seeded fault: a session without metadata is taken to be cleaned up already.
DeleteReadEarlyReturn(a) ==
  /\ At(a, "delete")
  /\ Become(a, IF meta[act[a].sid] = None THEN Free
               ELSE [act[a] EXCEPT !.pc = "forget"])
  /\ UNCHANGED <<minted, meta, queues, cut>>

\* The metadata only says which indexes to clean.
DeleteRead(a) ==
  /\ At(a, "delete")
  /\ Goto(a, "forget")
  /\ UNCHANGED <<minted, meta, queues, cut>>

DeleteMeta(a) ==
  /\ At(a, "forget")
  /\ meta' = [meta EXCEPT ![act[a].sid] = None]
  /\ Goto(a, "unbind")
  /\ UNCHANGED <<minted, queues, cut>>

DeleteQueue(a) ==
  /\ At(a, "unbind")
  /\ queues' = queues \ {act[a].sid}
  /\ cut' = cut \ {act[a].sid}
  /\ Become(a, Free)
  /\ UNCHANGED <<minted, meta>>

-----------------------------------------------------------------------------
(* The life of a stream *)

\* Seeded fault: the connection has no ceiling.
LoopForever(g) ==
  /\ At(g, "live")
  /\ act[g].sid \in queues
  /\ Become(g, [act[g] EXCEPT !.pc = "loop", !.touches = @ + 1])
  /\ UNCHANGED <<minted, meta, queues, cut>>

\* One turn of the loop per keepalive interval: the connection is younger than
\* the session timeout, and the session still has a queue.
Loop(g) ==
  /\ At(g, "live")
  /\ act[g].sid \in queues
  /\ act[g].touches < MaxTouches
  /\ Become(g, [act[g] EXCEPT !.pc = "loop", !.touches = @ + 1])
  /\ UNCHANGED <<minted, meta, queues, cut>>

\* touch(), after what the stream has yielded to the client.
Touch(g) ==
  /\ At(g, "loop")
  /\ LET m == meta[act[g].sid] IN
     Become(g, [act[g] EXCEPT !.found = m, !.pc = IF m = None THEN "live" ELSE "touch"])
  /\ UNCHANGED <<minted, meta, queues, cut>>

TouchWrite(g) ==
  /\ At(g, "touch")
  /\ meta' = [meta EXCEPT ![act[g].sid] = act[g].found]
  /\ Become(g, [act[g] EXCEPT !.pc = "live", !.found = None])
  /\ UNCHANGED <<minted, queues, cut>>

\* The client has gone, the queue has gone, or the connection is too old.
StreamEnds(g) ==
  /\ At(g, "live")
  /\ Become(g, [act[g] EXCEPT !.pc = "delete", !.touches = 0])
  /\ UNCHANGED <<minted, meta, queues, cut>>

\* The server cancels the stream of a client that went away: it stops at
\* whatever it awaits, and the clean-up with it.
CutShort(g) ==
  /\ ~ At(g, "free")
  /\ failures < MaxFailures
  /\ failures' = failures + 1
  /\ cut' = cut \cup ({act[g].sid} \cap queues)
  /\ Become(g, Free)
  /\ UNCHANGED <<minted, meta, queues>>

-----------------------------------------------------------------------------
(* Helpers *)

\* The last part of _background_refresh_tools, one session of the user at a
\* time: its tools changed.
CloseSession(h, s) ==
  /\ At(h, "free")
  /\ Become(h, Starting("delete", s, None, None))
  /\ UNCHANGED <<minted, meta, queues, cut>>

\* iter_local_sessions_for_org, one session at a time: it has a queue here.
Visit(h, s) ==
  /\ At(h, "free")
  /\ s \in queues
  /\ Become(h, Starting("visited", s, None, meta[s]))
  /\ UNCHANGED <<minted, meta, queues, cut>>

\* A session without metadata has expired: its queue goes too.
Visited(h) ==
  /\ At(h, "visited")
  /\ IF act[h].found = None
     THEN queues' = queues \ {act[h].sid} /\ cut' = cut \ {act[h].sid}
     ELSE UNCHANGED <<queues, cut>>
  /\ Become(h, Free)
  /\ UNCHANGED <<minted, meta>>

-----------------------------------------------------------------------------
(* Redis forgets what nobody has written for SESSION_TIMEOUT_SECONDS *)

\* A stream of the session has just written its metadata, or keeps touching it.
Kept(s) == \E g \in Streams : /\ act[g].sid = s
                              /\ act[g].pc \in {"attached", "bind", "live", "loop", "touch"}

MetaExpires(s) ==
  /\ meta[s] # None
  /\ ~ Kept(s)
  /\ meta' = [meta EXCEPT ![s] = None]
  /\ UNCHANGED <<minted, queues, act, cut>>

-----------------------------------------------------------------------------
(* Notifications: UNCHANGED but for minted are the sessions *)

Turn(p, r) == post' = [post EXCEPT ![p] = r]

\* resources/subscribe and resources/unsubscribe, for an id the client was given.
Subscribe(s, uri) ==
  /\ <<s, uri>> \notin subs
  /\ subs' = subs \cup {<<s, uri>>}
  /\ UNCHANGED <<sessionVars, pending, post, batches, spent>>

Unsubscribe(s, uri) ==
  /\ <<s, uri>> \in subs
  /\ subs' = subs \ {<<s, uri>>}
  /\ UNCHANGED <<sessionVars, pending, post, batches, spent>>

\* notify_resource_updated: the queues of this process get the update, a row
\* is due for every other subscriber.
Unreached(chain) ==
  {[batch |-> batches + 1, sid |-> x[1], uri |-> x[2]] :
     x \in {y \in subs : y[1] \notin queues /\ y[2] \in chain}}

Notify(p, chain) ==
  /\ post[p].pc = "free"
  /\ batches < MaxBatches
  /\ Unreached(chain) # {}
  /\ batches' = batches + 1
  /\ Turn(p, [pc |-> "persist", rows |-> Unreached(chain)])
  /\ UNCHANGED <<sessionVars, subs, pending, spent>>

Persist(p) ==
  /\ post[p].pc = "persist"
  /\ pending' = pending \cup post[p].rows
  /\ Turn(p, Idle)
  /\ UNCHANGED <<sessionVars, subs, batches, spent>>

\* initialize starts a replay of the rows of the id in its header; without one
\* it mints an id, which no metadata records.
Initialize(p, s) ==
  /\ post[p].pc = "free"
  /\ minted' = minted \cup {s}
  /\ LET rows == {r \in pending : r.sid = s} IN
     Turn(p, IF rows = {} THEN Idle ELSE [pc |-> "push", rows |-> rows])
  /\ UNCHANGED <<meta, queues, act, cut,
                 subs, pending, batches, spent>>

\* Rows that are too old are dropped; the others are pushed when the session
\* has a queue here, and left for the next initialize when it has none.
FlushPush(p) ==
  /\ post[p].pc = "push"
  /\ \E old \in SUBSET post[p].rows :
       LET sent == {r \in post[p].rows \ old : r.sid \in queues} IN
       /\ spent' = spent \cup sent \cup old
       /\ Turn(p, IF sent \cup old = {} THEN Idle
                  ELSE [pc |-> "drop", rows |-> sent \cup old])
  /\ UNCHANGED <<sessionVars, subs, pending, batches>>

\* Seeded fault: the rows of the session are deleted, not the rows read.
FlushDropSession(p) ==
  /\ post[p].pc = "drop"
  /\ pending' = {r \in pending : \A d \in post[p].rows : d.sid # r.sid}
  /\ spent' = spent \ post[p].rows
  /\ Turn(p, Idle)
  /\ UNCHANGED <<sessionVars, subs, batches>>

FlushDrop(p) ==
  /\ post[p].pc = "drop"
  /\ pending' = pending \ post[p].rows
  /\ spent' = spent \ post[p].rows
  /\ Turn(p, Idle)
  /\ UNCHANGED <<sessionVars, subs, batches>>

\* The database refuses the insertion or the deletion: logged, nothing else.
PostFails(p) ==
  /\ post[p].pc \in {"persist", "drop"}
  /\ Turn(p, Idle)
  /\ UNCHANGED <<sessionVars, subs, pending, batches, spent>>

-----------------------------------------------------------------------------
\* The process restarts: Redis and the database are what remains.
Crash ==
  /\ failures < MaxFailures
  /\ failures' = failures + 1
  /\ queues' = {} /\ subs' = {} /\ cut' = {}
  /\ act' = [a \in Actors |-> Free]
  /\ post' = [p \in Posts |-> Idle]
  /\ UNCHANGED <<minted, meta, pending, batches, spent>>

Init ==
  /\ minted = {} /\ queues = {} /\ cut = {}
  /\ meta = [s \in Sids |-> None]
  /\ act = [a \in Actors |-> Free]
  /\ subs = {} /\ pending = {} /\ spent = {}
  /\ post = [p \in Posts |-> Idle]
  /\ batches = 0 /\ failures = 0

Delete(a) == DeleteRead(a) \/ DeleteMeta(a) \/ DeleteQueue(a)

\* What a stream does by itself once a client has opened it.
StreamStep(g) ==
  \/ AttachRead(g) \/ AttachBind(g) \/ AttachWrite(g) \/ AttachReturn(g)
  \/ CreateMeta(g) \/ CreateBind(g)
  \/ Loop(g) \/ Touch(g) \/ TouchWrite(g) \/ StreamEnds(g) \/ Delete(g)

HelperStep(h) == Delete(h) \/ Visited(h)

SessionNext ==
  \/ \E g \in Streams : \/ \E u \in Users, s \in Sids : Resume(g, u, s) \/ Fresh(g, u, s)
                        \/ StreamStep(g)
  \/ \E h \in Helpers : \/ \E s \in minted : CloseSession(h, s) \/ Visit(h, s)
                        \/ HelperStep(h)
  \/ \E s \in Sids : MetaExpires(s)

NoteNext ==
  \/ \E s \in minted, uri \in Uris : Subscribe(s, uri) \/ Unsubscribe(s, uri)
  \/ \E p \in Posts : \/ \E chain \in Chains : Notify(p, chain)
                      \/ \E s \in Sids : Initialize(p, s)
                      \/ Persist(p) \/ FlushPush(p) \/ FlushDrop(p) \/ PostFails(p)

Next == \/ SessionNext /\ UNCHANGED <<noteVars, failures>>
        \/ NoteNext /\ UNCHANGED failures
        \/ \E g \in Streams : CutShort(g) /\ UNCHANGED noteVars
        \/ Crash

Spec == Init /\ [][Next]_vars

-----------------------------------------------------------------------------
(* Properties *)

\* Every variable stays in its range.
TypeOK ==
  /\ minted \subseteq Sids /\ queues \subseteq Sids /\ cut \subseteq Sids
  /\ meta \in [Sids -> Users \cup {None}]
  /\ act \in [Actors -> Actor]
  /\ subs \subseteq Sids \X Uris
  /\ pending \subseteq Row /\ spent \subseteq Row
  /\ post \in [Posts -> Post]
  /\ batches \in 0..MaxBatches /\ failures \in 0..MaxFailures

\* A queue has a stream that drains it: what is put on a queue counts as
\* delivered and leaves no row, so a queue nobody reads swallows updates.  The
\* one exception is a stream that was cancelled before its clean-up.
NoOrphanQueue ==
  \A s \in queues :
    \/ \E g \in Streams : act[g].sid = s /\ act[g].pc \in Serving
    \/ s \in cut

\* A stream runs on a session of its own user, whatever is deleted, resumed or
\* written back by other streams of the same id meanwhile.
OwnStream ==
  \A g \in Streams : ~ At(g, "free") => meta[act[g].sid] \in {None, act[g].user}

\* A stored update leaves the table only after a replay has put it on the
\* queue of its session or has found it too old: not because a replay that
\* never read it deletes it.
NoRowLost == [][pending \ pending' \subseteq spent]_vars

=============================================================================
