-------------------- MODULE GatewaySessions_proofs --------------------
(* Theorems about the sessions of the gateway and their notifications. *)
EXTENDS GatewaySessions, TLAPS

\* The session of a busy actor has been handed out, and so has every id that
\* has metadata: a fresh id is new to both.
Sited ==
  /\ \A a \in Actors : ~ At(a, "free") => act[a].sid \in minted
  /\ \A s \in Sids : meta[s] # None => s \in minted

\* What a stream has read is its own user's, and streams of one session are
\* streams of one user: what one of them writes back suits the others.
Agreed ==
  /\ \A g \in Streams : ~ At(g, "free") =>
       act[g].user \in Users /\ act[g].found \in {None, act[g].user}
  /\ \A g, k \in Streams :
       ~ At(g, "free") /\ ~ At(k, "free") /\ act[g].sid = act[k].sid
         => act[g].user = act[k].user

\* A replay deletes rows it has used, a row about to be inserted is nobody
\* else's, and the number of the next update is new.
RowsAccounted ==
  /\ \A p \in Posts : post[p].pc = "drop" => post[p].rows \cap pending \subseteq spent
  /\ \A p \in Posts : post[p].pc = "persist" =>
       /\ post[p].rows \cap pending = {}
       /\ \A q \in Posts : q # p => post[p].rows \cap post[q].rows = {}
  /\ \A r \in pending : r.batch <= batches
  /\ \A p \in Posts : \A r \in post[p].rows : r.batch <= batches

Sessions == TypeOK /\ Sited /\ Agreed /\ OwnStream /\ NoOrphanQueue
SessionInv == Sessions /\ RowsAccounted

\* The conjuncts of TypeOK the actors change.
Placed == /\ minted \subseteq Sids /\ queues \subseteq Sids /\ cut \subseteq Sids
          /\ meta \in [Sids -> Users \cup {None}]
          /\ act \in [Actors -> Actor]

-----------------------------------------------------------------------------
(* One lemma per action of an actor *)

\* Resuming keeps the sessions in order.
LEMMA ResumeSafe ==
  ASSUME NEW g \in Streams, NEW u \in Users, NEW s \in Sids, Sessions, Resume(g, u, s)
  PROVE  Placed' /\ Sited' /\ Agreed' /\ OwnStream' /\ NoOrphanQueue'
<1> DEFINE a == g
<1>0. a \in Actors /\ act \in [Actors -> Actor]
  BY DEF Sessions, TypeOK, Actors
<1> DEFINE r == [pc |-> "attach", sid |-> s, user |-> u, found |-> None, touches |-> 0]
<1>1. Placed'
  <2>1. r \in Actor
    BY <1>0, SessionBounds DEF Resume, Sessions, TypeOK, Sited, Actor, Pcs, Free, Starting, At
  <2>2. act' = [act EXCEPT ![a] = r]
    BY DEF Resume, Become, Free, Starting
  <2>3. act' \in [Actors -> Actor]
    BY <1>0, <2>1, <2>2
  <2>4. /\ minted' \subseteq Sids /\ queues' \subseteq Sids /\ cut' \subseteq Sids
        /\ meta' \in [Sids -> Users \cup {None}]
    BY <1>0 DEF Resume, Sessions, TypeOK, Sited, Actor, At
  <2>5. QED BY <2>3, <2>4 DEF Placed
<1>2. Sited'
  BY <1>0, <1>1, NoneIsNoUser, ActorsDiffer DEF Resume, Sessions, TypeOK, Sited, Agreed,
     OwnStream, Actor, Actors, Free, Starting, At, Become, Goto
<1>3. Agreed'
  BY <1>0, <1>1, NoneIsNoUser, ActorsDiffer DEF Resume, Sessions, TypeOK, Sited, Agreed,
     OwnStream, Actor, Actors, Free, Starting, At, Become, Goto
<1>4. OwnStream'
  BY <1>0, <1>1, NoneIsNoUser, ActorsDiffer DEF Resume, Sessions, TypeOK, Sited, Agreed,
     OwnStream, Actor, Actors, Free, Starting, At, Become, Goto
<1>5. NoOrphanQueue'
  BY <1>0, <1>1, ActorsDiffer DEF Resume, Sessions, TypeOK, NoOrphanQueue, Serving, Actor,
     Actors, Free, Starting, At, Become, Goto
<1>6. QED BY <1>1, <1>2, <1>3, <1>4, <1>5

\* A new id keeps the sessions in order.
LEMMA FreshSafe ==
  ASSUME NEW g \in Streams, NEW u \in Users, NEW s \in Sids, Sessions, Fresh(g, u, s)
  PROVE  Placed' /\ Sited' /\ Agreed' /\ OwnStream' /\ NoOrphanQueue'
<1> DEFINE a == g
<1>0. a \in Actors /\ act \in [Actors -> Actor]
  BY DEF Sessions, TypeOK, Actors
<1> DEFINE r == [pc |-> "create", sid |-> s, user |-> u, found |-> None, touches |-> 0]
<1>1. Placed'
  <2>1. r \in Actor
    BY <1>0, SessionBounds DEF Fresh, Sessions, TypeOK, Sited, Actor, Pcs, Free, Starting, At
  <2>2. act' = [act EXCEPT ![a] = r]
    BY DEF Fresh, Become, Free, Starting
  <2>3. act' \in [Actors -> Actor]
    BY <1>0, <2>1, <2>2
  <2>4. /\ minted' \subseteq Sids /\ queues' \subseteq Sids /\ cut' \subseteq Sids
        /\ meta' \in [Sids -> Users \cup {None}]
    BY <1>0 DEF Fresh, Sessions, TypeOK, Sited, Actor, At
  <2>5. QED BY <2>3, <2>4 DEF Placed
<1>2. Sited'
  BY <1>0, <1>1, NoneIsNoUser, ActorsDiffer DEF Fresh, Sessions, TypeOK, Sited, Agreed,
     OwnStream, Actor, Actors, Free, Starting, At, Become, Goto
<1>3. Agreed'
  BY <1>0, <1>1, NoneIsNoUser, ActorsDiffer DEF Fresh, Sessions, TypeOK, Sited, Agreed,
     OwnStream, Actor, Actors, Free, Starting, At, Become, Goto
<1>4. OwnStream'
  BY <1>0, <1>1, NoneIsNoUser, ActorsDiffer DEF Fresh, Sessions, TypeOK, Sited, Agreed,
     OwnStream, Actor, Actors, Free, Starting, At, Become, Goto
<1>5. NoOrphanQueue'
  BY <1>0, <1>1, ActorsDiffer DEF Fresh, Sessions, TypeOK, NoOrphanQueue, Serving, Actor,
     Actors, Free, Starting, At, Become, Goto
<1>6. QED BY <1>1, <1>2, <1>3, <1>4, <1>5

\* Reading the metadata keeps the sessions in order.
LEMMA AttachReadSafe ==
  ASSUME NEW g \in Streams, Sessions, AttachRead(g)
  PROVE  Placed' /\ Sited' /\ Agreed' /\ OwnStream' /\ NoOrphanQueue'
<1> DEFINE a == g
<1>0. a \in Actors /\ act \in [Actors -> Actor]
  BY DEF Sessions, TypeOK, Actors
<1> DEFINE r == [act[g] EXCEPT !.found = meta[act[g].sid],
                  !.pc = IF meta[act[g].sid] = None THEN "create" ELSE "rebind"]
<1>1. Placed'
  <2>1. r \in Actor
    BY <1>0, SessionBounds DEF AttachRead, Sessions, TypeOK, Sited, Actor, Pcs, Free,
       Starting, At
  <2>2. act' = [act EXCEPT ![a] = r]
    BY DEF AttachRead, Become, Free, Starting
  <2>3. act' \in [Actors -> Actor]
    BY <1>0, <2>1, <2>2
  <2>4. /\ minted' \subseteq Sids /\ queues' \subseteq Sids /\ cut' \subseteq Sids
        /\ meta' \in [Sids -> Users \cup {None}]
    BY <1>0 DEF AttachRead, Sessions, TypeOK, Sited, Actor, At
  <2>5. QED BY <2>3, <2>4 DEF Placed
<1>2. Sited'
  BY <1>0, <1>1, NoneIsNoUser, ActorsDiffer DEF AttachRead, Sessions, TypeOK, Sited, Agreed,
     OwnStream, Actor, Actors, Free, Starting, At, Become, Goto
<1>3. Agreed'
  BY <1>0, <1>1, NoneIsNoUser, ActorsDiffer DEF AttachRead, Sessions, TypeOK, Sited, Agreed,
     OwnStream, Actor, Actors, Free, Starting, At, Become, Goto
<1>4. OwnStream'
  BY <1>0, <1>1, NoneIsNoUser, ActorsDiffer DEF AttachRead, Sessions, TypeOK, Sited, Agreed,
     OwnStream, Actor, Actors, Free, Starting, At, Become, Goto
<1>5. NoOrphanQueue'
  BY <1>0, <1>1, ActorsDiffer DEF AttachRead, Sessions, TypeOK, NoOrphanQueue, Serving, Actor,
     Actors, Free, Starting, At, Become, Goto
<1>6. QED BY <1>1, <1>2, <1>3, <1>4, <1>5

\* Binding a queue keeps the sessions in order.
LEMMA AttachBindSafe ==
  ASSUME NEW g \in Streams, Sessions, AttachBind(g)
  PROVE  Placed' /\ Sited' /\ Agreed' /\ OwnStream' /\ NoOrphanQueue'
<1> DEFINE a == g
<1>0. a \in Actors /\ act \in [Actors -> Actor]
  BY DEF Sessions, TypeOK, Actors
<1>1. Placed'
  BY <1>0, NoneIsNoUser, SessionBounds DEF AttachBind, Sessions, TypeOK, Sited, Agreed,
     Placed, Actor, Actors, Pcs, Free, Starting, At, Become, Goto
<1>2. Sited'
  BY <1>0, <1>1, NoneIsNoUser, ActorsDiffer DEF AttachBind, Sessions, TypeOK, Sited, Agreed,
     OwnStream, Actor, Actors, Free, Starting, At, Become, Goto
<1>3. Agreed'
  BY <1>0, <1>1, NoneIsNoUser, ActorsDiffer DEF AttachBind, Sessions, TypeOK, Sited, Agreed,
     OwnStream, Actor, Actors, Free, Starting, At, Become, Goto
<1>4. OwnStream'
  BY <1>0, <1>1, NoneIsNoUser, ActorsDiffer DEF AttachBind, Sessions, TypeOK, Sited, Agreed,
     OwnStream, Actor, Actors, Free, Starting, At, Become, Goto
<1>5. NoOrphanQueue'
  BY <1>0, <1>1, ActorsDiffer DEF AttachBind, Sessions, TypeOK, NoOrphanQueue, Serving, Actor,
     Actors, Free, Starting, At, Become, Goto
<1>6. QED BY <1>1, <1>2, <1>3, <1>4, <1>5

\* Writing the metadata back keeps the sessions in order.
LEMMA AttachWriteSafe ==
  ASSUME NEW g \in Streams, Sessions, AttachWrite(g)
  PROVE  Placed' /\ Sited' /\ Agreed' /\ OwnStream' /\ NoOrphanQueue'
<1> DEFINE a == g
<1>0. a \in Actors /\ act \in [Actors -> Actor]
  BY DEF Sessions, TypeOK, Actors
<1> DEFINE r == [act[g] EXCEPT !.pc = "attached", !.found = None]
<1>1. Placed'
  <2>1. r \in Actor
    BY <1>0, SessionBounds DEF AttachWrite, Sessions, TypeOK, Sited, Actor, Pcs, Free,
       Starting, At
  <2>2. act' = [act EXCEPT ![a] = r]
    BY DEF AttachWrite, Become, Free, Starting
  <2>3. act' \in [Actors -> Actor]
    BY <1>0, <2>1, <2>2
  <2>4. /\ minted' \subseteq Sids /\ queues' \subseteq Sids /\ cut' \subseteq Sids
        /\ meta' \in [Sids -> Users \cup {None}]
    BY <1>0 DEF AttachWrite, Sessions, TypeOK, Sited, Actor, At
  <2>5. QED BY <2>3, <2>4 DEF Placed
<1>2. Sited'
  BY <1>0, <1>1, NoneIsNoUser, ActorsDiffer DEF AttachWrite, Sessions, TypeOK, Sited, Agreed,
     OwnStream, Actor, Actors, Free, Starting, At, Become, Goto
<1>3. Agreed'
  BY <1>0, <1>1, NoneIsNoUser, ActorsDiffer DEF AttachWrite, Sessions, TypeOK, Sited, Agreed,
     OwnStream, Actor, Actors, Free, Starting, At, Become, Goto
<1>4. OwnStream'
  BY <1>0, <1>1, NoneIsNoUser, ActorsDiffer DEF AttachWrite, Sessions, TypeOK, Sited, Agreed,
     OwnStream, Actor, Actors, Free, Starting, At, Become, Goto
<1>5. NoOrphanQueue'
  BY <1>0, <1>1, ActorsDiffer DEF AttachWrite, Sessions, TypeOK, NoOrphanQueue, Serving,
     Actor, Actors, Free, Starting, At, Become, Goto
<1>6. QED BY <1>1, <1>2, <1>3, <1>4, <1>5

\* Returning the queue keeps the sessions in order.
LEMMA AttachReturnSafe ==
  ASSUME NEW g \in Streams, Sessions, AttachReturn(g)
  PROVE  Placed' /\ Sited' /\ Agreed' /\ OwnStream' /\ NoOrphanQueue'
<1> DEFINE a == g
<1>0. a \in Actors /\ act \in [Actors -> Actor]
  BY DEF Sessions, TypeOK, Actors
<1>1. Placed'
  BY <1>0, NoneIsNoUser, SessionBounds DEF AttachReturn, Sessions, TypeOK, Sited, Agreed,
     Placed, Actor, Actors, Pcs, Free, Starting, At, Become, Goto
<1>2. Sited'
  BY <1>0, <1>1, NoneIsNoUser, ActorsDiffer DEF AttachReturn, Sessions, TypeOK, Sited, Agreed,
     OwnStream, Actor, Actors, Free, Starting, At, Become, Goto
<1>3. Agreed'
  BY <1>0, <1>1, NoneIsNoUser, ActorsDiffer DEF AttachReturn, Sessions, TypeOK, Sited, Agreed,
     OwnStream, Actor, Actors, Free, Starting, At, Become, Goto
<1>4. OwnStream'
  BY <1>0, <1>1, NoneIsNoUser, ActorsDiffer DEF AttachReturn, Sessions, TypeOK, Sited, Agreed,
     OwnStream, Actor, Actors, Free, Starting, At, Become, Goto
<1>5. NoOrphanQueue'
  BY <1>0, <1>1, ActorsDiffer DEF AttachReturn, Sessions, TypeOK, NoOrphanQueue, Serving,
     Actor, Actors, Free, Starting, At, Become, Goto
<1>6. QED BY <1>1, <1>2, <1>3, <1>4, <1>5

\* Storing the metadata keeps the sessions in order.
LEMMA CreateMetaSafe ==
  ASSUME NEW g \in Streams, Sessions, CreateMeta(g)
  PROVE  Placed' /\ Sited' /\ Agreed' /\ OwnStream' /\ NoOrphanQueue'
<1> DEFINE a == g
<1>0. a \in Actors /\ act \in [Actors -> Actor]
  BY DEF Sessions, TypeOK, Actors
<1>1. Placed'
  BY <1>0, NoneIsNoUser, SessionBounds DEF CreateMeta, Sessions, TypeOK, Sited, Agreed,
     Placed, Actor, Actors, Pcs, Free, Starting, At, Become, Goto
<1>2. Sited'
  BY <1>0, <1>1, NoneIsNoUser, ActorsDiffer DEF CreateMeta, Sessions, TypeOK, Sited, Agreed,
     OwnStream, Actor, Actors, Free, Starting, At, Become, Goto
<1>3. Agreed'
  BY <1>0, <1>1, NoneIsNoUser, ActorsDiffer DEF CreateMeta, Sessions, TypeOK, Sited, Agreed,
     OwnStream, Actor, Actors, Free, Starting, At, Become, Goto
<1>4. OwnStream'
  BY <1>0, <1>1, NoneIsNoUser, ActorsDiffer DEF CreateMeta, Sessions, TypeOK, Sited, Agreed,
     OwnStream, Actor, Actors, Free, Starting, At, Become, Goto
<1>5. NoOrphanQueue'
  BY <1>0, <1>1, ActorsDiffer DEF CreateMeta, Sessions, TypeOK, NoOrphanQueue, Serving, Actor,
     Actors, Free, Starting, At, Become, Goto
<1>6. QED BY <1>1, <1>2, <1>3, <1>4, <1>5

\* Binding the queue of a new session keeps the sessions in order.
LEMMA CreateBindSafe ==
  ASSUME NEW g \in Streams, Sessions, CreateBind(g)
  PROVE  Placed' /\ Sited' /\ Agreed' /\ OwnStream' /\ NoOrphanQueue'
<1> DEFINE a == g
<1>0. a \in Actors /\ act \in [Actors -> Actor]
  BY DEF Sessions, TypeOK, Actors
<1>1. Placed'
  BY <1>0, NoneIsNoUser, SessionBounds DEF CreateBind, Sessions, TypeOK, Sited, Agreed,
     Placed, Actor, Actors, Pcs, Free, Starting, At, Become, Goto
<1>2. Sited'
  BY <1>0, <1>1, NoneIsNoUser, ActorsDiffer DEF CreateBind, Sessions, TypeOK, Sited, Agreed,
     OwnStream, Actor, Actors, Free, Starting, At, Become, Goto
<1>3. Agreed'
  BY <1>0, <1>1, NoneIsNoUser, ActorsDiffer DEF CreateBind, Sessions, TypeOK, Sited, Agreed,
     OwnStream, Actor, Actors, Free, Starting, At, Become, Goto
<1>4. OwnStream'
  BY <1>0, <1>1, NoneIsNoUser, ActorsDiffer DEF CreateBind, Sessions, TypeOK, Sited, Agreed,
     OwnStream, Actor, Actors, Free, Starting, At, Become, Goto
<1>5. NoOrphanQueue'
  BY <1>0, <1>1, ActorsDiffer DEF CreateBind, Sessions, TypeOK, NoOrphanQueue, Serving, Actor,
     Actors, Free, Starting, At, Become, Goto
<1>6. QED BY <1>1, <1>2, <1>3, <1>4, <1>5

\* A turn of the loop keeps the sessions in order.
LEMMA LoopSafe ==
  ASSUME NEW g \in Streams, Sessions, Loop(g)
  PROVE  Placed' /\ Sited' /\ Agreed' /\ OwnStream' /\ NoOrphanQueue'
<1> DEFINE a == g
<1>0. a \in Actors /\ act \in [Actors -> Actor]
  BY DEF Sessions, TypeOK, Actors
<1> DEFINE r == [act[g] EXCEPT !.pc = "loop", !.touches = @ + 1]
<1>1. Placed'
  <2>0. act[g].touches + 1 \in 0..MaxTouches
    BY <1>0, SessionBounds DEF Loop, Actor
  <2>1. r \in Actor
    BY <2>0, <1>0, SessionBounds DEF Loop, Sessions, TypeOK, Sited, Actor, Pcs, Free,
       Starting, At
  <2>2. act' = [act EXCEPT ![a] = r]
    BY DEF Loop, Become, Free, Starting
  <2>3. act' \in [Actors -> Actor]
    BY <1>0, <2>1, <2>2
  <2>4. /\ minted' \subseteq Sids /\ queues' \subseteq Sids /\ cut' \subseteq Sids
        /\ meta' \in [Sids -> Users \cup {None}]
    BY <1>0 DEF Loop, Sessions, TypeOK, Sited, Actor, At
  <2>5. QED BY <2>3, <2>4 DEF Placed
<1>2. Sited'
  BY <1>0, <1>1, NoneIsNoUser, ActorsDiffer DEF Loop, Sessions, TypeOK, Sited, Agreed,
     OwnStream, Actor, Actors, Free, Starting, At, Become, Goto
<1>3. Agreed'
  BY <1>0, <1>1, NoneIsNoUser, ActorsDiffer DEF Loop, Sessions, TypeOK, Sited, Agreed,
     OwnStream, Actor, Actors, Free, Starting, At, Become, Goto
<1>4. OwnStream'
  BY <1>0, <1>1, NoneIsNoUser, ActorsDiffer DEF Loop, Sessions, TypeOK, Sited, Agreed,
     OwnStream, Actor, Actors, Free, Starting, At, Become, Goto
<1>5. NoOrphanQueue'
  BY <1>0, <1>1, ActorsDiffer DEF Loop, Sessions, TypeOK, NoOrphanQueue, Serving, Actor,
     Actors, Free, Starting, At, Become, Goto
<1>6. QED BY <1>1, <1>2, <1>3, <1>4, <1>5

\* Reading the metadata to refresh it keeps the sessions in order.
LEMMA TouchSafe ==
  ASSUME NEW g \in Streams, Sessions, Touch(g)
  PROVE  Placed' /\ Sited' /\ Agreed' /\ OwnStream' /\ NoOrphanQueue'
<1> DEFINE a == g
<1>0. a \in Actors /\ act \in [Actors -> Actor]
  BY DEF Sessions, TypeOK, Actors
<1> DEFINE r == [act[g] EXCEPT !.found = meta[act[g].sid],
                  !.pc = IF meta[act[g].sid] = None THEN "live" ELSE "touch"]
<1>1. Placed'
  <2>1. r \in Actor
    BY <1>0, SessionBounds, ZenonT(40) DEF Touch, Sessions, TypeOK, Sited, Actor, Pcs, Free, Starting, At
  <2>2. act' = [act EXCEPT ![a] = r]
    BY DEF Touch, Become, Free, Starting
  <2>3. act' \in [Actors -> Actor]
    BY <1>0, <2>1, <2>2
  <2>4. /\ minted' \subseteq Sids /\ queues' \subseteq Sids /\ cut' \subseteq Sids
        /\ meta' \in [Sids -> Users \cup {None}]
    BY <1>0 DEF Touch, Sessions, TypeOK, Sited, Actor, At
  <2>5. QED BY <2>3, <2>4 DEF Placed
<1>2. Sited'
  BY <1>0, <1>1, NoneIsNoUser, ActorsDiffer DEF Touch, Sessions, TypeOK, Sited, Agreed,
     OwnStream, Actor, Actors, Free, Starting, At, Become, Goto
<1>3. Agreed'
  BY <1>0, <1>1, NoneIsNoUser, ActorsDiffer DEF Touch, Sessions, TypeOK, Sited, Agreed,
     OwnStream, Actor, Actors, Free, Starting, At, Become, Goto
<1>4. OwnStream'
  BY <1>0, <1>1, NoneIsNoUser, ActorsDiffer DEF Touch, Sessions, TypeOK, Sited, Agreed,
     OwnStream, Actor, Actors, Free, Starting, At, Become, Goto
<1>5. NoOrphanQueue'
  BY <1>0, <1>1, ActorsDiffer DEF Touch, Sessions, TypeOK, NoOrphanQueue, Serving, Actor,
     Actors, Free, Starting, At, Become, Goto
<1>6. QED BY <1>1, <1>2, <1>3, <1>4, <1>5

\* Refreshing the metadata keeps the sessions in order.
LEMMA TouchWriteSafe ==
  ASSUME NEW g \in Streams, Sessions, TouchWrite(g)
  PROVE  Placed' /\ Sited' /\ Agreed' /\ OwnStream' /\ NoOrphanQueue'
<1> DEFINE a == g
<1>0. a \in Actors /\ act \in [Actors -> Actor]
  BY DEF Sessions, TypeOK, Actors
<1> DEFINE r == [act[g] EXCEPT !.pc = "live", !.found = None]
<1>1. Placed'
  <2>1. r \in Actor
    BY <1>0, SessionBounds DEF TouchWrite, Sessions, TypeOK, Sited, Actor, Pcs, Free,
       Starting, At
  <2>2. act' = [act EXCEPT ![a] = r]
    BY DEF TouchWrite, Become, Free, Starting
  <2>3. act' \in [Actors -> Actor]
    BY <1>0, <2>1, <2>2
  <2>4. /\ minted' \subseteq Sids /\ queues' \subseteq Sids /\ cut' \subseteq Sids
        /\ meta' \in [Sids -> Users \cup {None}]
    BY <1>0 DEF TouchWrite, Sessions, TypeOK, Sited, Actor, At
  <2>5. QED BY <2>3, <2>4 DEF Placed
<1>2. Sited'
  BY <1>0, <1>1, NoneIsNoUser, ActorsDiffer DEF TouchWrite, Sessions, TypeOK, Sited, Agreed,
     OwnStream, Actor, Actors, Free, Starting, At, Become, Goto
<1>3. Agreed'
  BY <1>0, <1>1, NoneIsNoUser, ActorsDiffer DEF TouchWrite, Sessions, TypeOK, Sited, Agreed,
     OwnStream, Actor, Actors, Free, Starting, At, Become, Goto
<1>4. OwnStream'
  BY <1>0, <1>1, NoneIsNoUser, ActorsDiffer DEF TouchWrite, Sessions, TypeOK, Sited, Agreed,
     OwnStream, Actor, Actors, Free, Starting, At, Become, Goto
<1>5. NoOrphanQueue'
  BY <1>0, <1>1, ActorsDiffer DEF TouchWrite, Sessions, TypeOK, NoOrphanQueue, Serving, Actor,
     Actors, Free, Starting, At, Become, Goto
<1>6. QED BY <1>1, <1>2, <1>3, <1>4, <1>5

\* The end of a stream keeps the sessions in order.
LEMMA StreamEndsSafe ==
  ASSUME NEW g \in Streams, Sessions, StreamEnds(g)
  PROVE  Placed' /\ Sited' /\ Agreed' /\ OwnStream' /\ NoOrphanQueue'
<1> DEFINE a == g
<1>0. a \in Actors /\ act \in [Actors -> Actor]
  BY DEF Sessions, TypeOK, Actors
<1> DEFINE r == [act[g] EXCEPT !.pc = "delete", !.touches = 0]
<1>1. Placed'
  <2>0. 0 \in 0..MaxTouches
    BY <1>0, SessionBounds DEF StreamEnds, Actor
  <2>1. r \in Actor
    BY <2>0, <1>0, SessionBounds DEF StreamEnds, Sessions, TypeOK, Sited, Actor, Pcs, Free,
       Starting, At
  <2>2. act' = [act EXCEPT ![a] = r]
    BY DEF StreamEnds, Become, Free, Starting
  <2>3. act' \in [Actors -> Actor]
    BY <1>0, <2>1, <2>2
  <2>4. /\ minted' \subseteq Sids /\ queues' \subseteq Sids /\ cut' \subseteq Sids
        /\ meta' \in [Sids -> Users \cup {None}]
    BY <1>0 DEF StreamEnds, Sessions, TypeOK, Sited, Actor, At
  <2>5. QED BY <2>3, <2>4 DEF Placed
<1>2. Sited'
  BY <1>0, <1>1, NoneIsNoUser, ActorsDiffer DEF StreamEnds, Sessions, TypeOK, Sited, Agreed,
     OwnStream, Actor, Actors, Free, Starting, At, Become, Goto
<1>3. Agreed'
  BY <1>0, <1>1, NoneIsNoUser, ActorsDiffer DEF StreamEnds, Sessions, TypeOK, Sited, Agreed,
     OwnStream, Actor, Actors, Free, Starting, At, Become, Goto
<1>4. OwnStream'
  BY <1>0, <1>1, NoneIsNoUser, ActorsDiffer DEF StreamEnds, Sessions, TypeOK, Sited, Agreed,
     OwnStream, Actor, Actors, Free, Starting, At, Become, Goto
<1>5. NoOrphanQueue'
  BY <1>0, <1>1, ActorsDiffer DEF StreamEnds, Sessions, TypeOK, NoOrphanQueue, Serving, Actor,
     Actors, Free, Starting, At, Become, Goto
<1>6. QED BY <1>1, <1>2, <1>3, <1>4, <1>5

\* A cancelled stream keeps the sessions in order.
LEMMA CutShortSafe ==
  ASSUME NEW g \in Streams, Sessions, CutShort(g)
  PROVE  Placed' /\ Sited' /\ Agreed' /\ OwnStream' /\ NoOrphanQueue'
<1> DEFINE a == g
<1>0. a \in Actors /\ act \in [Actors -> Actor]
  BY DEF Sessions, TypeOK, Actors
<1>1. Placed'
  BY <1>0, NoneIsNoUser, SessionBounds DEF CutShort, Sessions, TypeOK, Sited, Agreed, Placed,
     Actor, Actors, Pcs, Free, Starting, At, Become, Goto
<1>2. Sited'
  BY <1>0, <1>1, NoneIsNoUser, ActorsDiffer DEF CutShort, Sessions, TypeOK, Sited, Agreed,
     OwnStream, Actor, Actors, Free, Starting, At, Become, Goto
<1>3. Agreed'
  BY <1>0, <1>1, NoneIsNoUser, ActorsDiffer DEF CutShort, Sessions, TypeOK, Sited, Agreed,
     OwnStream, Actor, Actors, Free, Starting, At, Become, Goto
<1>4. OwnStream'
  BY <1>0, <1>1, NoneIsNoUser, ActorsDiffer DEF CutShort, Sessions, TypeOK, Sited, Agreed,
     OwnStream, Actor, Actors, Free, Starting, At, Become, Goto
<1>5. NoOrphanQueue'
  BY <1>0, <1>1, ActorsDiffer DEF CutShort, Sessions, TypeOK, NoOrphanQueue, Serving, Actor,
     Actors, Free, Starting, At, Become, Goto
<1>6. QED BY <1>1, <1>2, <1>3, <1>4, <1>5

\* Reading the metadata of a session to delete keeps the sessions in order.
LEMMA DeleteReadSafe ==
  ASSUME NEW b \in Actors, Sessions, DeleteRead(b)
  PROVE  Placed' /\ Sited' /\ Agreed' /\ OwnStream' /\ NoOrphanQueue'
<1> DEFINE a == b
<1>0. a \in Actors /\ act \in [Actors -> Actor]
  BY DEF Sessions, TypeOK, Actors
<1>1. Placed'
  BY <1>0, NoneIsNoUser, SessionBounds DEF DeleteRead, Sessions, TypeOK, Sited, Agreed,
     Placed, Actor, Actors, Pcs, Free, Starting, At, Become, Goto
<1>2. Sited'
  BY <1>0, <1>1, NoneIsNoUser, ActorsDiffer DEF DeleteRead, Sessions, TypeOK, Sited, Agreed,
     OwnStream, Actor, Actors, Free, Starting, At, Become, Goto
<1>3. Agreed'
  BY <1>0, <1>1, NoneIsNoUser, ActorsDiffer DEF DeleteRead, Sessions, TypeOK, Sited, Agreed,
     OwnStream, Actor, Actors, Free, Starting, At, Become, Goto
<1>4. OwnStream'
  BY <1>0, <1>1, NoneIsNoUser, ActorsDiffer DEF DeleteRead, Sessions, TypeOK, Sited, Agreed,
     OwnStream, Actor, Actors, Free, Starting, At, Become, Goto
<1>5. NoOrphanQueue'
  BY <1>0, <1>1, ActorsDiffer DEF DeleteRead, Sessions, TypeOK, NoOrphanQueue, Serving, Actor,
     Actors, Free, Starting, At, Become, Goto
<1>6. QED BY <1>1, <1>2, <1>3, <1>4, <1>5

\* Deleting the metadata keeps the sessions in order.
LEMMA DeleteMetaSafe ==
  ASSUME NEW b \in Actors, Sessions, DeleteMeta(b)
  PROVE  Placed' /\ Sited' /\ Agreed' /\ OwnStream' /\ NoOrphanQueue'
<1> DEFINE a == b
<1>0. a \in Actors /\ act \in [Actors -> Actor]
  BY DEF Sessions, TypeOK, Actors
<1>1. Placed'
  BY <1>0, NoneIsNoUser, SessionBounds DEF DeleteMeta, Sessions, TypeOK, Sited, Agreed,
     Placed, Actor, Actors, Pcs, Free, Starting, At, Become, Goto
<1>2. Sited'
  BY <1>0, <1>1, NoneIsNoUser, ActorsDiffer DEF DeleteMeta, Sessions, TypeOK, Sited, Agreed,
     OwnStream, Actor, Actors, Free, Starting, At, Become, Goto
<1>3. Agreed'
  BY <1>0, <1>1, NoneIsNoUser, ActorsDiffer DEF DeleteMeta, Sessions, TypeOK, Sited, Agreed,
     OwnStream, Actor, Actors, Free, Starting, At, Become, Goto
<1>4. OwnStream'
  BY <1>0, <1>1, NoneIsNoUser, ActorsDiffer DEF DeleteMeta, Sessions, TypeOK, Sited, Agreed,
     OwnStream, Actor, Actors, Free, Starting, At, Become, Goto
<1>5. NoOrphanQueue'
  BY <1>0, <1>1, ActorsDiffer DEF DeleteMeta, Sessions, TypeOK, NoOrphanQueue, Serving, Actor,
     Actors, Free, Starting, At, Become, Goto
<1>6. QED BY <1>1, <1>2, <1>3, <1>4, <1>5

\* Dropping the queue keeps the sessions in order.
LEMMA DeleteQueueSafe ==
  ASSUME NEW b \in Actors, Sessions, DeleteQueue(b)
  PROVE  Placed' /\ Sited' /\ Agreed' /\ OwnStream' /\ NoOrphanQueue'
<1> DEFINE a == b
<1>0. a \in Actors /\ act \in [Actors -> Actor]
  BY DEF Sessions, TypeOK, Actors
<1>1. Placed'
  BY <1>0, NoneIsNoUser, SessionBounds DEF DeleteQueue, Sessions, TypeOK, Sited, Agreed,
     Placed, Actor, Actors, Pcs, Free, Starting, At, Become, Goto
<1>2. Sited'
  BY <1>0, <1>1, NoneIsNoUser, ActorsDiffer DEF DeleteQueue, Sessions, TypeOK, Sited, Agreed,
     OwnStream, Actor, Actors, Free, Starting, At, Become, Goto
<1>3. Agreed'
  BY <1>0, <1>1, NoneIsNoUser, ActorsDiffer DEF DeleteQueue, Sessions, TypeOK, Sited, Agreed,
     OwnStream, Actor, Actors, Free, Starting, At, Become, Goto
<1>4. OwnStream'
  BY <1>0, <1>1, NoneIsNoUser, ActorsDiffer DEF DeleteQueue, Sessions, TypeOK, Sited, Agreed,
     OwnStream, Actor, Actors, Free, Starting, At, Become, Goto
<1>5. NoOrphanQueue'
  BY <1>0, <1>1, ActorsDiffer DEF DeleteQueue, Sessions, TypeOK, NoOrphanQueue, Serving,
     Actor, Actors, Free, Starting, At, Become, Goto
<1>6. QED BY <1>1, <1>2, <1>3, <1>4, <1>5

\* Closing a session keeps the sessions in order.
LEMMA CloseSessionSafe ==
  ASSUME NEW h \in Helpers, NEW s \in minted, Sessions, CloseSession(h, s)
  PROVE  Placed' /\ Sited' /\ Agreed' /\ OwnStream' /\ NoOrphanQueue'
<1> DEFINE a == h
<1>0. a \in Actors /\ act \in [Actors -> Actor]
  BY DEF Sessions, TypeOK, Actors
<1> DEFINE r == [pc |-> "delete", sid |-> s, user |-> None, found |-> None, touches |-> 0]
<1>1. Placed'
  <2>1. r \in Actor
    BY <1>0, SessionBounds DEF CloseSession, Sessions, TypeOK, Sited, Actor, Pcs, Free,
       Starting, At
  <2>2. act' = [act EXCEPT ![a] = r]
    BY DEF CloseSession, Become, Free, Starting
  <2>3. act' \in [Actors -> Actor]
    BY <1>0, <2>1, <2>2
  <2>4. /\ minted' \subseteq Sids /\ queues' \subseteq Sids /\ cut' \subseteq Sids
        /\ meta' \in [Sids -> Users \cup {None}]
    BY <1>0 DEF CloseSession, Sessions, TypeOK, Sited, Actor, At
  <2>5. QED BY <2>3, <2>4 DEF Placed
<1>2. Sited'
  BY <1>0, <1>1, NoneIsNoUser, ActorsDiffer DEF CloseSession, Sessions, TypeOK, Sited, Agreed,
     OwnStream, Actor, Actors, Free, Starting, At, Become, Goto
<1>3. Agreed'
  BY <1>0, <1>1, NoneIsNoUser, ActorsDiffer DEF CloseSession, Sessions, TypeOK, Sited, Agreed,
     OwnStream, Actor, Actors, Free, Starting, At, Become, Goto
<1>4. OwnStream'
  BY <1>0, <1>1, NoneIsNoUser, ActorsDiffer DEF CloseSession, Sessions, TypeOK, Sited, Agreed,
     OwnStream, Actor, Actors, Free, Starting, At, Become, Goto
<1>5. NoOrphanQueue'
  BY <1>0, <1>1, ActorsDiffer DEF CloseSession, Sessions, TypeOK, NoOrphanQueue, Serving,
     Actor, Actors, Free, Starting, At, Become, Goto
<1>6. QED BY <1>1, <1>2, <1>3, <1>4, <1>5

\* Visiting a session keeps the sessions in order.
LEMMA VisitSafe ==
  ASSUME NEW h \in Helpers, NEW s \in minted, Sessions, Visit(h, s)
  PROVE  Placed' /\ Sited' /\ Agreed' /\ OwnStream' /\ NoOrphanQueue'
<1> DEFINE a == h
<1>0. a \in Actors /\ act \in [Actors -> Actor]
  BY DEF Sessions, TypeOK, Actors
<1> DEFINE r == [pc |-> "visited", sid |-> s, user |-> None, found |-> meta[s], touches |-> 0]
<1>1. Placed'
  <2>1. r \in Actor
    BY <1>0, SessionBounds DEF Visit, Sessions, TypeOK, Sited, Actor, Pcs, Free, Starting, At
  <2>2. act' = [act EXCEPT ![a] = r]
    BY DEF Visit, Become, Free, Starting
  <2>3. act' \in [Actors -> Actor]
    BY <1>0, <2>1, <2>2
  <2>4. /\ minted' \subseteq Sids /\ queues' \subseteq Sids /\ cut' \subseteq Sids
        /\ meta' \in [Sids -> Users \cup {None}]
    BY <1>0 DEF Visit, Sessions, TypeOK, Sited, Actor, At
  <2>5. QED BY <2>3, <2>4 DEF Placed
<1>2. Sited'
  BY <1>0, <1>1, NoneIsNoUser, ActorsDiffer DEF Visit, Sessions, TypeOK, Sited, Agreed,
     OwnStream, Actor, Actors, Free, Starting, At, Become, Goto
<1>3. Agreed'
  BY <1>0, <1>1, NoneIsNoUser, ActorsDiffer DEF Visit, Sessions, TypeOK, Sited, Agreed,
     OwnStream, Actor, Actors, Free, Starting, At, Become, Goto
<1>4. OwnStream'
  BY <1>0, <1>1, NoneIsNoUser, ActorsDiffer DEF Visit, Sessions, TypeOK, Sited, Agreed,
     OwnStream, Actor, Actors, Free, Starting, At, Become, Goto
<1>5. NoOrphanQueue'
  BY <1>0, <1>1, ActorsDiffer DEF Visit, Sessions, TypeOK, NoOrphanQueue, Serving, Actor,
     Actors, Free, Starting, At, Become, Goto
<1>6. QED BY <1>1, <1>2, <1>3, <1>4, <1>5

\* The end of a visit keeps the sessions in order.
LEMMA VisitedSafe ==
  ASSUME NEW h \in Helpers, Sessions, Visited(h)
  PROVE  Placed' /\ Sited' /\ Agreed' /\ OwnStream' /\ NoOrphanQueue'
<1> DEFINE a == h
<1>0. a \in Actors /\ act \in [Actors -> Actor]
  BY DEF Sessions, TypeOK, Actors
<1>1. Placed'
  BY <1>0, NoneIsNoUser, SessionBounds DEF Visited, Sessions, TypeOK, Sited, Agreed, Placed,
     Actor, Actors, Pcs, Free, Starting, At, Become, Goto
<1>2. Sited'
  BY <1>0, <1>1, NoneIsNoUser, ActorsDiffer DEF Visited, Sessions, TypeOK, Sited, Agreed,
     OwnStream, Actor, Actors, Free, Starting, At, Become, Goto
<1>3. Agreed'
  BY <1>0, <1>1, NoneIsNoUser, ActorsDiffer DEF Visited, Sessions, TypeOK, Sited, Agreed,
     OwnStream, Actor, Actors, Free, Starting, At, Become, Goto
<1>4. OwnStream'
  BY <1>0, <1>1, NoneIsNoUser, ActorsDiffer DEF Visited, Sessions, TypeOK, Sited, Agreed,
     OwnStream, Actor, Actors, Free, Starting, At, Become, Goto
<1>5. NoOrphanQueue'
  BY <1>0, <1>1, ActorsDiffer DEF Visited, Sessions, TypeOK, NoOrphanQueue, Serving, Actor,
     Actors, Free, Starting, At, Become, Goto
<1>6. QED BY <1>1, <1>2, <1>3, <1>4, <1>5

\* Metadata that expires leaves the sessions in order.
LEMMA MetaExpiresSafe ==
  ASSUME NEW s \in Sids, Sessions, MetaExpires(s)
  PROVE  Placed' /\ Sited' /\ Agreed' /\ OwnStream' /\ NoOrphanQueue'
<1>1. Placed'
  BY DEF MetaExpires, Sessions, TypeOK, Placed
<1>2. Sited' /\ Agreed'
  BY DEF MetaExpires, Sessions, TypeOK, Sited, Agreed, At
<1>3. OwnStream'
  BY DEF MetaExpires, Sessions, TypeOK, OwnStream, At
<1>4. NoOrphanQueue'
  BY DEF MetaExpires, Sessions, NoOrphanQueue
<1>5. QED BY <1>1, <1>2, <1>3, <1>4

-----------------------------------------------------------------------------
(* The sessions *)

\* A step of a session keeps the invariant of the sessions.
LEMMA SessionStep ==
  ASSUME Sessions, SessionNext, UNCHANGED <<noteVars, failures>>
  PROVE  Sessions'
<1>1. Placed' /\ Sited' /\ Agreed' /\ OwnStream' /\ NoOrphanQueue'
  <2>1. ASSUME NEW g \in Streams, NEW u \in Users, NEW s \in Sids,
               Resume(g, u, s) \/ Fresh(g, u, s)
        PROVE  Placed' /\ Sited' /\ Agreed' /\ OwnStream' /\ NoOrphanQueue'
    BY <2>1, ResumeSafe, FreshSafe
  <2>2. ASSUME NEW b \in Actors, Delete(b)
        PROVE  Placed' /\ Sited' /\ Agreed' /\ OwnStream' /\ NoOrphanQueue'
    BY <2>2, DeleteReadSafe, DeleteMetaSafe, DeleteQueueSafe DEF Delete
  <2>3. ASSUME NEW g \in Streams, StreamStep(g)
        PROVE  Placed' /\ Sited' /\ Agreed' /\ OwnStream' /\ NoOrphanQueue'
    <3>1. CASE Delete(g)
      BY <2>2, <3>1 DEF Actors
    <3>2. CASE AttachRead(g) \/ AttachBind(g) \/ AttachWrite(g) \/ AttachReturn(g)
      BY <3>2, AttachReadSafe, AttachBindSafe, AttachWriteSafe, AttachReturnSafe
    <3>3. CASE CreateMeta(g) \/ CreateBind(g)
      BY <3>3, CreateMetaSafe, CreateBindSafe
    <3>4. CASE Loop(g) \/ Touch(g) \/ TouchWrite(g) \/ StreamEnds(g)
      BY <3>4, LoopSafe, TouchSafe, TouchWriteSafe, StreamEndsSafe
    <3>5. QED BY <2>3, <3>1, <3>2, <3>3, <3>4 DEF StreamStep
  <2>4. ASSUME NEW h \in Helpers, NEW s \in minted, CloseSession(h, s) \/ Visit(h, s)
        PROVE  Placed' /\ Sited' /\ Agreed' /\ OwnStream' /\ NoOrphanQueue'
    BY <2>4, CloseSessionSafe, VisitSafe
  <2>5. ASSUME NEW h \in Helpers, HelperStep(h)
        PROVE  Placed' /\ Sited' /\ Agreed' /\ OwnStream' /\ NoOrphanQueue'
    BY <2>2, <2>5, VisitedSafe DEF HelperStep, Actors
  <2>6. ASSUME NEW s \in Sids, MetaExpires(s)
        PROVE  Placed' /\ Sited' /\ Agreed' /\ OwnStream' /\ NoOrphanQueue'
    BY <2>6, MetaExpiresSafe
  <2>7. QED BY <2>1, <2>3, <2>4, <2>5, <2>6 DEF SessionNext
<1>2. TypeOK'
  BY <1>1 DEF Placed, Sessions, TypeOK, noteVars, Row, Post
<1>3. QED BY <1>1, <1>2 DEF Sessions

\* A cancelled stream and a restart keep it.
LEMMA CutStep ==
  ASSUME Sessions, NEW g \in Streams, CutShort(g), UNCHANGED noteVars
  PROVE  Sessions'
<1>1. Placed' /\ Sited' /\ Agreed' /\ OwnStream' /\ NoOrphanQueue'
  BY CutShortSafe
<1>2. failures' \in 0..MaxFailures
  BY SessionBounds DEF CutShort, Sessions, TypeOK
<1>3. TypeOK'
  BY <1>1, <1>2 DEF Placed, Sessions, TypeOK, noteVars, Row, Post
<1>4. QED BY <1>1, <1>3 DEF Sessions

LEMMA FreeTyped == Free \in Actor
BY SessionBounds DEF Free, Starting, Actor, Pcs

LEMMA CrashStep ==
  ASSUME Sessions, Crash
  PROVE  Sessions'
<1>1. \A a \in Actors : act'[a] = Free
  BY DEF Crash
<1>2. \A a \in Actors : act'[a].pc = "free"
  BY <1>1 DEF Free, Starting
<1>3. TypeOK'
  <2>1. failures' \in 0..MaxFailures
    BY SessionBounds DEF Crash, Sessions, TypeOK
  <2>2. act' \in [Actors -> Actor]
    BY FreeTyped DEF Crash
  <2>3. post' \in [Posts -> Post]
    BY DEF Crash, Post, Idle
  <2>4. QED BY <2>1, <2>2, <2>3 DEF Crash, Sessions, TypeOK, Row
<1>4. Sited' /\ Agreed' /\ OwnStream'
  BY <1>2 DEF Crash, Sessions, Sited, Agreed, OwnStream, At, Actors
<1>5. NoOrphanQueue'
  BY DEF Crash, NoOrphanQueue
<1>6. QED BY <1>3, <1>4, <1>5 DEF Sessions

\* Notifications hand out ids, and leave the sessions alone.
LEMMA NoteKeepsSessions ==
  ASSUME Sessions, TypeOK', minted \subseteq minted', UNCHANGED <<meta, queues, act, cut>>
  PROVE  Sessions'
<1>1. Sited'
  BY DEF Sessions, Sited, At
<1>2. Agreed' /\ OwnStream' /\ NoOrphanQueue'
  BY DEF Sessions, Agreed, OwnStream, NoOrphanQueue, At
<1>3. QED BY <1>1, <1>2 DEF Sessions

-----------------------------------------------------------------------------
(* The notifications *)

\* Only what this step hands on has rows, and their updates have been counted.
LEMMA SubscribeSafe ==
  ASSUME TypeOK, RowsAccounted, NEW s \in minted, NEW uri \in Uris,
         Subscribe(s, uri) \/ Unsubscribe(s, uri), UNCHANGED failures
  PROVE  TypeOK' /\ RowsAccounted'
<1>1. subs' \subseteq Sids \X Uris
  BY DEF Subscribe, Unsubscribe, TypeOK
<1>2. UNCHANGED <<sessionVars, pending, post, batches, spent>>
  BY DEF Subscribe, Unsubscribe
<1>3. TypeOK'
  BY <1>1, <1>2 DEF TypeOK, sessionVars
<1>4. RowsAccounted'
  BY <1>2 DEF RowsAccounted
<1>5. QED BY <1>3, <1>4

\* The rows of an update carry the next number.
LEMMA UnreachedRows ==
  ASSUME TypeOK, NEW chain \in Chains, batches < MaxBatches
  PROVE  /\ Unreached(chain) \subseteq Row
         /\ \A r \in Unreached(chain) : r.batch = batches + 1
<1>1. batches + 1 \in 1..MaxBatches
  BY SessionBounds DEF TypeOK
<1>2. ASSUME NEW x \in subs
      PROVE  x[1] \in Sids /\ x[2] \in Uris
  BY DEF TypeOK
<1>3. QED BY <1>1, <1>2 DEF Unreached, Row

LEMMA NotifySafe ==
  ASSUME TypeOK, RowsAccounted, NEW p \in Posts, NEW chain \in Chains,
         Notify(p, chain), UNCHANGED failures
  PROVE  TypeOK' /\ RowsAccounted'
<1> DEFINE new == [pc |-> "persist", rows |-> Unreached(chain)]
<1>1. new.rows \subseteq Row /\ \A r \in new.rows : r.batch = batches + 1
  BY UnreachedRows DEF Notify
<1>2. post' = [post EXCEPT ![p] = new] /\ new \in Post
  BY <1>1 DEF Notify, Turn, Post
<1>3. /\ batches' = batches + 1 /\ batches' \in 0..MaxBatches
      /\ UNCHANGED <<sessionVars, subs, pending, spent>>
  BY SessionBounds DEF Notify, TypeOK
<1> HIDE DEF new
<1>4. TypeOK'
  BY <1>2, <1>3 DEF TypeOK, sessionVars
<1>5. post \in [Posts -> Post] /\ batches \in Nat /\ new.pc = "persist"
      /\ \A r \in Row : r.batch \in Nat
  BY DEF TypeOK, new, Row
<1>6. /\ \A r \in pending : r.batch \in Nat /\ r.batch <= batches
      /\ \A q \in Posts : \A r \in post[q].rows : r.batch \in Nat /\ r.batch <= batches
  BY <1>5 DEF TypeOK, RowsAccounted, Post
<1>7. \A q \in Posts : q # p => post'[q] = post[q]
  BY <1>2, <1>5
<1>8. post'[p] = new
  BY <1>2, <1>5
<1>9. new.rows \cap pending = {} /\ \A q \in Posts : q # p => new.rows \cap post[q].rows = {}
  BY <1>1, <1>5, <1>6
<1>10. \A q \in Posts : post'[q].pc = "drop" => post'[q].rows \cap pending' \subseteq spent'
  BY <1>3, <1>5, <1>7, <1>8 DEF RowsAccounted
<1>11. \A q \in Posts : post'[q].pc = "persist" =>
         /\ post'[q].rows \cap pending' = {}
         /\ \A k \in Posts : k # q => post'[q].rows \cap post'[k].rows = {}
  BY <1>3, <1>7, <1>8, <1>9 DEF RowsAccounted
<1>12. /\ \A r \in pending' : r.batch <= batches'
       /\ \A q \in Posts : \A r \in post'[q].rows : r.batch <= batches'
  BY <1>1, <1>3, <1>5, <1>6, <1>7, <1>8
<1>13. RowsAccounted'
  BY <1>10, <1>11, <1>12 DEF RowsAccounted
<1>14. QED BY <1>4, <1>13

LEMMA PersistSafe ==
  ASSUME TypeOK, RowsAccounted, NEW p \in Posts, Persist(p), UNCHANGED failures
  PROVE  TypeOK' /\ RowsAccounted'
<1>1. /\ post' = [post EXCEPT ![p] = Idle] /\ post \in [Posts -> Post]
      /\ Idle \in Post /\ post[p].rows \subseteq Row
  BY DEF Persist, Turn, TypeOK, Post, Idle
<1>2. pending' = pending \cup post[p].rows /\ UNCHANGED <<sessionVars, subs, batches, spent>>
  BY DEF Persist
<1>3. TypeOK'
  BY <1>1, <1>2 DEF TypeOK, sessionVars
<1>4. \A q \in Posts : q # p => post'[q] = post[q]
  BY <1>1
<1>5. post'[p].pc = "free" /\ post'[p].rows = {}
  BY <1>1 DEF Idle
<1>6. \A q \in Posts : q # p => post[p].rows \cap post[q].rows = {}
  BY DEF Persist, RowsAccounted
<1>7. \A q \in Posts : post'[q].pc = "drop" => post'[q].rows \cap pending' \subseteq spent'
  BY <1>2, <1>4, <1>5, <1>6 DEF RowsAccounted
<1>8. \A q \in Posts : post'[q].pc = "persist" =>
         /\ post'[q].rows \cap pending' = {}
         /\ \A k \in Posts : k # q => post'[q].rows \cap post'[k].rows = {}
  BY <1>2, <1>4, <1>5, <1>6 DEF RowsAccounted
<1>9. /\ \A r \in pending' : r.batch <= batches'
      /\ \A q \in Posts : \A r \in post'[q].rows : r.batch <= batches'
  BY <1>2, <1>4, <1>5 DEF RowsAccounted
<1>10. RowsAccounted'
  BY <1>7, <1>8, <1>9 DEF RowsAccounted
<1>11. QED BY <1>3, <1>10

\* Reading, pushing and giving up: the rows in hand only shrink, or are stored
\* ones, and nothing is inserted.
LEMMA HandSafe ==
  ASSUME TypeOK, RowsAccounted, NEW p \in Posts, NEW new \in Post,
         post' = [post EXCEPT ![p] = new], new.pc # "persist",
         new.rows \subseteq post[p].rows \/ new.rows \subseteq pending,
         new.pc = "drop" => new.rows \subseteq spent',
         post[p].pc # "persist" \/ new.rows = {},
         spent \subseteq spent', spent' \subseteq Row,
         minted' \subseteq Sids, UNCHANGED <<meta, queues, act, cut, subs, pending, batches, failures>>
  PROVE  TypeOK' /\ RowsAccounted'
<1>1. TypeOK'
  BY DEF TypeOK
<1>2. \A q \in Posts : q # p => post'[q] = post[q]
  BY DEF TypeOK
<1>3. post'[p] = new
  BY DEF TypeOK
<1>4. \A q \in Posts : post'[q].pc = "drop" => post'[q].rows \cap pending' \subseteq spent'
  BY <1>2, <1>3 DEF RowsAccounted
<1>5. \A q \in Posts : post'[q].pc = "persist" =>
         /\ post'[q].rows \cap pending' = {}
         /\ \A k \in Posts : k # q => post'[q].rows \cap post'[k].rows = {}
  BY <1>2, <1>3 DEF RowsAccounted
<1>6. /\ \A r \in pending' : r.batch <= batches'
      /\ \A q \in Posts : \A r \in post'[q].rows : r.batch <= batches'
  BY <1>2, <1>3 DEF RowsAccounted
<1>7. RowsAccounted'
  BY <1>4, <1>5, <1>6 DEF RowsAccounted
<1>8. QED BY <1>1, <1>7

LEMMA InitializeSafe ==
  ASSUME TypeOK, RowsAccounted, NEW p \in Posts, NEW s \in Sids, Initialize(p, s),
         UNCHANGED failures
  PROVE  TypeOK' /\ RowsAccounted'
<1> DEFINE rows == {r \in pending : r.sid = s}
           new == IF rows = {} THEN Idle ELSE [pc |-> "push", rows |-> rows]
<1>1. rows \subseteq pending /\ rows \subseteq Row
  BY DEF TypeOK
<1>2. /\ new \in Post /\ post' = [post EXCEPT ![p] = new] /\ new.rows \subseteq pending
      /\ new.pc # "persist" /\ new.pc # "drop"
  BY <1>1 DEF Initialize, Turn, Idle, Post
<1>3. minted' \subseteq Sids /\ spent' = spent /\ post[p].pc # "persist"
  BY DEF Initialize, TypeOK
<1>4. UNCHANGED <<meta, queues, act, cut, subs, pending, batches, failures>>
  BY DEF Initialize
<1> HIDE DEF new
<1>5. spent \subseteq Row
  BY DEF TypeOK
<1>6. QED BY <1>2, <1>3, <1>4, <1>5, HandSafe

LEMMA FlushPushSafe ==
  ASSUME TypeOK, RowsAccounted, NEW p \in Posts, FlushPush(p), UNCHANGED failures
  PROVE  TypeOK' /\ RowsAccounted'
<1>1. PICK old \in SUBSET post[p].rows :
        LET sent == {r \in post[p].rows \ old : r.sid \in queues} IN
        /\ spent' = spent \cup sent \cup old
        /\ Turn(p, IF sent \cup old = {} THEN Idle
                   ELSE [pc |-> "drop", rows |-> sent \cup old])
  BY DEF FlushPush
<1> DEFINE sent == {r \in post[p].rows \ old : r.sid \in queues}
           new == IF sent \cup old = {} THEN Idle ELSE [pc |-> "drop", rows |-> sent \cup old]
<1>2. sent \cup old \subseteq post[p].rows /\ post[p].rows \subseteq Row
  BY DEF TypeOK, Post
<1>3. /\ new \in Post /\ post' = [post EXCEPT ![p] = new] /\ new.rows \subseteq post[p].rows
      /\ new.pc # "persist" /\ new.rows \subseteq sent \cup old
  BY <1>1, <1>2 DEF Turn, Idle, Post
<1>4. spent' = spent \cup sent \cup old
  BY <1>1
<1>5. spent \subseteq spent' /\ spent' \subseteq Row /\ new.rows \subseteq spent'
  BY <1>2, <1>3, <1>4 DEF TypeOK
<1>6. post[p].pc # "persist" /\ minted' \subseteq Sids
      /\ UNCHANGED <<meta, queues, act, cut, subs, pending, batches, failures>>
  BY DEF FlushPush, sessionVars, TypeOK
<1> HIDE DEF new, sent
<1>7. QED BY <1>3, <1>5, <1>6, HandSafe

LEMMA PostFailsSafe ==
  ASSUME TypeOK, RowsAccounted, NEW p \in Posts, PostFails(p), UNCHANGED failures
  PROVE  TypeOK' /\ RowsAccounted'
<1>1. Idle \in Post /\ Idle.rows = {} /\ Idle.pc = "free"
  BY DEF Idle, Post
<1>2. /\ post' = [post EXCEPT ![p] = Idle] /\ spent' = spent /\ spent \subseteq Row
      /\ minted' \subseteq Sids
      /\ UNCHANGED <<meta, queues, act, cut, subs, pending, batches, failures>>
  BY DEF PostFails, Turn, sessionVars, TypeOK
<1>3. QED BY <1>1, <1>2, HandSafe

LEMMA FlushDropSafe ==
  ASSUME TypeOK, RowsAccounted, NEW p \in Posts, FlushDrop(p), UNCHANGED failures
  PROVE  TypeOK' /\ RowsAccounted'
<1>1. /\ post' = [post EXCEPT ![p] = Idle] /\ post \in [Posts -> Post] /\ Idle \in Post
  BY DEF FlushDrop, Turn, TypeOK, Post, Idle
<1>2. /\ pending' = pending \ post[p].rows /\ spent' = spent \ post[p].rows
      /\ UNCHANGED <<sessionVars, subs, batches>>
  BY DEF FlushDrop
<1>3. TypeOK'
  BY <1>1, <1>2 DEF TypeOK, sessionVars
<1>4. \A q \in Posts : q # p => post'[q] = post[q]
  BY <1>1
<1>5. post'[p].pc = "free" /\ post'[p].rows = {}
  BY <1>1 DEF Idle
<1>6. \A q \in Posts : post'[q].pc = "drop" => post'[q].rows \cap pending' \subseteq spent'
  BY <1>2, <1>4, <1>5 DEF RowsAccounted
<1>7. \A q \in Posts : post'[q].pc = "persist" =>
         /\ post'[q].rows \cap pending' = {}
         /\ \A k \in Posts : k # q => post'[q].rows \cap post'[k].rows = {}
  BY <1>2, <1>4, <1>5 DEF RowsAccounted
<1>8. /\ \A r \in pending' : r.batch <= batches'
      /\ \A q \in Posts : \A r \in post'[q].rows : r.batch <= batches'
  BY <1>2, <1>4, <1>5 DEF RowsAccounted
<1>9. RowsAccounted'
  BY <1>6, <1>7, <1>8 DEF RowsAccounted
<1>10. QED BY <1>3, <1>9

\* A step of the notifications keeps the invariant.
LEMMA NoteStep ==
  ASSUME Sessions, RowsAccounted, NoteNext, UNCHANGED failures
  PROVE  Sessions' /\ RowsAccounted'
<1>0. TypeOK
  BY DEF Sessions
<1>1. TypeOK' /\ RowsAccounted'
  <2>1. ASSUME NEW s \in minted, NEW uri \in Uris, Subscribe(s, uri) \/ Unsubscribe(s, uri)
        PROVE  TypeOK' /\ RowsAccounted'
    BY <1>0, <2>1, SubscribeSafe
  <2>2. ASSUME NEW p \in Posts, NEW chain \in Chains, Notify(p, chain)
        PROVE  TypeOK' /\ RowsAccounted'
    BY <1>0, <2>2, NotifySafe
  <2>3. ASSUME NEW p \in Posts, NEW s \in Sids, Initialize(p, s)
        PROVE  TypeOK' /\ RowsAccounted'
    BY <1>0, <2>3, InitializeSafe
  <2>4. ASSUME NEW p \in Posts, Persist(p) \/ FlushPush(p) \/ FlushDrop(p) \/ PostFails(p)
        PROVE  TypeOK' /\ RowsAccounted'
    BY <1>0, <2>4, PersistSafe, FlushPushSafe, FlushDropSafe, PostFailsSafe
  <2>5. QED BY <2>1, <2>2, <2>3, <2>4 DEF NoteNext
<1>2. minted \subseteq minted' /\ UNCHANGED <<meta, queues, act, cut>>
  BY DEF NoteNext, Subscribe, Unsubscribe, Notify, Initialize, Persist, FlushPush, FlushDrop,
         PostFails, sessionVars
<1>3. QED BY <1>1, <1>2, NoteKeepsSessions

-----------------------------------------------------------------------------
(* The theorems *)

LEMMA InitSessions == Init => SessionInv
<1> SUFFICES ASSUME Init PROVE SessionInv
  OBVIOUS
<1>1. \A a \in Actors : act[a].pc = "free"
  BY DEF Init, Free, Starting
<1>2. act \in [Actors -> Actor]
  BY FreeTyped DEF Init
<1>3. post \in [Posts -> Post]
  BY DEF Init, Post, Idle
<1>4. TypeOK
  BY <1>2, <1>3, SessionBounds DEF Init, TypeOK
<1>5. Sited /\ Agreed /\ OwnStream /\ NoOrphanQueue
  BY <1>1 DEF Init, Sited, Agreed, OwnStream, NoOrphanQueue, At, Actors
<1>6. RowsAccounted
  BY DEF Init, RowsAccounted, Idle
<1>7. QED BY <1>4, <1>5, <1>6 DEF SessionInv, Sessions

LEMMA SessionInvStep == SessionInv /\ [Next]_vars => SessionInv'
<1> SUFFICES ASSUME SessionInv, [Next]_vars PROVE SessionInv'
  OBVIOUS
<1>0. Sessions /\ RowsAccounted
  BY DEF SessionInv
<1>1. CASE SessionNext /\ UNCHANGED <<noteVars, failures>>
  <2>1. Sessions'
    BY <1>0, <1>1, SessionStep
  <2>2. RowsAccounted'
    BY <1>0, <1>1 DEF noteVars, RowsAccounted
  <2>3. QED BY <2>1, <2>2 DEF SessionInv
<1>2. CASE NoteNext /\ UNCHANGED failures
  BY <1>0, <1>2, NoteStep DEF SessionInv
<1>3. ASSUME NEW g \in Streams, CutShort(g), UNCHANGED noteVars
      PROVE  SessionInv'
  <2>1. Sessions'
    BY <1>0, <1>3, CutStep
  <2>2. RowsAccounted'
    BY <1>0, <1>3 DEF noteVars, RowsAccounted
  <2>3. QED BY <2>1, <2>2 DEF SessionInv
<1>4. CASE Crash
  <2>1. Sessions'
    BY <1>0, <1>4, CrashStep
  <2>2. \A p \in Posts : post'[p].pc = "free" /\ post'[p].rows = {}
    BY <1>4 DEF Crash, Idle
  <2>3. RowsAccounted'
    BY <1>0, <1>4, <2>2 DEF Crash, RowsAccounted
  <2>4. QED BY <2>1, <2>3 DEF SessionInv
<1>5. CASE UNCHANGED vars
  <2>1. TypeOK'
    BY <1>0, <1>5 DEF Sessions, TypeOK, vars, sessionVars, noteVars
  <2>2. Sessions'
    BY <1>0, <1>5, <2>1, NoteKeepsSessions DEF vars, sessionVars
  <2>3. RowsAccounted'
    BY <1>0, <1>5 DEF vars, noteVars, RowsAccounted
  <2>4. QED BY <2>2, <2>3 DEF SessionInv
<1>6. QED BY <1>1, <1>2, <1>3, <1>4, <1>5 DEF Next

\* The invariant of the sessions and of the stored rows holds throughout.
THEOREM SessionInvariance == Spec => []SessionInv
<1>1. SessionInv /\ [Next]_vars => SessionInv'
  BY SessionInvStep
<1>2. QED BY InitSessions, <1>1, PTL DEF Spec

\* Every variable stays in its range.
THEOREM SessionsTyped == Spec => []TypeOK
<1>1. SessionInv => TypeOK
  BY DEF SessionInv, Sessions
<1>2. QED BY <1>1, SessionInvariance, PTL

\* A queue has a stream that drains it, unless that stream was cancelled.
THEOREM QueuesAreDrained == Spec => []NoOrphanQueue
<1>1. SessionInv => NoOrphanQueue
  BY DEF SessionInv, Sessions
<1>2. QED BY <1>1, SessionInvariance, PTL

\* A stream runs on a session of its own user.
THEOREM StreamsOwnTheirSession == Spec => []OwnStream
<1>1. SessionInv => OwnStream
  BY DEF SessionInv, Sessions
<1>2. QED BY <1>1, SessionInvariance, PTL

\* A row is deleted only after it was replayed or found too old: only a replay
\* deletes, and what it deletes it has used.
THEOREM RowsAreReplayed == Spec => NoRowLost
<1>1. SessionInv /\ [Next]_vars => [pending \ pending' \subseteq spent]_vars
  <2> SUFFICES ASSUME SessionInv, Next PROVE pending \ pending' \subseteq spent
    OBVIOUS
  <2>1. ASSUME NEW p \in Posts, FlushDrop(p)
        PROVE  pending \ pending' \subseteq spent
    <3>1. post[p].rows \cap pending \subseteq spent
      BY <2>1 DEF FlushDrop, SessionInv, RowsAccounted
    <3>2. QED BY <2>1, <3>1 DEF FlushDrop
  <2>2. CASE \E p \in Posts : FlushDrop(p)
    BY <2>1, <2>2
  <2>3. CASE ~ \E p \in Posts : FlushDrop(p)
    <3>1. pending \subseteq pending'
      BY <2>3 DEF Next, NoteNext, Subscribe, Unsubscribe, Notify, Initialize, Persist,
                  FlushPush, PostFails, Crash, noteVars
    <3>2. QED BY <3>1
  <2>4. QED BY <2>2, <2>3
<1>2. QED BY <1>1, SessionInvariance, PTL DEF Spec, NoRowLost

=============================================================================
