---------------------- MODULE SubscriptionBilling_proofs ----------------------
(* Theorems about the subscription of an organization, for any number of        *)
(* subscriptions, users, requests and events.                                   *)
EXTENDS SubscriptionBilling, FiniteSetTheorems, TLAPS

\* Only what was sent has a row among the events.
ClaimedWasSent == \A e \in Events : claim[e] # "none" => e \in DOMAIN sent

\* Who is about to join is somebody.
JoinPcs == {"count", "buy", "join"}
JoinsSomebody == \A t \in Tasks : task[t].pc \in JoinPcs => task[t].user \in Users

TypeInv == TypeOK /\ ClaimedWasSent /\ JoinsSomebody

\* An event without processed_at is in some request's hands or was dropped, and
\* nobody answers for an event that has no row.
Accounted ==
  /\ \A e \in Events : claim[e] = "claimed" =>
       \/ e \in broken
       \/ \E t \in Tasks : Hook(t) /\ task[t].event = e
  /\ \A e \in acked : claim[e] # "none"

\* The handler of a purchase writes only over another subscription, and has
\* found or made a paid row by the time it is to be stamped.
PurchaseInHand ==
  \A t \in Tasks : Hook(t) /\ sent[task[t].event].name = "created" =>
    /\ At(t, "write") => task[t].seen.ls # sent[task[t].event].sub
    /\ At(t, "stamp") => row.ls \in Subs

\* While a request is alone with the members its count stays right, and so does
\* the quantity it has bought.
CountHolds(t) ==
  LET r == task[t] IN
  r.pc \in SeatPcs /\ r.alone =>
    /\ \A x \in Tasks \ {t} : task[x].pc \notin SeatPcs
    /\ r.pc = "buy" => r.count = Seats(members) + 1
    /\ r.pc = "refund" => r.count = Seats(members)
    /\ r.pc = "join" /\ r.count # 0 =>
         /\ r.count = Seats(members) + 1
         /\ r.seen.ls \in Subs /\ sold[r.seen.ls].quantity = r.count

CountsHold == \A t \in Tasks : CountHolds(t)
------------------------------------------------------------------------------
(* Operators *)

\* The members of the organization can be counted.
LEMMA SeatsType ==
  ASSUME NEW M \in SUBSET Users
  PROVE  /\ IsFiniteSet(M) /\ Cardinality(M) \in Nat /\ Seats(M) \in Nat
         /\ \A u \in Users \ M : Seats(M \cup {u}) = Seats(M) + 1
<1>1. IsFiniteSet(M)
  BY BillingAssumption, FS_Subset
<1>2. Cardinality(M) \in Nat
  BY <1>1, FS_CardinalityType
<1>3. \A u : u \notin M => Cardinality(M \cup {u}) = Cardinality(M) + 1
  BY <1>1, FS_AddElement
<1>4. QED BY <1>1, <1>2, <1>3 DEF Seats

\* A row that is put together is one.
LEMMA RowTyped ==
  ASSUME NEW ls \in Subs \cup {Trial, None}, NEW tier \in Tiers, NEW status \in Statuses,
         NEW cancel \in BOOLEAN, NEW seats \in Nat
  PROVE  Row(ls, tier, status, cancel, seats) \in RowType
BY DEF Row, RowType

LEMMA ConstantRows == NoRow \in RowType /\ TrialRow \in RowType
<1>1. "team" \in Tiers /\ "expired" \in Statuses /\ "trialing" \in Statuses
  BY DEF Tiers, Statuses
<1>2. QED BY <1>1 DEF NoRow, TrialRow, Row, RowType

\* Every status of LemonSqueezy has one of ours.
LEMMA StatusTyped ==
  ASSUME NEW s PROVE StatusOf(s) \in Statuses
BY DEF StatusOf, Statuses

\* A handler makes a row of the row it has read.
LEMMA HandledTyped ==
  ASSUME NEW ev \in EventType, NEW old \in RowType
  PROVE  /\ Handled(ev, old) \in RowType
         /\ ev.name # "created" => Handled(ev, old).ls = old.ls
         /\ ev.name = "created" => Handled(ev, old).ls = ev.sub
<1>0. /\ ev.name \in {"created", "updated", "cancelled", "expired"}
      /\ ev.sub \in Subs /\ ev.tier \in Tiers /\ ev.cancelled \in BOOLEAN /\ ev.quantity \in Nat
      /\ StatusOf(ev.status) \in Statuses
      /\ "cancelled" \in Statuses /\ "expired" \in Statuses
  BY StatusTyped DEF EventType, Statuses
<1>1. CASE ev.name = "created"
  <2>1. Handled(ev, old) = CreatedRow(ev)
    BY <1>1 DEF Handled
  <2>2. (IF ev.tier = "team" THEN 0 ELSE 1) \in Nat
    OBVIOUS
  <2>3. CreatedRow(ev) \in RowType /\ CreatedRow(ev).ls = ev.sub
    BY <1>0, <2>2 DEF CreatedRow, Row, RowType
  <2>4. QED BY <1>1, <2>1, <2>3
<1>2. CASE ev.name = "updated"
  BY <1>0, <1>2 DEF Handled, Updated, RowType
<1>3. CASE ev.name = "cancelled"
  BY <1>0, <1>3 DEF Handled, RowType
<1>4. CASE ev.name = "expired"
  BY <1>0, <1>4 DEF Handled, RowType
<1>5. QED BY <1>0, <1>1, <1>2, <1>3, <1>4

\* What UPDATE leaves is a row, of one of the two subscriptions.
LEMMA WrittenTyped ==
  ASSUME row \in RowType, NEW seen \in RowType, NEW new \in RowType
  PROVE  /\ Written(seen, new) \in RowType
         /\ Written(seen, new).ls = IF new.ls # seen.ls THEN new.ls ELSE row.ls
BY DEF Written, RowType
------------------------------------------------------------------------------
(* Types *)

\* Every change at LemonSqueezy adds an event and keeps the earlier ones.
LEMMA ChangeFacts ==
  ASSUME TypeInv, NEW s \in Subs, NEW x \in Known, x.status \notin {"none", "offered"},
         NEW name \in {"created", "updated", "cancelled", "expired"}, Change(s, x, name)
  PROVE  /\ sold' = [sold EXCEPT ![s] = x] /\ sold' \in [Subs -> Known]
         /\ sent' \in Seq(EventType) /\ Len(sent') <= MaxEvents
         /\ DOMAIN sent' = DOMAIN sent \cup {Len(sent) + 1}
         /\ \A e \in DOMAIN sent : sent'[e] = sent[e]
         /\ \A e \in DOMAIN sent' \ DOMAIN sent : e \in Events /\ claim[e] = "none"
<1>1. EventOf(name, s, x) \in EventType
  BY DEF EventOf, EventType, Known
<1>2. /\ sold \in [Subs -> Known] /\ sent \in Seq(EventType) /\ Len(sent) <= MaxEvents
      /\ MaxEvents \in Nat /\ claim \in [Events -> {"none", "claimed", "processed"}]
  BY BillingAssumption DEF TypeInv, TypeOK
<1>3. sold' = [sold EXCEPT ![s] = x] /\ sent' = Append(sent, EventOf(name, s, x)) /\ Len(sent) < MaxEvents
  BY DEF Change
<1>4. sold' \in [Subs -> Known]
  BY <1>2, <1>3
<1>5. /\ sent' \in Seq(EventType) /\ Len(sent') = Len(sent) + 1 /\ Len(sent) \in Nat
      /\ DOMAIN sent = 1..Len(sent) /\ DOMAIN sent' = 1..Len(sent) + 1
      /\ \A e \in DOMAIN sent : sent'[e] = sent[e]
  BY <1>1, <1>2, <1>3
<1>6. \A e \in DOMAIN sent' \ DOMAIN sent : e \in Events /\ claim[e] = "none"
  BY <1>2, <1>3, <1>5 DEF TypeInv, ClaimedWasSent, Events
<1>7. QED BY <1>2, <1>3, <1>4, <1>5, <1>6

\* What a step of LemonSqueezy, also one that a request has caused, does to what
\* was sold and sent.
ShopMoves ==
  /\ sold' \in [Subs -> Known]
  /\ sent' \in Seq(EventType) /\ Len(sent') <= MaxEvents
  /\ DOMAIN sent \subseteq DOMAIN sent'
  /\ \A e \in DOMAIN sent : sent'[e] = sent[e]
  /\ \A e \in DOMAIN sent' \ DOMAIN sent : e \in Events /\ claim[e] = "none"

LEMMA ChangeMoves ==
  ASSUME TypeInv, NEW s \in Subs, NEW x \in Known, x.status \notin {"none", "offered"},
         NEW name \in {"created", "updated", "cancelled", "expired"}, Change(s, x, name)
  PROVE  ShopMoves /\ sold' = [sold EXCEPT ![s] = x]
BY ChangeFacts DEF ShopMoves

LEMMA StillMoves ==
  ASSUME TypeInv, UNCHANGED <<sold, sent>>
  PROVE  ShopMoves
BY DEF ShopMoves, TypeInv, TypeOK

\* What is sold has a plan, a flag and a quantity.
LEMMA KnownFacts ==
  ASSUME TypeInv, NEW s \in Subs
  PROVE  /\ sold[s] \in Known
         /\ sold[s].status \in Reported \cup {"none", "offered", "cancelled", "expired"}
         /\ sold[s].tier \in Tiers /\ sold[s].cancelled \in BOOLEAN /\ sold[s].quantity \in Nat
         /\ Reported \cap {"none", "offered", "cancelled", "expired"} = {} /\ "active" \in Reported
         /\ Runs(s) => sold[s].status \notin {"none", "offered"}
<1>1. sold[s] \in Known
  BY DEF TypeInv, TypeOK
<1>2. Reported \cap {"none", "offered", "cancelled", "expired"} = {} /\ "active" \in Reported
  BY BillingAssumption
<1>3. QED BY <1>1, <1>2 DEF Known, Runs

LEMMA PatchedFacts ==
  ASSUME TypeInv, NEW s, NEW n \in Nat, Patched(s, n)
  PROVE  s \in Subs /\ ShopMoves /\ sold' = [sold EXCEPT ![s] = [sold[s] EXCEPT !.quantity = n]]
<1>1. s \in Subs /\ Runs(s) /\ Change(s, [sold[s] EXCEPT !.quantity = n], "updated")
  BY DEF Patched
<1> DEFINE x == [sold[s] EXCEPT !.quantity = n]
<1>2. x \in Known /\ x.status \notin {"none", "offered"}
  BY <1>1, KnownFacts DEF Known
<1>3. QED BY <1>1, <1>2, ChangeMoves

LEMMA CancelAtShopFacts ==
  ASSUME TypeInv, NEW s \in Subs, CancelAtShop(s)
  PROVE  /\ ShopMoves
         /\ sold' = [sold EXCEPT ![s] = [sold[s] EXCEPT !.status = "cancelled", !.cancelled = TRUE]]
<1> DEFINE x == [sold[s] EXCEPT !.status = "cancelled", !.cancelled = TRUE]
<1>1. x \in Known /\ x.status \notin {"none", "offered"}
  BY KnownFacts DEF Known
<1>2. Change(s, x, "cancelled")
  BY DEF CancelAtShop
<1>3. QED BY <1>1, <1>2, ChangeMoves

\* What LemonSqueezy does by itself leaves the quantities alone.
LEMMA ShopFacts ==
  ASSUME TypeInv, Shop
  PROVE  /\ ShopMoves /\ UNCHANGED <<acked, claim, row, members, task, broken, untidy>>
         /\ \A s \in Subs : sold'[s].quantity = sold[s].quantity
<1>0. PICK s \in Subs :
        \/ Purchase(s) \/ ChangePlan(s) \/ Unsubscribe(s) \/ Expire(s)
        \/ \E status \in Reported : Report(s, status)
  BY DEF Shop
<1>1. sold \in [Subs -> Known]
  BY DEF TypeInv, TypeOK
<1>2. ASSUME NEW x \in Known, x.status \notin {"none", "offered"}, x.quantity = sold[s].quantity,
             NEW name \in {"created", "updated", "cancelled", "expired"}, Change(s, x, name)
      PROVE  ShopMoves /\ \A r \in Subs : sold'[r].quantity = sold[r].quantity
  <2>1. ShopMoves /\ sold' = [sold EXCEPT ![s] = x]
    BY <1>2, ChangeMoves
  <2>2. QED BY <1>1, <1>2, <2>1
<1>3. CASE Purchase(s)
  <2>1. PICK tier \in Tiers : Change(s, [sold[s] EXCEPT !.status = "active", !.tier = tier], "created")
    BY <1>3 DEF Purchase
  <2> DEFINE x == [sold[s] EXCEPT !.status = "active", !.tier = tier]
  <2>2. x \in Known /\ x.status \notin {"none", "offered"} /\ x.quantity = sold[s].quantity
    BY KnownFacts DEF Known
  <2>3. QED BY <1>2, <1>3, <2>1, <2>2 DEF Purchase
<1>4. CASE ChangePlan(s)
  <2>1. PICK tier \in Tiers : Change(s, [sold[s] EXCEPT !.tier = tier], "updated")
    BY <1>4 DEF ChangePlan
  <2> DEFINE x == [sold[s] EXCEPT !.tier = tier]
  <2>2. x \in Known /\ x.status \notin {"none", "offered"} /\ x.quantity = sold[s].quantity
    BY <1>4, KnownFacts DEF Known, ChangePlan
  <2>3. QED BY <1>2, <1>4, <2>1, <2>2 DEF ChangePlan
<1>5. CASE Unsubscribe(s)
  <2>1. ShopMoves /\ sold' = [sold EXCEPT ![s] = [sold[s] EXCEPT !.status = "cancelled", !.cancelled = TRUE]]
    BY <1>5, CancelAtShopFacts DEF Unsubscribe
  <2>2. \A r \in Subs : sold'[r].quantity = sold[r].quantity
    BY <1>1, <2>1, KnownFacts DEF Known
  <2>3. QED BY <1>5, <2>1, <2>2 DEF Unsubscribe
<1>6. CASE Expire(s)
  <2> DEFINE x == [sold[s] EXCEPT !.status = "expired"]
  <2>1. x \in Known /\ x.status \notin {"none", "offered"} /\ x.quantity = sold[s].quantity
    BY KnownFacts DEF Known
  <2>2. QED BY <1>2, <1>6, <2>1 DEF Expire
<1>7. ASSUME NEW status \in Reported, Report(s, status)
      PROVE  /\ ShopMoves /\ UNCHANGED <<acked, claim, row, members, task, broken, untidy>>
             /\ \A r \in Subs : sold'[r].quantity = sold[r].quantity
  <2> DEFINE x == [sold[s] EXCEPT !.status = status, !.cancelled = FALSE]
  <2>1. x \in Known /\ x.status \notin {"none", "offered"} /\ x.quantity = sold[s].quantity
    BY KnownFacts DEF Known
  <2>2. QED BY <1>2, <1>7, <2>1 DEF Report
<1>8. QED BY <1>0, <1>3, <1>4, <1>5, <1>6, <1>7

\* What handlers there are after a step were there before it, and it is still
\* somebody who joins.
Follow ==
  \A x \in Tasks :
    /\ Hook(x)' => Hook(x) /\ task'[x].event = task[x].event
    /\ task'[x].pc \in JoinPcs => task'[x].user \in Users

LEMMA RequestFacts ==
  ASSUME TypeInv, NEW t \in Tasks
  PROVE  /\ task[t] \in RequestType /\ task[t].pc \in Pcs /\ task[t].event \in 0..MaxEvents
         /\ task[t].seen \in RowType /\ task[t].user \in Users \cup {None}
         /\ task[t].count \in Nat /\ task[t].alone \in BOOLEAN
         /\ task[t].seen.ls \in Subs \cup {Trial, None}
         /\ row \in RowType /\ row.ls \in Subs \cup {Trial, None}
         /\ Hook(t) => /\ task[t].event \in DOMAIN sent /\ task[t].event \in Events
                       /\ sent[task[t].event] \in EventType
<1>1. /\ task[t] \in RequestType /\ row \in RowType /\ sent \in Seq(EventType) /\ Len(sent) <= MaxEvents
      /\ MaxEvents \in Nat
      /\ Hook(t) => task[t].event \in DOMAIN sent
  BY BillingAssumption DEF TypeInv, TypeOK
<1>2. Hook(t) => task[t].event \in Events /\ sent[task[t].event] \in EventType
  <2>1. sent \in Seq(EventType) /\ Len(sent) <= MaxEvents /\ MaxEvents \in Nat
    BY <1>1
  <2>2. \A e \in DOMAIN sent : e \in 1..MaxEvents /\ sent[e] \in EventType
    BY <2>1
  <2>3. QED BY <1>1, <2>2 DEF Events, Hook
<1>3. \A r \in RowType : r.ls \in Subs \cup {Trial, None}
  BY DEF RowType
<1>4. /\ task[t].pc \in Pcs /\ task[t].event \in 0..MaxEvents /\ task[t].seen \in RowType
      /\ task[t].user \in Users \cup {None} /\ task[t].count \in Nat /\ task[t].alone \in BOOLEAN
  BY <1>1 DEF RequestType
<1>5. QED BY <1>1, <1>2, <1>3, <1>4 DEF Hook

LEMMA IdleTyped == Idle \in RequestType /\ Idle.pc \notin HookPcs /\ Idle.pc = "idle"
<1>1. 0 \in 0..MaxEvents
  BY BillingAssumption
<1>2. QED BY <1>1, ConstantRows DEF Idle, Request, RequestType, Pcs, HookPcs, SeatPcs

\* One request becomes r, which handles no event that it did not handle before.
LEMMA SetTask ==
  ASSUME TypeInv, NEW t \in Tasks, NEW r \in RequestType, task' = [task EXCEPT ![t] = r],
         r.pc \in HookPcs => Hook(t) /\ r.event = task[t].event,
         r.pc \in JoinPcs => r.user \in Users
  PROVE  /\ task' \in [Tasks -> RequestType] /\ Follow
         /\ task'[t] = r /\ \A x \in Tasks \ {t} : task'[x] = task[x]
<1>1. task \in [Tasks -> RequestType]
  BY DEF TypeInv, TypeOK
<1>2. task' \in [Tasks -> RequestType] /\ task'[t] = r /\ \A x \in Tasks \ {t} : task'[x] = task[x]
  BY <1>1
<1>3. QED BY <1>2 DEF Follow, Hook, TypeInv, JoinsSomebody

LEMMA DoneTask ==
  ASSUME TypeInv, NEW t \in Tasks, Done(t)
  PROVE  /\ task' \in [Tasks -> RequestType] /\ Follow
         /\ task'[t] = Idle /\ \A x \in Tasks \ {t} : task'[x] = task[x]
BY SetTask, IdleTyped DEF Done, JoinPcs

LEMMA MoveTask ==
  ASSUME TypeInv, NEW t \in Tasks, NEW pc \in Pcs, Move(t, pc), pc \in HookPcs => Hook(t),
         pc \in JoinPcs => task[t].user \in Users
  PROVE  /\ task' \in [Tasks -> RequestType] /\ Follow
         /\ task'[t] = [task[t] EXCEPT !.pc = pc] /\ \A x \in Tasks \ {t} : task'[x] = task[x]
<1> DEFINE r == [task[t] EXCEPT !.pc = pc]
<1>1. r \in RequestType /\ r.pc = pc /\ r.event = task[t].event /\ r.user = task[t].user
  BY RequestFacts DEF RequestType
<1>2. task' = [task EXCEPT ![t] = r]
  BY DEF Move
<1> HIDE DEF r
<1>3. QED BY <1>1, <1>2, SetTask DEF r

\* A request that changes members comes in.
LEMMA EnterTask ==
  ASSUME TypeInv, NEW t \in Tasks, NEW pc \in SeatPcs \cup {"idle"}, NEW ls \in Subs \cup {Trial, None},
         NEW u \in Users \cup {None}, Enter(t, pc, ls, u), ~Hook(t),
         pc \in JoinPcs => u \in Users
  PROVE  /\ task' \in [Tasks -> RequestType] /\ Follow
         /\ task'[t].pc = pc /\ task'[t].count = 0 /\ task'[t].user = u
         /\ pc # "idle" /\ task'[t].alone => \A x \in Tasks : task[x].pc \notin SeatPcs
         /\ \A x \in Tasks \ {t} :
              /\ task'[x].pc = task[x].pc /\ task'[x].event = task[x].event
              /\ task'[x].seen = task[x].seen
              /\ task[x].pc \in SeatPcs => ~task'[x].alone
<1> DEFINE others == {x \in Tasks : task[x].pc \in SeatPcs}
           r == Request(pc, 0, [NoRow EXCEPT !.ls = ls], u, 0, pc = "idle" \/ others = {})
<1>1. task' = [x \in Tasks |-> IF x = t THEN r
                 ELSE IF x \in others THEN [task[x] EXCEPT !.alone = FALSE] ELSE task[x]]
  BY DEF Enter
<1>2. r \in RequestType
  <2>1. [NoRow EXCEPT !.ls = ls] \in RowType
    BY ConstantRows DEF RowType
  <2>2. pc \in Pcs /\ 0 \in 0..MaxEvents
    BY BillingAssumption DEF Pcs
  <2>3. QED BY <2>1, <2>2 DEF Request, RequestType
<1>3. r.pc = pc /\ r.count = 0 /\ r.user = u /\ r.alone = (pc = "idle" \/ others = {})
  BY DEF Request
<1>4. task \in [Tasks -> RequestType]
  BY DEF TypeInv, TypeOK
<1> HIDE DEF r
<1>5. \A x \in Tasks : [task[x] EXCEPT !.alone = FALSE] \in RequestType
  BY <1>4 DEF RequestType
<1>6. task' \in [Tasks -> RequestType]
  BY <1>1, <1>2, <1>4, <1>5
<1>7. \A x \in Tasks \ {t} :
        /\ task'[x].pc = task[x].pc /\ task'[x].event = task[x].event /\ task'[x].seen = task[x].seen
        /\ task'[x].user = task[x].user
        /\ task[x].pc \in SeatPcs => ~task'[x].alone
  BY <1>1, <1>4 DEF RequestType
<1>8. task'[t] = r
  BY <1>1
<1>9. Follow
  BY <1>3, <1>7, <1>8 DEF Follow, Hook, HookPcs, SeatPcs, TypeInv, JoinsSomebody
<1>10. QED BY <1>3, <1>6, <1>7, <1>8, <1>9

\* How the parts of the types come together after a step.
LEMMA TypesTogether ==
  ASSUME TypeInv, ShopMoves, acked' \subseteq DOMAIN sent, broken' \subseteq DOMAIN sent,
         untidy' \subseteq Subs, row' \in RowType, members' \subseteq Users,
         UNCHANGED claim, task' \in [Tasks -> RequestType], Follow
  PROVE  TypeInv'
<1>1. DOMAIN sent \subseteq DOMAIN sent' /\ claim' = claim
  BY DEF ShopMoves
<1>2. \A t \in Tasks : Hook(t)' => task'[t].event \in DOMAIN sent'
  BY <1>1 DEF Follow, TypeInv, TypeOK
<1>3. \A e \in Events : claim'[e] # "none" => e \in DOMAIN sent'
  BY <1>1 DEF TypeInv, ClaimedWasSent
<1>4. TypeOK'
  BY <1>1, <1>2 DEF TypeInv, TypeOK, ShopMoves, Hook
<1>5. QED BY <1>3, <1>4 DEF TypeInv, ClaimedWasSent, Follow, JoinsSomebody

LEMMA TypeInit ==
  ASSUME Init PROVE TypeInv
<1>1. sold \in [Subs -> Known]
  <2>1. "team" \in Tiers
    BY DEF Tiers
  <2>2. QED BY <2>1 DEF Init, Known
<1>2. task \in [Tasks -> RequestType] /\ \A t \in Tasks : ~Hook(t) /\ task[t].pc \notin JoinPcs
  BY IdleTyped DEF Init, Hook, JoinPcs
<1>3. /\ sent \in Seq(EventType) /\ Len(sent) = 0 /\ DOMAIN sent = {}
      /\ MaxEvents \in Nat /\ 0 <= MaxEvents
  BY BillingAssumption DEF Init
<1>4. row \in RowType
  BY ConstantRows DEF Init
<1>5. TypeOK
  BY <1>1, <1>2, <1>3, <1>4 DEF Init, TypeOK
<1>6. QED BY <1>2, <1>5 DEF Init, TypeInv, ClaimedWasSent, JoinsSomebody

\* The steps of the webhook.
LEMMA WebhookTypes ==
  ASSUME TypeInv, NEW t \in Tasks, Webhook(t)
  PROVE  TypeInv'
<1>0. /\ acked \subseteq DOMAIN sent /\ broken \subseteq DOMAIN sent /\ untidy \subseteq Subs
      /\ members \subseteq Users /\ row \in RowType
      /\ claim \in [Events -> {"none", "claimed", "processed"}]
      /\ task \in [Tasks -> RequestType]
      /\ sent \in Seq(EventType)
  BY DEF TypeInv, TypeOK
<1>1. ASSUME NEW e \in Events, Claim(t, e) PROVE TypeInv'
  <2> DEFINE r == Request("select", e, NoRow, None, 0, TRUE)
  <2>1. e \in DOMAIN sent /\ UNCHANGED <<sold, sent, acked, row, members, broken>>
    BY <1>1 DEF Claim
  <2>2. r \in RequestType /\ r.event = e /\ r.pc = "select"
    <3>1. e \in 0..MaxEvents
      BY BillingAssumption DEF Events
    <3>2. QED BY <3>1, ConstantRows DEF Request, RequestType, Pcs, HookPcs, SeatPcs
  <2>3. task' = [task EXCEPT ![t] = r]
    BY <1>1 DEF Claim
  <2> HIDE DEF r
  <2>4. task' \in [Tasks -> RequestType]
    BY <1>0, <2>2, <2>3
  <2>5. \A x \in Tasks : Hook(x)' => task'[x].event \in DOMAIN sent
    BY <1>0, <2>1, <2>2, <2>3 DEF TypeInv, TypeOK, Hook
  <2>6. untidy' \subseteq Subs
    <3>0. sent[e] \in EventType
      BY <1>0, <2>1
    <3>1. sent[e].sub \in Subs
      BY <3>0 DEF EventType
    <3>2. Crowded({sent[e].sub}) \subseteq Subs
      BY DEF Crowded
    <3>3. QED BY <1>0, <1>1, <3>1, <3>2 DEF Claim
  <2>7. claim' = [claim EXCEPT ![e] = "claimed"]
    BY <1>1 DEF Claim
  <2>8. /\ claim' \in [Events -> {"none", "claimed", "processed"}]
        /\ \A i \in Events : claim'[i] # "none" => i \in DOMAIN sent
    BY <1>0, <2>1, <2>7 DEF TypeInv, ClaimedWasSent
  <2>9. TypeOK'
    BY <1>0, <2>1, <2>4, <2>5, <2>6, <2>8 DEF TypeInv, TypeOK, Hook
  <2>10. JoinsSomebody'
    BY <1>0, <2>2, <2>3 DEF TypeInv, JoinsSomebody, JoinPcs
  <2>11. QED BY <2>1, <2>8, <2>9, <2>10 DEF TypeInv, ClaimedWasSent
<1>2. CASE Select(t)
  <2>0. UNCHANGED <<sold, sent, acked, claim, row, members, broken, untidy>> /\ Hook(t) /\ ShopMoves
    BY <1>2, StillMoves DEF Select, Hook, HookPcs, At
  <2>1. task' \in [Tasks -> RequestType] /\ Follow
    <3>1. CASE Move(t, "stamp")
      BY <2>0, <3>1, MoveTask DEF Pcs, HookPcs, JoinPcs
    <3>2. CASE task' = [task EXCEPT ![t].pc = "write", ![t].seen = row]
      <4> DEFINE r == [task[t] EXCEPT !.pc = "write", !.seen = row]
      <4>1. r \in RequestType /\ r.event = task[t].event /\ r.pc = "write"
        BY <1>0, RequestFacts DEF RequestType, Pcs, HookPcs
      <4>2. task' = [task EXCEPT ![t] = r]
        BY <1>0, <3>2
      <4> HIDE DEF r
      <4>3. QED BY <2>0, <4>1, <4>2, SetTask DEF JoinPcs
    <3>3. QED BY <1>2, <3>1, <3>2 DEF Select
  <2>2. QED BY <1>0, <2>0, <2>1, TypesTogether
<1>3. CASE Write(t)
  <2>0. UNCHANGED <<sold, sent, acked, claim, members, broken, untidy>> /\ Hook(t) /\ ShopMoves
    BY <1>3, StillMoves DEF Write, Hook, HookPcs, At
  <2>1. row' \in RowType
    <3>1. Handled(sent[task[t].event], task[t].seen) \in RowType
      BY <2>0, RequestFacts, HandledTyped
    <3>2. QED BY <1>0, <1>3, <3>1, RequestFacts, WrittenTyped DEF Write
  <2>2. task' \in [Tasks -> RequestType] /\ Follow
    <3> DEFINE r == [task[t] EXCEPT !.pc = "stamp", !.seen = NoRow]
    <3>1. r \in RequestType /\ r.event = task[t].event /\ r.pc = "stamp"
      BY ConstantRows, RequestFacts DEF RequestType, Pcs, HookPcs
    <3>2. task' = [task EXCEPT ![t] = r]
      BY <1>0, <1>3 DEF Write
    <3> HIDE DEF r
    <3>3. QED BY <2>0, <3>1, <3>2, SetTask DEF JoinPcs
  <2>3. QED BY <1>0, <2>0, <2>1, <2>2, TypesTogether
<1>4. CASE Stamp(t)
  <2>0. /\ UNCHANGED <<sold, sent, row, members, broken, untidy>>
        /\ Hook(t) /\ task[t].event \in DOMAIN sent /\ task[t].event \in Events
        /\ acked' = acked \cup {task[t].event}
        /\ claim' = [claim EXCEPT ![task[t].event] = "processed"]
    BY <1>4, RequestFacts DEF Stamp, Hook, HookPcs, At
  <2>1. task' \in [Tasks -> RequestType] /\ Follow
    BY <1>4, DoneTask DEF Stamp
  <2>2. \A x \in Tasks : Hook(x)' => task'[x].event \in DOMAIN sent
    BY <2>1 DEF Follow, TypeInv, TypeOK
  <2>3. /\ claim' \in [Events -> {"none", "claimed", "processed"}]
        /\ \A i \in Events : claim'[i] # "none" => i \in DOMAIN sent
    BY <1>0, <2>0 DEF TypeInv, ClaimedWasSent
  <2>4. TypeOK'
    BY <1>0, <2>0, <2>1, <2>2, <2>3 DEF TypeInv, TypeOK, Hook
  <2>5. QED BY <2>0, <2>1, <2>3, <2>4 DEF TypeInv, ClaimedWasSent, Follow, JoinsSomebody
<1>5. QED BY <1>1, <1>2, <1>3, <1>4 DEF Webhook

\* The steps of trials, cancellations and members.
LEMMA AccountTypes ==
  ASSUME TypeInv, NEW t \in Tasks, Account(t)
  PROVE  TypeInv'
<1>0. /\ acked \subseteq DOMAIN sent /\ broken \subseteq DOMAIN sent /\ untidy \subseteq Subs
      /\ members \subseteq Users /\ row \in RowType
  BY DEF TypeInv, TypeOK
<1>1. CASE Verify(t)
  <2> DEFINE r == [Idle EXCEPT !.pc = "trial"]
  <2>1. r \in RequestType /\ r.pc = "trial"
    BY IdleTyped DEF RequestType, Pcs
  <2>2. task' = [task EXCEPT ![t] = r] /\ UNCHANGED <<sold, sent, acked, claim, row, members, broken, untidy>>
    BY <1>1 DEF Verify
  <2> HIDE DEF r
  <2>3. task' \in [Tasks -> RequestType] /\ Follow
    BY <2>1, <2>2, SetTask DEF HookPcs, JoinPcs
  <2>4. QED BY <1>0, <2>2, <2>3, StillMoves, TypesTogether
<1>2. CASE StartTrial(t)
  <2>1. row' = TrialRow /\ Done(t) /\ UNCHANGED <<sold, sent, acked, claim, members, broken, untidy>>
    BY <1>2 DEF StartTrial
  <2>2. QED BY <1>0, <2>1, ConstantRows, DoneTask, StillMoves, TypesTogether
<1>3. CASE Cancel(t)
  <2> DEFINE r == Request("delete", 0, row, None, 0, TRUE)
  <2>1. r \in RequestType /\ r.pc = "delete"
    <3>1. 0 \in 0..MaxEvents
      BY BillingAssumption
    <3>2. QED BY <1>0, <3>1 DEF Request, RequestType, Pcs
  <2>2. task' = [task EXCEPT ![t] = r] /\ UNCHANGED <<sold, sent, acked, claim, row, members, broken>>
    BY <1>3 DEF Cancel
  <2> HIDE DEF r
  <2>3. task' \in [Tasks -> RequestType] /\ Follow
    BY <2>1, <2>2, SetTask DEF HookPcs, JoinPcs
  <2>4. untidy' \subseteq Subs
    <3>1. Crowded({row.ls}) \subseteq Subs
      BY DEF Crowded
    <3>2. QED BY <1>0, <1>3, <3>1 DEF Cancel
  <2>5. QED BY <1>0, <2>2, <2>3, <2>4, StillMoves, TypesTogether
<1>4. CASE CancelDelete(t)
  <2>1. /\ task[t].seen.ls \in Subs /\ CancelAtShop(task[t].seen.ls)
        /\ UNCHANGED <<acked, claim, row, members, broken, untidy>>
        /\ Move(t, "flag") \/ Done(t)
    BY <1>4 DEF CancelDelete
  <2>2. task' \in [Tasks -> RequestType] /\ Follow
    BY <2>1, MoveTask, DoneTask DEF Pcs, HookPcs, JoinPcs
  <2>3. ShopMoves
    BY <2>1, CancelAtShopFacts
  <2>4. QED BY <1>0, <2>1, <2>2, <2>3, TypesTogether
<1>5. CASE CancelFlag(t)
  <2>1. Done(t) /\ UNCHANGED <<sold, sent, acked, claim, members, broken, untidy>>
    BY <1>5 DEF CancelFlag
  <2>2. [task[t].seen EXCEPT !.cancel = TRUE] \in RowType /\ task[t].seen \in RowType
    BY RequestFacts DEF RowType
  <2>3. row' \in RowType
    BY <1>0, <1>5, <2>2, WrittenTyped DEF CancelFlag
  <2>4. QED BY <1>0, <2>1, <2>3, DoneTask, StillMoves, TypesTogether
<1>6. QED BY <1>1, <1>2, <1>3, <1>4, <1>5 DEF Account

LEMMA MembershipTypes ==
  ASSUME TypeInv, NEW t \in Tasks, Membership(t)
  PROVE  TypeInv'
<1>0. /\ acked \subseteq DOMAIN sent /\ broken \subseteq DOMAIN sent /\ untidy \subseteq Subs
      /\ members \in SUBSET Users /\ row \in RowType /\ row.ls \in Subs \cup {Trial, None}
      /\ "team" \in Tiers
  BY RequestFacts DEF TypeInv, TypeOK, Tiers
<1>1. ASSUME NEW pc \in SeatPcs, NEW n \in Nat, task' = [task EXCEPT ![t].pc = pc, ![t].count = n],
             pc \in JoinPcs => task[t].user \in Users
      PROVE  task' \in [Tasks -> RequestType] /\ Follow
  <2> DEFINE r == [task[t] EXCEPT !.pc = pc, !.count = n]
  <2>1. r \in RequestType /\ r.pc = pc /\ r.user = task[t].user
    BY RequestFacts DEF RequestType, Pcs
  <2>2. task' = [task EXCEPT ![t] = r]
    BY <1>1 DEF TypeInv, TypeOK
  <2> HIDE DEF r
  <2>3. QED BY <1>1, <2>1, <2>2, SetTask DEF HookPcs, SeatPcs
<1>2. At(t, "count") \/ At(t, "buy") \/ At(t, "join") => task[t].user \in Users
  BY DEF TypeInv, JoinsSomebody, JoinPcs, At
<1>3. CASE Count(t)
  <2>1. /\ UNCHANGED <<sold, sent, acked, claim, row, members, broken, untidy>>
        /\ task' = [task EXCEPT ![t].pc = "buy", ![t].count = Seats(members) + 1]
    BY <1>3 DEF Count
  <2>2. task' \in [Tasks -> RequestType] /\ Follow
    <3>1. Seats(members) + 1 \in Nat
      BY <1>0, SeatsType
    <3>2. QED BY <1>1, <1>3, <1>2, <2>1, <3>1 DEF SeatPcs, JoinPcs, Count
  <2>3. QED BY <1>0, <2>1, <2>2, StillMoves, TypesTogether
<1>4. CASE Buy(t)
  <2>1. /\ Patched(task[t].seen.ls, task[t].count)
        /\ Move(t, "join") \/ Done(t)
        /\ UNCHANGED <<acked, claim, row, members, broken, untidy>>
    BY <1>4 DEF Buy
  <2>2. task' \in [Tasks -> RequestType] /\ Follow
    BY <1>4, <1>2, MoveTask, DoneTask DEF Buy, Pcs, SeatPcs, HookPcs
  <2>3. ShopMoves
    BY <1>4, PatchedFacts, RequestFacts DEF Buy
  <2>4. QED BY <1>0, <1>4, <2>2, <2>3, TypesTogether DEF Buy
<1>5. CASE Join(t)
  <2>1. /\ Done(t) /\ members' = members \cup {task[t].user}
        /\ UNCHANGED <<sold, sent, acked, claim, row, broken, untidy>>
    BY <1>5 DEF Join
  <2>2. members' \subseteq Users
    BY <1>0, <1>5, <1>2, <2>1 DEF Join
  <2>3. QED BY <1>0, <2>1, <2>2, DoneTask, StillMoves, TypesTogether
<1>6. CASE Recount(t)
  <2>1. /\ UNCHANGED <<sold, sent, acked, claim, row, members, broken, untidy>>
        /\ task' = [task EXCEPT ![t].pc = "refund", ![t].count = Seats(members)]
    BY <1>6 DEF Recount
  <2>2. task' \in [Tasks -> RequestType] /\ Follow
    <3>1. Seats(members) \in Nat
      BY <1>0, SeatsType
    <3>2. QED BY <1>1, <2>1, <3>1 DEF SeatPcs, JoinPcs
  <2>3. QED BY <1>0, <2>1, <2>2, StillMoves, TypesTogether
<1>7. CASE Refund(t)
  <2>1. ShopMoves
    BY <1>7, PatchedFacts, RequestFacts DEF Refund
  <2>2. QED BY <1>0, <1>7, <2>1, DoneTask, TypesTogether DEF Refund
<1>8. ASSUME NEW u \in Users, Accept(t, u) PROVE TypeInv'
  <2>1. /\ UNCHANGED <<sold, sent, acked, claim, row, members, broken, untidy>> /\ ~Hook(t)
        /\ Enter(t, IF row.ls # None /\ row.tier = "team" THEN "count" ELSE "join", row.ls, u)
    BY <1>8 DEF Accept, At, Hook, HookPcs
  <2>2. task' \in [Tasks -> RequestType] /\ Follow
    BY <1>0, <2>1, EnterTask DEF SeatPcs, JoinPcs
  <2>3. QED BY <1>0, <2>1, <2>2, StillMoves, TypesTogether
<1>9. ASSUME NEW u \in Users, RemoveMember(t, u) PROVE TypeInv'
  <2>1. /\ UNCHANGED <<sold, sent, acked, claim, row, broken, untidy>> /\ ~Hook(t)
        /\ Enter(t, "recount", row.ls, u) \/ Enter(t, "idle", None, None)
        /\ members' = members \ {u}
    BY <1>9 DEF RemoveMember, At, Hook, HookPcs
  <2>2. task' \in [Tasks -> RequestType] /\ Follow
    BY <1>0, <2>1, EnterTask DEF SeatPcs, JoinPcs
  <2>3. QED BY <1>0, <2>1, <2>2, StillMoves, TypesTogether
<1>10. QED BY <1>3, <1>4, <1>5, <1>6, <1>7, <1>8, <1>9 DEF Membership

\* An update that raises leaves a row, of the subscription it had.
LEMMA BreakRow ==
  ASSUME TypeInv, NEW t \in Tasks, Break(t)
  PROVE  row' \in RowType /\ row'.ls = row.ls
<1> DEFINE ev == sent[task[t].event]
           seen == task[t].seen
           half == [seen EXCEPT !.status = StatusOf(ev.status)]
           both == [half EXCEPT !.cancel = ev.cancelled]
<1>1. row \in RowType /\ seen \in RowType
  BY RequestFacts
<1>2. row' \in {row} \cup (IF Hook(t) THEN HalfHandled(t) ELSE {})
  BY DEF Break
<1>3. CASE row' = row
  BY <1>1, <1>3
<1>4. CASE Hook(t) /\ row' \in HalfHandled(t)
  <2>1. ev.cancelled \in BOOLEAN /\ StatusOf(ev.status) \in Statuses
    BY <1>4, RequestFacts, StatusTyped DEF EventType
  <2>2. half \in RowType /\ half.ls = seen.ls
    BY <1>1, <2>1 DEF RowType
  <2>3. both \in RowType /\ both.ls = seen.ls
    BY <2>1, <2>2 DEF RowType
  <2>4. row' = Written(seen, half) \/ row' = Written(seen, both)
    BY <1>4 DEF HalfHandled
  <2> HIDE DEF half, both
  <2>5. QED BY <1>1, <2>2, <2>3, <2>4, WrittenTyped
<1>5. QED BY <1>2, <1>3, <1>4

LEMMA BreakTypes ==
  ASSUME TypeInv, NEW t \in Tasks, Break(t)
  PROVE  TypeInv'
<1>1. Done(t) /\ UNCHANGED <<sold, sent, acked, claim, members, untidy>>
  BY DEF Break
<1>2. broken' \subseteq DOMAIN sent
  BY RequestFacts DEF Break, TypeInv, TypeOK
<1>3. acked \subseteq DOMAIN sent /\ untidy \subseteq Subs /\ members \subseteq Users
  BY DEF TypeInv, TypeOK
<1>4. QED BY <1>1, <1>2, <1>3, BreakRow, DoneTask, StillMoves, TypesTogether

LEMMA CheckoutFacts ==
  ASSUME TypeInv, Checkout
  PROVE  /\ ShopMoves /\ UNCHANGED <<sent, acked, claim, row, members, task, broken, untidy>>
         /\ \A s \in Subs : sold'[s].quantity = sold[s].quantity
<1>1. PICK s \in Subs : sold' = [sold EXCEPT ![s].status = "offered"]
  BY DEF Checkout
<1>2. UNCHANGED <<sent, acked, claim, row, members, task, broken, untidy>>
  BY DEF Checkout
<1>3. sold \in [Subs -> Known] /\ [sold[s] EXCEPT !.status = "offered"] \in Known
  BY KnownFacts DEF Known, TypeInv, TypeOK
<1>4. sold' \in [Subs -> Known] /\ \A r \in Subs : sold'[r].quantity = sold[r].quantity
  BY <1>1, <1>3 DEF Known
<1>5. ShopMoves
  BY <1>2, <1>4 DEF ShopMoves, TypeInv, TypeOK
<1>6. QED BY <1>2, <1>4, <1>5

LEMMA TypeStep ==
  ASSUME TypeInv, [Next]_vars
  PROVE  TypeInv'
<1>0. /\ acked \subseteq DOMAIN sent /\ broken \subseteq DOMAIN sent /\ untidy \subseteq Subs
      /\ members \subseteq Users /\ row \in RowType /\ task \in [Tasks -> RequestType]
  BY DEF TypeInv, TypeOK
<1>1. ASSUME UNCHANGED task PROVE Follow
  BY <1>1 DEF Follow, Hook, TypeInv, JoinsSomebody
<1>2. CASE Shop
  BY <1>0, <1>1, <1>2, ShopFacts, TypesTogether
<1>3. CASE Checkout
  BY <1>0, <1>1, <1>3, CheckoutFacts, TypesTogether
<1>4. ASSUME NEW e \in Events, Redeliver(e) PROVE TypeInv'
  <2>1. UNCHANGED <<sold, sent, claim, row, members, task, broken, untidy>>
    BY <1>4 DEF Redeliver
  <2>2. acked' \subseteq DOMAIN sent
    BY <1>0, <1>4 DEF Redeliver
  <2>3. QED BY <1>0, <1>1, <2>1, <2>2, StillMoves, TypesTogether
<1>5. CASE UNCHANGED vars
  <2>1. UNCHANGED <<sold, sent, acked, claim, row, members, task, broken, untidy>>
    BY <1>5 DEF vars
  <2>2. QED BY <1>0, <1>1, <2>1, StillMoves, TypesTogether
<1>6. QED
  BY <1>2, <1>3, <1>4, <1>5, WebhookTypes, AccountTypes, MembershipTypes, BreakTypes DEF Next

\* TypeOK is an invariant.
THEOREM TypeCorrect == Spec => []TypeOK
<1>1. Init => TypeInv
  BY TypeInit
<1>2. TypeInv /\ [Next]_vars => TypeInv'
  BY TypeStep
<1>3. TypeInv => TypeOK
  BY DEF TypeInv
<1>4. QED BY <1>1, <1>2, <1>3, PTL DEF Spec
------------------------------------------------------------------------------
(* One handler for an event, and no event lost but by a failure *)

\* What most steps leave of the handlers: each goes on with its event or broke
\* off, nobody else has taken one up, and only rows are answered for.
HandlersKept ==
  /\ UNCHANGED claim
  /\ broken \subseteq broken'
  /\ \A e \in acked' : e \in acked \/ claim[e] # "none"
  /\ \A x \in Tasks :
       /\ Hook(x)' => Hook(x) /\ task'[x].event = task[x].event
       /\ Hook(x) => Hook(x)' \/ task[x].event \in broken'

\* A request that handles no event stays so.
LEMMA OthersKept ==
  ASSUME NEW t \in Tasks, ~Hook(t), ~Hook(t)', UNCHANGED <<acked, claim, broken>>,
         \A x \in Tasks \ {t} : task'[x].pc = task[x].pc /\ task'[x].event = task[x].event
  PROVE  HandlersKept
BY DEF HandlersKept, Hook

\* Only Claim takes an event up, and only Stamp and Break lay it down.
LEMMA HandlerSteps ==
  ASSUME TypeInv, [Next]_vars
  PROVE  \/ HandlersKept
         \/ \E t \in Tasks, e \in Events : Claim(t, e)
         \/ \E t \in Tasks : Stamp(t)
<1>0. task \in [Tasks -> RequestType]
  BY DEF TypeInv, TypeOK
<1>1. ASSUME UNCHANGED <<acked, claim, task, broken>> PROVE HandlersKept
  BY <1>1 DEF HandlersKept, Hook
<1>2. CASE Shop \/ Checkout
  BY <1>1, <1>2, ShopFacts, CheckoutFacts
<1>3. ASSUME NEW e \in Events, Redeliver(e) PROVE HandlersKept
  BY <1>3 DEF Redeliver, HandlersKept, Hook
<1>4. ASSUME NEW t \in Tasks, Webhook(t)
      PROVE  HandlersKept \/ Stamp(t) \/ \E e \in Events : Claim(t, e)
  <2>1. CASE Select(t) \/ Write(t)
    <3>1. Hook(t) /\ UNCHANGED <<acked, claim, broken>>
      BY <2>1 DEF Select, Write, At, Hook, HookPcs
    <3>2. /\ task'[t].pc \in HookPcs /\ task'[t].event = task[t].event
          /\ \A x \in Tasks \ {t} : task'[x] = task[x]
      <4>1. \/ task' = [task EXCEPT ![t].pc = "stamp"]
            \/ task' = [task EXCEPT ![t].pc = "write", ![t].seen = row]
            \/ task' = [task EXCEPT ![t].pc = "stamp", ![t].seen = NoRow]
        BY <2>1 DEF Select, Write, Move
      <4>2. QED BY <1>0, <4>1 DEF HookPcs, RequestType
    <3>3. QED BY <3>1, <3>2 DEF HandlersKept, Hook
  <2>2. QED BY <1>4, <2>1 DEF Webhook
<1>5. ASSUME NEW t \in Tasks, Account(t) PROVE HandlersKept
  <2>1. ~Hook(t) /\ UNCHANGED <<acked, claim, broken>>
    BY <1>5 DEF Account, Verify, StartTrial, Cancel, CancelDelete, CancelFlag, At, Hook, HookPcs
  <2>2. \/ Done(t) \/ Move(t, "flag")
        \/ task' = [task EXCEPT ![t] = [Idle EXCEPT !.pc = "trial"]]
        \/ task' = [task EXCEPT ![t] = Request("delete", 0, row, None, 0, TRUE)]
    BY <1>5 DEF Account, Verify, StartTrial, Cancel, CancelDelete, CancelFlag
  <2>3. task'[t].pc \in {"idle", "flag", "trial", "delete"}
    BY <1>0, <2>2 DEF Done, Move, Idle, Request, RequestType
  <2>4. \A x \in Tasks \ {t} : task'[x] = task[x]
    BY <1>0, <2>2 DEF Done, Move
  <2>5. ~Hook(t)'
    BY <2>3 DEF Hook, HookPcs
  <2>6. QED BY <2>1, <2>4, <2>5, OthersKept
<1>6. ASSUME NEW t \in Tasks, Membership(t) PROVE HandlersKept
  <2>1. ~Hook(t) /\ UNCHANGED <<acked, claim, broken>>
    BY <1>6 DEF Membership, Count, Buy, Join, Recount, Refund, Accept, RemoveMember, At, Hook, HookPcs
  <2>2. CASE Count(t) \/ Buy(t) \/ Join(t) \/ Recount(t) \/ Refund(t)
    <3>1. \/ Done(t) \/ Move(t, "join")
          \/ task' = [task EXCEPT ![t].pc = "buy", ![t].count = Seats(members) + 1]
          \/ task' = [task EXCEPT ![t].pc = "refund", ![t].count = Seats(members)]
      BY <2>2 DEF Count, Buy, Join, Recount, Refund
    <3>2. task'[t].pc \in {"idle", "join", "buy", "refund"} /\ \A x \in Tasks \ {t} : task'[x] = task[x]
      BY <1>0, <3>1 DEF Done, Move, Idle, Request, RequestType
    <3>3. ~Hook(t)'
      BY <3>2 DEF Hook, HookPcs
    <3>4. QED BY <2>1, <3>2, <3>3, OthersKept
  <2>3. ASSUME NEW pc \in {"count", "join", "recount", "idle"}, NEW ls \in Subs \cup {Trial, None},
               NEW u \in Users \cup {None}, Enter(t, pc, ls, u), pc \in JoinPcs => u \in Users
        PROVE  HandlersKept
    <3>1. /\ task'[t].pc = pc
          /\ \A x \in Tasks \ {t} : task'[x].pc = task[x].pc /\ task'[x].event = task[x].event
      BY <2>1, <2>3, EnterTask DEF SeatPcs
    <3>2. ~Hook(t)'
      BY <3>1 DEF Hook, HookPcs
    <3>3. QED BY <2>1, <3>1, <3>2, OthersKept
  <2>4. ASSUME NEW u \in Users, Accept(t, u) \/ RemoveMember(t, u) PROVE HandlersKept
    BY <2>3, <2>4, RequestFacts DEF Accept, RemoveMember, JoinPcs
  <2>5. QED BY <1>6, <2>2, <2>4 DEF Membership
<1>7. ASSUME NEW t \in Tasks, Break(t) PROVE HandlersKept
  <2>1. Done(t) /\ UNCHANGED <<acked, claim>> /\ broken' = IF Hook(t) THEN broken \cup {task[t].event} ELSE broken
    BY <1>7 DEF Break
  <2>2. task'[t] = Idle /\ \A x \in Tasks \ {t} : task'[x] = task[x]
    BY <2>1, DoneTask
  <2>3. QED BY <2>1, <2>2, IdleTyped DEF HandlersKept, Hook
<1>8. CASE UNCHANGED vars
  BY <1>1, <1>8 DEF vars
<1>9. QED BY <1>2, <1>3, <1>4, <1>5, <1>6, <1>7, <1>8 DEF Next

HandlerInv == TypeInv /\ OneHandler /\ Accounted

LEMMA HandlerStep ==
  ASSUME HandlerInv, [Next]_vars
  PROVE  HandlerInv'
<1>0. /\ TypeInv /\ OneHandler /\ Accounted /\ TypeInv'
      /\ task \in [Tasks -> RequestType] /\ acked \subseteq DOMAIN sent
      /\ claim \in [Events -> {"none", "claimed", "processed"}]
  BY TypeStep DEF HandlerInv, TypeInv, TypeOK
<1>1. \A t \in Tasks : Hook(t) => task[t].event \in Events
  BY <1>0, RequestFacts
<1>2. \A e \in acked : e \in Events
  BY <1>0, BillingAssumption DEF TypeInv, TypeOK, Events
<1>3. CASE HandlersKept
  <2>1. OneHandler'
    BY <1>0, <1>3 DEF OneHandler, HandlersKept, Hook
  <2>2. Accounted'
    BY <1>0, <1>3 DEF Accounted, HandlersKept
  <2>3. QED BY <1>0, <2>1, <2>2 DEF HandlerInv
<1>4. ASSUME NEW t \in Tasks, NEW e \in Events, Claim(t, e) PROVE HandlerInv'
  <2>1. /\ claim[e] = "none" /\ claim' = [claim EXCEPT ![e] = "claimed"]
        /\ UNCHANGED <<acked, broken>> /\ ~Hook(t)
        /\ task' = [task EXCEPT ![t] = Request("select", e, NoRow, None, 0, TRUE)]
    BY <1>4 DEF Claim, At, Hook, HookPcs
  <2>2. /\ Hook(t)' /\ task'[t].event = e
        /\ \A x \in Tasks \ {t} : task'[x] = task[x]
    BY <1>0, <2>1 DEF Request, Hook, HookPcs
  <2>3. OneHandler'
    <3>1. claim'[e] = "claimed" /\ \A i \in Events \ {e} : claim'[i] = claim[i]
      BY <1>0, <2>1
    <3>2. \A x \in Tasks \ {t} : Hook(x)' => Hook(x) /\ task'[x].event = task[x].event
      BY <2>2 DEF Hook
    <3>3. \A x \in Tasks \ {t} : Hook(x) => task[x].event \in Events \ {e} /\ claim[task[x].event] = "claimed"
      BY <1>0, <1>1, <2>1 DEF OneHandler
    <3>4. QED BY <1>0, <2>2, <3>1, <3>2, <3>3 DEF OneHandler, Hook
  <2>4. Accounted'
    BY <1>0, <1>2, <2>1, <2>2, ZenonT(40) DEF Accounted, Hook
  <2>5. QED BY <1>0, <2>3, <2>4 DEF HandlerInv
<1>5. ASSUME NEW t \in Tasks, Stamp(t) PROVE HandlerInv'
  <2>1. /\ Hook(t) /\ claim' = [claim EXCEPT ![task[t].event] = "processed"]
        /\ acked' = acked \cup {task[t].event} /\ UNCHANGED broken /\ Done(t)
    BY <1>5 DEF Stamp, At, Hook, HookPcs
  <2>2. /\ ~Hook(t)' /\ \A x \in Tasks \ {t} : task'[x] = task[x]
    BY <1>0, <2>1, DoneTask, IdleTyped DEF Hook
  <2>3. OneHandler'
    BY <1>0, <1>1, <2>1, <2>2 DEF OneHandler, Hook
  <2>4. Accounted'
    BY <1>0, <1>1, <1>2, <2>1, <2>2 DEF Accounted, Hook
  <2>5. QED BY <1>0, <2>3, <2>4 DEF HandlerInv
<1>6. QED BY <1>0, <1>3, <1>4, <1>5, HandlerSteps

LEMMA HandlerInit ==
  ASSUME Init PROVE HandlerInv
<1>1. \A t \in Tasks : ~Hook(t)
  BY IdleTyped DEF Init, Hook
<1>2. OneHandler /\ Accounted
  BY <1>1 DEF Init, OneHandler, Accounted
<1>3. QED BY <1>2, TypeInit DEF HandlerInv

\* OneHandler is an invariant.
THEOREM EventsHandledOnce == Spec => []OneHandler
<1>1. Init => HandlerInv
  BY HandlerInit
<1>2. HandlerInv /\ [Next]_vars => HandlerInv'
  BY HandlerStep
<1>3. HandlerInv => OneHandler
  BY DEF HandlerInv
<1>4. QED BY <1>1, <1>2, <1>3, PTL DEF Spec

\* AckedIsHandled is an invariant.
THEOREM NothingLostSilently == Spec => []AckedIsHandled
<1>1. Init => HandlerInv
  BY HandlerInit
<1>2. HandlerInv /\ [Next]_vars => HandlerInv'
  BY HandlerStep
<1>3. HandlerInv => AckedIsHandled
  <2> SUFFICES ASSUME HandlerInv, NEW e \in acked
               PROVE  claim[e] = "processed" \/ e \in broken \/ \E t \in Tasks : Hook(t) /\ task[t].event = e
    BY DEF AckedIsHandled
  <2>1. e \in Events /\ claim[e] \in {"none", "claimed", "processed"}
    BY BillingAssumption DEF HandlerInv, TypeInv, TypeOK, Events
  <2>2. QED BY <2>1 DEF HandlerInv, Accounted
<1>4. QED BY <1>1, <1>2, <1>3, PTL DEF Spec
------------------------------------------------------------------------------
(* A purchase that counts as processed has its row *)

\* The row, once it is paid, is not given up.
LEMMA PaidRowKept ==
  ASSUME TypeInv, [Next]_vars, row.ls \in Subs
  PROVE  row'.ls \in Subs
<1>1. CASE UNCHANGED row
  BY <1>1
<1>2. ASSUME NEW t \in Tasks, Write(t) PROVE row'.ls \in Subs
  <2> DEFINE ev == sent[task[t].event]
             new == Handled(ev, task[t].seen)
  <2>1. ev \in EventType /\ ev.sub \in Subs /\ task[t].seen \in RowType /\ row \in RowType
    BY <1>2, RequestFacts DEF Write, At, Hook, HookPcs, EventType
  <2>2. /\ new \in RowType
        /\ new.ls # task[t].seen.ls => new.ls = ev.sub
    BY <2>1, HandledTyped
  <2>3. row' = Written(task[t].seen, new)
    BY <1>2 DEF Write
  <2> HIDE DEF new
  <2>4. row'.ls = IF new.ls # task[t].seen.ls THEN new.ls ELSE row.ls
    BY <2>1, <2>2, <2>3, WrittenTyped
  <2>5. QED BY <2>1, <2>2, <2>4
<1>3. ASSUME NEW t \in Tasks, CancelFlag(t) PROVE row'.ls \in Subs
  <2> DEFINE new == [task[t].seen EXCEPT !.cancel = TRUE]
  <2>1. new \in RowType /\ new.ls = task[t].seen.ls /\ task[t].seen \in RowType /\ row \in RowType
    BY RequestFacts DEF RowType
  <2>2. row' = Written(task[t].seen, new)
    BY <1>3 DEF CancelFlag
  <2> HIDE DEF new
  <2>3. row'.ls = row.ls
    BY <2>1, <2>2, WrittenTyped
  <2>4. QED BY <2>3
<1>4. ASSUME NEW t \in Tasks, Webhook(t) PROVE Write(t) \/ UNCHANGED row
  BY <1>4 DEF Webhook, Claim, Select, Stamp
<1>5. ASSUME NEW t \in Tasks, Account(t) PROVE CancelFlag(t) \/ UNCHANGED row
  BY <1>5, BillingAssumption DEF Account, Verify, StartTrial, Cancel, CancelDelete
<1>6. ASSUME NEW t \in Tasks, Membership(t) PROVE UNCHANGED row
  BY <1>6 DEF Membership, Count, Buy, Join, Recount, Refund, Accept, RemoveMember
<1>7. ASSUME NEW t \in Tasks, Break(t) PROVE row'.ls \in Subs
  BY <1>7, BreakRow
<1>8. CASE Shop \/ Checkout \/ (\E e \in Events : Redeliver(e)) \/ UNCHANGED vars
  BY <1>8, ShopFacts, CheckoutFacts DEF Redeliver, vars
<1>9. QED BY <1>1, <1>2, <1>3, <1>4, <1>5, <1>6, <1>7, <1>8 DEF Next

\* What happens to a handler that stays one.
LEMMA HandlerGoesOn ==
  ASSUME TypeInv, [Next]_vars, NEW x \in Tasks, Hook(x)'
  PROVE  \/ task'[x] = task[x] \/ Select(x) \/ Write(x)
         \/ \E e \in Events : Claim(x, e)
<1>0. task \in [Tasks -> RequestType]
  BY DEF TypeInv, TypeOK
<1>1. CASE UNCHANGED task
  BY <1>1
<1>2. ASSUME NEW t \in Tasks, Webhook(t)
      PROVE  \/ task'[x] = task[x] \/ Select(x) \/ Write(x)
             \/ \E e \in Events : Claim(x, e)
  <2>1. CASE x = t
    <3>1. CASE Stamp(t)
      BY <2>1, <3>1, DoneTask, IdleTyped DEF Stamp, Hook
    <3>2. QED BY <1>2, <2>1, <3>1 DEF Webhook
  <2>2. CASE x # t
    <3>1. \E r : task' = [task EXCEPT ![t] = r]
      BY <1>2 DEF Webhook, Claim, Select, Write, Stamp, Move, Done
    <3>2. QED BY <1>0, <2>2, <3>1
  <2>3. QED BY <2>1, <2>2
<1>3. ASSUME NEW t \in Tasks, Account(t) \/ Break(t) PROVE task'[x] = task[x]
  <2>1. \/ Done(t) \/ Move(t, "flag")
        \/ task' = [task EXCEPT ![t] = [Idle EXCEPT !.pc = "trial"]]
        \/ task' = [task EXCEPT ![t] = Request("delete", 0, row, None, 0, TRUE)]
    BY <1>3 DEF Account, Verify, StartTrial, Cancel, CancelDelete, CancelFlag, Break
  <2>2. task'[t].pc \in {"idle", "flag", "trial", "delete"} /\ \A y \in Tasks \ {t} : task'[y] = task[y]
    BY <1>0, <2>1 DEF Done, Move, Idle, Request, RequestType
  <2>3. QED BY <2>2 DEF Hook, HookPcs
<1>4. ASSUME NEW t \in Tasks, Membership(t) PROVE task'[x] = task[x]
  <2>1. CASE Count(t) \/ Buy(t) \/ Join(t) \/ Recount(t) \/ Refund(t)
    <3>1. \/ Done(t) \/ Move(t, "join")
          \/ task' = [task EXCEPT ![t].pc = "buy", ![t].count = Seats(members) + 1]
          \/ task' = [task EXCEPT ![t].pc = "refund", ![t].count = Seats(members)]
      BY <2>1 DEF Count, Buy, Join, Recount, Refund
    <3>2. task'[t].pc \in {"idle", "join", "buy", "refund"} /\ \A y \in Tasks \ {t} : task'[y] = task[y]
      BY <1>0, <3>1 DEF Done, Move, Idle, Request, RequestType
    <3>3. QED BY <3>2 DEF Hook, HookPcs
  <2>2. ASSUME NEW pc \in {"count", "join", "recount", "idle"}, NEW ls, NEW u, Enter(t, pc, ls, u)
        PROVE  task'[x] = task[x]
    <3>1. /\ x = t => task'[x].pc = pc
          /\ x # t /\ task[x].pc \notin SeatPcs => task'[x] = task[x]
          /\ x # t => task'[x].pc = task[x].pc
      BY <1>0, <2>2 DEF Enter, Request, RequestType
    <3>2. QED BY <3>1 DEF Hook, HookPcs, SeatPcs
  <2>3. ASSUME NEW u \in Users, Accept(t, u) \/ RemoveMember(t, u) PROVE task'[x] = task[x]
    BY <2>2, <2>3 DEF Accept, RemoveMember
  <2>4. QED BY <1>4, <2>1, <2>3 DEF Membership
<1>5. CASE Shop \/ Checkout \/ (\E e \in Events : Redeliver(e)) \/ UNCHANGED vars
  BY <1>5, ShopFacts, CheckoutFacts DEF Redeliver, vars
<1>6. QED BY <1>1, <1>2, <1>3, <1>4, <1>5 DEF Next

PaidInv == TypeInv /\ PurchaseInHand /\ PaidHasRow

LEMMA SentOnly ==
  ASSUME TypeInv, [Next]_vars
  PROVE  ShopMoves
<1>1. ASSUME NEW t \in Tasks, Webhook(t) \/ Break(t) PROVE UNCHANGED <<sold, sent>>
  BY <1>1 DEF Webhook, Claim, Select, Write, Stamp, Break
<1>2. ASSUME NEW t \in Tasks, Account(t) PROVE ShopMoves
  <2>1. CASE CancelDelete(t)
    BY <2>1, CancelAtShopFacts DEF CancelDelete
  <2>2. CASE UNCHANGED <<sold, sent>>
    BY <2>2, StillMoves
  <2>3. QED BY <1>2, <2>1, <2>2 DEF Account, Verify, StartTrial, Cancel, CancelFlag
<1>3. ASSUME NEW t \in Tasks, Membership(t) PROVE ShopMoves
  <2>1. CASE Buy(t) \/ Refund(t)
    BY <2>1, PatchedFacts, RequestFacts DEF Buy, Refund
  <2>2. CASE UNCHANGED <<sold, sent>>
    BY <2>2, StillMoves
  <2>3. QED BY <1>3, <2>1, <2>2 DEF Membership, Count, Join, Recount, Accept, RemoveMember
<1>4. CASE (\E e \in Events : Redeliver(e)) \/ UNCHANGED vars
  BY <1>4, StillMoves DEF Redeliver, vars
<1>5. QED BY <1>1, <1>2, <1>3, <1>4, ShopFacts, CheckoutFacts, StillMoves DEF Next

LEMMA PaidStep ==
  ASSUME PaidInv, [Next]_vars
  PROVE  PaidInv'
<1>0. /\ TypeInv /\ TypeInv' /\ PurchaseInHand /\ PaidHasRow /\ ShopMoves
      /\ task \in [Tasks -> RequestType] /\ DOMAIN sent \subseteq Events
      /\ claim \in [Events -> {"none", "claimed", "processed"}]
  <2>1. TypeInv /\ PurchaseInHand /\ PaidHasRow
    BY DEF PaidInv
  <2>2. sent \in Seq(EventType) /\ Len(sent) <= MaxEvents /\ MaxEvents \in Nat
    BY <2>1, BillingAssumption DEF TypeInv, TypeOK
  <2>3. DOMAIN sent \subseteq Events
    BY <2>2 DEF Events
  <2>4. QED BY <2>1, <2>3, TypeStep, SentOnly DEF TypeInv, TypeOK
<1>1. row.ls \in Subs => row'.ls \in Subs
  BY <1>0, PaidRowKept
<1>2. \A x \in Tasks : Hook(x) => task[x].event \in DOMAIN sent /\ sent'[task[x].event] = sent[task[x].event]
  BY <1>0, RequestFacts DEF ShopMoves
<1>3. PurchaseInHand'
  <2> SUFFICES ASSUME NEW x \in Tasks, Hook(x)', sent'[task'[x].event].name = "created"
               PROVE  /\ At(x, "write")' => task'[x].seen.ls # sent'[task'[x].event].sub
                      /\ At(x, "stamp")' => row'.ls \in Subs
    BY DEF PurchaseInHand
  <2>1. CASE task'[x] = task[x]
    <3>1. Hook(x)
      BY <2>1 DEF Hook
    <3>2. QED BY <1>0, <1>1, <1>2, <2>1, <3>1 DEF PurchaseInHand, At
  <2>2. CASE Select(x)
    <3> DEFINE ev == sent[task[x].event]
    <3>1. Hook(x) /\ UNCHANGED <<sent, row>>
      BY <2>2 DEF Select, At, Hook, HookPcs
    <3>0. task'[x].event = task[x].event
      <4>1. \/ task' = [task EXCEPT ![x].pc = "stamp"]
            \/ task' = [task EXCEPT ![x].pc = "write", ![x].seen = row]
        BY <2>2 DEF Select, Move
      <4>2. QED BY <1>0, <4>1 DEF RequestType
    <3>2. CASE row.ls = ev.sub
      <4>1. ev.sub \in Subs
        BY <1>0, <3>1, RequestFacts DEF EventType
      <4>2. Move(x, "stamp")
        BY <2>2, <3>0, <3>1, <3>2 DEF Select
      <4>3. task'[x].pc = "stamp"
        BY <1>0, <4>2 DEF Move
      <4>4. QED BY <3>1, <3>2, <4>1, <4>3 DEF At
    <3>3. CASE row.ls # ev.sub
      <4>1. task' = [task EXCEPT ![x].pc = "write", ![x].seen = row]
        BY <2>2, <3>0, <3>1, <3>3 DEF Select
      <4>2. task'[x].pc = "write" /\ task'[x].seen = row
        BY <1>0, <4>1 DEF RequestType
      <4>3. QED BY <3>0, <3>1, <3>3, <4>2 DEF At
    <3>4. QED BY <3>2, <3>3
  <2>3. CASE Write(x)
    <3> DEFINE ev == sent[task[x].event]
               new == Handled(ev, task[x].seen)
    <3>1. Hook(x) /\ At(x, "write") /\ UNCHANGED sent
      BY <2>3 DEF Write, At, Hook, HookPcs
    <3>2. task'[x].pc = "stamp" /\ task'[x].event = task[x].event
      BY <1>0, <2>3 DEF Write, RequestType
    <3>3. ev.name = "created" /\ task[x].seen.ls # ev.sub
      BY <1>0, <3>1, <3>2 DEF PurchaseInHand
    <3>4. ev \in EventType /\ ev.sub \in Subs /\ task[x].seen \in RowType /\ row \in RowType
      BY <1>0, <3>1, RequestFacts DEF EventType
    <3>5. new \in RowType /\ new.ls = ev.sub
      BY <3>3, <3>4, HandledTyped
    <3>6. row' = Written(task[x].seen, new)
      BY <2>3 DEF Write
    <3> HIDE DEF new
    <3>7. row'.ls = ev.sub
      BY <3>3, <3>4, <3>5, <3>6, WrittenTyped
    <3>8. QED BY <3>2, <3>4, <3>7 DEF At
  <2>4. ASSUME NEW e \in Events, Claim(x, e) PROVE task'[x].pc = "select"
    BY <1>0, <2>4 DEF Claim, Request
  <2>5. QED BY <1>0, <2>1, <2>2, <2>3, <2>4, HandlerGoesOn DEF At
<1>4. PaidHasRow'
  <2> SUFFICES ASSUME NEW e \in DOMAIN sent', sent'[e].name = "created", claim'[e] = "processed"
               PROVE  row'.ls \in Subs
    BY DEF PaidHasRow
  <2>1. CASE claim[e] = "processed"
    <3>1. e \in DOMAIN sent /\ sent[e].name = "created"
      BY <1>0, <2>1 DEF ShopMoves
    <3>2. QED BY <1>0, <1>1, <2>1, <3>1 DEF PaidHasRow
  <2>2. CASE claim[e] # "processed"
    <3>1. \/ UNCHANGED claim
          \/ \E t \in Tasks, i \in Events : Claim(t, i)
          \/ \E t \in Tasks : Stamp(t)
      BY <1>0, HandlerSteps DEF HandlersKept
    <3>2. e \in Events
      BY <1>0 DEF ShopMoves
    <3>3. PICK t \in Tasks : Stamp(t)
      BY <1>0, <2>2, <3>1, <3>2 DEF Claim
    <3>4. task[t].event = e /\ At(t, "stamp") /\ Hook(t) /\ UNCHANGED <<sent, row>>
      BY <1>0, <2>2, <3>2, <3>3 DEF Stamp, At, Hook, HookPcs
    <3>5. QED BY <1>0, <3>4 DEF PurchaseInHand
  <2>3. QED BY <2>1, <2>2
<1>5. QED BY <1>0, <1>3, <1>4 DEF PaidInv

\* PaidHasRow is an invariant.
THEOREM PurchasesHaveTheirRow == Spec => []PaidHasRow
<1>1. Init => PaidInv
  <2>1. ASSUME Init PROVE PurchaseInHand /\ PaidHasRow
    <3>1. \A t \in Tasks : ~Hook(t)
      BY <2>1, IdleTyped DEF Init, Hook
    <3>2. DOMAIN sent = {}
      BY <2>1 DEF Init
    <3>3. QED BY <3>1, <3>2 DEF PurchaseInHand, PaidHasRow
  <2>2. QED BY <2>1, TypeInit DEF PaidInv
<1>2. PaidInv /\ [Next]_vars => PaidInv'
  BY PaidStep
<1>3. PaidInv => PaidHasRow
  BY DEF PaidInv
<1>4. QED BY <1>1, <1>2, <1>3, PTL DEF Spec
------------------------------------------------------------------------------
(* Members and seats *)

\* A step that is none of a request for a member, though it may end one.
SeatsKept ==
  /\ UNCHANGED members
  /\ \A s \in Subs : sold'[s].quantity = sold[s].quantity
  /\ \A x \in Tasks :
       /\ task'[x].pc \in SeatPcs => task'[x] = task[x]
       /\ task[x].pc \in SeatPcs /\ task'[x] # task[x] => UNCHANGED sold

LEMMA SeatSteps ==
  ASSUME TypeInv, [Next]_vars
  PROVE  SeatsKept \/ \E t \in Tasks : Membership(t)
<1>0. task \in [Tasks -> RequestType] /\ sold \in [Subs -> Known]
  BY DEF TypeInv, TypeOK
<1>1. ASSUME UNCHANGED <<members, task>>, \A s \in Subs : sold'[s].quantity = sold[s].quantity
      PROVE  SeatsKept
  BY <1>1 DEF SeatsKept
<1>2. CASE Shop \/ Checkout
  BY <1>1, <1>2, ShopFacts, CheckoutFacts
<1>3. CASE (\E e \in Events : Redeliver(e)) \/ UNCHANGED vars
  BY <1>1, <1>3 DEF Redeliver, vars
<1>4. ASSUME NEW t \in Tasks, Webhook(t) PROVE SeatsKept
  <2>1. UNCHANGED <<sold, members>>
    BY <1>4 DEF Webhook, Claim, Select, Write, Stamp
  <2>2. \/ Done(t) \/ Move(t, "stamp")
        \/ task' = [task EXCEPT ![t].pc = "write", ![t].seen = row]
        \/ task' = [task EXCEPT ![t].pc = "stamp", ![t].seen = NoRow]
        \/ \E e \in Events : task' = [task EXCEPT ![t] = Request("select", e, NoRow, None, 0, TRUE)]
    BY <1>4 DEF Webhook, Claim, Select, Write, Stamp
  <2>3. task'[t].pc \in {"idle", "select", "write", "stamp"} /\ \A y \in Tasks \ {t} : task'[y] = task[y]
    BY <1>0, <2>2 DEF Done, Move, Idle, Request, RequestType
  <2>4. QED BY <2>1, <2>3 DEF SeatsKept, SeatPcs
<1>5. ASSUME NEW t \in Tasks, Account(t) \/ Break(t) PROVE SeatsKept
  <2>1. \/ Done(t) \/ Move(t, "flag")
        \/ task' = [task EXCEPT ![t] = [Idle EXCEPT !.pc = "trial"]]
        \/ task' = [task EXCEPT ![t] = Request("delete", 0, row, None, 0, TRUE)]
    BY <1>5 DEF Account, Verify, StartTrial, Cancel, CancelDelete, CancelFlag, Break
  <2>2. task'[t].pc \in {"idle", "flag", "trial", "delete"} /\ \A y \in Tasks \ {t} : task'[y] = task[y]
    BY <1>0, <2>1 DEF Done, Move, Idle, Request, RequestType
  <2>3. UNCHANGED members
    BY <1>5 DEF Account, Verify, StartTrial, Cancel, CancelDelete, CancelFlag, Break
  <2>4. CASE CancelDelete(t)
    <3> DEFINE r == task[t].seen.ls
    <3>1. r \in Subs /\ CancelAtShop(r) /\ task[t].pc = "delete"
      BY <2>4 DEF CancelDelete, At
    <3>2. sold' = [sold EXCEPT ![r] = [sold[r] EXCEPT !.status = "cancelled", !.cancelled = TRUE]]
      BY <3>1, CancelAtShopFacts
    <3> HIDE DEF r
    <3>3. \A s \in Subs : sold'[s].quantity = sold[s].quantity
      BY <1>0, <3>1, <3>2 DEF Known
    <3>4. QED BY <2>2, <2>3, <3>1, <3>3 DEF SeatsKept, SeatPcs
  <2>5. CASE UNCHANGED sold
    BY <2>2, <2>3, <2>5 DEF SeatsKept, SeatPcs
  <2>6. QED BY <1>5, <2>4, <2>5 DEF Account, Verify, StartTrial, Cancel, CancelFlag, Break
<1>6. QED BY <1>2, <1>3, <1>4, <1>5 DEF Next

\* Only one request for a member steps; if it is not the only one that runs,
\* nothing is said of the others.
LEMMA OthersAreNotAlone ==
  ASSUME TypeInv, CountsHold, NEW t \in Tasks, task[t].pc \in SeatPcs,
         NEW x \in Tasks \ {t}, task[x].pc \in SeatPcs
  PROVE  ~task[x].alone
BY DEF CountsHold, CountHolds

\* It is enough to look at the request that steps.
LEMMA CountsTogether ==
  ASSUME TypeInv, TypeInv', CountsHold, NEW t \in Tasks, task[t].pc \in SeatPcs,
         \A x \in Tasks \ {t} : task'[x] = task[x],
         CountHolds(t)'
  PROVE  CountsHold'
<1> SUFFICES ASSUME NEW x \in Tasks \ {t} PROVE CountHolds(x)'
  BY DEF CountsHold
<1>1. task'[x] = task[x]
  OBVIOUS
<1>2. CASE task[x].pc \in SeatPcs
  BY <1>1, <1>2, OthersAreNotAlone DEF CountHolds
<1>3. CASE task[x].pc \notin SeatPcs
  BY <1>1, <1>3 DEF CountHolds
<1>4. QED BY <1>2, <1>3

SeatInv == TypeInv /\ CountsHold

LEMMA SeatInvStep ==
  ASSUME SeatInv, [Next]_vars
  PROVE  SeatInv'
<1>0. /\ TypeInv /\ TypeInv' /\ CountsHold
      /\ task \in [Tasks -> RequestType] /\ sold \in [Subs -> Known] /\ members \in SUBSET Users
  BY TypeStep DEF SeatInv, TypeInv, TypeOK
<1>1. CASE SeatsKept
  <2> SUFFICES ASSUME NEW x \in Tasks, task'[x].pc \in SeatPcs PROVE CountHolds(x)'
    BY <1>0 DEF SeatInv, CountsHold, CountHolds
  <2>1. task'[x] = task[x] /\ UNCHANGED members /\ CountHolds(x)
    BY <1>0, <1>1 DEF SeatsKept, CountsHold
  <2>2. \A y \in Tasks : task'[y].pc \in SeatPcs => task[y].pc \in SeatPcs
    BY <1>1 DEF SeatsKept
  <2>3. \A s \in Subs : sold'[s].quantity = sold[s].quantity
    BY <1>1 DEF SeatsKept
  <2>4. QED BY <2>1, <2>2, <2>3 DEF CountHolds, Seats
<1>2. ASSUME NEW t \in Tasks, Membership(t) PROVE CountsHold'
  <2>0. task[t].alone /\ task[t].pc \in SeatPcs => \A y \in Tasks \ {t} : task[y].pc \notin SeatPcs
    BY <1>0 DEF CountsHold, CountHolds
  <2>1. CASE Count(t)
    <3>1. task' = [task EXCEPT ![t].pc = "buy", ![t].count = Seats(members) + 1] /\ UNCHANGED members
          /\ task[t].pc = "count"
      BY <2>1 DEF Count, At
    <3>2. /\ task'[t].pc = "buy" /\ task'[t].count = Seats(members) + 1 /\ task'[t].alone = task[t].alone
          /\ \A y \in Tasks \ {t} : task'[y] = task[y]
      BY <1>0, <3>1 DEF RequestType
    <3>3. CountHolds(t)'
      BY <2>0, <3>1, <3>2 DEF CountHolds, SeatPcs, Seats
    <3>4. QED BY <1>0, <3>1, <3>2, <3>3, CountsTogether DEF SeatPcs
  <2>2. CASE Recount(t)
    <3>1. task' = [task EXCEPT ![t].pc = "refund", ![t].count = Seats(members)] /\ UNCHANGED members
          /\ task[t].pc = "recount"
      BY <2>2 DEF Recount, At
    <3>2. /\ task'[t].pc = "refund" /\ task'[t].count = Seats(members) /\ task'[t].alone = task[t].alone
          /\ \A y \in Tasks \ {t} : task'[y] = task[y]
      BY <1>0, <3>1 DEF RequestType
    <3>3. CountHolds(t)'
      BY <2>0, <3>1, <3>2 DEF CountHolds, SeatPcs, Seats
    <3>4. QED BY <1>0, <3>1, <3>2, <3>3, CountsTogether DEF SeatPcs
  <2>3. CASE Buy(t)
    <3> DEFINE r == task[t]
    <3>1. r.pc = "buy" /\ UNCHANGED members /\ Patched(r.seen.ls, r.count) /\ r.count \in Nat
      BY <2>3, <1>0, RequestFacts DEF Buy, At
    <3>2. /\ r.seen.ls \in Subs
          /\ sold' = [sold EXCEPT ![r.seen.ls] = [sold[r.seen.ls] EXCEPT !.quantity = r.count]]
      BY <1>0, <3>1, PatchedFacts
    <3>3. sold'[r.seen.ls].quantity = r.count
      BY <1>0, <3>2 DEF Known
    <3>4. CASE Move(t, "join")
      <4>1. /\ task'[t].pc = "join" /\ task'[t].count = r.count /\ task'[t].alone = r.alone
            /\ task'[t].seen = r.seen /\ \A y \in Tasks \ {t} : task'[y] = task[y]
        BY <1>0, <3>4 DEF Move, RequestType
      <4>2. r.alone => r.count = Seats(members) + 1
        BY <1>0, <3>1 DEF CountsHold, CountHolds, SeatPcs
      <4>3. CountHolds(t)'
        BY <2>0, <3>1, <3>2, <3>3, <4>1, <4>2 DEF CountHolds, SeatPcs, Seats
      <4>4. QED BY <1>0, <3>1, <4>1, <4>3, CountsTogether DEF SeatPcs
    <3>5. CASE Done(t)
      <4>1. task'[t] = Idle /\ \A y \in Tasks \ {t} : task'[y] = task[y]
        BY <1>0, <3>5, DoneTask
      <4>2. CountHolds(t)'
        BY <4>1, IdleTyped DEF CountHolds, SeatPcs
      <4>3. QED BY <1>0, <3>1, <4>1, <4>2, CountsTogether DEF SeatPcs
    <3>6. QED BY <2>3, <3>4, <3>5 DEF Buy
  <2>4. CASE Join(t) \/ Refund(t)
    <3>1. task[t].pc \in SeatPcs /\ Done(t)
      BY <2>4 DEF Join, Refund, At, SeatPcs
    <3>2. task'[t] = Idle /\ \A y \in Tasks \ {t} : task'[y] = task[y]
      BY <1>0, <3>1, DoneTask
    <3>3. CountHolds(t)'
      BY <3>2, IdleTyped DEF CountHolds, SeatPcs
    <3>4. QED BY <1>0, <3>1, <3>2, <3>3, CountsTogether
  <2>5. ASSUME NEW pc \in {"count", "join", "recount", "idle"}, NEW ls \in Subs \cup {Trial, None},
               NEW u \in Users \cup {None}, Enter(t, pc, ls, u), pc \in JoinPcs => u \in Users, At(t, "idle")
        PROVE  CountsHold'
    <3>1. /\ task'[t].pc = pc /\ task'[t].count = 0
          /\ pc # "idle" /\ task'[t].alone => \A y \in Tasks : task[y].pc \notin SeatPcs
          /\ \A y \in Tasks \ {t} :
               /\ task'[y].pc = task[y].pc
               /\ task[y].pc \in SeatPcs => ~task'[y].alone
      <4>1. ~Hook(t)
        BY <2>5 DEF At, Hook, HookPcs
      <4>2. QED BY <1>0, <2>5, <4>1, EnterTask DEF SeatPcs
    <3>2. CountHolds(t)'
      BY <3>1 DEF CountHolds, SeatPcs
    <3>3. ASSUME NEW y \in Tasks \ {t} PROVE CountHolds(y)'
      BY <3>1 DEF CountHolds
    <3>4. QED BY <3>2, <3>3 DEF CountsHold
  <2>6. ASSUME NEW u \in Users, Accept(t, u) \/ RemoveMember(t, u) PROVE CountsHold'
    BY <1>0, <2>5, <2>6, RequestFacts DEF Accept, RemoveMember, JoinPcs
  <2>7. QED BY <1>2, <2>1, <2>2, <2>3, <2>4, <2>6 DEF Membership
<1>3. QED BY <1>0, <1>1, <1>2, SeatSteps DEF SeatInv

\* What a step means for a member who comes or goes.
SeatStep ==
  \A t \in Tasks :
    LET s == task[t].seen.ls IN
    task[t].alone =>
      /\ At(t, "join") /\ ~At(t, "join")' /\ task[t].count # 0 /\ members' # members
           => sold[s].quantity = Seats(members')
      /\ At(t, "refund") /\ ~At(t, "refund")' /\ sold' # sold
           => sold'[s].quantity = Seats(members)

LEMMA SeatStepHolds ==
  ASSUME SeatInv, [Next]_vars
  PROVE  SeatStep
<1>0. /\ TypeInv /\ CountsHold
      /\ task \in [Tasks -> RequestType] /\ sold \in [Subs -> Known] /\ members \in SUBSET Users
  BY DEF SeatInv, TypeInv, TypeOK
<1> SUFFICES ASSUME NEW t \in Tasks, task[t].alone, At(t, "join") \/ At(t, "refund"),
                    ~(At(t, "join") /\ At(t, "join")'), ~(At(t, "refund") /\ At(t, "refund")')
             PROVE  /\ At(t, "join") /\ task[t].count # 0 /\ members' # members
                         => sold[task[t].seen.ls].quantity = Seats(members')
                    /\ At(t, "refund") /\ sold' # sold
                         => sold'[task[t].seen.ls].quantity = Seats(members)
  BY DEF SeatStep, At
<1>1. task[t].pc \in SeatPcs /\ task'[t] # task[t] /\ \A y \in Tasks \ {t} : task[y].pc \notin SeatPcs
  BY <1>0 DEF CountsHold, CountHolds, At, SeatPcs
<1>2. CASE SeatsKept
  BY <1>1, <1>2 DEF SeatsKept
<1>3. ASSUME NEW x \in Tasks, Membership(x), x # t PROVE FALSE
  <2>1. task[x].pc \notin SeatPcs
    BY <1>1, <1>3
  <2>2. PICK u \in Users : Accept(x, u) \/ RemoveMember(x, u)
    BY <1>3, <2>1 DEF Membership, Count, Buy, Join, Recount, Refund, At, SeatPcs
  <2>3. PICK pc, ls, v : Enter(x, pc, ls, v)
    BY <2>2 DEF Accept, RemoveMember
  <2>4. task'[t].pc = task[t].pc
    BY <1>0, <1>3, <2>3 DEF Enter, RequestType
  <2>5. QED BY <2>4 DEF At
<1>4. CASE Membership(t)
  <2>1. Join(t) \/ Refund(t)
    BY <1>4 DEF Membership, Count, Buy, Recount, Accept, RemoveMember, At
  <2>2. CASE Join(t)
    <3>1. /\ members' = members \cup {task[t].user} /\ task[t].user \notin members /\ At(t, "join")
      BY <2>2 DEF Join
    <3>2. task[t].user \in Users
      BY <1>0, <3>1 DEF TypeInv, JoinsSomebody, JoinPcs, At
    <3>3. Seats(members') = Seats(members) + 1
      BY <1>0, <3>1, <3>2, SeatsType
    <3>4. task[t].count # 0 => sold[task[t].seen.ls].quantity = Seats(members) + 1
      BY <1>0, <3>1 DEF CountsHold, CountHolds, At, SeatPcs
    <3>5. QED BY <3>1, <3>3, <3>4 DEF At
  <2>3. CASE Refund(t)
    <3> DEFINE r == task[t]
    <3>1. r.pc = "refund" /\ Patched(r.seen.ls, r.count) /\ r.count \in Nat
      BY <2>3, <1>0, RequestFacts DEF Refund, At
    <3>2. /\ r.seen.ls \in Subs
          /\ sold' = [sold EXCEPT ![r.seen.ls] = [sold[r.seen.ls] EXCEPT !.quantity = r.count]]
      BY <1>0, <3>1, PatchedFacts
    <3>3. sold'[r.seen.ls].quantity = r.count
      BY <1>0, <3>2 DEF Known
    <3>4. r.count = Seats(members)
      BY <1>0, <3>1 DEF CountsHold, CountHolds, SeatPcs
    <3>5. QED BY <3>1, <3>3, <3>4 DEF At
  <2>4. QED BY <2>1, <2>2, <2>3
<1>5. QED BY <1>0, <1>2, <1>3, <1>4, SeatSteps

\* SeatsMatch holds of every step.
THEOREM SeatsFollowMembers == Spec => SeatsMatch
<1>1. Init => SeatInv
  <2>1. ASSUME Init PROVE CountsHold
    <3>1. \A t \in Tasks : task[t].pc \notin SeatPcs
      BY <2>1, IdleTyped DEF Init, SeatPcs
    <3>2. QED BY <3>1 DEF CountsHold, CountHolds
  <2>2. QED BY <2>1, TypeInit DEF SeatInv
<1>2. SeatInv /\ [Next]_vars => SeatInv' /\ [SeatStep]_vars
  BY SeatInvStep, SeatStepHolds
<1>3. QED BY <1>1, <1>2, PTL DEF Spec, SeatsMatch, SeatStep
------------------------------------------------------------------------------
(* The row is of one piece and follows LemonSqueezy                             *)
(*                                                                              *)
(* The handlers of a tidy subscription take turns, so each writes what it made  *)
(* of the row as it stands, and they do so in the order of the events. The row  *)
(* then says what the last event said that was applied to it; the first one was *)
(* the purchase, and the last one of all says what LemonSqueezy knows.          *)

\* The events of a subscription so far.
EventsOf(s) == {e \in DOMAIN sent : sent[e].sub = s}

\* What LemonSqueezy has told of its subscriptions: the first event of each is
\* its purchase, the last one says what it knows now, and the end of a
\* subscription is no cancellation.
ShopTells ==
  /\ \A s \in Subs : sold[s].status \in {"none", "offered"} <=> EventsOf(s) = {}
  /\ \A e \in DOMAIN sent :
       LET ev == sent[e] IN
       /\ ev.name = "created" <=> Earlier(e) = {}
       /\ ev.name = "cancelled" => ev.status = "cancelled" /\ ev.cancelled
       /\ ev.name = "expired" =>
            /\ ev.status = "expired"
            /\ \A i \in Earlier(e) :
                 (\A j \in Earlier(e) : j <= i) => sent[i].cancelled = ev.cancelled
       /\ (\A i \in EventsOf(ev.sub) : i <= e) =>
            sold[ev.sub].status = ev.status /\ sold[ev.sub].cancelled = ev.cancelled

\* The events of a tidy subscription are claimed one after the other.
InOrder ==
  \A e \in DOMAIN sent : claim[e] # "none" /\ sent[e].sub \notin untidy =>
    \A i \in Earlier(e) : claim[i] = "processed"

\* The subscription a writer was started for.
Base(t) == IF Hook(t) THEN sent[task[t].event].sub ELSE task[t].seen.ls

\* Two writers at once make the subscriptions of both untidy.
WritersMeet ==
  \A t, u \in Writers : t # u => Base(t) \notin Subs \ untidy

\* What a writer has read: it is what the row still says, or the row belongs to
\* a subscription that is untidy, and so does what the writer is about.
SeenHolds(t) ==
  LET seen == task[t].seen IN
  /\ At(t, "write") => (seen.ls # sent[task[t].event].sub
                          <=> sent[task[t].event].name = "created")
  /\ task[t].pc \in {"delete", "flag"} => seen.ls # None
  /\ At(t, "flag") =>
       /\ seen.ls \in Subs
       /\ seen.ls \notin untidy =>
            \E d \in EventsOf(seen.ls) : sent[d].name = "cancelled" /\ claim[d] = "none"
  /\ task[t].pc \in {"write", "delete", "flag"} =>
       \/ seen = row
       \/ Collides(t)
       \/ Base(t) \notin Subs \ untidy /\ row.ls \notin Subs \ untidy

\* The row of a subscription was written for its purchase.
RowBought ==
  row.ls \in Subs =>
    \E e \in EventsOf(row.ls) :
      /\ sent[e].name = "created" /\ claim[e] # "none"
      /\ \A t \in Tasks : task[t].pc \in {"select", "write"} => task[t].event # e

\* The handler of event e is through with the row, or has broken off.
Applied(e) ==
  claim[e] = "processed" \/ \E t \in Tasks : At(t, "stamp") /\ task[t].event = e

Lost(e) == claim[e] = "claimed" /\ ~ \E t \in Tasks : Hook(t) /\ task[t].event = e

\* The row says what event e said; but the cancellation endpoint may have set
\* the flag ahead of the event that tells of it.
Reflects(e) ==
  /\ row.status = StatusOf(sent[e].status)
  /\ \/ row.cancel = sent[e].cancelled
     \/ \E d \in EventsOf(row.ls) :
          d > e /\ sent[d].name = "cancelled" /\ claim[d] # "processed"

\* The row follows the events that were applied to it, until one is lost.
RowFollows ==
  row.ls \in Subs \ untidy /\ (\A e \in EventsOf(row.ls) : ~Lost(e)) =>
    \E e \in EventsOf(row.ls) :
      /\ Applied(e) /\ Reflects(e)
      /\ \A i \in EventsOf(row.ls) : Applied(i) => i <= e

\* The inductive invariant of this section, beside HandlerInv.
TidyInv ==
  /\ ShopTells
  /\ InOrder
  /\ WritersMeet
  /\ \A t \in Tasks : SeenHolds(t)
  /\ RowBought
  /\ RowIsWhole
  /\ RowFollows

\* What is known of every event that was sent.
LEMMA SentFacts ==
  ASSUME TypeInv
  PROVE  /\ claim \in [Events -> {"none", "claimed", "processed"}]
         /\ \A e \in DOMAIN sent :
              /\ e \in Events /\ e \in Nat
              /\ sent[e] \in EventType /\ sent[e].sub \in Subs
              /\ sent[e].name \in {"created", "updated", "cancelled", "expired"}
              /\ sent[e].cancelled \in BOOLEAN /\ sent[e].quantity \in Nat
              /\ sent[e].tier \in Tiers
              /\ Earlier(e) = {i \in DOMAIN sent : i < e /\ sent[i].sub = sent[e].sub}
         /\ \A s : EventsOf(s) \subseteq DOMAIN sent
         /\ Trial \notin Subs /\ None \notin Subs /\ None # Trial
         /\ task \in [Tasks -> RequestType]
         /\ untidy \subseteq Subs
<1>1. /\ sent \in Seq(EventType) /\ Len(sent) <= MaxEvents
      /\ MaxEvents \in Nat /\ claim \in [Events -> {"none", "claimed", "processed"}]
      /\ task \in [Tasks -> RequestType] /\ untidy \subseteq Subs
      /\ Trial \notin Subs /\ None \notin Subs /\ None # Trial
  BY BillingAssumption DEF TypeInv, TypeOK
<1>2. /\ Len(sent) \in Nat /\ DOMAIN sent = 1..Len(sent)
      /\ \A e \in DOMAIN sent : sent[e] \in EventType
  BY <1>1
<1>3. \A e \in DOMAIN sent :
        /\ e \in Nat /\ e \in 1..MaxEvents
        /\ \A i : i \in 1..(e - 1) <=> i \in DOMAIN sent /\ i < e
  BY <1>1, <1>2
<1>4. \A e \in DOMAIN sent :
        Earlier(e) = {i \in DOMAIN sent : i < e /\ sent[i].sub = sent[e].sub}
  BY <1>3 DEF Earlier
<1>5. QED BY <1>1, <1>2, <1>3, <1>4 DEF Events, EventType, EventsOf
------------------------------------------------------------------------------
(* What LemonSqueezy tells *)

\* A change at LemonSqueezy and the event that tells of it.
Told(s, x, name) ==
  /\ Change(s, x, name)
  /\ x \in Known /\ x.status \notin {"none", "offered"}
  /\ name \in {"created", "updated", "cancelled", "expired"}
  /\ sold[s].status # "none"
  /\ name = "created" <=> sold[s].status = "offered"
  /\ name = "cancelled" => x.status = "cancelled" /\ x.cancelled
  /\ name = "expired" => x.status = "expired" /\ x.cancelled = sold[s].cancelled

\* Every step that changes what was sent is one.
LEMMA PatchedTold ==
  ASSUME TypeInv, NEW s, NEW n \in Nat, Patched(s, n)
  PROVE  s \in Subs /\ \E x, name : Told(s, x, name)
<1> DEFINE x == [sold[s] EXCEPT !.quantity = n]
<1>1. s \in Subs /\ Runs(s) /\ Change(s, x, "updated")
  BY DEF Patched
<1>2. x \in Known /\ x.status = sold[s].status
  BY <1>1, KnownFacts DEF Known
<1>3. Told(s, x, "updated")
  BY <1>1, <1>2, KnownFacts DEF Told
<1>4. QED BY <1>1, <1>3

LEMMA CancelTold ==
  ASSUME TypeInv, NEW s \in Subs, Runs(s), CancelAtShop(s)
  PROVE  \E x : Told(s, x, "cancelled")
<1> DEFINE x == [sold[s] EXCEPT !.status = "cancelled", !.cancelled = TRUE]
<1>1. Change(s, x, "cancelled")
  BY DEF CancelAtShop
<1>2. x \in Known /\ x.status = "cancelled" /\ x.cancelled = TRUE
  BY KnownFacts DEF Known
<1> HIDE DEF x
<1>3. Told(s, x, "cancelled")
  BY <1>1, <1>2, KnownFacts DEF Told
<1>4. QED BY <1>3

LEMMA ShopTold ==
  ASSUME TypeInv, Shop
  PROVE  \E s \in Subs : \E x, name : Told(s, x, name)
<1>0. PICK s \in Subs :
        \/ Purchase(s) \/ ChangePlan(s) \/ Unsubscribe(s) \/ Expire(s)
        \/ \E status \in Reported : Report(s, status)
  BY DEF Shop
<1>1. CASE Purchase(s)
  <2>1. PICK tier \in Tiers : Change(s, [sold[s] EXCEPT !.status = "active", !.tier = tier], "created")
    BY <1>1 DEF Purchase
  <2> DEFINE x == [sold[s] EXCEPT !.status = "active", !.tier = tier]
  <2>2. x \in Known /\ x.status = "active"
    BY KnownFacts DEF Known
  <2> HIDE DEF x
  <2>3. Told(s, x, "created")
    BY <1>1, <2>1, <2>2 DEF Told, Purchase, x
  <2>4. QED BY <2>3
<1>2. CASE ChangePlan(s)
  <2>1. PICK tier \in Tiers : Change(s, [sold[s] EXCEPT !.tier = tier], "updated")
    BY <1>2 DEF ChangePlan
  <2> DEFINE x == [sold[s] EXCEPT !.tier = tier]
  <2>2. x \in Known /\ x.status = sold[s].status /\ Runs(s)
    BY <1>2, KnownFacts DEF Known, ChangePlan
  <2> HIDE DEF x
  <2>3. Told(s, x, "updated")
    BY <2>1, <2>2, KnownFacts DEF Told, x
  <2>4. QED BY <2>3
<1>3. CASE Unsubscribe(s)
  BY <1>3, CancelTold DEF Unsubscribe
<1>4. CASE Expire(s)
  <2> DEFINE x == [sold[s] EXCEPT !.status = "expired"]
  <2>1. Change(s, x, "expired") /\ (Runs(s) \/ sold[s].status = "cancelled")
    BY <1>4 DEF Expire
  <2>2. x \in Known /\ x.status = "expired" /\ x.cancelled = sold[s].cancelled
    BY KnownFacts DEF Known
  <2> HIDE DEF x
  <2>3. Told(s, x, "expired")
    BY <2>1, <2>2, KnownFacts DEF Told
  <2>4. QED BY <2>3
<1>5. ASSUME NEW status \in Reported, Report(s, status)
      PROVE  \E x : Told(s, x, "updated")
  <2> DEFINE x == [sold[s] EXCEPT !.status = status, !.cancelled = FALSE]
  <2>1. Change(s, x, "updated") /\ (Runs(s) \/ sold[s].status = "cancelled")
    BY <1>5 DEF Report
  <2>2. x \in Known /\ x.status = status
    BY KnownFacts DEF Known
  <2> HIDE DEF x
  <2>3. Told(s, x, "updated")
    BY <2>1, <2>2, KnownFacts DEF Told
  <2>4. QED BY <2>3
<1>6. QED BY <1>0, <1>1, <1>2, <1>3, <1>4, <1>5

LEMMA TellingSteps ==
  ASSUME TypeInv, [Next]_vars
  PROVE  \/ UNCHANGED <<sold, sent>>
         \/ Checkout
         \/ \E s \in Subs : \E x, name : Told(s, x, name)
<1>1. ASSUME NEW t \in Tasks, Webhook(t) \/ Break(t) PROVE UNCHANGED <<sold, sent>>
  BY <1>1 DEF Webhook, Claim, Select, Write, Stamp, Break
<1>2. ASSUME NEW t \in Tasks, CancelDelete(t)
      PROVE  \E s \in Subs : \E x, name : Told(s, x, name)
  BY <1>2, CancelTold DEF CancelDelete
<1>3. ASSUME NEW t \in Tasks, Buy(t) \/ Refund(t)
      PROVE  \E s \in Subs : \E x, name : Told(s, x, name)
  BY <1>3, PatchedTold, RequestFacts DEF Buy, Refund
<1>4. ASSUME NEW t \in Tasks, Account(t) PROVE CancelDelete(t) \/ UNCHANGED <<sold, sent>>
  BY <1>4 DEF Account, Verify, StartTrial, Cancel, CancelFlag
<1>5. ASSUME NEW t \in Tasks, Membership(t)
      PROVE  Buy(t) \/ Refund(t) \/ UNCHANGED <<sold, sent>>
  BY <1>5 DEF Membership, Count, Join, Recount, Accept, RemoveMember
<1>6. CASE (\E e \in Events : Redeliver(e)) \/ UNCHANGED vars
  BY <1>6 DEF Redeliver, vars
<1>7. QED BY <1>1, <1>2, <1>3, <1>4, <1>5, <1>6, ShopTold DEF Next
\* Events are added at the end: the earlier ones stay what they were.
LEMMA EventsGrow ==
  ASSUME TypeInv, ShopMoves
  PROVE  /\ \A e \in DOMAIN sent : Earlier(e)' = Earlier(e)
         /\ \A e \in DOMAIN sent' \ DOMAIN sent : \A i \in DOMAIN sent : i < e
         /\ \A e \in DOMAIN sent' :
              /\ e \in Nat
              /\ Earlier(e)' = {i \in DOMAIN sent' : i < e /\ sent'[i].sub = sent'[e].sub}
         /\ \A s : /\ EventsOf(s) \subseteq EventsOf(s)'
                   /\ \A e \in EventsOf(s)' : e \in DOMAIN sent' /\ sent'[e].sub = s
                   /\ \A e \in EventsOf(s)' : e \in EventsOf(s) \/ e \notin DOMAIN sent
<1>1. /\ sent \in Seq(EventType) /\ sent' \in Seq(EventType)
      /\ DOMAIN sent \subseteq DOMAIN sent' /\ \A e \in DOMAIN sent : sent'[e] = sent[e]
  BY DEF TypeInv, TypeOK, ShopMoves
<1>2. /\ Len(sent) \in Nat /\ DOMAIN sent = 1..Len(sent)
      /\ Len(sent') \in Nat /\ DOMAIN sent' = 1..Len(sent')
  BY <1>1
<1>3. \A e \in DOMAIN sent' : e \in Nat /\ \A i : i \in 1..(e - 1) <=> i \in DOMAIN sent' /\ i < e
  BY <1>2
<1>4. \A e \in DOMAIN sent : \A i \in 1..(e - 1) : i \in DOMAIN sent
  BY <1>2
<1>5. \A e \in DOMAIN sent : Earlier(e)' = Earlier(e)
  BY <1>1, <1>4 DEF Earlier
<1>6. \A e \in DOMAIN sent' \ DOMAIN sent : \A i \in DOMAIN sent : i < e
  BY <1>2
<1>7. \A e \in DOMAIN sent' :
        Earlier(e)' = {i \in DOMAIN sent' : i < e /\ sent'[i].sub = sent'[e].sub}
  BY <1>3 DEF Earlier
<1>8. QED BY <1>1, <1>3, <1>5, <1>6, <1>7 DEF EventsOf

\* The events keep telling what LemonSqueezy knows.
LEMMA ToldTells ==
  ASSUME TypeInv, ShopTells, NEW s \in Subs, NEW x, NEW name, Told(s, x, name)
  PROVE  ShopTells'
<1> PICK n : n = Len(sent) + 1
  OBVIOUS
<1>0. /\ x \in Known /\ x.status \notin {"none", "offered"} /\ Change(s, x, name)
      /\ name \in {"created", "updated", "cancelled", "expired"}
      /\ sold[s].status # "none" /\ (name = "created" <=> sold[s].status = "offered")
      /\ name = "cancelled" => x.status = "cancelled" /\ x.cancelled
      /\ name = "expired" => x.status = "expired" /\ x.cancelled = sold[s].cancelled
  BY DEF Told
<1>1. /\ ShopMoves /\ sold' = [sold EXCEPT ![s] = x] /\ DOMAIN sent' = DOMAIN sent \cup {n}
      /\ \A e \in DOMAIN sent : sent'[e] = sent[e]
  <2>1. /\ sold' = [sold EXCEPT ![s] = x] /\ DOMAIN sent' = DOMAIN sent \cup {Len(sent) + 1}
        /\ \A e \in DOMAIN sent : sent'[e] = sent[e]
    BY <1>0, ChangeFacts
  <2>2. ShopMoves
    BY <1>0, ChangeMoves
  <2>3. QED BY <2>1, <2>2
<1>2. sent'[n] = EventOf(name, s, x)
  BY <1>0 DEF Change, TypeInv, TypeOK
<1>3. /\ sent'[n].name = name /\ sent'[n].sub = s
      /\ sent'[n].status = x.status /\ sent'[n].cancelled = x.cancelled
  BY <1>2 DEF EventOf
<1>4. /\ sold'[s] = x /\ \A r \in Subs \ {s} : sold'[r] = sold[r]
      /\ n \notin DOMAIN sent /\ n \in DOMAIN sent'
  BY <1>1 DEF TypeInv, TypeOK
<1>5. /\ EventsOf(s)' = EventsOf(s) \cup {n}
      /\ \A r \in Subs \ {s} : EventsOf(r)' = EventsOf(r)
  BY <1>1, <1>3, <1>4 DEF EventsOf
<1>6. \A i \in DOMAIN sent : i < n /\ i \in Nat /\ n \in Nat
  BY <1>1, <1>4, EventsGrow
<1>7. Earlier(n)' = EventsOf(s)
  <2>1. Earlier(n)' = {i \in DOMAIN sent' : i < n /\ sent'[i].sub = sent'[n].sub}
    BY <1>1, <1>4, EventsGrow
  <2>2. n \in Nat
    BY <1>1, <1>4, EventsGrow
  <2>3. QED BY <1>1, <1>3, <1>6, <2>1, <2>2 DEF EventsOf
<1>8. \A r \in Subs : sold'[r].status \in {"none", "offered"} <=> EventsOf(r)' = {}
  BY <1>0, <1>4, <1>5 DEF ShopTells
<1> DEFINE Tells(e) ==
      LET ev == sent[e] IN
      /\ ev.name = "created" <=> Earlier(e) = {}
      /\ ev.name = "cancelled" => ev.status = "cancelled" /\ ev.cancelled
      /\ ev.name = "expired" =>
           /\ ev.status = "expired"
           /\ \A i \in Earlier(e) :
                (\A j \in Earlier(e) : j <= i) => sent[i].cancelled = ev.cancelled
      /\ (\A i \in EventsOf(ev.sub) : i <= e) =>
           sold[ev.sub].status = ev.status /\ sold[ev.sub].cancelled = ev.cancelled
<1>9. ASSUME NEW e \in DOMAIN sent PROVE Tells(e)'
  <2>1. Tells(e) /\ sent'[e] = sent[e] /\ sent[e].sub \in Subs
    BY <1>1, SentFacts DEF ShopTells
  <2>2. Earlier(e)' = Earlier(e) /\ \A i \in Earlier(e) : sent'[i] = sent[i]
    BY <1>1, EventsGrow, SentFacts
  <2>3. PICK r \in Subs : r = sent[e].sub
    BY <2>1
  <2>4. ~(n <= e)
    BY <1>6
  <2>5. (\A i \in EventsOf(r)' : i <= e) =>
          sold'[r].status = sent[e].status /\ sold'[r].cancelled = sent[e].cancelled
    BY <1>4, <1>5, <2>1, <2>3, <2>4
  <2>6. (\A i \in EventsOf(sent[e].sub)' : i <= e) =>
          sold'[sent'[e].sub].status = sent'[e].status /\ sold'[sent'[e].sub].cancelled = sent'[e].cancelled
    BY <2>1, <2>3, <2>5
  <2>7. QED BY <2>1, <2>2, <2>6
<1>10. Tells(n)'
  <2>1. name = "created" <=> EventsOf(s) = {}
    BY <1>0 DEF ShopTells
  <2>2. ASSUME NEW i \in EventsOf(s), \A j \in EventsOf(s) : j <= i
        PROVE  sent[i].cancelled = sold[s].cancelled
    BY <2>2 DEF ShopTells, EventsOf
  <2>3. \A i \in EventsOf(s) : sent'[i] = sent[i]
    BY <1>1 DEF EventsOf
  <2>4. sold'[sent'[n].sub].status = x.status /\ sold'[sent'[n].sub].cancelled = x.cancelled
    BY <1>3, <1>4
  <2>5. name = "expired" => \A i \in EventsOf(s) :
          (\A j \in EventsOf(s) : j <= i) => sent'[i].cancelled = x.cancelled
    BY <1>0, <2>2, <2>3
  <2>6. QED BY <1>0, <1>3, <1>7, <2>1, <2>4, <2>5
<1>11. ShopTells' <=> /\ \A r \in Subs : sold'[r].status \in {"none", "offered"} <=> EventsOf(r)' = {}
                     /\ \A e \in DOMAIN sent' : Tells(e)'
  BY DEF ShopTells
<1>12. QED BY <1>1, <1>8, <1>9, <1>10, <1>11
LEMMA ShopTellsKept ==
  ASSUME TypeInv, ShopTells, [Next]_vars
  PROVE  ShopTells'
<1>1. CASE UNCHANGED <<sold, sent>>
  BY <1>1 DEF ShopTells, EventsOf, Earlier
<1>2. CASE Checkout
  <2>1. PICK s \in Subs : sold[s].status = "none" /\ sold' = [sold EXCEPT ![s].status = "offered"]
    BY <1>2 DEF Checkout
  <2>2. UNCHANGED sent /\ sold \in [Subs -> Known]
    BY <1>2 DEF Checkout, TypeInv, TypeOK
  <2>3. /\ sold'[s].status = "offered" /\ EventsOf(s) = {}
        /\ \A r \in Subs \ {s} : sold'[r] = sold[r]
    BY <2>1, <2>2 DEF ShopTells, Known
  <2>4. \A e \in DOMAIN sent : sent[e].sub \in Subs /\ sent[e].sub # s
    BY <2>3, SentFacts DEF EventsOf
  <2>5. \A r : EventsOf(r)' = EventsOf(r)
    BY <2>2 DEF EventsOf
  <2>6. \A e : Earlier(e)' = Earlier(e)
    BY <2>2 DEF Earlier
  <2>7. \A r \in Subs : sold'[r].status \in {"none", "offered"} <=> EventsOf(r) = {}
    BY <2>3 DEF ShopTells
  <2>8. \A e \in DOMAIN sent : sold'[sent[e].sub] = sold[sent[e].sub]
    BY <2>3, <2>4
  <2>9. QED BY <2>2, <2>5, <2>6, <2>7, <2>8 DEF ShopTells
<1>3. QED BY <1>1, <1>2, TellingSteps, ToldTells
------------------------------------------------------------------------------
(* Steps of the requests that look at the row *)

\* Where a step of another request cannot disturb.
Watched == HookPcs \cup {"delete", "flag"}

\* One request that looks at the row steps, or none does.
LEMMA WatchedSteps ==
  ASSUME TypeInv, [Next]_vars
  PROVE  \/ /\ UNCHANGED <<claim, row, untidy>>
            /\ \A x \in Tasks : \/ task'[x] = task[x]
                                \/ task[x].pc \notin Watched /\ task'[x].pc \notin Watched
         \/ \E t \in Tasks :
              /\ Webhook(t) \/ Account(t) \/ Break(t)
              /\ \A x \in Tasks \ {t} : task'[x] = task[x]
<1>0. task \in [Tasks -> RequestType]
  BY DEF TypeInv, TypeOK
<1>1. CASE UNCHANGED <<claim, row, untidy, task>>
  BY <1>1
<1>2. CASE Shop \/ Checkout \/ (\E e \in Events : Redeliver(e)) \/ UNCHANGED vars
  BY <1>1, <1>2, ShopFacts, CheckoutFacts DEF Redeliver, vars
<1>3. ASSUME NEW t \in Tasks, Webhook(t) \/ Account(t) \/ Break(t)
      PROVE  \A x \in Tasks \ {t} : task'[x] = task[x]
  <2>1. \E r : task' = [task EXCEPT ![t] = r]
    BY <1>3 DEF Webhook, Claim, Select, Write, Stamp, Account, Verify, StartTrial, Cancel,
                CancelDelete, CancelFlag, Break, Move, Done
  <2>2. QED BY <1>0, <2>1
<1>4. ASSUME NEW t \in Tasks, Membership(t)
      PROVE  /\ UNCHANGED <<claim, row, untidy>>
             /\ \A x \in Tasks : \/ task'[x] = task[x]
                                 \/ task[x].pc \notin Watched /\ task'[x].pc \notin Watched
  <2>1. UNCHANGED <<claim, row, untidy>> /\ task[t].pc \in SeatPcs \cup {"idle"}
    BY <1>4 DEF Membership, Count, Buy, Join, Recount, Refund, Accept, RemoveMember, At, SeatPcs
  <2>2. CASE Count(t) \/ Buy(t) \/ Join(t) \/ Recount(t) \/ Refund(t)
    <3>1. \/ Done(t) \/ Move(t, "join")
          \/ task' = [task EXCEPT ![t].pc = "buy", ![t].count = Seats(members) + 1]
          \/ task' = [task EXCEPT ![t].pc = "refund", ![t].count = Seats(members)]
      BY <2>2 DEF Count, Buy, Join, Recount, Refund
    <3>2. task'[t].pc \in {"idle", "join", "buy", "refund"} /\ \A y \in Tasks \ {t} : task'[y] = task[y]
      BY <1>0, <3>1 DEF Done, Move, Idle, Request, RequestType
    <3>3. QED BY <2>1, <3>2 DEF Watched, HookPcs, SeatPcs
  <2>3. ASSUME NEW pc \in {"count", "join", "recount", "idle"}, NEW ls, NEW u, Enter(t, pc, ls, u),
               NEW x \in Tasks
        PROVE  \/ task'[x] = task[x]
               \/ task[x].pc \notin Watched /\ task'[x].pc \notin Watched
    <3>1. /\ x = t => task'[x].pc = pc
          /\ x # t /\ task[x].pc \notin SeatPcs => task'[x] = task[x]
          /\ x # t => task'[x].pc = task[x].pc
      BY <1>0, <2>3 DEF Enter, Request, RequestType
    <3>2. QED BY <2>1, <3>1 DEF Watched, HookPcs, SeatPcs
  <2>4. ASSUME NEW u \in Users, Accept(t, u) \/ RemoveMember(t, u), NEW x \in Tasks
        PROVE  \/ task'[x] = task[x]
               \/ task[x].pc \notin Watched /\ task'[x].pc \notin Watched
    BY <2>3, <2>4 DEF Accept, RemoveMember
  <2>5. QED BY <1>4, <2>1, <2>2, <2>4 DEF Membership
<1>5. QED BY <1>2, <1>3, <1>4 DEF Next

\* What no step takes back: what was sent and claimed, and who met whom.
Onward ==
  /\ ShopMoves
  /\ untidy \subseteq untidy'
  /\ \A e \in DOMAIN sent :
       /\ claim[e] # "none" => claim'[e] # "none"
       /\ claim[e] = "processed" => claim'[e] = "processed"
  /\ \A e \in DOMAIN sent' \ DOMAIN sent : claim'[e] = "none"

LEMMA StepsGoOn ==
  ASSUME HandlerInv, [Next]_vars
  PROVE  Onward
<1>0. TypeInv /\ ShopMoves /\ claim \in [Events -> {"none", "claimed", "processed"}] /\ OneHandler
  BY SentOnly DEF HandlerInv, TypeInv, TypeOK
<1>1. untidy \subseteq untidy'
  <2>1. ASSUME NEW t \in Tasks, Webhook(t) \/ Account(t) \/ Break(t) PROVE untidy \subseteq untidy'
    BY <2>1 DEF Webhook, Claim, Select, Write, Stamp, Account, Verify, StartTrial, Cancel,
                CancelDelete, CancelFlag, Break
  <2>2. QED BY <1>0, <2>1, WatchedSteps
<1>2. CASE HandlersKept
  BY <1>0, <1>1, <1>2 DEF HandlersKept, Onward, ShopMoves
<1>3. ASSUME NEW t \in Tasks, NEW e \in Events, Claim(t, e) PROVE Onward
  <2>1. UNCHANGED sent /\ claim' = [claim EXCEPT ![e] = "claimed"] /\ claim[e] = "none"
    BY <1>3 DEF Claim
  <2>2. QED BY <1>0, <1>1, <2>1, SentFacts DEF Onward
<1>4. ASSUME NEW t \in Tasks, Stamp(t) PROVE Onward
  <2>1. UNCHANGED sent /\ claim' = [claim EXCEPT ![task[t].event] = "processed"]
    BY <1>4 DEF Stamp
  <2>2. QED BY <1>0, <1>1, <2>1, SentFacts DEF Onward
<1>5. QED BY <1>0, <1>2, <1>3, <1>4, HandlerSteps

\* An event is claimed after the earlier ones were processed, or else its
\* subscription gets untidy.
LEMMA InOrderKept ==
  ASSUME HandlerInv, InOrder, [Next]_vars
  PROVE  InOrder'
<1>0. TypeInv /\ Onward /\ ShopMoves
  BY StepsGoOn DEF HandlerInv, Onward
<1> SUFFICES ASSUME NEW e \in DOMAIN sent', claim'[e] # "none", sent'[e].sub \notin untidy',
                    NEW i \in Earlier(e)'
             PROVE  claim'[i] = "processed"
  BY DEF InOrder
<1>1. e \in DOMAIN sent /\ sent'[e] = sent[e] /\ i \in Earlier(e) /\ sent[e].sub \notin untidy
  BY <1>0, EventsGrow DEF Onward, ShopMoves
<1>2. i \in DOMAIN sent
  BY <1>0, <1>1, SentFacts
<1>3. claim[e] # "none" => claim[i] = "processed"
  BY <1>1 DEF InOrder
<1>4. CASE claim[e] = "none"
  <2>1. PICK t \in Tasks : Claim(t, e)
    <3>1. e \in Events /\ claim \in [Events -> {"none", "claimed", "processed"}]
      BY <1>0, <1>1, SentFacts
    <3>2. claim'[e] # claim[e]
      BY <1>4
    <3>3. \A t \in Tasks : ~(Stamp(t) /\ task[t].event = e)
      BY <1>4 DEF Stamp, At, Hook, HookPcs, HandlerInv, OneHandler
    <3>4. QED BY <1>0, <3>1, <3>2, <3>3, HandlerSteps DEF HandlersKept, Claim, Stamp
  <2>2. \A j \in Earlier(e) : claim[j] = "processed"
    BY <1>1, <2>1 DEF Claim
  <2>3. claim[i] = "processed"
    BY <1>1, <2>2
  <2>4. QED BY <1>0, <1>2, <2>3 DEF Onward
<1>5. QED BY <1>0, <1>2, <1>3, <1>4 DEF Onward
\* How a request gets to where it is watched, and on.
LEMMA WatchedMoves ==
  ASSUME TypeInv, [Next]_vars, NEW x \in Tasks, task'[x].pc \in Watched
  PROVE  \/ task'[x] = task[x]
         \/ \E e \in Events : Claim(x, e) /\ task'[x].pc = "select" /\ task'[x].event = e
         \/ Select(x) /\ task'[x].pc = "stamp" /\ task'[x].event = task[x].event
            /\ (sent[task[x].event].name = "created") = (row.ls = sent[task[x].event].sub)
         \/ Select(x) /\ task'[x].pc = "write" /\ task'[x].event = task[x].event
            /\ task'[x].seen = row
            /\ (sent[task[x].event].name = "created") # (row.ls = sent[task[x].event].sub)
         \/ Write(x) /\ task'[x].pc = "stamp" /\ task'[x].event = task[x].event
         \/ Cancel(x) /\ task'[x].pc = "delete" /\ task'[x].seen = row
         \/ CancelDelete(x) /\ task'[x].pc = "flag" /\ task'[x].seen = task[x].seen
<1>0. task \in [Tasks -> RequestType]
  BY DEF TypeInv, TypeOK
<1>1. CASE Webhook(x)
  <2>1. ASSUME NEW e \in Events, Claim(x, e) PROVE task'[x].pc = "select" /\ task'[x].event = e
    BY <1>0, <2>1 DEF Claim, Request
  <2>2. CASE Select(x) /\ Move(x, "stamp")
            /\ (sent[task[x].event].name = "created") = (row.ls = sent[task[x].event].sub)
    BY <1>0, <2>2 DEF Move, RequestType
  <2>3. CASE Select(x) /\ task' = [task EXCEPT ![x].pc = "write", ![x].seen = row]
            /\ (sent[task[x].event].name = "created") # (row.ls = sent[task[x].event].sub)
    <3>1. task'[x].pc = "write" /\ task'[x].seen = row /\ task'[x].event = task[x].event
      BY <1>0, <2>3 DEF RequestType
    <3>2. QED BY <2>3, <3>1
  <2>4. CASE Write(x)
    BY <1>0, <2>4 DEF Write, RequestType
  <2>5. CASE Stamp(x)
    BY <2>5, DoneTask, IdleTyped DEF Stamp, Watched, HookPcs
  <2>6. ASSUME Select(x)
        PROVE  \/ Move(x, "stamp")
                  /\ (sent[task[x].event].name = "created") = (row.ls = sent[task[x].event].sub)
               \/ task' = [task EXCEPT ![x].pc = "write", ![x].seen = row]
                  /\ (sent[task[x].event].name = "created") # (row.ls = sent[task[x].event].sub)
    BY <2>6 DEF Select
  <2>7. QED BY <1>1, <2>1, <2>2, <2>3, <2>4, <2>5, <2>6 DEF Webhook
<1>2. CASE Account(x)
  <2>1. CASE Verify(x)
    BY <1>0, <2>1 DEF Verify, Idle, Request, Watched, HookPcs
  <2>2. CASE StartTrial(x) \/ CancelFlag(x)
    BY <2>2, DoneTask, IdleTyped DEF StartTrial, CancelFlag, Watched, HookPcs
  <2>3. CASE Cancel(x)
    BY <1>0, <2>3 DEF Cancel, Request
  <2>4. CASE CancelDelete(x)
    <3>1. Move(x, "flag") \/ Done(x)
      BY <2>4 DEF CancelDelete
    <3>2. CASE Done(x)
      BY <3>2, DoneTask, IdleTyped DEF Watched, HookPcs
    <3>3. CASE Move(x, "flag")
      BY <1>0, <2>4, <3>3 DEF Move, RequestType
    <3>4. QED BY <3>1, <3>2, <3>3
  <2>5. QED BY <1>2, <2>1, <2>2, <2>3, <2>4 DEF Account
<1>3. CASE Break(x)
  BY <1>3, DoneTask, IdleTyped DEF Break, Watched, HookPcs
<1>4. QED BY <1>1, <1>2, <1>3, WatchedSteps

\* A writer keeps what it is about, or is new and has met all the others.
LEMMA WriterGoesOn ==
  ASSUME TypeInv, [Next]_vars, NEW x \in Tasks, x \in Writers'
  PROVE  \/ x \in Writers /\ Base(x)' = Base(x)
         \/ /\ Crowded({Base(x)'}) \subseteq untidy' /\ x \notin Writers
            /\ \A y \in Tasks \ {x} : task'[y] = task[y]
<1>0. task \in [Tasks -> RequestType] /\ ShopMoves
  BY SentOnly DEF TypeInv, TypeOK
<1>1. task'[x].pc \in {"select", "write", "delete", "flag"}
  BY DEF Writers
<1>2. CASE task'[x] = task[x]
  BY <1>0, <1>1, <1>2, RequestFacts DEF Writers, Base, Hook, ShopMoves
<1>3. ASSUME NEW e \in Events, Claim(x, e), task'[x].pc = "select", task'[x].event = e
      PROVE  /\ Crowded({Base(x)'}) \subseteq untidy' /\ x \notin Writers
             /\ \A y \in Tasks \ {x} : task'[y] = task[y]
  <2>1. Base(x)' = sent[e].sub
    BY <1>3 DEF Base, Hook, HookPcs, Claim
  <2>2. QED BY <1>0, <1>3, <2>1 DEF Claim, At, Writers
<1>4. CASE Select(x) /\ task'[x].pc = "write" /\ task'[x].event = task[x].event
  BY <1>4 DEF Select, At, Writers, Base, Hook, HookPcs
<1>5. CASE Cancel(x) /\ task'[x].pc = "delete" /\ task'[x].seen = row
  <2>1. Base(x)' = row.ls
    BY <1>5 DEF Base, Hook, HookPcs
  <2>2. QED BY <1>0, <1>5, <2>1 DEF Cancel, At, Writers
<1>6. CASE CancelDelete(x) /\ task'[x].pc = "flag" /\ task'[x].seen = task[x].seen
  BY <1>6 DEF CancelDelete, At, Writers, Base, Hook, HookPcs
<1>7. QED BY <1>1, <1>2, <1>3, <1>4, <1>5, <1>6, WatchedMoves DEF Watched, HookPcs

\* Who comes in while there is a writer makes the subscriptions of both untidy.
LEMMA WritersMeetKept ==
  ASSUME HandlerInv, WritersMeet, [Next]_vars
  PROVE  WritersMeet'
<1>0. TypeInv /\ untidy \subseteq untidy'
  BY StepsGoOn DEF HandlerInv, Onward
<1>1. ASSUME NEW t \in Tasks, NEW u \in Tasks, t # u, t \in Writers', u \in Writers',
             Crowded({Base(t)'}) \subseteq untidy', t \notin Writers,
             \A y \in Tasks \ {t} : task'[y] = task[y]
      PROVE  Base(t)' \notin Subs \ untidy' /\ Base(u)' \notin Subs \ untidy'
  <2>1. u \in Writers
    BY <1>1 DEF Writers
  <2>2. Base(u)' = Base(u)
    BY <1>0, <1>1, <2>1, WriterGoesOn
  <2>3. Base(u) \in Touched(u)
    BY DEF Base, Touched
  <2>4. Subs \cap {Base(t)', Base(u)} \subseteq Crowded({Base(t)'})
    BY <2>1, <2>3 DEF Crowded
  <2>5. QED BY <1>1, <2>2, <2>4
<1> SUFFICES ASSUME NEW t \in Tasks, NEW u \in Tasks, t # u, t \in Writers', u \in Writers'
             PROVE  Base(t)' \notin Subs \ untidy'
  BY DEF WritersMeet, Writers
<1>2. CASE t \in Writers /\ Base(t)' = Base(t) /\ u \in Writers
  BY <1>0, <1>2 DEF WritersMeet
<1>3. QED BY <1>0, <1>1, <1>2, WriterGoesOn
------------------------------------------------------------------------------
(* What is written over the row *)

\* Who has read the row as it still is writes all of what it makes of it.
LEMMA WrittenWhole ==
  ASSUME row \in RowType, NEW new \in RowType
  PROVE  Written(row, new) = new
BY DEF Written, RowType

LEMMA WrittenFields ==
  ASSUME row \in RowType, NEW seen \in RowType, NEW new \in RowType
  PROVE  /\ new.tier = seen.tier => Written(seen, new).tier = row.tier
         /\ new.seats = seen.seats => Written(seen, new).seats = row.seats
BY DEF Written, RowType

\* Where the row changes but for a trial.
LEMMA RowSteps ==
  ASSUME TypeInv, [Next]_vars
  PROVE  \/ UNCHANGED row
         \/ \E t \in Tasks : StartTrial(t)
         \/ \E t \in Tasks : Write(t) \/ CancelFlag(t) \/ (Break(t) /\ row' # row)
<1>1. ASSUME NEW t \in Tasks, Webhook(t) PROVE UNCHANGED row \/ Write(t)
  BY <1>1 DEF Webhook, Claim, Select, Stamp
<1>2. ASSUME NEW t \in Tasks, Account(t) PROVE UNCHANGED row \/ StartTrial(t) \/ CancelFlag(t)
  BY <1>2 DEF Account, Verify, Cancel, CancelDelete
<1>3. QED BY <1>1, <1>2, WatchedSteps

\* A row of a tidy subscription is written by a writer of this subscription, who
\* has read the row as it is.
LEMMA RowWritten ==
  ASSUME TypeInv, NEW t \in Tasks, SeenHolds(t),
         Write(t) \/ CancelFlag(t) \/ (Break(t) /\ row' # row)
  PROVE  /\ t \in Writers /\ task[t].pc \in {"write", "flag"} /\ untidy' = untidy
         /\ \/ row'.ls = row.ls
            \/ /\ Write(t) /\ sent[task[t].event].name = "created"
               /\ row'.ls = sent[task[t].event].sub
         /\ row'.ls \in Subs \ untidy => row'.ls = Base(t) /\ task[t].seen = row
         /\ task[t].seen = row =>
              /\ Write(t) => row' = Handled(sent[task[t].event], row)
              /\ CancelFlag(t) => row' = [row EXCEPT !.cancel = TRUE]
         /\ CancelFlag(t) \/ Break(t) => row'.tier = row.tier /\ row'.seats = row.seats
<1> DEFINE seen == task[t].seen
           ev == sent[task[t].event]
<1>0. /\ row \in RowType /\ seen \in RowType /\ untidy' = untidy
      /\ Hook(t) => ev \in EventType /\ ev.sub \in Subs
      /\ None \notin Subs
  <2>1. untidy' = untidy
    BY DEF Write, CancelFlag, Break
  <2>2. QED BY <2>1, RequestFacts, SentFacts DEF EventType
<1>1. CASE Write(t)
  <2> DEFINE new == Handled(ev, seen)
  <2>1. /\ task[t].pc = "write" /\ t \in Writers /\ Hook(t) /\ ~Collides(t) /\ row' = Written(seen, new)
    BY <1>1 DEF Write, At, Writers, Hook, HookPcs
  <2>2. /\ new \in RowType /\ (ev.name # "created" => new.ls = seen.ls)
        /\ (ev.name = "created" => new.ls = ev.sub)
    BY <1>0, <2>1, HandledTyped
  <2>3. Base(t) = ev.sub /\ (seen.ls # ev.sub <=> ev.name = "created")
    BY <2>1 DEF Base, SeenHolds, At
  <2>4. seen = row \/ (Base(t) \notin Subs \ untidy /\ row.ls \notin Subs \ untidy)
    BY <2>1 DEF SeenHolds
  <2>5. seen = row => new = Handled(ev, row)
    OBVIOUS
  <2> HIDE DEF new
  <2>6. row'.ls = IF new.ls # seen.ls THEN new.ls ELSE row.ls
    BY <1>0, <2>1, <2>2, WrittenTyped
  <2>7. seen = row => row' = Handled(ev, row)
    BY <1>0, <2>1, <2>2, <2>5, WrittenWhole
  <2>8. ~CancelFlag(t) /\ (Break(t) => row'.tier = row.tier /\ row'.seats = row.seats)
    <3>1. ~Break(t)
      BY <1>0, <2>1, <1>1, DoneTask, IdleTyped DEF Break, Write, TypeInv, TypeOK, RequestType
    <3>2. QED BY <2>1, <3>1 DEF CancelFlag, At
  <2>9. QED BY <1>0, <1>1, <2>1, <2>2, <2>3, <2>4, <2>6, <2>7, <2>8
<1>2. CASE CancelFlag(t)
  <2> DEFINE new == [seen EXCEPT !.cancel = TRUE]
  <2>1. task[t].pc = "flag" /\ t \in Writers /\ ~Hook(t) /\ row' = Written(seen, new) /\ ~Write(t)
    BY <1>2 DEF CancelFlag, Write, At, Writers, Hook, HookPcs
  <2>2. /\ new \in RowType /\ new.ls = seen.ls /\ new.tier = seen.tier /\ new.seats = seen.seats
    BY <1>0 DEF RowType
  <2>3. Base(t) = seen.ls /\ seen.ls \in Subs
    BY <2>1 DEF Base, SeenHolds, At
  <2>4. seen = row \/ row.ls \notin Subs \ untidy
    BY <1>0, <2>1, <2>3 DEF SeenHolds, Collides
  <2>5. seen = row => new = [row EXCEPT !.cancel = TRUE]
    OBVIOUS
  <2> HIDE DEF new
  <2>6. row'.ls = row.ls /\ row'.tier = row.tier /\ row'.seats = row.seats
    BY <1>0, <2>1, <2>2, WrittenTyped, WrittenFields
  <2>7. seen = row => row' = [row EXCEPT !.cancel = TRUE]
    BY <1>0, <2>1, <2>2, <2>5, WrittenWhole
  <2>8. QED BY <1>0, <1>2, <2>1, <2>3, <2>4, <2>6, <2>7
<1>3. CASE Break(t) /\ row' # row
  <2> DEFINE half == [seen EXCEPT !.status = StatusOf(ev.status)]
             both == [half EXCEPT !.cancel = ev.cancelled]
  <2>1. /\ At(t, "write") /\ ev.name = "updated" /\ Hook(t)
        /\ row' = Written(seen, half) \/ row' = Written(seen, both)
    BY <1>3 DEF Break, HalfHandled
  <2>2. t \in Writers /\ task[t].pc = "write" /\ ~CancelFlag(t)
    BY <2>1 DEF Writers, At, CancelFlag
  <2>3. ev.cancelled \in BOOLEAN /\ StatusOf(ev.status) \in Statuses
    BY <1>0, <2>1, StatusTyped DEF EventType
  <2>4. half \in RowType /\ half.ls = seen.ls /\ half.tier = seen.tier /\ half.seats = seen.seats
    BY <1>0, <2>3 DEF RowType
  <2>5. both \in RowType /\ both.ls = seen.ls /\ both.tier = seen.tier /\ both.seats = seen.seats
    BY <2>3, <2>4 DEF RowType
  <2> HIDE DEF half, both
  <2>6. row'.ls = row.ls /\ row'.tier = row.tier /\ row'.seats = row.seats
    <3>1. ASSUME NEW new \in RowType, new.ls = seen.ls, new.tier = seen.tier, new.seats = seen.seats,
                 row' = Written(seen, new)
          PROVE  row'.ls = row.ls /\ row'.tier = row.tier /\ row'.seats = row.seats
      BY <1>0, <3>1, WrittenTyped, WrittenFields
    <3>2. QED BY <2>1, <2>4, <2>5, <3>1
  <2>7. Base(t) = ev.sub /\ seen.ls = ev.sub
    BY <2>1 DEF Base, SeenHolds
  <2>8. seen = row \/ row.ls \notin Subs \ untidy
    BY <1>0, <2>1, <2>2, <2>7 DEF SeenHolds, Collides
  <2>9. ~Write(t)
    BY <1>3, <2>1, DoneTask, IdleTyped, <1>0 DEF Write, Break, TypeInv, TypeOK, RequestType
  <2>10. QED BY <1>0, <2>1, <2>2, <2>6, <2>7, <2>8, <2>9
<1>4. QED BY <1>1, <1>2, <1>3
\* An event gets its row from the handler that takes it up.
LEMMA FirstClaim ==
  ASSUME HandlerInv, [Next]_vars, NEW e \in DOMAIN sent, claim[e] = "none", claim'[e] # "none"
  PROVE  \E t \in Tasks : Claim(t, e)
<1>1. e \in Events /\ claim \in [Events -> {"none", "claimed", "processed"}] /\ TypeInv
  BY SentFacts DEF HandlerInv
<1>2. \A t \in Tasks : ~(Stamp(t) /\ task[t].event = e)
  BY DEF Stamp, At, Hook, HookPcs, HandlerInv, OneHandler
<1>3. QED BY <1>1, <1>2, HandlerSteps DEF HandlersKept, Claim, Stamp

\* The end of a subscription that the endpoint asks for is told in an event that
\* nobody has seen yet.
LEMMA EndIsTold ==
  ASSUME TypeInv, NEW s \in Subs, CancelAtShop(s), UNCHANGED claim
  PROVE  \E d \in EventsOf(s)' : sent'[d].name = "cancelled" /\ claim'[d] = "none"
<1> DEFINE x == [sold[s] EXCEPT !.status = "cancelled", !.cancelled = TRUE]
<1>1. sent' = Append(sent, EventOf("cancelled", s, x)) /\ ShopMoves
  BY CancelAtShopFacts DEF CancelAtShop, Change
<1> HIDE DEF x
<1>2. PICK d : d = Len(sent) + 1
  OBVIOUS
<1>3. sent'[d] = EventOf("cancelled", s, x) /\ d \in DOMAIN sent' \ DOMAIN sent
  BY <1>1, <1>2 DEF TypeInv, TypeOK
<1>4. sent'[d].name = "cancelled" /\ sent'[d].sub = s
  BY <1>3 DEF EventOf
<1>5. claim'[d] = "none"
  BY <1>1, <1>3 DEF ShopMoves
<1>6. d \in EventsOf(s)'
  BY <1>3, <1>4 DEF EventsOf
<1>7. QED BY <1>4, <1>5, <1>6

\* A writer knows the row, unless its subscription and the row's are untidy.
LEMMA SeenKept ==
  ASSUME HandlerInv, WritersMeet, \A t \in Tasks : SeenHolds(t), [Next]_vars, NEW x \in Tasks
  PROVE  SeenHolds(x)'
<1>0. /\ TypeInv /\ Onward /\ ShopMoves /\ untidy \subseteq untidy' /\ SeenHolds(x)
      /\ task \in [Tasks -> RequestType]
  BY StepsGoOn DEF HandlerInv, Onward, TypeInv, TypeOK
<1>1. CASE task'[x].pc \notin {"write", "delete", "flag"}
  BY <1>1 DEF SeenHolds, At
<1>2. CASE task'[x].pc \in {"write", "delete", "flag"} /\ task'[x] = task[x]
  <2>1. x \in Writers /\ x \in Writers' /\ task[x].pc \in {"write", "delete", "flag"}
    BY <1>2 DEF Writers
  <2>2. Base(x)' = Base(x)
    BY <1>0, <2>1, WriterGoesOn
  <2>3. At(x, "write") => Hook(x) /\ sent'[task[x].event] = sent[task[x].event]
    BY <1>0, RequestFacts DEF At, Hook, HookPcs, ShopMoves
  <2>4. At(x, "write")' => (task'[x].seen.ls # sent'[task'[x].event].sub
                              <=> sent'[task'[x].event].name = "created")
    BY <1>0, <1>2, <2>3 DEF SeenHolds, At
  <2>5. ASSUME At(x, "flag"), task[x].seen.ls \notin untidy'
        PROVE  \E d \in EventsOf(task[x].seen.ls)' : sent'[d].name = "cancelled" /\ claim'[d] = "none"
    <3>1. PICK s : s = task[x].seen.ls
      OBVIOUS
    <3>2. PICK d \in EventsOf(s) : sent[d].name = "cancelled" /\ claim[d] = "none"
      BY <1>0, <2>5, <3>1 DEF SeenHolds
    <3>3. d \in DOMAIN sent /\ sent[d].sub = s /\ d \in EventsOf(s)' /\ sent'[d] = sent[d]
      BY <1>0, <3>2, EventsGrow DEF EventsOf, ShopMoves
    <3>4. ASSUME NEW t \in Tasks, Claim(t, d) PROVE FALSE
      <4>1. Crowded({sent[d].sub}) \subseteq untidy'
        BY <3>4 DEF Claim
      <4>2. s \in Touched(x) /\ s \in Subs
        BY <1>0, <2>5, <3>1 DEF Touched, SeenHolds
      <4>3. s \in Crowded({sent[d].sub})
        BY <2>1, <4>2 DEF Crowded
      <4>4. QED BY <2>5, <3>1, <4>1, <4>3
    <3>5. claim'[d] = "none"
      BY <3>2, <3>3, <3>4, FirstClaim
    <3>6. \A r : r = s => EventsOf(r)' = EventsOf(s)'
      OBVIOUS
    <3>7. EventsOf(task[x].seen.ls)' = EventsOf(s)'
      BY <1>2, <3>1 DEF EventsOf
    <3>8. QED BY <3>2, <3>3, <3>5, <3>7
  <2>6. \/ task[x].seen = row'
        \/ task[x].seen.ls = None /\ row'.ls # None
        \/ Base(x) \notin Subs \ untidy' /\ row'.ls \notin Subs \ untidy'
    <3>1. CASE UNCHANGED row
      BY <1>0, <2>1, <3>1 DEF SeenHolds, Collides
    <3>2. ASSUME NEW t \in Tasks, StartTrial(t)
          PROVE  \/ task[x].seen = row'
                 \/ task[x].seen.ls = None /\ row'.ls # None
                 \/ Base(x) \notin Subs \ untidy' /\ row'.ls \notin Subs \ untidy'
      <4>1. row.ls = None /\ row'.ls = Trial /\ Trial \notin Subs /\ None # Trial
        BY <1>0, <3>2, SentFacts DEF StartTrial, TrialRow, Row
      <4>2. QED BY <1>0, <2>1, <4>1 DEF SeenHolds, Collides
    <3>3. ASSUME NEW t \in Tasks, Write(t) \/ CancelFlag(t) \/ (Break(t) /\ row' # row)
          PROVE  Base(x) \notin Subs \ untidy' /\ row'.ls \notin Subs \ untidy'
      <4>1. /\ t \in Writers /\ untidy' = untidy
            /\ row'.ls \in Subs \ untidy => row'.ls = Base(t)
        BY <1>0, <3>3, RowWritten
      <4>2. t # x
        <5>1. task'[t].pc \in {"stamp", "idle"}
          BY <1>0, <3>3, DoneTask, IdleTyped DEF Write, CancelFlag, Break, RequestType
        <5>2. QED BY <1>2, <5>1
      <4>3. Base(x) \notin Subs \ untidy /\ Base(t) \notin Subs \ untidy
        BY <2>1, <4>1, <4>2 DEF WritersMeet
      <4>4. QED BY <4>1, <4>3
    <3>4. QED BY <1>0, <3>1, <3>2, <3>3, RowSteps
  <2>7. task[x].seen.ls \notin Subs => ~At(x, "flag")
    BY <1>0 DEF SeenHolds
  <2>8. At(x, "flag")' =>
          /\ task'[x].seen.ls \in Subs
          /\ task'[x].seen.ls \notin untidy' =>
               \E d \in EventsOf(task[x].seen.ls)' : sent'[d].name = "cancelled" /\ claim'[d] = "none"
    BY <1>2, <2>5, <2>7 DEF At
  <2>9. task'[x].pc \in {"delete", "flag"} => task'[x].seen.ls # None
    BY <1>0, <1>2 DEF SeenHolds
  <2>10. \/ task'[x].seen = row'
         \/ Collides(x)'
         \/ Base(x)' \notin Subs \ untidy' /\ row'.ls \notin Subs \ untidy'
    BY <1>2, <2>2, <2>6 DEF Collides
  <2>11. QED BY <1>2, <2>4, <2>8, <2>9, <2>10 DEF SeenHolds
<1>3. CASE Select(x) /\ task'[x].pc = "write" /\ task'[x].event = task[x].event
           /\ task'[x].seen = row
           /\ (sent[task[x].event].name = "created") # (row.ls = sent[task[x].event].sub)
  <2>1. UNCHANGED <<sent, row>>
    BY <1>3 DEF Select
  <2>2. QED BY <1>3, <2>1 DEF SeenHolds, At
<1>4. CASE Cancel(x) /\ task'[x].pc = "delete" /\ task'[x].seen = row
  <2>1. UNCHANGED row /\ row.ls # None
    BY <1>4 DEF Cancel
  <2>2. QED BY <1>4, <2>1 DEF SeenHolds, At
<1>5. CASE CancelDelete(x) /\ task'[x].pc = "flag" /\ task'[x].seen = task[x].seen
  <2>1. PICK s \in Subs : s = task[x].seen.ls
    BY <1>5 DEF CancelDelete
  <2>2. /\ UNCHANGED <<claim, row, untidy>> /\ CancelAtShop(s) /\ task[x].pc = "delete"
    BY <1>5, <2>1 DEF CancelDelete, At
  <2>3. \E d \in EventsOf(s)' : sent'[d].name = "cancelled" /\ claim'[d] = "none"
    BY <1>0, <2>2, EndIsTold
  <2>4. EventsOf(task[x].seen.ls)' = EventsOf(s)'
    BY <1>5, <2>1 DEF EventsOf
  <2>5. \/ task[x].seen = row
        \/ task[x].seen.ls = None /\ row.ls # None
        \/ s \notin Subs \ untidy /\ row.ls \notin Subs \ untidy
    BY <1>0, <2>1, <2>2 DEF SeenHolds, Collides, Base, Hook, HookPcs
  <2>6. Base(x)' = s
    BY <1>5, <2>1 DEF Base, Hook, HookPcs
  <2>7. s # None
    BY <1>0, SentFacts
  <2>8. QED BY <1>5, <2>1, <2>2, <2>3, <2>4, <2>5, <2>6, <2>7 DEF SeenHolds, At, Collides
<1>6. QED BY <1>0, <1>1, <1>2, <1>3, <1>4, <1>5, WatchedMoves DEF Watched, HookPcs
------------------------------------------------------------------------------
(* The row after a step *)

\* A paid row stays bought: a handler writes another subscription into it only
\* for the purchase of this one.
LEMMA RowBoughtKept ==
  ASSUME HandlerInv, \A t \in Tasks : SeenHolds(t), RowBought, [Next]_vars
  PROVE  RowBought'
<1>0. /\ TypeInv /\ Onward /\ ShopMoves /\ OneHandler /\ task \in [Tasks -> RequestType]
      /\ Trial \notin Subs /\ None \notin Subs
  BY StepsGoOn, SentFacts DEF HandlerInv, Onward
<1> SUFFICES ASSUME row'.ls \in Subs
             PROVE  \E e \in EventsOf(row.ls)' :
                      /\ sent'[e].name = "created" /\ claim'[e] # "none"
                      /\ \A t \in Tasks : task'[t].pc \in {"select", "write"} => task'[t].event # e
  BY DEF RowBought
<1>1. PICK s : s = row'.ls
  OBVIOUS
<1>2. EventsOf(row.ls)' = EventsOf(s)'
  BY <1>1 DEF EventsOf
<1>3. CASE row.ls = s
  <2>1. PICK e \in EventsOf(s) :
          /\ sent[e].name = "created" /\ claim[e] # "none"
          /\ \A t \in Tasks : task[t].pc \in {"select", "write"} => task[t].event # e
    BY <1>1, <1>3 DEF RowBought
  <2>2. e \in DOMAIN sent /\ e \in EventsOf(s)' /\ sent'[e] = sent[e] /\ claim'[e] # "none"
    BY <1>0, <2>1, EventsGrow DEF EventsOf, ShopMoves, Onward
  <2>3. ASSUME NEW t \in Tasks, task'[t].pc \in {"select", "write"}, task'[t].event = e PROVE FALSE
    <3>1. CASE task'[t] = task[t]
      BY <2>1, <2>3, <3>1
    <3>2. CASE Select(t) /\ task'[t].event = task[t].event
      BY <2>1, <2>3, <3>2 DEF Select, At
    <3>3. ASSUME NEW i \in Events, Claim(t, i), task'[t].event = i PROVE FALSE
      BY <2>1, <2>3, <3>3 DEF Claim
    <3>4. QED BY <1>0, <2>3, <3>1, <3>2, <3>3, WatchedMoves DEF Watched, HookPcs
  <2>4. QED BY <1>2, <2>1, <2>2, <2>3
<1>4. CASE row.ls # s
  <2>1. PICK t \in Tasks : Write(t) \/ CancelFlag(t) \/ (Break(t) /\ row' # row)
    <3>1. ASSUME NEW t \in Tasks, StartTrial(t) PROVE FALSE
      BY <1>0, <3>1 DEF StartTrial, TrialRow, Row
    <3>2. QED BY <1>0, <1>1, <1>4, <3>1, RowSteps
  <2>2. Write(t) /\ sent[task[t].event].name = "created" /\ s = sent[task[t].event].sub
    BY <1>0, <1>1, <1>4, <2>1, RowWritten
  <2>3. PICK e : e = task[t].event
    OBVIOUS
  <2>4. /\ Hook(t) /\ e \in DOMAIN sent /\ claim[e] = "claimed"
        /\ \A u \in Tasks \ {t} : Hook(u) => task[u].event # e
        /\ UNCHANGED <<sent, claim>>
    BY <1>0, <2>2, <2>3, RequestFacts DEF Write, At, Hook, HookPcs, OneHandler
  <2>5. task'[t].pc = "stamp" /\ \A u \in Tasks \ {t} : task'[u] = task[u]
    BY <1>0, <2>2 DEF Write, RequestType
  <2>6. \A u \in Tasks : task'[u].pc \in {"select", "write"} => task'[u].event # e
    BY <2>4, <2>5 DEF Hook, HookPcs
  <2>7. e \in EventsOf(s)'
    BY <2>2, <2>3, <2>4 DEF EventsOf
  <2>8. QED BY <1>2, <2>2, <2>3, <2>4, <2>6, <2>7
<1>5. QED BY <1>3, <1>4

\* Whoever writes over a tidy row leaves plan and seats to what was bought.
LEMMA RowIsWholeKept ==
  ASSUME HandlerInv, \A t \in Tasks : SeenHolds(t), RowIsWhole, [Next]_vars
  PROVE  RowIsWhole'
<1> DEFINE Whole(s, tier, seats) ==
      /\ Created(s, tier)
      /\ \/ seats = IF tier = "team" THEN 0 ELSE 1
         \/ tier = "team" /\ \E e \in DOMAIN sent :
              /\ sent[e].sub = s /\ claim[e] # "none"
              /\ sent[e].name = "updated" /\ sent[e].quantity = seats
<1>0. /\ TypeInv /\ Onward /\ ShopMoves /\ OneHandler /\ untidy \subseteq untidy' /\ row \in RowType
      /\ Trial \notin Subs
  BY StepsGoOn, SentFacts DEF HandlerInv, Onward, TypeInv, TypeOK
<1>1. ASSUME NEW s, NEW tier, NEW seats, Whole(s, tier, seats) PROVE Whole(s, tier, seats)'
  <2>1. Created(s, tier)'
    BY <1>0, <1>1 DEF Created, ShopMoves
  <2>2. ASSUME NEW e \in DOMAIN sent, sent[e].sub = s, claim[e] # "none",
               sent[e].name = "updated", sent[e].quantity = seats
        PROVE  \E i \in DOMAIN sent' :
                 /\ sent'[i].sub = s /\ claim'[i] # "none"
                 /\ sent'[i].name = "updated" /\ sent'[i].quantity = seats
    BY <1>0, <2>2 DEF Onward, ShopMoves
  <2>3. QED BY <1>1, <2>1, <2>2
<1>2. row.ls \in Subs \ untidy => Whole(row.ls, row.tier, row.seats)
  BY DEF RowIsWhole
<1> SUFFICES ASSUME row'.ls \in Subs \ untidy'
             PROVE  \E s, tier, seats : /\ s = row'.ls /\ tier = row'.tier /\ seats = row'.seats
                                        /\ Whole(s, tier, seats)'
  BY DEF RowIsWhole, Created
<1>3. CASE row'.ls = row.ls /\ row'.tier = row.tier /\ row'.seats = row.seats
  <2>1. Whole(row.ls, row.tier, row.seats)
    BY <1>0, <1>2, <1>3
  <2>2. PICK s, tier, seats : s = row.ls /\ tier = row.tier /\ seats = row.seats
    OBVIOUS
  <2> HIDE DEF Whole
  <2>3. Whole(s, tier, seats)
    BY <2>1, <2>2
  <2>4. Whole(s, tier, seats)'
    BY <1>1, <2>3
  <2>5. QED BY <1>3, <2>2, <2>4
<1>4. ASSUME NEW t \in Tasks, Write(t)
      PROVE  \E s, tier, seats : /\ s = row'.ls /\ tier = row'.tier /\ seats = row'.seats
                                 /\ Whole(s, tier, seats)'
  <2>1. PICK e : e = task[t].event
    OBVIOUS
  <2>2. PICK ev \in EventType : ev = sent[e] /\ e \in DOMAIN sent /\ claim[e] = "claimed"
    BY <1>0, <1>4, <2>1, RequestFacts DEF Write, At, Hook, HookPcs, OneHandler
  <2>3. UNCHANGED <<sent, claim, untidy>>
    BY <1>4 DEF Write
  <2>4. row' = Handled(ev, row) /\ row'.ls = Base(t) /\ Base(t) = ev.sub
    BY <1>0, <1>4, <2>1, <2>2, <2>3, RowWritten DEF Base, Write, At, Hook, HookPcs
  <2>5. CASE ev.name = "created"
    <3>1. row' = CreatedRow(ev)
      BY <2>4, <2>5 DEF Handled
    <3>2. /\ row'.ls = ev.sub /\ row'.tier = ev.tier
          /\ row'.seats = IF ev.tier = "team" THEN 0 ELSE 1
      BY <3>1 DEF CreatedRow, Row
    <3>3. Created(ev.sub, ev.tier)
      BY <2>2, <2>5 DEF Created
    <3>4. PICK s, tier, seats : s = ev.sub /\ tier = ev.tier /\ seats = row'.seats
      OBVIOUS
    <3>5. Whole(s, tier, seats)
      BY <3>2, <3>3, <3>4
    <3> HIDE DEF Whole
    <3>6. QED BY <1>1, <3>2, <3>4, <3>5
  <2>6. CASE ev.name # "created"
    <3>1. ev.name \in {"updated", "cancelled", "expired"}
      BY <2>6 DEF EventType
    <3>2. row'.ls = row.ls
      BY <1>0, <2>4, <2>6, HandledTyped
    <3>3. CASE ev.name = "updated" /\ row.tier = "team"
      <4>1. row' = Updated(ev, row)
        BY <2>4, <3>3 DEF Handled
      <4>2. row'.tier = "team" /\ row'.seats = ev.quantity
        BY <1>0, <3>3, <4>1 DEF Updated, RowType
      <4>3. PICK s, tier, seats : s = ev.sub /\ tier = row.tier /\ seats = row'.seats
        OBVIOUS
      <4>4. Created(s, tier)
        BY <1>0, <1>2, <2>3, <2>4, <3>2, <4>3
      <4>5. Whole(s, tier, seats)
        BY <2>2, <3>3, <4>2, <4>3, <4>4
      <4> HIDE DEF Whole
      <4>6. QED BY <1>1, <2>4, <3>3, <4>2, <4>3, <4>5
    <3>4. CASE ~(ev.name = "updated" /\ row.tier = "team")
      <4>1. row'.tier = row.tier /\ row'.seats = row.seats
        <5>1. \/ row' = Updated(ev, row) /\ row.tier # "team"
              \/ row' = [row EXCEPT !.status = "cancelled", !.cancel = TRUE]
              \/ row' = [row EXCEPT !.status = "expired"]
          BY <2>4, <3>1, <3>4 DEF Handled
        <5>2. QED BY <1>0, <5>1 DEF Updated, RowType
      <4>2. QED BY <1>3, <3>2, <4>1
    <3>5. QED BY <3>3, <3>4
  <2>7. QED BY <2>5, <2>6
<1>5. ASSUME NEW t \in Tasks, CancelFlag(t) \/ (Break(t) /\ row' # row)
      PROVE  row'.ls = row.ls /\ row'.tier = row.tier /\ row'.seats = row.seats
  <2>1. ~Write(t)
    <3>1. task'[t].pc = "idle"
      BY <1>0, <1>5, DoneTask, IdleTyped DEF CancelFlag, Break
    <3>2. QED BY <1>0, <3>1 DEF Write, TypeInv, TypeOK, RequestType
  <2>2. QED BY <1>0, <1>5, <2>1, RowWritten
<1>6. ASSUME NEW t \in Tasks, StartTrial(t) PROVE FALSE
  BY <1>0, <1>6 DEF StartTrial, TrialRow, Row
<1>7. QED BY <1>0, <1>3, <1>4, <1>5, <1>6, RowSteps
------------------------------------------------------------------------------
(* The events that were applied to the row *)

\* An event that is lost stays lost.
LEMMA LostStays ==
  ASSUME HandlerInv, [Next]_vars, NEW e \in DOMAIN sent, Lost(e)
  PROVE  Lost(e)'
<1>0. /\ TypeInv /\ claim[e] = "claimed" /\ \A t \in Tasks : Hook(t) => task[t].event # e
      /\ task \in [Tasks -> RequestType] /\ claim \in [Events -> {"none", "claimed", "processed"}]
  BY DEF HandlerInv, Lost, TypeInv, TypeOK
<1>1. CASE HandlersKept
  BY <1>0, <1>1 DEF HandlersKept, Lost
<1>2. ASSUME NEW t \in Tasks, NEW i \in Events, Claim(t, i) PROVE Lost(e)'
  <2>1. i # e /\ claim' = [claim EXCEPT ![i] = "claimed"]
        /\ task' = [task EXCEPT ![t] = Request("select", i, NoRow, None, 0, TRUE)]
    BY <1>0, <1>2 DEF Claim
  <2>2. claim'[e] = "claimed"
    BY <1>0, <2>1
  <2>3. task'[t].event = i /\ \A u \in Tasks \ {t} : task'[u] = task[u]
    BY <1>0, <2>1 DEF Request
  <2>4. QED BY <1>0, <2>1, <2>2, <2>3 DEF Lost, Hook
<1>3. ASSUME NEW t \in Tasks, Stamp(t) PROVE Lost(e)'
  <2>1. task[t].event # e /\ claim' = [claim EXCEPT ![task[t].event] = "processed"] /\ Done(t)
    BY <1>0, <1>3 DEF Stamp, At, Hook, HookPcs
  <2>2. claim'[e] = "claimed"
    BY <1>0, <2>1
  <2>3. ~Hook(t)' /\ \A u \in Tasks \ {t} : task'[u] = task[u]
    BY <1>0, <2>1, DoneTask, IdleTyped DEF Hook
  <2>4. QED BY <1>0, <2>2, <2>3 DEF Lost, Hook
<1>4. QED BY <1>0, <1>1, <1>2, <1>3, HandlerSteps

\* An event that was applied stays so, or its request breaks off before it is
\* stamped.
LEMMA AppliedStays ==
  ASSUME HandlerInv, [Next]_vars, NEW e \in DOMAIN sent, Applied(e)
  PROVE  Applied(e)' \/ Lost(e)'
<1>0. /\ TypeInv /\ OneHandler /\ Onward
      /\ task \in [Tasks -> RequestType] /\ claim \in [Events -> {"none", "claimed", "processed"}]
      /\ e \in Events
  BY StepsGoOn, SentFacts DEF HandlerInv, TypeInv, TypeOK
<1>1. CASE claim[e] = "processed"
  BY <1>0, <1>1 DEF Onward, Applied
<1>2. ASSUME NEW t \in Tasks, At(t, "stamp"), task[t].event = e PROVE Applied(e)' \/ Lost(e)'
  <2>1. /\ Hook(t) /\ claim[e] = "claimed" /\ task[t].pc \in Watched
        /\ \A u \in Tasks \ {t} : Hook(u) => task[u].event # e
    BY <1>0, <1>2 DEF At, Hook, HookPcs, Watched, OneHandler
  <2>2. CASE task'[t] = task[t]
    BY <1>2, <2>2 DEF Applied, At
  <2>3. CASE Stamp(t)
    BY <1>0, <1>2, <2>3 DEF Stamp, Applied
  <2>4. CASE Break(t)
    <3>1. ~Hook(t)' /\ UNCHANGED claim /\ \A u \in Tasks \ {t} : task'[u] = task[u]
      BY <1>0, <2>4, DoneTask, IdleTyped DEF Break, Hook
    <3>2. QED BY <2>1, <3>1 DEF Lost, Hook
  <2>5. Webhook(t) => Stamp(t)
    BY <1>2 DEF Webhook, Claim, Select, Write, At
  <2>6. ~Account(t)
    BY <1>2 DEF Account, Verify, StartTrial, Cancel, CancelDelete, CancelFlag, At
  <2>7. QED BY <1>0, <2>1, <2>2, <2>3, <2>4, <2>5, <2>6, WatchedSteps
<1>3. QED BY <1>1, <1>2 DEF Applied

\* An event is applied by the handler that writes, or that finds nothing to do.
LEMMA AppliedBefore ==
  ASSUME HandlerInv, [Next]_vars, NEW e \in DOMAIN sent', Applied(e)'
  PROVE  /\ e \in DOMAIN sent
         /\ \/ Applied(e)
            \/ \E t \in Tasks :
                 /\ task[t].event = e
                 /\ \/ Write(t)
                    \/ Select(t) /\ (sent[e].name = "created") = (row.ls = sent[e].sub)
<1>0. /\ TypeInv /\ OneHandler /\ Onward /\ ShopMoves
      /\ claim \in [Events -> {"none", "claimed", "processed"}]
  BY StepsGoOn, SentFacts DEF HandlerInv, Onward
<1>1. CASE claim'[e] = "processed"
  <2>1. e \in DOMAIN sent /\ e \in Events
    BY <1>0, <1>1, SentFacts DEF Onward
  <2>2. CASE claim[e] = "processed"
    BY <2>1, <2>2 DEF Applied
  <2>3. CASE claim[e] # "processed"
    <3>1. PICK t \in Tasks : Stamp(t)
      BY <1>0, <1>1, <2>1, <2>3, HandlerSteps DEF HandlersKept, Claim
    <3>2. task[t].event = e /\ At(t, "stamp")
      BY <1>0, <1>1, <2>1, <2>3, <3>1 DEF Stamp
    <3>3. QED BY <2>1, <3>2 DEF Applied
  <2>4. QED BY <2>2, <2>3
<1>2. ASSUME NEW t \in Tasks, task'[t].pc = "stamp", task'[t].event = e
      PROVE  /\ e \in DOMAIN sent
             /\ \/ Applied(e)
                \/ /\ task[t].event = e
                   /\ \/ Write(t)
                      \/ Select(t) /\ (sent[e].name = "created") = (row.ls = sent[e].sub)
  <2>1. CASE task'[t] = task[t]
    <3>1. Hook(t) /\ At(t, "stamp") /\ task[t].event = e
      BY <1>2, <2>1 DEF Hook, HookPcs, At
    <3>2. QED BY <1>0, <3>1, RequestFacts DEF Applied
  <2>2. CASE /\ Select(t) /\ task'[t].event = task[t].event
             /\ (sent[task[t].event].name = "created") = (row.ls = sent[task[t].event].sub)
    <3>1. Hook(t)
      BY <2>2 DEF Select, At, Hook, HookPcs
    <3>2. QED BY <1>0, <1>2, <2>2, <3>1, RequestFacts
  <2>3. CASE Write(t) /\ task'[t].event = task[t].event
    <3>1. Hook(t)
      BY <2>3 DEF Write, At, Hook, HookPcs
    <3>2. task[t].event \in DOMAIN sent
      BY <1>0, <3>1, RequestFacts
    <3>3. task[t].event = e
      BY <1>2, <2>3
    <3>4. e \in DOMAIN sent
      BY <3>2, <3>3
    <3>5. QED BY <2>3, <3>3, <3>4
  <2>4. QED BY <1>0, <1>2, <2>1, <2>2, <2>3, WatchedMoves DEF Watched, HookPcs
<1>3. QED BY <1>1, <1>2 DEF Applied, At

\* In a tidy subscription no event is claimed after one that is not processed.
LEMMA NoneBeyond ==
  ASSUME HandlerInv, InOrder, NEW s \in Subs \ untidy, NEW e \in EventsOf(s), NEW i \in EventsOf(s),
         claim[e] # "processed", claim[i] # "none"
  PROVE  i <= e
<1>0. /\ TypeInv /\ e \in DOMAIN sent /\ i \in DOMAIN sent /\ sent[e].sub = s /\ sent[i].sub = s
  BY DEF HandlerInv, EventsOf
<1>1. e \notin Earlier(i)
  BY <1>0 DEF InOrder
<1>2. ~(e < i) /\ e \in Nat /\ i \in Nat
  BY <1>0, <1>1, SentFacts
<1>3. QED BY <1>2

LEMMA AppliedClaimed ==
  ASSUME HandlerInv, NEW e \in DOMAIN sent, Applied(e)
  PROVE  claim[e] # "none"
BY DEF Applied, HandlerInv, OneHandler, Hook, HookPcs, At
\* The event that the row of a tidy subscription says.
Newest(e) ==
  /\ e \in EventsOf(row.ls) /\ Applied(e) /\ Reflects(e)
  /\ \A i \in EventsOf(row.ls) : Applied(i) => i <= e

\* The row stays, so it says what it said.
LEMMA FollowsUnwritten ==
  ASSUME HandlerInv, RowBought, ShopTells, [Next]_vars,
         UNCHANGED row, \A t \in Tasks : ~Write(t), NEW s \in Subs, s = row.ls,
         \A i \in EventsOf(s) : ~Lost(i)', NEW e, Newest(e)
  PROVE  Newest(e)'
<1>0. /\ TypeInv /\ ShopMoves /\ Onward /\ e \in DOMAIN sent
      /\ e \in EventsOf(s) /\ Applied(e) /\ Reflects(e)
      /\ \A i \in EventsOf(s) : Applied(i) => i <= e
  BY StepsGoOn DEF HandlerInv, Onward, Newest, EventsOf
<1>1. EventsOf(row.ls)' = EventsOf(s)' /\ EventsOf(row.ls) = EventsOf(s)
  BY DEF EventsOf
<1>2. e \in EventsOf(s)' /\ sent'[e] = sent[e] /\ Applied(e)'
  BY <1>0, EventsGrow, AppliedStays DEF ShopMoves
<1>3. ASSUME NEW i \in EventsOf(s)', Applied(i)' PROVE i \in EventsOf(s) /\ Applied(i)
  <2>1. i \in DOMAIN sent' /\ i \in DOMAIN sent /\ i \in EventsOf(s) /\ sent[i].sub = s
    BY <1>0, <1>3, AppliedBefore, EventsGrow DEF EventsOf
  <2>2. ASSUME NEW t \in Tasks, task[t].event = i, Select(t),
               (sent[i].name = "created") = (row.ls = sent[i].sub)
        PROVE  FALSE
    <3>1. sent[i].name = "created"
      BY <2>1, <2>2
    <3>2. PICK b \in EventsOf(s) :
            /\ sent[b].name = "created"
            /\ \A u \in Tasks : task[u].pc \in {"select", "write"} => task[u].event # b
      BY DEF RowBought
    <3>3. b # i
      BY <2>2, <3>2 DEF Select, At
    <3>4. /\ b \in DOMAIN sent /\ sent[b].sub = s /\ b \in Nat /\ i \in Nat
          /\ Earlier(b) = {} /\ Earlier(i) = {}
      BY <1>0, <2>1, <3>1, <3>2, SentFacts DEF ShopTells, EventsOf
    <3>5. ~(b < i) /\ ~(i < b)
      BY <1>0, <2>1, <3>4, SentFacts
    <3>6. QED BY <3>3, <3>4, <3>5
  <2>3. QED BY <1>3, <2>1, <2>2, AppliedBefore
<1>4. Reflects(e)'
  <2>1. row'.status = StatusOf(sent'[e].status)
    BY <1>0, <1>2 DEF Reflects
  <2>2. CASE row.cancel = sent[e].cancelled
    BY <1>2, <2>1, <2>2 DEF Reflects
  <2>3. ASSUME NEW d \in EventsOf(s), d > e, sent[d].name = "cancelled", claim[d] # "processed"
        PROVE  Reflects(e)'
    <3>1. d \in DOMAIN sent /\ d \in EventsOf(s)' /\ sent'[d] = sent[d] /\ d \in DOMAIN sent'
      BY <1>0, <2>3, EventsGrow DEF EventsOf, ShopMoves
    <3>2. claim'[d] # "processed"
      <4>1. ASSUME claim'[d] = "processed" PROVE Applied(d)'
        BY <4>1 DEF Applied
      <4>2. ASSUME Applied(d)' PROVE FALSE
        <5>1. Applied(d)
          BY <1>3, <3>1, <4>2
        <5>2. d <= e /\ d \in Nat /\ e \in Nat
          BY <1>0, <2>3, <3>1, <5>1, SentFacts
        <5>3. QED BY <2>3, <5>2
      <4>3. QED BY <4>1, <4>2
    <3>3. QED BY <1>1, <2>1, <2>3, <3>1, <3>2 DEF Reflects
  <2>4. QED BY <1>0, <1>1, <2>2, <2>3 DEF Reflects
<1>5. QED BY <1>0, <1>1, <1>2, <1>3, <1>4 DEF Newest

\* A handler of the row's subscription has written: the row says its event.
LEMMA FollowsHandler ==
  ASSUME HandlerInv, InOrder, ShopTells, RowFollows, [Next]_vars,
         NEW t \in Tasks, Write(t), SeenHolds(t), row'.ls \in Subs \ untidy',
         \A i \in EventsOf(row'.ls) : ~Lost(i)'
  PROVE  \E e : Newest(e)'
<1>1. PICK e : e = task[t].event
  OBVIOUS
<1>2. PICK s : s = row'.ls
  OBVIOUS
<1>3. /\ TypeInv /\ OneHandler /\ Hook(t) /\ At(t, "write") /\ e \in DOMAIN sent /\ claim[e] = "claimed"
      /\ UNCHANGED <<sent, claim, untidy>> /\ row \in RowType
  BY <1>1, RequestFacts DEF HandlerInv, OneHandler, Write, At, Hook, HookPcs
<1>4. PICK ev \in EventType : ev = sent[e]
  BY <1>3, SentFacts
<1>5. row' = Handled(ev, row) /\ s = ev.sub /\ s \in Subs \ untidy
  BY <1>1, <1>2, <1>3, <1>4, RowWritten DEF Base
<1>6. EventsOf(row.ls)' = EventsOf(s) /\ e \in EventsOf(s)
  BY <1>2, <1>3, <1>4, <1>5 DEF EventsOf
<1>7. /\ task'[t].pc = "stamp" /\ task'[t].event = e
      /\ \A u \in Tasks \ {t} : task'[u] = task[u]
  BY <1>1, <1>3 DEF Write, RequestType, TypeInv, TypeOK
<1>8. Applied(e)'
  BY <1>7 DEF Applied, At
<1>9. ASSUME NEW i \in EventsOf(s), Applied(i)' PROVE i <= e
  <2>1. claim[i] # "none"
    <3>1. CASE claim'[i] = "processed"
      BY <1>3, <3>1
    <3>2. ASSUME NEW u \in Tasks, At(u, "stamp")', task'[u].event = i PROVE claim[i] # "none"
      BY <1>3, <1>7, <3>2 DEF At, OneHandler, Hook, HookPcs
    <3>3. QED BY <1>9, <3>1, <3>2 DEF Applied
  <2>2. QED BY <1>3, <1>5, <1>6, <2>1, NoneBeyond
<1>10. Reflects(e)'
  <2>1. /\ ev.name \in {"created", "updated", "cancelled", "expired"}
        /\ ev.name = "cancelled" => ev.status = "cancelled" /\ ev.cancelled = TRUE
        /\ ev.name = "expired" => ev.status = "expired"
    BY <1>3, <1>4 DEF ShopTells, EventType
  <2>2. CASE ev.name = "created"
    <3>1. row' = CreatedRow(ev)
      BY <1>5, <2>2 DEF Handled
    <3>2. row'.status = StatusOf(ev.status) /\ row'.cancel = ev.cancelled
      BY <3>1 DEF CreatedRow, Row
    <3>3. QED BY <1>3, <1>4, <3>2 DEF Reflects
  <2>3. CASE ev.name = "updated"
    <3>1. row' = Updated(ev, row)
      BY <1>5, <2>3 DEF Handled
    <3>2. row'.status = StatusOf(ev.status) /\ row'.cancel = ev.cancelled
      BY <1>3, <3>1 DEF Updated, RowType
    <3>3. QED BY <1>3, <1>4, <3>2 DEF Reflects
  <2>4. CASE ev.name = "cancelled"
    <3>1. row' = [row EXCEPT !.status = "cancelled", !.cancel = TRUE]
      BY <1>5, <2>4 DEF Handled
    <3>2. row'.status = "cancelled" /\ row'.cancel = TRUE
      BY <1>3, <3>1 DEF RowType
    <3>3. StatusOf("cancelled") = "cancelled"
      BY DEF StatusOf
    <3>4. QED BY <1>3, <1>4, <2>1, <2>4, <3>2, <3>3 DEF Reflects
  <2>5. CASE ev.name = "expired"
    <3>1. row' = [row EXCEPT !.status = "expired"]
      BY <1>5, <2>5 DEF Handled
    <3>2. row'.status = "expired" /\ row'.cancel = row.cancel /\ row'.ls = row.ls
      BY <1>3, <3>1 DEF RowType
    <3>3. StatusOf("expired") = "expired"
      BY DEF StatusOf
    <3>4. \A i \in EventsOf(s) : ~Lost(i)
      <4>1. ASSUME NEW i \in EventsOf(s), Lost(i) PROVE FALSE
        <5>1. i \in DOMAIN sent
          BY <4>1 DEF EventsOf
        <5>2. Lost(i)'
          BY <4>1, <5>1, LostStays
        <5>3. QED BY <1>2, <4>1, <5>2
      <4>2. QED BY <4>1
    <3>5. PICK p \in EventsOf(s) :
            Applied(p) /\ Reflects(p) /\ \A i \in EventsOf(s) : Applied(i) => i <= p
      BY <1>2, <1>5, <3>2, <3>4 DEF RowFollows
    <3>6. p \in DOMAIN sent /\ sent[p].sub = s /\ p \in Nat /\ e \in Nat /\ claim[p] # "none"
      BY <1>3, <3>5, SentFacts, AppliedClaimed DEF EventsOf
    <3>7. p # e
      BY <1>1, <1>3, <3>5 DEF Applied, At, OneHandler, Hook, HookPcs
    <3>8. p <= e
      BY <1>3, <1>5, <1>6, <3>6, NoneBeyond
    <3>9. p \in Earlier(e) /\ \A i \in Earlier(e) : i \in EventsOf(s) /\ claim[i] = "processed"
      <4>1. Earlier(e) = {i \in DOMAIN sent : i < e /\ sent[i].sub = sent[e].sub}
        BY <1>3, SentFacts
      <4>2. \A i \in Earlier(e) : claim[i] = "processed"
        BY <1>3, <1>4, <1>5 DEF InOrder
      <4>3. p < e
        BY <3>6, <3>7, <3>8
      <4>4. QED BY <1>4, <1>5, <3>6, <4>1, <4>2, <4>3 DEF EventsOf
    <3>10. \A i \in Earlier(e) : i <= p
      BY <3>5, <3>9 DEF Applied
    <3>11. sent[p].cancelled = ev.cancelled
      BY <1>3, <1>4, <2>5, <3>9, <3>10 DEF ShopTells
    <3>12. CASE row.cancel = sent[p].cancelled
      BY <1>3, <1>4, <2>1, <2>5, <3>2, <3>3, <3>11, <3>12 DEF Reflects
    <3>13. ASSUME NEW d \in EventsOf(s), d > p, sent[d].name = "cancelled", claim[d] # "processed"
           PROVE  d > e
      <4>1. d \in DOMAIN sent /\ sent[d].sub = s /\ d \in Nat /\ d # e
        BY <1>3, <1>4, <2>5, <3>13, SentFacts DEF EventsOf
      <4>2. d \notin Earlier(e)
        BY <3>9, <3>13
      <4>3. ~(d < e)
        BY <1>3, <1>4, <1>5, <4>1, <4>2, SentFacts
      <4>4. QED BY <3>6, <4>1, <4>3
    <3>14. \/ row.cancel = sent[p].cancelled
           \/ \E d \in EventsOf(s) : d > p /\ sent[d].name = "cancelled" /\ claim[d] # "processed"
      BY <1>2, <3>2, <3>5 DEF Reflects
    <3>15. QED BY <1>3, <1>4, <1>6, <2>1, <2>5, <3>2, <3>3, <3>12, <3>13, <3>14 DEF Reflects
  <2>6. QED BY <2>1, <2>2, <2>3, <2>4, <2>5
<1>11. QED BY <1>6, <1>8, <1>9, <1>10 DEF Newest
\* The cancellation endpoint has set the flag: the event that tells of it is
\* still to come.
LEMMA FollowsFlag ==
  ASSUME HandlerInv, InOrder, RowFollows, [Next]_vars,
         NEW t \in Tasks, CancelFlag(t), SeenHolds(t), row'.ls \in Subs \ untidy',
         \A i \in EventsOf(row'.ls) : ~Lost(i)'
  PROVE  \E e : Newest(e)'
<1>1. PICK s : s = row'.ls
  OBVIOUS
<1>2. /\ TypeInv /\ At(t, "flag") /\ UNCHANGED <<sent, claim, untidy>> /\ row \in RowType
      /\ \A u \in Tasks \ {t} : task'[u] = task[u]
  BY DoneTask DEF HandlerInv, TypeInv, TypeOK, CancelFlag
<1>3. s = Base(t) /\ task[t].seen = row /\ row' = [row EXCEPT !.cancel = TRUE]
  BY <1>1, <1>2, RowWritten
<1>4. s = row.ls /\ row'.status = row.status /\ s \in Subs \ untidy /\ s = task[t].seen.ls
  BY <1>1, <1>2, <1>3 DEF RowType
<1>5. EventsOf(row.ls)' = EventsOf(s) /\ EventsOf(row.ls) = EventsOf(s)
  BY <1>1, <1>2, <1>4 DEF EventsOf
<1>6. PICK d \in EventsOf(s) : sent[d].name = "cancelled" /\ claim[d] = "none"
  BY <1>2, <1>4 DEF SeenHolds
<1>7. \A i \in EventsOf(s) : ~Lost(i)
  <2>1. ASSUME NEW i \in EventsOf(s), Lost(i) PROVE FALSE
    <3>1. i \in DOMAIN sent
      BY <2>1 DEF EventsOf
    <3>2. Lost(i)'
      BY <2>1, <3>1, LostStays
    <3>3. QED BY <1>1, <2>1, <3>2
  <2>2. QED BY <2>1
<1>8. PICK e \in EventsOf(s) :
        Applied(e) /\ Reflects(e) /\ \A i \in EventsOf(s) : Applied(i) => i <= e
  BY <1>4, <1>7 DEF RowFollows
<1>9. \A i : Applied(i)' <=> Applied(i)
  <2>1. task'[t].pc = "idle"
    BY <1>2, DoneTask, IdleTyped DEF CancelFlag
  <2>2. \A u \in Tasks : At(u, "stamp")' <=> At(u, "stamp")
    BY <1>2, <2>1 DEF At
  <2>3. \A u \in Tasks : At(u, "stamp") => task'[u].event = task[u].event
    BY <1>2 DEF At
  <2>4. QED BY <1>2, <2>2, <2>3 DEF Applied
<1>10. d > e
  <2>1. e \in DOMAIN sent /\ d \in DOMAIN sent /\ e \in Nat /\ d \in Nat /\ claim[e] # "none"
    BY <1>2, <1>6, <1>8, SentFacts, AppliedClaimed DEF EventsOf
  <2>2. e <= d
    BY <1>4, <1>6, <1>8, <2>1, NoneBeyond
  <2>3. e # d
    BY <1>6, <2>1
  <2>4. QED BY <2>1, <2>2, <2>3
<1>11. Reflects(e)'
  <2>1. row.status = StatusOf(sent[e].status)
    BY <1>8 DEF Reflects
  <2>2. row'.status = StatusOf(sent'[e].status)
    BY <1>2, <1>4, <2>1
  <2>3. d \in EventsOf(row.ls)' /\ d > e /\ sent'[d].name = "cancelled" /\ claim'[d] # "processed"
    BY <1>2, <1>5, <1>6, <1>10
  <2>4. QED BY <2>2, <2>3 DEF Reflects
<1>12. QED BY <1>5, <1>8, <1>9, <1>11 DEF Newest

\* The row says what the last event said that was applied to it.
LEMMA RowFollowsKept ==
  ASSUME HandlerInv, TidyInv, [Next]_vars
  PROVE  RowFollows'
<1>0. /\ TypeInv /\ OneHandler /\ ShopTells /\ InOrder /\ RowBought /\ RowFollows
      /\ \A t \in Tasks : SeenHolds(t)
      /\ Onward /\ ShopMoves /\ untidy \subseteq untidy' /\ Trial \notin Subs
      /\ task \in [Tasks -> RequestType] /\ row \in RowType
  BY StepsGoOn, SentFacts DEF HandlerInv, TidyInv, Onward, TypeInv, TypeOK
<1> SUFFICES ASSUME row'.ls \in Subs \ untidy', \A e \in EventsOf(row.ls)' : ~Lost(e)'
             PROVE  \E e : Newest(e)'
  BY DEF RowFollows, Newest
<1>1. PICK s : s = row'.ls
  OBVIOUS
<1>2. \A i \in EventsOf(s) : ~Lost(i)'
  <2>1. EventsOf(row.ls)' = EventsOf(s)'
    BY <1>1 DEF EventsOf
  <2>2. QED BY <1>0, <2>1, EventsGrow
<1>3. CASE UNCHANGED row /\ \A t \in Tasks : ~Write(t)
  <2>1. \A i \in EventsOf(s) : ~Lost(i)
    <3>1. ASSUME NEW i \in EventsOf(s), Lost(i) PROVE FALSE
      <4>1. i \in DOMAIN sent
        BY <3>1 DEF EventsOf
      <4>2. Lost(i)'
        BY <3>1, <4>1, LostStays
      <4>3. QED BY <1>2, <3>1, <4>2
    <3>2. QED BY <3>1
  <2>2. s = row.ls /\ s \in Subs \ untidy
    BY <1>0, <1>1, <1>3
  <2>3. PICK e : Newest(e)
    BY <1>0, <2>1, <2>2 DEF RowFollows, Newest
  <2>4. Newest(e)'
    BY <1>0, <1>2, <1>3, <2>2, <2>3, FollowsUnwritten
  <2>5. QED BY <2>4
<1>4. ASSUME NEW t \in Tasks, Write(t) PROVE \E e : Newest(e)'
  BY <1>0, <1>1, <1>2, <1>4, FollowsHandler
<1>5. ASSUME NEW t \in Tasks, CancelFlag(t) PROVE \E e : Newest(e)'
  BY <1>0, <1>1, <1>2, <1>5, FollowsFlag
<1>6. ASSUME NEW t \in Tasks, Break(t), row' # row PROVE FALSE
  <2>1. PICK e : e = task[t].event
    OBVIOUS
  <2>2. /\ Hook(t) /\ At(t, "write") /\ e \in DOMAIN sent /\ claim[e] = "claimed"
        /\ \A u \in Tasks \ {t} : Hook(u) => task[u].event # e
    BY <1>0, <1>6, <2>1, RequestFacts DEF Break, HalfHandled, OneHandler
  <2>3. s = Base(t) /\ s = sent[e].sub
    BY <1>0, <1>1, <1>6, <2>1, <2>2, RowWritten DEF Base
  <2>4. ~Hook(t)' /\ UNCHANGED claim /\ \A u \in Tasks \ {t} : task'[u] = task[u]
    BY <1>0, <1>6, DoneTask, IdleTyped DEF Break, Hook
  <2>5. Lost(e)'
    BY <2>2, <2>4 DEF Lost, Hook
  <2>6. e \in EventsOf(s)
    BY <2>2, <2>3 DEF EventsOf
  <2>7. QED BY <1>2, <2>5, <2>6
<1>7. ASSUME NEW t \in Tasks, StartTrial(t) PROVE FALSE
  BY <1>0, <1>7 DEF StartTrial, TrialRow, Row
<1>8. QED BY <1>0, <1>3, <1>4, <1>5, <1>6, <1>7, RowSteps

LEMMA TidyStep ==
  ASSUME HandlerInv, TidyInv, [Next]_vars
  PROVE  HandlerInv' /\ TidyInv'
<1>1. HandlerInv'
  BY HandlerStep
<1>2. /\ TypeInv /\ ShopTells /\ InOrder /\ WritersMeet /\ RowBought /\ RowIsWhole
      /\ \A t \in Tasks : SeenHolds(t)
  BY DEF HandlerInv, TidyInv
<1>3. ShopTells' /\ InOrder' /\ WritersMeet' /\ RowBought' /\ RowIsWhole' /\ RowFollows'
  BY <1>2, ShopTellsKept, InOrderKept, WritersMeetKept, RowBoughtKept, RowIsWholeKept,
     RowFollowsKept
<1>4. \A t \in Tasks : SeenHolds(t)'
  BY <1>2, SeenKept
<1>5. QED BY <1>1, <1>3, <1>4 DEF TidyInv

LEMMA TidyInit ==
  ASSUME Init PROVE HandlerInv /\ TidyInv
<1>1. HandlerInv
  BY HandlerInit
<1>2. /\ DOMAIN sent = {} /\ row.ls = None /\ None \notin Subs
      /\ \A s \in Subs : sold[s].status = "none"
      /\ \A t \in Tasks : task[t] = Idle /\ Idle.pc = "idle"
  BY IdleTyped, BillingAssumption DEF Init, NoRow, Row
<1>3. ShopTells /\ InOrder
  BY <1>2 DEF ShopTells, InOrder, EventsOf
<1>4. WritersMeet /\ \A t \in Tasks : SeenHolds(t)
  BY <1>2 DEF WritersMeet, Writers, SeenHolds, At
<1>5. RowBought /\ RowIsWhole /\ RowFollows
  BY <1>2 DEF RowBought, RowIsWhole, RowFollows
<1>6. QED BY <1>1, <1>3, <1>4, <1>5 DEF TidyInv

\* RowIsWhole is an invariant.
THEOREM RowOfOnePiece == Spec => []RowIsWhole
<1>1. Init => HandlerInv /\ TidyInv
  BY TidyInit
<1>2. HandlerInv /\ TidyInv /\ [Next]_vars => HandlerInv' /\ TidyInv'
  BY TidyStep
<1>3. HandlerInv /\ TidyInv => RowIsWhole
  BY DEF TidyInv
<1>4. QED BY <1>1, <1>2, <1>3, PTL DEF Spec

\* Once every event of a tidy subscription is processed, the last of all is the
\* one that the row says.
LEMMA AllProcessed ==
  ASSUME HandlerInv, TidyInv
  PROVE  InSync
<1>0. TypeInv /\ ShopTells /\ RowFollows
  BY DEF HandlerInv, TidyInv
<1> SUFFICES ASSUME row.ls \in Subs \ untidy,
                    \A i \in DOMAIN sent : sent[i].sub = row.ls => claim[i] = "processed"
             PROVE  /\ row.status = StatusOf(sold[row.ls].status)
                    /\ row.cancel = sold[row.ls].cancelled
  BY DEF InSync
<1>1. \A i \in EventsOf(row.ls) : claim[i] = "processed" /\ Applied(i) /\ ~Lost(i)
  BY DEF EventsOf, Applied, Lost
<1>2. PICK e \in EventsOf(row.ls) : Reflects(e) /\ \A i \in EventsOf(row.ls) : i <= e
  BY <1>0, <1>1 DEF RowFollows
<1>3. e \in DOMAIN sent /\ sent[e].sub = row.ls
  BY <1>2 DEF EventsOf
<1>4. sold[row.ls].status = sent[e].status /\ sold[row.ls].cancelled = sent[e].cancelled
  BY <1>0, <1>2, <1>3 DEF ShopTells
<1>5. row.status = StatusOf(sent[e].status) /\ row.cancel = sent[e].cancelled
  BY <1>1, <1>2 DEF Reflects
<1>6. QED BY <1>4, <1>5

\* InSync is an invariant.
THEOREM FollowsTheShop == Spec => []InSync
<1>1. Init => HandlerInv /\ TidyInv
  BY TidyInit
<1>2. HandlerInv /\ TidyInv /\ [Next]_vars => HandlerInv' /\ TidyInv'
  BY TidyStep
<1>3. HandlerInv /\ TidyInv => InSync
  BY AllProcessed
<1>4. QED BY <1>1, <1>2, <1>3, PTL DEF Spec
==============================================================================
