------------------------- MODULE SubscriptionBilling -------------------------
(* The subscription of one organization: its row in the database, the webhook *)
(* that keeps the row up with LemonSqueezy, the endpoints that start, cancel  *)
(* and try a subscription, and the members whose seats are billed. Requests   *)
(* interleave at every await that suspends; one of them may break off there,  *)
(* by an exception, a failed query or a crash of the process. LemonSqueezy    *)
(* is external: it sells, reports every change in an event, delivers an event *)
(* as often as it likes until it is answered with 2xx, and in any order.      *)
EXTENDS Naturals, FiniteSetsExt, SequencesExt

CONSTANTS
  Subs,      \* subscriptions LemonSqueezy may sell to the organization
  Users,     \* people other than the owner
  Reported,  \* the statuses, in LemonSqueezy's words, of a subscription that runs
  Trial,     \* the made-up id of a trial, which LemonSqueezy does not know
  None,
  Tasks,     \* bound: requests handled at the same time
  MaxEvents, \* bound: changes at LemonSqueezy
  MaxBroken  \* bound: events whose handler breaks off

ASSUME BillingAssumption ==
  /\ IsFiniteSet(Users) /\ None \notin Users
  /\ Trial \notin Subs /\ None \notin Subs \cup {Trial}
  /\ Reported \subseteq {"on_trial", "active", "past_due", "unpaid", "paused"}
  /\ "active" \in Reported
  /\ MaxEvents \in Nat /\ MaxBroken \in Nat

Tiers == {"individual", "team"}
Statuses == {"trialing", "active", "past_due", "cancelled", "expired"}
Events == 1..MaxEvents

VARIABLES
  sold,    \* LemonSqueezy: what it knows of every subscription
  sent,    \* LemonSqueezy: the events, in the order of the changes
  acked,   \* the events answered with 2xx, if the answer arrives
  claim,   \* lemonsqueezy_webhook_events: no row, processed_at NULL, processed_at set
  row,     \* the row of subscriptions, with ls = None when there is none
  members, \* organization_members, without the owner
  task,    \* the requests
  broken,  \* for the properties: events whose handler broke off
  untidy   \* for the properties: subscriptions whose events met each other

vars == <<sold, sent, acked, claim, row, members, task, broken, untidy>>

Row(ls, tier, status, cancel, seats) ==
  [ls |-> ls, tier |-> tier, status |-> status, cancel |-> cancel, seats |-> seats]

NoRow == Row(None, "team", "expired", FALSE, 0)
TrialRow == Row(Trial, "team", "trialing", FALSE, 0)

\* A request: where it is, the event of a webhook, the row it has read, the user
\* that joins or leaves, the members it counted, and, for the properties, whether
\* no other request changed members or seats while it ran.
Request(pc, event, seen, user, count, alone) ==
  [pc |-> pc, event |-> event, seen |-> seen, user |-> user, count |-> count,
   alone |-> alone]

Idle == Request("idle", 0, NoRow, None, 0, TRUE)

HookPcs == {"select", "write", "stamp"}
SeatPcs == {"count", "buy", "join", "recount", "refund"}
Pcs == {"idle", "trial", "delete", "flag"} \cup HookPcs \cup SeatPcs

At(t, pc) == task[t].pc = pc
Hook(t) == task[t].pc \in HookPcs
Move(t, pc) == task' = [task EXCEPT ![t].pc = pc]
Done(t) == task' = [task EXCEPT ![t] = Idle]

Seats(M) == Cardinality(M) + 1

\* What UPDATE leaves in row: the ORM names only the columns in which new
\* differs from the row the request has read.
Written(seen, new) ==
  [f \in DOMAIN row |-> IF new[f] # seen[f] THEN new[f] ELSE row[f]]
------------------------------------------------------------------------------
(* LemonSqueezy *)

Known == [status : Reported \cup {"none", "offered", "cancelled", "expired"},
          tier : Tiers, cancelled : BOOLEAN, quantity : Nat]

EventOf(name, s, x) ==
  [name |-> name, sub |-> s, status |-> x.status, tier |-> x.tier,
   cancelled |-> x.cancelled, quantity |-> x.quantity]

\* Subscription s becomes x, and an event says so.
Change(s, x, name) ==
  /\ Len(sent) < MaxEvents
  /\ sold' = [sold EXCEPT ![s] = x]
  /\ sent' = Append(sent, EventOf(name, s, x))

Runs(s) == sold[s].status \in Reported

\* Somebody pays in a checkout that was opened, for the plan it offers.
Purchase(s) ==
  /\ sold[s].status = "offered"
  /\ \E tier \in Tiers :
       Change(s, [sold[s] EXCEPT !.status = "active", !.tier = tier], "created")
  /\ UNCHANGED <<acked, claim, row, members, task, broken, untidy>>

\* A payment, a failed one, a pause, or a subscription that is taken up again.
Report(s, status) ==
  /\ Runs(s) \/ sold[s].status = "cancelled"
  /\ status # sold[s].status
  /\ Change(s, [sold[s] EXCEPT !.status = status, !.cancelled = FALSE], "updated")
  /\ UNCHANGED <<acked, claim, row, members, task, broken, untidy>>

\* In the customer portal: another plan, or the end.
ChangePlan(s) ==
  /\ Runs(s)
  /\ \E tier \in Tiers \ {sold[s].tier} :
       Change(s, [sold[s] EXCEPT !.tier = tier], "updated")
  /\ UNCHANGED <<acked, claim, row, members, task, broken, untidy>>

CancelAtShop(s) ==
  Change(s, [sold[s] EXCEPT !.status = "cancelled", !.cancelled = TRUE], "cancelled")

Unsubscribe(s) ==
  /\ Runs(s) /\ CancelAtShop(s)
  /\ UNCHANGED <<acked, claim, row, members, task, broken, untidy>>

Expire(s) ==
  /\ Runs(s) \/ sold[s].status = "cancelled"
  /\ Change(s, [sold[s] EXCEPT !.status = "expired"], "expired")
  /\ UNCHANGED <<acked, claim, row, members, task, broken, untidy>>

\* PATCH of the quantity: LemonSqueezy refuses an id it does not know and a
\* subscription that does not run. It may also fail, or its answer get lost.
Patched(s, quantity) ==
  /\ s \in Subs /\ Runs(s)
  /\ Change(s, [sold[s] EXCEPT !.quantity = quantity], "updated")
------------------------------------------------------------------------------
(* The webhook *)

\* A handler or the cancellation endpoint between reading the row and writing it.
Writers == {t \in Tasks : task[t].pc \in {"select", "write", "delete", "flag"}}

Touched(t) ==
  {task[t].seen.ls} \cup (IF Hook(t) THEN {sent[task[t].event].sub} ELSE {})

\* The subscriptions that a further writer, of the subscriptions S, disturbs or
\* is disturbed by.
Crowded(S) ==
  IF Writers = {} THEN {} ELSE Subs \cap (S \cup UNION {Touched(t) : t \in Writers})

Earlier(e) == {i \in 1..(e - 1) : sent[i].sub = sent[e].sub}

\* Seeded fault: a delivery whose row has no processed_at takes it over.
ClaimUnprocessed(t, e) ==
  /\ At(t, "idle") /\ e \in DOMAIN sent /\ claim[e] # "processed"
  /\ claim' = [claim EXCEPT ![e] = "claimed"]
  /\ task' = [task EXCEPT ![t] = Request("select", e, NoRow, None, 0, TRUE)]
  /\ UNCHANGED <<sold, sent, acked, row, members, broken, untidy>>

\* Seeded fault: the signature is not checked, anybody may send an event.
ClaimUnsigned(t, e) ==
  /\ At(t, "idle") /\ claim[e] = "none"
  /\ claim' = [claim EXCEPT ![e] = "claimed"]
  /\ task' = [task EXCEPT ![t] = Request("select", e, NoRow, None, 0, TRUE)]
  /\ UNCHANGED <<sold, sent, acked, row, members, broken, untidy>>

\* The first delivery of an event, if the signature is right: its row is inserted
\* and committed. That a webhook secret is configured is an assumption: without one
\* the code does not check the signature, and takes events nobody has sent. The
\* column error, which nothing reads, is left out.
Claim(t, e) ==
  /\ At(t, "idle") /\ e \in DOMAIN sent /\ claim[e] = "none"
  /\ claim' = [claim EXCEPT ![e] = "claimed"]
  /\ task' = [task EXCEPT ![t] = Request("select", e, NoRow, None, 0, TRUE)]
  /\ untidy' = untidy \cup Crowded({sent[e].sub})
       \cup (IF \A i \in Earlier(e) : claim[i] = "processed" THEN {} ELSE {sent[e].sub})
  /\ UNCHANGED <<sold, sent, acked, row, members, broken>>

\* Every other delivery: 200 already_processed or 202 processing_in_progress. One
\* that comes while the event is handled gets no other answer than one that
\* comes afterwards, and is left out.
Redeliver(e) ==
  /\ e \in DOMAIN sent /\ claim[e] # "none"
  /\ \A t \in Tasks : ~(Hook(t) /\ task[t].event = e)
  /\ acked' = acked \cup {e}
  /\ UNCHANGED <<sold, sent, claim, row, members, task, broken, untidy>>

StatusOf(status) ==
  CASE status = "on_trial" -> "trialing"
    [] status = "past_due" -> "past_due"
    [] status \in {"cancelled", "paused"} -> "cancelled"
    [] status = "expired" -> "expired"
    [] OTHER -> "active"

\* Only a subscription that begins brings its plan; an organization that has a
\* row gets the new one in its place.
CreatedRow(ev) ==
  Row(ev.sub, ev.tier, StatusOf(ev.status), ev.cancelled,
      IF ev.tier = "team" THEN 0 ELSE 1)

\* Seeded fault: an update leaves cancel_at_period_end alone.
UpdatedCancelKept(ev, old) ==
  [old EXCEPT !.status = StatusOf(ev.status),
              !.seats = IF old.tier = "team" THEN ev.quantity ELSE @]

Updated(ev, old) ==
  [old EXCEPT !.status = StatusOf(ev.status), !.cancel = ev.cancelled,
              !.seats = IF old.tier = "team" THEN ev.quantity ELSE @]

\* Seeded fault: an organization that had a subscription keeps its seats.
HandledSeatsKept(ev, old) ==
  CASE ev.name = "created" ->
         IF old.ls = None THEN CreatedRow(ev) ELSE [CreatedRow(ev) EXCEPT !.seats = old.seats]
    [] ev.name = "updated" -> Updated(ev, old)
    [] ev.name = "cancelled" -> [old EXCEPT !.status = "cancelled", !.cancel = TRUE]
    [] ev.name = "expired" -> [old EXCEPT !.status = "expired"]

\* What the handler of ev makes of the row it has read.
Handled(ev, old) ==
  CASE ev.name = "created" -> CreatedRow(ev)
    [] ev.name = "updated" -> Updated(ev, old)
    [] ev.name = "cancelled" -> [old EXCEPT !.status = "cancelled", !.cancel = TRUE]
    [] ev.name = "expired" -> [old EXCEPT !.status = "expired"]

\* subscription_created passes over a subscription that has its row; the other
\* handlers pass over one that has none. Its second query, by organization,
\* follows at once: no other request can bring the same subscription in between.
Select(t) ==
  LET ev == sent[task[t].event] IN
  /\ At(t, "select")
  /\ IF (ev.name = "created") = (row.ls = ev.sub)
     THEN Move(t, "stamp")
     ELSE task' = [task EXCEPT ![t].pc = "write", ![t].seen = row]
  /\ UNCHANGED <<sold, sent, acked, claim, row, members, broken, untidy>>

\* INSERT meets the constraint of one row per organization; UPDATE does not.
Collides(t) == task[t].seen.ls = None /\ row.ls # None

\* Seeded fault: the handler swallows the IntegrityError.
WriteSwallowed(t) ==
  /\ At(t, "write")
  /\ row' = IF Collides(t) THEN row
            ELSE Written(task[t].seen, Handled(sent[task[t].event], task[t].seen))
  /\ Move(t, "stamp")
  /\ UNCHANGED <<sold, sent, acked, claim, members, broken, untidy>>

Write(t) ==
  /\ At(t, "write") /\ ~Collides(t)
  /\ row' = Written(task[t].seen, Handled(sent[task[t].event], task[t].seen))
  /\ task' = [task EXCEPT ![t].pc = "stamp", ![t].seen = NoRow]
  /\ UNCHANGED <<sold, sent, acked, claim, members, broken, untidy>>

\* processed_at, and the answer.
Stamp(t) ==
  /\ At(t, "stamp")
  /\ claim' = [claim EXCEPT ![task[t].event] = "processed"]
  /\ acked' = acked \cup {task[t].event}
  /\ Done(t)
  /\ UNCHANGED <<sold, sent, row, members, broken, untidy>>
------------------------------------------------------------------------------
(* Trial, checkout and cancellation *)

\* verify_email: a trial if the organization has no subscription.
Verify(t) ==
  /\ At(t, "idle") /\ row.ls = None
  /\ task' = [task EXCEPT ![t] = [Idle EXCEPT !.pc = "trial"]]
  /\ UNCHANGED <<sold, sent, acked, claim, row, members, broken, untidy>>

StartTrial(t) ==
  /\ At(t, "trial") /\ row.ls = None
  /\ row' = TrialRow
  /\ Done(t)
  /\ UNCHANGED <<sold, sent, acked, claim, members, broken, untidy>>

\* create_checkout: an organization with a running subscription is sent to the
\* customer portal, and one on trial away. That the answer takes time is left
\* out: what was offered waits for its buyer anyway.
Checkout ==
  /\ ~(row.ls # None /\ row.status \in {"active", "trialing"})
  /\ \E s \in Subs :
       /\ sold[s].status = "none"
       /\ sold' = [sold EXCEPT ![s].status = "offered"]
  /\ UNCHANGED <<sent, acked, claim, row, members, task, broken, untidy>>

\* cancel_subscription: DELETE at LemonSqueezy, which refuses like PATCH, then the
\* flag in the row.
Cancel(t) ==
  /\ At(t, "idle") /\ row.ls # None /\ row.status # "cancelled"
  /\ task' = [task EXCEPT ![t] = Request("delete", 0, row, None, 0, TRUE)]
  /\ untidy' = untidy \cup Crowded({row.ls})
  /\ UNCHANGED <<sold, sent, acked, claim, row, members, broken>>

CancelDelete(t) ==
  LET s == task[t].seen.ls IN
  /\ At(t, "delete") /\ s \in Subs /\ Runs(s) /\ CancelAtShop(s)
  /\ Move(t, "flag") \/ Done(t)
  /\ UNCHANGED <<acked, claim, row, members, broken, untidy>>

CancelFlag(t) ==
  /\ At(t, "flag")
  /\ row' = Written(task[t].seen, [task[t].seen EXCEPT !.cancel = TRUE])
  /\ Done(t)
  /\ UNCHANGED <<sold, sent, acked, claim, members, broken, untidy>>
------------------------------------------------------------------------------
(* Members *)

\* A request that changes members starts: those that run are not alone any more.
Enter(t, pc, ls, u) ==
  LET others == {x \in Tasks : task[x].pc \in SeatPcs} IN
  task' = [x \in Tasks |->
             IF x = t THEN Request(pc, 0, [NoRow EXCEPT !.ls = ls], u, 0,
                                   pc = "idle" \/ others = {})
             ELSE IF x \in others THEN [task[x] EXCEPT !.alone = FALSE]
             ELSE task[x]]

\* accept_invitation: with a team subscription the seat is bought first. Anybody
\* who is no member may have an invitation, and may accept it twice at once.
Accept(t, u) ==
  /\ At(t, "idle") /\ u \notin members
  /\ Enter(t, IF row.ls # None /\ row.tier = "team" THEN "count" ELSE "join", row.ls, u)
  /\ UNCHANGED <<sold, sent, acked, claim, row, members, broken, untidy>>

\* Seeded fault: the seats of those who are members already.
CountMembers(t) ==
  /\ At(t, "count")
  /\ task' = [task EXCEPT ![t].pc = "buy", ![t].count = Seats(members)]
  /\ UNCHANGED <<sold, sent, acked, claim, row, members, broken, untidy>>

Count(t) ==
  /\ At(t, "count")
  /\ task' = [task EXCEPT ![t].pc = "buy", ![t].count = Seats(members) + 1]
  /\ UNCHANGED <<sold, sent, acked, claim, row, members, broken, untidy>>

Buy(t) ==
  /\ At(t, "buy") /\ Patched(task[t].seen.ls, task[t].count)
  /\ Move(t, "join") \/ Done(t)
  /\ UNCHANGED <<acked, claim, row, members, broken, untidy>>

\* uq_org_member refuses a second membership.
Join(t) ==
  /\ At(t, "join") /\ task[t].user \notin members
  /\ members' = members \cup {task[t].user}
  /\ Done(t)
  /\ UNCHANGED <<sold, sent, acked, claim, row, broken, untidy>>

\* remove_member: the seat is given back after the commit, if the plan, which
\* is read next, is for a team. Nothing that changes the plan looks at members.
RemoveMember(t, u) ==
  /\ At(t, "idle") /\ u \in members
  /\ members' = members \ {u}
  /\ IF row.ls # None /\ row.tier = "team"
     THEN Enter(t, "recount", row.ls, u)
     ELSE Enter(t, "idle", None, None)
  /\ UNCHANGED <<sold, sent, acked, claim, row, broken, untidy>>

Recount(t) ==
  /\ At(t, "recount")
  /\ task' = [task EXCEPT ![t].pc = "refund", ![t].count = Seats(members)]
  /\ UNCHANGED <<sold, sent, acked, claim, row, members, broken, untidy>>

Refund(t) ==
  /\ At(t, "refund") /\ Patched(task[t].seen.ls, task[t].count)
  /\ Done(t)
  /\ UNCHANGED <<acked, claim, row, members, broken, untidy>>
------------------------------------------------------------------------------
\* Seeded fault: a handler that raised is answered with 200.
BreakAnswered(t) ==
  /\ ~At(t, "idle")
  /\ Done(t)
  /\ acked' = IF Hook(t) THEN acked \cup {task[t].event} ELSE acked
  /\ UNCHANGED <<sold, sent, claim, row, members, broken, untidy>>

\* An update that raises on its payload has assigned the status by then, and
\* perhaps the flag: the endpoint commits them together with the error.
HalfHandled(t) ==
  LET ev == sent[task[t].event]
      seen == task[t].seen
      half == [seen EXCEPT !.status = StatusOf(ev.status)] IN
  IF At(t, "write") /\ ev.name = "updated"
  THEN {Written(seen, half), Written(seen, [half EXCEPT !.cancel = ev.cancelled])}
  ELSE {}

\* A request ends where it is: an exception, an answer of LemonSqueezy that is
\* not 2xx, a constraint of the database, or the process. What it has committed
\* stays, and nobody answers with 2xx.
Break(t) ==
  /\ ~At(t, "idle")
  /\ Hook(t) => Cardinality(broken) < MaxBroken
  /\ Done(t)
  /\ row' \in {row} \cup (IF Hook(t) THEN HalfHandled(t) ELSE {})
  /\ broken' = IF Hook(t) THEN broken \cup {task[t].event} ELSE broken
  /\ UNCHANGED <<sold, sent, acked, claim, members, untidy>>

Init ==
  /\ sold = [s \in Subs |->
       [status |-> "none", tier |-> "team", cancelled |-> FALSE, quantity |-> 1]]
  /\ sent = <<>> /\ acked = {} /\ broken = {} /\ untidy = {}
  /\ claim = [e \in Events |-> "none"]
  /\ row = NoRow
  /\ members = {}
  /\ task = [t \in Tasks |-> Idle]

Shop ==
  \E s \in Subs :
    \/ Purchase(s) \/ ChangePlan(s) \/ Unsubscribe(s) \/ Expire(s)
    \/ \E status \in Reported : Report(s, status)

Webhook(t) ==
  \/ Select(t) \/ Write(t) \/ Stamp(t)
  \/ \E e \in Events : Claim(t, e)

Account(t) ==
  \/ Verify(t) \/ StartTrial(t) \/ Cancel(t) \/ CancelDelete(t) \/ CancelFlag(t)

Membership(t) ==
  \/ Count(t) \/ Buy(t) \/ Join(t) \/ Recount(t) \/ Refund(t)
  \/ \E u \in Users : Accept(t, u) \/ RemoveMember(t, u)

Next ==
  \/ Shop \/ Checkout
  \/ \E e \in Events : Redeliver(e)
  \/ \E t \in Tasks : Webhook(t) \/ Account(t) \/ Membership(t) \/ Break(t)

Spec == Init /\ [][Next]_vars
------------------------------------------------------------------------------
(* Properties *)

RowType == [ls : Subs \cup {Trial, None}, tier : Tiers, status : Statuses,
            cancel : BOOLEAN, seats : Nat]

EventType == [name : {"created", "updated", "cancelled", "expired"}, sub : Subs,
              status : Reported \cup {"cancelled", "expired"}, tier : Tiers,
              cancelled : BOOLEAN, quantity : Nat]

RequestType == [pc : Pcs, event : 0..MaxEvents, seen : RowType,
                user : Users \cup {None}, count : Nat, alone : BOOLEAN]

\* Types: a webhook carries an event that LemonSqueezy has sent.
TypeOK ==
  /\ sold \in [Subs -> Known] /\ sent \in Seq(EventType) /\ Len(sent) <= MaxEvents
  /\ acked \subseteq DOMAIN sent /\ broken \subseteq DOMAIN sent /\ untidy \subseteq Subs
  /\ claim \in [Events -> {"none", "claimed", "processed"}]
  /\ row \in RowType /\ members \subseteq Users
  /\ task \in [Tasks -> RequestType]
  /\ \A t \in Tasks : Hook(t) => task[t].event \in DOMAIN sent

\* However often and wherever an event is delivered at once, one request at most
\* handles it, and while it does the event has its row without processed_at.
OneHandler ==
  \A t \in Tasks : Hook(t) =>
    /\ claim[task[t].event] = "claimed"
    /\ \A u \in Tasks \ {t} : Hook(u) => task[u].event # task[t].event

\* LemonSqueezy stops delivering an event only if it was handled to the end, is
\* being handled, or broke off: the 202 that a retry then gets is the one way
\* to lose an event.
AckedIsHandled ==
  \A e \in acked :
    \/ claim[e] = "processed"
    \/ e \in broken
    \/ \E t \in Tasks : Hook(t) /\ task[t].event = e

\* Once a purchase counts as processed the organization has a paid row and keeps
\* one, whatever verify_email, other purchases and failures do meanwhile.
PaidHasRow ==
  (\E e \in DOMAIN sent : sent[e].name = "created" /\ claim[e] = "processed")
    => row.ls \in Subs

Created(s, tier) ==
  \E e \in DOMAIN sent : sent[e].name = "created" /\ sent[e].sub = s /\ sent[e].tier = tier

\* The row is of one piece: plan and seats belong to the subscription it names,
\* although handlers write only the columns they changed and the organization
\* may have had other subscriptions; unless two writers met.
RowIsWhole ==
  row.ls \in Subs \ untidy =>
    /\ Created(row.ls, row.tier)
    /\ \/ row.seats = IF row.tier = "team" THEN 0 ELSE 1
       \/ row.tier = "team" /\ \E e \in DOMAIN sent :
            /\ sent[e].sub = row.ls /\ claim[e] # "none"
            /\ sent[e].name = "updated" /\ sent[e].quantity = row.seats

\* The row says what LemonSqueezy knows once every event of its subscription was
\* processed, unless they were handled out of order or two writers met.
InSync ==
  row.ls \in Subs \ untidy
    /\ (\A e \in DOMAIN sent : sent[e].sub = row.ls => claim[e] = "processed") =>
      /\ row.status = StatusOf(sold[row.ls].status)
      /\ row.cancel = sold[row.ls].cancelled

\* A member who joins a team is paid for and one who leaves is not: afterwards
\* the quantity is the number of seats, even if earlier calls failed half-way,
\* provided that no other request changed the members at the same time.
SeatsMatch ==
  [][\A t \in Tasks :
       LET s == task[t].seen.ls IN
       task[t].alone =>
         /\ At(t, "join") /\ ~At(t, "join")' /\ task[t].count # 0 /\ members' # members
              => sold[s].quantity = Seats(members')
         /\ At(t, "refund") /\ ~At(t, "refund")' /\ sold' # sold
              => sold'[s].quantity = Seats(members)]_vars
==============================================================================
