---------------------------- MODULE Subscription ----------------------------
(* The plan subscription of one organisation: the check and the Checkout      *)
(* Session of BillingService, Stripe, and the Subscription row that the       *)
(* webhook keeps as a mirror of it.                                           *)
(*   apps/api/src/billing/billing.service.ts, stripe-webhook.service.ts       *)
EXTENDS Naturals, FiniteSets

CONSTANTS
  Plans,
  Subs,        \* Checkout Sessions, and the subscription each may become
  Buyers,      \* checkout requests in flight at a time
  Deliveries,  \* webhook deliveries being handled at a time
  MaxMoves,    \* bound: changes of one subscription after it began
  NoPlan, NoSub, NoEvent

ASSUME SubscriptionConstants ==
  /\ NoPlan \notin Plans /\ NoSub \notin Subs /\ MaxMoves \in Nat

VARIABLES
  row,        \* Subscription: the mirror
  invoices,   \* Invoice rows
  processed,  \* IdempotencyRecord rows of events
  buyer,      \* createCheckoutSession in progress
  delivery,   \* handle() in progress
  session,    \* Stripe: Checkout Sessions
  sub,        \* Stripe: status and number of changes of a subscription
  keyOf,      \* Stripe: the session an idempotency key was answered with
  sent,       \* Stripe: events, each delivered at least once in any order
  blind,      \* observed: a session was made on a check that was wrong or stale
  disorder    \* observed: an older event was applied over a newer one

apiVars == <<row, invoices, processed>>
stripeSide == <<session, sub, keyOf, sent>>
subscriptionVars == <<apiVars, buyer, delivery, stripeSide, blind, disorder>>

LIVE_STATUSES == {"active", "past_due"}
LiveSubs == {s \in Subs : sub[s].status \in LIVE_STATUSES}
Agreed == /\ row.status \in LIVE_STATUSES <=> LiveSubs # {}
          /\ \A s \in Subs : session[s].status # "open"

\* What a check is worth: the row and Stripe disagree, or what both say.
View == IF ~Agreed THEN "blind" ELSE IF LiveSubs = {} THEN "free" ELSE "taken"

NoSession == [status |-> "none", plan |-> NoPlan]
NoBuyer == [pc |-> "idle", plan |-> NoPlan, saw |-> "free"]
Idle == [pc |-> "idle", event |-> NoEvent]
Event(kind, s, status, n) == [kind |-> kind, sub |-> s, status |-> status, n |-> n,
                              known |-> row.sub = s]

SubscriptionTypeOK ==
  /\ row \in [there : BOOLEAN, sub : Subs \cup {NoSub}, plan : Plans \cup {NoPlan},
              status : {"incomplete", "active", "past_due", "canceled"}, n : 0..MaxMoves]
  /\ processed \cup invoices \subseteq sent
  /\ buyer \in [Buyers -> [pc : {"idle", "customer", "session"},
                           plan : Plans \cup {NoPlan},
                           saw : {"blind", "free", "taken"}]]
  /\ delivery \in [Deliveries -> [pc : {"idle", "apply", "record"}, event : sent \cup {NoEvent}]]
  /\ session \in [Subs -> [status : {"none", "open", "complete", "expired"},
                           plan : Plans \cup {NoPlan}]]
  /\ sub \in [Subs -> [status : LIVE_STATUSES \cup {"none", "canceled"}, n : 0..MaxMoves]]
  /\ keyOf \in [Plans -> Subs \cup {NoSub}]
  /\ \A s \in Subs : sub[s].status # "none" => session[s].status = "complete"

SubscriptionInit ==
  /\ row = [there |-> FALSE, sub |-> NoSub, plan |-> NoPlan, status |-> "incomplete", n |-> 0]
  /\ invoices = {} /\ processed = {} /\ sent = {}
  /\ buyer = [b \in Buyers |-> NoBuyer]
  /\ delivery = [d \in Deliveries |-> Idle]
  /\ session = [s \in Subs |-> NoSession]
  /\ sub = [s \in Subs |-> [status |-> "none", n |-> 0]]
  /\ keyOf = [p \in Plans |-> NoSub]
  /\ blind = FALSE /\ disorder = FALSE

-----------------------------------------------------------------------------
\* Plausible bug: the status of the existing subscription is not looked at.
createCheckoutSession_bug(b) ==
  /\ buyer[b].pc = "idle"
  /\ \E p \in Plans : buyer' = [buyer EXCEPT ![b] =
       [pc |-> IF row.there THEN "session" ELSE "customer", plan |-> p, saw |-> View]]
  /\ UNCHANGED <<apiVars, delivery, stripeSide, blind, disorder>>

\* The row is read once: live or not, and whether there is a customer already.
createCheckoutSession(b) ==
  /\ buyer[b].pc = "idle"
  /\ row.there => row.status \notin LIVE_STATUSES
  /\ \E p \in Plans : buyer' = [buyer EXCEPT ![b] =
       [pc |-> IF row.there THEN "session" ELSE "customer", plan |-> p, saw |-> View]]
  /\ UNCHANGED <<apiVars, delivery, stripeSide, blind, disorder>>

\* The placeholder row; a second one of the organisation is refused.
createCustomer(b) ==
  /\ buyer[b].pc = "customer"
  /\ IF row.there
     THEN buyer' = [buyer EXCEPT ![b] = NoBuyer] /\ UNCHANGED row
     ELSE /\ row' = [row EXCEPT !.there = TRUE]
          /\ buyer' = [buyer EXCEPT ![b].pc = "session"]
  /\ UNCHANGED <<invoices, processed, delivery, stripeSide, blind, disorder>>

\* Stripe answers a key it knows with the session it made then.
checkoutIdempotencyKey(b) ==
  /\ buyer[b].pc = "session"
  /\ LET p == buyer[b].plan IN
     IF keyOf[p] # NoSub THEN UNCHANGED <<session, keyOf, blind>>
     ELSE \E s \in Subs :
       /\ session[s] = NoSession
       /\ session' = [session EXCEPT ![s] = [status |-> "open", plan |-> p]]
       /\ keyOf' = [keyOf EXCEPT ![p] = s]
       /\ blind' = (blind \/ buyer[b].saw = "blind" \/ ~Agreed
                         \/ (buyer[b].saw = "free" /\ LiveSubs # {}))
  /\ buyer' = [buyer EXCEPT ![b] = NoBuyer]
  /\ UNCHANGED <<apiVars, delivery, sub, sent, disorder>>

-----------------------------------------------------------------------------
\* The customer pays: the session completes and its subscription begins.
completes(s) ==
  /\ session[s].status = "open"
  /\ session' = [session EXCEPT ![s].status = "complete"]
  /\ sub' = [sub EXCEPT ![s].status = "active"]
  /\ sent' = sent \cup {Event("completed", s, "active", 0), Event("subscription", s, "active", 0)}
  /\ UNCHANGED <<apiVars, buyer, delivery, keyOf, blind, disorder>>

expires(s) ==
  /\ session[s].status = "open"
  /\ session' = [session EXCEPT ![s].status = "expired"]
  /\ UNCHANGED <<apiVars, buyer, delivery, sub, keyOf, sent, blind, disorder>>

\* A key is forgotten after a day, when its session is no longer open.
keyLapses(p) ==
  /\ keyOf[p] # NoSub /\ session[keyOf[p]].status # "open"
  /\ keyOf' = [keyOf EXCEPT ![p] = NoSub]
  /\ UNCHANGED <<apiVars, buyer, delivery, session, sub, sent, blind, disorder>>

moves(s) ==
  /\ s \in LiveSubs /\ sub[s].n < MaxMoves
  /\ \E st \in {"active", "past_due", "canceled"} \ {sub[s].status} :
       /\ sub' = [sub EXCEPT ![s] = [status |-> st, n |-> @.n + 1]]
       /\ sent' = sent \cup {Event("subscription", s, st, sub[s].n + 1)}
  /\ UNCHANGED <<apiVars, buyer, delivery, session, keyOf, blind, disorder>>

bills(s) ==
  /\ s \in LiveSubs
  /\ ~\E e \in sent : e.kind = "invoice" /\ e.sub = s
  /\ sent' = sent \cup {Event("invoice", s, sub[s].status, sub[s].n)}
  /\ UNCHANGED <<apiVars, buyer, delivery, session, sub, keyOf, blind, disorder>>

-----------------------------------------------------------------------------
\* handle(): an event without a record yet; the same one may be in progress.
handle(d) ==
  /\ delivery[d].pc = "idle"
  /\ \E e \in sent \ processed : delivery' = [delivery EXCEPT ![d] = [pc |-> "apply", event |-> e]]
  /\ UNCHANGED <<apiVars, buyer, stripeSide, blind, disorder>>

onCheckoutCompleted(d) ==
  /\ delivery[d].pc = "apply" /\ delivery[d].event.kind = "completed"
  /\ LET s == delivery[d].event.sub IN
     /\ row' = [row EXCEPT !.there = TRUE, !.sub = s, !.plan = session[s].plan]
     /\ disorder' = (disorder \/ row.sub \notin {NoSub, s})
  /\ delivery' = [delivery EXCEPT ![d].pc = "record"]
  /\ UNCHANGED <<invoices, processed, buyer, stripeSide, blind>>

\* The row takes what the event says, whatever it said before.
onSubscriptionChanged(d) ==
  /\ delivery[d].pc = "apply" /\ delivery[d].event.kind = "subscription"
  /\ LET e == delivery[d].event IN
     /\ row' = [there |-> TRUE, sub |-> e.sub, plan |-> session[e.sub].plan,
                status |-> e.status, n |-> e.n]
     /\ disorder' = (disorder \/ row.sub \notin {NoSub, e.sub} \/ row.n > e.n)
  /\ delivery' = [delivery EXCEPT ![d].pc = "record"]
  /\ UNCHANGED <<invoices, processed, buyer, stripeSide, blind>>

\* An invoice of a subscription the row does not name is skipped.
onInvoice(d) ==
  /\ delivery[d].pc = "apply" /\ delivery[d].event.kind = "invoice"
  /\ invoices' = IF row.sub = delivery[d].event.sub
                 THEN invoices \cup {delivery[d].event} ELSE invoices
  /\ delivery' = [delivery EXCEPT ![d].pc = "record"]
  /\ UNCHANGED <<row, processed, buyer, stripeSide, blind, disorder>>

recordEvent(d) ==
  /\ delivery[d].pc = "record"
  /\ processed' = processed \cup {delivery[d].event}
  /\ delivery' = [delivery EXCEPT ![d] = Idle]
  /\ UNCHANGED <<row, invoices, buyer, stripeSide, blind, disorder>>

\* Plausible bug: the event counts as processed although its handler failed.
deliveryFails_bug(d) ==
  /\ delivery[d].pc # "idle"
  /\ processed' = processed \cup {delivery[d].event}
  /\ delivery' = [delivery EXCEPT ![d] = Idle]
  /\ UNCHANGED <<row, invoices, buyer, stripeSide, blind, disorder>>

\* A handler that throws or ends with its process: Stripe delivers again.
deliveryFails(d) ==
  /\ delivery[d].pc # "idle"
  /\ delivery' = [delivery EXCEPT ![d] = Idle]
  /\ UNCHANGED <<apiVars, buyer, stripeSide, blind, disorder>>

SubscriptionNext ==
  \/ \E b \in Buyers : createCheckoutSession(b) \/ createCustomer(b) \/ checkoutIdempotencyKey(b)
  \/ \E s \in Subs : completes(s) \/ expires(s) \/ moves(s) \/ bills(s)
  \/ \E p \in Plans : keyLapses(p)
  \/ \E d \in Deliveries : \/ handle(d) \/ onCheckoutCompleted(d) \/ onSubscriptionChanged(d)
                           \/ onInvoice(d) \/ recordEvent(d) \/ deliveryFails(d)

SubscriptionSpec == SubscriptionInit /\ [][SubscriptionNext]_subscriptionVars

-----------------------------------------------------------------------------
\* The organisation has two live subscriptions only when, between a check and
\* its session or before it, the row disagreed with Stripe, another session was
\* open or another subscription began (billing.service.ts:126).
SecondOnlyWhenBlind == Cardinality(LiveSubs) > 1 => blind

\* When every event is processed the row says what Stripe says, however often
\* handlers failed, overlapped or repeated, unless an older event was applied
\* over a newer one (stripe-webhook.service.ts:250).
MirrorSettles ==
  /\ sent = processed /\ ~disorder
  /\ \A d \in Deliveries : delivery[d] = Idle
  => \A s \in Subs : sub[s].status # "none" => (row.sub = s /\ row.status = sub[s].status)

\* An invoice made when the row already named its subscription is kept, unless
\* another subscription took the row (stripe-webhook.service.ts:312).
InvoicesKept ==
  \A e \in processed : e.kind = "invoice" /\ e.known /\ ~disorder => e \in invoices

\* The mirror, the row with its invoices, is kept as Stripe tells it.
MirrorKept == MirrorSettles /\ InvoicesKept

\* "This workspace already has a subscription" (billing.service.ts:129) is not
\* said to two requests at once: each may end in a subscription of its own.
OneSubscription == Cardinality(LiveSubs) <= 1

\* The row is "reconciled" by the next event (billing.service.ts:84): not by one
\* that was sent before.
MirrorReconciled ==
  /\ sent = processed /\ \A d \in Deliveries : delivery[d] = Idle
  => \A s \in Subs : sub[s].status # "none" => (row.status = sub[s].status)
=============================================================================
