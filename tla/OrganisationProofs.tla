-------------------------- MODULE OrganisationProofs --------------------------
(* What one organisation is to the system, for every number of requests,      *)
(* deliveries and records: its subscription is sold once and mirrored, its    *)
(* domains are proven, and the decisions taken about it are grounded.         *)
EXTENDS Subscription, Domains, Gates, FiniteSetTheorems, TLAPS

-----------------------------------------------------------------------------
(* The subscription.                                                          *)

Session == [status : {"none", "open", "complete", "expired"}, plan : Plans \cup {NoPlan}]
Sub == [status : {"active", "past_due", "none", "canceled"}, n : 0..MaxMoves]
Buyer == [pc : {"idle", "customer", "session"}, plan : Plans \cup {NoPlan},
          saw : {"blind", "free", "taken"}]

\* Whoever may still pay, or pays.
Paying(s) == session[s].status = "open" \/ sub[s].status \in LIVE_STATUSES

\* A request past its check did not see a live subscription; before the first
\* blind session no two are open or live.
Sold ==
  /\ session \in [Subs -> Session] /\ sub \in [Subs -> Sub] /\ buyer \in [Buyers -> Buyer]
  /\ ~row.there => row.status = "incomplete"
  /\ \A b \in Buyers : buyer[b].pc # "idle" => buyer[b].saw # "taken"
  /\ \A s \in Subs : IF sub[s].status = "none" THEN sub[s].n = 0
                     ELSE session[s].status = "complete"
  /\ ~blind => \A s, t \in Subs : Paying(s) /\ Paying(t) => s = t

\* Events that were applied, recorded or about to be.
Applied(e) == e \in processed \/ \E d \in Deliveries :
                                   delivery[d].pc = "record" /\ delivery[d].event = e

\* What was sent is true of Stripe, and numbered.
SentTrue ==
  /\ processed \subseteq sent /\ invoices \subseteq sent
  /\ delivery \in [Deliveries -> [pc : {"idle", "apply", "record"}, event : sent \cup {NoEvent}]]
  /\ \A d \in Deliveries : delivery[d].pc # "idle" => delivery[d].event \in sent
  /\ \A e \in sent : /\ e.sub \in Subs /\ e.kind \in {"completed", "subscription", "invoice"}
                     /\ e.status \in {"active", "past_due", "canceled"}
  /\ \A e \in sent : e.kind = "subscription" => e.n \in 0..sub[e.sub].n /\ sub[e.sub].status # "none"
  /\ \A e, f \in sent : e.kind = "subscription" /\ f.kind = "subscription" /\ e.sub = f.sub /\ e.n = f.n
       => e.status = f.status
  /\ \A s \in Subs : sub[s].status # "none" =>
       \E e \in sent : /\ e.kind = "subscription" /\ e.sub = s
                       /\ e.n = sub[s].n /\ e.status = sub[s].status

\* Until an older event overtakes, the row is what the newest one applied says.
RowNewest ==
  /\ row \in [there : BOOLEAN, sub : Subs \cup {NoSub}, plan : Plans \cup {NoPlan},
              status : {"incomplete", "active", "past_due", "canceled"}, n : Nat]
  /\ ~disorder =>
       /\ \A e \in sent : Applied(e) /\ e.kind = "subscription" =>
            /\ row.sub = e.sub /\ e.n <= row.n
            /\ \E f \in sent : /\ f.kind = "subscription" /\ f.sub = row.sub
                               /\ f.n = row.n /\ f.status = row.status
       /\ \A e \in sent : e.kind = "invoice" /\ e.known => row.sub = e.sub
       /\ \A e \in sent : Applied(e) /\ e.kind = "invoice" /\ e.known => e \in invoices

IInv == Sold /\ SentTrue /\ RowNewest

LEMMA Initially == ASSUME SubscriptionInit PROVE IInv
<1>1. /\ session \in [Subs -> Session] /\ sub \in [Subs -> Sub]
  BY SubscriptionConstants DEF SubscriptionInit, Session, Sub, NoSession
<1>2. buyer \in [Buyers -> Buyer]
  BY DEF SubscriptionInit, Buyer, NoBuyer
<1>3. Sold
  BY <1>1, <1>2 DEF SubscriptionInit, Sold, NoSession, NoBuyer, Paying, LIVE_STATUSES
<1>4. SentTrue /\ RowNewest
  BY DEF SubscriptionInit, SentTrue, RowNewest, Applied, Idle
<1> QED BY <1>3, <1>4 DEF IInv

\* A step that touches neither events nor the row.
LEMMA Elsewhere ==
  ASSUME IInv, Sold', UNCHANGED <<row, invoices, processed, delivery, sub, sent, disorder>>
  PROVE  IInv'
BY DEF IInv, SentTrue, RowNewest, Applied

LEMMA CheckStep ==
  ASSUME IInv, NEW b \in Buyers, createCheckoutSession(b) PROVE IInv'
<1>1. PICK p \in Plans :
        buyer' = [buyer EXCEPT ![b] = [pc |-> IF row.there THEN "session" ELSE "customer",
                                       plan |-> p, saw |-> View]]
  BY DEF createCheckoutSession
<1>2. /\ UNCHANGED <<row, invoices, processed, delivery, session, sub, sent, blind, disorder>>
      /\ row.status \notin LIVE_STATUSES
  BY DEF createCheckoutSession, apiVars, stripeSide, IInv, Sold, LIVE_STATUSES
<1>3. View \in {"blind", "free"}
  BY <1>2 DEF View, Agreed
<1>4. buyer' \in [Buyers -> Buyer] /\ buyer'[b].saw # "taken"
      /\ \A c \in Buyers \ {b} : buyer'[c] = buyer[c]
  BY <1>1, <1>3 DEF IInv, Sold, Buyer
<1>5. Sold'
  BY <1>2, <1>4 DEF IInv, Sold, Paying
<1> QED BY <1>2, <1>5, Elsewhere

LEMMA CustomerStep == ASSUME IInv, NEW b \in Buyers, createCustomer(b) PROVE IInv'
<1>1. /\ UNCHANGED <<invoices, processed, delivery, session, sub, sent, blind, disorder>>
      /\ row' = row \/ row' = [row EXCEPT !.there = TRUE]
      /\ buyer' = [buyer EXCEPT ![b] = NoBuyer] \/ buyer' = [buyer EXCEPT ![b].pc = "session"]
      /\ buyer[b].pc # "idle"
  BY DEF createCustomer, stripeSide
<1>2. /\ row'.sub = row.sub /\ row'.status = row.status /\ row'.n = row.n
      /\ row' \in [there : BOOLEAN, sub : Subs \cup {NoSub}, plan : Plans \cup {NoPlan},
              status : {"incomplete", "active", "past_due", "canceled"}, n : Nat]
      /\ ~row'.there => ~row.there
  BY <1>1 DEF IInv, RowNewest
<1>3. /\ buyer' \in [Buyers -> Buyer]
      /\ \A c \in Buyers : buyer'[c].pc # "idle" => buyer[c].pc # "idle" /\ buyer'[c].saw = buyer[c].saw
  BY <1>1 DEF IInv, Sold, Buyer, NoBuyer
<1>4. Sold'
  BY <1>1, <1>2, <1>3 DEF IInv, Sold, Paying
<1>5. SentTrue' /\ RowNewest'
  BY <1>1, <1>2 DEF IInv, SentTrue, RowNewest, Applied
<1> QED BY <1>4, <1>5 DEF IInv

\* A session opened with eyes open is the only one that may be paid.
LEMMA SessionStep == ASSUME IInv, NEW b \in Buyers, checkoutIdempotencyKey(b) PROVE IInv'
<1>1. /\ UNCHANGED <<row, invoices, processed, delivery, sub, sent, disorder>>
      /\ buyer' = [buyer EXCEPT ![b] = NoBuyer] /\ buyer[b].pc = "session"
  BY DEF checkoutIdempotencyKey, apiVars
<1>2. /\ buyer' \in [Buyers -> Buyer]
      /\ \A c \in Buyers : buyer'[c].pc # "idle" => buyer[c].pc # "idle" /\ buyer'[c].saw = buyer[c].saw
  BY <1>1 DEF IInv, Sold, Buyer, NoBuyer
<1>3. CASE UNCHANGED <<session, blind>>
  BY <1>1, <1>2, <1>3, Elsewhere DEF IInv, Sold, Paying
<1>4. ASSUME NEW s \in Subs, NEW p \in Plans \cup {NoPlan}, session[s] = NoSession,
        session' = [session EXCEPT ![s] = [status |-> "open", plan |-> p]],
        blind' = (blind \/ buyer[b].saw = "blind" \/ ~Agreed
                        \/ (buyer[b].saw = "free" /\ LiveSubs # {}))
      PROVE IInv'
  <2>1. session' \in [Subs -> Session] /\ \A t \in Subs \ {s} : session'[t] = session[t]
    BY <1>4 DEF IInv, Sold, Session
  <2>2. session[s].status = "none" /\ session'[s].status = "open" /\ sub[s].status = "none"
    BY <1>4 DEF IInv, Sold, NoSession
  <2>3. ~blind' => ~blind /\ Agreed /\ (buyer[b].saw # "blind") /\ ~(buyer[b].saw = "free" /\ LiveSubs # {})
    BY <1>4
  <2>4. buyer[b].saw \in {"blind", "free"}
    BY <1>1 DEF IInv, Sold, Buyer
  <2>5. ~blind' => \A t \in Subs : ~Paying(t)
    BY <2>3, <2>4 DEF Agreed, LiveSubs, Paying
  <2>6. \A t \in Subs : Paying(t)' => Paying(t) \/ t = s
    BY <1>1, <2>1, <2>2 DEF Paying
  <2>7. Sold'
    BY <1>1, <1>2, <2>1, <2>2, <2>5, <2>6 DEF IInv, Sold
  <2> QED BY <1>1, <2>7, Elsewhere
<1>5. buyer[b].plan \in Plans \cup {NoPlan}
  BY DEF IInv, Sold, Buyer
<1> QED BY <1>3, <1>4, <1>5 DEF checkoutIdempotencyKey

LEMMA ExpiresStep == ASSUME IInv, NEW s \in Subs, expires(s) PROVE IInv'
<1>1. /\ UNCHANGED <<row, invoices, processed, buyer, delivery, sub, sent, blind, disorder>>
      /\ session' = [session EXCEPT ![s].status = "expired"] /\ session[s].status = "open"
  BY DEF expires, apiVars
<1>2. /\ session' \in [Subs -> Session] /\ session'[s].status = "expired"
      /\ \A t \in Subs \ {s} : session'[t] = session[t]
  BY <1>1 DEF IInv, Sold, Session
<1>3. Sold'
  BY <1>1, <1>2 DEF IInv, Sold, Paying
<1> QED BY <1>1, <1>3, Elsewhere

\* A key that lapses changes nothing the invariant looks at.
LEMMA LapseStep == ASSUME IInv, NEW p \in Plans, keyLapses(p) PROVE IInv'
<1>1. UNCHANGED <<row, invoices, processed, buyer, delivery, session, sub, sent, blind, disorder>>
  BY DEF keyLapses, apiVars
<1>2. Sold'
  BY <1>1 DEF IInv, Sold, Paying
<1> QED BY <1>1, <1>2, Elsewhere

\* What may be added to the events sent.
NewEvent(e) ==
  /\ e.sub \in Subs /\ e.kind \in {"completed", "subscription", "invoice"}
  /\ e \notin sent
  /\ e.kind = "invoice" /\ e.known => row.sub = e.sub

\* An event that nobody has handled leaves the row the newest.
LEMMA RowSent ==
  ASSUME SentTrue, RowNewest, sent \subseteq sent', \A e \in sent' \ sent : NewEvent(e),
         UNCHANGED <<row, invoices, processed, delivery, disorder>>
  PROVE  RowNewest'
<1>1. \A e \in sent' \ sent : ~Applied(e)'
  BY DEF SentTrue, Applied, NewEvent
<1>2. \A e : Applied(e)' <=> Applied(e)
  BY DEF Applied
<1> QED BY <1>1, <1>2 DEF RowNewest, NewEvent

LEMMA CompletesStep == ASSUME IInv, NEW s \in Subs, completes(s) PROVE IInv'
<1> DEFINE e == Event("subscription", s, "active", 0)
           c == Event("completed", s, "active", 0)
<1>1. /\ UNCHANGED <<row, invoices, processed, buyer, delivery, blind, disorder>>
      /\ session' = [session EXCEPT ![s].status = "complete"] /\ session[s].status = "open"
      /\ sub' = [sub EXCEPT ![s].status = "active"]
      /\ sent' = sent \cup {c, e}
  BY DEF completes, apiVars
<1>2. sub[s].status = "none" /\ sub[s].n = 0
  BY <1>1 DEF IInv, Sold
<1>3. /\ session' \in [Subs -> Session] /\ session'[s].status = "complete"
      /\ \A t \in Subs \ {s} : session'[t] = session[t]
  BY <1>1 DEF IInv, Sold, Session
<1>4. /\ sub' \in [Subs -> Sub] /\ sub'[s].status = "active" /\ sub'[s].n = 0
      /\ \A t \in Subs \ {s} : sub'[t] = sub[t]
  BY <1>1, <1>2 DEF IInv, Sold, Sub
<1>5. \A t \in Subs : Paying(t)' => Paying(t)
  BY <1>1, <1>3, <1>4 DEF Paying
<1>6. Sold'
  BY <1>1, <1>3, <1>4, <1>5 DEF IInv, Sold
<1>7. /\ e.kind = "subscription" /\ e.sub = s /\ e.n = 0 /\ e.status = "active"
      /\ c.kind = "completed" /\ c.sub = s /\ c.status = "active"
  BY DEF Event
<1> HIDE DEF e, c
<1>8. \A f \in sent : f.kind = "subscription" => f.sub # s
  BY <1>2 DEF IInv, SentTrue
<1>9. c \in sent \/ NewEvent(c)
  BY <1>7 DEF NewEvent
<1>10. NewEvent(e)
  BY <1>7, <1>8 DEF NewEvent
<1>11. RowNewest'
  <2>1. CASE c \in sent
    <3>1. sent' = sent \cup {e}
      BY <1>1, <2>1
    <3>2. \A x \in sent' \ sent : NewEvent(x)
      BY <1>10, <3>1
    <3> QED BY <1>1, <3>1, <3>2, RowSent DEF IInv
  <2>2. CASE NewEvent(c)
    <3>1. \A x \in sent' \ sent : NewEvent(x)
      BY <1>1, <1>10, <2>2
    <3> QED BY <1>1, <3>1, RowSent DEF IInv
  <2> QED BY <1>9, <2>1, <2>2
<1>12. SentTrue'
  <2>1. /\ processed' \subseteq sent' /\ invoices' \subseteq sent'
        /\ delivery' \in [Deliveries -> [pc : {"idle", "apply", "record"}, event : sent' \cup {NoEvent}]]
        /\ \A d \in Deliveries : delivery'[d].pc # "idle" => delivery'[d].event \in sent'
    BY <1>1 DEF IInv, SentTrue
  <2>2. \A f \in sent' : /\ f.sub \in Subs /\ f.kind \in {"completed", "subscription", "invoice"}
                        /\ f.status \in {"active", "past_due", "canceled"}
    BY <1>1, <1>7 DEF IInv, SentTrue
  <2>3. \A f \in sent' : f.kind = "subscription" => f.n \in 0..sub'[f.sub].n /\ sub'[f.sub].status # "none"
    BY <1>1, <1>4, <1>7, <1>8 DEF IInv, SentTrue
  <2>4. \A f, g \in sent' : f.kind = "subscription" /\ g.kind = "subscription" /\ f.sub = g.sub /\ f.n = g.n
          => f.status = g.status
    BY <1>1, <1>7, <1>8 DEF IInv, SentTrue
  <2>5. \A t \in Subs : sub'[t].status # "none" =>
          \E f \in sent' : /\ f.kind = "subscription" /\ f.sub = t
                            /\ f.n = sub'[t].n /\ f.status = sub'[t].status
    BY <1>1, <1>4, <1>7 DEF IInv, SentTrue
  <2> QED BY <2>1, <2>2, <2>3, <2>4, <2>5 DEF SentTrue
<1> QED BY <1>6, <1>11, <1>12 DEF IInv

LEMMA MovesStep == ASSUME IInv, NEW s \in Subs, moves(s) PROVE IInv'
<1>1. PICK st \in {"active", "past_due", "canceled"} :
        /\ sub' = [sub EXCEPT ![s] = [status |-> st, n |-> @.n + 1]]
        /\ sent' = sent \cup {Event("subscription", s, st, sub[s].n + 1)}
  BY DEF moves
<1> DEFINE e == Event("subscription", s, st, sub[s].n + 1)
<1>2. /\ UNCHANGED <<row, invoices, processed, buyer, delivery, session, blind, disorder>>
      /\ s \in LiveSubs /\ sub[s].n < MaxMoves
  BY DEF moves, apiVars
<1>3. /\ sub[s].status \in LIVE_STATUSES /\ sub[s].n \in Nat /\ sub[s].n + 1 \in 0..MaxMoves
  BY <1>2, SubscriptionConstants DEF IInv, Sold, Sub, LiveSubs
<1>4. /\ sub' \in [Subs -> Sub] /\ sub'[s].status = st /\ sub'[s].n = sub[s].n + 1
      /\ \A t \in Subs \ {s} : sub'[t] = sub[t]
  BY <1>1, <1>3 DEF IInv, Sold, Sub
<1>5. \A t \in Subs : Paying(t)' => Paying(t)
  BY <1>2, <1>3, <1>4 DEF Paying
<1>6. Sold'
  BY <1>2, <1>3, <1>4, <1>5 DEF IInv, Sold, LIVE_STATUSES
<1>7. e.kind = "subscription" /\ e.sub = s /\ e.n = sub[s].n + 1 /\ e.status = st /\ sent' = sent \cup {e}
  BY <1>1 DEF Event
<1> HIDE DEF e
<1>8. \A f \in sent : f.kind = "subscription" /\ f.sub = s => f.n \in 0..sub[s].n
  BY DEF IInv, SentTrue
<1>9. NewEvent(e)
  BY <1>3, <1>7, <1>8 DEF NewEvent
<1>10. RowNewest'
  <2>1. \A x \in sent' \ sent : NewEvent(x)
    BY <1>7, <1>9
  <2> QED BY <1>2, <1>7, <2>1, RowSent DEF IInv
<1>11. SentTrue'
  <2>1. /\ processed' \subseteq sent' /\ invoices' \subseteq sent'
        /\ delivery' \in [Deliveries -> [pc : {"idle", "apply", "record"}, event : sent' \cup {NoEvent}]]
        /\ \A d \in Deliveries : delivery'[d].pc # "idle" => delivery'[d].event \in sent'
    BY <1>2, <1>7 DEF IInv, SentTrue
  <2>2. \A f \in sent' : /\ f.sub \in Subs /\ f.kind \in {"completed", "subscription", "invoice"}
                        /\ f.status \in {"active", "past_due", "canceled"}
    BY <1>7 DEF IInv, SentTrue
  <2>3. \A f \in sent' : f.kind = "subscription" => f.n \in 0..sub'[f.sub].n /\ sub'[f.sub].status # "none"
    <3>1. ASSUME NEW f \in sent', f.kind = "subscription", f.sub = s
          PROVE  f.n \in 0..sub'[f.sub].n /\ sub'[f.sub].status # "none"
      BY <1>3, <1>4, <1>7, <1>8, <3>1
    <3>2. ASSUME NEW f \in sent', f.kind = "subscription", f.sub # s
          PROVE  f.n \in 0..sub'[f.sub].n /\ sub'[f.sub].status # "none"
      BY <1>4, <1>7, <3>2 DEF IInv, SentTrue
    <3> QED BY <3>1, <3>2
  <2>4. \A f, g \in sent' : f.kind = "subscription" /\ g.kind = "subscription" /\ f.sub = g.sub /\ f.n = g.n
          => f.status = g.status
    BY <1>3, <1>7, <1>8 DEF IInv, SentTrue
  <2>5. \A t \in Subs : sub'[t].status # "none" =>
          \E f \in sent' : /\ f.kind = "subscription" /\ f.sub = t
                            /\ f.n = sub'[t].n /\ f.status = sub'[t].status
    BY <1>4, <1>7 DEF IInv, SentTrue
  <2> QED BY <2>1, <2>2, <2>3, <2>4, <2>5 DEF SentTrue
<1> QED BY <1>6, <1>10, <1>11 DEF IInv

LEMMA BillsStep == ASSUME IInv, NEW s \in Subs, bills(s) PROVE IInv'
<1> DEFINE e == Event("invoice", s, sub[s].status, sub[s].n)
<1>1. /\ UNCHANGED <<row, invoices, processed, buyer, delivery, session, sub, blind, disorder>>
      /\ ~\E f \in sent : f.kind = "invoice" /\ f.sub = s
      /\ sent' = sent \cup {e}
  BY DEF bills, apiVars
<1>2. /\ e.kind = "invoice" /\ e.sub = s /\ (e.known => row.sub = s)
      /\ e.status \in {"active", "past_due", "canceled"}
  BY DEF Event, bills, LiveSubs, LIVE_STATUSES
<1> HIDE DEF e
<1>3. NewEvent(e)
  BY <1>1, <1>2 DEF NewEvent
<1>4. RowNewest'
  <2>1. \A x \in sent' \ sent : NewEvent(x)
    BY <1>1, <1>3
  <2> QED BY <1>1, <2>1, RowSent DEF IInv
<1>5. Sold'
  BY <1>1 DEF IInv, Sold, Paying
<1>6. SentTrue'
  BY <1>1, <1>2 DEF IInv, SentTrue
<1> QED BY <1>4, <1>5, <1>6 DEF IInv

-----------------------------------------------------------------------------
\* A delivery changes neither Stripe nor the requests.
LEMMA Delivered ==
  ASSUME IInv, UNCHANGED <<buyer, session, sub, blind>>, row'.there \/ UNCHANGED row
  PROVE  Sold'
BY DEF IInv, Sold, Paying

\* ... and what it keeps was sent.
LEMMA KeptSent ==
  ASSUME IInv, NEW d \in Deliveries, UNCHANGED <<sub, sent>>,
         processed' \subseteq sent, invoices' \subseteq sent,
         NEW q \in [pc : {"idle", "apply", "record"}, event : sent \cup {NoEvent}],
         delivery' = [delivery EXCEPT ![d] = q], q.pc # "idle" => q.event \in sent
  PROVE  SentTrue'
BY DEF IInv, SentTrue

LEMMA HandleStep == ASSUME IInv, NEW d \in Deliveries, handle(d) PROVE IInv'
<1>1. PICK e \in sent \ processed : delivery' = [delivery EXCEPT ![d] = [pc |-> "apply", event |-> e]]
  BY DEF handle
<1>2. UNCHANGED <<row, invoices, processed, buyer, session, sub, sent, blind, disorder>>
  BY DEF handle, apiVars, stripeSide
<1>3. Sold'
  BY <1>2, Delivered
<1>4. SentTrue'
  BY <1>1, <1>2, KeptSent DEF IInv, SentTrue
<1>5. \A f : Applied(f)' => Applied(f)
  BY <1>1, <1>2 DEF Applied, IInv, SentTrue
<1>6. RowNewest'
  BY <1>2, <1>5 DEF IInv, RowNewest
<1> QED BY <1>3, <1>4, <1>6 DEF IInv

\* The handler's last statement but one: its event is applied.
LEMMA Recording ==
  ASSUME IInv, NEW d \in Deliveries, delivery' = [delivery EXCEPT ![d].pc = "record"],
         delivery[d].pc = "apply", UNCHANGED processed
  PROVE  /\ \A f : Applied(f)' => Applied(f) \/ f = delivery[d].event
         /\ delivery[d].event \in sent
         /\ delivery' = [delivery EXCEPT ![d] = [pc |-> "record", event |-> delivery[d].event]]
<1>1. /\ delivery[d] \in [pc : {"idle", "apply", "record"}, event : sent \cup {NoEvent}]
      /\ delivery[d].event \in sent
  BY DEF IInv, SentTrue
<1>2. delivery' = [delivery EXCEPT ![d] = [pc |-> "record", event |-> delivery[d].event]]
  <2> DEFINE q == delivery[d]
  <2>1. q \in [pc : {"idle", "apply", "record"}, event : sent \cup {NoEvent}]
    BY <1>1
  <2>2. delivery' = [delivery EXCEPT ![d] = [q EXCEPT !.pc = "record"]]
    OBVIOUS
  <2> HIDE DEF q
  <2>3. [q EXCEPT !.pc = "record"] = [pc |-> "record", event |-> q.event]
    BY <2>1
  <2>4. delivery' = [delivery EXCEPT ![d] = [pc |-> "record", event |-> q.event]]
    BY <2>2, <2>3
  <2> QED BY <2>4 DEF q
<1>3. \A f : Applied(f)' => Applied(f) \/ f = delivery[d].event
  BY <1>2 DEF Applied, IInv, SentTrue
<1> QED BY <1>1, <1>2, <1>3

LEMMA CheckoutStep == ASSUME IInv, NEW d \in Deliveries, onCheckoutCompleted(d) PROVE IInv'
<1> DEFINE e == delivery[d].event
<1>1. /\ row' = [row EXCEPT !.there = TRUE, !.sub = e.sub, !.plan = session[e.sub].plan]
      /\ disorder' = (disorder \/ row.sub \notin {NoSub, e.sub})
      /\ delivery[d].pc = "apply" /\ e.kind = "completed"
      /\ delivery' = [delivery EXCEPT ![d].pc = "record"]
      /\ UNCHANGED <<invoices, processed, buyer, session, sub, sent, blind>>
  BY DEF onCheckoutCompleted, stripeSide
<1>2. /\ \A f : Applied(f)' => Applied(f) \/ f = e
      /\ e \in sent /\ delivery' = [delivery EXCEPT ![d] = [pc |-> "record", event |-> e]]
  BY <1>1, Recording
<1> HIDE DEF e
<1>3. e.sub \in Subs /\ session[e.sub].plan \in Plans \cup {NoPlan}
  BY <1>2 DEF IInv, SentTrue, Sold, Session
<1>4. /\ row'.there /\ row'.sub = e.sub /\ row'.n = row.n /\ row'.status = row.status
      /\ row' \in [there : BOOLEAN, sub : Subs \cup {NoSub}, plan : Plans \cup {NoPlan},
              status : {"incomplete", "active", "past_due", "canceled"}, n : Nat]
  BY <1>1, <1>3 DEF IInv, RowNewest
<1>5. Sold'
  BY <1>1, <1>4, Delivered
<1>6. SentTrue'
  BY <1>1, <1>2, KeptSent DEF IInv, SentTrue
<1>7. ~disorder' => ~disorder /\ row.sub \in {NoSub, e.sub}
  BY <1>1
<1>8. \A f \in sent : f.sub \in Subs /\ f.sub # NoSub
  BY SubscriptionConstants DEF IInv, SentTrue
<1>9. RowNewest'
  BY <1>1, <1>2, <1>4, <1>7, <1>8 DEF IInv, RowNewest
<1> QED BY <1>5, <1>6, <1>9 DEF IInv

LEMMA ChangedStep == ASSUME IInv, NEW d \in Deliveries, onSubscriptionChanged(d) PROVE IInv'
<1> DEFINE e == delivery[d].event
<1>1. /\ row' = [there |-> TRUE, sub |-> e.sub, plan |-> session[e.sub].plan,
                 status |-> e.status, n |-> e.n]
      /\ disorder' = (disorder \/ row.sub \notin {NoSub, e.sub} \/ row.n > e.n)
      /\ delivery[d].pc = "apply" /\ e.kind = "subscription"
      /\ delivery' = [delivery EXCEPT ![d].pc = "record"]
      /\ UNCHANGED <<invoices, processed, buyer, session, sub, sent, blind>>
  BY DEF onSubscriptionChanged, stripeSide
<1>2. /\ \A f : Applied(f)' => Applied(f) \/ f = e
      /\ e \in sent /\ delivery' = [delivery EXCEPT ![d] = [pc |-> "record", event |-> e]]
  BY <1>1, Recording
<1> HIDE DEF e
<1>3. /\ e.sub \in Subs /\ session[e.sub].plan \in Plans \cup {NoPlan}
      /\ e.n \in Nat /\ e.status \in {"active", "past_due", "canceled"}
  BY <1>1, <1>2 DEF IInv, SentTrue, Sold, Session, Sub
<1>4. row' \in [there : BOOLEAN, sub : Subs \cup {NoSub}, plan : Plans \cup {NoPlan},
              status : {"incomplete", "active", "past_due", "canceled"}, n : Nat]
  BY <1>1, <1>3
<1>5. Sold'
  BY <1>1, Delivered
<1>6. SentTrue'
  BY <1>1, <1>2, KeptSent DEF IInv, SentTrue
<1>7. ~disorder' => ~disorder /\ row.sub \in {NoSub, e.sub} /\ ~(row.n > e.n)
  BY <1>1
<1>8. \A f \in sent : f.sub \in Subs /\ f.sub # NoSub
  BY SubscriptionConstants DEF IInv, SentTrue
<1>9. \A f \in sent : f.kind = "subscription" => f.n \in Nat
  BY DEF IInv, SentTrue
<1>10. row'.sub = e.sub /\ row'.n = e.n /\ row'.status = e.status /\ row.n \in Nat
  BY <1>1 DEF IInv, RowNewest
<1>11. RowNewest'
  BY <1>1, <1>2, <1>3, <1>4, <1>7, <1>8, <1>9, <1>10 DEF IInv, RowNewest
<1> QED BY <1>5, <1>6, <1>11 DEF IInv

LEMMA InvoiceStep == ASSUME IInv, NEW d \in Deliveries, onInvoice(d) PROVE IInv'
<1> DEFINE e == delivery[d].event
<1>1. /\ invoices' = IF row.sub = e.sub THEN invoices \cup {e} ELSE invoices
      /\ delivery[d].pc = "apply" /\ e.kind = "invoice"
      /\ delivery' = [delivery EXCEPT ![d].pc = "record"]
      /\ UNCHANGED <<row, processed, buyer, session, sub, sent, blind, disorder>>
  BY DEF onInvoice, stripeSide
<1>2. /\ \A f : Applied(f)' => Applied(f) \/ f = e
      /\ e \in sent /\ delivery' = [delivery EXCEPT ![d] = [pc |-> "record", event |-> e]]
  BY <1>1, Recording
<1> HIDE DEF e
<1>3. Sold'
  BY <1>1, Delivered
<1>4. SentTrue'
  BY <1>1, <1>2, KeptSent DEF IInv, SentTrue
<1>5. RowNewest'
  BY <1>1, <1>2 DEF IInv, RowNewest
<1> QED BY <1>3, <1>4, <1>5 DEF IInv

\* Recorded or given up, the delivery is over.
LEMMA EndStep ==
  ASSUME IInv, NEW d \in Deliveries, recordEvent(d) \/ deliveryFails(d) PROVE IInv'
<1>1. /\ UNCHANGED <<row, invoices, buyer, session, sub, sent, blind, disorder>>
      /\ delivery' = [delivery EXCEPT ![d] = Idle]
      /\ \/ processed' = processed
         \/ processed' = processed \cup {delivery[d].event} /\ delivery[d].pc = "record"
  BY DEF recordEvent, deliveryFails, apiVars, stripeSide
<1>2. \A f : Applied(f)' => Applied(f)
  BY <1>1 DEF Applied, IInv, SentTrue, Idle
<1>3. processed' \subseteq sent
  BY <1>1 DEF IInv, SentTrue
<1>4. SentTrue'
  BY <1>1, <1>3, KeptSent DEF IInv, SentTrue, Idle
<1>5. Sold'
  BY <1>1, Delivered
<1>6. RowNewest'
  BY <1>1, <1>2 DEF IInv, RowNewest
<1> QED BY <1>4, <1>5, <1>6 DEF IInv

LEMMA Stepwise == IInv /\ [SubscriptionNext]_subscriptionVars => IInv'
<1> SUFFICES ASSUME IInv, [SubscriptionNext]_subscriptionVars PROVE IInv'
  OBVIOUS
<1>1. CASE UNCHANGED subscriptionVars
  <2>1. UNCHANGED <<row, invoices, processed, buyer, delivery, session, sub, sent, blind, disorder>>
    BY <1>1 DEF subscriptionVars, apiVars, stripeSide
  <2>2. Sold'
    BY <2>1 DEF IInv, Sold, Paying
  <2> QED BY <2>1, <2>2, Elsewhere
<1>2. ASSUME NEW b \in Buyers,
             createCheckoutSession(b) \/ createCustomer(b) \/ checkoutIdempotencyKey(b)
      PROVE  IInv'
  BY <1>2, CheckStep, CustomerStep, SessionStep
<1>3. ASSUME NEW s \in Subs, completes(s) \/ expires(s) \/ moves(s) \/ bills(s) PROVE IInv'
  BY <1>3, CompletesStep, ExpiresStep, MovesStep, BillsStep
<1>4. ASSUME NEW p \in Plans, keyLapses(p) PROVE IInv'
  BY <1>4, LapseStep
<1>5. ASSUME NEW d \in Deliveries, \/ handle(d) \/ onCheckoutCompleted(d)
                                  \/ onSubscriptionChanged(d) \/ onInvoice(d)
                                  \/ recordEvent(d) \/ deliveryFails(d)
      PROVE  IInv'
  BY <1>5, HandleStep, CheckoutStep, ChangedStep, InvoiceStep, EndStep
<1> QED BY <1>1, <1>2, <1>3, <1>4, <1>5 DEF SubscriptionNext

LEMMA Inductive == SubscriptionSpec => []IInv
<1>1. SubscriptionInit => IInv
  BY Initially
<1> QED BY <1>1, Stepwise, PTL DEF SubscriptionSpec

\* However many requests check and open sessions, a second live subscription
\* needs a check that was wrong when it was made or stale when it was used.
THEOREM SecondSold == SubscriptionSpec => []SecondOnlyWhenBlind
<1>1. IInv => SecondOnlyWhenBlind
  <2> SUFFICES ASSUME IInv, ~blind PROVE ~(Cardinality(LiveSubs) > 1)
    BY DEF SecondOnlyWhenBlind
  <2>1. \A s, t \in LiveSubs : s = t
    BY DEF IInv, Sold, Paying, LiveSubs
  <2>2. CASE LiveSubs = {}
    BY <2>2, FS_EmptySet
  <2>3. CASE LiveSubs # {}
    <3>1. PICK s \in LiveSubs : LiveSubs = {s}
      BY <2>1, <2>3
    <3>2. Cardinality(LiveSubs) = 1
      BY <3>1, FS_Singleton
    <3> QED BY <3>2
  <2> QED BY <2>2, <2>3
<1> QED BY <1>1, Inductive, PTL

\* However events are repeated, reordered and lost half-way, the mirror settles
\* on what Stripe says and keeps the invoices, unless an older event overtook.
THEOREM MirrorStays == SubscriptionSpec => []MirrorKept
<1>1. IInv => MirrorSettles
  <2> SUFFICES ASSUME IInv, sent = processed, ~disorder, NEW s \in Subs, sub[s].status # "none"
               PROVE  row.sub = s /\ row.status = sub[s].status
    BY DEF MirrorSettles
  <2>1. PICK e \in sent : /\ e.kind = "subscription" /\ e.sub = s
                          /\ e.n = sub[s].n /\ e.status = sub[s].status
    BY DEF IInv, SentTrue
  <2>2. Applied(e)
    BY <2>1 DEF Applied
  <2>3. /\ row.sub = s /\ sub[s].n <= row.n
        /\ \E f \in sent : f.kind = "subscription" /\ f.sub = s /\ f.n = row.n /\ f.status = row.status
    BY <2>1, <2>2 DEF IInv, RowNewest
  <2>4. PICK f \in sent : f.kind = "subscription" /\ f.sub = s /\ f.n = row.n /\ f.status = row.status
    BY <2>3
  <2>5. f.n \in 0..sub[s].n /\ sub[s].n \in Nat
    BY <2>4 DEF IInv, SentTrue, Sold, Sub
  <2>6. f.n = e.n
    BY <2>1, <2>3, <2>4, <2>5
  <2> QED BY <2>1, <2>3, <2>4, <2>6 DEF IInv, SentTrue
<1>2. IInv => InvoicesKept
  BY DEF IInv, SentTrue, RowNewest, Applied, InvoicesKept
<1> QED BY <1>1, <1>2, Inductive, PTL DEF MirrorKept

-----------------------------------------------------------------------------
(* The domains.                                                               *)

\* Who is about to stamp a row has seen its token; who is about to set a domain
\* has a proof for it, or the proof went since and was noted.
CallsKnow ==
  \A c \in DomainCalls :
    /\ dcall[c].pc # "idle" => Target(c) \in Owned
    /\ dcall[c].pc = "stamp" => <<Target(c), dcall[c].id>> \in txt
    /\ dcall[c].pc = "set" => proof[Target(c)].verified \/ dcall[c].org \in overtaken

\* A row that is there was added.
IdsStart == \A w \in Owned : proof[w].there => proof[w].id > 0

DomainIInv ==
  DomainTypeOK /\ IdsStart /\ CallsKnow /\ StampedWasPublished /\ UnprovenWasOvertaken

LEMMA DomainInitially == ASSUME DomainInit PROVE DomainIInv
BY DomainConstants DEF DomainInit, IdsStart, DomainIInv, DomainTypeOK, CallsKnow, StampedWasPublished,
  UnprovenWasOvertaken, NoDomainCall, Owned, Target

\* A call that starts has read the row of its domain.
LEMMA CallStarts ==
  ASSUME DomainIInv, NEW c \in DomainCalls, NEW o \in Workspaces, NEW d \in Names,
         NEW pc \in {"create", "stamp", "delete", "set"}, CallStep(c, pc, o, d),
         UNCHANGED <<proof, autoJoin, txt, overtaken>>,
         pc = "stamp" => <<<<o, d>>, proof[<<o, d>>].id>> \in txt,
         pc = "set" => proof[<<o, d>>].verified
  PROVE  DomainIInv'
<1> USE DomainConstants DEF IdsStart
<1>1. proof[<<o, d>>].id \in 0..MaxProofs
  BY DEF DomainIInv, DomainTypeOK, Owned
<1>2. /\ dcall'[c] = [pc |-> pc, org |-> o, name |-> d, id |-> proof[<<o, d>>].id]
      /\ \A e \in DomainCalls \ {c} : dcall'[e] = dcall[e]
      /\ DOMAIN dcall' = DomainCalls
  BY DEF CallStep, DomainIInv, DomainTypeOK
<1>3. DomainTypeOK'
  BY <1>1, <1>2 DEF DomainIInv, DomainTypeOK, CallStep
<1>4. CallsKnow'
  <2>1. ASSUME NEW e \in DomainCalls
        PROVE  /\ dcall'[e].pc # "idle" => Target(e)' \in Owned
               /\ dcall'[e].pc = "stamp" => <<Target(e)', dcall'[e].id>> \in txt
               /\ dcall'[e].pc = "set" => proof[Target(e)'].verified \/ dcall'[e].org \in overtaken
    <3>1. CASE e = c
      <4>1. Target(e)' = <<o, d>>
        BY <1>2, <3>1 DEF Target
      <4> QED BY <1>2, <3>1, <4>1 DEF Owned
    <3>2. CASE e # c
      <4>1. Target(e)' = Target(e)
        BY <1>2, <3>2 DEF Target
      <4> QED BY <1>2, <3>2, <4>1 DEF DomainIInv, CallsKnow
    <3> QED BY <3>1, <3>2
  <2> QED BY <2>1 DEF CallsKnow, Target
<1>5. IdsStart' /\ StampedWasPublished' /\ UnprovenWasOvertaken'
  BY DEF DomainIInv, StampedWasPublished, UnprovenWasOvertaken
<1> QED BY <1>3, <1>4, <1>5 DEF DomainIInv

\* What a call that ends leaves to be shown: the rows it has written.
LEMMA CallEnds ==
  ASSUME DomainIInv, NEW c \in DomainCalls, dcall[c].pc # "idle", CallEnd(c),
         proof' \in [Owned -> [id : 0..MaxProofs, there : BOOLEAN, verified : BOOLEAN]],
         autoJoin' \in [Workspaces -> Names \cup {NoName}],
         overtaken \subseteq overtaken', overtaken' \subseteq Workspaces, txt' = txt,
         \A e \in DomainCalls : dcall[e].pc = "set" /\ proof[Target(e)].verified
           => proof'[Target(e)].verified \/ dcall[e].org \in overtaken',
         IdsStart', StampedWasPublished', UnprovenWasOvertaken'
  PROVE  DomainIInv'
<1> USE DomainConstants DEF IdsStart
<1>1. /\ dcall'[c] = NoDomainCall
      /\ \A e \in DomainCalls \ {c} : dcall'[e] = dcall[e]
      /\ DOMAIN dcall' = DomainCalls
  BY DEF CallEnd, DomainIInv, DomainTypeOK
<1>2. DomainTypeOK'
  BY <1>1 DEF DomainIInv, DomainTypeOK, CallEnd, NoDomainCall
<1>3. ASSUME NEW e \in DomainCalls
      PROVE  /\ dcall'[e].pc # "idle" => Target(e)' \in Owned
             /\ dcall'[e].pc = "stamp" => <<Target(e)', dcall'[e].id>> \in txt'
             /\ dcall'[e].pc = "set" => proof'[Target(e)'].verified \/ dcall'[e].org \in overtaken'
  <2>1. CASE e = c
    BY <1>1, <2>1 DEF NoDomainCall
  <2>2. CASE e # c
    BY <1>1, <2>2 DEF DomainIInv, CallsKnow, Target
  <2> QED BY <2>1, <2>2
<1>4. CallsKnow'
  BY <1>3 DEF CallsKnow, Target
<1> QED BY <1>2, <1>4 DEF DomainIInv

LEMMA DomainStep == ASSUME DomainIInv, [DomainNext]_domainVars PROVE DomainIInv'
<1> USE DomainConstants DEF IdsStart
<1>1. ASSUME NEW c \in DomainCalls, addDomain(c) \/ verify(c) \/ removeDomain(c) \/ isVerified(c)
      PROVE  DomainIInv'
  BY <1>1, CallStarts DEF addDomain, verify, removeDomain, isVerified
<1>2. ASSUME NEW c \in DomainCalls, createProof(c) PROVE DomainIInv'
  <2>1. Target(c) \in Owned /\ ~proof[Target(c)].verified
    BY <1>2 DEF createProof, DomainIInv, DomainTypeOK, CallsKnow, StampedWasPublished
  <2>2. /\ proof'[Target(c)].id \in 1..MaxProofs /\ ~proof'[Target(c)].verified
        /\ \A w \in Owned \ {Target(c)} : proof'[w] = proof[w]
        /\ proof' \in [Owned -> [id : 0..MaxProofs, there : BOOLEAN, verified : BOOLEAN]]
    BY <1>2, <2>1 DEF createProof, DomainIInv, DomainTypeOK
  <2>3. IdsStart' /\ StampedWasPublished' /\ UnprovenWasOvertaken'
    BY <1>2, <2>1, <2>2 DEF createProof, DomainIInv, DomainTypeOK, StampedWasPublished, UnprovenWasOvertaken, Owned
  <2>4. \A e \in DomainCalls : dcall[e].pc = "set" /\ proof[Target(e)].verified
           => proof'[Target(e)].verified
    BY <2>1, <2>2 DEF DomainIInv, CallsKnow
  <2>5. /\ dcall[c].pc # "idle" /\ CallEnd(c) /\ UNCHANGED <<autoJoin, txt, overtaken>>
        /\ autoJoin' \in [Workspaces -> Names \cup {NoName}] /\ overtaken' \subseteq Workspaces
    BY <1>2 DEF createProof, DomainIInv, DomainTypeOK
  <2> QED BY <2>2, <2>3, <2>4, <2>5, CallEnds
<1>3. ASSUME NEW c \in DomainCalls, verifyWrite(c) PROVE DomainIInv'
  <2>1. Target(c) \in Owned /\ <<Target(c), proof[Target(c)].id>> \in txt
    BY <1>3 DEF verifyWrite, DomainIInv, CallsKnow
  <2>2. /\ proof'[Target(c)].verified /\ proof'[Target(c)].there
        /\ proof'[Target(c)].id = proof[Target(c)].id
        /\ \A w \in Owned \ {Target(c)} : proof'[w] = proof[w]
        /\ proof' \in [Owned -> [id : 0..MaxProofs, there : BOOLEAN, verified : BOOLEAN]]
    BY <1>3, <2>1 DEF verifyWrite, DomainIInv, DomainTypeOK
  <2>4. IdsStart' /\ StampedWasPublished' /\ UnprovenWasOvertaken'
    BY <1>3, <2>1, <2>2 DEF verifyWrite, DomainIInv, StampedWasPublished, UnprovenWasOvertaken, Owned
  <2>5. \A e \in DomainCalls : dcall[e].pc = "set" /\ proof[Target(e)].verified
           => proof'[Target(e)].verified
    BY <2>1, <2>2 DEF DomainIInv, CallsKnow
  <2>6. /\ dcall[c].pc # "idle" /\ CallEnd(c) /\ UNCHANGED <<autoJoin, txt, overtaken>>
        /\ autoJoin' \in [Workspaces -> Names \cup {NoName}] /\ overtaken' \subseteq Workspaces
    BY <1>3 DEF verifyWrite, DomainIInv, DomainTypeOK
  <2> QED BY <2>2, <2>4, <2>5, <2>6, CallEnds
<1>4. ASSUME NEW c \in DomainCalls, deleteProof(c) PROVE DomainIInv'
  <2>1. /\ Target(c) \in Owned /\ dcall[c].org \in Workspaces /\ dcall[c].name \in Names
        /\ Target(c) = <<dcall[c].org, dcall[c].name>>
    BY <1>4 DEF deleteProof, DomainIInv, CallsKnow, Target, Owned
  <2>2. /\ ~proof'[Target(c)].verified
        /\ \A w \in Owned \ {Target(c)} : proof'[w] = proof[w]
        /\ proof' \in [Owned -> [id : 0..MaxProofs, there : BOOLEAN, verified : BOOLEAN]]
    BY <1>4, <2>1 DEF deleteProof, DomainIInv, DomainTypeOK
  <2>3. /\ \A o \in Workspaces \ {dcall[c].org} : autoJoin'[o] = autoJoin[o]
        /\ autoJoin'[dcall[c].org] # dcall[c].name
        /\ autoJoin'[dcall[c].org] \in {autoJoin[dcall[c].org], NoName}
        /\ autoJoin' \in [Workspaces -> Names \cup {NoName}]
    BY <1>4, <2>1 DEF deleteProof, DomainIInv, DomainTypeOK
  <2>4. /\ overtaken' = overtaken \cup Checked(Target(c)) /\ overtaken' \subseteq Workspaces
    BY <1>4, <2>1 DEF deleteProof, Checked, DomainIInv, DomainTypeOK
  <2>5. IdsStart' /\ StampedWasPublished'
    BY <1>4, <2>1, <2>2 DEF deleteProof, DomainIInv, StampedWasPublished
  <2>6. UnprovenWasOvertaken'
    BY <2>1, <2>2, <2>3, <2>4 DEF DomainIInv, DomainTypeOK, UnprovenWasOvertaken, Owned
  <2>7. \A e \in DomainCalls : dcall[e].pc = "set" /\ proof[Target(e)].verified
           => proof'[Target(e)].verified \/ dcall[e].org \in overtaken'
    <3>1. TAKE e \in DomainCalls
    <3>2. HAVE dcall[e].pc = "set" /\ proof[Target(e)].verified
    <3>3. Target(e) \in Owned
      BY <3>2 DEF DomainIInv, CallsKnow
    <3>4. CASE Target(e) = Target(c)
      BY <2>1, <2>4, <3>2, <3>4 DEF Checked, Target
    <3>5. CASE Target(e) # Target(c)
      BY <2>2, <3>2, <3>3, <3>5
    <3> QED BY <3>4, <3>5
  <2>8. dcall[c].pc # "idle" /\ CallEnd(c) /\ txt' = txt /\ overtaken \subseteq overtaken'
    BY <1>4, <2>4 DEF deleteProof
  <2> QED BY <2>2, <2>3, <2>4, <2>5, <2>6, <2>7, <2>8, CallEnds
<1>5. ASSUME NEW c \in DomainCalls, updateWrite(c) PROVE DomainIInv'
  <2>1. /\ dcall[c].org \in Workspaces /\ dcall[c].name \in Names
        /\ proof[<<dcall[c].org, dcall[c].name>>].verified \/ dcall[c].org \in overtaken
    BY <1>5 DEF updateWrite, DomainIInv, CallsKnow, Target, Owned
  <2>2. /\ \A o \in Workspaces \ {dcall[c].org} : autoJoin'[o] = autoJoin[o]
        /\ autoJoin'[dcall[c].org] = dcall[c].name
        /\ autoJoin' \in [Workspaces -> Names \cup {NoName}]
    BY <1>5, <2>1 DEF updateWrite, DomainIInv, DomainTypeOK
  <2>3. IdsStart' /\ StampedWasPublished' /\ UnprovenWasOvertaken'
    BY <1>5, <2>1, <2>2 DEF updateWrite, DomainIInv, StampedWasPublished, UnprovenWasOvertaken
  <2>4. /\ dcall[c].pc # "idle" /\ CallEnd(c) /\ UNCHANGED <<proof, txt, overtaken>>
        /\ proof' \in [Owned -> [id : 0..MaxProofs, there : BOOLEAN, verified : BOOLEAN]]
        /\ overtaken' \subseteq Workspaces
    BY <1>5 DEF updateWrite, DomainIInv, DomainTypeOK
  <2> QED BY <2>2, <2>3, <2>4, CallEnds
<1>6. ASSUME NEW c \in DomainCalls, domainRefused(c) PROVE DomainIInv'
  <2>1. IdsStart' /\ StampedWasPublished' /\ UnprovenWasOvertaken'
    BY <1>6 DEF domainRefused, DomainIInv, StampedWasPublished, UnprovenWasOvertaken
  <2>2. /\ dcall[c].pc # "idle" /\ CallEnd(c) /\ UNCHANGED <<proof, autoJoin, txt, overtaken>>
        /\ proof' \in [Owned -> [id : 0..MaxProofs, there : BOOLEAN, verified : BOOLEAN]]
        /\ autoJoin' \in [Workspaces -> Names \cup {NoName}] /\ overtaken' \subseteq Workspaces
    BY <1>6 DEF domainRefused, DomainIInv, DomainTypeOK
  <2> QED BY <2>1, <2>2, CallEnds
<1>7. CASE publish
  <2>1. txt \subseteq txt' /\ UNCHANGED <<proof, autoJoin, dcall, overtaken>>
    BY <1>7 DEF publish
  <2>2. txt' \subseteq Owned \X (1..MaxProofs)
    <3>1. PICK w \in Owned : proof[w].there /\ txt' = txt \cup {<<w, proof[w].id>>}
      BY <1>7 DEF publish
    <3>2. proof[w].id \in 1..MaxProofs
      BY <3>1 DEF DomainIInv, DomainTypeOK, IdsStart
    <3> QED BY <3>1, <3>2 DEF DomainIInv, DomainTypeOK
  <2> QED BY <2>1, <2>2 DEF DomainIInv, DomainTypeOK, CallsKnow, Target, StampedWasPublished,
        UnprovenWasOvertaken
<1>8. CASE switchOff
  BY <1>8 DEF switchOff, DomainIInv, DomainTypeOK, CallsKnow, Target, StampedWasPublished,
    UnprovenWasOvertaken
<1>9. CASE UNCHANGED domainVars
  BY <1>9 DEF domainVars, DomainIInv, DomainTypeOK, CallsKnow, Target, StampedWasPublished,
    UnprovenWasOvertaken
<1> QED BY <1>1, <1>2, <1>3, <1>4, <1>5, <1>6, <1>7, <1>8, <1>9 DEF DomainNext

LEMMA DomainInvariant == DomainSpec => []DomainIInv
BY DomainInitially, DomainStep, PTL DEF DomainSpec

\* Every reachable state is of the types declared (Domains): a request holds
\* the id of a row that was added at most MaxProofs times.
THEOREM DomainTypesCorrect == DomainSpec => []DomainTypeOK
<1>1. DomainIInv => DomainTypeOK
  BY DEF DomainIInv
<1> QED BY <1>1, DomainInvariant, PTL

\* However many requests overlap, a verified row had its own token published
\* (domains.service.ts:78), and auto-join stays on without a proof only where
\* the proof was removed inside an update (orgs.service.ts:77).
THEOREM DomainsProven == DomainSpec => []ProofsKept
<1>1. DomainIInv => ProofsKept
  BY DEF DomainIInv, ProofsKept
<1> QED BY <1>1, DomainInvariant, PTL

-----------------------------------------------------------------------------
(* The decisions.                                                             *)

GateIInv == question \in Questions /\ DecisionsGrounded

\* Only the question that is asked gets an answer.
LEMMA OneKind ==
  ASSUME NEW kind, Ask(kind), UNCHANGED question, NEW k, k # kind
  PROVE  ~Answered(k)'
BY DEF Ask, Answered

LEMMA MappingAnswer == ASSUME question \in Questions, askMapping PROVE MappingGatesAgree'
<1> DEFINE q == question
           observed == q.observed
           asserted == assertVerifiedPurchaseMapping(q.mapping, q.cycle, q.observed)
           evidence == productEvidence(q.mapping)
           enabled == isPurchaseEnabled(q.mapping, q.cycle)
           unread == assertVerifiedPurchaseMapping(q.mapping, q.cycle, {})
<1>1. answer' = [done |-> TRUE, is |-> [enabled |-> enabled, asserted |-> asserted, evidence |-> evidence]]
      /\ question' = question
  BY DEF askMapping, Answer
<1>2. /\ answer'.is.enabled = enabled /\ answer'.is.asserted = asserted
      /\ answer'.is.evidence = evidence
  BY <1>1
<1>3. q.mapping.billingCycle \in Cycles \cup {NoCycle}
  BY DEF askMapping, Ask, Questions, MappingRecord
<1>4. /\ asserted => enabled
      /\ productMappingRecordSchema(q.mapping) => (q.cycle \in Cycles => (enabled <=> unread))
  BY <1>3, GateConstants
  DEF assertVerifiedPurchaseMapping, isPurchaseEnabled, Complete, productMappingRecordSchema
<1>5. LET evident == evidence.verified /\ evidence.enabled /\ evidence.destinationApproved
      IN /\ asserted => evident
         /\ productMappingRecordSchema(q.mapping) =>
              /\ enabled => evident
              /\ evident /\ q.cycle = q.mapping.billingCycle => enabled
  BY DEF assertVerifiedPurchaseMapping, isPurchaseEnabled, Complete, productMappingRecordSchema, productEvidence
<1> QED
  BY <1>1, <1>2, <1>4, <1>5 DEF MappingGatesAgree, assertVerifiedPurchaseMapping, productMappingRecordSchema,
     Complete

LEMMA GateAnswer == ASSUME askGate PROVE GateImpliesReadiness'
BY DEF askGate, Ask, Answer, GateImpliesReadiness, Answered, assessPurchaseGate, assessEntitlementReadiness

LEMMA OrderAnswer == ASSUME askOrder PROVE ReadyIsProved'
BY DEF askOrder, Ask, Answer, ReadyIsProved, Answered, assessEntitlementReadiness, verifyPayment,
   verifyFulfillment, retrievePaymentState, NotVerified

LEMMA RouteAnswer == ASSUME question \in Questions, askRoute PROVE RouteActsOnItsRow'
BY DEF askRoute, Ask, Answer, RouteActsOnItsRow, Answered, canActivate, resolveOrgId, pick, Questions

LEMMA ScopeAnswer == ASSUME askScope PROVE ScopeIsOwn'
BY DEF askScope, Ask, Answer, ScopeIsOwn, Answered, resolveAuthorizedAuditScope

LEMMA OverviewAnswer == ASSUME askOverview PROVE HealthyIsRead'
<1> DEFINE ok == question.ok
<1>1. /\ answer' = [done |-> TRUE, is |-> getOverview(ok)] /\ question' = question
  BY DEF askOverview, Answer
<1>2. getOverview(ok).fallbacks = {} <=> \A r \in Reads : ok[r]
  BY DEF getOverview
<1> QED
  BY <1>1, <1>2 DEF HealthyIsRead, getOverview, getApiRouteHealth, Health, Reads, OrderCounts, Registrations

\* Whatever is asked, the answer rests on the records it claims to rest on, and
\* answers that are computed in two places agree (phase3-*.ts, roles.guard.ts,
\* audit-ownership.plan.ts, dashboard.service.ts).
THEOREM AnswersGrounded == GateSpec => []DecisionsGrounded
<1>1. GateInit => GateIInv
  BY DEF GateInit, GateIInv, NoAnswer, Answered, DecisionsGrounded, MappingGatesAgree, GateImpliesReadiness,
     ReadyIsProved, RouteActsOnItsRow, ScopeIsOwn, HealthyIsRead
<1>2. GateIInv /\ [GateNext]_gateVars => GateIInv'
  <2> SUFFICES ASSUME GateIInv, [GateNext]_gateVars PROVE GateIInv'
    OBVIOUS
  <2>1. question' = question
    BY DEF GateNext, askMapping, askGate, askOrder, askRoute, askScope, askOverview, Answer, gateVars
  <2>2. CASE UNCHANGED gateVars
    BY <2>2 DEF GateIInv, gateVars, DecisionsGrounded, Answered, MappingGatesAgree, GateImpliesReadiness,
       ReadyIsProved, RouteActsOnItsRow, ScopeIsOwn, HealthyIsRead
  <2>3. CASE GateNext
    <3>1. /\ ~Answered("mapping")' => MappingGatesAgree'
          /\ ~Answered("gate")' => GateImpliesReadiness'
          /\ ~Answered("order")' => ReadyIsProved'
          /\ ~Answered("route")' => RouteActsOnItsRow'
          /\ ~Answered("scope")' => ScopeIsOwn'
          /\ ~Answered("overview")' => HealthyIsRead'
      BY DEF MappingGatesAgree, GateImpliesReadiness, ReadyIsProved, RouteActsOnItsRow, ScopeIsOwn, HealthyIsRead
    <3>2. ASSUME NEW k, NEW kind, Ask(kind), k # kind PROVE ~Answered(k)'
      BY <2>1, <3>2, OneKind
    <3>3. ASSUME askMapping PROVE DecisionsGrounded'
      <4>1. Ask("mapping") /\ MappingGatesAgree'
        BY <3>3, MappingAnswer DEF askMapping, GateIInv
      <4> QED
        BY <3>1, <3>2, <4>1 DEF DecisionsGrounded
    <3>4. ASSUME askGate PROVE DecisionsGrounded'
      <4>1. Ask("gate") /\ GateImpliesReadiness'
        BY <3>4, GateAnswer DEF askGate, GateIInv
      <4> QED
        BY <3>1, <3>2, <4>1 DEF DecisionsGrounded
    <3>5. ASSUME askOrder PROVE DecisionsGrounded'
      <4>1. Ask("order") /\ ReadyIsProved'
        BY <3>5, OrderAnswer DEF askOrder, GateIInv
      <4> QED
        BY <3>1, <3>2, <4>1 DEF DecisionsGrounded
    <3>6. ASSUME askRoute PROVE DecisionsGrounded'
      <4>1. Ask("route") /\ RouteActsOnItsRow'
        BY <3>6, RouteAnswer DEF askRoute, GateIInv
      <4> QED
        BY <3>1, <3>2, <4>1 DEF DecisionsGrounded
    <3>7. ASSUME askScope PROVE DecisionsGrounded'
      <4>1. Ask("scope") /\ ScopeIsOwn'
        BY <3>7, ScopeAnswer DEF askScope, GateIInv
      <4> QED
        BY <3>1, <3>2, <4>1 DEF DecisionsGrounded
    <3>8. ASSUME askOverview PROVE DecisionsGrounded'
      <4>1. Ask("overview") /\ HealthyIsRead'
        BY <3>8, OverviewAnswer DEF askOverview, GateIInv
      <4> QED
        BY <3>1, <3>2, <4>1 DEF DecisionsGrounded
    <3> QED
      BY <2>1, <2>3, <3>3, <3>4, <3>5, <3>6, <3>7, <3>8 DEF GateNext, GateIInv
  <2> QED
    BY <2>1, <2>2, <2>3 DEF GateIInv
<1> QED
  BY <1>1, <1>2, PTL DEF GateSpec, GateIInv
=============================================================================
