----------------------------- MODULE Fulfilment -----------------------------
(***************************************************************************)
(* Subscription orders of one organisation, from the Stripe webhook to the *)
(* ResellPortal service: StripeWebhookService, the in-process event bus,   *)
(* ProvisioningService and PaidOrderRecoveryService.                       *)
(*                                                                         *)
(* Each await on the database, Stripe or ResellPortal is a step boundary;  *)
(* a prisma.$transaction is one step.  An emitted domain event starts a    *)
(* listener run in the same process and is lost with it in a crash.        *)
(***************************************************************************)
EXTENDS Naturals, Sequences, FiniteSets, OrderStateMachine, UpdatedAt

CONSTANTS
  MaxOrders,    \* bound: Order rows; numbered in the order of createdAt
  Sessions,     \* Checkout Sessions in subscription mode, one subscription each
  Ending,       \* sessions whose subscription may end
  Hooks,        \* concurrent webhook deliveries being handled
  Runs,         \* bound: listener runs alive at once
  NoSession,
  Attempts,     \* DEFAULT_RETRY_DELAYS_MS.length
  Batch,        \* BATCH_SIZE of the recovery sweep
  DelayedPay,   \* payment methods that confirm after the session completes
  DbFaults,     \* a database write of a listener or sweep may fail
  MaxCrashes    \* bound: crashes of the API process in a behaviour

ASSUME FulfilmentConstants ==
  /\ MaxOrders \in Nat \ {0}
  /\ NoSession \notin Sessions
  /\ Ending \subseteq Sessions
  /\ Attempts \in Nat \ {0}
  /\ Batch \in Nat \ {0}
  /\ DelayedPay \in BOOLEAN
  /\ DbFaults \in BOOLEAN
  /\ MaxCrashes \in Nat

Orders == 1..MaxOrders
NoOrder == 0
Events == [kind : {"completed", "subscription", "deleted"}, session : Sessions]

VARIABLES
  \* MySQL
  status,       \* Order.status, "none" before the row exists
  payment,      \* Order.stripePaymentId: the Checkout Session id
  provider,     \* ProviderService.status, "none" before the row exists
  older,        \* <<p, o>>: order p was written before order o
  recorded,     \* IdempotencyRecord rows of Stripe events
  provisioned,  \* IdempotencyRecord rows of provisionService
  reviews,      \* IdempotencyRecord rows of the recovery sweep
  mirror,       \* Subscription row: status and stripeSubscriptionId
  audit,        \* AuditLog: <<action, order>>
  \* the API process
  hook, run, sweep, crashes,
  \* Stripe and ResellPortal
  checkout, paid, subscribed, events, remote,
  emits,        \* how often the domain event of a Stripe event was emitted
  contested     \* observed: <<o, s>>, the delivery of session s and another had
                \* both found order o PENDING before one of them had paid it

dbVars == <<status, payment, provider, older, recorded, provisioned, reviews, mirror, audit>>
stripeVars == <<checkout, paid, subscribed, events>>
vars == <<dbVars, hook, run, sweep, crashes, stripeVars, remote, emits, contested>>

IdleHook == [pc |-> "idle", kind |-> "none", session |-> NoSession, order |-> NoOrder]
IdleRun == [pc |-> "idle", order |-> NoOrder, was |-> NoStatus, tries |-> 0]

Event(h) == [kind |-> hook[h].kind, session |-> hook[h].session]
Latest(S) == CHOOSE o \in S : \A p \in S : p <= o
Touch(o) == older' = Refresh(older, o, Orders)
Live(st) == st \in {"active", "trialing", "past_due"}

Init ==
  /\ status = [o \in Orders |-> NoStatus]
  /\ payment = [o \in Orders |-> NoSession]
  /\ provider = [o \in Orders |-> "none"]
  /\ older = {}
  /\ recorded = {} /\ provisioned = {} /\ reviews = {}
  /\ mirror = [status |-> "none", session |-> NoSession]
  /\ audit = {}
  /\ hook = [h \in Hooks |-> IdleHook]
  /\ run = [r \in Runs |-> IdleRun]
  /\ sweep = <<>>
  /\ crashes = 0
  /\ checkout = [s \in Sessions |-> "none"]
  /\ paid = {} /\ subscribed = {} /\ events = {}
  /\ remote = [o \in Orders |-> "none"]
  /\ emits = [e \in Events |-> 0]
  /\ contested = {}

-----------------------------------------------------------------------------
(* handle(): no record of this event yet.                                  *)

handle(h, e) ==
  /\ hook[h].pc = "idle"
  /\ e \in events \ recorded
  /\ hook' = [hook EXCEPT ![h] =
       [pc |-> "mirror", kind |-> e.kind, session |-> e.session, order |-> NoOrder]]
  /\ UNCHANGED <<dbVars, run, sweep, crashes, stripeVars, remote, emits, contested>>

\* subscription.upsert of onCheckoutCompleted and of onSubscriptionChanged.
upsertSubscription(h) ==
  /\ hook[h].pc = "mirror"
  /\ mirror' =
       [status |-> CASE hook[h].kind = "deleted" -> "canceled"
                     [] hook[h].kind = "subscription" -> "active"
                     [] mirror.status = "none" -> "incomplete"
                     [] OTHER -> mirror.status,
        session |-> hook[h].session]
  /\ hook' = [hook EXCEPT ![h].pc =
       CASE hook[h].kind = "completed" -> "resolve" [] hook[h].kind = "deleted" -> "find"
         [] OTHER -> "record"]
  /\ UNCHANGED <<status, payment, provider, older, recorded, provisioned, reviews, audit,
                 run, sweep, crashes, stripeVars, remote, emits, contested>>

\* A delivery goes on to pay an order, perhaps one that others are about to pay.
Rivals(h, o) == {g \in Hooks \ {h} : hook[g].pc = "pay" /\ hook[g].order = o}
TakeOrder(h, o) ==
  /\ hook' = [hook EXCEPT ![h].pc = "pay", ![h].order = o]
  /\ contested' = IF Rivals(h, o) = {} THEN contested
       ELSE contested \cup {<<o, hook[g].session>> : g \in Rivals(h, o) \cup {h}}

\* Faulty variants, against which the properties are tried, are named ..._bug.
resolvePayableOrder_bug(h) ==   \* takes the latest order, whatever its status
  /\ hook[h].pc = "resolve"
  /\ LET known == {o \in Orders : status[o] # NoStatus} IN
     \/ known # {} /\ TakeOrder(h, Latest(known))
     \/ /\ known = {}
        /\ hook' = [hook EXCEPT ![h].pc = "create"]
        /\ UNCHANGED contested
  /\ UNCHANGED <<dbVars, run, sweep, crashes, stripeVars, remote, emits>>

\* resolvePayableOrder: the latest PENDING order, else a new one.
resolvePayableOrder(h) ==
  /\ hook[h].pc = "resolve"
  /\ LET pending == {o \in Orders : status[o] = "PENDING"} IN
     \/ pending # {} /\ TakeOrder(h, Latest(pending))
     \/ /\ pending = {}
        /\ hook' = [hook EXCEPT ![h].pc = "create"]
        /\ UNCHANGED contested
  /\ UNCHANGED <<dbVars, run, sweep, crashes, stripeVars, remote, emits>>

createOrder(h) ==
  /\ hook[h].pc = "create"
  /\ \E o \in Orders :
       /\ status[o] = NoStatus
       /\ \A p \in Orders : p < o => status[p] # NoStatus
       /\ status' = [status EXCEPT ![o] = "PENDING"]
       /\ Touch(o)
       /\ hook' = [hook EXCEPT ![h].pc = "pay", ![h].order = o]
  /\ UNCHANGED <<payment, provider, recorded, provisioned, reviews, mirror, audit,
                 run, sweep, crashes, stripeVars, remote, emits, contested>>

payOrder_bug(h) ==              \* stripePaymentId without @unique
  /\ hook[h].pc = "pay"
  /\ status' = [status EXCEPT ![hook[h].order] = "PAID"]
  /\ payment' = [payment EXCEPT ![hook[h].order] = hook[h].session]
  /\ Touch(hook[h].order)
  /\ hook' = [hook EXCEPT ![h].pc = "audit"]
  /\ UNCHANGED <<provider, recorded, provisioned, reviews, mirror, audit,
                 run, sweep, crashes, stripeVars, remote, emits, contested>>

\* The unconditional update to PAID; stripePaymentId is unique.
payOrder(h) ==
  /\ hook[h].pc = "pay"
  /\ LET o == hook[h].order
         s == hook[h].session
     IN \/ /\ \A p \in Orders \ {o} : payment[p] # s
           /\ status' = [status EXCEPT ![o] = peekNextOrderStatus("PENDING", "pay")]
           /\ payment' = [payment EXCEPT ![o] = s]
           /\ Touch(o)
           /\ hook' = [hook EXCEPT ![h].pc = "audit"]
        \/ /\ \E p \in Orders \ {o} : payment[p] = s
           /\ hook' = [hook EXCEPT ![h] = IdleHook]
           /\ UNCHANGED <<status, payment, older>>
  /\ UNCHANGED <<provider, recorded, provisioned, reviews, mirror, audit,
                 run, sweep, crashes, stripeVars, remote, emits, contested>>

findActiveOrder_bug(h) ==       \* throws when no order is ACTIVE
  /\ hook[h].pc = "find"
  /\ LET active == {o \in Orders : status[o] = "ACTIVE"} IN
     hook' = [hook EXCEPT ![h] =
       IF active = {} THEN IdleHook
       ELSE [@ EXCEPT !.pc = "cancel", !.order = Latest(active)]]
  /\ UNCHANGED <<dbVars, run, sweep, crashes, stripeVars, remote, emits, contested>>

\* customer.subscription.deleted: the latest ACTIVE order of the organisation.
findActiveOrder(h) ==
  /\ hook[h].pc = "find"
  /\ LET active == {o \in Orders : status[o] = "ACTIVE"} IN
     hook' = [hook EXCEPT ![h] =
       IF active = {} THEN [@ EXCEPT !.pc = "record"]
       ELSE [@ EXCEPT !.pc = "cancel", !.order = Latest(active)]]
  /\ UNCHANGED <<dbVars, run, sweep, crashes, stripeVars, remote, emits, contested>>

cancelOrder(h) ==
  /\ hook[h].pc = "cancel"
  /\ status' = [status EXCEPT ![hook[h].order] = peekNextOrderStatus("ACTIVE", "cancel")]
  /\ Touch(hook[h].order)
  /\ hook' = [hook EXCEPT ![h].pc = "audit"]
  /\ UNCHANGED <<payment, provider, recorded, provisioned, reviews, mirror, audit,
                 run, sweep, crashes, stripeVars, remote, emits, contested>>

auditOrder(h) ==
  /\ hook[h].pc = "audit"
  /\ audit' = audit \cup
       {<<IF hook[h].kind = "deleted" THEN "order.cancelled" ELSE "order.paid", hook[h].order>>}
  /\ hook' = [hook EXCEPT ![h].pc = "record"]
  /\ UNCHANGED <<status, payment, provider, older, recorded, provisioned, reviews, mirror,
                 run, sweep, crashes, stripeVars, remote, emits, contested>>

recordEvent_bug(h) ==           \* emits although the record was there already
  /\ hook[h].pc = "record"
  /\ recorded' = recorded \cup {Event(h)}
  /\ hook' = [hook EXCEPT ![h] =
       IF hook[h].kind = "subscription" THEN IdleHook ELSE [@ EXCEPT !.pc = "emit"]]
  /\ UNCHANGED <<status, payment, provider, older, provisioned, reviews, mirror, audit,
                 run, sweep, crashes, stripeVars, remote, emits, contested>>

\* The unique record: the delivery that loses the race replays, silently.
recordEvent(h) ==
  /\ hook[h].pc = "record"
  /\ recorded' = recorded \cup {Event(h)}
  /\ hook' = [hook EXCEPT ![h] =
       IF Event(h) \in recorded \/ hook[h].kind = "subscription" THEN IdleHook
       ELSE [@ EXCEPT !.pc = "emit"]]
  /\ UNCHANGED <<status, payment, provider, older, provisioned, reviews, mirror, audit,
                 run, sweep, crashes, stripeVars, remote, emits, contested>>

\* order.paid and subscription.cancelled start a listener, unless no order was
\* cancelled (handleSubscriptionCancelled returns at once).
emitEvent(h) ==
  /\ hook[h].pc = "emit"
  /\ emits' = [emits EXCEPT ![Event(h)] = @ + 1]
  /\ \/ /\ hook[h].order = NoOrder
        /\ UNCHANGED run
     \/ /\ hook[h].order # NoOrder
        /\ \E r \in Runs :
             /\ run[r].pc = "idle"
             /\ run' = [run EXCEPT ![r] =
                  [IdleRun EXCEPT !.pc = IF hook[h].kind = "deleted" THEN "terminate" ELSE "provision",
                                  !.order = hook[h].order]]
  /\ hook' = [hook EXCEPT ![h] = IdleHook]
  /\ UNCHANGED <<dbVars, sweep, crashes, stripeVars, remote, contested>>

-----------------------------------------------------------------------------
(* provisionService()                                                      *)

\* (a), (b) and the read of the order.
provisionRead(r) ==
  /\ run[r].pc = "provision"
  /\ LET o == run[r].order IN
     run' = [run EXCEPT ![r] =
       IF provider[o] = "ACTIVE" \/ (o \in provisioned /\ provider[o] # "none") THEN IdleRun
       ELSE [@ EXCEPT !.pc = "claim", !.was = status[o]]]
  /\ UNCHANGED <<dbVars, hook, sweep, crashes, stripeVars, remote, emits, contested>>

provisionClaim_bug(r) ==        \* upserts the provider row instead of creating it
  /\ run[r].pc = "claim"
  /\ LET o == run[r].order IN
     IF canTransition(run[r].was, "start_provisioning")
     THEN /\ status' = [status EXCEPT ![o] = "PROVISIONING"]
          /\ provider' = [provider EXCEPT ![o] = "PROVISIONING"]
          /\ Touch(o)
          /\ run' = [run EXCEPT ![r].pc = "call"]
     ELSE run' = [run EXCEPT ![r] = IdleRun] /\ UNCHANGED <<status, provider, older>>
  /\ UNCHANGED <<payment, recorded, provisioned, reviews, mirror, audit,
                 hook, sweep, crashes, stripeVars, remote, emits, contested>>

\* (c) one transaction; ProviderService.orderId is unique.
provisionClaim(r) ==
  /\ run[r].pc = "claim"
  /\ LET o == run[r].order IN
     \/ /\ canTransition(run[r].was, "start_provisioning") /\ provider[o] = "none"
        /\ status' = [status EXCEPT ![o] = peekNextOrderStatus(run[r].was, "start_provisioning")]
        /\ provider' = [provider EXCEPT ![o] = "PROVISIONING"]
        /\ Touch(o)
        /\ run' = [run EXCEPT ![r].pc = "call"]
     \/ /\ ~canTransition(run[r].was, "start_provisioning") \/ provider[o] # "none"
        /\ run' = [run EXCEPT ![r] = IdleRun]
        /\ UNCHANGED <<status, provider, older>>
  /\ UNCHANGED <<payment, recorded, provisioned, reviews, mirror, audit,
                 hook, sweep, crashes, stripeVars, remote, emits, contested>>

provisionCall_endless_bug(r) == \* starts over when the delays are used up
  /\ run[r].pc = "call"
  /\ \E reached, answered \in BOOLEAN :
       /\ answered => reached
       /\ remote' = [remote EXCEPT ![run[r].order] =
            IF reached /\ @ = "none" THEN "live" ELSE @]
       /\ run' = [run EXCEPT ![r] =
            IF answered THEN [@ EXCEPT !.pc = "commit"]
            ELSE [@ EXCEPT !.tries = (@ + 1) % Attempts]]
  /\ UNCHANGED <<dbVars, hook, sweep, crashes, stripeVars, emits, contested>>

provisionCall_hopeful_bug(r) == \* goes on after the last failure
  /\ run[r].pc = "call"
  /\ \E reached, answered \in BOOLEAN :
       /\ answered => reached
       /\ remote' = [remote EXCEPT ![run[r].order] =
            IF reached /\ @ = "none" THEN "live" ELSE @]
       /\ run' = [run EXCEPT ![r] =
            IF answered THEN [@ EXCEPT !.pc = "commit"]
            ELSE [@ EXCEPT !.tries = @ + 1,
                           !.pc = IF run[r].tries + 1 = Attempts THEN "commit" ELSE "call"]]
  /\ UNCHANGED <<dbVars, hook, sweep, crashes, stripeVars, emits, contested>>

\* (d) one attempt of createService; a failed attempt may still have created it.
provisionCall(r) ==
  /\ run[r].pc = "call"
  /\ \E reached, answered \in BOOLEAN :
       /\ answered => reached
       /\ remote' = [remote EXCEPT ![run[r].order] =
            IF reached /\ @ = "none" THEN "live" ELSE @]
       /\ run' = [run EXCEPT ![r] =
            IF answered THEN [@ EXCEPT !.pc = "commit"]
            ELSE [@ EXCEPT !.tries = run[r].tries + 1,
                           !.pc = IF run[r].tries + 1 = Attempts THEN "fail" ELSE "call"]]
  /\ UNCHANGED <<dbVars, hook, sweep, crashes, stripeVars, emits, contested>>

\* (e) provider row, order, idempotency record and audit in one transaction.
provisionCommit(r) ==
  /\ run[r].pc = "commit"
  /\ LET o == run[r].order IN
     \/ /\ o \notin provisioned
        /\ provider' = [provider EXCEPT ![o] = "ACTIVE"]
        /\ status' = [status EXCEPT ![o] = peekNextOrderStatus("PROVISIONING", "provisioning_succeeded")]
        /\ provisioned' = provisioned \cup {o}
        /\ audit' = audit \cup {<<"service.provisioned", o>>}
        /\ Touch(o)
        /\ run' = [run EXCEPT ![r] = IdleRun]
     \/ /\ o \in provisioned \/ DbFaults
        /\ run' = [run EXCEPT ![r].pc = "fail"]
        /\ UNCHANGED <<provider, status, provisioned, audit, older>>
  /\ UNCHANGED <<payment, recorded, reviews, mirror,
                 hook, sweep, crashes, stripeVars, remote, emits, contested>>

\* (f) the failure is recorded in one transaction, or not at all.
provisionFail(r) ==
  /\ run[r].pc = "fail"
  /\ LET o == run[r].order IN
     \/ /\ provider' = [provider EXCEPT ![o] = "TERMINATED"]
        /\ status' = [status EXCEPT ![o] = peekNextOrderStatus("PROVISIONING", "fail")]
        /\ audit' = audit \cup {<<"service.provisioning_failed", o>>}
        /\ Touch(o)
     \/ DbFaults /\ UNCHANGED <<provider, status, audit, older>>
  /\ run' = [run EXCEPT ![r] = IdleRun]
  /\ UNCHANGED <<payment, recorded, provisioned, reviews, mirror,
                 hook, sweep, crashes, stripeVars, remote, emits, contested>>

-----------------------------------------------------------------------------
(* terminateService(): changeServiceLifecycle                              *)

terminateRead(r) ==
  /\ run[r].pc = "terminate"
  /\ LET o == run[r].order IN
     run' = [run EXCEPT ![r] =
       IF provider[o] = "none" THEN IdleRun
       ELSE [@ EXCEPT !.pc = "revoke", !.was = status[o]]]
  /\ UNCHANGED <<dbVars, hook, sweep, crashes, stripeVars, remote, emits, contested>>

\* One call, no retry; an error is swallowed by the listener.
terminateCall(r) ==
  /\ run[r].pc = "revoke"
  /\ \E reached, answered \in BOOLEAN :
       /\ answered => reached
       /\ remote' = [remote EXCEPT ![run[r].order] =
            IF reached /\ @ = "live" THEN "terminated" ELSE @]
       /\ run' = [run EXCEPT ![r] = IF answered THEN [@ EXCEPT !.pc = "close"] ELSE IdleRun]
  /\ UNCHANGED <<dbVars, hook, sweep, crashes, stripeVars, emits, contested>>

terminateClose(r) ==
  /\ run[r].pc = "close"
  /\ LET o == run[r].order
         next == peekNextOrderStatus(run[r].was, "cancel")
     IN \/ /\ provider' = [provider EXCEPT ![o] = "TERMINATED"]
           /\ audit' = audit \cup {<<"service.terminated", o>>}
           /\ \/ next # NoStatus /\ status' = [status EXCEPT ![o] = next] /\ Touch(o)
              \/ next = NoStatus /\ UNCHANGED <<status, older>>
        \/ DbFaults /\ UNCHANGED <<provider, audit, status, older>>
  /\ run' = [run EXCEPT ![r] = IdleRun]
  /\ UNCHANGED <<payment, recorded, provisioned, reviews, mirror,
                 hook, sweep, crashes, stripeVars, remote, emits, contested>>

-----------------------------------------------------------------------------
(* discoverStrandedOrders(), every minute                                  *)

Stranded_bug(o) ==              \* looks for orders that were taken up already
  status[o] = "PROVISIONING" /\ payment[o] # NoSession /\ provider[o] = "none"

Stranded(o) == status[o] = "PAID" /\ payment[o] # NoSession /\ provider[o] = "none"

\* The oldest candidates; the five-minute age cuts the list anywhere.
discoverStrandedOrders ==
  /\ sweep = <<>>
  /\ \E n \in 1..Batch : sweep' \in Oldest({o \in Orders : Stranded(o)}, older, n)
  /\ UNCHANGED <<dbVars, hook, run, crashes, stripeVars, remote, emits, contested>>

\* Recheck, marker and audit in one transaction; its unique key skips a repeat.
recordForReview(o) ==
  /\ sweep # <<>> /\ o = Head(sweep)
  /\ \/ /\ Stranded(o) /\ o \notin reviews
        /\ reviews' = reviews \cup {o}
        /\ audit' = audit \cup {<<"order.recovery_review_required", o>>}
     \/ /\ ~Stranded(o) \/ o \in reviews
        /\ UNCHANGED <<reviews, audit>>
  /\ sweep' = Tail(sweep)
  /\ UNCHANGED <<status, payment, provider, older, recorded, provisioned, mirror,
                 hook, run, crashes, stripeVars, remote, emits, contested>>

\* Any other database error is rethrown and ends the sweep.
reviewFails ==
  /\ DbFaults
  /\ sweep # <<>> /\ sweep' = <<>>
  /\ UNCHANGED <<dbVars, hook, run, crashes, stripeVars, remote, emits, contested>>

-----------------------------------------------------------------------------
(* The API process dies with its handlers, listeners and bus.              *)

crash ==
  /\ crashes < MaxCrashes
  /\ crashes' = crashes + 1
  /\ hook' = [h \in Hooks |-> IdleHook]
  /\ run' = [r \in Runs |-> IdleRun]
  /\ sweep' = <<>>
  /\ UNCHANGED <<dbVars, stripeVars, remote, emits, contested>>

-----------------------------------------------------------------------------
(* Stripe.                                                                 *)

createCheckoutSession(s) ==
  /\ checkout[s] = "none" /\ ~Live(mirror.status)
  /\ checkout' = [checkout EXCEPT ![s] = "open"]
  /\ UNCHANGED <<paid, subscribed, events>>

\* The customer completes the session; its subscription starts.
completeCheckout(s) ==
  /\ checkout[s] = "open"
  /\ checkout' = [checkout EXCEPT ![s] = "complete"]
  /\ \/ paid' = paid \cup {s}
     \/ DelayedPay /\ UNCHANGED paid
  /\ subscribed' = subscribed \cup {s}
  /\ events' = events \cup {[kind |-> k, session |-> s] : k \in {"completed", "subscription"}}

endSubscription(s) ==
  /\ s \in subscribed \cap Ending
  /\ subscribed' = subscribed \ {s}
  /\ events' = events \cup {[kind |-> "deleted", session |-> s]}
  /\ UNCHANGED <<checkout, paid>>

stripeStep ==
  /\ \E s \in Sessions : createCheckoutSession(s) \/ completeCheckout(s) \/ endSubscription(s)
  /\ UNCHANGED <<dbVars, hook, run, sweep, crashes, remote, emits, contested>>

-----------------------------------------------------------------------------
hookStep(h) ==
  \/ \E e \in events : handle(h, e)
  \/ upsertSubscription(h)
  \/ resolvePayableOrder(h) \/ createOrder(h) \/ payOrder(h)
  \/ findActiveOrder(h) \/ cancelOrder(h)
  \/ auditOrder(h) \/ recordEvent(h) \/ emitEvent(h)

runStep(r) ==
  \/ provisionRead(r) \/ provisionClaim(r) \/ provisionCall(r)
  \/ provisionCommit(r) \/ provisionFail(r)
  \/ terminateRead(r) \/ terminateCall(r) \/ terminateClose(r)

sweepStep == discoverStrandedOrders \/ reviewFails \/ \E o \in Orders : recordForReview(o)

Next ==
  \/ \E h \in Hooks : hookStep(h)
  \/ \E r \in Runs : runStep(r)
  \/ sweepStep
  \/ crash
  \/ stripeStep

Spec == Init /\ [][Next]_vars

\* A scan that finds every due order old enough.
discoverAged ==
  /\ discoverStrandedOrders
  /\ sweep' \in Oldest({o \in Orders : Stranded(o)}, older, Batch)

\* The scan fires every minute, orders grow older, and the database does not
\* refuse the same review for ever.
SweepFairness ==
  /\ WF_vars(sweepStep) /\ SF_vars(discoverAged)
  /\ \A o \in Orders : SF_vars(recordForReview(o))

SweepSpec == Spec /\ SweepFairness

\* Stripe delivers every event again until it is acknowledged; a handler or a
\* listener that runs goes on.  Customers, crashes and the outcome of
\* ResellPortal calls are not fair.
HandlerFairness ==
  /\ \A e \in Events : SF_vars(\E h \in Hooks : handle(h, e))
  /\ \A h \in Hooks : WF_vars(hookStep(h))
  /\ \A r \in Runs : WF_vars(runStep(r))

HandlerSpec == Spec /\ HandlerFairness

-----------------------------------------------------------------------------
(* Invariants.                                                             *)

Working == {"call", "commit", "fail"}

HookSteps == {"idle", "mirror", "resolve", "create", "pay", "find", "cancel", "audit", "record", "emit"}
Hook == [pc : HookSteps, kind : {"none", "completed", "subscription", "deleted"},
         session : Sessions \cup {NoSession}, order : Orders \cup {NoOrder}]
RunSteps == {"idle", "provision", "claim", "terminate", "revoke", "close"} \cup Working
Run == [pc : RunSteps, order : Orders \cup {NoOrder}, was : OrderStatus \cup {NoStatus},
        tries : 0..Attempts]

RowsOK ==
  /\ status \in [Orders -> OrderStatus \cup {NoStatus}]
  /\ payment \in [Orders -> Sessions \cup {NoSession}]
  /\ provider \in [Orders -> {"none", "PROVISIONING", "ACTIVE", "TERMINATED"}]
  /\ older \subseteq Orders \X Orders
  /\ recorded \subseteq Events /\ provisioned \subseteq Orders /\ reviews \subseteq Orders
  /\ mirror \in [status : {"none", "incomplete", "active", "canceled"},
                 session : Sessions \cup {NoSession}]
  /\ audit \subseteq {"order.paid", "order.cancelled", "service.provisioned",
                     "service.provisioning_failed", "service.terminated",
                     "order.recovery_review_required"} \X Orders

TasksOK ==
  /\ hook \in [Hooks -> Hook]
  /\ run \in [Runs -> Run]
  /\ sweep \in Seq(Orders)
  /\ crashes \in 0..MaxCrashes

StripeOK ==
  /\ checkout \in [Sessions -> {"none", "open", "complete"}]
  /\ paid \subseteq Sessions /\ subscribed \subseteq Sessions
  /\ events \subseteq Events
  /\ remote \in [Orders -> {"none", "live", "terminated"}]
  /\ emits \in [Events -> Nat]
  /\ contested \subseteq Orders \X Sessions

\* Every variable keeps the shape of the rows, handlers and runs it stands for.
TypeOK == RowsOK /\ TasksOK /\ StripeOK

\* At most one listener run works on an order's service, and only while its
\* provider row says so: the unique ProviderService.orderId keeps a duplicated
\* order.paid, or one raced by a crash, from creating the service twice.
OneProvisioner ==
  \A r \in Runs :
    run[r].pc \in Working =>
      /\ provider[run[r].order] = "PROVISIONING"
      /\ \A q \in Runs \ {r} : run[q].pc \in Working => run[q].order # run[r].order

\* GCH grants access only after ResellPortal confirmed: an ACTIVE order has an
\* ACTIVE provider row, its operation record and a service that runs.
ActiveIsFulfilled ==
  \A o \in Orders :
    status[o] = "ACTIVE" =>
      provider[o] = "ACTIVE" /\ o \in provisioned /\ remote[o] = "live"

\* Each Stripe event announces its domain event at most once, however many
\* deliveries of it are handled at the same time.
AnnouncedOnce == \A e \in Events : emits[e] <= 1

\* No payment is ever turned into two services, whatever is redelivered after a
\* crash: the service of an order is backed by a payment that backs no other.
OneServicePerPayment ==
  \A o, p \in Orders :
    remote[o] # "none" =>
      /\ payment[o] # NoSession
      /\ remote[p] # "none" /\ payment[o] = payment[p] => o = p

\* A payment that was recorded stays the payment of an order, unless its delivery
\* and another had both found one order PENDING before either paid it: crashes,
\* redeliveries and cancellations alone lose none (stripe-webhook.service.ts:192).
RecordedPaymentKept ==
  \A e \in recorded : e.kind = "completed" =>
    \E o \in Orders : payment[o] = e.session \/ <<o, e.session>> \in contested

-----------------------------------------------------------------------------
(* Action properties.                                                      *)

\* order-state-machine.ts:5: the machine is "the single source of truth for
\* which status can follow which", so every persisted change is one of its edges:
\* all but those of an order that two deliveries were about to pay at once.
StatusFollowsMachine ==
  [][\A o \in Orders :
       status'[o] # status[o] =>
         \/ status[o] = NoStatus /\ status'[o] = "PENDING"
         \/ Edge(status[o], status'[o])
         \/ \E s \in Sessions : <<o, s>> \in contested]_vars

-----------------------------------------------------------------------------
(* Liveness.                                                               *)

\* Under SweepSpec, a paid order without a provider row is taken up or recorded
\* for an operator's review (PAID-ORDER-RECOVERY.md:21), whatever is lost.
PaidOrderNoticed ==
  \A o \in Orders :
    status[o] = "PAID" ~> o \in reviews \/ provider[o] # "none" \/ status[o] # "PAID"

\* Under HandlerSpec without crashes, provisioning ends, in success or in a recorded failure.
ProvisioningEnds == \A o \in Orders : status[o] = "PROVISIONING" ~> status[o] # "PROVISIONING"

\* Under HandlerSpec without crashes, every event Stripe sends is processed and recorded in the end.
EventAcknowledged == \A e \in Events : e \in events ~> e \in recorded

-----------------------------------------------------------------------------
(* What the documents say and the code does not keep.                      *)

\* "A cancelled subscription revokes access, so we terminate" the service
\* (provisioning.service.ts:98).
CancelledIsRevoked ==
  \A s \in Sessions :
    [kind |-> "deleted", session |-> s] \in recorded
      ~> \A o \in Orders : payment[o] = s => remote[o] # "live"

\* "A retry of the same operation on the same entity produces the same key - so
\* the downstream/local ledger recognizes it as a duplicate and does not perform
\* the work twice" (IDEMPOTENCY.md:24): one order line per completed checkout.
OneOrderPerCheckout ==
  Cardinality({o \in Orders : status[o] # NoStatus})
    <= Cardinality({s \in Sessions : checkout[s] = "complete"})

\* "Stripe confirms the commercial transaction; ResellPortal confirms
\* fulfillment; GCH grants access only after BOTH states are valid"
\* (AUTHORITY-BOUNDARIES.md:22).
ActiveIsPaid == \A o \in Orders : status[o] = "ACTIVE" => payment[o] \in paid
=============================================================================
