------------------------------ MODULE Commerce ------------------------------
(***************************************************************************)
(* Prepaid commerce orders: apps/api/src/commerce/commerce.service.ts.     *)
(*                                                                         *)
(* One CommerceOrder row and at most one CommerceJob row per order, the    *)
(* permanent CommerceStripeEvent ledger, and five kinds of concurrent      *)
(* actors: checkout requests, Stripe webhook deliveries, runs of the       *)
(* process() cron, runs of the deliver() cron and operator confirmations   *)
(* (completeHuman).  Every await on Stripe, on SMTP or on a separate       *)
(* database call is a step boundary; a prisma.$transaction is one step.    *)
(* The Stripe account is modelled from how the adapter uses it.            *)
(***************************************************************************)
EXTENDS Naturals, Sequences, FiniteSets, UpdatedAt

CONSTANTS
  Orders,        \* (userId, requestKey) pairs, hence orders
  Sessions,      \* Stripe Checkout Sessions; each has one payment intent
  Requests,      \* concurrent POST /commerce/checkout requests
  Processors,    \* concurrent runs of the process() cron
  Deliverers,    \* concurrent runs of the deliver() cron
  Operators,     \* concurrent confirm-human-delivery requests
  BadMailboxes,  \* orders whose customerEmail always rejects mail
  NoOrder, NoSession,
  Batch,         \* take: 50
  AchEnabled,    \* COMMERCE_ACH_ENABLED
  Reversals,     \* the reversal events Stripe may send for a charge
  MaxRestarts    \* bound: API restarts and redeployments in a behaviour

ASSUME CommerceConstants ==
  /\ NoSession \notin Sessions
  /\ NoOrder \notin Orders
  /\ BadMailboxes \subseteq Orders
  /\ Batch \in Nat \ {0}
  /\ AchEnabled \in BOOLEAN
  /\ Reversals \subseteq {"refunded", "dispute"}
  /\ MaxRestarts \in Nat

Configs == {"on", "no_operator", "off"}
Status == {"CREATED", "PAID", "PROVISIONING", "PROVISIONED", "ACTIVE", "HELD", "FAILED"}
Paying == {"none", "created", "open", "processing", "paid", "failed", "expired", "reversed"}
Kinds == {"completed", "async_succeeded", "async_failed", "refunded", "dispute"}
JobStates == {"NONE", "PENDING", "AWAITING_REVIEW", "DELIVERY_PENDING", "DONE"}

Events == [kind : Kinds, session : Sessions, paid : BOOLEAN]
Jobs == [state : JobStates, alerted : BOOLEAN, sent : BOOLEAN]

\* What a cron run remembers of an order it read at the start of its batch.
Snapshots == [order : Orders, status : Status \cup {"NONE"},
              session : Sessions \cup {NoSession}, alerted : BOOLEAN]

VARIABLES
  \* MySQL
  status,     \* CommerceOrder.status, "NONE" before the row exists
  session,    \* CommerceOrder.stripeSessionId
  payment,    \* CommerceOrder.stripePaymentId, named by the session it paid
  old,        \* orders whose catalogVersion is no longer catalogVersion
  audit,      \* AuditLog: what the "commerce.transition" rows record, in order
  job,        \* CommerceJob
  older,      \* <<p, o>>: the job of p was written before that of o
  claimed,    \* CommerceStripeEvent ledger
  \* the API process
  cfg,        \* deployed configuration
  restarts,
  req, proc, del, op,     \* in-flight requests and cron runs
  \* Stripe and the outside world
  pay, owner, key, events,
  owed,       \* orders enqueued for review, not alerted or confirmed since
  ready       \* orders whose customer was mailed "Your service is ready."

dbVars == <<status, session, payment, old, audit, job, older, claimed>>
orderVars == <<status, session, payment, old, audit, claimed>>
taskVars == <<req, proc, del, op>>
stripeVars == <<pay, owner, key, events>>
mailVars == <<owed, ready>>
vars == <<dbVars, cfg, restarts, taskVars, stripeVars, mailVars>>

-----------------------------------------------------------------------------
(* packages/commerce/src/index.ts                                          *)

Edges == [CREATED      |-> {"PAID", "HELD", "FAILED"},
          PAID         |-> {"PROVISIONING", "HELD"},
          PROVISIONING |-> {"PROVISIONED", "HELD", "FAILED"},
          PROVISIONED  |-> {"ACTIVE", "HELD"},
          ACTIVE       |-> {"HELD"},
          HELD         |-> {},
          FAILED       |-> {}]

canTransition(from, to) == from \in Status /\ to \in Edges[from]

\* The "status" of an audit row: one of the machine, or that of the row in which
\* completeHuman() records who confirmed the service.
HumanConfirmed == "human_fulfillment_confirmed"
Recorded == Status \cup {HumanConfirmed}

\* this.blockers(dealId).length > 0 and operatorExists(), by deployment.
Blocked == cfg = "off"
OperatorExists == cfg = "on"

\* CommerceStripeAdapter.paid: captured and neither refunded nor disputed.
stripePaid(s) == s # NoSession /\ pay[s] = "paid"

-----------------------------------------------------------------------------
(* Helpers of the service                                                  *)

\* The job row is written: its updatedAt is the newest.
Touch(o) == older' = Refresh(older, o, Orders)

\* Faulty variants, against which the properties are tried, are named ..._bug.
enqueue_noReset_bug(o) ==     \* leaves alertSentAt as it was
  /\ job' = [job EXCEPT ![o].state = "PENDING"]
  /\ Touch(o)
  /\ owed' = owed \cup {o}

enqueue(o) ==
  /\ job' = [job EXCEPT ![o].state = "PENDING", ![o].alerted = FALSE]
  /\ Touch(o)
  /\ owed' = owed \cup {o}

transition_bug(o, to) ==      \* no canTransition
  /\ status' = [status EXCEPT ![o] = to]
  /\ audit' = [audit EXCEPT ![o] = Append(@, to)]

transition(o, to) ==
  /\ canTransition(status[o], to)
  /\ status' = [status EXCEPT ![o] = to]
  /\ audit' = [audit EXCEPT ![o] = Append(@, to)]

IdleReq == [pc |-> "idle", order |-> NoOrder, session |-> NoSession]
NoSnapshot == [order |-> NoOrder]
IdleProc == [pc |-> "idle", todo |-> {}, cur |-> NoSnapshot, hold |-> FALSE]
IdleDel == [pc |-> "idle", todo |-> <<>>]
IdleOp == [pc |-> "idle", order |-> NoOrder, session |-> NoSession]

Init ==
  /\ status = [o \in Orders |-> "NONE"]
  /\ session = [o \in Orders |-> NoSession]
  /\ payment = [o \in Orders |-> NoSession]
  /\ old = {}
  /\ audit = [o \in Orders |-> <<>>]
  /\ job = [o \in Orders |-> [state |-> "NONE", alerted |-> FALSE, sent |-> FALSE]]
  /\ older = {}
  /\ claimed = {}
  /\ cfg \in Configs
  /\ restarts = 0
  /\ req = [r \in Requests |-> IdleReq]
  /\ proc = [p \in Processors |-> IdleProc]
  /\ del = [d \in Deliverers |-> IdleDel]
  /\ op = [u \in Operators |-> IdleOp]
  /\ pay = [s \in Sessions |-> "none"]
  /\ owner = [s \in Sessions |-> NoOrder]
  /\ key = [o \in Orders |-> NoSession]
  /\ events = {}
  /\ owed = {}
  /\ ready = {}

-----------------------------------------------------------------------------
(* checkout(): order row, then Stripe, then stripeSessionId, then the URL. *)

checkoutOrder(r, o) ==
  /\ req[r].pc = "idle"
  /\ ~Blocked /\ OperatorExists
  /\ \/ /\ status[o] = "NONE"
        /\ status' = [status EXCEPT ![o] = "CREATED"]
        /\ audit' = [audit EXCEPT ![o] = <<"CREATED">>]
     \/ /\ status[o] = "CREATED" /\ o \notin old
        /\ UNCHANGED <<status, audit>>
  /\ req' = [req EXCEPT ![r] = [pc |-> "stripe", order |-> o, session |-> NoSession]]
  /\ UNCHANGED <<session, payment, old, job, older, claimed, cfg, restarts,
                 proc, del, op, stripeVars, mailVars>>

\* stripe.create under the order's idempotency key; the answer may be lost.
checkoutStripe(r) ==
  /\ req[r].pc = "stripe"
  /\ LET o == req[r].order IN
     \E s \in Sessions, answered \in BOOLEAN :
       /\ \/ /\ key[o] = s
             /\ UNCHANGED <<pay, owner, key>>
          \/ /\ key[o] = NoSession /\ pay[s] = "none"
             /\ pay' = [pay EXCEPT ![s] = "created"]
             /\ owner' = [owner EXCEPT ![s] = o]
             /\ key' = [key EXCEPT ![o] = s]
       /\ req' = [req EXCEPT ![r] =
            IF answered THEN [pc |-> "save", order |-> o, session |-> s] ELSE IdleReq]
  /\ UNCHANGED <<dbVars, cfg, restarts, proc, del, op, events, mailVars>>

\* The unconditional update; only then does the customer get the URL.
checkoutSave(r) ==
  /\ req[r].pc = "save"
  /\ LET s == req[r].session IN
     /\ session' = [session EXCEPT ![req[r].order] = s]
     /\ pay' = [pay EXCEPT ![s] = IF @ = "created" THEN "open" ELSE @]
  /\ req' = [req EXCEPT ![r] = IdleReq]
  /\ UNCHANGED <<status, payment, old, audit, job, older, claimed, cfg, restarts,
                 proc, del, op, owner, key, events, mailVars>>

-----------------------------------------------------------------------------
(* webhook(): one transaction per delivered event; a claimed event is a    *)
(* replay and a transaction that throws leaves nothing behind.             *)

Bound(e) == e.session = session[owner[e.session]]

webhookMismatch(e) ==
  /\ e.kind \in {"completed", "async_succeeded", "async_failed"}
  /\ ~Bound(e)
  /\ transition(owner[e.session], "HELD")
  /\ enqueue(owner[e.session])
  /\ UNCHANGED payment

webhookAchFailed(e) ==
  LET o == owner[e.session] IN
  /\ e.kind = "async_failed"
  /\ Bound(e)
  /\ \/ transition(o, IF status[o] = "CREATED" THEN "FAILED" ELSE "HELD")
     \/ status[o] \in {"HELD", "FAILED"} /\ UNCHANGED <<status, audit>>
  /\ enqueue(o)
  /\ UNCHANGED payment

webhookPaid_unpaid_bug(e) ==  \* takes a completed session for a paid one
  LET o == owner[e.session] IN
  /\ e.kind \in {"completed", "async_succeeded"}
  /\ Bound(e) /\ status[o] = "CREATED"
  /\ transition(o, "PAID")
  /\ payment' = [payment EXCEPT ![o] = e.session]
  /\ enqueue(o)

webhookPaid_noJob_bug(e) ==   \* forgets the job
  LET o == owner[e.session] IN
  /\ e.kind \in {"completed", "async_succeeded"}
  /\ Bound(e)
  /\ IF e.paid /\ status[o] = "CREATED"
     THEN transition(o, "PAID") /\ payment' = [payment EXCEPT ![o] = e.session]
     ELSE UNCHANGED <<status, audit, payment>>
  /\ UNCHANGED <<job, older, owed>>

webhookPaid(e) ==
  LET o == owner[e.session] IN
  /\ e.kind \in {"completed", "async_succeeded"}
  /\ Bound(e)
  /\ \/ /\ e.paid /\ status[o] = "CREATED"
        /\ transition(o, "PAID")
        /\ payment' = [payment EXCEPT ![o] = e.session]
        /\ enqueue(o)
     \/ /\ ~e.paid \/ status[o] # "CREATED"
        /\ UNCHANGED <<status, audit, payment, job, older, owed>>

webhookReversal(e) ==
  /\ e.kind \in {"refunded", "dispute"}
  /\ \/ \E o \in Orders :
          /\ payment[o] = e.session
          /\ \/ transition(o, "HELD")
             \/ status[o] \in {"HELD", "FAILED"} /\ UNCHANGED <<status, audit>>
          /\ enqueue(o)
     \/ /\ \A o \in Orders : payment[o] # e.session
        /\ UNCHANGED <<status, audit, job, older, owed>>
  /\ UNCHANGED payment

webhook(e) ==
  /\ e \in events \ claimed
  /\ claimed' = claimed \cup {e}
  /\ \/ webhookMismatch(e)
     \/ webhookAchFailed(e)
     \/ webhookPaid(e)
     \/ webhookReversal(e)
  /\ UNCHANGED <<session, old, cfg, restarts, taskVars, stripeVars, ready>>

-----------------------------------------------------------------------------
(* process(), every five minutes: PENDING jobs read once with their order, *)
(* then handled one after the other; an exception ends the run.            *)

Snapshot(o) == [order |-> o, status |-> status[o], session |-> session[o],
                alerted |-> job[o].alerted]

processStart(p) ==
  /\ proc[p].pc = "idle"
  /\ LET pending == {o \in Orders : job[o].state = "PENDING"} IN
     \E S \in SUBSET pending :
       /\ S # {}
       /\ Cardinality(S) = Batch \/ (S = pending /\ Cardinality(S) <= Batch)
       /\ proc' = [proc EXCEPT ![p] =
            [IdleProc EXCEPT !.pc = "next", !.todo = {Snapshot(o) : o \in S}]]
  /\ UNCHANGED <<dbVars, cfg, restarts, req, del, op, stripeVars, mailVars>>

processVerify_bug(p) ==       \* trusts the webhook, does not ask Stripe again
  /\ proc[p].pc = "next"
  /\ \E j \in proc[p].todo :
       /\ j.status = "PAID"
       /\ proc' = [proc EXCEPT ![p] =
            [pc |-> "decide", todo |-> @.todo \ {j}, cur |-> j,
             hold |-> Blocked \/ j.order \in old \/ ~OperatorExists]]
  /\ UNCHANGED <<dbVars, cfg, restarts, req, del, op, stripeVars, mailVars>>

\* Preflight of a snapshot that was PAID: configuration, Stripe, catalog.
processVerify(p) ==
  /\ proc[p].pc = "next"
  /\ \E j \in proc[p].todo, outage \in BOOLEAN :
       /\ j.status = "PAID"
       /\ proc' = [proc EXCEPT ![p] =
            [pc |-> "decide", todo |-> @.todo \ {j}, cur |-> j,
             hold |-> \/ Blocked \/ outage \/ ~stripePaid(j.session)
                      \/ j.order \in old \/ ~OperatorExists]]
  /\ UNCHANGED <<dbVars, cfg, restarts, req, del, op, stripeVars, mailVars>>

processDecide_bug(p) ==       \* writes the decision whatever the status is now
  /\ proc[p].pc = "decide"
  /\ LET o == proc[p].cur.order
         to == IF proc[p].hold THEN "HELD" ELSE "PROVISIONING"
     IN /\ status' = [status EXCEPT ![o] = to]
        /\ audit' = [audit EXCEPT ![o] = Append(@, to)]
  /\ proc' = [proc EXCEPT ![p].pc = "alert"]
  /\ UNCHANGED <<session, payment, old, job, older, claimed, cfg, restarts,
                 req, del, op, stripeVars, mailVars>>

\* transition(tx, id, "PAID", ...): a changed order ends the whole run.
processDecide(p) ==
  /\ proc[p].pc = "decide"
  /\ LET o == proc[p].cur.order IN
     \/ /\ status[o] = "PAID"
        /\ transition(o, IF proc[p].hold THEN "HELD" ELSE "PROVISIONING")
        /\ proc' = [proc EXCEPT ![p].pc = "alert"]
     \/ /\ status[o] # "PAID"
        /\ proc' = [proc EXCEPT ![p] = IdleProc]
        /\ UNCHANGED <<status, audit>>
  /\ UNCHANGED <<session, payment, old, job, older, claimed, cfg, restarts,
                 req, del, op, stripeVars, mailVars>>

\* The alert mail of the job at hand, unless its snapshot had one already.
processAlert(p) ==
  /\ \E j \in IF proc[p].pc = "alert" THEN {proc[p].cur} ELSE proc[p].todo :
       /\ proc[p].pc = "alert" \/ (proc[p].pc = "next" /\ j.status # "PAID")
       /\ proc' = [proc EXCEPT ![p] =
            [pc |-> "update", todo |-> @.todo \ {j}, cur |-> j, hold |-> FALSE]]
       /\ owed' = IF j.alerted THEN owed ELSE owed \ {j.order}
  /\ UNCHANGED <<dbVars, cfg, restarts, req, del, op, stripeVars, ready>>

\* SMTP refuses the alert: sendRequired throws and the run ends.
processAlertFails(p) ==
  /\ \/ proc[p].pc = "alert" /\ ~proc[p].cur.alerted
     \/ /\ proc[p].pc = "next"
        /\ \E j \in proc[p].todo : j.status # "PAID" /\ ~j.alerted
  /\ proc' = [proc EXCEPT ![p] = IdleProc]
  /\ UNCHANGED <<dbVars, cfg, restarts, req, del, op, stripeVars, mailVars>>

\* The unconditional update of the job row.
processUpdate(p) ==
  /\ proc[p].pc = "update"
  /\ LET o == proc[p].cur.order IN
     /\ job' = [job EXCEPT ![o].state = "AWAITING_REVIEW", ![o].alerted = TRUE]
     /\ Touch(o)
  /\ proc' = [proc EXCEPT ![p] =
       IF proc[p].todo = {} THEN IdleProc
       ELSE [IdleProc EXCEPT !.pc = "next", !.todo = proc[p].todo]]
  /\ UNCHANGED <<orderVars, cfg, restarts, req, del, op, stripeVars, mailVars>>

-----------------------------------------------------------------------------
(* completeHuman(): read, live Stripe check, then one transaction.         *)

completeHumanRead(u, o) ==
  /\ op[u].pc = "idle"
  /\ status[o] = "PROVISIONING" /\ ~Blocked
  /\ op' = [op EXCEPT ![u] = [pc |-> "verify", order |-> o, session |-> session[o]]]
  /\ UNCHANGED <<dbVars, cfg, restarts, req, proc, del, stripeVars, mailVars>>

completeHumanVerify(u) ==
  /\ op[u].pc = "verify"
  /\ \E refused \in BOOLEAN :   \* Stripe or the guide file is unavailable
       op' = [op EXCEPT ![u] =
                IF ~refused /\ stripePaid(op[u].session)
                THEN [@ EXCEPT !.pc = "confirm"] ELSE IdleOp]
  /\ UNCHANGED <<dbVars, cfg, restarts, req, proc, del, stripeVars, mailVars>>

completeHumanConfirm(u) ==
  /\ op[u].pc = "confirm"
  /\ LET o == op[u].order IN
     \/ /\ status[o] = "PROVISIONING"
        /\ canTransition("PROVISIONING", "PROVISIONED")
        /\ canTransition("PROVISIONED", "ACTIVE")
        /\ status' = [status EXCEPT ![o] = "ACTIVE"]
        /\ audit' = [audit EXCEPT ![o] = @ \o <<"PROVISIONED", HumanConfirmed, "ACTIVE">>]
        /\ job' = [job EXCEPT ![o].state = "DELIVERY_PENDING"]
        /\ Touch(o)
        /\ owed' = owed \ {o}
     \/ /\ status[o] # "PROVISIONING"
        /\ UNCHANGED <<status, audit, job, older, owed>>
  /\ op' = [op EXCEPT ![u] = IdleOp]
  /\ UNCHANGED <<session, payment, old, claimed, cfg, restarts, req, proc, del,
                 stripeVars, ready>>

-----------------------------------------------------------------------------
(* deliver(), every minute: the guide mails, oldest job first.             *)

Deliverable_bug(o) ==         \* forgets the first guide mail
  job[o].state = "DELIVERY_PENDING" /\ status[o] = "ACTIVE"

Deliverable(o) ==
  \/ job[o].state = "DELIVERY_PENDING" /\ status[o] = "ACTIVE"
  \/ job[o].state = "AWAITING_REVIEW" /\ ~job[o].sent /\ status[o] = "PROVISIONING"

deliverStart(d) ==
  /\ del[d].pc = "idle"
  /\ \E batch \in Oldest({o \in Orders : Deliverable(o)}, older, Batch) :
       del' = [del EXCEPT ![d] =
         [pc |-> "verify", todo |-> [i \in DOMAIN batch |-> Snapshot(batch[i])]]]
  /\ UNCHANGED <<dbVars, cfg, restarts, req, proc, op, stripeVars, mailVars>>

DeliverRest(d) ==
  IF Len(del[d].todo) = 1 THEN IdleDel
  ELSE [pc |-> "verify", todo |-> Tail(del[d].todo)]

\* blockers, then the live Stripe check: not paid skips to the next job.
deliverVerify(d) ==
  /\ del[d].pc = "verify"
  /\ del' = [del EXCEPT ![d] =
       IF ~Blocked /\ stripePaid(Head(del[d].todo).session)
       THEN [@ EXCEPT !.pc = "mail"] ELSE DeliverRest(d)]
  /\ UNCHANGED <<dbVars, cfg, restarts, req, proc, op, stripeVars, mailVars>>

deliverMail(d) ==
  LET j == Head(del[d].todo) IN
  /\ del[d].pc = "mail"
  /\ j.order \notin BadMailboxes
  /\ del' = [del EXCEPT ![d].pc = "update"]
  /\ ready' = IF j.status = "ACTIVE" THEN ready \cup {j.order} ELSE ready
  /\ UNCHANGED <<dbVars, cfg, restarts, req, proc, op, stripeVars, owed>>

\* Stripe, the guide file or SMTP throws: the run ends, the job is untouched.
deliverFails(d) ==
  /\ del[d].pc \in {"verify", "mail"}
  /\ del' = [del EXCEPT ![d] = IdleDel]
  /\ UNCHANGED <<dbVars, cfg, restarts, req, proc, op, stripeVars, mailVars>>

deliverUpdate(d) ==
  LET j == Head(del[d].todo) IN
  /\ del[d].pc = "update"
  /\ job' = [job EXCEPT
       ![j.order].state = IF j.status = "ACTIVE" THEN "DONE" ELSE "AWAITING_REVIEW",
       ![j.order].sent = TRUE]
  /\ Touch(j.order)
  /\ del' = [del EXCEPT ![d] = DeliverRest(d)]
  /\ UNCHANGED <<orderVars, cfg, restarts, req, proc, op, stripeVars, mailVars>>

-----------------------------------------------------------------------------
(* Restart: every in-flight request and run is lost; a redeployment may    *)
(* change the configuration and the catalog version.                       *)

restart ==
  /\ restarts < MaxRestarts
  /\ restarts' = restarts + 1
  /\ cfg' \in Configs
  /\ old' \in {old, {o \in Orders : status[o] # "NONE"}}
  /\ req' = [r \in Requests |-> IdleReq]
  /\ proc' = [p \in Processors |-> IdleProc]
  /\ del' = [d \in Deliverers |-> IdleDel]
  /\ op' = [u \in Operators |-> IdleOp]
  /\ UNCHANGED <<status, session, payment, audit, job, older, claimed,
                 stripeVars, mailVars>>

-----------------------------------------------------------------------------
(* Stripe and its customers.                                               *)

Emit(kind, s, paid) ==
  events' = events \cup {[kind |-> kind, session |-> s, paid |-> paid]}

payByCard(s) ==
  /\ pay[s] = "open"
  /\ pay' = [pay EXCEPT ![s] = "paid"]
  /\ Emit("completed", s, TRUE)

payByAch(s) ==
  /\ AchEnabled
  /\ pay[s] = "open"
  /\ pay' = [pay EXCEPT ![s] = "processing"]
  /\ Emit("completed", s, FALSE)

achSettles(s) ==
  /\ pay[s] = "processing"
  /\ \/ pay' = [pay EXCEPT ![s] = "paid"] /\ Emit("async_succeeded", s, TRUE)
     \/ pay' = [pay EXCEPT ![s] = "failed"] /\ Emit("async_failed", s, FALSE)

reverse(s) ==
  /\ pay[s] \in {"paid", "reversed"}
  /\ pay' = [pay EXCEPT ![s] = "reversed"]
  /\ \E kind \in Reversals : Emit(kind, s, FALSE)

sessionExpires(s) ==
  /\ pay[s] \in {"created", "open"}
  /\ pay' = [pay EXCEPT ![s] = "expired"]
  /\ UNCHANGED events

stripeStep ==
  /\ \E s \in Sessions :
       payByCard(s) \/ payByAch(s) \/ achSettles(s) \/ reverse(s) \/ sessionExpires(s)
  /\ UNCHANGED <<dbVars, cfg, restarts, taskVars, owner, key, mailVars>>

\* An idempotency key is pruned after a day, when its session has expired and
\* no request is left that was answered with it.
keyExpires(o) ==
  /\ key[o] # NoSession
  /\ pay[key[o]] \notin {"created", "open"}
  /\ \A r \in Requests : req[r].pc = "save" => req[r].order # o
  /\ key' = [key EXCEPT ![o] = NoSession]
  /\ UNCHANGED <<dbVars, cfg, restarts, taskVars, pay, owner, events, mailVars>>

-----------------------------------------------------------------------------
checkout(r) == (\E o \in Orders : checkoutOrder(r, o)) \/ checkoutStripe(r) \/ checkoutSave(r)

process(p) ==
  \/ processStart(p) \/ processVerify(p) \/ processDecide(p)
  \/ processAlert(p) \/ processAlertFails(p) \/ processUpdate(p)

completeHuman(u) ==
  \/ \E o \in Orders : completeHumanRead(u, o)
  \/ completeHumanVerify(u) \/ completeHumanConfirm(u)

deliver(d) ==
  \/ deliverStart(d) \/ deliverVerify(d) \/ deliverMail(d)
  \/ deliverFails(d) \/ deliverUpdate(d)

Next ==
  \/ \E r \in Requests : checkout(r)
  \/ \E e \in events : webhook(e)
  \/ \E p \in Processors : process(p)
  \/ \E u \in Operators : completeHuman(u)
  \/ \E d \in Deliverers : deliver(d)
  \/ restart
  \/ stripeStep
  \/ \E o \in Orders : keyExpires(o)

Spec == Init /\ [][Next]_vars

\* Stripe redelivers until a 2xx; the crons fire again after any exception; a
\* mail server or Stripe that is asked for ever answers eventually.  Customers,
\* operators, outages and restarts are not fair.
Fairness ==
  /\ \A e \in Events : WF_vars(webhook(e))
  /\ \A p \in Processors :
       WF_vars(process(p)) /\ SF_vars(processAlert(p))
  /\ \A d \in Deliverers :
       WF_vars(deliver(d)) /\ SF_vars(deliverVerify(d)) /\ SF_vars(deliverMail(d))

FairSpec == Spec /\ Fairness

-----------------------------------------------------------------------------
(* Invariants.                                                             *)

RowsOK ==
  /\ status \in [Orders -> Status \cup {"NONE"}]
  /\ session \in [Orders -> Sessions \cup {NoSession}]
  /\ payment \in [Orders -> Sessions \cup {NoSession}]
  /\ old \subseteq Orders
  /\ audit \in [Orders -> Seq(Recorded)]
  /\ job \in [Orders -> Jobs]
  /\ older \subseteq Orders \X Orders
  /\ claimed \subseteq Events

TasksOK ==
  /\ cfg \in Configs
  /\ restarts \in 0..MaxRestarts
  /\ req \in [Requests -> [pc : {"idle", "stripe", "save"},
                           order : Orders \cup {NoOrder},
                           session : Sessions \cup {NoSession}]]
  /\ proc \in [Processors -> [pc : {"idle", "next", "decide", "alert", "update"},
                              todo : SUBSET Snapshots,
                              cur : Snapshots \cup {NoSnapshot}, hold : BOOLEAN]]
  /\ del \in [Deliverers -> [pc : {"idle", "verify", "mail", "update"},
                             todo : Seq(Snapshots)]]
  /\ op \in [Operators -> [pc : {"idle", "verify", "confirm"},
                           order : Orders \cup {NoOrder},
                           session : Sessions \cup {NoSession}]]

StripeOK ==
  /\ pay \in [Sessions -> Paying]
  /\ owner \in [Sessions -> Orders \cup {NoOrder}]
  /\ key \in [Orders -> Sessions \cup {NoSession}]
  /\ events \subseteq Events
  /\ owed \subseteq Orders
  /\ ready \subseteq Orders

\* Every variable keeps the shape of the rows, runs and events it stands for.
TypeOK == RowsOK /\ TasksOK /\ StripeOK

\* Which row may come after which: an edge of canTransition, but ACTIVE only
\* after the confirmation, which itself only follows PROVISIONED.
Follows(a, b) ==
  \/ canTransition(a, b) /\ b # "ACTIVE"
  \/ a = "PROVISIONED" /\ b = HumanConfirmed
  \/ a = HumanConfirmed /\ b = "ACTIVE"

\* The rows in a lead from a creation to status st, step by step.
Trail(st, a) ==
  /\ st = "NONE" <=> a = <<>>
  /\ st # "NONE" => a[1] = "CREATED" /\ a[Len(a)] = st
  /\ \A i \in 1..(Len(a) - 1) : Follows(a[i], a[i + 1])

\* The "commerce.transition" rows of an order start with its creation, end in its
\* current status and go along the edges of canTransition, with the operator's
\* confirmation between PROVISIONED and ACTIVE: no status change is lost, forged
\* or made from a stale status, and none becomes ACTIVE unconfirmed, whatever
\* crons, webhooks and operators overlap (commerce.service.ts:229, :380).
AuditTrail == \A o \in Orders : Trail(status[o], audit[o])

\* An order that was ever accepted names a payment of its own that Stripe really
\* captured (it may have been reversed since): webhook() binds the event to the
\* order and to the stored session before it records PAID.
PaidOrdersArePaid ==
  \A o \in Orders :
    status[o] \in {"PAID", "PROVISIONING", "PROVISIONED", "ACTIVE"} =>
      /\ payment[o] # NoSession
      /\ owner[payment[o]] = o
      /\ pay[payment[o]] \in {"paid", "reversed"}

\* A released order whose payment was reversed still has an unprocessed reversal
\* event: the reversal that webhook() drops because no order had the payment yet
\* is always caught by process(), which asks Stripe again before the release.
ReversalCaught ==
  \A o \in Orders :
    /\ status[o] \in {"PROVISIONING", "PROVISIONED", "ACTIVE"}
    /\ payment[o] = session[o] /\ pay[payment[o]] = "reversed"
    => \E e \in events \ claimed :
         e.kind \in {"refunded", "dispute"} /\ e.session = payment[o]

\* The job row is created with the payment (or the hold), can always be alerted
\* while PENDING, and is DONE only when the ready mail went out.
JobFollowsOrder ==
  \A o \in Orders :
    /\ status[o] \notin {"NONE", "CREATED"} => job[o].state # "NONE"
    /\ job[o].state = "PENDING" => ~job[o].alerted
    /\ job[o].state = "DONE" => o \in ready

\* The operator's row is in the log of the order.
Confirmed(o) == \E i \in 1..Len(audit[o]) : audit[o][i] = HumanConfirmed

\* "Your service is ready." is only ever mailed for an order an operator has
\* confirmed, even when deliver() works from an old batch.
ReadyMailConfirmed == \A o \in ready : Confirmed(o)

-----------------------------------------------------------------------------
(* What the documents say and the code does not keep.                      *)

\* An order enqueued for review stays PENDING until an alert has been mailed
\* (commerce.service.ts:341, "Alerts are durable and at-least-once").
AlertDurable == \A o \in owed : job[o].state = "PENDING" /\ ~job[o].alerted

\* deliver() mails nothing for an order that is held or failed (ROLLOUT.md: a
\* hold prevents "further guide retrieval or delivery").
DeliveryStopsAtHold ==
  [][\A d \in Deliverers :
       del[d].pc = "mail" /\ del'[d].pc = "update" =>
         status[Head(del[d].todo).order] \notin {"HELD", "FAILED"}]_vars

-----------------------------------------------------------------------------
(* Liveness, under FairSpec.                                               *)

\* Every paid order is taken up by process(): released or held for review.
PaidIsReviewed ==
  \A o \in Orders : status[o] = "PAID" ~> status[o] \in {"PROVISIONING", "HELD"}

\* A reversal of the order's payment ends in a hold, in whatever order the paid
\* event, the reversal event and the crons come, unless a checkout request that
\* answers late has stored another session (line 125) by then.
ReversedIsHeld ==
  \A o \in Orders :
    payment[o] # NoSession /\ payment[o] = session[o] /\ pay[payment[o]] = "reversed"
      ~> status[o] \in {"HELD", "FAILED"} \/ payment[o] # session[o]

\* The guide of a released order is mailed, unless its order moves on, its
\* payment is reversed or the deployment is switched off.
GuideDelivered ==
  \A o \in Orders \ BadMailboxes :
    status[o] = "PROVISIONING" ~>
      job[o].sent \/ status[o] # "PROVISIONING" \/ Blocked \/ ~stripePaid(session[o])

\* An order an operator confirmed gets its ready mail, with the same exceptions.
ActiveIsMailed ==
  \A o \in Orders \ BadMailboxes :
    status[o] = "ACTIVE" ~>
      o \in ready \/ status[o] # "ACTIVE" \/ Blocked \/ ~stripePaid(session[o])
=============================================================================
