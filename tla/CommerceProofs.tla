--------------------------- MODULE CommerceProofs ---------------------------
(***************************************************************************)
(* Theorems of Commerce, for any number of orders, sessions, requests,     *)
(* cron runs, operators and restarts.                                      *)
(***************************************************************************)
EXTENDS Commerce, SequenceTheorems, TLAPS

Captured == {"paid", "reversed"}
Accepted == {"PAID", "PROVISIONING", "PROVISIONED", "ACTIVE"}

\* A request or run that is under way names a real order, session or snapshot.
Bodies ==
  /\ \A r \in Requests : req[r].pc # "idle" => req[r].order \in Orders
  /\ \A r \in Requests : req[r].pc = "save" => req[r].session \in Sessions
  /\ \A p \in Processors :
       proc[p].pc \in {"decide", "alert", "update"} => proc[p].cur \in Snapshots
  /\ \A d \in Deliverers : del[d].pc # "idle" => del[d].todo # <<>>
  /\ \A u \in Operators : op[u].pc # "idle" => op[u].order \in Orders

\* A session that exists was created for an order, an event speaks of such a
\* session, a paid event of captured money, and so does a recorded payment.
Money ==
  /\ \A s \in Sessions : pay[s] # "none" => owner[s] \in Orders
  /\ \A e \in events : pay[e.session] # "none" /\ (e.paid => pay[e.session] \in Captured)
  /\ \A o \in Orders :
       payment[o] # NoSession => owner[payment[o]] = o /\ pay[payment[o]] \in Captured
  /\ \A o \in Orders : status[o] \in Accepted => payment[o] # NoSession

IInv == TypeOK /\ Bodies /\ Money

\* The inductive invariant holds at the start.
LEMMA InitInv == Init => IInv
  BY CommerceConstants, SMT
  DEF Init, IInv, TypeOK, RowsOK, TasksOK, StripeOK, Bodies, Money, IdleReq, IdleProc,
      IdleDel, IdleOp, NoSnapshot, Jobs, JobStates, Status, Paying, Accepted

\* Writing a row keeps the order of updatedAt a relation over the orders.
LEMMA TouchType == ASSUME RowsOK, NEW o \in Orders, Touch(o) PROVE older' \subseteq Orders \X Orders
  BY DEF RowsOK, Touch, Refresh

\* What a cron run reads of an order is a snapshot.
LEMMA SnapshotType == ASSUME RowsOK, NEW o \in Orders PROVE Snapshot(o) \in Snapshots
  BY DEF RowsOK, Snapshot, Snapshots, Jobs

\* Updates of the job row keep its type.
LEMMA JobType ==
  ASSUME RowsOK, NEW o \in Orders, NEW st \in JobStates, NEW b \in BOOLEAN
  PROVE  /\ [job EXCEPT ![o].state = st] \in [Orders -> Jobs]
         /\ [job EXCEPT ![o].state = st, ![o].alerted = b] \in [Orders -> Jobs]
         /\ [job EXCEPT ![o].state = st, ![o].sent = b] \in [Orders -> Jobs]
<1> job \in [Orders -> Jobs]
  BY DEF RowsOK
<1> QED
  BY DEF Jobs

\* enqueue keeps the types of the rows it writes.
LEMMA EnqueueType ==
  ASSUME RowsOK, NEW o \in Orders, enqueue(o)
  PROVE  job' \in [Orders -> Jobs] /\ older' \subseteq Orders \X Orders
  BY JobType, TouchType DEF enqueue, JobStates

\* transition keeps the types of the rows it writes.
LEMMA TransitionType ==
  ASSUME RowsOK, NEW o \in Orders, NEW to \in Status, transition(o, to)
  PROVE  status' \in [Orders -> Status \cup {"NONE"}] /\ audit' \in [Orders -> Seq(Recorded)]
<1> audit[o] \in Seq(Recorded) /\ to \in Recorded
  BY DEF RowsOK, Recorded
<1> Append(audit[o], to) \in Seq(Recorded)
  BY AppendProperties
<1> QED
  BY DEF RowsOK, transition

-----------------------------------------------------------------------------
(* The rows.                                                               *)

\* Every step keeps the types of the rows.
LEMMA RowsStep == ASSUME IInv, [Next]_vars PROVE RowsOK'
<1> USE DEF IInv, TypeOK
<1> SUFFICES ASSUME Next PROVE RowsOK'
  BY DEF vars, dbVars, RowsOK
<1>1. ASSUME NEW r \in Requests, NEW o \in Orders, checkoutOrder(r, o) PROVE RowsOK'
  <2>1. <<"CREATED">> \in Seq(Recorded)
    BY DEF Status, Recorded
  <2> QED
    BY <1>1, <2>1 DEF checkoutOrder, RowsOK, Status
<1>2. ASSUME NEW r \in Requests, checkoutStripe(r) PROVE RowsOK'
  BY <1>2 DEF checkoutStripe, dbVars, RowsOK
<1>3. ASSUME NEW r \in Requests, checkoutSave(r) PROVE RowsOK'
  BY <1>3 DEF checkoutSave, Bodies, RowsOK
<1>4. ASSUME NEW e \in events, webhook(e) PROVE RowsOK'
  <2>1. /\ owner[e.session] \in Orders
        /\ e.session \in Sessions
        /\ e \in Events
    BY DEF StripeOK, Events, Money
  <2>2. /\ session' = session /\ old' = old
        /\ claimed' \subseteq Events
    BY <1>4, <2>1 DEF webhook, RowsOK
  <2>3. {"PAID", "HELD", "FAILED"} \subseteq Status
    BY DEF Status
  <2>4. CASE webhookMismatch(e)
    BY <2>1, <2>2, <2>3, <2>4, EnqueueType, TransitionType DEF webhookMismatch, RowsOK
  <2>5. CASE webhookAchFailed(e)
    BY <2>1, <2>2, <2>3, <2>5, EnqueueType, TransitionType DEF webhookAchFailed, RowsOK
  <2>6. CASE webhookPaid(e)
    BY <2>1, <2>2, <2>3, <2>6, EnqueueType, TransitionType DEF webhookPaid, RowsOK
  <2>7. CASE webhookReversal(e)
    BY <2>1, <2>2, <2>3, <2>7, EnqueueType, TransitionType DEF webhookReversal, RowsOK
  <2> QED
    BY <1>4, <2>4, <2>5, <2>6, <2>7 DEF webhook
<1>5. ASSUME NEW p \in Processors, processDecide(p) PROVE RowsOK'
  <2>1. proc[p].cur.order \in Orders
    BY <1>5 DEF processDecide, Bodies, Snapshots
  <2>2. \A to : to = (IF proc[p].hold THEN "HELD" ELSE "PROVISIONING") => to \in Status
    BY DEF Status
  <2> QED
    BY <1>5, <2>1, <2>2, TransitionType DEF processDecide, RowsOK
<1>6. ASSUME NEW p \in Processors, processUpdate(p) PROVE RowsOK'
  <2>1. proc[p].cur.order \in Orders
    BY <1>6 DEF processUpdate, Bodies, Snapshots
  <2>2. "AWAITING_REVIEW" \in JobStates
    BY DEF JobStates
  <2> QED
    BY <1>6, <2>1, <2>2, TouchType, JobType DEF processUpdate, orderVars, RowsOK
<1>7. ASSUME NEW u \in Operators, completeHumanConfirm(u) PROVE RowsOK'
  <2> DEFINE o == op[u].order
  <2>1. o \in Orders
    BY <1>7 DEF completeHumanConfirm, Bodies
  <2>2. audit[o] \o <<"PROVISIONED", HumanConfirmed, "ACTIVE">> \in Seq(Recorded)
    <3>1. /\ audit[o] \in Seq(Recorded)
          /\ <<"PROVISIONED", HumanConfirmed, "ACTIVE">> \in Seq(Recorded)
      BY <2>1 DEF RowsOK, Status, Recorded
    <3> QED
      BY <3>1, ConcatProperties
  <2>3. "DELIVERY_PENDING" \in JobStates /\ "ACTIVE" \in Status
    BY DEF JobStates, Status
  <2>4. CASE status[o] = "PROVISIONING"
    <3>1. /\ status' = [status EXCEPT ![o] = "ACTIVE"]
          /\ audit' = [audit EXCEPT ![o] = @ \o <<"PROVISIONED", HumanConfirmed, "ACTIVE">>]
          /\ job' = [job EXCEPT ![o].state = "DELIVERY_PENDING"]
          /\ Touch(o)
      BY <1>7, <2>4 DEF completeHumanConfirm
    <3>2. job' \in [Orders -> Jobs] /\ older' \subseteq Orders \X Orders
      BY <2>1, <2>3, <3>1, TouchType, JobType
    <3>3. /\ audit' \in [Orders -> Seq(Recorded)]
          /\ status' \in [Orders -> Status \cup {"NONE"}]
      BY <2>1, <2>2, <2>3, <3>1 DEF RowsOK
    <3> QED
      BY <1>7, <3>2, <3>3 DEF completeHumanConfirm, RowsOK
  <2>5. CASE status[o] # "PROVISIONING"
    BY <1>7, <2>5 DEF completeHumanConfirm, RowsOK
  <2> QED
    BY <2>4, <2>5
<1>8. ASSUME NEW d \in Deliverers, deliverUpdate(d) PROVE RowsOK'
  <2> DEFINE j == Head(del[d].todo)
  <2>1. j.order \in Orders
    <3>1. del[d].todo \in Seq(Snapshots) /\ del[d].todo # <<>>
      BY <1>8 DEF deliverUpdate, TasksOK, Bodies
    <3>2. j \in Snapshots
      BY <3>1, HeadTailProperties
    <3> QED
      BY <3>2 DEF Snapshots
  <2>2. (IF j.status = "ACTIVE" THEN "DONE" ELSE "AWAITING_REVIEW") \in JobStates
    BY DEF JobStates
  <2> QED
    BY <1>8, <2>1, <2>2, TouchType, JobType DEF deliverUpdate, orderVars, RowsOK
<1>9. CASE restart
  BY <1>9 DEF restart, RowsOK
<1>10. ASSUME stripeStep \/ (\E o \in Orders : keyExpires(o)) PROVE RowsOK'
  BY <1>10 DEF stripeStep, keyExpires, dbVars, RowsOK
<1>11. ASSUME NEW p \in Processors,
              processStart(p) \/ processVerify(p) \/ processAlert(p) \/ processAlertFails(p)
       PROVE RowsOK'
  BY <1>11 DEF processStart, processVerify, processAlert, processAlertFails, dbVars, RowsOK
<1>12. ASSUME NEW u \in Operators,
              (\E o \in Orders : completeHumanRead(u, o)) \/ completeHumanVerify(u)
       PROVE RowsOK'
  BY <1>12 DEF completeHumanRead, completeHumanVerify, dbVars, RowsOK
<1>13. ASSUME NEW d \in Deliverers,
              deliverStart(d) \/ deliverVerify(d) \/ deliverMail(d) \/ deliverFails(d)
       PROVE RowsOK'
  BY <1>13 DEF deliverStart, deliverVerify, deliverMail, deliverFails, dbVars, RowsOK
<1> QED
  BY <1>1, <1>2, <1>3, <1>4, <1>5, <1>6, <1>7, <1>8, <1>9, <1>10, <1>11, <1>12, <1>13
  DEF Next, checkout, process, completeHuman, deliver

-----------------------------------------------------------------------------
(* The requests and cron runs.                                             *)

\* Every step keeps the types of what is in flight, which names real orders.
LEMMA TasksStep == ASSUME IInv, [Next]_vars PROVE TasksOK' /\ Bodies'
<1> USE DEF IInv, TypeOK
<1> SUFFICES ASSUME Next PROVE TasksOK' /\ Bodies'
  BY DEF vars, taskVars, TasksOK, Bodies
<1>1. ASSUME NEW r \in Requests, checkout(r) PROVE TasksOK' /\ Bodies'
  <2>1. ASSUME NEW o \in Orders, checkoutOrder(r, o) PROVE TasksOK' /\ Bodies'
    BY <2>1 DEF checkoutOrder, TasksOK, Bodies
  <2>2. CASE checkoutStripe(r)
    BY <2>2 DEF checkoutStripe, IdleReq, TasksOK, Bodies
  <2>3. CASE checkoutSave(r)
    BY <2>3 DEF checkoutSave, IdleReq, TasksOK, Bodies
  <2> QED
    BY <1>1, <2>1, <2>2, <2>3 DEF checkout
<1>2. ASSUME NEW e \in events, webhook(e) PROVE TasksOK' /\ Bodies'
  BY <1>2 DEF webhook, taskVars, TasksOK, Bodies
<1>3. ASSUME NEW p \in Processors, process(p) PROVE TasksOK' /\ Bodies'
  <2>1. CASE processStart(p)
    <3> DEFINE pending == {o \in Orders : job[o].state = "PENDING"}
    <3>1. PICK S \in SUBSET pending :
            proc' = [proc EXCEPT ![p] =
              [IdleProc EXCEPT !.pc = "next", !.todo = {Snapshot(o) : o \in S}]]
      BY <2>1 DEF processStart
    <3>2. {Snapshot(o) : o \in S} \subseteq Snapshots
      BY SnapshotType
    <3> QED
      BY <2>1, <3>1, <3>2 DEF processStart, IdleProc, TasksOK, Bodies
  <2>2. CASE processVerify(p)
    BY <2>2 DEF processVerify, TasksOK, Bodies, Blocked, stripePaid, OperatorExists
  <2>3. CASE processDecide(p)
    <3>1. proc' = [proc EXCEPT ![p].pc = "alert"] \/ proc' = [proc EXCEPT ![p] = IdleProc]
      BY <2>3 DEF processDecide
    <3>2. proc[p].cur \in Snapshots
      BY <2>3 DEF processDecide, Bodies
    <3>3. UNCHANGED <<cfg, restarts, req, del, op>>
      BY <2>3 DEF processDecide
    <3>4. CASE proc' = [proc EXCEPT ![p].pc = "alert"]
      <4> DEFINE next == [proc[p] EXCEPT !.pc = "alert"]
      <4>1. /\ proc' = [proc EXCEPT ![p] = next]
            /\ next.pc = "alert" /\ next.cur \in Snapshots
        BY <3>2, <3>4 DEF TasksOK
      <4>2. next \in [pc : {"alert"}, todo : SUBSET Snapshots,
                     cur : Snapshots \cup {NoSnapshot}, hold : BOOLEAN]
        <5>1. proc[p] \in [pc : {"idle", "next", "decide", "alert", "update"},
                           todo : SUBSET Snapshots,
                           cur : Snapshots \cup {NoSnapshot}, hold : BOOLEAN]
          BY DEF TasksOK
        <5> QED
          BY <5>1
      <4> HIDE DEF next
      <4> QED
        BY <3>3, <4>1, <4>2 DEF TasksOK, Bodies
    <3>5. CASE proc' = [proc EXCEPT ![p] = IdleProc]
      BY <3>3, <3>5 DEF IdleProc, TasksOK, Bodies
    <3> QED
      BY <3>1, <3>4, <3>5
  <2>4. CASE processAlert(p)
    BY <2>4 DEF processAlert, TasksOK, Bodies
  <2>5. CASE processAlertFails(p)
    BY <2>5 DEF processAlertFails, IdleProc, TasksOK, Bodies
  <2>6. CASE processUpdate(p)
    BY <2>6 DEF processUpdate, IdleProc, TasksOK, Bodies
  <2> QED
    BY <1>3, <2>1, <2>2, <2>3, <2>4, <2>5, <2>6 DEF process
<1>4. ASSUME NEW u \in Operators, completeHuman(u) PROVE TasksOK' /\ Bodies'
  <2>1. ASSUME NEW o \in Orders, completeHumanRead(u, o) PROVE TasksOK' /\ Bodies'
    BY <2>1 DEF completeHumanRead, RowsOK, TasksOK, Bodies
  <2>2. CASE completeHumanVerify(u)
    BY <2>2 DEF completeHumanVerify, IdleOp, TasksOK, Bodies
  <2>3. CASE completeHumanConfirm(u)
    BY <2>3 DEF completeHumanConfirm, IdleOp, TasksOK, Bodies
  <2> QED
    BY <1>4, <2>1, <2>2, <2>3 DEF completeHuman
<1>5. ASSUME NEW d \in Deliverers, deliver(d) PROVE TasksOK' /\ Bodies'
  <2>1. ASSUME del[d].pc # "idle"
        PROVE  /\ DeliverRest(d) \in [pc : {"idle", "verify"}, todo : Seq(Snapshots)]
               /\ DeliverRest(d).pc # "idle" => DeliverRest(d).todo # <<>>
    <3>1. del[d].todo \in Seq(Snapshots) /\ del[d].todo # <<>>
      BY <2>1 DEF TasksOK, Bodies
    <3>2. /\ Tail(del[d].todo) \in Seq(Snapshots)
          /\ Len(del[d].todo) # 1 => Tail(del[d].todo) # <<>>
      <4>1. /\ Tail(del[d].todo) \in Seq(Snapshots)
            /\ Len(Tail(del[d].todo)) = Len(del[d].todo) - 1
            /\ Len(del[d].todo) \in Nat
        BY <3>1, HeadTailProperties, LenProperties
      <4>2. Len(del[d].todo) # 1 => Len(Tail(del[d].todo)) # Len(<<>>)
        BY <3>1, <4>1, EmptySeq
      <4> QED
        BY <4>1, <4>2
    <3> QED
      BY <3>2 DEF DeliverRest, IdleDel
  <2>2. CASE deliverStart(d)
    <3> DEFINE due == {o \in Orders : Deliverable(o)}
    <3>1. PICK batch \in Oldest(due, older, Batch) :
            del' = [del EXCEPT ![d] =
              [pc |-> "verify", todo |-> [i \in DOMAIN batch |-> Snapshot(batch[i])]]]
      BY <2>2 DEF deliverStart
    <3>2. PICK n \in 1..Batch : batch \in [1..n -> due]
      BY DEF Oldest
    <3> DEFINE todo == [i \in DOMAIN batch |-> Snapshot(batch[i])]
    <3>3. /\ todo = [i \in 1..n |-> Snapshot(batch[i])]
          /\ \A i \in 1..n : Snapshot(batch[i]) \in Snapshots
          /\ n \in Nat \ {0}
      BY <3>2, SnapshotType, CommerceConstants
    <3>4. todo \in Seq(Snapshots) /\ todo # <<>>
      BY <3>3
    <3> QED
      BY <2>2, <3>1, <3>4 DEF deliverStart, TasksOK, Bodies
  <2>3. CASE deliverVerify(d)
    <3> DEFINE next == [del[d] EXCEPT !.pc = "mail"]
    <3>1. \/ del' = [del EXCEPT ![d] = next]
          \/ del' = [del EXCEPT ![d] = DeliverRest(d)]
      BY <2>3 DEF deliverVerify
    <3>2. /\ next \in [pc : {"idle", "verify", "mail", "update"}, todo : Seq(Snapshots)]
          /\ next.todo = del[d].todo /\ del[d].todo # <<>>
      BY <2>3 DEF deliverVerify, TasksOK, Bodies
    <3>3. UNCHANGED <<cfg, restarts, req, proc, op>>
      BY <2>3 DEF deliverVerify
    <3> HIDE DEF next
    <3>4. CASE del' = [del EXCEPT ![d] = next]
      BY <3>2, <3>3, <3>4 DEF TasksOK, Bodies
    <3>5. CASE del' = [del EXCEPT ![d] = DeliverRest(d)]
      <4>1. /\ DeliverRest(d) \in [pc : {"idle", "verify", "mail", "update"}, todo : Seq(Snapshots)]
            /\ DeliverRest(d).pc # "idle" => DeliverRest(d).todo # <<>>
        BY <2>1, <2>3 DEF deliverVerify
      <4> DEFINE rest == DeliverRest(d)
      <4> HIDE DEF rest
      <4>2. /\ del' = [del EXCEPT ![d] = rest]
            /\ rest.pc # "idle" => rest.todo # <<>>
            /\ rest \in [pc : {"idle", "verify", "mail", "update"}, todo : Seq(Snapshots)]
        BY <3>5, <4>1 DEF rest
      <4>3. TasksOK'
        BY <3>3, <4>2 DEF TasksOK
      <4>4. del'[d] = rest /\ \A e \in Deliverers \ {d} : del'[e] = del[e]
        BY <4>2 DEF TasksOK
      <4>5. \A e \in Deliverers : del'[e].pc # "idle" => del'[e].todo # <<>>
        BY <4>2, <4>4 DEF Bodies
      <4> QED
        BY <3>3, <4>3, <4>5 DEF Bodies
    <3> QED
      BY <3>1, <3>4, <3>5
  <2>4. CASE deliverMail(d)
    BY <2>4 DEF deliverMail, TasksOK, Bodies
  <2>5. CASE deliverFails(d)
    BY <2>5 DEF deliverFails, IdleDel, TasksOK, Bodies
  <2>6. CASE deliverUpdate(d)
    BY <2>1, <2>6 DEF deliverUpdate, TasksOK, Bodies
  <2> QED
    BY <1>5, <2>2, <2>3, <2>4, <2>5, <2>6 DEF deliver
<1>6. CASE restart
  BY <1>6, CommerceConstants
  DEF restart, IdleReq, IdleProc, IdleDel, IdleOp, TasksOK, Bodies
<1>7. ASSUME stripeStep \/ (\E o \in Orders : keyExpires(o)) PROVE TasksOK' /\ Bodies'
  BY <1>7 DEF stripeStep, keyExpires, taskVars, TasksOK, Bodies
<1> QED
  BY <1>1, <1>2, <1>3, <1>4, <1>5, <1>6, <1>7 DEF Next

-----------------------------------------------------------------------------
(* Stripe and the money.                                                   *)

\* Every step keeps the types of what Stripe holds, and what money means.
LEMMA StripeStep == ASSUME IInv, [Next]_vars PROVE StripeOK'
<1> USE DEF IInv, TypeOK
<1> SUFFICES ASSUME Next PROVE StripeOK'
  BY DEF vars, stripeVars, mailVars, StripeOK
<1>1. ASSUME NEW r \in Requests, checkout(r) PROVE StripeOK'
  <2>1. ASSUME NEW o \in Orders, checkoutOrder(r, o) PROVE StripeOK'
    BY <2>1 DEF checkoutOrder, stripeVars, mailVars, StripeOK
  <2>2. CASE checkoutStripe(r)
    BY <2>2 DEF checkoutStripe, mailVars, StripeOK, Paying, Bodies
  <2>3. CASE checkoutSave(r)
    BY <2>3 DEF checkoutSave, mailVars, StripeOK, Paying
  <2> QED
    BY <1>1, <2>1, <2>2, <2>3 DEF checkout
<1>2. ASSUME NEW e \in events, webhook(e) PROVE StripeOK'
  <2>1. owner[e.session] \in Orders /\ e.session \in Sessions
    BY DEF StripeOK, Events, Money
  <2>2. owed' \subseteq Orders
    BY <1>2, <2>1
    DEF webhook, webhookMismatch, webhookAchFailed, webhookPaid, webhookReversal, enqueue, StripeOK
  <2> QED
    BY <1>2, <2>2 DEF webhook, stripeVars, StripeOK
<1>3. ASSUME NEW p \in Processors, process(p) PROVE StripeOK'
  BY <1>3
  DEF process, processStart, processVerify, processDecide, processAlert, processAlertFails,
      processUpdate, stripeVars, mailVars, StripeOK
<1>4. ASSUME NEW u \in Operators, completeHuman(u) PROVE StripeOK'
  BY <1>4
  DEF completeHuman, completeHumanRead, completeHumanVerify, completeHumanConfirm,
      stripeVars, mailVars, StripeOK
<1>5. ASSUME NEW d \in Deliverers, deliver(d) PROVE StripeOK'
  <2>1. ASSUME deliverMail(d) PROVE Head(del[d].todo).order \in Orders
    <3>1. del[d].todo \in Seq(Snapshots) /\ del[d].todo # <<>>
      BY <2>1 DEF deliverMail, TasksOK, Bodies
    <3>2. Head(del[d].todo) \in Snapshots
      BY <3>1, HeadTailProperties
    <3> QED
      BY <3>2 DEF Snapshots
  <2> QED
    BY <1>5, <2>1
    DEF deliver, deliverStart, deliverVerify, deliverMail, deliverFails, deliverUpdate,
        stripeVars, mailVars, StripeOK
<1>6. CASE restart
  BY <1>6 DEF restart, stripeVars, mailVars, StripeOK
<1>7. CASE stripeStep
  <2>1. PICK s \in Sessions :
          payByCard(s) \/ payByAch(s) \/ achSettles(s) \/ reverse(s) \/ sessionExpires(s)
    BY <1>7 DEF stripeStep
  <2>2. pay' \in [Sessions -> Paying]
    BY <2>1
    DEF payByCard, payByAch, achSettles, reverse, sessionExpires, StripeOK, Paying
  <2>3. \A kind \in Kinds, b \in BOOLEAN : Emit(kind, s, b) => events' \subseteq Events
    BY DEF Emit, Events, StripeOK
  <2>4. Reversals \subseteq Kinds /\ {"completed", "async_succeeded", "async_failed"} \subseteq Kinds
    BY CommerceConstants DEF Kinds
  <2>5. events' \subseteq Events
    <3>1. CASE payByCard(s) \/ payByAch(s)
      BY <2>3, <2>4, <3>1 DEF payByCard, payByAch
    <3>2. CASE achSettles(s)
      BY <2>3, <2>4, <3>2 DEF achSettles
    <3>3. CASE reverse(s)
      BY <2>3, <2>4, <3>3 DEF reverse
    <3>4. CASE sessionExpires(s)
      BY <3>4 DEF sessionExpires, StripeOK
    <3> QED
      BY <2>1, <3>1, <3>2, <3>3, <3>4
  <2> QED
    BY <1>7, <2>2, <2>5 DEF stripeStep, mailVars, StripeOK
<1>8. ASSUME NEW o \in Orders, keyExpires(o) PROVE StripeOK'
  BY <1>8 DEF keyExpires, mailVars, StripeOK
<1> QED
  BY <1>1, <1>2, <1>3, <1>4, <1>5, <1>6, <1>7, <1>8 DEF Next

\* Stripe never takes captured money for uncaptured again, nor a session from its
\* order, and an event of a session that captured is only sent after it did.
LEMMA MoneyStep == ASSUME IInv, [Next]_vars PROVE Money'
<1> USE DEF IInv, TypeOK
<1> SUFFICES ASSUME Next PROVE Money'
  BY DEF vars, dbVars, stripeVars, Money
<1>1. ASSUME NEW r \in Requests, checkout(r) PROVE Money'
  <2>1. ASSUME NEW o \in Orders, checkoutOrder(r, o) PROVE Money'
    BY <2>1 DEF checkoutOrder, stripeVars, Money, RowsOK, Accepted
  <2>2. CASE checkoutStripe(r)
    <3>1. UNCHANGED <<status, payment, events>>
      BY <2>2 DEF checkoutStripe, dbVars
    <3>2. PICK s \in Sessions :
            \/ UNCHANGED <<pay, owner>>
            \/ /\ pay[s] = "none"
               /\ pay' = [pay EXCEPT ![s] = "created"]
               /\ owner' = [owner EXCEPT ![s] = req[r].order]
      BY <2>2 DEF checkoutStripe
    <3>3. CASE UNCHANGED <<pay, owner>>
      BY <3>1, <3>3 DEF Money
    <3>4. CASE /\ pay[s] = "none"
               /\ pay' = [pay EXCEPT ![s] = "created"]
               /\ owner' = [owner EXCEPT ![s] = req[r].order]
      <4>1. req[r].order \in Orders
        BY <2>2 DEF checkoutStripe, Bodies
      <4>2. \A x \in Sessions : x # s => pay'[x] = pay[x] /\ owner'[x] = owner[x]
        BY <3>4 DEF StripeOK
      <4>3. pay'[s] = "created" /\ owner'[s] = req[r].order
        BY <3>4 DEF StripeOK
      <4>4. \A o \in Orders : payment[o] # NoSession => payment[o] \in Sessions /\ payment[o] # s
        BY <3>4 DEF Money, RowsOK, Captured
      <4>5. \A e \in events : e.session \in Sessions /\ e.session # s
        BY <3>4 DEF Money, StripeOK, Events
      <4> QED
        BY <3>1, <4>1, <4>2, <4>3, <4>4, <4>5 DEF Money
    <3> QED
      BY <3>2, <3>3, <3>4
  <2>3. CASE checkoutSave(r)
    BY <2>3 DEF checkoutSave, Money, RowsOK, StripeOK, Bodies, Captured, Events
  <2> QED
    BY <1>1, <2>1, <2>2, <2>3 DEF checkout
<1>2. ASSUME NEW e \in events, webhook(e) PROVE Money'
  <2>1. UNCHANGED <<pay, owner, events>>
    BY <1>2 DEF webhook, stripeVars
  <2>2. owner[e.session] \in Orders /\ e.session \in Sessions
    BY DEF StripeOK, Events, Money
  <2>3. CASE webhookMismatch(e)
    BY <2>1, <2>2, <2>3 DEF webhookMismatch, transition, Money, RowsOK, Accepted
  <2>4. CASE webhookAchFailed(e)
    BY <2>1, <2>2, <2>4 DEF webhookAchFailed, transition, Money, RowsOK, Accepted
  <2>5. CASE webhookPaid(e)
    <3> DEFINE o == owner[e.session]
    <3>1. CASE UNCHANGED <<status, payment>>
      BY <2>1, <3>1 DEF Money
    <3>2. CASE /\ e.paid
               /\ status' = [status EXCEPT ![o] = "PAID"]
               /\ payment' = [payment EXCEPT ![o] = e.session]
      <4>1. pay[e.session] \in Captured /\ e.session # NoSession
        BY <2>2, <3>2, CommerceConstants DEF Money
      <4>2. payment'[o] = e.session /\ \A x \in Orders : x # o => payment'[x] = payment[x] /\ status'[x] = status[x]
        BY <2>2, <3>2 DEF RowsOK
      <4> QED
        BY <2>1, <4>1, <4>2 DEF Money
    <3> QED
      BY <2>5, <3>1, <3>2 DEF webhookPaid, transition
  <2>6. CASE webhookReversal(e)
    BY <2>1, <2>2, <2>6 DEF webhookReversal, transition, Money, RowsOK, Accepted
  <2> QED
    BY <1>2, <2>3, <2>4, <2>5, <2>6 DEF webhook
<1>3. ASSUME NEW p \in Processors, process(p) PROVE Money'
  <2>1. UNCHANGED <<payment, pay, owner, events>>
    BY <1>3
    DEF process, processStart, processVerify, processDecide, processAlert, processAlertFails,
        processUpdate, dbVars, orderVars, stripeVars
  <2>2. \A o \in Orders : status'[o] \in Accepted => status[o] \in Accepted
    BY <1>3
    DEF process, processStart, processVerify, processDecide, processAlert, processAlertFails,
        processUpdate, dbVars, orderVars, transition, RowsOK, Accepted
  <2> QED
    BY <2>1, <2>2 DEF Money
<1>4. ASSUME NEW u \in Operators, completeHuman(u) PROVE Money'
  <2>1. UNCHANGED <<payment, pay, owner, events>>
    BY <1>4
    DEF completeHuman, completeHumanRead, completeHumanVerify, completeHumanConfirm,
        dbVars, stripeVars
  <2>2. \A o \in Orders : status'[o] \in Accepted => status[o] \in Accepted
    BY <1>4
    DEF completeHuman, completeHumanRead, completeHumanVerify, completeHumanConfirm,
        dbVars, RowsOK, Accepted
  <2> QED
    BY <2>1, <2>2 DEF Money
<1>5. ASSUME NEW d \in Deliverers, deliver(d) PROVE Money'
  BY <1>5
  DEF deliver, deliverStart, deliverVerify, deliverMail, deliverFails, deliverUpdate,
      dbVars, orderVars, stripeVars, Money
<1>6. CASE restart
  BY <1>6 DEF restart, stripeVars, Money
<1>7. CASE stripeStep
  <2>1. UNCHANGED <<status, payment, owner>>
    BY <1>7 DEF stripeStep, dbVars
  <2>2. /\ \A s \in Sessions : pay[s] \in Captured => pay'[s] \in Captured
        /\ \A s \in Sessions : pay'[s] # "none" <=> pay[s] # "none"
        /\ \A e \in events' : e \in events \/ (pay'[e.session] # "none" /\ (e.paid => pay'[e.session] \in Captured))
    BY <1>7
    DEF stripeStep, payByCard, payByAch, achSettles, reverse, sessionExpires, Emit,
        StripeOK, Captured, Events
  <2> QED
    BY <2>1, <2>2 DEF Money, RowsOK, StripeOK, Events
<1>8. ASSUME NEW o \in Orders, keyExpires(o) PROVE Money'
  BY <1>8 DEF keyExpires, dbVars, Money
<1> QED
  BY <1>1, <1>2, <1>3, <1>4, <1>5, <1>6, <1>7, <1>8 DEF Next

-----------------------------------------------------------------------------
\* The inductive invariant of Commerce.
THEOREM Invariance == Spec => []IInv
<1>1. IInv /\ [Next]_vars => IInv'
  BY RowsStep, TasksStep, StripeStep, MoneyStep DEF IInv, TypeOK
<1> QED
  BY InitInv, <1>1, PTL DEF Spec

\* Type correctness.
THEOREM TypeCorrect == Spec => []TypeOK
<1>1. IInv => TypeOK
  BY DEF IInv
<1> QED
  BY Invariance, <1>1, PTL

\* webhook() and the later transitions accept an order only for a payment of its
\* own that Stripe captured.
THEOREM AcceptedIsPaid == Spec => []PaidOrdersArePaid
<1>1. IInv => PaidOrdersArePaid
  BY DEF IInv, Money, PaidOrdersArePaid, Accepted, Captured
<1> QED
  BY Invariance, <1>1, PTL

-----------------------------------------------------------------------------
(* The audit trail.                                                        *)

\* A trail and one row that may follow it make a trail.
LEMMA TrailAppend ==
  ASSUME NEW st \in Recorded, NEW to \in Recorded, NEW a \in Seq(Recorded), Trail(st, a),
         Follows(st, to)
  PROVE  Trail(to, Append(a, to))
<1> DEFINE b == Append(a, to)
<1>1. /\ a # <<>> /\ Len(a) \in Nat \ {0}
      /\ a[1] = "CREATED" /\ a[Len(a)] = st
  BY EmptySeq, LenProperties DEF Trail, Status, Recorded, HumanConfirmed
<1>2. /\ Len(b) = Len(a) + 1 /\ b[Len(a) + 1] = to
      /\ \A i \in 1..Len(a) : b[i] = a[i]
  BY AppendProperties
<1>3. b # <<>> /\ to # "NONE"
  BY <1>1, <1>2, EmptySeq DEF Status, Recorded, HumanConfirmed
<1>4. b[1] = "CREATED" /\ b[Len(b)] = to
  BY <1>1, <1>2
<1>5. ASSUME NEW i \in 1..(Len(b) - 1) PROVE Follows(b[i], b[i + 1])
  <2>1. CASE i = Len(a)
    BY <1>1, <1>2, <2>1
  <2>2. CASE i # Len(a)
    BY <1>1, <1>2, <2>2 DEF Trail
  <2> QED
    BY <2>1, <2>2
<1> QED
  BY <1>3, <1>4, <1>5 DEF Trail

\* transition appends what it writes to the trail of its order.
LEMMA TransitionTrail ==
  ASSUME RowsOK, AuditTrail, NEW o \in Orders, NEW to \in Status \ {"ACTIVE"}, transition(o, to)
  PROVE  AuditTrail'
<1>1. Trail(to, Append(audit[o], to))
  <2>1. /\ status[o] \in Recorded /\ to \in Recorded /\ audit[o] \in Seq(Recorded)
        /\ Trail(status[o], audit[o])
    BY DEF RowsOK, AuditTrail, transition, canTransition, Recorded
  <2>2. Follows(status[o], to)
    BY DEF Follows, transition
  <2> QED
    BY <2>1, <2>2, TrailAppend
<1>2. /\ status'[o] = to /\ audit'[o] = Append(audit[o], to)
      /\ \A x \in Orders : x # o => status'[x] = status[x] /\ audit'[x] = audit[x]
  BY DEF RowsOK, transition
<1> QED
  BY <1>1, <1>2 DEF AuditTrail

\* Every step keeps the audit trail of every order.
LEMMA TrailStep == ASSUME IInv, AuditTrail, [Next]_vars PROVE AuditTrail'
<1> USE DEF IInv, TypeOK
<1>1. ASSUME UNCHANGED <<status, audit>> PROVE AuditTrail'
  BY <1>1 DEF AuditTrail
<1> SUFFICES ASSUME Next PROVE AuditTrail'
  BY <1>1 DEF vars, dbVars
<1>2. ASSUME NEW r \in Requests, checkout(r) PROVE AuditTrail'
  <2>1. ASSUME NEW o \in Orders, checkoutOrder(r, o), status[o] = "NONE" PROVE AuditTrail'
    <3>1. status' = [status EXCEPT ![o] = "CREATED"] /\ audit' = [audit EXCEPT ![o] = <<"CREATED">>]
      BY <2>1 DEF checkoutOrder
    <3>2. Trail("CREATED", <<"CREATED">>)
      BY DEF Trail
    <3> QED
      BY <3>1, <3>2 DEF AuditTrail, RowsOK
  <2>2. ASSUME NEW o \in Orders, checkoutOrder(r, o), status[o] # "NONE" PROVE AuditTrail'
    BY <1>1, <2>2 DEF checkoutOrder
  <2>3. CASE checkoutStripe(r) \/ checkoutSave(r)
    BY <1>1, <2>3 DEF checkoutStripe, checkoutSave, dbVars
  <2> QED
    BY <1>2, <2>1, <2>2, <2>3 DEF checkout
<1>3. ASSUME NEW e \in events, webhook(e) PROVE AuditTrail'
  <2>1. owner[e.session] \in Orders
    BY DEF StripeOK, Events, Money
  <2>2. {"PAID", "HELD", "FAILED"} \subseteq Status \ {"ACTIVE"}
    BY DEF Status
  <2>3. \/ UNCHANGED <<status, audit>>
        \/ \E o \in Orders, to \in Status \ {"ACTIVE"} : transition(o, to)
    BY <1>3, <2>1, <2>2
    DEF webhook, webhookMismatch, webhookAchFailed, webhookPaid, webhookReversal
  <2> QED
    BY <1>1, <2>3, TransitionTrail
<1>4. ASSUME NEW p \in Processors, process(p) PROVE AuditTrail'
  <2>1. CASE processDecide(p)
    <3>1. proc[p].cur.order \in Orders
      BY <2>1 DEF processDecide, Bodies, Snapshots
    <3>2. (IF proc[p].hold THEN "HELD" ELSE "PROVISIONING") \in Status \ {"ACTIVE"}
      BY DEF Status
    <3> QED
      BY <1>1, <2>1, <3>1, <3>2, TransitionTrail DEF processDecide
  <2> QED
    BY <1>1, <1>4, <2>1
    DEF process, processStart, processVerify, processAlert, processAlertFails, processUpdate,
        dbVars, orderVars
<1>5. ASSUME NEW u \in Operators, completeHuman(u) PROVE AuditTrail'
  <2>1. CASE completeHumanConfirm(u)
    <3> DEFINE o == op[u].order
               a == Append(audit[o], "PROVISIONED")
               b == Append(a, HumanConfirmed)
    <3>1. CASE status[o] = "PROVISIONING"
      <4>1. o \in Orders /\ audit[o] \in Seq(Recorded)
        BY <2>1 DEF completeHumanConfirm, Bodies, RowsOK
      <4>2. /\ Follows("PROVISIONING", "PROVISIONED")
            /\ Follows("PROVISIONED", HumanConfirmed) /\ Follows(HumanConfirmed, "ACTIVE")
            /\ {"PROVISIONING", "PROVISIONED", HumanConfirmed, "ACTIVE"} \subseteq Recorded
        BY DEF Follows, canTransition, Edges, Status, Recorded
      <4>3. Trail("PROVISIONED", a) /\ a \in Seq(Recorded)
        BY <3>1, <4>1, <4>2, TrailAppend, AppendProperties DEF AuditTrail
      <4>4. Trail(HumanConfirmed, b) /\ b \in Seq(Recorded)
        BY <4>2, <4>3, TrailAppend, AppendProperties
      <4>5. Trail("ACTIVE", Append(b, "ACTIVE"))
        BY <4>2, <4>4, TrailAppend
      <4>6. Append(b, "ACTIVE") = audit[o] \o <<"PROVISIONED", HumanConfirmed, "ACTIVE">>
        BY <4>1, <4>2
      <4>7. /\ status' = [status EXCEPT ![o] = "ACTIVE"]
            /\ audit' = [audit EXCEPT ![o] = @ \o <<"PROVISIONED", HumanConfirmed, "ACTIVE">>]
        BY <2>1, <3>1 DEF completeHumanConfirm
      <4> QED
        BY <4>1, <4>5, <4>6, <4>7 DEF AuditTrail, RowsOK
    <3>2. CASE status[o] # "PROVISIONING"
      BY <1>1, <2>1, <3>2 DEF completeHumanConfirm
    <3> QED
      BY <3>1, <3>2
  <2> QED
    BY <1>1, <1>5, <2>1 DEF completeHuman, completeHumanRead, completeHumanVerify, dbVars
<1>6. ASSUME NEW d \in Deliverers, deliver(d) PROVE AuditTrail'
  BY <1>1, <1>6
  DEF deliver, deliverStart, deliverVerify, deliverMail, deliverFails, deliverUpdate,
      dbVars, orderVars
<1>7. CASE restart \/ stripeStep \/ (\E o \in Orders : keyExpires(o))
  BY <1>1, <1>7 DEF restart, stripeStep, keyExpires, dbVars
<1> QED
  BY <1>2, <1>3, <1>4, <1>5, <1>6, <1>7 DEF Next

\* Every status change is an edge of canTransition from the status the row really
\* has, and is recorded.
THEOREM AuditIsTrail == Spec => []AuditTrail
<1>1. Init => AuditTrail
  BY DEF Init, AuditTrail, Trail
<1>2. IInv /\ AuditTrail /\ [Next]_vars => AuditTrail'
  BY TrailStep
<1> QED
  BY Invariance, <1>1, <1>2, PTL DEF Spec

-----------------------------------------------------------------------------
(* The mails.                                                              *)

\* A batch of deliver() that read an order as ACTIVE read a confirmed one, and
\* between its ready mail and its job update the mail is on record.
Mailing ==
  /\ \A d \in Deliverers : \A i \in 1..Len(del[d].todo) :
       del[d].todo[i].status = "ACTIVE" => Confirmed(del[d].todo[i].order)
  /\ \A d \in Deliverers :
       del[d].pc = "update" /\ Head(del[d].todo).status = "ACTIVE"
         => Head(del[d].todo).order \in ready

MInv == AuditTrail /\ Mailing /\ ReadyMailConfirmed

\* The trail of an ACTIVE order ends in its confirmation.
LEMMA ActiveIsConfirmed ==
  ASSUME RowsOK, AuditTrail, NEW o \in Orders, status[o] = "ACTIVE" PROVE Confirmed(o)
<1>1. /\ audit[o] \in Seq(Recorded) /\ audit[o] # <<>>
      /\ audit[o][1] = "CREATED" /\ audit[o][Len(audit[o])] = "ACTIVE"
      /\ \A i \in 1..(Len(audit[o]) - 1) : Follows(audit[o][i], audit[o][i + 1])
  BY DEF RowsOK, AuditTrail, Trail
<1> DEFINE i == Len(audit[o]) - 1
<1>2. Len(audit[o]) \in Nat /\ Len(audit[o]) # 0 /\ Len(audit[o]) # 1
  BY <1>1, LenProperties, EmptySeq
<1>3. i \in 1..i /\ i \in 1..Len(audit[o]) /\ audit[o][i + 1] = "ACTIVE"
  BY <1>1, <1>2
<1>4. audit[o][i] = HumanConfirmed
  BY <1>1, <1>3 DEF Follows, HumanConfirmed
<1> QED
  BY <1>3, <1>4 DEF Confirmed

\* The audit log is append-only.
LEMMA AuditGrows ==
  ASSUME IInv, AuditTrail, [Next]_vars, NEW o \in Orders, Confirmed(o) PROVE Confirmed(o)'
<1> USE DEF IInv, TypeOK
<1> DEFINE Keeps(a, b) == Len(a) \in Nat /\ Len(b) \in Nat /\ Len(a) <= Len(b)
                          /\ \A i \in 1..Len(a) : b[i] = a[i]
<1>1. audit[o] \in Seq(Recorded) /\ audit[o] # <<>>
  <2>1. audit[o] \in Seq(Recorded)
    BY DEF RowsOK
  <2>2. Len(audit[o]) # 0
    BY DEF Confirmed
  <2> QED
    BY <2>1, <2>2, EmptySeq
<1>2. ASSUME audit' = audit PROVE Confirmed(o)'
  BY <1>2 DEF Confirmed
<1>3. SUFFICES ASSUME Keeps(audit[o], audit'[o]) \/ audit' = audit PROVE Confirmed(o)'
  <2>1. SUFFICES Keeps(audit[o], audit'[o]) \/ audit' = audit
    OBVIOUS
  <2>2. ASSUME NEW x \in Orders, NEW to \in Status, transition(x, to)
        PROVE  Keeps(audit[o], audit'[o])
    <3>1. audit'[o] = audit[o] \/ audit'[o] = Append(audit[o], to)
      BY <2>2 DEF transition, RowsOK
    <3>2. to \in Recorded
      BY DEF Recorded
    <3> QED
      BY <1>1, <3>1, <3>2, AppendProperties, LenProperties
  <2>3. ASSUME Next PROVE Keeps(audit[o], audit'[o]) \/ audit' = audit
    <3>1. ASSUME NEW r \in Requests, NEW x \in Orders, checkoutOrder(r, x)
          PROVE  Keeps(audit[o], audit'[o]) \/ audit' = audit
      <4>1. audit'[o] = audit[o] \/ audit' = audit
        BY <1>1, <3>1 DEF checkoutOrder, AuditTrail, Trail, RowsOK
      <4> QED
        BY <1>1, <4>1, LenProperties
    <3>2. ASSUME NEW e \in events, webhook(e)
          PROVE  Keeps(audit[o], audit'[o]) \/ audit' = audit
      <4>1. owner[e.session] \in Orders
        BY DEF StripeOK, Events, Money
      <4>2. {"PAID", "HELD", "FAILED"} \subseteq Status
        BY DEF Status
      <4>3. audit' = audit \/ \E x \in Orders, to \in Status : transition(x, to)
        BY <3>2, <4>1, <4>2
        DEF webhook, webhookMismatch, webhookAchFailed, webhookPaid, webhookReversal
      <4> QED
        BY <2>2, <4>3
    <3>3. ASSUME NEW p \in Processors, processDecide(p)
          PROVE  Keeps(audit[o], audit'[o]) \/ audit' = audit
      <4>1. proc[p].cur.order \in Orders
        BY <3>3 DEF processDecide, Bodies, Snapshots
      <4>2. (IF proc[p].hold THEN "HELD" ELSE "PROVISIONING") \in Status
        BY DEF Status
      <4> QED
        BY <2>2, <3>3, <4>1, <4>2 DEF processDecide
    <3>4. ASSUME NEW u \in Operators, completeHumanConfirm(u)
          PROVE  Keeps(audit[o], audit'[o]) \/ audit' = audit
      <4>1. \/ audit' = audit
            \/ audit'[o] = audit[o]
            \/ audit'[o] = audit[o] \o <<"PROVISIONED", HumanConfirmed, "ACTIVE">>
        BY <3>4 DEF completeHumanConfirm, RowsOK
      <4>2. <<"PROVISIONED", HumanConfirmed, "ACTIVE">> \in Seq(Recorded)
        BY DEF Status, Recorded
      <4> QED
        BY <1>1, <4>1, <4>2, ConcatProperties, LenProperties
    <3> QED
      BY <2>3, <3>1, <3>2, <3>3, <3>4
      DEF Next, checkout, checkoutStripe, checkoutSave, process, processStart, processVerify,
          processAlert, processAlertFails, processUpdate, completeHuman, completeHumanRead,
          completeHumanVerify, deliver, deliverStart, deliverVerify, deliverMail, deliverFails,
          deliverUpdate, restart, stripeStep, keyExpires, dbVars, orderVars
  <2> QED
    BY <2>3 DEF vars, dbVars
<1>4. CASE Keeps(audit[o], audit'[o])
  <2>1. PICK i \in 1..Len(audit[o]) : audit[o][i] = HumanConfirmed
    BY DEF Confirmed
  <2>2. i \in 1..Len(audit'[o]) /\ audit'[o][i] = HumanConfirmed
    BY <1>4, <2>1
  <2> QED
    BY <2>2 DEF Confirmed
<1> QED
  BY <1>2, <1>3, <1>4

\* Every step keeps that a run of deliver holds confirmed orders as ACTIVE.
LEMMA MailingStep ==
  ASSUME IInv, MInv, [Next]_vars PROVE Mailing' /\ ReadyMailConfirmed'
<1> USE DEF IInv, TypeOK, MInv
<1> DEFINE Good(todo) ==
      /\ todo \in Seq(Snapshots)
      /\ \A i \in 1..Len(todo) : todo[i].status = "ACTIVE" => Confirmed(todo[i].order)
<1>1. \A o \in Orders : Confirmed(o) => Confirmed(o)'
  BY AuditGrows
<1>2. \A d \in Deliverers : Good(del[d].todo)
  BY DEF TasksOK, Mailing
<1>3. ASSUME UNCHANGED <<del, ready>> PROVE Mailing' /\ ReadyMailConfirmed'
  <2>1. \A d \in Deliverers : \A i \in 1..Len(del[d].todo) : del[d].todo[i].order \in Orders
    <3>1. ASSUME NEW d \in Deliverers, NEW i \in 1..Len(del[d].todo)
          PROVE  del[d].todo[i] \in Snapshots
      BY <1>2, ElementOfSeq
    <3> QED
      BY <3>1 DEF Snapshots
  <2> QED
    BY <1>1, <1>3, <2>1 DEF Mailing, ReadyMailConfirmed, StripeOK
<1> SUFFICES ASSUME Next PROVE Mailing' /\ ReadyMailConfirmed'
  BY <1>3 DEF vars, taskVars, mailVars
<1>4. ASSUME NEW d \in Deliverers, deliver(d) PROVE Mailing' /\ ReadyMailConfirmed'
  <2>1. audit' = audit
    BY <1>4 DEF deliver, deliverStart, deliverVerify, deliverMail, deliverFails, deliverUpdate,
                dbVars, orderVars
  <2>2. \A o : Confirmed(o)' <=> Confirmed(o)
    BY <2>1 DEF Confirmed
  <2>3. ASSUME NEW next, del' = [del EXCEPT ![d] = next], Good(next.todo),
               ready \subseteq ready', \A o \in ready' : Confirmed(o),
               next.pc = "update" /\ Head(next.todo).status = "ACTIVE"
                 => Head(next.todo).order \in ready'
        PROVE  Mailing' /\ ReadyMailConfirmed'
    <3>1. del'[d] = next /\ \A x \in Deliverers : x # d => del'[x] = del[x]
      BY <2>3 DEF TasksOK
    <3> QED
      BY <1>2, <2>2, <2>3, <3>1 DEF Mailing, ReadyMailConfirmed
  <2>4. Good(IdleDel.todo) /\ IdleDel.pc # "update"
    BY DEF IdleDel
  <2>5. ASSUME del[d].pc # "idle" PROVE Good(DeliverRest(d).todo) /\ DeliverRest(d).pc # "update"
    <3>1. del[d].todo \in Seq(Snapshots) /\ del[d].todo # <<>>
      BY <2>5 DEF TasksOK, Bodies
    <3>2. /\ Tail(del[d].todo) \in Seq(Snapshots)
          /\ Len(Tail(del[d].todo)) = Len(del[d].todo) - 1
          /\ \A i \in 1..Len(Tail(del[d].todo)) : Tail(del[d].todo)[i] = del[d].todo[i + 1]
      BY <3>1, HeadTailProperties
    <3>3. Len(del[d].todo) \in Nat
      BY <3>1, LenProperties
    <3>4. Good(Tail(del[d].todo))
      BY <1>2, <3>2, <3>3
    <3> QED
      BY <2>4, <3>4 DEF DeliverRest
  <2>6. CASE deliverStart(d)
    <3> DEFINE due == {o \in Orders : Deliverable(o)}
    <3>1. PICK batch \in Oldest(due, older, Batch) :
            del' = [del EXCEPT ![d] =
              [pc |-> "verify", todo |-> [i \in DOMAIN batch |-> Snapshot(batch[i])]]]
      BY <2>6 DEF deliverStart
    <3>2. PICK n \in 1..Batch : batch \in [1..n -> due]
      BY DEF Oldest
    <3> DEFINE todo == [i \in DOMAIN batch |-> Snapshot(batch[i])]
    <3>3. /\ todo = [i \in 1..n |-> Snapshot(batch[i])]
          /\ \A i \in 1..n : Snapshot(batch[i]) \in Snapshots /\ batch[i] \in Orders
          /\ n \in Nat \ {0}
      BY <3>2, SnapshotType, CommerceConstants
    <3>4. todo \in Seq(Snapshots) /\ Len(todo) = n
      BY <3>3
    <3>5. ASSUME NEW i \in 1..n, todo[i].status = "ACTIVE" PROVE Confirmed(todo[i].order)
      BY <3>3, <3>5, ActiveIsConfirmed DEF Snapshot
    <3>6. Good(todo) /\ ready' = ready
      BY <2>6, <3>4, <3>5 DEF deliverStart, mailVars
    <3> DEFINE next == [pc |-> "verify", todo |-> todo]
    <3>7. /\ del' = [del EXCEPT ![d] = next]
          /\ next.pc = "verify" /\ next.todo = todo
      BY <3>1
    <3> HIDE DEF todo, next
    <3> QED
      BY <2>3, <3>6, <3>7 DEF ReadyMailConfirmed
  <2>7. CASE deliverVerify(d)
    <3>1. ready' = ready /\ del[d].pc = "verify"
      BY <2>7 DEF deliverVerify, mailVars
    <3>2. \/ del' = [del EXCEPT ![d] = DeliverRest(d)]
          \/ del' = [del EXCEPT ![d] = [del[d] EXCEPT !.pc = "mail"]]
      BY <2>7 DEF deliverVerify
    <3>3. /\ [del[d] EXCEPT !.pc = "mail"].todo = del[d].todo
          /\ [del[d] EXCEPT !.pc = "mail"].pc = "mail"
      BY DEF TasksOK
    <3> QED
      BY <1>2, <2>3, <2>5, <3>1, <3>2, <3>3 DEF ReadyMailConfirmed
  <2>8. CASE deliverMail(d)
    <3> DEFINE j == Head(del[d].todo)
    <3>1. /\ del' = [del EXCEPT ![d] = [del[d] EXCEPT !.pc = "update"]]
          /\ ready' = IF j.status = "ACTIVE" THEN ready \cup {j.order} ELSE ready
      BY <2>8 DEF deliverMail
    <3> DEFINE next == [del[d] EXCEPT !.pc = "update"]
    <3>2. next.todo = del[d].todo
      BY DEF TasksOK
    <3>3. del[d].todo \in Seq(Snapshots) /\ del[d].todo # <<>>
      BY <2>8 DEF deliverMail, TasksOK, Bodies
    <3>4. j = del[d].todo[1] /\ 1 \in 1..Len(del[d].todo)
      BY <3>3, HeadTailProperties, LenProperties, EmptySeq
    <3>5. j.status = "ACTIVE" => Confirmed(j.order)
      BY <1>2, <3>4
    <3>6. /\ ready \subseteq ready' /\ \A o \in ready' : Confirmed(o)
          /\ Head(next.todo).status = "ACTIVE" => Head(next.todo).order \in ready'
      BY <3>1, <3>2, <3>5 DEF ReadyMailConfirmed
    <3>7. Good(next.todo) /\ del' = [del EXCEPT ![d] = next]
      BY <1>2, <3>1, <3>2
    <3> HIDE DEF next
    <3> QED
      BY <2>3, <3>6, <3>7
  <2>9. CASE deliverFails(d)
    BY <2>3, <2>4, <2>9 DEF deliverFails, mailVars, ReadyMailConfirmed
  <2>10. CASE deliverUpdate(d)
    BY <2>3, <2>5, <2>10 DEF deliverUpdate, mailVars, ReadyMailConfirmed
  <2> QED
    BY <1>4, <2>6, <2>7, <2>8, <2>9, <2>10 DEF deliver
<1>5. CASE restart
  <2>1. /\ del' = [d \in Deliverers |-> IdleDel]
        /\ ready' = ready /\ audit' = audit
    BY <1>5 DEF restart, mailVars
  <2> QED
    BY <2>1 DEF Mailing, ReadyMailConfirmed, IdleDel, Confirmed
<1>6. ASSUME (\E r \in Requests : checkout(r)) \/ (\E p \in Processors : process(p))
             \/ (\E u \in Operators : completeHuman(u))
      PROVE  Mailing' /\ ReadyMailConfirmed'
  BY <1>3, <1>6
  DEF checkout, checkoutOrder, checkoutStripe, checkoutSave, process, processStart,
      processVerify, processDecide, processAlert, processAlertFails, processUpdate,
      completeHuman, completeHumanRead, completeHumanVerify, completeHumanConfirm, mailVars
<1>7. ASSUME (\E e \in events : webhook(e)) \/ stripeStep \/ (\E o \in Orders : keyExpires(o))
      PROVE  Mailing' /\ ReadyMailConfirmed'
  BY <1>3, <1>7 DEF webhook, stripeStep, keyExpires, taskVars, mailVars
<1> QED
  BY <1>4, <1>5, <1>6, <1>7 DEF Next

\* Whatever batch deliver() works from, the ready mail goes to confirmed orders.
THEOREM ReadyIsConfirmed == Spec => []ReadyMailConfirmed
<1>1. Init => MInv
  BY DEF Init, MInv, AuditTrail, Trail, Mailing, ReadyMailConfirmed, IdleDel
<1>2. IInv /\ MInv /\ [Next]_vars => MInv'
  BY TrailStep, MailingStep DEF MInv
<1>3. MInv => ReadyMailConfirmed
  BY DEF MInv
<1> QED
  BY Invariance, <1>1, <1>2, <1>3, PTL DEF Spec

-----------------------------------------------------------------------------
(* The job row.                                                            *)

\* Every step keeps the job row in line with its order.
LEMMA JobStep == ASSUME IInv, MInv, JobFollowsOrder, [Next]_vars PROVE JobFollowsOrder'
<1>1. /\ job \in [Orders -> Jobs] /\ status \in [Orders -> Status \cup {"NONE"}]
      /\ \A o \in Orders :
           /\ status[o] \notin {"NONE", "CREATED"} => job[o].state # "NONE"
           /\ job[o].state = "PENDING" => ~job[o].alerted
           /\ job[o].state = "DONE" => o \in ready
  BY DEF IInv, TypeOK, RowsOK, JobFollowsOrder
<1>2. ASSUME UNCHANGED <<status, job>>, ready \subseteq ready' PROVE JobFollowsOrder'
  BY <1>1, <1>2 DEF JobFollowsOrder
<1> SUFFICES ASSUME Next PROVE JobFollowsOrder'
  BY <1>2 DEF vars, dbVars, mailVars
<1>3. ASSUME NEW r \in Requests, NEW o \in Orders, checkoutOrder(r, o) PROVE JobFollowsOrder'
  BY <1>1, <1>3 DEF checkoutOrder, mailVars, JobFollowsOrder
<1>4. ASSUME NEW e \in events, webhook(e) PROVE JobFollowsOrder'
  <2>1. owner[e.session] \in Orders /\ UNCHANGED ready
    BY <1>4 DEF IInv, TypeOK, StripeOK, Events, Money, webhook
  <2>2. ASSUME NEW o \in Orders, enqueue(o), \A x \in Orders \ {o} : status'[x] = status[x]
        PROVE  JobFollowsOrder'
    <3>1. job'[o].state = "PENDING" /\ ~job'[o].alerted /\ \A x \in Orders \ {o} : job'[x] = job[x]
      BY <1>1, <2>2 DEF enqueue, Jobs
    <3> QED
      BY <1>1, <2>1, <2>2, <3>1 DEF JobFollowsOrder
  <2>3. ASSUME NEW o \in Orders, NEW to, transition(o, to) PROVE \A x \in Orders \ {o} : status'[x] = status[x]
    BY <1>1, <2>3 DEF transition
  <2>4. CASE webhookMismatch(e) \/ webhookAchFailed(e)
    BY <2>1, <2>2, <2>3, <2>4 DEF webhookMismatch, webhookAchFailed
  <2>5. CASE webhookPaid(e)
    BY <1>2, <2>1, <2>2, <2>3, <2>5 DEF webhookPaid
  <2>6. CASE webhookReversal(e)
    BY <1>2, <2>1, <2>2, <2>3, <2>6 DEF webhookReversal
  <2> QED
    BY <1>4, <2>4, <2>5, <2>6 DEF webhook
<1>5. ASSUME NEW p \in Processors, processDecide(p) PROVE JobFollowsOrder'
  BY <1>1, <1>5 DEF processDecide, transition, mailVars, JobFollowsOrder
<1>6. ASSUME NEW p \in Processors, processUpdate(p) PROVE JobFollowsOrder'
  <2>1. proc[p].cur.order \in Orders /\ UNCHANGED <<status, ready>>
    BY <1>6 DEF processUpdate, IInv, Bodies, Snapshots, orderVars, mailVars
  <2>2. /\ job'[proc[p].cur.order].state = "AWAITING_REVIEW"
        /\ \A x \in Orders \ {proc[p].cur.order} : job'[x] = job[x]
    BY <1>1, <1>6, <2>1 DEF processUpdate, Jobs
  <2> QED
    BY <1>1, <2>1, <2>2 DEF JobFollowsOrder
<1>7. ASSUME NEW u \in Operators, completeHumanConfirm(u) PROVE JobFollowsOrder'
  <2>1. op[u].order \in Orders /\ UNCHANGED ready
    BY <1>7 DEF completeHumanConfirm, IInv, Bodies
  <2>2. CASE status[op[u].order] = "PROVISIONING"
    <3>1. /\ job'[op[u].order].state = "DELIVERY_PENDING"
          /\ \A x \in Orders \ {op[u].order} : job'[x] = job[x] /\ status'[x] = status[x]
      BY <1>1, <1>7, <2>1, <2>2 DEF completeHumanConfirm, Jobs
    <3> QED
      BY <1>1, <2>1, <3>1 DEF JobFollowsOrder
  <2>3. CASE status[op[u].order] # "PROVISIONING"
    BY <1>2, <1>7, <2>3 DEF completeHumanConfirm
  <2> QED
    BY <2>2, <2>3
<1>8. ASSUME NEW d \in Deliverers, deliverUpdate(d) PROVE JobFollowsOrder'
  <2> DEFINE j == Head(del[d].todo)
  <2>1. UNCHANGED <<status, ready>> /\ (j.status = "ACTIVE" => j.order \in ready)
    BY <1>8 DEF deliverUpdate, orderVars, mailVars, MInv, Mailing
  <2>2. /\ j.order \in Orders => job'[j.order].state =
             IF j.status = "ACTIVE" THEN "DONE" ELSE "AWAITING_REVIEW"
        /\ \A x \in Orders \ {j.order} : job'[x] = job[x]
    BY <1>1, <1>8 DEF deliverUpdate, Jobs
  <2> HIDE DEF j
  <2> QED
    BY <1>1, <2>1, <2>2 DEF JobFollowsOrder
<1>9. CASE restart \/ stripeStep \/ \E o \in Orders : keyExpires(o)
  BY <1>2, <1>9 DEF restart, stripeStep, keyExpires, dbVars, mailVars
<1>10. ASSUME NEW r \in Requests, checkoutStripe(r) \/ checkoutSave(r) PROVE JobFollowsOrder'
  BY <1>2, <1>10 DEF checkoutStripe, checkoutSave, dbVars, mailVars
<1>11. ASSUME NEW d \in Deliverers, deliverStart(d) \/ deliverVerify(d) \/ deliverMail(d) \/ deliverFails(d)
       PROVE  JobFollowsOrder'
  <2>1. ready \subseteq ready'
    BY <1>11 DEF deliverStart, deliverVerify, deliverMail, deliverFails, mailVars
  <2> QED
    BY <1>2, <1>11, <2>1 DEF deliverStart, deliverVerify, deliverMail, deliverFails, dbVars
<1>12. ASSUME NEW p \in Processors,
              processStart(p) \/ processVerify(p) \/ processAlert(p) \/ processAlertFails(p)
       PROVE  JobFollowsOrder'
  BY <1>2, <1>12 DEF processStart, processVerify, processAlert, processAlertFails, dbVars, mailVars
<1>13. ASSUME NEW u \in Operators, (\E o \in Orders : completeHumanRead(u, o)) \/ completeHumanVerify(u)
       PROVE  JobFollowsOrder'
  BY <1>2, <1>13 DEF completeHumanRead, completeHumanVerify, dbVars, mailVars
<1> QED
  BY <1>3, <1>4, <1>5, <1>6, <1>7, <1>8, <1>9, <1>10, <1>11, <1>12, <1>13
  DEF Next, checkout, process, completeHuman, deliver

\* The job comes with the payment or the hold, can be alerted while PENDING and
\* is DONE only when the ready mail went out (webhook, process and deliver).
THEOREM JobKept == Spec => []JobFollowsOrder
<1>1. Init => MInv /\ JobFollowsOrder
  BY DEF Init, MInv, AuditTrail, Trail, Mailing, ReadyMailConfirmed, IdleDel, JobFollowsOrder
<1>2. IInv /\ MInv /\ JobFollowsOrder /\ [Next]_vars => MInv' /\ JobFollowsOrder'
  BY TrailStep, MailingStep, JobStep DEF MInv
<1> QED
  BY Invariance, <1>1, <1>2, PTL DEF Spec

-----------------------------------------------------------------------------
(* Reversals.                                                              *)

Released == {"PROVISIONING", "PROVISIONED", "ACTIVE"}
IsReversal(e) == e.kind \in {"refunded", "dispute"}

\* If the payment of the order was reversed, webhook() still has to be told.
Caught(o) ==
  payment[o] = session[o] /\ pay[payment[o]] = "reversed" =>
    \E e \in events \ claimed : IsReversal(e) /\ e.session = payment[o]

\* What Stripe answers under the key of an order is one session at a time: an
\* order that was given another session than the one that paid it never gets
\* that one back.
KeysHeld ==
  /\ \A r \in Requests : req[r].pc = "save" => key[req[r].order] = req[r].session
  /\ \A o \in Orders : payment[o] # NoSession /\ session[o] # payment[o] => key[o] # payment[o]

Reversing ==
  /\ claimed \subseteq events
  /\ \A e \in events : IsReversal(e) => pay[e.session] = "reversed"
  /\ \A o \in Orders : payment[o] # NoSession => status[o] \notin {"NONE", "CREATED"}

\* A run of process() that read an order as PAID and asks Stripe about its
\* session asks about its payment, or the payment is not its session any more.
Reading ==
  \A p \in Processors :
    /\ \A j \in proc[p].todo : j.status = "PAID" =>
         /\ payment[j.order] # NoSession
         /\ session[j.order] = payment[j.order] => j.session = payment[j.order]
    /\ proc[p].pc = "decide" =>
         /\ payment[proc[p].cur.order] # NoSession
         /\ ~proc[p].hold /\ status[proc[p].cur.order] = "PAID" => Caught(proc[p].cur.order)

CInv == KeysHeld /\ Reversing /\ Reading /\ ReversalCaught

\* The rows and what money means, one by one.
LEMMA Rows ==
  ASSUME IInv
  PROVE  /\ status \in [Orders -> Status \cup {"NONE"}]
         /\ session \in [Orders -> Sessions \cup {NoSession}]
         /\ payment \in [Orders -> Sessions \cup {NoSession}]
         /\ pay \in [Sessions -> Paying] /\ owner \in [Sessions -> Orders \cup {NoOrder}]
         /\ key \in [Orders -> Sessions \cup {NoSession}]
         /\ \A e \in events : e.session \in Sessions /\ owner[e.session] \in Orders
         /\ \A o \in Orders : payment[o] # NoSession =>
              payment[o] \in Sessions /\ owner[payment[o]] = o /\ pay[payment[o]] \in Captured
         /\ \A o \in Orders : status[o] \in Accepted => payment[o] # NoSession
BY DEF IInv, TypeOK, RowsOK, StripeOK, Money, Events

\* A payment is recorded once, with the session the order has then.
LEMMA PaymentStays ==
  ASSUME IInv, Reversing, Next, NEW o \in Orders
  PROVE  payment'[o] = payment[o] \/ (payment[o] = NoSession /\ payment'[o] = session'[o])
<1>1. ASSUME NEW e \in events, webhook(e)
      PROVE payment'[o] = payment[o] \/ (payment[o] = NoSession /\ payment'[o] = session'[o])
  <2>1. CASE webhookPaid(e)
    BY <1>1, <2>1, Rows DEF webhookPaid, webhook, Bound, Reversing
  <2>2. CASE ~webhookPaid(e)
    BY <1>1, <2>2 DEF webhook, webhookMismatch, webhookAchFailed, webhookReversal
  <2> QED
    BY <2>1, <2>2
<1>2. CASE UNCHANGED payment
  BY <1>2
<1> QED
  BY <1>1, <1>2
  DEF Next, checkout, checkoutOrder, checkoutStripe, checkoutSave, process, processStart, processVerify,
      processDecide, processAlert, processAlertFails, processUpdate, completeHuman, completeHumanRead,
      completeHumanVerify, completeHumanConfirm, deliver, deliverStart, deliverVerify, deliverMail,
      deliverFails, deliverUpdate, restart, stripeStep, keyExpires, dbVars, orderVars

\* An order that has its payment as session had it before.
LEMMA SessionStays ==
  ASSUME IInv, KeysHeld, Next, NEW o \in Orders, payment[o] # NoSession, session'[o] = payment[o]
  PROVE  session[o] = payment[o]
<1>1. ASSUME NEW r \in Requests, checkoutSave(r) PROVE session[o] = payment[o]
  <2>1. session'[o] = session[o] \/ (req[r].order = o /\ session'[o] = req[r].session)
    BY <1>1, Rows DEF checkoutSave
  <2>2. req[r].order = o => key[o] = req[r].session
    BY <1>1 DEF checkoutSave, KeysHeld
  <2> QED
    BY <2>1, <2>2 DEF KeysHeld
<1>2. CASE UNCHANGED session
  BY <1>2
<1> QED
  BY <1>1, <1>2
  DEF Next, checkout, checkoutOrder, checkoutStripe, webhook, process, processStart, processVerify,
      processDecide, processAlert, processAlertFails, processUpdate, completeHuman, completeHumanRead,
      completeHumanVerify, completeHumanConfirm, deliver, deliverStart, deliverVerify, deliverMail,
      deliverFails, deliverUpdate, restart, stripeStep, keyExpires, dbVars, orderVars

\* A reversal is sent when it is made, and dropped by no order that has the payment.
LEMMA CaughtKept ==
  ASSUME IInv, KeysHeld, Reversing, Next, NEW o \in Orders, payment[o] # NoSession, Caught(o),
         status'[o] \notin {"HELD", "FAILED"}
  PROVE  Caught(o)'
<1>1. payment'[o] = payment[o]
  BY PaymentStays
<1>2. SUFFICES ASSUME session'[o] = payment[o], pay'[payment[o]] = "reversed"
               PROVE  \E e \in events' \ claimed' : IsReversal(e) /\ e.session = payment[o]
  BY <1>1 DEF Caught, IsReversal
<1>3. session[o] = payment[o]
  BY <1>2, SessionStays
<1>4. CASE pay[payment[o]] = "reversed"
  <2>1. PICK e \in events \ claimed : IsReversal(e) /\ e.session = payment[o]
    BY <1>3, <1>4 DEF Caught
  <2>2. events \subseteq events'
    BY DEF Next, checkout, checkoutOrder, checkoutStripe, checkoutSave, webhook, process, processStart,
      processVerify, processDecide, processAlert, processAlertFails, processUpdate, completeHuman,
      completeHumanRead, completeHumanVerify, completeHumanConfirm, deliver, deliverStart, deliverVerify,
      deliverMail, deliverFails, deliverUpdate, restart, stripeStep, payByCard, payByAch, achSettles,
      reverse, sessionExpires, Emit, keyExpires, stripeVars
  <2>3. ASSUME webhook(e) PROVE FALSE
    <3>1. webhookReversal(e)
      BY <2>1, <2>3 DEF webhook, webhookMismatch, webhookAchFailed, webhookPaid, IsReversal
    <3>2. PICK x \in Orders : /\ payment[x] = e.session
                              /\ transition(x, "HELD") \/ (status[x] \in {"HELD", "FAILED"} /\ UNCHANGED status)
      BY <2>1, <3>1 DEF webhookReversal
    <3>3. x = o
      BY <2>1, <3>2, Rows
    <3> QED
      BY <3>2, <3>3, Rows DEF transition
  <2>4. ASSUME NEW f \in events, webhook(f), f # e PROVE e \notin claimed'
    BY <2>1, <2>4 DEF webhook
  <2>5. e \notin claimed'
    BY <2>1, <2>3, <2>4
    DEF Next, checkout, checkoutOrder, checkoutStripe, checkoutSave, process, processStart,
      processVerify, processDecide, processAlert, processAlertFails, processUpdate, completeHuman,
      completeHumanRead, completeHumanVerify, completeHumanConfirm, deliver, deliverStart, deliverVerify,
      deliverMail, deliverFails, deliverUpdate, restart, stripeStep, keyExpires, dbVars, orderVars
  <2> QED
    BY <2>1, <2>2, <2>5
<1>5. CASE pay[payment[o]] # "reversed"
  <2>1. PICK s \in Sessions : reverse(s) /\ s = payment[o] /\ UNCHANGED claimed
    <3>1. payment[o] \in Sessions /\ pay \in [Sessions -> Paying] /\ pay[payment[o]] = "paid"
      BY <1>5, Rows DEF Captured
    <3>2. ASSUME NEW r \in Requests, checkoutStripe(r) \/ checkoutSave(r) PROVE FALSE
      BY <1>2, <1>5, <3>1, <3>2 DEF checkoutStripe, checkoutSave
    <3>3. ASSUME NEW s \in Sessions, payByCard(s) \/ payByAch(s) \/ achSettles(s) \/ sessionExpires(s)
          PROVE  FALSE
      BY <1>2, <1>5, <3>1, <3>3 DEF payByCard, payByAch, achSettles, sessionExpires
    <3>4. ASSUME NEW s \in Sessions, reverse(s) PROVE s = payment[o]
      BY <1>2, <1>5, <3>1, <3>4 DEF reverse
    <3>5. pay' # pay
      BY <1>2, <1>5
    <3> QED
      BY <3>2, <3>3, <3>4, <3>5
      DEF Next, checkout, checkoutOrder, webhook, process, processStart,
        processVerify, processDecide, processAlert, processAlertFails, processUpdate, completeHuman,
        completeHumanRead, completeHumanVerify, completeHumanConfirm, deliver, deliverStart, deliverVerify,
        deliverMail, deliverFails, deliverUpdate, restart, stripeStep, keyExpires, dbVars, stripeVars
  <2>2. PICK kind \in Reversals : events' = events \cup {[kind |-> kind, session |-> s, paid |-> FALSE]}
    BY <2>1 DEF reverse, Emit
  <2> DEFINE e == [kind |-> kind, session |-> s, paid |-> FALSE]
  <2>3. IsReversal(e) /\ e.session = payment[o] /\ e \in events'
    BY <2>1, <2>2, CommerceConstants DEF IsReversal
  <2>4. e \notin claimed
    BY <1>5, <2>1, <2>3 DEF Reversing
  <2> QED
    BY <2>1, <2>3, <2>4
<1> QED
  BY <1>4, <1>5

\* Every step keeps requests in flight at the session of their key.
LEMMA KeysStep == ASSUME IInv, KeysHeld, Reversing, Next PROVE KeysHeld'
<1>1. /\ \A r \in Requests : req[r].pc = "save" =>
           key[req[r].order] = req[r].session /\ req[r].order \in Orders /\ req[r].session \in Sessions
      /\ \A o \in Orders : payment[o] # NoSession /\ session[o] # payment[o] => key[o] # payment[o]
      /\ NoSession \notin Sessions
      /\ req \in [Requests -> [pc : {"idle", "stripe", "save"}, order : Orders \cup {NoOrder},
                               session : Sessions \cup {NoSession}]]
  BY CommerceConstants DEF KeysHeld, IInv, Bodies, TypeOK, TasksOK
<1>2. \A o \in Orders : payment'[o] = payment[o] \/ (payment[o] = NoSession /\ payment'[o] = session'[o])
  BY PaymentStays
<1>3. ASSUME UNCHANGED <<session, key>> PROVE \A o \in Orders :
        payment'[o] # NoSession /\ session'[o] # payment'[o] => key'[o] # payment'[o]
  BY <1>1, <1>2, <1>3
<1>4. ASSUME NEW r \in Requests, NEW x \in Orders, checkoutOrder(r, x) PROVE KeysHeld'
  <2>1. req'[r].pc = "stripe" /\ \A q \in Requests \ {r} : req'[q] = req[q]
    BY <1>1, <1>4 DEF checkoutOrder
  <2>2. UNCHANGED <<session, key>>
    BY <1>4 DEF checkoutOrder, stripeVars
  <2> QED
    BY <1>1, <1>3, <2>1, <2>2 DEF KeysHeld
<1>5. ASSUME NEW r \in Requests, checkoutStripe(r) PROVE KeysHeld'
  <2>1. req[r].order \in Orders /\ UNCHANGED <<session, payment>>
    BY <1>5 DEF checkoutStripe, IInv, Bodies, dbVars
  <2>2. PICK s \in Sessions, answered \in BOOLEAN :
          /\ \/ key[req[r].order] = s /\ UNCHANGED <<pay, owner, key>>
             \/ /\ key[req[r].order] = NoSession /\ pay[s] = "none"
                /\ key' = [key EXCEPT ![req[r].order] = s]
          /\ req' = [req EXCEPT ![r] =
               IF answered THEN [pc |-> "save", order |-> req[r].order, session |-> s] ELSE IdleReq]
    BY <1>5 DEF checkoutStripe
  <2>3. key'[req[r].order] = s /\ \A o \in Orders \ {req[r].order} : key'[o] = key[o]
    BY <2>1, <2>2, Rows
  <2>4. key[req[r].order] = s \/ (key[req[r].order] = NoSession /\ pay[s] = "none")
    BY <2>2
  <2>5. ASSUME NEW q \in Requests, req'[q].pc = "save" PROVE key'[req'[q].order] = req'[q].session
    <3>1. CASE q = r
      <4>1. req'[r] = [pc |-> "save", order |-> req[r].order, session |-> s]
        BY <1>1, <2>2, <2>5, <3>1 DEF IdleReq
      <4> QED
        BY <2>3, <3>1, <4>1
    <3>2. CASE q # r
      <4>1. req'[q] = req[q]
        BY <1>1, <2>2, <3>2
      <4>2. key[req[q].order] = req[q].session /\ req[q].order \in Orders /\ req[q].session \in Sessions
        BY <1>1, <2>5, <4>1
      <4> QED
        BY <1>1, <2>3, <2>4, <4>1, <4>2
    <3> QED
      BY <3>1, <3>2
  <2>6. ASSUME NEW o \in Orders, payment[o] # NoSession, session[o] # payment[o] PROVE key'[o] # payment[o]
    <3>1. key[o] # payment[o] /\ pay[payment[o]] # "none"
      BY <1>1, <2>6, Rows DEF Captured
    <3> QED
      BY <2>3, <2>4, <3>1
  <2> QED
    BY <2>1, <2>5, <2>6 DEF KeysHeld
<1>6. ASSUME NEW r \in Requests, checkoutSave(r) PROVE KeysHeld'
  <2>1. /\ req[r].order \in Orders /\ key[req[r].order] = req[r].session
        /\ session' = [session EXCEPT ![req[r].order] = req[r].session]
        /\ UNCHANGED <<payment, key>>
    BY <1>1, <1>6 DEF checkoutSave
  <2>2. req'[r].pc = "idle" /\ \A q \in Requests \ {r} : req'[q] = req[q]
    BY <1>1, <1>6 DEF checkoutSave, IdleReq
  <2>3. \A o \in Orders : payment[o] # NoSession /\ session'[o] # payment[o] => key[o] # payment[o]
    BY <1>1, <2>1, Rows
  <2> QED
    BY <1>1, <2>1, <2>2, <2>3 DEF KeysHeld
<1>7. ASSUME NEW x \in Orders, keyExpires(x) PROVE KeysHeld'
  <2>1. /\ \A r \in Requests : req[r].pc = "save" => req[r].order # x
        /\ key' = [key EXCEPT ![x] = NoSession] /\ UNCHANGED <<req, session, payment>>
    BY <1>7 DEF keyExpires, taskVars, dbVars
  <2> QED
    BY <1>1, <2>1, Rows DEF KeysHeld
<1>8. CASE restart
  <2>1. \A r \in Requests : req'[r].pc = "idle"
    BY <1>8 DEF restart, IdleReq
  <2>2. UNCHANGED <<session, key>>
    BY <1>8 DEF restart, stripeVars
  <2> QED
    BY <1>3, <2>1, <2>2 DEF KeysHeld
<1>9. CASE UNCHANGED <<req, session, key>>
  BY <1>1, <1>3, <1>9 DEF KeysHeld
<1> QED
  BY <1>4, <1>5, <1>6, <1>7, <1>8, <1>9
  DEF Next, checkout, webhook, process, processStart, processVerify, processDecide, processAlert,
      processAlertFails, processUpdate, completeHuman, completeHumanRead, completeHumanVerify,
      completeHumanConfirm, deliver, deliverStart, deliverVerify, deliverMail, deliverFails,
      deliverUpdate, stripeStep, dbVars, orderVars, stripeVars, taskVars

\* Every step keeps reversal events to reversed payments, and what a payment
\* says of the status.
LEMMA ReversingStep == ASSUME IInv, Reversing, Next PROVE Reversing'
<1>1. /\ claimed \subseteq events
      /\ \A e \in events : IsReversal(e) => pay[e.session] = "reversed"
      /\ \A o \in Orders : payment[o] # NoSession => status[o] \notin {"NONE", "CREATED"}
  BY DEF Reversing
<1>2. ASSUME NEW e \in events, webhook(e) PROVE Reversing'
  <2>1. UNCHANGED <<events, pay>> /\ claimed' = claimed \cup {e}
    BY <1>2 DEF webhook, stripeVars
  <2>2. ASSUME NEW o \in Orders, payment'[o] # NoSession PROVE status'[o] \notin {"NONE", "CREATED"}
    <3>1. CASE webhookPaid(e)
      BY <1>1, <2>2, <3>1, Rows DEF webhookPaid, transition
    <3>2. CASE ~webhookPaid(e)
      BY <1>1, <1>2, <2>2, <3>2, Rows
      DEF webhook, webhookMismatch, webhookAchFailed, webhookReversal, transition
    <3> QED
      BY <3>1, <3>2
  <2> QED
    BY <1>1, <2>1, <2>2 DEF Reversing, IsReversal
<1>3. ASSUME NEW r \in Requests, NEW x \in Orders, checkoutOrder(r, x) PROVE Reversing'
  BY <1>1, <1>3, Rows DEF checkoutOrder, stripeVars, Reversing, IsReversal
<1>4. ASSUME NEW r \in Requests, checkoutStripe(r) \/ checkoutSave(r) PROVE Reversing'
  <2>1. UNCHANGED <<events, claimed, payment, status>>
    BY <1>4 DEF checkoutStripe, checkoutSave, dbVars
  <2>2. \A s \in Sessions : pay[s] = "reversed" => pay'[s] = "reversed"
    BY <1>4, Rows DEF checkoutStripe, checkoutSave
  <2> QED
    BY <1>1, <2>1, <2>2, Rows DEF Reversing, IsReversal
<1>5. CASE stripeStep
  <2>1. PICK s \in Sessions : payByCard(s) \/ payByAch(s) \/ achSettles(s) \/ reverse(s) \/ sessionExpires(s)
    BY <1>5 DEF stripeStep
  <2>2. UNCHANGED <<claimed, payment, status>>
    BY <1>5 DEF stripeStep, dbVars
  <2>3. ASSUME NEW x \in Sessions, pay[x] = "reversed" PROVE pay'[x] = "reversed"
    <3>1. CASE payByCard(s) \/ payByAch(s) \/ sessionExpires(s)
      BY <2>3, <3>1, Rows DEF payByCard, payByAch, sessionExpires
    <3>2. CASE achSettles(s) \/ reverse(s)
      <4>1. x # s => pay'[x] = pay[x]
        BY <3>2, Rows DEF achSettles, reverse
      <4>2. x = s => pay'[x] = "reversed"
        BY <2>3, <3>2, Rows DEF achSettles, reverse
      <4> QED
        BY <2>3, <4>1, <4>2
    <3> QED
      BY <2>1, <3>1, <3>2
  <2>4. events \subseteq events'
    BY <2>1 DEF payByCard, payByAch, achSettles, reverse, sessionExpires, Emit
  <2>5. ASSUME NEW e \in events', e \notin events, IsReversal(e) PROVE pay'[e.session] = "reversed"
    <3>1. CASE reverse(s)
      BY <2>5, <3>1, Rows DEF reverse, Emit
    <3>2. CASE ~reverse(s)
      BY <2>1, <2>5, <3>2 DEF payByCard, payByAch, achSettles, sessionExpires, Emit, IsReversal
    <3> QED
      BY <3>1, <3>2
  <2> QED
    BY <1>1, <2>2, <2>3, <2>4, <2>5, Rows DEF Reversing, IsReversal
<1>6. ASSUME NEW p \in Processors, processDecide(p) PROVE Reversing'
  BY <1>1, <1>6, Rows DEF processDecide, transition, stripeVars, Reversing, IsReversal
<1>7. ASSUME NEW u \in Operators, completeHumanConfirm(u) PROVE Reversing'
  BY <1>1, <1>7, Rows DEF completeHumanConfirm, stripeVars, Reversing, IsReversal
<1>8. CASE UNCHANGED <<events, claimed, pay, payment, status>>
  BY <1>1, <1>8 DEF Reversing, IsReversal
<1> QED
  BY <1>2, <1>3, <1>4, <1>5, <1>6, <1>7, <1>8
  DEF Next, checkout, process, processStart, processVerify, processAlert, processAlertFails, processUpdate,
      completeHuman, completeHumanRead, completeHumanVerify, deliver, deliverStart, deliverVerify,
      deliverMail, deliverFails, deliverUpdate, restart, keyExpires, dbVars, orderVars, stripeVars

\* Every step keeps what process has read about a payment it may release.
LEMMA ReadingStep == ASSUME IInv, KeysHeld, Reversing, Reading, Next PROVE Reading'
<1> DEFINE Asks(j) == /\ payment[j.order] # NoSession
                      /\ session[j.order] = payment[j.order] => j.session = payment[j.order]
<1>1. /\ \A p \in Processors : \A j \in proc[p].todo : j.status = "PAID" => Asks(j)
      /\ \A p \in Processors : proc[p].pc = "decide" =>
           /\ payment[proc[p].cur.order] # NoSession
           /\ ~proc[p].hold /\ status[proc[p].cur.order] = "PAID" => Caught(proc[p].cur.order)
  BY DEF Reading
<1>2. \A p \in Processors :
        /\ proc[p].todo \subseteq Snapshots
        /\ proc[p].pc = "decide" => proc[p].cur \in Snapshots
  BY DEF IInv, TypeOK, TasksOK, Bodies
<1>3. ASSUME NEW j \in Snapshots, Asks(j) PROVE Asks(j)'
  <2>1. j.order \in Orders
    BY DEF Snapshots
  <2>2. payment'[j.order] = payment[j.order]
    BY <1>3, <2>1, PaymentStays
  <2> QED
    BY <1>3, <2>1, <2>2, SessionStays
<1>4. ASSUME NEW o \in Orders, payment[o] # NoSession, status[o] = "PAID" => Caught(o)
      PROVE  payment'[o] # NoSession /\ (status'[o] = "PAID" => Caught(o)')
  <2>1. payment'[o] # NoSession
    BY <1>4, PaymentStays
  <2>2. ASSUME status'[o] = "PAID" PROVE status[o] = "PAID"
    <3>1. status[o] # "CREATED"
      BY <1>4 DEF Reversing
    <3>2. ASSUME NEW x \in Orders, NEW to, transition(x, to) PROVE status[o] = "PAID"
      <4>1. CASE x = o
        BY <2>2, <3>1, <3>2, <4>1, Rows DEF transition, canTransition, Edges, Status
      <4>2. CASE x # o
        BY <2>2, <3>2, <4>2, Rows DEF transition
      <4> QED
        BY <4>1, <4>2
    <3>3. ASSUME NEW e \in events, webhook(e) PROVE status[o] = "PAID"
      <4>1. UNCHANGED status \/ \E x \in Orders, to \in {"PAID", "HELD", "FAILED"} : transition(x, to)
        BY <3>3, Rows DEF webhook, webhookMismatch, webhookAchFailed, webhookPaid, webhookReversal
      <4> QED
        BY <2>2, <3>2, <4>1
    <3>4. ASSUME NEW p \in Processors, processDecide(p) PROVE status[o] = "PAID"
      BY <2>2, <3>4, Rows DEF processDecide, transition
    <3>5. ASSUME NEW u \in Operators, completeHumanConfirm(u) PROVE status[o] = "PAID"
      BY <2>2, <3>5, Rows DEF completeHumanConfirm
    <3>6. ASSUME NEW r \in Requests, NEW x \in Orders, checkoutOrder(r, x) PROVE status[o] = "PAID"
      BY <2>2, <3>6, Rows DEF checkoutOrder
    <3>7. CASE UNCHANGED status
      BY <2>2, <3>7
    <3> QED
      BY <3>3, <3>4, <3>5, <3>6, <3>7
      DEF Next, checkout, checkoutStripe, checkoutSave, process, processStart, processVerify, processAlert,
        processAlertFails, processUpdate, completeHuman, completeHumanRead, completeHumanVerify, deliver,
        deliverStart, deliverVerify, deliverMail, deliverFails, deliverUpdate, restart, stripeStep,
        keyExpires, dbVars, orderVars
  <2> QED
    BY <1>4, <2>1, <2>2, CaughtKept
<1> DEFINE Decides(p) == proc[p].pc = "decide" =>
      /\ payment[proc[p].cur.order] # NoSession
      /\ ~proc[p].hold /\ status[proc[p].cur.order] = "PAID" => Caught(proc[p].cur.order)
<1>5. ASSUME NEW p \in Processors, proc'[p].todo \subseteq proc[p].todo
      PROVE  \A j \in proc'[p].todo : j.status = "PAID" => Asks(j)'
  <2> HIDE DEF Asks
  <2> QED
    BY <1>1, <1>2, <1>3, <1>5
<1>6. ASSUME NEW p \in Processors, proc'[p].pc # "decide" \/ proc'[p] = proc[p] PROVE Decides(p)'
  <2>1. CASE proc'[p].pc # "decide"
    BY <2>1
  <2>2. CASE proc'[p] = proc[p] /\ proc[p].pc = "decide"
    <3>1. proc[p].cur.order \in Orders
      BY <1>2, <2>2 DEF Snapshots
    <3>2. PICK o \in Orders : o = proc[p].cur.order
      BY <3>1
    <3>3. CASE proc[p].hold
      BY <1>1, <2>2, <3>2, <3>3, PaymentStays
    <3>4. CASE ~proc[p].hold
      <4>1. payment'[o] # NoSession /\ (status'[o] = "PAID" => Caught(o)')
        BY <1>1, <1>4, <2>2, <3>2, <3>4
      <4>2. proc'[p].cur.order = o
        BY <2>2, <3>2
      <4> QED
        BY <4>1, <4>2 DEF Caught
    <3> QED
      BY <3>3, <3>4
  <2> QED
    BY <1>6, <2>1, <2>2
<1>7. ASSUME NEW q \in Processors, processStart(q) PROVE Reading'
  <2> DEFINE pending == {o \in Orders : job[o].state = "PENDING"}
  <2>1. PICK S \in SUBSET pending :
          proc' = [proc EXCEPT ![q] = [IdleProc EXCEPT !.pc = "next", !.todo = {Snapshot(o) : o \in S}]]
    BY <1>7 DEF processStart
  <2>2. /\ proc'[q].pc = "next" /\ proc'[q].todo = {Snapshot(o) : o \in S}
        /\ \A p \in Processors \ {q} : proc'[p] = proc[p]
    BY <2>1 DEF IInv, TypeOK, TasksOK, IdleProc
  <2>3. UNCHANGED <<payment, session>>
    BY <1>7 DEF processStart, dbVars
  <2>4. ASSUME NEW o \in S, Snapshot(o).status = "PAID" PROVE Asks(Snapshot(o))'
    <3>1. payment[o] # NoSession
      BY <2>4, Rows DEF Snapshot, Accepted
    <3>2. Snapshot(o).order = o /\ Snapshot(o).session = session[o]
      BY DEF Snapshot
    <3>3. (Snapshot(o).order)' = o /\ (Snapshot(o).session)' = session[o]
      BY <2>3 DEF Snapshot
    <3> QED
      BY <2>3, <3>1, <3>2, <3>3
  <2>5. \A j \in proc'[q].todo : j.status = "PAID" =>
          /\ payment'[j.order] # NoSession
          /\ session'[j.order] = payment'[j.order] => j.session = payment'[j.order]
    <3> SUFFICES ASSUME NEW o \in S, Snapshot(o).status = "PAID"
                 PROVE  /\ payment[o] # NoSession
                        /\ session[o] = payment[o] => Snapshot(o).session = payment[o]
      BY <2>2, <2>3 DEF Snapshot
    <3> QED
      BY Rows DEF Snapshot, Accepted
  <2>6. \A p \in Processors : \A j \in proc'[p].todo : j.status = "PAID" => Asks(j)'
    BY <1>5, <2>2, <2>5
  <2>7. \A p \in Processors : Decides(p)'
    BY <1>6, <2>2
  <2> QED
    BY <2>6, <2>7 DEF Reading
<1>8. ASSUME NEW q \in Processors, processVerify(q) PROVE Reading'
  <2>1. PICK j \in proc[q].todo, outage \in BOOLEAN :
          /\ j.status = "PAID"
          /\ proc' = [proc EXCEPT ![q] =
               [pc |-> "decide", todo |-> proc[q].todo \ {j}, cur |-> j,
                hold |-> \/ Blocked \/ outage \/ ~stripePaid(j.session)
                         \/ j.order \in old \/ ~OperatorExists]]
    BY <1>8 DEF processVerify, IInv, TypeOK, TasksOK
  <2>2. /\ proc'[q].pc = "decide" /\ proc'[q].todo \subseteq proc[q].todo /\ proc'[q].cur = j
        /\ ~proc'[q].hold => stripePaid(j.session)
        /\ \A p \in Processors \ {q} : proc'[p] = proc[p]
    BY <2>1 DEF IInv, TypeOK, TasksOK
  <2>3. UNCHANGED <<payment, session, pay, status, events, claimed>>
    BY <1>8 DEF processVerify, dbVars, stripeVars
  <2>4. Asks(j)
    BY <1>1, <2>1
  <2>5. Decides(q)'
    <3>1. payment'[j.order] # NoSession
      BY <2>3, <2>4
    <3>2. ASSUME stripePaid(j.session) PROVE Caught(j.order)
      BY <2>4, <3>2 DEF stripePaid, Caught
    <3>3. Caught(j.order)' <=> Caught(j.order)
      BY <2>3 DEF Caught
    <3> QED
      BY <2>2, <3>1, <3>2, <3>3 DEF Caught
  <2>6. \A p \in Processors : \A k \in proc'[p].todo : k.status = "PAID" => Asks(k)'
    BY <1>5, <2>2
  <2>7. \A p \in Processors : Decides(p)'
    BY <1>6, <2>2, <2>5
  <2> QED
    BY <2>6, <2>7 DEF Reading
<1>9. ASSUME NEW q \in Processors,
             \/ processDecide(q) \/ processAlert(q) \/ processAlertFails(q) \/ processUpdate(q)
      PROVE  Reading'
  <2>1. /\ proc'[q].pc # "decide" /\ proc'[q].todo \subseteq proc[q].todo
        /\ \A p \in Processors \ {q} : proc'[p] = proc[p]
    <3>1. CASE processDecide(q)
      BY <3>1 DEF processDecide, IdleProc, IInv, TypeOK, TasksOK
    <3>2. CASE processAlert(q)
      BY <3>2 DEF processAlert, IInv, TypeOK, TasksOK
    <3>3. CASE processAlertFails(q)
      BY <3>3 DEF processAlertFails, IdleProc, IInv, TypeOK, TasksOK
    <3>4. CASE processUpdate(q)
      BY <3>4 DEF processUpdate, IdleProc, IInv, TypeOK, TasksOK
    <3> QED
      BY <1>9, <3>1, <3>2, <3>3, <3>4
  <2>2. \A p \in Processors : \A k \in proc'[p].todo : k.status = "PAID" => Asks(k)'
    BY <1>5, <2>1
  <2>3. \A p \in Processors : Decides(p)'
    BY <1>6, <2>1
  <2> QED
    BY <2>2, <2>3 DEF Reading
<1>10. ASSUME \A p \in Processors : proc'[p] = proc[p] \/ proc'[p] = IdleProc PROVE Reading'
  <2>1. \A p \in Processors : proc'[p].todo \subseteq proc[p].todo
    BY <1>10 DEF IdleProc
  <2>2. \A p \in Processors : proc'[p].pc # "decide" \/ proc'[p] = proc[p]
    BY <1>10 DEF IdleProc
  <2>3. \A p \in Processors : \A k \in proc'[p].todo : k.status = "PAID" => Asks(k)'
    BY <1>5, <2>1
  <2>4. \A p \in Processors : Decides(p)'
    BY <1>6, <2>2
  <2> QED
    BY <2>3, <2>4 DEF Reading
<1>11. CASE restart
  BY <1>10, <1>11 DEF restart
<1>12. CASE UNCHANGED proc
  BY <1>10, <1>12
<1> HIDE DEF Asks, Decides
<1>13. ASSUME NEW q \in Processors, process(q) PROVE Reading'
  BY <1>7, <1>8, <1>9, <1>13 DEF process
<1>14. ASSUME NEW r \in Requests, checkout(r) PROVE UNCHANGED proc
  BY <1>14 DEF checkout, checkoutOrder, checkoutStripe, checkoutSave
<1>15. ASSUME NEW u \in Operators, completeHuman(u) PROVE UNCHANGED proc
  BY <1>15 DEF completeHuman, completeHumanRead, completeHumanVerify, completeHumanConfirm
<1>16. ASSUME NEW d \in Deliverers, deliver(d) PROVE UNCHANGED proc
  BY <1>16 DEF deliver, deliverStart, deliverVerify, deliverMail, deliverFails, deliverUpdate
<1>17. ASSUME (\E e \in events : webhook(e)) \/ stripeStep \/ (\E o \in Orders : keyExpires(o))
       PROVE  UNCHANGED proc
  BY <1>17 DEF webhook, stripeStep, keyExpires, taskVars
<1> QED
  BY <1>11, <1>12, <1>13, <1>14, <1>15, <1>16, <1>17 DEF Next

\* Every step keeps released orders with reversed payments caught.
LEMMA ReversalStep == ASSUME IInv, CInv, Next PROVE ReversalCaught'
<1> SUFFICES ASSUME NEW o \in Orders, status'[o] \in Released PROVE Caught(o)'
  BY DEF ReversalCaught, Caught, IsReversal, Released
<1>1. ASSUME NEW x \in Orders, NEW to \in {"PAID", "HELD", "FAILED"}, transition(x, to)
      PROVE  status[o] \in Released
  BY <1>1, Rows DEF transition, Released
<1>2. CASE status[o] \in Released
  <2>1. Caught(o) /\ payment[o] # NoSession
    BY <1>2, Rows DEF CInv, ReversalCaught, Caught, IsReversal, Released, Accepted
  <2> QED
    BY <2>1, CaughtKept DEF CInv, Released
<1>3. ASSUME NEW p \in Processors, processDecide(p), status[o] \notin Released PROVE Caught(o)'
  <2>1. proc[p].cur.order = o /\ status[o] = "PAID" /\ ~proc[p].hold /\ proc[p].pc = "decide"
    BY <1>3, Rows DEF processDecide, transition, Released
  <2>2. Caught(o) /\ payment[o] # NoSession
    BY <2>1 DEF CInv, Reading
  <2> QED
    BY <2>2, CaughtKept DEF CInv, Released
<1>4. ASSUME NEW e \in events, webhook(e) PROVE status[o] \in Released
  <2>1. UNCHANGED status \/ \E x \in Orders, to \in {"PAID", "HELD", "FAILED"} : transition(x, to)
    BY <1>4, Rows DEF webhook, webhookMismatch, webhookAchFailed, webhookPaid, webhookReversal
  <2> QED
    BY <1>1, <2>1
<1>5. ASSUME NEW u \in Operators, completeHumanConfirm(u) PROVE status[o] \in Released
  BY <1>5, Rows DEF completeHumanConfirm, Released
<1>6. ASSUME NEW r \in Requests, NEW x \in Orders, checkoutOrder(r, x) PROVE status[o] \in Released
  BY <1>6, Rows DEF checkoutOrder, Released
<1>7. CASE UNCHANGED status
  BY <1>2, <1>7
<1> QED
  BY <1>2, <1>3, <1>4, <1>5, <1>6, <1>7
  DEF Next, checkout, checkoutStripe, checkoutSave, process, processStart, processVerify, processAlert,
      processAlertFails, processUpdate, completeHuman, completeHumanRead, completeHumanVerify, deliver,
      deliverStart, deliverVerify, deliverMail, deliverFails, deliverUpdate, restart, stripeStep,
      keyExpires, dbVars, orderVars

\* No reversal is lost: a released order whose payment Stripe has taken back
\* still has a reversal event that webhook() will act on, however checkouts,
\* webhooks, overlapping runs of process() and restarts interleave.
THEOREM ReversalsCaught == Spec => []ReversalCaught
<1>1. Init => CInv
  BY DEF Init, CInv, KeysHeld, Reversing, Reading, ReversalCaught, IdleReq, IdleProc
<1>2. IInv /\ CInv /\ [Next]_vars => CInv'
  <2>1. ASSUME IInv, CInv, Next PROVE CInv'
    BY <2>1, KeysStep, ReversingStep, ReadingStep, ReversalStep DEF CInv
  <2>2. ASSUME CInv, UNCHANGED vars PROVE CInv'
    <3>1. UNCHANGED <<status, session, payment, claimed, req, proc, pay, key, events>>
      BY <2>2 DEF vars, dbVars, taskVars, stripeVars
    <3> QED
      BY <2>2, <3>1 DEF CInv, KeysHeld, Reversing, Reading, ReversalCaught, Caught, IsReversal
  <2> QED
    BY <2>1, <2>2
<1> QED
  BY <1>1, <1>2, Invariance, PTL DEF Spec, CInv
=============================================================================
