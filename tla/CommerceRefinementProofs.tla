---------------------- MODULE CommerceRefinementProofs ----------------------
(***************************************************************************)
(* Commerce implements PrepaidOrder, for any number of orders, sessions,   *)
(* requests, cron runs, operators and restarts.                            *)
(***************************************************************************)
EXTENDS CommerceRefinement, CommerceProofs

\* An order exists before Stripe knows of a session of it.
Existing ==
  /\ \A r \in Requests : req[r].pc # "idle" => status[req[r].order] # "NONE"
  /\ \A s \in Sessions : pay[s] # "none" => status[owner[s]] # "NONE"

RInv == IInv /\ MInv /\ Existing

Unmoved == UNCHANGED <<phaseBar, capturedBar, confirmedBar, ready>>

\* A step that leaves all that the promise sees is a stutter of it.
LEMMA UnmovedStep ==
  ASSUME UNCHANGED <<status, audit, ready>>, capturedBar' = capturedBar PROVE Unmoved
  BY DEF Unmoved, phaseBar, confirmedBar, Confirmed

\* The captured money is a matter of what Stripe holds.
LEMMA CapturedSame == ASSUME UNCHANGED <<pay, owner>> PROVE capturedBar' = capturedBar
  BY DEF capturedBar

\* What canTransition allows, in phases.
LEMMA EdgePhases ==
  ASSUME NEW st \in Status, NEW to \in Edges[st]
  PROVE  /\ to \in Status
         /\ to \in {"HELD", "FAILED"} => PhaseOf[st] \in {"open", "accepted", "working", "active"}
         /\ to = "PAID" => PhaseOf[st] = "open"
         /\ to = "PROVISIONING" => PhaseOf[st] = "accepted"
<1>1. CASE st = "CREATED"
  BY <1>1 DEF Edges, PhaseOf, Status
<1>2. CASE st = "PAID"
  BY <1>2 DEF Edges, PhaseOf, Status
<1>3. CASE st = "PROVISIONING"
  BY <1>3 DEF Edges, PhaseOf, Status
<1>4. CASE st = "PROVISIONED"
  BY <1>4 DEF Edges, PhaseOf, Status
<1>5. CASE st = "ACTIVE"
  BY <1>5 DEF Edges, PhaseOf, Status
<1>6. CASE st \in {"HELD", "FAILED"}
  BY <1>6 DEF Edges
<1> QED
  BY <1>1, <1>2, <1>3, <1>4, <1>5, <1>6 DEF Status

\* One status written is one phase moved.
LEMMA PhaseMove ==
  ASSUME RowsOK, NEW o \in Orders, NEW to, status' = [status EXCEPT ![o] = to]
  PROVE  /\ phaseBar' = [phaseBar EXCEPT ![o] = PhaseOf[to]]
         /\ phaseBar[o] = PhaseOf[status[o]]
  BY DEF phaseBar, RowsOK

\* transition() moves one order to the phase of its new status.
LEMMA TransitionMaps ==
  ASSUME IInv, NEW o \in Orders, NEW to \in Status, transition(o, to)
  PROVE  /\ phaseBar' = [phaseBar EXCEPT ![o] = PhaseOf[to]]
         /\ confirmedBar' = confirmedBar
<1> USE DEF IInv, TypeOK
<1>1. phaseBar' = [phaseBar EXCEPT ![o] = PhaseOf[to]]
  BY DEF phaseBar, transition, RowsOK
<1>2. ASSUME NEW x \in Orders PROVE Confirmed(x)' <=> Confirmed(x)
  <2>1. CASE x # o
    BY <2>1 DEF Confirmed, transition, RowsOK
  <2>2. CASE x = o
    <3>1. /\ audit[o] \in Seq(Recorded) /\ audit'[o] = Append(audit[o], to)
          /\ to \in Recorded /\ to # HumanConfirmed
      BY DEF transition, RowsOK, Recorded, Status, HumanConfirmed
    <3>2. /\ Len(audit'[o]) = Len(audit[o]) + 1 /\ Len(audit[o]) \in Nat
          /\ audit'[o][Len(audit[o]) + 1] = to
          /\ \A i \in 1..Len(audit[o]) : audit'[o][i] = audit[o][i]
      BY <3>1, AppendProperties, LenProperties
    <3> QED
      BY <2>2, <3>1, <3>2 DEF Confirmed
  <2> QED
    BY <2>1, <2>2
<1> QED
  BY <1>1, <1>2 DEF confirmedBar

\* From where transition() may leave.
LEMMA TransitionFrom ==
  ASSUME IInv, NEW o \in Orders, NEW to \in Status, transition(o, to)
  PROVE  /\ to \in {"HELD", "FAILED"} => phaseBar[o] \in {"open", "accepted", "working", "active"}
         /\ to = "PAID" => phaseBar[o] = "open"
         /\ to = "PROVISIONING" => phaseBar[o] = "accepted"
<1>1. status[o] \in Status /\ to \in Edges[status[o]]
  BY DEF transition, canTransition
<1>2. phaseBar[o] = PhaseOf[status[o]]
  BY DEF phaseBar
<1> QED
  BY <1>1, <1>2, EdgePhases

\* Every step keeps requests and payments to orders that exist.
LEMMA ExistingStep == ASSUME IInv, Existing, [Next]_vars PROVE Existing'
<1> USE DEF IInv, TypeOK
<1>1. ASSUME NEW o \in Orders, status[o] # "NONE" PROVE status'[o] # "NONE"
  <2>1. ASSUME NEW x, NEW to, transition(x, to) PROVE status'[o] # "NONE"
    <3>1. to \in Status
      BY <2>1, EdgePhases DEF transition, canTransition
    <3> QED
      BY <1>1, <2>1, <3>1 DEF transition, Status, RowsOK
  <2> QED
    BY <1>1, <2>1
    DEF Next, vars, checkout, checkoutOrder, checkoutStripe, checkoutSave, webhook,
        webhookMismatch, webhookAchFailed, webhookPaid, webhookReversal, process, processStart,
        processVerify, processDecide, processAlert, processAlertFails, processUpdate,
        completeHuman, completeHumanRead, completeHumanVerify, completeHumanConfirm, deliver,
        deliverStart, deliverVerify, deliverMail, deliverFails, deliverUpdate, restart,
        stripeStep, keyExpires, dbVars, orderVars, RowsOK
<1>2. ASSUME req' = req \/ req' = [r \in Requests |-> IdleReq],
             \A s \in Sessions : owner'[s] = owner[s] /\ (pay'[s] # "none" => pay[s] # "none")
      PROVE  Existing'
  BY <1>1, <1>2 DEF Existing, Bodies, Money, IdleReq
<1>3. CASE UNCHANGED vars
  BY <1>2, <1>3 DEF vars, taskVars, stripeVars
<1>4. ASSUME NEW r \in Requests, checkout(r) PROVE Existing'
  <2>1. ASSUME NEW o \in Orders, checkoutOrder(r, o) PROVE Existing'
    <3>1. status'[o] # "NONE"
      BY <2>1 DEF checkoutOrder, RowsOK
    <3> QED
      BY <1>1, <2>1, <3>1 DEF checkoutOrder, Existing, Bodies, Money, TasksOK, stripeVars
  <2>2. CASE checkoutStripe(r)
    <3> DEFINE o == req[r].order
    <3>1. o \in Orders /\ status'[o] # "NONE"
      BY <1>1, <2>2 DEF checkoutStripe, Existing, Bodies
    <3>2. PICK s \in Sessions :
            /\ \/ req' = [req EXCEPT ![r] = [pc |-> "save", order |-> o, session |-> s]]
               \/ req' = [req EXCEPT ![r] = IdleReq]
            /\ \/ UNCHANGED <<pay, owner>>
               \/ /\ pay' = [pay EXCEPT ![s] = "created"]
                  /\ owner' = [owner EXCEPT ![s] = o]
      BY <2>2 DEF checkoutStripe
    <3>3. \A x \in Requests : req'[x].pc # "idle" => status'[req'[x].order] # "NONE"
      <4>1. \A x \in Requests : x # r => req'[x] = req[x]
        BY <3>2 DEF TasksOK
      <4>2. req'[r].pc # "idle" => req'[r].order = o
        BY <3>2 DEF TasksOK, IdleReq
      <4> QED
        BY <1>1, <3>1, <4>1, <4>2 DEF Existing, Bodies
    <3>4. \A x \in Sessions : pay'[x] # "none" => status'[owner'[x]] # "NONE"
      BY <1>1, <3>1, <3>2 DEF Existing, Money, StripeOK
    <3> QED
      BY <3>3, <3>4 DEF Existing
  <2>3. CASE checkoutSave(r)
    BY <1>1, <2>3 DEF checkoutSave, Existing, Bodies, Money, TasksOK, StripeOK, IdleReq
  <2> QED
    BY <1>4, <2>1, <2>2, <2>3 DEF checkout
<1>5. ASSUME NEW e \in events, webhook(e) PROVE Existing'
  BY <1>2, <1>5 DEF webhook, taskVars, stripeVars
<1>6. ASSUME NEW p \in Processors, process(p) PROVE Existing'
  BY <1>2, <1>6
  DEF process, processStart, processVerify, processDecide, processAlert, processAlertFails,
      processUpdate, stripeVars
<1>7. ASSUME NEW u \in Operators, completeHuman(u) PROVE Existing'
  BY <1>2, <1>7
  DEF completeHuman, completeHumanRead, completeHumanVerify, completeHumanConfirm, stripeVars
<1>8. ASSUME NEW d \in Deliverers, deliver(d) PROVE Existing'
  BY <1>2, <1>8
  DEF deliver, deliverStart, deliverVerify, deliverMail, deliverFails, deliverUpdate, stripeVars
<1>9. CASE restart
  BY <1>2, <1>9 DEF restart, stripeVars
<1>10. CASE stripeStep
  BY <1>2, <1>10
  DEF stripeStep, payByCard, payByAch, achSettles, reverse, sessionExpires, taskVars, StripeOK
<1>11. ASSUME NEW o \in Orders, keyExpires(o) PROVE Existing'
  BY <1>2, <1>11 DEF keyExpires, taskVars
<1> QED
  BY <1>3, <1>4, <1>5, <1>6, <1>7, <1>8, <1>9, <1>10, <1>11 DEF Next

\* Every step of Commerce is a step of the promise or a stutter.
LEMMA PromiseStep == ASSUME RInv, [Next]_vars PROVE Promise!Next \/ Unmoved
<1> USE DEF RInv, IInv, TypeOK
<1> SUFFICES ASSUME Next PROVE Promise!Next \/ Unmoved
  BY UnmovedStep, CapturedSame DEF vars, dbVars, stripeVars, mailVars
<1>1. ASSUME NEW o \in Orders, NEW to \in Status, transition(o, to), to # "ACTIVE",
             UNCHANGED <<pay, owner, ready>>, to # "PROVISIONED", to # "CREATED",
             to = "PAID" => o \in capturedBar
      PROVE  Promise!Next
  <2>1. phaseBar' = [phaseBar EXCEPT ![o] = PhaseOf[to]] /\ confirmedBar' = confirmedBar
    BY <1>1, TransitionMaps
  <2>2. capturedBar' = capturedBar
    BY <1>1, CapturedSame
  <2>3. CASE to = "PAID"
    <3>1. Promise!Accept(o)
      BY <1>1, <2>1, <2>2, <2>3, TransitionFrom DEF Promise!Accept, Promise!Move, PhaseOf
    <3> QED
      BY <3>1 DEF Promise!Next
  <2>4. CASE to = "PROVISIONING"
    <3>1. Promise!Release(o)
      BY <1>1, <2>1, <2>2, <2>4, TransitionFrom DEF Promise!Release, Promise!Move, PhaseOf
    <3> QED
      BY <3>1 DEF Promise!Next
  <2>5. CASE to \in {"HELD", "FAILED"}
    <3>1. PhaseOf[to] = "closed"
      BY <2>5 DEF PhaseOf
    <3>2. phaseBar[o] \in {"open", "accepted", "working", "active"}
      BY <1>1, <2>5, TransitionFrom
    <3>3. Promise!Move(o, phaseBar[o], "closed")
      BY <2>1, <3>1 DEF Promise!Move
    <3>4. Promise!Close(o)
      BY <1>1, <2>1, <2>2, <3>2, <3>3 DEF Promise!Close, Promise!Phases
    <3> QED
      BY <3>4 DEF Promise!Next
  <2> QED
    BY <1>1, <2>3, <2>4, <2>5 DEF Status
<1>2. ASSUME NEW r \in Requests, checkout(r) PROVE Promise!Next \/ Unmoved
  <2>1. ASSUME NEW o \in Orders, checkoutOrder(r, o), status[o] = "NONE" PROVE Promise!Next
    <3>1. /\ status' = [status EXCEPT ![o] = "CREATED"]
          /\ audit' = [audit EXCEPT ![o] = <<"CREATED">>]
          /\ UNCHANGED <<pay, owner, ready>>
      BY <2>1 DEF checkoutOrder, stripeVars, mailVars
    <3>2. phaseBar' = [phaseBar EXCEPT ![o] = "open"] /\ phaseBar[o] = "none"
      <4>1. PhaseOf["NONE"] = "none" /\ PhaseOf["CREATED"] = "open"
        BY DEF PhaseOf
      <4>2. /\ phaseBar' = [phaseBar EXCEPT ![o] = PhaseOf["CREATED"]]
            /\ phaseBar[o] = PhaseOf[status[o]]
        BY <3>1, PhaseMove
      <4> QED
        BY <2>1, <4>1, <4>2
    <3>3. ~Confirmed(o)
      <4>1. audit[o] = <<>>
        BY <2>1 DEF MInv, AuditTrail, Trail
      <4>2. Len(audit[o]) = 0
        BY <4>1
      <4> QED
        BY <4>2 DEF Confirmed
    <3>4. ~Confirmed(o)'
      BY <3>1 DEF Confirmed, RowsOK, HumanConfirmed
    <3>5. \A x \in Orders : Confirmed(x)' <=> Confirmed(x)
      BY <3>1, <3>3, <3>4 DEF Confirmed, RowsOK
    <3>6. confirmedBar' = confirmedBar /\ capturedBar' = capturedBar
      BY <3>1, <3>5, CapturedSame DEF confirmedBar
    <3>7. Promise!Open(o)
      BY <3>1, <3>2, <3>6 DEF Promise!Open, Promise!Move
    <3> QED
      BY <3>7 DEF Promise!Next
  <2>2. ASSUME NEW o \in Orders, checkoutOrder(r, o), status[o] # "NONE" PROVE Unmoved
    BY <2>2, UnmovedStep, CapturedSame DEF checkoutOrder, stripeVars, mailVars
  <2>3. CASE checkoutStripe(r)
    <3>1. UNCHANGED <<status, audit, ready>>
      BY <2>3 DEF checkoutStripe, dbVars, mailVars
    <3>2. PICK s \in Sessions :
            \/ UNCHANGED <<pay, owner>>
            \/ /\ pay[s] = "none"
               /\ pay' = [pay EXCEPT ![s] = "created"]
               /\ owner' = [owner EXCEPT ![s] = req[r].order]
      BY <2>3 DEF checkoutStripe
    <3>3. capturedBar' = capturedBar
      BY <3>2, CapturedSame DEF capturedBar, StripeOK
    <3> QED
      BY <3>1, <3>3, UnmovedStep
  <2>4. CASE checkoutSave(r)
    <3>1. UNCHANGED <<status, audit, ready>>
      BY <2>4 DEF checkoutSave, mailVars
    <3>2. capturedBar' = capturedBar
      BY <2>4 DEF checkoutSave, capturedBar, Bodies, StripeOK
    <3> QED
      BY <3>1, <3>2, UnmovedStep
  <2> QED
    BY <1>2, <2>1, <2>2, <2>3, <2>4 DEF checkout
<1>3. ASSUME NEW e \in events, webhook(e) PROVE Promise!Next \/ Unmoved
  <2> DEFINE o == owner[e.session]
  <2>1. /\ o \in Orders /\ e.session \in Sessions
        /\ {"PAID", "HELD", "FAILED"} \subseteq Status
    BY DEF StripeOK, Events, Money, Status
  <2>2. UNCHANGED <<pay, owner, ready>>
    BY <1>3 DEF webhook, stripeVars
  <2>3. CASE UNCHANGED <<status, audit>>
    BY <2>2, <2>3, UnmovedStep, CapturedSame
  <2>4. CASE webhookMismatch(e)
    BY <1>1, <2>1, <2>2, <2>4 DEF webhookMismatch
  <2>5. CASE webhookAchFailed(e)
    BY <1>1, <2>1, <2>2, <2>3, <2>5 DEF webhookAchFailed
  <2>6. CASE webhookPaid(e)
    <3>1. ASSUME e.paid PROVE o \in capturedBar
      BY <2>1, <3>1 DEF Money, Captured, capturedBar
    <3> QED
      BY <1>1, <2>1, <2>2, <2>3, <2>6, <3>1 DEF webhookPaid
  <2>7. CASE webhookReversal(e)
    BY <1>1, <2>1, <2>2, <2>3, <2>7 DEF webhookReversal
  <2> QED
    BY <1>3, <2>4, <2>5, <2>6, <2>7 DEF webhook
<1>4. ASSUME NEW p \in Processors, process(p) PROVE Promise!Next \/ Unmoved
  <2>1. UNCHANGED <<pay, owner, ready>>
    BY <1>4
    DEF process, processStart, processVerify, processDecide, processAlert, processAlertFails,
        processUpdate, stripeVars, mailVars
  <2>2. CASE UNCHANGED <<status, audit>>
    BY <2>1, <2>2, UnmovedStep, CapturedSame
  <2>3. CASE processDecide(p)
    <3>1. proc[p].cur.order \in Orders
      BY <2>3 DEF processDecide, Bodies, Snapshots
    <3>2. {"HELD", "PROVISIONING"} \subseteq Status
      BY DEF Status
    <3>3. \/ UNCHANGED <<status, audit>>
          \/ transition(proc[p].cur.order, "HELD")
          \/ transition(proc[p].cur.order, "PROVISIONING")
      BY <2>3 DEF processDecide
    <3> QED
      BY <1>1, <2>1, <2>2, <3>1, <3>2, <3>3
  <2> QED
    BY <1>4, <2>2, <2>3
    DEF process, processStart, processVerify, processAlert, processAlertFails, processUpdate,
        dbVars, orderVars
<1>5. ASSUME NEW u \in Operators, completeHuman(u) PROVE Promise!Next \/ Unmoved
  <2>1. UNCHANGED <<pay, owner, ready>>
    BY <1>5
    DEF completeHuman, completeHumanRead, completeHumanVerify, completeHumanConfirm,
        stripeVars, mailVars
  <2>2. CASE UNCHANGED <<status, audit>>
    BY <2>1, <2>2, UnmovedStep, CapturedSame
  <2>3. CASE completeHumanConfirm(u) /\ status[op[u].order] = "PROVISIONING"
    <3>1. PICK o \in Orders : o = op[u].order
      BY <2>3 DEF completeHumanConfirm, Bodies
    <3>2. /\ status' = [status EXCEPT ![o] = "ACTIVE"]
          /\ audit' = [audit EXCEPT ![o] = @ \o <<"PROVISIONED", HumanConfirmed, "ACTIVE">>]
      BY <2>3, <3>1 DEF completeHumanConfirm
    <3>3. phaseBar[o] = "working" /\ phaseBar' = [phaseBar EXCEPT ![o] = "active"]
      <4>1. PhaseOf["PROVISIONING"] = "working" /\ PhaseOf["ACTIVE"] = "active"
        BY DEF PhaseOf
      <4>2. /\ phaseBar' = [phaseBar EXCEPT ![o] = PhaseOf["ACTIVE"]]
            /\ phaseBar[o] = PhaseOf[status[o]]
        BY <3>1, <3>2, PhaseMove
      <4> QED
        BY <2>3, <3>1, <4>1, <4>2
    <3>4. Confirmed(o)'
      <4>1. /\ audit[o] \in Seq(Recorded)
            /\ <<"PROVISIONED", HumanConfirmed, "ACTIVE">> \in Seq(Recorded)
            /\ audit'[o] = audit[o] \o <<"PROVISIONED", HumanConfirmed, "ACTIVE">>
        BY <3>1, <3>2 DEF RowsOK, Status, Recorded
      <4>2. Len(audit[o]) \in Nat /\ Len(audit'[o]) = Len(audit[o]) + 3
        BY <4>1, ConcatProperties, LenProperties
      <4>3. audit'[o][Len(audit[o]) + 2] = HumanConfirmed
        BY <4>1, <4>2, ConcatProperties
      <4>4. Len(audit[o]) + 2 \in 1..Len(audit'[o])
        BY <4>2
      <4> QED
        BY <4>3, <4>4 DEF Confirmed
    <3>5. \A x \in Orders : x # o => (Confirmed(x)' <=> Confirmed(x))
      BY <3>1, <3>2 DEF Confirmed, RowsOK
    <3>6. confirmedBar' = confirmedBar \cup {o}
      <4>1. \A x \in Orders : x \in confirmedBar' <=> (x \in confirmedBar \/ x = o)
        BY <3>1, <3>4, <3>5 DEF confirmedBar
      <4>2. confirmedBar' \subseteq Orders /\ confirmedBar \subseteq Orders
        BY DEF confirmedBar
      <4> QED
        BY <3>1, <4>1, <4>2
    <3>7. Promise!Confirm(o)
      BY <2>1, <3>3, <3>6, CapturedSame DEF Promise!Confirm, Promise!Move
    <3> QED
      BY <3>1, <3>7 DEF Promise!Next
  <2> QED
    BY <1>5, <2>2, <2>3
    DEF completeHuman, completeHumanRead, completeHumanVerify, completeHumanConfirm, dbVars
<1>6. ASSUME NEW d \in Deliverers, deliver(d) PROVE Promise!Next \/ Unmoved
  <2>1. UNCHANGED <<status, audit, pay, owner>>
    BY <1>6
    DEF deliver, deliverStart, deliverVerify, deliverMail, deliverFails, deliverUpdate,
        dbVars, orderVars, stripeVars
  <2>2. CASE ready' = ready
    BY <2>1, <2>2, UnmovedStep, CapturedSame
  <2>3. ASSUME deliverMail(d), Head(del[d].todo).status = "ACTIVE" PROVE Promise!Next
    <3> DEFINE j == Head(del[d].todo)
    <3>1. del[d].todo \in Seq(Snapshots) /\ del[d].todo # <<>>
      BY <2>3 DEF deliverMail, TasksOK, Bodies
    <3>2. j = del[d].todo[1] /\ 1 \in 1..Len(del[d].todo) /\ j \in Snapshots
      BY <3>1, HeadTailProperties, LenProperties, EmptySeq
    <3>3. Confirmed(j.order) /\ j.order \in Orders
      BY <2>3, <3>2 DEF MInv, Mailing, Snapshots
    <3>4. /\ ready' = ready \cup {j.order}
          /\ UNCHANGED <<phaseBar, capturedBar, confirmedBar>>
      BY <2>1, <2>3, CapturedSame DEF deliverMail, phaseBar, confirmedBar, Confirmed
    <3>5. Promise!Welcome(j.order)
      BY <3>3, <3>4 DEF Promise!Welcome, confirmedBar
    <3> QED
      BY <3>3, <3>5 DEF Promise!Next
  <2> QED
    BY <1>6, <2>2, <2>3
    DEF deliver, deliverStart, deliverVerify, deliverMail, deliverFails, deliverUpdate, mailVars
<1>7. CASE restart
  BY <1>7, UnmovedStep, CapturedSame DEF restart, stripeVars, mailVars
<1>8. CASE stripeStep
  <2>1. PICK s \in Sessions :
          payByCard(s) \/ payByAch(s) \/ achSettles(s) \/ reverse(s) \/ sessionExpires(s)
    BY <1>8 DEF stripeStep
  <2>2. UNCHANGED <<status, audit, ready, owner>>
    BY <1>8 DEF stripeStep, dbVars, mailVars
  <2>3. /\ pay[s] # "none"
        /\ \A x \in Sessions : x # s => pay'[x] = pay[x]
        /\ pay[s] \in Captured => pay'[s] \in Captured
    BY <2>1
    DEF payByCard, payByAch, achSettles, reverse, sessionExpires, StripeOK, Captured
  <2>4. owner[s] \in Orders /\ status[owner[s]] # "NONE"
    BY <2>3 DEF Money, Existing
  <2>5. CASE pay'[s] \in Captured
    <3>1. capturedBar' = capturedBar \cup {owner[s]}
      BY <2>2, <2>3, <2>4, <2>5 DEF capturedBar, Captured
    <3>2. phaseBar[owner[s]] # "none" /\ UNCHANGED <<phaseBar, confirmedBar>>
      BY <2>2, <2>4 DEF phaseBar, PhaseOf, confirmedBar, Confirmed, RowsOK, Status
    <3>3. Promise!Capture(owner[s])
      BY <2>2, <3>1, <3>2 DEF Promise!Capture
    <3> QED
      BY <2>4, <3>3 DEF Promise!Next
  <2>6. CASE pay'[s] \notin Captured
    <3>1. capturedBar' = capturedBar
      BY <2>2, <2>3, <2>6 DEF capturedBar, Captured
    <3> QED
      BY <2>2, <3>1, UnmovedStep
  <2> QED
    BY <2>5, <2>6
<1>9. ASSUME NEW o \in Orders, keyExpires(o) PROVE Promise!Next \/ Unmoved
  BY <1>9, UnmovedStep, CapturedSame DEF keyExpires, dbVars, mailVars
<1> QED
  BY <1>2, <1>3, <1>4, <1>5, <1>6, <1>7, <1>8, <1>9 DEF Next

\* The initial states are those of the promise.
LEMMA PromiseInit == Init => Promise!Init
  BY CommerceConstants
  DEF Init, Promise!Init, phaseBar, PhaseOf, capturedBar, confirmedBar, Confirmed

\* The commerce service implements PrepaidOrder: an order is accepted only for
\* captured money, released at most once, welcomed only after its confirmation,
\* and a held or failed order is never revived.
THEOREM Refinement == Spec => ImplementsPromise
<1>1. Init => Existing /\ MInv
  BY DEF Init, Existing, IdleReq, MInv, AuditTrail, Trail, Mailing, ReadyMailConfirmed, IdleDel
<1>2. RInv /\ [Next]_vars => MInv' /\ Existing'
  BY TrailStep, MailingStep, ExistingStep DEF RInv, MInv
<1>3. RInv /\ [Next]_vars => [Promise!Next]_(Promise!vars)
  BY PromiseStep DEF Unmoved, Promise!vars
<1> QED
  BY Invariance, PromiseInit, <1>1, <1>2, <1>3, PTL DEF Spec, ImplementsPromise, Promise!Spec, RInv
=============================================================================
