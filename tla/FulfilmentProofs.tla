-------------------------- MODULE FulfilmentProofs --------------------------
(* Theorems of Fulfilment, for any number of sessions, orders, deliveries,   *)
(* listener runs, attempts and crashes.                                      *)
EXTENDS Fulfilment, Integers, SequenceTheorems, WellFoundedInduction, TLAPS

\* The service of the order was provided once; nothing provides it again.
Done(o) == provider[o] \in {"ACTIVE", "TERMINATED"}

Terminating == {"terminate", "revoke", "close"}

\* A delivery names its session, and its order once it has one: for a payment
\* an order with a payment, for a cancellation one that was provided and, after
\* its own write, is ACTIVE no more.
HookOK(h) ==
  LET x == hook[h] IN
  /\ x.pc # "idle" => x.session \in Sessions /\ x.kind # "none"
  /\ x.pc \in {"resolve", "create", "pay"} => x.kind = "completed"
  /\ x.pc \in {"find", "cancel"} => x.kind = "deleted"
  /\ x.pc \in {"audit", "emit"} => x.kind # "subscription"
  /\ x.pc \in {"mirror", "find"} => x.order = NoOrder
  /\ x.pc \in {"pay", "cancel", "audit"} => x.order \in Orders
  /\ x.kind = "completed" /\ x.pc \in {"audit", "record", "emit"} =>
       x.order \in Orders /\ payment[x.order] # NoSession
  /\ x.kind = "deleted" /\ x.pc \in {"cancel", "audit", "record", "emit"}
     /\ x.order # NoOrder => Done(x.order)
  /\ x.kind = "deleted" /\ x.pc \in {"audit", "record", "emit"}
     /\ x.order # NoOrder => status[x.order] # "ACTIVE"

HooksKnow == \A h \in Hooks : HookOK(h)

\* A run provides for a payment, or terminates what was provided and cancelled.
RunOK(r) ==
  LET x == run[r] IN
  /\ x.pc # "idle" => x.order \in Orders
  /\ x.pc \in {"provision", "claim", "call"} => x.tries < Attempts
  /\ x.pc \in {"provision", "claim"} \cup Working => payment[x.order] # NoSession
  /\ x.pc = "commit" => remote[x.order] # "none"
  /\ x.pc \in Terminating => Done(x.order) /\ status[x.order] # "ACTIVE"
  /\ x.pc \in {"revoke", "close"} => x.was # "ACTIVE"

RunsKnow == \A r \in Runs : RunOK(r)

\* stripePaymentId is unique, and only paid orders have a service.
Backed ==
  /\ \A o, p \in Orders : payment[o] # NoSession /\ payment[o] = payment[p] => o = p
  /\ \A o \in Orders : remote[o] # "none" => payment[o] # NoSession
  /\ \A o \in Orders : remote[o] = "terminated" => Done(o)

\* Of the deliveries of one event, the first to record it announces it.
Announced ==
  /\ \A e \in Events : emits[e] <= 1 /\ (emits[e] = 1 => e \in recorded)
  /\ \A h \in Hooks : hook[h].pc = "emit" =>
       /\ Event(h) \in recorded /\ emits[Event(h)] = 0
       /\ \A g \in Hooks \ {h} : hook[g].pc = "emit" => Event(g) # Event(h)

IInv ==
  /\ TypeOK /\ HooksKnow /\ RunsKnow /\ OneProvisioner /\ Backed /\ ActiveIsFulfilled
  /\ Announced

\* Some pair of deliveries was about to pay the order at once.
Contested(o) == \E s \in Sessions : <<o, s>> \in contested

\* A delivery that goes on to pay finds its order PENDING and without a payment,
\* unless another was about to pay the order at the same time.
PayOrderly(h) ==
  LET x == hook[h] IN
  x.pc = "pay" =>
    /\ status[x.order] # NoStatus
    /\ status[x.order] = "PENDING" \/ <<x.order, x.session>> \in contested
    /\ payment[x.order] # NoSession => <<x.order, payment[x.order]>> \in contested
    /\ \A g \in Hooks \ {h} :
         hook[g].pc = "pay" /\ hook[g].order = x.order => <<x.order, x.session>> \in contested

\* One that goes on to cancel finds its order ACTIVE, or cancelled by a duplicate.
CancelOrderly(h) ==
  LET x == hook[h] IN
  x.pc = "cancel" => status[x.order] \in {"ACTIVE", "CANCELLED"} \/ Contested(x.order)

\* The payment that a delivery has written stays.
PaidOrderly(h) ==
  LET x == hook[h] IN
  x.kind = "completed" /\ x.pc \in {"audit", "record"} =>
    payment[x.order] = x.session \/ <<x.order, x.session>> \in contested

\* A status is what the order's payment and provider row say.
RowsOrderly ==
  \A o \in Orders :
    /\ status[o] \in {"none", "PENDING"} => provider[o] = "none" /\ payment[o] = NoSession
    /\ payment[o] # NoSession /\ provider[o] = "none" => status[o] = "PAID"
    /\ provider[o] = "PROVISIONING" => status[o] = "PROVISIONING" \/ Contested(o)

HooksOrderly == \A h \in Hooks : PayOrderly(h) /\ CancelOrderly(h) /\ PaidOrderly(h)

Orderly == RowsOrderly /\ HooksOrderly /\ RecordedPaymentKept

-----------------------------------------------------------------------------
(* Operators.                                                                *)

\* The edges of the state machine that the handlers take.
LEMMA Machine ==
  /\ peekNextOrderStatus("PENDING", "pay") = "PAID"
  /\ peekNextOrderStatus("PAID", "start_provisioning") = "PROVISIONING"
  /\ peekNextOrderStatus("PROVISIONING", "provisioning_succeeded") = "ACTIVE"
  /\ peekNextOrderStatus("ACTIVE", "cancel") = "CANCELLED"
  /\ peekNextOrderStatus("PROVISIONING", "fail") = "FAILED"
  /\ \A s : s # "PAID" => peekNextOrderStatus(s, "start_provisioning") = NoStatus
  /\ \A s : s # "ACTIVE" => peekNextOrderStatus(s, "cancel") = NoStatus
<1> DEFINE edge(f, t, g) == [from |-> f, transition |-> t, to |-> g]
<1>1. ASSUME NEW f, NEW t, NEW g, t # "fail",
             \A x \in TRANSITIONS : x.transition = t <=> x = edge(f, t, g),
             edge(f, t, g) \in TRANSITIONS
      PROVE  \A s : peekNextOrderStatus(s, t) = IF s = f THEN g ELSE NoStatus
  <2> TAKE s
  <2>1. CASE s = f
    <3>1. (CHOOSE x \in TRANSITIONS : x.from = s /\ x.transition = t) = edge(f, t, g)
      BY <1>1, <2>1
    <3> QED
      BY <1>1, <2>1, <3>1 DEF peekNextOrderStatus
  <2>2. CASE s # f
    <3>1. ~ \E x \in TRANSITIONS : x.from = s /\ x.transition = t
      BY <1>1, <2>2
    <3> QED
      BY <1>1, <2>2, <3>1 DEF peekNextOrderStatus
  <2> QED
    BY <2>1, <2>2
<1>2. \A s : peekNextOrderStatus(s, "pay") = IF s = "PENDING" THEN "PAID" ELSE NoStatus
  BY <1>1 DEF TRANSITIONS
<1>3. \A s : peekNextOrderStatus(s, "start_provisioning")
               = IF s = "PAID" THEN "PROVISIONING" ELSE NoStatus
  BY <1>1 DEF TRANSITIONS
<1>4. \A s : peekNextOrderStatus(s, "provisioning_succeeded")
               = IF s = "PROVISIONING" THEN "ACTIVE" ELSE NoStatus
  BY <1>1 DEF TRANSITIONS
<1>5. \A s : peekNextOrderStatus(s, "cancel") = IF s = "ACTIVE" THEN "CANCELLED" ELSE NoStatus
  BY <1>1 DEF TRANSITIONS
<1>6. peekNextOrderStatus("PROVISIONING", "fail") = "FAILED"
  BY DEF peekNextOrderStatus, TERMINAL_STATUSES
<1> QED
  BY <1>2, <1>3, <1>4, <1>5, <1>6

Less == {x \in Nat \X Nat : x[1] < x[2]}

\* Every set of numbers has a least one.
LEMMA LeastNumber ==
  ASSUME NEW S \in SUBSET Nat, S # {} PROVE \E x \in S : \A y \in S : x <= y
<1>1. Less = OpToRel(<, Nat)
  BY DEF OpToRel, Less
<1>2. IsWellFoundedOn(Less, Nat)
  BY <1>1, NatLessThanWellFounded
<1>3. PICK x \in S : \A y \in S : <<y, x>> \notin Less
  BY <1>2, WFMin
<1>4. ASSUME NEW y \in S PROVE x <= y
  <2>1. <<y, x>>[1] = y /\ <<y, x>>[2] = x /\ <<y, x>> \in Nat \X Nat
    OBVIOUS
  <2>2. ~(y < x)
    BY <1>3, <2>1 DEF Less
  <2> QED
    BY <2>2
<1> QED
  BY <1>4

\* The latest of some orders is one of them.
LEMMA LatestIsOne == ASSUME NEW S \in SUBSET Orders, S # {} PROVE Latest(S) \in S
<1> DEFINE T == {MaxOrders - o : o \in S}
<1> USE FulfilmentConstants
<1>1. T \in SUBSET Nat
  <2> SUFFICES ASSUME NEW o \in S PROVE MaxOrders - o \in Nat
    OBVIOUS
  <2> QED
    BY DEF Orders
<1>2. PICK o \in S : \A y \in T : MaxOrders - o <= y
  <2>1. \E x \in T : \A y \in T : x <= y
    <3> HIDE DEF T
    <3> T # {} 
      BY DEF T
    <3> QED
      BY <1>1, LeastNumber
  <2> QED
    BY <2>1
<1>3. ASSUME NEW p \in S PROVE p <= o
  <2>1. MaxOrders - o <= MaxOrders - p
    BY <1>2
  <2> QED
    BY <2>1 DEF Orders
<1>4. \E x \in S : \A p \in S : p <= x
  BY <1>3
<1> QED
  BY <1>4 DEF Latest

\* A delivery takes a PENDING order, and no order when there is none.
LEMMA OrderTaken ==
  ASSUME NEW h \in Hooks, resolvePayableOrder(h)
  PROVE  /\ hook[h].pc = "resolve" /\ UNCHANGED dbVars
         /\ \/ hook' = [hook EXCEPT ![h].pc = "create"] /\ UNCHANGED contested
            \/ \E o \in Orders : status[o] = "PENDING" /\ TakeOrder(h, o)
<1> DEFINE pending == {o \in Orders : status[o] = "PENDING"}
<1>1. pending # {} => Latest(pending) \in pending
  BY LatestIsOne
<1>2. pending # {} => Latest(pending) \in Orders /\ status[Latest(pending)] = "PENDING"
  BY <1>1
<1>3. \/ pending # {} /\ TakeOrder(h, Latest(pending))
      \/ hook' = [hook EXCEPT ![h].pc = "create"] /\ UNCHANGED contested
  BY DEF resolvePayableOrder
<1>4. hook[h].pc = "resolve" /\ UNCHANGED dbVars
  BY DEF resolvePayableOrder
<1> HIDE DEF pending
<1> QED
  BY <1>2, <1>3, <1>4

\* Writing a row keeps the order of updatedAt a relation over the orders.
LEMMA TouchType == ASSUME RowsOK, NEW o \in Orders, Touch(o) PROVE older' \subseteq Orders \X Orders
BY DEF RowsOK, Touch, Refresh

\* The rows a scan takes are a sequence of the rows that are due.
LEMMA OldestType ==
  ASSUME NEW S \in SUBSET Orders, NEW rel, NEW n \in Nat, NEW f \in Oldest(S, rel, n)
  PROVE  f \in Seq(Orders)
<1>1. PICK m \in 1..n : f \in [1..m -> S]
  BY DEF Oldest
<1> QED
  BY <1>1

-----------------------------------------------------------------------------
(* The types.                                                                *)

\* The inductive invariants hold at the start.
LEMMA Initially == Init => IInv /\ Orderly
<1> SUFFICES ASSUME Init PROVE IInv /\ Orderly
  OBVIOUS
<1> USE FulfilmentConstants DEF Init
<1>1. TypeOK
  BY DEF TypeOK, RowsOK, TasksOK, StripeOK, Hook, HookSteps, Run, RunSteps, IdleHook, IdleRun, NoStatus, NoOrder
<1>2. HooksKnow /\ RunsKnow /\ OneProvisioner
  BY DEF HooksKnow, HookOK, RunsKnow, RunOK, OneProvisioner, IdleHook, IdleRun, Working, Terminating
<1>3. Backed /\ ActiveIsFulfilled /\ Announced
  BY DEF Backed, ActiveIsFulfilled, Announced, NoStatus, IdleHook
<1>4. Orderly
  BY DEF Orderly, RowsOrderly, HooksOrderly, PayOrderly, CancelOrderly, PaidOrderly, RecordedPaymentKept,
       IdleHook, NoStatus
<1> QED
  BY <1>1, <1>2, <1>3, <1>4 DEF IInv

\* Every step keeps the types of the rows.
LEMMA RowsStep == ASSUME IInv, Next PROVE RowsOK'
<1> USE FulfilmentConstants DEF IInv, TypeOK, NoOrder, NoStatus
<1>1. ASSUME NEW h \in Hooks, upsertSubscription(h) PROVE RowsOK'
  BY <1>1 DEF upsertSubscription, RowsOK, HooksKnow, HookOK
<1>2. ASSUME NEW h \in Hooks, createOrder(h) PROVE RowsOK'
  BY <1>2, TouchType DEF createOrder, RowsOK, OrderStatus
<1>3. ASSUME NEW h \in Hooks, payOrder(h) PROVE RowsOK'
  <2>1. hook[h].order \in Orders /\ hook[h].session \in Sessions
    BY <1>3 DEF payOrder, HooksKnow, HookOK
  <2>2. CASE \A p \in Orders \ {hook[h].order} : payment[p] # hook[h].session
    BY <1>3, <2>1, <2>2, TouchType, Machine DEF payOrder, RowsOK, OrderStatus
  <2>3. CASE \E p \in Orders \ {hook[h].order} : payment[p] = hook[h].session
    BY <1>3, <2>1, <2>3 DEF payOrder, RowsOK
  <2> QED
    BY <2>2, <2>3
<1>4. ASSUME NEW h \in Hooks, cancelOrder(h) PROVE RowsOK'
  <2>1. hook[h].order \in Orders
    BY <1>4 DEF cancelOrder, HooksKnow, HookOK
  <2> QED
    BY <1>4, <2>1, TouchType, Machine DEF cancelOrder, RowsOK, OrderStatus
<1>5. ASSUME NEW h \in Hooks, auditOrder(h) PROVE RowsOK'
  BY <1>5 DEF auditOrder, RowsOK, HooksKnow, HookOK
<1>6. ASSUME NEW h \in Hooks, recordEvent(h) PROVE RowsOK'
  <2>1. Event(h) \in Events
    BY <1>6 DEF recordEvent, HooksKnow, HookOK, TasksOK, Hook, Event, Events
  <2> QED
    BY <1>6, <2>1 DEF recordEvent, RowsOK
<1>7. ASSUME NEW r \in Runs, provisionClaim(r) PROVE RowsOK'
  <2>1. run[r].order \in Orders
    BY <1>7 DEF provisionClaim, RunsKnow, RunOK
  <2>2. CASE canTransition(run[r].was, "start_provisioning") /\ provider[run[r].order] = "none"
    <3>1. run[r].was = "PAID"
      BY <2>2, Machine DEF canTransition
    <3> QED
      BY <1>7, <2>1, <2>2, <3>1, TouchType, Machine DEF provisionClaim, RowsOK, OrderStatus
  <2>3. CASE ~(canTransition(run[r].was, "start_provisioning") /\ provider[run[r].order] = "none")
    BY <1>7, <2>3 DEF provisionClaim, RowsOK
  <2> QED
    BY <2>2, <2>3
<1>8. ASSUME NEW r \in Runs, provisionCommit(r) PROVE RowsOK'
  <2>1. run[r].order \in Orders
    BY <1>8 DEF provisionCommit, RunsKnow, RunOK
  <2> QED
    BY <1>8, <2>1, TouchType, Machine DEF provisionCommit, RowsOK, OrderStatus
<1>9. ASSUME NEW r \in Runs, provisionFail(r) PROVE RowsOK'
  <2>1. run[r].order \in Orders
    BY <1>9 DEF provisionFail, RunsKnow, RunOK
  <2> QED
    BY <1>9, <2>1, TouchType, Machine DEF provisionFail, RowsOK, OrderStatus
<1>10. ASSUME NEW r \in Runs, terminateClose(r) PROVE RowsOK'
  <2>1. run[r].order \in Orders /\ peekNextOrderStatus(run[r].was, "cancel") = NoStatus
    BY <1>10, Machine DEF terminateClose, RunsKnow, RunOK
  <2> QED
    BY <1>10, <2>1 DEF terminateClose, RowsOK
<1>11. ASSUME NEW o \in Orders, recordForReview(o) PROVE RowsOK'
  BY <1>11 DEF recordForReview, RowsOK
<1>12. CASE UNCHANGED dbVars
  BY <1>12 DEF dbVars, RowsOK
<1> QED
  BY <1>1, <1>2, <1>3, <1>4, <1>5, <1>6, <1>7, <1>8, <1>9, <1>10, <1>11, <1>12
  DEF Next, hookStep, runStep, sweepStep, handle, resolvePayableOrder, findActiveOrder, emitEvent,
    provisionRead, provisionCall, terminateRead, terminateCall, discoverStrandedOrders, reviewFails,
    crash, stripeStep

\* Where a handler and a run may go.
LEMMA HookMoves ==
  ASSUME TasksOK, NEW h \in Hooks
  PROVE  /\ [hook EXCEPT ![h] = IdleHook] \in [Hooks -> Hook]
         /\ \A p \in HookSteps : [hook EXCEPT ![h].pc = p] \in [Hooks -> Hook]
         /\ \A p \in HookSteps : [hook EXCEPT ![h] = [@ EXCEPT !.pc = p]] \in [Hooks -> Hook]
         /\ \A p \in HookSteps, o \in Orders :
              [hook EXCEPT ![h].pc = p, ![h].order = o] \in [Hooks -> Hook]
         /\ \A p \in HookSteps, o \in Orders :
              [hook EXCEPT ![h] = [@ EXCEPT !.pc = p, !.order = o]] \in [Hooks -> Hook]
<1>1. hook \in [Hooks -> Hook] /\ "idle" \in HookSteps
  BY DEF TasksOK, HookSteps
<1> QED
  BY <1>1 DEF Hook, IdleHook, NoOrder

\* The moves of a listener run keep its type.
LEMMA RunMoves ==
  ASSUME TasksOK, NEW r \in Runs
  PROVE  /\ [run EXCEPT ![r] = IdleRun] \in [Runs -> Run]
         /\ \A p \in RunSteps : [run EXCEPT ![r].pc = p] \in [Runs -> Run]
         /\ \A p \in RunSteps : [run EXCEPT ![r] = [@ EXCEPT !.pc = p]] \in [Runs -> Run]
         /\ \A p \in RunSteps, o \in Orders :
              [run EXCEPT ![r] = [IdleRun EXCEPT !.pc = p, !.order = o]] \in [Runs -> Run]
         /\ \A p \in RunSteps, st \in OrderStatus \cup {NoStatus} :
              [run EXCEPT ![r] = [@ EXCEPT !.pc = p, !.was = st]] \in [Runs -> Run]
         /\ \A p \in RunSteps, n \in 0..Attempts :
              [run EXCEPT ![r] = [@ EXCEPT !.tries = n, !.pc = p]] \in [Runs -> Run]
<1>1. run \in [Runs -> Run] /\ "idle" \in RunSteps /\ 0 \in 0..Attempts
  BY FulfilmentConstants DEF TasksOK, RunSteps
<1> QED
  BY <1>1 DEF Run, IdleRun, NoOrder

\* Every step keeps the types of deliveries and runs.
LEMMA TasksStep == ASSUME IInv, Next PROVE TasksOK'
<1>0. hook \in [Hooks -> Hook] /\ run \in [Runs -> Run] /\ IdleHook \in Hook /\ IdleRun \in Run
  BY FulfilmentConstants DEF IInv, TypeOK, TasksOK, Hook, HookSteps, IdleHook, Run, RunSteps, IdleRun, NoOrder
<1> USE FulfilmentConstants DEF IInv, TypeOK, NoOrder, NoStatus
<1>1. ASSUME NEW h \in Hooks, NEW e \in events, handle(h, e) PROVE TasksOK'
  <2>1. e.kind \in {"completed", "subscription", "deleted"} /\ e.session \in Sessions
    BY DEF StripeOK, Events
  <2> QED
    BY <1>1, <2>1 DEF handle, TasksOK, Hook, HookSteps
<1>2. ASSUME NEW h \in Hooks, upsertSubscription(h) PROVE TasksOK'
  <2>1. PICK p \in HookSteps : hook' = [hook EXCEPT ![h].pc = p]
    BY <1>2 DEF upsertSubscription, HookSteps
  <2>2. hook' \in [Hooks -> Hook]
    BY <2>1, HookMoves
  <2> QED
    BY <1>2, <2>2 DEF upsertSubscription, TasksOK
<1>3. ASSUME NEW h \in Hooks, resolvePayableOrder(h) PROVE TasksOK'
  <2>1. \/ hook' = [hook EXCEPT ![h].pc = "create"]
        \/ \E o \in Orders : hook' = [hook EXCEPT ![h].pc = "pay", ![h].order = o]
    BY <1>3, OrderTaken DEF TakeOrder
  <2>2. {"create", "pay"} \subseteq HookSteps
    BY DEF HookSteps
  <2>3. hook' \in [Hooks -> Hook]
    <3>1. CASE hook' = [hook EXCEPT ![h].pc = "create"]
      BY <2>2, <3>1, HookMoves
    <3>2. ASSUME NEW o \in Orders, hook' = [hook EXCEPT ![h].pc = "pay", ![h].order = o]
          PROVE  hook' \in [Hooks -> Hook]
      BY <2>2, <3>2, HookMoves
    <3> QED
      BY <2>1, <3>1, <3>2
  <2> QED
    BY <1>3, <2>3 DEF resolvePayableOrder, TasksOK
<1>4. ASSUME NEW h \in Hooks, createOrder(h) PROVE TasksOK'
  <2>1. PICK o \in Orders : hook' = [hook EXCEPT ![h].pc = "pay", ![h].order = o]
    BY <1>4 DEF createOrder
  <2>2. "pay" \in HookSteps
    BY DEF HookSteps
  <2>3. hook' \in [Hooks -> Hook]
    BY <2>1, <2>2, HookMoves
  <2> QED
    BY <1>4, <2>3 DEF createOrder, TasksOK
<1>5. ASSUME NEW h \in Hooks, payOrder(h) PROVE TasksOK'
  <2>1. "audit" \in HookSteps
    BY DEF HookSteps
  <2>2. hook' = [hook EXCEPT ![h].pc = "audit"] \/ hook' = [hook EXCEPT ![h] = IdleHook]
    BY <1>5 DEF payOrder
  <2>3. hook' \in [Hooks -> Hook]
    <3> HIDE DEF IInv
    <3>1. CASE hook' = [hook EXCEPT ![h].pc = "audit"]
      BY <1>0, <2>1, <3>1 DEF Hook
    <3>2. CASE hook' = [hook EXCEPT ![h] = IdleHook]
      BY <1>0, <3>2
    <3> QED
      BY <2>2, <3>1, <3>2
  <2> QED
    BY <1>5, <2>3 DEF payOrder, TasksOK
<1>6. ASSUME NEW h \in Hooks, findActiveOrder(h) PROVE TasksOK'
  <2> DEFINE active == {o \in Orders : status[o] = "ACTIVE"}
  <2>1. active # {} => Latest(active) \in Orders
    BY LatestIsOne
  <2>2. hook' = [hook EXCEPT ![h] = IF active = {} THEN [@ EXCEPT !.pc = "record"]
                                    ELSE [@ EXCEPT !.pc = "cancel", !.order = Latest(active)]]
    BY <1>6 DEF findActiveOrder
  <2>3. {"record", "cancel"} \subseteq HookSteps
    BY DEF HookSteps
  <2> HIDE DEF active
  <2>4. hook' \in [Hooks -> Hook]
    BY <2>1, <2>2, <2>3, HookMoves
  <2> QED
    BY <1>6, <2>4 DEF findActiveOrder, TasksOK
<1>7. ASSUME NEW h \in Hooks, cancelOrder(h) \/ auditOrder(h) \/ recordEvent(h) PROVE TasksOK'
  <2>1. {"audit", "record", "emit"} \subseteq HookSteps
    BY DEF HookSteps
  <2>2. hook' \in [Hooks -> Hook]
    <3>1. \/ \E p \in HookSteps : hook' = [hook EXCEPT ![h].pc = p]
          \/ hook' = [hook EXCEPT ![h] = IdleHook]
          \/ \E p \in HookSteps : hook' = [hook EXCEPT ![h] = [@ EXCEPT !.pc = p]]
      BY <1>7, <2>1 DEF cancelOrder, auditOrder, recordEvent
    <3> HIDE DEF IInv
    <3>2. ASSUME NEW p \in HookSteps, hook' = [hook EXCEPT ![h].pc = p] PROVE hook' \in [Hooks -> Hook]
      BY <1>0, <3>2 DEF Hook
    <3>3. CASE hook' = [hook EXCEPT ![h] = IdleHook]
      BY <1>0, <3>3
    <3>4. ASSUME NEW p \in HookSteps, hook' = [hook EXCEPT ![h] = [@ EXCEPT !.pc = p]]
          PROVE  hook' \in [Hooks -> Hook]
      BY <1>0, <3>4 DEF Hook
    <3> QED
      BY <3>1, <3>2, <3>3, <3>4
  <2> QED
    BY <1>7, <2>2 DEF cancelOrder, auditOrder, recordEvent, TasksOK
<1>8. ASSUME NEW h \in Hooks, emitEvent(h) PROVE TasksOK'
  <2>1. hook' \in [Hooks -> Hook]
    BY <1>8, HookMoves DEF emitEvent, HookSteps
  <2>2. run' \in [Runs -> Run]
    <3>1. {"terminate", "provision"} \subseteq RunSteps
      BY DEF RunSteps
    <3>2. CASE UNCHANGED run
      BY <3>2 DEF TasksOK
    <3>3. ASSUME hook[h].order # NoOrder, NEW r \in Runs,
                 run' = [run EXCEPT ![r] =
                   [IdleRun EXCEPT !.pc = IF hook[h].kind = "deleted" THEN "terminate" ELSE "provision",
                                   !.order = hook[h].order]]
          PROVE  run' \in [Runs -> Run]
      <4>1. hook[h].order \in Orders
        BY <3>3 DEF TasksOK, Hook
      <4>2. PICK p \in RunSteps :
              run' = [run EXCEPT ![r] = [IdleRun EXCEPT !.pc = p, !.order = hook[h].order]]
        BY <3>1, <3>3
      <4> QED
        BY <4>1, <4>2, RunMoves
    <3> QED
      BY <1>8, <3>2, <3>3 DEF emitEvent
  <2> QED
    BY <1>8, <2>1, <2>2 DEF emitEvent, TasksOK
<1>9. ASSUME NEW r \in Runs, provisionRead(r) \/ terminateRead(r) PROVE TasksOK'
  <2>1. status[run[r].order] \in OrderStatus \cup {NoStatus}
    BY <1>9 DEF provisionRead, terminateRead, RunsKnow, RunOK, RowsOK
  <2>2. \/ run' = [run EXCEPT ![r] = IdleRun]
        \/ \E p \in {"claim", "revoke"} :
             run' = [run EXCEPT ![r] = [@ EXCEPT !.pc = p, !.was = status[run[r].order]]]
    BY <1>9 DEF provisionRead, terminateRead
  <2>3. {"claim", "revoke"} \subseteq RunSteps
    BY DEF RunSteps
  <2>4. run' \in [Runs -> Run]
    <3> HIDE DEF IInv
    <3>1. CASE run' = [run EXCEPT ![r] = IdleRun]
      BY <1>0, <3>1
    <3>2. ASSUME NEW p \in RunSteps,
                 run' = [run EXCEPT ![r] = [@ EXCEPT !.pc = p, !.was = status[run[r].order]]]
          PROVE  run' \in [Runs -> Run]
      BY <1>0, <2>1, <3>2 DEF Run
    <3> QED
      BY <2>2, <2>3, <3>1, <3>2
  <2> QED
    BY <1>9, <2>4 DEF provisionRead, terminateRead, TasksOK
<1>10. ASSUME NEW r \in Runs, provisionCall(r) PROVE TasksOK'
  <2>1. run[r].tries + 1 \in 0..Attempts /\ run[r].order \in Orders
    BY <1>10 DEF provisionCall, RunsKnow, RunOK, TasksOK, Run
  <2>2. {"commit", "fail", "call"} \subseteq RunSteps
    BY DEF RunSteps, Working
  <2>3. \/ \E p \in RunSteps : run' = [run EXCEPT ![r] = [@ EXCEPT !.pc = p]]
        \/ \E p \in RunSteps, n \in 0..Attempts :
             run' = [run EXCEPT ![r] = [@ EXCEPT !.tries = n, !.pc = p]]
    <3>1. PICK answered \in BOOLEAN :
            run' = [run EXCEPT ![r] =
              IF answered THEN [@ EXCEPT !.pc = "commit"]
              ELSE [@ EXCEPT !.tries = run[r].tries + 1,
                             !.pc = IF run[r].tries + 1 = Attempts THEN "fail" ELSE "call"]]
      BY <1>10 DEF provisionCall
    <3>2. CASE answered
      <4>1. run' = [run EXCEPT ![r] = [@ EXCEPT !.pc = "commit"]]
        BY <3>1, <3>2
      <4> QED
        BY <2>2, <4>1
    <3>3. CASE ~answered
      <4>1. run' = [run EXCEPT ![r] = [@ EXCEPT !.tries = run[r].tries + 1,
                      !.pc = IF run[r].tries + 1 = Attempts THEN "fail" ELSE "call"]]
        BY <3>1, <3>3
      <4> QED
        BY <2>1, <2>2, <4>1
    <3> QED
      BY <3>2, <3>3
  <2>4. run' \in [Runs -> Run]
    <3> HIDE DEF IInv
    <3>1. ASSUME NEW p \in RunSteps, run' = [run EXCEPT ![r] = [@ EXCEPT !.pc = p]]
          PROVE  run' \in [Runs -> Run]
      BY <1>0, <3>1 DEF Run
    <3>2. ASSUME NEW p \in RunSteps, NEW n \in 0..Attempts,
                 run' = [run EXCEPT ![r] = [@ EXCEPT !.tries = n, !.pc = p]]
          PROVE  run' \in [Runs -> Run]
      BY <1>0, <3>2 DEF Run
    <3> QED
      BY <2>3, <3>1, <3>2
  <2> QED
    BY <1>10, <2>4 DEF provisionCall, TasksOK
<1>11. ASSUME NEW r \in Runs, provisionClaim(r) \/ provisionCommit(r) \/ provisionFail(r)
              \/ terminateCall(r) \/ terminateClose(r)
       PROVE TasksOK'
  <2>1. {"call", "fail", "close"} \subseteq RunSteps /\ 0 \in 0..Attempts /\ run[r].order \in Orders
    BY <1>11 DEF RunSteps, Working, RunsKnow, RunOK, provisionClaim, provisionCommit, provisionFail,
      terminateCall, terminateClose
  <2>2. \/ run' = [run EXCEPT ![r] = IdleRun]
        \/ \E p \in RunSteps : run' = [run EXCEPT ![r].pc = p]
        \/ \E p \in RunSteps : run' = [run EXCEPT ![r] = [@ EXCEPT !.pc = p]]
    BY <1>11, <2>1 DEF provisionClaim, provisionCommit, provisionFail, terminateCall, terminateClose
  <2>3. run' \in [Runs -> Run]
    <3> HIDE DEF IInv
    <3>1. CASE run' = [run EXCEPT ![r] = IdleRun]
      BY <1>0, <3>1
    <3>2. ASSUME NEW p \in RunSteps, run' = [run EXCEPT ![r].pc = p] PROVE run' \in [Runs -> Run]
      BY <1>0, <3>2 DEF Run
    <3>3. ASSUME NEW p \in RunSteps, run' = [run EXCEPT ![r] = [@ EXCEPT !.pc = p]]
          PROVE  run' \in [Runs -> Run]
      BY <1>0, <3>3 DEF Run
    <3> QED
      BY <2>2, <3>1, <3>2, <3>3
  <2> QED
    BY <1>11, <2>3
    DEF provisionClaim, provisionCommit, provisionFail, terminateCall, terminateClose, TasksOK
<1>13. CASE discoverStrandedOrders
  <2>1. PICK n \in 1..Batch : sweep' \in Oldest({o \in Orders : Stranded(o)}, older, n)
    BY <1>13 DEF discoverStrandedOrders
  <2>2. sweep' \in Seq(Orders)
    BY <2>1, OldestType
  <2> QED
    BY <1>13, <2>2 DEF discoverStrandedOrders, TasksOK
<1>14. CASE reviewFails
  BY <1>14 DEF reviewFails, TasksOK
<1>15. ASSUME NEW o \in Orders, recordForReview(o) PROVE TasksOK'
  <2>1. Tail(sweep) \in Seq(Orders)
    BY <1>15, HeadTailProperties DEF recordForReview, TasksOK
  <2> QED
    BY <1>15, <2>1 DEF recordForReview, TasksOK
<1>16. CASE crash
  BY <1>16 DEF crash, TasksOK, Hook, HookSteps, Run, RunSteps, IdleHook, IdleRun
<1>17. CASE stripeStep
  BY <1>17 DEF stripeStep, TasksOK
<1> QED
  BY <1>1, <1>2, <1>3, <1>4, <1>5, <1>6, <1>7, <1>8, <1>9, <1>10, <1>11, <1>13, <1>14,
     <1>15, <1>16, <1>17
  DEF Next, hookStep, runStep, sweepStep

\* Every step keeps the types of what Stripe and ResellPortal hold.
LEMMA StripeStep == ASSUME IInv, Next PROVE StripeOK'
<1> USE DEF IInv, TypeOK
<1>1. ASSUME NEW h \in Hooks, emitEvent(h) PROVE StripeOK'
  <2>1. emits' \in [Events -> Nat]
    <3>1. emits \in [Events -> Nat] /\ emits' = [emits EXCEPT ![Event(h)] = @ + 1]
      BY <1>1 DEF emitEvent, StripeOK
    <3>2. ASSUME NEW e \in Events PROVE emits[e] + 1 \in Nat
      BY <3>1
    <3> QED
      BY <3>1, <3>2
  <2> QED
    BY <1>1, <2>1 DEF emitEvent, StripeOK, stripeVars
<1>2. ASSUME NEW r \in Runs, provisionCall(r) \/ terminateCall(r) PROVE StripeOK'
  BY <1>2 DEF provisionCall, terminateCall, StripeOK, stripeVars
<1>3. CASE stripeStep
  <2>1. UNCHANGED <<remote, emits, contested>>
    BY <1>3 DEF stripeStep
  <2>2. ASSUME NEW s \in Sessions, createCheckoutSession(s) PROVE StripeOK'
    BY <2>1, <2>2 DEF createCheckoutSession, StripeOK
  <2>3. ASSUME NEW s \in Sessions, completeCheckout(s) PROVE StripeOK'
    BY <2>1, <2>3 DEF completeCheckout, StripeOK, Events
  <2>4. ASSUME NEW s \in Sessions, endSubscription(s) PROVE StripeOK'
    BY <2>1, <2>4 DEF endSubscription, StripeOK, Events
  <2> QED
    BY <1>3, <2>2, <2>3, <2>4 DEF stripeStep
<1>4. CASE UNCHANGED <<stripeVars, remote, emits, contested>>
  BY <1>4 DEF stripeVars, StripeOK
<1>5. ASSUME NEW h \in Hooks, resolvePayableOrder(h) PROVE StripeOK'
  <2>1. hook \in [Hooks -> Hook] /\ contested \subseteq Orders \X Sessions
    BY DEF TasksOK, StripeOK
  <2>2. ASSUME NEW o \in Orders, TakeOrder(h, o) PROVE contested' \subseteq Orders \X Sessions
    <3>1. \A g \in Hooks : hook[g].pc # "idle" => hook[g].session \in Sessions
      BY DEF HooksKnow, HookOK
    <3>2. \A g \in Rivals(h, o) \cup {h} : hook[g].session \in Sessions
      BY <1>5, <3>1, OrderTaken DEF Rivals
    <3> QED
      BY <2>1, <2>2, <3>2 DEF TakeOrder
  <2>3. contested' \subseteq Orders \X Sessions
    BY <1>5, <2>1, <2>2, OrderTaken
  <2> QED
    BY <1>5, <2>3 DEF resolvePayableOrder, StripeOK, stripeVars
<1> QED
  BY <1>1, <1>2, <1>3, <1>4, <1>5
  DEF Next, hookStep, runStep, sweepStep, handle, upsertSubscription, resolvePayableOrder, createOrder,
    payOrder, findActiveOrder, cancelOrder, auditOrder, recordEvent, provisionRead, provisionClaim,
    provisionCommit, provisionFail, terminateRead, terminateClose, discoverStrandedOrders, reviewFails,
    recordForReview, crash

-----------------------------------------------------------------------------
(* The parts of the invariant.                                               *)

\* What no step takes back: payments, provisions and what was provided.
Kept ==
  \A o \in Orders :
    /\ payment[o] # NoSession => payment'[o] # NoSession
    /\ Done(o) => Done(o)'
    /\ Done(o) /\ status[o] # "ACTIVE" => status'[o] # "ACTIVE"
    /\ remote[o] # "none" => remote'[o] # "none"

\* A handler moves alone, and so does a run.
LEMMA OneMoves ==
  ASSUME IInv
  PROVE  /\ \A h \in Hooks : hookStep(h) => \A g \in Hooks \ {h} : hook'[g] = hook[g]
         /\ \A r \in Runs : runStep(r) => \A q \in Runs \ {r} : run'[q] = run[q]
<1>1. hook \in [Hooks -> Hook] /\ run \in [Runs -> Run]
  BY DEF IInv, TypeOK, TasksOK
<1>2. ASSUME NEW h \in Hooks, hookStep(h), NEW g \in Hooks \ {h} PROVE hook'[g] = hook[g]
  BY <1>1, <1>2 DEF hookStep, handle, upsertSubscription, resolvePayableOrder, TakeOrder, createOrder,
    payOrder, findActiveOrder, cancelOrder, auditOrder, recordEvent, emitEvent
<1>3. ASSUME NEW r \in Runs, runStep(r), NEW q \in Runs \ {r} PROVE run'[q] = run[q]
  BY <1>1, <1>3 DEF runStep, provisionRead, provisionClaim, provisionCall, provisionCommit,
    provisionFail, terminateRead, terminateCall, terminateClose
<1> QED
  BY <1>2, <1>3

\* Every step keeps what deliveries and runs may rely on.
LEMMA KeptStep == ASSUME IInv, Next PROVE Kept
<1>1. /\ status \in [Orders -> OrderStatus \cup {NoStatus}] /\ payment \in [Orders -> Sessions \cup {NoSession}]
      /\ provider \in [Orders -> {"none", "PROVISIONING", "ACTIVE", "TERMINATED"}]
      /\ remote \in [Orders -> {"none", "live", "terminated"}]
  BY DEF IInv, TypeOK, RowsOK, StripeOK
<1>2. HooksKnow /\ RunsKnow /\ OneProvisioner
  BY DEF IInv
<1>3. NoSession \notin Sessions
  BY FulfilmentConstants
<1>4. ASSUME NEW h \in Hooks, createOrder(h) PROVE Kept
  BY <1>1, <1>4 DEF createOrder, Kept, Done
<1>5. ASSUME NEW h \in Hooks, payOrder(h) PROVE Kept
  BY <1>1, <1>2, <1>3, <1>5, Machine DEF payOrder, Kept, Done, HooksKnow, HookOK
<1>6. ASSUME NEW h \in Hooks, cancelOrder(h) PROVE Kept
  BY <1>1, <1>2, <1>6, Machine DEF cancelOrder, Kept, Done
<1>7. ASSUME NEW r \in Runs, provisionClaim(r) PROVE Kept
  <2>1. CASE canTransition(run[r].was, "start_provisioning") /\ provider[run[r].order] = "none"
    BY <1>1, <1>7, <2>1 DEF provisionClaim, Kept, Done
  <2>2. CASE ~(canTransition(run[r].was, "start_provisioning") /\ provider[run[r].order] = "none")
    BY <1>7, <2>2 DEF provisionClaim, Kept, Done
  <2> QED
    BY <2>1, <2>2
<1>8. ASSUME NEW r \in Runs, provisionCall(r) \/ terminateCall(r) PROVE Kept
  BY <1>1, <1>8 DEF provisionCall, terminateCall, Kept, Done, dbVars
<1>9. ASSUME NEW r \in Runs, provisionCommit(r) PROVE Kept
  <2>1. ~Done(run[r].order)
    BY <1>2, <1>9 DEF provisionCommit, OneProvisioner, Working, Done
  <2> QED
    BY <1>1, <1>9, <2>1 DEF provisionCommit, Kept, Done
<1>10. ASSUME NEW r \in Runs, provisionFail(r) PROVE Kept
  BY <1>1, <1>10, Machine DEF provisionFail, Kept, Done
<1>11. ASSUME NEW r \in Runs, terminateClose(r) PROVE Kept
  <2>1. peekNextOrderStatus(run[r].was, "cancel") = NoStatus
    BY <1>2, <1>11, Machine DEF terminateClose, RunsKnow, RunOK
  <2> QED
    BY <1>1, <1>11, <2>1 DEF terminateClose, Kept, Done
<1>12. CASE UNCHANGED <<status, payment, provider, remote>>
  BY <1>12 DEF Kept, Done
<1> QED
  BY <1>4, <1>5, <1>6, <1>7, <1>8, <1>9, <1>10, <1>11, <1>12
  DEF Next, hookStep, runStep, sweepStep, handle, upsertSubscription, resolvePayableOrder,
    findActiveOrder, auditOrder, recordEvent, emitEvent, provisionRead, terminateRead,
    discoverStrandedOrders, reviewFails, recordForReview, crash, stripeStep, dbVars

\* What a delivery knows outlives the steps of others.
LEMMA HookStays ==
  ASSUME IInv, Kept, NEW h \in Hooks, hook'[h] = hook[h] PROVE HookOK(h)'
<1>1. HookOK(h) /\ hook[h].order \in Orders \cup {NoOrder}
  BY DEF IInv, TypeOK, TasksOK, HooksKnow, Hook
<1> QED
  BY <1>1 DEF HookOK, Kept

\* Every step keeps what each delivery knows.
LEMMA HooksStep == ASSUME IInv, Next PROVE HooksKnow'
<1> SUFFICES ASSUME NEW h \in Hooks PROVE HookOK(h)'
  BY DEF HooksKnow
<1>1. Kept /\ (hook'[h] = hook[h] => HookOK(h)')
  BY KeptStep, HookStays
<1>2. hook \in [Hooks -> Hook] /\ hook[h].order \in Orders \cup {NoOrder} /\ HookOK(h)
  BY DEF IInv, TypeOK, TasksOK, HooksKnow, Hook
<1>3. ASSUME NEW e \in events, handle(h, e) PROVE HookOK(h)'
  <2>1. e.kind \in {"completed", "subscription", "deleted"} /\ e.session \in Sessions
    BY DEF IInv, TypeOK, StripeOK, Events
  <2>2. hook'[h] = [pc |-> "mirror", kind |-> e.kind, session |-> e.session, order |-> NoOrder]
    BY <1>2, <1>3 DEF handle
  <2> QED
    BY <2>1, <2>2 DEF HookOK
<1>4. CASE upsertSubscription(h)
  <2>1. hook[h].kind \in {"none", "completed", "subscription", "deleted"}
    BY <1>2 DEF Hook
  <2>2. hook'[h] = [hook[h] EXCEPT !.pc =
          CASE hook[h].kind = "completed" -> "resolve" [] hook[h].kind = "deleted" -> "find"
            [] OTHER -> "record"]
    BY <1>2, <1>4 DEF upsertSubscription
  <2> QED
    BY <1>2, <1>4, <2>1, <2>2 DEF upsertSubscription, HookOK
<1>5. CASE resolvePayableOrder(h)
  <2>1. \/ hook' = [hook EXCEPT ![h].pc = "create"]
        \/ \E o \in Orders : hook' = [hook EXCEPT ![h].pc = "pay", ![h].order = o]
    BY <1>5, OrderTaken DEF TakeOrder
  <2>2. \/ hook'[h] = [hook[h] EXCEPT !.pc = "create"]
        \/ \E o \in Orders : hook'[h] = [hook[h] EXCEPT !.pc = "pay", !.order = o]
    BY <1>2, <2>1
  <2>3. hook[h] \in Hook /\ hook[h].pc = "resolve"
    BY <1>2, <1>5 DEF resolvePayableOrder
  <2> QED
    BY <1>2, <2>2, <2>3 DEF HookOK, Hook
<1>6. CASE createOrder(h)
  <2>1. hook[h].pc = "create" /\ \E o \in Orders : hook'[h] = [hook[h] EXCEPT !.pc = "pay", !.order = o]
    BY <1>2, <1>6 DEF createOrder
  <2> QED
    BY <1>2, <2>1 DEF HookOK, Hook
<1>7. CASE payOrder(h)
  <2>1. hook[h].pc = "pay" /\ hook[h].session \in Sessions /\ hook[h].order \in Orders
    BY <1>2, <1>7 DEF payOrder, HookOK
  <2>2. CASE hook' = [hook EXCEPT ![h] = IdleHook]
    BY <1>2, <2>2 DEF HookOK, IdleHook
  <2>3. CASE hook' = [hook EXCEPT ![h].pc = "audit"] /\ payment' = [payment EXCEPT ![hook[h].order] = hook[h].session]
    <3>1. hook'[h] = [hook[h] EXCEPT !.pc = "audit"]
      BY <1>2, <2>3
    <3>2. payment'[hook[h].order] # NoSession
      BY <2>1, <2>3, FulfilmentConstants DEF IInv, TypeOK, RowsOK
    <3> QED
      BY <1>2, <2>1, <3>1, <3>2 DEF HookOK, Hook
  <2> QED
    BY <1>7, <2>2, <2>3 DEF payOrder
<1>8. CASE findActiveOrder(h)
  <2> DEFINE active == {o \in Orders : status[o] = "ACTIVE"}
  <2>1. active # {} => Latest(active) \in active
    BY LatestIsOne
  <2>2. hook[h].pc = "find" /\
        hook'[h] = IF active = {} THEN [hook[h] EXCEPT !.pc = "record"]
                   ELSE [hook[h] EXCEPT !.pc = "cancel", !.order = Latest(active)]
    BY <1>2, <1>8 DEF findActiveOrder
  <2>3. active # {} => Latest(active) \in Orders /\ Done(Latest(active))
    BY <2>1 DEF IInv, ActiveIsFulfilled, Done
  <2> HIDE DEF active
  <2>4. UNCHANGED <<status, payment, provider>>
    BY <1>8 DEF findActiveOrder, dbVars
  <2>5. CASE active = {}
    <3>1. hook'[h] = [hook[h] EXCEPT !.pc = "record"] /\ hook[h].pc = "find"
      BY <2>2, <2>5
    <3>2. hook'[h].pc = "record" /\ hook'[h].kind = "deleted" /\ hook'[h].order = NoOrder
          /\ hook'[h].session \in Sessions
      BY <1>2, <3>1 DEF HookOK, Hook
    <3> QED
      BY <3>2 DEF HookOK
  <2>6. CASE active # {}
    <3>1. PICK o \in Orders : Done(o) /\ hook'[h] = [hook[h] EXCEPT !.pc = "cancel", !.order = o]
      BY <2>2, <2>3, <2>6
    <3>2. hook[h].pc = "find"
      BY <2>2
    <3>3. hook'[h].pc = "cancel" /\ hook'[h].kind = "deleted" /\ hook'[h].order = o
          /\ hook'[h].session \in Sessions
      BY <1>2, <3>1, <3>2 DEF HookOK, Hook
    <3>4. Done(o)'
      BY <2>4, <3>1 DEF Done
    <3> QED
      BY <3>3, <3>4 DEF HookOK
  <2> QED
    BY <2>5, <2>6
<1>9. CASE cancelOrder(h)
  <2>1. hook[h].pc = "cancel" /\ hook[h].order \in Orders /\ hook'[h] = [hook[h] EXCEPT !.pc = "audit"]
    BY <1>2, <1>9 DEF cancelOrder, HookOK
  <2>2. status'[hook[h].order] # "ACTIVE"
    BY <1>9, <2>1, Machine DEF cancelOrder, IInv, TypeOK, RowsOK
  <2> QED
    BY <1>1, <1>2, <2>1, <2>2 DEF HookOK, Hook, Kept
<1>10. CASE auditOrder(h)
  <2>1. hook[h].pc = "audit" /\ hook'[h] = [hook[h] EXCEPT !.pc = "record"] /\ UNCHANGED <<status, payment, provider>>
    BY <1>2, <1>10 DEF auditOrder
  <2> QED
    BY <1>2, <2>1 DEF HookOK, Hook, Done
<1>11. CASE recordEvent(h)
  <2>1. hook[h].pc = "record" /\ UNCHANGED <<status, payment, provider>>
        /\ (hook'[h] = IdleHook \/ (hook[h].kind # "subscription" /\ hook'[h] = [hook[h] EXCEPT !.pc = "emit"]))
    BY <1>2, <1>11 DEF recordEvent
  <2>2. CASE hook'[h] = IdleHook
    BY <2>2 DEF HookOK, IdleHook
  <2>3. CASE hook[h].kind # "subscription" /\ hook'[h] = [hook[h] EXCEPT !.pc = "emit"]
    BY <1>2, <2>1, <2>3 DEF HookOK, Hook, Done
  <2> QED
    BY <2>1, <2>2, <2>3
<1>12. CASE emitEvent(h) \/ crash
  <2>1. hook'[h] = IdleHook
    BY <1>2, <1>12 DEF emitEvent, crash
  <2> QED
    BY <2>1 DEF HookOK, IdleHook
<1>13. CASE \E g \in Hooks \ {h} : hookStep(g)
  BY <1>1, <1>13, OneMoves
<1>14. CASE UNCHANGED hook
  BY <1>1, <1>14
<1>15. (\E r \in Runs : runStep(r)) \/ sweepStep \/ stripeStep => UNCHANGED hook
  BY DEF runStep, provisionRead, provisionClaim, provisionCall, provisionCommit, provisionFail,
    terminateRead, terminateCall, terminateClose, sweepStep, discoverStrandedOrders, reviewFails,
    recordForReview, stripeStep
<1>16. CASE hookStep(h)
  BY <1>3, <1>4, <1>5, <1>6, <1>7, <1>8, <1>9, <1>10, <1>11, <1>12, <1>16 DEF hookStep
<1> QED
  BY <1>12, <1>13, <1>14, <1>15, <1>16 DEF Next

\* What a listener run knows outlives the steps of others.
LEMMA RunStays ==
  ASSUME IInv, Kept, NEW r \in Runs, run'[r] = run[r] PROVE RunOK(r)'
<1>1. RunOK(r)
  BY DEF IInv, RunsKnow
<1> QED
  BY <1>1 DEF RunOK, Kept, Terminating, Working

\* Every step keeps what each listener run knows.
LEMMA RunsStep == ASSUME IInv, Next PROVE RunsKnow'
<1> SUFFICES ASSUME NEW r \in Runs PROVE RunOK(r)'
  BY DEF RunsKnow
<1>1. Kept /\ (run'[r] = run[r] => RunOK(r)')
  BY KeptStep, RunStays
<1>2. run \in [Runs -> Run] /\ run[r] \in Run /\ RunOK(r)
  BY DEF IInv, TypeOK, TasksOK, RunsKnow
<1>3. ASSUME NEW h \in Hooks, emitEvent(h) PROVE RunOK(r)'
  <2>1. HookOK(h) /\ hook[h].order \in Orders \cup {NoOrder}
        /\ hook[h].kind \in {"none", "completed", "subscription", "deleted"}
    BY DEF IInv, HooksKnow, TypeOK, TasksOK, Hook
  <2>2. CASE run'[r] = run[r]
    BY <1>1, <2>2
  <2>3. CASE run'[r] # run[r]
    <3>1. hook[h].order # NoOrder /\ hook[h].pc = "emit" /\ UNCHANGED <<status, payment, provider>>
          /\ run'[r] = [IdleRun EXCEPT !.pc = IF hook[h].kind = "deleted" THEN "terminate" ELSE "provision",
                                       !.order = hook[h].order]
      BY <1>2, <1>3, <2>3 DEF emitEvent, dbVars
    <3>2. CASE hook[h].kind = "deleted"
      <4>1. run'[r].pc = "terminate" /\ run'[r].order = hook[h].order
        BY <3>1, <3>2 DEF IdleRun
      <4> QED
        BY <2>1, <3>1, <3>2, <4>1 DEF RunOK, HookOK, Terminating, Working, Done
    <3>3. CASE hook[h].kind = "completed"
      <4>1. run'[r].pc = "provision" /\ run'[r].order = hook[h].order /\ run'[r].tries = 0
        BY <3>1, <3>3 DEF IdleRun
      <4> QED
        BY <2>1, <3>1, <3>3, <4>1, FulfilmentConstants DEF RunOK, HookOK, Terminating, Working
    <3> QED
      BY <2>1, <3>1, <3>2, <3>3 DEF HookOK
  <2> QED
    BY <2>2, <2>3
<1>4. CASE run'[r] = IdleRun
  BY <1>4 DEF RunOK, IdleRun, Working, Terminating
<1>5. CASE provisionRead(r)
  <2>1. run[r].pc = "provision" /\ UNCHANGED <<status, payment, provider, remote>>
        /\ (run'[r] = IdleRun \/ run'[r] = [run[r] EXCEPT !.pc = "claim", !.was = status[run[r].order]])
    BY <1>2, <1>5 DEF provisionRead, dbVars
  <2> QED
    BY <1>2, <1>4, <2>1 DEF RunOK, Run, Working, Terminating
<1>6. CASE provisionClaim(r)
  <2>1. run[r].pc = "claim" /\ UNCHANGED <<payment, remote>>
        /\ (run'[r] = IdleRun \/ run'[r] = [run[r] EXCEPT !.pc = "call"])
    BY <1>2, <1>6 DEF provisionClaim
  <2> QED
    BY <1>2, <1>4, <2>1 DEF RunOK, Run, Working, Terminating
<1>7. CASE provisionCall(r)
  <2>1. run[r].pc = "call" /\ run[r].order \in Orders /\ run[r].tries \in Nat
        /\ run[r].tries < Attempts /\ payment[run[r].order] # NoSession /\ UNCHANGED payment
    BY <1>2, <1>7, FulfilmentConstants DEF provisionCall, RunOK, Run, Working, dbVars
  <2>2. PICK reached \in BOOLEAN, answered \in BOOLEAN :
          /\ answered => reached
          /\ remote' = [remote EXCEPT ![run[r].order] = IF reached /\ @ = "none" THEN "live" ELSE @]
          /\ run' = [run EXCEPT ![r] =
               IF answered THEN [@ EXCEPT !.pc = "commit"]
               ELSE [@ EXCEPT !.tries = run[r].tries + 1,
                              !.pc = IF run[r].tries + 1 = Attempts THEN "fail" ELSE "call"]]
    BY <1>7 DEF provisionCall
  <2>3. CASE answered
    <3>1. run'[r].pc = "commit" /\ run'[r].order = run[r].order
      BY <1>2, <2>2, <2>3 DEF Run
    <3>2. remote'[run[r].order] # "none"
      BY <2>1, <2>2, <2>3 DEF IInv, TypeOK, StripeOK
    <3> QED
      BY <2>1, <3>1, <3>2 DEF RunOK, Working, Terminating
  <2>4. CASE ~answered
    <3>1. run'[r] = [run[r] EXCEPT !.tries = run[r].tries + 1,
                       !.pc = IF run[r].tries + 1 = Attempts THEN "fail" ELSE "call"]
      BY <1>2, <2>2, <2>4
    <3>2. run'[r].tries = run[r].tries + 1 /\ run'[r].order = run[r].order
          /\ run'[r].pc = IF run[r].tries + 1 = Attempts THEN "fail" ELSE "call"
      BY <1>2, <3>1 DEF Run
    <3> QED
      BY <2>1, <3>2, FulfilmentConstants DEF RunOK, Working, Terminating
  <2> QED
    BY <2>3, <2>4
<1>8. CASE provisionCommit(r)
  <2>1. run[r].pc = "commit" /\ UNCHANGED <<payment, remote>>
        /\ (run'[r] = IdleRun \/ run'[r] = [run[r] EXCEPT !.pc = "fail"])
    BY <1>2, <1>8 DEF provisionCommit
  <2> QED
    BY <1>2, <1>4, <2>1 DEF RunOK, Run, Working, Terminating
<1>9. CASE provisionFail(r) \/ terminateClose(r) \/ crash
  BY <1>2, <1>4, <1>9 DEF provisionFail, terminateClose, crash
<1>10. CASE terminateRead(r)
  <2>1. run[r].pc = "terminate" /\ UNCHANGED <<status, provider>>
        /\ (run'[r] = IdleRun \/ run'[r] = [run[r] EXCEPT !.pc = "revoke", !.was = status[run[r].order]])
    BY <1>2, <1>10 DEF terminateRead, dbVars
  <2> QED
    BY <1>2, <1>4, <2>1 DEF RunOK, Run, Working, Terminating, Done
<1>11. CASE terminateCall(r)
  <2>1. run[r].pc = "revoke" /\ UNCHANGED <<status, provider>>
        /\ (run'[r] = IdleRun \/ run'[r] = [run[r] EXCEPT !.pc = "close"])
    BY <1>2, <1>11 DEF terminateCall, dbVars
  <2> QED
    BY <1>2, <1>4, <2>1 DEF RunOK, Run, Working, Terminating, Done
<1>12. CASE \E q \in Runs \ {r} : runStep(q)
  BY <1>1, <1>12, OneMoves
<1>13. CASE UNCHANGED run
  BY <1>1, <1>13
<1>14. CASE \E h \in Hooks : hookStep(h)
  BY <1>3, <1>13, <1>14 DEF hookStep, handle, upsertSubscription, resolvePayableOrder, createOrder,
    payOrder, findActiveOrder, cancelOrder, auditOrder, recordEvent
<1>15. sweepStep \/ stripeStep => UNCHANGED run
  BY DEF sweepStep, discoverStrandedOrders, reviewFails, recordForReview, stripeStep
<1>16. CASE runStep(r)
  BY <1>5, <1>6, <1>7, <1>8, <1>9, <1>10, <1>11, <1>16 DEF runStep
<1> QED
  BY <1>9, <1>12, <1>13, <1>14, <1>15, <1>16 DEF Next

\* The rows and services the next three lemmas are about.
LEMMA Shapes ==
  ASSUME IInv
  PROVE  /\ status \in [Orders -> OrderStatus \cup {NoStatus}] /\ payment \in [Orders -> Sessions \cup {NoSession}]
         /\ provider \in [Orders -> {"none", "PROVISIONING", "ACTIVE", "TERMINATED"}]
         /\ remote \in [Orders -> {"none", "live", "terminated"}]
         /\ run \in [Runs -> Run] /\ hook \in [Hooks -> Hook]
         /\ \A r \in Runs : RunOK(r)
         /\ \A h \in Hooks : HookOK(h)
BY DEF IInv, TypeOK, RowsOK, StripeOK, TasksOK, RunsKnow, HooksKnow

\* Every step keeps a single provisioner per order.
LEMMA ProvisionerStep == ASSUME IInv, Next PROVE OneProvisioner'
<1>0. \A q \in Runs : run[q].pc \in Working => run[q].order \in Orders
  BY Shapes DEF RunOK, Working
<1>1. OneProvisioner
  BY DEF IInv
<1>2. ASSUME NEW r \in Runs, provisionClaim(r) PROVE OneProvisioner'
  <2>1. run[r].pc = "claim" /\ run[r].order \in Orders
    BY <1>2, Shapes DEF provisionClaim, RunOK
  <2>2. CASE canTransition(run[r].was, "start_provisioning") /\ provider[run[r].order] = "none"
    <3>1. provider' = [provider EXCEPT ![run[r].order] = "PROVISIONING"] /\ run' = [run EXCEPT ![r].pc = "call"]
      BY <1>2, <2>2 DEF provisionClaim
    <3>2. ASSUME NEW q \in Runs \ {r} PROVE run'[q] = run[q]
      BY <3>1, Shapes
    <3>3. run'[r].pc = "call" /\ run'[r].order = run[r].order
      BY <3>1, Shapes DEF Run
    <3>4. ASSUME NEW q \in Runs \ {r}, run[q].pc \in Working
          PROVE  run[q].order \in Orders /\ run[q].order # run[r].order /\ provider'[run[q].order] = "PROVISIONING"
      <4>1. run[q].order \in Orders /\ provider[run[q].order] = "PROVISIONING"
        BY <1>1, <3>4, Shapes DEF OneProvisioner, RunOK, Working
      <4> QED
        BY <2>1, <2>2, <3>1, <4>1, Shapes
    <3>5. provider'[run[r].order] = "PROVISIONING"
      BY <2>1, <3>1, Shapes
    <3> QED
      BY <1>1, <3>2, <3>3, <3>4, <3>5 DEF OneProvisioner
  <2>3. CASE ~(canTransition(run[r].was, "start_provisioning") /\ provider[run[r].order] = "none")
    <3>1. UNCHANGED provider /\ run' = [run EXCEPT ![r] = IdleRun]
      BY <1>2, <2>3 DEF provisionClaim
    <3> QED
      BY <1>1, <3>1, Shapes DEF OneProvisioner, IdleRun, Working
  <2> QED
    BY <2>2, <2>3
<1>3. ASSUME NEW r \in Runs, provisionCommit(r) \/ provisionFail(r) PROVE OneProvisioner'
  <2>1. run[r].pc \in Working /\ run[r].order \in Orders
    BY <1>3, Shapes DEF provisionCommit, provisionFail, Working, RunOK
  <2>2. ASSUME NEW q \in Runs \ {r}, run[q].pc \in Working
        PROVE  provider'[run[q].order] = "PROVISIONING" /\ run[q].order # run[r].order
    <3>1. \A o \in Orders \ {run[r].order} : provider'[o] = provider[o]
      BY <1>3, Shapes DEF provisionCommit, provisionFail
    <3> QED
      BY <1>0, <1>1, <2>1, <2>2, <3>1 DEF OneProvisioner
  <2>3. ASSUME NEW q \in Runs \ {r} PROVE run'[q] = run[q]
    BY <1>3, <2>3, Shapes DEF provisionCommit, provisionFail
  <2>4. CASE run' = [run EXCEPT ![r] = IdleRun]
    <3>1. run'[r].pc \notin Working
      BY <2>4, Shapes DEF IdleRun, Working
    <3> QED
      BY <1>1, <2>2, <2>3, <3>1 DEF OneProvisioner
  <2>5. CASE run' = [run EXCEPT ![r].pc = "fail"] /\ UNCHANGED provider
    <3>1. run'[r].order = run[r].order
      BY <2>5, Shapes DEF Run
    <3> QED
      BY <1>1, <2>1, <2>2, <2>3, <2>5, <3>1 DEF OneProvisioner
  <2> QED
    BY <1>3, <2>4, <2>5 DEF provisionCommit, provisionFail
<1>4. ASSUME NEW r \in Runs, terminateClose(r) PROVE OneProvisioner'
  <2>1. Done(run[r].order) /\ run[r].order \in Orders
    BY <1>4, Shapes DEF terminateClose, RunOK, Terminating
  <2>2. ASSUME NEW q \in Runs, run[q].pc \in Working
        PROVE  provider'[run[q].order] = "PROVISIONING"
    <3>1. \A o \in Orders \ {run[r].order} : provider'[o] = provider[o]
      BY <1>4, Shapes DEF terminateClose
    <3>2. run[q].order \in Orders \ {run[r].order} /\ provider[run[q].order] = "PROVISIONING"
      BY <1>0, <1>1, <2>1, <2>2 DEF OneProvisioner, Done
    <3> QED
      BY <3>1, <3>2
  <2>3. run' = [run EXCEPT ![r] = IdleRun]
    BY <1>4 DEF terminateClose
  <2> QED
    BY <1>1, <2>2, <2>3, Shapes DEF OneProvisioner, IdleRun, Working
<1>5. ASSUME UNCHANGED provider, NEW r \in Runs, \A q \in Runs \ {r} : run'[q] = run[q],
             run'[r].pc \in Working => run[r].pc \in Working /\ run'[r].order = run[r].order
      PROVE  OneProvisioner'
  BY <1>1, <1>5 DEF OneProvisioner
<1>6. ASSUME NEW r \in Runs, provisionCall(r) PROVE OneProvisioner'
  <2>1. run[r].pc \in Working /\ UNCHANGED provider
    BY <1>6 DEF provisionCall, Working, dbVars
  <2>2. run'[r].order = run[r].order
    BY <1>6, Shapes DEF provisionCall, Run
  <2>3. \A q \in Runs \ {r} : run'[q] = run[q]
    BY <1>6, Shapes DEF provisionCall
  <2> QED
    BY <1>5, <2>1, <2>2, <2>3
<1>7. ASSUME NEW r \in Runs, provisionRead(r) \/ terminateRead(r) \/ terminateCall(r) PROVE OneProvisioner'
  <2>1. \A q \in Runs \ {r} : run'[q] = run[q]
    BY <1>7, OneMoves DEF runStep
  <2>2. UNCHANGED provider
    BY <1>7 DEF provisionRead, terminateRead, terminateCall, dbVars
  <2>3. run'[r].pc \notin Working
    <3>1. \/ run' = [run EXCEPT ![r] = IdleRun]
          \/ run' = [run EXCEPT ![r] = [@ EXCEPT !.pc = "close"]]
          \/ \E p \in {"claim", "revoke"} :
               run' = [run EXCEPT ![r] = [@ EXCEPT !.pc = p, !.was = status[run[r].order]]]
      BY <1>7 DEF provisionRead, terminateRead, terminateCall
    <3>2. run'[r].pc \in {"idle", "close", "claim", "revoke"}
      <4>1. run \in [Runs -> Run]
        BY Shapes
      <4>2. CASE run' = [run EXCEPT ![r] = IdleRun]
        BY <4>1, <4>2 DEF IdleRun
      <4>3. CASE run' = [run EXCEPT ![r] = [@ EXCEPT !.pc = "close"]]
        BY <4>1, <4>3 DEF Run
      <4>4. ASSUME NEW p \in {"claim", "revoke"},
                   run' = [run EXCEPT ![r] = [@ EXCEPT !.pc = p, !.was = status[run[r].order]]]
            PROVE  run'[r].pc = p
        BY <4>1, <4>4 DEF Run
      <4> QED
        BY <3>1, <4>2, <4>3, <4>4
    <3> QED
      BY <3>2 DEF Working
  <2> QED
    BY <1>5, <2>1, <2>2, <2>3
<1>8. ASSUME NEW h \in Hooks, emitEvent(h) PROVE OneProvisioner'
  <2>1. UNCHANGED provider
    BY <1>8 DEF emitEvent, dbVars
  <2>2. CASE UNCHANGED run
    BY <1>1, <2>1, <2>2 DEF OneProvisioner
  <2>3. ASSUME NEW r \in Runs, run' = [run EXCEPT ![r] =
          [IdleRun EXCEPT !.pc = IF hook[h].kind = "deleted" THEN "terminate" ELSE "provision",
                          !.order = hook[h].order]]
        PROVE  OneProvisioner'
    <3>1. run'[r].pc \notin Working
      BY <2>3, Shapes DEF Working, IdleRun
    <3>2. \A q \in Runs \ {r} : run'[q] = run[q]
      BY <2>3, Shapes
    <3> QED
      BY <1>5, <2>1, <3>1, <3>2
  <2> QED
    BY <1>8, <2>2, <2>3 DEF emitEvent
<1>9. CASE crash
  BY <1>9 DEF crash, OneProvisioner, IdleRun, Working
<1>10. CASE UNCHANGED <<provider, run>>
  BY <1>1, <1>10 DEF OneProvisioner
<1> QED
  BY <1>2, <1>3, <1>4, <1>6, <1>7, <1>8, <1>9, <1>10
  DEF Next, hookStep, runStep, sweepStep, handle, upsertSubscription, resolvePayableOrder, createOrder,
    payOrder, findActiveOrder, cancelOrder, auditOrder, recordEvent, discoverStrandedOrders,
    reviewFails, recordForReview, stripeStep, dbVars

\* Every step keeps each service backed by a payment of its own.
LEMMA BackedStep == ASSUME IInv, Next PROVE Backed'
<1>1. /\ \A o, p \in Orders : payment[o] # NoSession /\ payment[o] = payment[p] => o = p
      /\ \A o \in Orders : remote[o] # "none" => payment[o] # NoSession
      /\ \A o \in Orders : remote[o] = "terminated" => Done(o)
      /\ Kept
  BY KeptStep DEF IInv, Backed
<1>2. ASSUME NEW h \in Hooks, payOrder(h) PROVE Backed'
  <2>1. UNCHANGED <<provider, remote>>
    BY <1>2 DEF payOrder
  <2>2. \A o, p \in Orders : payment'[o] # NoSession /\ payment'[o] = payment'[p] => o = p
    <3>1. CASE \A p \in Orders \ {hook[h].order} : payment[p] # hook[h].session
      <4>1. hook[h].session \in Sessions
        BY <1>2, Shapes DEF payOrder, HookOK
      <4>2. payment' = [payment EXCEPT ![hook[h].order] = hook[h].session]
        BY <1>2, <3>1 DEF payOrder
      <4> QED
        BY <1>1, <3>1, <4>1, <4>2, Shapes
    <3>2. CASE \E p \in Orders \ {hook[h].order} : payment[p] = hook[h].session
      BY <1>1, <1>2, <3>2 DEF payOrder
    <3> QED
      BY <3>1, <3>2
  <2> QED
    BY <1>1, <2>1, <2>2 DEF Backed, Kept, Done
<1>3. ASSUME NEW r \in Runs, provisionCall(r) \/ terminateCall(r) PROVE Backed'
  <2>1. run[r].order \in Orders /\ UNCHANGED <<provider, payment>>
    BY <1>3, Shapes DEF provisionCall, terminateCall, RunOK, dbVars
  <2>2. CASE provisionCall(r)
    <3>1. payment[run[r].order] # NoSession
      BY <2>2, Shapes DEF provisionCall, RunOK, Working
    <3>2. PICK reached \in BOOLEAN :
            remote' = [remote EXCEPT ![run[r].order] = IF reached /\ @ = "none" THEN "live" ELSE @]
      BY <2>2 DEF provisionCall
    <3> QED
      BY <1>1, <2>1, <3>1, <3>2, Shapes DEF Backed, Done
  <2>3. CASE terminateCall(r)
    <3>1. Done(run[r].order)
      BY <2>3, Shapes DEF terminateCall, RunOK, Terminating
    <3>2. PICK reached \in BOOLEAN :
            remote' = [remote EXCEPT ![run[r].order] = IF reached /\ @ = "live" THEN "terminated" ELSE @]
      BY <2>3 DEF terminateCall
    <3> QED
      BY <1>1, <2>1, <3>1, <3>2, Shapes DEF Backed, Done
  <2> QED
    BY <1>3, <2>2, <2>3
<1>4. CASE UNCHANGED <<payment, remote>>
  BY <1>1, <1>4 DEF Backed, Kept
<1> QED
  BY <1>2, <1>3, <1>4
  DEF Next, hookStep, runStep, sweepStep, handle, upsertSubscription, resolvePayableOrder, createOrder,
    findActiveOrder, cancelOrder, auditOrder, recordEvent, emitEvent, provisionRead, provisionClaim,
    provisionCommit, provisionFail, terminateRead, terminateClose, discoverStrandedOrders,
    reviewFails, recordForReview, crash, stripeStep, dbVars

\* Every step keeps ACTIVE orders provisioned.
LEMMA FulfilledStep == ASSUME IInv, Next PROVE ActiveIsFulfilled'
<1>1. ActiveIsFulfilled /\ OneProvisioner /\ Backed /\ Kept
  BY KeptStep DEF IInv
<1>2. SUFFICES ASSUME NEW o \in Orders, status'[o] = "ACTIVE"
               PROVE  provider'[o] = "ACTIVE" /\ o \in provisioned' /\ remote'[o] = "live"
  BY DEF ActiveIsFulfilled
<1>3. ASSUME NEW r \in Runs, provisionCommit(r), run[r].order = o, o \notin provisioned
      PROVE  provider'[o] = "ACTIVE" /\ o \in provisioned' /\ remote'[o] = "live"
  <2>1. remote[o] # "none" /\ provider[o] = "PROVISIONING"
    BY <1>1, <1>3, Shapes DEF provisionCommit, RunOK, OneProvisioner, Working
  <2>2. remote[o] = "live"
    BY <1>1, <2>1, Shapes DEF Backed, Done
  <2>3. status[o] # "ACTIVE"
    BY <1>1, <2>1 DEF ActiveIsFulfilled
  <2>4. UNCHANGED remote /\ provider' = [provider EXCEPT ![o] = "ACTIVE"] /\ provisioned' = provisioned \cup {o}
    BY <1>2, <1>3, <2>3 DEF provisionCommit
  <2> QED
    BY <2>2, <2>4, Shapes
<1>4. CASE status[o] = "ACTIVE"
  <2>1. provider[o] = "ACTIVE" /\ o \in provisioned /\ remote[o] = "live"
    BY <1>1, <1>4 DEF ActiveIsFulfilled
  <2>2. ASSUME NEW r \in Runs, provisionClaim(r) \/ provisionFail(r) \/ terminateClose(r)
        PROVE  provider'[o] = provider[o] /\ UNCHANGED <<remote, provisioned>>
    <3>1. CASE provisionClaim(r)
      BY <2>1, <3>1, Shapes DEF provisionClaim
    <3>2. CASE provisionFail(r)
      <4>1. run[r].order # o
        BY <1>1, <2>1, <3>2 DEF provisionFail, OneProvisioner, Working
      <4> QED
        BY <3>2, <4>1, Shapes DEF provisionFail
    <3>3. CASE terminateClose(r)
      <4>1. run[r].order # o
        BY <1>4, <3>3, Shapes DEF terminateClose, RunOK, Terminating
      <4> QED
        BY <3>3, <4>1, Shapes DEF terminateClose
    <3> QED
      BY <2>2, <3>1, <3>2, <3>3
  <2>3. ASSUME NEW r \in Runs, provisionCall(r) \/ terminateCall(r)
        PROVE  remote'[o] = remote[o] /\ UNCHANGED <<provider, provisioned>>
    <3>1. CASE provisionCall(r)
      BY <2>1, <3>1, Shapes DEF provisionCall, dbVars
    <3>2. CASE terminateCall(r)
      <4>1. run[r].order # o
        BY <1>4, <3>2, Shapes DEF terminateCall, RunOK, Terminating
      <4> QED
        BY <3>2, <4>1, Shapes DEF terminateCall, dbVars
    <3> QED
      BY <2>3, <3>1, <3>2
  <2>4. ASSUME NEW r \in Runs, provisionCommit(r)
        PROVE  provider'[o] = provider[o] /\ remote' = remote /\ provisioned \subseteq provisioned'
    <3>1. run[r].order # o
      BY <1>1, <2>1, <2>4 DEF provisionCommit, OneProvisioner, Working
    <3> QED
      BY <2>4, <3>1, Shapes DEF provisionCommit
  <2>5. CASE UNCHANGED <<provider, remote, provisioned>>
    BY <2>1, <2>5
  <2> QED
    BY <2>1, <2>2, <2>3, <2>4, <2>5
    DEF Next, hookStep, runStep, sweepStep, handle, upsertSubscription, resolvePayableOrder, createOrder,
      payOrder, findActiveOrder, cancelOrder, auditOrder, recordEvent, emitEvent, provisionRead,
      terminateRead, discoverStrandedOrders, reviewFails, recordForReview, crash, stripeStep, dbVars
<1>5. CASE status[o] # "ACTIVE"
  <2>1. ASSUME NEW h \in Hooks, createOrder(h) \/ payOrder(h) \/ cancelOrder(h) PROVE FALSE
    BY <1>2, <1>5, <2>1, Shapes, Machine DEF createOrder, payOrder, cancelOrder
  <2>2. ASSUME NEW r \in Runs, provisionClaim(r) PROVE FALSE
    <3>1. canTransition(run[r].was, "start_provisioning") => run[r].was = "PAID"
      BY Machine DEF canTransition
    <3> QED
      BY <1>2, <1>5, <2>2, <3>1, Shapes, Machine DEF provisionClaim
  <2>3. ASSUME NEW r \in Runs, provisionFail(r) PROVE FALSE
    BY <1>2, <1>5, <2>3, Shapes, Machine DEF provisionFail
  <2>4. ASSUME NEW r \in Runs, terminateClose(r) PROVE FALSE
    <3>1. peekNextOrderStatus(run[r].was, "cancel") = NoStatus
      BY <2>4, Shapes, Machine DEF terminateClose, RunOK
    <3> QED
      BY <1>2, <1>5, <2>4, <3>1 DEF terminateClose
  <2>5. ASSUME NEW r \in Runs, provisionCommit(r) PROVE run[r].order = o /\ o \notin provisioned
    BY <1>2, <1>5, <2>5, Shapes DEF provisionCommit
  <2>6. CASE UNCHANGED status
    BY <1>2, <1>5, <2>6
  <2> QED
    BY <1>3, <2>1, <2>2, <2>3, <2>4, <2>5, <2>6
    DEF Next, hookStep, runStep, sweepStep, handle, upsertSubscription, resolvePayableOrder,
      findActiveOrder, auditOrder, recordEvent, emitEvent, provisionRead, provisionCall,
      terminateRead, terminateCall, discoverStrandedOrders, reviewFails, recordForReview, crash,
      stripeStep, dbVars
<1> QED
  BY <1>4, <1>5

\* Every step keeps each event announced at most once.
LEMMA AnnouncedStep == ASSUME IInv, Next PROVE Announced'
<1>1. /\ \A e \in Events : emits[e] <= 1 /\ (emits[e] = 1 => e \in recorded)
      /\ \A h \in Hooks : hook[h].pc = "emit" =>
           /\ Event(h) \in recorded /\ emits[Event(h)] = 0
           /\ \A g \in Hooks \ {h} : hook[g].pc = "emit" => Event(g) # Event(h)
  BY DEF IInv, Announced
<1>2. emits \in [Events -> Nat] /\ \A h \in Hooks : hook[h].pc # "idle" => Event(h) \in Events
  <2>1. ASSUME NEW h \in Hooks, hook[h].pc # "idle" PROVE Event(h) \in Events
    <3>1. hook[h].session \in Sessions /\ hook[h].kind \in {"completed", "subscription", "deleted"}
      BY <2>1, Shapes DEF HookOK, Hook
    <3> QED
      BY <3>1 DEF Event, Events
  <2> QED
    BY <2>1 DEF IInv, TypeOK, StripeOK
<1>3. ASSUME UNCHANGED emits, recorded \subseteq recorded', NEW h \in Hooks, hook'[h].pc # "emit",
             \A g \in Hooks \ {h} : hook'[g] = hook[g]
      PROVE  Announced'
  <2>1. \A g \in Hooks \ {h} : Event(g)' = Event(g)
    BY <1>3 DEF Event
  <2>2. \A g \in Hooks : hook'[g].pc = "emit" => g # h /\ hook[g].pc = "emit"
    BY <1>3
  <2>3. \A e \in Events : emits'[e] <= 1 /\ (emits'[e] = 1 => e \in recorded')
    BY <1>1, <1>3
  <2>4. ASSUME NEW g \in Hooks, hook'[g].pc = "emit"
        PROVE  /\ Event(g)' \in recorded' /\ emits'[Event(g)'] = 0
               /\ \A k \in Hooks \ {g} : hook'[k].pc = "emit" => Event(k)' # Event(g)'
    BY <1>1, <1>3, <2>1, <2>2, <2>4
  <2> QED
    BY <2>3, <2>4 DEF Announced
<1>4. ASSUME NEW h \in Hooks, recordEvent(h) PROVE Announced'
  <2>1. /\ hook[h].pc = "record" /\ Event(h) \in Events /\ recorded' = recorded \cup {Event(h)}
        /\ UNCHANGED emits /\ \A g \in Hooks \ {h} : hook'[g] = hook[g]
    BY <1>2, <1>4, Shapes DEF recordEvent
  <2>2. CASE hook'[h] = IdleHook
    BY <1>3, <2>1, <2>2 DEF IdleHook
  <2>3. CASE Event(h) \notin recorded /\ hook'[h] = [hook[h] EXCEPT !.pc = "emit"]
    <3>1. hook'[h].kind = hook[h].kind /\ hook'[h].session = hook[h].session
      BY <2>3, Shapes DEF Hook
    <3>2. Event(h)' = Event(h) /\ \A g \in Hooks \ {h} : Event(g)' = Event(g)
      BY <2>1, <3>1 DEF Event
    <3>3. emits[Event(h)] = 0
      BY <1>1, <1>2, <2>1, <2>3
    <3>4. \A g \in Hooks \ {h} : hook[g].pc = "emit" => Event(g) # Event(h)
      BY <1>1, <2>3
    <3>5. \A g \in Hooks \ {h} : hook'[g].pc = "emit" <=> hook[g].pc = "emit"
      BY <2>1
    <3> HIDE DEF Event
    <3>6. \A e \in Events : emits'[e] <= 1 /\ (emits'[e] = 1 => e \in recorded')
      BY <1>1, <2>1
    <3>7. ASSUME NEW g \in Hooks, hook'[g].pc = "emit"
          PROVE  /\ Event(g)' \in recorded' /\ emits'[Event(g)'] = 0
                 /\ \A k \in Hooks \ {g} : hook'[k].pc = "emit" => Event(k)' # Event(g)'
      <4>1. CASE g = h
        BY <2>1, <3>2, <3>3, <3>4, <3>5, <4>1
      <4>2. CASE g # h
        BY <1>1, <2>1, <3>2, <3>4, <3>5, <3>7, <4>2
      <4> QED
        BY <4>1, <4>2
    <3> QED
      BY <3>6, <3>7 DEF Announced
  <2> QED
    BY <1>4, <2>2, <2>3, Shapes DEF recordEvent
<1>5. ASSUME NEW h \in Hooks, emitEvent(h) PROVE Announced'
  <2>1. /\ hook[h].pc = "emit" /\ emits' = [emits EXCEPT ![Event(h)] = @ + 1] /\ UNCHANGED recorded
        /\ hook'[h].pc = "idle" /\ \A g \in Hooks \ {h} : hook'[g] = hook[g]
    BY <1>5, Shapes DEF emitEvent, IdleHook, dbVars
  <2>2. Event(h) \in Events /\ emits[Event(h)] = 0 /\ Event(h) \in recorded
    BY <1>1, <1>2, <2>1
  <2>3. \A g \in Hooks \ {h} : Event(g)' = Event(g)
    BY <2>1 DEF Event
  <2>4. ASSUME NEW e \in Events PROVE emits'[e] = IF e = Event(h) THEN 1 ELSE emits[e]
    BY <1>2, <2>1, <2>2
  <2>5. \A e \in Events : emits'[e] <= 1 /\ (emits'[e] = 1 => e \in recorded')
    BY <1>1, <2>1, <2>2, <2>4
  <2>6. ASSUME NEW g \in Hooks, hook'[g].pc = "emit"
        PROVE  /\ Event(g)' \in recorded' /\ emits'[Event(g)'] = 0
               /\ \A k \in Hooks \ {g} : hook'[k].pc = "emit" => Event(k)' # Event(g)'
    <3>1. g # h /\ hook[g].pc = "emit"
      BY <2>1, <2>6
    <3>2. Event(g) \in Events /\ Event(g) # Event(h) /\ emits[Event(g)] = 0 /\ Event(g) \in recorded
      BY <1>1, <1>2, <2>1, <3>1
    <3>3. \A k \in Hooks \ {g} : hook'[k].pc = "emit" => k # h /\ hook[k].pc = "emit"
      BY <2>1
    <3> QED
      BY <1>1, <2>1, <2>3, <2>4, <3>1, <3>2, <3>3
  <2> QED
    BY <2>5, <2>6 DEF Announced
<1>6. ASSUME NEW h \in Hooks,
             upsertSubscription(h) \/ createOrder(h) \/ payOrder(h) \/ cancelOrder(h) \/ auditOrder(h)
      PROVE  Announced'
  <2>1. UNCHANGED <<emits, recorded>>
    BY <1>6 DEF upsertSubscription, createOrder, payOrder, cancelOrder, auditOrder
  <2>2. \/ \E p \in {"resolve", "find", "record", "audit"} : hook' = [hook EXCEPT ![h].pc = p]
        \/ \E o \in Orders : hook' = [hook EXCEPT ![h].pc = "pay", ![h].order = o]
        \/ hook' = [hook EXCEPT ![h] = IdleHook]
    BY <1>6 DEF upsertSubscription, createOrder, payOrder, cancelOrder, auditOrder
  <2>3. hook'[h].pc # "emit"
    BY <2>2, Shapes DEF Hook, IdleHook
  <2>4. \A g \in Hooks \ {h} : hook'[g] = hook[g]
    BY <2>2, Shapes
  <2> QED
    BY <1>3, <2>1, <2>3, <2>4
<1>7. ASSUME NEW h \in Hooks,
             (\E e \in events : handle(h, e)) \/ resolvePayableOrder(h) \/ findActiveOrder(h)
      PROVE  Announced'
  <2>1. UNCHANGED <<emits, recorded>>
    BY <1>7 DEF handle, resolvePayableOrder, findActiveOrder, dbVars
  <2>2. \A g \in Hooks \ {h} : hook'[g] = hook[g]
    BY <1>7, OneMoves DEF hookStep
  <2>3. hook'[h].pc # "emit"
    <3>1. ASSUME NEW e \in events, handle(h, e) PROVE hook'[h].pc # "emit"
      BY <3>1, Shapes DEF handle
    <3>2. CASE resolvePayableOrder(h)
      <4>1. \/ hook' = [hook EXCEPT ![h].pc = "create"]
            \/ \E o : hook' = [hook EXCEPT ![h].pc = "pay", ![h].order = o]
        BY <3>2, OrderTaken DEF TakeOrder
      <4> QED
        BY <4>1, Shapes DEF Hook
    <3>3. CASE findActiveOrder(h)
      <4>1. \/ hook' = [hook EXCEPT ![h] = [@ EXCEPT !.pc = "record"]]
            \/ \E o : hook' = [hook EXCEPT ![h] = [@ EXCEPT !.pc = "cancel", !.order = o]]
        BY <3>3 DEF findActiveOrder
      <4> QED
        BY <4>1, Shapes DEF Hook
    <3> QED
      BY <1>7, <3>1, <3>2, <3>3
  <2> QED
    BY <1>3, <2>1, <2>2, <2>3
<1>8. CASE crash
  BY <1>1, <1>8 DEF crash, Announced, Event, IdleHook, dbVars
<1>9. CASE UNCHANGED <<emits, recorded, hook>>
  BY <1>1, <1>9 DEF Announced, Event
<1> QED
  BY <1>4, <1>5, <1>6, <1>7, <1>8, <1>9
  DEF Next, hookStep, runStep, sweepStep, provisionRead, provisionClaim, provisionCall,
    provisionCommit, provisionFail, terminateRead, terminateCall, terminateClose,
    discoverStrandedOrders, reviewFails, recordForReview, stripeStep, dbVars

-----------------------------------------------------------------------------
(* What a delivery and its order agree on.                                   *)

\* That two deliveries met at an order is never forgotten.
LEMMA ContestedStays == ASSUME Next PROVE contested \subseteq contested'
<1>1. ASSUME NEW h \in Hooks, resolvePayableOrder(h) PROVE contested \subseteq contested'
  BY <1>1, OrderTaken DEF TakeOrder
<1> QED
  BY <1>1 DEF Next, hookStep, runStep, sweepStep, handle, upsertSubscription, createOrder, payOrder,
    findActiveOrder, cancelOrder, auditOrder, recordEvent, emitEvent, provisionRead, provisionClaim,
    provisionCall, provisionCommit, provisionFail, terminateRead, terminateCall, terminateClose,
    discoverStrandedOrders, reviewFails, recordForReview, crash, stripeStep

\* How the status of an order changes.
LEMMA StatusChanges ==
  ASSUME IInv, RowsOrderly, Next, NEW o \in Orders, status'[o] # status[o]
  PROVE  \/ status[o] = NoStatus /\ status'[o] = "PENDING"
         \/ \E g \in Hooks : payOrder(g) /\ hook[g].order = o /\ status'[o] = "PAID"
         \/ \E g \in Hooks : cancelOrder(g) /\ hook[g].order = o /\ Done(o) /\ status'[o] = "CANCELLED"
         \/ status[o] = "PAID" /\ provider[o] = "none" /\ status'[o] = "PROVISIONING"
         \/ provider[o] = "PROVISIONING" /\ status'[o] \in {"ACTIVE", "FAILED"}
<1>1. OneProvisioner
  BY DEF IInv
<1>2. ASSUME NEW h \in Hooks, createOrder(h)
      PROVE  status[o] = NoStatus /\ status'[o] = "PENDING"
  BY <1>2, Shapes DEF createOrder
<1>3. ASSUME NEW h \in Hooks, payOrder(h) PROVE hook[h].order = o /\ status'[o] = "PAID"
  BY <1>3, Shapes, Machine DEF payOrder
<1>4. ASSUME NEW h \in Hooks, cancelOrder(h)
      PROVE  hook[h].order = o /\ Done(o) /\ status'[o] = "CANCELLED"
  <2>1. hook[h].order = o /\ status'[o] = "CANCELLED"
    BY <1>4, Shapes, Machine DEF cancelOrder
  <2>2. o # NoOrder
    BY DEF Orders, NoOrder
  <2> QED
    BY <1>4, <2>1, <2>2, Shapes DEF cancelOrder, HookOK
<1>5. ASSUME NEW r \in Runs, provisionClaim(r)
      PROVE  status[o] = "PAID" /\ provider[o] = "none" /\ status'[o] = "PROVISIONING"
  <2>1. provider[run[r].order] = "none" /\ canTransition(run[r].was, "start_provisioning")
    BY <1>5 DEF provisionClaim
  <2>2. run[r].was = "PAID"
    BY <2>1, Machine DEF canTransition
  <2>3. run[r].order = o /\ status'[o] = "PROVISIONING"
    BY <1>5, <2>1, <2>2, Shapes, Machine DEF provisionClaim
  <2>4. payment[o] # NoSession
    BY <1>5, <2>3, Shapes DEF provisionClaim, RunOK
  <2> QED
    BY <2>1, <2>3, <2>4 DEF RowsOrderly
<1>6. ASSUME NEW r \in Runs, provisionCommit(r) \/ provisionFail(r)
      PROVE  provider[o] = "PROVISIONING" /\ status'[o] \in {"ACTIVE", "FAILED"}
  <2>1. run[r].order = o /\ status'[o] \in {"ACTIVE", "FAILED"}
    BY <1>6, Shapes, Machine DEF provisionCommit, provisionFail
  <2> QED
    BY <1>1, <1>6, <2>1 DEF provisionCommit, provisionFail, OneProvisioner, Working
<1>7. ASSUME NEW r \in Runs, terminateClose(r) PROVE UNCHANGED status
  BY <1>7, Shapes, Machine DEF terminateClose, RunOK
<1>8. ~ UNCHANGED status
  OBVIOUS
<1> QED
  BY <1>2, <1>3, <1>4, <1>5, <1>6, <1>7, <1>8
  DEF Next, hookStep, runStep, sweepStep, handle, upsertSubscription, resolvePayableOrder,
    findActiveOrder, auditOrder, recordEvent, emitEvent, provisionRead, provisionCall,
    terminateRead, terminateCall, discoverStrandedOrders, reviewFails, recordForReview, crash,
    stripeStep, dbVars

\* Only the delivery of a payment writes one.
LEMMA PaymentChanges ==
  ASSUME IInv, Next, NEW o \in Orders, payment'[o] # payment[o]
  PROVE  \E g \in Hooks : payOrder(g) /\ hook[g].order = o /\ payment'[o] = hook[g].session
<1>1. ASSUME NEW g \in Hooks, payOrder(g) PROVE hook[g].order = o /\ payment'[o] = hook[g].session
  BY <1>1, Shapes DEF payOrder
<1>2. ~ UNCHANGED payment
  OBVIOUS
<1> QED
  BY <1>1, <1>2
  DEF Next, hookStep, runStep, sweepStep, handle, upsertSubscription, resolvePayableOrder, createOrder,
    findActiveOrder, cancelOrder, auditOrder, recordEvent, emitEvent, provisionRead, provisionClaim,
    provisionCall, provisionCommit, provisionFail, terminateRead, terminateCall, terminateClose,
    discoverStrandedOrders, reviewFails, recordForReview, crash, stripeStep, dbVars

\* Which step brings a delivery to where it writes its order.
LEMMA Enters ==
  ASSUME IInv, Next, NEW h \in Hooks, hook'[h] # hook[h]
  PROVE  /\ hook'[h].pc = "pay" => resolvePayableOrder(h) \/ createOrder(h)
         /\ hook'[h].pc = "cancel" => findActiveOrder(h)
         /\ hook'[h].kind = "completed" /\ hook'[h].pc \in {"audit", "record"}
              => payOrder(h) \/ auditOrder(h)
<1>0. hook \in [Hooks -> Hook] /\ HookOK(h)
  BY Shapes
<1>1. CASE crash
  BY <1>1 DEF crash, IdleHook
<1>2. CASE hookStep(h)
  <2>1. ASSUME NEW e \in events, handle(h, e) PROVE hook'[h].pc = "mirror"
    BY <1>0, <2>1 DEF handle
  <2>2. CASE upsertSubscription(h)
    <3>1. hook[h].kind \in {"none", "completed", "subscription", "deleted"}
      BY <1>0 DEF Hook
    <3>2. \E p \in {"resolve", "find", "record"} : hook' = [hook EXCEPT ![h].pc = p]
                                                   /\ (p = "record" => hook[h].kind # "completed")
      BY <2>2, <3>1 DEF upsertSubscription
    <3>3. hook'[h].kind = hook[h].kind /\ hook'[h].pc \in {"resolve", "find", "record"}
          /\ (hook'[h].pc = "record" => hook[h].kind # "completed")
      BY <1>0, <3>2 DEF Hook
    <3> QED
      BY <3>3
  <2>3. CASE resolvePayableOrder(h)
    <3>1. \/ hook' = [hook EXCEPT ![h].pc = "create"]
          \/ \E o \in Orders : hook' = [hook EXCEPT ![h].pc = "pay", ![h].order = o]
      BY <2>3, OrderTaken DEF TakeOrder
    <3>2. hook'[h].pc \in {"create", "pay"}
      BY <1>0, <3>1 DEF Hook
    <3> QED
      BY <2>3, <3>2
  <2>4. CASE createOrder(h)
    <3>1. hook'[h].pc = "pay"
      BY <1>0, <2>4 DEF createOrder, Hook
    <3> QED
      BY <2>4, <3>1
  <2>5. CASE findActiveOrder(h)
    <3>1. \/ hook'[h] = [hook[h] EXCEPT !.pc = "record"]
          \/ \E o : hook'[h] = [hook[h] EXCEPT !.pc = "cancel", !.order = o]
      BY <1>0, <2>5 DEF findActiveOrder
    <3>2. hook[h].kind = "deleted"
      BY <1>0, <2>5 DEF findActiveOrder, HookOK
    <3>3. hook'[h].kind = "deleted" /\ hook'[h].pc \in {"record", "cancel"}
      BY <1>0, <3>1, <3>2 DEF Hook
    <3> QED
      BY <2>5, <3>3
  <2>6. CASE cancelOrder(h)
    <3>1. hook' = [hook EXCEPT ![h].pc = "audit"] /\ hook[h].kind = "deleted"
      BY <1>0, <2>6 DEF cancelOrder, HookOK
    <3>2. hook'[h].pc = "audit" /\ hook'[h].kind = "deleted"
      BY <1>0, <3>1 DEF Hook
    <3> QED
      BY <3>2
  <2>7. CASE payOrder(h)
    <3>1. hook' = [hook EXCEPT ![h].pc = "audit"] \/ hook' = [hook EXCEPT ![h] = IdleHook]
      BY <2>7 DEF payOrder
    <3>2. hook'[h].pc \in {"audit", "idle"}
      BY <1>0, <3>1 DEF Hook, IdleHook
    <3> QED
      BY <2>7, <3>2
  <2>8. CASE auditOrder(h)
    <3>1. hook' = [hook EXCEPT ![h].pc = "record"]
      BY <2>8 DEF auditOrder
    <3>2. hook'[h].pc = "record"
      BY <1>0, <3>1 DEF Hook
    <3> QED
      BY <2>8, <3>2
  <2>9. CASE recordEvent(h)
    <3>1. hook'[h] = IdleHook \/ hook'[h] = [hook[h] EXCEPT !.pc = "emit"]
      BY <1>0, <2>9 DEF recordEvent
    <3>2. hook'[h].pc \in {"idle", "emit"}
      BY <1>0, <3>1 DEF IdleHook, Hook
    <3> QED
      BY <3>2
  <2>10. CASE emitEvent(h)
    <3>1. hook'[h].pc = "idle"
      BY <1>0, <2>10 DEF emitEvent, IdleHook
    <3> QED
      BY <3>1
  <2> QED
    BY <1>2, <2>1, <2>2, <2>3, <2>4, <2>5, <2>6, <2>7, <2>8, <2>9, <2>10 DEF hookStep
<1>3. ASSUME NEW g \in Hooks \ {h}, hookStep(g) PROVE FALSE
  BY <1>3, OneMoves
<1>4. (\E r \in Runs : runStep(r)) \/ sweepStep \/ stripeStep => UNCHANGED hook
  BY DEF runStep, provisionRead, provisionClaim, provisionCall, provisionCommit, provisionFail,
    terminateRead, terminateCall, terminateClose, sweepStep, discoverStrandedOrders, reviewFails,
    recordForReview, stripeStep
<1> QED
  BY <1>1, <1>2, <1>3, <1>4 DEF Next

\* Every change of a status is one of the machine's, or the order was contested.
LEMMA ChangesAreEdges ==
  ASSUME IInv, Orderly, Next, NEW o \in Orders, status'[o] # status[o]
  PROVE  \/ status[o] = NoStatus /\ status'[o] = "PENDING"
         \/ Edge(status[o], status'[o])
         \/ \E s \in Sessions : <<o, s>> \in contested
<1>1. RowsOrderly /\ \A h \in Hooks : PayOrderly(h) /\ CancelOrderly(h)
  BY DEF Orderly, HooksOrderly
<1>2. /\ Edge("PENDING", "PAID") /\ Edge("PAID", "PROVISIONING") /\ Edge("PROVISIONING", "ACTIVE")
      /\ Edge("ACTIVE", "CANCELLED") /\ Edge("PROVISIONING", "FAILED")
  BY Machine DEF Edge, OrderTransition
<1>3. contested \subseteq Orders \X Sessions
  BY DEF IInv, TypeOK, StripeOK
<1>4. ASSUME NEW g \in Hooks, payOrder(g), hook[g].order = o, status'[o] = "PAID"
      PROVE  Edge(status[o], status'[o]) \/ Contested(o)
  <2>1. status[o] = "PENDING" \/ <<o, hook[g].session>> \in contested
    BY <1>1, <1>4 DEF payOrder, PayOrderly
  <2> QED
    BY <1>2, <1>3, <1>4, <2>1 DEF Contested
<1>5. ASSUME NEW g \in Hooks, cancelOrder(g), hook[g].order = o, status'[o] = "CANCELLED"
      PROVE  Edge(status[o], status'[o]) \/ Contested(o)
  <2>1. status[o] \in {"ACTIVE", "CANCELLED"} \/ Contested(o)
    BY <1>1, <1>5 DEF cancelOrder, CancelOrderly
  <2> QED
    BY <1>2, <1>5, <2>1
<1>6. CASE provider[o] = "PROVISIONING" /\ status'[o] \in {"ACTIVE", "FAILED"}
  BY <1>1, <1>2, <1>6 DEF RowsOrderly, Contested
<1>7. CASE status[o] = "PAID" /\ status'[o] = "PROVISIONING"
  BY <1>2, <1>7
<1> QED
  BY <1>1, <1>4, <1>5, <1>6, <1>7, StatusChanges DEF Contested

\* A status stays what payment and provider row say.
LEMMA RowsOrderlyStep == ASSUME IInv, Orderly, Next PROVE RowsOrderly'
<1>1. RowsOrderly /\ OneProvisioner /\ \A h \in Hooks : PayOrderly(h)
  BY DEF IInv, Orderly, HooksOrderly
<1>2. \A o \in Orders : Contested(o) => Contested(o)'
  BY ContestedStays DEF Contested
<1>3. ASSUME NEW h \in Hooks, createOrder(h) PROVE RowsOrderly'
  BY <1>1, <1>2, <1>3, Shapes DEF createOrder, RowsOrderly, NoStatus
<1>4. ASSUME NEW h \in Hooks, payOrder(h) PROVE RowsOrderly'
  <2>1. hook[h].order \in Orders /\ hook[h].session \in Sessions /\ UNCHANGED provider
    BY <1>4, Shapes DEF payOrder, HookOK
  <2>2. CASE UNCHANGED <<status, payment>>
    BY <1>1, <1>2, <2>1, <2>2 DEF RowsOrderly
  <2>3. CASE /\ status' = [status EXCEPT ![hook[h].order] = "PAID"]
             /\ payment' = [payment EXCEPT ![hook[h].order] = hook[h].session]
    <3>1. PICK o \in Orders : o = hook[h].order
      BY <2>1
    <3>2. status[o] = "PENDING" \/ Contested(o)
      BY <1>1, <1>4, <2>1, <3>1 DEF payOrder, PayOrderly, Contested
    <3>3. provider[o] = "PROVISIONING" => Contested(o)'
      BY <1>1, <1>2, <3>2 DEF RowsOrderly
    <3>4. status' = [status EXCEPT ![o] = "PAID"] /\ \E s : payment' = [payment EXCEPT ![o] = s]
      BY <2>3, <3>1
    <3> QED
      BY <1>1, <1>2, <2>1, <3>3, <3>4, Shapes DEF RowsOrderly
  <2> QED
    BY <1>4, <2>2, <2>3, Machine DEF payOrder
<1>5. ASSUME NEW h \in Hooks, cancelOrder(h) PROVE RowsOrderly'
  <2>1. hook[h].order \in Orders /\ UNCHANGED <<provider, payment>>
        /\ status' = [status EXCEPT ![hook[h].order] = "CANCELLED"]
    BY <1>5, Shapes, Machine DEF cancelOrder, HookOK
  <2>2. provider[hook[h].order] \in {"ACTIVE", "TERMINATED"}
    <3>1. hook[h].kind = "deleted" /\ hook[h].order # NoOrder
      BY <1>5, <2>1, Shapes DEF cancelOrder, HookOK, Orders, NoOrder
    <3> QED
      BY <1>5, <3>1, Shapes DEF cancelOrder, HookOK, Done
  <2> QED
    BY <1>1, <1>2, <2>1, <2>2, Shapes DEF RowsOrderly
<1>6. ASSUME NEW r \in Runs, provisionClaim(r) PROVE RowsOrderly'
  <2>1. run[r].order \in Orders /\ UNCHANGED payment
    BY <1>6, Shapes DEF provisionClaim, RunOK
  <2>2. canTransition(run[r].was, "start_provisioning") => run[r].was = "PAID"
    BY Machine DEF canTransition
  <2>3. \/ UNCHANGED <<status, provider>>
        \/ /\ status' = [status EXCEPT ![run[r].order] = "PROVISIONING"]
           /\ provider' = [provider EXCEPT ![run[r].order] = "PROVISIONING"]
    BY <1>6, <2>2, Machine DEF provisionClaim
  <2> QED
    BY <1>1, <1>2, <2>1, <2>3, Shapes DEF RowsOrderly
<1>7. ASSUME NEW r \in Runs, provisionCommit(r) \/ provisionFail(r) PROVE RowsOrderly'
  <2>1. run[r].order \in Orders /\ UNCHANGED payment
    BY <1>7, Shapes DEF provisionCommit, provisionFail, RunOK
  <2>2. \/ UNCHANGED <<status, provider>>
        \/ \E s \in {"ACTIVE", "FAILED"}, p \in {"ACTIVE", "TERMINATED"} :
             /\ status' = [status EXCEPT ![run[r].order] = s]
             /\ provider' = [provider EXCEPT ![run[r].order] = p]
    BY <1>7, Machine DEF provisionCommit, provisionFail
  <2> QED
    BY <1>1, <1>2, <2>1, <2>2, Shapes DEF RowsOrderly
<1>8. ASSUME NEW r \in Runs, terminateClose(r) PROVE RowsOrderly'
  <2>1. run[r].order \in Orders /\ UNCHANGED <<payment, status>> /\ Done(run[r].order)
        /\ (UNCHANGED provider \/ provider' = [provider EXCEPT ![run[r].order] = "TERMINATED"])
    BY <1>8, Shapes, Machine DEF terminateClose, RunOK, Terminating
  <2> QED
    BY <1>1, <1>2, <2>1, Shapes DEF RowsOrderly, Done
<1>9. CASE UNCHANGED <<status, payment, provider>>
  BY <1>1, <1>2, <1>9 DEF RowsOrderly
<1> QED
  BY <1>3, <1>4, <1>5, <1>6, <1>7, <1>8, <1>9
  DEF Next, hookStep, runStep, sweepStep, handle, upsertSubscription, resolvePayableOrder,
    findActiveOrder, auditOrder, recordEvent, emitEvent, provisionRead, provisionCall,
    terminateRead, terminateCall, discoverStrandedOrders, reviewFails, recordForReview, crash,
    stripeStep, dbVars

\* What a delivery about to pay has read of its order stays true, unless it meets another.
LEMMA PayOrderlyStep == ASSUME IInv, Orderly, Next, NEW h \in Hooks PROVE PayOrderly(h)'
<1>1. RowsOrderly /\ \A g \in Hooks : PayOrderly(g) /\ HookOK(g)
  BY Shapes DEF Orderly, HooksOrderly
<1>2. hook \in [Hooks -> Hook] /\ contested \subseteq contested'
  BY Shapes, ContestedStays
<1>3. SUFFICES ASSUME hook'[h].pc = "pay" PROVE PayOrderly(h)'
  BY DEF PayOrderly
<1>4. CASE hook'[h] = hook[h]
  <2> DEFINE o == hook[h].order
             s == hook[h].session
  <2>1. /\ hook[h].pc = "pay" /\ o \in Orders /\ hook'[h].order = o /\ hook'[h].session = s
        /\ o # NoOrder
    BY <1>1, <1>3, <1>4 DEF HookOK, Orders, NoOrder
  <2>2. /\ status[o] # NoStatus
        /\ status[o] = "PENDING" \/ <<o, s>> \in contested
        /\ payment[o] # NoSession => <<o, payment[o]>> \in contested
        /\ \A g \in Hooks \ {h} :
             hook[g].pc = "pay" /\ hook[g].order = o => <<o, s>> \in contested
    BY <1>1, <2>1 DEF PayOrderly
  <2>3. ASSUME NEW g \in Hooks, payOrder(g), hook[g].order = o
        PROVE  <<o, s>> \in contested /\ <<o, hook[g].session>> \in contested
    <3>1. hook[g].pc = "pay"
      BY <2>3 DEF payOrder
    <3>2. hook'[g].pc # "pay"
      <4>1. hook' = [hook EXCEPT ![g].pc = "audit"] \/ hook' = [hook EXCEPT ![g] = IdleHook]
        BY <2>3 DEF payOrder
      <4> QED
        BY <1>2, <4>1 DEF Hook, IdleHook
    <3>3. g # h
      BY <1>3, <3>2
    <3> QED
      BY <1>1, <2>1, <2>2, <2>3, <3>1, <3>3 DEF PayOrderly
  <2> HIDE DEF o, s
  <2>4. status'[o] # NoStatus
    BY <2>1, <2>2, StatusChanges DEF Orderly, NoStatus
  <2>5. status'[o] = "PENDING" \/ <<o, s>> \in contested
    <3>1. SUFFICES ASSUME status[o] = "PENDING", status'[o] # "PENDING" PROVE <<o, s>> \in contested
      BY <2>2
    <3>2. provider[o] = "none"
      BY <1>1, <2>1, <3>1 DEF RowsOrderly
    <3> QED
      BY <2>1, <2>3, <3>1, <3>2, StatusChanges DEF Orderly, Done, NoStatus
  <2>6. payment'[o] # NoSession => <<o, payment'[o]>> \in contested
    BY <2>1, <2>2, <2>3, PaymentChanges
  <2>7. ASSUME NEW g \in Hooks \ {h}, hook'[g].pc = "pay", hook'[g].order = o
        PROVE  <<o, s>> \in contested'
    <3>1. CASE hook'[g] = hook[g]
      BY <1>2, <2>2, <2>7, <3>1
    <3>2. CASE resolvePayableOrder(g)
      <4>1. hook[g].pc = "resolve"
        BY <3>2, OrderTaken
      <4>2. PICK p \in Orders : TakeOrder(g, p)
        <5>1. hook' # [hook EXCEPT ![g].pc = "create"]
          BY <1>2, <2>7 DEF Hook
        <5> QED
          BY <3>2, <5>1, OrderTaken
      <4>3. hook' = [hook EXCEPT ![g].pc = "pay", ![g].order = p]
        BY <4>2 DEF TakeOrder
      <4>4. p = o
        BY <1>2, <2>7, <4>3 DEF Hook
      <4>5. h \in Rivals(g, o)
        BY <2>1, <2>7 DEF Rivals, o
      <4>6. <<o, s>> \in {<<o, hook[k].session>> : k \in Rivals(g, o) \cup {g}}
        BY <4>5 DEF s
      <4> QED
        BY <4>2, <4>4, <4>5, <4>6 DEF TakeOrder
    <3>3. CASE createOrder(g)
      <4>1. PICK p \in Orders : status[p] = NoStatus /\ hook' = [hook EXCEPT ![g].pc = "pay", ![g].order = p]
        BY <3>3 DEF createOrder
      <4>2. p = o
        BY <1>2, <2>7, <4>1 DEF Hook
      <4> QED
        BY <2>2, <4>1, <4>2
    <3> QED
      BY <2>7, <3>1, <3>2, <3>3, Enters
  <2> QED
    BY <1>2, <2>1, <2>4, <2>5, <2>6, <2>7 DEF PayOrderly
<1>5. CASE resolvePayableOrder(h)
  <2>1. hook[h].pc = "resolve" /\ UNCHANGED <<status, payment>>
    BY <1>5, OrderTaken DEF dbVars
  <2>2. PICK o \in Orders : status[o] = "PENDING" /\ TakeOrder(h, o)
    <3>1. hook' # [hook EXCEPT ![h].pc = "create"]
      BY <1>2, <1>3 DEF Hook
    <3> QED
      BY <1>5, <3>1, OrderTaken
  <2>3. hook' = [hook EXCEPT ![h].pc = "pay", ![h].order = o]
    BY <2>2 DEF TakeOrder
  <2>4. hook'[h].order = o /\ hook'[h].session = hook[h].session
        /\ \A g \in Hooks \ {h} : hook'[g] = hook[g]
    BY <1>2, <2>3 DEF Hook
  <2>5. payment[o] = NoSession
    BY <1>1, <2>2 DEF RowsOrderly
  <2>6. ASSUME NEW g \in Hooks \ {h}, hook'[g].pc = "pay", hook'[g].order = o
        PROVE  <<o, hook[h].session>> \in contested'
    <3>1. g \in Rivals(h, o)
      BY <2>4, <2>6 DEF Rivals
    <3>2. <<o, hook[h].session>> \in {<<o, hook[k].session>> : k \in Rivals(h, o) \cup {h}}
      OBVIOUS
    <3> QED
      BY <2>2, <3>1, <3>2 DEF TakeOrder
  <2>7. status'[o] = "PENDING" /\ payment'[o] = NoSession
    BY <2>1, <2>2, <2>5
  <2> QED
    BY <2>4, <2>6, <2>7 DEF PayOrderly, NoStatus
<1>6. CASE createOrder(h)
  <2>1. UNCHANGED payment
    BY <1>6 DEF createOrder
  <2>2. PICK o \in Orders : /\ status[o] = NoStatus /\ status' = [status EXCEPT ![o] = "PENDING"]
                            /\ hook' = [hook EXCEPT ![h].pc = "pay", ![h].order = o]
    BY <1>6 DEF createOrder
  <2>3. hook'[h].order = o /\ hook'[h].session = hook[h].session
        /\ \A g \in Hooks \ {h} : hook'[g] = hook[g]
    BY <1>2, <2>2 DEF Hook
  <2>4. status'[o] = "PENDING" /\ payment'[o] = NoSession
    BY <1>1, <2>1, <2>2, Shapes DEF RowsOrderly, NoStatus
  <2>5. ASSUME NEW g \in Hooks \ {h} PROVE ~(hook'[g].pc = "pay" /\ hook'[g].order = o)
    BY <1>1, <2>2, <2>3 DEF PayOrderly
  <2> QED
    BY <2>3, <2>4, <2>5 DEF PayOrderly, NoStatus
<1> QED
  BY <1>3, <1>4, <1>5, <1>6, Enters

\* An order about to be cancelled is ACTIVE, or a duplicate has cancelled it.
LEMMA CancelOrderlyStep == ASSUME IInv, Orderly, Next, NEW h \in Hooks PROVE CancelOrderly(h)'
<1>1. RowsOrderly /\ HookOK(h) /\ CancelOrderly(h) /\ \A g \in Hooks : PayOrderly(g)
  BY Shapes DEF Orderly, HooksOrderly
<1>2. hook \in [Hooks -> Hook] /\ \A o \in Orders : Contested(o) => Contested(o)'
  BY Shapes, ContestedStays DEF Contested
<1>3. SUFFICES ASSUME hook'[h].pc = "cancel" PROVE CancelOrderly(h)'
  BY DEF CancelOrderly
<1>4. CASE hook'[h] = hook[h]
  <2> DEFINE o == hook[h].order
  <2>1. o \in Orders /\ o # NoOrder /\ hook[h].pc = "cancel" /\ hook[h].kind = "deleted"
    BY <1>1, <1>3, <1>4 DEF HookOK, Orders, NoOrder
  <2>2. Done(o) /\ (status[o] \in {"ACTIVE", "CANCELLED"} \/ Contested(o))
    BY <1>1, <2>1 DEF HookOK, CancelOrderly
  <2>3. ASSUME NEW g \in Hooks, payOrder(g), hook[g].order = o
        PROVE  status[o] = "PENDING" \/ Contested(o)
    <3>1. hook[g].session \in Sessions /\ hook[g].pc = "pay"
      BY <2>3, Shapes DEF payOrder, HookOK
    <3> QED
      BY <1>1, <2>3, <3>1 DEF PayOrderly, Contested
  <2>4. hook'[h].order = o
    BY <1>4
  <2> HIDE DEF o
  <2>5. status'[o] \in {"ACTIVE", "CANCELLED"} \/ Contested(o)
    BY <1>1, <2>1, <2>2, <2>3, StatusChanges DEF Done, NoStatus
  <2> QED
    BY <1>2, <2>1, <2>4, <2>5 DEF CancelOrderly
<1>5. CASE findActiveOrder(h)
  <2> DEFINE active == {o \in Orders : status[o] = "ACTIVE"}
  <2>1. active # {} => Latest(active) \in active
    BY LatestIsOne
  <2>2. active # {} => status[Latest(active)] = "ACTIVE"
    BY <2>1
  <2>3. hook'[h] = IF active = {} THEN [hook[h] EXCEPT !.pc = "record"]
                   ELSE [hook[h] EXCEPT !.pc = "cancel", !.order = Latest(active)]
    BY <1>2, <1>5 DEF findActiveOrder
  <2>4. UNCHANGED status
    BY <1>5 DEF findActiveOrder, dbVars
  <2> HIDE DEF active
  <2>5. active # {}
    BY <1>2, <1>3, <2>3 DEF Hook
  <2>6. hook'[h].order = Latest(active)
    BY <1>2, <2>3, <2>5 DEF Hook
  <2> QED
    BY <2>2, <2>4, <2>5, <2>6 DEF CancelOrderly
<1> QED
  BY <1>3, <1>4, <1>5, Enters

\* The payment a delivery has written stays until it has recorded its event.
LEMMA PaidOrderlyStep == ASSUME IInv, Orderly, Next, NEW h \in Hooks PROVE PaidOrderly(h)'
<1>1. HookOK(h) /\ PaidOrderly(h) /\ \A g \in Hooks : PayOrderly(g)
  BY Shapes DEF Orderly, HooksOrderly
<1>2. hook \in [Hooks -> Hook] /\ contested \subseteq contested'
  BY Shapes, ContestedStays
<1>3. SUFFICES ASSUME hook'[h].kind = "completed", hook'[h].pc \in {"audit", "record"}
               PROVE  payment'[hook'[h].order] = hook'[h].session
                      \/ <<hook'[h].order, hook'[h].session>> \in contested'
  BY DEF PaidOrderly
<1>4. CASE hook'[h] = hook[h]
  <2> DEFINE o == hook[h].order
             s == hook[h].session
  <2>1. o \in Orders /\ s \in Sessions /\ s # NoSession
    BY <1>1, <1>3, <1>4, FulfilmentConstants DEF HookOK
  <2>2. payment[o] = s \/ <<o, s>> \in contested
    BY <1>1, <1>3, <1>4 DEF PaidOrderly
  <2>3. ASSUME NEW g \in Hooks, payOrder(g), hook[g].order = o, payment[o] = s
        PROVE  <<o, s>> \in contested
    BY <1>1, <2>1, <2>3 DEF payOrder, PayOrderly
  <2>4. payment'[o] # payment[o] => \E g \in Hooks : payOrder(g) /\ hook[g].order = o
    BY <2>1, PaymentChanges
  <2> QED
    BY <1>2, <1>4, <2>2, <2>3, <2>4
<1>5. CASE payOrder(h)
  <2>1. hook[h].order \in Orders
    BY <1>1, <1>5 DEF payOrder, HookOK
  <2>2. CASE hook' = [hook EXCEPT ![h] = IdleHook]
    BY <1>2, <1>3, <2>2 DEF IdleHook
  <2>3. CASE hook' = [hook EXCEPT ![h].pc = "audit"]
             /\ payment' = [payment EXCEPT ![hook[h].order] = hook[h].session]
    <3>1. hook'[h].order = hook[h].order /\ hook'[h].session = hook[h].session
      BY <1>2, <2>3 DEF Hook
    <3> QED
      BY <2>1, <2>3, <3>1, Shapes
  <2> QED
    BY <1>5, <2>2, <2>3 DEF payOrder
<1>6. CASE auditOrder(h)
  <2>1. UNCHANGED payment /\ hook' = [hook EXCEPT ![h].pc = "record"] /\ hook[h].pc = "audit"
    BY <1>6 DEF auditOrder
  <2>2. hook'[h].order = hook[h].order /\ hook'[h].session = hook[h].session
        /\ hook'[h].kind = hook[h].kind
    BY <1>2, <2>1 DEF Hook
  <2> QED
    BY <1>1, <1>2, <1>3, <2>1, <2>2 DEF PaidOrderly
<1> QED
  BY <1>3, <1>4, <1>5, <1>6, Enters

\* No step takes a recorded payment away, unless its delivery had met another.
LEMMA PaymentKeptStep == ASSUME IInv, Orderly, Next PROVE RecordedPaymentKept'
<1>1. RecordedPaymentKept /\ \A g \in Hooks : PayOrderly(g) /\ PaidOrderly(g)
  BY DEF Orderly, HooksOrderly
<1>2. recorded \subseteq Events /\ contested \subseteq contested'
  BY ContestedStays DEF IInv, TypeOK, RowsOK
<1>3. SUFFICES ASSUME NEW e \in recorded', e.kind = "completed"
               PROVE  \E o \in Orders : payment'[o] = e.session \/ <<o, e.session>> \in contested'
  BY DEF RecordedPaymentKept
<1>4. CASE e \in recorded
  <2>1. PICK o \in Orders : payment[o] = e.session \/ <<o, e.session>> \in contested
    BY <1>1, <1>3, <1>4 DEF RecordedPaymentKept
  <2>2. e.session # NoSession
    BY <1>2, <1>4, FulfilmentConstants DEF Events
  <2>3. ASSUME NEW g \in Hooks, payOrder(g), hook[g].order = o, payment[o] = e.session
        PROVE  <<o, e.session>> \in contested
    BY <1>1, <2>2, <2>3 DEF payOrder, PayOrderly
  <2>4. payment'[o] # payment[o] => \E g \in Hooks : payOrder(g) /\ hook[g].order = o
    BY PaymentChanges
  <2> QED
    BY <1>2, <2>1, <2>3, <2>4
<1>5. CASE e \notin recorded
  <2>1. PICK h \in Hooks : recordEvent(h)
    BY <1>3, <1>5
    DEF Next, hookStep, runStep, sweepStep, handle, upsertSubscription, resolvePayableOrder,
      createOrder, payOrder, findActiveOrder, cancelOrder, auditOrder, emitEvent, provisionRead,
      provisionClaim, provisionCall, provisionCommit, provisionFail, terminateRead, terminateCall,
      terminateClose, discoverStrandedOrders, reviewFails, recordForReview, crash, stripeStep, dbVars
  <2>2. UNCHANGED payment /\ hook[h].pc = "record" /\ e = Event(h)
    BY <1>3, <1>5, <2>1 DEF recordEvent
  <2>3. hook[h].kind = "completed" /\ e.session = hook[h].session
    BY <1>3, <2>2 DEF Event
  <2>4. hook[h].order \in Orders
    BY <2>2, <2>3, Shapes DEF HookOK
  <2> QED
    BY <1>1, <1>2, <2>2, <2>3, <2>4 DEF PaidOrderly
<1> QED
  BY <1>4, <1>5

\* A step that changes nothing keeps both invariants.
LEMMA Idles ==
  ASSUME UNCHANGED vars
  PROVE  /\ IInv => IInv'
         /\ Orderly => Orderly'
<1> USE DEF vars, dbVars, stripeVars
<1>1. TypeOK => TypeOK'
  BY DEF TypeOK, RowsOK, TasksOK, StripeOK
<1>2. HooksKnow => HooksKnow'
  BY DEF HooksKnow, HookOK, Done
<1>3. RunsKnow => RunsKnow'
  BY DEF RunsKnow, RunOK, Done
<1>4. OneProvisioner => OneProvisioner'
  BY DEF OneProvisioner
<1>5. Backed => Backed'
  BY DEF Backed, Done
<1>6. ActiveIsFulfilled => ActiveIsFulfilled'
  BY DEF ActiveIsFulfilled
<1>7. Announced => Announced'
  BY DEF Announced, Event
<1>8. Orderly => Orderly'
  <2>1. RowsOrderly => RowsOrderly'
    BY DEF RowsOrderly, Contested
  <2>2. HooksOrderly => HooksOrderly'
    BY DEF HooksOrderly, PayOrderly, CancelOrderly, PaidOrderly, Contested
  <2>3. RecordedPaymentKept => RecordedPaymentKept'
    BY DEF RecordedPaymentKept
  <2> QED
    BY <2>1, <2>2, <2>3 DEF Orderly
<1> QED
  BY <1>1, <1>2, <1>3, <1>4, <1>5, <1>6, <1>7, <1>8 DEF IInv

-----------------------------------------------------------------------------
(* The theorems.                                                             *)

\* The handlers, the runs, the rows and ResellPortal agree in every state, however
\* many deliveries are handled at once and wherever the process dies.
THEOREM Invariance == Spec => []IInv
<1>1. Init => IInv
  BY Initially
<1>2. IInv /\ [Next]_vars => IInv'
  <2>1. IInv /\ Next => IInv'
    BY RowsStep, TasksStep, StripeStep, HooksStep, RunsStep, ProvisionerStep, BackedStep,
       FulfilledStep, AnnouncedStep DEF IInv, TypeOK
  <2> QED
    BY <2>1, Idles
<1> QED
  BY <1>1, <1>2, PTL DEF Spec

\* Every variable keeps the shape of the rows, handlers and runs it stands for.
THEOREM TypeCorrect == Spec => []TypeOK
BY Invariance, PTL DEF IInv

\* provisionClaim: one listener run at a time works on the service of an order.
THEOREM SingleProvisioner == Spec => []OneProvisioner
BY Invariance, PTL DEF IInv

\* provisionCommit: an ACTIVE order has its provider row, its operation record
\* and a service that runs.
THEOREM AccessAfterFulfilment == Spec => []ActiveIsFulfilled
BY Invariance, PTL DEF IInv

\* recordEvent: a Stripe event announces its domain event at most once.
THEOREM EventAnnouncedOnce == Spec => []AnnouncedOnce
<1>1. IInv => AnnouncedOnce
  BY DEF IInv, Announced, AnnouncedOnce
<1> QED
  BY <1>1, Invariance, PTL

\* payOrder and provisionCall: a service is backed by a payment of its own.
THEOREM ServicePaidOnce == Spec => []OneServicePerPayment
<1>1. IInv => OneServicePerPayment
  BY DEF IInv, Backed, OneServicePerPayment
<1> QED
  BY <1>1, Invariance, PTL

\* The status of an order is what its payment and its provider row say, and a
\* delivery finds its order as it had read it, but for orders that two deliveries
\* were about to pay at once; whatever the listener runs and the sweep do meanwhile.
THEOREM OrderlyInvariance == Spec => [](IInv /\ Orderly)
<1>1. Init => Orderly
  BY Initially
<1>2. IInv /\ Orderly /\ [Next]_vars => Orderly'
  <2>1. IInv /\ Orderly /\ Next => Orderly'
    BY RowsOrderlyStep, PayOrderlyStep, CancelOrderlyStep, PaidOrderlyStep, PaymentKeptStep
    DEF Orderly, HooksOrderly
  <2> QED
    BY <2>1, Idles
<1> QED
  BY <1>1, <1>2, Invariance, PTL DEF Spec

\* payOrder: of a payment that was recorded, the order keeps the payment, or its
\* delivery and another were about to pay that order at once.
THEOREM PaymentStaysRecorded == Spec => []RecordedPaymentKept
<1>1. IInv /\ Orderly => RecordedPaymentKept
  BY DEF Orderly
<1> QED
  BY <1>1, OrderlyInvariance, PTL

\* order-state-machine.ts: every status that is written follows the one before it
\* in the machine, though four of the writes do not look at it, unless two
\* deliveries were about to pay the order at once.
THEOREM MachineFollowed == Spec => StatusFollowsMachine
<1>1. ASSUME IInv, Orderly, [Next]_vars
      PROVE  [\A o \in Orders :
                status'[o] # status[o] =>
                  \/ status[o] = NoStatus /\ status'[o] = "PENDING"
                  \/ Edge(status[o], status'[o])
                  \/ \E s \in Sessions : <<o, s>> \in contested]_vars
  BY <1>1, ChangesAreEdges
<1> QED
  BY <1>1, OrderlyInvariance, PTL DEF Spec, StatusFollowsMachine
=============================================================================
