------------------------- MODULE OrderStateMachine -------------------------
(***************************************************************************)
(* The pure subscription-order lifecycle of                                *)
(* apps/api/src/billing/order-state-machine.ts.                            *)
(***************************************************************************)

OrderStatus == {"PENDING", "PAID", "PROVISIONING", "ACTIVE", "CANCELLED", "FAILED"}

OrderTransition ==
  {"pay", "start_provisioning", "provisioning_succeeded", "cancel", "fail"}

TRANSITIONS ==
  {[from |-> "PENDING",      transition |-> "pay",                    to |-> "PAID"],
   [from |-> "PAID",         transition |-> "start_provisioning",     to |-> "PROVISIONING"],
   [from |-> "PROVISIONING", transition |-> "provisioning_succeeded", to |-> "ACTIVE"],
   [from |-> "ACTIVE",       transition |-> "cancel",                 to |-> "CANCELLED"]}

TERMINAL_STATUSES == {"CANCELLED", "FAILED"}

\* The code's null.
NoStatus == "none"

peekNextOrderStatus(from, transition) ==
  IF transition = "fail"
  THEN IF from \in TERMINAL_STATUSES THEN NoStatus ELSE "FAILED"
  ELSE IF \E e \in TRANSITIONS : e.from = from /\ e.transition = transition
       THEN (CHOOSE e \in TRANSITIONS : e.from = from /\ e.transition = transition).to
       ELSE NoStatus

canTransition(from, transition) == peekNextOrderStatus(from, transition) # NoStatus

\* Some transition of the machine leads from one status to the other.
Edge(from, to) == \E t \in OrderTransition : peekNextOrderStatus(from, t) = to
=============================================================================
