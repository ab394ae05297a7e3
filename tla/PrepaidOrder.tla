---------------------------- MODULE PrepaidOrder ----------------------------
(***************************************************************************)
(* What the prepaid commerce service promises of an order, whatever crons, *)
(* webhooks and operators overlap: it is accepted only for captured money, *)
(* released at most once, active only after an operator's confirmation,    *)
(* welcomed only then, and a closed order stays closed.                    *)
(***************************************************************************)
CONSTANT Orders

VARIABLES
  phase,      \* where each order is
  captured,   \* orders Stripe captured money for
  confirmed,  \* orders an operator confirmed as delivered
  welcomed    \* orders whose customer was told the service is ready

vars == <<phase, captured, confirmed, welcomed>>

Phases == {"none", "open", "accepted", "working", "active", "closed"}

Init ==
  /\ phase = [o \in Orders |-> "none"]
  /\ captured = {} /\ confirmed = {} /\ welcomed = {}

Move(o, from, to) ==
  /\ phase[o] = from
  /\ phase' = [phase EXCEPT ![o] = to]

Open(o) == Move(o, "none", "open") /\ UNCHANGED <<captured, confirmed, welcomed>>

\* Money may arrive at any time, also for an order that is closed already.
Capture(o) ==
  /\ phase[o] # "none"
  /\ captured' = captured \cup {o}
  /\ UNCHANGED <<phase, confirmed, welcomed>>

Accept(o) ==
  /\ o \in captured
  /\ Move(o, "open", "accepted")
  /\ UNCHANGED <<captured, confirmed, welcomed>>

Release(o) == Move(o, "accepted", "working") /\ UNCHANGED <<captured, confirmed, welcomed>>

Confirm(o) ==
  /\ Move(o, "working", "active")
  /\ confirmed' = confirmed \cup {o}
  /\ UNCHANGED <<captured, welcomed>>

Close(o) ==
  /\ \E from \in Phases \ {"none", "closed"} : Move(o, from, "closed")
  /\ UNCHANGED <<captured, confirmed, welcomed>>

Welcome(o) ==
  /\ o \in confirmed
  /\ welcomed' = welcomed \cup {o}
  /\ UNCHANGED <<phase, captured, confirmed>>

Next == \E o \in Orders :
  Open(o) \/ Capture(o) \/ Accept(o) \/ Release(o) \/ Confirm(o) \/ Close(o) \/ Welcome(o)

Spec == Init /\ [][Next]_vars
=============================================================================
