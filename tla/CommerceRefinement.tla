------------------------- MODULE CommerceRefinement -------------------------
(* Commerce implements PrepaidOrder: the mapping of its rows to phases.      *)
EXTENDS Commerce

PhaseOf == [NONE |-> "none", CREATED |-> "open", PAID |-> "accepted",
            PROVISIONING |-> "working", PROVISIONED |-> "working",
            ACTIVE |-> "active", HELD |-> "closed", FAILED |-> "closed"]

phaseBar == [o \in Orders |-> PhaseOf[status[o]]]

\* Stripe captured money for a session of the order.
capturedBar ==
  {o \in Orders : \E s \in Sessions : owner[s] = o /\ pay[s] \in {"paid", "reversed"}}

\* The audit log shows the confirmation.
confirmedBar == {o \in Orders : Confirmed(o)}

Promise ==
  INSTANCE PrepaidOrder WITH
    phase <- phaseBar, captured <- capturedBar,
    confirmed <- confirmedBar, welcomed <- ready

\* Every step of the commerce service is a step of PrepaidOrder or leaves it
\* unchanged: no interleaving of webhooks, crons, operators and restarts accepts
\* an order without captured money, releases it twice or revives a closed one.
ImplementsPromise == Promise!Spec
=============================================================================
