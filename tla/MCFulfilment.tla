---------------------------- MODULE MCFulfilment ----------------------------
(* Instances of Fulfilment for TLC; deliveries and listener runs are alike,  *)
(* and so are sessions when no subscription ends.                            *)
EXTENDS Fulfilment, TLC
Symmetry == Permutations(Hooks) \cup Permutations(Runs)
SymmetryWithSessions == Symmetry \cup Permutations(Sessions)

\* The runs whose properties are about orders alone leave the events that only
\* touch the mirror of the subscription to the others, and the run on cancellation
\* the sweep too, which writes reviews alone.
WorkNext ==
  \/ \E h \in Hooks : hookStep(h) /\ hook'[h].kind # "subscription"
  \/ \E r \in Runs : runStep(r)
  \/ crash \/ stripeStep
OrderNext == WorkNext \/ sweepStep
OrderSpec == Init /\ [][OrderNext]_vars
CancellationSpec == Init /\ [][WorkNext]_vars
=============================================================================
