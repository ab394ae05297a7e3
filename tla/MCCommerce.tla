----------------------------- MODULE MCCommerce -----------------------------
(* Instances of Commerce for TLC: cron runs of one kind are alike.           *)
EXTENDS CommerceRefinement, TLC
Symmetry == Permutations(Processors) \cup Permutations(Sessions)
=============================================================================
