--------------------------- MODULE MCCommerceParts ---------------------------
(* Two instances of Commerce in one run: "crons", one order and one session   *)
(* under overlapping runs of every cron, operators, refunds and restarts; and *)
(* "batches", two orders in one batch, of which one rejects its mail.         *)
EXTENDS MCCommerce

VARIABLE part

PartInit == Init /\ part \in {"crons", "batches"}
PartNext ==
  /\ Next
  /\ part = "crons" =>
       /\ \A o \in BadMailboxes : status'[o] = "NONE"
       /\ Cardinality({s \in Sessions : pay'[s] # "none"}) < 2
  /\ part = "batches" =>
       /\ restarts' = 0
       /\ \A s \in Sessions : pay'[s] \notin {"processing", "reversed"}
       /\ Cardinality({p \in Processors : proc'[p] # IdleProc}) < 2
  /\ UNCHANGED part
PartSpec == PartInit /\ [][PartNext]_<<vars, part>>
=============================================================================
