----------------------------- MODULE MCAuditLog -----------------------------
(* Instances of AuditLog for TLC: overlapping runs of the backfill while rows *)
(* are written and targets removed, and a reader paging meanwhile. The parts  *)
(* "pollers" and "integrity" are LegacyOrder: overlapping pollers of two      *)
(* orders, and more order.deployed rows than their scan may look at.          *)
EXTENDS AuditLog, LegacyOrder, TLC

VARIABLE part

PartInit ==
  /\ AuditInit /\ LegacyInit
  /\ part \in {"sweeps", "removals", "pages", "pollers", "integrity"}
  /\ IF part = "sweeps"
     THEN /\ Cardinality(Rows) = MaxRows
          /\ Cardinality({i \in Rows : log[i].target \in NoLookup}) < 2
     ELSE Rows = {}

Busy(q) == {w \in Writers : q[w] # NoWrite}
LogNext ==
  /\ AuditNext
  /\ part = "removals" => UNCHANGED <<sweep, reader>>
  /\ part # "sweeps" => log'[MaxLog] = NoRow
  /\ part = "sweeps" =>
       /\ UNCHANGED <<alive, reader>>
       /\ \A i \in Ids : log'[i].at < 2
       /\ \A w \in Writers : writer'[w].org = NoOrg
       /\ \A s \in Sweeps : sweep'[s].pc # "idle" /\ sweep'[s].kind = "scan" =>
            \A q \in Sweeps \ {s} : sweep'[q] = NoSweep
  /\ part = "pages" =>
       /\ UNCHANGED alive
       /\ \A s \in Sweeps : sweep'[s] = sweep[s] \/ sweep'[s].kind = "backfill"
       /\ Cardinality({s \in Sweeps : sweep'[s] # NoSweep}) < 2
  /\ part # "removals" =>
       /\ Cardinality(Busy(writer')) < 2
       /\ \A w \in Writers : writer'[w].target \notin NoLookup
  /\ UNCHANGED legacyVars

\* One poller and one client are enough to fill the scan.
OrderNext ==
  /\ LegacyNext
  /\ part = "pollers" => legacy'[MaxPlaced] = NoLegacy /\ scan' = scan
  /\ part = "integrity" =>
       /\ Cardinality({p \in Pollers : poll'[p] # NoPoll}) < 2
       /\ \A p \in Pollers : poll'[p].kind # "cron"
       /\ Cardinality({o \in Placed : placing'[o] # "idle"}) < 2
       /\ \A o \in Placed : body'[o] = legacy'[o].client
       /\ \A o \in Placed : placing[o] # "idle" /\ placing'[o] \in {"idle", "fail"}
                             => legacy'[o].remote # NoRemote
       /\ \A o, q \in Placed : legacy'[o].client \in {legacy'[q].client, NoCustomer}
                               \/ legacy'[q].client = NoCustomer
  /\ UNCHANGED auditVars

PartNext ==
  /\ \/ part \notin {"pollers", "integrity"} /\ LogNext
     \/ part \in {"pollers", "integrity"} /\ OrderNext
  /\ UNCHANGED part
PartSpec == PartInit /\ [][PartNext]_<<auditVars, legacyVars, part>>

\* A run that ends and does not call itself incomplete, of the backfill, of the
\* ownership scan or of the integrity scan, has missed nothing that was there
\* from its start.
CompleteReports == CompleteMeansExamined /\ ScanCountsGaps

\* What happened once is in the log once: an attribution, a removal, a deployment
\* noticed by guarded writes; and what is missing was cut off by a crash or by
\* an audit write that failed.
LoggedOnce == BackfilledOnce /\ RemovalLoggedOnce /\ CronAuditsOnce /\ GapWasCut

Symmetry == Permutations(Sweeps) \cup Permutations(Writers)
            \cup Permutations(Customers)
=============================================================================
