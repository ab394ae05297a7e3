----------------------------- MODULE LegacyOrder -----------------------------
(* ProvisioningOrder rows of the older flow, which ResellPortal never reports *)
(* back: two pollers ask for them, and a worker counts missing audit rows.    *)
(*   apps/api/src/provisioning/provisioning.service.ts, resellportal.client.ts*)
(*   workers/cron-jobs/src/resellportal-poller.ts, audit-integrity-scan.ts    *)
EXTENDS Integers, FiniteSets, FiniteSetsExt, Listing

CONSTANTS
  MaxPlaced,   \* bound: ProvisioningOrder rows; an id is its place in id order
  Customers,   \* clients, by their account at ResellPortal
  Pollers,     \* runs of a poller
  ScanBatch,   \* AUDIT_INTEGRITY_BATCH_SIZE
  ScanMax,     \* AUDIT_INTEGRITY_MAX_ORDERS
  NoCustomer

ASSUME LegacyConstants ==
  /\ MaxPlaced \in Nat /\ NoCustomer \notin Customers
  /\ ScanBatch \in Nat \ {0} /\ ScanMax \in Nat \ {0}

Placed == 1..MaxPlaced
NoRemote == 0

VARIABLES
  legacy,    \* ProvisioningOrder: client, status, resellPortalOrderId
  placing,   \* the placeOrder request of an order
  body,      \* its resellPortalClientId: the account it orders for
  remotes,   \* services at ResellPortal, by the order whose call made them;
             \* service o belongs to the account body[o]
  keyed,     \* ResellPortal: what an Idempotency-Key was answered with
  poll,      \* a run of a poller
  deployedLog, \* AuditLog rows order.deployed: <<order, poller>>
  cut,       \* observed: orders the API had deployed when its process ended or
             \* when the audit write failed
  apiWrote,  \* observed: orders the API's poller has written
  scan       \* the integrity scan

orderVars == <<legacy, placing, body, remotes, keyed>>
pollVars == <<poll, deployedLog, cut, apiWrote>>
legacyVars == <<orderVars, pollVars, scan>>

NoLegacy == [client |-> NoCustomer, status |-> "none", remote |-> NoRemote]
NoPoll == [pc |-> "idle", kind |-> "none", todo |-> <<>>, was |-> [o \in Placed |-> NoRemote]]
NoScan == [pc |-> "idle", after |-> 0, batch |-> <<>>, limit |-> 0, examined |-> 0,
           missing |-> 0, incomplete |-> FALSE, gaps |-> {}]

Audited(o) == \E p \in Pollers : <<o, p>> \in deployedLog
Deployed == {o \in Placed : legacy[o].status = "deployed"}
Auditing(o) == {p \in Pollers : poll[p].pc = "audit" /\ Head(poll[p].todo) = o}

OrderRows == [client : Customers \cup {NoCustomer}, remote : Placed \cup {NoRemote},
              status : {"none", "provisioning", "deployed", "failed"}]
Polls == [pc : {"idle", "ask", "write", "audit"}, kind : {"none", "api", "cron"},
          todo : Seq(Placed), was : [Placed -> Placed \cup {NoRemote}]]
Scans == [pc : {"idle", "list", "row", "last", "ended"}, after : Placed \cup {0},
          batch : Seq(Placed), limit : Nat, examined : 0..ScanMax, missing : Nat,
          incomplete : BOOLEAN, gaps : SUBSET Placed]

LegacyTypeOK ==
  /\ legacy \in [Placed -> OrderRows]
  /\ placing \in [Placed -> {"idle", "call", "store", "fail"}]
  /\ body \in [Placed -> Customers \cup {NoCustomer}]
  /\ remotes \in [Placed -> {"none", "pending", "deployed"}]
  /\ keyed \in [Customers -> Placed \cup {NoRemote}]
  /\ poll \in [Pollers -> Polls]
  /\ \A p \in Pollers : poll[p].pc # "idle" => poll[p].todo # <<>>
  /\ deployedLog \subseteq Placed \X Pollers
  /\ cut \subseteq Placed /\ apiWrote \subseteq Placed
  /\ scan \in Scans

LegacyInit ==
  /\ legacy = [o \in Placed |-> NoLegacy]
  /\ placing = [o \in Placed |-> "idle"]
  /\ body = [o \in Placed |-> NoCustomer]
  /\ remotes = [o \in Placed |-> "none"]
  /\ keyed = [c \in Customers |-> NoRemote]
  /\ poll = [p \in Pollers |-> NoPoll]
  /\ deployedLog = {} /\ cut = {} /\ apiWrote = {}
  /\ scan = NoScan

-----------------------------------------------------------------------------
\* placeOrder: the row, the call, then its answer and an audit in one transaction.
\* The account comes from the body: nothing compares it with the client's own.
placeOrder(o) ==
  /\ legacy[o] = NoLegacy
  /\ \E c, account \in Customers :
       /\ legacy' = [legacy EXCEPT ![o] =
            [client |-> c, status |-> "provisioning", remote |-> NoRemote]]
       /\ body' = [body EXCEPT ![o] = account]
  /\ placing' = [placing EXCEPT ![o] = "call"]
  /\ UNCHANGED <<remotes, keyed, pollVars, scan>>

\* POST /orders, keyed by the account; a failed call may have been carried out.
ordersCall(o) ==
  /\ placing[o] = "call"
  /\ LET c == body[o] IN
     \E reached, answered \in BOOLEAN :
       /\ answered => reached
       /\ IF reached /\ keyed[c] = NoRemote
          THEN /\ remotes' = [remotes EXCEPT ![o] = "pending"]
               /\ keyed' = [keyed EXCEPT ![c] = o]
          ELSE UNCHANGED <<remotes, keyed>>
       /\ placing' = [placing EXCEPT ![o] = IF answered THEN "store" ELSE "fail"]
  /\ UNCHANGED <<legacy, body, pollVars, scan>>

storePlaced(o) ==
  /\ placing[o] = "store"
  /\ \/ /\ legacy' = [legacy EXCEPT ![o].remote = keyed[body[o]]]
        /\ placing' = [placing EXCEPT ![o] = "idle"]
     \/ /\ placing' = [placing EXCEPT ![o] = "fail"]
        /\ UNCHANGED legacy
  /\ UNCHANGED <<body, remotes, keyed, pollVars, scan>>

placeFailed(o) ==
  /\ placing[o] = "fail"
  /\ legacy' = [legacy EXCEPT ![o].status = "failed"]
  /\ placing' = [placing EXCEPT ![o] = "idle"]
  /\ UNCHANGED <<body, remotes, keyed, pollVars, scan>>

deploys(o) ==
  /\ remotes[o] = "pending"
  /\ remotes' = [remotes EXCEPT ![o] = "deployed"]
  /\ UNCHANGED <<legacy, placing, body, keyed, pollVars, scan>>

-----------------------------------------------------------------------------
\* Both pollers list the pending orders first, with the remote ids of then.
listPending(p) ==
  /\ poll[p].pc = "idle"
  /\ LET pending == {o \in Placed : legacy[o].status = "provisioning"} IN
     /\ pending # {}
     /\ \E kind \in {"api", "cron"}, todo \in Listed(pending, ById(pending), MaxPlaced) :
          poll' = [poll EXCEPT ![p] = [pc |-> "ask", kind |-> kind, todo |-> todo, was |->
            [o \in Placed |-> IF o \in pending THEN legacy[o].remote ELSE NoRemote]]]
  /\ UNCHANGED <<orderVars, deployedLog, cut, apiWrote, scan>>

Current(p) == Head(poll[p].todo)
NextOrder(p) == poll' = [poll EXCEPT ![p] =
  IF Tail(poll[p].todo) = <<>> THEN NoPoll ELSE [@ EXCEPT !.pc = "ask", !.todo = Tail(poll[p].todo)]]

\* Plausible bug: any deployed service of the client will do.
getServices_bug(p) ==
  /\ poll[p].pc = "ask"
  /\ \/ NextOrder(p)
     \/ /\ \E r \in Placed : /\ body[r] = legacy[Current(p)].client
                            /\ remotes[r] = "deployed"
        /\ poll' = [poll EXCEPT ![p].pc = "write"]
  /\ UNCHANGED <<orderVars, deployedLog, cut, apiWrote, scan>>

\* GET /services of the client's own account: no match, not deployed, no answer,
\* a write that fails as well, or deployed.
getServices(p) ==
  /\ poll[p].pc = "ask"
  /\ LET r == poll[p].was[Current(p)] IN
     \/ NextOrder(p)
     \/ /\ r # NoRemote /\ remotes[r] = "deployed"
        /\ body[r] = legacy[Current(p)].client
        /\ poll' = [poll EXCEPT ![p].pc = "write"]
  /\ UNCHANGED <<orderVars, deployedLog, cut, apiWrote, scan>>

\* pollPendingOrders of the API: an unconditional update, then the audit.
apiUpdate(p) ==
  /\ poll[p].pc = "write" /\ poll[p].kind = "api"
  /\ legacy' = [legacy EXCEPT ![Current(p)].status = "deployed"]
  /\ apiWrote' = apiWrote \cup {Current(p)}
  /\ poll' = [poll EXCEPT ![p].pc = "audit"]
  /\ UNCHANGED <<placing, body, remotes, keyed, deployedLog, cut, scan>>

\* A failed audit write is caught and warned of: the poller goes on, and no
\* later run finds the order pending.
apiAudit(p) ==
  /\ poll[p].pc = "audit"
  /\ \/ /\ deployedLog' = deployedLog \cup {<<Current(p), p>>}
        /\ UNCHANGED cut
     \/ /\ cut' = cut \cup {Current(p)}
        /\ UNCHANGED deployedLog
  /\ NextOrder(p)
  /\ UNCHANGED <<orderVars, apiWrote, scan>>

\* The stand-alone poller: the guarded update and the audit in one transaction.
cronUpdate(p) ==
  /\ poll[p].pc = "write" /\ poll[p].kind = "cron"
  /\ IF legacy[Current(p)].status = "provisioning"
     THEN /\ legacy' = [legacy EXCEPT ![Current(p)].status = "deployed"]
          /\ deployedLog' = deployedLog \cup {<<Current(p), p>>}
     ELSE UNCHANGED <<legacy, deployedLog>>
  /\ NextOrder(p)
  /\ UNCHANGED <<placing, body, remotes, keyed, cut, apiWrote, scan>>

\* The API process ends: its requests and its poller with it.
apiEnds ==
  /\ placing' = [o \in Placed |-> "idle"]
  /\ poll' = [p \in Pollers |-> IF poll[p].kind = "api" THEN NoPoll ELSE poll[p]]
  /\ cut' = cut \cup {o \in Placed : Auditing(o) # {}}
  /\ UNCHANGED <<legacy, body, remotes, keyed, deployedLog, apiWrote, scan>>

-----------------------------------------------------------------------------
\* scanAuditIntegrity. gaps: deployed and unaudited ever since the scan started.
Gaps == {o \in Deployed : ~Audited(o)}

startScan ==
  /\ scan.pc = "idle"
  /\ scan' = [NoScan EXCEPT !.pc = "list", !.gaps = Gaps]
  /\ UNCHANGED <<orderVars, pollVars>>

listDeployed ==
  /\ scan.pc = "list"
  /\ LET limit == Min({ScanBatch, ScanMax - scan.examined})
         rest == {o \in Deployed : o > scan.after}
     IN \E batch \in Listed(rest, ById(rest), limit) :
          scan' = [scan EXCEPT !.pc = IF batch = <<>> THEN "ended" ELSE "row",
                               !.batch = batch, !.limit = limit]
  /\ UNCHANGED <<orderVars, pollVars>>

\* The next of the batch; a short batch was the last; the cap asks once more.
AfterScanned(q) ==
  [q EXCEPT !.pc = IF q.batch # <<>> THEN "row"
                   ELSE IF q.limit > 0 THEN "ended"
                   ELSE IF q.examined < ScanMax THEN "list" ELSE "last"]

hasDeploymentAudit ==
  /\ scan.pc = "row"
  /\ LET o == Head(scan.batch) IN
     scan' = AfterScanned([scan EXCEPT
       !.missing = IF Audited(o) THEN @ ELSE @ + 1,
       !.after = o, !.batch = Tail(@), !.limit = @ - 1, !.examined = @ + 1])
  /\ UNCHANGED <<orderVars, pollVars>>

lastScan ==
  /\ scan.pc = "last"
  /\ scan' = [scan EXCEPT !.pc = "ended",
                          !.incomplete = \E o \in Deployed : o > scan.after]
  /\ UNCHANGED <<orderVars, pollVars>>

LegacyNext ==
  \/ \E o \in Placed : placeOrder(o) \/ ordersCall(o) \/ storePlaced(o)
                       \/ placeFailed(o) \/ deploys(o)
  \/ \E p \in Pollers : listPending(p) \/ getServices(p) \/ apiUpdate(p)
                        \/ apiAudit(p) \/ cronUpdate(p)
  \/ apiEnds \/ startScan \/ listDeployed \/ hasDeploymentAudit \/ lastScan

LegacySpec == LegacyInit /\ [][LegacyNext]_legacyVars

-----------------------------------------------------------------------------
\* Where only stand-alone pollers wrote, overlapping ones leave one audit row
\* per deployed order and none for the others (resellportal-poller.ts:73).
CronAuditsOnce ==
  \A o \in Placed \ apiWrote :
    Cardinality({p \in Pollers : <<o, p>> \in deployedLog})
      = IF o \in Deployed THEN 1 ELSE 0

\* A deployed order without an audit row is about to get it, or the API's poller
\* deployed it and ended before its audit or failed to write it: overlapping
\* pollers alone leave no gap (provisioning.service.ts:457,474).
GapWasCut == \A o \in Gaps : Auditing(o) # {} \/ o \in cut

\* A deployed order has a service that is deployed and its own client's, however
\* old the list a poller works on, whatever account its request named and however
\* many orders share a key; a failed one has none (resellportal-poller.ts:65).
DeployedIsServed ==
  \A o \in Placed :
    /\ o \in Deployed => /\ legacy[o].remote # NoRemote
                         /\ remotes[legacy[o].remote] = "deployed"
                         /\ body[legacy[o].remote] = legacy[o].client
    /\ legacy[o].remote # NoRemote => legacy[o].status # "failed"

\* A scan that calls itself complete counted every order that had no audit row
\* from its start to its end (audit-integrity-scan.ts:44).
ScanCountsGaps ==
  scan.pc = "ended" /\ ~scan.incomplete =>
    scan.missing >= Cardinality({o \in scan.gaps : ~Audited(o)})

\* "only one can change it to deployed and therefore create the audit event"
\* (resellportal-poller.ts:71): the API's poller does it a second time.
DeployedAuditedOnce ==
  \A o \in Placed : Cardinality({p \in Pollers : <<o, p>> \in deployedLog}) <= 1

\* "a retry of the *same* operation reuses the same key" (resellportal.client.ts
\* :125): two orders for one account do too, and share one remote order.
OneRemotePerOrder ==
  \A o, p \in Placed : o # p /\ legacy[o].remote # NoRemote
    => legacy[o].remote # legacy[p].remote
=============================================================================
