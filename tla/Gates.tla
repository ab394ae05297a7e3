------------------------------- MODULE Gates -------------------------------
(* Decisions the API takes from records it has read: whether a mapped product *)
(* can be purchased (three functions answer), whether an order's payment and  *)
(* fulfilment are proved by the providers, what a route acts on, and which    *)
(* organisation an audit event belongs to, and what the dashboard calls       *)
(* healthy. Each behaviour is one question.                                   *)
(*   apps/api/src/provisioning/phase3-*.ts, resellportal/, rbac/    *)
(*   apps/api/src/audit/, apps/api/src/dashboard/                             *)
EXTENDS AuditOwnership, Permissions

CONSTANTS
  Orgs,
  Cycles,    \* billing cycles
  NoCycle

ASSUME GateConstants == NoOrg \notin Orgs /\ NoCycle \notin Cycles

VARIABLES question, answer

gateVars == <<question, answer>>

NoAnswer == [done |-> FALSE]
Ask(kind) == question.kind = kind /\ ~answer.done
Answer(r) == answer' = [done |-> TRUE, is |-> r] /\ UNCHANGED question

-----------------------------------------------------------------------------
(* Product mappings. An absent identifier, key or destination is FALSE.       *)
MappingRecord ==
  [verificationStatus : {"pending-verification", "verified", "disabled"},
   purchaseEnabled : BOOLEAN, sourceEvidence : {"missing-contract", "verified-contract"},
   externalProductId : BOOLEAN, billingCycle : Cycles \cup {NoCycle},
   approvedOrderDestination : BOOLEAN]
Pending == [verificationStatus |-> "pending-verification", purchaseEnabled |-> FALSE,
            sourceEvidence |-> "missing-contract", externalProductId |-> FALSE,
            billingCycle |-> NoCycle, approvedOrderDestination |-> FALSE]

\* Set against the mapping, a contract read from the provider: id and key agree?
Contracts == [available : BOOLEAN, sameId : BOOLEAN, sameKey : BOOLEAN,
              billingCycles : SUBSET Cycles]

Complete(m) ==
  m.externalProductId /\ m.billingCycle # NoCycle /\ m.approvedOrderDestination

productMappingRecordSchema(m) ==
  (m.verificationStatus = "verified" \/ m.purchaseEnabled) =>
    m.verificationStatus = "verified" /\ m.sourceEvidence = "verified-contract" /\ Complete(m)

\* observed is the empty set or holds the one contract that was read.
assertVerifiedPurchaseMapping(m, cycle, observed) ==
  /\ m.verificationStatus = "verified" /\ m.purchaseEnabled
  /\ m.externalProductId /\ m.billingCycle = cycle /\ m.approvedOrderDestination
  /\ \A c \in observed : c.available /\ c.sameId /\ c.sameKey /\ cycle \in c.billingCycles
  /\ productMappingRecordSchema(m)

\* Plausible bug: the mapping answers for every billing cycle.
isPurchaseEnabled_bug(m, cycle) ==
  /\ m.purchaseEnabled /\ m.verificationStatus = "verified"
  /\ Complete(m)

\* NoCycle: the caller names none.
isPurchaseEnabled(m, cycle) ==
  /\ m.purchaseEnabled /\ m.verificationStatus = "verified"
  /\ Complete(m) /\ cycle \in {m.billingCycle, NoCycle}

productEvidence(m) ==
  [verified |-> m.verificationStatus = "verified" /\ m.sourceEvidence = "verified-contract",
   destinationApproved |-> m.verificationStatus = "verified" /\ m.approvedOrderDestination,
   enabled |-> m.purchaseEnabled]

askMapping ==
  /\ Ask("mapping")
  /\ LET q == question
     IN Answer([enabled |-> isPurchaseEnabled(q.mapping, q.cycle),
                asserted |-> assertVerifiedPurchaseMapping(q.mapping, q.cycle, q.observed),
                evidence |-> productEvidence(q.mapping)])

-----------------------------------------------------------------------------
(* Evidence about one order: in scope or of another order or organisation,    *)
(* holding or not, with or without a reference.                               *)
Observations == [scoped : BOOLEAN, holds : BOOLEAN, ref : BOOLEAN]
NotVerified == [scoped |-> TRUE, holds |-> FALSE, ref |-> FALSE]

assessEntitlementReadiness(product, payment, fulfillment) ==
  LET all == {product, payment, fulfillment}
  IN IF \E o \in all : ~o.scoped THEN "scope_mismatch"
     ELSE IF ~product.holds THEN "product_unapproved"
     ELSE IF ~payment.holds THEN "payment_unverified"
     ELSE IF ~fulfillment.holds THEN "fulfillment_unverified"
     ELSE IF \E o \in all : ~o.ref THEN "evidence_missing"
     ELSE "ready"

phase3PurchaseEnabled == FALSE

assessPurchaseGate(q) ==
  LET e == productEvidence(q.mapping)
      ready == assessEntitlementReadiness(q.product, q.payment, q.fulfillment)
  IN IF \E o \in {q.product, q.payment, q.fulfillment} : ~o.scoped THEN "scope_mismatch"
     ELSE IF ~(e.verified /\ e.enabled /\ q.product.holds) THEN "product_mapping_unapproved"
     ELSE IF ~(e.destinationApproved /\ q.destinationApproved) THEN "destination_unapproved"
     ELSE IF ~(q.paymentSafe /\ q.payment.holds) THEN "payment_unverified"
     ELSE IF ~(q.fulfillmentSafe /\ q.fulfillment.holds) THEN "fulfillment_unverified"
     ELSE IF \E o \in {q.product, q.payment, q.fulfillment} : ~o.ref THEN "evidence_missing"
     ELSE IF ~q.contractsApproved THEN "contract_unapproved"
     ELSE IF ~q.policyApproved THEN "entitlement_policy_unapproved"
     ELSE IF ~(phase3PurchaseEnabled /\ q.featureEnabled) THEN "feature_disabled"
     ELSE IF ready = "scope_mismatch" THEN ready
     ELSE IF ready # "ready" THEN "evidence_missing"
     ELSE "feature_disabled"

askGate == Ask("gate") /\ Answer(assessPurchaseGate(question))

\* The payment port: Stripe is asked about the identifier stored on the order.
retrievePaymentState(id, stripe) ==
  CASE id \in {"pi", "cs"} /\ stripe \in {"succeeded", "open"} -> stripe = "succeeded"
    [] OTHER -> FALSE   \* unrecognized_id, not_found or unavailable

verifyPayment(q) ==
  IF ~q.own \/ q.paymentId = "none" \/ ~retrievePaymentState(q.paymentId, q.stripe)
  THEN NotVerified ELSE [scoped |-> TRUE, holds |-> TRUE, ref |-> TRUE]

\* The fulfilment port: the provider echoes the service and says it is active.
verifyFulfillment(q) ==
  IF ~q.own \/ ~q.service \/ q.reply # "active"
  THEN NotVerified ELSE [scoped |-> TRUE, holds |-> TRUE, ref |-> TRUE]

askOrder ==
  /\ Ask("order")
  /\ Answer(assessEntitlementReadiness(question.product, verifyPayment(question),
                                       verifyFulfillment(question)))

-----------------------------------------------------------------------------
(* RolesGuard: the row a request names decides the organisation. A route, a   *)
(* body and a query may each carry an id, here the organisation of its row.   *)

pick(q) ==
  IF q.params # NoOrg THEN q.params ELSE IF q.body # NoOrg THEN q.body ELSE q.query

resolveOrgId(q) == IF q.scope = "glink" THEN q.params ELSE pick(q)

\* The organisation handed to the handler, or NoOrg for 400, 403 and 404.
canActivate(q) ==
  LET o == resolveOrgId(q)
  IN IF o # NoOrg /\ q.status[o] = "ACTIVE" /\ can(q.role[o], q.permission)
     THEN o ELSE NoOrg

askRoute == Ask("route") /\ Answer(canActivate(question))

-----------------------------------------------------------------------------
(* The policy for an audit writer: membership and resolved relations agree.   *)

resolveAuthorizedAuditScope(q) ==
  IF q.membershipOf # q.tenant \/ ~q.own \/ q.status # "ACTIVE"
     \/ classifyAuditOwnership(q.approved, NoOrg, q.candidates) # "authoritatively_attributable"
     \/ q.candidates # {q.tenant}
  THEN NoOrg ELSE q.tenant

askScope == Ask("scope") /\ Answer(resolveAuthorizedAuditScope(question))

-----------------------------------------------------------------------------
(* The operations dashboard: eight reads at once, each of which may fail. One *)
(* that fails is shown as its fallback, zero or the empty list.               *)
OrderCounts == {"totalOrders", "provisioningOrders", "deployedOrders", "failedOrders"}
Registrations == {"totalClients", "newRegistrationsLast7Days", "recentRegistrations"}
Reads == OrderCounts \cup Registrations \cup {"rootTracking"}

Health(readable) == IF readable THEN "healthy" ELSE "degraded"

\* GET /clients, GET /provisioning/orders/:clientId and GET /dashboard/overview;
\* the other routes are always reported as not probed.
getApiRouteHealth(ok) ==
  LET provisioningReadable == \A r \in OrderCounts : ok[r]
      registrationsReadable == \A r \in Registrations : ok[r]
  IN [clients |-> Health(ok["totalClients"]), orders |-> Health(provisioningReadable),
      overview |-> Health(/\ ok["totalClients"] /\ registrationsReadable
                          /\ provisioningReadable /\ ok["rootTracking"])]

getOverview(ok) ==
  [fallbacks |-> {r \in Reads : ~ok[r]}, apiRouteHealth |-> getApiRouteHealth(ok)]

askOverview == Ask("overview") /\ Answer(getOverview(question.ok))

-----------------------------------------------------------------------------
Enabled(m) == [m EXCEPT !.verificationStatus = "verified", !.purchaseEnabled = TRUE,
  !.sourceEvidence = "verified-contract", !.externalProductId = TRUE,
  !.billingCycle = CHOOSE c \in Cycles : TRUE, !.approvedOrderDestination = TRUE]

Questions ==
  [kind : {"mapping"}, mapping : MappingRecord, cycle : Cycles \cup {NoCycle},
   observed : {{}} \cup {{c} : c \in Contracts}]
  \cup [kind : {"gate"}, mapping : {Pending, Enabled(Pending)},
        product : Observations, payment : Observations, fulfillment : Observations,
        paymentSafe : BOOLEAN, fulfillmentSafe : BOOLEAN, destinationApproved : BOOLEAN,
        contractsApproved : BOOLEAN, policyApproved : BOOLEAN, featureEnabled : {TRUE}]
  \cup [kind : {"order"}, own : BOOLEAN, paymentId : {"none", "pi", "cs", "other"},
        stripe : {"succeeded", "open", "not_found", "unavailable"}, service : BOOLEAN,
        reply : {"active", "other_service", "inactive", "error"}, product : Observations]
  \cup [kind : {"route"}, scope : {"org", "client", "glink"},
        params : Orgs \cup {NoOrg}, body : Orgs \cup {NoOrg}, query : Orgs \cup {NoOrg},
        role : [Orgs -> ROLES], status : [Orgs -> {"ACTIVE", "REMOVED", "none"}],
        permission : {"org_read", "client_write", "billing_manage"}]
  \cup [kind : {"scope"}, tenant : Orgs, membershipOf : Orgs, own : BOOLEAN,
        status : {"ACTIVE", "REMOVED"}, approved : BOOLEAN, candidates : SUBSET Orgs]
  \cup [kind : {"overview"}, ok : [Reads -> BOOLEAN]]

GateInit == question \in Questions /\ answer = NoAnswer
GateNext == askMapping \/ askGate \/ askOrder \/ askRoute \/ askScope \/ askOverview
GateSpec == GateInit /\ [][GateNext]_gateVars

-----------------------------------------------------------------------------
Answered(kind) == question.kind = kind /\ answer.done

\* Three functions decide from one mapping whether it can be purchased: the
\* checkout guard, the assertion and the evidence of the phase 3 gate. For a
\* mapping the registry's schema accepts they give one answer for its cycle;
\* for any other the assertion is the strictest.
MappingGatesAgree ==
  Answered("mapping") =>
    LET q == question  r == answer.is
        asserted == assertVerifiedPurchaseMapping(q.mapping, q.cycle, {})
        evident == r.evidence.verified /\ r.evidence.enabled /\ r.evidence.destinationApproved
    IN /\ r.asserted => r.enabled /\ evident
       /\ productMappingRecordSchema(q.mapping) =>
            /\ r.enabled => evident
            /\ q.cycle \in Cycles => (r.enabled <=> asserted)
            /\ evident /\ q.cycle = q.mapping.billingCycle => r.enabled

\* An order that the purchase gate holds back only for the switch, the policy
\* or a contract has everything the entitlement assessment asks for: the two
\* predicates written side by side do not drift.
GateImpliesReadiness ==
  Answered("gate") /\ answer.is \in
      {"contract_unapproved", "entitlement_policy_unapproved", "feature_disabled"} =>
    assessEntitlementReadiness(question.product, question.payment, question.fulfillment)
      = "ready"

\* Through the two ports an order is ready only if Stripe confirms its own
\* payment and the provider reports its own service active.
ReadyIsProved ==
  Answered("order") /\ answer.is = "ready" =>
    /\ question.own /\ question.stripe = "succeeded" /\ question.paymentId \in {"pi", "cs"}
    /\ question.service /\ question.reply = "active"

\* A request that names a row in its route acts for the organisation of that
\* row, whatever its body and query carry, and its caller is a member there
\* whose role allows it.
RouteActsOnItsRow ==
  Answered("route") /\ answer.is # NoOrg =>
    /\ question.params # NoOrg => answer.is = question.params
    /\ question.status[answer.is] = "ACTIVE"
    /\ can(question.role[answer.is], question.permission)

\* An audit event is attributed to an organisation only if the caller is an
\* active member of it and no resolved relation names another one.
ScopeIsOwn ==
  Answered("scope") /\ answer.is # NoOrg =>
    /\ question.membershipOf = answer.is /\ question.own /\ question.status = "ACTIVE"
    /\ question.candidates = {answer.is}

\* The dashboard calls itself healthy exactly when none of its figures stands
\* in for a read that failed; a route is degraded only if the dashboard is.
HealthyIsRead ==
  Answered("overview") =>
    LET h == answer.is.apiRouteHealth
    IN /\ h.overview = "healthy" <=> answer.is.fallbacks = {}
       /\ h.overview = "healthy" => h.clients = "healthy" /\ h.orders = "healthy"

\* Every answer rests on the records it claims to rest on, and answers that are
\* computed in two places agree.
DecisionsGrounded ==
  /\ MappingGatesAgree /\ GateImpliesReadiness /\ ReadyIsProved
  /\ RouteActsOnItsRow /\ ScopeIsOwn /\ HealthyIsRead
=============================================================================
