# Verification of gc-hosting

TLA+ models of the parts of gc-hosting that carry money, orders and access, the
TLC runs that check them on small instances, and TLAPS proofs for every size.
The models are translated from the code; where a document and the code differ,
the model follows the code and the document becomes a property.

## 1. Inventory

gc-hosting sells hosting and tools. A NestJS API (`apps/api`) with one MySQL
database behind Prisma does the work; Stripe takes the money, ResellPortal
creates the services, SMTP carries the mail. Next.js (`apps/portal`) and Astro
(`apps/web`) are user interfaces. GLINKS (`apps/glinks`) is a separate PHP
application with its own PostgreSQL database. `workers/cron-jobs` are one-shot
scripts beside the API.

| Component | State | Operations | Hard behaviour | Correct when |
|---|---|---|---|---|
| Prepaid commerce `apps/api/src/commerce`, `packages/commerce` | `CommerceOrder`, `CommerceJob`, `CommerceStripeEvent`, audit rows | `checkout`, `webhook`, crons `process` and `deliver`, `completeHuman` | crons that work from a snapshot, redelivered and reordered events, ACH that settles later, reversal before payment, failing mail, redeployment in a batch | only captured money is accepted, statuses follow the graph, reversals are caught, the customer is told what an operator confirmed |
| Stripe billing webhook `apps/api/src/billing` | `Order`, `Subscription`, `IdempotencyRecord` | `handle` and the handlers it dispatches to | concurrent deliveries of an event, a record written after the effect, events lost in a crash | an event announces itself once, statuses follow the machine, payments stay recorded |
| Provisioning `apps/api/src/provisioning` | `ProviderService`, `IdempotencyRecord`, `Order` | `provisionService`, `terminateService` | answers lost and calls repeated, two listeners, cancellation while provisioning | one provisioner and one service per payment, ACTIVE means provisioned |
| Paid-order recovery | review markers | cron `discoverStrandedOrders` | recheck against a listener, a full batch | a stranded paid order reaches an operator |
| Memberships, invitations, seats `memberships`, `invitations`, `billing.service` | `Membership`, `Invitation`, `Subscription.seatsPurchased` | add, change role, remove; create, resend, revoke, accept; `assertSeatAvailable`, `syncSeats` | every rule is a check before an unconditional write | an organisation keeps an owner, a revoked invitation admits nobody, seats stay within the plan |
| Authentication `auth`, `apps/portal/src/lib/auth.ts` | `RefreshToken`, `User`, session cookie | register, login with auto-join, refresh, logout | rotation is a read and a write; pages cannot always store the new pair | a refresh token is used once, the cookie stays good |
| Organisations and domains `orgs` | `Org.autoJoinDomain`, `OrgDomainVerification` | create, update; add, verify, remove a domain | the proof is checked before the domain is set | auto-join rests on a verified domain |
| Legacy orders `provisioning.service` and `workers/cron-jobs` | `ProvisioningOrder` | `placeOrder`, two pollers | the pollers overlap | an order is deployed and audited once |
| Audit `audit` | `AuditLog.orgId` | `logAction`, ownership scan and backfill | backfill beside live writes | an owner is never overwritten |
| GLINKS publishing, tenancy, recovery `apps/glinks/app` | pages, links, publications, memberships, invitations, tokens | save, publish, issue, accept, revoke, reset | row locks, stale drafts | a publication is one draft, a token is used once |
| Decisions: `rbac`, phase-3 gates, product mappings, audit scope, dashboard health | none of their own | one answer from records read before | two functions answer one question | answers agree and rest on the rows they name |
| Portal `apps/portal` | session cookie, what a page showed | render, server action, jwt callback | forms posted after memberships changed, two refreshes of one cookie | a form acts where it was shown, what is offered is accepted |
| Integrity scan `workers/cron-jobs` | none of its own | scan of deployed orders by page | orders deployed behind the cursor, the cap | a complete report has counted every gap |
| Catalogues, email, `apps/web`, shared UI, database package | none of their own | look-ups and I/O | - | - |

How they interact: the API calls Stripe and ResellPortal over HTTP and is called
back by Stripe's webhooks, at least once and in any order. `order.paid` and
`subscription.cancelled` go from the webhook to the provisioning listeners over
an event bus in the memory of the process. The crons of one process may overlap
with themselves, with requests, and with the crons of another process during a
redeployment. Everything else goes through rows of the database.

`PROJECT.json` lists every component and every hazard at its line.

## 2. Plan

Money first, then access, then what is written afterwards.

| Part | State |
|---|---|
| `Commerce`, `PrepaidOrder`, the refinement and their proofs | done |
| `OrderStateMachine`, `Fulfilment` and its proofs: webhook, provisioning, recovery sweep | done |
| `Workspace` and its proofs: GLINKS drafts, publications, invitations | done |
| `Team` and its proofs: memberships, invitations, seats, auto-join | done |
| `Session`, `Portal` and their proofs: refresh tokens, the cookie, what pages offer | done |
| `Domains`, `Subscription`, `Gates` and their proofs: ownership, the mirror row, decisions | done |
| `AuditLog`, `LegacyOrder` and their proofs: attribution, removals, pages, pollers, the scan | done |
| Tighter excuses: which changes of a `contested` order may leave the state machine, which quantities a `late` event may leave at Stripe | open |
| `OneSubscription`, `MirrorReconciled` under the assumption that requests or deliveries do not overlap | open |
| GLINKS account recovery | open: the single-use question of `Session`, with a guarded update |

The properties are kept in few runs: modules that share no state share a run, in
which a variable `part` says whose behaviour it is. Type invariants are proved,
so no run spends a property on one.

## 3. Modules

| Module | Models | Rests on |
|---|---|---|
| `Commerce` | prepaid commerce, Stripe Checkout beside it | `UpdatedAt` |
| `PrepaidOrder` | what an order promises its customer, abstractly | - |
| `CommerceRefinement` | `Commerce` as an implementation of `PrepaidOrder` | both |
| `OrderStateMachine` | `order-state-machine.ts` | - |
| `Fulfilment` | webhook, provisioning, recovery of one organisation | `OrderStateMachine`, `UpdatedAt` |
| `UpdatedAt` | Prisma's `@updatedAt` and oldest-first batches | - |
| `Workspace` | one GLINKS workspace | - |
| `Permissions` | the role table of `packages/permissions` | - |
| `Team` | members, invitations, auto-join and seats of one organisation | `Permissions` |
| `Session` | refresh tokens and the cookie of one browser | - |
| `Portal` | tabs of one user, the guard and rules of the API behind them | `Permissions` |
| `Domains` | domain proofs and `autoJoinDomain` of several organisations | - |
| `Subscription` | checkout of a plan, Stripe, the mirror row and invoices | - |
| `AuditOwnership` | `classifyAuditOwnership` | - |
| `Listing` | what a sorted and limited query answers, as a relation | - |
| `AuditLog` | audit rows, removals, the backfill and scan of owners, paged reading | `AuditOwnership`, `Listing` |
| `LegacyOrder` | `ProvisioningOrder` rows, two pollers, the integrity scan | `Listing` |
| `Gates` | decisions: mappings, phase 3, guard, audit scope, dashboard | `AuditOwnership`, `Permissions` |
| `CommerceProofs`, `CommerceRefinementProofs`, `FulfilmentProofs`, `WorkspaceProofs`, `TeamProofs` | theorems of the module they name | the module and TLAPS |
| `PersonProofs` | theorems of `Session` and `Portal` | both and TLAPS |
| `OrganisationProofs` | theorems of `Subscription`, `Domains` and `Gates` | `MCOrganisation` and TLAPS |
| `TrailsProofs` | theorems of `LegacyOrder` and `AuditLog` | `MCAuditLog` and TLAPS |
| `MCCommerce`, `MCCommerceParts`, `MCFulfilment`, `MCWorkspace`, `MCTeam`, `MCMembers`, `MCOrganisation`, `MCAuditLog` | instances, parts and symmetries | - |

A step is what the code does between two awaits; `prisma.$transaction` and a
single SQL statement are one step. An actor (request, cron run, listener, tab) is
a record with a `pc` and what it has read. Data that no property tells apart is
a model value. An operator named `..._bug` is a plausible fault of the operator
after it. No action uses one: the properties are tried against them.

### Commerce

`status`, `session`, `payment`, `job`, `claimed` are columns of `CommerceOrder`,
`CommerceJob` and `CommerceStripeEvent`; `audit[o]` is the list of what the
`commerce.transition` rows of an order name, which are its statuses and the
`human_fulfillment_confirmed` that an operator's confirmation writes between
PROVISIONED and ACTIVE; `older` is the order of `updatedAt`. `req`, `proc`,
`del`, `op` are the requests, cron runs and operator calls in flight. `pay`,
`owner`, `key`, `events` are Stripe: what happened to the money of a Checkout
Session, the order in its metadata, the idempotency key, and the events sent.
An event stays in `events`, so it may be delivered at any later time, in any
order and again: `claimed` alone makes a second delivery harmless. `cfg` is the
deployed configuration (`blockers`, `operatorExists`); `restart` drops every run
in flight and may deploy another one. `owed` and `ready` record mails.

The names of the actions are those of the methods, one per await:
`checkoutOrder`/`Stripe`/`Save`; `webhook...` by branch;
`processStart`/`Verify`/`Decide`/`Alert`/`Update`;
`completeHumanRead`/`Verify`/`Confirm`; `deliverStart`/`Verify`/`Mail`/`Update`.

### Fulfilment

`status`, `payment` are columns of `Order`; `provider` of `ProviderService`;
`recorded`, `provisioned`, `reviews` are the three uses of `IdempotencyRecord`;
`mirror` is the subscription row. `hook` are deliveries in `handle()`, `run` the
listeners, `sweep` the batch of the recovery cron. `emits` counts how often a
Stripe event led to a domain event. `remote` is the service at ResellPortal.
A call to ResellPortal may succeed, fail, or succeed with its answer lost.
`contested` is history, and no guard reads it: the orders, with the sessions, that
one delivery had found PENDING while another was about to pay them
(`TakeOrder`). The PAID write does not ask again, so such an order may be moved back
or lose a payment; the properties about statuses and payments say that no other
one is.

### Workspace

`role`, `pages`, `links`, `publications`, `invites` are tables of one workspace,
`lock` the row lock that every transaction takes first, `tab` a browser tab with
a form or a request. The content of a draft is the number of the save that wrote
it (`text` of the profile, `stamp` of the links), so that "these belong
together" is an equality. `begin` or `saveBegin` takes the lock, `...Check` is
what is read and tested under it, `...Commit` the writes; `abandon` is a
rollback. The edit form is two unlocked reads, `editPage` and `editLinks`. The
trigger `lock_membership_workspace` makes a membership change wait for the lock,
and the deferred constraint `require_owner` keeps an owner: `changeMembership`
is both.

### Team

`role`, `row` are `Membership` (the role, and its id as a count of how often the
user was made a member); `account` is `User`, `inv` is `Invitation`, `stripe` the
quantity at Stripe and `mirror` is `seatsPurchased`. A request `req[r]` keeps
what it read. `add`, `changeRole`, `remove`, `create`, `resend`, `revoke` read and
check, the `...Write` of each is its unconditional write; `accept` is
`findLiveByToken`, the lazy `expireWrite`, `authenticate` (with the auto-join of
`login`), `acceptMember`, `acceptEnter`, `acceptMark`. Whoever changed the members
goes on to `syncSeats`: count, `pushSeats` to Stripe, `saveSeats`; `syncFails` is
the error path. Each change at Stripe sends an event with the quantity of that
moment; `sent` are the quantities on their way, and `reconcile`, the subscription
webhook, writes the one its event carries into the mirror, however old it is.
`fails` ends a request anywhere. `overlap`, `crowd`, `unsettled` and `late` record
that requests met or that the mirror took an overtaken quantity: they are
history, and no guard reads them.

### Session and Portal

A `view` is one caller of `auth()`, layout or page: `jwt` decides whether to refresh.
If the access token is good, `jwtReturn` writes the tokens it was given back, over
whatever the cookie holds by then; `restored` remembers the spent tokens that came
back so. Else `refresh` finds the row, `refreshRevoke` and `refreshIssue` are the two later
statements, `jwtStore` or `jwtDrop` what the callback puts back, `answerLost` a
call, an answer or a `Set-Cookie` that is lost. In `Portal` a tab renders a page
from the session and API reads of that moment and shows the forms that the page's
code offers; `submit` is the server action that reads the session again, `callApi`
the guard and the service rules. It answers `refused` when a guard or a rule about
roles, owners, rows or statuses says no, and `declined` when what was typed does not
do (`TypedCalls`) or an invitation finds every seat taken (`SeatRules`, `full`). `joined`, `roleChanged`, `removed`, `elsewhere` are
everybody else.

### Domains and Subscription

`proof[<<o, d>>]` is the row of `OrgDomainVerification` with an id that grows with
each row, `txt` the tokens in DNS; a call finds a row and later writes it by its
id. `update` of an organisation is `isVerified` and `updateWrite`, `deleteProof` the
transaction that removes a proof and switches auto-join off. In `Subscription`
the request is `createCheckoutSession`, `createCustomer`, `checkoutIdempotencyKey`;
Stripe `completes`, `expires`, `moves`, `bills`; a delivery is `handle`, the handler of
its event and `recordEvent`, or `deliveryFails`. `n` numbers the changes of a
subscription so that "older" has a meaning; the code has no such number.

### AuditLog, LegacyOrder and Gates

An audit id is its place in the order of ids, which are random: a row may be
inserted on either side of a cursor. A sweep is the backfill or the scan: list a
batch, then per row look up, classify and write where `orgId` is still null.
`recentForOrg` is one page with its cursor. A list of the database is any sequence
that `Listed` allows for an order given as a relation; as ids are unique there is
exactly one, and no proof needs to look into a sorting function. `LegacyOrder` has `placeOrder` in four
steps, with the account at ResellPortal taken from the request (`body`) and not
from the client, as the code does; a poller of the API (update, then an audit that
may fail and is then passed over) and a stand-alone one (both in a
transaction, guarded by the status); `apiEnds` for the end of the process; and the
integrity scan. `cut` remembers the orders whose audit row was lost in the API. `Gates` has no state of its own: each behaviour is one question
with one answer, over every combination the readers can return.

## 4. Runs

| Run | Instance | Shows |
|---|---|---|
| `commerce_orders` | parts `crons` (1 order, 2 `process()` runs, 1 `deliver()`, an operator, card and ACH, refund and dispute, 1 restart) and `batches` (2 orders in a batch, 2 sessions, one mailbox that rejects mail) | the safety of an order under every overlap and from old snapshots, and `ImplementsPromise` |
| `commerce_review` | 1 order, 2 sessions, 1 restart, fair | what must happen: `PaidIsReviewed`, `ReversedIsHeld`, `GuideDelivered` |
| `fulfilment_concurrent` | 2 sessions, 2 deliveries, 2 listeners, crash, failing writes | unique columns keep services apart |
| `fulfilment_cancellation` | 2 sessions, 1 ending, 2 deliveries, 1 listener, crash, failing writes | statuses, payments and services agree, but for orders two deliveries were about to pay at once |
| `fulfilment_handlers` | 1 session, ends, retries, fair | provisioning ends, events are acknowledged |
| `fulfilment_recovery` | 2 sessions, crash, fair sweep | stranded orders reach an operator |
| `workspace_concurrent` | 3 people, 2 tabs, 1 page, 2 slugs, 2 invitations | drafts, publications and invitations stay whole |
| `people` | 3 people, 2 requests, 2 invitations, a plan of 2 seats; 3 tokens, 2 views; 1 tab, 2 workspaces, 7 pages, 2 moves | members, sessions and tabs of a person |
| `trails` | 4 audit rows, 2 targets (one without a relation), 2 writers, 2 sweeps that read 3 rows at most, 1 reader; 3 orders, 2 clients, 2 pollers, a scan that reads 2 orders at most | what is written afterwards from lists read earlier, to the cap and beyond |
| `subjects` | 2 plans, 2 subscriptions, 2 requests, 2 deliveries; 2 organisations, 2 names, 2 calls; every question of `Gates` | an organisation as subscriber, domain owner and subject of decisions |
| `owner_lost` | 3 people, 2 requests | counterexample, section 7 |
| `unrevoked` | 1 session, fair | counterexample, section 7 |

What the properties that conjoin several facts say: `TokensSpentOnce` is
`TradedTwiceOnlyWhenRaced` and `LoggedOutForGood`; `FormsStay` is
`MovesOnlyWhenLeft` and `RowFormsStay`; `CompleteReports` is
`CompleteMeansExamined` and `ScanCountsGaps`; `LoggedOnce` is `BackfilledOnce`,
`RemovalLoggedOnce`, `CronAuditsOnce` and `GapWasCut`; `MirrorKept` is
`MirrorSettles` and `InvoicesKept`; `ProofsKept` is `StampedWasPublished` and
`UnprovenWasOvertaken`; `DecisionsGrounded` is one fact per kind of question.

Why these bounds are enough. The hazards are between two actors on one row, so
two of each kind of actor are taken where they race, and the rest of the
instance is one. Two orders are needed only where a batch, a mailbox or a unique
column relates them. A batch of 2 holds both orders; a batch of 1 with 2 orders
is a full one. One restart or crash separates a behaviour into before and
after; the code keeps no count of them. Three saves and two publications give a
form that is two saves old and a page that is published again. Three people
give an inviter who is demoted by a second owner while a third accepts; a limit
of two seats is met by the second member and exceeded by a third. Three tokens
are a login, its refresh and a second refresh of the same token. Two rows of
one timestamp and a third give a page that must be cut between equals. The caps
are below what there is to read: a backfill of three rows in batches of two that a
fourth row is added to, and a scan of two orders where three are deployed, end at
their cap with rows behind the cursor and call themselves incomplete, or
complete when the cap met the last row.

The parts. In `MCTeam` the kinds of request are tried in groups that touch the
same rows: `members`, `rejoined` (one colleague leaves and comes back under a new
id), `left` (invitations beside removals), `joined` (invitations beside sign-in),
`alone` (two invitations, one request at a time), and `late` (additions and
removals, one at a time, beside subscription events in any order, which rest in the
other groups). `MCMembers` adds `session`, where one token is logged out at most,
and `portal`, where a tab is left after one form. In `MCAuditLog` `sweeps` has
two overlapping backfills or one scan beside one writer, `removals` has the
writers alone, `pages` a reader beside one backfill and one writer. Two parts are
`LegacyOrder`: `pollers` has two pollers of either kind and two orders, `integrity`
one client, the API's poller and the scan of three orders. In `MCFulfilment` the
runs `concurrent` and `cancellation` leave out the event that only touches the
mirror row, and `cancellation` the sweep, which writes reviews alone; `recovery` and
`handlers` have both. In `MCOrganisation` `mirror` has one subscription with overlapping
deliveries, `buy` two racing requests with deliveries one after another. In
`MCWorkspace` either the pages or the invitations are busy: they share the
members and the lock only. The proofs know none of these restrictions. What
the theorems of section 6 cover does not depend on any bound but those named in
the guards, which are arbitrary.

Deadlock is checked in `Workspace`, where clocks and memberships move on, and
not in the other runs, where all work may be done.

## 5. Fairness

`FairSpec` (Commerce): `WF(webhook(e))`, because Stripe redelivers until it has
a 2xx; `WF(process)` and `WF(deliver)`, because the crons fire every few minutes
and again after an exception; `SF` on the alert, on Stripe's answer and on the
mail, because SMTP and Stripe that fail now and then answer in the end. The
customer, the operator, expiry, reversals and restarts are not fair.

`HandlerSpec` (Fulfilment): `SF(handle(e))` for redelivery (a delivery is
possible again and again while hooks are busy), `WF` on a handler and on a
listener that has started. `SweepSpec`: `WF` on the sweep, `SF` on a scan that
finds all due orders old enough and on each review. Nothing is assumed of the
outcome of ResellPortal calls. `fulfilment_recovery` keeps `DbFaults` false: with
it, an error may end exactly those scans in which an order waits behind another
one, and never the others, which no per-order fairness excludes and no database
does.

## 6. Proofs

| Theorem | Property | Module |
|---|---|---|
| `AuditIsTrail`, `AcceptedIsPaid`, `ReadyIsConfirmed`, `JobKept`, `ReversalsCaught` | `AuditTrail`, `PaidOrdersArePaid`, `ReadyMailConfirmed`, `JobFollowsOrder`, `ReversalCaught` | `CommerceProofs` |
| `Refinement` | `ImplementsPromise` | `CommerceRefinementProofs` |
| `SingleProvisioner`, `AccessAfterFulfilment`, `EventAnnouncedOnce`, `ServicePaidOnce` | `OneProvisioner`, `ActiveIsFulfilled`, `AnnouncedOnce`, `OneServicePerPayment` | `FulfilmentProofs` |
| `PaymentStaysRecorded`, `MachineFollowed` | `RecordedPaymentKept`, `StatusFollowsMachine` | `FulfilmentProofs` |
| `PublicationsWhole`, `OpenOnce` | `PublicationIsOneDraft`, `OneOpenInvitation` | `WorkspaceProofs` |
| `SavesLoseNothing`, `DeletedIsFinal`, `VisitorsSeeProgress`, `CommitsAreAuthorized`, `AcceptedWhileOpen` | `NoLostUpdate`, `DeletedStaysDeleted`, `PublicNeverGoesBack`, `AuthorizedAtCommit`, `UsedOnceWhileOpen` | `WorkspaceProofs` |
| `SeatsBounded`, `OwnerStays`, `SeatsStayBilled`, `OwnersFromOwners` | `SeatOvershoot`, `OwnerKeptAlone`, `SeatsSettle`, `OwnerFromOwner` | `TeamProofs` |
| `TokensOnce`, `CookieStaysUsable` | `TokensSpentOnce`, `CookieUsable` | `PersonProofs` |
| `OffersAccepted`, `FormsActWhereShown` | `OfferedIsAccepted`, `FormsStay` | `PersonProofs` |
| `DomainsProven`, `SecondSold`, `MirrorStays`, `AnswersGrounded` | `ProofsKept`, `SecondOnlyWhenBlind`, `MirrorKept`, `DecisionsGrounded` | `OrganisationProofs` |
| `DeployedServed`, `PagesKept` | `DeployedIsServed`, `PagesWhole` | `TrailsProofs` |
| `TrailsLoggedOnce`, `TrailsComplete` | `LoggedOnce`, `CompleteReports` | `TrailsProofs` |
| `TypeCorrect`, `SessionTypesCorrect`, `DomainTypesCorrect`, `LegacyTypesCorrect`, `AuditTypesCorrect`, `Invariance` | the type invariants and the inductive ones | Commerce, Fulfilment, Workspace, Team; Session; Domains; LegacyOrder; AuditLog |

All hold for every value of the constants that meets the `...Constants`
assumption of the module, which keeps the "no such" values apart from real ones
and the bounds natural numbers. `TeamConstants` also asks for finitely many users
and requests, since seats are counted.

Commerce. `IInv == TypeOK /\ Bodies /\ Money`. `TypeOK` alone is not inductive:
a request in flight must name a real order (`Bodies`), or its write leaves the
type. `PaidOrdersArePaid` is not inductive either: it holds when `webhookPaid`
runs only because a paid event speaks of a session that was created for an order
and captured (`Money`). The audit trail and the confirmed mails follow by their
own induction on top of it, and so does `JobFollowsOrder`. `ReversalCaught` needs
`CInv`: a request about to save writes the session of its idempotency key
(`KeysHeld`), reversal events are about reversed payments and a paid order has
left CREATED (`Reversing`), and what `process()` learned from Stripe about an order
it may release was about its payment or else the reversal is still to be handled
(`Reading`). The refinement adds `RInv`, which relates the local reads of operators
and cron runs to the statuses they may still act on, and then maps each step of
Commerce to a step of `PrepaidOrder` or a stutter.

That proof changed the model once. `keyExpires` let Stripe forget an idempotency
key at any time, also while a request that had been answered with it had not
saved yet; a second request could then get another session, be paid and reversed,
and the late save hid it. Stripe keeps a key for a day, a request does not live
that long, so `keyExpires` now waits for such requests.

Fulfilment. `IInv` adds to the types: a delivery or a run knows only what the rows
still say (`HooksKnow`, `RunsKnow`), and for that no step takes back a payment, a
provision or a service (`Kept`). `OneProvisioner` is inductive with them: a run
works on an order only while its provider row is PROVISIONING, and the claim that
inserts the row fails where there is one. `Backed` relates a service to the payment
behind it, `Announced` an event to its record and to the delivery that is about to
write it. `Orderly` is
inductive beside `IInv` for any number of deliveries: a status is what payment and
provider row say (`RowsOrderly`); a delivery about to pay finds its order PENDING
and unpaid, one about to cancel finds it ACTIVE or cancelled by a duplicate, one
that has paid finds its payment (`HooksOrderly`); each of these unless the order is
`contested`. The point is that two deliveries about to pay one order make it
contested when the second of them takes it: what then goes wrong is in the excuse,
and nothing else goes wrong.

Workspace. `IInv` adds to `TypeOK`: only the lock's holder is inside a
transaction (`Bodies`); profile and links of a page are of one save (`Drafts`);
a form's links are at least as new as its profile and at most as new as the page
(`Forms`); what a transaction has checked is still so (`Checked`); a snapshot is
one past draft of its page (`Published`). `NoLostUpdate` is the point of
`Forms`: a form whose profile is current has links squeezed between two equal
versions, so that the order of the two unlocked reads is what makes the version
check sound. With the links read first it would not be. `Checked` must survive
the one write outside the lock, the revocation after a failed mail, which is
why `mailFails` waits for an acceptance that holds the row.

Team. `SeatOvershoot` counts members, but a request that has passed the check
will be one: `Seated` counts it already. `OwnerKeptAlone` needs `Alone` (while
changes do not overlap, a request that is about to take an owner's role knows of
another owner), `SeatsSettle` needs `Settled` (while syncs do not overlap and no
overtaken event was written, mirror and Stripe agree, and Stripe has the count of
now or somebody is on the way to tell it). `OwnerFromOwner` rests on `Reading` and
`Sending`: a request or an invitation that grants OWNER remembers that it was made
by one, and every unconditional write keeps that.

Session. `Spent`: a token that bought something is revoked, and one that was not
raced has a single buyer, be it a token already issued or a view that will issue
one. `Over` says the same of a token that was logged out, `Fresh` that a pair on
its way to the cookie is nobody else's. A view that returns its old tokens puts
back a live one or one that `restored` then names (`ReturnStep`).

Domains. `CallsKnow`: who is about to stamp a row has seen its token in DNS, and
who is about to set a domain has a proof for it, or the proof was removed since.
That ids are never used again is what makes the first survive a row that is
removed and added again.

Subscription. `Sold`: until a session is opened on a check that was wrong or
stale, at most one session is open or one subscription live. `SentTrue`: each
event says something of Stripe that was true once, each change has one event.
`RowNewest`: until an older event overtakes a newer one, the row is what the newest
applied event says. `MirrorSettles` follows since the last event was applied too.

Gates and Portal. An answer of `Gates` is kept beside the records it was computed
from, and one lemma per question says that it rests on them; the product mappings
are the one case with a chain of conditions to follow. In `Portal` what a tab shows
is of the active workspace and of the role there until the user leaves or something
changes (`ShownIsCurrent`); each form a page offers to a role passes the guard and
the rules for that role (`OffersPass`, by page and call); a form that was posted to
another workspace has lost its own (`PostedWhereShown`).

LegacyOrder. `RowLinked`, `KeyLinked`: a stored remote id names a service that
ResellPortal knows. Whose it is follows from the poller alone: it looks for the id
among the services of the client's own account, so an order that was placed for
another account is never deployed. `PollKnows`: a poller's list is old, but a remote
id in it was never replaced. `LoggedRows`: an order that only guarded writes touched has exactly one
row. `ScanKnows`: each gap the scan will report is behind its cursor and counted,
in the rest of its batch, or beyond a batch that was full.

AuditLog. `LogKnows`: an insert attributes a row for good, and one removal row
stands for each target that is gone, which holds because the row and the delete
are one transaction. `SweepKnows` is the argument of the scan again, for runs that
also write: what is due and unattributed has been seen or is `Ahead`. It mentions
the log only through the rows and the unattributed ones, so that it survives every
insert and every write of another run (`SweepKept`, `LogGrows`). `BackfilledOnce` is
inductive by itself, thanks to the guard of the update. `ReadKnows`: what a reader
got is not after its cursor, what was due and it has not got is after it; rows
never change their place, and the order of `(createdAt, id)` is strict.

Only model-checked: the liveness properties `PaidIsReviewed`, `ReversedIsHeld`,
`GuideDelivered`, `ProvisioningEnds`, `EventAcknowledged` and `PaidOrderNoticed`, which
are beyond this prover, and the counterexamples of section 7, which are runs.

Some definitions have the form they have because of the prover. It cannot look
into `SortSeq`, `Permutations` or `@@`, so sorted lists are relations (`Listing`) and
the routes of `Portal` a `CASE`; a nested `@` in an update is written out; the fields
of large records are sets with names (`SweepRuns`, `Polls`), stated once and
unfolded where they are needed.

## 7. Where documents and code part

Two of these are runs that expect the violation:

- `owner_lost`: `assertNotLastOwner` counts the owners in a statement of its own
  (`memberships.service.ts:175`); two owners who demote or remove each other both
  count two. Line 186: "An org must keep at least one OWNER".
- `unrevoked`: a subscription deleted while its order is PAID or PROVISIONING
  finds no ACTIVE order (`stripe-webhook.service.ts:273`), and the single
  terminate call is never repeated; `provisioning.service.ts:98` says a
  cancelled subscription is terminated.

The modules state more that does not hold. Add the line to a cfg to see it.

Money and orders:

- `INVARIANT AlertDurable` in `MCCommerce_orders.cfg`: `process()` mails the alert
  and then updates the job unconditionally (`commerce.service.ts:352`); a refund
  enqueued in between is marked alerted. Line 341 calls alerts durable.
- `PROPERTY DeliveryStopsAtHold` in `MCCommerce_orders.cfg`: `deliver()` mails from
  its batch snapshot (`commerce.service.ts:402`) after a refund event held the
  order; `docs/commerce/ROLLOUT.md:61` says a hold prevents delivery.
- `PROPERTY ActiveIsMailed` in `MCCommerce_review.cfg` with an operator: the job
  update after a guide mail writes AWAITING_REVIEW over the DELIVERY_PENDING of a
  confirmation made meanwhile, and the ready mail is never sent
  (`commerce.service.ts:415`).
- `PROPERTY GuideDelivered` in `MCCommerce_review.cfg` with two orders in a batch, of
  which one is in `BadMailboxes` (and, to keep it small, no reversal and no
  restart): the mailbox that rejects mail ends every run of
  `deliver()` before the orders after it (`commerce.service.ts:409`).
- `PROPERTY PaidOrderNoticed` in `MCFulfilment_recovery.cfg` with `Batch = 1`: orders
  already reviewed stay in the oldest-first batch
  (`paid-order-recovery.service.ts:42`) and hide newer ones;
  `docs/architecture/PAID-ORDER-RECOVERY.md:21` says the scan makes a stranded
  order visible.
- `INVARIANT OneOrderPerCheckout` in `MCFulfilment_concurrent.cfg`: two deliveries
  of one event each create an order (`stripe-webhook.service.ts:90`). The surplus
  one stays PENDING.
- `INVARIANT ActiveIsPaid` in `MCFulfilment_handlers.cfg`: a completed session is
  taken for a payment, so a delayed payment method is provisioned before any
  money is captured (`stripe-webhook.service.ts:190`).
- The PAID write is unconditional on a status read earlier
  (`stripe-webhook.service.ts:192`): of two deliveries that found one order PENDING,
  the second moves an order that may be ACTIVE by then back to PAID, or replaces the
  payment of the first. `order-state-machine.ts:5` calls the machine "the single
  source of truth". `StatusFollowsMachine` and `RecordedPaymentKept` excuse exactly
  these orders (`contested`); without that disjunct both are violated in
  `MCFulfilment_cancellation.cfg`.
- `INVARIANT OneSubscription` in `MCOrganisation_subjects.cfg`: two requests pass the
  check for a live subscription together (`billing.service.ts:126`).
- `INVARIANT MirrorReconciled` in `MCOrganisation_subjects.cfg`: an older event applied
  last stays in the mirror row (`stripe-webhook.service.ts:250`).
- `INVARIANT SeatsReconciled` in `MCMembers_people.cfg`: the subscription webhook
  writes the quantity its event carries (`stripe-webhook.service.ts:233`). Add a
  member, remove one, deliver the event of the addition late, add again: the count
  equals the stale mirror, `syncSeats` tells Stripe nothing (`billing.service.ts:92`)
  and Stripe bills one seat for two members. Line 84 says the next webhook
  reconciles.
- The account a legacy order is placed for is a field of the request
  (`provisioning.service.ts:390`), never compared with the client's own. An order
  placed for another account stays in `provisioning`, because both pollers look
  among the services of the client's account, which is what `DeployedIsServed` says.
- `INVARIANT OneRemotePerOrder` in `MCAuditLog_trails.cfg`: the key of a legacy call is
  the account's, so a second order for one account is answered with the first one's
  service (`resellportal.client.ts:125`). `safePlaceOrder`, which would look up
  before it places, has no caller.

Access:

- `INVARIANT AutoJoinProven` in `MCOrganisation_subjects.cfg`: an update and a removal
  that overlap leave auto-join on a domain without a proof; `auth.service.ts:117`
  says it can only point at a verified one.
- `PROPERTY InvitedRoleGiven` in `MCMembers_people.cfg`: signing in inside `accept` joins
  the user by domain first, with the default role (`invitations.service.ts:204`);
  line 170 says the ways in end in the same membership.
- `PROPERTY SessionNotDropped` in `MCMembers_people.cfg`: of two views that refresh, the
  slower one drops the session (`session.ts:25`). `auth()` in a server component
  cannot set a cookie, so a refresh there is lost as well: that is `answerLost`.
- `session.ts:16` says that hidden affordances and rejected requests can never drift
  apart. The team page offers its invitation form at the seat limit too
  (`team/page.tsx:144`), where the API refuses it (`billing.service.ts:75`).
  `OfferedIsAccepted` counts that answer as declined, not as refused.
- Signing out of the portal never calls the API's logout, so the refresh token
  stays live (`signOut` of `Session`); and `session.ts:42` calls a session
  revoked whose access token, a JWT nobody looks up, is good until it expires.

Reports:

- `INVARIANT DeployedAuditedOnce` in `MCAuditLog_trails.cfg`: the API's poller updates
  without a condition and audits a second time (`provisioning.service.ts:457`);
  `resellportal-poller.ts:71` says only one can.
- A failed audit write of the API's poller is swallowed
  (`provisioning.service.ts:474`): the order is deployed, so no later run finds it,
  and the row is missing for good without a process that ended. `GapWasCut` excuses
  such orders as it does those of a crash; the integrity scan counts them.
- The backfill starts at the lowest id each time (`audit-ownership-backfill.ts:69`)
  and passes over rows that it cannot attribute: as many of them as the cap keep
  it from ever seeing the rows behind. It then calls itself incomplete, which is
  why `CompleteReports` holds.
- `audit-tenant-resolver.types.ts:62` says no cross-tenant comparison is made for
  a `verified_self_membership`; the service makes it
  (`audit-tenant-resolver.service.ts:95`).
- The overview page shows zero for a figure that could not be read; only the
  health beside it says so (`HealthyIsRead` of `Gates`).
- A mapping that the schema rejects may still answer `isPurchaseEnabled`
  (`MappingGatesAgree` therefore asks it of accepted mappings only).

## 8. What is not modelled

`PROJECT.json` gives the reason per component. Within the modelled ones:

- Commerce: the intake form, the signed download and the lists; `findMany` with
  its `include` is one read; tools bought from ResellPortal, which no deal
  allows at this commit. A late `checkoutSave` may store another session
  than the paid one, which is why `ReversalCaught` and `ReversedIsHeld` speak of
  orders whose payment is their session.
- Fulfilment: one organisation; the read and the Stripe call of
  `createCheckoutSession` are one step there (`Subscription` has them apart); the
  reads at the start of `provisionService` are one step; a database error in a
  handler is the crash of that delivery; idempotency records are never cleaned up.
- Workspace: one workspace; the page row's `FOR UPDATE` is always taken under
  the workspace lock, which stands for both; the role check and the page read of
  the edit form are one step; the text and order of links are their stamp; a
  hand-written request that names the id of a deleted link would restore it,
  the form never does, and forms are what is modelled; revoking an accepted
  invitation changes only its row.
- Team: one organisation with one auto-join domain, verified and fixed
  (`Domains` is where it changes); passwords and access tokens; a mail that is lost
  is a link that is never opened. The seat limit is fixed.
- Session: one browser; access tokens are expired or not. The thirty days of a
  refresh token are not counted. A response of a view that did not refresh writes
  its old cookie back once, at any later time.
- Portal: what is typed into a form may be declined for reasons that are not
  modelled (an address invited already, a missing TXT record, a plan too small), and
  the invitation of a full plan is declined too; layout, texts, the link editor, the public pages and downloads; forms
  of pages whose API is modelled elsewhere only reach the guard here.
- Subscription: prices and trials; the mail about a failed payment. A paid
  session and its subscription are one event of Stripe's.
- AuditLog: metadata, actors and the reasons the resolver counts; look-ups that
  need more than one query are one step.
- LegacyOrder: plans and prices of the call; the mail to the client.
- The Astro site, the shared UI, the mail templates and the generated catalogues
  are text. `ssl-expiry-check.ts` opens a connection to each domain and logs: it
  keeps no state. GLINKS account recovery is open work (section 2).
