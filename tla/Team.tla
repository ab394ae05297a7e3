-------------------------------- MODULE Team --------------------------------
(* Who belongs to one organisation: memberships, invitations, auto-join at   *)
(* sign-in, and the seats these take and report to Stripe.                   *)
(*   apps/api/src/memberships/memberships.service.ts                         *)
(*   apps/api/src/invitations/invitations.service.ts                         *)
(*   apps/api/src/auth/auth.service.ts, billing/billing.service.ts           *)
(* Nothing here runs in a transaction that reads: every rule is one or more  *)
(* reads, and an unconditional write some awaits later.                      *)
EXTENDS Permissions, Integers, FiniteSets

CONSTANTS
  Users,       \* e-mail addresses, with or without an account
  Founder,     \* who created the organisation
  JoinDomain,  \* addresses at the auto-join domain
  Reqs,        \* requests in flight at a time
  Invites,     \* rows of Invitation
  Ops,         \* the kinds of request made
  Limit,       \* seatLimit of the plan in force
  MaxRows,     \* bound: how often one user is made a member
  NoUser, NoInvite

Kinds == {"add", "changeRole", "remove", "invite", "resend", "revoke",
          "accept", "login"}

ASSUME TeamConstants ==
  /\ IsFiniteSet(Users) /\ IsFiniteSet(Reqs)
  /\ Founder \in Users /\ NoUser \notin Users /\ NoInvite \notin Invites
  /\ JoinDomain \subseteq Users /\ Ops \subseteq Kinds
  /\ Limit \in Nat \ {0} /\ MaxRows \in Nat \ {0}

VARIABLES
  role,     \* Membership.role of a user, "none" without a membership
  row,      \* Membership.id: how many memberships the user has had
  account,  \* User: none, bare (no password), password
  inv,      \* Invitation
  req,      \* what a request in flight has read
  stripe,   \* quantity of the subscription item at Stripe
  mirror,   \* Subscription.seatsPurchased
  sent,     \* quantities in subscription events on their way; equal ones are one
  overlap,  \* observed: two changes of members were between read and write
  crowd,    \* observed: the most additions ever between seat check and insert
  unsettled, \* observed: two syncs overlapped, or one ended before its writes
  late      \* observed: since the last sync that wrote, an event was applied
            \* whose quantity was no longer Stripe's

vars == <<role, row, account, inv, req, stripe, mirror, sent, overlap, crowd,
          unsettled, late>>
rows == <<role, row, account>>
seats == <<stripe, mirror, sent>>
seen == <<overlap, crowd, unsettled, late>>

Members == {u \in Users : role[u] # "none"}
Owners == {u \in Users : role[u] = "OWNER"}

NoRequest == [pc |-> "idle", kind |-> "none", as |-> "none", at |-> NoUser,
              id |-> 0, role |-> "none", inv |-> NoInvite,
              qty |-> 0, then |-> "idle", was |-> "none"]
NoInvitation == [to |-> NoUser, role |-> "none", status |-> "absent",
                 expiry |-> "past", as |-> "none"]

Is(r, pc, kinds) == req[r].pc = pc /\ req[r].kind \in kinds
Go(r, next) == req' = [req EXCEPT ![r] = next]
Done(r) == req' = [req EXCEPT ![r] = NoRequest]
\* Nothing that was read is used once the seats are all that is left to do.
Settle(r) == Go(r, [NoRequest EXCEPT !.pc = "sync", !.kind = req[r].kind])

Steps == {"idle", "find", "count", "write", "expire", "auth", "join", "joinWrite",
          "member", "enter", "mark", "sync", "push", "save"}
Request == [pc : Steps, kind : Kinds \cup {"none"}, as : ROLES \cup {"none"},
            at : Users \cup {NoUser}, id : 0..MaxRows,
            role : ROLES \cup {"none"}, inv : Invites \cup {NoInvite},
            qty : 0..Cardinality(Users), then : {"idle", "member"},
            was : ROLES \cup {"none"}]
Invitation == [to : Users \cup {NoUser}, role : ROLES \cup {"none"},
               status : {"absent", "PENDING", "ACCEPTED", "REVOKED", "EXPIRED"},
               expiry : {"ahead", "past"}, as : ROLES \cup {"none"}]

TypeOK ==
  /\ role \in [Users -> ROLES \cup {"none"}]
  /\ row \in [Users -> 0..MaxRows]
  /\ account \in [Users -> {"none", "bare", "password"}]
  /\ inv \in [Invites -> Invitation] /\ req \in [Reqs -> Request]
  /\ stripe \in 0..Cardinality(Users) /\ mirror \in 0..Cardinality(Users)
  /\ sent \subseteq 0..Cardinality(Users)
  /\ overlap \in BOOLEAN /\ unsettled \in BOOLEAN /\ late \in BOOLEAN
  /\ crowd \in 1..Cardinality(Reqs) + 1
  /\ \A u \in Members : account[u] # "none" /\ row[u] > 0

\* OrgsService.create: the caller is the first OWNER, in one transaction.
Init ==
  /\ role = [u \in Users |-> IF u = Founder THEN "OWNER" ELSE "none"]
  /\ row = [u \in Users |-> IF u = Founder THEN 1 ELSE 0]
  /\ account \in [Users -> {"none", "bare", "password"}]
  /\ account[Founder] = "password"
  /\ inv = [i \in Invites |-> NoInvitation]
  /\ req = [r \in Reqs |-> NoRequest]
  /\ stripe = 1 /\ mirror = 1 /\ sent = {1}
  /\ overlap = FALSE /\ crowd = 1 /\ unsettled = FALSE /\ late = FALSE

-----------------------------------------------------------------------------
\* The guard reads the caller's live membership; the rest of the request works
\* with the role read here.
Requires == [add |-> "member_invite", changeRole |-> "member_manage",
             remove |-> "member_manage", invite |-> "member_invite",
             resend |-> "member_invite", revoke |-> "member_invite"]

canActivate(r) ==
  /\ req[r].pc = "idle"
  /\ \E caller \in Users, k \in Ops \cap DOMAIN Requires :
       /\ can(role[caller], Requires[k])
       /\ Go(r, [req[r] EXCEPT !.pc = "find", !.kind = k, !.as = role[caller]])
  /\ UNCHANGED <<rows, inv, seats, seen>>

assertCanGrant(r, granted) == granted = "OWNER" => req[r].as = "OWNER"
assertCanTouch(r, u) == role[u] = "OWNER" => req[r].as = "OWNER"
assertSeatAvailable == Cardinality(Members) < Limit

\* Requests that passed the seat check and have not inserted yet.
Entering(q) == {r \in Reqs : \/ q[r].pc = "write" /\ q[r].kind = "add"
                             \/ q[r].pc \in {"joinWrite", "enter"}}
NoteCrowd ==
  /\ crowd' = IF Cardinality(Entering(req')) > crowd
              THEN Cardinality(Entering(req')) ELSE crowd
  /\ UNCHANGED <<overlap, unsettled, late>>

\* INSERT into Membership: the unique (userId, orgId) refuses a second one.
Create(u, granted) ==
  /\ role[u] = "none" /\ row[u] < MaxRows
  /\ role' = [role EXCEPT ![u] = granted]
  /\ row' = [row EXCEPT ![u] = @ + 1]
  /\ UNCHANGED account

\* Two requests between finding a member and writing to it.
Changing(q) == {r \in Reqs : q[r].kind \in {"changeRole", "remove"}
                             /\ q[r].pc \in {"count", "write"}}
NoteOverlap ==
  /\ overlap' = (overlap \/ Cardinality(Changing(req')) > 1)
  /\ UNCHANGED <<crowd, unsettled, late>>

add(r) ==
  /\ Is(r, "find", {"add"})
  /\ \E u \in Users, granted \in ROLES :
       /\ assertCanGrant(r, granted)
       /\ account[u] # "none" /\ role[u] = "none"
       /\ assertSeatAvailable
       /\ Go(r, [req[r] EXCEPT !.pc = "write", !.at = u, !.role = granted])
  /\ NoteCrowd
  /\ UNCHANGED <<rows, inv, seats>>

addWrite(r) ==
  /\ Is(r, "write", {"add"})
  /\ Create(req[r].at, req[r].role)
  /\ Settle(r)
  /\ UNCHANGED <<inv, seats, seen>>

\* Plausible bug: an ADMIN may make somebody OWNER.
changeRole_bug(r) ==
  /\ Is(r, "find", {"changeRole"})
  /\ \E u \in Members, granted \in ROLES :
       /\ assertCanTouch(r, u)
       /\ Go(r, [req[r] EXCEPT !.pc = IF role[u] = "OWNER" /\ granted # "OWNER"
                        THEN "count" ELSE "write",
                 !.at = u, !.id = row[u], !.role = granted])
  /\ NoteOverlap
  /\ UNCHANGED <<rows, inv, seats>>

changeRole(r) ==
  /\ Is(r, "find", {"changeRole"})
  /\ \E u \in Members, granted \in ROLES :
       /\ assertCanGrant(r, granted) /\ assertCanTouch(r, u)
       /\ Go(r, [req[r] EXCEPT !.pc = IF role[u] = "OWNER" /\ granted # "OWNER"
                        THEN "count" ELSE "write",
                 !.at = u, !.id = row[u], !.role = granted])
  /\ NoteOverlap
  /\ UNCHANGED <<rows, inv, seats>>

remove(r) ==
  /\ Is(r, "find", {"remove"})
  /\ \E u \in Members :
       /\ assertCanTouch(r, u)
       /\ Go(r, [req[r] EXCEPT !.pc = IF role[u] = "OWNER" THEN "count" ELSE "write",
                 !.at = u, !.id = row[u]])
  /\ NoteOverlap
  /\ UNCHANGED <<rows, inv, seats>>

\* Plausible bug: the member who is about to change is counted too.
assertNotLastOwner_bug(r) ==
  /\ Is(r, "count", {"changeRole", "remove"})
  /\ Owners # {}
  /\ Go(r, [req[r] EXCEPT !.pc = "write"])
  /\ UNCHANGED <<rows, inv, seats, seen>>

\* The rows counted are the other ones: { id: { not: excludingId } }.
assertNotLastOwner(r) ==
  /\ Is(r, "count", {"changeRole", "remove"})
  /\ \E u \in Owners : u # req[r].at \/ row[u] # req[r].id
  /\ Go(r, [req[r] EXCEPT !.pc = "write"])
  /\ UNCHANGED <<rows, inv, seats, seen>>

\* An update or a delete of a row that is gone throws.
Found(r) == role[req[r].at] # "none" /\ row[req[r].at] = req[r].id

changeRoleWrite(r) ==
  /\ Is(r, "write", {"changeRole"})
  /\ Found(r)
  /\ role' = [role EXCEPT ![req[r].at] = req[r].role]
  /\ Done(r)
  /\ UNCHANGED <<row, account, inv, seats, seen>>

removeWrite(r) ==
  /\ Is(r, "write", {"remove"})
  /\ Found(r)
  /\ role' = [role EXCEPT ![req[r].at] = "none"]
  /\ Settle(r)
  /\ UNCHANGED <<row, account, inv, seats, seen>>

-----------------------------------------------------------------------------
create(r) ==
  /\ Is(r, "find", {"invite"})
  /\ \E u \in Users, granted \in ROLES :
       /\ assertCanGrant(r, granted)
       /\ role[u] = "none"
       /\ ~\E i \in Invites : inv[i].to = u /\ inv[i].status = "PENDING"
       /\ assertSeatAvailable
       /\ Go(r, [req[r] EXCEPT !.pc = "write", !.at = u, !.role = granted])
  /\ UNCHANGED <<rows, inv, seats, seen>>

createWrite(r) ==
  /\ Is(r, "write", {"invite"})
  /\ \E i \in Invites :
       /\ inv[i].status = "absent"
       /\ inv' = [inv EXCEPT ![i] =
            [to |-> req[r].at, role |-> req[r].role, status |-> "PENDING",
             expiry |-> "ahead", as |-> req[r].as]]
  /\ Done(r)
  /\ UNCHANGED <<rows, seats, seen>>

resend(r) ==
  /\ Is(r, "find", {"resend"})
  /\ \E i \in Invites : /\ inv[i].status \in {"PENDING", "EXPIRED"}
                        /\ Go(r, [req[r] EXCEPT !.pc = "write", !.inv = i])
  /\ UNCHANGED <<rows, inv, seats, seen>>

\* A new token: nobody else can start an acceptance with the old one.
resendWrite(r) ==
  /\ Is(r, "write", {"resend"})
  /\ LET i == req[r].inv IN inv' = [inv EXCEPT ![i] =
       [to |-> inv[i].to, role |-> inv[i].role, status |-> "PENDING",
        expiry |-> "ahead", as |-> inv[i].as]]
  /\ Done(r)
  /\ UNCHANGED <<rows, seats, seen>>

revoke(r) ==
  /\ Is(r, "find", {"revoke"})
  /\ \E i \in Invites : /\ inv[i].status = "PENDING"
                        /\ Go(r, [req[r] EXCEPT !.pc = "write", !.inv = i])
  /\ UNCHANGED <<rows, inv, seats, seen>>

revokeWrite(r) ==
  /\ Is(r, "write", {"revoke"})
  /\ inv' = [inv EXCEPT ![req[r].inv].status = "REVOKED"]
  /\ Done(r)
  /\ UNCHANGED <<rows, seats, seen>>

expire(i) ==
  /\ inv[i].status = "PENDING" /\ inv[i].expiry = "ahead"
  /\ inv' = [inv EXCEPT ![i].expiry = "past"]
  /\ UNCHANGED <<rows, req, seats, seen>>

-----------------------------------------------------------------------------
\* accept, and preview as far as it marks an expired invitation.
findLiveByToken(r) ==
  /\ req[r].pc = "idle" /\ "accept" \in Ops
  /\ \E i \in Invites :
       /\ inv[i].status = "PENDING"
       /\ Go(r, [pc |-> IF inv[i].expiry = "ahead" THEN "auth" ELSE "expire",
                 kind |-> "accept", as |-> "none", at |-> inv[i].to, id |-> 0,
                 role |-> inv[i].role, inv |-> i, qty |-> 0, then |-> "idle",
                 was |-> role[inv[i].to]])
  /\ UNCHANGED <<rows, inv, seats, seen>>

expireWrite(r) ==
  /\ Is(r, "expire", {"accept"})
  /\ inv' = [inv EXCEPT ![req[r].inv].status = "EXPIRED"]
  /\ Done(r)
  /\ UNCHANGED <<rows, seats, seen>>

\* The three ways in: a bearer token, a password that logs in, claims a bare
\* account or registers a new one. Only login and register auto-join.
authenticate(r) ==
  /\ Is(r, "auth", {"accept"})
  /\ LET u == req[r].at IN
       \/ /\ account[u] # "none"
          /\ Go(r, [req[r] EXCEPT !.pc = "member"])
          /\ UNCHANGED account
       \/ /\ account[u] = "bare"
          /\ account' = [account EXCEPT ![u] = "password"]
          /\ Go(r, [req[r] EXCEPT !.pc = "member"])
       \/ /\ account[u] # "bare"
          /\ account' = [account EXCEPT ![u] = "password"]
          /\ Go(r, IF u \in JoinDomain
                   THEN [req[r] EXCEPT !.pc = "join", !.then = "member"]
                   ELSE [req[r] EXCEPT !.pc = "member"])
  /\ UNCHANGED <<role, row, inv, seats, seen>>

\* AuthService.login and register outside an invitation.
login(r) ==
  /\ req[r].pc = "idle" /\ "login" \in Ops
  /\ \E u \in JoinDomain :
       /\ account[u] # "bare"
       /\ account' = [account EXCEPT ![u] = "password"]
       /\ Go(r, [req[r] EXCEPT !.pc = "join", !.kind = "login", !.at = u])
  /\ UNCHANGED <<role, row, inv, seats, seen>>

\* Where a request goes on after auto-join, or after the seats are synced.
After(r) == IF req[r].then = "idle" THEN NoRequest
            ELSE [req[r] EXCEPT !.pc = req[r].then, !.then = "idle"]

\* Plausible bug: auto-join does not look at the seats.
autoJoinByDomain_bug(r) ==
  /\ Is(r, "join", {"accept", "login"})
  /\ req' = [req EXCEPT ![r] =
       IF role[req[r].at] = "none" THEN [@ EXCEPT !.pc = "joinWrite"] ELSE After(r)]
  /\ NoteCrowd
  /\ UNCHANGED <<rows, inv, seats>>

autoJoinByDomain(r) ==
  /\ Is(r, "join", {"accept", "login"})
  /\ req' = [req EXCEPT ![r] =
       IF role[req[r].at] = "none" /\ assertSeatAvailable
       THEN [@ EXCEPT !.pc = "joinWrite"] ELSE After(r)]
  /\ NoteCrowd
  /\ UNCHANGED <<rows, inv, seats>>

autoJoinWrite(r) ==
  /\ Is(r, "joinWrite", {"accept", "login"})
  /\ Create(req[r].at, "MEMBER")
  /\ Go(r, [req[r] EXCEPT !.pc = "sync"])
  /\ UNCHANGED <<inv, seats, seen>>

acceptMember(r) ==
  /\ Is(r, "member", {"accept"})
  /\ \/ /\ role[req[r].at] # "none"
        /\ Go(r, [req[r] EXCEPT !.pc = "mark"])
     \/ /\ role[req[r].at] = "none" /\ assertSeatAvailable
        /\ Go(r, [req[r] EXCEPT !.pc = "enter"])
  /\ NoteCrowd
  /\ UNCHANGED <<rows, inv, seats>>

acceptEnter(r) ==
  /\ Is(r, "enter", {"accept"})
  /\ Create(req[r].at, req[r].role)
  /\ Go(r, [req[r] EXCEPT !.pc = "mark"])
  /\ UNCHANGED <<inv, seats, seen>>

acceptMark(r) ==
  /\ Is(r, "mark", {"accept"})
  /\ inv' = [inv EXCEPT ![req[r].inv].status = "ACCEPTED"]
  /\ Settle(r)
  /\ UNCHANGED <<rows, seats, seen>>

-----------------------------------------------------------------------------
\* syncSeats: count, compare with the mirror, tell Stripe, update the mirror.
Syncing == {r \in Reqs : req[r].pc \in {"push", "save"}}

\* Plausible bug: a seat that became free is not reported.
syncSeats_bug(r) ==
  /\ req[r].pc = "sync"
  /\ LET quantity == Cardinality(Members) IN
       req' = [req EXCEPT ![r] = IF quantity <= mirror THEN After(r)
                                 ELSE [@ EXCEPT !.pc = "push", !.qty = quantity]]
  /\ unsettled' = (unsettled \/ Syncing # {})
  /\ UNCHANGED <<rows, inv, seats, overlap, crowd, late>>

syncSeats(r) ==
  /\ req[r].pc = "sync"
  /\ LET quantity == Cardinality(Members) IN
       req' = [req EXCEPT ![r] = IF quantity = mirror THEN After(r)
                                 ELSE [@ EXCEPT !.pc = "push", !.qty = quantity]]
  /\ unsettled' = (unsettled \/ Syncing # {})
  /\ UNCHANGED <<rows, inv, seats, overlap, crowd, late>>

pushSeats(r) ==
  /\ req[r].pc = "push"
  /\ stripe' = req[r].qty
  /\ sent' = sent \cup ({req[r].qty} \ {stripe})
  /\ Go(r, [req[r] EXCEPT !.pc = "save"])
  /\ UNCHANGED <<rows, inv, mirror, seen>>

saveSeats(r) ==
  /\ req[r].pc = "save"
  /\ mirror' = req[r].qty
  /\ late' = FALSE
  /\ req' = [req EXCEPT ![r] = After(r)]
  /\ UNCHANGED <<rows, inv, stripe, sent, overlap, crowd, unsettled>>

\* Stripe's error is caught and logged.
syncFails(r) ==
  /\ req[r].pc = "push"
  /\ req' = [req EXCEPT ![r] = After(r)]
  /\ unsettled' = TRUE
  /\ UNCHANGED <<rows, inv, seats, overlap, crowd, late>>

\* customer.subscription.created or updated: the mirror takes the quantity that
\* the event carries, Stripe's at the time it was issued. Events come in any
\* order, and one that could not be recorded comes again.
reconcile ==
  /\ \E q \in sent :
       /\ mirror' = q
       /\ sent' \in {sent, sent \ {q}}
       /\ late' = (late \/ q # stripe)
  /\ UNCHANGED <<rows, inv, req, stripe, overlap, crowd, unsettled>>

\* A refused check, a unique column or a database error ends the request.
fails(r) ==
  /\ req[r].pc # "idle"
  /\ Done(r)
  /\ unsettled' = (unsettled \/ req[r].pc \in {"mark", "sync", "push", "save"})
  /\ UNCHANGED <<rows, inv, seats, overlap, crowd, late>>

Next ==
  \/ \E r \in Reqs :
       \/ canActivate(r) \/ add(r) \/ addWrite(r)
       \/ changeRole(r) \/ remove(r) \/ assertNotLastOwner(r)
       \/ changeRoleWrite(r) \/ removeWrite(r)
       \/ create(r) \/ createWrite(r) \/ resend(r) \/ resendWrite(r)
       \/ revoke(r) \/ revokeWrite(r)
       \/ findLiveByToken(r) \/ expireWrite(r) \/ authenticate(r)
       \/ login(r) \/ autoJoinByDomain(r) \/ autoJoinWrite(r)
       \/ acceptMember(r) \/ acceptEnter(r) \/ acceptMark(r)
       \/ syncSeats(r) \/ pushSeats(r) \/ saveSeats(r) \/ syncFails(r)
       \/ fails(r)
  \/ \E i \in Invites : expire(i)
  \/ reconcile

Spec == Init /\ [][Next]_vars

-----------------------------------------------------------------------------
\* The seat limit is a check before an insert. Additions may pass it together,
\* and exceed it by one less than were ever at that point at once: no way in
\* goes round the check or trusts an older one (billing.service.ts:73).
SeatOvershoot == Cardinality(Members) <= Limit - 1 + crowd

\* While changes of members do not overlap, the organisation has an owner
\* (memberships.service.ts:175).
OwnerKeptAlone == overlap \/ Owners # {}

\* "An org must keep at least one OWNER" (memberships.service.ts:186): it does
\* not when two owners are demoted or removed at once.
OwnerKept == Owners # {}

\* Somebody becomes an OWNER only by a request of an OWNER, or by accepting an
\* invitation that an OWNER sent, whatever was resent or expired in between.
OwnerFromOwner ==
  [][\A u \in Users : u \in Owners' /\ u \notin Owners =>
       \E r \in Reqs :
         /\ req[r].at = u
         /\ \/ req[r].as = "OWNER"
            \/ req[r].kind = "accept" /\ inv[req[r].inv].as = "OWNER"]_vars

\* When nothing is in flight Stripe bills the members there are, unless two
\* syncs overlapped, one did not end, or the mirror was last written by an event
\* that a newer quantity had overtaken (billing.service.ts:91): what is compared
\* is never older than the last quantity sent.
SeatsSettle ==
  (\A r \in Reqs : req[r].pc = "idle") /\ ~unsettled /\ ~late
    => stripe = Cardinality(Members)

\* "The next customer.subscription.updated webhook reconciles seatsPurchased
\* regardless" (billing.service.ts:84): when every event was delivered and no
\* sync overlapped or failed, Stripe bills the members. It does not when the
\* event of an addition comes after that of a removal: the next addition finds
\* the mirror right and tells Stripe nothing.
SeatsReconciled ==
  (\A r \in Reqs : req[r].pc = "idle") /\ ~unsettled /\ sent = {}
    => stripe = Cardinality(Members)

\* "Three ways in, all ending in the same Membership"
\* (invitations.service.ts:170): they do not when signing in auto-joins.
InvitedRoleGiven ==
  [][\A i \in Invites :
       inv[i].status = "PENDING" /\ inv'[i].status = "ACCEPTED" =>
         \A r \in Reqs : req[r].pc = "mark" /\ req[r].inv = i /\ req[r].was = "none" =>
           role[inv[i].to] = inv[i].role]_vars
=============================================================================
