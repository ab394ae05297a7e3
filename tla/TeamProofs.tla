----------------------------- MODULE TeamProofs -----------------------------
(* Team for every number of users, requests, invitations and seats.          *)
EXTENDS Team, FiniteSetTheorems, TLAPS

Sent(i) == i \in Invites /\ inv[i].status # "absent"
Accepting(r) == \/ req[r].kind = "accept"
                   /\ req[r].pc \in {"auth", "join", "joinWrite", "member", "enter"}
                \/ req[r].then = "member"

\* What a request in flight names exists: the user, the account, the row, the
\* invitation; and it grants OWNER only for an OWNER.
Reading(r) ==
  /\ req[r].pc = "idle" => req[r].then = "idle"
  /\ req[r].then = "member" => req[r].kind = "accept"
  /\ r \in Changing(req) => req[r].at \in Users /\ req[r].id <= row[req[r].at]
  /\ r \in Changing(req) /\ req[r].kind = "changeRole" => req[r].role \in ROLES
  /\ req[r].pc = "auth" \/ (req[r].pc = "write" /\ req[r].kind = "invite") => req[r].at \in Users
  /\ (req[r].pc = "write" /\ req[r].kind \in {"add", "invite"}) \/ Accepting(r)
       => req[r].role \in ROLES
  /\ \/ req[r].pc \in {"join", "joinWrite", "member", "enter"}
     \/ req[r].pc = "write" /\ req[r].kind = "add"
     \/ req[r].then = "member"
     => req[r].at \in Users /\ account[req[r].at] # "none"
  /\ \/ req[r].pc = "write" /\ req[r].kind \in {"resend", "revoke"}
     \/ req[r].pc \in {"expire", "mark"} \/ Accepting(r)
     => Sent(req[r].inv)
  /\ req[r].role = "OWNER" =>
       /\ req[r].pc \in {"count", "write"} /\ req[r].kind \in {"add", "changeRole", "invite"}
            => req[r].as = "OWNER"
       /\ Accepting(r) => inv[req[r].inv].as = "OWNER"

Sending == \A i \in Invites : inv[i].status # "absent" =>
  inv[i].to \in Users /\ inv[i].role \in ROLES /\ (inv[i].role = "OWNER" => inv[i].as = "OWNER")

\* Whoever is past the seat check counts as a member already.
Seated == Cardinality(Members) + Cardinality(Entering(req)) <= Limit - 1 + crowd

\* While changes do not overlap, the one that takes an owner's role leaves another.
Takes(r) == /\ req[r].pc = "write" /\ Found(r) /\ role[req[r].at] = "OWNER"
            /\ \/ req[r].kind = "remove"
               \/ req[r].kind = "changeRole" /\ req[r].role # "OWNER"
Alone ==
  ~overlap =>
    /\ Owners # {}
    /\ \A r, s \in Changing(req) : r = s
    /\ \A r \in Reqs : Takes(r) => \E u \in Owners : u # req[r].at

\* While syncs do not overlap, what is not yet at Stripe is on its way, and the
\* mirror is Stripe's quantity if no overtaken event was applied to it.
Settled ==
  ~unsettled =>
    /\ \A r, s \in Reqs : r \in Syncing /\ s \in Syncing => r = s
    /\ (\A r \in Reqs : r \notin Syncing) /\ ~late => mirror = stripe
    /\ \A r \in Reqs : /\ req[r].pc = "push" /\ ~late => mirror = stripe
                       /\ req[r].pc = "save" => stripe = req[r].qty
    /\ (\A r \in Reqs : req[r].pc \notin {"mark", "sync"}) =>
         /\ \A r \in Syncing : req[r].qty = Cardinality(Members)
         /\ (\A r \in Reqs : r \notin Syncing) /\ ~late => stripe = Cardinality(Members)

IInv == /\ TypeOK /\ (\A r \in Reqs : Reading(r)) /\ Sending
        /\ Seated /\ Alone /\ Settled

\* A step of r alone.
Only(r) == req' \in [Reqs -> Request] /\ \A s \in Reqs \ {r} : req'[s] = req[s]

-----------------------------------------------------------------------------
LEMMA Counts ==
  ASSUME TeamConstants
  PROVE  /\ Cardinality(Users) \in Nat /\ Cardinality(Reqs) \in Nat
         /\ IsFiniteSet(Members) /\ Cardinality(Members) \in 0..Cardinality(Users)
         /\ \A q : IsFiniteSet(Entering(q)) /\ Cardinality(Entering(q)) \in 0..Cardinality(Reqs)
<1>1. IsFiniteSet(Users) /\ IsFiniteSet(Reqs)
  BY DEF TeamConstants
<1>2. Cardinality(Users) \in Nat /\ Cardinality(Reqs) \in Nat
  BY <1>1, FS_CardinalityType
<1>3. Members \in SUBSET Users
  BY DEF Members
<1>4. IsFiniteSet(Members) /\ Cardinality(Members) <= Cardinality(Users)
  BY <1>1, <1>3, FS_Subset
<1>5. Cardinality(Members) \in Nat
  BY <1>4, FS_CardinalityType
<1>6. ASSUME NEW q
      PROVE IsFiniteSet(Entering(q)) /\ Cardinality(Entering(q)) \in 0..Cardinality(Reqs)
  <2>1. Entering(q) \in SUBSET Reqs
    BY DEF Entering
  <2>2. IsFiniteSet(Entering(q)) /\ Cardinality(Entering(q)) <= Cardinality(Reqs)
    BY <1>1, <2>1, FS_Subset
  <2>3. Cardinality(Entering(q)) \in Nat
    BY <2>2, FS_CardinalityType
  <2> QED BY <1>2, <2>2, <2>3
<1> QED BY <1>2, <1>4, <1>5, <1>6

\* Requests and their records.
LEMMA Going ==
  ASSUME req \in [Reqs -> Request], NEW x \in Request, NEW r \in Reqs, Go(r, x)
  PROVE  Only(r) /\ req'[r] = x
BY DEF Go, Only

LEMMA Resting == ASSUME TeamConstants PROVE NoRequest \in Request
<1>1. 0 \in 0..MaxRows /\ 0 \in 0..Cardinality(Users)
  BY Counts DEF TeamConstants
<1> QED BY <1>1 DEF NoRequest, Request, Steps

LEMMA Ending ==
  ASSUME TeamConstants, req \in [Reqs -> Request], NEW r \in Reqs, Done(r)
  PROVE  Only(r) /\ req'[r] = NoRequest
BY Resting DEF Done, Only

LEMMA Settling ==
  ASSUME TeamConstants, req \in [Reqs -> Request], NEW r \in Reqs, Settle(r)
  PROVE  Only(r) /\ req'[r].pc = "sync" /\ req'[r].then = "idle" /\ req'[r].kind = req[r].kind
<1> DEFINE x == [NoRequest EXCEPT !.pc = "sync", !.kind = req[r].kind]
<1>1. req[r].kind \in Kinds \cup {"none"}
  BY DEF Request, Steps
<1>2. x \in Request
  BY <1>1, Resting DEF Request, Steps
<1>3. x.pc = "sync" /\ x.then = "idle" /\ x.kind = req[r].kind
  BY DEF NoRequest
<1> HIDE DEF x
<1>4. Go(r, x)
  BY DEF Settle, x
<1> QED BY <1>2, <1>3, <1>4, Going

LEMMA Continuing ==
  ASSUME TeamConstants, req \in [Reqs -> Request], NEW r \in Reqs, Reading(r)
  PROVE  /\ After(r) \in Request
         /\ After(r).then = "idle" /\ After(r).pc \in {"idle", "member"}
         /\ After(r).pc = "member" =>
              /\ req[r].then = "member"
              /\ After(r).kind = req[r].kind /\ After(r).at = req[r].at
              /\ After(r).inv = req[r].inv /\ After(r).role = req[r].role
<1>1. CASE req[r].then = "idle"
  BY <1>1, Resting DEF After, NoRequest
<1>2. CASE req[r].then # "idle"
  <2>1. req[r].then = "member"
    BY <1>2 DEF Request, Steps
  <2> DEFINE q == req[r]
  <2>2. q \in Request
    OBVIOUS
  <2>3. After(r) = [q EXCEPT !.pc = "member", !.then = "idle"]
    BY <2>1 DEF After
  <2> HIDE DEF q
  <2>4. "member" \in Steps /\ After(r) \in Request
    BY <2>2, <2>3 DEF Request, Steps
  <2>5. /\ After(r).then = "idle" /\ After(r).pc = "member"
        /\ After(r).kind = q.kind /\ After(r).at = q.at
        /\ After(r).inv = q.inv /\ After(r).role = q.role
    BY <2>2, <2>3 DEF Request
  <2> QED BY <2>1, <2>4, <2>5 DEF q
<1> QED BY <1>1, <1>2

-----------------------------------------------------------------------------
\* Steps that leave a part of the invariant as it is.
LEMMA SeatsQuiet ==
  ASSUME IInv, TeamConstants, NEW r \in Reqs, Only(r), crowd' \in Nat, crowd <= crowd', Members' \subseteq Members,
         r \in Entering(req') => r \in Entering(req)
  PROVE  Seated'
<1>1. Entering(req') \in SUBSET Entering(req)
  BY DEF Only, Entering
<1>2. Cardinality(Entering(req')) <= Cardinality(Entering(req))
  BY <1>1, Counts, FS_Subset
<1>3. Cardinality(Members') <= Cardinality(Members) /\ Cardinality(Members') \in Nat
  BY Counts, FS_Subset, FS_CardinalityType
<1> QED BY <1>2, <1>3, Counts DEF IInv, Seated, TypeOK, TeamConstants

LEMMA SeatsChecked ==
  ASSUME IInv, TeamConstants, assertSeatAvailable, role' = role, NoteCrowd
  PROVE  Seated'
<1>1. Cardinality(Entering(req')) <= crowd' /\ crowd' \in Nat
  BY Counts DEF NoteCrowd, IInv, TypeOK
<1>2. Members' = Members
  BY DEF Members
<1> QED BY <1>1, <1>2, Counts DEF assertSeatAvailable, Seated, TeamConstants

LEMMA SeatsTaken ==
  ASSUME IInv, TeamConstants, NEW r \in Reqs, Only(r), crowd' = crowd, NEW u \in Users, NEW g \in ROLES,
         Create(u, g), r \in Entering(req), r \notin Entering(req')
  PROVE  Seated'
<1>1. Entering(req') = Entering(req) \ {r}
  BY DEF Only, Entering
<1>2. Cardinality(Entering(req')) = Cardinality(Entering(req)) - 1
  BY <1>1, Counts, FS_RemoveElement
<1>3. Members' = Members \cup {u} /\ u \notin Members
  BY DEF Members, Create, IInv, TypeOK, ROLES
<1>4. Cardinality(Members') = Cardinality(Members) + 1
  BY <1>3, Counts, FS_AddElement
<1> QED BY <1>2, <1>4, Counts DEF IInv, Seated, TypeOK, TeamConstants

LEMMA AloneQuiet ==
  ASSUME IInv, NEW r \in Reqs, Only(r), UNCHANGED <<role, row, overlap>>,
         r \notin Changing(req')
  PROVE  Alone'
<1>1. \A s \in Changing(req') : s \in Changing(req) /\ s # r
  BY DEF Changing, Only
<1>2. \A s \in Reqs : Takes(s)' => Takes(s) /\ req'[s] = req[s]
  BY DEF Takes, Changing, Only, Found
<1>3. Owners' = Owners
  BY DEF Owners
<1> QED BY <1>1, <1>2, <1>3 DEF IInv, Alone

LEMMA AloneEntering ==
  ASSUME IInv, NEW r \in Reqs, Only(r), overlap' = overlap, NEW u \in Users, NEW g \in ROLES,
         Create(u, g), r \notin Changing(req')
  PROVE  Alone'
<1>1. \A s \in Changing(req') : s \in Changing(req) /\ s # r
  BY DEF Changing, Only
<1>2. /\ role[u] = "none" /\ row'[u] = row[u] + 1 /\ row[u] \in Nat
      /\ \A w \in Users \ {u} : role'[w] = role[w] /\ row'[w] = row[w]
  BY DEF Create, IInv, TypeOK
<1>3. ASSUME NEW s \in Reqs, Takes(s)' PROVE Takes(s) /\ req'[s] = req[s]
  <2>1. s \in Changing(req) /\ req'[s] = req[s]
    BY <1>3 DEF Takes, Changing, Only
  <2>2. req[s].at \in Users /\ req[s].id <= row[req[s].at] /\ req[s].id \in Nat
    BY <2>1 DEF IInv, Reading, TypeOK, Request, Steps
  <2>3. req[s].at # u
    BY <1>2, <1>3, <2>1, <2>2 DEF Takes, Found
  <2> QED BY <1>2, <1>3, <2>1, <2>2, <2>3 DEF Takes, Found
<1>4. Owners \subseteq Owners'
  BY <1>2 DEF Owners
<1> QED BY <1>1, <1>3, <1>4 DEF IInv, Alone

LEMMA SettledQuiet ==
  ASSUME IInv, NEW r \in Reqs, Only(r), UNCHANGED <<stripe, mirror, sent, unsettled, late>>,
         r \notin Syncing, r \notin Syncing',
         req[r].pc = "sync" => req'[r].pc = "sync",
         \/ req'[r].pc \in {"mark", "sync"}
         \/ Members' = Members /\ req[r].pc # "mark"
  PROVE  Settled'
<1>1. Syncing' = Syncing
  BY DEF Syncing, Only
<1>2. \A s \in Syncing : req'[s] = req[s]
  BY DEF Only, Syncing
<1> QED BY <1>1, <1>2 DEF IInv, Settled, Syncing, Only

-----------------------------------------------------------------------------
\* What the readers rely on goes on to hold.
Keeps ==
  /\ \A u \in Users : /\ account[u] # "none" => account'[u] # "none"
                      /\ row[u] <= row'[u]
  /\ \A i \in Invites : inv[i].status # "absent" =>
       inv'[i].status # "absent" /\ inv'[i].as = inv[i].as

LEMMA Readers ==
  ASSUME IInv, NEW r \in Reqs, Only(r), Keeps, TypeOK', Reading(r)'
  PROVE  \A s \in Reqs : Reading(s)'
<1>1. ASSUME NEW s \in Reqs \ {r} PROVE Reading(s)'
  <2>1. req'[s] = req[s] /\ Reading(s) /\ req[s] \in Request
    BY DEF Only, IInv, TypeOK
  <2>2. s \in Changing(req') <=> s \in Changing(req)
    BY <2>1 DEF Changing
  <2>3. req[s].at \in Users /\ req[s].id <= row[req[s].at] => req[s].id <= row'[req[s].at]
    BY <2>1 DEF Keeps, TypeOK, IInv, Request, Steps
  <2> QED BY <2>1, <2>2, <2>3 DEF Reading, Keeps, Sent, Accepting
<1> QED BY <1>1

LEMMA Looking ==
  ASSUME IInv, NEW r \in Reqs, Only(r), UNCHANGED <<rows, inv, seats>>,
         overlap' \in BOOLEAN, unsettled' \in BOOLEAN, late' \in BOOLEAN,
         crowd' \in 1..Cardinality(Reqs) + 1,
         Reading(r)'
  PROVE  TypeOK' /\ (\A s \in Reqs : Reading(s)') /\ Sending'
<1>1. TypeOK'
  BY DEF IInv, TypeOK, Only, rows, seats, Members
<1>2. Keeps
  BY DEF Keeps, rows, IInv, TypeOK
<1>3. Sending'
  BY DEF Sending, IInv
<1> QED BY <1>1, <1>2, <1>3, Readers

\* A step that changes no membership and reports no seats.
LEMMA Aside ==
  ASSUME IInv, TeamConstants, NEW r \in Reqs, Only(r), UNCHANGED <<role, row, seats, seen>>,
         account' \in [Users -> {"none", "bare", "password"}], inv' \in [Invites -> Invitation],
         Keeps, Sending', Reading(r)', r \notin Entering(req'), r \notin Changing(req'),
         r \notin Syncing, r \notin Syncing', req[r].pc # "sync",
         req[r].pc = "mark" => req'[r].pc = "sync"
  PROVE  IInv'
<1>1. /\ Members' = Members /\ crowd' \in Nat /\ crowd <= crowd'
      /\ UNCHANGED <<role, row, stripe, mirror, sent, overlap, crowd, unsettled, late>>
  BY DEF Members, seats, seen, IInv, TypeOK
<1>2. TypeOK'
  BY <1>1 DEF IInv, TypeOK, Only, Keeps, Members
<1>3. \A s \in Reqs : Reading(s)'
  BY <1>2, Readers
<1>4. Seated'
  BY <1>1, SeatsQuiet
<1>5. Alone'
  BY <1>1, AloneQuiet
<1>6. Settled'
  BY <1>1, SettledQuiet
<1> QED BY <1>2, <1>3, <1>4, <1>5, <1>6 DEF IInv

LEMMA LookingOn ==
  ASSUME IInv, TeamConstants, NEW r \in Reqs, Only(r), UNCHANGED <<rows, inv, seats, seen>>,
         Reading(r)', r \notin Entering(req'), r \notin Changing(req'),
         r \notin Syncing, r \notin Syncing', req[r].pc \notin {"sync", "mark"}
  PROVE  IInv'
<1>1. Keeps /\ Sending' /\ UNCHANGED <<role, row, account, inv, seats, seen>>
  BY DEF Keeps, rows, IInv, TypeOK, Sending
<1>2. account' \in [Users -> {"none", "bare", "password"}] /\ inv' \in [Invites -> Invitation]
  BY <1>1 DEF IInv, TypeOK
<1> QED BY <1>1, <1>2, Aside

\* A request before its insert: past the seat check or not.
LEMMA Checking ==
  ASSUME IInv, TeamConstants, NEW r \in Reqs, Only(r), UNCHANGED <<rows, inv, seats>>, NoteCrowd,
         Reading(r)', r \in Entering(req') => assertSeatAvailable, r \notin Changing(req'),
         r \notin Syncing, r \notin Syncing', req[r].pc \notin {"sync", "mark"}
  PROVE  IInv'
<1>1. /\ crowd' \in 1..Cardinality(Reqs) + 1 /\ crowd' \in Nat /\ crowd <= crowd'
      /\ UNCHANGED <<role, row, stripe, mirror, sent, overlap, unsettled, late>> /\ Members' = Members
  BY Counts DEF IInv, TypeOK, NoteCrowd, rows, seats, Members
<1>2. TypeOK' /\ (\A s \in Reqs : Reading(s)') /\ Sending'
  BY <1>1, Looking DEF IInv, TypeOK
<1>3. Seated'
  BY <1>1, SeatsChecked, SeatsQuiet
<1>4. Alone'
  BY <1>1, AloneQuiet
<1>5. Settled'
  BY <1>1, SettledQuiet
<1> QED BY <1>2, <1>3, <1>4, <1>5 DEF IInv

LEMMA CanActivateStep ==
  ASSUME IInv, TeamConstants, NEW r \in Reqs, canActivate(r) PROVE IInv'
<1>1. PICK caller \in Users, k \in DOMAIN Requires :
        Go(r, [req[r] EXCEPT !.pc = "find", !.kind = k, !.as = role[caller]])
  BY DEF canActivate
<1> DEFINE q == req[r]
           x == [q EXCEPT !.pc = "find", !.kind = k, !.as = role[caller]]
<1>2. q \in Request /\ Reading(r) /\ q.pc = "idle" /\ role[caller] \in ROLES \cup {"none"}
  BY DEF IInv, TypeOK, canActivate
<1>3. x \in Request /\ x.pc = "find" /\ x.kind = k /\ x.then = q.then /\ k # "accept"
  <2> HIDE DEF q
  <2> QED BY <1>2 DEF Request, Steps, Requires, Kinds
<1>4. Only(r) /\ req'[r] = x
  BY <1>1, <1>3, Going DEF IInv, TypeOK
<1> HIDE DEF x
<1>5. Reading(r)'
  BY <1>2, <1>3, <1>4 DEF Reading, Changing, Accepting
<1>6. r \notin Entering(req') /\ r \notin Changing(req') /\ r \notin Syncing /\ r \notin Syncing'
  BY <1>2, <1>3, <1>4 DEF Entering, Changing, Syncing
<1>7. UNCHANGED <<rows, inv, seats, seen>>
  BY DEF canActivate
<1> QED BY <1>2, <1>4, <1>5, <1>6, <1>7, LookingOn

LEMMA AddStep == ASSUME IInv, TeamConstants, NEW r \in Reqs, add(r) PROVE IInv'
<1>1. PICK u \in Users, g \in ROLES :
        /\ assertCanGrant(r, g) /\ account[u] # "none" /\ assertSeatAvailable
        /\ Go(r, [req[r] EXCEPT !.pc = "write", !.at = u, !.role = g])
  BY DEF add
<1> DEFINE q == req[r]
           x == [q EXCEPT !.pc = "write", !.at = u, !.role = g]
<1>2. q \in Request /\ Reading(r) /\ q.pc = "find" /\ q.kind = "add"
  BY DEF IInv, TypeOK, add, Is
<1>3. /\ x \in Request /\ x.pc = "write" /\ x.kind = "add" /\ x.at = u /\ x.role = g
      /\ x.as = q.as /\ x.then = q.then /\ x.inv = q.inv
  <2> HIDE DEF q
  <2> QED BY <1>2 DEF Request, Steps
<1>4. Only(r) /\ req'[r] = x
  BY <1>1, <1>3, Going DEF IInv, TypeOK
<1>5. /\ UNCHANGED <<rows, inv, seats, overlap, unsettled, late>> /\ NoteCrowd
      /\ UNCHANGED <<role, row, account, stripe, mirror, sent>>
  BY DEF add, NoteCrowd, rows, seats
<1> HIDE DEF x
<1>6. Reading(r)'
  BY <1>1, <1>2, <1>3, <1>4, <1>5 DEF Reading, Changing, Accepting, assertCanGrant, Sent
<1>7. r \notin Changing(req') /\ r \notin Syncing /\ r \notin Syncing'
  BY <1>2, <1>3, <1>4 DEF Changing, Syncing
<1> QED BY <1>1, <1>2, <1>4, <1>5, <1>6, <1>7, Checking

\* Looking for a member to change.
LEMMA MemberFound ==
  ASSUME IInv, TeamConstants, NEW r \in Reqs, NEW u \in Users, Only(r),
         req[r].pc = "find", req[r].kind \in {"changeRole", "remove"},
         req'[r].kind = req[r].kind, req'[r].at = u, req'[r].id = row[u],
         req'[r].then = req[r].then, req'[r].as = req[r].as,
         req'[r].kind = "changeRole" => req'[r].role \in ROLES,
         req'[r].kind = "changeRole" /\ req'[r].role = "OWNER" => req[r].as = "OWNER",
         req'[r].pc = "count" \/ (req'[r].pc = "write" /\ ~Takes(r)'),
         NoteOverlap, UNCHANGED <<rows, inv, seats>>
  PROVE  IInv'
<1>1. /\ UNCHANGED <<role, row, account, inv, stripe, mirror, sent, crowd, unsettled, late>>
      /\ Members' = Members /\ Owners' = Owners /\ row[u] \in Nat
      /\ crowd' \in Nat /\ crowd <= crowd'
      /\ overlap' = (overlap \/ Cardinality(Changing(req')) > 1)
  BY DEF NoteOverlap, rows, seats, Members, Owners, IInv, TypeOK
<1>2. Reading(r)'
  BY <1>1 DEF Reading, Changing, Accepting, IInv
<1>3. TypeOK' /\ (\A s \in Reqs : Reading(s)') /\ Sending'
  BY <1>1, <1>2, Looking DEF IInv, TypeOK
<1>4. r \notin Entering(req') /\ r \notin Syncing /\ r \notin Syncing' /\ r \in Changing(req')
  BY DEF Entering, Syncing, Changing
<1>5. Seated'
  BY <1>1, <1>4, SeatsQuiet
<1>6. Settled'
  BY <1>1, <1>4, SettledQuiet
<1>7. ASSUME ~overlap', NEW s \in Changing(req') PROVE s = r
  <2>1. IsFiniteSet(Reqs) /\ Changing(req') \in SUBSET Reqs
    BY DEF TeamConstants, Changing
  <2>2. IsFiniteSet(Changing(req')) /\ {r, s} \in SUBSET Changing(req')
    BY <1>4, <1>7, <2>1, FS_Subset
  <2>3. Cardinality({r, s}) <= Cardinality(Changing(req')) /\ Cardinality(Changing(req')) \in Nat
    BY <2>2, FS_Subset, FS_CardinalityType
  <2>4. Cardinality({r, s}) = IF r = s THEN 1 ELSE 2
    <3>1. IsFiniteSet({r}) /\ Cardinality({r}) = 1
      BY FS_Singleton
    <3>2. Cardinality({r} \cup {s}) = IF s \in {r} THEN Cardinality({r}) ELSE Cardinality({r}) + 1
      BY <3>1, FS_AddElement
    <3>3. {r, s} = {r} \cup {s} /\ (s \in {r} <=> r = s)
      OBVIOUS
    <3> QED BY <3>1, <3>2, <3>3
  <2>5. ~(Cardinality(Changing(req')) > 1)
    BY <1>1, <1>7
  <2> QED BY <2>3, <2>4, <2>5
<1>8. Alone'
  <2>1. ASSUME ~overlap', NEW s \in Reqs, Takes(s)' PROVE FALSE
    <3>1. s \in Changing(req')
      BY <2>1 DEF Takes, Changing
    <3> QED BY <1>7, <2>1, <3>1 DEF Takes
  <2> QED BY <1>1, <1>7, <2>1 DEF Alone, IInv
<1> QED BY <1>3, <1>5, <1>6, <1>8 DEF IInv

LEMMA ChangeRoleStep == ASSUME IInv, TeamConstants, NEW r \in Reqs, changeRole(r) PROVE IInv'
<1> DEFINE q == req[r]
           x(u, g) == [q EXCEPT !.pc = IF role[u] = "OWNER" /\ g # "OWNER" THEN "count" ELSE "write",
                                !.at = u, !.id = row[u], !.role = g]
<1>1. PICK u \in Members, g \in ROLES : assertCanGrant(r, g) /\ Go(r, x(u, g))
  BY DEF changeRole
<1>2. q \in Request /\ q.pc = "find" /\ q.kind = "changeRole" /\ u \in Users /\ row[u] \in 0..MaxRows
  BY DEF IInv, TypeOK, changeRole, Is, Members
<1>3. /\ x(u, g) \in Request /\ x(u, g).kind = q.kind /\ x(u, g).at = u /\ x(u, g).id = row[u]
      /\ x(u, g).then = q.then /\ x(u, g).as = q.as /\ x(u, g).role = g
      /\ x(u, g).pc = IF role[u] = "OWNER" /\ g # "OWNER" THEN "count" ELSE "write"
  <2> HIDE DEF q
  <2> QED BY <1>2 DEF Request, Steps
<1>4. Only(r) /\ req'[r] = x(u, g)
  BY <1>1, <1>3, Going DEF IInv, TypeOK
<1>5. NoteOverlap /\ UNCHANGED <<rows, inv, seats>>
  BY DEF changeRole
<1> HIDE DEF x
<1>6. req'[r].pc = "count" \/ (req'[r].pc = "write" /\ ~Takes(r)')
  BY <1>2, <1>3, <1>4, <1>5 DEF Takes, rows
<1> QED BY <1>1, <1>2, <1>3, <1>4, <1>5, <1>6, MemberFound DEF assertCanGrant

LEMMA RemoveStep == ASSUME IInv, TeamConstants, NEW r \in Reqs, remove(r) PROVE IInv'
<1> DEFINE q == req[r]
           x(u) == [q EXCEPT !.pc = IF role[u] = "OWNER" THEN "count" ELSE "write",
                             !.at = u, !.id = row[u]]
<1>1. PICK u \in Members : Go(r, x(u))
  BY DEF remove
<1>2. q \in Request /\ q.pc = "find" /\ q.kind = "remove" /\ u \in Users /\ row[u] \in 0..MaxRows
  BY DEF IInv, TypeOK, remove, Is, Members
<1>3. /\ x(u) \in Request /\ x(u).kind = q.kind /\ x(u).at = u /\ x(u).id = row[u]
      /\ x(u).then = q.then /\ x(u).as = q.as
      /\ x(u).pc = IF role[u] = "OWNER" THEN "count" ELSE "write"
  <2> HIDE DEF q
  <2> QED BY <1>2 DEF Request, Steps
<1>4. Only(r) /\ req'[r] = x(u)
  BY <1>1, <1>3, Going DEF IInv, TypeOK
<1>5. NoteOverlap /\ UNCHANGED <<rows, inv, seats>>
  BY DEF remove
<1> HIDE DEF x
<1>6. req'[r].pc = "count" \/ (req'[r].pc = "write" /\ ~Takes(r)')
  BY <1>2, <1>3, <1>4, <1>5 DEF Takes, rows
<1> QED BY <1>1, <1>2, <1>3, <1>4, <1>5, <1>6, MemberFound

\* Another owner is counted, and stays one while no other change is on its way.
LEMMA NotLastOwnerStep ==
  ASSUME IInv, TeamConstants, NEW r \in Reqs, assertNotLastOwner(r) PROVE IInv'
<1> DEFINE q == req[r]
           x == [q EXCEPT !.pc = "write"]
<1>1. PICK u \in Owners : u # q.at \/ row[u] # q.id
  BY DEF assertNotLastOwner
<1>2. q \in Request /\ Reading(r) /\ q.pc = "count" /\ q.kind \in {"changeRole", "remove"}
  BY DEF IInv, TypeOK, assertNotLastOwner, Is
<1>3. /\ x \in Request /\ x.pc = "write" /\ x.kind = q.kind /\ x.at = q.at /\ x.id = q.id
      /\ x.then = q.then /\ x.as = q.as /\ x.role = q.role
  <2> HIDE DEF q
  <2> QED BY <1>2 DEF Request, Steps
<1>4. Only(r) /\ req'[r] = x
  BY <1>3, Going DEF IInv, TypeOK, assertNotLastOwner
<1>5. /\ UNCHANGED <<rows, inv, seats, seen>> /\ Members' = Members /\ Owners' = Owners
      /\ UNCHANGED <<role, row, account, stripe, mirror, sent, overlap, crowd, unsettled, late>>
      /\ crowd' \in Nat /\ crowd <= crowd'
  BY DEF assertNotLastOwner, rows, seats, seen, Members, Owners, IInv, TypeOK
<1> HIDE DEF x
<1>6. r \in Changing(req) /\ r \notin Entering(req') /\ r \notin Syncing /\ r \notin Syncing'
  BY <1>2, <1>3, <1>4 DEF Changing, Entering, Syncing
<1>7. Reading(r)'
  BY <1>2, <1>3, <1>4, <1>5, <1>6 DEF Reading, Changing, Accepting
<1>8. TypeOK' /\ (\A s \in Reqs : Reading(s)') /\ Sending'
  BY <1>4, <1>5, <1>7, Looking DEF IInv, TypeOK
<1>9. Seated' /\ Settled'
  BY <1>2, <1>4, <1>5, <1>6, SeatsQuiet, SettledQuiet
<1>10. Alone'
  <2>1. Takes(r)' => u # req'[r].at
    BY <1>1, <1>3, <1>4, <1>5 DEF Takes, Found
  <2>2. \A s \in Reqs \ {r} : Takes(s)' => Takes(s) /\ s \in Changing(req)
    BY <1>4, <1>5 DEF Takes, Found, Only, Changing
  <2>3. Changing(req') \subseteq Changing(req)
    BY <1>4, <1>6 DEF Changing, Only
  <2> QED BY <1>5, <1>6, <2>1, <2>2, <2>3 DEF Alone, IInv
<1> QED BY <1>8, <1>9, <1>10 DEF IInv

-----------------------------------------------------------------------------
\* The three inserts.
LEMMA Entered ==
  ASSUME IInv, TeamConstants, NEW r \in Reqs, Only(r), NEW u \in Users, NEW g \in ROLES,
         Create(u, g), account[u] # "none", UNCHANGED <<inv, seats, seen>>, Reading(r)',
         r \in Entering(req), r \notin Entering(req'), r \notin Changing(req'),
         req'[r].pc \in {"mark", "sync"}
  PROVE  IInv'
<1>1. /\ UNCHANGED <<account, inv, stripe, mirror, sent, overlap, crowd, unsettled, late>>
      /\ role'[u] = g /\ row'[u] = row[u] + 1 /\ row'[u] \in 0..MaxRows /\ row'[u] > 0
      /\ \A w \in Users \ {u} : role'[w] = role[w] /\ row'[w] = row[w]
      /\ role' \in [Users -> ROLES \cup {"none"}] /\ row' \in [Users -> 0..MaxRows]
  BY DEF Create, IInv, TypeOK, seats, seen, TeamConstants
<1>2. TypeOK'
  BY <1>1 DEF IInv, TypeOK, Only, Members
<1>3. Keeps /\ Sending'
  BY <1>1 DEF Keeps, IInv, TypeOK, Sending
<1>4. \A s \in Reqs : Reading(s)'
  BY <1>2, <1>3, Readers
<1>5. Seated'
  BY <1>1, SeatsTaken
<1>6. Alone'
  BY <1>1, AloneEntering
<1>7. Settled'
  BY <1>1, SettledQuiet DEF Entering, Syncing
<1> QED BY <1>2, <1>3, <1>4, <1>5, <1>6, <1>7 DEF IInv

LEMMA AddWriteStep == ASSUME IInv, TeamConstants, NEW r \in Reqs, addWrite(r) PROVE IInv'
<1>1. /\ req[r] \in Request /\ Reading(r) /\ req[r].pc = "write" /\ req[r].kind = "add"
      /\ Create(req[r].at, req[r].role) /\ UNCHANGED <<inv, seats, seen>>
  BY DEF IInv, TypeOK, addWrite, Is
<1>2. Only(r) /\ req'[r].pc = "sync" /\ req'[r].then = "idle" /\ req'[r].kind = "add"
  BY <1>1, Settling DEF IInv, TypeOK, addWrite
<1>3. req[r].at \in Users /\ account[req[r].at] # "none" /\ req[r].role \in ROLES
  BY <1>1 DEF Reading
<1>4. Reading(r)' /\ r \in Entering(req) /\ r \notin Entering(req') /\ r \notin Changing(req')
  BY <1>1, <1>2 DEF Reading, Entering, Changing, Accepting
<1> QED BY <1>1, <1>2, <1>3, <1>4, Entered

LEMMA AutoJoinWriteStep == ASSUME IInv, TeamConstants, NEW r \in Reqs, autoJoinWrite(r) PROVE IInv'
<1> DEFINE q == req[r]
           x == [q EXCEPT !.pc = "sync"]
<1>1. /\ q \in Request /\ Reading(r) /\ q.pc = "joinWrite" /\ q.kind \in {"accept", "login"}
      /\ Create(q.at, "MEMBER") /\ UNCHANGED <<inv, seats, seen>> /\ Go(r, x)
  BY DEF IInv, TypeOK, autoJoinWrite, Is
<1>2. /\ x \in Request /\ x.pc = "sync" /\ x.kind = q.kind /\ x.at = q.at
      /\ x.then = q.then /\ x.inv = q.inv /\ x.role = q.role
  <2> HIDE DEF q
  <2> QED BY <1>1 DEF Request, Steps
<1>3. Only(r) /\ req'[r] = x
  BY <1>1, <1>2, Going DEF IInv, TypeOK
<1> HIDE DEF x
<1>4. q.at \in Users /\ account[q.at] # "none" /\ account' = account /\ inv' = inv
  BY <1>1 DEF Reading, Create
<1>5. Reading(r)' /\ r \in Entering(req) /\ r \notin Entering(req') /\ r \notin Changing(req')
  BY <1>1, <1>2, <1>3, <1>4 DEF Reading, Entering, Changing, Accepting, Sent
<1> QED BY <1>1, <1>2, <1>3, <1>4, <1>5, Entered DEF ROLES

LEMMA AcceptEnterStep == ASSUME IInv, TeamConstants, NEW r \in Reqs, acceptEnter(r) PROVE IInv'
<1> DEFINE q == req[r]
           x == [q EXCEPT !.pc = "mark"]
<1>1. /\ q \in Request /\ Reading(r) /\ q.pc = "enter" /\ q.kind = "accept"
      /\ Create(q.at, q.role) /\ UNCHANGED <<inv, seats, seen>> /\ Go(r, x)
  BY DEF IInv, TypeOK, acceptEnter, Is
<1>2. /\ x \in Request /\ x.pc = "mark" /\ x.kind = q.kind /\ x.at = q.at
      /\ x.then = q.then /\ x.inv = q.inv /\ x.role = q.role
  <2> HIDE DEF q
  <2> QED BY <1>1 DEF Request, Steps
<1>3. Only(r) /\ req'[r] = x
  BY <1>1, <1>2, Going DEF IInv, TypeOK
<1> HIDE DEF x
<1>4. q.at \in Users /\ account[q.at] # "none" /\ account' = account /\ inv' = inv
  BY <1>1 DEF Reading, Create
<1>5. Reading(r)' /\ r \in Entering(req) /\ r \notin Entering(req') /\ r \notin Changing(req')
  BY <1>1, <1>2, <1>3, <1>4 DEF Reading, Entering, Changing, Accepting, Sent
<1>6. q.role \in ROLES
  BY <1>1 DEF Reading, Accepting
<1> QED BY <1>1, <1>2, <1>3, <1>4, <1>5, <1>6, Entered

\* A changed role, and a member who leaves.
LEMMA ChangeRoleWriteStep ==
  ASSUME IInv, TeamConstants, NEW r \in Reqs, changeRoleWrite(r) PROVE IInv'
<1> DEFINE q == req[r]
<1>1. /\ q \in Request /\ Reading(r) /\ q.pc = "write" /\ q.kind = "changeRole" /\ Found(r)
      /\ UNCHANGED <<row, account, inv, seats, seen>>
      /\ UNCHANGED <<stripe, mirror, sent, overlap, crowd, unsettled, late>>
      /\ crowd' \in Nat /\ crowd <= crowd'
  BY DEF IInv, TypeOK, changeRoleWrite, Is, seats, seen
<1>2. Only(r) /\ req'[r] = NoRequest
  BY Ending DEF IInv, TypeOK, changeRoleWrite
<1>3. r \in Changing(req) /\ q.at \in Users /\ role[q.at] # "none"
  BY <1>1 DEF Changing, Reading, Found
<1>4. /\ role'[q.at] = q.role /\ \A w \in Users \ {q.at} : role'[w] = role[w]
      /\ role' \in [Users -> ROLES \cup {"none"}]
  BY <1>1, <1>3 DEF changeRoleWrite, IInv, TypeOK, Request, Steps
<1>5. Members' \subseteq Members /\ (q.role # "none" => Members' = Members)
  BY <1>3, <1>4 DEF Members
<1>6. TypeOK'
  BY <1>1, <1>2, <1>4, <1>5 DEF IInv, TypeOK, Only
<1>7. Keeps /\ Sending'
  BY <1>1 DEF Keeps, IInv, TypeOK, Sending
<1>8. Reading(r)' /\ r \notin Entering(req') /\ r \notin Changing(req') /\ r \notin Syncing'
  BY <1>2 DEF Reading, Entering, Changing, Accepting, Syncing, NoRequest
<1>9. \A s \in Reqs : Reading(s)'
  BY <1>2, <1>6, <1>7, <1>8, Readers
<1>10. Seated'
  BY <1>1, <1>2, <1>5, <1>8, SeatsQuiet
<1>11. Alone'
  <2>1. Changing(req') \subseteq Changing(req)
    BY <1>2, <1>8 DEF Changing, Only
  <2>2. \A s \in Reqs : Takes(s)' => s \in Changing(req') /\ s \in Changing(req) /\ s # r
    BY <1>8, <2>1 DEF Takes, Changing
  <2>3. ~overlap => Owners' # {}
    <3>1. CASE Takes(r)
      BY <1>3, <1>4, <3>1 DEF Alone, IInv, Owners
    <3>2. CASE ~Takes(r)
      BY <1>1, <1>3, <1>4, <3>2 DEF Alone, IInv, Owners, Takes
    <3> QED BY <3>1, <3>2
  <2> QED BY <1>1, <1>3, <2>1, <2>2, <2>3 DEF Alone, IInv
<1>12. Settled'
  <2>1. q.role # "none"
    BY <1>1, <1>3 DEF Reading, ROLES
  <2> QED BY <1>1, <1>2, <1>5, <1>8, <2>1, SettledQuiet DEF Syncing
<1> QED BY <1>6, <1>7, <1>9, <1>10, <1>11, <1>12 DEF IInv

LEMMA RemoveWriteStep ==
  ASSUME IInv, TeamConstants, NEW r \in Reqs, removeWrite(r) PROVE IInv'
<1> DEFINE q == req[r]
<1>1. /\ q \in Request /\ Reading(r) /\ q.pc = "write" /\ q.kind = "remove" /\ Found(r)
      /\ UNCHANGED <<row, account, inv, seats, seen>>
      /\ UNCHANGED <<stripe, mirror, sent, overlap, crowd, unsettled, late>>
      /\ crowd' \in Nat /\ crowd <= crowd'
  BY DEF IInv, TypeOK, removeWrite, Is, seats, seen
<1>2. Only(r) /\ req'[r].pc = "sync" /\ req'[r].then = "idle" /\ req'[r].kind = "remove"
  BY <1>1, Settling DEF IInv, TypeOK, removeWrite
<1>3. r \in Changing(req) /\ q.at \in Users /\ role[q.at] # "none"
  BY <1>1 DEF Changing, Reading, Found
<1>4. /\ role'[q.at] = "none" /\ \A w \in Users \ {q.at} : role'[w] = role[w]
      /\ role' \in [Users -> ROLES \cup {"none"}]
  BY <1>1, <1>3 DEF removeWrite, IInv, TypeOK
<1>5. Members' \subseteq Members
  BY <1>3, <1>4 DEF Members
<1>6. TypeOK'
  BY <1>1, <1>2, <1>4, <1>5 DEF IInv, TypeOK, Only
<1>7. Keeps /\ Sending'
  BY <1>1 DEF Keeps, IInv, TypeOK, Sending
<1>8. /\ Reading(r)' /\ r \notin Entering(req') /\ r \notin Changing(req')
      /\ r \notin Syncing /\ r \notin Syncing'
  BY <1>1, <1>2 DEF Reading, Entering, Changing, Accepting, Syncing
<1>9. \A s \in Reqs : Reading(s)'
  BY <1>2, <1>6, <1>7, <1>8, Readers
<1>10. Seated'
  BY <1>1, <1>2, <1>5, <1>8, SeatsQuiet
<1>11. Alone'
  <2>1. Changing(req') \subseteq Changing(req)
    BY <1>2, <1>8 DEF Changing, Only
  <2>2. \A s \in Reqs : Takes(s)' => s \in Changing(req') /\ s \in Changing(req) /\ s # r
    BY <1>8, <2>1 DEF Takes, Changing
  <2>3. ~overlap => Owners' # {}
    <3>1. CASE Takes(r)
      BY <1>3, <1>4, <3>1 DEF Alone, IInv, Owners
    <3>2. CASE ~Takes(r)
      BY <1>1, <1>3, <1>4, <3>2 DEF Alone, IInv, Owners, Takes
    <3> QED BY <3>1, <3>2
  <2> QED BY <1>1, <1>3, <2>1, <2>2, <2>3 DEF Alone, IInv
<1>12. Settled'
  BY <1>1, <1>2, <1>8, SettledQuiet
<1> QED BY <1>6, <1>7, <1>9, <1>10, <1>11, <1>12 DEF IInv

-----------------------------------------------------------------------------
\* Invitations.
LEMMA CreateStep == ASSUME IInv, TeamConstants, NEW r \in Reqs, create(r) PROVE IInv'
<1>1. PICK u \in Users, g \in ROLES :
        assertCanGrant(r, g) /\ Go(r, [req[r] EXCEPT !.pc = "write", !.at = u, !.role = g])
  BY DEF create
<1> DEFINE q == req[r]
           x == [q EXCEPT !.pc = "write", !.at = u, !.role = g]
<1>2. /\ q \in Request /\ Reading(r) /\ q.pc = "find" /\ q.kind = "invite"
      /\ UNCHANGED <<rows, inv, seats, seen>>
  BY DEF IInv, TypeOK, create, Is
<1>3. /\ x \in Request /\ x.pc = "write" /\ x.kind = "invite" /\ x.at = u /\ x.role = g
      /\ x.as = q.as /\ x.then = q.then /\ x.inv = q.inv
  <2> HIDE DEF q
  <2> QED BY <1>2 DEF Request, Steps
<1>4. Only(r) /\ req'[r] = x
  BY <1>1, <1>3, Going DEF IInv, TypeOK
<1> HIDE DEF x
<1>5. Reading(r)'
  BY <1>1, <1>2, <1>3, <1>4 DEF Reading, Changing, Accepting, assertCanGrant
<1>6. r \notin Entering(req') /\ r \notin Changing(req') /\ r \notin Syncing /\ r \notin Syncing'
  BY <1>2, <1>3, <1>4 DEF Entering, Changing, Syncing
<1> QED BY <1>2, <1>4, <1>5, <1>6, LookingOn

LEMMA InviteFoundStep ==
  ASSUME IInv, TeamConstants, NEW r \in Reqs, resend(r) \/ revoke(r) PROVE IInv'
<1>1. PICK i \in Invites :
        inv[i].status # "absent" /\ Go(r, [req[r] EXCEPT !.pc = "write", !.inv = i])
  BY DEF resend, revoke
<1> DEFINE q == req[r]
           x == [q EXCEPT !.pc = "write", !.inv = i]
<1>2. /\ q \in Request /\ Reading(r) /\ q.pc = "find" /\ q.kind \in {"resend", "revoke"}
      /\ UNCHANGED <<rows, inv, seats, seen>>
  BY DEF IInv, TypeOK, resend, revoke, Is
<1>3. /\ x \in Request /\ x.pc = "write" /\ x.kind = q.kind /\ x.at = q.at /\ x.role = q.role
      /\ x.as = q.as /\ x.then = q.then /\ x.inv = i
  <2> HIDE DEF q
  <2> QED BY <1>2 DEF Request, Steps
<1>4. Only(r) /\ req'[r] = x
  BY <1>1, <1>3, Going DEF IInv, TypeOK
<1> HIDE DEF x
<1>5. Reading(r)'
  BY <1>1, <1>2, <1>3, <1>4 DEF Reading, Changing, Accepting, Sent
<1>6. r \notin Entering(req') /\ r \notin Changing(req') /\ r \notin Syncing /\ r \notin Syncing'
  BY <1>2, <1>3, <1>4 DEF Entering, Changing, Syncing
<1> QED BY <1>2, <1>4, <1>5, <1>6, LookingOn

LEMMA FindLiveStep == ASSUME IInv, TeamConstants, NEW r \in Reqs, findLiveByToken(r) PROVE IInv'
<1> DEFINE q == req[r]
           x(i) == [pc |-> IF inv[i].expiry = "ahead" THEN "auth" ELSE "expire",
                    kind |-> "accept", as |-> "none", at |-> inv[i].to, id |-> 0,
                    role |-> inv[i].role, inv |-> i, qty |-> 0, then |-> "idle",
                    was |-> role[inv[i].to]]
<1>1. PICK i \in Invites : inv[i].status = "PENDING" /\ Go(r, x(i))
  BY DEF findLiveByToken
<1>2. /\ q \in Request /\ Reading(r) /\ q.pc = "idle"
      /\ UNCHANGED <<rows, inv, seats, seen>>
      /\ inv[i] \in Invitation /\ inv[i].to \in Users /\ inv[i].role \in ROLES
      /\ inv[i].role = "OWNER" => inv[i].as = "OWNER"
  BY <1>1 DEF IInv, TypeOK, findLiveByToken, Sending
<1>3. /\ x(i) \in Request /\ x(i).pc \in {"auth", "expire"} /\ x(i).kind = "accept"
      /\ x(i).at = inv[i].to /\ x(i).role = inv[i].role
      /\ x(i).then = "idle" /\ x(i).inv = i
  <2>1. 0 \in 0..MaxRows /\ 0 \in 0..Cardinality(Users) /\ role[inv[i].to] \in ROLES \cup {"none"}
    BY <1>2, Counts DEF TeamConstants, IInv, TypeOK
  <2> QED BY <1>2, <2>1 DEF Request, Steps, Kinds
<1>4. Only(r) /\ req'[r] = x(i)
  BY <1>1, <1>3, Going DEF IInv, TypeOK
<1> HIDE DEF x
<1>5. Reading(r)'
  BY <1>1, <1>2, <1>3, <1>4 DEF Reading, Changing, Accepting, Sent
<1>6. r \notin Entering(req') /\ r \notin Changing(req') /\ r \notin Syncing /\ r \notin Syncing'
  BY <1>2, <1>3, <1>4 DEF Entering, Changing, Syncing
<1> QED BY <1>2, <1>4, <1>5, <1>6, LookingOn

\* A write to one invitation that ends the request, or leaves it the seats.
LEMMA Inviting ==
  ASSUME IInv, TeamConstants, NEW r \in Reqs, Only(r), UNCHANGED <<rows, seats, seen>>,
         inv' \in [Invites -> Invitation], Sending',
         \A i \in Invites : inv[i].status # "absent" =>
           inv'[i].status # "absent" /\ inv'[i].as = inv[i].as,
         req[r].pc \in {"write", "expire", "mark"},
         (req'[r].pc = "idle" /\ req[r].pc # "mark") \/ req'[r].pc = "sync", req'[r].then = "idle"
  PROVE  IInv'
<1>1. UNCHANGED <<role, row, account>> /\ account' \in [Users -> {"none", "bare", "password"}]
  BY DEF rows, IInv, TypeOK
<1>2. Keeps
  BY <1>1 DEF Keeps, IInv, TypeOK
<1>3. Reading(r)'
  BY DEF Reading, Changing, Accepting
<1>4. r \notin Entering(req') /\ r \notin Changing(req') /\ r \notin Syncing /\ r \notin Syncing'
  BY DEF Entering, Changing, Syncing
<1> QED BY <1>1, <1>2, <1>3, <1>4, Aside

LEMMA CreateWriteStep == ASSUME IInv, TeamConstants, NEW r \in Reqs, createWrite(r) PROVE IInv'
<1> DEFINE q == req[r]
<1>1. /\ q \in Request /\ Reading(r) /\ q.pc = "write" /\ q.kind = "invite"
      /\ UNCHANGED <<rows, seats, seen>>
  BY DEF IInv, TypeOK, createWrite, Is
<1>2. Only(r) /\ req'[r].pc = "idle" /\ req'[r].then = "idle"
  BY Ending DEF IInv, TypeOK, createWrite, NoRequest
<1>3. PICK i \in Invites :
        /\ inv[i].status = "absent"
        /\ inv' = [inv EXCEPT ![i] = [to |-> q.at, role |-> q.role, status |-> "PENDING",
                                      expiry |-> "ahead", as |-> q.as]]
  BY DEF createWrite
<1>4. q.at \in Users /\ q.role \in ROLES /\ (q.role = "OWNER" => q.as = "OWNER")
  BY <1>1 DEF Reading
<1>5. inv' \in [Invites -> Invitation]
  BY <1>1, <1>3 DEF IInv, TypeOK, Invitation, Request, Steps
<1>6. Sending' /\ \A j \in Invites : inv[j].status # "absent" => inv'[j] = inv[j]
  BY <1>3, <1>4 DEF Sending, IInv, TypeOK
<1> QED BY <1>1, <1>2, <1>5, <1>6, Inviting

LEMMA InvitationFields ==
  ASSUME NEW e \in Invitation, NEW s
  PROVE  /\ [e EXCEPT !.status = s] =
              [to |-> e.to, role |-> e.role, status |-> s, expiry |-> e.expiry, as |-> e.as]
         /\ [e EXCEPT !.expiry = "past"] =
              [to |-> e.to, role |-> e.role, status |-> e.status, expiry |-> "past", as |-> e.as]
         /\ e.expiry \in {"ahead", "past"}
<1>1. [e EXCEPT !.status = s] =
        [to |-> e.to, role |-> e.role, status |-> s, expiry |-> e.expiry, as |-> e.as]
  BY DEF Invitation
<1>2. [e EXCEPT !.expiry = "past"] =
        [to |-> e.to, role |-> e.role, status |-> e.status, expiry |-> "past", as |-> e.as]
  BY DEF Invitation
<1>3. e.expiry \in {"ahead", "past"}
  BY DEF Invitation
<1> QED BY <1>1, <1>2, <1>3

\* The status or the expiry of an invitation that was sent.
LEMMA Marking ==
  ASSUME IInv, NEW i \in Invites, inv[i].status # "absent", NEW v \in {"ahead", "past"},
         NEW s \in {"PENDING", "ACCEPTED", "REVOKED", "EXPIRED"},
         inv' = [inv EXCEPT ![i] = [to |-> inv[i].to, role |-> inv[i].role, status |-> s,
                                    expiry |-> v, as |-> inv[i].as]]
  PROVE  /\ inv' \in [Invites -> Invitation] /\ Sending'
         /\ \A j \in Invites : inv[j].status # "absent" =>
              inv'[j].status # "absent" /\ inv'[j].as = inv[j].as
<1>1. inv' \in [Invites -> Invitation]
  BY DEF IInv, TypeOK, Invitation
<1>2. \A j \in Invites \ {i} : inv'[j] = inv[j]
  BY DEF IInv, TypeOK
<1>3. /\ inv'[i].to = inv[i].to /\ inv'[i].role = inv[i].role /\ inv'[i].as = inv[i].as
      /\ inv'[i].status # "absent"
  BY DEF IInv, TypeOK
<1> QED BY <1>1, <1>2, <1>3 DEF IInv, Sending

LEMMA InviteWriteStep ==
  ASSUME IInv, TeamConstants, NEW r \in Reqs,
         resendWrite(r) \/ revokeWrite(r) \/ expireWrite(r) \/ acceptMark(r)
  PROVE  IInv'
<1> DEFINE q == req[r]
           i == q.inv
           x(s, v) == [to |-> inv[i].to, role |-> inv[i].role, status |-> s,
                       expiry |-> v, as |-> inv[i].as]
<1>1. /\ q \in Request /\ Reading(r) /\ UNCHANGED <<rows, seats, seen>>
      /\ q.pc \in {"write", "expire", "mark"}
      /\ q.pc = "write" => q.kind \in {"resend", "revoke"}
  BY DEF IInv, TypeOK, resendWrite, revokeWrite, expireWrite, acceptMark, Is
<1>2. Sent(i) /\ inv[i] \in Invitation
  BY <1>1 DEF Reading, Sent, IInv, TypeOK
<1>3. \E s \in {"PENDING", "ACCEPTED", "REVOKED", "EXPIRED"}, v \in {"ahead", "past"} :
        inv' = [inv EXCEPT ![i] = x(s, v)]
  <2>1. /\ \A s : [inv[i] EXCEPT !.status = s] = x(s, inv[i].expiry)
        /\ inv[i].expiry \in {"ahead", "past"}
    BY <1>2, InvitationFields
  <2>2. CASE resendWrite(r)
    <3>1. inv' = [inv EXCEPT ![i] = x("PENDING", "ahead")]
      BY <2>1, <2>2 DEF resendWrite
    <3> QED BY <3>1
  <2>3. ASSUME NEW s \in {"ACCEPTED", "REVOKED", "EXPIRED"}, inv' = [inv EXCEPT ![i].status = s]
        PROVE \E v \in {"ahead", "past"} : inv' = [inv EXCEPT ![i] = x(s, v)]
    <3>1. inv' = [inv EXCEPT ![i] = x(s, inv[i].expiry)]
      BY <2>1, <2>3
    <3> QED BY <2>1, <3>1
  <2> QED BY <2>2, <2>3 DEF revokeWrite, expireWrite, acceptMark
<1>4. /\ inv' \in [Invites -> Invitation] /\ Sending'
      /\ \A j \in Invites : inv[j].status # "absent" =>
           inv'[j].status # "absent" /\ inv'[j].as = inv[j].as
  BY <1>2, <1>3, Marking DEF Sent
<1>5. /\ Only(r) /\ req'[r].then = "idle"
      /\ (req'[r].pc = "idle" /\ q.pc # "mark") \/ req'[r].pc = "sync"
  <2>1. CASE acceptMark(r)
    BY <1>1, <2>1, Settling DEF acceptMark, IInv, TypeOK
  <2>2. CASE Done(r) /\ q.pc # "mark"
    BY <2>2, Ending DEF IInv, TypeOK, NoRequest
  <2> QED BY <2>1, <2>2 DEF resendWrite, revokeWrite, expireWrite, Is
<1> QED BY <1>1, <1>4, <1>5, Inviting

LEMMA ExpireStep == ASSUME IInv, TeamConstants, NEW i \in Invites, expire(i) PROVE IInv'
<1>1. inv' = [inv EXCEPT ![i] = [to |-> inv[i].to, role |-> inv[i].role, status |-> inv[i].status,
                                 expiry |-> "past", as |-> inv[i].as]]
  <2>1. inv[i] \in Invitation
    BY DEF IInv, TypeOK
  <2> QED BY <2>1, InvitationFields DEF expire
<1>2. /\ inv' \in [Invites -> Invitation] /\ Sending'
      /\ \A j \in Invites : inv[j].status # "absent" =>
           inv'[j].status # "absent" /\ inv'[j].as = inv[j].as
  BY <1>1, Marking DEF expire
<1>3. UNCHANGED <<role, row, account, req, stripe, mirror, sent, overlap, crowd, unsettled, late>>
  BY DEF expire, rows, seats, seen
<1>4. TypeOK' /\ \A r \in Reqs : Reading(r)'
  BY <1>2, <1>3 DEF IInv, TypeOK, Members, Reading, Accepting, Sent, Changing
<1>5. Seated' /\ Alone' /\ Settled'
  BY <1>3 DEF IInv, Seated, Alone, Settled, Members, Owners, Entering, Changing, Takes, Found,
    Syncing
<1> QED BY <1>2, <1>4, <1>5 DEF IInv

-----------------------------------------------------------------------------
\* Accounts, and the way in.
LEMMA AuthenticateStep == ASSUME IInv, TeamConstants, NEW r \in Reqs, authenticate(r) PROVE IInv'
<1> DEFINE q == req[r]
           u == q.at
           x == [q EXCEPT !.pc = "member"]
           y == [q EXCEPT !.pc = "join", !.then = "member"]
<1>1. /\ q \in Request /\ Reading(r) /\ q.pc = "auth" /\ q.kind = "accept" /\ u \in Users
      /\ UNCHANGED <<role, row, inv, seats, seen>>
  <2>1. /\ q \in Request /\ Reading(r) /\ q.pc = "auth" /\ q.kind = "accept"
        /\ UNCHANGED <<role, row, inv, seats, seen>>
    BY DEF IInv, TypeOK, authenticate, Is
  <2>2. Reading(r) /\ req[r].pc = "auth" => req[r].at \in Users
    BY DEF Reading
  <2> QED BY <2>1, <2>2
<1>2. x \in Request /\ y \in Request
  <2> HIDE DEF q
  <2> QED BY <1>1 DEF Request, Steps
<1>3. /\ x.pc = "member" /\ x.then = q.then /\ y.pc = "join" /\ y.then = "member"
      /\ x.kind = q.kind /\ x.at = q.at /\ x.inv = q.inv /\ x.role = q.role
      /\ y.kind = q.kind /\ y.at = q.at /\ y.inv = q.inv /\ y.role = q.role
  <2> HIDE DEF q
  <2> QED BY <1>1 DEF Request, Steps
<1>4. PICK z \in {x, y} : Go(r, z)
  BY DEF authenticate
<1> HIDE DEF x, y
<1>5. Only(r) /\ req'[r] = z
  BY <1>2, <1>4, Going DEF IInv, TypeOK
<1>6. /\ account' \in [Users -> {"none", "bare", "password"}] /\ account'[u] # "none"
      /\ \A w \in Users : account[w] # "none" => account'[w] # "none"
  <2>1. (account' = account /\ account[u] # "none") \/ account' = [account EXCEPT ![u] = "password"]
    BY DEF authenticate
  <2> HIDE DEF u
  <2> QED BY <1>1, <2>1 DEF IInv, TypeOK
<1>7. /\ inv' \in [Invites -> Invitation] /\ Sending' /\ Keeps
  BY <1>1, <1>6 DEF Keeps, Sending, IInv, TypeOK
<1>8. /\ Reading(r)' /\ r \notin Entering(req') /\ r \notin Changing(req')
      /\ r \notin Syncing /\ r \notin Syncing'
  BY <1>1, <1>3, <1>5, <1>6 DEF Reading, Entering, Changing, Syncing, Accepting, Sent
<1> QED BY <1>1, <1>5, <1>6, <1>7, <1>8, Aside

LEMMA LoginStep == ASSUME IInv, TeamConstants, NEW r \in Reqs, login(r) PROVE IInv'
<1> DEFINE q == req[r]
           x(u) == [q EXCEPT !.pc = "join", !.kind = "login", !.at = u]
<1>1. PICK u \in JoinDomain : account' = [account EXCEPT ![u] = "password"] /\ Go(r, x(u))
  BY DEF login
<1>2. /\ q \in Request /\ Reading(r) /\ q.pc = "idle" /\ u \in Users
      /\ UNCHANGED <<role, row, inv, seats, seen>>
  BY DEF IInv, TypeOK, login, TeamConstants
<1>3. /\ x(u) \in Request /\ x(u).pc = "join" /\ x(u).kind = "login" /\ x(u).at = u
      /\ x(u).then = q.then /\ x(u).role = q.role
  <2> HIDE DEF q
  <2> QED BY <1>2 DEF Request, Steps, Kinds
<1>4. Only(r) /\ req'[r] = x(u)
  BY <1>1, <1>3, Going DEF IInv, TypeOK
<1> HIDE DEF x
<1>5. /\ account' \in [Users -> {"none", "bare", "password"}] /\ account'[u] # "none"
      /\ \A w \in Users : account[w] # "none" => account'[w] # "none"
  BY <1>1, <1>2 DEF IInv, TypeOK
<1>6. /\ inv' \in [Invites -> Invitation] /\ Sending' /\ Keeps
  BY <1>2, <1>5 DEF Keeps, Sending, IInv, TypeOK
<1>7. /\ Reading(r)' /\ r \notin Entering(req') /\ r \notin Changing(req')
      /\ r \notin Syncing /\ r \notin Syncing'
  BY <1>2, <1>3, <1>4, <1>5 DEF Reading, Entering, Changing, Syncing, Accepting
<1> QED BY <1>2, <1>4, <1>5, <1>6, <1>7, Aside

LEMMA AutoJoinStep == ASSUME IInv, TeamConstants, NEW r \in Reqs, autoJoinByDomain(r) PROVE IInv'
<1> DEFINE q == req[r]
           x == [q EXCEPT !.pc = "joinWrite"]
<1>1. /\ q \in Request /\ Reading(r) /\ q.pc = "join" /\ q.kind \in {"accept", "login"}
      /\ NoteCrowd /\ UNCHANGED <<rows, inv, seats>> /\ UNCHANGED <<row, account, inv>>
  BY DEF IInv, TypeOK, autoJoinByDomain, Is, rows
<1>2. /\ x \in Request /\ x.pc = "joinWrite" /\ x.kind = q.kind /\ x.at = q.at
      /\ x.then = q.then /\ x.inv = q.inv /\ x.role = q.role
  <2> HIDE DEF q
  <2> QED BY <1>1 DEF Request, Steps
<1>3. (assertSeatAvailable /\ Go(r, x)) \/ Go(r, After(r))
  BY DEF autoJoinByDomain, Go
<1> HIDE DEF x
<1>4. CASE assertSeatAvailable /\ Go(r, x)
  <2>1. Only(r) /\ req'[r] = x
    BY <1>2, <1>4, Going DEF IInv, TypeOK
  <2>2. Reading(r)' /\ r \notin Changing(req') /\ r \notin Syncing /\ r \notin Syncing'
    BY <1>1, <1>2, <2>1 DEF Reading, Changing, Syncing, Accepting, Sent
  <2> QED BY <1>1, <1>4, <2>1, <2>2, Checking
<1>5. CASE Go(r, After(r))
  <2>1. /\ After(r) \in Request /\ After(r).then = "idle" /\ After(r).pc \in {"idle", "member"}
        /\ After(r).pc = "member" =>
             /\ q.then = "member" /\ After(r).kind = q.kind /\ After(r).at = q.at
             /\ After(r).inv = q.inv /\ After(r).role = q.role
    BY <1>1, Continuing DEF IInv, TypeOK
  <2>2. Only(r) /\ req'[r] = After(r)
    BY <1>5, <2>1, Going DEF IInv, TypeOK
  <2>3. /\ Reading(r)' /\ r \notin Changing(req') /\ r \notin Entering(req')
        /\ r \notin Syncing /\ r \notin Syncing'
    BY <1>1, <2>1, <2>2 DEF Reading, Changing, Entering, Syncing, Accepting, Sent
  <2> QED BY <1>1, <2>2, <2>3, Checking
<1> QED BY <1>3, <1>4, <1>5

LEMMA AcceptMemberStep == ASSUME IInv, TeamConstants, NEW r \in Reqs, acceptMember(r) PROVE IInv'
<1> DEFINE q == req[r]
           x(p) == [q EXCEPT !.pc = p]
<1>1. /\ q \in Request /\ Reading(r) /\ q.pc = "member" /\ q.kind = "accept"
      /\ NoteCrowd /\ UNCHANGED <<rows, inv, seats>> /\ UNCHANGED <<row, account, inv>>
  BY DEF IInv, TypeOK, acceptMember, Is, rows
<1>2. PICK p \in {"mark", "enter"} : Go(r, x(p)) /\ (p = "enter" => assertSeatAvailable)
  BY DEF acceptMember
<1>3. /\ x(p) \in Request /\ x(p).pc = p /\ x(p).kind = q.kind /\ x(p).at = q.at
      /\ x(p).then = q.then /\ x(p).inv = q.inv /\ x(p).role = q.role
  <2> HIDE DEF q
  <2> QED BY <1>1 DEF Request, Steps
<1>4. Only(r) /\ req'[r] = x(p)
  BY <1>2, <1>3, Going DEF IInv, TypeOK
<1> HIDE DEF x
<1>5. Reading(r)' /\ r \notin Changing(req') /\ r \notin Syncing /\ r \notin Syncing'
  BY <1>1, <1>3, <1>4 DEF Reading, Changing, Syncing, Accepting, Sent
<1>6. r \in Entering(req') => assertSeatAvailable
  BY <1>1, <1>2, <1>3, <1>4 DEF Entering
<1> QED BY <1>1, <1>4, <1>5, <1>6, Checking

-----------------------------------------------------------------------------
\* Seats and failures.
LEMMA SyncSeatsStep == ASSUME IInv, TeamConstants, NEW r \in Reqs, syncSeats(r) PROVE IInv'
<1> DEFINE q == req[r]
           quantity == Cardinality(Members)
           x == [q EXCEPT !.pc = "push", !.qty = quantity]
<1>1. /\ q \in Request /\ Reading(r) /\ q.pc = "sync" /\ quantity \in 0..Cardinality(Users)
      /\ UNCHANGED <<rows, inv, seats, overlap, crowd, late>> /\ Members' = Members
      /\ UNCHANGED <<role, row, account, inv, stripe, mirror>>
      /\ crowd' \in Nat /\ crowd <= crowd'
      /\ unsettled' \in BOOLEAN /\ (~unsettled' => ~unsettled /\ \A s \in Reqs : s \notin Syncing)
  <2>1. unsettled' = (unsettled \/ Syncing # {}) /\ req[r].pc = "sync"
    BY DEF syncSeats
  <2>2. unsettled' \in BOOLEAN /\ (~unsettled' => ~unsettled /\ \A s \in Reqs : s \notin Syncing)
    BY <2>1
  <2> QED BY <2>1, <2>2, Counts DEF IInv, TypeOK, syncSeats, rows, seats, Members
<1>2. (quantity # mirror /\ Go(r, x)) \/ (quantity = mirror /\ Go(r, After(r)))
  <2>1. CASE quantity = mirror
    BY <2>1 DEF syncSeats, Go
  <2>2. CASE quantity # mirror
    BY <2>2 DEF syncSeats, Go
  <2> QED BY <2>1, <2>2
<1>3. /\ x \in Request /\ x.pc = "push" /\ x.kind = q.kind /\ x.at = q.at /\ x.qty = quantity
      /\ x.then = q.then /\ x.inv = q.inv /\ x.role = q.role
  <2> HIDE DEF q, quantity
  <2> QED BY <1>1 DEF Request, Steps
<1>4. /\ After(r) \in Request /\ After(r).then = "idle" /\ After(r).pc \in {"idle", "member"}
      /\ After(r).pc = "member" =>
           /\ q.then = "member" /\ After(r).kind = q.kind /\ After(r).at = q.at
           /\ After(r).inv = q.inv /\ After(r).role = q.role
  BY <1>1, Continuing DEF IInv, TypeOK
<1>5. Only(r) /\ ((quantity # mirror /\ req'[r] = x) \/ (quantity = mirror /\ req'[r] = After(r)))
  BY <1>2, <1>3, <1>4, Going DEF IInv, TypeOK
<1> HIDE DEF x
<1>6. Reading(r)' /\ r \notin Changing(req') /\ r \notin Entering(req')
  BY <1>1, <1>3, <1>4, <1>5 DEF Reading, Changing, Entering, Accepting, Sent
<1>7. TypeOK' /\ (\A s \in Reqs : Reading(s)') /\ Sending'
  BY <1>1, <1>5, <1>6, Looking DEF IInv, TypeOK
<1>8. Seated' /\ Alone'
  BY <1>1, <1>5, <1>6, SeatsQuiet, AloneQuiet
<1>9. Settled'
  <2> SUFFICES ASSUME ~unsettled' PROVE Settled'
    BY DEF Settled
  <2>1. (~late => mirror = stripe) /\ \A s \in Reqs : s \notin Syncing
    BY <1>1 DEF IInv, Settled
  <2>2. \A s \in Reqs \ {r} : s \notin Syncing'
    BY <1>5, <2>1 DEF Only, Syncing
  <2>3. CASE quantity # mirror /\ req'[r] = x
    BY <1>1, <1>3, <2>1, <2>2, <2>3 DEF Settled, Syncing
  <2>4. CASE quantity = mirror /\ req'[r] = After(r)
    BY <1>1, <1>4, <2>1, <2>2, <2>4 DEF Settled, Syncing
  <2> QED BY <1>5, <2>3, <2>4
<1> QED BY <1>7, <1>8, <1>9 DEF IInv

LEMMA PushSeatsStep == ASSUME IInv, TeamConstants, NEW r \in Reqs, pushSeats(r) PROVE IInv'
<1> DEFINE q == req[r]
           x == [q EXCEPT !.pc = "save"]
<1>1. /\ q \in Request /\ Reading(r) /\ q.pc = "push" /\ Go(r, x) /\ stripe' = q.qty
      /\ sent' = sent \cup ({q.qty} \ {stripe})
      /\ UNCHANGED <<role, row, account, inv, mirror, overlap, crowd, unsettled, late>>
      /\ Members' = Members /\ crowd' \in Nat /\ crowd <= crowd'
  BY DEF IInv, TypeOK, pushSeats, rows, seen, Members
<1>2. /\ x \in Request /\ x.pc = "save" /\ x.kind = q.kind /\ x.at = q.at /\ x.qty = q.qty
      /\ x.then = q.then /\ x.inv = q.inv /\ x.role = q.role
  <2> HIDE DEF q
  <2> QED BY <1>1 DEF Request, Steps
<1>3. Only(r) /\ req'[r] = x
  BY <1>1, <1>2, Going DEF IInv, TypeOK
<1> HIDE DEF x
<1>4. q.qty \in 0..Cardinality(Users) /\ sent' \subseteq 0..Cardinality(Users)
  <2>1. q.qty \in 0..Cardinality(Users)
    BY <1>1 DEF Request
  <2>2. sent \subseteq 0..Cardinality(Users)
    BY DEF IInv, TypeOK
  <2> HIDE DEF q
  <2> QED BY <1>1, <2>1, <2>2
<1>5. TypeOK' /\ Sending' /\ Keeps
  <2>1. req' \in [Reqs -> Request] /\ stripe' \in 0..Cardinality(Users)
    BY <1>1, <1>3, <1>4 DEF Only
  <2> HIDE DEF q
  <2> QED BY <1>1, <1>4, <2>1 DEF IInv, TypeOK, Sending, Keeps
<1>6. Reading(r)' /\ r \notin Changing(req') /\ r \notin Entering(req')
  BY <1>1, <1>2, <1>3 DEF Reading, Changing, Entering, Accepting, Sent
<1>7. (\A s \in Reqs : Reading(s)') /\ Seated' /\ Alone'
  BY <1>1, <1>3, <1>5, <1>6, Readers, SeatsQuiet, AloneQuiet
<1>8. Settled'
  <2> SUFFICES ASSUME ~unsettled PROVE Settled'
    BY <1>1 DEF Settled
  <2>1. r \in Syncing /\ r \in Syncing' /\ \A s \in Reqs \ {r} : s \notin Syncing /\ s \notin Syncing'
    BY <1>1, <1>2, <1>3 DEF IInv, Settled, Syncing, Only
  <2>2. \A s \in Reqs : req'[s].pc \in {"mark", "sync"} <=> req[s].pc \in {"mark", "sync"}
    BY <1>1, <1>2, <1>3 DEF Only
  <2> QED BY <1>1, <1>2, <1>3, <2>1, <2>2 DEF IInv, Settled, Syncing
<1> QED BY <1>5, <1>7, <1>8 DEF IInv

\* The sync ends, with the mirror written or with Stripe's refusal.
LEMMA SyncEndStep ==
  ASSUME IInv, TeamConstants, NEW r \in Reqs, saveSeats(r) \/ syncFails(r) PROVE IInv'
<1> DEFINE q == req[r]
<1>1. /\ q \in Request /\ Reading(r) /\ Go(r, After(r)) /\ q.pc \in {"push", "save"}
      /\ UNCHANGED <<role, row, account, inv, stripe, sent, overlap, crowd>> /\ late' \in BOOLEAN
      /\ Members' = Members /\ crowd' \in Nat /\ crowd <= crowd' /\ unsettled' \in BOOLEAN
      /\ mirror' \in {q.qty, mirror}
      /\ ~unsettled' => ~unsettled /\ q.pc = "save" /\ mirror' = q.qty
  <2>1. CASE saveSeats(r)
    <3>1. /\ Go(r, After(r)) /\ q.pc = "save" /\ mirror' = q.qty /\ late' = FALSE
          /\ UNCHANGED <<role, row, account, inv, stripe, sent, overlap, crowd, unsettled>>
      BY <2>1 DEF saveSeats, Go, rows
    <3>2. q \in Request /\ Reading(r) /\ crowd \in Nat /\ unsettled \in BOOLEAN
      BY DEF IInv, TypeOK
    <3> HIDE DEF q
    <3>3. Members' = Members
      BY <3>1 DEF Members
    <3>4. crowd' \in Nat /\ crowd <= crowd' /\ mirror' \in {q.qty, mirror}
      BY <3>1, <3>2
    <3> QED BY <3>1, <3>2, <3>3, <3>4, Zenon
  <2>2. CASE syncFails(r)
    <3>1. unsettled' = TRUE
      BY <2>2 DEF syncFails
    <3> QED BY <2>2, <3>1 DEF IInv, TypeOK, syncFails, Go, rows, seats, seen, Members
  <2> QED BY <2>1, <2>2
<1>2. /\ After(r) \in Request /\ After(r).then = "idle" /\ After(r).pc \in {"idle", "member"}
      /\ After(r).pc = "member" =>
           /\ q.then = "member" /\ After(r).kind = q.kind /\ After(r).at = q.at
           /\ After(r).inv = q.inv /\ After(r).role = q.role
  BY <1>1, Continuing DEF IInv, TypeOK
<1>3. Only(r) /\ req'[r] = After(r)
  BY <1>1, <1>2, Going DEF IInv, TypeOK
<1>4. q.qty \in 0..Cardinality(Users)
  BY <1>1 DEF Request
<1>5. TypeOK' /\ Sending' /\ Keeps
  BY <1>1, <1>3, <1>4 DEF IInv, TypeOK, Only, Sending, Keeps
<1>6. Reading(r)' /\ r \notin Changing(req') /\ r \notin Entering(req')
  BY <1>1, <1>2, <1>3 DEF Reading, Changing, Entering, Accepting, Sent
<1>7. (\A s \in Reqs : Reading(s)') /\ Seated' /\ Alone'
  BY <1>1, <1>3, <1>5, <1>6, Readers, SeatsQuiet, AloneQuiet
<1>8. Settled'
  <2> SUFFICES ASSUME ~unsettled' PROVE Settled'
    BY DEF Settled
  <2>1. r \in Syncing /\ \A s \in Reqs : s \notin Syncing'
    BY <1>1, <1>2, <1>3 DEF IInv, Settled, Syncing, Only
  <2>2. \A s \in Reqs : req'[s].pc \in {"mark", "sync"} <=> req[s].pc \in {"mark", "sync"}
    BY <1>1, <1>2, <1>3 DEF Only
  <2>3. mirror' = stripe'
    BY <1>1 DEF IInv, Settled
  <2> QED BY <1>1, <1>2, <1>3, <2>1, <2>2, <2>3 DEF IInv, Settled, Syncing
<1> QED BY <1>5, <1>7, <1>8 DEF IInv

LEMMA FailsStep == ASSUME IInv, TeamConstants, NEW r \in Reqs, fails(r) PROVE IInv'
<1>1. /\ UNCHANGED <<rows, inv, seats>> /\ UNCHANGED <<role, row, stripe, mirror, sent, overlap, crowd, late>>
      /\ Members' = Members /\ crowd' \in Nat /\ crowd <= crowd' /\ unsettled' \in BOOLEAN
      /\ ~unsettled' => ~unsettled /\ req[r].pc \notin {"mark", "sync", "push", "save"}
  <2>1. unsettled' = (unsettled \/ req[r].pc \in {"mark", "sync", "push", "save"})
    BY DEF fails
  <2>2. /\ unsettled' \in BOOLEAN
        /\ ~unsettled' => ~unsettled /\ req[r].pc \notin {"mark", "sync", "push", "save"}
    BY <2>1
  <2> QED BY <2>2 DEF IInv, TypeOK, fails, rows, seats, Members
<1>2. Only(r) /\ req'[r] = NoRequest
  BY Ending DEF IInv, TypeOK, fails
<1>3. /\ Reading(r)' /\ r \notin Entering(req') /\ r \notin Changing(req')
      /\ r \notin Syncing'
  BY <1>2 DEF Reading, Entering, Changing, Accepting, Syncing, NoRequest
<1>4. TypeOK' /\ (\A s \in Reqs : Reading(s)') /\ Sending'
  BY <1>1, <1>2, <1>3, Looking DEF IInv, TypeOK
<1>5. Seated' /\ Alone'
  BY <1>1, <1>2, <1>3, SeatsQuiet, AloneQuiet
<1>6. Settled'
  <2>1. CASE unsettled'
    BY <2>1 DEF Settled
  <2>2. CASE ~unsettled'
    BY <1>1, <1>2, <1>3, <2>2, SettledQuiet DEF Syncing, IInv, TypeOK
  <2> QED BY <2>1, <2>2
<1> QED BY <1>4, <1>5, <1>6 DEF IInv

LEMMA ReconcileStep == ASSUME IInv, TeamConstants, reconcile PROVE IInv'
<1>1. PICK q \in sent : /\ mirror' = q /\ sent' \in {sent, sent \ {q}}
                       /\ late' = (late \/ q # stripe)
  BY DEF reconcile
<1>0. /\ UNCHANGED <<role, row, account, inv, req, stripe, overlap, crowd, unsettled>>
      /\ late' \in BOOLEAN /\ (~late' => ~late /\ mirror' = stripe)
      /\ mirror' \in 0..Cardinality(Users) /\ sent' \subseteq 0..Cardinality(Users)
  BY <1>1 DEF reconcile, rows, IInv, TypeOK
<1>2. TypeOK' /\ (\A r \in Reqs : Reading(r)') /\ Sending'
  BY <1>0 DEF IInv, TypeOK, Members, Reading, Accepting, Sent, Changing, Sending
<1>3. Seated' /\ Alone' /\ Settled'
  BY <1>0 DEF IInv, Seated, Alone, Settled, Members, Owners, Entering, Changing, Takes, Found,
    Syncing
<1> QED BY <1>2, <1>3 DEF IInv

-----------------------------------------------------------------------------
LEMMA Initially == ASSUME TeamConstants, Init PROVE IInv
<1>1. /\ Members = {Founder} /\ Owners = {Founder} /\ Founder \in Users
      /\ role \in [Users -> ROLES \cup {"none"}]
  BY DEF Init, Members, Owners, TeamConstants, ROLES
<1>2. /\ Cardinality(Members) = 1 /\ 1 \in 0..Cardinality(Users)
  BY <1>1, Counts, FS_Singleton
<1>3. \A r \in Reqs : req[r] = NoRequest
  BY DEF Init
<1>4. TypeOK
  <2>1. req \in [Reqs -> Request] /\ inv \in [Invites -> Invitation]
    BY Resting DEF Init, Invitation, NoInvitation
  <2>2. row \in [Users -> 0..MaxRows] /\ \A u \in Members : account[u] # "none" /\ row[u] > 0
    BY <1>1 DEF Init, TeamConstants
  <2>3. stripe \in 0..Cardinality(Users) /\ mirror \in 0..Cardinality(Users)
        /\ sent \subseteq 0..Cardinality(Users) /\ crowd \in 1..Cardinality(Reqs) + 1
    BY <1>2, Counts DEF Init
  <2>4. account \in [Users -> {"none", "bare", "password"}] /\ overlap \in BOOLEAN
        /\ unsettled \in BOOLEAN /\ late \in BOOLEAN
    BY DEF Init
  <2> QED BY <1>1, <2>1, <2>2, <2>3, <2>4 DEF TypeOK
<1>5. (\A r \in Reqs : Reading(r)) /\ Sending
  BY <1>3 DEF Reading, Sending, Init, NoRequest, NoInvitation, Changing, Accepting
<1>6. Entering(req) = {} /\ Changing(req) = {} /\ \A r \in Reqs : r \notin Syncing /\ ~Takes(r)
  BY <1>3 DEF Entering, Changing, Syncing, Takes, NoRequest
<1>7. Seated
  BY <1>2, <1>6, FS_EmptySet DEF Seated, Init, TeamConstants
<1>8. Alone /\ Settled
  BY <1>1, <1>2, <1>3, <1>6 DEF Alone, Settled, Init, NoRequest, Syncing
<1> QED BY <1>4, <1>5, <1>7, <1>8 DEF IInv

LEMMA Stepwise == ASSUME TeamConstants, IInv, [Next]_vars PROVE IInv'
<1>1. CASE UNCHANGED vars
  BY <1>1 DEF vars, IInv, TypeOK, Reading, Sending, Seated, Alone, Settled, Members, Owners,
    Entering, Changing, Syncing, Takes, Found, Accepting, Sent
<1>2. ASSUME NEW r \in Reqs,
        \/ canActivate(r) \/ add(r) \/ addWrite(r) \/ changeRole(r) \/ remove(r)
        \/ assertNotLastOwner(r) \/ changeRoleWrite(r) \/ removeWrite(r)
      PROVE IInv'
  BY <1>2, CanActivateStep, AddStep, AddWriteStep, ChangeRoleStep, RemoveStep,
    NotLastOwnerStep, ChangeRoleWriteStep, RemoveWriteStep
<1>3. ASSUME NEW r \in Reqs,
        \/ create(r) \/ createWrite(r) \/ resend(r) \/ resendWrite(r) \/ revoke(r)
        \/ revokeWrite(r) \/ findLiveByToken(r) \/ expireWrite(r)
      PROVE IInv'
  BY <1>3, CreateStep, CreateWriteStep, InviteFoundStep, InviteWriteStep, FindLiveStep
<1>4. ASSUME NEW r \in Reqs,
        \/ authenticate(r) \/ login(r) \/ autoJoinByDomain(r) \/ autoJoinWrite(r)
        \/ acceptMember(r) \/ acceptEnter(r) \/ acceptMark(r)
      PROVE IInv'
  BY <1>4, AuthenticateStep, LoginStep, AutoJoinStep, AutoJoinWriteStep, AcceptMemberStep,
    AcceptEnterStep, InviteWriteStep
<1>5. ASSUME NEW r \in Reqs,
        syncSeats(r) \/ pushSeats(r) \/ saveSeats(r) \/ syncFails(r) \/ fails(r)
      PROVE IInv'
  BY <1>5, SyncSeatsStep, PushSeatsStep, SyncEndStep, FailsStep
<1>6. CASE Next
  BY <1>2, <1>3, <1>4, <1>5, <1>6, ExpireStep, ReconcileStep DEF Next
<1> QED BY <1>1, <1>6

LEMMA Inductive == Spec => []IInv
BY TeamConstants, Initially, Stepwise, PTL DEF Spec

\* Every reachable state is of the declared types, and members have accounts.
THEOREM TypeCorrect == Spec => []TypeOK
<1>1. IInv => TypeOK
  BY DEF IInv
<1> QED BY <1>1, Inductive, PTL

\* However many requests add members at once, the seat limit is exceeded by
\* one less than were ever between check and insert (billing.service.ts:73).
THEOREM SeatsBounded == Spec => []SeatOvershoot
<1>1. IInv => SeatOvershoot
  BY TeamConstants, Counts DEF IInv, Seated, SeatOvershoot, TypeOK, TeamConstants
<1> QED BY <1>1, Inductive, PTL

\* With changes of members that do not overlap there is always an owner
\* (memberships.service.ts:175).
THEOREM OwnerStays == Spec => []OwnerKeptAlone
<1>1. IInv => OwnerKeptAlone
  BY DEF IInv, Alone, OwnerKeptAlone
<1> QED BY <1>1, Inductive, PTL

\* With syncs that neither overlap nor fail Stripe bills the members there are,
\* or an event that a newer quantity had overtaken was applied since the last
\* sync that wrote (billing.service.ts:91, stripe-webhook.service.ts:247).
THEOREM SeatsStayBilled == Spec => []SeatsSettle
<1>1. IInv => SeatsSettle
  BY DEF IInv, Settled, SeatsSettle, Syncing
<1> QED BY <1>1, Inductive, PTL

\* Nobody becomes an OWNER but by an OWNER's request or invitation, whatever
\* was resent, expired or changed in between.
THEOREM OwnersFromOwners == Spec => OwnerFromOwner
<1> DEFINE From(u) == \E r \in Reqs :
             /\ req[r].at = u
             /\ \/ req[r].as = "OWNER"
                \/ req[r].kind = "accept" /\ inv[req[r].inv].as = "OWNER"
<1>1. ASSUME IInv, Next, NEW u \in Users, u \in Owners', u \notin Owners PROVE From(u)
  <2>1. role'[u] = "OWNER" /\ role[u] # "OWNER" /\ role \in [Users -> ROLES \cup {"none"}]
    BY <1>1 DEF Owners, IInv, TypeOK
  <2>2. ASSUME NEW r \in Reqs, addWrite(r) \/ acceptEnter(r) \/ changeRoleWrite(r) PROVE From(u)
    <3>1. Reading(r) /\ role' = [role EXCEPT ![req[r].at] = req[r].role]
      BY <1>1, <2>2 DEF IInv, addWrite, acceptEnter, changeRoleWrite, Create
    <3>2. req[r].at = u /\ req[r].role = "OWNER"
      BY <2>1, <3>1
    <3> QED BY <2>2, <3>1, <3>2 DEF addWrite, acceptEnter, changeRoleWrite, Is, Reading, Accepting
  <2>3. ASSUME NEW r \in Reqs, autoJoinWrite(r) \/ removeWrite(r) PROVE FALSE
    <3>1. \E g \in {"MEMBER", "none"} : role' = [role EXCEPT ![req[r].at] = g]
      BY <2>3 DEF autoJoinWrite, removeWrite, Create
    <3> QED BY <2>1, <3>1
  <2>4. role' # role
    BY <2>1
  <2> QED BY <1>1, <2>2, <2>3, <2>4 DEF Next, rows, canActivate, add, changeRole, remove,
        assertNotLastOwner, create, createWrite, resend, resendWrite, revoke, revokeWrite,
        findLiveByToken, expireWrite, authenticate, login, autoJoinByDomain, acceptMember,
        acceptMark, syncSeats, pushSeats, saveSeats, syncFails, fails, expire, reconcile
<1>2. ASSUME IInv, [Next]_vars
      PROVE  [\A u \in Users : u \in Owners' /\ u \notin Owners => From(u)]_vars
  BY <1>1, <1>2
<1> QED BY <1>2, Inductive, PTL DEF Spec, OwnerFromOwner
=============================================================================
