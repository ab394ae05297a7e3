------------------------------- MODULE Portal -------------------------------
(* The portal in one user's browser tabs. A page is rendered from a session   *)
(* read and some API reads; its forms are posted later, when a server action  *)
(* reads the session again and calls the API, whose guard decides. Meanwhile  *)
(* others change the user's memberships. The active workspace is never in a   *)
(* form: it is the oldest membership at each reading.                         *)
(*   apps/portal/src/lib/, apps/portal/src/app/, the API's controllers        *)
EXTENDS Permissions, Naturals, SequencesExt, TLC

CONSTANTS
  Tabs,
  Workspaces,
  Pages,     \* the pages that are opened
  MaxMoves,  \* bound: changes made by others
  NoWorkspace

ASSUME PortalConstants ==
  /\ NoWorkspace \notin Workspaces /\ MaxMoves \in Nat
  /\ Pages \subseteq {"team", "settings", "billing", "orders", "products", "glinks", "overview"}

VARIABLES
  member,  \* the user's ACTIVE memberships, oldest first
  other,   \* the role of another member of each workspace
  sub,     \* Subscription.status of each workspace: none, incomplete or active
  full,    \* workspaces with as many members as their plan has seats
  order,   \* status of the user's prepaid order
  tab,     \* what each tab shows and has posted
  moves

portalVars == <<member, other, sub, full, order, tab, moves>>

Blank == [pc |-> "blank", page |-> "none", org |-> NoWorkspace, as |-> "none",
          forms |-> {}, form |-> <<"none", "none">>, to |-> NoWorkspace,
          fresh |-> TRUE, left |-> FALSE]

PortalInit ==
  /\ \E o \in Workspaces, r \in ROLES : member = <<[org |-> o, role |-> r]>>
  /\ other \in [Workspaces -> ROLES] /\ sub \in [Workspaces -> {"none", "active"}]
  /\ full \in SUBSET Workspaces /\ order \in {"CREATED", "PAID"}
  /\ tab = [t \in Tabs |-> Blank] /\ moves = 0

\* requireMembership: the role of the user, "none" without a membership.
roleIn(o) ==
  IF \E m \in ToSet(member) : m.org = o
  THEN (CHOOSE m \in ToSet(member) : m.org = o).role ELSE "none"

-----------------------------------------------------------------------------
(* The API: what each route requires, and what its service adds to that.      *)
MembershipsController == [getMembers |-> "member_read",
  changeMemberRole |-> "member_manage", removeMember |-> "member_manage"]
InvitationsController == [getInvitations |-> "member_invite",
  createInvitation |-> "member_invite", resendInvitation |-> "member_invite",
  revokeInvitation |-> "member_invite"]
DomainsController == [getDomains |-> "org_manage", addDomain |-> "org_manage",
  verifyDomain |-> "org_manage", removeDomain |-> "org_manage"]
OrgsController == [getOrg |-> "org_read", updateOrg |-> "org_manage"]
BillingController == [getBillingSubscription |-> "billing_manage",
  getInvoices |-> "billing_manage", createCheckoutSession |-> "billing_manage",
  createPortalSession |-> "billing_manage"]
GlinksController == [getGLinksForClient |-> "glink_read"]
ProvisioningController == [getProvisioningOrders |-> "provisioning_read"]
ClientsController == [getClientsForOrg |-> "membership"]

\* What the API asks of the caller of a route.
Routes(call) ==
  CASE call \in DOMAIN MembershipsController -> MembershipsController[call]
    [] call \in DOMAIN InvitationsController -> InvitationsController[call]
    [] call \in DOMAIN DomainsController -> DomainsController[call]
    [] call \in DOMAIN OrgsController -> OrgsController[call]
    [] call \in DOMAIN BillingController -> BillingController[call]
    [] call \in DOMAIN GlinksController -> GlinksController[call]
    [] call \in DOMAIN ProvisioningController -> ProvisioningController[call]
    [] call \in DOMAIN ClientsController -> ClientsController[call]

RolesGuard(o, call) ==
  IF Routes(call) = "membership" THEN roleIn(o) # "none" ELSE can(roleIn(o), Routes(call))

LIVE == {"active", "trialing", "past_due"}

\* MembershipsService and InvitationsService: only an OWNER touches an OWNER or
\* makes one, and the last OWNER stays.
MembershipRules(o, form) ==
  LET call == form[1]  granted == form[2]
  IN /\ granted = "OWNER" => roleIn(o) = "OWNER"
     /\ call \in {"changeMemberRole", "removeMember"} /\ other[o] = "OWNER"
          => roleIn(o) = "OWNER"

BillingRules(o, call) ==
  /\ call = "createCheckoutSession" => sub[o] \notin LIVE
  /\ call = "createPortalSession" => sub[o] # "none"

\* BillingService: the plan's seats, which no page looks at.
SeatRules(o, call) ==
  call = "createInvitation" /\ sub[o] \in LIVE => o \notin full

\* CommerceController: the user's own orders, whatever the workspace.
CommerceController(call) ==
  /\ call = "intake" => order \in {"CREATED", "PAID", "PROVISIONING"}
  /\ call = "brand-intake" => order \in {"PAID", "PROVISIONING"}

RowCalls == {"changeMemberRole", "removeMember", "resendInvitation",
             "revokeInvitation", "verifyDomain", "removeDomain"}
UserCalls == {"updateMe", "checkout", "intake", "brand-intake"}

\* What is typed into these may be declined: an address that is invited already,
\* a domain without its TXT record, a plan with too few seats.
TypedCalls == UserCalls \cup {"createInvitation", "updateOrg", "addDomain",
                              "verifyDomain", "createCheckoutSession"}

\* A row of another workspace is not found.
findInOrg(call, o, rowOf) == call \in RowCalls => rowOf = o

Accepts(o, form, rowOf) ==
  IF form[1] \in UserCalls THEN CommerceController(form[1])
  ELSE /\ RolesGuard(o, form[1])
       /\ findInOrg(form[1], o, rowOf)
       /\ MembershipRules(o, form) /\ BillingRules(o, form[1])

-----------------------------------------------------------------------------
(* The pages: the reads they wait for and the forms they offer, by the role   *)
(* that their session read.                                                   *)
Plain(calls) == {<<c, "none">> : c \in calls}

\* Plausible bug: an OWNER's row is offered to an ADMIN.
TeamPage_bug(o, as) ==
  LET roles == IF as = "OWNER" THEN ROLES ELSE ROLES \ {"OWNER"}
  IN [reads |-> {"getMembers"} \cup IF can(as, "member_invite") THEN {"getInvitations"} ELSE {},
      forms |-> IF ~can(as, "member_manage") THEN {}
                ELSE {<<"changeMemberRole", r>> : r \in roles} \cup Plain({"removeMember"})]

TeamPage(o, as) ==
  LET roles == IF as = "OWNER" THEN ROLES ELSE ROLES \ {"OWNER"}
      lastOwner == other[o] = "OWNER" /\ roleIn(o) # "OWNER"
      touchable == /\ can(as, "member_manage") /\ ~lastOwner
                   /\ as = "OWNER" \/ other[o] # "OWNER"
      canInvite == can(as, "member_invite")
  IN [reads |-> {"getMembers"} \cup IF canInvite THEN {"getInvitations"} ELSE {},
      forms |->
        (IF touchable THEN {<<"changeMemberRole", r>> : r \in roles}
                           \cup Plain({"removeMember"}) ELSE {})
        \cup (IF canInvite THEN {<<"createInvitation", r>> : r \in roles}
                \cup Plain({"resendInvitation", "revokeInvitation"}) ELSE {})]

SettingsPage(o, as) ==
  LET manageOrg == can(as, "org_manage")
  IN [reads |-> IF manageOrg THEN {"getOrg", "getDomains"} ELSE {},
      forms |-> Plain({"updateMe"} \cup IF manageOrg
        THEN {"updateOrg", "addDomain", "verifyDomain", "removeDomain"} ELSE {})]

BillingPage(o, as) ==
  IF ~can(as, "billing_manage") THEN [reads |-> {}, forms |-> {}]
  ELSE [reads |-> {"getBillingSubscription", "getInvoices"},
        forms |-> Plain((IF sub[o] # "none" THEN {"createPortalSession"} ELSE {})
                        \cup IF sub[o] \in LIVE THEN {} ELSE {"createCheckoutSession"})]

OrdersPage(o, as) ==
  [reads |-> {},
   forms |-> Plain({"checkout"}
     \cup (IF order \in {"CREATED", "PAID", "PROVISIONING"} THEN {"intake"} ELSE {})
     \cup (IF order \in {"PAID", "PROVISIONING"} THEN {"brand-intake"} ELSE {}))]

loadOrders == {"getClientsForOrg", "getProvisioningOrders"}
ProductsPage(o, as) == [reads |-> loadOrders, forms |-> {}]
GLinksDashboardPage(o, as) ==
  [reads |-> {"getClientsForOrg", "getGLinksForClient"}, forms |-> {}]

\* Its reads are settled: one that is refused leaves its tile without a value.
OverviewPage(o, as) ==
  [reads |-> loadOrders \cup {"getMembers"}
     \cup (IF can(as, "member_invite") THEN {"getInvitations"} ELSE {})
     \cup (IF can(as, "billing_manage") THEN {"getInvoices", "getBillingSubscription"} ELSE {})
     \cup (IF can(as, "org_manage") THEN {"getDomains"} ELSE {}),
   forms |-> {}]

PageOf(p, o, as) ==
  CASE p = "team" -> TeamPage(o, as) [] p = "settings" -> SettingsPage(o, as)
    [] p = "billing" -> BillingPage(o, as) [] p = "orders" -> OrdersPage(o, as)
    [] p = "products" -> ProductsPage(o, as) [] p = "glinks" -> GLinksDashboardPage(o, as)
    [] p = "overview" -> OverviewPage(o, as)

-----------------------------------------------------------------------------
\* UsersService.me orders the memberships by createdAt; the first is active.
Active == IF member = <<>> THEN [org |-> NoWorkspace, role |-> "none"] ELSE Head(member)

\* Without a workspace there is nothing to offer but the user's own forms.
getSession(t) ==
  /\ tab[t].pc \in {"blank", "shown", "done", "refused", "declined", "failed"}
  /\ \E p \in Pages :
       /\ member # <<>>
       /\ tab' = [tab EXCEPT ![t] = [Blank EXCEPT !.pc = "reads", !.page = p,
                                     !.org = Active.org, !.as = Active.role]]
  /\ UNCHANGED <<member, other, sub, full, order, moves>>

\* A read that is refused throws, and the page is an error page.
render(t) ==
  /\ tab[t].pc = "reads"
  /\ LET x == tab[t]
         page == PageOf(x.page, x.org, x.as)
         allowed == \A c \in page.reads : RolesGuard(x.org, c)
     IN tab' = [tab EXCEPT
          ![t].pc = IF allowed \/ x.page = "overview" THEN "shown" ELSE "failed",
          ![t].forms = IF allowed THEN page.forms ELSE {}]
  /\ UNCHANGED <<member, other, sub, full, order, moves>>

\* The permission that the server action of a form asks for.
ActionRequires(call) ==
  CASE call \in {"createInvitation", "resendInvitation", "revokeInvitation"} -> "member_invite"
    [] call \in {"changeMemberRole", "removeMember"} -> "member_manage"
    [] call \in {"updateOrg", "addDomain", "verifyDomain", "removeDomain"} -> "org_manage"
    [] call \in {"createCheckoutSession", "createPortalSession"} -> "billing_manage"

\* Plausible bug: the workspace joined last is the active one.
submit_bug(t) ==
  /\ tab[t].pc = "shown"
  /\ member # <<>>
  /\ \E f \in tab[t].forms :
       LET ok == f[1] \in UserCalls \/ can(Last(member).role, ActionRequires(f[1]))
       IN tab' = [tab EXCEPT ![t].pc = IF ok THEN "posted" ELSE "refused",
                             ![t].form = f, ![t].to = Last(member).org]
  /\ UNCHANGED <<member, other, sub, full, order, moves>>

\* A server action: it reads the session of now and asks for the permission.
submit(t) ==
  /\ tab[t].pc = "shown"
  /\ \E f \in tab[t].forms :
       LET ok == f[1] \in UserCalls \/ can(Active.role, ActionRequires(f[1]))
       IN tab' = [tab EXCEPT ![t].pc = IF ok THEN "posted" ELSE "refused",
                             ![t].form = f, ![t].to = Active.org]
  /\ UNCHANGED <<member, other, sub, full, order, moves>>

\* The effects on the API's rows are in the modules of those rows.
callApi(t) ==
  /\ tab[t].pc = "posted"
  /\ LET o == tab[t].to  call == tab[t].form[1]
         accepted == Accepts(o, tab[t].form, tab[t].org)
     IN \E answer \in {"refused", "declined", "done"} :
          /\ answer = "refused" <=> ~accepted
          /\ answer = "declined" => call \in TypedCalls \/ ~SeatRules(o, call)
          /\ answer = "done" => SeatRules(o, call)
          /\ tab' = [tab EXCEPT ![t].pc = answer]
  /\ UNCHANGED <<member, other, sub, full, order, moves>>

-----------------------------------------------------------------------------
(* Others: owners and admins of the workspaces, Stripe, an invitation that is *)
(* accepted elsewhere.                                                        *)
Stale(gone) ==
  /\ moves < MaxMoves /\ moves' = moves + 1
  /\ tab' = [t \in Tabs |-> [tab[t] EXCEPT
       !.fresh = FALSE, !.left = @ \/ tab[t].org = gone]]

joined ==
  /\ \E o \in Workspaces, r \in ROLES :
       /\ roleIn(o) = "none"
       /\ member' = Append(member, [org |-> o, role |-> r])
  /\ Stale(NoWorkspace)
  /\ UNCHANGED <<other, sub, full, order>>

roleChanged ==
  /\ \E i \in DOMAIN member : \E r \in ROLES \ {member[i].role} :
       member' = [member EXCEPT ![i].role = r]
  /\ Stale(NoWorkspace)
  /\ UNCHANGED <<other, sub, full, order>>

removed ==
  /\ \E i \in DOMAIN member :
       /\ member' = RemoveAt(member, i)
       /\ Stale(member[i].org)
  /\ UNCHANGED <<other, sub, full, order>>

elsewhere ==
  /\ \/ /\ \E o \in Workspaces, r \in ROLES : other' = [other EXCEPT ![o] = r]
        /\ UNCHANGED <<sub, full, order>>
     \/ /\ \E o \in Workspaces : sub' = [sub EXCEPT ![o] = IF @ = "active" THEN "canceled" ELSE "active"]
        /\ UNCHANGED <<other, full, order>>
     \/ /\ order' = IF order = "CREATED" THEN "PAID" ELSE "HELD"
        /\ UNCHANGED <<other, sub, full>>
     \/ /\ \E o \in Workspaces : full' \in {full \cup {o}, full \ {o}} \ {full}
        /\ UNCHANGED <<other, sub, order>>
  /\ Stale(NoWorkspace)
  /\ UNCHANGED member

PortalNext ==
  \/ \E t \in Tabs : getSession(t) \/ render(t) \/ submit(t) \/ callApi(t)
  \/ joined \/ roleChanged \/ removed \/ elsewhere

PortalSpec == PortalInit /\ [][PortalNext]_portalVars

-----------------------------------------------------------------------------
\* "hidden affordances and rejected requests can never drift apart"
\* (session.ts:16): while nobody changed anything since the session was read,
\* no page is refused a read, and no form it offers is refused by a server
\* action, a guard, or a rule about roles, owners, rows and statuses. The API may
\* still decline what was typed, and an invitation when every seat is taken:
\* the team page offers the form regardless (team/page.tsx:144).
OfferedIsAccepted ==
  \A t \in Tabs : tab[t].pc \in {"refused", "failed"} => ~tab[t].fresh

\* A form takes effect in another workspace than its page showed only if the
\* user has left that one: joining never moves the active workspace.
MovesOnlyWhenLeft ==
  \A t \in Tabs :
    tab[t].pc = "done" /\ tab[t].form[1] \notin UserCalls /\ tab[t].to # tab[t].org
      => tab[t].left

\* A form about one row takes effect in the workspace of that row or not at
\* all, whatever workspace is active when it is posted.
RowFormsStay ==
  \A t \in Tabs :
    tab[t].pc = "done" /\ tab[t].form[1] \in RowCalls => tab[t].to = tab[t].org

\* A posted form acts where it was shown, or the user knows they left.
FormsStay == MovesOnlyWhenLeft /\ RowFormsStay
=============================================================================
