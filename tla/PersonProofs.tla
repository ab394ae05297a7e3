----------------------------- MODULE PersonProofs -----------------------------
(* What one person is to the system, for every number of tokens, views, tabs  *)
(* and workspaces: a holder of refresh tokens that are spent once, and a      *)
(* reader of portal pages that offer what the API accepts.                    *)
EXTENDS Session, Portal, SequenceTheorems, TLAPS

-----------------------------------------------------------------------------
(* The session.                                                               *)

\* A view that has found t live, and has not yet issued what it buys.
Buys(v, t) == view[v].used = t /\ view[v].pc \in {"revoke", "issue"}

\* Tokens in use were issued.
Issued ==
  /\ cookie.expired => cookie.token # NoToken
  /\ cookie.token # NoToken => token[cookie.token] # "unissued"
  /\ \A v \in Views : view[v].pc # "idle" =>
       view[v].used \in Tokens /\ token[view[v].used] # "unissued"

\* A token that bought something is revoked, and only a raced one has two
\* buyers, be they children or views.
Spent ==
  \A t \in Tokens :
    /\ \A s \in Tokens : parent[s] = t => token[t] = "revoked"
    /\ \A v \in Views : view[v].used = t /\ view[v].pc \in {"issue", "answer"}
         => token[t] = "revoked"
    /\ t \notin raced =>
         /\ \A v, w \in Views : Buys(v, t) /\ Buys(w, t) => v = w
         /\ \A s \in Tokens, v \in Views : ~(parent[s] = t /\ Buys(v, t))
         /\ \A s, u \in Tokens : parent[s] = t /\ parent[u] = t => s = u

\* A token that was logged out in peace has no buyer, now or later.
Over ==
  \A t \in ended :
    /\ token[t] = "revoked"
    /\ \A v \in Views : ~Buys(v, t)
    /\ \A s \in Tokens : parent[s] # t

\* A token on its way to the cookie is nobody else's.
Fresh ==
  \A v \in Views : view[v].pc = "answer" =>
    /\ view[v].got \in Tokens /\ cookie.token # view[v].got
    /\ token[view[v].got] # "unissued"
    /\ token[view[v].got] = "live" \/ view[v].got \in out
    /\ \A w \in Views :
         /\ view[w].pc # "idle" => view[w].used # view[v].got
         /\ w # v /\ view[w].pc = "answer" => view[w].got # view[v].got

SessionIInv == SessionTypeOK /\ Issued /\ Spent /\ Over /\ Fresh /\ CookieUsable

LEMMA SessionInitially == ASSUME SessionInit PROVE SessionIInv
BY SessionConstants DEF SessionInit, SessionIInv, SessionTypeOK, ViewSteps, Issued, Spent, Over, Fresh,
  CookieUsable, Buys, NoCookie, NoView

\* Login: a new token that nobody holds yet.
LEMMA AuthorizeStep == ASSUME SessionIInv, authorize PROVE SessionIInv'
<1> USE SessionConstants DEF SessionIInv, ViewSteps
<1>1. PICK t \in Tokens : issueTokens(t, NoToken) /\ cookie' = [token |-> t, expired |-> FALSE]
  BY DEF authorize
<1>2. /\ token[t] = "unissued" /\ token'[t] = "live" /\ parent'[t] = NoToken
      /\ \A s \in Tokens \ {t} : token'[s] = token[s] /\ parent'[s] = parent[s]
      /\ UNCHANGED <<view, raced, out, ended, lost, restored>>
  BY <1>1 DEF issueTokens, authorize, SessionTypeOK
<1>3. SessionTypeOK'
  BY <1>1, <1>2 DEF SessionTypeOK, issueTokens
<1>4. Issued'
  BY <1>1, <1>2 DEF Issued
<1>5. Spent'
  BY <1>1, <1>2 DEF Spent, Buys, SessionTypeOK
<1>6. Over'
  BY <1>1, <1>2 DEF Over, Buys, SessionTypeOK
<1>7. Fresh'
  BY <1>1, <1>2 DEF Fresh, SessionTypeOK
<1>8. CookieUsable'
  BY <1>1, <1>2 DEF CookieUsable, Live
<1> QED BY <1>3, <1>4, <1>5, <1>6, <1>7, <1>8

LEMMA LogoutStep == ASSUME SessionIInv, NEW t \in Tokens, logout(t) PROVE SessionIInv'
<1> USE SessionConstants DEF SessionIInv, ViewSteps
<1>1. /\ token[t] = "live" /\ token'[t] = "revoked"
      /\ \A s \in Tokens \ {t} : token'[s] = token[s]
      /\ out' = out \cup {t} /\ UNCHANGED <<cookie, view, parent, raced, lost, restored>>
      /\ ended' \in {ended, ended \cup {t}}
      /\ t \in ended' /\ t \notin ended => Trading(t, {"revoke"}) = {}
  BY DEF logout, SessionTypeOK
<1>2. SessionTypeOK'
  BY <1>1 DEF SessionTypeOK, logout
<1>3. Issued' /\ Fresh' /\ CookieUsable'
  BY <1>1 DEF Issued, Fresh, CookieUsable, Live, Trading, SessionTypeOK
<1>4. Spent'
  BY <1>1 DEF Spent, Buys
<1>5. ~\E s \in Tokens : parent[s] = t
  BY <1>1 DEF Spent
<1>6. t \in ended' /\ t \notin ended => \A v \in Views : ~Buys(v, t)
  BY <1>1 DEF Spent, Buys, Trading
<1>7. ended \subseteq Tokens
  BY DEF SessionTypeOK
<1>8. Over'
  BY <1>1, <1>5, <1>6, <1>7 DEF Over, Buys
<1> QED BY <1>2, <1>3, <1>4, <1>8

\* The steps of the browser alone.
LEMMA CookieStep == ASSUME SessionIInv, signOut \/ accessExpires PROVE SessionIInv'
<1>1. /\ UNCHANGED <<token, view, seenTokens>>
      /\ cookie' \in [token : {NoToken, cookie.token}, expired : BOOLEAN]
      /\ cookie'.expired => cookie'.token # NoToken
      /\ cookie' # NoCookie => cookie # NoCookie /\ cookie'.token = cookie.token
  <2>1. CASE signOut
    BY <2>1 DEF signOut, NoCookie, SessionIInv, SessionTypeOK
  <2>2. CASE accessExpires
    <3>1. cookie' = [token |-> cookie.token, expired |-> TRUE] /\ cookie.token # NoToken
      BY <2>2 DEF accessExpires, NoCookie, SessionIInv, SessionTypeOK
    <3> QED BY <2>2, <3>1 DEF accessExpires, NoCookie, SessionIInv, SessionTypeOK
  <2> QED BY <2>1, <2>2
<1>2. SessionTypeOK'
  BY <1>1 DEF SessionIInv, SessionTypeOK, seenTokens
<1>3. Issued' /\ Spent' /\ Over'
  BY <1>1 DEF SessionIInv, SessionTypeOK, Issued, Spent, Over, Buys, seenTokens
<1>4. Fresh'
  BY <1>1, SessionConstants DEF SessionIInv, SessionTypeOK, Fresh, seenTokens
<1>5. CookieUsable'
  BY <1>1 DEF SessionIInv, CookieUsable, Live, Trading, seenTokens
<1> QED BY <1>2, <1>3, <1>4, <1>5 DEF SessionIInv

LEMMA JwtStep == ASSUME SessionIInv, NEW v \in Views, jwt(v) PROVE SessionIInv'
<1> USE SessionConstants DEF SessionIInv, ViewSteps
<1>1. /\ view'[v].pc \in {"find", "keep"} /\ view'[v].used = cookie.token /\ cookie.token \in Tokens
      /\ token[cookie.token] # "unissued" /\ view[v].pc = "idle"
      /\ \A w \in Views \ {v} : view'[w] = view[w]
      /\ UNCHANGED <<token, cookie, parent, raced, out, ended, lost, restored>>
  BY DEF jwt, seenTokens, SessionTypeOK, Issued, NoCookie
<1>2. SessionTypeOK'
  BY <1>1 DEF SessionTypeOK, jwt
<1>3. Issued' /\ Spent' /\ Over'
  BY <1>1 DEF Issued, Spent, Over, Buys
<1>4. Fresh'
  BY <1>1 DEF Fresh
<1>5. CookieUsable'
  BY <1>1 DEF CookieUsable, Live, Trading
<1> QED BY <1>2, <1>3, <1>4, <1>5

\* The look-up finds the token live, or the refresh fails.
LEMMA RefreshStep == ASSUME SessionIInv, NEW v \in Views, refresh(v) PROVE SessionIInv'
<1> USE SessionConstants DEF SessionIInv, ViewSteps
<1> DEFINE t == view[v].used
<1>1. /\ view[v].pc = "find" /\ view'[v].pc \in {"revoke", "failed"} /\ t \in Tokens
      /\ view'[v].used = t /\ view'[v].got = view[v].got
      /\ view'[v].pc = "revoke" => token[t] = "live"
      /\ \A w \in Views \ {v} : view'[w] = view[w]
      /\ UNCHANGED <<token, cookie, parent, out, ended, lost, restored>>
      /\ raced' \in {raced, raced \cup {t}}
      /\ view'[v].pc = "revoke" /\ Trading(t, {"revoke"}) # {} => t \in raced'
  BY DEF refresh, NoteRace, SessionTypeOK, Issued, Live
<1>2. SessionTypeOK'
  <2>1. view' \in [Views -> [pc : ViewSteps,
       used : Tokens \cup {NoToken}, got : Tokens \cup {NoToken}]]
    BY DEF refresh, SessionTypeOK
  <2>2. raced' \subseteq Tokens
    BY <1>1 DEF SessionTypeOK
  <2> HIDE DEF t
  <2> QED BY <1>1, <2>1, <2>2 DEF SessionTypeOK
<1>3. Issued'
  BY <1>1 DEF Issued
<1>4. view'[v].pc = "revoke" =>
        /\ \A s \in Tokens : parent[s] # t
        /\ \A w \in Views : view[w].used = t => view[w].pc # "issue"
        /\ t \notin raced' => \A w \in Views : view[w].used = t => view[w].pc # "revoke"
  BY <1>1 DEF Spent, Trading
<1>5. Spent'
  BY <1>1, <1>4 DEF Spent, Buys
<1>6. Over'
  BY <1>1 DEF Over, Buys
<1>7. Fresh'
  BY <1>1 DEF Fresh
<1>8. CookieUsable'
  BY <1>1 DEF CookieUsable, Live, Trading
<1> QED BY <1>2, <1>3, <1>5, <1>6, <1>7, <1>8

LEMMA RevokeStep == ASSUME SessionIInv, NEW v \in Views, refreshRevoke(v) PROVE SessionIInv'
<1> USE SessionConstants DEF SessionIInv, ViewSteps
<1> DEFINE t == view[v].used
<1>1. /\ view[v].pc = "revoke" /\ view'[v].pc = "issue" /\ t \in Tokens
      /\ view'[v].used = t /\ view'[v].got = view[v].got
      /\ \A w \in Views \ {v} : view'[w] = view[w]
      /\ token'[t] = "revoked" /\ \A s \in Tokens \ {t} : token'[s] = token[s]
      /\ UNCHANGED <<cookie, parent, raced, out, ended, lost, restored>>
  BY DEF refreshRevoke, seenTokens, SessionTypeOK, Issued
<1>2. SessionTypeOK'
  <2>1. view' \in [Views -> [pc : ViewSteps,
       used : Tokens \cup {NoToken}, got : Tokens \cup {NoToken}]]
    BY DEF refreshRevoke, SessionTypeOK
  <2>2. token' \in [Tokens -> {"unissued", "live", "revoked"}]
    BY <1>1 DEF refreshRevoke, SessionTypeOK
  <2> HIDE DEF t
  <2> QED BY <1>1, <2>1, <2>2 DEF SessionTypeOK
<1>3. Issued'
  BY <1>1 DEF Issued, SessionTypeOK
<1>4. Spent'
  BY <1>1 DEF Spent, Buys
<1>5. Over'
  <2>1. ended \subseteq Tokens
    BY DEF SessionTypeOK
  <2>2. ~Buys(v, t)' \/ t \notin ended
    BY <1>1 DEF Over, Buys
  <2> QED BY <1>1, <2>1, <2>2 DEF Over, Buys
<1>6. Fresh'
  BY <1>1 DEF Fresh
<1>7. CookieUsable'
  BY <1>1 DEF CookieUsable, Live, Trading
<1> QED BY <1>2, <1>3, <1>4, <1>5, <1>6, <1>7

LEMMA IssueStep == ASSUME SessionIInv, NEW v \in Views, refreshIssue(v) PROVE SessionIInv'
<1> USE SessionConstants DEF SessionIInv, ViewSteps
<1> DEFINE t == view[v].used
<1>1. PICK s \in Tokens : /\ issueTokens(s, t)
                          /\ view' = [view EXCEPT ![v] = [pc |-> "answer", used |-> t, got |-> s]]
  BY DEF refreshIssue
<1>2. /\ view[v].pc = "issue" /\ t \in Tokens /\ token[t] = "revoked"
      /\ view'[v].pc = "answer" /\ view'[v].used = t /\ view'[v].got = s
      /\ \A w \in Views \ {v} : view'[w] = view[w]
      /\ token[s] = "unissued" /\ token'[s] = "live" /\ parent'[s] = t /\ s # t
      /\ \A u \in Tokens \ {s} : token'[u] = token[u] /\ parent'[u] = parent[u]
      /\ UNCHANGED <<cookie, raced, out, ended, lost, restored>>
  BY <1>1 DEF refreshIssue, issueTokens, SessionTypeOK, Issued, Spent
<1>3. SessionTypeOK'
  <2>1. view' \in [Views -> [pc : ViewSteps,
       used : Tokens \cup {NoToken}, got : Tokens \cup {NoToken}]]
    BY <1>1, <1>2 DEF SessionTypeOK
  <2>2. /\ token' \in [Tokens -> {"unissued", "live", "revoked"}]
        /\ parent' \in [Tokens -> Tokens \cup {NoToken}]
    BY <1>1, <1>2 DEF issueTokens, SessionTypeOK
  <2> HIDE DEF t
  <2> QED BY <1>2, <2>1, <2>2 DEF SessionTypeOK
<1>4. Issued'
  BY <1>2 DEF Issued, SessionTypeOK
<1>5. t \notin raced => /\ \A u \in Tokens : parent[u] # t
                        /\ \A w \in Views \ {v} : ~Buys(w, t)
  BY <1>2 DEF Spent, Buys
<1>6. Spent'
  BY <1>2, <1>5 DEF Spent, Buys
<1>7. Over'
  <2>1. ended \subseteq Tokens
    BY DEF SessionTypeOK
  <2>2. s \notin ended /\ t \notin ended
    BY <1>2, <2>1 DEF Over, Buys
  <2> QED BY <1>2, <2>1, <2>2 DEF Over, Buys
<1>8. Fresh'
  BY <1>2 DEF Fresh, Issued, SessionTypeOK
<1>9. CookieUsable'
  BY <1>2 DEF CookieUsable, Live, Trading, Issued, SessionTypeOK, NoCookie
<1> QED BY <1>3, <1>4, <1>6, <1>7, <1>8, <1>9

\* A view ends: its pair is stored, its cookie dropped, or its answer lost.
LEMMA EndStep ==
  ASSUME SessionIInv, NEW v \in Views, jwtStore(v) \/ jwtDrop(v) \/ answerLost(v)
  PROVE  SessionIInv'
<1> USE SessionConstants DEF SessionIInv, ViewSteps
<1>1. /\ view'[v] = NoView /\ \A w \in Views \ {v} : view'[w] = view[w]
      /\ UNCHANGED <<token, parent, raced, out, ended, restored>> /\ lost \subseteq lost'
      /\ lost' \subseteq Tokens
      /\ view' \in [Views -> [pc : ViewSteps,
           used : Tokens \cup {NoToken}, got : Tokens \cup {NoToken}]]
  BY DEF jwtStore, jwtDrop, answerLost, seenTokens, SessionTypeOK, Issued, NoView
<1>2. \/ view[v].pc = "answer" /\ cookie' = [token |-> view[v].got, expired |-> FALSE]
      \/ cookie' = NoCookie
      \/ /\ cookie' = cookie
         /\ view[v].pc \in {"issue", "answer"} => view[v].used \in lost'
  BY DEF jwtStore, jwtDrop, answerLost
<1>3. SessionTypeOK'
  <2>1. cookie' \in [token : Tokens \cup {NoToken}, expired : BOOLEAN]
    <3>1. view[v].got \in Tokens \cup {NoToken}
      BY DEF SessionTypeOK
    <3>2. CASE cookie' = [token |-> view[v].got, expired |-> FALSE]
      BY <3>1, <3>2
    <3>3. CASE cookie' = NoCookie
      BY <3>3 DEF NoCookie
    <3>4. CASE cookie' = cookie
      BY <3>4 DEF SessionTypeOK
    <3> QED BY <1>2, <3>2, <3>3, <3>4
  <2> QED BY <1>1, <2>1 DEF SessionTypeOK
<1>4. Issued'
  BY <1>1, <1>2 DEF Issued, Fresh, NoCookie, NoView
<1>5. Spent' /\ Over'
  BY <1>1 DEF Spent, Over, Buys, NoView
<1>6. Fresh'
  BY <1>1, <1>2 DEF Fresh, NoCookie, NoView
<1>7. CookieUsable'
  BY <1>1, <1>2 DEF CookieUsable, Live, Trading, Fresh
<1> QED BY <1>3, <1>4, <1>5, <1>6, <1>7

\* A late response puts back the tokens that its view was given.
LEMMA ReturnStep == ASSUME SessionIInv, NEW v \in Views, jwtReturn(v) PROVE SessionIInv'
<1> USE SessionConstants DEF SessionIInv, ViewSteps
<1>1. PICK t \in Tokens : t = view[v].used /\ token[t] # "unissued" /\ view[v].pc = "keep"
  BY DEF jwtReturn, Issued
<1>2. /\ view'[v] = NoView /\ \A w \in Views \ {v} : view'[w] = view[w]
      /\ UNCHANGED <<token, parent, raced, out, ended, lost>>
      /\ view' \in [Views -> [pc : ViewSteps, used : Tokens \cup {NoToken}, got : Tokens \cup {NoToken}]]
  BY DEF jwtReturn, SessionTypeOK, NoView
<1>3. /\ \E e \in BOOLEAN : cookie' = [token |-> t, expired |-> e]
      /\ restored' = IF t \in Live \cup {cookie.token} THEN restored ELSE restored \cup {t}
      /\ cookie.token = t => cookie' # NoCookie /\ cookie'.token = t
  BY <1>1 DEF jwtReturn, NoCookie
<1>4. cookie'.token = t /\ cookie' \in [token : Tokens \cup {NoToken}, expired : BOOLEAN]
  BY <1>3
<1>5. restored \subseteq restored' /\ restored' \subseteq Tokens
      /\ t \in Live \cup {cookie.token} \cup restored'
  BY <1>3 DEF SessionTypeOK
<1>6. SessionTypeOK'
  BY <1>2, <1>4, <1>5 DEF SessionTypeOK
<1>7. Issued'
  BY <1>1, <1>2, <1>4 DEF Issued, NoView
<1>8. Spent' /\ Over'
  BY <1>2 DEF Spent, Over, Buys, NoView
<1>9. Fresh'
  BY <1>1, <1>2, <1>4 DEF Fresh, NoView
<1>10. CookieUsable'
  <2>1. cookie.token = t => cookie # NoCookie
    BY <1>1 DEF NoCookie
  <2>2. \A w \in Views : view[w].pc \in {"issue", "answer"} => view'[w] = view[w]
    BY <1>1, <1>2
  <2> QED BY <1>2, <1>4, <1>5, <2>1, <2>2 DEF CookieUsable, Live, Trading
<1> QED BY <1>6, <1>7, <1>8, <1>9, <1>10

LEMMA SessionStep == ASSUME SessionIInv, [SessionNext]_sessionVars PROVE SessionIInv'
<1>1. CASE UNCHANGED sessionVars
  BY <1>1 DEF sessionVars, seenTokens, SessionIInv, SessionTypeOK, ViewSteps, Issued, Spent, Over, Fresh,
    CookieUsable, Buys, Live, Trading
<1> QED BY <1>1, AuthorizeStep, LogoutStep, CookieStep, JwtStep, RefreshStep, RevokeStep,
      IssueStep, EndStep, ReturnStep DEF SessionNext

LEMMA SessionInvariant == SessionSpec => []SessionIInv
BY SessionInitially, SessionStep, PTL DEF SessionSpec

\* Every reachable state is of the types declared, and whatever a view works
\* with was issued.
THEOREM SessionTypesCorrect == SessionSpec => []SessionTypeOK
<1>1. SessionIInv => SessionTypeOK
  BY DEF SessionIInv
<1> QED BY <1>1, SessionInvariant, PTL

\* However many views refresh with one cookie, a token buys two pairs only if
\* both had found it live first, and a token logged out buys none
\* (auth.service.ts:101, :108).
THEOREM TokensOnce == SessionSpec => []TokensSpentOnce
<1>1. SessionIInv => TokensSpentOnce
  BY SessionConstants DEF SessionIInv, SessionTypeOK, Spent, Over, TokensSpentOnce,
    TradedTwiceOnlyWhenRaced, LoggedOutForGood
<1> QED BY <1>1, SessionInvariant, PTL

\* The cookie never keeps a token that was traded away while the pair arrives,
\* unless a late response puts it back (portal auth.ts:97, :111).
THEOREM CookieStaysUsable == SessionSpec => []CookieUsable
<1>1. SessionIInv => CookieUsable
  BY DEF SessionIInv
<1> QED BY <1>1, SessionInvariant, PTL

-----------------------------------------------------------------------------
(* The portal.                                                                *)

Membership == [org : Workspaces, role : ROLES]
Calls == {"changeMemberRole", "removeMember", "createInvitation", "resendInvitation", "revokeInvitation",
          "updateOrg", "addDomain", "verifyDomain", "removeDomain", "createCheckoutSession",
          "createPortalSession", "updateMe", "checkout", "intake", "brand-intake", "none"}
Form == Calls \X (ROLES \cup {"none"})
Tab == [pc : {"blank", "reads", "shown", "posted", "done", "refused", "declined", "failed"},
        page : Pages \cup {"none"}, org : Workspaces \cup {NoWorkspace}, as : ROLES \cup {"none"},
        forms : SUBSET Form, form : Form, to : Workspaces \cup {NoWorkspace},
        fresh : BOOLEAN, left : BOOLEAN]

PortalTypes ==
  /\ member \in Seq(Membership)
  /\ \A i, j \in DOMAIN member : member[i].org = member[j].org => i = j
  /\ other \in [Workspaces -> ROLES]
  /\ tab \in [Tabs -> Tab]

\* The API answers a form that was offered in workspace o to a user who is as there.
Passes(o, as, f) ==
  /\ f[1] \in UserCalls \/ can(as, ActionRequires(f[1]))
  /\ Accepts(o, f, o)

\* What a tab shows is of the active workspace, until the user has left it, and
\* of the role there, until somebody changes something.
ShownIsCurrent ==
  \A t \in Tabs : tab[t].pc # "blank" =>
    /\ tab[t].page \in Pages /\ tab[t].org \in Workspaces
    /\ ~tab[t].left => member # <<>> /\ member[1].org = tab[t].org
    /\ tab[t].fresh => ~tab[t].left /\ member[1].role = tab[t].as

OffersPass ==
  \A t \in Tabs : tab[t].fresh =>
    /\ tab[t].pc = "shown" => \A f \in tab[t].forms : Passes(tab[t].org, tab[t].as, f)
    /\ tab[t].pc = "posted" => Passes(tab[t].org, tab[t].as, tab[t].form)

PostedWhereShown ==
  \A t \in Tabs : tab[t].pc \in {"posted", "done"} /\ tab[t].to # tab[t].org => tab[t].left

PortalIInv ==
  /\ PortalTypes /\ ShownIsCurrent /\ OffersPass /\ PostedWhereShown
  /\ OfferedIsAccepted /\ RowFormsStay

LEMMA RoleIsFirst ==
  ASSUME PortalTypes, member # <<>>
  PROVE  roleIn(member[1].org) = member[1].role /\ member[1] \in Membership
<1>1. 1 \in DOMAIN member /\ member[1] \in Membership
  BY DEF PortalTypes
<1>2. ToSet(member) = {member[i] : i \in DOMAIN member}
  BY DEF ToSet
<1>3. \A m \in ToSet(member) : m.org = member[1].org => m = member[1]
  BY <1>1, <1>2 DEF PortalTypes
<1>4. member[1] \in ToSet(member)
  BY <1>1, <1>2
<1> QED
  BY <1>1, <1>3, <1>4 DEF roleIn

LEMMA ActiveIsFirst ==
  ASSUME PortalTypes, member # <<>> PROVE Active = member[1]
BY DEF PortalTypes, Active

LEMMA RoutesAre ==
  /\ Routes("getMembers") = "member_read" /\ Routes("changeMemberRole") = "member_manage"
  /\ Routes("removeMember") = "member_manage" /\ Routes("getInvitations") = "member_invite"
  /\ Routes("createInvitation") = "member_invite" /\ Routes("resendInvitation") = "member_invite"
  /\ Routes("revokeInvitation") = "member_invite" /\ Routes("getDomains") = "org_manage"
  /\ Routes("addDomain") = "org_manage" /\ Routes("verifyDomain") = "org_manage"
  /\ Routes("removeDomain") = "org_manage" /\ Routes("getOrg") = "org_read"
  /\ Routes("updateOrg") = "org_manage" /\ Routes("getBillingSubscription") = "billing_manage"
  /\ Routes("getInvoices") = "billing_manage" /\ Routes("createCheckoutSession") = "billing_manage"
  /\ Routes("createPortalSession") = "billing_manage" /\ Routes("getGLinksForClient") = "glink_read"
  /\ Routes("getProvisioningOrders") = "provisioning_read" /\ Routes("getClientsForOrg") = "membership"
BY DEF Routes, MembershipsController, InvitationsController, DomainsController, OrgsController,
  BillingController, GlinksController, ProvisioningController, ClientsController

\* The form that asks for call and grants a role, or none.
LEMMA FormIs == ASSUME NEW c, NEW x PROVE <<c, x>>[1] = c /\ <<c, x>>[2] = x
OBVIOUS

LEMMA PlainIs ==
  ASSUME NEW S, NEW f \in Plain(S) PROVE \E c \in S : f = <<c, "none">>
BY DEF Plain

\* A form of a call whose action and route ask for the same permission passes,
\* when the services have nothing against it either.
LEMMA FormPasses ==
  ASSUME NEW o, NEW as \in ROLES, roleIn(o) = as, NEW c, NEW x, c \notin UserCalls,
         Routes(c) # "membership", ActionRequires(c) = Routes(c), can(as, Routes(c)),
         MembershipRules(o, <<c, x>>), BillingRules(o, c)
  PROVE  Passes(o, as, <<c, x>>)
BY DEF Passes, Accepts, RolesGuard, findInOrg

LEMMA Required ==
  /\ ActionRequires("createInvitation") = "member_invite"
  /\ ActionRequires("resendInvitation") = "member_invite"
  /\ ActionRequires("revokeInvitation") = "member_invite"
  /\ ActionRequires("changeMemberRole") = "member_manage"
  /\ ActionRequires("removeMember") = "member_manage"
  /\ ActionRequires("updateOrg") = "org_manage" /\ ActionRequires("addDomain") = "org_manage"
  /\ ActionRequires("verifyDomain") = "org_manage" /\ ActionRequires("removeDomain") = "org_manage"
  /\ ActionRequires("createCheckoutSession") = "billing_manage"
  /\ ActionRequires("createPortalSession") = "billing_manage"
BY DEF ActionRequires

LEMMA TeamOffers ==
  ASSUME NEW o \in Workspaces, NEW as \in ROLES, roleIn(o) = as, other \in [Workspaces -> ROLES],
         NEW f \in TeamPage(o, as).forms
  PROVE  Passes(o, as, f)
<1> DEFINE roles == IF as = "OWNER" THEN ROLES ELSE ROLES \ {"OWNER"}
<1>1. \/ /\ can(as, "member_manage") /\ (as = "OWNER" \/ other[o] # "OWNER")
         /\ \/ \E r \in roles : f = <<"changeMemberRole", r>>
            \/ f = <<"removeMember", "none">>
      \/ /\ can(as, "member_invite")
         /\ \/ \E r \in roles : f = <<"createInvitation", r>>
            \/ f \in {<<"resendInvitation", "none">>, <<"revokeInvitation", "none">>}
  <2> HIDE DEF roles
  <2> QED
    BY DEF TeamPage, Plain, roles
<1>2. CASE \E r \in roles : f = <<"changeMemberRole", r>> /\ can(as, "member_manage")
                            /\ (as = "OWNER" \/ other[o] # "OWNER")
  <2>1. PICK r \in roles : f = <<"changeMemberRole", r>>
    BY <1>2
  <2>2. MembershipRules(o, <<"changeMemberRole", r>>) /\ BillingRules(o, "changeMemberRole")
    BY <1>2, FormIs DEF MembershipRules, BillingRules
  <2> QED
    BY <1>2, <2>1, <2>2, FormPasses, Required, RoutesAre DEF UserCalls
<1>3. CASE f = <<"removeMember", "none">> /\ can(as, "member_manage")
           /\ (as = "OWNER" \/ other[o] # "OWNER")
  <2>1. MembershipRules(o, <<"removeMember", "none">>) /\ BillingRules(o, "removeMember")
    BY <1>3, FormIs DEF MembershipRules, BillingRules
  <2> QED
    BY <1>3, <2>1, FormPasses, Required, RoutesAre DEF UserCalls
<1>4. CASE \E r \in roles : f = <<"createInvitation", r>> /\ can(as, "member_invite")
  <2>1. PICK r \in roles : f = <<"createInvitation", r>>
    BY <1>4
  <2>2. MembershipRules(o, <<"createInvitation", r>>) /\ BillingRules(o, "createInvitation")
    BY <1>4, FormIs DEF MembershipRules, BillingRules
  <2> QED
    BY <1>4, <2>1, <2>2, FormPasses, Required, RoutesAre DEF UserCalls
<1>5. CASE f \in {<<"resendInvitation", "none">>, <<"revokeInvitation", "none">>} /\ can(as, "member_invite")
  <2>1. ASSUME NEW c \in {"resendInvitation", "revokeInvitation"}
        PROVE  MembershipRules(o, <<c, "none">>) /\ BillingRules(o, c)
    BY <1>5, FormIs DEF MembershipRules, BillingRules
  <2> QED
    BY <1>5, <2>1, FormPasses, Required, RoutesAre DEF UserCalls
<1> QED
  BY <1>1, <1>2, <1>3, <1>4, <1>5

\* The user's own forms are answered whatever the role.
LEMMA UserFormPasses ==
  ASSUME NEW o, NEW as, NEW c \in UserCalls, CommerceController(c)
  PROVE  Passes(o, as, <<c, "none">>)
BY FormIs DEF Passes, Accepts

LEMMA SettingsOffers ==
  ASSUME NEW o \in Workspaces, NEW as \in ROLES, roleIn(o) = as, NEW f \in SettingsPage(o, as).forms
  PROVE  Passes(o, as, f)
<1>1. PICK c : /\ f = <<c, "none">>
               /\ \/ c = "updateMe"
                  \/ /\ can(as, "org_manage")
                     /\ c \in {"updateOrg", "addDomain", "verifyDomain", "removeDomain"}
  BY DEF SettingsPage, Plain
<1>2. CASE c = "updateMe"
  <2>1. c \in UserCalls /\ CommerceController(c)
    BY <1>2 DEF UserCalls, CommerceController
  <2> QED
    BY <1>1, <2>1, UserFormPasses
<1>3. CASE can(as, "org_manage") /\ c \in {"updateOrg", "addDomain", "verifyDomain", "removeDomain"}
  <2>1. MembershipRules(o, <<c, "none">>) /\ BillingRules(o, c)
    BY <1>3, FormIs DEF MembershipRules, BillingRules
  <2> QED
    BY <1>1, <1>3, <2>1, FormPasses, Required, RoutesAre DEF UserCalls
<1> QED
  BY <1>1, <1>2, <1>3

LEMMA BillingOffers ==
  ASSUME NEW o \in Workspaces, NEW as \in ROLES, roleIn(o) = as, NEW f \in BillingPage(o, as).forms
  PROVE  Passes(o, as, f)
<1>1. PICK c : /\ f = <<c, "none">> /\ can(as, "billing_manage")
               /\ \/ c = "createPortalSession" /\ sub[o] # "none"
                  \/ c = "createCheckoutSession" /\ sub[o] \notin LIVE
  BY DEF BillingPage, Plain
<1>2. MembershipRules(o, <<c, "none">>) /\ BillingRules(o, c)
  BY <1>1, FormIs DEF MembershipRules, BillingRules
<1> QED
  BY <1>1, <1>2, FormPasses, Required, RoutesAre DEF UserCalls

LEMMA OrdersOffers ==
  ASSUME NEW o, NEW as, NEW f \in OrdersPage(o, as).forms
  PROVE  Passes(o, as, f)
<1>1. PICK c : /\ f = <<c, "none">>
               /\ \/ c = "checkout"
                  \/ c = "intake" /\ order \in {"CREATED", "PAID", "PROVISIONING"}
                  \/ c = "brand-intake" /\ order \in {"PAID", "PROVISIONING"}
  BY DEF OrdersPage, Plain
<1>2. c \in UserCalls /\ CommerceController(c)
  BY <1>1 DEF UserCalls, CommerceController
<1> QED
  BY <1>1, <1>2, UserFormPasses

LEMMA PageOffers ==
  ASSUME NEW o \in Workspaces, NEW as \in ROLES, roleIn(o) = as, other \in [Workspaces -> ROLES],
         NEW p \in Pages, NEW f \in PageOf(p, o, as).forms
  PROVE  Passes(o, as, f)
<1>1. CASE p \in {"products", "glinks", "overview"}
  BY <1>1 DEF PageOf, ProductsPage, GLinksDashboardPage, OverviewPage
<1>2. CASE p \in {"team", "settings", "billing", "orders"}
  BY <1>2, TeamOffers, SettingsOffers, BillingOffers, OrdersOffers DEF PageOf
<1> QED
  BY <1>1, <1>2, PortalConstants

\* A page waits for nothing that the API would refuse to the role it was read with.
LEMMA Grants ==
  ASSUME NEW as \in ROLES
  PROVE  /\ can(as, "org_read") /\ can(as, "member_read") /\ can(as, "glink_read")
         /\ can(as, "provisioning_read")
         /\ as # "none"
BY DEF can, PERMISSIONS, ROLES, MANAGERS, OWNER_ONLY

\* A page waits for nothing that the API would refuse to the role it was read with.
LEMMA PageReads ==
  ASSUME NEW o \in Workspaces, NEW as \in ROLES, roleIn(o) = as,
         NEW p \in Pages, NEW c \in PageOf(p, o, as).reads
  PROVE  RolesGuard(o, c)
<1>1. SUFFICES Routes(c) = "membership" \/ can(as, Routes(c))
  BY Grants DEF RolesGuard
<1>2. CASE p = "team"
  <2>1. c = "getMembers" \/ (c = "getInvitations" /\ can(as, "member_invite"))
    BY <1>2 DEF PageOf, TeamPage
  <2> QED
    BY <2>1, Grants, RoutesAre
<1>3. CASE p = "settings"
  <2>1. c \in {"getOrg", "getDomains"} /\ can(as, "org_manage")
    BY <1>3 DEF PageOf, SettingsPage
  <2> QED
    BY <2>1, Grants, RoutesAre
<1>4. CASE p = "billing"
  <2>1. c \in {"getBillingSubscription", "getInvoices"} /\ can(as, "billing_manage")
    BY <1>4 DEF PageOf, BillingPage
  <2> QED
    BY <2>1, RoutesAre
<1>5. CASE p = "orders"
  BY <1>5 DEF PageOf, OrdersPage
<1>6. CASE p = "products"
  <2>1. c \in {"getClientsForOrg", "getProvisioningOrders"}
    BY <1>6 DEF PageOf, ProductsPage, loadOrders
  <2> QED
    BY <2>1, Grants, RoutesAre
<1>7. CASE p = "glinks"
  <2>1. c \in {"getClientsForOrg", "getGLinksForClient"}
    BY <1>7 DEF PageOf, GLinksDashboardPage
  <2> QED
    BY <2>1, Grants, RoutesAre
<1>8. CASE p = "overview"
  <2>1. \/ c \in {"getClientsForOrg", "getProvisioningOrders", "getMembers"}
        \/ c = "getInvitations" /\ can(as, "member_invite")
        \/ c \in {"getInvoices", "getBillingSubscription"} /\ can(as, "billing_manage")
        \/ c = "getDomains" /\ can(as, "org_manage")
    BY <1>8 DEF PageOf, OverviewPage, loadOrders
  <2> QED
    BY <2>1, Grants, RoutesAre
<1> QED
  BY <1>2, <1>3, <1>4, <1>5, <1>6, <1>7, <1>8, PortalConstants

LEMMA PageForms ==
  ASSUME NEW o, NEW as, NEW p \in Pages PROVE PageOf(p, o, as).forms \subseteq Form
<1>1. \A S : S \subseteq Calls => Plain(S) \subseteq Form
  BY DEF Plain, Form
<1>2. CASE p = "team"
  <2> DEFINE roles == IF as = "OWNER" THEN ROLES ELSE ROLES \ {"OWNER"}
  <2>1. roles \subseteq ROLES
    OBVIOUS
  <2> HIDE DEF roles
  <2>2. /\ "changeMemberRole" \in Calls /\ "createInvitation" \in Calls /\ {"removeMember"} \subseteq Calls
        /\ {"resendInvitation", "revokeInvitation"} \subseteq Calls
    BY DEF Calls
  <2>3. /\ {<<"changeMemberRole", r>> : r \in roles} \subseteq Form
        /\ {<<"createInvitation", r>> : r \in roles} \subseteq Form
    BY <2>1, <2>2 DEF Form
  <2>4. Plain({"removeMember"}) \subseteq Form /\ Plain({"resendInvitation", "revokeInvitation"}) \subseteq Form
    BY <1>1, <2>2
  <2> QED
    BY <1>2, <2>3, <2>4 DEF PageOf, TeamPage, roles
<1>3. CASE p = "settings"
  <2>1. SettingsPage(o, as).forms \subseteq Plain(Calls)
    BY DEF SettingsPage, Plain, Calls
  <2> QED
    BY <1>1, <1>3, <2>1 DEF PageOf
<1>4. CASE p = "billing"
  <2>1. BillingPage(o, as).forms \subseteq Plain(Calls)
    BY DEF BillingPage, Plain, Calls
  <2> QED
    BY <1>1, <1>4, <2>1 DEF PageOf
<1>5. CASE p = "orders"
  <2>1. OrdersPage(o, as).forms \subseteq Plain(Calls)
    BY DEF OrdersPage, Plain, Calls
  <2> QED
    BY <1>1, <1>5, <2>1 DEF PageOf
<1>6. CASE p \in {"products", "glinks", "overview"}
  BY <1>6 DEF PageOf, ProductsPage, GLinksDashboardPage, OverviewPage
<1> QED
  BY <1>2, <1>3, <1>4, <1>5, <1>6, PortalConstants

-----------------------------------------------------------------------------
LEMMA BlankIsTab == Blank \in Tab
<1>1. <<"none", "none">> \in Form
  BY DEF Form, Calls
<1> QED
  BY <1>1 DEF Blank, Tab

LEMMA PortalInitially == ASSUME PortalInit PROVE PortalIInv
<1>1. \A t \in Tabs : tab[t] = Blank
  BY DEF PortalInit
<1>2. Blank \in Tab
  BY BlankIsTab
<1>3. PICK o \in Workspaces, r \in ROLES : member = <<[org |-> o, role |-> r]>>
  BY DEF PortalInit
<1>4. PortalTypes
  BY <1>2, <1>3 DEF PortalInit, PortalTypes, Membership
<1> QED
  BY <1>1, <1>4 DEF Blank, PortalIInv, ShownIsCurrent, OffersPass, PostedWhereShown, OfferedIsAccepted,
     RowFormsStay

\* While nobody changes anything the API answers as it did.
LEMMA SameAnswers ==
  ASSUME UNCHANGED <<member, other, sub, order>>, NEW o, NEW as, NEW f
  PROVE  Passes(o, as, f)' <=> Passes(o, as, f)
BY DEF Passes, Accepts, CommerceController, RolesGuard, roleIn, findInOrg, MembershipRules, BillingRules

LEMMA SessionRead == ASSUME PortalIInv, NEW t \in Tabs, getSession(t) PROVE PortalIInv'
<1>1. PICK p \in Pages : /\ member # <<>>
                         /\ tab' = [tab EXCEPT ![t] = [Blank EXCEPT !.pc = "reads", !.page = p,
                                     !.org = Active.org, !.as = Active.role]]
  BY DEF getSession
<1>2. Active = member[1] /\ member[1] \in Membership
  BY <1>1, ActiveIsFirst, RoleIsFirst DEF PortalIInv
<1> DEFINE x == [Blank EXCEPT !.pc = "reads", !.page = p, !.org = Active.org, !.as = Active.role]
<1>3. /\ x \in Tab /\ x.pc = "reads" /\ x.page = p /\ x.org = member[1].org /\ x.as = member[1].role
      /\ x.fresh /\ ~x.left /\ x.org \in Workspaces
  <2>1. x.org \in Workspaces /\ x.as \in ROLES
    BY <1>2 DEF Blank, Membership
  <2> QED
    BY <1>2, <2>1, BlankIsTab DEF Blank, Tab
<1>4. tab' = [tab EXCEPT ![t] = x] /\ UNCHANGED <<member, other, sub, order>>
  BY <1>1 DEF getSession
<1> HIDE DEF x
<1>5. tab'[t] = x /\ \A u \in Tabs \ {t} : tab'[u] = tab[u]
  BY <1>4 DEF PortalIInv, PortalTypes
<1>6. PortalTypes'
  BY <1>3, <1>4 DEF PortalIInv, PortalTypes
<1>7. ShownIsCurrent'
  BY <1>1, <1>3, <1>4, <1>5 DEF PortalIInv, ShownIsCurrent
<1>9. PostedWhereShown' /\ OfferedIsAccepted' /\ RowFormsStay'
  BY <1>3, <1>5 DEF PortalIInv, PostedWhereShown, OfferedIsAccepted, RowFormsStay
<1>8. OffersPass'
  BY <1>3, <1>4, <1>5, SameAnswers DEF PortalIInv, OffersPass
<1> QED
  BY <1>6, <1>7, <1>8, <1>9 DEF PortalIInv

\* A page shown to a user whose role nobody has changed offers what passes.
LEMMA Rendered == ASSUME PortalIInv, NEW t \in Tabs, render(t) PROVE PortalIInv'
<1> DEFINE page == PageOf(tab[t].page, tab[t].org, tab[t].as)
           allowed == \A c \in page.reads : RolesGuard(tab[t].org, c)
           pc == IF allowed \/ tab[t].page = "overview" THEN "shown" ELSE "failed"
           forms == IF allowed THEN page.forms ELSE {}
<1>1. tab[t].pc = "reads" /\ UNCHANGED <<member, other, sub, order>>
  BY DEF render
<1>0. tab' = [tab EXCEPT ![t].pc = pc, ![t].forms = forms]
  BY DEF render
<1>2. tab[t].page \in Pages /\ tab[t].org \in Workspaces /\ forms \subseteq Form
  BY <1>1, PageForms DEF PortalIInv, ShownIsCurrent
<1>3. ASSUME tab[t].fresh
      PROVE  pc = "shown" /\ \A f \in forms : Passes(tab[t].org, tab[t].as, f)
  <2>1. roleIn(tab[t].org) = tab[t].as /\ tab[t].as \in ROLES /\ other \in [Workspaces -> ROLES]
    BY <1>1, <1>3, RoleIsFirst DEF PortalIInv, ShownIsCurrent, PortalTypes, Membership
  <2>2. allowed
    BY <1>2, <2>1, PageReads
  <2> QED
    BY <1>2, <2>1, <2>2, PageOffers
<1> HIDE DEF pc, forms
<1>4. pc \in {"shown", "failed"}
  BY DEF pc
<1>5. tab[t] \in Tab /\ tab \in [Tabs -> Tab]
  BY DEF PortalIInv, PortalTypes
<1>6. /\ tab'[t].pc = pc /\ tab'[t].forms = forms /\ tab'[t].page = tab[t].page
      /\ tab'[t].org = tab[t].org /\ tab'[t].as = tab[t].as /\ tab'[t].fresh = tab[t].fresh
      /\ tab'[t].left = tab[t].left /\ tab'[t] \in Tab
      /\ \A u \in Tabs \ {t} : tab'[u] = tab[u]
  BY <1>0, <1>2, <1>4, <1>5 DEF Tab
<1>7. PortalTypes'
  BY <1>0, <1>1, <1>6 DEF PortalIInv, PortalTypes
<1>8. ShownIsCurrent'
  BY <1>1, <1>6 DEF PortalIInv, ShownIsCurrent
<1>9. OffersPass'
  BY <1>1, <1>3, <1>4, <1>6, SameAnswers DEF PortalIInv, OffersPass
<1>10. PostedWhereShown' /\ OfferedIsAccepted' /\ RowFormsStay'
  BY <1>3, <1>4, <1>6 DEF PortalIInv, PostedWhereShown, OfferedIsAccepted, RowFormsStay
<1> QED
  BY <1>7, <1>8, <1>9, <1>10 DEF PortalIInv

LEMMA Submitted == ASSUME PortalIInv, NEW t \in Tabs, submit(t) PROVE PortalIInv'
<1>1. PICK f \in tab[t].forms :
        tab' = [tab EXCEPT ![t].pc = IF f[1] \in UserCalls \/ can(Active.role, ActionRequires(f[1]))
                                     THEN "posted" ELSE "refused",
                           ![t].form = f, ![t].to = Active.org]
  BY DEF submit
<1>2. tab[t].pc = "shown" /\ UNCHANGED <<member, other, sub, order>>
  BY DEF submit
<1> DEFINE pc == IF f[1] \in UserCalls \/ can(Active.role, ActionRequires(f[1])) THEN "posted" ELSE "refused"
<1>3. Active.org \in Workspaces \cup {NoWorkspace}
  BY ActiveIsFirst, RoleIsFirst DEF PortalIInv, Active, Membership
<1>4. ~tab[t].left => Active.org = tab[t].org
  BY <1>2, ActiveIsFirst DEF PortalIInv, ShownIsCurrent
<1>5. ASSUME tab[t].fresh PROVE pc = "posted" /\ Passes(tab[t].org, tab[t].as, f)
  <2>1. Passes(tab[t].org, tab[t].as, f)
    BY <1>2, <1>5 DEF PortalIInv, OffersPass
  <2>2. Active.role = tab[t].as
    BY <1>2, <1>5, ActiveIsFirst DEF PortalIInv, ShownIsCurrent
  <2> QED
    BY <2>1, <2>2 DEF Passes
<1>6. pc \in {"posted", "refused"}
  OBVIOUS
<1> HIDE DEF pc
<1>7. tab[t] \in Tab /\ tab \in [Tabs -> Tab] /\ f \in Form
  BY DEF PortalIInv, PortalTypes, Tab
<1>8. /\ tab'[t].pc = pc /\ tab'[t].form = f /\ tab'[t].to = Active.org /\ tab'[t].page = tab[t].page
      /\ tab'[t].org = tab[t].org /\ tab'[t].as = tab[t].as /\ tab'[t].fresh = tab[t].fresh
      /\ tab'[t].left = tab[t].left /\ tab'[t] \in Tab
      /\ \A u \in Tabs \ {t} : tab'[u] = tab[u]
  BY <1>1, <1>3, <1>6, <1>7 DEF Tab, pc
<1>9. PortalTypes'
  BY <1>1, <1>2, <1>8 DEF PortalIInv, PortalTypes
<1>10. ShownIsCurrent'
  BY <1>2, <1>8 DEF PortalIInv, ShownIsCurrent
<1>11. OffersPass'
  BY <1>2, <1>5, <1>6, <1>8, SameAnswers DEF PortalIInv, OffersPass
<1>12. PostedWhereShown' /\ OfferedIsAccepted' /\ RowFormsStay'
  BY <1>4, <1>5, <1>6, <1>8 DEF PortalIInv, PostedWhereShown, OfferedIsAccepted, RowFormsStay
<1> QED
  BY <1>9, <1>10, <1>11, <1>12 DEF PortalIInv

LEMMA Called == ASSUME PortalIInv, NEW t \in Tabs, callApi(t) PROVE PortalIInv'
<1>1. tab[t].pc = "posted" /\ UNCHANGED <<member, other, sub, order>>
  BY DEF callApi
<1>0. PICK pc \in {"refused", "declined", "done"} :
        /\ pc = "refused" <=> ~Accepts(tab[t].to, tab[t].form, tab[t].org)
        /\ tab' = [tab EXCEPT ![t].pc = pc]
  BY DEF callApi
<1>2. tab[t].fresh => pc # "refused"
  BY <1>0, <1>1 DEF PortalIInv, ShownIsCurrent, OffersPass, PostedWhereShown, Passes
<1>3. pc = "done" /\ tab[t].form[1] \in RowCalls => tab[t].to = tab[t].org
  BY <1>0 DEF Accepts, findInOrg, RowCalls, UserCalls
<1>4. pc \in {"done", "refused", "declined"}
  BY <1>0
<1>5. tab[t] \in Tab /\ tab \in [Tabs -> Tab]
  BY DEF PortalIInv, PortalTypes
<1>6. /\ tab'[t].pc = pc /\ tab'[t].form = tab[t].form /\ tab'[t].to = tab[t].to
      /\ tab'[t].page = tab[t].page /\ tab'[t].org = tab[t].org /\ tab'[t].as = tab[t].as
      /\ tab'[t].fresh = tab[t].fresh /\ tab'[t].left = tab[t].left /\ tab'[t] \in Tab
      /\ \A u \in Tabs \ {t} : tab'[u] = tab[u]
  BY <1>0, <1>4, <1>5 DEF Tab
<1>7. PortalTypes'
  BY <1>0, <1>1, <1>6 DEF PortalIInv, PortalTypes
<1>8. ShownIsCurrent'
  BY <1>1, <1>6 DEF PortalIInv, ShownIsCurrent
<1>9. OffersPass'
  BY <1>1, <1>4, <1>6, SameAnswers DEF PortalIInv, OffersPass
<1>10. PostedWhereShown' /\ OfferedIsAccepted' /\ RowFormsStay'
  BY <1>1, <1>2, <1>3, <1>4, <1>6 DEF PortalIInv, PostedWhereShown, OfferedIsAccepted, RowFormsStay
<1> QED
  BY <1>7, <1>8, <1>9, <1>10 DEF PortalIInv

-----------------------------------------------------------------------------
\* What others change makes every tab stale. It is enough that the first
\* membership stays the first, or that the tabs of its workspace are told.
LEMMA Others ==
  ASSUME PortalIInv, NEW gone, Stale(gone), PortalTypes => member' \in Seq(Membership),
         \A i, j \in DOMAIN member' : member'[i].org = member'[j].org => i = j,
         other' \in [Workspaces -> ROLES],
         member # <<>> => \/ member[1].org = gone
                          \/ member' # <<>> /\ member'[1].org = member[1].org
  PROVE  PortalIInv'
<1>1. \A t \in Tabs : tab'[t] = [tab[t] EXCEPT !.fresh = FALSE, !.left = tab[t].left \/ tab[t].org = gone]
  BY DEF Stale
<1>2. ASSUME NEW t \in Tabs
      PROVE  /\ tab'[t] \in Tab /\ ~tab'[t].fresh /\ tab'[t].pc = tab[t].pc /\ tab'[t].page = tab[t].page
             /\ tab'[t].org = tab[t].org /\ tab'[t].form = tab[t].form /\ tab'[t].to = tab[t].to
             /\ tab'[t].left = (tab[t].left \/ tab[t].org = gone)
  <2>1. tab[t] \in Tab
    BY DEF PortalIInv, PortalTypes
  <2> DEFINE left == tab[t].left \/ tab[t].org = gone
  <2>2. tab'[t] = [tab[t] EXCEPT !.fresh = FALSE, !.left = left] /\ left \in BOOLEAN
    BY <1>1, <2>1 DEF Tab
  <2> HIDE DEF left
  <2>3. /\ tab'[t] \in Tab /\ ~tab'[t].fresh /\ tab'[t].pc = tab[t].pc /\ tab'[t].page = tab[t].page
        /\ tab'[t].org = tab[t].org /\ tab'[t].form = tab[t].form /\ tab'[t].to = tab[t].to
        /\ tab'[t].left = left
    BY <2>1, <2>2 DEF Tab
  <2> QED
    BY <2>3 DEF left
<1>3. PortalTypes'
  BY <1>2 DEF PortalIInv, PortalTypes, Stale
<1>4. ShownIsCurrent'
  BY <1>2 DEF PortalIInv, ShownIsCurrent
<1>5. OffersPass' /\ PostedWhereShown' /\ OfferedIsAccepted' /\ RowFormsStay'
  BY <1>2 DEF PortalIInv, OffersPass, PostedWhereShown, OfferedIsAccepted, RowFormsStay
<1> QED
  BY <1>3, <1>4, <1>5 DEF PortalIInv

LEMMA Removed ==
  ASSUME NEW S, NEW s \in Seq(S), NEW i \in DOMAIN s
  PROVE  /\ RemoveAt(s, i) \in Seq(S) /\ Len(RemoveAt(s, i)) = Len(s) - 1
         /\ \A j \in 1..(Len(s) - 1) : RemoveAt(s, i)[j] = IF j < i THEN s[j] ELSE s[j + 1]
<1> DEFINE a == SubSeq(s, 1, i - 1)
           b == SubSeq(s, i + 1, Len(s))
<1>0. Len(s) \in Nat /\ i \in 1..Len(s)
  OBVIOUS
<1>1. a \in Seq(S) /\ Len(a) = i - 1 /\ \A j \in 1..(i - 1) : a[j] = s[j]
  OBVIOUS
<1>2. b \in Seq(S) /\ Len(b) = Len(s) - i /\ \A j \in 1..(Len(s) - i) : b[j] = s[i + j]
  OBVIOUS
<1> HIDE DEF a, b
<1>3. RemoveAt(s, i) = a \o b
  BY DEF RemoveAt, a, b
<1>4. a \o b \in Seq(S) /\ Len(a \o b) = Len(s) - 1
  BY <1>0, <1>1, <1>2, ConcatProperties
<1>5. ASSUME NEW j \in 1..(Len(s) - 1) PROVE (a \o b)[j] = IF j < i THEN s[j] ELSE s[j + 1]
  <2>1. (a \o b)[j] = IF j <= Len(a) THEN a[j] ELSE b[j - Len(a)]
    BY <1>0, <1>1, <1>2, ConcatProperties
  <2>2. CASE j < i
    BY <1>0, <1>1, <2>1, <2>2
  <2>3. CASE ~(j < i)
    <3>1. j - Len(a) \in 1..(Len(s) - i) /\ i + (j - Len(a)) = j + 1 /\ ~(j <= Len(a))
      BY <1>0, <1>1, <2>3
    <3> QED
      BY <1>2, <2>1, <2>3, <3>1
  <2> QED
    BY <2>2, <2>3
<1> QED
  BY <1>3, <1>4, <1>5

LEMMA OthersStep ==
  ASSUME PortalIInv, joined \/ roleChanged \/ removed \/ elsewhere
  PROVE  PortalIInv'
<1>1. /\ member \in Seq(Membership) /\ other \in [Workspaces -> ROLES]
      /\ \A i, j \in DOMAIN member : member[i].org = member[j].org => i = j
  BY DEF PortalIInv, PortalTypes
<1>2. CASE joined
  <2>1. PICK o \in Workspaces, r \in ROLES :
          roleIn(o) = "none" /\ member' = Append(member, [org |-> o, role |-> r])
    BY <1>2 DEF joined
  <2>2. Stale(NoWorkspace) /\ UNCHANGED other
    BY <1>2 DEF joined
  <2>3. \A i \in DOMAIN member : member[i].org # o
    <3>1. SUFFICES ASSUME NEW i \in DOMAIN member, member[i].org = o PROVE FALSE
      OBVIOUS
    <3>2. ToSet(member) = {member[j] : j \in DOMAIN member}
      BY DEF ToSet
    <3>3. \A m \in ToSet(member) : m.org = o => m = member[i]
      BY <1>1, <3>1, <3>2
    <3>4. roleIn(o) = member[i].role /\ member[i].role \in ROLES
      <4>1. member[i] \in ToSet(member) /\ member[i] \in Membership
        BY <1>1, <3>2
      <4>2. (CHOOSE m \in ToSet(member) : m.org = o) = member[i]
        BY <3>1, <3>3, <4>1
      <4> QED
        BY <3>1, <4>1, <4>2 DEF roleIn, Membership
    <3> QED
      BY <2>1, <3>4, Grants
  <2>4. [org |-> o, role |-> r] \in Membership
    BY DEF Membership
  <2>5. /\ member' \in Seq(Membership) /\ Len(member') = Len(member) + 1
        /\ \A i \in DOMAIN member : member'[i] = member[i]
        /\ member'[Len(member) + 1].org = o
    BY <1>1, <2>1, <2>4
  <2>6. \A i, j \in DOMAIN member' : member'[i].org = member'[j].org => i = j
    BY <1>1, <2>3, <2>5
  <2> QED
    BY <1>1, <2>2, <2>5, <2>6, Others
<1>3. CASE roleChanged
  <2>1. PICK i \in DOMAIN member, r \in ROLES : member' = [member EXCEPT ![i].role = r]
    BY <1>3 DEF roleChanged
  <2>2. Stale(NoWorkspace) /\ UNCHANGED other
    BY <1>3 DEF roleChanged
  <2>3. [member[i] EXCEPT !.role = r] \in Membership /\ [member[i] EXCEPT !.role = r].org = member[i].org
    <3>1. member[i] \in Membership
      BY <1>1
    <3> QED
      BY <3>1 DEF Membership
  <2>4. /\ member' \in Seq(Membership) /\ DOMAIN member' = DOMAIN member /\ Len(member') = Len(member)
        /\ \A j \in DOMAIN member : member'[j].org = member[j].org
    BY <1>1, <2>1, <2>3
  <2> QED
    BY <1>1, <2>2, <2>4, Others
<1>4. CASE removed
  <2>1. PICK i \in DOMAIN member : member' = RemoveAt(member, i) /\ Stale(member[i].org)
    BY <1>4 DEF removed
  <2>2. UNCHANGED other
    BY <1>4 DEF removed
  <2>3. /\ member' \in Seq(Membership) /\ Len(member') = Len(member) - 1
        /\ \A j \in 1..(Len(member) - 1) : member'[j] = IF j < i THEN member[j] ELSE member[j + 1]
    BY <1>1, <2>1, Removed
  <2>4. \A j, k \in DOMAIN member' : member'[j].org = member'[k].org => j = k
    <3> DEFINE At(x) == IF x < i THEN x ELSE x + 1
    <3>1. Len(member) \in Nat /\ i \in Nat
      BY <1>1
    <3>2. \A x \in DOMAIN member' : x \in 1..(Len(member) - 1)
      BY <2>3, <3>1
    <3>3. \A x \in DOMAIN member' : x \in Nat /\ At(x) \in DOMAIN member /\ member'[x] = member[At(x)]
      BY <1>1, <2>3, <3>1, <3>2
    <3>4. \A x, y \in Nat : At(x) = At(y) => x = y
      BY <3>1
    <3> HIDE DEF At
    <3> QED
      BY <1>1, <3>3, <3>4
  <2>5. i # 1 => member' # <<>> /\ member'[1] = member[1]
    BY <1>1, <2>3
  <2> QED
    BY <1>1, <2>1, <2>2, <2>3, <2>4, <2>5, Others
<1>5. CASE elsewhere
  <2>1. Stale(NoWorkspace) /\ UNCHANGED member /\ other' \in [Workspaces -> ROLES]
    BY <1>1, <1>5 DEF elsewhere
  <2> QED
    BY <1>1, <2>1, Others
<1> QED
  BY <1>2, <1>3, <1>4, <1>5

LEMMA PortalStep == ASSUME PortalIInv, [PortalNext]_portalVars PROVE PortalIInv'
<1>1. CASE UNCHANGED portalVars
  <2>1. UNCHANGED <<member, other, sub, order, tab>>
    BY <1>1 DEF portalVars
  <2>2. OffersPass'
    BY <2>1, SameAnswers DEF PortalIInv, OffersPass
  <2> QED
    BY <2>1, <2>2
    DEF PortalIInv, PortalTypes, ShownIsCurrent, PostedWhereShown, OfferedIsAccepted, RowFormsStay
<1>2. CASE PortalNext
  BY <1>2, SessionRead, Rendered, Submitted, Called, OthersStep DEF PortalNext
<1> QED
  BY <1>1, <1>2

LEMMA PortalInvariant == PortalSpec => []PortalIInv
<1>1. PortalInit => PortalIInv
  BY PortalInitially
<1>2. PortalIInv /\ [PortalNext]_portalVars => PortalIInv'
  BY PortalStep
<1> QED
  BY <1>1, <1>2, PTL DEF PortalSpec

\* For every permission table row and every page: while nobody has changed
\* anything since the session was read, no read of a page is refused, and no form
\* it offers is refused by its server action, by the guard, or by a rule about
\* roles, owners, rows and statuses (session.ts:16). Seats, and what was typed,
\* are not among these rules.
THEOREM OffersAccepted == PortalSpec => []OfferedIsAccepted
<1>1. PortalIInv => OfferedIsAccepted
  BY DEF PortalIInv
<1> QED
  BY <1>1, PortalInvariant, PTL

\* A posted form acts where it was shown, or the user has left that workspace;
\* a form about a row acts in the workspace of the row (users.service.ts:24,
\* portal actions).
THEOREM FormsActWhereShown == PortalSpec => []FormsStay
<1>1. PortalIInv => FormsStay
  BY DEF PortalIInv, FormsStay, MovesOnlyWhenLeft, PostedWhereShown
<1> QED
  BY <1>1, PortalInvariant, PTL
=============================================================================
