----------------------------- MODULE Workspace -----------------------------
(***************************************************************************)
(* One GLINKS workspace: members, pages with drafts and publications, and  *)
(* invitations (apps/glinks/app: PageEditor, PagePublisher,                *)
(* PublicPageReader, InvitationService and their SQL).                     *)
(*                                                                         *)
(* Every transaction takes the row lock of the workspace first, checks     *)
(* under it and commits; another transaction waits at the lock.  What is   *)
(* read outside a transaction (the edit form) is a step per statement.     *)
(* Content is the number of the save that wrote it.                        *)
(***************************************************************************)
EXTENDS Naturals, Sequences

CONSTANTS
  Users,            \* accounts, each with one email address
  Tabs,             \* browser tabs: one form or one request each
  Pages,            \* handles
  Slugs,            \* link slugs
  Invites,          \* invitation rows
  NoUser, NoPage, NoInvite, NoTab,
  MaxVersion,       \* bound: saves of a page
  MaxPublications   \* bound: publications of the workspace

ASSUME WorkspaceConstants ==
  /\ NoUser \notin Users /\ NoPage \notin Pages
  /\ NoInvite \notin Invites /\ NoTab \notin Tabs
  /\ MaxVersion \in Nat /\ MaxPublications \in Nat

Roles == {"owner", "editor", "viewer"}
Kinds == {"create", "save", "publish", "issue", "revoke", "accept"}

VARIABLES
  role,           \* memberships
  pages,          \* page rows
  links,          \* link rows of a page: who wrote them, live and all slugs
  publications,   \* snapshots, by id
  invites,        \* invitation rows
  lock,           \* the tab whose transaction holds the workspace row
  tab

dataVars == <<role, pages, links, publications, invites>>
vars == <<dataVars, lock, tab>>

\* Role::allows, by the transaction that asks.
Allows(kind) ==
  IF kind \in {"create", "save", "publish"} THEN {"owner", "editor"} ELSE {"owner"}

Idle == [pc |-> "idle", kind |-> "none", user |-> NoUser, page |-> NoPage,
         version |-> 0, text |-> 0, stamp |-> 0, live |-> {},
         invite |-> NoInvite, email |-> NoUser, hits |-> {}]
Blank == [issued |-> FALSE, email |-> NoUser, role |-> "viewer", by |-> NoUser,
          used |-> FALSE, revoked |-> FALSE, expired |-> FALSE]

Open(i) == invites[i].issued /\ ~invites[i].used /\ ~invites[i].revoked

\* Workspaces.create: the creator is the owner.
Init ==
  /\ \E creator \in Users : role = [u \in Users |-> IF u = creator THEN "owner" ELSE "none"]
  /\ pages = [p \in Pages |-> [created |-> FALSE, version |-> 0, text |-> 0, published |-> 0]]
  /\ links = [p \in Pages |-> [stamp |-> 0, live |-> {}, used |-> {}]]
  /\ publications = <<>>
  /\ invites = [i \in Invites |-> Blank]
  /\ lock = NoTab
  /\ tab = [t \in Tabs |-> Idle]

-----------------------------------------------------------------------------
(* Transactions: SELECT ... FOR UPDATE, checks, COMMIT or ROLLBACK.        *)

\* Faulty variants, against which the properties are tried, are named ..._bug.
lockWorkspace_bug(t) == lock' = t        \* SELECT without FOR UPDATE

lockWorkspace(t) == lock = NoTab /\ lock' = t

\* The lock is free again and the request is answered.
Commit(t) ==
  /\ lock' = NoTab
  /\ tab' = [tab EXCEPT ![t] = Idle]

Begin(t, kind, user) ==
  [Idle EXCEPT !.pc = "locked", !.kind = kind, !.user = user]

begin(t) ==
  /\ tab[t].pc = "idle"
  /\ lockWorkspace(t)
  /\ \E u \in Users :
       \/ \E kind \in {"create", "publish"}, p \in Pages :
            tab' = [tab EXCEPT ![t] = [Begin(t, kind, u) EXCEPT !.page = p]]
       \/ \E email \in Users :
            tab' = [tab EXCEPT ![t] = [Begin(t, "issue", u) EXCEPT !.email = email]]
       \/ \E kind \in {"revoke", "accept"}, i \in Invites :
            /\ invites[i].issued
            /\ tab' = [tab EXCEPT ![t] = [Begin(t, kind, u) EXCEPT !.invite = i]]
  /\ UNCHANGED dataVars

\* WorkspaceAccess.requireRole: the user's role as the transaction sees it.
requireRole(t) ==
  /\ tab[t].pc = "locked"
  /\ role[tab[t].user] \in Allows(tab[t].kind)

\* An exception, a lost connection or a closed tab; a transaction rolls back.
abandon(t) ==
  /\ tab[t].pc # "idle"
  /\ tab' = [tab EXCEPT ![t] = Idle]
  /\ lock' = IF lock = t THEN NoTab ELSE lock
  /\ UNCHANGED dataVars

-----------------------------------------------------------------------------
(* The edit form: the page row, then its live links, without a lock.       *)

editPage(t) ==
  /\ tab[t].pc = "idle"
  /\ \E u \in Users, p \in Pages :
       /\ role[u] \in Allows("save") /\ pages[p].created
       /\ tab' = [tab EXCEPT ![t] =
            [Idle EXCEPT !.pc = "opening", !.user = u, !.page = p,
                         !.version = pages[p].version, !.text = pages[p].text]]
  /\ UNCHANGED <<dataVars, lock>>

editLinks(t) ==
  /\ tab[t].pc = "opening"
  /\ tab' = [tab EXCEPT ![t].pc = "form",
                        ![t].stamp = links[tab[t].page].stamp,
                        ![t].live = links[tab[t].page].live]
  /\ UNCHANGED <<dataVars, lock>>

edit_bug(t) ==                  \* the links first, then the page row
  /\ \/ /\ tab[t].pc = "idle"
        /\ \E u \in Users, p \in Pages :
             /\ role[u] \in Allows("save") /\ pages[p].created
             /\ tab' = [tab EXCEPT ![t] =
                  [Idle EXCEPT !.pc = "opening", !.user = u, !.page = p,
                               !.stamp = links[p].stamp, !.live = links[p].live]]
     \/ /\ tab[t].pc = "opening"
        /\ tab' = [tab EXCEPT ![t].pc = "form",
                              ![t].version = pages[tab[t].page].version,
                              ![t].text = pages[tab[t].page].text]
  /\ UNCHANGED <<dataVars, lock>>

edit(t) == editPage(t) \/ editLinks(t)

-----------------------------------------------------------------------------
(* PageEditor                                                              *)

\* create: a handle is unique.
createCheck(t) ==
  /\ tab[t].kind = "create" /\ requireRole(t)
  /\ tab' = [tab EXCEPT ![t].pc = "checked"]
  /\ UNCHANGED <<dataVars, lock>>

createCommit(t) ==
  /\ tab[t].kind = "create" /\ tab[t].pc = "checked"
  /\ ~pages[tab[t].page].created
  /\ pages' = [pages EXCEPT ![tab[t].page].created = TRUE]
  /\ Commit(t)
  /\ UNCHANGED <<role, links, publications, invites>>

\* save: the form is posted with the version it was made from.
saveBegin(t) ==
  /\ tab[t].pc = "form"
  /\ lockWorkspace(t)
  /\ tab' = [tab EXCEPT ![t].pc = "locked", ![t].kind = "save"]
  /\ UNCHANGED dataVars

saveCheck_bug(t) ==             \* no draft_version check
  /\ tab[t].kind = "save" /\ requireRole(t)
  /\ tab' = [tab EXCEPT ![t].pc = "checked"]
  /\ UNCHANGED <<dataVars, lock>>

saveCheck(t) ==
  /\ tab[t].kind = "save" /\ requireRole(t)
  /\ pages[tab[t].page].version = tab[t].version
  /\ tab' = [tab EXCEPT ![t].pc = "checked"]
  /\ UNCHANGED <<dataVars, lock>>

\* The form's links keep their rows, live or deleted; every other slug is a new
\* row, and a slug is never given to a second row.
saveCommit(t) ==
  LET p == tab[t].page
      new == pages[p].version + 1
  IN /\ tab[t].kind = "save" /\ tab[t].pc = "checked"
     /\ new <= MaxVersion
     /\ \E S \in SUBSET Slugs :
          /\ (S \ tab[t].live) \cap links[p].used = {}
          /\ links' = [links EXCEPT ![p] =
               [stamp |-> new, live |-> S, used |-> @.used \cup S]]
     /\ pages' = [pages EXCEPT ![p].version = new, ![p].text = new]
     /\ Commit(t)
     /\ UNCHANGED <<role, publications, invites>>

-----------------------------------------------------------------------------
(* PagePublisher and PublicPageReader                                      *)

publishCheck(t) ==
  /\ tab[t].kind = "publish" /\ requireRole(t)
  /\ pages[tab[t].page].created
  /\ tab' = [tab EXCEPT ![t].pc = "checked", ![t].text = pages[tab[t].page].text]
  /\ UNCHANGED <<dataVars, lock>>

publishCommit(t) ==
  LET p == tab[t].page IN
  /\ tab[t].kind = "publish" /\ tab[t].pc = "checked"
  /\ Len(publications) < MaxPublications
  /\ publications' = Append(publications,
       [page |-> p, text |-> tab[t].text, stamp |-> links[p].stamp, live |-> links[p].live])
  /\ pages' = [pages EXCEPT ![p].published = Len(publications) + 1]
  /\ Commit(t)
  /\ UNCHANGED <<role, links, invites>>

\* What a visitor of a published page sees, in one statement.
forHandle(p) == publications[pages[p].published]

-----------------------------------------------------------------------------
(* InvitationService                                                       *)

issueCheck(t) ==
  /\ tab[t].kind = "issue" /\ requireRole(t)
  /\ tab' = [tab EXCEPT ![t].pc = "checked",
       ![t].hits = {i \in Invites : Open(i) /\ invites[i].email = tab[t].email}]
  /\ UNCHANGED <<dataVars, lock>>

Issued(t, r) ==
  [Blank EXCEPT !.issued = TRUE, !.email = tab[t].email, !.role = r, !.by = tab[t].user]

issueCommit_bug(t) ==           \* leaves earlier invitations open
  /\ tab[t].kind = "issue" /\ tab[t].pc = "checked"
  /\ \E i \in Invites, r \in {"editor", "viewer"} :
       /\ ~invites[i].issued
       /\ invites' = [invites EXCEPT ![i] = Issued(t, r)]
       /\ tab' = [tab EXCEPT ![t] = [Idle EXCEPT !.pc = "mail", !.invite = i]]
  /\ lock' = NoTab
  /\ UNCHANGED <<role, pages, links, publications>>

\* Open invitations of the address are revoked; after the commit comes the mail.
issueCommit(t) ==
  /\ tab[t].kind = "issue" /\ tab[t].pc = "checked"
  /\ \E i \in Invites, r \in {"editor", "viewer"} :
       /\ ~invites[i].issued
       /\ invites' = [j \in Invites |->
            IF j = i THEN Issued(t, r)
            ELSE IF j \in tab[t].hits THEN [invites[j] EXCEPT !.revoked = TRUE]
            ELSE invites[j]]
       /\ tab' = [tab EXCEPT ![t] = [Idle EXCEPT !.pc = "mail", !.invite = i]]
  /\ lock' = NoTab
  /\ UNCHANGED <<role, pages, links, publications>>

\* Invitations.create: a mail that cannot be sent revokes the row, which waits
\* for an acceptance that holds the row's lock.
mailFails(t) ==
  /\ tab[t].pc = "mail"
  /\ \A q \in Tabs : ~(tab[q].kind = "accept" /\ tab[q].pc = "checked" /\ tab[q].invite = tab[t].invite)
  /\ invites' = [invites EXCEPT ![tab[t].invite].revoked = TRUE]
  /\ tab' = [tab EXCEPT ![t] = Idle]
  /\ UNCHANGED <<role, pages, links, publications, lock>>

revokeCheck(t) ==
  /\ tab[t].kind = "revoke" /\ requireRole(t)
  /\ tab' = [tab EXCEPT ![t].pc = "checked"]
  /\ UNCHANGED <<dataVars, lock>>

revokeCommit(t) ==
  /\ tab[t].kind = "revoke" /\ tab[t].pc = "checked"
  /\ invites' = [invites EXCEPT ![tab[t].invite].revoked = TRUE]
  /\ Commit(t)
  /\ UNCHANGED <<role, pages, links, publications>>

acceptCheck_bug(t) ==           \* does not ask for the inviter's role today
  LET i == tab[t].invite IN
  /\ tab[t].kind = "accept" /\ tab[t].pc = "locked"
  /\ Open(i) /\ ~invites[i].expired
  /\ invites[i].email = tab[t].user
  /\ tab' = [tab EXCEPT ![t].pc = "checked"]
  /\ UNCHANGED <<dataVars, lock>>

\* The invitation is open and the inviter is an owner still.
acceptCheck(t) ==
  LET i == tab[t].invite IN
  /\ tab[t].kind = "accept" /\ tab[t].pc = "locked"
  /\ Open(i) /\ ~invites[i].expired
  /\ invites[i].email = tab[t].user
  /\ role[invites[i].by] \in Allows("accept")
  /\ tab' = [tab EXCEPT ![t].pc = "checked"]
  /\ UNCHANGED <<dataVars, lock>>

\* ON CONFLICT DO NOTHING: a member's role stays.
acceptCommit(t) ==
  LET i == tab[t].invite IN
  /\ tab[t].kind = "accept" /\ tab[t].pc = "checked"
  /\ role' = [role EXCEPT ![tab[t].user] = IF @ = "none" THEN invites[i].role ELSE @]
  /\ invites' = [invites EXCEPT ![i].used = TRUE]
  /\ Commit(t)
  /\ UNCHANGED <<pages, links, publications>>

-----------------------------------------------------------------------------
(* The database and time.                                                  *)

\* A membership is changed or removed: the trigger takes the workspace lock, and
\* the deferred constraint keeps an owner at the commit.
changeMembership(u) ==
  /\ lock = NoTab
  /\ role[u] # "none"
  /\ \E r \in (Roles \cup {"none"}) \ {role[u]} : role' = [role EXCEPT ![u] = r]
  /\ \E v \in Users : role'[v] = "owner"
  /\ UNCHANGED <<pages, links, publications, invites, lock, tab>>

expire(i) ==
  /\ invites[i].issued /\ ~invites[i].expired
  /\ invites' = [invites EXCEPT ![i].expired = TRUE]
  /\ UNCHANGED <<role, pages, links, publications, lock, tab>>

-----------------------------------------------------------------------------
tabStep(t) ==
  \/ begin(t) \/ abandon(t) \/ edit(t)
  \/ createCheck(t) \/ createCommit(t)
  \/ saveBegin(t) \/ saveCheck(t) \/ saveCommit(t)
  \/ publishCheck(t) \/ publishCommit(t)
  \/ issueCheck(t) \/ issueCommit(t) \/ mailFails(t)
  \/ revokeCheck(t) \/ revokeCommit(t)
  \/ acceptCheck(t) \/ acceptCommit(t)

Next ==
  \/ \E t \in Tabs : tabStep(t)
  \/ \E u \in Users : changeMembership(u)
  \/ \E i \in Invites : expire(i)

Spec == Init /\ [][Next]_vars

-----------------------------------------------------------------------------
(* Invariants.                                                             *)

PageRow == [created : BOOLEAN, version : Nat, text : Nat, published : Nat]
LinkRows == [stamp : Nat, live : SUBSET Slugs, used : SUBSET Slugs]
Snapshot == [page : Pages, text : Nat, stamp : Nat, live : SUBSET Slugs]
InviteRow == [issued : BOOLEAN, email : Users \cup {NoUser}, role : {"editor", "viewer"},
              by : Users \cup {NoUser}, used : BOOLEAN, revoked : BOOLEAN, expired : BOOLEAN]
Tab == [pc : {"idle", "opening", "form", "locked", "checked", "mail"},
        kind : Kinds \cup {"none"}, user : Users \cup {NoUser}, page : Pages \cup {NoPage},
        version : Nat, text : Nat, stamp : Nat, live : SUBSET Slugs,
        invite : Invites \cup {NoInvite}, email : Users \cup {NoUser}, hits : SUBSET Invites]

\* Every variable keeps the shape of its rows, and a page points to a snapshot.
TypeOK ==
  /\ role \in [Users -> Roles \cup {"none"}]
  /\ pages \in [Pages -> PageRow]
  /\ links \in [Pages -> LinkRows]
  /\ publications \in Seq(Snapshot)
  /\ invites \in [Invites -> InviteRow]
  /\ lock \in Tabs \cup {NoTab}
  /\ tab \in [Tabs -> Tab]
  /\ \A p \in Pages : pages[p].published <= Len(publications)

\* A publication is one draft: PagePublisher reads the profile and the links in
\* two statements, and no save comes between them.
PublicationIsOneDraft ==
  \A n \in 1..Len(publications) : publications[n].text = publications[n].stamp

\* An address has at most one open invitation, however many owners invite it
\* at the same time: issue() revokes the others under the workspace lock.
OneOpenInvitation ==
  \A i, j \in Invites :
    Open(i) /\ Open(j) /\ invites[i].email = invites[j].email => i = j

-----------------------------------------------------------------------------
(* Action properties.                                                      *)

\* A save replaces exactly the profile and the links its form was made from:
\* the form's two unlocked reads and the draft_version check lose no update.
NoLostUpdate ==
  [][\A t \in Tabs, p \in Pages :
       tab[t].pc = "checked" /\ tab[t].page = p /\ pages'[p].version # pages[p].version =>
         /\ tab[t].text = pages[p].text
         /\ tab[t].stamp = links[p].stamp /\ tab[t].live = links[p].live]_vars

\* A deleted link slug is never live again (001_foundation.sql:83), although
\* save() would restore a deleted row whose id is in a form.
DeletedStaysDeleted ==
  [][\A p \in Pages : links'[p].live \cap (links[p].used \ links[p].live) = {}]_vars

\* What visitors see is never replaced by an older draft.
PublicNeverGoesBack ==
  [][\A p \in Pages :
       pages[p].published # 0 => forHandle(p).text <= forHandle(p)'.text]_vars

\* Whoever writes may do so at that moment: a removal or demotion never comes
\* between the role check and the commit.
AuthorizedAtCommit ==
  [][\A t \in Tabs :
       tab[t].pc = "checked" /\ dataVars' # dataVars /\ tab'[t] # tab[t] =>
         role[IF tab[t].kind = "accept" THEN invites[tab[t].invite].by ELSE tab[t].user]
           \in Allows(tab[t].kind)]_vars

\* An invitation is used once, and only while it is open: neither a second
\* acceptance, a revocation, a new invitation nor a failed mail slips between.
UsedOnceWhileOpen ==
  [][\A t \in Tabs :
       tab[t].kind = "accept" /\ tab[t].pc = "checked" /\ dataVars' # dataVars /\ tab'[t] # tab[t] =>
         Open(tab[t].invite)]_vars
=============================================================================
