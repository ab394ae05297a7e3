-------------------------- MODULE WorkspaceProofs --------------------------
(***************************************************************************)
(* Theorems of Workspace, for any number of members, tabs, pages, slugs    *)
(* and invitations.                                                        *)
(***************************************************************************)
EXTENDS Workspace, SequenceTheorems, TLAPS

\* A form or transaction names a real user, page and invitation, and only the
\* holder of the workspace row is inside a transaction.
Bodies == \A t \in Tabs :
  /\ tab[t].pc \in {"opening", "form"} \/ tab[t].kind \in {"create", "save", "publish"}
       => tab[t].page \in Pages
  /\ tab[t].kind \in {"revoke", "accept"} \/ tab[t].pc = "mail"
       => tab[t].invite \in Invites
  /\ tab[t].kind = "issue" => tab[t].email \in Users
  /\ tab[t].pc \in {"opening", "form", "locked", "checked"} => tab[t].user \in Users
  /\ tab[t].kind # "none" <=> tab[t].pc \in {"locked", "checked"}
  /\ tab[t].kind # "none" => lock = t

\* The profile and the links of a page come from one save.
Drafts == \A p \in Pages :
  /\ pages[p].version = pages[p].text
  /\ links[p].stamp = pages[p].text
  /\ links[p].live \subseteq links[p].used

\* A form is never newer than the page, its links never older than its profile,
\* and links of the current save are the current links.
Forms == \A t \in Tabs :
  /\ tab[t].pc = "opening" =>
       tab[t].version = tab[t].text /\ tab[t].version <= pages[tab[t].page].version
  /\ tab[t].pc = "form" \/ tab[t].kind = "save" =>
       /\ tab[t].version = tab[t].text
       /\ tab[t].version <= tab[t].stamp /\ tab[t].stamp <= links[tab[t].page].stamp
       /\ tab[t].stamp = links[tab[t].page].stamp => tab[t].live = links[tab[t].page].live

\* A snapshot is one draft of its page; a page points to one of its snapshots.
Published ==
  /\ \A n \in 1..Len(publications) :
       /\ publications[n].text = publications[n].stamp
       /\ publications[n].text <= pages[publications[n].page].text
  /\ \A p \in Pages : pages[p].published # 0 => publications[pages[p].published].page = p

\* What a transaction has checked stays true until it commits.
Checked == \A t \in Tabs : tab[t].pc = "checked" =>
  /\ tab[t].kind # "accept" => role[tab[t].user] \in Allows(tab[t].kind)
  /\ tab[t].kind = "accept" =>
       Open(tab[t].invite) /\ role[invites[tab[t].invite].by] \in Allows("accept")
  /\ tab[t].kind = "save" => tab[t].version = pages[tab[t].page].version
  /\ tab[t].kind = "publish" => tab[t].text = pages[tab[t].page].text
  /\ tab[t].kind = "issue" =>
       \A i \in Invites : Open(i) /\ invites[i].email = tab[t].email => i \in tab[t].hits

IInv == TypeOK /\ Bodies /\ Drafts /\ Forms /\ Published /\ Checked /\ OneOpenInvitation

LEMMA InitInv == Init => IInv
<1> SUFFICES ASSUME Init PROVE IInv
  OBVIOUS
<1>1. TypeOK
  BY WorkspaceConstants, SMT DEF Init, TypeOK, PageRow, LinkRows, Snapshot, InviteRow, Tab, Blank, Idle, Roles, Kinds
<1>2. Bodies /\ Forms /\ Checked
  <2> \A t \in Tabs : tab[t].pc = "idle" /\ tab[t].kind = "none"
    BY DEF Init, Idle
  <2> QED
    BY DEF Bodies, Forms, Checked
<1>3. Drafts /\ Published
  BY SMT DEF Init, Drafts, Published
<1>4. OneOpenInvitation
  BY SMT DEF Init, OneOpenInvitation, Open, Blank
<1> QED
  BY <1>1, <1>2, <1>3, <1>4 DEF IInv
\* Pages that only gain versions keep every snapshot a past draft.
LEMMA PublishedKept ==
  ASSUME TypeOK, Published, TypeOK', UNCHANGED publications,
         \A q \in Pages : pages[q].text <= pages'[q].text /\ pages'[q].published = pages[q].published
  PROVE  Published'
<1>1. \A n \in 1..Len(publications) :
        publications[n].page \in Pages /\ publications[n].text \in Nat
  <2> \A n \in 1..Len(publications) : publications[n] \in Snapshot
    BY ElementOfSeq DEF TypeOK
  <2> QED
    BY DEF Snapshot
<1>2. \A q \in Pages : pages[q].text \in Nat /\ pages'[q].text \in Nat
  BY DEF TypeOK, PageRow
<1> QED
  BY <1>1, <1>2 DEF Published

-----------------------------------------------------------------------------
(* Steps that leave the rows alone.                                        *)

LEMMA RequestInv ==
  ASSUME IInv, NEW t \in Tabs, NEW kind \in Kinds \ {"save"}, NEW r \in Tab,
         r.pc = "locked", r.kind = kind, r.user \in Users,
         kind \in {"create", "publish"} => r.page \in Pages,
         kind = "issue" => r.email \in Users,
         kind \in {"revoke", "accept"} => r.invite \in Invites,
         tab' = [tab EXCEPT ![t] = r],
         lock = NoTab, lock' = t, UNCHANGED dataVars
  PROVE  IInv'
<1> USE DEF IInv
<1>1. TypeOK'
  BY DEF TypeOK, dataVars
<1>2. Bodies'
  BY WorkspaceConstants DEF TypeOK, Bodies, Kinds
<1>3. Forms'
  BY DEF TypeOK, Forms, dataVars
<1>4. Checked'
  BY DEF TypeOK, Checked, Open, dataVars
<1> QED
  BY <1>1, <1>2, <1>3, <1>4 DEF Drafts, Published, OneOpenInvitation, Open, dataVars

LEMMA BeginInv == ASSUME IInv, NEW t \in Tabs, begin(t) PROVE IInv'
<1>1. lock = NoTab /\ lock' = t /\ UNCHANGED dataVars
  BY DEF begin, lockWorkspace
<1>2. PICK u \in Users :
       \/ \E kind \in {"create", "publish"}, p \in Pages :
            tab' = [tab EXCEPT ![t] = [Begin(t, kind, u) EXCEPT !.page = p]]
       \/ \E email \in Users :
            tab' = [tab EXCEPT ![t] = [Begin(t, "issue", u) EXCEPT !.email = email]]
       \/ \E kind \in {"revoke", "accept"}, i \in Invites :
            tab' = [tab EXCEPT ![t] = [Begin(t, kind, u) EXCEPT !.invite = i]]
  BY DEF begin
<1>3. ASSUME NEW kind \in {"create", "publish"}, NEW p \in Pages,
             tab' = [tab EXCEPT ![t] = [Begin(t, kind, u) EXCEPT !.page = p]]
      PROVE  IInv'
  <2> DEFINE r == [Begin(t, kind, u) EXCEPT !.page = p]
  <2>1. r \in Tab /\ r.pc = "locked" /\ r.kind = kind /\ r.user = u /\ r.page = p
    BY DEF Begin, Idle, Tab, Kinds
  <2> HIDE DEF r
  <2> QED
    BY <1>1, <1>3, <2>1, RequestInv DEF r, Kinds
<1>4. ASSUME NEW email \in Users,
             tab' = [tab EXCEPT ![t] = [Begin(t, "issue", u) EXCEPT !.email = email]]
      PROVE  IInv'
  <2> DEFINE r == [Begin(t, "issue", u) EXCEPT !.email = email]
  <2>1. r \in Tab /\ r.pc = "locked" /\ r.kind = "issue" /\ r.user = u /\ r.email = email
    BY DEF Begin, Idle, Tab, Kinds
  <2> HIDE DEF r
  <2> QED
    BY <1>1, <1>4, <2>1, RequestInv DEF r, Kinds
<1>5. ASSUME NEW kind \in {"revoke", "accept"}, NEW i \in Invites,
             tab' = [tab EXCEPT ![t] = [Begin(t, kind, u) EXCEPT !.invite = i]]
      PROVE  IInv'
  <2> DEFINE r == [Begin(t, kind, u) EXCEPT !.invite = i]
  <2>1. r \in Tab /\ r.pc = "locked" /\ r.kind = kind /\ r.user = u /\ r.invite = i
    BY DEF Begin, Idle, Tab, Kinds
  <2> HIDE DEF r
  <2> QED
    BY <1>1, <1>5, <2>1, RequestInv DEF r, Kinds
<1> QED
  BY <1>2, <1>3, <1>4, <1>5

LEMMA AbandonInv == ASSUME IInv, NEW t \in Tabs, abandon(t) PROVE IInv'
<1> USE DEF IInv
<1>1. tab' = [tab EXCEPT ![t] = Idle] /\ lock' \in {lock, NoTab} /\ UNCHANGED dataVars
  BY DEF abandon
<1>2. lock' # lock => lock = t
  BY DEF abandon
<1>3. TypeOK'
  BY <1>1 DEF TypeOK, Tab, Idle, dataVars
<1>4. Bodies'
  BY <1>1, <1>2 DEF TypeOK, Bodies, Idle
<1>5. Forms' /\ Checked'
  BY <1>1 DEF TypeOK, Forms, Checked, Open, Idle, dataVars
<1>6. Drafts' /\ Published' /\ OneOpenInvitation'
  BY <1>1 DEF Drafts, Published, OneOpenInvitation, Open, dataVars
<1> QED
  BY <1>3, <1>4, <1>5, <1>6

LEMMA EditInv == ASSUME IInv, NEW t \in Tabs, edit(t) PROVE IInv'
<1> USE DEF IInv
<1>0. lock' = lock /\ UNCHANGED dataVars
  BY DEF edit, editPage, editLinks
<1>1. CASE editPage(t)
  <2>1. PICK u \in Users, p \in Pages : tab' = [tab EXCEPT ![t] =
            [Idle EXCEPT !.pc = "opening", !.user = u, !.page = p,
                         !.version = pages[p].version, !.text = pages[p].text]]
    BY <1>1 DEF editPage
  <2>2. pages[p] \in PageRow
    BY DEF TypeOK
  <2>3. TypeOK' /\ Bodies'
    BY <1>0, <2>1, <2>2 DEF TypeOK, PageRow, Tab, Bodies, Idle, dataVars
  <2>4. Forms'
    BY <1>0, <2>1, <2>2 DEF TypeOK, PageRow, Drafts, Forms, Idle, dataVars
  <2>5. Checked'
    BY <1>0, <2>1 DEF TypeOK, Checked, Open, Idle, dataVars
  <2> QED
    BY <1>0, <2>3, <2>4, <2>5 DEF Drafts, Published, OneOpenInvitation, Open, dataVars
<1>2. CASE editLinks(t)
  <2>1. /\ tab[t].pc = "opening" /\ tab[t].page \in Pages
        /\ tab' = [tab EXCEPT ![t].pc = "form",
                              ![t].stamp = links[tab[t].page].stamp,
                              ![t].live = links[tab[t].page].live]
    BY <1>2 DEF editLinks, Bodies
  <2>2. links[tab[t].page] \in LinkRows /\ tab[t] \in Tab /\ pages[tab[t].page] \in PageRow
    BY <2>1 DEF TypeOK
  <2>3. TypeOK'
    BY <1>0, <2>1, <2>2 DEF TypeOK, LinkRows, Tab, dataVars
  <2>4. Bodies'
    BY <1>0, <2>1, <2>2 DEF TypeOK, Tab, Bodies
  <2>5. /\ \A q \in Tabs \ {t} : tab'[q] = tab[q]
        /\ tab'[t].pc = "form" /\ tab'[t].kind = "none" /\ tab'[t].page = tab[t].page
        /\ tab'[t].version = tab[t].version /\ tab'[t].text = tab[t].text
        /\ tab'[t].stamp = links[tab[t].page].stamp /\ tab'[t].live = links[tab[t].page].live
    BY <2>1, <2>2 DEF TypeOK, Tab, Bodies
  <2>6. Forms'
    <3>1. /\ tab'[t].version = tab'[t].text
          /\ tab'[t].version <= tab'[t].stamp
          /\ tab'[t].stamp <= links[tab[t].page].stamp
      BY <2>1, <2>2, <2>5 DEF PageRow, LinkRows, Tab, Drafts, Forms
    <3> QED
      BY <1>0, <2>5, <3>1 DEF Forms, dataVars
  <2>7. Checked'
    BY <1>0, <2>5 DEF Checked, Open, dataVars
  <2> QED
    BY <1>0, <2>3, <2>4, <2>6, <2>7 DEF Drafts, Published, OneOpenInvitation, Open, dataVars
<1> QED
  BY <1>1, <1>2 DEF edit

LEMMA SaveBeginInv == ASSUME IInv, NEW t \in Tabs, saveBegin(t) PROVE IInv'
<1> USE DEF IInv
<1>1. /\ tab[t].pc = "form" /\ tab[t] \in Tab
      /\ tab' = [tab EXCEPT ![t].pc = "locked", ![t].kind = "save"]
      /\ lock = NoTab /\ lock' = t /\ UNCHANGED dataVars
  BY DEF saveBegin, lockWorkspace, TypeOK
<1>2. TypeOK'
  BY <1>1 DEF TypeOK, Tab, Kinds, dataVars
<1>3. Bodies'
  BY <1>1, WorkspaceConstants DEF TypeOK, Tab, Bodies
<1>4. Forms'
  BY <1>1 DEF TypeOK, Tab, Forms, dataVars
<1>5. Checked'
  BY <1>1 DEF TypeOK, Tab, Checked, Open, dataVars
<1> QED
  BY <1>1, <1>2, <1>3, <1>4, <1>5 DEF Drafts, Published, OneOpenInvitation, Open, dataVars

\* A transaction whose checks hold goes on as "checked".
LEMMA PassInv ==
  ASSUME IInv, NEW t \in Tabs, NEW r \in Tab,
         tab[t].pc = "locked", r.pc = "checked", r.kind = tab[t].kind, r.user = tab[t].user,
         r.page = tab[t].page, r.invite = tab[t].invite, r.email = tab[t].email,
         r.kind # "accept" => role[r.user] \in Allows(r.kind),
         r.kind = "accept" => Open(r.invite) /\ role[invites[r.invite].by] \in Allows("accept"),
         r.kind = "save" =>
           /\ r.version = pages[r.page].version
           /\ r.version = tab[t].version /\ r.text = tab[t].text
           /\ r.stamp = tab[t].stamp /\ r.live = tab[t].live,
         r.kind = "publish" => r.text = pages[r.page].text,
         r.kind = "issue" =>
           \A i \in Invites : Open(i) /\ invites[i].email = r.email => i \in r.hits,
         tab' = [tab EXCEPT ![t] = r], UNCHANGED <<dataVars, lock>>
  PROVE  IInv'
<1> USE DEF IInv
<1>0. tab'[t] = r /\ \A q \in Tabs \ {t} : tab'[q] = tab[q]
  BY DEF TypeOK
<1>1. TypeOK'
  BY DEF TypeOK, dataVars
<1>2. Bodies'
  BY <1>0 DEF Bodies
<1>3. Forms'
  BY <1>0 DEF Forms, dataVars
<1>4. Checked'
  BY <1>0 DEF Checked, Open, dataVars
<1> QED
  BY <1>1, <1>2, <1>3, <1>4 DEF Drafts, Published, OneOpenInvitation, Open, dataVars

\* The same, when the check keeps nothing for later.
LEMMA PlainPassInv ==
  ASSUME IInv, NEW t \in Tabs, tab[t].pc = "locked",
         tab[t].kind \in {"create", "save", "revoke", "accept"},
         tab[t].kind # "accept" => role[tab[t].user] \in Allows(tab[t].kind),
         tab[t].kind = "accept" =>
           Open(tab[t].invite) /\ role[invites[tab[t].invite].by] \in Allows("accept"),
         tab[t].kind = "save" => pages[tab[t].page].version = tab[t].version,
         tab' = [tab EXCEPT ![t].pc = "checked"], UNCHANGED <<dataVars, lock>>
  PROVE  IInv'
<1> DEFINE r == [tab[t] EXCEPT !.pc = "checked"]
<1>1. tab[t] \in Tab
  BY DEF IInv, TypeOK
<1>2. /\ r \in Tab /\ r.pc = "checked" /\ r.kind = tab[t].kind /\ r.user = tab[t].user
      /\ r.page = tab[t].page /\ r.invite = tab[t].invite /\ r.email = tab[t].email
      /\ r.version = tab[t].version /\ r.text = tab[t].text
      /\ r.stamp = tab[t].stamp /\ r.live = tab[t].live
  BY <1>1 DEF Tab
<1>3. tab' = [tab EXCEPT ![t] = r]
  OBVIOUS
<1> HIDE DEF r
<1>4. /\ r.kind # "accept" => role[r.user] \in Allows(r.kind)
      /\ r.kind = "accept" => Open(r.invite) /\ role[invites[r.invite].by] \in Allows("accept")
      /\ r.kind = "save" => r.version = pages[r.page].version
      /\ r.kind # "publish" /\ r.kind # "issue"
  BY <1>2
<1> QED
  BY <1>2, <1>3, <1>4, PassInv

LEMMA CheckInv ==
  ASSUME IInv, NEW t \in Tabs,
         createCheck(t) \/ saveCheck(t) \/ revokeCheck(t) \/ acceptCheck(t)
  PROVE  IInv'
<1>1. CASE createCheck(t)
  BY <1>1, PlainPassInv DEF createCheck, requireRole
<1>2. CASE saveCheck(t)
  BY <1>2, PlainPassInv DEF saveCheck, requireRole
<1>3. CASE revokeCheck(t)
  BY <1>3, PlainPassInv DEF revokeCheck, requireRole
<1>4. CASE acceptCheck(t)
  BY <1>4, PlainPassInv DEF acceptCheck
<1> QED
  BY <1>1, <1>2, <1>3, <1>4

LEMMA PublishCheckInv == ASSUME IInv, NEW t \in Tabs, publishCheck(t) PROVE IInv'
<1> DEFINE r == [tab[t] EXCEPT !.pc = "checked", !.text = pages[tab[t].page].text]
<1>1. tab[t] \in Tab /\ pages[tab[t].page] \in PageRow
  BY DEF IInv, TypeOK, Bodies, publishCheck
<1>2. /\ r \in Tab /\ r.pc = "checked" /\ r.kind = tab[t].kind /\ r.user = tab[t].user
      /\ r.page = tab[t].page /\ r.invite = tab[t].invite /\ r.email = tab[t].email
      /\ r.text = pages[tab[t].page].text
  BY <1>1 DEF Tab, PageRow
<1>3. tab' = [tab EXCEPT ![t] = r]
  BY DEF publishCheck
<1> HIDE DEF r
<1>4. /\ tab[t].pc = "locked" /\ r.kind = "publish" /\ role[r.user] \in Allows(r.kind)
      /\ r.text = pages[r.page].text /\ UNCHANGED <<dataVars, lock>>
  BY <1>2 DEF publishCheck, requireRole
<1> QED
  BY <1>2, <1>3, <1>4, PassInv

LEMMA IssueCheckInv == ASSUME IInv, NEW t \in Tabs, issueCheck(t) PROVE IInv'
<1> DEFINE H == {i \in Invites : Open(i) /\ invites[i].email = tab[t].email}
           r == [tab[t] EXCEPT !.pc = "checked", !.hits = H]
<1>1. tab[t] \in Tab
  BY DEF IInv, TypeOK
<1>2. /\ r \in Tab /\ r.pc = "checked" /\ r.kind = tab[t].kind /\ r.user = tab[t].user
      /\ r.page = tab[t].page /\ r.invite = tab[t].invite /\ r.email = tab[t].email
      /\ r.hits = H
  BY <1>1 DEF Tab
<1>3. tab' = [tab EXCEPT ![t] = r]
  BY DEF issueCheck
<1> HIDE DEF r
<1> QED
  BY <1>2, <1>3, PassInv DEF issueCheck, requireRole

-----------------------------------------------------------------------------
(* Steps that change rows.                                                 *)

LEMMA SaveCommitInv == ASSUME IInv, NEW t \in Tabs, saveCommit(t) PROVE IInv'
<1> USE DEF IInv
<1> DEFINE p == tab[t].page
           new == pages[p].version + 1
<1>1. PICK S \in SUBSET Slugs :
        /\ (S \ tab[t].live) \cap links[p].used = {}
        /\ links' = [links EXCEPT ![p] = [stamp |-> new, live |-> S, used |-> @.used \cup S]]
  BY DEF saveCommit
<1>2. /\ p \in Pages /\ tab[t].kind = "save" /\ tab[t].pc = "checked" /\ lock = t
      /\ pages[p] \in PageRow /\ links[p] \in LinkRows /\ new \in Nat
  BY DEF saveCommit, Bodies, TypeOK, PageRow
<1>3. /\ pages' = [pages EXCEPT ![p].version = new, ![p].text = new]
      /\ tab' = [tab EXCEPT ![t] = Idle]
      /\ lock' = NoTab
      /\ UNCHANGED <<role, publications, invites>>
  BY DEF saveCommit, Commit
<1>4. TypeOK'
  BY <1>1, <1>2, <1>3 DEF TypeOK, PageRow, LinkRows, Tab, Idle
<1>5. Bodies'
  BY <1>2, <1>3 DEF Bodies, TypeOK, Tab, Idle
<1>6. Drafts'
  BY <1>1, <1>2, <1>3 DEF Drafts, TypeOK, PageRow, LinkRows
<1>7. Forms'
  BY <1>1, <1>2, <1>3 DEF Forms, Bodies, Drafts, TypeOK, PageRow, LinkRows, Tab, Idle
<1>8. Published'
  <2> \A q \in Pages : pages[q].text <= pages'[q].text /\ pages'[q].published = pages[q].published
    BY <1>2, <1>3 DEF Drafts, TypeOK, PageRow
  <2> QED
    BY <1>3, <1>4, PublishedKept
<1>9. Checked'
  BY <1>2, <1>3 DEF Checked, Bodies, TypeOK, Tab, Idle, Open
<1>10. OneOpenInvitation'
  BY <1>3 DEF OneOpenInvitation, Open
<1> QED
  BY <1>4, <1>5, <1>6, <1>7, <1>8, <1>9, <1>10

LEMMA CreateCommitInv == ASSUME IInv, NEW t \in Tabs, createCommit(t) PROVE IInv'
<1> USE DEF IInv
<1>1. /\ tab[t].page \in Pages
      /\ pages' = [pages EXCEPT ![tab[t].page].created = TRUE]
      /\ tab' = [tab EXCEPT ![t] = Idle]
      /\ lock = t /\ lock' = NoTab
      /\ UNCHANGED <<role, links, publications, invites>>
  BY DEF createCommit, Commit, Bodies
<1>2. \A q \in Pages : /\ pages'[q].text = pages[q].text /\ pages'[q].version = pages[q].version
                       /\ pages'[q].published = pages[q].published
  BY <1>1 DEF TypeOK, PageRow
<1>3. TypeOK'
  <2> pages' \in [Pages -> PageRow]
    BY <1>1 DEF TypeOK, PageRow
  <2> tab' \in [Tabs -> Tab]
    BY <1>1 DEF TypeOK, Tab, Idle
  <2> QED
    BY <1>1, <1>2 DEF TypeOK
<1>4. Bodies'
  BY <1>1 DEF Bodies, TypeOK, Idle
<1>5. Drafts'
  BY <1>1, <1>2 DEF Drafts
<1>6. Forms' /\ Checked'
  BY <1>1, <1>2 DEF Forms, Checked, Bodies, TypeOK, Idle, Open
<1>7. Published'
  <2> \A q \in Pages : pages[q].text <= pages'[q].text
    BY <1>2, <1>3 DEF TypeOK, PageRow
  <2> QED
    BY <1>1, <1>2, <1>3, PublishedKept
<1> QED
  BY <1>1, <1>3, <1>4, <1>5, <1>6, <1>7 DEF OneOpenInvitation, Open

LEMMA PublishCommitInv == ASSUME IInv, NEW t \in Tabs, publishCommit(t) PROVE IInv'
<1> USE DEF IInv
<1> DEFINE p == tab[t].page
           snapshot == [page |-> p, text |-> tab[t].text, stamp |-> links[p].stamp,
                        live |-> links[p].live]
           n == Len(publications) + 1
<1>1. /\ p \in Pages /\ tab[t].text = pages[p].text
      /\ publications' = Append(publications, snapshot)
      /\ pages' = [pages EXCEPT ![p].published = n]
      /\ tab' = [tab EXCEPT ![t] = Idle]
      /\ lock = t /\ lock' = NoTab
      /\ UNCHANGED <<role, links, invites>>
  BY DEF publishCommit, Commit, Bodies, Checked
<1>2. /\ pages[p] \in PageRow /\ links[p] \in LinkRows
      /\ snapshot \in Snapshot /\ snapshot.text = snapshot.stamp
  BY <1>1 DEF TypeOK, PageRow, LinkRows, Snapshot, Drafts
<1>3. /\ publications' \in Seq(Snapshot)
      /\ Len(publications') = n /\ n \in Nat /\ publications'[n] = snapshot
      /\ \A k \in 1..Len(publications) : publications'[k] = publications[k]
  BY <1>1, <1>2, AppendProperties DEF TypeOK
<1>4. \A q \in Pages : pages'[q].text = pages[q].text /\ pages'[q].version = pages[q].version
  BY <1>1 DEF TypeOK, PageRow
<1>5. TypeOK'
  <2>1. pages' \in [Pages -> PageRow]
    BY <1>1, <1>3 DEF TypeOK, PageRow
  <2>2. tab' \in [Tabs -> Tab]
    BY <1>1 DEF TypeOK, Tab, Idle
  <2>3. \A q \in Pages : pages'[q].published <= Len(publications')
    BY <1>1, <1>3 DEF TypeOK, PageRow
  <2> QED
    BY <1>1, <1>3, <2>1, <2>2, <2>3 DEF TypeOK
<1>6. Bodies'
  BY <1>1 DEF Bodies, TypeOK, Idle
<1>7. Drafts' /\ Forms' /\ Checked'
  BY <1>1, <1>4 DEF Drafts, Forms, Checked, Bodies, TypeOK, Idle, Open
<1>8. Published'
  <2>1. \A k \in 1..Len(publications) : publications[k].page \in Pages
    <3> \A k \in 1..Len(publications) : publications[k] \in Snapshot
      BY ElementOfSeq DEF TypeOK
    <3> QED
      BY DEF Snapshot
  <2>2. /\ snapshot.page = p /\ snapshot.text = pages[p].text /\ pages[p].text \in Nat
    BY <1>1, <1>2 DEF PageRow
  <2> HIDE DEF snapshot
  <2>3. ASSUME NEW k \in 1..Len(publications')
        PROVE  /\ publications'[k].text = publications'[k].stamp
               /\ publications'[k].text <= pages'[publications'[k].page].text
    <3>1. CASE k = n
      <4>1. publications'[k] = snapshot
        BY <1>3, <3>1
      <4>2. pages'[p].text = pages[p].text
        BY <1>1, <1>4
      <4>3. pages'[publications'[k].page].text = publications'[k].text
        BY <2>2, <4>1, <4>2, Zenon
      <4>4. publications'[k].text \in Nat /\ publications'[k].text = publications'[k].stamp
        BY <1>2, <2>2, <4>1, Zenon
      <4> QED
        BY <4>3, <4>4
    <3>2. CASE k # n
      <4> k \in 1..Len(publications)
        BY <1>3, <3>2, LenProperties DEF TypeOK
      <4> QED
        BY <1>3, <1>4, <2>1 DEF Published
    <3> QED
      BY <3>1, <3>2
  <2>4. \A q \in Pages : pages'[q].published # 0 => publications'[pages'[q].published].page = q
    BY <1>1, <1>3, <2>2 DEF Published, TypeOK, PageRow
  <2> QED
    BY <2>3, <2>4 DEF Published
<1> QED
  BY <1>1, <1>5, <1>6, <1>7, <1>8 DEF OneOpenInvitation, Open

\* A step that changes only invitation rows, none of which it opens and none of
\* which an acceptance under way has checked.
LEMMA InvitesInv ==
  ASSUME IInv,
         invites' \in [Invites -> InviteRow],
         \A i \in Invites : /\ invites'[i].email = invites[i].email
                            /\ invites'[i].by = invites[i].by
                            /\ Open(i)' => Open(i),
         UNCHANGED <<role, pages, links, publications>>,
         TypeOK', Bodies', Forms',
         \A q \in Tabs : tab'[q].pc = "checked" =>
           /\ tab'[q] = tab[q]
           /\ tab[q].kind = "accept" => Open(tab[q].invite)'
  PROVE  IInv'
<1> USE DEF IInv
<1>1. Checked'
  BY DEF Checked, Bodies, TypeOK
<1> QED
  BY <1>1 DEF Drafts, Published, OneOpenInvitation

LEMMA IssueCommitInv == ASSUME IInv, NEW t \in Tabs, issueCommit(t) PROVE IInv'
<1> USE DEF IInv
<1>1. PICK i \in Invites, r \in {"editor", "viewer"} :
        /\ ~invites[i].issued
        /\ invites' = [j \in Invites |->
             IF j = i THEN Issued(t, r)
             ELSE IF j \in tab[t].hits THEN [invites[j] EXCEPT !.revoked = TRUE]
             ELSE invites[j]]
        /\ tab' = [tab EXCEPT ![t] = [Idle EXCEPT !.pc = "mail", !.invite = i]]
  BY DEF issueCommit
<1>2. /\ tab[t].kind = "issue" /\ tab[t].pc = "checked" /\ lock = t /\ lock' = NoTab
      /\ UNCHANGED <<role, pages, links, publications>>
      /\ tab[t].email \in Users /\ tab[t].user \in Users
  BY DEF issueCommit, Bodies
<1>3. Issued(t, r) \in InviteRow /\ Issued(t, r).email = tab[t].email
  BY <1>2 DEF Issued, Blank, InviteRow
<1>4. ASSUME NEW j \in Invites \ {i}
      PROVE  /\ invites'[j] \in InviteRow /\ invites'[j].email = invites[j].email
             /\ Open(j)' => Open(j) /\ j \notin tab[t].hits
  <2>1. invites[j] \in InviteRow
    BY DEF TypeOK
  <2>2. CASE j \in tab[t].hits
    BY <1>1, <2>1, <2>2 DEF InviteRow, Open
  <2>3. CASE j \notin tab[t].hits
    BY <1>1, <2>1, <2>3 DEF Open
  <2> QED
    BY <2>2, <2>3
<1>5. invites'[i] = Issued(t, r)
  BY <1>1
<1>6. tab'[t].pc = "mail" /\ tab'[t].kind = "none" /\ tab'[t].invite = i
      /\ \A q \in Tabs \ {t} : tab'[q] = tab[q]
  BY <1>1 DEF TypeOK, Idle
<1>7. TypeOK'
  <2>1. invites' \in [Invites -> InviteRow]
    <3> \A j \in Invites : invites'[j] \in InviteRow
      BY <1>3, <1>4, <1>5
    <3> QED
      BY <1>1
  <2>2. tab' \in [Tabs -> Tab]
    <3> [Idle EXCEPT !.pc = "mail", !.invite = i] \in Tab
      BY DEF Idle, Tab
    <3> QED
      BY <1>1 DEF TypeOK
  <2> QED
    BY <1>2, <2>1, <2>2 DEF TypeOK
<1>8. Bodies'
  BY <1>2, <1>6 DEF Bodies
<1>9. Forms'
  BY <1>2, <1>6 DEF Forms
<1>10. Checked'
  BY <1>2, <1>6 DEF Checked, Bodies
<1>11. OneOpenInvitation'
  <2> \A j \in Invites \ {i} : Open(j)' => invites'[j].email # invites'[i].email
    BY <1>2, <1>3, <1>4, <1>5 DEF Checked
  <2> QED
    BY <1>4 DEF OneOpenInvitation
<1> QED
  BY <1>2, <1>7, <1>8, <1>9, <1>10, <1>11 DEF Drafts, Published

LEMMA MailFailsInv == ASSUME IInv, NEW t \in Tabs, mailFails(t) PROVE IInv'
<1> USE DEF IInv
<1> DEFINE i == tab[t].invite
<1>1. /\ tab[t].pc = "mail" /\ i \in Invites
      /\ \A q \in Tabs : ~(tab[q].kind = "accept" /\ tab[q].pc = "checked" /\ tab[q].invite = i)
      /\ invites' = [invites EXCEPT ![i].revoked = TRUE]
      /\ tab' = [tab EXCEPT ![t] = Idle]
      /\ UNCHANGED <<role, pages, links, publications, lock>>
  BY DEF mailFails, Bodies
<1>2. \A j \in Invites : /\ invites'[j].email = invites[j].email /\ invites'[j].by = invites[j].by
                         /\ Open(j)' => Open(j)
                         /\ j # i => invites'[j] = invites[j]
  BY <1>1 DEF TypeOK, InviteRow, Open
<1>3. invites' \in [Invites -> InviteRow] /\ tab' \in [Tabs -> Tab]
  <2>1. invites' \in [Invites -> InviteRow]
    BY <1>1 DEF TypeOK, InviteRow
  <2>2. tab' \in [Tabs -> Tab]
    BY <1>1 DEF TypeOK, Tab, Idle
  <2> QED
    BY <2>1, <2>2
<1>4. TypeOK'
  BY <1>1, <1>3 DEF TypeOK
<1>5. Bodies' /\ Forms'
  BY <1>1 DEF Bodies, Forms, TypeOK, Idle
<1>6. \A q \in Tabs : tab'[q].pc = "checked" =>
        /\ tab'[q] = tab[q]
        /\ tab[q].kind = "accept" => Open(tab[q].invite)'
  BY <1>1, <1>2 DEF Checked, Bodies, TypeOK, Idle, Open
<1> QED
  BY <1>1, <1>2, <1>3, <1>4, <1>5, <1>6, InvitesInv

LEMMA RevokeCommitInv == ASSUME IInv, NEW t \in Tabs, revokeCommit(t) PROVE IInv'
<1> USE DEF IInv
<1> DEFINE i == tab[t].invite
<1>1. /\ tab[t].kind = "revoke" /\ tab[t].pc = "checked" /\ i \in Invites
      /\ lock = t /\ lock' = NoTab
      /\ invites' = [invites EXCEPT ![i].revoked = TRUE]
      /\ tab' = [tab EXCEPT ![t] = Idle]
      /\ UNCHANGED <<role, pages, links, publications>>
  BY DEF revokeCommit, Commit, Bodies
<1>2. \A j \in Invites : /\ invites'[j].email = invites[j].email /\ invites'[j].by = invites[j].by
                         /\ Open(j)' => Open(j)
  BY <1>1 DEF TypeOK, InviteRow, Open
<1>3. invites' \in [Invites -> InviteRow] /\ tab' \in [Tabs -> Tab]
  <2>1. invites' \in [Invites -> InviteRow]
    BY <1>1 DEF TypeOK, InviteRow
  <2>2. tab' \in [Tabs -> Tab]
    BY <1>1 DEF TypeOK, Tab, Idle
  <2> QED
    BY <2>1, <2>2
<1>4. TypeOK'
  BY <1>1, <1>3 DEF TypeOK
<1>5. Bodies' /\ Forms'
  BY <1>1 DEF Bodies, Forms, TypeOK, Idle
<1>6. \A q \in Tabs : tab'[q].pc # "checked"
  BY <1>1 DEF Bodies, TypeOK, Idle
<1> QED
  BY <1>1, <1>2, <1>3, <1>4, <1>5, <1>6, InvitesInv

LEMMA AcceptCommitInv == ASSUME IInv, NEW t \in Tabs, acceptCommit(t) PROVE IInv'
<1> USE DEF IInv
<1> DEFINE i == tab[t].invite
<1>1. /\ tab[t].kind = "accept" /\ tab[t].pc = "checked" /\ i \in Invites
      /\ tab[t].user \in Users /\ lock = t /\ lock' = NoTab
      /\ role' = [role EXCEPT ![tab[t].user] = IF @ = "none" THEN invites[i].role ELSE @]
      /\ invites' = [invites EXCEPT ![i].used = TRUE]
      /\ tab' = [tab EXCEPT ![t] = Idle]
      /\ UNCHANGED <<pages, links, publications>>
  BY DEF acceptCommit, Commit, Bodies
<1>2. \A j \in Invites : invites'[j].email = invites[j].email /\ (Open(j)' => Open(j))
  BY <1>1 DEF TypeOK, InviteRow, Open
<1>3. TypeOK'
  <2>1. invites[i].role \in Roles
    BY <1>1 DEF TypeOK, InviteRow, Roles
  <2>2. role' \in [Users -> Roles \cup {"none"}]
    BY <1>1, <2>1 DEF TypeOK
  <2>3. invites' \in [Invites -> InviteRow]
    BY <1>1 DEF TypeOK, InviteRow
  <2>4. tab' \in [Tabs -> Tab]
    BY <1>1 DEF TypeOK, Tab, Idle
  <2> QED
    BY <1>1, <2>2, <2>3, <2>4 DEF TypeOK
<1>4. Bodies' /\ Forms'
  BY <1>1 DEF Bodies, Forms, TypeOK, Idle
<1>5. Checked'
  BY <1>1 DEF Checked, Bodies, TypeOK, Idle
<1> QED
  BY <1>1, <1>2, <1>3, <1>4, <1>5 DEF Drafts, Published, OneOpenInvitation

LEMMA MembershipInv == ASSUME IInv, NEW u \in Users, changeMembership(u) PROVE IInv'
<1> USE DEF IInv
<1>1. /\ lock = NoTab
      /\ \E r \in Roles \cup {"none"} : role' = [role EXCEPT ![u] = r]
      /\ UNCHANGED <<pages, links, publications, invites, lock, tab>>
  BY DEF changeMembership
<1>2. Checked'
  BY <1>1, WorkspaceConstants DEF Checked, Bodies
<1> QED
  BY <1>1, <1>2 DEF TypeOK, Bodies, Drafts, Forms, Published, OneOpenInvitation, Open

LEMMA ExpireInv == ASSUME IInv, NEW i \in Invites, expire(i) PROVE IInv'
<1> USE DEF IInv
<1>1. /\ invites' = [invites EXCEPT ![i].expired = TRUE]
      /\ UNCHANGED <<role, pages, links, publications, lock, tab>>
  BY DEF expire
<1>2. \A j \in Invites : /\ invites'[j].email = invites[j].email /\ invites'[j].by = invites[j].by
                         /\ Open(j)' <=> Open(j)
  BY <1>1 DEF TypeOK, InviteRow, Open
<1>3. invites' \in [Invites -> InviteRow]
  BY <1>1 DEF TypeOK, InviteRow
<1>4. TypeOK' /\ Bodies' /\ Forms'
  BY <1>1, <1>3 DEF TypeOK, Bodies, Forms
<1>5. \A q \in Tabs :
        tab[q].pc = "checked" /\ tab[q].kind = "accept" => Open(tab[q].invite)'
  BY <1>1, <1>2 DEF Checked, Bodies
<1> QED
  BY <1>1, <1>2, <1>3, <1>4, <1>5, InvitesInv

-----------------------------------------------------------------------------
LEMMA NextInv == IInv /\ [Next]_vars => IInv'
<1>1. ASSUME IInv, UNCHANGED vars PROVE IInv'
  BY <1>1 DEF vars, dataVars, IInv, TypeOK, Bodies, Drafts, Forms, Published, Checked,
              OneOpenInvitation, Open
<1>2. ASSUME IInv, NEW t \in Tabs, tabStep(t) PROVE IInv'
  BY <1>2, BeginInv, AbandonInv, EditInv, CheckInv, CreateCommitInv, SaveBeginInv,
     SaveCommitInv, PublishCheckInv, PublishCommitInv, IssueCheckInv, IssueCommitInv,
     MailFailsInv, RevokeCommitInv, AcceptCommitInv DEF tabStep
<1> QED
  BY <1>1, <1>2, MembershipInv, ExpireInv DEF Next

LEMMA Inductive == Spec => []IInv
  BY InitInv, NextInv, PTL DEF Spec

\* The rows keep their shape, and a page points to a snapshot that exists.
THEOREM TypeCorrect == Spec => []TypeOK
  BY Inductive, PTL DEF IInv

\* Publications are single drafts, whatever is saved while a page is published.
THEOREM PublicationsWhole == Spec => []PublicationIsOneDraft
<1> IInv => PublicationIsOneDraft
  BY DEF IInv, Published, PublicationIsOneDraft
<1> QED
  BY Inductive, PTL

\* However many owners invite an address, at most one invitation is open.
THEOREM OpenOnce == Spec => []OneOpenInvitation
  BY Inductive, PTL DEF IInv

-----------------------------------------------------------------------------
(* Action properties: what the step of a transaction relies on.            *)

\* A save that commits was made from the current profile and the current links.
LEMMA FreshSave ==
  ASSUME IInv, NEW t \in Tabs, saveCommit(t)
  PROVE  LET p == tab[t].page IN
         /\ p \in Pages /\ tab[t].text = pages[p].text
         /\ tab[t].stamp = links[p].stamp /\ tab[t].live = links[p].live
<1> DEFINE p == tab[t].page
<1>0. tab[t].kind = "save" /\ tab[t].pc = "checked" /\ p \in Pages
  BY DEF saveCommit, IInv, Bodies
<1>1. tab[t].version = pages[p].version
  BY <1>0 DEF IInv, Checked
<1>2. /\ tab[t].version = tab[t].text /\ tab[t].version <= tab[t].stamp
      /\ tab[t].stamp <= links[p].stamp /\ links[p].stamp = pages[p].version
      /\ tab[t].stamp = links[p].stamp => tab[t].live = links[p].live
      /\ pages[p].version = pages[p].text
  BY <1>0 DEF IInv, Forms, Drafts
<1>3. tab[t].version \in Nat /\ tab[t].stamp \in Nat /\ links[p].stamp \in Nat
  BY <1>0 DEF IInv, TypeOK, Tab, LinkRows
<1>4. tab[t].stamp = links[p].stamp
  <2> DEFINE v == tab[t].version
             s == tab[t].stamp
             k == links[p].stamp
  <2> v \in Nat /\ s \in Nat /\ k \in Nat /\ v <= s /\ s <= k /\ k = v
    BY <1>1, <1>2, <1>3
  <2> HIDE DEF v, s, k
  <2> s = k
    OBVIOUS
  <2> QED
    BY DEF s, k
<1> QED
  BY <1>0, <1>1, <1>2, <1>4

\* What a save replaces is the profile and the links its form was made from.
THEOREM SavesLoseNothing == Spec => NoLostUpdate
<1> DEFINE A == \A t \in Tabs, p \in Pages :
       tab[t].pc = "checked" /\ tab[t].page = p /\ pages'[p].version # pages[p].version =>
         /\ tab[t].text = pages[p].text
         /\ tab[t].stamp = links[p].stamp /\ tab[t].live = links[p].live
<1>1. IInv /\ [Next]_vars => [A]_vars
  <2> SUFFICES ASSUME IInv, Next, NEW t \in Tabs, NEW p \in Pages,
                      tab[t].pc = "checked", tab[t].page = p,
                      pages'[p].version # pages[p].version
               PROVE  /\ tab[t].text = pages[p].text
                      /\ tab[t].stamp = links[p].stamp /\ tab[t].live = links[p].live
    OBVIOUS
  <2>1. PICK q \in Tabs : tabStep(q) /\ pages' # pages
    BY DEF Next, changeMembership, expire
  <2>2. saveCommit(q)
    <3> pages[p] \in PageRow /\ pages \in [Pages -> PageRow]
      BY DEF IInv, TypeOK
    <3>1. ~createCommit(q)
      <4> SUFFICES ASSUME pages' = [pages EXCEPT ![tab[q].page].created = TRUE] PROVE FALSE
        BY DEF createCommit
      <4> pages'[p].version = pages[p].version
        BY DEF PageRow
      <4> QED
        OBVIOUS
    <3>2. ~publishCommit(q)
      <4> SUFFICES ASSUME pages' = [pages EXCEPT ![tab[q].page].published = Len(publications) + 1]
                   PROVE  FALSE
        BY DEF publishCommit
      <4> pages'[p].version = pages[p].version
        BY DEF PageRow
      <4> QED
        OBVIOUS
    <3> QED
      BY <2>1, <3>1, <3>2 DEF tabStep, begin, abandon, edit, editPage, editLinks, createCheck,
         saveBegin, saveCheck, publishCheck, issueCheck, issueCommit, mailFails, revokeCheck,
         revokeCommit, acceptCheck, acceptCommit, dataVars
  <2>3. q = t
    BY <2>2 DEF saveCommit, IInv, Bodies
  <2> QED
    BY <2>2, <2>3, FreshSave
<1> QED
  BY <1>1, Inductive, PTL DEF Spec, NoLostUpdate

\* Only a save changes link rows.
LEMMA LinksStep ==
  ASSUME Next, links' # links
  PROVE  \E t \in Tabs : saveCommit(t)
<1>1. PICK t \in Tabs : tabStep(t) /\ links' # links
  BY DEF Next, changeMembership, expire
<1> QED
  BY <1>1 DEF tabStep, begin, abandon, edit, editPage, editLinks, createCheck, createCommit,
     saveBegin, saveCheck, publishCheck, publishCommit, issueCheck, issueCommit, mailFails,
     revokeCheck, revokeCommit, acceptCheck, acceptCommit, dataVars

\* A slug that was deleted is not in the form, and a new row cannot take it.
THEOREM DeletedIsFinal == Spec => DeletedStaysDeleted
<1> DEFINE A == \A p \in Pages : links'[p].live \cap (links[p].used \ links[p].live) = {}
<1>1. IInv /\ [Next]_vars => [A]_vars
  <2> SUFFICES ASSUME IInv, Next, NEW p \in Pages
               PROVE  links'[p].live \cap (links[p].used \ links[p].live) = {}
    OBVIOUS
  <2> links[p] \in LinkRows /\ links \in [Pages -> LinkRows]
    BY DEF IInv, TypeOK
  <2>1. CASE links'[p] = links[p]
    BY <2>1
  <2>2. CASE links'[p] # links[p]
    <3>1. PICK t \in Tabs : saveCommit(t)
      BY <2>2, LinksStep
    <3>2. PICK S \in SUBSET Slugs, new \in {pages[tab[t].page].version + 1} :
            /\ (S \ tab[t].live) \cap links[tab[t].page].used = {}
            /\ links' = [links EXCEPT ![tab[t].page] =
                 [stamp |-> new, live |-> S, used |-> @.used \cup S]]
      BY <3>1 DEF saveCommit
    <3>3. tab[t].page = p /\ links'[p].live = S
      BY <2>2, <3>2
    <3>4. tab[t].live = links[p].live
      BY <3>1, <3>3, FreshSave
    <3> QED
      BY <3>2, <3>3, <3>4
  <2> QED
    BY <2>1, <2>2
<1> QED
  BY <1>1, Inductive, PTL DEF Spec, DeletedStaysDeleted

\* Whoever commits has the role at that moment.
THEOREM CommitsAreAuthorized == Spec => AuthorizedAtCommit
<1> DEFINE A == \A t \in Tabs :
       tab[t].pc = "checked" /\ dataVars' # dataVars /\ tab'[t] # tab[t] =>
         role[IF tab[t].kind = "accept" THEN invites[tab[t].invite].by ELSE tab[t].user]
           \in Allows(tab[t].kind)
<1>1. IInv => \A t \in Tabs : tab[t].pc = "checked" =>
         role[IF tab[t].kind = "accept" THEN invites[tab[t].invite].by ELSE tab[t].user]
           \in Allows(tab[t].kind)
  BY DEF IInv, Checked
<1>2. IInv /\ [Next]_vars => [A]_vars
  BY <1>1
<1> QED
  BY <1>2, Inductive, PTL DEF Spec, AuthorizedAtCommit

\* An invitation that is accepted is open at that moment.
THEOREM AcceptedWhileOpen == Spec => UsedOnceWhileOpen
<1> DEFINE A == \A t \in Tabs :
       tab[t].kind = "accept" /\ tab[t].pc = "checked" /\ dataVars' # dataVars /\ tab'[t] # tab[t]
         => Open(tab[t].invite)
<1>1. IInv /\ [Next]_vars => [A]_vars
  BY DEF IInv, Checked
<1> QED
  BY <1>1, Inductive, PTL DEF Spec, UsedOnceWhileOpen

\* Only a publication changes what a page points to.
LEMMA PublicStep ==
  ASSUME TypeOK, Next, NEW p \in Pages
  PROVE  \/ \E t \in Tabs : publishCommit(t)
         \/ pages'[p].published = pages[p].published /\ publications' = publications
<1> pages[p] \in PageRow /\ pages \in [Pages -> PageRow]
  BY DEF TypeOK
<1>1. ASSUME NEW t \in Tabs, saveCommit(t)
      PROVE  pages'[p].published = pages[p].published /\ publications' = publications
  <2> DEFINE new == pages[tab[t].page].version + 1
  <2>1. pages' = [pages EXCEPT ![tab[t].page].version = new, ![tab[t].page].text = new]
        /\ publications' = publications
    BY <1>1 DEF saveCommit
  <2> HIDE DEF new
  <2> QED
    BY <2>1 DEF PageRow
<1>2. ASSUME NEW t \in Tabs, createCommit(t)
      PROVE  pages'[p].published = pages[p].published /\ publications' = publications
  BY <1>2 DEF createCommit, PageRow
<1>3. CASE UNCHANGED <<pages, publications>>
  BY <1>3
<1> QED
  BY <1>1, <1>2, <1>3 DEF Next, tabStep, begin, abandon, edit, editPage, editLinks, createCheck,
     saveBegin, saveCheck, publishCheck, issueCheck, issueCommit, mailFails, revokeCheck,
     revokeCommit, acceptCheck, acceptCommit, changeMembership, expire, dataVars

\* Publishing replaces a snapshot by the current draft, which is never older.
THEOREM VisitorsSeeProgress == Spec => PublicNeverGoesBack
<1> DEFINE A == \A p \in Pages :
       pages[p].published # 0 => forHandle(p).text <= forHandle(p)'.text
<1>1. IInv /\ [Next]_vars => [A]_vars
  <2> SUFFICES ASSUME IInv, Next, NEW p \in Pages, pages[p].published # 0
               PROVE  forHandle(p).text <= forHandle(p)'.text
    OBVIOUS
  <2> DEFINE old == publications[pages[p].published]
  <2>1. pages[p] \in PageRow /\ pages \in [Pages -> PageRow]
    BY DEF IInv, TypeOK
  <2>2. pages[p].published \in 1..Len(publications)
    BY <2>1 DEF IInv, TypeOK, PageRow
  <2>3. old \in Snapshot
    BY <2>2, ElementOfSeq DEF IInv, TypeOK
  <2>4. old.text \in Nat /\ old.text <= pages[p].text
    <3> old.page = p /\ old.text <= pages[old.page].text
      BY <2>2 DEF IInv, Published
    <3> QED
      BY <2>3 DEF Snapshot
  <2>5. CASE pages'[p].published = pages[p].published /\ publications' = publications
    <3> forHandle(p)' = forHandle(p)
      BY <2>5 DEF forHandle
    <3> QED
      BY <2>4 DEF forHandle
  <2>6. ASSUME NEW t \in Tabs, publishCommit(t) PROVE forHandle(p).text <= forHandle(p)'.text
    <3> DEFINE n == Len(publications) + 1
    <3>1. /\ pages' = [pages EXCEPT ![tab[t].page].published = n]
          /\ tab[t].page \in Pages /\ tab[t].text = pages[tab[t].page].text
          /\ publications' = Append(publications,
               [page |-> tab[t].page, text |-> tab[t].text, stamp |-> links[tab[t].page].stamp,
                live |-> links[tab[t].page].live])
      BY <2>6 DEF publishCommit, IInv, Bodies, Checked
    <3>2. /\ publications'[n] = [page |-> tab[t].page, text |-> tab[t].text,
                 stamp |-> links[tab[t].page].stamp, live |-> links[tab[t].page].live]
          /\ \A k \in 1..Len(publications) : publications'[k] = publications[k]
      BY <3>1, AppendProperties DEF IInv, TypeOK
    <3>3. CASE tab[t].page = p
      <4>1. forHandle(p)' = publications'[n]
        BY <2>1, <3>1, <3>3 DEF forHandle
      <4>2. forHandle(p)'.text = pages[p].text
        BY <3>1, <3>2, <3>3, <4>1
      <4> QED
        BY <2>4, <4>2 DEF forHandle
    <3>4. CASE tab[t].page # p
      <4>1. forHandle(p)' = old
        BY <2>1, <2>2, <3>1, <3>2, <3>4 DEF forHandle
      <4> QED
        BY <2>4, <4>1 DEF forHandle
    <3> QED
      BY <3>3, <3>4
  <2> QED
    BY <2>5, <2>6, PublicStep DEF IInv
<1> QED
  BY <1>1, Inductive, PTL DEF Spec, PublicNeverGoesBack
=============================================================================
