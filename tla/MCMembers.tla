------------------------------ MODULE MCMembers ------------------------------
(* What one person is to the system: a member of an organisation (MCTeam), a  *)
(* holder of tokens (Session) and of browser tabs (Portal). A behaviour is of *)
(* one of the three; the others rest. Tokens are numbers, issued in order.    *)
EXTENDS MCTeam, Session, Portal

TeamRests == Init /\ \A u \in Users : account[u] = "password"
PortalRests ==
  /\ PortalInit
  /\ member = <<[org |-> CHOOSE o \in Workspaces : TRUE, role |-> "OWNER"]>>
  /\ \A o \in Workspaces : other[o] = "OWNER" /\ sub[o] = "none"
  /\ full = {}
  /\ order = "CREATED"

\* The user's first workspace is a fixed one; either what the team page shows
\* varies at first, or what the pages of billing and orders show.
PortalStarts ==
  /\ PortalInit
  /\ Head(member).org = CHOOSE o \in Workspaces : TRUE
  /\ full = {}
  /\ \/ order = "CREATED" /\ \A o \in Workspaces : sub[o] = "none"
     \/ \A o \in Workspaces : other[o] = "OWNER"

\* A tab is left after one form: what follows is another behaviour's beginning.
FormDone == \E t \in Tabs : tab[t].pc \in {"done", "refused", "declined", "failed"}

\* One token is logged out at most.
OneLogout == \A s, t \in out' : s = t

InOrder ==
  \A s, t \in Tokens : s < t /\ token'[s] = "unissued" => token'[t] = "unissued"

MemberInit ==
  /\ SessionInit
  /\ \/ PartInit /\ PortalRests
     \/ part = "session" /\ TeamRests /\ PortalRests
     \/ part = "portal" /\ TeamRests /\ PortalStarts
MemberNext ==
  \/ part \in DOMAIN Groups /\ PartNext /\ UNCHANGED <<sessionVars, portalVars>>
  \/ part = "session" /\ SessionNext /\ InOrder /\ OneLogout /\ UNCHANGED <<vars, part, portalVars>>
  \/ part = "portal" /\ PortalNext /\ ~FormDone /\ UNCHANGED <<vars, part, sessionVars>>
MemberSpec == MemberInit /\ [][MemberNext]_<<vars, part, sessionVars, portalVars>>
=============================================================================
