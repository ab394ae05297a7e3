SPECIFICATION MemberSpec
CONSTANTS
  Users = {u1, u2, u3}
  Founder = u1
  JoinDomain = {u2, u3}
  Reqs = {r1, r2}
  Invites = {i1, i2}
  Ops = {"add", "changeRole", "remove", "invite", "resend", "revoke", "accept", "login"}
  Limit = 2
  MaxRows = 2
  NoUser = NoUser
  NoInvite = NoInvite
  Tokens = {1, 2, 3}
  Views = {v1, v2}
  NoToken = 0
  Tabs = {t1}
  Workspaces = {w1, w2}
  Pages = {"team", "settings", "billing", "orders", "products", "glinks", "overview"}
  MaxMoves = 2
  NoWorkspace = NoWorkspace
INVARIANTS SeatOvershoot OwnerKeptAlone SeatsSettle TokensSpentOnce CookieUsable OfferedIsAccepted FormsStay
PROPERTY OwnerFromOwner
SYMMETRY Symmetry
CHECK_DEADLOCK FALSE
