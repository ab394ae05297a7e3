SPECIFICATION PartSpec
CONSTANTS
  Users = {u1, u2, u3}
  Founder = u1
  JoinDomain = {u2, u3}
  Reqs = {r1, r2}
  Invites = {i1, i2}
  Ops = {"add", "changeRole", "remove", "invite", "resend", "revoke", "accept", "login"}
  Limit = 2
  MaxRows = 2
  NoUser = NoUser
  NoInvite = NoInvite
INVARIANT OwnerKept
SYMMETRY Symmetry
CHECK_DEADLOCK FALSE
