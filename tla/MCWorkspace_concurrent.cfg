SPECIFICATION PartSpec
CONSTANTS
  Users = {u1, u2, u3}
  Tabs = {t1, t2}
  Pages = {p1}
  Slugs = {s1, s2}
  Invites = {i1, i2}
  NoUser = NoUser
  NoPage = NoPage
  NoInvite = NoInvite
  NoTab = NoTab
  MaxVersion = 3
  MaxPublications = 2
INVARIANTS PublicationIsOneDraft OneOpenInvitation
PROPERTIES NoLostUpdate DeletedStaysDeleted PublicNeverGoesBack AuthorizedAtCommit UsedOnceWhileOpen
SYMMETRY Symmetry
