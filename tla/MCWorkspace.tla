---------------------------- MODULE MCWorkspace ----------------------------
(* Instances of Workspace for TLC.  Pages and invitations share only the     *)
(* members and the lock, so an instance keeps one of the two busy and not    *)
(* their product; "part" names which.  Accounts, tabs and ids are alike.     *)
EXTENDS Workspace, TLC

VARIABLE part

Of(p) == IF p = "publishing" THEN {"create", "save", "publish"} ELSE {"issue", "revoke", "accept"}

PartInit == Init /\ part \in {"publishing", "inviting"}

PartNext ==
  /\ Next
  /\ \A t \in Tabs : tab'[t].kind \in Of(part) \cup {"none"}
  /\ part' = part

PartSpec == PartInit /\ [][PartNext]_<<vars, part>>

Symmetry == Permutations(Users) \cup Permutations(Tabs) \cup Permutations(Invites)
=============================================================================
