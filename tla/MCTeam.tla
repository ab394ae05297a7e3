------------------------------- MODULE MCTeam -------------------------------
(* Instances of Team for TLC. The kinds of request are tried in groups that  *)
(* touch the same rows; the groups share only the members. In "rejoined" one *)
(* colleague leaves and comes back under a new Membership.id. One request is  *)
(* served at a time in "late", where Stripe's events come, in any order, and *)
(* in "alone", which has two invitations. ADMINs are made in "members" and    *)
(* "alone".                                                                  *)
EXTENDS Team, TLC

VARIABLE part

Groups == [
  members  |-> {"add", "changeRole", "remove"},
  rejoined |-> {"add", "remove"},
  left     |-> {"invite", "accept", "remove"},
  alone    |-> {"invite", "accept"},
  late     |-> {"add", "remove"},
  joined   |-> {"invite", "resend", "revoke", "accept", "login"}]

First == CHOOSE i \in Invites : TRUE
PartInit ==
  /\ Init
  /\ part \in DOMAIN Groups
  /\ part \in {"members", "left", "alone"} =>
       \A u \in Users : account[u] = "password"
  /\ part = "joined" => \E u \in Users \ {Founder} : account[u] = "password"
  /\ part \in {"rejoined", "late"} => \A u, w \in Users \ {Founder} :
       account[u] # "none" /\ account[w] # "none" => u = w
PartNext ==
  /\ Next
  /\ \A r \in Reqs : req'[r].kind \in Groups[part] \cup {"none"}
  /\ part \notin {"rejoined", "late"} => \A u \in Users : row'[u] < 2
  /\ part # "late" => ~reconcile
  /\ part \notin {"members", "alone"} => \A r \in Reqs : req'[r].role # "ADMIN"
  /\ part \in {"alone", "late"} => Cardinality({r \in Reqs : req'[r].pc # "idle"}) < 2
  /\ part # "alone" => \A i \in Invites \ {First} : inv'[i] = NoInvitation
  /\ UNCHANGED part
PartSpec == PartInit /\ [][PartNext]_<<vars, part>>

Symmetry == Permutations(Reqs) \cup Permutations(Users \ {Founder})
=============================================================================
