--------------------------- MODULE MCOrganisation ---------------------------
(* What one organisation is to the system: a subscriber (Subscription), an    *)
(* owner of domains (Domains) and the subject of decisions (Gates). Each      *)
(* behaviour is of one part. "mirror" has one subscription and deliveries     *)
(* that overlap; in "buy" two requests race for a checkout, and deliveries    *)
(* follow one another and succeed.                                            *)
EXTENDS Subscription, Domains, Gates, TLC

VARIABLE part

Used == {s \in Subs : session'[s].status # "none"}
Handling == {d \in Deliveries : delivery'[d] # Idle}

Mirroring ==
  /\ Cardinality(Used) <= 1
  /\ Used # {} => \A b \in Buyers : buyer'[b] \in {buyer[b], NoBuyer}
  /\ \A p \in Plans : keyOf'[p] = NoSub => keyOf[p] = NoSub
Buying ==
  /\ \A e \in sent' : e.kind # "invoice" /\ e.status # "past_due"
  /\ Cardinality(Handling) <= 1
  /\ \A d \in Deliveries : delivery[d] # Idle /\ delivery'[d] = Idle => processed' # processed

GateRests == question = [kind |-> "none"] /\ answer = NoAnswer

PartInit ==
  /\ SubscriptionInit /\ DomainInit
  /\ \/ part \in {"mirror", "buy", "domains"} /\ GateRests
     \/ part = "gates" /\ GateInit
PartNext ==
  /\ \/ part = "mirror" /\ SubscriptionNext /\ Mirroring /\ UNCHANGED <<domainVars, gateVars>>
     \/ part = "buy" /\ SubscriptionNext /\ Buying /\ UNCHANGED <<domainVars, gateVars>>
     \/ part = "domains" /\ DomainNext /\ UNCHANGED <<subscriptionVars, gateVars>>
     \/ part = "gates" /\ GateNext /\ UNCHANGED <<subscriptionVars, domainVars>>
  /\ UNCHANGED part
PartSpec == PartInit /\ [][PartNext]_<<subscriptionVars, domainVars, gateVars, part>>

Symmetry == Permutations(Subs) \cup Permutations(Plans)
            \cup Permutations(Buyers) \cup Permutations(Deliveries)
=============================================================================
