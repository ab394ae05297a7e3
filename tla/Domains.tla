------------------------------- MODULE Domains -------------------------------
(* Proof of domain ownership and the auto-join switch that relies on it.      *)
(*   apps/api/src/orgs/domains.service.ts, orgs/orgs.service.ts               *)
(* The database holds two rules: one row per organisation and domain, and one *)
(* organisation per autoJoinDomain. The rest is read first and written later. *)
EXTENDS Naturals

CONSTANTS
  Workspaces,  \* organisations
  Names,       \* normalised domain names
  PublicNames, \* PUBLIC_MAIL_DOMAINS
  DomainCalls, \* requests in flight at a time
  MaxProofs,   \* bound: how often one domain is added to one organisation
  NoName, NoWorkspace

ASSUME DomainConstants ==
  /\ PublicNames \subseteq Names /\ NoName \notin Names
  /\ NoWorkspace \notin Workspaces /\ MaxProofs \in Nat \ {0}

VARIABLES
  proof,     \* OrgDomainVerification of an organisation and a domain
  autoJoin,  \* Org.autoJoinDomain
  txt,       \* TXT records ever published: the token is that of one row
  dcall,     \* what a request in flight has read
  overtaken  \* observed: a proof went between the check and the write of an update

domainVars == <<proof, autoJoin, txt, dcall, overtaken>>

Owned == Workspaces \X Names
NoDomainCall == [pc |-> "idle", org |-> NoWorkspace, name |-> NoName, id |-> 0]
Target(c) == <<dcall[c].org, dcall[c].name>>
CallStep(c, pc, o, d) ==
  dcall' = [dcall EXCEPT ![c] = [pc |-> pc, org |-> o, name |-> d, id |-> proof[<<o, d>>].id]]
CallEnd(c) == dcall' = [dcall EXCEPT ![c] = NoDomainCall]

DomainTypeOK ==
  /\ proof \in [Owned -> [id : 0..MaxProofs, there : BOOLEAN, verified : BOOLEAN]]
  /\ autoJoin \in [Workspaces -> Names \cup {NoName}]
  /\ txt \subseteq Owned \X (1..MaxProofs)
  /\ dcall \in [DomainCalls -> [pc : {"idle", "create", "stamp", "delete", "set"},
       org : Workspaces \cup {NoWorkspace}, name : Names \cup {NoName},
       id : 0..MaxProofs]]
  /\ overtaken \subseteq Workspaces

\* A row's id is the number of times its domain has been added.
DomainInit ==
  /\ proof = [w \in Owned |-> [id |-> 0, there |-> FALSE, verified |-> FALSE]]
  /\ autoJoin = [o \in Workspaces |-> NoName]
  /\ txt = {} /\ overtaken = {}
  /\ dcall = [c \in DomainCalls |-> NoDomainCall]

-----------------------------------------------------------------------------
addDomain(c) ==
  /\ dcall[c].pc = "idle"
  /\ \E o \in Workspaces, d \in Names \ PublicNames :
       ~proof[<<o, d>>].there /\ CallStep(c, "create", o, d)
  /\ UNCHANGED <<proof, autoJoin, txt, overtaken>>

createProof(c) ==
  /\ dcall[c].pc = "create"
  /\ LET row == proof[Target(c)] IN
     /\ ~row.there /\ row.id < MaxProofs
     /\ proof' = [proof EXCEPT ![Target(c)] =
          [id |-> row.id + 1, there |-> TRUE, verified |-> FALSE]]
  /\ CallEnd(c)
  /\ UNCHANGED <<autoJoin, txt, overtaken>>

\* The owner of the zone publishes the token he was shown.
publish ==
  /\ \E w \in Owned : proof[w].there /\ txt' = txt \cup {<<w, proof[w].id>>}
  /\ UNCHANGED <<proof, autoJoin, dcall, overtaken>>

\* verify: the row by its id, then the TXT answer.
verify(c) ==
  /\ dcall[c].pc = "idle"
  /\ \E o \in Workspaces, d \in Names :
       /\ proof[<<o, d>>].there /\ ~proof[<<o, d>>].verified
       /\ <<<<o, d>>, proof[<<o, d>>].id>> \in txt
       /\ CallStep(c, "stamp", o, d)
  /\ UNCHANGED <<proof, autoJoin, txt, overtaken>>

\* Plausible bug: the row is found by organisation and domain, not by its id.
verifyWrite_bug(c) ==
  /\ dcall[c].pc = "stamp"
  /\ proof[Target(c)].there
  /\ proof' = [proof EXCEPT ![Target(c)].verified = TRUE]
  /\ CallEnd(c)
  /\ UNCHANGED <<autoJoin, txt, overtaken>>

verifyWrite(c) ==
  /\ dcall[c].pc = "stamp"
  /\ proof[Target(c)].there /\ proof[Target(c)].id = dcall[c].id
  /\ proof' = [proof EXCEPT ![Target(c)] =
       [id |-> dcall[c].id, there |-> TRUE, verified |-> TRUE]]
  /\ CallEnd(c)
  /\ UNCHANGED <<autoJoin, txt, overtaken>>

removeDomain(c) ==
  /\ dcall[c].pc = "idle"
  /\ \E o \in Workspaces, d \in Names : proof[<<o, d>>].there /\ CallStep(c, "delete", o, d)
  /\ UNCHANGED <<proof, autoJoin, txt, overtaken>>

\* Organisations with an update of this domain between its check and its write.
Checked(w) == {o \in {w[1]} : \E c \in DomainCalls : dcall[c].pc = "set" /\ Target(c) = w}

\* One transaction: audit, switch off what relies on the proof, delete by id.
deleteProof(c) ==
  /\ dcall[c].pc = "delete"
  /\ proof[Target(c)].there /\ proof[Target(c)].id = dcall[c].id
  /\ proof' = [proof EXCEPT ![Target(c)] =
       [id |-> dcall[c].id, there |-> FALSE, verified |-> FALSE]]
  /\ autoJoin' = [autoJoin EXCEPT ![dcall[c].org] =
       IF @ = dcall[c].name THEN NoName ELSE @]
  /\ overtaken' = overtaken \cup Checked(Target(c))
  /\ CallEnd(c)
  /\ UNCHANGED txt

\* OrgsService.update: the proof is checked, then who else uses the domain.
isVerified(c) ==
  /\ dcall[c].pc = "idle"
  /\ \E o \in Workspaces, d \in Names :
       /\ proof[<<o, d>>].there /\ proof[<<o, d>>].verified
       /\ \A p \in Workspaces \ {o} : autoJoin[p] # d
       /\ CallStep(c, "set", o, d)
  /\ UNCHANGED <<proof, autoJoin, txt, overtaken>>

updateWrite(c) ==
  /\ dcall[c].pc = "set"
  /\ \A p \in Workspaces \ {dcall[c].org} : autoJoin[p] # dcall[c].name
  /\ autoJoin' = [autoJoin EXCEPT ![dcall[c].org] = dcall[c].name]
  /\ CallEnd(c)
  /\ UNCHANGED <<proof, txt, overtaken>>

switchOff ==
  /\ \E o \in Workspaces :
       autoJoin[o] # NoName /\ autoJoin' = [autoJoin EXCEPT ![o] = NoName]
  /\ UNCHANGED <<proof, txt, dcall, overtaken>>

\* A refused or thrown request, at any of its steps.
domainRefused(c) ==
  /\ dcall[c].pc # "idle"
  /\ CallEnd(c)
  /\ UNCHANGED <<proof, autoJoin, txt, overtaken>>

DomainNext ==
  \/ \E c \in DomainCalls :
       \/ addDomain(c) \/ createProof(c) \/ verify(c) \/ verifyWrite(c)
       \/ removeDomain(c) \/ deleteProof(c) \/ isVerified(c) \/ updateWrite(c)
       \/ domainRefused(c)
  \/ publish \/ switchOff

DomainSpec == DomainInit /\ [][DomainNext]_domainVars

-----------------------------------------------------------------------------
\* Whoever is stamped as verified has published the token of that very row,
\* also when the domain was removed and added again meanwhile
\* (domains.service.ts:78).
StampedWasPublished ==
  \A w \in Owned : proof[w].verified => proof[w].there /\ <<w, proof[w].id>> \in txt

\* An organisation whose auto-join domain is not proven had its proof removed
\* while an update was between check and write: there is no other way
\* (orgs.service.ts:77, domains.service.ts:118).
UnprovenWasOvertaken ==
  \A o \in Workspaces : autoJoin[o] # NoName /\ ~proof[<<o, autoJoin[o]>>].verified
    => o \in overtaken

\* What is verified was published, and auto-join is proven or was overtaken
\* (domains.service.ts:78, orgs.service.ts:77): both halves of a domain's proof.
ProofsKept == StampedWasPublished /\ UnprovenWasOvertaken

\* "Org.autoJoinDomain can only ever point at a DNS-verified domain"
\* (auth.service.ts:117): not when remove and update overlap.
AutoJoinProven ==
  \A o \in Workspaces : autoJoin[o] # NoName => proof[<<o, autoJoin[o]>>].verified
=============================================================================
