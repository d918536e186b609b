---------------------------- MODULE TeamsProofs ----------------------------
(***************************************************************************)
(* An organisation has no member but its founder, for any number of        *)
(* people, organisations and requests and on either store.  The invariant  *)
(* says that an id is of one organisation, that every membership is its    *)
(* founder's, and that in memory a request that still has to make the      *)
(* founder a member is the only one for an organisation nobody knows.      *)
(***************************************************************************)
EXTENDS Teams, TLAPS

IsMember(o) == \E m \in memberships : m.org = o[1] /\ m.user = o[2]

UniqueOrgs == \A o, p \in orgs : o[1] = p[1] => o = p

FoundersOnly ==
  /\ \A m \in memberships : <<m.org, m.user>> \in orgs
  /\ removed \subseteq orgs /\ \A o \in removed : o[1] \in known

Until == \A o \in orgs :
  /\ o \notin removed => (IsMember(o) <=> OnPostgres \/ o[1] \in known)
  /\ InMemory /\ o \in removed => ~IsMember(o)

Unanswered == InMemory =>
  \A f \in Foundations : \A o \in founding[f] :
    o[1] \notin known /\ \A g \in Foundations : o \in founding[g] => f = g

TeamsInv == TeamsTypeOK /\ UniqueOrgs /\ FoundersOnly /\ Until /\ Unanswered

-----------------------------------------------------------------------------
LEMMA OwnersRow ==
  ASSUME NEW org \in OrgIDs, NEW user \in People, "owner" \in Roles
  PROVE /\ Owner(org, user) \in Membership
        /\ Owner(org, user).org = org /\ Owner(org, user).user = user
BY DEF Owner, Membership

\* A new organisation, with its founder in PostgreSQL and without in memory.
LEMMA Founded ==
  ASSUME TeamsInv, UNCHANGED <<backend, invites, known, removed>>,
         NEW org \in NewOrgs, NEW user \in People, StoreOrganization(org, user),
         founding' \in [Foundations -> SUBSET orgs'],
         \A g \in Foundations : founding'[g] \in {founding[g], {<<org, user>>}},
         \A f, g \in Foundations :
           <<org, user>> \in founding'[f] /\ <<org, user>> \in founding'[g] => f = g
  PROVE TeamsInv'
<1> DEFINE new == <<org, user>>
<1>1. /\ org \in OrgIDs /\ \A o \in orgs : o[1] # org
      /\ new \notin orgs /\ org \notin known /\ new \notin removed
  BY DEF NewOrgs, TeamsInv, TeamsTypeOK, FoundersOnly
<1>2. orgs' = orgs \cup {new} /\ orgs \subseteq OrgIDs \X People
  BY DEF StoreOrganization, TeamsInv, TeamsTypeOK
<1>3. memberships' = IF OnPostgres THEN memberships \cup {Owner(org, user)} ELSE memberships
  BY DEF StoreOrganization
<1>4. \A m \in memberships : m.org # org
  BY <1>1 DEF TeamsInv, FoundersOnly
<1>5. TeamsTypeOK'
  BY <1>1, <1>2, <1>3, OwnersRow, TeamsAssumption DEF TeamsInv, TeamsTypeOK
<1>6. UniqueOrgs'
  BY <1>1, <1>2 DEF TeamsInv, UniqueOrgs
<1>7. FoundersOnly'
  BY <1>1, <1>2, <1>3, OwnersRow, TeamsAssumption DEF TeamsInv, FoundersOnly
<1>8. \A o \in orgs : IsMember(o)' <=> IsMember(o)
  BY <1>1, <1>3, OwnersRow, TeamsAssumption DEF IsMember
<1>9. IsMember(new)' <=> OnPostgres
  BY <1>1, <1>3, <1>4, OwnersRow, TeamsAssumption DEF IsMember
<1>10. Until'
  BY <1>1, <1>2, <1>8, <1>9 DEF TeamsInv, Until, OnPostgres, InMemory
<1>11. Unanswered'
  <2> SUFFICES ASSUME InMemory, NEW f \in Foundations, NEW o \in founding'[f],
                      NEW g \in Foundations
               PROVE o[1] \notin known /\ (o \in founding'[g] => f = g)
    BY DEF Unanswered, InMemory
  <2>1. CASE o = new
    BY <1>1, <2>1
  <2>2. CASE o # new
    BY <2>2 DEF TeamsInv, Unanswered
  <2> QED BY <2>1, <2>2
<1> QED BY <1>5, <1>6, <1>7, <1>10, <1>11 DEF TeamsInv

LEMMA CreateInv ==
  ASSUME TeamsInv, UNCHANGED backend, NEW user \in People,
         (\E f \in Foundations : CreateOrganization(f, user)) \/ CreateUnheard(user)
  PROVE TeamsInv'
<1>1. ASSUME NEW f \in Foundations, CreateOrganization(f, user) PROVE TeamsInv'
  <2>1. PICK org \in NewOrgs :
          /\ StoreOrganization(org, user)
          /\ founding' = [founding EXCEPT ![f] = {<<org, user>>}]
    BY <1>1 DEF CreateOrganization
  <2>2. founding \in [Foundations -> SUBSET orgs] /\ orgs' = orgs \cup {<<org, user>>}
        /\ <<org, user>> \notin orgs
    BY <2>1 DEF TeamsInv, TeamsTypeOK, StoreOrganization, NewOrgs
  <2>3. \A g \in Foundations : founding'[g] = IF g = f THEN {<<org, user>>} ELSE founding[g]
    BY <2>1, <2>2
  <2>4. founding' \in [Foundations -> SUBSET orgs']
    BY <2>1, <2>2
  <2> QED BY <1>1, <2>1, <2>2, <2>3, <2>4, Founded DEF CreateOrganization
<1>2. CASE CreateUnheard(user)
  <2>1. PICK org \in NewOrgs : StoreOrganization(org, user)
    BY <1>2 DEF CreateUnheard
  <2>2. founding \in [Foundations -> SUBSET orgs] /\ orgs' = orgs \cup {<<org, user>>}
        /\ <<org, user>> \notin orgs
    BY <2>1 DEF TeamsInv, TeamsTypeOK, StoreOrganization, NewOrgs
  <2> QED BY <1>2, <2>1, <2>2, Founded DEF CreateUnheard
<1> QED BY <1>1, <1>2

\* The second call of a creation, which in memory is the only one that is
\* left for this organisation, and of whose id nobody was told.
LEMMA FoundersInv ==
  ASSUME TeamsInv, UNCHANGED backend, NEW f \in Foundations, FoundersMembership(f)
  PROVE TeamsInv'
<1>1. PICK o \in founding[f] :
        /\ memberships' = (memberships \ MembershipOf(o[1], o[2])) \cup {Owner(o[1], o[2])}
        /\ known' = known \cup {o[1]}
  BY DEF FoundersMembership
<1>2. /\ o \in orgs /\ orgs \subseteq OrgIDs \X People /\ o[1] \in OrgIDs /\ o[2] \in People
      /\ o = <<o[1], o[2]>>
  BY <1>1 DEF TeamsInv, TeamsTypeOK
<1>3. /\ founding' = [founding EXCEPT ![f] = {}] /\ founding \in [Foundations -> SUBSET orgs]
      /\ UNCHANGED <<orgs, invites, removed>>
  BY DEF FoundersMembership, TeamsInv, TeamsTypeOK
<1>4. \A g \in Foundations : founding'[g] = IF g = f THEN {} ELSE founding[g]
  BY <1>3
<1>5. TeamsTypeOK'
  BY <1>1, <1>2, <1>3, OwnersRow, TeamsAssumption DEF TeamsInv, TeamsTypeOK
<1>6. FoundersOnly'
  BY <1>1, <1>2, <1>3, OwnersRow, TeamsAssumption DEF TeamsInv, FoundersOnly
<1>7. IsMember(o)'
  BY <1>1, <1>2, OwnersRow, TeamsAssumption DEF IsMember
<1>8. ASSUME NEW p \in orgs, p # o
      PROVE /\ IsMember(p)' <=> IsMember(p)
            /\ p[1] \in known' <=> p[1] \in known
  <2>1. p[1] # o[1]
    BY <1>2, <1>8 DEF TeamsInv, UniqueOrgs
  <2> QED BY <1>1, <1>2, <2>1, OwnersRow, TeamsAssumption DEF IsMember, MembershipOf
<1>9. InMemory => o[1] \notin known /\ o \notin removed
  BY <1>1 DEF TeamsInv, Unanswered, FoundersOnly
<1>10. Until'
  <2> SUFFICES ASSUME NEW p \in orgs
               PROVE /\ p \notin removed => (IsMember(p)' <=> OnPostgres \/ p[1] \in known')
                     /\ InMemory /\ p \in removed => ~IsMember(p)'
    BY <1>3 DEF Until, OnPostgres, InMemory
  <2>1. CASE p = o
    BY <1>1, <1>7, <1>9, <2>1
  <2>2. CASE p # o
    BY <1>8, <2>2 DEF TeamsInv, Until
  <2> QED BY <2>1, <2>2
<1>11. Unanswered'
  <2> SUFFICES ASSUME InMemory, NEW g \in Foundations, NEW p \in founding'[g], NEW h \in Foundations
               PROVE p[1] \notin known' /\ (p \in founding'[h] => g = h)
    BY DEF Unanswered, InMemory
  <2>1. g # f /\ p \in founding[g] /\ p \in orgs
    BY <1>3, <1>4
  <2>2. p # o
    BY <1>1, <2>1 DEF TeamsInv, Unanswered
  <2>3. p[1] \notin known
    BY <2>1 DEF TeamsInv, Unanswered
  <2>4. p \in founding'[h] => g = h
    BY <1>4, <2>1 DEF TeamsInv, Unanswered
  <2> QED BY <1>8, <2>1, <2>2, <2>3, <2>4
<1> QED BY <1>3, <1>5, <1>6, <1>10, <1>11 DEF TeamsInv, UniqueOrgs

\* Ids become known, in PostgreSQL or of organisations that have members.
LEMMA KnownInv ==
  ASSUME TeamsInv, UNCHANGED <<backend, orgs, memberships, invites, removed>>,
         known \subseteq known', known' \subseteq {o[1] : o \in orgs}, InMemory => known' = known,
         founding' \in [Foundations -> SUBSET orgs],
         \A g \in Foundations : founding'[g] \subseteq founding[g]
  PROVE TeamsInv'
<1>1. TeamsTypeOK' /\ UniqueOrgs' /\ FoundersOnly'
  BY DEF TeamsInv, TeamsTypeOK, UniqueOrgs, FoundersOnly
<1>2. \A o : IsMember(o)' <=> IsMember(o)
  BY DEF IsMember
<1>3. CASE InMemory
  <2>1. Until'
    BY <1>2, <1>3 DEF TeamsInv, Until, OnPostgres, InMemory
  <2>2. Unanswered'
    BY <1>3 DEF TeamsInv, Unanswered, InMemory
  <2> QED BY <1>1, <2>1, <2>2 DEF TeamsInv
<1>4. CASE OnPostgres
  <2>1. ~InMemory /\ ~InMemory' /\ OnPostgres'
    BY <1>4 DEF OnPostgres, InMemory
  <2>2. Until'
    BY <1>2, <1>4, <2>1 DEF TeamsInv, Until
  <2> QED BY <1>1, <2>1, <2>2 DEF TeamsInv, Unanswered
<1> QED BY <1>3, <1>4 DEF TeamsInv, TeamsTypeOK, Backends, InMemory, OnPostgres

LEMMA AnswersInv ==
  ASSUME TeamsInv, UNCHANGED backend,
         (\E f \in Foundations : MembershipFails(f)) \/ (\E u \in People : ListOrganizations(u))
  PROVE TeamsInv'
<1>0. founding \in [Foundations -> SUBSET orgs] /\ known \subseteq {o[1] : o \in orgs}
  BY DEF TeamsInv, TeamsTypeOK
<1>1. ASSUME NEW f \in Foundations, MembershipFails(f) PROVE TeamsInv'
  <2>1. founding' = [founding EXCEPT ![f] = {}] /\ known' = known \cup {o[1] : o \in founding[f]}
        /\ ~InMemory /\ UNCHANGED <<orgs, memberships, invites, removed>>
    BY <1>1 DEF MembershipFails, OnPostgres, InMemory
  <2>2. \A g \in Foundations : founding'[g] \subseteq founding[g]
    BY <1>0, <2>1
  <2>3. founding' \in [Foundations -> SUBSET orgs]
    BY <1>0, <2>1
  <2>4. founding[f] \subseteq orgs
    BY <1>0
  <2> QED BY <1>0, <2>1, <2>2, <2>3, <2>4, KnownInv
<1>2. ASSUME NEW u \in People, ListOrganizations(u) PROVE TeamsInv'
  <2> DEFINE own == {p \in orgs : MembershipOf(p[1], u) # {}}
  <2>1. known' = known \cup {o[1] : o \in own}
        /\ UNCHANGED <<orgs, memberships, invites, founding, removed>>
    BY <1>2 DEF ListOrganizations
  <2>2. ASSUME InMemory, NEW p \in own PROVE p[1] \in known
    <3>1. PICK m \in memberships : m.org = p[1] /\ m.user = u
      BY <2>2 DEF MembershipOf
    <3>2. <<m.org, m.user>> \in orgs
      BY DEF TeamsInv, FoundersOnly
    <3>3. <<m.org, m.user>> = p
      BY <3>1, <3>2 DEF TeamsInv, UniqueOrgs
    <3>4. IsMember(p)
      BY <3>1, <3>3 DEF IsMember
    <3> QED BY <2>2, <3>4 DEF TeamsInv, Until, FoundersOnly, InMemory, OnPostgres
  <2>3. InMemory => known' = known
    BY <2>1, <2>2
  <2>4. known' \subseteq {o[1] : o \in orgs}
    BY <1>0, <2>1
  <2> QED BY <1>0, <2>1, <2>3, <2>4, KnownInv
<1> QED BY <1>1, <1>2

LEMMA InviteInv ==
  ASSUME TeamsInv, UNCHANGED backend, NEW org \in OrgIDs, NEW role \in Roles, InviteMember(org, role)
  PROVE TeamsInv'
BY DEF TeamsInv, TeamsTypeOK, UniqueOrgs, FoundersOnly, Until, Unanswered, IsMember, InviteMember,
       InMemory, OnPostgres

LEMMA RoleInv ==
  ASSUME TeamsInv, UNCHANGED backend, NEW org \in OrgIDs, NEW user \in People, NEW role \in Roles,
         UpdateMemberRole(org, user, role)
  PROVE TeamsInv'
<1> DEFINE row == [org |-> org, user |-> user, role |-> role]
<1>1. /\ memberships' = (memberships \ MembershipOf(org, user)) \cup {row}
      /\ UNCHANGED <<orgs, invites, founding, known, removed>>
  BY DEF UpdateMemberRole
<1>2. row \in Membership /\ row.org = org /\ row.user = user
  BY DEF Membership
<1>3. \E m \in memberships : m.org = org /\ m.user = user
  BY DEF UpdateMemberRole, MembershipOf
<1>4. \A o : IsMember(o)' <=> IsMember(o)
  BY <1>1, <1>2, <1>3 DEF IsMember, MembershipOf
<1>5. TeamsTypeOK' /\ UniqueOrgs'
  BY <1>1, <1>2 DEF TeamsInv, TeamsTypeOK, UniqueOrgs
<1>6. FoundersOnly'
  BY <1>1, <1>2, <1>3 DEF TeamsInv, FoundersOnly
<1>7. Until' /\ Unanswered'
  BY <1>1, <1>4 DEF TeamsInv, Until, Unanswered, InMemory, OnPostgres
<1> QED BY <1>5, <1>6, <1>7 DEF TeamsInv

LEMMA RemoveInv ==
  ASSUME TeamsInv, UNCHANGED backend, NEW org \in OrgIDs, NEW user \in People, RemoveMember(org, user)
  PROVE TeamsInv'
<1> DEFINE gone == <<org, user>>
<1>1. /\ memberships' = memberships \ MembershipOf(org, user)
      /\ removed' = removed \cup {gone} /\ org \in known
      /\ UNCHANGED <<orgs, invites, founding, known>>
  BY DEF RemoveMember
<1>2. gone \in orgs
  BY DEF RemoveMember, MembershipOf, TeamsInv, FoundersOnly
<1>3. TeamsTypeOK' /\ UniqueOrgs' /\ FoundersOnly'
  BY <1>1, <1>2 DEF TeamsInv, TeamsTypeOK, UniqueOrgs, FoundersOnly
<1>4. ~IsMember(gone)'
  BY <1>1 DEF IsMember, MembershipOf
<1>5. ASSUME NEW o \in orgs, o # gone PROVE IsMember(o)' <=> IsMember(o)
  <2>1. o[1] # org
    BY <1>2, <1>5 DEF TeamsInv, UniqueOrgs
  <2> QED BY <1>1, <2>1 DEF IsMember, MembershipOf
<1>6. Until'
  BY <1>1, <1>2, <1>4, <1>5 DEF TeamsInv, Until, InMemory, OnPostgres
<1>7. Unanswered'
  BY <1>1 DEF TeamsInv, Unanswered, InMemory
<1> QED BY <1>3, <1>6, <1>7 DEF TeamsInv

LEMMA TeamsNextInv == TeamsInv /\ [TeamsNext]_teamsVars => TeamsInv'
<1> SUFFICES ASSUME TeamsInv, [TeamsNext]_teamsVars PROVE TeamsInv'
  OBVIOUS
<1>1. CASE UNCHANGED teamsVars
  BY <1>1 DEF TeamsInv, TeamsTypeOK, UniqueOrgs, FoundersOnly, Until, Unanswered, IsMember,
              InMemory, OnPostgres, teamsVars
<1>2. CASE TeamsNext
  BY <1>2, CreateInv, FoundersInv, AnswersInv, InviteInv, RoleInv, RemoveInv DEF TeamsNext
<1> QED BY <1>1, <1>2

-----------------------------------------------------------------------------
(***************************************************************************)
(* An organisation has no member but its founder, and has its founder      *)
(* until somebody removes it (createOrganization and both stores): by the  *)
(* invariant every membership is a founder's, and comes with the row of    *)
(* the organisation in PostgreSQL and with the answer in memory.           *)
(***************************************************************************)
THEOREM FoundersStay == TeamsSpec => []FoundersOrNobody
<1>1. TeamsInit => TeamsInv
  BY DEF TeamsInit, OpenStore, TeamsInv, TeamsTypeOK, UniqueOrgs, FoundersOnly, Until, Unanswered
<1>2. TeamsInv => FoundersOrNobody
  <2> SUFFICES ASSUME TeamsInv, NEW o \in orgs
               PROVE /\ Members(o[1]) \subseteq {o[2]}
                     /\ o \notin removed => (o[2] \in Members(o[1]) <=> OnPostgres \/ o[1] \in known)
                     /\ InMemory /\ o \in removed => Members(o[1]) = {}
    BY DEF FoundersOrNobody
  <2>1. Members(o[1]) \subseteq {o[2]}
    <3> SUFFICES ASSUME NEW m \in memberships, m.org = o[1] PROVE m.user = o[2]
      BY DEF Members
    <3>1. <<m.org, m.user>> \in orgs
      BY DEF TeamsInv, FoundersOnly
    <3>2. <<m.org, m.user>> = o
      BY <3>1 DEF TeamsInv, UniqueOrgs
    <3> QED BY <3>2
  <2>2. o[2] \in Members(o[1]) <=> IsMember(o)
    BY DEF Members, IsMember
  <2> QED BY <2>1, <2>2 DEF TeamsInv, Until
<1> QED BY <1>1, <1>2, TeamsNextInv, PTL DEF TeamsSpec
=============================================================================
