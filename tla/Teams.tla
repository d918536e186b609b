------------------------------- MODULE Teams -------------------------------
(***************************************************************************)
(* Organisations and their members: created in two calls of the store,     *)
(* listed, given other roles and removed.                                  *)
(*                                                                         *)
(* No handler compares the caller with the members, so an action has no    *)
(* caller.  An invitation is stored and never read: AcceptInvite has no    *)
(* caller.  Calls of a store that fail change nothing and are not told of, *)
(* except where there is an action for it.                                 *)
(***************************************************************************)
EXTENDS Backend, Integers

CONSTANTS
  People,      \* accounts; PostgreSQL has a row of users for each
  OrgIDs,      \* organisation ids
  Roles,       \* texts that a client may give for a role
  Foundations  \* bound of the model: createOrganization requests in flight

\* A client may ask for the role that a founder has.
ASSUME TeamsAssumption == "owner" \in Roles

VARIABLES
  orgs,         \* the organisations: pairs of an id and its owner
  memberships,  \* the memberships: [org, user, role]
  invites,      \* the invitations: pairs of an organisation and a role
  founding,     \* founding[f]: the pair a request has made its first call for
  known,        \* history: ids that an answer has told to clients
  removed       \* history: memberships that were removed, without the role

teamsVars == <<backend, orgs, memberships, invites, founding, known, removed>>

Membership == [org: OrgIDs, user: People, role: Roles]

\* The roles that an invitation may offer: all but the owner's.
InviteRoles == {"administrator", "operator", "viewer", "guest"}

\* The roles that PostgreSQL accepts: a CHECK of memberships.
CheckedRoles == InviteRoles \cup {"owner"}

TeamsTypeOK ==
  /\ backend \in Backends
  /\ orgs \subseteq OrgIDs \X People
  /\ memberships \subseteq Membership
  /\ invites \subseteq OrgIDs \X InviteRoles
  /\ founding \in [Foundations -> SUBSET orgs]
  /\ known \subseteq {o[1] : o \in orgs}
  /\ removed \subseteq OrgIDs \X People

TeamsInit ==
  /\ OpenStore
  /\ orgs = {} /\ memberships = {} /\ invites = {}
  /\ founding = [f \in Foundations |-> {}]
  /\ known = {} /\ removed = {}

-----------------------------------------------------------------------------
MembershipOf(org, user) == {m \in memberships : m.org = org /\ m.user = user}

Owner(org, user) == [org |-> org, user |-> user, role |-> "owner"]

\* Mutant: the store's own member is the only one.
OrgOnly(org, user) ==
  /\ orgs' = orgs \cup {<<org, user>>}
  /\ UNCHANGED memberships

\* The store's CreateOrganization, where it succeeds.  In PostgreSQL the
\* transaction makes the owner a member; MemoryStore does not.
StoreOrganization(org, user) ==
  /\ orgs' = orgs \cup {<<org, user>>}
  /\ memberships' = memberships \cup IF OnPostgres THEN {Owner(org, user)} ELSE {}

NewOrgs == {org \in OrgIDs : \A o \in orgs : o[1] # org}

\* POST /v1/organizations, its first call: randomID never repeats an id.
CreateOrganization(f, user) ==
  /\ founding[f] = {}
  /\ \E org \in NewOrgs :
       /\ StoreOrganization(org, user)
       /\ founding' = [founding EXCEPT ![f] = {<<org, user>>}]
  /\ UNCHANGED <<invites, known, removed>>

\* The commit took effect and its answer was lost: the next attempt meets its
\* own row and gives up, or there is none; the client is told of an error.
CreateUnheard(user) ==
  /\ OnPostgres
  /\ \E org \in NewOrgs : StoreOrganization(org, user)
  /\ UNCHANGED <<invites, founding, known, removed>>

\* The second call, CreateMembership, and the answer with the id.
FoundersMembership(f) ==
  /\ founding[f] # {}
  /\ \A o \in founding[f] :
       /\ memberships' = (memberships \ MembershipOf(o[1], o[2])) \cup {Owner(o[1], o[2])}
       /\ known' = known \cup {o[1]}
  /\ founding' = [founding EXCEPT ![f] = {}]
  /\ UNCHANGED <<orgs, invites, removed>>

\* It fails, or the client has gone; the error is ignored.
MembershipFails(f) ==
  /\ OnPostgres /\ founding[f] # {}
  /\ known' = known \cup {o[1] : o \in founding[f]}
  /\ founding' = [founding EXCEPT ![f] = {}]
  /\ UNCHANGED <<orgs, memberships, invites, removed>>

\* GET /v1/organizations: a member is told of an organisation before the
\* request that creates it is.
ListOrganizations(user) ==
  /\ known' = known \cup {o[1] : o \in {p \in orgs : MembershipOf(p[1], user) # {}}}
  /\ UNCHANGED <<orgs, memberships, invites, founding, removed>>

\* POST /v1/organizations/{id}/members: in memory the organisation need not
\* exist.
InviteMember(org, role) ==
  /\ role \in InviteRoles
  /\ OnPostgres => \E o \in orgs : o[1] = org
  /\ invites' = invites \cup {<<org, role>>}
  /\ UNCHANGED <<orgs, memberships, founding, known, removed>>

\* PATCH /v1/organizations/{id}/members/{userId}: in memory any text is a role.
UpdateMemberRole(org, user, role) ==
  /\ OnPostgres => role \in CheckedRoles
  /\ org \in known /\ MembershipOf(org, user) # {}
  /\ memberships' = (memberships \ MembershipOf(org, user))
       \cup {[org |-> org, user |-> user, role |-> role]}
  /\ UNCHANGED <<orgs, invites, founding, known, removed>>

\* DELETE /v1/organizations/{id}/members/{userId}.
RemoveMember(org, user) ==
  /\ org \in known /\ MembershipOf(org, user) # {}
  /\ memberships' = memberships \ MembershipOf(org, user)
  /\ removed' = removed \cup {<<org, user>>}
  /\ UNCHANGED <<orgs, invites, founding, known>>

TeamsNext ==
  /\ UNCHANGED backend
  /\ \/ \E f \in Foundations :
          \/ FoundersMembership(f) \/ MembershipFails(f)
          \/ \E u \in People : CreateOrganization(f, u)
     \/ \E u \in People : CreateUnheard(u) \/ ListOrganizations(u)
     \/ \E o \in OrgIDs : \E r \in Roles : InviteMember(o, r)
     \/ \E o \in OrgIDs, u \in People :
          RemoveMember(o, u) \/ \E r \in Roles : UpdateMemberRole(o, u, r)

TeamsSpec == TeamsInit /\ [][TeamsNext]_teamsVars

-----------------------------------------------------------------------------
Members(org) == {m.user : m \in {n \in memberships : n.org = org}}

(***************************************************************************)
(* An organisation has no member but its founder, who is one until removed *)
(* by somebody: in PostgreSQL from the moment it exists, also when its     *)
(* creation was answered with an error; in memory once it was answered.    *)
(* In memory nothing, however late, brings the founder back, and then the  *)
(* organisation has no members for ever.  The calls of a creation may be   *)
(* interleaved with everything (createOrganization, updateMemberRole,      *)
(* removeMember and their calls of both stores).                           *)
(***************************************************************************)
FoundersOrNobody == \A o \in orgs :
  /\ Members(o[1]) \subseteq {o[2]}
  /\ o \notin removed => (o[2] \in Members(o[1]) <=> OnPostgres \/ o[1] \in known)
  /\ InMemory /\ o \in removed => Members(o[1]) = {}
=============================================================================
