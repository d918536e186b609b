---------------------------- MODULE TokensProofs ----------------------------
(***************************************************************************)
(* Proofs about Tokens, for every value of its constants.                  *)
(***************************************************************************)
EXTENDS Tokens, TLAPS

(***************************************************************************)
(* Whoever acts is an account: the user of a login that found one, of an   *)
(* authorised request, and of a refresh token that a client received.      *)
(***************************************************************************)
ActorsExist ==
  /\ \A r \in Requests : jobs[r] # Nil /\ jobs[r].kind \in {"login", "call"} =>
       (jobs[r].user # Nil => accounts[jobs[r].user] # Nil)
  /\ \A r \in Requests : jobs[r] # Nil /\ jobs[r].kind = "call" => jobs[r].user # Nil
  /\ \A t \in held : Entry(t) /\ accounts[refresh[t].user] # Nil

TokenInv ==
  TypeOK /\ EmailIndex /\ ActorsExist /\ FamilyIsALine /\ LiveFamiliesAreCurrent

-----------------------------------------------------------------------------
\* A token issued now is an entry of the map.
LEMMA NewTokenType ==
  ASSUME TypeOK, NEW user \in Users, NEW family \in TokenIDs, NEW version \in Versions
  PROVE  LET n == NewToken(user, family, version)
         IN /\ n \in Refresh /\ n.user = user /\ n.family = family
            /\ n.born = version /\ ~n.used
BY TokensAssumption DEF NewToken, Refresh, TypeOK

\* What issue leaves of the tokens that clients hold.
LEMMA GrantType ==
  ASSUME TypeOK, NEW t \in TokenIDs, NEW user \in Users, NEW version \in Versions,
         NEW delivered \in BOOLEAN, Grant(t, user, version, delivered)
  PROVE  /\ held' \in SUBSET TokenIDs /\ held' \subseteq held \cup {t}
         /\ access' \in [Users -> [Versions -> 0 .. MaxNow + AccessTTL]]
<1>1. now + AccessTTL \in 0 .. MaxNow + AccessTTL
  BY TokensAssumption DEF TypeOK
<1>2. [access EXCEPT ![user][version] = now + AccessTTL]
        \in [Users -> [Versions -> 0 .. MaxNow + AccessTTL]]
  BY <1>1 DEF TypeOK
<1> QED BY <1>2 DEF Grant, TypeOK

(***************************************************************************)
(* What the steps that issue a token have in common: a new id t enters the *)
(* map, in a family of its own or in place of the unused token of its      *)
(* family, for an account at its version.                                  *)
(***************************************************************************)
Issued(t, token) ==
  /\ t \in NewTokens
  /\ token \in Refresh /\ ~token.used
  /\ \/ token.family = t /\ refresh' = [refresh EXCEPT ![t] = token]
     \/ \E u \in TokenIDs :
          /\ Unused(u) /\ token.family = refresh[u].family
          /\ token.user = refresh[u].user /\ token.born = refresh[u].born
          /\ refresh' = [refresh EXCEPT ![u] = UsedUp(@), ![t] = token]

LEMMA IssuedFamilies ==
  ASSUME TypeOK, FamilyIsALine, NEW t, NEW token, Issued(t, token)
  PROVE  /\ refresh' \in [TokenIDs -> Refresh \cup {Nil}]
         /\ FamilyIsALine'
         /\ refresh'[t] = token
         /\ \A v \in TokenIDs \ {t} :
              /\ Entry(v)' <=> Entry(v)
              /\ Entry(v) => refresh'[v].user = refresh[v].user
              /\ Unused(v)' => Unused(v) /\ refresh'[v] = refresh[v]
<1>1. t \in TokenIDs /\ ~Entry(t) /\ token # Nil
  BY TokensAssumption DEF Issued, NewTokens
<1>2. \A v \in TokenIDs : Entry(v) => refresh[v].family # t
  BY DEF Issued, NewTokens
<1>3. \A v \in TokenIDs : Entry(v) => refresh[v] \in Refresh
  BY DEF TypeOK, Entry
<1>4. CASE token.family = t /\ refresh' = [refresh EXCEPT ![t] = token]
  <2>1. refresh'[t] = token /\ \A v \in TokenIDs \ {t} : refresh'[v] = refresh[v]
    BY <1>1, <1>4 DEF TypeOK
  <2>2. refresh' \in [TokenIDs -> Refresh \cup {Nil}]
    BY <1>4 DEF TypeOK, Issued
  <2>3. FamilyIsALine'
    BY <1>1, <1>2, <1>4, <2>1 DEF FamilyIsALine, Entry, Unused
  <2> QED BY <2>1, <2>2, <2>3 DEF Entry, Unused
<1>5. CASE \E u \in TokenIDs :
             /\ Unused(u) /\ token.family = refresh[u].family
             /\ token.user = refresh[u].user
             /\ refresh' = [refresh EXCEPT ![u] = UsedUp(@), ![t] = token]
  <2> PICK u \in TokenIDs :
             /\ Unused(u) /\ token.family = refresh[u].family
             /\ token.user = refresh[u].user
             /\ refresh' = [refresh EXCEPT ![u] = UsedUp(@), ![t] = token]
    BY <1>5
  <2> DEFINE w == UsedUp(refresh[u])
  <2>1. u # t /\ refresh[u] \in Refresh /\ Entry(u)
    BY <1>1, <1>3 DEF Unused
  <2>2. /\ w \in Refresh /\ w.used /\ w # Nil
        /\ w.user = refresh[u].user /\ w.family = refresh[u].family
    BY <2>1, TokensAssumption DEF Refresh, UsedUp
  <2>3. /\ refresh'[t] = token /\ refresh'[u] = w
        /\ \A v \in TokenIDs \ {t, u} : refresh'[v] = refresh[v]
    BY <1>1, <2>1 DEF TypeOK
  <2>4. refresh' \in [TokenIDs -> Refresh \cup {Nil}]
    BY <2>2 DEF TypeOK, Issued
  <2> HIDE DEF w
  <2>5. ASSUME NEW a \in TokenIDs, NEW b \in TokenIDs,
               Entry(a)', Entry(b)', refresh'[a].family = refresh'[b].family
        PROVE  /\ refresh'[a].user = refresh'[b].user
               /\ Unused(a)' /\ Unused(b)' => a = b
    <3> DEFINE old(v) == IF v = t THEN u ELSE v
    <3>1. ASSUME NEW v \in TokenIDs, Entry(v)'
          PROVE  /\ Entry(old(v)) /\ old(v) \in TokenIDs
                 /\ refresh'[v].family = refresh[old(v)].family
                 /\ refresh'[v].user = refresh[old(v)].user
                 /\ Unused(v)' => v # u /\ (v # t => Unused(v))
      BY <3>1, <2>1, <2>2, <2>3 DEF Entry, Unused
    <3>2. refresh[old(a)].user = refresh[old(b)].user
      BY <3>1, <2>5 DEF FamilyIsALine
    <3>3. ASSUME Unused(a)', Unused(b)', a # t, b # t PROVE a = b
      BY <3>1, <3>3, <2>5 DEF FamilyIsALine
    <3>4. ASSUME NEW v \in TokenIDs, v # t, Unused(v)',
                 refresh'[v].family = token.family
          PROVE  FALSE
      <4>1. Unused(v) /\ v # u /\ refresh[v].family = refresh[u].family
        BY <3>1, <3>4 DEF Unused
      <4> QED BY <4>1, <2>1 DEF FamilyIsALine, Unused
    <3> QED BY <2>3, <2>5, <3>1, <3>2, <3>3, <3>4
  <2>6. FamilyIsALine'
    BY <2>5 DEF FamilyIsALine
  <2> QED BY <2>1, <2>2, <2>3, <2>4, <2>6 DEF Entry, Unused
<1> QED BY <1>4, <1>5 DEF Issued


-----------------------------------------------------------------------------
(***************************************************************************)
(* The map of accounts keeps the accounts there are; one it gains has no   *)
(* refresh token yet.                                                      *)
(***************************************************************************)
AccountsGrow ==
  \A u \in Users : accounts'[u] # accounts[u] =>
    accounts[u] = Nil /\ \A t \in TokenIDs : Entry(t) => refresh[t].user # u

\* A step that issues a token for an account at its version.
LEMMA IssuedInv ==
  ASSUME TokenInv, AccountsGrow, NEW t, NEW token, Issued(t, token),
         accounts'[token.user] # Nil, token.born = accounts'[token.user].version,
         held' \subseteq held \cup {t}
  PROVE  /\ refresh' \in [TokenIDs -> Refresh \cup {Nil}]
         /\ FamilyIsALine' /\ LiveFamiliesAreCurrent'
         /\ \A v \in held' : Entry(v)' /\ accounts'[refresh'[v].user] # Nil
<1> USE DEF TokenInv
<1>1. /\ refresh' \in [TokenIDs -> Refresh \cup {Nil}]
      /\ FamilyIsALine' /\ refresh'[t] = token
      /\ \A v \in TokenIDs \ {t} :
           /\ Entry(v)' <=> Entry(v)
           /\ Entry(v) => refresh'[v].user = refresh[v].user
           /\ Unused(v)' => Unused(v) /\ refresh'[v] = refresh[v]
  BY IssuedFamilies
<1>2. t \in TokenIDs /\ token # Nil
  BY TokensAssumption DEF Issued, NewTokens
<1>3. \A v \in TokenIDs : Entry(v) => accounts'[refresh[v].user] = accounts[refresh[v].user]
  BY DEF AccountsGrow, TypeOK, Entry, Refresh
<1>4. LiveFamiliesAreCurrent'
  BY <1>1, <1>3 DEF LiveFamiliesAreCurrent, Unused
<1>5. \A v \in held' : Entry(v)' /\ accounts'[refresh'[v].user] # Nil
  BY <1>1, <1>2, <1>3 DEF ActorsExist, Entry, TypeOK
<1> QED BY <1>1, <1>4, <1>5

\* The same of NewFamily.
LEMMA NewFamilyInv ==
  ASSUME TokenInv, AccountsGrow, NEW user \in Users, NEW version \in Versions,
         accounts'[user] # Nil, version = accounts'[user].version,
         NEW delivered \in BOOLEAN, NewFamily(user, version, delivered)
  PROVE  /\ refresh' \in [TokenIDs -> Refresh \cup {Nil}]
         /\ held' \in SUBSET TokenIDs
         /\ access' \in [Users -> [Versions -> 0 .. MaxNow + AccessTTL]]
         /\ FamilyIsALine' /\ LiveFamiliesAreCurrent'
         /\ \A v \in held' : Entry(v)' /\ accounts'[refresh'[v].user] # Nil
<1>1. PICK t \in NewTokens :
        /\ refresh' = [refresh EXCEPT ![t] = NewToken(user, t, version)]
        /\ Grant(t, user, version, delivered)
  BY DEF NewFamily
<1> DEFINE token == NewToken(user, t, version)
<1>2. t \in TokenIDs
  BY DEF NewTokens
<1>3. /\ token \in Refresh /\ token.user = user /\ token.family = t
      /\ token.born = version /\ ~token.used
  BY <1>2, NewTokenType DEF TokenInv
<1>4. /\ held' \in SUBSET TokenIDs /\ held' \subseteq held \cup {t}
      /\ access' \in [Users -> [Versions -> 0 .. MaxNow + AccessTTL]]
  BY <1>1, <1>2, GrantType DEF TokenInv
<1>5. Issued(t, token)
  BY <1>1, <1>3 DEF Issued
<1> HIDE DEF token
<1> QED BY <1>3, <1>4, <1>5, IssuedInv

-----------------------------------------------------------------------------
\* After Invalidate no token of the account is unused.
LEMMA InvalidateInv ==
  ASSUME TokenInv, NEW user \in Users, accounts[user] # Nil, Invalidate(user),
         UNCHANGED <<emails, held>>
  PROVE  /\ refresh' \in [TokenIDs -> Refresh \cup {Nil}]
         /\ accounts' \in [Users -> Account \cup {Nil}]
         /\ \A u \in Users : accounts'[u] = Nil <=> accounts[u] = Nil
         /\ FamilyIsALine' /\ LiveFamiliesAreCurrent' /\ EmailIndex'
         /\ \A v \in held' : Entry(v)' /\ accounts'[refresh'[v].user] # Nil
<1> USE DEF TokenInv
<1>1. /\ MovedOn(accounts[user]) \in Account
      /\ MovedOn(accounts[user]).email = accounts[user].email
  <2>1. accounts[user] \in Account
    BY DEF TypeOK
  <2>2. accounts[user].version + 1 \in Versions
    BY <2>1, TokensAssumption DEF Invalidate, Account, Versions
  <2> QED BY <2>1, <2>2 DEF Account, MovedOn
<1>2. /\ accounts' \in [Users -> Account \cup {Nil}]
      /\ accounts'[user] = MovedOn(accounts[user])
      /\ \A u \in Users \ {user} : accounts'[u] = accounts[u]
  BY <1>1 DEF Invalidate, TypeOK
<1>3. \A u \in Users : accounts'[u] = Nil <=> accounts[u] = Nil
  BY <1>1, <1>2, TokensAssumption
<1>4. \A v \in TokenIDs : Entry(v) =>
        /\ refresh[v] \in Refresh
        /\ LET w == UsedUp(refresh[v])
           IN /\ w \in Refresh /\ w # Nil /\ w.used
              /\ w.user = refresh[v].user /\ w.family = refresh[v].family
  BY TokensAssumption DEF Entry, TypeOK, Refresh, UsedUp
<1>5. \A v \in TokenIDs :
        /\ Entry(v)' <=> Entry(v)
        /\ Entry(v) => /\ refresh'[v].user = refresh[v].user
                       /\ refresh'[v].family = refresh[v].family
        /\ Unused(v)' => Unused(v) /\ refresh[v].user # user /\ refresh'[v] = refresh[v]
  BY <1>4 DEF Invalidate, Entry, Unused
<1>6. refresh' \in [TokenIDs -> Refresh \cup {Nil}]
  BY <1>4 DEF Invalidate, TypeOK
<1>7. FamilyIsALine'
  BY <1>5 DEF FamilyIsALine
<1>8. LiveFamiliesAreCurrent'
  BY <1>2, <1>3, <1>4, <1>5 DEF LiveFamiliesAreCurrent, Unused, Refresh
<1>9. EmailIndex'
  BY <1>1, <1>2, <1>3 DEF EmailIndex, TypeOK, Account
<1>10. \A v \in held' : Entry(v)' /\ accounts'[refresh'[v].user] # Nil
  BY <1>3, <1>4, <1>5 DEF ActorsExist, TypeOK, Refresh
<1> QED BY <1>2, <1>3, <1>6, <1>7, <1>8, <1>9, <1>10

-----------------------------------------------------------------------------
LEMMA InitInv == Init => TokenInv
<1> SUFFICES ASSUME Init PROVE TokenInv
  OBVIOUS
<1>1. 0 \in 0 .. MaxNow /\ 0 \in 0 .. MaxNow + AccessTTL
  BY TokensAssumption
<1>2. TypeOK
  BY <1>1 DEF Init, TypeOK
<1>3. EmailIndex /\ ActorsExist /\ FamilyIsALine /\ LiveFamiliesAreCurrent
  BY DEF Init, EmailIndex, ActorsExist, FamilyIsALine, LiveFamiliesAreCurrent, Entry, Unused
<1> QED BY <1>2, <1>3 DEF TokenInv

(***************************************************************************)
(* A step that touches neither accounts nor tokens keeps the invariant if  *)
(* the requests in flight still act for accounts.                          *)
(***************************************************************************)
ActorsOf(newJobs) ==
  \A r \in Requests :
    newJobs[r] # Nil /\ newJobs[r].kind \in {"login", "call"} =>
      /\ newJobs[r].user # Nil => accounts[newJobs[r].user] # Nil
      /\ newJobs[r].kind = "call" => newJobs[r].user # Nil

LEMMA RequestInv ==
  ASSUME TokenInv, jobs' \in [Requests -> Job \cup {Nil}], ActorsOf(jobs'),
         now' \in 0 .. MaxNow, UNCHANGED <<accounts, emails, refresh, access, held>>
  PROVE  TokenInv'
<1>1. TypeOK'
  BY DEF TokenInv, TypeOK
<1>2. ActorsExist'
  BY DEF TokenInv, ActorsExist, ActorsOf, Entry
<1>3. EmailIndex' /\ FamilyIsALine' /\ LiveFamiliesAreCurrent'
  BY DEF TokenInv, EmailIndex, FamilyIsALine, LiveFamiliesAreCurrent, Entry, Unused
<1> QED BY <1>1, <1>2, <1>3 DEF TokenInv

\* One request that starts: the rest is as it was.
LEMMA StartInv ==
  ASSUME TokenInv, NEW r \in Requests, NEW job \in Job,
         job.kind \in {"login", "call"} =>
           /\ job.user # Nil => accounts[job.user] # Nil
           /\ job.kind = "call" => job.user # Nil,
         jobs' = [jobs EXCEPT ![r] = job],
         UNCHANGED <<now, accounts, emails, refresh, access, held>>
  PROVE  TokenInv'
<1>1. jobs' \in [Requests -> Job \cup {Nil}] /\ now' \in 0 .. MaxNow
  BY DEF TokenInv, TypeOK
<1>2. ActorsOf(jobs')
  BY DEF TokenInv, TypeOK, ActorsExist, ActorsOf
<1> QED BY <1>1, <1>2, RequestInv

\* A request that ends leaves no actor behind.
LEMMA DoneActors ==
  ASSUME TokenInv, NEW r \in Requests, Done(r),
         \A u \in Users : accounts[u] # Nil => accounts'[u] # Nil
  PROVE  /\ jobs' \in [Requests -> Job \cup {Nil}] /\ ActorsOf(jobs')
         /\ \A q \in Requests : jobs'[q] # Nil /\ jobs'[q].kind \in {"login", "call"} =>
              (jobs'[q].user # Nil => accounts'[jobs'[q].user] # Nil)
         /\ \A q \in Requests : jobs'[q] # Nil /\ jobs'[q].kind = "call" => jobs'[q].user # Nil
<1>1. jobs' \in [Requests -> Job \cup {Nil}]
  BY DEF TokenInv, TypeOK, Done
<1>2. \A q \in Requests : jobs'[q] # Nil => jobs'[q] = jobs[q] /\ jobs[q] \in Job
  BY DEF TokenInv, TypeOK, Done
<1>3. \A q \in Requests : jobs[q] # Nil /\ jobs[q].kind \in {"login", "call"} =>
        jobs[q].user \in Users \cup {Nil}
  BY DEF TokenInv, TypeOK, Job
<1> QED BY <1>1, <1>2, <1>3 DEF TokenInv, ActorsExist, ActorsOf

LEMMA RefuseInv ==
  ASSUME TokenInv, NEW r \in Requests, Done(r),
         UNCHANGED <<now, accounts, emails, refresh, access, held>>
  PROVE  TokenInv'
<1>1. jobs' \in [Requests -> Job \cup {Nil}] /\ ActorsOf(jobs')
  BY DoneActors
<1> QED BY <1>1, RequestInv DEF TokenInv, TypeOK

-----------------------------------------------------------------------------
\* The types of a step that changes accounts or tokens, and its invariant.
LEMMA Assemble ==
  ASSUME TokenInv, now' \in 0 .. MaxNow,
         accounts' \in [Users -> Account \cup {Nil}],
         emails' \in [Emails -> Users \cup {Nil}],
         refresh' \in [TokenIDs -> Refresh \cup {Nil}],
         access' \in [Users -> [Versions -> 0 .. MaxNow + AccessTTL]],
         held' \in SUBSET TokenIDs,
         jobs' \in [Requests -> Job \cup {Nil}],
         EmailIndex', FamilyIsALine', LiveFamiliesAreCurrent',
         \A v \in held' : Entry(v)' /\ accounts'[refresh'[v].user] # Nil,
         \A q \in Requests : jobs'[q] # Nil /\ jobs'[q].kind \in {"login", "call"} =>
           (jobs'[q].user # Nil => accounts'[jobs'[q].user] # Nil),
         \A q \in Requests : jobs'[q] # Nil /\ jobs'[q].kind = "call" => jobs'[q].user # Nil
  PROVE  TokenInv'
BY DEF TokenInv, TypeOK, ActorsExist

LEMMA RegisterFinishInv ==
  ASSUME TokenInv, NEW r \in Requests, NEW delivered \in BOOLEAN, RegisterFinish(r, delivered)
  PROVE  TokenInv'
<1> DEFINE email == jobs[r].email
<1>1. email \in Emails
  BY DEF RegisterFinish, TokenInv, TypeOK, Job
<1>2. CASE Refuse(r)
  BY <1>2, RefuseInv DEF Refuse, RegisterFinish
<1>3. CASE ~Refuse(r)
  <2>1. Free(email) /\ Done(r) /\ UNCHANGED now
    BY <1>3 DEF RegisterFinish
  <2>2. PICK u \in Users :
          /\ accounts[u] = Nil /\ \A t \in TokenIDs : Entry(t) => refresh[t].user # u
          /\ accounts' = [accounts EXCEPT ![u] = [email |-> email, version |-> 0]]
          /\ emails' = [emails EXCEPT ![email] = u]
          /\ NewFamily(u, 0, delivered)
    BY <1>3 DEF RegisterFinish
  <2>3. 0 \in Versions
    BY TokensAssumption DEF Versions
  <2> DEFINE new == [email |-> email, version |-> 0]
  <2>4. new \in Account /\ new # Nil /\ new.email = email /\ new.version = 0
    BY <1>1, <2>3, TokensAssumption DEF Account
  <2> HIDE DEF email, new
  <2>5. /\ accounts' \in [Users -> Account \cup {Nil}]
        /\ accounts'[u] = new /\ \A v \in Users \ {u} : accounts'[v] = accounts[v]
    BY <2>2, <2>4 DEF TokenInv, TypeOK, new
  <2>6. /\ emails' \in [Emails -> Users \cup {Nil}] /\ emails'[email] = u
        /\ \A e \in Emails \ {email} : emails'[e] = emails[e]
    BY <1>1, <2>2 DEF TokenInv, TypeOK
  <2>7. EmailIndex'
    <3>1. u # Nil
      BY TokensAssumption
    <3>2. emails[email] = Nil /\ accounts[u] = Nil
      BY <2>1, <2>2 DEF Free
    <3>3. ASSUME NEW e \in Emails, emails'[e] # Nil
          PROVE  accounts'[emails'[e]] # Nil /\ accounts'[emails'[e]].email = e
      <4>1. CASE e = email
        BY <4>1, <2>4, <2>5, <2>6
      <4>2. CASE e # email
        <5>1. emails'[e] = emails[e] /\ emails[e] \in Users \ {u}
          BY <4>2, <2>6, <3>2, <3>3 DEF TokenInv, TypeOK, EmailIndex
        <5> QED BY <5>1, <2>5, <3>3 DEF TokenInv, EmailIndex
      <4> QED BY <4>1, <4>2
    <3>4. ASSUME NEW v \in Users, accounts'[v] # Nil
          PROVE  emails'[accounts'[v].email] = v
      <4>1. CASE v = u
        BY <4>1, <2>4, <2>5, <2>6
      <4>2. CASE v # u
        <5>1. accounts'[v] = accounts[v] /\ accounts[v].email \in Emails
          BY <4>2, <2>5, <3>4 DEF TokenInv, TypeOK, Account
        <5>2. emails[accounts[v].email] = v /\ v # Nil
          BY <5>1, <3>4, TokensAssumption DEF TokenInv, EmailIndex
        <5> QED BY <5>1, <5>2, <2>6, <3>2
      <4> QED BY <4>1, <4>2
    <3> QED BY <3>3, <3>4 DEF EmailIndex
  <2>8. AccountsGrow
    BY <2>2, <2>5 DEF AccountsGrow
  <2>9. /\ refresh' \in [TokenIDs -> Refresh \cup {Nil}]
        /\ held' \in SUBSET TokenIDs
        /\ access' \in [Users -> [Versions -> 0 .. MaxNow + AccessTTL]]
        /\ FamilyIsALine' /\ LiveFamiliesAreCurrent'
        /\ \A v \in held' : Entry(v)' /\ accounts'[refresh'[v].user] # Nil
    BY <2>2, <2>3, <2>4, <2>5, <2>8, NewFamilyInv
  <2>10. /\ jobs' \in [Requests -> Job \cup {Nil}]
         /\ \A q \in Requests : jobs'[q] # Nil /\ jobs'[q].kind \in {"login", "call"} =>
              (jobs'[q].user # Nil => accounts'[jobs'[q].user] # Nil)
         /\ \A q \in Requests : jobs'[q] # Nil /\ jobs'[q].kind = "call" => jobs'[q].user # Nil
    BY <2>1, <2>4, <2>5, DoneActors
  <2>11. now' \in 0 .. MaxNow
    BY <2>1 DEF TokenInv, TypeOK
  <2> QED BY <2>5, <2>6, <2>7, <2>9, <2>10, <2>11, Assemble
<1> QED BY <1>2, <1>3

LEMMA LoginFinishInv ==
  ASSUME TokenInv, NEW r \in Requests, NEW matches \in BOOLEAN, NEW delivered \in BOOLEAN,
         LoginFinish(r, matches, delivered)
  PROVE  TokenInv'
<1> DEFINE user == jobs[r].user
<1>1. CASE Refuse(r)
  BY <1>1, RefuseInv DEF Refuse, LoginFinish
<1>2. CASE ~Refuse(r)
  <2>1. /\ user # Nil /\ NewFamily(user, accounts[user].version, delivered)
        /\ Done(r) /\ UNCHANGED <<now, accounts, emails>>
    BY <1>2 DEF LoginFinish
  <2>2. user \in Users /\ accounts[user] # Nil
    BY <2>1 DEF LoginFinish, TokenInv, TypeOK, ActorsExist, Job
  <2>3. accounts[user].version \in Versions
    BY <2>2 DEF TokenInv, TypeOK, Account
  <2>4. AccountsGrow
    BY <2>1 DEF AccountsGrow
  <2> HIDE DEF user
  <2>5. /\ refresh' \in [TokenIDs -> Refresh \cup {Nil}]
        /\ held' \in SUBSET TokenIDs
        /\ access' \in [Users -> [Versions -> 0 .. MaxNow + AccessTTL]]
        /\ FamilyIsALine' /\ LiveFamiliesAreCurrent'
        /\ \A v \in held' : Entry(v)' /\ accounts'[refresh'[v].user] # Nil
    BY <2>1, <2>2, <2>3, <2>4, NewFamilyInv
  <2>6. EmailIndex'
    BY <2>1 DEF TokenInv, EmailIndex
  <2>7. /\ jobs' \in [Requests -> Job \cup {Nil}]
        /\ \A q \in Requests : jobs'[q] # Nil /\ jobs'[q].kind \in {"login", "call"} =>
             (jobs'[q].user # Nil => accounts'[jobs'[q].user] # Nil)
        /\ \A q \in Requests : jobs'[q] # Nil /\ jobs'[q].kind = "call" => jobs'[q].user # Nil
    BY <2>1, DoneActors
  <2>8. /\ now' \in 0 .. MaxNow /\ accounts' \in [Users -> Account \cup {Nil}]
        /\ emails' \in [Emails -> Users \cup {Nil}]
    BY <2>1 DEF TokenInv, TypeOK
  <2> QED BY <2>5, <2>6, <2>7, <2>8, Assemble
<1> QED BY <1>1, <1>2

LEMMA VerifyInv ==
  ASSUME TokenInv, NEW user \in Users, NEW delivered \in BOOLEAN,
         Verify2FALogin(user, delivered)
  PROVE  TokenInv'
<1>1. /\ UNCHANGED <<now, accounts, emails, jobs>> /\ AccountsGrow
      /\ now' \in 0 .. MaxNow /\ accounts' \in [Users -> Account \cup {Nil}]
      /\ emails' \in [Emails -> Users \cup {Nil}]
      /\ jobs' \in [Requests -> Job \cup {Nil}]
  BY DEF Verify2FALogin, AccountsGrow, TokenInv, TypeOK
<1>2. EmailIndex'
  BY <1>1 DEF TokenInv, EmailIndex
<1>3. /\ \A q \in Requests : jobs'[q] # Nil /\ jobs'[q].kind \in {"login", "call"} =>
           (jobs'[q].user # Nil => accounts'[jobs'[q].user] # Nil)
      /\ \A q \in Requests : jobs'[q] # Nil /\ jobs'[q].kind = "call" => jobs'[q].user # Nil
  BY <1>1 DEF TokenInv, ActorsExist
<1>4. CASE accounts[user] # Nil
  <2>1. accounts[user].version \in Versions
    BY <1>4 DEF TokenInv, TypeOK, Account
  <2>2. NewFamily(user, accounts[user].version, delivered)
    BY <1>4 DEF Verify2FALogin
  <2>3. /\ refresh' \in [TokenIDs -> Refresh \cup {Nil}]
        /\ held' \in SUBSET TokenIDs
        /\ access' \in [Users -> [Versions -> 0 .. MaxNow + AccessTTL]]
        /\ FamilyIsALine' /\ LiveFamiliesAreCurrent'
        /\ \A v \in held' : Entry(v)' /\ accounts'[refresh'[v].user] # Nil
    BY <1>1, <1>4, <2>1, <2>2, NewFamilyInv
  <2> QED BY <1>1, <1>2, <1>3, <2>3, Assemble
<1>5. CASE accounts[user] = Nil
  <2>1. PICK t \in NewTokens : refresh' = [refresh EXCEPT ![t] = NewToken(user, t, 0)]
    BY <1>5 DEF Verify2FALogin
  <2>2. UNCHANGED <<access, held>>
    BY <1>5 DEF Verify2FALogin
  <2> DEFINE token == NewToken(user, t, 0)
  <2>3. t \in TokenIDs /\ 0 \in Versions
    BY TokensAssumption DEF NewTokens, Versions
  <2>4. token \in Refresh /\ token.user = user /\ token.family = t /\ ~token.used
    BY <2>3, NewTokenType DEF TokenInv
  <2>5. Issued(t, token)
    BY <2>1, <2>4 DEF Issued
  <2> HIDE DEF token
  <2>6. /\ refresh' \in [TokenIDs -> Refresh \cup {Nil}]
        /\ FamilyIsALine' /\ refresh'[t] = token
        /\ \A v \in TokenIDs \ {t} :
             /\ Entry(v)' <=> Entry(v)
             /\ Entry(v) => refresh'[v].user = refresh[v].user
             /\ Unused(v)' => Unused(v) /\ refresh'[v] = refresh[v]
    BY <2>5, IssuedFamilies DEF TokenInv
  <2>7. LiveFamiliesAreCurrent'
    BY <1>1, <1>5, <2>4, <2>6 DEF TokenInv, LiveFamiliesAreCurrent, Unused
  <2>8. \A v \in held' : Entry(v)' /\ accounts'[refresh'[v].user] # Nil
    BY <1>1, <2>2, <2>3, <2>5, <2>6
       DEF TokenInv, TypeOK, ActorsExist, Issued, NewTokens
  <2>9. /\ held' \in SUBSET TokenIDs
        /\ access' \in [Users -> [Versions -> 0 .. MaxNow + AccessTTL]]
    BY <2>2 DEF TokenInv, TypeOK
  <2> QED BY <1>1, <1>2, <1>3, <2>6, <2>7, <2>8, <2>9, Assemble
<1> QED BY <1>4, <1>5

LEMMA RotateInv ==
  ASSUME TokenInv, NEW t \in TokenIDs \cup {Nil}, NEW delivered \in BOOLEAN,
         Rotate(t, delivered)
  PROVE  TokenInv'
<1>1. /\ UNCHANGED <<now, emails, jobs>>
      /\ now' \in 0 .. MaxNow /\ emails' \in [Emails -> Users \cup {Nil}]
      /\ jobs' \in [Requests -> Job \cup {Nil}]
  BY DEF Rotate, TokenInv, TypeOK
<1>2. ASSUME \A u \in Users : accounts[u] # Nil => accounts'[u] # Nil
      PROVE  /\ \A q \in Requests : jobs'[q] # Nil /\ jobs'[q].kind \in {"login", "call"} =>
                  (jobs'[q].user # Nil => accounts'[jobs'[q].user] # Nil)
             /\ \A q \in Requests : jobs'[q] # Nil /\ jobs'[q].kind = "call" => jobs'[q].user # Nil
  <2>1. \A q \in Requests : jobs[q] # Nil /\ jobs[q].kind \in {"login", "call"} =>
          jobs[q].user \in Users \cup {Nil}
    BY DEF TokenInv, TypeOK, Job
  <2> QED BY <1>1, <1>2, <2>1 DEF TokenInv, ActorsExist
<1> DEFINE user == refresh[t].user
           version == accounts[user].version
<1>3. CASE UNCHANGED <<accounts, refresh, access, held>>
  BY <1>1, <1>3, RequestInv DEF ActorsOf, TokenInv, ActorsExist
<1>4. ASSUME t # Nil, t \in held
      PROVE  /\ t \in TokenIDs /\ Entry(t) /\ refresh[t] \in Refresh /\ user \in Users
             /\ accounts[user] # Nil /\ version \in Versions
  <2>1. t \in TokenIDs /\ Entry(t) /\ refresh[t] \in Refresh /\ accounts[user] # Nil
    BY <1>4 DEF TokenInv, TypeOK, ActorsExist, Entry
  <2>2. user \in Users
    BY <2>1 DEF Refresh
  <2> HIDE DEF user
  <2> QED BY <2>1, <2>2 DEF TokenInv, TypeOK, Account
<1>5. CASE t # Nil /\ refresh[t].used /\ Invalidate(user) /\ UNCHANGED <<access, held>>
  <2>1. user \in Users /\ accounts[user] # Nil
    BY <1>4, <1>5 DEF Rotate
  <2>2. /\ refresh' \in [TokenIDs -> Refresh \cup {Nil}]
        /\ accounts' \in [Users -> Account \cup {Nil}]
        /\ \A u \in Users : accounts'[u] = Nil <=> accounts[u] = Nil
        /\ FamilyIsALine' /\ LiveFamiliesAreCurrent' /\ EmailIndex'
        /\ \A v \in held' : Entry(v)' /\ accounts'[refresh'[v].user] # Nil
    <3> HIDE DEF user
    <3> QED BY <1>1, <1>5, <2>1, InvalidateInv
  <2>3. /\ held' \in SUBSET TokenIDs
        /\ access' \in [Users -> [Versions -> 0 .. MaxNow + AccessTTL]]
    BY <1>5 DEF TokenInv, TypeOK
  <2> QED BY <1>1, <1>2, <2>2, <2>3, Assemble
<1>6. CASE /\ t # Nil /\ ~refresh[t].used
           /\ \E n \in NewTokens :
                /\ refresh' = [refresh EXCEPT
                     ![t] = UsedUp(@),
                     ![n] = NewToken(user, refresh[t].family, refresh[t].born)]
                /\ Grant(n, user, version, delivered)
           /\ UNCHANGED accounts
  <2> DEFINE token == NewToken(user, refresh[t].family, refresh[t].born)
  <2>1. PICK n \in NewTokens :
          /\ refresh' = [refresh EXCEPT ![t] = UsedUp(@), ![n] = token]
          /\ Grant(n, user, version, delivered)
    BY <1>6
  <2>2. /\ t \in TokenIDs /\ Unused(t) /\ refresh[t] \in Refresh /\ user \in Users
        /\ accounts[user] # Nil /\ version \in Versions
    BY <1>4, <1>6 DEF Rotate, Unused
  <2>3. n \in TokenIDs /\ refresh[t].family \in TokenIDs /\ refresh[t].born \in Versions
    BY <2>2 DEF NewTokens, Refresh
  <2>4. /\ token \in Refresh /\ token.user = user /\ token.family = refresh[t].family
        /\ token.born = refresh[t].born /\ ~token.used
    BY <2>2, <2>3, NewTokenType DEF TokenInv
  <2>5. refresh[t].born = version
    BY <2>2 DEF TokenInv, LiveFamiliesAreCurrent
  <2> HIDE DEF token
  <2>6. Issued(n, token)
    BY <2>1, <2>2, <2>4 DEF Issued
  <2>7. AccountsGrow
    BY <1>6 DEF AccountsGrow
  <2>8. /\ held' \in SUBSET TokenIDs /\ held' \subseteq held \cup {n}
        /\ access' \in [Users -> [Versions -> 0 .. MaxNow + AccessTTL]]
    <3> HIDE DEF user, version
    <3> QED BY <2>1, <2>2, <2>3, GrantType DEF TokenInv
  <2>9. /\ refresh' \in [TokenIDs -> Refresh \cup {Nil}]
        /\ FamilyIsALine' /\ LiveFamiliesAreCurrent'
        /\ \A v \in held' : Entry(v)' /\ accounts'[refresh'[v].user] # Nil
    BY <1>6, <2>2, <2>4, <2>5, <2>6, <2>7, <2>8, IssuedInv
  <2>10. EmailIndex' /\ accounts' \in [Users -> Account \cup {Nil}]
    BY <1>1, <1>6 DEF TokenInv, TypeOK, EmailIndex
  <2> QED BY <1>1, <1>2, <1>6, <2>8, <2>9, <2>10, Assemble
<1> QED BY <1>3, <1>5, <1>6 DEF Rotate

LEMMA LogoutInv ==
  ASSUME TokenInv, NEW r \in Requests, Logout(r)
  PROVE  TokenInv'
<1> DEFINE user == jobs[r].user
<1>1. user \in Users /\ accounts[user] # Nil
  BY DEF Logout, TokenInv, TypeOK, ActorsExist, Job
<1>2. Invalidate(user) /\ Done(r) /\ UNCHANGED <<now, emails, access, held>>
  BY DEF Logout
<1> HIDE DEF user
<1>3. /\ refresh' \in [TokenIDs -> Refresh \cup {Nil}]
      /\ accounts' \in [Users -> Account \cup {Nil}]
      /\ \A u \in Users : accounts'[u] = Nil <=> accounts[u] = Nil
      /\ FamilyIsALine' /\ LiveFamiliesAreCurrent' /\ EmailIndex'
      /\ \A v \in held' : Entry(v)' /\ accounts'[refresh'[v].user] # Nil
  BY <1>1, <1>2, InvalidateInv
<1>4. /\ jobs' \in [Requests -> Job \cup {Nil}]
      /\ \A q \in Requests : jobs'[q] # Nil /\ jobs'[q].kind \in {"login", "call"} =>
           (jobs'[q].user # Nil => accounts'[jobs'[q].user] # Nil)
      /\ \A q \in Requests : jobs'[q] # Nil /\ jobs'[q].kind = "call" => jobs'[q].user # Nil
  BY <1>2, <1>3, DoneActors
<1>5. /\ now' \in 0 .. MaxNow /\ emails' \in [Emails -> Users \cup {Nil}]
      /\ held' \in SUBSET TokenIDs
      /\ access' \in [Users -> [Versions -> 0 .. MaxNow + AccessTTL]]
  BY <1>2 DEF TokenInv, TypeOK
<1> QED BY <1>3, <1>4, <1>5, Assemble

\* What the expiry leaves is as it was.
LEMMA ExpireInv == ASSUME TokenInv, Expire PROVE TokenInv'
<1>1. /\ \A v \in TokenIDs :
           Entry(v)' => Entry(v) /\ ~Expired(v) /\ refresh'[v] = refresh[v]
      /\ \A v \in TokenIDs : Entry(v) /\ ~Expired(v) => refresh'[v] = refresh[v]
  BY DEF Expire, Entry
<1>2. refresh' \in [TokenIDs -> Refresh \cup {Nil}]
  BY DEF Expire, TokenInv, TypeOK
<1>3. FamilyIsALine' /\ LiveFamiliesAreCurrent'
  BY <1>1 DEF Expire, TokenInv, FamilyIsALine, LiveFamiliesAreCurrent, Unused
<1>4. held' \in SUBSET TokenIDs /\ \A v \in held' : v \in held /\ ~Expired(v)
  BY DEF Expire, TokenInv, TypeOK
<1>5. \A v \in held' : Entry(v)' /\ accounts'[refresh'[v].user] # Nil
  BY <1>1, <1>4 DEF Expire, TokenInv, ActorsExist, Entry, TypeOK
<1>6. /\ \A q \in Requests : jobs'[q] # Nil /\ jobs'[q].kind \in {"login", "call"} =>
           (jobs'[q].user # Nil => accounts'[jobs'[q].user] # Nil)
      /\ \A q \in Requests : jobs'[q] # Nil /\ jobs'[q].kind = "call" => jobs'[q].user # Nil
  BY DEF Expire, TokenInv, ActorsExist
<1>7. EmailIndex'
  BY DEF Expire, TokenInv, EmailIndex
<1>8. /\ now' \in 0 .. MaxNow /\ accounts' \in [Users -> Account \cup {Nil}]
      /\ emails' \in [Emails -> Users \cup {Nil}]
      /\ access' \in [Users -> [Versions -> 0 .. MaxNow + AccessTTL]]
      /\ jobs' \in [Requests -> Job \cup {Nil}]
  BY DEF Expire, TokenInv, TypeOK
<1> QED BY <1>2, <1>3, <1>4, <1>5, <1>6, <1>7, <1>8, Assemble

-----------------------------------------------------------------------------
LEMMA NextInv == TokenInv /\ [Next]_vars => TokenInv'
<1> SUFFICES ASSUME TokenInv, [Next]_vars PROVE TokenInv'
  OBVIOUS
<1>1. ASSUME NEW r \in Requests, NEW email \in Emails, RegisterStart(r, email)
      PROVE  TokenInv'
  <2> DEFINE job == [kind |-> "register", email |-> email]
  <2>1. job \in Job /\ job.kind = "register"
    BY DEF Job
  <2>2. /\ jobs' = [jobs EXCEPT ![r] = job]
        /\ UNCHANGED <<now, accounts, emails, refresh, access, held>>
    BY <1>1 DEF RegisterStart
  <2> HIDE DEF job
  <2> QED BY <2>1, <2>2, StartInv
<1>2. ASSUME NEW r \in Requests, NEW email \in Emails, LoginStart(r, email)
      PROVE  TokenInv'
  <2> DEFINE job == [kind |-> "login", user |-> emails[email]]
  <2>1. /\ emails[email] \in Users \cup {Nil}
        /\ emails[email] # Nil => accounts[emails[email]] # Nil
    BY DEF TokenInv, TypeOK, EmailIndex
  <2>2. job \in Job /\ job.kind = "login" /\ job.user = emails[email]
    BY <2>1 DEF Job
  <2>3. /\ jobs' = [jobs EXCEPT ![r] = job]
        /\ UNCHANGED <<now, accounts, emails, refresh, access, held>>
    BY <1>2 DEF LoginStart
  <2> HIDE DEF job
  <2> QED BY <2>1, <2>2, <2>3, StartInv
<1>3. ASSUME NEW r \in Requests, Finish(r) PROVE TokenInv'
  BY <1>3, RegisterFinishInv, LoginFinishInv DEF Finish
<1>4. ASSUME NEW r \in Requests, NEW user \in Users, NEW version \in Versions,
             Authorise(r, user, version)
      PROVE  TokenInv'
  <2> DEFINE job == [kind |-> "call", user |-> user]
  <2>1. job \in Job /\ job.kind = "call" /\ job.user = user
    BY DEF Job
  <2>2. /\ jobs' = [jobs EXCEPT ![r] = job] /\ accounts[user] # Nil
        /\ UNCHANGED <<now, accounts, emails, refresh, access, held>>
    BY <1>4 DEF Authorise
  <2>3. user # Nil
    BY TokensAssumption
  <2> HIDE DEF job
  <2> QED BY <2>1, <2>2, <2>3, StartInv
<1>5. ASSUME NEW r \in Requests, Serve(r) PROVE TokenInv'
  BY <1>5, RefuseInv DEF Serve
<1>6. ASSUME Tick PROVE TokenInv'
  <2>1. now' \in 0 .. MaxNow
    BY <1>6, TokensAssumption DEF Tick, TokenInv, TypeOK
  <2>2. jobs' \in [Requests -> Job \cup {Nil}] /\ ActorsOf(jobs')
    BY <1>6 DEF Tick, TokenInv, TypeOK, ActorsExist, ActorsOf
  <2> QED BY <1>6, <2>1, <2>2, RequestInv DEF Tick
<1>7. CASE UNCHANGED vars
  <2>1. jobs' \in [Requests -> Job \cup {Nil}] /\ ActorsOf(jobs') /\ now' \in 0 .. MaxNow
    BY <1>7 DEF vars, TokenInv, TypeOK, ActorsExist, ActorsOf
  <2> QED BY <1>7, <2>1, RequestInv DEF vars
<1> QED BY <1>1, <1>2, <1>3, <1>4, <1>5, <1>6, <1>7,
           VerifyInv, RotateInv, LogoutInv, ExpireInv DEF Next

LEMMA InvHolds == Spec => []TokenInv
<1> QED BY InitInv, NextInv, PTL DEF Spec

(***************************************************************************)
(* Accounts, tokens and requests in flight always have their types.        *)
(***************************************************************************)
THEOREM TokensTyped == Spec => []TypeOK
<1>1. TokenInv => TypeOK
  BY DEF TokenInv
<1> QED BY <1>1, InvHolds, PTL

(***************************************************************************)
(* For any number of accounts, tokens and requests, a family of refresh    *)
(* tokens has at most one that is unused, and belongs to one account.      *)
(***************************************************************************)
THEOREM FamiliesAreLines == Spec => []FamilyIsALine
<1>1. TokenInv => FamilyIsALine
  BY DEF TokenInv
<1> QED BY <1>1, InvHolds, PTL

(***************************************************************************)
(* No refresh token outlives an invalidation of its account, for any       *)
(* interleaving of logins, rotations, reuses and logouts.                  *)
(***************************************************************************)
THEOREM FamiliesAreCurrent == Spec => []LiveFamiliesAreCurrent
<1>1. TokenInv => LiveFamiliesAreCurrent
  BY DEF TokenInv
<1> QED BY <1>1, InvHolds, PTL

(***************************************************************************)
(* However many registrations compute their hash at a time, an address has *)
(* one account and the index leads to it.                                  *)
(***************************************************************************)
THEOREM AddressesAreIndexed == Spec => []EmailIndex
<1>1. TokenInv => EmailIndex
  BY DEF TokenInv
<1> QED BY <1>1, InvHolds, PTL
=============================================================================
