------------------------------- MODULE Tokens -------------------------------
(***************************************************************************)
(* Accounts and the tokens they act with: registration and login, which    *)
(* compute a password hash outside Service.mu and compete for a few slots; *)
(* access tokens, valid while the account's version is the one they were   *)
(* signed with; refresh tokens, which a rotation uses up and which form a  *)
(* family from each login.                                                 *)
(*                                                                         *)
(* Tokens are ids: what the server keeps is a hash of them, and a family   *)
(* is named by its first token.                                            *)
(***************************************************************************)
EXTENDS Integers, FiniteSets

CONSTANTS
  Users,       \* account ids, registered or not
  Emails,
  TokenIDs,    \* bound of the model: the refresh tokens in the map
  Requests,    \* bound of the model: requests in flight
  Slots,       \* 2: password hashes computed at a time
  AccessTTL,   \* 10 min: lifetime of an access token
  RefreshTTL,  \* 7 days: lifetime of a refresh token
  MaxVersion,  \* bound of the model: invalidations of one account
  MaxNow,      \* bound of the model: last instant of the clock
  Nil          \* the absent map entry

Versions == 0 .. MaxVersion
Account == [email: Emails, version: Versions]
\* `born` is the version of the account when the family began: history, for
\* the properties only.
Refresh == [user: Users, family: TokenIDs, expires: Int, used: BOOLEAN, born: Versions]
Job == [kind: {"register"}, email: Emails]
       \cup [kind: {"login", "call"}, user: Users \cup {Nil}]

ASSUME TokensAssumption ==
  /\ Slots \in Nat /\ MaxVersion \in Nat /\ MaxNow \in Nat
  /\ AccessTTL \in Nat /\ RefreshTTL \in Nat
  /\ Nil \notin Account /\ Nil \notin Refresh /\ Nil \notin Job /\ Nil \notin Users
  /\ Nil \notin TokenIDs

VARIABLES
  now,       \* s.now()
  accounts,  \* s.accounts
  emails,    \* s.emails
  refresh,   \* s.refresh
  access,    \* access[u][v]: deadline of the newest access token of u signed
             \* at version v that a client received; 0 if none
  held,      \* refresh tokens in the map that a client received
  jobs       \* requests between two critical sections

vars == <<now, accounts, emails, refresh, access, held, jobs>>

TypeOK ==
  /\ now \in 0 .. MaxNow
  /\ accounts \in [Users -> Account \cup {Nil}]
  /\ emails \in [Emails -> Users \cup {Nil}]
  /\ refresh \in [TokenIDs -> Refresh \cup {Nil}]
  /\ access \in [Users -> [Versions -> 0 .. MaxNow + AccessTTL]]
  /\ held \in SUBSET TokenIDs
  /\ jobs \in [Requests -> Job \cup {Nil}]

Init ==
  /\ now = 0
  /\ accounts = [u \in Users |-> Nil]
  /\ emails = [e \in Emails |-> Nil]
  /\ refresh = [t \in TokenIDs |-> Nil]
  /\ access = [u \in Users |-> [v \in Versions |-> 0]]
  /\ held = {}
  /\ jobs = [r \in Requests |-> Nil]

-----------------------------------------------------------------------------
Entry(t) == refresh[t] # Nil
Unused(t) == Entry(t) /\ ~refresh[t].used

(***************************************************************************)
(* A new token is random: none in the map, and no family in the map has    *)
(* its id.  An id that has left the map stands for a token that nobody     *)
(* can use: it may stand for a new one.                                    *)
(***************************************************************************)
NewTokens == {t \in TokenIDs : ~Entry(t) /\ \A u \in TokenIDs : Entry(u) => refresh[u].family # t}

Hashing == {r \in Requests : jobs[r] # Nil /\ jobs[r].kind \in {"register", "login"}}
Idle(r) == jobs[r] = Nil
Done(r) == jobs' = [jobs EXCEPT ![r] = Nil]

(***************************************************************************)
(* issue returns a refresh token and an access token signed at the         *)
(* account's version; the client has both unless the answer is lost.       *)
(***************************************************************************)
Grant(token, user, version, delivered) ==
  /\ held' = IF delivered THEN held \cup {token} ELSE held
  /\ access' = IF delivered
               THEN [access EXCEPT ![user][version] = now + AccessTTL] ELSE access

UsedUp(token) == [token EXCEPT !.used = TRUE]

NewToken(user, family, version) ==
  [user |-> user, family |-> family, expires |-> now + RefreshTTL, used |-> FALSE,
   born |-> version]

\* Mutant: the family of a new login is not generated.
NewFamilyless(user, version, delivered) == \E t \in NewTokens :
  /\ refresh' = [refresh EXCEPT ![t] = NewToken(user, Nil, version)]
  /\ Grant(t, user, version, delivered)

\* A login, a registration or a second factor begins a family.
NewFamily(user, version, delivered) == \E t \in NewTokens :
  /\ refresh' = [refresh EXCEPT ![t] = NewToken(user, t, version)]
  /\ Grant(t, user, version, delivered)

\* The deferred release of the slot of a refused request.
Refuse(r) ==
  /\ Done(r)
  /\ UNCHANGED <<accounts, emails, refresh, access, held>>

-----------------------------------------------------------------------------
(* POST /v1/auth/register: the hash is computed between two steps.         *)
RegisterStart(r, email) ==
  /\ Idle(r) /\ Cardinality(Hashing) < Slots
  /\ jobs' = [jobs EXCEPT ![r] = [kind |-> "register", email |-> email]]
  /\ UNCHANGED <<now, accounts, emails, refresh, access, held>>

\* Mutant: the address was checked before the hash and is not again.
FreeAnyway(email) == TRUE

Free(email) == emails[email] = Nil

\* The new id is random: nobody has named it before.
RegisterFinish(r, delivered) ==
  /\ jobs[r] # Nil /\ jobs[r].kind = "register"
  /\ LET email == jobs[r].email
     IN \/ ~Free(email) /\ Refuse(r)
        \/ /\ Free(email)
           /\ \E u \in Users :
                /\ accounts[u] = Nil /\ \A t \in TokenIDs : Entry(t) => refresh[t].user # u
                /\ accounts' = [accounts EXCEPT ![u] = [email |-> email, version |-> 0]]
                /\ emails' = [emails EXCEPT ![email] = u]
                /\ NewFamily(u, 0, delivered)
           /\ Done(r)
  /\ UNCHANGED now

(***************************************************************************)
(* POST /v1/auth/login: the account is read, its password compared outside *)
(* the lock, and the tokens are issued later, whatever happened to the     *)
(* account's tokens meanwhile.                                             *)
(***************************************************************************)
LoginStart(r, email) ==
  /\ Idle(r) /\ Cardinality(Hashing) < Slots
  /\ jobs' = [jobs EXCEPT ![r] = [kind |-> "login", user |-> emails[email]]]
  /\ UNCHANGED <<now, accounts, emails, refresh, access, held>>

LoginFinish(r, matches, delivered) ==
  /\ jobs[r] # Nil /\ jobs[r].kind = "login"
  /\ LET user == jobs[r].user
     IN \/ (user = Nil \/ ~matches) /\ Refuse(r)
        \/ /\ user # Nil /\ matches
           /\ NewFamily(user, accounts[user].version, delivered)
           /\ Done(r) /\ UNCHANGED <<accounts, emails>>
  /\ UNCHANGED now

(***************************************************************************)
(* POST /v1/auth/2fa/verify: a code of six characters is accepted for any  *)
(* user id.  For an id that is not registered the refresh token is stored  *)
(* before the signature dereferences the missing account, and nobody ever  *)
(* receives it.                                                            *)
(***************************************************************************)
Verify2FALogin(user, delivered) ==
  /\ \/ accounts[user] # Nil /\ NewFamily(user, accounts[user].version, delivered)
     \/ /\ accounts[user] = Nil
        /\ \E t \in NewTokens :
             /\ refresh' = [refresh EXCEPT ![t] = NewToken(user, t, 0)]
        /\ UNCHANGED <<access, held>>
  /\ UNCHANGED <<now, accounts, emails, jobs>>

-----------------------------------------------------------------------------
MovedOn(account) == [account EXCEPT !.version = @ + 1]

\* Mutant: the account moves on and its refresh tokens stay good.
InvalidateAccess(user) ==
  /\ accounts[user].version < MaxVersion
  /\ accounts' = [accounts EXCEPT ![user] = MovedOn(@)]
  /\ UNCHANGED refresh

(***************************************************************************)
(* The tokens' part of invalidate: the account's version moves on and each *)
(* of its refresh tokens is used up.                                       *)
(***************************************************************************)
Invalidate(user) ==
  /\ accounts[user].version < MaxVersion
  /\ accounts' = [accounts EXCEPT ![user] = MovedOn(@)]
  /\ refresh' = [t \in TokenIDs |->
       IF Entry(t) /\ refresh[t].user = user
       THEN UsedUp(refresh[t]) ELSE refresh[t]]

\* Mutant: the token that was presented stays good.
RotateKeeping(t, delivered) ==
  /\ t \in held \cup {Nil}
  /\ UNCHANGED <<now, accounts, emails, jobs>>
  /\ \/ (t # Nil => now >= refresh[t].expires) /\ UNCHANGED <<refresh, access, held>>
     \/ /\ t # Nil /\ now < refresh[t].expires
        /\ \E n \in NewTokens :
             /\ refresh' = [refresh EXCEPT
                  ![n] = [refresh[t] EXCEPT !.expires = now + RefreshTTL, !.used = FALSE]]
             /\ Grant(n, refresh[t].user, accounts[refresh[t].user].version, delivered)

(***************************************************************************)
(* POST /v1/auth/refresh.  A client presents a token it received, perhaps  *)
(* again because the answer was lost, or one that is not in the map (Nil). *)
(* One that is used already invalidates all the account has; otherwise it  *)
(* is replaced by one of its family.                                       *)
(***************************************************************************)
Rotate(t, delivered) ==
  /\ t \in held \cup {Nil}
  /\ UNCHANGED <<now, emails, jobs>>
  /\ \/ /\ t # Nil => now >= refresh[t].expires
        /\ UNCHANGED <<accounts, refresh, access, held>>
     \/ /\ t # Nil /\ now < refresh[t].expires /\ refresh[t].used
        /\ Invalidate(refresh[t].user)
        /\ UNCHANGED <<access, held>>
     \/ /\ t # Nil /\ now < refresh[t].expires /\ ~refresh[t].used
        /\ \E n \in NewTokens :
             /\ refresh' = [refresh EXCEPT
                  ![t] = UsedUp(@),
                  ![n] = NewToken(refresh[t].user, refresh[t].family, refresh[t].born)]
             /\ Grant(n, refresh[t].user, accounts[refresh[t].user].version, delivered)
        /\ UNCHANGED accounts

\* auth: an access token of the account's version opens a request; the
\* handler runs in a later critical section.
Authorise(r, user, version) ==
  /\ Idle(r)
  /\ accounts[user] # Nil /\ accounts[user].version = version
  /\ now < access[user][version]
  /\ jobs' = [jobs EXCEPT ![r] = [kind |-> "call", user |-> user]]
  /\ UNCHANGED <<now, accounts, emails, refresh, access, held>>

\* POST /v1/auth/logout, once authorised.
Logout(r) ==
  /\ jobs[r] # Nil /\ jobs[r].kind = "call"
  /\ Invalidate(jobs[r].user)
  /\ Done(r)
  /\ UNCHANGED <<now, emails, access, held>>

\* Any other authorised request: it changes no account and no token.
Serve(r) ==
  /\ jobs[r] # Nil /\ jobs[r].kind = "call"
  /\ Done(r)
  /\ UNCHANGED <<now, accounts, emails, refresh, access, held>>

\* The expiry that precedes every request.
Expired(t) == Entry(t) /\ now >= refresh[t].expires

Expire ==
  /\ \E t \in TokenIDs : Expired(t)
  /\ refresh' = [t \in TokenIDs |-> IF Expired(t) THEN Nil ELSE refresh[t]]
  /\ held' = {t \in held : ~Expired(t)}
  /\ UNCHANGED <<now, accounts, emails, access, jobs>>

Tick ==
  /\ now < MaxNow
  /\ now' = now + 1
  /\ UNCHANGED <<accounts, emails, refresh, access, held, jobs>>

-----------------------------------------------------------------------------
Finish(r) == \E delivered \in BOOLEAN :
  \/ RegisterFinish(r, delivered)
  \/ \E matches \in BOOLEAN : LoginFinish(r, matches, delivered)

Next ==
  \/ \E r \in Requests :
       \/ \E email \in Emails : RegisterStart(r, email) \/ LoginStart(r, email)
       \/ Finish(r)
       \/ \E user \in Users, version \in Versions : Authorise(r, user, version)
       \/ Logout(r)
       \/ Serve(r)
  \/ \E user \in Users, delivered \in BOOLEAN : Verify2FALogin(user, delivered)
  \/ \E t \in TokenIDs \cup {Nil}, delivered \in BOOLEAN : Rotate(t, delivered)
  \/ Expire
  \/ Tick

Spec == Init /\ [][Next]_vars

-----------------------------------------------------------------------------
(***************************************************************************)
(* A family is one line: its tokens belong to one account and at most one  *)
(* of them is unused, whatever rotations, retries and expiries interleave  *)
(* (rotate, issue).                                                        *)
(***************************************************************************)
FamilyIsALine ==
  \A t, u \in TokenIDs : Entry(t) /\ Entry(u) /\ refresh[t].family = refresh[u].family =>
    /\ refresh[t].user = refresh[u].user
    /\ Unused(t) /\ Unused(u) => t = u

(***************************************************************************)
(* A refresh token that is still good descends from a login made since the *)
(* account was last invalidated: no rotation, retry or pending login       *)
(* carries an older family past a logout or a detected reuse (invalidate). *)
(***************************************************************************)
LiveFamiliesAreCurrent ==
  \A t \in TokenIDs : Unused(t) /\ accounts[refresh[t].user] # Nil =>
    refresh[t].born = accounts[refresh[t].user].version

(***************************************************************************)
(* The index of addresses and the accounts agree, and no address has two   *)
(* accounts although the check and the hash are two critical sections      *)
(* apart (register).                                                       *)
(***************************************************************************)
EmailIndex ==
  /\ \A e \in Emails : emails[e] # Nil =>
       accounts[emails[e]] # Nil /\ accounts[emails[e]].email = e
  /\ \A u \in Users : accounts[u] # Nil => emails[accounts[u].email] = u
=============================================================================
