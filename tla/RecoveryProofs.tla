--------------------------- MODULE RecoveryProofs ---------------------------
(***************************************************************************)
(* What a token does to an account, for any number of accounts, codes,     *)
(* tokens and requests.  The invariant ties an entry of the store, and a   *)
(* request that is about to use it, to the one purpose it was issued for:  *)
(* a reset token has a single purpose, which a code, drawn again and       *)
(* again, has not.                                                         *)
(***************************************************************************)
EXTENDS Recovery, TLAPS

PurposeOf(t) ==
  [user |-> emailTokens[t].user, kind |-> emailTokens[t].kind, token |-> t]

CallPurpose(c) ==
  [user |-> calls[c].user, kind |-> calls[c].kind, token |-> calls[c].token]

EntriesAsIssued == \A t \in EmailTokens : emailTokens[t] # Absent => PurposeOf(t) \in issued

\* Reset tokens are for resets, codes are not, and a reset token is issued once.
TokensByKind ==
  /\ \A p \in issued : p.kind = "reset" <=> p.token \in ResetTokens
  /\ \A p, q \in issued : p.token = q.token /\ p.token \in ResetTokens => p = q

UsesAsIssued == \A c \in Calls : At(c, "use") =>
  CallPurpose(c) \in issued /\ (calls[c].kind = "reset" => CallPurpose(c) \in mailed)

UsedWereIssued == \A t \in used : \E p \in issued : p.token = t

RecoveryInv ==
  /\ RecoveryTypeOK
  /\ EntriesAsIssued /\ TokensByKind /\ UsesAsIssued /\ UsedWereIssued /\ UsedTokensGo

-----------------------------------------------------------------------------
LEMMA StartInv == RecoveryInit => RecoveryInv
<1> SUFFICES ASSUME RecoveryInit PROVE RecoveryInv
  OBVIOUS
<1> USE RecoveryAssumption DEF RecoveryInit
<1>1. RecoveryTypeOK
  <2>1. accounts \in [Accounts -> Account \cup {Absent}]
    BY DEF Account
  <2> QED BY <2>1 DEF RecoveryTypeOK
<1>2. EntriesAsIssued /\ TokensByKind /\ UsesAsIssued /\ UsedWereIssued /\ UsedTokensGo
  BY DEF EntriesAsIssued, TokensByKind, UsesAsIssued, UsedWereIssued, UsedTokensGo, At
<1> QED BY <1>1, <1>2 DEF RecoveryInv

(***************************************************************************)
(* A token is stored for a purpose: a code for any, a reset token only if  *)
(* it was never issued.                                                    *)
(***************************************************************************)
LEMMA StoreInv ==
  ASSUME RecoveryInv, NEW c \in Calls, NEW user \in Accounts, NEW kind \in Kinds,
         NEW token \in EmailTokens, NEW ttl \in Nat,
         calls[c] = Absent, Store(c, user, kind, token, ttl),
         kind = "reset" => token \in NewResetTokens,
         kind = "verify" => token \in Codes
  PROVE RecoveryInv'
<1> DEFINE p == [user |-> user, kind |-> kind, token |-> token]
<1> DEFINE entry == [user |-> user, kind |-> kind, expires |-> clock + ttl]
<1>1. RecoveryTypeOK
  BY DEF RecoveryInv
<1>2. entry \in EmailToken /\ p \in Purpose /\ Doing("mail", user, kind, token) \in Call
  BY <1>1 DEF RecoveryTypeOK, EmailToken, Purpose, Doing, Call
<1>3. entry # Absent /\ Doing("mail", user, kind, token) # Absent
  BY <1>2, RecoveryAssumption
<1>4. /\ emailTokens' = [emailTokens EXCEPT ![token] = entry]
      /\ issued' = issued \cup {p}
      /\ calls' = [calls EXCEPT ![c] = Doing("mail", user, kind, token)]
      /\ UNCHANGED <<clock, accounts, mailed, used>>
  BY DEF Store
<1> HIDE DEF p, entry
<1>5. RecoveryTypeOK'
  BY <1>1, <1>2, <1>4 DEF RecoveryTypeOK
<1>6. p.user = user /\ p.kind = kind /\ p.token = token
  BY DEF p
<1>7. (kind = "reset" <=> token \in ResetTokens) /\ (kind = "verify" <=> token \in Codes)
  BY RecoveryAssumption DEF NewResetTokens, Kinds
<1>8. token \in ResetTokens => \A q \in issued : q.token # token
  BY <1>7 DEF NewResetTokens
<1>9. EntriesAsIssued'
  <2> SUFFICES ASSUME NEW t \in EmailTokens, emailTokens'[t] # Absent
               PROVE PurposeOf(t)' \in issued'
    BY DEF EntriesAsIssued
  <2>1. CASE t = token
    BY <2>1, <1>1, <1>4 DEF RecoveryTypeOK, PurposeOf, entry, p
  <2>2. CASE t # token
    BY <2>2, <1>1, <1>4 DEF RecoveryTypeOK, PurposeOf, RecoveryInv, EntriesAsIssued
  <2> QED BY <2>1, <2>2
<1>10. TokensByKind'
  BY <1>4, <1>6, <1>7, <1>8 DEF RecoveryInv, TokensByKind
<1>11. UsesAsIssued'
  <2> SUFFICES ASSUME NEW d \in Calls, At(d, "use")'
               PROVE /\ CallPurpose(d)' \in issued'
                     /\ calls'[d].kind = "reset" => CallPurpose(d)' \in mailed'
    BY DEF UsesAsIssued
  <2>1. d # c
    BY <1>1, <1>4 DEF RecoveryTypeOK, At, Doing
  <2>2. calls'[d] = calls[d]
    BY <2>1, <1>1, <1>4 DEF RecoveryTypeOK
  <2> QED BY <2>2, <1>4 DEF RecoveryInv, UsesAsIssued, At, CallPurpose
<1>12. UsedWereIssued'
  BY <1>4 DEF RecoveryInv, UsedWereIssued
<1>13. UsedTokensGo'
  <2> SUFFICES ASSUME NEW t \in used, emailTokens'[t] # Absent
               PROVE \E d \in Calls : At(d, "delete")' /\ calls'[d].token = t
    BY <1>4 DEF UsedTokensGo
  <2>1. t # token
    BY <1>7, <1>8, <1>1, RecoveryAssumption
      DEF RecoveryInv, UsedWereIssued, RecoveryTypeOK, EmailTokens
  <2>2. emailTokens[t] # Absent
    BY <2>1, <1>1, <1>4 DEF RecoveryTypeOK
  <2>3. PICK d \in Calls : At(d, "delete") /\ calls[d].token = t
    BY <2>2 DEF RecoveryInv, UsedTokensGo
  <2>4. d # c /\ calls'[d] = calls[d]
    BY <2>3, <1>1, <1>4 DEF At, RecoveryTypeOK
  <2> QED BY <2>3, <2>4 DEF At
<1> QED BY <1>5, <1>9, <1>10, <1>11, <1>12, <1>13 DEF RecoveryInv

(***************************************************************************)
(* A step that touches no entry and no history but that of the mailer, and *)
(* of the requests only one that was not about to delete.                  *)
(***************************************************************************)
LEMMA CallInv ==
  ASSUME RecoveryInv, NEW c \in Calls, ~At(c, "delete"),
         \A d \in Calls \ {c} : calls'[d] = calls[d],
         UNCHANGED <<emailTokens, issued, used>>, RecoveryTypeOK', UsesAsIssued'
  PROVE RecoveryInv'
<1>1. EntriesAsIssued' /\ TokensByKind' /\ UsedWereIssued'
  BY DEF RecoveryInv, EntriesAsIssued, PurposeOf, TokensByKind, UsedWereIssued
<1>2. UsedTokensGo'
  <2> SUFFICES ASSUME NEW t \in used, emailTokens[t] # Absent
               PROVE \E d \in Calls : At(d, "delete")' /\ calls'[d].token = t
    BY DEF UsedTokensGo
  <2>1. PICK d \in Calls : At(d, "delete") /\ calls[d].token = t
    BY DEF RecoveryInv, UsedTokensGo
  <2>2. calls'[d] = calls[d]
    BY <2>1
  <2> QED BY <2>1, <2>2 DEF At
<1> QED BY <1>1, <1>2 DEF RecoveryInv

LEMMA MailInv == ASSUME RecoveryInv, NEW c \in Calls, Mail(c) PROVE RecoveryInv'
<1>1. RecoveryTypeOK
  BY DEF RecoveryInv
<1>2. /\ calls' = [calls EXCEPT ![c] = Absent]
      /\ mailed \subseteq mailed' /\ mailed' \subseteq issued
      /\ UNCHANGED <<clock, accounts, emailTokens, issued, used>>
  BY <1>1 DEF Mail, RecoveryTypeOK
<1>3. RecoveryTypeOK'
  BY <1>1, <1>2 DEF RecoveryTypeOK
<1>4. calls'[c] = Absent /\ \A d \in Calls \ {c} : calls'[d] = calls[d]
  BY <1>1, <1>2 DEF RecoveryTypeOK
<1>5. UsesAsIssued'
  BY <1>2, <1>4 DEF RecoveryInv, UsesAsIssued, At, CallPurpose
<1>6. ~At(c, "delete")
  BY DEF Mail, At
<1> QED BY <1>2, <1>3, <1>4, <1>5, <1>6, CallInv

(***************************************************************************)
(* A confirmation begins: what it is about to use is what it was issued.   *)
(***************************************************************************)
LEMMA BeginInv ==
  ASSUME RecoveryInv, NEW c \in Calls, calls[c] = Absent, NEW call \in Call,
         calls' = [calls EXCEPT ![c] = call],
         UNCHANGED <<clock, accounts, emailTokens, issued, mailed, used>>,
         call.step = "use" =>
           LET p == [user |-> call.user, kind |-> call.kind, token |-> call.token]
           IN p \in issued /\ (call.kind = "reset" => p \in mailed)
  PROVE RecoveryInv'
<1>1. RecoveryTypeOK
  BY DEF RecoveryInv
<1>2. RecoveryTypeOK'
  BY <1>1 DEF RecoveryTypeOK
<1>3. calls'[c] = call /\ \A d \in Calls \ {c} : calls'[d] = calls[d]
  BY <1>1 DEF RecoveryTypeOK
<1>4. UsesAsIssued'
  BY <1>3 DEF RecoveryInv, UsesAsIssued, At, CallPurpose
<1>5. ~At(c, "delete")
  BY DEF At
<1> QED BY <1>2, <1>3, <1>4, <1>5, CallInv

LEMMA ConfirmVerifyInv ==
  ASSUME RecoveryInv, NEW c \in Calls, NEW user \in Accounts, NEW code \in Codes,
         ConfirmVerifyEmail(c, user, code)
  PROVE RecoveryInv'
<1> DEFINE call == Doing(IF Expired(code) THEN "delete" ELSE "use", user, "verify", code)
<1>1. code \in EmailTokens /\ call \in Call
  BY DEF EmailTokens, Call, Kinds, Doing
<1>2. PurposeOf(code) \in issued
  BY <1>1 DEF ConfirmVerifyEmail, OwnCode, RecoveryInv, EntriesAsIssued
<1>3. PurposeOf(code) = [user |-> user, kind |-> "verify", token |-> code]
  BY DEF ConfirmVerifyEmail, OwnCode, PurposeOf
<1>4. /\ call.user = user /\ call.kind = "verify" /\ call.token = code
      /\ calls[c] = Absent /\ calls' = [calls EXCEPT ![c] = call]
      /\ UNCHANGED <<clock, accounts, emailTokens, issued, mailed, used>>
  BY DEF ConfirmVerifyEmail, Doing
<1> HIDE DEF call
<1> QED BY <1>1, <1>2, <1>3, <1>4, BeginInv

LEMMA ConfirmResetInv ==
  ASSUME RecoveryInv, NEW c \in Calls, NEW token \in EmailTokens,
         ConfirmPasswordReset(c, token)
  PROVE RecoveryInv'
<1> DEFINE user == emailTokens[token].user
<1> DEFINE call == Doing(IF GoodForReset(token) THEN "use" ELSE "delete",
                         user, "reset", token)
<1>1. emailTokens[token] \in EmailToken
  BY DEF ConfirmPasswordReset, RecoveryInv, RecoveryTypeOK
<1>2. call \in Call
  BY <1>1 DEF EmailToken, Call, Kinds, Doing
<1>3. PurposeOf(token) \in issued
  BY DEF ConfirmPasswordReset, RecoveryInv, EntriesAsIssued
<1>4. ASSUME GoodForReset(token)
      PROVE /\ PurposeOf(token) = [user |-> user, kind |-> "reset", token |-> token]
            /\ PurposeOf(token) \in mailed
  <2>1. PurposeOf(token) = [user |-> user, kind |-> "reset", token |-> token]
    BY <1>4 DEF GoodForReset, PurposeOf
  <2>2. token \in ResetTokens
    BY <1>3, <2>1 DEF RecoveryInv, TokensByKind
  <2>3. PICK q \in mailed : q.token = token
    BY <2>2, RecoveryAssumption DEF ConfirmPasswordReset
  <2>4. q \in issued
    BY <2>3 DEF RecoveryInv, RecoveryTypeOK
  <2>5. q = PurposeOf(token)
    BY <1>3, <2>1, <2>2, <2>3, <2>4 DEF RecoveryInv, TokensByKind
  <2> QED BY <2>1, <2>3, <2>5
<1>5. /\ call.user = user /\ call.kind = "reset" /\ call.token = token
      /\ call.step = "use" => GoodForReset(token)
      /\ calls[c] = Absent /\ calls' = [calls EXCEPT ![c] = call]
      /\ UNCHANGED <<clock, accounts, emailTokens, issued, mailed, used>>
  BY DEF ConfirmPasswordReset, Doing
<1> HIDE DEF call, user
<1> QED BY <1>2, <1>3, <1>4, <1>5, BeginInv

(***************************************************************************)
(* A token is used: the request that has used it is about to delete it.    *)
(***************************************************************************)
LEMMA UseInv == ASSUME RecoveryInv, NEW c \in Calls, Use(c) PROVE RecoveryInv'
<1> DEFINE u == calls[c].user
<1> DEFINE done == Doing("delete", u, calls[c].kind, calls[c].token)
<1> DEFINE usedUp == accounts[u] # Absent /\ calls[c].kind = "reset"
<1>1. RecoveryTypeOK
  BY DEF RecoveryInv
<1>2. calls[c] \in Call /\ calls[c] # Absent /\ calls[c].step = "use"
  BY <1>1 DEF Use, At, RecoveryTypeOK
<1>3. /\ done \in Call /\ done # Absent
      /\ done.step = "delete" /\ done.token = calls[c].token
  BY <1>2, RecoveryAssumption DEF Call, Doing
<1>4. CallPurpose(c) \in issued
  BY DEF Use, RecoveryInv, UsesAsIssued
<1>5. usedUp => calls[c].token \in ResetTokens
  BY <1>4 DEF RecoveryInv, TokensByKind, CallPurpose
<1>6. /\ calls' = [calls EXCEPT ![c] = IF accounts[u] # Absent THEN done ELSE Absent]
      /\ used' = used \cup (IF usedUp THEN {calls[c].token} ELSE {})
      /\ UNCHANGED <<clock, emailTokens, issued, mailed>>
  BY DEF Use
<1>7. accounts' \in [Accounts -> Account \cup {Absent}]
  <2>1. CASE accounts[u] = Absent
    BY <2>1, <1>1 DEF Use, RecoveryTypeOK
  <2>2. CASE accounts[u] # Absent
    <3>1. accounts[u] \in Account
      BY <2>2, <1>1, <1>2 DEF RecoveryTypeOK, Call
    <3>2. Changed(accounts[u], calls[c].kind) \in Account
      BY <3>1 DEF Changed, Account
    <3> QED BY <2>2, <3>2, <1>1 DEF Use, RecoveryTypeOK
  <2> QED BY <2>1, <2>2
<1>8. /\ calls'[c] = IF accounts[u] # Absent THEN done ELSE Absent
      /\ \A d \in Calls \ {c} : calls'[d] = calls[d]
  BY <1>1, <1>6 DEF RecoveryTypeOK
<1> HIDE DEF done, u
<1>9. RecoveryTypeOK'
  BY <1>1, <1>3, <1>5, <1>6, <1>7 DEF RecoveryTypeOK
<1>10. EntriesAsIssued' /\ TokensByKind'
  BY <1>6 DEF RecoveryInv, EntriesAsIssued, PurposeOf, TokensByKind
<1>11. UsesAsIssued'
  BY <1>3, <1>6, <1>8 DEF RecoveryInv, UsesAsIssued, At, CallPurpose
<1>12. UsedWereIssued'
  BY <1>4, <1>6 DEF RecoveryInv, UsedWereIssued, CallPurpose
<1>13. UsedTokensGo'
  <2> SUFFICES ASSUME NEW t \in used', emailTokens[t] # Absent
               PROVE \E d \in Calls : At(d, "delete")' /\ calls'[d].token = t
    BY <1>6 DEF UsedTokensGo
  <2>1. CASE usedUp /\ t = calls[c].token
    BY <2>1, <1>3, <1>8 DEF At
  <2>2. CASE t \in used
    <3>1. PICK d \in Calls : At(d, "delete") /\ calls[d].token = t
      BY <2>2 DEF RecoveryInv, UsedTokensGo
    <3>2. d # c
      BY <3>1, <1>2 DEF At
    <3> QED BY <3>1, <3>2, <1>8 DEF At
  <2> QED BY <2>1, <2>2, <1>6
<1> QED BY <1>9, <1>10, <1>11, <1>12, <1>13 DEF RecoveryInv

LEMMA DeleteInv == ASSUME RecoveryInv, NEW c \in Calls, Delete(c) PROVE RecoveryInv'
<1> DEFINE token == calls[c].token
<1>1. RecoveryTypeOK
  BY DEF RecoveryInv
<1>2. /\ emailTokens' = [emailTokens EXCEPT ![token] = Absent]
      /\ calls' = [calls EXCEPT ![c] = Absent]
      /\ UNCHANGED <<clock, accounts, issued, mailed, used>>
  BY DEF Delete
<1>3. calls'[c] = Absent /\ \A d \in Calls \ {c} : calls'[d] = calls[d]
  BY <1>1, <1>2 DEF RecoveryTypeOK
<1>4. \A t \in EmailTokens : emailTokens'[t] # Absent =>
        t # token /\ emailTokens'[t] = emailTokens[t]
  BY <1>1, <1>2 DEF RecoveryTypeOK
<1>5. RecoveryTypeOK'
  BY <1>1, <1>2 DEF RecoveryTypeOK
<1>6. EntriesAsIssued' /\ TokensByKind' /\ UsedWereIssued'
  BY <1>2, <1>4 DEF RecoveryInv, EntriesAsIssued, PurposeOf, TokensByKind, UsedWereIssued
<1>7. UsesAsIssued'
  BY <1>2, <1>3 DEF RecoveryInv, UsesAsIssued, At, CallPurpose
<1>8. UsedTokensGo'
  <2> SUFFICES ASSUME NEW t \in used, emailTokens'[t] # Absent
               PROVE \E d \in Calls : At(d, "delete")' /\ calls'[d].token = t
    BY <1>2 DEF UsedTokensGo
  <2>1. t # token /\ emailTokens[t] # Absent
    BY <1>1, <1>4 DEF RecoveryTypeOK, EmailTokens
  <2>2. PICK d \in Calls : At(d, "delete") /\ calls[d].token = t
    BY <2>1 DEF RecoveryInv, UsedTokensGo
  <2> QED BY <2>1, <2>2, <1>3 DEF At
<1> QED BY <1>5, <1>6, <1>7, <1>8 DEF RecoveryInv

LEMMA StepInv == RecoveryInv /\ [RecoveryNext]_recoveryVars => RecoveryInv'
<1> SUFFICES ASSUME RecoveryInv, [RecoveryNext]_recoveryVars PROVE RecoveryInv'
  OBVIOUS
<1> USE DEF RecoveryInv
<1>1. CASE UNCHANGED recoveryVars
  BY <1>1 DEF recoveryVars, RecoveryTypeOK, EntriesAsIssued, PurposeOf, TokensByKind,
    UsesAsIssued, CallPurpose, UsedWereIssued, UsedTokensGo, At
<1>2. CASE Later
  BY <1>2, RecoveryAssumption DEF Later, RecoveryTypeOK, EntriesAsIssued, PurposeOf,
    TokensByKind, UsesAsIssued, CallPurpose, UsedWereIssued, UsedTokensGo, At
<1> USE RecoveryAssumption DEF Kinds, EmailTokens
<1> HIDE DEF RecoveryInv
<1>3. ASSUME NEW c \in Calls, Mail(c) \/ Use(c) \/ Delete(c) PROVE RecoveryInv'
  BY <1>3, MailInv, UseInv, DeleteInv
<1>4. ASSUME NEW c \in Calls, NEW u \in Accounts, SendVerifyEmail(c, u) PROVE RecoveryInv'
  <2>1. PICK code \in Codes : Store(c, u, "verify", code, VerifyTTL)
    BY <1>4 DEF SendVerifyEmail
  <2>2. calls[c] = Absent /\ code \in EmailTokens /\ "verify" \in Kinds /\ VerifyTTL \in Nat
    BY <1>4 DEF SendVerifyEmail
  <2> QED BY <2>1, <2>2, StoreInv
<1>5. ASSUME NEW c \in Calls, NEW u \in Accounts, RequestPasswordReset(c, u)
      PROVE RecoveryInv'
  <2>1. PICK token \in NewResetTokens : Store(c, u, "reset", token, ResetTTL)
    BY <1>5 DEF RequestPasswordReset
  <2>2. calls[c] = Absent /\ token \in EmailTokens /\ "reset" \in Kinds /\ ResetTTL \in Nat
    BY <1>5 DEF RequestPasswordReset, NewResetTokens
  <2> QED BY <2>1, <2>2, StoreInv
<1>6. ASSUME NEW c \in Calls, NEW u \in Accounts, NEW code \in Codes,
             ConfirmVerifyEmail(c, u, code)
      PROVE RecoveryInv'
  BY <1>6, ConfirmVerifyInv
<1>7. ASSUME NEW c \in Calls, NEW t \in EmailTokens, ConfirmPasswordReset(c, t)
      PROVE RecoveryInv'
  BY <1>7, ConfirmResetInv
<1> QED BY <1>1, <1>2, <1>3, <1>4, <1>5, <1>6, <1>7 DEF RecoveryNext

-----------------------------------------------------------------------------
(***************************************************************************)
(* The clock, the accounts, the email tokens and the requests in flight    *)
(* keep their types (the store as the handlers of email.go use it).        *)
(***************************************************************************)
THEOREM RecoveryTyped == RecoverySpec => []RecoveryTypeOK
<1>1. RecoveryInv => RecoveryTypeOK
  BY DEF RecoveryInv
<1> QED BY <1>1, StartInv, StepInv, PTL DEF RecoverySpec

(***************************************************************************)
(* A reset token that was used is in the store only while a request is     *)
(* about to delete it (confirmPasswordReset).                              *)
(***************************************************************************)
THEOREM TokensGoWhenUsed == RecoverySpec => []UsedTokensGo
<1>1. RecoveryInv => UsedTokensGo
  BY DEF RecoveryInv
<1> QED BY <1>1, StartInv, StepInv, PTL DEF RecoverySpec

(***************************************************************************)
(* A password changes only by a token mailed for this, an address becomes  *)
(* verified only by a code drawn for this account (confirmVerifyEmail,     *)
(* confirmPasswordReset).                                                  *)
(***************************************************************************)
THEOREM AccountsChangeAsIssued == RecoverySpec => ChangesAsIssued
<1> DEFINE Lawful == \A u \in Accounts : accounts'[u] # accounts[u] =>
      \E c \in Calls :
        /\ At(c, "use") /\ calls'[c] # calls[c]
        /\ LET p == [user |-> u, kind |-> calls[c].kind, token |-> calls[c].token]
           IN /\ p \in issued
              /\ accounts'[u].version # accounts[u].version =>
                   p.kind = "reset" /\ p \in mailed
<1>1. ASSUME RecoveryInv, [RecoveryNext]_recoveryVars PROVE [Lawful]_recoveryVars
  <2>1. ASSUME NEW c \in Calls, Use(c), NEW u \in Accounts, accounts'[u] # accounts[u]
        PROVE /\ At(c, "use") /\ calls'[c] # calls[c]
              /\ LET p == [user |-> u, kind |-> calls[c].kind, token |-> calls[c].token]
                 IN /\ p \in issued
                    /\ accounts'[u].version # accounts[u].version =>
                         p.kind = "reset" /\ p \in mailed
    <3>1. RecoveryTypeOK /\ At(c, "use") /\ calls[c] \in Call
      BY <1>1, <2>1 DEF RecoveryInv, RecoveryTypeOK, Use, At
    <3>2. u = calls[c].user /\ accounts[u] # Absent /\ accounts[u] \in Account
      BY <2>1, <3>1 DEF Use, RecoveryTypeOK
    <3>3. calls'[c].step = "delete" /\ calls[c].step = "use"
      BY <2>1, <3>1, <3>2 DEF Use, Doing, At, RecoveryTypeOK
    <3>4. /\ CallPurpose(c) \in issued
          /\ calls[c].kind = "reset" => CallPurpose(c) \in mailed
      BY <1>1, <3>1 DEF RecoveryInv, UsesAsIssued
    <3>5. calls[c].kind # "reset" => accounts'[u].version = accounts[u].version
      BY <2>1, <3>1, <3>2 DEF Use, Changed, RecoveryTypeOK
    <3> QED BY <3>1, <3>2, <3>3, <3>4, <3>5 DEF CallPurpose
  <2>2. ASSUME ~ \E c \in Calls : Use(c) PROVE UNCHANGED accounts
    BY <1>1, <2>2 DEF RecoveryNext, recoveryVars, Later, Mail, Delete, SendVerifyEmail,
      RequestPasswordReset, Store, ConfirmVerifyEmail, ConfirmPasswordReset
  <2>3. CASE \E c \in Calls : Use(c)
    <3>1. PICK c \in Calls : Use(c)
      BY <2>3
    <3> QED BY <3>1, <2>1
  <2> QED BY <2>2, <2>3
<1>2. RecoverySpec => [][Lawful]_recoveryVars
  BY <1>1, StartInv, StepInv, PTL DEF RecoverySpec
<1> QED BY <1>2 DEF ChangesAsIssued
=============================================================================
