------------------------------ MODULE Recovery ------------------------------
(***************************************************************************)
(* Email verification and password reset: tokens that the store keeps, and *)
(* four handlers that hold no lock between two calls of the store.         *)
(*                                                                         *)
(* The store is MemoryStore.  Its accounts are given: no handler of the    *)
(* server calls CreateAccount, whoever fills the store does.               *)
(***************************************************************************)
EXTENDS Integers

CONSTANTS
  Accounts,     \* account ids, known to the server
  Stored,       \* those of them that the store holds; {} in a fresh program
  Codes,        \* six-digit codes: drawn at random, and drawn again
  ResetTokens,  \* random 256-bit tokens: never drawn again, never guessed
  Calls,        \* bound of the model: requests between two calls of the store
  VerifyTTL,    \* 15 min: lifetime of a code
  ResetTTL,     \* 30 min: lifetime of a reset token
  LastInstant,  \* bound of the model: last instant of the clock
  Absent        \* the absent map entry, and no request

EmailTokens == Codes \cup ResetTokens
Kinds == {"verify", "reset"}
EmailToken == [user: Accounts, kind: Kinds, expires: Int]
Account == [verified: BOOLEAN, version: Nat]
(***************************************************************************)
(* What a request remembers between two calls of the store, and what it    *)
(* does next: mail the token it has stored, use the token it has found     *)
(* good, or delete the token it has used or found bad.                     *)
(***************************************************************************)
Call == [step: {"mail", "use", "delete"},
         user: Accounts, kind: Kinds, token: EmailTokens]

ASSUME RecoveryAssumption ==
  /\ Stored \subseteq Accounts /\ Codes \cap ResetTokens = {}
  /\ VerifyTTL \in Nat /\ ResetTTL \in Nat /\ LastInstant \in Nat
  /\ Absent \notin EmailToken /\ Absent \notin Account /\ Absent \notin Call

VARIABLES
  clock,        \* s.now()
  accounts,     \* MemoryStore.accounts: verified, and the token version
  emailTokens,  \* MemoryStore.emailTokens, by the hash of the token
  calls,        \* the requests in flight
  issued,       \* history: which token was stored for whom, and why
  mailed,       \* what was handed to the mailer: [user, kind, token]
  used          \* history: reset tokens that have changed a password

recoveryVars == <<clock, accounts, emailTokens, calls, issued, mailed, used>>

Purpose == [user: Accounts, kind: Kinds, token: EmailTokens]

RecoveryTypeOK ==
  /\ clock \in 0 .. LastInstant
  /\ accounts \in [Accounts -> Account \cup {Absent}]
  /\ emailTokens \in [EmailTokens -> EmailToken \cup {Absent}]
  /\ calls \in [Calls -> Call \cup {Absent}]
  /\ issued \subseteq Purpose /\ mailed \subseteq issued
  /\ used \subseteq ResetTokens

RecoveryInit ==
  /\ clock = 0
  /\ accounts = [u \in Accounts |->
       IF u \in Stored THEN [verified |-> FALSE, version |-> 0] ELSE Absent]
  /\ emailTokens = [t \in EmailTokens |-> Absent]
  /\ calls = [c \in Calls |-> Absent]
  /\ issued = {} /\ mailed = {} /\ used = {}

-----------------------------------------------------------------------------
NewResetTokens == {t \in ResetTokens : \A p \in issued : p.token # t}

Doing(step, user, kind, token) ==
  [step |-> step, user |-> user, kind |-> kind, token |-> token]

At(c, step) == calls[c] # Absent /\ calls[c].step = step

\* CreateEmailToken: an entry under the same hash is replaced, whoever's it is.
Store(c, user, kind, token, ttl) ==
  /\ emailTokens' = [emailTokens EXCEPT
       ![token] = [user |-> user, kind |-> kind, expires |-> clock + ttl]]
  /\ issued' = issued \cup {[user |-> user, kind |-> kind, token |-> token]}
  /\ calls' = [calls EXCEPT ![c] = Doing("mail", user, kind, token)]
  /\ UNCHANGED <<clock, accounts, mailed, used>>

\* POST /v1/auth/verify-email.  The code is stored before the account is read.
SendVerifyEmail(c, user) ==
  /\ calls[c] = Absent
  /\ \E code \in Codes : Store(c, user, "verify", code, VerifyTTL)

\* POST /v1/auth/password-reset for the address of `user`; nothing happens,
\* and the answer is the same, when the store has no such account.
RequestPasswordReset(c, user) ==
  /\ calls[c] = Absent /\ accounts[user] # Absent
  /\ \E token \in NewResetTokens : Store(c, user, "reset", token, ResetTTL)

\* The rest of both: without an account the code is never sent, and stays.
Mail(c) ==
  /\ At(c, "mail")
  /\ mailed' = mailed \cup {p \in issued :
       /\ accounts[p.user] # Absent
       /\ p.user = calls[c].user /\ p.kind = calls[c].kind
       /\ p.token = calls[c].token}
  /\ calls' = [calls EXCEPT ![c] = Absent]
  /\ UNCHANGED <<clock, accounts, emailTokens, issued, used>>

-----------------------------------------------------------------------------
\* What the handler asks of the entry it has read, the deadline apart.
OwnCode(user, code) ==
  /\ emailTokens[code] # Absent
  /\ emailTokens[code].user = user /\ emailTokens[code].kind = "verify"

Expired(token) == clock >= emailTokens[token].expires

(***************************************************************************)
(* POST /v1/auth/verify-email/confirm.  A user may type any code; another  *)
(* one's, a used one and no code at all are refused and change nothing.    *)
(***************************************************************************)
ConfirmVerifyEmail(c, user, code) ==
  /\ calls[c] = Absent /\ OwnCode(user, code)
  /\ calls' = [calls EXCEPT ![c] =
       Doing(IF Expired(code) THEN "delete" ELSE "use", user, "verify", code)]
  /\ UNCHANGED <<clock, accounts, emailTokens, issued, mailed, used>>

\* Mutant: a code does as well as a reset token.
GoodForAny(token) == ~Expired(token)

GoodForReset(token) == emailTokens[token].kind = "reset" /\ ~Expired(token)

(***************************************************************************)
(* POST /v1/auth/password-reset/confirm.  The caller presents a token that *)
(* was mailed, or the text of a code: any account's code is deleted by it. *)
(***************************************************************************)
ConfirmPasswordReset(c, token) ==
  /\ calls[c] = Absent /\ emailTokens[token] # Absent
  /\ token \in Codes \/ \E p \in mailed : p.token = token
  /\ calls' = [calls EXCEPT ![c] =
       Doing(IF GoodForReset(token) THEN "use" ELSE "delete",
             emailTokens[token].user, "reset", token)]
  /\ UNCHANGED <<clock, accounts, emailTokens, issued, mailed, used>>

\* What SetEmailVerified and UpdatePassword make of an account.
Changed(a, kind) ==
  IF kind = "reset" THEN [verified |-> a.verified, version |-> a.version + 1]
  ELSE [verified |-> TRUE, version |-> a.version]

(***************************************************************************)
(* SetEmailVerified or UpdatePassword, whose error (no such account) ends  *)
(* the request with the token still there.  The entry is not read again.   *)
(***************************************************************************)
Use(c) ==
  LET u == calls[c].user
      kind == calls[c].kind
      token == calls[c].token
  IN /\ At(c, "use")
     /\ IF accounts[u] = Absent
        THEN /\ calls' = [calls EXCEPT ![c] = Absent]
             /\ UNCHANGED <<accounts, used>>
        ELSE /\ calls' = [calls EXCEPT ![c] = Doing("delete", u, kind, token)]
             /\ accounts' = [accounts EXCEPT ![u] = Changed(accounts[u], kind)]
             /\ used' = used \cup IF kind = "reset" THEN {token} ELSE {}
     /\ UNCHANGED <<clock, emailTokens, issued, mailed>>

\* Mutant: the token that was used is kept.
DeleteNothing(c) ==
  /\ At(c, "delete")
  /\ calls' = [calls EXCEPT ![c] = Absent]
  /\ UNCHANGED <<clock, accounts, emailTokens, issued, mailed, used>>

\* DeleteEmailToken deletes what is under the hash now, whoever's it is.
Delete(c) ==
  /\ At(c, "delete")
  /\ emailTokens' = [emailTokens EXCEPT ![calls[c].token] = Absent]
  /\ calls' = [calls EXCEPT ![c] = Absent]
  /\ UNCHANGED <<clock, accounts, issued, mailed, used>>

Later ==
  /\ clock < LastInstant
  /\ clock' = clock + 1
  /\ UNCHANGED <<accounts, emailTokens, calls, issued, mailed, used>>

RecoveryNext ==
  \/ Later
  \/ \E c \in Calls :
       \/ Mail(c) \/ Use(c) \/ Delete(c)
       \/ \E u \in Accounts :
            \/ SendVerifyEmail(c, u) \/ RequestPasswordReset(c, u)
            \/ \E code \in Codes : ConfirmVerifyEmail(c, u, code)
       \/ \E t \in EmailTokens : ConfirmPasswordReset(c, t)

RecoverySpec == RecoveryInit /\ [][RecoveryNext]_recoveryVars

-----------------------------------------------------------------------------
(***************************************************************************)
(* A reset token that has changed a password is in the store only while    *)
(* some request is about to delete it: once the confirmations have         *)
(* answered it is gone for good, although each of them reads, uses and     *)
(* deletes it in three calls of the store (confirmPasswordReset).          *)
(***************************************************************************)
UsedTokensGo == \A t \in used : emailTokens[t] # Absent =>
  \E c \in Calls : At(c, "delete") /\ calls[c].token = t

(***************************************************************************)
(* A password changes only in a step that uses a token mailed to this      *)
(* account for a reset, and an address becomes verified only by a code     *)
(* drawn for this account, however codes collide and whatever a handler    *)
(* has read before (confirmVerifyEmail, confirmPasswordReset).             *)
(***************************************************************************)
ChangesAsIssued ==
  [][\A u \in Accounts : accounts'[u] # accounts[u] =>
       \E c \in Calls :
         /\ At(c, "use") /\ calls'[c] # calls[c]
         /\ LET p == [user |-> u, kind |-> calls[c].kind, token |-> calls[c].token]
            IN /\ p \in issued
               /\ accounts'[u].version # accounts[u].version =>
                    p.kind = "reset" /\ p \in mailed]_recoveryVars
=============================================================================
