----------------------------- MODULE TwoFactor -----------------------------
(***************************************************************************)
(* The second factors of accounts, kept in the store: set up, confirmed    *)
(* and disabled by requests that hold no lock between two calls of the     *)
(* store.  A login with a second factor (in Tokens) does not read them.    *)
(*                                                                         *)
(* A call of MemoryStore is one critical section of its mutex.  A call of  *)
(* PostgresStore is one statement, except for CreateSecondFactor: a        *)
(* transaction in read committed mode, tried again when its commit fails.  *)
(* A DELETE sees the rows that were committed when it began, waits for     *)
(* those that another transaction has locked, and looks again at each; a   *)
(* row that was deleted and inserted again meanwhile is not one of them.   *)
(***************************************************************************)
EXTENDS Backend, Integers, FiniteSets

CONSTANTS
  Users,        \* accounts; PostgreSQL has a row of users for each
  FactorIDs,    \* bound of the model: factor ids in use at a time
  Requests,     \* bound of the model: requests between two steps
  MaxAttempts,  \* 3: maxAttempts of withTx
  Nil           \* no request

Factor == [id: FactorIDs, user: Users, verified: BOOLEAN]

(***************************************************************************)
(* A request in flight, and what it does next: a DELETE of a setup that    *)
(* has seen some rows, the DELETE of Disable, the commit of a setup, which *)
(* has locked rows by then, or the verification of the factor it has read. *)
(***************************************************************************)
Job == [step: {"begin", "delete", "commit", "verify", "disable"}, user: Users,
        id: FactorIDs \cup {Nil}, rows: SUBSET FactorIDs, attempt: 1 .. MaxAttempts]

ASSUME TwoFactorAssumption ==
  /\ MaxAttempts \in Nat \ {0} /\ Nil \notin Job /\ Nil \notin FactorIDs
  /\ IsFiniteSet(Requests) /\ Requests # {}

VARIABLES
  factors,  \* MemoryStore.secondFactor, or the rows of second_factors
  jobs      \* the requests in flight

vars == <<backend, factors, jobs>>

TypeOK ==
  /\ backend \in Backends
  /\ factors \subseteq Factor
  /\ jobs \in [Requests -> Job \cup {Nil}]

Init ==
  /\ OpenStore
  /\ factors = {}
  /\ jobs = [r \in Requests |-> Nil]

-----------------------------------------------------------------------------
Of(user) == {f \in factors : f.user = user}
IDs(rows) == {f.id : f \in rows}
Idle(r) == jobs[r] = Nil
AtStep(r, step) == jobs[r] # Nil /\ jobs[r].step = step

Working(step, user, id, rows, attempt) ==
  [step |-> step, user |-> user, id |-> id, rows |-> rows, attempt |-> attempt]

Do(r, job) == jobs' = [jobs EXCEPT ![r] = job]

\* Rows that a transaction has deleted and not committed yet.
Locked == UNION {jobs[r].rows : r \in {q \in Requests : AtStep(q, "commit")}}

\* randomID: an id that nothing refers to any more stands for a new one.
NewIDs == {i \in FactorIDs : i \notin IDs(factors) /\
             \A r \in Requests : ~Idle(r) => jobs[r].id # i /\ i \notin jobs[r].rows}

Pending(id, user) == [id |-> id, user |-> user, verified |-> FALSE]

(***************************************************************************)
(* POST /v1/auth/2fa/setup, whose answer does not depend on the store's:   *)
(* every error of CreateSecondFactor is ignored.                           *)
(***************************************************************************)
\* MemoryStore: a factor that exists, verified or not, is replaced.
Setup(user) ==
  /\ InMemory
  /\ \E i \in NewIDs : factors' = (factors \ Of(user)) \cup {Pending(i, user)}
  /\ UNCHANGED jobs

\* PostgresStore: the id is given to every attempt of the transaction.
SetupStart(r, user) ==
  /\ OnPostgres /\ Idle(r)
  /\ \E i \in NewIDs : Do(r, Working("begin", user, i, {}, 1))
  /\ UNCHANGED factors

\* Mutant: the DELETE does not ask for verified_at IS NULL.
AllFactors(user) == IDs(Of(user))

Unverified(user) == IDs({f \in Of(user) : ~f.verified})

\* The DELETE of an attempt begins.
SetupDelete(r) ==
  LET t == jobs[r]
  IN /\ AtStep(r, "begin")
     /\ Do(r, Working("delete", t.user, t.id, Unverified(t.user), t.attempt))
     /\ UNCHANGED factors

\* It has its locks, and the INSERT follows; that fails when an earlier
\* attempt was committed after all, and its row verified before the DELETE:
\* ErrConflict, and a rollback.
SetupInsert(r) ==
  LET t == jobs[r]
      gone == t.rows \cap Unverified(t.user)
  IN /\ AtStep(r, "delete") /\ t.rows \cap Locked = {}
     /\ IF t.id \in IDs(factors) \ gone THEN Do(r, Nil)
        ELSE Do(r, Working("commit", t.user, t.id, gone, t.attempt))
     /\ UNCHANGED factors

\* Mutant: the unverified factors are not deleted.
KeepsAll(t) == factors \cup {Pending(t.id, t.user)}

Committed(t) == {f \in factors : f.id \notin t.rows} \cup {Pending(t.id, t.user)}

\* The row inserted is none that a statement has seen, if an earlier attempt
\* was committed after all.
Others(i) == [q \in Requests |-> IF Idle(q) THEN Nil ELSE [jobs[q] EXCEPT !.rows = @ \ {i}]]

Commit(r, job) ==
  /\ factors' = Committed(jobs[r])
  /\ jobs' = [Others(jobs[r].id) EXCEPT ![r] = job]

SetupCommit(r) == AtStep(r, "commit") /\ Commit(r, Nil)

\* The commit fails, before or after it took effect, and withTx tries again.
SetupCommitFails(r) ==
  LET t == jobs[r]
      next == IF t.attempt = MaxAttempts THEN Nil
              ELSE Working("begin", t.user, t.id, {}, t.attempt + 1)
  IN /\ AtStep(r, "commit")
     /\ Commit(r, next) \/ (Do(r, next) /\ UNCHANGED factors)

-----------------------------------------------------------------------------
\* GetSecondFactor: a verified factor comes before those that are not; which
\* of several, the times or the database decide.
Found(user) == {f \in Of(user) : f.verified \/ \A g \in Of(user) : ~g.verified}

\* POST /v1/auth/2fa/confirm reads a factor; without one it is refused.
\* Of the code only its length is looked at.
Confirm(r, user) ==
  /\ Idle(r)
  /\ \E f \in Found(user) : Do(r, Working("verify", user, f.id, {}, 1))
  /\ UNCHANGED factors

\* Mutant: the factors of the account are verified, whichever was read.
VerifiedByUser(c) == {[f EXCEPT !.verified = f.verified \/ f.user = c.user] : f \in factors}

\* VerifySecondFactor looks the factor up by its id.
Verified(c) == {[f EXCEPT !.verified = f.verified \/ f.id = c.id] : f \in factors}

(***************************************************************************)
(* The confirmation's second call.  Its error is ignored: the answer is    *)
(* that the factor is verified even when it is not there any more.         *)
(***************************************************************************)
ConfirmFinish(r) ==
  /\ AtStep(r, "verify") /\ jobs[r].id \notin Locked
  /\ factors' = Verified(jobs[r])
  /\ Do(r, Nil)

\* POST /v1/auth/2fa/disable: the password is not looked at.
Disable(user) ==
  /\ InMemory
  /\ factors' = factors \ Of(user)
  /\ UNCHANGED jobs

DisableStart(r, user) ==
  /\ OnPostgres /\ Idle(r)
  /\ Do(r, Working("disable", user, Nil, IDs(Of(user)), 1))
  /\ UNCHANGED factors

DisableFinish(r) ==
  /\ AtStep(r, "disable") /\ jobs[r].rows \cap Locked = {}
  /\ factors' = {f \in factors : f.id \notin jobs[r].rows}
  /\ Do(r, Nil)

\* A call of the database fails, or its client has gone: what it did is
\* rolled back and the error ignored.
GiveUp(r) ==
  /\ OnPostgres /\ ~Idle(r)
  /\ Do(r, Nil)
  /\ UNCHANGED factors

Next ==
  /\ UNCHANGED backend
  /\ \/ \E user \in Users : Setup(user) \/ Disable(user)
     \/ \E r \in Requests :
          \/ \E user \in Users :
               SetupStart(r, user) \/ Confirm(r, user) \/ DisableStart(r, user)
          \/ SetupDelete(r) \/ SetupInsert(r) \/ SetupCommit(r) \/ SetupCommitFails(r)
          \/ ConfirmFinish(r) \/ DisableFinish(r) \/ GiveUp(r)

Spec == Init /\ [][Next]_vars

-----------------------------------------------------------------------------
(***************************************************************************)
(* A factor is verified only by the end of a confirmation that read this   *)
(* factor, for its own user: one that began before a new setup, or before  *)
(* the factor was disabled, neither verifies the new factor nor brings     *)
(* back the old one (confirm2FA, VerifySecondFactor).                      *)
(***************************************************************************)
VerifiedByItsConfirmation ==
  [][\A f \in factors' : f.verified /\ f \notin factors =>
       /\ Pending(f.id, f.user) \in factors
       /\ \E r \in Requests :
            /\ AtStep(r, "verify") /\ jobs[r].id = f.id /\ jobs[r].user = f.user
            /\ jobs'[r] = Nil]_vars

(***************************************************************************)
(* In PostgreSQL a verified factor leaves the table only when its account  *)
(* disables two-factor authentication: no setup takes it away, whatever    *)
(* is verified while its DELETE waits and however often its commit fails   *)
(* (CreateSecondFactor of postgres.go; the one of memory.go does).         *)
(***************************************************************************)
VerifiedIsKept ==
  [][OnPostgres => \A f \in factors : f.verified /\ f.id \notin IDs(factors)' =>
       \E r \in Requests : AtStep(r, "disable") /\ jobs[r].user = f.user /\ jobs'[r] = Nil]_vars

(***************************************************************************)
(* An account has one factor in memory.  In PostgreSQL setups that overlap *)
(* leave a factor each, because read committed hides them from each        *)
(* other's DELETE; but abandoned factors do not pile up, and no more are   *)
(* verified, than there were requests at a time.                           *)
(***************************************************************************)
FactorsAreFew ==
  \A u \in Users :
    /\ InMemory => Cardinality(Of(u)) <= 1
    /\ Cardinality(Unverified(u)) <= Cardinality(Requests)
    /\ Cardinality({f \in Of(u) : f.verified}) <= Cardinality(Requests)
=============================================================================
