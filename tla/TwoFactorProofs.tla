-------------------------- MODULE TwoFactorProofs --------------------------
(***************************************************************************)
(* A factor is verified only by a confirmation that read it, and is taken  *)
(* from a PostgreSQL table only by Disable: for any number of users,       *)
(* factors, requests and attempts.                                         *)
(*                                                                         *)
(* The invariant says that an id is of one user, wherever it is found (in  *)
(* the store, or in what a request has read or is about to store), of one  *)
(* row and of one setup; and that a transaction has locked rows that are   *)
(* not verified, the one an earlier attempt has left among them.           *)
(***************************************************************************)
EXTENDS TwoFactor, FiniteSetTheorems, TLAPS

Refers(i, u) ==
  \/ \E f \in factors : f.id = i /\ f.user = u
  \/ \E r \in Requests :
       ~Idle(r) /\ jobs[r].user = u /\ (jobs[r].id = i \/ i \in jobs[r].rows)

OneUser == \A i \in FactorIDs, u, v \in Users : Refers(i, u) /\ Refers(i, v) => u = v

LockedUnverified ==
  \A r \in Requests : AtStep(r, "commit") =>
    \A f \in factors : f.id \in jobs[r].rows => ~f.verified

UniqueIDs == \A f, g \in factors : f.id = g.id => f = g

Inserts ==
  \A r \in Requests : AtStep(r, "commit") =>
    \A f \in factors : f.id = jobs[r].id => f.id \in jobs[r].rows

SettingUp(r) == ~Idle(r) /\ jobs[r].step \in {"begin", "delete", "commit"}

OwnIDs ==
  \A r, q \in Requests : SettingUp(r) =>
    /\ jobs[r].id # Nil
    /\ SettingUp(q) /\ jobs[r].id = jobs[q].id => r = q

FactorInv == TypeOK /\ OneUser /\ LockedUnverified /\ UniqueIDs /\ Inserts /\ OwnIDs

-----------------------------------------------------------------------------
\* A step that refers to nothing new, or only for one user to ids that
\* nothing has referred to, keeps every id to its user.
LEMMA NewIDsOnly ==
  ASSUME OneUser, NEW w,
         \A i \in FactorIDs, u \in Users : Refers(i, u)' => Refers(i, u) \/ (i \in NewIDs /\ u = w)
  PROVE OneUser'
<1>1. \A i \in NewIDs, u \in Users : ~Refers(i, u)
  BY DEF Refers, NewIDs, IDs
<1> QED BY <1>1 DEF OneUser

\* One request goes on, and the factors are as they were.
LEMMA JobStep ==
  ASSUME FactorInv, NEW r \in Requests, NEW job \in Job \cup {Nil},
         Do(r, job), UNCHANGED factors,
         job # Nil => \A i \in FactorIDs :
           job.id = i \/ i \in job.rows => Refers(i, job.user) \/ i \in NewIDs,
         job # Nil /\ job.step = "commit" =>
           \A f \in factors :
             /\ f.id \in job.rows => ~f.verified
             /\ f.id = job.id => f.id \in job.rows,
         job # Nil /\ job.step \in {"begin", "delete", "commit"} =>
           job.id \in NewIDs \/ (SettingUp(r) /\ job.id = jobs[r].id),
         UNCHANGED backend
  PROVE FactorInv'
<1>1. jobs' = [jobs EXCEPT ![r] = job] /\ jobs \in [Requests -> Job \cup {Nil}]
  BY DEF Do, FactorInv, TypeOK
<1>2. TypeOK'
  BY <1>1 DEF FactorInv, TypeOK
<1>3. ASSUME NEW i \in FactorIDs, NEW u \in Users, Refers(i, u)'
      PROVE Refers(i, u) \/ (i \in NewIDs /\ u = job.user)
  <2>1. CASE \E f \in factors : f.id = i /\ f.user = u
    BY <2>1 DEF Refers
  <2>2. CASE \E q \in Requests :
               ~Idle(q)' /\ jobs'[q].user = u /\ (jobs'[q].id = i \/ i \in jobs'[q].rows)
    <3>1. PICK q \in Requests :
            ~Idle(q)' /\ jobs'[q].user = u /\ (jobs'[q].id = i \/ i \in jobs'[q].rows)
      BY <2>2
    <3>2. CASE q = r
      <4>1. jobs'[q] = job
        BY <1>1, <3>2
      <4> QED BY <3>1, <4>1 DEF Idle
    <3>3. CASE q # r
      <4>1. jobs'[q] = jobs[q]
        BY <1>1, <3>3
      <4> QED BY <3>1, <4>1 DEF Refers, Idle
    <3> QED BY <3>2, <3>3
  <2> QED BY <1>3, <2>1, <2>2 DEF Refers
<1>4. OneUser'
  BY <1>3, NewIDsOnly DEF FactorInv
<1>5. LockedUnverified' /\ Inserts' /\ UniqueIDs'
  <2>1. ASSUME NEW q \in Requests, AtStep(q, "commit")', NEW f \in factors
        PROVE /\ f.id \in jobs'[q].rows => ~f.verified
              /\ f.id = jobs'[q].id => f.id \in jobs'[q].rows
    <3>1. CASE q = r
      <4>1. jobs'[q] = job
        BY <1>1, <3>1
      <4> QED BY <2>1, <4>1 DEF AtStep
    <3>2. CASE q # r
      <4>1. jobs'[q] = jobs[q]
        BY <1>1, <3>2
      <4> QED BY <2>1, <4>1 DEF AtStep, FactorInv, LockedUnverified, Inserts
    <3> QED BY <3>1, <3>2
  <2> QED BY <2>1 DEF LockedUnverified, Inserts, UniqueIDs, FactorInv
<1>6. \A q \in Requests : IF q = r THEN jobs'[q] = job ELSE jobs'[q] = jobs[q]
  BY <1>1
<1>7. job # Nil /\ job.step \in {"begin", "delete", "commit"} => job.id # Nil
  BY TwoFactorAssumption DEF FactorInv, OwnIDs, NewIDs
<1>8. ASSUME NEW x \in Requests, x # r, SettingUp(x)', SettingUp(r)', jobs'[x].id = jobs'[r].id
      PROVE FALSE
  <2>1. jobs'[x] = jobs[x] /\ jobs'[r] = job /\ SettingUp(x)
    BY <1>6, <1>8 DEF SettingUp, Idle
  <2>2. job.id \in NewIDs \/ (SettingUp(r) /\ job.id = jobs[r].id)
    BY <1>8, <2>1 DEF SettingUp, Idle
  <2>3. job.id \notin NewIDs
    BY <1>8, <2>1 DEF NewIDs, SettingUp
  <2> QED BY <1>8, <2>1, <2>2, <2>3 DEF FactorInv, OwnIDs
<1>9. OwnIDs'
  <2> SUFFICES ASSUME NEW p \in Requests, NEW q \in Requests, SettingUp(p)'
               PROVE /\ jobs'[p].id # Nil
                     /\ SettingUp(q)' /\ jobs'[p].id = jobs'[q].id => p = q
    BY DEF OwnIDs
  <2>1. jobs'[p].id # Nil
    BY <1>6, <1>7 DEF FactorInv, OwnIDs, SettingUp, Idle
  <2>2. ASSUME SettingUp(q)', jobs'[p].id = jobs'[q].id, p # q PROVE FALSE
    <3>1. p # r /\ q # r
      BY <1>8, <2>2
    <3> QED BY <1>6, <2>2, <3>1 DEF FactorInv, OwnIDs, SettingUp, Idle
  <2> QED BY <2>1, <2>2
<1> QED BY <1>2, <1>4, <1>5, <1>9 DEF FactorInv

\* A request ends, starts again, or goes on with some of its rows.
GoesOn(q) ==
  jobs'[q] = Nil \/
    /\ jobs[q] # Nil /\ jobs'[q].user = jobs[q].user /\ jobs'[q].id = jobs[q].id
    /\ jobs'[q].rows \subseteq jobs[q].rows
    /\ jobs'[q].step = jobs[q].step \/ (SettingUp(q) /\ jobs'[q].step = "begin")

\* Factors change, each to one of its own id, user and request.
LEMMA FactorStep ==
  ASSUME FactorInv, UNCHANGED backend, factors' \subseteq Factor, NEW w,
         jobs' \in [Requests -> Job \cup {Nil}], \A q \in Requests : GoesOn(q),
         \A g \in factors' : Refers(g.id, g.user) \/ (g.id \in NewIDs /\ g.user = w),
         LockedUnverified', Inserts', UniqueIDs'
  PROVE FactorInv'
<1>1. TypeOK'
  BY DEF FactorInv, TypeOK
<1>2. ASSUME NEW i \in FactorIDs, NEW u \in Users, Refers(i, u)'
      PROVE Refers(i, u) \/ (i \in NewIDs /\ u = w)
  <2>1. CASE \E f \in factors' : f.id = i /\ f.user = u
    BY <2>1
  <2>2. CASE \E q \in Requests :
               ~Idle(q)' /\ jobs'[q].user = u /\ (jobs'[q].id = i \/ i \in jobs'[q].rows)
    BY <2>2 DEF Refers, Idle, GoesOn
  <2> QED BY <1>2, <2>1, <2>2 DEF Refers
<1>3. OneUser'
  BY <1>2, NewIDsOnly DEF FactorInv
<1>4. \A q \in Requests : SettingUp(q)' => jobs'[q].id = jobs[q].id /\ SettingUp(q)
  BY DEF SettingUp, Idle, GoesOn
<1>5. OwnIDs'
  BY <1>4 DEF OwnIDs, FactorInv
<1> QED BY <1>1, <1>3, <1>5 DEF FactorInv

\* The same, when requests only end.
LEMMA EndStep ==
  ASSUME FactorInv, UNCHANGED backend, factors' \subseteq Factor, NEW w,
         jobs' \in [Requests -> Job \cup {Nil}],
         \A q \in Requests : jobs'[q] \in {jobs[q], Nil},
         \A g \in factors' : Refers(g.id, g.user) \/ (g.id \in NewIDs /\ g.user = w),
         \A g \in factors', q \in Requests :
           AtStep(q, "commit") =>
             /\ g.id \in jobs[q].rows => ~g.verified
             /\ g.id = jobs[q].id => g.id \in jobs[q].rows,
         UniqueIDs'
  PROVE FactorInv'
<1>1. \A q \in Requests : GoesOn(q)
  BY DEF GoesOn
<1>2. \A q \in Requests : AtStep(q, "commit")' => jobs'[q] = jobs[q] /\ AtStep(q, "commit")
  BY DEF AtStep
<1>3. LockedUnverified' /\ Inserts'
  BY <1>2 DEF LockedUnverified, Inserts
<1> QED BY <1>1, <1>3, FactorStep

-----------------------------------------------------------------------------
LEMMA WorkingJob ==
  ASSUME NEW step \in {"begin", "delete", "commit", "verify", "disable"}, NEW user \in Users,
         NEW id \in FactorIDs \cup {Nil}, NEW rows \in SUBSET FactorIDs,
         NEW attempt \in 1 .. MaxAttempts
  PROVE Working(step, user, id, rows, attempt) \in Job
BY DEF Working, Job

\* A factor of the store refers to its own id and user.
LEMMA Stored ==
  ASSUME FactorInv, NEW f \in factors
  PROVE f \in Factor /\ Refers(f.id, f.user)
BY DEF FactorInv, TypeOK, Refers

LEMMA JobOf ==
  ASSUME FactorInv, NEW r \in Requests, NEW step, AtStep(r, step)
  PROVE /\ jobs[r] \in Job /\ ~Idle(r) /\ jobs[r] # Nil /\ jobs[r].step = step
        /\ \A i \in FactorIDs : jobs[r].id = i \/ i \in jobs[r].rows => Refers(i, jobs[r].user)
BY DEF AtStep, Idle, FactorInv, TypeOK, Refers

LEMMA SettingUpAt ==
  ASSUME NEW r \in Requests, NEW step \in {"begin", "delete", "commit"}, AtStep(r, step)
  PROVE SettingUp(r)
BY DEF AtStep, SettingUp, Idle

LEMMA StartInv ==
  ASSUME FactorInv, UNCHANGED backend, NEW r \in Requests, NEW user \in Users,
         SetupStart(r, user) \/ Confirm(r, user) \/ DisableStart(r, user)
  PROVE FactorInv'
<1>0. 1 \in 1 .. MaxAttempts
  BY TwoFactorAssumption
<1>1. CASE SetupStart(r, user)
  <2>1. PICK i \in NewIDs : Do(r, Working("begin", user, i, {}, 1))
    BY <1>1 DEF SetupStart
  <2>2. Working("begin", user, i, {}, 1) \in Job /\ UNCHANGED factors
    BY <1>0, <1>1, WorkingJob DEF NewIDs, SetupStart
  <2> QED BY <2>1, <2>2, JobStep DEF Working
<1>2. CASE Confirm(r, user)
  <2>1. PICK f \in Found(user) : Do(r, Working("verify", user, f.id, {}, 1))
    BY <1>2 DEF Confirm
  <2>2. f \in Factor /\ Refers(f.id, user)
    BY Stored DEF Found, Of
  <2>3. Working("verify", user, f.id, {}, 1) \in Job /\ UNCHANGED factors
    BY <1>0, <1>2, <2>2, WorkingJob DEF Factor, Confirm
  <2> QED BY <2>1, <2>2, <2>3, JobStep DEF Working
<1>3. CASE DisableStart(r, user)
  <2>1. \A i \in IDs(Of(user)) : i \in FactorIDs /\ Refers(i, user)
    BY Stored DEF IDs, Of, Factor
  <2>2. Working("disable", user, Nil, IDs(Of(user)), 1) \in Job
    BY <1>0, <2>1, WorkingJob
  <2> QED BY <1>3, <2>1, <2>2, JobStep, TwoFactorAssumption DEF DisableStart, Working
<1> QED BY <1>1, <1>2, <1>3

LEMMA SetupInv ==
  ASSUME FactorInv, UNCHANGED backend, NEW r \in Requests, SetupDelete(r) \/ SetupInsert(r)
  PROVE FactorInv'
<1> DEFINE t == jobs[r]
           u == Unverified(t.user)
<1>0. /\ t \in Job /\ \A i \in FactorIDs : t.id = i => Refers(i, t.user)
      /\ t.user \in Users /\ t.attempt \in 1 .. MaxAttempts /\ t.id \in FactorIDs \cup {Nil}
      /\ t.rows \in SUBSET FactorIDs /\ UNCHANGED factors
      /\ \A i \in FactorIDs : i \in t.rows => Refers(i, t.user)
      /\ SettingUp(r)
  BY JobOf, SettingUpAt DEF Job, SetupDelete, SetupInsert
<1>1. \A i \in u : i \in FactorIDs /\ Refers(i, t.user)
  BY Stored DEF Unverified, IDs, Of, Factor
<1>2. CASE SetupDelete(r)
  <2> DEFINE job == Working("delete", t.user, t.id, u, t.attempt)
  <2>1. Do(r, job) /\ job \in Job
    BY <1>0, <1>1, <1>2, WorkingJob DEF SetupDelete
  <2> QED BY <1>0, <1>1, <2>1, JobStep DEF Working
<1>3. CASE SetupInsert(r)
  <2> DEFINE gone == t.rows \cap u
             job == Working("commit", t.user, t.id, gone, t.attempt)
  <2>1. job \in Job
    BY <1>0, <1>1, WorkingJob
  <2>2. CASE t.id \in IDs(factors) \ gone
    <3>1. Do(r, Nil)
      BY <1>3, <2>2 DEF SetupInsert
    <3> QED BY <1>0, <3>1, JobStep
  <2>3. CASE t.id \notin IDs(factors) \ gone
    <3>1. Do(r, job)
      BY <1>3, <2>3 DEF SetupInsert
    <3>2. ASSUME NEW f \in factors, f.id \in gone PROVE ~f.verified
      <4>1. PICK g \in factors : g.id = f.id /\ g.user = t.user /\ ~g.verified
        BY <3>2 DEF Unverified, IDs, Of
      <4> QED BY <4>1 DEF FactorInv, UniqueIDs
    <3>3. \A f \in factors : f.id = t.id => f.id \in gone
      BY <2>3 DEF IDs
    <3> QED BY <1>0, <1>1, <2>1, <3>1, <3>2, <3>3, JobStep DEF Working
  <2> QED BY <2>2, <2>3
<1> QED BY <1>2, <1>3

\* The rows that a commit leaves: its transaction had locked, of its own
\* account and not verified, those that it takes away.
LEMMA CommittedRows ==
  ASSUME FactorInv, NEW r \in Requests, AtStep(r, "commit")
  PROVE /\ Committed(jobs[r]) \subseteq Factor
        /\ \A g \in Committed(jobs[r]) : Refers(g.id, g.user)
        /\ \A g \in Committed(jobs[r]) : g \in factors \/ ~g.verified
        /\ \A f, g \in Committed(jobs[r]) : f.id = g.id => f = g
        /\ \A g \in Committed(jobs[r]) : g \in factors \/ g.id = jobs[r].id
<1> DEFINE t == jobs[r]
           p == Pending(t.id, t.user)
<1>1. t \in Job /\ Refers(t.id, t.user) /\ t.step = "commit"
  BY JobOf DEF Refers, AtStep, Idle
<1>2. t.id # Nil
  BY SettingUpAt DEF FactorInv, OwnIDs
<1>3. p \in Factor /\ p.id = t.id /\ p.user = t.user /\ ~p.verified
  BY <1>1, <1>2 DEF Pending, Factor, Job
<1>4. \A f \in factors : f.id \notin t.rows => f.id # t.id
  BY DEF FactorInv, Inserts
<1>5. \A g \in Committed(t) : (g \in factors /\ g.id \notin t.rows) \/ g = p
  BY DEF Committed
<1>6. \A g \in Committed(t) : g \in Factor /\ Refers(g.id, g.user)
  BY <1>1, <1>3, <1>5, Stored
<1>7. \A f, g \in Committed(t) : f.id = g.id => f = g
  BY <1>3, <1>4, <1>5 DEF FactorInv, UniqueIDs
<1> QED BY <1>3, <1>5, <1>6, <1>7

\* What a setup does after its commit: nothing, or it begins again.
AfterCommit(t) == {Nil, Working("begin", t.user, t.id, {}, t.attempt + 1)}

LEMMA CommitCases ==
  ASSUME FactorInv, NEW r \in Requests, SetupCommit(r) \/ SetupCommitFails(r)
  PROVE /\ AtStep(r, "commit")
        /\ \E job \in AfterCommit(jobs[r]) :
             /\ job \in Job \cup {Nil}
             /\ Commit(r, job) \/ (Do(r, job) /\ UNCHANGED factors)
<1> DEFINE t == jobs[r]
           again == Working("begin", t.user, t.id, {}, t.attempt + 1)
<1>1. AtStep(r, "commit") /\ t \in Job
  BY JobOf DEF SetupCommit, SetupCommitFails
<1>2. CASE SetupCommitFails(r) /\ t.attempt # MaxAttempts
  <2>1. t.attempt + 1 \in 1 .. MaxAttempts
    BY <1>1, <1>2, TwoFactorAssumption DEF Job
  <2>2. again \in Job
    BY <1>1, <2>1, WorkingJob DEF Job
  <2> QED BY <1>1, <1>2, <2>2 DEF SetupCommitFails, AfterCommit
<1>3. CASE SetupCommit(r) \/ t.attempt = MaxAttempts
  BY <1>1, <1>3 DEF SetupCommit, SetupCommitFails, AfterCommit
<1> QED BY <1>1, <1>2, <1>3

\* A commit that took effect: the other requests do not see the row inserted.
LEMMA CommitJobs ==
  ASSUME FactorInv, NEW r \in Requests, NEW job \in AfterCommit(jobs[r]),
         job \in Job \cup {Nil}, AtStep(r, "commit"), Commit(r, job)
  PROVE /\ jobs'[r] = job
        /\ jobs' \in [Requests -> Job \cup {Nil}]
        /\ \A q \in Requests : q # r =>
             IF jobs[q] = Nil THEN jobs'[q] = Nil
             ELSE /\ jobs'[q] # Nil /\ jobs'[q].step = jobs[q].step
                  /\ jobs'[q].user = jobs[q].user /\ jobs'[q].id = jobs[q].id
                  /\ jobs'[q].rows = jobs[q].rows \ {jobs[r].id}
<1> DEFINE i == jobs[r].id
           less(q) == [jobs[q] EXCEPT !.rows = @ \ {i}]
<1>1. \A q \in Requests : jobs[q] # Nil =>
        /\ jobs[q] \in Job
        /\ less(q) \in Job /\ less(q).rows = jobs[q].rows \ {i}
        /\ less(q).step = jobs[q].step /\ less(q).user = jobs[q].user /\ less(q).id = jobs[q].id
  BY DEF FactorInv, TypeOK, Job
<1>2. jobs' = [q \in Requests |->
                 IF q = r THEN job ELSE IF jobs[q] = Nil THEN Nil ELSE less(q)]
  BY DEF Commit, Others, Idle
<1>3. \A q \in Requests : jobs'[q] =
        IF q = r THEN job ELSE IF jobs[q] = Nil THEN Nil ELSE less(q)
  BY <1>2
<1>4. jobs' \in [Requests -> Job \cup {Nil}]
  BY <1>1, <1>2
<1>5. Nil \notin Job
  BY TwoFactorAssumption
<1> HIDE DEF less
<1> QED BY <1>1, <1>3, <1>4, <1>5

LEMMA CommitInv ==
  ASSUME FactorInv, UNCHANGED backend, NEW r \in Requests,
         SetupCommit(r) \/ SetupCommitFails(r)
  PROVE FactorInv'
<1> DEFINE t == jobs[r]
<1>1. AtStep(r, "commit") /\ t \in Job /\ SettingUp(r)
  BY CommitCases, JobOf, SettingUpAt
<1>2. PICK job \in AfterCommit(t) :
        job \in Job \cup {Nil} /\ (Commit(r, job) \/ (Do(r, job) /\ UNCHANGED factors))
  BY CommitCases
<1>3. job # Nil => job.step = "begin" /\ job.user = t.user /\ job.id = t.id /\ job.rows = {}
  BY <1>2 DEF AfterCommit, Working
<1>4. CASE Do(r, job) /\ UNCHANGED factors
  <2>1. job # Nil => \A i \in FactorIDs :
           job.id = i \/ i \in job.rows => Refers(i, job.user) \/ i \in NewIDs
    BY <1>1, <1>3, JobOf
  <2> QED BY <1>1, <1>2, <1>3, <1>4, <2>1, JobStep
<1>5. CASE Commit(r, job)
  <2>1. /\ jobs'[r] = job
        /\ jobs' \in [Requests -> Job \cup {Nil}]
        /\ \A q \in Requests : q # r =>
             IF jobs[q] = Nil THEN jobs'[q] = Nil
             ELSE /\ jobs'[q] # Nil /\ jobs'[q].step = jobs[q].step
                  /\ jobs'[q].user = jobs[q].user /\ jobs'[q].id = jobs[q].id
                  /\ jobs'[q].rows = jobs[q].rows \ {t.id}
    BY <1>1, <1>2, <1>5, CommitJobs
  <2>2. \A q \in Requests : GoesOn(q)
    BY <1>1, <1>3, <2>1 DEF GoesOn, AtStep
  <2>3. factors' = Committed(t)
    BY <1>5 DEF Commit
  <2>4. ASSUME NEW g \in factors', NEW q \in Requests, AtStep(q, "commit")'
        PROVE /\ g.id \in jobs'[q].rows => ~g.verified
              /\ g.id = jobs'[q].id => g.id \in jobs'[q].rows
    <3>1. q # r
      BY <1>3, <2>1, <2>4 DEF AtStep
    <3>2. /\ AtStep(q, "commit") /\ jobs'[q].id = jobs[q].id
          /\ jobs'[q].rows = jobs[q].rows \ {t.id}
      BY <2>1, <2>4, <3>1 DEF AtStep
    <3>3. jobs[q].id # t.id
      BY <1>1, <3>1, <3>2, SettingUpAt DEF FactorInv, OwnIDs
    <3>4. g \in factors \/ g.id = t.id
      BY <1>1, <2>3, CommittedRows
    <3> QED BY <3>2, <3>3, <3>4 DEF FactorInv, LockedUnverified, Inserts
  <2>5. LockedUnverified' /\ Inserts'
    BY <2>4 DEF LockedUnverified, Inserts
  <2>6. /\ factors' \subseteq Factor /\ UniqueIDs'
        /\ \A g \in factors' : Refers(g.id, g.user)
    BY <1>1, <2>3, CommittedRows DEF UniqueIDs
  <2> QED BY <2>1, <2>2, <2>5, <2>6, FactorStep
<1> QED BY <1>2, <1>4, <1>5

\* A row that is verified keeps its id and user, and is locked by nobody.
LEMMA VerifiedRows ==
  ASSUME FactorInv, NEW r \in Requests, ConfirmFinish(r), NEW g \in factors'
  PROVE \E f \in factors :
          /\ g \in Factor /\ g.id = f.id /\ g.user = f.user
          /\ g # f => ~f.verified /\ f.id = jobs[r].id
<1>1. PICK f \in factors : g = [f EXCEPT !.verified = f.verified \/ f.id = jobs[r].id]
  BY DEF ConfirmFinish, Verified
<1>2. f \in Factor
  BY Stored
<1>3. g \in Factor /\ g.id = f.id /\ g.user = f.user
  BY <1>1, <1>2 DEF Factor
<1>4. g # f => ~f.verified /\ f.id = jobs[r].id
  <2>1. f = [id |-> f.id, user |-> f.user, verified |-> f.verified] /\ f.verified \in BOOLEAN
    BY <1>2 DEF Factor
  <2>2. CASE f.verified = TRUE
    BY <1>1, <1>3, <2>1, <2>2, <1>2 DEF Factor
  <2>3. CASE f.verified = FALSE /\ f.id # jobs[r].id
    BY <1>1, <1>3, <2>1, <2>3, <1>2 DEF Factor
  <2> QED BY <2>1, <2>2, <2>3
<1> QED BY <1>3, <1>4

LEMMA FinishInv ==
  ASSUME FactorInv, UNCHANGED backend, NEW r \in Requests,
         ConfirmFinish(r) \/ DisableFinish(r) \/ GiveUp(r)
  PROVE FactorInv'
<1>1. Do(r, Nil)
  BY DEF ConfirmFinish, DisableFinish, GiveUp
<1>2. jobs' = [jobs EXCEPT ![r] = Nil] /\ jobs \in [Requests -> Job \cup {Nil}]
  BY <1>1 DEF Do, FactorInv, TypeOK
<1>3. jobs' \in [Requests -> Job \cup {Nil}] /\ \A q \in Requests : jobs'[q] \in {jobs[q], Nil}
  BY <1>2
<1>4. CASE GiveUp(r)
  BY <1>1, <1>4, JobStep DEF GiveUp
<1>5. CASE ConfirmFinish(r)
  <2>1. \A g \in factors' : g \in Factor /\ Refers(g.id, g.user)
    <3> TAKE g \in factors'
    <3>1. PICK f \in factors : g \in Factor /\ g.id = f.id /\ g.user = f.user
      BY <1>5, VerifiedRows
    <3> QED BY <3>1, Stored
  <2>2. UniqueIDs'
    <3> SUFFICES ASSUME NEW g \in factors', NEW h \in factors', g.id = h.id PROVE g = h
      BY DEF UniqueIDs
    <3>1. PICK f \in factors : g = [f EXCEPT !.verified = f.verified \/ f.id = jobs[r].id]
      BY <1>5 DEF ConfirmFinish, Verified
    <3>2. PICK e \in factors : h = [e EXCEPT !.verified = e.verified \/ e.id = jobs[r].id]
      BY <1>5 DEF ConfirmFinish, Verified
    <3>3. f \in Factor /\ e \in Factor
      BY Stored
    <3>4. g.id = f.id /\ h.id = e.id
      BY <3>1, <3>2, <3>3 DEF Factor
    <3> QED BY <3>1, <3>2, <3>4 DEF FactorInv, UniqueIDs
  <2>3. ASSUME NEW g \in factors', NEW q \in Requests, AtStep(q, "commit")
        PROVE /\ g.id \in jobs[q].rows => ~g.verified
              /\ g.id = jobs[q].id => g.id \in jobs[q].rows
    <3>1. PICK f \in factors :
            /\ g.id = f.id
            /\ g # f => ~f.verified /\ f.id = jobs[r].id
      BY <1>5, VerifiedRows
    <3>3. jobs[r].id \notin jobs[q].rows
      BY <1>5, <2>3 DEF ConfirmFinish, Locked
    <3>4. g.id \in jobs[q].rows => g = f
      BY <3>1, <3>3
    <3> QED BY <2>3, <3>1, <3>4 DEF FactorInv, LockedUnverified, Inserts
  <2> QED BY <1>3, <2>1, <2>2, <2>3, EndStep
<1>6. CASE DisableFinish(r)
  <2>1. factors' \subseteq factors
    BY <1>6 DEF DisableFinish
  <2>2. \A g \in factors' : g \in Factor /\ Refers(g.id, g.user)
    BY <2>1, Stored
  <2>3. UniqueIDs'
    BY <2>1 DEF FactorInv, UniqueIDs
  <2>4. \A g \in factors', q \in Requests : AtStep(q, "commit") =>
          /\ g.id \in jobs[q].rows => ~g.verified
          /\ g.id = jobs[q].id => g.id \in jobs[q].rows
    BY <2>1 DEF FactorInv, LockedUnverified, Inserts
  <2> QED BY <1>3, <2>2, <2>3, <2>4, EndStep
<1> QED BY <1>4, <1>5, <1>6

LEMMA MemoryInv ==
  ASSUME FactorInv, UNCHANGED backend, NEW user \in Users, Setup(user) \/ Disable(user)
  PROVE FactorInv'
<1>1. jobs' = jobs /\ jobs \in [Requests -> Job \cup {Nil}]
  BY DEF Setup, Disable, FactorInv, TypeOK
<1>2. PICK i \in NewIDs \cup {Nil} : \A g \in factors' :
        (g \in factors /\ g.user # user) \/ (i \in NewIDs /\ g = Pending(i, user))
  <2>1. CASE Setup(user)
    BY <2>1 DEF Setup, Of
  <2>2. CASE Disable(user)
    BY <2>2 DEF Disable, Of
  <2> QED BY <2>1, <2>2
<1>3. i \in NewIDs => i \in FactorIDs /\ i \notin IDs(factors)
                     /\ \A q \in Requests : ~Idle(q) => jobs[q].id # i /\ i \notin jobs[q].rows
  BY DEF NewIDs
<1>4. i \in NewIDs => Pending(i, user) \in Factor
  BY <1>3 DEF Pending, Factor
<1>5. Pending(i, user).id = i /\ Pending(i, user).user = user /\ ~Pending(i, user).verified
  BY DEF Pending
<1>6. factors' \subseteq Factor
  BY <1>2, <1>4, Stored
<1>7. \A g \in factors' : Refers(g.id, g.user) \/ (g.id \in NewIDs /\ g.user = user)
  BY <1>2, <1>5, Stored
<1>8. UniqueIDs'
  BY <1>2, <1>3, <1>5 DEF FactorInv, UniqueIDs, IDs
<1>9. \A g \in factors', q \in Requests : AtStep(q, "commit") =>
          /\ g.id \in jobs[q].rows => ~g.verified
          /\ g.id = jobs[q].id => g.id \in jobs[q].rows
  BY <1>2, <1>3, <1>5 DEF FactorInv, LockedUnverified, Inserts, AtStep, Idle
<1> QED BY <1>1, <1>6, <1>7, <1>8, <1>9, EndStep

LEMMA NextInv == FactorInv /\ [Next]_vars => FactorInv'
<1> SUFFICES ASSUME FactorInv, [Next]_vars PROVE FactorInv'
  OBVIOUS
<1>1. CASE UNCHANGED vars
  BY <1>1 DEF FactorInv, TypeOK, OneUser, Refers, LockedUnverified, UniqueIDs, Inserts,
              SettingUp, OwnIDs, AtStep, Idle, vars
<1>2. CASE Next
  BY <1>2, StartInv, SetupInv, CommitInv, FinishInv, MemoryInv DEF Next
<1> QED BY <1>1, <1>2

LEMMA InvHolds == Spec => []FactorInv
<1>1. Init => FactorInv
  BY DEF Init, OpenStore, FactorInv, TypeOK, OneUser, Refers, LockedUnverified, UniqueIDs,
         Inserts, SettingUp, OwnIDs, AtStep, Idle
<1> QED BY <1>1, NextInv, PTL DEF Spec

-----------------------------------------------------------------------------
(***************************************************************************)
(* How many factors an account has.                                        *)
(*                                                                         *)
(* In memory a setup replaces them.  In PostgreSQL the DELETE of a setup   *)
(* leaves the rows behind that were not there when it began.  Some of them *)
(* and the setups that would leave all of them behind are together no more *)
(* than the requests: a commit adds a row to those, and is one setup less. *)
(* A confirmation reads a factor that is not verified only while its       *)
(* account has none that is, so that the first of a row of confirmations   *)
(* bounds them all.                                                        *)
(***************************************************************************)
Bound == Cardinality(Requests)

OneInMemory == InMemory =>
  /\ \A f, g \in factors : f.user = g.user => f = g
  /\ \A r \in Requests : ~Idle(r) => jobs[r].step = "verify"

\* The factors of user that are verified, or that requests are to verify.
VerifiedIDs(user) == IDs({f \in Of(user) : f.verified})
Verifying(user) == {r \in Requests : AtStep(r, "verify") /\ jobs[r].user = user}
Checked(user) == VerifiedIDs(user) \cup {jobs[r].id : r \in Verifying(user)}

FewChecked(user) == IsFiniteSet(Checked(user)) /\ Cardinality(Checked(user)) <= Bound

\* The setups of user whose DELETE has begun, and those that leave rows behind.
Deleting(user) ==
  {r \in Requests : (AtStep(r, "delete") \/ AtStep(r, "commit")) /\ jobs[r].user = user}
Leaving(user, rows) == {r \in Deleting(user) : rows \cap jobs[r].rows = {}}

FewLeft(user) ==
  /\ IsFiniteSet(Unverified(user)) /\ Cardinality(Unverified(user)) <= Bound
  /\ \A rows \in SUBSET Unverified(user) : Leaving(user, rows) # {} =>
       Cardinality(rows) + Cardinality(Leaving(user, rows)) <= Bound

FewInv == OneInMemory /\ \A user \in Users : FewChecked(user) /\ FewLeft(user)

LEMMA BoundType == Bound \in Nat \ {0}
<1>1. IsFiniteSet(Requests) /\ Requests # {}
  BY TwoFactorAssumption
<1>2. Cardinality(Requests) \in Nat /\ Cardinality(Requests) # 0
  BY <1>1, FS_CardinalityType, FS_EmptySet
<1> QED BY <1>2 DEF Bound

LEMMA SomeRequests ==
  ASSUME NEW S \in SUBSET Requests
  PROVE  IsFiniteSet(S) /\ Cardinality(S) \in Nat /\ Cardinality(S) <= Bound
BY FS_Subset, FS_CardinalityType, TwoFactorAssumption DEF Bound

LEMMA Fewer ==
  ASSUME NEW S, IsFiniteSet(S), NEW T \in SUBSET S
  PROVE  /\ IsFiniteSet(T) /\ Cardinality(T) \in Nat /\ Cardinality(S) \in Nat
         /\ Cardinality(T) <= Cardinality(S)
BY FS_Subset, FS_CardinalityType

LEMMA OneMore ==
  ASSUME NEW S, IsFiniteSet(S), NEW x
  PROVE  /\ IsFiniteSet(S \cup {x}) /\ Cardinality(S) \in Nat
         /\ Cardinality(S \cup {x}) \in Nat
         /\ Cardinality(S \cup {x}) <= Cardinality(S) + 1
BY FS_AddElement, FS_CardinalityType

LEMMA OneLess ==
  ASSUME NEW S, IsFiniteSet(S), NEW x \in S
  PROVE  /\ IsFiniteSet(S \ {x}) /\ Cardinality(S) \in Nat
         /\ Cardinality(S \ {x}) = Cardinality(S) - 1
BY FS_RemoveElement, FS_CardinalityType

\* What requests name, each one id.
LEMMA NamedByRequests ==
  ASSUME NEW f, NEW S \in SUBSET Requests
  PROVE  /\ IsFiniteSet({f[r] : r \in S})
         /\ Cardinality({f[r] : r \in S}) <= Bound
<1> DEFINE T == {f[r] : r \in S}
           g == [r \in S |-> f[r]]
<1>1. g \in Surjection(S, T)
  BY DEF Surjection
<1>2. IsFiniteSet(S) /\ Cardinality(S) \in Nat /\ Cardinality(S) <= Bound
  BY SomeRequests
<1>3. IsFiniteSet(T) /\ Cardinality(T) <= Cardinality(S)
  BY <1>1, <1>2, FS_Surjection
<1>4. Cardinality(T) \in Nat
  BY <1>3, FS_CardinalityType
<1> QED BY <1>2, <1>3, <1>4, BoundType

\* Factors that are one.
LEMMA AtMostOne ==
  ASSUME NEW S, \A x, y \in S : x = y
  PROVE  IsFiniteSet(S) /\ Cardinality(S) \in {0, 1}
<1>1. CASE S = {}
  BY <1>1, FS_EmptySet
<1>2. CASE S # {}
  <2>1. PICK x \in S : S = {x}
    BY <1>2
  <2> QED BY <2>1, FS_Singleton
<1> QED BY <1>1, <1>2

LEMMA KeepsChecked ==
  ASSUME NEW user \in Users, FewChecked(user), VerifiedIDs(user)' \subseteq Checked(user),
         \A q \in Requests : AtStep(q, "verify")' =>
           AtStep(q, "verify") /\ jobs'[q].user = jobs[q].user /\ jobs'[q].id = jobs[q].id
  PROVE  FewChecked(user)'
<1>1. Checked(user)' \subseteq Checked(user)
  BY DEF Checked, Verifying
<1>2. /\ IsFiniteSet(Checked(user)') /\ Cardinality(Checked(user)') \in Nat
      /\ Cardinality(Checked(user)) \in Nat
      /\ Cardinality(Checked(user)') <= Cardinality(Checked(user))
  BY <1>1, Fewer DEF FewChecked
<1>3. Cardinality(Checked(user)') <= Bound
  BY <1>2, BoundType DEF FewChecked
<1> QED BY <1>2, <1>3 DEF FewChecked, Bound

\* Without a verified factor there are only the confirmations.
LEMMA OnlyConfirmations ==
  ASSUME NEW user \in Users, VerifiedIDs(user)' = {}
  PROVE  FewChecked(user)'
<1> DEFINE S == {r \in Requests : AtStep(r, "verify")' /\ jobs'[r].user = user}
           f == [r \in Requests |-> jobs'[r].id]
<1>1. Checked(user)' = {f[r] : r \in S}
  BY DEF Checked, Verifying
<1> HIDE DEF f
<1>2. IsFiniteSet({f[r] : r \in S}) /\ Cardinality({f[r] : r \in S}) <= Bound
  BY NamedByRequests
<1> QED BY <1>1, <1>2 DEF FewChecked, Bound

\* Most steps add neither to the rows nor to the setups, and lose none of the
\* rows that a setup has seen.
LEMMA KeepsLeft ==
  ASSUME NEW user \in Users, FewLeft(user), Unverified(user)' \subseteq Unverified(user),
         \A q \in Requests : AtStep(q, "delete")' \/ AtStep(q, "commit")' =>
           /\ AtStep(q, "delete") \/ AtStep(q, "commit")
           /\ jobs'[q].user = jobs[q].user
           /\ jobs[q].user = user =>
                \A i \in Unverified(user)' : i \in jobs[q].rows => i \in jobs'[q].rows
  PROVE  FewLeft(user)'
<1>1. /\ IsFiniteSet(Unverified(user)') /\ Cardinality(Unverified(user)') \in Nat
      /\ Cardinality(Unverified(user)) \in Nat
      /\ Cardinality(Unverified(user)') <= Cardinality(Unverified(user))
  BY Fewer DEF FewLeft
<1>2. Cardinality(Unverified(user)') <= Bound
  BY <1>1, BoundType DEF FewLeft
<1>3. ASSUME NEW rows \in SUBSET Unverified(user)', Leaving(user, rows)' # {}
      PROVE  Cardinality(rows) + Cardinality(Leaving(user, rows)') <= Bound
  <2>1. Leaving(user, rows)' \subseteq Leaving(user, rows)
    BY DEF Leaving, Deleting
  <2>2. rows \in SUBSET Unverified(user) /\ Leaving(user, rows) \in SUBSET Requests
    BY DEF Leaving, Deleting
  <2>3. Leaving(user, rows) # {}
    BY <1>3, <2>1
  <2>4. Cardinality(rows) + Cardinality(Leaving(user, rows)) <= Bound
    BY <2>2, <2>3 DEF FewLeft
  <2>5. /\ Cardinality(Leaving(user, rows)') \in Nat
        /\ Cardinality(Leaving(user, rows)') <= Cardinality(Leaving(user, rows))
        /\ Cardinality(Leaving(user, rows)) \in Nat
    BY <2>1, <2>2, SomeRequests, Fewer
  <2>6. Cardinality(rows) \in Nat
    BY <2>2, Fewer DEF FewLeft
  <2> QED BY <2>4, <2>5, <2>6, BoundType
<1> QED BY <1>1, <1>2, <1>3 DEF FewLeft, Bound

\* The DELETE of a setup begins: it sees every row there is.
LEMMA DeleteLeaves ==
  ASSUME FactorInv, NEW r \in Requests, SetupDelete(r), NEW user \in Users, FewLeft(user)
  PROVE  FewLeft(user)'
<1>1. Unverified(user)' = Unverified(user)
  BY DEF SetupDelete, Unverified, Of, IDs
<1>2. \A q \in Requests : jobs'[q] =
        IF q = r THEN Working("delete", jobs[r].user, jobs[r].id,
                              Unverified(jobs[r].user), jobs[r].attempt)
                 ELSE jobs[q]
  BY DEF SetupDelete, Do, FactorInv, TypeOK
<1>3. ASSUME NEW rows \in SUBSET Unverified(user), Leaving(user, rows)' # {}
      PROVE  Cardinality(rows) + Cardinality(Leaving(user, rows)') <= Bound
  <2>0. Leaving(user, rows) \in SUBSET Requests
        /\ Leaving(user, rows)' \in SUBSET Requests
    BY DEF Leaving, Deleting
  <2>1. CASE rows = {}
    BY <2>0, <2>1, SomeRequests, FS_EmptySet
  <2>2. CASE rows # {}
    <3>1. Leaving(user, rows)' \subseteq Leaving(user, rows)
      <4> SUFFICES ASSUME NEW q \in Requests, q \in Leaving(user, rows)'
                   PROVE  q \in Leaving(user, rows)
        BY <2>0
      <4>1. q # r
        BY <1>2, <2>2 DEF Leaving, Deleting, Working
      <4> QED BY <1>2, <4>1 DEF Leaving, Deleting, AtStep
    <3>2. Cardinality(rows) + Cardinality(Leaving(user, rows)) <= Bound
      BY <1>3, <3>1 DEF FewLeft
    <3>3. /\ Cardinality(Leaving(user, rows)') \in Nat
          /\ Cardinality(Leaving(user, rows)') <= Cardinality(Leaving(user, rows))
          /\ Cardinality(Leaving(user, rows)) \in Nat
      BY <2>0, <3>1, SomeRequests, Fewer
    <3>4. Cardinality(rows) \in Nat
      BY Fewer DEF FewLeft
    <3> QED BY <3>2, <3>3, <3>4, BoundType
  <2> QED BY <2>1, <2>2
<1> QED BY <1>1, <1>3 DEF FewLeft, Bound

\* A commit of its own account adds one row to those the setup leaves behind,
\* and it was one of the setups that did.
LEMMA CommitLeaves ==
  ASSUME FactorInv, NEW r \in Requests, NEW job \in AfterCommit(jobs[r]),
         job \in Job \cup {Nil}, AtStep(r, "commit"), Commit(r, job),
         NEW u \in Users, u = jobs[r].user, FewLeft(u)
  PROVE  FewLeft(u)'
<1> DEFINE t == jobs[r]
<1>0. PICK i \in FactorIDs \cup {Nil} : i = t.id
  BY JobOf DEF Job
<1>1. jobs'[r] = job /\ (job # Nil => job.step = "begin")
  <2>1. jobs'[r] = job
    BY CommitJobs
  <2> QED BY <2>1 DEF AfterCommit, Working
<1>2. \A q \in Requests : q # r => IF jobs[q] = Nil THEN jobs'[q] = Nil
        ELSE /\ jobs'[q] # Nil /\ jobs'[q].step = jobs[q].step
             /\ jobs'[q].user = jobs[q].user /\ jobs'[q].rows = jobs[q].rows \ {i}
  BY <1>0, CommitJobs
<1>3. Unverified(u)' \subseteq (Unverified(u) \ t.rows) \cup {i}
  BY <1>0 DEF Commit, Committed, Unverified, Of, IDs, Pending
<1>4. r \in Deleting(u)
  BY <1>0 DEF Deleting
<1>5. IsFiniteSet(Unverified(u))
  BY <1>0 DEF FewLeft
\* Of any rows, those that were there before the commit.
<1>6. ASSUME NEW rows \in SUBSET Unverified(u)', NEW old, old = rows \ {i}
      PROVE  /\ IsFiniteSet(rows) /\ Cardinality(rows) \in Nat
             /\ old \in SUBSET Unverified(u) /\ r \in Leaving(u, old)
             /\ Cardinality(old) \in Nat /\ Cardinality(rows) <= Cardinality(old) + 1
             /\ Leaving(u, old) \in SUBSET Requests
             /\ Cardinality(old) + Cardinality(Leaving(u, old)) <= Bound
  <2>1. old \subseteq Unverified(u) \ t.rows
    BY <1>3, <1>6
  <2>2. r \in Leaving(u, old) /\ Leaving(u, old) \in SUBSET Requests
    BY <1>4, <2>1 DEF Leaving, Deleting
  <2>3. Cardinality(old) + Cardinality(Leaving(u, old)) <= Bound
    BY <1>0, <2>1, <2>2 DEF FewLeft
  <2>4. IsFiniteSet(old) /\ Cardinality(old) \in Nat
    BY <1>5, <2>1, Fewer
  <2>5. /\ IsFiniteSet(old \cup {i}) /\ Cardinality(old \cup {i}) \in Nat
        /\ Cardinality(old \cup {i}) <= Cardinality(old) + 1
    BY <2>4, OneMore
  <2>6. rows \in SUBSET (old \cup {i})
    BY <1>6
  <2>7. /\ IsFiniteSet(rows) /\ Cardinality(rows) \in Nat
        /\ Cardinality(rows) <= Cardinality(old \cup {i})
    BY <2>5, <2>6, Fewer
  <2> QED BY <2>1, <2>2, <2>3, <2>4, <2>5, <2>7
<1>7. IsFiniteSet(Unverified(u)') /\ Cardinality(Unverified(u)') <= Bound
  <2> DEFINE old == Unverified(u)' \ {i}
  <2>1. /\ IsFiniteSet(Unverified(u)') /\ Cardinality(Unverified(u)') \in Nat
        /\ r \in Leaving(u, old) /\ Leaving(u, old) \in SUBSET Requests
        /\ Cardinality(old) \in Nat /\ Cardinality(Unverified(u)') <= Cardinality(old) + 1
        /\ Cardinality(old) + Cardinality(Leaving(u, old)) <= Bound
    BY <1>6
  <2>2. /\ Cardinality(Leaving(u, old)) \in Nat
        /\ Cardinality(Leaving(u, old) \ {r}) = Cardinality(Leaving(u, old)) - 1
        /\ Cardinality(Leaving(u, old) \ {r}) \in Nat
    BY <2>1, SomeRequests, OneLess, FS_CardinalityType
  <2> QED BY <2>1, <2>2, BoundType
<1>8. ASSUME NEW rows \in SUBSET Unverified(u)'
      PROVE  Cardinality(rows) + Cardinality(Leaving(u, rows)') <= Bound
  <2> DEFINE old == rows \ {i}
  <2>1. /\ Cardinality(rows) \in Nat /\ old \in SUBSET Unverified(u)
        /\ r \in Leaving(u, old) /\ Leaving(u, old) \in SUBSET Requests
        /\ Cardinality(old) \in Nat /\ Cardinality(rows) <= Cardinality(old) + 1
        /\ Cardinality(old) + Cardinality(Leaving(u, old)) <= Bound
    BY <1>6
  <2>2. Leaving(u, rows)' \subseteq Leaving(u, old) \ {r}
    <3> SUFFICES ASSUME NEW q \in Requests, q \in Leaving(u, rows)'
                 PROVE  q \in Leaving(u, old) \ {r}
      BY DEF Leaving, Deleting
    <3>1. q # r /\ jobs'[q] # Nil /\ jobs'[q].user = u /\ rows \cap jobs'[q].rows = {}
          /\ jobs'[q].step \in {"delete", "commit"}
      BY <1>1 DEF Leaving, Deleting, AtStep
    <3>2. /\ jobs[q] # Nil /\ jobs[q].user = u /\ jobs[q].step \in {"delete", "commit"}
          /\ jobs'[q].rows = jobs[q].rows \ {i}
      BY <1>2, <3>1
    <3>3. old \cap jobs[q].rows = {}
      BY <3>1, <3>2
    <3> QED BY <3>1, <3>2, <3>3 DEF Leaving, Deleting, AtStep
  <2>3. /\ IsFiniteSet(Leaving(u, old)) /\ Cardinality(Leaving(u, old)) \in Nat
        /\ IsFiniteSet(Leaving(u, old) \ {r})
        /\ Cardinality(Leaving(u, old) \ {r}) = Cardinality(Leaving(u, old)) - 1
    BY <2>1, SomeRequests, OneLess
  <2>4. /\ Cardinality(Leaving(u, rows)') \in Nat
        /\ Cardinality(Leaving(u, rows)') <= Cardinality(Leaving(u, old) \ {r})
    BY <2>2, <2>3, Fewer
  <2> QED BY <2>1, <2>3, <2>4, BoundType
<1> QED BY <1>7, <1>8 DEF FewLeft, Bound

-----------------------------------------------------------------------------
\* In memory nothing is at a step of a transaction.
LEMMA MemorySteps ==
  ASSUME OneInMemory, InMemory, Next
  PROVE  \/ \E user \in Users : Setup(user) \/ Disable(user)
         \/ \E r \in Requests : ConfirmFinish(r) \/ \E user \in Users : Confirm(r, user)
<1>1. \A r \in Requests : AtStep(r, "verify") \/ Idle(r)
  BY DEF OneInMemory, AtStep, Idle
<1>2. ASSUME NEW r \in Requests
      PROVE  ~SetupDelete(r) /\ ~SetupInsert(r) /\ ~SetupCommit(r) /\ ~SetupCommitFails(r)
             /\ ~DisableFinish(r)
  BY <1>1 DEF SetupDelete, SetupInsert, SetupCommit, SetupCommitFails, DisableFinish, AtStep, Idle
<1>3. ASSUME NEW r \in Requests
      PROVE  ~GiveUp(r) /\ \A user \in Users : ~SetupStart(r, user) /\ ~DisableStart(r, user)
  BY DEF GiveUp, SetupStart, DisableStart, InMemory, OnPostgres
<1> QED BY <1>2, <1>3 DEF Next

LEMMA NextOne == FactorInv /\ OneInMemory /\ [Next]_vars => OneInMemory'
<1> SUFFICES ASSUME FactorInv, OneInMemory, [Next]_vars, InMemory' PROVE OneInMemory'
  BY DEF OneInMemory
<1>1. CASE UNCHANGED vars
  BY <1>1 DEF vars, OneInMemory, InMemory, Idle
<1>2. CASE Next
  <2>1. InMemory /\ jobs \in [Requests -> Job \cup {Nil}]
    BY <1>2 DEF Next, InMemory, FactorInv, TypeOK
  <2>2. ASSUME NEW user \in Users, Setup(user) \/ Disable(user) PROVE OneInMemory'
    <3>1. \A q \in Requests : ~Idle(q)' => jobs'[q].step = "verify"
      BY <2>1, <2>2 DEF Setup, Disable, OneInMemory, Idle
    <3>2. \A f, g \in factors \ Of(user) : f.user = g.user => f = g
      BY <2>1 DEF OneInMemory, Of
    <3>3. CASE Disable(user)
      BY <3>1, <3>2, <3>3 DEF Disable, OneInMemory
    <3>4. CASE Setup(user)
      <4>1. PICK i \in NewIDs : factors' = (factors \ Of(user)) \cup {Pending(i, user)}
        BY <3>4 DEF Setup
      <4>2. Pending(i, user).user = user
        BY DEF Pending
      <4>3. \A f \in factors \ Of(user) : f.user # user
        BY DEF Of
      <4>4. \A f, g \in factors' : f.user = g.user => f = g
        BY <3>2, <4>1, <4>2, <4>3
      <4> QED BY <3>1, <4>4 DEF OneInMemory
    <3> QED BY <2>2, <3>3, <3>4
  <2>3. ASSUME NEW r \in Requests, NEW user \in Users, Confirm(r, user) PROVE OneInMemory'
    <3>1. PICK f \in Found(user) : Do(r, Working("verify", user, f.id, {}, 1))
      BY <2>3 DEF Confirm
    <3>2. \A q \in Requests : jobs'[q] =
            IF q = r THEN Working("verify", user, f.id, {}, 1) ELSE jobs[q]
      BY <2>1, <3>1 DEF Do
    <3>3. \A q \in Requests : ~Idle(q)' => jobs'[q].step = "verify"
      BY <2>1, <3>2 DEF Working, OneInMemory, Idle
    <3> QED BY <2>1, <2>3, <3>3 DEF Confirm, OneInMemory
  <2>4. ASSUME NEW r \in Requests, ConfirmFinish(r) PROVE OneInMemory'
    <3>1. ASSUME NEW g \in factors', NEW h \in factors', g.user = h.user PROVE g = h
      <4>1. PICK f \in factors : g = [f EXCEPT !.verified = f.verified \/ f.id = jobs[r].id]
        BY <2>4 DEF ConfirmFinish, Verified
      <4>2. PICK e \in factors : h = [e EXCEPT !.verified = e.verified \/ e.id = jobs[r].id]
        BY <2>4 DEF ConfirmFinish, Verified
      <4>3. f.user = e.user
        BY <3>1, <4>1, <4>2, Stored DEF Factor
      <4> QED BY <2>1, <4>1, <4>2, <4>3 DEF OneInMemory
    <3>2. \A q \in Requests : ~Idle(q)' => jobs'[q].step = "verify"
      BY <2>1, <2>4 DEF ConfirmFinish, Do, OneInMemory, Idle
    <3> QED BY <3>1, <3>2 DEF OneInMemory
  <2> QED BY <1>2, <2>1, <2>2, <2>3, <2>4, MemorySteps
<1> QED BY <1>1, <1>2

\* The jobs after a step in which one request goes on.
LEMMA OneJob ==
  ASSUME FactorInv, NEW r \in Requests, NEW job, Do(r, job)
  PROVE  \A q \in Requests : jobs'[q] = IF q = r THEN job ELSE jobs[q]
BY DEF Do, FactorInv, TypeOK

LEMMA NextChecked ==
  ASSUME FactorInv, [Next]_vars, NEW user \in Users, FewChecked(user)
  PROVE  FewChecked(user)'
<1> DEFINE Kept == \A q \in Requests : AtStep(q, "verify")' =>
              AtStep(q, "verify") /\ jobs'[q].user = jobs[q].user /\ jobs'[q].id = jobs[q].id
\* Steps after which no more factors are verified.
<1>1. ASSUME Kept, \A g \in factors' : g.verified => g \in factors
      PROVE  FewChecked(user)'
  <2>1. VerifiedIDs(user)' \subseteq Checked(user)
    BY <1>1 DEF VerifiedIDs, Checked, IDs, Of
  <2> QED BY <1>1, <2>1, KeepsChecked
<1>2. CASE UNCHANGED vars
  BY <1>1, <1>2 DEF vars, AtStep
<1>3. ASSUME NEW u \in Users, Setup(u) \/ Disable(u) PROVE FewChecked(user)'
  <2>1. \A g \in factors' : g.verified => g \in factors
    BY <1>3 DEF Setup, Disable, Pending
  <2> QED BY <1>1, <1>3, <2>1 DEF Setup, Disable, AtStep
\* One request goes on, and does not read a factor.
<1>4. ASSUME NEW r \in Requests, NEW job, Do(r, job), job # Nil => job.step # "verify",
             \A g \in factors' : g.verified => g \in factors
      PROVE  FewChecked(user)'
  <2>1. Kept
    BY <1>4, OneJob DEF AtStep
  <2> QED BY <1>1, <1>4, <2>1
<1>5. ASSUME NEW r \in Requests, NEW u \in Users, SetupStart(r, u) \/ DisableStart(r, u)
      PROVE  FewChecked(user)'
  BY <1>4, <1>5 DEF SetupStart, DisableStart, Working
<1>6. ASSUME NEW r \in Requests, SetupDelete(r) \/ SetupInsert(r) PROVE FewChecked(user)'
  BY <1>4, <1>6 DEF SetupDelete, SetupInsert, Working
<1>7. ASSUME NEW r \in Requests, GiveUp(r) \/ DisableFinish(r) PROVE FewChecked(user)'
  BY <1>4, <1>7 DEF GiveUp, DisableFinish
<1>8. ASSUME NEW r \in Requests, SetupCommit(r) \/ SetupCommitFails(r)
      PROVE  FewChecked(user)'
  <2>1. AtStep(r, "commit")
    BY <1>8, CommitCases
  <2>2. PICK job \in AfterCommit(jobs[r]) :
          job \in Job \cup {Nil} /\ (Commit(r, job) \/ (Do(r, job) /\ UNCHANGED factors))
    BY <1>8, CommitCases
  <2>3. job # Nil => job.step = "begin"
    BY <2>2 DEF AfterCommit, Working
  <2>4. CASE Commit(r, job)
    <3>1. Kept
      BY <2>1, <2>2, <2>3, <2>4, CommitJobs DEF AtStep
    <3>2. \A g \in factors' : g.verified => g \in factors
      BY <2>1, <2>4, CommittedRows DEF Commit
    <3> QED BY <1>1, <3>1, <3>2
  <2>5. CASE Do(r, job) /\ UNCHANGED factors
    BY <1>4, <2>3, <2>5
  <2> QED BY <2>2, <2>4, <2>5
<1>9. ASSUME NEW r \in Requests, NEW u \in Users, Confirm(r, u) PROVE FewChecked(user)'
  <2>1. PICK f \in Found(u) : Do(r, Working("verify", u, f.id, {}, 1))
    BY <1>9 DEF Confirm
  <2>2. factors' = factors /\ VerifiedIDs(user)' = VerifiedIDs(user)
    BY <1>9 DEF Confirm, VerifiedIDs, IDs, Of
  <2>3. \A q \in Requests : jobs'[q] =
          IF q = r THEN Working("verify", u, f.id, {}, 1) ELSE jobs[q]
    BY <2>1, OneJob
  <2>4. CASE VerifiedIDs(user) = {}
    BY <2>2, <2>4, OnlyConfirmations
  <2>5. CASE VerifiedIDs(user) # {}
    <3>1. u = user => f.id \in VerifiedIDs(user)
      <4> SUFFICES ASSUME u = user PROVE f.id \in VerifiedIDs(user)
        OBVIOUS
      <4>1. PICK g \in Of(user) : g.verified
        BY <2>5 DEF VerifiedIDs, IDs
      <4> QED BY <4>1 DEF Found, VerifiedIDs, IDs
    <3>2. Checked(user)' \subseteq Checked(user)
      BY <2>2, <2>3, <3>1 DEF Checked, Verifying, AtStep, Working
    <3>3. /\ IsFiniteSet(Checked(user)') /\ Cardinality(Checked(user)') \in Nat
          /\ Cardinality(Checked(user)) \in Nat
          /\ Cardinality(Checked(user)') <= Cardinality(Checked(user))
      BY <3>2, Fewer DEF FewChecked
    <3>4. Cardinality(Checked(user)') <= Bound
      BY <3>3, BoundType DEF FewChecked
    <3> QED BY <3>3, <3>4 DEF FewChecked, Bound
  <2> QED BY <2>4, <2>5
<1>10. ASSUME NEW r \in Requests, ConfirmFinish(r) PROVE FewChecked(user)'
  <2>1. Kept
    BY <1>10, OneJob DEF ConfirmFinish, AtStep
  <2>2. VerifiedIDs(user)' \subseteq Checked(user)
    <3> SUFFICES ASSUME NEW g \in factors', g.user = user, g.verified
                 PROVE  g.id \in Checked(user)
      BY DEF VerifiedIDs, IDs, Of
    <3>1. PICK f \in factors :
            /\ g.id = f.id /\ g.user = f.user
            /\ g # f => ~f.verified /\ f.id = jobs[r].id
      BY <1>10, VerifiedRows
    <3>2. CASE g = f
      BY <3>2 DEF Checked, VerifiedIDs, IDs, Of
    <3>3. CASE f.id = jobs[r].id
      <4>1. Refers(f.id, f.user) /\ Refers(f.id, jobs[r].user) /\ jobs[r].user \in Users
            /\ f \in Factor /\ AtStep(r, "verify")
        BY <1>10, <3>3, Stored, JobOf DEF ConfirmFinish, Job, Factor
      <4>2. jobs[r].user = user
        BY <3>1, <4>1 DEF FactorInv, OneUser, Factor
      <4> QED BY <3>1, <3>3, <4>1, <4>2 DEF Checked, Verifying
    <3> QED BY <3>1, <3>2, <3>3
  <2> QED BY <2>1, <2>2, KeepsChecked
<1> QED BY <1>2, <1>3, <1>5, <1>6, <1>7, <1>8, <1>9, <1>10 DEF Next

\* Without setups, a bound of the rows is enough.
LEMMA NoSetups ==
  ASSUME NEW user \in Users, Deleting(user)' = {},
         \A i, j \in Unverified(user)' : i = j
  PROVE  FewLeft(user)'
<1>1. \A rows : Leaving(user, rows)' = {}
  BY DEF Leaving
<1>2. IsFiniteSet(Unverified(user)') /\ Cardinality(Unverified(user)') \in {0, 1}
  BY AtMostOne
<1>3. Cardinality(Unverified(user)') <= Bound
  BY <1>2, BoundType
<1> QED BY <1>1, <1>2, <1>3 DEF FewLeft, Bound

\* A commit of another account.
LEMMA OtherCommit ==
  ASSUME FactorInv, NEW r \in Requests, NEW job \in AfterCommit(jobs[r]),
         job \in Job \cup {Nil}, AtStep(r, "commit"), Commit(r, job),
         NEW user \in Users, user # jobs[r].user, FewLeft(user)
  PROVE  FewLeft(user)'
<1> DEFINE t == jobs[r]
<1>1. jobs'[r] = job /\ (job # Nil => job.step = "begin")
  <2>1. jobs'[r] = job
    BY CommitJobs
  <2> QED BY <2>1 DEF AfterCommit, Working
<1>2. \A q \in Requests : q # r => IF jobs[q] = Nil THEN jobs'[q] = Nil
        ELSE /\ jobs'[q] # Nil /\ jobs'[q].step = jobs[q].step
             /\ jobs'[q].user = jobs[q].user /\ jobs'[q].rows = jobs[q].rows \ {t.id}
  BY CommitJobs
<1>3. factors' = Committed(t) /\ Pending(t.id, t.user).user = t.user
  BY DEF Commit, Pending
<1>4. Unverified(user)' \subseteq Unverified(user) /\ t.id \notin Unverified(user)'
  <2> SUFFICES ASSUME NEW f \in factors', f.user = user, ~f.verified
               PROVE  f \in factors /\ f.id # t.id
    BY DEF Unverified, IDs, Of
  <2>1. f \in factors /\ f.id \notin t.rows
    BY <1>3 DEF Committed
  <2> QED BY <2>1 DEF FactorInv, Inserts
<1>5. ASSUME NEW q \in Requests, AtStep(q, "delete")' \/ AtStep(q, "commit")'
      PROVE  /\ AtStep(q, "delete") \/ AtStep(q, "commit")
             /\ jobs'[q].user = jobs[q].user
             /\ \A i \in Unverified(user)' : i \in jobs[q].rows => i \in jobs'[q].rows
  <2>1. q # r /\ jobs'[q] # Nil /\ jobs'[q].step \in {"delete", "commit"}
    BY <1>1, <1>5 DEF AtStep
  <2> QED BY <1>2, <1>4, <2>1 DEF AtStep
<1> QED BY <1>4, <1>5, KeepsLeft

LEMMA NextLeft ==
  ASSUME FactorInv, OneInMemory, OneInMemory', [Next]_vars, NEW user \in Users, FewLeft(user)
  PROVE  FewLeft(user)'
<1> DEFINE SeenKept == \A q \in Requests : AtStep(q, "delete")' \/ AtStep(q, "commit")' =>
           /\ AtStep(q, "delete") \/ AtStep(q, "commit")
           /\ jobs'[q].user = jobs[q].user
           /\ jobs[q].user = user =>
                \A i \in Unverified(user)' : i \in jobs[q].rows => i \in jobs'[q].rows
\* Steps that take rows away, or verify them.
<1>1. ASSUME SeenKept, \A g \in factors' : ~g.verified =>
               \E f \in factors : f.id = g.id /\ f.user = g.user /\ ~f.verified
      PROVE  FewLeft(user)'
  <2>1. Unverified(user)' \subseteq Unverified(user)
    BY <1>1 DEF Unverified, IDs, Of
  <2> QED BY <1>1, <2>1, KeepsLeft
<1>2. CASE UNCHANGED vars
  BY <1>1, <1>2 DEF vars, AtStep
\* One request goes on, and does not begin to delete.
<1>3. ASSUME NEW r \in Requests, NEW job, Do(r, job),
             job # Nil => job.step \notin {"delete", "commit"},
             \A g \in factors' : ~g.verified =>
               \E f \in factors : f.id = g.id /\ f.user = g.user /\ ~f.verified
      PROVE  FewLeft(user)'
  <2>1. SeenKept
    BY <1>3, OneJob DEF AtStep
  <2> QED BY <1>1, <1>3, <2>1
<1>4. ASSUME InMemory, Next PROVE FewLeft(user)'
  <2>1. InMemory'
    BY <1>4 DEF Next, InMemory
  <2>2. Deleting(user)' = {}
    BY <2>1 DEF OneInMemory, Deleting, AtStep, Idle
  <2>3. \A i, j \in Unverified(user)' : i = j
    BY <2>1 DEF OneInMemory, Unverified, IDs, Of
  <2> QED BY <2>2, <2>3, NoSetups
<1>5. ASSUME NEW r \in Requests, NEW u \in Users,
             SetupStart(r, u) \/ Confirm(r, u) \/ DisableStart(r, u)
      PROVE  FewLeft(user)'
  <2>1. PICK job : Do(r, job) /\ (job # Nil => job.step \notin {"delete", "commit"})
    <3>1. PICK step \in {"begin", "verify", "disable"} :
            \E id, rows : Do(r, Working(step, u, id, rows, 1))
      BY <1>5 DEF SetupStart, Confirm, DisableStart
    <3>2. PICK id, rows : Do(r, Working(step, u, id, rows, 1))
      BY <3>1
    <3>3. Working(step, u, id, rows, 1).step = step
      BY DEF Working
    <3> QED BY <3>2, <3>3
  <2>2. UNCHANGED factors
    BY <1>5 DEF SetupStart, Confirm, DisableStart
  <2> QED BY <1>3, <2>1, <2>2
<1>6. ASSUME NEW r \in Requests, SetupInsert(r) PROVE FewLeft(user)'
  <2> DEFINE t == jobs[r]
             gone == t.rows \cap Unverified(t.user)
             job == Working("commit", t.user, t.id, gone, t.attempt)
  <2>1. factors' = factors /\ Unverified(user)' = Unverified(user) /\ AtStep(r, "delete")
    BY <1>6 DEF SetupInsert, Unverified, Of, IDs
  <2>2. CASE Do(r, Nil)
    BY <1>3, <2>1, <2>2
  <2>3. CASE Do(r, job)
    <3>1. \A q \in Requests : jobs'[q] = IF q = r THEN job ELSE jobs[q]
      BY <2>3, OneJob
    <3>2. job.user = t.user /\ job.rows = gone
      BY DEF Working
    <3> HIDE DEF job
    <3>3. SeenKept
      BY <2>1, <3>1, <3>2 DEF AtStep
    <3> QED BY <1>1, <2>1, <3>3
  <2> QED BY <1>6, <2>2, <2>3 DEF SetupInsert
<1>7. ASSUME NEW r \in Requests, GiveUp(r) \/ DisableFinish(r) PROVE FewLeft(user)'
  BY <1>3, <1>7 DEF GiveUp, DisableFinish
<1>8. ASSUME NEW r \in Requests, ConfirmFinish(r) PROVE FewLeft(user)'
  <2>1. ASSUME NEW g \in factors', ~g.verified
        PROVE  \E f \in factors : f.id = g.id /\ f.user = g.user /\ ~f.verified
    <3>1. PICK f \in factors : g = [f EXCEPT !.verified = f.verified \/ f.id = jobs[r].id]
      BY <1>8 DEF ConfirmFinish, Verified
    <3> QED BY <2>1, <3>1, Stored DEF Factor
  <2> QED BY <1>3, <1>8, <2>1 DEF ConfirmFinish
<1>9. ASSUME NEW r \in Requests, SetupCommit(r) \/ SetupCommitFails(r) PROVE FewLeft(user)'
  <2>1. AtStep(r, "commit")
    BY <1>9, CommitCases
  <2>2. PICK job \in AfterCommit(jobs[r]) :
          job \in Job \cup {Nil} /\ (Commit(r, job) \/ (Do(r, job) /\ UNCHANGED factors))
    BY <1>9, CommitCases
  <2>3. job # Nil => job.step = "begin"
    BY <2>2 DEF AfterCommit, Working
  <2>4. CASE Commit(r, job)
    BY <2>1, <2>2, <2>4, CommitLeaves, OtherCommit
  <2>5. CASE Do(r, job) /\ UNCHANGED factors
    BY <1>3, <2>3, <2>5
  <2> QED BY <2>2, <2>4, <2>5
<1>10. ASSUME NEW r \in Requests, SetupDelete(r) PROVE FewLeft(user)'
  BY <1>10, DeleteLeaves
<1>11. ASSUME NEW u \in Users, Setup(u) \/ Disable(u), Next PROVE FewLeft(user)'
  BY <1>4, <1>11 DEF Setup, Disable
<1> QED BY <1>2, <1>5, <1>6, <1>7, <1>8, <1>9, <1>10, <1>11 DEF Next

LEMMA FewHolds == Spec => []FewInv
<1>1. Init => FewInv
  <2> SUFFICES ASSUME Init PROVE FewInv
    OBVIOUS
  <2>1. factors = {} /\ \A r \in Requests : Idle(r)
    BY DEF Init, Idle
  <2>2. OneInMemory
    BY <2>1 DEF OneInMemory
  <2>3. ASSUME NEW user \in Users PROVE FewChecked(user) /\ FewLeft(user)
    <3>1. Checked(user) = {} /\ Unverified(user) = {} /\ Deleting(user) = {}
      BY <2>1 DEF Checked, VerifiedIDs, Verifying, Unverified, IDs, Of, Deleting, AtStep, Idle
    <3>2. \A rows : Leaving(user, rows) = {}
      BY <3>1 DEF Leaving
    <3> QED BY <3>1, <3>2, FS_EmptySet, BoundType DEF FewChecked, FewLeft
  <2> QED BY <2>2, <2>3 DEF FewInv
<1>2. FactorInv /\ FewInv /\ [Next]_vars => FewInv'
  BY NextOne, NextChecked, NextLeft DEF FewInv
<1> QED BY <1>1, <1>2, InvHolds, PTL DEF Spec

-----------------------------------------------------------------------------
\* Requests and factors are well-formed, and an open transaction has locked
\* rows that the store can have (setup2FA, CreateSecondFactor).
THEOREM TypeCorrect == Spec => []TypeOK
BY InvHolds, PTL DEF FactorInv

(***************************************************************************)
(* A factor is verified only by the end of a confirmation that read it     *)
(* (confirm2FA): by the invariant the id of that confirmation is of no     *)
(* other factor, and its user is the factor's.                             *)
(***************************************************************************)
THEOREM FactorsAreConfirmed == Spec => VerifiedByItsConfirmation
<1> DEFINE Step == \A f \in factors' : f.verified /\ f \notin factors =>
       /\ Pending(f.id, f.user) \in factors
       /\ \E r \in Requests :
            /\ AtStep(r, "verify") /\ jobs[r].id = f.id /\ jobs[r].user = f.user
            /\ jobs'[r] = Nil
<1>1. FactorInv /\ [Next]_vars => [Step]_vars
  <2> SUFFICES ASSUME FactorInv, Next, NEW g \in factors', g.verified, g \notin factors
               PROVE /\ Pending(g.id, g.user) \in factors
                     /\ \E r \in Requests :
                          /\ AtStep(r, "verify") /\ jobs[r].id = g.id /\ jobs[r].user = g.user
                          /\ jobs'[r] = Nil
    BY DEF vars
  <2>1. \A user \in Users : ~Setup(user) /\ ~Disable(user)
    BY DEF Setup, Disable, Pending
  <2>2. \A r \in Requests, user \in Users :
          ~SetupStart(r, user) /\ ~Confirm(r, user) /\ ~DisableStart(r, user)
    BY DEF SetupStart, Confirm, DisableStart
  <2>3. \A r \in Requests : ~SetupDelete(r) /\ ~SetupInsert(r) /\ ~GiveUp(r) /\ ~DisableFinish(r)
    BY DEF SetupDelete, SetupInsert, GiveUp, DisableFinish
  <2>4. \A r \in Requests : ~SetupCommit(r) /\ ~SetupCommitFails(r)
    BY CommitCases, CommittedRows DEF Commit
  <2>5. PICK r \in Requests : ConfirmFinish(r)
    BY <2>1, <2>2, <2>3, <2>4 DEF Next
  <2>6. PICK f \in factors :
          /\ g.id = f.id /\ g.user = f.user
          /\ g # f => ~f.verified /\ f.id = jobs[r].id
    BY <2>5, VerifiedRows
  <2>7. f \in Factor /\ ~f.verified /\ f.id = jobs[r].id /\ g.id = f.id /\ g.user = f.user
    BY <2>6, Stored
  <2>8. f = Pending(g.id, g.user)
    BY <2>7 DEF Factor, Pending
  <2>9. jobs[r].user = g.user
    <3>1. Refers(f.id, f.user) /\ Refers(f.id, jobs[r].user) /\ jobs[r].user \in Users
      BY <2>5, <2>7, Stored, JobOf DEF ConfirmFinish, Job, Factor
    <3> QED BY <2>7, <3>1 DEF FactorInv, OneUser, Factor
  <2>10. AtStep(r, "verify") /\ jobs'[r] = Nil
    BY <2>5 DEF ConfirmFinish, Do, FactorInv, TypeOK
  <2> QED BY <2>7, <2>8, <2>9, <2>10
<1> QED BY <1>1, InvHolds, PTL DEF Spec, VerifiedByItsConfirmation

(***************************************************************************)
(* In PostgreSQL only Disable takes a verified factor from its account     *)
(* (CreateSecondFactor): by the invariant no row is verified while the     *)
(* transaction of a setup is about to take it away, and the rows that a    *)
(* disabling request has seen are of its own account.                      *)
(***************************************************************************)
THEOREM FactorsAreKept == Spec => VerifiedIsKept
<1> DEFINE Step == OnPostgres => \A f \in factors : f.verified /\ f.id \notin IDs(factors)' =>
       \E r \in Requests : AtStep(r, "disable") /\ jobs[r].user = f.user /\ jobs'[r] = Nil
<1>1. FactorInv /\ [Next]_vars => [Step]_vars
  <2> SUFFICES ASSUME FactorInv, Next, OnPostgres, NEW f \in factors, f.verified,
                      \A g \in factors' : g.id # f.id
               PROVE \E r \in Requests :
                       AtStep(r, "disable") /\ jobs[r].user = f.user /\ jobs'[r] = Nil
    BY DEF vars, IDs
  <2>1. \A user \in Users : ~Setup(user) /\ ~Disable(user)
    BY DEF Setup, Disable, InMemory, OnPostgres
  <2>2. \A r \in Requests, user \in Users :
          ~SetupStart(r, user) /\ ~Confirm(r, user) /\ ~DisableStart(r, user)
    BY DEF SetupStart, Confirm, DisableStart
  <2>3. \A r \in Requests : ~SetupDelete(r) /\ ~SetupInsert(r) /\ ~GiveUp(r)
    BY DEF SetupDelete, SetupInsert, GiveUp
  <2>4. \A r \in Requests : ~SetupCommit(r) /\ ~SetupCommitFails(r)
    BY CommitCases DEF Commit, Committed, FactorInv, LockedUnverified
  <2>5. \A r \in Requests : ~ConfirmFinish(r)
    <3> SUFFICES ASSUME NEW r \in Requests, ConfirmFinish(r) PROVE FALSE
      OBVIOUS
    <3>1. [f EXCEPT !.verified = f.verified \/ f.id = jobs[r].id] \in factors'
      BY DEF ConfirmFinish, Verified
    <3>2. [f EXCEPT !.verified = f.verified \/ f.id = jobs[r].id].id = f.id
      BY Stored DEF Factor
    <3> QED BY <3>1, <3>2
  <2>6. PICK r \in Requests : DisableFinish(r)
    BY <2>1, <2>2, <2>3, <2>4, <2>5 DEF Next
  <2>7. f.id \in jobs[r].rows
    BY <2>6 DEF DisableFinish
  <2>8. jobs[r].user = f.user
    <3>1. Refers(f.id, f.user) /\ Refers(f.id, jobs[r].user) /\ jobs[r].user \in Users
          /\ f \in Factor
      BY <2>6, <2>7, Stored, JobOf DEF DisableFinish, Job, Factor
    <3> QED BY <3>1 DEF FactorInv, OneUser, Factor
  <2>9. AtStep(r, "disable") /\ jobs'[r] = Nil
    BY <2>6 DEF DisableFinish, Do, FactorInv, TypeOK
  <2> QED BY <2>8, <2>9
<1> QED BY <1>1, InvHolds, PTL DEF Spec, VerifiedIsKept

(***************************************************************************)
(* An account has one factor in memory, and in PostgreSQL no more that are *)
(* verified, and no more that are not, than there were requests at a time: *)
(* whatever overlaps, and however often a commit fails and is tried again  *)
(* (setup2FA, confirm2FA, CreateSecondFactor).                             *)
(***************************************************************************)
THEOREM FactorsStayFew == Spec => []FactorsAreFew
<1>1. FactorInv /\ FewInv => FactorsAreFew
  <2> SUFFICES ASSUME FactorInv, FewInv, NEW u \in Users
               PROVE  /\ InMemory => Cardinality(Of(u)) <= 1
                      /\ Cardinality(Unverified(u)) <= Bound
                      /\ Cardinality({f \in Of(u) : f.verified}) <= Bound
    BY DEF FactorsAreFew, Bound
  <2>1. ASSUME InMemory PROVE Cardinality(Of(u)) <= 1
    <3>1. \A f, g \in Of(u) : f = g
      BY <2>1 DEF FewInv, OneInMemory, Of
    <3>2. Cardinality(Of(u)) \in {0, 1}
      BY <3>1, AtMostOne
    <3> QED BY <3>2
  <2>2. Cardinality(Unverified(u)) <= Bound
    BY DEF FewInv, FewLeft
  <2>3. Cardinality({f \in Of(u) : f.verified}) <= Bound
    <3> DEFINE S == {f \in Of(u) : f.verified}
               id == [f \in S |-> f.id]
    <3>1. S \subseteq factors /\ \A f \in S : f.id \in Checked(u)
      BY DEF Of, Checked, VerifiedIDs, IDs
    <3>2. id \in Injection(S, Checked(u))
      BY <3>1 DEF FactorInv, UniqueIDs, Injection, IsInjective
    <3>3. IsFiniteSet(Checked(u)) /\ Cardinality(Checked(u)) <= Bound
      BY DEF FewInv, FewChecked
    <3>4. IsFiniteSet(S) /\ Cardinality(S) <= Cardinality(Checked(u))
      BY <3>2, <3>3, FS_Injection
    <3>5. Cardinality(S) \in Nat /\ Cardinality(Checked(u)) \in Nat
      BY <3>3, <3>4, FS_CardinalityType
    <3> QED BY <3>3, <3>4, <3>5, BoundType
  <2> QED BY <2>1, <2>2, <2>3
<1> QED BY <1>1, InvHolds, FewHolds, PTL
=============================================================================
