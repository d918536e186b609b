---------------------------- MODULE SlidingLimit ----------------------------
(***************************************************************************)
(* CheckSlidingRateLimit of the Redis decorator, for one key: a sorted set *)
(* of marks, one for each millisecond in which a request came, and the     *)
(* expiry of the key.  A pipeline is not a transaction: the commands of    *)
(* other callers run between its own, time passes between them, the key    *)
(* may expire, and the connection may fail.  All use one clock.            *)
(***************************************************************************)
EXTENDS Integers, FiniteSets

CONSTANTS
  Callers,   \* bound of the model: calls in flight
  Limit,     \* limit
  WindowMS,  \* windowSec * 1000
  Times      \* bound of the model: the milliseconds at which anything happens

ASSUME SlidingAssumption ==
  /\ IsFiniteSet(Callers) /\ Callers # {}
  /\ Limit \in Nat /\ WindowMS \in Nat \ {0} /\ Times \subseteq Nat

VARIABLES
  ms,       \* time.Now(), in milliseconds
  marks,    \* the sorted set: score and member are the same number
  expires,  \* the last millisecond of the key; 0 if it has no expiry
  checks,   \* the calls in flight: how far each has come, nowMS, and its verdict
  passed    \* history: the milliseconds of the requests that were allowed

slidingVars == <<ms, marks, expires, checks, passed>>

SlidingInit ==
  /\ ms = 0 /\ marks = {} /\ expires = 0 /\ passed = {}
  /\ checks = [c \in Callers |-> [did |-> "none", at |-> 0, verdict |-> "open"]]

-----------------------------------------------------------------------------
\* Redis keeps no empty set: the key goes with its last mark, and its expiry too.
Key(set, until) ==
  /\ marks' = set
  /\ expires' = IF set = {} THEN 0 ELSE until

Did(c, step, at, verdict) ==
  checks' = [checks EXCEPT ![c] = [did |-> step, at |-> at, verdict |-> verdict]]

WindowStart(c) == checks[c].at - WindowMS

\* The caller's clock is read once, before the first command is sent.
CheckLimit(c) ==
  /\ checks[c].did = "none"
  /\ Did(c, "read", ms, "open")
  /\ UNCHANGED <<ms, marks, expires, passed>>

ZRemRangeByScore(c) ==
  /\ checks[c].did = "read"
  /\ Key({m \in marks : m > WindowStart(c)}, expires)
  /\ Did(c, "removed", checks[c].at, "open")
  /\ UNCHANGED <<ms, passed>>

\* Mutant: a request too many is allowed.
AtMostLimit(count) == count <= Limit

BelowLimit(count) == count < Limit

\* The count decides; the answer is given when all commands are done.
ZCount(c) ==
  /\ checks[c].did = "removed"
  /\ LET count == Cardinality({m \in marks : m >= WindowStart(c)})
     IN  Did(c, "counted", checks[c].at, IF BelowLimit(count) THEN "allowed" ELSE "refused")
  /\ UNCHANGED <<ms, marks, expires, passed>>

\* The mark is added whether or not the request is allowed.  A key that is
\* created has no expiry.
ZAdd(c) ==
  /\ checks[c].did = "counted"
  /\ Key(marks \cup {checks[c].at}, expires)
  /\ Did(c, "added", checks[c].at, checks[c].verdict)
  /\ UNCHANGED <<ms, passed>>

\* Two windows from now; nothing if there is no key.  The answer may be lost.
Expire(c) ==
  /\ checks[c].did = "added"
  /\ Key(marks, ms + 2 * WindowMS)
  /\ passed' \in {passed, passed \cup {p \in {checks[c].at} : checks[c].verdict = "allowed"}}
  /\ Did(c, "none", 0, "open")
  /\ UNCHANGED ms

\* The connection fails before the next command; the caller gets the error,
\* or the client sends all commands again.
ExecFails(c) ==
  /\ checks[c].did # "none"
  /\ Did(c, "none", 0, "open") \/ Did(c, "read", checks[c].at, "open")
  /\ UNCHANGED <<ms, marks, expires, passed>>

Tick ==
  /\ \E now \in Times :
       /\ ms < now
       /\ ms' = now
       /\ Key({m \in marks : expires = 0 \/ now <= expires}, expires)
  /\ UNCHANGED <<checks, passed>>

SlidingNext ==
  \/ Tick
  \/ \E c \in Callers :
       \/ CheckLimit(c) \/ ZRemRangeByScore(c) \/ ZCount(c)
       \/ ZAdd(c) \/ Expire(c) \/ ExecFails(c)

SlidingSpec == SlidingInit /\ [][SlidingNext]_slidingVars

-----------------------------------------------------------------------------
(***************************************************************************)
(* In a window of any position, requests are allowed in no more different  *)
(* milliseconds than the limit, less one, and three for every call that    *)
(* may be under way: one that was counted before the marks of the others   *)
(* came; one whose mark went with the key, between its ZADD and its        *)
(* EXPIRE; and one whose commands come so late that the marks it should    *)
(* have counted were removed, or have expired.  That is all the limiter    *)
(* promises: requests of one millisecond share a mark, and any number is   *)
(* allowed.                                                                *)
(***************************************************************************)
AtMostLimitInstants == \A t \in passed :
  Cardinality({p \in passed : t - WindowMS < p /\ p <= t}) < Limit + 3 * Cardinality(Callers)
=============================================================================
