---------------------------- MODULE StoresProofs ----------------------------
(***************************************************************************)
(* What the stores compute of their own: the sliding limit of the Redis    *)
(* decorator, for any number of callers, limit and length of the window,   *)
(* and the base64 of PostgresStore, for any text.                          *)
(***************************************************************************)
EXTENDS SlidingLimit, KeyCodec, FiniteSetTheorems, TLAPS

-----------------------------------------------------------------------------
(* The sliding limit.                                                      *)

Steps == {"none", "read", "removed", "counted", "added"}
Verdicts == {"open", "allowed", "refused"}

SlidingTypes ==
  /\ ms \in Nat /\ expires \in Nat
  /\ marks \in SUBSET Nat /\ IsFiniteSet(marks)
  /\ passed \in SUBSET Nat /\ IsFiniteSet(passed)
  /\ checks \in [Callers -> [did : Steps, at : Nat, verdict : Verdicts]]
  /\ \A c \in Callers : checks[c].at <= ms
  /\ \A m \in marks : m <= ms
  /\ \A p \in passed : p <= ms

Instants(S) == {checks[c].at : c \in S}
InFlight == {c \in Callers : checks[c].did # "none"}
Passing == {c \in InFlight : checks[c].verdict = "allowed"}
Noted == {c \in Passing : checks[c].did = "added"}

\* The instants that were allowed, or have their mark and will be.
Placed == passed \cup Instants(Noted)

N == Cardinality(Callers)

\* The window of length WindowMS that ends with t.
Within(S, t) == {p \in S : t - WindowMS < p /\ p <= t}

\* The instants of the window that were allowed, or are going to be.
Sure(t) == Within(passed \cup Instants(Passing), t)

(***************************************************************************)
(* As long as every allowed instant of the window still has its mark, a    *)
(* caller that counts fewer marks than the limit finds fewer allowed       *)
(* instants, and what the others know already adds at most one each.  The  *)
(* key outlives the window of a request that was answered.                 *)
(***************************************************************************)
Marked(t) ==
  /\ Within(Placed, t) \subseteq marks
  /\ Cardinality(Sure(t)) < Limit + N
  /\ expires # 0 => \A p \in Within(passed, t) : p + 2 * WindowMS <= expires

(***************************************************************************)
(* When the key has expired within the window, the marks are lost of the   *)
(* calls that had not come to EXPIRE; a new key outlives the window.       *)
(***************************************************************************)
Renewed(t) ==
  /\ \E lost \in SUBSET Nat :
       /\ IsFiniteSet(lost) /\ Cardinality(lost) <= N
       /\ Within(Placed, t) \subseteq marks \cup lost
  /\ Cardinality(Sure(t)) < Limit + 2 * N
  /\ t < ms + WindowMS
  /\ expires = 0 \/ t < expires

(***************************************************************************)
(* Once a caller that came after t has removed marks, or the key has       *)
(* expired after t, the window is past, and only the calls that are in     *)
(* flight can still add to it.                                             *)
(***************************************************************************)
Settled(t) ==
  /\ t < ms
  /\ Cardinality(Within(passed \cup Instants(InFlight), t)) < Limit + 3 * N

SlidingInv ==
  /\ SlidingTypes
  /\ \A t \in Nat : Marked(t) \/ Renewed(t) \/ Settled(t)

\* The callers of a set are at no more instants than they are.
LEMMA FewInstants ==
  ASSUME NEW S \in SUBSET Callers
  PROVE  /\ IsFiniteSet(Instants(S)) /\ Cardinality(Instants(S)) \in Nat
         /\ Cardinality(Instants(S)) <= N
<1>1. IsFiniteSet(S) /\ Cardinality(S) <= Cardinality(Callers)
  BY SlidingAssumption, FS_Subset
<1> DEFINE f == [c \in S |-> checks[c].at]
<1>2. f \in Surjection(S, Instants(S))
  BY DEF Surjection, Instants
<1>3. IsFiniteSet(Instants(S)) /\ Cardinality(Instants(S)) <= Cardinality(S)
  BY <1>1, <1>2, FS_Surjection
<1>4. /\ Cardinality(S) \in Nat /\ Cardinality(Instants(S)) \in Nat
      /\ Cardinality(Callers) \in Nat
  BY <1>1, <1>3, SlidingAssumption, FS_CardinalityType
<1> QED BY <1>1, <1>3, <1>4 DEF N

LEMMA SomeCallers == N \in Nat \ {0} /\ Limit \in Nat /\ WindowMS \in Nat \ {0}
BY SlidingAssumption, FS_CardinalityType, FS_EmptySet DEF N

\* A set that lies in two others.
LEMMA InTwo ==
  ASSUME NEW S, IsFiniteSet(S), NEW T, IsFiniteSet(T), NEW R \in SUBSET (S \cup T)
  PROVE  /\ IsFiniteSet(R) /\ Cardinality(R) \in Nat
         /\ Cardinality(R) <= Cardinality(S) + Cardinality(T)
<1>1. /\ IsFiniteSet(S \cup T)
      /\ Cardinality(S \cup T) = Cardinality(S) + Cardinality(T) - Cardinality(S \cap T)
  BY FS_Union
<1>2. IsFiniteSet(S \cap T)
  BY FS_Intersection
<1>3. IsFiniteSet(R) /\ Cardinality(R) <= Cardinality(S \cup T)
  BY <1>1, FS_Subset
<1>4. /\ Cardinality(S) \in Nat /\ Cardinality(T) \in Nat /\ Cardinality(S \cap T) \in Nat
      /\ Cardinality(S \cup T) \in Nat /\ Cardinality(R) \in Nat
  BY <1>1, <1>2, <1>3, FS_CardinalityType
<1> QED BY <1>1, <1>3, <1>4

LEMMA Smaller ==
  ASSUME NEW S, IsFiniteSet(S), NEW T \in SUBSET S, NEW n \in Int, Cardinality(S) < n
  PROVE  Cardinality(T) < n
<1>1. Cardinality(S) \in Nat /\ Cardinality(T) \in Nat /\ Cardinality(T) <= Cardinality(S)
  BY FS_Subset, FS_CardinalityType
<1> QED BY <1>1

LEMMA FiniteParts ==
  ASSUME SlidingTypes, NEW t \in Nat
  PROVE  /\ IsFiniteSet(Sure(t)) /\ Cardinality(Sure(t)) \in Nat
         /\ IsFiniteSet(Within(passed, t)) /\ Cardinality(Within(passed, t)) \in Nat
         /\ Within(Placed, t) \subseteq Sure(t) /\ Within(passed, t) \subseteq Within(Placed, t)
         /\ IsFiniteSet(Within(passed \cup Instants(InFlight), t))
<1>1. IsFiniteSet(passed \cup Instants(Passing)) /\ IsFiniteSet(passed \cup Instants(InFlight))
  BY FewInstants, FS_Union DEF InFlight, Passing, SlidingTypes
<1>2. Within(Placed, t) \subseteq Sure(t) /\ Within(passed, t) \subseteq Within(Placed, t)
  BY DEF Placed, Sure, Within, Instants, Noted
<1>3. IsFiniteSet(Sure(t)) /\ IsFiniteSet(Within(passed \cup Instants(InFlight), t))
  BY <1>1, FS_Subset DEF Sure, Within
<1>4. IsFiniteSet(Within(passed, t))
  BY FS_Subset DEF Within, SlidingTypes
<1> QED BY <1>2, <1>3, <1>4, FS_CardinalityType

LEMMA SlidingStarts == SlidingInit => SlidingInv
<1> SUFFICES ASSUME SlidingInit PROVE SlidingInv
  OBVIOUS
<1>1. SlidingTypes
  BY FS_EmptySet DEF SlidingInit, SlidingTypes, Steps, Verdicts
<1>2. ASSUME NEW t \in Nat PROVE Marked(t)
  <2>1. Sure(t) = {} /\ Within(Placed, t) = {}
    BY DEF SlidingInit, Placed, Sure, Within, Instants, Passing, Noted, InFlight
  <2> QED BY <2>1, SomeCallers, FS_EmptySet DEF Marked, SlidingInit
<1> QED BY <1>1, <1>2 DEF SlidingInv

-----------------------------------------------------------------------------
(* What a step of one caller changes.                                      *)

LEMMA KeySteps ==
  ASSUME SlidingTypes, NEW set, set \subseteq Nat, IsFiniteSet(set),
         \A m \in set : m <= ms', NEW until \in Nat, Key(set, until)
  PROVE  /\ marks' \subseteq Nat /\ IsFiniteSet(marks') /\ \A m \in marks' : m <= ms'
         /\ expires' \in Nat
BY DEF Key

\* The commands of the pipeline that a call has sent are its own affair.
LEMMA DidTypes ==
  ASSUME SlidingTypes, NEW c \in Callers, NEW step \in Steps, NEW i \in Nat, i <= ms,
         NEW answer \in Verdicts, Did(c, step, i, answer), ms' = ms
  PROVE  /\ checks' \in [Callers -> [did : Steps, at : Nat, verdict : Verdicts]]
         /\ \A d \in Callers : checks'[d].at <= ms'
         /\ checks'[c] = [did |-> step, at |-> i, verdict |-> answer]
         /\ \A d \in Callers \ {c} : checks'[d] = checks[d]
BY DEF Did, SlidingTypes

LEMMA SlidingTypesStep ==
  ASSUME SlidingTypes, [SlidingNext]_slidingVars
  PROVE  SlidingTypes'
<1>1. CASE UNCHANGED slidingVars
  BY <1>1 DEF SlidingTypes, slidingVars
<1>2. CASE Tick
  <2>1. PICK now \in Times : /\ ms < now /\ ms' = now
                             /\ Key({m \in marks : expires = 0 \/ now <= expires}, expires)
    BY <1>2 DEF Tick
  <2> DEFINE set == {m \in marks : expires = 0 \/ now <= expires}
  <2>2. ms' \in Nat /\ ms < ms'
    BY <2>1, SlidingAssumption
  <2>3. set \subseteq Nat /\ IsFiniteSet(set) /\ \A m \in set : m <= ms'
    <3>1. set \subseteq marks /\ IsFiniteSet(marks)
      BY DEF SlidingTypes
    <3>2. IsFiniteSet(set)
      BY <3>1, FS_Subset
    <3> HIDE DEF set
    <3>3. \A m \in marks : m \in Nat /\ m <= ms /\ m <= ms'
      BY <2>2 DEF SlidingTypes
    <3> QED BY <3>1, <3>2, <3>3
  <2>4. expires \in Nat /\ Key(set, expires)
    BY <2>1 DEF SlidingTypes
  <2> HIDE DEF set
  <2>5. marks' \subseteq Nat /\ IsFiniteSet(marks') /\ (\A m \in marks' : m <= ms')
        /\ expires' \in Nat
    BY <2>3, <2>4, KeySteps
  <2>6. UNCHANGED <<checks, passed>>
    BY <1>2 DEF Tick
  <2>7. /\ \A c \in Callers : checks[c].at \in Nat /\ checks[c].at <= ms'
        /\ \A p \in passed : p <= ms'
    BY <2>2 DEF SlidingTypes
  <2> QED BY <2>2, <2>5, <2>6, <2>7 DEF SlidingTypes
<1>3. ASSUME NEW c \in Callers, CheckLimit(c) \/ ExecFails(c) PROVE SlidingTypes'
  <2>1. UNCHANGED <<ms, marks, expires, passed>>
        /\ \E step \in Steps, i \in Nat : i <= ms /\ Did(c, step, i, "open")
    BY <1>3 DEF CheckLimit, ExecFails, Steps, SlidingTypes
  <2> QED BY <2>1, DidTypes DEF SlidingTypes, Verdicts
<1>4. ASSUME NEW c \in Callers, ZRemRangeByScore(c) PROVE SlidingTypes'
  <2> DEFINE set == {m \in marks : m > WindowStart(c)}
  <2>1. ms' = ms /\ passed' = passed /\ Key(set, expires)
        /\ Did(c, "removed", checks[c].at, "open")
    BY <1>4 DEF ZRemRangeByScore
  <2>2. set \subseteq Nat /\ IsFiniteSet(set) /\ (\A m \in set : m <= ms') /\ expires \in Nat
    BY <2>1, FS_Subset DEF SlidingTypes
  <2> HIDE DEF set
  <2>3. marks' \subseteq Nat /\ IsFiniteSet(marks') /\ (\A m \in marks' : m <= ms')
        /\ expires' \in Nat
    BY <2>1, <2>2, KeySteps
  <2> QED BY <2>1, <2>3, DidTypes DEF SlidingTypes, Steps, Verdicts
<1>5. ASSUME NEW c \in Callers, ZCount(c) PROVE SlidingTypes'
  <2>1. \E answer \in Verdicts : Did(c, "counted", checks[c].at, answer)
    BY <1>5 DEF ZCount, Verdicts
  <2>2. UNCHANGED <<ms, marks, expires, passed>>
    BY <1>5 DEF ZCount
  <2> QED BY <2>1, <2>2, DidTypes DEF SlidingTypes, Steps
<1>6. ASSUME NEW c \in Callers, ZAdd(c) PROVE SlidingTypes'
  <2> DEFINE set == marks \cup {checks[c].at}
  <2>1. ms' = ms /\ passed' = passed /\ Key(set, expires)
        /\ Did(c, "added", checks[c].at, checks[c].verdict)
    BY <1>6 DEF ZAdd
  <2>2. set \subseteq Nat /\ IsFiniteSet(set) /\ (\A m \in set : m <= ms') /\ expires \in Nat
    BY <2>1, FS_AddElement DEF SlidingTypes
  <2> HIDE DEF set
  <2>3. marks' \subseteq Nat /\ IsFiniteSet(marks') /\ (\A m \in marks' : m <= ms')
        /\ expires' \in Nat
    BY <2>1, <2>2, KeySteps
  <2> QED BY <2>1, <2>3, DidTypes DEF SlidingTypes, Steps
<1>7. ASSUME NEW c \in Callers, Expire(c) PROVE SlidingTypes'
  <2>1. ms' = ms /\ Key(marks, ms + 2 * WindowMS) /\ Did(c, "none", 0, "open")
    BY <1>7 DEF Expire
  <2>2. marks \subseteq Nat /\ IsFiniteSet(marks) /\ (\A m \in marks : m <= ms')
        /\ ms + 2 * WindowMS \in Nat
    BY <2>1, SlidingAssumption DEF SlidingTypes
  <2>3. marks' \subseteq Nat /\ IsFiniteSet(marks') /\ (\A m \in marks' : m <= ms')
        /\ expires' \in Nat
    BY <2>1, <2>2, KeySteps
  <2>4. passed' = passed \/ passed' = passed \cup {checks[c].at}
    BY <1>7 DEF Expire
  <2>5. passed' \in SUBSET Nat /\ \A p \in passed' : p <= ms'
    BY <2>1, <2>4 DEF SlidingTypes
  <2>6. IsFiniteSet(passed')
    <3>1. IsFiniteSet(passed)
      BY DEF SlidingTypes
    <3>2. IsFiniteSet(passed \cup {checks[c].at})
      BY <3>1, FS_AddElement
    <3> QED BY <2>4, <3>1, <3>2
  <2>7. "none" \in Steps /\ "open" \in Verdicts /\ 0 \in Nat /\ 0 <= ms
    BY DEF Steps, Verdicts, SlidingTypes
  <2>8. /\ checks' \in [Callers -> [did : Steps, at : Nat, verdict : Verdicts]]
        /\ \A d \in Callers : checks'[d].at <= ms'
    BY <2>1, <2>7, DidTypes
  <2> QED BY <2>1, <2>3, <2>5, <2>6, <2>8 DEF SlidingTypes
<1> QED BY <1>1, <1>2, <1>3, <1>4, <1>5, <1>6, <1>7 DEF SlidingNext

-----------------------------------------------------------------------------
(* What a step does to the windows.                                        *)

Unsettled(t) == Marked(t) \/ Renewed(t)

LEMMA Later ==
  ASSUME NEW i \in Nat, NEW j \in Nat, i <= j, NEW w \in Nat, NEW t \in Nat, t < i + w
  PROVE  t < j + w
OBVIOUS

(***************************************************************************)
(* A step that adds nothing to what is allowed in the window without a     *)
(* mark, keeps its marks, and the key at least as long as it has to.       *)
(***************************************************************************)
LEMMA StaysUnsettled ==
  ASSUME SlidingTypes, NEW t \in Nat, Unsettled(t), ms' \in Nat, ms <= ms',
         Within(Placed, t)' \subseteq Within(Placed, t) \cup marks',
         Within(Placed, t) \cap marks \subseteq marks', Sure(t)' \subseteq Sure(t),
         \/ expires' = 0
         \/ expires' = expires /\ Within(passed', t) \subseteq Within(passed, t)
         \/ /\ t < ms + WindowMS => t < expires'
            /\ \A p \in Within(passed', t) : p + 2 * WindowMS <= expires'
  PROVE  Unsettled(t)'
<1>1. IsFiniteSet(Sure(t)) /\ N \in Nat /\ Limit \in Nat /\ WindowMS \in Nat
  BY FiniteParts, SomeCallers
<1>2. CASE Marked(t)
  <2>1. Cardinality(Sure(t)') < Limit + N
    BY <1>1, <1>2, Smaller DEF Marked
  <2>2. Within(Placed, t)' \subseteq marks'
    BY <1>2 DEF Marked
  <2>3. expires' # 0 => \A p \in Within(passed', t) : p + 2 * WindowMS <= expires'
    BY <1>2 DEF Marked
  <2> QED BY <2>1, <2>2, <2>3 DEF Unsettled, Marked, Within, N
<1>3. CASE Renewed(t)
  <2>1. Cardinality(Sure(t)') < Limit + 2 * N
    BY <1>1, <1>3, Smaller DEF Renewed
  <2>2. PICK lost \in SUBSET Nat :
          /\ IsFiniteSet(lost) /\ Cardinality(lost) <= N
          /\ Within(Placed, t) \subseteq marks \cup lost
    BY <1>3 DEF Renewed
  <2>3. Within(Placed, t)' \subseteq marks' \cup lost
    BY <2>2
  <2>4. t < ms + WindowMS /\ (expires = 0 \/ t < expires)
    BY <1>3 DEF Renewed
  <2>5. t < ms' + WindowMS
    <3>1. ms \in Nat /\ WindowMS \in Nat
      BY <1>1 DEF SlidingTypes
    <3> QED BY <2>4, <3>1, Later
  <2>6. expires' = 0 \/ t < expires'
    BY <2>4
  <2> QED BY <2>1, <2>2, <2>3, <2>5, <2>6 DEF Unsettled, Renewed, N
<1> QED BY <1>2, <1>3 DEF Unsettled

LEMMA StaysSettled ==
  ASSUME SlidingTypes, NEW t \in Nat, Settled(t), ms' \in Nat, ms <= ms',
         Within(passed \cup Instants(InFlight), t)'
           \subseteq Within(passed \cup Instants(InFlight), t)
  PROVE  Settled(t)'
<1>1. IsFiniteSet(Within(passed \cup Instants(InFlight), t))
  BY FiniteParts
<1>2. Limit + 3 * N \in Int
  BY SomeCallers
<1>3. Cardinality(Within(passed \cup Instants(InFlight), t)') < Limit + 3 * N
  <2>1. Cardinality(Within(passed \cup Instants(InFlight), t)) < Limit + 3 * N
    BY DEF Settled
  <2> QED BY <1>1, <1>2, <2>1, Smaller
<1>4. t < ms'
  BY DEF Settled, SlidingTypes
<1> QED BY <1>3, <1>4 DEF Settled, N

\* What the calls in flight can add to a window that is past.
LEMMA BecomesSettled ==
  ASSUME SlidingTypes, NEW t \in Nat, Unsettled(t), t < ms',
         Within(passed \cup Instants(InFlight), t)'
           \subseteq Within(passed \cup Instants(InFlight), t)
  PROVE  Settled(t)'
<1>1. IsFiniteSet(Sure(t)) /\ Cardinality(Sure(t)) \in Nat /\ N \in Nat /\ Limit \in Nat
  BY FiniteParts, SomeCallers
<1>2. Cardinality(Sure(t)) < Limit + 2 * N
  BY <1>1 DEF Unsettled, Marked, Renewed
<1>3. /\ IsFiniteSet(Instants(InFlight)) /\ Cardinality(Instants(InFlight)) \in Nat
      /\ Cardinality(Instants(InFlight)) <= N
  BY FewInstants DEF InFlight
<1>4. Within(passed \cup Instants(InFlight), t)' \subseteq Sure(t) \cup Instants(InFlight)
  BY DEF Within, Sure
<1>5. /\ Cardinality(Within(passed \cup Instants(InFlight), t)') \in Nat
      /\ Cardinality(Within(passed \cup Instants(InFlight), t)')
           <= Cardinality(Sure(t)) + Cardinality(Instants(InFlight))
  BY <1>1, <1>3, <1>4, InTwo
<1>6. Cardinality(Within(passed \cup Instants(InFlight), t)') < Limit + 3 * N
  BY <1>1, <1>2, <1>3, <1>5
<1> QED BY <1>6 DEF Settled, N

(***************************************************************************)
(* A call that begins, or ends without an answer, or starts again, allows  *)
(* nothing; an instant that is read now lies after every settled window.   *)
(***************************************************************************)
LEMMA BeginsOrFails ==
  ASSUME SlidingTypes, NEW c \in Callers, CheckLimit(c) \/ ExecFails(c), NEW t \in Nat
  PROVE  (Unsettled(t) => Unsettled(t)') /\ (Settled(t) => Settled(t)')
<1>1. UNCHANGED <<ms, marks, expires, passed>>
  BY DEF CheckLimit, ExecFails
<1>2. PICK step \in {"none", "read"}, i \in Nat :
        /\ i <= ms /\ Did(c, step, i, "open")
        /\ step = "none" \/ i = ms \/ (i = checks[c].at /\ checks[c].did # "none")
  BY DEF CheckLimit, ExecFails, SlidingTypes
<1>3. checks'[c] = [did |-> step, at |-> i, verdict |-> "open"]
      /\ \A d \in Callers \ {c} : checks'[d] = checks[d]
  <2>1. step \in Steps /\ "open" \in Verdicts
    BY DEF Steps, Verdicts
  <2> QED BY <1>1, <1>2, <2>1, DidTypes
<1>4. \A d \in Passing' : d \in Passing /\ checks'[d] = checks[d]
  BY <1>3 DEF Passing, InFlight
<1>5. \A d \in Noted' : d \in Noted /\ checks'[d] = checks[d]
  BY <1>4 DEF Noted
<1>6. Instants(Passing)' \subseteq Instants(Passing) /\ Instants(Noted)' \subseteq Instants(Noted)
  BY <1>4, <1>5 DEF Instants
<1>7. Sure(t)' \subseteq Sure(t) /\ Within(passed', t) = Within(passed, t)
      /\ Within(Placed, t)' \subseteq Within(Placed, t)
  BY <1>1, <1>6 DEF Sure, Within, Placed
<1>8. Instants(InFlight)' \subseteq Instants(InFlight) \cup {ms}
  BY <1>2, <1>3 DEF Instants, InFlight
<1>9. t < ms => Within(passed \cup Instants(InFlight), t)'
                  \subseteq Within(passed \cup Instants(InFlight), t)
  BY <1>1, <1>8 DEF Within, SlidingTypes
<1>10. ms' \in Nat /\ ms <= ms'
  BY <1>1 DEF SlidingTypes
<1>11. ASSUME Settled(t) PROVE Settled(t)'
  <2>1. t < ms
    BY <1>11 DEF Settled
  <2> QED BY <1>9, <1>10, <1>11, <2>1, StaysSettled
<1>12. ASSUME Unsettled(t) PROVE Unsettled(t)'
  BY <1>1, <1>7, <1>10, <1>12, StaysUnsettled
<1> QED BY <1>11, <1>12

\* The instants that a caller that goes on takes with it.
LEMMA GoesOn ==
  ASSUME SlidingTypes, NEW c \in Callers, NEW step \in Steps, NEW answer \in Verdicts,
         step # "none", checks[c].did # "none", Did(c, step, checks[c].at, answer),
         UNCHANGED <<ms, passed>>, NEW t \in Nat
  PROVE  /\ checks'[c] = [did |-> step, at |-> checks[c].at, verdict |-> answer]
         /\ \A d \in Callers \ {c} : checks'[d] = checks[d]
         /\ Within(passed', t) = Within(passed, t)
         /\ Within(passed \cup Instants(InFlight), t)' = Within(passed \cup Instants(InFlight), t)
         /\ checks[c].at \in Nat /\ checks[c].at <= ms /\ ms \in Nat
         /\ ms' \in Nat /\ ms <= ms'
         /\ Settled(t) => Settled(t)'
<1>1. checks[c].at \in Nat /\ checks[c].at <= ms
  BY DEF SlidingTypes
<1>2. checks'[c] = [did |-> step, at |-> checks[c].at, verdict |-> answer]
      /\ \A d \in Callers \ {c} : checks'[d] = checks[d]
  BY <1>1, DidTypes
<1>3. InFlight' = InFlight
  BY <1>2 DEF InFlight
<1>4. Instants(InFlight)' = Instants(InFlight)
  BY <1>2, <1>3 DEF Instants, InFlight
<1>5. Within(passed', t) = Within(passed, t) /\ ms' \in Nat /\ ms <= ms' /\ ms \in Nat
  BY DEF Within, SlidingTypes
<1>6. Within(passed \cup Instants(InFlight), t)' = Within(passed \cup Instants(InFlight), t)
  BY <1>4 DEF Within
<1>7. Settled(t) => Settled(t)'
  BY <1>5, <1>6, StaysSettled
<1> QED BY <1>1, <1>2, <1>5, <1>6, <1>7

(***************************************************************************)
(* Marks of a window are removed only by a caller that came after it; then *)
(* all that can be added to it are the instants of the calls in flight.    *)
(***************************************************************************)
LEMMA RemoveStep ==
  ASSUME SlidingTypes, NEW c \in Callers, ZRemRangeByScore(c), NEW t \in Nat,
         Unsettled(t) \/ Settled(t)
  PROVE  Unsettled(t)' \/ Settled(t)'
<1>1. /\ UNCHANGED <<ms, passed>> /\ checks[c].did = "read"
      /\ Key({m \in marks : m > WindowStart(c)}, expires)
      /\ Did(c, "removed", checks[c].at, "open")
  BY DEF ZRemRangeByScore
<1>2. marks' = {m \in marks : m > WindowStart(c)} /\ (expires' = expires \/ expires' = 0)
  BY <1>1 DEF Key
<1>3. /\ checks'[c] = [did |-> "removed", at |-> checks[c].at, verdict |-> "open"]
      /\ \A d \in Callers \ {c} : checks'[d] = checks[d]
      /\ Within(passed', t) = Within(passed, t)
      /\ Within(passed \cup Instants(InFlight), t)' = Within(passed \cup Instants(InFlight), t)
      /\ checks[c].at \in Nat /\ checks[c].at <= ms /\ ms \in Nat
      /\ ms' \in Nat /\ ms <= ms'
      /\ Settled(t) => Settled(t)'
  BY <1>1, GoesOn DEF Steps, Verdicts
<1>4. WindowMS \in Nat
  BY SlidingAssumption
<1>5. \A d \in Passing' : d \in Passing /\ checks'[d] = checks[d]
  BY <1>3 DEF Passing, InFlight
<1>6. \A d \in Noted' : d \in Noted /\ checks'[d] = checks[d]
  BY <1>5 DEF Noted
<1>7. Instants(Passing)' \subseteq Instants(Passing) /\ Instants(Noted)' \subseteq Instants(Noted)
  BY <1>5, <1>6 DEF Instants
<1>8. Sure(t)' \subseteq Sure(t) /\ Within(Placed, t)' \subseteq Within(Placed, t)
  BY <1>1, <1>7 DEF Sure, Within, Placed
<1>9. CASE Settled(t)
  BY <1>3, <1>9
<1>10. CASE Unsettled(t) /\ checks[c].at <= t
  <2>1. ASSUME NEW p \in Within(Placed, t) \cap marks PROVE p \in marks'
    <3>1. p \in Nat /\ p \in marks /\ t - WindowMS < p
      BY DEF Within, SlidingTypes
    <3> QED BY <1>2, <1>3, <1>4, <1>10, <3>1 DEF WindowStart
  <2> QED BY <1>2, <1>3, <1>8, <1>10, <2>1, StaysUnsettled
<1>11. CASE Unsettled(t) /\ t < checks[c].at
  <2>1. t < ms'
    BY <1>1, <1>3, <1>11
  <2> QED BY <1>3, <1>11, <2>1, BecomesSettled
<1> QED BY <1>3, <1>9, <1>10, <1>11

\* A caller that is below the limit has counted every allowed instant whose
\* mark is not lost.
LEMMA CountStep ==
  ASSUME SlidingTypes, NEW c \in Callers, ZCount(c), NEW t \in Nat,
         Unsettled(t) \/ Settled(t)
  PROVE  Unsettled(t)' \/ Settled(t)'
<1> DEFINE S == {m \in marks : m >= WindowStart(c)}
<1>1. PICK answer \in {"allowed", "refused"} :
        /\ answer = "allowed" => BelowLimit(Cardinality(S))
        /\ Did(c, "counted", checks[c].at, answer)
  BY DEF ZCount
<1>2. UNCHANGED <<ms, marks, expires, passed>> /\ checks[c].did = "removed"
  BY DEF ZCount
<1>3. IsFiniteSet(S) /\ Cardinality(S) \in Nat
  BY FS_Subset, FS_CardinalityType DEF SlidingTypes
<1> HIDE DEF S
<1>4. /\ checks'[c] = [did |-> "counted", at |-> checks[c].at, verdict |-> answer]
      /\ \A d \in Callers \ {c} : checks'[d] = checks[d]
      /\ Within(passed', t) = Within(passed, t)
      /\ checks[c].at \in Nat
      /\ ms' \in Nat /\ ms <= ms'
      /\ Settled(t) => Settled(t)'
  BY <1>1, <1>2, GoesOn DEF Steps, Verdicts
<1>5. /\ \A d \in Noted' : d \in Noted /\ checks'[d] = checks[d]
      /\ \A d \in Passing' \ {c} : d \in Passing /\ checks'[d] = checks[d]
      /\ answer # "allowed" => c \notin Passing'
  BY <1>4 DEF Noted, Passing, InFlight
<1>6. Within(Placed, t)' \subseteq Within(Placed, t)
  BY <1>2, <1>5 DEF Placed, Within, Instants
<1>7. WindowMS \in Nat /\ Limit \in Nat /\ N \in Nat
  BY SomeCallers
<1>8. CASE Settled(t)
  BY <1>4, <1>8
<1>9. CASE Unsettled(t) /\ answer = "allowed" /\ checks[c].at <= t
  <2>1. ASSUME NEW p \in Within(passed, t) \cap marks PROVE p \in S
    <3>1. p \in Nat /\ p \in marks /\ t - WindowMS < p
      BY DEF Within, SlidingTypes
    <3> QED BY <1>4, <1>7, <1>9, <3>1 DEF S, WindowStart
  <2>2. Cardinality(S) < Limit
    BY <1>1, <1>9 DEF BelowLimit
  <2>3. Sure(t)' \subseteq Within(passed, t) \cup Instants(Callers)
    <3>1. Instants(Passing)' \subseteq Instants(Callers)
      BY <1>4 DEF Instants, Passing, InFlight
    <3> QED BY <1>2, <3>1 DEF Sure, Within
  <2>4. IsFiniteSet(Instants(Callers)) /\ Cardinality(Instants(Callers)) \in Nat
        /\ Cardinality(Instants(Callers)) <= N
    BY FewInstants
  <2>5. IsFiniteSet(Within(passed, t)) /\ Cardinality(Within(passed, t)) \in Nat
        /\ Within(passed, t) \subseteq Within(Placed, t)
    BY FiniteParts
  <2>6. Cardinality(Sure(t)') \in Nat
        /\ Cardinality(Sure(t)') <= Cardinality(Within(passed, t)) + Cardinality(Instants(Callers))
    BY <2>3, <2>4, <2>5, InTwo
  <2>7. CASE Marked(t)
    <3>1. Within(passed, t) \subseteq S
      BY <2>1, <2>5, <2>7 DEF Marked
    <3>2. Cardinality(Within(passed, t)) <= Cardinality(S)
      BY <1>3, <3>1, FS_Subset
    <3>3. Cardinality(Sure(t)') < Limit + N
      BY <1>3, <1>7, <2>2, <2>4, <2>5, <2>6, <3>2
    <3> QED BY <1>2, <1>4, <1>6, <2>7, <3>3 DEF Unsettled, Marked, Within, N
  <2>8. CASE Renewed(t)
    <3>1. PICK lost \in SUBSET Nat :
            /\ IsFiniteSet(lost) /\ Cardinality(lost) <= N
            /\ Within(Placed, t) \subseteq marks \cup lost
      BY <2>8 DEF Renewed
    <3>2. Within(passed, t) \in SUBSET (S \cup lost)
      BY <2>1, <2>5, <3>1
    <3>3. Cardinality(Within(passed, t)) <= Cardinality(S) + Cardinality(lost)
      BY <1>3, <3>1, <3>2, InTwo
    <3>4. Cardinality(lost) \in Nat
      BY <3>1, FS_CardinalityType
    <3>5. Cardinality(Sure(t)') < Limit + 2 * N
      BY <1>3, <1>7, <2>2, <2>4, <2>5, <2>6, <3>1, <3>3, <3>4
    <3>6. Within(Placed, t)' \subseteq marks' \cup lost
      BY <1>2, <1>6, <3>1
    <3>7. t < ms' + WindowMS /\ (expires' = 0 \/ t < expires')
      BY <1>2, <2>8 DEF Renewed
    <3> QED BY <3>1, <3>5, <3>6, <3>7 DEF Unsettled, Renewed, N
  <2> QED BY <1>9, <2>7, <2>8 DEF Unsettled
<1>10. CASE Unsettled(t) /\ ~(answer = "allowed" /\ checks[c].at <= t)
  <2>1. Sure(t)' \subseteq Sure(t)
    BY <1>2, <1>4, <1>5, <1>7, <1>10 DEF Sure, Within, Instants
  <2> QED BY <1>2, <1>4, <1>6, <1>10, <2>1, StaysUnsettled
<1> QED BY <1>8, <1>9, <1>10

\* An instant that will be allowed gets its mark.
LEMMA AddStep ==
  ASSUME SlidingTypes, NEW c \in Callers, ZAdd(c), NEW t \in Nat
  PROVE  (Unsettled(t) => Unsettled(t)') /\ (Settled(t) => Settled(t)')
<1>1. /\ UNCHANGED <<ms, passed>> /\ checks[c].did = "counted"
      /\ marks' = marks \cup {checks[c].at} /\ expires' = expires
      /\ Did(c, "added", checks[c].at, checks[c].verdict)
  BY DEF ZAdd, Key
<1>2. checks[c].verdict \in Verdicts
  BY DEF SlidingTypes
<1>3. /\ checks'[c] = [did |-> "added", at |-> checks[c].at, verdict |-> checks[c].verdict]
      /\ \A d \in Callers \ {c} : checks'[d] = checks[d]
      /\ Within(passed', t) = Within(passed, t)
      /\ ms' \in Nat /\ ms <= ms'
      /\ Settled(t) => Settled(t)'
  BY <1>1, <1>2, GoesOn DEF Steps
<1>4. /\ \A d \in Passing' : d \in Passing /\ checks'[d].at = checks[d].at
      /\ \A d \in Noted' \ {c} : d \in Noted /\ checks'[d].at = checks[d].at
  BY <1>1, <1>3 DEF Passing, Noted, InFlight
<1>5. Sure(t)' \subseteq Sure(t)
  BY <1>1, <1>4 DEF Sure, Within, Instants
<1>6. Within(Placed, t)' \subseteq Within(Placed, t) \cup marks'
  BY <1>1, <1>3, <1>4 DEF Placed, Within, Instants
<1>7. ASSUME Unsettled(t) PROVE Unsettled(t)'
  BY <1>1, <1>3, <1>5, <1>6, <1>7, StaysUnsettled
<1> QED BY <1>3, <1>7

\* The key is kept two windows beyond every instant that was allowed.
LEMMA ExpireStep ==
  ASSUME SlidingTypes, NEW c \in Callers, Expire(c), NEW t \in Nat
  PROVE  (Unsettled(t) => Unsettled(t)') /\ (Settled(t) => Settled(t)')
<1>1. /\ ms' = ms /\ checks[c].did = "added" /\ marks' = marks
      /\ expires' = 0 \/ expires' = ms + 2 * WindowMS
      /\ Did(c, "none", 0, "open")
  BY DEF Expire, Key
<1>2. \/ passed' = passed
      \/ passed' = passed \cup {checks[c].at} /\ checks[c].verdict = "allowed"
  BY DEF Expire
<1>3. ms \in Nat /\ WindowMS \in Nat
  BY SlidingAssumption DEF SlidingTypes
<1>4. checks'[c] = [did |-> "none", at |-> 0, verdict |-> "open"]
      /\ \A d \in Callers \ {c} : checks'[d] = checks[d]
  <2>1. "none" \in Steps /\ "open" \in Verdicts /\ 0 \in Nat /\ 0 <= ms
    BY <1>3 DEF Steps, Verdicts
  <2> QED BY <1>1, <2>1, DidTypes
<1>5. c \in InFlight /\ (checks[c].verdict = "allowed" => c \in Passing /\ c \in Noted)
  BY <1>1 DEF InFlight, Passing, Noted
<1>6. /\ \A d \in InFlight' : d \in InFlight /\ checks'[d] = checks[d]
      /\ \A d \in Passing' : d \in Passing /\ checks'[d] = checks[d]
      /\ \A d \in Noted' : d \in Noted /\ checks'[d] = checks[d]
  BY <1>4 DEF InFlight, Passing, Noted
<1>7. /\ passed' \cup Instants(InFlight)' \subseteq passed \cup Instants(InFlight)
      /\ passed' \cup Instants(Passing)' \subseteq passed \cup Instants(Passing)
      /\ Placed' \subseteq Placed
  BY <1>2, <1>5, <1>6 DEF Instants, Placed
<1>8. /\ Sure(t)' \subseteq Sure(t) /\ Within(Placed, t)' \subseteq Within(Placed, t)
      /\ Within(passed \cup Instants(InFlight), t)'
           \subseteq Within(passed \cup Instants(InFlight), t)
  BY <1>7 DEF Sure, Within
<1>9. ms' \in Nat /\ ms <= ms'
  BY <1>1, <1>3
<1>10. ASSUME Unsettled(t) PROVE Unsettled(t)'
  <2>1. CASE expires' = 0
    BY <1>1, <1>8, <1>9, <1>10, <2>1, StaysUnsettled
  <2>2. CASE expires' = ms + 2 * WindowMS
    <3>1. t < ms + WindowMS => t < expires'
      BY <1>3, <2>2
    <3>2. \A p \in Within(passed', t) : p \in Nat /\ p <= ms
      <4>1. \A p \in passed \cup {checks[c].at} : p \in Nat /\ p <= ms
        BY DEF SlidingTypes
      <4> QED BY <1>2, <4>1 DEF Within
    <3>3. \A p \in Within(passed', t) : p + 2 * WindowMS <= expires'
      BY <1>3, <2>2, <3>2
    <3> QED BY <1>1, <1>8, <1>9, <1>10, <3>1, <3>3, StaysUnsettled
  <2> QED BY <1>1, <2>1, <2>2
<1>11. ASSUME Settled(t) PROVE Settled(t)'
  BY <1>8, <1>9, <1>11, StaysSettled
<1> QED BY <1>10, <1>11

(***************************************************************************)
(* When the key expires, a window that is past is settled.  In one that is *)
(* not, no request was answered: the marks that go are of calls that have  *)
(* not come to EXPIRE.                                                     *)
(***************************************************************************)
LEMMA TickStep ==
  ASSUME SlidingTypes, Tick, NEW t \in Nat, Unsettled(t) \/ Settled(t)
  PROVE  Unsettled(t)' \/ Settled(t)'
<1>1. PICK now \in Times : /\ ms < now /\ ms' = now
                           /\ Key({m \in marks : expires = 0 \/ now <= expires}, expires)
  BY DEF Tick
<1>2. UNCHANGED <<checks, passed>>
  BY DEF Tick
<1>3. /\ ms' \in Nat /\ ms <= ms' /\ ms \in Nat /\ now \in Nat /\ expires \in Nat
      /\ WindowMS \in Nat \ {0} /\ N \in Nat /\ Limit \in Nat
  BY <1>1, SlidingAssumption, SomeCallers DEF SlidingTypes
<1>4. /\ (passed \cup Instants(InFlight))' = passed \cup Instants(InFlight)
      /\ (passed \cup Instants(Passing))' = passed \cup Instants(Passing)
      /\ Placed' = Placed
  BY <1>2 DEF Instants, Placed, Noted, Passing, InFlight
<1>5. /\ Sure(t)' = Sure(t) /\ Within(passed', t) = Within(passed, t)
      /\ Within(Placed, t)' = Within(Placed, t)
      /\ Within(passed \cup Instants(InFlight), t)' = Within(passed \cup Instants(InFlight), t)
  BY <1>2, <1>4 DEF Sure, Within
<1>6. CASE Settled(t)
  BY <1>3, <1>5, <1>6, StaysSettled
<1>7. CASE Unsettled(t) /\ (expires = 0 \/ now <= expires)
  <2>1. marks' = marks /\ (expires' = expires \/ expires' = 0)
    BY <1>1, <1>7 DEF Key
  <2> QED BY <1>3, <1>5, <1>7, <2>1, StaysUnsettled
<1>8. CASE Unsettled(t) /\ t < now
  BY <1>1, <1>5, <1>8, BecomesSettled
<1>9. CASE Unsettled(t) /\ expires # 0 /\ expires < now /\ now <= t
  <2>1. Marked(t)
    BY <1>3, <1>9 DEF Unsettled, Renewed
  <2>2. marks' = {} /\ expires' = 0
    BY <1>1, <1>3, <1>9 DEF Key, SlidingTypes
  <2>3. \A p \in Within(Placed, t) : p \in Nat /\ p <= ms /\ p \in Instants(Noted)
    <3> TAKE p \in Within(Placed, t)
    <3>1. p \in Nat /\ p <= ms /\ t - WindowMS < p
      BY DEF Placed, Within, Instants, Noted, Passing, InFlight, SlidingTypes
    <3>2. p \notin Within(passed, t)
      <4>1. ~(p + 2 * WindowMS <= expires)
        BY <1>3, <1>9, <3>1
      <4> QED BY <1>9, <2>1, <4>1 DEF Marked
    <3> QED BY <3>1, <3>2 DEF Placed, Within
  <2>4. CASE Within(Placed, t) = {}
    BY <1>5, <2>1, <2>2, <2>4 DEF Unsettled, Marked, N
  <2>5. CASE Within(Placed, t) # {}
    <3>1. IsFiniteSet(Instants(Noted)) /\ Cardinality(Instants(Noted)) \in Nat
          /\ Cardinality(Instants(Noted)) <= N
      BY FewInstants DEF Noted, Passing, InFlight
    <3>2. Instants(Noted) \in SUBSET Nat /\ Within(Placed, t) \subseteq Instants(Noted)
      BY <2>3 DEF Instants, Noted, Passing, InFlight, SlidingTypes
    <3>3. PICK p \in Nat : p <= ms /\ t - WindowMS < p
      BY <2>3, <2>5 DEF Within
    <3>4. t < ms' + WindowMS
      BY <1>1, <1>3, <3>3
    <3>5. IsFiniteSet(Sure(t)) /\ Cardinality(Sure(t)) \in Nat
      BY FiniteParts
    <3>6. Cardinality(Sure(t)') < Limit + 2 * N
      BY <1>3, <1>5, <2>1, <3>5 DEF Marked
    <3>7. Within(Placed, t)' \subseteq marks' \cup Instants(Noted)
      BY <1>5, <3>2
    <3>8. \E lost \in SUBSET Nat :
            /\ IsFiniteSet(lost) /\ Cardinality(lost) <= N
            /\ Within(Placed, t)' \subseteq marks' \cup lost
      BY <3>1, <3>2, <3>7
    <3> QED BY <2>2, <3>4, <3>6, <3>8 DEF Unsettled, Renewed, N
  <2> QED BY <2>4, <2>5
<1> QED BY <1>3, <1>6, <1>7, <1>8, <1>9

LEMMA SlidingStep == SlidingInv /\ [SlidingNext]_slidingVars => SlidingInv'
<1> SUFFICES ASSUME SlidingInv, [SlidingNext]_slidingVars PROVE SlidingInv'
  OBVIOUS
<1>1. SlidingTypes /\ SlidingTypes'
  BY SlidingTypesStep DEF SlidingInv
<1>2. ASSUME NEW t \in Nat PROVE Unsettled(t)' \/ Settled(t)'
  <2>1. Unsettled(t) \/ Settled(t)
    BY DEF SlidingInv, Unsettled
  <2>2. CASE UNCHANGED slidingVars
    BY <2>1, <2>2 DEF slidingVars, Unsettled, Marked, Renewed, Settled, Sure, Within,
       Placed, Instants, Passing, Noted, InFlight, N
  <2>3. CASE Tick
    BY <1>1, <2>1, <2>3, TickStep
  <2>4. ASSUME NEW c \in Callers, \/ CheckLimit(c) \/ ExecFails(c) \/ ZRemRangeByScore(c)
                                  \/ ZCount(c) \/ ZAdd(c) \/ Expire(c)
        PROVE  Unsettled(t)' \/ Settled(t)'
    BY <1>1, <2>1, <2>4, BeginsOrFails, RemoveStep, CountStep, AddStep, ExpireStep
  <2> QED BY <2>2, <2>3, <2>4 DEF SlidingNext
<1> QED BY <1>1, <1>2 DEF SlidingInv, Unsettled

(***************************************************************************)
(* The sliding limit of the Redis decorator, for any number of callers     *)
(* whose commands are interleaved with each other and with the expiry of   *)
(* the key, however late they come and however often the connection fails: *)
(* a window of any position has fewer allowed instants than the limit and  *)
(* three for every call that may be under way.                             *)
(***************************************************************************)
THEOREM SlidingHolds == SlidingSpec => []AtMostLimitInstants
<1>1. SlidingInv => AtMostLimitInstants
  <2> SUFFICES ASSUME SlidingInv, NEW t \in passed
               PROVE  Cardinality(Within(passed, t)) < Limit + 3 * N
    BY DEF AtMostLimitInstants, Within, N
  <2>1. SlidingTypes /\ t \in Nat /\ N \in Nat /\ Limit \in Nat
    BY SomeCallers DEF SlidingInv, SlidingTypes
  <2>2. /\ IsFiniteSet(Sure(t)) /\ Cardinality(Sure(t)) \in Nat
        /\ IsFiniteSet(Within(passed \cup Instants(InFlight), t))
        /\ Within(passed, t) \subseteq Sure(t)
    BY <2>1, FiniteParts
  <2>3. Within(passed, t) \subseteq Within(passed \cup Instants(InFlight), t)
    BY DEF Within
  <2>4. CASE Marked(t) \/ Renewed(t)
    <3>1. Cardinality(Sure(t)) < Limit + 3 * N
      BY <2>1, <2>2, <2>4 DEF Marked, Renewed
    <3> QED BY <2>1, <2>2, <3>1, Smaller
  <2>5. CASE Settled(t)
    BY <2>1, <2>2, <2>3, <2>5, Smaller DEF Settled
  <2> QED BY <2>1, <2>4, <2>5 DEF SlidingInv
<1> QED BY SlidingStarts, SlidingStep, <1>1, PTL DEF SlidingSpec

-----------------------------------------------------------------------------
(* The keys of PostgreSQL: decoding.                                       *)

LEMMA ElementOf ==
  ASSUME NEW S, NEW s \in Seq(S), NEW i \in 1 .. Len(s)
  PROVE  s[i] \in S
OBVIOUS

LEMMA Powers ==
  /\ Pow2[1] = 1 /\ Pow2[2] = 2 /\ Pow2[3] = 4 /\ Pow2[4] = 8
  /\ Pow2[5] = 16 /\ Pow2[6] = 32 /\ Pow2[7] = 64 /\ Pow2[8] = 128
BY DEF Pow2

\* Byte k of a key begins in character First(k) of the text, at bit Offset(k).
First(k) == ((8 * (k - 1)) \div 6) + 1
Offset(k) == (8 * (k - 1)) % 6

\* What is taken from a number for a byte, above the bits of which p is the first.
Byte(b, p) == (b \div p) % 256

Joined(u, v) == u * 64 + v

TwoCharacters(k) ==
  Byte(Joined(text[First(k)], text[First(k) + 1]), Pow2[5 - Offset(k)])

\* The bits of the last character, and b having those of a and v at its end.
LastOf(a) == a % 64
EndsWith(b, a, v) == b % 4096 = Joined(LastOf(a), v)

CodecTypes ==
  /\ text \in Seq(0 .. 63) /\ dst \in Seq(0 .. 255)
  /\ acc \in Nat /\ bits \in {0, 2, 4, 6}
  /\ verdict \in {"reading", "key", "refused"}

(***************************************************************************)
(* Of acc only the bits of the last character matter: the next byte takes  *)
(* at most six of them, whatever the width of acc cuts off above.          *)
(***************************************************************************)
CodecInv ==
  /\ CodecTypes
  /\ 8 * Len(dst) <= 6 * Len(text)
  /\ verdict # "refused" => 6 * Len(text) = 8 * Len(dst) + bits
  /\ text # <<>> /\ verdict = "reading" => LastOf(acc) = text[Len(text)]
  /\ \A k \in 1 .. Len(dst) : dst[k] = TwoCharacters(k)
  /\ verdict = "key" => Len(dst) = KeyLen

\* What the width of acc leaves of the last two characters.
LEMMA Cut ==
  ASSUME acc \in Nat, NEW v \in 0 .. 63
  PROVE  Shifted(v) \in Nat /\ EndsWith(Shifted(v), acc, v)
<1> DEFINE x == acc * 64 + v
           q == AccMod \div 4096
           d == x \div AccMod
<1>1. x \in Nat /\ AccMod \in Nat \ {0} /\ q \in Nat /\ AccMod = 4096 * q
  BY CodecAssumption
<1>2. d \in Nat /\ x % AccMod = x - AccMod * d /\ x % AccMod \in Nat
  <2> HIDE DEF x
  <2> QED BY <1>1
<1>3. q * d \in Nat
  <2> HIDE DEF q, d
  <2> QED BY <1>1, <1>2
<1>4. AccMod * d = 4096 * (q * d)
  <2> HIDE DEF q, d
  <2> QED BY <1>1, <1>2
<1>5. x % AccMod = x - 4096 * (q * d)
  BY <1>2, <1>4
<1>6. (x % AccMod) % 4096 = x % 4096
  <2> DEFINE e == q * d
             y == x % AccMod
  <2>1. y \in Nat /\ e \in Nat /\ y = x - 4096 * e /\ x \in Nat
    BY <1>1, <1>2, <1>3, <1>5
  <2> HIDE DEF e, y, x
  <2>2. y % 4096 = x % 4096
    BY <2>1
  <2> QED BY <2>2 DEF y
<1>7. x % 4096 = (acc % 64) * 64 + v
  OBVIOUS
<1> QED BY <1>2, <1>6, <1>7 DEF Shifted, EndsWith, Joined, LastOf

LEMMA LastCharacter ==
  ASSUME NEW b \in Nat, NEW a \in Nat, NEW v \in 0 .. 63, EndsWith(b, a, v)
  PROVE  LastOf(b) = v
BY DEF EndsWith, Joined, LastOf

\* A byte that is taken from acc depends on the last two characters only.
LEMMA TakenByte ==
  ASSUME NEW b \in Nat, NEW a \in Nat, NEW v \in 0 .. 63, EndsWith(b, a, v),
         NEW p \in {1, 4, 16}
  PROVE  Byte(b, p) = Byte(Joined(LastOf(a), v), p) /\ Byte(b, p) \in 0 .. 255
<1>1. PICK y \in Nat : y = Joined(LastOf(a), v)
  BY DEF Joined, LastOf
<1>2. b % 4096 = y
  BY <1>1 DEF EndsWith
<1>3. (b \div p) % 256 = (y \div p) % 256 /\ (b \div p) % 256 \in 0 .. 255
  <2>1. CASE p = 1
    BY <1>2, <2>1
  <2>2. CASE p = 4
    BY <1>2, <2>2
  <2>3. CASE p = 16
    BY <1>2, <2>3
  <2> QED BY <2>1, <2>2, <2>3
<1> QED BY <1>1, <1>3 DEF Byte

\* Where the byte after the first n begins, when b bits are left for it.
LEMMA NextByte ==
  ASSUME NEW m \in Nat, NEW n \in Nat, NEW b \in {2, 4, 6}, 6 * m = 8 * n + b
  PROVE  First(n + 1) = m /\ Offset(n + 1) = 6 - b
<1>1. 8 * ((n + 1) - 1) = 8 * n
  OBVIOUS
<1>2. (8 * n) \div 6 = m - 1 /\ (8 * n) % 6 = 6 - b
  OBVIOUS
<1> QED BY <1>1, <1>2 DEF First, Offset

\* The characters of a byte that is there have been read.
LEMMA BothRead ==
  ASSUME NEW m \in Nat, NEW n \in Nat, 8 * n <= 6 * m, NEW k \in 1 .. n
  PROVE  First(k) \in 1 .. m /\ First(k) + 1 \in 1 .. m
<1>1. ((8 * (k - 1)) \div 6) + 2 <= m /\ (8 * (k - 1)) \div 6 >= 0
  OBVIOUS
<1> QED BY <1>1 DEF First

LEMMA ReadStep ==
  ASSUME CodecInv, NEW v \in Characters, ReadCharacter(v)
  PROVE  CodecInv'
<1>1. /\ text' = Append(text, v) /\ verdict = "reading"
      /\ acc' = Shifted(v)
  BY DEF ReadCharacter
<1>2. v \in 0 .. 63
  BY CodecAssumption
<1>3. /\ text \in Seq(0 .. 63) /\ dst \in Seq(0 .. 255)
      /\ bits \in {0, 2, 4, 6} /\ Len(text) \in Nat /\ Len(dst) \in Nat
      /\ 6 * Len(text) = 8 * Len(dst) + bits
  BY <1>1 DEF CodecInv, CodecTypes
<1>4. acc \in Nat
  BY DEF CodecInv, CodecTypes
<1>5. acc' \in Nat /\ EndsWith(acc', acc, v)
  BY <1>1, <1>2, <1>4, Cut
<1>6. /\ text' \in Seq(0 .. 63) /\ Len(text') = Len(text) + 1
      /\ text'[Len(text) + 1] = v /\ text' # <<>>
      /\ \A j \in 1 .. Len(text) : text'[j] = text[j]
  BY <1>1, <1>2, <1>3
<1>7. LastOf(acc') = text'[Len(text')]
  <2>1. LastOf(acc') = v
    BY <1>2, <1>4, <1>5, LastCharacter
  <2> QED BY <1>6, <2>1
<1>8. \A k \in 1 .. Len(dst) : TwoCharacters(k)' = dst[k]
  <2> SUFFICES ASSUME NEW k \in 1 .. Len(dst) PROVE TwoCharacters(k)' = dst[k]
    OBVIOUS
  <2>1. Len(text) \in Nat /\ Len(dst) \in Nat /\ 8 * Len(dst) <= 6 * Len(text)
    BY <1>3
  <2>2. First(k) \in 1 .. Len(text) /\ First(k) + 1 \in 1 .. Len(text)
    BY <2>1, BothRead, Zenon
  <2> QED BY <1>6, <2>2 DEF TwoCharacters, CodecInv
<1>9. CASE dst' = dst
  <2>1. \/ bits = 0 /\ bits' = 6 /\ verdict' = "reading"
        \/ bits \in {2, 4, 6} /\ bits' = bits - 2 /\ verdict' = "refused"
    <3>1. CASE bits + 6 < 8
      BY <1>1, <1>3, <3>1 DEF ReadCharacter
    <3>2. CASE ~(bits + 6 < 8)
      <4>1. Append(dst, (acc' \div Pow2[bits - 1]) % 256) # dst
        BY <1>3
      <4> QED BY <1>3, <1>9, <3>2, <4>1 DEF ReadCharacter
    <3> QED BY <3>1, <3>2
  <2>2. \A k \in 1 .. Len(dst') : dst'[k] = TwoCharacters(k)'
    BY <1>8, <1>9
  <2>3. CodecTypes'
    BY <1>3, <1>5, <1>6, <1>9, <2>1 DEF CodecTypes
  <2>4. 8 * Len(dst') <= 6 * Len(text')
        /\ (verdict' # "refused" => 6 * Len(text') = 8 * Len(dst') + bits')
    <3>1. /\ Len(dst') = Len(dst) /\ Len(text') = Len(text) + 1
          /\ Len(text) \in Nat /\ Len(dst) \in Nat
          /\ 6 * Len(text) = 8 * Len(dst) + bits
      BY <1>3, <1>6, <1>9
    <3>2. CASE bits = 0 /\ bits' = 6 /\ verdict' = "reading"
      BY <3>1, <3>2
    <3>3. CASE bits \in {2, 4, 6} /\ bits' = bits - 2 /\ verdict' = "refused"
      BY <3>1, <3>3
    <3> QED BY <2>1, <3>2, <3>3
  <2> QED BY <1>7, <2>1, <2>2, <2>3, <2>4 DEF CodecInv
<1>10. CASE dst' # dst
  <2> DEFINE x == Byte(acc', Pow2[bits - 1])
  <2>1. bits' = bits - 2 /\ bits \in {2, 4, 6} /\ dst' = Append(dst, x) /\ verdict' = "reading"
    BY <1>1, <1>3, <1>10 DEF ReadCharacter, Byte
  <2>2. Len(text) \in Nat \ {0}
    BY <1>3, <2>1
  <2>3. LastOf(acc) = text[Len(text)] /\ text[Len(text)] \in 0 .. 63
    <3>1. text # <<>> /\ text[Len(text)] \in 0 .. 63
      <4>1. text \in Seq(0 .. 63)
        BY <1>3
      <4>2. Len(text) \in 1 .. Len(text)
        BY <2>2
      <4>3. text # <<>>
        BY <2>2
      <4> QED BY <4>1, <4>2, <4>3, ElementOf
    <3> QED BY <1>1, <3>1 DEF CodecInv
  <2>4. PICK n \in Nat : n = Len(dst)
    BY <1>3
  <2>5. First(n + 1) = Len(text) /\ Offset(n + 1) = 6 - bits
    BY <1>3, <2>1, <2>2, <2>4, NextByte
  <2>6. Pow2[bits - 1] \in {1, 4, 16}
    BY <2>1, Powers
  <2>7. /\ x = Byte(Joined(text[Len(text)], v), Pow2[bits - 1])
        /\ x \in 0 .. 255
    <3>1. PICK p \in {1, 4, 16} : p = Pow2[bits - 1]
      BY <2>6
    <3>2. Byte(acc', p) = Byte(Joined(LastOf(acc), v), p) /\ Byte(acc', p) \in 0 .. 255
      BY <1>2, <1>4, <1>5, TakenByte
    <3> QED BY <2>3, <3>1, <3>2
  <2> HIDE DEF x
  <2>8. TwoCharacters(n + 1)' = x
    <3>1. 5 - Offset(n + 1) = bits - 1
      BY <2>1, <2>5
    <3>2. text'[First(n + 1)] = text[Len(text)] /\ text'[First(n + 1) + 1] = v
      BY <1>6, <2>2, <2>5
    <3> QED BY <2>7, <3>1, <3>2 DEF TwoCharacters
  <2>9. /\ dst' \in Seq(0 .. 255) /\ Len(dst') = n + 1 /\ dst'[n + 1] = x
        /\ \A k \in 1 .. n : dst'[k] = dst[k]
    BY <1>3, <2>1, <2>4, <2>7
  <2>10. \A k \in 1 .. Len(dst') : dst'[k] = TwoCharacters(k)'
    BY <1>8, <2>4, <2>8, <2>9
  <2>11. 6 * Len(text') = 8 * Len(dst') + bits' /\ 8 * Len(dst') <= 6 * Len(text')
    <3>1. /\ Len(dst') = Len(dst) + 1 /\ Len(text') = Len(text) + 1
          /\ Len(text) \in Nat /\ Len(dst) \in Nat
          /\ 6 * Len(text) = 8 * Len(dst) + bits
      BY <1>3, <1>6, <2>4, <2>9
    <3> QED BY <2>1, <3>1
  <2>12. CodecTypes'
    BY <1>3, <1>5, <1>6, <2>1, <2>9 DEF CodecTypes
  <2> QED BY <1>7, <2>1, <2>10, <2>11, <2>12 DEF CodecInv
<1> QED BY <1>9, <1>10

LEMMA CodecStep == CodecInv /\ [CodecNext]_codecVars => CodecInv'
<1> SUFFICES ASSUME CodecInv, [CodecNext]_codecVars PROVE CodecInv'
  OBVIOUS
<1>1. CASE UNCHANGED codecVars
  BY <1>1 DEF codecVars, CodecInv, CodecTypes, TwoCharacters
<1>2. CASE ReadBad
  BY <1>2 DEF ReadBad, CodecInv, CodecTypes, TwoCharacters
<1>3. CASE ReadEnd
  BY <1>3 DEF ReadEnd, CodecInv, CodecTypes, TwoCharacters
<1>4. CASE ReadNext
  BY <1>4 DEF ReadNext, CodecInv, CodecTypes
<1>5. ASSUME NEW v \in Characters, ReadCharacter(v) PROVE CodecInv'
  BY <1>5, ReadStep
<1> QED BY <1>1, <1>2, <1>3, <1>4, <1>5 DEF CodecNext

LEMMA CodecAlways == CodecSpec => []CodecInv
<1>1. CodecInit => CodecInv
  BY DEF CodecInit, CodecInv, CodecTypes
<1> QED BY <1>1, CodecStep, PTL DEF CodecSpec

Bit(x, k) == (x \div Pow2[k]) % 2

\* The bits of a byte, in the two characters that it was made of.
LEMMA DecodedBit ==
  ASSUME NEW u \in 0 .. 63, NEW v \in 0 .. 63, NEW o \in {0, 2, 4}, NEW j \in 0 .. 7
  PROVE  Bit(Byte(Joined(u, v), Pow2[5 - o]), 8 - j) =
           IF o + j < 6 THEN Bit(u, 6 - (o + j)) ELSE Bit(v, 12 - (o + j))
<1>1. PICK x \in Nat : x = Byte(Joined(u, v), Pow2[5 - o])
  <2>1. Joined(u, v) \in Nat /\ Pow2[5 - o] \in {1, 4, 16}
    BY Powers DEF Joined
  <2> QED BY <2>1 DEF Byte
<1> SUFFICES Bit(x, 8 - j) =
               IF o + j < 6 THEN Bit(u, 6 - (o + j)) ELSE Bit(v, 12 - (o + j))
  BY <1>1
<1>2. CASE o = 0
  <2>1. x = u * 4 + (v \div 16)
    BY <1>1, <1>2, Powers DEF Byte, Joined
  <2>2. CASE j \in 0 .. 1
    BY <1>2, <2>1, <2>2, Powers DEF Bit
  <2>3. CASE j = 2
    BY <1>2, <2>1, <2>3, Powers DEF Bit
  <2>4. CASE j = 3
    BY <1>2, <2>1, <2>4, Powers DEF Bit
  <2>5. CASE j = 4
    BY <1>2, <2>1, <2>5, Powers DEF Bit
  <2>6. CASE j = 5
    <3>1. (v \div 16) \in 0 .. 3
      OBVIOUS
    <3>2. x \div 4 = u
      BY <2>1, <3>1
    <3> QED BY <1>2, <2>6, <3>2, Powers DEF Bit
  <2>7. CASE j = 6
    <3>1. (x \div 2) % 2 = (v \div 32) % 2
      BY <2>1
    <3> QED BY <1>2, <2>7, <3>1, Powers DEF Bit
  <2>8. CASE j = 7
    <3>1. x % 2 = (v \div 16) % 2
      BY <2>1
    <3> QED BY <1>2, <2>8, <3>1, Powers DEF Bit
  <2> QED BY <2>2, <2>3, <2>4, <2>5, <2>6, <2>7, <2>8
<1>3. CASE o = 2
  <2>1. x = (u % 16) * 16 + (v \div 4)
    BY <1>1, <1>3, Powers DEF Byte, Joined
  <2>2. CASE j = 0
    BY <1>3, <2>1, <2>2, Powers DEF Bit
  <2>3. CASE j = 1
    BY <1>3, <2>1, <2>3, Powers DEF Bit
  <2>4. CASE j = 2
    BY <1>3, <2>1, <2>4, Powers DEF Bit
  <2>5. CASE j = 3
    BY <1>3, <2>1, <2>5, Powers DEF Bit
  <2>6. CASE j = 4
    BY <1>3, <2>1, <2>6, Powers DEF Bit
  <2>7. CASE j = 5
    BY <1>3, <2>1, <2>7, Powers DEF Bit
  <2>8. CASE j = 6
    BY <1>3, <2>1, <2>8, Powers DEF Bit
  <2>9. CASE j = 7
    BY <1>3, <2>1, <2>9, Powers DEF Bit
  <2> QED BY <2>2, <2>3, <2>4, <2>5, <2>6, <2>7, <2>8, <2>9
<1>4. CASE o = 4
  <2>1. x = (u % 4) * 64 + v
    BY <1>1, <1>4, Powers DEF Byte, Joined
  <2>2. CASE j = 0
    BY <1>4, <2>1, <2>2, Powers DEF Bit
  <2>3. CASE j = 1
    BY <1>4, <2>1, <2>3, Powers DEF Bit
  <2>4. CASE j = 2
    BY <1>4, <2>1, <2>4, Powers DEF Bit
  <2>5. CASE j = 3
    BY <1>4, <2>1, <2>5, Powers DEF Bit
  <2>6. CASE j = 4
    BY <1>4, <2>1, <2>6, Powers DEF Bit
  <2>7. CASE j = 5
    BY <1>4, <2>1, <2>7, Powers DEF Bit
  <2>8. CASE j = 6
    BY <1>4, <2>1, <2>8, Powers DEF Bit
  <2>9. CASE j = 7
    BY <1>4, <2>1, <2>9, Powers DEF Bit
  <2> QED BY <2>2, <2>3, <2>4, <2>5, <2>6, <2>7, <2>8, <2>9
<1> QED BY <1>2, <1>3, <1>4

\* Bit i of a key is in byte k of it; where it is in the text.
LEMMA Position ==
  ASSUME NEW i \in Nat, NEW k \in Nat \ {0}, k = (i \div 8) + 1
  PROVE  /\ Offset(k) \in {0, 2, 4}
         /\ IF Offset(k) + (i % 8) < 6
            THEN (i \div 6) + 1 = First(k) /\ i % 6 = Offset(k) + (i % 8)
            ELSE (i \div 6) + 1 = First(k) + 1 /\ i % 6 = Offset(k) + (i % 8) - 6
BY DEF Offset, First

LEMMA BitsDecoded ==
  ASSUME CodecInv, NEW i \in 0 .. 8 * Len(dst) - 1
  PROVE  KeyBit(dst, i) = TextBit(text, i)
<1>1. /\ text \in Seq(0 .. 63) /\ Len(text) \in Nat /\ Len(dst) \in Nat
      /\ 8 * Len(dst) <= 6 * Len(text) /\ i \in Nat
  BY DEF CodecInv, CodecTypes
<1>2. PICK k \in Nat \ {0} : k = (i \div 8) + 1
  BY <1>1
<1>3. PICK j \in 0 .. 7 : j = i % 8
  BY <1>1
<1>4. k \in 1 .. Len(dst)
  BY <1>1, <1>2
<1>5. First(k) \in 1 .. Len(text) /\ First(k) + 1 \in 1 .. Len(text)
  BY <1>1, <1>4, BothRead
<1>6. PICK u \in 0 .. 63, v \in 0 .. 63 : u = text[First(k)] /\ v = text[First(k) + 1]
  <2>1. text[First(k)] \in 0 .. 63 /\ text[First(k) + 1] \in 0 .. 63
    <3>1. text \in Seq(0 .. 63)
      BY <1>1
    <3> QED BY <1>5, <3>1, ElementOf
  <2> QED BY <2>1
<1>7. PICK o \in {0, 2, 4} : o = Offset(k)
  BY <1>1, <1>2, Position
<1>8. KeyBit(dst, i) = Bit(Byte(Joined(u, v), Pow2[5 - o]), 8 - j)
  <2>1. dst[k] = Byte(Joined(u, v), Pow2[5 - o])
    BY <1>4, <1>6, <1>7 DEF CodecInv, TwoCharacters
  <2> QED BY <1>2, <1>3, <2>1 DEF KeyBit, Bit
<1>9. CASE o + j < 6
  <2>1. (i \div 6) + 1 = First(k) /\ i % 6 = o + j
    BY <1>1, <1>2, <1>3, <1>7, <1>9, Position
  <2>2. TextBit(text, i) = Bit(u, 6 - (o + j))
    BY <1>6, <2>1 DEF TextBit, Bit
  <2> QED BY <1>8, <1>9, <2>2, DecodedBit
<1>10. CASE ~(o + j < 6)
  <2>1. (i \div 6) + 1 = First(k) + 1 /\ i % 6 = o + j - 6
    BY <1>1, <1>2, <1>3, <1>7, <1>10, Position
  <2>2. 6 - (i % 6) = 12 - (o + j)
    BY <2>1
  <2>3. TextBit(text, i) = Bit(v, 12 - (o + j))
    BY <1>6, <2>1, <2>2 DEF TextBit, Bit
  <2> QED BY <1>8, <1>10, <2>3, DecodedBit
<1> QED BY <1>9, <1>10

(***************************************************************************)
(* What a run checks on a few texts, for all: the bytes that are decoded   *)
(* have the bits of the text, and a key has the length of a key.           *)
(***************************************************************************)
THEOREM DecodingHolds == CodecSpec => []DecodesBits
<1>1. CodecInv => DecodesBits
  <2> SUFFICES ASSUME CodecInv PROVE DecodesBits
    OBVIOUS
  <2>1. verdict = "key" => Len(dst) = KeyLen /\ 6 * Len(text) - 8 * KeyLen \in 0 .. 7
    <3> SUFFICES ASSUME verdict = "key"
                 PROVE  Len(dst) = KeyLen /\ 6 * Len(text) - 8 * KeyLen \in 0 .. 7
      OBVIOUS
    <3>1. /\ Len(dst) = KeyLen /\ 6 * Len(text) = 8 * Len(dst) + bits
          /\ bits \in {0, 2, 4, 6} /\ Len(text) \in Nat /\ Len(dst) \in Nat
      BY DEF CodecInv, CodecTypes
    <3>2. 6 * Len(text) - 8 * KeyLen = bits
      BY <3>1
    <3> QED BY <3>1, <3>2
  <2> QED BY <2>1, BitsDecoded DEF DecodesBits
<1> QED BY CodecAlways, <1>1, PTL

-----------------------------------------------------------------------------
(* The keys of PostgreSQL: encoding.                                       *)

\* The bits of the four characters that three bytes are encoded to.
LEMMA FirstEncoded ==
  ASSUME NEW b0 \in 0 .. 255, NEW p \in 0 .. 5
  PROVE  Bit(b0 \div 4, 6 - p) = Bit(b0, 8 - p)
<1>1. CASE p \in 0 .. 1
  BY <1>1, Powers DEF Bit
<1>2. CASE p \in 2 .. 3
  BY <1>2, Powers DEF Bit
<1>3. CASE p \in 4 .. 5
  BY <1>3, Powers DEF Bit
<1> QED BY <1>1, <1>2, <1>3

LEMMA SecondEncoded ==
  ASSUME NEW b0 \in 0 .. 255, NEW b1 \in 0 .. 255, NEW p \in 0 .. 5
  PROVE  Bit((b0 % 4) * 16 + (b1 \div 16), 6 - p) =
           IF p < 2 THEN Bit(b0, 2 - p) ELSE Bit(b1, 10 - p)
<1>1. CASE p \in 0 .. 1
  BY <1>1, Powers DEF Bit
<1>2. CASE p \in 2 .. 3
  BY <1>2, Powers DEF Bit
<1>3. CASE p \in 4 .. 5
  BY <1>3, Powers DEF Bit
<1> QED BY <1>1, <1>2, <1>3

LEMMA ThirdEncoded ==
  ASSUME NEW b1 \in 0 .. 255, NEW b2 \in 0 .. 255, NEW p \in 0 .. 5
  PROVE  Bit((b1 % 16) * 4 + (b2 \div 64), 6 - p) =
           IF p < 4 THEN Bit(b1, 4 - p) ELSE Bit(b2, 12 - p)
<1>1. CASE p = 0
  BY <1>1, Powers DEF Bit
<1>2. CASE p = 1
  BY <1>2, Powers DEF Bit
<1>3. CASE p = 2
  <2>1. ((b1 % 16) * 4 + (b2 \div 64)) \div 8 = (b1 % 16) \div 2
    OBVIOUS
  <2>2. ((b1 % 16) \div 2) % 2 = (b1 \div 2) % 2
    OBVIOUS
  <2> QED BY <1>3, <2>1, <2>2, Powers DEF Bit
<1>4. CASE p = 3
  BY <1>4, Powers DEF Bit
<1>5. CASE p = 4
  BY <1>5, Powers DEF Bit
<1>6. CASE p = 5
  BY <1>6, Powers DEF Bit
<1> QED BY <1>1, <1>2, <1>3, <1>4, <1>5, <1>6

LEMMA FourthEncoded ==
  ASSUME NEW b2 \in 0 .. 255, NEW p \in 0 .. 5
  PROVE  Bit(b2 % 64, 6 - p) = Bit(b2, 6 - p)
<1>1. CASE p \in 0 .. 1
  BY <1>1, Powers DEF Bit
<1>2. CASE p \in 2 .. 3
  BY <1>2, Powers DEF Bit
<1>3. CASE p \in 4 .. 5
  BY <1>3, Powers DEF Bit
<1> QED BY <1>1, <1>2, <1>3

LEMMA NoBits == \A k \in 1 .. 8 : Bit(0, k) = 0
BY Powers DEF Bit

\* The text of a key, group by group.
LEMMA EncodedGroup ==
  ASSUME NEW key, NEW g \in Nat, NEW r \in 0 .. 3,
         NEW b0, b0 = ByteAt(key, 3 * g), NEW b1, b1 = ByteAt(key, 3 * g + 1),
         NEW b2, b2 = ByteAt(key, 3 * g + 2)
  PROVE  /\ r = 0 => EncodedAt(key, 4 * g + r) = b0 \div 4
         /\ r = 1 => EncodedAt(key, 4 * g + r) = (b0 % 4) * 16 + (b1 \div 16)
         /\ r = 2 => EncodedAt(key, 4 * g + r) =
              IF 3 * g + 1 < Len(key) THEN (b1 % 16) * 4 + (b2 \div 64) ELSE Pad
         /\ r = 3 => EncodedAt(key, 4 * g + r) =
              IF 3 * g + 2 < Len(key) THEN b2 % 64 ELSE Pad
<1>1. (4 * g + r) \div 4 = g /\ (4 * g + r) % 4 = r
  OBVIOUS
<1>2. ((4 * g + r) \div 4) * 3 = 3 * g
  BY <1>1
<1> QED BY <1>1, <1>2 DEF EncodedAt

LEMMA ByteOrZero ==
  ASSUME NEW key \in Seq(0 .. 255), NEW i \in Nat
  PROVE  ByteAt(key, i) \in 0 .. 255 /\ (i >= Len(key) => ByteAt(key, i) = 0)
<1>1. CASE i < Len(key)
  <2>1. i + 1 \in 1 .. Len(key)
    BY <1>1
  <2>2. key[i + 1] \in 0 .. 255
    BY <2>1, ElementOf
  <2> QED BY <1>1, <2>2 DEF ByteAt
<1>2. CASE ~(i < Len(key))
  BY <1>2 DEF ByteAt
<1> QED BY <1>1, <1>2

\* Where the bits of a group are: in character r of it and in byte h.
LEMMA GroupPosition ==
  ASSUME NEW i \in Nat
  PROVE  \E g \in Nat, r \in 0 .. 3, p \in 0 .. 5 :
           /\ i = 24 * g + 6 * r + p
           /\ (i \div 6) + 1 = 4 * g + r + 1 /\ i % 6 = p
<1> DEFINE g == i \div 24
           r == (i \div 6) % 4
           p == i % 6
<1>1. g \in Nat /\ r \in 0 .. 3 /\ p \in 0 .. 5
  OBVIOUS
<1>2. i \div 6 = 4 * g + r
  OBVIOUS
<1>3. i = 6 * (i \div 6) + p
  OBVIOUS
<1>4. i = 24 * g + 6 * r + p
  BY <1>2, <1>3
<1> HIDE DEF g, r, p
<1>5. (i \div 6) + 1 = 4 * g + r + 1 /\ i % 6 = p
  BY <1>1, <1>2 DEF p
<1> QED BY <1>1, <1>4, <1>5

LEMMA InByte ==
  ASSUME NEW g \in Nat, NEW m \in 0 .. 23, NEW h \in 0 .. 2, NEW q \in 0 .. 7,
         m = 8 * h + q
  PROVE  /\ (24 * g + m) \div 8 = 3 * g + h
         /\ (24 * g + m) % 8 = q
OBVIOUS

\* Bit q of byte h of group g, which is 0 behind the end of the key.
LEMMA KeyBitAt ==
  ASSUME NEW key \in Seq(0 .. 255), NEW g \in Nat, NEW h \in 0 .. 2, NEW q \in 0 .. 7,
         NEW i \in Nat, i = 24 * g + 8 * h + q
  PROVE  Bit(ByteAt(key, 3 * g + h), 8 - q) =
           IF i < 8 * Len(key) THEN KeyBit(key, i) ELSE 0
<1>1. PICK b \in Nat : b = 3 * g + h
  OBVIOUS
<1>2. i \div 8 = b /\ i % 8 = q /\ i = 8 * b + q
  BY <1>1
<1>3. Len(key) \in Nat
  OBVIOUS
<1>4. CASE b < Len(key)
  <2>1. i < 8 * Len(key)
    BY <1>2, <1>3, <1>4
  <2>2. ByteAt(key, b) = key[b + 1]
    BY <1>4 DEF ByteAt
  <2>3. KeyBit(key, i) = Bit(key[b + 1], 8 - q)
    BY <1>2 DEF KeyBit, Bit
  <2> QED BY <1>1, <2>1, <2>2, <2>3
<1>5. CASE ~(b < Len(key))
  <2>1. ~(i < 8 * Len(key))
    BY <1>2, <1>3, <1>5
  <2>2. ByteAt(key, b) = 0
    BY <1>5 DEF ByteAt
  <2>3. Bit(0, 8 - q) = 0
    BY NoBits
  <2> QED BY <1>1, <2>1, <2>2, <2>3
<1> QED BY <1>4, <1>5

\* The characters of a key of n bytes: all, and those that are not padding.
AllOf(n) == ((n + 2) \div 3) * 4
UsedOf(n) == (8 * n + 5) \div 6

LEMMA Sizes ==
  ASSUME NEW n \in Nat
  PROVE  /\ AllOf(n) \in Nat /\ UsedOf(n) \in Nat
         /\ AllOf(n) % 4 = 0 /\ AllOf(n) - UsedOf(n) \in 0 .. 3
BY DEF AllOf, UsedOf

\* A character of a group is used if the byte is there that its first bit is of.
LEMMA UsedInGroup ==
  ASSUME NEW n \in Nat, NEW g \in Nat, NEW r \in 0 .. 3
  PROVE  /\ 4 * g + r < UsedOf(n) => 4 * g + r < AllOf(n)
         /\ r \in {0, 1} => (4 * g + r < AllOf(n) => 4 * g + r < UsedOf(n))
         /\ r = 2 => (4 * g + r < UsedOf(n) <=> 3 * g + 1 < n)
         /\ r = 3 => (4 * g + r < UsedOf(n) <=> 3 * g + 2 < n)
BY DEF AllOf, UsedOf

LEMMA EncodedBits ==
  ASSUME NEW key \in Seq(0 .. 255), NEW i \in Nat, i < 6 * UsedOf(Len(key))
  PROVE  TextBit(Encoded(key), i) = IF i < 8 * Len(key) THEN KeyBit(key, i) ELSE 0
<1>1. PICK g \in Nat, r \in 0 .. 3, p \in 0 .. 5 :
        /\ i = 24 * g + 6 * r + p
        /\ (i \div 6) + 1 = 4 * g + r + 1 /\ i % 6 = p
  BY GroupPosition
<1>2. Len(key) \in Nat /\ UsedOf(Len(key)) \in Nat /\ AllOf(Len(key)) \in Nat
  BY Sizes
<1>3. 4 * g + r < UsedOf(Len(key)) /\ 4 * g + r < AllOf(Len(key))
  <2>1. 4 * g + r < UsedOf(Len(key))
    BY <1>1, <1>2
  <2> QED BY <1>2, <2>1, UsedInGroup
<1>4. TextBit(Encoded(key), i) = Bit(EncodedAt(key, 4 * g + r), 6 - p)
  <2>1. Encoded(key)[4 * g + r + 1] = EncodedAt(key, 4 * g + r)
    <3>1. PICK j \in 1 .. AllOf(Len(key)) : j = 4 * g + r + 1
      BY <1>2, <1>3
    <3>2. Encoded(key)[j] = EncodedAt(key, j - 1)
      BY DEF Encoded, AllOf
    <3>3. j - 1 = 4 * g + r
      BY <3>1
    <3> QED BY <3>1, <3>2, <3>3
  <2> QED BY <1>1, <2>1 DEF TextBit, Bit
<1>5. PICK b0 \in 0 .. 255, b1 \in 0 .. 255, b2 \in 0 .. 255 :
        /\ b0 = ByteAt(key, 3 * g) /\ b1 = ByteAt(key, 3 * g + 1)
        /\ b2 = ByteAt(key, 3 * g + 2)
  <2>1. 3 * g \in Nat /\ 3 * g + 1 \in Nat /\ 3 * g + 2 \in Nat
    OBVIOUS
  <2> QED BY <2>1, ByteOrZero
<1> DEFINE Expected == IF i < 8 * Len(key) THEN KeyBit(key, i) ELSE 0
<1>6. ASSUME NEW h \in 0 .. 2, NEW q \in 0 .. 7, 6 * r + p = 8 * h + q
      PROVE  Expected = Bit(ByteAt(key, 3 * g + h), 8 - q)
  <2>1. i = 24 * g + 8 * h + q
    BY <1>1, <1>6
  <2> QED BY <2>1, KeyBitAt
<1> HIDE DEF Expected
<1>7. CASE r = 0
  <2>1. EncodedAt(key, 4 * g + r) = b0 \div 4
    BY <1>5, <1>7, EncodedGroup
  <2>2. Bit(b0 \div 4, 6 - p) = Bit(b0, 8 - p)
    BY FirstEncoded
  <2>3. Expected = Bit(b0, 8 - p)
    <3>1. 6 * r + p = 8 * 0 + p /\ 3 * g + 0 = 3 * g
      BY <1>7
    <3> QED BY <1>5, <1>6, <3>1
  <2> QED BY <1>4, <2>1, <2>2, <2>3 DEF Expected
<1>8. CASE r = 1
  <2>1. EncodedAt(key, 4 * g + r) = (b0 % 4) * 16 + (b1 \div 16)
    BY <1>5, <1>8, EncodedGroup
  <2>2. CASE p < 2
    <3>1. Bit((b0 % 4) * 16 + (b1 \div 16), 6 - p) = Bit(b0, 2 - p)
      BY <2>2, SecondEncoded
    <3>2. PICK q \in 0 .. 7 : q = 6 + p
      BY <2>2
    <3>3. 6 * r + p = 8 * 0 + q /\ 3 * g + 0 = 3 * g /\ 8 - q = 2 - p
      BY <1>8, <3>2
    <3>4. Expected = Bit(b0, 2 - p)
      BY <1>5, <1>6, <3>3
    <3> QED BY <1>4, <2>1, <3>1, <3>4 DEF Expected
  <2>3. CASE ~(p < 2)
    <3>1. Bit((b0 % 4) * 16 + (b1 \div 16), 6 - p) = Bit(b1, 10 - p)
      BY <2>3, SecondEncoded
    <3>2. PICK q \in 0 .. 7 : q = p - 2
      BY <2>3
    <3>3. 6 * r + p = 8 * 1 + q /\ 8 - q = 10 - p
      BY <1>8, <3>2
    <3>4. Expected = Bit(b1, 10 - p)
      BY <1>5, <1>6, <3>3
    <3> QED BY <1>4, <2>1, <3>1, <3>4 DEF Expected
  <2> QED BY <2>2, <2>3
<1>9. CASE r = 2
  <2>1. EncodedAt(key, 4 * g + r) = (b1 % 16) * 4 + (b2 \div 64)
    <3>1. 3 * g + 1 < Len(key)
      BY <1>2, <1>3, <1>9, UsedInGroup
    <3> QED BY <1>5, <1>9, <3>1, EncodedGroup
  <2>2. CASE p < 4
    <3>1. Bit((b1 % 16) * 4 + (b2 \div 64), 6 - p) = Bit(b1, 4 - p)
      BY <2>2, ThirdEncoded
    <3>2. PICK q \in 0 .. 7 : q = 4 + p
      BY <2>2
    <3>3. 6 * r + p = 8 * 1 + q /\ 8 - q = 4 - p
      BY <1>9, <3>2
    <3>4. Expected = Bit(b1, 4 - p)
      BY <1>5, <1>6, <3>3
    <3> QED BY <1>4, <2>1, <3>1, <3>4 DEF Expected
  <2>3. CASE ~(p < 4)
    <3>1. Bit((b1 % 16) * 4 + (b2 \div 64), 6 - p) = Bit(b2, 12 - p)
      BY <2>3, ThirdEncoded
    <3>2. PICK q \in 0 .. 7 : q = p - 4
      BY <2>3
    <3>3. 6 * r + p = 8 * 2 + q /\ 8 - q = 12 - p
      BY <1>9, <3>2
    <3>4. Expected = Bit(b2, 12 - p)
      BY <1>5, <1>6, <3>3
    <3> QED BY <1>4, <2>1, <3>1, <3>4 DEF Expected
  <2> QED BY <2>2, <2>3
<1>10. CASE r = 3
  <2>1. EncodedAt(key, 4 * g + r) = b2 % 64
    <3>1. 3 * g + 2 < Len(key)
      BY <1>2, <1>3, <1>10, UsedInGroup
    <3> QED BY <1>5, <1>10, <3>1, EncodedGroup
  <2>2. Bit(b2 % 64, 6 - p) = Bit(b2, 6 - p)
    BY FourthEncoded
  <2>3. Expected = Bit(b2, 6 - p)
    <3>1. PICK q \in 0 .. 7 : q = 2 + p
      OBVIOUS
    <3>2. 6 * r + p = 8 * 2 + q /\ 8 - q = 6 - p
      BY <1>10, <3>1
    <3> QED BY <1>5, <1>6, <3>2
  <2> QED BY <1>4, <2>1, <2>2, <2>3 DEF Expected
<1> QED BY <1>7, <1>8, <1>9, <1>10

\* The characters of a key, and its padding.
LEMMA EncodedCharacters ==
  ASSUME NEW key \in Seq(0 .. 255), NEW j \in 1 .. AllOf(Len(key))
  PROVE  IF j <= UsedOf(Len(key)) THEN Encoded(key)[j] \in 0 .. 63 ELSE Encoded(key)[j] = Pad
<1>1. Len(key) \in Nat /\ UsedOf(Len(key)) \in Nat /\ AllOf(Len(key)) \in Nat
  BY Sizes
<1>2. PICK g \in Nat, r \in 0 .. 3 : j - 1 = 4 * g + r
  <2>1. /\ (j - 1) \div 4 \in Nat /\ (j - 1) % 4 \in 0 .. 3
        /\ j - 1 = 4 * ((j - 1) \div 4) + ((j - 1) % 4)
    BY <1>1
  <2> QED BY <2>1
<1>3. Encoded(key)[j] = EncodedAt(key, 4 * g + r)
  BY <1>2 DEF Encoded, AllOf
<1>4. 4 * g + r < AllOf(Len(key)) /\ (j <= UsedOf(Len(key)) <=> 4 * g + r < UsedOf(Len(key)))
  BY <1>1, <1>2
<1>5. PICK b0 \in 0 .. 255, b1 \in 0 .. 255, b2 \in 0 .. 255 :
        /\ b0 = ByteAt(key, 3 * g) /\ b1 = ByteAt(key, 3 * g + 1)
        /\ b2 = ByteAt(key, 3 * g + 2)
  <2>1. 3 * g \in Nat /\ 3 * g + 1 \in Nat /\ 3 * g + 2 \in Nat
    OBVIOUS
  <2> QED BY <2>1, ByteOrZero
<1>6. /\ b0 \div 4 \in 0 .. 63 /\ (b0 % 4) * 16 + (b1 \div 16) \in 0 .. 63
      /\ (b1 % 16) * 4 + (b2 \div 64) \in 0 .. 63 /\ b2 % 64 \in 0 .. 63
  OBVIOUS
<1>7. /\ r = 0 => EncodedAt(key, 4 * g + r) = b0 \div 4
      /\ r = 1 => EncodedAt(key, 4 * g + r) = (b0 % 4) * 16 + (b1 \div 16)
      /\ r = 2 => EncodedAt(key, 4 * g + r) =
           IF 3 * g + 1 < Len(key) THEN (b1 % 16) * 4 + (b2 \div 64) ELSE Pad
      /\ r = 3 => EncodedAt(key, 4 * g + r) =
           IF 3 * g + 2 < Len(key) THEN b2 % 64 ELSE Pad
  <2>1. b0 = ByteAt(key, 3 * g) /\ b1 = ByteAt(key, 3 * g + 1) /\ b2 = ByteAt(key, 3 * g + 2)
    BY <1>5
  <2> QED BY ONLY <2>1, EncodedGroup, g \in Nat, r \in 0 .. 3
<1>8. CASE r = 0
  <2>1. 4 * g + r < UsedOf(Len(key))
    BY <1>1, <1>4, <1>8, UsedInGroup
  <2>2. EncodedAt(key, 4 * g + r) = b0 \div 4
    BY <1>7, <1>8
  <2> QED BY <1>3, <1>4, <1>6, <2>1, <2>2
<1>9. CASE r = 1
  <2>1. 4 * g + r < UsedOf(Len(key))
    BY <1>1, <1>4, <1>9, UsedInGroup
  <2>2. EncodedAt(key, 4 * g + r) = (b0 % 4) * 16 + (b1 \div 16)
    BY <1>7, <1>9
  <2> QED BY <1>3, <1>4, <1>6, <2>1, <2>2
<1>10. CASE r = 2
  <2>1. 4 * g + r < UsedOf(Len(key)) <=> 3 * g + 1 < Len(key)
    BY <1>1, <1>10, UsedInGroup
  <2>2. EncodedAt(key, 4 * g + r) =
          IF 3 * g + 1 < Len(key) THEN (b1 % 16) * 4 + (b2 \div 64) ELSE Pad
    BY <1>7, <1>10
  <2> QED BY <1>3, <1>4, <1>6, <2>1, <2>2
<1>11. CASE r = 3
  <2>1. 4 * g + r < UsedOf(Len(key)) <=> 3 * g + 2 < Len(key)
    BY <1>1, <1>11, UsedInGroup
  <2>2. EncodedAt(key, 4 * g + r) = IF 3 * g + 2 < Len(key) THEN b2 % 64 ELSE Pad
    BY <1>7, <1>11
  <2> QED BY <1>3, <1>4, <1>6, <2>1, <2>2
<1> QED BY <1>8, <1>9, <1>10, <1>11

(***************************************************************************)
(* For every key, and not only those that a run decodes: the text that it  *)
(* is given back with has its bits, zeros behind them, and the padding.    *)
(***************************************************************************)
THEOREM EncodingHolds == CodecSpec => []EncodesBits
<1>1. CodecInv => EncodesBits
  <2> SUFFICES ASSUME CodecInv, verdict = "key" PROVE EncodesBits
    BY DEF EncodesBits
  <2>1. dst \in Seq(0 .. 255) /\ Len(dst) = KeyLen /\ KeyLen \in Nat
    BY CodecAssumption DEF CodecInv, CodecTypes
  <2>2. Len(Encoded(dst)) = AllOf(KeyLen)
    BY <2>1, Sizes DEF Encoded, AllOf
  <2>3. /\ AllOf(KeyLen) % 4 = 0 /\ AllOf(KeyLen) - UsedOf(KeyLen) \in 0 .. 3
        /\ UsedOf(KeyLen) \in Nat
    BY <2>1, Sizes
  <2>4. \A j \in 1 .. AllOf(KeyLen) :
          IF j <= UsedOf(KeyLen) THEN Encoded(dst)[j] \in 0 .. 63 ELSE Encoded(dst)[j] = Pad
    BY <2>1, EncodedCharacters
  <2>5. ASSUME NEW i \in 0 .. 6 * UsedOf(KeyLen) - 1
        PROVE  TextBit(Encoded(dst), i) = IF i < 8 * KeyLen THEN KeyBit(dst, i) ELSE 0
    <3>1. i \in Nat /\ i < 6 * UsedOf(KeyLen)
      BY <2>3, <2>5
    <3> QED BY <2>1, <3>1, EncodedBits
  <2> QED BY <2>2, <2>3, <2>4, <2>5 DEF EncodesBits, UsedOf
<1> QED BY CodecAlways, <1>1, PTL
=============================================================================
