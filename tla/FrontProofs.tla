----------------------------- MODULE FrontProofs -----------------------------
(***************************************************************************)
(* What stands in front of the handlers: the request limit, for any        *)
(* clients, limits and length of a window, and the end of the process, for *)
(* any number of connections.                                              *)
(***************************************************************************)
EXTENDS RateLimit, Server, FiniteSetTheorems, TLAPS

-----------------------------------------------------------------------------
(* The request limit.                                                      *)

\* A request was counted in the window that k has now, or had last.
Recent(k, r) == r.ago + left[k] <= Window

(***************************************************************************)
(* The requests that are remembered are of two windows at most, and have   *)
(* the numbers from 1 to the limit in each of them.  When a window is over *)
(* every request is of it, and none came just now.                         *)
(***************************************************************************)
RateInv ==
  /\ TypeOK
  /\ \A k \in Clients : \A r \in served[k] :
       /\ r.nth \in 1 .. Limit[k]
       /\ ~Over(k) /\ Recent(k, r) => r.nth <= count[k]
       /\ Over(k) => r.ago > 0
  /\ \A k \in Clients : \A r, q \in served[k] :
       r.nth = q.nth /\ (Recent(k, r) <=> Recent(k, q)) => r = q

LEMMA RateStarts == Init => RateInv
BY RateAssumption DEF Init, RateInv, TypeOK

LEMMA CountedType ==
  ASSUME TypeOK, NEW k \in Clients
  PROVE  /\ Counted(k) \in 1 .. Limit[k] + 1
         /\ Remaining(k) \in 1 .. Window
         /\ left[k] \in 0 .. Window /\ count[k] \in Nat /\ Limit[k] \in Nat \ {0}
         /\ Window \in Nat \ {0}
         /\ \A r \in served[k] : r \in [ago : Ages, nth : Nat]
BY RateAssumption DEF TypeOK, Counted, Remaining, Over, Ages

\* The number of a request that is let through is new in its window: the
\* history forgets none.
LEMMA NeverTwice ==
  ASSUME RateInv, NEW k \in Clients, Admitted(k), NEW r \in served[k],
         r.ago + Remaining(k) <= Window
  PROVE  r.nth # Counted(k)
<1>1. TypeOK /\ r \in [ago : Ages, nth : Nat]
  BY DEF RateInv, TypeOK
<1>2. ~Over(k)
  BY <1>1, RateAssumption DEF Remaining, RateInv, Over, Ages
<1>3. Recent(k, r)
  BY <1>2 DEF Recent, Remaining
<1>4. r.nth <= count[k] /\ Counted(k) = count[k] + 1 /\ count[k] \in Nat
  BY <1>1, <1>2, <1>3, CountedType DEF RateInv, Counted, Admitted
<1> QED BY <1>1, <1>4

LEMMA ArriveType ==
  ASSUME TypeOK, NEW k \in Clients, Arrive(k)
  PROVE  TypeOK'
<1>1. left' \in [Clients -> 0 .. Window]
  BY CountedType DEF Arrive, TypeOK
<1>2. \A j \in Clients : /\ count'[j] \in Nat /\ count'[j] <= Limit[j] + 1
                         /\ left'[j] > 0 => count'[j] > 0
  <2> SUFFICES ASSUME NEW j \in Clients
               PROVE  /\ count'[j] \in Nat /\ count'[j] <= Limit[j] + 1
                      /\ left'[j] > 0 => count'[j] > 0
    OBVIOUS
  <2>1. CASE j = k
    BY <2>1, CountedType DEF Arrive
  <2>2. CASE j # k /\ Over(j)
    BY <2>2, CountedType DEF Arrive, Over, TypeOK
  <2>3. CASE j # k /\ ~Over(j)
    BY <2>3, CountedType DEF Arrive, Over, TypeOK
  <2> QED BY <2>1, <2>2, <2>3
<1>3. count' \in [Clients -> Nat]
  BY <1>2 DEF Arrive
<1>4. served' \in [Clients -> SUBSET [ago : Ages, nth : Nat]]
  <2>1. [ago |-> 0, nth |-> Counted(k)] \in [ago : Ages, nth : Nat]
    BY CountedType DEF Ages
  <2> QED BY <2>1 DEF Arrive, TypeOK
<1> QED BY <1>1, <1>2, <1>3, <1>4 DEF TypeOK

\* A request opens a window, after which all that came before are of another
\* one, or takes the next number of the window that is open.
LEMMA ArriveStep ==
  ASSUME RateInv, NEW k \in Clients, Arrive(k)
  PROVE  RateInv'
<1>0. PICK new : new = [ago |-> 0, nth |-> Counted(k)]
  OBVIOUS
<1>1. TypeOK /\ TypeOK'
  BY ArriveType DEF RateInv
<1>2. /\ left'[k] = Remaining(k) /\ count'[k] = Counted(k)
      /\ served'[k] = served[k] \cup (IF Admitted(k) THEN {new} ELSE {})
  BY <1>0, <1>1 DEF Arrive, TypeOK
<1>3. ASSUME NEW j \in Clients, j # k
      PROVE  /\ left'[j] = left[j] /\ served'[j] = served[j]
             /\ ~Over(j) => count'[j] = count[j]
  BY <1>1, <1>3 DEF Arrive, TypeOK
<1>4. ASSUME NEW r \in served[k]
      PROVE  /\ r \in [ago : Ages, nth : Nat] /\ r.nth \in 1 .. Limit[k]
             /\ Recent(k, r)' <=> (~Over(k) /\ Recent(k, r))
             /\ Recent(k, r)' => r.nth <= count'[k]
  <2>1. r \in [ago : Ages, nth : Nat] /\ r.nth \in 1 .. Limit[k]
        /\ (~Over(k) /\ Recent(k, r) => r.nth <= count[k])
        /\ (Over(k) => r.ago > 0)
    BY <1>1, <1>4 DEF RateInv, TypeOK
  <2>2. CASE Over(k)
    <3>1. left'[k] = Window
      BY <1>2, <2>2 DEF Remaining
    <3> QED BY <2>1, <2>2, <3>1, RateAssumption DEF Recent, Ages
  <2>3. CASE ~Over(k)
    <3>1. left'[k] = left[k] /\ count'[k] >= count[k]
      BY <1>1, <1>2, <2>3, CountedType DEF Remaining, Counted
    <3> QED BY <1>1, <1>2, <2>1, <2>3, <3>1, CountedType DEF Recent
  <2> QED BY <2>1, <2>2, <2>3
<1>5. ~Over(k)' /\ Recent(k, new)' /\ new.nth = count'[k]
      /\ (Admitted(k) => new.nth \in 1 .. Limit[k])
  BY <1>0, <1>1, <1>2, CountedType DEF Over, Recent, Admitted
<1>6. Admitted(k) => \A r \in served[k] : Recent(k, r)' => r.nth # new.nth
  BY <1>0, <1>2, NeverTwice DEF Recent
<1>7. ASSUME NEW j \in Clients, NEW r \in served'[j]
      PROVE  /\ r.nth \in 1 .. Limit[j]
             /\ ~Over(j)' /\ Recent(j, r)' => r.nth <= count'[j]
             /\ Over(j)' => r.ago > 0
  <2>1. CASE j # k
    BY <1>3, <1>7, <2>1 DEF RateInv, Over, Recent
  <2>2. CASE j = k /\ r \in served[k]
    BY <1>4, <1>5, <2>2
  <2>3. CASE j = k /\ r \notin served[k]
    <3>1. Admitted(k) /\ r = new
      BY <1>2, <1>7, <2>3
    <3> QED BY <1>0, <1>1, <1>2, <1>5, <2>3, <3>1, CountedType
  <2> QED BY <2>1, <2>2, <2>3
<1>8. ASSUME NEW j \in Clients, NEW r \in served'[j], NEW q \in served'[j],
             r.nth = q.nth, Recent(j, r)' <=> Recent(j, q)'
      PROVE  r = q
  <2>1. CASE j # k
    <3>1. (Recent(j, r) <=> Recent(j, q)) /\ r \in served[j] /\ q \in served[j]
      BY <1>3, <1>8, <2>1 DEF Recent
    <3> QED BY <1>8, <3>1 DEF RateInv
  <2>2. CASE j = k /\ r \in served[k] /\ q \in served[k]
    <3>1. CASE Over(k)
      <4>1. Recent(k, r) /\ Recent(k, q)
        BY <1>1, <2>2, <3>1, <1>4, CountedType DEF Recent, Over, Ages
      <4> QED BY <1>8, <2>2, <4>1 DEF RateInv
    <3>2. CASE ~Over(k)
      <4>1. Recent(k, r) <=> Recent(k, q)
        BY <1>4, <1>8, <2>2, <3>2
      <4> QED BY <1>8, <2>2, <4>1 DEF RateInv
    <3> QED BY <3>1, <3>2
  <2>3. CASE j = k /\ ~(r \in served[k] /\ q \in served[k])
    <3>1. Admitted(k) /\ (r = new \/ q = new) /\ r \in served[k] \cup {new}
          /\ q \in served[k] \cup {new}
      BY <1>2, <1>8, <2>3
    <3>2. Recent(k, r)' /\ Recent(k, q)'
      BY <1>5, <1>8, <2>3, <3>1
    <3> QED BY <1>6, <1>8, <3>1, <3>2
  <2> QED BY <2>1, <2>2, <2>3
<1> QED BY <1>1, <1>7, <1>8 DEF RateInv

LEMMA TickStep ==
  ASSUME RateInv, Tick
  PROVE  RateInv'
<1>1. TypeOK /\ count' = count
  BY DEF RateInv, Tick
<1>2. ASSUME NEW k \in Clients
      PROVE  left'[k] = IF Over(k) THEN 0 ELSE left[k] - 1
  BY <1>2 DEF Tick
<1>3. ASSUME NEW k \in Clients, NEW r \in served'[k]
      PROVE  \E q \in served[k] :
               /\ q \in [ago : Ages, nth : Nat] /\ q.ago + 1 < Window
               /\ r = [ago |-> q.ago + 1, nth |-> q.nth]
  <2>1. PICK q \in served[k] : q.ago + 1 < Window /\ r = [q EXCEPT !.ago = @ + 1]
    BY <1>3 DEF Tick
  <2>2. q \in [ago : Ages, nth : Nat]
    BY <1>1 DEF TypeOK
  <2> QED BY <2>1, <2>2
<1>4. TypeOK'
  <2>1. left' \in [Clients -> 0 .. Window]
    BY <1>1, RateAssumption DEF Tick, TypeOK, Over
  <2>2. \A k \in Clients : left'[k] > 0 => count'[k] > 0
    BY <1>1, <1>2 DEF TypeOK, Over
  <2>3. \A k \in Clients : served'[k] \in SUBSET [ago : Ages, nth : Nat]
    BY <1>3, RateAssumption DEF Ages
  <2>4. served' \in [Clients -> SUBSET [ago : Ages, nth : Nat]]
    BY <2>3 DEF Tick
  <2> QED BY <1>1, <2>1, <2>2, <2>4 DEF TypeOK
<1>5. ASSUME NEW k \in Clients, NEW r \in served'[k]
      PROVE  \E q \in served[k] :
               /\ q \in [ago : Ages, nth : Nat] /\ q.ago + 1 < Window
               /\ r = [ago |-> q.ago + 1, nth |-> q.nth]
               /\ Recent(k, r)' <=> Recent(k, q)
  <2>1. PICK q \in served[k] :
               /\ q \in [ago : Ages, nth : Nat] /\ q.ago + 1 < Window
               /\ r = [ago |-> q.ago + 1, nth |-> q.nth]
    BY <1>3, <1>5
  <2>2. Recent(k, r)' <=> Recent(k, q)
    BY <1>1, <1>2, <2>1, CountedType DEF Recent, Over, Ages
  <2> QED BY <2>1, <2>2
<1>6. ASSUME NEW k \in Clients, NEW r \in served'[k]
      PROVE  /\ r.nth \in 1 .. Limit[k]
             /\ ~Over(k)' /\ Recent(k, r)' => r.nth <= count'[k]
             /\ Over(k)' => r.ago > 0
  <2>1. PICK q \in served[k] :
               /\ q \in [ago : Ages, nth : Nat] /\ q.ago + 1 < Window
               /\ r = [ago |-> q.ago + 1, nth |-> q.nth]
               /\ Recent(k, r)' <=> Recent(k, q)
    BY <1>5, <1>6
  <2>2. ~Over(k)' => ~Over(k)
    BY <1>2 DEF Over
  <2>3. r.ago > 0
    BY <2>1 DEF Ages
  <2> QED BY <1>1, <2>1, <2>2, <2>3 DEF RateInv
<1>7. ASSUME NEW k \in Clients, NEW r1 \in served'[k], NEW r2 \in served'[k],
             r1.nth = r2.nth, Recent(k, r1)' <=> Recent(k, r2)'
      PROVE  r1 = r2
  <2>1. PICK q1 \in served[k] : /\ r1 = [ago |-> q1.ago + 1, nth |-> q1.nth]
                                /\ Recent(k, r1)' <=> Recent(k, q1)
    BY <1>5, <1>7
  <2>2. PICK q2 \in served[k] : /\ r2 = [ago |-> q2.ago + 1, nth |-> q2.nth]
                                /\ Recent(k, r2)' <=> Recent(k, q2)
    BY <1>5, <1>7
  <2>3. q1 = q2
    BY <1>7, <2>1, <2>2 DEF RateInv
  <2> QED BY <2>1, <2>2, <2>3
<1> QED BY <1>4, <1>6, <1>7 DEF RateInv

LEMMA RateStep == RateInv /\ [Next]_vars => RateInv'
<1> SUFFICES ASSUME RateInv, [Next]_vars PROVE RateInv'
  OBVIOUS
<1>1. CASE UNCHANGED vars
  BY <1>1 DEF vars, RateInv, TypeOK, Over, Recent
<1> QED BY <1>1, TickStep, ArriveStep DEF Next

LEMMA RateAlways == Spec => []RateInv
BY RateStarts, RateStep, PTL DEF Spec

(***************************************************************************)
(* The counters keep their types: an open window has a request, and the    *)
(* count never passes one more than the limit.                             *)
(***************************************************************************)
THEOREM RateTypes == Spec => []TypeOK
<1>1. RateInv => TypeOK
  BY DEF RateInv
<1> QED BY RateAlways, <1>1, PTL

\* Requests with different numbers of at most the limit.
LEMMA FewNumbers ==
  ASSUME NEW n \in Nat, NEW S, \A r \in S : r.nth \in 1 .. n,
         \A r, q \in S : r.nth = q.nth => r = q
  PROVE  IsFiniteSet(S) /\ Cardinality(S) \in Nat /\ Cardinality(S) <= n
<1> DEFINE f == [r \in S |-> r.nth]
<1>1. f \in Injection(S, 1 .. n)
  BY DEF Injection, IsInjective
<1>2. IsFiniteSet(1 .. n) /\ Cardinality(1 .. n) = n
  BY FS_Interval
<1> QED BY <1>1, <1>2, FS_Injection, FS_CardinalityType

(***************************************************************************)
(* In the length of a window, wherever it lies, a client gets no more than *)
(* twice its limit through: for all limits and lengths of a window.        *)
(***************************************************************************)
THEOREM TwoWindows == Spec => []AtMostTwoWindows
<1>1. RateInv => AtMostTwoWindows
  <2> SUFFICES ASSUME RateInv, NEW k \in Clients
               PROVE  Cardinality(served[k]) <= 2 * Limit[k]
    BY DEF AtMostTwoWindows
  <2> DEFINE S == {r \in served[k] : Recent(k, r)}
             T == {r \in served[k] : ~Recent(k, r)}
  <2>1. Limit[k] \in Nat /\ \A r \in served[k] : r.nth \in 1 .. Limit[k]
    BY RateAssumption DEF RateInv
  <2>2. IsFiniteSet(S) /\ Cardinality(S) \in Nat /\ Cardinality(S) <= Limit[k]
    <3>1. \A r, q \in S : r.nth = q.nth => r = q
      BY DEF RateInv
    <3> QED BY <2>1, <3>1, FewNumbers
  <2>3. IsFiniteSet(T) /\ Cardinality(T) \in Nat /\ Cardinality(T) <= Limit[k]
    <3>1. \A r, q \in T : r.nth = q.nth => r = q
      BY DEF RateInv
    <3> QED BY <2>1, <3>1, FewNumbers
  <2>4. served[k] = S \cup T /\ S \cap T = {}
    OBVIOUS
  <2> HIDE DEF S, T
  <2>5. Cardinality(S \cup T) = Cardinality(S) + Cardinality(T) - Cardinality(S \cap T)
    BY <2>2, <2>3, FS_Union
  <2>6. Cardinality(S \cap T) = 0
    BY <2>4, FS_EmptySet
  <2> QED BY <2>1, <2>2, <2>3, <2>4, <2>5, <2>6
<1> QED BY RateAlways, <1>1, PTL

-----------------------------------------------------------------------------
(* The end of the process.                                                 *)

Quiet == \A c \in Connections : conns[c] \notin {"idle", "running"}

(***************************************************************************)
(* No connection that could come to a request is left when Shutdown has    *)
(* returned in time; and the pool is closed by the goroutine only.         *)
(***************************************************************************)
ServerInv ==
  /\ conns \in [Connections -> {"none", "idle", "running", "hijacked"}]
  /\ stopper \in {"none", "waiting", "draining", "closing", "done"}
  /\ pool \in {"none", "open", "closed"} /\ late \in BOOLEAN
  /\ Up /\ pool = "closed" => stopper = "done"
  /\ Up /\ stopper \in {"closing", "done"} /\ ~late => Quiet
  /\ main \in {"opening", "configuring"} => stopper = "none" /\ pool # "closed"

LEMMA ServerStarts == ServerInit => ServerInv
BY DEF ServerInit, ServerInv, Quiet, Up

\* The steps of main disturb neither the connections nor the goroutine.
LEMMA MainSteps ==
  ASSUME ServerInv,
         StoreOpens \/ StoreFails \/ StoreCancelled \/ Configure \/ Listen
           \/ ServeFails \/ ServeReturns \/ MainReturns
  PROVE  ServerInv'
<1>1. UNCHANGED <<conns, late>>
  BY DEF StoreOpens, StoreFails, StoreCancelled, Configure, Listen, ServeFails,
         ServeReturns, MainReturns
<1>2. CASE StoreOpens
  BY <1>1, <1>2 DEF ServerInv, Quiet, Up, StoreOpens, Main
<1>3. CASE StoreFails \/ StoreCancelled
  BY <1>1, <1>3 DEF ServerInv, Quiet, Up, StoreFails, StoreCancelled, Main
<1>4. CASE Configure
  BY <1>1, <1>4 DEF ServerInv, Quiet, Up, Configure, Main
<1>5. CASE Listen \/ ServeFails \/ ServeReturns \/ MainReturns
  BY <1>1, <1>5 DEF ServerInv, Quiet, Up, Listen, ServeFails, ServeReturns,
     MainReturns, Main, Stopping
<1> QED BY <1>2, <1>3, <1>4, <1>5

LEMMA RestartStep == ASSUME ServerInv, Restart PROVE ServerInv'
BY DEF ServerInv, Restart, Quiet, Up

\* Before Shutdown is over nothing is claimed of the connections; when it
\* ends in time none is left that is idle or at a request.
LEMMA StopperSteps ==
  ASSUME ServerInv, Signal \/ Stop \/ Drain \/ PatienceEnds \/ CloseStore
  PROVE  ServerInv'
<1>1. CASE Signal \/ Stop \/ PatienceEnds \/ CloseStore
  BY <1>1 DEF ServerInv, Quiet, Up, Signal, Stop, PatienceEnds, CloseStore
<1>2. CASE Drain
  <2>1. PICK kept \in SUBSET Are("idle") :
          /\ conns' = [c \in Connections |->
               IF c \in Are("idle") \ kept THEN "none" ELSE conns[c]]
          /\ stopper' = IF Drained(kept) THEN "closing" ELSE stopper
    BY <1>2 DEF Drain
  <2>2. /\ Up /\ stopper = "draining" /\ pool # "closed"
        /\ UNCHANGED <<main, signalled, pool, late>>
    BY <1>2 DEF Drain, ServerInv
  <2>3. conns' \in [Connections -> {"none", "idle", "running", "hijacked"}]
    BY <2>1 DEF ServerInv
  <2>4. Drained(kept) => Quiet'
    BY <2>1 DEF Drained, Are, Quiet, ServerInv
  <2>5. stopper' \in {"draining", "closing"}
    BY <2>1, <2>2
  <2>6. stopper' = "closing" => Quiet'
    BY <2>1, <2>2, <2>4
  <2> QED BY <2>2, <2>3, <2>5, <2>6 DEF ServerInv, Up
<1> QED BY <1>1, <1>2

\* A connection is accepted before the goroutine begins, and turns to a
\* request only when it was idle.
LEMMA ConnectionSteps ==
  ASSUME ServerInv, NEW c \in Connections,
         Accept(c) \/ Request(c) \/ Answer(c) \/ Hijack(c) \/ Leave(c)
  PROVE  ServerInv'
<1>1. CASE Accept(c)
  BY <1>1 DEF ServerInv, Quiet, Up, Accept, Conn, Are, Stopping
<1>2. CASE Request(c)
  BY <1>2 DEF ServerInv, Quiet, Up, Request, Conn, Are
<1>3. CASE Answer(c)
  BY <1>3 DEF ServerInv, Quiet, Up, Answer, Conn, Are
<1>4. CASE Hijack(c)
  BY <1>4 DEF ServerInv, Quiet, Up, Hijack, Conn, Are
<1>5. CASE Leave(c)
  BY <1>5 DEF ServerInv, Quiet, Up, Leave, Conn, Are
<1> QED BY <1>1, <1>2, <1>3, <1>4, <1>5

(***************************************************************************)
(* The goroutine of main closes the database after the last request that   *)
(* Shutdown has waited for, however many connections there are.            *)
(***************************************************************************)
THEOREM ClosedLast == ServerSpec => []StoreClosedLast
<1>1. ServerInv /\ [ServerNext]_serverVars => ServerInv'
  <2> SUFFICES ASSUME ServerInv, [ServerNext]_serverVars PROVE ServerInv'
    OBVIOUS
  <2>1. CASE UNCHANGED serverVars
    BY <2>1 DEF serverVars, ServerInv, Quiet, Up
  <2>2. CASE ServerNext
    BY <2>2, MainSteps, RestartStep, StopperSteps, ConnectionSteps
       DEF ServerNext, MainStep
  <2> QED BY <2>1, <2>2
<1>2. ServerInv => StoreClosedLast
  BY DEF ServerInv, StoreClosedLast, Quiet, Are
<1> QED BY ServerStarts, <1>1, <1>2, PTL DEF ServerSpec
=============================================================================
