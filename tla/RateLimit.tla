----------------------------- MODULE RateLimit -----------------------------
(***************************************************************************)
(* The request limit of the handler: for each key (a client address, or    *)
(* that address and "/auth") a count of the requests since a window of one *)
(* minute was opened by the first of them.                                 *)
(*                                                                         *)
(* The state holds ages and remaining times instead of instants, so that   *)
(* the clock needs no bound.                                               *)
(***************************************************************************)
EXTENDS Integers, FiniteSets

CONSTANTS
  Clients,  \* the keys of s.rates
  Window,   \* 1 min
  Limit     \* Limit[k]: 300 requests of a window, 15 under /v1/auth/

ASSUME RateAssumption ==
  Window \in Nat \ {0} /\ Limit \in [Clients -> Nat \ {0}]

VARIABLES
  left,    \* left[k]: the time until s.rates[k].Until, 0 if that is past
  count,   \* s.rates[k].Count, 0 if there is no entry
  served   \* history: the requests of k let through less than a window ago, each
           \* with the time since then and its number, the count that it made

vars == <<left, count, served>>

Ages == 0 .. Window - 1

TypeOK ==
  /\ left \in [Clients -> 0 .. Window]
  /\ count \in [Clients -> Nat] /\ \A k \in Clients : count[k] <= Limit[k] + 1
  /\ \A k \in Clients : left[k] > 0 => count[k] > 0
  /\ served \in [Clients -> SUBSET [ago : Ages, nth : Nat]]

Init ==
  /\ left = [k \in Clients |-> 0]
  /\ count = [k \in Clients |-> 0]
  /\ served = [k \in Clients |-> {}]

-----------------------------------------------------------------------------
Over(k) == left[k] = 0

\* Bound of the model: beyond the limit no two counts differ.
Counted(k) ==
  IF Over(k) THEN 1 ELSE IF count[k] > Limit[k] THEN count[k] ELSE count[k] + 1

\* Mutant: the request that reaches one more than the limit passes.
AdmittedOneMore(k) == Counted(k) <= Limit[k] + 1

Admitted(k) == Counted(k) <= Limit[k]

\* Mutant: every request, refused or not, opens the window anew.
Renewed(k) == Window

\* Mutant: a window ends one unit late.
LongWindow(k) == IF Over(k) THEN Window + 1 ELSE left[k]

\* A window is opened by its first request and no other moves its end.
Remaining(k) == IF Over(k) THEN Window ELSE left[k]

(***************************************************************************)
(* A request of k, before it is routed: expire drops every entry that is   *)
(* over, then the request is counted, and refused beyond the limit.        *)
(***************************************************************************)
Arrive(k) ==
  /\ count' = [j \in Clients |->
       IF j = k THEN Counted(k) ELSE IF Over(j) THEN 0 ELSE count[j]]
  /\ left' = [left EXCEPT ![k] = Remaining(k)]
  /\ served' = [served EXCEPT ![k] =
       @ \cup IF Admitted(k) THEN {[ago |-> 0, nth |-> Counted(k)]} ELSE {}]

Tick ==
  /\ left' = [k \in Clients |-> IF Over(k) THEN 0 ELSE left[k] - 1]
  /\ served' = [k \in Clients |->
       {[r EXCEPT !.ago = @ + 1] : r \in {q \in served[k] : q.ago + 1 < Window}}]
  /\ UNCHANGED count

Next == Tick \/ \E k \in Clients : Arrive(k)

Spec == Init /\ [][Next]_vars

\* Time passes, and every client keeps sending requests, refused or not.
RateFairness == WF_vars(Tick) /\ \A k \in Clients : WF_vars(Arrive(k))

FairSpec == Spec /\ RateFairness

-----------------------------------------------------------------------------
(***************************************************************************)
(* Whenever it is measured, a client gets at most twice its limit through  *)
(* in the length of a window: the end of one window and the start of the   *)
(* next, and never three (the counter in Handler, expire).                 *)
(***************************************************************************)
AtMostTwoWindows ==
  \A k \in Clients : Cardinality(served[k]) <= 2 * Limit[k]

(***************************************************************************)
(* A client that is refused and goes on sending is let through again and   *)
(* again: requests that are refused do not lengthen the refusal (the       *)
(* Retry-After of the answer holds).                                       *)
(***************************************************************************)
NoLockout == \A k \in Clients : []<>(\E r \in served[k] : r.ago = 0)
=============================================================================
