------------------------------- MODULE Seats -------------------------------
(***************************************************************************)
(* What remote control promises to the owners of target devices, without   *)
(* permissions, proofs, devices or deadlines: each device has one driver's *)
(* seat.  A session asks for a device, waits, is admitted, and leaves for  *)
(* good; an admitted session may sit down on a free seat and stand up; a   *)
(* handover is the only way to a seat that is taken.                       *)
(***************************************************************************)
CONSTANTS SessionIDs, DeviceIDs, Nil

VARIABLES
  phase,  \* phase[s]: "new", "waiting", "admitted" or "gone"
  place,  \* place[s]: the device s asked for, or Nil
  driver  \* driver[d]: the session in the seat of d: a set of at most one

vars == <<phase, place, driver>>

Init ==
  /\ phase = [s \in SessionIDs |-> "new"]
  /\ place = [s \in SessionIDs |-> Nil]
  /\ driver = [d \in DeviceIDs |-> {}]

Free(s) == driver[place[s]] = {}
SitDown(s) == driver' = [driver EXCEPT ![place[s]] = {s}]
StandUp(S) == driver' = [d \in DeviceIDs |-> driver[d] \ S]

Ask(s, d) ==
  /\ phase[s] = "new" /\ phase' = [phase EXCEPT ![s] = "waiting"]
  /\ place' = [place EXCEPT ![s] = d]
  /\ UNCHANGED driver

Admit(s) ==
  /\ phase[s] = "waiting" /\ phase' = [phase EXCEPT ![s] = "admitted"]
  /\ UNCHANGED driver \/ (Free(s) /\ SitDown(s))
  /\ UNCHANGED place

\* A change of what s may do.
Change(s) ==
  /\ phase[s] = "admitted"
  /\ (Free(s) /\ SitDown(s)) \/ StandUp({s})
  /\ UNCHANGED <<phase, place>>

HandOver(s) ==
  /\ phase[s] = "admitted" /\ SitDown(s)
  /\ UNCHANGED <<phase, place>>

Leave(S) ==
  /\ \A s \in S : phase[s] \in {"waiting", "admitted"}
  /\ phase' = [s \in SessionIDs |-> IF s \in S THEN "gone" ELSE phase[s]]
  /\ StandUp(S)
  /\ UNCHANGED place

Next ==
  \/ \E s \in SessionIDs : Admit(s) \/ Change(s) \/ HandOver(s)
  \/ \E s \in SessionIDs, d \in DeviceIDs : Ask(s, d)
  \/ \E S \in SUBSET SessionIDs : Leave(S)

Spec == Init /\ [][Next]_vars
=============================================================================
