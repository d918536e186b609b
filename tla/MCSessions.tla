----------------------------- MODULE MCSessions -----------------------------
(***************************************************************************)
(* Instances of Sessions: two operators, each with a device, and the owner *)
(* of a target.  A .cfg takes the users, the devices and the seed it needs.*)
(***************************************************************************)
EXTENDS Sessions, TLC

CONSTANTS op1, op2, owner, d1, d2, target, k1, k2, kt

At(user, key) == [owner |-> user, key |-> key, revoked |-> FALSE, lastSeen |-> 0]

\* Two operators and one target.
RivalSeed == d1 :> At(op1, k1) @@ d2 :> At(op2, k2) @@ target :> At(owner, kt)
\* One account with two devices; the third id is nobody's.
StrangerSeed == d1 :> At(op1, k1) @@ d2 :> At(op1, k2) @@ target :> Nil
\* One operator and one target.
PairSeed == d1 :> At(op1, k1) @@ target :> At(owner, kt)
\* The start of the program.
EmptySeed == [d \in DeviceIDs |-> Nil]

\* Keys with one text each; and kt as a second text of the key k1.
OneText == [k \in Keys |-> k]
TwoTexts == [k \in Keys |-> IF k = kt THEN k1 ELSE k]

MCPermissions == {"view", "mouse", "keyboard"}
(***************************************************************************)
(* Requests that ask, and grant, less and more than each other; with an    *)
(* unknown permission; with the empty list that ends a session.            *)
(***************************************************************************)
MCAsks == {{"view"}, {"view", "mouse"}, {"view", "root"}}
EndAsks == {{}, {"view"}, {"view", "keyboard"}}
OneAsk == {{"view", "keyboard"}}

(***************************************************************************)
(* The operators of RivalSeed, each with its device and key, are alike,    *)
(* and so are the session ids.                                             *)
(***************************************************************************)
Swap == op1 :> op2 @@ op2 :> op1 @@ d1 :> d2 @@ d2 :> d1 @@ k1 :> k2 @@ k2 :> k1
RivalSymmetry ==
  {o @@ s : o \in {Swap, [v \in DOMAIN Swap |-> v]}, s \in Permutations(SessionIDs)}

(***************************************************************************)
(* What a behaviour can still do to open sessions and to devices does not  *)
(* depend on the rest: an ended session only occupies its id, a connection *)
(* that is being closed is still one, and told is only ever written.  The  *)
(* invariants that speak of ended sessions are part of the view, so that   *)
(* no state that violates them is taken for one that does not.             *)
(***************************************************************************)
Essence ==
  <<now, devices, challenges, Connected, TypeOK, ConsentBounds,
    [s \in SessionIDs |-> IF Open(s) THEN <<sessions[s]>> ELSE <<Exists(s)>>]>>

\* The same without an abstraction of connections and of what they were told.
OpenEssence ==
  <<now, devices, challenges, peers, ToldCurrent,
    [s \in SessionIDs |->
      IF Open(s) THEN <<sessions[s], [d \in DeviceIDs |-> told[d][s]]>>
                 ELSE <<Exists(s)>>]>>
=============================================================================
