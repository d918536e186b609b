------------------------------ MODULE Registry ------------------------------
(***************************************************************************)
(* The part of the server state that says which devices exist and which    *)
(* of them are present: the devices, the one-time challenges with which a  *)
(* device proves its identity, and the map of signalling connections.      *)
(*                                                                         *)
(* Every definition is one critical section of Service.mu, or a helper the *)
(* sections call.  The sessions between devices are in Sessions, which     *)
(* extends this module.                                                    *)
(***************************************************************************)
EXTENDS Integers, FiniteSets

CONSTANTS
  Users,         \* account ids; every user of the model is registered
  DeviceIDs,     \* device ids, registered or not; a connection may name any
  Keys,          \* texts of Ed25519 public keys, in base64
  KeyOf,         \* KeyOf[k]: the key that k decodes to, as one of its texts:
                 \* the decoder ignores line ends and the last unused bits
  Nonces,        \* values of a challenge nonce that is alive
  Seed,          \* the devices a behaviour starts with
  LiveWindow,    \* 45 s: age of LastSeen at which a device is not live
  ChallengeTTL,  \* 1 min: lifetime of a challenge
  MaxDevices,    \* 100: unrevoked devices of one account
  MaxNow,        \* bound of the model: last instant of the clock
  Nil            \* the absent map entry

Device == [owner: Users, key: Keys, revoked: BOOLEAN, lastSeen: Int]
Challenge == [user: Users, expires: Int]

(***************************************************************************)
(* The zero time.Time, the LastSeen of a device that registers: older than *)
(* any window that ends at an instant of the model.                        *)
(***************************************************************************)
ZeroTime == 0 - LiveWindow

ASSUME RegistryAssumption ==
  /\ LiveWindow \in Nat \ {0} /\ ChallengeTTL \in Nat \ {0}
  /\ MaxDevices \in Nat /\ MaxNow \in Nat
  /\ IsFiniteSet(DeviceIDs) /\ KeyOf \in [Keys -> Keys]
  /\ Nil \notin Device /\ Nil \notin Challenge

(***************************************************************************)
(* A behaviour starts with devices under distinct texts of keys, none      *)
(* revoked, last seen no later than the instant it starts at: the fixture  *)
(* of service_test.go:22-36.  With every Seed[d] = Nil it is the start of  *)
(* the program.                                                            *)
(***************************************************************************)
ASSUME SeedAssumption ==
  /\ Seed \in [DeviceIDs -> Device \cup {Nil}]
  /\ \A d \in DeviceIDs :
       Seed[d] # Nil => ~Seed[d].revoked /\ Seed[d].lastSeen <= 0
  /\ \A d, e \in DeviceIDs :
       Seed[d] # Nil /\ Seed[e] # Nil /\ Seed[d].key = Seed[e].key => d = e
  /\ \A u \in Users :
       Cardinality({d \in DeviceIDs : Seed[d] # Nil /\ Seed[d].owner = u})
         <= MaxDevices

VARIABLES
  now,         \* s.now()
  devices,     \* s.devices
  challenges,  \* s.challenges
  peers        \* s.peers, and whether the server has asked to close the
               \* connection: "absent", "open" or "closing"

registryVars == <<now, devices, challenges, peers>>

RegistryTypeOK ==
  /\ now \in 0 .. MaxNow
  /\ devices \in [DeviceIDs -> Device \cup {Nil}]
  /\ challenges \in [Nonces -> Challenge \cup {Nil}]
  /\ peers \in [DeviceIDs -> {"absent", "open", "closing"}]

RegistryInit ==
  /\ now = 0
  /\ devices = Seed
  /\ challenges = [n \in Nonces |-> Nil]
  /\ peers = [d \in DeviceIDs |-> "absent"]

-----------------------------------------------------------------------------
Registered == {d \in DeviceIDs : devices[d] # Nil}
Connected == {d \in DeviceIDs : peers[d] # "absent"}
Owns(user, d) == d \in Registered /\ devices[d].owner = user

\* Mutant: a device stays live however old its LastSeen is.
LiveUnaged(d) ==
  d \in Registered /\ d \in Connected /\ ~devices[d].revoked

\* A connection that is being closed still counts until it is cleaned up.
Live(d) ==
  /\ d \in Registered /\ ~devices[d].revoked
  /\ d \in Connected
  /\ now - devices[d].lastSeen < LiveWindow

\* Mutant: the challenge's owner and deadline are not checked.
AnyChallenge(user, key, nonce, signer) ==
  challenges[nonce] # Nil /\ KeyOf[signer] = KeyOf[key]

(***************************************************************************)
(* What proof returns for a request of `user` that presents `nonce` and a  *)
(* signature made with the private half of `signer` over this method, this *)
(* path and this nonce.  A signature over anything else is one of another  *)
(* key: it does not verify.  VerifyDevice decodes the text of the key.     *)
(***************************************************************************)
ProofOK(user, key, nonce, signer) ==
  /\ challenges[nonce] # Nil
  /\ challenges[nonce].user = user
  /\ now < challenges[nonce].expires
  /\ KeyOf[signer] = KeyOf[key]

\* What proof does whatever it returns: the nonce is spent.
Spend(nonce) == challenges' = [challenges EXCEPT ![nonce] = Nil]

Stale(n) == challenges[n] # Nil /\ now >= challenges[n].expires

-----------------------------------------------------------------------------
(* POST /v1/devices/challenge.  randomID never repeats the nonce of a      *)
(* challenge in the map; the server does not remember a spent one.         *)
NewChallenge(user, nonce) ==
  /\ challenges[nonce] = Nil
  /\ challenges' = [challenges EXCEPT
       ![nonce] = [user |-> user, expires |-> now + ChallengeTTL]]
  /\ UNCHANGED <<now, devices, peers>>

\* Mutant: only the caller's own devices are searched for the key.
KnownToCaller(user, key) == \E d \in Registered :
  devices[d].key = key /\ devices[d].owner = user

\* A device has this text already: the request is refused, or only confirms
\* the names of the caller's own unrevoked device.
KnownKey(user, key) == \E d \in Registered : devices[d].key = key

\* Mutant: the count of devices reaches one more than the limit.
HasRoomOffByOne(user) ==
  Cardinality({d \in Registered :
    devices[d].owner = user /\ ~devices[d].revoked}) <= MaxDevices

HasRoom(user) ==
  Cardinality({d \in Registered :
    devices[d].owner = user /\ ~devices[d].revoked}) < MaxDevices

\* Mutant: to confirm a revoked device of one's own brings it back.
RegisterOrRestore(user, key, nonce, signer) ==
  LET proven == ProofOK(user, key, nonce, signer)
      ok == proven /\ ~KnownKey(user, key) /\ HasRoom(user)
  IN /\ Spend(nonce)
     /\ \/ /\ ~ok
           /\ devices' = [d \in DeviceIDs |->
                IF proven /\ Owns(user, d) /\ devices[d].key = key
                THEN [devices[d] EXCEPT !.revoked = FALSE] ELSE devices[d]]
        \/ ok /\ \E d \in DeviceIDs \ (Registered \cup Connected) :
             devices' = [devices EXCEPT
               ![d] = [owner |-> user, key |-> key, revoked |-> FALSE,
                       lastSeen |-> ZeroTime]]
     /\ UNCHANGED <<now, peers>>

(***************************************************************************)
(* POST /v1/devices.  The new id is random: nobody has connected under it. *)
(* Nothing stamps LastSeen here or anywhere else in the program.           *)
(***************************************************************************)
RegisterDevice(user, key, nonce, signer) ==
  LET ok == /\ ProofOK(user, key, nonce, signer)
            /\ ~KnownKey(user, key) /\ HasRoom(user)
  IN /\ Spend(nonce)
     /\ \/ ~ok /\ UNCHANGED devices
        \/ ok /\ \E d \in DeviceIDs \ (Registered \cup Connected) :
             devices' = [devices EXCEPT
               ![d] = [owner |-> user, key |-> key, revoked |-> FALSE,
                       lastSeen |-> ZeroTime]]
     /\ UNCHANGED <<now, peers>>

(***************************************************************************)
(* The signalling endpoint accepts a connection under any device id and    *)
(* replaces the one that is there; the handler's deferred cleanup removes  *)
(* the entry only if it is still its own.                                  *)
(***************************************************************************)
Connect(d) ==
  /\ peers' = [peers EXCEPT ![d] = "open"]
  /\ UNCHANGED <<now, devices, challenges>>

Disconnect(d) ==
  /\ d \in Connected
  /\ peers' = [peers EXCEPT ![d] = "absent"]
  /\ UNCHANGED <<now, devices, challenges>>

Tick ==
  /\ now < MaxNow
  /\ now' = now + 1
  /\ UNCHANGED <<devices, challenges, peers>>

-----------------------------------------------------------------------------
(***************************************************************************)
(* No text of a key is registered twice, by whatever accounts; a revoked   *)
(* device keeps its text out of use (registerDevice).                      *)
(***************************************************************************)
UniqueKeys == \A d, e \in Registered : devices[d].key = devices[e].key => d = e

(***************************************************************************)
(* An account has at most MaxDevices unrevoked devices, however it         *)
(* registers and revokes them (registerDevice, revokeDevice).              *)
(***************************************************************************)
DeviceLimit == \A u \in Users :
  Cardinality({d \in Registered : devices[d].owner = u /\ ~devices[d].revoked})
    <= MaxDevices

(***************************************************************************)
(* A device keeps its owner and its key for ever, and a revoked device is  *)
(* never trusted again: registering its key anew does not restore it       *)
(* (registerDevice, revokeDevice).                                         *)
(***************************************************************************)
SameIdentity ==
  \A d \in Registered :
    /\ devices'[d] # Nil
    /\ devices'[d].owner = devices[d].owner
    /\ devices'[d].key = devices[d].key
    /\ devices[d].revoked => devices'[d].revoked

IdentityIsForever == [][SameIdentity]_registryVars

(***************************************************************************)
(* A device appears only in a step that spends a live challenge of its     *)
(* owner: a challenge registers one device, and only for its account       *)
(* (proof, registerDevice).                                                *)
(***************************************************************************)
DeviceNeedsFreshProof ==
  [][\A d \in DeviceIDs \ Registered : devices'[d] # Nil =>
       \E n \in Nonces :
         /\ challenges[n] # Nil /\ challenges'[n] = Nil
         /\ challenges[n].user = devices'[d].owner
         /\ now < challenges[n].expires]_registryVars

-----------------------------------------------------------------------------
(* What a test says of the code and the code does not keep.                *)

(***************************************************************************)
(* "Registration reuses identity but cannot restore revoked device": a key *)
(* is one device, for ever.  The code compares texts, and a key has many.  *)
(***************************************************************************)
UniqueIdentities ==
  \A d, e \in Registered : KeyOf[devices[d].key] = KeyOf[devices[e].key] => d = e
=============================================================================
