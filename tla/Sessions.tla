------------------------------ MODULE Sessions ------------------------------
(***************************************************************************)
(* Remote-control sessions: an operator asks, from a device of its own, to *)
(* see or control a target device; the target's owner grants a part of     *)
(* what was asked, changes the grant, hands control from one session to    *)
(* another, or ends the session.                                           *)
(*                                                                         *)
(* An action is one critical section of Service.mu.  Requests run          *)
(* concurrently, and the expiry that precedes a request (limit) is a       *)
(* critical section of its own: a request may wait for its body or for the *)
(* mutex between the two, so handlers also meet sessions that are due.     *)
(***************************************************************************)
EXTENDS Registry

CONSTANTS
  SessionIDs,   \* bound of the model: the sessions one behaviour can create
  Permissions,  \* the permissions the server knows
  Asks,         \* the permission lists that requests carry, as sets
  PendingTTL,   \* 2 min: a request is pending
  ActiveTTL,    \* 8 h: an approved session lives, from its approval
  MaxOpen,      \* 10: open sessions of one operator
  MaxEpoch      \* bound of the model: changes of one session's grant

States == {"pending", "active", "rejected", "revoked", "closed", "expired"}

Session == [operator: Users, source: DeviceIDs, target: DeviceIDs,
            state: States, requested: SUBSET Permissions,
            granted: SUBSET Permissions, expires: Int,
            epoch: 1 .. MaxEpoch + 1]

(***************************************************************************)
(* The lifetimes are constants of the code: 45 s < 2 min < 8 h.            *)
(***************************************************************************)
ASSUME SessionsAssumption ==
  /\ {"view", "mouse", "keyboard"} \subseteq Permissions
  /\ PendingTTL \in Nat /\ ActiveTTL \in Nat
  /\ LiveWindow <= PendingTTL /\ PendingTTL <= ActiveTTL
  /\ MaxOpen \in Nat /\ MaxEpoch \in Nat /\ MaxEpoch >= 2
  /\ Nil \notin Session
  /\ IsFiniteSet(SessionIDs)

VARIABLES
  sessions,  \* s.sessions; an entry is never deleted
  told       \* told[d][s]: the epoch in the last message about s queued to
             \* the open connection of d; 0 if there is none

vars == <<now, devices, challenges, peers, sessions, told>>

TypeOK ==
  /\ RegistryTypeOK
  /\ sessions \in [SessionIDs -> Session \cup {Nil}]
  /\ told \in [DeviceIDs -> [SessionIDs -> 0 .. MaxEpoch + 1]]

Untold == [s \in SessionIDs |-> 0]

Init ==
  /\ RegistryInit
  /\ sessions = [s \in SessionIDs |-> Nil]
  /\ told = [d \in DeviceIDs |-> Untold]

-----------------------------------------------------------------------------
Exists(s) == sessions[s] # Nil
Open(s) == Exists(s) /\ sessions[s].state \in {"pending", "active"}
Active(s) == Exists(s) /\ sessions[s].state = "active"

ControlPermissions == {"mouse", "keyboard"}
Controls(p) == p \cap ControlPermissions # {}

\* Mutant: unknown permissions pass.
HasView(p) == "view" \in p

ValidPermissions(p) == "view" \in p /\ p \subseteq Permissions

Visible(s, user) ==
  sessions[s].operator = user \/ Owns(user, sessions[s].target)

Parties(S) == UNION {{<<sessions[s].source, s>>, <<sessions[s].target, s>>} : s \in S}

\* Mutant: a message to a full queue is dropped and the connection kept.
DropQuietly(next, audience, hangup) ==
  /\ sessions' = next
  /\ \E slow \in SUBSET {d \in DeviceIDs :
                           peers[d] = "open" /\ \E s \in SessionIDs : <<d, s>> \in audience} :
       /\ peers' = [d \in DeviceIDs |->
            IF peers[d] = "open" /\ d \in hangup THEN "closing" ELSE peers[d]]
       /\ told' = [d \in DeviceIDs |-> [s \in SessionIDs |->
            IF peers'[d] # "open" THEN 0
            ELSE IF <<d, s>> \in audience /\ d \notin slow THEN next[s].epoch
            ELSE told[d][s]]]

(***************************************************************************)
(* The sessions become `next`, and each <<device, session>> of `audience`  *)
(* is notified.  A connection whose queue is full at a notification is     *)
(* closed, as are those of `hangup`.                                       *)
(***************************************************************************)
Publish(next, audience, hangup) ==
  /\ sessions' = next
  /\ \E slow \in SUBSET {d \in DeviceIDs :
                           peers[d] = "open" /\ \E s \in SessionIDs : <<d, s>> \in audience} :
       /\ peers' = [d \in DeviceIDs |->
            IF peers[d] = "open" /\ d \in slow \cup hangup THEN "closing" ELSE peers[d]]
       /\ told' = [d \in DeviceIDs |-> [s \in SessionIDs |->
            IF peers'[d] # "open" THEN 0
            ELSE IF <<d, s>> \in audience THEN next[s].epoch
            ELSE told[d][s]]]

EndedOne(v, state) == [v EXCEPT !.state = state, !.granted = {}, !.epoch = @ + 1]

Ended(S, state) == [s \in SessionIDs |->
  IF s \in S THEN EndedOne(sessions[s], state) ELSE sessions[s]]

End(S, state, hangup) == Publish(Ended(S, state), Parties(S), hangup)

-----------------------------------------------------------------------------
\* Mutant: the target's sessions are not looked for.
MayOpenTwice(user, target) ==
  Cardinality({s \in SessionIDs : Open(s) /\ sessions[s].operator = user}) < MaxOpen

\* The operator's open sessions leave room for one that targets `target`.
MayOpen(user, target) ==
  LET mine == {s \in SessionIDs : Open(s) /\ sessions[s].operator = user}
  IN /\ \A s \in mine : sessions[s].target # target
     /\ Cardinality(mine) < MaxOpen

(***************************************************************************)
(* POST /v1/sessions.  Without two available devices nothing happens;      *)
(* after that the nonce is spent whatever the outcome.                     *)
(***************************************************************************)
RequestSession(user, source, target, want, nonce, signer) ==
  /\ Owns(user, source) /\ Live(source) /\ Live(target) /\ source # target
  /\ Spend(nonce)
  /\ LET ok == /\ ProofOK(user, devices[source].key, nonce, signer)
               /\ ValidPermissions(want)
               /\ MayOpen(user, target)
     IN \/ ~ok /\ UNCHANGED <<sessions, told, peers>>
        \/ ok /\ \E s \in SessionIDs :
             /\ ~Exists(s)
             /\ Publish([sessions EXCEPT ![s] =
                   [operator |-> user, source |-> source, target |-> target,
                    state |-> "pending", requested |-> want, granted |-> {},
                    expires |-> now + PendingTTL, epoch |-> 1]],
                  {<<target, s>>}, {})
  /\ UNCHANGED <<now, devices>>

\* Mutant: whoever sees the session may decide on it.
AtTargetVisible(user, s) ==
  Exists(s) /\ Visible(s, user) /\ Live(sessions[s].target)

\* The caller owns the session's target, and the target is live.
AtTarget(user, s) ==
  Exists(s) /\ Owns(user, sessions[s].target) /\ Live(sessions[s].target)

ControllerBusy(s) == \E t \in SessionIDs \ {s} :
  /\ Active(t) /\ sessions[t].target = sessions[s].target
  /\ Controls(sessions[t].granted)

\* Mutant: control is granted although another session has it.
GrantableTwice(s, perms) ==
  ValidPermissions(perms) /\ perms \subseteq sessions[s].requested

\* Mutant: the grant is not compared with what was requested.
GrantableUnasked(s, perms) ==
  /\ ValidPermissions(perms)
  /\ Controls(perms) => ~ControllerBusy(s)

Grantable(s, perms) ==
  /\ ValidPermissions(perms) /\ perms \subseteq sessions[s].requested
  /\ Controls(perms) => ~ControllerBusy(s)

(***************************************************************************)
(* The requests of a target's owner: the nonce is spent as soon as the     *)
(* target is found live; `ok` is whether the rest of the checks pass.      *)
(***************************************************************************)
TargetRequest(user, s, nonce, signer, ok, change) ==
  /\ AtTarget(user, s)
  /\ Spend(nonce)
  /\ LET proven == ProofOK(user, devices[sessions[s].target].key, nonce, signer)
     IN \/ ~(proven /\ ok) /\ UNCHANGED <<sessions, told, peers>>
        \/ proven /\ ok /\ change
  /\ UNCHANGED <<now, devices>>

Approved(v, perms) == [v EXCEPT
  !.granted = perms, !.state = "active", !.expires = now + ActiveTTL, !.epoch = @ + 1]

\* POST /v1/sessions/{id}/decision
DecideSession(user, s, approve, perms, nonce, signer) ==
  TargetRequest(user, s, nonce, signer,
    sessions[s].state = "pending" /\ (approve => Grantable(s, perms)),
    \/ ~approve /\ End({s}, "rejected", {})
    \/ /\ approve
       /\ Publish([sessions EXCEPT ![s] = Approved(@, perms)], Parties({s}), {}))

Regranted(v, perms) == [v EXCEPT !.granted = perms, !.epoch = @ + 1]

\* PATCH /v1/sessions/{id}/permissions: the empty list ends the session.
ChangePermissions(user, s, perms, nonce, signer) ==
  TargetRequest(user, s, nonce, signer,
    sessions[s].state = "active" /\ (perms # {} => Grantable(s, perms)),
    \/ perms = {} /\ End({s}, "revoked", {})
    \/ /\ perms # {} /\ sessions[s].epoch < MaxEpoch
       /\ Publish([sessions EXCEPT ![s] = Regranted(@, perms)], Parties({s}), {}))

\* The other active sessions on the target of s, which a handover demotes.
Rivals(s) == {t \in SessionIDs \ {s} :
  Active(t) /\ sessions[t].target = sessions[s].target}

\* Mutant: a session that loses control keeps it.
StillInControl(v) == [v EXCEPT !.epoch = @ + 1]

Demoted(v) == [v EXCEPT !.granted = @ \ ControlPermissions, !.epoch = @ + 1]

Promoted(v) == [v EXCEPT
  !.granted = @ \cup (v.requested \cap ControlPermissions), !.epoch = @ + 1]

HandedOver(s) == [t \in SessionIDs |->
  IF t = s THEN Promoted(sessions[s])
  ELSE IF t \in Rivals(s) THEN Demoted(sessions[t])
  ELSE sessions[t]]

\* POST /v1/sessions/{id}/handover
Handover(user, s, nonce, signer) ==
  TargetRequest(user, s, nonce, signer,
    sessions[s].state = "active" /\ Controls(sessions[s].requested),
    /\ \A t \in Rivals(s) \cup {s} : sessions[t].epoch < MaxEpoch
    /\ Publish(HandedOver(s), Parties(Rivals(s) \cup {s}), {}))

\* Mutant: a session that has ended is ended again.
StopAgain(user, s) ==
  /\ Exists(s) /\ Visible(s, user)
  /\ sessions[s].epoch <= MaxEpoch
  /\ End({s}, "closed", {})
  /\ UNCHANGED <<now, devices, challenges>>

\* DELETE /v1/sessions/{id}: either party's account, without a proof.
StopSession(user, s) ==
  /\ Open(s) /\ Visible(s, user)
  /\ End({s}, "closed", {})
  /\ UNCHANGED <<now, devices, challenges>>

\* Mutant: only the sessions that target the device end with it.
RevokeTarget(user, d) ==
  /\ Owns(user, d)
  /\ devices' = [devices EXCEPT ![d].revoked = TRUE]
  /\ End({s \in SessionIDs : Open(s) /\ d = sessions[s].target}, "revoked", {d})
  /\ UNCHANGED <<now, challenges>>

\* DELETE /v1/devices/{id}
RevokeDevice(user, d) ==
  /\ Owns(user, d)
  /\ devices' = [devices EXCEPT ![d].revoked = TRUE]
  /\ End({s \in SessionIDs : Open(s) /\ d \in {sessions[s].source, sessions[s].target}},
         "revoked", {d})
  /\ UNCHANGED <<now, challenges>>

(***************************************************************************)
(* The server's part of a logout and of the reuse of a refresh token (its  *)
(* effect on tokens is in Tokens).  The loop over the connections, in map  *)
(* order, dereferences the device of each: a connection under an id that   *)
(* is not registered ends it in a panic, which net/http recovers, after    *)
(* any of the owned connections were closed.                               *)
(***************************************************************************)
Invalidate(user) ==
  LET owned == {d \in Connected : Owns(user, d)}
      gone == {s \in SessionIDs : Open(s) /\ Visible(s, user)}
  IN /\ \E hangup \in IF Connected \subseteq Registered THEN {owned} ELSE SUBSET owned :
          End(gone, "closed", hangup)
     /\ UNCHANGED <<now, devices, challenges>>

\* Mutant: an approved session is not due.
DuePending(s) == Exists(s) /\ sessions[s].state = "pending" /\ now >= sessions[s].expires

\* The expiry that precedes every request; nothing else runs it.
Due(s) == Open(s) /\ now >= sessions[s].expires

Expire ==
  /\ \E s \in SessionIDs : Due(s)
     \/ \E n \in Nonces : Stale(n)
  /\ challenges' = [n \in Nonces |-> IF Stale(n) THEN Nil ELSE challenges[n]]
  /\ End({s \in SessionIDs : Due(s)}, "expired", {})
  /\ UNCHANGED <<now, devices>>

-----------------------------------------------------------------------------
\* A new connection of d has heard nothing yet, a lost one hears nothing.
Reset(d) == told' = [told EXCEPT ![d] = Untold] /\ UNCHANGED sessions

RequestNext == \E user \in Users, nonce \in Nonces, signer \in Keys :
  \/ RegisterDevice(user, signer, nonce, signer) /\ UNCHANGED <<sessions, told>>
  \/ \E source, target \in DeviceIDs, want \in Asks :
       RequestSession(user, source, target, want, nonce, signer)
  \/ \E s \in SessionIDs :
       \/ \E approve \in BOOLEAN, perms \in Asks :
            DecideSession(user, s, approve, perms, nonce, signer)
       \/ \E perms \in Asks : ChangePermissions(user, s, perms, nonce, signer)
       \/ Handover(user, s, nonce, signer)

UserNext == \E user \in Users :
  \/ \E nonce \in Nonces : NewChallenge(user, nonce) /\ UNCHANGED <<sessions, told>>
  \/ \E s \in SessionIDs : StopSession(user, s)
  \/ \E d \in DeviceIDs : RevokeDevice(user, d)
  \/ Invalidate(user)

ConnectionNext == \E d \in DeviceIDs :
  \/ Connect(d) /\ Reset(d)
  \/ Disconnect(d) /\ Reset(d)

Next ==
  \/ RequestNext
  \/ UserNext
  \/ ConnectionNext
  \/ Expire
  \/ Tick /\ UNCHANGED <<sessions, told>>

Spec == Init /\ [][Next]_vars

(***************************************************************************)
(* Time passes, and requests keep arriving (any request, of anybody, runs  *)
(* the expiry first).  No party is assumed to do anything else.            *)
(***************************************************************************)
FairSpec ==
  Spec /\ WF_vars(Tick /\ UNCHANGED <<sessions, told>>) /\ WF_vars(Expire)

-----------------------------------------------------------------------------
(* Safety.                                                                 *)

(***************************************************************************)
(* A pending session is at its first version, and every open one can still *)
(* end within the bound: what makes TypeOK inductive.                      *)
(***************************************************************************)
EpochRoom ==
  \A s \in SessionIDs : Open(s) =>
    /\ sessions[s].epoch <= MaxEpoch
    /\ sessions[s].state = "pending" => sessions[s].epoch = 1

(***************************************************************************)
(* At most one session controls a device at a time, however approvals,     *)
(* permission changes and handovers of several operators interleave        *)
(* (controllerBusy, handover).                                             *)
(***************************************************************************)
OneController ==
  \A s, t \in SessionIDs :
    /\ Active(s) /\ Active(t) /\ sessions[s].target = sessions[t].target
    /\ Controls(sessions[s].granted) /\ Controls(sessions[t].granted)
    => s = t

(***************************************************************************)
(* A session is granted only what its operator asked for, always with      *)
(* view while it is active, and nothing before the approval or after the   *)
(* end: not by a handover either, which widens and narrows grants without  *)
(* validating them (decideSession, changePermissions, handover, end).      *)
(***************************************************************************)
ConsentBounds ==
  \A s \in SessionIDs : Exists(s) =>
    /\ sessions[s].granted \subseteq sessions[s].requested
    /\ IF Active(s) THEN "view" \in sessions[s].granted
                    ELSE sessions[s].granted = {}

(***************************************************************************)
(* An open session joins two different devices that are registered and not *)
(* revoked, and its operator owns the source: nothing that takes a device  *)
(* out of trust leaves a session of it open (requestSession, revokeDevice).*)
(***************************************************************************)
Trusted(d) == d \in Registered /\ ~devices[d].revoked

OpenOnTrustedDevices ==
  \A s \in SessionIDs : Open(s) =>
    /\ Trusted(sessions[s].source) /\ Trusted(sessions[s].target)
    /\ Owns(sessions[s].operator, sessions[s].source)
    /\ sessions[s].source # sessions[s].target

(***************************************************************************)
(* An operator has at most MaxOpen open sessions, and one per target       *)
(* (requestSession).                                                       *)
(***************************************************************************)
OperatorBounds ==
  \A user \in Users :
    LET mine == {s \in SessionIDs : Open(s) /\ sessions[s].operator = user}
    IN /\ Cardinality(mine) <= MaxOpen
       /\ \A s, t \in mine : sessions[s].target = sessions[t].target => s = t

(***************************************************************************)
(* The last message about a session that was queued to the open connection *)
(* of one of its devices carries the session's current epoch: no change    *)
(* leaves a connected party with an old grant, unless its connection is    *)
(* being closed (notify and its callers).                                  *)
(***************************************************************************)
ToldCurrent ==
  \A s \in SessionIDs : Exists(s) =>
    \A d \in {sessions[s].source, sessions[s].target} :
      peers[d] = "open" => told[d][s] \in {0, sessions[s].epoch}

(***************************************************************************)
(* What a step may never do.                                               *)
(***************************************************************************)
Before(s) == IF Exists(s) THEN sessions[s].granted ELSE {}
Grows(s) == sessions'[s] # Nil /\ ~(sessions'[s].granted \subseteq Before(s))

(***************************************************************************)
(* No permission is granted on a session whose deadline has passed,        *)
(* although no handler looks at the deadline and the expiry is a critical  *)
(* section of its own (targetSession, expire).                             *)
(***************************************************************************)
GrantInTime ==
  \A s \in SessionIDs : Exists(s) /\ Grows(s) => now < sessions[s].expires

NoLateGrant == [][GrantInTime]_vars

(***************************************************************************)
(* A grant grows only in a step that spends a live challenge of the owner  *)
(* of the target: no other party, and no replayed request, widens it       *)
(* (proof, targetSession).                                                 *)
(***************************************************************************)
GrantSpendsChallenge ==
  \A s \in SessionIDs : Grows(s) =>
    \E n \in Nonces :
      /\ challenges[n] # Nil /\ challenges'[n] = Nil
      /\ Exists(s) /\ Owns(challenges[n].user, sessions[s].target)
      /\ now < challenges[n].expires

GrantNeedsFreshProof == [][GrantSpendsChallenge]_vars

(***************************************************************************)
(* The epoch orders the versions of a session: a step that changes it adds *)
(* exactly one, keeps its parties and what was asked, never reopens it,    *)
(* and never touches it once it has ended (every handler, end).            *)
(***************************************************************************)
Terms(v) == <<v.operator, v.source, v.target, v.requested>>

NewVersion ==
  \A s \in SessionIDs : Exists(s) /\ sessions'[s] # sessions[s] =>
    /\ Open(s) /\ sessions'[s] # Nil
    /\ sessions'[s].epoch = sessions[s].epoch + 1
    /\ sessions'[s].state # "pending"
    /\ Terms(sessions'[s]) = Terms(sessions[s])

EpochOrdersVersions == [][NewVersion]_vars

(***************************************************************************)
(* Progress.                                                               *)
(***************************************************************************)

(***************************************************************************)
(* Every session ends, whatever its parties do: no change of a grant       *)
(* postpones the end for ever, and a session that nobody stops expires     *)
(* (expire; there is no background job).                                   *)
(***************************************************************************)
EverySessionEnds == \A s \in SessionIDs : Open(s) ~> Exists(s) /\ ~Open(s)

-----------------------------------------------------------------------------
(***************************************************************************)
(* Sessions implements Seats: the driver of a device is the session that   *)
(* controls it.                                                            *)
(***************************************************************************)
Phase(s) ==
  IF ~Exists(s) THEN "new" ELSE
  CASE sessions[s].state = "pending" -> "waiting"
    [] sessions[s].state = "active" -> "admitted"
    [] OTHER -> "gone"

Drives(s, d) ==
  Active(s) /\ sessions[s].target = d /\ Controls(sessions[s].granted)

Seating == INSTANCE Seats WITH
  phase <- [s \in SessionIDs |-> Phase(s)],
  place <- [s \in SessionIDs |-> IF Exists(s) THEN sessions[s].target ELSE Nil],
  driver <- [d \in DeviceIDs |-> {s \in SessionIDs : Drives(s, d)}]

(***************************************************************************)
(* The lists of permissions, however approvals, changes, handovers and the *)
(* many ways to end a session rewrite them, behave as one seat per device  *)
(* that is taken when it is free, given up, or handed over (decideSession, *)
(* changePermissions, handover, end).                                      *)
(***************************************************************************)
SeatsAreKept == Seating!Spec

-----------------------------------------------------------------------------
(* What the code says of itself and does not keep.                         *)

(***************************************************************************)
(* The comment on invalidate: it invalidates "all owned connections" of    *)
(* the account.  A connection under an id that is not registered stops the *)
(* loop in a panic with owned connections still open.                      *)
(***************************************************************************)
OwnedConnectionsClosed ==
  [][\A user \in Users : Invalidate(user) =>
       \A d \in DeviceIDs : Owns(user, d) /\ peers[d] = "open" => peers'[d] = "closing"]_vars
=============================================================================
