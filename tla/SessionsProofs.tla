--------------------------- MODULE SessionsProofs ---------------------------
(***************************************************************************)
(* Proofs about Sessions, for every value of its constants.                *)
(***************************************************************************)
EXTENDS Sessions, FiniteSetTheorems, TLAPS

-----------------------------------------------------------------------------
(* The type invariant.  It needs EpochRoom: the epoch is bounded because an *)
(* open session has room for the change that ends it.                      *)

TypeInv == TypeOK /\ EpochRoom

\* What Publish leaves behind has its type if `next` has.
LEMMA PublishType ==
  ASSUME TypeOK,
         NEW next \in [SessionIDs -> Session \cup {Nil}], NEW audience, NEW hangup,
         \A d \in DeviceIDs, s \in SessionIDs :
           <<d, s>> \in audience => next[s] \in Session,
         Publish(next, audience, hangup)
  PROVE  /\ sessions' = next
         /\ peers' \in [DeviceIDs -> {"absent", "open", "closing"}]
         /\ told' \in [DeviceIDs -> [SessionIDs -> 0 .. MaxEpoch + 1]]
<1>1. sessions' = next
  BY DEF Publish
<1>2. peers' \in [DeviceIDs -> {"absent", "open", "closing"}]
  BY DEF Publish, TypeOK, RegistryTypeOK
<1>3. \A d \in DeviceIDs, s \in SessionIDs :
        <<d, s>> \in audience => next[s].epoch \in 0 .. MaxEpoch + 1
  BY SessionsAssumption DEF Session
<1>4. told' \in [DeviceIDs -> [SessionIDs -> 0 .. MaxEpoch + 1]]
  <2>1. 0 \in 0 .. MaxEpoch + 1
    BY SessionsAssumption
  <2> QED BY <1>3, <2>1 DEF Publish, TypeOK
<1> QED BY <1>1, <1>2, <1>4


\* What a step makes of one session.
LEMMA EndedOneType ==
  ASSUME NEW v \in Session, v.epoch \in 1 .. MaxEpoch,
         NEW state \in {"rejected", "revoked", "closed", "expired"}
  PROVE  LET w == EndedOne(v, state)
         IN /\ w \in Session
            /\ w.state = state /\ w.granted = {} /\ w.epoch = v.epoch + 1
            /\ w.expires = v.expires /\ w.operator = v.operator
            /\ w.source = v.source /\ w.target = v.target /\ w.requested = v.requested
<1>1. v.epoch + 1 \in 1 .. MaxEpoch + 1
  BY SessionsAssumption
<1> QED BY <1>1 DEF Session, States, EndedOne

\* Ending open sessions keeps them sessions, and changes no other.
LEMMA EndedType ==
  ASSUME TypeInv, NEW S \in SUBSET SessionIDs, \A s \in S : Open(s),
         NEW state \in {"rejected", "revoked", "closed", "expired"}
  PROVE  LET next == Ended(S, state)
         IN /\ next \in [SessionIDs -> Session \cup {Nil}]
            /\ \A s \in S :
                 /\ next[s] \in Session
                 /\ next[s].state = state /\ next[s].granted = {}
                 /\ next[s].epoch = sessions[s].epoch + 1
                 /\ next[s].expires = sessions[s].expires
                 /\ next[s].operator = sessions[s].operator
                 /\ next[s].source = sessions[s].source
                 /\ next[s].target = sessions[s].target
                 /\ next[s].requested = sessions[s].requested
            /\ \A s \in SessionIDs \ S : next[s] = sessions[s]
<1>1. ASSUME NEW s \in S
      PROVE  sessions[s] \in Session /\ sessions[s].epoch \in 1 .. MaxEpoch
  BY <1>1, SessionsAssumption DEF TypeInv, TypeOK, EpochRoom, Open, Exists, Session
<1> QED BY <1>1, EndedOneType DEF Ended, TypeInv, TypeOK

\* The sessions' part of TypeInv, of a function of session ids.
Fits(next) ==
  /\ next \in [SessionIDs -> Session \cup {Nil}]
  /\ \A s \in SessionIDs : next[s] # Nil /\ next[s].state \in {"pending", "active"} =>
       /\ next[s].epoch <= MaxEpoch
       /\ next[s].state = "pending" => next[s].epoch = 1

\* The sessions a step publishes fit, and so does what the step leaves.
LEMMA PublishInv ==
  ASSUME TypeInv, NEW next, Fits(next), NEW audience, NEW hangup,
         \A d \in DeviceIDs, s \in SessionIDs :
           <<d, s>> \in audience => next[s] \in Session,
         Publish(next, audience, hangup),
         now' \in 0 .. MaxNow,
         devices' \in [DeviceIDs -> Device \cup {Nil}],
         challenges' \in [Nonces -> Challenge \cup {Nil}]
  PROVE  TypeInv'
<1>1. /\ sessions' = next
      /\ peers' \in [DeviceIDs -> {"absent", "open", "closing"}]
      /\ told' \in [DeviceIDs -> [SessionIDs -> 0 .. MaxEpoch + 1]]
  BY PublishType DEF TypeInv, Fits
<1>2. EpochRoom'
  BY <1>1 DEF Fits, EpochRoom, Open, Exists
<1> QED BY <1>1, <1>2 DEF TypeInv, TypeOK, RegistryTypeOK, Fits

LEMMA EndInv ==
  ASSUME TypeInv, NEW S \in SUBSET SessionIDs, \A s \in S : Open(s),
         NEW state \in {"rejected", "revoked", "closed", "expired"}, NEW hangup,
         End(S, state, hangup),
         now' \in 0 .. MaxNow,
         devices' \in [DeviceIDs -> Device \cup {Nil}],
         challenges' \in [Nonces -> Challenge \cup {Nil}]
  PROVE  TypeInv'
<1>1. \A d \in DeviceIDs, s \in SessionIDs : <<d, s>> \in Parties(S) => s \in S
  BY DEF Parties
<1>2. Fits(Ended(S, state))
  <2>1. \A s \in S : Ended(S, state)[s].state \notin {"pending", "active"}
    BY EndedType
  <2>2. \A s \in SessionIDs \ S : Ended(S, state)[s] = sessions[s]
    BY EndedType
  <2> QED BY <2>1, <2>2, EndedType DEF Fits, TypeInv, EpochRoom, Open, Exists
<1>3. \A d \in DeviceIDs, s \in SessionIDs :
        <<d, s>> \in Parties(S) => Ended(S, state)[s] \in Session
  BY <1>1, EndedType
<1> QED BY <1>2, <1>3, PublishInv DEF End
-----------------------------------------------------------------------------
(* One lemma per action whose effect on the sessions is its own.           *)

LEMMA SpendType ==
  ASSUME TypeInv, NEW nonce, Spend(nonce)
  PROVE  challenges' \in [Nonces -> Challenge \cup {Nil}]
BY DEF Spend, TypeInv, TypeOK, RegistryTypeOK

\* A request that changes neither the sessions nor the connections.
LEMMA RefusedInv ==
  ASSUME TypeInv, NEW nonce, Spend(nonce),
         UNCHANGED <<now, devices, peers, sessions, told>>
  PROVE  TypeInv'
BY SpendType DEF TypeInv, TypeOK, RegistryTypeOK, EpochRoom, Open, Exists

LEMMA RequestInv ==
  ASSUME TypeInv,
         NEW user \in Users, NEW source \in DeviceIDs, NEW target \in DeviceIDs,
         NEW want, NEW nonce, NEW signer,
         RequestSession(user, source, target, want, nonce, signer)
  PROVE  TypeInv'
<1>1. CASE UNCHANGED <<sessions, told, peers>>
  BY <1>1, RefusedInv DEF RequestSession
<1>2. CASE ~UNCHANGED <<sessions, told, peers>>
  <2> DEFINE v == [operator |-> user, source |-> source, target |-> target,
                   state |-> "pending", requested |-> want, granted |-> {},
                   expires |-> now + PendingTTL, epoch |-> 1]
  <2>1. PICK s \in SessionIDs :
          /\ ~Exists(s)
          /\ ValidPermissions(want)
          /\ Publish([sessions EXCEPT ![s] = v], {<<target, s>>}, {})
    BY <1>2 DEF RequestSession
  <2>2. v \in Session /\ v.epoch = 1
    BY <2>1, SessionsAssumption
    DEF Session, States, ValidPermissions, TypeInv, TypeOK, RegistryTypeOK
  <2> HIDE DEF v
  <2>3. Fits([sessions EXCEPT ![s] = v])
    BY <2>2, SessionsAssumption DEF Fits, TypeInv, TypeOK, EpochRoom, Open, Exists
  <2>4. now' \in 0 .. MaxNow /\ devices' \in [DeviceIDs -> Device \cup {Nil}]
    BY DEF RequestSession, TypeInv, TypeOK, RegistryTypeOK
  <2>5. challenges' \in [Nonces -> Challenge \cup {Nil}]
    BY SpendType DEF RequestSession
  <2>6. \A d \in DeviceIDs, t \in SessionIDs :
          <<d, t>> \in {<<target, s>>} => [sessions EXCEPT ![s] = v][t] \in Session
    BY <2>2 DEF TypeInv, TypeOK
  <2> QED BY <2>1, <2>3, <2>4, <2>5, <2>6, PublishInv
<1> QED BY <1>1, <1>2

LEMMA ApprovedType ==
  ASSUME NEW v \in Session, v.epoch = 1, NEW perms \in SUBSET Permissions, now \in Int
  PROVE  LET w == Approved(v, perms)
         IN /\ w \in Session
            /\ w.state = "active" /\ w.granted = perms /\ w.epoch = 2
            /\ w.expires = now + ActiveTTL /\ w.operator = v.operator
            /\ w.source = v.source /\ w.target = v.target /\ w.requested = v.requested
<1>1. v.epoch + 1 \in 1 .. MaxEpoch + 1 /\ v.epoch + 1 = 2
  BY SessionsAssumption
<1>2. now + ActiveTTL \in Int
  BY SessionsAssumption
<1> QED BY <1>1, <1>2 DEF Session, States, Approved

LEMMA RegrantedType ==
  ASSUME NEW v \in Session, v.epoch < MaxEpoch, NEW perms \in SUBSET Permissions
  PROVE  LET w == Regranted(v, perms)
         IN /\ w \in Session
            /\ w.granted = perms /\ w.epoch = v.epoch + 1
            /\ w.state = v.state /\ w.expires = v.expires /\ w.operator = v.operator
            /\ w.source = v.source /\ w.target = v.target /\ w.requested = v.requested
<1>1. v.epoch + 1 \in 1 .. MaxEpoch + 1
  BY SessionsAssumption DEF Session
<1> QED BY <1>1 DEF Session, States, Regranted

LEMMA DemotedType ==
  ASSUME NEW v \in Session, v.epoch < MaxEpoch
  PROVE  LET w == Demoted(v)
         IN /\ w \in Session
            /\ w.granted = v.granted \ ControlPermissions /\ w.epoch = v.epoch + 1
            /\ w.state = v.state /\ w.expires = v.expires /\ w.operator = v.operator
            /\ w.source = v.source /\ w.target = v.target /\ w.requested = v.requested
<1>1. v.epoch + 1 \in 1 .. MaxEpoch + 1
  BY SessionsAssumption DEF Session
<1> QED BY <1>1 DEF Session, States, Demoted

LEMMA PromotedType ==
  ASSUME NEW v \in Session, v.epoch < MaxEpoch
  PROVE  LET w == Promoted(v)
         IN /\ w \in Session
            /\ w.granted = v.granted \cup (v.requested \cap ControlPermissions)
            /\ w.epoch = v.epoch + 1
            /\ w.state = v.state /\ w.expires = v.expires /\ w.operator = v.operator
            /\ w.source = v.source /\ w.target = v.target /\ w.requested = v.requested
<1>1. v.epoch + 1 \in 1 .. MaxEpoch + 1
  BY SessionsAssumption DEF Session
<1> QED BY <1>1 DEF Session, States, Promoted
-----------------------------------------------------------------------------
\* What a request of a target's owner leaves alone, whatever its outcome.
LEMMA TargetFrame ==
  ASSUME TypeInv, NEW nonce, Spend(nonce), UNCHANGED <<now, devices>>
  PROVE  /\ now' \in 0 .. MaxNow
         /\ devices' \in [DeviceIDs -> Device \cup {Nil}]
         /\ challenges' \in [Nonces -> Challenge \cup {Nil}]
BY SpendType DEF TypeInv, TypeOK, RegistryTypeOK

\* One session changes to a session that fits, and its parties are notified.
LEMMA PublishOne ==
  ASSUME TypeInv, NEW s \in SessionIDs, NEW v \in Session,
         v.state \in {"pending", "active"} =>
           v.epoch <= MaxEpoch /\ (v.state = "pending" => v.epoch = 1),
         Publish([sessions EXCEPT ![s] = v], Parties({s}), {}),
         now' \in 0 .. MaxNow,
         devices' \in [DeviceIDs -> Device \cup {Nil}],
         challenges' \in [Nonces -> Challenge \cup {Nil}]
  PROVE  TypeInv'
<1>1. Fits([sessions EXCEPT ![s] = v])
  BY DEF Fits, TypeInv, TypeOK, EpochRoom, Open, Exists
<1>2. \A d \in DeviceIDs, t \in SessionIDs :
        <<d, t>> \in Parties({s}) => [sessions EXCEPT ![s] = v][t] \in Session
  BY DEF Parties, TypeInv, TypeOK
<1> QED BY <1>1, <1>2, PublishInv

LEMMA DecideInv ==
  ASSUME TypeInv, NEW user \in Users, NEW s \in SessionIDs, NEW approve \in BOOLEAN,
         NEW perms, NEW nonce, NEW signer,
         DecideSession(user, s, approve, perms, nonce, signer)
  PROVE  TypeInv'
<1>1. Spend(nonce) /\ UNCHANGED <<now, devices>> /\ Exists(s)
  BY DEF DecideSession, TargetRequest, AtTarget
<1>2. CASE UNCHANGED <<sessions, told, peers>>
  BY <1>1, <1>2, RefusedInv
<1>3. CASE Open(s) /\ End({s}, "rejected", {})
  BY <1>1, <1>3, TargetFrame, EndInv
<1>4. CASE /\ sessions[s].state = "pending" /\ Grantable(s, perms)
           /\ Publish([sessions EXCEPT ![s] = Approved(sessions[s], perms)], Parties({s}), {})
  <2>1. sessions[s] \in Session /\ sessions[s].epoch = 1 /\ now \in Int
    BY <1>1, <1>4 DEF TypeInv, TypeOK, RegistryTypeOK, EpochRoom, Open, Exists
  <2>2. perms \in SUBSET Permissions
    BY <1>4 DEF Grantable, ValidPermissions
  <2>3. /\ Approved(sessions[s], perms) \in Session
        /\ Approved(sessions[s], perms).state = "active"
        /\ Approved(sessions[s], perms).epoch = 2
    BY <2>1, <2>2, ApprovedType
  <2> QED BY <1>1, <1>4, <2>3, TargetFrame, PublishOne, SessionsAssumption
<1> QED BY <1>1, <1>2, <1>3, <1>4 DEF DecideSession, TargetRequest, Open

LEMMA ChangeInv ==
  ASSUME TypeInv, NEW user \in Users, NEW s \in SessionIDs,
         NEW perms, NEW nonce, NEW signer,
         ChangePermissions(user, s, perms, nonce, signer)
  PROVE  TypeInv'
<1>1. Spend(nonce) /\ UNCHANGED <<now, devices>> /\ Exists(s)
  BY DEF ChangePermissions, TargetRequest, AtTarget
<1>2. CASE UNCHANGED <<sessions, told, peers>>
  BY <1>1, <1>2, RefusedInv
<1>3. CASE Open(s) /\ End({s}, "revoked", {})
  BY <1>1, <1>3, TargetFrame, EndInv
<1>4. CASE /\ sessions[s].state = "active" /\ Grantable(s, perms)
           /\ sessions[s].epoch < MaxEpoch
           /\ Publish([sessions EXCEPT ![s] = Regranted(sessions[s], perms)], Parties({s}), {})
  <2>1. sessions[s] \in Session
    BY <1>1 DEF TypeInv, TypeOK, Exists
  <2>2. perms \in SUBSET Permissions
    BY <1>4 DEF Grantable, ValidPermissions
  <2>3. /\ Regranted(sessions[s], perms) \in Session
        /\ Regranted(sessions[s], perms).state = "active"
        /\ Regranted(sessions[s], perms).epoch = sessions[s].epoch + 1
    BY <1>4, <2>1, <2>2, RegrantedType
  <2>4. sessions[s].epoch + 1 <= MaxEpoch
    BY <1>4, <2>1, SessionsAssumption DEF Session
  <2> QED BY <1>1, <1>4, <2>3, <2>4, TargetFrame, PublishOne
<1> QED BY <1>1, <1>2, <1>3, <1>4 DEF ChangePermissions, TargetRequest, Open

LEMMA HandoverInv ==
  ASSUME TypeInv, NEW user \in Users, NEW s \in SessionIDs, NEW nonce, NEW signer,
         Handover(user, s, nonce, signer)
  PROVE  TypeInv'
<1>1. Spend(nonce) /\ UNCHANGED <<now, devices>> /\ Exists(s)
  BY DEF Handover, TargetRequest, AtTarget
<1>2. CASE UNCHANGED <<sessions, told, peers>>
  BY <1>1, <1>2, RefusedInv
<1>3. CASE /\ sessions[s].state = "active"
           /\ \A t \in Rivals(s) \cup {s} : sessions[t].epoch < MaxEpoch
           /\ Publish(HandedOver(s), Parties(Rivals(s) \cup {s}), {})
  <2>1. \A t \in Rivals(s) \cup {s} :
          /\ t \in SessionIDs /\ sessions[t] \in Session /\ sessions[t].epoch < MaxEpoch
          /\ sessions[t].state = "active"
    BY <1>1, <1>3 DEF Rivals, Active, Exists, TypeInv, TypeOK
  <2>2. \A t \in Rivals(s) : Demoted(sessions[t]) \in Session
          /\ Demoted(sessions[t]).epoch = sessions[t].epoch + 1
          /\ Demoted(sessions[t]).state = "active"
    BY <2>1, DemotedType
  <2>3. /\ Promoted(sessions[s]) \in Session
        /\ Promoted(sessions[s]).epoch = sessions[s].epoch + 1
        /\ Promoted(sessions[s]).state = "active"
    BY <2>1, PromotedType
  <2>4. \A t \in Rivals(s) \cup {s} : sessions[t].epoch + 1 <= MaxEpoch
    BY <2>1, SessionsAssumption DEF Session
  <2>5. \A t \in SessionIDs : HandedOver(s)[t] =
          IF t = s THEN Promoted(sessions[s])
          ELSE IF t \in Rivals(s) THEN Demoted(sessions[t]) ELSE sessions[t]
    BY DEF HandedOver
  <2>6. HandedOver(s) \in [SessionIDs -> Session \cup {Nil}]
    BY <2>2, <2>3 DEF HandedOver, TypeInv, TypeOK
  <2>7. Fits(HandedOver(s))
    BY <2>2, <2>3, <2>4, <2>5, <2>6 DEF Fits, TypeInv, EpochRoom, Open, Exists
  <2>8. \A d \in DeviceIDs, t \in SessionIDs :
          <<d, t>> \in Parties(Rivals(s) \cup {s}) => HandedOver(s)[t] \in Session
    <3>1. \A d \in DeviceIDs, t \in SessionIDs :
            <<d, t>> \in Parties(Rivals(s) \cup {s}) => t \in Rivals(s) \cup {s}
      BY DEF Parties
    <3> QED BY <2>2, <2>3, <2>5, <3>1
  <2> QED BY <1>1, <1>3, <2>7, <2>8, TargetFrame, PublishInv
<1> QED BY <1>1, <1>2, <1>3 DEF Handover, TargetRequest
-----------------------------------------------------------------------------
LEMMA RevokeInv ==
  ASSUME TypeInv, NEW user \in Users, NEW d \in DeviceIDs, RevokeDevice(user, d)
  PROVE  TypeInv'
<1> DEFINE S == {s \in SessionIDs : Open(s) /\ d \in {sessions[s].source, sessions[s].target}}
<1>1. devices' \in [DeviceIDs -> Device \cup {Nil}]
  <2>1. devices[d] \in Device
    BY DEF RevokeDevice, Owns, Registered, TypeInv, TypeOK, RegistryTypeOK
  <2>2. [devices[d] EXCEPT !.revoked = TRUE] \in Device
    BY <2>1 DEF Device
  <2>3. devices' = [devices EXCEPT ![d] = [devices[d] EXCEPT !.revoked = TRUE]]
    BY DEF RevokeDevice
  <2> QED BY <2>2, <2>3 DEF TypeInv, TypeOK, RegistryTypeOK
<1>2. End(S, "revoked", {d})
  BY DEF RevokeDevice
<1>3. now' \in 0 .. MaxNow /\ challenges' \in [Nonces -> Challenge \cup {Nil}]
  BY DEF RevokeDevice, TypeInv, TypeOK, RegistryTypeOK
<1>4. \A s \in S : Open(s)
  OBVIOUS
<1> HIDE DEF S
<1> QED BY <1>1, <1>2, <1>3, <1>4, EndInv DEF S

LEMMA InvalidateInv ==
  ASSUME TypeInv, NEW user \in Users, Invalidate(user)
  PROVE  TypeInv'
<1> DEFINE gone == {s \in SessionIDs : Open(s) /\ Visible(s, user)}
<1>1. PICK hangup : End(gone, "closed", hangup)
  BY DEF Invalidate
<1>2. /\ now' \in 0 .. MaxNow
      /\ devices' \in [DeviceIDs -> Device \cup {Nil}]
      /\ challenges' \in [Nonces -> Challenge \cup {Nil}]
  BY DEF Invalidate, TypeInv, TypeOK, RegistryTypeOK
<1> QED BY <1>1, <1>2, EndInv

LEMMA ExpireInv ==
  ASSUME TypeInv, Expire
  PROVE  TypeInv'
<1> DEFINE due == {s \in SessionIDs : Due(s)}
<1>1. \A s \in due : Open(s)
  BY DEF Due
<1>2. End(due, "expired", {})
  BY DEF Expire
<1>3. /\ now' \in 0 .. MaxNow
      /\ devices' \in [DeviceIDs -> Device \cup {Nil}]
      /\ challenges' \in [Nonces -> Challenge \cup {Nil}]
  BY DEF Expire, TypeInv, TypeOK, RegistryTypeOK
<1> QED BY <1>1, <1>2, <1>3, EndInv

\* The steps that change the registry and no session.
LEMMA RegistryInv ==
  ASSUME TypeInv,
         \/ \E user \in Users, nonce \in Nonces, signer \in Keys :
              RegisterDevice(user, signer, nonce, signer) /\ UNCHANGED <<sessions, told>>
         \/ \E user \in Users, nonce \in Nonces :
              NewChallenge(user, nonce) /\ UNCHANGED <<sessions, told>>
         \/ ConnectionNext
         \/ Tick /\ UNCHANGED <<sessions, told>>
  PROVE  TypeInv'
<1>1. sessions' = sessions
  BY DEF ConnectionNext, Reset
<1>2. EpochRoom'
  BY <1>1 DEF TypeInv, EpochRoom, Open, Exists
<1>3. told' \in [DeviceIDs -> [SessionIDs -> 0 .. MaxEpoch + 1]]
  BY SessionsAssumption DEF ConnectionNext, Reset, Untold, TypeInv, TypeOK
<1>4. now' \in 0 .. MaxNow
  BY RegistryAssumption DEF RegisterDevice, NewChallenge, ConnectionNext,
     Connect, Disconnect, Tick, TypeInv, TypeOK, RegistryTypeOK
<1>5. peers' \in [DeviceIDs -> {"absent", "open", "closing"}]
  BY DEF RegisterDevice, NewChallenge, ConnectionNext, Connect, Disconnect, Tick,
     TypeInv, TypeOK, RegistryTypeOK
<1>6. challenges' \in [Nonces -> Challenge \cup {Nil}]
  BY RegistryAssumption DEF RegisterDevice, NewChallenge, ConnectionNext,
     Connect, Disconnect, Tick, Spend, Challenge, TypeInv, TypeOK, RegistryTypeOK
<1>7. devices' \in [DeviceIDs -> Device \cup {Nil}]
  <2>1. \A user \in Users, key \in Keys :
          [owner |-> user, key |-> key, revoked |-> FALSE, lastSeen |-> ZeroTime] \in Device
    BY RegistryAssumption DEF Device, ZeroTime
  <2> QED BY <2>1 DEF RegisterDevice, NewChallenge, ConnectionNext, Connect,
          Disconnect, Tick, TypeInv, TypeOK, RegistryTypeOK
<1> QED BY <1>1, <1>2, <1>3, <1>4, <1>5, <1>6, <1>7
    DEF TypeInv, TypeOK, RegistryTypeOK

LEMMA StutterInv == TypeInv /\ UNCHANGED vars => TypeInv'
BY DEF vars, TypeInv, TypeOK, RegistryTypeOK, EpochRoom, Open, Exists

LEMMA InitType == Init => TypeInv
<1> SUFFICES ASSUME Init PROVE TypeInv
  OBVIOUS
<1>1. RegistryTypeOK
  BY RegistryAssumption, SeedAssumption DEF Init, RegistryInit, RegistryTypeOK
<1>2. 0 \in 0 .. MaxEpoch + 1
  BY SessionsAssumption
<1> QED BY <1>1, <1>2 DEF Init, Untold, TypeInv, TypeOK, EpochRoom, Open, Exists

LEMMA NextType == TypeInv /\ [Next]_vars => TypeInv'
<1> SUFFICES ASSUME TypeInv, [Next]_vars PROVE TypeInv'
  OBVIOUS
<1>1. CASE RequestNext
  BY <1>1, RegistryInv, RequestInv, DecideInv, ChangeInv, HandoverInv DEF RequestNext
<1>2. CASE UserNext
  <2>1. ASSUME NEW user \in Users, NEW s \in SessionIDs, StopSession(user, s)
        PROVE  TypeInv'
    BY <2>1, EndInv DEF StopSession, TypeInv, TypeOK, RegistryTypeOK
  <2> QED BY <1>2, <2>1, RegistryInv, RevokeInv, InvalidateInv DEF UserNext
<1>3. CASE ConnectionNext
  BY <1>3, RegistryInv
<1>4. CASE Expire
  BY <1>4, ExpireInv
<1>5. CASE Tick /\ UNCHANGED <<sessions, told>>
  BY <1>5, RegistryInv
<1>6. CASE UNCHANGED vars
  BY <1>6, StutterInv
<1> QED BY <1>1, <1>2, <1>3, <1>4, <1>5, <1>6 DEF Next

(***************************************************************************)
(* Every variable keeps its type: in particular no grant ever holds a      *)
(* permission the server does not know.                                    *)
(***************************************************************************)
THEOREM TypeCorrect == Spec => []TypeOK
<1>1. Spec => []TypeInv
  BY InitType, NextType, PTL DEF Spec
<1>2. TypeInv => TypeOK
  BY DEF TypeInv
<1> QED BY <1>1, <1>2, PTL
-----------------------------------------------------------------------------
(* What a step can do to the sessions.  Each property below follows from   *)
(* these six cases.                                                        *)

\* The owner of the target of s has proved, with this step's request, that
\* it speaks for a live target.
Consented(s) == \E user \in Users, nonce \in Nonces, signer \in Keys :
  /\ AtTarget(user, s)
  /\ ProofOK(user, devices[sessions[s].target].key, nonce, signer)
  /\ Spend(nonce)

Creation(s, v) ==
  /\ ~Exists(s) /\ sessions' = [sessions EXCEPT ![s] = v]
  /\ v.state = "pending" /\ v.granted = {} /\ v.epoch = 1
  /\ v.expires = now + PendingTTL
  /\ Trusted(v.source) /\ Trusted(v.target)
  /\ Owns(v.operator, v.source) /\ v.source # v.target
  /\ MayOpen(v.operator, v.target)
  /\ UNCHANGED devices

Ending(S, state) == (\A s \in S : Open(s)) /\ sessions' = Ended(S, state)

Approval(s, perms) ==
  /\ Consented(s) /\ Exists(s) /\ sessions[s].state = "pending" /\ Grantable(s, perms)
  /\ sessions' = [sessions EXCEPT ![s] = Approved(sessions[s], perms)]

Change(s, perms) ==
  /\ Consented(s) /\ Active(s) /\ Grantable(s, perms) /\ sessions[s].epoch < MaxEpoch
  /\ sessions' = [sessions EXCEPT ![s] = Regranted(sessions[s], perms)]

Transfer(s) ==
  /\ Consented(s) /\ Active(s) /\ Controls(sessions[s].requested)
  /\ \A t \in Rivals(s) \cup {s} : sessions[t].epoch < MaxEpoch
  /\ sessions' = HandedOver(s)

SessionStep ==
  \/ UNCHANGED sessions
  \/ \E s \in SessionIDs, v \in Session : Creation(s, v)
  \/ \E S \in SUBSET SessionIDs, state \in {"rejected", "revoked", "closed", "expired"} :
       Ending(S, state)
  \/ \E s \in SessionIDs, perms \in SUBSET Permissions : Approval(s, perms)
  \/ \E s \in SessionIDs, perms \in SUBSET Permissions : Change(s, perms)
  \/ \E s \in SessionIDs : Transfer(s)

LEMMA RequestStep ==
  ASSUME TypeInv,
         NEW user \in Users, NEW source \in DeviceIDs, NEW target \in DeviceIDs,
         NEW want, NEW nonce, NEW signer,
         RequestSession(user, source, target, want, nonce, signer)
  PROVE  SessionStep
<1> DEFINE v == [operator |-> user, source |-> source, target |-> target,
                 state |-> "pending", requested |-> want, granted |-> {},
                 expires |-> now + PendingTTL, epoch |-> 1]
<1>1. CASE UNCHANGED sessions
  BY <1>1 DEF SessionStep
<1>2. CASE ~UNCHANGED sessions
  <2>1. PICK s \in SessionIDs : /\ ~Exists(s) /\ ValidPermissions(want)
                                /\ sessions' = [sessions EXCEPT ![s] = v]
    BY <1>2 DEF RequestSession, Publish
  <2>2. v \in Session
    BY <2>1, SessionsAssumption
    DEF Session, States, ValidPermissions, TypeInv, TypeOK, RegistryTypeOK
  <2>3. /\ Trusted(source) /\ Trusted(target) /\ Owns(user, source) /\ source # target
        /\ UNCHANGED devices
    BY DEF RequestSession, Live, Trusted
  <2>5. MayOpen(user, target)
    BY <1>2 DEF RequestSession
  <2>4. Creation(s, v)
    BY <2>1, <2>3, <2>5 DEF Creation
  <2> HIDE DEF v
  <2> QED BY <2>2, <2>4 DEF SessionStep
<1> QED BY <1>1, <1>2

LEMMA DecideStep ==
  ASSUME TypeInv, NEW user \in Users, NEW s \in SessionIDs, NEW approve \in BOOLEAN,
         NEW perms, NEW nonce \in Nonces, NEW signer \in Keys,
         DecideSession(user, s, approve, perms, nonce, signer)
  PROVE  SessionStep
<1>1. CASE UNCHANGED sessions
  BY <1>1 DEF SessionStep
<1>2. CASE Open(s) /\ sessions' = Ended({s}, "rejected")
  <2>1. Ending({s}, "rejected")
    BY <1>2 DEF Ending
  <2> QED BY <2>1 DEF SessionStep
<1>3. CASE /\ Exists(s) /\ sessions[s].state = "pending" /\ Grantable(s, perms)
           /\ Consented(s)
           /\ sessions' = [sessions EXCEPT ![s] = Approved(sessions[s], perms)]
  <2>1. perms \in SUBSET Permissions
    BY <1>3 DEF Grantable, ValidPermissions
  <2>2. Approval(s, perms)
    BY <1>3 DEF Approval
  <2> QED BY <2>1, <2>2 DEF SessionStep
<1> QED BY <1>1, <1>2, <1>3
    DEF DecideSession, TargetRequest, AtTarget, Consented, Open, End, Publish

LEMMA ChangeStep ==
  ASSUME TypeInv, NEW user \in Users, NEW s \in SessionIDs,
         NEW perms, NEW nonce \in Nonces, NEW signer \in Keys,
         ChangePermissions(user, s, perms, nonce, signer)
  PROVE  SessionStep
<1>1. CASE UNCHANGED sessions
  BY <1>1 DEF SessionStep
<1>2. CASE Open(s) /\ sessions' = Ended({s}, "revoked")
  <2>1. Ending({s}, "revoked")
    BY <1>2 DEF Ending
  <2> QED BY <2>1 DEF SessionStep
<1>3. CASE /\ Active(s) /\ Grantable(s, perms) /\ sessions[s].epoch < MaxEpoch
           /\ Consented(s)
           /\ sessions' = [sessions EXCEPT ![s] = Regranted(sessions[s], perms)]
  <2>1. perms \in SUBSET Permissions
    BY <1>3 DEF Grantable, ValidPermissions
  <2>2. Change(s, perms)
    BY <1>3 DEF Change
  <2> QED BY <2>1, <2>2 DEF SessionStep
<1> QED BY <1>1, <1>2, <1>3
    DEF ChangePermissions, TargetRequest, AtTarget, Consented, Open, Active, End, Publish

LEMMA HandoverStep ==
  ASSUME TypeInv, NEW user \in Users, NEW s \in SessionIDs,
         NEW nonce \in Nonces, NEW signer \in Keys,
         Handover(user, s, nonce, signer)
  PROVE  SessionStep
<1>1. CASE UNCHANGED sessions
  BY <1>1 DEF SessionStep
<1>2. CASE ~UNCHANGED sessions
  <2>1. Transfer(s)
    BY <1>2 DEF Handover, TargetRequest, AtTarget, Consented, Transfer, Active, Publish
  <2> QED BY <2>1 DEF SessionStep
<1> QED BY <1>1, <1>2

LEMMA NextStep == TypeInv /\ [Next]_vars => SessionStep
<1> SUFFICES ASSUME TypeInv, [Next]_vars PROVE SessionStep
  OBVIOUS
<1>1. ASSUME NEW S \in SUBSET SessionIDs, \A s \in S : Open(s), NEW hangup,
             NEW state \in {"rejected", "revoked", "closed", "expired"},
             End(S, state, hangup)
      PROVE  SessionStep
  <2>1. Ending(S, state)
    BY <1>1 DEF Ending, End, Publish
  <2> QED BY <2>1 DEF SessionStep
<1>2. CASE RequestNext
  <2>1. ASSUME NEW user \in Users, NEW nonce \in Nonces, NEW signer \in Keys,
               RegisterDevice(user, signer, nonce, signer) /\ UNCHANGED <<sessions, told>>
        PROVE  SessionStep
    BY <2>1 DEF SessionStep
  <2> QED BY <1>2, <2>1, RequestStep, DecideStep, ChangeStep, HandoverStep DEF RequestNext
<1>3. CASE UserNext
  <2>1. ASSUME NEW user \in Users, NEW nonce \in Nonces,
               NewChallenge(user, nonce) /\ UNCHANGED <<sessions, told>>
        PROVE  SessionStep
    BY <2>1 DEF SessionStep
  <2>2. ASSUME NEW user \in Users, NEW s \in SessionIDs, StopSession(user, s)
        PROVE  SessionStep
    <3>1. End({s}, "closed", {}) /\ \A r \in {s} : Open(r)
      BY <2>2 DEF StopSession
    <3> QED BY <1>1, <3>1
  <2>3. ASSUME NEW user \in Users, NEW d \in DeviceIDs, RevokeDevice(user, d)
        PROVE  SessionStep
    <3> DEFINE S == {s \in SessionIDs :
                       Open(s) /\ d \in {sessions[s].source, sessions[s].target}}
    <3>1. End(S, "revoked", {d})
      BY <2>3 DEF RevokeDevice
    <3>2. S \in SUBSET SessionIDs /\ \A s \in S : Open(s)
      OBVIOUS
    <3> HIDE DEF S
    <3> QED BY <1>1, <3>1, <3>2
  <2>4. ASSUME NEW user \in Users, Invalidate(user)
        PROVE  SessionStep
    <3> DEFINE S == {s \in SessionIDs : Open(s) /\ Visible(s, user)}
    <3>1. PICK hangup : End(S, "closed", hangup)
      BY <2>4 DEF Invalidate
    <3>2. S \in SUBSET SessionIDs /\ \A s \in S : Open(s)
      OBVIOUS
    <3> HIDE DEF S
    <3> QED BY <1>1, <3>1, <3>2
  <2>5. PICK user \in Users :
          \/ \E nonce \in Nonces : NewChallenge(user, nonce) /\ UNCHANGED <<sessions, told>>
          \/ \E s \in SessionIDs : StopSession(user, s)
          \/ \E d \in DeviceIDs : RevokeDevice(user, d)
          \/ Invalidate(user)
    BY <1>3 DEF UserNext
  <2> QED BY <2>1, <2>2, <2>3, <2>4, <2>5
<1>4. CASE Expire
  BY <1>1, <1>4 DEF Expire, Due
<1>5. CASE ConnectionNext
  BY <1>5 DEF ConnectionNext, Reset, SessionStep
<1>6. CASE Tick /\ UNCHANGED <<sessions, told>>
  BY <1>6 DEF SessionStep
<1>7. CASE UNCHANGED vars
  BY <1>7 DEF vars, SessionStep
<1> QED BY <1>2, <1>3, <1>4, <1>5, <1>6, <1>7 DEF Next
-----------------------------------------------------------------------------
(* What becomes of one session in each of the cases.                       *)

\* A session that exists is the same, has ended, or is active with a grant
\* that its own terms allow; only an approval moves its deadline.
LEMMA OneSessionStep ==
  ASSUME TypeInv, SessionStep, NEW s \in SessionIDs, Exists(s), sessions'[s] # sessions[s]
  PROVE  /\ Open(s) /\ sessions'[s] \in Session
         /\ sessions'[s].epoch = sessions[s].epoch + 1
         /\ sessions'[s].operator = sessions[s].operator
         /\ sessions'[s].source = sessions[s].source
         /\ sessions'[s].target = sessions[s].target
         /\ sessions'[s].requested = sessions[s].requested
         /\ \/ /\ sessions'[s].state \notin {"pending", "active"}
               /\ sessions'[s].granted = {}
            \/ /\ sessions'[s].state = "active"
               /\ \E perms \in SUBSET Permissions :
                    /\ Grantable(s, perms) /\ Consented(s) /\ sessions'[s].granted = perms
                    /\ \A t \in SessionIDs \ {s} : sessions'[t] = sessions[t]
            \/ /\ sessions'[s].state = "active" /\ Active(s) /\ Transfer(s)
               /\ sessions'[s].granted =
                    sessions[s].granted \cup (sessions[s].requested \cap ControlPermissions)
            \/ /\ sessions'[s].state = "active" /\ Active(s)
               /\ sessions'[s].granted = sessions[s].granted \ ControlPermissions
<1> DEFINE Goal ==
         /\ Open(s) /\ sessions'[s] \in Session
         /\ sessions'[s].epoch = sessions[s].epoch + 1
         /\ sessions'[s].operator = sessions[s].operator
         /\ sessions'[s].source = sessions[s].source
         /\ sessions'[s].target = sessions[s].target
         /\ sessions'[s].requested = sessions[s].requested
         /\ \/ /\ sessions'[s].state \notin {"pending", "active"}
               /\ sessions'[s].granted = {}
            \/ /\ sessions'[s].state = "active"
               /\ \E perms \in SUBSET Permissions :
                    /\ Grantable(s, perms) /\ Consented(s) /\ sessions'[s].granted = perms
                    /\ \A t \in SessionIDs \ {s} : sessions'[t] = sessions[t]
            \/ /\ sessions'[s].state = "active" /\ Active(s) /\ Transfer(s)
               /\ sessions'[s].granted =
                    sessions[s].granted \cup (sessions[s].requested \cap ControlPermissions)
            \/ /\ sessions'[s].state = "active" /\ Active(s)
               /\ sessions'[s].granted = sessions[s].granted \ ControlPermissions
<1>1. sessions[s] \in Session /\ sessions \in [SessionIDs -> Session \cup {Nil}]
  BY DEF Exists, TypeInv, TypeOK
<1>2. ASSUME NEW t \in SessionIDs, NEW v \in Session, Creation(t, v)
      PROVE  Goal
  BY <1>1, <1>2 DEF Creation, Exists
<1>3. ASSUME NEW S \in SUBSET SessionIDs, Ending(S, "rejected") \/ Ending(S, "revoked")
               \/ Ending(S, "closed") \/ Ending(S, "expired")
      PROVE  Goal
  <2>1. PICK state \in {"rejected", "revoked", "closed", "expired"} : Ending(S, state)
    BY <1>3
  <2>2. (\A t \in S : Open(t)) /\ sessions' = Ended(S, state)
    BY <2>1 DEF Ending
  <2>3. s \in S
    BY <2>2 DEF Ended
  <2> QED BY <2>2, <2>3, EndedType
<1>4. ASSUME NEW t \in SessionIDs, NEW perms \in SUBSET Permissions, Approval(t, perms)
      PROVE  Goal
  <2>1. t = s /\ sessions'[s] = Approved(sessions[s], perms)
             /\ \A r \in SessionIDs \ {s} : sessions'[r] = sessions[r]
    BY <1>1, <1>4 DEF Approval
  <2>2. sessions[s].epoch = 1 /\ Open(s) /\ now \in Int
    BY <1>4, <2>1 DEF Approval, TypeInv, TypeOK, RegistryTypeOK, EpochRoom, Open
  <2> QED BY <1>1, <1>4, <2>1, <2>2, ApprovedType DEF Approval
<1>5. ASSUME NEW t \in SessionIDs, NEW perms \in SUBSET Permissions, Change(t, perms)
      PROVE  Goal
  <2>1. t = s /\ sessions'[s] = Regranted(sessions[s], perms)
             /\ \A r \in SessionIDs \ {s} : sessions'[r] = sessions[r]
    BY <1>1, <1>5 DEF Change
  <2> QED BY <1>1, <1>5, <2>1, RegrantedType DEF Change, Open, Active
<1>6. ASSUME NEW t \in SessionIDs, Transfer(t)
      PROVE  Goal
  <2>1. CASE s = t
    <3>1. sessions'[s] = Promoted(sessions[s])
      BY <1>6, <2>1 DEF Transfer, HandedOver
    <3>2. Active(s) /\ Open(s) /\ sessions[s].epoch < MaxEpoch
      BY <1>6, <2>1 DEF Transfer, Active, Open
    <3> QED BY <1>1, <1>6, <2>1, <3>1, <3>2, PromotedType DEF Active
  <2>2. CASE s # t
    <3>1. s \in Rivals(t) /\ sessions'[s] = Demoted(sessions[s])
      BY <1>6, <2>2 DEF Transfer, HandedOver
    <3>2. Active(s) /\ Open(s) /\ sessions[s].epoch < MaxEpoch
      BY <1>6, <3>1 DEF Transfer, Rivals, Active, Open
    <3> QED BY <1>1, <3>1, <3>2, DemotedType DEF Active
  <2> QED BY <2>1, <2>2
<1>7. Goal
  <2> HIDE DEF Goal
  <2>1. sessions' # sessions
    OBVIOUS
  <2> QED BY <1>2, <1>3, <1>4, <1>5, <1>6, <2>1 DEF SessionStep
<1> QED BY <1>7
\* A session that comes into being is pending and grants nothing.
LEMMA NewSessionStep ==
  ASSUME TypeInv, SessionStep, NEW s \in SessionIDs, ~Exists(s), sessions'[s] # sessions[s]
  PROVE  /\ sessions'[s] \in Session /\ sessions'[s].granted = {}
         /\ sessions'[s].state = "pending" /\ sessions'[s].expires = now + PendingTTL
         /\ Trusted(sessions'[s].source) /\ Trusted(sessions'[s].target)
         /\ Owns(sessions'[s].operator, sessions'[s].source)
         /\ sessions'[s].source # sessions'[s].target
         /\ MayOpen(sessions'[s].operator, sessions'[s].target)
         /\ \A t \in SessionIDs \ {s} : sessions'[t] = sessions[t]
         /\ UNCHANGED devices
<1>1. sessions \in [SessionIDs -> Session \cup {Nil}]
  BY DEF TypeInv, TypeOK
<1>2. ASSUME NEW S \in SUBSET SessionIDs, NEW state, Ending(S, state)
      PROVE  FALSE
  BY <1>2 DEF Ending, Ended, Open
<1>3. ASSUME NEW t \in SessionIDs, NEW perms, Approval(t, perms) \/ Change(t, perms)
      PROVE  FALSE
  BY <1>1, <1>3 DEF Approval, Change, Active
<1>4. ASSUME NEW t \in SessionIDs, Transfer(t)
      PROVE  FALSE
  BY <1>1, <1>4 DEF Transfer, HandedOver, Rivals, Active
<1>5. PICK t \in SessionIDs, v \in Session : Creation(t, v)
  <2>1. sessions' # sessions
    OBVIOUS
  <2> QED BY <1>2, <1>3, <1>4, <2>1 DEF SessionStep
<1> QED BY <1>1, <1>5 DEF Creation

-----------------------------------------------------------------------------
(* Safety.                                                                 *)

LEMMA ConsentStep == TypeInv /\ ConsentBounds /\ SessionStep => ConsentBounds'
<1> SUFFICES ASSUME TypeInv, ConsentBounds, SessionStep, NEW s \in SessionIDs, Exists(s)'
             PROVE  /\ sessions'[s].granted \subseteq sessions'[s].requested
                    /\ IF Active(s)' THEN "view" \in sessions'[s].granted
                                     ELSE sessions'[s].granted = {}
  BY DEF ConsentBounds
<1>1. CASE sessions'[s] = sessions[s]
  BY <1>1 DEF ConsentBounds, Active, Exists
<1>2. CASE sessions'[s] # sessions[s] /\ ~Exists(s)
  BY <1>2, NewSessionStep DEF Active, Exists, Session
<1>3. CASE sessions'[s] # sessions[s] /\ Exists(s)
  BY <1>3, OneSessionStep
  DEF ConsentBounds, Grantable, ValidPermissions, Active, Exists, Session, ControlPermissions
<1> QED BY <1>1, <1>2, <1>3

(***************************************************************************)
(* Every session, in every instance, grants only what its operator asked   *)
(* for, and nothing before its approval or after its end.                  *)
(***************************************************************************)
THEOREM ConsentHolds == Spec => []ConsentBounds
<1>1. Init => TypeInv /\ ConsentBounds
  BY InitType DEF Init, ConsentBounds, Exists
<1>2. TypeInv /\ ConsentBounds /\ [Next]_vars => (TypeInv /\ ConsentBounds)'
  BY NextType, NextStep, ConsentStep
<1> QED BY <1>1, <1>2, PTL DEF Spec

\* The sessions that control a device.
InControl(s) == Active(s) /\ Controls(sessions[s].granted)

LEMMA ControllerStep == TypeInv /\ OneController /\ SessionStep => OneController'
<1> SUFFICES ASSUME TypeInv, OneController, SessionStep,
                    NEW s \in SessionIDs, NEW t \in SessionIDs, s # t,
                    InControl(s)', InControl(t)', sessions'[s].target = sessions'[t].target
             PROVE  FALSE
  BY DEF OneController, InControl
<1>1. ASSUME NEW r \in SessionIDs, InControl(r)'
      PROVE  /\ Exists(r) /\ sessions[r].target = sessions'[r].target
             /\ \/ InControl(r)
                \/ /\ ~ControllerBusy(r)
                   /\ \A q \in SessionIDs \ {r} : sessions'[q] = sessions[q]
                \/ Transfer(r)
  <2>1. CASE sessions'[r] = sessions[r]
    BY <1>1, <2>1 DEF InControl, Active, Exists
  <2>2. CASE sessions'[r] # sessions[r] /\ ~Exists(r)
    BY <1>1, <2>2, NewSessionStep DEF InControl, Active
  <2>3. CASE sessions'[r] # sessions[r] /\ Exists(r)
    BY <1>1, <2>3, OneSessionStep DEF InControl, Active, Grantable, Controls
  <2> QED BY <2>1, <2>2, <2>3
<1>2. ASSUME NEW r \in SessionIDs, NEW q \in SessionIDs, r # q, Transfer(r),
             InControl(q)', Exists(r), Exists(q), sessions[r].target = sessions[q].target
      PROVE  FALSE
  <2>1. sessions' = HandedOver(r) /\ sessions[q] \in Session
    BY <1>2 DEF Transfer, TypeInv, TypeOK, Exists
  <2>2. CASE q \in Rivals(r)
    <3>1. sessions'[q] = Demoted(sessions[q]) /\ sessions[q].epoch < MaxEpoch
      BY <1>2, <2>1, <2>2 DEF HandedOver, Transfer
    <3>2. sessions'[q].granted = sessions[q].granted \ ControlPermissions
      BY <2>1, <3>1, DemotedType
    <3> QED BY <1>2, <3>2 DEF InControl, Controls
  <2>3. CASE q \notin Rivals(r)
    <3>1. sessions'[q] = sessions[q]
      BY <1>2, <2>1, <2>3 DEF HandedOver
    <3> QED BY <1>2, <2>3, <3>1 DEF Rivals, InControl, Active
  <2> QED BY <2>2, <2>3
<1>3. ASSUME NEW r \in SessionIDs, NEW q \in SessionIDs, r # q, ~ControllerBusy(r),
             InControl(q)', sessions'[q] = sessions[q],
             sessions[r].target = sessions[q].target
      PROVE  FALSE
  BY <1>3 DEF ControllerBusy, InControl, Active, Exists
<1> QED BY <1>1, <1>2, <1>3 DEF OneController, InControl

(***************************************************************************)
(* Control of a device is exclusive: whatever the number of operators and  *)
(* sessions, at most one session controls it.                              *)
(***************************************************************************)
THEOREM ControlIsExclusive == Spec => []OneController
<1>1. Init => TypeInv /\ OneController
  BY InitType DEF Init, OneController, Active, Exists
<1>2. TypeInv /\ OneController /\ [Next]_vars => (TypeInv /\ OneController)'
  BY NextType, NextStep, ControllerStep
<1> QED BY <1>1, <1>2, PTL DEF Spec

-----------------------------------------------------------------------------
(* What a step may never do.                                               *)

LEMMA GrowthIsConsented ==
  ASSUME TypeInv, SessionStep, NEW s \in SessionIDs, Grows(s)
  PROVE  Exists(s) /\ Consented(s)
<1>1. sessions'[s] # sessions[s]
  BY DEF Grows, Before, Exists
<1>2. Exists(s)
  BY <1>1, NewSessionStep DEF Grows, Before
<1>3. \/ \E perms \in SUBSET Permissions : Grantable(s, perms) /\ Consented(s)
      \/ Transfer(s)
  BY <1>1, <1>2, OneSessionStep DEF Grows, Before
<1> QED BY <1>2, <1>3 DEF Transfer

(***************************************************************************)
(* No grant grows without a live challenge of the target's owner that the  *)
(* step itself spends.                                                     *)
(***************************************************************************)
THEOREM GrantsAreProven == Spec => GrantNeedsFreshProof
<1>1. TypeInv /\ [Next]_vars => [GrantSpendsChallenge]_vars
  <2> SUFFICES ASSUME TypeInv, [Next]_vars, NEW s \in SessionIDs, Grows(s)
               PROVE  \E n \in Nonces :
                        /\ challenges[n] # Nil /\ challenges'[n] = Nil
                        /\ Exists(s) /\ Owns(challenges[n].user, sessions[s].target)
                        /\ now < challenges[n].expires
    BY DEF GrantSpendsChallenge
  <2>1. Exists(s) /\ Consented(s)
    BY NextStep, GrowthIsConsented
  <2> QED BY <2>1 DEF Consented, AtTarget, ProofOK, Spend, TypeInv, TypeOK, RegistryTypeOK
<1> QED BY <1>1, InitType, NextType, PTL DEF Spec, GrantNeedsFreshProof

(***************************************************************************)
(* A step that changes a session adds one to its epoch, and an ended       *)
(* session never changes.                                                  *)
(***************************************************************************)
THEOREM EpochsOrder == Spec => EpochOrdersVersions
<1>1. TypeInv /\ [Next]_vars => [NewVersion]_vars
  <2> SUFFICES ASSUME TypeInv, [Next]_vars, NEW s \in SessionIDs, Exists(s),
                      sessions'[s] # sessions[s]
               PROVE  /\ Open(s) /\ sessions'[s] # Nil
                      /\ sessions'[s].epoch = sessions[s].epoch + 1
                      /\ sessions'[s].state # "pending"
                      /\ Terms(sessions'[s]) = Terms(sessions[s])
    BY DEF NewVersion
  <2> QED BY NextStep, OneSessionStep, SessionsAssumption DEF Terms
<1> QED BY <1>1, InitType, NextType, PTL DEF Spec, EpochOrdersVersions
-----------------------------------------------------------------------------
(* Deadlines.  No step stamps LastSeen, so whatever is live is live within *)
(* LiveWindow of the start, before any deadline.                           *)

DeadlineInv ==
  /\ \A d \in DeviceIDs : d \in Registered => devices[d].lastSeen <= 0
  /\ \A s \in SessionIDs : Exists(s) => sessions[s].expires >= LiveWindow

\* A step keeps the deadline of a session or, with an approval, renews it.
LEMMA DeadlineOfStep ==
  ASSUME TypeInv, SessionStep, NEW s \in SessionIDs, Exists(s)
  PROVE  sessions'[s].expires \in {sessions[s].expires, now + ActiveTTL}
<1>1. sessions[s] \in Session /\ sessions \in [SessionIDs -> Session \cup {Nil}]
      /\ now \in Int
  BY DEF Exists, TypeInv, TypeOK, RegistryTypeOK
<1>2. ASSUME NEW t \in SessionIDs, NEW v \in Session, Creation(t, v)
      PROVE  sessions'[s].expires = sessions[s].expires
  BY <1>1, <1>2 DEF Creation, Exists
<1>3. ASSUME NEW S \in SUBSET SessionIDs,
             NEW state \in {"rejected", "revoked", "closed", "expired"}, Ending(S, state)
      PROVE  sessions'[s].expires = sessions[s].expires
  BY <1>3, EndedType DEF Ending
<1>4. ASSUME NEW t \in SessionIDs, NEW perms \in SUBSET Permissions, Approval(t, perms)
      PROVE  sessions'[s].expires \in {sessions[s].expires, now + ActiveTTL}
  <2>1. CASE t = s
    <3>1. sessions[s].epoch = 1 /\ sessions'[s] = Approved(sessions[s], perms)
      BY <1>1, <1>4, <2>1 DEF Approval, TypeInv, EpochRoom, Open
    <3> QED BY <1>1, <3>1, ApprovedType
  <2>2. CASE t # s
    BY <1>1, <1>4, <2>2 DEF Approval
  <2> QED BY <2>1, <2>2
<1>5. ASSUME NEW t \in SessionIDs, NEW perms \in SUBSET Permissions, Change(t, perms)
      PROVE  sessions'[s].expires = sessions[s].expires
  <2>1. CASE t = s
    <3>1. sessions[s].epoch < MaxEpoch /\ sessions'[s] = Regranted(sessions[s], perms)
      BY <1>1, <1>5, <2>1 DEF Change
    <3> QED BY <1>1, <3>1, RegrantedType
  <2>2. CASE t # s
    BY <1>1, <1>5, <2>2 DEF Change
  <2> QED BY <2>1, <2>2
<1>6. ASSUME NEW t \in SessionIDs, Transfer(t)
      PROVE  sessions'[s].expires = sessions[s].expires
  BY <1>1, <1>6, DemotedType, PromotedType DEF Transfer, HandedOver
<1> QED BY <1>2, <1>3, <1>4, <1>5, <1>6 DEF SessionStep

\* What a step can do to the devices.
LEMMA DeviceStep ==
  ASSUME TypeInv, [Next]_vars
  PROVE  \/ UNCHANGED devices
         \/ \E d \in DeviceIDs \ Registered, user \in Users, key \in Keys :
              /\ ~KnownKey(user, key) /\ HasRoom(user)
              /\ \E n \in Nonces : ProofOK(user, key, n, key) /\ Spend(n)
              /\ devices' = [devices EXCEPT ![d] =
                   [owner |-> user, key |-> key, revoked |-> FALSE, lastSeen |-> ZeroTime]]
         \/ \E d \in Registered :
              /\ devices' = [devices EXCEPT ![d] = [devices[d] EXCEPT !.revoked = TRUE]]
              /\ \A s \in SessionIDs :
                   d \in {sessions[s].source, sessions[s].target} => ~Open(s)'
<1> DEFINE Goal ==
         \/ UNCHANGED devices
         \/ \E d \in DeviceIDs \ Registered, user \in Users, key \in Keys :
              /\ ~KnownKey(user, key) /\ HasRoom(user)
              /\ \E n \in Nonces : ProofOK(user, key, n, key) /\ Spend(n)
              /\ devices' = [devices EXCEPT ![d] =
                   [owner |-> user, key |-> key, revoked |-> FALSE, lastSeen |-> ZeroTime]]
         \/ \E d \in Registered :
              /\ devices' = [devices EXCEPT ![d] = [devices[d] EXCEPT !.revoked = TRUE]]
              /\ \A s \in SessionIDs :
                   d \in {sessions[s].source, sessions[s].target} => ~Open(s)'
<1>1. CASE RequestNext
  <2>1. ASSUME NEW user \in Users, NEW nonce \in Nonces, NEW signer \in Keys,
               RegisterDevice(user, signer, nonce, signer)
        PROVE  Goal
    BY <2>1 DEF RegisterDevice
  <2>2. ASSUME NEW user, NEW source, NEW target, NEW want, NEW nonce, NEW signer,
               RequestSession(user, source, target, want, nonce, signer)
        PROVE  Goal
    BY <2>2 DEF RequestSession
  <2>3. ASSUME NEW user, NEW s, NEW approve, NEW perms, NEW nonce, NEW signer,
               \/ DecideSession(user, s, approve, perms, nonce, signer)
               \/ ChangePermissions(user, s, perms, nonce, signer)
               \/ Handover(user, s, nonce, signer)
        PROVE  Goal
    BY <2>3 DEF DecideSession, ChangePermissions, Handover, TargetRequest
  <2> HIDE DEF Goal
  <2>4. Goal
    BY <1>1, <2>1, <2>2, <2>3 DEF RequestNext
  <2> QED BY <2>4 DEF Goal
<1>2. CASE UserNext
  <2>1. ASSUME NEW user \in Users, NEW d \in DeviceIDs, RevokeDevice(user, d)
        PROVE  Goal
    <3> DEFINE S == {s \in SessionIDs :
                       Open(s) /\ d \in {sessions[s].source, sessions[s].target}}
    <3>1. d \in Registered
          /\ devices' = [devices EXCEPT ![d] = [devices[d] EXCEPT !.revoked = TRUE]]
      BY <2>1 DEF RevokeDevice, Owns
    <3>2. sessions' = Ended(S, "revoked")
      BY <2>1 DEF RevokeDevice, End, Publish
    <3>3. S \in SUBSET SessionIDs /\ \A s \in S : Open(s)
      OBVIOUS
    <3>4. ASSUME NEW s \in SessionIDs, d \in {sessions[s].source, sessions[s].target}
          PROVE  ~Open(s)'
      <4>1. CASE s \in S
        <5> HIDE DEF S
        <5>1. Ended(S, "revoked")[s].state = "revoked"
          BY <3>3, <4>1, EndedType
        <5> QED BY <3>2, <5>1 DEF Open
      <4>2. CASE s \notin S
        BY <3>2, <3>4, <4>2 DEF Ended, Open, Exists
      <4> QED BY <4>1, <4>2
    <3> QED BY <3>1, <3>4
  <2>2. ASSUME NEW user \in Users, NEW s \in SessionIDs, StopSession(user, s)
        PROVE  Goal
    BY <2>2 DEF StopSession
  <2>3. ASSUME NEW user \in Users, Invalidate(user)
        PROVE  Goal
    BY <2>3 DEF Invalidate
  <2>4. ASSUME NEW user \in Users, NEW nonce \in Nonces, NewChallenge(user, nonce)
        PROVE  Goal
    BY <2>4 DEF NewChallenge
  <2> HIDE DEF Goal
  <2>5. Goal
    BY <1>2, <2>1, <2>2, <2>3, <2>4 DEF UserNext
  <2> QED BY <2>5 DEF Goal
<1>3. CASE ConnectionNext
  BY <1>3 DEF ConnectionNext, Connect, Disconnect
<1>4. CASE Expire \/ Tick
  BY <1>4 DEF Expire, Tick
<1>5. CASE UNCHANGED vars
  BY <1>5 DEF vars
<1> QED BY <1>1, <1>2, <1>3, <1>4, <1>5 DEF Next

LEMMA DeadlineStep == TypeInv /\ DeadlineInv /\ [Next]_vars => DeadlineInv'
<1> SUFFICES ASSUME TypeInv, DeadlineInv, [Next]_vars PROVE DeadlineInv'
  OBVIOUS
<1>1. ASSUME NEW d \in DeviceIDs, (d \in Registered)' PROVE devices'[d].lastSeen <= 0
  <2>1. devices \in [DeviceIDs -> Device \cup {Nil}]
    BY DEF TypeInv, TypeOK, RegistryTypeOK
  <2>2. CASE UNCHANGED devices
    BY <1>1, <2>2 DEF DeadlineInv, Registered
  <2>3. ASSUME NEW e \in DeviceIDs \ Registered, NEW user \in Users, NEW key \in Keys,
               devices' = [devices EXCEPT ![e] =
                 [owner |-> user, key |-> key, revoked |-> FALSE, lastSeen |-> ZeroTime]]
        PROVE  devices'[d].lastSeen <= 0
    <3>1. ZeroTime <= 0
      BY RegistryAssumption DEF ZeroTime
    <3> QED BY <1>1, <2>1, <2>3, <3>1 DEF DeadlineInv, Registered
  <2>4. ASSUME NEW e \in Registered,
               devices' = [devices EXCEPT ![e] = [devices[e] EXCEPT !.revoked = TRUE]]
        PROVE  devices'[d].lastSeen <= 0
    <3>1. devices[e] \in Device
      BY <2>1, <2>4 DEF Registered
    <3>2. [devices[e] EXCEPT !.revoked = TRUE].lastSeen = devices[e].lastSeen
      BY <3>1 DEF Device
    <3> QED BY <1>1, <2>1, <2>4, <3>2 DEF DeadlineInv, Registered
  <2> QED BY <2>2, <2>3, <2>4, DeviceStep
<1>2. ASSUME NEW s \in SessionIDs, Exists(s)' PROVE sessions'[s].expires >= LiveWindow
  <2>1. now \in Nat /\ LiveWindow \in Int /\ LiveWindow <= PendingTTL
        /\ LiveWindow <= ActiveTTL /\ PendingTTL \in Nat /\ ActiveTTL \in Nat
    BY RegistryAssumption, SessionsAssumption DEF TypeInv, TypeOK, RegistryTypeOK
  <2>2. CASE sessions'[s] = sessions[s]
    BY <1>2, <2>2 DEF DeadlineInv, Exists
  <2>3. CASE sessions'[s] # sessions[s] /\ ~Exists(s)
    BY <2>1, <2>3, NextStep, NewSessionStep
  <2>4. CASE sessions'[s] # sessions[s] /\ Exists(s)
    BY <2>1, <2>4, NextStep, DeadlineOfStep DEF DeadlineInv
  <2> QED BY <2>2, <2>3, <2>4
<1> QED BY <1>1, <1>2 DEF DeadlineInv

(***************************************************************************)
(* No permission is granted on a session past its deadline, although no    *)
(* handler looks at the deadline.                                          *)
(***************************************************************************)
THEOREM GrantsAreInTime == Spec => NoLateGrant
<1>1. Init => TypeInv /\ DeadlineInv
  BY InitType, SeedAssumption DEF Init, RegistryInit, DeadlineInv, Registered, Exists
<1>2. TypeInv /\ DeadlineInv /\ [Next]_vars => (TypeInv /\ DeadlineInv)'
  BY NextType, DeadlineStep
<1>3. TypeInv /\ DeadlineInv /\ [Next]_vars => [GrantInTime]_vars
  <2> SUFFICES ASSUME TypeInv, DeadlineInv, [Next]_vars, NEW s \in SessionIDs,
                      Exists(s), Grows(s)
               PROVE  now < sessions[s].expires
    BY DEF GrantInTime
  <2>1. sessions[s] \in Session /\ sessions[s].target \in DeviceIDs
    BY DEF Exists, TypeInv, TypeOK, Session
  <2>2. Live(sessions[s].target)
    BY NextStep, GrowthIsConsented DEF Consented, AtTarget
  <2>3. devices[sessions[s].target] \in Device
    BY <2>1, <2>2 DEF Live, Registered, TypeInv, TypeOK, RegistryTypeOK
  <2>4. /\ now - devices[sessions[s].target].lastSeen < LiveWindow
        /\ devices[sessions[s].target].lastSeen <= 0
        /\ sessions[s].expires >= LiveWindow
    BY <2>1, <2>2 DEF Live, DeadlineInv
  <2> QED BY <2>1, <2>3, <2>4, RegistryAssumption
      DEF Device, Session, TypeInv, TypeOK, RegistryTypeOK
<1> QED BY <1>1, <1>2, <1>3, PTL DEF Spec, NoLateGrant

-----------------------------------------------------------------------------
(* Devices.                                                                *)

\* Nobody takes a device away or gives it another owner or key, and a device
\* that stops being trusted was revoked, with its open sessions.
LEMMA DeviceSteady ==
  ASSUME TypeInv, [Next]_vars, NEW d \in DeviceIDs, d \in Registered
  PROVE  /\ devices'[d] \in Device
         /\ devices'[d].owner = devices[d].owner /\ devices'[d].key = devices[d].key
         /\ devices[d].revoked => devices'[d].revoked
         /\ \/ devices'[d].revoked = devices[d].revoked
            \/ \A s \in SessionIDs :
                 d \in {sessions[s].source, sessions[s].target} => ~Open(s)'
<1>1. devices \in [DeviceIDs -> Device \cup {Nil}] /\ devices[d] \in Device
  BY DEF Registered, TypeInv, TypeOK, RegistryTypeOK
<1>2. ASSUME NEW e \in DeviceIDs \ Registered, NEW v, devices' = [devices EXCEPT ![e] = v]
      PROVE  devices'[d] = devices[d]
  BY <1>1, <1>2
<1>3. ASSUME NEW e \in Registered,
             devices' = [devices EXCEPT ![e] = [devices[e] EXCEPT !.revoked = TRUE]]
      PROVE  /\ e # d => devices'[d] = devices[d]
             /\ e = d => /\ devices'[d] \in Device /\ devices'[d].revoked
                         /\ devices'[d].owner = devices[d].owner
                         /\ devices'[d].key = devices[d].key
  <2>1. e \in DeviceIDs /\ devices[e] \in Device
    BY <1>1, <1>3 DEF Registered
  <2>2. [devices[e] EXCEPT !.revoked = TRUE] \in Device
        /\ [devices[e] EXCEPT !.revoked = TRUE].revoked
        /\ [devices[e] EXCEPT !.revoked = TRUE].owner = devices[e].owner
        /\ [devices[e] EXCEPT !.revoked = TRUE].key = devices[e].key
    BY <2>1 DEF Device
  <2> QED BY <1>1, <1>3, <2>1, <2>2
<1> QED BY <1>1, <1>2, <1>3, DeviceStep

(***************************************************************************)
(* A registered device keeps its owner and key, and a revoked one is never *)
(* trusted again.                                                          *)
(***************************************************************************)
THEOREM IdentitiesLast == Spec => IdentityIsForever
<1>1. TypeInv /\ [Next]_vars => [SameIdentity]_registryVars
  <2> SUFFICES ASSUME TypeInv, [Next]_vars, NEW d \in Registered
               PROVE  /\ devices'[d] # Nil
                      /\ devices'[d].owner = devices[d].owner
                      /\ devices'[d].key = devices[d].key
                      /\ devices[d].revoked => devices'[d].revoked
    BY DEF SameIdentity
  <2> QED BY DeviceSteady, RegistryAssumption DEF Registered
<1> QED BY <1>1, InitType, NextType, PTL DEF Spec, IdentityIsForever

(***************************************************************************)
(* A device appears only in a step that spends a live challenge of its     *)
(* owner, so that one challenge registers one device, for one account.     *)
(***************************************************************************)
THEOREM DevicesAreProven == Spec => DeviceNeedsFreshProof
<1> DEFINE Proven == \A d \in DeviceIDs \ Registered : devices'[d] # Nil =>
             \E n \in Nonces :
               /\ challenges[n] # Nil /\ challenges'[n] = Nil
               /\ challenges[n].user = devices'[d].owner
               /\ now < challenges[n].expires
<1>1. TypeInv /\ [Next]_vars => [Proven]_registryVars
  <2> SUFFICES ASSUME TypeInv, [Next]_vars, NEW d \in DeviceIDs \ Registered,
                      devices'[d] # Nil
               PROVE  \E n \in Nonces :
                        /\ challenges[n] # Nil /\ challenges'[n] = Nil
                        /\ challenges[n].user = devices'[d].owner
                        /\ now < challenges[n].expires
    OBVIOUS
  <2>1. /\ devices \in [DeviceIDs -> Device \cup {Nil}] /\ devices[d] = Nil
        /\ challenges \in [Nonces -> Challenge \cup {Nil}]
    BY DEF Registered, TypeInv, TypeOK, RegistryTypeOK
  <2>2. PICK e \in DeviceIDs \ Registered, user \in Users, key \in Keys :
          /\ \E n \in Nonces : ProofOK(user, key, n, key) /\ Spend(n)
          /\ devices' = [devices EXCEPT ![e] =
               [owner |-> user, key |-> key, revoked |-> FALSE, lastSeen |-> ZeroTime]]
    BY <2>1, DeviceStep DEF Registered
  <2>3. devices'[d].owner = user
    BY <2>1, <2>2
  <2>4. PICK n \in Nonces : ProofOK(user, key, n, key) /\ Spend(n)
    BY <2>2
  <2> QED BY <2>1, <2>3, <2>4 DEF ProofOK, Spend
<1> QED BY <1>1, InitType, NextType, PTL DEF Spec, DeviceNeedsFreshProof

LEMMA TrustStep == TypeInv /\ OpenOnTrustedDevices /\ [Next]_vars => OpenOnTrustedDevices'
<1> SUFFICES ASSUME TypeInv, OpenOnTrustedDevices, [Next]_vars,
                    NEW s \in SessionIDs, Open(s)'
             PROVE  (/\ Trusted(sessions[s].source) /\ Trusted(sessions[s].target)
                     /\ Owns(sessions[s].operator, sessions[s].source)
                     /\ sessions[s].source # sessions[s].target)'
  BY DEF OpenOnTrustedDevices
<1>1. CASE ~Exists(s)
  <2>1. sessions'[s] # sessions[s]
    BY <1>1 DEF Open, Exists
  <2> QED BY <1>1, <2>1, NextStep, NewSessionStep DEF Trusted, Owns, Registered
<1>2. CASE Exists(s)
  <2>1. /\ Open(s) /\ sessions'[s].operator = sessions[s].operator
        /\ sessions'[s].source = sessions[s].source
        /\ sessions'[s].target = sessions[s].target
    BY <1>2, NextStep, OneSessionStep DEF Open, Exists
  <2>2. /\ Trusted(sessions[s].source) /\ Trusted(sessions[s].target)
        /\ Owns(sessions[s].operator, sessions[s].source)
        /\ sessions[s].source # sessions[s].target
    BY <2>1 DEF OpenOnTrustedDevices
  <2>3. ASSUME NEW d \in {sessions[s].source, sessions[s].target}
        PROVE  Trusted(d)' /\ devices'[d].owner = devices[d].owner
    <3>1. d \in DeviceIDs /\ d \in Registered /\ ~devices[d].revoked
      BY <2>2 DEF Trusted, Registered
    <3>2. devices'[d] \in Device /\ ~devices'[d].revoked
          /\ devices'[d].owner = devices[d].owner
      BY <3>1, DeviceSteady
    <3> QED BY <3>1, <3>2, RegistryAssumption DEF Trusted, Registered
  <2> QED BY <2>1, <2>2, <2>3 DEF Trusted, Owns, Registered
<1> QED BY <1>1, <1>2

(***************************************************************************)
(* An open session always joins two registered, unrevoked devices, the     *)
(* source being the operator's own.                                        *)
(***************************************************************************)
THEOREM OpenIsTrusted == Spec => []OpenOnTrustedDevices
<1>1. Init => TypeInv /\ OpenOnTrustedDevices
  BY InitType DEF Init, OpenOnTrustedDevices, Open, Exists
<1>2. TypeInv /\ OpenOnTrustedDevices /\ [Next]_vars => (TypeInv /\ OpenOnTrustedDevices)'
  BY NextType, TrustStep
<1> QED BY <1>1, <1>2, PTL DEF Spec

-----------------------------------------------------------------------------
(* Limits.                                                                 *)

\* A set that a step makes no larger than by one element.
LEMMA OneMore ==
  ASSUME NEW S, IsFiniteSet(S), NEW n \in Nat, Cardinality(S) < n,
         NEW x, NEW T, T \subseteq S \cup {x}
  PROVE  Cardinality(T) <= n
<1>1. Cardinality(S) \in Nat
  BY FS_CardinalityType
<1>2. IsFiniteSet(S \cup {x}) /\ (\/ Cardinality(S \cup {x}) = Cardinality(S)
                                 \/ Cardinality(S \cup {x}) = Cardinality(S) + 1)
  BY FS_AddElement
<1>3. Cardinality(T) \in Nat /\ Cardinality(T) <= Cardinality(S \cup {x})
  BY <1>2, FS_Subset, FS_CardinalityType
<1> QED BY <1>1, <1>2, <1>3

LEMMA NoMore ==
  ASSUME NEW S, IsFiniteSet(S), NEW n \in Nat, Cardinality(S) <= n, NEW T \in SUBSET S
  PROVE  Cardinality(T) <= n
<1>1. Cardinality(S) \in Nat
  BY FS_CardinalityType
<1>2. Cardinality(T) \in Nat /\ Cardinality(T) <= Cardinality(S)
  BY FS_Subset, FS_CardinalityType
<1> QED BY <1>1, <1>2

LEMMA KeysStep == TypeInv /\ UniqueKeys /\ [Next]_vars => UniqueKeys'
<1> SUFFICES ASSUME TypeInv, UniqueKeys, [Next]_vars PROVE UniqueKeys'
  OBVIOUS
<1>1. devices \in [DeviceIDs -> Device \cup {Nil}]
  BY DEF TypeInv, TypeOK, RegistryTypeOK
<1>2. CASE UNCHANGED devices
  BY <1>2 DEF UniqueKeys, Registered
<1>3. ASSUME NEW d \in DeviceIDs \ Registered, NEW user, NEW key, ~KnownKey(user, key),
             devices' = [devices EXCEPT ![d] =
               [owner |-> user, key |-> key, revoked |-> FALSE, lastSeen |-> ZeroTime]]
      PROVE  UniqueKeys'
  <2>1. Registered' \subseteq Registered \cup {d} /\ devices'[d].key = key
    BY <1>1, <1>3 DEF Registered
  <2>2. \A e \in Registered : devices'[e] = devices[e] /\ devices[e].key # key
    BY <1>1, <1>3 DEF Registered, KnownKey
  <2> QED BY <2>1, <2>2 DEF UniqueKeys
<1>4. ASSUME NEW d \in Registered,
             devices' = [devices EXCEPT ![d] = [devices[d] EXCEPT !.revoked = TRUE]]
      PROVE  UniqueKeys'
  <2>1. Registered' \subseteq Registered
    BY <1>1, <1>4 DEF Registered
  <2>2. \A e \in Registered : e \in DeviceIDs
    BY DEF Registered
  <2>3. \A e \in Registered : devices'[e].key = devices[e].key
    BY <2>2, DeviceSteady
  <2> QED BY <2>1, <2>3 DEF UniqueKeys
<1> QED BY <1>2, <1>3, <1>4, DeviceStep

(***************************************************************************)
(* No text of a key is registered twice, whatever the number of accounts,  *)
(* devices and requests.                                                   *)
(***************************************************************************)
THEOREM KeysAreUnique == Spec => []UniqueKeys
<1>1. Init => TypeInv /\ UniqueKeys
  BY InitType, SeedAssumption DEF Init, RegistryInit, UniqueKeys, Registered
<1>2. TypeInv /\ UniqueKeys /\ [Next]_vars => (TypeInv /\ UniqueKeys)'
  BY NextType, KeysStep
<1> QED BY <1>1, <1>2, PTL DEF Spec

\* The devices that count towards the limit of an account.
Unrevoked(u) == {d \in Registered : devices[d].owner = u /\ ~devices[d].revoked}

LEMMA LimitStep == TypeInv /\ DeviceLimit /\ [Next]_vars => DeviceLimit'
<1> SUFFICES ASSUME TypeInv, DeviceLimit, [Next]_vars, NEW u \in Users
             PROVE  Cardinality(Unrevoked(u)') <= MaxDevices
  BY DEF DeviceLimit, Unrevoked
<1>1. devices \in [DeviceIDs -> Device \cup {Nil}]
  BY DEF TypeInv, TypeOK, RegistryTypeOK
<1>2. IsFiniteSet(Unrevoked(u)) /\ Cardinality(Unrevoked(u)) <= MaxDevices
  <2>1. Unrevoked(u) \in SUBSET DeviceIDs /\ IsFiniteSet(DeviceIDs)
    BY RegistryAssumption DEF Unrevoked, Registered
  <2> QED BY <2>1, FS_Subset DEF DeviceLimit, Unrevoked
<1>3. Unrevoked(u)' \subseteq Unrevoked(u) => Cardinality(Unrevoked(u)') <= MaxDevices
  BY <1>2, NoMore, RegistryAssumption
<1>4. CASE UNCHANGED devices
  BY <1>3, <1>4 DEF Unrevoked, Registered
<1>5. ASSUME NEW d \in DeviceIDs \ Registered, NEW user, NEW key, HasRoom(user),
             devices' = [devices EXCEPT ![d] =
               [owner |-> user, key |-> key, revoked |-> FALSE, lastSeen |-> ZeroTime]]
      PROVE  Cardinality(Unrevoked(u)') <= MaxDevices
  <2>1. \A e \in Registered' : e # d => e \in Registered /\ devices'[e] = devices[e]
    BY <1>1, <1>5 DEF Registered
  <2>2. d \in DeviceIDs /\ devices'[d].owner = user
    BY <1>1, <1>5
  <2>3. CASE u # user
    BY <1>3, <2>1, <2>2, <2>3 DEF Unrevoked
  <2>4. CASE u = user
    <3>1. Unrevoked(u)' \subseteq Unrevoked(u) \cup {d}
      BY <2>1 DEF Unrevoked
    <3>2. Cardinality(Unrevoked(u)) < MaxDevices
      BY <1>5, <2>4 DEF HasRoom, Unrevoked
    <3> QED BY <1>2, <3>1, <3>2, OneMore, RegistryAssumption
  <2> QED BY <2>3, <2>4
<1>6. ASSUME NEW d \in Registered,
             devices' = [devices EXCEPT ![d] = [devices[d] EXCEPT !.revoked = TRUE]]
      PROVE  Cardinality(Unrevoked(u)') <= MaxDevices
  <2>1. Registered' \subseteq Registered
    BY <1>1, <1>6 DEF Registered
  <2>2. \A e \in Registered : e \in DeviceIDs
    BY DEF Registered
  <2>3. \A e \in Registered : /\ devices'[e].owner = devices[e].owner
                              /\ devices[e].revoked => devices'[e].revoked
    BY <2>2, DeviceSteady
  <2>4. Unrevoked(u)' \subseteq Unrevoked(u)
    BY <2>1, <2>3 DEF Unrevoked
  <2> QED BY <1>3, <2>4
<1> QED BY <1>4, <1>5, <1>6, DeviceStep

(***************************************************************************)
(* An account never has more unrevoked devices than the limit, however     *)
(* registrations and revocations of any number of devices interleave.      *)
(***************************************************************************)
THEOREM DevicesAreLimited == Spec => []DeviceLimit
<1>1. Init => TypeInv /\ DeviceLimit
  <2>1. ASSUME Init PROVE DeviceLimit
    <3>1. \A u \in Users : {d \in Registered : devices[d].owner = u /\ ~devices[d].revoked}
                          = {d \in DeviceIDs : Seed[d] # Nil /\ Seed[d].owner = u}
      BY <2>1, SeedAssumption DEF Init, RegistryInit, Registered
    <3> QED BY <3>1, SeedAssumption DEF DeviceLimit
  <2> QED BY <2>1, InitType
<1>2. TypeInv /\ DeviceLimit /\ [Next]_vars => (TypeInv /\ DeviceLimit)'
  BY NextType, LimitStep
<1> QED BY <1>1, <1>2, PTL DEF Spec

\* The sessions that count towards the limit of an operator.
OpenOf(user) == {s \in SessionIDs : Open(s) /\ sessions[s].operator = user}

LEMMA BoundsStep == TypeInv /\ OperatorBounds /\ [Next]_vars => OperatorBounds'
<1> SUFFICES ASSUME TypeInv, OperatorBounds, [Next]_vars, NEW user \in Users
             PROVE  /\ Cardinality(OpenOf(user)') <= MaxOpen
                    /\ \A s, t \in OpenOf(user)' :
                         sessions'[s].target = sessions'[t].target => s = t
  BY DEF OperatorBounds, OpenOf
<1>1. SessionStep
  BY NextStep
<1>2. /\ IsFiniteSet(OpenOf(user)) /\ Cardinality(OpenOf(user)) <= MaxOpen
      /\ \A s, t \in OpenOf(user) : sessions[s].target = sessions[t].target => s = t
  <2>1. OpenOf(user) \in SUBSET SessionIDs /\ IsFiniteSet(SessionIDs)
    BY SessionsAssumption DEF OpenOf
  <2> QED BY <2>1, FS_Subset DEF OperatorBounds, OpenOf
<1>3. ASSUME NEW s \in OpenOf(user)', Exists(s)
      PROVE  s \in OpenOf(user) /\ sessions'[s].target = sessions[s].target
  <2>1. s \in SessionIDs /\ Open(s)' /\ sessions'[s].operator = user
    BY <1>3 DEF OpenOf
  <2>2. /\ Open(s) /\ sessions[s].operator = user
        /\ sessions'[s].target = sessions[s].target
    BY <1>1, <1>3, <2>1, OneSessionStep DEF Open, Exists
  <2> QED BY <2>1, <2>2 DEF OpenOf
<1>4. CASE \A s \in OpenOf(user)' : Exists(s)
  <2>1. OpenOf(user)' \subseteq OpenOf(user)
    BY <1>3, <1>4
  <2>2. Cardinality(OpenOf(user)') <= MaxOpen
    BY <1>2, <2>1, NoMore, SessionsAssumption
  <2> QED BY <1>2, <1>3, <1>4, <2>2
<1>5. ASSUME NEW s \in OpenOf(user)', ~Exists(s)
      PROVE  /\ Cardinality(OpenOf(user)') <= MaxOpen
             /\ \A r, t \in OpenOf(user)' :
                  sessions'[r].target = sessions'[t].target => r = t
  <2>1. s \in SessionIDs /\ Open(s)' /\ sessions'[s].operator = user
    BY <1>5 DEF OpenOf
  <2>2. sessions'[s] # sessions[s]
    BY <1>5, <2>1 DEF Open, Exists
  <2>3. /\ MayOpen(user, sessions'[s].target)
        /\ \A t \in SessionIDs \ {s} : sessions'[t] = sessions[t]
    BY <1>1, <1>5, <2>1, <2>2, NewSessionStep
  <2>4. \A t \in OpenOf(user)' \ {s} : t \in OpenOf(user) /\ sessions'[t] = sessions[t]
    BY <2>3 DEF OpenOf, Open, Exists
  <2>5. /\ Cardinality(OpenOf(user)) < MaxOpen
        /\ \A t \in OpenOf(user) : sessions[t].target # sessions'[s].target
    BY <2>3 DEF MayOpen, OpenOf
  <2>6. Cardinality(OpenOf(user)') <= MaxOpen
    <3>1. OpenOf(user)' \subseteq OpenOf(user) \cup {s}
      BY <2>4
    <3> QED BY <1>2, <2>5, <3>1, OneMore, SessionsAssumption
  <2> QED BY <1>2, <2>4, <2>5, <2>6
<1> QED BY <1>4, <1>5

(***************************************************************************)
(* An operator never has more open sessions than the limit, nor two on one *)
(* target, for every limit and every number of operators and sessions.     *)
(***************************************************************************)
THEOREM OperatorsAreBounded == Spec => []OperatorBounds
<1>1. Init => TypeInv /\ OperatorBounds
  <2>1. ASSUME Init, NEW user \in Users PROVE OpenOf(user) = {}
    BY <2>1 DEF Init, OpenOf, Open, Exists
  <2>2. Cardinality({}) <= MaxOpen
    BY FS_EmptySet, SessionsAssumption
  <2> QED BY <2>1, <2>2, InitType DEF OperatorBounds, OpenOf
<1>2. TypeInv /\ OperatorBounds /\ [Next]_vars => (TypeInv /\ OperatorBounds)'
  BY NextType, BoundsStep
<1> QED BY <1>1, <1>2, PTL DEF Spec

-----------------------------------------------------------------------------
(* What the connected devices have been told.                              *)

PartyOf(d, s) == Exists(s) /\ d \in {sessions[s].source, sessions[s].target}

(***************************************************************************)
(* What was said of a session to a device after a step: nothing, what is   *)
(* true now, or what was said before, when nothing has changed for it.     *)
(***************************************************************************)
SaidToOne(d, s) ==
  \/ told'[d][s] = 0
  \/ Exists(s)' /\ told'[d][s] = sessions'[s].epoch
  \/ /\ told'[d][s] = told[d][s]
     /\ peers'[d] = "open" => peers[d] = "open"
     /\ PartyOf(d, s) => sessions'[s] = sessions[s]

\* Publish tells the truth, if all that it changes is in its audience.
LEMMA PublishSaid ==
  ASSUME TypeInv, NEW next, NEW audience, NEW hangup,
         Publish(next, audience, hangup),
         NEW d \in DeviceIDs, NEW s \in SessionIDs,
         <<d, s>> \in audience => next[s] # Nil,
         PartyOf(d, s) => <<d, s>> \in audience \/ next[s] = sessions[s]
  PROVE  SaidToOne(d, s)
<1>1. PICK slow \in SUBSET {e \in DeviceIDs :
               peers[e] = "open" /\ \E r \in SessionIDs : <<e, r>> \in audience} :
        /\ peers' = [e \in DeviceIDs |->
             IF peers[e] = "open" /\ e \in slow \cup hangup THEN "closing" ELSE peers[e]]
        /\ told' = [e \in DeviceIDs |-> [r \in SessionIDs |->
             IF peers'[e] # "open" THEN 0
             ELSE IF <<e, r>> \in audience THEN next[r].epoch
             ELSE told[e][r]]]
  BY DEF Publish
<1>2. sessions' = next
  BY DEF Publish
<1>3. /\ peers'[d] = "open" => peers[d] = "open"
      /\ told'[d][s] = IF peers'[d] # "open" THEN 0
                       ELSE IF <<d, s>> \in audience THEN next[s].epoch
                       ELSE told[d][s]
  BY <1>1
<1> QED BY <1>2, <1>3 DEF SaidToOne, Exists

LEMMA EndSaid ==
  ASSUME TypeInv, NEW S \in SUBSET SessionIDs, \A s \in S : Open(s),
         NEW state \in {"rejected", "revoked", "closed", "expired"}, NEW hangup,
         End(S, state, hangup),
         NEW d \in DeviceIDs, NEW s \in SessionIDs
  PROVE  SaidToOne(d, s)
<1>1. <<d, s>> \in Parties(S) => s \in S
  BY DEF Parties
<1>2. s \in S => Ended(S, state)[s] # Nil
  BY EndedType, SessionsAssumption
<1>3. s \notin S => Ended(S, state)[s] = sessions[s]
  BY EndedType
<1>4. PartyOf(d, s) /\ s \in S => <<d, s>> \in Parties(S)
  BY DEF PartyOf, Parties
<1> QED BY <1>1, <1>2, <1>3, <1>4, PublishSaid DEF End

\* The requests of a target's owner.
LEMMA TargetSaid ==
  ASSUME TypeInv, NEW r \in SessionIDs, Exists(r), NEW v, v # Nil,
         Publish([sessions EXCEPT ![r] = v], Parties({r}), {}),
         NEW d \in DeviceIDs, NEW s \in SessionIDs
  PROVE  SaidToOne(d, s)
<1>1. sessions \in [SessionIDs -> Session \cup {Nil}]
  BY DEF TypeInv, TypeOK
<1>2. <<d, s>> \in Parties({r}) => s = r
  BY DEF Parties
<1>3. PartyOf(d, r) => <<d, r>> \in Parties({r})
  BY DEF PartyOf, Parties
<1>4. <<d, s>> \in Parties({r}) => [sessions EXCEPT ![r] = v][s] # Nil
  BY <1>1, <1>2
<1>5. PartyOf(d, s) =>
        <<d, s>> \in Parties({r}) \/ [sessions EXCEPT ![r] = v][s] = sessions[s]
  BY <1>1, <1>3
<1> QED BY <1>4, <1>5, PublishSaid

LEMMA HandoverSaid ==
  ASSUME TypeInv, NEW user \in Users, NEW r \in SessionIDs, NEW nonce, NEW signer,
         Handover(user, r, nonce, signer),
         NEW d \in DeviceIDs, NEW s \in SessionIDs
  PROVE  SaidToOne(d, s)
<1>1. CASE UNCHANGED <<sessions, told, peers>>
  BY <1>1 DEF SaidToOne
<1>2. CASE /\ \A t \in Rivals(r) \cup {r} : sessions[t].epoch < MaxEpoch
           /\ Publish(HandedOver(r), Parties(Rivals(r) \cup {r}), {})
  <2>1. Exists(r) /\ \A t \in Rivals(r) : Exists(t)
    BY DEF Handover, TargetRequest, AtTarget, Rivals, Active
  <2>2. \A t \in Rivals(r) \cup {r} : sessions[t] \in Session
    BY <2>1 DEF Rivals, Exists, TypeInv, TypeOK
  <2>3. \A t \in Rivals(r) \cup {r} : HandedOver(r)[t] \in Session
    BY <1>2, <2>2, DemotedType, PromotedType DEF HandedOver, Rivals
  <2>4. <<d, s>> \in Parties(Rivals(r) \cup {r}) => s \in Rivals(r) \cup {r}
    BY DEF Parties
  <2>5. PartyOf(d, s) /\ s \in Rivals(r) \cup {r} => <<d, s>> \in Parties(Rivals(r) \cup {r})
    BY DEF PartyOf, Parties
  <2>6. s \notin Rivals(r) \cup {r} => HandedOver(r)[s] = sessions[s]
    BY DEF HandedOver
  <2> QED BY <1>2, <2>3, <2>4, <2>5, <2>6, PublishSaid, SessionsAssumption
<1> QED BY <1>1, <1>2 DEF Handover, TargetRequest

\* A new session is told to its target only: its source has asked for it.
LEMMA RequestSaid ==
  ASSUME TypeInv, NEW user \in Users, NEW source \in DeviceIDs, NEW target \in DeviceIDs,
         NEW want, NEW nonce, NEW signer,
         RequestSession(user, source, target, want, nonce, signer),
         NEW d \in DeviceIDs, NEW s \in SessionIDs
  PROVE  SaidToOne(d, s)
<1>1. CASE UNCHANGED <<sessions, told, peers>>
  BY <1>1 DEF SaidToOne
<1>2. ASSUME NEW r \in SessionIDs, ~Exists(r), NEW v, v # Nil,
             Publish([sessions EXCEPT ![r] = v], {<<target, r>>}, {})
      PROVE  SaidToOne(d, s)
  <2>1. sessions \in [SessionIDs -> Session \cup {Nil}]
    BY DEF TypeInv, TypeOK
  <2>2. <<d, s>> \in {<<target, r>>} => [sessions EXCEPT ![r] = v][s] # Nil
    BY <1>2, <2>1
  <2>3. PartyOf(d, s) => [sessions EXCEPT ![r] = v][s] = sessions[s]
    BY <1>2, <2>1 DEF PartyOf
  <2> QED BY <1>2, <2>2, <2>3, PublishSaid
<1>3. CASE ~UNCHANGED <<sessions, told, peers>>
  <2> DEFINE v == [operator |-> user, source |-> source, target |-> target,
                   state |-> "pending", requested |-> want, granted |-> {},
                   expires |-> now + PendingTTL, epoch |-> 1]
  <2>1. PICK r \in SessionIDs : /\ ~Exists(r) /\ ValidPermissions(want)
                                /\ Publish([sessions EXCEPT ![r] = v], {<<target, r>>}, {})
    BY <1>3 DEF RequestSession
  <2>2. v \in Session
    BY <2>1, SessionsAssumption
    DEF Session, States, ValidPermissions, TypeInv, TypeOK, RegistryTypeOK
  <2>3. v # Nil
    BY <2>2, SessionsAssumption
  <2> HIDE DEF v
  <2> QED BY <1>2, <2>1, <2>3
<1> QED BY <1>1, <1>3

LEMMA DecideSaid ==
  ASSUME TypeInv, NEW user \in Users, NEW r \in SessionIDs, NEW perms, NEW nonce, NEW signer,
         \/ \E approve \in BOOLEAN : DecideSession(user, r, approve, perms, nonce, signer)
         \/ ChangePermissions(user, r, perms, nonce, signer),
         NEW d \in DeviceIDs, NEW s \in SessionIDs
  PROVE  SaidToOne(d, s)
<1>1. Exists(r) /\ sessions[r] \in Session
  BY DEF DecideSession, ChangePermissions, TargetRequest, AtTarget, Exists, TypeInv, TypeOK
<1>2. CASE UNCHANGED <<sessions, told, peers>>
  BY <1>2 DEF SaidToOne
<1>3. CASE Open(r) /\ (End({r}, "rejected", {}) \/ End({r}, "revoked", {}))
  BY <1>3, EndSaid
<1>4. CASE /\ sessions[r].state = "pending" /\ Grantable(r, perms)
           /\ Publish([sessions EXCEPT ![r] = Approved(sessions[r], perms)], Parties({r}), {})
  <2>1. sessions[r].epoch = 1 /\ now \in Int /\ perms \in SUBSET Permissions
    BY <1>1, <1>4
    DEF TypeInv, TypeOK, RegistryTypeOK, EpochRoom, Open, Exists, Grantable, ValidPermissions
  <2>2. Approved(sessions[r], perms) # Nil
    BY <1>1, <2>1, ApprovedType, SessionsAssumption
  <2> QED BY <1>1, <1>4, <2>2, TargetSaid
<1>5. CASE /\ Grantable(r, perms) /\ sessions[r].epoch < MaxEpoch
           /\ Publish([sessions EXCEPT ![r] = Regranted(sessions[r], perms)], Parties({r}), {})
  <2>1. Regranted(sessions[r], perms) # Nil
    BY <1>1, <1>5, RegrantedType, SessionsAssumption DEF Grantable, ValidPermissions
  <2> QED BY <1>1, <1>5, <2>1, TargetSaid
<1> QED BY <1>1, <1>2, <1>3, <1>4, <1>5
        DEF DecideSession, ChangePermissions, TargetRequest, Open

LEMMA NextSaid ==
  ASSUME TypeInv, [Next]_vars, NEW d \in DeviceIDs, NEW s \in SessionIDs
  PROVE  SaidToOne(d, s)
<1>1. CASE UNCHANGED <<sessions, told, peers>>
  BY <1>1 DEF SaidToOne
<1>2. CASE RequestNext
  <2>1. ASSUME NEW user, NEW nonce, NEW signer,
               RegisterDevice(user, signer, nonce, signer) /\ UNCHANGED <<sessions, told>>
        PROVE  SaidToOne(d, s)
    BY <1>1, <2>1 DEF RegisterDevice
  <2> QED BY <1>2, <2>1, RequestSaid, DecideSaid, HandoverSaid DEF RequestNext
<1>3. CASE UserNext
  <2>1. ASSUME NEW user, NEW nonce,
               NewChallenge(user, nonce) /\ UNCHANGED <<sessions, told>>
        PROVE  SaidToOne(d, s)
    BY <1>1, <2>1 DEF NewChallenge
  <2>2. ASSUME NEW user, NEW r \in SessionIDs, StopSession(user, r)
        PROVE  SaidToOne(d, s)
    BY <2>2, EndSaid DEF StopSession
  <2>3. ASSUME NEW user, NEW e, RevokeDevice(user, e)
        PROVE  SaidToOne(d, s)
    <3> DEFINE S == {r \in SessionIDs :
                       Open(r) /\ e \in {sessions[r].source, sessions[r].target}}
    <3>1. End(S, "revoked", {e})
      BY <2>3 DEF RevokeDevice
    <3>2. S \in SUBSET SessionIDs /\ \A r \in S : Open(r)
      OBVIOUS
    <3> HIDE DEF S
    <3> QED BY <3>1, <3>2, EndSaid
  <2>4. ASSUME NEW user, Invalidate(user)
        PROVE  SaidToOne(d, s)
    <3> DEFINE S == {r \in SessionIDs : Open(r) /\ Visible(r, user)}
    <3>1. PICK hangup : End(S, "closed", hangup)
      BY <2>4 DEF Invalidate
    <3>2. S \in SUBSET SessionIDs /\ \A r \in S : Open(r)
      OBVIOUS
    <3> HIDE DEF S
    <3> QED BY <3>1, <3>2, EndSaid
  <2> QED BY <1>3, <2>1, <2>2, <2>3, <2>4 DEF UserNext
<1>4. CASE ConnectionNext
  <2>1. PICK e \in DeviceIDs : Reset(e) /\ (Connect(e) \/ Disconnect(e))
    BY <1>4 DEF ConnectionNext
  <2>2. /\ told \in [DeviceIDs -> [SessionIDs -> 0 .. MaxEpoch + 1]]
        /\ peers \in [DeviceIDs -> {"absent", "open", "closing"}]
    BY DEF TypeInv, TypeOK, RegistryTypeOK
  <2>3. CASE d = e
    BY <2>1, <2>2, <2>3 DEF Reset, Untold, SaidToOne
  <2>4. CASE d # e
    BY <2>1, <2>2, <2>4 DEF Reset, Connect, Disconnect, SaidToOne
  <2> QED BY <2>3, <2>4
<1>5. CASE Expire
  <2> DEFINE S == {r \in SessionIDs : Due(r)}
  <2>1. End(S, "expired", {})
    BY <1>5 DEF Expire
  <2>2. S \in SUBSET SessionIDs /\ \A r \in S : Open(r)
    BY DEF Due
  <2> HIDE DEF S
  <2> QED BY <2>1, <2>2, EndSaid
<1>6. CASE Tick /\ UNCHANGED <<sessions, told>>
  BY <1>1, <1>6 DEF Tick
<1>7. CASE UNCHANGED vars
  BY <1>1, <1>7 DEF vars
<1> QED BY <1>2, <1>3, <1>4, <1>5, <1>6, <1>7 DEF Next

\* Of a session that does not exist yet nobody has heard.
ToldInv ==
  /\ ToldCurrent
  /\ \A d \in DeviceIDs, s \in SessionIDs : ~Exists(s) => told[d][s] = 0

LEMMA ToldStep == TypeInv /\ ToldInv /\ [Next]_vars => ToldInv'
<1> SUFFICES ASSUME TypeInv, ToldInv, [Next]_vars PROVE ToldInv'
  OBVIOUS
<1>1. ASSUME NEW s \in SessionIDs, Exists(s)'
      PROVE  sessions'[s].source \in DeviceIDs /\ sessions'[s].target \in DeviceIDs
  <2>1. TypeInv'
    BY NextType
  <2> QED BY <1>1, <2>1 DEF TypeInv, TypeOK, Exists, Session
<1>2. ASSUME NEW d \in DeviceIDs, NEW s \in SessionIDs
      PROVE  /\ Exists(s)' /\ d \in {sessions'[s].source, sessions'[s].target}
                /\ peers'[d] = "open"
                => told'[d][s] \in {0, sessions'[s].epoch}
             /\ ~Exists(s)' => told'[d][s] = 0
  <2>1. SaidToOne(d, s) /\ SessionStep
    BY NextSaid, NextStep
  <2>2. Exists(s) => Exists(s)' /\ sessions'[s].source = sessions[s].source
                     /\ sessions'[s].target = sessions[s].target
    BY <2>1, OneSessionStep, SessionsAssumption DEF Exists
  <2>3. ~Exists(s) => told[d][s] = 0
    BY DEF ToldInv
  <2>4. Exists(s) /\ d \in {sessions[s].source, sessions[s].target} /\ peers[d] = "open"
          => told[d][s] \in {0, sessions[s].epoch}
    BY DEF ToldInv, ToldCurrent
  <2> QED BY <2>1, <2>2, <2>3, <2>4 DEF SaidToOne, PartyOf
<1> QED BY <1>1, <1>2 DEF ToldInv, ToldCurrent

(***************************************************************************)
(* The last message that a connected device was sent about its session     *)
(* states the present epoch, whatever was changed, by whom and in which    *)
(* order, for any number of sessions, devices and connections.             *)
(***************************************************************************)
THEOREM PartiesAreTold == Spec => []ToldCurrent
<1>1. Init => TypeInv /\ ToldInv
  BY InitType DEF Init, Untold, ToldInv, ToldCurrent, Exists
<1>2. TypeInv /\ ToldInv /\ [Next]_vars => (TypeInv /\ ToldInv)'
  BY NextType, ToldStep
<1>3. ToldInv => ToldCurrent
  BY DEF ToldInv
<1> QED BY <1>1, <1>2, <1>3, PTL DEF Spec

-----------------------------------------------------------------------------
(* Sessions implements Seats, for every value of the constants: initial    *)
(* states map to initial states, and each of the six cases of SessionStep  *)
(* maps to a step of Seats or to a stutter.                                *)

Place(s) == IF Exists(s) THEN sessions[s].target ELSE Nil

\* A session that a step leaves alone keeps its part of the mapping.
LEMMA SameSeat ==
  ASSUME NEW s \in SessionIDs, sessions'[s] = sessions[s]
  PROVE  /\ Phase(s)' = Phase(s) /\ Place(s)' = Place(s)
         /\ \A d \in DeviceIDs : Drives(s, d)' <=> Drives(s, d)
BY DEF Phase, Place, Drives, Exists, Active

LEMMA SeatsInit == Init => Seating!Init
BY DEF Init, Seating!Init, Phase, Drives, Exists, Active

LEMMA SeatsStutter ==
  ASSUME UNCHANGED sessions
  PROVE  UNCHANGED Seating!vars
<1>1. \A s \in SessionIDs : /\ Phase(s)' = Phase(s) /\ Place(s)' = Place(s)
                            /\ \A d \in DeviceIDs : Drives(s, d)' <=> Drives(s, d)
  BY SameSeat
<1> QED BY <1>1 DEF Seating!vars, Place

LEMMA SeatsAsk ==
  ASSUME TypeInv, NEW s \in SessionIDs, NEW v \in Session, Creation(s, v)
  PROVE  Seating!Next
<1>1. v.target \in DeviceIDs /\ v # Nil
  BY SessionsAssumption DEF Session
<1>2. Phase(s) = "new" /\ Phase(s)' = "waiting" /\ Place(s)' = v.target
  BY <1>1 DEF Creation, Phase, Place, Exists, TypeInv, TypeOK
<1>3. \A d \in DeviceIDs : ~Drives(s, d) /\ ~Drives(s, d)'
  BY DEF Creation, Drives, Active, Exists, TypeInv, TypeOK
<1>4. \A t \in SessionIDs \ {s} :
        /\ Phase(t)' = Phase(t) /\ Place(t)' = Place(t)
        /\ \A d \in DeviceIDs : Drives(t, d)' <=> Drives(t, d)
  BY SameSeat DEF Creation, TypeInv, TypeOK
<1>5. Seating!Ask(s, v.target)
  BY <1>2, <1>3, <1>4 DEF Seating!Ask, Place
<1> QED BY <1>1, <1>5 DEF Seating!Next

LEMMA SeatsLeave ==
  ASSUME TypeInv, NEW S \in SUBSET SessionIDs,
         NEW state \in {"rejected", "revoked", "closed", "expired"}, Ending(S, state)
  PROVE  Seating!Next
<1>1. \A s \in S : Open(s)
  BY DEF Ending
<1>2. ASSUME NEW s \in S
      PROVE  /\ Phase(s) \in {"waiting", "admitted"} /\ Phase(s)' = "gone"
             /\ Place(s)' = Place(s)
             /\ \A d \in DeviceIDs : ~Drives(s, d)'
  <2>1. /\ sessions'[s] \in Session /\ sessions'[s].state = state
        /\ sessions'[s].target = sessions[s].target
    BY <1>1, EndedType DEF Ending
  <2>2. Exists(s) /\ sessions[s].state \in {"pending", "active"}
    BY <1>1 DEF Open
  <2> QED BY <2>1, <2>2, SessionsAssumption DEF Phase, Place, Drives, Exists, Active
<1>3. \A s \in SessionIDs \ S :
        /\ Phase(s)' = Phase(s) /\ Place(s)' = Place(s)
        /\ \A d \in DeviceIDs : Drives(s, d)' <=> Drives(s, d)
  BY <1>1, EndedType, SameSeat DEF Ending
<1>4. Seating!Leave(S)
  <2>1. \A s \in S : Phase(s) \in {"waiting", "admitted"}
    BY <1>2
  <2>2. \A s \in SessionIDs : Phase(s)' = IF s \in S THEN "gone" ELSE Phase(s)
    BY <1>2, <1>3
  <2>3. \A s \in SessionIDs : Place(s)' = Place(s)
    BY <1>2, <1>3
  <2>4. \A s \in SessionIDs, d \in DeviceIDs : Drives(s, d)' <=> Drives(s, d) /\ s \notin S
    BY <1>2, <1>3
  <2> QED BY <2>1, <2>2, <2>3, <2>4 DEF Seating!Leave, Seating!StandUp, Place
<1> QED BY <1>4 DEF Seating!Next
-----------------------------------------------------------------------------
\* A grant of control is made when no other session drives the target.
LEMMA SeatFree ==
  ASSUME TypeInv, NEW s \in SessionIDs, Exists(s), NEW perms,
         Grantable(s, perms), Controls(perms)
  PROVE  \A t \in SessionIDs \ {s} : ~Drives(t, sessions[s].target)
BY DEF Grantable, ControllerBusy, Drives

LEMMA SeatsAdmit ==
  ASSUME TypeInv, NEW s \in SessionIDs, NEW perms \in SUBSET Permissions,
         Approval(s, perms)
  PROVE  Seating!Next
<1> DEFINE d0 == sessions[s].target
<1>1. /\ Exists(s) /\ sessions[s].state = "pending" /\ Grantable(s, perms)
      /\ sessions[s] \in Session /\ sessions[s].epoch = 1 /\ d0 \in DeviceIDs
      /\ now \in Int
  BY DEF Approval, TypeInv, TypeOK, RegistryTypeOK, EpochRoom, Open, Exists, Session
<1>2. /\ sessions'[s] \in Session /\ sessions'[s].state = "active"
      /\ sessions'[s].granted = perms /\ sessions'[s].target = d0
  BY <1>1, ApprovedType DEF Approval, TypeInv, TypeOK
<1>3. /\ Phase(s) = "waiting" /\ Phase(s)' = "admitted"
      /\ Place(s) = d0 /\ Place(s)' = d0
  BY <1>1, <1>2, SessionsAssumption DEF Phase, Place, Exists
<1>4. \A d \in DeviceIDs : ~Drives(s, d) /\ (Drives(s, d)' <=> d = d0 /\ Controls(perms))
  BY <1>1, <1>2, SessionsAssumption DEF Drives, Active, Exists
<1>5. \A t \in SessionIDs \ {s} :
        /\ Phase(t)' = Phase(t) /\ Place(t)' = Place(t)
        /\ \A d \in DeviceIDs : Drives(t, d)' <=> Drives(t, d)
  BY SameSeat DEF Approval, TypeInv, TypeOK
<1>6. Controls(perms) => \A t \in SessionIDs \ {s} : ~Drives(t, d0)
  BY <1>1, SeatFree
<1> HIDE DEF d0
<1>7. CASE Controls(perms)
  <2>1. Seating!Free(s)
    BY <1>1, <1>3, <1>4, <1>6, <1>7 DEF Seating!Free, Place
  <2>2. Seating!SitDown(s)
    BY <1>1, <1>3, <1>4, <1>5, <1>6, <1>7 DEF Seating!SitDown, Place
  <2>3. Seating!Admit(s)
    BY <1>3, <1>5, <2>1, <2>2 DEF Seating!Admit, Place
  <2> QED BY <2>3 DEF Seating!Next
<1>8. CASE ~Controls(perms)
  <2>1. \A t \in SessionIDs, d \in DeviceIDs : Drives(t, d)' <=> Drives(t, d)
    BY <1>4, <1>5, <1>8
  <2>2. Seating!Admit(s)
    BY <1>3, <1>5, <2>1 DEF Seating!Admit, Place
  <2> QED BY <2>2 DEF Seating!Next
<1> QED BY <1>7, <1>8

LEMMA SeatsChange ==
  ASSUME TypeInv, NEW s \in SessionIDs, NEW perms \in SUBSET Permissions,
         Change(s, perms)
  PROVE  [Seating!Next]_(Seating!vars)
<1> DEFINE d0 == sessions[s].target
<1>1. /\ Active(s) /\ Exists(s) /\ Grantable(s, perms)
      /\ sessions[s] \in Session /\ d0 \in DeviceIDs
  BY DEF Change, TypeInv, TypeOK, Active, Exists, Session
<1>2. /\ sessions'[s] \in Session /\ sessions'[s].state = "active"
      /\ sessions'[s].granted = perms /\ sessions'[s].target = d0
  BY <1>1, RegrantedType DEF Change, Active, TypeInv, TypeOK
<1>3. /\ Phase(s) = "admitted" /\ Phase(s)' = "admitted"
      /\ Place(s) = d0 /\ Place(s)' = d0
  BY <1>1, <1>2, SessionsAssumption DEF Phase, Place, Exists, Active
<1>4. \A d \in DeviceIDs : /\ Drives(s, d) => d = d0
                           /\ Drives(s, d)' <=> d = d0 /\ Controls(perms)
  BY <1>1, <1>2, SessionsAssumption DEF Drives, Active, Exists
<1>5. \A t \in SessionIDs \ {s} :
        /\ Phase(t)' = Phase(t) /\ Place(t)' = Place(t)
        /\ \A d \in DeviceIDs : Drives(t, d)' <=> Drives(t, d)
  BY SameSeat DEF Change, TypeInv, TypeOK
<1>6. Controls(perms) => \A t \in SessionIDs \ {s} : ~Drives(t, d0)
  BY <1>1, SeatFree
<1> HIDE DEF d0
<1>7. CASE Controls(perms) /\ Drives(s, d0)
  <2>1. \A d \in DeviceIDs : Drives(s, d)' <=> Drives(s, d)
    BY <1>4, <1>7
  <2> QED BY <1>3, <1>5, <2>1 DEF Seating!vars, Place
<1>8. CASE Controls(perms) /\ ~Drives(s, d0)
  <2>1. Seating!Change(s)
    BY <1>1, <1>3, <1>4, <1>5, <1>6, <1>8
    DEF Seating!Change, Seating!Free, Seating!SitDown, Place
  <2> QED BY <2>1 DEF Seating!Next
<1>9. CASE ~Controls(perms)
  <2>1. Seating!Change(s)
    BY <1>1, <1>3, <1>4, <1>5, <1>9 DEF Seating!Change, Seating!StandUp, Place
  <2> QED BY <2>1 DEF Seating!Next
<1> QED BY <1>7, <1>8, <1>9

LEMMA SeatsHandOver ==
  ASSUME TypeInv, NEW s \in SessionIDs, Transfer(s)
  PROVE  Seating!Next
<1> DEFINE d0 == sessions[s].target
<1>1. \A t \in Rivals(s) \cup {s} :
        /\ t \in SessionIDs /\ Active(t) /\ Exists(t) /\ sessions[t] \in Session
        /\ sessions[t].epoch < MaxEpoch /\ sessions[t].target = d0
  BY DEF Transfer, Rivals, Active, Exists, TypeInv, TypeOK
<1>2. d0 \in DeviceIDs
  BY <1>1 DEF Session
<1>3. \A t \in SessionIDs : sessions'[t] =
        IF t = s THEN Promoted(sessions[s])
        ELSE IF t \in Rivals(s) THEN Demoted(sessions[t]) ELSE sessions[t]
  BY DEF Transfer, HandedOver
<1>4. \A t \in Rivals(s) \cup {s} :
        /\ sessions'[t] \in Session /\ sessions'[t].state = "active"
        /\ sessions'[t].target = d0
        /\ Controls(sessions'[t].granted) <=> t = s
  <2>1. ASSUME NEW t \in Rivals(s)
        PROVE  /\ sessions'[t] \in Session /\ sessions'[t].state = "active"
               /\ sessions'[t].target = d0 /\ t # s
               /\ sessions'[t].granted = sessions[t].granted \ ControlPermissions
    <3>1. t # s /\ sessions'[t] = Demoted(sessions[t])
      BY <1>1, <1>3 DEF Rivals
    <3> QED BY <1>1, <3>1, DemotedType DEF Active
  <2>2. /\ sessions'[s] \in Session /\ sessions'[s].state = "active"
        /\ sessions'[s].target = d0
        /\ sessions[s].requested \cap ControlPermissions \subseteq sessions'[s].granted
    BY <1>1, <1>3, PromotedType DEF Active
  <2> QED BY <2>1, <2>2 DEF Transfer, Controls
<1>5. \A t \in Rivals(s) \cup {s} :
        /\ Phase(t) = "admitted" /\ Phase(t)' = "admitted"
        /\ Place(t) = d0 /\ Place(t)' = d0
        /\ \A d \in DeviceIDs : /\ Drives(t, d) => d = d0
                                /\ Drives(t, d)' <=> d = d0 /\ t = s
  BY <1>1, <1>4, SessionsAssumption DEF Phase, Place, Drives, Exists, Active
<1>6. \A t \in SessionIDs \ (Rivals(s) \cup {s}) :
        /\ Phase(t)' = Phase(t) /\ Place(t)' = Place(t)
        /\ \A d \in DeviceIDs : Drives(t, d)' <=> Drives(t, d)
        /\ ~Drives(t, d0)
  BY <1>3, SameSeat DEF Rivals, Drives
<1>7. \A t \in SessionIDs : Phase(t)' = Phase(t) /\ Place(t)' = Place(t)
  BY <1>5, <1>6
<1>8. \A t \in SessionIDs, d \in DeviceIDs :
        Drives(t, d)' <=> IF d = d0 THEN t = s ELSE Drives(t, d)
  BY <1>5, <1>6
<1>9. Phase(s) = "admitted" /\ Place(s) = d0
  BY <1>5
<1> HIDE DEF d0
<1>10. Seating!HandOver(s)
  BY <1>2, <1>7, <1>8, <1>9 DEF Seating!HandOver, Seating!SitDown, Place
<1> QED BY <1>10 DEF Seating!Next
-----------------------------------------------------------------------------
LEMMA SeatsNext == TypeInv /\ SessionStep => [Seating!Next]_(Seating!vars)
BY SeatsStutter, SeatsAsk, SeatsLeave, SeatsAdmit, SeatsChange, SeatsHandOver
DEF SessionStep

(***************************************************************************)
(* Whatever the permissions asked for and granted, and however many users, *)
(* devices and sessions there are, remote control behaves as one driver's  *)
(* seat per device (decideSession, changePermissions, handover, end).      *)
(***************************************************************************)
THEOREM SeatsTheorem == Spec => SeatsAreKept
<1>1. TypeInv /\ [Next]_vars => [Seating!Next]_(Seating!vars)
  BY NextStep, SeatsNext
<1> QED BY <1>1, SeatsInit, InitType, NextType, PTL DEF Spec, SeatsAreKept, Seating!Spec
=============================================================================
