-------------------------- MODULE SignallingProofs --------------------------
(***************************************************************************)
(* Proofs about Signalling, for every number of devices and connections    *)
(* and every capacity of the queues.                                       *)
(***************************************************************************)
EXTENDS Signalling, TLAPS

(***************************************************************************)
(* The connection whose registration holds s.mu, and no other, replaces    *)
(* one: no step takes the old connection out of the map meanwhile.         *)
(***************************************************************************)
ReplacesOne ==
  /\ mu # Nil => At(mu, "replacing") /\ peers[id[mu]] # Nil
  /\ \A c \in Conns : At(c, "replacing") => mu = c

MapInv == ReplacesOne /\ ServedIsRegistered /\ RegisteredIsServed

\* A writer that writes has a message.
TypeInv == TypeOK /\ \A c \in Conns : writer[c] = "busy" => out[c] \in Messages

-----------------------------------------------------------------------------
LEMMA InitType == Init => TypeInv
BY SignallingAssumption DEF Init, TypeOK, Messages, TypeInv

\* A message that finds room.
LEMMA AppendType ==
  ASSUME TypeOK, NEW c \in Conns, NEW m \in Messages, HasRoom(c),
         queue' = [queue EXCEPT ![c] = Append(@, m)]
  PROVE  /\ queue' \in [Conns -> Seq(Messages)]
         /\ \A x \in Conns : Len(queue'[x]) <= QueueCap
<1>1. queue[c] \in Seq(Messages) /\ Len(queue[c]) + 1 <= QueueCap
  BY SignallingAssumption DEF TypeOK, HasRoom
<1>2. /\ Append(queue[c], m) \in Seq(Messages)
      /\ Len(Append(queue[c], m)) = Len(queue[c]) + 1
  BY <1>1
<1> QED BY <1>1, <1>2 DEF TypeOK

LEMMA NextType == TypeInv /\ [Next]_vars => TypeInv'
<1> SUFFICES ASSUME TypeInv, [Next]_vars PROVE TypeInv'
  OBVIOUS
<1> USE SignallingAssumption
<1> USE DEF TypeOK, TypeInv, endpoints, writing, Go, At
<1>0. Relayed \in Messages
  BY DEF Relayed, Messages
<1>1. ASSUME NEW c \in Conns, Register(c) PROVE TypeInv'
  <2>1. CASE Enter(c) /\ UNCHANGED mu
    <3>1. writer' \in [Conns -> {"none", "idle", "busy", "gone"}]
      BY <2>1 DEF Enter
    <3> QED BY <1>1, <2>1, <3>1 DEF Register, Enter, Loop
  <2>2. CASE mu' = c /\ Go(c, "replacing") /\ UNCHANGED <<peers, writer>>
    BY <1>1, <2>2 DEF Register, Loop
  <2> QED BY <1>1, <2>1, <2>2 DEF Register
<1>2. ASSUME NEW c \in Conns, Replace(c) PROVE TypeInv'
  <2>1. /\ mu' \in Conns \cup {Nil} /\ peers' \in [DeviceIDs -> Conns \cup {Nil}]
        /\ socket' \in [Conns -> {"open", "closed"}]
    BY <1>2 DEF Replace, Enter
  <2>2. /\ reader' \in [Conns -> Loop \cup {"none", "replacing", "leaving", "done"}]
        /\ writer' \in [Conns -> {"none", "idle", "busy", "gone"}]
        /\ \A x \in Conns : writer'[x] = "busy" => writer[x] = "busy"
    BY <1>2 DEF Replace, Enter, Loop
  <2> QED BY <1>2, <2>1, <2>2 DEF Replace
<1>3. ASSUME NEW c \in Conns, Read(c) \/ ReadFails(c) \/ Reply(c) PROVE TypeInv'
  BY <1>3 DEF Read, ReadFails, Reply, Loop
<1>4. ASSUME NEW c \in Conns, Route(c) PROVE TypeInv'
  <2>0. PICK target \in DeviceIDs :
          /\ Go(c, "sending") \/ Go(c, "reading")
          /\ dest' \in {dest, [dest EXCEPT ![c] = peers[target]], [dest EXCEPT ![c] = c]}
    BY <1>4 DEF Route
  <2>1. reader' \in [Conns -> Loop \cup {"none", "replacing", "leaving", "done"}]
    BY <2>0 DEF Loop
  <2>2. dest' \in [Conns -> Conns \cup {Nil}]
    <3>1. peers[target] \in Conns \cup {Nil} /\ dest \in [Conns -> Conns \cup {Nil}]
      BY <2>0
    <3> HIDE DEF TypeOK, TypeInv
    <3> QED BY <2>0, <3>1
  <2> QED BY <1>4, <2>1, <2>2 DEF Route
<1>5. ASSUME NEW c \in Conns, Send(c) PROVE TypeInv'
  <2>1. /\ reader' \in [Conns -> Loop \cup {"none", "replacing", "leaving", "done"}]
        /\ dest' \in [Conns -> Conns \cup {Nil}]
    BY <1>5 DEF Send, Loop
  <2>2. /\ queue' \in [Conns -> Seq(Messages)]
        /\ \A x \in Conns : Len(queue'[x]) <= QueueCap
    <3>1. CASE ~HasRoom(dest[c]) \/ dest[c] \notin Conns
      BY <1>5, <3>1 DEF Send
    <3>2. CASE HasRoom(dest[c]) /\ dest[c] \in Conns
      BY <1>0, <1>5, <3>2, AppendType DEF Send
    <3> QED BY <3>1, <3>2
  <2> QED BY <1>5, <2>1, <2>2 DEF Send
<1>6. ASSUME NEW c \in Conns, Leave(c) PROVE TypeInv'
  BY <1>6 DEF Leave
<1>7. ASSUME NEW c \in Conns, Take(c) PROVE TypeInv'
  <2>1. /\ queue[c] \in Seq(Messages) /\ queue[c] # <<>>
        /\ Len(queue[c]) <= QueueCap /\ QueueCap \in Nat
    BY <1>7 DEF Take
  <2>2. /\ Head(queue[c]) \in Messages /\ Tail(queue[c]) \in Seq(Messages)
        /\ Len(Tail(queue[c])) <= QueueCap
    BY <2>1
  <2>3. /\ queue' \in [Conns -> Seq(Messages)]
        /\ \A x \in Conns : Len(queue'[x]) <= QueueCap
    BY <1>7, <2>2 DEF Take
  <2>4. /\ out' \in [Conns -> Messages \cup {Nil}]
        /\ writer' \in [Conns -> {"none", "idle", "busy", "gone"}]
        /\ \A x \in Conns : writer'[x] = "busy" => out'[x] \in Messages
    BY <1>7, <2>2 DEF Take
  <2> QED BY <1>7, <2>3, <2>4 DEF Take
<1>8. ASSUME NEW c \in Conns, Write(c) PROVE TypeInv'
  <2>1. heard' \in [Conns -> Seq(1 .. MaxNotes)]
    <3>1. CASE out[c] = Relayed
      BY <1>8, <3>1 DEF Write
    <3>2. CASE out[c] # Relayed
      <4>1. out[c] \in 1 .. MaxNotes
        BY <1>8, <3>2 DEF Write, Messages, Relayed
      <4>2. heard[c] \in Seq(1 .. MaxNotes)
        OBVIOUS
      <4>3. Append(heard[c], out[c]) \in Seq(1 .. MaxNotes)
        BY <4>1, <4>2
      <4> QED BY <1>8, <3>2, <4>3 DEF Write
    <3> QED BY <3>1, <3>2
  <2> QED BY <1>8, <2>1 DEF Write
<1>9. ASSUME NEW c \in Conns, Cancel(c) PROVE TypeInv'
  BY <1>9 DEF Cancel
<1>10. ASSUME NEW c \in Conns, WriterStep(c) PROVE TypeInv'
  BY <1>7, <1>8, <1>9, <1>10 DEF WriterStep, WriteFails, PingFails, WriterEnds
<1>11. ASSUME NEW c \in Conns, Close(c) \/ ClientStalls(c) \/ ClientLeaves(c)
       PROVE  TypeInv'
  BY <1>11 DEF Close, ClientStalls, ClientLeaves
<1>12. ASSUME UNCHANGED vars PROVE TypeInv'
  BY <1>12 DEF vars
<1>13. ASSUME NEW d \in DeviceIDs, HangUp(d) PROVE TypeInv'
  BY <1>13 DEF HangUp
<1>14. ASSUME NEW d \in DeviceIDs, Notify(d) PROVE TypeInv'
  <2>1. CASE peers[d] # Nil
    <3> DEFINE c == peers[d]
    <3>1. c \in Conns /\ sent[c] + 1 \in 0 .. MaxNotes /\ sent[c] + 1 \in Messages
      BY <1>14, <2>1 DEF Notify, Messages
    <3>2. sent' \in [Conns -> 0 .. MaxNotes] /\ asked' \in [Conns -> BOOLEAN]
      <4>1. sent' = [sent EXCEPT ![c] = sent[c] + 1]
        BY <1>14, <2>1, <3>1 DEF Notify
      <4>2. asked' = [asked EXCEPT ![c] = TRUE] \/ asked' = asked
        BY <1>14, <2>1 DEF Notify
      <4> QED BY <3>1, <4>1, <4>2
    <3>3. /\ queue' \in [Conns -> Seq(Messages)]
          /\ \A x \in Conns : Len(queue'[x]) <= QueueCap
      <4>1. CASE HasRoom(c) /\ queue' = [queue EXCEPT ![c] = Append(@, sent[c] + 1)]
        BY <3>1, <4>1, AppendType
      <4>2. CASE UNCHANGED queue
        BY <4>2
      <4> QED BY <1>14, <2>1, <4>1, <4>2 DEF Notify
    <3> QED BY <1>14, <2>1, <3>2, <3>3 DEF Notify
  <2> QED BY <1>12, <1>14, <2>1 DEF Notify
<1> HIDE DEF TypeOK, TypeInv, endpoints, writing, Go, At
<1>15. ASSUME NEW c \in Conns, ReaderStep(c) PROVE TypeInv'
  BY <1>2, <1>3, <1>4, <1>5, <1>6, <1>15 DEF ReaderStep
<1>16. CASE Next
  BY <1>1, <1>3, <1>10, <1>11, <1>13, <1>14, <1>15, <1>16 DEF Next
<1> QED BY <1>12, <1>16

-----------------------------------------------------------------------------
LEMMA InitMap == Init => MapInv
BY SignallingAssumption
   DEF Init, MapInv, ReplacesOne, ServedIsRegistered, RegisteredIsServed, At, Loop

LEMMA NextMap == TypeInv /\ MapInv /\ [Next]_vars => MapInv'
<1> SUFFICES ASSUME TypeInv, MapInv, [Next]_vars PROVE MapInv'
  OBVIOUS
<1> USE SignallingAssumption
<1>0. /\ peers \in [DeviceIDs -> Conns \cup {Nil}] /\ id \in [Conns -> DeviceIDs]
      /\ mu \in Conns \cup {Nil} /\ socket \in [Conns -> {"open", "closed"}]
      /\ reader \in [Conns -> Loop \cup {"none", "replacing", "leaving", "done"}]
  BY DEF TypeInv, TypeOK
<1> USE DEF MapInv, ReplacesOne, ServedIsRegistered, RegisteredIsServed, At, Go, Loop
<1>1. ASSUME NEW c \in Conns, Register(c) PROVE MapInv'
  <2>1. CASE peers[id[c]] = Nil
    BY <1>0, <1>1, <2>1 DEF Register, Enter, endpoints
  <2>2. CASE peers[id[c]] # Nil
    BY <1>0, <1>1, <2>2 DEF Register, Enter, endpoints
  <2> QED BY <2>1, <2>2
<1>2. ASSUME NEW c \in Conns, Replace(c) PROVE MapInv'
  BY <1>0, <1>2 DEF Replace, Enter
<1>3. ASSUME NEW c \in Conns, Read(c) \/ ReadFails(c) \/ Reply(c) PROVE MapInv'
  BY <1>0, <1>3 DEF Read, ReadFails, Reply, endpoints
<1>4. ASSUME NEW c \in Conns, Route(c) \/ Send(c) PROVE MapInv'
  BY <1>0, <1>4 DEF Route, Send, endpoints
<1>5. ASSUME NEW c \in Conns, Leave(c) PROVE MapInv'
  BY <1>0, <1>5 DEF Leave
\* The other steps leave the map, the readers and s.mu alone, and open no socket.
<1>6. ASSUME UNCHANGED <<mu, peers, id, reader>>,
             \A c \in Conns : socket'[c] = "open" => socket[c] = "open"
      PROVE  MapInv'
  BY <1>6
<1> HIDE DEF MapInv, ReplacesOne, ServedIsRegistered, RegisteredIsServed, At, Go, Loop
<1>7. ASSUME NEW c \in Conns, WriterStep(c) PROVE MapInv'
  BY <1>6, <1>7 DEF WriterStep, Take, Write, WriteFails, PingFails, WriterEnds, Cancel, endpoints
<1>8. ASSUME NEW c \in Conns, Close(c) \/ ClientStalls(c) \/ ClientLeaves(c) PROVE MapInv'
  <2>1. \A x \in Conns : socket'[x] = "open" => socket[x] = "open"
    BY <1>0, <1>8 DEF Close, ClientStalls, ClientLeaves
  <2> QED BY <1>6, <1>8, <2>1 DEF Close, ClientStalls, ClientLeaves
<1>9. ASSUME NEW d \in DeviceIDs, Notify(d) \/ HangUp(d) PROVE MapInv'
  BY <1>6, <1>9 DEF Notify, HangUp, vars
<1>10. CASE UNCHANGED vars
  BY <1>6, <1>10 DEF vars
<1>11. CASE Next
  BY <1>1, <1>2, <1>3, <1>4, <1>5, <1>7, <1>8, <1>9, <1>11 DEF Next, ReaderStep
<1> QED BY <1>10, <1>11

-----------------------------------------------------------------------------
(* The order of the notifications.                                         *)

LEMMA AppendedAt ==
  ASSUME NEW S, NEW s \in Seq(S), NEW m
  PROVE  /\ Len(s) \in Nat /\ Len(Append(s, m)) = Len(s) + 1
         /\ Append(s, m)[Len(s) + 1] = m
         /\ \A i \in 1 .. Len(s) : Append(s, m)[i] = s[i]
OBVIOUS

LEMMA PutFrontAt ==
  ASSUME NEW S, NEW s \in Seq(S), NEW m \in S
  PROVE  /\ <<m>> \o s \in Seq(S)
         /\ Len(s) \in Nat /\ Len(<<m>> \o s) = Len(s) + 1
         /\ (<<m>> \o s)[1] = m
         /\ \A i \in 1 .. Len(s) : (<<m>> \o s)[i + 1] = s[i]
OBVIOUS

\* A message of a client, behind the others.
LEMMA RelayedBehind ==
  ASSUME NEW s \in Seq(Messages), NEW m \in Nat, NEW n \in Nat, NotesBetween(s, m, n)
  PROVE  NotesBetween(Append(s, Relayed), m, n)
<1> DEFINE t == Append(s, Relayed)
<1>1. Len(t) = Len(s) + 1 /\ t[Len(s) + 1] = Relayed /\ Len(s) \in Nat
      /\ \A i \in 1 .. Len(s) : t[i] = s[i]
  BY AppendedAt
<1> HIDE DEF t
<1>2. Notes(t) = Notes(s) /\ \A i \in Notes(s) : t[i] = s[i]
  BY <1>1 DEF Notes
<1>3. NotesBetween(t, m, n)
  BY <1>2 DEF NotesBetween
<1> QED BY <1>3 DEF t

\* The next notification, behind the others.
LEMMA NoteBehind ==
  ASSUME NEW s \in Seq(Messages), NEW m \in Nat, NEW n \in Nat, m <= n, NotesBetween(s, m, n)
  PROVE  NotesBetween(Append(s, n + 1), m, n + 1)
<1> DEFINE t == Append(s, n + 1)
<1>1. Len(t) = Len(s) + 1 /\ t[Len(s) + 1] = n + 1 /\ Len(s) \in Nat
      /\ \A i \in 1 .. Len(s) : t[i] = s[i]
  BY AppendedAt
<1> HIDE DEF t
<1>2. Notes(t) = Notes(s) \cup {Len(s) + 1} /\ Notes(s) \subseteq 1 .. Len(s)
      /\ \A i \in Notes(s) : t[i] = s[i]
  BY <1>1 DEF Notes, Relayed
<1>3. {t[i] : i \in Notes(t)} = {s[i] : i \in Notes(s)} \cup {n + 1}
  BY <1>1, <1>2
<1>4. {t[i] : i \in Notes(t)} = m + 1 .. n + 1
  <2>1. (m + 1 .. n) \cup {n + 1} = m + 1 .. n + 1
    OBVIOUS
  <2> QED BY <1>3, <2>1 DEF NotesBetween
<1>5. \A i \in Notes(s) : t[i] \in m + 1 .. n
  BY <1>2 DEF NotesBetween
<1>6. \A i, j \in Notes(t) : i < j => t[i] < t[j]
  <2> SUFFICES ASSUME NEW i \in Notes(t), NEW j \in Notes(t), i < j PROVE t[i] < t[j]
    OBVIOUS
  <2>1. i \in Notes(s)
    BY <1>1, <1>2 DEF Notes
  <2>2. CASE j \in Notes(s)
    BY <1>2, <2>1, <2>2 DEF NotesBetween
  <2>3. CASE j = Len(s) + 1
    BY <1>1, <1>5, <2>1, <2>3
  <2> QED BY <1>2, <2>2, <2>3
<1>7. NotesBetween(t, m, n + 1)
  BY <1>4, <1>6 DEF NotesBetween
<1> QED BY <1>7 DEF t

\* A message of a client is written.
LEMMA RelayedGoes ==
  ASSUME NEW s \in Seq(Messages), NEW m \in Nat, NEW n \in Nat, Relayed \in Messages,
         NotesBetween(<<Relayed>> \o s, m, n)
  PROVE  NotesBetween(s, m, n)
<1> DEFINE t == <<Relayed>> \o s
<1>1. Len(t) = Len(s) + 1 /\ t[1] = Relayed /\ Len(s) \in Nat
      /\ \A i \in 1 .. Len(s) : t[i + 1] = s[i]
  BY PutFrontAt
<1>2. NotesBetween(t, m, n)
  OBVIOUS
<1> HIDE DEF t
<1>3. \A i \in Notes(s) : i \in 1 .. Len(s) /\ i + 1 \in Notes(t) /\ s[i] = t[i + 1]
  BY <1>1 DEF Notes
<1>4. \A j \in Notes(t) : j - 1 \in Notes(s) /\ t[j] = s[j - 1]
  <2> SUFFICES ASSUME NEW j \in Notes(t) PROVE j - 1 \in Notes(s) /\ t[j] = s[j - 1]
    OBVIOUS
  <2>1. j \in 1 .. Len(s) + 1 /\ j # 1 /\ t[j] # Relayed
    BY <1>1 DEF Notes
  <2>2. j - 1 \in 1 .. Len(s) /\ t[(j - 1) + 1] = s[j - 1] /\ (j - 1) + 1 = j
    BY <1>1, <2>1
  <2> QED BY <2>1, <2>2 DEF Notes
<1>5. {s[i] : i \in Notes(s)} = {t[j] : j \in Notes(t)}
  BY <1>3, <1>4
<1>6. \A i, j \in Notes(s) : i < j => s[i] < s[j]
  BY <1>2, <1>3 DEF NotesBetween
<1> QED BY <1>2, <1>5, <1>6 DEF NotesBetween

\* A notification that is written is the next one.
LEMMA NoteGoes ==
  ASSUME NEW s \in Seq(Messages), NEW m \in Nat, NEW n \in Nat,
         NEW x \in Messages, x # Relayed, NotesBetween(<<x>> \o s, m, n)
  PROVE  x = m + 1 /\ m + 1 <= n /\ NotesBetween(s, m + 1, n)
<1> DEFINE t == <<x>> \o s
<1>1. Len(t) = Len(s) + 1 /\ t[1] = x /\ Len(s) \in Nat
      /\ \A i \in 1 .. Len(s) : t[i + 1] = s[i]
  BY PutFrontAt
<1>2. NotesBetween(t, m, n)
  OBVIOUS
<1> HIDE DEF t
<1>3. \A i \in Notes(s) : i \in 1 .. Len(s) /\ i + 1 \in Notes(t) /\ s[i] = t[i + 1]
  BY <1>1 DEF Notes
<1>4. \A j \in Notes(t) : j # 1 => j - 1 \in Notes(s) /\ t[j] = s[j - 1]
  <2> SUFFICES ASSUME NEW j \in Notes(t), j # 1 PROVE j - 1 \in Notes(s) /\ t[j] = s[j - 1]
    OBVIOUS
  <2>1. j \in 1 .. Len(s) + 1 /\ t[j] # Relayed
    BY <1>1 DEF Notes
  <2>2. j - 1 \in 1 .. Len(s) /\ t[(j - 1) + 1] = s[j - 1] /\ (j - 1) + 1 = j
    BY <1>1, <2>1
  <2> QED BY <2>1, <2>2 DEF Notes
<1>5. 1 \in Notes(t) /\ x \in Int
  BY <1>1 DEF Notes, Messages
<1>6. x \in m + 1 .. n
  BY <1>1, <1>2, <1>5 DEF NotesBetween
<1>7. \A i \in Notes(s) : x < s[i] /\ s[i] \in m + 1 .. n
  BY <1>1, <1>2, <1>3, <1>5 DEF NotesBetween
<1>8. x = m + 1
  <2>0. m + 1 \in m + 1 .. n
    BY <1>6
  <2>1. PICK j \in Notes(t) : t[j] = m + 1
    BY <1>2, <2>0 DEF NotesBetween
  <2>2. CASE j = 1
    BY <1>1, <2>1, <2>2
  <2>3. CASE j # 1
    BY <1>4, <1>6, <1>7, <2>1, <2>3
  <2> QED BY <2>2, <2>3
<1>9. {s[i] : i \in Notes(s)} = m + 2 .. n
  <2>1. \A i \in Notes(s) : s[i] \in m + 2 .. n
    BY <1>7, <1>8
  <2>2. ASSUME NEW k \in m + 2 .. n PROVE \E i \in Notes(s) : s[i] = k
    <3>0. k \in m + 1 .. n /\ k # m + 1
      BY <2>2
    <3>1. PICK j \in Notes(t) : t[j] = k
      BY <1>2, <3>0 DEF NotesBetween
    <3>2. j # 1
      BY <1>1, <1>8, <3>0, <3>1
    <3> QED BY <1>4, <3>1, <3>2
  <2> QED BY <2>1, <2>2
<1>10. \A i, j \in Notes(s) : i < j => s[i] < s[j]
  BY <1>2, <1>3 DEF NotesBetween
<1>11. (m + 1) + 1 = m + 2
  OBVIOUS
<1> QED BY <1>6, <1>8, <1>9, <1>10, <1>11 DEF NotesBetween

\* A message sent while the writer holds another goes behind both.
LEMMA BehindTheOneTaken ==
  ASSUME NEW s \in Seq(Messages), NEW x \in Messages, NEW m \in Messages
  PROVE  <<x>> \o Append(s, m) = Append(<<x>> \o s, m)
OBVIOUS

(***************************************************************************)
(* What a connection that is not broken has to do with the history of its  *)
(* notifications: those heard are the first ones, the others wait in order.*)
(***************************************************************************)
InOrder(c) ==
  /\ \A n \in 1 .. Len(heard[c]) : heard[c][n] = n
  /\ Len(heard[c]) <= sent[c]
  /\ NotesBetween(Waiting(c), Len(heard[c]), sent[c])

\* Only a writer that is busy holds a message, and it starts with its reader.
WritersHold == \A c \in Conns :
  /\ writer[c] # "busy" => out[c] = Nil
  /\ reader[c] \in {"none", "replacing"} => writer[c] = "none"

NoteInv == WritersHold /\ \A c \in Conns : ~Broken(c) => InOrder(c)

LEMMA InitNotes == Init => NoteInv
<1> SUFFICES ASSUME Init PROVE NoteInv
  OBVIOUS
<1>1. WritersHold
  BY DEF Init, WritersHold
<1>2. ASSUME NEW c \in Conns PROVE InOrder(c)
  <2>1. Waiting(c) = <<>> /\ heard[c] = <<>> /\ sent[c] = 0
    BY <1>2 DEF Init, Waiting
  <2>2. NotesBetween(<<>>, 0, 0)
    BY DEF NotesBetween, Notes
  <2> QED BY <2>1, <2>2 DEF InOrder
<1> QED BY <1>1, <1>2 DEF NoteInv

LEMMA NextHolds == TypeInv /\ MapInv /\ WritersHold /\ [Next]_vars => WritersHold'
<1> SUFFICES ASSUME TypeInv, MapInv, WritersHold, [Next]_vars PROVE WritersHold'
  OBVIOUS
<1>0. /\ reader \in [Conns -> Loop \cup {"none", "replacing", "leaving", "done"}]
      /\ writer \in [Conns -> {"none", "idle", "busy", "gone"}]
      /\ out \in [Conns -> Messages \cup {Nil}]
      /\ mu # Nil => At(mu, "replacing")
  BY DEF TypeInv, TypeOK, MapInv, ReplacesOne
<1> USE DEF WritersHold, At, Go, Loop
<1>1. ASSUME NEW c \in Conns, Register(c) PROVE WritersHold'
  BY <1>0, <1>1 DEF Register, Enter
<1>2. ASSUME NEW c \in Conns, Replace(c) PROVE WritersHold'
  BY <1>0, <1>2, SignallingAssumption DEF Replace, Enter
<1>3. ASSUME NEW c \in Conns, Read(c) \/ ReadFails(c) \/ Reply(c) PROVE WritersHold'
  BY <1>0, <1>3 DEF Read, ReadFails, Reply, writing
<1>4. ASSUME NEW c \in Conns, Route(c) \/ Send(c) \/ Leave(c) PROVE WritersHold'
  BY <1>0, <1>4 DEF Route, Send, Leave, writing
<1>5. ASSUME NEW c \in Conns, WriterStep(c) PROVE WritersHold'
  BY <1>0, <1>5 DEF WriterStep, Take, Write, WriteFails, PingFails, WriterEnds, Cancel
<1>6. ASSUME UNCHANGED <<reader, writer, out>> PROVE WritersHold'
  BY <1>6
<1>7. ASSUME NEW c \in Conns, Close(c) \/ ClientStalls(c) \/ ClientLeaves(c)
      PROVE  WritersHold'
  BY <1>6, <1>7 DEF Close, ClientStalls, ClientLeaves, writing
<1>8. ASSUME NEW d \in DeviceIDs, Notify(d) \/ HangUp(d) PROVE WritersHold'
  BY <1>6, <1>8 DEF Notify, HangUp, vars, writing
<1> HIDE DEF WritersHold, At, Go, Loop
<1>9. CASE Next
  BY <1>1, <1>2, <1>3, <1>4, <1>5, <1>7, <1>8, <1>9 DEF Next, ReaderStep
<1> QED BY <1>6, <1>9 DEF vars

\* Nothing mends a connection.
LEMMA BrokenStays ==
  ASSUME TypeInv, [Next]_vars, NEW c \in Conns, Broken(c)
  PROVE  Broken(c)'
<1>0. /\ socket \in [Conns -> {"open", "closed"}]
      /\ asked \in [Conns -> BOOLEAN] /\ ended \in [Conns -> BOOLEAN]
  BY DEF TypeInv, TypeOK
<1> USE DEF Broken
<1>1. ASSUME NEW x \in Conns, Register(x) \/ Read(x) PROVE Broken(c)'
  BY <1>1 DEF Register, Read, endpoints
<1>2. ASSUME NEW x \in Conns, ReaderStep(x) PROVE Broken(c)'
  BY <1>0, <1>2 DEF ReaderStep, Replace, ReadFails, Reply, Route, Send, Leave, endpoints
<1>3. ASSUME NEW x \in Conns, WriterStep(x) PROVE Broken(c)'
  BY <1>0, <1>3
     DEF WriterStep, Take, Write, WriteFails, PingFails, WriterEnds, Cancel, endpoints
<1>4. ASSUME NEW x \in Conns, Close(x) \/ ClientStalls(x) \/ ClientLeaves(x)
      PROVE  Broken(c)'
  BY <1>0, <1>4 DEF Close, ClientStalls, ClientLeaves
<1>5. ASSUME NEW d \in DeviceIDs, Notify(d) \/ HangUp(d) PROVE Broken(c)'
  BY <1>0, <1>5 DEF Notify, HangUp, vars
<1>6. CASE Next
  BY <1>1, <1>2, <1>3, <1>4, <1>5, <1>6 DEF Next
<1> QED BY <1>6 DEF vars

\* A step that changes nothing of c's queue, writer and history.
LEMMA KeepsOrder ==
  ASSUME NEW c \in Conns, InOrder(c),
         Waiting(c)' = Waiting(c), heard'[c] = heard[c], sent'[c] = sent[c]
  PROVE  InOrder(c)'
BY DEF InOrder, NotesBetween

LEMMA WaitingGrows ==
  ASSUME TypeInv, NEW c \in Conns, NEW m \in Messages,
         out'[c] = out[c], queue'[c] = Append(queue[c], m)
  PROVE  Waiting(c) \in Seq(Messages) /\ Waiting(c)' = Append(Waiting(c), m)
<1>1. queue[c] \in Seq(Messages) /\ out[c] \in Messages \cup {Nil}
  BY DEF TypeInv, TypeOK
<1>2. CASE out[c] = Nil
  BY <1>1, <1>2 DEF Waiting
<1>3. CASE out[c] # Nil
  <2>1. out[c] \in Messages /\ <<out[c]>> \o queue[c] \in Seq(Messages)
    BY <1>1, <1>3
  <2>2. <<out[c]>> \o Append(queue[c], m) = Append(<<out[c]>> \o queue[c], m)
    BY <1>1, <2>1, BehindTheOneTaken
  <2> QED BY <1>3, <2>1, <2>2 DEF Waiting
<1> QED BY <1>2, <1>3

LEMMA SendKeeps ==
  ASSUME TypeInv, NEW x \in Conns, Send(x), NEW c \in Conns, InOrder(c)
  PROVE  InOrder(c)'
<1>1. /\ queue \in [Conns -> Seq(Messages)] /\ sent[c] \in Nat
      /\ heard[c] \in Seq(1 .. MaxNotes) /\ Relayed \in Messages
  BY SignallingAssumption DEF TypeInv, TypeOK, Messages, Relayed
<1>2. out' = out /\ heard' = heard /\ sent' = sent
  BY DEF Send
<1>3. CASE queue'[c] = queue[c]
  <2>1. Waiting(c)' = Waiting(c)
    BY <1>2, <1>3 DEF Waiting
  <2> QED BY <1>2, <2>1, KeepsOrder
<1>4. CASE queue'[c] = Append(queue[c], Relayed)
  <2>1. Waiting(c) \in Seq(Messages) /\ Waiting(c)' = Append(Waiting(c), Relayed)
    BY <1>1, <1>2, <1>4, WaitingGrows
  <2>2. NotesBetween(Append(Waiting(c), Relayed), Len(heard[c]), sent[c])
    <3>1. Len(heard[c]) \in Nat
      BY <1>1
    <3> QED BY <1>1, <2>1, <3>1, RelayedBehind DEF InOrder
  <2> QED BY <1>2, <2>1, <2>2 DEF InOrder, NotesBetween
<1>5. queue'[c] = queue[c] \/ queue'[c] = Append(queue[c], Relayed)
  BY <1>1 DEF Send
<1> QED BY <1>3, <1>4, <1>5

LEMMA NotifyKeeps ==
  ASSUME TypeInv, NEW d \in DeviceIDs, Notify(d), NEW c \in Conns, InOrder(c), ~Broken(c)'
  PROVE  InOrder(c)'
<1>1. /\ queue \in [Conns -> Seq(Messages)] /\ sent \in [Conns -> 0 .. MaxNotes]
      /\ asked \in [Conns -> BOOLEAN]
      /\ heard[c] \in Seq(1 .. MaxNotes) /\ MaxNotes \in Nat
  BY SignallingAssumption DEF TypeInv, TypeOK
<1>2. out' = out /\ heard' = heard
  BY DEF Notify, vars
<1>3. CASE peers[d] = c /\ peers[d] # Nil
  <2>1. HasRoom(c)
    BY <1>1, <1>3 DEF Notify, Broken
  <2>2. /\ queue'[c] = Append(queue[c], sent[c] + 1) /\ sent'[c] = sent[c] + 1
        /\ sent[c] + 1 \in Messages
    BY <1>1, <1>3, <2>1 DEF Notify, Messages
  <2>3. /\ Waiting(c) \in Seq(Messages)
        /\ Waiting(c)' = Append(Waiting(c), sent[c] + 1)
    BY <1>2, <2>2, WaitingGrows
  <2>4. Len(heard[c]) \in Nat /\ sent[c] \in Nat
    BY <1>1
  <2>5. NotesBetween(Append(Waiting(c), sent[c] + 1), Len(heard[c]), sent[c] + 1)
    BY <2>3, <2>4, NoteBehind DEF InOrder
  <2>6. Len(heard[c]) <= sent[c] + 1
    BY <2>4 DEF InOrder
  <2> QED BY <1>2, <2>2, <2>3, <2>5, <2>6 DEF InOrder, NotesBetween
<1>4. CASE peers[d] # c \/ peers[d] = Nil
  <2>1. queue'[c] = queue[c] /\ sent'[c] = sent[c]
    BY <1>1, <1>4 DEF Notify, vars
  <2>2. Waiting(c)' = Waiting(c)
    BY <1>2, <2>1 DEF Waiting
  <2> QED BY <1>2, <2>1, <2>2, KeepsOrder
<1> QED BY <1>3, <1>4

\* The message taken from the queue is still waiting.
LEMMA TakeKeeps ==
  ASSUME TypeInv, WritersHold, NEW x \in Conns, Take(x), NEW c \in Conns, InOrder(c)
  PROVE  InOrder(c)'
<1>1. /\ queue \in [Conns -> Seq(Messages)] /\ out \in [Conns -> Messages \cup {Nil}]
      /\ Nil \notin Messages
  BY SignallingAssumption DEF TypeInv, TypeOK, Messages
<1>2. heard' = heard /\ sent' = sent
  BY DEF Take
<1>3. Waiting(c)' = Waiting(c)
  <2>1. CASE c = x
    <3>1. out[c] = Nil /\ queue[c] \in Seq(Messages) /\ queue[c] # <<>>
      BY <1>1, <2>1 DEF Take, WritersHold
    <3>2. Head(queue[c]) \in Messages /\ <<Head(queue[c])>> \o Tail(queue[c]) = queue[c]
      BY <3>1
    <3>3. out'[c] = Head(queue[c]) /\ queue'[c] = Tail(queue[c])
      BY <1>1, <2>1 DEF Take
    <3> QED BY <1>1, <3>1, <3>2, <3>3 DEF Waiting
  <2>2. CASE c # x
    BY <1>1, <2>2 DEF Waiting, Take
  <2> QED BY <2>1, <2>2
<1> QED BY <1>2, <1>3, KeepsOrder

\* The notification written is the next one to hear.
LEMMA WriteKeeps ==
  ASSUME TypeInv, NEW x \in Conns, Write(x), NEW c \in Conns, InOrder(c)
  PROVE  InOrder(c)'
<1>1. /\ queue \in [Conns -> Seq(Messages)] /\ out \in [Conns -> Messages \cup {Nil}]
      /\ sent[c] \in Nat /\ heard \in [Conns -> Seq(1 .. MaxNotes)]
      /\ Nil \notin Messages /\ Relayed \in Messages
      /\ writer[x] = "busy" => out[x] \in Messages
  BY SignallingAssumption DEF TypeInv, TypeOK, Messages, Relayed
<1>2. queue' = queue /\ sent' = sent
  BY DEF Write
<1>3. CASE c # x
  <2>1. out'[c] = out[c] /\ heard'[c] = heard[c]
    BY <1>1, <1>3 DEF Write
  <2>2. Waiting(c)' = Waiting(c)
    BY <1>2, <2>1 DEF Waiting
  <2> QED BY <1>2, <2>1, <2>2, KeepsOrder
<1>4. CASE c = x
  <2>1. /\ out[c] \in Messages /\ out'[c] = Nil
        /\ Waiting(c) = <<out[c]>> \o queue[c] /\ Waiting(c)' = queue[c]
        /\ queue[c] \in Seq(Messages) /\ Len(heard[c]) \in Nat
    BY <1>1, <1>2, <1>4 DEF Write, Waiting
  <2>2. CASE out[c] = Relayed
    <3>0. NotesBetween(<<Relayed>> \o queue[c], Len(heard[c]), sent[c])
      BY <2>1, <2>2 DEF InOrder
    <3>1. NotesBetween(queue[c], Len(heard[c]), sent[c])
      BY <1>1, <2>1, <3>0, RelayedGoes
    <3>2. heard' = heard
      BY <1>4, <2>2 DEF Write
    <3> QED BY <1>2, <2>1, <3>1, <3>2 DEF InOrder, NotesBetween
  <2>3. CASE out[c] # Relayed
    <3>0. NotesBetween(<<out[c]>> \o queue[c], Len(heard[c]), sent[c])
      BY <2>1 DEF InOrder
    <3>1. /\ out[c] = Len(heard[c]) + 1 /\ Len(heard[c]) + 1 <= sent[c]
          /\ NotesBetween(queue[c], Len(heard[c]) + 1, sent[c])
      BY <1>1, <2>1, <2>3, <3>0, NoteGoes
    <3>2. heard'[c] = Append(heard[c], out[c]) /\ heard[c] \in Seq(1 .. MaxNotes)
      BY <1>1, <1>4, <2>3 DEF Write
    <3>3. /\ Len(heard'[c]) = Len(heard[c]) + 1
          /\ heard'[c][Len(heard[c]) + 1] = out[c]
          /\ \A i \in 1 .. Len(heard[c]) : heard'[c][i] = heard[c][i]
      BY <3>2, AppendedAt
    <3>4. ASSUME NEW i \in 1 .. Len(heard'[c]) PROVE heard'[c][i] = i
      <4>1. CASE i = Len(heard[c]) + 1
        BY <3>1, <3>3, <4>1
      <4>2. CASE i \in 1 .. Len(heard[c])
        BY <3>3, <4>2 DEF InOrder
      <4> QED BY <2>1, <3>3, <3>4, <4>1, <4>2
    <3>5. Len(heard'[c]) <= sent'[c]
      BY <1>2, <3>1, <3>3
    <3>6. NotesBetween(queue[c], Len(heard'[c]), sent'[c])
      BY <1>2, <3>1, <3>3
    <3> QED BY <2>1, <3>4, <3>5, <3>6 DEF InOrder, NotesBetween
  <2> QED BY <2>2, <2>3
<1> QED BY <1>3, <1>4

LEMMA NextNotes == TypeInv /\ MapInv /\ NoteInv /\ [Next]_vars => NoteInv'
<1> SUFFICES ASSUME TypeInv, MapInv, NoteInv, [Next]_vars PROVE NoteInv'
  OBVIOUS
<1>1. WritersHold /\ WritersHold'
  BY NextHolds DEF NoteInv
<1>2. ASSUME NEW c \in Conns, ~Broken(c)' PROVE InOrder(c)'
  <2>1. InOrder(c)
    BY <1>2, BrokenStays DEF NoteInv
  \* Most steps leave the queues and what the writers hold alone.
  <2>2. ASSUME UNCHANGED <<out, queue, sent, heard>> PROVE InOrder(c)'
    <3>1. Waiting(c)' = Waiting(c)
      BY <2>2 DEF Waiting
    <3> QED BY <2>1, <2>2, <3>1, KeepsOrder
  <2>3. ASSUME NEW x \in Conns, Register(x) \/ Read(x) PROVE InOrder(c)'
    BY <2>2, <2>3 DEF Register, Read, Enter, writing
  <2>4. ASSUME NEW x \in Conns,
               Replace(x) \/ ReadFails(x) \/ Reply(x) \/ Route(x) \/ Leave(x)
        PROVE  InOrder(c)'
    BY <2>2, <2>4 DEF Replace, ReadFails, Reply, Route, Leave, writing
  <2>5. ASSUME NEW x \in Conns, Send(x) PROVE InOrder(c)'
    BY <2>1, <2>5, SendKeeps
  <2>6. ASSUME NEW x \in Conns, Take(x) PROVE InOrder(c)'
    BY <1>1, <2>1, <2>6, TakeKeeps
  <2>7. ASSUME NEW x \in Conns, Write(x) PROVE InOrder(c)'
    BY <2>1, <2>7, WriteKeeps
  \* A writer that gives up loses what it holds, and breaks the connection.
  <2>8. ASSUME NEW x \in Conns, Cancel(x) PROVE InOrder(c)'
    <3>1. x # c
      BY <1>2, <2>8 DEF Cancel, Broken, TypeInv, TypeOK
    <3>2. /\ out'[c] = out[c] /\ queue'[c] = queue[c]
          /\ sent'[c] = sent[c] /\ heard'[c] = heard[c]
      BY <2>8, <3>1 DEF Cancel, TypeInv, TypeOK
    <3>3. Waiting(c)' = Waiting(c)
      BY <3>2 DEF Waiting
    <3> QED BY <2>1, <3>2, <3>3, KeepsOrder
  <2>9. ASSUME NEW x \in Conns, WriterStep(x) PROVE InOrder(c)'
    BY <2>6, <2>7, <2>8, <2>9 DEF WriterStep, WriteFails, PingFails, WriterEnds
  <2>10. ASSUME NEW x \in Conns, Close(x) \/ ClientStalls(x) \/ ClientLeaves(x)
         PROVE  InOrder(c)'
    BY <2>2, <2>10 DEF Close, ClientStalls, ClientLeaves, writing
  <2>11. ASSUME NEW d \in DeviceIDs, Notify(d) PROVE InOrder(c)'
    BY <1>2, <2>1, <2>11, NotifyKeeps
  <2>12. ASSUME NEW d \in DeviceIDs, HangUp(d) PROVE InOrder(c)'
    BY <2>2, <2>12 DEF HangUp, writing
  <2>13. CASE Next
    BY <2>3, <2>4, <2>5, <2>9, <2>10, <2>11, <2>12, <2>13 DEF Next, ReaderStep
  <2> QED BY <2>2, <2>13 DEF vars
<1> QED BY <1>1, <1>2 DEF NoteInv

-----------------------------------------------------------------------------
LEMMA InvHolds == Spec => [](TypeInv /\ MapInv /\ NoteInv)
<1> QED BY InitType, NextType, InitMap, NextMap, InitNotes, NextNotes, PTL DEF Spec

(***************************************************************************)
(* The state of the endpoint always has its type; in particular no queue   *)
(* exceeds its capacity, whoever sends to it.                              *)
(***************************************************************************)
THEOREM ConnectionsTyped == Spec => []TypeOK
<1>1. TypeInv => TypeOK
  BY DEF TypeInv
<1> QED BY <1>1, InvHolds, PTL

(***************************************************************************)
(* However many connections replace each other under one device id, the    *)
(* one that is served over an open socket is the registered one.           *)
(***************************************************************************)
THEOREM ServedConnectionRegistered == Spec => []ServedIsRegistered
<1>1. MapInv => ServedIsRegistered
  BY DEF MapInv
<1> QED BY <1>1, InvHolds, PTL

(***************************************************************************)
(* No entry of the map of connections outlives its handler.                *)
(***************************************************************************)
THEOREM RegisteredConnectionServed == Spec => []RegisteredIsServed
<1>1. MapInv => RegisteredIsServed
  BY DEF MapInv
<1> QED BY <1>1, InvHolds, PTL

(***************************************************************************)
(* Every client hears the notifications of its connection from the first   *)
(* on, in order and without a gap, and the others wait in order, until the *)
(* connection is broken: whatever clients send to each other, and however  *)
(* small the queue.                                                        *)
(***************************************************************************)
THEOREM NotesHeardInOrder == Spec => []HearsAllOrBroken
<1>1. NoteInv => HearsAllOrBroken
  BY DEF NoteInv, InOrder, HearsAllOrBroken
<1> QED BY <1>1, InvHolds, PTL
=============================================================================
