----------------------------- MODULE Signalling -----------------------------
(***************************************************************************)
(* The signalling endpoint: for each WebSocket connection a reader (the    *)
(* handler's loop, which routes messages between devices) and a writer     *)
(* (which drains the connection's queue and pings the client), over the    *)
(* map of connections, which Service.mu guards.                            *)
(*                                                                         *)
(* Critical sections of Service.mu are single steps, except the one that   *)
(* replaces a connection: it closes the old one before it unlocks, which   *)
(* may take the whole timeout of a close handshake.  Registry takes of all *)
(* this only whether a device is connected, and whether its connection is  *)
(* being closed.                                                           *)
(***************************************************************************)
EXTENDS Integers, Sequences

CONSTANTS
  DeviceIDs,  \* device ids; a connection may name any
  Conns,      \* bound of the model: the connections of one behaviour
  QueueCap,   \* 1024: messages a connection's queue holds
  MaxNotes,   \* bound of the model: notifications to one connection
  Nil         \* no connection

ASSUME SignallingAssumption ==
  /\ QueueCap \in Nat \ {0} /\ MaxNotes \in Nat
  /\ Nil \notin Conns /\ Nil \notin 0 .. MaxNotes

VARIABLES
  mu,      \* the connection whose registration holds s.mu, or Nil
  peers,   \* s.peers
  id,      \* id[c]: the device id that c named
  reader,  \* where the handler of c is
  dest,    \* dest[c]: the connection that a message read from c goes to
  writer,  \* the goroutine that writes to c
  out,     \* out[c]: the message that the writer of c took from the queue
  queue,   \* queue[c]: c.send
  ended,   \* ended[c]: the context of c is cancelled
  socket,  \* "closed" once either end has closed c
  asked,   \* asked[c]: a goroutine is to close c ("go p.socket.Close")
  stalled, \* stalled[c]: the client of c neither reads nor writes any more
  sent,    \* sent[c]: notifications addressed to c: history
  heard    \* heard[c]: the notifications c's client received: history

vars == <<mu, peers, id, reader, dest, writer, out, queue, ended, socket, asked,
          stalled, sent, heard>>

Loop == {"reading", "replying", "routing", "sending"}

\* A notification is its number among those to its connection; what one client
\* sends to another is a message without a number.
Messages == 0 .. MaxNotes
Relayed == 0

TypeOK ==
  /\ mu \in Conns \cup {Nil}
  /\ peers \in [DeviceIDs -> Conns \cup {Nil}]
  /\ id \in [Conns -> DeviceIDs]
  /\ reader \in [Conns -> Loop \cup {"none", "replacing", "leaving", "done"}]
  /\ dest \in [Conns -> Conns \cup {Nil}]
  /\ writer \in [Conns -> {"none", "idle", "busy", "gone"}]
  /\ out \in [Conns -> Messages \cup {Nil}]
  /\ queue \in [Conns -> Seq(Messages)]
  /\ \A c \in Conns : Len(queue[c]) <= QueueCap
  /\ ended \in [Conns -> BOOLEAN] /\ asked \in [Conns -> BOOLEAN]
  /\ socket \in [Conns -> {"open", "closed"}]
  /\ stalled \in [Conns -> BOOLEAN]
  /\ sent \in [Conns -> 0 .. MaxNotes]
  /\ heard \in [Conns -> Seq(1 .. MaxNotes)]

Init ==
  /\ mu = Nil
  /\ peers = [d \in DeviceIDs |-> Nil]
  /\ id \in [Conns -> DeviceIDs]
  /\ reader = [c \in Conns |-> "none"]
  /\ dest = [c \in Conns |-> Nil]
  /\ writer = [c \in Conns |-> "none"]
  /\ out = [c \in Conns |-> Nil]
  /\ queue = [c \in Conns |-> <<>>]
  /\ ended = [c \in Conns |-> FALSE]
  /\ socket = [c \in Conns |-> "open"]
  /\ asked = [c \in Conns |-> FALSE]
  /\ stalled = [c \in Conns |-> FALSE]
  /\ sent = [c \in Conns |-> 0]
  /\ heard = [c \in Conns |-> <<>>]

-----------------------------------------------------------------------------
HasRoom(c) == Len(queue[c]) < QueueCap
Reachable(c) == ~stalled[c] /\ socket[c] = "open" /\ ~ended[c]
At(c, place) == reader[c] = place
Go(c, place) == reader' = [reader EXCEPT ![c] = place]

endpoints == <<socket, asked, stalled>>
writing == <<writer, out, queue, sent, heard>>

(***************************************************************************)
(* The reader.                                                             *)
(***************************************************************************)
\* The connection enters the map and its writer starts.
Enter(c) ==
  /\ peers' = [peers EXCEPT ![id[c]] = c]
  /\ writer' = [writer EXCEPT ![c] = "idle"]
  /\ Go(c, "reading")

\* The handler, from its start: websocket.Accept touches nothing that is shared.
Register(c) ==
  /\ At(c, "none") /\ mu = Nil
  /\ \/ peers[id[c]] = Nil /\ Enter(c) /\ UNCHANGED mu
     \/ /\ peers[id[c]] # Nil
        /\ mu' = c /\ Go(c, "replacing") /\ UNCHANGED <<peers, writer>>
  /\ UNCHANGED <<id, dest, out, queue, ended, endpoints, sent, heard>>

\* Close of the old connection has returned, with or without a handshake.
Replace(c) ==
  /\ mu = c /\ mu' = Nil
  /\ socket' = [socket EXCEPT ![peers[id[c]]] = "closed"]
  /\ Enter(c)
  /\ UNCHANGED <<id, dest, out, queue, ended, asked, stalled, sent, heard>>

\* A message to route, or a heartbeat to answer; others change nothing.
Read(c) ==
  /\ At(c, "reading") /\ Reachable(c)
  /\ Go(c, "routing") \/ Go(c, "replying")
  /\ UNCHANGED <<mu, peers, id, dest, ended, endpoints, writing>>

\* Mutant: the read is not told that the writer has given up.
ReadOn(c) ==
  /\ At(c, "reading") /\ socket[c] = "closed"
  /\ Go(c, "leaving")
  /\ UNCHANGED <<mu, peers, id, dest, ended, endpoints, writing>>

ReadFails(c) ==
  /\ At(c, "reading") /\ (socket[c] = "closed" \/ ended[c])
  /\ Go(c, "leaving")
  /\ UNCHANGED <<mu, peers, id, dest, ended, endpoints, writing>>

\* The answer has no timeout of its own: a stalled client holds it up until
\* the context ends.  Its error is ignored.
Reply(c) ==
  /\ At(c, "replying")
  /\ ~stalled[c] \/ socket[c] = "closed" \/ ended[c]
  /\ Go(c, "reading")
  /\ UNCHANGED <<mu, peers, id, dest, ended, endpoints, writing>>

\* The lookup of the target, and nothing else, is under s.mu.  An absent one
\* is reported to the sender if the message asks for a session.
Route(c) ==
  /\ At(c, "routing") /\ mu = Nil
  /\ \E target \in DeviceIDs :
       \/ /\ peers[target] # Nil
          /\ Go(c, "sending") /\ dest' = [dest EXCEPT ![c] = peers[target]]
       \/ /\ peers[target] = Nil
          /\ Go(c, "sending") /\ dest' = [dest EXCEPT ![c] = c]
       \/ peers[target] = Nil /\ Go(c, "reading") /\ UNCHANGED dest
  /\ UNCHANGED <<mu, peers, id, ended, endpoints, writing>>

\* Mutant: the queue is not bounded.
SendAlways(c) ==
  /\ At(c, "sending") /\ Go(c, "reading")
  /\ queue' = [queue EXCEPT ![dest[c]] = Append(@, Relayed)]
  /\ dest' = [dest EXCEPT ![c] = Nil]
  /\ UNCHANGED <<mu, peers, id, writer, out, ended, endpoints, sent, heard>>

\* A full queue drops the message; so does one that nobody drains any more.
Send(c) ==
  /\ At(c, "sending") /\ Go(c, "reading")
  /\ queue' = IF HasRoom(dest[c]) THEN [queue EXCEPT ![dest[c]] = Append(@, Relayed)]
                                  ELSE queue
  /\ dest' = [dest EXCEPT ![c] = Nil]
  /\ UNCHANGED <<mu, peers, id, writer, out, ended, endpoints, sent, heard>>

\* Mutant: the entry is removed whoever it belongs to.
LeaveAnyway(c) ==
  /\ At(c, "leaving") /\ mu = Nil /\ Go(c, "done")
  /\ peers' = [peers EXCEPT ![id[c]] = Nil]
  /\ socket' = [socket EXCEPT ![c] = "closed"]
  /\ ended' = [ended EXCEPT ![c] = TRUE]
  /\ UNCHANGED <<mu, id, dest, asked, stalled, writing>>

\* Mutant: the entry stays.
LeaveEntry(c) ==
  /\ At(c, "leaving") /\ Go(c, "done")
  /\ socket' = [socket EXCEPT ![c] = "closed"]
  /\ ended' = [ended EXCEPT ![c] = TRUE]
  /\ UNCHANGED <<mu, peers, id, dest, asked, stalled, writing>>

(***************************************************************************)
(* The deferred calls: the entry goes if it is still this connection's,    *)
(* the socket is closed and the context cancelled.                         *)
(***************************************************************************)
Leave(c) ==
  /\ At(c, "leaving") /\ mu = Nil /\ Go(c, "done")
  /\ peers' = IF peers[id[c]] = c THEN [peers EXCEPT ![id[c]] = Nil] ELSE peers
  /\ socket' = [socket EXCEPT ![c] = "closed"]
  /\ ended' = [ended EXCEPT ![c] = TRUE]
  /\ UNCHANGED <<mu, id, dest, asked, stalled, writing>>

(***************************************************************************)
(* The writer.                                                             *)
(***************************************************************************)
Take(c) ==
  /\ writer[c] = "idle" /\ queue[c] # <<>>
  /\ writer' = [writer EXCEPT ![c] = "busy"]
  /\ out' = [out EXCEPT ![c] = Head(queue[c])]
  /\ queue' = [queue EXCEPT ![c] = Tail(@)]
  /\ UNCHANGED <<mu, peers, id, reader, dest, ended, endpoints, sent, heard>>

Write(c) ==
  /\ writer[c] = "busy" /\ Reachable(c)
  /\ writer' = [writer EXCEPT ![c] = "idle"]
  /\ heard' = IF out[c] = Relayed THEN heard ELSE [heard EXCEPT ![c] = Append(@, out[c])]
  /\ out' = [out EXCEPT ![c] = Nil]
  /\ UNCHANGED <<mu, peers, id, reader, dest, queue, ended, endpoints, sent>>

\* The writer gives the connection up.
Cancel(c) ==
  /\ writer' = [writer EXCEPT ![c] = "gone"]
  /\ ended' = [ended EXCEPT ![c] = TRUE]
  /\ out' = [out EXCEPT ![c] = Nil]
  /\ UNCHANGED <<mu, peers, id, reader, dest, queue, endpoints, sent, heard>>

WriteFails(c) == writer[c] = "busy" /\ ~Reachable(c) /\ Cancel(c)

\* A ping is answered while the client is up and the reader reads: it does
\* not while it waits for s.mu.
PingFails(c) ==
  /\ writer[c] = "idle"
  /\ ~Reachable(c) \/ (mu # Nil /\ reader[c] = "routing")
  /\ Cancel(c)

WriterEnds(c) == writer[c] = "idle" /\ ended[c] /\ Cancel(c)

(***************************************************************************)
(* The rest of the server, and the clients.                                *)
(***************************************************************************)
\* Mutant: a notification that finds the queue full is dropped.
NotifyOrDrop(d) ==
  /\ mu = Nil
  /\ \/ peers[d] = Nil /\ UNCHANGED vars
     \/ /\ peers[d] # Nil /\ sent[peers[d]] < MaxNotes
        /\ LET c == peers[d] IN
             /\ sent' = [sent EXCEPT ![c] = @ + 1]
             /\ queue' = IF HasRoom(c) THEN [queue EXCEPT ![c] = Append(@, sent[c] + 1)]
                                       ELSE queue
        /\ UNCHANGED <<mu, peers, id, reader, dest, writer, out, ended, endpoints, heard>>

\* notify, in any critical section of s.mu.
Notify(d) ==
  /\ mu = Nil
  /\ \/ peers[d] = Nil /\ UNCHANGED vars
     \/ /\ peers[d] # Nil /\ sent[peers[d]] < MaxNotes
        /\ LET c == peers[d] IN
             /\ sent' = [sent EXCEPT ![c] = @ + 1]
             /\ \/ /\ HasRoom(c) /\ UNCHANGED asked
                   /\ queue' = [queue EXCEPT ![c] = Append(@, sent[c] + 1)]
                \/ ~HasRoom(c) /\ asked' = [asked EXCEPT ![c] = TRUE] /\ UNCHANGED queue
        /\ UNCHANGED <<mu, peers, id, reader, dest, writer, out, ended, socket, stalled, heard>>

\* A device revoked, or an account invalidated.
HangUp(d) ==
  /\ mu = Nil /\ peers[d] # Nil
  /\ asked' = [asked EXCEPT ![peers[d]] = TRUE]
  /\ UNCHANGED <<mu, peers, id, reader, dest, ended, socket, stalled, writing>>

\* The goroutine of notify or of HangUp.
Close(c) ==
  /\ asked[c] /\ asked' = [asked EXCEPT ![c] = FALSE]
  /\ socket' = [socket EXCEPT ![c] = "closed"]
  /\ UNCHANGED <<mu, peers, id, reader, dest, ended, stalled, writing>>

\* A client stalls, or leaves; what breaks its network does either to it.
Served(c) == reader[c] \notin {"none", "done"}

ClientStalls(c) ==
  /\ Served(c) /\ socket[c] = "open" /\ ~stalled[c]
  /\ stalled' = [stalled EXCEPT ![c] = TRUE]
  /\ UNCHANGED <<mu, peers, id, reader, dest, ended, socket, asked, writing>>

ClientLeaves(c) ==
  /\ Served(c) /\ socket[c] = "open" /\ ~stalled[c]
  /\ socket' = [socket EXCEPT ![c] = "closed"]
  /\ UNCHANGED <<mu, peers, id, reader, dest, ended, asked, stalled, writing>>

-----------------------------------------------------------------------------
ReaderStep(c) ==
  Replace(c) \/ ReadFails(c) \/ Reply(c) \/ Route(c) \/ Send(c) \/ Leave(c)

WriterStep(c) == Take(c) \/ Write(c) \/ WriteFails(c) \/ PingFails(c) \/ WriterEnds(c)

Next ==
  \/ \E c \in Conns :
       Register(c) \/ Read(c) \/ ReaderStep(c) \/ WriterStep(c) \/ Close(c)
       \/ ClientStalls(c) \/ ClientLeaves(c)
  \/ \E d \in DeviceIDs : Notify(d) \/ HangUp(d)

Spec == Init /\ [][Next]_vars

(***************************************************************************)
(* Goroutines run; calls on a socket return, for the writer's have         *)
(* timeouts and the reader's end with the context; the mutex is handed     *)
(* over in turn.  Clients are not assumed to do anything.                  *)
(***************************************************************************)
FairSpec ==
  /\ Spec
  /\ \A c \in Conns :
       WF_vars(ReaderStep(c)) /\ WF_vars(WriterStep(c)) /\ WF_vars(Close(c))

-----------------------------------------------------------------------------
Broken(c) == socket[c] = "closed" \/ asked[c] \/ ended[c]

(***************************************************************************)
(* A connection that is served over an open socket is the one to which its *)
(* device's notifications go: a connection that leaves late does not take  *)
(* its successor out of the map, and a replaced one is closed (the         *)
(* deferred cleanup and the replacement in signalling).                    *)
(***************************************************************************)
ServedIsRegistered ==
  \A c \in Conns : reader[c] \in Loop /\ socket[c] = "open" => peers[id[c]] = c

(***************************************************************************)
(* Every entry of the map has a handler that will remove it: no entry      *)
(* outlives its connection, so no device stays connected for ever.         *)
(***************************************************************************)
RegisteredIsServed ==
  \A d \in DeviceIDs : peers[d] # Nil =>
    id[peers[d]] = d /\ reader[peers[d]] \in Loop \cup {"leaving"}

(***************************************************************************)
(* A client hears every notification of its connection, in order, or the   *)
(* connection is broken: the messages that clients send to each other may  *)
(* fill the queue, but never make a notification disappear (notify, the    *)
(* writer).                                                                *)
(***************************************************************************)
\* What was sent to c and not written yet.
Waiting(c) == IF out[c] = Nil THEN queue[c] ELSE <<out[c]>> \o queue[c]

Notes(s) == {i \in 1 .. Len(s) : s[i] # Relayed}

\* Of a sequence of messages the notifications are those after m up to n, in order.
NotesBetween(s, m, n) ==
  /\ {s[i] : i \in Notes(s)} = m + 1 .. n
  /\ \A i, j \in Notes(s) : i < j => s[i] < s[j]

HearsAllOrBroken == \A c \in Conns : ~Broken(c) =>
  /\ \A n \in 1 .. Len(heard[c]) : heard[c][n] = n
  /\ NotesBetween(Waiting(c), Len(heard[c]), sent[c])

(***************************************************************************)
(* A connection that is broken, or whose client has stalled, goes away     *)
(* and takes its writer with it, even when the reader waits for a         *)
(* stalled client or for s.mu (signalling and its writer).                 *)
(***************************************************************************)
Gone(c) == At(c, "done") /\ writer[c] = "gone"

BrokenGoesAway ==
  \A c \in Conns : (Broken(c) \/ stalled[c]) ~> Gone(c)
=============================================================================
