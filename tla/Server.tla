------------------------------- MODULE Server -------------------------------
(***************************************************************************)
(* The process: main, which opens the store, reads its configuration and   *)
(* serves; the goroutine that stops the server after a signal; and the     *)
(* connections, each at most at one request.                               *)
(*                                                                         *)
(* Of net/http this takes what main depends on: Shutdown closes the        *)
(* listeners first, which ends ListenAndServe at once, then waits until no *)
(* connection is at a request; connections that were hijacked (WebSockets) *)
(* are not its concern.  A key for tokens that is not acceptable ends main *)
(* before it listens to signals, which is left out.                        *)
(***************************************************************************)
EXTENDS Backend

CONSTANT Connections  \* bound of the model: connections at a time

VARIABLES
  main,       \* where main is
  stopper,    \* where the goroutine is that waits for the signal
  signalled,  \* ctx is done: an interrupt, or SIGTERM
  pool,       \* the pool of database connections: "none", "open" or "closed"
  conns,      \* what each connection does
  late        \* history: Shutdown has given up after its 10 s

serverVars == <<backend, main, stopper, signalled, pool, conns, late>>

ServerInit ==
  /\ OpenStore
  /\ main = "opening" /\ stopper = "none" /\ pool = "none"
  /\ signalled = FALSE /\ late = FALSE
  /\ conns = [c \in Connections |-> "none"]

-----------------------------------------------------------------------------
Up == main \notin {"exited", "failed"}
Stopping == stopper \in {"draining", "closing", "done"}
Are(step) == {c \in Connections : conns[c] = step}

Main(from, to) == main = from /\ main' = to

\* main, the opening of the stores.  The database may never answer.
StoreOpens ==
  /\ Main("opening", "configuring")
  /\ pool' = IF OnPostgres THEN "open" ELSE "none"
  /\ UNCHANGED <<stopper, signalled, conns, late>>

StoreFails ==
  /\ OnPostgres /\ Main("opening", "failed")
  /\ UNCHANGED <<stopper, signalled, pool, conns, late>>

\* Mutant: the store is opened with a context of its own.
NotCancelled == FALSE /\ UNCHANGED serverVars

\* NewPostgresStore takes the context that the signal ends.
StoreCancelled == signalled /\ StoreFails

\* The other settings, and the start of the goroutine.
Configure ==
  /\ \/ Main("configuring", "ready") /\ stopper' = "waiting"
     \/ Main("configuring", "failed") /\ UNCHANGED stopper
  /\ UNCHANGED <<signalled, pool, conns, late>>

\* ListenAndServe; it may fail at once, or at any time later.
Listen ==
  /\ Main("ready", IF Stopping THEN "returned" ELSE "serving")
  /\ UNCHANGED <<stopper, signalled, pool, conns, late>>

ServeFails ==
  /\ ~Stopping /\ Main("serving", "failed")
  /\ UNCHANGED <<stopper, signalled, pool, conns, late>>

\* ErrServerClosed, as soon as Shutdown has begun.
ServeReturns ==
  /\ Stopping /\ Main("serving", "returned")
  /\ UNCHANGED <<stopper, signalled, pool, conns, late>>

\* main returns, and waits for nobody: the goroutine and the requests end too.
MainReturns ==
  /\ Main("returned", "exited")
  /\ UNCHANGED <<stopper, signalled, pool, conns, late>>

\* The program is started again.
Restart ==
  /\ ~Up
  /\ main' = "opening" /\ stopper' = "none" /\ pool' = "none"
  /\ signalled' = FALSE /\ late' = FALSE
  /\ conns' = [c \in Connections |-> "none"]

-----------------------------------------------------------------------------
Signal ==
  /\ Up /\ ~signalled /\ signalled' = TRUE
  /\ UNCHANGED <<main, stopper, pool, conns, late>>

\* The goroutine; Shutdown begins.
Stop ==
  /\ Up /\ signalled
  /\ stopper = "waiting" /\ stopper' = "draining"
  /\ UNCHANGED <<main, signalled, pool, conns, late>>

\* Mutant: the store is closed without waiting for the requests.
NotAwaited(left) == TRUE

Drained(left) == left \cup Are("running") = {}

\* Shutdown looks at the connections again and again, and closes those that
\* are idle, but for some that have not been at a request yet.
Drain ==
  /\ Up /\ stopper = "draining"
  /\ \E left \in SUBSET Are("idle") :
       /\ conns' = [c \in Connections |->
            IF c \in Are("idle") \ left THEN "none" ELSE conns[c]]
       /\ stopper' = IF Drained(left) THEN "closing" ELSE stopper
  /\ UNCHANGED <<main, signalled, pool, late>>

PatienceEnds ==
  /\ Up /\ stopper = "draining" /\ stopper' = "closing"
  /\ late' = TRUE
  /\ UNCHANGED <<main, signalled, pool, conns>>

\* Close of a MemoryStore does nothing.
CloseStore ==
  /\ Up /\ stopper = "closing" /\ stopper' = "done"
  /\ pool' = IF pool = "open" THEN "closed" ELSE pool
  /\ UNCHANGED <<main, signalled, conns, late>>

-----------------------------------------------------------------------------
Conn(c, from, to) ==
  /\ Up /\ c \in Are(from)
  /\ conns' = [conns EXCEPT ![c] = to]
  /\ UNCHANGED <<main, stopper, signalled, pool, late>>

Accept(c) == main = "serving" /\ ~Stopping /\ Conn(c, "none", "idle")
Request(c) == Conn(c, "idle", "running")

\* The connection is kept, unless the server stops.
Answer(c) == Conn(c, "running", IF Stopping THEN "none" ELSE "idle")
Hijack(c) == Conn(c, "running", "hijacked")
Leave(c) == Conn(c, "idle", "none") \/ Conn(c, "hijacked", "none")

MainStep ==
  /\ UNCHANGED backend
  /\ \/ InMemory /\ StoreOpens
     \/ StoreCancelled \/ Configure \/ Listen \/ ServeReturns \/ MainReturns

ServerNext ==
  /\ UNCHANGED backend
  /\ \/ MainStep \/ StoreOpens \/ StoreFails \/ ServeFails \/ Restart
     \/ Signal \/ Stop \/ Drain \/ PatienceEnds \/ CloseStore
     \/ \E c \in Connections :
          Accept(c) \/ Request(c) \/ Answer(c) \/ Hijack(c) \/ Leave(c)

(***************************************************************************)
(* main goes on where nothing holds it, and the goroutine notices that ctx *)
(* is done.  No request is assumed to end, no database to answer.          *)
(***************************************************************************)
ServerFairness == WF_serverVars(MainStep) /\ WF_serverVars(Stop /\ UNCHANGED backend)

ServerSpec == ServerInit /\ [][ServerNext]_serverVars /\ ServerFairness

-----------------------------------------------------------------------------
(***************************************************************************)
(* A signal ends the process, in whatever phase it comes: while the store  *)
(* is being opened, before the goroutine is started, between its Shutdown  *)
(* and a ListenAndServe that begins after it, or with requests that never  *)
(* end (main; further signals would be ignored).                           *)
(***************************************************************************)
SignalEnds == signalled ~> ~Up

(***************************************************************************)
(* While the process lives, the database is not closed under a request,    *)
(* unless the ten seconds are over: none is accepted or started between    *)
(* the end of Shutdown and Close, whatever connections were idle (the      *)
(* goroutine of main).                                                     *)
(***************************************************************************)
StoreClosedLast == Up /\ pool = "closed" /\ ~late => Are("running") = {}
=============================================================================
