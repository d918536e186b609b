# MultiDesk: a verification of the server

MultiDesk is a remote-control service. Its server (Go, `src/server`) knows accounts and devices,
lets an operator ask for a session with a target device, lets the target's owner decide what
the session may do, and relays WebRTC signalling between the two devices. Screen and input never pass
through it. This directory holds a TLA+ model of the server, the TLC runs that check it on small instances, and
theorems about it with proofs checked by TLAPS.

    tlc -workers 2 -config Exclusive.cfg MCSessions     # a run
    tlapm SessionsProofs.tla                            # a proof

Every definition is a translation of code; `PROJECT.json` gives the lines each one stands for
(`map`), the runs, a fault of the code that would break each property (`mutants`), and the theorems.
Line numbers below are of `src/server/internal/platform/service.go` unless another file is named.

## 1. Inventory

The server is one process. All of its live state is in `Service`, behind one mutex `mu`; handlers are
net/http goroutines. A request goes through `Handler` (an expiry and a count for the request
limit, one critical section), then, if it needs an account, `auth` (a second one), then its handler (one or more).
Nothing happens without a request: there is no background job.

| Component | Where | State | Operations |
|---|---|---|---|
| Devices and challenges | 494-614 | `devices`, `challenges` | challenge, register, revoke |
| Sessions | 615-821, `expire` 219 | `sessions` | request, decide, change permissions, hand over, stop; ended also by a revocation, a logout, a reused refresh token, the expiry |
| Accounts and tokens | 337-493, `auth.go` | `accounts`, `emails`, `refresh`, `verify` (two slots) | register, login, second-factor login, refresh, logout |
| Signalling | 837-976 | `peers`; per connection: a queue of 1024, a context, a socket | connect/replace, route, heartbeat, write, ping, notify, hang up, clean up |
| Request limit | 305-335 | `rates` | count, refuse, expire |
| Second factors | `totp.go`, `store/memory.go`, `store/postgres.go` | the store's `secondFactor`, or the table `second_factors` | set up, confirm, disable |
| Email verification, password reset | `email.go`, `store/memory.go` | the store's email tokens and accounts | send, verify, reset |
| Organisations, workflows | `teams.go`, `workflows.go`, `store/memory.go`, `store/postgres.go` | the store's organisations, members, invitations, workflows, runs | create, list, invite, change a role, remove, run |
| AI assistant, audit log | `ai.go`, `record` 195 | `audit`, the last 10000 events | append, list |
| Stores | `store/` | memory, Postgres, Redis | the interface of `store.go`; Postgres: transactions with retries, its own base64; Redis: a sliding request limit |
| Entry point | `cmd/server/main.go` | the listener, the database's pool, the goroutine that waits for a signal | open, configure, serve, shut down, close |
| ICE/TURN, source checker | `ice.go`, `security/turn.go`, `tools` | none | |

How they interact:

* **Sessions use devices and challenges.** A request to grant is signed with the target device's key over a
  single-use nonce; `proof` (503-514) deletes the nonce before its outcome is known. A device must be *live*: registered, not revoked,
  connected, and seen within 45 s.
* **Sessions write to connections.** Each change calls `notify` (203-215): a non-blocking send to the
  queue of the source and the target; a full queue makes a goroutine close the connection.
* **Tokens end sessions.** `invalidate` (469-487) is called by a logout and by the reuse of a refresh
  token. It moves the account's version, uses up its refresh tokens, closes the sessions it can see and its devices' connections.
* **Signalling shares `mu`** with everything: replacing a connection closes the old socket while `mu` is held.
* **Store-backed handlers do not hold `mu`**: each call of the store is its own critical section, and a
  handler of two calls can be interrupted between them. `main` opens one store for the whole run: PostgreSQL if `DATABASE_URL` is set, else memory. The two do not behave alike
  (section 6), so these handlers are modelled over both.
* **The entry point** gives its signal's context to the opening of the database and to a goroutine that stops the server and closes the store. `main` waits for neither the goroutine nor the requests.

What is hard here, and the properties each component owes:

| Hazard | Correctness property |
|---|---|
| Two sessions on one target approved, widened or handed over by concurrent requests | one controller per device; the sessions behave as one seat |
| A handover rewrites several grants without validating them | a grant stays within what was asked, never without `view` |
| The expiry and the handler it precedes are separate critical sections | nothing is granted after the deadline |
| A signed request is repeated | a grant grows only with a fresh, unspent challenge |
| Four handlers and the expiry end sessions, in any order | versions are numbered, an ended session never changes |
| A full queue drops a message | a connected party was told the current version, or nothing of the session if it has connected since, or is being disconnected |
| The cleanup of a replaced connection runs after its successor's registration | served = registered |
| A socket closed under `mu`, a heartbeat answered without a timeout | every broken connection goes away |
| Passwords are hashed outside `mu` | one account per address |
| A refresh is retried after a lost answer, beside a logout or a login | one good token per family, none older than the last logout |
| A fixed rate window, refused requests that are counted | at most two limits per window, no lock-out |
| A factor is read in one call of the store and verified in another | only the factor that was read becomes verified |
| A setup is a read-committed transaction whose DELETE waits for others, and whose failed commit is tried again though it may have taken effect | PostgreSQL keeps a verified factor until it is disabled; abandoned factors do not pile up |
| Codes and reset tokens share a map, and are read, used and deleted in three calls | an account changes only by a token issued for that; a used token goes |
| An organisation and its founder's membership are stored in two calls, the second of which may fail | an organisation has its founder, or nobody any more |
| A pipeline is not a transaction: a delayed caller counts what a later one has removed, or what is left when the key has expired | the sliding limit lets few different instants through |
| A decision looks at the target only; that the source is trusted was checked at the request | open sessions join trusted devices |
| An accumulator of 32 bits that is never cleared; a last group that is not full | the bytes of a key have the bits of its text, and are given back with them |
| The signal comes while the database does not answer, or before the server listens | the signal ends the process |
| An idle connection begins a request while the server stops | the database is not closed under a request |

`PROJECT.json` lists the main hazards at their lines, including those no property covers yet.

## 2. Modules

    Registry  <-- Sessions <-- MCSessions          Signalling <-- MCSignalling
                     |    \--- SessionsProofs               \---- SignallingProofs
                     '-- INSTANCE Seats            Tokens <-- MCTokens, TokensProofs
                                                   Recovery <-- RecoveryProofs
    Backend <-- TwoFactor <-- TwoFactorProofs      Teams <-- TeamsProofs
       ^ ^----- Teams
       '------- Server

    TwoFactor, Recovery, Teams, KeyCodec <-- MCStore
    SlidingLimit <-- MCSliding
    RateLimit, Server <-- MCRateLimit, FrontProofs
    SlidingLimit, KeyCodec <-- StoresProofs

(`<--` is EXTENDS.) An action is one critical section of the code; its guard has the early returns, and what
the section calls (`notify`, `end`, `proof`, `record`'s callers) is inside it.

**Registry** models devices, challenges and the presence of connections. `now` is the clock (`s.now()`), an integer
that `Tick` advances; `devices`, `challenges`, `peers` are the maps. `peers` has three values, because a connection that the server
has asked to close is still in the map, so still live, until its handler cleans up. `ProofOK`/`Spend` are the two halves of `proof`. A signature is
the key that made it; a signature over another method, path or nonce is one of another key. A registered key is its base64 *text*, which is what `registerDevice` compares;
`KeyOf` gives the key a text decodes to, which is what `VerifyDevice` verifies with, because the decoder accepts several texts of one key. `RegisterDevice` chooses an id nobody uses,
as a random 128-bit id does.

**Sessions** composes the registry with the sessions and with `told[d][s]`, the version of session `s` last queued to device `d`'s open connection.
`RequestSession`, `DecideSession`, `ChangePermissions`, `Handover`, `StopSession`, `RevokeDevice`, `Invalidate`,
`Expire` are the handlers and `expire`. `TargetRequest` is `targetSession`: the order of its checks matters, since the nonce is spent after
the target is found live and before the rest. `Publish` is the run of `notify` calls of a handler: the environment chooses which open connections have a full queue.
A permission list is a set: the order of a list decides nothing, and a list with a duplicate is refused (`validPermissions`, 180) like one that names an unknown permission, which `Asks` has.

A device in these two modules has a `lastSeen`. In the program nothing writes it, so a device that registers is never live (section 6)
and no session can begin from an empty server. Sessions can begin only where devices were put in the map
with a recent `LastSeen`, as the repository's tests do (`service_test.go:22-36`): `Seed` is that fixture, and with an empty `Seed` the model is the program
from its start. The properties about sessions are therefore about the code as its own tests run it. In the runs with a short
`LiveWindow`, devices stop being live during the behaviour.

**Seats** is the abstract specification of remote control: every device has one driver's seat. A session asks, waits, is admitted,
may sit down on a *free* seat, stand up, take the seat by a handover, and leaves for good. It knows nothing of permission lists, proofs, devices' state or deadlines. `Sessions` implements it
(`Seating`: the driver of a device is the session whose grant contains mouse or keyboard).

**Tokens** models accounts, the index of addresses, access and refresh tokens. `register` and `login` are two actions each, because the password hash is
computed outside `mu`; `jobs` holds what a request remembers between its critical sections. `Authorise` followed by `Logout` or `Serve` is `auth` followed by a handler. An answer may be lost
(`delivered`), so a client may retry with a token that the server has used up. `born` is history.

**Signalling** models each connection's goroutines: the handler with its read loop (`reader`), the writer (`writer`), the goroutines started with `go`
to close a socket (`asked`), the queues, and `mu` where it is held across a blocking call. `stalled` is a client that neither reads nor writes but keeps the
socket open. `sent` and `heard` are history.

**RateLimit** keeps remaining times instead of instants, so the model needs no last instant. `served` is history: for each request let through, how long ago and as which of its window.

**Backend** is the choice of the store (`backend`), made once.

**TwoFactor** models the three handlers over either store. In memory a call is one action. In PostgreSQL a setup is a transaction in read committed mode: its DELETE sees the rows that are committed
when it begins (`SetupDelete`), gets its locks when no other transaction has them, looks again at each row, and the INSERT follows (`SetupInsert`); then it commits
(`SetupCommit`), or the commit fails, with or without effect, and `withTx` begins again with the same id, up to `MaxAttempts` times (`SetupCommitFails`). The row that an attempt inserts again is a new one, which no statement that waits has seen (`Others`). Rows that a transaction has deleted are `Locked` for a verification and for another DELETE.
Any call may fail, or its client go (`GiveUp`); no error reaches the answer.

**Recovery** models email verification and password reset over `MemoryStore`, every call of the store an action: a request (`calls`) stores a token and mails it, or finds a
token good, uses it, and deletes it. Codes are drawn from a small set and may be drawn for two accounts at a time; a user may type any code; a reset token is presented only after it was mailed. An account is `verified` and a
`version`, which `UpdatePassword` increments with every change of the password. `issued`, `mailed`, `used` are history. The store's accounts are given by `Stored`: `register` does not put
accounts into the store, so in the program as it is wired the store has none, a code is stored and never sent (500), and a reset request does nothing. `Stored` = {} is that program; with `Stored` non-empty the model is the handlers over
a store that somebody has filled with `CreateAccount`, as the store's own test does (`memory_test.go:17`). One account of the run is not in the store.

Recovery has `MemoryStore` only, because every call on email tokens fails in PostgreSQL (section 6).

**Teams** models organisations, memberships and invitations over either store. PostgreSQL makes the founder a member in the transaction that creates the organisation, memory does not; the second call of the handler does, and in PostgreSQL it may fail or come after a removal.
A creation that was answered with an error may have taken effect (`CreateUnheard`). `known` are the ids a client can have seen, in an answer or in a list. No handler looks at the caller's membership, so an action has no caller.

**SlidingLimit** models `CheckSlidingRateLimit` command by command, for one key; `checks` are the calls in flight, each with the clock it has read before its first command and the verdict of its count. Between two commands other calls run, time passes, and
the key may expire: `expires` is set by `Expire` alone, two windows from the instant at which that command runs; a key that goes with its last mark loses it, and a new one has none until the call that made it comes to its EXPIRE (`Key`). A connection may fail at any command (`ExecFails`):
the caller gets an error, or the client sends all commands again with the start of the window it had. `passed` is history: the instants of requests that were allowed. Callers and Redis have one clock.

**KeyCodec** models the base64 of `postgres.go:251-389`. The decoder is a state machine that chooses the next character while it reads, with the accumulator modulo 2^32 (`AccMod`); `Encoded` is the encoder.

**MCStore** runs `TwoFactor`, `Recovery`, `Teams` and `KeyCodec` side by side. They share no variable that changes (`backend` is constant in a behaviour), so a behaviour moves one of them.

**Server** models `main` (`main`), the goroutine that stops it (`stopper`), the database's pool and the connections. Of net/http it has what `main` depends on: `Shutdown` closes the listeners first, which makes `ListenAndServe` return at once; it
then polls, closes idle connections, leaves out for a while those that have not had a request, forgets hijacked ones, and returns when none is left or after 10 s. Once it has begun an answered connection is not kept. When the process exits everything ends, and it may be started again.
**MCRateLimit** checks `RateLimit` and `Server` interleaved, each under its own fairness.

## 3. Runs

| Run | Instance | What it shows |
|---|---|---|
| *Exclusive* | 2 operators and an owner, a device each, 2 sessions, 1 open session per operator | control is exclusive, grants are consented to and proven, open sessions join trusted devices, versions are ordered, and `Sessions` implements `Seats`, in all interleavings of requests, decisions, changes, handovers, stops, revocations, logouts and the expiry |
| *Presence* | the same actors, 2 open sessions per operator, one permission list, no clock | connected parties were told the current version of each session; one session per operator and target |
| *Lifetimes* | 1 session, 2 < 3 < 4 < 6 for the four lifetimes, clock to 7 | no grant after a deadline; every session ends |
| *Registration* | empty start, 2 users, 3 texts of 2 keys, 3 ids, 2 nonces, limit 1 | texts of keys are unique, the device limit, identities last, registration needs a fresh challenge |
| *Tokens* | 2 accounts, 2 addresses, 3 tokens, 2 requests | families are lines, good tokens are newer than the last invalidation, one account per address |
| *Queues* | 2 devices, 2 connections, queue of 2, 3 notifications | no notification is lost on a connection that is not broken |
| *Hangups* | 2 devices, 2 connections, queue of 1, fairness | the map and the handlers agree although connections replace each other; broken and stalled connections go away |
| *Rates* | a limit of 3 and one of 1, window of 3; 2 connections, fairness | at most two limits in a window; no lock-out. A signal ends the process in every phase, with requests that never end and a database that never answers; the database is not closed under a request |
| *Store* | 2 accounts, 4 factor ids, 2 requests, 2 attempts; 3 accounts of which 2 stored, one code for all, 2 reset tokens, 2 requests; 2 organisations, 2 people, 2 creations; keys of 5 bytes, a 14-bit accumulator, 3 characters | in both stores, a factor is verified by its own confirmation and there are few; PostgreSQL keeps a verified one; accounts change as tokens were issued, a used token goes; an organisation has its founder or nobody; keys are decoded and given back bit by bit |
| *Sliding* | 2 callers, a limit of 1 in a window of 9 ms, 10 instants up to 45 ms | the sliding limit lets few instants through, however late the commands come, although the key expires and connections fail |
| *Logout*, *Spellings* | | disagreements between the code and what it says; section 6 |

### Bounds, and why they are enough

* **Actors.** `OneController`, `OperatorBounds`, `UniqueKeys`, `ToldCurrent` speak of at most two sessions, devices or connections at a time;
  a handover needs one session to promote and one to demote. `OperatorBounds` is run with a limit of two, where the rule of one per target refuses; the limit itself cannot fail in that run, which has two session ids, and is covered by its theorem alone (`OperatorsAreBounded`).
  Where a theorem of section 5 covers the property, the bound does not matter.
* **Time.** A unit stands for whatever separates the lifetimes. *Lifetimes* keeps the order of the code's constants (45 s < 1 min < 2 min < 8 h), so a device can stop being live before its challenge,
  its challenge before its session; the other runs need time only to make things due.
* **Versions.** `MaxEpoch` bounds the changes of a grant; a session that has used them up can still end. In *Exclusive* and *Presence* a session can be
  approved, changed or handed over once, perhaps demoted instead, and ended; two sessions take such steps in any order. The theorems have no such limit.
* **Lists.** `Asks` has lists that are contained in each other, that have no common control permission, that name an unknown permission, and that are empty.
* **Queues.** 1 or 2 instead of 1024: the code compares the length with the capacity only.
* **Codes.** One code, so that every draw collides with every other; the collision is what makes codes harder than reset tokens. The theorems of section 5 have no limit.
* **Transactions.** Two requests: a DELETE waits for one other transaction, and a confirmation or a disabling comes between. Two attempts instead of three: the second meets what a commit that took effect left behind; a third meets no more. The theorems have no limit.
* **The sliding limit.** Two callers, and instants chosen for the order of things and not for their number: 16 to 23 lie in windows of 9 that overlap in every way; a key set to expire at instant 0, or 8, is gone after 18, or 26, and one set at 16 or later, after 34 to 41, before 45. So calls that overlap, a key that expires before
  its EXPIRE is sent again, and a call that comes when everything it should have counted is gone, all occur with the same window still to be filled. With these instants a limit of two reaches the bound exactly, 7 instants in a window, as the mutant shows, which lets one request more through; with a limit of one the run reaches 4 of 6. The theorem has no such limit.
* **Keys.** Five bytes leave two unused bits and a last group of two bytes, as 32 do; 14 bits overflow at the third character, as 32 bits do at the sixth; a byte is taken out of 12 at most. The three characters have 0 and 1 in each of their six bits.
* **Tokens.** An id that has left the map stands for a token nobody can use, so three ids give unboundedly long families. `MaxVersion` bounds the logouts of an account.
* **VIEW.** `MCSessions!Essence` forgets what an ended session was (it only occupies its id), the difference of an open connection from a closing one (both count as connected, for `Live` and for the handlers' guards),
  and `told`, which no guard reads; so two states it identifies have the same future in everything else. An invariant that speaks of ended sessions or of `told` is itself part of the view (`TypeOK` and `ConsentBounds` of `Essence`, `ToldCurrent` of `OpenEssence`), so that
  a state that violates it is never taken for one that does not. `MCSignalling!Essence` likewise forgets what history says of a connection that is broken or gone, which `HearsAllOrBroken` does not speak of. Action properties are checked on every transition. Views are used for safety only.
* **SYMMETRY.** Operators are swapped together with their devices and keys, so that the seed is mapped to itself; session ids, connections and token ids are interchangeable. In *Store* the parts use the same names for things that are alike in each, so that a permutation maps all parts at once; the names of reset tokens and of factors are never confused, since a behaviour moves one part. No run of a liveness property uses symmetry or a view.

### Fairness

* *Lifetimes*: time passes, and the expiry runs again when something is due. The code justifies it under one assumption about the world: requests keep arriving, since *any* request, even one that is refused or
  not found, runs `expire` first. On a server that receives nothing at all a session does not expire. Nothing is assumed of the session's parties.
* *Hangups*: goroutines run, and calls on a socket return: the writer's have timeouts (5 s for a write, 885; 10 s for a ping, 893), the reader's end when the context is cancelled or the socket closed. Acquiring `mu` under weak fairness needs that
  it is handed over in turn; Go's `sync.Mutex` hands it to a goroutine that has waited 1 ms. Clients are assumed to do nothing, and may connect again and again.
* *Rates*: time passes and each client goes on sending. `main` goes on where the program holds it by nothing but its own instructions (`MainStep`: opening a memory store, giving up the opening of a database whose context is done, configuring, listening, returning), and the goroutine notices that the context is
  done. No fairness for a database's answer, a request's end, `Shutdown`'s end, or a signal. `StoreCancelled` is fair because pgx gives up a connection when its context ends.

## 4. Actions of the code's handlers

| Code | Action |
|---|---|
| `newChallenge` | `Registry!NewChallenge` |
| `registerDevice` | `Registry!RegisterDevice` |
| `revokeDevice` | `Sessions!RevokeDevice` |
| `requestSession` | `Sessions!RequestSession` |
| `targetSession`, `decideSession`, `changePermissions`, `handover` | `TargetRequest` in `DecideSession`, `ChangePermissions`, `Handover` |
| `stopSession` | `StopSession` |
| `invalidate` | `Sessions!Invalidate` (sessions, connections) and `Tokens!Invalidate` (versions, tokens) |
| `expire` | `Sessions!Expire`, `Tokens!Expire`, and the `Over` entries in `RateLimit!Arrive` |
| `register`, `login` | `RegisterStart`/`RegisterFinish`, `LoginStart`/`LoginFinish` |
| `rotate`, `logout`, `auth`, `verify2FALogin` | `Rotate`, `Logout`, `Authorise`, `Verify2FALogin` |
| `signaling` | `Register`, `Replace`, `Read`, `ReadFails`, `Reply`, `Route`, `Send`, `Leave` |
| `signaling`'s writer goroutine | `Take`, `Write`, `WriteFails`, `PingFails`, `WriterEnds` |
| `notify`, `go p.socket.Close` | `Notify`, `HangUp`, `Close` |
| `Handler` | `RateLimit!Arrive` |
| `setup2FA`, `confirm2FA`, `disable2FA` | in memory `Setup`, `Confirm`/`ConfirmFinish`, `Disable`; in PostgreSQL `SetupStart`/`SetupDelete`/`SetupInsert`/`SetupCommit`, `DisableStart`/`DisableFinish` |
| `withTx` | `SetupCommitFails`, `GiveUp`; `CreateUnheard` in Teams |
| `sendVerifyEmail`, `requestPasswordReset` | `SendVerifyEmail`/`Mail`, `RequestPasswordReset`/`Mail` |
| `confirmVerifyEmail`, `confirmPasswordReset` | `ConfirmVerifyEmail`, `ConfirmPasswordReset`, then `Use` and `Delete` |
| `createOrganization`, `listOrganizations` | `CreateOrganization`/`FoundersMembership` or `MembershipFails`; `ListOrganizations` |
| `inviteMember`, `updateMemberRole`, `removeMember` | `InviteMember`, `UpdateMemberRole`, `RemoveMember` |
| `CheckSlidingRateLimit` | `CheckLimit`, `ZRemRangeByScore`, `ZCount`, `ZAdd`, `Expire`, `ExecFails` |
| `publicKeyBytes`, `pgxDecodeB64`; `pkBytesToB64` | `ReadCharacter`, `ReadBad`, `ReadEnd`; `Encoded` |
| `main` | `StoreOpens`/`StoreFails`/`StoreCancelled`, `Configure`, `Listen`, `ServeFails`/`ServeReturns`, `MainReturns` |
| `main`'s goroutine | `Stop`, `Drain`/`PatienceEnds`, `CloseStore` |

`Invalidate` and `Expire` are each split over modules that share no variable. The split is sound because no property relates the parts: every property of `Sessions` holds whether or not the tokens' part happens, and the reverse.
A property that relates them would be about a request authorised before a logout and executed after it, for which the code promises nothing.

## 5. Proofs

For every value of the constants that the named assumptions allow. The assumptions are what the code's constants satisfy: `LiveWindow <= PendingTTL <= ActiveTTL`, the finite sets of device and session ids, the absent
entry `Nil` different from every entry, a seed of devices under distinct texts of keys seen no later than the start, a bounded number of requests (`Requests`, `Callers`) at a time. `KeyOf` may be any function on the texts. The accumulator of the key codec
may have any width of at least twelve bits (`AccMod % 4096 = 0`): two characters.

**SessionsProofs.** `TypeOK` is not inductive: a change of a grant adds one to the epoch, and nothing in the type says that an open session has room left. `TypeInv` adds
`EpochRoom` (an open session is at most at `MaxEpoch`, a pending one at 1), which gives `TypeCorrect`.
The properties about grants are then proved from one lemma, `NextStep`: every step is, for the sessions, one of six things (`SessionStep`: nothing, a request, an approval, a change, a handover, an end of a set of sessions). Each property looks at six cases and no longer at
fourteen actions: `ConsentHolds`, `ControlIsExclusive`, `EpochsOrder`, `GrantsAreProven`.
`GrantsAreInTime` is the subtle one. No handler compares the deadline. The grant is in time because it needs a live target, `LastSeen` is never written after the start, and every session's deadline is later than any
instant at which a device can still be live: `DeadlineInv` says that each device's `LastSeen` is at most 0 and each deadline at least `LiveWindow`. The proof thus shows what the property rests on: a change that stamps `LastSeen` would need a check of
the deadline in the handlers.
`OpenIsTrusted`, `IdentitiesLast`, `DevicesAreProven`, `KeysAreUnique` and `DevicesAreLimited` follow from how devices change (`DeviceSteady`, `DeviceStep`: a step registers one device whose text is new, whose owner has room and whose proof it spends, or no new device appears and none is revived); the limits use the library's facts on the cardinality of finite sets.
`OperatorsAreBounded` is the same for sessions: only a request opens one.
`PartiesAreTold` rests on `ToldInv`, which adds that nobody has been told of a session that does not exist yet; the step is proved per device and session, from what each handler has said to each party (`SaidToOne`).

`SeatsTheorem`, the last section: `Sessions` implements `Seats`. The initial states map; each case of `SessionStep` maps to a step of `Seats` (an approval to `Admit`, a change to `Change`, a handover to `HandOver`, any end to `Leave`) or to a stutter.

**TokensProofs.** The inductive invariant `TokenInv` is the type, `EmailIndex`, `FamilyIsALine`, `LiveFamiliesAreCurrent`, and `ActorsExist` (a request in flight, and a token a client holds, belong to a registered account): without the last, a rotation could read the version of no account.
It gives `TokensTyped`, `FamiliesAreLines`, `FamiliesAreCurrent`, `AddressesAreIndexed`.

**SignallingProofs.** `TypeInv` adds to the type that a busy writer has a message. `MapInv` adds `ReplacesOne` (only the registration that holds `mu` replaces a connection, and the one it replaces stays in the map) to the two invariants, which are inductive only together:
`ServedConnectionRegistered`, `RegisteredConnectionServed`.
`NotesHeardInOrder` says that no notification is lost before its connection is broken. `NoteInv`: only a busy writer holds a message (`WritersHold`; a registration starts no second writer over one), and a connection that is not broken has heard the first notifications, and no others,
while the rest wait in order behind each other (`InOrder`, with what the writer holds in front of its queue). "The notifications among the messages" is stated by positions and not by a filter, so that the four ways a sequence changes are lemmas without induction: a relayed message or a
notification goes to the end (`RelayedBehind`, `NoteBehind`), or is written from the front (`RelayedGoes`, `NoteGoes`). The steps that drop something (a full queue in `Notify`, a writer that gives up) break the connection, and nothing mends one (`BrokenStays`).

**TwoFactorProofs.** `FactorInv` adds to the type that an id is of one user wherever it is found (`OneUser`), of one row (`UniqueIDs`) and of one setup (`OwnIDs`); that a transaction has locked only rows that are not verified (`LockedUnverified`), which is the point: the second look at each
row after the wait, and the lock that a verification needs; and that a row an earlier attempt left is among those it deletes (`Inserts`). It gives `FactorsAreConfirmed` and `FactorsAreKept`.
`FactorsStayFew` needs `FewInv`. That abandoned rows are no more than the requests is not inductive: each setup in flight may still leave rows behind and add one. `FewLeft` says that *any* set of rows and the setups that would leave all of it behind (their DELETE has not seen one of them) are together
no more than the requests. A DELETE that begins sees all rows; a commit adds one row to those its setup leaves behind, and is itself one such setup less; every other step only takes rows or setups away. For the verified ones, `FewChecked` counts them with the factors that confirmations have read: as long as
none is verified these are at most as many as the requests, and from then on a confirmation reads a verified one (`Found`) and adds nothing.

**TeamsProofs.** `TeamsInv` adds that an id is of one organisation, that every membership and removal is its founder's and of an id that a client could know, and, in memory, that an organisation still to get its founder is of one request and unknown to clients (`Unanswered`). `FoundersStay` follows.

**FrontProofs.** For the request limit, `RateInv`: the requests remembered lie in the present window or in the one before, and within each of the two they have different numbers from 1 to the limit; when a window is over, the next request finds all of them in one. A request let through has the next number of its window (`NeverTwice`),
so the history forgets none, and `TwoWindows` follows by counting numbers; `RateTypes` is its first part. For the process, `ServerInv`: when `Shutdown` has returned in time no connection is idle or at a request (`Quiet`), and this stays, because connections are accepted only before the goroutine has begun. `ClosedLast` follows.

**StoresProofs.** `SlidingHolds` is proved for every window, allowed or not. `SlidingInv` says of the window that ends with t that one of three things is true of it. `Marked`: every instant that was allowed in it, or has been added by a call that will be, still has its mark, and the key outlives the window
of every answered one; then a call that counts less than the limit finds few of them, while each call that has counted may add one. `Renewed`: the key has expired before the window was over; then no request of the window had been answered (its EXPIRE would have kept the key), so that only marks of calls between ZADD and
EXPIRE are lost, one each, and a call that counts less than the limit misses no more than these. `Settled`: a later call has removed some, or the key has expired after the window; then it is past, and only the calls in flight can still add to it, one each. That is where the three for every call come from. `DecodingHolds` rests on `CodecInv`: byte k is made of two characters whose place depends on k alone (`TwoCharacters`),
and of the accumulator only the last six bits matter (`LastOf`), whatever its width has cut off. `EncodingHolds` adds what the encoder makes of such a key.

**RecoveryProofs.** A request that has found a token good uses it later without looking again, so the property needs to know what the token was issued for. `RecoveryInv` says that an entry of the store (`EntriesAsIssued`) and a request about to use a token (`UsesAsIssued`)
agree with what was issued, and that a reset token has one purpose (`TokensByKind`), which makes "it was mailed" and "it was mailed to this account" the same thing; for a code they are not the same, and the invariant does not claim it. It gives `AccountsChangeAsIssued`, `TokensGoWhenUsed` and `RecoveryTyped`.

Only model-checked: `EverySessionEnds`, `BrokenGoesAway`, `NoLockout`, `SignalEnds`, since liveness is out of the prover's reach, and the two properties that section 6 refutes. Every invariant and every action property that a passing run checks has a theorem.

## 6. Where the code and its words disagree

* **Logout.** `invalidate` reads `s.devices[id].OwnerID` for each connection. A connection may be opened under an id that is not registered; the loop then panics with owned connections still open, against its comment
  (469: "all owned connections"). The deferred unlock still runs, so the server goes on.
* **Spellings.** `registerDevice` recognises a key by its base64 text (541). `VerifyDevice` decodes the text with Go's `base64.StdEncoding`, which ignores line ends and the unused bits of the last character, so the same key may come back under another text
  and becomes a second device, although `registration_test.go:11` has "registration reuses identity". The fix is one line: compare the decoded keys, or decode strictly.

Further disagreements have no run of their own, because they hold for every sequence of calls or are plain in one behaviour; the models have them, and the properties say what is left:

* **Presence.** `live` (217) needs a connection and a `LastSeen` within 45 s, and nothing writes `LastSeen` after a registration has left it at the zero time; the store's `SetOnline` (`store.go:212`), which "marks a device as online", has no caller either. So a device that registers and connects is never live, and no session can be
  requested on a server that starts empty. No line says in so many words that a connected device is online, so there is no property to refute; `Registry` has `lastSeen`, and nothing in it moves.
* **The relay checks no session** (904-975). It passes a message on to whatever device it names. The tests expect more: `service_test.go:70-105` that a pending or a revoked session is not signalled, that a repeated sequence number and a message of type "input" are refused, and `signalling_test.go:40-51` that "auth.refresh" is answered
  with "auth.renewed". Neither `Service.route`, which the first calls, nor such a message exists, so that the package's tests do not compile. The model has the relay as it is written.
* **The graceful shutdown** (`main.go:128`: "shutting down server gracefully..."). `ListenAndServe` returns when `Shutdown` begins, not when it ends, and `main` returns at once: requests in flight are cut, and `st.Close` may never run. `Server` has the step (`MainReturns` beside `Drain`), which is why
  `StoreClosedLast` begins with `Up`. `main` would have to wait for the goroutine.
* **withTx** (`postgres.go:69`: "wraps fn in a serializable transaction"). It asks for read committed: two setups that overlap leave two factors, and more with every overlap that is confirmed. `FactorsAreFew` bounds them.
* **A new setup** keeps a verified factor in PostgreSQL (595: "any existing unverified factor") and replaces it in memory (`memory.go:374`), where an abandoned setup leaves the account without one. `VerifiedIsKept` is about PostgreSQL for this reason.
* **The sliding limit** (`redis.go:80-82`: "limit is the max number of requests allowed per window"). Requests of one millisecond share a mark, so any number of them passes; refused ones are marked too, so that a client that goes on asking stays refused; and calls that overlap pass together. A call whose commands come late counts a window that is past: its marks may have been removed, or have gone with the key, which expires two windows after the last EXPIRE, and the call is allowed at an instant whose window was full. The bound of `AtMostLimitInstants` is what is left. Nothing calls it.
* **Accounts in PostgreSQL.** `register` writes no row of `users`, so the foreign keys refuse every organisation, membership and factor, and the runs of workflows lack their session; all but `createOrganization` and `createWorkflow` ignore the error. The models are about accounts that have a row.
* **Email tokens in PostgreSQL** are kept in `email_verification_tokens` (`postgres.go:641`), which no migration creates (`002_sessions_ext.sql:8` has `email_tokens`); every call fails.
* **ExpireLoop** "should be started once after the pool is ready" (`postgres.go:7`), and nothing starts it.

## 7. What is not modelled

* Cryptography, encodings and wording: a signature verifies exactly for its key; a token is its identity.
* List handlers and answers: they change nothing. That answers are written while `mu` is held (a slow reader delays others) is a hazard listed without a property: it depends on the buffers of the HTTP server.
* ICE/TURN credentials are a function of the environment; the source checker is a build tool.
* Calls of the stores that nothing calls: accounts, refresh tokens, devices, sessions, audit, transfers and presence in PostgreSQL and memory, presence and publish/subscribe in Redis. The key codec, `ExpireLoop`'s absence and the sliding limit are the exceptions worth a word.
* Workflows and the AI assistant: each handler adds one entry under a fresh id to a map, or one to the audit log, that no other handler's decision reads.
* The audit log: `record` (195-202) is called without `mu` from `totp.go`, `teams.go`, `workflows.go` and `ai.go`. Two racing appends write a slice header in pieces, and a torn header has no bounded set of outcomes; a model that chose some would be arbitrary, and without the race the log is one assignment.
* Message bodies of the relay: only the addressee decides what happens in the server.
* A commit that takes effect in the database after its request has given up waiting for it: `GiveUp` ends the request before the commit or with an answer that is lost, not while the database still works on it.
* A limit on memory: ended sessions stay in the map for ever in the code and in the model.

## 8. Plan

What is left, most important first:

1. Theorems: the safety half of the liveness properties, that what they wait for stays possible (an open session has a deadline that the clock reaches, a broken connection a goroutine that will notice); the type of `Server` beyond what `ServerInv` says.
2. `Tokens` and `Sessions` together, if the code comes to promise something about a request that is authorised before a logout and executed after it.
3. The store's calls that have no caller yet, when handlers come to use them: a contract of `store.go` as an abstract specification with the two stores as implementations is worth stating then. Today the two differ in what every handler can see (section 6), so that no contract holds of both.
