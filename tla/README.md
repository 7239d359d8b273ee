# Formal specifications of Tere's server

Tere runs shells for remote users. Its server is a few small processes that
share nothing but UNIX domain sockets and file descriptors passed over them.
This directory models them in TLA+, checks the models with TLC and proves
theorems about them with TLAPS. Paths below are relative to `src/server/src/`
unless they start with another directory.

## The system

| Component | Source | State it keeps | Operations |
|---|---|---|---|
| pty service (`tere-pty@`), one process per session | `services/pty/`, `pty_master.rs`, `proto/pty*` | the PTY master, shared by all threads; per client a socket, a thread of `serve_user`, an input thread and an output thread | handshake, `Init`, `NewClient`; copy keyboard to PTY; copy PTY to client; wind down |
| sessions service (`tere-sessions`), one process | `services/sessions/`, `proto/sessions.rs` | a map from random session id to `Creating` or `Ready` with PTY master and worker connection; a thread per policy process | handshake, `CreateShellSession` |
| D-Bus client | `dbus_shell.rs` | a connection | `create_shell` |
| socket activation | `socket_activation.rs` | environment, offset into the names, next descriptor | `parse`, `FdIter::next` |
| message transport | `ipc/seqpacket.rs`, `ipc/mod.rs` | a connected SOCK_SEQPACKET socket | send and receive with descriptors, shutdown |
| descriptor passing | `ipc/passfd.rs`, `ipc/ownedfd.rs` | two thread-local queues of descriptors | gather, scatter |
| handshake | `ipc/handshake.rs` | none | client side, server side |
| build identity | `src/server/build.rs` | none: it runs when the server is built | hash of the sources that define the protocols |
| the rest | `bin/`, `ipc/fakeipc.rs`, `src/server/tests/`, `src/server/systemd/` | | entry points, test doubles, configuration |

How they interact: a policy process connects to the sessions service and sends
`CreateShellSession` with one end of its client's socket pair. The service asks
systemd-machined for a shell and gets a PTY master, connects to
`/run/tere/socket/pty.socket` for which systemd starts a `tere-pty@` process,
and sends that process the PTY master (`Init`) and the client's socket
(`NewClient`). From then on the client talks to the pty process directly. The
sessions service keeps the PTY master and the connection, for clients to come.

What is hard about it:

* in the pty service, 2n + 2 threads or more block on a PTY and n sockets, share
  the PTY without coordination, and wind down in an order that depends on who
  fails first;
* in the sessions service, a request is two critical sections with five blocking
  calls between them, each of which may fail and panics the thread, while
  other threads use the same map and systemd starts and limits the workers;
* the kernel's part: what a close with unread messages does to the other end,
  when a write comes up short, when a PTY hangs up.

`PROJECT.json` lists the hazards one by one, each at its line, with the
properties that would catch it going wrong.

What makes each component correct:

* pty service: no output is duplicated or reordered; none is lost but what a client
  that closes had not received, one chunk more for each such client, and what is in
  a thread's hand when the process ends; a keyboard message arrives whole and in
  order; a clean end of stream, as long as the process runs, means that the shell is
  gone and all its output was read, and received, is under way, or was lost with
  clients that closed; everybody is released when the shell, the supervisor or the
  process ends.
* sessions service: a map entry belongs to one request until it is ready; a
  worker has its PTY before its client; whatever fails, no shell is forgotten, and
  no client's socket but that of a request which is rejected before its descriptor
  has an owner.
* socket activation: each descriptor is known by the name systemd gave it.
* transport and descriptor passing: a descriptor that arrived has exactly one
  owner, on every error path too.
* handshake: it succeeds only between the two roles of one protocol of one build,
  and the two sides agree on whether it did.
* build identity: builds from different sources never have the same one.

## Modules

| Module | What it is |
|---|---|
| `PtyService` | one pty process, its supervisor, clients, shell, sockets and PTY |
| `Relay` | abstract: what a session is, today, to its clients and its shell |
| `Sessions` | the sessions service, its policy processes, systemd-machined and the workers |
| `PtyWorker` | abstract: what a supervisor and its workers promise each other |
| `Handshake` | the two ends of a connection, each of some build and for some protocol |
| `BuildIdentity` | the identity of a build as a function of its source tree |
| `FdPassing` | receiving messages with descriptors, by the threads of one process |
| `SocketActivation` | `parse`, the iterator and the loop in `run` that picks the listener |
| `MCPtyService`, `MCSessions`, `MCHandshake`, `MCFdPassing`, `MCSocketActivation` | values of constants and symmetry sets for TLC |
| `PtyServiceProofs` | proofs of `TypeOK` and of the refinement `IsAWorker` |
| `PtyOutputProofs` | the inductive invariants of the output side; proofs of `StreamOrder`, `ConservedOutput`, `EndMeansAll` |
| `PtyRelayProofs` | the invariants of the input side; proofs of `KeysInOrder` and of the refinement `IsARelay` |
| `SessionsWorkerProofs` | proofs of `TypeOK`, `InitComesFirst` and of the refinement `SupervisesWorkers` |
| `SessionsProofs` | proofs of `NobodyStealsSessionId`, `ReadyIsWhole`, `AttachedIsRemembered`, `EveryHolderLives` |
| `HandshakeProofs` | proofs of `TypeOK`, `Agreement`, `CompatiblePeersMeet`, `NobodyWaitsInVain`, of what cannot be returned, and, with the unique readability of the hashed stream, of `OkMeansSameSources` |
| `SocketActivationProofs` | proofs of `TypeOK`, `YieldsTheirNames`, `ListensOnItsOwn`, `PanicsOnlyWithoutNames` |
| `FdPassingProofs` | proofs of `TypeOK`, `NobodyClosesAnothers`, `ReturnedIsComplete`, `OnlyRejectedLeak` |

`Handshake` extends `BuildIdentity`. `PtyService` instantiates `Relay` and
`PtyWorker`, and `Sessions` instantiates `PtyWorker`, to state that they implement
them. Each proof module extends the module it is about; `PtyOutputProofs`
extends `PtyServiceProofs`, `PtyRelayProofs` extends
`PtyOutputProofs`, and `SessionsProofs` extends `SessionsWorkerProofs`.

### PtyService

One step is one blocking system call of one thread, with the code up to the next
one. Threads communicate through kernel objects only, so nothing in between
can be observed.

| Code | Model |
|---|---|
| `serve()` (`services/pty/mod.rs:43-71`) | `main`: `MainHandshake`, `MainReply`, `MainInit`, `MainServe`; every return and the panic of line 61 is `Exit`, which ends the process and closes all its sockets |
| `serve_user` (`services/pty/user.rs:28-94`) | `user`: `UserHandshake`, `UserReply` (which starts both threads), `UserJoinOutput` (with the shutdown), `UserJoinInput` (which drops the connection) |
| the input thread (37-52) | `inp`, `inHand`: `InputReceive`; `InputWrite` is one write(2) of `write_all` |
| the output thread (54-75) | `out`, `outHand`: `OutputRead`, `OutputSend` |
| the sessions service at the other end | `sup`, `supQ`: `SupHello`, `SupInit`, `SupNewClient`, `SupClose` |
| sockets | `inbox` and `sent` hold messages, `got` how many the client has read, `cliReset` and `srvReset` a pending ECONNRESET, `srv` the state of the service's end |
| PTY | `printed` and `taken` count chunks of output, `keys` is all input written, `keysRead` how much the shell has read |

Environment taken from Linux: sendmsg blocks when the peer's queue is full and
fails when the peer is gone; closing a UNIX socket with unread messages gives the
peer ECONNRESET, once, before anything that is queued; after shutdown for reading
queued messages are still received and then the end of the stream; reading a PTY
master whose other side is closed returns what is left and then EIO; writing to
it then gives EIO; the last close of a master hangs the shell up. The master is
open in the supervisor, in an unread `Init` and in `serve()`, as
`services/sessions/mod.rs:176-201` keeps its own.

`TooLarge` stands for every message the input thread cannot receive: too large
for `MAX_SIZE` (nothing at the sender limits it), or undecodable. A chunk of
output is what one read(2) returns; a keyboard message has `Pieces` units at
which a write may come up short.

Not in the model: errors of the PTY other than EIO, and EINTR.

### Sessions

| Code (`services/sessions/mod.rs`) | Model |
|---|---|
| `serve()` 65-93 | `Connect`; an ended thread is `ended`, a panicked one `panicked` |
| `serve_conn()` 104-216 | `pc`: `Handshake`, `Receive`, `Insert` (the first critical section), `CreateShell`, `ConnectWorker`, `Greet`, `Greeting`, `SendInit`, `MarkReady` (the second critical section), `Attach` |
| every `expect` | `Panic`: the thread's stack is dropped and its sockets and PTY master are closed, queued requests with them |
| the map | `session`, `owner` |
| `receive_with_fds()` (118; `ipc/seqpacket.rs:165-240`) | `Receive`: the next request, or the end of the stream or a rejected request, either of which ends the thread. A request that is too large or empty is rejected before its descriptor has an owner (`ipc/seqpacket.rs:188-194`): `LeakRequest`, after which the client's socket is `leaked` until the process ends |
| descriptors | `sock` (the client's socket), `master` and `conn` (the sets of holders of the PTY master and of the connection to the worker) |
| a `tere-pty@` process | `worker`, `queue`, `replied`; `WorkerFails` at any time |
| the service dying, restarted by its socket unit | `Crash`: the map is gone, what the process held is closed |

### PtyWorker: how the two services fit together

`PtyService` has a supervisor as its environment, and `Sessions` has workers as
its environment. That each is what the other takes it for is stated through one
abstract specification with both parties in it:

| `PtyWorker` | in `PtyService`, which shows one worker | in `Sessions`, which has one per request |
|---|---|---|
| `worker` | `Stage`: from `main` and `sup` | `worker` |
| `queue` | `NotTaken`: `supQ` without the greeting that `MainReply` is answering | `queue` |
| `linked` | `SupOpen` | `conn[r] # {}` |
| `Start` | never: it is modelled from its first step on | `ConnectWorker` |
| `Supervise` | the environment's `Sup...` actions | `SendInit`, `Attach`, `Greet`, a panic, `Crash` |
| `Serve`, `Stop` | `MainReply`, `MainInit`, `MainServe`, `Exit` | the environment's `Worker...` actions |

`IsAWorker` (`PtyService`) and `SupervisesWorkers` (`Sessions`) are
the two refinements. So a pty process never meets a supervisor that does something
it is not ready for, and the sessions service never meets a worker that
its model does not have. What `Sessions` assumes of the fairness of its
workers is `AnswersSupervisor` in `PtyService`: a process that has a message, or
that its supervisor let go of, takes it or ends.

### Relay: what a session is for its users

The output is divided among the clients and each is given its part in order. A client
that leaves takes with it what it was given and had not received, which is no more than
its socket holds (`Room`), and at most one chunk more that was meant for it. The
keyboard is given what each client typed, in order, in any interleaving.

`Relay` says what the code does and not what is planned: that all clients be given all
the output is a TODO (`services/pty/mod.rs:55-56`), and `StreamOrder` says that no chunk reaches two
clients. What is left of "smearing data over them unpredictably" is that the
division is arbitrary, and not that output is repeated or reordered, nor that a client
which stays loses what it was given.

`IsARelay` maps what clients were sent (`Streams`) and have received (`Receipts`), what
was lost with them without being sent (`Losses`), the clients that left (`Gone`), and the
pieces they typed and the shell was given (`TypedPlaces`, `WrittenPlaces`,
`KeyPlaces`). Threads, handshakes, short writes, the order of winding down and
every socket are stutters.

### Handshake

| Code (`ipc/handshake.rs`) | Model |
|---|---|
| `handshake_as_client` | `ClientSends`, `ClientReceives` |
| `handshake_as_server` | `ServerReceives`, `ServerSends` |
| the two comparisons (56-61, 72-77) | `Verdict`: the build id, which depends on the intent it comes with, and then the intent |
| the returns | `result`: `Ok`, or which error; an end whose handshake failed is closed by its caller |
| a process dying | `Dies`, at any time |

The errors `Send`, `Socket` (ECONNRESET) and `End` come from what the other end did.
A message of another build may have another layout, so that between different
identities the outcome may be `Deserialize` too. Handshakes are parts of `PtyService`
and `Sessions` as well, where they only block, succeed or fail.

### BuildIdentity

`EntryRecord` is what is fed to the hash for one path: the path, a NUL, the letter F
or L, and the hash of the file's content or the target of the link, and a NUL. Bytes
are numbers. Nothing says how long a path or a target is, and a hash may contain
NUL, so that it is not evident that two streams differ when the trees do:
`OkMeansSameSources` tries pairs of trees that are made to be mistaken for each other
(the paths `a` and `aF`, hashes that have NUL and the letter L in them).
blake3 is modelled as injective.

### SocketActivation

The names are byte sequences and `NextOffset` computes exactly what
`socket_activation.rs:218` does. `YieldsTheirNames` compares with `NthName`, an
independent definition by counting colons, and `ListensOnItsOwn` takes the descriptors
that were passed, and their names, by the same definition.

### FdPassing

| Code | Model |
|---|---|
| `send_with_fds` (`ipc/seqpacket.rs:124-163`) and `passfd::serialize` | `Send`: a message is whether the receiver rejects it at once, and how many descriptors it has; `File(t, n, j)` is the j-th of the n-th message to `t` |
| `recvmsg` and the checks after it (165-221) | `Recvmsg`: the kernel installs descriptors at the lowest free numbers, `Collected` are those that get an owner, `Truncated` is MSG_CTRUNC |
| `scatter_fds_from_vec_deque` and `passfd::deserialize` | `Deserialize`: fields take descriptors from the front of the queue, and the guard hands back the rest |
| the returns (223-239) and `OwnedFd::drop` | `DropMessage`, `DropField`, `DroppedFields`, `DropRest`, `DroppedRest`: the message is dropped before the queue; each close is a step of its own |

The table of descriptor numbers belongs to the process and is what threads
interact through. `Room` is what CMSG_SPACE gives: its argument is rounded up to
8 bytes, so that a type with an odd `MAX_FDS` has room for one more. A type of
message is its `MAX_FDS` and how many fields it has, which the code does not
relate; a sender is free to send a message of another type, or with more or
fewer descriptors. Where the data does not fit the type, the deserializer may
fail before or after any field.

Not in the model: descriptors the process opens by other means than receiving.

## Runs

| Run | What it shows | Bounds |
|---|---|---|
| `PtyOneClient.cfg` | types; the refinement `IsAWorker`; `PtyEndReleasesUsers`, `KeysReachShell`, `EndReleasesClients` under fairness | 1 client, 2 chunks, 2 messages of 2 pieces, a socket of 1 message, a PTY of 2 pieces |
| `PtyTwoClients.cfg` | `StreamOrder`, `EndMeansAll`, `ConservedOutput`, `KeysInOrder`, the refinement `IsARelay` | 2 clients, 2 chunks, 1 message of 2 pieces each, symmetric clients |
| `PtyTwoClientsLive.cfg` | `OutputKeepsFlowing`, `AnswersSupervisor` under fairness | 2 clients that type nothing, 2 chunks |
| `SessionsSafety.cfg` | types; `NobodyStealsSessionId`, `InitComesFirst`, `AttachedIsRemembered`, `ReadyIsWhole`, `EveryHolderLives`, the refinement `SupervisesWorkers` | 2 policy processes, 2 requests each, 3 ids, 2 workers, 1 crash, symmetry |
| `SessionsLive.cfg` | `ClientsAreAnswered`, `NoForgottenShell` under fairness | 1 policy process, 3 requests, 3 ids, 2 workers at a time, 1 crash |
| `Handshake.cfg` | types; `Agreement`, `OkMeansSameSources`, `CompatiblePeersMeet`, `NobodyWaitsInVain`; `NobodyWaits` under fairness | 2 protocols, all pairs of trees of 2 paths with 2 hashes and 1 link target |
| `FdPassing.cfg` | types; `NobodyClosesAnothers`, `ReturnedIsComplete`, `OnlyRejectedLeak` | 2 threads, 2 messages each with up to 3 descriptors, 3 types of messages, 4 descriptor numbers, symmetric threads |
| `SocketActivation.cfg` | types; `YieldsTheirNames`, `ListensOnItsOwn`, `PanicsOnlyWithoutNames` | names of up to 4 bytes over two letters and the colon, up to 4 descriptors |

Why the bounds are enough: a socket of one message makes every sender block; a
PTY of two pieces makes a second message block and a first one come up short;
two clients are what sharing needs, and every property is about one client or
a pair. Two chunks are read by the same thread or by two. Two typists with a message
each write to a PTY that has room for one, so that either comes up short between
pieces of the other. `KeysReachShell` has a client with two messages; their order is
one thread's loop, and for any number of them the theorem `KeysArriveInOrder`. Two requests show a
failure with another request queued behind it; 3 ids for 4 requests make ids run
out in `SessionsSafety`. `SessionsLive` has an id for every request, as 2^192
ids do, and three requests for two workers, so that a third client waits until
a worker has ended. A connection is two ends and a handshake at most two messages,
so that `Handshake` has no bound but on the trees. Two messages of three descriptors on each of two connections fill a table
of four numbers, so that numbers are reused and run out in the middle of a
message; the types have room for as many descriptors as fields, for one more, and
for none. Names of four bytes hold up to five names, empty ones in every place, and
four descriptors go beyond the names by two. Deadlock is not checked: clients,
shell and services end, and the bounds on what they do are reached.

Four disagreements within the repository are runs that end in a violation:

* `PtyClientReset.cfg`: the VM test accepts a clean end of the stream only
  (`tests/vm-smoke.rs:122-123`); a client that was served, and typed something that its
  input thread had not read when the shell was gone, sees ECONNRESET when `serve_user`
  drops the connection (`services/pty/user.rs:89-93`). The property leaves out clients
  that were not served yet, or sent a bad message, and the end of the process.
* `ActivationPanic.cfg`: the comment at `socket_activation.rs:217` says the offset
  never goes past the names; with two descriptors more than names the iterator
  panics. `PanicsOnlyWithoutNames` shows that systemd, which names every
  descriptor, never gets there.
* `FdLeak.cfg`: comments say that descriptors are closed on error paths
  (`ipc/seqpacket.rs:210-211`, `216`); a message that is too large or empty
  returns before its descriptors have an owner (`188-194`). `OnlyRejectedLeak`
  shows that no other path leaves one open. In the sessions service the descriptor is
  a client's socket: that client is neither served nor told (`LeakRequest`), which
  `EveryHolderLives` and `ClientsAreAnswered` name as their exception.
* `WrongService.cfg`: "peer is running the wrong version of this software"
  (`ipc/handshake.rs:40`) is what a peer of the same version that speaks to another
  service is told. The error meant for it (`ipc/handshake.rs:43`) cannot occur,
  which is the theorem `WrongServiceIsUnreachable`.

Reading the code showed four more, which need no run of their own:

* the sketch has `tere-pty@` "broadcasting the same PTY output stream to all clients",
  "once implemented" (`src/doc/dev/sketch/privsep.md:123`). The code admits a second
  client today, and its TODO says that it mishandles them
  (`services/pty/mod.rs:55-56`): `StreamOrder`, which holds, says that no chunk reaches
  two clients;
* the arm of `parse` for an absent `LISTEN_PID` (`socket_activation.rs:147`) can never
  be taken, since an absent variable is `EnvError::Var` there. `Parse` fails in
  that case as the code does;
* two tests of the pty service expect that a hang-up of the supervisor is a
  deserialization error (`services/pty/tests.rs:47-55`, `171-179`), where the code
  reports `ReceiveError::End` (`ipc/seqpacket.rs:192`);
* a test of the handshake expects a socket error `UnexpectedEof`
  (`ipc/handshake.rs:126-133`), where both transports report `ReceiveError::End`
  (`ipc/seqpacket.rs:192`, `ipc/fakeipc.rs:82`).

## Fairness

`PtyService`: weak fairness of the main thread, of each thread of `serve_user`
and of each input and output thread (the operating system runs runnable
threads), of the shell reading its keyboard, of clients receiving, and of the
kernel hanging up the shell. Clients that stop receiving block their output
thread for as long as they like; the liveness properties are about clients that
do not. Nothing is assumed of a shell's printing or exiting, of typing, of
closing or of the supervisor.

`Sessions`: weak fairness of each thread and of each worker; that a pty process
lives up to the latter is `AnswersSupervisor`. `CreateShell` is a
step of the thread, so this assumes that systemd-machined answers in the end:
the code has no timeout for it. Failures, crashes and everything a policy
process does are never assumed.

`Handshake`: weak fairness of either process. Neither need die.

## Theorems

Every invariant and every refinement that a run checks is a theorem; the liveness
properties are not. All theorems hold for every value of the constants, under the
assumptions the modules name. `BoundsAssumption`, `SessionsAssumption`, `KindsAssumption`
and `NamesAssumption` say that the bounds are numbers and the capacities positive, and,
the last, that no byte of a name is the colon. `BytesAssumption` of `BuildIdentity` says
that paths and the targets of links have no byte 0, which Unix does not allow, and that
the hashes of contents are bytes and of one length, as blake3's are. Sets of clients,
connections and threads may be infinite.

* `TypeCorrect`: `Spec => []TypeOK` of `PtyService`. `TypeOK` is inductive; one
  lemma per process shows that its steps preserve the part for each group of
  variables, and `Unchanged` covers the groups a step leaves alone.
* `StreamsOrdered` and `OutputConserved`: `[]StreamOrder` and
  `[]ConservedOutput`. Neither is inductive. `IndInv` of `PtyOutputProofs` adds
  what relates an output thread's hand to the PTY and to the sockets: only what
  was taken is sent (`SentInv`); a chunk in a hand that is about to be sent is
  newer than all that its thread sent and in no other hand or stream (`HandInv`);
  nothing is sent before the handshake (`FreshInv`) and a client's socket is in at
  most one message (`QueueInv`), so that each client has one output thread; and a
  send fails only with a client that has closed, since a pending ECONNRESET at the
  service's end means that the client is gone (`ResetInv`). So every chunk taken is in a
  socket or in a hand (`Placed`), and what a client that closes takes with it is bounded
  by the room in its socket (`RoomInv`, `LossIsBounded`).
* `CleanEndsAreTrue`: `[]EndMeansAll`. `EndInv` follows the truth from the PTY to the
  client: an output thread ends with EIO only when the shell is gone and all is taken
  (`EioInv`); `serve_user` shuts a socket down only after that, or after a send
  failed (`CloseInv`, `ErrorInv`); and a client sees the end of its stream only from
  a socket that was shut down (`SeenInv`). `OpenInv` says that until then the
  service's end is open. With `ConservedOutput` this is the theorem. It is about a
  process that runs: one that ends, without its supervisor or by the panic of
  `services/pty/mod.rs:61`, closes its clients' sockets, which look the same from there.
* `KeysArriveInOrder`: `[]KeysInOrder`. `InputInv` says where each client's messages
  are: its greeting comes first (`Greeting`), the message in the input thread's hand is
  the last one received, part of it written (`Hand`), and the socket holds the
  following ones up to the last one typed (`OnItsWay`). `KeyInv` says that the shell
  was given of each client exactly the first `Written(c)` places of what it typed,
  in order; the next piece is the next place.
* `SessionIsARelay`: `Spec => IsARelay`. One lemma per process maps its steps: a send
  is `Give`, a failed one `Lose` (`LossInv`: at most one, by a client that left), a
  write `Press`, typing `Type`, receiving `Receive`, closing `Leave`, printing `Emit`, and
  any other step a stutter. That a send that does not block finds room in the socket is
  `Give`'s guard.
* `ProcessIsAWorker`: `Spec => IsAWorker`. `TalkInv` relates what the supervisor has
  sent to what the main thread has read, so that the message at the head of its
  queue is the one it expects.
* `SessionsWorkerProofs!TypeCorrect`, `PtyBeforeClients` and `ServiceSupervises`:
  `[]TypeOK`, `[]InitComesFirst` and `Spec => SupervisesWorkers` of `Sessions`.
  `WorkerInv` says of each thread what its request's worker, queue and
  descriptors are at each step of `serve_conn` (`Stage`), and of each request what
  may have become of them once the thread has moved on or panicked (`Tale`).
* `ReadySessionsAreWhole` and `ClientsAreRemembered`: `[]ReadyIsWhole` and
  `[]AttachedIsRemembered`. `ReadyInv` joins the invariant of the map with that of the
  workers, and adds that a thread about to attach has made its entry ready, and that a
  client in a worker's queue counts as handed over (`Remembered`).
* `HoldersLive`: `[]EveryHolderLives`, which is what `NoForgottenShell` and
  `ClientsAreAnswered` rest on besides fairness: no descriptor is with a thread, an entry or
  a worker that is gone, but for the client of a request rejected before it had an owner, of
  which a connection has at most one, the request it ended with. `HolderInv` adds to `ReadyInv` that a request is received after it
  was sent, that a thread about to attach has given its PTY master to the map (`Passed`;
  otherwise it would keep it when it turns to its next request), and that a connection that
  was not made has no thread (`Fresh`). `OwnRequest` is the argument that all steps between
  the two critical sections share: they touch what belongs to the thread's own request only.
* `SidesAgree` and `WrongServiceIsUnreachable` of `Handshake`: what either side's
  inbox can hold and what a result says of the other side, for any protocols and any
  two builds. The second rests on build ids being derived from intents.
* `FittingPeersMeet`: `[]CompatiblePeersMeet`. While two sides that fit are alive, both
  ends are open and nothing is pending at them (`MeetInv`); and builds with the same
  sources have the same identity, since the record of every path is the same
  (`SameRecords`), whatever the walk meets besides.
* `HandshakeProofs!TypeCorrect` and `NoVainWait`: `[]TypeOK` and `[]NobodyWaitsInVain`, the
  safety half of `NobodyWaits`. It is not inductive: `WaitInv` says that the client's
  message is under way until the server has taken it and the server's until the client has,
  and that a side that failed is closed, which its caller does.
* `IdentityTellsSources`: two trees with equal identities have the same sources, and with it
  `OkTellsSources`: `[]OkMeansSameSources`. The stream is the last of its prefixes, one for
  each number of paths walked (`Joined`, `FlattenIsLastPrefix`). A record can be read in one
  way only (`RecordIsUnique`): the path ends at the first NUL, the mark says whether a hash
  follows, whose length is known, or a target, which ends at the next NUL (`EndsAtZero`).
  So where a prefix of the one stream ends a prefix of the other does, by induction over the
  walk (`RecordsMatch`, `SourcesAreRead`); what leaves no record is no source.
* `SessionIdsAreKept`: `[]NobodyStealsSessionId` of `Sessions`. The invariant is
  inductive with the types of the map and of the threads. The two steps that
  matter are `Insert`, which takes an absent entry, while no thread in between
  has one, and `MarkReady`, where `DistinctEntries` shows that the entry of
  another thread in between is another entry, as its owner is.
* `TypeCorrect` and `DescriptorsAreOwned`: `[]TypeOK` and `[]NobodyClosesAnothers`
  of `FdPassing`. `IndInv` of `FdPassingProofs` says of each thread that fields and
  queue hold distinct numbers that refer to its last message, and where they are
  empty: at the start of `Recvmsg`, which raises the number of the last message,
  a thread holds nothing. What a thread closes is its own, so it is nobody else's
  (`MineIsOne`), and what the kernel installs was free, so it was nobody's
  (`MineIsNotFree`).
* `ReturnedMessagesAreComplete` and `OthersDoNotLeak`: `[]ReturnedIsComplete` and
  `[]OnlyRejectedLeak`. `PlaceInv` adds to `IndInv` that while a message is
  deserialized the queue has all its descriptors in order, and that a number in use
  is held by some thread or came with a message that was rejected at once (`Known`).

* `SocketActivationProofs!TypeCorrect`, `NamesAreTheirs`, `ListensOnOwn` and
  `PanicNeedsMissingName`: `[]TypeOK`, `[]YieldsTheirNames`, `[]ListensOnItsOwn` and
  `[]PanicsOnlyWithoutNames`. What code and reference compute in two ways is related by `ScanInv`:
  after k descriptors the offset is just behind colon number k (`AtName`), or, where there are
  not so many, at or beyond the end of the names (`PastNames`). With the least colon from there on,
  `NextName` shows that the slice the iterator takes is `NthName(k + 1)` and that the next
  offset is again one of the two. The offset's bound, of the wrong quantity, matters in the second
  case only, where the offset may be one beyond the end; a panic is in that case (`PanicInv`). `CountInv` relates what is left to count
  to what was yielded, and `KeepInv` what was closed to the descriptors called `tere-sessions` so far,
  of which the last one is kept, and of which there are none unless `LISTEN_PID` is ours; at the
  end of the loop the descriptors yielded are all that were passed.

Two of these need induction over data, along the walk of the sources and along the bytes
of the names. The library's induction theorems cannot be used, since no installed prover
can instantiate the predicate they take; `Least` and `Induction` derive the same from the
theorem that every set of naturals has a least element (`NatLessThanWellFounded`, `WFMin`),
for a set where the library has a predicate. `FlattenSeq` and `Cardinality` are used through
their defining equations only.

Only model-checked are the liveness properties: `PtyEndReleasesUsers`, `KeysReachShell`,
`EndReleasesClients`, `OutputKeepsFlowing`, `AnswersSupervisor`,
`ClientsAreAnswered`, `NoForgottenShell` and `NobodyWaits`. They need fairness, and so
ENABLED, which is out of the prover's reach; of the last three the safety half is proved
(`HoldersLive`, `NoVainWait`).

## Not modelled

* Restarts that keep sessions: the sketch (`src/doc/dev/sketch/privsep.md:99`)
  wants descriptors stored in systemd; the code has a TODO
  (`services/sessions/mod.rs:45`). `Crash` therefore loses the map.
* What is inside a message (names of machines and users, terminal contents),
  privileges and system configuration. `create_shell` (`dbus_shell.rs`) is one step that
  succeeds or fails.
* `src/server/build.rs`: which files the walk skips because git ignores them, and errors
  that stop a build; a build that failed has no processes.
* Creating sockets and checking their type (`ipc/seqpacket.rs`), the removal of
  environment variables in `parse`: they act on one process before it has threads.
* The executables, which call `run()` and print its error, a client for debugging,
  the test double `ipc/fakeipc.rs`, the tests, documentation and packaging.
* A timeout: the code has none. A connection's later requests wait as long as
  systemd-machined does for an earlier one; `ClientsAreAnswered` holds because
  it is assumed to answer.

* An end of sessions: the code removes no entry from the map. The worker of a session whose
  shell has exited waits for clients and counts among `MaxConnections=`; `ReadyIsWhole`
  and `NoForgottenShell` say that a session is not let go of too early and say nothing
  of this.

## Plan

1. Done: `PtyService` with its refinements of `PtyWorker` and `Relay`, and proofs of its
   invariants and of both refinements; `Sessions` with its refinement of `PtyWorker`
   and proofs of its invariants; `Handshake`, `BuildIdentity`, `FdPassing` and
   `SocketActivation` with proofs of their invariants.
2. Left to prove: the safety halves of the liveness properties of `PtyService`, stated as
   invariants of runs first: that a thread that waits always waits for somebody who can still
   act (its client, the shell, another thread or its supervisor), as `NobodyWaitsInVain`
   has it for the handshake.
3. If the code comes to store descriptors in systemd across restarts
   (`services/sessions/mod.rs:45`), `Crash` has to keep the map and `ReadyIsWhole` and
   `NoForgottenShell` have to hold across it.
