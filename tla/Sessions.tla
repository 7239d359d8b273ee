------------------------------ MODULE Sessions ------------------------------
(***************************************************************************)
(* The sessions service (services/sessions/mod.rs, dbus_shell.rs).         *)
(*                                                                         *)
(* A thread per connection serves the requests of one policy process, one  *)
(* after the other.  For a CreateShellSession it enters a new random       *)
(* session id into a map that all threads share, asks systemd-machined for *)
(* a shell, connects to the pty socket (systemd starts a worker for it),   *)
(* performs a handshake, hands the worker the PTY master, marks the entry  *)
(* ready and hands the worker the client's socket.  Every failure after    *)
(* the request was received is a panic of the thread.                      *)
(*                                                                         *)
(* One step is one blocking call of a thread, or one critical section.     *)
(* The worker, which is PtyService in detail, appears here as the process  *)
(* at the other end of its connection.                                     *)
(***************************************************************************)
EXTENDS Integers, Sequences, FiniteSets

CONSTANTS Conns,       \* connections of policy processes
          MaxRequests, \* bound: requests on one connection
          Ids,         \* session ids
          MaxWorkers,  \* MaxConnections= of tere-pty.socket
          MaxCrashes   \* bound: crashes of the service

ASSUME SessionsAssumption == /\ MaxRequests \in Nat
                             /\ MaxWorkers \in Nat
                             /\ MaxCrashes \in Nat

\* The n-th request on connection t.
Requests == Conns \X (1..MaxRequests)
NoRequest == <<>>
NoId == "none"

VARIABLES
  pc,      \* where the thread of a connection is
  policy,  \* the policy process's end of the connection
  asked,   \* number of requests the policy process sent
  req,     \* number of requests the thread received
  id,      \* the session id the thread chose last
  session, \* the map: the state of the session with that id
  owner,   \* the map: the request whose session it is
  sock,    \* where a request's client socket is
  master,  \* who holds the PTY master of a request open
  conn,    \* who holds the connection to a request's worker open
  worker,  \* the worker of a request
  queue,   \* messages to the worker that it has not read
  replied, \* has the worker answered the handshake?
  crashes  \* number of crashes so far

threadVars == <<pc, req, id>>
policyVars == <<policy, asked>>
mapVars == <<session, owner>>
workerVars == <<worker, queue, replied>>
fdVars == <<sock, master, conn>>
vars == <<threadVars, policyVars, mapVars, workerVars, fdVars, crashes>>

Busy == {"insert", "create", "connect", "greet", "greeting", "init", "ready", "attach"}
Over == {"ended", "panicked"}

TypeOK ==
  /\ pc \in [Conns -> {"none", "hello", "receive"} \cup Busy \cup Over]
  /\ policy \in [Conns -> {"new", "up", "closed"}]
  /\ asked \in [Conns -> 0..MaxRequests]
  /\ req \in [Conns -> 0..MaxRequests]
  /\ id \in [Conns -> Ids \cup {NoId}]
  /\ session \in [Ids -> {"absent", "Creating", "Ready"}]
  /\ owner \in [Ids -> Requests \cup {NoRequest}]
  /\ sock \in [Requests -> {"unsent", "queued", "held", "sent", "attached", "closed", "leaked"}]
  /\ master \in [Requests -> SUBSET {"thread", "map", "message", "worker"}]
  /\ conn \in [Requests -> SUBSET {"thread", "map"}]
  /\ worker \in [Requests -> {"none", "new", "greeted", "serving", "dead"}]
  /\ queue \in [Requests -> Seq({"Hello", "Init", "NewClient"})]
  /\ replied \in [Requests -> BOOLEAN]
  /\ crashes \in 0..MaxCrashes

Init ==
  /\ pc = [t \in Conns |-> "none"]
  /\ policy = [t \in Conns |-> "new"]
  /\ asked = [t \in Conns |-> 0]
  /\ req = [t \in Conns |-> 0]
  /\ id = [t \in Conns |-> NoId]
  /\ session = [i \in Ids |-> "absent"]
  /\ owner = [i \in Ids |-> NoRequest]
  /\ sock = [r \in Requests |-> "unsent"]
  /\ master = [r \in Requests |-> {}]
  /\ conn = [r \in Requests |-> {}]
  /\ worker = [r \in Requests |-> "none"]
  /\ queue = [r \in Requests |-> <<>>]
  /\ replied = [r \in Requests |-> FALSE]
  /\ crashes = 0

-----------------------------------------------------------------------------
(* The policy process.                                                     *)

\* It connects; serve() accepts and starts the thread of the connection.
Connect(t) ==
  /\ policy[t] = "new"
  /\ policy' = [policy EXCEPT ![t] = "up"]
  /\ pc' = [pc EXCEPT ![t] = "hello"]
  /\ UNCHANGED <<asked, req, id, mapVars, workerVars, fdVars, crashes>>

PolicyAsks(t) ==
  /\ policy[t] = "up" /\ pc[t] \in {"receive"} \cup Busy /\ asked[t] < MaxRequests
  /\ asked' = [asked EXCEPT ![t] = @ + 1]
  /\ sock' = [sock EXCEPT ![<<t, asked[t] + 1>>] = "queued"]
  /\ UNCHANGED <<threadVars, policy, mapVars, workerVars, master, conn, crashes>>

PolicyCloses(t) ==
  /\ policy[t] = "up"
  /\ policy' = [policy EXCEPT ![t] = "closed"]
  /\ UNCHANGED <<threadVars, asked, mapVars, workerVars, fdVars, crashes>>

-----------------------------------------------------------------------------
(* The thread of a connection: serve_conn().                               *)

\* The request the thread receives next.  (Mutant: taken for the one it serves.)
NextOne(t) == <<t, req[t] + 1>>

\* The request the thread serves.
Current(t) == <<t, req[t]>>

\* The clients' sockets when what the threads in T held is closed, unread requests
\* with it.
ClosedBy(T) == [r \in Requests |->
  IF r[1] \in T /\ sock[r] \in {"queued", "held"} THEN "closed" ELSE sock[r]]

\* The descriptors that the threads in T no longer hold.
LetGo(held, T) == [r \in Requests |->
  IF r[1] \in T THEN held[r] \ {"thread"} ELSE held[r]]

\* (Mutants: the client's socket, the PTY master are not closed.)
DropKeepsSocket(T) ==
  /\ master' = LetGo(master, T) /\ conn' = LetGo(conn, T)
  /\ UNCHANGED sock
DropKeepsMaster(T) ==
  /\ sock' = ClosedBy(T) /\ conn' = LetGo(conn, T)
  /\ UNCHANGED master

\* What the threads in T held is closed.
Drop(T) == sock' = ClosedBy(T) /\ master' = LetGo(master, T) /\ conn' = LetGo(conn, T)

End(t, how) ==
  /\ pc' = [pc EXCEPT ![t] = how]
  /\ Drop({t})
  /\ UNCHANGED <<req, id, policyVars, mapVars, workerVars, crashes>>

Panic(t) == End(t, "panicked")

Goto(t, where) == pc' = [pc EXCEPT ![t] = where]

Handshake(t) ==
  /\ pc[t] = "hello"
  /\ \/ /\ policy[t] = "up"
        /\ Goto(t, "receive")
        /\ UNCHANGED <<req, id, policyVars, mapVars, workerVars, fdVars, crashes>>
     \/ End(t, "ended")

\* The next request is larger than a message may be, or empty: it is rejected before
\* its descriptor has an owner, so that nothing in the process will close it.
LeakRequest(t) ==
  /\ req[t] < asked[t]
  /\ Goto(t, "ended")
  /\ sock' = [ClosedBy({t}) EXCEPT ![NextOne(t)] = "leaked"]
  /\ master' = LetGo(master, {t})
  /\ conn' = LetGo(conn, {t})
  /\ UNCHANGED <<req, id, policyVars, mapVars, workerVars, crashes>>

\* A request rejected for any other reason is closed, and the thread ends as it does
\* at the end of the stream.
Receive(t) ==
  /\ pc[t] = "receive"
  /\ \/ /\ req[t] < asked[t]
        /\ req' = [req EXCEPT ![t] = @ + 1]
        /\ sock' = [sock EXCEPT ![NextOne(t)] = "held"]
        /\ Goto(t, "insert")
        /\ UNCHANGED <<id, policyVars, mapVars, workerVars, master, conn, crashes>>
     \/ /\ req[t] < asked[t] \/ policy[t] = "closed"
        /\ End(t, "ended")
     \/ LeakRequest(t)

\* (Mutant: an occupied entry is taken all the same.)
AnyId(i) == i \in Ids

\* The ids at which the loop with the map locked stops.
VacantId(i) == session[i] = "absent"

Insert(t) == \E i \in Ids :
  /\ pc[t] = "insert" /\ VacantId(i)
  /\ id' = [id EXCEPT ![t] = i]
  /\ session' = [session EXCEPT ![i] = "Creating"]
  /\ owner' = [owner EXCEPT ![i] = Current(t)]
  /\ Goto(t, "create")
  /\ UNCHANGED <<req, policyVars, workerVars, fdVars, crashes>>

CreateShell(t) ==
  /\ pc[t] = "create"
  /\ \/ /\ master' = [master EXCEPT ![Current(t)] = {"thread"}]
        /\ Goto(t, "connect")
        /\ UNCHANGED <<req, id, policyVars, mapVars, workerVars, sock, conn, crashes>>
     \/ Panic(t)

LiveWorkers == {r \in Requests : worker[r] \in {"new", "greeted", "serving"}}

\* systemd starts a worker for the connection, or accepts and closes it when
\* there are too many.
ConnectWorker(t) ==
  /\ pc[t] = "connect"
  /\ \/ /\ worker' = [worker EXCEPT ![Current(t)] =
                        IF Cardinality(LiveWorkers) < MaxWorkers THEN "new" ELSE "dead"]
        /\ conn' = [conn EXCEPT ![Current(t)] = {"thread"}]
        /\ Goto(t, "greet")
        /\ UNCHANGED <<req, id, policyVars, mapVars, queue, replied, sock, master, crashes>>
     \/ Panic(t)

\* Sending to the worker of t's request.
Tell(t, message) ==
  /\ worker[Current(t)] # "dead"
  /\ queue' = [queue EXCEPT ![Current(t)] = Append(@, message)]
  /\ UNCHANGED <<worker, replied>>

NoWorker(t) == worker[Current(t)] = "dead" /\ Panic(t)

Greet(t) ==
  /\ pc[t] = "greet"
  /\ \/ /\ Tell(t, "Hello") /\ Goto(t, "greeting")
        /\ UNCHANGED <<req, id, policyVars, mapVars, fdVars, crashes>>
     \/ NoWorker(t)

\* (Mutant: the PTY master is not sent.)
SkipInit == "ready"

AfterGreeting == "init"

Greeting(t) ==
  /\ pc[t] = "greeting"
  /\ \/ /\ replied[Current(t)] /\ Goto(t, AfterGreeting)
        /\ UNCHANGED <<req, id, policyVars, mapVars, workerVars, fdVars, crashes>>
     \/ ~replied[Current(t)] /\ NoWorker(t)

\* (Mutant: the entry is left as it is.)
SkipReady == "attach"

AfterInit == "ready"

\* The message borrows the PTY master, which stays with the thread.
SendInit(t) ==
  /\ pc[t] = "init"
  /\ \/ /\ Tell(t, "Init") /\ Goto(t, AfterInit)
        /\ master' = [master EXCEPT ![Current(t)] = @ \cup {"message"}]
        /\ UNCHANGED <<req, id, policyVars, mapVars, sock, conn, crashes>>
     \/ NoWorker(t)

\* "internal: someone stole our session id"
Stolen(t) == session[id[t]] # "Creating"

\* (Mutant: the entry borrows what the thread has.)
MapBorrows == {}

\* The entry keeps the PTY master and the connection to the worker open.
MapHolds == {"map"}

MarkReady(t) ==
  /\ pc[t] = "ready"
  /\ \/ /\ ~Stolen(t)
        /\ session' = [session EXCEPT ![id[t]] = "Ready"]
        /\ master' = [master EXCEPT ![Current(t)] = (@ \ {"thread"}) \cup MapHolds]
        /\ conn' = [conn EXCEPT ![Current(t)] = @ \cup MapHolds]
        /\ Goto(t, "attach")
        /\ UNCHANGED <<req, id, policyVars, owner, workerVars, sock, crashes>>
     \/ Stolen(t) /\ Panic(t)

Attach(t) ==
  /\ pc[t] = "attach"
  /\ \/ /\ Tell(t, "NewClient") /\ Goto(t, "receive")
        /\ sock' = [sock EXCEPT ![Current(t)] = "sent"]
        /\ conn' = [conn EXCEPT ![Current(t)] = @ \ {"thread"}]
        /\ UNCHANGED <<req, id, policyVars, mapVars, master, crashes>>
     \/ NoWorker(t)

Thread(t) == Handshake(t) \/ Receive(t) \/ Insert(t) \/ CreateShell(t) \/ ConnectWorker(t)
               \/ Greet(t) \/ Greeting(t) \/ SendInit(t) \/ MarkReady(t) \/ Attach(t)

-----------------------------------------------------------------------------
(* The service's process.                                                  *)

\* It dies, and systemd starts it again at the next connection: with an empty map.
Crash ==
  /\ crashes < MaxCrashes
  /\ crashes' = crashes + 1
  /\ pc' = [t \in Conns |-> IF pc[t] = "none" THEN "none" ELSE "ended"]
  /\ session' = [i \in Ids |-> "absent"]
  /\ owner' = [i \in Ids |-> NoRequest]
  /\ sock' = [r \in Requests |->
               IF sock[r] \in {"queued", "held", "leaked"} THEN "closed" ELSE sock[r]]
  /\ master' = [r \in Requests |-> master[r] \ {"thread", "map"}]
  /\ conn' = [r \in Requests |-> {}]
  /\ UNCHANGED <<req, id, policyVars, workerVars>>

-----------------------------------------------------------------------------
(* A worker: services/pty/mod.rs as its supervisor sees it.                *)

Hears(r, message) == queue[r] # <<>> /\ Head(queue[r]) = message

\* It exits and closes its sockets and its PTY master, those in unread messages
\* too.
WorkerExit(r) ==
  /\ worker' = [worker EXCEPT ![r] = "dead"]
  /\ queue' = [queue EXCEPT ![r] = <<>>]
  /\ sock' = [sock EXCEPT ![r] = IF @ \in {"sent", "attached"} THEN "closed" ELSE @]
  /\ master' = [master EXCEPT ![r] = @ \ {"message", "worker"}]
  /\ UNCHANGED <<threadVars, policyVars, mapVars, replied, conn, crashes>>

WorkerHandshake(r) ==
  /\ worker[r] = "new" /\ Hears(r, "Hello")
  /\ worker' = [worker EXCEPT ![r] = "greeted"]
  /\ queue' = [queue EXCEPT ![r] = Tail(@)]
  /\ replied' = [replied EXCEPT ![r] = TRUE]
  /\ UNCHANGED <<threadVars, policyVars, mapVars, fdVars, crashes>>

WorkerInit(r) ==
  /\ worker[r] = "greeted" /\ Hears(r, "Init")
  /\ worker' = [worker EXCEPT ![r] = "serving"]
  /\ queue' = [queue EXCEPT ![r] = Tail(@)]
  /\ master' = [master EXCEPT ![r] = (@ \ {"message"}) \cup {"worker"}]
  /\ UNCHANGED <<threadVars, policyVars, mapVars, replied, sock, conn, crashes>>

WorkerNewClient(r) ==
  /\ worker[r] = "serving" /\ Hears(r, "NewClient")
  /\ queue' = [queue EXCEPT ![r] = Tail(@)]
  /\ sock' = [sock EXCEPT ![r] = "attached"]
  /\ UNCHANGED <<threadVars, policyVars, mapVars, worker, replied, master, conn, crashes>>

Expected(r) == CASE worker[r] = "new" -> "Hello"
                 [] worker[r] = "greeted" -> "Init"
                 [] OTHER -> "NewClient"

\* The end of the stream, and every message it does not expect, makes it return.
WorkerEnds(r) ==
  /\ worker[r] \in {"new", "greeted", "serving"}
  /\ ~Hears(r, Expected(r))
  /\ queue[r] = <<>> => conn[r] = {}
  /\ WorkerExit(r)

\* It may fail at any time, as when it rejects the handshake or systemd cannot
\* start it.
WorkerFails(r) ==
  /\ worker[r] \in {"new", "greeted", "serving"}
  /\ WorkerExit(r)

Worker(r) == WorkerHandshake(r) \/ WorkerInit(r) \/ WorkerNewClient(r) \/ WorkerEnds(r)

-----------------------------------------------------------------------------

Next ==
  \/ \E t \in Conns : Connect(t) \/ PolicyAsks(t) \/ PolicyCloses(t) \/ Thread(t)
  \/ \E r \in Requests : Worker(r) \/ WorkerFails(r)
  \/ Crash

\* The threads and the workers run.  That CreateShell is among the steps that are
\* taken assumes that systemd-machined answers: nothing in the service limits
\* the wait.
Fairness == /\ \A t \in Conns : WF_vars(Thread(t))
            /\ \A r \in Requests : WF_vars(Worker(r))

Spec == Init /\ [][Next]_vars
FairSpec == Spec /\ Fairness

-----------------------------------------------------------------------------
(* Properties.                                                             *)

IsReady(r) == \E i \in Ids : session[i] = "Ready" /\ owner[i] = r

\* Between the two critical sections of a request, with the map unlocked and
\* other requests being entered and other threads panicking, the entry remains
\* its own: the panic "someone stole our session id" (sessions/mod.rs:195) is
\* unreachable.
NobodyStealsSessionId == \A t \in Conns :
  pc[t] \in {"create", "connect", "greet", "greeting", "init", "ready"}
    => session[id[t]] = "Creating" /\ owner[id[t]] = Current(t)

\* A worker learns its PTY before its first client, whatever the thread, the
\* worker and systemd do in between.
InitComesFirst == \A r \in Requests :
  sock[r] \in {"sent", "attached"} =>
    \/ worker[r] = "serving"
    \/ worker[r] = "greeted" /\ Hears(r, "Init")

\* Every client that was handed over belongs to a session of the map, where later
\* requests can find it, as long as the service does not crash.
AttachedIsRemembered == \A r \in Requests :
  sock[r] \in {"sent", "attached"} /\ crashes = 0 => IsReady(r)

\* A session that later requests can find is whole, whatever became of the thread
\* that made it: its PTY master and the connection to its worker are open, and
\* the worker has its PTY, or will find it first, or is gone.  What a thread that
\* panicked leaves behind, in the map or among the workers, is never found.
ReadyIsWhole == \A r \in Requests : IsReady(r) =>
  /\ "map" \in master[r] /\ "map" \in conn[r]
  /\ worker[r] \in {"serving", "dead"} \/ (worker[r] = "greeted" /\ Hears(r, "Init"))

\* Nothing is left open by anyone who is not there to close it: a client's socket
\* that was not handed over waits for a thread that lives and has not come to it, or is
\* with the thread that serves it; what a thread has of a PTY or a worker is of the
\* request it serves; what the map has is of a session that can be found; and a
\* message with a PTY master is read first by a worker that still runs.  So a create
\* that fails half-way, whichever call it is, leaves no shell and no client behind.
\* The exception is a request that is rejected before its descriptor has an owner
\* (seqpacket.rs:188-194): its client stays open as long as the process lives.  A
\* connection has one at most, the request it ended with.
EveryHolderLives == \A r \in Requests :
  /\ sock[r] = "queued" => pc[r[1]] \in {"receive"} \cup Busy /\ r[2] > req[r[1]]
  /\ sock[r] = "held" \/ "thread" \in master[r] \cup conn[r] =>
       pc[r[1]] \in Busy /\ r = Current(r[1])
  /\ "map" \in master[r] \cup conn[r] => IsReady(r)
  /\ "message" \in master[r] => worker[r] = "greeted" /\ Hears(r, "Init")
  /\ "worker" \in master[r] => worker[r] = "serving"
  /\ sock[r] = "leaked" => pc[r[1]] = "ended" /\ r = NextOne(r[1])

\* The client of a request is served in the end, or told of the failure by the close
\* of its socket, whatever fails once the request is received; and so are the clients
\* of the requests behind it.  Only a request that is rejected before its descriptor
\* has an owner (seqpacket.rs:188-194) leaves its client with neither.
ClientsAreAnswered == \A r \in Requests :
  sock[r] = "queued" ~> sock[r] \in {"attached", "closed", "leaked"}

\* Every shell that systemd-machined started is either a session of the map or
\* hung up: a create that fails half-way, and a crash, leave none behind.
NoForgottenShell == \A r \in Requests :
  master[r] # {} ~> master[r] = {} \/ IsReady(r)

-----------------------------------------------------------------------------
(* The workers by themselves, and the service as their supervisor.         *)

Workers == INSTANCE PtyWorker WITH
             Workers <- Requests,
             linked <- [r \in Requests |-> conn[r] # {}]

\* The service is what PtyService takes its supervisor for: it speaks to every
\* worker in order, waits for the answer to its greeting, and says nothing after
\* it has let go, whatever fails in its threads in between.
SupervisesWorkers == Workers!Spec
=============================================================================
