------------------------ MODULE SessionsWorkerProofs ------------------------
(***************************************************************************)
(* Types of Sessions, and its workers: the service supervises them as      *)
(* PtyWorker has it, and a worker has its PTY before its first client.     *)
(***************************************************************************)
EXTENDS Sessions, TLAPS

\* What the thread of connection t knows of the worker of its request, which may
\* be dead at any time.
Stage(t) == LET r == Current(t) IN
  /\ pc[t] \in Busy => req[t] \in 1..MaxRequests
  /\ pc[t] \in {"insert", "create", "connect"} => worker[r] = "none"
  /\ pc[t] \in {"greet", "greeting", "init", "ready", "attach"} =>
       worker[r] # "none" /\ "thread" \in conn[r]
  /\ pc[t] = "greet" => worker[r] \in {"new", "dead"} /\ queue[r] = <<>>
  /\ pc[t] = "greeting" => \/ worker[r] = "new"
                           \/ worker[r] = "greeted" /\ queue[r] = <<>>
                           \/ worker[r] = "dead"
  /\ pc[t] = "greeting" /\ worker[r] = "new" => queue[r] = <<"Hello">>
  /\ pc[t] = "init" => worker[r] = "dead" \/ (worker[r] = "greeted" /\ queue[r] = <<>>)
  /\ pc[t] \in {"ready", "attach"} =>
       \/ worker[r] \in {"serving", "dead"}
       \/ worker[r] = "greeted" /\ queue[r] = <<"Init">>

\* What holds of a request and its worker at any time.
Tale(r) ==
  /\ r[2] > req[r[1]] => worker[r] = "none"
  /\ worker[r] = "none" => conn[r] = {} /\ queue[r] = <<>>
  /\ replied[r] => worker[r] \notin {"none", "new"}
  /\ sock[r] \in {"sent", "attached"} =>
       worker[r] = "serving" \/ (worker[r] = "greeted" /\ Hears(r, "Init"))

WorkerInv == /\ TypeOK
             /\ \A t \in Conns : Stage(t)
             /\ \A r \in Requests : Tale(r)

LEMMA Single == ASSUME NEW x PROVE <<x>> # <<>> /\ Head(<<x>>) = x /\ Tail(<<x>>) = <<>>
OBVIOUS

-----------------------------------------------------------------------------
(* Types.                                                                  *)

LEMMA Updated == ASSUME NEW S, NEW T, NEW f \in [S -> T], NEW x, NEW y \in T
                 PROVE  [f EXCEPT ![x] = y] \in [S -> T]
OBVIOUS

\* A thread that serves a request has received one.
Numbered(t) == pc[t] \in Busy => req[t] \in 1..MaxRequests

\* The thread stops, with a panic or without, and may leak the request it was to
\* receive.
Leaves(t, how) == End(t, how) \/ (how = "ended" /\ LeakRequest(t))

LEMMA EndType ==
  ASSUME TypeOK, NEW t \in Conns, NEW how \in Over, Leaves(t, how)
  PROVE  TypeOK'
<1> DEFINE S == {"unsent", "queued", "held", "sent", "attached", "closed", "leaked"}
<1>1. /\ ClosedBy({t}) \in [Requests -> S]
      /\ LetGo(master, {t}) \in [Requests -> SUBSET {"thread", "map", "message", "worker"}]
      /\ LetGo(conn, {t}) \in [Requests -> SUBSET {"thread", "map"}]
  BY DEF TypeOK, ClosedBy, LetGo
<1>2. /\ sock' = ClosedBy({t}) \/ sock' = [ClosedBy({t}) EXCEPT ![NextOne(t)] = "leaked"]
      /\ master' = LetGo(master, {t}) /\ conn' = LetGo(conn, {t})
      /\ pc' = [pc EXCEPT ![t] = how]
      /\ UNCHANGED <<req, id, policyVars, mapVars, workerVars, crashes>>
  BY DEF Leaves, LeakRequest, Goto, End, Drop
<1>3. sock' \in [Requests -> S]
  <2>1. [ClosedBy({t}) EXCEPT ![NextOne(t)] = "leaked"] \in [Requests -> S]
    <3> HIDE DEF S
    <3>1. "leaked" \in S
      BY DEF S
    <3> QED
      BY <1>1, <3>1, Updated
  <2> QED
    BY <1>1, <1>2, <2>1
<1>4. pc' \in [Conns -> {"none", "hello", "receive"} \cup Busy \cup Over]
  BY <1>2 DEF TypeOK
<1> QED
  BY <1>1, <1>2, <1>3, <1>4 DEF TypeOK, policyVars, mapVars, workerVars

LEMMA PanicType == ASSUME TypeOK, NEW t \in Conns, Panic(t) PROVE TypeOK'
BY EndType DEF Leaves, Panic, Over

LEMMA TellType ==
  ASSUME TypeOK, NEW t \in Conns, NEW message \in {"Hello", "Init", "NewClient"},
         Tell(t, message)
  PROVE  queue' \in [Requests -> Seq({"Hello", "Init", "NewClient"})]
<1>1. CASE Current(t) \in Requests
  <2>1. Append(queue[Current(t)], message) \in Seq({"Hello", "Init", "NewClient"})
    BY <1>1 DEF TypeOK
  <2> QED
    BY <2>1 DEF TypeOK, Tell
<1>2. CASE Current(t) \notin Requests
  BY <1>2 DEF TypeOK, Tell
<1> QED
  BY <1>1, <1>2

LEMMA ThreadType == ASSUME TypeOK, NEW t \in Conns, Numbered(t), Thread(t) PROVE TypeOK'
<1> USE DEF policyVars, mapVars, workerVars, fdVars
<1>1. CASE Handshake(t)
  BY <1>1, EndType DEF Handshake, TypeOK, Leaves, Goto, Over
<1>2. CASE Receive(t)
  <2>1. CASE Leaves(t, "ended")
    BY <2>1, EndType DEF Over
  <2>2. CASE /\ req[t] < asked[t]
             /\ req' = [req EXCEPT ![t] = @ + 1]
             /\ sock' = [sock EXCEPT ![NextOne(t)] = "held"]
             /\ Goto(t, "insert")
             /\ UNCHANGED <<id, policyVars, mapVars, workerVars, master, conn, crashes>>
    <3>1. req[t] + 1 \in 0..MaxRequests
      BY <2>2, SessionsAssumption DEF TypeOK
    <3>2. req' \in [Conns -> 0..MaxRequests]
      BY <2>2, <3>1 DEF TypeOK
    <3>3. sock' \in [Requests -> {"unsent", "queued", "held", "sent", "attached", "closed",
                           "leaked"}]
      BY <2>2 DEF TypeOK
    <3>4. pc' \in [Conns -> {"none", "hello", "receive"} \cup Busy \cup Over]
      BY <2>2 DEF TypeOK, Goto, Busy
    <3> QED
      BY <2>2, <3>2, <3>3, <3>4 DEF TypeOK
  <2> QED
    BY <1>2, <2>1, <2>2 DEF Receive, Leaves
<1>3. CASE Insert(t)
  <2>1. Current(t) \in Requests
    BY <1>3 DEF Insert, Numbered, Busy, Current, Requests
  <2> QED
    BY <1>3, <2>1 DEF Insert, TypeOK, Goto, Busy
<1>4. CASE CreateShell(t)
  <2>1. CASE ~Panic(t)
    <3>1. master' \in [Requests -> SUBSET {"thread", "map", "message", "worker"}]
      <4>1. master' = [master EXCEPT ![Current(t)] = {"thread"}]
        BY <1>4, <2>1 DEF CreateShell
      <4> QED
        BY <4>1, Updated DEF TypeOK
    <3> QED
      BY <1>4, <2>1, <3>1 DEF CreateShell, TypeOK, Goto, Busy
  <2> QED
    BY <2>1, PanicType
<1>5. CASE ConnectWorker(t)
  <2>1. CASE ~Panic(t)
    <3>1. /\ pc' = [pc EXCEPT ![t] = "greet"]
          /\ \E start \in {"new", "dead"} : worker' = [worker EXCEPT ![Current(t)] = start]
          /\ conn' = [conn EXCEPT ![Current(t)] = {"thread"}]
          /\ UNCHANGED <<req, id, policyVars, mapVars, queue, replied, sock, master, crashes>>
      BY <1>5, <2>1 DEF ConnectWorker, Goto
    <3>2. conn' \in [Requests -> SUBSET {"thread", "map"}]
      BY <3>1, Updated DEF TypeOK
    <3>3. worker' \in [Requests -> {"none", "new", "greeted", "serving", "dead"}]
      BY <3>1 DEF TypeOK
    <3> QED
      BY <3>1, <3>2, <3>3 DEF TypeOK, Busy
  <2> QED
    BY <2>1, PanicType
<1>6. CASE Greet(t)
  <2>1. CASE Tell(t, "Hello") /\ Goto(t, "greeting")
             /\ UNCHANGED <<req, id, policyVars, mapVars, fdVars, crashes>>
    BY <2>1, TellType DEF TypeOK, Goto, Busy, Tell
  <2> QED
    BY <1>6, <2>1, PanicType DEF Greet, NoWorker
<1>7. CASE Greeting(t)
  BY <1>7, PanicType DEF Greeting, NoWorker, AfterGreeting, TypeOK, Goto, Busy
<1>8. CASE SendInit(t)
  <2>1. CASE Tell(t, "Init") /\ Goto(t, AfterInit)
             /\ master' = [master EXCEPT ![Current(t)] = @ \cup {"message"}]
             /\ UNCHANGED <<req, id, policyVars, mapVars, sock, conn, crashes>>
    BY <2>1, TellType DEF TypeOK, Goto, Busy, Tell, AfterInit
  <2> QED
    BY <1>8, <2>1, PanicType DEF SendInit, NoWorker
<1>9. CASE MarkReady(t)
  <2>1. CASE Panic(t)
    BY <2>1, PanicType
  <2>2. CASE ~Panic(t)
    <3>1. /\ pc' = [pc EXCEPT ![t] = "attach"]
          /\ session' = [session EXCEPT ![id[t]] = "Ready"]
          /\ master' = [master EXCEPT ![Current(t)] = (@ \ {"thread"}) \cup {"map"}]
          /\ conn' = [conn EXCEPT ![Current(t)] = @ \cup {"map"}]
          /\ UNCHANGED <<req, id, policyVars, owner, workerVars, sock, crashes>>
      BY <1>9, <2>2 DEF MarkReady, MapHolds, Goto
    <3>2. session' \in [Ids -> {"absent", "Creating", "Ready"}]
      BY <3>1 DEF TypeOK
    <3>3. master' \in [Requests -> SUBSET {"thread", "map", "message", "worker"}]
      BY <3>1 DEF TypeOK
    <3>4. conn' \in [Requests -> SUBSET {"thread", "map"}]
      BY <3>1 DEF TypeOK
    <3> QED
      BY <3>1, <3>2, <3>3, <3>4 DEF TypeOK, Busy
  <2> QED
    BY <2>1, <2>2
<1>10. CASE Attach(t)
  <2>1. CASE Tell(t, "NewClient") /\ Goto(t, "receive")
             /\ sock' = [sock EXCEPT ![Current(t)] = "sent"]
             /\ conn' = [conn EXCEPT ![Current(t)] = @ \ {"thread"}]
             /\ UNCHANGED <<req, id, policyVars, mapVars, master, crashes>>
    BY <2>1, TellType DEF TypeOK, Goto, Busy, Tell
  <2> QED
    BY <1>10, <2>1, PanicType DEF Attach, NoWorker
<1> QED
  BY <1>1, <1>2, <1>3, <1>4, <1>5, <1>6, <1>7, <1>8, <1>9, <1>10 DEF Thread

LEMMA WorkerStepType ==
  ASSUME TypeOK, NEW r \in Requests, Worker(r) \/ WorkerFails(r) PROVE TypeOK'
<1> USE DEF threadVars, policyVars, mapVars, fdVars
<1>1. CASE WorkerExit(r)
  <2>1. /\ sock' \in [Requests -> {"unsent", "queued", "held", "sent", "attached", "closed",
                           "leaked"}]
        /\ master' \in [Requests -> SUBSET {"thread", "map", "message", "worker"}]
    BY <1>1 DEF TypeOK, WorkerExit
  <2> QED
    BY <1>1, <2>1 DEF TypeOK, WorkerExit
<1>2. ASSUME queue[r] # <<>>
      PROVE  Tail(queue[r]) \in Seq({"Hello", "Init", "NewClient"})
  BY <1>2 DEF TypeOK
<1>3. CASE WorkerHandshake(r)
  BY <1>2, <1>3 DEF TypeOK, WorkerHandshake, Hears
<1>4. CASE WorkerInit(r)
  BY <1>2, <1>4 DEF TypeOK, WorkerInit, Hears
<1>5. CASE WorkerNewClient(r)
  BY <1>2, <1>5 DEF TypeOK, WorkerNewClient, Hears
<1> QED
  BY <1>1, <1>3, <1>4, <1>5 DEF Worker, WorkerEnds, WorkerFails

LEMMA TypeStep ==
  ASSUME TypeOK, \A t \in Conns : Numbered(t), [Next]_vars PROVE TypeOK'
<1> USE DEF threadVars, policyVars, mapVars, workerVars, fdVars
<1>1. CASE UNCHANGED vars
  BY <1>1 DEF TypeOK, vars
<1>2. ASSUME NEW t \in Conns, Connect(t) \/ PolicyCloses(t) PROVE TypeOK'
  BY <1>2 DEF TypeOK, Connect, PolicyCloses
<1>4. ASSUME NEW t \in Conns, PolicyAsks(t) PROVE TypeOK'
  <2>1. asked[t] + 1 \in 0..MaxRequests
    BY <1>4, SessionsAssumption DEF TypeOK, PolicyAsks
  <2>2. asked' \in [Conns -> 0..MaxRequests]
    BY <1>4, <2>1 DEF TypeOK, PolicyAsks
  <2>3. sock' \in [Requests -> {"unsent", "queued", "held", "sent", "attached", "closed",
                           "leaked"}]
    BY <1>4 DEF TypeOK, PolicyAsks
  <2> QED
    BY <1>4, <2>2, <2>3 DEF TypeOK, PolicyAsks
<1>3. CASE Crash
  BY <1>3, SessionsAssumption DEF TypeOK, Crash, Over
<1> QED
  BY <1>1, <1>2, <1>3, <1>4, ThreadType, WorkerStepType DEF Next

-----------------------------------------------------------------------------
(* The invariant.                                                          *)

LEMMA WorkerInvInit == Init => WorkerInv
<1> SUFFICES ASSUME Init PROVE WorkerInv
  OBVIOUS
<1>1. TypeOK
  BY SessionsAssumption DEF Init, TypeOK
<1>2. ASSUME NEW t \in Conns PROVE Stage(t)
  BY DEF Init, Stage, Busy
<1>3. ASSUME NEW r \in Requests PROVE Tale(r)
  BY DEF Init, Tale
<1> QED
  BY <1>1, <1>2, <1>3 DEF WorkerInv

\* The request of a thread is one of its connection.
LEMMA CurrentIs ==
  ASSUME WorkerInv, NEW t \in Conns
  PROVE  /\ Current(t)[1] = t /\ Current(t)[2] = req[t]
         /\ pc[t] \in Busy => Current(t) \in Requests
         /\ \A u \in Conns : u # t => Current(u) # Current(t)
BY DEF WorkerInv, Stage, Current, Requests

\* A step of t's thread or of its policy process that leaves all workers alone,
\* and the connections of the requests of other threads.
LEMMA ThreadMoves ==
  ASSUME WorkerInv, NEW t \in Conns, UNCHANGED <<worker, queue, replied>>, TypeOK',
         \A u \in Conns \ {t} : pc'[u] = pc[u] /\ req'[u] = req[u],
         req'[t] >= req[t],
         \A r \in Requests : r[1] # t => conn'[r] = conn[r],
         \A r \in Requests : conn'[r] # {} => conn[r] # {},
         \A r \in Requests : sock'[r] \in {"sent", "attached"} => sock'[r] = sock[r],
         Stage(t)'
  PROVE  WorkerInv'
<1>1. ASSUME NEW u \in Conns PROVE Stage(u)'
  <2>1. CASE u # t
    <3>1. Current(u)' = Current(u) /\ Current(u)[1] = u /\ Stage(u)
      BY <2>1, CurrentIs DEF Current, WorkerInv
    <3>2. pc[u] \in Busy => conn'[Current(u)] = conn[Current(u)]
      BY <2>1, <3>1, CurrentIs
    <3>3. pc'[u] = pc[u] /\ req'[u] = req[u]
      BY <2>1
    <3> QED
      BY <3>1, <3>2, <3>3 DEF Stage, Busy
  <2> QED
    BY <2>1
<1>2. ASSUME NEW r \in Requests PROVE Tale(r)'
  <2>1. Tale(r) /\ r[1] \in Conns /\ r[2] \in Nat
    BY SessionsAssumption DEF WorkerInv, Requests
  <2>2. req'[r[1]] >= req[r[1]] /\ req[r[1]] \in Nat /\ req'[r[1]] \in Nat
    <3>1. req[r[1]] \in 0..MaxRequests /\ req'[r[1]] \in 0..MaxRequests
      BY <2>1 DEF WorkerInv, TypeOK
    <3>2. CASE r[1] = t
      BY <3>1, <3>2, SessionsAssumption
    <3>3. CASE r[1] # t
      <4>1. req'[r[1]] = req[r[1]]
        BY <2>1, <3>3
      <4> QED
        BY <3>1, <4>1, SessionsAssumption
    <3> QED
      BY <3>2, <3>3
  <2>3. conn'[r] # {} => conn[r] # {}
    OBVIOUS
  <2> QED
    BY <2>1, <2>2, <2>3 DEF Tale, Hears
<1> QED
  BY <1>1, <1>2 DEF WorkerInv

\* A step that changes what holds of request r only, and no thread but that of
\* its connection.
LEMMA RequestMoves ==
  ASSUME WorkerInv, NEW r \in Requests, TypeOK', UNCHANGED req,
         \A u \in Conns : u # r[1] => pc'[u] = pc[u],
         \A q \in Requests : q # r => /\ worker'[q] = worker[q]
                                      /\ queue'[q] = queue[q]
                                      /\ replied'[q] = replied[q]
                                      /\ conn'[q] = conn[q]
                                      /\ sock'[q] = sock[q],
         Stage(r[1])', Tale(r)'
  PROVE  WorkerInv'
<1>1. ASSUME NEW u \in Conns PROVE Stage(u)'
  <2>1. CASE u # r[1]
    <3>1. Current(u)' = Current(u) /\ Stage(u) /\ pc'[u] = pc[u]
      BY <2>1 DEF Current, WorkerInv
    <3>2. pc[u] \in Busy => Current(u) \in Requests /\ Current(u) # r
      BY <2>1, CurrentIs
    <3>3. pc[u] \in Busy => /\ worker'[Current(u)] = worker[Current(u)]
                            /\ queue'[Current(u)] = queue[Current(u)]
                            /\ conn'[Current(u)] = conn[Current(u)]
      BY <3>2
    <3> QED
      BY <3>1, <3>3 DEF Stage, Busy
  <2> QED
    BY <2>1
<1>2. ASSUME NEW q \in Requests PROVE Tale(q)'
  BY <1>2 DEF Tale, Hears, WorkerInv
<1> QED
  BY <1>1, <1>2 DEF WorkerInv

-----------------------------------------------------------------------------
(* The steps of the service.                                               *)

\* A thread that ends lets go of its connection.
LEMMA EndInv ==
  ASSUME WorkerInv, NEW t \in Conns, NEW how \in Over, Leaves(t, how)
  PROVE  WorkerInv'
<1>1. TypeOK'
  BY EndType DEF WorkerInv
<1>2. pc' = [pc EXCEPT ![t] = how] /\ UNCHANGED <<req, worker, queue, replied>>
  BY DEF Leaves, LeakRequest, Goto, End, workerVars
<1>3. \A r \in Requests : /\ r[1] # t => conn'[r] = conn[r]
                          /\ conn'[r] # {} => conn[r] # {}
                          /\ sock'[r] \in {"sent", "attached"} => sock'[r] = sock[r]
  BY DEF Leaves, LeakRequest, ClosedBy, LetGo, End, Drop
<1>4. pc'[t] = how /\ how \notin Busy
  BY <1>2 DEF WorkerInv, TypeOK, Over, Busy
<1>5. Stage(t)'
  BY <1>4 DEF Stage, Busy
<1>6. req'[t] >= req[t] /\ \A u \in Conns \ {t} : pc'[u] = pc[u] /\ req'[u] = req[u]
  BY <1>2, SessionsAssumption DEF WorkerInv, TypeOK
<1> QED
  BY <1>1, <1>2, <1>3, <1>5, <1>6, ThreadMoves

LEMMA PanicInv == ASSUME WorkerInv, NEW t \in Conns, Panic(t) PROVE WorkerInv'
BY EndInv DEF Leaves, Panic, Over

\* A step of the thread that moves on and leaves workers and connections alone.
LEMMA MovesOn ==
  ASSUME WorkerInv, NEW t \in Conns, NEW where, Goto(t, where), TypeOK',
         UNCHANGED <<req, worker, queue, replied, conn, sock>>, Stage(t)'
  PROVE  WorkerInv'
<1>1. \A u \in Conns \ {t} : pc'[u] = pc[u]
  BY DEF Goto, WorkerInv, TypeOK
<1>2. req'[t] >= req[t]
  BY SessionsAssumption DEF WorkerInv, TypeOK
<1> QED
  BY <1>1, <1>2, ThreadMoves

LEMMA ReceiveWorkers == ASSUME WorkerInv, TypeOK', NEW t \in Conns, Receive(t) PROVE WorkerInv'
<1>1. CASE Leaves(t, "ended")
  BY <1>1, EndInv DEF Over
<1>2. CASE /\ req[t] < asked[t]
           /\ req' = [req EXCEPT ![t] = @ + 1]
           /\ sock' = [sock EXCEPT ![NextOne(t)] = "held"]
           /\ Goto(t, "insert")
           /\ UNCHANGED <<id, policyVars, mapVars, workerVars, master, conn, crashes>>
  <2>1. /\ req'[t] = req[t] + 1 /\ req'[t] \in 1..MaxRequests
        /\ \A u \in Conns \ {t} : pc'[u] = pc[u] /\ req'[u] = req[u]
        /\ pc'[t] = "insert"
    BY <1>2, SessionsAssumption DEF WorkerInv, TypeOK, Goto
  <2>2. UNCHANGED <<worker, queue, replied, conn>>
    BY <1>2 DEF workerVars
  <2>3. Current(t)' = NextOne(t) /\ Current(t)' \in Requests
    BY <2>1 DEF NextOne, Current, Requests
  <2>4. worker[Current(t)'] = "none"
    BY <2>3, SessionsAssumption DEF NextOne, WorkerInv, TypeOK, Tale
  <2>5. Stage(t)'
    BY <2>1, <2>2, <2>4 DEF Stage
  <2>6. \A r \in Requests : sock'[r] \in {"sent", "attached"} => sock'[r] = sock[r]
    BY <1>2 DEF WorkerInv, TypeOK
  <2>7. req'[t] >= req[t]
    BY <2>1, SessionsAssumption DEF WorkerInv, TypeOK
  <2> QED
    BY <2>1, <2>2, <2>5, <2>6, <2>7, ThreadMoves
<1> QED
  BY <1>1, <1>2 DEF Receive, Leaves

LEMMA ConnectWorkerInv ==
  ASSUME WorkerInv, TypeOK', NEW t \in Conns, ConnectWorker(t) PROVE WorkerInv'
<1>1. CASE Panic(t)
  BY <1>1, PanicInv
<1>2. CASE ~Panic(t)
  <2> DEFINE r == Current(t)
  <2>1. /\ pc[t] = "connect" /\ pc' = [pc EXCEPT ![t] = "greet"]
        /\ \E start \in {"new", "dead"} : worker' = [worker EXCEPT ![r] = start]
        /\ conn' = [conn EXCEPT ![r] = {"thread"}]
        /\ UNCHANGED <<req, queue, replied, sock>>
    BY <1>2 DEF ConnectWorker, Goto
  <2>2. r \in Requests /\ r[1] = t /\ r' = r /\ r[2] = req[t]
    BY <2>1, CurrentIs DEF Busy, Current
  <2>3. worker[r] = "none" /\ queue[r] = <<>> /\ ~replied[r] /\ sock[r] \notin {"sent", "attached"}
    BY <2>1, <2>2 DEF WorkerInv, Stage, Tale, TypeOK
  <2>4. worker'[r] \in {"new", "dead"} /\ conn'[r] = {"thread"} /\ pc'[t] = "greet"
    BY <2>1, <2>2 DEF WorkerInv, TypeOK
  <2>5. req[t] \in 1..MaxRequests
    BY <2>1 DEF WorkerInv, Stage, Busy
  <2> HIDE DEF r
  <2>6. Stage(r[1])'
    BY <2>1, <2>2, <2>3, <2>4, <2>5 DEF Stage, r
  <2>7. Tale(r)'
    BY <2>1, <2>2, <2>3, <2>4, <2>5, SessionsAssumption DEF Tale
  <2>8. /\ \A u \in Conns : u # r[1] => pc'[u] = pc[u]
        /\ \A q \in Requests : q # r => worker'[q] = worker[q] /\ conn'[q] = conn[q]
    BY <2>1, <2>2 DEF WorkerInv, TypeOK
  <2> QED
    BY <2>1, <2>2, <2>6, <2>7, <2>8, RequestMoves
<1> QED
  BY <1>1, <1>2

\* A thread tells the worker of its request something.
LEMMA TellInv ==
  ASSUME WorkerInv, TypeOK', NEW t \in Conns, pc[t] \in Busy,
         NEW message \in {"Hello", "Init", "NewClient"}, Tell(t, message),
         NEW where, Goto(t, where), UNCHANGED req,
         \A q \in Requests : q # Current(t) => conn'[q] = conn[q] /\ sock'[q] = sock[q],
         Stage(t)', Tale(Current(t))'
  PROVE  WorkerInv'
<1> DEFINE r == Current(t)
<1>1. r \in Requests /\ r[1] = t /\ r' = r
  BY CurrentIs DEF Current
<1>2. \A u \in Conns : u # r[1] => pc'[u] = pc[u]
  BY <1>1 DEF Goto, WorkerInv, TypeOK
<1>3. \A q \in Requests : q # r => /\ worker'[q] = worker[q]
                                   /\ queue'[q] = queue[q]
                                   /\ replied'[q] = replied[q]
                                   /\ conn'[q] = conn[q]
                                   /\ sock'[q] = sock[q]
  BY <1>1 DEF Tell, WorkerInv, TypeOK
<1>4. Stage(r[1])' /\ Tale(r)'
  BY <1>1
<1> HIDE DEF r
<1> QED
  BY <1>1, <1>2, <1>3, <1>4, RequestMoves

LEMMA GreetInv == ASSUME WorkerInv, TypeOK', NEW t \in Conns, Greet(t) PROVE WorkerInv'
<1>1. CASE Panic(t)
  BY <1>1, PanicInv
<1>2. CASE ~Panic(t)
  <2> DEFINE r == Current(t)
  <2>1. /\ pc[t] = "greet" /\ Tell(t, "Hello") /\ Goto(t, "greeting")
        /\ UNCHANGED <<req, conn, sock>>
    BY <1>2 DEF Greet, NoWorker, fdVars
  <2>2. r \in Requests /\ r' = r /\ pc[t] \in Busy
    BY <2>1, CurrentIs DEF Busy, Current
  <2>3. /\ worker[r] = "new" /\ "thread" \in conn[r] /\ queue[r] = <<>>
        /\ req[t] \in 1..MaxRequests /\ Tale(r)
    BY <2>1, <2>2 DEF WorkerInv, Stage, Tell, Busy
  <2>4. worker' = worker /\ queue'[r] = <<"Hello">> /\ replied' = replied
    BY <2>1, <2>2, <2>3 DEF Tell, WorkerInv, TypeOK
  <2>5. pc'[t] = "greeting"
    BY <2>1 DEF Goto, WorkerInv, TypeOK
  <2> HIDE DEF r
  <2>6. Stage(t)'
    BY <2>1, <2>2, <2>3, <2>4, <2>5 DEF Stage, r
  <2>7. Tale(r)'
    BY <2>1, <2>2, <2>3, <2>4 DEF Tale, Hears
  <2> QED
    BY <2>1, <2>2, <2>6, <2>7, TellInv DEF r
<1> QED
  BY <1>1, <1>2

LEMMA SendInitInv == ASSUME WorkerInv, TypeOK', NEW t \in Conns, SendInit(t) PROVE WorkerInv'
<1>1. CASE Panic(t)
  BY <1>1, PanicInv
<1>2. CASE ~Panic(t)
  <2> DEFINE r == Current(t)
  <2>1. /\ pc[t] = "init" /\ Tell(t, "Init") /\ Goto(t, "ready")
        /\ UNCHANGED <<req, conn, sock>>
    BY <1>2 DEF SendInit, NoWorker, AfterInit
  <2>2. r \in Requests /\ r' = r /\ pc[t] \in Busy
    BY <2>1, CurrentIs DEF Busy, Current
  <2>3. /\ worker[r] = "greeted" /\ "thread" \in conn[r] /\ queue[r] = <<>>
        /\ req[t] \in 1..MaxRequests /\ Tale(r)
    BY <2>1, <2>2 DEF WorkerInv, Stage, Tell, Busy
  <2>4. worker' = worker /\ queue'[r] = <<"Init">> /\ replied' = replied
    BY <2>1, <2>2, <2>3 DEF Tell, WorkerInv, TypeOK
  <2>5. pc'[t] = "ready"
    BY <2>1 DEF Goto, WorkerInv, TypeOK
  <2> HIDE DEF r
  <2>6. Stage(t)'
    BY <2>1, <2>2, <2>3, <2>4, <2>5 DEF Stage, r
  <2>7. Tale(r)'
    BY <2>1, <2>2, <2>3, <2>4 DEF Tale, Hears
  <2> QED
    BY <2>1, <2>2, <2>6, <2>7, TellInv DEF r
<1> QED
  BY <1>1, <1>2

LEMMA AttachInv == ASSUME WorkerInv, TypeOK', NEW t \in Conns, Attach(t) PROVE WorkerInv'
<1>1. CASE Panic(t)
  BY <1>1, PanicInv
<1>2. CASE ~Panic(t)
  <2> DEFINE r == Current(t)
  <2>1. /\ pc[t] = "attach" /\ Tell(t, "NewClient") /\ Goto(t, "receive")
        /\ sock' = [sock EXCEPT ![r] = "sent"]
        /\ conn' = [conn EXCEPT ![r] = @ \ {"thread"}]
        /\ UNCHANGED req
    BY <1>2 DEF Attach, NoWorker
  <2>2. r \in Requests /\ r' = r /\ pc[t] \in Busy
    BY <2>1, CurrentIs DEF Busy, Current
  <2>3. /\ \/ worker[r] = "serving"
           \/ worker[r] = "greeted" /\ Hears(r, "Init")
        /\ Tale(r)
    BY <2>1, <2>2 DEF WorkerInv, Stage, Tell, Hears
  <2>4. worker' = worker /\ replied' = replied
        /\ (Hears(r, "Init") => Hears(r, "Init")')
    BY <2>1, <2>2 DEF Tell, WorkerInv, TypeOK, Hears
  <2>5. pc'[t] = "receive"
    BY <2>1 DEF Goto, WorkerInv, TypeOK
  <2>6. \A q \in Requests : q # r => conn'[q] = conn[q] /\ sock'[q] = sock[q]
    BY <2>1 DEF WorkerInv, TypeOK
  <2> HIDE DEF r
  <2>7. Stage(t)'
    BY <2>5 DEF Stage, Busy
  <2>8. Tale(r)'
    BY <2>1, <2>2, <2>3, <2>4 DEF Tale
  <2> QED
    BY <2>1, <2>2, <2>6, <2>7, <2>8, TellInv DEF r
<1> QED
  BY <1>1, <1>2

LEMMA ThreadWorkers == ASSUME WorkerInv, TypeOK', NEW t \in Conns, Thread(t) PROVE WorkerInv'
<1> DEFINE r == Current(t)
<1> USE DEF mapVars, workerVars, fdVars
<1>1. CASE Handshake(t)
  <2>1. CASE End(t, "ended")
    BY <2>1, EndInv DEF Leaves, Over
  <2>2. CASE ~End(t, "ended")
    <3>1. Goto(t, "receive") /\ UNCHANGED <<req, worker, queue, replied, conn, sock>>
      BY <1>1, <2>2 DEF Handshake
    <3>2. Stage(t)'
      BY <3>1 DEF Goto, WorkerInv, TypeOK, Stage, Busy
    <3> QED
      BY <3>1, <3>2, MovesOn
  <2> QED
    BY <2>1, <2>2
<1>2. CASE Insert(t)
  <2>1. /\ pc[t] = "insert" /\ Goto(t, "create")
        /\ UNCHANGED <<req, worker, queue, replied, conn, sock>>
    BY <1>2 DEF Insert
  <2>2. Stage(t)'
    BY <2>1 DEF Goto, WorkerInv, TypeOK, Stage, Busy, Current
  <2> QED
    BY <2>1, <2>2, MovesOn
<1>3. CASE CreateShell(t)
  <2>1. CASE Panic(t)
    BY <2>1, PanicInv
  <2>2. CASE ~Panic(t)
    <3>1. /\ pc[t] = "create" /\ Goto(t, "connect")
          /\ UNCHANGED <<req, worker, queue, replied, conn, sock>>
      BY <1>3, <2>2 DEF CreateShell
    <3>2. Stage(t)'
      BY <3>1 DEF Goto, WorkerInv, TypeOK, Stage, Busy, Current
    <3> QED
      BY <3>1, <3>2, MovesOn
  <2> QED
    BY <2>1, <2>2
<1>4. CASE Greeting(t)
  <2>1. CASE Panic(t)
    BY <2>1, PanicInv
  <2>2. CASE ~Panic(t)
    <3>1. /\ pc[t] = "greeting" /\ Goto(t, "init") /\ replied[r]
          /\ UNCHANGED <<req, worker, queue, replied, conn, sock>>
      BY <1>4, <2>2 DEF Greeting, NoWorker, AfterGreeting
    <3>2. worker[r] \notin {"none", "new"}
      BY <3>1, CurrentIs DEF WorkerInv, Tale, Busy
    <3>3. Stage(t)'
      BY <3>1, <3>2 DEF Goto, WorkerInv, TypeOK, Stage, Busy, Current
    <3> QED
      BY <3>1, <3>3, MovesOn
  <2> QED
    BY <2>1, <2>2
<1>5. CASE MarkReady(t)
  <2>1. CASE Panic(t)
    BY <2>1, PanicInv
  <2>2. CASE ~Panic(t)
    <3>1. /\ pc[t] = "ready" /\ Goto(t, "attach")
          /\ conn' = [conn EXCEPT ![r] = @ \cup MapHolds]
          /\ UNCHANGED <<req, worker, queue, replied, sock>>
      BY <1>5, <2>2 DEF MarkReady
    <3>2. /\ r \in Requests /\ r[1] = t
          /\ "thread" \in conn[r] /\ req[t] \in 1..MaxRequests
      BY <3>1, CurrentIs DEF WorkerInv, Stage, Busy
    <3>3. /\ \A q \in Requests : q[1] # t => conn'[q] = conn[q]
          /\ \A q \in Requests : conn'[q] # {} => conn[q] # {}
      BY <3>1, <3>2 DEF WorkerInv, TypeOK
    <3>4. \A u \in Conns \ {t} : pc'[u] = pc[u] /\ req'[u] = req[u]
      BY <3>1 DEF Goto, WorkerInv, TypeOK
    <3>5. "thread" \in conn'[r] /\ pc'[t] = "attach" /\ r' = r
      BY <3>1, <3>2 DEF Goto, WorkerInv, TypeOK, Current
    <3> HIDE DEF r
    <3>6. Stage(t)'
      BY <3>1, <3>2, <3>5 DEF WorkerInv, Stage, r
    <3>7. req'[t] >= req[t]
      BY <3>1, SessionsAssumption DEF WorkerInv, TypeOK
    <3> QED
      BY <3>1, <3>3, <3>4, <3>6, <3>7, ThreadMoves
  <2> QED
    BY <2>1, <2>2
<1> QED
  BY <1>1, <1>2, <1>3, <1>4, <1>5, ReceiveWorkers, ConnectWorkerInv, GreetInv, SendInitInv,
     AttachInv DEF Thread

LEMMA CrashWorkers == ASSUME WorkerInv, TypeOK', Crash PROVE WorkerInv'
<1>1. ASSUME NEW t \in Conns PROVE Stage(t)'
  BY DEF Crash, Stage, Busy
<1>2. ASSUME NEW r \in Requests PROVE Tale(r)'
  <2>1. /\ conn'[r] = {} /\ UNCHANGED <<req, worker, queue, replied>>
        /\ sock'[r] \in {"sent", "attached"} => sock'[r] = sock[r]
    BY DEF Crash, workerVars
  <2> QED
    BY <2>1 DEF WorkerInv, Tale, Hears
<1> QED
  BY <1>1, <1>2 DEF WorkerInv

-----------------------------------------------------------------------------
(* The steps of the workers.                                               *)

\* A step of the worker of r, after which its thread and its request are as they
\* should be.
LEMMA WorkerMoves ==
  ASSUME WorkerInv, TypeOK', NEW r \in Requests, Worker(r) \/ WorkerFails(r),
         Stage(r[1])', Tale(r)'
  PROVE  WorkerInv'
<1>1. UNCHANGED <<req, pc, conn>>
  BY DEF Worker, WorkerHandshake, WorkerInit, WorkerNewClient, WorkerEnds, WorkerFails, WorkerExit,
         threadVars, fdVars
<1>2. \A q \in Requests : q # r => /\ worker'[q] = worker[q]
                                   /\ queue'[q] = queue[q]
                                   /\ replied'[q] = replied[q]
                                   /\ sock'[q] = sock[q]
  BY DEF Worker, WorkerHandshake, WorkerInit, WorkerNewClient, WorkerEnds, WorkerFails, WorkerExit,
         fdVars, WorkerInv, TypeOK
<1> QED
  BY <1>1, <1>2, RequestMoves

LEMMA WorkerStepInv ==
  ASSUME WorkerInv, TypeOK', NEW r \in Requests, Worker(r) \/ WorkerFails(r)
  PROVE  WorkerInv'
<1> DEFINE t == r[1]
<1>1. /\ t \in Conns /\ Stage(t) /\ Tale(r) /\ UNCHANGED <<req, pc, conn>>
      /\ Current(t)' = Current(t)
  BY DEF WorkerInv, Requests, Current, Worker, WorkerHandshake, WorkerInit, WorkerNewClient,
         WorkerEnds, WorkerFails, WorkerExit, threadVars, fdVars
<1>2. ASSUME Current(t) # r PROVE Stage(t)'
  <2>1. \A q \in Requests : q # r => worker'[q] = worker[q] /\ queue'[q] = queue[q]
    BY DEF Worker, WorkerHandshake, WorkerInit, WorkerNewClient, WorkerEnds, WorkerFails,
           WorkerExit, WorkerInv, TypeOK
  <2>2. pc[t] \in Busy => Current(t) \in Requests
    BY <1>1, CurrentIs
  <2>3. pc[t] \in Busy => /\ worker'[Current(t)] = worker[Current(t)]
                          /\ queue'[Current(t)] = queue[Current(t)]
    BY <1>2, <2>1, <2>2
  <2> HIDE DEF t
  <2> QED
    BY <1>1, <2>3 DEF Stage, Busy
<1>3. CASE WorkerExit(r)
  <2>1. worker'[r] = "dead" /\ queue'[r] = <<>> /\ sock'[r] \notin {"sent", "attached"}
    BY <1>3 DEF WorkerExit, WorkerInv, TypeOK
  <2>2. worker[r] # "none"
    BY <1>3, <1>1 DEF Worker, WorkerHandshake, WorkerInit, WorkerNewClient, WorkerEnds, WorkerFails
  <2>3. Tale(r)'
    BY <1>1, <2>1, <2>2 DEF Tale
  <2>4. ASSUME Current(t) = r PROVE Stage(t)'
    BY <1>1, <2>1, <2>2, <2>4 DEF Stage, Busy
  <2> QED
    BY <1>2, <2>3, <2>4, WorkerMoves
<1>4. CASE WorkerHandshake(r)
  <2>1. /\ worker[r] = "new" /\ worker'[r] = "greeted" /\ Hears(r, "Hello")
        /\ queue'[r] = Tail(queue[r]) /\ UNCHANGED sock
    BY <1>4 DEF WorkerHandshake, WorkerInv, TypeOK, fdVars
  <2>2. Tale(r)'
    BY <1>1, <2>1 DEF Tale
  <2>3. ASSUME Current(t) = r PROVE Stage(t)'
    <3>1. CASE pc[t] = "greet"
      BY <1>1, <2>1, <2>3, <3>1 DEF Stage, Hears
    <3>2. CASE pc[t] = "greeting"
      <4>1. queue'[r] = <<>>
        BY <1>1, <2>1, <2>3, <3>2, Single DEF Stage
      <4> QED
        BY <1>1, <2>1, <2>3, <3>2, <4>1 DEF Stage
    <3>3. CASE pc[t] \notin {"greet", "greeting"}
      BY <1>1, <2>1, <2>3, <3>3 DEF Stage
    <3> QED
      BY <3>1, <3>2, <3>3
  <2> QED
    BY <1>2, <2>2, <2>3, WorkerMoves
<1>5. CASE WorkerInit(r)
  <2>1. /\ worker[r] = "greeted" /\ worker'[r] = "serving" /\ Hears(r, "Init")
    BY <1>5 DEF WorkerInit, WorkerInv, TypeOK
  <2>2. Tale(r)'
    BY <1>1, <1>5, <2>1 DEF Tale, WorkerInit, fdVars
  <2>3. ASSUME Current(t) = r PROVE Stage(t)'
    BY <1>1, <2>1, <2>3 DEF Stage, Hears
  <2> QED
    BY <1>2, <2>2, <2>3, WorkerMoves
<1>6. CASE WorkerNewClient(r)
  <2>1. worker[r] = "serving" /\ worker' = worker /\ replied' = replied
    BY <1>6 DEF WorkerNewClient
  <2>2. Tale(r)'
    BY <1>1, <2>1 DEF Tale
  <2>3. ASSUME Current(t) = r PROVE Stage(t)'
    BY <1>1, <2>1, <2>3 DEF Stage
  <2> QED
    BY <1>2, <2>2, <2>3, WorkerMoves
<1> QED
  BY <1>3, <1>4, <1>5, <1>6 DEF Worker, WorkerEnds, WorkerFails

LEMMA WorkerInvStep == WorkerInv /\ [Next]_vars => WorkerInv'
<1> SUFFICES ASSUME WorkerInv, [Next]_vars PROVE WorkerInv'
  OBVIOUS
<1>1. TypeOK'
  <2>1. \A t \in Conns : Numbered(t)
    BY DEF WorkerInv, Stage, Numbered
  <2> QED
    BY <2>1, TypeStep DEF WorkerInv
<1>2. CASE UNCHANGED vars
  BY <1>1, <1>2 DEF vars, threadVars, workerVars, fdVars, WorkerInv, Stage, Tale, Hears, Current
<1>3. ASSUME NEW t \in Conns, Connect(t) \/ PolicyAsks(t) \/ PolicyCloses(t)
      PROVE  WorkerInv'
  <2>1. /\ UNCHANGED <<req, worker, queue, replied, conn>>
        /\ \A u \in Conns \ {t} : pc'[u] = pc[u]
        /\ pc'[t] = pc[t] \/ pc'[t] = "hello"
    BY <1>3 DEF Connect, PolicyAsks, PolicyCloses, threadVars, workerVars, fdVars, WorkerInv, TypeOK
  <2>2. \A r \in Requests : sock'[r] \in {"sent", "attached"} => sock'[r] = sock[r]
    BY <1>3 DEF Connect, PolicyAsks, PolicyCloses, fdVars, WorkerInv, TypeOK
  <2>3. Stage(t)'
    BY <2>1 DEF WorkerInv, Stage, Busy, Current
  <2>4. req'[t] >= req[t]
    BY <2>1, SessionsAssumption DEF WorkerInv, TypeOK
  <2> QED
    BY <1>1, <2>1, <2>2, <2>3, <2>4, ThreadMoves
<1> QED
  BY <1>1, <1>2, <1>3, ThreadWorkers, WorkerStepInv, CrashWorkers DEF Next

\* Every variable always has its type: in particular a thread never works on a
\* request that its connection has not sent.
THEOREM TypeCorrect == Spec => []TypeOK
<1>1. WorkerInv => TypeOK
  BY DEF WorkerInv
<1> QED
  BY <1>1, WorkerInvInit, WorkerInvStep, PTL DEF Spec

\* A worker has its PTY, or will find it first, when a client is handed to it:
\* on whatever connection, however many workers there may be, and whatever fails.
THEOREM PtyBeforeClients == Spec => []InitComesFirst
<1>1. WorkerInv => InitComesFirst
  BY DEF WorkerInv, Tale, InitComesFirst
<1> QED
  BY <1>1, WorkerInvInit, WorkerInvStep, PTL DEF Spec

-----------------------------------------------------------------------------
(* The refinement.                                                         *)

\* A step that leaves the workers alone, and makes no connection.
LEMMA NoNewConnection ==
  ASSUME UNCHANGED <<worker, queue>>, \A r \in Requests : conn'[r] # {} => conn[r] # {}
  PROVE  Workers!Supervise
BY DEF Workers!Supervise

LEMMA EndLetsGo == ASSUME NEW t, NEW how, Leaves(t, how) PROVE Workers!Supervise
<1>1. \A r \in Requests : conn'[r] # {} => conn[r] # {}
  BY DEF Leaves, LeakRequest, LetGo, End, Drop
<1> QED
  BY <1>1, NoNewConnection DEF Leaves, LeakRequest, End, workerVars

\* A message in its turn, through a connection that is open.
LEMMA Told ==
  ASSUME NEW t \in Conns, Current(t) \in Requests,
         NEW message \in {"Hello", "Init", "NewClient"}, Tell(t, message),
         conn[Current(t)] # {}, Workers!MayTell(Current(t), message),
         \A r \in Requests : conn'[r] # {} => conn[r] # {}
  PROVE  Workers!Supervise
BY DEF Workers!Supervise, Tell

\* Every message of a thread has its turn: what the thread has seen of the
\* worker tells it so.
LEMMA SpeakSupervises ==
  ASSUME WorkerInv, NEW t \in Conns, Greet(t) \/ SendInit(t) \/ Attach(t)
  PROVE  Workers!Supervise
<1> DEFINE r == Current(t)
<1>1. CASE Panic(t)
  BY <1>1, EndLetsGo DEF Leaves, Panic
<1>2. CASE ~Panic(t)
  <2>1. pc[t] \in {"greet", "init", "attach"}
    BY DEF Greet, SendInit, Attach
  <2>2. r \in Requests /\ Stage(t) /\ conn[r] # {}
    BY <2>1, CurrentIs DEF WorkerInv, Stage, Busy
  <2>3. \A q \in Requests : conn'[q] # {} => conn[q] # {}
    BY <1>2, <2>2 DEF Greet, SendInit, Attach, NoWorker, fdVars, WorkerInv, TypeOK
  <2>4. CASE Greet(t)
    <3>1. Tell(t, "Hello") /\ pc[t] = "greet"
      BY <1>2, <2>4 DEF Greet, NoWorker
    <3>2. Workers!MayTell(r, "Hello")
      BY <2>2, <3>1 DEF Workers!MayTell, Stage, Tell
    <3> QED
      BY <2>2, <2>3, <3>1, <3>2, Told
  <2>5. CASE SendInit(t)
    <3>1. Tell(t, "Init") /\ pc[t] = "init"
      BY <1>2, <2>5 DEF SendInit, NoWorker
    <3>2. Workers!MayTell(r, "Init")
      BY <2>2, <3>1 DEF Workers!MayTell, Stage, Tell
    <3> QED
      BY <2>2, <2>3, <3>1, <3>2, Told
  <2>6. CASE Attach(t)
    <3>1. Tell(t, "NewClient") /\ pc[t] = "attach"
      BY <1>2, <2>6 DEF Attach, NoWorker
    <3>2. Workers!MayTell(r, "NewClient")
      BY <2>2, <3>1, Single DEF Workers!MayTell, Stage, Tell
    <3> QED
      BY <2>2, <2>3, <3>1, <3>2, Told
  <2> QED
    BY <2>4, <2>5, <2>6
<1> QED
  BY <1>1, <1>2

LEMMA ConnectStarts ==
  ASSUME WorkerInv, NEW t \in Conns, ConnectWorker(t)
  PROVE  Workers!Next
<1> DEFINE r == Current(t)
<1>1. CASE Panic(t)
  BY <1>1, EndLetsGo DEF Leaves, Panic, Workers!Next
<1>2. CASE ~Panic(t)
  <2>1. /\ pc[t] = "connect" /\ conn' = [conn EXCEPT ![r] = {"thread"}]
        /\ \E start \in {"new", "dead"} : worker' = [worker EXCEPT ![r] = start]
        /\ queue' = queue
    BY <1>2 DEF ConnectWorker
  <2>2. r \in Requests
    BY <2>1, CurrentIs DEF Busy
  <2>3. worker[r] = "none"
    BY <2>1 DEF WorkerInv, Stage
  <2>4. [q \in Requests |-> conn[q] # {}]' = [[q \in Requests |-> conn[q] # {}] EXCEPT ![r] = TRUE]
    BY <2>1, <2>2 DEF WorkerInv, TypeOK
  <2>5. PICK w \in Requests : w = r
    BY <2>2
  <2> HIDE DEF r
  <2>6. Workers!Start(w)
    BY <2>1, <2>3, <2>4, <2>5 DEF Workers!Start
  <2> QED
    BY <2>6 DEF Workers!Next
<1> QED
  BY <1>1, <1>2

LEMMA ThreadSupervises ==
  ASSUME WorkerInv, NEW t \in Conns, Thread(t) PROVE Workers!Next
<1>1. CASE ConnectWorker(t)
  BY <1>1, ConnectStarts
<1>2. CASE Greet(t) \/ SendInit(t) \/ Attach(t)
  BY <1>2, SpeakSupervises DEF Workers!Next
<1>3. CASE MarkReady(t)
  <2>1. CASE Panic(t)
    BY <2>1, EndLetsGo DEF Leaves, Panic, Workers!Next
  <2>2. CASE ~Panic(t)
    <3>1. /\ pc[t] = "ready" /\ conn' = [conn EXCEPT ![Current(t)] = @ \cup MapHolds]
          /\ UNCHANGED <<worker, queue>>
      BY <1>3, <2>2 DEF MarkReady, workerVars
    <3>2. "thread" \in conn[Current(t)]
      BY <3>1 DEF WorkerInv, Stage
    <3>3. \A r \in Requests : conn'[r] # {} => conn[r] # {}
      BY <3>1, <3>2 DEF WorkerInv, TypeOK
    <3> QED
      BY <3>1, <3>3, NoNewConnection DEF Workers!Next
  <2> QED
    BY <2>1, <2>2
<1>4. CASE Handshake(t) \/ Receive(t) \/ Insert(t) \/ CreateShell(t) \/ Greeting(t)
  <2>1. CASE \E how \in Over : Leaves(t, how)
    BY <2>1, EndLetsGo DEF Workers!Next
  <2>2. CASE UNCHANGED <<worker, queue, conn>>
    BY <2>2, NoNewConnection DEF Workers!Next
  <2> QED
    BY <1>4, <2>1, <2>2 DEF Handshake, Receive, Insert, CreateShell, Greeting, NoWorker, Panic,
       Leaves, Over, workerVars, fdVars
<1> QED
  BY <1>1, <1>2, <1>3, <1>4 DEF Thread

LEMMA WorkerServes ==
  ASSUME WorkerInv, NEW r \in Requests, Worker(r) \/ WorkerFails(r) PROVE Workers!Next
<1>1. CASE WorkerHandshake(r) \/ WorkerInit(r) \/ WorkerNewClient(r)
  <2>1. worker' = [worker EXCEPT ![r] = worker'[r]]
    BY <1>1 DEF WorkerHandshake, WorkerInit, WorkerNewClient, WorkerInv, TypeOK
  <2>2. Workers!Serve(r)
    BY <1>1, <2>1 DEF WorkerHandshake, WorkerInit, WorkerNewClient, Workers!Serve, Workers!Take,
       Hears, fdVars, WorkerInv, TypeOK
  <2> QED
    BY <2>2 DEF Workers!Next
<1>2. CASE WorkerExit(r) /\ worker[r] \in {"new", "greeted", "serving"}
  BY <1>2 DEF WorkerExit, Workers!Next, Workers!Stop, Workers!Live
<1> QED
  BY <1>1, <1>2 DEF Worker, WorkerEnds, WorkerFails

LEMMA StepSupervises == WorkerInv /\ [Next]_vars => [Workers!Next]_(Workers!vars)
<1> SUFFICES ASSUME WorkerInv, [Next]_vars PROVE [Workers!Next]_(Workers!vars)
  OBVIOUS
<1>1. CASE UNCHANGED vars
  BY <1>1 DEF vars, workerVars, fdVars, Workers!vars
<1>2. ASSUME NEW t \in Conns, Connect(t) \/ PolicyAsks(t) \/ PolicyCloses(t)
      PROVE  Workers!Next
  BY <1>2, NoNewConnection DEF Connect, PolicyAsks, PolicyCloses, workerVars, fdVars, Workers!Next
<1>3. CASE Crash
  BY <1>3, NoNewConnection DEF Crash, workerVars, Workers!Next
<1> QED
  BY <1>1, <1>2, <1>3, ThreadSupervises, WorkerServes DEF Next

\* The service supervises any number of workers as PtyWorker says: it speaks to
\* each in order, waits for the answer to its greeting, and says nothing after it
\* has let go, whatever fails in its threads in between.
THEOREM ServiceSupervises == Spec => SupervisesWorkers
<1>1. Init => Workers!Init
  BY DEF Init, Workers!Init
<1> QED
  BY <1>1, WorkerInvInit, WorkerInvStep, StepSupervises, PTL DEF Spec, SupervisesWorkers, Workers!Spec
=============================================================================
