--------------------------- MODULE SessionsProofs ---------------------------
(* Theorems about the map of Sessions, for every value of its constants.    *)
EXTENDS SessionsWorkerProofs

\* Where a thread is between the two critical sections of a request.
Creating == {"create", "connect", "greet", "greeting", "init", "ready"}

\* The part of TypeOK the argument needs.
MapType ==
  /\ pc \in [Conns -> {"none", "hello", "receive"} \cup Busy \cup Over]
  /\ req \in [Conns -> Nat]
  /\ id \in [Conns -> Ids \cup {NoId}]
  /\ session \in [Ids -> {"absent", "Creating", "Ready"}]
  /\ owner \in [Ids -> (Conns \X Nat) \cup {NoRequest}]

\* A thread between the two has a session id, whose entry is its own.
OwnsEntry(t) == /\ id[t] \in Ids
                /\ session[id[t]] = "Creating"
                /\ owner[id[t]] = Current(t)

EntryInv == \A t \in Conns : pc[t] \in Creating => OwnsEntry(t)

IndInv == MapType /\ EntryInv

LEMMA InitInv == Init => IndInv
  BY DEF Init, IndInv, MapType, EntryInv, Creating

\* Entries of threads in between are distinct: their owners are.
LEMMA DistinctEntries ==
  ASSUME IndInv, NEW t \in Conns, NEW u \in Conns, t # u,
         pc[t] \in Creating, pc[u] \in Creating
  PROVE  id[t] # id[u]
  BY DEF IndInv, EntryInv, OwnsEntry, Current

\* A step that leaves the map and the threads' requests alone, and brings no
\* thread from outside to between the critical sections.
LEMMA MapUntouched ==
  ASSUME IndInv, UNCHANGED <<req, id, mapVars>>,
         pc' \in [Conns -> {"none", "hello", "receive"} \cup Busy \cup Over],
         \A t \in Conns : pc'[t] \in Creating => pc[t] \in Creating
  PROVE  IndInv'
  <1>1. MapType'
    BY DEF IndInv, MapType, mapVars
  <1>2. EntryInv'
    BY DEF IndInv, EntryInv, OwnsEntry, Current, mapVars
  <1> QED BY <1>1, <1>2 DEF IndInv

\* The steps of a thread that stay within, enter neither end of, or leave the
\* part between the critical sections.
LEMMA Moves ==
  ASSUME IndInv, NEW t \in Conns, NEW where, UNCHANGED <<req, id, mapVars>>,
         where \in {"none", "hello", "receive"} \cup Busy \cup Over,
         where \in Creating => pc[t] \in Creating,
         Goto(t, where)
  PROVE  IndInv'
  <1>1. /\ pc' \in [Conns -> {"none", "hello", "receive"} \cup Busy \cup Over]
        /\ \A u \in Conns : pc'[u] \in Creating => pc[u] \in Creating
    BY DEF IndInv, MapType, Goto
  <1> QED BY <1>1, MapUntouched

LEMMA Ends ==
  ASSUME IndInv, NEW t \in Conns, NEW how \in Over, Leaves(t, how)
  PROVE  IndInv'
  <1>1. UNCHANGED <<req, id, mapVars>> /\ Goto(t, how)
    BY DEF Leaves, LeakRequest, End, Goto
  <1>2. how \notin Creating
    BY DEF Over, Creating
  <1> QED BY <1>1, <1>2, Moves

LEMMA Panics == ASSUME IndInv, NEW t \in Conns, Panic(t) PROVE IndInv'
  BY Ends DEF Leaves, Panic, Over

LEMMA ReceiveInv == ASSUME IndInv, NEW t \in Conns, Receive(t) PROVE IndInv'
  <1>1. CASE Leaves(t, "ended")
    BY <1>1, Ends DEF Over
  <1>2. CASE /\ pc[t] = "receive" /\ Goto(t, "insert")
             /\ req' = [req EXCEPT ![t] = @ + 1]
             /\ UNCHANGED <<id, mapVars>>
    <2>1. MapType'
      BY <1>2 DEF IndInv, MapType, mapVars, Goto, Busy
    <2>2. ASSUME NEW u \in Conns, pc'[u] \in Creating PROVE OwnsEntry(u)'
      <3>1. u # t /\ pc[u] \in Creating
        BY <1>2, <2>2 DEF IndInv, MapType, Goto, Creating
      <3>2. req'[u] = req[u]
        BY <1>2, <3>1 DEF IndInv, MapType
      <3> QED BY <1>2, <3>1, <3>2 DEF IndInv, EntryInv, OwnsEntry, Current, mapVars
    <2> QED BY <2>1, <2>2 DEF IndInv, EntryInv
  <1> QED BY <1>1, <1>2 DEF Receive, Leaves

LEMMA InsertInv == ASSUME IndInv, NEW t \in Conns, Insert(t) PROVE IndInv'
  <1>1. PICK i \in Ids : /\ pc[t] = "insert" /\ session[i] = "absent"
                         /\ id' = [id EXCEPT ![t] = i]
                         /\ session' = [session EXCEPT ![i] = "Creating"]
                         /\ owner' = [owner EXCEPT ![i] = Current(t)]
                         /\ Goto(t, "create")
                         /\ UNCHANGED req
    BY DEF Insert, VacantId
  <1>2. Current(t) \in Conns \X Nat
    BY DEF IndInv, MapType, Current
  <1>3. MapType'
    BY <1>1, <1>2 DEF IndInv, MapType, Goto, Busy
  <1>4. ASSUME NEW u \in Conns, pc'[u] \in Creating PROVE OwnsEntry(u)'
    <2>1. CASE u = t
      BY <1>1, <2>1 DEF IndInv, MapType, OwnsEntry, Current
    <2>2. CASE u # t
      <3>1. pc[u] \in Creating /\ id'[u] = id[u]
        BY <1>1, <1>4, <2>2 DEF IndInv, MapType, Goto
      <3>2. OwnsEntry(u) /\ id[u] # i
        BY <1>1, <3>1 DEF IndInv, EntryInv, OwnsEntry
      <3> QED BY <1>1, <3>1, <3>2 DEF IndInv, MapType, OwnsEntry, Current
    <2> QED BY <2>1, <2>2
  <1> QED BY <1>3, <1>4 DEF IndInv, EntryInv

LEMMA MarkReadyInv == ASSUME IndInv, NEW t \in Conns, MarkReady(t) PROVE IndInv'
  <1>1. CASE Panic(t)
    BY <1>1, Panics
  <1>2. CASE /\ pc[t] = "ready"
             /\ session' = [session EXCEPT ![id[t]] = "Ready"]
             /\ Goto(t, "attach")
             /\ UNCHANGED <<req, id, owner>>
    <2>1. MapType'
      BY <1>2 DEF IndInv, MapType, Goto, Busy
    <2>2. ASSUME NEW u \in Conns, pc'[u] \in Creating PROVE OwnsEntry(u)'
      <3>1. u # t /\ pc[u] \in Creating
        BY <1>2, <2>2 DEF IndInv, MapType, Goto, Creating
      <3>2. id[u] # id[t]
        BY <1>2, <3>1, DistinctEntries DEF Creating
      <3> QED BY <1>2, <3>1, <3>2 DEF IndInv, MapType, EntryInv, OwnsEntry, Current
    <2> QED BY <2>1, <2>2 DEF IndInv, EntryInv
  <1> QED BY <1>1, <1>2 DEF MarkReady

LEMMA ThreadInv == ASSUME IndInv, NEW t \in Conns, Thread(t) PROVE IndInv'
  <1>1. CASE Handshake(t)
    <2>1. CASE End(t, "ended")
      BY <2>1, Ends DEF Leaves, Over
    <2>2. CASE Goto(t, "receive") /\ UNCHANGED <<req, id, mapVars>>
      BY <2>2, Moves DEF Creating
    <2> QED BY <1>1, <2>1, <2>2 DEF Handshake
  <1>2. CASE Receive(t)
    BY <1>2, ReceiveInv
  <1>3. CASE Insert(t)
    BY <1>3, InsertInv
  <1>4. CASE CreateShell(t)
    <2>1. CASE pc[t] = "create" /\ Goto(t, "connect") /\ UNCHANGED <<req, id, mapVars>>
      BY <2>1, Moves DEF Creating, Busy
    <2> QED BY <1>4, <2>1, Panics DEF CreateShell
  <1>5. CASE ConnectWorker(t)
    <2>1. CASE pc[t] = "connect" /\ Goto(t, "greet") /\ UNCHANGED <<req, id, mapVars>>
      BY <2>1, Moves DEF Creating, Busy
    <2> QED BY <1>5, <2>1, Panics DEF ConnectWorker
  <1>6. CASE Greet(t)
    <2>1. CASE pc[t] = "greet" /\ Goto(t, "greeting") /\ UNCHANGED <<req, id, mapVars>>
      BY <2>1, Moves DEF Creating, Busy
    <2> QED BY <1>6, <2>1, Panics DEF Greet, NoWorker
  <1>7. CASE Greeting(t)
    <2>1. CASE pc[t] = "greeting" /\ Goto(t, "init") /\ UNCHANGED <<req, id, mapVars>>
      BY <2>1, Moves DEF Creating, Busy
    <2> QED BY <1>7, <2>1, Panics DEF Greeting, NoWorker, AfterGreeting
  <1>8. CASE SendInit(t)
    <2>1. CASE pc[t] = "init" /\ Goto(t, "ready") /\ UNCHANGED <<req, id, mapVars>>
      BY <2>1, Moves DEF Creating, Busy
    <2> QED BY <1>8, <2>1, Panics DEF SendInit, NoWorker, AfterInit
  <1>9. CASE MarkReady(t)
    BY <1>9, MarkReadyInv
  <1>10. CASE Attach(t)
    <2>1. CASE Goto(t, "receive") /\ UNCHANGED <<req, id, mapVars>>
      BY <2>1, Moves DEF Creating
    <2> QED BY <1>10, <2>1, Panics DEF Attach, NoWorker
  <1> QED BY <1>1, <1>2, <1>3, <1>4, <1>5, <1>6, <1>7, <1>8, <1>9, <1>10 DEF Thread

LEMMA CrashInv == ASSUME IndInv, Crash PROVE IndInv'
  <1>1. MapType'
    BY DEF IndInv, MapType, Crash, Over
  <1>2. \A t \in Conns : pc'[t] \notin Creating
    BY DEF Crash, Creating
  <1> QED BY <1>1, <1>2 DEF IndInv, EntryInv

LEMMA StepInv == IndInv /\ [Next]_vars => IndInv'
  <1> SUFFICES ASSUME IndInv, [Next]_vars PROVE IndInv'
    OBVIOUS
  <1>1. CASE UNCHANGED vars
    BY <1>1, MapUntouched DEF vars, threadVars, IndInv, MapType
  <1>2. ASSUME NEW t \in Conns, Connect(t) PROVE IndInv'
    BY <1>2, Moves DEF Connect, Goto, Creating
  <1>3. ASSUME NEW t \in Conns, PolicyAsks(t) \/ PolicyCloses(t) PROVE IndInv'
    BY <1>3, MapUntouched DEF PolicyAsks, PolicyCloses, threadVars, IndInv, MapType
  <1>4. ASSUME NEW r \in Requests, Worker(r) \/ WorkerFails(r) PROVE IndInv'
    BY <1>4, MapUntouched DEF Worker, WorkerFails, WorkerHandshake, WorkerInit,
       WorkerNewClient, WorkerEnds, WorkerExit, threadVars, IndInv, MapType
  <1> QED BY <1>1, <1>2, <1>3, <1>4, ThreadInv, CrashInv DEF Next

\* The panic "internal: someone stole our session id" (sessions/mod.rs:195) cannot
\* happen, however many connections, requests and session ids there are and
\* whatever else fails.  Two ids drawn equal cannot do it: the vacancy is tested
\* and taken in one critical section.
THEOREM SessionIdsAreKept == Spec => []NobodyStealsSessionId
  <1>1. IndInv => NobodyStealsSessionId
    BY DEF IndInv, EntryInv, OwnsEntry, NobodyStealsSessionId, Creating
  <1> QED BY <1>1, InitInv, StepInv, PTL DEF Spec

-----------------------------------------------------------------------------
(* What is in the map, and what was handed over.                           *)

\* The thread about to hand over a client has made its session ready.
HandOverInv == \A t \in Conns :
  pc[t] = "attach" => id[t] \in Ids /\ session[id[t]] = "Ready" /\ owner[id[t]] = Current(t)

\* The client of request r was handed over, or is about to arrive.
HandedOver(r) == \/ sock[r] \in {"sent", "attached"}
                 \/ \E i \in DOMAIN queue[r] : queue[r][i] = "NewClient"

Remembered == \A r \in Requests : HandedOver(r) /\ crashes = 0 => IsReady(r)

ReadyInv == IndInv /\ WorkerInv /\ HandOverInv /\ ReadyIsWhole /\ Remembered

\* What a ready session needs of its request r.
Whole(r) ==
  /\ "map" \in master[r] /\ "map" \in conn[r]
  /\ worker[r] \in {"serving", "dead"} \/ (worker[r] = "greeted" /\ Hears(r, "Init"))

LEMMA ReadyInit == Init => ReadyInv
  <1>1. Init => HandOverInv /\ ReadyIsWhole /\ Remembered
    BY DEF Init, HandOverInv, ReadyIsWhole, Remembered, HandedOver, IsReady
  <1> QED BY <1>1, InitInv, WorkerInvInit DEF ReadyInv

\* A step that leaves the map alone and harms no session that is ready.
LEMMA MapAlone ==
  ASSUME ReadyInv, IndInv', WorkerInv', UNCHANGED <<session, owner, id, crashes>>,
         \A t \in Conns : pc'[t] = "attach" => pc[t] = "attach" /\ req'[t] = req[t],
         \A r \in Requests : IsReady(r) => Whole(r)',
         \A r \in Requests : HandedOver(r)' => HandedOver(r) \/ IsReady(r)
  PROVE  ReadyInv'
  <1>1. HandOverInv'
    BY DEF ReadyInv, HandOverInv, Current
  <1>2. \A r \in Requests : IsReady(r)' = IsReady(r)
    BY DEF IsReady
  <1>3. ReadyIsWhole'
    BY <1>2 DEF ReadyIsWhole, Whole
  <1>4. Remembered'
    BY <1>2 DEF ReadyInv, Remembered
  <1> QED BY <1>1, <1>3, <1>4 DEF ReadyInv

\* A thread's request is not ready before its worker exists.
LEMMA NotReadyYet ==
  ASSUME ReadyInv, NEW t \in Conns, pc[t] \in {"insert", "create", "connect"}
  PROVE  Current(t) \in Requests /\ ~IsReady(Current(t))
  <1>1. Current(t) \in Requests /\ worker[Current(t)] = "none"
    BY CurrentIs DEF ReadyInv, WorkerInv, Stage, Busy
  <1> QED BY <1>1 DEF ReadyInv, ReadyIsWhole

\* A step of a thread whose connections and PTYs are, for a ready session, at
\* least what the map has of them.
LEMMA WholeStays ==
  ASSUME ReadyInv, NEW r \in Requests, IsReady(r),
         "map" \in master[r] => "map" \in master'[r],
         "map" \in conn[r] => "map" \in conn'[r],
         worker'[r] = worker[r], queue[r] # <<>> => queue'[r] # <<>> /\ Head(queue'[r]) = Head(queue[r])
  PROVE  Whole(r)'
  BY DEF ReadyInv, ReadyIsWhole, Whole, Hears

LEMMA SameHandOver == ASSUME UNCHANGED <<sock, queue>>, NEW r
                      PROVE  HandedOver(r)' => HandedOver(r)
  BY DEF HandedOver

LEMMA EndReady ==
  ASSUME ReadyInv, IndInv', WorkerInv', NEW t \in Conns, NEW how \in Over, Leaves(t, how)
  PROVE  ReadyInv'
  <1>1. UNCHANGED <<session, owner, id, crashes, worker, queue, req>>
    BY DEF Leaves, LeakRequest, End, mapVars, workerVars
  <1>2. \A u \in Conns : pc'[u] = "attach" => pc[u] = "attach" /\ req'[u] = req[u]
    BY <1>1 DEF Leaves, LeakRequest, Goto, End, ReadyInv, IndInv, MapType, Over
  <1>3. ASSUME NEW r \in Requests, IsReady(r) PROVE Whole(r)'
    <2>1. /\ "map" \in master[r] => "map" \in master'[r]
          /\ "map" \in conn[r] => "map" \in conn'[r]
      BY DEF Leaves, LeakRequest, LetGo, End, Drop
    <2> QED BY <1>1, <1>3, <2>1, WholeStays
  <1>4. \A r \in Requests : HandedOver(r)' => HandedOver(r)
    BY <1>1 DEF Leaves, LeakRequest, ClosedBy, End, Drop, HandedOver
  <1> QED BY <1>1, <1>2, <1>3, <1>4, MapAlone

LEMMA PanicReady ==
  ASSUME ReadyInv, IndInv', WorkerInv', NEW t \in Conns, Panic(t) PROVE ReadyInv'
  BY EndReady DEF Leaves, Panic, Over

LEMMA InsertReady ==
  ASSUME ReadyInv, IndInv', WorkerInv', NEW t \in Conns, Insert(t) PROVE ReadyInv'
  <1>1. PICK i \in Ids : /\ pc[t] = "insert" /\ session[i] = "absent"
                         /\ id' = [id EXCEPT ![t] = i]
                         /\ session' = [session EXCEPT ![i] = "Creating"]
                         /\ owner' = [owner EXCEPT ![i] = Current(t)]
                         /\ pc' = [pc EXCEPT ![t] = "create"]
                         /\ UNCHANGED <<req, sock, master, conn, worker, queue, crashes>>
    BY DEF Insert, VacantId, Goto, workerVars, fdVars
  <1>2. \A r : IsReady(r)' <=> IsReady(r)
    BY <1>1 DEF IsReady, ReadyInv, IndInv, MapType
  <1>3. HandOverInv'
    <2> SUFFICES ASSUME NEW u \in Conns, pc'[u] = "attach"
                 PROVE  id'[u] \in Ids /\ session'[id'[u]] = "Ready"
                          /\ owner'[id'[u]] = Current(u)'
      BY DEF HandOverInv
    <2>1. u # t /\ pc[u] = "attach" /\ id'[u] = id[u]
      BY <1>1 DEF ReadyInv, IndInv, MapType
    <2>2. id[u] \in Ids /\ session[id[u]] = "Ready" /\ owner[id[u]] = Current(u) /\ id[u] # i
      BY <1>1, <2>1 DEF ReadyInv, HandOverInv
    <2> QED BY <1>1, <2>1, <2>2 DEF Current, ReadyInv, IndInv, MapType
  <1>4. ReadyIsWhole'
    BY <1>1, <1>2 DEF ReadyInv, ReadyIsWhole, Hears
  <1>5. Remembered'
    BY <1>1, <1>2 DEF ReadyInv, Remembered, HandedOver
  <1> QED BY <1>3, <1>4, <1>5 DEF ReadyInv

LEMMA MarkReadyReady ==
  ASSUME ReadyInv, IndInv', WorkerInv', NEW t \in Conns, MarkReady(t) PROVE ReadyInv'
  <1>1. CASE Panic(t)
    BY <1>1, PanicReady
  <1>2. CASE ~Panic(t)
    <2> DEFINE r == Current(t)
               i == id[t]
    <2>1. /\ pc[t] = "ready"
          /\ session' = [session EXCEPT ![i] = "Ready"]
          /\ master' = [master EXCEPT ![r] = (@ \ {"thread"}) \cup {"map"}]
          /\ conn' = [conn EXCEPT ![r] = @ \cup {"map"}]
          /\ pc' = [pc EXCEPT ![t] = "attach"]
          /\ UNCHANGED <<req, id, owner, worker, queue, sock, crashes>>
      BY <1>2 DEF MarkReady, MapHolds, Goto, workerVars
    <2>2. i \in Ids /\ session[i] = "Creating" /\ owner[i] = r
      BY <2>1 DEF ReadyInv, IndInv, EntryInv, OwnsEntry, Creating
    <2>3. r \in Requests /\ r' = r
      BY <2>1, CurrentIs DEF ReadyInv, Busy, Current
    <2>4. \/ worker[r] \in {"serving", "dead"}
          \/ worker[r] = "greeted" /\ Hears(r, "Init")
      BY <2>1, Single DEF ReadyInv, WorkerInv, Stage, Hears
    <2> HIDE DEF r, i
    <2>5. \A q \in Requests : IsReady(q)' <=> IsReady(q) \/ q = r
      BY <2>1, <2>2 DEF IsReady, ReadyInv, IndInv, MapType
    <2>6. HandOverInv'
      <3> SUFFICES ASSUME NEW u \in Conns, pc'[u] = "attach"
                   PROVE  id'[u] \in Ids /\ session'[id'[u]] = "Ready"
                            /\ owner'[id'[u]] = Current(u)'
        BY DEF HandOverInv
      <3>1. CASE u = t
        BY <2>1, <2>2, <3>1 DEF r, i, Current, ReadyInv, IndInv, MapType
      <3>2. CASE u # t
        <4>1. pc[u] = "attach"
          BY <2>1, <3>2 DEF ReadyInv, IndInv, MapType
        <4> QED BY <2>1, <2>2, <4>1 DEF Current, ReadyInv, HandOverInv, IndInv, MapType
      <3> QED BY <3>1, <3>2
    <2>7. ReadyIsWhole'
      <3> SUFFICES ASSUME NEW q \in Requests, IsReady(q)' PROVE Whole(q)'
        BY DEF ReadyIsWhole, Whole
      <3>1. CASE q = r
        BY <2>1, <2>3, <2>4, <3>1 DEF Whole, Hears, ReadyInv, WorkerInv, TypeOK
      <3>2. CASE q # r
        <4>1. IsReady(q) /\ master'[q] = master[q] /\ conn'[q] = conn[q]
          BY <2>1, <2>5, <3>2 DEF ReadyInv, WorkerInv, TypeOK
        <4> QED BY <2>1, <4>1, WholeStays
      <3> QED BY <3>1, <3>2
    <2>8. Remembered'
      BY <2>1, <2>5 DEF ReadyInv, Remembered, HandedOver
    <2> QED BY <2>6, <2>7, <2>8 DEF ReadyInv
  <1> QED BY <1>1, <1>2

\* A step of a thread that is not about a session that is ready.
LEMMA StepAside ==
  ASSUME ReadyInv, IndInv', WorkerInv', NEW t \in Conns, NEW where, Goto(t, where),
         where # "attach", UNCHANGED <<session, owner, id, crashes>>,
         \A u \in Conns : u # t => req'[u] = req[u],
         \A r \in Requests : IsReady(r) => Whole(r)',
         \A r \in Requests : HandedOver(r)' => HandedOver(r) \/ IsReady(r)
  PROVE  ReadyInv'
  <1>1. \A u \in Conns : pc'[u] = "attach" => pc[u] = "attach" /\ req'[u] = req[u]
    BY DEF Goto, ReadyInv, IndInv, MapType
  <1> QED BY <1>1, MapAlone

LEMMA ThreadReady ==
  ASSUME ReadyInv, IndInv', WorkerInv', NEW t \in Conns, Thread(t) PROVE ReadyInv'
  <1> DEFINE c == Current(t)
  <1> USE DEF mapVars, workerVars, fdVars
  <1>1. CASE Panic(t) \/ Leaves(t, "ended")
    BY <1>1, PanicReady, EndReady DEF Over
  <1>2. CASE Handshake(t) /\ ~Leaves(t, "ended")
    <2>1. /\ Goto(t, "receive")
          /\ UNCHANGED <<session, owner, id, crashes, req, sock, master, conn, worker, queue>>
      BY <1>2 DEF Handshake, Leaves
    <2>2. \A r \in Requests : IsReady(r) => Whole(r)'
      BY <2>1, WholeStays
    <2> QED BY <2>1, <2>2, StepAside, SameHandOver
  <1>3. CASE Receive(t) /\ ~Leaves(t, "ended")
    <2>1. /\ Goto(t, "insert") /\ req' = [req EXCEPT ![t] = @ + 1]
          /\ sock' = [sock EXCEPT ![NextOne(t)] = "held"]
          /\ UNCHANGED <<session, owner, id, crashes, master, conn, worker, queue>>
      BY <1>3 DEF Receive, Leaves
    <2>2. \A r \in Requests : IsReady(r) => Whole(r)'
      BY <2>1, WholeStays
    <2>3. \A u \in Conns : u # t => req'[u] = req[u]
      BY <2>1 DEF ReadyInv, IndInv, MapType
    <2>4. \A r \in Requests : HandedOver(r)' => HandedOver(r)
      BY <2>1 DEF ReadyInv, WorkerInv, TypeOK, HandedOver
    <2> QED BY <2>1, <2>2, <2>3, <2>4, StepAside
  <1>4. CASE CreateShell(t) /\ ~Panic(t)
    <2>1. /\ pc[t] = "create" /\ Goto(t, "connect")
          /\ master' = [master EXCEPT ![c] = {"thread"}]
          /\ UNCHANGED <<session, owner, id, crashes, req, sock, conn, worker, queue>>
      BY <1>4 DEF CreateShell
    <2>2. ASSUME NEW r \in Requests, IsReady(r) PROVE Whole(r)'
      <3>1. r # c
        BY <2>1, <2>2, NotReadyYet
      <3>2. master'[r] = master[r]
        BY <2>1, <3>1 DEF ReadyInv, WorkerInv, TypeOK
      <3> QED BY <2>1, <2>2, <3>2, WholeStays
    <2> QED BY <2>1, <2>2, StepAside, SameHandOver
  <1>5. CASE ConnectWorker(t) /\ ~Panic(t)
    <2>1. /\ pc[t] = "connect" /\ Goto(t, "greet")
          /\ \E start : worker' = [worker EXCEPT ![c] = start]
          /\ conn' = [conn EXCEPT ![c] = {"thread"}]
          /\ UNCHANGED <<session, owner, id, crashes, req, sock, master, queue>>
      BY <1>5 DEF ConnectWorker
    <2>2. ASSUME NEW r \in Requests, IsReady(r) PROVE Whole(r)'
      <3>1. r # c
        BY <2>1, <2>2, NotReadyYet
      <3>2. conn'[r] = conn[r] /\ worker'[r] = worker[r]
        BY <2>1, <3>1 DEF ReadyInv, WorkerInv, TypeOK
      <3> QED BY <2>1, <2>2, <3>2, WholeStays
    <2> QED BY <2>1, <2>2, StepAside, SameHandOver
  <1>6. CASE Greeting(t) /\ ~Panic(t)
    <2>1. /\ Goto(t, "init")
          /\ UNCHANGED <<session, owner, id, crashes, req, sock, master, conn, worker, queue>>
      BY <1>6 DEF Greeting, NoWorker, AfterGreeting
    <2>2. \A r \in Requests : IsReady(r) => Whole(r)'
      BY <2>1, WholeStays
    <2> QED BY <2>1, <2>2, StepAside, SameHandOver
  <1>7. ASSUME NEW message \in {"Hello", "Init", "NewClient"}, Tell(t, message),
               NEW r \in Requests
        PROVE  /\ worker'[r] = worker[r]
               /\ queue[r] # <<>> => queue'[r] # <<>> /\ Head(queue'[r]) = Head(queue[r])
               /\ (r # c \/ message # "NewClient") /\ UNCHANGED sock =>
                    (HandedOver(r)' => HandedOver(r))
    <2>1. worker' = worker /\ queue[r] \in Seq({"Hello", "Init", "NewClient"})
      BY <1>7 DEF Tell, ReadyInv, WorkerInv, TypeOK
    <2>2. queue'[r] = IF r = c THEN Append(queue[r], message) ELSE queue[r]
      BY <1>7 DEF Tell, ReadyInv, WorkerInv, TypeOK
    <2>3. queue[r] # <<>> => queue'[r] # <<>> /\ Head(queue'[r]) = Head(queue[r])
      BY <2>1, <2>2
    <2>4. CASE r = c /\ message # "NewClient" /\ UNCHANGED sock
      BY <2>1, <2>2, <2>4 DEF HandedOver
    <2>5. CASE r # c /\ UNCHANGED sock
      BY <2>1, <2>2, <2>5 DEF HandedOver
    <2> QED BY <2>1, <2>3, <2>4, <2>5
  <1>8. CASE (Greet(t) \/ SendInit(t)) /\ ~Panic(t)
    <2>1. /\ Tell(t, "Hello") \/ Tell(t, "Init")
          /\ Goto(t, "greeting") \/ Goto(t, "ready")
          /\ UNCHANGED <<session, owner, id, crashes, req, sock, conn>>
      BY <1>8 DEF Greet, SendInit, NoWorker, AfterInit
    <2>2. \A r \in Requests : "map" \in master[r] => "map" \in master'[r]
      <3>1. UNCHANGED master \/ master' = [master EXCEPT ![c] = @ \cup {"message"}]
        BY <1>8 DEF Greet, SendInit, NoWorker
      <3> SUFFICES ASSUME NEW r \in Requests, "map" \in master[r] PROVE "map" \in master'[r]
        OBVIOUS
      <3>2. master'[r] = master[r] \/ master'[r] = master[r] \cup {"message"}
        BY <3>1 DEF ReadyInv, WorkerInv, TypeOK
      <3> QED BY <3>2
    <2>3. \A r \in Requests : IsReady(r) => Whole(r)'
      BY <1>7, <2>1, <2>2, WholeStays
    <2>4. \A r \in Requests : HandedOver(r)' => HandedOver(r)
      BY <1>7, <2>1
    <2> QED BY <2>1, <2>3, <2>4, StepAside
  <1>9. CASE Attach(t) /\ ~Panic(t)
    <2>1. /\ pc[t] = "attach" /\ Tell(t, "NewClient") /\ Goto(t, "receive")
          /\ sock' = [sock EXCEPT ![c] = "sent"]
          /\ conn' = [conn EXCEPT ![c] = @ \ {"thread"}]
          /\ UNCHANGED <<session, owner, id, crashes, req, master>>
      BY <1>9 DEF Attach, NoWorker
    <2>2. IsReady(c)
      BY <2>1 DEF ReadyInv, HandOverInv, IsReady
    <2>3. \A r \in Requests : "map" \in conn[r] => "map" \in conn'[r]
      BY <2>1 DEF ReadyInv, WorkerInv, TypeOK
    <2>4. \A r \in Requests : IsReady(r) => Whole(r)'
      BY <1>7, <2>1, <2>3, WholeStays
    <2>5. \A r \in Requests : HandedOver(r)' => HandedOver(r) \/ IsReady(r)
      <3> SUFFICES ASSUME NEW r \in Requests, r # c, HandedOver(r)' PROVE HandedOver(r)
        BY <2>2
      <3>1. sock'[r] = sock[r] /\ queue'[r] = queue[r]
        BY <2>1 DEF Tell, ReadyInv, WorkerInv, TypeOK
      <3> QED BY <3>1 DEF HandedOver
    <2> QED BY <2>1, <2>4, <2>5, StepAside
  <1> QED BY <1>1, <1>2, <1>3, <1>4, <1>5, <1>6, <1>8, <1>9, InsertReady, MarkReadyReady
          DEF Thread

LEMMA WorkerReady ==
  ASSUME ReadyInv, IndInv', WorkerInv', NEW w \in Requests, Worker(w) \/ WorkerFails(w)
  PROVE  ReadyInv'
  <1>1. UNCHANGED <<session, owner, id, crashes, pc, req, conn>>
    BY DEF Worker, WorkerHandshake, WorkerInit, WorkerNewClient, WorkerEnds, WorkerFails,
           WorkerExit, threadVars, mapVars, fdVars
  <1>2. ASSUME NEW r \in Requests, HandedOver(r)' PROVE HandedOver(r)
    <2>1. queue[r] \in Seq({"Hello", "Init", "NewClient"})
      BY DEF ReadyInv, WorkerInv, TypeOK
    <2>2. CASE WorkerExit(w)
      BY <1>2, <2>2 DEF WorkerExit, HandedOver, ReadyInv, WorkerInv, TypeOK
    <2>3. CASE WorkerHandshake(w) \/ WorkerInit(w) \/ WorkerNewClient(w)
      <3>1. queue'[r] = queue[r] \/ (queue[r] # <<>> /\ queue'[r] = Tail(queue[r]))
        BY <2>3 DEF WorkerHandshake, WorkerInit, WorkerNewClient, Hears, ReadyInv, WorkerInv, TypeOK
      <3>2. sock'[r] \in {"sent", "attached"} => HandedOver(r)
        <4>1. CASE WorkerNewClient(w) /\ r = w
          <5>1. queue[r] # <<>> /\ Head(queue[r]) = "NewClient"
            BY <4>1 DEF WorkerNewClient, Hears
          <5>2. 1 \in DOMAIN queue[r] /\ queue[r][1] = "NewClient"
            BY <2>1, <5>1
          <5> QED BY <5>2 DEF HandedOver
        <4>2. CASE ~(WorkerNewClient(w) /\ r = w)
          BY <2>3, <4>2 DEF WorkerHandshake, WorkerInit, WorkerNewClient, fdVars, HandedOver,
             ReadyInv, WorkerInv, TypeOK
        <4> QED BY <4>1, <4>2
      <3>3. ASSUME NEW i \in DOMAIN queue'[r], queue'[r][i] = "NewClient" PROVE HandedOver(r)
        <4>1. CASE queue'[r] = queue[r]
          BY <3>3, <4>1 DEF HandedOver
        <4>2. CASE queue[r] # <<>> /\ queue'[r] = Tail(queue[r])
          <5>1. i + 1 \in DOMAIN queue[r] /\ queue[r][i + 1] = queue'[r][i]
            BY <2>1, <3>3, <4>2
          <5> QED BY <3>3, <5>1 DEF HandedOver
        <4> QED BY <3>1, <4>1, <4>2
      <3> QED BY <1>2, <3>2, <3>3 DEF HandedOver
    <2> QED BY <2>2, <2>3 DEF Worker, WorkerEnds, WorkerFails
  <1>3. ASSUME NEW r \in Requests, IsReady(r) PROVE Whole(r)'
    <2>1. "map" \in master[r] => "map" \in master'[r]
      <3>1. \/ UNCHANGED master
            \/ master' = [master EXCEPT ![w] = @ \ {"message", "worker"}]
            \/ master' = [master EXCEPT ![w] = (@ \ {"message"}) \cup {"worker"}]
        BY DEF Worker, WorkerHandshake, WorkerInit, WorkerNewClient, WorkerEnds, WorkerFails,
               WorkerExit, fdVars
      <3>2. \/ master'[r] = master[r]
            \/ master'[r] = master[r] \ {"message", "worker"}
            \/ master'[r] = (master[r] \ {"message"}) \cup {"worker"}
        BY <3>1 DEF ReadyInv, WorkerInv, TypeOK
      <3> QED BY <3>2
    <2>2. CASE r # w
      <3>1. worker'[r] = worker[r] /\ queue'[r] = queue[r]
        BY <2>2 DEF Worker, WorkerHandshake, WorkerInit, WorkerNewClient, WorkerEnds, WorkerFails,
               WorkerExit, ReadyInv, WorkerInv, TypeOK
      <3> QED BY <1>1, <1>3, <2>1, <3>1, WholeStays
    <2>3. CASE r = w
      <3>1. Whole(r)
        BY <1>3 DEF ReadyInv, ReadyIsWhole, Whole
      <3>2. worker'[r] \in {"serving", "dead"}
        BY <2>3, <3>1 DEF Whole, Worker, WorkerHandshake, WorkerInit, WorkerNewClient, WorkerEnds,
               WorkerFails, WorkerExit, ReadyInv, WorkerInv, TypeOK, Hears
      <3> QED BY <1>1, <2>1, <3>1, <3>2 DEF Whole
    <2> QED BY <2>2, <2>3
  <1> QED BY <1>1, <1>2, <1>3, MapAlone

LEMMA ReadyStep == ReadyInv /\ [Next]_vars => ReadyInv'
  <1> SUFFICES ASSUME ReadyInv, [Next]_vars PROVE ReadyInv'
    OBVIOUS
  <1>1. IndInv' /\ WorkerInv'
    BY StepInv, WorkerInvStep DEF ReadyInv
  <1>2. CASE UNCHANGED vars
    <2>1. \A r \in Requests : IsReady(r) => Whole(r)'
      BY <1>2, WholeStays DEF vars, fdVars, workerVars
    <2> QED BY <1>1, <1>2, <2>1, MapAlone, SameHandOver DEF vars, fdVars, mapVars, threadVars,
            workerVars
  <1>3. ASSUME NEW t \in Conns, Connect(t) \/ PolicyAsks(t) \/ PolicyCloses(t) PROVE ReadyInv'
    <2>1. /\ UNCHANGED <<session, owner, id, crashes, req, master, conn, worker, queue>>
          /\ \A u \in Conns : pc'[u] = "attach" => pc[u] = "attach"
      BY <1>3 DEF Connect, PolicyAsks, PolicyCloses, threadVars, mapVars, fdVars, workerVars,
             ReadyInv, IndInv, MapType
    <2>2. \A r \in Requests : HandedOver(r)' => HandedOver(r)
      BY <1>3 DEF Connect, PolicyAsks, PolicyCloses, fdVars, workerVars, ReadyInv, WorkerInv, TypeOK,
             HandedOver
    <2>3. \A r \in Requests : IsReady(r) => Whole(r)'
      BY <2>1, WholeStays
    <2> QED BY <1>1, <2>1, <2>2, <2>3, MapAlone
  <1>4. CASE Crash
    <2>1. \A r : ~IsReady(r)'
      BY <1>4 DEF Crash, IsReady
    <2>2. crashes' # 0 /\ \A t \in Conns : pc'[t] # "attach"
      BY <1>4, SessionsAssumption DEF Crash, ReadyInv, WorkerInv, TypeOK
    <2> QED BY <1>1, <2>1, <2>2 DEF ReadyInv, HandOverInv, ReadyIsWhole, Remembered
  <1> QED BY <1>1, <1>2, <1>3, <1>4, ThreadReady, WorkerReady DEF Next

\* What the map says is ready can be used, however many threads panic, and in
\* whatever step: its PTY master and its connection are open and its worker has the
\* PTY, will find it first, or is gone.
THEOREM ReadySessionsAreWhole == Spec => []ReadyIsWhole
  <1>1. ReadyInv => ReadyIsWhole
    BY DEF ReadyInv
  <1> QED BY <1>1, ReadyInit, ReadyStep, PTL DEF Spec

\* No client is handed to a worker that later requests could not find, as long as
\* the service does not crash.
THEOREM ClientsAreRemembered == Spec => []AttachedIsRemembered
  <1>1. ReadyInv => AttachedIsRemembered
    BY DEF ReadyInv, Remembered, HandedOver, AttachedIsRemembered
  <1> QED BY <1>1, ReadyInit, ReadyStep, PTL DEF Spec

-----------------------------------------------------------------------------
(* Who holds what.                                                         *)

\* What the thread of its connection, or its socket, holds of request r.
Held(r) ==
  /\ sock[r] = "queued" => pc[r[1]] \in {"receive"} \cup Busy /\ r[2] > req[r[1]]
  /\ sock[r] = "held" \/ "thread" \in master[r] \cup conn[r] =>
       pc[r[1]] \in Busy /\ r = Current(r[1])
  /\ sock[r] = "leaked" => pc[r[1]] = "ended" /\ r = NextOne(r[1])

\* What the map and the worker hold of it.
Mapped(r) == "map" \in master[r] \cup conn[r] => IsReady(r)
Served(r) == /\ "message" \in master[r] => worker[r] = "greeted" /\ Hears(r, "Init")
             /\ "worker" \in master[r] => worker[r] = "serving"

\* No request is received before it was sent, and a thread that is about to hand
\* over a client has given its PTY master to the map.
Passed(t) == /\ req[t] <= asked[t]
             /\ pc[t] = "attach" => "thread" \notin master[Current(t)]

\* A connection that was not made has no thread.
Fresh == \A t \in Conns : policy[t] = "new" => pc[t] = "none"

HolderInv == /\ ReadyInv
             /\ Fresh
             /\ \A t \in Conns : Passed(t)
             /\ \A r \in Requests : Held(r) /\ Mapped(r) /\ Served(r)

LEMMA HolderInit == Init => HolderInv
  <1> SUFFICES ASSUME Init PROVE HolderInv
    OBVIOUS
  <1>1. \A t \in Conns : Passed(t)
    BY DEF Init, Passed
  <1>2. \A r \in Requests : Held(r) /\ Mapped(r) /\ Served(r)
    BY DEF Init, Held, Mapped, Served
  <1>3. Fresh
    BY DEF Init, Fresh
  <1> QED BY <1>1, <1>2, <1>3, ReadyInit DEF HolderInv

LEMMA FreshStep == ReadyInv /\ Fresh /\ [Next]_vars => Fresh'
  <1> SUFFICES ASSUME ReadyInv, Fresh, [Next]_vars, NEW u \in Conns, policy'[u] = "new"
               PROVE  pc'[u] = "none"
    BY DEF Fresh
  <1>1. policy[u] = "new" /\ pc[u] = "none" => pc'[u] = "none"
    <2>1. ASSUME NEW t \in Conns, Thread(t) PROVE pc[t] # "none" /\ \E w : Goto(t, w)
      BY <2>1 DEF Thread, Handshake, Receive, Insert, CreateShell, ConnectWorker, Greet,
         Greeting, SendInit, MarkReady, Attach, NoWorker, Panic, End, LeakRequest, Goto
    <2>2. ASSUME NEW t \in Conns, Thread(t), pc[u] = "none" PROVE pc'[u] = "none"
      BY <2>1, <2>2 DEF Goto, ReadyInv, IndInv, MapType
    <2>3. ASSUME NEW t \in Conns, Connect(t), pc[u] = "none" PROVE pc'[u] = "none"
      <3>1. u # t
        BY <2>3 DEF Connect, ReadyInv, WorkerInv, TypeOK
      <3> QED BY <2>3, <3>1 DEF Connect, ReadyInv, WorkerInv, TypeOK
    <2> QED BY <2>2, <2>3 DEF Next, vars, threadVars, PolicyAsks, PolicyCloses, Worker, WorkerFails,
            WorkerHandshake, WorkerInit, WorkerNewClient, WorkerEnds, WorkerExit, Crash
  <1>2. policy[u] = "new"
    <2>1. ASSUME NEW t \in Conns, Thread(t) PROVE policy' = policy
      BY <2>1 DEF Thread, Handshake, Receive, Insert, CreateShell, ConnectWorker, Greet,
         Greeting, SendInit, MarkReady, Attach, NoWorker, Panic, End, LeakRequest, policyVars
    <2>2. ASSUME NEW t \in Conns, Connect(t) \/ PolicyAsks(t) \/ PolicyCloses(t)
          PROVE  policy[u] = "new"
      BY <2>2 DEF Connect, PolicyAsks, PolicyCloses, ReadyInv, WorkerInv, TypeOK
    <2>3. ASSUME NEW r \in Requests, Worker(r) \/ WorkerFails(r) PROVE policy' = policy
      BY <2>3 DEF Worker, WorkerFails, WorkerHandshake, WorkerInit, WorkerNewClient, WorkerEnds,
         WorkerExit, policyVars
    <2> QED BY <2>1, <2>2, <2>3 DEF Next, vars, policyVars, Crash
  <1> QED BY <1>1, <1>2 DEF Fresh

\* A request is of a connection and has a number.
LEMMA RequestIs ==
  ASSUME NEW r \in Requests
  PROVE  r[1] \in Conns /\ r[2] \in Nat /\ r = <<r[1], r[2]>>
  BY SessionsAssumption DEF Requests

\* A step that is of no concern to the thread of request r.
LEMMA HeldElsewhere ==
  ASSUME NEW r \in Requests, Held(r), sock'[r] = sock[r],
         "thread" \in master'[r] \cup conn'[r] => "thread" \in master[r] \cup conn[r],
         pc'[r[1]] = pc[r[1]], req'[r[1]] = req[r[1]]
  PROVE  Held(r)'
  BY DEF Held, Current, NextOne

\* A step after which the thread of request r serves the same request as before.
LEMMA HeldOn ==
  ASSUME NEW r \in Requests, Held(r), sock'[r] = sock[r],
         "thread" \in master'[r] \cup conn'[r] =>
           "thread" \in master[r] \cup conn[r] \/ r = Current(r[1]),
         pc[r[1]] \in Busy, pc'[r[1]] \in Busy, req'[r[1]] = req[r[1]]
  PROVE  Held(r)'
  BY DEF Held, Current, Busy

LEMMA MappedOn ==
  ASSUME NEW r, Mapped(r), IsReady(r) => IsReady(r)',
         "map" \in master'[r] \cup conn'[r] => "map" \in master[r] \cup conn[r]
  PROVE  Mapped(r)'
  BY DEF Mapped

LEMMA ServedOn ==
  ASSUME NEW r, Served(r), worker'[r] = worker[r],
         queue[r] # <<>> => queue'[r] # <<>> /\ Head(queue'[r]) = Head(queue[r]),
         "message" \in master'[r] => "message" \in master[r],
         "worker" \in master'[r] => "worker" \in master[r]
  PROVE  Served(r)'
  BY DEF Served, Hears

\* What a session is ready for stays so until the service crashes.
LEMMA ReadyStays ==
  ASSUME ReadyInv, NEW t \in Conns, Thread(t), NEW r, IsReady(r)
  PROVE  IsReady(r)'
  <1>1. PICK i \in Ids : session[i] = "Ready" /\ owner[i] = r
    BY DEF IsReady
  <1>2. CASE Insert(t)
    BY <1>1, <1>2 DEF Insert, VacantId, IsReady, ReadyInv, IndInv, MapType
  <1>3. CASE MarkReady(t)
    BY <1>1, <1>3 DEF MarkReady, Panic, End, mapVars, IsReady, ReadyInv, IndInv, MapType
  <1>4. CASE ~Insert(t) /\ ~MarkReady(t)
    <2>1. UNCHANGED mapVars
      BY <1>4 DEF Thread, Handshake, Receive, CreateShell, ConnectWorker, Greet, Greeting,
         SendInit, Attach, NoWorker, Panic, End, LeakRequest
    <2> QED BY <1>1, <2>1 DEF mapVars, IsReady
  <1> QED BY <1>2, <1>3, <1>4

\* A thread that ends or panics, in whatever step, closes all it has.
LEMMA EndHolders ==
  ASSUME HolderInv, ReadyInv', Fresh', NEW t \in Conns, pc[t] # "ended", NEW how \in Over,
         Leaves(t, how)
  PROVE  HolderInv'
  <1>1. /\ pc' = [pc EXCEPT ![t] = how]
        /\ UNCHANGED <<req, asked, session, owner, worker, queue>>
    BY DEF Leaves, LeakRequest, Goto, End, mapVars, workerVars, policyVars
  <1>2. ASSUME NEW r \in Requests
        PROVE  /\ master'[r] = IF r[1] = t THEN master[r] \ {"thread"} ELSE master[r]
               /\ conn'[r] = IF r[1] = t THEN conn[r] \ {"thread"} ELSE conn[r]
               /\ \/ sock'[r] = IF r[1] = t /\ sock[r] \in {"queued", "held"}
                                THEN "closed" ELSE sock[r]
                  \/ sock'[r] = "leaked" /\ r = NextOne(t) /\ how = "ended"
    BY DEF Leaves, LeakRequest, ClosedBy, LetGo, End, Drop
  <1>3. ASSUME NEW u \in Conns PROVE Passed(u)'
    <2>1. pc'[u] = "attach" => pc[u] = "attach"
      BY <1>1 DEF Over, HolderInv, ReadyInv, IndInv, MapType
    <2>2. pc[u] = "attach" => Current(u) \in Requests
      BY CurrentIs DEF HolderInv, ReadyInv, Busy
    <2> QED BY <1>1, <1>2, <2>1, <2>2 DEF HolderInv, Passed, Current
  <1>4. ASSUME NEW r \in Requests PROVE Held(r)' /\ Mapped(r)' /\ Served(r)'
    <2>1. Held(r) /\ Mapped(r) /\ Served(r) /\ r[1] \in Conns
      BY RequestIs DEF HolderInv
    <2>2. Held(r)'
      <3>1. CASE r[1] = t
        <4>1. pc'[t] = how /\ NextOne(t)' = NextOne(t) /\ sock[r] # "leaked"
          BY <1>1, <2>1, <3>1 DEF Held, NextOne, HolderInv, ReadyInv, IndInv, MapType
        <4> QED BY <1>2, <3>1, <4>1 DEF Held
      <3>2. CASE r[1] # t
        <4>1. pc'[r[1]] = pc[r[1]] /\ r # NextOne(t)
          BY <1>1, <3>2 DEF NextOne
        <4> QED BY <1>1, <1>2, <2>1, <3>2, <4>1, HeldElsewhere
      <3> QED BY <3>1, <3>2
    <2>3. Mapped(r)'
      BY <1>1, <1>2, <2>1, MappedOn DEF IsReady
    <2>4. Served(r)'
      BY <1>1, <1>2, <2>1, ServedOn
    <2> QED BY <2>2, <2>3, <2>4
  <1> QED BY <1>3, <1>4 DEF HolderInv

LEMMA PanicHolders ==
  ASSUME HolderInv, ReadyInv', Fresh', NEW t \in Conns, pc[t] # "ended", Panic(t)
  PROVE  HolderInv'
  BY EndHolders DEF Leaves, Panic, Over

\* A thread goes on with the same request, and touches what belongs to no other.
LEMMA OwnRequest ==
  ASSUME HolderInv, ReadyInv', Fresh', NEW t \in Conns, NEW where \in Busy, Thread(t), Goto(t, where),
         pc[t] \in Busy, UNCHANGED <<req, asked, sock>>,
         \A r \in Requests : r # Current(t) => /\ master'[r] = master[r]
                                               /\ conn'[r] = conn[r]
                                               /\ worker'[r] = worker[r]
                                               /\ queue'[r] = queue[r],
         where = "attach" => "thread" \notin master'[Current(t)],
         Mapped(Current(t))', Served(Current(t))'
  PROVE  HolderInv'
  <1> DEFINE c == Current(t)
  <1>1. c \in Requests /\ c' = c
    BY CurrentIs DEF HolderInv, ReadyInv, Current
  <1>2. pc'[t] = where /\ \A u \in Conns : u # t => pc'[u] = pc[u]
    BY DEF Goto, HolderInv, ReadyInv, IndInv, MapType
  <1>3. ASSUME NEW u \in Conns PROVE Passed(u)'
    <2>1. CASE u = t
      BY <1>1, <1>2, <2>1 DEF HolderInv, Passed
    <2>2. CASE u # t
      <3>1. pc[u] = "attach" => Current(u) \in Requests /\ Current(u) # c
        BY <2>2, CurrentIs DEF HolderInv, ReadyInv, Busy
      <3> QED BY <1>2, <2>2, <3>1 DEF HolderInv, Passed, Current
    <2> QED BY <2>1, <2>2
  <1>4. ASSUME NEW r \in Requests PROVE Held(r)'
    <2>1. Held(r) /\ r[1] \in Conns
      BY RequestIs DEF HolderInv
    <2>2. CASE r[1] = t
      <3>1. r # c => master'[r] = master[r] /\ conn'[r] = conn[r]
        OBVIOUS
      <3> QED BY <1>2, <2>1, <2>2, <3>1, HeldOn
    <2>3. CASE r[1] # t
      <3>1. r # c
        BY <2>3, CurrentIs DEF HolderInv, ReadyInv
      <3> QED BY <1>2, <2>1, <2>3, <3>1, HeldElsewhere
    <2> QED BY <2>2, <2>3
  <1>5. ASSUME NEW r \in Requests PROVE Mapped(r)' /\ Served(r)'
    <2>1. CASE r = c
      BY <1>1, <2>1 DEF Mapped, Served, IsReady, Hears
    <2>2. CASE r # c
      <3>1. Mapped(r) /\ Served(r) /\ (IsReady(r) => IsReady(r)')
        BY ReadyStays DEF HolderInv
      <3> QED BY <2>2, <3>1, MappedOn, ServedOn
    <2> QED BY <2>1, <2>2
  <1> QED BY <1>3, <1>4, <1>5 DEF HolderInv

LEMMA ConnectHolders ==
  ASSUME HolderInv, ReadyInv', Fresh', NEW t \in Conns, CreateShell(t) \/ ConnectWorker(t), ~Panic(t)
  PROVE  HolderInv'
  <1> DEFINE c == Current(t)
  <1>1. /\ c \in Requests /\ pc[t] \in {"create", "connect"}
        /\ worker[c] = "none" /\ conn[c] = {} /\ ~IsReady(c) /\ Mapped(c) /\ Served(c)
    <2>1. c \in Requests /\ pc[t] \in {"create", "connect"} /\ ~IsReady(c)
      BY NotReadyYet DEF HolderInv, CreateShell, ConnectWorker
    <2> QED BY <2>1 DEF HolderInv, ReadyInv, WorkerInv, Stage, Tale
  <1>2. "map" \notin master[c] /\ "message" \notin master[c] /\ "worker" \notin master[c]
    BY <1>1 DEF Mapped, Served
  <1>3. CASE CreateShell(t)
    <2>1. /\ master' = [master EXCEPT ![c] = {"thread"}] /\ Goto(t, "connect")
          /\ UNCHANGED <<req, asked, sock, conn, worker, queue>>
      BY <1>3 DEF CreateShell, policyVars, workerVars
    <2>2. master'[c] = {"thread"} /\ \A r \in Requests : r # c => master'[r] = master[r]
      BY <1>1, <2>1 DEF HolderInv, ReadyInv, WorkerInv, TypeOK
    <2>3. Mapped(c)' /\ Served(c)'
      BY <1>1, <2>1, <2>2 DEF Mapped, Served, Current
    <2> QED BY <1>1, <1>3, <2>1, <2>2, <2>3, OwnRequest DEF Thread, Busy
  <1>4. CASE ConnectWorker(t)
    <2>1. /\ \E start : worker' = [worker EXCEPT ![c] = start]
          /\ conn' = [conn EXCEPT ![c] = {"thread"}] /\ Goto(t, "greet")
          /\ UNCHANGED <<req, asked, sock, master, queue>>
      BY <1>4 DEF ConnectWorker, policyVars
    <2>2. /\ conn'[c] = {"thread"}
          /\ \A r \in Requests : r # c => conn'[r] = conn[r] /\ worker'[r] = worker[r]
      BY <1>1, <2>1 DEF HolderInv, ReadyInv, WorkerInv, TypeOK
    <2>3. Mapped(c)' /\ Served(c)'
      BY <1>2, <2>1, <2>2 DEF Mapped, Served, Current
    <2> QED BY <1>1, <1>4, <2>1, <2>2, <2>3, OwnRequest DEF Thread, Busy
  <1> QED BY <1>3, <1>4

\* What the thread of t tells its worker comes last.
LEMMA ToldLast ==
  ASSUME HolderInv, NEW t \in Conns, NEW message \in {"Hello", "Init", "NewClient"},
         Tell(t, message), Current(t) \in Requests
  PROVE  /\ UNCHANGED <<worker, replied>>
         /\ queue'[Current(t)] = Append(queue[Current(t)], message)
         /\ \A r \in Requests : /\ r # Current(t) => queue'[r] = queue[r]
                                /\ queue[r] # <<>> =>
                                     queue'[r] # <<>> /\ Head(queue'[r]) = Head(queue[r])
  <1>1. /\ UNCHANGED <<worker, replied>>
        /\ queue' = [queue EXCEPT ![Current(t)] = Append(@, message)]
        /\ \A r \in Requests : queue[r] \in Seq({"Hello", "Init", "NewClient"})
        /\ queue \in [Requests -> Seq({"Hello", "Init", "NewClient"})]
    BY DEF Tell, HolderInv, ReadyInv, WorkerInv, TypeOK
  <1>2. /\ queue'[Current(t)] = Append(queue[Current(t)], message)
        /\ \A r \in Requests : r # Current(t) => queue'[r] = queue[r]
    BY <1>1
  <1>3. \A r \in Requests : queue[r] # <<>> =>
          queue'[r] # <<>> /\ Head(queue'[r]) = Head(queue[r])
    BY <1>1, <1>2
  <1> QED BY <1>1, <1>2, <1>3

LEMMA SpeakHolders ==
  ASSUME HolderInv, ReadyInv', Fresh', NEW t \in Conns,
         Greet(t) \/ Greeting(t) \/ SendInit(t), ~Panic(t)
  PROVE  HolderInv'
  <1> DEFINE c == Current(t)
  <1>1. c \in Requests /\ Mapped(c) /\ Served(c) /\ c' = c
    <2>1. c \in Requests
      BY CurrentIs DEF HolderInv, ReadyInv, Greet, Greeting, SendInit, Busy
    <2> QED BY <2>1 DEF HolderInv, Greet, Greeting, SendInit, NoWorker, Current
  <1>2. IsReady(c) => IsReady(c)'
    <2>1. \A r : IsReady(r) => IsReady(r)'
      BY ReadyStays DEF HolderInv, Thread
    <2> QED BY <1>1, <2>1
  <1>3. CASE Greet(t)
    <2>1. /\ pc[t] = "greet" /\ Tell(t, "Hello") /\ Goto(t, "greeting")
          /\ UNCHANGED <<req, asked, sock, master, conn>>
      BY <1>3 DEF Greet, NoWorker, policyVars, fdVars
    <2>2. Mapped(c)' /\ Served(c)'
      BY <1>1, <1>2, <2>1, ToldLast, MappedOn, ServedOn
    <2> QED BY <1>1, <1>3, <2>1, <2>2, ToldLast, OwnRequest DEF Thread, Busy
  <1>4. CASE Greeting(t)
    <2>1. /\ pc[t] = "greeting" /\ Goto(t, "init")
          /\ UNCHANGED <<req, asked, sock, master, conn, worker, queue>>
      BY <1>4 DEF Greeting, NoWorker, AfterGreeting, policyVars, fdVars, workerVars
    <2>2. Mapped(c)' /\ Served(c)'
      BY <1>1, <1>2, <2>1, MappedOn, ServedOn
    <2> QED BY <1>1, <1>4, <2>1, <2>2, OwnRequest DEF Thread, Busy
  <1>5. CASE SendInit(t)
    <2>1. /\ pc[t] = "init" /\ Tell(t, "Init") /\ Goto(t, "ready")
          /\ master' = [master EXCEPT ![c] = @ \cup {"message"}]
          /\ UNCHANGED <<req, asked, sock, conn>>
      BY <1>5 DEF SendInit, NoWorker, AfterInit, policyVars
    <2>2. /\ master'[c] = master[c] \cup {"message"}
          /\ \A r \in Requests : r # c => master'[r] = master[r]
      BY <1>1, <2>1 DEF HolderInv, ReadyInv, WorkerInv, TypeOK
    <2>3. worker[c] = "greeted" /\ queue[c] = <<>>
      BY <1>1, <2>1 DEF HolderInv, ReadyInv, WorkerInv, Stage, Tell
    <2>4. worker'[c] = "greeted" /\ queue'[c] = <<"Init">>
      BY <1>1, <2>1, <2>3, ToldLast
    <2>5. Mapped(c)'
      BY <1>1, <1>2, <2>1, <2>2, MappedOn
    <2>6. Served(c)'
      <3>1. "worker" \notin master[c]
        BY <1>1, <2>3 DEF Served
      <3> QED BY <1>1, <2>2, <2>4, <3>1, Single DEF Served, Hears
    <2> QED BY <1>1, <1>5, <2>1, <2>2, <2>5, <2>6, ToldLast, OwnRequest DEF Thread, Busy
  <1> QED BY <1>3, <1>4, <1>5

LEMMA MapHolders ==
  ASSUME HolderInv, ReadyInv', Fresh', NEW t \in Conns, Insert(t) \/ MarkReady(t), ~Panic(t)
  PROVE  HolderInv'
  <1> DEFINE c == Current(t)
  <1>1. c \in Requests /\ Mapped(c) /\ Served(c) /\ c' = c
    <2>1. c \in Requests
      BY CurrentIs DEF HolderInv, ReadyInv, Insert, MarkReady, Busy
    <2> QED BY <2>1 DEF HolderInv, Insert, MarkReady, Current
  <1>2. IsReady(c) => IsReady(c)'
    <2>1. \A r : IsReady(r) => IsReady(r)'
      BY ReadyStays DEF HolderInv, Thread
    <2> QED BY <1>1, <2>1
  <1>3. CASE Insert(t)
    <2>1. /\ pc[t] = "insert" /\ Goto(t, "create")
          /\ UNCHANGED <<req, asked, sock, master, conn, worker, queue>>
      BY <1>3 DEF Insert, policyVars, fdVars, workerVars
    <2>2. Mapped(c)' /\ Served(c)'
      BY <1>1, <1>2, <2>1, MappedOn, ServedOn
    <2> QED BY <1>1, <1>3, <2>1, <2>2, OwnRequest DEF Thread, Busy
  <1>4. CASE MarkReady(t)
    <2>1. /\ pc[t] = "ready" /\ Goto(t, "attach")
          /\ session' = [session EXCEPT ![id[t]] = "Ready"]
          /\ master' = [master EXCEPT ![c] = (@ \ {"thread"}) \cup {"map"}]
          /\ conn' = [conn EXCEPT ![c] = @ \cup {"map"}]
          /\ UNCHANGED <<req, asked, sock, owner, worker, queue>>
      BY <1>4 DEF MarkReady, MapHolds, policyVars, workerVars
    <2>2. id[t] \in Ids /\ owner[id[t]] = c
      BY <2>1 DEF HolderInv, ReadyInv, IndInv, EntryInv, OwnsEntry, Creating
    <2>3. IsReady(c)'
      BY <1>1, <2>1, <2>2 DEF IsReady, HolderInv, ReadyInv, IndInv, MapType
    <2>4. /\ master'[c] = (master[c] \ {"thread"}) \cup {"map"}
          /\ \A r \in Requests : r # c => master'[r] = master[r] /\ conn'[r] = conn[r]
      BY <1>1, <2>1 DEF HolderInv, ReadyInv, WorkerInv, TypeOK
    <2>5. Mapped(c)' /\ Served(c)'
      BY <1>1, <2>1, <2>3, <2>4, ServedOn DEF Mapped
    <2> QED BY <1>1, <1>4, <2>1, <2>4, <2>5, OwnRequest DEF Thread, Busy
  <1> QED BY <1>3, <1>4

LEMMA AttachHolders ==
  ASSUME HolderInv, ReadyInv', Fresh', NEW t \in Conns, Attach(t), ~Panic(t)
  PROVE  HolderInv'
  <1> DEFINE c == Current(t)
  <1>1. /\ pc[t] = "attach" /\ Tell(t, "NewClient")
        /\ pc' = [pc EXCEPT ![t] = "receive"]
        /\ sock' = [sock EXCEPT ![c] = "sent"]
        /\ conn' = [conn EXCEPT ![c] = @ \ {"thread"}]
        /\ UNCHANGED <<req, asked, master>>
    BY DEF Attach, NoWorker, Goto, policyVars
  <1>2. c \in Requests
    BY <1>1, CurrentIs DEF HolderInv, ReadyInv, Busy
  <1>3. /\ sock'[c] = "sent" /\ conn'[c] = conn[c] \ {"thread"} /\ "thread" \notin master[c]
        /\ \A r \in Requests : r # c => sock'[r] = sock[r] /\ conn'[r] = conn[r]
        /\ pc'[t] = "receive" /\ \A u \in Conns : u # t => pc'[u] = pc[u]
    BY <1>1, <1>2 DEF HolderInv, Passed, ReadyInv, WorkerInv, TypeOK
  <1>4. ASSUME NEW u \in Conns PROVE Passed(u)'
    BY <1>1, <1>3 DEF HolderInv, Passed, Current
  <1>5. ASSUME NEW r \in Requests PROVE Held(r)'
    <2>1. Held(r) /\ r[1] \in Conns
      BY RequestIs DEF HolderInv
    <2>2. CASE r = c
      BY <1>1, <1>3, <2>2 DEF Held
    <2>3. CASE r # c /\ r[1] = t
      BY <1>1, <1>3, <2>1, <2>3 DEF Held
    <2>4. CASE r[1] # t
      <3>1. r # c
        BY <2>4, CurrentIs DEF HolderInv, ReadyInv
      <3> QED BY <1>1, <1>3, <2>1, <2>4, <3>1, HeldElsewhere
    <2> QED BY <2>2, <2>3, <2>4
  <1>6. ASSUME NEW r \in Requests PROVE Mapped(r)' /\ Served(r)'
    <2>1. Mapped(r) /\ Served(r) /\ (IsReady(r) => IsReady(r)')
      BY ReadyStays DEF HolderInv, Thread
    <2>2. conn'[r] = conn[r] \/ conn'[r] = conn[r] \ {"thread"}
      BY <1>3
    <2>3. Mapped(r)'
      BY <1>1, <2>1, <2>2, MappedOn
    <2>4. Served(r)'
      BY <1>1, <1>2, <2>1, ToldLast, ServedOn
    <2> QED BY <2>3, <2>4
  <1> QED BY <1>4, <1>5, <1>6 DEF HolderInv

LEMMA ReceiveHolders ==
  ASSUME HolderInv, ReadyInv', Fresh', NEW t \in Conns, Receive(t), ~Leaves(t, "ended")
  PROVE  HolderInv'
  <1> DEFINE next == NextOne(t)
  <1>1. /\ pc[t] = "receive" /\ req[t] < asked[t]
        /\ req' = [req EXCEPT ![t] = @ + 1]
        /\ sock' = [sock EXCEPT ![next] = "held"]
        /\ pc' = [pc EXCEPT ![t] = "insert"]
        /\ UNCHANGED <<asked, session, owner, master, conn, worker, queue>>
    BY DEF Receive, Leaves, Goto, policyVars, mapVars, workerVars
  <1>2. /\ req[t] \in Nat /\ asked[t] \in Nat /\ req'[t] = req[t] + 1 /\ pc'[t] = "insert"
        /\ \A u \in Conns : u # t => req'[u] = req[u] /\ pc'[u] = pc[u]
    BY <1>1, SessionsAssumption DEF HolderInv, ReadyInv, WorkerInv, TypeOK
  <1>3. ASSUME NEW u \in Conns PROVE Passed(u)'
    <2>1. CASE u = t
      BY <1>1, <1>2, <2>1 DEF Passed
    <2>2. CASE u # t
      BY <1>1, <1>2, <2>2 DEF HolderInv, Passed, Current
    <2> QED BY <2>1, <2>2
  <1>4. ASSUME NEW r \in Requests PROVE Held(r)'
    <2>1. Held(r) /\ r[1] \in Conns /\ r[2] \in Nat /\ r = <<r[1], r[2]>>
      BY RequestIs DEF HolderInv
    <2>2. sock'[r] = IF r = next THEN "held" ELSE sock[r]
      BY <1>1 DEF HolderInv, ReadyInv, WorkerInv, TypeOK
    <2>3. CASE r[1] = t
      <3>1. "thread" \notin master[r] \cup conn[r] /\ sock[r] # "held"
        BY <1>1, <2>1, <2>3 DEF Held, Busy
      <3>2. CASE r = next
        BY <1>1, <1>2, <2>2, <2>3, <3>2 DEF Held, NextOne, Current, Busy
      <3>3. CASE r # next
        <4>1. r[2] # req[t] + 1
          BY <2>1, <2>3, <3>3 DEF NextOne
        <4> QED BY <1>1, <1>2, <2>1, <2>2, <2>3, <3>1, <3>3, <4>1 DEF Held, Busy
      <3> QED BY <3>2, <3>3
    <2>4. CASE r[1] # t
      BY <1>1, <1>2, <2>1, <2>2, <2>4, HeldElsewhere DEF NextOne
    <2> QED BY <2>3, <2>4
  <1>5. ASSUME NEW r \in Requests PROVE Mapped(r)' /\ Served(r)'
    <2>1. Mapped(r) /\ Served(r)
      BY DEF HolderInv
    <2> QED BY <1>1, <2>1, MappedOn, ServedOn DEF IsReady
  <1> QED BY <1>3, <1>4, <1>5 DEF HolderInv

\* What its policy process does, and the handshake, concern requests to come only.
LEMMA PolicyHolders ==
  ASSUME HolderInv, ReadyInv', Fresh', NEW t \in Conns,
         \/ Connect(t) \/ PolicyAsks(t) \/ PolicyCloses(t)
         \/ Handshake(t) /\ ~End(t, "ended")
  PROVE  HolderInv'
  <1>1. /\ UNCHANGED <<req, session, owner, master, conn, worker, queue>>
        /\ UNCHANGED pc \/ \E where \in {"hello", "receive"} : pc' = [pc EXCEPT ![t] = where]
    BY DEF Connect, PolicyAsks, PolicyCloses, Handshake, Goto, threadVars, mapVars, workerVars,
           fdVars
  <1>2. \A u \in Conns : pc'[u] = "attach" => pc[u] = "attach"
    BY <1>1 DEF HolderInv, ReadyInv, IndInv, MapType
  <1>3. \A u \in Conns : asked[u] \in Nat /\ asked'[u] \in Nat /\ asked'[u] >= asked[u]
    <2>1. CASE UNCHANGED asked
      BY <2>1, SessionsAssumption DEF HolderInv, ReadyInv, WorkerInv, TypeOK
    <2>2. CASE asked' = [asked EXCEPT ![t] = @ + 1]
      BY <2>2, SessionsAssumption DEF HolderInv, ReadyInv, WorkerInv, TypeOK
    <2> QED BY <2>1, <2>2 DEF Connect, PolicyAsks, PolicyCloses, Handshake, End, policyVars
  <1>4. ASSUME NEW u \in Conns PROVE Passed(u)'
    <2>1. req[u] \in Nat /\ Passed(u)
      BY DEF HolderInv, ReadyInv, IndInv, MapType
    <2> QED BY <1>1, <1>2, <1>3, <2>1 DEF Passed, Current
  <1>5. ASSUME NEW r \in Requests PROVE Held(r)'
    <2>1. Held(r) /\ r[1] \in Conns /\ r[2] \in Nat /\ r = <<r[1], r[2]>>
      BY RequestIs DEF HolderInv
    <2>2. CASE PolicyAsks(t)
      <3>1. pc[t] \in {"receive"} \cup Busy /\ UNCHANGED pc
        BY <2>2 DEF PolicyAsks, threadVars
      <3>2. sock'[r] = IF r = <<t, asked[t] + 1>> THEN "queued" ELSE sock[r]
        BY <2>2 DEF PolicyAsks, HolderInv, ReadyInv, WorkerInv, TypeOK
      <3>3. CASE r = <<t, asked[t] + 1>>
        <4>1. r[1] = t /\ r[2] > req[t]
          <5>1. req[t] <= asked[t] /\ req[t] \in Nat /\ asked[t] \in Nat
            BY <1>3 DEF HolderInv, Passed, ReadyInv, IndInv, MapType
          <5> QED BY <3>3, <5>1
        <4>2. sock'[r] = "queued"
          BY <3>2, <3>3
        <4> QED BY <1>1, <2>1, <3>1, <4>1, <4>2 DEF Held, Current
      <3>4. CASE r # <<t, asked[t] + 1>>
        BY <1>1, <2>1, <3>1, <3>2, <3>4, HeldElsewhere
      <3> QED BY <3>3, <3>4
    <2>3. CASE ~PolicyAsks(t)
      <3>1. UNCHANGED sock /\ (UNCHANGED pc \/ pc[t] \in {"none", "hello"})
        <4>1. CASE Connect(t)
          BY <4>1 DEF Connect, fdVars, HolderInv, Fresh
        <4> QED BY <2>3, <4>1 DEF Connect, PolicyCloses, Handshake, threadVars, fdVars
      <3> QED BY <1>1, <2>1, <3>1, HeldElsewhere DEF Held, Busy, HolderInv, ReadyInv, IndInv, MapType
    <2> QED BY <2>2, <2>3
  <1>6. ASSUME NEW r \in Requests PROVE Mapped(r)' /\ Served(r)'
    <2>1. Mapped(r) /\ Served(r)
      BY DEF HolderInv
    <2> QED BY <1>1, <2>1, MappedOn, ServedOn DEF IsReady
  <1> QED BY <1>4, <1>5, <1>6 DEF HolderInv

LEMMA ThreadHolders ==
  ASSUME HolderInv, ReadyInv', Fresh', NEW t \in Conns, Thread(t) PROVE HolderInv'
  <1>1. CASE Panic(t) \/ Leaves(t, "ended")
    <2>1. pc[t] # "ended"
      BY DEF Thread, Handshake, Receive, Insert, CreateShell, ConnectWorker, Greet, Greeting,
         SendInit, MarkReady, Attach
    <2> QED BY <1>1, <2>1, PanicHolders, EndHolders DEF Over
  <1>2. CASE ~Panic(t) /\ ~Leaves(t, "ended")
    <2>1. ~End(t, "ended")
      BY <1>2 DEF Leaves
    <2> QED BY <1>2, <2>1, PolicyHolders, ReceiveHolders, MapHolders, ConnectHolders,
            SpeakHolders, AttachHolders DEF Thread
  <1> QED BY <1>1, <1>2

\* What a worker that ends held is closed, a PTY master it had not read of too.
LEMMA WorkerHolders ==
  ASSUME HolderInv, ReadyInv', Fresh', NEW w \in Requests, Worker(w) \/ WorkerFails(w)
  PROVE  HolderInv'
  <1>1. UNCHANGED <<pc, req, asked, session, owner, conn>>
    BY DEF Worker, WorkerHandshake, WorkerInit, WorkerNewClient, WorkerEnds, WorkerFails,
           WorkerExit, threadVars, policyVars, mapVars, fdVars
  <1>2. \A r \in Requests : r # w => /\ sock'[r] = sock[r] /\ master'[r] = master[r]
                                     /\ worker'[r] = worker[r] /\ queue'[r] = queue[r]
    BY DEF Worker, WorkerHandshake, WorkerInit, WorkerNewClient, WorkerEnds, WorkerFails,
           WorkerExit, fdVars, HolderInv, ReadyInv, WorkerInv, TypeOK
  <1>3. /\ sock'[w] \in {"attached", "closed", sock[w]}
        /\ master'[w] \ {"message", "worker"} = master[w] \ {"message", "worker"}
    BY DEF Worker, WorkerHandshake, WorkerInit, WorkerNewClient, WorkerEnds, WorkerFails,
           WorkerExit, fdVars, HolderInv, ReadyInv, WorkerInv, TypeOK
  <1>4. ASSUME NEW r \in Requests
        PROVE  ("thread" \in master'[r]) = ("thread" \in master[r])
                 /\ ("map" \in master'[r]) = ("map" \in master[r])
    BY <1>2, <1>3
  <1>5. ASSUME NEW u \in Conns PROVE Passed(u)'
    <2>1. pc[u] = "attach" => Current(u) \in Requests
      BY CurrentIs DEF HolderInv, ReadyInv, Busy
    <2> QED BY <1>1, <1>4, <2>1 DEF HolderInv, Passed, Current
  <1>6. ASSUME NEW r \in Requests PROVE Held(r)' /\ Mapped(r)'
    <2>1. Held(r) /\ Mapped(r)
      BY DEF HolderInv
    <2>2. sock'[r] \in {"attached", "closed", sock[r]}
      BY <1>2, <1>3
    <2>3. Held(r)'
      <3>1. sock'[r] \in {"queued", "held", "leaked"} => sock'[r] = sock[r]
        BY <2>2
      <3> QED BY <1>1, <1>4, <2>1, <3>1 DEF Held, Current, NextOne
    <2>4. Mapped(r)'
      BY <1>1, <1>4, <2>1 DEF Mapped, IsReady
    <2> QED BY <2>3, <2>4
  <1>7. ASSUME NEW r \in Requests PROVE Served(r)'
    <2>1. Served(r)
      BY DEF HolderInv
    <2>2. CASE r # w
      BY <1>2, <2>1, <2>2 DEF Served, Hears
    <2>3. CASE r = w
      <3>1. CASE WorkerExit(w)
        BY <2>3, <3>1 DEF WorkerExit, Served, HolderInv, ReadyInv, WorkerInv, TypeOK
      <3>2. CASE WorkerHandshake(w)
        BY <2>1, <2>3, <3>2 DEF WorkerHandshake, fdVars, Served
      <3>3. CASE WorkerInit(w)
        BY <2>3, <3>3 DEF WorkerInit, Served, HolderInv, ReadyInv, WorkerInv, TypeOK
      <3>4. CASE WorkerNewClient(w)
        BY <2>1, <2>3, <3>4 DEF WorkerNewClient, Served
      <3> QED BY <3>1, <3>2, <3>3, <3>4 DEF Worker, WorkerEnds, WorkerFails
    <2> QED BY <2>2, <2>3
  <1> QED BY <1>5, <1>6, <1>7 DEF HolderInv

LEMMA CrashHolders == ASSUME HolderInv, ReadyInv', Fresh', Crash PROVE HolderInv'
  <1>1. /\ UNCHANGED <<req, asked, worker, queue>>
        /\ \A t \in Conns : pc'[t] # "attach"
    BY DEF Crash, policyVars, workerVars
  <1>2. \A r \in Requests : /\ sock'[r] \notin {"queued", "held", "leaked"}
                            /\ master'[r] = master[r] \ {"thread", "map"}
                            /\ conn'[r] = {}
    BY DEF Crash
  <1>3. \A t \in Conns : Passed(t)'
    BY <1>1 DEF HolderInv, Passed
  <1>4. \A r \in Requests : Held(r)' /\ Mapped(r)'
    BY <1>2 DEF Held, Mapped
  <1>5. \A r \in Requests : Served(r)'
    BY <1>1, <1>2, ServedOn DEF HolderInv
  <1> QED BY <1>3, <1>4, <1>5 DEF HolderInv

LEMMA HolderStep == HolderInv /\ [Next]_vars => HolderInv'
  <1> SUFFICES ASSUME HolderInv, [Next]_vars PROVE HolderInv'
    OBVIOUS
  <1>1. ReadyInv' /\ Fresh'
    BY ReadyStep, FreshStep DEF HolderInv
  <1>2. CASE UNCHANGED vars
    BY <1>1, <1>2 DEF vars, threadVars, policyVars, mapVars, workerVars, fdVars, HolderInv,
       Passed, Held, Mapped, Served, IsReady, Hears, Current, NextOne
  <1> QED BY <1>1, <1>2, ThreadHolders, PolicyHolders, WorkerHolders, CrashHolders DEF Next

\* Every failure of a step is a panic that unwinds the thread's stack
\* (sessions/mod.rs:150-215): wherever it happens, and whatever other threads, workers
\* and the policy process do meanwhile, what was open for the request is open in the
\* hands of somebody who is there to use and to close it.
THEOREM HoldersLive == Spec => []EveryHolderLives
  <1>1. HolderInv => EveryHolderLives
    BY DEF HolderInv, Held, Mapped, Served, EveryHolderLives
  <1> QED BY <1>1, HolderInit, HolderStep, PTL DEF Spec
=============================================================================
