-------------------------- MODULE PtyServiceProofs --------------------------
(* Theorems about PtyService, for every value of its constants.            *)
EXTENDS PtyService, SequenceTheorems, TLAPS

LEMMA HeadTailType == ASSUME NEW S, NEW s \in Seq(S), s # <<>>
                      PROVE  Head(s) \in S /\ Tail(s) \in Seq(S)
  OBVIOUS

\* What a step leaves alone keeps its type.
LEMMA Unchanged ==
  /\ MainType /\ UNCHANGED mainVars => MainType'
  /\ SupType /\ UNCHANGED supVars => SupType'
  /\ PtyType /\ UNCHANGED ptyVars => PtyType'
  /\ CliType /\ UNCHANGED cliVars => CliType'
  /\ SockType /\ UNCHANGED sockVars => SockType'
  /\ UserType /\ UNCHANGED userVars => UserType'
  BY DEF MainType, SupType, PtyType, CliType, SockType, UserType,
         mainVars, supVars, ptyVars, cliVars, sockVars, userVars

LEMMA InitType == Init => TypeOK
  <1> SUFFICES ASSUME Init PROVE TypeOK
    OBVIOUS
  <1>1. MainType /\ SupType /\ PtyType
    BY BoundsAssumption DEF Init, MainType, SupType, PtyType
  <1>2. CliType
    BY BoundsAssumption DEF Init, CliType
  <1>3. SockType
    BY DEF Init, SockType
  <1>4. UserType
    BY BoundsAssumption DEF Init, UserType
  <1> QED BY <1>1, <1>2, <1>3, <1>4 DEF TypeOK

LEMMA ShellType == ASSUME TypeOK, Shell PROVE TypeOK'
  <1>1. PtyType'
    <2>1. CASE ShellPrint
      BY <2>1, BoundsAssumption DEF TypeOK, PtyType, ShellPrint
    <2>2. CASE ShellReadKeys
      BY <2>2, BoundsAssumption DEF TypeOK, PtyType, ShellReadKeys
    <2>3. CASE ShellExit
      BY <2>3 DEF TypeOK, PtyType, ShellExit
    <2> QED BY <2>1, <2>2, <2>3 DEF Shell
  <1>2. UNCHANGED <<mainVars, supVars, cliVars, sockVars, userVars>>
    BY DEF Shell, ShellPrint, ShellReadKeys, ShellExit
  <1> QED BY <1>1, <1>2, Unchanged DEF TypeOK

LEMMA CloseServerType == ASSUME SockType, NEW C, CloseServer(C) PROVE SockType'
  BY DEF SockType, CloseServer

LEMMA SupervisorType == ASSUME TypeOK, Supervisor PROVE TypeOK'
  <1>1. CASE SupHello
    <2>1. SupType'
      BY <1>1 DEF TypeOK, SupType, SupHello, SupMsg
    <2> QED BY <1>1, <2>1, Unchanged DEF TypeOK, SupHello
  <1>2. CASE SupInit
    <2>1. SupType'
      BY <1>2 DEF TypeOK, SupType, SupInit, SupMsg
    <2> QED BY <1>2, <2>1, Unchanged DEF TypeOK, SupInit
  <1>3. CASE SupClose
    <2>1. SupType'
      BY <1>3 DEF TypeOK, SupType, SupClose
    <2>2. SockType'
      BY <1>3, CloseServerType DEF TypeOK, SupClose
    <2> QED BY <1>3, <2>1, <2>2, Unchanged DEF TypeOK, SupClose
  <1>4. ASSUME NEW c \in Clients, SupNewClient(c) PROVE TypeOK'
    <2>1. SupType'
      BY <1>4 DEF TypeOK, SupType, SupNewClient, SupMsg
    <2>2. SockType'
      BY <1>4 DEF TypeOK, SockType, SupNewClient
    <2> QED BY <1>4, <2>1, <2>2, Unchanged DEF TypeOK, SupNewClient
  <1> QED BY <1>1, <1>2, <1>3, <1>4 DEF Supervisor

\* One more message in a client's inbox.
LEMMA InboxType == ASSUME SockType, NEW c \in Clients, NEW m \in UserMsg,
                          inbox' = [inbox EXCEPT ![c] = Append(@, m)],
                          UNCHANGED <<cliReset, srv, sent, srvReset>>
                   PROVE  SockType'
  <1> USE DEF SockType
  <1>1. Append(inbox[c], m) \in Seq(UserMsg)
    OBVIOUS
  <1>2. inbox' \in [Clients -> Seq(UserMsg)]
    BY <1>1
  <1> QED BY <1>2

\* One message less in it.
LEMMA InboxTailType == ASSUME SockType, NEW c \in Clients, inbox[c] # <<>>,
                              inbox' = [inbox EXCEPT ![c] = Tail(@)],
                              UNCHANGED <<cliReset, srv, sent>>,
                              srvReset' \in [Clients -> BOOLEAN]
                       PROVE  SockType'
  <1> USE DEF SockType
  <1>1. Tail(inbox[c]) \in Seq(UserMsg)
    BY HeadTailType
  <1> QED BY <1>1

\* One more message sent to the client.
LEMMA SentType == ASSUME SockType, NEW c \in Clients, NEW m \in {0} \cup Chunks,
                         sent' = [sent EXCEPT ![c] = Append(@, m)],
                         UNCHANGED <<cliReset, srv, inbox, srvReset>>
                  PROVE  SockType'
  <1> USE DEF SockType
  <1>1. Append(sent[c], m) \in Seq({0} \cup Chunks)
    OBVIOUS
  <1>2. sent' \in [Clients -> Seq({0} \cup Chunks)]
    BY <1>1
  <1> QED BY <1>2

LEMMA ClientTypeOK == ASSUME TypeOK, NEW c \in Clients, Client(c) PROVE TypeOK'
  <1>1. CASE ClientHello(c)
    <2>1. CliType'
      BY <1>1 DEF TypeOK, CliType, ClientHello
    <2>2. SockType'
      <3>1. PICK hello \in {"Hello", "WrongHello"} :
              inbox' = [inbox EXCEPT ![c] = Append(@, [type |-> hello, n |-> 0])]
        BY <1>1 DEF ClientHello
      <3>2. [type |-> hello, n |-> 0] \in UserMsg
        BY BoundsAssumption DEF UserMsg
      <3> QED BY <1>1, <3>1, <3>2, InboxType DEF TypeOK, ClientHello
    <2> QED BY <1>1, <2>1, <2>2, Unchanged DEF TypeOK, ClientHello
  <1>2. CASE ClientType(c)
    <2>1. CliType'
      BY <1>2, BoundsAssumption DEF TypeOK, CliType, ClientType
    <2>2. typed[c] + 1 \in 0..MaxInputs
      BY <1>2, BoundsAssumption DEF TypeOK, CliType, ClientType
    <2>3. SockType'
      <3>1. PICK type \in {"Keys", "TooLarge"} :
              inbox' = [inbox EXCEPT ![c] = Append(@, [type |-> type, n |-> typed[c] + 1])]
        BY <1>2 DEF ClientType
      <3>2. [type |-> type, n |-> typed[c] + 1] \in UserMsg
        BY <2>2 DEF UserMsg
      <3> QED BY <1>2, <3>1, <3>2, InboxType DEF TypeOK, ClientType
    <2> QED BY <1>2, <2>1, <2>3, Unchanged DEF TypeOK, ClientType
  <1>3. CASE ClientReceive(c)
    <2>1. CliType'
      BY <1>3 DEF TypeOK, CliType, ClientReceive
    <2> QED BY <1>3, <2>1, Unchanged DEF TypeOK, ClientReceive
  <1>4. CASE ClientEnd(c) \/ ClientReset(c) \/ ClientClose(c)
    <2>1. CliType'
      BY <1>4 DEF TypeOK, CliType, ClientEnd, ClientReset, ClientClose, CloseClient
    <2>2. SockType'
      BY <1>4 DEF TypeOK, SockType, ClientEnd, ClientReset, ClientClose, CloseClient
    <2>3. UNCHANGED <<mainVars, supVars, ptyVars, userVars>>
      BY <1>4 DEF ClientEnd, ClientReset, ClientClose
    <2> QED BY <2>1, <2>2, <2>3, Unchanged DEF TypeOK
  <1> QED BY <1>1, <1>2, <1>3, <1>4 DEF Client

LEMMA ExitType == ASSUME TypeOK, NEW err \in {"Handshake", "End", "Socket", "panic"},
                         Exit(err)
                  PROVE  TypeOK'
  <1>1. MainType'
    BY DEF TypeOK, MainType, Exit
  <1>2. SupType'
    BY DEF TypeOK, SupType, Exit
  <1>3. SockType'
    BY CloseServerType DEF TypeOK, Exit
  <1> QED BY <1>1, <1>2, <1>3, Unchanged DEF TypeOK, Exit

LEMMA MainTypeOK == ASSUME TypeOK, Main PROVE TypeOK'
  <1>1. CASE \E err \in {"Handshake", "End", "Socket", "panic"} : Exit(err)
    BY <1>1, ExitType
  <1>2. CASE /\ supQ # <<>> /\ supQ' = Tail(supQ) /\ UNCHANGED <<mainErr, sup>>
             /\ main' \in {"reply", "serve"}
             /\ UNCHANGED <<ptyVars, cliVars, sockVars, userVars>>
    <2>1. MainType' /\ SupType'
      BY <1>2 DEF TypeOK, MainType, SupType
    <2> QED BY <1>2, <2>1, Unchanged DEF TypeOK
  <1>3. CASE /\ main' = "init"
             /\ UNCHANGED <<mainErr, supVars, ptyVars, cliVars, sockVars, userVars>>
    <2>1. MainType'
      BY <1>3 DEF TypeOK, MainType
    <2> QED BY <1>3, <2>1, Unchanged DEF TypeOK
  <1>4. CASE MainServe /\ SupSays("NewClient") /\ Head(supQ).seqpacket
    <2>2. Head(supQ).client \in Clients
      BY <1>4 DEF TypeOK, SupType, SupSays, SupMsg
    <2> DEFINE c == Head(supQ).client
    <2>3. /\ srv' = [srv EXCEPT ![c] = "open"]
          /\ user' = [user EXCEPT ![c] = "hello"]
          /\ supQ # <<>> /\ supQ' = Tail(supQ)
          /\ UNCHANGED <<mainVars, sup, ptyVars, cliVars, cliReset, inbox, sent, srvReset,
                         inp, inHand, out, outHand>>
      BY <1>4 DEF MainServe, MainGone, SupGone, SupSays
    <2> HIDE DEF c
    <2>1. SupType'
      BY <2>3, HeadTailType DEF TypeOK, SupType
    <2>4. SockType' /\ UserType'
      BY <2>2, <2>3 DEF TypeOK, SockType, UserType, c
    <2> QED BY <2>1, <2>3, <2>4, Unchanged DEF TypeOK
  <1>5. CASE MainHandshake
    BY <1>5, <1>1, <1>2 DEF MainHandshake, SupSays
  <1>6. CASE MainReply
    BY <1>6, <1>1, <1>3 DEF MainReply, AfterReply
  <1>7. CASE MainInit
    BY <1>7, <1>1, <1>2 DEF MainInit, MainGone, SupSays
  <1>8. CASE MainServe
    BY <1>8, <1>1, <1>4 DEF MainServe, MainGone
  <1> QED BY <1>5, <1>6, <1>7, <1>8 DEF Main

LEMMA UserTypeOK == ASSUME TypeOK, NEW c \in Clients, User(c) PROVE TypeOK'
  <1>1. UNCHANGED <<mainVars, supVars, ptyVars, cliVars>>
    BY DEF User, UserHandshake, UserReply, UserJoinOutput, UserJoinInput
  <1>2. UserType'
    BY DEF TypeOK, UserType, User, UserHandshake, UserReply, UserJoinOutput, UserJoinInput,
           UserReturns
  <1>3. SockType'
    <2>1. CASE UserReturns(c)
      BY <2>1, CloseServerType DEF TypeOK, UserReturns
    <2>2. CASE UserHandshake(c)
      <3>1. CASE ~UserReturns(c)
        <4>1. /\ inbox[c] # <<>> /\ inbox' = [inbox EXCEPT ![c] = Tail(@)]
              /\ UNCHANGED <<cliReset, srv, sent, srvReset>>
          BY <2>2, <3>1 DEF UserHandshake, RecvMsg
        <4> QED BY <4>1, InboxTailType DEF TypeOK, SockType
      <3> QED BY <2>1, <3>1
    <2>3. CASE UserReply(c)
      <3>1. CASE ~UserReturns(c)
        <4>1. /\ sent' = [sent EXCEPT ![c] = Append(@, 0)]
              /\ UNCHANGED <<cliReset, srv, inbox, srvReset>>
          BY <2>3, <3>1 DEF UserReply
        <4> QED BY <4>1, SentType DEF TypeOK
      <3> QED BY <2>1, <3>1
    <2>4. CASE UserJoinOutput(c)
      BY <2>4 DEF TypeOK, SockType, UserJoinOutput, ShutDownRead
    <2>5. CASE UserJoinInput(c)
      BY <2>1, <2>5 DEF UserJoinInput
    <2> QED BY <2>2, <2>3, <2>4, <2>5 DEF User
  <1> QED BY <1>1, <1>2, <1>3, Unchanged DEF TypeOK

LEMMA InputTypeOK == ASSUME TypeOK, NEW c \in Clients, Input(c) PROVE TypeOK'
  <1>1. CASE InputReceive(c)
    <2>1. SockType'
      <3>1. /\ UNCHANGED <<cliReset, srv, sent>>
            /\ \/ inbox' = inbox
               \/ inbox[c] # <<>> /\ inbox' = [inbox EXCEPT ![c] = Tail(@)]
            /\ \/ srvReset' = srvReset
               \/ srvReset' = [srvReset EXCEPT ![c] = FALSE]
        BY <1>1 DEF InputReceive, RecvMsg
      <3>2. srvReset' \in [Clients -> BOOLEAN]
        BY <3>1 DEF TypeOK, SockType
      <3>3. CASE inbox' = inbox
        BY <3>1, <3>2, <3>3 DEF TypeOK, SockType
      <3> QED BY <3>1, <3>2, <3>3, InboxTailType DEF TypeOK
    <2>2. UserType'
      <3>1. /\ UNCHANGED <<user, out, outHand>>
            /\ \E x \in {"write"} \cup InputEnded : inp' = [inp EXCEPT ![c] = x]
            /\ \/ inHand' = inHand
               \/ /\ inbox[c] # <<>>
                  /\ inHand' = [inHand EXCEPT ![c] = [n |-> Head(inbox[c]).n, k |-> 0]]
        BY <1>1 DEF InputReceive, InputEnded, RecvMsg
      <3>2. CASE inHand' = inHand
        BY <3>1, <3>2 DEF TypeOK, UserType
      <3>3. CASE inHand' # inHand
        <4>1. Head(inbox[c]) \in UserMsg
          BY <3>1, <3>3, HeadTailType DEF TypeOK, SockType
        <4>2. [n |-> Head(inbox[c]).n, k |-> 0] \in [n : 0..MaxInputs, k : 0..Pieces]
          BY <4>1, BoundsAssumption DEF UserMsg
        <4>3. inHand' \in [Clients -> [n : 0..MaxInputs, k : 0..Pieces]]
          BY <3>1, <3>3, <4>2 DEF TypeOK, UserType
        <4> QED BY <3>1, <4>3 DEF TypeOK, UserType
      <3> QED BY <3>2, <3>3
    <2> QED BY <1>1, <2>1, <2>2, Unchanged DEF TypeOK, InputReceive
  <1>2. CASE InputWrite(c)
    <2>1. inHand[c] \in [n : 0..MaxInputs, k : 0..Pieces]
      BY DEF TypeOK, UserType
    <2>2. ASSUME ~shell PROVE PtyType' /\ UserType'
      <3>1. /\ inp' = [inp EXCEPT ![c] = "PtyError"]
            /\ UNCHANGED <<shell, printed, taken, keys, keysRead, user, inHand, out, outHand>>
        BY <1>2, <2>2 DEF InputWrite
      <3> QED BY <3>1 DEF TypeOK, PtyType, UserType, InputEnded
    <2>3. ASSUME shell, NEW m \in 1..(Pieces - inHand[c].k),
                 keys' = keys \o [i \in 1..m |-> <<c, inHand[c].n, inHand[c].k + i>>],
                 inHand' = [inHand EXCEPT ![c].k = WrittenAfter(c, m)],
                 inp' = IF WrittenAfter(c, m) = Pieces
                        THEN [inp EXCEPT ![c] = AfterMessage] ELSE inp
          PROVE  PtyType' /\ UserType'
      <3> DEFINE S == Clients \X (0..MaxInputs) \X (1..Pieces)
                 new == [i \in 1..m |-> <<c, inHand[c].n, inHand[c].k + i>>]
      <3>1. new \in Seq(S)
        BY <2>1, BoundsAssumption
      <3>2. keys \in Seq(S)
        BY DEF TypeOK, PtyType
      <3>3. keys \o new \in Seq(S) /\ Len(keys \o new) = Len(keys) + Len(new)
        BY <3>1, <3>2, ConcatProperties
      <3>4. Len(new) \in Nat /\ Len(keys) \in Nat
        BY <3>1, <3>2
      <3> HIDE DEF new
      <3>5. PtyType'
        BY <1>2, <2>3, <3>3, <3>4 DEF new, InputWrite, TypeOK, PtyType
      <3>6. WrittenAfter(c, m) \in 0..Pieces
        BY <2>1, BoundsAssumption DEF WrittenAfter
      <3>7. UserType'
        BY <1>2, <2>3, <3>6 DEF InputWrite, TypeOK, UserType, AfterMessage
      <3> QED BY <3>5, <3>7
    <2>4. ASSUME shell PROVE PtyType' /\ UserType'
      <3>1. \E m \in 1..(Pieces - inHand[c].k) :
              /\ keys' = keys \o [i \in 1..m |-> <<c, inHand[c].n, inHand[c].k + i>>]
              /\ inHand' = [inHand EXCEPT ![c].k = WrittenAfter(c, m)]
              /\ inp' = IF WrittenAfter(c, m) = Pieces
                        THEN [inp EXCEPT ![c] = AfterMessage] ELSE inp
        BY <1>2, <2>4 DEF InputWrite
      <3> QED BY <2>3, <2>4, <3>1
    <2>5. PtyType' /\ UserType'
      BY <2>2, <2>4
    <2> QED BY <1>2, <2>5, Unchanged DEF TypeOK, InputWrite
  <1> QED BY <1>1, <1>2 DEF Input

LEMMA OutputTypeOK == ASSUME TypeOK, NEW c \in Clients, Output(c) PROVE TypeOK'
  <1>1. CASE OutputRead(c)
    <2>1. PtyType' /\ (taken < printed => taken + 1 \in Chunks)
      BY <1>1, BoundsAssumption DEF TypeOK, PtyType, OutputRead, NextChunk, Chunks
    <2>2. UserType'
      BY <1>1, <2>1 DEF TypeOK, UserType, OutputRead, OutputEnded
    <2> QED BY <1>1, <2>1, <2>2, Unchanged DEF TypeOK, OutputRead
  <1>2. CASE OutputSend(c)
    <2>1. UserType'
      BY <1>2 DEF TypeOK, UserType, OutputSend, OutputEnded, AfterFailedSend
    <2>2. SockType'
      <3>1. CASE sent' = sent
        BY <1>2, <3>1 DEF TypeOK, SockType, OutputSend
      <3>2. CASE sent' # sent
        <4>1. /\ sent' = [sent EXCEPT ![c] = Append(@, outHand[c])]
              /\ UNCHANGED <<cliReset, srv, inbox, srvReset>>
          BY <1>2, <3>2 DEF OutputSend
        <4>2. outHand[c] \in {0} \cup Chunks
          BY DEF TypeOK, UserType
        <4> QED BY <4>1, <4>2, SentType DEF TypeOK
      <3> QED BY <3>1, <3>2
    <2> QED BY <1>2, <2>1, <2>2, Unchanged DEF TypeOK, OutputSend
  <1> QED BY <1>1, <1>2 DEF Output

LEMMA TypeStep == TypeOK /\ [Next]_vars => TypeOK'
  <1> SUFFICES ASSUME TypeOK, [Next]_vars PROVE TypeOK'
    OBVIOUS
  <1>1. CASE UNCHANGED vars
    BY <1>1, Unchanged DEF TypeOK, vars
  <1>2. CASE Next
    BY <1>2, ShellType, SupervisorType, MainTypeOK, ClientTypeOK, UserTypeOK,
       InputTypeOK, OutputTypeOK DEF Next
  <1> QED BY <1>1, <1>2

\* Every variable always has its type: in particular chunks are taken only after
\* they were printed, and no input thread is done with more of a message than
\* there is of it.
THEOREM TypeCorrect == Spec => []TypeOK
  BY InitType, TypeStep, PTL DEF Spec

-----------------------------------------------------------------------------
(* PtyService implements PtyWorker: whatever its clients, its threads and  *)
(* its shell do, it takes the messages of its supervisor one by one and in *)
(* order.                                                                  *)

\* What the supervisor has sent and the main thread has read so far fit together.
HelloFirst == supQ = <<>> \/ (Len(supQ) = 1 /\ supQ[1].type \in {"Hello", "WrongHello"})

TalkInv ==
  /\ main = "handshake" => HelloFirst
  /\ main = "reply" => supQ = <<>>
  /\ sup = "new" => main = "handshake" /\ supQ = <<>>
  /\ sup = "greeted" => main = "handshake" \/ supQ = <<>>
  /\ sup = "greeted" => main \in {"handshake", "reply", "init", "exited"}
  /\ sup = "ready" => /\ main \in {"init", "serve", "exited"}
                      /\ main = "init" => supQ # <<>>
  /\ main = "init" /\ supQ # <<>> => supQ[1].type = "Init"

WorkerInv == TypeOK /\ TalkInv

\* The messages of q as PtyWorker has them.
Said(q) == [i \in DOMAIN q |-> IF q[i].type = "WrongHello" THEN "Hello" ELSE q[i].type]

LEMMA SaidNothing == Said(<<>>) = <<>>
  BY DEF Said

LEMMA SaidMore ==
  ASSUME NEW q \in Seq(SupMsg), NEW m \in SupMsg
  PROVE  /\ Said(q) \in Seq({"Hello", "Init", "NewClient"})
         /\ Said(Append(q, m)) = Append(Said(q), IF m.type = "WrongHello" THEN "Hello" ELSE m.type)
         /\ q # <<>> => Said(q) # <<>>
  <1>1. \A x \in SupMsg : x.type \in {"Hello", "WrongHello", "Init", "NewClient"}
    BY DEF SupMsg
  <1>2. Said(q) \in Seq({"Hello", "Init", "NewClient"}) /\ Len(Said(q)) = Len(q)
    BY <1>1 DEF Said
  <1>3. Said(Append(q, m)) = Append(Said(q), IF m.type = "WrongHello" THEN "Hello" ELSE m.type)
    BY <1>1, <1>2 DEF Said
  <1> QED BY <1>2, <1>3

LEMMA SaidLess ==
  ASSUME NEW q \in Seq(SupMsg), q # <<>>
  PROVE  /\ Said(q) # <<>>
         /\ Head(Said(q)) = IF q[1].type = "WrongHello" THEN "Hello" ELSE q[1].type
         /\ Said(Tail(q)) = Tail(Said(q))
  <1>1. \A x \in SupMsg : x.type \in {"Hello", "WrongHello", "Init", "NewClient"}
    BY DEF SupMsg
  <1>2. Said(q) \in Seq({"Hello", "Init", "NewClient"}) /\ Len(Said(q)) = Len(q)
    BY <1>1 DEF Said
  <1>3. Said(q) # <<>> /\ Head(Said(q)) = Said(q)[1] /\ 1 \in DOMAIN q
    BY <1>2
  <1>4. Said(Tail(q)) = Tail(Said(q))
    BY <1>1, <1>2 DEF Said
  <1> QED BY <1>3, <1>4 DEF Said

-----------------------------------------------------------------------------
(* The supervisor and the main thread.                                     *)

\* Only the supervisor and the main thread touch what is between them.
LEMMA OthersKeepOut ==
  ASSUME [Next]_vars, ~Supervisor, ~Main PROVE UNCHANGED <<main, sup, supQ>>
  <1>1. CASE UNCHANGED vars
    BY <1>1 DEF vars, mainVars, supVars
  <1>2. CASE Shell
    BY <1>2 DEF Shell, ShellPrint, ShellReadKeys, ShellExit, mainVars, supVars
  <1>3. ASSUME NEW c \in Clients, Client(c) \/ User(c) PROVE UNCHANGED <<main, sup, supQ>>
    BY <1>3 DEF Client, ClientHello, ClientType, ClientReceive, ClientEnd, ClientReset, ClientClose,
       User, UserHandshake, UserReply, UserJoinOutput, UserJoinInput, mainVars, supVars
  <1>4. ASSUME NEW c \in Clients, Input(c) \/ Output(c) PROVE UNCHANGED <<main, sup, supQ>>
    BY <1>4 DEF Input, InputReceive, InputWrite, Output, OutputRead, OutputSend, mainVars, supVars
  <1> QED BY <1>1, <1>2, <1>3, <1>4 DEF Next

LEMMA FirstOf ==
  ASSUME NEW q \in Seq(SupMsg), NEW m \in SupMsg
  PROVE  /\ Append(q, m) # <<>>
         /\ q # <<>> => Append(q, m)[1] = q[1] /\ q[1] \in SupMsg /\ Head(q) = q[1]
         /\ q = <<>> => Append(q, m) = <<m>> /\ Append(q, m)[1] = m
  <1>1. Len(Append(q, m)) = Len(q) + 1 /\ Len(q) \in Nat
    OBVIOUS
  <1>2. Append(q, m) # <<>>
    BY <1>1
  <1>3. ASSUME q # <<>> PROVE Append(q, m)[1] = q[1] /\ q[1] \in SupMsg /\ Head(q) = q[1]
    <2>1. 1 \in 1..Len(q)
      BY <1>3
    <2> QED BY <2>1
  <1>4. q = <<>> => Append(q, m) = <<m>> /\ Append(q, m)[1] = m
    OBVIOUS
  <1> QED BY <1>2, <1>3, <1>4

\* A queue of one message has nothing after it.
LEMMA OnlyOne ==
  ASSUME NEW q \in Seq(SupMsg), Len(q) = 1
  PROVE  Tail(q) = <<>> /\ Head(q) = q[1]
  <1>1. q # <<>>
    BY EmptySeq
  <1>2. Len(Tail(q)) = 0 /\ Tail(q) \in Seq(SupMsg)
    BY <1>1, HeadTailProperties
  <1>3. Tail(q) # <<>> => Len(Tail(q)) \in Nat \ {0}
    BY <1>2, EmptySeq, Zenon
  <1>4. Tail(q) = <<>>
    BY <1>2, <1>3
  <1>5. Head(q) = q[1]
    BY <1>1
  <1> QED BY <1>4, <1>5

LEMMA TalkSupervisor == ASSUME WorkerInv, Supervisor PROVE TalkInv'
  <1>1. supQ \in Seq(SupMsg) /\ UNCHANGED main
    BY DEF WorkerInv, TypeOK, SupType, Supervisor, SupHello, SupInit, SupNewClient, SupClose, mainVars
  <1>2. CASE SupHello
    <2>1. PICK hello \in {"Hello", "WrongHello"} : supQ' = Append(supQ, [type |-> hello])
      BY <1>2 DEF SupHello
    <2>2. sup = "new" /\ sup' = "greeted" /\ main = "handshake" /\ supQ = <<>>
      BY <1>2 DEF SupHello, WorkerInv, TalkInv
    <2>3. supQ' = <<[type |-> hello]>>
      BY <2>1, <2>2
    <2> QED BY <1>1, <2>2, <2>3 DEF TalkInv, HelloFirst
  <1>3. CASE SupInit
    <2>1. /\ sup = "greeted" /\ main = "init" /\ sup' = "ready" /\ supQ = <<>>
          /\ supQ' = Append(supQ, [type |-> "Init"])
      BY <1>3 DEF SupInit, WorkerInv, TalkInv
    <2>2. supQ' = <<[type |-> "Init"]>>
      BY <2>1
    <2> QED BY <1>1, <2>1, <2>2 DEF TalkInv
  <1>4. ASSUME NEW c \in Clients, SupNewClient(c) PROVE TalkInv'
    <2>1. PICK m \in SupMsg : supQ' = Append(supQ, m)
      BY <1>4 DEF SupNewClient, SupMsg
    <2>2. sup = "ready" /\ sup' = "ready" /\ main \in {"init", "serve"}
      BY <1>4 DEF SupNewClient, WorkerInv, TalkInv, Alive
    <2>3. supQ' # <<>> /\ (supQ # <<>> => supQ'[1] = supQ[1])
      BY <1>1, <2>1, FirstOf
    <2> QED BY <1>1, <2>2, <2>3 DEF WorkerInv, TalkInv
  <1>5. CASE SupClose
    <2>1. sup' \in {"closed", "aborted"} /\ UNCHANGED supQ
      BY <1>5 DEF SupClose
    <2> QED BY <1>1, <2>1 DEF WorkerInv, TalkInv, HelloFirst
  <1> QED BY <1>2, <1>3, <1>4, <1>5 DEF Supervisor

LEMMA TalkExit == ASSUME WorkerInv, NEW err, Exit(err), sup # "new" PROVE TalkInv'
  <1>1. main' = "exited" /\ supQ' = <<>> /\ UNCHANGED sup
    BY DEF Exit
  <1> QED BY <1>1 DEF TalkInv, WorkerInv

\* What a step of the main thread does: it ends the process, reads the next
\* message, or answers the greeting.
LEMMA MainDoes ==
  ASSUME WorkerInv, Main
  PROVE  /\ UNCHANGED sup /\ sup # "new"
         /\ \/ \E err : Exit(err)
            \/ main = "reply" /\ main' = "init" /\ UNCHANGED supQ
            \/ /\ supQ # <<>> /\ supQ' = Tail(supQ)
               /\ \/ main = "handshake" /\ Head(supQ).type = "Hello" /\ main' = "reply"
                  \/ main = "init" /\ Head(supQ).type = "Init" /\ main' = "serve"
                  \/ main = "serve" /\ Head(supQ).type = "NewClient" /\ main' = "serve"
  <1>1. CASE MainHandshake
    BY <1>1 DEF MainHandshake, SupSays, SupGone, Exit, WorkerInv, TalkInv
  <1>2. CASE MainReply
    BY <1>2 DEF MainReply, AfterReply, Exit, supVars, WorkerInv, TalkInv
  <1>3. CASE MainInit
    BY <1>3 DEF MainInit, MainGone, SupSays, Exit, WorkerInv, TalkInv
  <1>4. CASE MainServe
    BY <1>4 DEF MainServe, MainGone, SupSays, Exit, WorkerInv, TalkInv, mainVars
  <1> QED BY <1>1, <1>2, <1>3, <1>4 DEF Main

LEMMA TalkMain == ASSUME WorkerInv, Main PROVE TalkInv'
  <1>1. supQ \in Seq(SupMsg)
    BY DEF WorkerInv, TypeOK, SupType
  <1>2. CASE \E err : Exit(err)
    BY <1>2, MainDoes, TalkExit
  <1>3. CASE main = "reply" /\ main' = "init" /\ UNCHANGED <<sup, supQ>>
    BY <1>3 DEF WorkerInv, TalkInv
  <1>4. CASE main = "handshake" /\ main' = "reply" /\ supQ # <<>> /\ supQ' = Tail(supQ)
             /\ UNCHANGED sup
    <2>1. supQ' = <<>>
      BY <1>1, <1>4 DEF WorkerInv, TalkInv, HelloFirst
    <2> QED BY <1>4, <2>1 DEF WorkerInv, TalkInv
  <1>5. CASE main \in {"init", "serve"} /\ main' = "serve" /\ supQ # <<>> /\ UNCHANGED sup
    BY <1>5 DEF WorkerInv, TalkInv
  <1> QED BY <1>2, <1>3, <1>4, <1>5, MainDoes

LEMMA WorkerInvInit == Init => WorkerInv
  <1>1. Init => TalkInv
    BY DEF Init, TalkInv, HelloFirst
  <1> QED BY <1>1, InitType DEF WorkerInv

LEMMA WorkerInvStep == WorkerInv /\ [Next]_vars => WorkerInv'
  <1> SUFFICES ASSUME WorkerInv, [Next]_vars PROVE WorkerInv'
    OBVIOUS
  <1>1. TypeOK'
    BY TypeStep DEF WorkerInv
  <1>2. CASE UNCHANGED <<main, sup, supQ>>
    BY <1>1, <1>2 DEF WorkerInv, TalkInv, HelloFirst
  <1>3. TalkInv'
    BY <1>2, OthersKeepOut, TalkSupervisor, TalkMain DEF WorkerInv
  <1> QED BY <1>1, <1>3 DEF WorkerInv

-----------------------------------------------------------------------------
(* The refinement.                                                         *)

\* The functions of PtyWorker have one argument here.
LEMMA OnePty ==
  ASSUME NEW old, NEW new
  PROVE  /\ [w \in {"pty"} |-> old]["pty"] = old
         /\ [w \in {"pty"} |-> new] = [[w \in {"pty"} |-> old] EXCEPT !["pty"] = new]
  OBVIOUS

LEMMA StaysLinked ==
  ASSUME SupOpen
  PROVE  /\ [w \in {"pty"} |-> SupOpen]' \in [{"pty"} -> BOOLEAN]
         /\ \A w \in {"pty"} : [v \in {"pty"} |-> SupOpen]'[w] => [v \in {"pty"} |-> SupOpen][w]
  <1>1. SupOpen' \in BOOLEAN
    BY DEF SupOpen
  <1> QED BY <1>1

LEMMA Takes ==
  ASSUME NEW stage, NEW message, NEW next, Stage = stage, NotTaken # <<>>, Head(NotTaken) = message,
         Stage' = next, NotTaken' = Tail(NotTaken), UNCHANGED SupOpen
  PROVE  Worker!Take("pty", stage, message, next)
  <1>1. /\ [w \in {"pty"} |-> Stage]["pty"] = stage
        /\ [w \in {"pty"} |-> NotTaken]["pty"] # <<>>
        /\ Head([w \in {"pty"} |-> NotTaken]["pty"]) = message
    OBVIOUS
  <1>2. [w \in {"pty"} |-> Stage]' = [[w \in {"pty"} |-> Stage] EXCEPT !["pty"] = next]
    OBVIOUS
  <1>3. [w \in {"pty"} |-> NotTaken]'
          = [[w \in {"pty"} |-> NotTaken] EXCEPT !["pty"] = Tail(@)]
    OBVIOUS
  <1>4. UNCHANGED [w \in {"pty"} |-> SupOpen]
    OBVIOUS
  <1> QED BY <1>1, <1>2, <1>3, <1>4 DEF Worker!Take

LEMMA SupervisorSupervises == ASSUME WorkerInv, Supervisor PROVE Worker!Next
  <1>1. supQ \in Seq(SupMsg) /\ UNCHANGED main /\ SupOpen
    BY DEF WorkerInv, TypeOK, SupType, Supervisor, SupHello, SupInit, SupNewClient, SupClose,
       mainVars, SupOpen
  <1>8. Stage' = Stage
    BY <1>1 DEF Stage
  <1>9. main # "reply" => NotTaken = Said(supQ) /\ NotTaken' = Said(supQ)'
    BY <1>1 DEF NotTaken, Said
  <1>2. ASSUME NEW m \in SupMsg, supQ' = Append(supQ, m), main # "reply",
               NEW message \in {"Hello", "Init", "NewClient"},
               message = IF m.type = "WrongHello" THEN "Hello" ELSE m.type,
               Worker!MayTell("pty", message)
        PROVE  Worker!Next
    <2>1. NotTaken' = Append(NotTaken, message)
      <3>1. Said(supQ)' = Said(Append(supQ, m))
        BY <1>2 DEF Said
      <3> QED BY <1>1, <1>2, <1>9, <3>1, SaidMore
    <2>3. [w \in {"pty"} |-> NotTaken]'
            = [[w \in {"pty"} |-> NotTaken] EXCEPT !["pty"] = Append(@, message)]
      BY <2>1
    <2>4. UNCHANGED [w \in {"pty"} |-> Stage] /\ [w \in {"pty"} |-> SupOpen]["pty"]
      BY <1>1, <1>8
    <2>2. Worker!Supervise
      BY <1>1, <1>2, <2>3, <2>4, StaysLinked DEF Worker!Supervise
    <2> QED BY <2>2 DEF Worker!Next
  <1>3. CASE SupHello
    <2>1. PICK hello \in {"Hello", "WrongHello"} : supQ' = Append(supQ, [type |-> hello])
      BY <1>3 DEF SupHello
    <2>2. main = "handshake" /\ supQ = <<>>
      BY <1>3 DEF SupHello, WorkerInv, TalkInv
    <2>3. Worker!MayTell("pty", "Hello")
      BY <1>1, <1>9, <2>2, SaidNothing DEF Worker!MayTell, Stage
    <2>4. [type |-> hello] \in SupMsg
      BY DEF SupMsg
    <2> QED BY <1>2, <2>1, <2>2, <2>3, <2>4
  <1>4. CASE SupInit
    <2>1. main = "init" /\ supQ = <<>> /\ supQ' = Append(supQ, [type |-> "Init"])
      BY <1>4 DEF SupInit, WorkerInv, TalkInv
    <2>2. Worker!MayTell("pty", "Init")
      BY <1>1, <1>9, <2>1, SaidNothing DEF Worker!MayTell, Stage
    <2>3. [type |-> "Init"] \in SupMsg
      BY DEF SupMsg
    <2> QED BY <1>2, <2>1, <2>2, <2>3
  <1>5. ASSUME NEW c \in Clients, SupNewClient(c) PROVE Worker!Next
    <2>1. PICK m \in SupMsg : supQ' = Append(supQ, m) /\ m.type = "NewClient"
      BY <1>5 DEF SupNewClient, SupMsg
    <2>2. main = "serve" \/ (main = "init" /\ supQ # <<>>)
      BY <1>5 DEF SupNewClient, WorkerInv, TalkInv, Alive
    <2>3. supQ # <<>> => Said(supQ) # <<>>
      BY <1>1, <2>1, SaidMore
    <2>4. Worker!MayTell("pty", "NewClient")
      BY <1>1, <1>9, <2>2, <2>3 DEF Worker!MayTell, Stage
    <2> QED BY <1>2, <2>1, <2>2, <2>4
  <1>6. CASE SupClose
    <2>1. UNCHANGED <<supQ, main>>
      BY <1>6 DEF SupClose, mainVars
    <2>2. NotTaken' = NotTaken
      BY <2>1 DEF NotTaken
    <2>4. UNCHANGED <<[w \in {"pty"} |-> Stage], [w \in {"pty"} |-> NotTaken]>>
      BY <1>8, <2>2
    <2>3. Worker!Supervise
      BY <1>1, <2>4, StaysLinked DEF Worker!Supervise
    <2> QED BY <2>3 DEF Worker!Next
  <1> QED BY <1>3, <1>4, <1>5, <1>6 DEF Supervisor

LEMMA MainServes == ASSUME WorkerInv, Main PROVE [Worker!Next]_(Worker!vars)
  <1>1. supQ \in Seq(SupMsg) /\ UNCHANGED SupOpen
    BY MainDoes DEF WorkerInv, TypeOK, SupType, SupOpen
  <1>2. CASE \E err : Exit(err)
    <2>1. main' = "exited" /\ supQ' = <<>> /\ main # "exited"
      BY <1>2 DEF Exit, Main, MainHandshake, MainReply, MainInit, MainServe
    <2>2. Stage' = "dead" /\ Stage \in {"new", "greeted", "serving"} /\ NotTaken' = <<>>
      BY <2>1 DEF Stage, NotTaken, WorkerInv, TypeOK, MainType
    <2>3. Worker!Stop("pty")
      BY <1>1, <2>2 DEF Worker!Stop, Worker!Live
    <2> QED BY <2>3 DEF Worker!Next
  <1>3. CASE main = "reply" /\ main' = "init" /\ UNCHANGED supQ
    <2>1. supQ = <<>>
      BY <1>3 DEF WorkerInv, TalkInv
    <2>4. Said(supQ) = <<>> /\ Said(supQ)' = <<>>
      BY <1>3, <2>1 DEF Said
    <2>5. NotTaken = <<"Hello">> \o Said(supQ) /\ NotTaken' = Said(supQ)'
      BY <1>3 DEF NotTaken, Said
    <2>6. <<"Hello">> \o <<>> = <<"Hello">>
      OBVIOUS
    <2>2. NotTaken = <<"Hello">> /\ NotTaken' = <<>> /\ Stage = "new" /\ Stage' = "greeted"
      BY <1>3, <2>4, <2>5, <2>6 DEF Stage
    <2>7. Head(<<"Hello">>) = "Hello" /\ Tail(<<"Hello">>) = <<>> /\ <<"Hello">> # <<>>
      OBVIOUS
    <2>3. Worker!Take("pty", "new", "Hello", "greeted")
      BY <1>1, <2>2, <2>7, Takes
    <2> QED BY <2>3 DEF Worker!Next, Worker!Serve
  <1>4. CASE main = "handshake" /\ Head(supQ).type = "Hello" /\ main' = "reply"
             /\ supQ # <<>> /\ supQ' = Tail(supQ)
    <2>1. Len(supQ) = 1 /\ supQ' = <<>> /\ supQ[1].type = "Hello"
      BY <1>1, <1>4, OnlyOne DEF WorkerInv, TalkInv, HelloFirst
    <2>3. Said(supQ) = <<"Hello">> /\ Said(supQ)' = <<>>
      BY <1>1, <2>1 DEF Said
    <2>4. NotTaken = Said(supQ) /\ NotTaken' = <<"Hello">> \o Said(supQ)'
      BY <1>4 DEF NotTaken, Said
    <2>5. <<"Hello">> \o <<>> = <<"Hello">>
      OBVIOUS
    <2>2. NotTaken = <<"Hello">> /\ NotTaken' = <<"Hello">> /\ Stage' = Stage
      BY <1>4, <2>3, <2>4, <2>5 DEF Stage
    <2> QED BY <1>1, <2>2 DEF Worker!vars
  <1>5. CASE /\ supQ # <<>> /\ supQ' = Tail(supQ) /\ main' = "serve"
             /\ \/ main = "init" /\ Head(supQ).type = "Init"
                \/ main = "serve" /\ Head(supQ).type = "NewClient"
    <2>1. /\ NotTaken = Said(supQ) /\ NotTaken' = Said(supQ') /\ Head(supQ) = supQ[1]
          /\ Stage = (IF main = "init" THEN "greeted" ELSE "serving") /\ Stage' = "serving"
      BY <1>1, <1>5 DEF NotTaken, Said, Stage
    <2>2. /\ NotTaken # <<>> /\ NotTaken' = Tail(NotTaken)
          /\ Head(NotTaken) = Head(supQ).type
      BY <1>1, <1>5, <2>1, SaidLess
    <2>3. \/ Worker!Take("pty", "greeted", "Init", "serving")
          \/ Worker!Take("pty", "serving", "NewClient", "serving")
      BY <1>1, <1>5, <2>1, <2>2, Takes
    <2> QED BY <2>3 DEF Worker!Next, Worker!Serve
  <1> QED BY <1>2, <1>3, <1>4, <1>5, MainDoes

LEMMA WorkerStep == WorkerInv /\ [Next]_vars => [Worker!Next]_(Worker!vars)
  <1> SUFFICES ASSUME WorkerInv, [Next]_vars PROVE [Worker!Next]_(Worker!vars)
    OBVIOUS
  <1>1. CASE UNCHANGED <<main, sup, supQ>>
    BY <1>1 DEF Worker!vars, Stage, NotTaken, SupOpen
  <1> QED BY <1>1, OthersKeepOut, SupervisorSupervises, MainServes

\* The process is what the sessions service takes its workers for.
THEOREM ProcessIsAWorker == Spec => IsAWorker
  <1>1. Init => Worker!Init
    BY DEF Init, Worker!Init, Stage, NotTaken, SupOpen
  <1> QED BY <1>1, WorkerInvInit, WorkerInvStep, WorkerStep, PTL DEF Spec, IsAWorker, Worker!Spec
=============================================================================
