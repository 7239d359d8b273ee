---------------------------- MODULE PtyRelayProofs ----------------------------
(***************************************************************************)
(* What PtyService promises of its clients' keyboards, and that it is the  *)
(* relay of Relay, for any number of clients, messages and pieces.         *)
(***************************************************************************)
EXTENDS PtyOutputProofs

\* Before its handshake is over, client c has sent nothing but that, and received
\* nothing.
Greeting(c) ==
  /\ user[c] \in {"none", "hello", "reply"} =>
       typed[c] = 0 /\ got[c] = 0 /\ cli[c] # "up" /\ inp[c] = "off"
  /\ user[c] \in {"none", "hello"} => Len(inbox[c]) <= 1
  /\ user[c] = "reply" => inbox[c] = <<>>
  /\ cli[c] = "new" => inbox[c] = <<>> /\ user[c] # "reply" /\ inp[c] = "off"
  /\ user[c] \in {"joinOut", "joinIn"} => inp[c] # "off"

\* How much of its message the input thread of c has written.
Hand(c) ==
  /\ inp[c] = "off" => inHand[c].n = 0
  /\ inp[c] = "recv" => inHand[c].n = 0 \/ inHand[c].k = Pieces
  /\ inp[c] = "write" => inHand[c].n # 0 /\ inHand[c].k < Pieces

\* What c typed is what its input thread has received and what is on its way, in
\* order.
OnItsWay(c) == Alive /\ inp[c] \in {"recv", "write"} =>
  /\ typed[c] = inHand[c].n + Len(inbox[c])
  /\ \A i \in DOMAIN inbox[c] : inbox[c][i].n = inHand[c].n + i

Typing(c) == Greeting(c) /\ Hand(c) /\ OnItsWay(c)
InputInv == \A c \in Clients : Typing(c)

-----------------------------------------------------------------------------
(* From the client to the input thread.                                    *)

\* A step that takes no message of c but throws away what nobody will read.
LEMMA TypingSame ==
  ASSUME NEW c \in Clients, Typing(c), Alive' => Alive,
         typed'[c] = typed[c], got'[c] = got[c], cli'[c] = cli[c],
         inp'[c] = inp[c], inHand'[c] = inHand[c],
         \/ user'[c] \in {user[c], "done"}
         \/ user[c] = "none" /\ user'[c] = "hello",
         \/ inbox'[c] = inbox[c]
         \/ inbox'[c] = <<>> /\ (~Alive' \/ inp[c] \notin {"recv", "write"})
  PROVE  Typing(c)'
  <1>1. Greeting(c)'
    BY DEF Typing, Greeting
  <1>2. Hand(c)'
    BY DEF Typing, Hand
  <1>3. OnItsWay(c)'
    BY DEF Typing, OnItsWay, Alive
  <1> QED BY <1>1, <1>2, <1>3 DEF Typing

\* What a step leaves alone stays as it is.
LEMMA TypingUnchanged ==
  ASSUME InputInv, UNCHANGED <<typed, got, cli, inp, inHand, user, inbox>>, Alive' => Alive
  PROVE  InputInv'
  BY TypingSame DEF InputInv

LEMMA TypingSupervisor == ASSUME IndInv, InputInv, Supervisor PROVE InputInv'
  <1>1. UNCHANGED <<typed, got, cli, inp, inHand, user, main>>
    BY DEF Supervisor, SupHello, SupInit, SupNewClient, SupClose, mainVars, cliVars, userVars
  <1>2. CASE SupClose
    <2> SUFFICES ASSUME NEW c \in Clients PROVE Typing(c)'
      BY DEF InputInv
    <2>1. srv[c] = "held" => inp[c] = "off"
      BY DEF IndInv, FreshInv, InputInv, Typing, Greeting
    <2>3. inbox'[c] = IF c \in {d \in Clients : srv[d] = "held"} THEN <<>> ELSE inbox[c]
      BY <1>2 DEF SupClose, CloseServer
    <2>2. inbox'[c] = inbox[c] \/ (inbox'[c] = <<>> /\ inp[c] = "off")
      BY <2>1, <2>3
    <2> QED BY <1>1, <2>2, TypingSame DEF InputInv, Alive
  <1>3. CASE UNCHANGED inbox
    BY <1>1, <1>3, TypingUnchanged DEF Alive
  <1> QED BY <1>2, <1>3 DEF Supervisor, SupHello, SupInit, SupNewClient, sockVars

LEMMA TypingMain == ASSUME IndInv, InputInv, Main PROVE InputInv'
  <1>1. UNCHANGED <<typed, got, cli, inp, inHand>> /\ Alive
    BY DEF Main, MainHandshake, MainReply, MainInit, MainServe, MainGone, Exit, Alive, cliVars, userVars
  <1>2. CASE \E err : Exit(err)
    <2>1. UNCHANGED user /\ ~Alive'
      BY <1>2 DEF Exit, Alive, userVars
    <2>2. \A c \in Clients : inbox'[c] \in {inbox[c], <<>>}
      BY <1>2 DEF Exit, CloseServer
    <2> QED BY <1>1, <2>1, <2>2, TypingSame DEF InputInv
  <1>3. CASE UNCHANGED <<user, inbox>>
    BY <1>1, <1>3, TypingUnchanged
  <1>4. CASE MainServe /\ SupSays("NewClient") /\ Head(supQ).seqpacket
    <2>1. /\ supQ # <<>> /\ Head(supQ).type = "NewClient"
          /\ user' = [user EXCEPT ![Head(supQ).client] = "hello"]
          /\ UNCHANGED inbox
      BY <1>4 DEF MainServe, MainGone, SupGone, SupSays
    <2>2. srv[Head(supQ).client] = "queued"
      BY <2>1, TailElement DEF IndInv, TypeOK, SupType, QueueInv
    <2>3. ASSUME NEW c \in Clients PROVE user'[c] = user[c] \/ (user[c] = "none" /\ user'[c] = "hello")
      <3>1. CASE c = Head(supQ).client
        BY <2>1, <2>2, <3>1 DEF IndInv, TypeOK, UserType, FreshInv
      <3>2. CASE c # Head(supQ).client
        BY <2>1, <3>2 DEF IndInv, TypeOK, UserType
      <3> QED BY <3>1, <3>2
    <2> QED BY <1>1, <2>1, <2>3, TypingSame DEF InputInv
  <1> QED BY <1>2, <1>3, <1>4 DEF Main, MainHandshake, MainReply, MainInit, MainServe, MainGone,
          SupGone, SupSays, sockVars, userVars

LEMMA OneLess ==
  ASSUME NEW S, NEW q \in Seq(S), q # <<>>, Len(q) <= 1 PROVE Tail(q) = <<>>
  <1>0. Len(q) \in Nat \ {0}
    BY EmptySeq
  <1>3. Tail(q) \in Seq(S) /\ Len(Tail(q)) = Len(q) - 1
    BY HeadTailProperties
  <1>1. Len(Tail(q)) = 0
    BY <1>0, <1>3
  <1>2. Tail(q) # <<>> => Len(Tail(q)) \in Nat \ {0}
    BY <1>3, EmptySeq, Zenon
  <1> QED BY <1>1, <1>2

LEMMA TypingClient == ASSUME IndInv, InputInv, NEW c \in Clients, Client(c) PROVE InputInv'
  <1>1. UNCHANGED <<main, user, inp, inHand>>
    BY DEF Client, ClientHello, ClientType, ClientReceive, ClientEnd, ClientReset, ClientClose,
           mainVars, userVars
  <1>2. ASSUME NEW d \in Clients, d # c PROVE Typing(d)'
    <2>1. /\ typed'[d] = typed[d] /\ got'[d] = got[d] /\ cli'[d] = cli[d]
          /\ inbox'[d] = inbox[d]
      BY <1>2 DEF Client, ClientHello, ClientType, ClientReceive, ClientEnd, ClientReset, ClientClose,
         CloseClient, sockVars, cliVars, IndInv, TypeOK, CliType, SockType
    <2> QED BY <1>1, <2>1, TypingSame DEF InputInv, Alive
  <1>3. Typing(c)
    BY DEF InputInv
  <1>4. inbox[c] \in Seq(UserMsg) /\ typed[c] \in Nat /\ got[c] \in Nat /\ inHand[c].n \in Nat
    BY BoundsAssumption DEF IndInv, TypeOK, CliType, SockType, UserType
  <1>5. ASSUME ClientHello(c) PROVE Typing(c)'
    <2>1. PICK hello \in {"Hello", "WrongHello"} :
            inbox' = [inbox EXCEPT ![c] = Append(@, [type |-> hello, n |-> 0])]
      BY <1>5 DEF ClientHello
    <2>2. /\ cli[c] = "new" /\ cli'[c] = "waiting" /\ typed'[c] = typed[c] /\ got'[c] = got[c]
          /\ inbox'[c] = Append(inbox[c], [type |-> hello, n |-> 0])
      BY <1>5, <2>1 DEF ClientHello, IndInv, TypeOK, CliType, SockType
    <2>3. inbox[c] = <<>> /\ user[c] # "reply" /\ inp[c] = "off"
      BY <1>3, <2>2 DEF Typing, Greeting
    <2>4. Len(inbox'[c]) = 1
      BY <2>2, <2>3
    <2>5. Greeting(c)'
      BY <1>1, <1>3, <2>2, <2>3, <2>4 DEF Typing, Greeting
    <2>6. Hand(c)' /\ OnItsWay(c)'
      BY <1>1, <1>3, <2>3 DEF Typing, Hand, OnItsWay
    <2> QED BY <2>5, <2>6 DEF Typing
  <1>6. ASSUME ClientType(c) PROVE Typing(c)'
    <2>1. PICK type \in {"Keys", "TooLarge"} :
            inbox' = [inbox EXCEPT ![c] = Append(@, [type |-> type, n |-> typed[c] + 1])]
      BY <1>6 DEF ClientType
    <2>2. typed[c] + 1 \in 0..MaxInputs
      BY <1>6, BoundsAssumption DEF ClientType, IndInv, TypeOK, CliType
    <2> DEFINE m == [type |-> type, n |-> typed[c] + 1]
    <2>3. m \in UserMsg /\ m.n = typed[c] + 1
      BY <2>2 DEF UserMsg
    <2>4. /\ cli[c] = "up" /\ cli'[c] = "up" /\ typed'[c] = typed[c] + 1 /\ got'[c] = got[c]
          /\ inbox'[c] = Append(inbox[c], m)
      BY <1>6, <2>1 DEF ClientType, IndInv, TypeOK, CliType, SockType
    <2> HIDE DEF m
    <2>5. Greeting(c)'
      BY <1>1, <1>3, <2>4 DEF Typing, Greeting
    <2>6. Hand(c)'
      BY <1>1, <1>3 DEF Typing, Hand
    <2>7. OnItsWay(c)'
      <3>1. /\ DOMAIN inbox[c] = 1..Len(inbox[c]) /\ Len(inbox[c]) \in Nat
            /\ DOMAIN inbox'[c] = 1..(Len(inbox[c]) + 1)
            /\ \A i \in DOMAIN inbox[c] : inbox'[c][i] = inbox[c][i]
            /\ inbox'[c][Len(inbox[c]) + 1] = m
        BY <1>4, <2>3, <2>4, AppendElement
      <3>2. Len(inbox'[c]) = Len(inbox[c]) + 1
        BY <1>4, <2>3, <2>4, AppendProperties
      <3> SUFFICES ASSUME Alive, inp[c] \in {"recv", "write"}
                   PROVE  /\ typed'[c] = inHand[c].n + Len(inbox'[c])
                          /\ \A i \in DOMAIN inbox'[c] : inbox'[c][i].n = inHand[c].n + i
        BY <1>1 DEF OnItsWay, Alive
      <3>3. /\ typed[c] = inHand[c].n + Len(inbox[c])
            /\ \A i \in DOMAIN inbox[c] : inbox[c][i].n = inHand[c].n + i
        BY <1>3 DEF Typing, OnItsWay
      <3>4. typed'[c] = inHand[c].n + Len(inbox'[c]) /\ m.n = inHand[c].n + Len(inbox[c]) + 1
        BY <1>4, <2>3, <2>4, <3>1, <3>2, <3>3
      <3>5. ASSUME NEW i \in DOMAIN inbox'[c] PROVE inbox'[c][i].n = inHand[c].n + i
        <4>1. CASE i \in DOMAIN inbox[c]
          BY <3>1, <3>3, <4>1
        <4>2. CASE i = Len(inbox[c]) + 1
          BY <1>4, <3>1, <3>4, <4>2
        <4> QED BY <3>1, <4>1, <4>2
      <3> QED BY <3>4, <3>5
    <2> QED BY <2>5, <2>6, <2>7 DEF Typing
  <1>7. ASSUME ClientReceive(c) PROVE Typing(c)'
    <2>1. /\ cli[c] # "new" /\ cli'[c] = "up" /\ typed'[c] = typed[c]
          /\ inbox'[c] = inbox[c] /\ Len(sent[c]) - got[c] > 0
      BY <1>7 DEF ClientReceive, Unread, sockVars, IndInv, TypeOK, CliType
    <2>2. user[c] \notin {"none", "hello", "reply"}
      <3>1. CASE user[c] \in {"none", "hello", "reply"}
        <4>1. Len(sent[c]) = 0
          BY <3>1 DEF IndInv, FreshInv
        <4>2. got[c] = 0
          BY <1>3, <3>1 DEF Typing, Greeting
        <4> QED BY <2>1, <4>1, <4>2
      <3> QED BY <3>1
    <2> QED BY <1>1, <1>3, <2>1, <2>2 DEF Typing, Greeting, Hand, OnItsWay, Alive
  <1>8. ASSUME ClientEnd(c) \/ ClientReset(c) \/ ClientClose(c) PROVE Typing(c)'
    <2>1. cli'[c] = "closed" /\ typed'[c] = typed[c] /\ inbox'[c] = inbox[c] /\ got'[c] = got[c]
      BY <1>8 DEF ClientEnd, ClientReset, ClientClose, CloseClient, IndInv, TypeOK, CliType
    <2> QED BY <1>1, <1>3, <2>1 DEF Typing, Greeting, Hand, OnItsWay, Alive
  <1> QED BY <1>2, <1>5, <1>6, <1>7, <1>8 DEF Client, InputInv

LEMMA TypingUser == ASSUME IndInv, InputInv, NEW c \in Clients, User(c) PROVE InputInv'
  <1>1. UNCHANGED <<main, typed, got, cli, inHand>>
    BY DEF User, UserHandshake, UserReply, UserJoinOutput, UserJoinInput, mainVars, cliVars
  <1>2. ASSUME NEW d \in Clients, d # c PROVE Typing(d)'
    <2>1. user'[d] = user[d] /\ inp'[d] = inp[d]
      BY <1>2 DEF User, UserHandshake, UserReply, UserJoinOutput, UserJoinInput, UserReturns,
         IndInv, TypeOK, UserType
    <2>2. inbox'[d] = inbox[d]
      BY <1>2 DEF User, UserHandshake, UserReply, UserJoinOutput, UserJoinInput, UserReturns,
         CloseServer, IndInv, TypeOK, SockType
    <2> QED BY <1>1, <2>1, <2>2, TypingSame DEF InputInv, Alive
  <1>3. Typing(c)
    BY DEF InputInv
  <1>4. CASE UserReturns(c) /\ UNCHANGED inp /\ inp[c] \notin {"recv", "write"}
    <2>1. user'[c] = "done" /\ inbox'[c] = <<>>
      BY <1>4 DEF UserReturns, CloseServer, IndInv, TypeOK, UserType
    <2>2. Typing(c)'
      BY <1>1, <1>3, <1>4, <2>1, TypingSame DEF Alive
    <2> QED BY <1>2, <2>2 DEF InputInv
  <1>5. CASE UserHandshake(c)
    <2>1. user[c] = "hello" /\ inp[c] = "off" /\ UNCHANGED inp
      BY <1>3, <1>5 DEF UserHandshake, Typing, Greeting
    <2>2. CASE ~UserReturns(c)
      <3>1. inbox[c] # <<>> /\ user'[c] = "reply" /\ inbox'[c] = Tail(inbox[c])
        BY <1>5, <2>2 DEF UserHandshake, RecvMsg, IndInv, TypeOK, UserType, SockType
      <3>2. inbox[c] \in Seq(UserMsg)
        BY DEF IndInv, TypeOK, SockType
      <3>3. inbox'[c] = <<>>
        BY <1>3, <2>1, <3>1, <3>2, OneLess DEF Typing, Greeting
      <3>4. Typing(c)'
        BY <1>1, <1>3, <2>1, <3>1, <3>3 DEF Typing, Greeting, Hand, OnItsWay
      <3> QED BY <1>2, <3>4 DEF InputInv
    <2> QED BY <1>4, <2>1, <2>2
  <1>6. CASE UserReply(c)
    <2>1. user[c] = "reply" /\ inp[c] = "off" /\ inbox[c] = <<>> /\ typed[c] = 0 /\ cli[c] # "new"
      BY <1>3, <1>6 DEF UserReply, Typing, Greeting
    <2>2. CASE SendFits(c)
      <3>1. user'[c] = "joinOut" /\ inp'[c] = "recv" /\ UNCHANGED inbox
        BY <1>6, <2>2 DEF UserReply, SendFits, IndInv, TypeOK, UserType
      <3>2. inHand[c].n = 0
        BY <1>3, <2>1 DEF Typing, Hand
      <3>3. Typing(c)'
        BY <1>1, <2>1, <3>1, <3>2 DEF Typing, Greeting, Hand, OnItsWay
      <3> QED BY <1>2, <3>3 DEF InputInv
    <2>3. CASE ~SendFits(c)
      BY <1>4, <1>6, <2>1, <2>3 DEF UserReply
    <2> QED BY <2>2, <2>3
  <1>7. CASE UserJoinOutput(c)
    <2>1. user[c] = "joinOut" /\ user'[c] = "joinIn" /\ UNCHANGED <<inp, inbox>>
      BY <1>7 DEF UserJoinOutput, IndInv, TypeOK, UserType
    <2>2. Typing(c)'
      BY <1>1, <1>3, <2>1 DEF Typing, Greeting, Hand, OnItsWay, Alive
    <2> QED BY <1>2, <2>2 DEF InputInv
  <1>8. CASE UserJoinInput(c)
    BY <1>4, <1>8 DEF UserJoinInput, InputEnded
  <1> QED BY <1>5, <1>6, <1>7, <1>8 DEF User

LEMMA TypingInput == ASSUME IndInv, InputInv, NEW c \in Clients, Input(c) PROVE InputInv'
  <1>1. UNCHANGED <<main, typed, got, cli, user>> /\ Alive /\ inp[c] \in {"recv", "write"}
    BY DEF Input, InputReceive, InputWrite, mainVars, cliVars
  <1>2. ASSUME NEW d \in Clients, d # c PROVE Typing(d)'
    <2>1. inp'[d] = inp[d] /\ inHand'[d] = inHand[d] /\ inbox'[d] = inbox[d]
      BY <1>2 DEF Input, InputReceive, InputWrite, sockVars, IndInv, TypeOK, UserType, SockType
    <2> QED BY <1>1, <2>1, TypingSame DEF InputInv, Alive
  <1>3. Typing(c) /\ user[c] \notin {"none", "hello", "reply"} /\ cli[c] # "new"
    BY <1>1 DEF InputInv, Typing, Greeting
  <1>4. inbox[c] \in Seq(UserMsg) /\ inHand[c].n \in Nat /\ inHand[c].k \in 0..Pieces
    BY BoundsAssumption DEF IndInv, TypeOK, SockType, UserType
  <1>5. ASSUME inp'[c] # "off" PROVE Greeting(c)'
    BY <1>1, <1>3, <1>5 DEF Greeting
  <1>6. CASE inp'[c] \in InputEnded
    BY <1>2, <1>5, <1>6 DEF InputInv, Typing, Hand, OnItsWay, InputEnded
  <1>7. CASE InputReceive(c) /\ inp'[c] \notin InputEnded
    <2>1. /\ inbox[c] # <<>> /\ inbox'[c] = Tail(inbox[c])
          /\ inp'[c] = "write" /\ inHand'[c] = [n |-> Head(inbox[c]).n, k |-> 0]
      BY <1>7 DEF InputReceive, RecvMsg, InputEnded, IndInv, TypeOK, UserType, SockType
    <2>2. /\ DOMAIN inbox[c] = 1..Len(inbox[c]) /\ Len(inbox[c]) \in Nat \ {0}
          /\ DOMAIN inbox'[c] = 1..(Len(inbox[c]) - 1) /\ Len(inbox'[c]) = Len(inbox[c]) - 1
          /\ \A i \in DOMAIN inbox'[c] : i + 1 \in DOMAIN inbox[c] /\ inbox'[c][i] = inbox[c][i + 1]
          /\ Head(inbox[c]) = inbox[c][1]
      BY <1>4, <2>1, TailElement, HeadTailProperties
    <2>3. inHand'[c].n = inHand[c].n + 1 /\ inHand'[c].k = 0
      BY <1>1, <1>3, <2>1, <2>2 DEF Typing, OnItsWay
    <2>4. Hand(c)'
      BY <1>4, <2>1, <2>3, BoundsAssumption DEF Hand
    <2>5. OnItsWay(c)'
      <3>1. /\ typed[c] = inHand[c].n + Len(inbox[c])
            /\ \A i \in DOMAIN inbox[c] : inbox[c][i].n = inHand[c].n + i
        BY <1>1, <1>3 DEF Typing, OnItsWay
      <3>2. typed'[c] = inHand'[c].n + Len(inbox'[c])
        <4>1. typed'[c] = typed[c] /\ Len(inbox'[c]) = Len(inbox[c]) - 1 /\ Len(inbox[c]) \in Nat
          BY <1>1, <2>2
        <4>2. inHand'[c].n = inHand[c].n + 1 /\ inHand[c].n \in Nat
          BY <1>4, <2>3
        <4>3. typed[c] = inHand[c].n + Len(inbox[c])
          BY <3>1
        <4> QED BY <4>1, <4>2, <4>3
      <3>3. \A i \in DOMAIN inbox'[c] : inbox'[c][i].n = inHand'[c].n + i
        <4> TAKE i \in DOMAIN inbox'[c]
        <4>1. inbox'[c][i].n = inHand[c].n + (i + 1) /\ i \in Nat
          BY <2>2, <3>1
        <4> QED BY <1>4, <2>3, <4>1
      <3> QED BY <3>2, <3>3 DEF OnItsWay
    <2> QED BY <1>2, <1>5, <2>1, <2>4, <2>5 DEF InputInv, Typing
  <1>8. CASE InputWrite(c) /\ inp'[c] \notin InputEnded
    <2>1. shell
      BY <1>8 DEF InputWrite, InputEnded, IndInv, TypeOK, UserType
    <2>2. PICK m \in 1..(Pieces - inHand[c].k) :
            /\ inHand' = [inHand EXCEPT ![c].k = WrittenAfter(c, m)]
            /\ inp' = IF WrittenAfter(c, m) = Pieces THEN [inp EXCEPT ![c] = AfterMessage] ELSE inp
      BY <1>8, <2>1 DEF InputWrite
    <2>3. /\ inHand'[c].n = inHand[c].n /\ inHand'[c].k = inHand[c].k + m
          /\ inp'[c] = IF inHand[c].k + m = Pieces THEN "recv" ELSE "write"
          /\ inp[c] = "write" /\ UNCHANGED inbox
      BY <1>8, <2>2 DEF InputWrite, sockVars, WrittenAfter, AfterMessage, IndInv, TypeOK, UserType
    <2>4. inHand[c].k + m <= Pieces
      BY <1>4, <2>2, BoundsAssumption
    <2>5. Hand(c)'
      <3>1. inHand[c].n # 0
        BY <1>3, <2>3 DEF Typing, Hand
      <3>2. inHand[c].k + m # Pieces => inHand[c].k + m < Pieces
        BY <1>4, <2>4, BoundsAssumption
      <3> QED BY <2>3, <3>1, <3>2 DEF Hand
    <2>6. OnItsWay(c)'
      BY <1>1, <1>3, <2>3 DEF Typing, OnItsWay, Alive
    <2> QED BY <1>2, <1>5, <2>3, <2>5, <2>6 DEF InputInv, Typing
  <1> QED BY <1>6, <1>7, <1>8 DEF Input

LEMMA InputInvInit == Init => InputInv
  BY BoundsAssumption DEF Init, InputInv, Typing, Greeting, Hand, OnItsWay

LEMMA InputInvStep == IndInv /\ InputInv /\ [Next]_vars => InputInv'
  <1> SUFFICES ASSUME IndInv, InputInv, [Next]_vars PROVE InputInv'
    OBVIOUS
  <1>1. CASE UNCHANGED vars \/ Shell \/ \E c \in Clients : Output(c)
    <2>1. UNCHANGED <<main, typed, got, cli, inp, inHand, user, inbox>>
      BY <1>1 DEF vars, Shell, ShellPrint, ShellReadKeys, ShellExit, Output, OutputRead, OutputSend,
         mainVars, cliVars, sockVars, userVars
    <2> QED BY <2>1, TypingUnchanged DEF Alive
  <1> QED BY <1>1, TypingSupervisor, TypingMain, TypingClient, TypingUser, TypingInput DEF Next

-----------------------------------------------------------------------------
(* From the input thread to the shell.                                     *)

\* The shell was given exactly the places of what the input thread of a client has
\* written, each once, in order.
KeyInv ==
  /\ \A j \in DOMAIN keys : Place(keys[j]) \in 1..Written(keys[j][1])
  /\ \A i, j \in DOMAIN keys :
       i < j /\ keys[i][1] = keys[j][1] => Place(keys[i]) < Place(keys[j])
  /\ \A c \in Clients : \A p \in 1..Written(c) :
       \E j \in DOMAIN keys : keys[j][1] = c /\ Place(keys[j]) = p

LEMMA Product == ASSUME NEW a \in Nat, NEW b \in Nat PROVE a * b \in Nat
  OBVIOUS

\* A whole message is Pieces places.
LEMMA WholeMessage ==
  ASSUME NEW n \in Nat PROVE ((n + 1) - 1) * Pieces = (n - 1) * Pieces + Pieces
  BY BoundsAssumption

LEMMA WrittenType == ASSUME TypeOK, NEW c \in Clients PROVE Written(c) \in Nat
  <1>1. inHand[c].n \in Nat /\ inHand[c].k \in Nat /\ Pieces \in Nat
    BY BoundsAssumption DEF TypeOK, UserType
  <1>2. inHand[c].n # 0 => (inHand[c].n - 1) * Pieces \in Nat
    BY <1>1, Product
  <1> QED BY <1>1, <1>2 DEF Written

LEMMA KeysType ==
  ASSUME TypeOK
  PROVE  /\ Len(keys) \in Nat /\ DOMAIN keys = 1..Len(keys)
         /\ \A j \in DOMAIN keys : keys[j][1] \in Clients /\ Place(keys[j]) \in Int
  <1>1. keys \in Seq(Clients \X (0..MaxInputs) \X (1..Pieces))
    BY DEF TypeOK, PtyType
  <1>2. Len(keys) \in Nat /\ DOMAIN keys = 1..Len(keys)
    BY <1>1
  <1>3. ASSUME NEW j \in DOMAIN keys PROVE keys[j][1] \in Clients /\ Place(keys[j]) \in Int
    <2>1. keys[j] \in Clients \X (0..MaxInputs) \X (1..Pieces)
      BY <1>1, <1>2
    <2>2. keys[j][2] \in Int /\ keys[j][3] \in Int /\ Pieces \in Int
      BY <2>1, BoundsAssumption
    <2>3. (keys[j][2] - 1) * Pieces \in Int
      BY <2>2
    <2> QED BY <2>1, <2>2, <2>3 DEF Place
  <1> QED BY <1>2, <1>3

\* Receiving a message writes nothing.
LEMMA ReceivedIsNotWritten ==
  ASSUME IndInv, InputInv, NEW c \in Clients, InputReceive(c)
  PROVE  \A d \in Clients : Written(d)' = Written(d)
  <1>1. CASE UNCHANGED inHand
    BY <1>1 DEF Written
  <1>2. CASE ~UNCHANGED inHand
    <2>1. /\ inbox[c] # <<>> /\ Alive /\ inp[c] = "recv"
          /\ inHand' = [inHand EXCEPT ![c] = [n |-> Head(inbox[c]).n, k |-> 0]]
      BY <1>2 DEF InputReceive, RecvMsg
    <2>2. Head(inbox[c]) = inbox[c][1] /\ 1 \in DOMAIN inbox[c]
      BY <2>1, TailElement DEF IndInv, TypeOK, SockType
    <2>3. Head(inbox[c]).n = inHand[c].n + 1
      BY <2>1, <2>2 DEF InputInv, Typing, OnItsWay
    <2>4. inHand'[c].n = inHand[c].n + 1 /\ inHand'[c].k = 0
      BY <2>1, <2>3 DEF IndInv, TypeOK, UserType
    <2>5. inHand[c].n \in Nat /\ inHand[c].k \in Nat
      BY BoundsAssumption DEF IndInv, TypeOK, UserType
    <2>6. inHand[c].n = 0 \/ inHand[c].k = Pieces
      BY <2>1 DEF InputInv, Typing, Hand
    <2>7. Written(c)' = ((inHand[c].n + 1) - 1) * Pieces
      <3>1. inHand'[c].n # 0
        BY <2>4, <2>5
      <3>2. ((inHand[c].n + 1) - 1) * Pieces \in Int
        BY <2>5, BoundsAssumption
      <3> QED BY <2>4, <3>1, <3>2 DEF Written
    <2>8. Written(c)' = Written(c)
      <3>1. CASE inHand[c].n = 0
        BY <2>7, <3>1, BoundsAssumption DEF Written
      <3>2. CASE inHand[c].n # 0
        BY <2>5, <2>6, <2>7, <3>2, WholeMessage DEF Written
      <3> QED BY <3>1, <3>2
    <2>9. ASSUME NEW d \in Clients, d # c PROVE Written(d)' = Written(d)
      BY <2>1, <2>9 DEF Written, IndInv, TypeOK, UserType
    <2> QED BY <2>8, <2>9
  <1> QED BY <1>1, <1>2

\* A write gives the shell the next m places.
LEMMA WriteGivesNext ==
  ASSUME IndInv, InputInv, NEW c \in Clients, InputWrite(c), shell
  PROVE  \E m \in 1..Pieces :
           /\ inHand[c].n # 0 /\ inHand[c].k + m <= Pieces
           /\ Written(c)' = Written(c) + m
           /\ \A d \in Clients \ {c} : Written(d)' = Written(d)
           /\ DOMAIN keys' = 1..(Len(keys) + m)
           /\ \A j \in DOMAIN keys : keys'[j] = keys[j]
           /\ \A i \in 1..m : /\ keys'[Len(keys) + i][1] = c
                              /\ Place(keys'[Len(keys) + i]) = Written(c) + i
  <1>1. PICK m \in 1..(Pieces - inHand[c].k) :
          /\ keys' = keys \o [i \in 1..m |-> <<c, inHand[c].n, inHand[c].k + i>>]
          /\ inHand' = [inHand EXCEPT ![c].k = WrittenAfter(c, m)]
    BY DEF InputWrite
  <1>2. inHand[c].n \in Nat /\ inHand[c].k \in 0..Pieces /\ Pieces \in Nat
    BY BoundsAssumption DEF IndInv, TypeOK, UserType
  <1>3. m \in 1..Pieces /\ inHand[c].k + m <= Pieces
    BY <1>1, <1>2
  <1>4. inHand[c].n # 0
    BY DEF InputWrite, InputInv, Typing, Hand
  <1> DEFINE base == (inHand[c].n - 1) * Pieces
             new == [i \in 1..m |-> <<c, inHand[c].n, inHand[c].k + i>>]
  <1>5. base \in Int
    BY <1>2
  <1>6. Written(c) = base + inHand[c].k
    BY <1>4 DEF Written
  <1>7. inHand'[c].n = inHand[c].n /\ inHand'[c].k = inHand[c].k + m
    BY <1>1 DEF WrittenAfter, IndInv, TypeOK, UserType
  <1>8. Written(c)' = base + (inHand[c].k + m)
    BY <1>4, <1>7 DEF Written
  <1>9. \A d \in Clients \ {c} : Written(d)' = Written(d)
    BY <1>1 DEF Written, IndInv, TypeOK, UserType
  <1>10. Len(keys) \in Nat /\ DOMAIN keys = 1..Len(keys)
    BY KeysType DEF IndInv
  <1>11. /\ DOMAIN keys' = 1..(Len(keys) + m)
         /\ \A j \in DOMAIN keys : keys'[j] = keys[j]
         /\ \A i \in 1..m : keys'[Len(keys) + i] = <<c, inHand[c].n, inHand[c].k + i>>
    <2>1. new \in Seq(Clients \X Nat \X Nat) /\ Len(new) = m
      BY <1>2, <1>3
    <2>2. keys \in Seq(Clients \X Nat \X Nat)
      BY BoundsAssumption DEF IndInv, TypeOK, PtyType
    <2>3. \A i \in 1..m : new[i] = <<c, inHand[c].n, inHand[c].k + i>>
      OBVIOUS
    <2> HIDE DEF new
    <2>4. /\ keys \o new \in Seq(Clients \X Nat \X Nat)
          /\ Len(keys \o new) = Len(keys) + m
          /\ \A i \in 1..(Len(keys) + m) :
               (keys \o new)[i] = IF i <= Len(keys) THEN keys[i] ELSE new[i - Len(keys)]
      BY <2>1, <2>2, ConcatProperties
    <2>5. keys' = keys \o new
      BY <1>1 DEF new
    <2>6. DOMAIN keys' = 1..(Len(keys) + m)
      BY <2>4, <2>5
    <2>7. \A j \in DOMAIN keys : keys'[j] = keys[j]
      BY <1>3, <1>10, <2>4, <2>5
    <2>8. ASSUME NEW i \in 1..m PROVE keys'[Len(keys) + i] = new[i]
      <3>1. Len(keys) + i \in 1..(Len(keys) + m) /\ ~(Len(keys) + i <= Len(keys))
            /\ (Len(keys) + i) - Len(keys) = i
        BY <1>3, <1>10
      <3> QED BY <2>4, <2>5, <3>1
    <2> QED BY <2>3, <2>6, <2>7, <2>8
  <1>12. ASSUME NEW i \in 1..m
         PROVE  /\ keys'[Len(keys) + i][1] = c
                /\ Place(keys'[Len(keys) + i]) = Written(c) + i
    <2>1. keys'[Len(keys) + i] = <<c, inHand[c].n, inHand[c].k + i>>
      BY <1>11
    <2>2. Place(<<c, inHand[c].n, inHand[c].k + i>>) = base + (inHand[c].k + i)
      BY DEF Place
    <2> HIDE DEF base
    <2>3. base + (inHand[c].k + i) = (base + inHand[c].k) + i
      BY <1>2, <1>5
    <2> QED BY <1>6, <2>1, <2>2, <2>3
  <1>13. Written(c)' = Written(c) + m
    <2> HIDE DEF base
    <2> QED BY <1>2, <1>3, <1>5, <1>6, <1>8
  <1> QED BY <1>3, <1>4, <1>9, <1>11, <1>12, <1>13

LEMMA KeyStep == IndInv /\ InputInv /\ KeyInv /\ [Next]_vars => KeyInv'
  <1> SUFFICES ASSUME IndInv, InputInv, KeyInv, [Next]_vars PROVE KeyInv'
    OBVIOUS
  <1>1. /\ Len(keys) \in Nat /\ DOMAIN keys = 1..Len(keys)
        /\ \A j \in DOMAIN keys : keys[j][1] \in Clients /\ Place(keys[j]) \in Int
    BY KeysType DEF IndInv
  <1>2. CASE UNCHANGED keys /\ \A c \in Clients : Written(c)' = Written(c)
    BY <1>1, <1>2 DEF KeyInv, Place
  <1>3. CASE UNCHANGED <<keys, inHand>>
    BY <1>2, <1>3 DEF Written
  <1>4. ASSUME NEW c \in Clients, InputReceive(c) PROVE KeyInv'
    BY <1>2, <1>4, ReceivedIsNotWritten DEF InputReceive, ptyVars
  <1>5. ASSUME NEW c \in Clients, InputWrite(c), ~shell PROVE KeyInv'
    BY <1>3, <1>5 DEF InputWrite
  <1>6. ASSUME NEW c \in Clients, InputWrite(c), shell PROVE KeyInv'
    <2>1. PICK m \in 1..Pieces :
            /\ Written(c)' = Written(c) + m
            /\ \A d \in Clients \ {c} : Written(d)' = Written(d)
            /\ DOMAIN keys' = 1..(Len(keys) + m)
            /\ \A j \in DOMAIN keys : keys'[j] = keys[j]
            /\ \A i \in 1..m : /\ keys'[Len(keys) + i][1] = c
                               /\ Place(keys'[Len(keys) + i]) = Written(c) + i
      BY <1>6, WriteGivesNext
    <2>2. m \in Nat /\ Written(c) \in Nat
      BY BoundsAssumption, WrittenType DEF IndInv
    <2>3. \A j \in DOMAIN keys' : j \in DOMAIN keys \/ \E i \in 1..m : j = Len(keys) + i
      <3> TAKE j \in DOMAIN keys'
      <3>1. j \notin DOMAIN keys => j - Len(keys) \in 1..m /\ j = Len(keys) + (j - Len(keys))
        BY <1>1, <2>1, <2>2
      <3> QED BY <3>1
    <2>4. \A j \in DOMAIN keys : Place(keys'[j]) = Place(keys[j]) /\ keys'[j][1] = keys[j][1]
      BY <2>1
    <2>5. ASSUME NEW j \in DOMAIN keys' PROVE Place(keys'[j]) \in 1..(Written(keys[j][1])')
      <3>1. CASE j \in DOMAIN keys
        <4>1. Place(keys[j]) \in 1..Written(keys[j][1])
          BY <3>1 DEF KeyInv
        <4>2. CASE keys[j][1] = c
          <5>1. Place(keys[j]) \in 1..(Written(c) + m)
            BY <2>2, <4>1, <4>2
          <5>2. Written(keys[j][1])' = Written(c) + m
            BY <2>1, <2>4, <3>1, <4>2 DEF Written
          <5> QED BY <2>4, <3>1, <5>1, <5>2
        <4>3. CASE keys[j][1] # c
          <5>1. Written(keys[j][1])' = Written(keys[j][1])
            BY <1>1, <2>1, <2>4, <3>1, <4>3 DEF Written
          <5> QED BY <2>4, <3>1, <4>1, <5>1
        <4> QED BY <4>2, <4>3
      <3>2. ASSUME NEW i \in 1..m, j = Len(keys) + i
            PROVE  Place(keys'[j]) \in 1..(Written(keys[j][1])')
        <4>1. Place(keys'[j]) = Written(c) + i /\ keys'[j][1] = c
          BY <2>1, <3>2
        <4>2. Written(keys[j][1])' = Written(c) + m
          BY <2>1, <4>1 DEF Written
        <4> QED BY <2>2, <4>1, <4>2
      <3> QED BY <2>3, <3>1, <3>2
    <2>6. ASSUME NEW i \in DOMAIN keys', NEW j \in DOMAIN keys', i < j, keys'[i][1] = keys'[j][1]
          PROVE  Place(keys'[i]) < Place(keys'[j])
      <3>1. CASE j \in DOMAIN keys
        <4>1. i \in DOMAIN keys
          BY <1>1, <2>1, <2>2, <2>6, <3>1
        <4> QED BY <2>4, <2>6, <3>1, <4>1 DEF KeyInv
      <3>2. ASSUME NEW b \in 1..m, j = Len(keys) + b PROVE Place(keys'[i]) < Place(keys'[j])
        <4>1. Place(keys'[j]) = Written(c) + b /\ keys'[j][1] = c
          BY <2>1, <3>2
        <4>2. CASE i \in DOMAIN keys
          <5>1. Place(keys'[i]) \in 1..Written(c)
            BY <2>4, <2>6, <4>1, <4>2 DEF KeyInv
          <5> QED BY <2>2, <4>1, <5>1
        <4>3. ASSUME NEW a \in 1..m, i = Len(keys) + a PROVE Place(keys'[i]) < Place(keys'[j])
          <5>1. Place(keys'[i]) = Written(c) + a
            BY <2>1, <4>3
          <5>2. a < b
            BY <1>1, <2>2, <2>6, <3>2, <4>3
          <5> QED BY <2>2, <4>1, <5>1, <5>2
        <4> QED BY <2>3, <4>2, <4>3
      <3> QED BY <2>3, <3>1, <3>2
    <2>7. ASSUME NEW d \in Clients, NEW p \in 1..(Written(d)')
          PROVE  \E j \in DOMAIN keys' : keys'[j][1] = d /\ Place(keys'[j]) = p
      <3>1. CASE p \in 1..Written(d)
        <4>1. PICK j \in DOMAIN keys : keys[j][1] = d /\ Place(keys[j]) = p
          BY <3>1 DEF KeyInv
        <4>2. j \in DOMAIN keys'
          BY <1>1, <2>1, <2>2
        <4> QED BY <2>4, <4>1, <4>2
      <3>2. CASE p \notin 1..Written(d)
        <4>1. d = c
          BY <2>1, <3>2
        <4>2. p - Written(c) \in 1..m /\ p = Written(c) + (p - Written(c))
          BY <2>1, <2>2, <3>2, <4>1
        <4>3. Len(keys) + (p - Written(c)) \in DOMAIN keys'
          BY <1>1, <2>1, <2>2, <4>2
        <4> QED BY <2>1, <4>1, <4>2, <4>3
      <3> QED BY <3>1, <3>2
    <2>8. \A j : Place(keys[j])' = Place(keys'[j])
      BY DEF Place
    <2> QED BY <2>5, <2>6, <2>7, <2>8 DEF KeyInv
  <1>7. CASE ~\E c \in Clients : Input(c)
    BY <1>3, <1>7 DEF Next, vars, Shell, ShellPrint, ShellReadKeys, ShellExit, Supervisor, SupHello,
       SupInit, SupNewClient, SupClose, Client, ClientHello, ClientType, ClientReceive, ClientEnd,
       ClientReset, ClientClose, Main, MainHandshake, MainReply, MainInit, MainServe, MainGone, Exit,
       User, UserHandshake, UserReply, UserJoinOutput, UserJoinInput, Output, OutputRead, OutputSend,
       ptyVars, userVars
  <1> QED BY <1>4, <1>5, <1>6, <1>7 DEF Input

\* Whatever the PTY and the other clients do, the shell is given a prefix of what
\* each client typed.
THEOREM KeysArriveInOrder == Spec => []KeysInOrder
  <1>1. Init => KeyInv
    BY DEF Init, KeyInv, Written
  <1>2. TypeOK /\ KeyInv => KeysInOrder
    <2> SUFFICES ASSUME TypeOK, KeyInv,
                        NEW j \in DOMAIN keys, NEW p \in 1..(Place(keys[j]) - 1)
                 PROVE  \E i \in 1..(j - 1) : keys[i][1] = keys[j][1] /\ Place(keys[i]) = p
      BY DEF KeysInOrder, KeyInv
    <2>1. /\ Len(keys) \in Nat /\ DOMAIN keys = 1..Len(keys)
          /\ keys[j][1] \in Clients /\ Place(keys[j]) \in Int
      BY KeysType
    <2>2. Place(keys[j]) \in 1..Written(keys[j][1]) /\ Written(keys[j][1]) \in Nat
      BY <2>1, WrittenType DEF KeyInv
    <2>3. p \in 1..Written(keys[j][1])
      BY <2>1, <2>2
    <2>4. PICK i \in DOMAIN keys : keys[i][1] = keys[j][1] /\ Place(keys[i]) = p
      BY <2>1, <2>3 DEF KeyInv
    <2>5. p < Place(keys[j])
      BY <2>1
    <2>6. ~(j < i) /\ i # j
      BY <2>1, <2>4, <2>5 DEF KeyInv
    <2>7. i \in 1..(j - 1)
      BY <2>1, <2>6
    <2> QED BY <2>4, <2>7
  <1> QED BY <1>1, <1>2, InputInvInit, InputInvStep, KeyStep, IndInit, IndStep, PTL DEF Spec, IndInv

-----------------------------------------------------------------------------
(* The relay.                                                              *)

\* An output thread starts after the handshake reply.  The chunk one ends with is
\* in no stream and in no other thread's hand.
LossInv ==
  /\ \A c \in Clients : out[c] # "off" => sent[c] # <<>>
  /\ \A d \in Clients : out[d] = "SendError" =>
       /\ outHand[d] \in 1..taken
       /\ \A c \in Clients \ {d} : out[c] \in {"send", "SendError"} => outHand[c] # outHand[d]
       /\ \A c \in Clients : \A i \in DOMAIN sent[c] : sent[c][i] # outHand[d]

LEMMA LossSame == ASSUME LossInv, UNCHANGED <<out, outHand, sent, taken>> PROVE LossInv'
  BY DEF LossInv

\* The messages to c grow by one.
LEMMA OneMoreSent ==
  ASSUME TypeOK, NEW c \in Clients, NEW m \in {0} \cup Chunks,
         sent' = [sent EXCEPT ![c] = Append(@, m)]
  PROVE  /\ \A d \in Clients \ {c} : sent'[d] = sent[d]
         /\ sent'[c] = Append(sent[c], m) /\ sent'[c] # <<>>
         /\ \A i \in DOMAIN sent'[c] :
              sent'[c][i] = m \/ (i \in DOMAIN sent[c] /\ sent'[c][i] = sent[c][i])
  <1>1. sent[c] \in Seq({0} \cup Chunks)
    BY DEF TypeOK, SockType
  <1>2. (\A d \in Clients \ {c} : sent'[d] = sent[d]) /\ sent'[c] = Append(sent[c], m)
    BY DEF TypeOK, SockType
  <1>3. /\ DOMAIN sent[c] = 1..Len(sent[c]) /\ Len(sent[c]) \in Nat
        /\ DOMAIN sent'[c] = 1..(Len(sent[c]) + 1)
        /\ \A i \in DOMAIN sent[c] : sent'[c][i] = sent[c][i]
        /\ sent'[c][Len(sent[c]) + 1] = m
    BY <1>1, <1>2, AppendElement
  <1>4. sent'[c] # <<>>
    BY <1>1, <1>2, AppendProperties
  <1>5. \A i \in DOMAIN sent'[c] : i \in DOMAIN sent[c] \/ i = Len(sent[c]) + 1
    BY <1>3
  <1> QED BY <1>2, <1>3, <1>4, <1>5

LEMMA LossOutput == ASSUME IndInv, LossInv, NEW c \in Clients, Output(c) PROVE LossInv'
  <1>1. taken \in Nat
    BY BoundsAssumption DEF IndInv, TypeOK, PtyType
  <1>2. \A d \in Clients \ {c} : out'[d] = out[d] /\ outHand'[d] = outHand[d]
    BY DEF Output, OutputRead, OutputSend, IndInv, TypeOK, UserType
  <1>3. out[c] \in {"read", "send"} /\ sent[c] # <<>>
    BY DEF Output, OutputRead, OutputSend, LossInv
  <1>4. CASE OutputRead(c)
    <2>1. /\ UNCHANGED sent
          /\ \/ taken' = taken + 1 /\ outHand'[c] = taken + 1 /\ out'[c] = "send"
             \/ taken' = taken /\ out'[c] = "Eio"
      BY <1>4 DEF OutputRead, NextChunk, sockVars, IndInv, TypeOK, UserType
    <2>2. \A d \in Clients : out'[d] = "SendError" => d # c /\ out[d] = "SendError" /\ outHand[d] <= taken
      BY <1>1, <1>2, <2>1 DEF LossInv
    <2>3. ASSUME NEW d \in Clients, out'[d] = "SendError",
                 NEW e \in Clients \ {d}, out'[e] \in {"send", "SendError"}
          PROVE  outHand'[e] # outHand'[d]
      <3>1. CASE e = c
        BY <1>1, <1>2, <2>1, <2>2, <2>3, <3>1 DEF LossInv
      <3>2. CASE e # c
        BY <1>2, <2>2, <2>3, <3>2 DEF LossInv
      <3> QED BY <3>1, <3>2
    <2>4. ASSUME NEW d \in Clients, out'[d] = "SendError"
          PROVE  /\ outHand'[d] \in 1..taken'
                 /\ \A e \in Clients : \A i \in DOMAIN sent'[e] : sent'[e][i] # outHand'[d]
      BY <1>1, <1>2, <2>1, <2>2, <2>4 DEF LossInv
    <2>5. \A d \in Clients : out'[d] # "off" => sent'[d] # <<>>
      BY <1>2, <1>3, <2>1 DEF LossInv
    <2> QED BY <2>3, <2>4, <2>5 DEF LossInv
  <1>5. CASE OutputSend(c) /\ SendFits(c)
    <2>1. /\ out[c] = "send" /\ out'[c] = "read" /\ UNCHANGED <<taken, outHand>>
          /\ sent' = [sent EXCEPT ![c] = Append(@, outHand[c])]
      BY <1>5 DEF OutputSend, SendFits, ptyVars, IndInv, TypeOK, UserType
    <2>2. outHand[c] \in {0} \cup Chunks
      BY DEF IndInv, TypeOK, UserType
    <2>3. /\ \A d \in Clients \ {c} : sent'[d] = sent[d]
          /\ sent'[c] # <<>>
          /\ \A i \in DOMAIN sent'[c] :
               sent'[c][i] = outHand[c] \/ (i \in DOMAIN sent[c] /\ sent'[c][i] = sent[c][i])
      BY <2>1, <2>2, OneMoreSent DEF IndInv
    <2>4. \A d \in Clients : out'[d] = "SendError" => d # c /\ out[d] = "SendError"
      BY <1>2, <2>1
    <2>5. ASSUME NEW d \in Clients, out'[d] = "SendError"
          PROVE  /\ outHand'[d] \in 1..taken'
                 /\ \A e \in Clients \ {d} : out'[e] \in {"send", "SendError"} => outHand'[e] # outHand'[d]
      BY <1>2, <2>1, <2>4, <2>5 DEF LossInv
    <2>6. ASSUME NEW d \in Clients, out'[d] = "SendError", NEW e \in Clients, NEW i \in DOMAIN sent'[e]
          PROVE  sent'[e][i] # outHand'[d]
      <3>1. CASE e = c
        BY <2>1, <2>3, <2>4, <2>6, <3>1 DEF LossInv
      <3>2. CASE e # c
        BY <2>1, <2>3, <2>4, <2>6, <3>2 DEF LossInv
      <3> QED BY <3>1, <3>2
    <2>7. \A d \in Clients : out'[d] # "off" => sent'[d] # <<>>
      BY <1>2, <2>3 DEF LossInv
    <2> QED BY <2>5, <2>6, <2>7 DEF LossInv
  <1>6. CASE OutputSend(c) /\ ~SendFits(c)
    <2>1. out[c] = "send" /\ out'[c] = "SendError" /\ UNCHANGED <<taken, outHand, sent>>
      BY <1>6 DEF OutputSend, AfterFailedSend, ptyVars, IndInv, TypeOK, UserType
    <2>2. /\ outHand[c] \in 1..taken
          /\ \A i \in DOMAIN sent[c] : sent[c][i] < outHand[c]
          /\ \A d \in Clients \ {c} : /\ \A i \in DOMAIN sent[d] : sent[d][i] # outHand[c]
                                      /\ out[d] = "send" => outHand[d] # outHand[c]
      BY <2>1 DEF IndInv, StreamInv, HandInv
    <2>3. \A i \in DOMAIN sent[c] : sent[c][i] # outHand[c]
      <3>1. outHand[c] \in Nat
        BY <1>1, <2>2
      <3> QED BY <2>2, <3>1
    <2>4. ASSUME NEW d \in Clients, out'[d] = "SendError"
          PROVE  /\ outHand'[d] \in 1..taken'
                 /\ \A e \in Clients : \A i \in DOMAIN sent'[e] : sent'[e][i] # outHand'[d]
      BY <1>2, <2>1, <2>2, <2>3, <2>4 DEF LossInv
    <2>5. ASSUME NEW d \in Clients, out'[d] = "SendError",
                 NEW e \in Clients \ {d}, out'[e] \in {"send", "SendError"}
          PROVE  outHand'[e] # outHand'[d]
      <3>1. CASE d = c
        BY <1>2, <2>1, <2>2, <2>5, <3>1 DEF LossInv
      <3>2. CASE d # c
        BY <1>2, <2>1, <2>5, <3>2 DEF LossInv
      <3> QED BY <3>1, <3>2
    <2>6. \A d \in Clients : out'[d] # "off" => sent'[d] # <<>>
      BY <1>2, <1>3, <2>1 DEF LossInv
    <2> QED BY <2>4, <2>5, <2>6 DEF LossInv
  <1> QED BY <1>4, <1>5, <1>6 DEF Output

\* The handshake reply is no chunk.
LEMMA LossReply ==
  ASSUME IndInv, LossInv, NEW c \in Clients, UserReply(c), SendFits(c) PROVE LossInv'
  <1>1. /\ sent' = [sent EXCEPT ![c] = Append(@, 0)] /\ UNCHANGED <<taken, outHand>>
        /\ out'[c] = "read" /\ \A d \in Clients \ {c} : out'[d] = out[d]
    BY DEF UserReply, SendFits, ptyVars, IndInv, TypeOK, UserType
  <1>2. /\ \A d \in Clients \ {c} : sent'[d] = sent[d]
        /\ sent'[c] # <<>>
        /\ \A i \in DOMAIN sent'[c] :
             sent'[c][i] = 0 \/ (i \in DOMAIN sent[c] /\ sent'[c][i] = sent[c][i])
    BY <1>1, OneMoreSent DEF IndInv
  <1>3. \A d \in Clients : out'[d] = "SendError" => d # c /\ out[d] = "SendError" /\ outHand[d] # 0
    BY <1>1 DEF LossInv
  <1>4. ASSUME NEW d \in Clients, out'[d] = "SendError"
        PROVE  /\ outHand'[d] \in 1..taken'
               /\ \A e \in Clients \ {d} : out'[e] \in {"send", "SendError"} => outHand'[e] # outHand'[d]
    BY <1>1, <1>3, <1>4 DEF LossInv
  <1>5. ASSUME NEW d \in Clients, out'[d] = "SendError", NEW e \in Clients, NEW i \in DOMAIN sent'[e]
        PROVE  sent'[e][i] # outHand'[d]
    <2>1. CASE e = c
      BY <1>1, <1>2, <1>3, <1>5, <2>1 DEF LossInv
    <2>2. CASE e # c
      BY <1>1, <1>2, <1>3, <1>5, <2>2 DEF LossInv
    <2> QED BY <2>1, <2>2
  <1>6. \A d \in Clients : out'[d] # "off" => sent'[d] # <<>>
    BY <1>1, <1>2 DEF LossInv
  <1> QED BY <1>4, <1>5, <1>6 DEF LossInv

\* Nothing else has to do with the output.
LEMMA OutputOnly ==
  ASSUME [Next]_vars, \A c \in Clients : ~Output(c) /\ ~(UserReply(c) /\ SendFits(c))
  PROVE  UNCHANGED <<out, outHand, sent, taken>>
  BY DEF Next, vars, Shell, ShellPrint, ShellReadKeys, ShellExit, Supervisor, SupHello, SupInit,
     SupNewClient, SupClose, Client, ClientHello, ClientType, ClientReceive, ClientEnd, ClientReset,
     ClientClose, CloseClient, CloseServer, Main, MainHandshake, MainReply, MainInit, MainServe,
     MainGone, Exit, User, UserHandshake, UserReply, UserJoinOutput, UserJoinInput, UserReturns,
     SendFits, Input, InputReceive, InputWrite, ptyVars, sockVars, userVars

LEMMA LossStep == IndInv /\ LossInv /\ [Next]_vars => LossInv'
  BY LossOutput, LossReply, OutputOnly, LossSame

\* What Relay sees, one variable at a time.
LEMMA Unseen ==
  /\ UNCHANGED sent => UNCHANGED Streams
  /\ UNCHANGED got => UNCHANGED Receipts
  /\ UNCHANGED <<out, outHand>> => UNCHANGED Losses
  /\ UNCHANGED cli => UNCHANGED Gone
  /\ UNCHANGED typed => UNCHANGED TypedPlaces
  /\ UNCHANGED inHand => UNCHANGED WrittenPlaces
  /\ UNCHANGED keys => UNCHANGED KeyPlaces
  BY DEF Streams, Receipts, Losses, Gone, TypedPlaces, WrittenPlaces, Written, KeyPlaces, Place

\* A stream is what was sent but for the handshake reply.
LEMMA StreamLength ==
  ASSUME TypeOK, NEW c \in Clients, sent[c] # <<>>
  PROVE  /\ Len(sent[c]) \in Nat \ {0} /\ got[c] \in Nat
         /\ Len(Streams[c]) = Len(sent[c]) - 1
         /\ Receipts[c] = IF got[c] = 0 THEN 0 ELSE got[c] - 1
  <1>1. sent[c] \in Seq({0} \cup Chunks) /\ got[c] \in Nat
    BY DEF TypeOK, SockType, CliType
  <1>2. Len(sent[c]) \in Nat \ {0}
    BY <1>1, EmptySeq
  <1>3. Len(Tail(sent[c])) = Len(sent[c]) - 1
    BY <1>1, HeadTailProperties
  <1> QED BY <1>1, <1>2, <1>3 DEF Streams, Receipts

\* The chunks of a stream were sent.
LEMMA StreamElements ==
  ASSUME TypeOK, NEW c \in Clients, NEW k \in Session!ChunksOf(Streams[c])
  PROVE  \E i \in DOMAIN sent[c] : sent[c][i] = k
  <1>1. sent[c] \in Seq({0} \cup Chunks)
    BY DEF TypeOK, SockType
  <1>2. Streams[c] = IF sent[c] = <<>> THEN <<>> ELSE Tail(sent[c])
    BY DEF Streams
  <1>3. PICK i \in DOMAIN Streams[c] : Streams[c][i] = k
    BY DEF Session!ChunksOf
  <1>4. CASE sent[c] = <<>>
    <2>1. DOMAIN Streams[c] = {}
      BY <1>2, <1>4
    <2> QED BY <1>3, <2>1
  <1>5. CASE sent[c] # <<>>
    <2>1. i + 1 \in DOMAIN sent[c] /\ Tail(sent[c])[i] = sent[c][i + 1]
      BY <1>1, <1>2, <1>3, <1>5, TailElement
    <2> QED BY <1>2, <1>3, <1>5, <2>1
  <1> QED BY <1>4, <1>5

\* The chunk in the hand of an output thread is one that nobody has.
LEMMA HandIsPending ==
  ASSUME IndInv, LossInv, NEW c \in Clients, out[c] = "send"
  PROVE  /\ outHand[c] \in Session!Pending
         /\ \A j \in Session!ChunksOf(Streams[c]) : j < outHand[c]
  <1>1. /\ outHand[c] \in 1..taken
        /\ \A i \in DOMAIN sent[c] : sent[c][i] < outHand[c]
        /\ \A d \in Clients \ {c} : \A i \in DOMAIN sent[d] : sent[d][i] # outHand[c]
    BY DEF IndInv, StreamInv, HandInv
  <1>2. outHand[c] \in 1..printed /\ outHand[c] \in Nat /\ outHand[c] # 0
    BY <1>1, BoundsAssumption DEF IndInv, TypeOK, PtyType
  <1>3. \A j \in Session!ChunksOf(Streams[c]) : j < outHand[c]
    BY <1>1, StreamElements DEF IndInv
  <1>4. ASSUME NEW d \in Clients PROVE outHand[c] \notin Session!ChunksOf(Streams[d])
    <2>1. CASE d = c
      BY <1>2, <1>3, <2>1
    <2>2. CASE d # c
      BY <1>1, <2>2, StreamElements DEF IndInv
    <2> QED BY <2>1, <2>2
  <1>5. ASSUME NEW d \in Clients PROVE Losses[d] # outHand[c]
    <2>1. Losses[d] = IF out[d] = "SendError" THEN outHand[d] ELSE 0
      BY DEF Losses
    <2>2. out[d] = "SendError" => outHand[c] # outHand[d]
      BY DEF LossInv
    <2> QED BY <1>2, <2>1, <2>2
  <1> QED BY <1>2, <1>3, <1>4, <1>5 DEF Session!Pending

LEMMA NotLast == ASSUME NEW n \in Nat \ {0}, NEW i \in 1..n, i # n
                 PROVE  i \in 1..(n - 1) /\ i + 1 \in 1..n
  OBVIOUS

LEMMA TailOfMore ==
  ASSUME NEW S, NEW s \in Seq(S), NEW x \in S, s # <<>>
  PROVE  Append(s, x) # <<>> /\ Tail(Append(s, x)) = Append(Tail(s), x)
  <1>1. /\ Append(s, x) \in Seq(S) /\ Len(Append(s, x)) = Len(s) + 1 /\ Append(s, x) # <<>>
        /\ \A i \in 1..Len(s) : Append(s, x)[i] = s[i]
        /\ Append(s, x)[Len(s) + 1] = x
    BY AppendProperties
  <1>2. /\ Tail(s) \in Seq(S) /\ Len(Tail(s)) = Len(s) - 1
        /\ \A i \in 1..Len(Tail(s)) : Tail(s)[i] = s[i + 1]
    BY HeadTailProperties
  <1>3. Len(s) \in Nat \ {0}
    BY EmptySeq
  <1> DEFINE a == Tail(Append(s, x))
             b == Append(Tail(s), x)
  <1>4. /\ a \in Seq(S) /\ Len(a) = Len(Append(s, x)) - 1
        /\ \A i \in 1..Len(a) : a[i] = Append(s, x)[i + 1]
    BY <1>1, HeadTailProperties
  <1>5. /\ b \in Seq(S) /\ Len(b) = Len(Tail(s)) + 1
        /\ \A i \in 1..Len(Tail(s)) : b[i] = Tail(s)[i]
        /\ b[Len(Tail(s)) + 1] = x
    BY <1>2, AppendProperties
  <1> HIDE DEF a, b
  <1>6. Len(a) = Len(s) /\ Len(b) = Len(s)
    BY <1>1, <1>2, <1>3, <1>4, <1>5
  <1>7. ASSUME NEW i \in 1..Len(a) PROVE a[i] = b[i]
    <2>1. CASE i = Len(s)
      BY <1>1, <1>2, <1>3, <1>4, <1>5, <1>6, <2>1
    <2>2. CASE i # Len(s)
      <3>1. i \in 1..Len(Tail(s)) /\ i + 1 \in 1..Len(s)
        <4>1. i \in 1..Len(s) /\ Len(Tail(s)) = Len(s) - 1
          BY <1>2, <1>6
        <4>2. i \in 1..(Len(s) - 1) /\ i + 1 \in 1..Len(s)
          BY <1>3, <2>2, <4>1, NotLast
        <4> QED BY <4>1, <4>2
      <3> QED BY <1>1, <1>2, <1>4, <1>5, <3>1
    <2> QED BY <2>1, <2>2
  <1>8. a = b
    BY <1>4, <1>5, <1>6, <1>7, SeqEqual
  <1> QED BY <1>1, <1>8 DEF a, b

LEMMA OutputRelays ==
  ASSUME IndInv, ErrorInv', LossInv, NEW c \in Clients, Output(c) PROVE [Session!Next]_(Session!vars)
  <1>1. UNCHANGED <<printed, Receipts, Gone, TypedPlaces, WrittenPlaces, KeyPlaces>>
    BY Unseen DEF Output, OutputRead, OutputSend, ptyVars, cliVars
  <1>2. CASE OutputRead(c)
    <2>1. UNCHANGED Streams
      BY <1>2, Unseen DEF OutputRead, sockVars
    <2>2. \A d \in Clients : Losses'[d] = Losses[d]
      BY <1>2 DEF OutputRead, Losses, IndInv, TypeOK, UserType
    <2>3. UNCHANGED Losses
      BY <2>2 DEF Losses
    <2> QED BY <1>1, <2>1, <2>3 DEF Session!vars, Session!outputVars, Session!inputVars
  <1>3. CASE OutputSend(c) /\ SendFits(c)
    <2>1. /\ out[c] = "send" /\ out' = [out EXCEPT ![c] = "read"] /\ UNCHANGED outHand
          /\ sent' = [sent EXCEPT ![c] = Append(@, outHand[c])]
      BY <1>3 DEF OutputSend, SendFits
    <2>2. \A d \in Clients : Losses'[d] = Losses[d]
      BY <2>1 DEF Losses, IndInv, TypeOK, UserType
    <2>3. UNCHANGED Losses
      BY <2>2 DEF Losses
    <2>4. /\ sent[c] # <<>> /\ sent[c] \in Seq({0} \cup Chunks)
          /\ outHand[c] \in {0} \cup Chunks
      BY <2>1 DEF LossInv, IndInv, TypeOK, SockType, UserType
    <2>5. /\ Streams'[c] = Append(Streams[c], outHand[c])
          /\ \A d \in Clients \ {c} : Streams'[d] = Streams[d]
      BY <2>1, <2>4, TailOfMore DEF Streams, IndInv, TypeOK, SockType
    <2>6. Streams' = [Streams EXCEPT ![c] = Append(@, outHand[c])]
      BY <2>5 DEF Streams
    <2>7. c \notin Gone /\ Len(sent[c]) - got[c] < SocketCap
      BY <1>3 DEF SendFits, SendFails, Unread, Gone
    <2>8. Len(Streams[c]) - Receipts[c] < SocketCap
      BY <2>4, <2>7, StreamLength, BoundsAssumption DEF IndInv
    <2>9. Session!Give(c)
      BY <1>1, <2>1, <2>3, <2>6, <2>7, <2>8, HandIsPending DEF Session!Give, Session!inputVars
    <2> QED BY <2>9 DEF Session!Next
  <1>4. CASE OutputSend(c) /\ ~SendFits(c)
    <2>1. /\ out[c] = "send" /\ out' = [out EXCEPT ![c] = "SendError"] /\ UNCHANGED <<outHand, sent, cli>>
      BY <1>4 DEF OutputSend, AfterFailedSend, cliVars
    <2>2. c \in Gone
      BY <2>1 DEF ErrorInv, Gone, IndInv, TypeOK, UserType
    <2>3. Losses[c] = 0 /\ Losses'[c] = outHand[c] /\ \A d \in Clients \ {c} : Losses'[d] = Losses[d]
      BY <2>1 DEF Losses, IndInv, TypeOK, UserType
    <2>4. Losses' = [Losses EXCEPT ![c] = outHand[c]]
      BY <2>3 DEF Losses
    <2>5. Session!Lose(c)
      BY <1>1, <2>1, <2>2, <2>3, <2>4, HandIsPending, Unseen DEF Session!Lose, Session!inputVars
    <2> QED BY <2>5 DEF Session!Next
  <1> QED BY <1>2, <1>3, <1>4 DEF Output

LEMMA InputRelays ==
  ASSUME IndInv, InputInv, NEW c \in Clients, Input(c) PROVE [Session!Next]_(Session!vars)
  <1>1. UNCHANGED <<printed, Streams, Receipts, Losses, Gone, TypedPlaces>>
    BY Unseen DEF Input, InputReceive, InputWrite, ptyVars, cliVars, sockVars
  <1>2. CASE InputReceive(c)
    <2>1. UNCHANGED KeyPlaces
      BY <1>2, Unseen DEF InputReceive, ptyVars
    <2>2. UNCHANGED WrittenPlaces
      BY <1>2, ReceivedIsNotWritten DEF WrittenPlaces
    <2> QED BY <1>1, <2>1, <2>2 DEF Session!vars, Session!outputVars, Session!inputVars
  <1>3. CASE InputWrite(c) /\ ~shell
    <2>1. UNCHANGED <<KeyPlaces, WrittenPlaces>>
      BY <1>3, Unseen DEF InputWrite
    <2> QED BY <1>1, <2>1 DEF Session!vars, Session!outputVars, Session!inputVars
  <1>4. CASE InputWrite(c) /\ shell
    <2>1. PICK m \in 1..Pieces :
            /\ inHand[c].n # 0 /\ inHand[c].k + m <= Pieces
            /\ Written(c)' = Written(c) + m
            /\ \A d \in Clients \ {c} : Written(d)' = Written(d)
            /\ DOMAIN keys' = 1..(Len(keys) + m)
            /\ \A j \in DOMAIN keys : keys'[j] = keys[j]
            /\ \A i \in 1..m : /\ keys'[Len(keys) + i][1] = c
                               /\ Place(keys'[Len(keys) + i]) = Written(c) + i
      BY <1>4, WriteGivesNext
    <2>2. /\ m \in Nat /\ Written(c) \in Nat /\ Pieces \in Nat
          /\ inHand[c].n \in Nat /\ inHand[c].k \in Nat /\ typed[c] \in Nat
      BY BoundsAssumption, WrittenType DEF IndInv, TypeOK, UserType, CliType
    <2>3. WrittenPlaces[c] = Written(c) /\ TypedPlaces[c] = typed[c] * Pieces
      BY DEF WrittenPlaces, TypedPlaces
    <2>4. WrittenPlaces' = [WrittenPlaces EXCEPT ![c] = @ + m]
      BY <2>1 DEF WrittenPlaces
    <2>5. m \in 1..(TypedPlaces[c] - WrittenPlaces[c])
      <3>1. Alive /\ inp[c] = "write" /\ Len(inbox[c]) \in Nat
        BY <1>4 DEF InputWrite, IndInv, TypeOK, SockType
      <3>2. typed[c] = inHand[c].n + Len(inbox[c])
        BY <3>1 DEF InputInv, Typing, OnItsWay
      <3>3. typed[c] * Pieces = inHand[c].n * Pieces + Len(inbox[c]) * Pieces
        BY <2>2, <3>1, <3>2
      <3>4. Len(inbox[c]) * Pieces \in Nat
        BY <2>2, <3>1, Product
      <3>5. inHand[c].n * Pieces = (inHand[c].n - 1) * Pieces + Pieces
        BY <2>2
      <3>6. Written(c) = (inHand[c].n - 1) * Pieces + inHand[c].k
        BY <2>1 DEF Written
      <3> DEFINE base == (inHand[c].n - 1) * Pieces
                 rest == Len(inbox[c]) * Pieces
      <3>7. base \in Int
        BY <2>2
      <3> HIDE DEF base, rest
      <3>8. TypedPlaces[c] = (base + Pieces) + rest /\ WrittenPlaces[c] = base + inHand[c].k
        BY <2>3, <3>3, <3>5, <3>6 DEF base, rest
      <3>9. rest \in Nat
        BY <3>4 DEF rest
      <3> QED BY <2>1, <2>2, <3>7, <3>8, <3>9
    <2>6. KeyPlaces' = KeyPlaces \o [i \in 1..m |-> <<c, WrittenPlaces[c] + i>>]
      <3> DEFINE S == Clients \X Int
                 new == [i \in 1..m |-> <<c, WrittenPlaces[c] + i>>]
                 old == KeyPlaces
                 all == [i \in DOMAIN keys' |-> <<keys'[i][1], Place(keys'[i])>>]
      <3>1. new \in Seq(S) /\ Len(new) = m /\ \A i \in 1..m : new[i] = <<c, Written(c) + i>>
        BY <2>2, <2>3
      <3>2. Len(keys) \in Nat /\ DOMAIN keys = 1..Len(keys)
        BY KeysType DEF IndInv
      <3>3. old \in Seq(S) /\ Len(old) = Len(keys)
        BY <3>2, KeysType DEF KeyPlaces, IndInv
      <3>4. \A i \in 1..Len(keys) : old[i] = <<keys[i][1], Place(keys[i])>>
        BY <3>2 DEF KeyPlaces
      <3>5. KeyPlaces' = all
        BY DEF KeyPlaces, Place
      <3>6. \A i \in 1..(Len(keys) + m) : all[i] = <<keys'[i][1], Place(keys'[i])>>
        BY <2>1
      <3>7. DOMAIN all = 1..(Len(keys) + m)
        BY <2>1
      <3> HIDE DEF new, old, all, S
      <3>8. /\ old \o new \in Seq(S) /\ Len(old \o new) = Len(keys) + m
            /\ \A i \in 1..(Len(keys) + m) :
                 (old \o new)[i] = IF i <= Len(keys) THEN old[i] ELSE new[i - Len(keys)]
        <4>1. /\ old \o new \in Seq(S) /\ Len(old \o new) = Len(old) + Len(new)
              /\ \A i \in 1..(Len(old) + Len(new)) :
                   (old \o new)[i] = IF i <= Len(old) THEN old[i] ELSE new[i - Len(old)]
          BY <3>1, <3>3, ConcatProperties
        <4> QED BY <3>1, <3>3, <4>1
      <3>9. ASSUME NEW i \in 1..(Len(keys) + m) PROVE all[i] = (old \o new)[i]
        <4>1. CASE i <= Len(keys)
          <5>1. i \in 1..Len(keys) /\ i \in DOMAIN keys
            BY <3>2, <4>1
          <5>2. keys'[i] = keys[i]
            BY <2>1, <5>1
          <5> QED BY <3>4, <3>6, <3>8, <4>1, <5>1, <5>2
        <4>2. CASE ~(i <= Len(keys))
          <5>1. i - Len(keys) \in 1..m /\ i = Len(keys) + (i - Len(keys))
            BY <2>2, <3>2, <4>2
          <5>2. keys'[i][1] = c /\ Place(keys'[i]) = Written(c) + (i - Len(keys))
            BY <2>1, <5>1
          <5> QED BY <3>1, <3>6, <3>8, <4>2, <5>1, <5>2
        <4> QED BY <4>1, <4>2
      <3>10. all \in Seq(S) /\ Len(all) = Len(keys) + m
        <4>1. \A i \in 1..(Len(keys) + m) : all[i] \in S
          BY <3>8, <3>9, ElementOfSeq
        <4>2. Len(keys) + m \in Nat
          BY <2>2, <3>2
        <4>3. all = [i \in 1..(Len(keys) + m) |-> all[i]]
          BY <3>7 DEF all
        <4> QED BY <4>1, <4>2, <4>3
      <3>11. all = old \o new
        BY <3>8, <3>9, <3>10, SeqEqual
      <3> QED BY <3>5, <3>11 DEF new, old
    <2>7. Session!Press(c)
      BY <1>1, <2>4, <2>5, <2>6 DEF Session!Press, Session!outputVars
    <2> QED BY <2>7 DEF Session!Next
  <1> QED BY <1>2, <1>3, <1>4 DEF Input

LEMMA ClientRelays ==
  ASSUME IndInv, NEW c \in Clients, Client(c) PROVE [Session!Next]_(Session!vars)
  <1>1. UNCHANGED <<printed, Streams, Losses, WrittenPlaces, KeyPlaces>>
    BY Unseen DEF Client, ClientHello, ClientType, ClientReceive, ClientEnd, ClientReset, ClientClose,
       CloseClient, ptyVars, sockVars, userVars
  <1>2. CASE ClientHello(c) \/ ClientReceive(c)
    <2>1. UNCHANGED typed /\ \A d \in Clients : cli'[d] = "closed" <=> cli[d] = "closed"
      BY <1>2 DEF ClientHello, ClientReceive, IndInv, TypeOK, CliType
    <2>2. UNCHANGED <<TypedPlaces, Gone>>
      BY <2>1, Unseen DEF Gone
    <2>3. CASE ClientHello(c)
      <3>1. UNCHANGED Receipts
        BY <2>3, Unseen DEF ClientHello
      <3> QED BY <1>1, <2>2, <3>1 DEF Session!vars, Session!outputVars, Session!inputVars
    <2>4. CASE ClientReceive(c)
      <3>1. /\ cli[c] # "closed" /\ got' = [got EXCEPT ![c] = @ + 1]
            /\ Len(sent[c]) - got[c] > 0
        BY <2>4 DEF ClientReceive, Unread
      <3>2. got[c] \in Nat /\ got'[c] = got[c] + 1 /\ \A d \in Clients \ {c} : got'[d] = got[d]
        BY <3>1 DEF IndInv, TypeOK, CliType
      <3>3. sent[c] # <<>>
        BY <3>1, <3>2, EmptySeq DEF IndInv, TypeOK, SockType
      <3>4. \A d \in Clients \ {c} : Receipts'[d] = Receipts[d]
        BY <3>2 DEF Receipts
      <3>5. CASE got[c] = 0
        <4>1. Receipts'[c] = Receipts[c]
          BY <3>2, <3>5 DEF Receipts
        <4>2. UNCHANGED Receipts
          BY <3>4, <4>1 DEF Receipts
        <4> QED BY <1>1, <2>2, <4>2 DEF Session!vars, Session!outputVars, Session!inputVars
      <3>6. CASE got[c] # 0
        <4>1. Receipts[c] = got[c] - 1 /\ Receipts'[c] = got[c]
          BY <3>2, <3>6 DEF Receipts
        <4>2. Receipts'[c] = Receipts[c] + 1 /\ Receipts[c] < Len(Streams[c])
          BY <3>1, <3>2, <3>3, <4>1, StreamLength DEF IndInv
        <4>3. Receipts' = [Receipts EXCEPT ![c] = @ + 1]
          BY <3>4, <4>2 DEF Receipts
        <4>4. c \notin Gone
          BY <3>1 DEF Gone
        <4>5. Session!Receive(c)
          BY <1>1, <2>2, <4>2, <4>3, <4>4 DEF Session!Receive, Session!inputVars
        <4> QED BY <4>5 DEF Session!Next
      <3> QED BY <3>5, <3>6
    <2> QED BY <1>2, <2>3, <2>4
  <1>3. CASE ClientType(c)
    <2>1. typed' = [typed EXCEPT ![c] = @ + 1] /\ UNCHANGED cli
      BY <1>3 DEF ClientType
    <2>2. /\ TypedPlaces'[c] = (typed[c] + 1) * Pieces /\ TypedPlaces[c] = typed[c] * Pieces
          /\ \A d \in Clients \ {c} : TypedPlaces'[d] = TypedPlaces[d]
      BY <2>1 DEF TypedPlaces, IndInv, TypeOK, CliType
    <2>3. TypedPlaces' = [TypedPlaces EXCEPT ![c] = TypedPlaces'[c]]
      BY <2>2 DEF TypedPlaces
    <2>4. typed[c] \in Nat /\ Pieces \in Nat
      BY BoundsAssumption DEF IndInv, TypeOK, CliType
    <2>5. TypedPlaces'[c] >= TypedPlaces[c]
      BY <2>2, <2>4
    <2>6. c \notin Gone /\ UNCHANGED Receipts
      BY <1>3, Unseen DEF ClientType, Gone
    <2>7. Session!Type(c)
      BY <1>1, <2>1, <2>3, <2>5, <2>6, Unseen DEF Session!Type, Session!outputVars
    <2> QED BY <2>7 DEF Session!Next
  <1>4. CASE ClientEnd(c) \/ ClientReset(c) \/ ClientClose(c)
    <2>1. cli' = [cli EXCEPT ![c] = "closed"] /\ UNCHANGED <<typed, got>>
      BY <1>4 DEF ClientEnd, ClientReset, ClientClose, CloseClient
    <2>2. Gone' = Gone \cup {c}
      BY <2>1 DEF Gone, IndInv, TypeOK, CliType
    <2>3. Session!Leave(c)
      BY <1>1, <2>1, <2>2, Unseen DEF Session!Leave, Session!outputVars, Session!inputVars
    <2> QED BY <2>3 DEF Session!Next
  <1> QED BY <1>2, <1>3, <1>4 DEF Client

LEMMA UserRelays ==
  ASSUME IndInv, LossInv, NEW c \in Clients, User(c) PROVE UNCHANGED (Session!vars)
  <1>1. UNCHANGED <<printed, Receipts, Gone, TypedPlaces, WrittenPlaces, KeyPlaces>>
    BY Unseen DEF User, UserHandshake, UserReply, UserJoinOutput, UserJoinInput, ptyVars, cliVars
  <1>2. UNCHANGED <<Streams, Losses>>
    <2>1. CASE UserReply(c) /\ SendFits(c)
      <3>1. /\ sent' = [sent EXCEPT ![c] = Append(@, 0)] /\ out' = [out EXCEPT ![c] = "read"]
            /\ user[c] = "reply" /\ UNCHANGED outHand
        BY <2>1 DEF UserReply, SendFits
      <3>2. sent[c] = <<>> /\ out[c] = "off"
        BY <3>1 DEF IndInv, FreshInv
      <3>3. \A d \in Clients : Losses'[d] = Losses[d]
        BY <3>1, <3>2 DEF Losses, IndInv, TypeOK, UserType
      <3>4. Append(<<>>, 0) # <<>> /\ Tail(Append(<<>>, 0)) = <<>>
        OBVIOUS
      <3>5. \A d \in Clients : Streams'[d] = Streams[d]
        BY <3>1, <3>2, <3>4 DEF Streams, IndInv, TypeOK, SockType
      <3> QED BY <3>3, <3>5 DEF Losses, Streams
    <2>2. CASE ~(UserReply(c) /\ SendFits(c))
      BY <2>2, Unseen DEF User, UserHandshake, UserReply, UserJoinOutput, UserJoinInput, UserReturns,
         CloseServer, SendFits, sockVars
    <2> QED BY <2>1, <2>2
  <1> QED BY <1>1, <1>2 DEF Session!vars, Session!outputVars, Session!inputVars

LEMMA RelayStep ==
  ASSUME IndInv, ErrorInv', InputInv, LossInv, [Next]_vars PROVE [Session!Next]_(Session!vars)
  <1>1. CASE ShellPrint
    <2>1. /\ printed' = printed + 1
          /\ UNCHANGED <<Streams, Receipts, Losses, Gone, TypedPlaces, WrittenPlaces, KeyPlaces>>
      BY <1>1, Unseen DEF ShellPrint, cliVars, sockVars, userVars
    <2> QED BY <2>1 DEF Session!Next, Session!Emit, Session!inputVars
  <1>2. CASE UNCHANGED vars \/ ShellReadKeys \/ ShellExit \/ Supervisor \/ Main
    <2>1. UNCHANGED <<printed, sent, got, out, outHand, cli, typed, inHand, keys>>
      BY <1>2 DEF vars, ShellReadKeys, ShellExit, Supervisor, SupHello, SupInit, SupNewClient, SupClose,
         Main, MainHandshake, MainReply, MainInit, MainServe, MainGone, Exit, CloseServer, ptyVars,
         cliVars, sockVars, userVars
    <2> QED BY <2>1, Unseen DEF Session!vars, Session!outputVars, Session!inputVars
  <1> QED BY <1>1, <1>2, ClientRelays, UserRelays, InputRelays, OutputRelays DEF Next, Shell

\* The process is a relay to its clients and its shell: it divides the output of
\* services/pty/user.rs:54-75 among them and joins what they type (37-52).
THEOREM SessionIsARelay == Spec => IsARelay
  <1>1. Init => LossInv
    BY DEF Init, LossInv
  <1>2. Init => Session!Init
    <2> SUFFICES ASSUME Init PROVE Session!Init
      OBVIOUS
    <2>1. /\ Streams = [c \in Clients |-> <<>>] /\ Receipts = [c \in Clients |-> 0]
          /\ Losses = [c \in Clients |-> 0] /\ Gone = {}
      BY DEF Init, Streams, Receipts, Losses, Gone
    <2>2. TypedPlaces = [c \in Clients |-> 0] /\ WrittenPlaces = [c \in Clients |-> 0]
      BY BoundsAssumption DEF Init, TypedPlaces, WrittenPlaces, Written
    <2>3. KeyPlaces = <<>>
      BY DEF Init, KeyPlaces
    <2> QED BY <2>1, <2>2, <2>3 DEF Init, Session!Init
  <1>3. Init => OpenInv /\ EndInv
    BY DEF Init, OpenInv, EndInv, EioInv, CloseInv, ErrorInv, SeenInv
  <1>4. EndInv => ErrorInv
    BY DEF EndInv
  <1> QED BY <1>1, <1>2, <1>3, <1>4, InputInvInit, InputInvStep, LossStep, EndStep, RelayStep,
             IndInit, IndStep, PTL DEF Spec, IsARelay, Session!Spec
=============================================================================
