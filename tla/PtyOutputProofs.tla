--------------------------- MODULE PtyOutputProofs ---------------------------
(* What PtyService promises of the shell's output, proved for any number of  *)
(* clients, chunks and socket slots.                                         *)
EXTENDS PtyServiceProofs, FiniteSetTheorems

\* A client's socket is in at most one message to the service, which is on its
\* way.
QueueInv ==
  /\ \A i \in DOMAIN supQ :
       supQ[i].type = "NewClient" => srv[supQ[i].client] = "queued"
  /\ \A i, j \in DOMAIN supQ :
       supQ[i].type = "NewClient" /\ supQ[j].type = "NewClient"
         /\ supQ[i].client = supQ[j].client => i = j

\* Nothing is sent to a client before its handshake is over.
FreshInv == \A c \in Clients :
  /\ srv[c] \in {"held", "queued"} => user[c] = "none"
  /\ user[c] \in {"none", "hello", "reply"} => sent[c] = <<>> /\ out[c] = "off"

\* Only chunks that were taken are sent.
SentInv == \A c \in Clients : \A i \in DOMAIN sent[c] : sent[c][i] <= taken

\* The chunk in the hand of an output thread is nowhere else, and newer than all
\* that the thread has sent.
HandInv == \A c \in Clients : out[c] = "send" =>
  /\ outHand[c] \in 1..taken
  /\ \A i \in DOMAIN sent[c] : sent[c][i] < outHand[c]
  /\ \A d \in Clients \ {c} : /\ \A i \in DOMAIN sent[d] : sent[d][i] # outHand[c]
                              /\ out[d] = "send" => outHand[d] # outHand[c]

\* The order and the disjointness of the streams, position by position.
OrderInv ==
  /\ \A c \in Clients : \A i, j \in DOMAIN sent[c] : i < j => sent[c][i] < sent[c][j]
  /\ \A c, d \in Clients : c # d =>
       \A i \in DOMAIN sent[c], j \in DOMAIN sent[d] :
         sent[c][i] # 0 => sent[c][i] # sent[d][j]

\* The service's end of a socket has an error pending only when the client is
\* gone.
ResetInv == \A c \in Clients : srvReset[c] => cli[c] = "closed"

StreamInv == SentInv /\ HandInv /\ OrderInv

LEMMA AppendElement ==
  ASSUME NEW S, NEW s \in Seq(S), NEW x \in S
  PROVE  /\ Append(s, x) \in Seq(S)
         /\ DOMAIN s = 1..Len(s) /\ Len(s) \in Nat
         /\ DOMAIN Append(s, x) = 1..(Len(s) + 1)
         /\ \A i \in DOMAIN s : s[i] \in S /\ Append(s, x)[i] = s[i]
         /\ Append(s, x)[Len(s) + 1] = x
  BY AppendProperties

LEMMA TailElement ==
  ASSUME NEW S, NEW s \in Seq(S), s # <<>>
  PROVE  /\ DOMAIN s = 1..Len(s) /\ Len(s) \in Nat \ {0}
         /\ DOMAIN Tail(s) = 1..(Len(s) - 1)
         /\ \A i \in DOMAIN Tail(s) : i + 1 \in DOMAIN s /\ Tail(s)[i] = s[i + 1]
         /\ Head(s) = s[1]
  BY HeadTailProperties

-----------------------------------------------------------------------------
(* The queue of the supervisor's messages.                                   *)

\* Reading a message leaves the others, and no client twice.
LEMMA QueueTail ==
  ASSUME TypeOK, QueueInv, supQ # <<>>, supQ' = Tail(supQ),
         \A c \in Clients : srv[c] = "queued" =>
           \/ srv'[c] = "queued"
           \/ Head(supQ).type = "NewClient" /\ Head(supQ).client = c
  PROVE  QueueInv'
  <1>1. supQ \in Seq(SupMsg)
    BY DEF TypeOK, SupType
  <1>2. /\ 1 \in DOMAIN supQ /\ Head(supQ) = supQ[1] /\ DOMAIN supQ = 1..Len(supQ)
        /\ Len(supQ) \in Nat
        /\ DOMAIN supQ' = 1..(Len(supQ) - 1)
        /\ \A i \in DOMAIN supQ' : i + 1 \in DOMAIN supQ /\ supQ'[i] = supQ[i + 1]
    BY <1>1, TailElement
  <1>3. \A i \in DOMAIN supQ : supQ[i].type = "NewClient" => supQ[i].client \in Clients
    BY <1>1, <1>2 DEF SupMsg
  <1>4. ASSUME NEW i \in DOMAIN supQ', supQ'[i].type = "NewClient"
        PROVE  srv'[supQ'[i].client] = "queued"
    <2>1. i + 1 # 1
      BY <1>2
    <2> QED BY <1>2, <1>3, <1>4, <2>1 DEF QueueInv
  <1>5. ASSUME NEW i \in DOMAIN supQ', NEW j \in DOMAIN supQ',
               supQ'[i].type = "NewClient", supQ'[j].type = "NewClient",
               supQ'[i].client = supQ'[j].client
        PROVE  i = j
    BY <1>2, <1>5 DEF QueueInv
  <1> QED BY <1>4, <1>5 DEF QueueInv

LEMMA QueueAppend ==
  ASSUME TypeOK, QueueInv, NEW m \in SupMsg, supQ' = Append(supQ, m),
         \A c \in Clients : srv[c] = "queued" => srv'[c] = "queued",
         m.type = "NewClient" =>
           srv'[m.client] = "queued" /\ m.client \in Clients /\ srv[m.client] # "queued"
  PROVE  QueueInv'
  <1>1. supQ \in Seq(SupMsg)
    BY DEF TypeOK, SupType
  <1>2. /\ DOMAIN supQ = 1..Len(supQ) /\ Len(supQ) \in Nat
        /\ DOMAIN supQ' = 1..(Len(supQ) + 1)
        /\ \A i \in DOMAIN supQ : supQ[i] \in SupMsg /\ supQ'[i] = supQ[i]
        /\ supQ'[Len(supQ) + 1] = m
    BY <1>1, AppendElement
  <1>3. \A i \in DOMAIN supQ : supQ[i].type = "NewClient" => supQ[i].client \in Clients
    BY <1>2 DEF SupMsg
  <1>4. \A i \in DOMAIN supQ' : i \in DOMAIN supQ \/ i = Len(supQ) + 1
    BY <1>2
  <1> QED BY <1>2, <1>3, <1>4 DEF QueueInv

\* Where the queue does not change, no socket in it may.
LEMMA QueueSame ==
  ASSUME TypeOK, QueueInv, UNCHANGED supQ,
         \A c \in Clients : srv[c] = "queued" => srv'[c] = "queued"
  PROVE  QueueInv'
  <1>1. \A i \in DOMAIN supQ : supQ[i].type = "NewClient" => supQ[i].client \in Clients
    BY DEF TypeOK, SupType, SupMsg
  <1> QED BY <1>1 DEF QueueInv

LEMMA QueueEmpty == ASSUME supQ' = <<>> PROVE QueueInv'
  BY DEF QueueInv

\* Sockets that are closed or shut down were not on their way.
LEMMA QueueStep ==
  ASSUME TypeOK, QueueInv, FreshInv, Next PROVE QueueInv'
  <1>0. \A c \in Clients : srv[c] = "queued" => user[c] = "none"
    BY DEF FreshInv
  <1>1. CASE Shell
    <2>1. UNCHANGED <<supQ, srv>>
      BY <1>1 DEF Shell, ShellPrint, ShellReadKeys, ShellExit, supVars, sockVars
    <2> QED BY <2>1, QueueSame
  <1>2. CASE Supervisor
    <2>1. CASE SupHello
      <3>1. PICK hello \in {"Hello", "WrongHello"} : supQ' = Append(supQ, [type |-> hello])
        BY <2>1 DEF SupHello
      <3>2. [type |-> hello] \in SupMsg /\ [type |-> hello].type # "NewClient"
        BY DEF SupMsg
      <3>3. UNCHANGED srv
        BY <2>1 DEF SupHello, sockVars
      <3> QED BY <3>1, <3>2, <3>3, QueueAppend
    <2>2. CASE SupInit
      <3>1. [type |-> "Init"] \in SupMsg /\ [type |-> "Init"].type # "NewClient"
        BY DEF SupMsg
      <3>2. UNCHANGED srv /\ supQ' = Append(supQ, [type |-> "Init"])
        BY <2>2 DEF SupInit, sockVars
      <3> QED BY <3>1, <3>2, QueueAppend
    <2>3. CASE SupClose
      <3>1. UNCHANGED supQ /\ \A c \in Clients : srv[c] = "queued" => srv'[c] = "queued"
        BY <2>3 DEF SupClose, CloseServer
      <3> QED BY <3>1, QueueSame
    <2>4. ASSUME NEW c \in Clients, SupNewClient(c) PROVE QueueInv'
      <3>1. PICK b \in BOOLEAN :
              supQ' = Append(supQ, [type |-> "NewClient", client |-> c, seqpacket |-> b])
        BY <2>4 DEF SupNewClient
      <3> DEFINE m == [type |-> "NewClient", client |-> c, seqpacket |-> b]
      <3>2. m \in SupMsg /\ m.client = c
        BY DEF SupMsg
      <3>3. srv[c] = "held" /\ srv' = [srv EXCEPT ![c] = "queued"]
        BY <2>4 DEF SupNewClient
      <3>4. \A d \in Clients : srv[d] = "queued" => srv'[d] = "queued"
        BY <3>3 DEF TypeOK, SockType
      <3>5. srv'[c] = "queued" /\ srv[c] # "queued"
        BY <3>3 DEF TypeOK, SockType
      <3> HIDE DEF m
      <3> QED BY <3>1, <3>2, <3>4, <3>5, QueueAppend DEF m
    <2> QED BY <1>2, <2>1, <2>2, <2>3, <2>4 DEF Supervisor
  <1>3. CASE Main
    <2>1. CASE \E err \in {"Handshake", "End", "Socket", "panic"} : Exit(err)
      BY <2>1, QueueEmpty DEF Exit
    <2>2. CASE supQ # <<>> /\ supQ' = Tail(supQ) /\ UNCHANGED srv
      BY <2>2, QueueTail
    <2>3. CASE UNCHANGED <<supQ, srv>>
      BY <2>3, QueueSame
    <2>4. CASE MainHandshake
      BY <2>1, <2>2, <2>4 DEF MainHandshake, SupSays, sockVars
    <2>5. CASE MainReply
      BY <2>1, <2>3, <2>5 DEF MainReply, AfterReply, supVars, sockVars
    <2>6. CASE MainInit
      BY <2>1, <2>2, <2>6 DEF MainInit, MainGone, SupSays, sockVars
    <2>7. CASE MainServe
      <3>1. CASE SupSays("NewClient") /\ Head(supQ).seqpacket
        <4>1. /\ supQ # <<>> /\ Head(supQ).type = "NewClient"
              /\ supQ' = Tail(supQ)
              /\ srv' = [srv EXCEPT ![Head(supQ).client] = "open"]
          BY <2>7, <3>1 DEF MainServe, MainGone, SupGone, SupSays
        <4>2. \A c \in Clients : srv[c] = "queued" => srv'[c] = "queued" \/ Head(supQ).client = c
          BY <4>1 DEF TypeOK, SockType
        <4> QED BY <4>1, <4>2, QueueTail
      <3> QED BY <2>1, <2>7, <3>1 DEF MainServe, MainGone
    <2> QED BY <1>3, <2>4, <2>5, <2>6, <2>7 DEF Main
  <1>4. ASSUME NEW c \in Clients, Client(c) PROVE QueueInv'
    <2>1. UNCHANGED <<supQ, srv>>
      BY <1>4 DEF Client, ClientHello, ClientType, ClientReceive, ClientEnd, ClientReset,
                  ClientClose, CloseClient, supVars, sockVars
    <2> QED BY <2>1, QueueSame
  <1>5. ASSUME NEW c \in Clients, User(c) PROVE QueueInv'
    <2>1. UNCHANGED supQ /\ user[c] # "none"
      BY <1>5 DEF User, UserHandshake, UserReply, UserJoinOutput, UserJoinInput, supVars
    <2>2. \A d \in Clients \ {c} : srv'[d] = srv[d]
      BY <1>5 DEF User, UserHandshake, UserReply, UserJoinOutput, UserJoinInput, UserReturns,
                  CloseServer, ShutDownRead, TypeOK, SockType
    <2> QED BY <1>0, <2>1, <2>2, QueueSame
  <1>6. ASSUME NEW c \in Clients, Input(c) \/ Output(c) PROVE QueueInv'
    <2>1. UNCHANGED <<supQ, srv>>
      BY <1>6 DEF Input, InputReceive, InputWrite, Output, OutputRead, OutputSend,
                  supVars, sockVars
    <2> QED BY <2>1, QueueSame
  <1> QED BY <1>1, <1>2, <1>3, <1>4, <1>5, <1>6 DEF Next

-----------------------------------------------------------------------------
(* Clients that are not served yet.                                          *)

LEMMA FreshSame ==
  ASSUME FreshInv, UNCHANGED <<user, sent, out>>,
         \A c \in Clients : srv'[c] \in {"held", "queued"} => srv[c] \in {"held", "queued"}
  PROVE  FreshInv'
  BY DEF FreshInv

LEMMA CloseServerFresh ==
  ASSUME FreshInv, NEW C, CloseServer(C), UNCHANGED <<user, out>> PROVE FreshInv'
  BY DEF FreshInv, CloseServer

LEMMA FreshStep ==
  ASSUME TypeOK, QueueInv, FreshInv, Next PROVE FreshInv'
  <1>1. CASE Shell
    BY <1>1, FreshSame DEF Shell, ShellPrint, ShellReadKeys, ShellExit, sockVars, userVars
  <1>2. CASE Supervisor
    <2>1. CASE SupHello \/ SupInit
      BY <2>1, FreshSame DEF SupHello, SupInit, sockVars, userVars
    <2>2. CASE SupClose
      BY <2>2, CloseServerFresh DEF SupClose, userVars
    <2>3. ASSUME NEW c \in Clients, SupNewClient(c) PROVE FreshInv'
      BY <2>3, FreshSame DEF SupNewClient, userVars, TypeOK, SockType
    <2> QED BY <1>2, <2>1, <2>2, <2>3 DEF Supervisor
  <1>3. CASE Main
    <2>1. CASE \E err \in {"Handshake", "End", "Socket", "panic"} : Exit(err)
      BY <2>1, CloseServerFresh DEF Exit, userVars
    <2>2. CASE UNCHANGED <<sockVars, userVars>>
      BY <2>2, FreshSame DEF sockVars, userVars
    <2>3. CASE MainHandshake \/ MainReply \/ MainInit
      BY <2>1, <2>2, <2>3 DEF MainHandshake, MainReply, AfterReply, MainInit, MainGone
    <2>4. CASE MainServe
      <3>1. CASE SupSays("NewClient") /\ Head(supQ).seqpacket
        <4>1. /\ supQ # <<>> /\ Head(supQ).type = "NewClient"
              /\ srv' = [srv EXCEPT ![Head(supQ).client] = "open"]
              /\ user' = [user EXCEPT ![Head(supQ).client] = "hello"]
              /\ UNCHANGED <<sent, out>>
          BY <2>4, <3>1 DEF MainServe, MainGone, SupGone, SupSays
        <4>2. srv[Head(supQ).client] = "queued"
          BY <4>1, TailElement DEF TypeOK, SupType, QueueInv
        <4> QED BY <4>1, <4>2 DEF FreshInv, TypeOK, SockType, UserType
      <3> QED BY <2>1, <2>4, <3>1 DEF MainServe, MainGone
    <2> QED BY <1>3, <2>3, <2>4 DEF Main
  <1>4. ASSUME NEW c \in Clients, Client(c) PROVE FreshInv'
    <2>1. UNCHANGED <<srv, user, sent, out>>
      BY <1>4 DEF Client, ClientHello, ClientType, ClientReceive, ClientEnd, ClientReset,
                  ClientClose, CloseClient, sockVars, userVars
    <2> QED BY <2>1, FreshSame
  <1>5. ASSUME NEW c \in Clients, User(c) PROVE FreshInv'
    <2>1. CASE UserReturns(c) /\ UNCHANGED out
      <3>1. user' = [user EXCEPT ![c] = "done"] /\ UNCHANGED <<sent, out>>
        BY <2>1 DEF UserReturns, CloseServer
      <3>2. \A d \in Clients : srv'[d] = IF d = c THEN "closed" ELSE srv[d]
        BY <2>1 DEF UserReturns, CloseServer
      <3> QED BY <3>1, <3>2 DEF FreshInv, TypeOK, UserType
    <2>2. CASE UserHandshake(c)
      <3>1. CASE ~UserReturns(c)
        <4>1. /\ user[c] = "hello" /\ user' = [user EXCEPT ![c] = "reply"]
              /\ UNCHANGED <<srv, sent, out>>
          BY <2>2, <3>1 DEF UserHandshake
        <4> QED BY <4>1 DEF FreshInv, TypeOK, UserType
      <3> QED BY <2>1, <2>2, <3>1 DEF UserHandshake
    <2>3. CASE UserReply(c)
      <3>1. CASE ~(UserReturns(c) /\ UNCHANGED out)
        <4>1. /\ user[c] = "reply" /\ user' = [user EXCEPT ![c] = "joinOut"]
              /\ sent' = [sent EXCEPT ![c] = Append(@, 0)]
              /\ out' = [out EXCEPT ![c] = "read"]
              /\ UNCHANGED srv
          BY <2>3, <3>1 DEF UserReply
        <4> QED BY <4>1 DEF FreshInv, TypeOK, UserType, SockType
      <3> QED BY <2>1, <3>1
    <2>4. CASE UserJoinOutput(c)
      BY <2>4 DEF UserJoinOutput, ShutDownRead, FreshInv, TypeOK, UserType, SockType
    <2>5. CASE UserJoinInput(c)
      BY <2>1, <2>5 DEF UserJoinInput
    <2> QED BY <1>5, <2>2, <2>3, <2>4, <2>5 DEF User
  <1>6. ASSUME NEW c \in Clients, Input(c) PROVE FreshInv'
    BY <1>6, FreshSame DEF Input, InputReceive, InputWrite, sockVars
  <1>7. ASSUME NEW c \in Clients, Output(c) PROVE FreshInv'
    <2>1. out[c] # "off" /\ UNCHANGED <<srv, user>>
      BY <1>7 DEF Output, OutputRead, OutputSend, sockVars
    <2>2. \A d \in Clients \ {c} : sent'[d] = sent[d] /\ out'[d] = out[d]
      BY <1>7 DEF Output, OutputRead, OutputSend, sockVars, TypeOK, UserType, SockType
    <2>3. user[c] \notin {"none", "hello", "reply"}
      BY <2>1 DEF FreshInv
    <2> QED BY <2>1, <2>2, <2>3 DEF FreshInv
  <1> QED BY <1>1, <1>2, <1>3, <1>4, <1>5, <1>6, <1>7 DEF Next

-----------------------------------------------------------------------------
(* The streams.                                                              *)

LEMMA StreamSame ==
  ASSUME StreamInv, UNCHANGED <<taken, sent, out, outHand>> PROVE StreamInv'
  BY DEF StreamInv, SentInv, HandInv, OrderInv

\* The handshake reply is the first message of its stream.
LEMMA StreamReply ==
  ASSUME TypeOK, FreshInv, StreamInv, NEW c \in Clients, user[c] = "reply",
         sent' = [sent EXCEPT ![c] = Append(@, 0)], out' = [out EXCEPT ![c] = "read"],
         UNCHANGED <<taken, outHand>>
  PROVE  StreamInv'
  <1>1. sent[c] = <<>> /\ out[c] = "off"
    BY DEF FreshInv
  <1>2. /\ sent'[c] = <<0>>
        /\ \A d \in Clients \ {c} : sent'[d] = sent[d]
    BY <1>1 DEF TypeOK, SockType
  <1>3. /\ out'[c] = "read"
        /\ \A d \in Clients \ {c} : out'[d] = out[d]
    BY DEF TypeOK, UserType
  <1>4. taken \in Nat
    BY BoundsAssumption DEF TypeOK, PtyType
  <1>5. \A i \in DOMAIN <<0>> : <<0>>[i] = 0 /\ i = 1
    OBVIOUS
  <1>6. SentInv'
    BY <1>2, <1>4, <1>5 DEF StreamInv, SentInv
  <1>7. HandInv'
    <2> SUFFICES ASSUME NEW d \in Clients, out'[d] = "send"
                 PROVE  /\ outHand[d] \in 1..taken
                        /\ \A i \in DOMAIN sent'[d] : sent'[d][i] < outHand[d]
                        /\ \A e \in Clients \ {d} :
                             /\ \A i \in DOMAIN sent'[e] : sent'[e][i] # outHand[d]
                             /\ out'[e] = "send" => outHand[e] # outHand[d]
      BY DEF HandInv
    <2>1. d # c /\ out[d] = "send" /\ sent'[d] = sent[d]
      BY <1>2, <1>3
    <2>2. outHand[d] \in 1..taken /\ \A i \in DOMAIN sent[d] : sent[d][i] < outHand[d]
      BY <2>1 DEF StreamInv, HandInv
    <2>3. ASSUME NEW e \in Clients \ {d}
          PROVE  /\ \A i \in DOMAIN sent'[e] : sent'[e][i] # outHand[d]
                 /\ out'[e] = "send" => outHand[e] # outHand[d]
      <3>1. CASE e = c
        BY <1>2, <1>3, <1>4, <1>5, <2>2, <3>1
      <3>2. CASE e # c
        BY <1>2, <1>3, <2>1, <3>2 DEF StreamInv, HandInv
      <3> QED BY <3>1, <3>2
    <2> QED BY <2>1, <2>2, <2>3
  <1>8. OrderInv'
    BY <1>2, <1>5 DEF StreamInv, OrderInv
  <1> QED BY <1>6, <1>7, <1>8 DEF StreamInv

\* The chunk that is taken is newer than everything so far.
LEMMA StreamRead ==
  ASSUME TypeOK, StreamInv, NEW c \in Clients, out[c] = "read",
         taken' = taken + 1, outHand' = [outHand EXCEPT ![c] = taken + 1],
         out' = [out EXCEPT ![c] = "send"], UNCHANGED sent
  PROVE  StreamInv'
  <1>1. taken \in Nat
    BY BoundsAssumption DEF TypeOK, PtyType
  <1>2. /\ outHand'[c] = taken + 1
        /\ \A d \in Clients \ {c} : outHand'[d] = outHand[d] /\ out'[d] = out[d]
    BY DEF TypeOK, UserType
  <1>3. \A d \in Clients : \A i \in DOMAIN sent[d] : sent[d][i] \in Nat /\ sent[d][i] <= taken
    BY BoundsAssumption DEF StreamInv, SentInv, TypeOK, SockType, Chunks
  <1>4. \A d \in Clients : out[d] = "send" => outHand[d] \in 1..taken
    BY DEF StreamInv, HandInv
  <1>5. SentInv'
    BY <1>1, <1>3 DEF SentInv
  <1>6. HandInv'
    <2> SUFFICES ASSUME NEW d \in Clients, out'[d] = "send"
                 PROVE  /\ outHand'[d] \in 1..taken'
                        /\ \A i \in DOMAIN sent[d] : sent[d][i] < outHand'[d]
                        /\ \A e \in Clients \ {d} :
                             /\ \A i \in DOMAIN sent[e] : sent[e][i] # outHand'[d]
                             /\ out'[e] = "send" => outHand'[e] # outHand'[d]
      BY DEF HandInv
    <2>1. CASE d = c
      <3>1. outHand'[d] \in 1..taken' /\ \A i \in DOMAIN sent[d] : sent[d][i] < outHand'[d]
        BY <1>1, <1>2, <1>3, <2>1
      <3>2. \A e \in Clients \ {d} : /\ \A i \in DOMAIN sent[e] : sent[e][i] # outHand'[d]
                                     /\ out'[e] = "send" => outHand'[e] # outHand'[d]
        BY <1>1, <1>2, <1>3, <1>4, <2>1
      <3> QED BY <3>1, <3>2
    <2>2. CASE d # c
      <3>1. out[d] = "send" /\ outHand'[d] = outHand[d] /\ outHand[d] \in 1..taken
        BY <1>2, <1>4, <2>2
      <3>2. \A i \in DOMAIN sent[d] : sent[d][i] < outHand[d]
        BY <3>1 DEF StreamInv, HandInv
      <3>3. ASSUME NEW e \in Clients \ {d}
            PROVE  /\ \A i \in DOMAIN sent[e] : sent[e][i] # outHand[d]
                   /\ out'[e] = "send" => outHand'[e] # outHand[d]
        <4>1. CASE e = c
          BY <1>1, <1>2, <3>1, <4>1 DEF StreamInv, HandInv
        <4>2. CASE e # c
          BY <1>2, <3>1, <4>2 DEF StreamInv, HandInv
        <4> QED BY <4>1, <4>2
      <3> QED BY <1>1, <3>1, <3>2, <3>3
    <2> QED BY <2>1, <2>2
  <1>7. OrderInv'
    BY DEF StreamInv, OrderInv
  <1> QED BY <1>5, <1>6, <1>7 DEF StreamInv

\* What is sent is newer than the rest of its stream, and in no other stream.
LEMMA StreamSend ==
  ASSUME TypeOK, StreamInv, NEW c \in Clients, out[c] = "send",
         sent' = [sent EXCEPT ![c] = Append(@, outHand[c])],
         out' = [out EXCEPT ![c] = "read"], UNCHANGED <<taken, outHand>>
  PROVE  StreamInv'
  <1> DEFINE h == outHand[c]
             n == Len(sent[c]) + 1
  <1>1. /\ h \in 1..taken /\ taken \in Nat
        /\ \A i \in DOMAIN sent[c] : sent[c][i] < h
        /\ \A d \in Clients \ {c} : \A i \in DOMAIN sent[d] : sent[d][i] # h
        /\ \A d \in Clients \ {c} : out[d] = "send" => outHand[d] # h
    BY BoundsAssumption DEF StreamInv, HandInv, TypeOK, PtyType
  <1>2. sent[c] \in Seq({0} \cup Chunks) /\ h \in {0} \cup Chunks
    BY DEF TypeOK, SockType, UserType
  <1>3. /\ sent'[c] = Append(sent[c], h)
        /\ \A d \in Clients \ {c} : sent'[d] = sent[d]
    BY DEF TypeOK, SockType
  <1>4. /\ out'[c] = "read"
        /\ \A d \in Clients \ {c} : out'[d] = out[d]
    BY DEF TypeOK, UserType
  <1>5. /\ n \in Nat \ {0} /\ DOMAIN sent[c] = 1..(n - 1) /\ DOMAIN sent'[c] = 1..n
        /\ \A i \in DOMAIN sent[c] : sent'[c][i] = sent[c][i] /\ sent[c][i] \in {0} \cup Chunks
        /\ sent'[c][n] = h
    BY <1>2, <1>3, AppendElement
  <1> HIDE DEF h, n
  <1>6. \A i \in DOMAIN sent'[c] : i \in DOMAIN sent[c] \/ i = n
    BY <1>5
  <1>7. SentInv'
    <2>1. \A i \in DOMAIN sent'[c] : sent'[c][i] <= taken
      BY <1>1, <1>5, <1>6 DEF StreamInv, SentInv
    <2>2. \A d \in Clients \ {c} : \A i \in DOMAIN sent'[d] : sent'[d][i] <= taken
      BY <1>3 DEF StreamInv, SentInv
    <2> QED BY <2>1, <2>2 DEF SentInv
  <1>8. HandInv'
    <2> SUFFICES ASSUME NEW d \in Clients, out'[d] = "send"
                 PROVE  /\ outHand[d] \in 1..taken
                        /\ \A i \in DOMAIN sent'[d] : sent'[d][i] < outHand[d]
                        /\ \A e \in Clients \ {d} :
                             /\ \A i \in DOMAIN sent'[e] : sent'[e][i] # outHand[d]
                             /\ out'[e] = "send" => outHand[e] # outHand[d]
      BY DEF HandInv
    <2>1. d # c /\ out[d] = "send" /\ sent'[d] = sent[d]
      BY <1>3, <1>4
    <2>2. /\ outHand[d] \in 1..taken /\ \A i \in DOMAIN sent[d] : sent[d][i] < outHand[d]
          /\ \A e \in Clients \ {d} : /\ \A i \in DOMAIN sent[e] : sent[e][i] # outHand[d]
                                      /\ out[e] = "send" => outHand[e] # outHand[d]
      BY <2>1 DEF StreamInv, HandInv
    <2>3. ASSUME NEW e \in Clients \ {d}
          PROVE  /\ \A i \in DOMAIN sent'[e] : sent'[e][i] # outHand[d]
                 /\ out'[e] = "send" => outHand[e] # outHand[d]
      <3>1. CASE e = c
        BY <1>1, <1>4, <1>5, <1>6, <2>1, <2>2, <3>1
      <3>2. CASE e # c
        BY <1>3, <1>4, <2>2, <3>2
      <3> QED BY <3>1, <3>2
    <2> QED BY <2>1, <2>2, <2>3
  <1>9. OrderInv'
    <2>1. ASSUME NEW d \in Clients, NEW i \in DOMAIN sent'[d], NEW j \in DOMAIN sent'[d], i < j
          PROVE  sent'[d][i] < sent'[d][j]
      <3>1. CASE d = c
        <4>1. i \in DOMAIN sent[c]
          BY <1>5, <2>1, <3>1
        <4> QED BY <1>1, <1>5, <1>6, <2>1, <3>1, <4>1 DEF StreamInv, OrderInv
      <3>2. CASE d # c
        BY <1>3, <2>1, <3>2 DEF StreamInv, OrderInv
      <3> QED BY <3>1, <3>2
    <2>2. ASSUME NEW d \in Clients, NEW e \in Clients, d # e,
                 NEW i \in DOMAIN sent'[d], NEW j \in DOMAIN sent'[e], sent'[d][i] # 0
          PROVE  sent'[d][i] # sent'[e][j]
      <3>1. CASE d = c
        BY <1>1, <1>3, <1>5, <1>6, <2>2, <3>1 DEF StreamInv, OrderInv
      <3>2. CASE e = c
        BY <1>1, <1>3, <1>5, <1>6, <2>2, <3>2 DEF StreamInv, OrderInv
      <3>3. CASE d # c /\ e # c
        BY <1>3, <2>2, <3>3 DEF StreamInv, OrderInv
      <3> QED BY <3>1, <3>2, <3>3
    <2> QED BY <2>1, <2>2 DEF OrderInv
  <1> QED BY <1>7, <1>8, <1>9 DEF StreamInv

LEMMA StreamStops ==
  ASSUME TypeOK, StreamInv, NEW c \in Clients, NEW x \in OutputEnded,
         out' = [out EXCEPT ![c] = x], UNCHANGED <<taken, sent, outHand>>
  PROVE  StreamInv'
  <1>1. \A d \in Clients : out'[d] = "send" => out[d] = "send"
    BY DEF TypeOK, UserType, OutputEnded
  <1> QED BY <1>1 DEF StreamInv, SentInv, HandInv, OrderInv

LEMMA StreamStep ==
  ASSUME TypeOK, FreshInv, StreamInv, Next PROVE StreamInv'
  <1>1. CASE UNCHANGED <<taken, sent, out, outHand>>
    BY <1>1, StreamSame
  <1>2. CASE Shell \/ Supervisor
    BY <1>1, <1>2 DEF Shell, ShellPrint, ShellReadKeys, ShellExit, Supervisor, SupHello,
       SupInit, SupClose, SupNewClient, CloseServer, ptyVars, sockVars, userVars
  <1>3. CASE Main
    BY <1>1, <1>3 DEF Main, MainHandshake, MainReply, AfterReply, MainInit, MainServe, MainGone, Exit,
       CloseServer, ptyVars, sockVars, userVars
  <1>4. ASSUME NEW c \in Clients, Client(c) PROVE StreamInv'
    BY <1>1, <1>4 DEF Client, ClientHello, ClientType, ClientReceive, ClientEnd, ClientReset,
       ClientClose, CloseClient, ptyVars, sockVars, userVars
  <1>5. ASSUME NEW c \in Clients, User(c) PROVE StreamInv'
    <2>1. CASE UserReply(c) /\ user'[c] = "joinOut"
      <3>1. UNCHANGED <<taken, outHand>> /\ user[c] = "reply" /\ user'[c] # "done"
        BY <2>1 DEF UserReply, ptyVars
      <3>2. ~UserReturns(c)
        BY <3>1 DEF UserReturns, TypeOK, UserType
      <3>3. /\ sent' = [sent EXCEPT ![c] = Append(@, 0)]
            /\ out' = [out EXCEPT ![c] = "read"]
        BY <2>1, <3>2 DEF UserReply
      <3> QED BY <3>1, <3>3, StreamReply
    <2>2. CASE UserReply(c) /\ user'[c] # "joinOut"
      <3>1. UserReturns(c) /\ UNCHANGED <<taken, out, outHand>>
        BY <2>2 DEF UserReply, ptyVars, TypeOK, UserType
      <3> QED BY <1>1, <3>1 DEF UserReturns, CloseServer
    <2>3. CASE UserHandshake(c) \/ UserJoinOutput(c) \/ UserJoinInput(c)
      BY <1>1, <2>3 DEF UserHandshake, UserJoinOutput, UserJoinInput, UserReturns,
         CloseServer, ptyVars
    <2> QED BY <1>5, <2>1, <2>2, <2>3 DEF User
  <1>6. ASSUME NEW c \in Clients, Input(c) PROVE StreamInv'
    BY <1>1, <1>6 DEF Input, InputReceive, InputWrite, ptyVars, sockVars
  <1>7. ASSUME NEW c \in Clients, OutputRead(c) PROVE StreamInv'
    <2>1. out[c] = "read" /\ UNCHANGED sent
      BY <1>7 DEF OutputRead, sockVars
    <2>2. \/ /\ taken' = taken + 1 /\ outHand' = [outHand EXCEPT ![c] = taken + 1]
             /\ out' = [out EXCEPT ![c] = "send"]
          \/ out' = [out EXCEPT ![c] = "Eio"] /\ UNCHANGED <<taken, outHand>>
      BY <1>7 DEF OutputRead, NextChunk
    <2> QED BY <2>1, <2>2, StreamRead, StreamStops DEF OutputEnded
  <1>8. ASSUME NEW c \in Clients, OutputSend(c) PROVE StreamInv'
    <2>1. out[c] = "send" /\ UNCHANGED <<taken, outHand>>
      BY <1>8 DEF OutputSend, ptyVars
    <2>2. \/ /\ sent' = [sent EXCEPT ![c] = Append(@, outHand[c])]
             /\ out' = [out EXCEPT ![c] = "read"]
          \/ out' = [out EXCEPT ![c] = "SendError"] /\ UNCHANGED sent
      BY <1>8 DEF OutputSend, AfterFailedSend
    <2> QED BY <2>1, <2>2, StreamSend, StreamStops DEF OutputEnded
  <1> QED BY <1>2, <1>3, <1>4, <1>5, <1>6, <1>7, <1>8 DEF Next, Output

\* A socket error at the service's end means that the client is gone.
LEMMA ResetStep ==
  ASSUME TypeOK, ResetInv, Next
  PROVE  ResetInv' /\ \A c \in Clients : cli[c] = "closed" => cli'[c] = "closed"
  <1> USE DEF TypeOK, CliType, SockType
  <1>1. CASE UNCHANGED cli /\ \A c \in Clients : srvReset'[c] => srvReset[c]
    BY <1>1 DEF ResetInv
  <1>2. CASE Shell \/ Supervisor
    BY <1>1, <1>2 DEF Shell, ShellPrint, ShellReadKeys, ShellExit, Supervisor, SupHello,
       SupInit, SupClose, SupNewClient, CloseServer, cliVars, sockVars
  <1>3. CASE Main
    BY <1>1, <1>3 DEF Main, MainHandshake, MainReply, AfterReply, MainInit, MainServe, MainGone, Exit,
       CloseServer, cliVars, sockVars
  <1>4. ASSUME NEW c \in Clients, Client(c)
        PROVE  ResetInv' /\ \A d \in Clients : cli[d] = "closed" => cli'[d] = "closed"
    <2>1. CASE ClientHello(c) \/ ClientType(c) \/ ClientReceive(c)
      BY <2>1 DEF ClientHello, ClientType, ClientReceive, ResetInv, sockVars
    <2>2. CASE ClientEnd(c) \/ ClientReset(c) \/ ClientClose(c)
      BY <2>2 DEF ClientEnd, ClientReset, ClientClose, CloseClient, ResetInv
    <2> QED BY <1>4, <2>1, <2>2 DEF Client
  <1>5. ASSUME NEW c \in Clients, User(c)
        PROVE  UNCHANGED cli /\ \A d \in Clients : srvReset'[d] => srvReset[d]
    <2>1. CASE UserReturns(c) /\ UNCHANGED cli
      BY <2>1 DEF UserReturns, CloseServer
    <2>2. CASE UserHandshake(c)
      BY <2>1, <2>2 DEF UserHandshake, cliVars
    <2>3. CASE UserReply(c)
      BY <2>1, <2>3 DEF UserReply, cliVars
    <2>4. CASE UserJoinOutput(c)
      BY <2>4 DEF UserJoinOutput, cliVars
    <2>5. CASE UserJoinInput(c)
      BY <2>1, <2>5 DEF UserJoinInput, cliVars
    <2> QED BY <1>5, <2>2, <2>3, <2>4, <2>5 DEF User
  <1>6. ASSUME NEW c \in Clients, Input(c) \/ Output(c)
        PROVE  UNCHANGED cli /\ \A d \in Clients : srvReset'[d] => srvReset[d]
    BY <1>6 DEF Input, InputReceive, InputWrite, Output, OutputRead, OutputSend,
       cliVars, sockVars
  <1> QED BY <1>1, <1>2, <1>3, <1>4, <1>5, <1>6 DEF Next

IndInv == TypeOK /\ QueueInv /\ FreshInv /\ StreamInv /\ ResetInv

LEMMA IndInit == Init => IndInv
  <1> SUFFICES ASSUME Init PROVE IndInv
    OBVIOUS
  <1>1. TypeOK
    BY InitType
  <1>2. QueueInv /\ FreshInv /\ ResetInv
    BY DEF Init, QueueInv, FreshInv, ResetInv
  <1>3. StreamInv
    BY DEF Init, StreamInv, SentInv, HandInv, OrderInv
  <1> QED BY <1>1, <1>2, <1>3 DEF IndInv

LEMMA IndStep == IndInv /\ [Next]_vars => IndInv'
  <1> SUFFICES ASSUME IndInv, [Next]_vars PROVE IndInv'
    OBVIOUS
  <1>1. TypeOK'
    BY TypeStep DEF IndInv
  <1>2. CASE UNCHANGED vars
    <2>1. QueueInv' /\ FreshInv' /\ ResetInv' /\ StreamInv'
      BY <1>2, QueueSame, FreshSame, StreamSame
      DEF IndInv, ResetInv, vars, supVars, ptyVars, cliVars, sockVars, userVars
    <2> QED BY <1>1, <2>1 DEF IndInv
  <1>3. CASE Next
    BY <1>1, <1>3, QueueStep, FreshStep, StreamStep, ResetStep DEF IndInv
  <1> QED BY <1>2, <1>3

LEMMA OrderedStreams == OrderInv => StreamOrder
  BY DEF OrderInv, StreamOrder, ChunksSent

\* Each client sees its part of the output in order and no chunk goes to two
\* clients, for any number of clients: what pty/mod.rs:55-56 leaves to chance is
\* only who gets which chunk.
THEOREM StreamsOrdered == Spec => []StreamOrder
  <1>1. IndInv => StreamOrder
    BY OrderedStreams DEF IndInv, StreamInv
  <1> QED BY <1>1, IndInit, IndStep, PTL DEF Spec

-----------------------------------------------------------------------------
(* No chunk disappears.                                                      *)

\* A stream is a history: messages are only ever added to it.
LEMMA SentOnlyGrows ==
  ASSUME TypeOK, Next
  PROVE  \/ UNCHANGED sent
         \/ \E d \in Clients, x \in {0} \cup Chunks : sent' = [sent EXCEPT ![d] = Append(@, x)]
  <1>1. CASE Shell \/ Supervisor
    BY <1>1 DEF Shell, ShellPrint, ShellReadKeys, ShellExit, Supervisor, SupHello,
       SupInit, SupClose, SupNewClient, CloseServer, sockVars
  <1>2. CASE Main
    BY <1>2 DEF Main, MainHandshake, MainReply, AfterReply, MainInit, MainServe, MainGone, Exit,
       CloseServer, sockVars
  <1>3. ASSUME NEW c \in Clients, Client(c) PROVE UNCHANGED sent
    BY <1>3 DEF Client, ClientHello, ClientType, ClientReceive, ClientEnd, ClientReset,
       ClientClose, CloseClient, sockVars
  <1>4. ASSUME NEW c \in Clients, User(c) \/ Input(c)
        PROVE  UNCHANGED sent \/ sent' = [sent EXCEPT ![c] = Append(@, 0)]
    BY <1>4 DEF User, UserHandshake, UserReply, UserJoinOutput, UserJoinInput, UserReturns,
       CloseServer, Input, InputReceive, InputWrite, sockVars
  <1>5. ASSUME NEW c \in Clients, Output(c)
        PROVE  UNCHANGED sent \/ sent' = [sent EXCEPT ![c] = Append(@, outHand[c])]
    BY <1>5 DEF Output, OutputRead, OutputSend, sockVars
  <1>6. \A c \in Clients : outHand[c] \in {0} \cup Chunks
    BY DEF TypeOK, UserType
  <1> QED BY <1>1, <1>2, <1>3, <1>4, <1>5, <1>6 DEF Next

\* Only c's own threads move what c's output thread holds.
LEMMA HandChanges ==
  ASSUME TypeOK, [Next]_vars, NEW c \in Clients, out[c] \in {"send", "SendError"}
  PROVE  UNCHANGED <<out[c], outHand[c]>> \/ OutputSend(c) \/ UserReply(c)
  <1>0. CASE UNCHANGED vars
    BY <1>0 DEF vars, userVars
  <1>1. CASE Shell \/ Supervisor
    BY <1>1 DEF Shell, ShellPrint, ShellReadKeys, ShellExit, Supervisor, SupHello,
       SupInit, SupClose, SupNewClient, userVars
  <1>2. CASE Main
    BY <1>2 DEF Main, MainHandshake, MainReply, AfterReply, MainInit, MainServe, MainGone, Exit, userVars
  <1>3. ASSUME NEW d \in Clients, Client(d) PROVE UNCHANGED <<out, outHand>>
    BY <1>3 DEF Client, ClientHello, ClientType, ClientReceive, ClientEnd, ClientReset,
       ClientClose, userVars
  <1>4. ASSUME NEW d \in Clients, User(d) \/ Input(d)
        PROVE  UNCHANGED <<out[c], outHand[c]>> \/ UserReply(c)
    BY <1>4 DEF User, UserHandshake, UserReply, UserJoinOutput, UserJoinInput,
       Input, InputReceive, InputWrite, TypeOK, UserType
  <1>5. ASSUME NEW d \in Clients, Output(d)
        PROVE  UNCHANGED <<out[c], outHand[c]>> \/ OutputSend(c)
    BY <1>5 DEF Output, OutputRead, OutputSend, TypeOK, UserType
  <1> QED BY <1>0, <1>1, <1>2, <1>3, <1>4, <1>5 DEF Next

\* The chunk k has gone to a client's socket, is in the hand that is to send it, or
\* in the hand of a thread that could not.
Placed(k) == \E c \in Clients :
  \/ k \in ChunksSent(c)
  \/ outHand[c] = k /\ out[c] = "send"
  \/ outHand[c] = k /\ out[c] = "SendError" /\ cli[c] = "closed"

PlacedInv == \A k \in 1..taken : Placed(k)

\* Wherever a chunk is, every step keeps it there or moves it on.
LEMMA PlacedStep ==
  ASSUME IndInv, [Next]_vars, NEW k \in Chunks, Placed(k)
  PROVE  Placed(k)'
  <1> USE DEF IndInv, TypeOK, SockType, UserType
  <1>1. PICK c \in Clients : \/ k \in ChunksSent(c)
                             \/ outHand[c] = k /\ out[c] = "send"
                             \/ outHand[c] = k /\ out[c] = "SendError" /\ cli[c] = "closed"
    BY DEF Placed
  <1>2. cli[c] = "closed" => cli'[c] = "closed"
    BY ResetStep DEF vars, cliVars
  <1>3. \/ UNCHANGED sent
        \/ \E d \in Clients, x \in {0} \cup Chunks : sent' = [sent EXCEPT ![d] = Append(@, x)]
    <2>1. CASE UNCHANGED vars
      BY <2>1 DEF vars, sockVars
    <2>2. CASE Next
      BY <2>2, SentOnlyGrows
    <2> QED BY <2>1, <2>2
  <1>4. CASE k \in ChunksSent(c)
    <2>1. PICK i \in DOMAIN sent[c] : sent[c][i] = k
      BY <1>4 DEF ChunksSent
    <2>2. i \in DOMAIN sent'[c] /\ sent'[c][i] = k
      <3>1. CASE UNCHANGED sent
        BY <2>1, <3>1
      <3>2. ASSUME NEW d \in Clients, NEW x \in {0} \cup Chunks,
                   sent' = [sent EXCEPT ![d] = Append(@, x)]
            PROVE  i \in DOMAIN sent'[c] /\ sent'[c][i] = k
        <4>1. CASE d = c
          BY <2>1, <3>2, <4>1, AppendElement
        <4>2. CASE d # c
          BY <2>1, <3>2, <4>2
        <4> QED BY <4>1, <4>2
      <3> QED BY <1>3, <3>1, <3>2
    <2>3. k # 0
      BY DEF Chunks
    <2> QED BY <2>2, <2>3 DEF Placed, ChunksSent
  <1>5. CASE UNCHANGED <<out[c], outHand[c]>> /\ k \notin ChunksSent(c)
    BY <1>1, <1>2, <1>5 DEF Placed
  <1>6. CASE /\ k \notin ChunksSent(c)
             /\ outHand[c] = k /\ out[c] \in {"send", "SendError"}
             /\ ~UNCHANGED <<out[c], outHand[c]>>
    <2>1. OutputSend(c) \/ UserReply(c)
      BY <1>6, HandChanges
    <2>2. user[c] = "reply" => out[c] = "off"
      BY DEF FreshInv
    <2>3. OutputSend(c) /\ out[c] = "send"
      BY <1>6, <2>1, <2>2 DEF OutputSend, UserReply
    <2>4. CASE SendFits(c)
      <3>1. sent' = [sent EXCEPT ![c] = Append(@, k)]
        BY <1>6, <2>3, <2>4 DEF OutputSend, SendFits, SendFails
      <3>2. Len(sent[c]) + 1 \in DOMAIN sent'[c] /\ sent'[c][Len(sent[c]) + 1] = k
        BY <3>1, AppendElement
      <3>3. k # 0
        BY DEF Chunks
      <3> QED BY <3>2, <3>3 DEF Placed, ChunksSent
    <2>5. CASE ~SendFits(c)
      <3>1. /\ SendFails(c) /\ out'[c] = "SendError" /\ outHand'[c] = k
        BY <1>6, <2>3, <2>5 DEF OutputSend, AfterFailedSend
      <3>2. cli[c] = "closed"
        BY <3>1 DEF SendFails, ResetInv
      <3> QED BY <1>2, <3>1, <3>2 DEF Placed
    <2> QED BY <2>4, <2>5
  <1> QED BY <1>1, <1>4, <1>5, <1>6

\* A chunk that is taken is in the hand of the thread that took it.
LEMMA TakenStep ==
  ASSUME IndInv, [Next]_vars
  PROVE  taken' = taken \/ (taken' = taken + 1 /\ Placed(taken)')
  <1>0. CASE UNCHANGED vars
    BY <1>0 DEF vars, ptyVars
  <1>1. CASE Shell \/ Supervisor
    BY <1>1 DEF Shell, ShellPrint, ShellReadKeys, ShellExit, Supervisor, SupHello,
       SupInit, SupClose, SupNewClient, ptyVars
  <1>2. CASE Main
    BY <1>2 DEF Main, MainHandshake, MainReply, AfterReply, MainInit, MainServe, MainGone, Exit, ptyVars
  <1>3. ASSUME NEW d \in Clients, Client(d) PROVE taken' = taken
    BY <1>3 DEF Client, ClientHello, ClientType, ClientReceive, ClientEnd, ClientReset,
       ClientClose, ptyVars
  <1>4. ASSUME NEW d \in Clients, User(d) \/ Input(d) \/ OutputSend(d) PROVE taken' = taken
    BY <1>4 DEF User, UserHandshake, UserReply, UserJoinOutput, UserJoinInput,
       Input, InputReceive, InputWrite, OutputSend, ptyVars
  <1>5. ASSUME NEW d \in Clients, OutputRead(d)
        PROVE  taken' = taken \/ (taken' = taken + 1 /\ Placed(taken)')
    <2>1. CASE taken' # taken
      <3>1. /\ taken' = taken + 1 /\ outHand' = [outHand EXCEPT ![d] = taken + 1]
            /\ out' = [out EXCEPT ![d] = "send"]
        BY <1>5, <2>1 DEF OutputRead, NextChunk
      <3>2. outHand'[d] = taken + 1 /\ out'[d] = "send"
        BY <3>1 DEF IndInv, TypeOK, UserType
      <3> QED BY <3>1, <3>2 DEF Placed
    <2> QED BY <2>1
  <1> QED BY <1>0, <1>1, <1>2, <1>3, <1>4, <1>5 DEF Next, Output

LEMMA PlacedInvStep == IndInv /\ PlacedInv /\ [Next]_vars => PlacedInv'
  <1> SUFFICES ASSUME IndInv, PlacedInv, [Next]_vars, NEW k \in 1..taken'
               PROVE  Placed(k)'
    BY DEF PlacedInv
  <1>1. taken \in Nat /\ taken <= MaxChunks
    BY BoundsAssumption DEF IndInv, TypeOK, PtyType
  <1>2. CASE k \in 1..taken
    <2>1. k \in Chunks
      BY <1>1, <1>2, BoundsAssumption DEF Chunks
    <2> QED BY <1>2, <2>1, PlacedStep DEF PlacedInv
  <1>3. CASE k \notin 1..taken
    <2>1. k = taken' /\ taken' = taken + 1
      BY <1>1, <1>3, TakenStep
    <2> QED BY <1>1, <2>1, TakenStep
  <1> QED BY <1>2, <1>3

\* A client has received no more than it was sent, and a socket holds no more than
\* it has room for.
RoomInv == \A c \in Clients : got[c] <= Len(sent[c]) /\ Unread(c) <= SocketCap

LEMMA RoomSame == ASSUME RoomInv, UNCHANGED <<sent, got>> PROVE RoomInv'
  BY DEF RoomInv, Unread

\* A message is sent only where there is room for it.
LEMMA RoomSend ==
  ASSUME TypeOK, RoomInv, NEW c \in Clients, NEW x \in {0} \cup Chunks, SendFits(c),
         sent' = [sent EXCEPT ![c] = Append(@, x)], UNCHANGED got
  PROVE  RoomInv'
  <1>1. sent[c] \in Seq({0} \cup Chunks) /\ got[c] \in Nat
    BY DEF TypeOK, SockType, CliType
  <1>2. sent'[c] = Append(sent[c], x) /\ \A d \in Clients \ {c} : sent'[d] = sent[d]
    BY DEF TypeOK, SockType
  <1>3. Len(sent'[c]) = Len(sent[c]) + 1 /\ Len(sent[c]) \in Nat
    BY <1>1, <1>2, AppendProperties
  <1>4. Len(sent[c]) - got[c] < SocketCap
    BY DEF SendFits, Unread
  <1>5. got[c] <= Len(sent'[c]) /\ Len(sent'[c]) - got[c] <= SocketCap
    BY <1>1, <1>3, <1>4, BoundsAssumption DEF RoomInv
  <1> QED BY <1>2, <1>5 DEF RoomInv, Unread

LEMMA RoomStep == TypeOK /\ RoomInv /\ [Next]_vars => RoomInv'
  <1> SUFFICES ASSUME TypeOK, RoomInv, [Next]_vars PROVE RoomInv'
    OBVIOUS
  <1>0. CASE UNCHANGED vars
    BY <1>0, RoomSame DEF vars, cliVars, sockVars
  <1>1. CASE Shell \/ Supervisor
    BY <1>1, RoomSame DEF Shell, ShellPrint, ShellReadKeys, ShellExit, Supervisor, SupHello,
       SupInit, SupClose, SupNewClient, CloseServer, cliVars, sockVars
  <1>2. CASE Main
    BY <1>2, RoomSame DEF Main, MainHandshake, MainReply, AfterReply, MainInit, MainServe,
       MainGone, Exit, CloseServer, cliVars, sockVars
  <1>3. ASSUME NEW c \in Clients, ClientReceive(c) PROVE RoomInv'
    <2>1. /\ got' = [got EXCEPT ![c] = @ + 1] /\ UNCHANGED sent
          /\ Len(sent[c]) - got[c] > 0
      BY <1>3 DEF ClientReceive, Unread, sockVars
    <2>2. got[c] \in Nat /\ Len(sent[c]) \in Nat
      BY DEF TypeOK, CliType, SockType
    <2>3. got'[c] = got[c] + 1 /\ \A d \in Clients \ {c} : got'[d] = got[d]
      BY <2>1 DEF TypeOK, CliType
    <2>4. Len(sent[c]) - got[c] <= SocketCap
      BY DEF RoomInv, Unread
    <2>5. got'[c] <= Len(sent[c]) /\ Len(sent[c]) - got'[c] <= SocketCap
      BY <2>1, <2>2, <2>3, <2>4, BoundsAssumption
    <2> QED BY <2>1, <2>3, <2>5 DEF RoomInv, Unread
  <1>4. ASSUME NEW c \in Clients, Client(c), ~ClientReceive(c) PROVE RoomInv'
    BY <1>4, RoomSame DEF Client, ClientHello, ClientType, ClientEnd, ClientReset, ClientClose,
       CloseClient
  <1>5. ASSUME NEW c \in Clients, User(c) PROVE RoomInv'
    <2>1. CASE UNCHANGED <<sent, got>>
      BY <2>1, RoomSame
    <2>2. CASE SendFits(c) /\ sent' = [sent EXCEPT ![c] = Append(@, 0)] /\ UNCHANGED got
      BY <2>2, RoomSend
    <2> QED BY <1>5, <2>1, <2>2 DEF User, UserHandshake, UserReply, UserJoinOutput,
               UserJoinInput, UserReturns, CloseServer, cliVars
  <1>6. ASSUME NEW c \in Clients, Input(c) \/ Output(c) PROVE RoomInv'
    <2>1. CASE UNCHANGED <<sent, got>>
      BY <2>1, RoomSame
    <2>2. CASE SendFits(c) /\ sent' = [sent EXCEPT ![c] = Append(@, outHand[c])] /\ UNCHANGED got
      BY <2>2, RoomSend DEF TypeOK, UserType
    <2> QED BY <1>6, <2>1, <2>2 DEF Input, InputReceive, InputWrite, Output, OutputRead,
               OutputSend, cliVars, sockVars
  <1> QED BY <1>0, <1>1, <1>2, <1>3, <1>4, <1>5, <1>6 DEF Next

\* What was lost with a client is no more than its socket holds and its output
\* thread had in hand.
LEMMA LossIsBounded ==
  ASSUME TypeOK, RoomInv, NEW c \in Clients
  PROVE  Cardinality(LostWith(c)) <= SocketCap + 1
  <1> DEFINE I == (got[c] + 1)..Len(sent[c])
             f == [i \in I |-> sent[c][i]]
             T == {sent[c][i] : i \in I}
  <1>1. /\ got[c] \in Nat /\ Len(sent[c]) \in Nat
        /\ Len(sent[c]) - got[c] <= SocketCap /\ SocketCap \in Nat
    BY BoundsAssumption DEF TypeOK, CliType, SockType, RoomInv, Unread
  <1>2. IsFiniteSet(I) /\ Cardinality(I) <= SocketCap /\ Cardinality(I) \in Nat
    <2>1. got[c] + 1 \in Int /\ Len(sent[c]) \in Int
      BY <1>1
    <2>2. IsFiniteSet(I)
      BY <2>1, FS_Interval
    <2>3. Cardinality(I) = IF got[c] + 1 > Len(sent[c]) THEN 0
                           ELSE Len(sent[c]) - (got[c] + 1) + 1
      BY <2>1, FS_Interval
    <2> QED BY <1>1, <2>2, <2>3
  <1>3. f \in Surjection(I, T)
    BY DEF Surjection
  <1> HIDE DEF I, f
  <1>4. IsFiniteSet(T) /\ Cardinality(T) <= Cardinality(I)
    BY <1>2, <1>3, FS_Surjection
  <1>5. IsFiniteSet(T \cup {outHand[c]}) /\ Cardinality(T \cup {outHand[c]}) <= Cardinality(T) + 1
    <2>1. Cardinality(T) \in Nat
      BY <1>4, FS_CardinalityType
    <2>2. IsFiniteSet(T \cup {outHand[c]})
      BY <1>4, FS_AddElement
    <2>3. Cardinality(T \cup {outHand[c]}) =
            IF outHand[c] \in T THEN Cardinality(T) ELSE Cardinality(T) + 1
      BY <1>4, FS_AddElement
    <2> QED BY <2>1, <2>2, <2>3
  <1>6. LostWith(c) \in SUBSET (T \cup {outHand[c]})
    BY DEF LostWith, InSocket, InHand, I
  <1>7. Cardinality(LostWith(c)) <= Cardinality(T \cup {outHand[c]})
    BY <1>5, <1>6, FS_Subset
  <1>8. Cardinality(LostWith(c)) \in Nat /\ Cardinality(T) \in Nat
        /\ Cardinality(T \cup {outHand[c]}) \in Nat
    BY <1>4, <1>5, <1>6, FS_Subset, FS_CardinalityType
  <1> QED BY <1>1, <1>2, <1>4, <1>5, <1>7, <1>8

\* Where a chunk is placed decides whether it is received, under way or lost.
LEMMA PlacedIsAccounted ==
  ASSUME TypeOK, NEW k \in 1..taken, Placed(k)
  PROVE  Accounted(k) \/ \E c \in Clients : k \in LostAtExit(c)
  <1>1. PICK c \in Clients : \/ k \in ChunksSent(c)
                             \/ outHand[c] = k /\ out[c] = "send"
                             \/ outHand[c] = k /\ out[c] = "SendError" /\ cli[c] = "closed"
    BY DEF Placed
  <1>2. CASE k \in ChunksSent(c)
    <2>1. PICK i \in DOMAIN sent[c] : sent[c][i] = k
      BY <1>2 DEF ChunksSent
    <2>2. i \in 1..got[c] \/ i \in (got[c] + 1)..Len(sent[c])
      BY <2>1 DEF TypeOK, CliType, SockType
    <2>3. k # 0
      BY DEF TypeOK, PtyType
    <2>4. k \in Received(c) \/ k \in InSocket(c)
      BY <2>1, <2>2, <2>3 DEF Received, InSocket
    <2> QED BY <2>4 DEF Accounted, UnderWay, LostWith
  <1>3. CASE outHand[c] = k /\ out[c] = "send"
    <2>1. k \in InHand(c)
      BY <1>3 DEF InHand
    <2> QED BY <1>3, <2>1 DEF Accounted, UnderWay, LostWith, LostAtExit
  <1>4. CASE outHand[c] = k /\ out[c] = "SendError" /\ cli[c] = "closed"
    <2>1. k \in InHand(c)
      BY <1>4 DEF InHand
    <2> QED BY <1>4, <2>1 DEF Accounted, LostWith
  <1> QED BY <1>1, <1>2, <1>3, <1>4

\* Every chunk that was taken from the PTY was received, is on its way to a client, or
\* was lost with a client that closed its socket or with the process; and a client
\* takes no more with it than its socket holds and its output thread had in hand.
THEOREM OutputConserved == Spec => []ConservedOutput
  <1>1. Init => PlacedInv /\ RoomInv
    BY BoundsAssumption DEF Init, PlacedInv, RoomInv, Unread
  <1>2. IndInv /\ PlacedInv /\ RoomInv => ConservedOutput
    BY PlacedIsAccounted, LossIsBounded DEF IndInv, PlacedInv, ConservedOutput
  <1>3. IndInv => TypeOK
    BY DEF IndInv
  <1> QED BY <1>1, <1>2, <1>3, IndInit, IndStep, PlacedInvStep, RoomStep, PTL DEF Spec

-----------------------------------------------------------------------------
(* What a clean end of the stream tells a client.                            *)

\* While the process runs, the socket of a client that is served is open until
\* the output thread is over.
OpenInv == \A c \in Clients :
  Alive /\ user[c] \in {"hello", "reply", "joinOut"} => srv[c] = "open"

LEMMA OpenStep == ASSUME IndInv, OpenInv, Next PROVE OpenInv'
  <1>1. CASE Shell
    <2>1. UNCHANGED <<main, user, srv>>
      BY <1>1 DEF Shell, ShellPrint, ShellReadKeys, ShellExit, mainVars, sockVars, userVars
    <2> QED BY <2>1 DEF OpenInv, Alive
  <1>2. CASE Supervisor
    <2>1. UNCHANGED <<main, user>>
      BY <1>2 DEF Supervisor, SupHello, SupInit, SupClose, SupNewClient, mainVars, userVars
    <2>2. ASSUME NEW c \in Clients, srv[c] = "open" PROVE srv'[c] = "open"
      <3>1. CASE SupHello \/ SupInit
        BY <2>2, <3>1 DEF SupHello, SupInit, sockVars
      <3>2. CASE SupClose
        BY <2>2, <3>2 DEF SupClose, CloseServer
      <3>3. ASSUME NEW d \in Clients, SupNewClient(d) PROVE srv'[c] = "open"
        BY <2>2, <3>3 DEF SupNewClient, IndInv, TypeOK, SockType
      <3> QED BY <1>2, <3>1, <3>2, <3>3 DEF Supervisor
    <2> QED BY <2>1, <2>2 DEF OpenInv, Alive
  <1>3. CASE Main
    <2>1. CASE main' = "exited"
      BY <2>1 DEF OpenInv, Alive
    <2>2. CASE main' # "exited" /\ UNCHANGED <<srv, user>>
      BY <1>3, <2>2 DEF Main, MainHandshake, MainReply, MainInit, MainServe, OpenInv, Alive
    <2>3. CASE MainServe /\ main' # "exited"
      <3>1. /\ Alive
            /\ srv' = [srv EXCEPT ![Head(supQ).client] = "open"]
            /\ user' = [user EXCEPT ![Head(supQ).client] = "hello"]
        BY <2>3 DEF MainServe, MainGone, Exit, Alive
      <3> QED BY <3>1 DEF OpenInv, IndInv, TypeOK, SockType, UserType
    <2> QED BY <1>3, <2>1, <2>2, <2>3 DEF Main, MainHandshake, MainReply, MainInit, MainGone, Exit,
            sockVars, userVars
  <1>4. ASSUME NEW c \in Clients, Client(c) \/ Input(c) \/ Output(c) PROVE OpenInv'
    BY <1>4 DEF Client, ClientHello, ClientType, ClientReceive, ClientEnd, ClientReset, ClientClose,
       CloseClient, Input, InputReceive, InputWrite, Output, OutputRead, OutputSend,
       mainVars, sockVars, userVars, OpenInv, Alive
  <1>5. ASSUME NEW c \in Clients, User(c) PROVE OpenInv'
    <2>1. CASE UserReturns(c)
      BY <1>5, <2>1 DEF User, UserHandshake, UserReply, UserJoinOutput, UserJoinInput, UserReturns,
         CloseServer, mainVars, OpenInv, Alive, IndInv, TypeOK, UserType
    <2>2. CASE ~UserReturns(c)
      <3>1. /\ UNCHANGED main
            /\ \/ /\ UNCHANGED srv /\ user[c] \in {"hello", "reply"}
                  /\ \E x \in {"reply", "joinOut"} : user' = [user EXCEPT ![c] = x]
               \/ /\ user' = [user EXCEPT ![c] = "joinIn"]
                  /\ srv' = [srv EXCEPT ![c] = "readshut"]
        BY <1>5, <2>2 DEF User, UserHandshake, UserReply, UserJoinOutput, UserJoinInput,
           ShutDownRead, mainVars
      <3> QED BY <3>1 DEF OpenInv, Alive, IndInv, TypeOK, UserType, SockType
    <2> QED BY <2>1, <2>2
  <1> QED BY <1>1, <1>2, <1>3, <1>4, <1>5 DEF Next

\* EIO is read from a PTY that is drained and has no shell left.
EioInv == \A c \in Clients : out[c] = "Eio" => ~shell /\ taken = printed

\* A socket the service closed, while it runs, has no output thread any more.
CloseInv == \A c \in Clients :
  /\ user[c] = "joinIn" => out[c] \in OutputEnded
  /\ user[c] = "done" => out[c] \in OutputEnded \cup {"off"}
  /\ Alive /\ srv[c] = "closed" /\ sent[c] # <<>> => out[c] \in OutputEnded

\* Sends fail with clients that left.
ErrorInv == \A c \in Clients : out[c] = "SendError" => cli[c] = "closed"

\* A client that saw the end has left, and its output thread had seen it too.
SeenInv == \A c \in Clients :
  /\ seen[c] # "nothing" => cli[c] = "closed"
  /\ seen[c] = "End" /\ sent[c] # <<>> /\ Alive => out[c] = "Eio"

EndInv == EioInv /\ CloseInv /\ ErrorInv /\ SeenInv

LEMMA EndSame ==
  ASSUME IndInv, EndInv,
         UNCHANGED <<out, sent, cli, seen>>,
         shell' => shell, taken' = taken, shell \/ printed' = printed,
         main' = main \/ main' = "exited" \/ Alive,
         \A c \in Clients : user'[c] = "joinIn" => user[c] = "joinIn" \/ out[c] \in OutputEnded,
         \A c \in Clients : user'[c] = "done" =>
                              user[c] = "done" \/ out[c] \in OutputEnded \cup {"off"},
         \A c \in Clients : srv'[c] = "closed" => \/ srv[c] = "closed"
                                                  \/ sent[c] = <<>>
                                                  \/ out[c] \in OutputEnded
                                                  \/ main' = "exited"
  PROVE  EndInv'
  <1>1. EioInv'
    BY DEF EndInv, EioInv
  <1>2. CloseInv'
    BY DEF EndInv, CloseInv, Alive
  <1>3. ErrorInv' /\ SeenInv'
    BY DEF EndInv, ErrorInv, SeenInv, Alive
  <1> QED BY <1>1, <1>2, <1>3 DEF EndInv

LEMMA EndShell == ASSUME IndInv, EndInv, Shell PROVE EndInv'
  <1>1. CASE ShellPrint \/ ShellReadKeys \/ ShellExit
    <2>1. /\ UNCHANGED <<out, sent, cli, seen, main, user, srv>>
          /\ shell' => shell
          /\ taken' = taken
          /\ shell \/ printed' = printed
      BY <1>1 DEF ShellPrint, ShellReadKeys, ShellExit, mainVars, cliVars, sockVars, userVars
    <2> QED BY <2>1, EndSame
  <1> QED BY <1>1 DEF Shell

LEMMA EndSupervisor == ASSUME IndInv, EndInv, Supervisor PROVE EndInv'
  <1>1. UNCHANGED <<out, sent, cli, seen, main, user, shell, taken, printed>>
    BY DEF Supervisor, SupHello, SupInit, SupClose, SupNewClient, CloseServer, mainVars, ptyVars,
           cliVars, sockVars, userVars
  <1>2. \A c \in Clients : srv'[c] = "closed" => srv[c] \in {"closed", "held"}
    BY DEF Supervisor, SupHello, SupInit, SupClose, SupNewClient, CloseServer, sockVars,
           IndInv, TypeOK, SockType
  <1>3. \A c \in Clients : srv[c] = "held" => sent[c] = <<>>
    BY DEF IndInv, FreshInv
  <1> QED BY <1>1, <1>2, <1>3, EndSame

LEMMA EndMain == ASSUME IndInv, EndInv, Main PROVE EndInv'
  <1>1. UNCHANGED <<out, sent, cli, seen, shell, taken, printed>>
    BY DEF Main, MainHandshake, MainReply, AfterReply, MainInit, MainServe, MainGone, Exit,
           CloseServer, ptyVars, cliVars, sockVars, userVars
  <1>2. Alive
    BY DEF Main, MainHandshake, MainReply, MainInit, MainServe, Alive
  <1>3. \A c \in Clients : user'[c] \in {"joinIn", "done"} => user'[c] = user[c]
    BY DEF Main, MainHandshake, MainReply, AfterReply, MainInit, MainServe, MainGone, Exit,
           userVars, IndInv, TypeOK, UserType
  <1>4. \A c \in Clients : srv'[c] = "closed" => srv[c] = "closed" \/ main' = "exited"
    BY DEF Main, MainHandshake, MainReply, AfterReply, MainInit, MainServe, MainGone, Exit,
           sockVars, IndInv, TypeOK, SockType
  <1> QED BY <1>1, <1>2, <1>3, <1>4, EndSame

LEMMA EndClient == ASSUME IndInv, EndInv, NEW c \in Clients, Client(c) PROVE EndInv'
  <1>1. UNCHANGED <<out, sent, main, user, srv, shell, taken, printed>>
    BY DEF Client, ClientHello, ClientType, ClientReceive, ClientEnd, ClientReset, ClientClose,
           CloseClient, mainVars, ptyVars, sockVars, userVars
  <1>2. /\ \A d \in Clients \ {c} : cli'[d] = cli[d] /\ seen'[d] = seen[d]
        /\ cli[c] = "closed" => cli'[c] = "closed"
        /\ seen'[c] # seen[c] => cli'[c] = "closed"
    BY DEF Client, ClientHello, ClientType, ClientReceive, ClientEnd, ClientReset, ClientClose,
           CloseClient, cliVars, IndInv, TypeOK, CliType
  <1>3. EioInv' /\ CloseInv' /\ ErrorInv'
    BY <1>1, <1>2 DEF EndInv, EioInv, CloseInv, ErrorInv, Alive
  <1>4. seen'[c] = "End" /\ sent[c] # <<>> /\ Alive => out[c] = "Eio"
    <2>1. CASE ClientEnd(c)
      <3>1. srv[c] = "closed" /\ cli[c] # "closed"
        BY <2>1 DEF ClientEnd
      <3> QED BY <3>1 DEF EndInv, CloseInv, ErrorInv, OutputEnded
    <2>2. CASE ~ClientEnd(c)
      <3>1. seen'[c] = "End" => seen[c] = "End"
        BY <2>2 DEF Client, ClientHello, ClientType, ClientReceive, ClientReset, ClientClose,
           CloseClient, cliVars, IndInv, TypeOK, CliType
      <3> QED BY <3>1 DEF EndInv, SeenInv
    <2> QED BY <2>1, <2>2
  <1>5. SeenInv'
    BY <1>1, <1>2, <1>4 DEF EndInv, SeenInv, Alive
  <1> QED BY <1>3, <1>5 DEF EndInv

LEMMA EndUser == ASSUME IndInv, OpenInv, EndInv, NEW c \in Clients, User(c) PROVE EndInv'
  <1>1. UNCHANGED <<cli, seen, main, shell, taken, printed>>
    BY DEF User, UserHandshake, UserReply, UserJoinOutput, UserJoinInput, mainVars, ptyVars, cliVars
  <1>2. CASE UserReply(c) /\ SendFits(c)
    <2>1. /\ sent' = [sent EXCEPT ![c] = Append(@, 0)]
          /\ out' = [out EXCEPT ![c] = "read"]
          /\ user' = [user EXCEPT ![c] = "joinOut"]
          /\ UNCHANGED srv /\ user[c] = "reply"
      BY <1>2 DEF UserReply, SendFits
    <2>2. /\ \A d \in Clients \ {c} : sent'[d] = sent[d] /\ out'[d] = out[d] /\ user'[d] = user[d]
          /\ out'[c] = "read" /\ user'[c] = "joinOut"
      BY <2>1 DEF IndInv, TypeOK, SockType, UserType
    <2>3. cli[c] # "closed"
      BY <1>2 DEF SendFits, SendFails
    <2>4. Alive => srv[c] = "open"
      BY <2>1 DEF OpenInv
    <2>5. seen[c] = "nothing"
      BY <2>3 DEF EndInv, SeenInv
    <2>6. EioInv' /\ ErrorInv'
      BY <1>1, <2>2 DEF EndInv, EioInv, ErrorInv
    <2>7. CloseInv'
      BY <1>1, <2>1, <2>2, <2>4 DEF EndInv, CloseInv, Alive
    <2>8. SeenInv'
      BY <1>1, <2>2, <2>5 DEF EndInv, SeenInv, Alive
    <2> QED BY <2>6, <2>7, <2>8 DEF EndInv
  <1>3. CASE ~(UserReply(c) /\ SendFits(c))
    <2>1. UNCHANGED <<out, sent>>
      BY <1>3 DEF User, UserHandshake, UserReply, UserJoinOutput, UserJoinInput, UserReturns,
         CloseServer, SendFits, sockVars
    <2>2. \A d \in Clients :
            /\ user'[d] = "joinIn" => user[d] = "joinIn" \/ out[d] \in OutputEnded
            /\ user'[d] = "done" => \/ user[d] = "done"
                                    \/ d = c /\ user[c] \in {"hello", "reply", "joinIn"}
      <3>1. \/ user' = [user EXCEPT ![c] = "reply"]
            \/ user' = [user EXCEPT ![c] = "joinIn"] /\ out[c] \in OutputEnded
            \/ user' = [user EXCEPT ![c] = "done"] /\ user[c] \in {"hello", "reply", "joinIn"}
        BY <1>3 DEF User, UserHandshake, UserReply, UserJoinOutput, UserJoinInput, UserReturns,
           JoinedFirst
      <3> SUFFICES ASSUME NEW d \in Clients
                   PROVE  /\ user'[d] = "joinIn" => user[d] = "joinIn" \/ out[d] \in OutputEnded
                          /\ user'[d] = "done" => \/ user[d] = "done"
                                                  \/ d = c /\ user[c] \in {"hello", "reply", "joinIn"}
        OBVIOUS
      <3>2. CASE d = c
        BY <3>1, <3>2 DEF IndInv, TypeOK, UserType
      <3>3. CASE d # c
        <4>1. user'[d] = user[d]
          BY <3>1, <3>3 DEF IndInv, TypeOK, UserType
        <4> QED BY <4>1
      <3> QED BY <3>2, <3>3
    <2>3. \A d \in Clients : srv'[d] = "closed" => \/ srv[d] = "closed"
                                                   \/ d = c /\ user[c] \in {"hello", "reply", "joinIn"}
      BY <1>3 DEF User, UserHandshake, UserReply, UserJoinOutput, UserJoinInput, UserReturns,
         CloseServer, ShutDownRead, IndInv, TypeOK, SockType
    <2>4. /\ user[c] \in {"hello", "reply"} => sent[c] = <<>> /\ out[c] = "off"
          /\ user[c] = "joinIn" => out[c] \in OutputEnded
      BY DEF IndInv, FreshInv, EndInv, CloseInv
    <2> QED BY <1>1, <2>1, <2>2, <2>3, <2>4, EndSame
  <1> QED BY <1>2, <1>3

LEMMA EndInput == ASSUME IndInv, EndInv, NEW c \in Clients, Input(c) PROVE EndInv'
  <1>1. UNCHANGED <<out, sent, cli, seen, main, user, srv, shell, taken, printed>>
    BY DEF Input, InputReceive, InputWrite, mainVars, ptyVars, cliVars, sockVars
  <1> QED BY <1>1, EndSame

LEMMA EndOutput == ASSUME IndInv, OpenInv, EndInv, NEW c \in Clients, Output(c) PROVE EndInv'
  <1>1. UNCHANGED <<cli, seen, main, user, srv, shell, printed>> /\ Alive
    BY DEF Output, OutputRead, OutputSend, mainVars, ptyVars, cliVars, sockVars
  <1>2. \A d \in Clients \ {c} : out'[d] = out[d] /\ sent'[d] = sent[d]
    BY DEF Output, OutputRead, OutputSend, sockVars, IndInv, TypeOK, SockType, UserType
  <1>3. out[c] \in {"read", "send"} /\ out[c] \notin OutputEnded
    BY DEF Output, OutputRead, OutputSend, OutputEnded
  <1>4. CASE OutputRead(c)
    <2>1. /\ UNCHANGED sent
          /\ \/ taken < printed /\ out'[c] = "send"
             \/ UNCHANGED taken /\ taken = printed /\ ~shell /\ out'[c] = "Eio"
      BY <1>4 DEF OutputRead, sockVars, IndInv, TypeOK, UserType
    <2>2. EioInv'
      <3>1. CASE taken < printed /\ out'[c] = "send"
        <4>1. taken # printed
          BY <3>1, BoundsAssumption DEF IndInv, TypeOK, PtyType
        <4> QED BY <1>2, <3>1, <4>1 DEF EndInv, EioInv
      <3>2. CASE UNCHANGED taken /\ taken = printed /\ ~shell
        BY <1>1, <3>2 DEF EioInv
      <3> QED BY <2>1, <3>1, <3>2
    <2>3. CloseInv' /\ ErrorInv' /\ SeenInv'
      BY <1>1, <1>2, <1>3, <2>1 DEF EndInv, CloseInv, ErrorInv, SeenInv, Alive, OutputEnded
    <2> QED BY <2>2, <2>3 DEF EndInv
  <1>5. CASE OutputSend(c)
    <2>1. /\ UNCHANGED taken
          /\ \/ out'[c] = "read" /\ cli[c] # "closed"
             \/ out'[c] = "SendError" /\ UNCHANGED sent /\ cli[c] = "closed"
      BY <1>5 DEF OutputSend, AfterFailedSend, SendFits, SendFails, ptyVars, IndInv, TypeOK, UserType,
         ResetInv
    <2>2. EioInv' /\ ErrorInv'
      BY <1>1, <1>2, <2>1 DEF EndInv, EioInv, ErrorInv
    <2>4. CloseInv'
      <3>1. user[c] = "joinOut"
        BY <1>3 DEF IndInv, TypeOK, UserType, FreshInv, EndInv, CloseInv, OutputEnded
      <3>2. srv[c] = "open"
        BY <1>1, <3>1 DEF OpenInv
      <3> QED BY <1>1, <1>2, <3>1, <3>2 DEF EndInv, CloseInv, Alive
    <2>5. SeenInv'
      BY <1>1, <1>2, <1>3, <2>1 DEF EndInv, SeenInv, OutputEnded
    <2> QED BY <2>2, <2>4, <2>5 DEF EndInv
  <1> QED BY <1>4, <1>5 DEF Output

LEMMA EndStep == IndInv /\ OpenInv /\ EndInv /\ [Next]_vars => OpenInv' /\ EndInv'
  <1> SUFFICES ASSUME IndInv, OpenInv, EndInv, [Next]_vars PROVE OpenInv' /\ EndInv'
    OBVIOUS
  <1>1. CASE UNCHANGED vars
    BY <1>1, EndSame DEF vars, mainVars, ptyVars, cliVars, sockVars, userVars, OpenInv, Alive
  <1>2. CASE Next
    BY <1>2, OpenStep, EndShell, EndSupervisor, EndMain, EndClient, EndUser, EndInput, EndOutput
       DEF Next
  <1> QED BY <1>1, <1>2

\* A client that was served and sees a clean end of its stream while the process
\* runs has been told the truth: the shell is gone, no output is left in the PTY, and
\* what is not received or on its way was lost with clients that closed their
\* sockets.  Of a process that ended it says nothing: then a clean end may come with
\* the shell alive.
THEOREM CleanEndsAreTrue == Spec => []EndMeansAll
  <1>1. Init => OpenInv /\ EndInv
    BY DEF Init, OpenInv, EndInv, EioInv, CloseInv, ErrorInv, SeenInv
  <1>2. EndInv /\ ConservedOutput => EndMeansAll
    BY DEF EndInv, EioInv, SeenInv, ConservedOutput, EndMeansAll, LostAtExit
  <1> QED BY <1>1, <1>2, IndInit, IndStep, EndStep, OutputConserved, PTL DEF Spec
=============================================================================
