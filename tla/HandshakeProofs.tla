-------------------------- MODULE HandshakeProofs ---------------------------
(***************************************************************************)
(* Agreement of the two sides, for every set of protocols and every tree   *)
(* of sources, and that one of the errors cannot happen.                   *)
(***************************************************************************)
EXTENDS Handshake, WellFoundedInduction, TLAPS

\* The only message side s ever sends.
Greeting(s) == [intent |-> Intent(proto[s], s), from |-> s]

\* Where each side can be, and what it is told meanwhile.
PhaseInv ==
  /\ pc["client"] \in {"send", "receive", "returned"}
  /\ pc["server"] \in {"receive", "send", "returned"}
  /\ \A s \in Sides : (result[s] = "none") <=> (pc[s] # "returned")

\* Whatever is under way to a side is the greeting of its peer.
InboxInv == \A s \in Sides : inbox[s] \in Seq({Greeting(Peer(s))})

\* The server replies only to a client that fits, so the client never meets a
\* reply it would turn down.
AcceptInv ==
  /\ pc["server"] = "send" => Compatible
  /\ result["server"] = "Ok" => Compatible
  /\ inbox["client"] # <<>> => result["server"] = "Ok"
  /\ result["client"] = "Ok" => result["server"] = "Ok"
  /\ result["client"] \notin Rejected

Shape ==
  /\ pc \in [Sides -> {"send", "receive", "returned"}]
  /\ result \in [Sides -> Results]
  /\ DOMAIN inbox = Sides

IndInv == Shape /\ PhaseInv /\ InboxInv /\ AcceptInv /\ NeverWrongService

\* A greeting passes the checks of a side exactly when the two sides fit, and
\* what does not pass fails the first check.
LEMMA VerdictOfGreeting ==
  ASSUME NEW s \in Sides
  PROVE  /\ Verdict(s, Greeting(Peer(s))) = "Ok" <=> Compatible
         /\ Verdict(s, Greeting(Peer(s))) \in {"Ok", "WrongVersion"}
<1> DEFINE m == Greeting(Peer(s))
<1>1. m.intent = <<proto[Peer(s)], Peer(s)>> /\ m.from = Peer(s)
  BY DEF Greeting, Intent
<1>2. BuildId(m) = <<<<proto[Peer(s)], Peer(s)>>, ProtocolIdentity(build[Peer(s)])>>
  BY <1>1 DEF BuildId, identify
<1>3. Intent(proto[s], Peer(s)) = <<proto[s], Peer(s)>>
  BY DEF Intent
<1>4. identify(Intent(proto[s], Peer(s)), build[s])
        = <<<<proto[s], Peer(s)>>, ProtocolIdentity(build[s])>>
  BY <1>3 DEF identify
<1>5. Compatible <=> /\ ProtocolIdentity(build[Peer(s)]) = ProtocolIdentity(build[s])
                     /\ proto[Peer(s)] = proto[s]
  BY DEF Compatible, SameIdentity, Sides, Peer
<1> HIDE DEF m
<1>6. BuildId(m) = identify(Intent(proto[s], Peer(s)), build[s]) <=> Compatible
  BY <1>2, <1>4, <1>5
<1>7. Compatible => m.intent = Intent(proto[s], Peer(s))
  BY <1>1, <1>3, <1>5
<1> QED
  BY <1>6, <1>7 DEF Verdict, m

LEMMA InitInv == Init => IndInv
BY DEF Init, IndInv, Shape, PhaseInv, InboxInv, AcceptInv, NeverWrongService, Sides, Peer,
       Results, Rejected

LEMMA SendsInv ==
  ASSUME IndInv, NEW s \in Sides, NEW next,
         Sends(s, next), next = IF s = "client" THEN "receive" ELSE "returned"
  PROVE  IndInv'
<1> USE DEF IndInv, Shape, PhaseInv, Sides, Peer, Results, Rejected
<1>1. CASE open[Peer(s)] /\ Goto(s, next) /\ UNCHANGED <<peerVars, open, reset>>
           /\ inbox' = [inbox EXCEPT ![Peer(s)] = Append(@, Greeting(s))]
  <2> DEFINE p == Peer(s)
  <2>a. p \in Sides /\ p # s /\ Peer(p) = s /\ Sides = {s, p}
    OBVIOUS
  <2>b. Greeting(s)' = Greeting(s) /\ Greeting(p)' = Greeting(p)
    BY <1>1 DEF Greeting, Intent, peerVars
  <2>c. inbox'[p] = Append(inbox[p], Greeting(s)) /\ inbox'[s] = inbox[s]
    BY <1>1, <2>a
  <2>d. inbox[p] \in Seq({Greeting(s)}) /\ inbox[s] \in Seq({Greeting(p)})
    BY <2>a DEF InboxInv
  <2>e. Append(inbox[p], Greeting(s)) \in Seq({Greeting(s)})
    BY <2>d
  <2>1. InboxInv'
    <3> SUFFICES ASSUME NEW t \in Sides
                 PROVE  inbox'[t] \in Seq({Greeting(Peer(t))'})
      BY DEF InboxInv
    <3>1. CASE t = s
      BY <3>1, <2>b, <2>c, <2>d
    <3>2. CASE t = p
      BY <3>2, <2>a, <2>b, <2>c, <2>e
    <3> QED
      BY <3>1, <3>2, <2>a
  <2> HIDE DEF p
  <2>2. CASE s = "client"
    <3>1. inbox'["client"] = inbox["client"]
      BY <1>1, <2>2
    <3> QED
      BY <1>1, <2>1, <2>2, <3>1 DEF Sends, Goto, AcceptInv, NeverWrongService, Compatible,
         SameIdentity, peerVars
  <2>3. CASE s = "server"
    BY <1>1, <2>1, <2>3 DEF Sends, Goto, AcceptInv, NeverWrongService, Compatible,
       SameIdentity, peerVars
  <2> QED
    BY <2>2, <2>3
<1>2. CASE Fail(s, "Send", inbox[s])
  BY <1>2 DEF Sends, Fail, AcceptInv, NeverWrongService, Compatible, SameIdentity, peerVars,
     InboxInv, Greeting, Intent
<1> QED
  BY <1>1, <1>2 DEF Sends, Greeting

LEMMA FailInv ==
  ASSUME IndInv, NEW s \in Sides, pc[s] # "returned",
         NEW error \in Results \ {"none", "Ok", "WrongService"},
         error \in Rejected => s = "server",
         NEW unread, Fail(s, error, unread)
  PROVE  IndInv'
<1>1. inbox' = [inbox EXCEPT ![s] = <<>>] /\ UNCHANGED peerVars
  BY DEF Fail
<1>2. InboxInv'
  <2> SUFFICES ASSUME NEW t \in Sides
               PROVE  inbox'[t] \in Seq({Greeting(Peer(t))'})
    BY DEF InboxInv
  <2>1. Greeting(Peer(t))' = Greeting(Peer(t)) /\ inbox[t] \in Seq({Greeting(Peer(t))})
    BY <1>1 DEF Greeting, Intent, peerVars, IndInv, InboxInv
  <2>2. inbox'[t] = IF t = s THEN <<>> ELSE inbox[t]
    BY <1>1 DEF IndInv, Shape
  <2> QED
    BY <2>1, <2>2
<1>3. result["server"] = "Ok" => s = "client"
  BY DEF IndInv, PhaseInv, Sides
<1> QED
  BY <1>1, <1>2, <1>3 DEF Fail, IndInv, Shape, PhaseInv, AcceptInv, NeverWrongService,
     Compatible, SameIdentity, peerVars, Sides, Peer, Results, Rejected

LEMMA ReceivesInv ==
  ASSUME IndInv, NEW s \in Sides, NEW next,
         Receives(s, next), next = IF s = "client" THEN "returned" ELSE "send"
  PROVE  IndInv'
<1> DEFINE verdict == Verdict(s, Head(inbox[s]))
<1>1. pc[s] = "receive" /\ pc[s] # "returned"
  BY DEF Receives
<1>2. inbox[s] \in Seq({Greeting(Peer(s))})
  BY DEF IndInv, InboxInv
<1>3. ASSUME inbox[s] # <<>>
      PROVE  /\ verdict = "Ok" <=> Compatible
             /\ verdict \in {"Ok", "WrongVersion"}
             /\ Tail(inbox[s]) \in Seq({Greeting(Peer(s))})
             /\ s = "client" => Compatible
  <2>1. Head(inbox[s]) = Greeting(Peer(s)) /\ Tail(inbox[s]) \in Seq({Greeting(Peer(s))})
    BY <1>2, <1>3
  <2>2. s = "client" => Compatible
    BY <1>3 DEF IndInv, AcceptInv
  <2> QED
    BY <2>1, <2>2, VerdictOfGreeting
<1> HIDE DEF verdict
<1>4. CASE Fail(s, "Socket", inbox[s]) \/ Fail(s, "End", <<>>)
  BY <1>1, <1>4, FailInv DEF Results, Rejected
<1>5. CASE inbox[s] # <<>> /\ verdict # "Ok" /\ Fail(s, verdict, Tail(inbox[s]))
  <2>1. verdict = "WrongVersion" /\ s = "server"
    BY <1>3, <1>5 DEF Sides
  <2> QED
    BY <1>1, <1>5, <2>1, FailInv DEF Results, Rejected
<1>6. CASE inbox[s] # <<>> /\ ~SameIdentity /\ Fail(s, "Deserialize", Tail(inbox[s]))
  <2>1. s = "server"
    BY <1>3, <1>6 DEF Sides, Compatible
  <2> QED
    BY <1>1, <1>6, <2>1, FailInv DEF Results, Rejected
<1>7. CASE /\ inbox[s] # <<>> /\ verdict = "Ok"
           /\ inbox' = [inbox EXCEPT ![s] = Tail(@)]
           /\ Goto(s, next)
           /\ UNCHANGED <<peerVars, open, reset>>
  <2>1. InboxInv'
    <3> SUFFICES ASSUME NEW t \in Sides
                 PROVE  inbox'[t] \in Seq({Greeting(Peer(t))'})
      BY DEF InboxInv
    <3>1. Greeting(Peer(t))' = Greeting(Peer(t)) /\ inbox[t] \in Seq({Greeting(Peer(t))})
      BY <1>7 DEF Greeting, Intent, peerVars, IndInv, InboxInv
    <3>2. t = s => inbox'[t] = Tail(inbox[s])
      BY <1>7 DEF IndInv, Shape
    <3>3. t # s => inbox'[t] = inbox[t]
      BY <1>7 DEF IndInv, Shape
    <3> QED
      BY <1>3, <1>7, <3>1, <3>2, <3>3
  <2>2. Compatible /\ Compatible'
    BY <1>3, <1>7 DEF Compatible, SameIdentity, peerVars
  <2>3. inbox'["client"] # <<>> => inbox["client"] # <<>>
    BY <1>7 DEF IndInv, Shape, Sides
  <2>4. s = "client" => result["server"] = "Ok"
    BY <1>7 DEF IndInv, AcceptInv
  <2> QED
    BY <1>1, <1>7, <2>1, <2>2, <2>3, <2>4 DEF Goto, IndInv, Shape, PhaseInv, AcceptInv,
       NeverWrongService, Sides, Results, Rejected
<1> QED
  BY <1>4, <1>5, <1>6, <1>7 DEF Receives, verdict

LEMMA NextInv == IndInv /\ [Next]_vars => IndInv'
<1> SUFFICES ASSUME IndInv, [Next]_vars PROVE IndInv'
  OBVIOUS
<1>1. CASE ClientSends
  BY <1>1, SendsInv DEF ClientSends, Sides
<1>2. CASE ClientReceives
  BY <1>2, ReceivesInv DEF ClientReceives, Sides
<1>3. CASE ServerReceives
  BY <1>3, ReceivesInv DEF ServerReceives, Sides
<1>4. CASE ServerSends
  BY <1>4, SendsInv DEF ServerSends, Sides
<1>5. ASSUME NEW s \in Sides, Dies(s) PROVE IndInv'
  BY <1>5, FailInv DEF Dies, Results, Rejected
<1>6. CASE UNCHANGED vars
  BY <1>6 DEF vars, peerVars, IndInv, Shape, PhaseInv, InboxInv, AcceptInv, NeverWrongService,
     Greeting, Intent, Compatible, SameIdentity
<1> QED
  BY <1>1, <1>2, <1>3, <1>4, <1>5, <1>6 DEF Next, Client, Server

LEMMA Inductive == Spec => []IndInv
BY InitInv, NextInv, PTL DEF Spec

\* A side that goes on to its protocol (handshake.rs:62, 80) talks to the other
\* role of the same protocol of the same version, and once the server has gone on
\* the client does not turn it down: for every set of protocols and of sources.
THEOREM SidesAgree == Spec => []Agreement
<1>1. IndInv => Agreement
  BY DEF IndInv, PhaseInv, AcceptInv, Agreement, Sides, Rejected
<1> QED
  BY <1>1, Inductive, PTL

\* The error "peer is trying to talk to some other service" (handshake.rs:43) is
\* unreachable, whatever the two sides are.
THEOREM WrongServiceIsUnreachable == Spec => []NeverWrongService
<1>1. IndInv => NeverWrongService
  BY DEF IndInv
<1> QED
  BY <1>1, Inductive, PTL
-----------------------------------------------------------------------------
(* Two sides that fit are never kept apart.                                *)

\* What is hashed of a path depends on nothing but the sources.
LEMMA SameRecords ==
  ASSUME NEW t \in Trees, NEW u \in Trees, SourcesOf(t) = SourcesOf(u), NEW p \in Paths
  PROVE  EntryRecord(p, t[p]) = EntryRecord(p, u[p])
<1> DEFINE Source(entry) == entry.kind \in {"file", "link"}
<1>1. CASE Source(t[p])
  <2>1. <<p, t[p]>> \in SourcesOf(t)
    BY <1>1 DEF SourcesOf
  <2>2. PICK q \in Paths : <<p, t[p]>> = <<q, u[q]>>
    BY <2>1 DEF SourcesOf
  <2> QED
    BY <2>2
<1>2. CASE Source(u[p])
  <2>1. <<p, u[p]>> \in SourcesOf(u)
    BY <1>2 DEF SourcesOf
  <2>2. PICK q \in Paths : <<p, u[p]>> = <<q, t[q]>>
    BY <2>1 DEF SourcesOf
  <2> QED
    BY <2>2
<1>3. CASE ~Source(t[p]) /\ ~Source(u[p])
  BY <1>3 DEF EntryRecord
<1> QED
  BY <1>1, <1>2, <1>3

\* Two builds of the same sources have one identity: the walk has an order of its
\* own, and directories do not count.
LEMMA SameSources ==
  ASSUME NEW t \in Trees, NEW u \in Trees, SourcesOf(t) = SourcesOf(u)
  PROVE  ProtocolIdentity(t) = ProtocolIdentity(u)
<1>1. \A i \in DOMAIN Walk : EntryRecord(Walk[i], t[Walk[i]]) = EntryRecord(Walk[i], u[Walk[i]])
  BY SameRecords DEF Paths
<1>2. [i \in DOMAIN Walk |-> EntryRecord(Walk[i], t[Walk[i]])]
        = [i \in DOMAIN Walk |-> EntryRecord(Walk[i], u[Walk[i]])]
  BY <1>1
<1> QED
  BY <1>2, Zenon DEF ProtocolIdentity

BuildInv == build \in [Sides -> Trees]

\* While two sides that fit are both alive, neither has failed, and neither has
\* closed its end.
MeetInv == Compatible /\ (\A s \in Sides : result[s] # "died") =>
  \A s \in Sides : result[s] \in {"none", "Ok"} /\ open[s] /\ ~reset[s]

MeetShape == open \in [Sides -> BOOLEAN] /\ reset \in [Sides -> BOOLEAN]

LEMMA MeetInit == Init => BuildInv /\ MeetShape /\ MeetInv
BY DEF Init, BuildInv, MeetShape, MeetInv, Sides

\* A side that died takes no step, so that both were alive before a step after
\* which both are.
LEMMA AliveBefore ==
  ASSUME IndInv, [Next]_vars, \A s \in Sides : result'[s] # "died"
  PROVE  /\ \A s \in Sides : result[s] # "died"
         /\ Compatible' <=> Compatible
         /\ UNCHANGED peerVars
<1>1. UNCHANGED peerVars
  BY DEF Next, Client, Server, ClientSends, ClientReceives, ServerReceives, ServerSends, Sends,
     Receives, Dies, Fail, vars
<1>2. ASSUME NEW s \in Sides, result[s] = "died" PROVE FALSE
  <2>1. pc[s] = "returned"
    BY <1>2 DEF IndInv, PhaseInv
  <2>2. result'[s] = result[s]
    BY <2>1 DEF IndInv, Shape, Next, Client, Server, ClientSends, ClientReceives, ServerReceives,
       ServerSends, Sends, Receives, Dies, Fail, Goto, vars, Sides
  <2> QED
    BY <1>2, <2>2
<1> QED
  BY <1>1, <1>2 DEF Compatible, SameIdentity, peerVars

LEMMA MeetStep == IndInv /\ MeetShape /\ MeetInv /\ [Next]_vars => MeetShape' /\ MeetInv'
<1> SUFFICES ASSUME IndInv, MeetShape, MeetInv, [Next]_vars PROVE MeetShape' /\ MeetInv'
  OBVIOUS
<1>1. MeetShape'
  <2>1. ASSUME NEW s \in Sides, NEW error, NEW unread, Fail(s, error, unread) PROVE MeetShape'
    <3>1. open' \in [Sides -> BOOLEAN]
      BY <2>1 DEF Fail, MeetShape
    <3>2. (open[Peer(s)] /\ (reset[Peer(s)] \/ unread # <<>>)) \in BOOLEAN
      OBVIOUS
    <3>3. reset' \in [Sides -> BOOLEAN]
      BY <2>1, <3>2 DEF Fail, MeetShape, Sides, Peer
    <3> QED
      BY <3>1, <3>3 DEF MeetShape
  <2>2. CASE UNCHANGED <<open, reset>>
    BY <2>2 DEF MeetShape
  <2>3. ASSUME NEW s \in Sides, NEW next, Sends(s, next) PROVE MeetShape'
    BY <2>1, <2>2, <2>3 DEF Sends
  <2>4. ASSUME NEW s \in Sides, NEW next, Receives(s, next) PROVE MeetShape'
    BY <2>1, <2>2, <2>4 DEF Receives
  <2>5. ASSUME NEW s \in Sides, Dies(s) PROVE MeetShape'
    BY <2>1, <2>5 DEF Dies
  <2>6. CASE UNCHANGED vars
    BY <2>2, <2>6 DEF vars
  <2> QED
    BY <2>3, <2>4, <2>5, <2>6 DEF Next, Client, Server, ClientSends, ClientReceives,
       ServerReceives, ServerSends, Sides
<1>2. ASSUME Compatible', \A s \in Sides : result'[s] # "died"
      PROVE  \A s \in Sides : result'[s] \in {"none", "Ok"} /\ open'[s] /\ ~reset'[s]
  <2>1. Compatible /\ \A s \in Sides : result[s] # "died"
    BY <1>2, AliveBefore
  <2>2. \A s \in Sides : result[s] \in {"none", "Ok"} /\ open[s] /\ ~reset[s]
    BY <2>1 DEF MeetInv
  <2>3. ASSUME NEW s \in Sides, NEW next, Sends(s, next)
        PROVE  UNCHANGED <<open, reset>> /\ Goto(s, next)
    BY <2>2, <2>3 DEF Sends, Sides, Peer
  <2>4. ASSUME NEW s \in Sides, NEW next, Receives(s, next)
        PROVE  UNCHANGED <<open, reset>> /\ Goto(s, next)
    <3>1. inbox[s] # <<>> => Verdict(s, Head(inbox[s])) = "Ok"
      <4>1. inbox[s] \in Seq({Greeting(Peer(s))})
        BY DEF IndInv, InboxInv
      <4>2. inbox[s] # <<>> => Head(inbox[s]) = Greeting(Peer(s))
        BY <4>1
      <4> QED
        BY <2>1, <4>2, VerdictOfGreeting
    <3>2. SameIdentity
      BY <2>1 DEF Compatible
    <3>3. ~reset[s] /\ open[Peer(s)]
      BY <2>2 DEF Sides, Peer
    <3> QED
      BY <2>4, <3>1, <3>2, <3>3 DEF Receives
  <2>5. ASSUME NEW s \in Sides, Dies(s) PROVE FALSE
    BY <1>2, <2>5 DEF Dies, Fail, IndInv, Shape
  <2>6. ASSUME NEW s \in Sides, NEW next, Goto(s, next) PROVE
        \A p \in Sides : result'[p] \in {"none", "Ok"}
    BY <2>2, <2>6 DEF Goto, IndInv, Shape
  <2>7. CASE UNCHANGED vars
    BY <2>2, <2>7 DEF vars
  <2> QED
    BY <2>2, <2>3, <2>4, <2>5, <2>6, <2>7 DEF Next, Client, Server, ClientSends, ClientReceives,
       ServerReceives, ServerSends, Sides
<1> QED
  BY <1>1, <1>2 DEF MeetInv

LEMMA BuildStep == BuildInv /\ [Next]_vars => BuildInv'
BY DEF BuildInv, Next, Client, Server, ClientSends, ClientReceives, ServerReceives, ServerSends,
   Sends, Receives, Dies, Fail, vars, peerVars

\* Two processes of the same sources that mean to speak the same protocol are not
\* kept apart by anything but the death of one of them: whatever the walk of the
\* sources meets besides, and in whatever order the messages are sent and read.
THEOREM FittingPeersMeet == Spec => []CompatiblePeersMeet
<1>1. IndInv /\ BuildInv /\ MeetInv => CompatiblePeersMeet
  <2> SUFFICES ASSUME BuildInv, MeetInv,
                      SourcesOf(build["client"]) = SourcesOf(build["server"]),
                      proto["client"] = proto["server"],
                      \A s \in Sides : result[s] # "died"
               PROVE  \A s \in Sides : result[s] \in {"none", "Ok"}
    BY DEF CompatiblePeersMeet
  <2>1. build["client"] \in Trees /\ build["server"] \in Trees
    BY DEF BuildInv, Sides
  <2>2. Compatible
    BY <2>1, SameSources DEF Compatible, SameIdentity
  <2> QED
    BY <2>2 DEF MeetInv
<1> QED
  BY <1>1, Inductive, MeetInit, MeetStep, BuildStep, PTL DEF Spec

-----------------------------------------------------------------------------
(* Types.                                                                  *)

InboxType == proto \in [Sides -> Protocols] /\ inbox \in [Sides -> Seq(Messages)]

LEMMA InboxTypeInit == Init => InboxType
BY DEF Init, InboxType, Sides

LEMMA InboxTypeStep == InboxType /\ [Next]_vars => InboxType'
<1> SUFFICES ASSUME InboxType, [Next]_vars PROVE InboxType'
  OBVIOUS
<1>1. proto' = proto
  BY DEF Next, Client, Server, ClientSends, ClientReceives, ServerReceives, ServerSends, Sends,
     Receives, Dies, Fail, vars, peerVars
<1>2. ASSUME NEW s \in Sides, NEW e, NEW u, Fail(s, e, u) PROVE inbox' \in [Sides -> Seq(Messages)]
  BY <1>2 DEF Fail, InboxType
<1>3. ASSUME NEW s \in Sides, NEW next, Sends(s, next)
      PROVE  inbox' \in [Sides -> Seq(Messages)]
  <2> DEFINE m == [intent |-> Intent(proto[s], s), from |-> s]
  <2>1. m \in Messages /\ Peer(s) \in Sides
    BY DEF Messages, Intents, Intent, InboxType, Peer, Sides
  <2> HIDE DEF m
  <2>2. CASE inbox' = [inbox EXCEPT ![Peer(s)] = Append(@, m)]
    BY <2>1, <2>2 DEF InboxType
  <2> QED
    BY <1>2, <1>3, <2>2 DEF Sends, m
<1>4. ASSUME NEW s \in Sides, NEW next, Receives(s, next)
      PROVE  inbox' \in [Sides -> Seq(Messages)]
  <2>1. CASE inbox[s] # <<>> /\ inbox' = [inbox EXCEPT ![s] = Tail(@)]
    <3>1. Tail(inbox[s]) \in Seq(Messages)
      BY <2>1 DEF InboxType
    <3> QED
      BY <2>1, <3>1 DEF InboxType
  <2> QED
    BY <1>2, <1>4, <2>1 DEF Receives
<1>5. ASSUME NEW s \in Sides, Dies(s) PROVE inbox' \in [Sides -> Seq(Messages)]
  BY <1>2, <1>5 DEF Dies
<1>6. ASSUME UNCHANGED vars PROVE inbox' \in [Sides -> Seq(Messages)]
  BY <1>6 DEF vars, InboxType
<1>7. inbox' \in [Sides -> Seq(Messages)]
  BY <1>3, <1>4, <1>5, <1>6 DEF Next, Client, Server, ClientSends, ClientReceives,
     ServerReceives, ServerSends, Sides
<1> QED
  BY <1>1, <1>7 DEF InboxType

\* The handshake keeps to its types; a side has a result exactly when it has returned.
THEOREM TypeCorrect == Spec => []TypeOK
<1>1. IndInv /\ BuildInv /\ MeetShape /\ InboxType => TypeOK
  BY DEF IndInv, Shape, PhaseInv, BuildInv, MeetShape, InboxType, TypeOK
<1>2. BuildInv /\ IndInv /\ MeetShape /\ MeetInv /\ InboxType /\ [Next]_vars
        => BuildInv' /\ MeetShape' /\ MeetInv' /\ InboxType'
  BY MeetStep, BuildStep, InboxTypeStep
<1> QED
  BY <1>1, <1>2, Inductive, MeetInit, InboxTypeInit, PTL DEF Spec

-----------------------------------------------------------------------------
(* Neither side waits in vain.                                             *)

\* The client's message is under way until the server has taken it, and the server's
\* until the client has; a side that failed is closed.
WaitInv ==
  /\ pc["client"] = "send" => /\ inbox["server"] = <<>> /\ pc["server"] # "send"
                              /\ result["server"] # "Ok"
  /\ pc["client"] = "receive" /\ pc["server"] = "receive" => inbox["server"] # <<>>
  /\ pc["client"] = "receive" /\ result["server"] = "Ok" => inbox["client"] # <<>>
  /\ \A s \in Sides : result[s] \notin {"none", "Ok"} => ~open[s]

LEMMA WaitInit == Init => WaitInv
BY DEF Init, WaitInv, Sides

LEMMA WaitStep ==
  IndInv /\ MeetShape /\ InboxType /\ WaitInv /\ [Next]_vars => WaitInv'
<1> SUFFICES ASSUME IndInv, MeetShape, InboxType, WaitInv, [Next]_vars PROVE WaitInv'
  OBVIOUS
<1> USE DEF Sides, Peer
<1>1. ASSUME NEW s \in Sides, NEW e, e \notin {"none", "Ok"}, NEW u, Fail(s, e, u) PROVE WaitInv'
  BY <1>1 DEF Fail, WaitInv, IndInv, Shape, PhaseInv, MeetShape, InboxType
<1>2. CASE ClientSends
  <2>1. CASE Fail("client", "Send", inbox["client"])
    BY <1>1, <2>1
  <2>2. CASE /\ pc["client"] = "send" /\ Goto("client", "receive") /\ UNCHANGED open
             /\ inbox' = [inbox EXCEPT !["server"] =
                            Append(@, [intent |-> Intent(proto["client"], "client"),
                                       from |-> "client"])]
    <3>1. inbox'["server"] # <<>>
      BY <2>2 DEF InboxType
    <3> QED
      BY <2>2, <3>1 DEF Goto, WaitInv, IndInv, Shape, PhaseInv, InboxType
  <2> QED
    BY <1>2, <2>1, <2>2 DEF ClientSends, Sends
<1>3. CASE ServerSends
  <2>1. CASE Fail("server", "Send", inbox["server"])
    BY <1>1, <2>1
  <2>2. CASE /\ pc["server"] = "send" /\ Goto("server", "returned") /\ UNCHANGED open
             /\ inbox' = [inbox EXCEPT !["client"] =
                            Append(@, [intent |-> Intent(proto["server"], "server"),
                                       from |-> "server"])]
    <3>1. inbox'["client"] # <<>>
      BY <2>2 DEF InboxType
    <3> QED
      BY <2>2, <3>1 DEF Goto, WaitInv, IndInv, Shape, PhaseInv, InboxType
  <2> QED
    BY <1>3, <2>1, <2>2 DEF ServerSends, Sends
<1>4. ASSUME NEW s \in Sides, NEW next, Receives(s, next),
             next = IF s = "client" THEN "returned" ELSE "send"
      PROVE  WaitInv'
  <2>1. CASE Fail(s, "Socket", inbox[s]) \/ Fail(s, "End", <<>>)
             \/ Fail(s, "Deserialize", Tail(inbox[s]))
    BY <1>1, <2>1
  <2>2. ASSUME NEW v, v # "Ok", v = Verdict(s, Head(inbox[s])), Fail(s, v, Tail(inbox[s]))
        PROVE  WaitInv'
    <3>1. v \in {"WrongVersion", "WrongService"}
      BY <2>2 DEF Verdict
    <3> QED
      BY <1>1, <2>2, <3>1
  <2>3. CASE /\ inbox[s] # <<>> /\ inbox' = [inbox EXCEPT ![s] = Tail(@)]
             /\ Goto(s, next) /\ UNCHANGED open
    <3>1. CASE s = "client"
      BY <1>4, <2>3, <3>1 DEF Receives, Goto, WaitInv, IndInv, Shape, PhaseInv, InboxType
    <3>2. CASE s = "server"
      BY <1>4, <2>3, <3>2 DEF Receives, Goto, WaitInv, IndInv, Shape, PhaseInv, InboxType
    <3> QED
      BY <3>1, <3>2
  <2> QED
    BY <1>4, <2>1, <2>2, <2>3 DEF Receives
<1>5. ASSUME NEW s \in Sides, Dies(s) PROVE WaitInv'
  BY <1>1, <1>5 DEF Dies
<1>6. CASE UNCHANGED vars
  BY <1>6 DEF vars, WaitInv
<1> QED
  BY <1>2, <1>3, <1>4, <1>5, <1>6 DEF Next, Client, Server, ClientReceives, ServerReceives

\* Neither the two sides together nor one that is left alone wait for what nobody
\* will send, whatever protocols and sources: the part of NobodyWaits that needs no
\* fairness.
THEOREM NoVainWait == Spec => []NobodyWaitsInVain
<1>1. IndInv /\ WaitInv => NobodyWaitsInVain
  BY DEF IndInv, PhaseInv, AcceptInv, WaitInv, NobodyWaitsInVain, Hears, Sides, Peer
<1>2. IndInv /\ BuildInv /\ MeetShape /\ MeetInv /\ InboxType /\ WaitInv /\ [Next]_vars
        => BuildInv' /\ MeetShape' /\ MeetInv' /\ InboxType' /\ WaitInv'
  BY MeetStep, BuildStep, InboxTypeStep, WaitStep
<1> QED
  BY <1>1, <1>2, Inductive, MeetInit, InboxTypeInit, WaitInit, PTL DEF Spec

-----------------------------------------------------------------------------
(* The stream of a build can be read in one way only.                      *)

\* Every set of naturals that is not empty has a least element.
LEMMA Least ==
  ASSUME NEW S \in SUBSET Nat, S # {}
  PROVE  \E m \in S : \A n \in S : m <= n
<1>1. IsWellFoundedOn(OpToRel(<, Nat), Nat)
  BY NatLessThanWellFounded
<1>2. \E x \in S : \A y \in S : ~(<<y, x>> \in OpToRel(<, Nat))
  BY <1>1, WFMin
<1>3. \A x, y \in Nat : <<y, x>> \in OpToRel(<, Nat) <=> y < x
  BY DEF OpToRel
<1>4. PICK m \in S : \A n \in S : ~(<<n, m>> \in OpToRel(<, Nat))
  BY <1>2
<1>5. ASSUME NEW n \in S PROVE m <= n
  <2>1. m \in Nat /\ n \in Nat
    OBVIOUS
  <2>2. ~(n < m)
    BY <1>3, <1>4, <2>1
  <2> QED
    BY <2>1, <2>2
<1> QED
  BY <1>4, <1>5

\* Induction, with a set in the place of a predicate.
LEMMA Induction ==
  ASSUME NEW S \in SUBSET Nat, 0 \in S, \A n \in S : n + 1 \in S
  PROVE  S = Nat
<1> SUFFICES ASSUME Nat \ S # {} PROVE FALSE
  OBVIOUS
<1>1. PICK m \in Nat \ S : \A n \in Nat \ S : m <= n
  BY Least
<1>2. m # 0 /\ m \in Nat
  OBVIOUS
<1>3. m - 1 \in Nat /\ ~(m <= m - 1)
  BY <1>2
<1>4. m - 1 \in S
  BY <1>1, <1>3
<1>5. (m - 1) + 1 \in S /\ (m - 1) + 1 = m
  BY <1>2, <1>4
<1> QED
  BY <1>5

Byte == 0..255
Letter == 1..255

LEMMA BytesOfTrees ==
  /\ Walk \in Seq(Seq(Letter)) /\ Targets \subseteq Seq(Letter) /\ Hashes \subseteq Seq(Byte)
  /\ Seq(Letter) \subseteq Seq(Byte) /\ Nul \notin Letter /\ {Nul, F, L} \subseteq Byte
BY BytesAssumption DEF Letter, Byte, Nul, F, L

\* f[i] is what the first i sequences of seqs make one after the other, up to m.
Joins(f, seqs, m) ==
  f[0] = <<>> /\ \A i \in 1..m : f[i] = f[i - 1] \o seqs[i]

Joined(f, seqs) == f \in [0..Len(seqs) -> Seq(Byte)] /\ Joins(f, seqs, Len(seqs))

LEMMA JoinedExist ==
  ASSUME NEW seqs \in Seq(Seq(Byte))
  PROVE  \E f : Joined(f, seqs)
<1> DEFINE n == Len(seqs)
           Exist(m) == \E f \in [0..m -> Seq(Byte)] : Joins(f, seqs, m)
           S == {m \in Nat : m <= n => Exist(m)}
<1>1. n \in Nat
  OBVIOUS
<1>2. 0 \in S
  <2>1. [i \in 0..0 |-> <<>>] \in [0..0 -> Seq(Byte)]
    OBVIOUS
  <2>2. Joins([i \in 0..0 |-> <<>>], seqs, 0)
    BY DEF Joins
  <2> QED
    BY <2>1, <2>2
<1>3. ASSUME NEW m \in Nat, m \in S, m + 1 <= n PROVE Exist(m + 1)
  <2>1. m <= n /\ m + 1 \in 1..n /\ (m + 1) - 1 = m
    BY <1>1, <1>3
  <2>2. PICK f \in [0..m -> Seq(Byte)] : Joins(f, seqs, m)
    BY <1>3, <2>1
  <2> DEFINE longer == f[m] \o seqs[m + 1]
             g == [i \in 0..(m + 1) |-> IF i = m + 1 THEN longer ELSE f[i]]
  <2>3. longer \in Seq(Byte)
    BY <2>1, <2>2
  <2>4. g \in [0..(m + 1) -> Seq(Byte)] /\ g[m + 1] = longer /\ \A i \in 0..m : g[i] = f[i]
    <3> HIDE DEF longer
    <3> QED
      BY <2>3
  <2>5. g[0] = <<>>
    BY <2>2, <2>4 DEF Joins
  <2> HIDE DEF g
  <2>6. ASSUME NEW i \in 1..(m + 1) PROVE g[i] = g[i - 1] \o seqs[i]
    <3>1. CASE i = m + 1
      <4>1. g[i - 1] = f[m] /\ g[i] = longer
        BY <2>1, <2>4, <3>1
      <4> QED
        BY <3>1, <4>1
    <3>2. CASE i \in 1..m
      <4>1. g[i] = f[i] /\ g[i - 1] = f[i - 1]
        BY <2>4, <3>2
      <4> QED
        BY <2>2, <3>2, <4>1 DEF Joins
    <3>3. i = m + 1 \/ i \in 1..m
      BY <2>1
    <3> QED
      BY <3>1, <3>2, <3>3
  <2> QED
    BY <2>4, <2>5, <2>6 DEF Joins
<1> HIDE DEF Exist
<1>4. S \in SUBSET Nat /\ \A m \in S : m + 1 \in S
  BY <1>3
<1>5. S = Nat
  <2> HIDE DEF S
  <2> QED
    BY <1>2, <1>4, Induction
<1>6. n \in S /\ n <= n
  BY <1>1, <1>5
<1>7. Exist(n)
  BY <1>6
<1> QED
  BY <1>7 DEF Exist, Joined

LEMMA FlattenIsLastPrefix ==
  ASSUME NEW seqs \in Seq(Seq(Byte)), NEW f, Joined(f, seqs)
  PROVE  FlattenSeq(seqs) = f[Len(seqs)]
<1> f \in [0..Len(seqs) -> Seq(Byte)] /\ Joins(f, seqs, Len(seqs))
  BY DEF Joined
<1> DEFINE n == Len(seqs)
           IsFlatten(h) == h = [i \in 1..n |-> IF i = 1 THEN seqs[i] ELSE h[i - 1] \o seqs[i]]
           flatten == CHOOSE h : IsFlatten(h)
<1>1. n \in Nat /\ \A i \in 1..n : seqs[i] \in Seq(Byte)
  OBVIOUS
<1>2. CASE n = 0
  <2>1. FlattenSeq(seqs) = seqs /\ seqs = <<>>
    BY <1>2 DEF FlattenSeq
  <2> QED
    BY <1>2, <2>1 DEF Joins
<1>3. CASE n # 0
  <2>1. FlattenSeq(seqs) = flatten[n]
    BY <1>3 DEF FlattenSeq
  <2>2. IsFlatten([i \in 1..n |-> f[i]])
    <3>1. ASSUME NEW i \in 1..n
          PROVE  f[i] = IF i = 1 THEN seqs[i] ELSE [j \in 1..n |-> f[j]][i - 1] \o seqs[i]
      <4>1. f[i] = f[i - 1] \o seqs[i] /\ seqs[i] \in Seq(Byte)
        BY <1>1 DEF Joins
      <4>2. CASE i = 1
        <5>1. f[i] = <<>> \o seqs[i]
          <6>1. f[i - 1] = <<>>
            BY <4>2 DEF Joins
          <6> QED
            BY <4>1, <6>1
        <5>2. <<>> \o seqs[i] = seqs[i]
          BY <4>1
        <5> QED
          BY <4>2, <5>1, <5>2
      <4>3. CASE i # 1
        <5>1. i - 1 \in 1..n
          BY <1>1, <4>3
        <5> QED
          BY <4>1, <4>3, <5>1
      <4> QED
        BY <4>2, <4>3
    <3> QED
      BY <3>1
  <2>3. IsFlatten(flatten)
    <3> HIDE DEF IsFlatten
    <3> QED
      BY <2>2
  <2> HIDE DEF flatten
  <2>4. \A i \in 1..n : flatten[i] = IF i = 1 THEN seqs[i] ELSE flatten[i - 1] \o seqs[i]
    BY <2>3
  <2> DEFINE S == {m \in Nat : m \in 1..n => flatten[m] = f[m]}
  <2>5. 0 \in S
    OBVIOUS
  <2>6. ASSUME NEW m \in S PROVE m + 1 \in S
    <3> SUFFICES ASSUME m + 1 \in 1..n PROVE flatten[m + 1] = f[m + 1]
      OBVIOUS
    <3>1. m \in Nat /\ (m + 1) - 1 = m
      OBVIOUS
    <3>2. f[m + 1] = f[m] \o seqs[m + 1]
      BY <3>1 DEF Joins
    <3>3. CASE m = 0
      <4>1. f[m + 1] = <<>> \o seqs[m + 1] /\ seqs[m + 1] \in Seq(Byte)
        BY <1>1, <3>2, <3>3 DEF Joins
      <4>2. flatten[m + 1] = seqs[m + 1]
        BY <2>4, <3>3
      <4> QED
        BY <4>1, <4>2
    <3>4. CASE m # 0
      <4>1. m \in 1..n /\ m + 1 # 1
        BY <1>1, <3>1, <3>4
      <4>2. flatten[m + 1] = flatten[m] \o seqs[m + 1]
        BY <2>4, <3>1, <4>1
      <4> QED
        BY <3>2, <4>1, <4>2
    <3> QED
      BY <3>3, <3>4
  <2>7. S = Nat
    <3> HIDE DEF S
    <3>1. S \in SUBSET Nat
      BY DEF S
    <3> QED
      BY <2>5, <2>6, <3>1, Induction
  <2>8. n \in S /\ n \in 1..n
    BY <1>1, <1>3, <2>7
  <2> QED
    BY <2>1, <2>8
<1> QED
  BY <1>2, <1>3

LEMMA PrefixIsConcatenation ==
  ASSUME NEW seqs \in Seq(Seq(Byte)), NEW f, Joined(f, seqs), NEW i \in 1..Len(seqs)
  PROVE  /\ i - 1 \in 0..Len(seqs) /\ f[i - 1] \in Seq(Byte) /\ seqs[i] \in Seq(Byte)
         /\ f[i] = f[i - 1] \o seqs[i]
<1> f \in [0..Len(seqs) -> Seq(Byte)] /\ Joins(f, seqs, Len(seqs))
  BY DEF Joined
<1>1. i - 1 \in 0..Len(seqs)
  OBVIOUS
<1>2. f[i - 1] \in Seq(Byte)
  BY <1>1
<1>3. seqs[i] \in Seq(Byte)
  OBVIOUS
<1>4. f[i] = f[i - 1] \o seqs[i]
  BY DEF Joins
<1> QED
  BY <1>1, <1>2, <1>3, <1>4

\* After position y the stream has the sequence a.
Holds(stream, y, a) == \A k \in 1..Len(a) : stream[y + k] = a[k]

\* What the first sequences make only grows at its end.
Starts(a, b) == Len(a) <= Len(b) /\ \A k \in 1..Len(a) : b[k] = a[k]

LEMMA Concatenation ==
  ASSUME NEW a \in Seq(Byte), NEW b \in Seq(Byte), NEW c, c = a \o b
  PROVE  /\ c \in Seq(Byte) /\ Len(a) \in Nat /\ Len(b) \in Nat
         /\ Len(c) = Len(a) + Len(b) /\ Starts(a, c)
         /\ \A k \in 1..Len(b) : c[Len(a) + k] = b[k]
BY DEF Starts

LEMMA PrefixesGrow ==
  ASSUME NEW seqs \in Seq(Seq(Byte)), NEW f, Joined(f, seqs), NEW i \in 0..Len(seqs), NEW j \in 0..Len(seqs), i <= j
  PROVE  Starts(f[i], f[j])
<1> f \in [0..Len(seqs) -> Seq(Byte)] /\ Joins(f, seqs, Len(seqs))
  BY DEF Joined
<1> DEFINE n == Len(seqs)
           S == {m \in Nat : m <= n /\ i <= m => Starts(f[i], f[m])}
<1>1. n \in Nat /\ i \in Nat /\ j \in Nat /\ j <= n
  OBVIOUS
<1>2. ASSUME NEW m \in 0..n PROVE f[m] \in Seq(Byte) /\ Len(f[m]) \in Nat
  <2>1. f[m] \in Seq(Byte)
    OBVIOUS
  <2> QED
    BY <2>1
<1>3. Starts(f[i], f[i])
  BY <1>2 DEF Starts
<1>4. 0 \in S
  BY <1>1, <1>3
<1>5. ASSUME NEW m \in Nat, m \in S, m + 1 <= n, i <= m + 1 PROVE Starts(f[i], f[m + 1])
  <2>1. CASE i = m + 1
    BY <1>3, <2>1
  <2>2. CASE i <= m
    <3>1. m \in 0..n /\ m + 1 \in 1..n /\ (m + 1) - 1 = m
      BY <1>1, <1>5
    <3>2. Starts(f[i], f[m])
      BY <1>5, <2>2, <3>1
    <3>3. f[m] \in Seq(Byte) /\ seqs[m + 1] \in Seq(Byte) /\ f[m + 1] = f[m] \o seqs[m + 1]
      BY <3>1, PrefixIsConcatenation
    <3>4. Starts(f[m], f[m + 1])
      BY <3>3, Concatenation
    <3>5. Len(f[i]) \in Nat /\ Len(f[m]) \in Nat /\ Len(f[m + 1]) \in Nat
      BY <1>2, <3>1
    <3> QED
      BY <3>2, <3>4, <3>5 DEF Starts
  <2> QED
    BY <1>1, <1>5, <2>1, <2>2
<1>6. ASSUME NEW m \in S PROVE m + 1 \in S
  <2>1. m \in Nat /\ m + 1 \in Nat
    OBVIOUS
  <2> QED
    BY <1>5, <2>1
<1>7. S = Nat
  <2>1. S \in SUBSET Nat
    OBVIOUS
  <2> HIDE DEF S
  <2> QED
    BY <1>4, <1>6, <2>1, Induction
<1>8. j \in S
  BY <1>1, <1>7
<1> QED
  BY <1>1, <1>8

\* The i-th sequence lies between the prefixes i - 1 and i.
LEMMA PlaceInStream ==
  ASSUME NEW seqs \in Seq(Seq(Byte)), NEW f, Joined(f, seqs), NEW i \in 1..Len(seqs)
  PROVE  /\ Len(f[i]) = Len(f[i - 1]) + Len(seqs[i])
         /\ Holds(f[Len(seqs)], Len(f[i - 1]), seqs[i])
<1> f \in [0..Len(seqs) -> Seq(Byte)] /\ Joins(f, seqs, Len(seqs))
  BY DEF Joined
<1>1. f[i - 1] \in Seq(Byte) /\ seqs[i] \in Seq(Byte) /\ f[i] = f[i - 1] \o seqs[i]
  BY PrefixIsConcatenation
<1>2. /\ Len(f[i - 1]) \in Nat /\ Len(seqs[i]) \in Nat
      /\ Len(f[i]) = Len(f[i - 1]) + Len(seqs[i])
      /\ \A k \in 1..Len(seqs[i]) : f[i][Len(f[i - 1]) + k] = seqs[i][k]
  <2> DEFINE a == f[i - 1]
             b == seqs[i]
             c == f[i]
  <2>1. a \in Seq(Byte) /\ b \in Seq(Byte) /\ c = a \o b
    BY <1>1
  <2> HIDE DEF a, b, c
  <2>2. /\ Len(a) \in Nat /\ Len(b) \in Nat /\ Len(c) = Len(a) + Len(b)
        /\ \A k \in 1..Len(b) : c[Len(a) + k] = b[k]
    BY <2>1, Concatenation
  <2> QED
    BY <2>2 DEF a, b, c
<1>3. i \in 0..Len(seqs) /\ Len(seqs) \in 0..Len(seqs) /\ i <= Len(seqs)
  <2>1. Len(seqs) \in Nat
    OBVIOUS
  <2> QED
    BY <2>1
<1>4. Starts(f[i], f[Len(seqs)])
  BY <1>3, PrefixesGrow
<1>5. ASSUME NEW k \in 1..Len(seqs[i])
      PROVE  f[Len(seqs)][Len(f[i - 1]) + k] = seqs[i][k]
  <2> DEFINE l == Len(f[i - 1])
  <2>1. l \in Nat /\ Len(seqs[i]) \in Nat /\ Len(f[i]) = l + Len(seqs[i])
    BY <1>2
  <2>2. f[i][l + k] = seqs[i][k]
    BY <1>2
  <2> HIDE DEF l
  <2>3. l + k \in 1..Len(f[i])
    BY <2>1
  <2>4. f[Len(seqs)][l + k] = f[i][l + k]
    BY <1>4, <2>3 DEF Starts
  <2> QED
    BY <2>2, <2>4 DEF l
<1> QED
  BY <1>2, <1>5 DEF Holds

\* Where a prefix ends that is not the whole, a sequence starts that is not empty.
LEMMA SequenceAtPrefix ==
  ASSUME NEW seqs \in Seq(Seq(Byte)), NEW f, Joined(f, seqs), NEW k \in 0..Len(seqs), Len(f[k]) < Len(f[Len(seqs)])
  PROVE  \E j \in 1..Len(seqs) : Len(f[j - 1]) = Len(f[k]) /\ Len(f[j]) > Len(f[k])
<1> f \in [0..Len(seqs) -> Seq(Byte)] /\ Joins(f, seqs, Len(seqs))
  BY DEF Joined
<1> DEFINE n == Len(seqs)
           S == {j \in 1..n : Len(f[j]) > Len(f[k])}
<1>0. ASSUME NEW m \in 0..n PROVE Len(f[m]) \in Nat
  <2>1. f[m] \in Seq(Byte)
    OBVIOUS
  <2> QED
    BY <2>1
<1>1. n \in Nat /\ k \in Nat /\ k <= n /\ \A m \in 0..n : Len(f[m]) \in Nat
  BY <1>0
<1>2. n # 0
  BY <1>1
<1>3. n \in S
  BY <1>1, <1>2
<1>4. S \in SUBSET Nat /\ S # {}
  <2>1. S \in SUBSET Nat
    OBVIOUS
  <2> HIDE DEF S
  <2> QED
    BY <1>3, <2>1
<1> HIDE DEF S
<1>5. PICK j \in S : \A m \in S : j <= m
  BY <1>4, Least
<1>6. j \in 1..n /\ Len(f[j]) > Len(f[k]) /\ j \in 0..n /\ j - 1 \in 0..n
  BY <1>1, <1>5 DEF S
<1>7. k <= j - 1
  <2> SUFFICES ASSUME j <= k PROVE FALSE
    BY <1>1, <1>6
  <2>1. Len(f[j]) <= Len(f[k])
    BY <1>6, PrefixesGrow DEF Starts
  <2> QED
    BY <1>1, <1>6, <2>1
<1>8. Len(f[k]) <= Len(f[j - 1])
  BY <1>6, <1>7, PrefixesGrow DEF Starts
<1>9. Len(f[j - 1]) <= Len(f[k])
  <2>1. CASE j = 1
    <3>1. f[j - 1] = <<>>
      BY <2>1 DEF Joins
    <3>2. Len(f[j - 1]) = 0
      BY <3>1
    <3> QED
      BY <1>1, <3>2
  <2>2. CASE j # 1
    <3>1. j - 1 \in 1..n /\ ~(j <= j - 1)
      BY <1>6, <2>2
    <3>2. j - 1 \notin S
      BY <1>5, <3>1
    <3>3. ~(Len(f[j - 1]) > Len(f[k]))
      BY <3>1, <3>2 DEF S
    <3> QED
      BY <1>1, <1>6, <3>3
  <2> QED
    BY <2>1, <2>2
<1>10. Len(f[j - 1]) = Len(f[k])
  BY <1>1, <1>6, <1>8, <1>9
<1> QED
  BY <1>6, <1>10

LEMMA SameElements ==
  ASSUME NEW A, NEW a \in Seq(A), NEW b \in Seq(A), Len(a) = Len(b),
         \A k \in 1..Len(a) : a[k] = b[k]
  PROVE  a = b
OBVIOUS

\* After position y the stream has the sequence a and then a zero.
Spells(stream, y, a) ==
  Holds(stream, y, a) /\ stream[y + (Len(a) + 1)] = Nul

\* A sequence without zeros ends at the first.
LEMMA EndsAtZero ==
  ASSUME NEW a \in Seq(Letter), NEW b \in Seq(Letter), NEW y, NEW stream,
         Spells(stream, y, a), Spells(stream, y, b)
  PROVE  a = b
<1>1. Len(a) \in Nat /\ Len(b) \in Nat
  OBVIOUS
<1>2. ASSUME NEW c \in Seq(Letter), NEW d \in Seq(Letter), Len(c) \in Nat, Len(d) \in Nat,
             Spells(stream, y, c), Spells(stream, y, d)
      PROVE  ~(Len(c) < Len(d))
  <2> SUFFICES ASSUME Len(c) < Len(d) PROVE FALSE
    OBVIOUS
  <2>1. Len(c) + 1 \in 1..Len(d)
    BY <1>2
  <2>2. d[Len(c) + 1] # Nul
    <3>1. \A k \in 1..Len(d) : d[k] \in Letter
      OBVIOUS
    <3>2. d[Len(c) + 1] \in Letter
      BY <2>1, <3>1
    <3> QED
      BY <3>2, BytesOfTrees
  <2>3. stream[y + (Len(c) + 1)] = d[Len(c) + 1]
    BY <1>2, <2>1 DEF Spells, Holds
  <2>4. stream[y + (Len(c) + 1)] = Nul
    BY <1>2 DEF Spells, Holds
  <2> QED
    BY <2>2, <2>3, <2>4
<1>3. Len(a) = Len(b)
  <2>1. ~(Len(a) < Len(b)) /\ ~(Len(b) < Len(a))
    BY <1>1, <1>2
  <2> QED
    BY <1>1, <2>1
<1>4. \A k \in 1..Len(a) : a[k] = b[k]
  BY <1>3 DEF Spells, Holds
<1> QED
  BY <1>3, <1>4, SameElements

IsSource(entry) == entry.kind \in {"file", "link"}

Mark(entry) == IF entry.kind = "link" THEN L ELSE F

\* The stream has, after position x, the record of what is found at a path.
HasRecord(stream, x, path, entry) ==
  /\ Spells(stream, x, path)
  /\ stream[x + Len(path) + 2] = Mark(entry)
  /\ Spells(stream, x + Len(path) + 2, entry.bytes)

\* A record tells what it is a record of: a path and a target end at a zero, the
\* mark tells a file from a link, and every hash is as long as any other.
LEMMA RecordIsUnique ==
  ASSUME NEW stream, NEW x \in Nat, NEW p \in Seq(Letter), NEW q \in Seq(Letter),
         NEW d \in Entries, NEW e \in Entries, IsSource(d), IsSource(e),
         HasRecord(stream, x, p, d), HasRecord(stream, x, q, e)
  PROVE  p = q /\ d = e
<1>1. p = q
  <2>1. Spells(stream, x, p) /\ Spells(stream, x, q)
    BY DEF HasRecord
  <2> QED
    BY <2>1, EndsAtZero
<1>2. Mark(d) = Mark(e)
  BY <1>1 DEF HasRecord
<1>3. d.kind = e.kind
  BY <1>2 DEF Mark, IsSource, L, F
<1> DEFINE y == x + Len(p) + 2
<1>4. Spells(stream, y, d.bytes) /\ Spells(stream, y, e.bytes)
  BY <1>1 DEF HasRecord
<1> HIDE DEF y
<1>5. d.bytes = e.bytes
  <2>1. CASE d.kind = "link"
    <3>1. d.bytes \in Seq(Letter) /\ e.bytes \in Seq(Letter)
      BY <1>3, <2>1, BytesOfTrees DEF Entries
    <3> QED
      BY <1>4, <3>1, EndsAtZero
  <2>2. CASE d.kind = "file"
    <3>1. d.bytes \in Hashes /\ e.bytes \in Hashes
      BY <1>3, <2>2 DEF Entries
    <3>2. /\ d.bytes \in Seq(Byte) /\ e.bytes \in Seq(Byte)
          /\ Len(d.bytes) = Len(e.bytes)
      BY <3>1, BytesOfTrees, BytesAssumption
    <3>3. \A k \in 1..Len(d.bytes) : d.bytes[k] = e.bytes[k]
      BY <1>4, <3>2 DEF Spells, Holds
    <3> QED
      BY <3>2, <3>3, SameElements
  <2> QED
    BY <2>1, <2>2 DEF IsSource
<1>6. d = [kind |-> d.kind, bytes |-> d.bytes] /\ e = [kind |-> e.kind, bytes |-> e.bytes]
  BY DEF Entries
<1> QED
  BY <1>1, <1>3, <1>5, <1>6

\* The records of the sources of a tree, in the order of the walk.
Records(tree) == [i \in DOMAIN Walk |-> EntryRecord(Walk[i], tree[Walk[i]])]

LEMMA BytesOfEntry ==
  ASSUME NEW entry \in Entries
  PROVE  entry.bytes \in Seq(Byte) /\ entry.kind \in {"absent", "directory", "file", "link"}
<1>1. entry.bytes = <<>> \/ entry.bytes \in Hashes \/ entry.bytes \in Targets
  BY DEF Entries
<1>2. entry.bytes \in Seq(Byte)
  <2>1. <<>> \in Seq(Byte)
    OBVIOUS
  <2> QED
    BY <1>1, <2>1, BytesOfTrees
<1> QED
  BY <1>2 DEF Entries

LEMMA WalkIsPaths ==
  /\ Len(Walk) \in Nat /\ DOMAIN Walk = 1..Len(Walk)
  /\ \A i \in 1..Len(Walk) : Walk[i] \in Paths /\ Walk[i] \in Seq(Letter) /\ Walk[i] \in Seq(Byte)
  /\ \A p \in Paths : \E i \in 1..Len(Walk) : p = Walk[i]
<1>1. Walk \in Seq(Seq(Letter))
  BY BytesOfTrees
<1>2. Len(Walk) \in Nat /\ DOMAIN Walk = 1..Len(Walk)
  BY <1>1
<1>3. ASSUME NEW i \in 1..Len(Walk) PROVE Walk[i] \in Seq(Letter) /\ Walk[i] \in Seq(Byte)
  <2>1. Walk[i] \in Seq(Letter)
    BY <1>1
  <2> QED
    BY <2>1, BytesOfTrees
<1> QED
  BY <1>2, <1>3 DEF Paths

\* A directory adds nothing to the stream; a file or a link adds its record, of at
\* least one byte, which spells out the path, the mark and what is there.
LEMMA RecordOfSource ==
  ASSUME NEW path \in Seq(Byte), NEW entry \in Entries
  PROVE  /\ EntryRecord(path, entry) \in Seq(Byte)
         /\ ~IsSource(entry) => Len(EntryRecord(path, entry)) = 0
         /\ IsSource(entry) =>
              /\ Len(EntryRecord(path, entry)) = Len(path) + Len(entry.bytes) + 3
              /\ \A stream : \A x \in Nat :
                   Holds(stream, x, EntryRecord(path, entry)) => HasRecord(stream, x, path, entry)
<1> DEFINE b == entry.bytes
           r == EntryRecord(path, entry)
           m == Mark(entry)
           whole == path \o <<Nul, m>> \o b \o <<Nul>>
<1>1. b \in Seq(Byte) /\ Len(b) \in Nat /\ Len(path) \in Nat
  BY BytesOfEntry
<1>2. Nul \in Byte /\ m \in Byte
  BY BytesOfTrees DEF Mark
<1>3. CASE ~IsSource(entry)
  <2>1. r = <<>>
    BY <1>3 DEF EntryRecord, IsSource
  <2> QED
    BY <1>3, <2>1
<1>4. CASE IsSource(entry)
  <2>1. r = whole
    BY <1>4 DEF EntryRecord, IsSource, Mark
  <2> HIDE DEF b, r, m
  <2>2. whole \in Seq(Byte) /\ Len(whole) = Len(path) + Len(b) + 3
    BY <1>1, <1>2
  <2>3. /\ \A k \in 1..Len(path) : whole[k] = path[k]
        /\ whole[Len(path) + 1] = Nul /\ whole[Len(path) + 2] = m
        /\ \A k \in 1..Len(b) : whole[Len(path) + 2 + k] = b[k]
        /\ whole[Len(path) + Len(b) + 3] = Nul
    <3> DEFINE mark == <<Nul, m>>
               a1 == path \o mark
               a2 == a1 \o b
               end == <<Nul>>
    <3>1. /\ mark \in Seq(Byte) /\ Len(mark) = 2 /\ mark[1] = Nul /\ mark[2] = m
          /\ end \in Seq(Byte) /\ Len(end) = 1 /\ end[1] = Nul
          /\ whole = a2 \o end /\ a2 = a1 \o b /\ a1 = path \o mark
      BY <1>2
    <3> HIDE DEF mark, a1, a2, end, whole
    <3>2. /\ a1 \in Seq(Byte) /\ Len(a1) = Len(path) + 2 /\ Starts(path, a1)
          /\ \A k \in 1..2 : a1[Len(path) + k] = mark[k]
      <4>1. /\ a1 \in Seq(Byte) /\ Len(a1) = Len(path) + Len(mark) /\ Starts(path, a1)
            /\ \A k \in 1..Len(mark) : a1[Len(path) + k] = mark[k]
        <5>1. path \in Seq(Byte) /\ mark \in Seq(Byte) /\ a1 = path \o mark
          BY <1>1, <3>1
        <5> QED
          BY <5>1, Concatenation
      <4> QED
        BY <4>1, <3>1
    <3>3. /\ a2 \in Seq(Byte) /\ Len(a2) = Len(path) + 2 + Len(b) /\ Starts(a1, a2)
          /\ \A k \in 1..Len(b) : a2[Len(path) + 2 + k] = b[k]
      <4>1. /\ a2 \in Seq(Byte) /\ Len(a2) = Len(a1) + Len(b) /\ Starts(a1, a2)
            /\ \A k \in 1..Len(b) : a2[Len(a1) + k] = b[k]
        <5>1. a1 \in Seq(Byte) /\ b \in Seq(Byte) /\ a2 = a1 \o b
          BY <1>1, <3>1, <3>2
        <5>2. a2 \in Seq(Byte) /\ Len(a2) = Len(a1) + Len(b)
          BY <5>1, Concatenation
        <5>3. Starts(a1, a2)
          BY <5>1, Concatenation
        <5>4. \A k \in 1..Len(b) : a2[Len(a1) + k] = b[k]
          BY <5>1, Concatenation
        <5> QED
          BY <5>2, <5>3, <5>4
      <4> QED
        BY <4>1, <3>2
    <3>4. Starts(a2, whole) /\ whole[Len(a2) + 1] = Nul
      <4>1. /\ whole \in Seq(Byte) /\ Len(whole) = Len(a2) + Len(end) /\ Starts(a2, whole)
            /\ \A k \in 1..Len(end) : whole[Len(a2) + k] = end[k]
        <5>1. a2 \in Seq(Byte) /\ end \in Seq(Byte) /\ whole = a2 \o end
          BY <3>1, <3>3
        <5>2. whole \in Seq(Byte) /\ Len(whole) = Len(a2) + Len(end)
          BY <5>1, Concatenation
        <5>3. Starts(a2, whole)
          BY <5>1, Concatenation
        <5>4. \A k \in 1..Len(end) : whole[Len(a2) + k] = end[k]
          BY <5>1, Concatenation
        <5> QED
          BY <5>2, <5>3, <5>4
      <4> QED
        BY <4>1, <3>1
    <3>5. /\ a1[Len(path) + 1] = Nul /\ a1[Len(path) + 2] = m
          /\ \A k \in 1..Len(path) : a1[k] = path[k]
      BY <3>1, <3>2 DEF Starts
    <3>6. \A k \in 1..(Len(path) + 2) : whole[k] = a1[k]
      BY <1>1, <3>2, <3>3, <3>4 DEF Starts
    <3>7. ASSUME NEW k \in 1..Len(b) PROVE whole[Len(path) + 2 + k] = b[k]
      <4>1. Len(path) + 2 + k \in 1..Len(a2)
        BY <1>1, <3>3
      <4> QED
        BY <3>3, <3>4, <4>1 DEF Starts
    <3>8. whole[Len(path) + Len(b) + 3] = Nul
      <4>1. whole[Len(a2) + 1] = Nul
        BY <3>4
      <4>2. Len(a2) + 1 = Len(path) + Len(b) + 3
        BY <1>1, <3>3
      <4> QED
        BY <4>1, <4>2
    <3>9. Len(path) + 1 \in 1..(Len(path) + 2) /\ Len(path) + 2 \in 1..(Len(path) + 2)
      BY <1>1
    <3>10. \A k \in 1..Len(path) : k \in 1..(Len(path) + 2)
      BY <1>1
    <3> QED
      BY <3>5, <3>6, <3>7, <3>8, <3>9, <3>10
  <2> HIDE DEF whole
  <2>4. ASSUME NEW stream, NEW x \in Nat, Holds(stream, x, r)
        PROVE  HasRecord(stream, x, path, entry)
    <3>1. \A k \in 1..(Len(path) + Len(b) + 3) : stream[x + k] = whole[k]
      BY <2>1, <2>2, <2>4 DEF Holds
    <3>2. \A k \in 1..Len(path) : stream[x + k] = path[k]
      BY <1>1, <2>3, <3>1
    <3>3. stream[x + (Len(path) + 1)] = Nul
      <4>1. Len(path) + 1 \in 1..(Len(path) + Len(b) + 3)
        BY <1>1
      <4> QED
        BY <2>3, <3>1, <4>1
    <3>4. stream[x + Len(path) + 2] = m
      <4>1. stream[x + (Len(path) + 2)] = m
        BY <1>1, <2>3, <3>1
      <4>2. x + Len(path) + 2 = x + (Len(path) + 2)
        BY <1>1
      <4> QED
        BY <4>1, <4>2
    <3>5. ASSUME NEW k \in 1..Len(b) PROVE stream[(x + Len(path) + 2) + k] = b[k]
      <4>1. stream[x + (Len(path) + 2 + k)] = b[k]
        BY <1>1, <2>3, <3>1
      <4>2. (x + Len(path) + 2) + k = x + (Len(path) + 2 + k)
        BY <1>1
      <4> QED
        BY <4>1, <4>2
    <3>6. stream[(x + Len(path) + 2) + (Len(b) + 1)] = Nul
      <4>1. stream[x + (Len(path) + Len(b) + 3)] = Nul
        <5>1. Len(path) + Len(b) + 3 \in 1..(Len(path) + Len(b) + 3)
          BY <1>1
        <5> QED
          BY <2>3, <3>1, <5>1
      <4>2. (x + Len(path) + 2) + (Len(b) + 1) = x + (Len(path) + Len(b) + 3)
        BY <1>1
      <4> QED
        BY <4>1, <4>2
    <3> QED
      BY <3>2, <3>3, <3>4, <3>5, <3>6 DEF HasRecord, Spells, Holds, b, m
  <2> QED
    BY <1>4, <2>1, <2>2, <2>4 DEF b, r
<1> QED
  BY <1>3, <1>4

LEMMA RecordHolds ==
  ASSUME NEW path \in Seq(Byte), NEW entry \in Entries, IsSource(entry), NEW stream,
         NEW x \in Nat, NEW r, r = EntryRecord(path, entry), Holds(stream, x, r)
  PROVE  HasRecord(stream, x, path, entry)
<1>1. \A s : \A y \in Nat : Holds(s, y, EntryRecord(path, entry)) => HasRecord(s, y, path, entry)
  BY RecordOfSource
<1> QED
  BY <1>1

LEMMA RecordsAreBytes ==
  ASSUME NEW t \in Trees
  PROVE  /\ Records(t) \in Seq(Seq(Byte)) /\ Len(Records(t)) = Len(Walk)
         /\ \A i \in 1..Len(Walk) :
              /\ Records(t)[i] = EntryRecord(Walk[i], t[Walk[i]])
              /\ t[Walk[i]] \in Entries
<1>1. ASSUME NEW i \in 1..Len(Walk)
      PROVE  EntryRecord(Walk[i], t[Walk[i]]) \in Seq(Byte) /\ t[Walk[i]] \in Entries
  <2>1. Walk[i] \in Paths /\ Walk[i] \in Seq(Byte)
    BY WalkIsPaths
  <2>2. t[Walk[i]] \in Entries
    BY <2>1 DEF Trees
  <2> QED
    BY <2>1, <2>2, RecordOfSource
<1> DEFINE n == Len(Walk)
           r == [i \in 1..n |-> EntryRecord(Walk[i], t[Walk[i]])]
<1>2. n \in Nat /\ Records(t) = r
  BY WalkIsPaths DEF Records
<1>3. r \in [1..n -> Seq(Byte)]
  BY <1>1
<1>4. r \in Seq(Seq(Byte)) /\ Len(r) = n
  <2> HIDE DEF n, r
  <2> QED
    BY <1>2, <1>3
<1> QED
  BY <1>1, <1>2, <1>4

\* A source of one tree, whose record starts in the stream where a record of the
\* other tree can start, is a source of the other, and the two records end together.
LEMMA RecordsMatch ==
  ASSUME NEW t \in Trees, NEW u \in Trees,
         NEW f, Joined(f, Records(t)), NEW g, Joined(g, Records(u)), f[Len(Walk)] = g[Len(Walk)],
         NEW i \in 1..Len(Walk), IsSource(t[Walk[i]]),
         NEW k \in 0..Len(Walk), Len(g[k]) = Len(f[i - 1])
  PROVE  \E j \in 1..Len(Walk) :
           /\ Walk[j] = Walk[i] /\ u[Walk[j]] = t[Walk[i]] /\ Len(g[j]) = Len(f[i])
<1> DEFINE n == Len(Walk)
           stream == f[n]
           x == Len(f[i - 1])
           r == Records(t)[i]
<1>1. /\ n \in Nat /\ Records(t) \in Seq(Seq(Byte)) /\ Len(Records(t)) = n
      /\ Records(u) \in Seq(Seq(Byte)) /\ Len(Records(u)) = n
  BY WalkIsPaths, RecordsAreBytes
<1>2. Walk[i] \in Seq(Byte) /\ Walk[i] \in Seq(Letter) /\ t[Walk[i]] \in Entries
      /\ r = EntryRecord(Walk[i], t[Walk[i]])
  BY WalkIsPaths, RecordsAreBytes
<1>3. i - 1 \in 0..n /\ i \in 0..n /\ n \in 0..n /\ i <= n
  BY <1>1
<1>4. ASSUME NEW m \in 0..n PROVE Len(f[m]) \in Nat /\ Len(g[m]) \in Nat
  <2>1. f[m] \in Seq(Byte) /\ g[m] \in Seq(Byte)
    BY <1>1 DEF Joined
  <2> QED
    BY <2>1
<1>5. /\ Len(f[i]) = x + Len(r)
      /\ Holds(stream, x, r)
  BY <1>1, PlaceInStream
<1>6. Len(r) = Len(Walk[i]) + Len(t[Walk[i]].bytes) + 3 /\ HasRecord(stream, x, Walk[i], t[Walk[i]])
  <2>1. x \in Nat
    BY <1>3, <1>4
  <2> HIDE DEF x, stream, r
  <2>2. Len(r) = Len(Walk[i]) + Len(t[Walk[i]].bytes) + 3
    BY <1>2, RecordOfSource
  <2>3. HasRecord(stream, x, Walk[i], t[Walk[i]])
    BY <1>2, <1>5, <2>1, RecordHolds
  <2> QED
    BY <2>2, <2>3
<1>7. Len(g[k]) < Len(g[n])
  <2>1. Len(f[i]) <= Len(f[n])
    BY <1>1, <1>3, PrefixesGrow DEF Starts
  <2>2. Len(Walk[i]) \in Nat /\ Len(t[Walk[i]].bytes) \in Nat
    BY <1>2, BytesOfEntry
  <2>3. x \in Nat /\ Len(f[i]) \in Nat /\ Len(f[n]) \in Nat
    BY <1>3, <1>4
  <2> HIDE DEF x, r, n
  <2>4. Len(r) \in Nat /\ Len(r) > 0
    <3>1. \A a, b \in Nat : a + b + 3 \in Nat /\ a + b + 3 > 0
      OBVIOUS
    <3> QED
      BY <1>6, <2>2, <3>1
  <2>5. x < Len(f[i])
    BY <1>5, <2>3, <2>4
  <2>6. x < Len(f[n])
    BY <2>1, <2>3, <2>5
  <2> QED
    BY <2>6 DEF x, n
<1>8. PICK j \in 1..n : Len(g[j - 1]) = x /\ Len(g[j]) > x
  <2>1. k \in 0..Len(Records(u)) /\ Len(g[k]) < Len(g[Len(Records(u))])
    BY <1>1, <1>7
  <2>2. \E m \in 1..Len(Records(u)) : Len(g[m - 1]) = Len(g[k]) /\ Len(g[m]) > Len(g[k])
    BY <1>1, <2>1, SequenceAtPrefix
  <2> QED
    BY <1>1, <2>2
<1> DEFINE v == Records(u)[j]
<1>9. Walk[j] \in Seq(Byte) /\ Walk[j] \in Seq(Letter) /\ u[Walk[j]] \in Entries
      /\ v = EntryRecord(Walk[j], u[Walk[j]])
  BY WalkIsPaths, RecordsAreBytes
<1>10. /\ Len(g[j]) = x + Len(v)
       /\ Holds(stream, x, v)
  <2>1. /\ Len(g[j]) = Len(g[j - 1]) + Len(v)
        /\ Holds(g[n], Len(g[j - 1]), v)
    BY <1>1, PlaceInStream
  <2> QED
    BY <1>8, <2>1
<1>11. x \in Nat
  BY <1>3, <1>4
<1> HIDE DEF n, stream, x, r, v
<1>12. IsSource(u[Walk[j]])
  <2> SUFFICES ASSUME ~IsSource(u[Walk[j]]) PROVE FALSE
    OBVIOUS
  <2>1. Len(v) = 0
    BY <1>9, RecordOfSource
  <2> QED
    BY <1>8, <1>10, <1>11, <2>1
<1>13. HasRecord(stream, x, Walk[j], u[Walk[j]])
  BY <1>9, <1>10, <1>11, <1>12, RecordHolds
<1>14. Walk[j] = Walk[i] /\ u[Walk[j]] = t[Walk[i]]
  BY <1>2, <1>6, <1>9, <1>11, <1>12, <1>13, RecordIsUnique
<1>15. v = r
  BY <1>2, <1>9, <1>14
<1>16. Len(g[j]) = Len(f[i])
  BY <1>5, <1>10, <1>15
<1> QED
  BY <1>14, <1>16 DEF n

\* Two trees with one identity: every source of the one is a source of the other.
LEMMA SourcesAreRead ==
  ASSUME NEW t \in Trees, NEW u \in Trees, ProtocolIdentity(t) = ProtocolIdentity(u),
         NEW p \in Paths, IsSource(t[p])
  PROVE  u[p] = t[p]
<1> DEFINE n == Len(Walk)
<1>1. /\ n \in Nat /\ Records(t) \in Seq(Seq(Byte)) /\ Len(Records(t)) = n
      /\ Records(u) \in Seq(Seq(Byte)) /\ Len(Records(u)) = n
  BY WalkIsPaths, RecordsAreBytes
<1>2. PICK f : Joined(f, Records(t))
  BY <1>1, JoinedExist
<1>3. PICK g : Joined(g, Records(u))
  BY <1>1, JoinedExist
<1>4. f[n] = g[n]
  <2>1. FlattenSeq(Records(t)) = f[n]
    BY <1>1, <1>2, FlattenIsLastPrefix
  <2>2. FlattenSeq(Records(u)) = g[n]
    BY <1>1, <1>3, FlattenIsLastPrefix
  <2>3. ProtocolIdentity(t) = FlattenSeq(Records(t))
    BY Zenon DEF ProtocolIdentity, Records
  <2>4. ProtocolIdentity(u) = FlattenSeq(Records(u))
    BY Zenon DEF ProtocolIdentity, Records
  <2> QED
    BY <2>1, <2>2, <2>3, <2>4
\* Wherever a prefix of the stream of t ends, one of the stream of u does.
<1> DEFINE Meets(i) == \E k \in 0..n : Len(g[k]) = Len(f[i])
           S == {i \in Nat : i <= n => Meets(i)}
<1>5. 0 \in S
  <2>1. g[0] = f[0] /\ 0 \in 0..n
    BY <1>1, <1>2, <1>3 DEF Joined, Joins
  <2> QED
    BY <2>1
<1>6. ASSUME NEW i \in Nat, i \in S, i + 1 <= n PROVE Meets(i + 1)
  <2>1. i \in 0..n /\ i + 1 \in 1..n /\ (i + 1) - 1 = i
    BY <1>1, <1>6
  <2>2. PICK k \in 0..n : Len(g[k]) = Len(f[i])
    BY <1>6, <2>1
  <2>3. CASE IsSource(t[Walk[i + 1]])
    <3>1. \E j \in 1..n : Len(g[j]) = Len(f[i + 1])
      <4>1. Len(g[k]) = Len(f[(i + 1) - 1])
        BY <2>1, <2>2
      <4> DEFINE m == i + 1
      <4>2. m \in 1..n /\ IsSource(t[Walk[m]]) /\ Len(g[k]) = Len(f[m - 1])
        BY <2>1, <2>3, <4>1
      <4> HIDE DEF m
      <4>3. \E j \in 1..n : Len(g[j]) = Len(f[m])
        BY <1>2, <1>3, <1>4, <4>2, RecordsMatch
      <4> QED
        BY <4>3 DEF m
    <3> QED
      BY <3>1
  <2>4. CASE ~IsSource(t[Walk[i + 1]])
    <3>1. Len(Records(t)[i + 1]) = 0
      <4>1. /\ Walk[i + 1] \in Seq(Byte) /\ t[Walk[i + 1]] \in Entries
            /\ Records(t)[i + 1] = EntryRecord(Walk[i + 1], t[Walk[i + 1]])
        BY <2>1, WalkIsPaths, RecordsAreBytes
      <4> QED
        BY <2>4, <4>1, RecordOfSource
    <3>2. Len(f[i + 1]) = Len(f[i]) + Len(Records(t)[i + 1])
      <4> DEFINE m == i + 1
      <4>1. m \in 1..Len(Records(t)) /\ m - 1 = i
        BY <1>1, <2>1
      <4> HIDE DEF m
      <4>2. Len(f[m]) = Len(f[m - 1]) + Len(Records(t)[m])
        BY <1>1, <1>2, <4>1, PlaceInStream
      <4> QED
        BY <4>1, <4>2 DEF m
    <3>3. Len(f[i]) \in Nat
      <4>1. f[i] \in Seq(Byte)
        BY <1>1, <1>2, <2>1 DEF Joined
      <4> QED
        BY <4>1
    <3>4. Len(f[i + 1]) = Len(f[i])
      BY <3>1, <3>2, <3>3
    <3> QED
      BY <2>2, <3>4
  <2> QED
    BY <2>3, <2>4
<1> HIDE DEF Meets
<1>7. S = Nat
  <2>1. ASSUME NEW i \in S PROVE i + 1 \in S
    <3>1. i \in Nat /\ i + 1 \in Nat
      OBVIOUS
    <3> QED
      BY <1>6, <3>1
  <2>2. S \in SUBSET Nat
    OBVIOUS
  <2> HIDE DEF S
  <2> QED
    BY <1>5, <2>1, <2>2, Induction
<1>8. PICK i \in 1..n : p = Walk[i]
  BY WalkIsPaths
<1>9. i - 1 \in Nat /\ i - 1 <= n
  BY <1>1
<1>10. i - 1 \in S
  BY <1>7, <1>9
<1>11. PICK k \in 0..n : Len(g[k]) = Len(f[i - 1])
  BY <1>9, <1>10 DEF Meets
<1>12. PICK j \in 1..n : Walk[j] = Walk[i] /\ u[Walk[j]] = t[Walk[i]]
  BY <1>2, <1>3, <1>4, <1>8, <1>11, RecordsMatch
<1> QED
  BY <1>8, <1>12

\* The identity of a build tells its sources, although the stream that is hashed has
\* no lengths in it: for every walk, whatever the contents and the links.
THEOREM IdentityTellsSources ==
  ASSUME NEW t \in Trees, NEW u \in Trees, ProtocolIdentity(t) = ProtocolIdentity(u)
  PROVE  SourcesOf(t) = SourcesOf(u)
<1>1. ASSUME NEW v \in Trees, NEW w \in Trees, ProtocolIdentity(v) = ProtocolIdentity(w)
      PROVE  SourcesOf(v) \subseteq SourcesOf(w)
  <2> SUFFICES ASSUME NEW p \in Paths, v[p].kind \in {"file", "link"}
               PROVE  <<p, v[p]>> \in SourcesOf(w)
    BY DEF SourcesOf
  <2>1. w[p] = v[p]
    BY <1>1, SourcesAreRead DEF IsSource
  <2> QED
    BY <2>1 DEF SourcesOf
<1> QED
  BY <1>1

\* A side that goes on to its protocol was built from the sources its peer was built
\* from: the hash of the stream without lengths (build.rs:17) never lets a side
\* through whose sources differ.
THEOREM OkTellsSources == Spec => []OkMeansSameSources
<1>1. IndInv /\ BuildInv => OkMeansSameSources
  <2> SUFFICES ASSUME IndInv, BuildInv, NEW s \in Sides, result[s] = "Ok"
               PROVE  SourcesOf(build["client"]) = SourcesOf(build["server"])
    BY DEF OkMeansSameSources
  <2>1. result["server"] = "Ok"
    BY DEF IndInv, AcceptInv, Sides
  <2>2. ProtocolIdentity(build["client"]) = ProtocolIdentity(build["server"])
    BY <2>1 DEF IndInv, AcceptInv, Compatible, SameIdentity
  <2>3. build["client"] \in Trees /\ build["server"] \in Trees
    BY DEF BuildInv, Sides
  <2> QED
    BY <2>2, <2>3, IdentityTellsSources
<1> QED
  BY <1>1, Inductive, MeetInit, BuildStep, PTL DEF Spec
=============================================================================
