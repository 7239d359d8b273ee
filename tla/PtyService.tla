----------------------------- MODULE PtyService -----------------------------
(***************************************************************************)
(* One tere-pty@ process (services/pty/mod.rs, services/pty/user.rs).      *)
(*                                                                         *)
(* The main thread serves one connection to its supervisor, the sessions   *)
(* service: a handshake, one Init that carries the PTY master, then any    *)
(* number of NewClient messages that each carry one client's socket.  For  *)
(* every client it spawns serve_user, which performs a handshake and then  *)
(* runs an input thread (socket to PTY) and an output thread (PTY to       *)
(* socket).  All threads share one PTY master and nothing coordinates      *)
(* them.  The process exits when serve() returns.                          *)
(*                                                                         *)
(* One atomic step is one blocking system call of one thread, with the     *)
(* code up to the next one.  A chunk of output is what one read of the PTY *)
(* returns; a keyboard message is Pieces pieces, the units in which write  *)
(* may come up short.                                                      *)
(***************************************************************************)
EXTENDS Integers, Sequences, FiniteSets

CONSTANTS Clients,     \* clients that may be attached to the session
          MaxChunks,   \* bound: chunks the shell prints
          MaxInputs,   \* bound: messages a client sends after the handshake
          Pieces,      \* pieces of one keyboard message
          SocketCap,   \* messages a socket holds before its sender blocks
          PtyCap       \* chunks, and pieces, the PTY holds before a writer blocks

ASSUME BoundsAssumption == /\ MaxChunks \in Nat
                           /\ MaxInputs \in Nat
                           /\ Pieces \in Nat \ {0}
                           /\ SocketCap \in Nat \ {0}
                           /\ PtyCap \in Nat \ {0}

VARIABLES
  main,      \* where the main thread is in serve()
  mainErr,   \* the error serve() returned
  sup,       \* the supervisor's end of its connection
  supQ,      \* messages from the supervisor that are not read yet
  shell,     \* does the shell hold the PTY's other side open?
  printed,   \* number of chunks the shell wrote: chunks are 1..printed
  taken,     \* number of chunks read from the PTY master
  keys,      \* every piece written to the PTY master, in order
  keysRead,  \* number of pieces the shell has read
  cli,       \* each client's own state
  typed,     \* number of messages the client sent after the handshake
  got,       \* number of messages the client received
  cliReset,  \* is ECONNRESET pending at the client's end?
  seen,      \* how the client saw its stream end
  srv,       \* the service's end of the client's socket
  inbox,     \* messages from the client that are not read yet
  sent,      \* every message sent to the client: 0 is the handshake reply
  srvReset,  \* is ECONNRESET pending at the service's end?
  user,      \* where the thread of serve_user is
  inp,       \* where the input thread is, or how it ended
  inHand,    \* the message the input thread is writing and how much is written
  out,       \* where the output thread is, or how it ended
  outHand    \* the chunk the output thread read last

mainVars == <<main, mainErr>>
supVars == <<sup, supQ>>
ptyVars == <<shell, printed, taken, keys, keysRead>>
cliVars == <<cli, typed, got, seen>>
sockVars == <<cliReset, srv, inbox, sent, srvReset>>
userVars == <<user, inp, inHand, out, outHand>>
vars == <<mainVars, supVars, ptyVars, cliVars, sockVars, userVars>>

Chunks == 1..MaxChunks
UserMsg == [type : {"Hello", "WrongHello", "Keys", "TooLarge"}, n : 0..MaxInputs]
SupMsg == [type : {"Hello", "WrongHello", "Init"}]
            \cup [type : {"NewClient"}, client : Clients, seqpacket : BOOLEAN]

InputEnded == {"End", "RecvError", "PtyError"}
OutputEnded == {"Eio", "SendError"}

MainType ==
  /\ main \in {"handshake", "reply", "init", "serve", "exited"}
  /\ mainErr \in {"none", "Handshake", "End", "Socket", "panic"}

SupType ==
  /\ sup \in {"new", "greeted", "ready", "closed", "aborted"}
  /\ supQ \in Seq(SupMsg)

PtyType ==
  /\ shell \in BOOLEAN
  /\ printed \in 0..MaxChunks
  /\ taken \in 0..printed
  /\ keys \in Seq(Clients \X (0..MaxInputs) \X (1..Pieces))
  /\ keysRead \in 0..Len(keys)

CliType ==
  /\ cli \in [Clients -> {"new", "waiting", "up", "closed"}]
  /\ typed \in [Clients -> 0..MaxInputs]
  /\ got \in [Clients -> Nat]
  /\ seen \in [Clients -> {"nothing", "End", "Reset"}]

SockType ==
  /\ cliReset \in [Clients -> BOOLEAN]
  /\ srv \in [Clients -> {"held", "queued", "open", "readshut", "closed"}]
  /\ inbox \in [Clients -> Seq(UserMsg)]
  /\ sent \in [Clients -> Seq({0} \cup Chunks)]
  /\ srvReset \in [Clients -> BOOLEAN]

UserType ==
  /\ user \in [Clients -> {"none", "hello", "reply", "joinOut", "joinIn", "done"}]
  /\ inp \in [Clients -> {"off", "recv", "write"} \cup InputEnded]
  /\ inHand \in [Clients -> [n : 0..MaxInputs, k : 0..Pieces]]
  /\ out \in [Clients -> {"off", "read", "send"} \cup OutputEnded]
  /\ outHand \in [Clients -> {0} \cup Chunks]

TypeOK == MainType /\ SupType /\ PtyType /\ CliType /\ SockType /\ UserType

Init ==
  /\ main = "handshake" /\ mainErr = "none"
  /\ sup = "new" /\ supQ = <<>>
  /\ shell = TRUE /\ printed = 0 /\ taken = 0
  /\ keys = <<>> /\ keysRead = 0
  /\ cli = [c \in Clients |-> "new"]
  /\ typed = [c \in Clients |-> 0]
  /\ got = [c \in Clients |-> 0]
  /\ cliReset = [c \in Clients |-> FALSE]
  /\ seen = [c \in Clients |-> "nothing"]
  /\ srv = [c \in Clients |-> "held"]
  /\ inbox = [c \in Clients |-> <<>>]
  /\ sent = [c \in Clients |-> <<>>]
  /\ srvReset = [c \in Clients |-> FALSE]
  /\ user = [c \in Clients |-> "none"]
  /\ inp = [c \in Clients |-> "off"]
  /\ inHand = [c \in Clients |-> [n |-> 0, k |-> 0]]
  /\ out = [c \in Clients |-> "off"]
  /\ outHand = [c \in Clients |-> 0]

-----------------------------------------------------------------------------
(* Connected SOCK_SEQPACKET sockets, as Linux implements them.             *)

Alive == main # "exited"
Unread(c) == Len(sent[c]) - got[c]

\* recvmsg at the service's end: a pending error comes before queued messages,
\* and queued messages come before the end of the stream.
RecvReset(c) == srvReset[c]
RecvMsg(c) == ~srvReset[c] /\ inbox[c] # <<>>
RecvEnd(c) == /\ ~srvReset[c] /\ inbox[c] = <<>>
              /\ (srv[c] = "readshut" \/ cli[c] = "closed")

\* sendmsg at the service's end: ECONNRESET or EPIPE, or room for the message;
\* otherwise the sender blocks.
SendFails(c) == srvReset[c] \/ cli[c] = "closed"
SendFits(c) == ~SendFails(c) /\ Unread(c) < SocketCap

\* Closing the service's end of the sockets in C throws their unread messages
\* away, and then the client finds ECONNRESET instead of the end of the stream.
CloseServer(C) ==
  /\ srv' = [c \in Clients |-> IF c \in C THEN "closed" ELSE srv[c]]
  /\ cliReset' = [c \in Clients |-> \/ cliReset[c]
                                    \/ c \in C /\ inbox[c] # <<>> /\ cli[c] # "closed"]
  /\ inbox' = [c \in Clients |-> IF c \in C THEN <<>> ELSE inbox[c]]
  /\ srvReset' = [c \in Clients |-> srvReset[c] /\ c \notin C]
  /\ UNCHANGED sent

\* Client c closes its end: unread messages make the service's end ECONNRESET.
CloseClient(c) ==
  /\ cli' = [cli EXCEPT ![c] = "closed"]
  /\ srvReset' = [srvReset EXCEPT ![c] = srv[c] # "closed" /\ Unread(c) > 0]
  /\ cliReset' = [cliReset EXCEPT ![c] = FALSE]
  /\ UNCHANGED <<srv, inbox, sent, typed, got>>

-----------------------------------------------------------------------------
(* The shell: whatever runs on the other side of the PTY.                  *)

ShellPrint ==
  /\ shell /\ printed < MaxChunks /\ printed - taken < PtyCap
  /\ printed' = printed + 1
  /\ UNCHANGED <<mainVars, supVars, shell, taken, keys, keysRead, cliVars, sockVars, userVars>>

ShellReadKeys ==
  /\ shell /\ keysRead < Len(keys)
  /\ keysRead' = Len(keys)
  /\ UNCHANGED <<mainVars, supVars, shell, printed, taken, keys, cliVars, sockVars, userVars>>

ShellExit ==
  /\ shell
  /\ shell' = FALSE
  /\ UNCHANGED <<mainVars, supVars, printed, taken, keys, keysRead, cliVars, sockVars, userVars>>

\* The PTY master is open in the supervisor, in an unread Init and in serve().
MasterOpen == \/ sup \notin {"closed", "aborted"}
              \/ main = "serve"
              \/ (main = "init" /\ supQ # <<>>)

\* The kernel hangs the shell up when the last master is closed.
ShellHangup == ~MasterOpen /\ ShellExit

-----------------------------------------------------------------------------
(* The supervisor: a connection thread of the sessions service.            *)

SupOpen == sup \notin {"closed", "aborted"}

SupHello == \E hello \in {"Hello", "WrongHello"} :
  /\ sup = "new"
  /\ sup' = "greeted"
  /\ supQ' = Append(supQ, [type |-> hello])
  /\ UNCHANGED <<mainVars, ptyVars, cliVars, sockVars, userVars>>

\* It reads the handshake reply and hands the PTY master over.
SupInit ==
  /\ sup = "greeted" /\ main = "init"
  /\ sup' = "ready"
  /\ supQ' = Append(supQ, [type |-> "Init"])
  /\ UNCHANGED <<mainVars, ptyVars, cliVars, sockVars, userVars>>

\* It hands over the socket of client c.  Nothing on the way has looked at
\* the type of that socket.
SupNewClient(c) == \E seqpacket \in BOOLEAN :
  /\ sup = "ready" /\ Alive /\ srv[c] = "held"
  /\ supQ' = Append(supQ, [type |-> "NewClient", client |-> c, seqpacket |-> seqpacket])
  /\ srv' = [srv EXCEPT ![c] = "queued"]
  /\ UNCHANGED <<mainVars, sup, ptyVars, cliVars, cliReset, inbox, sent, srvReset, userVars>>

\* It ends, or its thread panics: it drops the connection, its copy of the PTY
\* master and every client socket it still holds.
SupClose ==
  /\ SupOpen
  /\ sup' = IF sup = "greeted" /\ main = "init" THEN "aborted" ELSE "closed"
  /\ CloseServer({c \in Clients : srv[c] = "held"})
  /\ UNCHANGED <<mainVars, supQ, ptyVars, cliVars, userVars>>

-----------------------------------------------------------------------------
(* A client: it speaks the pty_user protocol on its end of the socket.     *)

ClientCanSend(c) == /\ ~cliReset[c]
                    /\ srv[c] \in {"held", "queued", "open"}
                    /\ Len(inbox[c]) < SocketCap

ClientHello(c) == \E hello \in {"Hello", "WrongHello"} :
  /\ cli[c] = "new" /\ ClientCanSend(c)
  /\ cli' = [cli EXCEPT ![c] = "waiting"]
  /\ inbox' = [inbox EXCEPT ![c] = Append(@, [type |-> hello, n |-> 0])]
  /\ UNCHANGED <<mainVars, supVars, ptyVars, typed, got, seen, cliReset, srv, sent, srvReset, userVars>>

\* Nothing limits the size of an input at the sender: it may exceed what the
\* service is prepared to receive.
ClientType(c) == \E type \in {"Keys", "TooLarge"} :
  /\ cli[c] = "up" /\ ClientCanSend(c) /\ typed[c] < MaxInputs
  /\ typed' = [typed EXCEPT ![c] = @ + 1]
  /\ inbox' = [inbox EXCEPT ![c] = Append(@, [type |-> type, n |-> typed[c] + 1])]
  /\ UNCHANGED <<mainVars, supVars, ptyVars, cli, got, seen, cliReset, srv, sent, srvReset, userVars>>

\* The first message it receives is the handshake reply.
ClientReceive(c) ==
  /\ cli[c] \in {"waiting", "up"} /\ ~cliReset[c] /\ Unread(c) > 0
  /\ got' = [got EXCEPT ![c] = @ + 1]
  /\ cli' = [cli EXCEPT ![c] = "up"]
  /\ UNCHANGED <<mainVars, supVars, ptyVars, typed, seen, sockVars, userVars>>

ClientEnd(c) ==
  /\ cli[c] \in {"waiting", "up"} /\ ~cliReset[c] /\ Unread(c) = 0 /\ srv[c] = "closed"
  /\ seen' = [seen EXCEPT ![c] = "End"]
  /\ CloseClient(c)
  /\ UNCHANGED <<mainVars, supVars, ptyVars, userVars>>

ClientReset(c) ==
  /\ cli[c] # "closed" /\ cliReset[c]
  /\ seen' = [seen EXCEPT ![c] = "Reset"]
  /\ CloseClient(c)
  /\ UNCHANGED <<mainVars, supVars, ptyVars, userVars>>

ClientClose(c) ==
  /\ cli[c] # "closed"
  /\ CloseClient(c)
  /\ UNCHANGED <<mainVars, supVars, ptyVars, seen, userVars>>

-----------------------------------------------------------------------------
(* The main thread: run() and serve().                                     *)

\* serve() returns, or panics, and the process ends with all its threads.
Exit(err) ==
  /\ main' = "exited" /\ mainErr' = err
  /\ supQ' = <<>>
  /\ CloseServer({c \in Clients : srv[c] \in {"queued", "open", "readshut"}})
  /\ UNCHANGED <<sup, ptyVars, cliVars, userVars>>

\* The supervisor's next message, when there is one to read.
SupSays(type) == sup # "aborted" /\ supQ # <<>> /\ Head(supQ).type = type
\* (Mutant: the end of the stream is taken for an idle supervisor.)
SupGoneOnError == sup = "aborted"

SupGone == \/ sup = "aborted"
           \/ sup = "closed" /\ supQ = <<>>

MainHandshake ==
  /\ main = "handshake"
  /\ \/ /\ SupSays("Hello")
        /\ main' = "reply" /\ supQ' = Tail(supQ)
        /\ UNCHANGED <<mainErr, sup, ptyVars, cliVars, sockVars, userVars>>
     \/ SupSays("WrongHello") /\ Exit("Handshake")
     \/ SupGone /\ Exit("Handshake")

\* (Mutant: the PTY is not received.)
ServeAtOnce == "serve"

\* What the main thread does when it has answered the handshake.
AfterReply == "init"

MainReply ==
  /\ main = "reply"
  /\ \/ /\ SupOpen
        /\ main' = AfterReply
        /\ UNCHANGED <<mainErr, supVars, ptyVars, cliVars, sockVars, userVars>>
     \/ ~SupOpen /\ Exit("Handshake")

\* Every error of receive_with_fds on the supervisor's connection ends serve().
MainGone == SupGone /\ Exit(IF sup = "aborted" THEN "Socket" ELSE "End")

MainInit ==
  /\ main = "init"
  /\ \/ /\ SupSays("Init")
        /\ main' = "serve" /\ supQ' = Tail(supQ)
        /\ UNCHANGED <<mainErr, sup, ptyVars, cliVars, sockVars, userVars>>
     \/ MainGone

\* A socket of another type makes the main thread panic.
MainServe ==
  /\ main = "serve"
  /\ \/ /\ SupSays("NewClient")
        /\ IF Head(supQ).seqpacket
           THEN LET c == Head(supQ).client IN
                /\ supQ' = Tail(supQ)
                /\ srv' = [srv EXCEPT ![c] = "open"]
                /\ user' = [user EXCEPT ![c] = "hello"]
                /\ UNCHANGED <<mainVars, sup, ptyVars, cliVars, cliReset, inbox, sent,
                               srvReset, inp, inHand, out, outHand>>
           ELSE Exit("panic")
     \/ MainGone

-----------------------------------------------------------------------------
(* serve_user: the handshake, and waiting for the two threads.             *)

\* serve_user returns and drops the last reference to the connection.
UserReturns(c) ==
  /\ user' = [user EXCEPT ![c] = "done"]
  /\ CloseServer({c})

UserHandshake(c) ==
  /\ Alive /\ user[c] = "hello"
  /\ \/ /\ RecvMsg(c) /\ Head(inbox[c]).type = "Hello"
        /\ user' = [user EXCEPT ![c] = "reply"]
        /\ inbox' = [inbox EXCEPT ![c] = Tail(@)]
        /\ UNCHANGED <<cliReset, srv, sent, srvReset>>
     \/ RecvMsg(c) /\ Head(inbox[c]).type # "Hello" /\ UserReturns(c)
     \/ (RecvReset(c) \/ RecvEnd(c)) /\ UserReturns(c)
  /\ UNCHANGED <<mainVars, supVars, ptyVars, cliVars, inp, inHand, out, outHand>>

UserReply(c) ==
  /\ Alive /\ user[c] = "reply"
  /\ \/ /\ SendFits(c)
        /\ sent' = [sent EXCEPT ![c] = Append(@, 0)]
        /\ user' = [user EXCEPT ![c] = "joinOut"]
        /\ inp' = [inp EXCEPT ![c] = "recv"]
        /\ out' = [out EXCEPT ![c] = "read"]
        /\ UNCHANGED <<cliReset, srv, inbox, srvReset>>
     \/ SendFails(c) /\ UserReturns(c) /\ UNCHANGED <<inp, out>>
  /\ UNCHANGED <<mainVars, supVars, ptyVars, cliVars, inHand, outHand>>

\* (Mutant: the joins are swapped.)
JoinedInputFirst(c) == inp[c] \in InputEnded

\* What the first join waits for.
JoinedFirst(c) == out[c] \in OutputEnded

\* (Mutant: the shutdown is forgotten.)
NoShutDown(c) == srv

\* The socket of c, shut down for reading.
ShutDownRead(c) == [srv EXCEPT ![c] = "readshut"]

\* The output thread is over: the shutdown is there to make the input thread end
\* too.
UserJoinOutput(c) ==
  /\ Alive /\ user[c] = "joinOut" /\ JoinedFirst(c)
  /\ srv' = ShutDownRead(c)
  /\ user' = [user EXCEPT ![c] = "joinIn"]
  /\ UNCHANGED <<mainVars, supVars, ptyVars, cliVars, cliReset, inbox, sent, srvReset,
                 inp, inHand, out, outHand>>

UserJoinInput(c) ==
  /\ Alive /\ user[c] = "joinIn" /\ inp[c] \in InputEnded
  /\ UserReturns(c)
  /\ UNCHANGED <<mainVars, supVars, ptyVars, cliVars, inp, inHand, out, outHand>>

-----------------------------------------------------------------------------
(* The input thread: socket to PTY.                                        *)

InputReceive(c) ==
  /\ Alive /\ inp[c] = "recv"
  /\ \/ /\ RecvMsg(c)
        /\ inbox' = [inbox EXCEPT ![c] = Tail(@)]
        /\ LET m == Head(inbox[c]) IN
             IF m.type = "Keys"
             THEN /\ inp' = [inp EXCEPT ![c] = "write"]
                  /\ inHand' = [inHand EXCEPT ![c] = [n |-> m.n, k |-> 0]]
             ELSE /\ inp' = [inp EXCEPT ![c] = "RecvError"]
                  /\ UNCHANGED inHand
        /\ UNCHANGED srvReset
     \/ /\ RecvReset(c)
        /\ srvReset' = [srvReset EXCEPT ![c] = FALSE]
        /\ inp' = [inp EXCEPT ![c] = "RecvError"]
        /\ UNCHANGED <<inbox, inHand>>
     \/ /\ RecvEnd(c)
        /\ inp' = [inp EXCEPT ![c] = "End"]
        /\ UNCHANGED <<inbox, inHand, srvReset>>
  /\ UNCHANGED <<mainVars, supVars, ptyVars, cliVars, cliReset, srv, sent, user, out, outHand>>

\* (Mutants: a short write is retried from the start; an off-by-one in what is left.)
WrittenAgain(c, m) == IF inHand[c].k + m = Pieces THEN Pieces ELSE 0
WrittenOneMore(c, m) == inHand[c].k + m + 1

\* How much of its message the input thread is done with when write(2) took m
\* more pieces.
WrittenAfter(c, m) == inHand[c].k + m

\* (Mutant: no loop around receive.)
OneMessageOnly == "End"

\* What the input thread does after a whole message.
AfterMessage == "recv"

\* One write(2) of write_all: it takes some of what is left, at most what fits.
InputWrite(c) ==
  /\ Alive /\ inp[c] = "write"
  /\ \/ /\ shell
        /\ \E m \in 1..(Pieces - inHand[c].k) :
             /\ Len(keys) + m - keysRead <= PtyCap
             /\ keys' = keys \o [i \in 1..m |-> <<c, inHand[c].n, inHand[c].k + i>>]
             /\ inHand' = [inHand EXCEPT ![c].k = WrittenAfter(c, m)]
             /\ inp' = IF WrittenAfter(c, m) = Pieces
                       THEN [inp EXCEPT ![c] = AfterMessage] ELSE inp
     \/ /\ ~shell
        /\ inp' = [inp EXCEPT ![c] = "PtyError"]
        /\ UNCHANGED <<keys, inHand>>
  /\ UNCHANGED <<mainVars, supVars, shell, printed, taken, keysRead, cliVars, sockVars,
                 user, out, outHand>>

-----------------------------------------------------------------------------
(* The output thread: PTY to socket.                                       *)

\* (Mutant: a read that does not consume.)
SameChunk == taken

\* The chunk a read of the PTY returns, which is then gone from the PTY.
NextChunk == taken + 1

\* EIO, once the output is drained and the other side is closed, is the normal
\* end of a PTY.
OutputRead(c) ==
  /\ Alive /\ out[c] = "read"
  /\ \/ /\ taken < printed
        /\ taken' = NextChunk
        /\ outHand' = [outHand EXCEPT ![c] = taken + 1]
        /\ out' = [out EXCEPT ![c] = "send"]
     \/ /\ taken = printed /\ ~shell
        /\ out' = [out EXCEPT ![c] = "Eio"]
        /\ UNCHANGED <<taken, outHand>>
  /\ UNCHANGED <<mainVars, supVars, shell, printed, keys, keysRead, cliVars, sockVars,
                 user, inp, inHand>>

\* (Mutants: the error is logged and the loop goes on; the send is retried.)
LogAndGoOn == "read"
RetrySend == "send"

\* Where the output thread goes when its send fails.
AfterFailedSend == "SendError"

OutputSend(c) ==
  /\ Alive /\ out[c] = "send"
  /\ \/ /\ SendFits(c)
        /\ sent' = [sent EXCEPT ![c] = Append(@, outHand[c])]
        /\ out' = [out EXCEPT ![c] = "read"]
        /\ UNCHANGED srvReset
     \/ /\ SendFails(c)
        /\ out' = [out EXCEPT ![c] = AfterFailedSend]
        /\ srvReset' = [srvReset EXCEPT ![c] = FALSE]
        /\ UNCHANGED sent
  /\ UNCHANGED <<mainVars, supVars, ptyVars, cliVars, cliReset, srv, inbox,
                 user, inp, inHand, outHand>>

-----------------------------------------------------------------------------
(* The system.                                                             *)

Shell == ShellPrint \/ ShellReadKeys \/ ShellExit
Supervisor == SupHello \/ SupInit \/ SupClose \/ \E c \in Clients : SupNewClient(c)
Client(c) == ClientHello(c) \/ ClientType(c) \/ ClientReceive(c) \/ ClientEnd(c)
               \/ ClientReset(c) \/ ClientClose(c)
Main == MainHandshake \/ MainReply \/ MainInit \/ MainServe
User(c) == UserHandshake(c) \/ UserReply(c) \/ UserJoinOutput(c) \/ UserJoinInput(c)
Input(c) == InputReceive(c) \/ InputWrite(c)
Output(c) == OutputRead(c) \/ OutputSend(c)

Next == \/ Shell
        \/ Supervisor
        \/ Main
        \/ \E c \in Clients : Client(c) \/ User(c) \/ Input(c) \/ Output(c)

\* The threads of the process run.  Of the environment it is assumed that
\* clients read what they are sent, that the shell reads its keyboard, and that
\* the kernel hangs up a PTY whose master is closed; never that a shell prints
\* or exits, that a client types or closes, or that the supervisor does anything.
ClientDrains(c) == ClientReceive(c) \/ ClientEnd(c) \/ ClientReset(c)

Fairness ==
  /\ WF_vars(Main)
  /\ WF_vars(ShellReadKeys)
  /\ WF_vars(ShellHangup)
  /\ \A c \in Clients : /\ WF_vars(User(c))
                        /\ WF_vars(Input(c))
                        /\ WF_vars(Output(c))
                        /\ WF_vars(ClientDrains(c))

Spec == Init /\ [][Next]_vars
FairSpec == Spec /\ Fairness

-----------------------------------------------------------------------------
(* Properties.                                                             *)

ChunksSent(c) == {sent[c][i] : i \in DOMAIN sent[c]} \ {0}

\* Several output threads take chunks from one PTY and nothing coordinates them
\* (the TODO at pty/mod.rs:55).  All the same, each client sees the output it is
\* given in the order it was printed, and no chunk reaches two clients.
StreamOrder ==
  /\ \A c \in Clients : \A i, j \in DOMAIN sent[c] : i < j => sent[c][i] < sent[c][j]
  /\ \A c, d \in Clients : c # d => ChunksSent(c) \cap ChunksSent(d) = {}

\* Where the chunks are that were read from the PTY for client c: it has received
\* them, or they are in its socket, or in the hand of its output thread.
Received(c) == {sent[c][i] : i \in 1..got[c]} \ {0}
InSocket(c) == {sent[c][i] : i \in (got[c] + 1)..Len(sent[c])} \ {0}
InHand(c) == IF out[c] \in {"send", "SendError"} THEN {outHand[c]} ELSE {}

\* What is in the socket is still to be received, and what is in the hand still to
\* be sent, unless the client has closed its socket or the process has ended.
UnderWay(c) == IF cli[c] = "closed" THEN {}
               ELSE InSocket(c) \cup (IF Alive /\ out[c] = "send" THEN InHand(c) ELSE {})
LostWith(c) == IF cli[c] = "closed" THEN InSocket(c) \cup InHand(c) ELSE {}
LostAtExit(c) == IF Alive THEN {} ELSE InHand(c)

\* The chunk k was received by a client, is on its way to one, or was lost with a
\* client that closed its socket.
Accounted(k) == \E c \in Clients : k \in Received(c) \cup UnderWay(c) \cup LostWith(c)

\* Output that was read from the PTY is lost in two ways only.  A client that closes
\* its socket takes with it what it had not received and the one chunk its output
\* thread had in hand, which nobody puts back for the other clients (user.rs:72-73);
\* and the process, when it ends, what its output threads had in hand.
ConservedOutput ==
  /\ \A k \in 1..taken : Accounted(k) \/ \E c \in Clients : k \in LostAtExit(c)
  /\ \A c \in Clients : Cardinality(LostWith(c)) <= SocketCap + 1

\* The place of a piece in what its client typed.
Place(piece) == (piece[2] - 1) * Pieces + piece[3]

\* However the PTY shortens writes, and however the input threads of several
\* clients interleave, what the shell is given of one client's keyboard is a
\* prefix of what that client typed: no piece dropped, repeated or reordered.
KeysInOrder ==
  /\ \A i, j \in DOMAIN keys :
       i < j /\ keys[i][1] = keys[j][1] => Place(keys[i]) < Place(keys[j])
  /\ \A j \in DOMAIN keys : \A p \in 1..(Place(keys[j]) - 1) :
       \E i \in 1..(j - 1) : keys[i][1] = keys[j][1] /\ Place(keys[i]) = p

\* A client that was served and sees a clean end of its stream while the process
\* runs knows that the shell is gone and that none of its output is left behind in
\* the PTY: all of it was received, is on its way to other clients, or was lost
\* with clients that closed their sockets.  Neither a bad keyboard message nor
\* another client's end cuts it off.  (The end of the process does.)
EndMeansAll == \A c \in Clients :
  seen[c] = "End" /\ sent[c] # <<>> /\ Alive
    => ~shell /\ \A k \in 1..printed : Accounted(k)

\* When the shell is gone, serve_user returns, whatever state its two threads
\* are in: reading, half-way through a message or blocked on a full PTY.
PtyEndReleasesUsers == \A c \in Clients :
  ~shell /\ user[c] \in {"joinOut", "joinIn"} ~> user[c] = "done" \/ ~Alive

\* A message the client could send reaches the shell whole, as long as the
\* shell, the service and the client live and no message before it was bad.
KeysReachShell == \A c \in Clients : \A n \in 1..MaxInputs :
  typed[c] >= n ~> \/ <<c, n, Pieces>> \in {keys[i] : i \in DOMAIN keys}
                   \/ inp[c] = "RecvError"
                   \/ ~shell \/ cli[c] = "closed" \/ ~Alive

\* What the shell printed is read as long as there is an output thread to read
\* it: a client that went away does not wedge the session for the others.
OutputKeepsFlowing == \A k \in Chunks :
  printed >= k /\ (\E c \in Clients : out[c] \in {"read", "send"})
    ~> taken >= k \/ (\A c \in Clients : out[c] \notin {"read", "send"}) \/ ~Alive

\* When the supervisor is gone the process ends; and whenever it ends, also by the
\* panic over a socket of another type (pty/mod.rs:61) while the supervisor is still
\* there, every client that waits for the service is told so: also one whose socket
\* is still in a message that nobody will read.
EndReleasesClients == \A c \in Clients :
  ~SupOpen \/ (~Alive /\ srv[c] # "held") ~> ~Alive /\ cli[c] \in {"new", "closed"}

-----------------------------------------------------------------------------
(* The process as its supervisor sees it: one worker of PtyWorker.         *)

Stage == CASE main \in {"handshake", "reply"} -> "new"
           [] main = "init" -> "greeted"
           [] main = "serve" -> "serving"
           [] main = "exited" -> "dead"

\* A greeting is not taken before it is answered.
NotTaken == LET type == [i \in DOMAIN supQ |-> IF supQ[i].type = "WrongHello"
                                               THEN "Hello" ELSE supQ[i].type]
            IN  IF main = "reply" THEN <<"Hello">> \o type ELSE type

Worker == INSTANCE PtyWorker WITH
            Workers <- {"pty"},
            worker <- [w \in {"pty"} |-> Stage],
            queue <- [w \in {"pty"} |-> NotTaken],
            linked <- [w \in {"pty"} |-> SupOpen]

\* The process is what Sessions takes its workers for, whatever its clients, its
\* shell and its threads do: it takes the supervisor's messages one by one and in
\* order, skips none, and loses none unless it ends.
IsAWorker == Worker!Spec

\* It neither leaves a message lying nor outlives its supervisor: which is the
\* fairness that Sessions assumes of its workers.
AnswersSupervisor == \A w \in {"pty"} : Worker!Answers(w)

-----------------------------------------------------------------------------
(* The session as its clients and its shell see it.                        *)

\* How much of what client c typed the input thread has written.
Written(c) == IF inHand[c].n = 0 THEN 0 ELSE (inHand[c].n - 1) * Pieces + inHand[c].k

\* The output each client was given, after the handshake reply, and how much of it
\* the client has received; the chunk that an output thread ended with; and what the
\* shell was given, as places.
Streams == [c \in Clients |-> IF sent[c] = <<>> THEN <<>> ELSE Tail(sent[c])]
Receipts == [c \in Clients |-> IF got[c] = 0 THEN 0 ELSE got[c] - 1]
Losses == [c \in Clients |-> IF out[c] = "SendError" THEN outHand[c] ELSE 0]
Gone == {c \in Clients : cli[c] = "closed"}
TypedPlaces == [c \in Clients |-> typed[c] * Pieces]
WrittenPlaces == [c \in Clients |-> Written(c)]
KeyPlaces == [i \in DOMAIN keys |-> <<keys[i][1], Place(keys[i])>>]

Session == INSTANCE Relay WITH
             Room <- SocketCap,
             stream <- Streams,
             received <- Receipts,
             lost <- Losses,
             gone <- Gone,
             typed <- TypedPlaces,
             pressed <- WrittenPlaces,
             keyboard <- KeyPlaces

\* The threads of the service, their sockets and the PTY they share add up to a
\* relay, which is not yet the broadcast that is planned (pty/mod.rs:55-56) but is
\* more than smearing: each step of a thread gives one client the next output it may
\* have, loses a chunk with a client that left, gives the shell the next keys of one
\* client, or does none of this.
IsARelay == Session!Spec

-----------------------------------------------------------------------------
(* What the repository's tests say and the code does not do.               *)

\* The VM test takes anything but a clean end of the stream for a failure
\* (tests/vm-smoke.rs:122-123), so the service may not close the socket of a client
\* it has served, and whose messages were all good, before it has read them.
SessionEndsCleanly == \A c \in Clients :
  seen[c] = "Reset" /\ sent[c] # <<>> /\ inp[c] # "RecvError" => ~Alive
=============================================================================
