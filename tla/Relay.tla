------------------------------- MODULE Relay --------------------------------
(***************************************************************************)
(* What a session is, today, to the people who share it and to its shell.  *)
(* The shell's output is divided among the clients, each of whom is given  *)
(* a part of it in order.  A client that leaves takes with it what it was  *)
(* given and had not received, which is at most Room chunks, and at most    *)
(* one chunk more that was meant for it.  The shell's keyboard gets what   *)
(* each client typed, in order, in any interleaving.  There are no threads *)
(* or messages here.  That all clients be given all the output is planned   *)
(* and not what the code does.                                             *)
(***************************************************************************)
EXTENDS Integers, Sequences

CONSTANTS Clients,
          Room   \* how much a client is given before it has received the rest

VARIABLES
  printed,   \* number of chunks the shell printed: chunks are 1..printed
  stream,    \* the chunks each client was given
  received,  \* how many of these it has received
  lost,      \* the chunk that was never given to the client that left, or 0
  gone,      \* the clients that left
  typed,     \* how much each client typed
  pressed,   \* how much of that the shell was given
  keyboard   \* what the shell was given: whose, and its place in what they typed

outputVars == <<printed, stream, received, lost>>
inputVars == <<typed, pressed, keyboard>>
vars == <<outputVars, gone, inputVars>>

Init ==
  /\ printed = 0
  /\ stream = [c \in Clients |-> <<>>]
  /\ received = [c \in Clients |-> 0]
  /\ lost = [c \in Clients |-> 0]
  /\ gone = {}
  /\ typed = [c \in Clients |-> 0]
  /\ pressed = [c \in Clients |-> 0]
  /\ keyboard = <<>>

ChunksOf(s) == {s[i] : i \in DOMAIN s}

\* Printed, and neither given to anybody nor lost.
Pending == {k \in 1..printed : \A c \in Clients : k \notin ChunksOf(stream[c]) /\ lost[c] # k}

Emit ==
  /\ printed' = printed + 1
  /\ UNCHANGED <<stream, received, lost, gone, inputVars>>

\* Client c is given a chunk that is newer than those it has, if it has room for it.
Give(c) == \E k \in Pending :
  /\ c \notin gone /\ Len(stream[c]) - received[c] < Room
  /\ \A j \in ChunksOf(stream[c]) : j < k
  /\ stream' = [stream EXCEPT ![c] = Append(@, k)]
  /\ UNCHANGED <<printed, received, lost, gone, inputVars>>

Receive(c) ==
  /\ c \notin gone /\ received[c] < Len(stream[c])
  /\ received' = [received EXCEPT ![c] = @ + 1]
  /\ UNCHANGED <<printed, stream, lost, gone, inputVars>>

Leave(c) ==
  /\ gone' = gone \cup {c}
  /\ UNCHANGED <<outputVars, inputVars>>

\* A chunk meant for a client that left is lost for all the others too.
Lose(c) == \E k \in Pending :
  /\ c \in gone /\ lost[c] = 0
  /\ lost' = [lost EXCEPT ![c] = k]
  /\ UNCHANGED <<printed, stream, received, gone, inputVars>>

Type(c) ==
  /\ c \notin gone
  /\ typed'[c] >= typed[c]
  /\ typed' = [typed EXCEPT ![c] = typed'[c]]
  /\ UNCHANGED <<outputVars, gone, pressed, keyboard>>

\* The shell is given the next m places of what client c typed.
Press(c) == \E m \in 1..(typed[c] - pressed[c]) :
  /\ keyboard' = keyboard \o [i \in 1..m |-> <<c, pressed[c] + i>>]
  /\ pressed' = [pressed EXCEPT ![c] = @ + m]
  /\ UNCHANGED <<outputVars, gone, typed>>

Next == \/ Emit
        \/ \E c \in Clients : \/ Give(c) \/ Receive(c) \/ Leave(c) \/ Lose(c)
                              \/ Type(c) \/ Press(c)

Spec == Init /\ [][Next]_vars
=============================================================================
