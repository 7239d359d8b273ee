------------------------------ MODULE FdPassing ------------------------------
(***************************************************************************)
(* File descriptors received with messages (ipc/seqpacket.rs,              *)
(* ipc/passfd.rs, ipc/ownedfd.rs).                                         *)
(*                                                                         *)
(* The threads of one process each receive messages on a connection of     *)
(* their own.  The kernel installs the descriptors of a message in the     *)
(* table of the process, receive_with_fds collects them into a queue of    *)
(* OwnedFd, and the deserializer moves one after the other into the fields *)
(* of the message.  Every descriptor that does not end in a message is to  *)
(* be closed.  Numbers are reused as soon as they are closed, by any       *)
(* thread.                                                                 *)
(*                                                                         *)
(* One step is one system call with the code that follows it, or the       *)
(* deserialization, which works on data of the thread alone.               *)
(***************************************************************************)
EXTENDS Integers, Sequences, Functions

CONSTANTS Threads,      \* threads of the receiving process
          Kinds,        \* types of messages: <<Message::MAX_FDS, descriptor fields>>
          MaxFiles,     \* bound: descriptors sent with one message
          MaxMessages,  \* bound: messages on one connection
          MaxNumber     \* the size of the process's table

ASSUME KindsAssumption == /\ Kinds \subseteq Nat \X Nat
                          /\ MaxFiles \in Nat /\ MaxMessages \in Nat /\ MaxNumber \in Nat

Numbers == 1..MaxNumber
NoFile == <<>>

\* A message is rejected at once when it is larger than the receiver's MAX_SIZE, or
\* when it has no data at all.
Sizes == {"fits", "rejected"}

\* The j-th descriptor of the n-th message to t, as passfd::serialize gathers them
\* field by field.
File(t, n, j) == <<t, n, j>>

VARIABLES
  table,   \* what each descriptor number of the process refers to
  sent,    \* every message sent to a thread: its size, how many descriptors
  read,    \* how many messages the thread has received
  pc,      \* where the thread is in receive_with_fds
  kind,    \* the type of message it is receiving, <<0, 0>> for none
  deque,   \* the descriptors it collected that are in no field
  fields   \* the descriptors in the fields of the message

connVars == <<sent, read>>
vars == <<table, connVars, pc, kind, deque, fields>>

TypeOK ==
  /\ table \in [Numbers -> {NoFile} \cup (Threads \X (1..MaxMessages) \X (1..MaxFiles))]
  /\ sent \in [Threads -> Seq([size : Sizes, files : 0..MaxFiles])]
  /\ read \in [Threads -> 0..MaxMessages]
  /\ pc \in [Threads -> {"idle", "deserialize", "dropFields", "dropRest", "returned"}]
  /\ kind \in [Threads -> {<<0, 0>>} \cup Kinds]
  /\ deque \in [Threads -> Seq(Numbers)]
  /\ fields \in [Threads -> Seq(Numbers)]
  /\ \A t \in Threads : Len(sent[t]) <= MaxMessages /\ read[t] <= Len(sent[t])
  /\ \A t \in Threads : Len(fields[t]) <= kind[t][2]

Init ==
  /\ table = [n \in Numbers |-> NoFile]
  /\ sent = [t \in Threads |-> <<>>]
  /\ read = [t \in Threads |-> 0]
  /\ pc = [t \in Threads |-> "idle"]
  /\ kind = [t \in Threads |-> <<0, 0>>]
  /\ deque = [t \in Threads |-> <<>>]
  /\ fields = [t \in Threads |-> <<>>]

-----------------------------------------------------------------------------
(* The peer: send_with_fds.                                                *)

\* It sends what it likes: nothing checks MAX_SIZE and MAX_FDS at the sender, and
\* the receiver may expect another type.  What it sends before the last message
\* was received makes no difference to the receiver.
Send(t) == \E size \in Sizes, files \in 0..MaxFiles :
  /\ Len(sent[t]) < MaxMessages /\ read[t] = Len(sent[t])
  /\ sent' = [sent EXCEPT ![t] = Append(@, [size |-> size, files |-> files])]
  /\ UNCHANGED <<table, read, pc, kind, deque, fields>>

-----------------------------------------------------------------------------
(* receive_with_fds.                                                       *)

\* The descriptors that fit into CMSG_SPACE(4 * max) bytes: the space is aligned
\* to 8 bytes, so that there is room for an even number.
Room(max) == 2 * ((max + 1) \div 2)

Free == {n \in Numbers : table[n] = NoFile}

\* The kernel installs descriptors at the lowest free numbers, in order, as many as
\* were sent, as there is room for, or as the table has numbers left.
Installs(new, files, max) ==
  /\ Len(new) <= Room(max)
  /\ Len(new) = files \/ Len(new) = Room(max) \/ Range(new) = Free
  /\ \A i, j \in DOMAIN new : i < j => new[i] < new[j]
  /\ \A i \in DOMAIN new : \A n \in Free \ Range(new) : new[i] < n

\* (Mutant: MSG_CTRUNC is not looked at.)
NeverTruncated(m, new) == FALSE

\* MSG_CTRUNC: there was no room, in the buffer or in the table.
Truncated(m, new) == Len(new) < m.files

\* (Mutant: the queue of owners is built after the check of MSG_CTRUNC.)
CollectedAfterCheck(m, new) == IF Truncated(m, new) THEN <<>> ELSE new

\* What the queue of owners holds when the checks are done.
Collected(m, new) == new

\* A message that is too large, or has no data, returns before the descriptors are
\* collected.
Recvmsg(t) == \E k \in Kinds :
  /\ pc[t] = "idle" /\ read[t] < Len(sent[t])
  /\ LET m == sent[t][read[t] + 1]
     IN  \E count \in 0..m.files : \E new \in [1..count -> Free] :
           /\ Installs(new, m.files, k[1])
           /\ table' = [n \in Numbers |-> IF n \in Range(new)
                        THEN File(t, read[t] + 1, CHOOSE i \in 1..count : new[i] = n)
                        ELSE table[n]]
           /\ IF m.size = "fits"
              THEN /\ deque' = [deque EXCEPT ![t] = Collected(m, new)]
                   /\ kind' = [kind EXCEPT ![t] = k]
                   /\ pc' = [pc EXCEPT ![t] = IF Truncated(m, new) THEN "dropRest"
                                              ELSE "deserialize"]
              ELSE UNCHANGED <<deque, kind, pc>>
  /\ read' = [read EXCEPT ![t] = @ + 1]
  /\ UNCHANGED <<sent, fields>>

\* (Mutant: the number of fields is not minded.)
MovedAll(d, j) == d

\* The descriptors that j fields pop from the queue d.
Moved(d, j) == SubSeq(d, 1, j)

\* (Mutant: the fields take the numbers, and the queue still owns them.)
LeftAll(d, j) == d

\* What the guard hands back to receive_with_fds.
Left(d, j) == SubSeq(d, j + 1, Len(d))

\* The closure fails when descriptors run out, or when the data is not that of a
\* message of the type, before or after any field.  Descriptors that are left are
\* an error too.
Deserialize(t) == \E j \in 0..kind[t][2] :
  /\ pc[t] = "deserialize" /\ j <= Len(deque[t])
  /\ fields' = [fields EXCEPT ![t] = Moved(deque[t], j)]
  /\ deque' = [deque EXCEPT ![t] = Left(deque[t], j)]
  /\ \/ j = kind[t][2] /\ deque'[t] = <<>> /\ pc' = [pc EXCEPT ![t] = "returned"]
     \/ pc' = [pc EXCEPT ![t] = "dropFields"]
  /\ UNCHANGED <<table, connVars, kind>>

\* Drop of an OwnedFd, or of what took its number.
Close(n) == table' = [table EXCEPT ![n] = NoFile]

\* The caller is done with the message.
DropMessage(t) ==
  /\ pc[t] = "returned"
  /\ pc' = [pc EXCEPT ![t] = "dropFields"]
  /\ UNCHANGED <<table, connVars, kind, deque, fields>>

DropField(t) ==
  /\ pc[t] = "dropFields" /\ fields[t] # <<>>
  /\ Close(Head(fields[t]))
  /\ fields' = [fields EXCEPT ![t] = Tail(@)]
  /\ UNCHANGED <<connVars, pc, kind, deque>>

DroppedFields(t) ==
  /\ pc[t] = "dropFields" /\ fields[t] = <<>>
  /\ pc' = [pc EXCEPT ![t] = "dropRest"]
  /\ UNCHANGED <<table, connVars, kind, deque, fields>>

DropRest(t) ==
  /\ pc[t] = "dropRest" /\ deque[t] # <<>>
  /\ Close(Head(deque[t]))
  /\ deque' = [deque EXCEPT ![t] = Tail(@)]
  /\ UNCHANGED <<connVars, pc, kind, fields>>

DroppedRest(t) ==
  /\ pc[t] = "dropRest" /\ deque[t] = <<>>
  /\ pc' = [pc EXCEPT ![t] = "idle"]
  /\ kind' = [kind EXCEPT ![t] = <<0, 0>>]
  /\ UNCHANGED <<table, connVars, deque, fields>>

Receiver(t) == Recvmsg(t) \/ Deserialize(t) \/ DropMessage(t) \/ DropField(t)
                 \/ DroppedFields(t) \/ DropRest(t) \/ DroppedRest(t)

Next == \E t \in Threads : Send(t) \/ Receiver(t)

Spec == Init /\ [][Next]_vars

-----------------------------------------------------------------------------
(* Properties.                                                             *)

\* The descriptors a thread has to close.
Held(t) == fields[t] \o deque[t]

\* What a thread holds is open, once, and came with its own last message: no
\* descriptor is closed twice, which would close another thread's.
NobodyClosesAnothers == \A t \in Threads : \A i \in DOMAIN Held(t) :
  /\ \E j \in 1..MaxFiles : table[Held(t)[i]] = File(t, read[t], j)
  /\ \A j \in DOMAIN Held(t) : i # j => Held(t)[i] # Held(t)[j]

\* A message that is returned has all the descriptors it was sent with, each in
\* its field: whatever the peer sent, however full the table is and whatever the
\* other threads close meanwhile.
ReturnedIsComplete == \A t \in Threads : pc[t] = "returned" =>
  /\ Len(fields[t]) = sent[t][read[t]].files
  /\ \A j \in DOMAIN fields[t] : table[fields[t][j]] = File(t, read[t], j)

Owned == UNION {Range(Held(t)) : t \in Threads}

\* On every error path but those of a message that is rejected at once, all
\* descriptors that arrived are closed.
OnlyRejectedLeak == \A n \in Numbers \ (Free \cup Owned) :
  sent[table[n][1]][table[n][2]].size # "fits"

-----------------------------------------------------------------------------
(* What a comment says and the code does not do.                           *)

\* The descriptors are to be closed on error paths (ipc/seqpacket.rs:210-211).
NothingLeaks == Numbers \subseteq Free \cup Owned
=============================================================================
