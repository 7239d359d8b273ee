----------------------------- MODULE Handshake ------------------------------
(***************************************************************************)
(* The handshake (ipc/handshake.rs) between the two ends of one            *)
(* connection, each a process of some build that means to speak some       *)
(* protocol in the role of client or server.                               *)
(*                                                                         *)
(* One step is one send or one receive with the code after it.  An end     *)
(* whose handshake failed is closed by its caller, as every caller does.   *)
(* Either process may die at any time.                                     *)
(***************************************************************************)
EXTENDS BuildIdentity

CONSTANTS Protocols   \* the pairs of intents in proto/

Sides == {"client", "server"}
Peer(s) == IF s = "client" THEN "server" ELSE "client"

VARIABLES
  proto,   \* the protocol each side means to speak
  build,   \* the sources each side was built from
  pc,      \* where each side is in its half of the handshake
  result,  \* what its half returned
  inbox,   \* messages to each side that it has not read
  open,    \* is that end of the connection open?
  reset    \* is ECONNRESET pending at that end?

peerVars == <<proto, build>>
vars == <<peerVars, pc, result, inbox, open, reset>>

Rejected == {"Deserialize", "WrongVersion", "WrongService"}
Results == {"none", "Ok", "Send", "End", "Socket", "died"} \cup Rejected

\* An intent is a string that names a protocol and a role.
Intent(p, s) == <<p, s>>
Intents == Protocols \X Sides

\* blake3::derive_key: another hash for every context and every identity.
identify(context, tree) == <<context, ProtocolIdentity(tree)>>

Messages == [intent : Intents, from : Sides]

TypeOK ==
  /\ proto \in [Sides -> Protocols]
  /\ build \in [Sides -> Trees]
  /\ pc \in [Sides -> {"send", "receive", "returned"}]
  /\ result \in [Sides -> Results]
  /\ \A s \in Sides : (result[s] = "none") = (pc[s] # "returned")
  /\ inbox \in [Sides -> Seq(Messages)]
  /\ open \in [Sides -> BOOLEAN]
  /\ reset \in [Sides -> BOOLEAN]

Init ==
  /\ proto \in [Sides -> Protocols]
  /\ build \in [Sides -> Trees]
  /\ pc = [s \in Sides |-> IF s = "client" THEN "send" ELSE "receive"]
  /\ result = [s \in Sides |-> "none"]
  /\ inbox = [s \in Sides |-> <<>>]
  /\ open = [s \in Sides |-> TRUE]
  /\ reset = [s \in Sides |-> FALSE]

-----------------------------------------------------------------------------

\* (Mutant: the outcome is not told.)
GotoSilently(s, where) == pc' = [pc EXCEPT ![s] = where] /\ UNCHANGED result

Goto(s, where) ==
  /\ pc' = [pc EXCEPT ![s] = where]
  /\ result' = IF where = "returned" THEN [result EXCEPT ![s] = "Ok"] ELSE result

\* (Mutant: the caller keeps the connection.)
FailAndStay(s, error, unread) ==
  /\ pc' = [pc EXCEPT ![s] = "returned"]
  /\ result' = [result EXCEPT ![s] = error]
  /\ inbox' = [inbox EXCEPT ![s] = unread]
  /\ UNCHANGED <<peerVars, open, reset>>

\* Side s is done, and its end is closed.  If messages are left in it that it
\* has not read the other end finds ECONNRESET.
Fail(s, error, unread) ==
  /\ pc' = [pc EXCEPT ![s] = "returned"]
  /\ result' = [result EXCEPT ![s] = error]
  /\ inbox' = [inbox EXCEPT ![s] = <<>>]
  /\ open' = [open EXCEPT ![s] = FALSE]
  /\ reset' = [reset EXCEPT ![s] = FALSE, ![Peer(s)] = open[Peer(s)] /\ (@ \/ unread # <<>>)]
  /\ UNCHANGED peerVars

\* Handshake::new and send_with_fds.
Sends(s, next) ==
  /\ pc[s] = "send"
  /\ \/ /\ open[Peer(s)]
        /\ inbox' = [inbox EXCEPT ![Peer(s)] =
                       Append(@, [intent |-> Intent(proto[s], s), from |-> s])]
        /\ Goto(s, next)
        /\ UNCHANGED <<peerVars, open, reset>>
     \/ ~open[Peer(s)] /\ Fail(s, "Send", inbox[s])

\* The build id in the message m.
BuildId(m) == identify(m.intent, build[m.from])

\* (Mutants: the build id is not compared; one's own intent is expected.)
UncheckedVersion(s, m) ==
  IF m.intent = Intent(proto[s], Peer(s)) THEN "Ok" ELSE "WrongService"
OwnIntentExpected(s, m) ==
  IF BuildId(m) = identify(Intent(proto[s], s), build[s]) THEN "Ok" ELSE "WrongVersion"

\* What side s makes of the message m of its peer.
Verdict(s, m) ==
  LET expected == Intent(proto[s], Peer(s)) IN
    IF BuildId(m) # identify(expected, build[s]) THEN "WrongVersion"
    ELSE IF m.intent # expected THEN "WrongService" ELSE "Ok"

SameIdentity == ProtocolIdentity(build["client"]) = ProtocolIdentity(build["server"])

\* receive_with_fds and the two checks.  The message of another build may have
\* another layout.
Receives(s, next) ==
  /\ pc[s] = "receive"
  /\ \/ reset[s] /\ Fail(s, "Socket", inbox[s])
     \/ /\ ~reset[s] /\ inbox[s] # <<>>
        /\ LET verdict == Verdict(s, Head(inbox[s])) IN
           \/ /\ verdict = "Ok"
              /\ inbox' = [inbox EXCEPT ![s] = Tail(@)]
              /\ Goto(s, next)
              /\ UNCHANGED <<peerVars, open, reset>>
           \/ verdict # "Ok" /\ Fail(s, verdict, Tail(inbox[s]))
           \/ ~SameIdentity /\ Fail(s, "Deserialize", Tail(inbox[s]))
     \/ ~reset[s] /\ inbox[s] = <<>> /\ ~open[Peer(s)] /\ Fail(s, "End", <<>>)

ClientSends == Sends("client", "receive")
ClientReceives == Receives("client", "returned")
ServerReceives == Receives("server", "send")
ServerSends == Sends("server", "returned")

\* The process of side s dies in the middle of its handshake.
Dies(s) == pc[s] # "returned" /\ Fail(s, "died", inbox[s])

Client == ClientSends \/ ClientReceives
Server == ServerReceives \/ ServerSends
Next == Client \/ Server \/ \E s \in Sides : Dies(s)

\* Both processes run; neither need die.
Fairness == WF_vars(Client) /\ WF_vars(Server)

Spec == Init /\ [][Next]_vars
FairSpec == Spec /\ Fairness

-----------------------------------------------------------------------------
(* Properties.                                                             *)

Compatible == SameIdentity /\ proto["client"] = proto["server"]

\* A side that goes on to its protocol talks to the other role of the same
\* protocol of the same version.  The server goes on before the client knows its
\* answer, so it must not be possible that the client then turns it down.
Agreement ==
  /\ \A s \in Sides : result[s] = "Ok" => Compatible
  /\ result["client"] = "Ok" => result["server"] = "Ok"
  /\ result["server"] = "Ok" => result["client"] \notin Rejected

\* The identity is a hash of a stream without lengths.  All the same it never
\* brings together two builds whose sources differ: in a file's content, in its
\* place, or in a link that took the place of a file.
OkMeansSameSources == \A s \in Sides :
  result[s] = "Ok" => SourcesOf(build["client"]) = SourcesOf(build["server"])

\* Two sides that fit are never kept apart: one fails only if the other died.
CompatiblePeersMeet ==
  (/\ SourcesOf(build["client"]) = SourcesOf(build["server"])
   /\ proto["client"] = proto["server"]
   /\ \A s \in Sides : result[s] # "died")
    => \A s \in Sides : result[s] \in {"none", "Ok"}

\* Is there something for side s to receive: a message, an error or the end?
Hears(s) == inbox[s] # <<>> \/ reset[s] \/ ~open[Peer(s)]

\* The two sides never wait for each other, nor one of them for a side that is done
\* and has kept its end open: one that waits hears something, or will after the next
\* step of its peer.
NobodyWaitsInVain == \A s \in Sides :
  pc[s] = "receive" => \/ Hears(s) \/ pc[Peer(s)] = "send"
                       \/ pc[Peer(s)] = "receive" /\ Hears(Peer(s))

\* Whatever the versions and protocols, and whoever dies, neither side is left
\* waiting for the other: the one that is turned down is told by the close.
NobodyWaits == \A s \in Sides : <>(pc[s] = "returned")

-----------------------------------------------------------------------------
(* What the text of an error says and the code does not do.                *)

\* "peer is running the wrong version of this software" (handshake.rs:40), for
\* which a peer of the same version that speaks to another service is taken.
WrongVersionIsAboutVersions == \A s \in Sides :
  result[s] = "WrongVersion" =>
    SourcesOf(build["client"]) # SourcesOf(build["server"])

\* The error meant for that peer is unreachable.
NeverWrongService == \A s \in Sides : result[s] # "WrongService"
=============================================================================
