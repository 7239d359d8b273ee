-------------------------- MODULE SocketActivation --------------------------
(***************************************************************************)
(* How the sessions service finds its listening socket                     *)
(* (socket_activation.rs, and run() of services/sessions/mod.rs).          *)
(*                                                                         *)
(* parse() reads LISTEN_PID, LISTEN_FDS and LISTEN_FDNAMES; FdIter then    *)
(* yields one file descriptor after the other, cutting its name out of the *)
(* colon-separated names by an offset into their bytes; run() keeps the    *)
(* descriptor called "tere-sessions".  The names are a sequence of bytes,  *)
(* of which one is the colon.                                              *)
(***************************************************************************)
EXTENDS Integers, Sequences, FiniteSets, SequencesExt

CONSTANTS Bytes,        \* the bytes of names, without the colon
          MaxBytes,     \* bound: the length of LISTEN_FDNAMES
          MaxFds,       \* bound: the number of descriptors
          SessionsName  \* "tere-sessions"

ASSUME NamesAssumption == /\ MaxBytes \in Nat /\ MaxFds \in Nat
                          /\ ":" \notin Bytes
                          /\ SessionsName \in Seq(Bytes) \ {<<>>}

VARIABLES
  listenPid,  \* $LISTEN_PID, as parse() understands it
  listenFds,  \* $LISTEN_FDS
  at,         \* how far run() is, or how it ended
  names,      \* FdIter: the bytes of $LISTEN_FDNAMES
  nameOffset, \* FdIter: where the next name starts
  next,       \* FdIter: the next descriptor
  count,      \* FdIter: how many are left
  yielded,    \* every name the iterator yielded, <<>> for none
  listener,   \* the descriptors run() has kept, 0 for none
  closed      \* the descriptors run() has closed

vars == <<listenPid, listenFds, at, names, nameOffset, next, count, yielded, listener, closed>>

FirstFd == 3
Failed == {"PidError", "FdsError", "NoSocketForSessions", "panic"}
Names == SeqOf(Bytes \cup {":"}, MaxBytes)
PidValues == {"absent", "garbage", "ours", "other"}
BadFds == -1   \* $LISTEN_FDS is absent or not a number

TypeOK ==
  /\ listenPid \in PidValues
  /\ listenFds \in {BadFds} \cup 0..MaxFds
  /\ at \in {"parse", "iterate", "serve"} \cup Failed
  /\ names \in Names
  /\ nameOffset \in Nat
  /\ next \in FirstFd..(FirstFd + MaxFds)
  /\ count \in 0..MaxFds
  /\ Len(yielded) \in 0..MaxFds
  /\ listener \in {0} \cup (FirstFd..(FirstFd + MaxFds))
  /\ closed \subseteq FirstFd..(FirstFd + MaxFds)

Init ==
  /\ listenPid \in PidValues
  /\ listenFds \in {BadFds} \cup 0..MaxFds
  /\ names \in Names
  /\ at = "parse"
  /\ nameOffset = 0 /\ next = FirstFd /\ count = 0
  /\ yielded = <<>> /\ listener = 0 /\ closed = {}

Env == <<listenPid, listenFds, names>>

\* What parse() makes of $LISTEN_PID.  An absent variable is VarError::NotPresent
\* wrapped by EnvError::from, which is EnvError::Var and not EnvError::NotPresent.
ForUs == CASE listenPid = "ours" -> "yes"
           [] listenPid = "other" -> "no"
           [] OTHER -> "error"

Parse ==
  /\ at = "parse"
  /\ \/ /\ ForUs = "error"
        /\ at' = "PidError" /\ UNCHANGED count
     \/ /\ ForUs = "no"
        /\ at' = "iterate" /\ count' = 0
     \/ /\ ForUs = "yes" /\ listenFds = BadFds
        /\ at' = "FdsError" /\ UNCHANGED count
     \/ /\ ForUs = "yes" /\ listenFds # BadFds
        /\ at' = "iterate" /\ count' = listenFds
  /\ UNCHANGED <<Env, nameOffset, next, yielded, listener, closed>>

Rest == SubSeq(names, nameOffset + 1, Len(names))

\* The number of bytes of a name that is followed by a colon or by the end.
Colon(rest) == LET colons == {i \in DOMAIN rest : rest[i] = ":"}
               IN  IF colons = {} THEN Len(rest) ELSE Min(colons) - 1

\* (Mutant: the colon is not skipped.)
NextOffsetAtColon == nameOffset + Colon(Rest)

\* (Mutant: one byte too many is skipped.)
NextOffsetTooFar == nameOffset + Colon(Rest) + 2

\* "If there's no colon at end, make sure to not index past the slice."
NextOffset == nameOffset + Min({Colon(Rest) + 1, Len(names)})

\* (Mutant: the first descriptor of the name is kept.)
KeepFirst(name) == IF name = SessionsName /\ listener = 0 THEN next ELSE listener

\* A second descriptor called tere-sessions replaces the first.
Keep(name) == IF name = SessionsName THEN next ELSE listener

\* (Mutant: the countdown is forgotten.)
SameCount == count

CountDown == count - 1

\* One turn of the loop of run(): FdIter::next() and what run() does with it.
IterateFd ==
  /\ at = "iterate" /\ count > 0
  /\ \/ /\ nameOffset <= Len(names)
        /\ LET name == SubSeq(Rest, 1, Colon(Rest)) IN
             /\ yielded' = Append(yielded, name)
             /\ listener' = Keep(name)
             /\ closed' = IF listener' # listener /\ listener # 0
                          THEN closed \cup {listener} ELSE closed
        /\ nameOffset' = NextOffset
        /\ next' = next + 1 /\ count' = CountDown
        /\ UNCHANGED at
     \/ /\ nameOffset > Len(names)
        /\ at' = "panic"
        /\ UNCHANGED <<yielded, listener, closed, nameOffset, next, count>>
  /\ UNCHANGED Env

Start ==
  /\ at = "iterate" /\ count = 0
  /\ at' = IF listener = 0 THEN "NoSocketForSessions" ELSE "serve"
  /\ UNCHANGED <<Env, nameOffset, next, count, yielded, listener, closed>>

Next == Parse \/ IterateFd \/ Start

Spec == Init /\ [][Next]_vars

-----------------------------------------------------------------------------
(* Properties.  The reference is sd_listen_fds(3): the k-th descriptor has *)
(* the k-th of the names between colons.                                   *)

\* Where the colons are among the first i bytes.
Colons(i) == {j \in 1..i : names[j] = ":"}

NumNames == 1 + Cardinality(Colons(Len(names)))

\* The k-th name is what lies between the colons number k - 1 and k.
NthName(k) ==
  LET mine == {i \in DOMAIN names : names[i] # ":" /\ Cardinality(Colons(i - 1)) = k - 1}
  IN  IF mine = {} THEN <<>> ELSE SubSeq(names, Min(mine), Max(mine))

\* The offset into the bytes never drifts: every descriptor is yielded with the
\* name systemd gave it, and without one when there are fewer names.
YieldsTheirNames == \A k \in DOMAIN yielded : yielded[k] = NthName(k)

\* The service serves only when the descriptors were passed to this very process, and
\* then listens on the last of those that systemd called tere-sessions, with the
\* others of that name closed (sessions/mod.rs:38-47).
ListensOnItsOwn == at = "serve" =>
  LET own == {FirstFd + k - 1 : k \in {k \in 1..listenFds : NthName(k) = SessionsName}}
  IN  /\ listenPid = "ours"
      /\ listener \in own /\ \A fd \in own : fd <= listener
      /\ closed = own \ {listener}

\* Descriptors are missed only when they outnumber the names: systemd, which
\* gives every descriptor a name, never makes the iterator panic.
PanicsOnlyWithoutNames == at = "panic" => listenFds > NumNames

-----------------------------------------------------------------------------
(* What a comment says and the code does not do.                           *)

\* "make sure to not index past the slice" (socket_activation.rs:217): the test
\* names_short, of one name for two descriptors, passes, but a third descriptor
\* panics.
NeverIndexesPastTheNames == at # "panic"
=============================================================================
