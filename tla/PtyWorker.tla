----------------------------- MODULE PtyWorker ------------------------------
(***************************************************************************)
(* What a supervisor and its tere-pty@ processes promise each other, for   *)
(* any number of processes.  PtyService is one such process in detail, with *)
(* its supervisor as an environment; Sessions is the supervisor of many,   *)
(* with the processes as an environment.  Both implement this              *)
(* specification, which is what lets each stand in for the other.          *)
(***************************************************************************)
EXTENDS Sequences

CONSTANT Workers   \* the connections a supervisor may make

VARIABLES
  worker,   \* how far the process of a connection has got
  queue,    \* messages to it that it has not taken
  linked    \* does the supervisor hold its end of the connection open?

vars == <<worker, queue, linked>>

Live == {"new", "greeted", "serving"}

Init ==
  /\ worker \in [Workers -> {"none", "new"}]
  /\ queue = [w \in Workers |-> <<>>]
  /\ linked = [w \in Workers |-> worker[w] = "new"]

\* A connection is made: systemd starts a process for it, or closes it.
Start(w) ==
  /\ worker[w] = "none"
  /\ \E start \in {"new", "dead"} : worker' = [worker EXCEPT ![w] = start]
  /\ linked' = [linked EXCEPT ![w] = TRUE]
  /\ UNCHANGED queue

\* The supervisor's messages have one order: a greeting; when that is answered,
\* the PTY; then clients, without waiting.
MayTell(w, message) ==
  \/ message = "Hello" /\ worker[w] = "new" /\ queue[w] = <<>>
  \/ message = "Init" /\ worker[w] = "greeted" /\ queue[w] = <<>>
  \/ message = "NewClient" /\ \/ worker[w] = "greeted" /\ queue[w] # <<>>
                              \/ worker[w] = "serving"

\* It tells one process something, and may let go of any number of them.
Supervise ==
  /\ \/ UNCHANGED queue
     \/ \E w \in Workers : \E message \in {"Hello", "Init", "NewClient"} :
          /\ linked[w] /\ MayTell(w, message)
          /\ queue' = [queue EXCEPT ![w] = Append(@, message)]
  /\ linked' \in [Workers -> BOOLEAN]
  /\ \A w \in Workers : linked'[w] => linked[w]
  /\ UNCHANGED worker

\* The process takes the message it expects at its stage.
Take(w, stage, message, next) ==
  /\ worker[w] = stage /\ queue[w] # <<>> /\ Head(queue[w]) = message
  /\ worker' = [worker EXCEPT ![w] = next]
  /\ queue' = [queue EXCEPT ![w] = Tail(@)]
  /\ UNCHANGED linked

Serve(w) == \/ Take(w, "new", "Hello", "greeted")
            \/ Take(w, "greeted", "Init", "serving")
            \/ Take(w, "serving", "NewClient", "serving")

\* It ends at any time, and what it has not taken is lost.
Stop(w) ==
  /\ worker[w] \in Live
  /\ worker' = [worker EXCEPT ![w] = "dead"]
  /\ queue' = [queue EXCEPT ![w] = <<>>]
  /\ UNCHANGED linked

Next == Supervise \/ \E w \in Workers : Start(w) \/ Serve(w) \/ Stop(w)

\* A process is called upon by a message and by the end of its supervisor.
CalledUpon(w) == worker[w] \in Live /\ (queue[w] # <<>> \/ ~linked[w])

\* It does not ignore that for ever: weak fairness of a process that is called
\* upon.
Answers(w) == <>[]CalledUpon(w) => []<><<Serve(w) \/ Stop(w)>>_vars

Spec == Init /\ [][Next]_vars
=============================================================================
