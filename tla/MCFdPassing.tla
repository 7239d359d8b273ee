---------------------------- MODULE MCFdPassing ----------------------------
(* Instances of FdPassing for TLC.                                         *)
EXTENDS FdPassing, TLC

ThreadSymmetry == Permutations(Threads)

\* A handshake; the messages that carry a PTY or a client; the message of the
\* transport's test.
ProtocolKinds == {<<0, 0>>, <<1, 1>>, <<3, 2>>}
=============================================================================
