------------------------- MODULE MCSocketActivation -------------------------
(* Instances of SocketActivation for TLC.                                  *)
EXTENDS SocketActivation

\* A one-byte name, so that other names can be longer.
MCSessionsName == <<"s">>
=============================================================================
