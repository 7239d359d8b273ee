---------------------------- MODULE MCPtyService ----------------------------
(* Instances of PtyService for TLC.                                        *)
EXTENDS PtyService, TLC

\* Clients behave alike; used by the run that checks no liveness.
ClientSymmetry == Permutations(Clients)
=============================================================================
