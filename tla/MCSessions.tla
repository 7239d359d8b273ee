----------------------------- MODULE MCSessions -----------------------------
(* Instances of Sessions for TLC.                                          *)
EXTENDS Sessions, TLC

\* Connections are alike and ids are random: used where no liveness is checked.
SessionsSymmetry == Permutations(Conns) \cup Permutations(Ids)
=============================================================================
