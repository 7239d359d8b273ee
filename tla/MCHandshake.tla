---------------------------- MODULE MCHandshake -----------------------------
(* An instance of Handshake for TLC: two files whose contents and places    *)
(* can be mistaken for each other.                                          *)
EXTENDS Handshake

\* The paths "a" and "aF", where "F" is also the mark of a file.
MCWalk == <<<<97>>, <<97, F>>>>

\* Hashes of two bytes; a byte of a hash may be the byte that ends a name.
MCHashes == {<<97, 97>>, <<Nul, L>>}

MCTargets == {<<97, 97>>}
=============================================================================
