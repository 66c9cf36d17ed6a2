------------------------------- MODULE MCHub -------------------------------
(* Small instances of Hub for TLC: sockets are alike, and so are sends.     *)
EXTENDS Hub, TLC

Interchangeable == Permutations(Sockets) \cup Permutations(Sends)
=============================================================================
