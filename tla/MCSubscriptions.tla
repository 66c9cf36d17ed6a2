-------------------------- MODULE MCSubscriptions --------------------------
(* Small instances of Subscriptions for TLC: s1 and s2 belong to one user,  *)
(* s3 to another.                                                           *)
EXTENDS Subscriptions

CONSTANTS s1, s2, s3, u1, u2, c1, c2

MCUserOf == [s \in Subs |-> IF s = s3 THEN u2 ELSE u1]
=============================================================================
