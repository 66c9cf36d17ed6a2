--------------------------- MODULE MCActionQueue ---------------------------
(* Small instances of ActionQueue for TLC.                                  *)
EXTENDS ActionQueue

CONSTANTS a1, a2, a3, u1, u2, ty1

(* a1 and a2 belong to one user, a3 to another.                             *)
MCOwner == [a \in Actions |-> IF a = a3 THEN u2 ELSE u1]
MCTypeOf == [a \in Actions |-> ty1]
=============================================================================
