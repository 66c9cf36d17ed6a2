----------------------------- MODULE MCTrading -----------------------------
(* Small instances of Trading for TLC: requests r1, r2 of one client and    *)
(* r3 of another, all for the same user.                                    *)
EXTENDS Trading

CONSTANTS r1, r2, r3, c1, c2, u1, s1

MCClientOf == [r \in Requests |-> IF r = r3 THEN c2 ELSE c1]
MCUserOf == [r \in Requests |-> u1]
MCServiceOf == [r \in Requests |-> s1]
=============================================================================
