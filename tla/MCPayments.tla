----------------------------- MODULE MCPayments -----------------------------
(* Small instances of Payments for TLC: both invoices are one user's.       *)
EXTENDS Payments

CONSTANTS i1, i2, u1

MCUserOf == [i \in Invoices |-> u1]
=============================================================================
