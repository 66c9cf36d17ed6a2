------------------------------ MODULE Payments ------------------------------
(***************************************************************************)
(* PaymentService over the table payments.  Each call runs in a database   *)
(* session of its own and has two steps: the SELECT with the checks on its *)
(* row, and the commit, an UPDATE ... WHERE id = ? that looks at nothing.  *)
(* A refused call, and one whose SELECT finds several PENDING invoices     *)
(* (scalar_one_or_none raises), changes nothing: it is not a step.         *)
(*                                                                         *)
(* An invoice is named by the call that creates it.  Nothing under src/    *)
(* stores the hash verify_payment compares with; the tests put it in the   *)
(* row, and so does the external step RecordHash.                          *)
(***************************************************************************)
EXTENDS Integers

CONSTANTS
  Invoices,    \* rows
  Users,
  UserOf,      \* user_id of each row
  Sessions,    \* clients, one call at a time each
  Hashes,      \* transaction hashes
  NoHash,      \* NULL
  NoInvoice,   \* no row
  Window,      \* invoice_expiry_minutes, in ticks
  MaxTime      \* bound of the model: ticks explored

ASSUME PaymentsAssumption ==
  /\ UserOf \in [Invoices -> Users]
  /\ NoHash \notin Hashes /\ NoInvoice \notin Invoices
  /\ Window \in Nat /\ MaxTime \in Nat

VARIABLES
  now,         \* the clock
  status,      \* status of each row, "none" before the INSERT
  deadline,    \* expires_at
  hash,        \* transaction_hash
  op,          \* the commit a session is about to do, "idle" if none
  inv,         \* the row it is for
  presented,   \* the transaction_hash argument of a verification
  payers,      \* history: sessions whose PAID was committed on the row
  inTime       \* history: rows committed PAID no later than their deadline

rowVars == <<status, deadline, hash>>
sessionVars == <<op, inv, presented>>
histVars == <<payers, inTime>>
vars == <<now, rowVars, sessionVars, histVars>>

Init ==
  /\ now = 0
  /\ status = [i \in Invoices |-> "none"]
  /\ deadline = [i \in Invoices |-> 0]
  /\ hash = [i \in Invoices |-> NoHash]
  /\ op = [c \in Sessions |-> "idle"]
  /\ inv = [c \in Sessions |-> NoInvoice]
  /\ presented = [c \in Sessions |-> NoHash]
  /\ payers = [i \in Invoices |-> {}]
  /\ inTime = {}

Tick ==
  /\ now < MaxTime
  /\ now' = now + 1
  /\ UNCHANGED <<rowVars, sessionVars, histVars>>

Begin(c, o, i, h) ==
  /\ op[c] = "idle"
  /\ op' = [op EXCEPT ![c] = o]
  /\ inv' = [inv EXCEPT ![c] = i]
  /\ presented' = [presented EXCEPT ![c] = h]
  /\ UNCHANGED <<now, rowVars, histVars>>

Finish(c) ==
  /\ op' = [op EXCEPT ![c] = "idle"]
  /\ inv' = [inv EXCEPT ![c] = NoInvoice]
  /\ presented' = [presented EXCEPT ![c] = NoHash]

(* The commit of a status; the session is done.                             *)
Commit(c, o, st) ==
  /\ op[c] = o
  /\ status' = [status EXCEPT ![inv[c]] = st]
  /\ Finish(c)
  /\ UNCHANGED <<now, deadline>>

-----------------------------------------------------------------------------
(* create_invoice: no row is read; several PENDING ones may come to be.     *)
CreateInvoice(i) ==
  /\ status[i] = "none"
  /\ status' = [status EXCEPT ![i] = "PENDING"]
  /\ deadline' = [deadline EXCEPT ![i] = now + Window]
  /\ UNCHANGED <<now, hash, sessionVars, histVars>>

RecordHash(i, h) ==
  /\ status[i] = "PENDING" /\ hash[i] = NoHash
  /\ hash' = [hash EXCEPT ![i] = h]
  /\ UNCHANGED <<now, status, deadline, sessionVars, histVars>>

PendingOf(u) == {i \in Invoices : UserOf[i] = u /\ status[i] = "PENDING"}

(* Mutant: ">=" instead of ">".                                             *)
ExpireReadEarly(c, u, h) ==
  \E i \in Invoices :
    PendingOf(u) = {i} /\ now >= deadline[i] /\ Begin(c, "expire", i, h)

(* Mutant: the first PENDING invoice is taken where there are several.      *)
ExpireReadFirst(c, u, h) ==
  \E i \in PendingOf(u) : now > deadline[i] /\ Begin(c, "expire", i, h)

(* verify_payment finds the one PENDING invoice of the user past its        *)
(* deadline ...                                                             *)
ExpireRead(c, u, h) ==
  \E i \in Invoices :
    PendingOf(u) = {i} /\ now > deadline[i] /\ Begin(c, "expire", i, h)

(* Mutant: the hash is not compared.                                        *)
PayReadAnyHash(c, u, h) ==
  \E i \in Invoices :
    PendingOf(u) = {i} /\ now <= deadline[i] /\ Begin(c, "pay", i, h)

(* Mutant: the SELECT does not ask for PENDING.                             *)
PayReadAgain(c, u, h) ==
  \E i \in Invoices :
    /\ {j \in Invoices : UserOf[j] = u /\ status[j] # "none"} = {i}
    /\ now <= deadline[i] /\ h = hash[i] /\ Begin(c, "pay", i, h)

(* ... or in time and with this hash.  (The amount may match or not; where  *)
(* it does not, the call is refused.)                                       *)
PayRead(c, u, h) ==
  \E i \in Invoices :
    /\ PendingOf(u) = {i} /\ now <= deadline[i] /\ h = hash[i]
    /\ Begin(c, "pay", i, h)

ExpireCommit(c) == Commit(c, "expire", "EXPIRED") /\ UNCHANGED <<hash, histVars>>

PayCommit(c) ==
  /\ Commit(c, "pay", "PAID")
  /\ hash' = [hash EXCEPT ![inv[c]] = presented[c]]
  /\ payers' = [payers EXCEPT ![inv[c]] = @ \cup {c}]
  /\ inTime' = IF now <= deadline[inv[c]] THEN inTime \cup {inv[c]} ELSE inTime

(* confirm_payment: nothing asks the chain for confirmations.               *)
ConfirmRead(c, i) == status[i] = "PAID" /\ Begin(c, "confirm", i, NoHash)

ConfirmCommit(c) ==
  Commit(c, "confirm", "CONFIRMED") /\ UNCHANGED <<hash, histVars>>

(* The commit raises, or the process stops before it.                       *)
Abandon(c) ==
  /\ op[c] # "idle"
  /\ Finish(c)
  /\ UNCHANGED <<now, rowVars, histVars>>

Next ==
  \/ Tick
  \/ \E i \in Invoices :
       CreateInvoice(i) \/ \E h \in Hashes : RecordHash(i, h)
  \/ \E c \in Sessions :
       \/ \E u \in Users, h \in Hashes : ExpireRead(c, u, h) \/ PayRead(c, u, h)
       \/ \E i \in Invoices : ConfirmRead(c, i)
       \/ ExpireCommit(c) \/ PayCommit(c) \/ ConfirmCommit(c) \/ Abandon(c)

Spec == Init /\ [][Next]_vars

-----------------------------------------------------------------------------
TypeOK ==
  /\ now \in 0..MaxTime
  /\ status \in [Invoices -> {"none", "PENDING", "EXPIRED", "PAID", "CONFIRMED"}]
  /\ deadline \in [Invoices -> Int]
  /\ hash \in [Invoices -> Hashes \cup {NoHash}]
  /\ op \in [Sessions -> {"idle", "expire", "pay", "confirm"}]
  /\ inv \in [Sessions -> Invoices \cup {NoInvoice}]
  /\ presented \in [Sessions -> Hashes \cup {NoHash}]
  /\ payers \in [Invoices -> SUBSET Sessions]
  /\ inTime \subseteq Invoices

(* Two verifications and a confirmation may overwrite each other's status,  *)
(* in any order; but a payment that was committed by its deadline is never  *)
(* EXPIRED or PENDING afterwards.                                           *)
PaidInTimeIsKept ==
  \A i \in inTime : status[i] \in {"PAID", "CONFIRMED"}

(* PAID and CONFIRMED need somebody to have presented the stored hash, and  *)
(* the stored hash stays the one presented, also with verifications, expiry *)
(* and confirmation in flight together.                                     *)
PaidWasProven ==
  /\ \A i \in Invoices : status[i] \in {"PAID", "CONFIRMED"} => payers[i] # {}
  /\ \A i \in Invoices : payers[i] # {} => hash[i] # NoHash
  /\ \A c \in Sessions : op[c] = "pay" => presented[c] = hash[inv[c]]

(* A client that repeats a verification which took effect cannot set the    *)
(* row back to PAID once more, whatever happened to it since.               *)
RetryIsRefused ==
  \A c \in Sessions : op[c] = "pay" => c \notin payers[inv[c]]

(* A user with several PENDING invoices and no call in flight on any of     *)
(* them can never pay or expire one: verify_payment raises, for ever.       *)
Stuck(u) ==
  /\ \E i, j \in PendingOf(u) : i # j
  /\ \A c \in Sessions : inv[c] \notin PendingOf(u)
StuckUsersStay == [][\A u \in Users : Stuck(u) => Stuck(u)']_vars

(* PAID may be written over CONFIRMED and EXPIRED over PAID, but only by a  *)
(* call that was in flight when the row was settled: an invoice that is     *)
(* CONFIRMED or EXPIRED with no call in flight on it is so for good,        *)
(* whatever calls come later and however they interleave.                   *)
Settled(i, st) ==
  status[i] = st /\ st \in {"CONFIRMED", "EXPIRED"} /\ \A c \in Sessions : inv[c] # i
SettledInvoicesStay ==
  [][\A i \in Invoices, st \in {"CONFIRMED", "EXPIRED"} :
        Settled(i, st) => Settled(i, st)']_vars
=============================================================================
