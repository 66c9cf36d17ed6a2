--------------------------- MODULE PaymentsProofs ---------------------------
(***************************************************************************)
(* Theorems about Payments for every set of invoices, users, sessions and  *)
(* hashes, and every length of the payment window.                         *)
(***************************************************************************)
EXTENDS Payments, TLAPS

USE DEF vars, rowVars, sessionVars, histVars

(* What a session about to commit may count on, however long ago it read    *)
(* its row: an expiry in flight is of a row that can no longer be paid in   *)
(* time.                                                                    *)
Pending(c) ==
  /\ op[c] = "idle" => inv[c] = NoInvoice
  /\ op[c] # "idle" => inv[c] \in Invoices /\ status[inv[c]] # "none"
  /\ op[c] = "expire" => now > deadline[inv[c]] /\ inv[c] \notin inTime
  /\ op[c] = "pay" => presented[c] \in Hashes /\ presented[c] = hash[inv[c]]
  /\ op[c] = "confirm" => payers[inv[c]] # {}

(* What a row's status says of its history.                                 *)
History(i) ==
  /\ status[i] \in {"none", "PENDING"} => payers[i] = {} /\ i \notin inTime
  /\ status[i] \in {"PAID", "CONFIRMED"} => payers[i] # {}
  /\ payers[i] # {} => hash[i] # NoHash

SessionInv == \A c \in Sessions : Pending(c)
RowInv == \A i \in Invoices : History(i)

Inv == TypeOK /\ SessionInv /\ RowInv /\ PaidInTimeIsKept /\ RetryIsRefused

(* PaidWasProven is in the invariant: RowInv ties the status to the hash.   *)
LEMMA InvImplies == Inv => PaidWasProven
  BY DEF Inv, SessionInv, Pending, RowInv, History, PaidWasProven

(* At first there is no invoice and no call.                                *)
LEMMA InitInv == Init => Inv
  BY PaymentsAssumption
     DEF Init, Inv, TypeOK, SessionInv, Pending, RowInv, History,
         PaidInTimeIsKept, RetryIsRefused

(* A session that begins a call, whatever the call.                         *)
LEMMA BeginKeepsOthers ==
  ASSUME TypeOK, NEW c \in Sessions, NEW o \in {"expire", "pay", "confirm"},
         NEW i \in Invoices, NEW h \in Hashes \cup {NoHash}, Begin(c, o, i, h)
  PROVE  /\ TypeOK'
         /\ op[c] = "idle" /\ op'[c] = o /\ inv'[c] = i /\ presented'[c] = h
         /\ \A b \in Sessions \ {c} :
              op'[b] = op[b] /\ inv'[b] = inv[b] /\ presented'[b] = presented[b]
         /\ UNCHANGED <<now, rowVars, histVars>>
  BY DEF TypeOK, Begin

(* A session that ends its call: nobody else's call changes.                *)
LEMMA FinishKeepsOthers ==
  ASSUME TypeOK, NEW c \in Sessions, Finish(c)
  PROVE  /\ op' \in [Sessions -> {"idle", "expire", "pay", "confirm"}]
         /\ inv' \in [Sessions -> Invoices \cup {NoInvoice}]
         /\ presented' \in [Sessions -> Hashes \cup {NoHash}]
         /\ op'[c] = "idle" /\ inv'[c] = NoInvoice
         /\ \A b \in Sessions \ {c} :
              op'[b] = op[b] /\ inv'[b] = inv[b] /\ presented'[b] = presented[b]
  BY DEF TypeOK, Finish

-----------------------------------------------------------------------------
(* A new invoice and a recorded hash keep the invariant.                    *)
LEMMA StepRows ==
  ASSUME Inv, NEW i \in Invoices,
         CreateInvoice(i) \/ \E h \in Hashes : RecordHash(i, h)
  PROVE  Inv'
<1> USE PaymentsAssumption DEF Inv
<1>1. CASE CreateInvoice(i)
  <2>1. TypeOK'
    BY <1>1 DEF CreateInvoice, TypeOK
  <2>2. SessionInv'
    BY <1>1 DEF CreateInvoice, TypeOK, SessionInv, Pending
  <2>3. RowInv' /\ PaidInTimeIsKept' /\ RetryIsRefused'
    BY <1>1 DEF CreateInvoice, TypeOK, RowInv, History, PaidInTimeIsKept, RetryIsRefused
  <2> QED
    BY <2>1, <2>2, <2>3
<1>2. CASE \E h \in Hashes : RecordHash(i, h)
  <2>1. PICK h \in Hashes : RecordHash(i, h)
    BY <1>2
  <2>2. TypeOK'
    BY <2>1 DEF RecordHash, TypeOK
  <2>3. SessionInv'
    BY <2>1 DEF RecordHash, TypeOK, SessionInv, Pending
  <2>4. RowInv' /\ PaidInTimeIsKept' /\ RetryIsRefused'
    BY <2>1 DEF RecordHash, TypeOK, RowInv, History, PaidInTimeIsKept, RetryIsRefused
  <2> QED
    BY <2>2, <2>3, <2>4
<1> QED
  BY <1>1, <1>2

(* A SELECT keeps it: what the session will rely on is true when it reads.  *)
LEMMA StepReads ==
  ASSUME Inv, NEW c \in Sessions,
         \/ \E u \in Users, h \in Hashes : ExpireRead(c, u, h) \/ PayRead(c, u, h)
         \/ \E i \in Invoices : ConfirmRead(c, i)
  PROVE  Inv'
<1> USE PaymentsAssumption DEF Inv
<1>1. ASSUME NEW o \in {"expire", "pay", "confirm"}, NEW i \in Invoices,
             NEW h \in Hashes \cup {NoHash}, Begin(c, o, i, h), status[i] # "none",
             o = "expire" => status[i] = "PENDING" /\ now > deadline[i],
             o = "pay" => status[i] = "PENDING" /\ h \in Hashes /\ h = hash[i],
             o = "confirm" => status[i] = "PAID"
      PROVE  Inv'
  <2>1. History(i)
    BY DEF RowInv
  <2>2. /\ TypeOK'
        /\ op[c] = "idle" /\ op'[c] = o /\ inv'[c] = i /\ presented'[c] = h
        /\ \A b \in Sessions \ {c} :
             op'[b] = op[b] /\ inv'[b] = inv[b] /\ presented'[b] = presented[b]
        /\ UNCHANGED <<now, rowVars, histVars>>
    BY <1>1, BeginKeepsOthers
  <2>4. Pending(c)'
    BY <1>1, <2>1, <2>2 DEF Pending, History
  <2>5. \A b \in Sessions \ {c} : Pending(b)'
    BY <2>2 DEF SessionInv, Pending
  <2>3. RowInv' /\ PaidInTimeIsKept' /\ RetryIsRefused'
    BY <1>1, <2>1, BeginKeepsOthers
       DEF TypeOK, RowInv, History, PaidInTimeIsKept, RetryIsRefused
  <2>6. SessionInv'
    BY <2>4, <2>5 DEF SessionInv
  <2> QED
    BY <2>2, <2>3, <2>6
<1>2. ASSUME NEW u \in Users, NEW h \in Hashes, ExpireRead(c, u, h) PROVE Inv'
  BY <1>1, <1>2 DEF ExpireRead, PendingOf
<1>3. ASSUME NEW u \in Users, NEW h \in Hashes, PayRead(c, u, h) PROVE Inv'
  BY <1>1, <1>3 DEF PayRead, PendingOf
<1>4. ASSUME NEW i \in Invoices, ConfirmRead(c, i) PROVE Inv'
  BY <1>1, <1>4 DEF ConfirmRead
<1> QED
  BY <1>2, <1>3, <1>4

(* A commit keeps it, although other sessions wrote since its SELECT.       *)
LEMMA StepCommits ==
  ASSUME Inv, NEW c \in Sessions,
         ExpireCommit(c) \/ PayCommit(c) \/ ConfirmCommit(c) \/ Abandon(c)
  PROVE  Inv'
<1> USE PaymentsAssumption DEF Inv
<1>1. CASE Abandon(c)
  BY <1>1, FinishKeepsOthers
     DEF Abandon, TypeOK, SessionInv, Pending, RowInv, History,
         PaidInTimeIsKept, RetryIsRefused
<1>2. CASE ExpireCommit(c)
  <2>1. /\ inv[c] \in Invoices /\ inv[c] \notin inTime
        /\ status' = [status EXCEPT ![inv[c]] = "EXPIRED"]
        /\ Finish(c) /\ UNCHANGED <<now, deadline, hash, histVars>>
    BY <1>2 DEF ExpireCommit, Commit, SessionInv, Pending
  <2>2. TypeOK' /\ SessionInv'
    BY <2>1, FinishKeepsOthers DEF TypeOK, SessionInv, Pending
  <2>3. RowInv' /\ PaidInTimeIsKept' /\ RetryIsRefused'
    BY <2>1, FinishKeepsOthers
       DEF TypeOK, RowInv, History, PaidInTimeIsKept, RetryIsRefused
  <2> QED
    BY <2>2, <2>3
<1>3. CASE ConfirmCommit(c)
  <2>1. /\ inv[c] \in Invoices /\ payers[inv[c]] # {}
        /\ status' = [status EXCEPT ![inv[c]] = "CONFIRMED"]
        /\ Finish(c) /\ UNCHANGED <<now, deadline, hash, histVars>>
    BY <1>3 DEF ConfirmCommit, Commit, SessionInv, Pending
  <2>2. TypeOK' /\ SessionInv'
    BY <2>1, FinishKeepsOthers DEF TypeOK, SessionInv, Pending
  <2>3. RowInv' /\ PaidInTimeIsKept' /\ RetryIsRefused'
    BY <2>1, FinishKeepsOthers
       DEF TypeOK, RowInv, History, PaidInTimeIsKept, RetryIsRefused
  <2> QED
    BY <2>2, <2>3
<1>4. CASE PayCommit(c)
  <2> DEFINE i == inv[c]
  <2>1. /\ i \in Invoices /\ presented[c] \in Hashes /\ presented[c] = hash[i]
        /\ op[c] = "pay" /\ Finish(c) /\ UNCHANGED <<now, deadline>>
        /\ status' = [status EXCEPT ![i] = "PAID"]
        /\ payers' = [payers EXCEPT ![i] = @ \cup {c}]
        /\ hash' = [hash EXCEPT ![i] = presented[c]]
    BY <1>4 DEF PayCommit, Commit, SessionInv, Pending
  <2>2. inTime' = IF now <= deadline[i] THEN inTime \cup {i} ELSE inTime
    BY <1>4 DEF PayCommit
  <2>3. hash' = hash
    BY <2>1 DEF TypeOK
  <2>4. TypeOK'
    BY <2>1, <2>2, FinishKeepsOthers DEF TypeOK
  <2>5. \A b \in Sessions : op[b] = "expire" => inv[b] \notin inTime'
    BY <2>1, <2>2 DEF TypeOK, SessionInv, Pending
  <2>6. SessionInv'
    BY <2>1, <2>3, <2>5, FinishKeepsOthers DEF TypeOK, SessionInv, Pending
  <2>7. RowInv' /\ PaidInTimeIsKept'
    BY <2>1, <2>2, <2>3 DEF TypeOK, RowInv, History, PaidInTimeIsKept
  <2>8. RetryIsRefused'
    BY <2>1, FinishKeepsOthers DEF TypeOK, SessionInv, Pending, RetryIsRefused
  <2> QED
    BY <2>4, <2>6, <2>7, <2>8
<1> QED
  BY <1>1, <1>2, <1>3, <1>4

(* Every step keeps the invariant.                                          *)
LEMMA StepInv == Inv /\ [Next]_vars => Inv'
<1> SUFFICES ASSUME Inv, [Next]_vars PROVE Inv'
  OBVIOUS
<1>1. CASE UNCHANGED vars \/ Tick
  BY <1>1, PaymentsAssumption
     DEF Tick, Inv, TypeOK, SessionInv, Pending, RowInv, History,
         PaidInTimeIsKept, RetryIsRefused
<1> QED
  BY <1>1, StepRows, StepReads, StepCommits DEF Next

(* The inductive invariant: types, what in-flight commits may count on.     *)
THEOREM InvHolds == Spec => []Inv
  BY InitInv, StepInv, PTL DEF Spec

(* The invoices and the calls in flight keep their types.                   *)
THEOREM TypeCorrect == Spec => []TypeOK
<1>1. Inv => TypeOK
  BY DEF Inv
<1> QED
  BY <1>1, InvHolds, PTL

(* A payment committed by its deadline is never lost (PaidInTimeIsKept).    *)
THEOREM PaidIsKept == Spec => []PaidInTimeIsKept
  BY InvHolds, PTL DEF Inv

(* PAID and CONFIRMED rest on the stored hash (PaidWasProven).              *)
THEOREM PaidIsProven == Spec => []PaidWasProven
  BY InvHolds, InvImplies, PTL

(* A client's repeated verification is refused (RetryIsRefused).            *)
THEOREM RepeatIsRefused == Spec => []RetryIsRefused
  BY InvHolds, PTL DEF Inv

-----------------------------------------------------------------------------
(* No step leaves a stuck user with fewer than two pending invoices.        *)
LEMMA StepStuck ==
  ASSUME Inv, [Next]_vars, NEW u \in Users, Stuck(u)
  PROVE  Stuck(u)'
<1> USE PaymentsAssumption DEF Inv
<1>1. PICK j \in Invoices, k \in Invoices :
        /\ j # k /\ UserOf[j] = u /\ UserOf[k] = u
        /\ status[j] = "PENDING" /\ status[k] = "PENDING"
  BY DEF Stuck, PendingOf
<1>2. \A c \in Sessions : inv[c] \notin PendingOf(u)
  BY DEF Stuck
<1>3. ASSUME /\ status'[j] = "PENDING" /\ status'[k] = "PENDING"
             /\ \A c \in Sessions : inv'[c] \notin PendingOf(u)'
      PROVE  Stuck(u)'
  BY <1>1, <1>3 DEF Stuck, PendingOf
<1>4. CASE UNCHANGED vars \/ Tick \/ \E i \in Invoices, h \in Hashes : RecordHash(i, h)
  BY <1>1, <1>2, <1>3, <1>4 DEF Tick, RecordHash, PendingOf
<1>5. ASSUME NEW i \in Invoices, CreateInvoice(i) PROVE Stuck(u)'
  <2>1. \A c \in Sessions : inv[c] # i
    BY <1>5 DEF CreateInvoice, SessionInv, Pending
  <2> QED
    BY <1>1, <1>2, <1>3, <1>5, <2>1 DEF CreateInvoice, TypeOK, PendingOf
<1>6. ASSUME NEW c \in Sessions, NEW i \in Invoices, i \notin PendingOf(u),
             NEW o \in {"expire", "pay", "confirm"}, NEW h \in Hashes \cup {NoHash},
             Begin(c, o, i, h)
      PROVE  Stuck(u)'
  BY <1>1, <1>2, <1>3, <1>6, BeginKeepsOthers DEF PendingOf
<1>7. ASSUME NEW c \in Sessions, NEW v \in Users, NEW h \in Hashes,
             ExpireRead(c, v, h) \/ PayRead(c, v, h)
      PROVE  Stuck(u)'
  <2>1. PICK i \in Invoices, o \in {"expire", "pay"} :
          PendingOf(v) = {i} /\ Begin(c, o, i, h)
    BY <1>7 DEF ExpireRead, PayRead
  <2>2. i \notin PendingOf(u)
    BY <1>1, <2>1 DEF PendingOf
  <2> QED
    BY <1>6, <2>1, <2>2
<1>8. ASSUME NEW c \in Sessions, NEW i \in Invoices, ConfirmRead(c, i) PROVE Stuck(u)'
  BY <1>6, <1>8 DEF ConfirmRead, PendingOf
<1>9. ASSUME NEW c \in Sessions,
             ExpireCommit(c) \/ PayCommit(c) \/ ConfirmCommit(c) \/ Abandon(c)
      PROVE  Stuck(u)'
  <2>1. Finish(c)
    BY <1>9 DEF ExpireCommit, PayCommit, ConfirmCommit, Abandon, Commit
  <2>2. \A i \in Invoices :
          \/ status'[i] = status[i]
          \/ i = inv[c] /\ status'[i] \in {"EXPIRED", "PAID", "CONFIRMED"}
    BY <1>9 DEF ExpireCommit, PayCommit, ConfirmCommit, Abandon, Commit,
                TypeOK, SessionInv, Pending
  <2>3. \A i \in Invoices : (i \in PendingOf(u)') <=> (i \in PendingOf(u))
    BY <1>2, <2>2 DEF PendingOf
  <2> QED
    BY <1>1, <1>2, <1>3, <2>1, <2>3, FinishKeepsOthers DEF PendingOf
<1> QED
  BY <1>4, <1>5, <1>7, <1>8, <1>9 DEF Next

(* A user with several PENDING invoices never gets one settled              *)
(* (StuckUsersStay).                                                        *)
THEOREM StuckIsForever == Spec => StuckUsersStay
<1>1. Inv /\ [Next]_vars => [\A u \in Users : Stuck(u) => Stuck(u)']_vars
  BY StepStuck
<1> QED
  BY <1>1, InvHolds, PTL DEF Spec, StuckUsersStay

-----------------------------------------------------------------------------
(* A settled invoice is read by no call, and only calls on it write it.     *)
LEMMA StepSettled ==
  ASSUME Inv, [Next]_vars, NEW i \in Invoices, NEW st, Settled(i, st)
  PROVE  Settled(i, st)'
<1> USE PaymentsAssumption DEF Inv
<1>1. /\ status[i] = st /\ st \in {"CONFIRMED", "EXPIRED"}
      /\ \A c \in Sessions : inv[c] # i
  BY DEF Settled
<1>2. ASSUME status'[i] = status[i], \A c \in Sessions : inv'[c] # i
      PROVE  Settled(i, st)'
  BY <1>1, <1>2 DEF Settled
<1>3. CASE UNCHANGED vars \/ Tick \/ \E j \in Invoices, h \in Hashes : RecordHash(j, h)
  BY <1>1, <1>2, <1>3 DEF Tick, RecordHash
<1>4. ASSUME NEW j \in Invoices, CreateInvoice(j) PROVE Settled(i, st)'
  <2>1. j # i /\ UNCHANGED inv
    BY <1>1, <1>4 DEF CreateInvoice
  <2> QED
    BY <1>1, <1>2, <1>4, <2>1 DEF CreateInvoice, TypeOK
<1>5. ASSUME NEW c \in Sessions, NEW j \in Invoices, j # i,
             NEW o \in {"expire", "pay", "confirm"}, NEW h \in Hashes \cup {NoHash},
             Begin(c, o, j, h)
      PROVE  Settled(i, st)'
  BY <1>1, <1>2, <1>5, BeginKeepsOthers
<1>6. ASSUME NEW c \in Sessions, NEW u \in Users, NEW h \in Hashes,
             ExpireRead(c, u, h) \/ PayRead(c, u, h)
      PROVE  Settled(i, st)'
  <2>1. PICK j \in Invoices, o \in {"expire", "pay"} :
          status[j] = "PENDING" /\ Begin(c, o, j, h)
    BY <1>6 DEF ExpireRead, PayRead, PendingOf
  <2> QED
    BY <1>1, <1>5, <2>1
<1>7. ASSUME NEW c \in Sessions, NEW j \in Invoices, ConfirmRead(c, j) PROVE Settled(i, st)'
  BY <1>1, <1>5, <1>7 DEF ConfirmRead
<1>8. ASSUME NEW c \in Sessions,
             ExpireCommit(c) \/ PayCommit(c) \/ ConfirmCommit(c) \/ Abandon(c)
      PROVE  Settled(i, st)'
  <2>1. Finish(c)
    BY <1>8 DEF ExpireCommit, PayCommit, ConfirmCommit, Abandon, Commit
  <2>2. status'[i] = status[i]
    BY <1>1, <1>8 DEF ExpireCommit, PayCommit, ConfirmCommit, Abandon, Commit, TypeOK
  <2>3. \A b \in Sessions : inv'[b] # i
    BY <1>1, <2>1, FinishKeepsOthers
  <2> QED
    BY <1>2, <2>2, <2>3
<1> QED
  BY <1>3, <1>4, <1>6, <1>7, <1>8 DEF Next

(* A row that is confirmed or expired, with no call in flight on it, is so  *)
(* for good (SettledInvoicesStay).                                          *)
THEOREM SettledIsForever == Spec => SettledInvoicesStay
<1>1. Inv /\ [Next]_vars =>
        [\A i \in Invoices, st \in {"CONFIRMED", "EXPIRED"} :
            Settled(i, st) => Settled(i, st)']_vars
  BY StepSettled
<1> QED
  BY <1>1, InvHolds, PTL DEF Spec, SettledInvoicesStay
=============================================================================
