----------------------- MODULE ActionQueueRefinement -----------------------
(***************************************************************************)
(* What the rows of the queue say about the tasks that hold them, and with *)
(* it: who owns an open row, what a late cancellation may overwrite, and   *)
(* that the queue implements ActionLifecycle.                              *)
(***************************************************************************)
EXTENDS ActionQueueProofs

USE DEF vars, rowVars, memVars, taskVars, cancelVars, histVars

-----------------------------------------------------------------------------
(* The rows, between the statements of the workers and of cancel_action.    *)

(* There is a row from the INSERT on until a restart.                       *)
RowsMatchCalls ==
  \A a \in Actions : status[a] = "none" <=> call[a] \in {"idle", "lost"}

(* The task a call creates does not exist before the call's last step.      *)
TasksAreNew ==
  \A a \in Actions : call[a] \in {"idle", "inserted"} => task[a] = "none"

(* cancel_action writes only to a row that it has read.                     *)
ChecksFoundRows ==
  \A c \in Cancellers : cancelling[c] # Nobody => status[cancelling[c]] # "none"

(* What a worker knows of the row it holds: it has the status the worker    *)
(* read or wrote last, unless a cancellation has put it to FAILED meanwhile.*)
(* After a handler that returned, only a raising statement leads to the     *)
(* UPDATE to FAILED.                                                        *)
Late(a) == status[a] = "FAILED" /\ Cancellers # {}
HeldAt(pc, a) ==
  /\ pc = "claim" => status[a] = "QUEUED" \/ Late(a)
  /\ pc \in {"dispatch", "running", "complete", "fail"} =>
       status[a] = "EXECUTING" \/ Late(a)
  /\ pc = "fail" /\ outcome[a] = "ok" => DbFaults
HeldRows == \A t \in Actions : HeldAt(task[t], cur[t])

RowInv == RowsMatchCalls /\ TasksAreNew /\ ChecksFoundRows /\ HeldRows

(* At first there is no row and no task.                                    *)
LEMMA InitRowInv == Init => RowInv
  BY DEF Init, RowInv, RowsMatchCalls, TasksAreNew, ChecksFoundRows, HeldRows, HeldAt

(* A task in the body of _execute_action holds an action of its own, whose  *)
(* row exists.                                                              *)
LEMMA HeldAction ==
  ASSUME Inv, RowInv, NEW t \in Actions, task[t] \in Handling
  PROVE  /\ cur[t] \in Actions /\ call[cur[t]] = "done"
         /\ status[cur[t]] # "none"
         /\ call[t] \notin {"idle", "inserted"}
         /\ \A u \in Actions : cur[u] = cur[t] => u = t
         /\ \A i \in 1..Len(queue) : queue[i] # cur[t]
<1>1. cur[t] \in Actions /\ call[cur[t]] = "done"
  BY DEF Inv, TypeOK, Custody, TaskCustody
<1>2. \A u \in Actions : cur[u] = cur[t] => u = t
  BY DEF Inv, Custody, TaskCustody
<1>3. \A i \in 1..Len(queue) : queue[i] # cur[t]
  BY DEF Inv, Custody, QueueCustody
<1>4. status[cur[t]] # "none" /\ call[t] \notin {"idle", "inserted"}
  BY <1>1 DEF RowInv, RowsMatchCalls, TasksAreNew, Handling
<1> QED
  BY <1>1, <1>2, <1>3, <1>4

(* An UPDATE changes the row it names and no other.                         *)
LEMMA UpdateRow ==
  ASSUME Inv, NEW a \in Actions, status[a] # "none", NEW s, Update(a, s)
  PROVE  \A b \in Actions : status'[b] = IF b = a THEN s ELSE status[b]
  BY DEF Inv, TypeOK, Update

(* A step of a task that writes no row keeps RowInv if the new pc claims no *)
(* more than is true of the row.                                            *)
LEMMA MoveKeepsRows ==
  ASSUME Inv, RowInv, NEW t \in Actions, NEW pc,
         task[t] # "none", task' = [task EXCEPT ![t] = pc],
         HeldAt(pc, cur[t])', \A u \in Actions : u # t => cur'[u] = cur[u],
         \A u \in Actions :
           u # t /\ task[u] \in Handling => outcome'[cur[u]] = outcome[cur[u]],
         UNCHANGED <<status, call, cancelling>>
  PROVE  RowInv'
<1>1. \A u \in Actions : task'[u] = IF u = t THEN pc ELSE task[u]
  BY DEF Inv, TypeOK
<1>2. RowsMatchCalls' /\ TasksAreNew' /\ ChecksFoundRows'
  BY <1>1 DEF RowInv, RowsMatchCalls, TasksAreNew, ChecksFoundRows
<1>3. ASSUME NEW u \in Actions, u # t PROVE HeldAt(task[u], cur[u])'
  <2>1. HeldAt(task[u], cur[u])
    BY DEF RowInv, HeldRows
  <2> QED
    BY <2>1, <1>1, <1>3 DEF HeldAt, Late, Handling
<1>4. HeldRows'
  BY <1>1, <1>3 DEF HeldRows
<1> QED
  BY <1>2, <1>4 DEF RowInv

(* An UPDATE of a worker keeps RowInv: no other task holds the row.         *)
LEMMA WriteKeepsRows ==
  ASSUME Inv, RowInv, NEW t \in Actions, task[t] \in Handling, NEW s, s # "none",
         Update(cur[t], s), NEW pc, task' = [task EXCEPT ![t] = pc],
         HeldAt(pc, cur[t])', UNCHANGED <<cur, call, cancelling, outcome>>
  PROVE  RowInv'
<1>1. \A u \in Actions : task'[u] = IF u = t THEN pc ELSE task[u]
  BY DEF Inv, TypeOK
<1>2. \A b \in Actions : status'[b] = IF b = cur[t] THEN s ELSE status[b]
  BY HeldAction, UpdateRow
<1>3. RowsMatchCalls'
  BY <1>2, HeldAction DEF RowInv, RowsMatchCalls
<1>4. TasksAreNew'
  BY <1>1, HeldAction DEF RowInv, TasksAreNew
<1>5. ChecksFoundRows'
  BY <1>2 DEF RowInv, ChecksFoundRows, Inv, TypeOK
<1>6. ASSUME NEW u \in Actions, u # t, task[u] \in Handling
      PROVE  HeldAt(task[u], cur[u])'
  <2>1. HeldAt(task[u], cur[u]) /\ cur[u] \in Actions /\ cur[u] # cur[t]
    BY <1>6, HeldAction DEF RowInv, HeldRows
  <2> QED
    BY <2>1, <1>1, <1>2, <1>6 DEF HeldAt, Late
<1>7. HeldRows'
  BY <1>1, <1>6 DEF HeldRows, HeldAt, Handling
<1> QED
  BY <1>3, <1>4, <1>5, <1>7 DEF RowInv

(* Every step keeps the agreement of rows, tasks and cancelling calls.      *)
LEMMA NextRowInv == Inv /\ RowInv /\ [Next]_vars => RowInv'
<1> SUFFICES ASSUME Inv, RowInv, [Next]_vars PROVE RowInv'
  OBVIOUS
<1>1. ASSUME UNCHANGED <<status, call, task, cur, outcome, cancelling>> PROVE RowInv'
  BY <1>1 DEF RowInv, RowsMatchCalls, TasksAreNew, ChecksFoundRows, HeldRows, HeldAt, Late
<1>2. ASSUME NEW a \in Actions, Insert(a) PROVE RowInv'
  <2>1. /\ call[a] = "idle" /\ status[a] = "none"
        /\ \A b \in Actions : status'[b] = IF b = a THEN "QUEUED" ELSE status[b]
        /\ \A b \in Actions : call'[b] = IF b = a THEN "inserted" ELSE call[b]
        /\ UNCHANGED <<task, cur, outcome, cancelling>>
    BY <1>2 DEF Insert, Inv, TypeOK, RowInv, RowsMatchCalls
  <2>2. RowsMatchCalls' /\ TasksAreNew'
    BY <2>1 DEF RowInv, RowsMatchCalls, TasksAreNew
  <2>3. ChecksFoundRows'
    BY <2>1 DEF RowInv, ChecksFoundRows, Inv, TypeOK
  <2>4. ASSUME NEW t \in Actions, task[t] \in Handling PROVE HeldAt(task[t], cur[t])'
    <3>1. HeldAt(task[t], cur[t]) /\ cur[t] \in Actions /\ cur[t] # a
      BY <2>1, <2>4, HeldAction DEF RowInv, HeldRows
    <3> QED
      BY <2>1, <3>1 DEF HeldAt, Late
  <2>5. HeldRows'
    BY <2>1, <2>4 DEF HeldRows, HeldAt, Handling
  <2> QED
    BY <2>2, <2>3, <2>5 DEF RowInv
<1>3. ASSUME NEW a \in Actions, Put(a) PROVE RowInv'
  <2>1. /\ call[a] = "inserted"
        /\ \A b \in Actions : call'[b] = IF b = a THEN "done" ELSE call[b]
        /\ \A b \in Actions : task'[b] = task[b] \/ (b = a /\ task'[b] = "ready")
        /\ UNCHANGED <<status, cur, outcome, cancelling>>
    BY <1>3 DEF Put, Inv, TypeOK
  <2>2. RowsMatchCalls' /\ TasksAreNew' /\ ChecksFoundRows'
    BY <2>1 DEF RowInv, RowsMatchCalls, TasksAreNew, ChecksFoundRows
  <2>3. HeldRows'
    BY <2>1 DEF RowInv, HeldRows, HeldAt, Late
  <2> QED
    BY <2>2, <2>3 DEF RowInv
<1>4. ASSUME NEW t \in Actions, Start(t) \/ NextAction(t) PROVE RowInv'
  <2>1. /\ task[t] # "none" /\ UNCHANGED <<status, call, cancelling, outcome>>
        /\ \E pc \in {"done", "fetch"} : task' = [task EXCEPT ![t] = pc]
        /\ \A u \in Actions : u # t => cur'[u] = cur[u]
    BY <1>4 DEF Start, NextAction, LoopHead, Inv, TypeOK
  <2> QED
    BY <2>1, MoveKeepsRows DEF HeldAt
<1>5. ASSUME NEW t \in Actions, Fetch(t) PROVE RowInv'
  <2>1. /\ task[t] # "none" /\ UNCHANGED <<status, call, cancelling, outcome, cur>>
        /\ \E pc \in {"raise", "next", "claim"} :
             task' = [task EXCEPT ![t] = pc] /\ (pc = "claim" => status[cur[t]] = "QUEUED")
    BY <1>5 DEF Fetch, Goto
  <2> QED
    BY <2>1, MoveKeepsRows DEF HeldAt
<1>6. ASSUME NEW t \in Actions, Claim(t) PROVE RowInv'
  <2>1. /\ task[t] \in Handling /\ Update(cur[t], "EXECUTING")
        /\ task' = [task EXCEPT ![t] = "dispatch"]
        /\ UNCHANGED <<cur, call, cancelling, outcome>>
    BY <1>6 DEF Claim, Goto, Handling
  <2>2. status'[cur'[t]] = "EXECUTING"
    BY <2>1, HeldAction, UpdateRow
  <2> QED
    BY <2>1, <2>2, WriteKeepsRows DEF HeldAt
<1>7. ASSUME NEW t \in Actions, Dispatch(t) PROVE RowInv'
  <2>1. /\ task[t] = "dispatch" /\ UNCHANGED <<status, call, cancelling, outcome, cur>>
        /\ \E pc \in {"running", "fail"} : task' = [task EXCEPT ![t] = pc]
    BY <1>7 DEF Dispatch, Goto
  <2>2. HeldAt("dispatch", cur[t]) /\ outcome[cur[t]] = "none"
    BY <2>1 DEF RowInv, HeldRows, Inv, Custody, TaskCustody, Untouched, Handling
  <2> QED
    BY <2>1, <2>2, MoveKeepsRows DEF HeldAt, Late
<1>8. ASSUME NEW t \in Actions, NEW r \in Results, HandlerEnds(t, r) PROVE RowInv'
  <2>1. /\ task[t] = "running" /\ UNCHANGED <<status, call, cancelling, cur>>
        /\ outcome' = [outcome EXCEPT ![cur[t]] = IF r = "ok" THEN "ok" ELSE "error"]
        /\ \E pc \in {"complete", "fail", "raise"} :
             task' = [task EXCEPT ![t] = pc] /\ (pc = "fail" => r = "error")
    BY <1>8, ArgumentsAssumption DEF HandlerEnds, Goto, HandlerResults
  <2>2. /\ HeldAt("running", cur[t]) /\ cur[t] \in Actions
        /\ \A u \in Actions : u # t => cur[u] # cur[t]
    BY <2>1, HeldAction DEF RowInv, HeldRows, Handling
  <2>3. /\ r = "error" => outcome'[cur[t]] = "error"
        /\ \A u \in Actions : u # t => outcome'[cur[u]] = outcome[cur[u]]
    BY <2>1, <2>2 DEF Inv, TypeOK
  <2> QED
    BY <2>1, <2>2, <2>3, MoveKeepsRows DEF HeldAt, Late
<1>9. ASSUME NEW t \in Actions, Complete(t) \/ Fail(t) PROVE RowInv'
  <2>1. /\ task[t] \in Handling /\ task' = [task EXCEPT ![t] = "next"]
        /\ \E s \in {"COMPLETED", "FAILED"} : Update(cur[t], s)
        /\ UNCHANGED <<cur, call, cancelling, outcome>>
    BY <1>9 DEF Complete, Fail, Goto, Handling
  <2> QED
    BY <2>1, WriteKeepsRows DEF HeldAt
<1>10. ASSUME NEW t \in Actions, StatementRaises(t) \/ Die(t) PROVE RowInv'
  <2>1. /\ task[t] # "none" /\ UNCHANGED <<status, call, cancelling, outcome, cur>>
        /\ \E pc \in {"raise", "fail", "dead"} :
             /\ task' = [task EXCEPT ![t] = pc]
             /\ pc = "fail" => task[t] = "complete" /\ DbFaults
    BY <1>10 DEF StatementRaises, Die, Goto
  <2>2. HeldAt(task[t], cur[t])
    BY DEF RowInv, HeldRows
  <2> QED
    BY <2>1, <2>2, MoveKeepsRows DEF HeldAt, Late
<1>11. ASSUME NEW c \in Cancellers, NEW a \in Actions, NEW u \in Users,
              CancelRead(c, a, u)
       PROVE  RowInv'
  <2>1. /\ status[a] # "none" /\ cancelling' = [cancelling EXCEPT ![c] = a]
        /\ UNCHANGED <<status, call, task, cur, outcome>>
    BY <1>11 DEF CancelRead
  <2>2. ChecksFoundRows'
    BY <2>1 DEF RowInv, ChecksFoundRows, Inv, TypeOK
  <2> QED
    BY <2>1, <2>2 DEF RowInv, RowsMatchCalls, TasksAreNew, HeldRows, HeldAt, Late
<1>12. ASSUME NEW c \in Cancellers, CancelWrite(c) PROVE RowInv'
  <2>1. /\ \A b \in Actions :
             status'[b] = status[b] \/ (status'[b] = "FAILED" /\ status[b] # "none")
        /\ \A d \in Cancellers : cancelling'[d] = cancelling[d] \/ cancelling'[d] = Nobody
        /\ UNCHANGED <<call, task, cur, outcome>>
    BY <1>12 DEF CancelWrite, Update, Inv, TypeOK
  <2>2. RowsMatchCalls' /\ TasksAreNew'
    BY <2>1 DEF RowInv, RowsMatchCalls, TasksAreNew
  <2>3. ChecksFoundRows'
    BY <2>1 DEF RowInv, ChecksFoundRows, Inv, TypeOK
  <2>4. ASSUME NEW t \in Actions, task[t] \in Handling PROVE HeldAt(task[t], cur[t])'
    <3>1. HeldAt(task[t], cur[t]) /\ cur[t] \in Actions
      BY <2>4, HeldAction DEF RowInv, HeldRows
    <3> QED
      BY <2>1, <3>1 DEF HeldAt, Late
  <2>5. HeldRows'
    BY <2>1, <2>4 DEF HeldRows, HeldAt, Handling
  <2> QED
    BY <2>2, <2>3, <2>5 DEF RowInv
<1>13. CASE Crash
  <2>1. /\ \A a \in Actions : status'[a] = "none" /\ task'[a] = "none"
        /\ \A a \in Actions : call'[a] \in {"idle", "lost"}
        /\ \A c \in Cancellers : cancelling'[c] = Nobody
    BY <1>13 DEF Crash
  <2> QED
    BY <2>1 DEF RowInv, RowsMatchCalls, TasksAreNew, ChecksFoundRows, HeldRows, HeldAt
<1>14. ASSUME NEW ty \in Types, RegisterHandler(ty) PROVE RowInv'
  BY <1>1, <1>14 DEF RegisterHandler
<1>15. CASE UNCHANGED vars
  BY <1>1, <1>15
<1> QED
  BY <1>2, <1>3, <1>4, <1>5, <1>6, <1>7, <1>8, <1>9, <1>10, <1>11, <1>12, <1>13,
     <1>14, <1>15 DEF Next, TaskStep

(* What the rows say about calls, cancellations and the workers that hold   *)
(* them holds in every reachable state.                                     *)
THEOREM RowsAreKnown == Spec => [](Inv /\ RowInv)
  BY InitInv, NextInv, InitRowInv, NextRowInv, PTL DEF Spec

-----------------------------------------------------------------------------
(* Owners of open rows.                                                     *)

Queued(a) == \E i \in 1..Len(queue) : queue[i] = a
QueuedPcs == {"fetch", "claim", "raise", "dead"}
ExecutingPcs == {"dispatch", "running", "complete", "fail", "raise", "dead"}
QueuedIsOwned(a) ==
  status[a] = "QUEUED" => call[a] = "inserted" \/ Queued(a) \/ InHand(a, QueuedPcs)
ExecutingIsOwned(a) == status[a] = "EXECUTING" => InHand(a, ExecutingPcs)

(* OpenRowsAreOwned row by row, before and after a step.                    *)
LEMMA OwnersByRow ==
  /\ OpenRowsAreOwned <=> \A a \in Actions : QueuedIsOwned(a) /\ ExecutingIsOwned(a)
  /\ OpenRowsAreOwned' <=> \A a \in Actions : QueuedIsOwned(a)' /\ ExecutingIsOwned(a)'
  BY DEF OpenRowsAreOwned, QueuedIsOwned, ExecutingIsOwned, Queued, QueuedPcs,
         ExecutingPcs, InHand

(* The row a worker holds is owned by that worker alone.                    *)
LEMMA HeldRowOwner ==
  ASSUME Inv, RowInv, OpenRowsAreOwned, NEW t \in Actions, task[t] \in Handling
  PROVE  /\ status[cur[t]] = "QUEUED" => task[t] \in QueuedPcs
         /\ status[cur[t]] = "EXECUTING" => task[t] \in ExecutingPcs
<1>1. QueuedIsOwned(cur[t]) /\ ExecutingIsOwned(cur[t])
  BY HeldAction, OwnersByRow
<1> QED
  BY <1>1, HeldAction DEF QueuedIsOwned, ExecutingIsOwned, Queued, InHand

(* A step of task t that keeps the action it holds keeps the owners of the  *)
(* other rows; what it does to its own row decides.                         *)
LEMMA MoveKeepsOwners ==
  ASSUME Inv, RowInv, OpenRowsAreOwned, NEW t \in Actions, task[t] \in Handling \cup {"raise"},
         NEW pc, task' = [task EXCEPT ![t] = pc], UNCHANGED <<cur, queue, call>>,
         \A a \in Actions : a # cur[t] => status'[a] = status[a],
         status'[cur[t]] = "QUEUED" => status[cur[t]] = "QUEUED" /\ pc \in QueuedPcs,
         status'[cur[t]] = "EXECUTING" => pc \in ExecutingPcs
  PROVE  OpenRowsAreOwned'
<1>1. \A u \in Actions : task'[u] = IF u = t THEN pc ELSE task[u]
  BY DEF Inv, TypeOK
<1>2. ASSUME NEW a \in Actions PROVE QueuedIsOwned(a)'
  <2>1. QueuedIsOwned(a)
    BY OwnersByRow
  <2>2. CASE a = cur[t]
    BY <1>1, <2>2 DEF QueuedIsOwned, InHand
  <2>3. CASE a # cur[t]
    BY <1>1, <2>1, <2>3 DEF QueuedIsOwned, InHand, Queued
  <2> QED
    BY <2>2, <2>3
<1>3. ASSUME NEW a \in Actions PROVE ExecutingIsOwned(a)'
  <2>1. ExecutingIsOwned(a)
    BY OwnersByRow
  <2>2. CASE a = cur[t]
    BY <1>1, <2>2 DEF ExecutingIsOwned, InHand
  <2>3. CASE a # cur[t]
    BY <1>1, <2>1, <2>3 DEF ExecutingIsOwned, InHand
  <2> QED
    BY <2>2, <2>3
<1> QED
  BY <1>2, <1>3, OwnersByRow

(* get moves the ownership of a QUEUED row from the queue to the task; what *)
(* the task held before, it had settled.                                    *)
LEMMA LoopHeadKeepsOwners ==
  ASSUME Inv, OpenRowsAreOwned, NEW t \in Actions, task[t] \in {"ready", "next"},
         NEW flag, LoopHead(t, flag), UNCHANGED <<status, call>>
  PROVE  OpenRowsAreOwned'
<1>1. CASE queue = <<>>
  <2>1. task' = [task EXCEPT ![t] = "done"] /\ UNCHANGED <<queue, cur>>
    BY <1>1 DEF LoopHead
  <2>2. \A u \in Actions : task'[u] = IF u = t THEN "done" ELSE task[u]
    BY <2>1 DEF Inv, TypeOK
  <2> QED
    BY <2>1, <2>2 DEF OpenRowsAreOwned, InHand
<1>2. CASE queue # <<>>
  <2>0. queue' = Tail(queue)
    BY <1>2 DEF LoopHead
  <2>1. /\ Head(queue) \in Actions
        /\ Len(queue') = Len(queue) - 1 /\ Len(queue) \in Nat \ {0}
        /\ \A i \in 1..Len(queue') : queue'[i] = queue[i + 1]
    BY <1>2, <2>0, HeadTailProperties, EmptySeq DEF Inv, TypeOK
  <2>2. Head(queue) = queue[1]
    BY <1>2 DEF Inv, TypeOK
  <2>3. /\ \A u \in Actions : task'[u] = IF u = t THEN "fetch" ELSE task[u]
        /\ \A u \in Actions : cur'[u] = IF u = t THEN Head(queue) ELSE cur[u]
    BY <1>2, <2>1 DEF LoopHead, Inv, TypeOK
  <2>4. ASSUME NEW a \in Actions, Queued(a), a # Head(queue) PROVE Queued(a)'
    <3>1. PICK i \in 1..Len(queue) : queue[i] = a
      BY <2>4 DEF Queued
    <3>2. i - 1 \in 1..Len(queue') /\ (i - 1) + 1 = i
      BY <2>1, <2>2, <2>4, <3>1
    <3>3. queue'[i - 1] = a
      BY <2>1, <3>1, <3>2
    <3> QED
      BY <3>2, <3>3 DEF Queued
  <2>5. ASSUME NEW a \in Actions PROVE QueuedIsOwned(a)' /\ ExecutingIsOwned(a)'
    <3>1. QueuedIsOwned(a) /\ ExecutingIsOwned(a)
      BY OwnersByRow
    <3>2. ASSUME NEW pcs, InHand(a, pcs), pcs \in {QueuedPcs, ExecutingPcs}
          PROVE  InHand(a, pcs)'
      <4>1. PICK u \in Actions : cur[u] = a /\ task[u] \in pcs
        BY <3>2 DEF InHand
      <4>2. u # t
        BY <3>2, <4>1 DEF QueuedPcs, ExecutingPcs
      <4> QED
        BY <2>3, <4>1, <4>2 DEF InHand
    <3>3. a = Head(queue) => InHand(a, QueuedPcs)'
      BY <2>3 DEF InHand, QueuedPcs
    <3> QED
      BY <2>4, <3>1, <3>2, <3>3 DEF QueuedIsOwned, ExecutingIsOwned
  <2> QED
    BY <2>5, OwnersByRow
<1> QED
  BY <1>1, <1>2

(* Every step leaves each open row with an owner.                           *)
LEMMA NextOpenRows == Inv /\ RowInv /\ OpenRowsAreOwned /\ [Next]_vars => OpenRowsAreOwned'
<1> SUFFICES ASSUME Inv, RowInv, OpenRowsAreOwned, [Next]_vars PROVE OpenRowsAreOwned'
  OBVIOUS
<1>1. ASSUME UNCHANGED <<queue, call, task, cur>>,
             \A a \in Actions : status'[a] = status[a] \/ status'[a] = "FAILED"
      PROVE  OpenRowsAreOwned'
  BY <1>1 DEF OpenRowsAreOwned, InHand
<1>2. ASSUME NEW a \in Actions, Insert(a) PROVE OpenRowsAreOwned'
  <2>1. /\ \A b \in Actions : status'[b] = IF b = a THEN "QUEUED" ELSE status[b]
        /\ \A b \in Actions : call'[b] = IF b = a THEN "inserted" ELSE call[b]
        /\ UNCHANGED <<queue, task, cur>>
    BY <1>2 DEF Insert, Inv, TypeOK
  <2> QED
    BY <2>1 DEF OpenRowsAreOwned, InHand
<1>3. ASSUME NEW a \in Actions, Put(a) PROVE OpenRowsAreOwned'
  <2>1. /\ call[a] = "inserted" /\ queue' = Append(queue, a) /\ UNCHANGED <<status, cur>>
        /\ \A b \in Actions : b # a => call'[b] = call[b] /\ task'[b] = task[b]
    BY <1>3 DEF Put, Inv, TypeOK
  <2>2. /\ Len(queue) \in Nat /\ Len(queue') = Len(queue) + 1
        /\ queue'[Len(queue) + 1] = a
        /\ \A i \in 1..Len(queue) : queue'[i] = queue[i]
    BY <2>1, LenProperties DEF Inv, TypeOK
  <2>3. task[a] = "none"
    BY <2>1 DEF RowInv, TasksAreNew
  <2>4. \A b \in Actions : Queued(b) \/ b = a => Queued(b)'
    BY <2>2 DEF Queued
  <2>5. ASSUME NEW b \in Actions, NEW pcs, InHand(b, pcs), pcs \in {QueuedPcs, ExecutingPcs}
        PROVE  InHand(b, pcs)'
    BY <2>1, <2>3, <2>5 DEF InHand, QueuedPcs, ExecutingPcs
  <2>6. ASSUME NEW b \in Actions PROVE QueuedIsOwned(b)' /\ ExecutingIsOwned(b)'
    <3>1. QueuedIsOwned(b) /\ ExecutingIsOwned(b)
      BY OwnersByRow
    <3> QED
      BY <2>1, <2>4, <2>5, <3>1 DEF QueuedIsOwned, ExecutingIsOwned
  <2> QED
    BY <2>6, OwnersByRow
<1>4. ASSUME NEW t \in Actions, Start(t) \/ NextAction(t) PROVE OpenRowsAreOwned'
  <2>1. task[t] \in {"ready", "next"} /\ UNCHANGED <<status, call>>
    BY <1>4 DEF Start, NextAction
  <2>2. CASE \E flag : LoopHead(t, flag)
    BY <2>1, <2>2, LoopHeadKeepsOwners
  <2>3. CASE task' = [task EXCEPT ![t] = "done"] /\ UNCHANGED <<queue, cur>>
    <3>1. \A u \in Actions : task'[u] = IF u = t THEN "done" ELSE task[u]
      BY <2>3 DEF Inv, TypeOK
    <3> QED
      BY <2>1, <2>3, <3>1 DEF OpenRowsAreOwned, InHand
  <2> QED
    BY <1>4, <2>2, <2>3 DEF Start, NextAction
<1>5. ASSUME NEW t \in Actions, Fetch(t) PROVE OpenRowsAreOwned'
  <2>1. /\ task[t] = "fetch" /\ UNCHANGED <<status, cur, queue, call>>
        /\ \E pc \in {"raise", "next", "claim"} :
             /\ task' = [task EXCEPT ![t] = pc]
             /\ pc = "next" => status[cur[t]] # "QUEUED"
    BY <1>5 DEF Fetch, Goto
  <2>2. status[cur[t]] # "EXECUTING"
    BY <2>1, HeldRowOwner DEF Handling, ExecutingPcs
  <2> QED
    BY <2>1, <2>2, MoveKeepsOwners DEF Handling, QueuedPcs, ExecutingPcs
<1>6. ASSUME NEW t \in Actions, NEW s \in {"EXECUTING", "COMPLETED", "FAILED"}, NEW pc,
             task[t] \in Handling, Update(cur[t], s), task' = [task EXCEPT ![t] = pc],
             s = "EXECUTING" => pc \in ExecutingPcs, UNCHANGED <<cur, queue, call>>
      PROVE  OpenRowsAreOwned'
  <2>1. status'[cur[t]] = s /\ \A a \in Actions : a # cur[t] => status'[a] = status[a]
    BY <1>6, HeldAction, UpdateRow
  <2> QED
    BY <1>6, <2>1, MoveKeepsOwners
<1>7. ASSUME NEW t \in Actions, Claim(t) PROVE OpenRowsAreOwned'
  BY <1>6, <1>7 DEF Claim, Goto, Handling, ExecutingPcs
<1>8. ASSUME NEW t \in Actions, Complete(t) \/ Fail(t) PROVE OpenRowsAreOwned'
  BY <1>6, <1>8 DEF Complete, Fail, Goto, Handling
<1>9. ASSUME NEW t \in Actions, task[t] \in ExecutingPcs \ {"raise", "dead"},
             NEW pc \in ExecutingPcs, task' = [task EXCEPT ![t] = pc],
             UNCHANGED <<status, cur, queue, call>>
      PROVE  OpenRowsAreOwned'
  <2>1. task[t] \in Handling /\ task[t] \notin QueuedPcs
    BY <1>9 DEF Handling, QueuedPcs, ExecutingPcs
  <2> QED
    BY <1>9, <2>1, HeldRowOwner, MoveKeepsOwners
<1>10. ASSUME NEW t \in Actions, Dispatch(t) PROVE OpenRowsAreOwned'
  BY <1>9, <1>10 DEF Dispatch, Goto, ExecutingPcs
<1>11. ASSUME NEW t \in Actions, NEW r \in Results, HandlerEnds(t, r)
       PROVE  OpenRowsAreOwned'
  BY <1>9, <1>11, ArgumentsAssumption DEF HandlerEnds, Goto, HandlerResults, ExecutingPcs
<1>12. ASSUME NEW t \in Actions, StatementRaises(t) PROVE OpenRowsAreOwned'
  <2>1. UNCHANGED <<status, cur, queue, call>>
    BY <1>12 DEF StatementRaises, Goto
  <2>2. CASE task[t] \in {"complete", "fail"}
    BY <1>9, <1>12, <2>1, <2>2 DEF StatementRaises, Goto, ExecutingPcs
  <2>3. CASE task[t] \in {"fetch", "claim"}
    <3>1. status[cur[t]] # "EXECUTING" /\ task' = [task EXCEPT ![t] = "raise"]
      BY <1>12, <2>3, HeldRowOwner DEF StatementRaises, Goto, Handling, ExecutingPcs
    <3> QED
      BY <2>1, <2>3, <3>1, MoveKeepsOwners DEF Handling, QueuedPcs
  <2> QED
    BY <1>12, <2>2, <2>3 DEF StatementRaises
<1>13. ASSUME NEW t \in Actions, Die(t) PROVE OpenRowsAreOwned'
  BY <1>13, MoveKeepsOwners DEF Die, Goto, QueuedPcs, ExecutingPcs
<1>14. ASSUME NEW c \in Cancellers, CancelWrite(c) PROVE OpenRowsAreOwned'
  BY <1>1, <1>14 DEF CancelWrite, Update, Inv, TypeOK
<1>15. ASSUME NEW c \in Cancellers, NEW a \in Actions, NEW u \in Users,
              CancelRead(c, a, u)
       PROVE  OpenRowsAreOwned'
  BY <1>1, <1>15 DEF CancelRead
<1>16. CASE Crash
  BY <1>16 DEF Crash, OpenRowsAreOwned
<1>17. CASE UNCHANGED vars \/ \E ty \in Types : RegisterHandler(ty)
  BY <1>1, <1>17 DEF RegisterHandler
<1> QED
  BY <1>2, <1>3, <1>4, <1>5, <1>7, <1>8, <1>10, <1>11, <1>12, <1>13, <1>14, <1>15,
     <1>16, <1>17 DEF Next, TaskStep

(* An open row always has somebody who will settle it, or a worker that     *)
(* died with it in its hands: nothing stays QUEUED or EXECUTING because two *)
(* tasks each left it to the other.                                         *)
THEOREM OpenRowsHaveOwners == Spec => []OpenRowsAreOwned
<1>1. Init => OpenRowsAreOwned
  BY DEF Init, OpenRowsAreOwned
<1> QED
  BY <1>1, RowsAreKnown, NextOpenRows, PTL DEF Spec

-----------------------------------------------------------------------------
(* What overwrites COMPLETED.                                               *)

Overwritten(a) == status[a] = "COMPLETED" /\ status'[a] # "COMPLETED"

(* A step that overwrites COMPLETED is a restart or the write of a late     *)
(* cancel_action.                                                           *)
LEMMA StepsKeepCompleted ==
  ASSUME Inv, RowInv, Next, NEW a \in Actions, Overwritten(a)
  PROVE  \/ call'[a] = "lost"
         \/ status'[a] = "FAILED" /\ \E c \in Cancellers : cancelling[c] = a
<1> USE DEF Overwritten
<1>0. call[a] \notin {"idle", "lost"}
  BY DEF RowInv, RowsMatchCalls
<1>1. ASSUME NEW b \in Actions, Insert(b) PROVE FALSE
  BY <1>0, <1>1 DEF Insert, Inv, TypeOK
<1>2. ASSUME NEW t \in Actions, task[t] \in Handling, NEW s, Update(cur[t], s)
      PROVE  cur[t] = a
  BY <1>2, HeldAction, UpdateRow
<1>3. ASSUME NEW t \in Actions, Claim(t) PROVE FALSE
  <2>1. cur[t] = a /\ task[t] = "claim"
    BY <1>2, <1>3 DEF Claim, Handling
  <2> QED
    BY <2>1 DEF RowInv, HeldRows, HeldAt, Late
<1>4. ASSUME NEW t \in Actions, Fail(t) PROVE FALSE
  <2>1. cur[t] = a /\ task[t] = "fail"
    BY <1>2, <1>4 DEF Fail, Handling
  <2> QED
    BY <2>1 DEF RowInv, HeldRows, HeldAt, Late
<1>5. ASSUME NEW t \in Actions, Complete(t) PROVE FALSE
  <2>1. cur[t] = a /\ task[t] = "complete"
    BY <1>2, <1>5 DEF Complete, Handling
  <2> QED
    BY <2>1 DEF RowInv, HeldRows, HeldAt, Late
<1>6. ASSUME NEW c \in Cancellers, CancelWrite(c)
      PROVE  status'[a] = "FAILED" /\ cancelling[c] = a
  BY <1>6 DEF CancelWrite, Update, Inv, TypeOK
<1>7. CASE Crash
  BY <1>0, <1>7 DEF Crash
<1>8. CASE UNCHANGED status
  BY <1>8
<1>9. ASSUME NEW b \in Actions,
             Put(b) \/ Start(b) \/ NextAction(b) \/ Fetch(b) \/ Dispatch(b)
             \/ (\E r \in Results : HandlerEnds(b, r)) \/ Die(b) \/ StatementRaises(b)
      PROVE  UNCHANGED status
  BY <1>9 DEF Put, Start, NextAction, Fetch, Dispatch, HandlerEnds, Die, StatementRaises
<1>10. ASSUME NEW c \in Cancellers, NEW b \in Actions, NEW u \in Users,
              CancelRead(c, b, u)
       PROVE  UNCHANGED status
  BY <1>10 DEF CancelRead
<1>11. ASSUME NEW ty \in Types, RegisterHandler(ty) PROVE UNCHANGED status
  BY <1>11 DEF RegisterHandler
<1> QED
  BY <1>1, <1>3, <1>4, <1>5, <1>6, <1>7, <1>8, <1>9, <1>10, <1>11 DEF Next, TaskStep

(* The status COMPLETED of a row is lost only with the row, in a restart,   *)
(* or to a cancel_action that had read the row before the worker took it.   *)
THEOREM CompletedLastsButForLateCancels == Spec => CompletedIsOnlyCancelled
<1> DEFINE Kept ==
      \A a \in Actions :
        status[a] = "COMPLETED" /\ status'[a] # "COMPLETED" =>
          \/ call'[a] = "lost"
          \/ status'[a] = "FAILED" /\ \E c \in Cancellers : cancelling[c] = a
<1>1. Inv /\ RowInv /\ [Next]_vars => [Kept]_vars
  BY StepsKeepCompleted DEF Overwritten
<1>2. Spec => [][Kept]_vars
  BY <1>1, RowsAreKnown, PTL DEF Spec
<1> QED
  BY <1>2 DEF CompletedIsOnlyCancelled

-----------------------------------------------------------------------------
(* The queue implements ActionLifecycle.                                    *)

Phase == [a \in Actions |-> IF call[a] = "lost" THEN "lost" ELSE status[a]]
Overruled == Cancellers # {} \/ DbFaults

(* The initial states map to initial states of the life cycle.              *)
LEMMA InitImplements == Init => Lifecycle!Init
  BY DEF Init, Lifecycle!Init

(* A step that writes at most the row of a changes the phase of a only.     *)
LEMMA PhaseOfRow ==
  ASSUME NEW a \in Actions, NEW p, Phase'[a] = p,
         \A b \in Actions : b # a => Phase'[b] = Phase[b]
  PROVE  Phase' = [Phase EXCEPT ![a] = p]
  BY DEF Phase

(* The actions of ActionLifecycle that change a phase, said of the mapped   *)
(* variables.                                                               *)
LEMMA PhaseSteps ==
  ASSUME NEW a \in Actions, NEW p, Phase' = [Phase EXCEPT ![a] = p], UNCHANGED outcome,
         \/ Phase[a] = "none" /\ p = "QUEUED"
         \/ /\ outcome[a] = "none" /\ p = "EXECUTING"
            /\ Phase[a] = "QUEUED" \/ (Overruled /\ Phase[a] = "FAILED")
         \/ /\ Phase[a] = "EXECUTING" \/ (Overruled /\ Phase[a] = "FAILED")
            /\ p = IF outcome[a] = "ok" THEN "COMPLETED" ELSE "FAILED"
         \/ Overruled /\ Phase[a] \notin {"none", "lost"} /\ p = "FAILED"
  PROVE  Lifecycle!Next
<1>1. Lifecycle!MoveTo(a, p)
  BY DEF Phase, Lifecycle!MoveTo
<1>2. CASE Phase[a] = "none" /\ p = "QUEUED"
  <2>1. Lifecycle!Accept(a)
    BY <1>1, <1>2 DEF Phase, Lifecycle!Accept
  <2> QED
    BY <2>1 DEF Lifecycle!Next
<1>3. CASE /\ outcome[a] = "none" /\ p = "EXECUTING"
           /\ Phase[a] = "QUEUED" \/ (Overruled /\ Phase[a] = "FAILED")
  <2>1. Lifecycle!Claim(a)
    BY <1>1, <1>3 DEF Phase, Overruled, Lifecycle!Claim
  <2> QED
    BY <2>1 DEF Lifecycle!Next
<1>4. CASE /\ Phase[a] = "EXECUTING" \/ (Overruled /\ Phase[a] = "FAILED")
           /\ p = IF outcome[a] = "ok" THEN "COMPLETED" ELSE "FAILED"
  <2>1. Lifecycle!MoveTo(a, IF outcome[a] = "ok" THEN "COMPLETED" ELSE "FAILED")
    BY <1>4 DEF Phase, Lifecycle!MoveTo
  <2>2. Lifecycle!Settle(a)
    BY <1>4, <2>1 DEF Phase, Overruled, Lifecycle!Settle
  <2> QED
    BY <2>2 DEF Lifecycle!Next
<1>5. CASE Overruled /\ Phase[a] \notin {"none", "lost"} /\ p = "FAILED"
  <2>1. Lifecycle!Overrule(a)
    BY <1>1, <1>5 DEF Phase, Overruled, Lifecycle!Overrule
  <2> QED
    BY <2>1 DEF Lifecycle!Next
<1> QED
  BY <1>2, <1>3, <1>4, <1>5

(* Every step of the queue is a step of the life cycle or changes nothing   *)
(* of it.                                                                   *)
Abstract == Lifecycle!Next \/ UNCHANGED Lifecycle!vars

(* Case by case: statements that write a row move its phase, the end of a   *)
(* handler is the effect, a restart loses all; the rest is a stutter.       *)
LEMMA StepImplements ==
  ASSUME Inv, RowInv, Next
  PROVE  Abstract
<1>1. ASSUME UNCHANGED <<status, outcome>>,
             \A b \in Actions : call'[b] = "lost" <=> call[b] = "lost"
      PROVE  Abstract
  <2>1. Phase' = Phase
    BY <1>1 DEF Phase
  <2> QED
    BY <1>1, <2>1 DEF Abstract, Phase, Lifecycle!vars
<1>2. \A b \in Actions : status[b] # "none" => Phase[b] = status[b]
  BY DEF Phase, RowInv, RowsMatchCalls
<1>3. ASSUME NEW a \in Actions, Insert(a) PROVE Abstract
  <2>1. /\ call[a] = "idle" /\ status[a] = "none" /\ UNCHANGED outcome
        /\ \A b \in Actions : status'[b] = IF b = a THEN "QUEUED" ELSE status[b]
        /\ \A b \in Actions : call'[b] = IF b = a THEN "inserted" ELSE call[b]
    BY <1>3 DEF Insert, Inv, TypeOK, RowInv, RowsMatchCalls
  <2>2. Phase[a] = "none" /\ Phase' = [Phase EXCEPT ![a] = "QUEUED"]
    BY <2>1, PhaseOfRow DEF Phase
  <2> QED
    BY <2>1, <2>2, PhaseSteps DEF Abstract
<1>4. ASSUME NEW t \in Actions, task[t] \in Handling, NEW s, Update(cur[t], s),
             UNCHANGED <<call, outcome>>
      PROVE  /\ cur[t] \in Actions /\ Phase' = [Phase EXCEPT ![cur[t]] = s]
             /\ Phase[cur[t]] = status[cur[t]]
  <2>1. /\ cur[t] \in Actions /\ call[cur[t]] = "done" /\ status[cur[t]] # "none"
        /\ \A b \in Actions : status'[b] = IF b = cur[t] THEN s ELSE status[b]
    BY <1>4, HeldAction, UpdateRow
  <2> QED
    BY <1>2, <1>4, <2>1, PhaseOfRow DEF Phase
<1>5. ASSUME NEW a \in Actions, Late(a) PROVE Overruled
  BY <1>5 DEF Late, Overruled
<1>6. ASSUME NEW t \in Actions, Claim(t) PROVE Abstract
  <2>1. /\ task[t] = "claim" /\ Update(cur[t], "EXECUTING") /\ UNCHANGED <<call, outcome>>
        /\ outcome[cur[t]] = "none"
    BY <1>6 DEF Claim, Handling, Inv, Custody, TaskCustody, Untouched
  <2>2. status[cur[t]] = "QUEUED" \/ Late(cur[t])
    BY <2>1 DEF RowInv, HeldRows, HeldAt
  <2> QED
    BY <1>4, <1>5, <2>1, <2>2, PhaseSteps DEF Abstract, Handling, Late
<1>7. ASSUME NEW t \in Actions, Complete(t) PROVE Abstract
  <2>1. /\ task[t] = "complete" /\ Update(cur[t], "COMPLETED") /\ UNCHANGED <<call, outcome>>
        /\ outcome[cur[t]] = "ok"
    BY <1>7 DEF Complete, Handling, Inv, Custody, TaskCustody
  <2>2. status[cur[t]] = "EXECUTING" \/ Late(cur[t])
    BY <2>1 DEF RowInv, HeldRows, HeldAt
  <2>3. /\ cur[t] \in Actions /\ Phase' = [Phase EXCEPT ![cur[t]] = "COMPLETED"]
        /\ Phase[cur[t]] = status[cur[t]]
    BY <1>4, <2>1 DEF Handling
  <2>4. Phase[cur[t]] = "EXECUTING" \/ (Overruled /\ Phase[cur[t]] = "FAILED")
    BY <1>5, <2>2, <2>3 DEF Late
  <2> QED
    BY <2>1, <2>3, <2>4, PhaseSteps DEF Abstract
<1>8. ASSUME NEW t \in Actions, Fail(t) PROVE Abstract
  <2>1. /\ task[t] = "fail" /\ Update(cur[t], "FAILED") /\ UNCHANGED <<call, outcome>>
    BY <1>8 DEF Fail
  <2>2. /\ status[cur[t]] = "EXECUTING" \/ Late(cur[t])
        /\ outcome[cur[t]] = "ok" => Overruled
    BY <2>1 DEF RowInv, HeldRows, HeldAt, Overruled
  <2>3. /\ cur[t] \in Actions /\ Phase' = [Phase EXCEPT ![cur[t]] = "FAILED"]
        /\ Phase[cur[t]] = status[cur[t]]
    BY <1>4, <2>1 DEF Handling
  <2>4. CASE outcome[cur[t]] = "ok"
    <3>1. Overruled /\ Phase[cur[t]] \notin {"none", "lost"}
      BY <2>2, <2>3, <2>4 DEF Late
    <3> QED
      BY <2>1, <2>3, <3>1, PhaseSteps DEF Abstract
  <2>5. CASE outcome[cur[t]] # "ok"
    <3>1. Phase[cur[t]] = "EXECUTING" \/ (Overruled /\ Phase[cur[t]] = "FAILED")
      BY <1>5, <2>2, <2>3 DEF Late
    <3> QED
      BY <2>1, <2>3, <2>5, <3>1, PhaseSteps DEF Abstract
  <2> QED
    BY <2>4, <2>5
<1>9. ASSUME NEW t \in Actions, NEW r \in Results, HandlerEnds(t, r) PROVE Abstract
  <2> DEFINE e == IF r = "ok" THEN "ok" ELSE "error"
  <2>1. /\ task[t] = "running" /\ outcome' = [outcome EXCEPT ![cur[t]] = e]
        /\ UNCHANGED <<status, call>>
    BY <1>9 DEF HandlerEnds
  <2>2. /\ cur[t] \in Actions /\ status[cur[t]] # "none" /\ outcome[cur[t]] = "none"
        /\ status[cur[t]] = "EXECUTING" \/ Late(cur[t])
    BY <2>1, HeldAction DEF Inv, Custody, TaskCustody, RowInv, HeldRows, HeldAt, Handling
  <2>3. Phase' = Phase /\ Phase[cur[t]] = status[cur[t]]
    BY <1>2, <2>1, <2>2 DEF Phase
  <2>4. Lifecycle!Take(cur[t], e)
    BY <1>5, <2>1, <2>2, <2>3 DEF Phase, Overruled, Late, Lifecycle!Take
  <2> QED
    BY <2>2, <2>4 DEF Abstract, Lifecycle!Next
<1>10. ASSUME NEW c \in Cancellers, CancelWrite(c) PROVE Abstract
  <2>1. UNCHANGED <<call, outcome>>
    BY <1>10 DEF CancelWrite
  <2>2. CASE UNCHANGED status
    BY <1>1, <2>1, <2>2
  <2>3. CASE Update(cancelling[c], "FAILED")
    <3> DEFINE a == cancelling[c]
    <3>1. a \in Actions /\ status[a] # "none"
      BY <1>10, ArgumentsAssumption DEF CancelWrite, RowInv, ChecksFoundRows, Inv, TypeOK
    <3>2. \A b \in Actions : status'[b] = IF b = a THEN "FAILED" ELSE status[b]
      BY <2>3, <3>1, UpdateRow
    <3>3. call[a] # "lost"
      BY <3>1 DEF RowInv, RowsMatchCalls
    <3>4. Phase' = [Phase EXCEPT ![a] = "FAILED"]
      BY <2>1, <3>1, <3>2, <3>3, PhaseOfRow DEF Phase
    <3>5. Phase[a] \notin {"none", "lost"} /\ Overruled
      BY <1>2, <3>1 DEF Overruled, Inv, TypeOK, Settled
    <3> QED
      BY <2>1, <3>1, <3>4, <3>5, PhaseSteps DEF Abstract
  <2> QED
    BY <1>10, <2>2, <2>3 DEF CancelWrite
<1>11. CASE Crash
  <2>1. /\ \A a \in Actions : call'[a] = IF call[a] = "idle" THEN "idle" ELSE "lost"
        /\ \A a \in Actions : status'[a] = "none"
        /\ UNCHANGED outcome
    BY <1>11 DEF Crash
  <2>2. \A a \in Actions : call[a] = "idle" <=> Phase[a] = "none"
    BY DEF Phase, RowInv, RowsMatchCalls
  <2>3. Phase' = [a \in Actions |-> IF Phase[a] = "none" THEN "none" ELSE "lost"]
    BY <2>1, <2>2 DEF Phase
  <2>4. Lifecycle!LoseAll
    BY <2>1, <2>3 DEF Phase, Lifecycle!LoseAll
  <2> QED
    BY <2>4 DEF Abstract, Lifecycle!Next
<1>12. ASSUME NEW a \in Actions, Put(a) PROVE Abstract
  BY <1>1, <1>12 DEF Put, Inv, TypeOK
<1>13. ASSUME NEW t \in Actions, Start(t) \/ NextAction(t) \/ Fetch(t) \/ Dispatch(t)
                                \/ Die(t) \/ StatementRaises(t)
       PROVE  Abstract
  BY <1>1, <1>13 DEF Start, NextAction, Fetch, Dispatch, Die, StatementRaises
<1>14. ASSUME NEW c \in Cancellers, NEW a \in Actions, NEW u \in Users,
              CancelRead(c, a, u)
       PROVE  Abstract
  BY <1>1, <1>14 DEF CancelRead
<1>15. ASSUME NEW ty \in Types, RegisterHandler(ty) PROVE Abstract
  BY <1>1, <1>15 DEF RegisterHandler
<1> QED
  BY <1>3, <1>6, <1>7, <1>8, <1>9, <1>10, <1>11, <1>12, <1>13, <1>14, <1>15
     DEF Next, TaskStep

(* The queue, its workers, its statements and late cancellations implement  *)
(* the life cycle of an action: it is claimed, has its effect once and is   *)
(* settled by a status that tells how the effect ended.  Only cancellations *)
(* and raising statements may overrule that status.                         *)
THEOREM QueueImplementsLifecycle == Spec => Implements
<1>1. UNCHANGED vars => UNCHANGED Lifecycle!vars
  BY DEF Lifecycle!vars
<1>2. Inv /\ RowInv /\ [Next]_vars => [Lifecycle!Next]_(Lifecycle!vars)
  BY <1>1, StepImplements DEF Abstract
<1> QED
  BY <1>2, InitImplements, RowsAreKnown, PTL DEF Spec, Implements, Lifecycle!Spec

-----------------------------------------------------------------------------
(* Where the promises of the documents hold.                                *)

(* A row whose enqueue returned is lost in a restart only.                  *)
THEOREM RowsStayWithoutRestarts ==
  ASSUME ~Crashes
  PROVE  Spec => AcceptedIsRecorded
<1> DEFINE Stays == \A a \in Actions : call[a] = "done" => status'[a] # "none"
<1>1. ASSUME Inv, RowInv, RowInv', Next PROVE Stays
  <2>1. ~Crash
    BY DEF Crash
  <2>2. \A a \in Actions : call[a] = "done" => call'[a] = "done"
    BY <1>1, <2>1
       DEF Next, RegisterHandler, Insert, Put, TaskStep, Start, NextAction, Fetch, Claim,
           Dispatch, HandlerEnds, Complete, Fail, Die, StatementRaises, CancelRead,
           CancelWrite, Inv, TypeOK
  <2> QED
    BY <1>1, <2>2 DEF RowInv, RowsMatchCalls
<1>2. Inv /\ RowInv /\ RowInv' /\ [Next]_vars => [Stays]_vars
  BY <1>1
<1>3. Spec => [][Stays]_vars
  BY <1>2, RowsAreKnown, PTL DEF Spec
<1> QED
  BY <1>3 DEF AcceptedIsRecorded

(* A task that raised held no EXECUTING row.                                *)
RaisedBeforeClaim ==
  \A t \in Actions :
    task[t] \in {"raise", "dead"} /\ cur[t] # Nobody => status[cur[t]] # "EXECUTING"

(* Without raising statements and silent exceptions only a payload that     *)
(* does not read back makes a task raise, and it has not claimed its row.   *)
LEMMA NextRaised ==
  ASSUME ~DbFaults, "silent" \notin Results,
         Inv, RowInv, OpenRowsAreOwned, RaisedBeforeClaim, [Next]_vars
  PROVE  RaisedBeforeClaim'
<1>0. \A t, u \in Actions : cur[t] = cur[u] /\ cur[t] # Nobody => t = u
  BY DEF Inv, Custody, TaskCustody
<1>1. ASSUME NEW t \in Actions, NEW pc, task' = [task EXCEPT ![t] = pc],
             pc \notin {"raise", "dead"},
             \A u \in Actions : u # t => cur'[u] = cur[u],
             \A a \in Actions : status'[a] = "EXECUTING" => status[a] = "EXECUTING" \/ a = cur[t],
             cur[t] # Nobody \/ UNCHANGED status
      PROVE  RaisedBeforeClaim'
  <2>1. \A u \in Actions : task'[u] = IF u = t THEN pc ELSE task[u]
    BY <1>1 DEF Inv, TypeOK
  <2>2. ASSUME NEW u \in Actions, u # t, task'[u] \in {"raise", "dead"}, cur'[u] # Nobody
        PROVE  status'[cur'[u]] # "EXECUTING"
    <3>1. cur'[u] = cur[u] /\ cur[u] \in Actions /\ task[u] \in {"raise", "dead"}
      BY <1>1, <2>1, <2>2 DEF Inv, TypeOK
    <3>2. status[cur[u]] # "EXECUTING"
      BY <2>2, <3>1 DEF RaisedBeforeClaim
    <3>3. cur[u] # cur[t]
      BY <1>0, <2>2, <3>1
    <3> QED
      BY <1>1, <3>1, <3>2, <3>3
  <2> QED
    BY <1>1, <2>1, <2>2 DEF RaisedBeforeClaim
<1>2. ASSUME UNCHANGED <<task, cur>>,
             \A a \in Actions : status'[a] = "EXECUTING" => status[a] = "EXECUTING"
      PROVE  RaisedBeforeClaim'
  BY <1>2 DEF RaisedBeforeClaim, Inv, TypeOK
<1>3. ASSUME NEW a \in Actions, Insert(a) PROVE RaisedBeforeClaim'
  BY <1>2, <1>3 DEF Insert, Inv, TypeOK
<1>4. ASSUME NEW a \in Actions, Put(a) PROVE RaisedBeforeClaim'
  <2>1. UNCHANGED <<status, cur>>
    BY <1>4 DEF Put
  <2>2. CASE UNCHANGED task
    BY <1>2, <2>1, <2>2
  <2>3. CASE task' = [task EXCEPT ![a] = "ready"]
    <3>1. "ready" \notin {"raise", "dead"}
      OBVIOUS
    <3>2. /\ \A u \in Actions : u # a => cur'[u] = cur[u]
          /\ \A b \in Actions : status'[b] = "EXECUTING" => status[b] = "EXECUTING"
      BY <2>1
    <3> QED
      BY <1>1, <2>1, <2>3, <3>1, <3>2
  <2> QED
    BY <1>4, <2>2, <2>3 DEF Put
<1>5. ASSUME NEW t \in Actions, Start(t) \/ NextAction(t) PROVE RaisedBeforeClaim'
  <2>1. /\ UNCHANGED status
        /\ \E pc \in {"done", "fetch"} : task' = [task EXCEPT ![t] = pc]
        /\ \A u \in Actions : u # t => cur'[u] = cur[u]
    BY <1>5 DEF Start, NextAction, LoopHead, Inv, TypeOK
  <2> QED
    BY <1>1, <2>1
<1>6. ASSUME NEW t \in Actions, Fetch(t) PROVE RaisedBeforeClaim'
  <2>1. UNCHANGED <<status, cur>> /\ task[t] = "fetch"
    BY <1>6 DEF Fetch, Goto
  <2>2. CASE task' = [task EXCEPT ![t] = "raise"]
    <3>1. status[cur[t]] # "EXECUTING"
      BY <2>1, HeldRowOwner DEF Handling, ExecutingPcs
    <3>2. \A u \in Actions : task'[u] = IF u = t THEN "raise" ELSE task[u]
      BY <2>2 DEF Inv, TypeOK
    <3> QED
      BY <2>1, <3>1, <3>2 DEF RaisedBeforeClaim
  <2>3. CASE \E pc \in {"claim", "next"} : task' = [task EXCEPT ![t] = pc]
    BY <1>1, <2>1, <2>3
  <2> QED
    BY <1>6, <2>2, <2>3 DEF Fetch, Goto
<1>7. ASSUME NEW t \in Actions, Claim(t) \/ Complete(t) \/ Fail(t) PROVE RaisedBeforeClaim'
  <2>1. /\ task[t] \in Handling /\ UNCHANGED cur
        /\ \E pc \in {"dispatch", "next"} : task' = [task EXCEPT ![t] = pc]
        /\ \E s \in {"EXECUTING", "COMPLETED", "FAILED"} : Update(cur[t], s)
    BY <1>7 DEF Claim, Complete, Fail, Goto, Handling
  <2>2. cur[t] \in Actions /\ cur[t] # Nobody /\ status[cur[t]] # "none"
    BY <2>1, HeldAction, ArgumentsAssumption
  <2>3. \A a \in Actions : a # cur[t] => status'[a] = status[a]
    BY <2>1, <2>2, UpdateRow
  <2> QED
    BY <1>1, <2>1, <2>2, <2>3
<1>8. ASSUME NEW t \in Actions, Dispatch(t) PROVE RaisedBeforeClaim'
  BY <1>1, <1>8 DEF Dispatch, Goto
<1>9. ASSUME NEW t \in Actions, NEW r \in Results, HandlerEnds(t, r)
      PROVE  RaisedBeforeClaim'
  <2>1. r \in {"ok", "error"}
    BY ArgumentsAssumption DEF HandlerResults
  <2>2. \E pc \in {"complete", "fail"} : task' = [task EXCEPT ![t] = pc]
    BY <1>9, <2>1 DEF HandlerEnds, Goto
  <2> QED
    BY <1>1, <1>9, <2>2 DEF HandlerEnds, Goto
<1>10. ASSUME NEW t \in Actions, Die(t) PROVE RaisedBeforeClaim'
  BY <1>10 DEF Die, Goto, RaisedBeforeClaim, Inv, TypeOK
<1>11. ASSUME NEW c \in Cancellers, CancelWrite(c) PROVE RaisedBeforeClaim'
  BY <1>2, <1>11 DEF CancelWrite, Update, Inv, TypeOK
<1>12. CASE Crash
  BY <1>12 DEF Crash, RaisedBeforeClaim
<1>13. CASE \/ UNCHANGED vars \/ \E ty \in Types : RegisterHandler(ty)
            \/ \E c \in Cancellers, a \in Actions, u \in Users : CancelRead(c, a, u)
  BY <1>2, <1>13 DEF RegisterHandler, CancelRead
<1>14. \A a \in Actions : ~StatementRaises(a)
  BY DEF StatementRaises
<1> QED
  BY <1>3, <1>4, <1>5, <1>6, <1>7, <1>8, <1>9, <1>10, <1>11, <1>12, <1>13, <1>14
     DEF Next, TaskStep

(* Where statements do not raise and exceptions have a message, an action   *)
(* whose handler raised does not stay EXECUTING, whatever is cancelled,     *)
(* restarted, or has a payload that does not read back.                     *)
THEOREM ErrorsAreRecordedWithoutFaults ==
  ASSUME ~DbFaults, "silent" \notin Results
  PROVE  Spec => []ErrorIsRecorded
<1>1. Init => RaisedBeforeClaim
  BY DEF Init, RaisedBeforeClaim
<1>2. Inv /\ RowInv /\ OpenRowsAreOwned /\ RaisedBeforeClaim /\ [Next]_vars => RaisedBeforeClaim'
  BY NextRaised
<1>3. Spec => []RaisedBeforeClaim
  BY <1>1, <1>2, RowsAreKnown, OpenRowsHaveOwners, PTL DEF Spec
<1>4. OpenRowsAreOwned /\ RaisedBeforeClaim => ErrorIsRecorded
  <2> SUFFICES ASSUME OpenRowsAreOwned, RaisedBeforeClaim,
                      NEW a \in Actions, status[a] = "EXECUTING"
               PROVE  InHand(a, Active)
    BY DEF ErrorIsRecorded
  <2>1. PICK t \in Actions :
           cur[t] = a /\ task[t] \in {"dispatch", "running", "complete", "fail", "raise", "dead"}
    BY DEF OpenRowsAreOwned, InHand
  <2>2. task[t] # "dead"
    BY <2>1, ArgumentsAssumption DEF RaisedBeforeClaim
  <2> QED
    BY <2>1, <2>2 DEF InHand, Active, Handling
<1> QED
  BY <1>3, <1>4, OpenRowsHaveOwners, PTL
=============================================================================
