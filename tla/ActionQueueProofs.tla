------------------------- MODULE ActionQueueProofs -------------------------
(***************************************************************************)
(* Theorems about ActionQueue for every set of actions, users, types and   *)
(* cancelling tasks, with statements that raise and restarts allowed.      *)
(***************************************************************************)
EXTENDS ActionQueue, SequenceTheorems, TLAPS

-----------------------------------------------------------------------------
(* The type invariant.                                                      *)

USE DEF vars, rowVars, memVars, taskVars, cancelVars, histVars

(* The initial state has its types.                                         *)
LEMMA InitTypeOK == Init => TypeOK
<1> SUFFICES ASSUME Init PROVE TypeOK
  OBVIOUS
<1>1. queue \in Seq(Actions)
  BY EmptySeq DEF Init
<1>2. task \in [Actions -> TaskPc] /\ cur \in [Actions -> Actions \cup {Nobody}]
  BY DEF Init, TaskPc
<1> QED
  BY <1>1, <1>2, ArgumentsAssumption DEF Init, TypeOK

(* _update_status writes a status, or finds no row.                         *)
Statuses == Settled \cup {"none", "QUEUED", "EXECUTING"}
(* So the statuses keep their type.                                         *)
LEMMA UpdateType ==
  ASSUME status \in [Actions -> Statuses], NEW a, NEW s \in Statuses, Update(a, s)
  PROVE  status' \in [Actions -> Statuses]
  BY DEF Update

(* Every step of a call, a task, a canceller or a restart keeps the types.  *)
LEMMA NextTypeOK == TypeOK /\ [Next]_vars => TypeOK'
<1> SUFFICES ASSUME TypeOK, [Next]_vars PROVE TypeOK'
  OBVIOUS
<1> USE ArgumentsAssumption DEF TypeOK, TaskPc, Active, Handling, Settled
<1>1. CASE UNCHANGED vars
  BY <1>1
<1>2. ASSUME NEW ty \in Types, RegisterHandler(ty) PROVE TypeOK'
  BY <1>2 DEF RegisterHandler
<1>3. ASSUME NEW a \in Actions, Insert(a) PROVE TypeOK'
  BY <1>3 DEF Insert
<1>4. ASSUME NEW a \in Actions, Put(a) PROVE TypeOK'
  BY <1>4 DEF Put
<1>5. ASSUME NEW t \in Actions, NEW flag \in BOOLEAN, LoopHead(t, flag),
             UNCHANGED <<rowVars, handlers, call, cancelVars, histVars>>
      PROVE  TypeOK'
  <2>1. CASE queue # <<>>
    <3>1. Head(queue) \in Actions /\ Tail(queue) \in Seq(Actions)
      BY <2>1, HeadTailProperties
    <3>2. cur' = [cur EXCEPT ![t] = Head(queue)] /\ queue' = Tail(queue)
      BY <1>5, <2>1 DEF LoopHead
    <3>3. processing' = flag /\ task' = [task EXCEPT ![t] = "fetch"]
      BY <1>5, <2>1 DEF LoopHead
    <3> HIDE DEF LoopHead
    <3> QED
      BY <1>5, <3>1, <3>2, <3>3
  <2>2. CASE queue = <<>>
    BY <1>5, <2>2 DEF LoopHead
  <2> QED
    BY <2>1, <2>2
<1>6. ASSUME NEW t \in Actions, Start(t) PROVE TypeOK'
  BY <1>5, <1>6 DEF Start
<1>7. ASSUME NEW t \in Actions, NextAction(t) PROVE TypeOK'
  BY <1>5, <1>7 DEF NextAction
<1>8. ASSUME NEW t \in Actions, Fetch(t) PROVE TypeOK'
  BY <1>8 DEF Fetch, Goto
<1>9. ASSUME NEW t \in Actions, Claim(t) PROVE TypeOK'
  <2>1. Update(cur[t], "EXECUTING") /\ Goto(t, "dispatch")
        /\ UNCHANGED <<memVars, call, cancelVars, histVars>>
    BY <1>9 DEF Claim
  <2>2. status' \in [Actions -> Statuses]
    BY <2>1, UpdateType DEF Statuses
  <2>3. task' \in [Actions -> TaskPc] /\ cur' = cur
    BY <2>1 DEF Goto
  <2> QED
    BY <2>1, <2>2, <2>3 DEF Statuses
<1>10. ASSUME NEW t \in Actions, Dispatch(t) PROVE TypeOK'
  <2>1. runs' \in [Actions -> Nat]
    <3>1. CASE runs' = [runs EXCEPT ![cur[t]] = @ + 1]
      <4>1. runs \in [Actions -> Nat]
        OBVIOUS
      <4>2. \A a \in Actions : runs[a] + 1 \in Nat
        BY <4>1
      <4> QED
        BY <3>1, <4>1, <4>2
    <3>2. CASE runs' = runs
      BY <3>2
    <3> QED
      BY <1>10, <3>1, <3>2 DEF Dispatch
  <2> QED
    BY <1>10, <2>1 DEF Dispatch, Goto
<1>11. ASSUME NEW t \in Actions, NEW r \in Results, HandlerEnds(t, r) PROVE TypeOK'
  BY <1>11 DEF HandlerEnds, Goto, HandlerResults
<1>12. ASSUME NEW t \in Actions, Complete(t) PROVE TypeOK'
  <2>1. Update(cur[t], "COMPLETED") /\ Goto(t, "next")
        /\ UNCHANGED <<memVars, call, cancelVars, histVars>>
    BY <1>12 DEF Complete
  <2>2. status' \in [Actions -> Statuses]
    BY <2>1, UpdateType DEF Statuses
  <2>3. task' \in [Actions -> TaskPc] /\ cur' = cur
    BY <2>1 DEF Goto
  <2> QED
    BY <2>1, <2>2, <2>3 DEF Statuses
<1>13. ASSUME NEW t \in Actions, Fail(t) PROVE TypeOK'
  <2>1. Update(cur[t], "FAILED") /\ Goto(t, "next")
        /\ UNCHANGED <<memVars, call, cancelVars, histVars>>
    BY <1>13 DEF Fail
  <2>2. status' \in [Actions -> Statuses]
    BY <2>1, UpdateType DEF Statuses
  <2>3. task' \in [Actions -> TaskPc] /\ cur' = cur
    BY <2>1 DEF Goto
  <2> QED
    BY <2>1, <2>2, <2>3 DEF Statuses
<1>14. ASSUME NEW t \in Actions, StatementRaises(t) PROVE TypeOK'
  BY <1>14 DEF StatementRaises, Goto
<1>15. ASSUME NEW t \in Actions, Die(t) PROVE TypeOK'
  BY <1>15 DEF Die, Goto
<1>16. ASSUME NEW c \in Cancellers, NEW a \in Actions, NEW u \in Users,
              CancelRead(c, a, u)
       PROVE  TypeOK'
  BY <1>16 DEF CancelRead
<1>17. ASSUME NEW c \in Cancellers, CancelWrite(c) PROVE TypeOK'
  <2>1. status' \in [Actions -> Statuses]
    <3>1. CASE Update(cancelling[c], "FAILED")
      BY <3>1, UpdateType DEF Statuses
    <3> QED
      BY <1>17, <3>1 DEF CancelWrite, Statuses
  <2> QED
    BY <1>17, <2>1 DEF CancelWrite, Statuses
<1>18. CASE Crash
  BY <1>18, EmptySeq DEF Crash
<1> QED
  BY <1>1, <1>2, <1>3, <1>4, <1>6, <1>7, <1>8, <1>9, <1>10, <1>11, <1>12,
     <1>13, <1>14, <1>15, <1>16, <1>17, <1>18 DEF Next, TaskStep

(* Every variable keeps its type.                                           *)
THEOREM TypeCorrect == Spec => []TypeOK
  BY InitTypeOK, NextTypeOK, PTL DEF Spec

-----------------------------------------------------------------------------
(* One worker.  The flag and the pcs of the tasks agree, and only Start     *)
(* makes a task active: it does so when the flag says that none is.         *)

(* Every step keeps flag and tasks in agreement.                            *)
LEMMA NextSingleWorker ==
  TypeOK /\ SingleWorker /\ [Next]_vars => SingleWorker'
<1> SUFFICES ASSUME TypeOK, SingleWorker, [Next]_vars PROVE SingleWorker'
  OBVIOUS
<1> USE DEF TypeOK, SingleWorker, Active, Handling
<1>1. CASE UNCHANGED <<task, processing>>
  BY <1>1
<1>2. ASSUME NEW a \in Actions, Put(a) PROVE SingleWorker'
  BY <1>2 DEF Put
<1>3. ASSUME NEW t \in Actions, Start(t) PROVE SingleWorker'
  <2>1. CASE processing
    <3>1. task' = [task EXCEPT ![t] = "done"] /\ UNCHANGED processing
      BY <1>3, <2>1 DEF Start
    <3>2. task[t] = "ready"
      BY <1>3 DEF Start
    <3> QED
      BY <2>1, <3>1, <3>2
  <2>2. CASE ~processing /\ queue # <<>>
    <3>1. task' = [task EXCEPT ![t] = "fetch"] /\ processing'
      BY <1>3, <2>2 DEF Start, LoopHead
    <3> QED
      BY <2>2, <3>1
  <2>3. CASE ~processing /\ queue = <<>>
    <3>1. task' = [task EXCEPT ![t] = "done"] /\ ~processing'
      BY <1>3, <2>3 DEF Start, LoopHead
    <3> QED
      BY <2>3, <3>1
  <2> QED
    BY <2>1, <2>2, <2>3
<1>4. ASSUME NEW t \in Actions, NextAction(t) PROVE SingleWorker'
  <2>1. processing /\ task[t] \in Active
    BY <1>4 DEF NextAction
  <2>2. CASE queue # <<>>
    <3>1. task' = [task EXCEPT ![t] = "fetch"] /\ processing'
      BY <1>4, <2>1, <2>2 DEF NextAction, LoopHead
    <3> QED
      BY <2>1, <3>1
  <2>3. CASE queue = <<>>
    <3>1. task' = [task EXCEPT ![t] = "done"] /\ ~processing'
      BY <1>4, <2>3 DEF NextAction, LoopHead
    <3> QED
      BY <2>1, <3>1
  <2> QED
    BY <2>2, <2>3
<1>5. ASSUME NEW t \in Actions, NEW pc \in Active,
             task[t] \in Active, Goto(t, pc), UNCHANGED processing
      PROVE  SingleWorker'
  BY <1>5 DEF Goto
<1>6. ASSUME NEW t \in Actions, Die(t) PROVE SingleWorker'
  BY <1>6 DEF Die, Goto
<1>7. CASE Crash
  BY <1>7 DEF Crash
<1>8. ASSUME NEW t \in Actions, Fetch(t) PROVE SingleWorker'
  BY <1>5, <1>8 DEF Fetch
<1>9. ASSUME NEW t \in Actions, Claim(t) PROVE SingleWorker'
  BY <1>5, <1>9 DEF Claim
<1>10. ASSUME NEW t \in Actions, Dispatch(t) PROVE SingleWorker'
  BY <1>5, <1>10 DEF Dispatch
<1>11. ASSUME NEW t \in Actions, NEW r \in Results, HandlerEnds(t, r)
       PROVE  SingleWorker'
  <2>1. r \in HandlerResults
    BY ArgumentsAssumption
  <2> QED
    BY <1>5, <1>11, <2>1 DEF HandlerEnds, HandlerResults
<1>12. ASSUME NEW t \in Actions, Complete(t) \/ Fail(t) PROVE SingleWorker'
  BY <1>5, <1>12 DEF Complete, Fail
<1>13. ASSUME NEW t \in Actions, StatementRaises(t) PROVE SingleWorker'
  BY <1>5, <1>13 DEF StatementRaises
<1>14. ASSUME NEW ty \in Types, RegisterHandler(ty) PROVE SingleWorker'
  BY <1>1, <1>14 DEF RegisterHandler
<1>15. ASSUME NEW a \in Actions, Insert(a) PROVE SingleWorker'
  BY <1>1, <1>15 DEF Insert
<1>16. ASSUME NEW c \in Cancellers,
              CancelWrite(c) \/ \E a \in Actions, u \in Users : CancelRead(c, a, u)
       PROVE  SingleWorker'
  BY <1>1, <1>16 DEF CancelRead, CancelWrite
<1> HIDE DEF SingleWorker
<1> QED
  BY <1>1, <1>2, <1>3, <1>4, <1>6, <1>7, <1>8, <1>9, <1>10, <1>11, <1>12,
     <1>13, <1>14, <1>15, <1>16 DEF Next, TaskStep

(* At every moment at most one task is past the guard of _process_queue,    *)
(* and _processing is TRUE exactly then: enqueue may trust the flag.        *)
THEOREM OneWorker == Spec => []SingleWorker
<1>1. Init => SingleWorker
  BY DEF Init, SingleWorker, Active, Handling
<1> QED
  BY <1>1, TypeCorrect, NextSingleWorker, PTL DEF Spec

-----------------------------------------------------------------------------
(* Custody of the ids: the strengthening that makes RunOnce and             *)
(* CompletedMeansOk inductive.                                              *)

Inv == TypeOK /\ Custody /\ RunOnce /\ CompletedMeansOk
Places == <<queue, cur, call, runs, outcome>>

(* At first nothing is queued, held or done.                                *)
LEMMA InitInv == Init => Inv
<1> SUFFICES ASSUME Init PROVE Custody /\ RunOnce /\ CompletedMeansOk
  BY InitTypeOK DEF Inv
<1>1. Len(queue) = 0
  BY EmptySeq DEF Init
<1>2. QueueCustody
  BY <1>1 DEF QueueCustody
<1>3. TaskCustody
  BY DEF Init, TaskCustody, Handling
<1> QED
  BY <1>2, <1>3 DEF Init, Custody, RunOnce, CompletedMeansOk, Untouched

(* A step that only moves task t on keeps custody if the new pc claims no   *)
(* more than is true of the action the task holds.                          *)
LEMMA MoveKeepsCustody ==
  ASSUME TypeOK, Custody, UNCHANGED Places,
         NEW t \in Actions, NEW pc \in TaskPc, task' = [task EXCEPT ![t] = pc],
         pc \in Handling => cur[t] # Nobody,
         pc \in {"fetch", "claim", "dispatch"} => Untouched(cur[t]),
         pc = "running" => runs[cur[t]] = 1 /\ outcome[cur[t]] = "none",
         pc = "complete" => outcome[cur[t]] = "ok"
  PROVE  Custody'
<1>1. QueueCustody'
  BY DEF Custody, QueueCustody, Untouched, Places
<1>2. ASSUME NEW u \in Actions PROVE task'[u] = IF u = t THEN pc ELSE task[u]
  BY DEF TypeOK
<1>3. TaskCustody'
  BY <1>2 DEF Custody, TaskCustody, Untouched, Places
<1> QED
  BY <1>1, <1>3 DEF Custody, Untouched, Places

(* The head of the loop hands the id at the head of the queue to task t.    *)
LEMMA LoopHeadKeepsCustody ==
  ASSUME Inv, NEW t \in Actions, NEW flag \in BOOLEAN, LoopHead(t, flag),
         UNCHANGED <<call, runs, outcome>>
  PROVE  Custody'
<1> USE DEF Inv
<1>1. CASE queue = <<>>
  BY <1>1, MoveKeepsCustody DEF LoopHead, Places, TaskPc, Handling, Active
<1>2. CASE queue # <<>>
  <2> DEFINE h == Head(queue)
  <2>1. /\ Tail(queue) \in Seq(Actions) /\ h \in Actions
        /\ Len(Tail(queue)) = Len(queue) - 1 /\ Len(queue) \in Nat \ {0}
        /\ \A i \in 1..Len(Tail(queue)) : Tail(queue)[i] = queue[i + 1]
    BY <1>2, HeadTailProperties, EmptySeq DEF TypeOK
  <2>2. h = queue[1] /\ 1 \in 1..Len(queue)
    BY <1>2, <2>1 DEF TypeOK
  <2>3. /\ queue' = Tail(queue) /\ cur' = [cur EXCEPT ![t] = h]
        /\ task' = [task EXCEPT ![t] = "fetch"]
    BY <1>2 DEF LoopHead
  <2>4. /\ \A u \in Actions : cur'[u] = IF u = t THEN h ELSE cur[u]
        /\ \A u \in Actions : task'[u] = IF u = t THEN "fetch" ELSE task[u]
    BY <2>3 DEF TypeOK
  <2>5. /\ call[h] = "done" /\ Untouched(h) /\ \A u \in Actions : cur[u] # h
        /\ \A j \in 1..Len(queue) : queue[j] = h => j = 1
    BY <2>2 DEF Custody, QueueCustody
  <2>6. QueueCustody'
    <3>1. ASSUME NEW i \in 1..Len(queue')
          PROVE  /\ i + 1 \in 1..Len(queue) /\ queue'[i] = queue[i + 1]
                 /\ queue[i + 1] # h
      BY <2>1, <2>2, <2>3, <2>5
    <3>2. ASSUME NEW i \in 1..Len(queue')
          PROVE  /\ call'[queue'[i]] = "done"
                 /\ runs'[queue'[i]] = 0 /\ outcome'[queue'[i]] = "none"
                 /\ \A u \in Actions : cur'[u] # queue'[i]
      <4>1. /\ call[queue[i + 1]] = "done" /\ Untouched(queue[i + 1])
            /\ \A u \in Actions : cur[u] # queue[i + 1]
        BY <3>1 DEF Custody, QueueCustody
      <4> QED
        BY <3>1, <2>4, <4>1 DEF Untouched
    <3>3. ASSUME NEW i \in 1..Len(queue'), NEW j \in 1..Len(queue'),
                 queue'[i] = queue'[j]
          PROVE  i = j
      <4>1. i + 1 = j + 1
        BY <3>1, <3>3 DEF Custody, QueueCustody
      <4> QED
        BY <4>1
    <3> QED
      BY <3>2, <3>3 DEF QueueCustody, Untouched
  <2>7. TaskCustody'
    <3> HIDE DEF h
    <3>1. h # Nobody
      BY <2>1, ArgumentsAssumption
    <3>2. ASSUME NEW u \in Actions, u # t, cur[u] # Nobody
          PROVE  /\ call[cur[u]] = "done"
                 /\ \A w \in Actions : cur[u] = cur[w] => u = w
                 /\ task[u] \in {"fetch", "claim", "dispatch"} => Untouched(cur[u])
                 /\ task[u] = "running" => runs[cur[u]] = 1 /\ outcome[cur[u]] = "none"
                 /\ task[u] = "complete" => outcome[cur[u]] = "ok"
      BY <3>2 DEF Custody, TaskCustody
    <3>3. \A u \in Actions : task[u] \in Handling => cur[u] # Nobody
      BY DEF Custody, TaskCustody
    <3>4. \A u, w \in Actions : cur'[u] = cur'[w] /\ cur'[u] # Nobody => u = w
      BY <2>4, <2>5, <3>2
    <3>5. \A u \in Actions : cur'[u] # Nobody => call'[cur'[u]] = "done"
      BY <2>4, <2>5, <3>2
    <3>6. \A u \in Actions : task'[u] \in Handling => cur'[u] # Nobody
      BY <2>4, <3>1, <3>3
    <3>7. ASSUME NEW u \in Actions, cur'[u] # Nobody
          PROVE  /\ task'[u] \in {"fetch", "claim", "dispatch"} => Untouched(cur'[u])
                 /\ task'[u] = "running" => runs[cur'[u]] = 1 /\ outcome[cur'[u]] = "none"
                 /\ task'[u] = "complete" => outcome[cur'[u]] = "ok"
      BY <2>4, <2>5, <3>2, <3>7
    <3> QED
      BY <3>4, <3>5, <3>6, <3>7 DEF TaskCustody, Untouched
  <2> QED
    BY <2>6, <2>7 DEF Custody, Untouched
<1> QED
  BY <1>1, <1>2

(* put appends an id that is nowhere else.                                  *)
LEMMA PutKeepsCustody ==
  ASSUME Inv, NEW a \in Actions, Put(a)
  PROVE  Custody'
<1> USE DEF Inv
<1>1. /\ Untouched(a) /\ call[a] = "inserted"
      /\ call' = [call EXCEPT ![a] = "done"] /\ queue' = Append(queue, a)
      /\ UNCHANGED <<cur, runs, outcome>>
  BY DEF Put, Custody
<1>2. /\ Len(queue) \in Nat /\ Len(queue') = Len(queue) + 1
      /\ queue'[Len(queue) + 1] = a
      /\ \A i \in 1..Len(queue) : queue'[i] = queue[i] /\ queue[i] \in Actions
  BY <1>1, LenProperties DEF TypeOK
<1>3. \A i \in 1..Len(queue) : queue[i] # a
  BY <1>1 DEF Custody, QueueCustody
<1>4. \A u \in Actions : cur[u] # a
  BY <1>1, ArgumentsAssumption DEF Custody, TaskCustody, TypeOK
<1>5. \A b \in Actions : call'[b] = IF b = a THEN "done" ELSE call[b]
  BY <1>1 DEF TypeOK
<1>6. QueueCustody'
  <2>1. ASSUME NEW i \in 1..Len(queue')
        PROVE  \/ i \in 1..Len(queue) /\ queue'[i] = queue[i]
               \/ i = Len(queue) + 1 /\ queue'[i] = a
    BY <1>2
  <2>2. ASSUME NEW i \in 1..Len(queue')
        PROVE  /\ call'[queue'[i]] = "done"
               /\ runs[queue'[i]] = 0 /\ outcome[queue'[i]] = "none"
               /\ \A u \in Actions : cur[u] # queue'[i]
    BY <2>1, <1>1, <1>2, <1>4, <1>5 DEF Custody, QueueCustody, Untouched
  <2>3. ASSUME NEW i \in 1..Len(queue'), NEW j \in 1..Len(queue'),
               queue'[i] = queue'[j]
        PROVE  i = j
    <3>1. CASE i \in 1..Len(queue) /\ j \in 1..Len(queue)
      BY <2>3, <3>1, <1>2 DEF Custody, QueueCustody
    <3> QED
      BY <2>1, <2>3, <3>1, <1>3
  <2> QED
    BY <1>1, <2>2, <2>3 DEF QueueCustody, Untouched
<1>7. TaskCustody'
  <2>1. \/ UNCHANGED task
        \/ task' = [task EXCEPT ![a] = "ready"]
    BY DEF Put
  <2>2. \A u \in Actions : task'[u] = task[u] \/ task'[u] = "ready"
    BY <2>1 DEF TypeOK
  <2>3. \A u \in Actions : cur[u] # Nobody => call'[cur[u]] = "done"
    BY <1>4, <1>5 DEF Custody, TaskCustody, TypeOK
  <2> QED
    BY <1>1, <2>2, <2>3 DEF Custody, TaskCustody, Untouched, Handling
<1>8. \A b \in Actions : call'[b] \in {"idle", "inserted"} => Untouched(b)
  BY <1>5 DEF Custody
<1> QED
  BY <1>1, <1>6, <1>7, <1>8 DEF Custody, Untouched

(* The two steps around the handler touch the action of one task only.      *)
LEMMA EffectKeepsCustody ==
  ASSUME Inv, NEW t \in Actions, NEW pc \in TaskPc,
         NEW n \in Nat, NEW o \in {"none", "ok", "error"},
         task[t] \in {"dispatch", "running"}, pc \notin {"fetch", "claim", "dispatch"},
         runs' = [runs EXCEPT ![cur[t]] = n],
         outcome' = [outcome EXCEPT ![cur[t]] = o],
         task' = [task EXCEPT ![t] = pc], UNCHANGED <<queue, cur, call>>,
         pc = "running" => n = 1 /\ o = "none",
         pc = "complete" => o = "ok"
  PROVE  Custody'
<1> USE DEF Inv
<1>1. /\ cur[t] \in Actions /\ call[cur[t]] = "done"
      /\ \A u \in Actions : cur[t] = cur[u] => t = u
  BY DEF Custody, TaskCustody, TypeOK, Handling
<1>2. \A i \in 1..Len(queue) : queue[i] # cur[t]
  BY DEF Custody, QueueCustody
<1>3. /\ \A b : b # cur[t] /\ b \in Actions => runs'[b] = runs[b] /\ outcome'[b] = outcome[b]
      /\ runs'[cur[t]] = n /\ outcome'[cur[t]] = o
  BY <1>1 DEF TypeOK
<1>4. QueueCustody'
  <2>1. \A i \in 1..Len(queue) : queue[i] \in Actions
    BY LenProperties DEF TypeOK
  <2> QED
    BY <1>2, <1>3, <2>1 DEF Custody, QueueCustody, Untouched
<1>5. TaskCustody'
  <2>1. \A u \in Actions : task'[u] = IF u = t THEN pc ELSE task[u]
    BY DEF TypeOK
  <2>2. \A u \in Actions : u # t => cur[u] # cur[t]
    BY <1>1
  <2>3. \A u \in Actions : cur[u] # Nobody => cur[u] \in Actions
    BY DEF TypeOK
  <2>4. cur[t] # Nobody
    BY <1>1, ArgumentsAssumption
  <2> QED
    BY <1>1, <1>3, <2>1, <2>2, <2>3, <2>4 DEF Custody, TaskCustody, Untouched
<1>6. \A b \in Actions : call[b] \in {"idle", "inserted"} => b # cur[t]
  BY <1>1
<1> QED
  BY <1>3, <1>4, <1>5, <1>6 DEF Custody, Untouched

(* Every step keeps the custody of the ids and what rests on it: one        *)
(* invocation, and COMPLETED for a handler that returned.                   *)
LEMMA NextInv == Inv /\ [Next]_vars => Inv'
<1> SUFFICES ASSUME Inv, [Next]_vars
             PROVE  Custody' /\ RunOnce' /\ CompletedMeansOk'
  BY NextTypeOK DEF Inv
<1> USE DEF Inv
<1>a. ASSUME UNCHANGED <<Places, task>> PROVE Custody'
  BY <1>a DEF Places, Custody, QueueCustody, TaskCustody, Untouched
<1>b. ASSUME UNCHANGED <<runs, outcome>>,
             \A a \in Actions : status'[a] = "COMPLETED" =>
               status[a] = "COMPLETED" \/ outcome[a] = "ok"
      PROVE  RunOnce' /\ CompletedMeansOk'
  BY <1>b DEF RunOnce, CompletedMeansOk
<1>c. \A t \in Actions : task[t] \in Handling => cur[t] \in Actions
  BY DEF Custody, TaskCustody, TypeOK
<1> HIDE DEF Inv
<1>1. CASE UNCHANGED vars
  BY <1>1, <1>a, <1>b DEF Places
<1>2. ASSUME NEW ty \in Types, RegisterHandler(ty)
      PROVE  Custody' /\ RunOnce' /\ CompletedMeansOk'
  BY <1>2, <1>a, <1>b DEF RegisterHandler, Places
<1>3. ASSUME NEW a \in Actions, Insert(a)
      PROVE  Custody' /\ RunOnce' /\ CompletedMeansOk'
  <2>1. /\ status' = [status EXCEPT ![a] = "QUEUED"]
        /\ call' = [call EXCEPT ![a] = "inserted"] /\ call[a] = "idle"
        /\ UNCHANGED <<queue, cur, task, runs, outcome>>
    BY <1>3 DEF Insert
  <2>2. \A b \in Actions : status'[b] = "COMPLETED" => status[b] = "COMPLETED"
    BY <2>1 DEF Inv, TypeOK
  <2>3. \A b \in Actions : IF b = a THEN call'[b] = "inserted" ELSE call'[b] = call[b]
    BY <2>1 DEF Inv, TypeOK
  <2>4. QueueCustody'
    BY <2>1, <2>3, LenProperties DEF Inv, TypeOK, Custody, QueueCustody, Untouched
  <2>5. TaskCustody'
    BY <2>1, <2>3 DEF Inv, TypeOK, Custody, TaskCustody, Untouched
  <2>6. \A b \in Actions : call'[b] \in {"idle", "inserted"} => Untouched(b)
    BY <2>1, <2>3 DEF Inv, Custody
  <2> QED
    BY <2>1, <2>2, <2>4, <2>5, <2>6, <1>b DEF Custody, Untouched
<1>4. ASSUME NEW a \in Actions, Put(a)
      PROVE  Custody' /\ RunOnce' /\ CompletedMeansOk'
  BY <1>4, <1>b, PutKeepsCustody DEF Put
<1>5. ASSUME NEW t \in Actions, Start(t) \/ NextAction(t)
      PROVE  Custody' /\ RunOnce' /\ CompletedMeansOk'
  <2>1. UNCHANGED <<status, call, runs, outcome>>
    BY <1>5 DEF Start, NextAction
  <2>2. CASE \E flag \in BOOLEAN : LoopHead(t, flag)
    BY <2>1, <2>2, <1>b, LoopHeadKeepsCustody
  <2>3. CASE task' = [task EXCEPT ![t] = "done"] /\ UNCHANGED <<queue, cur>>
    BY <2>1, <2>3, <1>b, MoveKeepsCustody
       DEF Inv, Places, TaskPc, Active, Handling
  <2> QED
    BY <1>5, <2>2, <2>3 DEF Start, NextAction, Inv, TypeOK
<1>6. ASSUME NEW t \in Actions, Fetch(t)
      PROVE  Custody' /\ RunOnce' /\ CompletedMeansOk'
  <2>1. /\ task[t] = "fetch" /\ UNCHANGED <<Places, status>>
        /\ \E pc \in {"raise", "claim", "next"} : task' = [task EXCEPT ![t] = pc]
    BY <1>6 DEF Fetch, Goto, Places
  <2>2. cur[t] # Nobody /\ Untouched(cur[t])
    BY <2>1 DEF Inv, Custody, TaskCustody, Handling
  <2> QED
    BY <2>1, <2>2, <1>b, MoveKeepsCustody DEF Inv, Places, TaskPc, Active, Handling
<1>7. ASSUME NEW t \in Actions, Claim(t)
      PROVE  Custody' /\ RunOnce' /\ CompletedMeansOk'
  <2>1. /\ task[t] = "claim" /\ UNCHANGED Places
        /\ task' = [task EXCEPT ![t] = "dispatch"]
        /\ \A b \in Actions : status'[b] = "COMPLETED" => status[b] = "COMPLETED"
    BY <1>7, <1>c DEF Claim, Update, Goto, Places, Inv, TypeOK, Handling
  <2>2. cur[t] # Nobody /\ Untouched(cur[t])
    BY <2>1 DEF Inv, Custody, TaskCustody, Handling
  <2> QED
    BY <2>1, <2>2, <1>b, MoveKeepsCustody DEF Inv, Places, TaskPc, Active, Handling
<1>8. ASSUME NEW t \in Actions, Dispatch(t)
      PROVE  Custody' /\ RunOnce' /\ CompletedMeansOk'
  <2>1. task[t] = "dispatch" /\ UNCHANGED <<queue, cur, call, outcome, status>>
    BY <1>8 DEF Dispatch, Goto
  <2>2. cur[t] \in Actions /\ Untouched(cur[t])
    BY <2>1, <1>c, ArgumentsAssumption DEF Inv, Custody, TaskCustody, Handling
  <2>3. CASE UNCHANGED runs /\ task' = [task EXCEPT ![t] = "fail"]
    BY <2>1, <2>2, <2>3, <1>b, MoveKeepsCustody, ArgumentsAssumption
       DEF Inv, Places, TaskPc, Active, Handling
  <2>4. CASE /\ runs' = [runs EXCEPT ![cur[t]] = @ + 1]
             /\ task' = [task EXCEPT ![t] = "running"]
    <3>1. runs' = [runs EXCEPT ![cur[t]] = 1]
      BY <2>2, <2>4 DEF Untouched, Inv, TypeOK
    <3>2. outcome' = [outcome EXCEPT ![cur[t]] = "none"]
      BY <2>1, <2>2 DEF Untouched, Inv, TypeOK
    <3>3. Custody'
      BY <3>1, <3>2, <2>1, <2>4, EffectKeepsCustody DEF TaskPc, Active, Handling
    <3>4. RunOnce' /\ CompletedMeansOk'
      BY <3>1, <2>1, <2>2 DEF Inv, TypeOK, RunOnce, CompletedMeansOk
    <3> QED
      BY <3>3, <3>4
  <2> QED
    BY <1>8, <2>3, <2>4 DEF Dispatch, Goto
<1>9. ASSUME NEW t \in Actions, NEW r \in Results, HandlerEnds(t, r)
      PROVE  Custody' /\ RunOnce' /\ CompletedMeansOk'
  <2> DEFINE o == IF r = "ok" THEN "ok" ELSE "error"
  <2>0. r \in {"ok", "error", "silent"}
    BY ArgumentsAssumption DEF HandlerResults
  <2>1. /\ task[t] = "running" /\ UNCHANGED <<queue, cur, call, runs, status>>
        /\ outcome' = [outcome EXCEPT ![cur[t]] = o]
        /\ \/ r = "ok" /\ task' = [task EXCEPT ![t] = "complete"]
           \/ r = "error" /\ task' = [task EXCEPT ![t] = "fail"]
           \/ r = "silent" /\ task' = [task EXCEPT ![t] = "raise"]
    BY <1>9, <2>0 DEF HandlerEnds, Goto
  <2>2. cur[t] \in Actions /\ runs[cur[t]] = 1 /\ outcome[cur[t]] = "none"
    BY <2>1, <1>c, ArgumentsAssumption DEF Inv, Custody, TaskCustody, Handling
  <2>3. runs' = [runs EXCEPT ![cur[t]] = 1]
    BY <2>1, <2>2 DEF Inv, TypeOK
  <2>4. Custody'
    BY <2>1, <2>3, EffectKeepsCustody DEF TaskPc, Active, Handling
  <2>5. RunOnce' /\ CompletedMeansOk'
    BY <2>1, <2>2 DEF Inv, TypeOK, RunOnce, CompletedMeansOk
  <2> QED
    BY <2>4, <2>5
<1>10. ASSUME NEW t \in Actions, Complete(t)
       PROVE  Custody' /\ RunOnce' /\ CompletedMeansOk'
  <2>1. /\ task[t] = "complete" /\ UNCHANGED Places
        /\ task' = [task EXCEPT ![t] = "next"]
        /\ \A b \in Actions :
             status'[b] = "COMPLETED" => status[b] = "COMPLETED" \/ b = cur[t]
    BY <1>10, <1>c DEF Complete, Update, Goto, Places, Inv, TypeOK, Handling
  <2>2. cur[t] # Nobody /\ outcome[cur[t]] = "ok"
    BY <2>1 DEF Inv, Custody, TaskCustody, Handling
  <2> QED
    BY <2>1, <2>2, <1>b, MoveKeepsCustody DEF Inv, Places, TaskPc, Active, Handling
<1>11. ASSUME NEW t \in Actions, Fail(t)
       PROVE  Custody' /\ RunOnce' /\ CompletedMeansOk'
  <2>1. /\ UNCHANGED Places /\ task' = [task EXCEPT ![t] = "next"]
        /\ \A b \in Actions : status'[b] = "COMPLETED" => status[b] = "COMPLETED"
    BY <1>11, <1>c DEF Fail, Update, Goto, Places, Inv, TypeOK, Handling
  <2> QED
    BY <2>1, <1>b, MoveKeepsCustody DEF Inv, Places, TaskPc, Active, Handling
<1>12. ASSUME NEW t \in Actions, StatementRaises(t) \/ Die(t)
       PROVE  Custody' /\ RunOnce' /\ CompletedMeansOk'
  <2>1. /\ UNCHANGED <<Places, status>>
        /\ \/ \E pc \in {"raise", "dead"} : task' = [task EXCEPT ![t] = pc]
           \/ task[t] = "complete" /\ task' = [task EXCEPT ![t] = "fail"]
    BY <1>12 DEF StatementRaises, Die, Goto, Places
  <2>2. task[t] = "complete" => cur[t] # Nobody
    BY DEF Inv, Custody, TaskCustody, Handling
  <2> QED
    BY <2>1, <2>2, <1>b, MoveKeepsCustody DEF Inv, Places, TaskPc, Active, Handling
<1>13. ASSUME NEW c \in Cancellers, NEW a \in Actions, NEW u \in Users,
              CancelRead(c, a, u)
       PROVE  Custody' /\ RunOnce' /\ CompletedMeansOk'
  BY <1>13, <1>a, <1>b DEF CancelRead, Places
<1>14. ASSUME NEW c \in Cancellers, CancelWrite(c)
       PROVE  Custody' /\ RunOnce' /\ CompletedMeansOk'
  <2>1. UNCHANGED <<Places, task>>
    BY <1>14 DEF CancelWrite, Places
  <2>2. \A b \in Actions : status'[b] = "COMPLETED" => status[b] = "COMPLETED"
    BY <1>14 DEF CancelWrite, Update, Inv, TypeOK
  <2> QED
    BY <2>1, <2>2, <1>a, <1>b DEF Places
<1>15. CASE Crash
  <2>1. Len(queue') = 0
    BY <1>15, EmptySeq DEF Crash
  <2>2. QueueCustody'
    BY <2>1 DEF QueueCustody
  <2>3. TaskCustody'
    BY <1>15 DEF Crash, TaskCustody, Handling
  <2> QED
    BY <1>15, <2>2, <2>3, <1>b DEF Crash, Custody, Untouched, Inv
<1> QED
  BY <1>1, <1>2, <1>3, <1>4, <1>5, <1>6, <1>7, <1>8, <1>9, <1>10, <1>11,
     <1>12, <1>13, <1>14, <1>15 DEF Next, TaskStep

(* The handler of an action is invoked at most once, however cancellations, *)
(* raising statements, dying workers and restarts interleave.               *)
THEOREM AtMostOnce == Spec => []RunOnce
<1>1. Inv => RunOnce
  BY DEF Inv
<1> QED
  BY <1>1, InitInv, NextInv, PTL DEF Spec

(* A row never says COMPLETED unless its handler returned normally.         *)
THEOREM CompletedIsTrue == Spec => []CompletedMeansOk
<1>1. Inv => CompletedMeansOk
  BY DEF Inv
<1> QED
  BY <1>1, InitInv, NextInv, PTL DEF Spec

(* No id is ever in two hands.                                              *)
THEOREM OneHolder == Spec => []Custody
<1>1. Inv => Custody
  BY DEF Inv
<1> QED
  BY <1>1, InitInv, NextInv, PTL DEF Spec

-----------------------------------------------------------------------------
(* Wake-ups.                                                                *)

(* A step that leaves ids in the queue leaves a worker, a task to come or a *)
(* dead one.                                                                *)
LEMMA NextNoLostWakeup ==
  TypeOK /\ SingleWorker /\ NoLostWakeup /\ [Next]_vars => NoLostWakeup'
<1> SUFFICES ASSUME TypeOK, SingleWorker, NoLostWakeup, [Next]_vars,
                    queue' # <<>>
             PROVE  processing' \/ \E t \in Actions : task'[t] \in {"ready", "dead"}
  BY DEF NoLostWakeup
<1> DEFINE Goal == processing' \/ \E t \in Actions : task'[t] \in {"ready", "dead"}
<1>a. ASSUME UNCHANGED <<queue, processing>>,
             \A t \in Actions : task[t] \in {"ready", "dead"} => task'[t] = task[t]
      PROVE  Goal
  BY <1>a DEF NoLostWakeup
<1>1. CASE UNCHANGED vars
  BY <1>1, <1>a
<1>2. ASSUME NEW a \in Actions, Put(a) PROVE Goal
  BY <1>2 DEF Put, TypeOK
<1>3. ASSUME NEW t \in Actions, NEW flag \in BOOLEAN, LoopHead(t, flag)
      PROVE  flag => processing'
  BY <1>3 DEF LoopHead
<1>4. ASSUME NEW t \in Actions, Start(t) PROVE Goal
  <2>1. CASE processing /\ UNCHANGED processing
    BY <2>1
  <2>2. CASE LoopHead(t, TRUE)
    BY <1>3, <2>2
  <2> QED
    BY <1>4, <2>1, <2>2 DEF Start
<1>5. ASSUME NEW t \in Actions, NextAction(t) PROVE Goal
  <2>1. processing
    BY <1>5 DEF NextAction, SingleWorker, Active
  <2> QED
    BY <1>3, <1>5, <2>1 DEF NextAction
<1>6. ASSUME NEW t \in Actions, Die(t) PROVE Goal
  BY <1>6 DEF Die, Goto, TypeOK
<1>7. CASE Crash
  BY <1>7 DEF Crash
<1>8. ASSUME NEW t \in Actions, Fetch(t) \/ StatementRaises(t) PROVE Goal
  <2>1. /\ UNCHANGED <<queue, processing>> /\ task[t] \notin {"ready", "dead"}
        /\ \E pc \in TaskPc : Goto(t, pc)
    BY <1>8 DEF Fetch, StatementRaises, TaskPc, Active, Handling
  <2> QED
    BY <2>1, <1>a DEF Goto, TypeOK
<1>9. ASSUME NEW t \in Actions, Claim(t) \/ Dispatch(t) \/ Complete(t) \/ Fail(t)
      PROVE  Goal
  <2>1. /\ UNCHANGED <<queue, processing>> /\ task[t] \notin {"ready", "dead"}
        /\ \E pc \in TaskPc : Goto(t, pc)
    BY <1>9 DEF Claim, Dispatch, Complete, Fail, TaskPc, Active, Handling
  <2> QED
    BY <2>1, <1>a DEF Goto, TypeOK
<1>10. ASSUME NEW t \in Actions, NEW r \in Results, HandlerEnds(t, r) PROVE Goal
  <2>1. /\ UNCHANGED <<queue, processing>> /\ task[t] = "running"
        /\ \E pc : task' = [task EXCEPT ![t] = pc]
    BY <1>10 DEF HandlerEnds, Goto
  <2> QED
    BY <2>1, <1>a DEF TypeOK
<1>11. ASSUME NEW ty \in Types, RegisterHandler(ty) PROVE Goal
  BY <1>11, <1>a DEF RegisterHandler
<1>12. ASSUME NEW a \in Actions, Insert(a) PROVE Goal
  BY <1>12, <1>a DEF Insert
<1>13. ASSUME NEW c \in Cancellers,
              CancelWrite(c) \/ \E a \in Actions, u \in Users : CancelRead(c, a, u)
       PROVE  Goal
  BY <1>13, <1>a DEF CancelRead, CancelWrite
<1> QED
  BY <1>1, <1>2, <1>4, <1>5, <1>6, <1>7, <1>8, <1>9, <1>10, <1>11, <1>12, <1>13
     DEF Next, TaskStep

(* Ids never wait in the queue with nobody to take them, unless a worker    *)
(* task died of an exception: the flag test of enqueue loses no wake-up.    *)
THEOREM WakeupsAreKept == Spec => []NoLostWakeup
<1>1. Init => NoLostWakeup
  BY DEF Init, NoLostWakeup
<1> QED
  BY <1>1, TypeCorrect, OneWorker, NextNoLostWakeup, PTL DEF Spec
=============================================================================
