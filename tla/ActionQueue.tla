---------------------------- MODULE ActionQueue ----------------------------
(***************************************************************************)
(* ActionQueueService: a table action_queue, an asyncio.Queue of row ids   *)
(* in memory, and tasks running _process_queue on one event loop.          *)
(*                                                                         *)
(* Code between two awaits is one atomic step.  A db call is a step of its *)
(* own: its statement takes effect in the connection's thread, and the     *)
(* coroutine resumes later, in the next step.  An action stands for one    *)
(* enqueue call and for the row id that call obtains; the task an enqueue  *)
(* call creates is named by that action too, since a call creates at most  *)
(* one.  Nothing commits the connection's transaction, so a crash or a     *)
(* disconnect rolls every row back (Crash).                                *)
(***************************************************************************)
EXTENDS Naturals, Sequences

CONSTANTS
  Actions,        \* the enqueue calls, and the row ids they obtain
  Users,          \* user ids
  Types,          \* action types
  Owner,          \* Owner[a]: the user_id argument of call a
  TypeOf,         \* TypeOf[a]: its action_type argument
  BadPayload,     \* calls whose str(payload) does not eval back
  Cancellers,     \* tasks that call cancel_action
  Results,        \* how a handler may end, among HandlerResults
  DbFaults,       \* may a statement raise (locked, not connected)?
  Crashes,        \* may the process stop and restart?
  Nobody          \* no action

HandlerResults == {"ok", "error", "silent"}  \* "silent": str(e) = ""

ASSUME ArgumentsAssumption ==
  /\ Owner \in [Actions -> Users]
  /\ TypeOf \in [Actions -> Types]
  /\ BadPayload \subseteq Actions /\ Nobody \notin Actions
  /\ Results \subseteq HandlerResults
  /\ DbFaults \in BOOLEAN
  /\ Crashes \in BOOLEAN

VARIABLES
  status,      \* action_queue.status of the row, "none" if there is no row
  queue,       \* self._queue
  processing,  \* self._processing
  handlers,    \* the action types in self._handlers
  call,        \* progress of each enqueue call
  task,        \* progress of the task that call created
  cur,         \* the action_id held by a task
  cancelling,  \* the action whose checks a cancel_action call has passed
  runs,        \* history: invocations of the handler for an action
  outcome,     \* history: how the handler ended
  cancelled    \* history: actions some cancel_action returned True for

rowVars == <<status>>
memVars == <<queue, processing, handlers>>
taskVars == <<task, cur>>
cancelVars == <<cancelling, cancelled>>
histVars == <<runs, outcome>>
vars == <<rowVars, memVars, call, taskVars, cancelVars, histVars>>

Settled == {"COMPLETED", "FAILED"}
Handling == {"fetch", "claim", "dispatch", "running", "complete", "fail"}
Active == Handling \cup {"next", "raise"}    \* past the _processing guard
TaskPc == Active \cup {"none", "ready", "done", "dead"}

Init ==
  /\ status = [a \in Actions |-> "none"]
  /\ queue = <<>>
  /\ processing = FALSE
  /\ handlers = {}
  /\ call = [a \in Actions |-> "idle"]
  /\ task = [a \in Actions |-> "none"]
  /\ cur = [a \in Actions |-> Nobody]
  /\ cancelling = [c \in Cancellers |-> Nobody]
  /\ runs = [a \in Actions |-> 0]
  /\ outcome = [a \in Actions |-> "none"]
  /\ cancelled = {}

RegisterHandler(t) ==
  /\ t \notin handlers
  /\ handlers' = handlers \cup {t}
  /\ UNCHANGED <<rowVars, queue, processing, call, taskVars, cancelVars,
                 histVars>>

-----------------------------------------------------------------------------
(* enqueue: the INSERT, then everything after it up to the return.          *)

Insert(a) ==
  /\ call[a] = "idle"
  /\ status' = [status EXCEPT ![a] = "QUEUED"]
  /\ call' = [call EXCEPT ![a] = "inserted"]
  /\ UNCHANGED <<memVars, taskVars, cancelVars, histVars>>

Put(a) ==
  /\ call[a] = "inserted"
  /\ queue' = Append(queue, a)
  /\ task' = IF processing THEN task ELSE [task EXCEPT ![a] = "ready"]
  /\ call' = [call EXCEPT ![a] = "done"]
  /\ UNCHANGED <<rowVars, processing, handlers, cur, cancelVars, histVars>>

-----------------------------------------------------------------------------
(* The worker task.                                                         *)

(* The head of the while loop: the test, get and the call of                *)
(* _execute_action, or the finally clause, happen without suspending.       *)
LoopHead(t, flag) ==
  \/ /\ queue # <<>>
     /\ cur' = [cur EXCEPT ![t] = Head(queue)]
     /\ queue' = Tail(queue)
     /\ processing' = flag
     /\ task' = [task EXCEPT ![t] = "fetch"]
  \/ /\ queue = <<>>
     /\ processing' = FALSE
     /\ task' = [task EXCEPT ![t] = "done"]
     /\ UNCHANGED <<queue, cur>>

(* Mutant: the task does not test _processing.                              *)
StartUnguarded(t) ==
  /\ task[t] = "ready"
  /\ LoopHead(t, TRUE)
  /\ UNCHANGED <<rowVars, handlers, call, cancelVars, histVars>>

Start(t) ==
  /\ task[t] = "ready"
  /\ \/ /\ processing
        /\ task' = [task EXCEPT ![t] = "done"]
        /\ UNCHANGED <<queue, processing, cur>>
     \/ ~processing /\ LoopHead(t, TRUE)
  /\ UNCHANGED <<rowVars, handlers, call, cancelVars, histVars>>

(* Mutant: "if" instead of "while", the task ends after one action.         *)
OneAction(t) ==
  /\ task[t] = "next"
  /\ processing' = FALSE
  /\ task' = [task EXCEPT ![t] = "done"]
  /\ UNCHANGED <<rowVars, queue, handlers, call, cur, cancelVars, histVars>>

NextAction(t) ==
  /\ task[t] = "next"
  /\ LoopHead(t, processing)
  /\ UNCHANGED <<rowVars, handlers, call, cancelVars, histVars>>

(* Only the pc of task t changes, besides what the step says.               *)
Goto(t, pc) == task' = [task EXCEPT ![t] = pc] /\ UNCHANGED cur

(* Mutant: runs the action without marking it EXECUTING.                    *)
FetchUnclaimed(t) ==
  /\ task[t] = "fetch"
  /\ Goto(t, IF status[cur[t]] = "QUEUED" THEN "dispatch" ELSE "next")
  /\ UNCHANGED <<rowVars, memVars, call, cancelVars, histVars>>

(* get_status in _execute_action: the SELECT, and what its row decides.     *)
Fetch(t) ==
  /\ task[t] = "fetch"
  /\ \/ cur[t] \in BadPayload /\ status[cur[t]] # "none" /\ Goto(t, "raise")
     \/ /\ cur[t] \notin BadPayload \/ status[cur[t]] = "none"
        /\ Goto(t, IF status[cur[t]] = "QUEUED" THEN "claim" ELSE "next")
  /\ UNCHANGED <<rowVars, memVars, call, cancelVars, histVars>>

(* _update_status: an unconditional UPDATE ... WHERE id = ?.                *)
Update(a, s) ==
  status' = IF status[a] = "none" THEN status ELSE [status EXCEPT ![a] = s]

Claim(t) ==
  /\ task[t] = "claim"
  /\ Update(cur[t], "EXECUTING")
  /\ Goto(t, "dispatch")
  /\ UNCHANGED <<memVars, call, cancelVars, histVars>>

(* Mutant: a missing handler does not return early.                         *)
DispatchFallsThrough(t) ==
  /\ task[t] = "dispatch"
  /\ Goto(t, IF TypeOf[cur[t]] \in handlers THEN "running" ELSE "complete")
  /\ UNCHANGED <<rowVars, memVars, call, cancelVars, histVars>>

Dispatch(t) ==
  /\ task[t] = "dispatch"
  /\ \/ /\ TypeOf[cur[t]] \in handlers
        /\ runs' = [runs EXCEPT ![cur[t]] = @ + 1]
        /\ Goto(t, "running")
     \/ /\ TypeOf[cur[t]] \notin handlers
        /\ Goto(t, "fail")
        /\ UNCHANGED runs
  /\ UNCHANGED <<rowVars, memVars, call, cancelVars, outcome>>

(* Mutant: a failed action is retried.                                      *)
HandlerRetried(t, r) ==
  /\ task[t] = "running"
  /\ outcome' = [outcome EXCEPT ![cur[t]] = IF r = "ok" THEN "ok" ELSE "error"]
  /\ Goto(t, IF r = "ok" THEN "complete" ELSE "dispatch")
  /\ UNCHANGED <<rowVars, memVars, call, cancelVars, runs>>

(* The handler returns or raises.  An exception with an empty message makes *)
(* _update_status build a statement with fewer placeholders than            *)
(* parameters, so the UPDATE of the except clause raises in its turn.       *)
HandlerEnds(t, r) ==
  /\ task[t] = "running"
  /\ outcome' = [outcome EXCEPT ![cur[t]] = IF r = "ok" THEN "ok" ELSE "error"]
  /\ Goto(t, CASE r = "ok" -> "complete"
               [] r = "error" -> "fail"
               [] r = "silent" -> "raise")
  /\ UNCHANGED <<rowVars, memVars, call, cancelVars, runs>>

(* Mutant: the rest of the try block may still raise.                       *)
CompleteThenFail(t) ==
  /\ task[t] = "complete"
  /\ Update(cur[t], "COMPLETED")
  /\ Goto(t, "fail")
  /\ UNCHANGED <<memVars, call, cancelVars, histVars>>

Complete(t) ==
  /\ task[t] = "complete"
  /\ Update(cur[t], "COMPLETED")
  /\ Goto(t, "next")
  /\ UNCHANGED <<memVars, call, cancelVars, histVars>>

(* Mutant: the failure is logged, not stored.                               *)
FailUnrecorded(t) ==
  /\ task[t] = "fail"
  /\ Goto(t, "next")
  /\ UNCHANGED <<rowVars, memVars, call, cancelVars, histVars>>

Fail(t) ==
  /\ task[t] = "fail"
  /\ Update(cur[t], "FAILED")
  /\ Goto(t, "next")
  /\ UNCHANGED <<memVars, call, cancelVars, histVars>>

(* A statement raises and changes nothing.  The UPDATE to COMPLETED stands  *)
(* inside the try, so its failure leads to the UPDATE to FAILED.            *)
StatementRaises(t) ==
  /\ DbFaults
  /\ \/ task[t] \in {"fetch", "claim", "fail"} /\ Goto(t, "raise")
     \/ task[t] = "complete" /\ Goto(t, "fail")
  /\ UNCHANGED <<rowVars, memVars, call, cancelVars, histVars>>

(* An exception leaves _process_queue through its finally clause.           *)
Die(t) ==
  /\ task[t] = "raise"
  /\ processing' = FALSE
  /\ Goto(t, "dead")
  /\ UNCHANGED <<rowVars, queue, handlers, call, cancelVars, histVars>>

-----------------------------------------------------------------------------
(* cancel_action: get_status and its checks, then the UPDATE.               *)

CancelRead(c, a, u) ==
  /\ cancelling[c] = Nobody
  /\ status[a] = "QUEUED" /\ a \notin BadPayload /\ Owner[a] = u
  /\ cancelling' = [cancelling EXCEPT ![c] = a]
  /\ UNCHANGED <<rowVars, memVars, call, taskVars, histVars, cancelled>>

CancelWrite(c) ==
  /\ cancelling[c] # Nobody
  /\ \/ /\ Update(cancelling[c], "FAILED")
        /\ cancelled' = cancelled \cup {cancelling[c]}
     \/ DbFaults /\ UNCHANGED <<status, cancelled>>
  /\ cancelling' = [cancelling EXCEPT ![c] = Nobody]
  /\ UNCHANGED <<memVars, call, taskVars, histVars>>

-----------------------------------------------------------------------------
(* The process stops: the connection's open transaction is rolled back and  *)
(* everything in memory is gone.  What handlers did in the world remains.   *)
Crash ==
  /\ Crashes
  /\ \E a \in Actions : call[a] \in {"inserted", "done"}
  /\ status' = [a \in Actions |-> "none"]
  /\ queue' = <<>>
  /\ processing' = FALSE
  /\ handlers' = {}
  /\ call' = [a \in Actions |-> IF call[a] = "idle" THEN "idle" ELSE "lost"]
  /\ task' = [a \in Actions |-> "none"]
  /\ cur' = [a \in Actions |-> Nobody]
  /\ cancelling' = [c \in Cancellers |-> Nobody]
  /\ UNCHANGED <<histVars, cancelled>>

TaskStep(t) ==
  \/ Start(t) \/ NextAction(t) \/ Fetch(t) \/ Claim(t) \/ Dispatch(t)
  \/ \E r \in Results : HandlerEnds(t, r)
  \/ Complete(t) \/ Fail(t) \/ Die(t)

Next ==
  \/ \E ty \in Types : RegisterHandler(ty)
  \/ \E a \in Actions : Insert(a) \/ Put(a) \/ TaskStep(a) \/ StatementRaises(a)
  \/ \E c \in Cancellers :
       CancelWrite(c) \/ \E a \in Actions, u \in Users : CancelRead(c, a, u)
  \/ Crash

Spec == Init /\ [][Next]_vars

(* The event loop runs every ready coroutine, the connection's thread       *)
(* answers every statement, and a handler ends.  Nobody is obliged to call  *)
(* enqueue, cancel_action or register_handler.                              *)
FairSpec ==
  Spec /\ \A a \in Actions : WF_vars(Put(a)) /\ WF_vars(TaskStep(a))

-----------------------------------------------------------------------------
TypeOK ==
  /\ status \in [Actions -> Settled \cup {"none", "QUEUED", "EXECUTING"}]
  /\ queue \in Seq(Actions)
  /\ processing \in BOOLEAN
  /\ handlers \subseteq Types
  /\ call \in [Actions -> {"idle", "inserted", "done", "lost"}]
  /\ task \in [Actions -> TaskPc]
  /\ cur \in [Actions -> Actions \cup {Nobody}]
  /\ cancelling \in [Cancellers -> Actions \cup {Nobody}]
  /\ runs \in [Actions -> Nat]
  /\ outcome \in [Actions -> {"none", "ok", "error"}]
  /\ cancelled \subseteq Actions

(* However enqueue calls, late tasks and dying tasks interleave, at most    *)
(* one _process_queue is past its guard, and _processing says so exactly.   *)
SingleWorker ==
  /\ \A t, u \in Actions : task[t] \in Active /\ task[u] \in Active => t = u
  /\ processing <=> \E t \in Actions : task[t] \in Active

(* An id is in one place at a time: not yet put, once in the queue, or held *)
(* by the one task that took it; until that task invokes the handler        *)
(* nothing has been done for the action.                                    *)
Untouched(a) == runs[a] = 0 /\ outcome[a] = "none"
QueueCustody ==
  \A i \in 1..Len(queue) :
    /\ call[queue[i]] = "done"
    /\ Untouched(queue[i])
    /\ \A j \in 1..Len(queue) : queue[i] = queue[j] => i = j
    /\ \A t \in Actions : cur[t] # queue[i]
TaskCustody ==
  \A t \in Actions :
    /\ task[t] \in Handling => cur[t] # Nobody
    /\ cur[t] # Nobody =>
         /\ call[cur[t]] = "done"
         /\ \A u \in Actions : cur[t] = cur[u] => t = u
         /\ task[t] \in {"fetch", "claim", "dispatch"} => Untouched(cur[t])
         /\ task[t] = "running" => runs[cur[t]] = 1 /\ outcome[cur[t]] = "none"
         /\ task[t] = "complete" => outcome[cur[t]] = "ok"
Custody ==
  /\ QueueCustody
  /\ TaskCustody
  /\ \A a \in Actions : call[a] \in {"idle", "inserted"} => Untouched(a)

(* The handler of an action is invoked at most once, whatever is cancelled, *)
(* cancelled late, or lost.                                                 *)
RunOnce == \A a \in Actions : runs[a] <= 1

(* A row that says COMPLETED belongs to an action whose handler returned,   *)
(* even when a cancellation and the worker overwrote each other's status.   *)
CompletedMeansOk == \A a \in Actions : status[a] = "COMPLETED" => outcome[a] = "ok"

(* No wake-up is lost between the flag test of enqueue and the end of the   *)
(* loop: ids wait without a worker only after some worker died.             *)
NoLostWakeup ==
  queue # <<>> =>
    processing \/ \E t \in Actions : task[t] \in {"ready", "dead"}

(* A row stays QUEUED or EXECUTING only while its enqueue call, the queue   *)
(* or a task has it in hand, or because the task that had it died.          *)
InHand(a, pcs) == \E t \in Actions : cur[t] = a /\ task[t] \in pcs
OpenRowsAreOwned ==
  \A a \in Actions :
    /\ status[a] = "QUEUED" =>
         \/ call[a] = "inserted"
         \/ \E i \in 1..Len(queue) : queue[i] = a
         \/ InHand(a, {"fetch", "claim", "raise", "dead"})
    /\ status[a] = "EXECUTING" =>
         InHand(a, {"dispatch", "running", "complete", "fail", "raise", "dead"})

(* COMPLETED can only be overwritten by a cancellation that read the row    *)
(* while it was still QUEUED (or the row is lost in a restart).             *)
CompletedIsOnlyCancelled ==
  [][\A a \in Actions :
       status[a] = "COMPLETED" /\ status'[a] # "COMPLETED" =>
         \/ call'[a] = "lost"
         \/ status'[a] = "FAILED" /\ \E c \in Cancellers : cancelling[c] = a]_vars

(* Every enqueued action ends in a settled status and stays settled, in     *)
(* spite of late cancellations, of statements that raise under its FAILED   *)
(* and of workers that start for others, unless a restart loses it or a     *)
(* worker dies, which leaves its ids to the next enqueue.                   *)
EventuallySettled ==
  \A a \in Actions :
    call[a] = "done" ~>
      [](\/ status[a] \in Settled \/ call[a] = "lost"
         \/ \E t \in Actions : task[t] = "dead")

(* The queue, its worker and its statements implement the life cycle of an  *)
(* action: one claim, one effect, one status that tells how it ended.       *)
Lifecycle == INSTANCE ActionLifecycle WITH
  Overruled <- Cancellers # {} \/ DbFaults,
  phase <- [a \in Actions |-> IF call[a] = "lost" THEN "lost" ELSE status[a]],
  effect <- outcome
Implements == Lifecycle!Spec

(* What the documents promise; see the runs that refute them.               *)

(* "Cancel a queued action": after cancel_action returned True the handler  *)
(* of the action is not running.                                            *)
CancelledNeverRuns ==
  [][\A a \in Actions : a \in cancelled => runs'[a] = runs[a]]_vars

(* "All actions go through an action queue for reliability and              *)
(* auditability": the row of an action whose enqueue returned stays.        *)
AcceptedIsRecorded == [][\A a \in Actions : call[a] = "done" => status'[a] # "none"]_vars

(* The same sentence: an action whose handler raised is not left EXECUTING  *)
(* once no task works on it.                                                *)
ErrorIsRecorded ==
  \A a \in Actions :
    outcome[a] = "error" /\ status[a] = "EXECUTING" => InHand(a, Active)
=============================================================================
