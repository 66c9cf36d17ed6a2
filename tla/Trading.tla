------------------------------ MODULE Trading ------------------------------
(***************************************************************************)
(* TradingOrchestrator.execute_trade with the RiskService it consults:     *)
(* quote, risk checks, trade record, order at the exchange, final status.  *)
(* Every SELECT and every commit is a step of its own, so requests on      *)
(* different sessions interleave between a check and the act it allows.    *)
(*                                                                         *)
(* A request runs on a client's session, and a client sends its requests   *)
(* one after another.  A request is named by the trade record it may       *)
(* create; its network, DEX and amount are left open, so each check of     *)
(* them may pass or fail.  Time is a counter of ticks; created_at is the   *)
(* tick of the INSERT.  The exchange is external: an order may be placed   *)
(* although the reply says otherwise (a time-out, a body without orderId). *)
(***************************************************************************)
EXTENDS Integers, FiniteSets

CONSTANTS
  Requests,      \* calls of execute_trade
  Clients,       \* sessions that send them
  Users,
  Services,      \* RiskService instances
  ClientOf, UserOf, ServiceOf,    \* of each request
  MaxTrades,     \* max_trades_per_hour
  Hour, Cooldown,                 \* in ticks
  MaxTime        \* bound of the model: ticks explored

ASSUME TradingAssumption ==
  /\ IsFiniteSet(Requests)
  /\ ClientOf \in [Requests -> Clients]
  /\ UserOf \in [Requests -> Users]
  /\ ServiceOf \in [Requests -> Services]
  /\ MaxTrades \in Nat /\ Hour \in Nat /\ Cooldown \in Nat /\ MaxTime \in Nat

VARIABLES
  now,        \* the clock
  kill,       \* self._kill_switch of each RiskService
  pc,         \* where each request is
  decision,   \* risk_decision of its validation
  status,     \* trades.status of its record, "none" before the INSERT
  created,    \* trades.created_at
  reply,      \* what became of its order at the exchange
  late        \* history: requests whose order was placed under a kill switch

rowVars == <<status, created>>
vars == <<now, kill, pc, decision, rowVars, reply, late>>

Ended == {"done", "aborted"}
InFlight(r) == pc[r] \notin Ended \cup {"idle"}
Placed(r) == reply[r] \in {"ok", "lost"}

Init ==
  /\ now = 0
  /\ kill = [s \in Services |-> FALSE]
  /\ pc = [r \in Requests |-> "idle"]
  /\ decision = [r \in Requests |-> "none"]
  /\ status = [r \in Requests |-> "none"]
  /\ created = [r \in Requests |-> 0]
  /\ reply = [r \in Requests |-> "none"]
  /\ late = {}

Tick ==
  /\ now < MaxTime
  /\ now' = now + 1
  /\ UNCHANGED <<kill, pc, decision, rowVars, reply, late>>

ActivateKillSwitch(s) ==
  /\ ~kill[s]
  /\ kill' = [kill EXCEPT ![s] = TRUE]
  /\ UNCHANGED <<now, pc, decision, rowVars, reply, late>>

DeactivateKillSwitch(s) ==
  /\ kill[s]
  /\ kill' = [kill EXCEPT ![s] = FALSE]
  /\ late' = {r \in late : ServiceOf[r] # s}
  /\ UNCHANGED <<now, pc, decision, rowVars, reply>>

-----------------------------------------------------------------------------
Goto(r, p) == pc' = [pc EXCEPT ![r] = p]

(* get_quote: QuoteError when no adapter is registered or the price is "0". *)
(* (execute_trade looks the adapter up again later; adapters are only ever  *)
(* added, so that second lookup finds it.)                                  *)
GetQuote(r) ==
  /\ pc[r] = "idle"
  /\ \A q \in Requests : InFlight(q) => ClientOf[q] # ClientOf[r]
  /\ \E p \in {"validate", "done"} : Goto(r, p)
  /\ UNCHANGED <<now, kill, decision, rowVars, reply, late>>

Decide(r, d) == decision' = [decision EXCEPT ![r] = d] /\ Goto(r, "record")

(* Mutant: the kill switch is not consulted.                                *)
ValidateUnguarded(r) ==
  /\ pc[r] = "validate"
  /\ \/ Decide(r, "REJECTED")
     \/ Goto(r, "count") /\ UNCHANGED decision
  /\ UNCHANGED <<now, kill, rowVars, reply, late>>

(* validate_trade up to its first await: the kill switch, then the network, *)
(* the DEX and the position size.                                           *)
Validate(r) ==
  /\ pc[r] = "validate"
  /\ \/ kill[ServiceOf[r]] /\ Decide(r, "KILL_SWITCH")
     \/ ~kill[ServiceOf[r]] /\ Decide(r, "REJECTED")
     \/ ~kill[ServiceOf[r]] /\ Goto(r, "count") /\ UNCHANGED decision
  /\ UNCHANGED <<now, kill, rowVars, reply, late>>

RecordsOf(u) == {q \in Requests : UserOf[q] = u /\ status[q] # "none"}

(* _get_trades_last_hour: the COMPLETED records of the user.                *)
HourlyCount(u) ==
  Cardinality({q \in RecordsOf(u) :
                 status[q] = "COMPLETED" /\ created[q] > now - Hour})

(* Mutant: ">" instead of ">=".                                             *)
CountTradesOffByOne(r) ==
  /\ pc[r] = "count"
  /\ \/ HourlyCount(UserOf[r]) > MaxTrades /\ Decide(r, "REJECTED")
     \/ HourlyCount(UserOf[r]) <= MaxTrades /\ Goto(r, "cooldown") /\ UNCHANGED decision
  /\ UNCHANGED <<now, kill, rowVars, reply, late>>

CountTrades(r) ==
  /\ pc[r] = "count"
  /\ \/ HourlyCount(UserOf[r]) >= MaxTrades /\ Decide(r, "REJECTED")
     \/ HourlyCount(UserOf[r]) < MaxTrades /\ Goto(r, "cooldown") /\ UNCHANGED decision
  /\ UNCHANGED <<now, kill, rowVars, reply, late>>

(* Mutant: only COMPLETED records count.                                    *)
CooldownOfCompleted(u) ==
  \A q \in RecordsOf(u) : status[q] = "COMPLETED" => created[q] <= now - Cooldown

(* _check_cooldown: any record of the user counts, blocked ones included.   *)
CooldownElapsed(u) == \A q \in RecordsOf(u) : created[q] <= now - Cooldown

CheckCooldown(r) ==
  /\ pc[r] = "cooldown"
  /\ Decide(r, IF CooldownElapsed(UserOf[r]) THEN "APPROVED" ELSE "REJECTED")
  /\ UNCHANGED <<now, kill, rowVars, reply, late>>

(* Mutant: the branch of a refused decision is missing.                     *)
CreateRecordAlwaysBegins(r) ==
  /\ pc[r] = "record"
  /\ status' = [status EXCEPT ![r] = "QUEUED"]
  /\ created' = [created EXCEPT ![r] = now]
  /\ Goto(r, "begin")
  /\ UNCHANGED <<now, kill, decision, reply, late>>

(* _create_trade_record.                                                    *)
CreateRecord(r) ==
  /\ pc[r] = "record"
  /\ status' = [status EXCEPT ![r] = "QUEUED"]
  /\ created' = [created EXCEPT ![r] = now]
  /\ Goto(r, IF decision[r] = "APPROVED" THEN "begin" ELSE "block")
  /\ UNCHANGED <<now, kill, decision, reply, late>>

(* _update_trade_status.                                                    *)
UpdateStatus(r, from, s, to) ==
  /\ pc[r] = from
  /\ status' = [status EXCEPT ![r] = s]
  /\ Goto(r, to)
  /\ UNCHANGED <<now, kill, decision, created, reply, late>>

Block(r) == UpdateStatus(r, "block", "BLOCKED", "done")
BeginExecution(r) == UpdateStatus(r, "begin", "EXECUTING", "execute")
Complete(r) == UpdateStatus(r, "complete", "COMPLETED", "done")
Fail(r) == UpdateStatus(r, "fail", "FAILED", "done")

(* Mutant: any answer of the exchange counts as success.                    *)
ExecuteTradeOptimistic(r, outcome) ==
  /\ pc[r] = "execute"
  /\ reply' = [reply EXCEPT ![r] = outcome]
  /\ Goto(r, "complete")
  /\ UNCHANGED <<now, kill, decision, rowVars, late>>

(* Mutant: a failure returns without updating the record.                   *)
ExecuteTradeForgets(r, outcome) ==
  /\ pc[r] = "execute"
  /\ reply' = [reply EXCEPT ![r] = outcome]
  /\ Goto(r, IF outcome = "ok" THEN "complete" ELSE "done")
  /\ UNCHANGED <<now, kill, decision, rowVars, late>>

(* adapter.execute_trade: "ok" and "lost" place the order, "failed" does    *)
(* not.  A lost reply reads as a failure.  (That is GMX.  dYdX and Uniswap  *)
(* send no order: they quote again or invent an id and answer "ok", so for  *)
(* them "placed" is the word of the adapter.)                               *)
ExecuteTrade(r, outcome) ==
  /\ pc[r] = "execute"
  /\ reply' = [reply EXCEPT ![r] = outcome]
  /\ late' = IF kill[ServiceOf[r]] /\ outcome # "failed" THEN late \cup {r} ELSE late
  /\ Goto(r, IF outcome = "ok" THEN "complete" ELSE "fail")
  /\ UNCHANGED <<now, kill, decision, rowVars>>

(* A statement, or the parsing of the amount, raises: the exception leaves  *)
(* execute_trade, nothing undoes what was committed, and no later run looks *)
(* at the record again.                                                     *)
Abort(r) ==
  /\ pc[r] \in {"validate", "count", "cooldown", "record", "block", "begin",
               "complete", "fail"}
  /\ Goto(r, "aborted")
  /\ UNCHANGED <<now, kill, decision, rowVars, reply, late>>

(* The process restarts: requests in flight end where they are and every    *)
(* RiskService is new, with its kill switch off.                            *)
Restart ==
  /\ \E r \in Requests : InFlight(r)
  /\ pc' = [r \in Requests |-> IF InFlight(r) THEN "aborted" ELSE pc[r]]
  /\ kill' = [s \in Services |-> FALSE]
  /\ late' = {}
  /\ UNCHANGED <<now, decision, rowVars, reply>>

Next ==
  \/ Tick
  \/ \E s \in Services : ActivateKillSwitch(s) \/ DeactivateKillSwitch(s)
  \/ \E r \in Requests :
       \/ GetQuote(r) \/ Validate(r) \/ CountTrades(r) \/ CheckCooldown(r)
       \/ CreateRecord(r) \/ Block(r) \/ BeginExecution(r)
       \/ \E o \in {"ok", "lost", "failed"} : ExecuteTrade(r, o)
       \/ Complete(r) \/ Fail(r) \/ Abort(r)
  \/ Restart

Spec == Init /\ [][Next]_vars

-----------------------------------------------------------------------------
TypeOK ==
  /\ now \in 0..MaxTime
  /\ kill \in [Services -> BOOLEAN]
  /\ pc \in [Requests -> Ended \cup {"idle", "validate", "count", "cooldown",
               "record", "block", "begin", "execute", "complete", "fail"}]
  /\ decision \in [Requests -> {"none", "APPROVED", "REJECTED", "KILL_SWITCH"}]
  /\ status \in [Requests -> {"none", "QUEUED", "EXECUTING", "BLOCKED",
                              "COMPLETED", "FAILED"}]
  /\ created \in [Requests -> 0..MaxTime]
  /\ reply \in [Requests -> {"none", "ok", "lost", "failed"}]
  /\ late \subseteq Requests

(* "Full audit trail": an order at the exchange always has a committed      *)
(* record that names it approved and shows it under way or ended, also when *)
(* the process stopped right after placing it.                              *)
OrdersAreRecorded ==
  \A r \in Requests : Placed(r) =>
    decision[r] = "APPROVED" /\ status[r] \in {"EXECUTING", "COMPLETED", "FAILED"}

(* The record tells the truth about the order, but for a lost reply:        *)
(* BLOCKED was never sent, COMPLETED was placed, FAILED was not placed or   *)
(* was placed and the exchange's answer did not arrive.                     *)
StatusTellsReply ==
  \A r \in Requests :
    /\ status[r] = "BLOCKED" => reply[r] = "none" /\ decision[r] # "APPROVED"
    /\ status[r] = "COMPLETED" => reply[r] = "ok"
    /\ status[r] = "FAILED" => reply[r] \in {"lost", "failed"}

(* The hourly limit is overrun by at most the requests that other clients   *)
(* of the user have between the count and their COMPLETED; a single client  *)
(* never overruns it.                                                       *)
ClientsOf(u) == {ClientOf[r] : r \in {q \in Requests : UserOf[q] = u}}
TradesIn(u, t) ==
  {r \in RecordsOf(u) : status[r] = "COMPLETED" /\ created[r] \in (t - Hour + 1)..t}
OverrunIsBounded ==
  \A u \in Users, t \in 0..now :
    TradesIn(u, t) # {} =>
      Cardinality(TradesIn(u, t)) <= MaxTrades + Cardinality(ClientsOf(u)) - 1

(* Requests of one client are never approved closer than the cooldown.      *)
Approved(r) == decision[r] = "APPROVED" /\ status[r] # "none"
ClientsCoolDown ==
  \A q, r \in {x \in Requests : Approved(x)} :
    q # r /\ ClientOf[q] = ClientOf[r] /\ UserOf[q] = UserOf[r] =>
      created[r] - created[q] >= Cooldown \/ created[q] - created[r] >= Cooldown

(* The kill switch does not recall a request that already passed its check, *)
(* but lets no second order of the same client through.                     *)
KillSwitchHolds ==
  \A q, r \in late : ClientOf[q] = ClientOf[r] /\ ServiceOf[q] = ServiceOf[r] => q = r

(* A record is left QUEUED or EXECUTING only by a request that is still in  *)
(* flight or that was cut short.                                            *)
OpenRecordsAreInFlight ==
  \A r \in Requests :
    status[r] \in {"QUEUED", "EXECUTING"} => InFlight(r) \/ pc[r] = "aborted"

(* What the documents promise; see the run that refutes it.                 *)
(* "Risk limits enforced on all trades": no more than MaxTrades trades of a *)
(* user complete within an hour.                                            *)
HourlyLimit ==
  \A u \in Users, t \in 0..now : Cardinality(TradesIn(u, t)) <= MaxTrades
=============================================================================
