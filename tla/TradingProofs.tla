--------------------------- MODULE TradingProofs ---------------------------
(***************************************************************************)
(* Theorems about Trading for every set of requests, clients, users and    *)
(* RiskService instances, every limit, and any number of restarts.         *)
(***************************************************************************)
EXTENDS Trading, FiniteSetTheorems, TLAPS

USE DEF vars, rowVars, Ended, InFlight

(* What the position of a request says of its decision, record and order.   *)
At(r, ds, ss, rs) == decision[r] \in ds /\ status[r] \in ss /\ reply[r] \in rs
Progress(r) ==
  /\ pc[r] \in {"idle", "validate", "count", "cooldown"} => At(r, {"none"}, {"none"}, {"none"})
  /\ pc[r] = "record" => At(r, {"APPROVED", "REJECTED", "KILL_SWITCH"}, {"none"}, {"none"})
  /\ pc[r] = "block" => At(r, {"REJECTED", "KILL_SWITCH"}, {"QUEUED"}, {"none"})
  /\ pc[r] = "begin" => At(r, {"APPROVED"}, {"QUEUED"}, {"none"})
  /\ pc[r] = "execute" => At(r, {"APPROVED"}, {"EXECUTING"}, {"none"})
  /\ pc[r] = "complete" => At(r, {"APPROVED"}, {"EXECUTING"}, {"ok"})
  /\ pc[r] = "fail" => At(r, {"APPROVED"}, {"EXECUTING"}, {"lost", "failed"})
  /\ pc[r] = "done" => status[r] \notin {"QUEUED", "EXECUTING"}
AllProgress == \A r \in Requests : Progress(r)

RecordInv == OrdersAreRecorded /\ StatusTellsReply /\ OpenRecordsAreInFlight

(* A client has one request in flight; see the guard of GetQuote.           *)
OneInFlight ==
  \A q, r \in Requests :
    InFlight(q) /\ InFlight(r) /\ ClientOf[q] = ClientOf[r] => q = r

(* Under a kill switch, a client with a late order has no request past the  *)
(* check.                                                                   *)
Passed(r) ==
  \/ pc[r] \in {"count", "cooldown", "begin", "execute"}
  \/ pc[r] = "record" /\ decision[r] = "APPROVED"
KillInv ==
  /\ \A r \in late : kill[ServiceOf[r]]
  /\ \A r \in late, q \in Requests :
       ClientOf[q] = ClientOf[r] /\ ServiceOf[q] = ServiceOf[r] => ~Passed(q)

Inv == TypeOK /\ AllProgress /\ RecordInv /\ OneInFlight /\ KillInv /\ KillSwitchHolds

(* At first no request has begun.                                           *)
LEMMA InitInv == Init => Inv
  BY TradingAssumption
     DEF Init, Inv, TypeOK, AllProgress, Progress, At, RecordInv, OrdersAreRecorded,
         StatusTellsReply, OpenRecordsAreInFlight, Placed, OneInFlight, KillInv,
         KillSwitchHolds

-----------------------------------------------------------------------------
(* Each step of a request changes that request only.                        *)

Others(r) ==
  \A q \in Requests \ {r} :
    /\ pc'[q] = pc[q] /\ decision'[q] = decision[q]
    /\ status'[q] = status[q] /\ reply'[q] = reply[q]

RequestStep(r) ==
  \/ GetQuote(r) \/ Validate(r) \/ CountTrades(r) \/ CheckCooldown(r)
  \/ CreateRecord(r) \/ Block(r) \/ BeginExecution(r)
  \/ \E o \in {"ok", "lost", "failed"} : ExecuteTrade(r, o)
  \/ Complete(r) \/ Fail(r) \/ Abort(r)

(* A step of a request keeps the types and leaves the other requests alone. *)
LEMMA StepTypes ==
  ASSUME TypeOK, NEW r \in Requests, RequestStep(r)
  PROVE  TypeOK' /\ Others(r) /\ UNCHANGED <<now, kill>>
<1> USE DEF TypeOK, Others, Goto
<1>1. CASE GetQuote(r)
  BY <1>1 DEF GetQuote
<1>2. CASE Validate(r)
  BY <1>2 DEF Validate, Decide
<1>3. CASE CountTrades(r)
  BY <1>3 DEF CountTrades, Decide
<1>4. CASE CheckCooldown(r)
  BY <1>4 DEF CheckCooldown, Decide
<1>5. CASE CreateRecord(r)
  BY <1>5 DEF CreateRecord
<1>6. CASE Block(r) \/ BeginExecution(r) \/ Complete(r) \/ Fail(r)
  BY <1>6 DEF Block, BeginExecution, Complete, Fail, UpdateStatus
<1>7. ASSUME NEW o \in {"ok", "lost", "failed"}, ExecuteTrade(r, o)
      PROVE  TypeOK' /\ Others(r) /\ UNCHANGED <<now, kill>>
  BY <1>7 DEF ExecuteTrade
<1>8. CASE Abort(r)
  BY <1>8 DEF Abort
<1> QED
  BY <1>1, <1>2, <1>3, <1>4, <1>5, <1>6, <1>7, <1>8 DEF RequestStep

(* It keeps what the place of the request says of its decision, record and  *)
(* order.                                                                   *)
LEMMA StepProgress ==
  ASSUME TypeOK, NEW r \in Requests, Progress(r), RequestStep(r)
  PROVE  Progress(r)'
<1> USE DEF TypeOK, Progress, At, Goto
<1>1. CASE GetQuote(r)
  BY <1>1 DEF GetQuote
<1>2. CASE Validate(r)
  BY <1>2 DEF Validate, Decide
<1>3. CASE CountTrades(r)
  BY <1>3 DEF CountTrades, Decide
<1>4. CASE CheckCooldown(r)
  BY <1>4 DEF CheckCooldown, Decide
<1>5. CASE CreateRecord(r)
  BY <1>5 DEF CreateRecord
<1>6. CASE Block(r) \/ BeginExecution(r) \/ Complete(r) \/ Fail(r)
  BY <1>6 DEF Block, BeginExecution, Complete, Fail, UpdateStatus
<1>7. ASSUME NEW o \in {"ok", "lost", "failed"}, ExecuteTrade(r, o)
      PROVE  Progress(r)'
  BY <1>7 DEF ExecuteTrade
<1>8. CASE Abort(r)
  BY <1>8 DEF Abort
<1> QED
  BY <1>1, <1>2, <1>3, <1>4, <1>5, <1>6, <1>7, <1>8 DEF RequestStep

(* The audit properties of one request.                                     *)
Audit(r) ==
  /\ Placed(r) => /\ decision[r] = "APPROVED"
                  /\ status[r] \in {"EXECUTING", "COMPLETED", "FAILED"}
  /\ status[r] = "BLOCKED" => reply[r] = "none" /\ decision[r] # "APPROVED"
  /\ status[r] = "COMPLETED" => reply[r] = "ok"
  /\ status[r] = "FAILED" => reply[r] \in {"lost", "failed"}
  /\ status[r] \in {"QUEUED", "EXECUTING"} => InFlight(r) \/ pc[r] = "aborted"

(* The three properties of the records, request by request.                 *)
LEMMA RecordInvIsAudit == RecordInv <=> \A r \in Requests : Audit(r)
  BY DEF RecordInv, OrdersAreRecorded, StatusTellsReply, OpenRecordsAreInFlight, Audit

(* A step of a request keeps its record true.                               *)
LEMMA StepAudit ==
  ASSUME TypeOK, NEW r \in Requests, Progress(r), Audit(r), RequestStep(r)
  PROVE  Audit(r)'
<1> USE DEF TypeOK, Progress, At, Goto, Audit, Placed
<1>1. CASE GetQuote(r)
  BY <1>1 DEF GetQuote
<1>2. CASE Validate(r)
  BY <1>2 DEF Validate, Decide
<1>3. CASE CountTrades(r)
  BY <1>3 DEF CountTrades, Decide
<1>4. CASE CheckCooldown(r)
  BY <1>4 DEF CheckCooldown, Decide
<1>5. CASE CreateRecord(r)
  BY <1>5 DEF CreateRecord
<1>6. CASE Block(r) \/ BeginExecution(r) \/ Complete(r) \/ Fail(r)
  BY <1>6 DEF Block, BeginExecution, Complete, Fail, UpdateStatus
<1>7. ASSUME NEW o \in {"ok", "lost", "failed"}, ExecuteTrade(r, o)
      PROVE  Audit(r)'
  BY <1>7 DEF ExecuteTrade
<1>8. CASE Abort(r)
  BY <1>8 DEF Abort
<1> QED
  BY <1>1, <1>2, <1>3, <1>4, <1>5, <1>6, <1>7, <1>8 DEF RequestStep

(* A client begins no request while it has one in flight.                   *)
LEMMA StepInFlight ==
  ASSUME TypeOK, OneInFlight, NEW r \in Requests, RequestStep(r), Others(r)
  PROVE  OneInFlight'
<1>1. ASSUME NEW q \in Requests, q # r, ClientOf[q] = ClientOf[r]
      PROVE  ~InFlight(q)
  <2>1. CASE GetQuote(r)
    BY <1>1, <2>1 DEF GetQuote
  <2>2. CASE ~GetQuote(r)
    <3>1. InFlight(r)
      BY <2>2 DEF RequestStep, Validate, CountTrades, CheckCooldown, CreateRecord,
           Block, BeginExecution, Complete, Fail, UpdateStatus, ExecuteTrade, Abort
    <3> QED
      BY <1>1, <3>1 DEF OneInFlight
  <2> QED
    BY <2>1, <2>2
<1> QED
  BY <1>1 DEF OneInFlight, Others

(* A step of a request under a kill switch leaves its client at most one    *)
(* late order.                                                              *)
LEMMA StepKill ==
  ASSUME TypeOK, OneInFlight, KillInv, KillSwitchHolds,
         NEW r \in Requests, Progress(r), RequestStep(r), Others(r), UNCHANGED kill
  PROVE  KillInv' /\ KillSwitchHolds'
<1>1. CASE \E o \in {"ok", "lost", "failed"} : ExecuteTrade(r, o)
  <2>1. pc[r] = "execute" /\ pc'[r] \in {"complete", "fail"} /\ UNCHANGED decision
    BY <1>1 DEF ExecuteTrade, Goto, TypeOK
  <2>2. late' = late \/ (kill[ServiceOf[r]] /\ late' = late \cup {r})
    BY <1>1 DEF ExecuteTrade
  <2>3. \A q \in Requests : ClientOf[q] = ClientOf[r] /\ Passed(q) => q = r
    BY <2>1 DEF OneInFlight, Passed
  <2>4. \A q \in late : ClientOf[q] = ClientOf[r] => ServiceOf[q] # ServiceOf[r]
    BY <2>1 DEF KillInv, Passed
  <2>5. \A q \in Requests : Passed(q)' => Passed(q) /\ q # r
    BY <2>1 DEF Passed, Others
  <2>6. KillInv'
    <3>1. \A q \in late' : kill'[ServiceOf[q]]
      BY <2>2 DEF KillInv
    <3>2. \A p \in late', q \in Requests :
            ClientOf[q] = ClientOf[p] /\ ServiceOf[q] = ServiceOf[p] => ~Passed(q)'
      BY <2>2, <2>3, <2>5 DEF KillInv
    <3> QED
      BY <3>1, <3>2 DEF KillInv
  <2>7. KillSwitchHolds'
    BY <2>2, <2>4 DEF KillSwitchHolds
  <2> QED
    BY <2>6, <2>7
<1>2. CASE ~\E o \in {"ok", "lost", "failed"} : ExecuteTrade(r, o)
  <2>1. late' = late
    BY <1>2 DEF RequestStep, GetQuote, Validate, CountTrades, CheckCooldown, CreateRecord,
         Block, BeginExecution, Complete, Fail, UpdateStatus, Abort
  <2>2. Passed(r)' => Passed(r) \/ ~kill[ServiceOf[r]]
    <3> USE DEF Passed, Goto, Decide, TypeOK
    <3>1. CASE GetQuote(r)
      BY <3>1 DEF GetQuote
    <3>2. CASE Validate(r)
      BY <3>2 DEF Validate
    <3>3. CASE CountTrades(r) \/ CheckCooldown(r)
      BY <3>3 DEF CountTrades, CheckCooldown
    <3>4. CASE CreateRecord(r)
      BY <3>4 DEF CreateRecord
    <3>5. CASE Block(r) \/ BeginExecution(r) \/ Complete(r) \/ Fail(r)
      BY <3>5 DEF Block, BeginExecution, Complete, Fail, UpdateStatus
    <3>6. CASE Abort(r)
      BY <3>6 DEF Abort
    <3> QED
      BY <1>2, <3>1, <3>2, <3>3, <3>4, <3>5, <3>6 DEF RequestStep
  <2>3. \A q \in Requests : Passed(q)' => Passed(q) \/ ~kill[ServiceOf[q]]
    BY <2>2 DEF Passed, Others
  <2> QED
    BY <2>1, <2>3 DEF KillInv, KillSwitchHolds
<1> QED
  BY <1>1, <1>2

-----------------------------------------------------------------------------
(* A restart ends what is in flight, switches off and forgets what was      *)
(* late.                                                                    *)
LEMMA RestartInv == Inv /\ Restart => Inv'
<1> SUFFICES ASSUME Inv, Restart PROVE Inv'
  OBVIOUS
<1>1. /\ UNCHANGED <<now, decision, status, created, reply>> /\ late' = {}
      /\ \A r \in Requests : pc'[r] = IF InFlight(r) THEN "aborted" ELSE pc[r]
  BY DEF Restart
<1>2. TypeOK'
  BY DEF Restart, Inv, TypeOK
<1>3. AllProgress'
  BY <1>1 DEF Inv, AllProgress, Progress, At
<1>4. RecordInv'
  <2>1. OrdersAreRecorded' /\ StatusTellsReply'
    BY <1>1 DEF Inv, RecordInv, OrdersAreRecorded, Placed, StatusTellsReply
  <2>2. OpenRecordsAreInFlight'
    BY <1>1 DEF Inv, RecordInv, OpenRecordsAreInFlight
  <2> QED
    BY <2>1, <2>2 DEF RecordInv
<1>5. OneInFlight' /\ KillInv' /\ KillSwitchHolds'
  BY <1>1 DEF OneInFlight, KillInv, KillSwitchHolds
<1> QED
  BY <1>2, <1>3, <1>4, <1>5 DEF Inv

(* Switching keeps the invariant: what is late under a switch that goes off *)
(* no longer counts.                                                        *)
LEMMA KillSwitchInv ==
  ASSUME Inv, NEW s \in Services, ActivateKillSwitch(s) \/ DeactivateKillSwitch(s)
  PROVE  Inv'
<1>1. /\ UNCHANGED <<now, pc, decision, status, created, reply>>
      /\ late' \subseteq late
  BY DEF ActivateKillSwitch, DeactivateKillSwitch
<1>2. TypeOK'
  BY DEF Inv, TypeOK, ActivateKillSwitch, DeactivateKillSwitch
<1>3. AllProgress' /\ RecordInv' /\ OneInFlight'
  BY <1>1 DEF Inv, AllProgress, Progress, At, RecordInv, OrdersAreRecorded, Placed,
       StatusTellsReply, OpenRecordsAreInFlight, OneInFlight
<1>4. \A r \in late' : kill'[ServiceOf[r]]
  <2>1. \A r \in late : ServiceOf[r] \in Services /\ kill[ServiceOf[r]]
    BY TradingAssumption DEF Inv, TypeOK, KillInv
  <2>2. CASE ActivateKillSwitch(s)
    BY <2>1, <2>2 DEF ActivateKillSwitch, Inv, TypeOK
  <2>3. CASE DeactivateKillSwitch(s)
    BY <2>1, <2>3 DEF DeactivateKillSwitch, Inv, TypeOK
  <2> QED
    BY <2>2, <2>3
<1>5. KillInv' /\ KillSwitchHolds'
  BY <1>1, <1>4 DEF Inv, KillInv, Passed, KillSwitchHolds
<1> QED
  BY <1>2, <1>3, <1>5 DEF Inv

(* Every step keeps the invariant.                                          *)
LEMMA NextInv == Inv /\ [Next]_vars => Inv'
<1> SUFFICES ASSUME Inv, [Next]_vars PROVE Inv'
  OBVIOUS
<1>1. CASE UNCHANGED vars \/ Tick
  <2>1. UNCHANGED <<kill, pc, decision, status, created, reply, late>>
    BY <1>1 DEF Tick
  <2>2. TypeOK'
    BY <1>1, TradingAssumption DEF Inv, TypeOK, Tick
  <2> QED
    BY <2>1, <2>2 DEF Inv, AllProgress, Progress, At, RecordInv, OrdersAreRecorded, Placed,
         StatusTellsReply, OpenRecordsAreInFlight, OneInFlight, KillInv, Passed, KillSwitchHolds
<1>2. ASSUME NEW s \in Services, ActivateKillSwitch(s) \/ DeactivateKillSwitch(s) PROVE Inv'
  BY <1>2, KillSwitchInv
<1>3. ASSUME NEW r \in Requests, RequestStep(r) PROVE Inv'
  <2>1. TypeOK' /\ Others(r) /\ UNCHANGED <<now, kill>>
    BY <1>3, StepTypes DEF Inv
  <2>2. Progress(r) /\ Progress(r)'
    BY <1>3, StepProgress DEF Inv, AllProgress
  <2>3. AllProgress'
    BY <2>1, <2>2 DEF Inv, AllProgress, Progress, At, Others
  <2>4. RecordInv'
    <3>1. Audit(r)'
      BY <1>3, <2>2, StepAudit, RecordInvIsAudit DEF Inv
    <3>2. \A q \in Requests : Audit(q)'
      BY <2>1, <3>1, RecordInvIsAudit DEF Inv, Audit, Others, Placed
    <3> QED
      BY <3>2 DEF RecordInv, OrdersAreRecorded, StatusTellsReply,
           OpenRecordsAreInFlight, Audit
  <2>5. OneInFlight'
    BY <1>3, <2>1, StepInFlight DEF Inv
  <2>6. KillInv' /\ KillSwitchHolds'
    BY <1>3, <2>1, <2>2, StepKill DEF Inv
  <2> QED
    BY <2>1, <2>3, <2>4, <2>5, <2>6 DEF Inv
<1>4. CASE Restart
  BY <1>4, RestartInv
<1> QED
  BY <1>1, <1>2, <1>3, <1>4 DEF Next, RequestStep

(* The strengthened invariant the results below follow from.                *)
THEOREM InvHolds == Spec => []Inv
  BY InitInv, NextInv, PTL DEF Spec

(* The requests, the records and the kill switch keep their types.          *)
THEOREM TypeCorrect == Spec => []TypeOK
<1>1. Inv => TypeOK
  BY DEF Inv
<1> QED
  BY <1>1, InvHolds, PTL

(* No order reaches the exchange without a committed record that names it   *)
(* approved, for any interleaving, aborted request or restart.              *)
THEOREM AuditTrail == Spec => []OrdersAreRecorded
<1>1. Inv => OrdersAreRecorded
  BY DEF Inv, RecordInv
<1> QED
  BY <1>1, InvHolds, PTL

(* A settled record tells what became of the order.                         *)
THEOREM StatusIsTrue == Spec => []StatusTellsReply
<1>1. Inv => StatusTellsReply
  BY DEF Inv, RecordInv
<1> QED
  BY <1>1, InvHolds, PTL

(* Only requests in flight or cut short leave a record open.                *)
THEOREM NoForgottenRecord == Spec => []OpenRecordsAreInFlight
<1>1. Inv => OpenRecordsAreInFlight
  BY DEF Inv, RecordInv
<1> QED
  BY <1>1, InvHolds, PTL

(* While a kill switch stays on, each client of that RiskService gets at    *)
(* most one more order through.                                             *)
THEOREM KillSwitchLetsOneThrough == Spec => []KillSwitchHolds
<1>1. Inv => KillSwitchHolds
  BY DEF Inv
<1> QED
  BY <1>1, InvHolds, PTL

-----------------------------------------------------------------------------
(* The cooldown between approved requests of one client: what was true at   *)
(* the check still is when the record is inserted, because time only grows  *)
(* and nothing else of that client runs in between.                         *)

Ready(r) == pc[r] = "record" /\ decision[r] = "APPROVED"
CoolInv ==
  \A q, r \in Requests :
    (Approved(q) /\ Ready(r) /\ ClientOf[q] = ClientOf[r] /\ UserOf[q] = UserOf[r]) =>
      created[q] <= now - Cooldown

(* Every step keeps approved records of a client a cooldown apart, and a    *)
(* request that is ready far enough from them.                              *)
LEMMA NextCool ==
  Inv /\ CoolInv /\ ClientsCoolDown /\ [Next]_vars => CoolInv' /\ ClientsCoolDown'
<1> SUFFICES ASSUME Inv, CoolInv, ClientsCoolDown, [Next]_vars
             PROVE  CoolInv' /\ ClientsCoolDown'
  OBVIOUS
<1> USE TradingAssumption
<1>1. ASSUME now' \in Int, now <= now', UNCHANGED created,
             \A q \in Requests : Approved(q)' => Approved(q),
             \A r \in Requests : Ready(r)' => Ready(r)
      PROVE  CoolInv' /\ ClientsCoolDown'
  BY <1>1 DEF CoolInv, ClientsCoolDown, Inv, TypeOK
<1>2. CASE UNCHANGED vars
  BY <1>1, <1>2 DEF Approved, Ready, Inv, TypeOK
<1>3. CASE Tick
  BY <1>1, <1>3 DEF Tick, Approved, Ready, Inv, TypeOK
<1>4. ASSUME NEW s \in Services, ActivateKillSwitch(s) \/ DeactivateKillSwitch(s)
      PROVE  CoolInv' /\ ClientsCoolDown'
  BY <1>1, <1>4 DEF ActivateKillSwitch, DeactivateKillSwitch, Approved, Ready, Inv, TypeOK
<1>5. CASE Restart
  BY <1>1, <1>5 DEF Restart, Approved, Ready, Inv, TypeOK
<1>6. ASSUME NEW r \in Requests, RequestStep(r) PROVE CoolInv' /\ ClientsCoolDown'
  <2>1. Others(r) /\ UNCHANGED now /\ TypeOK'
    BY <1>6, StepTypes DEF Inv
  <2>2. Progress(r) /\ Progress(r)'
    BY <1>6, StepProgress DEF Inv, AllProgress
  <2>3. CASE CheckCooldown(r)
    <3>1. UNCHANGED <<created, status>>
      BY <2>3 DEF CheckCooldown
    <3>2. \A q \in Requests : Approved(q)' => Approved(q) /\ q # r
      BY <2>1, <2>2, <2>3, <3>1 DEF CheckCooldown, Approved, Others, Progress, At
    <3>3. Ready(r)' => CooldownElapsed(UserOf[r])
      BY <2>3 DEF CheckCooldown, Decide, Goto, Ready, Inv, TypeOK
    <3>4. \A q \in Requests : q # r /\ Ready(q)' => Ready(q)
      BY <2>1 DEF Others, Ready
    <3>5. CoolInv'
      BY <2>1, <3>1, <3>2, <3>3, <3>4 DEF CoolInv, CooldownElapsed, RecordsOf, Approved
    <3> QED
      BY <3>1, <3>2, <3>5 DEF ClientsCoolDown
  <2>4. CASE CreateRecord(r)
    <3>1. created' = [created EXCEPT ![r] = now] /\ UNCHANGED decision /\ pc[r] = "record"
      BY <2>4 DEF CreateRecord
    <3>2. \A q \in Requests : q # r => created'[q] = created[q]
      BY <3>1 DEF Inv, TypeOK
    <3>3. created'[r] = now
      BY <3>1 DEF Inv, TypeOK
    <3>4. \A q \in Requests : q # r => (Approved(q)' => Approved(q))
      BY <2>1 DEF Others, Approved
    <3>5. Approved(r)' => Ready(r)
      BY <3>1 DEF Approved, Ready
    <3>6. \A q \in Requests : Ready(q)' => Ready(q) /\ q # r
      BY <2>1, <2>4 DEF CreateRecord, Goto, Others, Ready, Inv, TypeOK
    <3>7. \A q \in Requests : ClientOf[q] = ClientOf[r] => ~Ready(q)'
      BY <3>1, <3>6 DEF Ready, Inv, OneInFlight
    <3>8. CoolInv'
      BY <2>1, <3>2, <3>4, <3>6, <3>7 DEF CoolInv
    <3>9. \A q \in Requests :
            q # r /\ Approved(q) /\ Ready(r) /\ ClientOf[q] = ClientOf[r]
              /\ UserOf[q] = UserOf[r] => created[q] <= now - Cooldown
      BY DEF CoolInv
    <3>10. now \in Int /\ \A q \in Requests : created[q] \in Int
      BY DEF Inv, TypeOK
    <3>11. ClientsCoolDown'
      <4>1. ASSUME NEW q \in Requests, NEW p \in Requests, Approved(q)', Approved(p)',
                   q # p, ClientOf[q] = ClientOf[p], UserOf[q] = UserOf[p]
            PROVE  \/ created'[p] - created'[q] >= Cooldown
                   \/ created'[q] - created'[p] >= Cooldown
        <5>1. CASE q # r /\ p # r
          BY <4>1, <5>1, <3>2, <3>4 DEF ClientsCoolDown
        <5>2. CASE p = r
          BY <4>1, <5>2, <3>2, <3>3, <3>4, <3>5, <3>9, <3>10
        <5>3. CASE q = r
          BY <4>1, <5>3, <3>2, <3>3, <3>4, <3>5, <3>9, <3>10
        <5> QED
          BY <5>1, <5>2, <5>3
      <4> QED
        BY <4>1 DEF ClientsCoolDown
    <3> QED
      BY <3>8, <3>11
  <2>5. CASE ~CheckCooldown(r) /\ ~CreateRecord(r)
    <3>1. UNCHANGED created
      BY <1>6, <2>5 DEF RequestStep, GetQuote, Validate, CountTrades, Block,
           BeginExecution, Complete, Fail, UpdateStatus, ExecuteTrade, Abort
    <3>2. Ready(r)' => Ready(r)
      BY <1>6, <2>5 DEF RequestStep, GetQuote, Validate, CountTrades, Block, Goto, Decide,
           BeginExecution, Complete, Fail, UpdateStatus, ExecuteTrade, Abort, Ready, Inv, TypeOK
    <3>3. Approved(r)' => Approved(r)
      BY <1>6, <2>2, <2>5
         DEF RequestStep, GetQuote, Validate, CountTrades, Block, Goto, Decide,
           BeginExecution, Complete, Fail, UpdateStatus, ExecuteTrade, Abort, Approved,
           Progress, At, Inv, TypeOK
    <3>4. \A q \in Requests : (Ready(q)' => Ready(q)) /\ (Approved(q)' => Approved(q))
      BY <2>1, <3>2, <3>3 DEF Others, Ready, Approved
    <3> QED
      BY <1>1, <2>1, <3>1, <3>4 DEF Inv, TypeOK
  <2> QED
    BY <2>3, <2>4, <2>5
<1> QED
  BY <1>2, <1>3, <1>4, <1>5, <1>6 DEF Next, RequestStep

(* Two approved requests of one client are at least the cooldown apart.     *)
THEOREM CooldownHolds == Spec => []ClientsCoolDown
<1>1. Init => CoolInv /\ ClientsCoolDown
  BY DEF Init, CoolInv, ClientsCoolDown, Approved, Ready
<1> QED
  BY <1>1, InvHolds, NextCool, PTL DEF Spec

-----------------------------------------------------------------------------
(* The hourly limit.  A request claims a place in the hour that ends at t   *)
(* when it completed in it, when its record was created in it and may still *)
(* complete, or when it has passed the count and t is not over.  Only a     *)
(* count that finds less than MaxTrades adds a claim.                       *)

Within(r, t) == created[r] \in (t - Hour + 1)..t
Claims(r, t) ==
  \/ status[r] = "COMPLETED" /\ Within(r, t)
  \/ pc[r] \in {"begin", "execute", "complete"} /\ Within(r, t)
  \/ (pc[r] = "cooldown" \/ Ready(r)) /\ now <= t
Claimants(u, t) == {r \in Requests : UserOf[r] = u /\ Claims(r, t)}

Allowed(u) == MaxTrades + Cardinality(ClientsOf(u)) - 1
ClaimInv ==
  \A u \in Users, t \in Nat :
    Claimants(u, t) # {} => Cardinality(Claimants(u, t)) <= Allowed(u)

(* The clients of a user are finitely many, so the bound is a number.      *)
LEMMA AllowedIsInt ==
  ASSUME NEW u
  PROVE  /\ IsFiniteSet(ClientsOf(u)) /\ Cardinality(ClientsOf(u)) \in Nat
         /\ Allowed(u) \in Int
<1> DEFINE Q == {q \in Requests : UserOf[q] = u}
           f == [q \in Q |-> ClientOf[q]]
<1>1. IsFiniteSet(Q)
  BY FS_Subset, TradingAssumption
<1>2. IsFiniteSet(ClientsOf(u))
  <2>1. f \in Surjection(Q, ClientsOf(u))
    BY DEF Surjection, ClientsOf
  <2> QED
    BY <1>1, <2>1, FS_Surjection
<1>3. Cardinality(ClientsOf(u)) \in Nat
  BY <1>2, FS_CardinalityType
<1> QED
  BY <1>2, <1>3, TradingAssumption DEF Allowed

(* A set of claims that does not grow stays within the bound.               *)
LEMMA FewerClaims ==
  ASSUME ClaimInv, NEW u \in Users, NEW t \in Nat, NEW S, S # {},
         S \subseteq Claimants(u, t)
  PROVE  Cardinality(S) <= Allowed(u)
<1>1. IsFiniteSet(Claimants(u, t))
  BY FS_Subset, TradingAssumption DEF Claimants
<1>2. /\ Cardinality(S) <= Cardinality(Claimants(u, t)) /\ Cardinality(S) \in Nat
      /\ Cardinality(Claimants(u, t)) \in Nat
  BY <1>1, FS_Subset, FS_CardinalityType
<1>3. Cardinality(Claimants(u, t)) <= Allowed(u)
  BY DEF ClaimInv
<1> QED
  BY <1>2, <1>3, AllowedIsInt

(* The requests of a user that are in flight are no more than its clients.  *)
FlightsOf(u) == {r \in Requests : UserOf[r] = u /\ InFlight(r)}
(* See above: an injection into the clients.                                *)
LEMMA OneFlightAClient ==
  ASSUME OneInFlight, NEW u
  PROVE  /\ IsFiniteSet(FlightsOf(u))
         /\ Cardinality(FlightsOf(u)) <= Cardinality(ClientsOf(u))
<1> DEFINE f == [r \in FlightsOf(u) |-> ClientOf[r]]
<1>1. f \in Injection(FlightsOf(u), ClientsOf(u))
  BY DEF Injection, IsInjective, FlightsOf, ClientsOf, OneInFlight
<1> QED
  BY <1>1, AllowedIsInt, FS_Injection

(* The same of the state after a step.                                      *)
LEMMA OneFlightAClientNext ==
  ASSUME OneInFlight', NEW u
  PROVE  /\ IsFiniteSet(FlightsOf(u)')
         /\ Cardinality(FlightsOf(u)') <= Cardinality(ClientsOf(u))
<1> DEFINE F == FlightsOf(u)'
           f == [r \in F |-> ClientOf[r]]
<1>1. f \in Injection(F, ClientsOf(u))
  BY DEF Injection, IsInjective, FlightsOf, ClientsOf, OneInFlight
<1> HIDE DEF F
<1>2. IsFiniteSet(F) /\ Cardinality(F) <= Cardinality(ClientsOf(u))
  BY <1>1, AllowedIsInt, FS_Injection
<1> QED
  BY <1>2 DEF F

(* No step but CountTrades gives a request a claim.                         *)
NoNewClaim == \A q \in Requests, t \in Nat : Claims(q, t)' => Claims(q, t)

(* Case by case: no request returns to an earlier place, and time moves on. *)
LEMMA OtherStepsClaimNothing ==
  ASSUME Inv, [Next]_vars, \A r \in Requests : ~CountTrades(r)
  PROVE  NoNewClaim
<1> USE DEF NoNewClaim, Claims, Within, Ready
<1>1. CASE UNCHANGED vars \/ \E s \in Services : ActivateKillSwitch(s) \/ DeactivateKillSwitch(s)
  BY <1>1 DEF ActivateKillSwitch, DeactivateKillSwitch
<1>2. CASE Tick
  BY <1>2 DEF Tick, Inv, TypeOK
<1>3. CASE Restart
  BY <1>3 DEF Restart, Inv, TypeOK
<1>4. ASSUME NEW r \in Requests, RequestStep(r) PROVE NoNewClaim
  <2>1. Others(r) /\ UNCHANGED now /\ \A q \in Requests \ {r} : created'[q] = created[q]
    <3>1. \A q \in Requests \ {r} : created'[q] = created[q]
      BY <1>4 DEF RequestStep, GetQuote, Validate, CountTrades, CheckCooldown, CreateRecord,
           Block, BeginExecution, Complete, Fail, UpdateStatus, ExecuteTrade, Abort, Inv, TypeOK
    <3> QED
      BY <1>4, <3>1, StepTypes DEF Inv
  <2>2. ASSUME NEW t \in Nat, Claims(r, t)' PROVE Claims(r, t)
    <3>1. Progress(r)
      BY DEF Inv, AllProgress
    <3>2. CASE GetQuote(r)
      BY <2>2, <3>1, <3>2 DEF GetQuote, Goto, Inv, TypeOK, Progress, At
    <3>3. CASE Validate(r)
      BY <2>2, <3>1, <3>3 DEF Validate, Decide, Goto, Inv, TypeOK, Progress, At
    <3>4. CASE CheckCooldown(r)
      BY <2>2, <3>1, <3>4 DEF CheckCooldown, Decide, Goto, Inv, TypeOK, Progress, At
    <3>5. CASE CreateRecord(r)
      <4>1. /\ pc[r] = "record" /\ status'[r] = "QUEUED" /\ created'[r] = now /\ now \in Nat
            /\ pc'[r] = IF decision[r] = "APPROVED" THEN "begin" ELSE "block"
        BY <3>5 DEF CreateRecord, Goto, Inv, TypeOK
      <4>2. decision[r] = "APPROVED" /\ now <= t
        BY <2>2, <4>1
      <4> QED
        BY <4>1, <4>2
    <3>6. CASE Block(r) \/ BeginExecution(r) \/ Complete(r) \/ Fail(r)
      BY <2>2, <3>1, <3>6
         DEF Block, BeginExecution, Complete, Fail, UpdateStatus, Goto, Inv, TypeOK, Progress, At
    <3>7. CASE \E o \in {"ok", "lost", "failed"} : ExecuteTrade(r, o)
      BY <2>2, <3>1, <3>7 DEF ExecuteTrade, Goto, Inv, TypeOK, Progress, At
    <3>8. CASE Abort(r)
      BY <2>2, <3>1, <3>8 DEF Abort, Goto, Inv, TypeOK, Progress, At
    <3> QED
      BY <1>4, <3>2, <3>3, <3>4, <3>5, <3>6, <3>7, <3>8 DEF RequestStep
  <2>3. ASSUME NEW q \in Requests \ {r}, NEW t \in Nat, Claims(q, t)' PROVE Claims(q, t)
    BY <2>1, <2>3 DEF Others
  <2> QED
    BY <2>2, <2>3
<1> QED
  BY <1>1, <1>2, <1>3, <1>4 DEF Next, RequestStep

(* The request that passes the count last finds less than MaxTrades of the  *)
(* claims completed; the others, and its own, are in flight.                *)
LEMMA CountKeepsClaims ==
  ASSUME Inv, OneInFlight', ClaimInv, NEW r \in Requests, CountTrades(r)
  PROVE  ClaimInv'
<1>1. Others(r) /\ UNCHANGED <<now, created, status>> /\ pc[r] = "count" /\ now \in Nat
  BY StepTypes DEF CountTrades, Decide, Goto, RequestStep, Inv, TypeOK
<1>2. ASSUME NEW q \in Requests, q # r, NEW t \in Nat, Claims(q, t)' PROVE Claims(q, t)
  BY <1>1, <1>2 DEF Claims, Within, Ready, Others
<1>3. ASSUME NEW u \in Users, NEW t \in Nat, Claimants(u, t)' # {}
      PROVE  Cardinality(Claimants(u, t)') <= Allowed(u)
  <2>1. CASE r \notin Claimants(u, t)'
    <3>1. Claimants(u, t)' \subseteq Claimants(u, t)
      BY <1>2, <2>1 DEF Claimants
    <3> QED
      BY <1>3, <3>1, FewerClaims
  <2>2. CASE r \in Claimants(u, t)'
    <3>1. UserOf[r] = u /\ Claims(r, t)'
      BY <2>2 DEF Claimants
    <3>2. HourlyCount(u) < MaxTrades /\ pc'[r] = "cooldown" /\ now <= t
      BY <1>1, <3>1
         DEF CountTrades, Decide, Goto, Claims, Ready, Within, Inv, TypeOK, AllProgress,
             Progress, At
    <3> DEFINE A == {q \in RecordsOf(u) : status[q] = "COMPLETED" /\ created[q] > now - Hour}
    <3>3. IsFiniteSet(A) /\ Cardinality(A) \in Nat /\ Cardinality(A) <= MaxTrades - 1
      <4>1. IsFiniteSet(A)
        BY FS_Subset, TradingAssumption DEF RecordsOf
      <4>2. Cardinality(A) \in Nat
        BY <4>1, FS_CardinalityType
      <4> QED
        BY <3>2, <4>1, <4>2, TradingAssumption DEF HourlyCount
    <3>4. /\ IsFiniteSet(FlightsOf(u)') /\ Cardinality(FlightsOf(u)') \in Nat
          /\ Cardinality(FlightsOf(u)') <= Cardinality(ClientsOf(u))
      BY OneFlightAClientNext, FS_CardinalityType
    <3>5. Claimants(u, t)' \subseteq A \cup FlightsOf(u)'
      BY <1>1, <3>2, TradingAssumption
         DEF Claimants, Claims, Within, Ready, FlightsOf, RecordsOf, Inv, TypeOK
    <3>6. /\ IsFiniteSet(A \cup FlightsOf(u)')
          /\ Cardinality(A \cup FlightsOf(u)') <= Cardinality(A) + Cardinality(FlightsOf(u)')
      <4> DEFINE F == FlightsOf(u)'
      <4> HIDE DEF A, F
      <4>1. IsFiniteSet(A) /\ IsFiniteSet(F)
        BY <3>3, <3>4 DEF F
      <4>2. /\ IsFiniteSet(A \cup F)
            /\ Cardinality(A \cup F) =
                 Cardinality(A) + Cardinality(F) - Cardinality(A \cap F)
        BY <4>1, FS_Union
      <4>3. Cardinality(A \cap F) \in Nat /\ Cardinality(A) \in Nat /\ Cardinality(F) \in Nat
        BY <4>1, FS_Intersection, FS_CardinalityType
      <4>4. IsFiniteSet(A \cup F) /\ Cardinality(A \cup F) <= Cardinality(A) + Cardinality(F)
        BY <4>2, <4>3
      <4> QED
        BY <4>4 DEF F
    <3>7. /\ Cardinality(Claimants(u, t)') <= Cardinality(A \cup FlightsOf(u)')
          /\ Cardinality(Claimants(u, t)') \in Nat
          /\ Cardinality(A \cup FlightsOf(u)') \in Nat
      BY <3>5, <3>6, FS_Subset, FS_CardinalityType
    <3> QED
      BY <3>3, <3>4, <3>6, <3>7, AllowedIsInt, TradingAssumption DEF Allowed
  <2> QED
    BY <2>1, <2>2
<1> QED
  BY <1>3 DEF ClaimInv, Allowed

(* Every step keeps the claims within what is allowed.                      *)
LEMMA NextClaims == Inv /\ ClaimInv /\ [Next]_vars => ClaimInv'
<1> SUFFICES ASSUME Inv, ClaimInv, [Next]_vars PROVE ClaimInv'
  OBVIOUS
<1>1. CASE \E r \in Requests : CountTrades(r)
  <2>1. OneInFlight'
    BY NextInv DEF Inv
  <2> QED
    BY <1>1, <2>1, CountKeepsClaims
<1>2. CASE \A r \in Requests : ~CountTrades(r)
  <2>1. NoNewClaim
    BY <1>2, OtherStepsClaimNothing
  <2>2. ASSUME NEW u \in Users, NEW t \in Nat, Claimants(u, t)' # {}
        PROVE  Cardinality(Claimants(u, t)') <= Allowed(u)
    <3>1. Claimants(u, t)' \subseteq Claimants(u, t)
      BY <2>1 DEF NoNewClaim, Claimants
    <3> QED
      BY <2>2, <3>1, FewerClaims
  <2> QED
    BY <2>2 DEF ClaimInv, Allowed
<1> QED
  BY <1>1, <1>2

(* Nobody claims a place at first.                                          *)
LEMMA InitClaims == Init => ClaimInv
  BY DEF Init, ClaimInv, Claimants, Claims, Ready

(* Completed trades are claims.                                             *)
LEMMA TradesAreClaims ==
  ASSUME Inv, ClaimInv
  PROVE  OverrunIsBounded
<1> SUFFICES ASSUME NEW u \in Users, NEW t \in 0..now, TradesIn(u, t) # {}
             PROVE  Cardinality(TradesIn(u, t)) <= Allowed(u)
  BY DEF OverrunIsBounded, Allowed
<1>1. t \in Nat
  OBVIOUS
<1>2. TradesIn(u, t) \subseteq Claimants(u, t)
  BY DEF TradesIn, RecordsOf, Claimants, Claims, Within
<1> QED
  BY <1>1, <1>2, FewerClaims

(* However the requests of a user interleave, its trades of an hour exceed  *)
(* the limit by at most the clients it has besides one: the count and the   *)
(* INSERT are not atomic, but each client has one request between them.     *)
THEOREM OverrunIsOneAClient == Spec => []OverrunIsBounded
<1>1. Spec => []ClaimInv
  BY InvHolds, InitClaims, NextClaims, PTL DEF Spec
<1> QED
  BY <1>1, InvHolds, TradesAreClaims, PTL

(* The limit of the documents is kept wherever no user has two clients: it  *)
(* takes a second client to overrun it.                                     *)
THEOREM OneClientKeepsTheLimit ==
  ASSUME \A u \in Users : Cardinality(ClientsOf(u)) <= 1
  PROVE  Spec => []HourlyLimit
<1>1. OverrunIsBounded => HourlyLimit
  <2> SUFFICES ASSUME OverrunIsBounded, NEW u \in Users, NEW t \in 0..now
               PROVE  Cardinality(TradesIn(u, t)) <= MaxTrades
    BY DEF HourlyLimit
  <2>1. CASE TradesIn(u, t) = {}
    BY <2>1, FS_EmptySet, TradingAssumption
  <2>2. CASE TradesIn(u, t) # {}
    <3>1. Cardinality(TradesIn(u, t)) <= MaxTrades + Cardinality(ClientsOf(u)) - 1
      BY <2>2 DEF OverrunIsBounded
    <3>2. Cardinality(ClientsOf(u)) \in Nat /\ Cardinality(ClientsOf(u)) <= 1
      BY AllowedIsInt
    <3>3. Cardinality(TradesIn(u, t)) \in Nat
      <4>1. IsFiniteSet(TradesIn(u, t))
        BY FS_Subset, TradingAssumption DEF TradesIn, RecordsOf
      <4> QED
        BY <4>1, FS_CardinalityType
    <3> QED
      BY <3>1, <3>2, <3>3, TradingAssumption
  <2> QED
    BY <2>1, <2>2
<1> QED
  BY <1>1, OverrunIsOneAClient, PTL
=============================================================================
