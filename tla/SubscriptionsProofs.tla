------------------------ MODULE SubscriptionsProofs ------------------------
(***************************************************************************)
(* Theorems about Subscriptions for every set of rows, users, sessions and *)
(* durations.                                                              *)
(***************************************************************************)
EXTENDS Subscriptions, TLAPS

USE DEF vars, rowVars, sessionVars, histVars, Ops

(* What a session about to commit may count on, however long ago it read    *)
(* its row.                                                                 *)
Pending(c) ==
  /\ op[c] # "idle" => sub[c] \in Subs
  /\ op[c] = "create" => status[sub[c]] = "none"
  /\ op[c] \in {"activate", "lapse", "expire"} => status[sub[c]] # "none"
  /\ op[c] = "lapse" => expiry[sub[c]] < now
OneCreator ==
  \A b, c \in Sessions :
    op[b] = "create" /\ op[c] = "create" /\ sub[b] = sub[c] => b = c
ActivatedIsPast ==
  \A s \in Subs : activators[s] # {} => status[s] \in {"ACTIVE", "EXPIRED"}
SessionInv == (\A c \in Sessions : Pending(c)) /\ OneCreator /\ ActivatedIsPast

Inv == TypeOK /\ SessionInv /\ RetryIsRefused /\ ExpiredIsOver

(* At first there is no row and no call.                                    *)
LEMMA InitInv == Init => Inv
  BY SubscriptionsAssumption
     DEF Init, Inv, TypeOK, SessionInv, Pending, OneCreator, ActivatedIsPast,
         RetryIsRefused, ExpiredIsOver

(* A session that begins a call, whatever the call.                         *)
LEMMA BeginKeepsOthers ==
  ASSUME TypeOK, NEW c \in Sessions, NEW o \in Ops, NEW s \in Subs, Begin(c, o, s)
  PROVE  /\ op' \in [Sessions -> Ops \cup {"idle"}]
         /\ sub' \in [Sessions -> Subs \cup {NoSub}]
         /\ op[c] = "idle" /\ op'[c] = o /\ sub'[c] = s
         /\ \A b \in Sessions \ {c} : op'[b] = op[b] /\ sub'[b] = sub[b]
  BY DEF TypeOK, Begin

(* A session that ends its call: nobody else's call changes.                *)
LEMMA FinishKeepsOthers ==
  ASSUME TypeOK, NEW c \in Sessions, Finish(c)
  PROVE  /\ op' \in [Sessions -> Ops \cup {"idle"}]
         /\ sub' \in [Sessions -> Subs \cup {NoSub}]
         /\ op'[c] = "idle"
         /\ \A b \in Sessions \ {c} : op'[b] = op[b] /\ sub'[b] = sub[b]
  BY DEF TypeOK, Finish

(* Every step keeps the invariant.                                          *)
LEMMA StepInv == Inv /\ [Next]_vars => Inv'
<1> SUFFICES ASSUME Inv, [Next]_vars PROVE Inv'
  OBVIOUS
<1> USE SubscriptionsAssumption DEF Inv
<1>0. CASE UNCHANGED vars
  BY <1>0 DEF TypeOK, SessionInv, Pending, OneCreator, ActivatedIsPast,
              RetryIsRefused, ExpiredIsOver
<1>1. CASE Tick
  BY <1>1 DEF Tick, TypeOK, SessionInv, Pending, OneCreator, ActivatedIsPast,
              RetryIsRefused, ExpiredIsOver
<1>2. ASSUME NEW c \in Sessions, NEW s \in Subs, NEW d \in Durations, CreateRead(c, s, d)
      PROVE  Inv'
  <2>1. Begin(c, "create", s) /\ status[s] = "none"
        /\ \A b \in Sessions : op[b] = "create" => sub[b] # s
    BY <1>2 DEF CreateRead
  <2>2. /\ expiry' = [expiry EXCEPT ![s] = now + d]
        /\ UNCHANGED <<now, status, histVars>>
    BY <1>2 DEF CreateRead
  <2>3. TypeOK'
    BY <2>1, <2>2, BeginKeepsOthers DEF TypeOK
  <2>4. SessionInv'
    BY <2>1, <2>2, BeginKeepsOthers
       DEF TypeOK, SessionInv, Pending, OneCreator, ActivatedIsPast
  <2>5. RetryIsRefused' /\ ExpiredIsOver'
    BY <2>1, <2>2, BeginKeepsOthers DEF TypeOK, RetryIsRefused, ExpiredIsOver
  <2> QED
    BY <2>3, <2>4, <2>5
<1>3. ASSUME NEW c \in Sessions, NEW s \in Subs, NEW o \in {"activate", "lapse", "expire"},
             Begin(c, o, s), UNCHANGED <<now, rowVars, histVars>>, status[s] # "none",
             o = "activate" => status[s] = "PENDING", o = "lapse" => expiry[s] < now
      PROVE  Inv'
  <2>1. TypeOK'
    BY <1>3, BeginKeepsOthers DEF TypeOK
  <2>2. SessionInv'
    BY <1>3, BeginKeepsOthers
       DEF TypeOK, SessionInv, Pending, OneCreator, ActivatedIsPast
  <2>3. RetryIsRefused' /\ ExpiredIsOver'
    <3>1. o = "activate" => activators[s] = {}
      BY <1>3 DEF SessionInv, ActivatedIsPast
    <3> QED
      BY <1>3, <3>1, BeginKeepsOthers DEF TypeOK, RetryIsRefused, ExpiredIsOver
  <2> QED
    BY <2>1, <2>2, <2>3
<1>4. ASSUME NEW c \in Sessions, NEW s \in Subs, ActivateRead(c, s) PROVE Inv'
  BY <1>3, <1>4 DEF ActivateRead
<1>5. ASSUME NEW c \in Sessions, NEW s \in Subs, ExpireRead(c, s) PROVE Inv'
  BY <1>3, <1>5 DEF ExpireRead
<1>6. ASSUME NEW c \in Sessions, NEW u \in Users, LapseRead(c, u) PROVE Inv'
  <2>1. PICK s \in Subs : /\ ActiveOf(u) = {s} /\ expiry[s] < now
                          /\ Begin(c, "lapse", s)
    BY <1>6 DEF LapseRead
  <2>2. status[s] = "ACTIVE" /\ UNCHANGED <<now, rowVars, histVars>>
    BY <1>6, <2>1 DEF LapseRead, ActiveOf
  <2> QED
    BY <1>3, <2>1, <2>2
<1>7. ASSUME NEW c \in Sessions, CreateCommit(c) PROVE Inv'
  <2>1. op[c] = "create" /\ Finish(c) /\ UNCHANGED <<now, expiry, histVars>>
        /\ status' = [status EXCEPT ![sub[c]] = "PENDING"]
    BY <1>7 DEF CreateCommit, Commit
  <2>2. sub[c] \in Subs /\ status[sub[c]] = "none" /\ activators[sub[c]] = {}
    BY <2>1 DEF SessionInv, Pending, ActivatedIsPast
  <2>3. TypeOK'
    BY <2>1, <2>2, FinishKeepsOthers DEF TypeOK
  <2>4. SessionInv'
    BY <2>1, <2>2, FinishKeepsOthers
       DEF TypeOK, SessionInv, Pending, OneCreator, ActivatedIsPast
  <2>5. RetryIsRefused' /\ ExpiredIsOver'
    BY <2>1, <2>2, FinishKeepsOthers DEF TypeOK, RetryIsRefused, ExpiredIsOver
  <2> QED
    BY <2>3, <2>4, <2>5
<1>8. ASSUME NEW c \in Sessions, ActivateCommit(c) PROVE Inv'
  <2>1. op[c] = "activate" /\ Finish(c) /\ UNCHANGED <<now, expiry, ended>>
        /\ status' = [status EXCEPT ![sub[c]] = "ACTIVE"]
        /\ activators' = [activators EXCEPT ![sub[c]] = @ \cup {c}]
    BY <1>8 DEF ActivateCommit, Commit
  <2>2. sub[c] \in Subs /\ status[sub[c]] # "none"
    BY <2>1 DEF SessionInv, Pending
  <2>3. TypeOK'
    BY <2>1, <2>2, FinishKeepsOthers DEF TypeOK
  <2>4. SessionInv'
    BY <2>1, <2>2, FinishKeepsOthers
       DEF TypeOK, SessionInv, Pending, OneCreator, ActivatedIsPast
  <2>5. RetryIsRefused' /\ ExpiredIsOver'
    BY <2>1, <2>2, FinishKeepsOthers
       DEF TypeOK, SessionInv, Pending, RetryIsRefused, ExpiredIsOver
  <2> QED
    BY <2>3, <2>4, <2>5
<1>9. ASSUME NEW c \in Sessions, LapseCommit(c) \/ ExpireCommit(c) PROVE Inv'
  <2>1. /\ op[c] \in {"lapse", "expire"} /\ Finish(c)
        /\ UNCHANGED <<now, expiry, activators>>
        /\ status' = [status EXCEPT ![sub[c]] = "EXPIRED"]
        /\ \/ op[c] = "lapse" /\ ended' = ended
           \/ ended' = ended \cup {sub[c]}
    BY <1>9 DEF LapseCommit, ExpireCommit, Commit
  <2>2. sub[c] \in Subs /\ status[sub[c]] # "none" /\ (op[c] = "lapse" => expiry[sub[c]] < now)
    BY <2>1 DEF SessionInv, Pending
  <2>3. TypeOK'
    BY <2>1, <2>2, FinishKeepsOthers DEF TypeOK
  <2>4. SessionInv'
    BY <2>1, <2>2, FinishKeepsOthers
       DEF TypeOK, SessionInv, Pending, OneCreator, ActivatedIsPast
  <2>5. RetryIsRefused' /\ ExpiredIsOver'
    BY <2>1, <2>2, FinishKeepsOthers DEF TypeOK, RetryIsRefused, ExpiredIsOver
  <2> QED
    BY <2>3, <2>4, <2>5
<1>10. ASSUME NEW c \in Sessions, Abandon(c) PROVE Inv'
  BY <1>10, FinishKeepsOthers
     DEF Abandon, TypeOK, SessionInv, Pending, OneCreator, ActivatedIsPast,
         RetryIsRefused, ExpiredIsOver
<1> QED
  BY <1>0, <1>1, <1>2, <1>4, <1>5, <1>6, <1>7, <1>8, <1>9, <1>10 DEF Next

(* The inductive invariant: types, what in-flight commits may count on.     *)
THEOREM InvHolds == Spec => []Inv
  BY InitInv, StepInv, PTL DEF Spec

(* The rows and the calls in flight keep their types.                       *)
THEOREM TypeCorrect == Spec => []TypeOK
<1>1. Inv => TypeOK
  BY DEF Inv
<1> QED
  BY <1>1, InvHolds, PTL

(* A client's repeated activation is refused (RetryIsRefused).              *)
THEOREM RepeatIsRefused == Spec => []RetryIsRefused
  BY InvHolds, PTL DEF Inv

(* No interleaving of commits expires a row before its date (ExpiredIsOver).*)
THEOREM NoEarlyExpiry == Spec => []ExpiredIsOver
  BY InvHolds, PTL DEF Inv

-----------------------------------------------------------------------------
(* A step that leaves no expiry in flight leaves a user with several active *)
(* rows as stuck as before.                                                 *)
LEMMA StepStuck ==
  ASSUME Inv, [Next]_vars, NEW u \in Users, Stuck(u),
         \A c \in Sessions : op'[c] # "expire"
  PROVE  Stuck(u)'
<1> USE SubscriptionsAssumption DEF Inv
<1>1. PICK q \in Subs, r \in Subs :
        /\ q # r /\ UserOf[q] = u /\ UserOf[r] = u
        /\ status[q] = "ACTIVE" /\ status[r] = "ACTIVE"
  BY DEF Stuck, ActiveOf
<1>2. \A c \in Sessions : op[c] \in {"lapse", "expire"} => UserOf[sub[c]] # u
  BY DEF Stuck
<1>3. ASSUME /\ status'[q] = "ACTIVE" /\ status'[r] = "ACTIVE"
             /\ \A c \in Sessions : op'[c] \in {"lapse", "expire"} => UserOf[sub'[c]] # u
      PROVE  Stuck(u)'
  BY <1>1, <1>3 DEF Stuck, ActiveOf
<1>4. CASE UNCHANGED vars \/ Tick
  BY <1>1, <1>2, <1>3, <1>4 DEF Tick
<1>5. ASSUME NEW c \in Sessions, NEW s \in Subs, NEW d \in Durations, CreateRead(c, s, d)
      PROVE  Stuck(u)'
  BY <1>1, <1>2, <1>3, <1>5, BeginKeepsOthers DEF CreateRead
<1>6. ASSUME NEW c \in Sessions, NEW s \in Subs, ActivateRead(c, s) \/ ExpireRead(c, s)
      PROVE  Stuck(u)'
  <2>1. CASE ActivateRead(c, s)
    BY <1>1, <1>2, <1>3, <2>1, BeginKeepsOthers DEF ActivateRead
  <2>2. CASE ExpireRead(c, s)
    BY <2>2, BeginKeepsOthers DEF ExpireRead
  <2> QED
    BY <1>6, <2>1, <2>2
<1>7. ASSUME NEW c \in Sessions, NEW v \in Users, LapseRead(c, v) PROVE Stuck(u)'
  <2>1. PICK s \in Subs : ActiveOf(v) = {s} /\ Begin(c, "lapse", s)
    BY <1>7 DEF LapseRead
  <2>2. v # u
    BY <1>1, <2>1 DEF ActiveOf
  <2>3. UserOf[s] # u
    BY <2>1, <2>2 DEF ActiveOf
  <2> QED
    BY <1>1, <1>2, <1>3, <1>7, <2>1, <2>3, BeginKeepsOthers DEF LapseRead
<1>8. ASSUME NEW c \in Sessions,
             CreateCommit(c) \/ ActivateCommit(c) \/ LapseCommit(c) \/ ExpireCommit(c)
      PROVE  Stuck(u)'
  <2>1. Finish(c) /\ sub[c] \in Subs
    BY <1>8 DEF CreateCommit, ActivateCommit, LapseCommit, ExpireCommit, Commit,
                SessionInv, Pending
  <2>2. status'[q] = "ACTIVE" /\ status'[r] = "ACTIVE"
    BY <1>1, <1>2, <1>8, <2>1
       DEF CreateCommit, ActivateCommit, LapseCommit, ExpireCommit, Commit,
           TypeOK, SessionInv, Pending
  <2> QED
    BY <1>2, <1>3, <2>1, <2>2, FinishKeepsOthers
<1>9. ASSUME NEW c \in Sessions, Abandon(c) PROVE Stuck(u)'
  BY <1>1, <1>2, <1>3, <1>9, FinishKeepsOthers DEF Abandon
<1> QED
  BY <1>4, <1>5, <1>6, <1>7, <1>8, <1>9 DEF Next

(* A user with several ACTIVE rows stays locked out (StuckUsersStay).       *)
THEOREM StuckIsForever == Spec => StuckUsersStay
<1>1. Inv /\ [Next]_vars =>
        [\A u \in Users : Stuck(u) => Stuck(u)' \/ \E c \in Sessions : op'[c] = "expire"]_vars
  BY StepStuck
<1> QED
  BY <1>1, InvHolds, PTL DEF Spec, StuckUsersStay
=============================================================================
