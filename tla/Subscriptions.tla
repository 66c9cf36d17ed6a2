--------------------------- MODULE Subscriptions ---------------------------
(***************************************************************************)
(* SubscriptionService over the table subscriptions.  Each call runs in a  *)
(* database session of its own and has two steps: the SELECT with the      *)
(* checks on its row, and the commit, an UPDATE ... WHERE id = ? (or an    *)
(* INSERT) that looks at nothing.  Sessions interleave between the two.    *)
(* A call that is refused, or whose SELECT finds more rows than            *)
(* scalar_one_or_none allows, changes nothing: it is not a step.           *)
(*                                                                         *)
(* A row is named by the create call that inserts it.  Time counts ticks.  *)
(***************************************************************************)
EXTENDS Integers

CONSTANTS
  Subs,        \* rows
  Users,
  UserOf,      \* user_id of each row
  Sessions,    \* clients, one call at a time each
  Durations,   \* duration_days a create call may ask for, in ticks
  NoSub,       \* no row
  MaxTime      \* bound of the model: ticks explored

ASSUME SubscriptionsAssumption ==
  /\ UserOf \in [Subs -> Users]
  /\ Durations \subseteq Int
  /\ MaxTime \in Nat
  /\ NoSub \notin Subs

VARIABLES
  now,         \* the clock
  status,      \* status of each row, "none" before the INSERT
  expiry,      \* expiry_date
  op,          \* the commit a session is about to do, "idle" if none
  sub,         \* the row it is for
  activators,  \* history: sessions whose activation of the row was committed
  ended        \* history: rows some expire_subscription committed on

rowVars == <<status, expiry>>
sessionVars == <<op, sub>>
histVars == <<activators, ended>>
vars == <<now, rowVars, sessionVars, histVars>>

Ops == {"create", "activate", "lapse", "expire"}

Init ==
  /\ now = 0
  /\ status = [s \in Subs |-> "none"]
  /\ expiry = [s \in Subs |-> 0]
  /\ op = [c \in Sessions |-> "idle"]
  /\ sub = [c \in Sessions |-> NoSub]
  /\ activators = [s \in Subs |-> {}]
  /\ ended = {}

Tick ==
  /\ now < MaxTime
  /\ now' = now + 1
  /\ UNCHANGED <<rowVars, sessionVars, histVars>>

ActiveOf(u) == {s \in Subs : UserOf[s] = u /\ status[s] = "ACTIVE"}

(* Session c goes on to its commit on row s.                                *)
Begin(c, o, s) ==
  /\ op[c] = "idle"
  /\ op' = [op EXCEPT ![c] = o]
  /\ sub' = [sub EXCEPT ![c] = s]

Finish(c) ==
  /\ op' = [op EXCEPT ![c] = "idle"]
  /\ sub' = [sub EXCEPT ![c] = NoSub]

(* The commit: the row gets its new status and the session is done.         *)
Commit(c, o, st) ==
  /\ op[c] = o
  /\ status' = [status EXCEPT ![sub[c]] = st]
  /\ Finish(c)
  /\ UNCHANGED <<now, expiry>>

-----------------------------------------------------------------------------
(* create_subscription: no ACTIVE row of the user is found; the expiry      *)
(* counts from here.                                                        *)
CreateRead(c, s, d) ==
  /\ status[s] = "none"
  /\ \A b \in Sessions : op[b] = "create" => sub[b] # s
  /\ ActiveOf(UserOf[s]) = {}
  /\ Begin(c, "create", s)
  /\ expiry' = [expiry EXCEPT ![s] = now + d]
  /\ UNCHANGED <<now, status, histVars>>

CreateCommit(c) == Commit(c, "create", "PENDING") /\ UNCHANGED histVars

(* Mutant: the status is not checked.                                       *)
ActivateUnchecked(c, s) ==
  /\ status[s] # "none"
  /\ Begin(c, "activate", s)
  /\ UNCHANGED <<now, rowVars, histVars>>

(* activate_subscription: neither the user's other rows nor the expiry is   *)
(* looked at.                                                               *)
ActivateRead(c, s) ==
  /\ status[s] = "PENDING"
  /\ Begin(c, "activate", s)
  /\ UNCHANGED <<now, rowVars, histVars>>

ActivateCommit(c) ==
  /\ Commit(c, "activate", "ACTIVE")
  /\ activators' = [activators EXCEPT ![sub[c]] = @ \cup {c}]
  /\ UNCHANGED ended

(* Mutant: the first ACTIVE row is taken where there are several.           *)
LapseFirst(c, u) ==
  /\ \E s \in ActiveOf(u) : expiry[s] < now /\ Begin(c, "lapse", s)
  /\ UNCHANGED <<now, rowVars, histVars>>

(* Mutant: "<=" instead of "<".                                             *)
LapseEarly(c, u) ==
  /\ \E s \in Subs :
       /\ ActiveOf(u) = {s}
       /\ expiry[s] <= now
       /\ Begin(c, "lapse", s)
  /\ UNCHANGED <<now, rowVars, histVars>>

(* check_access of an ACTIVE row past its expiry.                           *)
LapseRead(c, u) ==
  /\ \E s \in Subs :
       /\ ActiveOf(u) = {s}
       /\ expiry[s] < now
       /\ Begin(c, "lapse", s)
  /\ UNCHANGED <<now, rowVars, histVars>>

LapseCommit(c) == Commit(c, "lapse", "EXPIRED") /\ UNCHANGED histVars

(* expire_subscription, which no route calls; on a row that is EXPIRED      *)
(* already the session has nothing to write.                                *)
ExpireRead(c, s) ==
  /\ status[s] \notin {"none", "EXPIRED"}
  /\ Begin(c, "expire", s)
  /\ UNCHANGED <<now, rowVars, histVars>>

ExpireCommit(c) ==
  /\ Commit(c, "expire", "EXPIRED")
  /\ ended' = ended \cup {sub[c]}
  /\ UNCHANGED activators

(* The commit raises, or the process stops before it.                       *)
Abandon(c) ==
  /\ op[c] # "idle"
  /\ Finish(c)
  /\ UNCHANGED <<now, rowVars, histVars>>

Next ==
  \/ Tick
  \/ \E c \in Sessions :
       \/ \E s \in Subs, d \in Durations : CreateRead(c, s, d)
       \/ \E s \in Subs : ActivateRead(c, s) \/ ExpireRead(c, s)
       \/ \E u \in Users : LapseRead(c, u)
       \/ CreateCommit(c) \/ ActivateCommit(c) \/ LapseCommit(c)
       \/ ExpireCommit(c) \/ Abandon(c)

Spec == Init /\ [][Next]_vars

-----------------------------------------------------------------------------
TypeOK ==
  /\ now \in 0..MaxTime
  /\ status \in [Subs -> {"none", "PENDING", "ACTIVE", "EXPIRED"}]
  /\ expiry \in [Subs -> Int]
  /\ op \in [Sessions -> Ops \cup {"idle"}]
  /\ sub \in [Sessions -> Subs \cup {NoSub}]
  /\ activators \in [Subs -> SUBSET Sessions]
  /\ ended \subseteq Subs

(* A row may become ACTIVE again after it EXPIRED, when two activations     *)
(* read it PENDING; but a client that repeats an activation which took      *)
(* effect is refused, whatever happened to the row since.                   *)
RetryIsRefused ==
  \A c \in Sessions : op[c] = "activate" => c \notin activators[sub[c]]

(* Whoever's commits overwrite each other, a row is EXPIRED only past its   *)
(* expiry date or because expire_subscription was called for it.            *)
ExpiredIsOver ==
  \A s \in Subs : status[s] = "EXPIRED" => expiry[s] < now \/ s \in ended

(* Once a user has several ACTIVE rows and no expiry of them is in flight,  *)
(* only expire_subscription gets the user out of it: scalar_one_or_none     *)
(* raises in create_subscription and check_access, for ever.                *)
Stuck(u) ==
  /\ \E q, r \in ActiveOf(u) : q # r
  /\ \A c \in Sessions : op[c] \in {"lapse", "expire"} => UserOf[sub[c]] # u
StuckUsersStay ==
  [][\A u \in Users :
       Stuck(u) => Stuck(u)' \/ \E c \in Sessions : op'[c] = "expire"]_vars

(* What the tests expect; see the run that refutes it.                      *)
(* "User already has active subscription": a user never has two.            *)
OneActive == \A q, r \in Subs :
  status[q] = "ACTIVE" /\ status[r] = "ACTIVE" /\ UserOf[q] = UserOf[r] => q = r
=============================================================================
