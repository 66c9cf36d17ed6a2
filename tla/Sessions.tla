------------------------------ MODULE Sessions ------------------------------
(***************************************************************************)
(* database/manager.py under the routes of api/routes/: each request has   *)
(* one session, a session takes a connection from the pool at the first    *)
(* statement of a transaction and gives it back with its commit, its       *)
(* rollback or its close.  The pool is external: pool_size + max_overflow  *)
(* connections, and a TimeoutError for who waits longer than pool_timeout. *)
(* (With SQLite there is no pool: every session opens its own connection.) *)
(***************************************************************************)
EXTENDS Integers, Sequences, FiniteSets

CONSTANTS
    Requests,       \* HTTP requests
    Route,          \* the route of each one, one of Routes
    Connections     \* pool_size + max_overflow, 50 in the code

\* The transactions a service makes.  A "write" ends with the commit of the service
\* and a "read" with the session.

\* Any number of SELECTs.
ReadOnly == <<"read">>

\* A commit, and the refresh of the row after it.
Store == <<"write", "read">>

\* check_access: a commit if the subscription has lapsed, or none.
MayLapse == <<"lapse">>

\* verify_payment: as Store, but it may raise after a commit.
Verify == <<"verify", "read">>

\* The transactions of each route.
SubscriptionRoutes ==
    [subscribe |-> Store, activate |-> Store, status |-> ReadOnly, access |-> MayLapse]
PaymentRoutes == [invoice |-> Store, verify |-> Verify, confirm |-> Store, payment |-> ReadOnly]

\* The orchestrator of a request has no adapters: no quote, and so no statement.
TradingRoutes == [quote |-> <<>>, execute |-> <<>>, history |-> ReadOnly]
AirdropRoutes == [eligibility |-> ReadOnly, campaigns |-> ReadOnly, tasks |-> ReadOnly]

\* log_event raises before its first statement.
DashboardRoutes == [event |-> <<>>, events |-> ReadOnly, summary |-> ReadOnly]

Transactions(q) ==
    IF q \in DOMAIN SubscriptionRoutes THEN SubscriptionRoutes[q]
    ELSE IF q \in DOMAIN PaymentRoutes THEN PaymentRoutes[q]
    ELSE IF q \in DOMAIN TradingRoutes THEN TradingRoutes[q]
    ELSE IF q \in DOMAIN AirdropRoutes THEN AirdropRoutes[q]
    ELSE DashboardRoutes[q]

Routes ==
    DOMAIN SubscriptionRoutes \cup DOMAIN PaymentRoutes \cup DOMAIN TradingRoutes
        \cup DOMAIN AirdropRoutes \cup DOMAIN DashboardRoutes

ASSUME RouteAssumption == Route \in [Requests -> Routes]
ASSUME ConnectionsAssumption == Connections \in Nat \ {0} /\ IsFiniteSet(Requests)

VARIABLES
    stage,      \* where each request is
    todo,       \* the transactions it still has to do, the current one included
    free,       \* connections the pool can still give
    stored      \* history: requests that have committed something

sessionsVars == <<stage, todo, free, stored>>

\* Types of the state.
SessionsTypeOK ==
    /\ stage \in [Requests -> {"new", "waits", "works", "answered", "failed"}]
    /\ todo \in [Requests -> Seq({"write", "read", "lapse", "verify"})]
    /\ free \in 0 .. Connections
    /\ stored \in SUBSET Requests

SessionsInit ==
    /\ stage = [r \in Requests |-> "new"]
    /\ todo = [r \in Requests |-> Transactions(Route[r])]
    /\ free = Connections
    /\ stored = {}

-----------------------------------------------------------------------------
\* Where a request is that has the transactions txs to do.
Onward(txs) == IF txs = <<>> THEN "answered" ELSE "waits"

\* The request comes in, and gets as far as its first statement.
Arrive(r) ==
    /\ stage[r] = "new"
    /\ \/ stage' = [stage EXCEPT ![r] = Onward(todo[r])]
       \/ todo[r] = <<>> /\ stage' = [stage EXCEPT ![r] = "failed"]
    /\ UNCHANGED <<todo, free, stored>>

\* A statement outside a transaction begins one: the pool gives a connection.
CheckOut(r) ==
    /\ stage[r] = "waits"
    /\ free > 0
    /\ free' = free - 1
    /\ stage' = [stage EXCEPT ![r] = "works"]
    /\ UNCHANGED <<todo, stored>>

\* It waited for pool_timeout seconds.
TimeOut(r) ==
    /\ stage[r] = "waits"
    /\ free = 0
    /\ stage' = [stage EXCEPT ![r] = "failed"]
    /\ UNCHANGED <<todo, free, stored>>

\* The commit of a service gives the connection back; the refresh needs one again.
Commit(r) ==
    /\ stage[r] = "works" /\ Head(todo[r]) # "read"
    /\ stored' = stored \cup {r}
    /\ todo' = [todo EXCEPT ![r] = Tail(@)]
    /\ stage' = [stage EXCEPT ![r] = Onward(Tail(todo[r]))]
    /\ free' = free + 1

\* verify_payment commits that the invoice is over, and raises.
CommitAndRaise(r) ==
    /\ stage[r] = "works" /\ Head(todo[r]) = "verify"
    /\ stored' = stored \cup {r}
    /\ stage' = [stage EXCEPT ![r] = "failed"]
    /\ free' = free + 1
    /\ UNCHANGED todo

\* The route returns, and session() commits what was only read and closes.
Finish(r) ==
    /\ stage[r] = "works" /\ Head(todo[r]) \in {"read", "lapse"}
    /\ todo' = [todo EXCEPT ![r] = Tail(@)]
    /\ stage' = [stage EXCEPT ![r] = Onward(Tail(todo[r]))]
    /\ free' = free + 1
    /\ UNCHANGED stored

\* Mutant of Abort: a service that stores before it checks.
AbortLate(r) ==
    /\ stage[r] = "works"
    /\ stage' = [stage EXCEPT ![r] = "failed"]
    /\ free' = free + 1
    /\ stored' = stored \cup {r}
    /\ UNCHANGED todo

\* Mutant of Abort: the session is not closed when something raises.
AbortOpen(r) ==
    /\ stage[r] = "works"
    /\ stage' = [stage EXCEPT ![r] = "failed"]
    /\ UNCHANGED <<todo, free, stored>>

\* A check of the service fails, or a statement or the commit raises: rollback, close.
Abort(r) ==
    /\ stage[r] = "works"
    /\ stage' = [stage EXCEPT ![r] = "failed"]
    /\ free' = free + 1
    /\ UNCHANGED <<todo, stored>>

SessionsNext ==
    \E r \in Requests :
        \/ Arrive(r) \/ CheckOut(r) \/ TimeOut(r)
        \/ Commit(r) \/ CommitAndRaise(r) \/ Finish(r) \/ Abort(r)

SessionsSpec == SessionsInit /\ [][SessionsNext]_sessionsVars

-----------------------------------------------------------------------------
\* Whatever way a request ends, its connection is back: what is missing from the
\* pool is with the requests that work.
NothingLeaks == free + Cardinality({r \in Requests : stage[r] = "works"}) = Connections

\* An answer tells what was stored: a request to store something that is answered has
\* stored it; one that fails has not, unless it was the refresh after its commit that
\* got no connection or raised, or a verification that came too late.
AnswersAreTrue ==
    \A r \in Requests :
        /\ stage[r] = "answered" /\ Len(Transactions(Route[r])) = 2 => r \in stored
        /\ stage[r] = "failed" /\ r \in stored =>
              todo[r] = <<"read">> \/ Route[r] = "verify"
=============================================================================
