---------------------------- MODULE RateLimiter ----------------------------
(***************************************************************************)
(* RateLimitMiddleware of api/middleware.py: a counter and the end of its  *)
(* window per client address and exact path.  A request is decided without *)
(* an await.  Time is an integer; the window is 60 seconds in the code.    *)
(***************************************************************************)
EXTENDS Integers, Sequences, FiniteSets

CONSTANTS
    Paths,      \* keys: a client's address and a path under /api/
    Window,     \* length of a window
    Limit,      \* requests a window admits in production
    MaxClock,   \* bound on time, for TLC
    MaxBurst    \* bound on the requests for a path at one time, for TLC

ASSUME LimiterAssumption ==
    Window \in Nat \ {0} /\ Limit \in Nat \ {0} /\ MaxClock \in Nat /\ MaxBurst \in Nat

VARIABLES
    clock,      \* time.time()
    count,      \* per key requests in its window, refused ones included
    reset,      \* per key the end of its window
    log         \* history: per key its requests, in order

limiterVars == <<clock, count, reset, log>>

\* What the history keeps of a request: its time, the end of the window it fell in,
\* its number there and whether it went through.
Arrival == [at : Nat, window : Nat, number : Nat, through : BOOLEAN]

\* Types of the state.
LimiterTypeOK ==
    /\ clock \in 1 .. MaxClock + 1
    /\ count \in [Paths -> Nat]
    /\ reset \in [Paths -> Nat]
    /\ log \in [Paths -> Seq(Arrival)]

\* The defaultdict: a key that was never asked for has a window that is over.
LimiterInit ==
    /\ clock = 1
    /\ count = [p \in Paths |-> 0]
    /\ reset = [p \in Paths |-> 0]
    /\ log = [p \in Paths |-> <<>>]

\* Mutant of Over: a window that restarts as soon as its end is near.
OverEarly(p) == reset[p] < clock + Window

\* The window of the key is over.
Over(p) == reset[p] < clock

\* Mutant of Counted: the count goes on through the windows.
CountedOn(p) == count[p] + 1

\* The count that the request finds, itself included.
Counted(p) == IF Over(p) THEN 1 ELSE count[p] + 1

\* The end of the window that the request falls in.
WindowEnd(p) == IF Over(p) THEN clock + Window ELSE reset[p]

\* The requests of the history of p from time a to time b.
Between(p, a, b) == {i \in DOMAIN log[p] : a <= log[p][i].at /\ log[p][i].at <= b}

\* A request for p: the window restarts if it is over, the request is counted, and
\* it goes through unless the count is above the limit.
Request(p) ==
    /\ Cardinality(Between(p, clock, clock)) < MaxBurst
    /\ count' = [count EXCEPT ![p] = Counted(p)]
    /\ reset' = [reset EXCEPT ![p] = WindowEnd(p)]
    /\ log' = [log EXCEPT ![p] =
                 Append(@, [at |-> clock, window |-> WindowEnd(p), number |-> Counted(p),
                            through |-> ~(Counted(p) > Limit)])]
    /\ UNCHANGED clock

PassTime ==
    /\ clock <= MaxClock
    /\ clock' = clock + 1
    /\ UNCHANGED <<count, reset, log>>

LimiterNext == PassTime \/ \E p \in Paths : Request(p)

LimiterSpec == LimiterInit /\ [][LimiterNext]_limiterVars

\* However a client times its requests, any stretch of the length of a window lets
\* through twice the limit at most: it can touch two windows but not three.
TwiceTheLimitAtMost ==
    \A p \in Paths : \A a \in 1 .. clock :
        Cardinality({i \in Between(p, a, a + Window) : log[p][i].through}) <= 2 * Limit

\* A client is refused only if it sent more than the limit within the last window,
\* although the windows begin whenever its first request happens to come.
PoliteAreServed ==
    \A p \in Paths : \A i \in DOMAIN log[p] :
        ~log[p][i].through =>
            Cardinality({j \in Between(p, log[p][i].at - Window, log[p][i].at) : j <= i}) > Limit
=============================================================================
