------------------------------- MODULE Cache -------------------------------
(***************************************************************************)
(* cache/manager.py: the cached values and the commands CacheManager gives *)
(* to Redis.  Redis is external: a key written with SETEX is there until   *)
(* its time is over.  Every method of CacheManager swallows the exceptions *)
(* of Redis: a failed read is a miss, a failed write is no write, and the  *)
(* caller goes on.  The modules that extend this one are its callers.      *)
(*                                                                         *)
(* A cached value is the time its source was read; time is an integer.     *)
(***************************************************************************)
EXTENDS Integers

CONSTANTS
    Keys,       \* cache keys
    TTL,        \* lifetime of an entry in units of time
    MaxTime     \* bound on time, for TLC

ASSUME TTLAssumption == TTL \in Nat \ {0}
ASSUME MaxTimeAssumption == MaxTime \in Nat

VARIABLES
    now,        \* the time
    store       \* per key the value last written and when it expires

Entry == [value : Int, until : Int]

\* No entry: one that was over before time began.
Absent == [value |-> -1, until |-> 0]

CacheTypeOK ==
    /\ now \in Nat
    /\ store \in [Keys -> Entry]

CacheInit ==
    /\ now = 0
    /\ store = [k \in Keys |-> Absent]

\* redis.get finds the key.
Live(k) == now < store[k].until

\* Mutant of Setex: a key is written without a lifetime.
SetForEver(k, v) == store' = [store EXCEPT ![k] = [value |-> v, until |-> MaxTime + 1]]

\* Mutant of Setex: a key that is there is not overwritten.
SetIfAbsent(k, v) ==
    store' = IF Live(k) THEN store
             ELSE [store EXCEPT ![k] = [value |-> v, until |-> now + TTL]]

\* redis.setex(key, ttl, value).
Setex(k, v) == store' = [store EXCEPT ![k] = [value |-> v, until |-> now + TTL]]

\* CacheManager.set: written, or the exception is swallowed.
Set(k, v, stored) == IF stored THEN Setex(k, v) ELSE UNCHANGED store

\* Time passes.
Pass == /\ now < MaxTime
        /\ now' = now + 1
        /\ UNCHANGED store
=============================================================================
