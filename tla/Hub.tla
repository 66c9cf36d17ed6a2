-------------------------------- MODULE Hub --------------------------------
(***************************************************************************)
(* ConnectionManager, the endpoint coroutine of each socket, and the sends *)
(* that walk over its sets.  Code between two awaits is one atomic step;   *)
(* a send awaits each socket in turn, so sockets come and go under its     *)
(* loop.  A Python set that changed size while it is iterated makes the    *)
(* loop raise; one that changed and has its old size again may be walked   *)
(* in any way.                                                             *)
(*                                                                         *)
(* The socket itself is external: accept and send_text may raise at any    *)
(* time, and do nothing for a socket whose endpoint has ended.  A socket   *)
(* that is not CONNECTED and one whose send_text raises are not told       *)
(* apart: the loop marks both dead.  (Starlette refuses receive_text       *)
(* before accept, the order the endpoint uses; the sockets of the tests    *)
(* allow it, and theirs is the behaviour modelled.)                        *)
(***************************************************************************)
EXTENDS FiniteSets

CONSTANTS
  Sockets,
  Users,
  Admins,      \* settings.telegram.admin_ids
  NoUser,      \* a user_id of None or 0
  Sends,       \* calls of send_personal, send_admin and broadcast
  ToAdmins, ToAll     \* markers of a send_admin and of a broadcast

ASSUME HubAssumption ==
  /\ Admins \subseteq Users /\ NoUser \notin Users
  /\ IsFiniteSet(Sockets)
  /\ ToAdmins \notin Users /\ ToAll \notin Users /\ ToAdmins # ToAll

VARIABLES
  keys,        \* the keys of self._connections
  conns,       \* its values, {} where there is no key
  admins,      \* self._admin_connections
  session,     \* session.user_id of each endpoint
  pc,          \* each endpoint: in receive_text, in accept, or ended
  to,          \* whom a send is for: a user, ToAdmins or ToAll
  send,        \* each send: idle, in send_text, done, or raised
  cursor,      \* the socket it awaits
  pool,        \* the set it iterates, as it was when the loop began
  got,         \* sockets whose send_text returned
  dead,        \* dead_connections
  touched,     \* sends whose set changed since their loop began
  orphaned,    \* sends whose set is no longer in self._connections
  pruned       \* history: <<u, s>> where a send discarded s from the set of u

registry == <<keys, conns, admins>>
sockVars == <<session, pc>>
sendVars == <<to, send, cursor, pool, got, dead>>
vars == <<registry, sockVars, sendVars, touched, orphaned, pruned>>

NoSocket == "none"

Init ==
  /\ keys = {}
  /\ conns = [u \in Users |-> {}]
  /\ admins = {}
  /\ session = [s \in Sockets |-> NoUser]
  /\ pc = [s \in Sockets |-> "receive"]
  /\ to = [t \in Sends |-> ToAll]
  /\ send = [t \in Sends |-> "idle"]
  /\ cursor = [t \in Sends |-> NoSocket]
  /\ pool = [t \in Sends |-> {}]
  /\ got = [t \in Sends |-> {}]
  /\ dead = [t \in Sends |-> {}]
  /\ touched = {}
  /\ orphaned = {}
  /\ pruned = {}

-----------------------------------------------------------------------------
(* The set a send iterates, and what a change of the registry does to it.   *)

Walking == {t \in Sends : send[t] = "await"}

Walked(t) ==
  CASE to[t] = ToAll -> pool[t]
    [] to[t] = ToAdmins -> admins
    [] to[t] \in Users -> IF t \in orphaned THEN {} ELSE conns[to[t]]

(* How the sends in W notice that the registry became what its primed       *)
(* variables say.                                                           *)
NoteChange(W) ==
  /\ touched' = touched \cup
       {t \in W :
          \/ to[t] = ToAdmins /\ admins' # admins
          \/ to[t] \in Users /\ conns'[to[t]] # conns[to[t]]}
  /\ orphaned' = orphaned \cup {t \in W : to[t] \in keys \ keys'}

-----------------------------------------------------------------------------
(* The endpoint.                                                            *)

(* An auth frame: the session takes the claimed id, then accept is awaited. *)
Authenticate(s, u) ==
  /\ pc[s] = "receive"
  /\ session' = [session EXCEPT ![s] = u]
  /\ pc' = [pc EXCEPT ![s] = "accept"]
  /\ UNCHANGED <<registry, sendVars, touched, orphaned, pruned>>

(* Mutant: an administrator is not entered in the set of the user.          *)
RegisterEither(s) ==
  /\ pc[s] = "accept"
  /\ pc' = [pc EXCEPT ![s] = "receive"]
  /\ LET u == session[s] IN
       IF u \in Users /\ u \notin Admins
         THEN /\ keys' = keys \cup {u}
              /\ conns' = [conns EXCEPT ![u] = @ \cup {s}]
              /\ UNCHANGED admins
         ELSE /\ admins' = IF u \in Admins THEN admins \cup {s} ELSE admins
              /\ UNCHANGED <<keys, conns>>
  /\ NoteChange(Walking)
  /\ UNCHANGED <<session, sendVars, pruned>>

(* accept returned: connect enters the socket, and the confirmation is      *)
(* sent (it touches nothing, so its await is not told apart from the next). *)
Register(s) ==
  /\ pc[s] = "accept"
  /\ pc' = [pc EXCEPT ![s] = "receive"]
  /\ LET u == session[s] IN
       /\ keys' = IF u \in Users THEN keys \cup {u} ELSE keys
       /\ conns' = IF u \in Users THEN [conns EXCEPT ![u] = @ \cup {s}] ELSE conns
       /\ admins' = IF u \in Admins THEN admins \cup {s} ELSE admins
  /\ NoteChange(Walking)
  /\ UNCHANGED <<session, sendVars, pruned>>

(* disconnect with the id the session has now.                              *)
Disconnect(s) ==
  LET u == session[s] IN
    /\ conns' = IF u \in keys THEN [conns EXCEPT ![u] = @ \ {s}] ELSE conns
    /\ keys' = IF u \in keys /\ conns[u] \subseteq {s} THEN keys \ {u} ELSE keys
    /\ admins' = IF u \in Admins THEN admins \ {s} ELSE admins

(* Mutant: the role is not passed on to disconnect.                         *)
EndKeepsRole(s) ==
  /\ pc[s] # "ended"
  /\ pc' = [pc EXCEPT ![s] = "ended"]
  /\ LET u == session[s] IN
       /\ conns' = IF u \in keys THEN [conns EXCEPT ![u] = @ \ {s}] ELSE conns
       /\ keys' = IF u \in keys /\ conns[u] \subseteq {s} THEN keys \ {u} ELSE keys
  /\ NoteChange(Walking)
  /\ UNCHANGED <<admins, session, sendVars, pruned>>

(* Mutant: the entry of a user is kept when its last socket leaves.         *)
EndKeepsKey(s) ==
  /\ pc[s] # "ended"
  /\ pc' = [pc EXCEPT ![s] = "ended"]
  /\ LET u == session[s] IN
       /\ conns' = IF u \in keys THEN [conns EXCEPT ![u] = @ \ {s}] ELSE conns
       /\ admins' = IF u \in Admins THEN admins \ {s} ELSE admins
  /\ NoteChange(Walking)
  /\ UNCHANGED <<keys, session, sendVars, pruned>>

(* The client disconnects, or accept, send_text or the frame raises: the    *)
(* finally clause.                                                          *)
End(s) ==
  /\ pc[s] # "ended"
  /\ pc' = [pc EXCEPT ![s] = "ended"]
  /\ Disconnect(s)
  /\ NoteChange(Walking)
  /\ UNCHANGED <<session, sendVars, pruned>>

-----------------------------------------------------------------------------
(* The sends.                                                               *)

Await(t, s) ==
  /\ send' = [send EXCEPT ![t] = "await"]
  /\ cursor' = [cursor EXCEPT ![t] = s]
  /\ UNCHANGED <<registry, touched, orphaned, pruned>>

Stop(t, how) ==
  /\ send' = [send EXCEPT ![t] = how]
  /\ cursor' = [cursor EXCEPT ![t] = NoSocket]

(* The loop begins and awaits its first socket, or finds none.              *)
Begin(t, x) ==
  /\ send[t] = "idle"
  /\ to' = [to EXCEPT ![t] = x]
  /\ LET start == CASE x = ToAll -> admins \cup UNION {conns[u] : u \in keys}
                    [] x = ToAdmins -> admins
                    [] x \in Users -> conns[x]
     IN /\ pool' = [pool EXCEPT ![t] = start]
        /\ \/ \E s \in start : Await(t, s)
           \/ start = {} /\ Stop(t, "done")
              /\ UNCHANGED <<registry, touched, orphaned, pruned>>
  /\ UNCHANGED <<sockVars, got, dead>>

(* The sets from which a send discards the sockets it found dead.           *)
Cleaned(t) ==
  CASE to[t] = ToAll -> keys
    [] to[t] = ToAdmins -> {}
    [] to[t] \in Users -> {to[t]}

(* After the loop.  send_personal looks its user up again: a KeyError if    *)
(* the entry is gone.                                                       *)
Clean(t, found) ==
  \/ /\ found # {} /\ ~(Cleaned(t) \subseteq keys)
     /\ Stop(t, "KeyError")
     /\ UNCHANGED <<registry, touched, orphaned, pruned>>
  \/ /\ found = {} \/ Cleaned(t) \subseteq keys
     /\ Stop(t, "done")
     /\ conns' = [u \in Users |-> IF u \in Cleaned(t) THEN conns[u] \ found ELSE conns[u]]
     /\ admins' = IF to[t] \in Users THEN admins ELSE admins \ found
     /\ pruned' = pruned \cup {p \in Cleaned(t) \X found : p[2] \in conns[p[1]]}
     /\ UNCHANGED keys
     /\ NoteChange(Walking \ {t})

(* The loop takes its next socket, ends, or finds that its set has another  *)
(* size.  visited is where it has been.                                     *)
Advance(t, visited, found) ==
  \/ /\ Cardinality(Walked(t)) # Cardinality(pool[t])
     /\ Stop(t, "RuntimeError")
     /\ UNCHANGED <<registry, touched, orphaned, pruned>>
  \/ /\ Cardinality(Walked(t)) = Cardinality(pool[t])
     /\ \/ \E s \in Walked(t) : (s \in visited => t \in touched) /\ Await(t, s)
        \/ (Walked(t) \subseteq visited \/ t \in touched) /\ Clean(t, found)

(* Mutant: the loop stops at the first socket that fails.                   *)
ResumeStopsAtError(t, ok) ==
  /\ send[t] = "await"
  /\ ok => pc[cursor[t]] # "ended"
  /\ LET s == cursor[t]
         found == IF ok THEN dead[t] ELSE dead[t] \cup {s}
     IN /\ got' = IF ok THEN [got EXCEPT ![t] = @ \cup {s}] ELSE got
        /\ dead' = [dead EXCEPT ![t] = found]
        /\ IF ok THEN Advance(t, got[t] \cup found \cup {s}, found) ELSE Clean(t, found)
  /\ UNCHANGED <<sockVars, to, pool>>

(* Mutant: the loop walks a copy of the set.                                *)
ResumeOverCopy(t, ok) ==
  /\ send[t] = "await"
  /\ ok => pc[cursor[t]] # "ended"
  /\ LET s == cursor[t]
         found == IF ok THEN dead[t] ELSE dead[t] \cup {s}
         left == pool[t] \ (got[t] \cup found \cup {s})
     IN /\ got' = IF ok THEN [got EXCEPT ![t] = @ \cup {s}] ELSE got
        /\ dead' = [dead EXCEPT ![t] = found]
        /\ IF left = {} THEN Clean(t, found) ELSE \E x \in left : Await(t, x)
  /\ UNCHANGED <<sockVars, to, pool>>

(* send_text returned or raised; the loop goes on up to its next await.     *)
Resume(t, ok) ==
  /\ send[t] = "await"
  /\ ok => pc[cursor[t]] # "ended"
  /\ LET s == cursor[t]
         found == IF ok THEN dead[t] ELSE dead[t] \cup {s}
     IN /\ got' = IF ok THEN [got EXCEPT ![t] = @ \cup {s}] ELSE got
        /\ dead' = [dead EXCEPT ![t] = found]
        /\ Advance(t, got[t] \cup found \cup {s}, found)
  /\ UNCHANGED <<sockVars, to, pool>>

Next ==
  \/ \E s \in Sockets :
       \/ \E u \in Users \cup {NoUser} : Authenticate(s, u)
       \/ Register(s) \/ End(s)
  \/ \E t \in Sends :
       \/ \E x \in Users \cup {ToAdmins, ToAll} : Begin(t, x)
       \/ \E ok \in BOOLEAN : Resume(t, ok)

Spec == Init /\ [][Next]_vars

-----------------------------------------------------------------------------
TypeOK ==
  /\ keys \subseteq Users
  /\ conns \in [Users -> SUBSET Sockets]
  /\ admins \subseteq Sockets
  /\ session \in [Sockets -> Users \cup {NoUser}]
  /\ pc \in [Sockets -> {"receive", "accept", "ended"}]
  /\ to \in [Sends -> Users \cup {ToAdmins, ToAll}]
  /\ send \in [Sends -> {"idle", "await", "done", "RuntimeError", "KeyError"}]
  /\ cursor \in [Sends -> Sockets \cup {NoSocket}]
  /\ pool \in [Sends -> SUBSET Sockets]
  /\ got \in [Sends -> SUBSET Sockets]
  /\ dead \in [Sends -> SUBSET Sockets]
  /\ touched \subseteq Sends /\ orphaned \subseteq Sends
  /\ pruned \subseteq Users \X Sockets

(* send_personal never finds its user gone when it cleans up: an entry is   *)
(* deleted with its last socket only, and the loop over it notices that.    *)
NoKeyError == \A t \in Sends : send[t] # "KeyError"

(* A socket that ended is left registered only under an id it had claimed   *)
(* before its last one: who authenticates once leaves no trace.             *)
EndedSocketsAreGone ==
  \A s \in Sockets : pc[s] = "ended" =>
    /\ session[s] \in Users => s \notin conns[session[s]]
    /\ session[s] \in Admins => s \notin admins

(* A socket whose endpoint waits for its next frame is registered under the *)
(* id it claimed, whoever of that user came or went meanwhile, unless a     *)
(* send gave it up.                                                         *)
LiveSocketsAreListed ==
  \A s \in Sockets : pc[s] = "receive" /\ session[s] \in Users =>
    \/ s \in conns[session[s]] /\ session[s] \in keys
    \/ <<session[s], s>> \in pruned

(* get_connected_users lists a user without a socket only if a send         *)
(* discarded sockets of that user.                                          *)
ListedUsersHaveSockets ==
  \A u \in keys : conns[u] = {} => \E s \in Sockets : <<u, s>> \in pruned

(* A send that ends without raising has tried every socket its set had when *)
(* it began, unless that set changed under it; a broadcast always has.      *)
SendsTryAll ==
  \A t \in Sends : send[t] = "done" /\ t \notin touched => pool[t] \subseteq got[t] \cup dead[t]
=============================================================================
