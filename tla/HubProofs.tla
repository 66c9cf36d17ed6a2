----------------------------- MODULE HubProofs -----------------------------
(***************************************************************************)
(* Theorems about Hub for every finite set of sockets and every set of     *)
(* users and sends.                                                        *)
(***************************************************************************)
EXTENDS Hub, FiniteSetTheorems, TLAPS

USE DEF vars, registry, sockVars, sendVars

(* The dictionary: no set without its key.                                  *)
NoStraySets == \A u \in Users : conns[u] # {} => u \in keys

(* A send that awaits a socket walks over a set that was not empty, and its *)
(* user is a key unless the entry was deleted under it.  As long as nothing *)
(* touched it, its set is the one it began with.                            *)
Underway(t) ==
  /\ send[t] = "idle" => t \notin touched /\ t \notin orphaned
  /\ send[t] = "await" =>
       /\ pool[t] # {} /\ cursor[t] \in Sockets
       /\ to[t] \in Users => to[t] \in keys \/ t \in orphaned
       /\ t \notin touched => t \notin orphaned /\ Walked(t) = pool[t]
SendInv == \A t \in Sends : Underway(t)

SocketInv == EndedSocketsAreGone /\ LiveSocketsAreListed /\ ListedUsersHaveSockets

Inv == TypeOK /\ NoStraySets /\ SendInv /\ NoKeyError /\ SendsTryAll /\ SocketInv

(* At first no socket is registered and no send is under way.               *)
LEMMA InitInv == Init => Inv
  BY HubAssumption
     DEF Init, Inv, TypeOK, NoStraySets, SendInv, Underway, NoKeyError, SocketInv,
         SendsTryAll, EndedSocketsAreGone, LiveSocketsAreListed, ListedUsersHaveSockets

(* Users and the markers are different things.                              *)
LEMMA Recipients == ToAdmins \notin Users /\ ToAll \notin Users /\ ToAll # ToAdmins
  BY HubAssumption

(* What a send iterates, case by case.                                      *)
LEMMA WalkedIs ==
  ASSUME NEW t
  PROVE  /\ to[t] = ToAll => Walked(t) = pool[t]
         /\ to[t] = ToAdmins => Walked(t) = admins
         /\ to[t] \in Users /\ t \notin orphaned => Walked(t) = conns[to[t]]
         /\ to[t] \in Users /\ t \in orphaned => Walked(t) = {}
  BY Recipients DEF Walked

(* The set a send walks, after a step.                                      *)
LEMMA WalkedIsPrime ==
  ASSUME NEW t
  PROVE  /\ to'[t] = ToAll => Walked(t)' = pool'[t]
         /\ to'[t] = ToAdmins => Walked(t)' = admins'
         /\ to'[t] \in Users /\ t \notin orphaned' => Walked(t)' = conns'[to'[t]]
         /\ to'[t] \in Users /\ t \in orphaned' => Walked(t)' = {}
  BY Recipients DEF Walked

(* Sends not in W notice nothing.  Whoever loses its key while walking is   *)
(* orphaned.                                                                *)
LEMMA Noticed ==
  ASSUME TypeOK, NEW W \in SUBSET Walking, NoteChange(W)
  PROVE  /\ touched \subseteq touched' /\ touched' \subseteq Sends
         /\ orphaned \subseteq orphaned' /\ orphaned' \subseteq Sends
         /\ \A t \in W : to[t] \in keys => to[t] \in keys' \/ t \in orphaned'
         /\ \A t \in Sends \ W : /\ t \in touched' => t \in touched
                                 /\ t \in orphaned' => t \in orphaned
  BY DEF TypeOK, NoteChange, Walking

(* A send in W that stays untouched still walks over the set it began with: *)
(* that set is not empty, so its entry was not deleted.                     *)
LEMMA UntouchedWalk ==
  ASSUME TypeOK, SendInv, NoStraySets', keys \subseteq Users,
         NEW W \in SUBSET Walking, NoteChange(W), UNCHANGED <<to, pool>>,
         NEW r \in W, r \notin touched'
  PROVE  r \notin orphaned' /\ Walked(r)' = pool'[r]
<1>1. /\ r \in Sends /\ r \notin touched /\ r \notin orphaned
      /\ Walked(r) = pool[r] /\ pool[r] # {}
      /\ to[r] \in Users \cup {ToAdmins, ToAll}
  BY DEF SendInv, Underway, Walking, NoteChange, TypeOK
<1>2. CASE to[r] = ToAll
  BY <1>1, <1>2, Recipients, WalkedIsPrime DEF NoteChange
<1>3. CASE to[r] = ToAdmins
  <2>1. admins' = admins
    BY <1>3 DEF NoteChange
  <2> QED
    BY <1>1, <1>3, <2>1, Recipients, WalkedIs, WalkedIsPrime DEF NoteChange
<1>4. CASE to[r] \in Users
  <2>1. conns'[to[r]] = pool[r]
    BY <1>1, <1>4, WalkedIs DEF NoteChange
  <2>2. to[r] \in keys'
    BY <1>1, <1>4, <2>1 DEF NoStraySets
  <2> QED
    BY <1>1, <1>4, <2>1, <2>2, WalkedIsPrime DEF NoteChange
<1> QED
  BY <1>1, <1>2, <1>3, <1>4

-----------------------------------------------------------------------------
(* Steps of an endpoint.                                                    *)

(* A change of the registry that the walking sends notice keeps what the    *)
(* invariant says of the sends.                                             *)
LEMMA EndpointKeepsSends ==
  ASSUME TypeOK, SendInv, NoKeyError, SendsTryAll, NoStraySets',
         NoteChange(Walking), UNCHANGED sendVars
  PROVE  SendInv' /\ NoKeyError' /\ SendsTryAll'
<1>1. Walking \in SUBSET Walking /\ keys \subseteq Users
  BY DEF TypeOK
<1>2. ASSUME NEW t \in Sends PROVE Underway(t)'
  <2>1. CASE t \in Walking
    BY <1>1, <2>1, Noticed, UntouchedWalk DEF SendInv, Underway, Walking
  <2>2. CASE t \notin Walking
    BY <1>1, <2>2, Noticed DEF SendInv, Underway, Walking
  <2> QED
    BY <2>1, <2>2
<1>3. SendsTryAll'
  BY <1>1, Noticed DEF SendsTryAll
<1> QED
  BY <1>2, <1>3 DEF SendInv, NoKeyError

(* A connect keeps the invariant: it adds to sets and keys only.            *)
LEMMA RegisterInv ==
  ASSUME Inv, NEW s \in Sockets, Register(s)
  PROVE  Inv'
<1> DEFINE u == session[s]
<1>1. /\ pc' = [pc EXCEPT ![s] = "receive"] /\ pc[s] = "accept"
      /\ keys' = IF u \in Users THEN keys \cup {u} ELSE keys
      /\ conns' = IF u \in Users THEN [conns EXCEPT ![u] = @ \cup {s}] ELSE conns
      /\ admins' = IF u \in Admins THEN admins \cup {s} ELSE admins
      /\ NoteChange(Walking) /\ UNCHANGED <<session, sendVars, pruned>>
  BY DEF Register
<1>2. Walking \in SUBSET Walking
  OBVIOUS
<1>3. TypeOK'
  BY <1>1, <1>2, Noticed DEF Inv, TypeOK
<1>4. \A v \in Users : conns'[v] = conns[v] \/ (v = u /\ conns'[v] = conns[v] \cup {s})
  BY <1>1 DEF Inv, TypeOK
<1>5. NoStraySets'
  BY <1>1, <1>4 DEF Inv, NoStraySets
<1>6. SendInv' /\ NoKeyError' /\ SendsTryAll'
  BY <1>1, <1>5, EndpointKeepsSends DEF Inv
<1>7. EndedSocketsAreGone'
  BY <1>1, <1>4, HubAssumption DEF Inv, TypeOK, SocketInv, EndedSocketsAreGone
<1>8. LiveSocketsAreListed'
  BY <1>1, <1>4 DEF Inv, TypeOK, SocketInv, LiveSocketsAreListed
<1>9. ListedUsersHaveSockets'
  BY <1>1, <1>4 DEF Inv, TypeOK, SocketInv, ListedUsersHaveSockets
<1> QED
  BY <1>3, <1>6, <1>5, <1>7, <1>8, <1>9 DEF Inv, SocketInv

(* A disconnect keeps the invariant: an entry goes with its last socket.    *)
LEMMA EndInv ==
  ASSUME Inv, NEW s \in Sockets, End(s)
  PROVE  Inv'
<1> DEFINE u == session[s]
<1>1. /\ pc' = [pc EXCEPT ![s] = "ended"]
      /\ conns' = IF u \in keys THEN [conns EXCEPT ![u] = @ \ {s}] ELSE conns
      /\ keys' = IF u \in keys /\ conns[u] \subseteq {s} THEN keys \ {u} ELSE keys
      /\ admins' = IF u \in Admins THEN admins \ {s} ELSE admins
      /\ NoteChange(Walking) /\ UNCHANGED <<session, sendVars, pruned>>
  BY DEF End, Disconnect
<1>2. Walking \in SUBSET Walking
  OBVIOUS
<1>3. TypeOK'
  BY <1>1, <1>2, Noticed DEF Inv, TypeOK
<1>4. \A v \in Users :
        conns'[v] = IF v = u /\ u \in keys THEN conns[v] \ {s} ELSE conns[v]
  BY <1>1 DEF Inv, TypeOK
<1>5. NoStraySets'
  BY <1>1, <1>4 DEF Inv, NoStraySets
<1>6. SendInv' /\ NoKeyError' /\ SendsTryAll'
  BY <1>1, <1>5, EndpointKeepsSends DEF Inv
<1>7. EndedSocketsAreGone'
  BY <1>1, <1>4 DEF Inv, TypeOK, SocketInv, EndedSocketsAreGone, NoStraySets
<1>8. LiveSocketsAreListed'
  BY <1>1, <1>4 DEF Inv, TypeOK, SocketInv, LiveSocketsAreListed
<1>9. ListedUsersHaveSockets'
  BY <1>1, <1>4 DEF Inv, TypeOK, SocketInv, ListedUsersHaveSockets
<1> QED
  BY <1>3, <1>6, <1>5, <1>7, <1>8, <1>9 DEF Inv, SocketInv

(* A frame that claims an id changes the session only.                      *)
LEMMA AuthenticateInv ==
  ASSUME Inv, NEW s \in Sockets, NEW u \in Users \cup {NoUser}, Authenticate(s, u)
  PROVE  Inv'
<1>1. TypeOK'
  BY DEF Authenticate, Inv, TypeOK
<1>2. NoStraySets' /\ SendInv' /\ NoKeyError' /\ SendsTryAll'
  BY DEF Authenticate, Inv, NoStraySets, SendInv, Underway, Walked, NoKeyError, SendsTryAll
<1>3. SocketInv'
  BY DEF Authenticate, Inv, TypeOK, SocketInv, EndedSocketsAreGone,
         LiveSocketsAreListed, ListedUsersHaveSockets
<1> QED
  BY <1>1, <1>2, <1>3 DEF Inv

-----------------------------------------------------------------------------
(* Steps of a send.                                                         *)

(* A send that begins keeps the invariant: it walks a set that is there.    *)
LEMMA BeginInv ==
  ASSUME Inv, NEW t \in Sends, NEW x \in Users \cup {ToAdmins, ToAll}, Begin(t, x)
  PROVE  Inv'
<1> DEFINE start == CASE x = ToAll -> admins \cup UNION {conns[u] : u \in keys}
                      [] x = ToAdmins -> admins
                      [] x \in Users -> conns[x]
<1>1. /\ to' = [to EXCEPT ![t] = x] /\ pool' = [pool EXCEPT ![t] = start]
      /\ UNCHANGED <<registry, touched, orphaned, pruned, sockVars, got, dead>>
      /\ \/ \E s \in start : send' = [send EXCEPT ![t] = "await"]
                             /\ cursor' = [cursor EXCEPT ![t] = s]
         \/ /\ start = {}
            /\ send' = [send EXCEPT ![t] = "done"]
            /\ cursor' = [cursor EXCEPT ![t] = NoSocket]
  BY DEF Begin, Await, Stop
<1>2. start \subseteq Sockets
  <2>1. \A u \in Users : conns[u] \subseteq Sockets
    BY DEF Inv, TypeOK
  <2>2. keys \subseteq Users /\ admins \subseteq Sockets
    BY DEF Inv, TypeOK
  <2>3. UNION {conns[u] : u \in keys} \subseteq Sockets
    BY <2>1, <2>2
  <2> QED
    BY <2>1, <2>2, <2>3, Recipients
<1> HIDE DEF start
<1>3. TypeOK'
  BY <1>1, <1>2 DEF Inv, TypeOK
<1>4. send'[t] = "await" => start # {} /\ cursor'[t] \in Sockets
  BY <1>1, <1>2 DEF Inv, TypeOK
<1>5. x \in Users /\ start # {} => x \in keys
  BY Recipients DEF start, Inv, NoStraySets
<1>6. NoStraySets' /\ SocketInv'
  BY <1>1 DEF Inv, NoStraySets, SocketInv, EndedSocketsAreGone,
              LiveSocketsAreListed, ListedUsersHaveSockets
<1>7. to'[t] = x /\ pool'[t] = start
  BY <1>1 DEF Inv, TypeOK
<1>8. t \notin touched' /\ t \notin orphaned'
  BY <1>1 DEF Begin, Inv, SendInv, Underway
<1>9. x \in Users => start = conns'[x]
  BY <1>1, Recipients DEF start
<1>10. x = ToAdmins => start = admins'
  BY <1>1, Recipients DEF start
<1>11. Walked(t)' = start
  BY <1>7, <1>8, <1>9, <1>10, WalkedIsPrime
<1>12. ASSUME NEW r \in Sends
       PROVE  /\ Underway(r)' /\ send'[r] # "KeyError"
              /\ send'[r] = "done" /\ r \notin touched' => pool'[r] \subseteq got'[r] \cup dead'[r]
  <2>1. CASE r = t
    <3>1. send'[t] \in {"await", "done"} /\ (send'[t] = "done" => start = {})
      BY <1>1 DEF Inv, TypeOK
    <3> QED
      BY <1>1, <1>4, <1>5, <1>7, <1>8, <1>11, <2>1, <3>1 DEF Underway
  <2>2. CASE r # t
    <3>1. send'[r] = send[r] /\ to'[r] = to[r] /\ pool'[r] = pool[r] /\ cursor'[r] = cursor[r]
      BY <1>1, <2>2 DEF Inv, TypeOK
    <3>2. UNCHANGED <<registry, touched, orphaned, got, dead>>
      BY <1>1
    <3>3. Walked(r)' = Walked(r)
      <4>1. to[r] \in Users \cup {ToAdmins, ToAll}
        BY DEF Inv, TypeOK
      <4> QED
        BY <3>1, <3>2, <4>1, WalkedIs, WalkedIsPrime
    <3> QED
      BY <3>1, <3>2, <3>3 DEF Underway, Inv, SendInv, NoKeyError, SendsTryAll
  <2> QED
    BY <2>1, <2>2
<1> QED
  BY <1>3, <1>6, <1>12 DEF Inv, SendInv, NoKeyError, SendsTryAll

(* A step of one send that leaves the registry alone.                       *)
LEMMA SendElsewhere ==
  ASSUME Inv, NEW t \in Sends, TypeOK',
         UNCHANGED <<registry, touched, orphaned, pruned, sockVars, to, pool>>,
         send[t] = "await",
         \A r \in Sends \ {t} : /\ send'[r] = send[r] /\ cursor'[r] = cursor[r]
                                /\ got'[r] = got[r] /\ dead'[r] = dead[r],
         send'[t] \in {"await", "RuntimeError"},
         send'[t] = "await" => cursor'[t] \in Sockets
  PROVE  Inv'
<1>1. NoStraySets' /\ SocketInv'
  BY DEF Inv, NoStraySets, SocketInv, EndedSocketsAreGone, LiveSocketsAreListed,
         ListedUsersHaveSockets
<1>2. \A r \in Sends : Walked(r)' = Walked(r)
  BY DEF Walked
<1>3. ASSUME NEW r \in Sends PROVE Underway(r)' /\ send'[r] # "KeyError"
  BY <1>2 DEF Inv, SendInv, Underway, NoKeyError
<1>4. SendsTryAll'
  BY DEF Inv, SendsTryAll
<1> QED
  BY <1>1, <1>3, <1>4 DEF Inv, SendInv, NoKeyError

(* The loop passes the test of its size only if its entry was not deleted:  *)
(* the orphaned set is empty, and it was not when the loop began.           *)
LEMMA SizeTestFindsOrphans ==
  ASSUME Inv, NEW t \in Sends, send[t] = "await",
         Cardinality(Walked(t)) = Cardinality(pool[t])
  PROVE  to[t] \in Users => to[t] \in keys
<1> SUFFICES ASSUME to[t] \in Users, to[t] \notin keys PROVE FALSE
  OBVIOUS
<1>1. t \in orphaned /\ pool[t] # {}
  BY DEF Inv, SendInv, Underway
<1>2. Walked(t) = {}
  BY <1>1, Recipients DEF Walked
<1>3. IsFiniteSet(pool[t])
  BY HubAssumption, FS_Subset DEF Inv, TypeOK
<1>4. Cardinality(pool[t]) = 0
  BY <1>2, FS_EmptySet
<1> QED
  BY <1>1, <1>3, <1>4, FS_EmptySet

(* The clean-up of a send finds the key of its user and discards dead       *)
(* sockets only.                                                            *)
LEMMA CleanInv ==
  ASSUME Inv, NEW t \in Sends, NEW found \in SUBSET Sockets, Clean(t, found),
         send[t] = "await", to[t] \in Users => to[t] \in keys,
         got' \in [Sends -> SUBSET Sockets], dead' \in [Sends -> SUBSET Sockets],
         \A r \in Sends \ {t} : got'[r] = got[r] /\ dead'[r] = dead[r],
         t \notin touched => pool[t] \subseteq got'[t] \cup dead'[t],
         UNCHANGED <<sockVars, to, pool>>
  PROVE  Inv'
<1>1. Cleaned(t) \subseteq keys
  BY Recipients DEF Cleaned, Inv, TypeOK
<1>2. /\ send' = [send EXCEPT ![t] = "done"] /\ cursor' = [cursor EXCEPT ![t] = NoSocket]
      /\ conns' = [u \in Users |-> IF u \in Cleaned(t) THEN conns[u] \ found ELSE conns[u]]
      /\ admins' = IF to[t] \in Users THEN admins ELSE admins \ found
      /\ pruned' = pruned \cup {p \in Cleaned(t) \X found : p[2] \in conns[p[1]]}
      /\ keys' = keys
      /\ NoteChange(Walking \ {t})
  BY <1>1 DEF Clean, Stop
<1>3. Walking \ {t} \in SUBSET Walking
  OBVIOUS
<1>4. Cleaned(t) \X found \subseteq Users \X Sockets
  BY <1>1 DEF Inv, TypeOK
<1>5. TypeOK'
  BY <1>2, <1>3, <1>4, Noticed DEF Inv, TypeOK
<1>6. \A u \in Users : conns'[u] \subseteq conns[u]
        /\ \A s \in conns[u] \ conns'[u] : <<u, s>> \in pruned'
  <2>1. ASSUME NEW u \in Users, NEW s \in conns[u], s \notin conns'[u]
        PROVE  <<u, s>> \in pruned'
    BY <1>2, <2>1
  <2> QED
    BY <1>2, <2>1
<1>7. pruned \subseteq pruned' /\ admins' \subseteq admins
  BY <1>2
<1>8. NoStraySets'
  BY <1>2, <1>6 DEF Inv, NoStraySets
<1>9. EndedSocketsAreGone'
  BY <1>6, <1>7, HubAssumption DEF Inv, SocketInv, EndedSocketsAreGone
<1>10. LiveSocketsAreListed'
  <2>1. ASSUME NEW s \in Sockets, pc[s] = "receive", session[s] \in Users
        PROVE  \/ s \in conns'[session[s]] /\ session[s] \in keys
               \/ <<session[s], s>> \in pruned'
    BY <1>6, <1>7, <2>1 DEF Inv, SocketInv, LiveSocketsAreListed
  <2> QED
    BY <1>2, <2>1 DEF LiveSocketsAreListed
<1>11. ListedUsersHaveSockets'
  <2>1. ASSUME NEW u \in keys, conns'[u] = {}
        PROVE  \E s \in Sockets : <<u, s>> \in pruned'
    <3>1. u \in Users /\ conns[u] \subseteq Sockets
      BY DEF Inv, TypeOK
    <3>2. CASE conns[u] = {}
      BY <3>1, <3>2, <1>7 DEF Inv, SocketInv, ListedUsersHaveSockets
    <3>3. CASE conns[u] # {}
      BY <3>1, <3>3, <2>1, <1>6
    <3> QED
      BY <3>2, <3>3
  <2> QED
    BY <1>2, <2>1 DEF ListedUsersHaveSockets
<1>12. ASSUME NEW r \in Sends PROVE Underway(r)' /\ send'[r] # "KeyError"
  <2>1. CASE r \in Walking \ {t}
    <3>1. /\ send'[r] = send[r] /\ cursor'[r] = cursor[r] /\ keys \subseteq Users
      BY <1>2, <2>1 DEF Inv, TypeOK
    <3> QED
      BY <1>2, <1>3, <1>8, <2>1, <3>1, Noticed, UntouchedWalk
         DEF Underway, Walking, Inv, SendInv
  <2>2. CASE r \notin Walking \ {t}
    BY <1>2, <1>3, <2>2, Noticed DEF Underway, Walking, Inv, TypeOK, SendInv, NoKeyError
  <2> QED
    BY <2>1, <2>2
<1>13. ASSUME NEW r \in Sends, send'[r] = "done", r \notin touched'
       PROVE  pool'[r] \subseteq got'[r] \cup dead'[r]
  <2>1. r \notin touched
    BY <1>2, <1>3, <1>13, Noticed DEF Inv
  <2>2. CASE r = t
    BY <2>1, <2>2
  <2>3. CASE r # t
    BY <1>2, <1>13, <2>1, <2>3 DEF Inv, TypeOK, SendsTryAll
  <2> QED
    BY <2>2, <2>3
<1> QED
  BY <1>5, <1>8, <1>9, <1>10, <1>11, <1>12, <1>13
     DEF Inv, SocketInv, SendInv, NoKeyError, SendsTryAll

(* A send that resumes after an await keeps the invariant, whatever         *)
(* happened to its set meanwhile.                                           *)
LEMMA ResumeInv ==
  ASSUME Inv, NEW t \in Sends, NEW ok \in BOOLEAN, Resume(t, ok)
  PROVE  Inv'
<1> DEFINE s == cursor[t]
           found == IF ok THEN dead[t] ELSE dead[t] \cup {s}
           visited == got[t] \cup found \cup {s}
<1>1. /\ send[t] = "await" /\ Advance(t, visited, found)
      /\ got' = IF ok THEN [got EXCEPT ![t] = @ \cup {s}] ELSE got
      /\ dead' = [dead EXCEPT ![t] = found]
      /\ UNCHANGED <<sockVars, to, pool>>
  BY DEF Resume
<1>2. s \in Sockets
  BY <1>1 DEF Inv, SendInv, Underway
<1>3. found \in SUBSET Sockets
  BY <1>2 DEF Inv, TypeOK
<1>4. got' \in [Sends -> SUBSET Sockets] /\ dead' \in [Sends -> SUBSET Sockets]
  BY <1>1, <1>2, <1>3 DEF Inv, TypeOK
<1>5. /\ \A r \in Sends \ {t} : got'[r] = got[r] /\ dead'[r] = dead[r]
      /\ visited \subseteq got'[t] \cup dead'[t]
  BY <1>1, <1>2, <1>3 DEF Inv, TypeOK
<1> HIDE DEF found, visited
<1>6. Walked(t) \subseteq Sockets
  BY Recipients DEF Walked, Inv, TypeOK
<1>7. CASE Stop(t, "RuntimeError") /\ UNCHANGED <<registry, touched, orphaned, pruned>>
  BY <1>1, <1>4, <1>5, <1>7, SendElsewhere DEF Stop, Inv, TypeOK
<1>8. CASE \E x \in Walked(t) : Await(t, x)
  <2>1. PICK x \in Sockets : Await(t, x)
    BY <1>6, <1>8
  <2> QED
    BY <1>1, <1>4, <1>5, <2>1, SendElsewhere DEF Await, Inv, TypeOK
<1>9. CASE /\ Cardinality(Walked(t)) = Cardinality(pool[t]) /\ Clean(t, found)
           /\ Walked(t) \subseteq visited \/ t \in touched
  <2>1. t \notin touched => pool[t] \subseteq got'[t] \cup dead'[t]
    BY <1>1, <1>5, <1>9 DEF Inv, SendInv, Underway
  <2> QED
    BY <1>1, <1>3, <1>4, <1>5, <1>9, <2>1, SizeTestFindsOrphans, CleanInv
<1> QED
  BY <1>1, <1>7, <1>8, <1>9 DEF Advance

(* Every step of a socket or a send keeps the invariant.                    *)
LEMMA NextInv ==
  ASSUME Inv, [Next]_vars
  PROVE  Inv'
<1>1. CASE UNCHANGED vars
  BY <1>1 DEF Inv, TypeOK, NoStraySets, SendInv, Underway, Walked, NoKeyError,
              SendsTryAll, SocketInv, EndedSocketsAreGone, LiveSocketsAreListed, ListedUsersHaveSockets
<1>2. CASE \E s \in Sockets, u \in Users \cup {NoUser} : Authenticate(s, u)
  BY <1>2, AuthenticateInv
<1>3. CASE \E s \in Sockets : Register(s) \/ End(s)
  BY <1>3, RegisterInv, EndInv
<1>4. CASE \E t \in Sends, x \in Users \cup {ToAdmins, ToAll} : Begin(t, x)
  BY <1>4, BeginInv
<1>5. CASE \E t \in Sends, ok \in BOOLEAN : Resume(t, ok)
  BY <1>5, ResumeInv
<1> QED
  BY <1>1, <1>2, <1>3, <1>4, <1>5 DEF Next

(* The inductive invariant of the hub: types, no set without its key, what  *)
(* a send in the middle of its loop knows, and what the sockets know.       *)
THEOREM InvHolds == Spec => []Inv
  BY InitInv, NextInv, PTL DEF Spec

(* The registry, the endpoints and the sends keep their types.              *)
THEOREM TypeCorrect == Spec => []TypeOK
<1>1. Inv => TypeOK
  BY DEF Inv
<1> QED
  BY <1>1, InvHolds, PTL

(* send_personal never raises KeyError when it discards dead sockets.       *)
THEOREM CleanUpFindsItsUser == Spec => []NoKeyError
<1>1. Inv => NoKeyError
  BY DEF Inv
<1> QED
  BY <1>1, InvHolds, PTL

(* A send that ends in order, whose set nothing touched, tried every socket *)
(* of the set it began with.                                                *)
THEOREM EverySocketIsTried == Spec => []SendsTryAll
<1>1. Inv => SendsTryAll
  BY DEF Inv
<1> QED
  BY <1>1, InvHolds, PTL

(* An ended socket is not registered under the last id it claimed.          *)
THEOREM LastIdIsCleared == Spec => []EndedSocketsAreGone
<1>1. Inv => EndedSocketsAreGone
  BY DEF Inv, SocketInv
<1> QED
  BY <1>1, InvHolds, PTL

(* A socket that waits for a frame is registered under the id it claimed,   *)
(* unless a send gave it up.                                                *)
THEOREM ConnectedIsListed == Spec => []LiveSocketsAreListed
<1>1. Inv => LiveSocketsAreListed
  BY DEF Inv, SocketInv
<1> QED
  BY <1>1, InvHolds, PTL

(* Only a send leaves a user listed without a socket.                       *)
THEOREM EmptyEntriesWerePruned == Spec => []ListedUsersHaveSockets
<1>1. Inv => ListedUsersHaveSockets
  BY DEF Inv, SocketInv
<1> QED
  BY <1>1, InvHolds, PTL
=============================================================================
