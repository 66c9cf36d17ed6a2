-------------------------- MODULE ActionLifecycle --------------------------
(***************************************************************************)
(* What the action queue promises of one queued action, with no queue, no  *)
(* worker and no statement in sight: an accepted action is claimed, has    *)
(* its effect at most once, and is then settled by a status that tells     *)
(* how the effect ended.  A restart may lose every accepted action.        *)
(*                                                                         *)
(* Overruled says whether the status may also be set to FAILED from the    *)
(* side (a cancellation that comes late, a statement that raises): it then *)
(* tells less, but the effect still happens once and COMPLETED stays true. *)
(***************************************************************************)
CONSTANTS
  Actions,
  Overruled    \* a Boolean

VARIABLES phase, effect

vars == <<phase, effect>>

Init ==
  /\ phase = [a \in Actions |-> "none"]
  /\ effect = [a \in Actions |-> "none"]

MoveTo(a, p) == phase' = [phase EXCEPT ![a] = p] /\ UNCHANGED effect

Accept(a) == phase[a] = "none" /\ MoveTo(a, "QUEUED")

Claim(a) ==
  /\ effect[a] = "none"
  /\ phase[a] = "QUEUED" \/ (Overruled /\ phase[a] = "FAILED")
  /\ MoveTo(a, "EXECUTING")

Take(a, e) ==
  /\ phase[a] = "EXECUTING" \/ (Overruled /\ phase[a] = "FAILED")
  /\ effect[a] = "none"
  /\ effect' = [effect EXCEPT ![a] = e]
  /\ UNCHANGED phase

Settle(a) ==
  /\ phase[a] = "EXECUTING" \/ (Overruled /\ phase[a] = "FAILED")
  /\ MoveTo(a, IF effect[a] = "ok" THEN "COMPLETED" ELSE "FAILED")

Overrule(a) ==
  /\ Overruled
  /\ phase[a] \notin {"none", "lost"}
  /\ MoveTo(a, "FAILED")

LoseAll ==
  /\ phase' = [a \in Actions |-> IF phase[a] = "none" THEN "none" ELSE "lost"]
  /\ UNCHANGED effect

Next ==
  \/ \E a \in Actions :
       \/ Accept(a) \/ Claim(a) \/ Settle(a) \/ Overrule(a)
       \/ \E e \in {"ok", "error"} : Take(a, e)
  \/ LoseAll

Spec == Init /\ [][Next]_vars
=============================================================================
