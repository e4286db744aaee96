----------------------------- MODULE Lifecycle -----------------------------
(***************************************************************************)
(* What main/main.c promises of a boot, seen from outside: connection      *)
(* details are offered over HTTP; the device becomes provisioned once it   *)
(* has used some, is told to start, and only then runs the car service,    *)
(* towards a host and a port that were offered.  A restart forgets all.    *)
(***************************************************************************)
CONSTANTS Configs, NONE

VARIABLES
  phase,    \* how far this boot has come
  offered,  \* details posted and accepted
  target    \* the details the service took its host and its port from

vars == <<phase, offered, target>>

NoTarget == <<NONE, NONE>>

Init == phase = "unprovisioned" /\ offered = {} /\ target = NoTarget

Offer(c) == offered' = offered \cup {c} /\ UNCHANGED <<phase, target>>

Provision ==
  /\ phase = "unprovisioned" /\ offered # {}
  /\ phase' = "provisioned"
  /\ UNCHANGED <<offered, target>>

Start ==
  /\ phase = "provisioned"
  /\ phase' = "starting"
  /\ UNCHANGED <<offered, target>>

\* The host and the port may come from two offers.
Run ==
  /\ phase = "starting"
  /\ phase' = "running"
  /\ target' \in offered \X offered
  /\ UNCHANGED offered

Restart == phase' = "unprovisioned" /\ offered' = {} /\ target' = NoTarget

Next ==
  \/ \E c \in Configs : Offer(c)
  \/ Provision
  \/ Start
  \/ Run
  \/ Restart

Spec == Init /\ [][Next]_vars
=============================================================================
