---------------------------- MODULE PlanEffects -----------------------------
(***************************************************************************)
(* What executing a plan promises to the system it acts on: every step     *)
(* happens at most once and after the steps it depends on, and what is     *)
(* compensated has happened and is compensated at most once.               *)
(***************************************************************************)
CONSTANTS
  Step      \* step ids

VARIABLES
  depends,  \* the dependencies of the plan's steps
  done,     \* steps that happened
  undone    \* steps that were compensated

vars == <<depends, done, undone>>

Init ==
  /\ depends \in [Step -> SUBSET Step]
  /\ done = {}
  /\ undone = {}

Happen(s) ==
  /\ s \notin done
  /\ depends[s] \subseteq done
  /\ done' = done \union {s}
  /\ UNCHANGED <<depends, undone>>

Compensate(s) ==
  /\ s \in done \ undone
  /\ undone' = undone \union {s}
  /\ UNCHANGED <<depends, done>>

Next == \E s \in Step : Happen(s) \/ Compensate(s)

Spec == Init /\ [][Next]_vars
=============================================================================
