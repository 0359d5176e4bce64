---------------------------- MODULE ToolBoundary ----------------------------
(***************************************************************************)
(* The tool boundary: the laboratory the steps of a plan act on, and the   *)
(* record of first answers that makes a repeated call harmless.  One       *)
(* transaction looks the idempotency key up, acts, and stores the answer.  *)
(*                                                                         *)
(* A request whose sender gave up -- it timed out, or its process died --  *)
(* may still arrive at any later time.                                     *)
(***************************************************************************)
EXTENDS Naturals

CONSTANTS
  Step,       \* step ids, in their order as strings
  Scaling     \* the steps that scale workers: those a tool can undo

ASSUME StepAssumption == Step \subseteq Nat
ASSUME ScalingAssumption == Scaling \subseteq Step

VARIABLES
  cures,     \* the steps whose change lifts the injected fault
  inForce,   \* the steps whose change is in force
  answers,   \* tool_idempotency: the first answer under each key
  effects,   \* history: how often a call under each key changed the lab
  late       \* keys of requests that may still arrive

labVars == <<inForce, answers, effects, late>>

(* A key stands for one plan's run, step and payload: the action of a step,*)
(* the reading that verifies it, its compensation, and the reading that    *)
(* confirms the compensation.                                              *)
Key == [call: {"act", "check", "undo", "confirm"}, step: Step]
Act(s) == [call |-> "act", step |-> s]
Check(s) == [call |-> "check", step |-> s]
Undo(s) == [call |-> "undo", step |-> s]
Confirm(s) == [call |-> "confirm", step |-> s]

(* "good" is a change made, or a reading that meets its criteria. *)
Answer == {"none", "good", "bad"}
Unanswered == [k \in Key |-> "none"]

LabTypeOK ==
  /\ cures \subseteq Step
  /\ inForce \subseteq Step
  /\ answers \in [Key -> Answer]
  /\ effects \in [Key -> Nat]
  /\ late \subseteq Key

LabInit ==
  /\ cures \in SUBSET Step
  /\ inForce = {}
  /\ answers = Unanswered
  /\ effects = [k \in Key |-> 0]
  /\ late = {}

-----------------------------------------------------------------------------
Cured == inForce \intersect cures # {}

(* Every verification reads the metrics of the one experiment, every       *)
(* confirmation its number of replicas.                                    *)
Meets(k) ==
  CASE k.call = "check"   -> Cured
    [] k.call = "confirm" -> inForce \intersect Scaling = {}
    [] OTHER              -> TRUE

Reading(k) == IF Meets(k) THEN "good" ELSE "bad"

(* Undoing one scaling sets the number of replicas from before them all. *)
Changed(k) ==
  CASE k.call = "act"  -> inForce \union {k.step}
    [] k.call = "undo" -> inForce \ Scaling
    [] OTHER           -> inForce

ChangesLab(k) == k.call \in {"act", "undo"}

CarryOut(k) ==
  /\ inForce' = Changed(k)
  /\ effects' = IF ChangesLab(k) THEN [effects EXCEPT ![k] = @ + 1] ELSE effects

(* The answer to a request that is served now. *)
AnswerTo(k) == IF answers[k] # "none" THEN answers[k] ELSE Reading(k)

(* Mutant: a repeated request is carried out again. *)
ServeAgain(k) ==
  /\ CarryOut(k)
  /\ answers' = [answers EXCEPT ![k] = AnswerTo(k)]

Serve(k) ==
  \/ /\ answers[k] # "none"
     /\ UNCHANGED <<inForce, answers, effects>>
  \/ /\ answers[k] = "none"
     /\ CarryOut(k)
     /\ answers' = [answers EXCEPT ![k] = AnswerTo(k)]

GiveUp(k) ==
  /\ late' = late \union {k}
  /\ UNCHANGED <<inForce, answers, effects>>

Arrive(k) ==
  /\ k \in late
  /\ Serve(k)
  /\ late' = late \ {k}
=============================================================================
