--------------------------- MODULE PolicyCompiler ---------------------------
(***************************************************************************)
(* PolicyCompiler.compile: from an untrusted plan to the plan that may be  *)
(* executed and a decision about it.  Issues are a set of pairs of a code  *)
(* and the step it is about; their order and wording are left out.         *)
(***************************************************************************)
EXTENDS Toolbox

CONSTANTS
  MaxSteps    \* max_steps of the compiler

ASSUME MaxStepsAssumption == MaxSteps \in Nat

AutomaticRollbackTools == {"scale_workers"}

(* One of these fields must have been observed before the tool is used. *)
SupportingFields(tool) ==
  CASE tool = "restart_service"   -> {"pool_waiters", "instances"}
    [] tool = "scale_workers"     -> {"queue_depth", "oldest_age_s"}
    [] tool = "rotate_credential" -> {"http_401_rate"}
    [] tool = "refresh_cache"     -> {"stale_sample_rate", "cache_version", "db_version"}
    [] OTHER                      -> {}

(* What the compiler knows of the run: phase, allowed evidence, observation*)
(* ids, the experiment the incident is bound to, and the observed fields.  *)
Nobody == <<>>
When(condition, code) == IF condition THEN {code} ELSE {}
IdsOf(plan) == {plan[i].id : i \in DOMAIN plan}

PlanIssues(plan) ==
  When(plan = <<>>, "EMPTY_PLAN")
  \union When(Len(plan) > MaxSteps, "PLAN_TOO_LONG")
  \union When(~IsInjective([i \in DOMAIN plan |-> plan[i].id]), "DUPLICATE_STEP_ID")

(* A step with one of these does not reach the compiled plan. *)
RegistryIssue(step) ==
  IF step.tool \notin Registered THEN "UNKNOWN_TOOL"
  ELSE IF ~InputValid(step.tool, step.input) THEN "INVALID_TOOL_INPUT"
  ELSE "none"

StepIssues(step, ids, known) ==
  LET spec == Registry[step.tool]
      supporting == SupportingFields(step.tool)
  IN When(known.experiment # "none" /\ step.input.experiment # known.experiment,
          "EXPERIMENT_BINDING_MISMATCH")
     \union When(known.phase = "investigation" /\ ~spec.readOnly, "WRITE_DURING_INVESTIGATION")
     \union When(~(step.evidence \subseteq known.evidence), "UNKNOWN_EVIDENCE")
     \union When(~spec.readOnly /\ step.evidence \intersect known.observations = {},
                 "WRITE_WITHOUT_OBSERVATION")
     \union When(supporting # {} /\ supporting \intersect known.fields = {},
                 "TOOL_NOT_SUPPORTED_BY_OBSERVATION")
     \union When(~(step.dependsOn \subseteq ids), "UNKNOWN_DEPENDENCY")
     \union When(step.success = {}, "MISSING_SUCCESS_CRITERIA")
     \union When(step.risk < spec.risk, "RISK_UPGRADED")

(* The tool of a compensation that is registered and called as it may be. *)
UsableRollback(step) ==
  /\ step.rollback.mode = "tool"
  /\ step.rollback.tool \in Registered
  /\ InputValid(step.rollback.tool, step.rollback.input)

RollbackIssues(step, known) ==
  IF step.rollback.mode # "tool" THEN {}
  ELSE LET tool == step.rollback.tool
       IN When(tool # step.tool, "ROLLBACK_TOOL_MISMATCH")
          \union When(tool \notin AutomaticRollbackTools, "AUTOMATIC_ROLLBACK_NOT_ALLOWED")
          \union When(tool \notin Registered, "UNKNOWN_ROLLBACK_TOOL")
          \union When(tool \in Registered /\ ~UsableRollback(step), "INVALID_ROLLBACK_INPUT")
          \union When(/\ UsableRollback(step)
                      /\ known.experiment # "none"
                      /\ step.rollback.input.experiment # known.experiment,
                      "ROLLBACK_EXPERIMENT_BINDING_MISMATCH")

-----------------------------------------------------------------------------
(* Mutant: only a dependency that goes both ways is a cycle. *)
HasShortCycle(plan) ==
  \E i, j \in DOMAIN plan : plan[i].id \in plan[j].dependsOn /\ plan[j].id \in plan[i].dependsOn

(* What each step depends on, of the plan's own steps; of two steps with   *)
(* one id the later one counts.                                            *)
DependenciesOf(plan) ==
  [id \in IdsOf(plan) |->
     plan[SelectLastInSeq(plan, LAMBDA s : s.id = id)].dependsOn \intersect IdsOf(plan)]

(* The step a loop turns to next: a set has no order.                      *)
NextOf(todo) == CHOOSE id \in todo : TRUE

(* Depth-first search for a cycle.  todo is what is left of the loop, of   *)
(* the dependencies of a step or of the whole plan; visiting is the path to*)
(* it; what was searched without finding one is not searched again.        *)
HasCycle(plan) ==
  LET ids == IdsOf(plan)
      depends == DependenciesOf(plan)
      visit[at \in [todo : SUBSET ids, visiting : SUBSET ids, visited : SUBSET ids]] ==
        LET id == NextOf(at.todo)
            others == [at EXCEPT !.todo = @ \ {id}]
            after == visit[[todo |-> depends[id], visiting |-> at.visiting \union {id},
                          visited |-> at.visited]]
        IN IF at.todo = {} THEN [found |-> FALSE, visited |-> at.visited]
           ELSE IF id \in at.visiting THEN [found |-> TRUE, visited |-> at.visited]
           ELSE IF id \in at.visited THEN visit[others]
           ELSE IF after.found THEN after
           ELSE visit[[others EXCEPT !.visited = after.visited \union {id}]]
  IN visit[[todo |-> ids, visiting |-> {}, visited |-> {}]].found

-----------------------------------------------------------------------------
AddStep(compiled, step) ==
  IF RegistryIssue(step) # "none" THEN compiled
  ELSE Append(compiled, [step EXCEPT !.risk = EffectiveRisk(step)])

Compiled(plan) == FoldLeft(AddStep, <<>>, plan)

IssuesOf(plan, known) ==
  LET kept(i) == RegistryIssue(plan[i]) = "none"
      about(i) == IF kept(i)
                  THEN StepIssues(plan[i], IdsOf(plan), known)
                       \union RollbackIssues(plan[i], known)
                  ELSE {RegistryIssue(plan[i])}
  IN (PlanIssues(plan) \union When(HasCycle(Compiled(plan)), "CYCLIC_PLAN")) \X {Nobody}
     \union UNION {about(i) \X {plan[i].id} : i \in DOMAIN plan}

Blocking(issues) == {issue \in issues : issue[1] # "RISK_UPGRADED"}

CompensationTools(plan) ==
  {plan[i].rollback.tool : i \in {j \in DOMAIN plan : UsableRollback(plan[j])}}

(* The tools a plan may call. *)
ToolsOf(plan) == {plan[i].tool : i \in DOMAIN plan} \union CompensationTools(plan)

Compile(plan, known) ==
  LET compiled == Compiled(plan)
      issues == IssuesOf(plan, known)
  IN [plan |-> compiled,
      accepted |-> Blocking(issues) = {},
      issues |-> issues,
      risk |-> Max({Low} \union {compiled[i].risk : i \in DOMAIN compiled}
                   \union {Registry[tool].risk : tool \in CompensationTools(compiled)}),
      roles |-> {Registry[tool].role : tool \in ToolsOf(compiled)}]
=============================================================================
