------------------------------ MODULE Planning ------------------------------
(***************************************************************************)
(* The nodes retrieve, investigate, observe, diagnose and policy of a run, *)
(* up to the gate: from an incident to the plan that will be executed.     *)
(* AgentRun says when and how often the nodes run; here they run once, and *)
(* what they compute is what matters.                                      *)
(*                                                                         *)
(* Everything the run is given from outside -- the incident, the two       *)
(* rankings of the chunks, the readings, the answer of the model -- is its *)
(* case, chosen at the start.                                              *)
(***************************************************************************)
EXTENDS Retrieval, PlanDraft, PolicyCompiler

CONSTANTS
  Cases    \* what runs are given: see CaseShape

VARIABLES
  case,      \* the run's case
  node,      \* current_node; "stuck" is a node whose handler never returns
  sources,   \* the sources of the run
  observed,  \* whether the observations were made
  plan,      \* the run's plan, as proposed and later as compiled
  policy     \* the decision of the compiler

vars == <<case, node, sources, observed, plan, policy>>

(* experiment: the id the incident is bound to, or "none".  answer: of     *)
(* kind "draft" (a model's), "plan" (of another adapter), "fixture", or    *)
(* "none" (a fallback, or a handoff by the model).  The fixture answers on *)
(* the laboratory only.                                                    *)
CaseShape(c) ==
  /\ c.experiment \in Text /\ c.kind \in FaultKind /\ c.reading \in ReadingShape(c.kind)
  /\ c.dense \in Seq(ToSet(Chunks)) /\ IsInjective(c.dense)
  /\ c.lexical \in Seq(ToSet(Chunks)) /\ IsInjective(c.lexical)
  /\ c.weight \in 1..99
  /\ \/ c.answer.kind = "draft" /\ c.answer.draft \in Drafts
     \/ /\ c.answer.kind = "plan" /\ c.answer.plan \in Seq(StepShape)
        /\ \A i \in DOMAIN c.answer.plan : StepLegal(c.answer.plan[i])
     \/ c.answer.kind = "fixture" /\ c.reading \in LabReadings(c.kind)
     \/ c.answer.kind = "none"

ASSUME CasesAssumption == \A c \in Cases : CaseShape(c)

Undecided == [accepted |-> FALSE, issues |-> {}, risk |-> Low, roles |-> {}]
Decision(compiled) ==
  [accepted |-> compiled.accepted, issues |-> compiled.issues,
   risk |-> compiled.risk, roles |-> compiled.roles]

Init ==
  /\ case \in Cases
  /\ node = "retrieve"
  /\ sources = <<>>
  /\ observed = FALSE
  /\ plan = <<>>
  /\ policy = Undecided

-----------------------------------------------------------------------------
Observation == {"obs-metrics", "obs-logs", "obs-status"}
SourceChunks == {sources[i].chunk : i \in DOMAIN sources}

(* The observations' data, one on top of the other. *)
ObservationContext == IF observed THEN case.reading ELSE [field \in {} |-> 0]

Retrieve ==
  /\ node = "retrieve"
  /\ sources' = Search(Fuse(case.dense, case.lexical, case.weight), RouteOf(case.service))
  /\ node' = "investigate"
  /\ UNCHANGED <<case, observed, plan, policy>>

BaselineStep(name, tool) ==
  [id |-> <<"observe", name>>, tool |-> tool,
   input |-> [experiment |-> case.experiment, wellFormed |-> TRUE, target |-> 0],
   evidence |-> {"incident:input"} \union
                {sources[i].chunk : i \in DOMAIN sources \intersect 1..2},
   dependsOn |-> {}, pre |-> {}, success |-> {ResultSucceeded},
   rollback |-> ManualRollback, risk |-> Low]

BaselineInvestigationPlan ==
  << BaselineStep("metrics", "query_metrics"), BaselineStep("logs", "inspect_logs"),
     BaselineStep("status", "get_service_status") >>

InvestigationPolicy ==
  Compile(BaselineInvestigationPlan,
          [phase |-> "investigation", evidence |-> SourceChunks \union {"incident:input"},
           observations |-> {}, experiment |-> case.experiment, fields |-> {}])

Investigate ==
  /\ node = "investigate"
  /\ node' = IF case.experiment # "none" /\ InvestigationPolicy.accepted
             THEN "observe" ELSE "handed_off"
  /\ UNCHANGED <<case, sources, observed, plan, policy>>

Observe ==
  /\ node = "observe"
  /\ \/ observed' = TRUE /\ node' = "diagnose"
     \/ observed' = FALSE /\ node' = "handed_off"
  /\ UNCHANGED <<case, sources, plan, policy>>

(* What the model is shown: the routed and the pinned sources, without the *)
(* rules about who may approve what.                                       *)
PlanningSources ==
  {sources[i] : i \in {j \in DOMAIN sources : sources[j].channel \in {"routed", "pinned"}}}

Shown == {hit \in PlanningSources : hit.doc # "SEC-07"}

(* The answer of the model as the router passes it on. *)
Proposal ==
  CASE case.answer.kind = "draft" -> Materialize(case.answer.draft, ObservationContext)
    [] case.answer.kind = "plan" -> [outcome |-> "plan", plan |-> case.answer.plan]
    [] case.answer.kind = "fixture" ->
         LET fixture == FixturePlan(case.experiment, Observation, ObservationContext,
                                    LogPhrase[case.kind])
         IN [outcome |-> IF fixture = <<>> THEN "refused" ELSE "plan", plan |-> fixture]
    [] case.answer.kind = "none" -> [outcome |-> "refused", plan |-> <<>>]

Diagnose ==
  /\ node = "diagnose"
  /\ plan' = Proposal.plan
  /\ node' = CASE Proposal.outcome = "stuck"   -> "stuck"
               [] Proposal.outcome = "refused" -> "handed_off"
               [] Proposal.outcome = "plan"    -> "policy"
  /\ UNCHANGED <<case, sources, observed, policy>>

KnownOfRun ==
  [phase |-> "remediation",
   evidence |-> SourceChunks \union Observation \union {"incident:input"},
   observations |-> Observation, experiment |-> case.experiment,
   fields |-> DOMAIN ObservationContext]

Policy ==
  /\ node = "policy"
  /\ LET compiled == Compile(plan, KnownOfRun)
     IN /\ plan' = compiled.plan
        /\ policy' = Decision(compiled)
        /\ node' = IF compiled.accepted THEN "gate" ELSE "handed_off"
  /\ UNCHANGED <<case, sources, observed>>

Next == Retrieve \/ Investigate \/ Observe \/ Diagnose \/ Policy

Spec == Init /\ [][Next]_vars

-----------------------------------------------------------------------------
TypeOK ==
  /\ CaseShape(case)
  /\ node \in {"retrieve", "investigate", "observe", "diagnose", "policy", "gate",
               "handed_off", "stuck"}
  /\ sources \in Seq([chunk : ToSet(Chunks), doc : Doc, channel : {"hybrid", "routed", "pinned"}])
  /\ observed \in BOOLEAN
  /\ plan \in Seq(StepShape)
  /\ \A i \in DOMAIN plan : LegalName(plan[i].id)
  /\ policy.accepted \in BOOLEAN
  /\ policy.risk \in Low..High

Accepted == node = "gate"

(* Fusing the rankings (HybridMemoryIndex._rrf) puts a chunk before any    *)
(* other that neither ranking prefers to it: where the words of the query  *)
(* do not tell two chunks apart, their meaning does, and the other way.    *)
FusionRespectsBoth ==
  LET fused == Fuse(case.dense, case.lexical, case.weight)
      noWorse(ranking, c, d) ==
        Contains(ranking, d) => Contains(ranking, c) /\ Rank(ranking, c) < Rank(ranking, d)
  IN node = "retrieve" =>
       \A c, d \in ToSet(fused) :
         /\ c # d
         /\ noWorse(case.dense, c, d)
         /\ noWorse(case.lexical, c, d)
         => Rank(fused, c) < Rank(fused, d)

(* Whatever the rankings say, the model plans with exactly the runbooks of *)
(* the service and the rules for verification (_node_diagnose, _prompt);   *)
(* the run keeps both control documents, one source per document, within   *)
(* the limit (Retriever.search).                                           *)
PlannerInformed ==
  node \notin {"retrieve"} =>
    /\ {hit.doc : hit \in Shown} =
         (ToSet(RouteOf(case.service)) \union {"OPS-12"}) \intersect Doc
    /\ ToSet(Pinned) \intersect Doc \subseteq DocsOf(sources)
    /\ Len(sources) <= SourceLimit
    /\ IsInjective([i \in DOMAIN sources |-> sources[i].doc])

(* Naming the steps of a draft (_materialize) fails to end only when the   *)
(* model itself numbered an earlier step with the position of a later one  *)
(* of the same name: no draft without such numbers hangs the worker.       *)
NamingEnds ==
  node = "stuck" =>
    LET draft == case.answer.draft
    IN \E i, j \in DOMAIN draft : i < j /\ Slug(draft, i) = Append(Slug(draft, j), Digit[j])

(* What is accepted of a draft is the draft: its steps in their order, and *)
(* a step waits for the step the model meant, whatever the normalisation   *)
(* made of the two ids -- or, where the model wrote no id of its own, for  *)
(* the step that was given the name it wrote.                              *)
WiringKept ==
  Accepted /\ case.answer.kind = "draft" =>
    LET draft == case.answer.draft
        ids == {draft[i].id : i \in DOMAIN draft}
        meant(i, j) ==
          \/ draft[i].id \in draft[j].dependsOn
          \/ \E id \in draft[j].dependsOn \ ids : AsWritten(id) = plan[i].id
    IN /\ Len(plan) = Len(draft)
       /\ \A i \in DOMAIN draft : plan[i].tool = draft[i].tool
       /\ \A i, j \in DOMAIN draft : meant(i, j) <=> plan[i].id \in plan[j].dependsOn
       /\ \A i \in DOMAIN plan : plan[i].dependsOn \subseteq IdsOf(plan)

-----------------------------------------------------------------------------
(* _topological takes the ids in batches whose dependencies are all taken, *)
(* until none is left, or none is ready.                                   *)
Sortable ==
  LET ids == IdsOf(plan)
      ready(pending) ==
        {id \in pending : \A i \in DOMAIN plan :
                            plan[i].id = id => plan[i].dependsOn \subseteq ids \ pending}
      sorts[pending \in SUBSET ids] ==
        pending = {} \/ (ready(pending) # {} /\ sorts[pending \ ready(pending)])
  IN sorts[ids]

(* The search for cycles at compile time and the sorting at execution      *)
(* (AgentEngine._topological) agree: an accepted plan can be sorted, and a *)
(* plan with no other fault that cannot be sorted is refused for its cycle.*)
AcceptedIffSortable ==
  /\ Accepted => Sortable
  /\ node = "handed_off" /\ policy.issues # {} /\
     {issue[1] : issue \in Blocking(policy.issues)} = {"CYCLIC_PLAN"} => ~Sortable

(* The roles of the identity that executes what needs no approval. *)
SystemRoles == {"observer", "operator"}
NeedsApproval == policy.risk \in {Medium, High}

(* A plan that passes the gate without an approval calls, compensations    *)
(* included, only tools the system's own identity may call: no plan of an  *)
(* adapter gets a privileged tool past the people by understating its risk,*)
(* and none is let through that the executor must refuse.                  *)
UnapprovedIsSystems ==
  Accepted /\ ~NeedsApproval => {Registry[tool].role : tool \in ToolsOf(plan)} \subseteq SystemRoles

Writes == {plan[i] : i \in {j \in DOMAIN plan : ~ReadOnly(plan[j].tool)}}

MeetsCriteria(step, reading) == \A check \in step.success : CheckHolds(check, reading)

(* A restart of a service none of whose restart readings are observed.     *)
Unmeasured(step) == step.success = {ResultSucceeded}

(* A change that changes nothing is not a success: the criteria of an      *)
(* accepted write fail on the readings they were made from.  The restart   *)
(* of a service whose metrics are not about connections is the exception:  *)
(* nothing of it is compared with the baseline (_change_checks).           *)
UnchangedFails ==
  Accepted /\ case.answer.kind \in {"draft", "fixture"} =>
    \A step \in Writes :
      \/ ~MeetsCriteria(step, case.reading)
      \/ step.tool = "restart_service" /\ Unmeasured(step)

(* The preconditions of a draft's writes are made from the observations    *)
(* they are checked against at execution: they never stop a plan.  What is *)
(* observed is a count, an age or a rate: half of a negative reading would *)
(* be above it.                                                            *)
PreconditionsNeverStop ==
  Accepted /\ case.answer.kind = "draft" /\ (\A field \in DOMAIN case.reading : case.reading[field] >= 0) =>
    \A step \in Writes : \A check \in step.pre : CheckHolds(check, case.reading)

(* An accepted scaling of a draft covers the observed production with a    *)
(* fifth to spare, or takes all the workers there may be; and undoing it   *)
(* restores the number of workers that was observed, in the experiment the *)
(* run is about.                                                           *)
ScalingCovers ==
  Accepted /\ case.answer.kind = "draft" =>
    \A step \in Writes : step.tool = "scale_workers" =>
      /\ CapacityKnown(case.reading) =>
           \/ step.input.target = MaxReplicas
           \/ 10 * step.input.target * case.reading.consume_per_min >=
                12 * case.reading.produce_per_min * case.reading.replicas
      /\ step.rollback.mode = "tool"
      /\ step.rollback.input.target = case.reading.replicas
      /\ step.rollback.input.experiment = case.experiment
=============================================================================
