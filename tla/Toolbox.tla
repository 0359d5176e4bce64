------------------------------ MODULE Toolbox -------------------------------
(***************************************************************************)
(* The registered tools, what their strict input schemas admit, and the    *)
(* readings the three read-only tools return for an injected fault.        *)
(*                                                                         *)
(* A reading is a function from the observed fields to numbers.  Rates and *)
(* ratios are in tenths; a field that holds no number has 1 for being      *)
(* there; a version is its number.                                         *)
(***************************************************************************)
EXTENDS Integers, SequencesExt

CONSTANTS
  Text   \* the strings: of ids, and for tools, fields, evidence and experiments

Low == 1
Medium == 2
High == 3

Tool(risk, role, readOnly) == [risk |-> risk, role |-> role, readOnly |-> readOnly]

Registry ==
  [query_metrics      |-> Tool(Low, "observer", TRUE),
   inspect_logs       |-> Tool(Low, "observer", TRUE),
   get_service_status |-> Tool(Low, "observer", TRUE),
   restart_service    |-> Tool(High, "on-call-lead", FALSE),
   scale_workers      |-> Tool(Medium, "on-call-lead", FALSE),
   rotate_credential  |-> Tool(High, "security-on-call", FALSE),
   refresh_cache      |-> Tool(Low, "operator", FALSE)]

Registered == DOMAIN Registry

(* What the server itself writes into a plan. *)
Words ==
  Registered \union {"action", "fixture", "obs-metrics", "obs-logs", "obs-status"}
  \union {"__result_status__", "p95_ms", "error_rate", "pool_waiters", "queue_depth",
          "oldest_age_s", "http_401_rate", "stale_sample_rate", "trend", "replicas",
          "credential_version", "cache_version"}

ASSUME TextAssumption == Words \subseteq Text

(* Mutant: the risk a plan declares stands. *)
DeclaredRisk(step) == IF step.tool \in Registered THEN step.risk ELSE High

EffectiveRisk(step) ==
  IF step.tool \in Registered
  THEN Max({Registry[step.tool].risk, step.risk})
  ELSE High

(* A tool input names the experiment it acts on and a target: a number of  *)
(* replicas or a version, 0 when it is left out.  wellFormed stands for    *)
(* the patterns of the other fields.                                       *)
MaxReplicas == 30

InputValid(tool, input) ==
  /\ input.wellFormed
  /\ tool = "scale_workers" => input.target \in 1..MaxReplicas

ToolInput == [experiment : Text, wellFormed : BOOLEAN, target : Int]

-----------------------------------------------------------------------------
Falling == 1
Unchanged == 2

FaultMetrics ==
  [connection_pool_exhaustion |->
     [p95_ms |-> 3820, error_rate |-> 72, pool_waiters |-> 46, request_rate |-> 410],
   queue_backlog |->
     [queue_depth |-> 8420, consume_per_min |-> 260, produce_per_min |-> 510,
      oldest_age_s |-> 910],
   expired_credential |->
     [http_401_rate |-> 346, p95_ms |-> 240, network_errors |-> 0],
   stale_cache |->
     [p95_ms |-> 180, error_rate |-> 1, stale_sample_rate |-> 220],
   dependency_rate_limit |->
     [http_429_rate |-> 180, p95_ms |-> 2100, retry_amplification |-> 28]]

FaultKind == DOMAIN FaultMetrics

(* What the logs say is present or not. *)
LogPhrase ==
  [connection_pool_exhaustion |-> "pool timeout", queue_backlog |-> "none",
   expired_credential |-> "expired=true", stale_cache |-> "cache_version=",
   dependency_rate_limit |-> "response=429"]

(* Some readings on top of others. *)
With(top, others) ==
  [field \in DOMAIN top \union DOMAIN others |->
     IF field \in DOMAIN top THEN top[field] ELSE others[field]]

(* The metrics once the tool that lifts the fault was called, or once the  *)
(* workers were scaled to too few: the baseline of a run on an experiment  *)
(* an earlier run has worked on.                                           *)
RepairedMetrics(kind) ==
  CASE kind = "connection_pool_exhaustion" ->
         With([p95_ms |-> 540, error_rate |-> 4, pool_waiters |-> 1], FaultMetrics[kind])
    [] kind = "queue_backlog" ->
         With([queue_depth |-> 3190, consume_per_min |-> 690, oldest_age_s |-> 280,
               trend |-> Falling], FaultMetrics[kind])
    [] kind = "expired_credential" -> With([http_401_rate |-> 3], FaultMetrics[kind])
    [] kind = "stale_cache" -> With([stale_sample_rate |-> 0], FaultMetrics[kind])
    [] OTHER -> FaultMetrics[kind]

ScaledInVain(kind) == With([trend |-> Unchanged], FaultMetrics[kind])

(* query_metrics, then inspect_logs, then get_service_status. *)
Reading(metrics, replicas) ==
  With([matches |-> 3, samples |-> 1, instances |-> 1, replicas |-> replicas], metrics)

(* The readings a service may give for a fault, and those of the laboratory. *)
Observed(kind) == {"matches", "samples", "instances", "replicas"} \union DOMAIN FaultMetrics[kind]

ReadingShape(kind) == [Observed(kind) -> Int] \union [Observed(kind) \union {"trend"} -> Int]

LabReadings(kind) ==
  {Reading(metrics, replicas) :
     metrics \in {FaultMetrics[kind], RepairedMetrics(kind), ScaledInVain(kind)},
     replicas \in 0..MaxReplicas}

-----------------------------------------------------------------------------
(* Checks on readings.  "half" is gte with half of the value. *)
Check(field, operator, value) == [field |-> field, operator |-> operator, value |-> value]

ResultSucceeded == Check("__result_status__", "eq", 1)

CheckHolds(check, reading) ==
  IF check = ResultSucceeded THEN TRUE
  ELSE /\ check.field \in DOMAIN reading
       /\ LET actual == reading[check.field]
          IN CASE check.operator = "eq"   -> actual = check.value
               [] check.operator = "lt"   -> actual < check.value
               [] check.operator = "lte"  -> actual <= check.value
               [] check.operator = "gte"  -> actual >= check.value
               [] check.operator = "half" -> 2 * actual >= check.value

ManualRollback == [mode |-> "manual"]
ToolRollback(tool, input) == [mode |-> "tool", tool |-> tool, input |-> input]

-----------------------------------------------------------------------------
(* A step of a plan.  Its name is the sequence of the parts of its id.     *)
Checks == [field : Text, operator : {"eq", "lt", "lte", "gte", "half"}, value : Int]

Compensation == {ManualRollback} \union [mode : {"tool"}, tool : Text, input : ToolInput]

StepShape ==
  [id : Seq(Text), tool : Text, input : ToolInput, evidence : SUBSET Text,
   dependsOn : SUBSET Seq(Text), pre : SUBSET Checks, success : SUBSET Checks,
   rollback : Compensation, risk : Low..High]
=============================================================================
