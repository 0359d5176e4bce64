----------------------------- MODULE PlanDraft ------------------------------
(***************************************************************************)
(* How the answer of a model becomes a plan.  A draft is a sequence of     *)
(* steps [id, tool, input, evidence, dependsOn]; the server names the      *)
(* steps, computes what may be computed, and derives the preconditions,    *)
(* the success criteria and the compensation from the readings.            *)
(*                                                                         *)
(* An id is [slug, spelling]: the slug is what the normalisation leaves of *)
(* the text, as the sequence of its parts between dashes, and the spelling *)
(* tells ids with one slug apart ("A b", "a-b", and "step-a-b", whose      *)
(* spelling is "name").                                                    *)
(***************************************************************************)
EXTENDS Toolbox

CONSTANTS
  OneCharacter,   \* the parts of slugs that are a single character
  EvidenceLimit   \* how much evidence a proposal may cite in all

Digit == <<"1", "2", "3", "4", "5", "6">>

ASSUME OneCharacterAssumption ==
  ToSet(Digit) \subseteq OneCharacter \intersect Text /\ "fixture" \notin OneCharacter

IdShape == [slug : Seq(Text), spelling : Text]

DraftShape ==
  [id : IdShape, tool : Text, input : ToolInput, evidence : SUBSET Text,
   dependsOn : SUBSET IdShape]

Drafts == {draft \in Seq(DraftShape) : Len(draft) <= Len(Digit)}

-----------------------------------------------------------------------------
(* Naming the steps.  used keeps the names given so far; the loop that     *)
(* looks for a free one has a single alternative, and never ends when that *)
(* is taken as well.                                                       *)
Slug(draft, i) == IF draft[i].id.slug = <<>> THEN <<"action", Digit[i]>> ELSE draft[i].id.slug

(* Mutant: the alternative does not name the position of the step. *)
AlternativeTwo(slug, i) == Append(slug, "2")

Alternative(slug, i) == Append(slug, Digit[i])

NameStep(draft, naming, i) ==
  LET slug == Slug(draft, i)
      name == IF slug \in naming.used THEN Alternative(slug, i) ELSE slug
  IN IF naming.stuck THEN naming
     ELSE [stuck |-> name \in naming.used,
           used  |-> naming.used \union {name},
           names |-> [id \in {draft[i].id} \union DOMAIN naming.names |->
                        IF id = draft[i].id THEN name ELSE naming.names[id]]]

Unnamed == [stuck |-> FALSE, used |-> {}, names |-> [id \in {} |-> <<>>]]

Naming(draft) ==
  FoldLeft(LAMBDA naming, i : NameStep(draft, naming, i), Unnamed, [i \in DOMAIN draft |-> i])

(* A dependency that is not an id of the draft stays as it is written.     *)
AsWritten(id) == IF id.spelling = "name" THEN id.slug ELSE <<id.spelling>> \o id.slug

NameOf(names, id) == IF id \in DOMAIN names THEN names[id] ELSE AsWritten(id)

(* The pattern of a step id asks for two characters after "step-". *)
LegalName(name) == Len(name) > 1 \/ name[1] \notin OneCharacter

-----------------------------------------------------------------------------
(* The smallest number of workers that consumes what is produced and a     *)
(* fifth more, at the observed rate per worker.                            *)
Measured(reading, field) == field \in DOMAIN reading /\ reading[field] > 0

CapacityKnown(reading) ==
  \A field \in {"replicas", "consume_per_min", "produce_per_min"} : Measured(reading, field)

CeilDiv(x, y) == (x + y - 1) \div y

Needed(reading) ==
  Min({MaxReplicas,
       CeilDiv(12 * reading.produce_per_min * reading.replicas, 10 * reading.consume_per_min)})

(* Mutant: the number of workers the model proposed stands. *)
ProposedInput(step, reading) == step.input

FinalInput(step, reading) ==
  IF step.tool = "scale_workers" /\ CapacityKnown(reading)
  THEN [step.input EXCEPT !.target = Max({@, Needed(reading)})]
  ELSE step.input

-----------------------------------------------------------------------------
(* The readings a change is compared with. *)
ComparedFields(tool) ==
  CASE tool = "restart_service"   -> {"pool_waiters", "error_rate", "p95_ms"}
    [] tool = "scale_workers"     -> {"queue_depth", "oldest_age_s"}
    [] tool = "rotate_credential" -> {"http_401_rate"}
    [] tool = "refresh_cache"     -> {"stale_sample_rate"}
    [] OTHER                      -> {}

Compared(tool, reading) == ComparedFields(tool) \intersect DOMAIN reading

(* Mutant: a precondition asks for what the change is to bring about. *)
PreconditionsSwapped(tool, reading) == {Check(f, "lt", reading[f]) : f \in Compared(tool, reading)}

Preconditions(tool, reading) == {Check(f, "half", reading[f]) : f \in Compared(tool, reading)}

(* Mutant: a criterion is met by what was read before the change. *)
NotWorse(tool, reading) == {Check(f, "lte", reading[f]) : f \in Compared(tool, reading)}

Improvements(tool, reading) == {Check(f, "lt", reading[f]) : f \in Compared(tool, reading)}

Settings(tool, input, reading) ==
  CASE tool = "scale_workers" -> {Check("trend", "eq", Falling)}
    [] tool = "rotate_credential" /\ input.target # 0 ->
         {Check("credential_version", "eq", input.target)}
    [] tool = "refresh_cache" /\ "db_version" \in DOMAIN reading ->
         {Check("cache_version", "eq", reading.db_version)}
    [] OTHER -> {}

SuccessCriteria(tool, input, reading) ==
  LET criteria == Improvements(tool, reading) \union Settings(tool, input, reading)
  IN IF criteria = {} THEN {ResultSucceeded} ELSE criteria

Rollback(tool, input, reading) ==
  IF tool = "scale_workers" /\ "replicas" \in DOMAIN reading
  THEN ToolRollback(tool, [input EXCEPT !.target = reading.replicas])
  ELSE ManualRollback

ReadOnly(tool) == tool \in Registered /\ Registry[tool].readOnly

(* Mutant: dependencies keep the names the model gave. *)
KeptDependencies(step, names) == {AsWritten(id) : id \in step.dependsOn}

Dependencies(step, names) == {NameOf(names, id) : id \in step.dependsOn}

PlanStep(step, names, reading) ==
  LET input == FinalInput(step, reading)
  IN [id |-> names[step.id], tool |-> step.tool, input |-> input,
      evidence |-> step.evidence,
      dependsOn |-> Dependencies(step, names),
      pre |-> IF ReadOnly(step.tool) THEN {} ELSE Preconditions(step.tool, reading),
      success |-> IF ReadOnly(step.tool) THEN {ResultSucceeded}
                  ELSE SuccessCriteria(step.tool, input, reading),
      rollback |-> IF ReadOnly(step.tool) THEN ManualRollback
                   ELSE Rollback(step.tool, input, reading),
      risk |-> IF step.tool \in Registered THEN Registry[step.tool].risk ELSE High]

(* Mutant: any name is a step id. *)
AnyName(step) == step.id \notin step.dependsOn

(* What the schema of a plan step refuses, and that of a proposal. *)
StepLegal(step) == LegalName(step.id) /\ step.id \notin step.dependsOn

Cited(draft) == UNION {draft[i].evidence : i \in DOMAIN draft}

(* _materialize: a plan, a refusal by the schema, or no return. *)
Materialize(draft, reading) ==
  LET naming == Naming(draft)
      plan == [i \in DOMAIN draft |-> PlanStep(draft[i], naming.names, reading)]
  IN IF naming.stuck THEN [outcome |-> "stuck", plan |-> <<>>]
     ELSE IF (\A i \in DOMAIN plan : StepLegal(plan[i]))
             /\ Cardinality(Cited(draft)) <= EvidenceLimit
     THEN [outcome |-> "plan", plan |-> plan]
     ELSE [outcome |-> "refused", plan |-> <<>>]

-----------------------------------------------------------------------------
(* The fixture that answers instead of a model in the demonstration: one   *)
(* step by fixed rules on the readings and the logs.                       *)
Level(reading, field) == IF field \in DOMAIN reading THEN reading[field] ELSE 0

FixtureTool(reading, phrase) ==
  CASE Level(reading, "pool_waiters") >= 10 /\ phrase = "pool timeout" -> "restart_service"
    [] /\ Level(reading, "queue_depth") >= 1000
       /\ Level(reading, "produce_per_min") > Level(reading, "consume_per_min") -> "scale_workers"
    [] Level(reading, "http_401_rate") >= 50 /\ phrase = "expired=true" -> "rotate_credential"
    [] Level(reading, "stale_sample_rate") >= 10 /\ phrase = "cache_version=" -> "refresh_cache"
    [] OTHER -> "none"

FixturePre(tool) ==
  CASE tool = "restart_service"   -> {Check("pool_waiters", "gte", 10)}
    [] tool = "scale_workers"     -> {Check("queue_depth", "gte", 1000)}
    [] tool = "rotate_credential" -> {Check("http_401_rate", "gte", 50)}
    [] tool = "refresh_cache"     -> {Check("stale_sample_rate", "gte", 10)}

FixtureSuccess(tool) ==
  CASE tool = "restart_service" -> {Check("p95_ms", "lte", 800), Check("error_rate", "lte", 10)}
    [] tool = "scale_workers" -> {Check("trend", "eq", Falling), Check("replicas", "gte", 5)}
    [] tool = "rotate_credential" ->
         {Check("http_401_rate", "lte", 10), Check("credential_version", "eq", 18)}
    [] tool = "refresh_cache" ->
         {Check("cache_version", "eq", 453), Check("stale_sample_rate", "lte", 10)}

FixtureTarget(tool) == CASE tool = "scale_workers" -> 6 [] tool = "rotate_credential" -> 18 [] OTHER -> 0

FixturePlan(experiment, observations, reading, phrase) ==
  LET tool == FixtureTool(reading, phrase)
      input == [experiment |-> experiment, wellFormed |-> TRUE, target |-> FixtureTarget(tool)]
  IN IF tool = "none" THEN <<>>
     ELSE << [id |-> <<"fixture">>, tool |-> tool, input |-> input,
              evidence |-> observations, dependsOn |-> {},
              pre |-> FixturePre(tool), success |-> FixtureSuccess(tool),
              rollback |-> IF tool = "scale_workers"
                           THEN ToolRollback(tool, [input EXCEPT !.target = 2])
                           ELSE ManualRollback,
              risk |-> Registry[tool].risk] >>
=============================================================================
