--------------------------- MODULE PlanningProofs ---------------------------
(***************************************************************************)
(* What the nodes before the gate promise, for every case: every plan of   *)
(* every adapter, every draft, every reading of a service.                 *)
(*                                                                         *)
(* Plans are made by loops too: the lemmas about folds and induction of    *)
(* RetrievalProofs serve here as well.                                     *)
(***************************************************************************)
EXTENDS Planning, RetrievalProofs


-----------------------------------------------------------------------------
(* The tools, and the steps as they are compiled.                          *)
LEMMA Tools ==
  /\ Registered = {"query_metrics", "inspect_logs", "get_service_status", "restart_service",
                   "scale_workers", "rotate_credential", "refresh_cache"}
  /\ \A tool \in Registered : /\ Registry[tool].risk \in Low..High
                              /\ Registry[tool].readOnly \in BOOLEAN
                              /\ Registry[tool].risk = Low => Registry[tool].role \in SystemRoles
  /\ \A tool \in Registered :
       ~Registry[tool].readOnly =>
         tool \in {"restart_service", "scale_workers", "rotate_credential", "refresh_cache"}
<1>1. Registered = {"query_metrics", "inspect_logs", "get_service_status", "restart_service",
                    "scale_workers", "rotate_credential", "refresh_cache"}
  BY DEF Registered, Registry
<1>2. /\ Registry["query_metrics"] = Tool(Low, "observer", TRUE)
      /\ Registry["inspect_logs"] = Tool(Low, "observer", TRUE)
      /\ Registry["get_service_status"] = Tool(Low, "observer", TRUE)
      /\ Registry["restart_service"] = Tool(High, "on-call-lead", FALSE)
      /\ Registry["scale_workers"] = Tool(Medium, "on-call-lead", FALSE)
      /\ Registry["rotate_credential"] = Tool(High, "security-on-call", FALSE)
      /\ Registry["refresh_cache"] = Tool(Low, "operator", FALSE)
  BY DEF Registry
<1>3. \A tool \in {"query_metrics", "inspect_logs", "get_service_status"} :
        /\ Registry[tool].risk = Low /\ Registry[tool].role = "observer"
        /\ Registry[tool].readOnly = TRUE
  BY <1>2 DEF Tool
<1>4. /\ Registry["restart_service"].risk = High /\ Registry["restart_service"].readOnly = FALSE
      /\ Registry["scale_workers"].risk = Medium /\ Registry["scale_workers"].readOnly = FALSE
      /\ Registry["rotate_credential"].risk = High /\ Registry["rotate_credential"].readOnly = FALSE
      /\ Registry["refresh_cache"].risk = Low /\ Registry["refresh_cache"].readOnly = FALSE
      /\ Registry["refresh_cache"].role = "operator"
  BY <1>2 DEF Tool
<1>5. \A tool \in Registered :
        /\ Registry[tool].risk \in Low..High
        /\ Registry[tool].risk = Low => Registry[tool].role \in SystemRoles
  BY <1>1, <1>3, <1>4 DEF Low, Medium, High, SystemRoles
<1>6. \A tool \in Registered :
        \/ Registry[tool].readOnly = TRUE
        \/ /\ Registry[tool].readOnly = FALSE
           /\ tool \in {"restart_service", "scale_workers", "rotate_credential", "refresh_cache"}
  BY <1>1, <1>3, <1>4
<1>7. QED
  BY <1>1, <1>5, <1>6

LEMMA RiskTypes ==
  ASSUME NEW step \in StepShape
  PROVE  /\ EffectiveRisk(step) \in Low..High
         /\ step.tool \in Registered => EffectiveRisk(step) >= Registry[step.tool].risk
<1>1. step.risk \in Low..High
  BY DEF StepShape
<1>2. CASE step.tool \in Registered
  <2>1. Registry[step.tool].risk \in Low..High
    BY <1>2, Tools
  <2>2. QED
    BY <1>1, <1>2, <2>1, MaxOfTwo DEF EffectiveRisk, Low, High
<1>3. CASE step.tool \notin Registered
  BY <1>3 DEF EffectiveRisk, Low, High
<1>4. QED
  BY <1>2, <1>3

(* A step after its compilation differs in its risk only. *)
CompiledStep(step) == [step EXCEPT !.risk = EffectiveRisk(step)]

LEMMA CompiledStepTypes ==
  ASSUME NEW step \in StepShape
  PROVE  /\ CompiledStep(step) \in StepShape
         /\ CompiledStep(step).risk = EffectiveRisk(step)
         /\ CompiledStep(step).id = step.id
         /\ CompiledStep(step).tool = step.tool
         /\ CompiledStep(step).input = step.input
         /\ CompiledStep(step).evidence = step.evidence
         /\ CompiledStep(step).dependsOn = step.dependsOn
         /\ CompiledStep(step).pre = step.pre
         /\ CompiledStep(step).success = step.success
         /\ CompiledStep(step).rollback = step.rollback
  BY RiskTypes DEF CompiledStep, StepShape

LEMMA AddStepTypes ==
  ASSUME NEW compiled \in Seq(StepShape), NEW step \in StepShape
  PROVE  AddStep(compiled, step) \in Seq(StepShape)
<1>1. CompiledStep(step) \in StepShape
  BY CompiledStepTypes
<1>2. QED
  BY <1>1 DEF AddStep, CompiledStep

(* The loop of compile over the steps of a plan. *)
LEMMA CompiledChain ==
  ASSUME NEW plan_ \in Seq(StepShape)
  PROVE  \E link : /\ Compiled(plan_) = link[Len(plan_)]
                   /\ link[0] = <<>>
                   /\ \A i \in 1..Len(plan_) : link[i] = AddStep(link[i - 1], plan_[i])
<1> DEFINE n == Len(plan_)
           D == Seq(StepShape)
           turn == [p \in D \X (1..n) |-> AddStep(p[1], plan_[p[2]])]
           Iterates(iter) == iter = [s \in SUBSET (DOMAIN plan_) |->
                               IF s = {} THEN <<>>
                               ELSE AddStep(iter[s \ {Max(s)}], plan_[Max(s)])]
<1>1. /\ n \in Nat /\ DOMAIN plan_ = 1..n
      /\ <<>> \in D
      /\ \A i \in 1..n : plan_[i] \in StepShape
  OBVIOUS
<1>2. turn \in [D \X (1..n) -> D]
  BY <1>1, AddStepTypes
<1>3. PICK iter \in [SUBSET (1..n) -> D] : Folds(iter, n, <<>>, turn)
  <2> HIDE DEF D, turn, n
  <2> QED BY <1>1, <1>2, FoldExists
<1>4. Iterates(iter)
  <2>1. ASSUME NEW s \in SUBSET (1..n), s # {}
        PROVE  iter[s] = AddStep(iter[s \ {Max(s)}], plan_[Max(s)])
    <3>1. Max(s) \in 1..n
      <4>1. n \in Nat
        BY <1>1
      <4> HIDE DEF n
      <4>2. Max(s) \in s
        BY <2>1, <4>1, MaxInRange
      <4>3. QED
        BY <4>2
    <3>2. iter[s \ {Max(s)}] \in D
      OBVIOUS
    <3>3. iter[s] = turn[<<iter[s \ {Max(s)}], Max(s)>>]
      BY <1>3, <2>1 DEF Folds
    <3> HIDE DEF D
    <3>4. QED
      BY <3>1, <3>2, <3>3
  <2>2. iter[{}] = <<>>
    BY <1>3 DEF Folds
  <2> HIDE DEF D, n
  <2>3. QED
    BY <1>1, <2>1, <2>2
<1>5. PICK it : Iterates(it) /\ Compiled(plan_) = it[DOMAIN plan_]
  <2> DEFINE it == CHOOSE it : Iterates(it)
  <2>1. Iterates(it)
    BY <1>4
  <2>2. Compiled(plan_) = it[DOMAIN plan_]
    BY Zenon DEF Compiled, FoldLeft, MapThenFoldSet
  <2>3. QED
    BY <2>1, <2>2
<1> DEFINE link == [i \in 0..n |-> it[1..i]]
<1>6. link[0] = <<>>
  <2>1. 1..0 = {} /\ 0 \in 0..n /\ {} \in SUBSET (DOMAIN plan_)
    BY <1>1
  <2>2. it[{}] = <<>>
    BY <1>5, <2>1
  <2>3. QED
    BY <2>1, <2>2
<1>7. ASSUME NEW i \in 1..n PROVE link[i] = AddStep(link[i - 1], plan_[i])
  <2>1. 1..i \in SUBSET (DOMAIN plan_) /\ 1..i # {} /\ i \in 1..i /\ i \in Nat
    BY <1>1
  <2>2. Max(1..i) = i /\ (1..i) \ {i} = 1..(i - 1)
    BY <2>1, MaxOfTop
  <2>3. it[1..i] = AddStep(it[1..(i - 1)], plan_[i])
    BY <1>5, <2>1, <2>2
  <2>4. link[i] = it[1..i] /\ link[i - 1] = it[1..(i - 1)]
    BY <1>1
  <2>5. QED
    BY <2>3, <2>4
<1>8. Compiled(plan_) = link[n]
  BY <1>1, <1>5
<1> HIDE DEF link
<1>9. QED
  BY <1>6, <1>7, <1>8

(* What is compiled are the steps the registry admits. *)
Kept(compiled, plan_) ==
  /\ compiled \in Seq(StepShape)
  /\ \A k \in DOMAIN compiled :
       \E i \in DOMAIN plan_ : RegistryIssue(plan_[i]) = "none" /\ compiled[k] = CompiledStep(plan_[i])

LEMMA AddStepKeeps ==
  ASSUME NEW plan_ \in Seq(StepShape), NEW compiled, Kept(compiled, plan_), NEW i \in DOMAIN plan_
  PROVE  Kept(AddStep(compiled, plan_[i]), plan_)
<1> DEFINE step == plan_[i]
<1>1. step \in StepShape /\ compiled \in Seq(StepShape)
  BY DEF Kept
<1>2. CASE RegistryIssue(step) # "none"
  BY <1>2 DEF AddStep
<1>3. CASE RegistryIssue(step) = "none"
  <2> DEFINE new == AddStep(compiled, step)
  <2>1. new = Append(compiled, CompiledStep(step))
    BY <1>3 DEF AddStep, CompiledStep
  <2>2. new \in Seq(StepShape)
    BY <1>1, AddStepTypes
  <2> HIDE DEF new
  <2>3. ASSUME NEW k \in DOMAIN new
        PROVE  \E j \in DOMAIN plan_ : RegistryIssue(plan_[j]) = "none" /\ new[k] = CompiledStep(plan_[j])
    <3>1. CASE k \in DOMAIN compiled
      <4>1. new[k] = compiled[k]
        BY <1>1, <2>1, <3>1
      <4>2. QED
        BY <3>1, <4>1 DEF Kept
    <3>2. CASE k \notin DOMAIN compiled
      <4>1. new[k] = CompiledStep(step)
        <5>1. CompiledStep(step) \in StepShape
          BY <1>1, CompiledStepTypes
        <5>2. QED
          BY <1>1, <2>1, <3>2, <5>1
      <4>2. QED
        BY <1>3, <4>1
    <3>3. QED
      BY <3>1, <3>2
  <2>4. QED
    BY <2>2, <2>3 DEF Kept, new
<1>4. QED
  BY <1>2, <1>3

LEMMA CompiledSteps ==
  ASSUME NEW plan_ \in Seq(StepShape)
  PROVE  Kept(Compiled(plan_), plan_)
<1>1. PICK link : /\ Compiled(plan_) = link[Len(plan_)]
                  /\ link[0] = <<>>
                  /\ \A i \in 1..Len(plan_) : link[i] = AddStep(link[i - 1], plan_[i])
  BY CompiledChain
<1> DEFINE n == Len(plan_)
           T == {i \in 0..n : Kept(link[i], plan_)}
<1>2. n \in Nat /\ DOMAIN plan_ = 1..n
  OBVIOUS
<1>3. 0 \in T
  <2>1. Kept(<<>>, plan_)
    BY DEF Kept
  <2>2. QED
    BY <1>1, <1>2, <2>1
<1>4. ASSUME NEW i \in 1..n, i - 1 \in T PROVE i \in T
  <2>1. Kept(link[i - 1], plan_)
    BY <1>4
  <2>2. Kept(AddStep(link[i - 1], plan_[i]), plan_)
    BY <1>2, <2>1, AddStepKeeps
  <2>3. QED
    BY <1>1, <1>2, <2>2
<1>5. 0..n \subseteq T
  <2> HIDE DEF T, n
  <2> QED BY <1>2, <1>3, <1>4, UpTo
<1>6. QED
  BY <1>1, <1>2, <1>5

(* Where the registry admits all of a plan, the steps keep their places. *)
LEMMA CompiledWhole ==
  ASSUME NEW plan_ \in Seq(StepShape),
         \A i \in DOMAIN plan_ : RegistryIssue(plan_[i]) = "none"
  PROVE  Compiled(plan_) = [i \in DOMAIN plan_ |-> CompiledStep(plan_[i])]
<1>1. PICK link : /\ Compiled(plan_) = link[Len(plan_)]
                  /\ link[0] = <<>>
                  /\ \A i \in 1..Len(plan_) : link[i] = AddStep(link[i - 1], plan_[i])
  BY CompiledChain
<1> DEFINE n == Len(plan_)
           T == {m \in 0..n : link[m] = [i \in 1..m |-> CompiledStep(plan_[i])]}
<1>2. n \in Nat /\ DOMAIN plan_ = 1..n
  OBVIOUS
<1>3. 0 \in T
  BY <1>1, <1>2
<1>4. ASSUME NEW m \in 1..n, m - 1 \in T PROVE m \in T
  <2> DEFINE prefix == [i \in 1..(m - 1) |-> CompiledStep(plan_[i])]
  <2>1. link[m - 1] = prefix
    BY <1>4
  <2>2. link[m] = Append(prefix, CompiledStep(plan_[m]))
    BY <1>1, <1>2, <2>1 DEF AddStep, CompiledStep
  <2>3. prefix \in Seq(StepShape) /\ Len(prefix) = m - 1
    <3>1. \A i \in 1..(m - 1) : plan_[i] \in StepShape
      BY <1>2
    <3>2. \A i \in 1..(m - 1) : CompiledStep(plan_[i]) \in StepShape
      BY <3>1, CompiledStepTypes
    <3>3. m - 1 \in Nat
      BY <1>2
    <3>4. QED
      BY <3>2, <3>3
  <2>4. Append(prefix, CompiledStep(plan_[m])) = [i \in 1..m |-> CompiledStep(plan_[i])]
    <3>1. CompiledStep(plan_[m]) \in StepShape
      BY <1>2, CompiledStepTypes
    <3>2. QED
      BY <2>3, <3>1
  <2>5. link[m] = [i \in 1..m |-> CompiledStep(plan_[i])]
    BY <2>2, <2>4
  <2> HIDE DEF prefix
  <2>6. m \in 0..n
    BY <1>2
  <2>7. QED
    BY <2>5, <2>6
<1>5. 0..n \subseteq T
  <2> HIDE DEF T, n
  <2> QED BY <1>2, <1>3, <1>4, UpTo
<1>6. n \in T
  <2> HIDE DEF T, n
  <2> QED BY <1>2, <1>5
<1>7. link[n] = [i \in 1..n |-> CompiledStep(plan_[i])]
  BY <1>6
<1>8. QED
  BY <1>1, <1>2, <1>7

-----------------------------------------------------------------------------
(* Naming the steps of a draft.                                            *)
Names == Seq(Text)
Namings == [stuck : BOOLEAN, used : SUBSET Names, names : UNION {[ids -> Names] : ids \in SUBSET IdShape}]

NameGiven(draft, naming, i) ==
  IF Slug(draft, i) \in naming.used THEN Alternative(Slug(draft, i), i) ELSE Slug(draft, i)

LEMMA DraftTypes ==
  ASSUME NEW draft \in Drafts
  PROVE  /\ Len(draft) \in 0..6 /\ DOMAIN draft = 1..Len(draft)
         /\ \A i \in DOMAIN draft : i \in 1..6 /\ draft[i] \in DraftShape
<1>1. Len(Digit) = 6
  BY DEF Digit
<1>2. draft \in Seq(DraftShape) /\ Len(draft) <= 6
  BY <1>1 DEF Drafts
<1>3. /\ Len(draft) \in 0..6 /\ DOMAIN draft = 1..Len(draft)
      /\ \A i \in DOMAIN draft : draft[i] \in DraftShape
  <2>1. Len(draft) \in Nat /\ DOMAIN draft = 1..Len(draft)
    BY <1>2
  <2>2. \A i \in 1..Len(draft) : draft[i] \in DraftShape
    BY <1>2
  <2>3. QED
    BY <1>2, <2>1, <2>2
<1>4. QED
  BY <1>3

LEMMA Digits ==
  /\ \A i \in 1..6 : Digit[i] \in Text
  /\ \A i, j \in 1..6 : Digit[i] = Digit[j] => i = j
<1>1. /\ Digit[1] = "1" /\ Digit[2] = "2" /\ Digit[3] = "3"
      /\ Digit[4] = "4" /\ Digit[5] = "5" /\ Digit[6] = "6"
  BY DEF Digit
<1>2. \A i \in 1..6 : i = 1 \/ i = 2 \/ i = 3 \/ i = 4 \/ i = 5 \/ i = 6
  OBVIOUS
<1>3. \A i \in 1..6 : Digit[i] \in Text
  <2>1. Len(Digit) = 6 /\ DOMAIN Digit = 1..6
    BY DEF Digit
  <2>2. \A i \in 1..6 : Digit[i] \in ToSet(Digit)
    BY <2>1 DEF ToSet
  <2>3. QED
    BY <2>2, OneCharacterAssumption
<1>4. \A i, j \in 1..6 : Digit[i] = Digit[j] => i = j
  BY <1>1, <1>2
<1>5. QED
  BY <1>3, <1>4

LEMMA SlugTypes ==
  ASSUME NEW draft \in Drafts, NEW i \in DOMAIN draft
  PROVE  /\ Slug(draft, i) \in Names
         /\ Alternative(Slug(draft, i), i) \in Names
<1>1. draft[i].id.slug \in Names /\ Digit[i] \in Text
  BY DraftTypes, Digits DEF DraftShape, IdShape, Names
<1>2. Slug(draft, i) \in Names
  <2>1. "action" \in Text
    BY TextAssumption DEF Words
  <2>2. <<"action", Digit[i]>> \in Seq(Text)
    BY <1>1, <2>1
  <2>3. QED
    BY <1>1, <2>2 DEF Slug, Names
<1>3. QED
  BY <1>1, <1>2 DEF Alternative, Names

LEMMA NameStepIs ==
  ASSUME NEW draft \in Drafts, NEW i \in DOMAIN draft, NEW naming \in Namings
  PROVE  /\ naming.stuck = TRUE => NameStep(draft, naming, i) = naming
         /\ naming.stuck = FALSE =>
              NameStep(draft, naming, i) =
                [stuck |-> NameGiven(draft, naming, i) \in naming.used,
                 used  |-> naming.used \union {NameGiven(draft, naming, i)},
                 names |-> [id \in {draft[i].id} \union DOMAIN naming.names |->
                              IF id = draft[i].id THEN NameGiven(draft, naming, i)
                              ELSE naming.names[id]]]
<1>1. CASE naming.stuck = TRUE
  BY <1>1, Zenon DEF NameStep
<1>2. CASE naming.stuck = FALSE
  BY <1>2, Zenon DEF NameStep, NameGiven
<1>3. QED
  BY <1>1, <1>2 DEF Namings

LEMMA NameStepTypes ==
  ASSUME NEW draft \in Drafts, NEW i \in DOMAIN draft, NEW naming \in Namings
  PROVE  NameStep(draft, naming, i) \in Namings
<1> DEFINE name == NameGiven(draft, naming, i)
<1>1. name \in Names
  BY SlugTypes DEF NameGiven
<1>2. CASE naming.stuck = TRUE
  BY <1>2, NameStepIs
<1>3. CASE naming.stuck = FALSE
  <2> DEFINE names == [id \in {draft[i].id} \union DOMAIN naming.names |->
                         IF id = draft[i].id THEN name ELSE naming.names[id]]
  <2>1. PICK ids \in SUBSET IdShape : naming.names \in [ids -> Names]
    BY DEF Namings
  <2>2. draft[i].id \in IdShape
    BY DraftTypes DEF DraftShape
  <2>3. names \in [{draft[i].id} \union ids -> Names]
    BY <1>1, <2>1
  <2>4. {draft[i].id} \union ids \in SUBSET IdShape
    BY <2>1, <2>2
  <2>5. naming.used \union {name} \in SUBSET Names
    BY <1>1 DEF Namings
  <2>6. (name \in naming.used) \in BOOLEAN
    OBVIOUS
  <2>7. NameStep(draft, naming, i) =
          [stuck |-> name \in naming.used, used |-> naming.used \union {name}, names |-> names]
    BY <1>3, NameStepIs
  <2> HIDE DEF name, names
  <2>8. names \in UNION {[ids_ -> Names] : ids_ \in SUBSET IdShape}
    BY <2>3, <2>4
  <2>9. QED
    <3> DEFINE stuck == name \in naming.used
    <3>1. stuck \in BOOLEAN
      BY <2>6
    <3> HIDE DEF stuck
    <3>2. [stuck |-> stuck, used |-> naming.used \union {name}, names |-> names] \in Namings
      BY <2>5, <2>8, <3>1 DEF Namings
    <3>3. QED
      BY <2>7, <3>2 DEF stuck
<1>4. QED
  BY <1>2, <1>3 DEF Namings

(* The loop of _materialize over the steps of a draft. *)
LEMMA NamingChain ==
  ASSUME NEW draft \in Drafts
  PROVE  \E link : /\ Naming(draft) = link[Len(draft)]
                   /\ link[0] = Unnamed
                   /\ \A i \in 1..Len(draft) : link[i] = NameStep(draft, link[i - 1], i)
<1> DEFINE n == Len(draft)
           D == Namings
           turn == [p \in D \X (1..n) |-> NameStep(draft, p[1], p[2])]
           order == [i \in DOMAIN draft |-> i]
           Iterates(iter) == iter = [s \in SUBSET (DOMAIN order) |->
                               IF s = {} THEN Unnamed
                               ELSE NameStep(draft, iter[s \ {Max(s)}], order[Max(s)])]
<1>1. n \in Nat /\ DOMAIN draft = 1..n /\ DOMAIN order = 1..n
  BY DraftTypes
<1>2. Unnamed \in D
  <2>1. [id \in {} |-> <<>>] \in [{} -> Names] /\ {} \in SUBSET IdShape
    OBVIOUS
  <2>2. [id \in {} |-> <<>>] \in UNION {[ids -> Names] : ids \in SUBSET IdShape}
    BY <2>1
  <2>3. QED
    BY <2>2 DEF Unnamed, Namings
<1>3. turn \in [D \X (1..n) -> D]
  BY <1>1, NameStepTypes
<1>4. PICK iter \in [SUBSET (1..n) -> D] : Folds(iter, n, Unnamed, turn)
  <2> HIDE DEF D, turn, n
  <2> QED BY <1>1, <1>2, <1>3, FoldExists
<1>5. Iterates(iter)
  <2>1. ASSUME NEW s \in SUBSET (1..n), s # {}
        PROVE  iter[s] = NameStep(draft, iter[s \ {Max(s)}], order[Max(s)])
    <3>1. Max(s) \in 1..n
      <4>1. n \in Nat
        BY <1>1
      <4> HIDE DEF n
      <4>2. Max(s) \in s
        BY <2>1, <4>1, MaxInRange
      <4>3. QED
        BY <4>2
    <3>2. iter[s \ {Max(s)}] \in D
      OBVIOUS
    <3>3. iter[s] = turn[<<iter[s \ {Max(s)}], Max(s)>>]
      BY <1>4, <2>1 DEF Folds
    <3>4. order[Max(s)] = Max(s)
      BY <1>1, <3>1
    <3> HIDE DEF D, order
    <3>5. QED
      BY <3>1, <3>2, <3>3, <3>4
  <2>2. iter[{}] = Unnamed
    BY <1>4 DEF Folds
  <2> HIDE DEF D, n, order
  <2>3. QED
    BY <1>1, <2>1, <2>2
<1>6. PICK it : Iterates(it) /\ Naming(draft) = it[DOMAIN order]
  <2> DEFINE it == CHOOSE it : Iterates(it)
  <2>1. Iterates(it)
    BY <1>5
  <2>2. Naming(draft) = it[DOMAIN order]
    BY Zenon DEF Naming, FoldLeft, MapThenFoldSet
  <2>3. QED
    BY <2>1, <2>2
<1> DEFINE link == [i \in 0..n |-> it[1..i]]
<1>7. link[0] = Unnamed
  <2>1. 1..0 = {} /\ 0 \in 0..n /\ {} \in SUBSET (DOMAIN order)
    BY <1>1
  <2>2. it[{}] = Unnamed
    BY <1>6, <2>1
  <2>3. QED
    BY <2>1, <2>2
<1>8. ASSUME NEW i \in 1..n PROVE link[i] = NameStep(draft, link[i - 1], i)
  <2>1. 1..i \in SUBSET (DOMAIN order) /\ 1..i # {} /\ i \in 1..i /\ i \in Nat
    <3> HIDE DEF order, n
    <3>1. 1..i \in SUBSET (1..n) /\ 1..i # {} /\ i \in 1..i /\ i \in Nat
      BY <1>1
    <3>2. QED
      BY <1>1, <3>1
  <2>2. Max(1..i) = i /\ (1..i) \ {i} = 1..(i - 1)
    BY <2>1, MaxOfTop
  <2>3. it[1..i] = NameStep(draft, it[1..(i - 1)], order[i])
    <3> HIDE DEF order
    <3> QED BY <1>6, <2>1, <2>2
  <2>4. link[i] = it[1..i] /\ link[i - 1] = it[1..(i - 1)] /\ order[i] = i
    BY <1>1
  <2>5. QED
    BY <2>3, <2>4
<1>9. Naming(draft) = link[n]
  BY <1>1, <1>6
<1> HIDE DEF link
<1>10. QED
  BY <1>7, <1>8, <1>9

(* What is known of the names after the first m steps. *)
Collides(draft) ==
  \E i, j \in DOMAIN draft : i < j /\ Slug(draft, i) = Append(Slug(draft, j), Digit[j])

Named(draft, naming, m) ==
  /\ naming \in Namings
  /\ \A name \in naming.used :
       \E j \in 1..m : name = Slug(draft, j) \/ name = Alternative(Slug(draft, j), j)
  /\ naming.stuck = FALSE => DOMAIN naming.names = {draft[j].id : j \in 1..m}
  /\ naming.stuck = TRUE => Collides(draft)

LEMMA AppendInjective ==
  ASSUME NEW D, NEW s \in Seq(D), NEW t \in Seq(D), NEW d \in D, NEW e \in D,
         Append(s, d) = Append(t, e)
  PROVE  d = e
<1>1. Len(Append(s, d)) = Len(s) + 1 /\ Append(s, d)[Len(s) + 1] = d
  OBVIOUS
<1>2. Len(Append(t, e)) = Len(t) + 1 /\ Append(t, e)[Len(t) + 1] = e
  OBVIOUS
<1>3. QED
  BY <1>1, <1>2

LEMMA NameStepNames ==
  ASSUME NEW draft \in Drafts, NEW m \in DOMAIN draft, NEW naming, Named(draft, naming, m - 1)
  PROVE  Named(draft, NameStep(draft, naming, m), m)
<1> DEFINE new == NameStep(draft, naming, m)
           name == NameGiven(draft, naming, m)
<1>1. naming \in Namings /\ new \in Namings
  BY NameStepTypes DEF Named
<1>2. m \in 1..6 /\ m \in Nat /\ 1..(m - 1) \subseteq 1..m /\ m \in 1..m
  BY DraftTypes
<1>3. CASE naming.stuck = TRUE
  <2>1. new = naming
    BY <1>1, <1>3, NameStepIs
  <2>2. QED
    BY <1>2, <1>3, <2>1 DEF Named
<1>4. CASE naming.stuck = FALSE
  <2> DEFINE names == [id \in {draft[m].id} \union DOMAIN naming.names |->
                         IF id = draft[m].id THEN name ELSE naming.names[id]]
  <2>1. new = [stuck |-> name \in naming.used, used |-> naming.used \union {name}, names |-> names]
    BY <1>1, <1>4, NameStepIs
  <2>2. /\ new.stuck = (name \in naming.used)
        /\ new.used = naming.used \union {name}
        /\ DOMAIN new.names = {draft[m].id} \union DOMAIN naming.names
    <3> HIDE DEF new, name
    <3>1. DOMAIN names = {draft[m].id} \union DOMAIN naming.names
      OBVIOUS
    <3> HIDE DEF names
    <3>2. QED
      BY <2>1, <3>1
  <2>3. name = Slug(draft, m) \/ name = Alternative(Slug(draft, m), m)
    BY DEF NameGiven
  <2> HIDE DEF new
  <2>4. ASSUME NEW used \in new.used
        PROVE  \E j \in 1..m : used = Slug(draft, j) \/ used = Alternative(Slug(draft, j), j)
    <3>1. CASE used \in naming.used
      <4>1. PICK j \in 1..(m - 1) : used = Slug(draft, j) \/ used = Alternative(Slug(draft, j), j)
        BY <3>1 DEF Named
      <4>2. QED
        BY <1>2, <4>1
    <3>2. CASE used = name
      BY <1>2, <2>3, <3>2
    <3>3. QED
      BY <2>2, <3>1, <3>2
  <2>5. DOMAIN new.names = {draft[j].id : j \in 1..m}
    <3>1. DOMAIN naming.names = {draft[j].id : j \in 1..(m - 1)}
      BY <1>4 DEF Named
    <3>2. \A j \in 1..m : j = m \/ j \in 1..(m - 1)
      BY <1>2
    <3>3. {draft[m].id} \union {draft[j].id : j \in 1..(m - 1)} = {draft[j].id : j \in 1..m}
      BY <1>2, <3>2
    <3>4. QED
      BY <2>2, <3>1, <3>3
  <2>6. ASSUME name \in naming.used PROVE Collides(draft)
    <3>1. Slug(draft, m) \in naming.used /\ name = Append(Slug(draft, m), Digit[m])
      BY <2>6 DEF NameGiven, Alternative
    <3>2. PICK j \in 1..(m - 1) : name = Slug(draft, j) \/ name = Alternative(Slug(draft, j), j)
      BY <2>6 DEF Named
    <3>3. j \in DOMAIN draft /\ j < m /\ j \in 1..6 /\ j # m
      BY DraftTypes
    <3>4. name # Append(Slug(draft, j), Digit[j])
      <4>1. Slug(draft, m) \in Names /\ Slug(draft, j) \in Names
        BY <3>3, SlugTypes
      <4>2. Digit[m] \in Text /\ Digit[j] \in Text /\ Digit[m] # Digit[j]
        BY <1>2, <3>3, Digits
      <4>3. QED
        BY <3>1, <4>1, <4>2, AppendInjective DEF Names
    <3>5. QED
      BY <3>1, <3>2, <3>3, <3>4 DEF Alternative, Collides
  <2>7. QED
    BY <1>1, <2>2, <2>4, <2>5, <2>6 DEF Named, new
<1>5. QED
  BY <1>1, <1>3, <1>4 DEF Namings

LEMMA NamingNames ==
  ASSUME NEW draft \in Drafts
  PROVE  Named(draft, Naming(draft), Len(draft))
<1>1. PICK link : /\ Naming(draft) = link[Len(draft)]
                  /\ link[0] = Unnamed
                  /\ \A i \in 1..Len(draft) : link[i] = NameStep(draft, link[i - 1], i)
  BY NamingChain
<1> DEFINE n == Len(draft)
           T == {m \in 0..n : Named(draft, link[m], m)}
<1>2. n \in Nat /\ DOMAIN draft = 1..n
  BY DraftTypes
<1>3. 0 \in T
  <2>1. Unnamed \in Namings
    <3>1. [id \in {} |-> <<>>] \in [{} -> Names] /\ {} \in SUBSET IdShape
      OBVIOUS
    <3>2. [id \in {} |-> <<>>] \in UNION {[ids -> Names] : ids \in SUBSET IdShape}
      BY <3>1
    <3>3. QED
      BY <3>2 DEF Unnamed, Namings
  <2>2. Unnamed.stuck = FALSE /\ Unnamed.used = {} /\ DOMAIN Unnamed.names = {}
    BY DEF Unnamed
  <2>3. {draft[j].id : j \in 1..0} = {}
    OBVIOUS
  <2>4. Named(draft, Unnamed, 0)
    BY <2>1, <2>2, <2>3 DEF Named
  <2>5. QED
    BY <1>1, <1>2, <2>4
<1>4. ASSUME NEW m \in 1..n, m - 1 \in T PROVE m \in T
  <2>1. Named(draft, link[m - 1], m - 1)
    BY <1>4
  <2>2. Named(draft, NameStep(draft, link[m - 1], m), m)
    BY <1>2, <2>1, NameStepNames
  <2>3. QED
    BY <1>1, <1>2, <2>2
<1>5. 0..n \subseteq T
  <2> HIDE DEF T, n
  <2> QED BY <1>2, <1>3, <1>4, UpTo
<1>6. QED
  BY <1>1, <1>2, <1>5

-----------------------------------------------------------------------------
(* The parts of a plan step that are computed from the readings.           *)
Readings == UNION {ReadingShape(kind) : kind \in FaultKind}

LEMMA ReadingTypes ==
  ASSUME NEW kind \in FaultKind, NEW reading \in ReadingShape(kind)
  PROVE  \A field \in DOMAIN reading : reading[field] \in Int
  BY DEF ReadingShape

LEMMA Division ==
  ASSUME NEW z \in Nat, NEW y \in Nat, y > 0
  PROVE  z \div y \in Int /\ y * (z \div y) <= z /\ z < y * ((z \div y) + 1)
<1>1. z \div y \in Int
  OBVIOUS
<1>2. z % y \in 0..(y - 1)
  OBVIOUS
<1>3. z = y * (z \div y) + (z % y)
  OBVIOUS
<1>4. QED
  BY <1>1, <1>2, <1>3

LEMMA CeilDivTypes ==
  ASSUME NEW x \in Nat, NEW y \in Nat, y > 0
  PROVE  /\ CeilDiv(x, y) \in Nat
         /\ CeilDiv(x, y) * y >= x
<1> DEFINE z == x + y - 1
           q == z \div y
<1>1. z \in Nat
  OBVIOUS
<1>2. q \in Int /\ y * q <= z /\ z < y * (q + 1)
  <2> HIDE DEF z
  <2> QED BY <1>1, Division
<1>3. q >= 0
  <2> HIDE DEF q
  <2>1. z >= 0 /\ y * (q + 1) > 0
    BY <1>1, <1>2
  <2>2. QED
    BY <1>2, <2>1
<1>4. y * q >= x
  <2> HIDE DEF q
  <2>1. y * (q + 1) = y * q + y /\ y * q \in Int
    BY <1>2
  <2>2. QED
    BY <1>2, <2>1
<1>5. q * y = y * q
  <2> HIDE DEF q
  <2> QED BY <1>2
<1>6. QED
  BY <1>2, <1>3, <1>4, <1>5 DEF CeilDiv

LEMMA NeededTypes ==
  ASSUME NEW reading, \A field \in DOMAIN reading : reading[field] \in Int,
         CapacityKnown(reading)
  PROVE  /\ Needed(reading) \in Int
         /\ \/ Needed(reading) = MaxReplicas
            \/ 10 * Needed(reading) * reading.consume_per_min >=
                 12 * reading.produce_per_min * reading.replicas
<1>1. /\ "replicas" \in DOMAIN reading /\ reading["replicas"] > 0
      /\ "consume_per_min" \in DOMAIN reading /\ reading["consume_per_min"] > 0
      /\ "produce_per_min" \in DOMAIN reading /\ reading["produce_per_min"] > 0
  BY DEF CapacityKnown, Measured
<1> DEFINE a == reading["replicas"]
           c == reading["consume_per_min"]
           p == reading["produce_per_min"]
           x == 12 * p * a
           y == 10 * c
           d == CeilDiv(x, y)
<1>2. a \in Nat /\ c \in Nat /\ p \in Nat /\ c > 0
  BY <1>1
<1>3. x \in Nat /\ y \in Nat /\ y > 0
  <2> HIDE DEF a, c, p
  <2>1. p * a \in Nat
    BY <1>2
  <2>2. QED
    BY <1>2, <2>1
<1>4. d \in Nat /\ d * y >= x
  <2> HIDE DEF x, y
  <2> QED BY <1>3, CeilDivTypes
<1>5. Needed(reading) = Min({MaxReplicas, d})
  BY DEF Needed
<1>6. MaxReplicas \in Int
  BY DEF MaxReplicas
<1>7. Needed(reading) = MaxReplicas \/ Needed(reading) = d
  <2> HIDE DEF d
  <2> QED BY <1>4, <1>5, <1>6, MinOfTwo
<1>8. 10 * d * c >= x
  <2> HIDE DEF d, c, x
  <2>1. d * (10 * c) = 10 * d * c
    BY <1>2, <1>4
  <2>2. QED
    BY <1>2, <1>4, <2>1
<1>9. QED
  <2> HIDE DEF d, x
  <2>1. CASE Needed(reading) = MaxReplicas
    BY <1>6, <2>1
  <2>2. CASE Needed(reading) = d
    BY <1>4, <1>8, <2>2 DEF x
  <2>3. QED
    BY <1>7, <2>1, <2>2

LEMMA FinalInputTypes ==
  ASSUME NEW step \in DraftShape, NEW reading, \A field \in DOMAIN reading : reading[field] \in Int
  PROVE  /\ FinalInput(step, reading) \in ToolInput
         /\ FinalInput(step, reading).experiment = step.input.experiment
         /\ FinalInput(step, reading).wellFormed = step.input.wellFormed
         /\ step.tool = "scale_workers" /\ CapacityKnown(reading) =>
              FinalInput(step, reading).target >= Needed(reading)
<1>1. step.input \in ToolInput
  BY DEF DraftShape
<1>2. CASE step.tool = "scale_workers" /\ CapacityKnown(reading)
  <2> DEFINE target == Max({step.input.target, Needed(reading)})
  <2>1. FinalInput(step, reading) = [step.input EXCEPT !.target = target]
    BY <1>2 DEF FinalInput
  <2>2. Needed(reading) \in Int
    BY <1>2, NeededTypes
  <2>3. target \in Int /\ target >= Needed(reading)
    <3>1. step.input.target \in Int
      BY <1>1 DEF ToolInput
    <3>2. QED
      BY <2>2, <3>1, MaxOfTwo
  <2> HIDE DEF target
  <2>4. QED
    BY <1>1, <2>1, <2>3 DEF ToolInput
<1>3. CASE ~(step.tool = "scale_workers" /\ CapacityKnown(reading))
  <2>1. FinalInput(step, reading) = step.input
    BY <1>3 DEF FinalInput
  <2>2. QED
    BY <1>1, <1>3, <2>1
<1>4. QED
  BY <1>2, <1>3

LEMMA CheckTypes ==
  ASSUME NEW field \in Text, NEW operator \in {"eq", "lt", "lte", "gte", "half"}, NEW value \in Int
  PROVE  /\ Check(field, operator, value) \in Checks
         /\ Check(field, operator, value).field = field
         /\ Check(field, operator, value).operator = operator
         /\ Check(field, operator, value).value = value
  BY DEF Check, Checks

LEMMA ResultSucceededTypes == ResultSucceeded \in Checks
  BY TextAssumption, CheckTypes DEF ResultSucceeded, Words

LEMMA ComparedTypes ==
  ASSUME NEW tool, NEW reading
  PROVE  Compared(tool, reading) \subseteq Text \intersect DOMAIN reading
<1>1. ComparedFields(tool) \subseteq Words
  <2>1. CASE tool = "restart_service"
    BY <2>1 DEF ComparedFields, Words
  <2>2. CASE tool = "scale_workers"
    BY <2>2 DEF ComparedFields, Words
  <2>3. CASE tool = "rotate_credential"
    BY <2>3 DEF ComparedFields, Words
  <2>4. CASE tool = "refresh_cache"
    BY <2>4 DEF ComparedFields, Words
  <2>5. CASE tool \notin {"restart_service", "scale_workers", "rotate_credential", "refresh_cache"}
    BY <2>5 DEF ComparedFields
  <2>6. QED
    BY <2>1, <2>2, <2>3, <2>4, <2>5
<1>2. QED
  BY <1>1, TextAssumption DEF Compared

LEMMA CriteriaTypes ==
  ASSUME NEW tool, NEW input \in ToolInput, NEW reading,
         \A field \in DOMAIN reading : reading[field] \in Int
  PROVE  /\ Preconditions(tool, reading) \in SUBSET Checks
         /\ SuccessCriteria(tool, input, reading) \in SUBSET Checks
<1>1. \A field \in Compared(tool, reading) : field \in Text /\ reading[field] \in Int
  BY ComparedTypes
<1>2. Preconditions(tool, reading) \in SUBSET Checks
  BY <1>1, CheckTypes DEF Preconditions
<1>3. Improvements(tool, reading) \in SUBSET Checks
  BY <1>1, CheckTypes DEF Improvements
<1>4. Settings(tool, input, reading) \in SUBSET Checks
  <2>1. {"trend", "credential_version", "cache_version"} \subseteq Text
    BY TextAssumption DEF Words
  <2>2. Falling \in Int /\ input.target \in Int
    BY DEF Falling, ToolInput
  <2>3. Check("trend", "eq", Falling) \in Checks
    BY <2>1, <2>2, CheckTypes
  <2>4. Check("credential_version", "eq", input.target) \in Checks
    BY <2>1, <2>2, CheckTypes
  <2>5. "db_version" \in DOMAIN reading => Check("cache_version", "eq", reading.db_version) \in Checks
    BY <2>1, CheckTypes
  <2>6. CASE tool = "scale_workers"
    BY <2>3, <2>6 DEF Settings
  <2>7. CASE tool = "rotate_credential"
    BY <2>4, <2>7 DEF Settings
  <2>8. CASE tool = "refresh_cache"
    BY <2>5, <2>8 DEF Settings
  <2>9. CASE tool \notin {"scale_workers", "rotate_credential", "refresh_cache"}
    BY <2>9 DEF Settings
  <2>10. QED
    BY <2>6, <2>7, <2>8, <2>9
<1>5. ResultSucceeded \in Checks
  BY ResultSucceededTypes
<1>6. QED
  BY <1>2, <1>3, <1>4, <1>5 DEF SuccessCriteria

LEMMA RollbackTypes ==
  ASSUME NEW tool \in Text, NEW input \in ToolInput, NEW reading,
         \A field \in DOMAIN reading : reading[field] \in Int
  PROVE  Rollback(tool, input, reading) \in Compensation
<1>1. CASE tool = "scale_workers" /\ "replicas" \in DOMAIN reading
  <2>1. reading.replicas \in Int
    BY <1>1
  <2>2. [input EXCEPT !.target = reading.replicas] \in ToolInput
    BY <2>1 DEF ToolInput
  <2>3. QED
    BY <1>1, <2>2 DEF Rollback, Compensation, ToolRollback
<1>2. CASE ~(tool = "scale_workers" /\ "replicas" \in DOMAIN reading)
  BY <1>2 DEF Rollback, Compensation
<1>3. QED
  BY <1>1, <1>2

LEMMA PlanStepTypes ==
  ASSUME NEW step \in DraftShape, NEW names, NEW reading,
         \A field \in DOMAIN reading : reading[field] \in Int,
         names[step.id] \in Names,
         \A id \in step.dependsOn : NameOf(names, id) \in Names
  PROVE  /\ PlanStep(step, names, reading) \in StepShape
         /\ PlanStep(step, names, reading).id = names[step.id]
         /\ PlanStep(step, names, reading).tool = step.tool
         /\ PlanStep(step, names, reading).input = FinalInput(step, reading)
         /\ PlanStep(step, names, reading).dependsOn = Dependencies(step, names)
         /\ ~ReadOnly(step.tool) =>
              /\ PlanStep(step, names, reading).pre = Preconditions(step.tool, reading)
              /\ PlanStep(step, names, reading).success =
                   SuccessCriteria(step.tool, FinalInput(step, reading), reading)
              /\ PlanStep(step, names, reading).rollback =
                   Rollback(step.tool, FinalInput(step, reading), reading)
<1> DEFINE input == FinalInput(step, reading)
           pre == IF ReadOnly(step.tool) THEN {} ELSE Preconditions(step.tool, reading)
           success == IF ReadOnly(step.tool) THEN {ResultSucceeded}
                      ELSE SuccessCriteria(step.tool, input, reading)
           rollback == IF ReadOnly(step.tool) THEN ManualRollback
                       ELSE Rollback(step.tool, input, reading)
           risk == IF step.tool \in Registered THEN Registry[step.tool].risk ELSE High
<1>1. step.tool \in Text /\ step.evidence \in SUBSET Text
  BY DEF DraftShape
<1>2. input \in ToolInput
  BY FinalInputTypes
<1>3. Dependencies(step, names) \in SUBSET Names
  BY DEF Dependencies
<1>4. pre \in SUBSET Checks /\ success \in SUBSET Checks
  <2>1. ResultSucceeded \in Checks
    BY ResultSucceededTypes
  <2>2. QED
    BY <1>2, <2>1, CriteriaTypes
<1>5. rollback \in Compensation
  <2>1. ManualRollback \in Compensation
    BY DEF Compensation
  <2>2. QED
    BY <1>1, <1>2, <2>1, RollbackTypes
<1>6. risk \in Low..High
  BY Tools DEF Low, High
<1>7. PlanStep(step, names, reading) =
        [id |-> names[step.id], tool |-> step.tool, input |-> input, evidence |-> step.evidence,
         dependsOn |-> Dependencies(step, names), pre |-> pre, success |-> success,
         rollback |-> rollback, risk |-> risk]
  BY Zenon DEF PlanStep
<1>8. ~ReadOnly(step.tool) =>
        /\ pre = Preconditions(step.tool, reading)
        /\ success = SuccessCriteria(step.tool, input, reading)
        /\ rollback = Rollback(step.tool, input, reading)
  OBVIOUS
<1> HIDE DEF input, pre, success, rollback, risk
<1>9. PlanStep(step, names, reading) \in StepShape
  BY <1>1, <1>2, <1>3, <1>4, <1>5, <1>6, <1>7 DEF StepShape, Names
<1>10. QED
  BY <1>7, <1>8, <1>9 DEF input

LEMMA NameOfTypes ==
  ASSUME NEW ids \in SUBSET IdShape, NEW names \in [ids -> Names], NEW id \in IdShape
  PROVE  NameOf(names, id) \in Names
<1>1. id.slug \in Seq(Text) /\ id.spelling \in Text
  BY DEF IdShape
<1>2. <<id.spelling>> \o id.slug \in Seq(Text)
  BY <1>1
<1>3. AsWritten(id) \in Names
  BY <1>1, <1>2 DEF AsWritten, Names
<1>4. QED
  BY <1>3 DEF NameOf

(* A plan made of a draft. *)
Wired(draft, names, reading, plan_) ==
  /\ names \in [{draft[i].id : i \in DOMAIN draft} -> Names]
  /\ plan_ = [i \in DOMAIN draft |-> PlanStep(draft[i], names, reading)]

LEMMA WiredTypes ==
  ASSUME NEW draft \in Drafts, NEW names, NEW reading, NEW plan_,
         \A field \in DOMAIN reading : reading[field] \in Int,
         Wired(draft, names, reading, plan_)
  PROVE  /\ plan_ \in Seq(StepShape)
         /\ DOMAIN plan_ = DOMAIN draft
         /\ Len(plan_) = Len(draft)
         /\ \A i \in DOMAIN draft :
              /\ plan_[i] = PlanStep(draft[i], names, reading)
              /\ draft[i] \in DraftShape
              /\ draft[i].id \in IdShape
              /\ names[draft[i].id] \in Names
              /\ \A id \in draft[i].dependsOn : id \in IdShape /\ NameOf(names, id) \in Names
<1> DEFINE ids == {draft[i].id : i \in DOMAIN draft}
<1>1. names \in [ids -> Names]
  BY DEF Wired
<1>2. \A i \in DOMAIN draft : /\ draft[i] \in DraftShape /\ draft[i].id \in IdShape
                              /\ draft[i].dependsOn \in SUBSET IdShape
  BY DraftTypes DEF DraftShape
<1>3. ids \in SUBSET IdShape
  BY <1>2
<1>4. \A id \in IdShape : NameOf(names, id) \in Names
  <2> HIDE DEF ids
  <2> QED BY <1>1, <1>3, NameOfTypes
<1>5. \A i \in DOMAIN draft : names[draft[i].id] \in Names
  BY <1>1
<1>6. \A i \in DOMAIN draft : PlanStep(draft[i], names, reading) \in StepShape
  <2> TAKE i \in DOMAIN draft
  <2>1. \A id \in draft[i].dependsOn : NameOf(names, id) \in Names
    BY <1>2, <1>4
  <2>2. QED
    BY <1>2, <1>5, <2>1, PlanStepTypes
<1>7. DOMAIN draft = 1..Len(draft) /\ Len(draft) \in Nat
  BY DraftTypes
<1>8. plan_ = [i \in 1..Len(draft) |-> PlanStep(draft[i], names, reading)]
  BY <1>7 DEF Wired
<1>9. plan_ \in Seq(StepShape) /\ Len(plan_) = Len(draft)
  BY <1>6, <1>7, <1>8
<1>10. QED
  BY <1>2, <1>4, <1>5, <1>7, <1>8, <1>9

LEMMA MaterializeTypes ==
  ASSUME NEW draft \in Drafts, NEW reading, \A field \in DOMAIN reading : reading[field] \in Int
  PROVE  LET made == Materialize(draft, reading)
         IN /\ made.outcome \in {"stuck", "refused", "plan"}
            /\ made.outcome = "stuck" => Collides(draft)
            /\ made.outcome # "plan" => made.plan = <<>>
            /\ made.outcome = "plan" => /\ \E names : Wired(draft, names, reading, made.plan)
                                        /\ \A i \in DOMAIN made.plan : StepLegal(made.plan[i])
            /\ made.plan \in Seq(StepShape)
            /\ \A i \in DOMAIN made.plan : LegalName(made.plan[i].id)
<1> DEFINE made == Materialize(draft, reading)
           naming == Naming(draft)
           plan_ == [i \in DOMAIN draft |-> PlanStep(draft[i], naming.names, reading)]
           fits == /\ \A i \in DOMAIN plan_ : StepLegal(plan_[i])
                   /\ Cardinality(Cited(draft)) <= EvidenceLimit
<1>1. Named(draft, naming, Len(draft))
  BY NamingNames
<1>2. naming \in Namings
  BY <1>1 DEF Named
<1>3. made = IF naming.stuck THEN [outcome |-> "stuck", plan |-> <<>>]
             ELSE IF fits THEN [outcome |-> "plan", plan |-> plan_]
             ELSE [outcome |-> "refused", plan |-> <<>>]
  BY Zenon DEF Materialize
<1>4. CASE naming.stuck = TRUE
  <2>1. made = [outcome |-> "stuck", plan |-> <<>>]
    BY <1>3, <1>4, Zenon
  <2>2. Collides(draft)
    BY <1>1, <1>4 DEF Named
  <2>3. made.outcome = "stuck" /\ made.plan = <<>>
    <3> HIDE DEF made
    <3> QED BY <2>1
  <2> HIDE DEF made
  <2>4. <<>> \in Seq(StepShape) /\ DOMAIN <<>> = {}
    OBVIOUS
  <2>5. QED
    BY <2>2, <2>3, <2>4 DEF made
<1>5. CASE naming.stuck = FALSE /\ fits
  <2>1. made = [outcome |-> "plan", plan |-> plan_]
    BY <1>3, <1>5, Zenon
  <2>2. made.outcome = "plan" /\ made.plan = plan_
    <3> HIDE DEF made, plan_
    <3> QED BY <2>1
  <2>3. naming.names \in [{draft[i].id : i \in DOMAIN draft} -> Names]
    <3>1. PICK ids : naming.names \in [ids -> Names]
      BY <1>2 DEF Namings
    <3>2. DOMAIN naming.names = {draft[j].id : j \in 1..Len(draft)}
      BY <1>1, <1>5 DEF Named
    <3>3. DOMAIN naming.names = {draft[j].id : j \in DOMAIN draft}
      BY <3>2, DraftTypes
    <3>4. QED
      BY <3>1, <3>3
  <2>4. Wired(draft, naming.names, reading, plan_)
    BY <2>3 DEF Wired
  <2>5. plan_ \in Seq(StepShape)
    <3> HIDE DEF plan_
    <3> QED BY <2>4, WiredTypes
  <2>6. \A i \in DOMAIN plan_ : StepLegal(plan_[i]) /\ LegalName(plan_[i].id)
    <3> HIDE DEF plan_
    <3> QED BY <1>5 DEF StepLegal
  <2> HIDE DEF made, plan_
  <2>7. QED
    BY <2>2, <2>4, <2>5, <2>6 DEF made
<1>6. CASE naming.stuck = FALSE /\ ~fits
  <2>1. made = [outcome |-> "refused", plan |-> <<>>]
    <3> HIDE DEF fits
    <3> QED BY <1>3, <1>6, Zenon
  <2>2. made.outcome = "refused" /\ made.plan = <<>>
    <3> HIDE DEF made
    <3> QED BY <2>1
  <2>3. <<>> \in Seq(StepShape) /\ DOMAIN <<>> = {}
    OBVIOUS
  <2> HIDE DEF made
  <2>4. QED
    BY <2>2, <2>3 DEF made
<1>7. QED
  BY <1>2, <1>4, <1>5, <1>6, Zenon DEF Namings

-----------------------------------------------------------------------------
(* The fixture that answers in the demonstration.                          *)
WriteTools == {"restart_service", "scale_workers", "rotate_credential", "refresh_cache"}

FixtureRollback(tool, input) ==
  IF tool = "scale_workers" THEN ToolRollback(tool, [input EXCEPT !.target = 2])
  ELSE ManualRollback

LEMMA FixtureToolTypes ==
  ASSUME NEW reading, NEW phrase
  PROVE  FixtureTool(reading, phrase) \in WriteTools \union {"none"}
<1>1. CASE Level(reading, "pool_waiters") >= 10 /\ phrase = "pool timeout"
  BY <1>1 DEF FixtureTool, WriteTools
<1>2. CASE /\ Level(reading, "queue_depth") >= 1000
           /\ Level(reading, "produce_per_min") > Level(reading, "consume_per_min")
  BY <1>2 DEF FixtureTool, WriteTools
<1>3. CASE Level(reading, "http_401_rate") >= 50 /\ phrase = "expired=true"
  BY <1>3 DEF FixtureTool, WriteTools
<1>4. CASE Level(reading, "stale_sample_rate") >= 10 /\ phrase = "cache_version="
  BY <1>4 DEF FixtureTool, WriteTools
<1>5. QED
  BY <1>1, <1>2, <1>3, <1>4, Zenon DEF FixtureTool, WriteTools

LEMMA FixtureCriteriaTypes ==
  ASSUME NEW tool \in WriteTools
  PROVE  FixturePre(tool) \in SUBSET Checks /\ FixtureSuccess(tool) \in SUBSET Checks
<1>1. {"pool_waiters", "queue_depth", "http_401_rate", "stale_sample_rate", "p95_ms", "error_rate",
       "trend", "replicas", "credential_version", "cache_version"} \subseteq Text
  BY TextAssumption DEF Words
<1>2. CASE tool = "restart_service"
  <2>1. /\ Check("pool_waiters", "gte", 10) \in Checks /\ Check("p95_ms", "lte", 800) \in Checks
        /\ Check("error_rate", "lte", 10) \in Checks
    BY <1>1, CheckTypes
  <2>2. QED
    BY <1>2, <2>1 DEF FixturePre, FixtureSuccess
<1>3. CASE tool = "scale_workers"
  <2>1. /\ Check("queue_depth", "gte", 1000) \in Checks /\ Check("trend", "eq", Falling) \in Checks
        /\ Check("replicas", "gte", 5) \in Checks
    BY <1>1, CheckTypes DEF Falling
  <2>2. QED
    BY <1>3, <2>1 DEF FixturePre, FixtureSuccess
<1>4. CASE tool = "rotate_credential"
  <2>1. /\ Check("http_401_rate", "gte", 50) \in Checks
        /\ Check("http_401_rate", "lte", 10) \in Checks
        /\ Check("credential_version", "eq", 18) \in Checks
    BY <1>1, CheckTypes
  <2>2. QED
    BY <1>4, <2>1 DEF FixturePre, FixtureSuccess
<1>5. CASE tool = "refresh_cache"
  <2>1. /\ Check("stale_sample_rate", "gte", 10) \in Checks
        /\ Check("cache_version", "eq", 453) \in Checks
        /\ Check("stale_sample_rate", "lte", 10) \in Checks
    BY <1>1, CheckTypes
  <2>2. QED
    BY <1>5, <2>1 DEF FixturePre, FixtureSuccess
<1>6. QED
  BY <1>2, <1>3, <1>4, <1>5 DEF WriteTools

LEMMA ToolInputMade ==
  ASSUME NEW experiment \in Text, NEW wellFormed \in BOOLEAN, NEW target \in Int
  PROVE  LET input == [experiment |-> experiment, wellFormed |-> wellFormed, target |-> target]
         IN input \in ToolInput /\ [input EXCEPT !.target = 2] \in ToolInput
  BY DEF ToolInput

LEMMA FixtureTypes ==
  ASSUME NEW experiment \in Text, NEW reading, NEW phrase
  PROVE  LET tool == FixtureTool(reading, phrase)
             plan_ == FixturePlan(experiment, Observation, reading, phrase)
         IN /\ plan_ \in Seq(StepShape)
            /\ \A i \in DOMAIN plan_ : LegalName(plan_[i].id)
            /\ plan_ # <<>> =>
                 /\ tool \in WriteTools /\ DOMAIN plan_ = {1}
                 /\ plan_[1].tool = tool /\ plan_[1].success = FixtureSuccess(tool)
<1> DEFINE tool == FixtureTool(reading, phrase)
           plan_ == FixturePlan(experiment, Observation, reading, phrase)
           input == [experiment |-> experiment, wellFormed |-> TRUE, target |-> FixtureTarget(tool)]
           rollback == IF tool = "scale_workers"
                       THEN ToolRollback(tool, [input EXCEPT !.target = 2]) ELSE ManualRollback
           step == [id |-> <<"fixture">>, tool |-> tool, input |-> input,
                    evidence |-> Observation, dependsOn |-> {},
                    pre |-> FixturePre(tool), success |-> FixtureSuccess(tool),
                    rollback |-> rollback, risk |-> Registry[tool].risk]
<1>1. plan_ = IF tool = "none" THEN <<>> ELSE <<step>>
  BY Zenon DEF FixturePlan
<1>2. CASE tool = "none"
  <2>1. plan_ = <<>>
    BY <1>1, <1>2, Zenon
  <2>2. <<>> \in Seq(StepShape) /\ DOMAIN <<>> = {}
    OBVIOUS
  <2> HIDE DEF plan_
  <2>3. QED
    BY <2>1, <2>2 DEF plan_
<1>3. CASE tool \in WriteTools
  <2>1. tool # "none" /\ tool \in Registered /\ tool \in Text
    BY <1>3, Tools, TextAssumption DEF WriteTools, Words
  <2>2. FixtureTarget(tool) \in Int
    <3>1. CASE tool = "scale_workers"
      BY <3>1 DEF FixtureTarget
    <3>2. CASE tool = "rotate_credential"
      BY <3>2 DEF FixtureTarget
    <3>3. CASE tool \notin {"scale_workers", "rotate_credential"}
      BY <3>3 DEF FixtureTarget
    <3>4. QED
      BY <3>1, <3>2, <3>3
  <2>3. input \in ToolInput /\ [input EXCEPT !.target = 2] \in ToolInput
    <3>1. TRUE \in BOOLEAN
      OBVIOUS
    <3> HIDE DEF tool
    <3>2. QED
      BY <2>2, <3>1, ToolInputMade
  <2>4. rollback \in Compensation
    <3> HIDE DEF input, tool
    <3> QED BY <2>1, <2>3 DEF Compensation, ToolRollback
  <2>5. FixturePre(tool) \in SUBSET Checks /\ FixtureSuccess(tool) \in SUBSET Checks
    BY <1>3, FixtureCriteriaTypes
  <2>6. Registry[tool].risk \in Low..High
    BY <2>1, Tools
  <2>7. Observation \in SUBSET Text /\ <<"fixture">> \in Seq(Text)
    BY TextAssumption DEF Observation, Words
  <2> HIDE DEF tool, input, rollback
  <2>8. step \in StepShape
    BY <2>1, <2>3, <2>4, <2>5, <2>6, <2>7 DEF StepShape
  <2>9. step.id = <<"fixture">> /\ step.tool = tool /\ step.success = FixtureSuccess(tool)
    OBVIOUS
  <2>10. LegalName(<<"fixture">>)
    BY OneCharacterAssumption DEF LegalName
  <2>11. plan_ = <<step>>
    BY <1>1, <2>1, Zenon
  <2> HIDE DEF step, plan_
  <2>12. plan_ \in Seq(StepShape) /\ DOMAIN plan_ = {1} /\ plan_[1] = step
    BY <2>8, <2>11
  <2>13. QED
    BY <1>3, <2>9, <2>10, <2>12 DEF plan_, tool
<1>4. QED
  BY <1>2, <1>3, FixtureToolTypes

-----------------------------------------------------------------------------
(* What the compiler decides.                                              *)
CompiledRisks(compiled) ==
  {Low} \union {compiled[i].risk : i \in DOMAIN compiled}
  \union {Registry[tool].risk : tool \in CompensationTools(compiled)}

LEMMA CompiledRisk ==
  ASSUME NEW compiled \in Seq(StepShape)
  PROVE  /\ Max(CompiledRisks(compiled)) \in Low..High
         /\ \A risk \in CompiledRisks(compiled) : risk \in Low..High /\ risk <= Max(CompiledRisks(compiled))
<1> DEFINE risks == CompiledRisks(compiled)
<1>1. \A i \in DOMAIN compiled : compiled[i].risk \in Low..High
  <2>1. \A i \in DOMAIN compiled : compiled[i] \in StepShape
    OBVIOUS
  <2>2. \A step \in StepShape : step.risk \in Low..High
    BY DEF StepShape
  <2>3. QED
    BY <2>1, <2>2
<1>2. \A tool \in CompensationTools(compiled) : Registry[tool].risk \in Low..High
  BY Tools DEF CompensationTools, UsableRollback
<1>3. Low \in Low..High /\ Low..High = 1..3
  BY DEF Low, High
<1>4. risks \in SUBSET (1..3) /\ risks # {}
  BY <1>1, <1>2, <1>3 DEF CompiledRisks
<1>5. Max(risks) \in risks /\ \A risk \in risks : Max(risks) >= risk
  <2> HIDE DEF risks
  <2> QED BY <1>4, MaxInRange
<1> HIDE DEF risks
<1>6. \A risk \in risks : risk \in 1..3 /\ risk <= Max(risks)
  BY <1>4, <1>5
<1>7. QED
  BY <1>3, <1>5, <1>6 DEF risks

LEMMA CompileIs ==
  ASSUME NEW plan_ \in Seq(StepShape), NEW known
  PROVE  /\ Compile(plan_, known).plan = Compiled(plan_)
         /\ Compile(plan_, known).accepted = (Blocking(IssuesOf(plan_, known)) = {})
         /\ Compile(plan_, known).issues = IssuesOf(plan_, known)
         /\ Compile(plan_, known).risk = Max(CompiledRisks(Compiled(plan_)))
  BY Zenon DEF Compile, CompiledRisks

(* What a plan without a blocking issue is like: its steps have no fault,  *)
(* and it has no cycle.                                                    *)
Faultless(plan_, known) ==
  /\ PlanIssues(plan_) = {}
  /\ \A i \in DOMAIN plan_ : /\ RegistryIssue(plan_[i]) = "none"
                             /\ StepIssues(plan_[i], IdsOf(plan_), known) \subseteq {"RISK_UPGRADED"}
                             /\ RollbackIssues(plan_[i], known) = {}

Clean(plan_, known) == Faultless(plan_, known) /\ ~HasCycle(Compiled(plan_))

BlockingCodes(plan_, known) == {issue[1] : issue \in Blocking(IssuesOf(plan_, known))}

LEMMA IssueCodes ==
  ASSUME NEW plan_, NEW known, NEW step, NEW ids
  PROVE  /\ PlanIssues(plan_) \intersect {"RISK_UPGRADED", "CYCLIC_PLAN"} = {}
         /\ RollbackIssues(step, known) \intersect {"RISK_UPGRADED", "CYCLIC_PLAN"} = {}
         /\ "CYCLIC_PLAN" \notin StepIssues(step, ids, known)
         /\ RegistryIssue(step) \notin {"RISK_UPGRADED", "CYCLIC_PLAN"}
<1>1. PlanIssues(plan_) \intersect {"RISK_UPGRADED", "CYCLIC_PLAN"} = {}
  BY DEF PlanIssues, When
<1>2. RollbackIssues(step, known) \intersect {"RISK_UPGRADED", "CYCLIC_PLAN"} = {}
  BY DEF RollbackIssues, When
<1>3. "CYCLIC_PLAN" \notin StepIssues(step, ids, known)
  BY DEF StepIssues, When
<1>4. RegistryIssue(step) \notin {"RISK_UPGRADED", "CYCLIC_PLAN"}
  BY DEF RegistryIssue
<1>5. QED
  BY <1>1, <1>2, <1>3, <1>4

LEMMA CodesTell ==
  ASSUME NEW plan_, NEW known, BlockingCodes(plan_, known) \subseteq {"CYCLIC_PLAN"}
  PROVE  /\ Faultless(plan_, known)
         /\ "CYCLIC_PLAN" \in BlockingCodes(plan_, known) <=> HasCycle(Compiled(plan_))
<1> DEFINE ids == IdsOf(plan_)
           about(i) == IF RegistryIssue(plan_[i]) = "none"
                       THEN StepIssues(plan_[i], ids, known)
                            \union RollbackIssues(plan_[i], known)
                       ELSE {RegistryIssue(plan_[i])}
           ofPlan == PlanIssues(plan_) \union When(HasCycle(Compiled(plan_)), "CYCLIC_PLAN")
<1>1. IssuesOf(plan_, known) =
        (ofPlan \X {Nobody}) \union UNION {about(i) \X {plan_[i].id} : i \in DOMAIN plan_}
  BY Zenon DEF IssuesOf
<1> HIDE DEF about, ofPlan, ids
<1>2. \A code \in ofPlan : code # "RISK_UPGRADED" => code \in BlockingCodes(plan_, known)
  <2> TAKE code \in ofPlan
  <2>1. <<code, Nobody>> \in IssuesOf(plan_, known) /\ <<code, Nobody>>[1] = code
    BY <1>1
  <2>2. QED
    BY <2>1 DEF Blocking, BlockingCodes
<1>3. \A i \in DOMAIN plan_ : \A code \in about(i) :
        code # "RISK_UPGRADED" => code \in BlockingCodes(plan_, known)
  <2> TAKE i \in DOMAIN plan_
  <2> TAKE code \in about(i)
  <2>1. <<code, plan_[i].id>> \in about(i) \X {plan_[i].id}
    OBVIOUS
  <2>2. <<code, plan_[i].id>> \in IssuesOf(plan_, known)
    BY <1>1, <2>1
  <2>3. <<code, plan_[i].id>>[1] = code
    OBVIOUS
  <2>4. QED
    BY <2>2, <2>3 DEF Blocking, BlockingCodes
<1>4. PlanIssues(plan_) = {}
  BY <1>2, IssueCodes DEF ofPlan
<1>5. ASSUME NEW i \in DOMAIN plan_
      PROVE  /\ RegistryIssue(plan_[i]) = "none"
             /\ StepIssues(plan_[i], ids, known) \subseteq {"RISK_UPGRADED"}
             /\ RollbackIssues(plan_[i], known) = {}
  <2>1. RegistryIssue(plan_[i]) = "none"
    <3>1. SUFFICES ASSUME RegistryIssue(plan_[i]) # "none" PROVE FALSE
      OBVIOUS
    <3>2. RegistryIssue(plan_[i]) \in about(i)
      BY <3>1 DEF about
    <3>3. QED
      BY <1>3, <3>2, IssueCodes
  <2>2. about(i) = StepIssues(plan_[i], ids, known) \union RollbackIssues(plan_[i], known)
    BY <2>1 DEF about
  <2>3. \A code \in about(i) : code \in {"RISK_UPGRADED", "CYCLIC_PLAN"}
    BY <1>3
  <2>4. QED
    BY <2>1, <2>2, <2>3, IssueCodes
<1>6. ASSUME "CYCLIC_PLAN" \in BlockingCodes(plan_, known)
      PROVE  HasCycle(Compiled(plan_))
  <2>1. PICK issue \in IssuesOf(plan_, known) : issue[1] = "CYCLIC_PLAN"
    BY <1>6 DEF Blocking, BlockingCodes
  <2>2. \A i \in DOMAIN plan_ : "CYCLIC_PLAN" \notin about(i)
    BY IssueCodes DEF about
  <2>3. issue \in ofPlan \X {Nobody}
    BY <1>1, <2>1, <2>2
  <2>4. "CYCLIC_PLAN" \in ofPlan
    BY <2>1, <2>3
  <2>5. QED
    BY <1>4, <2>4 DEF ofPlan, When
<1>7. ASSUME HasCycle(Compiled(plan_))
      PROVE  "CYCLIC_PLAN" \in BlockingCodes(plan_, known)
  BY <1>2, <1>7 DEF ofPlan, When
<1>8. QED
  BY <1>4, <1>5, <1>6, <1>7 DEF Faultless, ids

LEMMA AcceptedIsClean ==
  ASSUME NEW plan_ \in Seq(StepShape), NEW known, Blocking(IssuesOf(plan_, known)) = {}
  PROVE  Clean(plan_, known)
<1>1. BlockingCodes(plan_, known) = {}
  BY DEF BlockingCodes
<1>2. QED
  BY <1>1, CodesTell DEF Clean

-----------------------------------------------------------------------------
(* What a run proposes.                                                    *)
LEMMA ContextTypes ==
  ASSUME CaseShape(case)
  PROVE  \A field \in DOMAIN ObservationContext : ObservationContext[field] \in Int
<1>1. case.kind \in FaultKind /\ case.reading \in ReadingShape(case.kind)
  BY DEF CaseShape
<1>2. \A field \in DOMAIN case.reading : case.reading[field] \in Int
  BY <1>1, ReadingTypes
<1>3. CASE observed
  BY <1>2, <1>3 DEF ObservationContext
<1>4. CASE ~observed
  BY <1>4 DEF ObservationContext
<1>5. QED
  BY <1>3, <1>4

LEMMA ProposalTypes ==
  ASSUME CaseShape(case)
  PROVE  /\ Proposal.plan \in Seq(StepShape)
         /\ \A i \in DOMAIN Proposal.plan : LegalName(Proposal.plan[i].id)
         /\ Proposal.outcome \in {"stuck", "refused", "plan"}
         /\ Proposal.outcome = "stuck" =>
              case.answer.kind = "draft" /\ case.answer.draft \in Drafts /\ Collides(case.answer.draft)
<1> DEFINE proposal == Proposal
<1>1. CASE case.answer.kind = "draft"
  <2>1. case.answer.draft \in Drafts
    BY <1>1 DEF CaseShape
  <2>2. proposal = Materialize(case.answer.draft, ObservationContext)
    BY <1>1 DEF Proposal
  <2> HIDE DEF proposal
  <2>3. QED
    BY <1>1, <2>1, <2>2, ContextTypes, MaterializeTypes DEF proposal
<1>2. CASE case.answer.kind = "plan"
  <2>1. /\ case.answer.plan \in Seq(StepShape)
        /\ \A i \in DOMAIN case.answer.plan : StepLegal(case.answer.plan[i])
    BY <1>2 DEF CaseShape
  <2>2. proposal = [outcome |-> "plan", plan |-> case.answer.plan]
    BY <1>2 DEF Proposal
  <2> HIDE DEF proposal
  <2>3. proposal.outcome = "plan" /\ proposal.plan = case.answer.plan
    BY <2>2
  <2>4. QED
    BY <2>1, <2>3 DEF proposal, StepLegal
<1>3. CASE case.answer.kind = "fixture"
  <2> DEFINE plan_ == FixturePlan(case.experiment, Observation, ObservationContext, LogPhrase[case.kind])
  <2>1. proposal = [outcome |-> IF plan_ = <<>> THEN "refused" ELSE "plan", plan |-> plan_]
    BY <1>3 DEF Proposal
  <2>2. plan_ \in Seq(StepShape) /\ \A i \in DOMAIN plan_ : LegalName(plan_[i].id)
    BY FixtureTypes DEF CaseShape
  <2> HIDE DEF plan_, proposal
  <2>3. proposal.outcome \in {"refused", "plan"} /\ proposal.plan = plan_
    BY <2>1
  <2>4. QED
    BY <2>2, <2>3 DEF proposal
<1>4. CASE case.answer.kind = "none"
  <2>1. proposal = [outcome |-> "refused", plan |-> <<>>]
    BY <1>4 DEF Proposal
  <2> HIDE DEF proposal
  <2>2. proposal.outcome = "refused" /\ proposal.plan = <<>>
    BY <2>1
  <2>3. <<>> \in Seq(StepShape) /\ DOMAIN <<>> = {}
    OBVIOUS
  <2>4. QED
    BY <2>2, <2>3 DEF proposal
<1>5. QED
  BY <1>1, <1>2, <1>3, <1>4 DEF CaseShape

(* The invariant: how the state of a run hangs together with its case.     *)
NodeName == {"retrieve", "investigate", "observe", "diagnose", "policy", "gate", "handed_off", "stuck"}

Decided ==
  LET compiled == Compile(Proposal.plan, KnownOfRun)
  IN plan = compiled.plan /\ policy = Decision(compiled) /\ compiled.accepted = TRUE

PlanInv ==
  /\ CaseShape(case)
  /\ node \in NodeName
  /\ observed \in BOOLEAN
  /\ plan \in Seq(StepShape)
  /\ \A i \in DOMAIN plan : LegalName(plan[i].id)
  /\ policy.accepted \in BOOLEAN
  /\ policy.risk \in Low..High
  /\ node \in {"observe", "diagnose", "policy", "gate"} => case.experiment # "none"
  /\ node \in {"diagnose", "policy", "gate"} => observed = TRUE
  /\ node = "policy" => plan = Proposal.plan
  /\ node \in {"policy", "gate"} => Proposal.outcome = "plan"
  /\ node = "stuck" => Proposal.outcome = "stuck"
  /\ node = "gate" => Decided

LEMMA DecisionTypes ==
  ASSUME NEW plan_ \in Seq(StepShape), NEW known,
         \A i \in DOMAIN plan_ : LegalName(plan_[i].id)
  PROVE  LET compiled == Compile(plan_, known)
         IN /\ compiled.plan \in Seq(StepShape)
            /\ \A i \in DOMAIN compiled.plan : LegalName(compiled.plan[i].id)
            /\ compiled.accepted \in BOOLEAN
            /\ Decision(compiled).accepted = compiled.accepted
            /\ Decision(compiled).issues = compiled.issues
            /\ Decision(compiled).risk = compiled.risk
            /\ compiled.risk \in Low..High
<1> DEFINE compiled == Compile(plan_, known)
<1>1. compiled.plan = Compiled(plan_) /\ Kept(Compiled(plan_), plan_)
  BY CompileIs, CompiledSteps
<1>2. compiled.plan \in Seq(StepShape)
  BY <1>1 DEF Kept
<1>3. \A k \in DOMAIN compiled.plan : LegalName(compiled.plan[k].id)
  <2> TAKE k \in DOMAIN compiled.plan
  <2>1. PICK i \in DOMAIN plan_ : compiled.plan[k] = CompiledStep(plan_[i])
    BY <1>1 DEF Kept
  <2>2. compiled.plan[k].id = plan_[i].id
    BY <2>1, CompiledStepTypes
  <2>3. QED
    BY <2>2
<1>4. compiled.accepted \in BOOLEAN
  BY CompileIs
<1>5. compiled.risk \in Low..High
  BY <1>1, <1>2, CompileIs, CompiledRisk
<1> HIDE DEF compiled
<1>6. /\ Decision(compiled).accepted = compiled.accepted
      /\ Decision(compiled).issues = compiled.issues
      /\ Decision(compiled).risk = compiled.risk
  BY Zenon DEF Decision
<1>7. QED
  BY <1>2, <1>3, <1>4, <1>5, <1>6 DEF compiled

LEMMA PlanInvInit == Init => PlanInv
<1> SUFFICES ASSUME Init PROVE PlanInv
  OBVIOUS
<1>1. CaseShape(case) /\ node = "retrieve" /\ observed = FALSE /\ plan = <<>> /\ policy = Undecided
  BY CasesAssumption DEF Init
<1>2. policy.accepted = FALSE /\ policy.risk = Low
  BY <1>1 DEF Undecided
<1>3. policy.accepted \in BOOLEAN
  BY <1>2
<1>4. policy.risk \in Low..High
  BY <1>2 DEF Low, High
<1>5. plan \in Seq(StepShape) /\ DOMAIN plan = {}
  BY <1>1
<1>6. QED
  BY <1>1, <1>3, <1>4, <1>5 DEF PlanInv, NodeName

LEMMA SameProposal ==
  ASSUME case' = case, observed' = observed
  PROVE  Proposal' = Proposal /\ CaseShape(case)' = CaseShape(case)
  BY DEF Proposal, ObservationContext, CaseShape

LEMMA PlanInvNext == PlanInv /\ [Next]_vars => PlanInv'
<1> SUFFICES ASSUME PlanInv, [Next]_vars PROVE PlanInv'
  OBVIOUS
<1>1. CASE Retrieve
  BY <1>1 DEF Retrieve, PlanInv, NodeName, CaseShape
<1>2. CASE Investigate
  BY <1>2 DEF Investigate, PlanInv, NodeName, CaseShape
<1>3. CASE Observe
  BY <1>3 DEF Observe, PlanInv, NodeName, CaseShape
<1>4. CASE Diagnose
  <2>1. node = "diagnose" /\ case' = case /\ observed' = observed /\ policy' = policy
    BY <1>4 DEF Diagnose
  <2>2. Proposal' = Proposal /\ CaseShape(case)'
    BY <2>1, SameProposal DEF PlanInv
  <2>3. plan' = Proposal.plan
    BY <1>4 DEF Diagnose
  <2>4. /\ node' = "stuck" => Proposal.outcome = "stuck"
        /\ node' = "policy" => Proposal.outcome = "plan"
        /\ node' \in {"stuck", "handed_off", "policy"}
    <3>1. Proposal.outcome \in {"stuck", "refused", "plan"}
      BY ProposalTypes DEF PlanInv
    <3>2. node' = CASE Proposal.outcome = "stuck"   -> "stuck"
                    [] Proposal.outcome = "refused" -> "handed_off"
                    [] Proposal.outcome = "plan"    -> "policy"
      BY <1>4 DEF Diagnose
    <3>3. QED
      BY <3>1, <3>2
  <2>5. plan' \in Seq(StepShape) /\ \A i \in DOMAIN plan' : LegalName(plan'[i].id)
    BY <2>3, ProposalTypes DEF PlanInv
  <2>6. QED
    BY <2>1, <2>2, <2>3, <2>4, <2>5 DEF PlanInv, NodeName
<1>5. CASE Policy
  <2> DEFINE compiled == Compile(plan, KnownOfRun)
  <2>1. /\ node = "policy" /\ case' = case /\ observed' = observed /\ sources' = sources
        /\ plan' = compiled.plan /\ policy' = Decision(compiled)
        /\ node' = IF compiled.accepted THEN "gate" ELSE "handed_off"
    BY <1>5 DEF Policy
  <2>2. Proposal' = Proposal /\ CaseShape(case)'
    BY <2>1, SameProposal DEF PlanInv
  <2>3. KnownOfRun' = KnownOfRun
    BY <2>1 DEF KnownOfRun, SourceChunks, ObservationContext
  <2>4. plan = Proposal.plan /\ Proposal.outcome = "plan"
    BY <2>1 DEF PlanInv
  <2>5. /\ compiled.plan \in Seq(StepShape)
        /\ \A i \in DOMAIN compiled.plan : LegalName(compiled.plan[i].id)
        /\ compiled.accepted \in BOOLEAN
        /\ Decision(compiled).accepted = compiled.accepted
        /\ Decision(compiled).risk = compiled.risk
        /\ compiled.risk \in Low..High
    BY DecisionTypes DEF PlanInv
  <2> HIDE DEF compiled
  <2>6. /\ plan' \in Seq(StepShape)
        /\ \A i \in DOMAIN plan' : LegalName(plan'[i].id)
        /\ policy'.accepted \in BOOLEAN /\ policy'.risk \in Low..High
    BY <2>1, <2>5
  <2>7. node' \in {"gate", "handed_off"} /\ (node' = "gate" => compiled.accepted = TRUE)
    BY <2>1, <2>5
  <2>8. node' = "gate" => Decided'
    <3>1. Compile(Proposal.plan, KnownOfRun)' = compiled
      BY <2>2, <2>3, <2>4 DEF compiled
    <3>2. QED
      BY <2>1, <2>7, <3>1 DEF Decided
  <2>9. QED
    BY <2>1, <2>2, <2>4, <2>6, <2>7, <2>8 DEF PlanInv, NodeName
<1>6. CASE UNCHANGED vars
  <2>1. /\ case' = case /\ observed' = observed /\ sources' = sources
        /\ node' = node /\ plan' = plan /\ policy' = policy
    BY <1>6 DEF vars
  <2>2. Proposal' = Proposal /\ CaseShape(case)' = CaseShape(case)
    BY <2>1, SameProposal
  <2>3. KnownOfRun' = KnownOfRun
    BY <2>1 DEF KnownOfRun, SourceChunks, ObservationContext
  <2>4. Decided => Decided'
    BY <2>1, <2>2, <2>3 DEF Decided
  <2>5. QED
    BY <2>1, <2>2, <2>4 DEF PlanInv
<1>7. QED
  BY <1>1, <1>2, <1>3, <1>4, <1>5, <1>6 DEF Next

LEMMA PlanInvHolds == Spec => []PlanInv
<1>1. QED
  BY PlanInvInit, PlanInvNext, PTL DEF Spec

-----------------------------------------------------------------------------
(* An accepted plan is the proposed one, step for step.                    *)
LEMMA AcceptedPlan ==
  ASSUME PlanInv, Accepted
  PROVE  /\ Proposal.plan \in Seq(StepShape)
         /\ Proposal.outcome = "plan"
         /\ Clean(Proposal.plan, KnownOfRun)
         /\ plan = [i \in DOMAIN Proposal.plan |-> CompiledStep(Proposal.plan[i])]
         /\ plan \in Seq(StepShape)
         /\ policy.risk = Max(CompiledRisks(plan))
         /\ ObservationContext = case.reading
         /\ case.experiment # "none"
<1> DEFINE proposed == Proposal.plan
           compiled == Compile(proposed, KnownOfRun)
<1>1. node = "gate"
  BY DEF Accepted
<1>2. Proposal.outcome = "plan" /\ observed = TRUE /\ case.experiment # "none"
  BY <1>1 DEF PlanInv
<1>3. plan = compiled.plan /\ policy = Decision(compiled) /\ compiled.accepted = TRUE
  BY <1>1 DEF PlanInv, Decided
<1>4. proposed \in Seq(StepShape) /\ \A i \in DOMAIN proposed : LegalName(proposed[i].id)
  BY ProposalTypes DEF PlanInv
<1>5. /\ compiled.plan = Compiled(proposed)
      /\ compiled.accepted = (Blocking(IssuesOf(proposed, KnownOfRun)) = {})
      /\ compiled.risk = Max(CompiledRisks(Compiled(proposed)))
  BY <1>4, CompileIs
<1>6. Clean(proposed, KnownOfRun)
  BY <1>3, <1>4, <1>5, AcceptedIsClean
<1>7. Compiled(proposed) = [i \in DOMAIN proposed |-> CompiledStep(proposed[i])]
  BY <1>4, <1>6, CompiledWhole DEF Clean, Faultless
<1>8. policy.risk = compiled.risk
  BY <1>3, <1>4, DecisionTypes
<1>9. ObservationContext = case.reading
  BY <1>2 DEF ObservationContext
<1>10. plan \in Seq(StepShape)
  BY DEF PlanInv
<1> HIDE DEF compiled
<1>11. QED
  BY <1>2, <1>3, <1>4, <1>5, <1>6, <1>7, <1>8, <1>9, <1>10

LEMMA AcceptedSteps ==
  ASSUME PlanInv, Accepted
  PROVE  /\ DOMAIN plan = DOMAIN Proposal.plan
         /\ \A i \in DOMAIN plan :
              LET step == Proposal.plan[i]
              IN /\ step \in StepShape
                 /\ plan[i] = CompiledStep(step)
                 /\ step.tool \in Registered
                 /\ InputValid(step.tool, step.input)
                 /\ plan[i].risk = EffectiveRisk(step) /\ plan[i].id = step.id
                 /\ plan[i].tool = step.tool /\ plan[i].input = step.input
                 /\ plan[i].dependsOn = step.dependsOn /\ plan[i].pre = step.pre
                 /\ plan[i].success = step.success /\ plan[i].rollback = step.rollback
<1>1. /\ Proposal.plan \in Seq(StepShape) /\ Clean(Proposal.plan, KnownOfRun)
      /\ plan = [i \in DOMAIN Proposal.plan |-> CompiledStep(Proposal.plan[i])]
  BY AcceptedPlan
<1>2. DOMAIN plan = DOMAIN Proposal.plan
  BY <1>1
<1> DEFINE proposed == Proposal.plan
<1> HIDE DEF proposed
<1>3. ASSUME NEW i \in DOMAIN plan
      PROVE  /\ proposed[i] \in StepShape
             /\ plan[i] = CompiledStep(proposed[i])
             /\ proposed[i].tool \in Registered
             /\ InputValid(proposed[i].tool, proposed[i].input)
  <2>1. proposed[i] \in StepShape /\ plan[i] = CompiledStep(proposed[i])
    BY <1>1, <1>2 DEF proposed
  <2>2. RegistryIssue(proposed[i]) = "none"
    BY <1>1, <1>2 DEF Clean, Faultless, proposed
  <2>3. QED
    BY <2>1, <2>2 DEF RegistryIssue
<1>4. QED
  BY <1>2, <1>3, CompiledStepTypes DEF proposed

LEMMA UnapprovedIsSystemsInv == PlanInv => UnapprovedIsSystems
<1> SUFFICES ASSUME PlanInv, Accepted, ~NeedsApproval, NEW tool \in ToolsOf(plan)
             PROVE  Registry[tool].role \in SystemRoles
  BY DEF UnapprovedIsSystems
<1>1. policy.risk = Low /\ policy.risk = Max(CompiledRisks(plan)) /\ plan \in Seq(StepShape)
  <2>1. policy.risk \in Low..High
    BY DEF PlanInv
  <2>2. policy.risk = Low
    BY <2>1 DEF NeedsApproval, Low, Medium, High
  <2>3. QED
    BY <2>2, AcceptedPlan
<1>2. \A risk \in CompiledRisks(plan) : risk \in Low..High /\ risk <= Low
  BY <1>1, CompiledRisk
<1>3. CASE tool \in {plan[i].tool : i \in DOMAIN plan}
  <2>1. PICK i \in DOMAIN plan : tool = plan[i].tool
    BY <1>3
  <2>2. plan[i].risk <= Low
    BY <1>2 DEF CompiledRisks
  <2> DEFINE step == Proposal.plan[i]
  <2>3. /\ step \in StepShape /\ step.tool \in Registered
        /\ plan[i].risk = EffectiveRisk(step) /\ plan[i].tool = step.tool
    BY AcceptedSteps
  <2>4. EffectiveRisk(step) >= Registry[step.tool].risk /\ EffectiveRisk(step) \in Low..High
    BY <2>3, RiskTypes
  <2>5. Registry[tool].risk \in Low..High /\ tool \in Registered
    BY <2>1, <2>3, Tools
  <2>6. Registry[tool].risk = Low
    BY <2>1, <2>2, <2>3, <2>4, <2>5 DEF Low, High
  <2>7. QED
    BY <2>5, <2>6, Tools
<1>4. CASE tool \in CompensationTools(plan)
  <2>1. Registry[tool].risk <= Low
    BY <1>2, <1>4 DEF CompiledRisks
  <2>2. tool \in Registered
    BY <1>4 DEF CompensationTools, UsableRollback
  <2>3. Registry[tool].risk = Low
    BY <2>1, <2>2, Tools DEF Low, High
  <2>4. QED
    BY <2>2, <2>3, Tools
<1>5. QED
  BY <1>3, <1>4 DEF ToolsOf

(* A plan that passes the gate without an approval calls, compensations    *)
(* included, only tools the system's own identity may call: the compiler   *)
(* raises the risk of every step to that of its tool, and the risk of the  *)
(* plan is the highest of its steps and compensations.                     *)
THEOREM PlanningUnapprovedIsSystems == Spec => []UnapprovedIsSystems
<1>1. QED
  BY PlanInvHolds, UnapprovedIsSystemsInv, PTL

-----------------------------------------------------------------------------
(* What is accepted of a draft.                                            *)
LEMMA AcceptedDraft ==
  ASSUME PlanInv, Accepted, case.answer.kind = "draft"
  PROVE  /\ case.answer.draft \in Drafts
         /\ \A field \in DOMAIN case.reading : case.reading[field] \in Int
         /\ \E names : Wired(case.answer.draft, names, case.reading, Proposal.plan)
<1>1. case.answer.draft \in Drafts
  BY DEF PlanInv, CaseShape
<1>2. ObservationContext = case.reading /\ Proposal.outcome = "plan"
  BY AcceptedPlan
<1>3. Proposal = Materialize(case.answer.draft, case.reading)
  BY <1>2 DEF Proposal
<1>4. \A field \in DOMAIN case.reading : case.reading[field] \in Int
  BY <1>2, ContextTypes DEF PlanInv
<1>5. QED
  BY <1>1, <1>2, <1>3, <1>4, MaterializeTypes

(* The steps of an accepted draft that change something.                   *)
LEMMA AcceptedWrites ==
  ASSUME PlanInv, Accepted, case.answer.kind = "draft", NEW step \in Writes
  PROVE  \E i \in DOMAIN case.answer.draft :
           LET drafted == case.answer.draft[i]
           IN /\ drafted \in DraftShape
              /\ step.tool = drafted.tool /\ step.tool \in WriteTools
              /\ step.input = FinalInput(drafted, case.reading)
              /\ step.pre = Preconditions(step.tool, case.reading)
              /\ step.success = SuccessCriteria(step.tool, step.input, case.reading)
              /\ step.rollback = Rollback(step.tool, step.input, case.reading)
              /\ InputValid(step.tool, step.input)
              /\ step.input.experiment = case.experiment
              /\ SupportingFields(step.tool) # {} =>
                   SupportingFields(step.tool) \intersect DOMAIN case.reading # {}
<1> DEFINE draft == case.answer.draft
           reading == case.reading
           proposed == Proposal.plan
<1>1. PICK i \in DOMAIN plan : step = plan[i] /\ ~ReadOnly(plan[i].tool)
  BY DEF Writes
<1>2. /\ draft \in Drafts
      /\ \A field \in DOMAIN reading : reading[field] \in Int
  BY AcceptedDraft
<1>3. PICK names : Wired(draft, names, reading, proposed)
  BY AcceptedDraft
<1>4. /\ DOMAIN proposed = DOMAIN draft /\ DOMAIN plan = DOMAIN proposed
      /\ proposed[i] = PlanStep(draft[i], names, reading)
      /\ draft[i] \in DraftShape /\ names[draft[i].id] \in Names
      /\ \A id \in draft[i].dependsOn : NameOf(names, id) \in Names
  <2>1. DOMAIN plan = DOMAIN proposed
    BY AcceptedSteps
  <2> HIDE DEF draft, reading, proposed
  <2>2. QED
    BY <1>2, <1>3, <2>1, WiredTypes
<1>5. /\ proposed[i].tool \in Registered /\ InputValid(proposed[i].tool, proposed[i].input)
      /\ step.tool = proposed[i].tool /\ step.input = proposed[i].input
      /\ step.pre = proposed[i].pre /\ step.success = proposed[i].success
      /\ step.rollback = proposed[i].rollback
  BY <1>1, AcceptedSteps
<1>6. /\ proposed[i].tool = draft[i].tool
      /\ proposed[i].input = FinalInput(draft[i], reading)
      /\ ~ReadOnly(draft[i].tool) =>
           /\ proposed[i].pre = Preconditions(draft[i].tool, reading)
           /\ proposed[i].success = SuccessCriteria(draft[i].tool, FinalInput(draft[i], reading), reading)
           /\ proposed[i].rollback = Rollback(draft[i].tool, FinalInput(draft[i], reading), reading)
  <2> HIDE DEF draft, reading, proposed
  <2> QED BY <1>2, <1>4, PlanStepTypes
<1>7. ~ReadOnly(draft[i].tool) /\ step.tool \in WriteTools
  <2>1. ~ReadOnly(step.tool) /\ step.tool \in Registered
    BY <1>1, <1>5
  <2>2. ~Registry[step.tool].readOnly
    BY <2>1 DEF ReadOnly
  <2>3. QED
    BY <1>5, <1>6, <2>1, <2>2, Tools DEF WriteTools
<1>8. StepIssues(proposed[i], IdsOf(proposed), KnownOfRun) \subseteq {"RISK_UPGRADED"}
  BY <1>1, <1>4, AcceptedPlan DEF Clean, Faultless
<1>9. /\ KnownOfRun.experiment = case.experiment /\ KnownOfRun.fields = DOMAIN reading
      /\ case.experiment # "none"
  BY AcceptedPlan DEF KnownOfRun
<1> HIDE DEF proposed, reading, draft
<1>10. proposed[i].input.experiment = case.experiment
  <2>1. "EXPERIMENT_BINDING_MISMATCH" \notin StepIssues(proposed[i], IdsOf(proposed), KnownOfRun)
    BY <1>8
  <2>2. ~(KnownOfRun.experiment # "none" /\ proposed[i].input.experiment # KnownOfRun.experiment)
    BY <2>1 DEF StepIssues, When
  <2>3. QED
    BY <1>9, <2>2
<1>11. SupportingFields(proposed[i].tool) # {} =>
         SupportingFields(proposed[i].tool) \intersect DOMAIN reading # {}
  <2>1. "TOOL_NOT_SUPPORTED_BY_OBSERVATION" \notin StepIssues(proposed[i], IdsOf(proposed), KnownOfRun)
    BY <1>8
  <2>2. ~(/\ SupportingFields(proposed[i].tool) # {}
          /\ SupportingFields(proposed[i].tool) \intersect KnownOfRun.fields = {})
    BY <2>1 DEF StepIssues, When
  <2>3. QED
    BY <1>9, <2>2
<1>12. QED
  BY <1>1, <1>4, <1>5, <1>6, <1>7, <1>10, <1>11 DEF draft, reading

LEMMA CheckIs ==
  ASSUME NEW field, NEW operator, NEW value, field # "__result_status__", NEW reading
  PROVE  /\ Check(field, operator, value) # ResultSucceeded
         /\ Check(field, operator, value).field = field
         /\ Check(field, operator, value).operator = operator
         /\ Check(field, operator, value).value = value
  BY DEF Check, ResultSucceeded

LEMMA ComparedIsData ==
  ASSUME NEW tool, NEW reading, NEW field \in Compared(tool, reading)
  PROVE  field # "__result_status__" /\ field \in DOMAIN reading
<1>1. field \in ComparedFields(tool) /\ field \in DOMAIN reading
  BY DEF Compared
<1>2. field \in {"pool_waiters", "error_rate", "p95_ms", "queue_depth", "oldest_age_s",
                 "http_401_rate", "stale_sample_rate"}
  <2>1. CASE tool = "restart_service"
    BY <1>1, <2>1 DEF ComparedFields
  <2>2. CASE tool = "scale_workers"
    BY <1>1, <2>2 DEF ComparedFields
  <2>3. CASE tool = "rotate_credential"
    BY <1>1, <2>3 DEF ComparedFields
  <2>4. CASE tool = "refresh_cache"
    BY <1>1, <2>4 DEF ComparedFields
  <2>5. CASE tool \notin {"restart_service", "scale_workers", "rotate_credential", "refresh_cache"}
    BY <1>1, <2>5 DEF ComparedFields
  <2>6. QED
    BY <2>1, <2>2, <2>3, <2>4, <2>5
<1>3. QED
  BY <1>1, <1>2

LEMMA PreconditionsHold ==
  ASSUME NEW tool, NEW reading, \A field \in DOMAIN reading : reading[field] \in Int /\ reading[field] >= 0,
         NEW check \in Preconditions(tool, reading)
  PROVE  CheckHolds(check, reading)
<1>1. PICK field \in Compared(tool, reading) : check = Check(field, "half", reading[field])
  BY DEF Preconditions
<1>2. field # "__result_status__" /\ field \in DOMAIN reading
  BY ComparedIsData
<1>3. /\ check # ResultSucceeded /\ check.field = field /\ check.operator = "half"
      /\ check.value = reading[field]
  BY <1>1, <1>2, CheckIs
<1>4. 2 * reading[field] >= reading[field]
  BY <1>2
<1>5. QED
  BY <1>2, <1>3, <1>4 DEF CheckHolds

LEMMA PreconditionsNeverStopInv == PlanInv => PreconditionsNeverStop
<1> SUFFICES ASSUME PlanInv, Accepted, case.answer.kind = "draft", NEW step \in Writes,
                    NEW check \in step.pre,
                    \A field \in DOMAIN case.reading : case.reading[field] >= 0
             PROVE  CheckHolds(check, case.reading)
  BY DEF PreconditionsNeverStop
<1>1. step.pre = Preconditions(step.tool, case.reading)
  BY AcceptedWrites
<1>2. \A field \in DOMAIN case.reading : case.reading[field] \in Int /\ case.reading[field] >= 0
  BY AcceptedDraft
<1>3. QED
  BY <1>1, <1>2, PreconditionsHold

(* The preconditions of an accepted draft hold on the readings they were   *)
(* made from (_change_checks), whatever these are, short of negative.      *)
THEOREM PlanningPreconditionsNeverStop == Spec => []PreconditionsNeverStop
<1>1. QED
  BY PlanInvHolds, PreconditionsNeverStopInv, PTL

LEMMA ScalingCoversInv == PlanInv => ScalingCovers
<1> SUFFICES ASSUME PlanInv, Accepted, case.answer.kind = "draft", NEW step \in Writes,
                    step.tool = "scale_workers"
             PROVE  /\ CapacityKnown(case.reading) =>
                         \/ step.input.target = MaxReplicas
                         \/ 10 * step.input.target * case.reading.consume_per_min >=
                              12 * case.reading.produce_per_min * case.reading.replicas
                    /\ step.rollback.mode = "tool"
                    /\ step.rollback.input.target = case.reading.replicas
                    /\ step.rollback.input.experiment = case.experiment
  BY DEF ScalingCovers
<1> DEFINE reading == case.reading
<1>1. PICK i \in DOMAIN case.answer.draft :
             LET drafted == case.answer.draft[i]
             IN /\ drafted \in DraftShape
                /\ step.tool = drafted.tool
                /\ step.input = FinalInput(drafted, reading)
                /\ step.rollback = Rollback(step.tool, step.input, reading)
                /\ InputValid(step.tool, step.input)
                /\ step.input.experiment = case.experiment
  BY AcceptedWrites
<1>2. \A field \in DOMAIN reading : reading[field] \in Int
  BY AcceptedDraft
<1>3. /\ step.input \in ToolInput
      /\ CapacityKnown(reading) => step.input.target >= Needed(reading)
  <2> HIDE DEF reading
  <2> QED BY <1>1, <1>2, FinalInputTypes
<1>4. step.input.target \in 1..30
  BY <1>1 DEF InputValid, MaxReplicas
<1>5. ASSUME CapacityKnown(reading)
      PROVE  \/ step.input.target = MaxReplicas
             \/ 10 * step.input.target * reading.consume_per_min >=
                  12 * reading.produce_per_min * reading.replicas
  <2> DEFINE t == step.input.target
             d == Needed(reading)
             c == reading.consume_per_min
             x == 12 * reading.produce_per_min * reading.replicas
  <2>1. d \in Int /\ (d = MaxReplicas \/ 10 * d * c >= x) /\ t >= d
    BY <1>2, <1>3, <1>5, NeededTypes
  <2>2. c \in Int /\ c > 0
    BY <1>2, <1>5 DEF CapacityKnown, Measured
  <2>3. x \in Int
    <3>1. /\ "produce_per_min" \in DOMAIN reading /\ "replicas" \in DOMAIN reading
      BY <1>5 DEF CapacityKnown, Measured
    <3>2. reading.produce_per_min \in Int /\ reading.replicas \in Int
      BY <1>2, <3>1
    <3>3. QED
      BY <3>2
  <2>4. t \in 1..30
    BY <1>4
  <2> HIDE DEF t, d, c, x
  <2>5. CASE d = MaxReplicas
    BY <2>1, <2>4, <2>5 DEF MaxReplicas, t
  <2>6. CASE 10 * d * c >= x
    <3>1. t * c >= d * c
      BY <2>1, <2>2, <2>4
    <3>2. 10 * t * c = 10 * (t * c) /\ 10 * d * c = 10 * (d * c) /\ t * c \in Int /\ d * c \in Int
      BY <2>1, <2>2, <2>4
    <3>3. 10 * t * c >= x
      BY <2>3, <2>6, <3>1, <3>2
    <3>4. QED
      BY <3>3 DEF t, c, x
  <2>7. QED
    BY <2>1, <2>5, <2>6
<1>6. "replicas" \in DOMAIN reading
  <2>1. case.kind \in FaultKind /\ reading \in ReadingShape(case.kind)
    BY DEF PlanInv, CaseShape
  <2>2. "replicas" \in Observed(case.kind)
    BY DEF Observed
  <2>3. QED
    BY <2>1, <2>2 DEF ReadingShape
<1>7. step.rollback = ToolRollback("scale_workers", [step.input EXCEPT !.target = reading.replicas])
  BY <1>1, <1>6 DEF Rollback
<1>8. /\ step.rollback.mode = "tool"
      /\ step.rollback.input = [step.input EXCEPT !.target = reading.replicas]
  BY <1>7 DEF ToolRollback
<1>9. QED
  BY <1>1, <1>3, <1>5, <1>8 DEF ToolInput

(* An accepted scaling of a draft covers the observed production with a    *)
(* fifth to spare or takes all the workers there may be, and its undoing   *)
(* restores what was observed, in the experiment of the run: the ceiling   *)
(* and the minimum of _materialize leave no gap at any reading.            *)
THEOREM PlanningScalingCovers == Spec => []ScalingCovers
<1>1. QED
  BY PlanInvHolds, ScalingCoversInv, PTL

-----------------------------------------------------------------------------
(* A change that changes nothing.                                          *)
LEMMA ImprovementFails ==
  ASSUME NEW tool, NEW input, NEW reading, \A field \in DOMAIN reading : reading[field] \in Int,
         NEW field \in Compared(tool, reading)
  PROVE  \E check \in SuccessCriteria(tool, input, reading) : ~CheckHolds(check, reading)
<1> DEFINE check == Check(field, "lt", reading[field])
<1>1. check \in Improvements(tool, reading)
  BY DEF Improvements
<1>2. check \in SuccessCriteria(tool, input, reading)
  <2> HIDE DEF check
  <2> QED BY <1>1 DEF SuccessCriteria
<1>3. field # "__result_status__" /\ field \in DOMAIN reading
  BY ComparedIsData
<1>4. /\ check # ResultSucceeded /\ check.field = field /\ check.operator = "lt"
      /\ check.value = reading[field]
  BY <1>3, CheckIs
<1>5. ~(reading[field] < reading[field])
  BY <1>3
<1> HIDE DEF check
<1>6. ~CheckHolds(check, reading)
  BY <1>3, <1>4, <1>5 DEF CheckHolds
<1>7. QED
  BY <1>2, <1>6

LEMMA ObservedFields ==
  ASSUME NEW kind \in FaultKind, NEW reading \in ReadingShape(kind)
  PROVE  "cache_version" \notin DOMAIN reading /\ "db_version" \notin DOMAIN reading
<1>1. kind \in {"connection_pool_exhaustion", "queue_backlog", "expired_credential", "stale_cache",
                "dependency_rate_limit"}
  BY DEF FaultKind, FaultMetrics
<1>2. {"cache_version", "db_version"} \intersect DOMAIN FaultMetrics[kind] = {}
  <2>1. CASE kind = "connection_pool_exhaustion"
    BY <2>1 DEF FaultMetrics
  <2>2. CASE kind = "queue_backlog"
    BY <2>2 DEF FaultMetrics
  <2>3. CASE kind = "expired_credential"
    BY <2>3 DEF FaultMetrics
  <2>4. CASE kind = "stale_cache"
    BY <2>4 DEF FaultMetrics
  <2>5. CASE kind = "dependency_rate_limit"
    BY <2>5 DEF FaultMetrics
  <2>6. QED
    BY <1>1, <2>1, <2>2, <2>3, <2>4, <2>5
<1>3. {"cache_version", "db_version"} \intersect (Observed(kind) \union {"trend"}) = {}
  BY <1>2 DEF Observed
<1>4. DOMAIN reading = Observed(kind) \/ DOMAIN reading = Observed(kind) \union {"trend"}
  BY DEF ReadingShape
<1>5. QED
  BY <1>3, <1>4

LEMMA DraftUnchangedFails ==
  ASSUME PlanInv, Accepted, case.answer.kind = "draft", NEW step \in Writes
  PROVE  \/ ~MeetsCriteria(step, case.reading)
         \/ step.tool = "restart_service" /\ Unmeasured(step)
<1> DEFINE reading == case.reading
           tool == step.tool
<1>1. /\ tool \in WriteTools
      /\ step.success = SuccessCriteria(tool, step.input, reading)
      /\ SupportingFields(tool) # {} => SupportingFields(tool) \intersect DOMAIN reading # {}
  BY AcceptedWrites
<1>2. \A field \in DOMAIN reading : reading[field] \in Int
  BY AcceptedDraft
<1>3. CASE Compared(tool, reading) # {}
  <2>1. PICK field \in Compared(tool, reading) : TRUE
    BY <1>3
  <2>2. \E check \in SuccessCriteria(tool, step.input, reading) : ~CheckHolds(check, reading)
    <3> HIDE DEF tool, reading
    <3> QED BY <1>2, <2>1, ImprovementFails
  <2>3. QED
    BY <1>1, <2>2 DEF MeetsCriteria
<1>4. CASE Compared(tool, reading) = {}
  <2>1. tool = "restart_service"
    <3>1. ASSUME tool = "scale_workers" PROVE FALSE
      <4>1. SupportingFields(tool) = ComparedFields(tool) /\ SupportingFields(tool) # {}
        BY <3>1 DEF SupportingFields, ComparedFields
      <4>2. QED
        BY <1>1, <1>4, <4>1 DEF Compared
    <3>2. ASSUME tool = "rotate_credential" PROVE FALSE
      <4>1. SupportingFields(tool) = ComparedFields(tool) /\ SupportingFields(tool) # {}
        BY <3>2 DEF SupportingFields, ComparedFields
      <4>2. QED
        BY <1>1, <1>4, <4>1 DEF Compared
    <3>3. ASSUME tool = "refresh_cache" PROVE FALSE
      <4>1. /\ SupportingFields(tool) = {"stale_sample_rate", "cache_version", "db_version"}
            /\ ComparedFields(tool) = {"stale_sample_rate"}
        BY <3>3 DEF SupportingFields, ComparedFields
      <4>2. "cache_version" \notin DOMAIN reading /\ "db_version" \notin DOMAIN reading
        BY ObservedFields DEF PlanInv, CaseShape
      <4>3. "stale_sample_rate" \in DOMAIN reading
        BY <1>1, <4>1, <4>2
      <4>4. QED
        BY <1>4, <4>1, <4>3 DEF Compared
    <3>4. QED
      BY <1>1, <3>1, <3>2, <3>3 DEF WriteTools
  <2>2. Improvements(tool, reading) = {}
    BY <1>4 DEF Improvements
  <2>3. Settings(tool, step.input, reading) = {}
    BY <2>1 DEF Settings
  <2>4. step.success = {ResultSucceeded}
    BY <1>1, <2>2, <2>3 DEF SuccessCriteria
  <2>5. QED
    BY <2>1, <2>4 DEF Unmeasured
<1>5. QED
  BY <1>3, <1>4

LEMMA WithIs ==
  ASSUME NEW top, NEW others
  PROVE  /\ DOMAIN With(top, others) = DOMAIN top \union DOMAIN others
         /\ \A field \in DOMAIN top : With(top, others)[field] = top[field]
         /\ \A field \in DOMAIN others \ DOMAIN top : With(top, others)[field] = others[field]
  BY DEF With

Beyond == {"matches", "samples", "instances", "replicas"}

LEMMA LabReading ==
  ASSUME NEW kind, NEW reading \in LabReadings(kind)
  PROVE  \E metrics \in {FaultMetrics[kind], RepairedMetrics(kind), ScaledInVain(kind)} :
           /\ DOMAIN reading = Beyond \union DOMAIN metrics
           /\ \A field \in DOMAIN metrics \ Beyond : reading[field] = metrics[field]
<1>1. PICK metrics \in {FaultMetrics[kind], RepairedMetrics(kind), ScaledInVain(kind)},
           replicas \in 0..MaxReplicas : reading = Reading(metrics, replicas)
  BY DEF LabReadings
<1> DEFINE top == [matches |-> 3, samples |-> 1, instances |-> 1, replicas |-> replicas]
<1>2. DOMAIN top = Beyond
  BY DEF Beyond
<1>3. reading = With(top, metrics)
  BY <1>1 DEF Reading
<1> HIDE DEF top
<1>4. /\ DOMAIN With(top, metrics) = DOMAIN top \union DOMAIN metrics
      /\ \A field \in DOMAIN metrics \ DOMAIN top : With(top, metrics)[field] = metrics[field]
  BY WithIs
<1>5. /\ DOMAIN reading = Beyond \union DOMAIN metrics
      /\ \A field \in DOMAIN metrics \ Beyond : reading[field] = metrics[field]
  BY <1>2, <1>3, <1>4
<1>6. QED
  BY <1>5

(* The readings a fixture's plan is made of and judged by, fault by fault. *)
LEMMA LabMetrics ==
  ASSUME NEW kind \in FaultKind,
         NEW metrics \in {FaultMetrics[kind], RepairedMetrics(kind), ScaledInVain(kind)}
  PROVE  /\ kind = "connection_pool_exhaustion" =>
              /\ {"pool_waiters", "p95_ms"} \subseteq DOMAIN metrics
              /\ metrics["pool_waiters"] = 1 \/ metrics["p95_ms"] = 3820
         /\ kind = "queue_backlog" =>
              /\ {"produce_per_min", "consume_per_min"} \subseteq DOMAIN metrics
              /\ metrics["produce_per_min"] = 510
              /\ \/ metrics["consume_per_min"] = 690
                 \/ "trend" \notin DOMAIN metrics
                 \/ metrics["trend"] = Unchanged
         /\ kind # "queue_backlog" => "queue_depth" \notin DOMAIN metrics
         /\ kind = "expired_credential" =>
              "http_401_rate" \in DOMAIN metrics /\ metrics["http_401_rate"] \in {3, 346}
         /\ kind = "stale_cache" =>
              "stale_sample_rate" \in DOMAIN metrics /\ metrics["stale_sample_rate"] \in {0, 220}
<1>0. metrics = FaultMetrics[kind] \/ metrics = RepairedMetrics(kind) \/ metrics = ScaledInVain(kind)
  OBVIOUS
<1> DEFINE inVain == [trend |-> Unchanged]
<1>a. DOMAIN inVain = {"trend"} /\ inVain["trend"] = Unchanged /\ ScaledInVain(kind) = With(inVain, FaultMetrics[kind])
  BY DEF ScaledInVain
<1> HIDE DEF inVain
<1>1. CASE kind = "connection_pool_exhaustion"
  <2> DEFINE top == [p95_ms |-> 540, error_rate |-> 4, pool_waiters |-> 1]
  <2>1. /\ DOMAIN FaultMetrics[kind] = {"p95_ms", "error_rate", "pool_waiters", "request_rate"}
        /\ FaultMetrics[kind]["p95_ms"] = 3820
    BY <1>1 DEF FaultMetrics
  <2>2. DOMAIN top = {"p95_ms", "error_rate", "pool_waiters"} /\ top["pool_waiters"] = 1
    OBVIOUS
  <2>3. RepairedMetrics(kind) = With(top, FaultMetrics[kind])
    BY <1>1 DEF RepairedMetrics
  <2> DEFINE metrics_ == FaultMetrics[kind]
             lifted == With(top, metrics_)
             vain == With(inVain, metrics_)
  <2>4. metrics = metrics_ \/ metrics = lifted \/ metrics = vain
    BY <1>0, <1>a, <2>3
  <2> HIDE DEF top, metrics_
  <2>5. /\ DOMAIN lifted = DOMAIN metrics_ /\ DOMAIN vain = DOMAIN metrics_ \union {"trend"}
        /\ lifted["pool_waiters"] = 1 /\ vain["p95_ms"] = 3820
    <3>1. /\ DOMAIN lifted = DOMAIN top \union DOMAIN metrics_
          /\ \A field \in DOMAIN top : lifted[field] = top[field]
          /\ \A field \in DOMAIN metrics_ \ DOMAIN top : lifted[field] = metrics_[field]
      BY WithIs
    <3>2. /\ DOMAIN vain = DOMAIN inVain \union DOMAIN metrics_
          /\ \A field \in DOMAIN inVain : vain[field] = inVain[field]
          /\ \A field \in DOMAIN metrics_ \ DOMAIN inVain : vain[field] = metrics_[field]
      BY WithIs
    <3> HIDE DEF lifted, vain
    <3>3. QED
      BY <1>a, <2>1, <2>2, <3>1, <3>2 DEF metrics_
  <2> HIDE DEF lifted, vain
  <2>6. QED
    BY <1>1, <2>1, <2>4, <2>5 DEF metrics_
<1>2. CASE kind = "queue_backlog"
  <2> DEFINE top == [queue_depth |-> 3190, consume_per_min |-> 690, oldest_age_s |-> 280,
                     trend |-> Falling]
  <2>1. /\ DOMAIN FaultMetrics[kind] = {"queue_depth", "consume_per_min", "produce_per_min", "oldest_age_s"}
        /\ FaultMetrics[kind]["produce_per_min"] = 510
    BY <1>2 DEF FaultMetrics
  <2>2. /\ DOMAIN top = {"queue_depth", "consume_per_min", "oldest_age_s", "trend"}
        /\ top["consume_per_min"] = 690
    OBVIOUS
  <2>3. RepairedMetrics(kind) = With(top, FaultMetrics[kind])
    BY <1>2 DEF RepairedMetrics
  <2> DEFINE metrics_ == FaultMetrics[kind]
             lifted == With(top, metrics_)
             vain == With(inVain, metrics_)
  <2>4. metrics = metrics_ \/ metrics = lifted \/ metrics = vain
    BY <1>0, <1>a, <2>3
  <2> HIDE DEF top, metrics_
  <2>5. /\ DOMAIN lifted = DOMAIN metrics_ \union {"trend"} /\ DOMAIN vain = DOMAIN metrics_ \union {"trend"}
        /\ lifted["produce_per_min"] = 510 /\ vain["produce_per_min"] = 510
        /\ lifted["consume_per_min"] = 690 /\ vain["trend"] = Unchanged
    <3>1. /\ DOMAIN lifted = DOMAIN top \union DOMAIN metrics_
          /\ \A field \in DOMAIN top : lifted[field] = top[field]
          /\ \A field \in DOMAIN metrics_ \ DOMAIN top : lifted[field] = metrics_[field]
      BY WithIs
    <3>2. /\ DOMAIN vain = DOMAIN inVain \union DOMAIN metrics_
          /\ \A field \in DOMAIN inVain : vain[field] = inVain[field]
          /\ \A field \in DOMAIN metrics_ \ DOMAIN inVain : vain[field] = metrics_[field]
      BY WithIs
    <3> HIDE DEF lifted, vain
    <3>3. QED
      BY <1>a, <2>1, <2>2, <3>1, <3>2 DEF metrics_
  <2> HIDE DEF lifted, vain
  <2>6. QED
    BY <1>2, <2>1, <2>4, <2>5 DEF metrics_
<1>3. CASE kind = "expired_credential"
  <2> DEFINE top == [http_401_rate |-> 3]
  <2>1. /\ DOMAIN FaultMetrics[kind] = {"http_401_rate", "p95_ms", "network_errors"}
        /\ FaultMetrics[kind]["http_401_rate"] = 346
    BY <1>3 DEF FaultMetrics
  <2>2. DOMAIN top = {"http_401_rate"} /\ top["http_401_rate"] = 3
    OBVIOUS
  <2>3. RepairedMetrics(kind) = With(top, FaultMetrics[kind])
    BY <1>3 DEF RepairedMetrics
  <2> DEFINE metrics_ == FaultMetrics[kind]
             lifted == With(top, metrics_)
             vain == With(inVain, metrics_)
  <2>4. metrics = metrics_ \/ metrics = lifted \/ metrics = vain
    BY <1>0, <1>a, <2>3
  <2> HIDE DEF top, metrics_
  <2>5. /\ DOMAIN lifted = DOMAIN metrics_ /\ DOMAIN vain = DOMAIN metrics_ \union {"trend"}
        /\ lifted["http_401_rate"] = 3 /\ vain["http_401_rate"] = 346
    <3>1. /\ DOMAIN lifted = DOMAIN top \union DOMAIN metrics_
          /\ \A field \in DOMAIN top : lifted[field] = top[field]
          /\ \A field \in DOMAIN metrics_ \ DOMAIN top : lifted[field] = metrics_[field]
      BY WithIs
    <3>2. /\ DOMAIN vain = DOMAIN inVain \union DOMAIN metrics_
          /\ \A field \in DOMAIN inVain : vain[field] = inVain[field]
          /\ \A field \in DOMAIN metrics_ \ DOMAIN inVain : vain[field] = metrics_[field]
      BY WithIs
    <3> HIDE DEF lifted, vain
    <3>3. QED
      BY <1>a, <2>1, <2>2, <3>1, <3>2 DEF metrics_
  <2> HIDE DEF lifted, vain
  <2>6. QED
    BY <1>3, <2>1, <2>4, <2>5 DEF metrics_
<1>4. CASE kind = "stale_cache"
  <2> DEFINE top == [stale_sample_rate |-> 0]
  <2>1. /\ DOMAIN FaultMetrics[kind] = {"p95_ms", "error_rate", "stale_sample_rate"}
        /\ FaultMetrics[kind]["stale_sample_rate"] = 220
    BY <1>4 DEF FaultMetrics
  <2>2. DOMAIN top = {"stale_sample_rate"} /\ top["stale_sample_rate"] = 0
    OBVIOUS
  <2>3. RepairedMetrics(kind) = With(top, FaultMetrics[kind])
    BY <1>4 DEF RepairedMetrics
  <2> DEFINE metrics_ == FaultMetrics[kind]
             lifted == With(top, metrics_)
             vain == With(inVain, metrics_)
  <2>4. metrics = metrics_ \/ metrics = lifted \/ metrics = vain
    BY <1>0, <1>a, <2>3
  <2> HIDE DEF top, metrics_
  <2>5. /\ DOMAIN lifted = DOMAIN metrics_ /\ DOMAIN vain = DOMAIN metrics_ \union {"trend"}
        /\ lifted["stale_sample_rate"] = 0 /\ vain["stale_sample_rate"] = 220
    <3>1. /\ DOMAIN lifted = DOMAIN top \union DOMAIN metrics_
          /\ \A field \in DOMAIN top : lifted[field] = top[field]
          /\ \A field \in DOMAIN metrics_ \ DOMAIN top : lifted[field] = metrics_[field]
      BY WithIs
    <3>2. /\ DOMAIN vain = DOMAIN inVain \union DOMAIN metrics_
          /\ \A field \in DOMAIN inVain : vain[field] = inVain[field]
          /\ \A field \in DOMAIN metrics_ \ DOMAIN inVain : vain[field] = metrics_[field]
      BY WithIs
    <3> HIDE DEF lifted, vain
    <3>3. QED
      BY <1>a, <2>1, <2>2, <3>1, <3>2 DEF metrics_
  <2> HIDE DEF lifted, vain
  <2>6. QED
    BY <1>4, <2>1, <2>4, <2>5 DEF metrics_
<1>5. CASE kind = "dependency_rate_limit"
  <2>1. DOMAIN FaultMetrics[kind] = {"http_429_rate", "p95_ms", "retry_amplification"}
    BY <1>5 DEF FaultMetrics
  <2>2. RepairedMetrics(kind) = FaultMetrics[kind]
    BY <1>5 DEF RepairedMetrics
  <2>3. DOMAIN With(inVain, FaultMetrics[kind]) = {"trend"} \union DOMAIN FaultMetrics[kind]
    <3>1. DOMAIN With(inVain, FaultMetrics[kind]) = DOMAIN inVain \union DOMAIN FaultMetrics[kind]
      BY WithIs
    <3>2. QED
      BY <1>a, <3>1
  <2>4. metrics = FaultMetrics[kind] \/ metrics = With(inVain, FaultMetrics[kind])
    BY <1>0, <1>a, <2>2
  <2>5. QED
    BY <1>5, <2>1, <2>3, <2>4
<1>6. QED
  BY <1>1, <1>2, <1>3, <1>4, <1>5 DEF FaultKind, FaultMetrics

LEMMA FixtureFails ==
  ASSUME NEW kind \in FaultKind, NEW reading \in LabReadings(kind), NEW tool \in WriteTools,
         tool = FixtureTool(reading, LogPhrase[kind])
  PROVE  \E check \in FixtureSuccess(tool) : ~CheckHolds(check, reading)
<1>1. PICK metrics \in {FaultMetrics[kind], RepairedMetrics(kind), ScaledInVain(kind)} :
        /\ DOMAIN reading = Beyond \union DOMAIN metrics
        /\ \A field \in DOMAIN metrics \ Beyond : reading[field] = metrics[field]
  BY LabReading
<1>2. /\ LogPhrase["connection_pool_exhaustion"] = "pool timeout" /\ LogPhrase["queue_backlog"] = "none"
      /\ LogPhrase["expired_credential"] = "expired=true" /\ LogPhrase["stale_cache"] = "cache_version="
      /\ LogPhrase["dependency_rate_limit"] = "response=429"
  BY DEF LogPhrase
<1>3. kind \in {"connection_pool_exhaustion", "queue_backlog", "expired_credential", "stale_cache",
                "dependency_rate_limit"}
  BY DEF FaultKind, FaultMetrics
<1>4. CASE tool = "restart_service"
  <2>1. Level(reading, "pool_waiters") >= 10 /\ LogPhrase[kind] = "pool timeout"
    BY <1>4 DEF FixtureTool
  <2>2. kind = "connection_pool_exhaustion"
    BY <1>2, <1>3, <2>1
  <2>3. /\ {"pool_waiters", "p95_ms"} \subseteq DOMAIN metrics
        /\ metrics["pool_waiters"] = 1 \/ metrics["p95_ms"] = 3820
    BY <2>2, LabMetrics
  <2>4. /\ reading["pool_waiters"] = metrics["pool_waiters"] /\ reading["p95_ms"] = metrics["p95_ms"]
        /\ "pool_waiters" \in DOMAIN reading /\ "p95_ms" \in DOMAIN reading
    BY <1>1, <2>3 DEF Beyond
  <2>5. reading["p95_ms"] = 3820
    <3>1. Level(reading, "pool_waiters") = metrics["pool_waiters"]
      BY <2>4 DEF Level
    <3>2. metrics["pool_waiters"] # 1
      <4>1. SUFFICES ASSUME metrics["pool_waiters"] = 1 PROVE FALSE
        OBVIOUS
      <4>2. Level(reading, "pool_waiters") = 1
        BY <3>1, <4>1
      <4>3. ~(1 >= 10)
        OBVIOUS
      <4>4. QED
        BY <2>1, <4>2, <4>3
    <3>3. QED
      BY <2>3, <2>4, <3>2
  <2> DEFINE check == Check("p95_ms", "lte", 800)
  <2>6. check # ResultSucceeded /\ check.field = "p95_ms" /\ check.operator = "lte" /\ check.value = 800
    BY CheckIs
  <2>7. check \in FixtureSuccess(tool)
    BY <1>4 DEF FixtureSuccess
  <2> HIDE DEF check
  <2>8. ~CheckHolds(check, reading)
    BY <2>4, <2>5, <2>6 DEF CheckHolds
  <2>9. QED
    BY <2>7, <2>8
<1>5. CASE tool = "scale_workers"
  <2>1. /\ Level(reading, "queue_depth") >= 1000
        /\ Level(reading, "produce_per_min") > Level(reading, "consume_per_min")
    BY <1>5 DEF FixtureTool
  <2>2. kind = "queue_backlog"
    <3>1. SUFFICES ASSUME kind # "queue_backlog" PROVE FALSE
      OBVIOUS
    <3>2. "queue_depth" \notin DOMAIN metrics
      BY <3>1, LabMetrics
    <3>3. "queue_depth" \notin DOMAIN reading
      BY <1>1, <3>2 DEF Beyond
    <3>4. QED
      BY <2>1, <3>3 DEF Level
  <2>3. /\ {"produce_per_min", "consume_per_min"} \subseteq DOMAIN metrics
        /\ metrics["produce_per_min"] = 510
        /\ \/ metrics["consume_per_min"] = 690
           \/ "trend" \notin DOMAIN metrics
           \/ metrics["trend"] = Unchanged
    BY <2>2, LabMetrics
  <2>4. /\ reading["produce_per_min"] = 510 /\ reading["consume_per_min"] = metrics["consume_per_min"]
        /\ "produce_per_min" \in DOMAIN reading /\ "consume_per_min" \in DOMAIN reading
    BY <1>1, <2>3 DEF Beyond
  <2>5. "trend" \notin DOMAIN metrics \/ metrics["trend"] = Unchanged
    BY <2>1, <2>3, <2>4 DEF Level
  <2>6. "trend" \notin DOMAIN reading \/ reading["trend"] = Unchanged
    BY <1>1, <2>5 DEF Beyond
  <2> DEFINE check == Check("trend", "eq", Falling)
  <2>7. check # ResultSucceeded /\ check.field = "trend" /\ check.operator = "eq" /\ check.value = Falling
    BY CheckIs
  <2>8. check \in FixtureSuccess(tool)
    BY <1>5 DEF FixtureSuccess
  <2> HIDE DEF check
  <2>9. ~CheckHolds(check, reading)
    BY <2>6, <2>7 DEF CheckHolds, Falling, Unchanged
  <2>10. QED
    BY <2>8, <2>9
<1>6. CASE tool = "rotate_credential"
  <2>1. Level(reading, "http_401_rate") >= 50 /\ LogPhrase[kind] = "expired=true"
    BY <1>6 DEF FixtureTool
  <2>2. kind = "expired_credential"
    BY <1>2, <1>3, <2>1
  <2>3. "http_401_rate" \in DOMAIN metrics /\ metrics["http_401_rate"] \in {3, 346}
    BY <2>2, LabMetrics
  <2>4. "http_401_rate" \in DOMAIN reading /\ reading["http_401_rate"] = metrics["http_401_rate"]
    BY <1>1, <2>3 DEF Beyond
  <2>5. reading["http_401_rate"] = 346
    BY <2>1, <2>3, <2>4 DEF Level
  <2> DEFINE check == Check("http_401_rate", "lte", 10)
  <2>6. /\ check # ResultSucceeded /\ check.field = "http_401_rate" /\ check.operator = "lte"
        /\ check.value = 10
    BY CheckIs
  <2>7. check \in FixtureSuccess(tool)
    BY <1>6 DEF FixtureSuccess
  <2> HIDE DEF check
  <2>8. ~CheckHolds(check, reading)
    BY <2>4, <2>5, <2>6 DEF CheckHolds
  <2>9. QED
    BY <2>7, <2>8
<1>7. CASE tool = "refresh_cache"
  <2>1. Level(reading, "stale_sample_rate") >= 10 /\ LogPhrase[kind] = "cache_version="
    BY <1>7 DEF FixtureTool
  <2>2. kind = "stale_cache"
    BY <1>2, <1>3, <2>1
  <2>3. "stale_sample_rate" \in DOMAIN metrics /\ metrics["stale_sample_rate"] \in {0, 220}
    BY <2>2, LabMetrics
  <2>4. "stale_sample_rate" \in DOMAIN reading /\ reading["stale_sample_rate"] = metrics["stale_sample_rate"]
    BY <1>1, <2>3 DEF Beyond
  <2>5. reading["stale_sample_rate"] = 220
    BY <2>1, <2>3, <2>4 DEF Level
  <2> DEFINE check == Check("stale_sample_rate", "lte", 10)
  <2>6. /\ check # ResultSucceeded /\ check.field = "stale_sample_rate" /\ check.operator = "lte"
        /\ check.value = 10
    BY CheckIs
  <2>7. check \in FixtureSuccess(tool)
    BY <1>7 DEF FixtureSuccess
  <2> HIDE DEF check
  <2>8. ~CheckHolds(check, reading)
    BY <2>4, <2>5, <2>6 DEF CheckHolds
  <2>9. QED
    BY <2>7, <2>8
<1>8. QED
  BY <1>4, <1>5, <1>6, <1>7 DEF WriteTools

LEMMA FixtureUnchangedFails ==
  ASSUME PlanInv, Accepted, case.answer.kind = "fixture", NEW step \in Writes
  PROVE  ~MeetsCriteria(step, case.reading)
<1> DEFINE phrase == LogPhrase[case.kind]
           tool == FixtureTool(case.reading, phrase)
           plan_ == FixturePlan(case.experiment, Observation, case.reading, phrase)
<1>1. PICK i \in DOMAIN plan : step = plan[i]
  BY DEF Writes
<1>2. ObservationContext = case.reading
  BY AcceptedPlan
<1>3. Proposal = [outcome |-> IF plan_ = <<>> THEN "refused" ELSE "plan", plan |-> plan_]
  BY <1>2 DEF Proposal
<1>4. Proposal.plan = plan_
  <2> HIDE DEF plan_
  <2> QED BY <1>3
<1>5. DOMAIN plan = DOMAIN Proposal.plan /\ step.success = Proposal.plan[i].success
  BY <1>1, AcceptedSteps
<1>6. plan_ # <<>>
  <2> HIDE DEF plan_
  <2> QED BY <1>1, <1>4, <1>5
<1>7. case.experiment \in Text /\ case.kind \in FaultKind /\ case.reading \in LabReadings(case.kind)
  BY DEF PlanInv, CaseShape
<1>8. tool \in WriteTools /\ DOMAIN plan_ = {1} /\ plan_[1].success = FixtureSuccess(tool)
  BY <1>6, <1>7, FixtureTypes
<1>9. step.success = FixtureSuccess(tool)
  <2> HIDE DEF plan_, tool
  <2> QED BY <1>1, <1>4, <1>5, <1>8
<1>10. \E check \in FixtureSuccess(tool) : ~CheckHolds(check, case.reading)
  BY <1>7, <1>8, FixtureFails
<1>11. QED
  BY <1>9, <1>10 DEF MeetsCriteria

LEMMA UnchangedFailsInv == PlanInv => UnchangedFails
<1> SUFFICES ASSUME PlanInv, Accepted, case.answer.kind \in {"draft", "fixture"}, NEW step \in Writes
             PROVE  \/ ~MeetsCriteria(step, case.reading)
                    \/ step.tool = "restart_service" /\ Unmeasured(step)
  BY DEF UnchangedFails
<1>1. QED
  BY DraftUnchangedFails, FixtureUnchangedFails

(* A change that changes nothing is not a success: on the readings they    *)
(* were made from the criteria of an accepted write fail -- for a draft by *)
(* the compiler's rule that the tool's fields be observed and by the       *)
(* comparison with the baseline (_change_checks), for the fixture by its   *)
(* thresholds.                                                             *)
THEOREM PlanningUnchangedFails == Spec => []UnchangedFails
<1>1. QED
  BY PlanInvHolds, UnchangedFailsInv, PTL

-----------------------------------------------------------------------------
(* The names of a draft's steps.                                           *)
LEMMA NamingEndsInv == PlanInv => NamingEnds
<1> SUFFICES ASSUME PlanInv, node = "stuck"
             PROVE  Collides(case.answer.draft)
  BY DEF NamingEnds, Collides
<1>1. Proposal.outcome = "stuck"
  BY DEF PlanInv
<1>2. QED
  BY <1>1, ProposalTypes DEF PlanInv

(* Naming the steps of a draft (_materialize) fails to end only when the   *)
(* model itself numbered a step with the position of an earlier one, in    *)
(* the form of the single alternative the loop tries.                      *)
THEOREM PlanningNamingEnds == Spec => []NamingEnds
<1>1. QED
  BY PlanInvHolds, NamingEndsInv, PTL

LEMMA FaultlessPlan ==
  ASSUME NEW plan_, NEW known, Faultless(plan_, known)
  PROVE  /\ \A i, j \in DOMAIN plan_ : plan_[i].id = plan_[j].id => i = j
         /\ \A i \in DOMAIN plan_ : plan_[i].dependsOn \subseteq IdsOf(plan_)
<1>1. "DUPLICATE_STEP_ID" \notin PlanIssues(plan_)
  BY DEF Faultless
<1>2. IsInjective([i \in DOMAIN plan_ |-> plan_[i].id])
  BY <1>1 DEF PlanIssues, When
<1>3. \A i, j \in DOMAIN plan_ : plan_[i].id = plan_[j].id => i = j
  BY <1>2 DEF IsInjective
<1>4. ASSUME NEW i \in DOMAIN plan_ PROVE plan_[i].dependsOn \subseteq IdsOf(plan_)
  <2>1. "UNKNOWN_DEPENDENCY" \notin StepIssues(plan_[i], IdsOf(plan_), known)
    BY DEF Faultless
  <2>2. QED
    BY <2>1 DEF StepIssues, When
<1>5. QED
  BY <1>3, <1>4

(* The wiring of a plan whose steps have the names of a draft's.           *)
NamedAs(draft, names, plan_) ==
  /\ DOMAIN names = {draft[k].id : k \in DOMAIN draft}
  /\ \A k \in DOMAIN draft : /\ plan_[k].id = names[draft[k].id]
                             /\ plan_[k].dependsOn = Dependencies(draft[k], names)
  /\ \A k, l \in DOMAIN draft : plan_[k].id = plan_[l].id => k = l

Meant(draft, plan_, i, j) ==
  \/ draft[i].id \in draft[j].dependsOn
  \/ \E id \in draft[j].dependsOn \ {draft[k].id : k \in DOMAIN draft} : AsWritten(id) = plan_[i].id

LEMMA DependencyIs ==
  ASSUME NEW draft, NEW names, NEW plan_, NEW i \in DOMAIN draft, NEW j \in DOMAIN draft,
         NamedAs(draft, names, plan_)
  PROVE  plan_[i].id \in plan_[j].dependsOn <=> Meant(draft, plan_, i, j)
<1> DEFINE ids == {draft[k].id : k \in DOMAIN draft}
<1>0. /\ DOMAIN names = ids
      /\ \A k \in DOMAIN draft : plan_[k].id = names[draft[k].id]
      /\ plan_[j].dependsOn = Dependencies(draft[j], names)
      /\ \A k \in DOMAIN draft : plan_[k].id = plan_[i].id => k = i
  BY DEF NamedAs
<1>1. \A id : id \in ids => NameOf(names, id) = names[id]
  BY <1>0 DEF NameOf
<1>2. \A id : id \notin ids => NameOf(names, id) = AsWritten(id)
  BY <1>0 DEF NameOf
<1>3. plan_[i].id \in plan_[j].dependsOn <=> \E id \in draft[j].dependsOn : NameOf(names, id) = plan_[i].id
  BY <1>0 DEF Dependencies
<1>4. ASSUME NEW id \in draft[j].dependsOn, NameOf(names, id) = plan_[i].id, id \in ids
      PROVE  id = draft[i].id
  <2>1. PICK k \in DOMAIN draft : id = draft[k].id
    BY <1>4
  <2>2. plan_[k].id = plan_[i].id
    BY <1>0, <1>1, <1>4, <2>1
  <2>3. QED
    BY <1>0, <2>1, <2>2
<1>5. NameOf(names, draft[i].id) = plan_[i].id
  BY <1>0, <1>1
<1>6. ASSUME plan_[i].id \in plan_[j].dependsOn
      PROVE  \/ draft[i].id \in draft[j].dependsOn
             \/ \E id \in draft[j].dependsOn \ ids : AsWritten(id) = plan_[i].id
  <2>1. PICK id \in draft[j].dependsOn : NameOf(names, id) = plan_[i].id
    BY <1>3, <1>6
  <2>2. CASE id \in ids
    BY <1>4, <2>1, <2>2
  <2>3. CASE id \notin ids
    BY <1>2, <2>1, <2>3
  <2>4. QED
    BY <2>2, <2>3
<1>7. ASSUME \/ draft[i].id \in draft[j].dependsOn
             \/ \E id \in draft[j].dependsOn \ ids : AsWritten(id) = plan_[i].id
      PROVE  plan_[i].id \in plan_[j].dependsOn
  <2>1. CASE draft[i].id \in draft[j].dependsOn
    BY <1>3, <1>5, <2>1
  <2>2. CASE \E id \in draft[j].dependsOn \ ids : AsWritten(id) = plan_[i].id
    BY <1>2, <1>3, <2>2
  <2>3. QED
    BY <1>7, <2>1, <2>2
<1>8. QED
  BY <1>6, <1>7 DEF Meant

LEMMA WiringKeptInv == PlanInv => WiringKept
<1> SUFFICES ASSUME PlanInv, Accepted, case.answer.kind = "draft" PROVE WiringKept
  BY DEF WiringKept
<1> DEFINE draft == case.answer.draft
           ids == {draft[i].id : i \in DOMAIN draft}
           proposed == Proposal.plan
           meant(i, j) ==
             \/ draft[i].id \in draft[j].dependsOn
             \/ \E id \in draft[j].dependsOn \ ids : AsWritten(id) = plan[i].id
<1>1. /\ draft \in Drafts
      /\ \A field \in DOMAIN case.reading : case.reading[field] \in Int
  BY AcceptedDraft
<1>2. PICK names : Wired(draft, names, case.reading, proposed)
  BY AcceptedDraft
<1>3. /\ DOMAIN proposed = DOMAIN draft /\ Len(proposed) = Len(draft)
      /\ \A i \in DOMAIN draft :
           /\ proposed[i] = PlanStep(draft[i], names, case.reading)
           /\ draft[i] \in DraftShape /\ names[draft[i].id] \in Names
           /\ \A id \in draft[i].dependsOn : NameOf(names, id) \in Names
  <2> HIDE DEF draft, proposed
  <2> QED BY <1>1, <1>2, WiredTypes
<1>4. \A i \in DOMAIN draft : /\ proposed[i].id = names[draft[i].id]
                              /\ proposed[i].tool = draft[i].tool
                              /\ proposed[i].dependsOn = Dependencies(draft[i], names)
  <2> TAKE i \in DOMAIN draft
  <2> HIDE DEF draft, proposed
  <2> QED BY <1>1, <1>3, PlanStepTypes
<1>5. /\ DOMAIN plan = DOMAIN proposed
      /\ \A i \in DOMAIN plan : /\ plan[i].id = proposed[i].id /\ plan[i].tool = proposed[i].tool
                                /\ plan[i].dependsOn = proposed[i].dependsOn
  BY AcceptedSteps
<1>6. Len(plan) = Len(draft)
  <2>1. plan \in Seq(StepShape) /\ proposed \in Seq(StepShape)
    BY AcceptedPlan
  <2>2. Len(plan) = Len(proposed)
    <3> HIDE DEF proposed
    <3> QED BY <1>5, <2>1
  <2>3. QED
    BY <1>3, <2>2
<1>7. /\ \A i, j \in DOMAIN proposed : proposed[i].id = proposed[j].id => i = j
      /\ \A i \in DOMAIN proposed : proposed[i].dependsOn \subseteq IdsOf(proposed)
  BY AcceptedPlan, FaultlessPlan DEF Clean
<1>8. DOMAIN names = ids
  BY <1>2 DEF Wired
<1> HIDE DEF draft, proposed
<1>9. ASSUME NEW i \in DOMAIN draft, NEW j \in DOMAIN draft
      PROVE  meant(i, j) <=> plan[i].id \in plan[j].dependsOn
  <2>1. NamedAs(draft, names, plan)
    BY <1>3, <1>4, <1>5, <1>7, <1>8 DEF NamedAs
  <2>2. plan[i].id \in plan[j].dependsOn <=> Meant(draft, plan, i, j)
    BY <2>1, DependencyIs
  <2>3. QED
    BY <2>2 DEF Meant
<1>10. IdsOf(plan) = IdsOf(proposed)
  BY <1>5 DEF IdsOf
<1>11. \A i \in DOMAIN plan : plan[i].dependsOn \subseteq IdsOf(plan)
  BY <1>5, <1>7, <1>10
<1>12. \A i \in DOMAIN draft : plan[i].tool = draft[i].tool
  BY <1>3, <1>4, <1>5
<1>13. QED
  BY <1>6, <1>9, <1>11, <1>12 DEF WiringKept, draft

(* What is accepted of a draft is the draft: its steps in their order, and *)
(* a step waits for exactly the steps the model meant, whatever the        *)
(* normalisation of _materialize made of their ids.                        *)
THEOREM PlanningWiringKept == Spec => []WiringKept
<1>1. QED
  BY PlanInvHolds, WiringKeptInv, PTL

-----------------------------------------------------------------------------
(* The sources, and the fused ranking they come from.                      *)
LEMMA CaseRankings ==
  ASSUME CaseShape(case)
  PROVE  Rankings(case.dense, case.lexical, case.weight)
BY DEF CaseShape, Rankings

SourcesInv ==
  IF node = "retrieve" THEN sources = <<>>
  ELSE Sourced(sources, ToSet(RouteOf(case.service)) \intersect Doc, ToSet(Pinned))

LEMMA SourcesInvInit == Init => SourcesInv
BY DEF Init, SourcesInv

LEMMA SourcesInvNext == PlanInv /\ SourcesInv /\ [Next]_vars => SourcesInv'
<1> SUFFICES ASSUME PlanInv, SourcesInv, [Next]_vars PROVE SourcesInv'
  OBVIOUS
<1>1. CASE Retrieve
  <2> DEFINE fused == Fuse(case.dense, case.lexical, case.weight)
  <2>1. sources' = Search(fused, RouteOf(case.service)) /\ node' = "investigate" /\ case' = case
    BY <1>1 DEF Retrieve
  <2>2. fused \in Seq(ToSet(Chunks))
    BY CaseRankings, FuseIs DEF PlanInv
  <2> HIDE DEF fused
  <2>3. Sourced(Search(fused, RouteOf(case.service)),
                ToSet(RouteOf(case.service)) \intersect Doc, ToSet(Pinned))
    BY <2>2, SearchIs
  <2>4. QED
    BY <2>1, <2>3 DEF SourcesInv
<1>2. ASSUME node # "retrieve", node' # "retrieve", case' = case, sources' = sources
      PROVE  SourcesInv'
  <2>1. Sourced(sources, ToSet(RouteOf(case.service)) \intersect Doc, ToSet(Pinned))
    BY <1>2 DEF SourcesInv
  <2>2. QED
    BY <1>2, <2>1 DEF SourcesInv
<1>3. CASE Investigate
  BY <1>2, <1>3 DEF Investigate
<1>4. CASE Observe
  BY <1>2, <1>4 DEF Observe
<1>5. CASE Diagnose
  <2>1. node' \in {"stuck", "handed_off", "policy"}
    <3>1. Proposal.outcome \in {"stuck", "refused", "plan"}
      BY ProposalTypes DEF PlanInv
    <3>2. node' = CASE Proposal.outcome = "stuck"   -> "stuck"
                    [] Proposal.outcome = "refused" -> "handed_off"
                    [] Proposal.outcome = "plan"    -> "policy"
      BY <1>5 DEF Diagnose
    <3>3. QED
      BY <3>1, <3>2
  <2>2. node # "retrieve" /\ case' = case /\ sources' = sources
    BY <1>5 DEF Diagnose
  <2>3. QED
    BY <1>2, <2>1, <2>2
<1>6. CASE Policy
  <2>1. node # "retrieve" /\ case' = case /\ sources' = sources /\ node' \in {"gate", "handed_off"}
    BY <1>6 DEF Policy
  <2>2. QED
    BY <1>2, <2>1
<1>7. CASE UNCHANGED vars
  BY <1>7 DEF vars, SourcesInv
<1>8. QED
  BY <1>1, <1>3, <1>4, <1>5, <1>6, <1>7 DEF Next

LEMMA SourcesInvHolds == Spec => []SourcesInv
<1>1. QED
  BY PlanInvHolds, SourcesInvInit, SourcesInvNext, PTL DEF Spec

LEMMA TypeOKInv == PlanInv /\ SourcesInv => TypeOK
<1> SUFFICES ASSUME PlanInv, SourcesInv PROVE TypeOK
  OBVIOUS
<1>1. sources \in Seq([chunk : ToSet(Chunks), doc : Doc, channel : {"hybrid", "routed", "pinned"}])
  <2>1. CASE node = "retrieve"
    <3>1. sources = <<>>
      BY <2>1 DEF SourcesInv
    <3>2. QED
      BY <3>1
  <2>2. CASE node # "retrieve"
    <3>1. sources \in Seq(HitShape)
      BY <2>2 DEF SourcesInv, Sourced
    <3>2. QED
      BY <3>1 DEF HitShape
  <2>3. QED
    BY <2>1, <2>2
<1>2. /\ CaseShape(case) /\ observed \in BOOLEAN
      /\ plan \in Seq(StepShape) /\ \A i \in DOMAIN plan : LegalName(plan[i].id)
      /\ policy.accepted \in BOOLEAN /\ policy.risk \in Low..High
  BY DEF PlanInv
<1>3. node \in {"retrieve", "investigate", "observe", "diagnose", "policy", "gate",
                "handed_off", "stuck"}
  BY DEF PlanInv, NodeName
<1>4. QED
  BY <1>1, <1>2, <1>3 DEF TypeOK

(* Every variable keeps its type: what is compiled are well-formed steps   *)
(* with legal names, whatever an adapter proposed.                         *)
THEOREM PlanningTypes == Spec => []TypeOK
<1>1. QED
  BY PlanInvHolds, SourcesInvHolds, TypeOKInv, PTL

LEMMA PlannerInformedInv == SourcesInv => PlannerInformed
<1> SUFFICES ASSUME SourcesInv, node # "retrieve" PROVE
      /\ {hit.doc : hit \in Shown} =
           (ToSet(RouteOf(case.service)) \union {"OPS-12"}) \intersect Doc
      /\ ToSet(Pinned) \intersect Doc \subseteq DocsOf(sources)
      /\ Len(sources) <= SourceLimit
      /\ IsInjective([i \in DOMAIN sources |-> sources[i].doc])
  BY Zenon DEF PlannerInformed
<1> DEFINE route == ToSet(RouteOf(case.service))
<1>1. Sourced(sources, route \intersect Doc, ToSet(Pinned))
  BY DEF SourcesInv
<1>2. "SEC-07" \notin route
  BY RouteFits
<1> HIDE DEF route
<1>3. /\ sources \in Seq(HitShape) /\ Distinct(sources) /\ Len(sources) <= SourceLimit
      /\ NotRanked(sources) = (route \intersect Doc) \union (ToSet(Pinned) \intersect Doc)
  BY <1>1 DEF Sourced
<1>4. {hit.doc : hit \in PlanningSources} = NotRanked(sources)
  <2>1. \A i \in DOMAIN sources : sources[i].channel \in {"hybrid", "routed", "pinned"}
    <3>1. \A i \in DOMAIN sources : sources[i] \in HitShape
      BY <1>3
    <3>2. QED
      BY <3>1 DEF HitShape
  <2>2. {j \in DOMAIN sources : sources[j].channel \in {"routed", "pinned"}} =
        {j \in DOMAIN sources : sources[j].channel # "hybrid"}
    BY <2>1
  <2>3. QED
    BY <2>2 DEF PlanningSources, NotRanked
<1>5. {hit.doc : hit \in Shown} = NotRanked(sources) \ {"SEC-07"}
  BY <1>4 DEF Shown
<1>6. {hit.doc : hit \in Shown} = (route \union {"OPS-12"}) \intersect Doc
  BY <1>2, <1>3, <1>5, PinnedIs
<1>7. ToSet(Pinned) \intersect Doc \subseteq DocsOf(sources)
  BY <1>3 DEF NotRanked, DocsOf
<1>8. IsInjective([i \in DOMAIN sources |-> sources[i].doc])
  BY <1>3 DEF IsInjective, Distinct
<1>9. QED
  BY <1>3, <1>6, <1>7, <1>8 DEF route

(* Whatever the rankings say, the model plans with exactly the runbooks of *)
(* the service and the rules for verification; the run keeps both control  *)
(* documents, one source per document, within the limit.                   *)
THEOREM PlanningPlannerInformed == Spec => []PlannerInformed
<1>1. QED
  BY SourcesInvHolds, PlannerInformedInv, PTL

LEMMA FusionRespectsBothInv == PlanInv => FusionRespectsBoth
<1> SUFFICES ASSUME PlanInv PROVE FusionRespectsBoth
  OBVIOUS
<1> DEFINE dense == case.dense
           lexical == case.lexical
           fused == Fuse(dense, lexical, case.weight)
<1>1. Rankings(dense, lexical, case.weight)
  BY CaseRankings DEF PlanInv
<1>2. /\ ToSet(fused) = Hits(dense, lexical)
      /\ \A c, d \in ToSet(fused) :
           Before(c, d, dense, lexical, case.weight) => Rank(fused, c) < Rank(fused, d)
  BY <1>1, FuseIs
<1> HIDE DEF fused, dense, lexical
<1>3. ASSUME NEW c \in ToSet(fused), NEW d \in ToSet(fused),
             NoWorse(dense, c, d), NoWorse(lexical, c, d)
      PROVE  Rank(fused, c) < Rank(fused, d)
  <2>1. d \in Hits(dense, lexical)
    BY <1>2
  <2>2. Before(c, d, dense, lexical, case.weight)
    BY <1>1, <1>3, <2>1, FusionKeepsOrder
  <2>3. QED
    BY <1>2, <2>2
<1>4. \A c, d \in ToSet(fused) :
        /\ c # d
        /\ Contains(dense, d) => Contains(dense, c) /\ Rank(dense, c) < Rank(dense, d)
        /\ Contains(lexical, d) => Contains(lexical, c) /\ Rank(lexical, c) < Rank(lexical, d)
        => Rank(fused, c) < Rank(fused, d)
  BY <1>3 DEF NoWorse
<1>5. QED
  BY <1>4, Zenon DEF FusionRespectsBoth, fused, dense, lexical

(* Fusing the rankings puts a chunk before any other that neither ranking  *)
(* prefers to it, for any rankings and weight: the scores are sums of      *)
(* fractions, and adding two that are no smaller keeps the order.          *)
THEOREM PlanningFusionRespectsBoth == Spec => []FusionRespectsBoth
<1>1. QED
  BY PlanInvHolds, FusionRespectsBothInv, PTL

-----------------------------------------------------------------------------
(* The search for cycles (HasCycle) is a recursion over what is left to do *)
(* and the path to it.                                                     *)
Turn(visit, depends, at) ==
  LET id == NextOf(at.todo)
      others == [at EXCEPT !.todo = @ \ {id}]
      after == visit[[todo |-> depends[id], visiting |-> at.visiting \union {id},
                      visited |-> at.visited]]
  IN IF at.todo = {} THEN [found |-> FALSE, visited |-> at.visited]
     ELSE IF id \in at.visiting THEN [found |-> TRUE, visited |-> at.visited]
     ELSE IF id \in at.visited THEN visit[others]
     ELSE IF after.found THEN after
     ELSE visit[[others EXCEPT !.visited = after.visited \union {id}]]

Searching(ids) == [todo : SUBSET ids, visiting : SUBSET ids, visited : SUBSET ids]
Answers(ids) == [found : BOOLEAN, visited : SUBSET ids]

Searches(visit, ids, depends) ==
  visit = [at \in Searching(ids) |-> Turn(visit, depends, at)]

Start(ids) == [todo |-> ids, visiting |-> {}, visited |-> {}]

LEMMA HasCycleIs ==
  ASSUME NEW plan_
  PROVE  HasCycle(plan_) =
           (CHOOSE visit : Searches(visit, IdsOf(plan_), DependenciesOf(plan_)))
             [Start(IdsOf(plan_))].found
  BY DEF HasCycle, Searches, Turn, Searching, Start

(* The places where the calls inside go on.                                *)
Others(at, visited) == [todo |-> at.todo \ {NextOf(at.todo)}, visiting |-> at.visiting,
                        visited |-> visited]
Inside(at, depends) ==
  [todo |-> depends[NextOf(at.todo)], visiting |-> at.visiting \union {NextOf(at.todo)},
   visited |-> at.visited]

AnswerAt(visit, depends, at) ==
  IF NextOf(at.todo) \in at.visiting THEN [found |-> TRUE, visited |-> at.visited]
  ELSE IF NextOf(at.todo) \in at.visited THEN visit[Others(at, at.visited)]
  ELSE IF visit[Inside(at, depends)].found THEN visit[Inside(at, depends)]
  ELSE visit[Others(at, visit[Inside(at, depends)].visited \union {NextOf(at.todo)})]

LEMMA NextIs ==
  ASSUME NEW todo, todo # {}
  PROVE  NextOf(todo) \in todo
  BY DEF NextOf

LEMMA TurnIs ==
  ASSUME NEW ids, NEW depends \in [ids -> SUBSET ids], NEW at \in Searching(ids),
         at.todo # {}, NEW visit
  PROVE  /\ NextOf(at.todo) \in at.todo /\ NextOf(at.todo) \in ids
         /\ Inside(at, depends) \in Searching(ids)
         /\ \A visited \in SUBSET ids : Others(at, visited) \in Searching(ids)
         /\ Turn(visit, depends, at) = AnswerAt(visit, depends, at)
<1> DEFINE id == NextOf(at.todo)
<1>1. id \in at.todo
  BY NextIs
<1> HIDE DEF id
<1>2. at.todo \in SUBSET ids /\ at.visiting \in SUBSET ids /\ at.visited \in SUBSET ids
  BY DEF Searching
<1>3. id \in ids /\ depends[id] \in SUBSET ids
  BY <1>1, <1>2
<1>4. Inside(at, depends) = [todo |-> depends[id], visiting |-> at.visiting \union {id},
                             visited |-> at.visited]
  BY DEF Inside, id
<1>5. \A visited : Others(at, visited) = [todo |-> at.todo \ {id}, visiting |-> at.visiting,
                                          visited |-> visited]
  BY DEF Others, id
<1>6. /\ Inside(at, depends) \in Searching(ids)
      /\ \A visited \in SUBSET ids : Others(at, visited) \in Searching(ids)
  BY <1>2, <1>3, <1>4, <1>5 DEF Searching
<1>7. [at EXCEPT !.todo = @ \ {id}] = Others(at, at.visited)
  BY <1>5 DEF Searching
<1>8. \A v : [Others(at, at.visited) EXCEPT !.visited = v] = Others(at, v)
  <2> TAKE v
  <2>1. Others(at, at.visited) = [todo |-> at.todo \ {id}, visiting |-> at.visiting,
                                  visited |-> at.visited]
    BY <1>5
  <2>2. Others(at, v) = [todo |-> at.todo \ {id}, visiting |-> at.visiting, visited |-> v]
    BY <1>5
  <2> DEFINE o == Others(at, at.visited)
  <2>3. o = [todo |-> at.todo \ {id}, visiting |-> at.visiting, visited |-> at.visited]
    BY <2>1
  <2> HIDE DEF o
  <2>4. [o EXCEPT !.visited = v] = [todo |-> at.todo \ {id}, visiting |-> at.visiting, visited |-> v]
    BY <2>3
  <2>5. QED
    BY <2>2, <2>4 DEF o
<1>9. Turn(visit, depends, at) =
         LET others == [at EXCEPT !.todo = @ \ {id}]
             after == visit[Inside(at, depends)]
         IN IF id \in at.visiting THEN [found |-> TRUE, visited |-> at.visited]
            ELSE IF id \in at.visited THEN visit[others]
            ELSE IF after.found THEN after
            ELSE visit[[others EXCEPT !.visited = after.visited \union {id}]]
  BY Zenon DEF Turn, Inside, id
<1>10. Turn(visit, depends, at) =
         LET others == Others(at, at.visited)
             after == visit[Inside(at, depends)]
         IN IF id \in at.visiting THEN [found |-> TRUE, visited |-> at.visited]
            ELSE IF id \in at.visited THEN visit[others]
            ELSE IF after.found THEN after
            ELSE visit[[others EXCEPT !.visited = after.visited \union {id}]]
  BY <1>7, <1>9, Zenon
<1>11. Turn(visit, depends, at) = AnswerAt(visit, depends, at)
  BY <1>8, <1>10, Zenon DEF AnswerAt, id
<1>12. QED
  BY <1>1, <1>3, <1>6, <1>11 DEF id

(* It ends: a call inside has a longer path, or the same and less to do.   *)
Weight(ids, at) == Cardinality(ids \ at.visiting) * (Cardinality(ids) + 1) + Cardinality(at.todo)

LEMMA Lighter ==
  ASSUME NEW a \in Nat, NEW n \in Nat, NEW t \in 0..n, NEW u \in Nat
  PROVE  a * (n + 1) + t < (a + 1) * (n + 1) + u
<1>1. (a + 1) * (n + 1) = a * (n + 1) + (n + 1) /\ a * (n + 1) \in Nat
  OBVIOUS
<1>2. QED
  BY <1>1

LEMMA Stretched ==
  ASSUME NEW a \in Nat, NEW n \in Nat, a <= n
  PROVE  a * (n + 1) <= n * (n + 1)
<1>1. n = a + (n - a) /\ n - a \in Nat /\ (n - a) * (n + 1) \in Nat
  OBVIOUS
<1>2. (a + (n - a)) * (n + 1) = a * (n + 1) + (n - a) * (n + 1)
  OBVIOUS
<1>3. a * (n + 1) \in Nat
  OBVIOUS
<1>4. QED
  BY <1>1, <1>2, <1>3

LEMMA WeightTypes ==
  ASSUME NEW ids, IsFiniteSet(ids), NEW at \in Searching(ids)
  PROVE  /\ Weight(ids, at) \in Nat
         /\ Weight(ids, at) < Weight(ids, Start(ids)) + 1
<1>1. at.todo \in SUBSET ids /\ at.visiting \in SUBSET ids
  BY DEF Searching
<1>2. /\ Cardinality(ids) \in Nat /\ Cardinality(at.todo) \in Nat
      /\ Cardinality(ids \ at.visiting) \in Nat
      /\ Cardinality(at.todo) <= Cardinality(ids)
      /\ Cardinality(ids \ at.visiting) <= Cardinality(ids)
  BY <1>1, FS_Subset, FS_CardinalityType
<1> DEFINE a == Cardinality(ids \ at.visiting)
           n == Cardinality(ids)
           t == Cardinality(at.todo)
<1>3. Weight(ids, at) = a * (n + 1) + t
  BY DEF Weight
<1>4. Weight(ids, Start(ids)) = n * (n + 1) + n
  <2>1. ids \ {} = ids
    OBVIOUS
  <2>2. QED
    BY <2>1 DEF Weight, Start
<1>5. a \in Nat /\ n \in Nat /\ t \in Nat /\ a <= n /\ t <= n
  BY <1>2
<1> HIDE DEF a, n, t
<1>6. a * (n + 1) \in Nat /\ n * (n + 1) \in Nat
  BY <1>5
<1>7. a * (n + 1) <= n * (n + 1)
  BY <1>5, Stretched
<1>8. QED
  BY <1>3, <1>4, <1>5, <1>6, <1>7

LEMMA Shrinks ==
  ASSUME NEW ids, IsFiniteSet(ids), NEW depends \in [ids -> SUBSET ids],
         NEW at \in Searching(ids), at.todo # {}
  PROVE  /\ \A visited : Weight(ids, Others(at, visited)) < Weight(ids, at)
         /\ NextOf(at.todo) \notin at.visiting =>
              Weight(ids, Inside(at, depends)) < Weight(ids, at)
<1> DEFINE id == NextOf(at.todo)
           rest == ids \ at.visiting
           n == Cardinality(ids)
<1>1. at.todo \in SUBSET ids /\ at.visiting \in SUBSET ids /\ id \in at.todo /\ id \in ids
  BY NextIs DEF Searching
<1>2. /\ n \in Nat /\ Cardinality(at.todo) \in Nat /\ Cardinality(rest) \in Nat
      /\ IsFiniteSet(at.todo) /\ IsFiniteSet(rest)
  BY <1>1, FS_Subset, FS_CardinalityType
<1>3. Weight(ids, at) = Cardinality(rest) * (n + 1) + Cardinality(at.todo)
  BY DEF Weight
<1>4. ASSUME NEW visited PROVE Weight(ids, Others(at, visited)) < Weight(ids, at)
  <2>1. Cardinality(at.todo \ {id}) = Cardinality(at.todo) - 1
    BY <1>1, <1>2, FS_RemoveElement
  <2>2. Weight(ids, Others(at, visited)) = Cardinality(rest) * (n + 1) + Cardinality(at.todo \ {id})
    BY DEF Weight, Others
  <2> HIDE DEF rest, n
  <2>3. Cardinality(rest) * (n + 1) \in Nat
    BY <1>2
  <2>4. QED
    BY <1>2, <1>3, <2>1, <2>2, <2>3
<1>5. ASSUME id \notin at.visiting PROVE Weight(ids, Inside(at, depends)) < Weight(ids, at)
  <2> DEFINE a == Cardinality(rest \ {id})
  <2>1. id \in rest /\ IsFiniteSet(rest \ {id}) /\ a \in Nat
    BY <1>1, <1>2, <1>5, FS_Subset, FS_CardinalityType
  <2>2. Cardinality(rest) = a + 1
    <3>1. Cardinality(rest \ {id}) = Cardinality(rest) - 1
      BY <1>2, <2>1, FS_RemoveElement
    <3>2. QED
      BY <1>2, <3>1
  <2>3. ids \ (at.visiting \union {id}) = rest \ {id}
    OBVIOUS
  <2>4. depends[id] \in SUBSET ids
    BY <1>1
  <2>5. Cardinality(depends[id]) \in 0..n
    <3>1. Cardinality(depends[id]) \in Nat /\ Cardinality(depends[id]) <= n
      BY <2>4, FS_Subset, FS_CardinalityType
    <3>2. QED
      BY <1>2, <3>1
  <2>6. Weight(ids, Inside(at, depends)) = a * (n + 1) + Cardinality(depends[id])
    BY <2>3 DEF Weight, Inside
  <2> HIDE DEF a, n, rest, id
  <2>7. a * (n + 1) + Cardinality(depends[id]) < (a + 1) * (n + 1) + Cardinality(at.todo)
    BY <1>2, <2>1, <2>5, Lighter
  <2>8. QED
    BY <1>3, <2>2, <2>6, <2>7
<1>6. QED
  BY <1>4, <1>5

LEMMA TurnTypes ==
  ASSUME NEW ids, NEW depends \in [ids -> SUBSET ids],
         NEW visit \in [Searching(ids) -> Answers(ids)], NEW at \in Searching(ids)
  PROVE  Turn(visit, depends, at) \in Answers(ids)
<1>1. at.visited \in SUBSET ids
  BY DEF Searching
<1>2. CASE at.todo = {}
  BY <1>1, <1>2 DEF Turn, Answers
<1>3. CASE at.todo # {}
  <2> DEFINE after == visit[Inside(at, depends)]
  <2>1. /\ NextOf(at.todo) \in ids /\ Inside(at, depends) \in Searching(ids)
        /\ \A visited \in SUBSET ids : Others(at, visited) \in Searching(ids)
        /\ Turn(visit, depends, at) = AnswerAt(visit, depends, at)
    BY <1>3, TurnIs
  <2>2. after \in Answers(ids) /\ visit[Others(at, at.visited)] \in Answers(ids)
    BY <1>1, <2>1
  <2>3. after.visited \union {NextOf(at.todo)} \in SUBSET ids
    <3> HIDE DEF after
    <3> QED BY <2>1, <2>2 DEF Answers
  <2>4. visit[Others(at, after.visited \union {NextOf(at.todo)})] \in Answers(ids)
    <3> HIDE DEF after
    <3> QED BY <2>1, <2>3
  <2>5. [found |-> TRUE, visited |-> at.visited] \in Answers(ids)
    BY <1>1 DEF Answers
  <2>6. AnswerAt(visit, depends, at) \in Answers(ids)
    BY <2>2, <2>4, <2>5, Zenon DEF AnswerAt
  <2>7. QED
    BY <2>1, <2>6
<1>4. QED
  BY <1>2, <1>3

LEMMA TurnSame ==
  ASSUME NEW ids, IsFiniteSet(ids), NEW depends \in [ids -> SUBSET ids],
         NEW f \in [Searching(ids) -> Answers(ids)], NEW g, NEW at \in Searching(ids),
         \A a \in Searching(ids) : Weight(ids, a) < Weight(ids, at) => g[a] = f[a]
  PROVE  Turn(g, depends, at) = Turn(f, depends, at)
<1>1. at.visited \in SUBSET ids
  BY DEF Searching
<1>2. CASE at.todo = {}
  BY <1>2 DEF Turn
<1>3. CASE at.todo # {}
  <2> DEFINE after == f[Inside(at, depends)]
  <2>1. /\ NextOf(at.todo) \in ids /\ Inside(at, depends) \in Searching(ids)
        /\ \A visited \in SUBSET ids : Others(at, visited) \in Searching(ids)
    BY <1>3, TurnIs
  <2>2. /\ Turn(g, depends, at) = AnswerAt(g, depends, at)
        /\ Turn(f, depends, at) = AnswerAt(f, depends, at)
    BY <1>3, TurnIs
  <2>3. /\ \A visited \in SUBSET ids : g[Others(at, visited)] = f[Others(at, visited)]
        /\ NextOf(at.todo) \notin at.visiting => g[Inside(at, depends)] = after
    BY <1>3, <2>1, Shrinks
  <2>4. after.visited \union {NextOf(at.todo)} \in SUBSET ids
    <3>1. after \in Answers(ids)
      BY <2>1
    <3> HIDE DEF after
    <3>2. QED
      BY <2>1, <3>1 DEF Answers
  <2>5. AnswerAt(g, depends, at) = AnswerAt(f, depends, at)
    BY <1>1, <2>3, <2>4, Zenon DEF AnswerAt
  <2>6. QED
    BY <2>2, <2>5
<1>4. QED
  BY <1>2, <1>3

LEMMA SearchExists ==
  ASSUME NEW ids, IsFiniteSet(ids), NEW depends \in [ids -> SUBSET ids]
  PROVE  \E visit : Searches(visit, ids, depends)
<1> DEFINE Visits == [Searching(ids) -> Answers(ids)]
           Good(n, visit) ==
             \A at \in Searching(ids) : Weight(ids, at) < n => visit[at] = Turn(visit, depends, at)
           T == {n \in Nat : \E visit \in Visits : Good(n, visit)}
<1>1. 0 \in T
  <2> DEFINE f == [at \in Searching(ids) |-> [found |-> TRUE, visited |-> {}]]
  <2>1. f \in Visits
    BY DEF Answers
  <2>2. Good(0, f)
    <3>1. ASSUME NEW at \in Searching(ids) PROVE ~(Weight(ids, at) < 0)
      BY WeightTypes
    <3>2. QED
      BY <3>1
  <2> HIDE DEF f, Good
  <2>3. QED
    BY <2>1, <2>2
<1>2. ASSUME NEW n \in Nat, n \in T PROVE n + 1 \in T
  <2>1. PICK f \in Visits : Good(n, f)
    BY <1>2
  <2> DEFINE g == [at \in Searching(ids) |-> Turn(f, depends, at)]
  <2>2. g \in Visits /\ \A at \in Searching(ids) : g[at] = Turn(f, depends, at)
    BY TurnTypes
  <2> HIDE DEF g
  <2>3. ASSUME NEW at \in Searching(ids), Weight(ids, at) < n + 1
        PROVE  g[at] = Turn(g, depends, at)
    <3>1. ASSUME NEW a \in Searching(ids), Weight(ids, a) < Weight(ids, at)
          PROVE  g[a] = f[a]
      <4>1. Weight(ids, a) < n
        BY <2>3, <3>1, WeightTypes
      <4>2. QED
        BY <2>1, <2>2, <4>1
    <3>2. Turn(g, depends, at) = Turn(f, depends, at)
      BY <3>1, TurnSame
    <3>3. QED
      BY <2>2, <3>2
  <2>4. Good(n + 1, g)
    BY <2>3
  <2> HIDE DEF Good
  <2>5. QED
    BY <2>2, <2>4
<1>3. Nat \subseteq T
  <2> HIDE DEF T
  <2> QED BY <1>1, <1>2, SetInduction
<1> DEFINE top == Weight(ids, Start(ids)) + 1
<1>4. top \in Nat /\ \A at \in Searching(ids) : Weight(ids, at) < top
  <2>1. Start(ids) \in Searching(ids)
    BY DEF Start, Searching
  <2>2. Weight(ids, Start(ids)) \in Nat
    BY <2>1, WeightTypes
  <2>3. QED
    BY <2>2, WeightTypes
<1> HIDE DEF top
<1>5. PICK f \in Visits : Good(top, f)
  <2>1. top \in T
    <3> HIDE DEF T
    <3> QED BY <1>3, <1>4
  <2> HIDE DEF Good
  <2>2. QED
    BY <2>1
<1>6. f = [at \in Searching(ids) |-> Turn(f, depends, at)]
  <2>1. \A at \in Searching(ids) : f[at] = Turn(f, depends, at)
    BY <1>4, <1>5
  <2>2. QED
    BY <2>1
<1>7. Searches(f, ids, depends)
  BY <1>6 DEF Searches
<1>8. QED
  BY <1>7

(* What the plan's search is, then.                                        *)
LEMMA HasCycleSearches ==
  ASSUME NEW plan_, IsFiniteSet(IdsOf(plan_)),
         DependenciesOf(plan_) \in [IdsOf(plan_) -> SUBSET IdsOf(plan_)]
  PROVE  \E visit :
           /\ HasCycle(plan_) = visit[Start(IdsOf(plan_))].found
           /\ \A at \in Searching(IdsOf(plan_)) :
                visit[at] = Turn(visit, DependenciesOf(plan_), at)
<1> DEFINE ids == IdsOf(plan_)
           depends == DependenciesOf(plan_)
           visit == CHOOSE visit : Searches(visit, ids, depends)
<1>1. HasCycle(plan_) = visit[Start(ids)].found
  BY HasCycleIs
<1> HIDE DEF ids, depends
<1>2. \E v : Searches(v, ids, depends)
  BY SearchExists DEF ids, depends
<1>3. Searches(visit, ids, depends)
  BY <1>2
<1> HIDE DEF visit
<1>4. \A at \in Searching(ids) : visit[at] = Turn(visit, depends, at)
  BY <1>3 DEF Searches
<1>5. QED
  BY <1>1, <1>4 DEF ids, depends

-----------------------------------------------------------------------------
(* A core: steps of which each waits for another of them.  There is none   *)
(* in what was searched, and the path is one when a step of it comes up    *)
(* again.                                                                  *)
Core(depends, C) == C # {} /\ \A c \in C : depends[c] \intersect C # {}

Searched(depends, visited) ==
  /\ \A v \in visited : depends[v] \subseteq visited
  /\ \A C \in SUBSET visited : ~Core(depends, C)

Path(depends, at) ==
  \/ at.visiting = {}
  \/ \E end \in at.visiting :
       /\ at.todo \subseteq depends[end]
       /\ \A v \in at.visiting \ {end} : depends[v] \intersect at.visiting # {}

LEMMA SearchedGrows ==
  ASSUME NEW depends, NEW visited, NEW id, id \notin visited,
         Searched(depends, visited), depends[id] \subseteq visited
  PROVE  Searched(depends, visited \union {id})
<1>1. \A v \in visited \union {id} : depends[v] \subseteq visited \union {id}
  BY DEF Searched
<1>2. ASSUME NEW C \in SUBSET (visited \union {id}), Core(depends, C) PROVE FALSE
  <2>1. CASE id \notin C
    <3>1. C \in SUBSET visited
      BY <2>1
    <3>2. QED
      BY <1>2, <3>1 DEF Searched
  <2>2. CASE id \in C
    <3> DEFINE D == C \ {id}
    <3>1. D \in SUBSET visited
      OBVIOUS
    <3>2. \A c \in C : depends[c] \intersect C \subseteq D
      BY DEF Searched
    <3>3. \A c \in C : depends[c] \intersect C # {}
      BY <1>2 DEF Core
    <3>4. Core(depends, D)
      BY <2>2, <3>2, <3>3 DEF Core
    <3>5. QED
      BY <3>1, <3>4 DEF Searched
  <2>3. QED
    BY <2>1, <2>2
<1>3. QED
  BY <1>1, <1>2 DEF Searched

(* The search says yes for a core only, and no for what has none.          *)
Sound(ids, depends, at, answer) ==
  /\ answer \in Answers(ids)
  /\ Path(depends, at) /\ answer.found => \E C \in SUBSET ids : Core(depends, C)
  /\ Searched(depends, at.visited) /\ at.visited \intersect at.visiting = {} /\ ~answer.found =>
       /\ Searched(depends, answer.visited) /\ answer.visited \intersect at.visiting = {}
       /\ at.visited \subseteq answer.visited /\ at.todo \subseteq answer.visited

LEMMA TurnSound ==
  ASSUME NEW ids, IsFiniteSet(ids), NEW depends \in [ids -> SUBSET ids], NEW visit,
         NEW at \in Searching(ids),
         \A a \in Searching(ids) :
           Weight(ids, a) < Weight(ids, at) => Sound(ids, depends, a, visit[a])
  PROVE  Sound(ids, depends, at, Turn(visit, depends, at))
<1>1. at.todo \in SUBSET ids /\ at.visiting \in SUBSET ids /\ at.visited \in SUBSET ids
  BY DEF Searching
<1>2. CASE at.todo = {}
  <2>1. Turn(visit, depends, at) = [found |-> FALSE, visited |-> at.visited]
    BY <1>2 DEF Turn
  <2>2. Turn(visit, depends, at) \in Answers(ids)
    BY <1>1, <2>1 DEF Answers
  <2>3. QED
    BY <1>2, <2>1, <2>2 DEF Sound
<1>3. CASE at.todo # {}
  <2> DEFINE id == NextOf(at.todo)
             after == visit[Inside(at, depends)]
             others(visited) == visit[Others(at, visited)]
  <2>1. /\ id \in at.todo /\ id \in ids /\ Inside(at, depends) \in Searching(ids)
        /\ \A visited \in SUBSET ids : Others(at, visited) \in Searching(ids)
        /\ Turn(visit, depends, at) = AnswerAt(visit, depends, at)
    BY <1>3, TurnIs
  <2>2. /\ \A visited \in SUBSET ids : Sound(ids, depends, Others(at, visited), others(visited))
        /\ id \notin at.visiting => Sound(ids, depends, Inside(at, depends), after)
    BY <1>3, <2>1, Shrinks
  <2>3. /\ \A visited : /\ Others(at, visited).todo = (at.todo \ {id})
                        /\ Others(at, visited).visiting = at.visiting
                        /\ Others(at, visited).visited = visited
        /\ Inside(at, depends).todo = depends[id]
        /\ Inside(at, depends).visiting = at.visiting \union {id}
        /\ Inside(at, depends).visited = at.visited
    BY DEF Others, Inside
  <2>4. AnswerAt(visit, depends, at) =
          IF id \in at.visiting THEN [found |-> TRUE, visited |-> at.visited]
          ELSE IF id \in at.visited THEN others(at.visited)
          ELSE IF after.found THEN after
          ELSE others(after.visited \union {id})
    BY Zenon DEF AnswerAt
  <2> DEFINE answer == Turn(visit, depends, at)
  <2> HIDE DEF id, after, others, answer
  <2>5. \A visited : Path(depends, at) => Path(depends, Others(at, visited))
    BY <2>3 DEF Path
  <2>6. Path(depends, at) => Path(depends, Inside(at, depends))
    <3>1. SUFFICES ASSUME Path(depends, at) PROVE Path(depends, Inside(at, depends))
      OBVIOUS
    <3>2. \A v \in at.visiting : depends[v] \intersect (at.visiting \union {id}) # {}
      BY <2>1, <3>1 DEF Path
    <3>3. QED
      BY <2>3, <3>2 DEF Path
  <2>7. CASE id \in at.visiting
    <3>1. answer.found = TRUE
      BY <2>1, <2>4, <2>7 DEF answer
    <3>2. Path(depends, at) => Core(depends, at.visiting)
      BY <2>1, <2>7 DEF Path, Core
    <3>3. answer \in Answers(ids)
      BY <1>1, <2>1, <2>4, <2>7 DEF Answers, answer
    <3>4. QED
      BY <1>1, <3>1, <3>2, <3>3 DEF Sound, answer
  <2>8. CASE id \notin at.visiting /\ id \in at.visited
    <3>1. answer = others(at.visited)
      BY <2>1, <2>4, <2>8 DEF answer
    <3>2. Sound(ids, depends, Others(at, at.visited), answer)
      BY <1>1, <2>2, <3>1
    <3>3. QED
      BY <2>3, <2>5, <2>8, <3>2 DEF Sound, answer
  <2>9. CASE id \notin at.visiting /\ id \notin at.visited
    <3>1. Sound(ids, depends, Inside(at, depends), after)
      BY <2>2, <2>9
    <3>2. CASE after.found
      <4>1. answer = after
        BY <2>1, <2>4, <2>9, <3>2 DEF answer
      <4>2. Path(depends, at) => \E C \in SUBSET ids : Core(depends, C)
        BY <2>6, <3>1, <3>2 DEF Sound
      <4>3. QED
        BY <3>1, <3>2, <4>1, <4>2 DEF Sound, answer
    <3>3. CASE ~after.found
      <4> DEFINE known == after.visited \union {id}
      <4>1. known \in SUBSET ids
        BY <2>1, <3>1 DEF Sound, Answers
      <4>2. answer = others(known)
        BY <2>1, <2>4, <2>9, <3>3 DEF answer
      <4>3. Sound(ids, depends, Others(at, known), answer)
        BY <2>2, <4>1, <4>2
      <4>4. ASSUME Searched(depends, at.visited), at.visited \intersect at.visiting = {}
            PROVE  /\ Searched(depends, known) /\ known \intersect at.visiting = {}
                   /\ at.visited \subseteq known /\ id \in known
        <5>1. at.visited \intersect (at.visiting \union {id}) = {}
          BY <2>9, <4>4
        <5>2. /\ Searched(depends, after.visited)
              /\ after.visited \intersect (at.visiting \union {id}) = {}
              /\ at.visited \subseteq after.visited /\ depends[id] \subseteq after.visited
          BY <2>3, <3>1, <3>3, <4>4, <5>1 DEF Sound
        <5>3. Searched(depends, known)
          BY <5>2, SearchedGrows
        <5>4. QED
          BY <2>9, <5>2, <5>3
      <4> HIDE DEF known
      <4>5. QED
        BY <2>3, <2>5, <4>3, <4>4 DEF Sound, answer
    <3>4. QED
      BY <3>2, <3>3
  <2>10. QED
    BY <2>7, <2>8, <2>9
<1>4. QED
  BY <1>2, <1>3

LEMMA SearchSound ==
  ASSUME NEW ids, IsFiniteSet(ids), NEW depends \in [ids -> SUBSET ids], NEW visit,
         \A at \in Searching(ids) : visit[at] = Turn(visit, depends, at)
  PROVE  visit[Start(ids)].found <=> \E C \in SUBSET ids : Core(depends, C)
<1> DEFINE Good(n) ==
             \A at \in Searching(ids) : Weight(ids, at) < n => Sound(ids, depends, at, visit[at])
           T == {n \in Nat : Good(n)}
<1>1. 0 \in T
  <2>1. ASSUME NEW at \in Searching(ids) PROVE ~(Weight(ids, at) < 0)
    BY WeightTypes
  <2>2. QED
    BY <2>1
<1>2. ASSUME NEW n \in Nat, n \in T PROVE n + 1 \in T
  <2>1. ASSUME NEW at \in Searching(ids), Weight(ids, at) < n + 1
        PROVE  Sound(ids, depends, at, visit[at])
    <3>1. \A a \in Searching(ids) :
            Weight(ids, a) < Weight(ids, at) => Sound(ids, depends, a, visit[a])
      <4> TAKE a \in Searching(ids)
      <4> HAVE Weight(ids, a) < Weight(ids, at)
      <4>1. Weight(ids, a) < n
        BY <2>1, WeightTypes
      <4>2. QED
        BY <1>2, <4>1
    <3>2. Sound(ids, depends, at, Turn(visit, depends, at))
      BY <3>1, TurnSound
    <3>3. QED
      BY <3>2
  <2>2. QED
    BY <2>1
<1>3. Nat \subseteq T
  <2> HIDE DEF T
  <2> QED BY <1>1, <1>2, SetInduction
<1>4. Start(ids) \in Searching(ids)
  BY DEF Start, Searching
<1>5. Sound(ids, depends, Start(ids), visit[Start(ids)])
  <2>1. Weight(ids, Start(ids)) + 1 \in Nat
    BY <1>4, WeightTypes
  <2>2. Weight(ids, Start(ids)) + 1 \in T
    <3> HIDE DEF T
    <3> QED BY <1>3, <2>1
  <2>3. QED
    BY <1>4, <2>2, WeightTypes
<1>6. Start(ids).todo = ids /\ Start(ids).visiting = {} /\ Start(ids).visited = {}
  BY DEF Start
<1>7. Path(depends, Start(ids)) /\ Searched(depends, {})
  BY <1>6 DEF Path, Searched, Core
<1> DEFINE answer == visit[Start(ids)]
<1>8. answer.found => \E C \in SUBSET ids : Core(depends, C)
  BY <1>5, <1>7 DEF Sound
<1>9. ~answer.found => Searched(depends, answer.visited) /\ ids \subseteq answer.visited
  BY <1>5, <1>6, <1>7 DEF Sound
<1>10. ~answer.found => ~\E C \in SUBSET ids : Core(depends, C)
  BY <1>9 DEF Searched
<1>11. QED
  BY <1>8, <1>10

-----------------------------------------------------------------------------
(* Sorting takes what is ready until nothing is left.                      *)
ReadyIn(depends, pending) == {id \in pending : depends[id] \intersect pending = {}}

Sorts(sorts, ids, depends) ==
  \A pending \in SUBSET ids :
    sorts[pending] = \/ pending = {}
                     \/ ReadyIn(depends, pending) # {} /\ sorts[pending \ ReadyIn(depends, pending)]

SortsBy(sorts, ids, depends) ==
  sorts = [pending \in SUBSET ids |->
             \/ pending = {}
             \/ ReadyIn(depends, pending) # {} /\ sorts[pending \ ReadyIn(depends, pending)]]

LEMMA Remains ==
  ASSUME NEW ids, IsFiniteSet(ids), NEW depends, NEW pending \in SUBSET ids
  PROVE  /\ Cardinality(pending) \in Nat /\ Cardinality(pending) < Cardinality(ids) + 1
         /\ pending \ ReadyIn(depends, pending) \in SUBSET ids
         /\ ReadyIn(depends, pending) # {} =>
              Cardinality(pending \ ReadyIn(depends, pending)) < Cardinality(pending)
<1> DEFINE rest == pending \ ReadyIn(depends, pending)
<1>1. /\ IsFiniteSet(pending) /\ Cardinality(pending) \in Nat /\ Cardinality(ids) \in Nat
      /\ Cardinality(pending) <= Cardinality(ids)
  BY FS_Subset, FS_CardinalityType
<1>2. rest \in SUBSET pending
  OBVIOUS
<1>3. ReadyIn(depends, pending) # {} => rest # pending
  BY DEF ReadyIn
<1> HIDE DEF rest
<1>4. IsFiniteSet(rest) /\ Cardinality(rest) \in Nat
      /\ Cardinality(rest) <= Cardinality(pending)
      /\ (Cardinality(rest) = Cardinality(pending) => rest = pending)
  BY <1>1, <1>2, FS_Subset, FS_CardinalityType
<1>5. ReadyIn(depends, pending) # {} => Cardinality(rest) < Cardinality(pending)
  BY <1>1, <1>3, <1>4
<1>6. QED
  BY <1>1, <1>2, <1>5 DEF rest

LEMMA SortExists ==
  ASSUME NEW ids, IsFiniteSet(ids), NEW depends
  PROVE  \E sorts : SortsBy(sorts, ids, depends)
<1> DEFINE left(pending) == pending \ ReadyIn(depends, pending)
           turn(f) == [pending \in SUBSET ids |->
                         pending = {} \/ (ReadyIn(depends, pending) # {} /\ f[left(pending)])]
           Good(n, f) == \A pending \in SUBSET ids :
                           Cardinality(pending) < n => f[pending] = turn(f)[pending]
           T == {n \in Nat : \E f : Good(n, f)}
<1>0. \A pending \in SUBSET ids :
        Cardinality(pending) \in Nat /\ Cardinality(pending) < Cardinality(ids) + 1
  BY Remains
<1>1. 0 \in T
  <2>1. \A pending \in SUBSET ids : ~(Cardinality(pending) < 0)
    BY <1>0
  <2>2. Good(0, {})
    BY <2>1
  <2> HIDE DEF Good
  <2>3. QED
    BY <2>2
<1>2. ASSUME NEW n \in Nat, n \in T PROVE n + 1 \in T
  <2>1. PICK f : Good(n, f)
    BY <1>2
  <2> DEFINE g == turn(f)
  <2>2. ASSUME NEW pending \in SUBSET ids, Cardinality(pending) < n + 1
        PROVE  g[pending] = turn(g)[pending]
    <3> DEFINE rest == left(pending)
               ready == ReadyIn(depends, pending)
    <3>1. rest \in SUBSET ids /\ (ready # {} => Cardinality(rest) < Cardinality(pending))
      BY Remains
    <3>2. ready # {} => Cardinality(rest) < n
      <4> HIDE DEF rest, ready
      <4>1. Cardinality(rest) \in Nat /\ Cardinality(pending) \in Nat
        BY <1>0, <3>1
      <4>2. QED
        BY <2>2, <3>1, <4>1
    <3>3. ready # {} => g[rest] = f[rest]
      <4> HIDE DEF ready
      <4> QED BY <2>1, <3>1, <3>2
    <3>4. QED
      BY <3>3
  <2>3. Good(n + 1, g)
    BY <2>2
  <2> HIDE DEF Good
  <2>4. QED
    BY <2>3
<1>3. Nat \subseteq T
  <2> HIDE DEF T
  <2> QED BY <1>1, <1>2, SetInduction
<1>4. Cardinality(ids) + 1 \in T
  <2>1. Cardinality(ids) \in Nat
    BY FS_CardinalityType
  <2> HIDE DEF T
  <2>2. QED
    BY <1>3, <2>1
<1>5. PICK f : Good(Cardinality(ids) + 1, f)
  <2> HIDE DEF Good
  <2> QED BY <1>4
<1>6. \A pending \in SUBSET ids : f[pending] = turn(f)[pending]
  <2>1. \A pending \in SUBSET ids : Cardinality(pending) < Cardinality(ids) + 1
    BY <1>0
  <2>2. QED
    BY <1>5, <2>1
<1>7. turn(f) = turn(turn(f))
  <2>1. ASSUME NEW pending \in SUBSET ids
        PROVE  turn(f)[pending] = turn(turn(f))[pending]
    <3>1. left(pending) \in SUBSET ids
      OBVIOUS
    <3>2. turn(f)[left(pending)] = f[left(pending)]
      BY <1>6, <3>1
    <3>3. QED
      BY <3>2
  <2>2. QED
    BY <2>1
<1>8. SortsBy(turn(f), ids, depends)
  BY <1>7 DEF SortsBy
<1>9. QED
  BY <1>8

LEMMA SortSound ==
  ASSUME NEW ids, IsFiniteSet(ids), NEW depends \in [ids -> SUBSET ids], NEW sorts,
         Sorts(sorts, ids, depends)
  PROVE  sorts[ids] <=> ~\E C \in SUBSET ids : Core(depends, C)
<1> DEFINE Right(pending) == sorts[pending] <=> ~\E C \in SUBSET pending : Core(depends, C)
           Good(n) == \A pending \in SUBSET ids : Cardinality(pending) < n => Right(pending)
           T == {n \in Nat : Good(n)}
<1>1. ASSUME NEW pending \in SUBSET ids
      PROVE  /\ Cardinality(pending) \in Nat /\ Cardinality(pending) <= Cardinality(ids)
             /\ \A rest \in SUBSET pending :
                  rest # pending => Cardinality(rest) < Cardinality(pending)
  BY FS_Subset, FS_CardinalityType
<1>2. 0 \in T
  <2>1. \A pending \in SUBSET ids : ~(Cardinality(pending) < 0)
    BY <1>1
  <2>2. QED
    BY <2>1
<1>3. ASSUME NEW n \in Nat, n \in T PROVE n + 1 \in T
  <2>1. ASSUME NEW pending \in SUBSET ids, Cardinality(pending) < n + 1
        PROVE  Right(pending)
    <3> DEFINE ready == ReadyIn(depends, pending)
               rest == pending \ ready
    <3>1. CASE pending = {}
      BY <3>1 DEF Sorts, Core
    <3>2. CASE pending # {} /\ ready = {}
      <4>1. Core(depends, pending)
        BY <3>2 DEF ReadyIn, Core
      <4>2. ~sorts[pending]
        BY <3>2 DEF Sorts
      <4>3. QED
        BY <4>1, <4>2
    <3>3. CASE ready # {}
      <4>1. ready \subseteq pending /\ rest \in SUBSET pending /\ rest # pending /\ rest \in SUBSET ids
        BY <3>3 DEF ReadyIn
      <4>2. Cardinality(rest) < n
        BY <1>1, <2>1, <4>1
      <4>3. Right(rest)
        BY <1>3, <4>1, <4>2
      <4>4. sorts[pending] <=> sorts[rest]
        <5>1. sorts[pending] = (pending = {} \/ (ready # {} /\ sorts[rest]))
          BY DEF Sorts
        <5>2. pending # {}
          BY <3>3 DEF ReadyIn
        <5> HIDE DEF ready, rest
        <5>3. QED
          BY <3>3, <5>1, <5>2
      <4>5. \A C \in SUBSET pending : Core(depends, C) => C \in SUBSET rest
        BY DEF Core, ReadyIn
      <4>6. QED
        BY <4>1, <4>3, <4>4, <4>5
    <3>4. QED
      BY <3>1, <3>2, <3>3
  <2> HIDE DEF Right
  <2>2. QED
    BY <2>1
<1>4. Nat \subseteq T
  <2> HIDE DEF T
  <2> QED BY <1>2, <1>3, SetInduction
<1>5. Right(ids)
  <2>1. Cardinality(ids) \in Nat /\ Cardinality(ids) < Cardinality(ids) + 1
    BY FS_CardinalityType
  <2>2. Cardinality(ids) + 1 \in T
    <3> HIDE DEF T
    <3> QED BY <1>4, <2>1
  <2> HIDE DEF Right
  <2>3. QED
    BY <2>1, <2>2
<1>6. QED
  BY <1>5

-----------------------------------------------------------------------------
(* The graph of a plan whose steps have ids of their own and depend on one *)
(* another only.                                                           *)
OwnIds(plan_) ==
  /\ plan_ \in Seq(StepShape)
  /\ \A i, j \in DOMAIN plan_ : plan_[i].id = plan_[j].id => i = j
  /\ \A i \in DOMAIN plan_ : plan_[i].dependsOn \subseteq IdsOf(plan_)

LEMMA PlanGraph ==
  ASSUME NEW plan_, OwnIds(plan_)
  PROVE  /\ IsFiniteSet(IdsOf(plan_))
         /\ DependenciesOf(plan_) \in [IdsOf(plan_) -> SUBSET IdsOf(plan_)]
         /\ \A i \in DOMAIN plan_ : DependenciesOf(plan_)[plan_[i].id] = plan_[i].dependsOn
<1> DEFINE ids == IdsOf(plan_)
           at(id) == {j \in 1..Len(plan_) : plan_[j].id = id}
           last(id) == IF at(id) # {} THEN Max(at(id)) ELSE 0
<1>1. Len(plan_) \in Nat /\ DOMAIN plan_ = 1..Len(plan_)
  BY DEF OwnIds
<1>2. IsFiniteSet(ids)
  <2> DEFINE idAt == [i \in 1..Len(plan_) |-> plan_[i].id]
  <2>1. idAt \in Surjection(1..Len(plan_), ids)
    BY <1>1 DEF Surjection, IdsOf
  <2>2. IsFiniteSet(1..Len(plan_))
    BY <1>1, FS_Interval
  <2>3. QED
    BY <2>1, <2>2, FS_Surjection
<1>3. DependenciesOf(plan_) = [id \in ids |-> plan_[last(id)].dependsOn \intersect ids]
  BY Zenon DEF DependenciesOf, SelectLastInSeq
<1>4. ASSUME NEW i \in DOMAIN plan_ PROVE last(plan_[i].id) = i
  <2>1. at(plan_[i].id) = {i}
    BY <1>1 DEF OwnIds
  <2>2. Max({i}) = i
    BY <1>1 DEF Max
  <2>3. QED
    BY <2>1, <2>2
<1> HIDE DEF last
<1>5. \A i \in DOMAIN plan_ : plan_[i].id \in ids /\ plan_[i].dependsOn \subseteq ids
  BY DEF OwnIds, IdsOf
<1>6. QED
  BY <1>2, <1>3, <1>4, <1>5

LEMMA HasCycleIsCore ==
  ASSUME NEW plan_, OwnIds(plan_)
  PROVE  HasCycle(plan_) <=> \E C \in SUBSET IdsOf(plan_) : Core(DependenciesOf(plan_), C)
<1>1. /\ IsFiniteSet(IdsOf(plan_))
      /\ DependenciesOf(plan_) \in [IdsOf(plan_) -> SUBSET IdsOf(plan_)]
  BY PlanGraph
<1>2. PICK visit :
        /\ HasCycle(plan_) = visit[Start(IdsOf(plan_))].found
        /\ \A at \in Searching(IdsOf(plan_)) : visit[at] = Turn(visit, DependenciesOf(plan_), at)
  BY <1>1, HasCycleSearches
<1>3. visit[Start(IdsOf(plan_))].found
        <=> \E C \in SUBSET IdsOf(plan_) : Core(DependenciesOf(plan_), C)
  BY <1>1, <1>2, SearchSound
<1>4. QED
  BY <1>2, <1>3

LEMMA SortableIsCoreless ==
  ASSUME OwnIds(plan)
  PROVE  Sortable <=> ~\E C \in SUBSET IdsOf(plan) : Core(DependenciesOf(plan), C)
<1> DEFINE ids == IdsOf(plan)
           depends == DependenciesOf(plan)
           ready(pending) ==
             {id \in pending : \A i \in DOMAIN plan :
                                 plan[i].id = id => plan[i].dependsOn \subseteq ids \ pending}
           sorting(f, p) == p = {} \/ (ready(p) # {} /\ f[p \ ready(p)])
           sorts == CHOOSE f : f = [pending \in SUBSET ids |->
                      pending = {} \/ (ready(pending) # {} /\ f[pending \ ready(pending)])]
<1>1. Sortable = sorts[ids]
  BY Zenon DEF Sortable
<1>2. /\ IsFiniteSet(ids) /\ depends \in [ids -> SUBSET ids]
      /\ \A i \in DOMAIN plan : depends[plan[i].id] = plan[i].dependsOn
  BY PlanGraph
<1>3. ASSUME NEW pending \in SUBSET ids PROVE ready(pending) = ReadyIn(depends, pending)
  <2>1. \A i \in DOMAIN plan : plan[i].dependsOn \subseteq ids
    BY DEF OwnIds
  <2>2. ASSUME NEW id \in pending
        PROVE  (\A i \in DOMAIN plan :
                  plan[i].id = id => plan[i].dependsOn \subseteq ids \ pending)
               <=> depends[id] \intersect pending = {}
    <3>1. PICK i \in DOMAIN plan : plan[i].id = id
      BY DEF IdsOf
    <3>2. \A j \in DOMAIN plan : plan[j].id = id => j = i
      BY <3>1 DEF OwnIds
    <3>3. depends[id] = plan[i].dependsOn
      BY <1>2, <3>1
    <3>4. QED
      BY <2>1, <3>1, <3>2, <3>3
  <2>3. QED
    BY <2>2 DEF ReadyIn
<1> HIDE DEF ready, ids, depends
<1>4. PICK f : SortsBy(f, ids, depends)
  BY <1>2, SortExists
<1>5. [pending \in SUBSET ids |->
         \/ pending = {}
         \/ /\ ReadyIn(depends, pending) # {}
            /\ f[pending \ ReadyIn(depends, pending)]]
      = [pending \in SUBSET ids |->
           pending = {} \/ (ready(pending) # {} /\ f[pending \ ready(pending)])]
  BY <1>3
<1>6. f = [pending \in SUBSET ids |->
             pending = {} \/ (ready(pending) # {} /\ f[pending \ ready(pending)])]
  BY <1>4, <1>5 DEF SortsBy
<1>7. sorts = [pending \in SUBSET ids |->
                 pending = {} \/ (ready(pending) # {} /\ sorts[pending \ ready(pending)])]
  BY <1>6
<1> HIDE DEF sorts
<1>8. Sorts(sorts, ids, depends)
  <2>1. \A pending \in SUBSET ids :
          sorts[pending] = (pending = {} \/ (ready(pending) # {} /\ sorts[pending \ ready(pending)]))
    BY <1>7
  <2>2. ASSUME NEW pending \in SUBSET ids
        PROVE  sorts[pending] = \/ pending = {}
                                \/ /\ ReadyIn(depends, pending) # {}
                                   /\ sorts[pending \ ReadyIn(depends, pending)]
    <3>1. ready(pending) = ReadyIn(depends, pending)
      BY <1>3
    <3>2. QED
      BY <2>1, <3>1
  <2>3. QED
    BY <2>2 DEF Sorts
<1>9. sorts[ids] <=> ~\E C \in SUBSET ids : Core(depends, C)
  BY <1>2, <1>8, SortSound
<1>10. QED
  BY <1>1, <1>9 DEF ids, depends

LEMMA CompiledOwnIds ==
  ASSUME NEW plan_ \in Seq(StepShape), NEW known, Faultless(plan_, known)
  PROVE  OwnIds(Compiled(plan_))
<1> DEFINE compiled == Compiled(plan_)
<1>1. compiled = [i \in DOMAIN plan_ |-> CompiledStep(plan_[i])]
  BY CompiledWhole DEF Faultless
<1>2. compiled \in Seq(StepShape)
  BY CompiledSteps DEF Kept
<1> HIDE DEF compiled
<1>3. DOMAIN compiled = DOMAIN plan_
  BY <1>1
<1>4. ASSUME NEW i \in DOMAIN plan_
      PROVE  compiled[i].id = plan_[i].id /\ compiled[i].dependsOn = plan_[i].dependsOn
  <2>1. plan_[i] \in StepShape
    OBVIOUS
  <2>2. compiled[i] = CompiledStep(plan_[i])
    BY <1>1
  <2>3. QED
    BY <2>1, <2>2, CompiledStepTypes
<1>5. IdsOf(compiled) = IdsOf(plan_)
  BY <1>3, <1>4 DEF IdsOf
<1>6. /\ \A i, j \in DOMAIN plan_ : plan_[i].id = plan_[j].id => i = j
      /\ \A i \in DOMAIN plan_ : plan_[i].dependsOn \subseteq IdsOf(plan_)
  BY FaultlessPlan
<1>7. OwnIds(compiled)
  BY <1>2, <1>3, <1>4, <1>5, <1>6 DEF OwnIds
<1>8. QED
  BY <1>7 DEF compiled

(* What the decision says is about the plan that was proposed.             *)
IssuesInv ==
  \/ policy.issues = {}
  \/ /\ node \in {"gate", "handed_off"}
     /\ Proposal.plan \in Seq(StepShape)
     /\ plan = Compiled(Proposal.plan)
     /\ policy.issues = IssuesOf(Proposal.plan, KnownOfRun)

LEMMA IssuesInvInit == Init => IssuesInv
  BY DEF Init, IssuesInv, Undecided

LEMMA IssuesInvNext == PlanInv /\ IssuesInv /\ [Next]_vars => IssuesInv'
<1> SUFFICES ASSUME PlanInv, IssuesInv, [Next]_vars PROVE IssuesInv'
  OBVIOUS
<1>1. CASE Retrieve \/ Investigate \/ Observe \/ Diagnose
  <2>1. policy' = policy /\ node \notin {"gate", "handed_off"}
    BY <1>1 DEF Retrieve, Investigate, Observe, Diagnose
  <2>2. QED
    BY <2>1 DEF IssuesInv
<1>2. CASE Policy
  <2> DEFINE compiled == Compile(plan, KnownOfRun)
  <2>1. /\ node = "policy" /\ case' = case /\ observed' = observed /\ sources' = sources
        /\ plan' = compiled.plan /\ policy' = Decision(compiled)
        /\ node' = IF compiled.accepted THEN "gate" ELSE "handed_off"
    BY <1>2 DEF Policy
  <2>2. plan = Proposal.plan /\ plan \in Seq(StepShape) /\ \A i \in DOMAIN plan : LegalName(plan[i].id)
    BY <2>1 DEF PlanInv
  <2>3. /\ compiled.plan = Compiled(plan) /\ compiled.issues = IssuesOf(plan, KnownOfRun)
        /\ Decision(compiled).issues = compiled.issues
    BY <2>2, CompileIs, DecisionTypes
  <2> HIDE DEF compiled
  <2>4. Proposal' = Proposal
    BY <2>1, SameProposal
  <2>5. KnownOfRun' = KnownOfRun
    BY <2>1 DEF KnownOfRun, SourceChunks, ObservationContext
  <2>6. node' \in {"gate", "handed_off"}
    BY <2>1
  <2>7. plan' = Compiled(Proposal.plan) /\ policy'.issues = IssuesOf(Proposal.plan, KnownOfRun)
    BY <2>1, <2>2, <2>3
  <2>8. plan' = Compiled(Proposal.plan)' /\ policy'.issues = IssuesOf(Proposal.plan, KnownOfRun)'
    BY <2>4, <2>5, <2>7
  <2>9. QED
    BY <2>2, <2>4, <2>6, <2>8 DEF IssuesInv
<1>3. CASE UNCHANGED vars
  <2>1. /\ case' = case /\ observed' = observed /\ sources' = sources
        /\ node' = node /\ plan' = plan /\ policy' = policy
    BY <1>3 DEF vars
  <2>2. Proposal' = Proposal /\ KnownOfRun' = KnownOfRun
    BY <2>1, SameProposal DEF KnownOfRun, SourceChunks, ObservationContext
  <2>3. QED
    BY <2>1, <2>2 DEF IssuesInv
<1>4. QED
  BY <1>1, <1>2, <1>3 DEF Next

LEMMA IssuesInvHolds == Spec => []IssuesInv
<1>1. QED
  BY PlanInvHolds, IssuesInvInit, IssuesInvNext, PTL DEF Spec

LEMMA AcceptedIffSortableInv == PlanInv /\ IssuesInv => AcceptedIffSortable
<1> SUFFICES ASSUME PlanInv, IssuesInv PROVE AcceptedIffSortable
  OBVIOUS
<1> DEFINE codes == {issue[1] : issue \in Blocking(policy.issues)}
<1>1. ASSUME Accepted PROVE Sortable
  <2>1. /\ Proposal.plan \in Seq(StepShape) /\ Clean(Proposal.plan, KnownOfRun)
        /\ plan = [i \in DOMAIN Proposal.plan |-> CompiledStep(Proposal.plan[i])]
    BY <1>1, AcceptedPlan
  <2>2. plan = Compiled(Proposal.plan)
    BY <2>1, CompiledWhole DEF Clean, Faultless
  <2>3. OwnIds(plan) /\ ~HasCycle(plan)
    BY <2>1, <2>2, CompiledOwnIds DEF Clean
  <2>4. QED
    BY <2>3, HasCycleIsCore, SortableIsCoreless
<1>2. ASSUME policy.issues # {}, codes = {"CYCLIC_PLAN"} PROVE ~Sortable
  <2>1. /\ Proposal.plan \in Seq(StepShape) /\ plan = Compiled(Proposal.plan)
        /\ policy.issues = IssuesOf(Proposal.plan, KnownOfRun)
    BY <1>2 DEF IssuesInv
  <2>2. BlockingCodes(Proposal.plan, KnownOfRun) = {"CYCLIC_PLAN"}
    BY <1>2, <2>1 DEF BlockingCodes
  <2>3. Faultless(Proposal.plan, KnownOfRun) /\ HasCycle(Compiled(Proposal.plan))
    BY <2>2, CodesTell
  <2>4. OwnIds(plan) /\ HasCycle(plan)
    BY <2>1, <2>3, CompiledOwnIds
  <2>5. QED
    BY <2>4, HasCycleIsCore, SortableIsCoreless
<1> HIDE DEF codes
<1>3. QED
  BY <1>1, <1>2 DEF AcceptedIffSortable, codes

(* The search for cycles (_has_cycle) and the sorting (_topological) agree:*)
(* what is accepted can be sorted, what is refused only for its cycle not. *)
THEOREM PlanningAcceptedIffSortable == Spec => []AcceptedIffSortable
<1>1. QED
  BY PlanInvHolds, IssuesInvHolds, AcceptedIffSortableInv, PTL
=============================================================================
