---------------------------- MODULE MCPlanning -----------------------------
(***************************************************************************)
(* Four families of cases, each varying what one part of the planning      *)
(* depends on: the rankings, the ids and dependencies of a draft, its tools*)
(* and inputs on every reading, and the plans of another adapter.          *)
(***************************************************************************)
EXTENDS Planning, TLC

MCText == STRING

MCDocOf == ("RB-101#C01" :> "RB-101") @@ ("RB-310#C01" :> "RB-310") @@ ("RB-310#C02" :> "RB-310")
           @@ ("RB-429#C01" :> "RB-429")
           @@ ("SEC-07#C01" :> "SEC-07") @@ ("OPS-12#C01" :> "OPS-12")

MCChunks == <<"OPS-12#C01", "RB-101#C01", "RB-310#C01", "RB-310#C02", "RB-429#C01",
              "SEC-07#C01">>

MCRoute == ("checkout-api" :> <<"RB-101">>) @@ ("recommendation-api" :> <<"RB-429", "OPS-12">>)
           @@ ("edge-api" :> <<"RB-999">>)

FreshReading == Reading(FaultMetrics["queue_backlog"], 2)

AnyCase ==
  [service |-> "checkout-api", experiment |-> "EXP", dense |-> MCChunks, lexical |-> <<>>,
   weight |-> 52, kind |-> "queue_backlog", reading |-> FreshReading, answer |-> [kind |-> "none"]]

-----------------------------------------------------------------------------
Weights == {DenseWeight("lexical", "strong"), DenseWeight("semantic", "strong"),
            DenseWeight("semantic", "weak")}

(* The lexical ranking has the chunks that share a word with the query. *)
LexicalRankings ==
  {<<>>, Reverse(MCChunks), <<"RB-310#C02">>, <<"SEC-07#C01">>}

DenseRankings == {[i \in DOMAIN MCChunks |-> p[MCChunks[i]]] : p \in Permutations(ToSet(MCChunks))}

RankedCases ==
  {[AnyCase EXCEPT !.service = service, !.dense = dense, !.experiment = "none"] :
     service \in DOMAIN MCRoute, dense \in DenseRankings}
  \union
  {[AnyCase EXCEPT !.dense = dense, !.lexical = lexical, !.experiment = "none"] :
     dense \in DenseRankings, lexical \in LexicalRankings}
  \union
  {[AnyCase EXCEPT !.dense = dense, !.lexical = Reverse(MCChunks), !.weight = weight] :
     dense \in DenseRankings, weight \in Weights}

-----------------------------------------------------------------------------
Id(slug, spelling) == [slug |-> slug, spelling |-> spelling]

Ids == {Id(<<"db">>, "name"), Id(<<"db">>, "short"), Id(<<"db", "3">>, "short"), Id(<<"db", "2">>, "short"),
        Id(<<>>, "short"), Id(<<"x">>, "short")}

Input == [experiment |-> "EXP", wellFormed |-> TRUE, target |-> 0]

DraftStep(id, tool, input, evidence, dependsOn) ==
  [id |-> id, tool |-> tool, input |-> input, evidence |-> evidence, dependsOn |-> dependsOn]

NamedStep(id, on) == DraftStep(id, "query_metrics", Input, {"incident:input"}, on)

NamedDrafts ==
  UNION {LET on == {{}} \union {{id} : id \in {ids[1], ids[2], ids[3]}}
             orName == on \union {{Id(<<"db">>, "name")}}
         IN {<<NamedStep(ids[1], on1), NamedStep(ids[2], on2), NamedStep(ids[3], on3)>> :
               on1 \in on, on2 \in on, on3 \in orName} : ids \in [1..3 -> Ids]}

NamedCases == {[AnyCase EXCEPT !.answer = [kind |-> "draft", draft |-> d]] : d \in NamedDrafts}

-----------------------------------------------------------------------------
(* What may be read: a fresh fault, and one an earlier run worked on. *)
Readings ==
  [kind : FaultKind, metrics : {"fresh", "repaired", "scaled"}, replicas : {2, 5}]

ReadingOf(r) ==
  Reading(CASE r.metrics = "fresh" -> FaultMetrics[r.kind]
            [] r.metrics = "repaired" -> RepairedMetrics(r.kind)
            [] r.metrics = "scaled" -> ScaledInVain(r.kind), r.replicas)

Evidences == {{"incident:input"}, {"obs-metrics"}, {"obs-logs", "RB-101#C01"}, {"obs-logs", "OBS"}}

Inputs == [experiment : {"EXP", "EXP2"}, wellFormed : BOOLEAN, target : {0, 18, 31}]

SingleDraft(tool, input, evidence, on) ==
  [kind |-> "draft", draft |-> <<DraftStep(Id(<<"db">>, "short"), tool, input, evidence, on)>>]

CheckedCases ==
  {[AnyCase EXCEPT !.answer = SingleDraft(tool, input, evidence, on)] :
     tool \in Registered \union {"rm"}, input \in Inputs, evidence \in Evidences,
     on \in {{}, {Id(<<"other">>, "name")}}}

MeasuredCases ==
  {[AnyCase EXCEPT !.kind = r.kind, !.reading = ReadingOf(r), !.answer = answer] :
     r \in Readings,
     answer \in {SingleDraft(tool, [Input EXCEPT !.target = target], {"obs-metrics"}, {}) :
                   tool \in Registered, target \in {0, 18, 31}}
                \union {[kind |-> "fixture"], [kind |-> "none"]}}

PairedCases ==
  {[AnyCase EXCEPT !.answer =
      [kind |-> "draft",
       draft |-> <<DraftStep(Id(<<"db">>, "short"), t, Input, e, {}),
                   DraftStep(Id(<<"web">>, "short"), u, [Input EXCEPT !.target = 3], {"obs-status"},
                             {Id(<<"db">>, "short")})>>]] :
     t \in Registered, u \in Registered,
     e \in {{"obs-metrics"}, {"obs-metrics", "obs-logs", "RB-101#C01"}}}

ToolCases == CheckedCases \union MeasuredCases \union PairedCases

-----------------------------------------------------------------------------
Rollbacks ==
  {ManualRollback} \union
  {ToolRollback(tool, input) :
     tool \in {"scale_workers", "restart_service", "rm"},
     input \in [experiment : {"EXP", "EXP2"}, wellFormed : {TRUE}, target : {0, 2}]}

OtherStep(name, tool, on, rollback, risk) ==
  [id |-> <<name>>, tool |-> tool, input |-> [Input EXCEPT !.target = 6],
   evidence |-> {"obs-metrics"}, dependsOn |-> on, pre |-> {}, success |-> {ResultSucceeded},
   rollback |-> rollback, risk |-> risk]

OtherPlans ==
  {<<>>, [i \in 1..4 |-> OtherStep(<<"one", "two", "three", "four">>[i], "query_metrics", {},
                                   ManualRollback, Low)]}
  \union {<<OtherStep("one", tool, {}, rollback, risk)>> :
            tool \in Registered, rollback \in Rollbacks, risk \in Low..High}

OtherCases == {[AnyCase EXCEPT !.answer = [kind |-> "plan", plan |-> p]] : p \in OtherPlans}

MCCases == RankedCases \union NamedCases \union ToolCases \union OtherCases
=============================================================================
