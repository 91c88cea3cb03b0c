---------------------------- MODULE CaseTurns_proofs ----------------------------
(***************************************************************************)
(* Proofs about CaseTurns, for any messages, answers of the models and of  *)
(* the Gateway, and any budgets: what a turn decides, counts, concludes    *)
(* and remembers, and that it implements EvidenceRound.                    *)
(*                                                                         *)
(* Two inductive invariants carry them.  ChoiceInv says that a plan that   *)
(* is carried out has passed the verifier, and that what was found is what *)
(* the knowledge base holds.  IInv says that every observation is one the  *)
(* loop can have made, that the failure counter counts the unsuccessful    *)
(* ones, that nothing is observed before the loop starts, and that the     *)
(* verdict is the default one until the summary judges the observations of *)
(* this turn; it needs nothing of the plan.                                *)
(***************************************************************************)
EXTENDS CaseTurns, Lists_proofs, FiniteSetTheorems, TLAPS

USE BudgetsAssumption DEF BudgetsAssumption

-----------------------------------------------------------------------------
(***************************************************************************)
(* The decision.  Every list on the way from the brief to the plan is a    *)
(* list of names, so that the lemmas on lists apply; the plan is verified  *)
(* because every item passed the verifier, whoever proposed it.            *)
(***************************************************************************)

\* the names the code writes out, and any other string
ToolNames ==
    STRING \cup
    {"get_internal_kline", "get_external_kline_compare",
     "get_kline_cache_status", "get_market_source_status",
     "get_asset_snapshot", "get_asset_events", "get_user_recent_errors",
     "get_health_food_user_profile", "get_health_food_ai_quota",
     "get_health_food_meal_records", "get_health_food_recommendation_status",
     "search_logs_by_service", "get_similar_cases", "get_recent_deployments"}
HypothesisIds ==
    {"quota_or_entitlement", "recommendation_generation",
     "input_data_completeness", "user_eligibility", "service_error",
     "historical_pattern", "similar_case"}
Hypotheses == [id : HypothesisIds, tools : Seq(ToolNames)]

LEMMA HypothesisType ==
  ASSUME NEW applies \in BOOLEAN, NEW id \in HypothesisIds, NEW needs \in Seq(ToolNames)
  PROVE  Hypothesis(applies, id, needs) \in Seq(Hypotheses)
<1>1. [id |-> id, tools |-> needs] \in Hypotheses
  BY DEF Hypotheses
<1> HIDE DEF Hypotheses
<1> QED BY <1>1 DEF Hypothesis

LEMMA BriefType ==
  ASSUME NEW said, NEW domain, NEW available, NEW knowledge
  PROVE  BriefHypotheses(said, domain, available, knowledge) \in Seq(Hypotheses)
<1> DEFINE words  == WordsOf(said)
           health == domain = "health_food" \/ words \cap {"token", "recommend"} # {}
           a == Hypothesis(health /\ "token" \in words, "quota_or_entitlement",
             <<"get_health_food_ai_quota", "get_health_food_user_profile">>)
           b == Hypothesis(health /\ "recommend" \in words,
             "recommendation_generation",
             <<"get_health_food_recommendation_status">>)
           c == Hypothesis(health /\ "recommend" \in words,
             "input_data_completeness", <<"get_health_food_meal_records">>)
           d == Hypothesis(health, "user_eligibility",
             <<"get_health_food_user_profile">>)
           e == Hypothesis(TRUE, "service_error", <<"search_logs_by_service">>)
           f == Hypothesis(knowledge # <<>>, "historical_pattern", <<>>)
           g == Hypothesis(TRUE, "similar_case", <<"get_similar_cases">>)
           all == a \o b \o c \o d \o e \o f \o g
           applying == {h \in ToSet(all) :
                          h.tools = <<>> \/ ToSet(h.tools) \cap available # {}}
           usable == Only(all, applying)
           bound == [i \in DOMAIN usable |->
                       [id |-> usable[i].id,
                        tools |-> Only(usable[i].tools, available)]]
<1>1. BriefHypotheses(said, domain, available, knowledge) = Prefix(bound, 6)
  BY DEF BriefHypotheses
<1>2. a \in Seq(Hypotheses)
  <2>1. /\ (health /\ "token" \in words) \in BOOLEAN
        /\ "quota_or_entitlement" \in HypothesisIds
        /\ <<"get_health_food_ai_quota", "get_health_food_user_profile">> \in Seq(ToolNames)
    BY DEF HypothesisIds, ToolNames
  <2> QED BY <2>1, HypothesisType
<1>3. b \in Seq(Hypotheses)
  <2>1. /\ (health /\ "recommend" \in words) \in BOOLEAN
        /\ "recommendation_generation" \in HypothesisIds
        /\ <<"get_health_food_recommendation_status">> \in Seq(ToolNames)
    BY DEF HypothesisIds, ToolNames
  <2> QED BY <2>1, HypothesisType
<1>4. c \in Seq(Hypotheses)
  <2>1. /\ (health /\ "recommend" \in words) \in BOOLEAN
        /\ "input_data_completeness" \in HypothesisIds
        /\ <<"get_health_food_meal_records">> \in Seq(ToolNames)
    BY DEF HypothesisIds, ToolNames
  <2> QED BY <2>1, HypothesisType
<1>5. d \in Seq(Hypotheses)
  <2>1. /\ (health) \in BOOLEAN
        /\ "user_eligibility" \in HypothesisIds
        /\ <<"get_health_food_user_profile">> \in Seq(ToolNames)
    BY DEF HypothesisIds, ToolNames
  <2> QED BY <2>1, HypothesisType
<1>6. e \in Seq(Hypotheses)
  <2>1. /\ (TRUE) \in BOOLEAN
        /\ "service_error" \in HypothesisIds
        /\ <<"search_logs_by_service">> \in Seq(ToolNames)
    BY DEF HypothesisIds, ToolNames
  <2> QED BY <2>1, HypothesisType
<1>7. f \in Seq(Hypotheses)
  <2>1. /\ (knowledge # <<>>) \in BOOLEAN
        /\ "historical_pattern" \in HypothesisIds
        /\ <<>> \in Seq(ToolNames)
    BY DEF HypothesisIds, ToolNames
  <2> QED BY <2>1, HypothesisType
<1>8. g \in Seq(Hypotheses)
  <2>1. /\ (TRUE) \in BOOLEAN
        /\ "similar_case" \in HypothesisIds
        /\ <<"get_similar_cases">> \in Seq(ToolNames)
    BY DEF HypothesisIds, ToolNames
  <2> QED BY <2>1, HypothesisType
<1>9. all \in Seq(Hypotheses)
  <2> HIDE DEF a, b, c, d, e, f, g
  <2> QED BY <1>2, <1>3, <1>4, <1>5, <1>6, <1>7, <1>8
<1> HIDE DEF all
<1>10. usable \in Seq(Hypotheses)
  <2> HIDE DEF applying
  <2> QED BY <1>9, OnlyType
<1> HIDE DEF usable
<1>11. bound \in Seq(Hypotheses)
  <2>1. ASSUME NEW i \in DOMAIN usable
        PROVE  [id |-> usable[i].id, tools |-> Only(usable[i].tools, available)]
                 \in Hypotheses
    <3>1. usable[i] \in Hypotheses
      BY <1>10
    <3>2. usable[i].id \in HypothesisIds /\ usable[i].tools \in Seq(ToolNames)
      BY <3>1 DEF Hypotheses
    <3>3. Only(usable[i].tools, available) \in Seq(ToolNames)
      BY <3>2, OnlyType
    <3> QED BY <3>2, <3>3 DEF Hypotheses
  <2>2. DOMAIN usable = 1 .. Len(usable) /\ Len(usable) \in Nat
    BY <1>10
  <2>3. bound \in [1 .. Len(usable) -> Hypotheses]
    BY <2>1, <2>2
  <2> HIDE DEF bound
  <2> QED BY <2>2, <2>3
<1> HIDE DEF bound
<1> QED BY <1>1, <1>11, PrefixType

LEMMA BindingOfTool ==
  ASSUME NEW brief \in Seq(Hypotheses), NEW tool
  PROVE  \/ \E h \in DOMAIN brief :
              /\ brief[h].id = ToolBriefBinding(tool, brief)
              /\ tool \in ToSet(brief[h].tools)
         \/ /\ ToolBriefBinding(tool, brief) = "readonly_evidence"
            /\ \A h \in DOMAIN brief : tool \notin ToSet(brief[h].tools)
<1> DEFINE naming == {i \in DOMAIN brief : tool \in ToSet(brief[i].tools)}
           first  == CHOOSE i \in naming : \A j \in naming : i <= j
<1>1. CASE naming = {}
  BY <1>1 DEF ToolBriefBinding
<1>2. CASE naming # {}
  <2>1. naming \in SUBSET Nat
    OBVIOUS
  <2>2. first \in naming
    <3> HIDE DEF naming
    <3>1. \E i \in naming : \A j \in naming : i <= j
      BY <1>2, <2>1, LeastElement
    <3> QED BY <3>1
  <2>3. ToolBriefBinding(tool, brief) = brief[first].id
    BY <1>2 DEF ToolBriefBinding
  <2> HIDE DEF first
  <2> QED BY <2>2, <2>3
<1> QED BY <1>1, <1>2

-----------------------------------------------------------------------------
(* What a request of the platform looks like.                              *)
IsRequest(req) == /\ req.brief \in Seq(Hypotheses)
                  /\ req.maxToolCalls \in Nat

LEMMA BudgetType ==
  ASSUME NEW n \in Nat
  PROVE  ToolBudget(n) \in 1 .. 10
BY DEF ToolBudget

LEMMA UsableToolsType ==
  ASSUME NEW req, NEW tools \in Seq(ToolNames)
  PROVE  UsableTools(req, tools) \in Seq(ToolNames)
<1> DEFINE S == {t \in ToSet(tools) : Usable(req, t)}
<1>1. UsableTools(req, tools) = Only(tools, S)
  BY DEF UsableTools
<1> HIDE DEF S
<1> QED BY <1>1, OnlyType

LEMMA SelectToolsType ==
  ASSUME NEW req, IsRequest(req), NEW domain \in Taxonomies \cup {"default"}
  PROVE  SelectTools(req, domain) \in Seq(ToolNames)
<1> DEFINE fallback == DefaultToolsByDomain[domain]
           lists == [i \in DOMAIN req.brief |-> req.brief[i].tools]
           brief == BriefPreferredTools(req.brief, fallback)
           ranked == IF domain = "health_food"
                     THEN HealthFoodPreferredTools(req, brief) ELSE brief
<1>1. fallback \in Seq(ToolNames)
  <2>1. CASE domain = "health_food"
    BY <2>1 DEF DefaultToolsByDomain, ToolNames
  <2>2. CASE domain = "kline"
    BY <2>2 DEF DefaultToolsByDomain, ToolNames
  <2>3. CASE domain = "asset"
    BY <2>3 DEF DefaultToolsByDomain, ToolNames
  <2>4. CASE domain = "default"
    BY <2>4 DEF DefaultToolsByDomain, ToolNames
  <2> QED BY <2>1, <2>2, <2>3, <2>4 DEF Taxonomies
<1>2. lists \in Seq(Seq(ToolNames))
  <2>1. req.brief \in Seq(Hypotheses)
    BY DEF IsRequest
  <2>2. \A i \in DOMAIN req.brief : req.brief[i].tools \in Seq(ToolNames)
    <3>1. \A h \in Hypotheses : h.tools \in Seq(ToolNames)
      BY DEF Hypotheses
    <3> HIDE DEF Hypotheses
    <3> QED BY <2>1, <3>1
  <2>3. DOMAIN req.brief = 1 .. Len(req.brief) /\ Len(req.brief) \in Nat
    BY <2>1
  <2>4. lists \in [1 .. Len(req.brief) -> Seq(ToolNames)]
    BY <2>2, <2>3
  <2> HIDE DEF lists
  <2> QED BY <2>3, <2>4
<1> HIDE DEF fallback
<1>3. brief \in Seq(ToolNames)
  <2>1. brief = Distinct(FlattenSeq(lists) \o fallback)
    BY DEF BriefPreferredTools
  <2> HIDE DEF lists, brief
  <2>2. FlattenSeq(lists) \in Seq(ToolNames)
    BY <1>2, FlattenType
  <2>3. FlattenSeq(lists) \o fallback \in Seq(ToolNames)
    BY <1>1, <2>2
  <2> QED BY <2>1, <2>3, DistinctType
<1> HIDE DEF brief
<1>4. HealthFoodPreferredTools(req, brief) \in Seq(ToolNames)
  <2> DEFINE words == WordsOf(req.text)
             quota ==
               <<"get_health_food_ai_quota", "get_health_food_user_profile",
                 "search_logs_by_service", "get_similar_cases">>
             advice ==
               <<"get_health_food_recommendation_status",
                 "get_health_food_meal_records",
                 "get_health_food_user_profile",
                 "search_logs_by_service", "get_similar_cases">>
             priority ==
               IF "token" \in words THEN quota
               ELSE IF \/ "recommend" \in words
                       \/ Given(req.entities, "service_name")
               THEN advice ELSE <<>>
  <2>1. HealthFoodPreferredTools(req, brief) = Distinct(priority \o brief)
    BY DEF HealthFoodPreferredTools
  <2>2. priority \in Seq(ToolNames)
    <3>1. quota \in Seq(ToolNames)
      BY DEF ToolNames
    <3>2. advice \in Seq(ToolNames)
      BY DEF ToolNames
    <3>3. <<>> \in Seq(ToolNames)
      OBVIOUS
    <3> HIDE DEF quota, advice
    <3> QED BY <3>1, <3>2, <3>3
  <2> HIDE DEF priority
  <2>3. priority \o brief \in Seq(ToolNames)
    BY <1>3, <2>2
  <2> QED BY <2>1, <2>3, DistinctType
<1>5. ranked \in Seq(ToolNames)
  BY <1>3, <1>4
<1>6. SelectTools(req, domain) =
        Prefix(UsableTools(req, ranked), ToolBudget(req.maxToolCalls))
  BY DEF SelectTools, brief, fallback
<1> HIDE DEF ranked
<1>7. UsableTools(req, ranked) \in Seq(ToolNames)
  BY <1>5, UsableToolsType
<1>8. ToolBudget(req.maxToolCalls) \in Nat
  BY BudgetType DEF IsRequest
<1> QED BY <1>6, <1>7, <1>8, PrefixType

LEMMA SelectedToolsType ==
  ASSUME NEW req, IsRequest(req), NEW tools \in Seq(ToolNames)
  PROVE  SelectedTools(tools, req) \in Seq(ToolNames)
<1>1. Distinct(UsableTools(req, tools)) \in Seq(ToolNames)
  BY UsableToolsType, DistinctType
<1>2. ToolBudget(req.maxToolCalls) \in Nat
  BY BudgetType DEF IsRequest
<1> QED BY <1>1, <1>2, PrefixType DEF SelectedTools

-----------------------------------------------------------------------------
(* What is proposed, and what the verifier lets through.                   *)

Items(req) ==
    {[tool |-> t, reasoned |-> b, hypothesis |-> ToolBriefBinding(t, req.brief)] :
        t \in ToolNames, b \in BOOLEAN}

LEMMA BuildPlanType ==
  ASSUME NEW req, NEW tools \in Seq(ToolNames), NEW reasoned \in BOOLEAN
  PROVE  BuildPlan(req, tools, reasoned) \in Seq(Items(req))
<1> DEFINE item(i) == [tool |-> tools[i], reasoned |-> reasoned,
                       hypothesis |-> ToolBriefBinding(tools[i], req.brief)]
<1>1. DOMAIN tools = 1 .. Len(tools) /\ Len(tools) \in Nat
  OBVIOUS
<1>2. \A i \in 1 .. Len(tools) : item(i) \in Items(req)
  <2>1. \A i \in 1 .. Len(tools) : tools[i] \in ToolNames
    OBVIOUS
  <2> QED BY <2>1 DEF Items
<1>3. BuildPlan(req, tools, reasoned) = [i \in 1 .. Len(tools) |-> item(i)]
  BY <1>1 DEF BuildPlan
<1> HIDE DEF item
<1> QED BY <1>1, <1>2, <1>3

LEMMA SpecialistPlan ==
  ASSUME NEW req, IsRequest(req)
  PROVE  SpecialistReport(req).plan \in Seq(Items(req))
<1> DEFINE domain   == IF req.domain \in Taxonomies THEN req.domain ELSE "default"
           selected == SelectTools(req, domain)
<1>1. selected \in Seq(ToolNames)
  <2>1. domain \in Taxonomies \cup {"default"}
    OBVIOUS
  <2> HIDE DEF domain
  <2> QED BY <2>1, SelectToolsType
<1>2. BuildPlan(req, selected, TRUE) \in Seq(Items(req))
  <2> HIDE DEF selected
  <2> QED BY <1>1, BuildPlanType
<1>3. SpecialistReport(req).plan \in {<<>>, BuildPlan(req, selected, TRUE)}
  BY DEF SpecialistReport, Report
<1>4. <<>> \in Seq(Items(req))
  OBVIOUS
<1> QED BY <1>2, <1>3, <1>4

LEMMA AdvisedPlan ==
  ASSUME NEW req, IsRequest(req), NEW answer, answer.tools \in Seq(ToolNames),
         NEW default, default.plan \in Seq(Items(req))
  PROVE  AdvisorReport(answer, req, default).plan \in Seq(Items(req))
<1> DEFINE selected == SelectedTools(answer.tools, req)
           reasoned == answer.reason # "blank"
           plan == BuildPlan(req, selected, reasoned)
<1>1. selected \in Seq(ToolNames) /\ reasoned \in BOOLEAN
  BY SelectedToolsType
<1>2. plan \in Seq(Items(req))
  <2> HIDE DEF selected, reasoned
  <2> QED BY <1>1, BuildPlanType
<1>3. AdvisorReport(answer, req, default).plan \in {plan, default.plan}
  BY DEF AdvisorReport, Report
<1> QED BY <1>2, <1>3

LEMMA ProposedPlan ==
  ASSUME NEW req, IsRequest(req), NEW advice, advice.tools \in Seq(ToolNames),
         NEW matched
  PROVE  Propose(req, advice, matched).plan \in Seq(Items(req))
<1> DEFINE own     == SpecialistReport(req)
           advised == AdvisorReport(advice, req, own)
<1>1. own.plan \in Seq(Items(req))
  BY SpecialistPlan
<1>2. advised.plan \in Seq(Items(req))
  <2> HIDE DEF own
  <2> QED BY <1>1, AdvisedPlan
<1>3. Propose(req, advice, matched).plan \in {<<>>, own.plan, advised.plan}
  BY DEF Propose, Report, LocalCodeReport
<1>4. <<>> \in Seq(Items(req))
  OBVIOUS
<1> QED BY <1>1, <1>2, <1>3, <1>4

\* what NormalizeToolPlan keeps, item by item
KeptValues(kept, plan, req) ==
    /\ kept[0] = <<>>
    /\ \A n \in 1 .. Len(plan) :
          kept[n] = IF Keep(req, kept[n - 1], plan[n])
                    THEN Append(kept[n - 1], plan[n]) ELSE kept[n - 1]
    /\ NormalizeToolPlan(plan, req) = kept[Len(plan)]

LEMMA KeptLoop ==
  ASSUME NEW U, NEW plan \in Seq(U), NEW req
  PROVE  \E kept \in Values(Len(plan), Seq(U)) : KeptValues(kept, plan, req)
<1> DEFINE N == Len(plan)
           T == Seq(U)
           Loop(f) == [n \in 0 .. N |->
                         IF n = 0 THEN <<>>
                         ELSE IF Keep(req, f[n - 1], plan[n])
                         THEN Append(f[n - 1], plan[n]) ELSE f[n - 1]]
           keep == [n \in 1 .. N |->
                      [out \in T |-> IF Keep(req, out, plan[n]) THEN TRUE ELSE FALSE]]
           kept == CHOOSE g : g = Loop(g)
<1>1. N \in Nat
  OBVIOUS
<1>2. PICK f \in [0 .. N -> T] :
         /\ f[0] = <<>>
         /\ \A n \in 1 .. N :
               f[n] = IF keep[n][f[n - 1]] THEN Append(f[n - 1], plan[n])
                      ELSE f[n - 1]
  <2>1. keep \in [1 .. N -> [T -> BOOLEAN]]
    OBVIOUS
  <2> HIDE DEF keep
  <2> QED BY <2>1, GatherExists
<1>3. f = Loop(f)
  <2>1. ASSUME NEW n \in 1 .. N
        PROVE  f[n] = IF Keep(req, f[n - 1], plan[n])
                      THEN Append(f[n - 1], plan[n]) ELSE f[n - 1]
    <3>1. n - 1 \in 0 .. N
      BY <1>1
    <3>2. f[n - 1] \in T
      BY <1>2, <3>1
    <3>3. keep[n][f[n - 1]] <=> Keep(req, f[n - 1], plan[n])
      <4> HIDE DEF T
      <4> QED BY <3>2
    <3> HIDE DEF keep
    <3> QED BY <1>2, <3>3
  <2>2. \A n \in 0 .. N : n = 0 \/ n \in 1 .. N
    BY <1>1
  <2> HIDE DEF T, keep, N
  <2> QED BY <1>2, <2>1, <2>2
<1>4. kept = Loop(kept)
  <2> HIDE DEF Loop
  <2> QED BY <1>3
<1>5. NormalizeToolPlan(plan, req) = kept[N]
  BY DEF NormalizeToolPlan
<1> HIDE DEF kept
<1>6. /\ kept[0] = <<>>
      /\ \A n \in 1 .. N :
            kept[n] = IF Keep(req, kept[n - 1], plan[n])
                      THEN Append(kept[n - 1], plan[n]) ELSE kept[n - 1]
  <2>1. 0 \in 0 .. N /\ \A n \in 1 .. N : n \in 0 .. N /\ n # 0
    BY <1>1
  <2> QED BY <1>4, <2>1
<1>7. kept \in [0 .. N -> T]
  <2>1. \A n \in 0 .. N : kept[n] \in T
    BY <1>6, GatherTyped
  <2>2. kept = [n \in 0 .. N |-> kept[n]]
    BY <1>4
  <2> QED BY <2>1, <2>2
<1> QED BY <1>5, <1>6, <1>7 DEF Values, KeptValues

(* Within the budget, each tool once, and every tool one that is usable.   *)
Verified(plan, req) ==
    /\ Len(plan) <= ToolBudget(req.maxToolCalls)
    /\ \A i, j \in DOMAIN plan : plan[i].tool = plan[j].tool => i = j
    /\ \A i \in DOMAIN plan : Usable(req, plan[i].tool)

LEMMA KeepVerifies ==
  ASSUME NEW U, NEW out \in Seq(U), NEW item \in U, NEW req,
         req.maxToolCalls \in Nat,
         Verified(out, req), Keep(req, out, item)
  PROVE  Verified(Append(out, item), req)
<1> DEFINE n == Len(out)
           s == Append(out, item)
           budget == ToolBudget(req.maxToolCalls)
<1>1. /\ n \in Nat /\ DOMAIN out = 1 .. n /\ DOMAIN s = 1 .. n + 1
      /\ Len(s) = n + 1 /\ s[n + 1] = item /\ \A i \in 1 .. n : s[i] = out[i]
  OBVIOUS
<1>2. \A i \in 1 .. n + 1 : i \in 1 .. n \/ i = n + 1
  BY <1>1
<1>3. budget \in Nat
  BY BudgetType
<1> HIDE DEF n, s, budget
<1>4. Len(s) <= budget
  <2>1. n < budget
    BY DEF Keep, n, budget
  <2> QED BY <1>1, <1>3, <2>1
<1>5. \A i \in 1 .. n : out[i].tool # item.tool
  BY <1>1 DEF Keep
<1>6. \A i, j \in 1 .. n : out[i].tool = out[j].tool => i = j
  BY <1>1 DEF Verified
<1>7. ASSUME NEW i \in 1 .. n + 1, NEW j \in 1 .. n + 1, s[i].tool = s[j].tool
      PROVE  i = j
  BY <1>1, <1>2, <1>5, <1>6, <1>7
<1>8. ASSUME NEW i \in 1 .. n + 1 PROVE Usable(req, s[i].tool)
  <2>1. Usable(req, item.tool) /\ \A k \in 1 .. n : Usable(req, out[k].tool)
    BY <1>1 DEF Keep, Verified
  <2> QED BY <1>1, <1>2, <2>1
<1>9. Verified(s, req)
  BY <1>1, <1>4, <1>7, <1>8 DEF Verified, budget
<1> QED BY <1>9 DEF s

LEMMA NormalizedPlan ==
  ASSUME NEW U, NEW plan \in Seq(U), NEW req, req.maxToolCalls \in Nat
  PROVE  /\ NormalizeToolPlan(plan, req) \in Seq(U)
         /\ Verified(NormalizeToolPlan(plan, req), req)
<1>0. PICK kept \in Values(Len(plan), Seq(U)) : KeptValues(kept, plan, req)
  BY KeptLoop
<1>1. /\ kept \in [0 .. Len(plan) -> Seq(U)]
      /\ kept[0] = <<>>
      /\ \A n \in 1 .. Len(plan) :
            kept[n] = IF Keep(req, kept[n - 1], plan[n])
                      THEN Append(kept[n - 1], plan[n]) ELSE kept[n - 1]
      /\ NormalizeToolPlan(plan, req) = kept[Len(plan)]
  BY <1>0 DEF Values, KeptValues
<1> DEFINE G == {n \in 0 .. Len(plan) : Verified(kept[n], req)}
<1>2. Len(plan) \in Nat
  OBVIOUS
<1>3. 0 \in G
  <2>1. Verified(<<>>, req)
    <3>1. ToolBudget(req.maxToolCalls) \in 1 .. 10
      BY BudgetType
    <3>2. Len(<<>>) = 0 /\ DOMAIN <<>> = {}
      OBVIOUS
    <3> QED BY <3>1, <3>2 DEF Verified
  <2> QED BY <1>1, <1>2, <2>1
<1>4. ASSUME NEW n \in 1 .. Len(plan), n - 1 \in G
      PROVE  n \in G
  <2>1. n \in 0 .. Len(plan) /\ kept[n - 1] \in Seq(U) /\ plan[n] \in U
    <3>1. n \in 0 .. Len(plan) /\ n - 1 \in 0 .. Len(plan)
      BY <1>2
    <3>2. kept[n - 1] \in Seq(U)
      BY <1>1, <3>1
    <3> QED BY <3>1, <3>2
  <2>2. Verified(kept[n - 1], req)
    BY <1>4
  <2>3. Verified(kept[n], req)
    BY <1>1, <2>1, <2>2, KeepVerifies
  <2> QED BY <2>1, <2>3
<1>5. Len(plan) \in G
  <2> HIDE DEF G
  <2>1. \A n \in 0 .. Len(plan) : n \in G
    BY <1>2, <1>3, <1>4, UpTo
  <2> QED BY <1>2, <2>1
<1>6. kept[Len(plan)] \in Seq(U)
  BY <1>1, <1>2
<1> QED BY <1>1, <1>5, <1>6

(* An accepted plan is a verified one, of items the agents built.          *)
LEMMA InvokedPlan ==
  ASSUME NEW req, IsRequest(req), NEW advice, advice.tools \in Seq(ToolNames),
         NEW matched,
         Plan(req, advice, matched).action = "invoke_tools"
  PROVE  LET plan == Plan(req, advice, matched).plan
         IN  /\ plan \in Seq(Items(req))
             /\ plan # <<>>
             /\ Verified(plan, req)
<1> DEFINE proposal == Propose(req, advice, matched)
           normalized == NormalizeToolPlan(proposal.plan, req)
<1>1. proposal.plan \in Seq(Items(req))
  BY ProposedPlan
<1>2. normalized \in Seq(Items(req)) /\ Verified(normalized, req)
  <2>1. req.maxToolCalls \in Nat
    BY DEF IsRequest
  <2> HIDE DEF proposal
  <2> QED BY <1>1, <2>1, NormalizedPlan
<1>3. Plan(req, advice, matched).plan = normalized /\ normalized # <<>>
  <2>1. Plan(req, advice, matched) = Verify(proposal, req)
    BY DEF Plan
  <2> HIDE DEF proposal
  <2>2. Verify(proposal, req).action = "invoke_tools"
    BY <2>1
  <2> QED BY <2>1, <2>2 DEF Verify, Response
<1> HIDE DEF normalized
<1> QED BY <1>2, <1>3

LEMMA PlannedAction ==
  ASSUME NEW req, NEW advice, NEW matched
  PROVE  Plan(req, advice, matched).action \in Actions
<1> DEFINE proposal == Propose(req, advice, matched)
<1>1. Plan(req, advice, matched) = Verify(proposal, req)
  BY DEF Plan
<1> HIDE DEF proposal
<1> QED BY <1>1 DEF Verify, Response, Actions

-----------------------------------------------------------------------------
(* The stored experience.                                                  *)

Experience == [id : STRING, confidence : Nat, cases : Nat]

\* item x is better than item y
Better(x, y) == \/ x.confidence > y.confidence
                \/ x.confidence = y.confidence /\ x.cases > y.cases

LEMMA BestExists ==
  ASSUME NEW K \in Seq(Experience), K # <<>>
  PROVE  \E i \in DOMAIN K : \A j \in DOMAIN K : ~Better(K[j], K[i])
<1> DEFINE N == Len(K) - 1
           Top(i, n) == \A j \in 1 .. n : ~Better(K[j], K[i])
           G == {n \in 0 .. N : \E i \in 1 .. n + 1 : Top(i, n + 1)}
<1>1. N \in Nat /\ DOMAIN K = 1 .. N + 1
  OBVIOUS
<1>2. \A i \in 1 .. N + 1 : K[i].confidence \in Nat /\ K[i].cases \in Nat
  <2>1. \A x \in Experience : x.confidence \in Nat /\ x.cases \in Nat
    BY DEF Experience
  <2>2. \A i \in 1 .. N + 1 : K[i] \in Experience
    BY <1>1
  <2> HIDE DEF N, Experience
  <2> QED BY <2>1, <2>2
<1> HIDE DEF N
<1>3. 0 \in G
  <2>1. Top(1, 1) /\ 1 \in 1 .. 0 + 1 /\ 0 \in 0 .. N
    BY <1>1, <1>2 DEF Better
  <2> HIDE DEF Top
  <2>2. \E i \in 1 .. 0 + 1 : Top(i, 0 + 1)
    BY <2>1
  <2> QED BY <2>1, <2>2
<1>4. ASSUME NEW n \in 1 .. N, n - 1 \in G
      PROVE  n \in G
  <2>1. PICK i \in 1 .. n : Top(i, n)
    <3>1. (n - 1) + 1 = n
      BY <1>1
    <3> HIDE DEF Top
    <3> QED BY <1>4, <3>1
  <2>2. /\ i \in 1 .. N + 1 /\ n + 1 \in 1 .. N + 1
        /\ i \in 1 .. n + 1 /\ n + 1 \in 1 .. n + 1 /\ n \in 0 .. N
        /\ \A j \in 1 .. n + 1 : j \in 1 .. N + 1 /\ (j \in 1 .. n \/ j = n + 1)
    BY <1>1, <2>1
  <2>3. CASE Better(K[n + 1], K[i])
    <3>1. Top(n + 1, n + 1)
      <4> SUFFICES ASSUME NEW j \in 1 .. n + 1 PROVE ~Better(K[j], K[n + 1])
        OBVIOUS
      <4>1. j = n + 1 \/ ~Better(K[j], K[i])
        BY <2>1, <2>2
      <4> QED BY <1>2, <2>2, <2>3, <4>1 DEF Better
    <3> HIDE DEF Top
    <3>2. \E k \in 1 .. n + 1 : Top(k, n + 1)
      BY <2>2, <3>1
    <3> QED BY <2>2, <3>2
  <2>4. CASE ~Better(K[n + 1], K[i])
    <3>1. Top(i, n + 1)
      BY <2>1, <2>2, <2>4
    <3> HIDE DEF Top
    <3>2. \E k \in 1 .. n + 1 : Top(k, n + 1)
      BY <2>2, <3>1
    <3> QED BY <2>2, <3>2
  <2> QED BY <2>3, <2>4
<1>5. N \in G
  <2> HIDE DEF G
  <2>1. \A n \in 0 .. N : n \in G
    BY <1>1, <1>3, <1>4, UpTo
  <2> QED BY <1>1, <2>1
<1> QED BY <1>1, <1>5

(* Only well-founded experience is reused, and none on a live question.    *)
LEMMA ReusedExperience ==
  ASSUME NEW req, req.knowledge \in Seq(Experience),
         BestKnowledge(req) # NoValue
  PROVE  /\ ~RequestRequiresRealtime(req.text, req.entities)
         /\ \E i \in DOMAIN req.knowledge :
              /\ req.knowledge[i].id = BestKnowledge(req)
              /\ req.knowledge[i].confidence >= 88
              /\ req.knowledge[i].cases >= 2
<1> DEFINE K == req.knowledge
           Above(i, j) == \/ K[i].confidence > K[j].confidence
                          \/ /\ K[i].confidence = K[j].confidence
                             /\ K[i].cases > K[j].cases
           tops == {i \in DOMAIN K : \A j \in DOMAIN K : ~Above(j, i)}
           best == CHOOSE i \in tops : \A j \in tops : i <= j
           good == /\ K # <<>>
                   /\ K[best].confidence >= 88
                   /\ K[best].cases >= 2
                   /\ ~RequestRequiresRealtime(req.text, req.entities)
<1>1. BestKnowledge(req) = IF good THEN K[best].id ELSE NoValue
  BY DEF BestKnowledge
<1>2. good
  <2> HIDE DEF good
  <2> QED BY <1>1
<1>3. tops \in SUBSET Nat /\ tops # {}
  <2>1. \E i \in DOMAIN K : \A j \in DOMAIN K : ~Better(K[j], K[i])
    <3>1. K \in Seq(Experience) /\ K # <<>>
      BY <1>2
    <3> HIDE DEF K
    <3> QED BY <3>1, BestExists
  <2>2. tops # {}
    BY <2>1 DEF Better
  <2>3. DOMAIN K \subseteq Nat
    OBVIOUS
  <2> QED BY <2>2, <2>3
<1>4. best \in tops
  <2> HIDE DEF tops
  <2>1. \E i \in tops : \A j \in tops : i <= j
    BY <1>3, LeastElement
  <2> QED BY <2>1
<1>5. best \in DOMAIN K
  <2> HIDE DEF best
  <2> QED BY <1>4
<1> HIDE DEF best
<1> QED BY <1>1, <1>2, <1>5

\* who but the advisor answers from stored experience has found it good
LEMMA KnowledgeResponse ==
  ASSUME NEW req, NEW advice, NEW matched,
         Plan(req, advice, matched).action = "answer_from_knowledge",
         Plan(req, advice, matched).by # "llm_decision_agent"
  PROVE  /\ BestKnowledge(req) # NoValue
         /\ Plan(req, advice, matched).source = BestKnowledge(req)
<1> DEFINE proposal == Propose(req, advice, matched)
           known == BestKnowledge(req)
<1>1. Plan(req, advice, matched) = Verify(proposal, req)
  BY DEF Plan
<1>2. \/ proposal.action # "answer_from_knowledge"
      \/ proposal.by = "llm_decision_agent"
      \/ known # NoValue /\ proposal.source = known
  BY DEF Propose, Report, LocalCodeReport, SpecialistReport, AdvisorReport
<1> HIDE DEF proposal, known
<1>3. /\ Verify(proposal, req).by = proposal.by
      /\ Verify(proposal, req).action = "answer_from_knowledge" =>
           /\ proposal.action = "answer_from_knowledge"
           /\ Verify(proposal, req).source = proposal.source
  BY DEF Verify, Response
<1>4. known # NoValue /\ proposal.source = known
      /\ Verify(proposal, req).source = proposal.source
  BY <1>1, <1>2, <1>3
<1> QED BY <1>1, <1>4 DEF known

-----------------------------------------------------------------------------
(* What a turn counts. *)

\* the indices of the notes of s with a status of T
With(s, T) == {i \in DOMAIN s : s[i].status \in T}
Bad == {"partial", "failed"}

IsNote(o) == /\ o.status \in Statuses
             /\ o.status = "success" => o.refs # {}

Notes(s) == /\ \E S : s \in Seq(S)
            /\ \A i \in DOMAIN s : IsNote(s[i])

CountInv ==
    /\ Notes(observed)
    /\ done \in Nat
    /\ failures = Cardinality(With(observed, Bad))
    /\ failures <= MaxToolFailures + 1

PhaseInv ==
    /\ pc # "idle" => outcome = "none"
    /\ pc \in {"triage", "gate", "plan"} =>
         observed = <<>> /\ done = 0 /\ failures = 0
    /\ outcome # "summary" => verdict.accepted = FALSE
    /\ outcome = "summary" =>
         \E c \in {38, 72} \cup Confidences :
            verdict = FinalAnswerVerification(observed, c)

IInv == CountInv /\ PhaseInv

-----------------------------------------------------------------------------
(* Counting the notes of a sequence. *)

LEMMA CountEmpty ==
  ASSUME NEW T
  PROVE  Notes(<<>>) /\ Cardinality(With(<<>>, T)) = 0
<1>1. With(<<>>, T) = {} /\ <<>> \in Seq({})
  BY DEF With
<1>2. \A i \in DOMAIN <<>> : IsNote(<<>>[i])
  OBVIOUS
<1> QED BY <1>1, <1>2, FS_EmptySet DEF Notes

LEMMA CountFinite ==
  ASSUME NEW s, Notes(s), NEW T
  PROVE  /\ IsFiniteSet(With(s, T))
         /\ Cardinality(With(s, T)) \in Nat
<1>1. PICK S : s \in Seq(S)  BY DEF Notes
<1>2. DOMAIN s = 1..Len(s) /\ Len(s) \in Nat  BY <1>1
<1>3. IsFiniteSet(1..Len(s))  BY <1>2, FS_Interval
<1>4. With(s, T) \in SUBSET (1..Len(s))  BY <1>2 DEF With
<1>5. IsFiniteSet(With(s, T))  BY <1>3, <1>4, FS_Subset
<1> QED BY <1>5, FS_CardinalityType

LEMMA CountAppend ==
  ASSUME NEW s, Notes(s), NEW o, IsNote(o), NEW T
  PROVE  /\ Notes(Append(s, o))
         /\ Cardinality(With(Append(s, o), T)) =
              Cardinality(With(s, T)) + (IF o.status \in T THEN 1 ELSE 0)
<1>1. PICK S : s \in Seq(S)  BY DEF Notes
<1> DEFINE n == Len(s)  U == S \cup {o}
<1>2. s \in Seq(U) /\ o \in U
  BY <1>1
<1>3. /\ Append(s, o) \in Seq(U)
      /\ n \in Nat /\ DOMAIN s = 1..n
      /\ DOMAIN Append(s, o) = 1..(n + 1)
      /\ \A i \in 1..n : Append(s, o)[i] = s[i]
      /\ Append(s, o)[n + 1] = o
  BY <1>2
<1>4. Notes(Append(s, o))
  <2>1. ASSUME NEW i \in 1..(n + 1) PROVE IsNote(Append(s, o)[i])
    <3>1. CASE i \in 1..n  BY <3>1, <1>3 DEF Notes
    <3>2. CASE i = n + 1   BY <3>2, <1>3
    <3> QED BY <3>1, <3>2, <1>3
  <2> QED BY <2>1, <1>3 DEF Notes
<1>5. n + 1 \notin With(s, T)
  BY <1>3 DEF With
<1>6. CASE o.status \in T
  <2>1. With(Append(s, o), T) = With(s, T) \cup {n + 1}
    <3>1. \A i \in 1..(n + 1) : i \in 1..n \/ i = n + 1  BY <1>3
    <3> QED BY <3>1, <1>3, <1>6 DEF With
  <2>2. IsFiniteSet(With(s, T))  BY CountFinite
  <2>3. Cardinality(With(s, T) \cup {n + 1}) = Cardinality(With(s, T)) + 1
    BY <1>5, <2>2, FS_AddElement
  <2> QED BY <1>4, <1>6, <2>1, <2>3
<1>7. CASE o.status \notin T
  <2>1. With(Append(s, o), T) = With(s, T)
    <3>1. \A i \in 1..(n + 1) : i \in 1..n \/ i = n + 1  BY <1>3
    <3> QED BY <3>1, <1>3, <1>7 DEF With
  <2>2. Cardinality(With(s, T)) \in Nat  BY CountFinite
  <2> QED BY <1>4, <1>7, <2>1, <2>2
<1> QED BY <1>6, <1>7

LEMMA ObservationIsNote ==
  ASSUME NEW tool, NEW status \in Statuses
  PROVE  /\ IsNote(Observation(tool, status))
         /\ Observation(tool, status).status = status
BY DEF Observation, IsNote, Statuses

(* What one call adds to the counts. *)
LEMMA InvokeCounts ==
  ASSUME CountInv, NEW status \in Statuses, NEW stored \in BOOLEAN,
         InvokeTool(status, stored)
  PROVE  /\ Notes(observed')
         /\ Cardinality(With(observed', Bad))
              = failures + Counted(status, stored)
         /\ Cardinality(With(observed', {"success"})) =
              Cardinality(With(observed, {"success"}))
                + (IF status = "success" THEN 1 ELSE 0)
         /\ failures' = failures + Counted(status, stored)
         /\ done' = done + 1
<1> DEFINE tool == response.plan[done + 1].tool
           first == Observation(tool, status)
           again == Observation(tool, "failed")
           seen  == Append(observed, first)
<1>1. /\ observed' = IF stored THEN seen ELSE Append(seen, again)
      /\ failures' = failures + Counted(status, stored)
      /\ done' = done + 1
  BY DEF InvokeTool
<1>2. /\ IsNote(first) /\ first.status = status
      /\ IsNote(again) /\ again.status = "failed"
  BY ObservationIsNote DEF Statuses
<1>3. Notes(observed) /\ failures = Cardinality(With(observed, Bad))
  BY DEF CountInv
<1>4. /\ Cardinality(With(observed, Bad)) \in Nat
      /\ Cardinality(With(observed, {"success"})) \in Nat
  BY <1>3, CountFinite
<1> HIDE DEF first, again
<1>5. /\ Notes(seen)
      /\ \A T : Cardinality(With(seen, T)) =
           Cardinality(With(observed, T)) + (IF status \in T THEN 1 ELSE 0)
  BY <1>2, <1>3, CountAppend
<1> HIDE DEF seen
<1>6. CASE stored
  BY <1>1, <1>3, <1>4, <1>5, <1>6 DEF Counted, Bad, Statuses
<1>7. CASE ~stored
  <2>1. /\ Notes(Append(seen, again))
        /\ \A T : Cardinality(With(Append(seen, again), T)) =
             Cardinality(With(seen, T)) + (IF "failed" \in T THEN 1 ELSE 0)
    BY <1>2, <1>5, CountAppend
  <2> QED BY <1>1, <1>3, <1>4, <1>5, <1>7, <2>1 DEF Counted, Bad, Statuses
<1> QED BY <1>6, <1>7

-----------------------------------------------------------------------------
(* The invariant holds initially and every step keeps it. *)

LEMMA InitInv == Init => IInv
<1> SUFFICES ASSUME Init PROVE IInv
  OBVIOUS
<1>1. Notes(observed) /\ Cardinality(With(observed, Bad)) = 0
  BY CountEmpty DEF Init
<1>2. CountInv
  <2>1. done = 0 /\ failures = 0
    BY DEF Init
  <2> QED BY <1>1, <2>1 DEF CountInv
<1>3. PhaseInv
  BY DEF Init, PhaseInv, NoVerdict
<1> QED BY <1>2, <1>3 DEF IInv

LEMMA ReceiveInv ==
  ASSUME IInv, NEW m, Receive(m)
  PROVE  IInv'
<1>1. Notes(observed') /\ Cardinality(With(observed', Bad)) = 0
  BY CountEmpty DEF Receive
<1> QED BY <1>1 DEF Receive, IInv, CountInv, PhaseInv, NoVerdict

\* a step that leaves the observations and the verdict alone
LEMMA QuietInv ==
  ASSUME IInv, UNCHANGED toolVars,
         (outcome' # "summary" /\ outcome # "summary") \/ UNCHANGED <<pc, outcome>>,
         pc' # "idle" => outcome' = "none",
         pc' \in {"triage", "gate", "plan"} => pc \in {"triage", "gate", "plan"}
  PROVE  IInv'
BY DEF toolVars, IInv, CountInv, PhaseInv

LEMMA InvokeInv ==
  ASSUME IInv, NEW status \in Statuses, NEW stored \in BOOLEAN,
         InvokeTool(status, stored)
  PROVE  IInv'
<1>1. /\ CountInv /\ PhaseInv
      /\ pc = "tools" /\ failures < MaxToolFailures
      /\ status = "failed" => stored
      /\ UNCHANGED <<pc, verdict, outcome>>
  BY DEF InvokeTool, MayInvoke, IInv
<1>2. failures \in Nat
  BY <1>1, CountFinite DEF CountInv
<1>3. Counted(status, stored) \in 0..2
  BY DEF Counted
<1>4. /\ Notes(observed') /\ done' = done + 1
      /\ failures' = Cardinality(With(observed', Bad))
      /\ failures' = failures + Counted(status, stored)
  BY <1>1, InvokeCounts
<1>5. failures' <= MaxToolFailures + 1
  BY <1>1, <1>2, <1>3, <1>4
<1>6. CountInv'
  BY <1>1, <1>4, <1>5 DEF CountInv
<1>7. PhaseInv'
  BY <1>1 DEF PhaseInv
<1> QED BY <1>6, <1>7 DEF IInv

LEMMA SummarizeInv ==
  ASSUME IInv, NEW c \in {38, 72} \cup Confidences, Summarize(c)
  PROVE  IInv'
BY DEF Summarize, EndTurn, IInv, CountInv, PhaseInv

LEMMA NextInv == IInv /\ [Next]_vars => IInv'
<1> SUFFICES ASSUME IInv, [Next]_vars PROVE IInv'
  OBVIOUS
<1> USE DEF PhaseInv, IInv
<1>1. ASSUME NEW m \in Messages, Receive(m) PROVE IInv'
  BY <1>1, ReceiveInv
<1>2. CASE ToggleAgent
  BY <1>2, QuietInv DEF ToggleAgent
<1>3. CASE DirectAnswer
  BY <1>3, QuietInv DEF DirectAnswer, EndTurn
<1>4. ASSUME NEW a \in LLMAnswers, ClassifyAndExtract(a) PROVE IInv'
  BY <1>4, QuietInv DEF ClassifyAndExtract
<1>5. CASE ClassifyFails
  BY <1>5, QuietInv DEF ClassifyFails, EndTurn
<1>6. CASE GateRefuses
  BY <1>6, QuietInv DEF GateRefuses, EndTurn
<1>7. ASSUME NEW T \in Catalogues, NEW K \in KnowledgeBases, GateOpens(T, K)
      PROVE  IInv'
  BY <1>7, QuietInv DEF GateOpens
<1>8. ASSUME NEW a \in Advices, NEW m \in BOOLEAN, PlanTurn(a, m) PROVE IInv'
  <2>1. UNCHANGED toolVars /\ pc = "plan"
    BY <1>8 DEF PlanTurn
  <2>2. \/ pc' = "tools" /\ UNCHANGED outcome
        \/ \E x : pc' = "idle" /\ outcome' = Conclusion(x)
    BY <1>8 DEF PlanTurn, EndTurn
  <2>3. \A x : Conclusion(x) # "summary"
    BY DEF Conclusion
  <2> QED BY <2>1, <2>2, <2>3, QuietInv
<1>9. ASSUME NEW st \in Statuses, NEW b \in BOOLEAN, InvokeTool(st, b) PROVE IInv'
  BY <1>9, InvokeInv
<1>10. CASE InvokeFails
  BY <1>10, QuietInv DEF InvokeFails, MayInvoke, EndTurn
<1>11. CASE StopInvoking
  BY <1>11, QuietInv DEF StopInvoking
<1>12. ASSUME NEW c \in {38, 72} \cup Confidences, Summarize(c) PROVE IInv'
  BY <1>12, SummarizeInv
<1>13. CASE SummarizeFails
  BY <1>13, QuietInv DEF SummarizeFails, EndTurn
<1>14. CASE TurnFails
  BY <1>14, QuietInv DEF TurnFails, EndTurn
<1>15. CASE UNCHANGED vars
  BY <1>15, QuietInv DEF vars
<1> HIDE DEF PhaseInv, IInv
<1> QED BY <1>1, <1>2, <1>3, <1>4, <1>5, <1>6, <1>7, <1>8, <1>9, <1>10, <1>11,
           <1>12, <1>13, <1>14, <1>15 DEF Next, Statuses

LEMMA InvariantHolds == Spec => []IInv
BY InitInv, NextInv, PTL DEF Spec

(* The failure counter counts the unsuccessful notes of the turn and       *)
(* passes the limit by one at most, for any budgets.                       *)
THEOREM FailuresAreAlwaysObserved == Spec => []FailuresAreObserved
<1>1. IInv => FailuresAreObserved
  <2> SUFFICES ASSUME IInv PROVE FailuresAreObserved
    OBVIOUS
  <2>1. With(observed, Bad) = {i \in DOMAIN observed : observed[i].status # "success"}
    BY DEF IInv, CountInv, Notes, IsNote, With, Bad, Statuses
  <2> QED BY <2>1 DEF IInv, CountInv, FailuresAreObserved
<1> QED BY <1>1, InvariantHolds, PTL

(* A reported confidence above 0.45 rests on a successful call of the turn. *)
THEOREM ConfidenceIsAlwaysEarned == Spec => []ConfidenceIsEarned
<1>1. IInv => ConfidenceIsEarned
  BY DEF IInv, PhaseInv, FinalAnswerVerification, ConfidenceIsEarned
<1> QED BY <1>1, InvariantHolds, PTL

(* No step changes or forgets the value stored for an entity key; of two   *)
(* keys that name a user it does not say that they name the same one.      *)
THEOREM EntitiesNeverChange == Spec => EntitiesAreWriteOnce
<1> DEFINE Kept == \A key \in DOMAIN entities :
                      key \in DOMAIN entities' /\ entities'[key] = entities[key]
<1>1. \A new : \A key \in DOMAIN entities :
        /\ key \in DOMAIN Remember(new)
        /\ Remember(new)[key] = entities[key]
  BY DEF Remember, Overlay
<1>2. [Next]_vars => Kept
  <2> SUFFICES ASSUME [Next]_vars PROVE Kept
    OBVIOUS
  <2>1. UNCHANGED entities \/ \E new : entities' = Remember(new)
    BY DEF Next, vars, caseRow, Receive, ToggleAgent, DirectAnswer,
           ClassifyAndExtract, ClassifyFails, GateRefuses, GateOpens, TurnFails,
           PlanTurn, InvokeTool, InvokeFails, StopInvoking, Summarize, SummarizeFails
  <2> QED BY <1>1, <2>1
<1> QED BY <1>2, PTL DEF Spec, EntitiesAreWriteOnce

-----------------------------------------------------------------------------
(***************************************************************************)
(* What a turn decides.  Until the plan is made the response is the empty  *)
(* one, and from then on nothing the plan was made from changes before the *)
(* next message: the text, the taxonomy, the listing and the experience.   *)
(***************************************************************************)
IsList(p) == \E U : p \in Seq(U)

ChoiceInv ==
    /\ found \in KnowledgeBases \cup {<<>>}
    /\ pc \in {"triage", "gate", "plan"} => response = NoResponse
    /\ Investigating =>
         response.action = "invoke_tools" /\ IsList(response.plan)
    /\ VerifiedPlan
    /\ RulesReuseNoStaleExperience

requestVars == <<text, taxonomy, entities, listing, found>>

LEMMA RequestType ==
  ASSUME found \in KnowledgeBases \cup {<<>>}
  PROVE  /\ IsRequest(Request)
         /\ Request.knowledge \in Seq(Experience)
<1>1. Request.brief \in Seq(Hypotheses)
  BY BriefType DEF Request
<1>2. Request.maxToolCalls \in Nat /\ Request.knowledge = found
  BY DEF Request
<1>3. found \in Seq(Experience)
  <2>1. KnowledgeBases \subseteq Seq(Experience)
    BY AnswersAssumption DEF AnswersAssumption, Experience
  <2>2. <<>> \in Seq(Experience)
    OBVIOUS
  <2> QED BY <2>1, <2>2
<1> QED BY <1>1, <1>2, <1>3 DEF IsRequest

LEMMA AdviceType ==
  ASSUME NEW advice \in Advices \cup {Silent}
  PROVE  advice.tools \in Seq(ToolNames)
<1>1. CASE advice = Silent
  BY <1>1 DEF Silent
<1>2. CASE advice \in Advices
  <2>1. advice.tools \in Seq(STRING)
    BY <1>2, AnswersAssumption DEF AnswersAssumption
  <2>2. \A T : Seq(STRING) \subseteq Seq(STRING \cup T)
    OBVIOUS
  <2> QED BY <2>1, <2>2 DEF ToolNames
<1> QED BY <1>1, <1>2

\* the plan, made from the request of this very state
LEMMA PlanTurnChoice ==
  ASSUME ChoiceInv, NEW advice \in Advices, NEW matched, PlanTurn(advice, matched)
  PROVE  /\ VerifiedPlan' /\ RulesReuseNoStaleExperience'
         /\ response'.action = "invoke_tools" => IsList(response'.plan)
<1> DEFINE req     == Request
           planned == Plan(req, advice, matched)
<1>1. /\ response' = planned
      /\ UNCHANGED requestVars
  BY DEF PlanTurn, requestVars, caseRow
<1>2. IsRequest(req) /\ req.knowledge \in Seq(Experience)
  BY RequestType DEF ChoiceInv
<1>3. advice.tools \in Seq(ToolNames)
  BY AdviceType
<1>4. /\ req.brief = Request.brief /\ req.text = text /\ req.entities = entities
      /\ req.knowledge = found /\ req.available = listing
      /\ req.maxToolCalls = MaxToolCalls
  BY DEF Request
<1>5. Request' = req
  BY <1>1 DEF Request, requestVars
<1> HIDE DEF req
<1>6. VerifiedPlan'
  <2> SUFFICES ASSUME planned.action = "invoke_tools"
               PROVE  LET plan  == planned.plan
                          brief == req.brief
      IN  /\ Len(plan) \in 1..ToolBudget(MaxToolCalls)
          /\ \A i, j \in DOMAIN plan : plan[i].tool = plan[j].tool => i = j
          /\ \A i \in DOMAIN plan :
               /\ listing = {} \/ plan[i].tool \in listing
               /\ \/ \E h \in DOMAIN brief :
                       /\ brief[h].id = plan[i].hypothesis
                       /\ plan[i].tool \in ToSet(brief[h].tools)
                  \/ /\ plan[i].hypothesis = "readonly_evidence"
                     /\ \A h \in DOMAIN brief :
                          plan[i].tool \notin ToSet(brief[h].tools)
    BY <1>1, <1>5 DEF VerifiedPlan, requestVars
  <2> DEFINE plan == planned.plan
             brief == req.brief
  <2>1. plan \in Seq(Items(req)) /\ plan # <<>> /\ Verified(plan, req)
    BY <1>2, <1>3, InvokedPlan
  <2>2. brief \in Seq(Hypotheses)
    BY <1>2 DEF IsRequest
  <2> HIDE DEF plan, planned, brief
  <2>3. Len(plan) \in 1 .. ToolBudget(MaxToolCalls)
    <3>1. Len(plan) \in Nat /\ Len(plan) # 0
      BY <2>1
    <3>2. Len(plan) <= ToolBudget(MaxToolCalls) /\ ToolBudget(MaxToolCalls) \in Nat
      BY <1>4, <2>1, BudgetType DEF Verified
    <3> QED BY <3>1, <3>2
  <2>4. /\ \A i, j \in DOMAIN plan : plan[i].tool = plan[j].tool => i = j
        /\ \A i \in DOMAIN plan : listing = {} \/ plan[i].tool \in listing
    BY <1>4, <2>1 DEF Verified, Usable
  <2>5. ASSUME NEW i \in DOMAIN plan
        PROVE  \/ \E h \in DOMAIN brief :
                    /\ brief[h].id = plan[i].hypothesis
                    /\ plan[i].tool \in ToSet(brief[h].tools)
               \/ /\ plan[i].hypothesis = "readonly_evidence"
                  /\ \A h \in DOMAIN brief :
                       plan[i].tool \notin ToSet(brief[h].tools)
    <3>1. plan[i] \in Items(req)
      BY <2>1
    <3>2. plan[i].hypothesis = ToolBriefBinding(plan[i].tool, brief)
      BY <3>1 DEF Items, brief
    <3> QED BY <2>2, <3>2, BindingOfTool
  <2> QED BY <2>3, <2>4, <2>5 DEF plan, brief
<1>7. RulesReuseNoStaleExperience'
  <2> SUFFICES ASSUME planned.action = "answer_from_knowledge",
                      planned.by # "llm_decision_agent"
               PROVE  /\ \A i \in DOMAIN text :
                           text[i] \cap {"today", "nodata", "debug"} = {}
                      /\ \E i \in DOMAIN found :
                           /\ found[i].id = planned.source
                           /\ found[i].confidence >= 88 /\ found[i].cases >= 2
    BY <1>1 DEF RulesReuseNoStaleExperience, requestVars
  <2>1. /\ BestKnowledge(req) # NoValue
        /\ planned.source = BestKnowledge(req)
    BY KnowledgeResponse
  <2> HIDE DEF planned
  <2>2. /\ ~RequestRequiresRealtime(text, entities)
        /\ \E i \in DOMAIN found :
             /\ found[i].id = BestKnowledge(req)
             /\ found[i].confidence >= 88 /\ found[i].cases >= 2
    BY <1>2, <1>4, <2>1, ReusedExperience
  <2>3. \A i \in DOMAIN text : text[i] \cap {"today", "nodata", "debug"} = {}
    BY <2>2 DEF RequestRequiresRealtime, WordsOf
  <2> QED BY <2>1, <2>2, <2>3
<1>8. planned.action = "invoke_tools" => IsList(planned.plan)
  BY <1>2, <1>3, InvokedPlan DEF IsList
<1> QED BY <1>1, <1>6, <1>7, <1>8

\* a step after which no plan is made yet
LEMMA UnplannedChoice ==
  ASSUME response' = NoResponse, pc' \in {"triage", "gate", "plan"},
         found' \in KnowledgeBases \cup {<<>>}
  PROVE  ChoiceInv'
<1>1. VerifiedPlan' /\ RulesReuseNoStaleExperience'
  BY DEF VerifiedPlan, RulesReuseNoStaleExperience, NoResponse, NoValue
<1> QED BY <1>1 DEF ChoiceInv, Investigating

\* a step that changes neither the plan nor what it was made from
LEMMA QuietChoice ==
  ASSUME ChoiceInv, UNCHANGED <<requestVars, response>>,
         pc' \in {"triage", "gate", "plan"} => pc' = pc,
         Investigating' => Investigating
  PROVE  ChoiceInv'
<1>1. VerifiedPlan'
  BY DEF ChoiceInv, VerifiedPlan, Request, requestVars
<1>2. RulesReuseNoStaleExperience'
  BY DEF ChoiceInv, RulesReuseNoStaleExperience, requestVars
<1> QED BY <1>1, <1>2 DEF ChoiceInv, requestVars

LEMMA InitChoice == Init => ChoiceInv
<1> SUFFICES ASSUME Init PROVE ChoiceInv
  OBVIOUS
<1>1. response = NoResponse /\ pc = "idle" /\ found = <<>>
  BY DEF Init
<1>2. VerifiedPlan /\ RulesReuseNoStaleExperience
  BY <1>1 DEF VerifiedPlan, RulesReuseNoStaleExperience, NoResponse, NoValue
<1> QED BY <1>1, <1>2 DEF ChoiceInv, Investigating

LEMMA NextChoice == ChoiceInv /\ [Next]_vars => ChoiceInv'
<1> SUFFICES ASSUME ChoiceInv, [Next]_vars PROVE ChoiceInv'
  OBVIOUS
<1> USE DEF requestVars, caseRow, turnVars, Investigating
<1>1. ASSUME NEW m \in Messages, Receive(m) PROVE ChoiceInv'
  BY <1>1, UnplannedChoice DEF Receive
<1>2. CASE ToggleAgent
  BY <1>2, QuietChoice DEF ToggleAgent
<1>3. CASE DirectAnswer
  BY <1>3, QuietChoice DEF DirectAnswer, EndTurn
<1>4. ASSUME NEW a \in LLMAnswers, ClassifyAndExtract(a) PROVE ChoiceInv'
  BY <1>4, UnplannedChoice DEF ClassifyAndExtract, ChoiceInv
<1>5. CASE ClassifyFails
  BY <1>5, QuietChoice DEF ClassifyFails, EndTurn
<1>6. CASE GateRefuses
  BY <1>6, QuietChoice DEF GateRefuses, EndTurn
<1>7. ASSUME NEW T \in Catalogues, NEW K \in KnowledgeBases, GateOpens(T, K)
      PROVE  ChoiceInv'
  BY <1>7, UnplannedChoice DEF GateOpens, ChoiceInv
<1>8. ASSUME NEW a \in Advices, NEW m \in BOOLEAN, PlanTurn(a, m)
      PROVE  ChoiceInv'
  <2>1. /\ VerifiedPlan' /\ RulesReuseNoStaleExperience'
        /\ response'.action = "invoke_tools" => IsList(response'.plan)
    BY <1>8, PlanTurnChoice
  <2>2. UNCHANGED found /\ pc' \in {"tools", "idle"}
    BY <1>8 DEF PlanTurn, EndTurn
  <2>3. pc' = "tools" => response'.action = "invoke_tools"
    BY <1>8 DEF PlanTurn, EndTurn
  <2> QED BY <2>1, <2>2, <2>3 DEF ChoiceInv
<1>9. ASSUME NEW st \in Statuses, NEW b \in BOOLEAN, InvokeTool(st, b)
      PROVE  ChoiceInv'
  BY <1>9, QuietChoice DEF InvokeTool
<1>10. CASE InvokeFails
  BY <1>10, QuietChoice DEF InvokeFails, EndTurn
<1>11. CASE StopInvoking
  BY <1>11, QuietChoice DEF StopInvoking
<1>12. ASSUME NEW c \in {38, 72} \cup Confidences, Summarize(c) PROVE ChoiceInv'
  BY <1>12, QuietChoice DEF Summarize, EndTurn
<1>13. CASE SummarizeFails
  BY <1>13, QuietChoice DEF SummarizeFails, EndTurn
<1>14. CASE TurnFails
  BY <1>14, QuietChoice DEF TurnFails, EndTurn
<1>15. CASE UNCHANGED vars
  BY <1>15, QuietChoice DEF vars
<1> QED BY <1>1, <1>2, <1>3, <1>4, <1>5, <1>6, <1>7, <1>8, <1>9, <1>10, <1>11,
           <1>12, <1>13, <1>14, <1>15 DEF Next, Statuses

LEMMA ChoiceHolds == Spec => []ChoiceInv
BY InitChoice, NextChoice, PTL DEF Spec

(* Whatever the advisor proposes and the Gateway lists, a plan that is     *)
(* carried out keeps within the budget, names each tool once, only tools   *)
(* that are usable, and ties each to the hypothesis that asks for it.      *)
THEOREM PlansAreVerified == Spec => []VerifiedPlan
<1>1. ChoiceInv => VerifiedPlan
  BY DEF ChoiceInv
<1> QED BY <1>1, ChoiceHolds, PTL

(* The platform's own rules answer from stored experience in no case that  *)
(* ever asked for live evidence, and only from experience found in this    *)
(* turn that is confident and seen twice, for any contents of the          *)
(* knowledge base and any number of messages.  It says nothing of the      *)
(* advisor's own answer_from_knowledge.                                    *)
THEOREM RulesNeverReuseStaleExperience == Spec => []RulesReuseNoStaleExperience
<1>1. ChoiceInv => RulesReuseNoStaleExperience
  BY DEF ChoiceInv
<1> QED BY <1>1, ChoiceHolds, PTL

-----------------------------------------------------------------------------
(***************************************************************************)
(* The loop calls the plan's items in order and notes each at least once.  *)
(* A second note of a call adds nothing to the distinct tools, and a new   *)
(* call adds one, because a verified plan names each tool once.            *)
(***************************************************************************)
ToolsOf(s)     == [i \in DOMAIN s |-> s[i].tool]
Invoked(p, n)  == [i \in 1 .. n |-> p[i].tool]

\* appending a note appends its tool
LEMMA ToolsAppend ==
  ASSUME NEW S, NEW s \in Seq(S), NEW o \in S
  PROVE  /\ ToolsOf(s) \in Seq({x.tool : x \in S})
         /\ ToolsOf(Append(s, o)) = Append(ToolsOf(s), o.tool)
<1> DEFINE n == Len(s)
           T == {x.tool : x \in S}
           t == ToolsOf(s)
<1>1. /\ n \in Nat /\ DOMAIN s = 1 .. n /\ DOMAIN Append(s, o) = 1 .. n + 1
      /\ \A i \in 1 .. n : Append(s, o)[i] = s[i] /\ s[i] \in S
      /\ Append(s, o)[n + 1] = o
  OBVIOUS
<1>2. t \in [1 .. n -> T]
  BY <1>1 DEF ToolsOf
<1>3. t \in Seq(T) /\ Len(t) = n
  <2> HIDE DEF t, T, n
  <2> QED BY <1>1, <1>2
<1>4. o.tool \in T
  OBVIOUS
<1>5. Append(t, o.tool) = [i \in 1 .. n + 1 |-> IF i = n + 1 THEN o.tool ELSE t[i]]
  <2> HIDE DEF t, T, n
  <2> QED BY <1>3, <1>4
<1>6. \A i \in 1 .. n + 1 : i \in 1 .. n \/ i = n + 1
  BY <1>1
<1>7. ToolsOf(Append(s, o)) = Append(t, o.tool)
  <2> HIDE DEF n
  <2> QED BY <1>1, <1>5, <1>6 DEF ToolsOf
<1> QED BY <1>3, <1>7

\* calling one item more appends its tool
LEMMA InvokedNext ==
  ASSUME NEW U, NEW p \in Seq(U), NEW n \in Nat, n < Len(p)
  PROVE  /\ Invoked(p, n) \in Seq({x.tool : x \in U})
         /\ Invoked(p, n + 1) = Append(Invoked(p, n), p[n + 1].tool)
<1> DEFINE T == {x.tool : x \in U}
           q == Invoked(p, n)
<1>1. \A i \in 1 .. n + 1 : i \in DOMAIN p /\ p[i] \in U
  OBVIOUS
<1>2. q \in [1 .. n -> T]
  BY <1>1 DEF Invoked
<1>3. q \in Seq(T) /\ Len(q) = n /\ p[n + 1].tool \in T
  <2>1. p[n + 1].tool \in T
    BY <1>1
  <2> HIDE DEF q, T
  <2> QED BY <1>2, <2>1
<1>4. Append(q, p[n + 1].tool) =
        [i \in 1 .. n + 1 |-> IF i = n + 1 THEN p[n + 1].tool ELSE q[i]]
  <2> HIDE DEF q, T
  <2> QED BY <1>3
<1>5. \A i \in 1 .. n + 1 : i \in 1 .. n \/ i = n + 1
  OBVIOUS
<1>6. Invoked(p, n + 1) = Append(q, p[n + 1].tool)
  BY <1>4, <1>5 DEF Invoked
<1> QED BY <1>3, <1>6

\* a verified plan does not repeat a tool it has called
LEMMA InvokedOnce ==
  ASSUME NEW U, NEW p \in Seq(U), NEW n \in Nat, n < Len(p),
         \A i, j \in DOMAIN p : p[i].tool = p[j].tool => i = j
  PROVE  p[n + 1].tool \notin ToSet(Invoked(p, n))
<1>1. \A i \in 1 .. n : i \in DOMAIN p /\ n + 1 \in DOMAIN p /\ i # n + 1
  OBVIOUS
<1>2. ToSet(Invoked(p, n)) = {p[i].tool : i \in 1 .. n}
  BY DEF Invoked, ToSet
<1>3. \A i \in 1 .. n : p[i].tool # p[n + 1].tool
  BY <1>1
<1> QED BY <1>2, <1>3

LEMMA NothingInvoked ==
  ASSUME NEW p
  PROVE  Distinct(ToolsOf(<<>>)) = Invoked(p, 0)
<1>1. ToolsOf(<<>>) = <<>> /\ Invoked(p, 0) = <<>>
  BY DEF ToolsOf, Invoked
<1>2. <<>> \in Seq({})
  OBVIOUS
<1>3. Distinct(<<>>) \in Seq({})
  BY <1>2, DistinctType
<1>4. \A s \in Seq({}) : s = <<>>
  OBVIOUS
<1> QED BY <1>1, <1>3, <1>4

LEMMA InvokeFollows ==
  ASSUME IInv, ChoiceInv, ObservationsFollowPlan,
         NEW status \in Statuses, NEW stored \in BOOLEAN,
         InvokeTool(status, stored)
  PROVE  ObservationsFollowPlan'
<1> DEFINE plan  == response.plan
           tool  == plan[done + 1].tool
           first == Observation(tool, status)
           again == Observation(tool, "failed")
           seen  == Append(observed, first)
<1>1. /\ observed' = IF stored THEN seen ELSE Append(seen, again)
      /\ done' = done + 1 /\ UNCHANGED response
      /\ done < Len(plan) /\ pc = "tools"
  BY DEF InvokeTool, MayInvoke, turnVars
<1>2. /\ first.tool = tool /\ again.tool = tool
  BY DEF Observation
<1>3. /\ response.action = "invoke_tools" /\ IsList(plan)
      /\ done \in Nat
  BY <1>1 DEF ChoiceInv, Investigating, IInv, CountInv
<1>4. PICK U : plan \in Seq(U)
  BY <1>3 DEF IsList
<1>5. \A i, j \in DOMAIN plan : plan[i].tool = plan[j].tool => i = j
  BY <1>3 DEF ChoiceInv, VerifiedPlan
<1>6. PICK S0 : observed \in Seq(S0)
  BY DEF IInv, CountInv, Notes
<1> DEFINE S == S0 \cup {first, again}
           T == {x.tool : x \in S}
<1>7. /\ observed \in Seq(S) /\ first \in S /\ again \in S
      /\ seen \in Seq(S) /\ tool \in T
  <2>1. observed \in Seq(S)
    BY <1>6
  <2>2. tool \in T
    BY <1>2
  <2> HIDE DEF first, again, T
  <2> QED BY <2>1, <2>2
<1> HIDE DEF plan, first, again, S, T
<1>8. /\ ToolsOf(observed) \in Seq(T)
      /\ ToolsOf(seen) = Append(ToolsOf(observed), tool)
  <2> HIDE DEF tool
  <2> QED BY <1>2, <1>7, ToolsAppend DEF T
<1>9. Distinct(ToolsOf(observed)) = Invoked(plan, done)
  BY DEF ObservationsFollowPlan, ToolsOf, Invoked, plan
<1>10. /\ tool \notin ToSet(Invoked(plan, done))
       /\ Invoked(plan, done + 1) = Append(Invoked(plan, done), tool)
  <2>1. plan[done + 1].tool \notin ToSet(Invoked(plan, done))
    BY <1>1, <1>3, <1>4, <1>5, InvokedOnce
  <2>2. Invoked(plan, done + 1) = Append(Invoked(plan, done), plan[done + 1].tool)
    BY <1>1, <1>3, <1>4, InvokedNext
  <2> QED BY <2>1, <2>2
<1> HIDE DEF tool
<1>11. Distinct(ToolsOf(seen)) = Invoked(plan, done + 1)
  <2>1. tool \notin ToSet(Distinct(ToolsOf(observed)))
    BY <1>9, <1>10
  <2>2. Distinct(Append(ToolsOf(observed), tool))
          = Append(Distinct(ToolsOf(observed)), tool)
    BY <1>7, <1>8, <2>1, DistinctAppend
  <2> QED BY <1>8, <1>9, <1>10, <2>2
<1>12. Distinct(ToolsOf(Append(seen, again))) = Invoked(plan, done + 1)
  <2>1. /\ ToolsOf(seen) \in Seq(T)
        /\ ToolsOf(Append(seen, again)) = Append(ToolsOf(seen), tool)
    <3> HIDE DEF seen
    <3> QED BY <1>2, <1>7, ToolsAppend DEF T
  <2>2. tool \in ToSet(Distinct(ToolsOf(seen)))
    <3>1. tool \in ToSet(ToolsOf(seen))
      BY <1>7, <1>8, ToSetAppend
    <3> QED BY <2>1, <3>1, DistinctType
  <2> QED BY <1>7, <1>11, <2>1, <2>2, DistinctAppend
<1>13. Distinct(ToolsOf(observed')) = Invoked(plan, done + 1)
  BY <1>1, <1>11, <1>12
<1> QED BY <1>1, <1>13 DEF ObservationsFollowPlan, ToolsOf, Invoked, plan

LEMMA InitFollows == Init => ObservationsFollowPlan
BY NothingInvoked DEF Init, ObservationsFollowPlan, ToolsOf, Invoked

LEMMA NextFollows ==
  IInv /\ ChoiceInv /\ ObservationsFollowPlan /\ [Next]_vars
    => ObservationsFollowPlan'
<1> SUFFICES ASSUME IInv, ChoiceInv, ObservationsFollowPlan, [Next]_vars
             PROVE  ObservationsFollowPlan'
  OBVIOUS
<1>1. ASSUME observed' = <<>>, done' = 0 PROVE ObservationsFollowPlan'
  BY <1>1, NothingInvoked DEF ObservationsFollowPlan, ToolsOf, Invoked
<1>2. ASSUME UNCHANGED <<observed, done, response>> PROVE ObservationsFollowPlan'
  BY <1>2 DEF ObservationsFollowPlan
<1>3. ASSUME NEW m \in Messages, Receive(m) PROVE ObservationsFollowPlan'
  BY <1>1, <1>3 DEF Receive
<1>4. ASSUME NEW a \in Advices, NEW m \in BOOLEAN, PlanTurn(a, m)
      PROVE  ObservationsFollowPlan'
  BY <1>1, <1>4 DEF PlanTurn, toolVars, IInv, PhaseInv
<1>5. ASSUME NEW st \in Statuses, NEW b \in BOOLEAN, InvokeTool(st, b)
      PROVE  ObservationsFollowPlan'
  BY <1>5, InvokeFollows
<1>6. CASE \/ ToggleAgent \/ DirectAnswer \/ ClassifyFails \/ GateRefuses
           \/ TurnFails
  BY <1>2, <1>6 DEF ToggleAgent, DirectAnswer, ClassifyFails, GateRefuses,
                    TurnFails, turnVars, toolVars
<1>7. ASSUME NEW a \in LLMAnswers, ClassifyAndExtract(a)
      PROVE  ObservationsFollowPlan'
  BY <1>2, <1>7 DEF ClassifyAndExtract, turnVars, toolVars
<1>8. ASSUME NEW L \in Catalogues, NEW K \in KnowledgeBases, GateOpens(L, K)
      PROVE  ObservationsFollowPlan'
  BY <1>2, <1>8 DEF GateOpens, toolVars
<1>9. CASE InvokeFails \/ StopInvoking \/ SummarizeFails
  BY <1>2, <1>9 DEF InvokeFails, StopInvoking, SummarizeFails, turnVars, toolVars
<1>10. ASSUME NEW c \in {38, 72} \cup Confidences, Summarize(c)
       PROVE  ObservationsFollowPlan'
  BY <1>2, <1>10 DEF Summarize, turnVars
<1>11. CASE UNCHANGED vars
  BY <1>2, <1>11 DEF vars, turnVars, toolVars
<1> HIDE DEF ObservationsFollowPlan
<1> QED BY <1>3, <1>4, <1>5, <1>6, <1>7, <1>8, <1>9, <1>10, <1>11
        DEF Next, Statuses

(* Whatever fails while a note is stored, the notes are those of the first *)
(* calls of the plan, in its order, none skipped and none made twice.      *)
THEOREM ObservationsAlwaysFollowPlan == Spec => []ObservationsFollowPlan
BY InitFollows, NextFollows, InvariantHolds, ChoiceHolds, PTL DEF Spec

-----------------------------------------------------------------------------
(***************************************************************************)
(* Types: what the agents decide is an action, what process_case concludes *)
(* from it an outcome, and what the budgets bound stays in range.          *)
(***************************************************************************)

LEMMA InitType == Init => TypeOK
<1> SUFFICES ASSUME Init PROVE TypeOK
  OBVIOUS
<1>1. text \in Seq(SUBSET Words) /\ Len(text) <= MaxMessages
  <2>1. text = <<>>
    BY DEF Init
  <2>2. <<>> \in Seq(SUBSET Words)
    OBVIOUS
  <2>3. Len(<<>>) <= MaxMessages
    BY AnswersAssumption DEF AnswersAssumption
  <2> QED BY <2>1, <2>2, <2>3
<1>2. /\ response.action \in Actions \cup {NoValue}
      /\ verdict.accepted \in BOOLEAN /\ verdict.confidence \in Int
  <2>1. response = NoResponse /\ verdict = NoVerdict
    BY DEF Init
  <2> QED BY <2>1 DEF NoResponse, NoVerdict
<1>3. DOMAIN taxonomy = {"domain", "type"}
  <2>1. taxonomy = [domain |-> "", type |-> ""]
    BY DEF Init
  <2> QED BY <2>1
<1>4. \A i \in DOMAIN observed : observed[i].status \in Statuses
  <2>1. observed = <<>>
    BY DEF Init
  <2> QED BY <2>1
<1>5. /\ done \in 0 .. MaxToolCalls /\ failures \in Nat
      /\ pc = "idle" /\ outcome \in Outcomes
  <2>1. done = 0 /\ failures = 0 /\ pc = "idle" /\ outcome = "none"
    BY DEF Init
  <2> QED BY <2>1 DEF Outcomes
<1>6. listing \in Catalogues
  <2>1. listing = {}
    BY DEF Init
  <2> QED BY <2>1, AnswersAssumption DEF AnswersAssumption
<1>7. agent \in BOOLEAN
  BY DEF Init
<1> QED BY <1>1, <1>2, <1>3, <1>4, <1>5, <1>6, <1>7 DEF TypeOK

LEMMA ConclusionType ==
  ASSUME NEW action
  PROVE  Conclusion(action) \in Outcomes
BY DEF Conclusion, Outcomes

\* a step that writes neither the case row nor the notes
LEMMA QuietType ==
  ASSUME TypeOK, UNCHANGED <<caseRow, toolVars>>,
         agent' \in BOOLEAN, listing' \in Catalogues,
         pc' \in {"idle", "triage", "gate", "plan", "tools", "summarize"},
         response'.action \in Actions \cup {NoValue}, outcome' \in Outcomes
  PROVE  TypeOK'
BY DEF TypeOK, caseRow, toolVars

LEMMA ReceiveType ==
  ASSUME TypeOK, NEW m \in Messages, Receive(m)
  PROVE  TypeOK'
<1>1. /\ text' = Append(text, m) /\ text \in Seq(SUBSET Words)
      /\ m \in SUBSET Words /\ Len(text) < MaxMessages /\ MaxMessages \in Nat
  BY AnswersAssumption DEF Receive, TypeOK, AnswersAssumption
<1>2. text' \in Seq(SUBSET Words) /\ Len(text') <= MaxMessages
  <2> DEFINE W == SUBSET Words
  <2>1. text \in Seq(W) /\ m \in W
    BY <1>1
  <2> HIDE DEF W
  <2>2. /\ Append(text, m) \in Seq(W) /\ Len(Append(text, m)) = Len(text) + 1
        /\ Len(text) \in Nat
    BY <2>1
  <2> QED BY <1>1, <2>2 DEF W
<1>3. /\ response'.action \in Actions \cup {NoValue}
      /\ verdict'.accepted \in BOOLEAN /\ verdict'.confidence \in Int
      /\ listing' \in Catalogues
  <2>1. response' = NoResponse /\ verdict' = NoVerdict /\ listing' = {}
    BY DEF Receive
  <2>2. {} \in Catalogues
    BY AnswersAssumption DEF AnswersAssumption
  <2> QED BY <2>1, <2>2 DEF NoResponse, NoVerdict
<1>4. \A i \in DOMAIN observed' : observed'[i].status \in Statuses
  <2>1. observed' = <<>>
    BY DEF Receive
  <2> QED BY <2>1
<1>5. /\ UNCHANGED <<taxonomy, agent>>
      /\ done' \in 0 .. MaxToolCalls /\ failures' \in Nat
      /\ pc' = "triage" /\ outcome' \in Outcomes
  BY DEF Receive, Outcomes
<1> QED BY <1>2, <1>3, <1>4, <1>5 DEF TypeOK

LEMMA InvokeType ==
  ASSUME TypeOK, IInv, NEW status \in Statuses, NEW stored \in BOOLEAN,
         InvokeTool(status, stored)
  PROVE  TypeOK'
<1>1. /\ done' = done + 1 /\ done < MaxToolCalls /\ done \in 0 .. MaxToolCalls
      /\ failures' = failures + Counted(status, stored) /\ failures \in Nat
      /\ UNCHANGED <<caseRow, agent, pc, turnVars, verdict, outcome>>
  BY DEF InvokeTool, MayInvoke, TypeOK
<1>2. done' \in 0 .. MaxToolCalls
  BY <1>1
<1>3. failures' \in Nat
  BY <1>1 DEF Counted
<1>4. \A i \in DOMAIN observed' : observed'[i].status \in Statuses
  <2>1. Notes(observed')
    BY InvokeCounts DEF IInv
  <2> QED BY <2>1 DEF Notes, IsNote
<1> QED BY <1>1, <1>2, <1>3, <1>4 DEF TypeOK, caseRow, turnVars

LEMMA SummarizeType ==
  ASSUME TypeOK, NEW c \in {38, 72} \cup Confidences, Summarize(c)
  PROVE  TypeOK'
<1>1. /\ verdict' = FinalAnswerVerification(observed, c)
      /\ pc' = "idle" /\ outcome' = "summary"
      /\ UNCHANGED <<caseRow, agent, turnVars, done, observed, failures>>
  BY DEF Summarize, EndTurn
<1>2. c \in Int
  BY AnswersAssumption DEF AnswersAssumption
<1>3. verdict'.accepted \in BOOLEAN /\ verdict'.confidence \in Int
  BY <1>1, <1>2 DEF FinalAnswerVerification
<1> QED BY <1>1, <1>3 DEF TypeOK, caseRow, turnVars, Outcomes

LEMMA NextType == TypeOK /\ IInv /\ [Next]_vars => TypeOK'
<1> SUFFICES ASSUME TypeOK, IInv, [Next]_vars PROVE TypeOK'
  OBVIOUS
<1>0. /\ agent \in BOOLEAN /\ listing \in Catalogues
      /\ pc \in {"idle", "triage", "gate", "plan", "tools", "summarize"}
      /\ response.action \in Actions \cup {NoValue}
      /\ outcome \in Outcomes
  BY DEF TypeOK
<1>1. ASSUME NEW m \in Messages, Receive(m) PROVE TypeOK'
  BY <1>1, ReceiveType
<1>2. CASE ToggleAgent
  <2>1. agent' \in BOOLEAN
    BY <1>0, <1>2 DEF ToggleAgent
  <2> QED BY <1>0, <1>2, <2>1, QuietType DEF ToggleAgent, turnVars
<1>3. CASE DirectAnswer \/ ClassifyFails \/ GateRefuses \/ TurnFails
  BY <1>0, <1>3, QuietType
     DEF DirectAnswer, ClassifyFails, GateRefuses, TurnFails, EndTurn, turnVars,
         Outcomes
<1>4. ASSUME NEW a \in LLMAnswers, ClassifyAndExtract(a) PROVE TypeOK'
  <2>1. DOMAIN taxonomy' = {"domain", "type"}
    BY <1>4 DEF ClassifyAndExtract
  <2> QED BY <1>4, <2>1 DEF ClassifyAndExtract, TypeOK, turnVars, toolVars
<1>5. ASSUME NEW T \in Catalogues, NEW K \in KnowledgeBases, GateOpens(T, K)
      PROVE  TypeOK'
  BY <1>0, <1>5, QuietType DEF GateOpens
<1>6. ASSUME NEW a \in Advices, NEW m \in BOOLEAN, PlanTurn(a, m) PROVE TypeOK'
  <2>1. response'.action \in Actions
    BY <1>6, PlannedAction DEF PlanTurn
  <2>2. /\ pc' \in {"idle", "tools"} /\ outcome' \in Outcomes
        /\ UNCHANGED <<caseRow, agent, listing, toolVars>>
    BY <1>0, <1>6, ConclusionType DEF PlanTurn, EndTurn
  <2> QED BY <1>0, <2>1, <2>2, QuietType
<1>7. ASSUME NEW st \in Statuses, NEW b \in BOOLEAN, InvokeTool(st, b)
      PROVE  TypeOK'
  BY <1>7, InvokeType
<1>8. CASE InvokeFails \/ StopInvoking \/ SummarizeFails
  BY <1>0, <1>8, QuietType
     DEF InvokeFails, StopInvoking, SummarizeFails, EndTurn, turnVars, Outcomes
<1>9. ASSUME NEW c \in {38, 72} \cup Confidences, Summarize(c) PROVE TypeOK'
  BY <1>9, SummarizeType
<1>10. CASE UNCHANGED vars
  BY <1>0, <1>10, QuietType DEF vars, turnVars
<1> HIDE DEF TypeOK
<1> QED BY <1>1, <1>2, <1>3, <1>4, <1>5, <1>6, <1>7, <1>8, <1>9, <1>10
        DEF Next, Statuses

(* The variables of a turn have their types; in particular every plan ends *)
(* in one of the verifier's actions and every action in a known reply.     *)
THEOREM TypesAreCorrect == Spec => []TypeOK
BY InitType, NextType, InvariantHolds, PTL DEF Spec

-----------------------------------------------------------------------------
(***************************************************************************)
(* CaseTurns implements EvidenceRound: each step of a turn is an Open, a   *)
(* Spend, a Judge, a Forget, or leaves the mapped state as it is.          *)
(***************************************************************************)

Gained == Cardinality(Noted("success"))

LEMMA GainedIsCount ==
  ASSUME IInv
  PROVE  /\ Gained = Cardinality(With(observed, {"success"}))
         /\ Gained \in Nat
         /\ Gained > 0 <=> \E i \in DOMAIN observed : observed[i].status = "success"
<1>1. Noted("success") = With(observed, {"success"})
  BY DEF Noted, With
<1>2. /\ IsFiniteSet(With(observed, {"success"}))
      /\ Cardinality(With(observed, {"success"})) \in Nat
  BY CountFinite DEF IInv, CountInv
<1>3. Cardinality(With(observed, {"success"})) = 0 <=> With(observed, {"success"}) = {}
  BY <1>2, FS_EmptySet
<1> QED BY <1>1, <1>2, <1>3 DEF Gained, With

LEMMA RoundInitially == Init => Round!RoundInit
<1> SUFFICES ASSUME Init PROVE Round!RoundInit
  OBVIOUS
<1>1. pc = "idle" /\ outcome = "none" /\ verdict.accepted = FALSE
  BY DEF Init, NoVerdict
<1>2. Stage = "none"
  BY <1>1 DEF Stage, Investigating
<1> QED BY <1>1, <1>2 DEF Round!RoundInit

\* a step that leaves the mapped state as it is
LEMMA StutterMaps ==
  ASSUME UNCHANGED toolVars,
         Stage' = Stage
  PROVE  UNCHANGED Round!roundVars
BY DEF toolVars, Round!roundVars, Noted

\* a step that drops the round there may be
LEMMA ForgetMaps ==
  ASSUME Stage' = "none", verdict'.accepted = FALSE,
         Stage # "none" \/ verdict.accepted = FALSE
  PROVE  Round!Forget \/ UNCHANGED Round!roundVars
BY DEF Round!Forget, Round!roundVars

LEMMA InvokeMaps ==
  ASSUME IInv, NEW status \in Statuses, NEW stored \in BOOLEAN,
         InvokeTool(status, stored)
  PROVE  Round!Spend
<1>1. /\ pc = "tools" /\ UNCHANGED <<pc, outcome, verdict>>
      /\ done < MaxToolCalls /\ failures < MaxToolFailures
      /\ status = "failed" => stored
  BY DEF InvokeTool, MayInvoke
<1>2. Stage = "open" /\ Stage' = "open"
  BY <1>1 DEF Stage, Investigating
<1>3. /\ done' = done + 1 /\ done \in Nat
      /\ failures' = failures + Counted(status, stored)
      /\ Gained' = Gained + (IF status = "success" THEN 1 ELSE 0)
  <2>1. Gained' = Cardinality(With(observed', {"success"}))
    BY DEF Gained, Noted, With
  <2> QED BY InvokeCounts, GainedIsCount, <2>1 DEF IInv, CountInv
<1>4. failures \in Nat /\ Gained \in Nat
  BY CountFinite, GainedIsCount DEF IInv, CountInv
<1>5. /\ status = "success" => Counted(status, stored) \in {0, 1}
      /\ status # "success" => Counted(status, stored) \in {1, 2}
  BY DEF Counted
<1> QED BY <1>1, <1>2, <1>3, <1>4, <1>5 DEF Round!Spend, Gained

LEMMA SummarizeMaps ==
  ASSUME IInv, NEW c \in {38, 72} \cup Confidences, Summarize(c)
  PROVE  Round!Judge
<1>1. /\ pc = "summarize" /\ outcome = "none"
      /\ pc' = "idle" /\ outcome' = "summary"
      /\ UNCHANGED <<done, observed, failures>>
      /\ verdict' = FinalAnswerVerification(observed, c)
  BY DEF Summarize, EndTurn, IInv, PhaseInv
<1>2. Stage = "open" /\ Stage' = "judged"
  BY <1>1 DEF Stage, Investigating
<1>3. verdict'.accepted <=> \E i \in DOMAIN observed : observed[i].status = "success"
  <2> DEFINE good == {i \in DOMAIN observed : observed[i].status = "success"}
             refs == UNION {observed[i].refs : i \in DOMAIN observed}
  <2>1. verdict'.accepted = (good # {} /\ refs # {})
    BY <1>1 DEF FinalAnswerVerification
  <2>2. ASSUME NEW i \in good PROVE refs # {}
    BY <2>2 DEF IInv, CountInv, Notes, IsNote
  <2>3. good # {} <=> \E i \in DOMAIN observed : observed[i].status = "success"
    OBVIOUS
  <2> HIDE DEF good, refs
  <2> QED BY <2>1, <2>2, <2>3
<1>4. verdict'.accepted = (Gained > 0)
  <2>1. verdict'.accepted \in BOOLEAN
    BY <1>1 DEF FinalAnswerVerification
  <2> QED BY <1>3, <2>1, GainedIsCount
<1>5. Gained' = Gained
  BY <1>1 DEF Gained, Noted
<1> QED BY <1>1, <1>2, <1>4, <1>5 DEF Round!Judge, Gained

LEMMA PlanMaps ==
  ASSUME IInv, NEW a, NEW m, PlanTurn(a, m)
  PROVE  Round!Open \/ UNCHANGED Round!roundVars
<1>1. /\ pc = "plan" /\ outcome = "none" /\ UNCHANGED toolVars
      /\ observed = <<>> /\ done = 0 /\ failures = 0 /\ verdict.accepted = FALSE
  BY DEF PlanTurn, IInv, PhaseInv
<1>2. Stage = "none"
  BY <1>1 DEF Stage, Investigating
<1>3. CASE pc' = "tools"
  <2>1. Stage' = "open"
    BY <1>3 DEF Stage, Investigating
  <2>2. Cardinality(Noted("success"))' = 0
    <3>1. Noted("success")' = {}
      BY <1>1 DEF toolVars, Noted
    <3> QED BY <3>1, FS_EmptySet
  <2> QED BY <1>1, <1>2, <2>1, <2>2 DEF Round!Open, toolVars
<1>4. ASSUME NEW x, pc' = "idle", outcome' = Conclusion(x)
      PROVE  UNCHANGED Round!roundVars
  <2>1. Conclusion(x) # "summary"
    BY DEF Conclusion
  <2>2. Stage' = "none"
    BY <1>4, <2>1 DEF Stage, Investigating
  <2> QED BY <1>1, <1>2, <2>2, StutterMaps
<1> QED BY <1>3, <1>4 DEF PlanTurn, EndTurn

LEMMA StepMaps == IInv /\ [Next]_vars => [Round!RoundNext]_(Round!roundVars)
<1> SUFFICES ASSUME IInv, [Next]_vars
             PROVE  Round!RoundNext \/ UNCHANGED Round!roundVars
  OBVIOUS
<1> DEFINE Quiet == UNCHANGED Round!roundVars
           Goal  == Round!RoundNext \/ Quiet
<1>0. /\ pc # "idle" => outcome = "none"
      /\ outcome # "summary" => verdict.accepted = FALSE
      /\ Stage = "none" => verdict.accepted = FALSE
  <2>1. PhaseInv  BY DEF IInv
  <2>2. Stage = "none" => outcome # "summary"
    <3> SUFFICES ASSUME outcome = "summary" PROVE Stage # "none"
      OBVIOUS
    <3>1. pc = "idle"  BY <2>1 DEF PhaseInv
    <3>2. Stage = "judged"  BY <3>1 DEF Stage, Investigating
    <3> QED BY <3>2
  <2> QED BY <2>1, <2>2 DEF PhaseInv
<1>1. ASSUME pc' \in {"idle", "triage", "gate", "plan"},
             pc' = "idle" => outcome' # "summary",
             verdict'.accepted = FALSE
      PROVE  Goal
  <2>1. Stage' = "none"
    BY <1>1 DEF Stage, Investigating
  <2> QED BY <1>0, <1>1, <2>1, ForgetMaps DEF Round!RoundNext
<1>2. ASSUME UNCHANGED toolVars, UNCHANGED <<pc, outcome>>
      PROVE  Goal
  <2>1. Stage' = Stage
    BY <1>2 DEF Stage, Investigating
  <2> QED BY <1>2, <2>1, StutterMaps
<1> SUFFICES Goal
  OBVIOUS
<1> HIDE DEF Goal
<1>3. ASSUME NEW m \in Messages, Receive(m) PROVE Goal
  BY <1>1, <1>3 DEF Receive, NoVerdict
<1>4. CASE ToggleAgent
  BY <1>2, <1>4 DEF ToggleAgent
<1>5. CASE DirectAnswer \/ ClassifyFails \/ GateRefuses \/ TurnFails
  <2>1. /\ pc # "idle" /\ pc' = "idle" /\ UNCHANGED verdict
        /\ outcome' # "summary"
    BY <1>5 DEF DirectAnswer, ClassifyFails, GateRefuses, TurnFails, EndTurn,
                toolVars
  <2> QED BY <1>0, <1>1, <2>1
<1>6. ASSUME NEW a \in LLMAnswers, ClassifyAndExtract(a) PROVE Goal
  BY <1>0, <1>1, <1>6 DEF ClassifyAndExtract, toolVars
<1>7. ASSUME NEW T \in Catalogues, NEW K \in KnowledgeBases, GateOpens(T, K)
      PROVE  Goal
  BY <1>0, <1>1, <1>7 DEF GateOpens, toolVars
<1>8. ASSUME NEW a \in Advices, NEW m \in BOOLEAN, PlanTurn(a, m) PROVE Goal
  BY <1>8, PlanMaps DEF Goal, Round!RoundNext
<1>9. ASSUME NEW st \in Statuses, NEW b \in BOOLEAN, InvokeTool(st, b) PROVE Goal
  BY <1>9, InvokeMaps DEF Goal, Round!RoundNext
<1>10. CASE InvokeFails \/ SummarizeFails
  <2>1. /\ pc # "idle" /\ pc' = "idle" /\ UNCHANGED verdict
        /\ outcome' # "summary"
    BY <1>10 DEF InvokeFails, MayInvoke, SummarizeFails, EndTurn, toolVars
  <2> QED BY <1>0, <1>1, <2>1
<1>11. CASE StopInvoking
  <2>1. /\ UNCHANGED toolVars /\ UNCHANGED outcome
        /\ pc = "tools" /\ pc' = "summarize"
    BY <1>11 DEF StopInvoking
  <2>2. Stage = "open" /\ Stage' = "open"
    BY <2>1 DEF Stage, Investigating
  <2> QED BY <2>1, <2>2, StutterMaps DEF Goal
<1>12. ASSUME NEW c \in {38, 72} \cup Confidences, Summarize(c) PROVE Goal
  BY <1>12, SummarizeMaps DEF Goal, Round!RoundNext
<1>13. CASE UNCHANGED vars
  BY <1>2, <1>13 DEF vars
<1> QED
  BY <1>3, <1>4, <1>5, <1>6, <1>7, <1>8, <1>9, <1>10, <1>11, <1>12, <1>13
     DEF Next, Statuses

(* Every behaviour of the turns is, seen through the mapping, one of the   *)
(* evidence rounds, whatever the models, the Gateway and the user do.      *)
THEOREM TurnsImplementRounds == Spec => ImplementsRound
BY RoundInitially, StepMaps, InvariantHolds, PTL
   DEF Spec, ImplementsRound, Round!RoundSpec
=============================================================================
