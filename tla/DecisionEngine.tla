----------------------------- MODULE DecisionEngine -----------------------------
(***************************************************************************)
(* SupervisorAgentTeam.plan of decision_engine/agent_team.py: from a       *)
(* decision request to a verified response, with the investigation brief   *)
(* of service.py and the model advisor of decision_advisor.py.             *)
(*                                                                         *)
(* A request is a record                                                   *)
(*   text, domain, type, entities   the case (module Intake)               *)
(*   available                      tools the Gateway listed               *)
(*   knowledge                      stored experience: a sequence of       *)
(*                                  [id, confidence (percent), cases]      *)
(*   brief                          the hypotheses: [id, tools]            *)
(*   maxToolCalls                                                          *)
(* A report and a proposal are records of who made it (by), action, plan   *)
(* (a sequence of [tool, hypothesis, reasoned]), missing, source.  Reasons *)
(* count only as present or blank; arguments and confidences are left out. *)
(***************************************************************************)
EXTENDS Intake, Integers, Lists

RequiredFieldsByDomain ==
    [kline |-> <<"symbol", "interval", "abnormal_time", "issue_type">>,
     asset |-> <<"asset_symbol", "abnormal_time", "issue_type">>,
     health_food |-> <<"issue_type">>]

DefaultToolsByDomain ==
    [kline |-> <<"get_internal_kline", "get_external_kline_compare",
                 "get_kline_cache_status", "get_market_source_status",
                 "get_similar_cases">>,
     asset |-> <<"get_asset_snapshot", "get_asset_events",
                 "get_user_recent_errors", "get_similar_cases">>,
     health_food |-> <<"get_health_food_user_profile",
                       "get_health_food_ai_quota",
                       "get_health_food_meal_records",
                       "get_health_food_recommendation_status",
                       "search_logs_by_service", "get_similar_cases">>,
     default |-> <<"search_logs_by_service", "get_recent_deployments",
                   "get_similar_cases">>]

\* max(1, min(max_tool_calls, 10))
ToolBudget(n) == IF n < 1 THEN 1 ELSE IF n > 10 THEN 10 ELSE n

-----------------------------------------------------------------------------
(* The investigation brief (_brief_hypotheses) *)

\* a hypothesis with the tools it needs, when it applies
Hypothesis(applies, id, needs) ==
    IF applies THEN <<[id |-> id, tools |-> needs]>> ELSE <<>>

\* domain, type and entity values name health-food exactly when the text or
\* the domain does
BriefHypotheses(text, domain, available, knowledge) ==
    LET words  == WordsOf(text)
        health == domain = "health_food" \/ words \cap {"token", "recommend"} # {}
        all ==
          Hypothesis(health /\ "token" \in words, "quota_or_entitlement",
             <<"get_health_food_ai_quota", "get_health_food_user_profile">>)
          \o Hypothesis(health /\ "recommend" \in words,
             "recommendation_generation",
             <<"get_health_food_recommendation_status">>)
          \o Hypothesis(health /\ "recommend" \in words,
             "input_data_completeness", <<"get_health_food_meal_records">>)
          \o Hypothesis(health, "user_eligibility",
             <<"get_health_food_user_profile">>)
          \o Hypothesis(TRUE, "service_error", <<"search_logs_by_service">>)
          \o Hypothesis(knowledge # <<>>, "historical_pattern", <<>>)
          \o Hypothesis(TRUE, "similar_case", <<"get_similar_cases">>)
        usable == Only(all, {h \in ToSet(all) :
                    h.tools = <<>> \/ ToSet(h.tools) \cap available # {}})
        bound  == [i \in DOMAIN usable |->
                    [id |-> usable[i].id,
                     tools |-> Only(usable[i].tools, available)]]
    IN  Prefix(bound, 6)

\* _tool_brief_binding: the first hypothesis that names the tool, or the
\* fixed table's (one name for all of its rows)
ToolBriefBinding(tool, brief) ==
    LET naming == {i \in DOMAIN brief : tool \in ToSet(brief[i].tools)}
    IN  IF naming = {} THEN "readonly_evidence"
        ELSE brief[CHOOSE i \in naming : \A j \in naming : i <= j].id

\* _brief_preferred_tools
BriefPreferredTools(brief, fallback) ==
    Distinct(FlattenSeq([i \in DOMAIN brief |-> brief[i].tools]) \o fallback)

\* _health_food_preferred_tools; the values of type and entities hold "food"
\* when the rules made the case a health-food one
HealthFoodPreferredTools(req, fallback) ==
    LET words == WordsOf(req.text)
        priority ==
          IF "token" \in words
          THEN <<"get_health_food_ai_quota", "get_health_food_user_profile",
                 "search_logs_by_service", "get_similar_cases">>
          ELSE IF \/ "recommend" \in words
                  \/ Given(req.entities, "service_name")
          THEN <<"get_health_food_recommendation_status",
                 "get_health_food_meal_records",
                 "get_health_food_user_profile",
                 "search_logs_by_service", "get_similar_cases">>
          ELSE <<>>
    IN  Distinct(priority \o fallback)

-----------------------------------------------------------------------------
(* The agents *)

Report(by, action, missing, plan, source) ==
    [by |-> by, action |-> action, missing |-> missing, plan |-> plan,
     source |-> source]

\* KnowledgeAgent.best_knowledge: only the most confident candidate counts
BestKnowledge(req) ==
    LET K == req.knowledge
        Above(i, j) == \/ K[i].confidence > K[j].confidence
                       \/ /\ K[i].confidence = K[j].confidence
                          /\ K[i].cases > K[j].cases
        tops  == {i \in DOMAIN K : \A j \in DOMAIN K : ~Above(j, i)}
        best  == CHOOSE i \in tops : \A j \in tops : i <= j
    IN  IF /\ K # <<>>
           /\ K[best].confidence >= 88
           /\ K[best].cases >= 2
           /\ ~RequestRequiresRealtime(req.text, req.entities)
        THEN K[best].id ELSE NoValue

\* LocalCodeAgent.should_run
LocalCodeShouldRun(entities) ==
    /\ Given(entities, "debug_local_code")
    /\ entities["debug_local_code"] = "true"
    /\ Given(entities, "gateway_evidence_status")
    /\ entities["gateway_evidence_status"] = "insufficient"

\* LocalCodeAgent.evaluate: matched is what the inspector found (its own module)
LocalCodeReport(entities, matched) ==
    LET action == IF Given(entities, "service_name") /\ matched
                  THEN "local_code_inspection" ELSE "need_human"
    IN  Report("local_code_agent", action, <<>>, <<>>, NoValue)

\* SupervisorAgentTeam.missing_fields
MissingFields(entities, domain) ==
    LET fields == IF domain \in Taxonomies THEN RequiredFieldsByDomain[domain]
                  ELSE <<>>
        absent == SelectSeq(fields, LAMBDA f : ~Given(entities, f))
        Nobody(keys) == \A k \in keys : ~Given(entities, k)
    IN  CASE domain = "asset" /\ Nobody({"user_id", "account_id"}) ->
               <<"user_id_or_account_id">> \o absent
          [] domain = "health_food" /\ Nobody({"user_id", "uid"}) ->
               <<"user_id_or_uid">> \o absent
          [] OTHER -> absent

\* Mutant: what the Gateway lists is not looked at.
UsableAlways(req, tool) == TRUE

\* an empty listing (the Gateway did not answer) filters nothing
Usable(req, tool) == req.available = {} \/ tool \in req.available

UsableTools(req, tools) == Only(tools, {t \in ToSet(tools) : Usable(req, t)})

\* SupervisorAgentTeam.select_tools
SelectTools(req, domain) ==
    LET brief  == BriefPreferredTools(req.brief, DefaultToolsByDomain[domain])
        ranked == IF domain = "health_food"
                  THEN HealthFoodPreferredTools(req, brief) ELSE brief
    IN  Prefix(UsableTools(req, ranked), ToolBudget(req.maxToolCalls))

BuildPlan(req, tools, reasoned) ==
    [i \in DOMAIN tools |->
        [tool |-> tools[i], reasoned |-> reasoned,
         hypothesis |-> ToolBriefBinding(tools[i], req.brief)]]

\* DomainAgent.evaluate and FallbackAgent.evaluate
SpecialistReport(req) ==
    LET domain   == IF req.domain \in Taxonomies THEN req.domain ELSE "default"
        missing  == MissingFields(req.entities, req.domain)
        selected == SelectTools(req, domain)
    IN  IF missing # <<>>
        THEN Report("specialist", "ask_user", Prefix(missing, 3), <<>>, NoValue)
        ELSE IF selected = <<>>
        THEN Report("specialist", "need_human", <<>>, <<>>, NoValue)
        ELSE Report("specialist", "invoke_tools", <<>>,
                    BuildPlan(req, selected, TRUE), NoValue)

-----------------------------------------------------------------------------
(* The advisor (decision_advisor.py) *)

Actions == {"ask_user", "answer_from_knowledge", "invoke_tools", "need_human",
            "local_code_inspection"}

\* _selected_tools
SelectedTools(tools, req) ==
    Prefix(Distinct(UsableTools(req, tools)), ToolBudget(req.maxToolCalls))

(***************************************************************************)
(* LLMDecisionAdvisor.evaluate: the report made of the model's answer      *)
(* [action, tools, missing, source, reason].  An absent or unknown action  *)
(* is the default proposal's; a reason of blanks is kept as it is.         *)
(***************************************************************************)
AdvisorReport(answer, req, default) ==
    LET action == IF answer.action \in Actions \cup {"skip"} THEN answer.action
                  ELSE default.action
        plan   == BuildPlan(req, SelectedTools(answer.tools, req),
                            answer.reason # "blank")
        backed == action = "invoke_tools" /\ plan = <<>>
    IN  Report("llm_decision_agent",
               IF backed THEN default.action ELSE action,
               Prefix(IF answer.missing # <<>> THEN answer.missing
                      ELSE default.missing, 5),
               IF backed THEN default.plan ELSE plan,
               IF answer.source # NoValue THEN answer.source
               ELSE default.source)

-----------------------------------------------------------------------------
(* The verifier *)

\* an item is kept while there is room, for a tool that is usable and new,
\* with a reason and a hypothesis
Keep(req, out, item) ==
    /\ Len(out) < ToolBudget(req.maxToolCalls)
    /\ \A i \in DOMAIN out : out[i].tool # item.tool
    /\ Usable(req, item.tool)
    /\ item.reasoned
    /\ item.hypothesis # ""

\* Verifier._normalize_tool_plan
NormalizeToolPlan(plan, req) ==
    LET kept[n \in 0 .. Len(plan)] ==
          IF n = 0 THEN <<>>
          ELSE IF Keep(req, kept[n - 1], plan[n])
          THEN Append(kept[n - 1], plan[n]) ELSE kept[n - 1]
    IN  kept[Len(plan)]

Response(proposal, action, plan, accepted) ==
    [by |-> proposal.by, action |-> action, plan |-> plan,
     missing |-> IF accepted THEN proposal.missing ELSE <<>>,
     source |-> IF accepted THEN proposal.source ELSE NoValue,
     accepted |-> accepted]

\* Verifier.verify
Verify(proposal, req) ==
    LET normalized == NormalizeToolPlan(proposal.plan, req)
        rejected   == Response(proposal, "need_human", <<>>, FALSE)
    IN  CASE proposal.action = "answer_from_knowledge" ->
               IF proposal.source = NoValue THEN rejected
               ELSE Response(proposal, proposal.action, <<>>, TRUE)
          [] proposal.action = "invoke_tools" ->
               IF normalized = <<>> THEN rejected
               ELSE Response(proposal, "invoke_tools", normalized, TRUE)
          [] proposal.action \in {"ask_user", "need_human",
                                  "local_code_inspection"} ->
               Response(proposal, proposal.action, <<>>, TRUE)
          [] OTHER -> rejected

(***************************************************************************)
(* SupervisorAgentTeam.plan.  advice is what the advisor answers: Silent   *)
(* when there is none, it returns None or it raises (the report is then    *)
(* "skip"); matched is the outcome of the local code inspection.           *)
(***************************************************************************)
Silent == [action |-> "skip", tools |-> <<>>, missing |-> <<>>,
           source |-> NoValue, reason |-> "given"]

Propose(req, advice, matched) ==
    LET known  == BestKnowledge(req)
        own    == SpecialistReport(req)
        advised == AdvisorReport(advice, req, own)
    IN  IF NeedsProblemDescription(req.text, req.domain, req.type, req.entities)
        THEN Report("intake_agent", "ask_user", <<"problem_description">>, <<>>,
                    NoValue)
        ELSE IF known # NoValue
        THEN Report("knowledge_agent", "answer_from_knowledge", <<>>, <<>>,
                    known)
        ELSE IF LocalCodeShouldRun(req.entities)
        THEN LocalCodeReport(req.entities, matched)
        ELSE IF advised.action = "skip" THEN own ELSE advised

Plan(req, advice, matched) == Verify(Propose(req, advice, matched), req)
=============================================================================
