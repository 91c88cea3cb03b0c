------------------------------ MODULE MCCaseTurns ------------------------------
(* Instances of CaseTurns for TLC. *)
EXTENDS CaseTurns

\* a health-food report, its follow-ups, a kline and an asset report, chatter
MCMessages ==
    {{"recommend", "uid:1"}, {"uid:2"}, {"today"}, {"token"},
     {"kline", "symbol", "interval"}, {"asset", "coin"}, {"greeting"},
     {"model", "question"}, {"debug", "recommend", "uid:2"}}

\* no model; one that names another user and domain; one that fills fields
MCLLMAnswers ==
    {NoAnswer,
     [domain |-> "kline", type |-> "", entities |-> [uid |-> "uid:2"]],
     [domain |-> "asset", type |-> "odd",
      entities |-> [abnormal_time |-> "now", user_id |-> "uid:1"]]}

MCCatalogues ==
    {{}, {"get_health_food_recommendation_status", "search_logs_by_service",
          "get_health_food_user_profile", "get_asset_snapshot"}}

Item(id, confidence, cases) ==
    [id |-> id, confidence |-> confidence, cases |-> cases]
MCKnowledgeBases ==
    {<<>>, <<Item("k1", 88, 2), Item("k2", 95, 1)>>, <<Item("k1", 88, 2)>>}

Advice(action, tools, source, reason) ==
    [action |-> action, tools |-> tools, missing |-> <<>>, source |-> source,
     reason |-> reason]
MCAdvices ==
    {Silent,
     Advice("invoke_tools",
            <<"drop_table", "get_asset_snapshot", "search_logs_by_service",
              "get_asset_snapshot">>, NoValue, "given"),
     Advice("invoke_tools", <<"search_logs_by_service">>, NoValue, "blank"),
     Advice("answer_from_knowledge", <<>>, "k9", "given"),
     Advice("unheard_of", <<>>, NoValue, "given")}

\* below zero, below and above the cap, above one
MCConfidences == {-10, 40, 95, 250}
=============================================================================
