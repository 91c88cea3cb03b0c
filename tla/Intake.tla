-------------------------------- MODULE Intake --------------------------------
(***************************************************************************)
(* What the platform reads out of a user's text: the rule classifier and   *)
(* the merge with the model's answer (agent_platform/classifier.py), the   *)
(* triage and preflight predicates of service.py and the text predicates   *)
(* of decision_engine/agent_team.py.                                       *)
(*                                                                         *)
(* The code tests a text against keyword lists only, so a message is a set *)
(* of words, one word for each class of keywords some list tells apart,    *)
(* and a text is the sequence of its messages: original_text grows by      *)
(* appending.  No enumerated message is longer than 40 characters.         *)
(***************************************************************************)
EXTENDS Naturals, FiniteSets, Sequences

UidWords   == {"uid:1", "uid:2"}                     \* "uid: <value>"
TopicWords == {"token", "recommend", "kline", "asset"}
Words == UidWords \cup TopicWords \cup
         {"symbol", "interval", "coin",  \* BTCUSDT, 15m, USDT
          "nodata",                      \* is missing
          "today", "model", "question", "greeting",
          "debug",  \* debug_local_code=true gateway_evidence_status=insufficient
          "prose"}                       \* eight characters no list knows

NoValue == "none"
WordsOf(text) == UNION {text[i] : i \in DOMAIN text}

\* dict update: f overrides g
Overlay(f, g) == [k \in DOMAIN f \cup DOMAIN g |->
                    IF k \in DOMAIN f THEN f[k] ELSE g[k]]
NoEntities == [k \in {} |-> NoValue]
Given(entities, key) == key \in DOMAIN entities

-----------------------------------------------------------------------------
(* classifier.py *)

\* _extract_uid: re.search takes the first uid of the whole text
ExtractUid(text) ==
    LET with == {i \in DOMAIN text : text[i] \cap UidWords # {}}
        first == CHOOSE i \in with : \A j \in with : i <= j
    IN  IF with = {} THEN NoValue
        ELSE CHOOSE w \in UidWords : w \in text[first]

FoundEntities(text) ==
    LET uid == ExtractUid(text)
    IN  Overlay(
          IF "debug" \in WordsOf(text)
          THEN [debug_local_code |-> "true",
                gateway_evidence_status |-> "insufficient"]
          ELSE NoEntities,
          IF uid = NoValue THEN NoEntities
          ELSE [uid |-> uid, user_id |-> uid])

HealthFoodIssueType(words) ==
    CASE "token" \in words -> "ai_quota_abnormal"
      [] "token" \notin words /\ {"nodata", "recommend"} \subseteq words ->
            "recommendation_missing"
      [] OTHER -> "health_food_abnormal"

\* the entity a word stands for, when the text has the word
FromWord(words, word, key) ==
    IF word \in words THEN [k \in {key} |-> word] ELSE NoEntities

ClassifyAndExtractRules(text) ==
    LET words == WordsOf(text)
        found == FoundEntities(text)
        Result(domain, type, entities) ==
            [domain |-> domain, type |-> type,
             entities |-> Overlay(entities, found)]
    IN  CASE words \cap {"token", "recommend"} # {} ->
               LET type == HealthFoodIssueType(words)
               IN  Result("health_food", type,
                     Overlay([service_name |-> "health-food",
                              issue_type |-> type],
                             FromWord(words, "today", "recommendation_date")))
          [] words \cap {"token", "recommend"} = {} /\ "kline" \in words ->
               Result("kline", "kline_abnormal",
                 Overlay([issue_type |-> "kline_abnormal"],
                   Overlay(FromWord(words, "symbol", "symbol"),
                           FromWord(words, "interval", "interval"))))
          [] words \cap {"token", "recommend", "kline"} = {}
               /\ "asset" \in words ->
               Result("asset", "asset_balance_abnormal",
                 Overlay([issue_type |-> "asset_balance_abnormal"],
                         FromWord(words, "coin", "asset_symbol")))
          [] OTHER -> Result("", "", NoEntities)

\* _normalize_issue_domain; "" for a domain it does not know
NormalizeIssueDomain(value) ==
    CASE value \in {"health_food", "health"} -> "health_food"
      [] value \in {"kline", "market"} -> "kline"
      [] value = "asset" -> "asset"
      [] OTHER -> ""

Taxonomies == {"health_food", "kline", "asset"}

(***************************************************************************)
(* merge_llm_result.  The model's answer is a record of a domain and a     *)
(* type ("" when absent) and entities; NoAnswer is the empty payload of    *)
(* local rules and of a failed call that falls back.                       *)
(***************************************************************************)
NoAnswer == [domain |-> "", type |-> "", entities |-> NoEntities]

MergeLLMResult(rule, llm) ==
    LET known  == NormalizeIssueDomain(llm.domain)
        domain == CASE known # "" -> known
                    [] known = "" /\ rule.domain = "" -> llm.domain
                    [] OTHER -> rule.domain
        ruled  == domain \in Taxonomies /\ rule.type # ""
        type   == IF llm.type # "" /\ ~ruled THEN llm.type ELSE rule.type
        merged == Overlay(llm.entities, rule.entities)
        typed  == IF type = "" THEN merged
                  ELSE Overlay(merged, [issue_type |-> type])
    IN  IF llm = NoAnswer THEN rule
        ELSE [domain |-> domain, type |-> type,
              entities |->
                IF domain = "health_food" /\ Given(typed, "date")
                THEN Overlay(typed, [recommendation_date |-> typed["date"]])
                ELSE typed]

-----------------------------------------------------------------------------
(* Triage and preflight (service.py) *)

\* a bare identifier, or a time, once the case has a domain or a type
LooksLikeMissingFieldAnswer(message, known) ==
    /\ known
    /\ \/ message \in {{w} : w \in UidWords \cup
                             {"token", "symbol", "interval", "coin"}}
       \/ "today" \in message

BusinessWords == UidWords \cup {"asset", "kline", "recommend", "nodata"}

ShouldDirectAnswerLatestMessage(message, known) ==
    /\ message # {}
    /\ ~LooksLikeMissingFieldAnswer(message, known)
    /\ IF message \cap BusinessWords # {}
       THEN "model" \in message
       ELSE message \cap {"model", "question"} # {}

\* _low_signal_user_text: one bare word is shorter than 8 characters; a text
\* of two messages, the second with its label, is longer
LowSignalUserText(text) ==
    /\ Len(text) = 1
    /\ \/ text[1] \subseteq {"greeting"}
       \/ /\ Cardinality(text[1]) = 1
          /\ text[1] \cap {"prose", "debug", "nodata", "token", "recommend",
                           "asset"} = {}

UserIdentifiers == {"uid", "user_id", "account_id", "member_id"}

PreflightMissingFields(text, domain, entities) ==
    CASE LowSignalUserText(text) \/ domain = "" ->
            {"problem_description"}
      [] /\ ~LowSignalUserText(text)
         /\ domain \in {"health_food", "asset", "market"}
         /\ \A key \in UserIdentifiers : ~Given(entities, key) ->
            {"user_id_or_uid"}
      [] OTHER -> {}

-----------------------------------------------------------------------------
(* Text predicates of agent_team.py *)

\* Mutant: only the last message is looked at.
RealtimeByLastMessage(text, entities) ==
    \/ text # <<>> /\ text[Len(text)] \cap {"today", "nodata", "debug"} # {}
    \/ Given(entities, "recommendation_date") \/ Given(entities, "date")

\* words of the text, or a date among the entity values
RequestRequiresRealtime(text, entities) ==
    \/ WordsOf(text) \cap {"today", "nodata", "debug"} # {}
    \/ Given(entities, "recommendation_date") \/ Given(entities, "date")

DiagnosticEntities ==
    {"uid", "user_id", "account_id", "asset_symbol", "symbol", "interval",
     "service_name", "issue_type", "order_id", "case_no", "debug_local_code",
     "gateway_evidence_status"}

NeedsProblemDescription(text, domain, type, entities) ==
    /\ domain = "" /\ type = ""
    /\ DOMAIN entities \cap DiagnosticEntities = {}
    /\ WordsOf(text) \cap (UidWords \cup TopicWords \cup {"nodata", "debug"})
         = {}
=============================================================================
