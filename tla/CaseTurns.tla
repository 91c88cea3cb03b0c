------------------------------- MODULE CaseTurns -------------------------------
(***************************************************************************)
(* The turns of one case: AgentPlatform.process_case (agent_platform/      *)
(* service.py) from the user's message to the reply, with what each step   *)
(* decides.  CaseProcessing models who runs it and how the case's status   *)
(* moves, with an arbitrary decision; here one turn runs at a time and the *)
(* decision is that of modules Intake and DecisionEngine.                  *)
(*                                                                         *)
(* Between two steps the user may enable or disable a decision agent.      *)
(* What the models, the Gateway and the stored experience answer is taken  *)
(* from the constants.                                                     *)
(***************************************************************************)
EXTENDS DecisionEngine

CONSTANTS
    Messages,        \* what a user may say: sets of words
    MaxMessages,     \* bound on the messages of the case
    LLMAnswers,      \* answers of the classifying model, NoAnswer among them
    Catalogues,      \* tool listings of the Gateway; {} when it fails
    KnowledgeBases,  \* what list_knowledge may find
    Advices,         \* answers of the decision model, Silent among them
    Confidences,     \* what the summarising model may say of itself, in percent
    MaxToolCalls,    \* config.max_tool_calls_per_case
    MaxToolFailures, \* config.max_tool_failures_per_case
    AdvisorDisabled  \* DECISION_LLM_ENABLED is set to false

ASSUME BudgetsAssumption ==
    /\ MaxToolCalls \in Nat
    /\ MaxToolFailures \in Nat

\* the shapes of what is said and answered; the listing of a Gateway that
\* does not answer is empty
ASSUME AnswersAssumption ==
    /\ MaxMessages \in Nat
    /\ Messages \subseteq SUBSET Words
    /\ {} \in Catalogues
    /\ KnowledgeBases \subseteq Seq([id : STRING, confidence : Nat, cases : Nat])
    /\ \A advice \in Advices : advice.tools \in Seq(STRING)
    /\ Confidences \subseteq Int

VARIABLES
    text,      \* case.original_text: the messages so far
    taxonomy,  \* issue_domain and issue_type of the case row
    entities,  \* entity_map(case_id)
    agent,     \* is a real decision agent enabled
    pc,        \* where the turn is
    listing,   \* the tools the Gateway listed in this turn
    found,     \* the stored experience found in this turn
    response,  \* the verified plan of this turn
    done,      \* items of the plan that were invoked
    observed,  \* observations: a sequence of [tool, status, refs]
    failures,  \* the failure counter of _invoke_tools
    verdict,   \* [accepted, confidence]
    outcome    \* how the last turn ended

caseRow  == <<text, taxonomy, entities>>
turnVars == <<listing, found, response>>
toolVars == <<done, observed, failures, verdict>>
vars == <<caseRow, agent, pc, turnVars, toolVars, outcome>>

NoResponse == [by |-> NoValue, action |-> NoValue, plan |-> <<>>,
               missing |-> <<>>, source |-> NoValue, accepted |-> FALSE]
NoVerdict  == [accepted |-> FALSE, confidence |-> 0]

Known == taxonomy.domain # "" \/ taxonomy.type # ""

Request ==
    [text |-> text, domain |-> taxonomy.domain, type |-> taxonomy.type,
     entities |-> entities, available |-> listing, knowledge |-> found,
     brief |-> BriefHypotheses(text, taxonomy.domain, listing, found),
     maxToolCalls |-> MaxToolCalls]

Init ==
    /\ text = <<>>
    /\ taxonomy = [domain |-> "", type |-> ""]
    /\ entities = NoEntities
    /\ agent \in BOOLEAN
    /\ pc = "idle"
    /\ listing = {} /\ found = <<>> /\ response = NoResponse
    /\ done = 0 /\ observed = <<>> /\ failures = 0
    /\ verdict = NoVerdict
    /\ outcome = "none"

EndTurn(how) == pc' = "idle" /\ outcome' = how

-----------------------------------------------------------------------------
\* the next message of the user, while no turn runs
Receive(message) ==
    /\ pc = "idle"
    /\ Len(text) < MaxMessages
    /\ text' = Append(text, message)
    /\ pc' = "triage"
    /\ listing' = {} /\ found' = <<>> /\ response' = NoResponse
    /\ done' = 0 /\ observed' = <<>> /\ failures' = 0
    /\ verdict' = NoVerdict
    /\ outcome' = "none"
    /\ UNCHANGED <<taxonomy, entities, agent>>

\* enable_local_agent for the provider the decisions are taken with
ToggleAgent ==
    /\ agent' = ~agent
    /\ UNCHANGED <<caseRow, pc, turnVars, toolVars, outcome>>

DirectAnswer ==
    /\ pc = "triage"
    /\ ShouldDirectAnswerLatestMessage(text[Len(text)], Known)
    /\ EndTurn("direct")
    /\ UNCHANGED <<caseRow, agent, turnVars, toolVars>>

\* Mutant: the last value stored for a key wins.
RememberLast(new) == Overlay(new, entities)

\* entity_map: the first value stored for a key wins
Remember(new) == Overlay(entities, new)

ClassifyAndExtract(answer) ==
    /\ pc = "triage"
    /\ ~ShouldDirectAnswerLatestMessage(text[Len(text)], Known)
    /\ LET merged == MergeLLMResult(ClassifyAndExtractRules(text), answer)
       IN  /\ taxonomy' = [domain |-> merged.domain, type |-> merged.type]
           /\ entities' = Remember(merged.entities)
    /\ pc' = "gate"
    /\ UNCHANGED <<text, agent, turnVars, toolVars, outcome>>

\* the model fails and config.llm.allow_rule_fallback is off
ClassifyFails ==
    /\ pc = "triage"
    /\ ~ShouldDirectAnswerLatestMessage(text[Len(text)], Known)
    /\ EndTurn("failed")
    /\ UNCHANGED <<caseRow, agent, turnVars, toolVars>>

\* without a decision agent: ask what the preflight misses, or refuse
GateRefuses ==
    /\ pc = "gate"
    /\ ~agent
    /\ EndTurn(IF PreflightMissingFields(text, taxonomy.domain, entities) # {}
               THEN "asked" ELSE "blocked")
    /\ UNCHANGED <<caseRow, agent, turnVars, toolVars>>

\* with one: list the tools and the stored experience
GateOpens(tools, items) ==
    /\ pc = "gate"
    /\ agent
    /\ listing' = tools
    /\ found' = IF taxonomy.domain = "" THEN <<>> ELSE items
    /\ pc' = "plan"
    /\ UNCHANGED <<caseRow, agent, response, toolVars, outcome>>

\* anything that raises at the gate or in planning ends in process_case's except
TurnFails ==
    /\ pc \in {"gate", "plan"}
    /\ EndTurn("failed")
    /\ UNCHANGED <<caseRow, agent, turnVars, toolVars>>

\* Mutant: the reply of an action is not told from the action.
Verbatim(action) == action

\* the branch of process_case on the action of the plan
Conclusion(action) ==
    CASE action = "ask_user" -> "asked"
      [] action = "answer_from_knowledge" -> "knowledge"
      [] action = "local_code_inspection" -> "local_code"
      [] OTHER -> "human"

(***************************************************************************)
(* DecisionEngine.plan and the branch on its action.  The advisor asks the *)
(* runtime row again: an agent disabled since the gate gives no advice.    *)
(***************************************************************************)
PlanTurn(advice, matched) ==
    /\ pc = "plan"
    /\ advice = Silent \/ (agent /\ ~AdvisorDisabled)
    /\ LET planned == Plan(Request, advice, matched)
       IN  /\ response' = planned
           /\ IF planned.action = "invoke_tools"
              THEN pc' = "tools" /\ UNCHANGED outcome
              ELSE EndTurn(Conclusion(planned.action))
    /\ UNCHANGED <<caseRow, agent, listing, found, toolVars>>

-----------------------------------------------------------------------------
(* _invoke_tools *)

\* Mutant: the loop does not look at its failures.
MayInvokeRegardless ==
    pc = "tools" /\ done < MaxToolCalls /\ done < Len(response.plan)

\* for plan in tool_plan[:max_tool_calls_per_case], up to the failure budget
MayInvoke ==
    /\ pc = "tools"
    /\ done < MaxToolCalls
    /\ done < Len(response.plan)
    /\ failures < MaxToolFailures

\* a 200 of the Gateway carries its call id, whatever status the adapter gave
Observation(tool, status) ==
    [tool |-> tool, status |-> status,
     refs |-> IF status = "failed" THEN {} ELSE {tool}]

\* Mutant: only a call that raises is a failure.
RaisedOnly(status, stored) == IF status = "failed" \/ ~stored THEN 1 ELSE 0

\* an answer that is no success counts, and so does what raises after it
Counted(status, stored) ==
    (IF status = "success" THEN 0 ELSE 1) + (IF stored THEN 0 ELSE 1)

\* Mutant: a call whose note was not stored is made again.
InvokeToolAgain(status, stored) ==
    /\ MayInvoke
    /\ status = "failed" => stored
    /\ LET tool == response.plan[done + 1].tool
           seen == Append(observed, Observation(tool, status))
       IN  /\ observed' = IF stored THEN seen
                          ELSE Append(seen, Observation(tool, "failed"))
           /\ failures' = failures + Counted(status, stored)
    /\ done' = IF stored THEN done + 1 ELSE done
    /\ UNCHANGED <<caseRow, agent, pc, turnVars, verdict, outcome>>

(***************************************************************************)
(* One call: the Gateway answers "success" or "partial" (a status of the   *)
(* adapter's own), or the call raises ("failed").  When an answer was      *)
(* noted and storing it raises, the handler notes a failure of the same    *)
(* tool and counts it.                                                     *)
(***************************************************************************)
InvokeTool(status, stored) ==
    /\ MayInvoke
    /\ status = "failed" => stored
    /\ LET tool == response.plan[done + 1].tool
           seen == Append(observed, Observation(tool, status))
       IN  /\ observed' = IF stored THEN seen
                          ELSE Append(seen, Observation(tool, "failed"))
           /\ failures' = failures + Counted(status, stored)
    /\ done' = done + 1
    /\ UNCHANGED <<caseRow, agent, pc, turnVars, verdict, outcome>>

\* storing the note of a failure raises: process_case fails
InvokeFails ==
    /\ MayInvoke
    /\ EndTurn("failed")
    /\ UNCHANGED <<caseRow, agent, turnVars, toolVars>>

\* tool_query_stopped, or the plan is done
StopInvoking ==
    /\ pc = "tools"
    /\ ~MayInvoke
    /\ pc' = "summarize"
    /\ UNCHANGED <<caseRow, agent, turnVars, toolVars, outcome>>

\* Mutant: any evidence reference will do.
FinalAnswerVerificationByRefs(notes, confidence) ==
    LET refs == UNION {notes[i].refs : i \in DOMAIN notes}
        accepted == refs # {}
    IN  [accepted |-> accepted,
         confidence |-> IF accepted \/ confidence < 45 THEN confidence ELSE 45]

\* final_answer_verification, confidences in percent
FinalAnswerVerification(notes, confidence) ==
    LET good == {i \in DOMAIN notes : notes[i].status = "success"}
        refs == UNION {notes[i].refs : i \in DOMAIN notes}
        accepted == good # {} /\ refs # {}
    IN  [accepted |-> accepted,
         confidence |-> IF accepted \/ confidence < 45 THEN confidence ELSE 45]

\* _summarize: 0.72 or 0.38, or what the summarising model says of itself,
\* which nothing clamps
Summarize(confidence) ==
    /\ pc = "summarize"
    /\ confidence \in {IF observed = <<>> THEN 38 ELSE 72} \cup Confidences
    /\ verdict' = FinalAnswerVerification(observed, confidence)
    /\ EndTurn("summary")
    /\ UNCHANGED <<caseRow, agent, turnVars, done, observed, failures>>

\* the summarising model fails and config.llm.allow_rule_fallback is off
SummarizeFails ==
    /\ pc = "summarize"
    /\ EndTurn("failed")
    /\ UNCHANGED <<caseRow, agent, turnVars, toolVars>>

Next ==
    \/ \E m \in Messages : Receive(m)
    \/ ToggleAgent
    \/ DirectAnswer
    \/ \E a \in LLMAnswers : ClassifyAndExtract(a)
    \/ ClassifyFails
    \/ GateRefuses
    \/ \E T \in Catalogues, K \in KnowledgeBases : GateOpens(T, K)
    \/ \E a \in Advices, m \in BOOLEAN : PlanTurn(a, m)
    \/ TurnFails
    \/ \E s \in {"success", "partial", "failed"}, b \in BOOLEAN :
          InvokeTool(s, b)
    \/ InvokeFails
    \/ StopInvoking
    \/ \E c \in {38, 72} \cup Confidences : Summarize(c)
    \/ SummarizeFails

Spec == Init /\ [][Next]_vars

-----------------------------------------------------------------------------
Outcomes == {"none", "direct", "failed", "asked", "blocked", "knowledge",
             "local_code", "human", "summary"}
Statuses == {"success", "partial", "failed"}

\* The type invariant.
TypeOK ==
    /\ text \in Seq(SUBSET Words) /\ Len(text) <= MaxMessages
    /\ DOMAIN taxonomy = {"domain", "type"}
    /\ agent \in BOOLEAN
    /\ pc \in {"idle", "triage", "gate", "plan", "tools", "summarize"}
    /\ listing \in Catalogues
    /\ response.action \in Actions \cup {NoValue}
    /\ done \in 0..MaxToolCalls
    /\ \A i \in DOMAIN observed : observed[i].status \in Statuses
    /\ failures \in Nat
    /\ verdict.accepted \in BOOLEAN /\ verdict.confidence \in Int
    /\ outcome \in Outcomes

\* Whatever the advisor answers, a plan that is carried out names each tool
\* once, stays within the tool budget, names only tools of the listing (when
\* the Gateway gave one), and ties each call to a hypothesis of the brief or
\* to the fixed one (Verifier.verify).
VerifiedPlan ==
    response.action = "invoke_tools" =>
      LET plan  == response.plan
          brief == Request.brief
      IN  /\ Len(plan) \in 1..ToolBudget(MaxToolCalls)
          /\ \A i, j \in DOMAIN plan : plan[i].tool = plan[j].tool => i = j
          /\ \A i \in DOMAIN plan :
               /\ listing = {} \/ plan[i].tool \in listing
               /\ \/ \E h \in DOMAIN brief :
                       /\ brief[h].id = plan[i].hypothesis
                       /\ plan[i].tool \in ToSet(brief[h].tools)
                  \/ /\ plan[i].hypothesis = "readonly_evidence"
                     /\ \A h \in DOMAIN brief :
                          plan[i].tool \notin ToSet(brief[h].tools)

\* Once any message of the case asked for live evidence, the platform's own
\* rules never answer from stored experience, in no later turn and however
\* the case is classified by then (KnowledgeAgent.best_knowledge); what they
\* do reuse was found in this turn, confident and seen twice.  An
\* answer_from_knowledge of the advisor's own is not held to this: its report
\* passes the verifier with any source it names (agent_team.py:473).
RulesReuseNoStaleExperience ==
    response.action = "answer_from_knowledge" =>
      \/ response.by = "llm_decision_agent"
      \/ /\ \A i \in DOMAIN text :
              text[i] \cap {"today", "nodata", "debug"} = {}
         /\ \E i \in DOMAIN found :
              /\ found[i].id = response.source
              /\ found[i].confidence >= 88 /\ found[i].cases >= 2

\* The observations are those of the first "done" calls of the plan, in its
\* order, every call with at least one note (_invoke_tools): what a failed
\* bookkeeping adds is a second note of the same call.
ObservationsFollowPlan ==
    Distinct([i \in DOMAIN observed |-> observed[i].tool])
      = [i \in 1..done |-> response.plan[i].tool]

\* The failure counter agrees with the notes the turn has taken, whatever was
\* stored of them; it overshoots the limit by one at most, when an answer that
\* is no success is also badly stored (_invoke_tools, lines 857 and 881).
FailuresAreObserved ==
    /\ failures = Cardinality({i \in DOMAIN observed :
                                  observed[i].status # "success"})
    /\ failures <= MaxToolFailures + 1

\* A confidence above 0.45 is reported only on a successful call, however
\* sure the summarising model is of itself (final_answer_verification).
ConfidenceIsEarned ==
    outcome = "summary" /\ verdict.confidence > 45 =>
      \E i \in DOMAIN observed : observed[i].status = "success"

\* The value the case has stored for an entity key never changes again and is
\* never forgotten, whatever later messages and models say (entity_map).  It
\* is a promise about each key: uid and user_id are keys of their own, and may
\* come to name two users.
EntitiesAreWriteOnce ==
    [][\A key \in DOMAIN entities :
          key \in DOMAIN entities' /\ entities'[key] = entities[key]]_vars

(***************************************************************************)
(* A turn that investigates is a round of EvidenceRound.                   *)
(***************************************************************************)
Investigating == pc \in {"tools", "summarize"}
Stage == CASE Investigating -> "open"
           [] pc = "idle" /\ outcome = "summary" -> "judged"
           [] OTHER -> "none"
Noted(status) == {i \in DOMAIN observed : observed[i].status = status}

Round == INSTANCE EvidenceRound WITH
    Budget      <- MaxToolCalls,
    MaxFailures <- MaxToolFailures,
    stage       <- Stage,
    spent       <- IF Stage = "none" THEN 0 ELSE done,
    wasted      <- IF Stage = "none" THEN 0 ELSE failures,
    gained      <- IF Stage = "none" THEN 0 ELSE Cardinality(Noted("success")),
    accepted    <- verdict.accepted

\* Every turn opens, spends and judges as an evidence round does: no call
\* beyond the two budgets, and a verdict that is accepted exactly when a
\* call of this very turn succeeded.
ImplementsRound == Round!RoundSpec

\* docs/decision-logging-and-limits.md:3, "检查必要字段，信息足够后只执行一轮
\* 有上限的只读工具查询": with a required field missing no readonly tool is called.
MissingFieldsBlockTools ==
    response.action = "invoke_tools" =>
      MissingFields(entities, taxonomy.domain) = <<>>
=============================================================================
