--------------------------- MODULE CaseProcessing ---------------------------
(***************************************************************************)
(* How the Agent Platform takes in user messages and processes a case      *)
(* (AgentPlatform.submit_chat, submit_channel_message and process_case in  *)
(* agent_platform/service.py, over the tables of repository.py).           *)
(*                                                                         *)
(* A request is one HTTP request together with the process_case call it    *)
(* leads to: in the request's own thread (sync), or as a background task   *)
(* of the same server once the response is sent (async, channel).  All     *)
(* requests share the case table; MySQL runs in autocommit mode, so        *)
(* between any two repository calls of one request every other request may *)
(* move.  An action is therefore one repository call that changes the      *)
(* modelled state, with the reads and the pure code before it.  A          *)
(* repository call is atomic: it has its effect or it raises.              *)
(*                                                                         *)
(* Append-only tables nobody reads back for control (decision log, context *)
(* ledger, agent run events, entities) are left out; that writing to them  *)
(* may raise is kept.  Model answers are arbitrary choices.                *)
(***************************************************************************)
EXTENDS Integers, FiniteSets, CaseScheduler

CONSTANTS
    Requests,         \* the HTTP requests of a behaviour, each used once
    Cases,            \* rows of tb_troubleshoot_case
    ChannelCases,     \* the rows created for one Lark/Feishu message each
    NoCase,           \* "no row yet"
    Modes,            \* how messages arrive: some of "sync", "async", "channel"
    Faults,           \* what may go wrong outside the program: "crash", "db"
    MaxToolCalls,     \* config.max_tool_calls_per_case
    MaxToolFailures   \* config.max_tool_failures_per_case

ASSUME ConstantsAssumption ==
    /\ ChannelCases \subseteq Cases
    /\ NoCase \notin Cases
    /\ Modes \subseteq {"sync", "async", "channel"}
    /\ Faults \subseteq {"crash", "db"}
    /\ MaxToolCalls \in Nat
    /\ MaxToolFailures \in Nat

VARIABLES
    status,    \* case_status of every row; "absent" before the INSERT
    deleted,   \* rows soft-deleted by delete_case (status = 0)
    inbox,     \* user messages stored for a case, named by their request
    pc,        \* where each request is
    kind,      \* sync, async or channel
    target,    \* the case each request works on
    snap,      \* case_status a follow-up has read and not yet used
    act,       \* the action the decision layer chose
    left,      \* tools of the plan not yet invoked
    calls,     \* tools invoked
    failures,  \* the failure counter of _invoke_tools
    run,       \* run_status of the supervisor agent run
    chatRun,   \* run_status of the direct-chat agent run
    inv,       \* investigation_status of the investigation
    replied    \* has the request stored an agent or bot message

rows      == <<status, deleted>>
locals    == <<kind, target, snap>>
planVars  == <<act, left, calls, failures>>
records   == <<run, chatRun, inv>>
vars == <<rows, inbox, pc, locals, planVars, records, replied>>

-----------------------------------------------------------------------------
(* Where a request can be. *)

\* submit_chat and submit_channel_message, up to the claim of process_case
SubmitPcs == {"create_case", "add_message", "append_message", "append_update",
              "to_ready", "claim"}

\* the try block of process_case, before the write that settles the case ...
WorkPcs == {"start_run", "claim_write", "triage", "direct_start",
            "direct_answer", "classify", "gate", "plan", "ask_status",
            "wait_reply", "wait_status", "inv_status", "inv_open",
            "tool_status", "tools", "inv_close", "human_reply", "human_status"}

\* ... and after it
ClosePcs == {"chat_finish", "chat_event", "finish_run", "finish_event"}

\* the except block
ExceptPcs == {"except_run", "except_message", "except_status"}

\* the finally block: after a return, after an exception that was recorded,
\* and after a repository error inside the except block
FinallyPcs == {"finally", "finally_raised", "finally_errored"}

\* a request that is over: handled, turned away by the claim, recognised as a
\* redelivery, refused (the row is not there), failed with its failure
\* recorded, failed without, or gone with its process
EndPcs == {"done", "skipped", "duplicate", "rejected", "raised", "errored",
           "lost"}

BusyPcs == SubmitPcs \cup WorkPcs \cup ClosePcs \cup ExceptPcs \cup FinallyPcs

\* DecisionResponse.action, and what the paths without a plan do
PlannedActions == {"ask_user", "answer_from_knowledge",
                   "local_code_inspection", "need_human", "invoke_tools"}
Acts == PlannedActions \cup {"none", "blocked", "direct", "direct_failed"}

TypeOK ==
    /\ status \in [Cases -> Statuses \cup {"absent"}]
    /\ deleted \in [Cases -> BOOLEAN]
    /\ inbox \in [Cases -> SUBSET Requests]
    /\ pc \in [Requests -> BusyPcs \cup EndPcs \cup {"idle"}]
    /\ kind \in [Requests -> Modes \cup {"none"}]
    /\ target \in [Requests -> Cases \cup {NoCase}]
    /\ snap \in [Requests -> Statuses \cup {"absent"}]
    /\ act \in [Requests -> Acts]
    /\ left \in [Requests -> Nat]
    /\ calls \in [Requests -> Nat]
    /\ failures \in [Requests -> Nat]
    /\ run \in [Requests -> {"none", "running", "completed", "failed"}]
    /\ chatRun \in [Requests -> {"none", "running", "completed", "failed"}]
    /\ inv \in [Requests -> {"none", "running", "finished"}]
    /\ replied \in [Requests -> BOOLEAN]

Init ==
    /\ status = [c \in Cases |-> "absent"]
    /\ deleted = [c \in Cases |-> FALSE]
    /\ inbox = [c \in Cases |-> {}]
    /\ pc = [r \in Requests |-> "idle"]
    /\ kind = [r \in Requests |-> "none"]
    /\ target = [r \in Requests |-> NoCase]
    /\ snap = [r \in Requests |-> "absent"]
    /\ act = [r \in Requests |-> "none"]
    /\ left = [r \in Requests |-> 0]
    /\ calls = [r \in Requests |-> 0]
    /\ failures = [r \in Requests |-> 0]
    /\ run = [r \in Requests |-> "none"]
    /\ chatRun = [r \in Requests |-> "none"]
    /\ inv = [r \in Requests |-> "none"]
    /\ replied = [r \in Requests |-> FALSE]

-----------------------------------------------------------------------------
(* Helpers *)

\* Mutant: the queries forget AND status = 1.
LiveIgnoringDeleted(c) == status[c] # "absent"

\* a row the repository finds: every query says WHERE ... AND status = 1
Live(c) == status[c] # "absent" /\ ~deleted[c]

Goto(r, label) == pc' = [pc EXCEPT ![r] = label]

At(r, label) == pc[r] = label

(***************************************************************************)
(* Repository.update_case_fields with a case_status: the row must be live, *)
(* otherwise the call raises (see Raise and RefuseRequest).                *)
(***************************************************************************)
WriteStatus(r, s) ==
    /\ Live(target[r])
    /\ status' = [status EXCEPT ![target[r]] = s]
    /\ UNCHANGED deleted

\* _status_after_user_message, with the ACTIVE_STATUSES of service.py
StatusAfterUserMessage(s) ==
    IF s \in ActiveStatuses \cup {"READY_TO_INVESTIGATE"}
    THEN s ELSE "WAITING_USER_REPLY"

\* Verifier._tool_budget
ToolBudget ==
    LET capped == IF MaxToolCalls < 10 THEN MaxToolCalls ELSE 10
    IN  IF capped < 1 THEN 1 ELSE capped

-----------------------------------------------------------------------------
(* Intake: submit_chat and submit_channel_message *)

\* a web message without case_no: create_case under a fresh message id
SubmitChatNew(r, c, mode) ==
    /\ At(r, "idle")
    /\ mode \in Modes \cap {"sync", "async"}
    /\ c \notin ChannelCases
    /\ status[c] = "absent"
    /\ status' = [status EXCEPT ![c] = "NEW"]
    /\ kind' = [kind EXCEPT ![r] = mode]
    /\ target' = [target EXCEPT ![r] = c]
    /\ Goto(r, "add_message")
    /\ UNCHANGED <<deleted, inbox, snap, planVars, records, replied>>

\* a web message with case_no: _upsert_case reads the row it will update
SubmitChatFollowUp(r, c, mode) ==
    /\ At(r, "idle")
    /\ mode \in Modes \cap {"sync", "async"}
    /\ Live(c)
    /\ kind' = [kind EXCEPT ![r] = mode]
    /\ target' = [target EXCEPT ![r] = c]
    /\ snap' = [snap EXCEPT ![r] = status[c]]
    /\ Goto(r, "append_message")
    /\ UNCHANGED <<rows, inbox, planVars, records, replied>>

\* a channel event: a live row of this message id makes it a duplicate
SubmitChannel(r, c) ==
    /\ At(r, "idle")
    /\ "channel" \in Modes
    /\ c \in ChannelCases
    /\ kind' = [kind EXCEPT ![r] = "channel"]
    /\ target' = [target EXCEPT ![r] = c]
    /\ Goto(r, IF Live(c) THEN "duplicate" ELSE "create_case")
    /\ UNCHANGED <<rows, inbox, snap, planVars, records, replied>>

\* create_case of a channel message: INSERT, or the row another instance has
\* inserted meanwhile; the unique key of a deleted row makes the call raise
CreateChannelCase(r) ==
    /\ At(r, "create_case")
    /\ ~deleted[target[r]]
    /\ status' = [status EXCEPT ![target[r]] = IF @ = "absent" THEN "NEW" ELSE @]
    /\ Goto(r, "add_message")
    /\ UNCHANGED <<deleted, inbox, locals, planVars, records, replied>>

\* add_message(role = user) of a new case
AddUserMessage(r) ==
    /\ At(r, "add_message")
    /\ inbox' = [inbox EXCEPT ![target[r]] = @ \cup {r}]
    /\ Goto(r, IF kind[r] = "sync" THEN "claim" ELSE "to_ready")
    /\ UNCHANGED <<rows, locals, planVars, records, replied>>

\* add_message(role = user) of a follow-up
AppendUserMessage(r) ==
    /\ At(r, "append_message")
    /\ inbox' = [inbox EXCEPT ![target[r]] = @ \cup {r}]
    /\ Goto(r, "append_update")
    /\ UNCHANGED <<rows, locals, planVars, records, replied>>

\* update_case_fields of a follow-up: the status comes from the earlier read
AppendUpdate(r) ==
    /\ At(r, "append_update")
    /\ WriteStatus(r, StatusAfterUserMessage(snap[r]))
    /\ snap' = [snap EXCEPT ![r] = "absent"]
    /\ Goto(r, IF kind[r] = "sync" THEN "claim" ELSE "to_ready")
    /\ UNCHANGED <<inbox, kind, target, planVars, records, replied>>

\* the unconditional _transition(READY_TO_INVESTIGATE) before the response
TransitionReady(r) ==
    /\ At(r, "to_ready")
    /\ WriteStatus(r, "READY_TO_INVESTIGATE")
    /\ Goto(r, "claim")
    /\ UNCHANGED <<inbox, locals, planVars, records, replied>>

-----------------------------------------------------------------------------
(* process_case: claim, triage and plan *)

\* the read of the row, CaseScheduler.claim, and the return of a rejected claim
ClaimCase(r) ==
    /\ At(r, "claim")
    /\ Live(target[r])
    /\ Goto(r, IF Accepted(status[target[r]]) THEN "start_run" ELSE "skipped")
    /\ UNCHANGED <<rows, inbox, locals, planVars, records, replied>>

StartRun(r) ==
    /\ At(r, "start_run")
    /\ run' = [run EXCEPT ![r] = "running"]
    /\ Goto(r, "claim_write")
    /\ UNCHANGED <<rows, inbox, locals, planVars, chatRun, inv, replied>>

\* _transition(case, claim.next_status): no condition on the status in the row
WriteClaim(r) ==
    /\ At(r, "claim_write")
    /\ WriteStatus(r, ClaimedStatus)
    /\ Goto(r, "triage")
    /\ UNCHANGED <<inbox, locals, planVars, records, replied>>

\* the second read of the row; small talk goes to the decision agent directly
Triage(r) ==
    /\ At(r, "triage")
    /\ Live(target[r])
    /\ \E next \in {"direct_start", "classify"} : Goto(r, next)
    /\ UNCHANGED <<rows, inbox, locals, planVars, records, replied>>

\* _classify_and_extract, add_entities, update_case_fields (other columns)
Classify(r) ==
    /\ At(r, "classify")
    /\ Live(target[r])
    /\ Goto(r, "gate")
    /\ UNCHANGED <<rows, inbox, locals, planVars, records, replied>>

\* _decision_agent_source: without an agent ask for missing fields, or block
DecisionGate(r) ==
    /\ At(r, "gate")
    /\ \/ Goto(r, "plan") /\ UNCHANGED act
       \/ Goto(r, "ask_status") /\ act' = [act EXCEPT ![r] = "ask_user"]
       \/ Goto(r, "wait_reply") /\ act' = [act EXCEPT ![r] = "blocked"]
    /\ UNCHANGED <<rows, inbox, locals, left, calls, failures, records, replied>>

\* Mutant: a plan for a human goes straight to the status, without its message.
DispatchUnanswered(a) ==
    CASE a = "ask_user" -> "ask_status"
      [] a \in {"answer_from_knowledge", "invoke_tools"} -> "inv_status"
      [] a \in {"local_code_inspection", "need_human"} -> "human_status"

\* where process_case dispatches each planned action
Dispatch(a) ==
    CASE a = "ask_user" -> "ask_status"
      [] a \in {"answer_from_knowledge", "invoke_tools"} -> "inv_status"
      [] a \in {"local_code_inspection", "need_human"} -> "human_reply"

\* decision_engine.plan, and the slice [: max_tool_calls_per_case] of its plan
Plan(r) ==
    /\ At(r, "plan")
    /\ \E a \in PlannedActions, n \in 1 .. ToolBudget :
        /\ a # "invoke_tools" => n = 1
        /\ act' = [act EXCEPT ![r] = a]
        /\ left' = [left EXCEPT ![r] =
                       IF a # "invoke_tools" THEN 0
                       ELSE IF n < MaxToolCalls THEN n ELSE MaxToolCalls]
        /\ Goto(r, Dispatch(a))
    /\ UNCHANGED <<rows, inbox, locals, calls, failures, records, replied>>

-----------------------------------------------------------------------------
(* process_case: the answers that call no tool *)

\* _ask_user, first write
AskUserStatus(r) ==
    /\ At(r, "ask_status")
    /\ WriteStatus(r, "NEED_MORE_INFO")
    /\ Goto(r, "wait_reply")
    /\ UNCHANGED <<inbox, locals, planVars, records, replied>>

\* the message of _ask_user, _require_decision_agent and the direct answers
WaitReply(r) ==
    /\ At(r, "wait_reply")
    /\ replied' = [replied EXCEPT ![r] = TRUE]
    /\ Goto(r, "wait_status")
    /\ UNCHANGED <<rows, inbox, locals, planVars, records>>

\* ... and the status they all end with
WaitStatus(r) ==
    /\ At(r, "wait_status")
    /\ WriteStatus(r, "WAITING_USER_REPLY")
    /\ Goto(r, IF chatRun[r] = "none" THEN "finish_run" ELSE "chat_finish")
    /\ UNCHANGED <<inbox, locals, planVars, records, replied>>

\* _answer_direct_chat_with_decision_agent: blocked without a usable agent
DirectStart(r) ==
    /\ At(r, "direct_start")
    /\ \/ /\ act' = [act EXCEPT ![r] = "blocked"]
          /\ Goto(r, "wait_reply")
          /\ UNCHANGED chatRun
       \/ /\ act' = [act EXCEPT ![r] = "direct"]
          /\ chatRun' = [chatRun EXCEPT ![r] = "running"]
          /\ Goto(r, "direct_answer")
    /\ UNCHANGED <<rows, inbox, locals, left, calls, failures, run, inv, replied>>

\* answer_chat of the model, with its reply stored, or its failure caught
DirectAnswer(r) ==
    /\ At(r, "direct_answer")
    /\ \/ /\ replied' = [replied EXCEPT ![r] = TRUE]
          /\ Goto(r, "wait_status")
          /\ UNCHANGED act
       \/ /\ act' = [act EXCEPT ![r] = "direct_failed"]
          /\ Goto(r, "wait_reply")
          /\ UNCHANGED replied
    /\ UNCHANGED <<rows, inbox, locals, left, calls, failures, records>>

\* what follows the model's reply within the try block of the direct answer
DirectTryPcs == {"wait_status", "chat_finish", "chat_event"}

\* an exception there is caught by the same except clause, which replies,
\* writes the status and finishes the chat run once more
DirectCaught(r) ==
    /\ pc[r] \in DirectTryPcs
    /\ act[r] = "direct"
    /\ act' = [act EXCEPT ![r] = "direct_failed"]
    /\ Goto(r, "wait_reply")
    /\ UNCHANGED <<rows, inbox, locals, left, calls, failures, records, replied>>

\* _finish_agent_run of the chat run
ChatFinish(r) ==
    /\ At(r, "chat_finish")
    /\ chatRun' = [chatRun EXCEPT ![r] =
                      IF act[r] = "direct" THEN "completed" ELSE "failed"]
    /\ Goto(r, "chat_event")
    /\ UNCHANGED <<rows, inbox, locals, planVars, run, inv, replied>>

\* ... its run_finished event, and the return of the answer
ChatEvent(r) ==
    /\ At(r, "chat_event")
    /\ Goto(r, "finish_run")
    /\ UNCHANGED <<rows, inbox, locals, planVars, records, replied>>

\* the message of _need_human, _answer_from_local_code, _answer_from_knowledge
\* and of the tool path
HumanReply(r) ==
    /\ At(r, "human_reply")
    /\ replied' = [replied EXCEPT ![r] = TRUE]
    /\ Goto(r, "human_status")
    /\ UNCHANGED <<rows, inbox, locals, planVars, records>>

HumanStatus(r) ==
    /\ At(r, "human_status")
    /\ WriteStatus(r, "NEED_HUMAN_CONFIRMATION")
    /\ Goto(r, "finish_run")
    /\ UNCHANGED <<inbox, locals, planVars, records, replied>>

-----------------------------------------------------------------------------
(* process_case: the investigation *)

InvestigationStatus(r) ==
    /\ At(r, "inv_status")
    /\ WriteStatus(r, "INVESTIGATING")
    /\ Goto(r, "inv_open")
    /\ UNCHANGED <<inbox, locals, planVars, records, replied>>

\* create_investigation; only the tool path reads the row again before it
OpenInvestigation(r) ==
    /\ At(r, "inv_open")
    /\ act[r] = "invoke_tools" => Live(target[r])
    /\ inv' = [inv EXCEPT ![r] = "running"]
    /\ Goto(r, IF act[r] = "invoke_tools" THEN "tool_status" ELSE "inv_close")
    /\ UNCHANGED <<rows, inbox, locals, planVars, run, chatRun, replied>>

ToolStatus(r) ==
    /\ At(r, "tool_status")
    /\ WriteStatus(r, "WAITING_TOOL_RESULT")
    /\ Goto(r, "tools")
    /\ UNCHANGED <<inbox, locals, planVars, records, replied>>

\* Mutant: the loop does not look at its failures.
InvokeToolUnchecked(r) ==
    /\ At(r, "tools")
    /\ left[r] > 0
    /\ left' = [left EXCEPT ![r] = @ - 1]
    /\ calls' = [calls EXCEPT ![r] = @ + 1]
    /\ \E n \in 0 .. 2 : failures' = [failures EXCEPT ![r] = @ + n]
    /\ UNCHANGED <<rows, inbox, pc, locals, act, records, replied>>

\* one round of the loop of _invoke_tools.  A tool that answers with another
\* status than success adds one failure, an exception adds one, and a failed
\* answer whose ledger or log row cannot be written adds both.
InvokeTool(r) ==
    /\ At(r, "tools")
    /\ left[r] > 0
    /\ failures[r] < MaxToolFailures
    /\ left' = [left EXCEPT ![r] = @ - 1]
    /\ calls' = [calls EXCEPT ![r] = @ + 1]
    /\ \E n \in 0 .. 2 : failures' = [failures EXCEPT ![r] = @ + n]
    /\ UNCHANGED <<rows, inbox, pc, locals, act, records, replied>>

\* Mutant: the investigation is not finished when its tools are.
SummarizeUnfinished(r) ==
    /\ At(r, "tools")
    /\ left[r] = 0 \/ failures[r] >= MaxToolFailures
    /\ Goto(r, "human_reply")
    /\ UNCHANGED <<rows, inbox, locals, planVars, records, replied>>

\* the loop is over, or stopped by its failures (tool_query_stopped); _summarize
Summarize(r) ==
    /\ At(r, "tools")
    /\ left[r] = 0 \/ failures[r] >= MaxToolFailures
    /\ Goto(r, "inv_close")
    /\ UNCHANGED <<rows, inbox, locals, planVars, records, replied>>

CloseInvestigation(r) ==
    /\ At(r, "inv_close")
    /\ inv' = [inv EXCEPT ![r] = "finished"]
    /\ Goto(r, "human_reply")
    /\ UNCHANGED <<rows, inbox, locals, planVars, run, chatRun, replied>>

-----------------------------------------------------------------------------
(* process_case: return, except and finally *)

\* _finish_agent_run(completed): the run's row ...
FinishRun(r) ==
    /\ At(r, "finish_run")
    /\ run' = [run EXCEPT ![r] = "completed"]
    /\ Goto(r, "finish_event")
    /\ UNCHANGED <<rows, inbox, locals, planVars, chatRun, inv, replied>>

\* ... its run_finished event, and the return
FinishEvent(r) ==
    /\ At(r, "finish_event")
    /\ Goto(r, "finally")
    /\ UNCHANGED <<rows, inbox, locals, planVars, records, replied>>

\* any step of the try block may raise: the repository, the model, a row that
\* is gone.  An exception the direct answer catches is DirectCaught instead.
Raise(r) ==
    /\ pc[r] \in WorkPcs \cup ClosePcs
    /\ ~(act[r] = "direct" /\ pc[r] \in DirectTryPcs)
    /\ Goto(r, "except_run")
    /\ UNCHANGED <<rows, inbox, locals, planVars, records, replied>>

\* the process_failure log and _finish_agent_run(failed), a no-op without a run
ExceptRun(r) ==
    /\ At(r, "except_run")
    /\ run' = [run EXCEPT ![r] = IF @ = "none" THEN @ ELSE "failed"]
    /\ Goto(r, "except_message")
    /\ UNCHANGED <<rows, inbox, locals, planVars, chatRun, inv, replied>>

ExceptMessage(r) ==
    /\ At(r, "except_message")
    /\ Goto(r, "except_status")
    /\ UNCHANGED <<rows, inbox, locals, planVars, records, replied>>

\* Mutant: the except block leaves the status alone.
ExceptStatusKept(r) ==
    /\ At(r, "except_status")
    /\ Goto(r, "finally_raised")
    /\ UNCHANGED <<rows, inbox, locals, planVars, records, replied>>

\* the FAILED of the except block, whatever the status in the row; for a row
\* that is gone the write raises, as the block would have anyway
ExceptStatus(r) ==
    /\ At(r, "except_status")
    /\ IF Live(target[r]) THEN WriteStatus(r, "FAILED") ELSE UNCHANGED rows
    /\ Goto(r, "finally_raised")
    /\ UNCHANGED <<inbox, locals, planVars, records, replied>>

\* the repository fails inside the except block
ExceptFails(r) ==
    /\ "db" \in Faults
    /\ pc[r] \in ExceptPcs
    /\ Goto(r, "finally_errored")
    /\ UNCHANGED <<rows, inbox, locals, planVars, records, replied>>

\* the finally block: FAILED when the run took longer than
\* max_investigation_seconds, whatever happened before
Finally(r) ==
    /\ pc[r] \in FinallyPcs
    /\ \E late \in BOOLEAN :
        /\ IF late /\ Live(target[r])
           THEN WriteStatus(r, "FAILED") ELSE UNCHANGED rows
        /\ \/ At(r, "finally_errored") /\ Goto(r, "errored")
           \/ At(r, "finally_raised") /\ Goto(r, "raised")
           \/ /\ At(r, "finally")
              /\ Goto(r, IF late /\ ~Live(target[r]) THEN "raised" ELSE "done")
    /\ UNCHANGED <<inbox, locals, planVars, records, replied>>

-----------------------------------------------------------------------------
(* Outside the try block, and outside the program *)

\* before the try block an exception ends the request: a row deleted meanwhile
\* (404; for create_case its unique key, which stays), or a repository failure
RefuseRequest(r) ==
    /\ \/ /\ pc[r] \in {"create_case", "append_update", "to_ready", "claim"}
          /\ deleted[target[r]]
          /\ Goto(r, "rejected")
       \/ /\ pc[r] \in SubmitPcs
          /\ "db" \in Faults
          /\ Goto(r, "errored")
    /\ UNCHANGED <<rows, inbox, locals, planVars, records, replied>>

\* the server process dies with the request or its background task
Crash(r) ==
    /\ "crash" \in Faults
    /\ pc[r] \in BusyPcs
    /\ Goto(r, "lost")
    /\ UNCHANGED <<rows, inbox, locals, planVars, records, replied>>

\* delete_case from the web console
DeleteCase(c) ==
    /\ Live(c)
    /\ deleted' = [deleted EXCEPT ![c] = TRUE]
    /\ UNCHANGED <<status, inbox, pc, locals, planVars, records, replied>>

\* no thread is running: the server waits for requests this model has used up
Quiescent ==
    /\ \A r \in Requests : pc[r] \in EndPcs \cup {"idle"}
    /\ UNCHANGED vars

-----------------------------------------------------------------------------

Submit(r) ==
    \/ \E c \in Cases, mode \in {"sync", "async"} :
           SubmitChatNew(r, c, mode) \/ SubmitChatFollowUp(r, c, mode)
    \/ \E c \in Cases : SubmitChannel(r, c)

\* a step of the thread that handles the request
Step(r) ==
    \/ CreateChannelCase(r) \/ AddUserMessage(r) \/ AppendUserMessage(r)
    \/ AppendUpdate(r) \/ TransitionReady(r)
    \/ ClaimCase(r) \/ StartRun(r) \/ WriteClaim(r) \/ Triage(r)
    \/ Classify(r) \/ DecisionGate(r) \/ Plan(r)
    \/ AskUserStatus(r) \/ WaitReply(r) \/ WaitStatus(r)
    \/ DirectStart(r) \/ DirectAnswer(r) \/ DirectCaught(r) \/ ChatFinish(r)
    \/ ChatEvent(r)
    \/ HumanReply(r) \/ HumanStatus(r)
    \/ InvestigationStatus(r) \/ OpenInvestigation(r) \/ ToolStatus(r)
    \/ InvokeTool(r) \/ Summarize(r) \/ CloseInvestigation(r)
    \/ FinishRun(r) \/ FinishEvent(r) \/ Raise(r)
    \/ ExceptRun(r) \/ ExceptMessage(r) \/ ExceptStatus(r) \/ ExceptFails(r)
    \/ Finally(r) \/ RefuseRequest(r)

Next ==
    \/ \E r \in Requests : Submit(r) \/ Step(r) \/ Crash(r)
    \/ \E c \in Cases : DeleteCase(c)
    \/ Quiescent

Spec == Init /\ [][Next]_vars

\* A started request is a running thread, and every call it makes (MySQL,
\* Gateway, model) has a timeout: each of its steps eventually happens.
\* Users need not send or delete anything, and processes need not crash.
FairSpec == Spec /\ \A r \in Requests : WF_vars(Step(r))

-----------------------------------------------------------------------------
(* Properties *)

\* Requests that ended without settling their case and could not help it:
\* their process died, or MySQL failed where nothing catches the error.
Abandoned == {"lost", "errored", "finally_errored"}

(***************************************************************************)
(* A live case in which the platform still owes the user something has a   *)
(* request that is busy with it, unless one died or lost its database.     *)
(* Nothing scans for stranded cases, so a case without such a request      *)
(* stays where it is until the user writes again.  The status writes of    *)
(* two requests and the claim that reads them are all unconditional: any   *)
(* of them could leave a status behind that no request will move.          *)
(***************************************************************************)
UnsettledCaseHasOwner ==
    \A c \in Cases :
        Live(c) /\ status[c] \in UnsettledStatuses =>
            \E r \in Requests : /\ target[r] = c
                                /\ pc[r] \in BusyPcs \cup Abandoned

(***************************************************************************)
(* process_case reports a run as completed only once everything it opened  *)
(* is closed: the investigation, the direct-chat run, and the reply.       *)
(***************************************************************************)
CompletedRunIsClosed ==
    \A r \in Requests :
        run[r] = "completed" =>
            /\ inv[r] # "running"
            /\ chatRun[r] # "running"
            /\ replied[r]

(***************************************************************************)
(* A case handed to a human carries an answer: whichever request wrote     *)
(* NEED_HUMAN_CONFIRMATION last, and wherever processes died, a request of *)
(* the case that chose to answer stored its answer before.                 *)
(***************************************************************************)
ConfirmationHasReply ==
    \A c \in Cases :
        status[c] = "NEED_HUMAN_CONFIRMATION" =>
            \E r \in Requests : /\ target[r] = c
                                /\ replied[r]
                                /\ act[r] \in PlannedActions \ {"ask_user"}

(***************************************************************************)
(* The budgets of one process_case: no more tools than the configuration   *)
(* says; tools only under an investigation; the failure counter overshoots *)
(* its limit by at most one (a failed answer that cannot be recorded).     *)
(***************************************************************************)
ToolBudgetKept ==
    \A r \in Requests :
        /\ calls[r] <= MaxToolCalls
        /\ calls[r] > 0 => inv[r] # "none" /\ MaxToolFailures > 0
        /\ failures[r] <= MaxToolFailures + 1

(***************************************************************************)
(* A deleted case is frozen: no request still working on it changes its    *)
(* row, although none of them re-checks the deletion before it acts.       *)
(***************************************************************************)
DeletedCaseIsFrozen ==
    [][\A c \in Cases : deleted[c] => deleted'[c] /\ status'[c] = status[c]]_vars

(***************************************************************************)
(* The same channel message is stored once, however often it is delivered. *)
(***************************************************************************)
ChannelMessageStoredOnce ==
    \A c \in Cases :
        Cardinality({r \in inbox[c] : kind[r] = "channel"}) <= 1

(***************************************************************************)
(* Without crashes every case that is claimed, or that waits for its       *)
(* claim, gets settled (or deleted), although requests overwrite each      *)
(* other's statuses and skip cases that others are working on.             *)
(***************************************************************************)
CaseGetsSettled ==
    \A c \in Cases :
        status[c] \in UnsettledStatuses ~>
            status[c] \in SettledStatuses \/ deleted[c]

(***************************************************************************)
(* What the documentation promises and the code does not keep.             *)
(***************************************************************************)

\* the part of process_case that runs under status INVESTIGATING
InvestigatingPcs == {"inv_open", "tool_status", "tools", "inv_close"}

\* docs/decision-logging-and-limits.md:90: a repeated trigger of a case that is
\* being processed is skipped and does not call downstream tools again.
OneInvestigatorPerCase ==
    \A r, q \in Requests :
        /\ r # q
        /\ target[r] = target[q]
        /\ pc[r] \in InvestigatingPcs
        => pc[q] \notin InvestigatingPcs

\* docs/decision-logging-and-limits.md:106: a case is not left in INVESTIGATING
\* or WAITING_TOOL_RESULT: here, some request is still going to move it.
ActiveCaseHasOwner ==
    \A c \in Cases :
        Live(c) /\ status[c] \in ActiveStatuses =>
            \E r \in Requests : target[r] = c /\ pc[r] \in BusyPcs

=============================================================================
