# A formal model of ai-troubleshooter

ai-troubleshooter answers production questions of business users. A user
writes in the web console or in a Lark/Feishu chat; the Python **Agent
Platform** stores the message as a *case* in MySQL, classifies it, asks the
**Decision Engine** what to do, calls read-only tools of the business services
through the Go **Investigation Gateway**, and answers. This directory holds TLA+
modules for the parts of it whose correctness depends on the order in which
things happen, TLC configurations that check them on small instances, and
TLAPS proofs of the results that matter most.

Paths below are relative to the repository; `service.py`, `repository.py`,
`server.py` and `case_scheduler.py` are those of
`apps/agent-platform/agent_platform/`, `agent_team.py` and `local_code.py` those
of `apps/decision-engine/decision_engine/`.

## 1. Inventory

| Component | State | Operations | Hard behaviour |
|---|---|---|---|
| Case intake (`service.py` submit_*, `server.py`) | rows of `tb_troubleshoot_case` and `_message` | new web message, follow-up, channel event, delete | redelivery, follow-up during processing, status computed from an old read |
| Case processing (`service.py` process_case) | case status, agent run, direct-chat run, investigation, replies | claim, triage, gate, plan, answer, tool loop, except, finally | several workers per case, exceptions between writes, crash of a background task, time limit |
| Case scheduler (`case_scheduler.py`) | none | claim, finish | the claim is a pure function, the write it asks for is the caller's |
| Tool execution (`service.py` _invoke_tools, `context_ledger.py`) | counters of one call, ledger and log rows | one round per planned tool, summary, verification of the answer | two budgets, failures of the bookkeeping itself |
| Agent runtimes (`service.py` discover/enable, `local_agents.py`) | `tb_troubleshoot_agent_runtime` | register, heartbeat, discover, enable, disable, pick the decision agent | read-modify-write across a probe of seconds; a probe that times out; the row is read from the 50 newest; the agent of the gate may be gone at the plan |
| Classifier and triage (`classifier.py`, `service.py`) | the case's domain, type and entities | rules, merge with a model's answer, direct answer, preflight | later messages and models against what is known |
| Decision Engine (`apps/decision-engine`) | none | agent team, advisor, verifier, plan normalisation | what the advisor replaces; budget, deduplication, availability filter |
| Local code inspector (`local_code.py`) | hits by file, during one inspection | scan, analyse, resolve calls across files, match, add context, rank | deny globs and links; limits applied in several places; two ways to find the end of a method |
| Gateway (`internal/gateway`, `internal/tool`) | registry of specifications and handlers, names registered by the reloader | Invoke, Reload, Register, Unregister, List | reload during calls, reload that stops half-way |
| Rate limiter (`internal/ratelimit`) | one bucket per agent, user and tool | Allow | window boundaries, three limits consumed one after the other |
| Policy (`internal/policy`) | none after start | Authorize | precedence of its conditions |
| Audit (`internal/audit`, `internal/storage/mysql/audit.go`) | audit rows | Record | one row per answer; errors are swallowed |
| Capabilities (`capabilities.py`, `repository.py`) | `tb_troubleshoot_tool_registry` | import, publish, disable | the Gateway's reading of the table is older than the table; re-import after publication |
| HTTP clients, chat events, connectors, masking, configuration, web page | none | one call each | none that depends on order |

How they interact: the web page and the chat platforms call the Agent Platform
over HTTP; `server.py` runs `process_case` in the request's thread or as a
FastAPI background task *after* the response; the Agent Platform calls the
Decision Engine in process and the Gateway over HTTP; the Gateway's reloader
reads the capability table the Agent Platform writes. All persistent state is
in MySQL, every statement in its own transaction (autocommit). There is no
lock, no queue and no background scan: what a dead worker leaves behind stays
until the user writes again.

What makes each part correct:

- *Intake and processing*: a case in which the platform owes the user something
  always has a request that will move it; a completed run has closed what it
  opened; a confirmation is never asked for without an answer; the tool budgets
  hold; a deleted case is never written again; a channel message is stored once.
- *Runtimes*: a flag changes only by a request about it; nobody is enabled, or
  advises a case, who was not asked for; two agents decide only after a failed
  probe.
- *Gateway*: only versions somebody published are served and run; a published
  capability is served unless its own reload failed; the audit row of an answer
  tells what was done; every reload that is asked for is answered.
- *Rate limiter*: bursts are bounded, and only who exceeds the rate is refused.
- *Decision Engine and turns*: an accepted plan is within budget, free of
  duplicates and only names available tools; the platform's own rules never answer
  a request for live evidence from stored experience (the decision agent's own
  `answer_from_knowledge` is accepted, see section 3); notes, counters and verdict
  agree with the calls that were made; an entity key keeps its first value.
- *Code inspector*: evidence names only files that may be read, quotes the lines it
  is about, attributes a call to the method that encloses it, repeats nothing that
  its files do not repeat, and limits the calls, symbols, line numbers and words of
  a hit.

`PROJECT.json` lists every component, and under `hazards` every place of the
code where one of these can go wrong and a test would hardly notice.

## 2. Modules

| Module | Models | Role |
|---|---|---|
| `CaseScheduler` | `case_scheduler.py` | status sets, `Accepted`, `ClaimedStatus`; pure |
| `CaseProcessing` | `service.py` submit_*, process_case and its helpers; `repository.py` case rows | the core state machine and its properties |
| `MCCaseProcessing` | | instance for TLC (request symmetry) |
| `CaseProcessing_proofs` | | theorems about `CaseProcessing` |
| `CapabilityControl` | `capabilities.py`, `service.py` publish/disable, `repository.py` capability rows, `internal/gateway/dynamic.go`, `internal/tool/types.go` | the control plane of the tools and its properties |
| `ToolGateway` | `internal/gateway/gateway.go` Invoke, `internal/policy` | EXTENDS `CapabilityControl` with the calls |
| `RateLimiter` | `internal/ratelimit`, `gateway.go` enforceRateLimits | the three limiters of a call |
| `Intake` | `classifier.py`, triage and preflight of `service.py`, text predicates of `agent_team.py` | pure operators on messages |
| `DecisionEngine` | `agent_team.py`, `decision_advisor.py`, the investigation brief of `service.py` | from a request to a verified response; pure |
| `CaseTurns` | `process_case` turn by turn, `_invoke_tools`, `context_ledger.py` | what the turns of one case decide; EXTENDS `DecisionEngine` |
| `EvidenceRound` | | abstract specification: a budgeted round of calls and its verdict; `CaseTurns` implements it |
| `AgentRuntime` | `service.py` discover/enable/register, `local_agents.py`, `repository.py` runtime rows | the runtime row under concurrent requests, and the turn that reads it |
| `CodeAnalysis` | `local_code.py`, one file | symbols, calls, relations, quoted lines; pure |
| `CodeInspection` | `local_code.py` `inspect` | from the allowed files to the ranked hits; EXTENDS `CodeAnalysis` |
| `Lists` | list idioms of `agent_team.py` and `local_code.py` | comprehension with a filter, removal of duplicates, slice, flattening, stable descending sort; pure |
| `MC...` | | instances for TLC |
| `..._proofs` | | theorems about `CaseProcessing`, `CapabilityControl`, `ToolGateway`, `RateLimiter`, `CaseTurns`, `AgentRuntime`, `CodeInspection`, and lemmas about `Lists` |

`CaseProcessing` and `CaseTurns` model the same `process_case` from two sides. The
first has any number of requests, faults and deletions and an arbitrary
decision; the second runs one turn at a time and computes the decision from what
was said. Neither property set needs what the other leaves out: the first is
about statuses and rows that requests share, the second about values that only
the worker of a turn computes. Composing them would multiply two state spaces
and show nothing more, since the decision reads no status and the statuses
depend on the action of the decision alone, which the first leaves open.

### CaseProcessing: state and actions

A *request* is one HTTP request together with the `process_case` it leads to.
`pc` says where it is; everything else named per request is a local variable of
that thread or a row only it writes.

| Variable | Code |
|---|---|
| `status`, `deleted`, `inbox` | `case_status`, the soft-delete flag and the user messages of a case row |
| `kind`, `target` | sync web, async web or channel; the case worked on |
| `snap` | the `case_status` `_upsert_case` read and later writes back (`service.py:527-541`) |
| `act`, `left`, `calls`, `failures` | `decision.action`, what is left of the plan, the counters of `_invoke_tools` |
| `run`, `chatRun`, `inv` | the supervisor's agent run, the direct chat's agent run, the investigation row |
| `replied` | an agent or bot message has been stored |

An action is one repository call that changes modelled state, with the reads
and the pure code that lead to it; between two calls any other request may
move, which is exactly what autocommit MySQL and FastAPI's thread pool allow.
Intake: `SubmitChatNew`, `SubmitChatFollowUp`, `SubmitChannel`,
`CreateChannelCase`, `AddUserMessage`, `AppendUserMessage`, `AppendUpdate`,
`TransitionReady`. Processing: `ClaimCase`, `StartRun`, `WriteClaim`, `Triage`,
`Classify`, `DecisionGate`, `Plan`. Answers: `AskUserStatus`, `WaitReply`,
`WaitStatus`, `DirectStart`, `DirectAnswer`, `DirectCaught`, `ChatFinish`, `ChatEvent`,
`HumanReply`, `HumanStatus`. Investigation: `InvestigationStatus`,
`OpenInvestigation`, `ToolStatus`, `InvokeTool`, `Summarize`,
`CloseInvestigation`. Ends: `FinishRun`, `FinishEvent`, `Raise`, `ExceptRun`,
`ExceptMessage`, `ExceptStatus`, `ExceptFails`, `Finally`, `RefuseRequest`.
Environment: `Crash`, `DeleteCase`. `PROJECT.json` maps each to its lines.

Abstractions, and why they are sound for the properties:

- A repository call has its effect or raises. `update_case_fields` on a deleted
  row finds nothing and raises (404), so `WriteStatus` is enabled only on a live
  row and `Raise` is always possible in the try block.
- `Raise` needs no fault switch: the model, the Gateway, the classifier or a
  deleted row can make any step of the try block raise. `"db" \in Faults` adds
  repository errors where nothing catches them: at intake and inside the except
  block. `"crash" \in Faults` adds the death of a server process.
- What the model answers, which action the engine plans, how long a run takes
  and how many failures a tool round counts (0, 1 or 2) are arbitrary choices.
- Append-only rows that no control decision reads (decision log, context
  ledger, run events, entities) are left out; that writing them may raise is
  not.
- The finally block's own repository error is taken as a run that was not late:
  in both cases the row keeps its status.
- `message_id` of a channel event is not empty; two server instances may
  receive the same event.
- Each request is used once, so the number of requests bounds a behaviour.

### CapabilityControl and ToolGateway: state and actions

The capability table has one row per tool (`toolStatus`, `safety`, `scope`); a
version of a capability is known by its required scope, and `approved` is a
ghost that remembers which versions somebody published. `safety` has a value of
its own, `"incomplete"`, for a readonly candidate the Gateway cannot register
(no URL, invalid schema). `reg` is the Gateway's registry: each name is
unregistered, a built-in tool, or a version. Specification and handler are
written together under the registry's lock (`Registry.Register`), hence one
variable.

| Action | Code |
|---|---|
| `ImportCapability` | `import_capabilities`, one row of the manifest; the upsert overwrites status, safety and scope |
| `Publish`, `Disable` | `publish_capability`, `disable_capability` up to the UPDATE; the reload follows as steps of its own |
| `ReloadUnreachable` | the HTTP call to the Gateway raises, and `_reload_gateway_capabilities` swallows it |
| `BeginReload` ... `FinishReload` | `CapabilityReloader.Reload`: lock, query, one `Register` per row, one `Unregister` per stale name, replacement of the map |
| `AbortReload`, `ListFails` | its two early returns |
| `RestartGateway` | `main`: built-in tools, then a reload, then the listener |
| `Lookup` | `Invoke` up to `registry.Get`, with its return for an unknown tool |
| `Deny`, `Authorise` | agent mismatch, rate limits, policy, parameter bounds; only the scope check is a guard, the others may refuse any call |
| `RunHandler`, `HandlerReturns` | `registry.Handler`, then the handler's answer, error or timeout |

Abstractions: the rows of a list are registered in any order (the query orders
them by service and name, which a manifest is free to choose); `registered`
loses names during the sweep although the code replaces the map at its end (only
the holder of the mutex reads it); rows of other source types than
`http_adapter` and `mcp` are left out, because nothing writes them; a reload
whose client has given up goes on or fails in its query, as in the code, and the
client's own time-out is not told apart from its end; a request is used once, so
that every interleaving of a bounded number of requests is explored. The query
of a reload has a `LIMIT 500` (`dynamic.go:39`); `ListLimitAssumption` says that
there are no more tools than that, and with more a published tool may not be
served. The Go importer and `UpdateToolCapabilityStatus` are called by tests
only.

### RateLimiter: state and actions

`Arrive` reads the clock (`enforceRateLimits`), `Pass` and `Refuse` are the two
answers of `FixedWindow.Allow`, one limiter after the other. `Tick` advances an
integer clock while no call is slower than `MaxDelay`: that bound is an
assumption on the scheduler, and a parameter of the properties. The rate is per
Gateway process; nothing is shared between processes. A limiter with limit 0
admits everything; a call without a user id is exempt from the user's limit only,
while empty names of an agent or a tool are keys like others (`gateway.go:254`).

### Intake, DecisionEngine and CaseTurns: state and actions

A text is the sequence of its messages, and a message a set of words, one word
for each class of keywords that some list of the code tells apart (`"recommend"`
stands for every recommendation keyword, `"uid:1"` for a user id with its value).
The code only asks which lists a text hits, so this is what it sees.

| Variable | Code |
|---|---|
| `text`, `taxonomy`, `entities` | `original_text`, domain and type of the case row, `entity_map(case_id)` |
| `agent` | whether `_decision_agent_source` finds one |
| `listing`, `found`, `response` | `list_tools`, `list_knowledge`, the verified plan of this turn |
| `done`, `observed`, `failures` | progress, observations and failure counter of `_invoke_tools` |
| `verdict`, `outcome` | `final_answer_verification`, how the turn ended |

`Receive` stores a message; `DirectAnswer`, `ClassifyAndExtract` (the rules, the
merge with a model's answer, the write of entities) or `ClassifyFails` follow;
then `GateRefuses` or `GateOpens`, `PlanTurn` (the whole of
`SupervisorAgentTeam.plan`), `InvokeTool` per call, `StopInvoking`, `Summarize`.
`TurnFails` is an exception of the gate or of planning, `InvokeFails` and
`SummarizeFails` those of the later steps. `ToggleAgent` lets the user enable or
disable the agent between any two of them. `DecisionEngine!Plan` is
`Verify(Propose(...))`: intake, stored experience, local code, the specialist of
the domain, the advisor's report that may replace it, and the verifier with
`NormalizeToolPlan`. Reasons are told apart as present or blank, confidences are
percents, and that of a summarising model is any number (`Confidences`), since
`service.py:902` does not clamp it; arguments of the calls are left out.

`EvidenceRound` says what a turn that investigates promises: at most `Budget`
calls, none once `MaxFailures` failures are counted, and a verdict accepted
exactly when a call of this round succeeded. `CaseTurns!ImplementsRound` is that
specification under a refinement mapping; a turn that asks, answers directly or
fails half-way is no round.

### AgentRuntime: state and actions

`row` is the local runtime's row: what the last written probe found and which
providers are enabled. A request is three steps: `ReadFlags` reads the flags
(none if the row is not among the 50 most recently updated, `newer` and
`ListLimit`), `ProbeMachine` runs the CLIs, `WriteRow` replaces the row. POST
handlers are coroutines that never await, so one runs at a time on `Loop`; GET
discover is a plain function and runs on pool threads (`Threads`).
`RegisterPeer` and `Heartbeat` are coroutines as well. What a probe finds is the
environment's choice among `Findings`; a CLI whose `--help` takes over three
seconds is found `"mute"`. `DecisionGate` and `ConsultAgent` are the two reads of a
turn. `asked` and `lapsed` are history, and `fresh` marks a request whose reading
nobody has overtaken.

### CodeAnalysis and CodeInspection: state and actions

A line is what the regular expressions, or the syntax tree of a Python file, see
in it: a class, a field, a header, calls, braces, indentation, the words a query
may name. The analysers of Java, Go, JavaScript and Python are recursive
functions over the lines, as the loops of the code are. The edges of a Python
file come in the order in which the syntax tree is visited: those of the body,
then what the tree has behind it, decorators and annotations (`after`,
attributed to the decorated function itself, as the visitor does).
`CodeInspection` has one action per stage of `inspect`: `Refuse` (disabled, no
mapping, no repository), `Begin`, per entry `SkipDenied` or `ScanFile` (resolved
path, deny globs, size, unreadable files), `ResolveCrossModuleSymbols`,
`MatchScannedFile` per file, `AddCallGraphContext`, `AddImplementationContext`,
`Rank`. A link is an entry whose `target` is another file; it keeps its own
suffix, hence its own language. Scores count words with weights; a path is one
word, and the suspicions, which are worded from a hit, are left out.

## 3. Runs

| Run | Instance | Shows |
|---|---|---|
| `case_async` | 2 async web requests, 1 case, crashes and database errors, 2 tools, 2 failures; 1.6M states | `TypeOK`, `UnsettledCaseHasOwner`, `CompletedRunIsClosed`, `ConfirmationHasReply`, `ToolBudgetKept`, `DeletedCaseIsFrozen` |
| `case_liveness` | 2 requests, channel events and web follow-ups, no faults, fair requests; 1.0M states | `CaseGetsSettled` |
| `case_turns` | 2 messages of 9, 3 models, 5 advices, 2 listings, 2 tools, 2 failures; 0.9M states | `TypeOK`, `VerifiedPlan`, `RulesReuseNoStaleExperience`, `ObservationsFollowPlan`, `FailuresAreObserved`, `ConfidenceIsEarned`, `EntitiesAreWriteOnce`, `ImplementsRound` |
| `agent_runtime` | 2 providers, 4 findings, the event loop and a pool thread, 1 peer that hides the row; 0.8M states | `TypeOK`, `TwoAgentsNeedALapse`, `EnabledWasAsked`, `FlagsChangeOnRequest` |
| `code_inspection` | every well-formed Java class of seven lines from nine kinds of members, beside two sets of files, 5 queries; 42,000 states | `EvidenceIsAllowed`, `ExcerptShowsTheFinding`, `CallersEnclose`, `EdgesAreInScope`, `HitsAreBounded`, `ContextRepeatsNothing` |
| `capability_reload` | 2 requests, 2 tools (one a built-in name), failing queries, lost calls, restarts, fair reloads; 0.15M states | `TypeOK`, `PublishedIsServed`, `RegisteredAreDynamic`, `ReloadIsAnswered` |
| `gateway_calls` | 1 call of a built-in name, 3 requests, 2 versions, restarts, lost calls; 0.5M states | `CallTypeOK`, `AuditTellsWhatRan`, `OnlyPublishedRuns`, `OnlyPublishedServed`, `PublishedIsServed` |
| `rate_limits` | 4 calls of one agent, 2 windows of 2 ticks, readings up to 1 tick old; 0.5M states | `TypeOK`, `BurstIsBounded`, `RefusalIsDeserved` |
| `doc_claim` | 2 async requests | one case is investigated twice at once, against `docs/decision-logging-and-limits.md:90` |
| `doc_redelivery` | 2 deliveries of one message | it is stored and processed twice, against line 87 |
| `doc_disabled` | 2 requests, 2 tools | a disabled tool survives a successful reload, because an earlier reload stopped half-way, against `docs/gateway-security.md:66` |
| `doc_missing_fields` | `case_turns` | the advisor's plan calls tools although a required field is missing, against `docs/decision-logging-and-limits.md:3` and the risk note of `agent_team.py:125` |

Why the bounds are enough. The properties relate one case to the requests on
it; cases do not interact, so one case suffices. Two requests are what every
race here takes: one that has read or claimed and one that writes in between.
`UnsettledCaseHasOwner`, `TypeOK`, `DeletedCaseIsFrozen` and `ToolBudgetKept` are
proved for any number of requests, tools and failures. Two tools and two failures
let the loop's two limits meet in every order, a double failure included.
Requests are interchangeable, hence the symmetry of `case_async`; the liveness
run uses none.

In `case_turns` the nine messages hit every branch of the rules and the triage
(three domains, a user id that changes, a word that asks for live evidence, a
question about the model, a greeting, the local-code switch), two messages let
each be said before or after each other one, and the models disagree with the
rules on domain and user. The advices propose a forbidden tool, a tool twice, a
blank reason, an answer from unknown experience and an unknown action. What is
remembered from one turn to the next is the text, taxonomy and entities, which a
third message would change in no new way. In `agent_runtime` two providers are
what an exclusive enabling is about and two handlers what an overtaken write takes;
one peer hides the row since `ListLimit` is 1. In `code_inspection` seven lines
hold a class with a field, a method whose brace is on the next line and a
statement in it, or two one-line methods; every limit (2 symbols, 2 edges, 3 line
numbers, 4 quoted lines) is small enough to be exceeded, and `ScopeWindow` to end
before the braces close.

For the control plane three requests are what an older reading takes: one that
reads, one that imports the next version, one that publishes it; `gateway_calls`
has them, over one tool, since a call names one. Two tools make a reload stop
half-way, one of them a built-in name; `capability_reload` has them. The invariants
are proved for any number. In `rate_limits` the user's limit of 1 and the agent's
of 2 are reached and refilled within the clock's bound, and four calls exceed what
`BurstIsBounded` allows by one; the factor in it is tight (one limit less is
violated), for these parameters and for a window of 1 with a delay of 2.

**`UnsettledCaseHasOwner` and synchronous messages.** The property holds for
async web messages (the only kind the web page sends, `web/static/index.html`)
and for channel events, because both write READY_TO_INVESTIGATE *before* their
own claim: whatever stale status a follow-up restores, a request that will
still claim the case stands behind it. A synchronous follow-up (the API default)
writes no READY_TO_INVESTIGATE and can strand the case (see below). That is why
the passing runs and the theorem leave `"sync"` out.

**Fairness.** `CaseProcessing!FairSpec` gives weak fairness to the steps of each
started request: a thread of a live process runs, and each call it makes (MySQL,
Gateway, model) has a timeout, so it returns or raises. Nothing is assumed of
users: they need not write, follow up or delete. Crashes are excluded from
`case_liveness` because nothing in the code recovers from them.
`CapabilityControl!FairSpec` assumes that a reload that runs goes on (its query
ends or fails), that Go's mutex, which hands over to a waiting goroutine, does
not starve a request, and that a Gateway that is not up refuses a connection.
Sending a request is not fair, and no call is assumed to get lost: `ReloadIsAnswered`
must hold also when all of them arrive.

Deadlock is checked in every run but `code_inspection`, whose inspection returns.
The other behaviours that end do so in a `Quiescent` step, allowed only when no
thread is running; turns and runtime requests never end.

**Seen in the models, without a run of their own.**

- *Cases.* A synchronous follow-up leaves a case INVESTIGATING with nobody working
  on it (`ActiveCaseHasOwner` of `CaseProcessing`, with `Modes = {"sync"}`; against
  `docs/decision-logging-and-limits.md:106`). A failure after
  `create_investigation` leaves the investigation running (line 102); it overwrites
  a terminal status with FAILED (line 103); a case whose process died never
  converges (line 95); a run over its time limit stays recorded as completed
  (`docs/case-scheduler-design.md:25`).
- *Decisions.* The advisor's own `answer_from_knowledge` is accepted although live
  evidence is asked for (`agent_team.py:473`, against
  `programs/P-2026-041-decision-owned-gateway-read-policy/RESULT.md:9`). An agent
  disabled after the gate leaves the turn going on without one, although
  `docs/LESSONS.md:42` has no tools called then; so does
  `DECISION_LLM_ENABLED=false` with a local agent enabled, which opens the gate but
  builds no advisor.
- *Runtimes.* Two decision providers may be enabled at once: enable Codex while
  Claude Code is enabled and its `--help` times out, then let it answer again
  (`OneDecisionAgent` of `AgentRuntime`; `docs/local-runbook.md:193` has one). When
  50 other runtimes are newer, the next discovery writes every flag back as off.
- *Gateway.* A reload between `Invoke`'s two lookups pairs the scope check of one
  version with the handler of another (`RunsOnlyGrantedScopes` of `ToolGateway`;
  `docs/gateway-security.md:67`). A capability that is no readonly candidate can be
  published (`docs/local-runbook.md:404`), after which the reload of every other
  publication may fail (line 405); a call of an unknown tool leaves no audit row
  (`docs/gateway-security.md:137`).
- *Code inspector.* A Go function that is only declared takes the calls of the next
  function's body (`local_code.py:1202`); a JavaScript arrow function without braces
  takes in the calls of the functions behind it; the owner of Java methods behind a
  nested class stays the nested class; a file that the query names can rank behind
  one that only the context added; hits that only the context added quote no lines
  (`docs/LESSONS.md:18` asks for them); the implement relations of a hit have no
  limit.

## 4. Proofs

`CaseProcessing_proofs`, for any `Requests`, `Cases`, modes, faults and budgets
allowed by `ConstantsAssumption`:

- `TypeCorrect`: `Spec => []TypeOK`. One lemma per group of actions.
- `DeletedCasesStayFrozen`: `Spec => DeletedCaseIsFrozen`. The status of a
  request's own target is the only one a step writes, and each write is guarded
  by `Live`. The step that is not obvious is the insertion of a row: a deleted
  row is never `"absent"`, which is an invariant of its own (`TargetInv`).
- `UnsettledCasesHaveOwners`: if `"sync" \notin Modes` then
  `Spec => []UnsettledCaseHasOwner`. The property is not inductive: when a
  worker ends because its claim was rejected, or writes a settled status, the
  property says nothing of a second request about to restore an older status.
  `OwnerInv` adds what is known at each place: a request that ends normally
  leaves a settled status or another owner, a request on its way to `to_ready`
  or `claim` is an owner itself, and only such requests write unsettled
  statuses. The step lemmas are `StepFrame` (what no step changes),
  `QuietStep` (steps that write no status and keep their request busy) and
  `WriteStep` (steps that write one).
- `CompletedRunsAreClosed`: `Spec => []CompletedRunIsClosed`. The property looks
  at the end of a run; `ClosedInv` says at each place what a request may still
  have open: an investigation only between `inv_open` and `inv_close`, a
  direct-chat run only from `direct_answer` to `chat_finish`, and a reply stored
  by `wait_status` and `human_status`. `DirectCaught`, which goes back and
  answers again, is why the direct-chat part spans `wait_reply`.
- `ToolBudgetsAreKept`: `Spec => []ToolBudgetKept`, from `BudgetInv`: calls made
  plus tools left never exceed the configured number, none is made before the
  plan, and the tool loop runs under an investigation.
- `ConfirmationsHaveReplies`: `Spec => []ConfirmationHasReply`, from `AnswerInv`:
  a request reaches `human_status` only with an answering plan and its reply
  stored, and a request that has replied never plans again, so the witness of
  the property stays one when other requests overwrite the status.

`CapabilityControl_proofs`, for any tools, scopes, requests and faults:
`TypeCorrect`, `OnlyPublishedIsServed`, `SweepsDynamicToolsOnly` and
`PublishedCapabilitiesAreServed`, all from one inductive invariant,
`ReloadInv`. None of the properties is inductive, because a reload works from a
reading that may be old. `MutexInv` says that only the holder of the mutex is
inside `Reload`; `ApprovedInv` carries "published" from the rows to the listings;
`ListingInv` says what a reload in progress has already registered and, the step
that needs the mutex, that a row published since its reading has a publication
*waiting* (or failed) which cannot have begun its own reload. When the reload
that excused a tool ends, either the tool is served or such a request excuses it.

`ToolGateway_proofs`, for any number of calls: `CallsKeepControl` shows that the
composition implements `CapabilityControl`'s `Spec`, so its theorems carry over;
`CallsHaveTypes`, `AuditIsTruthful` and `PublishedVersionsRun` follow from `CallInv`, which adds
what each call has done at each place.

`RateLimiter_proofs`, for any finite set of calls, identities, limits, window and
delay:

- `TypeCorrect`: the count of no bucket exceeds its limit.
- `RefusalsAreDeserved`: `Spec => []RefusalIsDeserved`. A refusal looks at a count;
  `BackedInv` says that as many calls of the key passed since the bucket's start,
  `OnceInv` that none of them is decided on again, `ClockInv` that the refused
  call's reading is at most `MaxDelay` old.
- `BurstsAreBounded`: `Spec => []BurstIsBounded`. The code remembers one window;
  `WindowsInv` says that all calls that passed can be placed in windows that start
  `Window` apart, each numbered within the limit. It is an existential invariant:
  the step of a passing call extends the placement. The bound then is an injection
  of the calls into window classes times numbers: at most one window with calls in
  the interval starts more than `MaxDelay - 1` before it.

`Lists_proofs`, for lists of any length. The operators of `Lists` are recursive
functions over the places of a list, and facts about them are inductions. The
induction theorems of the library take an operator, which these provers cannot
instantiate, so an induction here is an argument about a set of places: a set
that holds 0, and with `n - 1` also `n`, holds every place, since those it lacks
would have a least one (`LeastElement`, `UpTo`). `RecursionExists` shows the same
way that a loop has a value after every place; the body of the loop is a function
from values to values there. From these: what `Only`, `Distinct`, `Prefix` and
`FlattenSeq` return, preserve and bound, and that a sort permutes its list
(`RankedPermutes`, `RankedType`). That the order is descending is not proved, and no
theorem needs it.

`CaseTurns_proofs`, for any messages, answers of the models and of the Gateway,
budgets and number of turns:

- `FailuresAreAlwaysObserved`, `ConfidenceIsAlwaysEarned`, from `CountInv` (the
  counter is the cardinality of the unsuccessful notes, and passes the limit by one
  at most, since a call adds at most two) and `PhaseInv` (nothing is noted before
  the loop, and a verdict is the judgement of the notes of this turn).
- `EntitiesNeverChange`, from `Remember` alone. It is about each key: a model may store
  `user_id` and a later message `uid`, and both stay.
- `PlansAreVerified`: `Spec => []VerifiedPlan`. The proof follows the plan through
  `Plan`: `SpecialistPlan` and `AdvisedPlan` say that either source proposes items
  bound to the hypothesis that asks for their tool (`BindingOfTool`),
  `NormalizedPlan` is the induction over the loop of `_normalize_tool_plan` (what is
  kept so far is `Verified`: within the budget, each tool once, and usable), and
  `InvokedPlan` carries both to the response: a plan that is carried out passed the
  verifier, whoever proposed it.
- `RulesNeverReuseStaleExperience`: `Spec => []RulesReuseNoStaleExperience`.
  `ReusedExperience` says that what the platform's own rules answer from is an entry
  found in this turn with enough confidence and cases, and that no message of the
  text asks for live evidence; any other answer from knowledge is the decision
  agent's own.
  Both theorems rest on `ChoiceInv`: the response is made in one step from the text,
  the listing and the experience of this turn, and nothing it was made from changes
  before the next message.
- `ObservationsAlwaysFollowPlan`: `Spec => []ObservationsFollowPlan`. `InvokeFollows` has
  the case that matters: a call whose note cannot be stored leaves a second note of
  the same call, and the next note is still that of the next call of the plan.
- `TypesAreCorrect`: `Spec => []TypeOK`; every plan ends in one of the verifier's actions.
- `TurnsImplementRounds`: `Spec => ImplementsRound`. `RoundInitially` maps initial
  states; `StepMaps` maps each action to `Open`, `Spend`, `Judge`, `Forget` or a
  stutter, and needs the invariant to know that a new round starts at zero and that
  the verdict's two conditions (a success, a reference) are one, because a
  successful note carries its call's reference.

They assume `BudgetsAssumption` (the two budgets are naturals) and `AnswersAssumption`,
which gives messages, stored experience and proposals of the advisor the shape
the code parses them into, and says that a Gateway may list no tool at all: the
client of a Gateway that does not answer returns an empty list.

`CodeInspection_proofs`, for any repository, links, query, limits and number of
entries, from the inductive invariant `InspectionInv`:

- `CallersAlwaysEnclose` and `EdgesAlwaysInScope`. Neither property is about a step
  of `inspect`: both say what an analyser has computed once a file is scanned.
  `AnalyzeType` is the induction over the lines of a file; its invariant (`Entered`,
  `Inside`) says that the analysis is in no callable, or in one whose symbol is
  recorded, who in Java has a body, and whose braces have not been closed on any
  line since they were first opened, with `depth` their count. A Go declaration
  without a body, which `_analyze_go` does not tell apart, stays the current
  function until the next braces close; the theorem says no more of it. Each edge
  then has a line that `Encloses` it (`EdgesEnclosed`, part of `FilesInv`).
  `EdgesAlwaysInScope` compares that with the second scan, `BracedScopeRange`: the
  first line on which the braces are closed for it cannot come before the call,
  where they are open.
- `ExcerptsShowTheirFinding`: what a hit quotes `Shows` one of its lines or its
  primary symbol (`LineRangeShows`, by the cases of `_line_range`), within the file and
  the limit. The number of lines a hit's range was cut to is that of the file as
  scanned, hence the assumption below on links.
- `EvidenceAlwaysAllowed`: the type `HitsIn(Allowed, scanned)` of hits carries the
  allowed files through candidates, resolved edges and relations.
- `HitsAlwaysBounded`: a file has one hit (`OfOneFileEach`) although matches, edges and
  relations all add hits; its calls, symbols, line numbers and query words are
  limited, and the hits returned are at most those asked for. Implement relations are
  limited when a file matches, not when the context adds more
  (`local_code.py:911`), and the theorem leaves them out.
- `ContextNeverRepeats`: a call or relation that a hit names twice its file has twice.
  A matched list is a selection of the file's (`SelectedRepeat`), and what the
  context appends is not in the list yet (`RepeatedMore`).

`LimitsAssumption` and `InspectionsAssumption` hold of the code: the limits are
naturals, and an excerpt has more than three lines (the code has 14), since an
excerpt starts up to two lines before what it quotes; entries have their types; a file
does not change while it is inspected, so two names of one file have as many
lines, and every call of a file starts on one of its lines. Which words a query
has, the score of a hit and the order of equal scores stay arbitrary in these proofs.

`AgentRuntime_proofs`, for any providers, peers, threads and findings:
`TypesAreKept`, `OneAgentUnlessALapse`, `EnabledWasAlwaysAsked` and
`FlagsOnlyChangeOnRequest`. A request in flight holds an older reading of the flags
and will write it back, so the invariant says of every reading (`Carried`) what
the properties say of the row: its providers were asked for, two of them need a
lapse, and a reading nobody has overtaken is the row's.

Only model-checked: the two temporal properties under fairness,
`CaseGetsSettled` and `ReloadIsAnswered`, which are beyond this prover. Every other
property of a passing run is a theorem. The runs that expect a violation refute
what a document says, and prove nothing beyond their counterexample.

## 5. Plan

1. Done: `CaseScheduler`, `CaseProcessing` and their theorems.
2. Done: `CapabilityControl`, `ToolGateway`, `RateLimiter` and their theorems; every
   invariant of their runs is proved.
3. Done: `AgentRuntime` (enable against discover, the agent between gate and plan)
   and its theorems.
4. Done: `Intake`, `DecisionEngine`, `CaseTurns`, and the refinement of
   `EvidenceRound`; every invariant of their run is proved.
5. Done: `CodeAnalysis` and `CodeInspection`; every invariant of their run is proved.
6. Open: the lost update of `original_text` by two follow-ups (`service.py:527`),
   which needs the text of `CaseTurns` in `CaseProcessing`.

## 6. Not modelled

HTTP clients of models and Gateway, the vision client, chat event parsing,
connectors, masking, HTTP authentication, configuration, storage wiring, the
read-only adapters under `scripts/` and the web page: stateless or text-only code
in which nothing depends on the order of events. Their answers and failures appear
as arbitrary choices where they meet the modelled state. Of the modelled parts,
the arguments of tool calls, wording, masking of excerpts and the append-only logs
are left out. `programs/`, `docs/` and examples are not code.
