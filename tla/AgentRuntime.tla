---------------------------- MODULE AgentRuntime ----------------------------
(***************************************************************************)
(* The local agent CLIs of the host, the runtime row that remembers which  *)
(* of them are enabled, and the turn of a case that consults one.          *)
(*                                                                         *)
(* discover, enable and disable are read-modify-writes of the whole row:   *)
(* the enabled flags are read first, the CLIs are probed for seconds, then *)
(* the row is written.  POST handlers are coroutines without an await, so  *)
(* one runs at a time (Loop); GET discover runs on pool threads (Threads). *)
(***************************************************************************)
EXTENDS Naturals, FiniteSets

CONSTANTS
    Providers,      \* provider ids
    Position,       \* of a provider in the listing of discover_local_agents
    Findings,       \* what a probe of the machine may find
    Peers,          \* runtimes of other hosts
    ListLimit,      \* list_agent_runtimes(50)
    Loop, Threads,  \* the event loop, the pool threads running GET discover
    Preferred,      \* LOCAL_AGENT_PROVIDER, or None
    PlatformLLM,    \* _decision_llm_enabled and llm.is_real
    AdvisorDisabled,\* DECISION_LLM_ENABLED is set to a false word
    None

ASSUME ProvidersAssumption ==
    /\ \A S \in (SUBSET Providers) \ {{}} :
         \E p \in S : \A q \in S : Position[p] <= Position[q]
    /\ None \notin Providers
    /\ "platform_llm" \notin Providers
    /\ Findings \subseteq [Providers -> {"missing", "mute", "capable"}]
ASSUME HandlersAssumption == Loop \notin Threads

VARIABLES
    row,        \* the local runtime's row: what was found, what is enabled
    registered, \* runtimes with a row; Local is one once it is written
    newer,      \* peers updated after the local row, listed before it
    request,    \* per handler: the request it runs and what it read so far
    turn,       \* a case that passed the gate, and the agent that advised
    asked,      \* history: providers an accepted request enabled
    lapsed      \* history: providers a probe found unable to decide

vars == <<row, registered, newer, request, turn, asked, lapsed>>

Local == "local"
Handlers == Threads \cup {Loop}
Nothing == [p \in Providers |-> "missing"]

(* The row is read only if it is among the ListLimit most recently updated. *)
Visible == Local \in registered /\ Cardinality(newer) < ListLimit

EnabledProviders == IF Visible THEN row.enabled ELSE {}

Capable(found) == {p \in Providers : found[p] = "capable"}

(* The enabled providers that may take decisions, by the stored row.       *)
Decisive == EnabledProviders \cap Capable(row.found)

FirstIn(S) == CHOOSE p \in S : \A q \in S : Position[p] <= Position[q]

EnabledDecisionProvider ==
    IF Decisive = {} THEN None
    ELSE IF Preferred \in Decisive THEN Preferred
    ELSE FirstIn(Decisive)

DecisionAgentSource ==
    IF Decisive # {} THEN EnabledDecisionProvider
    ELSE IF PlatformLLM THEN "platform_llm" ELSE None

-----------------------------------------------------------------------------
(* The requests.                                                           *)

Idle == [pc |-> "idle", op |-> "discover", target |-> None, allow |-> FALSE,
         seen |-> {}, found |-> Nothing, fresh |-> TRUE]

Operations ==
    [op : {"discover"}, target : {None}, allow : {FALSE}]
      \cup [op : {"enable"}, target : Providers, allow : BOOLEAN]
      \cup [op : {"disable"}, target : Providers, allow : {FALSE}]

\* slip: an enabling is served on a pool thread
ReadFlagsAnywhere(h, operation) ==
    /\ request[h].pc = "idle"
    /\ request' = [request EXCEPT ![h] =
         [pc |-> "probe", op |-> operation.op, target |-> operation.target,
          allow |-> operation.allow, seen |-> EnabledProviders,
          found |-> Nothing, fresh |-> Visible \/ Local \notin registered]]
    /\ UNCHANGED <<row, registered, newer, turn, asked, lapsed>>

(* _discovered_local_agent_providers reads the flags before it probes.     *)
ReadFlags(h, operation) ==
    /\ request[h].pc = "idle"
    /\ h \in Threads => operation.op = "discover"
    /\ request' = [request EXCEPT ![h] =
         [pc |-> "probe", op |-> operation.op, target |-> operation.target,
          allow |-> operation.allow, seen |-> EnabledProviders,
          found |-> Nothing, fresh |-> Visible \/ Local \notin registered]]
    /\ UNCHANGED <<row, registered, newer, turn, asked, lapsed>>

(* Only an installed provider is enabled, and one that cannot answer       *)
(* non-interactively only when the request says so.                        *)
MayEnable(found, p, allow) ==
    /\ found[p] # "missing"
    /\ found[p] = "capable" \/ allow

(* A CLI may be installed, removed, or fail to print its help in 3 seconds *)
(* (it is then found mute, as the Cursor editor always is) between any two *)
(* probes: what is found is the environment's choice.                      *)
ProbeMachine(h, found) ==
    LET r == request[h]
        refused == r.op = "enable" /\ ~MayEnable(found, r.target, r.allow)
    IN  /\ r.pc = "probe"
        /\ request' = [request EXCEPT ![h] =
                         IF refused THEN Idle
                         ELSE [r EXCEPT !.pc = "write", !.found = found]]
        /\ asked' = IF r.op = "enable" /\ ~refused
                    THEN asked \cup {r.target} ELSE asked
        /\ lapsed' = lapsed \cup (Providers \ Capable(found))
        /\ UNCHANGED <<row, registered, newer, turn>>

(* What a slip in the exclusive enabling, or in a discovery, would make of *)
(* the flags.                                                              *)
\* the list kept is of the capable providers only
FlagsOfCapable(r) ==
    CASE r.op = "discover" -> r.seen \cap Capable(r.found)
      [] r.op = "disable"  -> r.seen \ {r.target}
      [] r.op = "enable"   -> {r.target} \cup (r.seen \ Capable(r.found))

\* enabling a provider adds it to the enabled ones
FlagsAdded(r) ==
    CASE r.op = "discover" -> r.seen
      [] r.op = "disable"  -> r.seen \ {r.target}
      [] r.op = "enable"   -> r.seen \cup {r.target}

\* a provider that can decide is enabled as soon as it is discovered
FlagsOfDiscovered(r) ==
    CASE r.op = "discover" -> r.seen \cup Capable(r.found)
      [] r.op = "disable"  -> r.seen \ {r.target}
      [] r.op = "enable"   -> {r.target} \cup (r.seen \ Capable(r.found))

(* Enabling a provider leaves no other capable one enabled; the flag of a  *)
(* provider this probe found incapable is left as it was read.             *)
Flags(r) ==
    CASE r.op = "discover" -> r.seen
      [] r.op = "disable"  -> r.seen \ {r.target}
      [] r.op = "enable"   -> {r.target} \cup (r.seen \ Capable(r.found))

(* register_agent_runtime replaces the whole provider list of the row.     *)
WriteRow(h) ==
    LET r == request[h] IN
    /\ r.pc = "write"
    /\ row' = [found |-> r.found, enabled |-> Flags(r)]
    /\ registered' = registered \cup {Local}
    /\ newer' = {}
    /\ request' = [g \in Handlers |->
                     IF g = h THEN Idle
                     ELSE [request[g] EXCEPT !.fresh =
                             request[g].pc = "idle"]]
    /\ UNCHANGED <<turn, asked, lapsed>>

(* Registrations and heartbeats are coroutines: none runs during another.  *)
RegisterPeer(p) ==
    /\ request[Loop].pc = "idle"
    /\ registered' = registered \cup {p}
    /\ newer' = newer \cup {p}
    /\ UNCHANGED <<row, request, turn, asked, lapsed>>

Heartbeat(r) ==
    /\ request[Loop].pc = "idle"
    /\ r \in registered
    /\ newer' = IF r = Local THEN {} ELSE newer \cup {r}
    /\ UNCHANGED <<row, registered, request, turn, asked, lapsed>>

-----------------------------------------------------------------------------
(* A turn of a case.                                                       *)

NoTurn == [pc |-> "idle", agent |-> None]

(* Without an agent the turn ends at the gate, asking for one.             *)
DecisionGate ==
    /\ turn.pc = "idle"
    /\ DecisionAgentSource # None
    /\ turn' = [pc |-> "plan", agent |-> None]
    /\ UNCHANGED <<row, registered, newer, request, asked, lapsed>>

(* The plan asks for the provider again.  Its command may fail, and an     *)
(* advisor that fails leaves the deterministic proposal as it is.          *)
ConsultAgent(answers) ==
    /\ turn.pc = "plan"
    /\ turn' = [turn EXCEPT !.pc = "decided", !.agent =
          IF AdvisorDisabled \/ ~answers THEN None
          ELSE IF Decisive # {} THEN EnabledDecisionProvider
          ELSE IF PlatformLLM THEN "platform_llm" ELSE None]
    /\ UNCHANGED <<row, registered, newer, request, asked, lapsed>>

EndTurn ==
    /\ turn.pc = "decided"
    /\ turn' = NoTurn
    /\ UNCHANGED <<row, registered, newer, request, asked, lapsed>>

-----------------------------------------------------------------------------
Init ==
    /\ row = [found |-> Nothing, enabled |-> {}]
    /\ registered = {}
    /\ newer = {}
    /\ request = [h \in Handlers |-> Idle]
    /\ turn = NoTurn
    /\ asked = {}
    /\ lapsed = {}

Next ==
    \/ \E h \in Handlers, operation \in Operations : ReadFlags(h, operation)
    \/ \E h \in Handlers, found \in Findings : ProbeMachine(h, found)
    \/ \E h \in Handlers : WriteRow(h)
    \/ \E p \in Peers : RegisterPeer(p)
    \/ \E r \in Peers \cup {Local} : Heartbeat(r)
    \/ DecisionGate
    \/ \E answers \in BOOLEAN : ConsultAgent(answers)
    \/ EndTurn

Spec == Init /\ [][Next]_vars

-----------------------------------------------------------------------------
(* Properties.                                                             *)

Agents == Providers \cup {"platform_llm", None}
Machines == [Providers -> {"missing", "mute", "capable"}]

(* The row, the requests in flight and the turn have their types, and only *)
(* a handler of the event loop enables or disables (server.py).            *)
TypeOK ==
    /\ row \in [found : Machines, enabled : SUBSET Providers]
    /\ registered \subseteq Peers \cup {Local}
    /\ newer \subseteq Peers
    /\ request \in [Handlers ->
         [pc : {"idle", "probe", "write"},
          op : {"discover", "enable", "disable"},
          target : Providers \cup {None}, allow : BOOLEAN,
          seen : SUBSET Providers, found : Machines, fresh : BOOLEAN]]
    /\ \A h \in Handlers :
         /\ request[h].op # "discover" => request[h].target \in Providers
         /\ h \in Threads => request[h].op = "discover"
    /\ turn \in [pc : {"idle", "plan", "decided"}, agent : Agents]
    /\ asked \subseteq Providers
    /\ lapsed \subseteq Providers

(* Of the providers that are enabled at most one has always been found     *)
(* able to decide: whatever the order in which discoveries and requests    *)
(* overwrite the row, two of them decide only if one failed a probe        *)
(* (enable_local_agent_provider).                                          *)
TwoAgentsNeedALapse ==
    \A p, q \in row.enabled \ lapsed : p = q

(* No discovery enables a provider by itself: a provider that is enabled,  *)
(* or that advised a case, was once the target of an accepted request      *)
(* (_discovered_local_agent_providers, _decision_agent_source).            *)
EnabledWasAsked ==
    /\ row.enabled \subseteq asked
    /\ turn.agent \in Providers => turn.agent \in asked

(* A flag changes by a request about it, by the exclusive enabling of      *)
(* another provider, or by a writer whose read of the row was overtaken or *)
(* did not see the row: a discovery on its own keeps every flag            *)
(* (discover_local_agent_runtime), whatever it finds on the machine.       *)
FlagsChangeOnRequest ==
    [][\A p \in Providers :
          (p \in row.enabled) # (p \in row'.enabled) =>
             \E h \in Handlers :
                /\ request[h].pc = "write" /\ request'[h].pc = "idle"
                /\ \/ ~request[h].fresh
                   \/ request[h].target = p
                   \/ /\ request[h].op = "enable"
                      /\ request[h].found[p] = "capable"]_vars

(* Of one runtime at most one decision provider is enabled                 *)
(* (docs/local-runbook.md).                                                *)
OneDecisionAgent ==
    \A p, q \in row.enabled \cap Capable(row.found) : p = q
=============================================================================
