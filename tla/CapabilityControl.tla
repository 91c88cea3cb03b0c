------------------------- MODULE CapabilityControl -------------------------
(***************************************************************************)
(* The control plane of the tools: the capability table the Agent Platform *)
(* writes (capabilities.py, service.py, repository.py) and the registry    *)
(* the Gateway loads from it (internal/gateway/dynamic.go,                 *)
(* internal/tool/types.go).                                                *)
(*                                                                         *)
(* A control request imports a capability, publishes one or disables one;  *)
(* the last two then make the Gateway reload.  A reload runs under a mutex *)
(* but reads the table once, registers tool by tool, and stops at the first *)
(* capability it cannot register.  Each statement on the table and each    *)
(* locked section of the registry is one action.                           *)
(***************************************************************************)
EXTENDS Naturals, FiniteSets

CONSTANTS
    Tools,      \* tool names
    BuiltIn,    \* the names RegisterDefaultTools registers at start-up
    Scopes,     \* required scopes; a version of a capability is known by its scope
    Admins,     \* control requests, each used once
    Boot,       \* the reload of the Gateway's main function
    Nobody,     \* the mutex is free
    Faults      \* some of "restart", "store", "unreachable"

ASSUME ControlAssumption ==
    /\ BuiltIn \subseteq Tools
    /\ {"none", "builtin", "unlisted", "refused"} \cap Scopes = {}
    /\ Boot \notin Admins
    /\ Nobody \notin Admins \cup {Boot}
    /\ Faults \subseteq {"restart", "store", "unreachable"}

\* the reloader's listing ends after 500 rows (dynamic.go:39); the model is of
\* a table that never holds more, so that every enabled row is listed
ASSUME ListLimitAssumption == IsFiniteSet(Tools) /\ Cardinality(Tools) <= 500

VARIABLES
    toolStatus,  \* tool_status of every row; "absent" before the INSERT
    safety,      \* safety_status, with "incomplete" for a readonly candidate
                 \* that lacks its URL or has an invalid schema
    scope,       \* required_scope
    approved,    \* versions somebody published (ghost)
    reg,         \* Registry: what each name is registered as
    registered,  \* CapabilityReloader.registered
    holder,      \* who holds CapabilityReloader.mu
    apc,         \* where each reload is
    job,         \* the operation and the tool of each request
    listing,     \* what the reload's query returned for each tool
    todo         \* listed tools the reload has not registered yet

table   == <<toolStatus, safety, scope, approved>>
gateway == <<reg, registered, holder>>
cvars   == <<table, gateway, apc, job, listing, todo>>

Reloaders == Admins \cup {Boot}

Statuses  == {"draft", "enabled", "disabled", "rejected"}
Safeties  == {"readonly_candidate", "incomplete", "needs_review", "rejected"}
Unlisted  == [t \in Tools |-> "unlisted"]
NoJob     == [op |-> "none", tool |-> "none"]

\* inside CapabilityReloader.Reload
ReloadPcs == {"list", "register", "sweep"}

TypeOK ==
    /\ toolStatus \in [Tools -> Statuses \cup {"absent"}]
    /\ safety \in [Tools -> Safeties]
    /\ scope \in [Tools -> Scopes]
    /\ approved \subseteq Tools \X Scopes
    /\ reg \in [Tools -> Scopes \cup {"none", "builtin"}]
    /\ registered \subseteq Tools
    /\ holder \in Reloaders \cup {Nobody}
    /\ apc \in [Reloaders -> ReloadPcs \cup {"idle", "imported", "reload", "ok", "failed"}]
    /\ job \in [Admins -> [op : {"none", "publish", "disable"},
                           tool : Tools \cup {"none"}]]
    /\ listing \in [Reloaders -> [Tools -> Scopes \cup {"unlisted", "refused"}]]
    /\ todo \in [Reloaders -> SUBSET Tools]

\* The registry of a Gateway that has just started.
BuiltInRegistry == [t \in Tools |-> IF t \in BuiltIn THEN "builtin" ELSE "none"]

\* The table is as earlier requests left it; the Gateway's main function is
\* about to reload.
Init ==
    /\ toolStatus \in [Tools -> Statuses \cup {"absent"}]
    /\ safety \in [Tools -> Safeties]
    /\ scope \in [Tools -> Scopes]
    /\ \A t \in Tools :
        /\ toolStatus[t] = "rejected" => safety[t] = "rejected"
        /\ toolStatus[t] = "draft" => safety[t] # "rejected"
        /\ toolStatus[t] = "absent" => /\ safety[t] = "needs_review"
                                       /\ scope[t] = CHOOSE s \in Scopes : TRUE
    /\ approved = {<<t, scope[t]>> : t \in {u \in Tools : toolStatus[u] = "enabled"}}
    /\ reg = BuiltInRegistry
    /\ registered = {}
    /\ holder = Boot
    /\ apc = [a \in Reloaders |-> IF a = Boot THEN "list" ELSE "idle"]
    /\ job = [a \in Admins |-> NoJob]
    /\ listing = [a \in Reloaders |-> Unlisted]
    /\ todo = [a \in Reloaders |-> {}]

-----------------------------------------------------------------------------
(* The Agent Platform: requests of the web console *)

\* main listens only after its own reload
Serving == apc[Boot] \in {"ok", "failed"}

\* Mutant: a second import leaves the status of the row alone.
ImportKeepingStatus(a, t, s, sc) ==
    /\ apc[a] = "idle"
    /\ toolStatus' = [toolStatus EXCEPT ![t] =
                         IF @ # "absent" THEN @
                         ELSE IF s = "rejected" THEN "rejected" ELSE "draft"]
    /\ safety' = [safety EXCEPT ![t] = s]
    /\ scope' = [scope EXCEPT ![t] = sc]
    /\ apc' = [apc EXCEPT ![a] = "imported"]
    /\ UNCHANGED <<approved, gateway, job, listing, todo>>

\* import_capabilities, one capability of the manifest: the upsert overwrites
\* status, safety and scope of a row that exists, and nobody reloads
ImportCapability(a, t, s, sc) ==
    /\ apc[a] = "idle"
    /\ toolStatus' = [toolStatus EXCEPT ![t] =
                         IF s = "rejected" THEN "rejected" ELSE "draft"]
    /\ safety' = [safety EXCEPT ![t] = s]
    /\ scope' = [scope EXCEPT ![t] = sc]
    /\ apc' = [apc EXCEPT ![a] = "imported"]
    /\ UNCHANGED <<approved, gateway, job, listing, todo>>

\* publish_capability: whatever the status and the safety of the row
Publish(a, t) ==
    /\ apc[a] = "idle"
    /\ toolStatus[t] # "absent"
    /\ toolStatus' = [toolStatus EXCEPT ![t] = "enabled"]
    /\ approved' = approved \cup {<<t, scope[t]>>}
    /\ job' = [job EXCEPT ![a] = [op |-> "publish", tool |-> t]]
    /\ apc' = [apc EXCEPT ![a] = "reload"]
    /\ UNCHANGED <<safety, scope, gateway, listing, todo>>

\* disable_capability
Disable(a, t) ==
    /\ apc[a] = "idle"
    /\ toolStatus[t] # "absent"
    /\ toolStatus' = [toolStatus EXCEPT ![t] = "disabled"]
    /\ job' = [job EXCEPT ![a] = [op |-> "disable", tool |-> t]]
    /\ apc' = [apc EXCEPT ![a] = "reload"]
    /\ UNCHANGED <<safety, scope, approved, gateway, listing, todo>>

\* _reload_gateway_capabilities swallows what its HTTP call raises
ReloadUnreachable(a) ==
    /\ apc[a] = "reload"
    /\ ~Serving \/ "unreachable" \in Faults
    /\ apc' = [apc EXCEPT ![a] = "failed"]
    /\ UNCHANGED <<table, gateway, job, listing, todo>>

-----------------------------------------------------------------------------
(* The Gateway: CapabilityReloader.Reload *)

BeginReload(a) ==
    /\ apc[a] = "reload"
    /\ Serving
    /\ holder = Nobody
    /\ holder' = a
    /\ apc' = [apc EXCEPT ![a] = "list"]
    /\ UNCHANGED <<table, reg, registered, job, listing, todo>>

\* what ListToolCapabilities(enabled) returns of a tool, and whether
\* RegisterDynamicCapability will accept it
Listed(t) ==
    IF toolStatus[t] # "enabled" THEN "unlisted"
    ELSE IF safety[t] # "readonly_candidate" THEN "refused"
    ELSE scope[t]

ListCapabilities(a) ==
    /\ apc[a] = "list"
    /\ listing' = [listing EXCEPT ![a] = [t \in Tools |-> Listed(t)]]
    /\ todo' = [todo EXCEPT ![a] = {t \in Tools : toolStatus[t] = "enabled"}]
    /\ apc' = [apc EXCEPT ![a] = "register"]
    /\ UNCHANGED <<table, gateway, job>>

\* Mutant: what the table lists is registered without a look at its safety.
RegisterUnchecked(a, t) ==
    /\ apc[a] = "register"
    /\ t \in todo[a]
    /\ reg' = [reg EXCEPT ![t] = listing[a][t]]
    /\ todo' = [todo EXCEPT ![a] = @ \ {t}]
    /\ UNCHANGED <<table, registered, holder, apc, job, listing>>

\* one capability of the list, in no particular order
RegisterCapability(a, t) ==
    /\ apc[a] = "register"
    /\ t \in todo[a]
    /\ listing[a][t] # "refused"
    /\ reg' = [reg EXCEPT ![t] = listing[a][t]]
    /\ todo' = [todo EXCEPT ![a] = @ \ {t}]
    /\ UNCHANGED <<table, registered, holder, apc, job, listing>>

\* the deferred Unlock of a reload, and the end of the request that asked for it
EndReload(a, result) ==
    /\ holder' = Nobody
    /\ apc' = [apc EXCEPT ![a] = result]
    /\ listing' = [listing EXCEPT ![a] = Unlisted]
    /\ todo' = [todo EXCEPT ![a] = {}]
    /\ UNCHANGED <<table, reg, job>>

\* Mutant: the early return keeps the mutex.
AbortReloadLocked(a) ==
    /\ apc[a] = "register"
    /\ \E t \in todo[a] : listing[a][t] = "refused"
    /\ apc' = [apc EXCEPT ![a] = "failed"]
    /\ UNCHANGED <<table, gateway, job, listing, todo>>

\* Mutant: the early return does not report the error.
AbortReloadSilently(a) ==
    /\ apc[a] = "register"
    /\ \E t \in todo[a] : listing[a][t] = "refused"
    /\ EndReload(a, "ok")
    /\ UNCHANGED registered

\* a capability of the list cannot be registered: return, with what was
\* registered so far and the old set of registered names
AbortReload(a) ==
    /\ apc[a] = "register"
    /\ \E t \in todo[a] : listing[a][t] = "refused"
    /\ EndReload(a, "failed")
    /\ UNCHANGED registered

\* the query fails
ListFails(a) ==
    /\ "store" \in Faults
    /\ apc[a] = "list"
    /\ EndReload(a, "failed")
    /\ UNCHANGED registered

RegisterDone(a) ==
    /\ apc[a] = "register"
    /\ todo[a] = {}
    /\ apc' = [apc EXCEPT ![a] = "sweep"]
    /\ UNCHANGED <<table, gateway, job, listing, todo>>

\* registered so far, and not in the list any more
Stale(a) == {t \in registered : listing[a][t] = "unlisted"}

\* Unregister of one name.  registered is read by the reload only, so the name
\* may leave it now although the code replaces the whole map at the end.
SweepCapability(a, t) ==
    /\ apc[a] = "sweep"
    /\ t \in Stale(a)
    /\ reg' = [reg EXCEPT ![t] = "none"]
    /\ registered' = registered \ {t}
    /\ UNCHANGED <<table, holder, apc, job, listing, todo>>

\* Mutant: the names to remember are read from the table again.
FinishReloadRereading(a) ==
    /\ apc[a] = "sweep"
    /\ Stale(a) = {}
    /\ registered' = {t \in Tools : toolStatus[t] = "enabled"}
    /\ EndReload(a, "ok")

FinishReload(a) ==
    /\ apc[a] = "sweep"
    /\ Stale(a) = {}
    /\ registered' = {t \in Tools : listing[a][t] # "unlisted"}
    /\ EndReload(a, "ok")

\* the Gateway process restarts: its registry, its mutex and the requests it
\* was serving are gone
RestartGateway ==
    /\ "restart" \in Faults
    /\ reg' = BuiltInRegistry
    /\ registered' = {}
    /\ holder' = Boot
    /\ apc' = [a \in Reloaders |->
                  IF a = Boot THEN "list"
                  ELSE IF apc[a] \in ReloadPcs THEN "failed" ELSE apc[a]]
    /\ listing' = [a \in Reloaders |-> Unlisted]
    /\ todo' = [a \in Reloaders |-> {}]
    /\ UNCHANGED <<table, job>>

\* every request is over: the servers wait for requests this model has used up
Quiescent ==
    /\ \A a \in Reloaders : apc[a] \in {"idle", "imported", "ok", "failed"}
    /\ UNCHANGED cvars

-----------------------------------------------------------------------------

Reload(a) ==
    \/ ListCapabilities(a) \/ ListFails(a)
    \/ \E t \in Tools : RegisterCapability(a, t) \/ SweepCapability(a, t)
    \/ AbortReload(a) \/ RegisterDone(a) \/ FinishReload(a)

Request(a) ==
    \E t \in Tools :
        \/ \E s \in Safeties, sc \in Scopes : ImportCapability(a, t, s, sc)
        \/ Publish(a, t) \/ Disable(a, t)

\* a step of a request or of a reload
Operate ==
    \/ \E a \in Admins : Request(a) \/ ReloadUnreachable(a) \/ BeginReload(a)
    \/ \E a \in Reloaders : Reload(a)

Next == Operate \/ RestartGateway \/ Quiescent

Spec == Init /\ [][Next]_cvars

\* A reload that runs goes on (its query has a timeout), and Go's mutex is
\* handed to a goroutine that waits for it; a Gateway that is not up refuses
\* the connection.  Nobody must send a request, and no call must get lost.
FairSpec ==
    /\ Spec
    /\ \A a \in Reloaders : WF_cvars(Reload(a))
    /\ \A a \in Admins : WF_cvars(\/ BeginReload(a)
                                  \/ ~Serving /\ ReloadUnreachable(a))

-----------------------------------------------------------------------------
(* Properties *)

(***************************************************************************)
(* The Gateway only serves versions of a capability that somebody has      *)
(* published: a reload that registers what it read a while ago, the leak   *)
(* of an aborted reload and a re-import of a published row cannot bring    *)
(* an unpublished version into the registry.                               *)
(***************************************************************************)
OnlyPublishedServed ==
    \A t \in Tools : reg[t] \in Scopes => <<t, reg[t]>> \in approved

\* a reload on behalf of tool t that has yet to register, or that has failed
Excused(t) ==
    \/ \E a \in Admins : /\ job[a] = [op |-> "publish", tool |-> t]
                         /\ apc[a] \in {"reload", "list", "register", "failed"}
    \/ apc[Boot] \in {"list", "register", "failed"}

(***************************************************************************)
(* A published capability is served in its current version, unless its own *)
(* publication is still under way or was answered with a failed reload, or *)
(* the Gateway's own first reload is or was.  No other request's reload,   *)
(* working from an older reading of the table, takes it away or puts an    *)
(* older version back.                                                     *)
(***************************************************************************)
PublishedIsServed ==
    \A t \in Tools :
        toolStatus[t] = "enabled" /\ reg[t] # scope[t] => Excused(t)

(***************************************************************************)
(* The reloader only remembers names it has registered itself and nobody   *)
(* has removed: a sweep never unregisters a built-in tool that no          *)
(* capability has replaced.                                                *)
(***************************************************************************)
RegisteredAreDynamic ==
    \A t \in registered : reg[t] \in Scopes

(***************************************************************************)
(* Every request that publishes or disables is answered, although reloads  *)
(* wait for each other and stop half-way.                                  *)
(***************************************************************************)
ReloadIsAnswered ==
    \A a \in Admins : apc[a] = "reload" ~> apc[a] \in {"ok", "failed"}

(***************************************************************************)
(* What the documentation promises and the code does not keep.             *)
(***************************************************************************)

\* docs/gateway-security.md:66: a tool is only run while it is enabled.  Here:
\* when a reload succeeds, no tool outside its list is left registered.
SuccessfulReloadDropsDisabled ==
    [][\A a \in Reloaders :
          FinishReload(a) =>
              \A t \in Tools : reg'[t] \in Scopes => listing[a][t] # "unlisted"]_cvars
=============================================================================
