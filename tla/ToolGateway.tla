---------------------------- MODULE ToolGateway ----------------------------
(***************************************************************************)
(* Calls of tools through the Investigation Gateway (Gateway.Invoke in     *)
(* internal/gateway/gateway.go) while the control plane reloads the tools  *)
(* (CapabilityControl).                                                    *)
(*                                                                         *)
(* Invoke looks the tool up twice: its specification, which the rate       *)
(* limits, the policy and the parameter bounds are checked against, and    *)
(* later its handler.  Each lookup takes the registry's lock for itself.   *)
(* The checks are arbitrary but for the one the properties need: the       *)
(* policy allows a call only if the agent has the specification's scope.   *)
(***************************************************************************)
EXTENDS CapabilityControl

CONSTANTS
    Calls,        \* invocations, each used once
    Granted       \* scopes of the calling agent; "builtin" if it may use those

ASSUME CallAssumption == Granted \subseteq Scopes \cup {"builtin"}

VARIABLES
    cpc,       \* where each call is
    called,    \* the tool it names
    spec,      \* the registration whose specification it was checked against
    ran,       \* the registration whose handler it ran
    outcome,   \* what the caller was told
    audit      \* policy_decision of its audit row; "dropped" if the sink refused it

callVars == <<cpc, called, spec, ran, outcome, audit>>
vars     == <<cvars, callVars>>

Registrations == Scopes \cup {"builtin"}

InFlight == {"checking", "authorised", "running"}

CallTypeOK ==
    /\ cpc \in [Calls -> InFlight \cup {"idle", "answered", "lost"}]
    /\ called \in [Calls -> Tools \cup {"none"}]
    /\ spec \in [Calls -> Registrations \cup {"none"}]
    /\ ran \in [Calls -> Registrations \cup {"none"}]
    /\ outcome \in [Calls -> {"none", "not_found", "denied", "failed", "success"}]
    /\ audit \in [Calls -> {"none", "denied", "error", "allowed", "dropped"}]

CallInit ==
    /\ Init
    /\ cpc = [k \in Calls |-> "idle"]
    /\ called = [k \in Calls |-> "none"]
    /\ spec = [k \in Calls |-> "none"]
    /\ ran = [k \in Calls |-> "none"]
    /\ outcome = [k \in Calls |-> "none"]
    /\ audit = [k \in Calls |-> "none"]

-----------------------------------------------------------------------------

\* recordAudit: an error of the sink is dropped
RecordAudit(k, decision) ==
    \E row \in {decision, "dropped"} : audit' = [audit EXCEPT ![k] = row]

Answer(k, result) ==
    /\ cpc' = [cpc EXCEPT ![k] = "answered"]
    /\ outcome' = [outcome EXCEPT ![k] = result]

\* registry.Get: the call of an unknown tool returns at once
Lookup(k, t) ==
    /\ cpc[k] = "idle"
    /\ Serving
    /\ called' = [called EXCEPT ![k] = t]
    /\ \/ /\ reg[t] = "none"
          /\ Answer(k, "not_found")
          /\ UNCHANGED spec
       \/ /\ reg[t] # "none"
          /\ spec' = [spec EXCEPT ![k] = reg[t]]
          /\ cpc' = [cpc EXCEPT ![k] = "checking"]
          /\ UNCHANGED outcome
    /\ UNCHANGED <<cvars, ran, audit>>

\* another agent's token, a rate limit, the policy, or the parameter bounds
Deny(k) ==
    /\ cpc[k] = "checking"
    /\ RecordAudit(k, "denied")
    /\ Answer(k, "denied")
    /\ UNCHANGED <<cvars, called, spec, ran>>

Authorise(k) ==
    /\ cpc[k] = "checking"
    /\ spec[k] \in Granted
    /\ cpc' = [cpc EXCEPT ![k] = "authorised"]
    /\ UNCHANGED <<cvars, called, spec, ran, outcome, audit>>

\* registry.Handler: the tool may be gone by now, or be another one
RunHandler(k) ==
    /\ cpc[k] = "authorised"
    /\ \/ /\ reg[called[k]] = "none"
          /\ RecordAudit(k, "error")
          /\ Answer(k, "failed")
          /\ UNCHANGED ran
       \/ /\ reg[called[k]] # "none"
          /\ ran' = [ran EXCEPT ![k] = reg[called[k]]]
          /\ cpc' = [cpc EXCEPT ![k] = "running"]
          /\ UNCHANGED <<outcome, audit>>
    /\ UNCHANGED <<cvars, called, spec>>

\* Mutant: a handler that fails is not recorded.
HandlerReturnsUnrecorded(k) ==
    /\ cpc[k] = "running"
    /\ \/ Answer(k, "success") /\ RecordAudit(k, "allowed")
       \/ Answer(k, "failed") /\ UNCHANGED audit
    /\ UNCHANGED <<cvars, called, spec, ran>>

\* the handler returns, with an answer, an error or its timeout
HandlerReturns(k) ==
    /\ cpc[k] = "running"
    /\ \E result \in {"success", "failed"} : Answer(k, result)
    /\ RecordAudit(k, "allowed")
    /\ UNCHANGED <<cvars, called, spec, ran>>

\* the process dies with the calls it is working on
RestartDroppingCalls ==
    /\ RestartGateway
    /\ cpc' = [k \in Calls |-> IF cpc[k] \in InFlight THEN "lost" ELSE cpc[k]]
    /\ UNCHANGED <<called, spec, ran, outcome, audit>>

CallsQuiescent ==
    /\ Quiescent
    /\ \A k \in Calls : cpc[k] \notin InFlight
    /\ UNCHANGED callVars

Call(k) ==
    \/ \E t \in Tools : Lookup(k, t)
    \/ Deny(k) \/ Authorise(k) \/ RunHandler(k) \/ HandlerReturns(k)

CallNext ==
    \/ \E k \in Calls : Call(k)
    \/ Operate /\ UNCHANGED callVars
    \/ RestartDroppingCalls
    \/ CallsQuiescent

CallSpec == CallInit /\ [][CallNext]_vars

-----------------------------------------------------------------------------
(* Properties *)

(***************************************************************************)
(* Unless the sink refused it, the audit row of an answered call tells     *)
(* what was done on its behalf: "allowed" for exactly those calls whose    *)
(* handler ran, whatever a concurrent reload made of the tool.             *)
(***************************************************************************)
AuditTellsWhatRan ==
    \A k \in Calls :
        cpc[k] = "answered" /\ audit[k] # "dropped" =>
            /\ audit[k] = "allowed" <=> ran[k] # "none"
            /\ outcome[k] = "denied" <=> audit[k] = "denied"
            /\ outcome[k] = "failed" => audit[k] \in {"error", "allowed"}

(***************************************************************************)
(* No call runs a version of a capability that nobody has published, even  *)
(* if the tool is imported anew, published and reloaded while it runs.     *)
(***************************************************************************)
OnlyPublishedRuns ==
    \A k \in Calls : ran[k] \in Scopes => <<called[k], ran[k]>> \in approved

(***************************************************************************)
(* What the documentation promises and the code does not keep.             *)
(***************************************************************************)

\* docs/gateway-security.md:67: before a tool is run its scope has been checked
\* to be one the agent has.
RunsOnlyGrantedScopes ==
    \A k \in Calls : ran[k] # "none" => ran[k] \in Granted
=============================================================================
