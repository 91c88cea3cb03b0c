------------------------- MODULE ToolGateway_proofs -------------------------
(***************************************************************************)
(* Proofs about ToolGateway, for any number of calls and whatever the      *)
(* control plane does meanwhile: calls do not disturb the control plane,   *)
(* only published versions run, and the audit rows tell what ran.          *)
(***************************************************************************)
EXTENDS ToolGateway, CapabilityControl_proofs

-----------------------------------------------------------------------------
(* The composition behaves as the control plane alone: its invariants carry *)
(* over.                                                                   *)

USE DEF callVars, cvars, table, gateway

(* A step of a call leaves the control plane alone. *)
LEMMA CallFrame ==
  ASSUME NEW k \in Calls, Call(k)
  PROVE  UNCHANGED cvars
  BY DEF Call, Lookup, Deny, Authorise, RunHandler, HandlerReturns, cvars

THEOREM CallsKeepControl == CallSpec => Spec
<1>1. CallInit => Init
  BY DEF CallInit
<1>2. [CallNext]_vars => [Next]_cvars
  BY CallFrame DEF CallNext, RestartDroppingCalls, CallsQuiescent, Next, vars
<1> QED BY <1>1, <1>2, PTL DEF CallSpec, Spec

(* No version is unpublished. *)
LEMMA ApprovedGrows ==
  ASSUME TypeOK, [Next]_cvars
  PROVE  approved \subseteq approved'
<1>1. ASSUME NEW a \in Admins, Request(a)  PROVE approved \subseteq approved'
  <2>1. PICK t \in Tools : Write(a, t)
    BY <1>1 DEF Request, Write
  <2> QED BY <2>1, WriteFrame
<1>2. ASSUME NEW a \in Admins, ReloadUnreachable(a) \/ BeginReload(a)
      PROVE  UNCHANGED approved
  BY <1>2 DEF ReloadUnreachable, BeginReload
<1>3. ASSUME NEW a \in Reloaders, Reload(a)  PROVE UNCHANGED approved
  BY <1>3 DEF Reload, ListCapabilities, ListFails, RegisterCapability, SweepCapability,
              AbortReload, RegisterDone, FinishReload, EndReload
<1>4. ASSUME RestartGateway \/ UNCHANGED cvars  PROVE UNCHANGED approved
  BY <1>4 DEF RestartGateway
<1> QED BY <1>1, <1>2, <1>3, <1>4 DEF Next, Operate, Quiescent

-----------------------------------------------------------------------------
(* The calls *)

\* What a call has done so far, by where it is.
ProgressInv ==
    \A k \in Calls :
        /\ cpc[k] \in {"idle", "checking", "authorised"} =>
              ran[k] = "none" /\ audit[k] = "none" /\ outcome[k] = "none"
        /\ cpc[k] = "running" =>
              ran[k] # "none" /\ audit[k] = "none" /\ outcome[k] = "none"
        /\ cpc[k] \in {"checking", "authorised", "running"} => called[k] \in Tools

CallInv == CallTypeOK /\ ProgressInv /\ AuditTellsWhatRan /\ OnlyPublishedRuns

LEMMA CallInvInit == CallInit => CallInv
<1> SUFFICES ASSUME CallInit PROVE CallInv
  OBVIOUS
<1> USE DEF CallInit
<1>1. CallTypeOK  BY DEF CallTypeOK
<1>2. ProgressInv /\ AuditTellsWhatRan  BY DEF ProgressInv, AuditTellsWhatRan
<1>3. OnlyPublishedRuns
  BY ControlAssumption DEF OnlyPublishedRuns, ControlAssumption
<1> QED BY <1>1, <1>2, <1>3 DEF CallInv

(* A step of the control plane alone keeps what is known of the calls. *)
LEMMA ControlKeepsCalls ==
  ASSUME CallInv, TypeOK, [Next]_cvars, UNCHANGED callVars
  PROVE  CallInv'
  BY ApprovedGrows
  DEF CallInv, CallTypeOK, ProgressInv, AuditTellsWhatRan, OnlyPublishedRuns

LEMMA LookupStep ==
  ASSUME CallInv, NEW k \in Calls, NEW t \in Tools, Lookup(k, t), TypeOK
  PROVE  CallInv'
<1> USE DEF CallInv, Lookup, Answer
<1>0. reg[t] \in Registrations \cup {"none"}
  BY DEF TypeOK, Registrations
<1>1. CallTypeOK'
  BY <1>0 DEF CallTypeOK, InFlight
<1>2. ProgressInv'  BY DEF ProgressInv, CallTypeOK
<1>3. AuditTellsWhatRan'  BY DEF AuditTellsWhatRan, ProgressInv, CallTypeOK
<1>4. OnlyPublishedRuns'
  BY ControlAssumption
  DEF OnlyPublishedRuns, ProgressInv, CallTypeOK, ControlAssumption
<1> QED BY <1>1, <1>2, <1>3, <1>4

LEMMA DenyStep ==
  ASSUME CallInv, NEW k \in Calls, Deny(k)
  PROVE  CallInv'
<1> USE DEF CallInv, Deny, Answer, RecordAudit
<1>1. CallTypeOK'  BY DEF CallTypeOK, InFlight
<1>2. ProgressInv'  BY DEF ProgressInv, CallTypeOK
<1>3. AuditTellsWhatRan'  BY DEF AuditTellsWhatRan, ProgressInv, CallTypeOK
<1>4. OnlyPublishedRuns'  BY DEF OnlyPublishedRuns
<1> QED BY <1>1, <1>2, <1>3, <1>4

LEMMA AuthoriseStep ==
  ASSUME CallInv, NEW k \in Calls, Authorise(k)
  PROVE  CallInv'
<1> USE DEF CallInv, Authorise
<1>1. CallTypeOK'  BY DEF CallTypeOK, InFlight
<1>2. ProgressInv'  BY DEF ProgressInv, CallTypeOK
<1>3. AuditTellsWhatRan'  BY DEF AuditTellsWhatRan, CallTypeOK
<1>4. OnlyPublishedRuns'  BY DEF OnlyPublishedRuns
<1> QED BY <1>1, <1>2, <1>3, <1>4

(* The handler that is run is one of those the registry serves now. *)
LEMMA RunHandlerStep ==
  ASSUME CallInv, TypeOK, OnlyPublishedServed, NEW k \in Calls, RunHandler(k)
  PROVE  CallInv'
<1> USE DEF CallInv, RunHandler, Answer, RecordAudit
<1>0. called[k] \in Tools /\ cpc[k] = "authorised"
  BY DEF ProgressInv
<1>5. reg[called[k]] \in Registrations \cup {"none"}
  BY <1>0 DEF TypeOK, Registrations
<1>1. CallTypeOK'
  BY <1>5 DEF CallTypeOK, InFlight
<1>2. ProgressInv'  BY <1>0 DEF ProgressInv, CallTypeOK
<1>3. AuditTellsWhatRan'  BY <1>0 DEF AuditTellsWhatRan, ProgressInv, CallTypeOK
<1>4. OnlyPublishedRuns'
  BY <1>0 DEF OnlyPublishedRuns, OnlyPublishedServed, CallTypeOK
<1> QED BY <1>1, <1>2, <1>3, <1>4

LEMMA HandlerReturnsStep ==
  ASSUME CallInv, NEW k \in Calls, HandlerReturns(k)
  PROVE  CallInv'
<1> USE DEF CallInv, HandlerReturns, Answer, RecordAudit
<1>1. CallTypeOK'  BY DEF CallTypeOK, InFlight
<1>2. ProgressInv'  BY DEF ProgressInv, CallTypeOK
<1>3. AuditTellsWhatRan'  BY DEF AuditTellsWhatRan, ProgressInv, CallTypeOK
<1>4. OnlyPublishedRuns'  BY DEF OnlyPublishedRuns
<1> QED BY <1>1, <1>2, <1>3, <1>4

LEMMA RestartDropsCalls ==
  ASSUME CallInv, TypeOK, RestartDroppingCalls
  PROVE  CallInv'
<1> USE DEF CallInv, RestartDroppingCalls
<1>1. CallTypeOK'  BY DEF CallTypeOK, InFlight
<1>2. ProgressInv' /\ AuditTellsWhatRan'
  BY DEF ProgressInv, AuditTellsWhatRan, CallTypeOK, InFlight
<1>3. OnlyPublishedRuns'
  BY DEF OnlyPublishedRuns, RestartGateway
<1> QED BY <1>1, <1>2, <1>3

LEMMA CallInvStep ==
  CallInv /\ TypeOK /\ OnlyPublishedServed /\ [CallNext]_vars => CallInv'
<1> SUFFICES ASSUME CallInv, TypeOK, OnlyPublishedServed, [CallNext]_vars
             PROVE  CallInv'
  OBVIOUS
<1>1. ASSUME NEW k \in Calls, Call(k)  PROVE CallInv'
  <2>1. CASE \E t \in Tools : Lookup(k, t)  BY <2>1, LookupStep
  <2>2. CASE Deny(k)  BY <2>2, DenyStep
  <2>3. CASE Authorise(k)  BY <2>3, AuthoriseStep
  <2>4. CASE RunHandler(k)  BY <2>4, RunHandlerStep
  <2>5. CASE HandlerReturns(k)  BY <2>5, HandlerReturnsStep
  <2> QED BY <1>1, <2>1, <2>2, <2>3, <2>4, <2>5 DEF Call
<1>2. CASE Operate /\ UNCHANGED callVars
  BY <1>2, ControlKeepsCalls DEF Next
<1>3. CASE RestartDroppingCalls  BY <1>3, RestartDropsCalls
<1>4. CASE CallsQuiescent \/ UNCHANGED vars
  BY <1>4, ControlKeepsCalls DEF CallsQuiescent, Quiescent, vars
<1> QED BY <1>1, <1>2, <1>3, <1>4 DEF CallNext

THEOREM CallInvariant == CallSpec => []CallInv
<1>1. CallSpec => [](TypeOK /\ OnlyPublishedServed)
  BY CallsKeepControl, TypeCorrect, OnlyPublishedIsServed, PTL
<1> QED BY <1>1, CallInvInit, CallInvStep, PTL DEF CallSpec

(* Every call is somewhere in Invoke, with an answer and an audit row it    *)
(* may have there.                                                         *)
THEOREM CallsHaveTypes == CallSpec => []CallTypeOK
<1>1. CallInv => CallTypeOK  BY DEF CallInv
<1> QED BY <1>1, CallInvariant, PTL

(* The audit row of an answered call says whether its handler ran. *)
THEOREM AuditIsTruthful == CallSpec => []AuditTellsWhatRan
<1>1. CallInv => AuditTellsWhatRan  BY DEF CallInv
<1> QED BY <1>1, CallInvariant, PTL

(* No call runs a version that nobody has published. *)
THEOREM PublishedVersionsRun == CallSpec => []OnlyPublishedRuns
<1>1. CallInv => OnlyPublishedRuns  BY DEF CallInv
<1> QED BY <1>1, CallInvariant, PTL
=============================================================================
