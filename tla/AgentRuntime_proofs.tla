------------------------ MODULE AgentRuntime_proofs -------------------------
(***************************************************************************)
(* Proofs about AgentRuntime, for any providers, peers, handlers and       *)
(* findings of the probes.                                                 *)
(*                                                                         *)
(* What the row says is not enough to carry the argument: a request in     *)
(* flight holds an older reading of the flags and will write it back.  The *)
(* inductive invariant says of every reading (Carried) what the properties *)
(* say of the row, that the target of an enabling has been asked for, that *)
(* the incapable providers of a probe have lapsed, and that a reading      *)
(* nobody has overtaken is the row's.                                      *)
(***************************************************************************)
EXTENDS AgentRuntime, TLAPS

USE ProvidersAssumption, HandlersAssumption
    DEF ProvidersAssumption, HandlersAssumption

\* a set of flags that some request asked for and that one provider rules
Sound(S) == /\ S \subseteq asked
            /\ \A p, q \in S \ lapsed : p = q

Carried(h) ==
    /\ Sound(request[h].seen)
    /\ request[h].pc = "write" =>
         /\ request[h].op = "enable" => request[h].target \in asked
         /\ Providers \ Capable(request[h].found) \subseteq lapsed
    /\ request[h].pc # "idle" /\ request[h].fresh =>
         request[h].seen = row.enabled

Unwritten == Local \notin registered => row.enabled = {}

IInv == /\ TypeOK
        /\ Sound(row.enabled)
        /\ \A h \in Handlers : Carried(h)
        /\ Unwritten
        /\ turn.agent \in Providers => turn.agent \in asked

-----------------------------------------------------------------------------
(* The provider a case consults is one of those enabled in the row.        *)
LEMMA ConsultedIsEnabled ==
    ASSUME TypeOK, Decisive # {}
    PROVE  EnabledDecisionProvider \in row.enabled
<1>1. Decisive \subseteq row.enabled /\ Decisive \subseteq Providers
  BY DEF Decisive, EnabledProviders, Capable
<1>2. FirstIn(Decisive) \in Decisive
  <2>1. PICK p \in Decisive : \A q \in Decisive : Position[p] <= Position[q]
    BY <1>1
  <2> QED BY <2>1 DEF FirstIn
<1> QED BY <1>1, <1>2 DEF EnabledDecisionProvider

(* What is read of the row is the row's flags, or none of them.            *)
LEMMA ReadingsAreSound ==
    ASSUME IInv
    PROVE  /\ Sound(EnabledProviders)
           /\ Visible \/ Local \notin registered =>
                EnabledProviders = row.enabled
BY DEF IInv, Sound, EnabledProviders, Visible, Unwritten

(* What a request writes is sound when what it carries is.                 *)
LEMMA FlagsAreSound ==
    ASSUME IInv, NEW h \in Handlers, request[h].pc = "write"
    PROVE  Sound(Flags(request[h])) /\ Flags(request[h]) \in SUBSET Providers
<1> DEFINE r == request[h]
<1>0. /\ r.seen \subseteq Providers
      /\ r.op \in {"discover", "enable", "disable"}
      /\ r.op # "discover" => r.target \in Providers
      /\ Sound(r.seen)
      /\ r.op = "enable" => r.target \in asked
      /\ Providers \ Capable(r.found) \subseteq lapsed
  BY DEF IInv, TypeOK, Carried
<1> HIDE DEF r
<1>1. CASE r.op = "discover"
  <2>1. Flags(r) = r.seen
    BY <1>1 DEF Flags
  <2> QED BY <2>1, <1>0 DEF r
<1>2. CASE r.op = "disable"
  <2>1. Flags(r) = r.seen \ {r.target}
    BY <1>2 DEF Flags
  <2> QED BY <2>1, <1>0 DEF r, Sound
<1>3. CASE r.op = "enable"
  <2>1. Flags(r) = {r.target} \cup (r.seen \ Capable(r.found))
    BY <1>3 DEF Flags
  <2>2. r.seen \ Capable(r.found) \subseteq lapsed
    BY <1>0
  <2>3. Sound(Flags(r)) /\ Flags(r) \in SUBSET Providers
    BY <1>0, <1>3, <2>1, <2>2 DEF Sound
  <2> QED BY <2>3 DEF r
<1> QED BY <1>0, <1>1, <1>2, <1>3

-----------------------------------------------------------------------------
Requests == [pc : {"idle", "probe", "write"},
             op : {"discover", "enable", "disable"},
             target : Providers \cup {None}, allow : BOOLEAN,
             seen : SUBSET Providers, found : Machines, fresh : BOOLEAN]

WellFormed(h, r) == /\ r \in Requests
                    /\ r.op # "discover" => r.target \in Providers
                    /\ h \in Threads => r.op = "discover"

LEMMA IdleIsWellFormed == \A h \in Handlers : WellFormed(h, Idle)
BY DEF WellFormed, Requests, Idle, Nothing, Machines

LEMMA TypedRequests == TypeOK => \A h \in Handlers : WellFormed(h, request[h])
BY DEF TypeOK, WellFormed, Requests

LEMMA TypeInit == Init => TypeOK
BY DEF Init, TypeOK, Idle, Nothing, NoTurn, Agents, Machines

LEMMA TypeNext ==
    ASSUME TypeOK, [Next]_vars
    PROVE  TypeOK'
<1> USE DEF TypeOK, Machines, Agents
<1>1. ASSUME NEW h \in Handlers, NEW operation \in Operations,
             ReadFlags(h, operation)
      PROVE  TypeOK'
  BY <1>1 DEF ReadFlags, Operations, EnabledProviders, Nothing
<1>2. ASSUME NEW h \in Handlers, NEW found \in Findings,
             ProbeMachine(h, found)
      PROVE  TypeOK'
  <2> DEFINE r == [request[h] EXCEPT !.pc = "write", !.found = found]
  <2>1. WellFormed(h, r)
    <3>1. found \in Machines /\ WellFormed(h, request[h])
      BY TypedRequests
    <3>2. /\ r.pc = "write" /\ r.found = found /\ r.op = request[h].op
          /\ r.target = request[h].target /\ r \in Requests
      BY <3>1 DEF WellFormed, Requests
    <3> QED BY <3>1, <3>2 DEF WellFormed
  <2> HIDE DEF r
  <2>2. \A g \in Handlers : WellFormed(g, request'[g])
    <3>1. request' = [request EXCEPT ![h] = r]
            \/ request' = [request EXCEPT ![h] = Idle]
      BY <1>2 DEF ProbeMachine, r
    <3>2. \A g \in Handlers : WellFormed(g, request[g])
      BY TypedRequests
    <3>3. request \in [Handlers -> Requests]
      BY DEF Requests
    <3> HIDE DEF TypeOK, Machines, Agents
    <3>4. ASSUME NEW g \in Handlers
          PROVE  request'[g] = request[g] \/ (g = h /\ request'[g] \in {r, Idle})
      BY <3>1, <3>3
    <3> QED BY <3>2, <3>4, <2>1, IdleIsWellFormed
  <2>3. request' \in [Handlers -> Requests]
    <3>1. request' = [g \in Handlers |-> request'[g]]
      BY <1>2 DEF ProbeMachine
    <3> QED BY <3>1, <2>2 DEF WellFormed
  <2>4. asked' \subseteq Providers /\ lapsed' \subseteq Providers
    <3>1. request[h].op = "enable" => request[h].target \in Providers
      OBVIOUS
    <3> QED BY <1>2, <3>1 DEF ProbeMachine
  <2> QED BY <1>2, <2>2, <2>3, <2>4 DEF ProbeMachine, WellFormed, Requests
<1>3. ASSUME NEW h \in Handlers, WriteRow(h)
      PROVE  TypeOK'
  <2>1. Flags(request[h]) \in SUBSET Providers
    BY DEF Flags
  <2>2. \A g \in Handlers : WellFormed(g, request'[g])
    <3>1. \A g \in Handlers : WellFormed(g, request[g])
      BY TypedRequests
    <3>2. ASSUME NEW g \in Handlers, g # h
          PROVE  WellFormed(g, request'[g])
      <4>1. request'[g] = [request[g] EXCEPT !.fresh = request[g].pc = "idle"]
        BY <1>3, <3>2 DEF WriteRow
      <4>2. WellFormed(g, request[g])
        BY <3>1
      <4> HIDE DEF TypeOK
      <4> QED BY <4>1, <4>2 DEF WellFormed, Requests
    <3> QED BY <1>3, <3>2, IdleIsWellFormed DEF WriteRow
  <2>3. request' \in [Handlers -> Requests]
    <3>1. request' = [g \in Handlers |-> request'[g]]
      BY <1>3 DEF WriteRow
    <3>2. \A g \in Handlers : request'[g] \in Requests
      BY <2>2 DEF WellFormed
    <3> HIDE DEF TypeOK
    <3> QED BY <3>1, <3>2
  <2>4. /\ row' \in [found : Machines, enabled : SUBSET Providers]
        /\ registered' \subseteq Peers \cup {Local} /\ newer' \subseteq Peers
        /\ UNCHANGED <<turn, asked, lapsed>>
    BY <1>3, <2>1 DEF WriteRow
  <2>5. /\ turn \in [pc : {"idle", "plan", "decided"}, agent : Agents]
        /\ asked \subseteq Providers /\ lapsed \subseteq Providers
    OBVIOUS
  <2>6. \A g \in Handlers :
          /\ request'[g].op # "discover" => request'[g].target \in Providers
          /\ g \in Threads => request'[g].op = "discover"
    BY <2>2 DEF WellFormed
  <2> QED BY <2>3, <2>4, <2>5, <2>6 DEF Requests
<1>4. ASSUME NEW p \in Peers, RegisterPeer(p)
      PROVE  TypeOK'
  BY <1>4 DEF RegisterPeer
<1>5. ASSUME NEW r \in Peers \cup {Local}, Heartbeat(r)
      PROVE  TypeOK'
  BY <1>5 DEF Heartbeat
<1>6. CASE DecisionGate
  BY <1>6 DEF DecisionGate
<1>7. ASSUME NEW answers \in BOOLEAN, ConsultAgent(answers)
      PROVE  TypeOK'
  <2>1. turn'.agent \in Agents
    BY <1>7, ConsultedIsEnabled DEF ConsultAgent
  <2> QED BY <1>7, <2>1 DEF ConsultAgent
<1>8. CASE EndTurn
  BY <1>8 DEF EndTurn, NoTurn
<1>9. CASE UNCHANGED vars
  BY <1>9 DEF vars
<1> QED BY <1>1, <1>2, <1>3, <1>4, <1>5, <1>6, <1>7, <1>8, <1>9 DEF Next

(* The type invariant of the row, the requests and the turn.               *)
THEOREM TypesAreKept == Spec => []TypeOK
<1>1. TypeOK /\ [Next]_vars => TypeOK'
  BY TypeNext
<1> QED BY <1>1, TypeInit, PTL DEF Spec

-----------------------------------------------------------------------------
LEMMA SafeInit == Init => IInv
<1> SUFFICES ASSUME Init PROVE IInv
  OBVIOUS
<1>1. Sound(row.enabled) /\ Unwritten
  BY DEF Init, Sound, Unwritten
<1>2. \A h \in Handlers : Carried(h)
  BY DEF Init, Idle, Carried, Sound
<1>3. turn.agent \in Providers => turn.agent \in asked
  BY DEF Init, NoTurn
<1> QED BY <1>1, <1>2, <1>3, TypeInit DEF IInv

(* A set that was sound stays so as more is asked for and more has lapsed. *)
LEMMA SoundGrows ==
    ASSUME NEW S, Sound(S), asked \subseteq asked', lapsed \subseteq lapsed'
    PROVE  S \subseteq asked' /\ \A p, q \in S \ lapsed' : p = q
BY DEF Sound

LEMMA ReadFlagsSafe ==
    ASSUME IInv, NEW h \in Handlers, NEW operation \in Operations,
           ReadFlags(h, operation), TypeOK'
    PROVE  IInv'
<1>1. Sound(row.enabled)' /\ Unwritten'
  BY DEF ReadFlags, IInv, Sound, Unwritten
<1>2. \A g \in Handlers : Carried(g)'
  <2>1. ASSUME NEW g \in Handlers, g # h
        PROVE  Carried(g)'
    <3>1. request'[g] = request[g]
      BY <2>1 DEF ReadFlags
    <3>2. Carried(g)
      BY DEF IInv
    <3> QED BY <3>1, <3>2 DEF Carried, Sound, ReadFlags
  <2>2. Carried(h)'
    <3>1. /\ request'[h].seen = EnabledProviders
          /\ request'[h].pc = "probe"
          /\ request'[h].fresh = (Visible \/ Local \notin registered)
      BY DEF ReadFlags, IInv, TypeOK
    <3> QED BY <3>1, ReadingsAreSound DEF Carried, Sound, ReadFlags
  <2> QED BY <2>1, <2>2
<1>3. (turn.agent \in Providers => turn.agent \in asked)'
  BY DEF IInv, ReadFlags
<1> QED BY <1>1, <1>2, <1>3 DEF IInv

LEMMA ProbeMachineSafe ==
    ASSUME IInv, NEW h \in Handlers, NEW found \in Findings,
           ProbeMachine(h, found), TypeOK'
    PROVE  IInv'
<1>0. /\ asked \subseteq asked' /\ lapsed \subseteq lapsed'
      /\ UNCHANGED <<row, registered, newer, turn>>
  BY DEF ProbeMachine
<1>1. Sound(row.enabled)' /\ Unwritten'
  BY <1>0, SoundGrows DEF IInv, Sound, Unwritten
<1>2. ASSUME NEW g \in Handlers
      PROVE  Carried(g)'
  <2>0. Carried(g)
    BY DEF IInv
  <2>1. CASE request'[g] = request[g]
    BY <1>0, <2>0, <2>1 DEF Carried, Sound
  <2>2. CASE request'[g] = Idle
    BY <1>0, <2>2 DEF Carried, Sound, Idle
  <2>3. CASE /\ g = h
             /\ request'[g] = [request[g] EXCEPT !.pc = "write",
                                                !.found = found]
             /\ request[h].op = "enable" => request[h].target \in asked'
    <3>1. /\ request'[g].seen = request[g].seen
          /\ request'[g].op = request[g].op
          /\ request'[g].target = request[g].target
          /\ request'[g].found = found
          /\ request'[g].fresh = request[g].fresh
      BY <2>3 DEF IInv, TypeOK
    <3>2. request[g].pc # "idle" /\ Providers \ Capable(found) \subseteq lapsed'
      BY <2>3 DEF ProbeMachine
    <3>3. Sound(request[g].seen)'
      <4>1. Sound(request[g].seen)
        BY <2>0 DEF Carried
      <4>2. /\ request'[g].seen \subseteq asked'
            /\ \A p, q \in request'[g].seen \ lapsed' : p = q
        BY <4>1, <3>1, <1>0 DEF Sound
      <4> QED BY <4>2 DEF Sound
    <3>4. Providers \ Capable(request'[g].found) \subseteq lapsed'
      BY <3>1, <3>2
    <3>5. request'[g].op = "enable" => request'[g].target \in asked'
      BY <2>3, <3>1
    <3>6. request[g].fresh => request[g].seen = row.enabled
      BY <2>0, <3>2 DEF Carried
    <3>7. request'[g].fresh => request'[g].seen = row'.enabled
      BY <3>1, <3>6, <1>0
    <3> QED BY <3>3, <3>4, <3>5, <3>7 DEF Carried, Capable
  <2> QED
    <3>1. \/ request'[g] = request[g]
          \/ request'[g] = Idle
          \/ /\ g = h
             /\ request'[g] = [request[g] EXCEPT !.pc = "write",
                                                !.found = found]
             /\ request[h].op = "enable" => request[h].target \in asked'
      <4>1. g \in DOMAIN request
        BY DEF IInv, TypeOK
      <4>2. CASE g # h
        BY <4>1, <4>2 DEF ProbeMachine
      <4>3. CASE g = h /\ request[h].op = "enable"
                 /\ ~MayEnable(found, request[h].target, request[h].allow)
        BY <4>1, <4>3 DEF ProbeMachine
      <4>4. CASE g = h /\ ~(request[h].op = "enable"
                 /\ ~MayEnable(found, request[h].target, request[h].allow))
        BY <4>1, <4>4 DEF ProbeMachine
      <4> QED BY <4>2, <4>3, <4>4
    <3> QED BY <3>1, <2>1, <2>2, <2>3
<1>3. (turn.agent \in Providers => turn.agent \in asked)'
  BY <1>0 DEF IInv
<1> QED BY <1>1, <1>2, <1>3 DEF IInv

LEMMA WriteRowSafe ==
    ASSUME IInv, NEW h \in Handlers, WriteRow(h), TypeOK'
    PROVE  IInv'
<1>1. Sound(row.enabled)' /\ Unwritten'
  <2>1. row'.enabled = Flags(request[h]) /\ Local \in registered'
    BY DEF WriteRow
  <2>2. Sound(Flags(request[h]))
    BY FlagsAreSound DEF WriteRow
  <2> QED BY <2>1, <2>2 DEF Sound, Unwritten, WriteRow
<1>2. ASSUME NEW g \in Handlers
      PROVE  Carried(g)'
  <2>1. CASE g = h
    <3>1. request'[g] = Idle
      BY <2>1 DEF WriteRow
    <3> QED BY <3>1 DEF Carried, Idle, Sound
  <2>2. CASE g # h
    <3>1. request'[g] = [request[g] EXCEPT !.fresh = request[g].pc = "idle"]
      BY <2>2 DEF WriteRow
    <3>2. /\ request'[g].seen = request[g].seen
          /\ request'[g].pc = request[g].pc
          /\ request'[g].op = request[g].op
          /\ request'[g].target = request[g].target
          /\ request'[g].found = request[g].found
          /\ request'[g].fresh => request[g].pc = "idle"
      BY <3>1 DEF IInv, TypeOK
    <3> QED BY <3>2 DEF Carried, Sound, IInv, WriteRow, Capable
  <2> QED BY <2>1, <2>2
<1>3. (turn.agent \in Providers => turn.agent \in asked)'
  BY DEF IInv, WriteRow
<1> QED BY <1>1, <1>2, <1>3 DEF IInv

LEMMA SafeNext ==
    ASSUME IInv, [Next]_vars
    PROVE  IInv'
<1>0. TypeOK'
  BY TypeNext DEF IInv
<1>1. ASSUME NEW h \in Handlers, NEW operation \in Operations,
             ReadFlags(h, operation)
      PROVE  IInv'
  BY <1>0, <1>1, ReadFlagsSafe
<1>2. ASSUME NEW h \in Handlers, NEW found \in Findings,
             ProbeMachine(h, found)
      PROVE  IInv'
  BY <1>0, <1>2, ProbeMachineSafe
<1>3. ASSUME NEW h \in Handlers, WriteRow(h)
      PROVE  IInv'
  BY <1>0, <1>3, WriteRowSafe
<1>4. ASSUME UNCHANGED <<row, request, turn, asked, lapsed>>,
             registered \subseteq registered'
      PROVE  IInv'
  BY <1>0, <1>4 DEF IInv, Carried, Sound, Unwritten
<1>5. ASSUME UNCHANGED <<row, registered, request, asked, lapsed>>,
             turn'.agent \in Providers => turn'.agent \in asked
      PROVE  IInv'
  BY <1>0, <1>5 DEF IInv, Carried, Sound, Unwritten
<1>6. ASSUME NEW answers \in BOOLEAN, ConsultAgent(answers)
      PROVE  IInv'
  <2>1. turn'.agent \in Providers => turn'.agent \in row.enabled
    BY <1>6, ConsultedIsEnabled DEF ConsultAgent, IInv
  <2> QED BY <1>5, <1>6, <2>1 DEF ConsultAgent, IInv, Sound
<1>7. ASSUME NEW p \in Peers, RegisterPeer(p)
      PROVE  IInv'
  BY <1>4, <1>7 DEF RegisterPeer
<1>8. ASSUME NEW r \in Peers \cup {Local}, Heartbeat(r)
      PROVE  IInv'
  BY <1>4, <1>8 DEF Heartbeat
<1>9. CASE DecisionGate
  BY <1>5, <1>9 DEF DecisionGate
<1>10. CASE EndTurn
  BY <1>5, <1>10 DEF EndTurn, NoTurn
<1>11. CASE UNCHANGED vars
  BY <1>4, <1>11 DEF vars
<1> QED
  BY <1>1, <1>2, <1>3, <1>6, <1>7, <1>8, <1>9, <1>10, <1>11 DEF Next

LEMMA SafeAlways == Spec => []IInv
<1>1. IInv /\ [Next]_vars => IInv'
  BY SafeNext
<1> QED BY <1>1, SafeInit, PTL DEF Spec

(* Two enabled providers decide together only if one failed a probe.       *)
THEOREM OneAgentUnlessALapse == Spec => []TwoAgentsNeedALapse
<1>1. IInv => TwoAgentsNeedALapse
  BY DEF IInv, Sound, TwoAgentsNeedALapse
<1> QED BY <1>1, SafeAlways, PTL

(* No provider is enabled, or advises a case, that nobody asked for.       *)
THEOREM EnabledWasAlwaysAsked == Spec => []EnabledWasAsked
<1>1. IInv => EnabledWasAsked
  BY DEF IInv, Sound, EnabledWasAsked
<1> QED BY <1>1, SafeAlways, PTL

(* A flag changes only by a request about it, by an exclusive enabling or  *)
(* by a writer that was overtaken or could not see the row.                *)
THEOREM FlagsOnlyChangeOnRequest == Spec => FlagsChangeOnRequest
<1> DEFINE ByRequest(p, h) ==
             /\ request[h].pc = "write" /\ request'[h].pc = "idle"
             /\ \/ ~request[h].fresh
                \/ request[h].target = p
                \/ /\ request[h].op = "enable"
                   /\ request[h].found[p] = "capable"
           Kept == \A p \in Providers :
                      (p \in row.enabled) # (p \in row'.enabled) =>
                         \E h \in Handlers : ByRequest(p, h)
<1>1. ASSUME IInv, NEW h \in Handlers, WriteRow(h), NEW p \in Providers,
             (p \in row.enabled) # (p \in row'.enabled)
      PROVE  ByRequest(p, h)
  <2> DEFINE r == request[h]
  <2>1. r.pc = "write" /\ request'[h].pc = "idle" /\ row'.enabled = Flags(r)
    BY <1>1 DEF WriteRow, Idle
  <2>2. r.fresh => r.seen = row.enabled
    BY <1>1, <2>1 DEF IInv, Carried
  <2>3. r.op \in {"discover", "enable", "disable"}
    BY <1>1 DEF IInv, TypeOK
  <2>4. r.fresh => r.op # "discover"
    BY <1>1, <2>1, <2>2 DEF Flags
  <2>5. r.fresh /\ r.op = "disable" => r.target = p
    BY <1>1, <2>1, <2>2 DEF Flags
  <2>6. r.fresh /\ r.op = "enable" => r.target = p \/ r.found[p] = "capable"
    BY <1>1, <2>1, <2>2 DEF Flags, Capable
  <2> QED BY <2>1, <2>3, <2>4, <2>5, <2>6
<1>2. IInv /\ [Next]_vars => [Kept]_vars
  <2> SUFFICES ASSUME IInv, Next PROVE Kept
    BY DEF vars
  <2>1. UNCHANGED row \/ \E h \in Handlers : WriteRow(h)
    BY DEF Next, ReadFlags, ProbeMachine, RegisterPeer, Heartbeat,
           DecisionGate, ConsultAgent, EndTurn
  <2> QED BY <2>1, <1>1
<1> QED BY <1>2, SafeAlways, PTL DEF Spec, FlagsChangeOnRequest
=============================================================================
