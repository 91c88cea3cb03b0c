------------------------ MODULE CaseProcessing_proofs ------------------------
(***************************************************************************)
(* Proofs about CaseProcessing, for every set of requests and cases and    *)
(* every budget: its type invariant; that a deleted case is frozen; that a *)
(* live unsettled case always has a request that owns it, as long as no    *)
(* client uses the synchronous mode; that a completed run has left nothing *)
(* open; that the tool budgets are kept; that a confirmation has a reply.  *)
(***************************************************************************)
EXTENDS CaseProcessing, TLAPS

-----------------------------------------------------------------------------
(* The budget of a plan is a positive number. *)
LEMMA ToolBudgetType == ToolBudget \in Nat \ {0}
  BY ConstantsAssumption DEF ToolBudget, ConstantsAssumption

(* The status that a user message leaves behind is a status. *)
LEMMA StatusAfterUserMessageType ==
  ASSUME NEW s \in Statuses \cup {"absent"}
  PROVE  StatusAfterUserMessage(s) \in Statuses
  BY DEF StatusAfterUserMessage, Statuses, ClaimableStatuses, ActiveStatuses,
         TerminalStatuses

(* A planned action is dispatched to a place of process_case. *)
LEMMA DispatchType ==
  ASSUME NEW a \in PlannedActions
  PROVE  Dispatch(a) \in {"ask_status", "inv_status", "human_reply"}
  BY DEF Dispatch, PlannedActions

-----------------------------------------------------------------------------
(* Type correctness: the record of each request and the rows of the case   *)
(* table stay within their columns' values whatever requests interleave.   *)
LEMMA TypeOKInit == Init => TypeOK
  BY DEF Init, TypeOK, BusyPcs, SubmitPcs, Acts, ConstantsAssumption

USE DEF Goto, At

LEMMA TypeOKSubmit ==
  ASSUME TypeOK, NEW r \in Requests, Submit(r)
  PROVE  TypeOK'
<1>1. CASE \E c \in Cases, mode \in {"sync", "async"} : SubmitChatNew(r, c, mode)
  BY <1>1 DEF SubmitChatNew, TypeOK, planVars, records, BusyPcs, SubmitPcs,
              Statuses, ClaimableStatuses
<1>2. CASE \E c \in Cases, mode \in {"sync", "async"} : SubmitChatFollowUp(r, c, mode)
  BY <1>2 DEF SubmitChatFollowUp, TypeOK, rows, planVars, records, BusyPcs, SubmitPcs
<1>3. CASE \E c \in Cases : SubmitChannel(r, c)
  BY <1>3 DEF SubmitChannel, TypeOK, rows, planVars, records, BusyPcs, SubmitPcs, EndPcs
<1> QED BY <1>1, <1>2, <1>3 DEF Submit

USE DEF rows, locals, planVars, records, WriteStatus

LEMMA TypeOKIntake ==
  ASSUME TypeOK, NEW r \in Requests,
         \/ CreateChannelCase(r) \/ AddUserMessage(r) \/ AppendUserMessage(r)
         \/ AppendUpdate(r) \/ TransitionReady(r) \/ RefuseRequest(r)
  PROVE  TypeOK'
<1> USE DEF TypeOK, BusyPcs, SubmitPcs
<1>1. CASE CreateChannelCase(r)
  BY <1>1 DEF CreateChannelCase, Statuses, ClaimableStatuses
<1>2. CASE AddUserMessage(r)  BY <1>2 DEF AddUserMessage
<1>3. CASE AppendUserMessage(r)  BY <1>3 DEF AppendUserMessage
<1>4. CASE AppendUpdate(r)
  BY <1>4, StatusAfterUserMessageType DEF AppendUpdate
<1>5. CASE TransitionReady(r)
  BY <1>5 DEF TransitionReady, Statuses, ClaimableStatuses
<1>6. CASE RefuseRequest(r)  BY <1>6 DEF RefuseRequest, EndPcs
<1> QED BY <1>1, <1>2, <1>3, <1>4, <1>5, <1>6

LEMMA TypeOKPlan ==
  ASSUME TypeOK, NEW r \in Requests,
         \/ ClaimCase(r) \/ StartRun(r) \/ WriteClaim(r) \/ Triage(r)
         \/ Classify(r) \/ DecisionGate(r) \/ Plan(r)
  PROVE  TypeOK'
<1> USE DEF TypeOK, BusyPcs, SubmitPcs, WorkPcs, EndPcs, Acts
<1>1. CASE ClaimCase(r)
  BY <1>1 DEF ClaimCase
<1>2. CASE StartRun(r)
  BY <1>2 DEF StartRun
<1>3. CASE WriteClaim(r)
  BY <1>3 DEF WriteClaim, ClaimedStatus, Statuses, ClaimableStatuses, ActiveStatuses, TerminalStatuses
<1>4. CASE Triage(r)
  BY <1>4 DEF Triage
<1>5. CASE Classify(r)
  BY <1>5 DEF Classify
<1>6. CASE DecisionGate(r)
  <2>1. \/ act' = act
        \/ \E a \in {"ask_user", "blocked"} : act' = [act EXCEPT ![r] = a]
    BY <1>6 DEF DecisionGate
  <2>2. pc' \in [Requests -> BusyPcs \cup EndPcs \cup {"idle"}]
    BY <1>6 DEF DecisionGate
  <2>3. act' \in [Requests -> Acts]
    BY <2>1 DEF PlannedActions
  <2> QED BY <1>6, <2>2, <2>3 DEF DecisionGate
<1>7. CASE Plan(r)
  <2>1. PICK a \in PlannedActions, n \in 1 .. ToolBudget :
            /\ act' = [act EXCEPT ![r] = a]
            /\ left' = [left EXCEPT ![r] =
                           IF a # "invoke_tools" THEN 0
                           ELSE IF n < MaxToolCalls THEN n ELSE MaxToolCalls]
            /\ pc' = [pc EXCEPT ![r] = Dispatch(a)]
    BY <1>7 DEF Plan
  <2>2. left' \in [Requests -> Nat]
    BY <2>1, ToolBudgetType, ConstantsAssumption DEF ConstantsAssumption
  <2>3. act' \in [Requests -> Acts] /\ Dispatch(a) \in WorkPcs
    BY <2>1, DispatchType
  <2>4. pc' \in [Requests -> BusyPcs \cup EndPcs \cup {"idle"}]
    BY <2>1, <2>3
  <2> QED BY <1>7, <2>2, <2>3, <2>4 DEF Plan
<1> QED BY <1>1, <1>2, <1>3, <1>4, <1>5, <1>6, <1>7

LEMMA TypeOKAnswer ==
  ASSUME TypeOK, NEW r \in Requests,
         \/ AskUserStatus(r) \/ WaitReply(r) \/ WaitStatus(r) \/ DirectStart(r)
         \/ DirectAnswer(r) \/ DirectCaught(r) \/ ChatFinish(r) \/ ChatEvent(r)
         \/ HumanReply(r)
         \/ HumanStatus(r)
  PROVE  TypeOK'
<1> USE DEF TypeOK, BusyPcs, WorkPcs, ClosePcs, Acts
<1>1. CASE AskUserStatus(r)
  BY <1>1 DEF AskUserStatus, Statuses, ClaimableStatuses, ActiveStatuses, TerminalStatuses
<1>2. CASE WaitReply(r)
  BY <1>2 DEF WaitReply
<1>3. CASE WaitStatus(r)
  BY <1>3 DEF WaitStatus, Statuses, ClaimableStatuses, ActiveStatuses, TerminalStatuses
<1>4. CASE DirectStart(r)
  BY <1>4 DEF DirectStart
<1>5. CASE DirectAnswer(r)
  <2>0. UNCHANGED <<rows, inbox, locals, left, calls, failures, records>>
    BY <1>5 DEF DirectAnswer
  <2>1. CASE /\ replied' = [replied EXCEPT ![r] = TRUE]
             /\ Goto(r, "wait_status")
             /\ UNCHANGED act
    BY <2>0, <2>1
  <2>2. CASE /\ act' = [act EXCEPT ![r] = "direct_failed"]
             /\ Goto(r, "wait_reply")
             /\ UNCHANGED replied
    BY <2>0, <2>2
  <2> QED BY <1>5, <2>1, <2>2 DEF DirectAnswer
<1>6. CASE DirectCaught(r)
  BY <1>6 DEF DirectCaught, DirectTryPcs
<1>7. CASE ChatFinish(r)
  BY <1>7 DEF ChatFinish
<1>7a. CASE ChatEvent(r)
  BY <1>7a DEF ChatEvent
<1>8. CASE HumanReply(r)
  BY <1>8 DEF HumanReply
<1>9. CASE HumanStatus(r)
  BY <1>9 DEF HumanStatus, Statuses, ClaimableStatuses, ActiveStatuses, TerminalStatuses
<1> QED BY <1>1, <1>2, <1>3, <1>4, <1>5, <1>6, <1>7, <1>7a, <1>8, <1>9

LEMMA TypeOKInvestigation ==
  ASSUME TypeOK, NEW r \in Requests,
         \/ InvestigationStatus(r) \/ OpenInvestigation(r) \/ ToolStatus(r) \/ InvokeTool(r)
         \/ Summarize(r) \/ CloseInvestigation(r)
  PROVE  TypeOK'
<1> USE DEF TypeOK, BusyPcs, WorkPcs
<1>1. CASE InvestigationStatus(r)
  BY <1>1 DEF InvestigationStatus, Statuses, ClaimableStatuses, ActiveStatuses, TerminalStatuses
<1>2. CASE OpenInvestigation(r)
  BY <1>2 DEF OpenInvestigation
<1>3. CASE ToolStatus(r)
  BY <1>3 DEF ToolStatus, Statuses, ClaimableStatuses, ActiveStatuses, TerminalStatuses
<1>4. CASE InvokeTool(r)
  BY <1>4 DEF InvokeTool
<1>5. CASE Summarize(r)
  BY <1>5 DEF Summarize
<1>6. CASE CloseInvestigation(r)
  BY <1>6 DEF CloseInvestigation
<1> QED BY <1>1, <1>2, <1>3, <1>4, <1>5, <1>6

LEMMA TypeOKClose ==
  ASSUME TypeOK, NEW r \in Requests,
         \/ FinishRun(r) \/ FinishEvent(r) \/ Raise(r) \/ ExceptRun(r)
         \/ ExceptMessage(r) \/ ExceptStatus(r) \/ ExceptFails(r) \/ Finally(r)
         \/ Crash(r)
  PROVE  TypeOK'
<1> USE DEF TypeOK, BusyPcs, WorkPcs, ClosePcs, ExceptPcs, FinallyPcs, EndPcs
<1>1. CASE FinishRun(r)
  BY <1>1 DEF FinishRun
<1>2. CASE FinishEvent(r)
  BY <1>2 DEF FinishEvent
<1>3. CASE Raise(r)
  BY <1>3 DEF Raise, DirectTryPcs
<1>4. CASE ExceptRun(r)
  BY <1>4 DEF ExceptRun
<1>5. CASE ExceptMessage(r)
  BY <1>5 DEF ExceptMessage
<1>6. CASE ExceptStatus(r)
  BY <1>6 DEF ExceptStatus, Statuses, ClaimableStatuses, ActiveStatuses, TerminalStatuses
<1>7. CASE ExceptFails(r)
  BY <1>7 DEF ExceptFails
<1>8. CASE Finally(r)
  BY <1>8 DEF Finally, Statuses, ClaimableStatuses, ActiveStatuses, TerminalStatuses
<1>9. CASE Crash(r)
  BY <1>9 DEF Crash
<1> QED BY <1>1, <1>2, <1>3, <1>4, <1>5, <1>6, <1>7, <1>8, <1>9

LEMMA TypeOKDelete ==
  ASSUME TypeOK, NEW c \in Cases, DeleteCase(c)
  PROVE  TypeOK'
  BY DEF TypeOK, DeleteCase

LEMMA TypeOKNext == TypeOK /\ [Next]_vars => TypeOK'
<1> SUFFICES ASSUME TypeOK, [Next]_vars  PROVE TypeOK'
  OBVIOUS
<1>1. ASSUME NEW r \in Requests, Submit(r)  PROVE TypeOK'
  BY <1>1, TypeOKSubmit
<1>2. ASSUME NEW r \in Requests, Step(r)  PROVE TypeOK'
  BY <1>2, TypeOKIntake, TypeOKPlan, TypeOKAnswer, TypeOKInvestigation,
     TypeOKClose DEF Step
<1>3. ASSUME NEW r \in Requests, Crash(r)  PROVE TypeOK'
  BY <1>3, TypeOKClose
<1>4. ASSUME NEW c \in Cases, DeleteCase(c)  PROVE TypeOK'
  BY <1>4, TypeOKDelete
<1>5. CASE UNCHANGED vars
  BY <1>5 DEF TypeOK, vars
<1> QED BY <1>1, <1>2, <1>3, <1>4, <1>5 DEF Next, Quiescent

(* Every column and every local variable keeps to its values: in            *)
(* particular case_status is always one of the statuses of the scheduler,   *)
(* although it is written from eleven places and, for a follow-up, from a   *)
(* copy read earlier.                                                       *)
THEOREM TypeCorrect == Spec => []TypeOK
<1>1. Init => TypeOK
  BY TypeOKInit
<1>2. TypeOK /\ [Next]_vars => TypeOK'
  BY TypeOKNext
<1> QED BY <1>1, <1>2, PTL DEF Spec

-----------------------------------------------------------------------------
(* What every step of a running request has in common. *)

\* The row of the case survives every step: only DeleteCase deletes, and only
\* a submission chooses its case.
TargetInv ==
    /\ \A r \in Requests : pc[r] # "idle" => target[r] \in Cases
    /\ \A c \in Cases : deleted[c] => status[c] # "absent"

LEMMA StepFrame ==
  ASSUME TypeOK, TargetInv, NEW r \in Requests, Step(r)
  PROVE  /\ pc[r] \in BusyPcs
         /\ target' = target
         /\ deleted' = deleted
         /\ \A q \in Requests \ {r} : pc'[q] = pc[q]
         /\ \A c \in Cases : status'[c] # status[c] =>
                c = target[r] /\ ~deleted[c] /\ status'[c] # "absent"
<1> USE DEF TypeOK, TargetInv, Live, Step
<1>1. pc[r] \in BusyPcs
  BY DEF DirectTryPcs, BusyPcs, SubmitPcs, WorkPcs, ClosePcs, ExceptPcs, FinallyPcs,
     CreateChannelCase, AddUserMessage, AppendUserMessage,
     AppendUpdate, TransitionReady, ClaimCase, StartRun, WriteClaim, Triage,
     Classify, DecisionGate, Plan, AskUserStatus, WaitReply, WaitStatus,
     DirectStart, DirectAnswer, DirectCaught, ChatFinish, ChatEvent, HumanReply,
     HumanStatus, InvestigationStatus, OpenInvestigation, ToolStatus,
     InvokeTool, Summarize, CloseInvestigation, FinishRun, FinishEvent, Raise,
     ExceptRun, ExceptMessage, ExceptStatus, ExceptFails, Finally,
     RefuseRequest
<1>2. target' = target /\ deleted' = deleted
  BY DEF CreateChannelCase, AddUserMessage, AppendUserMessage,
     AppendUpdate, TransitionReady, ClaimCase, StartRun, WriteClaim, Triage,
     Classify, DecisionGate, Plan, AskUserStatus, WaitReply, WaitStatus,
     DirectStart, DirectAnswer, DirectCaught, ChatFinish, ChatEvent, HumanReply,
     HumanStatus, InvestigationStatus, OpenInvestigation, ToolStatus,
     InvokeTool, Summarize, CloseInvestigation, FinishRun, FinishEvent, Raise,
     ExceptRun, ExceptMessage, ExceptStatus, ExceptFails, Finally,
     RefuseRequest
<1>3. \A q \in Requests \ {r} : pc'[q] = pc[q]
  BY DEF CreateChannelCase, AddUserMessage, AppendUserMessage,
     AppendUpdate, TransitionReady, ClaimCase, StartRun, WriteClaim, Triage,
     Classify, DecisionGate, Plan, AskUserStatus, WaitReply, WaitStatus,
     DirectStart, DirectAnswer, DirectCaught, ChatFinish, ChatEvent, HumanReply,
     HumanStatus, InvestigationStatus, OpenInvestigation, ToolStatus,
     InvokeTool, Summarize, CloseInvestigation, FinishRun, FinishEvent, Raise,
     ExceptRun, ExceptMessage, ExceptStatus, ExceptFails, Finally,
     RefuseRequest
<1>4. ASSUME NEW c \in Cases, status'[c] # status[c]
      PROVE  c = target[r] /\ ~deleted[c] /\ status'[c] # "absent"
  BY <1>1, <1>4, StatusAfterUserMessageType DEF CreateChannelCase, AddUserMessage, AppendUserMessage,
     AppendUpdate, TransitionReady, ClaimCase, StartRun, WriteClaim, Triage,
     Classify, DecisionGate, Plan, AskUserStatus, WaitReply, WaitStatus,
     DirectStart, DirectAnswer, DirectCaught, ChatFinish, ChatEvent, HumanReply,
     HumanStatus, InvestigationStatus, OpenInvestigation, ToolStatus,
     InvokeTool, Summarize, CloseInvestigation, FinishRun, FinishEvent, Raise,
     ExceptRun, ExceptMessage, ExceptStatus, ExceptFails, Finally,
     RefuseRequest,
     BusyPcs, SubmitPcs, ClaimedStatus, Statuses, ClaimableStatuses,
     ActiveStatuses, TerminalStatuses
<1> QED BY <1>1, <1>2, <1>3, <1>4

LEMMA TargetInvNext == TypeOK /\ TargetInv /\ [Next]_vars => TargetInv'
<1> SUFFICES ASSUME TypeOK, TargetInv, [Next]_vars  PROVE TargetInv'
  OBVIOUS
<1> USE DEF TypeOK, TargetInv, Live
<1>1. ASSUME NEW r \in Requests, Submit(r)  PROVE TargetInv'
  BY <1>1 DEF Submit, SubmitChatNew, SubmitChatFollowUp, SubmitChannel
<1>2. ASSUME NEW r \in Requests, Step(r)  PROVE TargetInv'
  <2>1. pc[r] # "idle"
    BY <1>2, StepFrame DEF BusyPcs, SubmitPcs, WorkPcs, ClosePcs, ExceptPcs, FinallyPcs
  <2> QED BY <1>2, <2>1, StepFrame
<1>3. ASSUME NEW r \in Requests, Crash(r)  PROVE TargetInv'
  BY <1>3 DEF Crash, BusyPcs, SubmitPcs, WorkPcs, ClosePcs, ExceptPcs, FinallyPcs
<1>4. ASSUME NEW c \in Cases, DeleteCase(c)  PROVE TargetInv'
  BY <1>4 DEF DeleteCase
<1>5. CASE UNCHANGED vars
  BY <1>5 DEF vars
<1> QED BY <1>1, <1>2, <1>3, <1>4, <1>5 DEF Next, Quiescent

-----------------------------------------------------------------------------
(* Once deleted, a row never changes again: a request that still works on   *)
(* the case has each of its writes refused by WHERE ... AND status = 1.     *)
THEOREM DeletedCasesStayFrozen == Spec => DeletedCaseIsFrozen
<1>1. Init => TypeOK /\ TargetInv
  BY TypeOKInit DEF Init, TargetInv
<1>2. TypeOK /\ TargetInv /\ [Next]_vars => (TypeOK /\ TargetInv)'
  BY TypeOKNext, TargetInvNext
<1>3. TypeOK /\ TargetInv /\ [Next]_vars =>
        [\A c \in Cases : deleted[c] => deleted'[c] /\ status'[c] = status[c]]_vars
  <2> SUFFICES ASSUME TypeOK, TargetInv, [Next]_vars,
                      NEW c \in Cases, deleted[c]
               PROVE  deleted'[c] /\ status'[c] = status[c]
    OBVIOUS
  <2>1. ASSUME NEW r \in Requests, Submit(r)
        PROVE  deleted'[c] /\ status'[c] = status[c]
    BY <2>1 DEF Submit, SubmitChatNew, SubmitChatFollowUp, SubmitChannel,
       TypeOK, TargetInv
  <2>2. ASSUME NEW r \in Requests, Step(r)
        PROVE  deleted'[c] /\ status'[c] = status[c]
    BY <2>2, StepFrame
  <2>3. ASSUME NEW r \in Requests, Crash(r)
        PROVE  deleted'[c] /\ status'[c] = status[c]
    BY <2>3 DEF Crash
  <2>4. ASSUME NEW d \in Cases, DeleteCase(d)
        PROVE  deleted'[c] /\ status'[c] = status[c]
    BY <2>4 DEF DeleteCase, TypeOK
  <2>5. CASE UNCHANGED vars
    BY <2>5 DEF vars
  <2> QED BY <2>1, <2>2, <2>3, <2>4, <2>5 DEF Next, Quiescent
<1> QED BY <1>1, <1>2, <1>3, PTL DEF Spec, DeletedCaseIsFrozen

-----------------------------------------------------------------------------
(* The inductive invariant behind UnsettledCaseHasOwner.  That some busy    *)
(* request works on the case is not inductive: a request that waits for its *)
(* claim is busy, and is turned away when another one has meanwhile moved   *)
(* the case to INVESTIGATING.  What is: some request is at a place from     *)
(* which it will write the status again, and which places these are depends *)
(* on the status in the row.                                                *)

\* Places from which a request is bound to write the status: a claim is only
\* certain to be accepted for the two statuses nobody is investigating under.
OwnerPcs(s) ==
    IF s \in {"NEW", "READY_TO_INVESTIGATE"}
    THEN {"add_message", "to_ready", "claim"} \cup WorkPcs \cup ExceptPcs
    ELSE {"to_ready"} \cup WorkPcs \cup ExceptPcs

\* ... or that cannot be helped any more
Owns(r, c) == target[r] = c /\ pc[r] \in OwnerPcs(status[c]) \cup Abandoned

OwnerInv ==
    \A c \in Cases :
        Live(c) /\ status[c] \in UnsettledStatuses => \E r \in Requests : Owns(r, c)

(* A step that leaves the rows alone keeps OwnerInv if the request that     *)
(* moves is still an owner where it arrives.                                *)
LEMMA QuietStep ==
  ASSUME TypeOK, OwnerInv, NEW r \in Requests,
         status' = status, deleted' = deleted, target' = target,
         \A q \in Requests \ {r} : pc'[q] = pc[q],
         Live(target[r]) /\ status[target[r]] \in UnsettledStatuses =>
            (Owns(r, target[r]) =>
                pc'[r] \in OwnerPcs(status[target[r]]) \cup Abandoned)
  PROVE  OwnerInv'
<1> SUFFICES ASSUME NEW c \in Cases, Live(c)', (status[c] \in UnsettledStatuses)'
             PROVE  \E q \in Requests : Owns(q, c)'
  BY DEF OwnerInv
<1>1. Live(c) /\ status[c] \in UnsettledStatuses
  BY DEF Live
<1>2. PICK q \in Requests : Owns(q, c)
  BY <1>1 DEF OwnerInv
<1>3. CASE q = r
  BY <1>1, <1>2, <1>3 DEF Owns
<1>4. CASE q # r
  BY <1>2, <1>4 DEF Owns
<1> QED BY <1>3, <1>4

(* A step that writes the status of the case its request works on keeps     *)
(* OwnerInv if the status is settled or the request is an owner itself.     *)
LEMMA WriteStep ==
  ASSUME TypeOK, TargetInv, OwnerInv, NEW r \in Requests, NEW s,
         pc[r] # "idle",
         status' = [status EXCEPT ![target[r]] = s],
         deleted' = deleted, target' = target,
         \A q \in Requests \ {r} : pc'[q] = pc[q],
         s \in UnsettledStatuses => pc'[r] \in OwnerPcs(s) \cup Abandoned
  PROVE  OwnerInv'
<1> SUFFICES ASSUME NEW c \in Cases, Live(c)', (status[c] \in UnsettledStatuses)'
             PROVE  \E q \in Requests : Owns(q, c)'
  BY DEF OwnerInv
<1>1. CASE c = target[r]
  <2>1. status'[c] = s
    BY <1>1 DEF TypeOK
  <2> QED BY <1>1, <2>1 DEF Owns
<1>2. CASE c # target[r]
  <2>1. status'[c] = status[c] /\ Live(c)
    BY <1>2 DEF TypeOK, Live
  <2>2. PICK q \in Requests : Owns(q, c)
    BY <2>1 DEF OwnerInv
  <2>3. q # r
    BY <1>2, <2>2 DEF Owns
  <2> QED BY <2>1, <2>2, <2>3 DEF Owns
<1> QED BY <1>1, <1>2

LEMMA OwnerInvSubmit ==
  ASSUME TypeOK, OwnerInv, NEW r \in Requests, Submit(r)
  PROVE  OwnerInv'
<1>1. pc[r] = "idle" /\ \A q \in Requests \ {r} : target'[q] = target[q] /\ pc'[q] = pc[q]
  BY DEF Submit, SubmitChatNew, SubmitChatFollowUp, SubmitChannel, TypeOK
<1>2. ASSUME NEW q \in Requests, NEW c \in Cases, Owns(q, c)  PROVE q # r
  BY <1>1, <1>2 DEF Owns, OwnerPcs, WorkPcs, ExceptPcs, Abandoned
<1>3. CASE \E d \in Cases, mode \in {"sync", "async"} : SubmitChatNew(r, d, mode)
  <2>1. PICK d \in Cases, mode \in {"sync", "async"} : SubmitChatNew(r, d, mode)
    BY <1>3
  <2>2. Owns(r, d)' /\ deleted' = deleted /\ \A c \in Cases \ {d} : status'[c] = status[c]
    BY <2>1 DEF SubmitChatNew, Owns, OwnerPcs, TypeOK
  <2> QED BY <1>1, <1>2, <2>2 DEF OwnerInv, Owns, Live
<1>4. CASE status' = status /\ deleted' = deleted
  BY <1>1, <1>2, <1>4 DEF OwnerInv, Owns, Live
<1> QED BY <1>3, <1>4 DEF Submit, SubmitChatFollowUp, SubmitChannel

(* The steps of process_case and of the intake, in an order of their own:   *)
(* first those that write no row, then the writes.  Without synchronous     *)
(* requests a follow-up that has written back a stale INVESTIGATING is at   *)
(* to_ready and will overwrite it; a synchronous one would already be at    *)
(* its claim, about to be turned away.                                      *)
LEMMA OwnerInvStep ==
  ASSUME "sync" \notin Modes,
         TypeOK, TargetInv, OwnerInv, NEW r \in Requests, Step(r)
  PROVE  OwnerInv'
<1>0. /\ pc[r] # "idle" /\ target[r] \in Cases /\ kind[r] # "sync"
      /\ target' = target /\ deleted' = deleted
      /\ \A q \in Requests \ {r} : pc'[q] = pc[q]
  BY StepFrame DEF TargetInv, TypeOK, BusyPcs, SubmitPcs, WorkPcs, ClosePcs,
     ExceptPcs, FinallyPcs
<1>1. CASE AddUserMessage(r)
  BY <1>0, <1>1, QuietStep DEF AddUserMessage, TypeOK, Owns, Live, OwnerPcs, SubmitPcs,
     WorkPcs, ClosePcs, ExceptPcs, Abandoned
<1>2. CASE AppendUserMessage(r)
  BY <1>0, <1>2, QuietStep DEF AppendUserMessage, TypeOK, Owns, Live, OwnerPcs, SubmitPcs,
     WorkPcs, ClosePcs, ExceptPcs, Abandoned
<1>3. CASE ClaimCase(r)
  BY <1>0, <1>3, QuietStep DEF ClaimCase, TypeOK, Owns, Live, OwnerPcs, SubmitPcs,
     WorkPcs, ClosePcs, ExceptPcs, Abandoned,
     Accepted, Statuses, ClaimableStatuses, ActiveStatuses, TerminalStatuses, SettledStatuses, UnsettledStatuses
<1>4. CASE StartRun(r)
  BY <1>0, <1>4, QuietStep DEF StartRun, TypeOK, Owns, Live, OwnerPcs, SubmitPcs,
     WorkPcs, ClosePcs, ExceptPcs, Abandoned
<1>5. CASE Triage(r)
  BY <1>0, <1>5, QuietStep DEF Triage, TypeOK, Owns, Live, OwnerPcs, SubmitPcs,
     WorkPcs, ClosePcs, ExceptPcs, Abandoned
<1>6. CASE Classify(r)
  BY <1>0, <1>6, QuietStep DEF Classify, TypeOK, Owns, Live, OwnerPcs, SubmitPcs,
     WorkPcs, ClosePcs, ExceptPcs, Abandoned
<1>7. CASE DecisionGate(r)
  BY <1>0, <1>7, QuietStep DEF DecisionGate, TypeOK, Owns, Live, OwnerPcs, SubmitPcs,
     WorkPcs, ClosePcs, ExceptPcs, Abandoned
<1>8. CASE Plan(r)
  <2>1. status' = status /\ pc'[r] \in WorkPcs
    BY <1>8, DispatchType DEF Plan, WorkPcs, TypeOK
  <2> QED BY <1>0, <2>1, QuietStep DEF OwnerPcs
<1>9. CASE WaitReply(r)
  BY <1>0, <1>9, QuietStep DEF WaitReply, TypeOK, Owns, Live, OwnerPcs, SubmitPcs,
     WorkPcs, ClosePcs, ExceptPcs, Abandoned
<1>10. CASE DirectStart(r)
  BY <1>0, <1>10, QuietStep DEF DirectStart, TypeOK, Owns, Live, OwnerPcs, SubmitPcs,
     WorkPcs, ClosePcs, ExceptPcs, Abandoned
<1>11. CASE DirectAnswer(r)
  BY <1>0, <1>11, QuietStep DEF DirectAnswer, TypeOK, Owns, Live, OwnerPcs, SubmitPcs,
     WorkPcs, ClosePcs, ExceptPcs, Abandoned
<1>12. CASE DirectCaught(r)
  BY <1>0, <1>12, QuietStep DEF DirectCaught, DirectTryPcs, TypeOK, Owns, Live,
     OwnerPcs, SubmitPcs, WorkPcs, ClosePcs, ExceptPcs, Abandoned
<1>13. CASE ChatFinish(r)
  BY <1>0, <1>13, QuietStep DEF ChatFinish, TypeOK, Owns, Live, OwnerPcs, SubmitPcs,
     WorkPcs, ClosePcs, ExceptPcs, Abandoned
<1>13a. CASE ChatEvent(r)
  BY <1>0, <1>13a, QuietStep DEF ChatEvent, TypeOK, Owns, Live, OwnerPcs, SubmitPcs,
     WorkPcs, ClosePcs, ExceptPcs, Abandoned
<1>14. CASE HumanReply(r)
  BY <1>0, <1>14, QuietStep DEF HumanReply, TypeOK, Owns, Live, OwnerPcs, SubmitPcs,
     WorkPcs, ClosePcs, ExceptPcs, Abandoned
<1>15. CASE OpenInvestigation(r)
  BY <1>0, <1>15, QuietStep DEF OpenInvestigation, TypeOK, Owns, Live, OwnerPcs, SubmitPcs,
     WorkPcs, ClosePcs, ExceptPcs, Abandoned
<1>16. CASE InvokeTool(r)
  BY <1>0, <1>16, QuietStep DEF InvokeTool, TypeOK, Owns, Live, OwnerPcs, SubmitPcs,
     WorkPcs, ClosePcs, ExceptPcs, Abandoned
<1>17. CASE Summarize(r)
  BY <1>0, <1>17, QuietStep DEF Summarize, TypeOK, Owns, Live, OwnerPcs, SubmitPcs,
     WorkPcs, ClosePcs, ExceptPcs, Abandoned
<1>18. CASE CloseInvestigation(r)
  BY <1>0, <1>18, QuietStep DEF CloseInvestigation, TypeOK, Owns, Live, OwnerPcs, SubmitPcs,
     WorkPcs, ClosePcs, ExceptPcs, Abandoned
<1>19. CASE FinishRun(r)
  BY <1>0, <1>19, QuietStep DEF FinishRun, TypeOK, Owns, Live, OwnerPcs, SubmitPcs,
     WorkPcs, ClosePcs, ExceptPcs, Abandoned
<1>20. CASE FinishEvent(r)
  BY <1>0, <1>20, QuietStep DEF FinishEvent, TypeOK, Owns, Live, OwnerPcs, SubmitPcs,
     WorkPcs, ClosePcs, ExceptPcs, Abandoned
<1>21. CASE Raise(r)
  BY <1>0, <1>21, QuietStep DEF Raise, DirectTryPcs, TypeOK, Owns, Live,
     OwnerPcs, SubmitPcs, WorkPcs, ClosePcs, ExceptPcs, Abandoned
<1>22. CASE ExceptRun(r)
  BY <1>0, <1>22, QuietStep DEF ExceptRun, TypeOK, Owns, Live, OwnerPcs, SubmitPcs,
     WorkPcs, ClosePcs, ExceptPcs, Abandoned
<1>23. CASE ExceptMessage(r)
  BY <1>0, <1>23, QuietStep DEF ExceptMessage, TypeOK, Owns, Live, OwnerPcs, SubmitPcs,
     WorkPcs, ClosePcs, ExceptPcs, Abandoned
<1>24. CASE ExceptFails(r)
  BY <1>0, <1>24, QuietStep DEF ExceptFails, TypeOK, Owns, Live, OwnerPcs, SubmitPcs,
     WorkPcs, ClosePcs, ExceptPcs, Abandoned
<1>25. CASE RefuseRequest(r)
  BY <1>0, <1>25, QuietStep DEF RefuseRequest, TypeOK, Owns, Live, OwnerPcs, SubmitPcs,
     WorkPcs, ClosePcs, ExceptPcs, Abandoned
<1>26. CASE AppendUpdate(r)
  BY <1>0, <1>26, WriteStep DEF AppendUpdate, TypeOK, OwnerPcs, WorkPcs, ExceptPcs,
     StatusAfterUserMessage, Statuses, ClaimableStatuses, ActiveStatuses, TerminalStatuses, SettledStatuses, UnsettledStatuses
<1>27. CASE TransitionReady(r)
  BY <1>0, <1>27, WriteStep DEF TransitionReady, TypeOK, OwnerPcs, WorkPcs, ExceptPcs
<1>28. CASE WriteClaim(r)
  BY <1>0, <1>28, WriteStep DEF WriteClaim, TypeOK, OwnerPcs, WorkPcs, ExceptPcs, ClaimedStatus
<1>29. CASE AskUserStatus(r)
  BY <1>0, <1>29, WriteStep DEF AskUserStatus, TypeOK, OwnerPcs, WorkPcs, ExceptPcs
<1>30. CASE WaitStatus(r)
  BY <1>0, <1>30, WriteStep DEF WaitStatus, TypeOK, OwnerPcs, WorkPcs, ExceptPcs,
     Statuses, ClaimableStatuses, ActiveStatuses, TerminalStatuses, SettledStatuses, UnsettledStatuses
<1>31. CASE HumanStatus(r)
  BY <1>0, <1>31, WriteStep DEF HumanStatus, TypeOK, OwnerPcs, WorkPcs, ExceptPcs,
     Statuses, ClaimableStatuses, ActiveStatuses, TerminalStatuses, SettledStatuses, UnsettledStatuses
<1>32. CASE InvestigationStatus(r)
  BY <1>0, <1>32, WriteStep DEF InvestigationStatus, TypeOK, OwnerPcs, WorkPcs, ExceptPcs
<1>33. CASE ToolStatus(r)
  BY <1>0, <1>33, WriteStep DEF ToolStatus, TypeOK, OwnerPcs, WorkPcs, ExceptPcs
<1>34. CASE CreateChannelCase(r)
  <2>1. status' = [status EXCEPT ![target[r]] =
                     IF @ = "absent" THEN "NEW" ELSE @]
    BY <1>34 DEF CreateChannelCase
  <2>2. /\ pc[r] = "create_case" /\ pc' = [pc EXCEPT ![r] = "add_message"]
        /\ UNCHANGED <<deleted, target>>
    BY <1>34 DEF CreateChannelCase
  <2>3. CASE status[target[r]] = "absent"
    <3>1. status' = [status EXCEPT ![target[r]] = "NEW"]
      BY <2>1, <2>3
    <3>2. pc'[r] \in OwnerPcs("NEW")
      BY <2>2 DEF TypeOK, OwnerPcs
    <3> QED BY <1>0, <2>2, <3>1, <3>2, WriteStep DEF TypeOK
  <2>4. CASE status[target[r]] # "absent"
    <3>1. status' = status
      BY <2>1, <2>4 DEF TypeOK
    <3>2. ~Owns(r, target[r]) \/ pc'[r] \in OwnerPcs(status[target[r]]) \cup Abandoned
      BY <2>2 DEF TypeOK, Owns, OwnerPcs, WorkPcs, ExceptPcs, Abandoned
    <3> QED BY <1>0, <2>2, <3>1, <3>2, QuietStep DEF TypeOK
  <2> QED BY <2>3, <2>4
<1>35. CASE ExceptStatus(r)
  <2>1. CASE Live(target[r])
    BY <1>0, <1>35, <2>1, WriteStep DEF ExceptStatus, Statuses, ClaimableStatuses, ActiveStatuses, TerminalStatuses, SettledStatuses, UnsettledStatuses
  <2>2. CASE ~Live(target[r])
    BY <1>0, <1>35, <2>2, QuietStep DEF ExceptStatus
  <2> QED BY <2>1, <2>2
<1>36. CASE Finally(r)
  <2>1. CASE status' = [status EXCEPT ![target[r]] = "FAILED"]
    BY <1>0, <2>1, WriteStep DEF Statuses, ClaimableStatuses, ActiveStatuses, TerminalStatuses, SettledStatuses, UnsettledStatuses
  <2>2. CASE status' = status
    BY <1>0, <1>36, <2>2, QuietStep DEF Finally, TypeOK, Owns, FinallyPcs,
       OwnerPcs, WorkPcs, ExceptPcs, Abandoned
  <2> QED BY <1>36, <2>1, <2>2 DEF Finally
<1> QED
  BY <1>1, <1>2, <1>3, <1>4, <1>5, <1>6, <1>7, <1>8, <1>9, <1>10, <1>11, <1>12,
     <1>13, <1>13a, <1>14, <1>15, <1>16, <1>17, <1>18, <1>19, <1>20, <1>21, <1>22, <1>23, <1>24,
     <1>25, <1>26, <1>27, <1>28, <1>29, <1>30, <1>31, <1>32, <1>33, <1>34, <1>35, <1>36 DEF Step

LEMMA OwnerInvNext ==
  ASSUME "sync" \notin Modes, TypeOK, TargetInv, OwnerInv, [Next]_vars
  PROVE  OwnerInv'
<1>1. ASSUME NEW r \in Requests, Submit(r)  PROVE OwnerInv'
  BY <1>1, OwnerInvSubmit
<1>2. ASSUME NEW r \in Requests, Step(r)  PROVE OwnerInv'
  BY <1>2, OwnerInvStep
<1>3. ASSUME NEW r \in Requests, Crash(r)  PROVE OwnerInv'
  BY <1>3, QuietStep DEF Crash, TypeOK, Abandoned
<1>4. ASSUME NEW c \in Cases, DeleteCase(c)  PROVE OwnerInv'
  BY <1>4 DEF DeleteCase, OwnerInv, Owns, Live, TypeOK
<1>5. CASE UNCHANGED vars
  BY <1>5 DEF vars, OwnerInv, Owns, Live
<1> QED BY <1>1, <1>2, <1>3, <1>4, <1>5 DEF Next, Quiescent

(* No case is stranded: if every message arrives through the web console or *)
(* a chat channel (which never use the synchronous mode of the API), a live *)
(* case that is not settled has a request working on it, unless a process   *)
(* died or lost its database at the wrong moment, however many requests     *)
(* overwrite each other's statuses.                                         *)
THEOREM UnsettledCasesHaveOwners ==
  ASSUME "sync" \notin Modes
  PROVE  Spec => []UnsettledCaseHasOwner
<1>1. Init => TypeOK /\ TargetInv /\ OwnerInv
  BY TypeOKInit DEF Init, TargetInv, OwnerInv, Live
<1>2. TypeOK /\ TargetInv /\ OwnerInv /\ [Next]_vars
        => (TypeOK /\ TargetInv /\ OwnerInv)'
  BY TypeOKNext, TargetInvNext, OwnerInvNext
<1>3. OwnerInv => UnsettledCaseHasOwner
  BY DEF OwnerInv, Owns, OwnerPcs, UnsettledCaseHasOwner, BusyPcs, SubmitPcs
<1> QED BY <1>1, <1>2, <1>3, PTL DEF Spec

-----------------------------------------------------------------------------
(* The inductive invariant behind CompletedRunIsClosed: what a request has  *)
(* open depends on where it is, until an exception or its return.           *)

\* where a request is after its run was reported, or after an exception
OverPcs == {"finish_event"} \cup ExceptPcs \cup FinallyPcs \cup EndPcs

ClosedSoFar(r) ==
    /\ run[r] = "completed" => /\ pc[r] \in OverPcs
                               /\ inv[r] # "running"
                               /\ chatRun[r] # "running"
                               /\ replied[r]
    /\ inv[r] = "running" =>
           pc[r] \in {"tool_status", "tools", "inv_close"} \cup (OverPcs \ {"finish_event"})
    /\ chatRun[r] = "running" =>
           pc[r] \in {"direct_answer", "wait_reply", "wait_status", "chat_finish"}
                        \cup (OverPcs \ {"finish_event"})
    /\ pc[r] \in {"wait_status", "human_status"} \cup ClosePcs => replied[r]

ClosedInv == \A r \in Requests : ClosedSoFar(r)

(* A step of a request keeps the records of the other requests. *)
LEMMA RecordsFrame ==
  ASSUME TypeOK, NEW r \in Requests, Step(r) \/ Submit(r) \/ Crash(r),
         NEW q \in Requests \ {r}
  PROVE  /\ pc'[q] = pc[q] /\ run'[q] = run[q] /\ inv'[q] = inv[q]
         /\ chatRun'[q] = chatRun[q] /\ replied'[q] = replied[q]
         /\ calls'[q] = calls[q] /\ left'[q] = left[q] /\ failures'[q] = failures[q]
         /\ act'[q] = act[q] /\ target'[q] = target[q]
<1> USE DEF TypeOK
<1>1. CASE \/ CreateChannelCase(r) \/ AddUserMessage(r) \/ AppendUserMessage(r) \/ AppendUpdate(r)
           \/ TransitionReady(r) \/ RefuseRequest(r)
  BY <1>1 DEF
     CreateChannelCase, AddUserMessage, AppendUserMessage, AppendUpdate,
     TransitionReady, RefuseRequest
<1>2. CASE \/ ClaimCase(r) \/ StartRun(r) \/ WriteClaim(r) \/ Triage(r)
           \/ Classify(r) \/ DecisionGate(r) \/ Plan(r)
  BY <1>2 DEF
     ClaimCase, StartRun, WriteClaim, Triage, Classify, DecisionGate, Plan
<1>3. CASE \/ AskUserStatus(r) \/ WaitReply(r) \/ WaitStatus(r) \/ DirectStart(r)
           \/ DirectAnswer(r) \/ DirectCaught(r) \/ ChatFinish(r) \/ ChatEvent(r)
           \/ HumanReply(r)
           \/ HumanStatus(r)
  BY <1>3 DEF
     AskUserStatus, WaitReply, WaitStatus, DirectStart, DirectAnswer,
     DirectCaught, ChatFinish, ChatEvent, HumanReply, HumanStatus
<1>4. CASE \/ InvestigationStatus(r) \/ OpenInvestigation(r) \/ ToolStatus(r) \/ InvokeTool(r)
           \/ Summarize(r) \/ CloseInvestigation(r)
  BY <1>4 DEF
     InvestigationStatus, OpenInvestigation, ToolStatus, InvokeTool,
     Summarize, CloseInvestigation
<1>5. CASE \/ FinishRun(r) \/ FinishEvent(r) \/ Raise(r) \/ ExceptRun(r)
           \/ ExceptMessage(r) \/ ExceptStatus(r) \/ ExceptFails(r) \/ Finally(r)
  BY <1>5 DEF
     FinishRun, FinishEvent, Raise, ExceptRun, ExceptMessage, ExceptStatus,
     ExceptFails, Finally
<1>6. CASE Submit(r)
  BY <1>6 DEF Submit, SubmitChatNew, SubmitChatFollowUp, SubmitChannel
<1>7. CASE Crash(r)
  BY <1>7 DEF Crash
<1> QED BY <1>1, <1>2, <1>3, <1>4, <1>5, <1>6, <1>7 DEF Step

LEMMA ClosedInvStep ==
  ASSUME TypeOK, ClosedInv, NEW r \in Requests, Step(r)
  PROVE  ClosedSoFar(r)'
<1>0. ClosedSoFar(r)
  BY DEF ClosedInv
<1> USE DEF TypeOK, ClosedSoFar, OverPcs, ClosePcs, ExceptPcs, FinallyPcs, EndPcs
<1>1. CASE CreateChannelCase(r)
  BY <1>0, <1>1 DEF CreateChannelCase
<1>2. CASE AddUserMessage(r)
  BY <1>0, <1>2 DEF AddUserMessage
<1>3. CASE AppendUserMessage(r)
  BY <1>0, <1>3 DEF AppendUserMessage
<1>4. CASE AppendUpdate(r)
  BY <1>0, <1>4 DEF AppendUpdate
<1>5. CASE TransitionReady(r)
  BY <1>0, <1>5 DEF TransitionReady
<1>6. CASE ClaimCase(r)
  BY <1>0, <1>6 DEF ClaimCase
<1>7. CASE StartRun(r)
  BY <1>0, <1>7 DEF StartRun
<1>8. CASE WriteClaim(r)
  BY <1>0, <1>8 DEF WriteClaim
<1>9. CASE Triage(r)
  BY <1>0, <1>9 DEF Triage
<1>10. CASE Classify(r)
  BY <1>0, <1>10 DEF Classify
<1>11. CASE DecisionGate(r)
  BY <1>0, <1>11 DEF DecisionGate
<1>12. CASE Plan(r)
  BY <1>0, <1>12, DispatchType DEF Plan
<1>13. CASE AskUserStatus(r)
  BY <1>0, <1>13 DEF AskUserStatus
<1>14. CASE WaitReply(r)
  BY <1>0, <1>14 DEF WaitReply
<1>15. CASE WaitStatus(r)
  BY <1>0, <1>15 DEF WaitStatus
<1>16. CASE DirectStart(r)
  BY <1>0, <1>16 DEF DirectStart
<1>17. CASE DirectAnswer(r)
  BY <1>0, <1>17 DEF DirectAnswer
<1>18. CASE DirectCaught(r)
  BY <1>0, <1>18 DEF DirectCaught, DirectTryPcs
<1>19. CASE ChatFinish(r)
  BY <1>0, <1>19 DEF ChatFinish
<1>19a. CASE ChatEvent(r)
  BY <1>0, <1>19a DEF ChatEvent
<1>20. CASE HumanReply(r)
  BY <1>0, <1>20 DEF HumanReply
<1>21. CASE HumanStatus(r)
  BY <1>0, <1>21 DEF HumanStatus
<1>22. CASE InvestigationStatus(r)
  BY <1>0, <1>22 DEF InvestigationStatus
<1>23. CASE OpenInvestigation(r)
  BY <1>0, <1>23 DEF OpenInvestigation
<1>24. CASE ToolStatus(r)
  BY <1>0, <1>24 DEF ToolStatus
<1>25. CASE InvokeTool(r)
  BY <1>0, <1>25 DEF InvokeTool
<1>26. CASE Summarize(r)
  BY <1>0, <1>26 DEF Summarize
<1>27. CASE CloseInvestigation(r)
  BY <1>0, <1>27 DEF CloseInvestigation
<1>28. CASE FinishRun(r)
  BY <1>0, <1>28 DEF FinishRun
<1>29. CASE FinishEvent(r)
  BY <1>0, <1>29 DEF FinishEvent
<1>30. CASE Raise(r)
  BY <1>0, <1>30 DEF Raise, DirectTryPcs, WorkPcs
<1>31. CASE ExceptRun(r)
  BY <1>0, <1>31 DEF ExceptRun
<1>32. CASE ExceptMessage(r)
  BY <1>0, <1>32 DEF ExceptMessage
<1>33. CASE ExceptStatus(r)
  BY <1>0, <1>33 DEF ExceptStatus
<1>34. CASE ExceptFails(r)
  BY <1>0, <1>34 DEF ExceptFails
<1>35. CASE Finally(r)
  BY <1>0, <1>35 DEF Finally
<1>36. CASE RefuseRequest(r)
  BY <1>0, <1>36 DEF RefuseRequest, SubmitPcs
<1> QED
  BY <1>1, <1>2, <1>3, <1>4, <1>5, <1>6, <1>7, <1>8, <1>9, <1>10, <1>11,
     <1>12, <1>13, <1>14, <1>15, <1>16, <1>17, <1>18, <1>19, <1>19a, <1>20, <1>21,
     <1>22, <1>23, <1>24, <1>25, <1>26, <1>27, <1>28, <1>29, <1>30, <1>31,
     <1>32, <1>33, <1>34, <1>35, <1>36 DEF Step

LEMMA ClosedInvNext == TypeOK /\ ClosedInv /\ [Next]_vars => ClosedInv'
<1> SUFFICES ASSUME TypeOK, ClosedInv, [Next]_vars  PROVE ClosedInv'
  OBVIOUS
<1>1. ASSUME NEW r \in Requests, Step(r) \/ Submit(r) \/ Crash(r), ClosedSoFar(r)'
      PROVE  ClosedInv'
  BY <1>1, RecordsFrame DEF ClosedInv, ClosedSoFar
<1>2. ASSUME NEW r \in Requests, Step(r)  PROVE ClosedInv'
  BY <1>1, <1>2, ClosedInvStep
<1>3. ASSUME NEW r \in Requests, Submit(r)  PROVE ClosedInv'
  <2>1. ClosedSoFar(r)'
    BY <1>3 DEF ClosedInv, ClosedSoFar, Submit, SubmitChatNew, SubmitChatFollowUp,
       SubmitChannel, TypeOK, OverPcs, ClosePcs, ExceptPcs, FinallyPcs, EndPcs
  <2> QED BY <1>1, <1>3, <2>1
<1>4. ASSUME NEW r \in Requests, Crash(r)  PROVE ClosedInv'
  <2>1. ClosedSoFar(r)'
    BY <1>4 DEF ClosedInv, ClosedSoFar, Crash, TypeOK, OverPcs, ClosePcs, EndPcs
  <2> QED BY <1>1, <1>4, <2>1
<1>5. ASSUME NEW c \in Cases, DeleteCase(c)  PROVE ClosedInv'
  BY <1>5 DEF ClosedInv, ClosedSoFar, DeleteCase
<1>6. CASE UNCHANGED vars
  BY <1>6 DEF ClosedInv, ClosedSoFar, vars
<1> QED BY <1>2, <1>3, <1>4, <1>5, <1>6 DEF Next, Quiescent

(* A run that process_case reports as completed has left nothing open: its  *)
(* investigation and its direct-chat run are finished and its reply is      *)
(* stored, whatever failed, was caught or was answered twice on the way.    *)
THEOREM CompletedRunsAreClosed == Spec => []CompletedRunIsClosed
<1>1. Init => TypeOK /\ ClosedInv
  BY TypeOKInit DEF Init, ClosedInv, ClosedSoFar, ClosePcs
<1>2. TypeOK /\ ClosedInv /\ [Next]_vars => (TypeOK /\ ClosedInv)'
  BY TypeOKNext, ClosedInvNext
<1>3. ClosedInv => CompletedRunIsClosed
  BY DEF ClosedInv, ClosedSoFar, CompletedRunIsClosed
<1> QED BY <1>1, <1>2, <1>3, PTL DEF Spec

-----------------------------------------------------------------------------
(* The inductive invariant behind ToolBudgetKept: the calls made and the    *)
(* tools left never exceed the configured number, and both are zero before  *)
(* the plan, which only happens once.                                       *)

\* where a request has not planned yet
BeforePlanPcs == {"idle"} \cup SubmitPcs \cup
    {"start_run", "claim_write", "triage", "classify", "gate", "plan"}

BudgetSoFar(r) ==
    /\ calls[r] + left[r] <= MaxToolCalls
    /\ pc[r] \in BeforePlanPcs => calls[r] = 0
    /\ calls[r] > 0 => inv[r] # "none" /\ MaxToolFailures > 0
    /\ pc[r] \in {"tool_status", "tools"} => inv[r] # "none"
    /\ failures[r] <= MaxToolFailures + 1

BudgetInv == \A r \in Requests : BudgetSoFar(r)

LEMMA BudgetInvStep ==
  ASSUME TypeOK, BudgetInv, NEW r \in Requests, Step(r)
  PROVE  BudgetSoFar(r)'
<1>0. BudgetSoFar(r) /\ MaxToolCalls \in Nat /\ MaxToolFailures \in Nat
  BY ConstantsAssumption DEF BudgetInv, ConstantsAssumption
<1> USE DEF TypeOK, BudgetSoFar, BeforePlanPcs, SubmitPcs, WorkPcs, ClosePcs,
        ExceptPcs, FinallyPcs
<1>1. CASE Plan(r)
  <2>1. PICK a \in PlannedActions, n \in 1 .. ToolBudget :
            /\ left' = [left EXCEPT ![r] =
                           IF a # "invoke_tools" THEN 0
                           ELSE IF n < MaxToolCalls THEN n ELSE MaxToolCalls]
            /\ pc' = [pc EXCEPT ![r] = Dispatch(a)]
    BY <1>1 DEF Plan
  <2>2. left'[r] <= MaxToolCalls /\ left'[r] \in Nat
    BY <1>0, <2>1, ToolBudgetType
  <2>3. pc'[r] \in {"ask_status", "inv_status", "human_reply"}
    BY <2>1, DispatchType
  <2> QED BY <1>0, <1>1, <2>2, <2>3 DEF Plan
<1>2. CASE OpenInvestigation(r)
  BY <1>0, <1>2 DEF OpenInvestigation
<1>3. CASE InvokeTool(r)
  BY <1>0, <1>3 DEF InvokeTool
<1>4. CASE CloseInvestigation(r)
  BY <1>0, <1>4 DEF CloseInvestigation
<1>5. CASE /\ calls' = calls /\ left' = left /\ failures' = failures /\ inv' = inv
           /\ pc'[r] \in BeforePlanPcs => pc[r] \in BeforePlanPcs
           /\ pc'[r] = "tools" => pc[r] = "tool_status"
           /\ pc'[r] # "tool_status"
  BY <1>0, <1>5
<1>6. CASE \/ CreateChannelCase(r) \/ AddUserMessage(r) \/ AppendUserMessage(r) \/ AppendUpdate(r)
           \/ TransitionReady(r) \/ RefuseRequest(r)
  BY <1>5, <1>6 DEF
     CreateChannelCase, AddUserMessage, AppendUserMessage, AppendUpdate,
     TransitionReady, RefuseRequest, EndPcs
<1>7. CASE \/ ClaimCase(r) \/ StartRun(r) \/ WriteClaim(r) \/ Triage(r)
           \/ Classify(r) \/ DecisionGate(r)
  BY <1>5, <1>7 DEF
     ClaimCase, StartRun, WriteClaim, Triage, Classify, DecisionGate, EndPcs
<1>8. CASE \/ AskUserStatus(r) \/ WaitReply(r) \/ WaitStatus(r) \/ DirectStart(r)
           \/ DirectAnswer(r) \/ DirectCaught(r) \/ ChatFinish(r) \/ ChatEvent(r)
           \/ HumanReply(r)
           \/ HumanStatus(r)
  BY <1>5, <1>8 DEF
     AskUserStatus, WaitReply, WaitStatus, DirectStart, DirectAnswer,
     DirectCaught, ChatFinish, ChatEvent, HumanReply, HumanStatus, EndPcs
<1>9. CASE \/ InvestigationStatus(r) \/ ToolStatus(r) \/ Summarize(r) \/ FinishRun(r)
           \/ FinishEvent(r)
  BY <1>5, <1>9 DEF
     InvestigationStatus, ToolStatus, Summarize, FinishRun, FinishEvent
<1>10. CASE \/ Raise(r) \/ ExceptRun(r) \/ ExceptMessage(r) \/ ExceptStatus(r)
           \/ ExceptFails(r) \/ Finally(r)
  BY <1>5, <1>10 DEF
     Raise, ExceptRun, ExceptMessage, ExceptStatus, ExceptFails, Finally,
     EndPcs
<1> QED BY <1>1, <1>2, <1>3, <1>4, <1>6, <1>7, <1>8, <1>9, <1>10 DEF Step

LEMMA BudgetInvNext == TypeOK /\ BudgetInv /\ [Next]_vars => BudgetInv'
<1> SUFFICES ASSUME TypeOK, BudgetInv, [Next]_vars  PROVE BudgetInv'
  OBVIOUS
<1>1. ASSUME NEW r \in Requests, Step(r) \/ Submit(r) \/ Crash(r), BudgetSoFar(r)'
      PROVE  BudgetInv'
  BY <1>1, RecordsFrame DEF BudgetInv, BudgetSoFar
<1>2. ASSUME NEW r \in Requests, Step(r)  PROVE BudgetInv'
  BY <1>1, <1>2, BudgetInvStep
<1>3. ASSUME NEW r \in Requests, Submit(r)  PROVE BudgetInv'
  <2>1. BudgetSoFar(r)'
    BY <1>3 DEF BudgetInv, BudgetSoFar, Submit, SubmitChatNew, SubmitChatFollowUp,
       SubmitChannel, TypeOK, BeforePlanPcs, SubmitPcs
  <2> QED BY <1>1, <1>3, <2>1
<1>4. ASSUME NEW r \in Requests, Crash(r)  PROVE BudgetInv'
  <2>1. BudgetSoFar(r)'
    BY <1>4 DEF BudgetInv, BudgetSoFar, Crash, TypeOK, BeforePlanPcs, SubmitPcs
  <2> QED BY <1>1, <1>4, <2>1
<1>5. ASSUME NEW c \in Cases, DeleteCase(c)  PROVE BudgetInv'
  BY <1>5 DEF BudgetInv, BudgetSoFar, DeleteCase
<1>6. CASE UNCHANGED vars
  BY <1>6 DEF BudgetInv, BudgetSoFar, vars
<1> QED BY <1>2, <1>3, <1>4, <1>5, <1>6 DEF Next, Quiescent

(* One process_case keeps its budgets, whatever max_tool_calls_per_case and *)
(* max_tool_failures_per_case are (zero included): no call beyond the       *)
(* first, none without an investigation, and at most one failure counted    *)
(* beyond the second.                                                       *)
THEOREM ToolBudgetsAreKept == Spec => []ToolBudgetKept
<1>1. Init => TypeOK /\ BudgetInv
  BY TypeOKInit, ConstantsAssumption
     DEF Init, BudgetInv, BudgetSoFar, ConstantsAssumption
<1>2. TypeOK /\ BudgetInv /\ [Next]_vars => (TypeOK /\ BudgetInv)'
  BY TypeOKNext, BudgetInvNext
<1>3. TypeOK /\ BudgetInv => ToolBudgetKept
  BY ConstantsAssumption
     DEF TypeOK, BudgetInv, BudgetSoFar, ToolBudgetKept, ConstantsAssumption
<1> QED BY <1>1, <1>2, <1>3, PTL DEF Spec

-----------------------------------------------------------------------------
(* The inductive invariant behind ConfirmationHasReply: a request is on its *)
(* way to NEED_HUMAN_CONFIRMATION only with a plan to answer, writes it only *)
(* after its reply, and once it has replied it never plans again.           *)

Answering == PlannedActions \ {"ask_user"}

AnswerSoFar(r) ==
    /\ pc[r] \in BeforePlanPcs \cup {"direct_start", "direct_answer"} => ~replied[r]
    /\ pc[r] \in {"inv_status", "inv_open", "tool_status", "tools", "inv_close",
                  "human_reply", "human_status"} => act[r] \in Answering
    /\ pc[r] = "human_status" => replied[r]

AnswerInv == \A r \in Requests : AnswerSoFar(r)

(* Only _transition(NEED_HUMAN_CONFIRMATION) brings a row to that status: a *)
(* follow-up that read it writes WAITING_USER_REPLY back.                   *)
LEMMA OnlyHumanStatusConfirms ==
  ASSUME TypeOK, TargetInv, NEW r \in Requests, Step(r), ~HumanStatus(r),
         NEW c \in Cases, status'[c] = "NEED_HUMAN_CONFIRMATION"
  PROVE  status[c] = "NEED_HUMAN_CONFIRMATION"
<1> USE DEF TypeOK
<1>1. CASE \/ CreateChannelCase(r) \/ AddUserMessage(r) \/ AppendUserMessage(r) \/ AppendUpdate(r)
           \/ TransitionReady(r) \/ RefuseRequest(r)
  BY <1>1 DEF
     CreateChannelCase, AddUserMessage, AppendUserMessage, AppendUpdate,
     TransitionReady, RefuseRequest, StatusAfterUserMessage, ActiveStatuses
<1>2. CASE \/ ClaimCase(r) \/ StartRun(r) \/ WriteClaim(r) \/ Triage(r)
           \/ Classify(r) \/ DecisionGate(r) \/ Plan(r)
  BY <1>2 DEF
     ClaimCase, StartRun, WriteClaim, Triage, Classify, DecisionGate, Plan,
     ClaimedStatus
<1>3. CASE \/ AskUserStatus(r) \/ WaitReply(r) \/ WaitStatus(r) \/ DirectStart(r)
           \/ DirectAnswer(r) \/ DirectCaught(r) \/ ChatFinish(r) \/ ChatEvent(r)
           \/ HumanReply(r)
  BY <1>3 DEF
     AskUserStatus, WaitReply, WaitStatus, DirectStart, DirectAnswer,
     DirectCaught, ChatFinish, ChatEvent, HumanReply
<1>4. CASE \/ InvestigationStatus(r) \/ OpenInvestigation(r) \/ ToolStatus(r) \/ InvokeTool(r)
           \/ Summarize(r) \/ CloseInvestigation(r)
  BY <1>4 DEF
     InvestigationStatus, OpenInvestigation, ToolStatus, InvokeTool,
     Summarize, CloseInvestigation
<1>5. CASE \/ FinishRun(r) \/ FinishEvent(r) \/ Raise(r) \/ ExceptRun(r)
           \/ ExceptMessage(r) \/ ExceptStatus(r) \/ ExceptFails(r) \/ Finally(r)
  BY <1>5 DEF
     FinishRun, FinishEvent, Raise, ExceptRun, ExceptMessage, ExceptStatus,
     ExceptFails, Finally
<1> QED BY <1>1, <1>2, <1>3, <1>4, <1>5 DEF Step

(* A step of a request keeps what is known of its answer, and an answer it  *)
(* has given stays one.                                                     *)
LEMMA AnswerInvStep ==
  ASSUME TypeOK, AnswerInv, NEW r \in Requests, Step(r)
  PROVE  /\ AnswerSoFar(r)'
         /\ replied[r] /\ act[r] \in Answering => replied'[r] /\ act'[r] \in Answering
<1>0. AnswerSoFar(r)
  BY DEF AnswerInv
<1> USE DEF TypeOK, AnswerSoFar, BeforePlanPcs, SubmitPcs, WorkPcs, ClosePcs,
        ExceptPcs, FinallyPcs
<1>1. CASE Plan(r)
  <2>1. PICK a \in PlannedActions :
            /\ act' = [act EXCEPT ![r] = a]
            /\ pc' = [pc EXCEPT ![r] = Dispatch(a)]
    BY <1>1 DEF Plan
  <2>2. /\ Dispatch(a) \in {"ask_status", "inv_status", "human_reply"}
        /\ Dispatch(a) # "ask_status" => a \in Answering
    BY DispatchType DEF Dispatch, Answering
  <2> QED BY <1>0, <1>1, <2>1, <2>2 DEF Plan
<1>2. CASE HumanStatus(r)
  BY <1>0, <1>2 DEF HumanStatus
<1>3. CASE \/ CreateChannelCase(r) \/ AddUserMessage(r) \/ AppendUserMessage(r) \/ AppendUpdate(r)
           \/ TransitionReady(r) \/ RefuseRequest(r)
  BY <1>0, <1>3 DEF
     CreateChannelCase, AddUserMessage, AppendUserMessage, AppendUpdate,
     TransitionReady, RefuseRequest, Answering, PlannedActions, EndPcs
<1>4. CASE \/ ClaimCase(r) \/ StartRun(r) \/ WriteClaim(r) \/ Triage(r)
           \/ Classify(r) \/ DecisionGate(r)
  BY <1>0, <1>4 DEF
     ClaimCase, StartRun, WriteClaim, Triage, Classify, DecisionGate,
     Answering, PlannedActions, EndPcs
<1>5. CASE \/ AskUserStatus(r) \/ WaitReply(r) \/ WaitStatus(r) \/ DirectStart(r)
           \/ DirectAnswer(r) \/ DirectCaught(r) \/ ChatFinish(r) \/ ChatEvent(r)
           \/ HumanReply(r)
  BY <1>0, <1>5 DEF
     AskUserStatus, WaitReply, WaitStatus, DirectStart, DirectAnswer,
     DirectCaught, ChatFinish, ChatEvent, HumanReply, Answering, PlannedActions, EndPcs
<1>6. CASE \/ InvestigationStatus(r) \/ OpenInvestigation(r) \/ ToolStatus(r) \/ InvokeTool(r)
           \/ Summarize(r) \/ CloseInvestigation(r)
  BY <1>0, <1>6 DEF
     InvestigationStatus, OpenInvestigation, ToolStatus, InvokeTool,
     Summarize, CloseInvestigation, Answering, PlannedActions, EndPcs
<1>7. CASE \/ FinishRun(r) \/ FinishEvent(r) \/ Raise(r) \/ ExceptRun(r)
           \/ ExceptMessage(r) \/ ExceptStatus(r) \/ ExceptFails(r) \/ Finally(r)
  BY <1>0, <1>7 DEF
     FinishRun, FinishEvent, Raise, ExceptRun, ExceptMessage, ExceptStatus,
     ExceptFails, Finally, Answering, PlannedActions, EndPcs
<1> QED BY <1>1, <1>2, <1>3, <1>4, <1>5, <1>6, <1>7 DEF Step

LEMMA AnswerInvNext ==
  ASSUME TypeOK, TargetInv, AnswerInv, ConfirmationHasReply, [Next]_vars
  PROVE  (AnswerInv /\ ConfirmationHasReply)'
<1>1. ASSUME NEW r \in Requests, Step(r)
      PROVE  (AnswerInv /\ ConfirmationHasReply)'
  <2>1. AnswerInv'
    BY <1>1, AnswerInvStep, RecordsFrame DEF AnswerInv, AnswerSoFar
  <2>2. ASSUME NEW c \in Cases, status'[c] = "NEED_HUMAN_CONFIRMATION",
               status[c] = "NEED_HUMAN_CONFIRMATION"
        PROVE  \E q \in Requests : (/\ target[q] = c /\ replied[q]
                                    /\ act[q] \in Answering)'
    <3>1. PICK q \in Requests : target[q] = c /\ replied[q] /\ act[q] \in Answering
      BY <2>2 DEF ConfirmationHasReply, Answering
    <3>2. target'[q] = c /\ replied'[q] /\ act'[q] \in Answering
      BY <1>1, <3>1, AnswerInvStep, StepFrame, RecordsFrame
    <3> QED BY <3>2
  <2>3. CASE HumanStatus(r)
    <3>1. replied'[r] /\ act'[r] \in Answering
      BY <2>3 DEF HumanStatus, AnswerInv, AnswerSoFar
    <3>2. \A c \in Cases \ {target[r]} : status'[c] = status[c]
      BY <2>3 DEF HumanStatus, TypeOK
    <3>3. target'[r] = target[r]
      BY <2>3 DEF HumanStatus
    <3> QED BY <2>1, <2>2, <3>1, <3>2, <3>3 DEF ConfirmationHasReply, Answering
  <2>4. CASE ~HumanStatus(r)
    BY <1>1, <2>1, <2>2, <2>4, OnlyHumanStatusConfirms
       DEF ConfirmationHasReply, Answering
  <2> QED BY <2>3, <2>4
<1>2. ASSUME NEW r \in Requests, Submit(r)
      PROVE  (AnswerInv /\ ConfirmationHasReply)'
  <2>1. /\ pc[r] = "idle" /\ replied' = replied /\ act' = act
        /\ pc'[r] \in {"add_message", "append_message", "create_case", "duplicate"}
        /\ \A c \in Cases : status'[c] = "NEED_HUMAN_CONFIRMATION" =>
                            status[c] = "NEED_HUMAN_CONFIRMATION"
    BY <1>2 DEF Submit, SubmitChatNew, SubmitChatFollowUp, SubmitChannel, TypeOK
  <2>2. AnswerInv'
    BY <1>2, <2>1, RecordsFrame DEF AnswerInv, AnswerSoFar, BeforePlanPcs, SubmitPcs
  <2>3. ~replied[r]
    BY <2>1 DEF AnswerInv, AnswerSoFar, BeforePlanPcs
  <2> QED BY <1>2, <2>1, <2>2, <2>3, RecordsFrame DEF ConfirmationHasReply
<1>3. ASSUME NEW r \in Requests, Crash(r)
      PROVE  (AnswerInv /\ ConfirmationHasReply)'
  BY <1>3 DEF Crash, TypeOK, AnswerInv, AnswerSoFar, BeforePlanPcs, SubmitPcs,
     ConfirmationHasReply
<1>4. ASSUME NEW c \in Cases, DeleteCase(c)
      PROVE  (AnswerInv /\ ConfirmationHasReply)'
  BY <1>4 DEF DeleteCase, AnswerInv, AnswerSoFar, ConfirmationHasReply
<1>5. CASE UNCHANGED vars
  BY <1>5 DEF vars, AnswerInv, AnswerSoFar, ConfirmationHasReply
<1> QED BY <1>1, <1>2, <1>3, <1>4, <1>5 DEF Next, Quiescent

(* Whoever finds a case in NEED_HUMAN_CONFIRMATION finds an answer with it: *)
(* a request of that case that planned to answer has stored its reply,      *)
(* however many requests write the status and wherever processes die.       *)
THEOREM ConfirmationsHaveReplies == Spec => []ConfirmationHasReply
<1>1. Init => TypeOK /\ TargetInv /\ AnswerInv /\ ConfirmationHasReply
  BY TypeOKInit DEF Init, TargetInv, AnswerInv, AnswerSoFar, ConfirmationHasReply
<1>2. TypeOK /\ TargetInv /\ AnswerInv /\ ConfirmationHasReply /\ [Next]_vars
        => (TypeOK /\ TargetInv /\ AnswerInv /\ ConfirmationHasReply)'
  BY TypeOKNext, TargetInvNext, AnswerInvNext
<1> QED BY <1>1, <1>2, PTL DEF Spec
=============================================================================
