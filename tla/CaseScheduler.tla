---------------------------- MODULE CaseScheduler ----------------------------
(***************************************************************************)
(* The case state machine of agent_platform/case_scheduler.py: which case  *)
(* statuses may be claimed for processing.  The scheduler is pure: it reads *)
(* a status and returns a decision; nothing here writes the case.          *)
(***************************************************************************)

\* CLAIMABLE_STATUSES
ClaimableStatuses ==
    {"NEW", "NEED_MORE_INFO", "WAITING_USER_REPLY", "READY_TO_INVESTIGATE"}

\* ACTIVE_STATUSES of the scheduler: a worker is inside the investigation.
ActiveStatuses == {"INVESTIGATING", "WAITING_TOOL_RESULT"}

\* TERMINAL_STATUSES
TerminalStatuses == {"NEED_HUMAN_CONFIRMATION", "DONE", "FAILED"}

Statuses == ClaimableStatuses \cup ActiveStatuses \cup TerminalStatuses

\* Mutant: only the entry statuses of the documentation may be claimed.
AcceptedEntryOnly(s) == s \in {"NEW", "NEED_MORE_INFO", "WAITING_USER_REPLY"}

\* CaseScheduler.claim: is a case read in status s accepted?
Accepted(s) == s \in ClaimableStatuses

\* Mutant: a status no table of the scheduler knows.
ClaimedStatusUnknown == "READY"

\* CaseScheduler.claim: the status an accepted claim asks its caller to write.
ClaimedStatus == "READY_TO_INVESTIGATE"

(***************************************************************************)
(* The statuses in which the platform owes the user nothing more: it asked *)
(* the user something, handed the case to a human, or gave up.             *)
(***************************************************************************)
SettledStatuses == {"WAITING_USER_REPLY"} \cup TerminalStatuses

UnsettledStatuses == Statuses \ SettledStatuses
=============================================================================
