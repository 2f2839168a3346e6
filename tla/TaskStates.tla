----------------------------- MODULE TaskStates -----------------------------
(***************************************************************************)
(* The task state machine shared by every writer of the tasks table: the   *)
(* states, the terminal ones, and the transition relation that             *)
(* validate_transition enforces (orchestrator/state_machine.py).           *)
(***************************************************************************)

EXTENDS Integers

TaskState ==
  {"PENDING", "ANALYZING", "PLANNING", "POLICY_CHECK", "WAITING_CONFIRMATION",
   "EXECUTING", "VERIFYING", "REPLANNING", "NEEDS_REVIEW", "SUCCEEDED",
   "FAILED", "CANCELLED", "REJECTED", "BUDGET_EXCEEDED"}

TERMINAL_STATES ==
  {"SUCCEEDED", "FAILED", "CANCELLED", "REJECTED", "BUDGET_EXCEEDED"}

\* Every state that is neither terminal nor waiting may be failed, cancelled
\* or stopped for its budget; _ALLOWED repeats the three in each row.
Abort == {"FAILED", "CANCELLED", "BUDGET_EXCEEDED"}

Allowed(s) ==
  CASE s = "PENDING"      -> {"ANALYZING", "REJECTED"} \cup Abort
    [] s = "ANALYZING"    -> {"PLANNING", "NEEDS_REVIEW"} \cup Abort
    [] s = "PLANNING"     -> {"POLICY_CHECK", "NEEDS_REVIEW"} \cup Abort
    [] s = "POLICY_CHECK" -> {"EXECUTING", "REJECTED"} \cup Abort
    [] s = "WAITING_CONFIRMATION" ->
         {"EXECUTING", "REJECTED", "CANCELLED", "BUDGET_EXCEEDED"}
    [] s = "EXECUTING"    -> {"VERIFYING", "NEEDS_REVIEW"} \cup Abort
    [] s = "VERIFYING"    ->
         {"SUCCEEDED", "REPLANNING", "NEEDS_REVIEW"} \cup Abort
    [] s = "REPLANNING"   -> {"POLICY_CHECK", "NEEDS_REVIEW"} \cup Abort
    [] s = "NEEDS_REVIEW" ->
         {"ANALYZING", "PLANNING", "POLICY_CHECK", "REJECTED", "CANCELLED",
          "FAILED"}
    [] OTHER -> {}

\* A transaction may pass through several states before it commits.
LegalPath(s, path) ==
  \A i \in DOMAIN path :
    path[i] \in Allowed(IF i = 1 THEN s ELSE path[i - 1])

=============================================================================
