--------------------------- MODULE TaskLifecycle ----------------------------
(***************************************************************************)
(* What the service promises a client that only reads GET /tasks/{id}: the *)
(* states a task is seen in, the version of its accepted plan, and whether *)
(* its cancellation was acknowledged.  Nothing here mentions operations,   *)
(* sessions, crashes or messages; TaskOrchestration implements it.         *)
(***************************************************************************)
EXTENDS TaskStates, Integers

CONSTANTS FirstVersions, MaxRevisions

VARIABLES state, planVersion, cancelled

view == <<state, planVersion, cancelled>>

Init ==
  /\ state = "PENDING"
  /\ planVersion = 0
  /\ cancelled = FALSE

\* A pending task is analysed.
Begin ==
  /\ state = "PENDING"
  /\ state' = "ANALYZING"
  /\ UNCHANGED <<planVersion, cancelled>>

\* The promise that cannot be kept: a task cancelled as it starts may come back,
\* before it has any plan, with its cancellation still on record.
Revive ==
  /\ state = "CANCELLED" /\ cancelled /\ planVersion = 0
  /\ state' = "ANALYZING"
  /\ UNCHANGED <<planVersion, cancelled>>

\* The first plan is accepted; PLANNING and POLICY_CHECK are never seen.
AcceptPlan ==
  /\ state = "ANALYZING" /\ planVersion = 0
  /\ state' = "EXECUTING"
  /\ planVersion' \in FirstVersions
  /\ UNCHANGED cancelled

\* Only a task nobody cancelled gets to verification.
Verify ==
  /\ state = "EXECUTING" /\ ~cancelled
  /\ state' = "VERIFYING"
  /\ UNCHANGED <<planVersion, cancelled>>

Succeed ==
  /\ state = "VERIFYING" /\ ~cancelled
  /\ state' = "SUCCEEDED"
  /\ UNCHANGED <<planVersion, cancelled>>

Revise ==
  /\ state = "VERIFYING" /\ ~cancelled
  /\ state' = "REPLANNING"
  /\ UNCHANGED <<planVersion, cancelled>>

\* Revisions are numbered one by one and stop at the contract's limit.
AcceptRevision ==
  /\ state = "REPLANNING" /\ ~cancelled
  /\ planVersion <= MaxRevisions
  /\ state' = "EXECUTING"
  /\ planVersion' = planVersion + 1
  /\ UNCHANGED cancelled

\* A model answer puts the task over its budget.
Overspend ==
  /\ state \in {"ANALYZING", "VERIFYING", "REPLANNING"}
  /\ state' = "BUDGET_EXCEEDED"
  /\ UNCHANGED <<planVersion, cancelled>>

\* The work stops without a result; a pending task is never parked, and a task
\* under review is failed by nobody.
GiveUp ==
  /\ state \in {"PENDING", "ANALYZING", "EXECUTING", "VERIFYING", "REPLANNING",
                "NEEDS_REVIEW"}
  /\ \/ state' = "CANCELLED"
     \/ state' = "FAILED" /\ state # "NEEDS_REVIEW"
     \/ state' = "NEEDS_REVIEW" /\ state \notin {"PENDING", "NEEDS_REVIEW"}
  /\ UNCHANGED <<planVersion, cancelled>>

\* The user cancels: acknowledged in any state, effective in a live one.
Cancel ==
  /\ cancelled' = TRUE
  /\ state' = IF state \in TERMINAL_STATES THEN state ELSE "CANCELLED"
  /\ UNCHANGED planVersion

Next ==
  \/ Begin \/ Revive \/ AcceptPlan \/ Verify \/ Succeed \/ Revise
  \/ AcceptRevision \/ Overspend \/ GiveUp \/ Cancel

Spec == Init /\ [][Next]_view

=============================================================================
