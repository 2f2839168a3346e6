---------------------------- MODULE TaskInductive ---------------------------
(***************************************************************************)
(* The inductive invariant behind the theorems of TaskProofs,              *)
(* TaskSafetyProofs and TaskLifecycleProofs, as parts that each say what   *)
(* one stage of the operation, one kind of row or one table can rely on.   *)
(***************************************************************************)
EXTENDS TaskProperties

\* The step a tool call is made for is a step of some plan.
InvStep == op.at \in {"checked", "running"} => op.step \in Steps

\* Nothing has been planned, run or paid for.
Fresh == plan = NoPlan /\ calls = Empty /\ usage = 0

SeenStates ==
  {"PENDING", "ANALYZING", "EXECUTING", "VERIFYING", "REPLANNING",
   "NEEDS_REVIEW"} \cup TERMINAL_STATES

\* Where execute is.
Executing == {"execute", "step", "checked", "running", "stepsDone"}

\* The states the row may be in while the operation is at a stage. Only the
\* cancel endpoint writes the row beside a working operation.
InvRow ==
  /\ task.state \in SeenStates
  /\ op.at \in {"unscheduled", "start", "snapshot"} =>
       task.state \in {"PENDING", "CANCELLED"}
  /\ op.at = "scheduled" => task.state \in {"PENDING", "EXECUTING", "CANCELLED"}
  /\ op.at = "planning" => task.state \in {"ANALYZING", "CANCELLED"}
  /\ op.at \in Executing => task.state \in {"EXECUTING", "CANCELLED"}
  /\ op.at = "verifying" => task.state \in {"VERIFYING", "CANCELLED"}
  /\ op.at \in {"replan", "replanning"} => task.state \in {"REPLANNING", "CANCELLED"}
  /\ op.at = "loop" => task.state \notin {"ANALYZING", "VERIFYING"}

\* Which rows have a plan, and where nothing has happened yet.
InvFresh ==
  /\ task.state \in {"PENDING", "ANALYZING"} => Fresh
  /\ op.at \in {"unscheduled", "start", "snapshot", "planning"} => Fresh
  /\ task.state \in {"EXECUTING", "VERIFYING", "REPLANNING", "SUCCEEDED"} =>
       plan # NoPlan

\* What the flag rules out, and what the session that read the row may believe.
InvCancel ==
  /\ task.cancelRequested =>
       task.state \in {"ANALYZING", "EXECUTING", "NEEDS_REVIEW"}
                        \cup TERMINAL_STATES
  /\ task.state = "CANCELLED" /\ op.at \in {"start", "snapshot"} =>
       task.cancelRequested
  /\ op.at = "snapshot" /\ op.seen.state = "PENDING" => ~op.seen.cancelRequested
  /\ op.at = "snapshot" => op.seen.state \in {"PENDING", "CANCELLED"}

\* A cancelled task that executes after all does not get past its first check.
InvRevived ==
  task.cancelRequested /\ task.state = "EXECUTING" =>
    /\ op.at \notin {"checked", "running", "stepsDone"}
    /\ \A s \in DOMAIN plan.status : plan.status[s] = "pending"

\* A task under review is left there unless it is being cancelled.
InvFailing ==
  op.at = "failing" /\ task.state = "NEEDS_REVIEW" => op.target = "CANCELLED"

\* Only a plan with a revision left is replanned.
InvReplan == op.at = "replanning" => plan.version < 1 + MaxRevisions

\* A recorded effect has a recorded call; no call is open beside a working
\* operation except the one it is running.
InvCalls ==
  /\ ran \subseteq DOMAIN calls
  /\ UncertainCallIsAlone

InvLate ==
  /\ late <= 1
  /\ late = 1 => task.cancelRequested /\ op.at # "checked"

\* No call belongs to a later plan than the latest.
InvRecords ==
  /\ \A k \in DOMAIN calls : k[1] <= plan.version
  /\ RecordsAgree

\* The locals of execute agree with the step records.
InvSteps ==
  op.at \in {"step", "checked", "running"} =>
    /\ op.done = {s \in DOMAIN plan.status : plan.status[s] = "succeeded"}
    /\ op.wave \subseteq DOMAIN plan.status \ op.done
    /\ \A s \in op.wave : plan.deps[s] \subseteq op.done
    /\ op.at # "step" => op.step \in op.wave

\* How many plans the turns of the loop may have been spent on.
Accepted == IF plan.version > 1 + MaxRevisions THEN 1 + MaxRevisions
                                               ELSE plan.version

\* The variables of the loop while each handler runs, and how many turns the
\* row's state accounts for when the next one starts.
InvTurns ==
  /\ op.at \in {"unscheduled", "scheduled"} => op.previous = "none"
  /\ op.at \in {"start", "snapshot", "planning"} =>
       op.previous = "PENDING" /\ op.turns = 0
  /\ op.at \in Executing \cup {"verifying"} =>
       op.previous = "EXECUTING" /\ op.turns <= 2 * Accepted - 1
  /\ op.at \in {"replan", "replanning"} =>
       op.previous = "REPLANNING" /\ op.turns <= 2 * Accepted
  /\ op.at = "loop" =>
       /\ op.previous \in {"none", "PENDING", "EXECUTING", "REPLANNING"}
       /\ task.state # op.previous
       /\ Turns <= MaxTransitions
       /\ task.state = "PENDING" => Turns = 0
       /\ task.state = "EXECUTING" => Turns <= 2 * Accepted - 1
       /\ task.state = "REPLANNING" => Turns <= 2 * Accepted

=============================================================================
