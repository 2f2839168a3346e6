--------------------------- MODULE TaskProperties ---------------------------
(***************************************************************************)
(* What makes the task orchestration correct: a type invariant, safety     *)
(* invariants, action properties, the liveness of a task, and the life     *)
(* cycle that TaskOrchestration implements.                                *)
(***************************************************************************)
EXTENDS TaskOrchestration

Message == [kind : {"final_summary", "terminal_result"},
            version : Nat, state : TaskState]

Event == [to : TaskState, version : Nat]

PlanTypeOK ==
  \/ plan = NoPlan
  \/ /\ plan = [version |-> plan.version, deps |-> plan.deps,
                status |-> plan.status]
     /\ plan.version \in Nat \ {0}
     /\ plan.deps \in Plans
     /\ plan.status \in [DOMAIN plan.deps -> StepStatus]

Operation ==
  [at : Working \cup Resting, seen : Row,
   previous : TaskState \cup {"none"}, turns : Nat,
   done : SUBSET Steps, wave : SUBSET Steps, step : Steps \cup {"none"},
   target : {"FAILED", "NEEDS_REVIEW", "CANCELLED"}]

\* Every variable holds a value of the kind its column or local holds.
TypeOK ==
  /\ task \in Row
  /\ timeline \in Seq(Event)
  /\ PlanTypeOK
  /\ DOMAIN calls \subseteq Nat \X Steps
  /\ calls \in [DOMAIN calls -> CallStatus]
  /\ reports \subseteq Nat
  /\ usage \in Nat
  /\ messages \in Seq(Message)
  /\ ran \subseteq Nat \X Steps
  /\ late \in Nat
  /\ process \in {"up", "stopping", "down"}
  /\ op \in Operation
  /\ canceller \in {"idle", "committed"}
  /\ crashes \in 0 .. MaxCrashes
  /\ lost \subseteq Nat

\* Whatever state a crash leaves in the row, startup recovery resumes the task,
\* leaves it alone, or may move it to NEEDS_REVIEW: recover() never raises an
\* InvalidStateTransition, which would keep the service from starting.
RecoveryNeverRaises ==
  process = "down" =>
    Settled \/ Resumable \/ LegalPath(task.state, <<"NEEDS_REVIEW">>)

\* A tool call left without an outcome by a crash, a shutdown or a cancellation
\* never has an operation working beside it: only the operation that is running
\* that very tool, or one already on its way out.
UncertainCallIsAlone ==
  \A k \in DOMAIN calls :
    calls[k] = "started" =>
      \/ op.at \in Resting
      \/ op.at = "running" /\ k = IdempotencyKey

\* A tool is let loose at most once per idempotency key, whatever crashes,
\* restarts and resumptions happen between the call and its outcome.
ToolRunsOnce ==
  [][op.at # "running" /\ op'.at = "running" => IdempotencyKey' \notin ran]_vars

\* The step records, by which execute judges what is done, and the tool calls, by
\* which recovery judges what is uncertain, tell the same story of the latest
\* plan.
RecordsAgree ==
  \A s \in DOMAIN plan.status :
    IF <<plan.version, s>> \in DOMAIN calls
    THEN plan.status[s] = IF calls[<<plan.version, s>>] = "started"
                          THEN "running" ELSE calls[<<plan.version, s>>]
    ELSE plan.status[s] = "pending"

\* A step has been started only when everything it depends on has succeeded,
\* also when the plan is picked up again after a restart.
DependenciesFirst ==
  \A s \in DOMAIN plan.status :
    plan.status[s] # "pending" =>
      \A d \in plan.deps[s] : plan.status[d] = "succeeded"

\* A task that succeeded has a verification report for its latest plan, and no
\* call of any of its plans is left without an outcome.
SuccessIsAccounted ==
  task.state = "SUCCEEDED" =>
    /\ plan.version \in reports
    /\ \A k \in DOMAIN calls : calls[k] # "started"

\* While a task may still run tools or has succeeded, the usage recorded for all
\* its model calls is within the budget.
WithinBudget ==
  task.state \in {"EXECUTING", "VERIFYING", "REPLANNING", "SUCCEEDED"} =>
    usage <= Budget

\* The two RuntimeErrors that guard the state loop of _run never fire: every
\* turn changes the state, and 3 + 2 * max_revisions turns are enough.
LoopIsBounded == op.at = "loop" => ~LoopFault

\* Once a cancellation is committed at most one more tool starts: the one whose
\* cancellation check had just passed.
CancelStopsTools == late <= 1

\* A terminal state is left only by the operation that read the row, before the
\* cancellation committed, without locking it.
TerminalIsLeftOnlyByStaleStart ==
  [][task.state \in TERMINAL_STATES /\ task'.state # task.state =>
       /\ task.state = "CANCELLED" /\ task'.state = "ANALYZING"
       /\ op.at = "snapshot" /\ op.seen.version = task'.version - 1]_vars

\* What validate_transition is there for: no step leaves a terminal state.
TerminalIsFinal ==
  [][task.state \in TERMINAL_STATES => task'.state = task.state]_vars

\* Even when the cancelled row was overwritten, a task whose cancellation was
\* acknowledged never gets to verification, and so never succeeds.
CancelledNeverVerifies ==
  [][task.cancelRequested /\ task'.state # task.state =>
       task'.state \notin {"VERIFYING", "REPLANNING", "SUCCEEDED"}]_vars

\* A final summary reports a transition that is on the timeline, unless the
\* commit it was written for was lost.
SummaryIsOnTimeline ==
  \A i \in DOMAIN messages :
    messages[i].kind = "final_summary" =>
      \/ messages[i].version \in lost
      \/ \E j \in DOMAIN timeline :
           timeline[j] = [to |-> messages[i].state,
                          version |-> messages[i].version]

\* Two transitions committed under the same version: the later one overwrote
\* a cancellation that its session had not seen.
Overwritten == Len(timeline) > task.version - 1

\* A task that is created is eventually settled. The two exceptions both leave
\* it without an operation until the next start: the transaction that was to
\* settle it failed, or the operation that overwrote a cancellation was then
\* interrupted, by that same cancellation, inside _finish.
Settles ==
  ~Settled ~> Settled \/ (op.at = "idle" /\ (lost # {} \/ Overwritten))

Lifecycle == INSTANCE TaskLifecycle WITH
  state <- task.state,
  planVersion <- plan.version,
  cancelled <- task.cancelRequested

\* What a client sees of the row follows the abstract life cycle.
RefinesLifecycle == Lifecycle!Spec

=============================================================================
