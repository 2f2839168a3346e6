------------------------- MODULE TaskOrchestration --------------------------
(***************************************************************************)
(* One task from its creation to its settlement: the tasks row and the     *)
(* records the orchestrator keeps beside it, the background operation that *)
(* Coordinator runs for it (plan, execute, verify, replan, finish), the    *)
(* cancel endpoint, shutdown, crash and startup recovery.                  *)
(*                                                                         *)
(* A transaction is one step when its first read locks the row; the one    *)
(* that reads without the lock (OrchestratorService.run) is two steps.     *)
(* Between two awaits of the operation anything else may happen.           *)
(***************************************************************************)
EXTENDS TaskStates, Integers, Sequences, FiniteSets

CONSTANTS
  Plans,          \* plans the model may return: step -> steps it depends on
  FirstVersions,  \* version numbers the model may give its first plan
  MaxRevisions,   \* contract.budget.max_revisions
  Costs,          \* what one model call may cost
  Budget,         \* contract.budget.max_tokens
  MaxCrashes,     \* bound: crashes and shutdowns explored
  MaxLost         \* bound: commits that fail after their message is out

Steps == UNION {DOMAIN p : p \in Plans}

\* Every dependency is a step of the plan, and some step of any unfinished
\* remainder is ready: what ExecutionPlan.validate_dag establishes.
Wellfounded(p) ==
  /\ DOMAIN p # {}
  /\ \A s \in DOMAIN p : p[s] \subseteq DOMAIN p
  /\ \A rest \in SUBSET DOMAIN p :
       rest # {} => \E s \in rest : p[s] \cap rest = {}

ASSUME PlansAssumption == \A p \in Plans : Wellfounded(p)
ASSUME NumbersAssumption ==
  /\ FirstVersions \subseteq Nat \ {0}
  /\ Costs \subseteq Nat
  /\ MaxRevisions \in Nat
  /\ Budget \in Nat
  /\ MaxCrashes \in Nat
  /\ MaxLost \in Nat

VARIABLES
  task,       \* tasks row: state, version, cancelRequested
  timeline,   \* task_events: state and version of every transition
  plan,       \* latest execution_plans row with its execution_steps
  calls,      \* tool_calls: status by idempotency key <<plan version, step>>
  reports,    \* plan versions that have a verification_reports row
  usage,      \* sum of the task's usage_records
  messages,   \* final_summary and terminal_result messages in the JSON store
  ran,        \* idempotency keys whose tool has been let loose (the world)
  late,       \* tools started after a cancellation was committed (the world)
  process,    \* "up", "stopping", "down"
  op,         \* Coordinator._run of this task: where it awaits, its locals
  canceller,  \* cancel endpoint: "committed" until coordinator.cancel runs
  crashes,    \* crashes and shutdowns so far
  lost        \* versions whose commit failed after their message was stored

durable == <<task, timeline, plan, calls, reports, usage>>
world   == <<ran, late>>
bounds  == <<crashes, lost>>
vars    == <<durable, messages, world, process, op, canceller, bounds>>
-----------------------------------------------------------------------------
(* Where the operation awaits.                                             *)

\* The exception path of a cancelled model call differs from the others.
ModelCalls == {"planning", "verifying", "replanning"}

Working == ModelCalls \cup
  {"scheduled", "loop", "start", "snapshot", "execute", "step", "checked",
   "running", "stepsDone", "replan"}

\* No operation, or one that has nothing left to do for the task.
Resting == {"unscheduled", "idle", "failing", "announcing"}

Row == [state : TaskState, version : Nat, cancelRequested : BOOLEAN]

StepStatus == {"pending", "running", "succeeded", "failed"}
CallStatus == {"started", "succeeded", "failed"}
Verdicts   == {"passed", "failed", "needs_review", "replan"}

Empty == [x \in {} |-> x]

NoPlan == [version |-> 0, deps |-> Empty, status |-> Empty]

\* Mutant of NewPlan: plan versions counted from zero.
NewPlanFromZero(version, p) ==
  [version |-> version - 1, deps |-> p,
   status |-> [s \in DOMAIN p |-> "pending"]]

NewPlan(version, p) ==
  [version |-> version, deps |-> p, status |-> [s \in DOMAIN p |-> "pending"]]

NoOperation(at, snapshot) ==
  [at |-> at, seen |-> snapshot, previous |-> "none", turns |-> 0,
   done |-> {}, wave |-> {}, step |-> "none", target |-> "FAILED"]

Init ==
  /\ task = [state |-> "PENDING", version |-> 1, cancelRequested |-> FALSE]
  /\ timeline = <<>>
  /\ plan = NoPlan
  /\ calls = Empty
  /\ reports = {}
  /\ usage = 0
  /\ messages = <<>>
  /\ ran = {}
  /\ late = 0
  /\ process = "up"
  /\ op = NoOperation("unscheduled", task)
  /\ canceller = "idle"
  /\ crashes = 0
  /\ lost = {}
-----------------------------------------------------------------------------
(* Transactions on the tasks row.                                          *)

\* TaskRepository.transition, once per state of the path, in one commit.
Moves(from, path) ==
  /\ task' = [task EXCEPT !.state = path[Len(path)],
                          !.version = from.version + Len(path)]
  /\ timeline' = timeline \o
       [i \in DOMAIN path |-> [to |-> path[i], version |-> from.version + i]]

\* Mutant of Commits: validate_transition is not called.
CommitsUnvalidated(path) == Moves(task, path)

Commits(path) == LegalPath(task.state, path) /\ Moves(task, path)

\* Mutant of Summary: numbered with the version read before the transition.
SummaryOfOldVersion(version, state) ==
  [kind |-> "final_summary", version |-> version - 1, state |-> state]

\* FinalSummaryService.add and the terminal_result append, deduplicated by
\* source_id: the version for a summary, the state for a terminal result.
Summary(version, state) ==
  [kind |-> "final_summary", version |-> version, state |-> state]

TerminalResult(state) ==
  [kind |-> "terminal_result", version |-> 0, state |-> state]

SameSource(m, n) ==
  /\ m.kind = n.kind
  /\ IF m.kind = "final_summary" THEN m.version = n.version
                                 ELSE m.state = n.state

Stored(m) == \E i \in DOMAIN messages : SameSource(messages[i], m)

Publish(m) == messages' = IF Stored(m) THEN messages ELSE Append(messages, m)

\* The operation leaves its try block through an exception handler.
Raise(target) == op' = [op EXCEPT !.at = "failing", !.target = target]

Goto(at) == op' = [op EXCEPT !.at = at]

\* InvalidStateTransition: the transaction rolls back and _run fails the task.
Refused(path) ==
  /\ ~LegalPath(task.state, path)
  /\ Raise("FAILED")
  /\ UNCHANGED durable

OperationOnly == UNCHANGED <<durable, messages, world, process, canceller, bounds>>
-----------------------------------------------------------------------------
(* Coordinator: scheduling and the bounded state loop.                     *)

\* create_task has committed the row; the handler now schedules it.
Schedule ==
  /\ process = "up"
  /\ op.at = "unscheduled"
  /\ Goto("scheduled")
  /\ OperationOnly

\* The first reads of _run happen before its try block.
Begin ==
  /\ op.at = "scheduled"
  /\ Goto("loop")
  /\ OperationOnly

\* Mutant of MaxTransitions: one turn short.
MaxTransitionsShort == 2 + 2 * MaxRevisions

MaxTransitions == 3 + 2 * MaxRevisions

\* The two RuntimeErrors of the loop: no progress, and too many turns.
Turns == IF op.previous = "none" THEN 0 ELSE op.turns + 1
LoopFault == task.state = op.previous \/ Turns > MaxTransitions

Handler(s) ==
  CASE s = "PENDING"    -> "start"
    [] s = "EXECUTING"  -> "execute"
    [] s = "REPLANNING" -> "replan"
    [] OTHER            -> "idle"

ReadState ==
  /\ op.at = "loop"
  /\ op' = [op EXCEPT !.at = IF LoopFault THEN "failing" ELSE Handler(task.state),
                      !.previous = task.state,
                      !.turns = Turns,
                      !.target = "FAILED"]
  /\ OperationOnly
-----------------------------------------------------------------------------
(* OrchestratorService.run.                                                *)

\* The row is read without a lock into the session's identity map.
ReadTask ==
  /\ op.at = "start"
  /\ op' = [op EXCEPT !.at = "snapshot", !.seen = task]
  /\ OperationOnly

\* transition() re-selects the row FOR UPDATE, but the session already holds
\* the object and keeps its attributes: version and state are those of ReadTask,
\* and the UPDATE overwrites whatever was committed in between.
StartAnalysis ==
  LET target == IF op.seen.cancelRequested THEN "CANCELLED" ELSE "ANALYZING" IN
  /\ op.at = "snapshot"
  /\ \/ /\ LegalPath(op.seen.state, <<target>>)
        /\ Moves(op.seen, <<target>>)
        /\ Goto(IF target = "ANALYZING" THEN "planning" ELSE "loop")
     \/ /\ ~LegalPath(op.seen.state, <<target>>)
        /\ Raise("FAILED")
        /\ UNCHANGED <<task, timeline>>
  /\ UNCHANGED <<plan, calls, reports, usage, messages, world, process,
                 canceller, bounds>>

\* Mutant of PlanPath: the accepted plan is committed before the task executes.
PlanPathHalf == <<"PLANNING", "POLICY_CHECK">>

PlanPath == <<"PLANNING", "POLICY_CHECK", "EXECUTING">>

\* supervisor_plan has answered with plan p at some cost.
PlanAnswered(p, version, cost) ==
  /\ op.at = "planning"
  /\ \/ /\ cost <= Budget
        /\ Commits(PlanPath)
        /\ plan' = NewPlan(version, p)
        /\ usage' = usage + cost
        /\ Goto("loop")
        /\ UNCHANGED <<calls, reports>>
     \/ /\ cost > Budget
        /\ Commits(<<"BUDGET_EXCEEDED">>)
        /\ usage' = usage + cost
        /\ Goto("loop")
        /\ UNCHANGED <<plan, calls, reports>>
     \/ Refused(IF cost > Budget THEN <<"BUDGET_EXCEEDED">> ELSE PlanPath)
  /\ UNCHANGED <<messages, world, process, canceller, bounds>>

\* The model, its parser or validate_plan raises; the usage is not recorded.
ModelCallFails ==
  /\ op.at \in ModelCalls
  /\ Raise("FAILED")
  /\ OperationOnly
-----------------------------------------------------------------------------
(* ExecutionService.execute.                                               *)

Uncertain(p) == \E s \in DOMAIN p.status : p.status[s] \in {"running", "failed"}

\* Mutant of NextWave: every remaining step is taken for ready.
NextWaveUnordered(o, done) ==
  LET rest == DOMAIN plan.deps \ done
  IN [o EXCEPT !.done = done,
               !.wave = rest,
               !.at = IF rest = {} THEN "stepsDone" ELSE "step",
               !.target = "FAILED"]

\* The top of execute's while loop, given the steps completed so far.
NextWave(o, done) ==
  LET rest  == DOMAIN plan.deps \ done
      ready == {s \in rest : plan.deps[s] \subseteq done}
  IN [o EXCEPT !.done = done,
               !.wave = ready,
               !.at = IF rest = {} THEN "stepsDone"
                      ELSE IF ready = {} THEN "failing" ELSE "step",
               !.target = "FAILED"]

LoadExecution ==
  /\ op.at = "execute"
  /\ \/ /\ task.state = "EXECUTING" /\ ~Uncertain(plan)
        /\ op' = NextWave(op, {s \in DOMAIN plan.status :
                                  plan.status[s] = "succeeded"})
     \/ /\ task.state # "EXECUTING" \/ Uncertain(plan)
        /\ Raise("FAILED")
  /\ OperationOnly

\* Mutant of CheckCancelled: the flag is not looked at.
SkipCancelCheck(s) ==
  /\ op.at = "step"
  /\ s \in op.wave
  /\ op' = [op EXCEPT !.at = "checked", !.step = s]
  /\ OperationOnly

CheckCancelled(s) ==
  /\ op.at = "step"
  /\ s \in op.wave
  /\ \/ /\ ~task.cancelRequested
        /\ op' = [op EXCEPT !.at = "checked", !.step = s]
     \/ /\ task.cancelRequested
        /\ Raise("FAILED")
  /\ OperationOnly

IdempotencyKey == <<plan.version, op.step>>

\* After a step succeeded: the rest of the wave, then the next wave.
StepSucceeded ==
  LET o == [op EXCEPT !.wave = @ \ {op.step}, !.done = @ \cup {op.step}] IN
  op' = IF o.wave # {} THEN [o EXCEPT !.at = "step"] ELSE NextWave(o, o.done)

Put(f, k, v) == [x \in DOMAIN f \cup {k} |-> IF x = k THEN v ELSE f[x]]

\* Mutant of RecordStep: an existing call keeps its first status.
RecordStepOnce(callStatus, stepStatus) ==
  /\ calls' = IF IdempotencyKey \in DOMAIN calls THEN calls
              ELSE Put(calls, IdempotencyKey, callStatus)
  /\ plan' = [plan EXCEPT !.status[op.step] = stepStatus]

RecordStep(callStatus, stepStatus) ==
  /\ calls' = Put(calls, IdempotencyKey, callStatus)
  /\ plan' = [plan EXCEPT !.status[op.step] = stepStatus]

\* Mutant of StartTool: the call is recorded only with its outcome.
StartToolUnrecorded ==
  /\ op.at = "checked"
  /\ Goto("running")
  /\ ran' = ran \cup {IdempotencyKey}
  /\ late' = IF task.cancelRequested THEN late + 1 ELSE late
  /\ UNCHANGED <<durable, messages, process, canceller, bounds>>

\* The call is recorded as started and committed before the tool runs. A call
\* already on record is replayed when it succeeded and refused otherwise.
StartTool ==
  /\ op.at = "checked"
  /\ IF IdempotencyKey \notin DOMAIN calls
     THEN /\ RecordStep("started", "running")
          /\ Goto("running")
          /\ ran' = ran \cup {IdempotencyKey}
          /\ late' = IF task.cancelRequested THEN late + 1 ELSE late
     ELSE /\ IF calls[IdempotencyKey] = "succeeded" THEN StepSucceeded
                                                    ELSE Raise("FAILED")
          /\ UNCHANGED <<calls, plan, world>>
  /\ UNCHANGED <<task, timeline, reports, usage, messages, process, canceller,
                 bounds>>

ToolSucceeds ==
  /\ op.at = "running"
  /\ RecordStep("succeeded", "succeeded")
  /\ StepSucceeded
  /\ UNCHANGED <<task, timeline, reports, usage, messages, world, process,
                 canceller, bounds>>

\* A check command that exits non-zero ends the loop and goes to verification.
CheckFails ==
  /\ op.at = "running"
  /\ RecordStep("failed", "failed")
  /\ Goto("stepsDone")
  /\ UNCHANGED <<task, timeline, reports, usage, messages, world, process,
                 canceller, bounds>>

\* The tool raises; a broken workspace precondition asks for a review instead.
ToolRaises(target) ==
  /\ op.at = "running"
  /\ target \in {"FAILED", "NEEDS_REVIEW"}
  /\ RecordStep("failed", "failed")
  /\ Raise(target)
  /\ UNCHANGED <<task, timeline, reports, usage, messages, world, process,
                 canceller, bounds>>

EnterVerifying ==
  /\ op.at = "stepsDone"
  /\ \/ Commits(<<"VERIFYING">>) /\ Goto("verifying")
        /\ UNCHANGED <<plan, calls, reports, usage>>
     \/ Refused(<<"VERIFYING">>)
  /\ UNCHANGED <<messages, world, process, canceller, bounds>>

\* "replan" is the verdict "failed" with the recommendation to replan.
VerdictState(verdict) ==
  CASE verdict = "passed"       -> "SUCCEEDED"
    [] verdict = "failed"       -> "FAILED"
    [] verdict = "needs_review" -> "NEEDS_REVIEW"
    [] verdict = "replan"       -> "REPLANNING"

\* Mutant of VerdictTarget: a passing verdict overrides the budget.
VerdictTargetLenient(verdict, total) ==
  IF total > Budget /\ verdict # "passed" THEN "BUDGET_EXCEEDED"
  ELSE VerdictState(verdict)

VerdictTarget(verdict, total) ==
  IF total > Budget THEN "BUDGET_EXCEEDED"
  ELSE VerdictState(verdict)

\* supervisor_verify has answered: usage, report, transition and final summary.
VerdictAnswered(verdict, cost) ==
  LET target == VerdictTarget(verdict, usage + cost) IN
  /\ op.at = "verifying"
  /\ \/ /\ Commits(<<target>>)
        /\ usage' = usage + cost
        /\ reports' = reports \cup {plan.version}
        /\ IF target = "REPLANNING" THEN UNCHANGED messages
           ELSE Publish(Summary(task.version + 1, target))
        /\ Goto("loop")
        /\ UNCHANGED <<plan, calls>>
     \/ Refused(<<target>>) /\ UNCHANGED messages
  /\ UNCHANGED <<world, process, canceller, bounds>>
-----------------------------------------------------------------------------
(* OrchestratorService.replan.                                             *)

\* Mutant of Exhausted: one revision too many.
ExhaustedLate == plan.version > 1 + MaxRevisions

Exhausted == plan.version >= 1 + MaxRevisions

LoadReplan ==
  /\ op.at = "replan"
  /\ \/ /\ task.state = "REPLANNING" /\ Exhausted
        /\ Commits(<<"NEEDS_REVIEW">>)
        /\ Goto("loop")
     \/ /\ task.state = "REPLANNING" /\ ~Exhausted
        /\ IF plan.version \in reports THEN Goto("replanning")
                                       ELSE Raise("FAILED")
        /\ UNCHANGED <<task, timeline>>
     \/ /\ task.state # "REPLANNING"
        /\ Raise("FAILED")
        /\ UNCHANGED <<task, timeline>>
  /\ UNCHANGED <<plan, calls, reports, usage, messages, world, process,
                 canceller, bounds>>

ReplanPath == <<"POLICY_CHECK", "EXECUTING">>

\* supervisor_replan has answered; the budget is checked on the task's total.
ReplanAnswered(p, cost) ==
  LET over == usage + cost > Budget IN
  /\ op.at = "replanning"
  /\ \/ /\ ~over
        /\ Commits(ReplanPath)
        /\ plan' = NewPlan(plan.version + 1, p)
        /\ usage' = usage + cost
        /\ Goto("loop")
        /\ UNCHANGED <<calls, reports>>
     \/ /\ over
        /\ Commits(<<"BUDGET_EXCEEDED">>)
        /\ usage' = usage + cost
        /\ Goto("loop")
        /\ UNCHANGED <<plan, calls, reports>>
     \/ Refused(IF over THEN <<"BUDGET_EXCEEDED">> ELSE ReplanPath)
  /\ UNCHANGED <<messages, world, process, canceller, bounds>>
-----------------------------------------------------------------------------
(* Coordinator._finish.                                                    *)

\* A settled task, or a target the state machine refuses, is left alone; no
\* summary is written for CANCELLED.
Finish ==
  /\ op.at = "failing"
  /\ \/ /\ Commits(<<op.target>>)
        /\ IF op.target = "CANCELLED"
           THEN Goto("idle") /\ UNCHANGED messages
           ELSE /\ Publish(Summary(task.version + 1, op.target))
                /\ Goto("announcing")
     \/ /\ ~LegalPath(task.state, <<op.target>>)
        /\ Goto("idle")
        /\ UNCHANGED <<task, timeline, messages>>
  /\ UNCHANGED <<plan, calls, reports, usage, world, process, canceller, bounds>>

\* After the commit, the terminal_result message goes to the JSON store.
Announce ==
  /\ op.at = "announcing"
  /\ Publish(TerminalResult(op.target))
  /\ Goto("idle")
  /\ UNCHANGED <<durable, world, process, canceller, bounds>>
-----------------------------------------------------------------------------
(* Cancellation and shutdown.                                              *)

\* operation.cancel(): outside the try block, inside _finish and after it the
\* CancelledError just ends the operation; a model call may turn it into
\* AgentAbortedError, which _run treats as any failure.
Interrupted ==
  \/ /\ op.at \in {"unscheduled", "idle"}
     /\ op' = op
  \/ /\ op.at \in {"scheduled", "failing", "announcing"}
     /\ Goto("idle")
  \/ /\ op.at \in Working \ {"scheduled"}
     /\ Raise("CANCELLED")
  \/ /\ op.at \in ModelCalls
     /\ Raise("FAILED")

\* TaskService.cancel: flag, transition and summary in one locked transaction.
CancelTask ==
  /\ process = "up"
  /\ canceller = "idle"
  /\ canceller' = "committed"
  /\ \/ /\ task.state \notin TERMINAL_STATES
        /\ task' = [state |-> "CANCELLED", version |-> task.version + 1,
                    cancelRequested |-> TRUE]
        /\ timeline' = Append(timeline, [to |-> "CANCELLED",
                                         version |-> task.version + 1])
        /\ Publish(Summary(task.version + 1, "CANCELLED"))
     \/ /\ task.state \in TERMINAL_STATES
        /\ task' = [task EXCEPT !.cancelRequested = TRUE]
        /\ UNCHANGED <<timeline, messages>>
  /\ UNCHANGED <<plan, calls, reports, usage, world, process, op, bounds>>

\* The endpoint's second half: Coordinator.cancel.
CancelOperation ==
  /\ canceller = "committed"
  /\ canceller' = "idle"
  /\ Interrupted
  /\ UNCHANGED <<durable, messages, world, process, bounds>>

\* Shutdown once the open requests are served: Coordinator.close cancels the
\* operation and waits for it.
Stop ==
  /\ process = "up"
  /\ op.at # "unscheduled"
  /\ canceller = "idle"
  /\ crashes < MaxCrashes
  /\ crashes' = crashes + 1
  /\ process' = "stopping"
  /\ Interrupted
  /\ UNCHANGED <<durable, messages, world, canceller, lost>>

Exit ==
  /\ process = "stopping"
  /\ op.at = "idle"
  /\ process' = "down"
  /\ UNCHANGED <<durable, messages, world, op, canceller, bounds>>
-----------------------------------------------------------------------------
(* Faults, and RecoveryService.recover at the next start.                  *)

\* The process dies; the JSON store keeps what its last snapshot held.
Crash ==
  /\ process # "down"
  /\ crashes < MaxCrashes
  /\ crashes' = crashes + 1
  /\ process' = "down"
  /\ op' = NoOperation("idle", task)
  /\ canceller' = "idle"
  /\ \E n \in 0 .. Len(messages) : messages' = SubSeq(messages, 1, n)
  /\ UNCHANGED <<durable, world, lost>>

\* A summary goes to the JSON store before the transaction that it reports
\* commits. When the commit fails the row keeps its state.
LoseCommit(state) ==
  /\ Cardinality(lost) < MaxLost
  /\ lost' = lost \cup {task.version + 1}
  /\ Publish(Summary(task.version + 1, state))
  /\ UNCHANGED <<durable, world, process, canceller, crashes>>

VerdictLost(verdict, cost) ==
  LET target == VerdictTarget(verdict, usage + cost) IN
  /\ op.at = "verifying"
  /\ LegalPath(task.state, <<target>>)
  /\ target # "REPLANNING"
  /\ LoseCommit(target)
  /\ Raise("FAILED")

FinishLost ==
  /\ op.at = "failing"
  /\ op.target # "CANCELLED"
  /\ LegalPath(task.state, <<op.target>>)
  /\ LoseCommit(op.target)
  /\ Goto("idle")

CancelLost ==
  /\ process = "up"
  /\ canceller = "idle"
  /\ task.state \notin TERMINAL_STATES
  /\ LoseCommit("CANCELLED")
  /\ op' = op

\* Mutant of UncertainSideEffect: a call without an outcome does not count.
FailedSideEffect == \E k \in DOMAIN calls : calls[k] = "failed"

\* _has_uncertain_side_effect: any call of the task, of any plan version.
UncertainSideEffect == \E k \in DOMAIN calls : calls[k] \in {"started", "failed"}

Resumable ==
  \/ task.state = "PENDING"
  \/ task.state = "EXECUTING" /\ ~UncertainSideEffect

Settled == task.state \in TERMINAL_STATES \cup {"NEEDS_REVIEW"}

Restarted == process = "down" /\ process' = "up"

\* Mutant of Resume: the task is listed as recovered but not scheduled.
ResumeUnscheduled ==
  /\ Restarted
  /\ Resumable
  /\ op' = NoOperation("idle", task)
  /\ UNCHANGED <<durable, messages, world, canceller, bounds>>

Resume ==
  /\ Restarted
  /\ Resumable
  /\ op' = NoOperation("scheduled", task)
  /\ UNCHANGED <<durable, messages, world, canceller, bounds>>

Park ==
  /\ Restarted
  /\ ~Settled /\ ~Resumable
  /\ Commits(<<"NEEDS_REVIEW">>)
  /\ op' = NoOperation("idle", task)
  /\ UNCHANGED <<plan, calls, reports, usage, messages, world, canceller, bounds>>

LeaveSettled ==
  /\ Restarted
  /\ Settled
  /\ op' = NoOperation("idle", task)
  /\ UNCHANGED <<durable, messages, world, canceller, bounds>>
-----------------------------------------------------------------------------
OperationStep ==
  \/ Begin \/ ReadState \/ ReadTask \/ StartAnalysis
  \/ \E p \in Plans, version \in FirstVersions, cost \in Costs :
       PlanAnswered(p, version, cost)
  \/ ModelCallFails
  \/ LoadExecution
  \/ \E s \in Steps : CheckCancelled(s)
  \/ StartTool \/ ToolSucceeds \/ CheckFails
  \/ \E target \in {"FAILED", "NEEDS_REVIEW"} : ToolRaises(target)
  \/ EnterVerifying
  \/ \E verdict \in Verdicts, cost \in Costs : VerdictAnswered(verdict, cost)
  \/ LoadReplan
  \/ \E p \in Plans, cost \in Costs : ReplanAnswered(p, cost)
  \/ Finish \/ Announce

Recovery == Resume \/ Park \/ LeaveSettled

Environment ==
  \/ CancelTask \/ Stop \/ Crash
  \/ \E verdict \in Verdicts, cost \in Costs : VerdictLost(verdict, cost)
  \/ FinishLost \/ CancelLost

Next ==
  \/ Schedule \/ OperationStep \/ CancelOperation \/ Exit \/ Recovery
  \/ Environment

Spec == Init /\ [][Next]_vars

\* The event loop runs every ready coroutine, model calls and tools carry a
\* timeout, handlers run to their end, and a stopped process is restarted.
Fairness ==
  /\ WF_vars(Schedule)
  /\ WF_vars(OperationStep)
  /\ WF_vars(CancelOperation)
  /\ WF_vars(Exit)
  /\ WF_vars(Recovery)

FairSpec == Spec /\ Fairness

=============================================================================
