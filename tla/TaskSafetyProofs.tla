-------------------------- MODULE TaskSafetyProofs --------------------------
(***************************************************************************)
(* The safety properties of TaskProperties, for every value of the         *)
(* constants.  The inductive invariant of TaskInductive is proved part by  *)
(* part, each part from those before it; the properties follow.            *)
(***************************************************************************)
EXTENDS TaskProofs

\* What a single transition does to the row.
LEMMA OneMove ==
  ASSUME task \in Row, NEW s, Commits(<<s>>)
  PROVE  /\ s \in Allowed(task.state)
         /\ task'.state = s
         /\ task'.cancelRequested = task.cancelRequested
<1>1. Len(<<s>>) = 1 /\ <<s>>[1] = s /\ DOMAIN <<s>> = {1}
  OBVIOUS
<1>2. s \in Allowed(task.state)
  BY <1>1 DEF Commits, LegalPath
<1>3. QED BY <1>1, <1>2 DEF Commits, Moves, Row

\* A longer path leaves the row in its last state, if its first one is allowed.
LEMMA PathMove ==
  ASSUME task \in Row, NEW path \in Seq(TaskState), path # <<>>, Commits(path)
  PROVE  /\ path[1] \in Allowed(task.state)
         /\ task'.state = path[Len(path)]
         /\ task'.cancelRequested = task.cancelRequested
<1>1. 1 \in DOMAIN path
  OBVIOUS
<1>2. path[1] \in Allowed(task.state)
  BY <1>1 DEF Commits, LegalPath
<1>3. QED BY <1>2 DEF Commits, Moves, Row

\* run's path starts in PLANNING and ends in EXECUTING.
LEMMA PlanMove ==
  ASSUME task \in Row, Commits(PlanPath)
  PROVE  /\ "PLANNING" \in Allowed(task.state)
         /\ task'.state = "EXECUTING"
         /\ task'.cancelRequested = task.cancelRequested
<1>1. /\ PlanPath \in Seq(TaskState) /\ PlanPath # <<>>
      /\ Len(PlanPath) = 3 /\ PlanPath[1] = "PLANNING" /\ PlanPath[3] = "EXECUTING"
  BY DEF PlanPath, TaskState
<1>2. QED BY <1>1, PathMove

\* replan's path ends in EXECUTING as well.
LEMMA ReplanMove ==
  ASSUME task \in Row, Commits(ReplanPath)
  PROVE  /\ "POLICY_CHECK" \in Allowed(task.state)
         /\ task'.state = "EXECUTING"
         /\ task'.cancelRequested = task.cancelRequested
<1>1. /\ ReplanPath \in Seq(TaskState) /\ ReplanPath # <<>>
      /\ Len(ReplanPath) = 2 /\ ReplanPath[1] = "POLICY_CHECK"
      /\ ReplanPath[2] = "EXECUTING"
  BY DEF ReplanPath, TaskState
<1>2. QED BY <1>1, PathMove

\* run's first transition starts from the row its session has read.
LEMMA StartMoves ==
  ASSUME TypeOK, StartAnalysis
  PROVE  \/ /\ op'.at = "failing" /\ op'.target = "FAILED" /\ task' = task
         \/ /\ op'.at = "planning" /\ ~op.seen.cancelRequested
            /\ task'.state = "ANALYZING"
            /\ task'.cancelRequested = task.cancelRequested
            /\ "ANALYZING" \in Allowed(op.seen.state)
            /\ task'.version = op.seen.version + 1
         \/ /\ op'.at = "loop" /\ op.seen.cancelRequested
            /\ task'.state = "CANCELLED"
            /\ task'.cancelRequested = task.cancelRequested
            /\ "CANCELLED" \in Allowed(op.seen.state)
<1> DEFINE target == IF op.seen.cancelRequested THEN "CANCELLED" ELSE "ANALYZING"
<1>1. task \in Row /\ op \in Operation /\ op.at = "snapshot"
  BY DEF TypeOK, StartAnalysis
<1>2. CASE Raise("FAILED") /\ task' = task
  BY <1>1, <1>2 DEF Raise, Operation
<1>3. CASE /\ LegalPath(op.seen.state, <<target>>) /\ Moves(op.seen, <<target>>)
           /\ Goto(IF target = "ANALYZING" THEN "planning" ELSE "loop")
  <2>1. Len(<<target>>) = 1 /\ <<target>>[1] = target /\ DOMAIN <<target>> = {1}
    OBVIOUS
  <2>2. target \in Allowed(op.seen.state)
    BY <1>3, <2>1 DEF LegalPath
  <2>3. /\ task'.state = target /\ task'.version = op.seen.version + 1
        /\ task'.cancelRequested = task.cancelRequested
    BY <1>1, <1>3, <2>1 DEF Moves, Row
  <2>4. op'.at = IF target = "ANALYZING" THEN "planning" ELSE "loop"
    BY <1>1, <1>3 DEF Goto, Operation
  <2>5. QED BY <2>2, <2>3, <2>4
<1>4. QED BY <1>2, <1>3 DEF StartAnalysis

\* Raising and moving on.
LEMMA OpMoves ==
  ASSUME op \in Operation
  PROVE  /\ \A t : Raise(t) => op'.at = "failing" /\ op'.target = t
         /\ \A a : Goto(a) => op'.at = a /\ op'.target = op.target
BY DEF Raise, Goto, Operation

\* An interrupted operation ends, or goes to the exception handlers.
LEMMA InterruptedMoves ==
  ASSUME op \in Operation, Interrupted
  PROVE  \/ /\ op' = op /\ op.at \in {"unscheduled", "idle"}
         \/ /\ op'.at = "idle" /\ op.at \in {"scheduled", "failing", "announcing"}
         \/ /\ op'.at = "failing" /\ op'.target = "CANCELLED"
            /\ op.at \in Working \ {"scheduled"}
         \/ /\ op'.at = "failing" /\ op'.target = "FAILED"
            /\ op.at \in ModelCalls
BY OpMoves DEF Interrupted

\* Where the steps that only move the operation take it.
LEMMA ReadStateMoves ==
  ASSUME TypeOK, ReadState
  PROVE  /\ op.at = "loop" /\ task' = task
         /\ op'.previous = task.state /\ op'.turns = Turns
         /\ op'.target = "FAILED"
         /\ LoopFault => op'.at = "failing"
         /\ ~LoopFault =>
              \/ op'.at = "start" /\ task.state = "PENDING"
              \/ op'.at = "execute" /\ task.state = "EXECUTING"
              \/ op'.at = "replan" /\ task.state = "REPLANNING"
              \/ op'.at = "idle" /\ task.state \notin {"PENDING", "EXECUTING", "REPLANNING"}
BY DEF TypeOK, Operation, ReadState, Handler, OperationOnly, durable

LEMMA ReadTaskMoves ==
  ASSUME TypeOK, ReadTask
  PROVE  /\ op.at = "start" /\ op'.at = "snapshot" /\ task' = task
         /\ op'.seen = task /\ op'.previous = op.previous /\ op'.turns = op.turns
BY DEF TypeOK, Operation, ReadTask, OperationOnly, durable

LEMMA NextWaveMoves ==
  ASSUME NEW o \in Operation, NEW done
  PROVE  /\ NextWave(o, done).at \in {"step", "stepsDone", "failing"}
         /\ NextWave(o, done).target = "FAILED"
         /\ NextWave(o, done).previous = o.previous
         /\ NextWave(o, done).turns = o.turns
         /\ NextWave(o, done).done = done
         /\ NextWave(o, done).wave =
              {s \in DOMAIN plan.deps \ done : plan.deps[s] \subseteq done}
BY DEF NextWave, Operation

LEMMA LoadExecutionMoves ==
  ASSUME TypeOK, LoadExecution
  PROVE  /\ op.at = "execute" /\ task' = task
         /\ op'.at \in {"step", "stepsDone", "failing"}
         /\ op'.target = "FAILED"
         /\ op'.previous = op.previous /\ op'.turns = op.turns
<1> DEFINE done == {s \in DOMAIN plan.status : plan.status[s] = "succeeded"}
<1>1. op \in Operation /\ op.at = "execute" /\ task' = task
  BY DEF TypeOK, LoadExecution, OperationOnly, durable
<1>2. CASE op' = NextWave(op, done)
  BY <1>1, <1>2, NextWaveMoves
<1>3. CASE Raise("FAILED")
  BY <1>1, <1>3 DEF Raise, Operation
<1>4. QED BY <1>2, <1>3 DEF LoadExecution

LEMMA CheckCancelledMoves ==
  ASSUME TypeOK, NEW s, CheckCancelled(s)
  PROVE  /\ op.at = "step" /\ s \in op.wave /\ task' = task
         /\ op'.previous = op.previous /\ op'.turns = op.turns
         /\ op'.done = op.done /\ op'.wave = op.wave
         /\ \/ op'.at = "checked" /\ op'.step = s /\ ~task.cancelRequested
            \/ op'.at = "failing" /\ op'.target = "FAILED" /\ task.cancelRequested
BY DEF TypeOK, Operation, CheckCancelled, Raise, OperationOnly, durable

LEMMA StepSucceededMoves ==
  ASSUME op \in Operation, StepSucceeded
  PROVE  /\ op'.at \in {"step", "stepsDone", "failing"}
         /\ op'.at = "failing" => op'.target = "FAILED"
         /\ op'.previous = op.previous /\ op'.turns = op.turns
         /\ op'.done = op.done \cup {op.step}
         /\ op'.wave =
              IF op.wave \ {op.step} # {} THEN op.wave \ {op.step}
              ELSE {s \in DOMAIN plan.deps \ (op.done \cup {op.step}) :
                      plan.deps[s] \subseteq op.done \cup {op.step}}
<1> DEFINE o == [op EXCEPT !.wave = @ \ {op.step}, !.done = @ \cup {op.step}]
<1>1. /\ o.wave = op.wave \ {op.step} /\ o.done = op.done \cup {op.step}
      /\ o.previous = op.previous /\ o.turns = op.turns
  BY DEF Operation
<1>2. CASE o.wave # {}
  BY <1>1, <1>2 DEF StepSucceeded, Operation
<1>3. CASE o.wave = {}
  BY <1>1, <1>3 DEF StepSucceeded, NextWave, Operation
<1>4. QED BY <1>2, <1>3

\* The steps of execute on its records leave the row alone.
LEMMA StepMoves ==
  ASSUME TypeOK,
         \/ StartTool \/ ToolSucceeds \/ CheckFails
         \/ \E target \in {"FAILED", "NEEDS_REVIEW"} : ToolRaises(target)
  PROVE  /\ op.at \in {"checked", "running"} /\ task' = task
         /\ op'.at \in {"running", "step", "stepsDone", "failing"}
         /\ op'.previous = op.previous /\ op'.turns = op.turns
<1> USE DEF TypeOK
<1>1. CASE StartTool
  BY <1>1, StepSucceededMoves DEF StartTool, Goto, Raise, Operation
<1>2. CASE ToolSucceeds
  BY <1>2, StepSucceededMoves DEF ToolSucceeds
<1>3. CASE CheckFails \/ \E target \in {"FAILED", "NEEDS_REVIEW"} : ToolRaises(target)
  BY <1>3 DEF CheckFails, ToolRaises, Goto, Raise, Operation
<1>4. QED BY <1>1, <1>2, <1>3

\* A lost commit changes the message store and ends the operation's step.
LEMMA LostMoves ==
  ASSUME op \in Operation,
         \/ \E verdict \in Verdicts, cost \in Costs : VerdictLost(verdict, cost)
         \/ FinishLost
  PROVE  /\ UNCHANGED <<durable, world, process, canceller, crashes>>
         /\ \/ op'.at = "failing" /\ op'.target = "FAILED" /\ op.at = "verifying"
            \/ op'.at = "idle" /\ op.at = "failing"
<1>1. CASE FinishLost
  BY <1>1, OpMoves DEF FinishLost, LoseCommit
<1>2. ASSUME NEW verdict \in Verdicts, NEW cost \in Costs, VerdictLost(verdict, cost)
      PROVE  /\ UNCHANGED <<durable, world, process, canceller, crashes>>
             /\ op'.at = "failing" /\ op'.target = "FAILED" /\ op.at = "verifying"
  BY <1>2, OpMoves DEF VerdictLost, LoseCommit
<1>3. QED BY <1>1, <1>2

\* The actions with parameters, for any of them.
Planned == \E p \in Plans, version \in FirstVersions, cost \in Costs :
             PlanAnswered(p, version, cost)
Judged == \E verdict \in Verdicts, cost \in Costs : VerdictAnswered(verdict, cost)
Replanned == \E p \in Plans, cost \in Costs : ReplanAnswered(p, cost)
Checked == \E s \in Steps : CheckCancelled(s)
Raised == \E target \in {"FAILED", "NEEDS_REVIEW"} : ToolRaises(target)
JudgedLost == \E verdict \in Verdicts, cost \in Costs : VerdictLost(verdict, cost)

\* Which action takes the operation to each stage.
LEMMA Edges ==
  ASSUME TypeOK, [Next]_vars, op'.at # op.at
  PROVE  /\ op'.at # "unscheduled"
         /\ op'.at = "scheduled" => Schedule \/ Resume
         /\ op'.at = "loop" => \/ Begin \/ StartAnalysis \/ Planned \/ Judged
                               \/ LoadReplan \/ Replanned
         /\ op'.at \in {"start", "execute", "replan"} => ReadState
         /\ op'.at = "snapshot" => ReadTask
         /\ op'.at = "planning" => StartAnalysis
         /\ op'.at = "step" => LoadExecution \/ StartTool \/ ToolSucceeds
         /\ op'.at = "checked" => Checked
         /\ op'.at = "running" => StartTool
         /\ op'.at = "stepsDone" =>
              LoadExecution \/ StartTool \/ ToolSucceeds \/ CheckFails
         /\ op'.at = "verifying" => EnterVerifying
         /\ op'.at = "replanning" => LoadReplan
<1>1. op \in Operation
  BY DEF TypeOK
<1>2. CASE \/ UNCHANGED vars \/ CancelTask \/ CancelLost \/ Exit
  BY <1>2 DEF vars, CancelTask, CancelLost, Exit
<1>3. CASE \/ Schedule \/ Begin \/ ModelCallFails \/ EnterVerifying \/ LoadReplan
           \/ Finish \/ Announce
  BY <1>1, <1>3, OpMoves
     DEF Schedule, Begin, ModelCallFails, EnterVerifying, LoadReplan, Finish,
         Announce, Refused
<1>4. CASE Planned
  <2>1. op'.at \in {"loop", "failing"}
    BY <1>1, <1>4, OpMoves DEF Planned, PlanAnswered, Refused
  <2>2. QED BY <1>4, <2>1
<1>5. CASE Judged
  <2>1. op'.at \in {"loop", "failing"}
    BY <1>1, <1>5, OpMoves DEF Judged, VerdictAnswered, Refused
  <2>2. QED BY <1>5, <2>1
<1>6. CASE Replanned
  <2>1. op'.at \in {"loop", "failing"}
    BY <1>1, <1>6, OpMoves DEF Replanned, ReplanAnswered, Refused
  <2>2. QED BY <1>6, <2>1
<1>7. CASE ReadState \/ ReadTask \/ LoadExecution \/ StartAnalysis \/ Checked
  BY <1>7, ReadStateMoves, ReadTaskMoves, LoadExecutionMoves, StartMoves,
     CheckCancelledMoves
     DEF Checked
<1>8. CASE StartTool \/ ToolSucceeds \/ CheckFails \/ Raised
  BY <1>1, <1>8, StepSucceededMoves, OpMoves
     DEF Raised, StartTool, ToolSucceeds, CheckFails, ToolRaises
<1>9. CASE CancelOperation \/ Stop \/ Crash
  BY <1>1, <1>9, InterruptedMoves DEF CancelOperation, Stop, Crash, NoOperation
<1>10. CASE Resume \/ Park \/ LeaveSettled
  BY <1>10 DEF Resume, Park, LeaveSettled, NoOperation
<1>11. CASE JudgedLost \/ FinishLost
  BY <1>1, <1>11, LostMoves DEF JudgedLost
<1>12. QED
  BY <1>2, <1>3, <1>4, <1>5, <1>6, <1>7, <1>8, <1>9, <1>10, <1>11
     DEF Next, OperationStep, Recovery, Environment, Planned, Judged, Replanned,
         Checked, Raised, JudgedLost

\* Which action writes which record.
LEMMA Writers ==
  ASSUME [Next]_vars
  PROVE  /\ task' # task => \/ StartAnalysis \/ Planned \/ EnterVerifying \/ Judged
                            \/ LoadReplan \/ Replanned \/ Finish \/ CancelTask
                            \/ Park
         /\ plan' # plan => \/ Planned \/ Replanned \/ StartTool \/ ToolSucceeds
                            \/ CheckFails \/ Raised
         /\ calls' # calls => StartTool \/ ToolSucceeds \/ CheckFails \/ Raised
         /\ usage' # usage => Planned \/ Judged \/ Replanned
         /\ reports' # reports => Judged
         /\ <<ran, late>>' # <<ran, late>> => StartTool
BY DEF Next, OperationStep, Recovery, Environment, vars, durable, world,
       OperationOnly, Schedule, Begin, ReadState, ReadTask, StartAnalysis, Planned,
       PlanAnswered, ModelCallFails, LoadExecution, CheckCancelled, StartTool,
       ToolSucceeds, CheckFails, Raised, ToolRaises, EnterVerifying, Judged,
       VerdictAnswered, LoadReplan, Replanned, ReplanAnswered, Finish, Announce,
       Refused, CancelTask, CancelOperation, Stop, Exit, Crash, VerdictLost,
       FinishLost, CancelLost, LoseCommit, Resume, Park, LeaveSettled

-----------------------------------------------------------------------------
(* The row and the operation that works on it.                             *)

LEMMA RowInit == Init => InvRow
BY DEF Init, InvRow, Executing, SeenStates, NoOperation

\* The two steps of run, the verdict and replan move the row together with the
\* operation.
LEMMA RowStep ==
  ASSUME TypeOK, TypeOK', InvRow, [Next]_vars
  PROVE  InvRow'
<1>1. task \in Row /\ op \in Operation /\ op.at \in Working \cup Resting
  BY DEF TypeOK, Operation
<1>2. CASE UNCHANGED vars
  BY <1>2 DEF vars, durable, InvRow
<1>3. CASE Schedule \/ Begin \/ ModelCallFails
  BY <1>1, <1>3, OpMoves
     DEF Schedule, Begin, ModelCallFails, OperationOnly, durable, InvRow, Executing,
         SeenStates, ModelCalls, TERMINAL_STATES
<1>3a. CASE ReadState
  BY <1>1, <1>3a, ReadStateMoves DEF InvRow, Executing
<1>3b. CASE ReadTask
  BY <1>1, <1>3b, ReadTaskMoves DEF InvRow, Executing
<1>3c. CASE LoadExecution
  BY <1>1, <1>3c, LoadExecutionMoves DEF InvRow, Executing
<1>3d. CASE \E s \in Steps : CheckCancelled(s)
  BY <1>1, <1>3d, CheckCancelledMoves DEF InvRow, Executing
<1>4. CASE StartAnalysis
  BY <1>1, <1>4, StartMoves DEF StartAnalysis, InvRow, Executing, TERMINAL_STATES,
     SeenStates
<1>5. CASE \E p \in Plans, version \in FirstVersions, cost \in Costs :
             PlanAnswered(p, version, cost)
  BY <1>1, <1>5, OpMoves, PlanMove, OneMove
     DEF PlanAnswered, Refused, durable, InvRow, Executing, SeenStates,
         TERMINAL_STATES
<1>6. CASE StartTool \/ ToolSucceeds \/ CheckFails
             \/ \E target \in {"FAILED", "NEEDS_REVIEW"} : ToolRaises(target)
  BY <1>1, <1>6, StepMoves DEF InvRow, Executing
<1>7. CASE EnterVerifying
  BY <1>1, <1>7, OpMoves, OneMove
     DEF EnterVerifying, Refused, durable, InvRow, Executing, SeenStates
<1>8. CASE \E verdict \in Verdicts, cost \in Costs : VerdictAnswered(verdict, cost)
  BY <1>1, <1>8, OpMoves, OneMove
     DEF VerdictAnswered, VerdictTarget, VerdictState, Verdicts, Refused, durable,
         InvRow, Executing, SeenStates, TERMINAL_STATES
<1>9. CASE LoadReplan \/ \E p \in Plans, cost \in Costs : ReplanAnswered(p, cost)
  BY <1>1, <1>9, OpMoves, OneMove, ReplanMove
     DEF LoadReplan, ReplanAnswered, Refused, durable, InvRow, Executing,
         SeenStates, TERMINAL_STATES
<1>10. CASE Finish \/ Announce
  BY <1>1, <1>10, OpMoves, OneMove
     DEF Finish, Announce, durable, InvRow, Executing, SeenStates, TERMINAL_STATES,
         Operation
<1>11. CASE CancelTask \/ CancelOperation \/ CancelLost
  BY <1>1, <1>11, OpMoves
     DEF CancelTask, CancelOperation, CancelLost, LoseCommit, Interrupted, durable,
         InvRow, Executing, SeenStates, TERMINAL_STATES, Row, Resting, Working
<1>12. CASE \/ \E verdict \in Verdicts, cost \in Costs : VerdictLost(verdict, cost)
            \/ FinishLost
  BY <1>1, <1>12, LostMoves DEF durable, InvRow, Executing
<1>13. CASE Stop \/ Exit \/ Crash
  <2>1. task' = task
    BY <1>13 DEF Stop, Exit, Crash, durable
  <2>2. op' = op \/ op'.at \in {"idle", "failing"}
    BY <1>1, <1>13, InterruptedMoves DEF Stop, Exit, Crash, NoOperation
  <2>3. QED BY <2>1, <2>2 DEF InvRow, Executing
<1>14. CASE Resume \/ Park \/ LeaveSettled
  BY <1>1, <1>14, OneMove
     DEF Resume, Park, LeaveSettled, Resumable, Settled, NoOperation, durable,
         InvRow, Executing, SeenStates, TERMINAL_STATES
<1>15. QED
  BY <1>2, <1>3, <1>3a, <1>3b, <1>3c, <1>3d, <1>4, <1>5, <1>6, <1>7, <1>8, <1>9, <1>10, <1>11, <1>12, <1>13,
     <1>14 DEF Next, OperationStep, Recovery, Environment

\* The row and the types, from the first state on.
THEOREM RowCorrect == Spec => [](TypeOK /\ InvStep /\ InvRow)
<1>1. TypeOK /\ InvStep /\ InvRow /\ TypeOK' /\ InvStep' /\ [Next]_vars => InvRow'
  BY RowStep
<1>2. QED BY <1>1, RowInit, TypeCorrect, PTL DEF Spec

\* In no state that a crash can leave behind does startup recovery make an
\* illegal transition.
THEOREM RecoveryCorrect == Spec => []RecoveryNeverRaises
<1>1. InvRow => RecoveryNeverRaises
  <2> SUFFICES ASSUME InvRow, ~Settled, task.state # "PENDING"
               PROVE  LegalPath(task.state, <<"NEEDS_REVIEW">>)
    BY DEF RecoveryNeverRaises, Resumable
  <2>1. task.state \in {"ANALYZING", "EXECUTING", "VERIFYING", "REPLANNING"}
    BY DEF InvRow, SeenStates, Settled
  <2>2. "NEEDS_REVIEW" \in Allowed(task.state)
    BY <2>1 DEF Allowed
  <2>3. DOMAIN <<"NEEDS_REVIEW">> = {1} /\ <<"NEEDS_REVIEW">>[1] = "NEEDS_REVIEW"
    OBVIOUS
  <2>4. QED BY <2>2, <2>3 DEF LegalPath
<1>2. QED BY <1>1, RowCorrect, PTL

-----------------------------------------------------------------------------
(* Cancellation and the tools.                                             *)

\* Only the cancel endpoint touches the cancellation flag, and it raises it.
LEMMA FlagMoves ==
  ASSUME TypeOK, [Next]_vars
  PROVE  \/ task'.cancelRequested = task.cancelRequested
         \/ CancelTask /\ task'.cancelRequested
<1>1. task \in Row /\ op \in Operation
  BY DEF TypeOK
<1>2. CASE StartAnalysis
  BY <1>2, StartMoves
<1>3. CASE Planned
  BY <1>1, <1>3, PlanMove, OneMove DEF Planned, PlanAnswered, Refused, durable
<1>4. CASE EnterVerifying \/ Park \/ LoadReplan \/ Finish \/ Replanned
  BY <1>1, <1>4, OneMove, ReplanMove
     DEF EnterVerifying, Park, LoadReplan, Finish, Replanned, ReplanAnswered,
         Refused, durable
<1>5. CASE Judged
  BY <1>1, <1>5, OneMove DEF Judged, VerdictAnswered, Refused, durable
<1>6. CASE CancelTask
  BY <1>1, <1>6 DEF CancelTask, Row
<1>7. QED
  BY <1>2, <1>3, <1>4, <1>5, <1>6, Writers

\* Only a started tool is counted, and only when the flag is up.
LEMMA LateStep ==
  ASSUME TypeOK, InvLate, [Next]_vars
  PROVE  InvLate'
<1>1. op \in Operation /\ late \in Nat
  BY DEF TypeOK
<1>2. CASE StartTool
  <2>1. task' = task /\ op.at = "checked"
    BY <1>2, StepMoves DEF StartTool
  <2>1a. op'.at \in {"running", "step", "stepsDone", "failing"}
    BY <1>2, StepMoves
  <2>2. late' = late \/ (late' = late + 1 /\ task.cancelRequested)
    BY <1>2 DEF StartTool, world
  <2>3. QED BY <1>1, <2>1, <2>1a, <2>2 DEF InvLate
<1>3. CASE ~StartTool
  <2>1. late' = late
    BY <1>3, Writers
  <2>2. CASE op'.at = "checked" /\ op.at # "checked"
    <3>1. PICK s \in Steps : CheckCancelled(s)
      BY <2>2, Edges DEF Checked
    <3>2. ~task'.cancelRequested
      BY <2>2, <3>1, CheckCancelledMoves
    <3>3. QED BY <2>1, <3>2, FlagMoves DEF InvLate
  <2>3. CASE op'.at # "checked" \/ op.at = "checked"
    BY <2>1, <2>3, FlagMoves DEF InvLate
  <2>4. QED BY <2>2, <2>3
<1>4. QED BY <1>2, <1>3

\* After a cancellation is committed at most one more tool starts.
THEOREM CancelCorrect == Spec => []CancelStopsTools
<1>1. Init => InvLate
  BY DEF Init, InvLate, NoOperation
<1>2. TypeOK /\ InvLate /\ [Next]_vars => InvLate'
  BY LateStep
<1>3. InvLate => CancelStopsTools
  BY DEF InvLate, CancelStopsTools
<1>4. QED BY <1>1, <1>2, <1>3, TypeCorrect, PTL DEF Spec

-----------------------------------------------------------------------------
(* The plan and the tool calls.                                            *)

\* Only a plan that was accepted has a version.
LEMMA Versioned == PlanTypeOK => (plan = NoPlan <=> plan.version = 0)
BY DEF PlanTypeOK, NoPlan

\* Which action brings the row into each state.
LEMMA RowSources ==
  ASSUME TypeOK, InvRow, [Next]_vars, task'.state # task.state
  PROVE  /\ task'.state # "PENDING"
         /\ task'.state = "ANALYZING" => StartAnalysis
         /\ task'.state = "EXECUTING" => Planned \/ Replanned
         /\ task'.state = "VERIFYING" => EnterVerifying
         /\ task'.state \in {"REPLANNING", "SUCCEEDED"} => Judged
         /\ task'.state = "BUDGET_EXCEEDED" => Planned \/ Judged \/ Replanned
         /\ task'.state = "CANCELLED" => StartAnalysis \/ Finish \/ CancelTask
<1>1. task \in Row /\ op \in Operation
  BY DEF TypeOK
<1>2. CASE StartAnalysis
  BY <1>2, StartMoves
<1>3. CASE Planned
  <2>1. task'.state \in {"EXECUTING", "BUDGET_EXCEEDED"}
    BY <1>1, <1>3, PlanMove, OneMove DEF Planned, PlanAnswered, Refused, durable
  <2>2. QED BY <1>3, <2>1
<1>4. CASE EnterVerifying \/ Park \/ LoadReplan
  BY <1>1, <1>4, OneMove DEF EnterVerifying, Park, LoadReplan, Refused, durable
<1>5. CASE Finish
  BY <1>1, <1>5, OneMove DEF Finish, Operation
<1>6. CASE Judged
  <2>1. task'.state \in {"SUCCEEDED", "FAILED", "NEEDS_REVIEW", "REPLANNING",
                         "BUDGET_EXCEEDED"}
    BY <1>1, <1>6, OneMove
       DEF Judged, VerdictAnswered, VerdictTarget, VerdictState, Verdicts, Refused,
           durable
  <2>2. QED BY <1>6, <2>1
<1>7. CASE Replanned
  <2>1. task'.state \in {"EXECUTING", "BUDGET_EXCEEDED"}
    BY <1>1, <1>7, ReplanMove, OneMove
       DEF Replanned, ReplanAnswered, Refused, durable
  <2>2. QED BY <1>7, <2>1
<1>8. CASE CancelTask
  BY <1>1, <1>8 DEF CancelTask, Row
<1>9. QED BY <1>2, <1>3, <1>4, <1>5, <1>6, <1>7, <1>8, Writers

\* What run's second transaction leaves behind.
LEMMA PlannedMoves ==
  ASSUME TypeOK, Planned
  PROVE  /\ op.at = "planning" /\ calls' = calls
         /\ \/ UNCHANGED durable /\ op'.at = "failing" /\ op'.target = "FAILED"
            \/ /\ task'.state = "EXECUTING" /\ plan'.version # 0 /\ op'.at = "loop"
               /\ plan'.version \in FirstVersions
               /\ "PLANNING" \in Allowed(task.state)
               /\ \A s \in DOMAIN plan'.status : plan'.status[s] = "pending"
               /\ \E cost \in Costs : cost <= Budget /\ usage' = usage + cost
            \/ /\ task'.state = "BUDGET_EXCEEDED" /\ plan' = plan /\ op'.at = "loop"
               /\ "BUDGET_EXCEEDED" \in Allowed(task.state)
<1>1. task \in Row /\ op \in Operation
  BY DEF TypeOK
<1>2. PICK p \in Plans, version \in FirstVersions, cost \in Costs :
             PlanAnswered(p, version, cost)
  BY DEF Planned
<1>3. CASE /\ Commits(PlanPath) /\ plan' = NewPlan(version, p) /\ Goto("loop")
           /\ cost <= Budget /\ usage' = usage + cost
           /\ UNCHANGED <<calls, reports>>
  <2>1. /\ plan'.version # 0 /\ plan'.version \in FirstVersions
        /\ \A s \in DOMAIN plan'.status : plan'.status[s] = "pending"
    BY <1>3, Numbers DEF NewPlan
  <2>2. QED BY <1>1, <1>2, <1>3, <2>1, PlanMove, OpMoves DEF PlanAnswered
<1>4. CASE Commits(<<"BUDGET_EXCEEDED">>) /\ Goto("loop")
           /\ UNCHANGED <<plan, calls, reports>>
  BY <1>1, <1>2, <1>4, OneMove, OpMoves DEF PlanAnswered
<1>5. CASE Raise("FAILED") /\ UNCHANGED durable
  BY <1>1, <1>2, <1>5, OpMoves DEF PlanAnswered, durable
<1>6. QED BY <1>2, <1>3, <1>4, <1>5 DEF PlanAnswered, Refused

\* What replan's second transaction leaves behind.
LEMMA ReplannedMoves ==
  ASSUME TypeOK, Replanned
  PROVE  /\ op.at = "replanning" /\ calls' = calls
         /\ \/ UNCHANGED durable /\ op'.at = "failing" /\ op'.target = "FAILED"
            \/ /\ task'.state = "EXECUTING" /\ plan'.version = plan.version + 1
               /\ op'.at = "loop" /\ "POLICY_CHECK" \in Allowed(task.state)
               /\ \A s \in DOMAIN plan'.status : plan'.status[s] = "pending"
               /\ usage' <= Budget
            \/ /\ task'.state = "BUDGET_EXCEEDED" /\ plan' = plan /\ op'.at = "loop"
               /\ "BUDGET_EXCEEDED" \in Allowed(task.state)
<1>1. task \in Row /\ op \in Operation
  BY DEF TypeOK
<1>2. PICK p \in Plans, cost \in Costs : ReplanAnswered(p, cost)
  BY DEF Replanned
<1>3. CASE /\ Commits(ReplanPath) /\ plan' = NewPlan(plan.version + 1, p)
           /\ ~(usage + cost > Budget) /\ usage' = usage + cost
           /\ Goto("loop") /\ UNCHANGED <<calls, reports>>
  <2>1. /\ plan'.version = plan.version + 1
        /\ \A s \in DOMAIN plan'.status : plan'.status[s] = "pending"
    BY <1>3 DEF NewPlan
  <2>2. usage' <= Budget
    BY <1>3, Numbers DEF TypeOK
  <2>3. QED BY <1>1, <1>2, <1>3, <2>1, <2>2, ReplanMove, OpMoves DEF ReplanAnswered
<1>4. CASE Commits(<<"BUDGET_EXCEEDED">>) /\ Goto("loop")
           /\ UNCHANGED <<plan, calls, reports>>
  BY <1>1, <1>2, <1>4, OneMove, OpMoves DEF ReplanAnswered
<1>5. CASE Raise("FAILED") /\ UNCHANGED durable
  BY <1>1, <1>2, <1>5, OpMoves DEF ReplanAnswered, durable
<1>6. QED BY <1>2, <1>3, <1>4, <1>5 DEF ReplanAnswered, Refused

\* What execute's verdict leaves behind.
LEMMA JudgedMoves ==
  ASSUME TypeOK, Judged
  PROVE  /\ op.at = "verifying" /\ calls' = calls /\ plan' = plan
         /\ \/ UNCHANGED durable /\ op'.at = "failing" /\ op'.target = "FAILED"
            \/ /\ task'.state \in {"SUCCEEDED", "FAILED", "NEEDS_REVIEW",
                                   "REPLANNING", "BUDGET_EXCEEDED"}
               /\ op'.at = "loop" /\ task'.state \in Allowed(task.state)
               /\ reports' = reports \cup {plan.version}
               /\ task'.state \in {"SUCCEEDED", "REPLANNING"} => usage' <= Budget
<1>1. task \in Row /\ op \in Operation
  BY DEF TypeOK
<1>2. PICK verdict \in Verdicts, cost \in Costs : VerdictAnswered(verdict, cost)
  BY DEF Judged
<1> DEFINE target == VerdictTarget(verdict, usage + cost)
<1>3. CASE Commits(<<target>>) /\ usage' = usage + cost
           /\ reports' = reports \cup {plan.version} /\ Goto("loop")
           /\ UNCHANGED <<plan, calls>>
  <2>1. /\ target \in {"SUCCEEDED", "FAILED", "NEEDS_REVIEW", "REPLANNING",
                       "BUDGET_EXCEEDED"}
        /\ target \in {"SUCCEEDED", "REPLANNING"} => ~(usage + cost > Budget)
    BY DEF VerdictTarget, VerdictState, Verdicts
  <2>2. usage + cost \in Nat /\ Budget \in Nat
    BY Numbers DEF TypeOK
  <2>3. task'.state = target /\ target \in Allowed(task.state) /\ op'.at = "loop"
    BY <1>1, <1>3, OneMove, OpMoves
  <2>4. op.at = "verifying"
    BY <1>2 DEF VerdictAnswered
  <2>5. QED BY <1>3, <2>1, <2>2, <2>3, <2>4
<1>4. CASE Raise("FAILED") /\ UNCHANGED durable
  BY <1>1, <1>2, <1>4, OpMoves DEF VerdictAnswered, durable
<1>5. QED BY <1>2, <1>3, <1>4 DEF VerdictAnswered, Refused

\* A record keeps the plan it belongs to.
LEMMA RecordKeeps ==
  ASSUME TypeOK, StartTool \/ ToolSucceeds \/ CheckFails \/ Raised
  PROVE  plan'.version = plan.version /\ plan'.deps = plan.deps
<1>1. plan' = plan \/ \E s \in StepStatus : plan' = [plan EXCEPT !.status[op.step] = s]
  BY DEF StartTool, ToolSucceeds, CheckFails, Raised, ToolRaises, RecordStep,
         StepStatus
<1>2. plan = NoPlan \/ plan = [version |-> plan.version, deps |-> plan.deps,
                               status |-> plan.status]
  BY DEF TypeOK, PlanTypeOK
<1>3. QED BY <1>1, <1>2 DEF NoPlan

\* Nothing is recorded before there is a plan, and a planned task has one.
LEMMA FreshStep ==
  ASSUME TypeOK, TypeOK', InvRow, InvRow', InvFresh, [Next]_vars
  PROVE  InvFresh'
<1>1. task \in Row /\ op \in Operation
  BY DEF TypeOK
<1>2. /\ plan = NoPlan <=> plan.version = 0
      /\ plan' = NoPlan <=> plan'.version = 0
  <2>1. PlanTypeOK /\ PlanTypeOK'
    BY DEF TypeOK
  <2>2. QED BY <2>1, Versioned DEF PlanTypeOK, NoPlan
<1>3. CASE Planned
  BY <1>2, <1>3, PlannedMoves DEF InvFresh, InvRow, durable, Fresh
<1>4. CASE Replanned
  <2>1. plan.version + 1 # 0
    BY LatestSteps DEF TypeOK
  <2>2. CASE UNCHANGED durable
    BY <1>4, <2>2, ReplannedMoves DEF InvFresh, durable, Fresh
  <2>3. CASE ~UNCHANGED durable
    BY <1>2, <1>4, <2>1, <2>3, ReplannedMoves DEF InvFresh
  <2>4. QED BY <2>2, <2>3
<1>5. CASE StartTool \/ ToolSucceeds \/ CheckFails \/ Raised
  BY <1>2, <1>5, RecordKeeps, StepMoves DEF InvFresh, InvRow, Executing, Raised
<1>6. CASE Judged
  <2>1. task.state = "VERIFYING" \/ UNCHANGED durable
    BY <1>6, JudgedMoves DEF InvRow, Allowed
  <2>2. QED BY <1>6, <2>1, JudgedMoves DEF InvFresh, durable, Fresh
<1>7. CASE ~(\/ Planned \/ Replanned \/ Judged \/ StartTool \/ ToolSucceeds
             \/ CheckFails \/ Raised)
  <2>1. plan' = plan /\ calls' = calls /\ usage' = usage
    BY <1>7, Writers
  <2>2. task'.state \in {"PENDING", "ANALYZING"} => Fresh
    BY RowSources DEF InvFresh, StartAnalysis
  <2>3. op'.at \in {"unscheduled", "start", "snapshot", "planning"} => Fresh
    <3>1. CASE op'.at = op.at
      BY <3>1 DEF InvFresh
    <3>2. CASE op'.at # op.at
      BY <3>2, Edges, ReadStateMoves, ReadTaskMoves DEF InvFresh, StartAnalysis
    <3>3. QED BY <3>1, <3>2
  <2>4. task'.state \in {"EXECUTING", "VERIFYING", "REPLANNING", "SUCCEEDED"} =>
          plan # NoPlan
    <3>1. CASE EnterVerifying /\ task' # task
      <4>1. "VERIFYING" \in Allowed(task.state)
        BY <1>1, <3>1, OneMove DEF EnterVerifying, Refused, durable
      <4>2. task.state = "EXECUTING"
        BY <4>1 DEF Allowed, Abort
      <4>3. QED BY <4>2 DEF InvFresh
    <3>2. CASE ~(EnterVerifying /\ task' # task)
      BY <1>7, <3>2, RowSources DEF InvFresh
    <3>3. QED BY <3>1, <3>2
  <2>5. QED BY <2>1, <2>2, <2>3, <2>4 DEF InvFresh, Fresh
<1>8. QED BY <1>3, <1>4, <1>5, <1>6, <1>7

\* An operation that stays where it is keeps its locals, unless the process ends
\* or starts.
LEMMA Stays ==
  ASSUME TypeOK, [Next]_vars, op'.at = op.at
  PROVE  op' = op \/ Crash \/ Recovery
<1>1. op \in Operation
  BY DEF TypeOK
<1>2. CASE \/ UNCHANGED vars \/ CancelTask \/ CancelLost \/ Exit
  BY <1>2 DEF vars, CancelTask, CancelLost, Exit
<1>3. CASE Schedule \/ Begin \/ ModelCallFails \/ EnterVerifying
  BY <1>1, <1>3, OpMoves
     DEF Schedule, Begin, ModelCallFails, EnterVerifying, Refused, ModelCalls
<1>4. CASE LoadReplan \/ Finish \/ Announce
  BY <1>1, <1>4, OpMoves DEF LoadReplan, Finish, Announce
<1>5. CASE Planned \/ Judged \/ Replanned
  BY <1>5, PlannedMoves, JudgedMoves, ReplannedMoves
<1>6. CASE ReadState
  BY <1>6, ReadStateMoves
<1>7. CASE ReadTask \/ LoadExecution \/ StartAnalysis \/ Checked
  BY <1>7, ReadTaskMoves, LoadExecutionMoves, StartMoves, CheckCancelledMoves
     DEF Checked, StartAnalysis
<1>8. CASE StartTool
  BY <1>1, <1>8, StepSucceededMoves, OpMoves DEF StartTool
<1>9. CASE ToolSucceeds \/ CheckFails \/ Raised
  BY <1>1, <1>9, StepSucceededMoves, OpMoves
     DEF Raised, ToolSucceeds, CheckFails, ToolRaises
<1>10. CASE CancelOperation \/ Stop
  BY <1>1, <1>10, InterruptedMoves DEF CancelOperation, Stop, Working, ModelCalls
<1>11. CASE JudgedLost \/ FinishLost
  BY <1>1, <1>11, LostMoves DEF JudgedLost
<1>12. QED
  BY <1>2, <1>3, <1>4, <1>5, <1>6, <1>7, <1>8, <1>9, <1>10, <1>11
     DEF Next, OperationStep, Environment, Planned, Judged, Replanned,
         Checked, Raised, JudgedLost

\* How the table of calls changes: never a key less, and an open call only for
\* the tool that starts.
LEMMA CallsMoves ==
  ASSUME TypeOK, StartTool \/ ToolSucceeds \/ CheckFails \/ Raised
  PROVE  /\ DOMAIN calls \subseteq DOMAIN calls'
         /\ \A k \in DOMAIN calls' :
              calls'[k] = "started" =>
                \/ k \in DOMAIN calls /\ calls[k] = "started" /\ k # IdempotencyKey
                \/ k \in DOMAIN calls /\ calls[k] = "started" /\ op.at = "checked"
                \/ k = IdempotencyKey /\ op'.at = "running"
         /\ op'.at = "running" => op.at = "checked" /\ op'.step = op.step
<1>1. op \in Operation
  BY DEF TypeOK
<1>2. CASE StartTool
  <2>1. CASE IdempotencyKey \notin DOMAIN calls
    BY <1>1, <1>2, <2>1 DEF StartTool, RecordStep, Put, Goto, Operation
  <2>2. CASE IdempotencyKey \in DOMAIN calls
    BY <1>1, <1>2, <2>2, StepSucceededMoves, OpMoves DEF StartTool
  <2>3. QED BY <2>1, <2>2
<1>3. CASE ToolSucceeds \/ CheckFails \/ Raised
  <2>1. \E c \in {"succeeded", "failed"} : calls' = Put(calls, IdempotencyKey, c)
    BY <1>3 DEF Raised, ToolSucceeds, CheckFails, ToolRaises, RecordStep
  <2>2. op'.at \in {"step", "stepsDone", "failing"}
    BY <1>1, <1>3, StepSucceededMoves, OpMoves
       DEF Raised, ToolSucceeds, CheckFails, ToolRaises
  <2>3. QED BY <2>1, <2>2 DEF Put
<1>4. QED BY <1>2, <1>3

\* Only the scheduler and recovery put a resting operation to work.
LEMMA Awakens ==
  ASSUME TypeOK, TypeOK', [Next]_vars, op.at \in Resting, op'.at \notin Resting
  PROVE  Schedule \/ Resume
<1>1. op'.at \in Working
  BY DEF TypeOK, Operation
<1>2. op'.at # op.at
  OBVIOUS
<1>3. CASE op'.at \in {"scheduled", "loop", "start", "snapshot", "planning"}
  BY <1>2, <1>3, Edges, PlannedMoves, JudgedMoves, ReplannedMoves
     DEF Begin, StartAnalysis, LoadReplan, ReadState, ReadTask, Resting
<1>4. CASE op'.at \notin {"scheduled", "loop", "start", "snapshot", "planning"}
  BY <1>1, <1>2, <1>4, Edges, CheckCancelledMoves
     DEF Working, ModelCalls, LoadReplan, ReadState, LoadExecution, StartTool,
         ToolSucceeds, CheckFails, EnterVerifying, Checked, Resting
<1>5. QED BY <1>3, <1>4

\* A running tool is left only through its outcome, an interrupt or a crash.
LEMMA RunsOn ==
  ASSUME TypeOK, TypeOK', [Next]_vars, op.at = "running", op'.at \notin Resting,
         ~(StartTool \/ ToolSucceeds \/ CheckFails \/ Raised), ~Resume
  PROVE  op' = op /\ plan' = plan
<1>1. op'.at \in Working
  BY DEF TypeOK, Operation
<1>2. op'.at = op.at
  <2>1. SUFFICES ASSUME op'.at # op.at
                 PROVE  FALSE
    OBVIOUS
  <2>2. CASE op'.at \in {"scheduled", "loop", "start", "snapshot", "planning"}
    BY <2>1, <2>2, Edges, PlannedMoves, JudgedMoves, ReplannedMoves
       DEF Schedule, Begin, StartAnalysis, LoadReplan, ReadState, ReadTask
  <2>3. CASE op'.at \notin {"scheduled", "loop", "start", "snapshot", "planning"}
    BY <1>1, <2>1, <2>3, Edges, CheckCancelledMoves
       DEF Working, ModelCalls, LoadReplan, ReadState, LoadExecution,
           EnterVerifying, Checked
  <2>4. QED BY <2>2, <2>3
<1>3. op' = op
  BY <1>2, Stays DEF Crash, Recovery, Resume, Park, LeaveSettled, NoOperation
<1>4. plan' = plan
  BY Writers, PlannedMoves, ReplannedMoves
<1>5. QED BY <1>3, <1>4

\* A call without an outcome never has a working operation beside it.
LEMMA CallsStep ==
  ASSUME TypeOK, TypeOK', InvRow, InvFresh, InvCalls, [Next]_vars
  PROVE  InvCalls'
<1>1. CASE StartTool \/ ToolSucceeds \/ CheckFails \/ Raised
  <2>1. op.at \in {"checked", "running"} /\ plan'.version = plan.version
    BY <1>1, StepMoves, RecordKeeps DEF Raised
  <2>2. ran' \subseteq DOMAIN calls'
    <3>1. ran' = ran \/ (ran' = ran \cup {IdempotencyKey}
                         /\ IdempotencyKey \in DOMAIN calls')
      BY <1>1
         DEF StartTool, ToolSucceeds, CheckFails, Raised, ToolRaises, RecordStep,
             Put, world
    <3>2. QED BY <1>1, <3>1, CallsMoves DEF InvCalls
  <2>3. UncertainCallIsAlone'
    <3>1. SUFFICES ASSUME NEW k \in DOMAIN calls', calls'[k] = "started"
                   PROVE  op'.at = "running" /\ k = IdempotencyKey'
      BY DEF UncertainCallIsAlone
    <3>2. \A j \in DOMAIN calls : calls[j] = "started" =>
             op.at = "running" /\ j = IdempotencyKey
      BY <2>1 DEF InvCalls, UncertainCallIsAlone, Resting
    <3>3. k = IdempotencyKey /\ op'.at = "running"
      BY <1>1, <2>1, <3>1, <3>2, CallsMoves
    <3>4. IdempotencyKey' = IdempotencyKey
      BY <1>1, <2>1, <3>3, CallsMoves DEF IdempotencyKey
    <3>5. QED BY <3>3, <3>4
  <2>4. QED BY <2>2, <2>3 DEF InvCalls
<1>2. CASE ~(StartTool \/ ToolSucceeds \/ CheckFails \/ Raised)
  <2>1. calls' = calls /\ ran' = ran
    BY <1>2, Writers
  <2>2. UncertainCallIsAlone'
    <3>1. SUFFICES ASSUME NEW k \in DOMAIN calls, calls[k] = "started",
                          op'.at \notin Resting
                   PROVE  op'.at = "running" /\ k = IdempotencyKey'
      BY <2>1 DEF UncertainCallIsAlone
    <3>2. calls # Empty
      BY <3>1 DEF Empty
    <3>3. ~Schedule /\ ~Resume
      <4>1. UncertainSideEffect
        BY <3>1 DEF UncertainSideEffect
      <4>2. QED
        BY <3>2, <4>1 DEF Schedule, Resume, Resumable, InvFresh, Fresh
    <3>4. op.at = "running" /\ k = IdempotencyKey
      BY <3>1, <3>3, Awakens DEF InvCalls, UncertainCallIsAlone
    <3>5. op' = op /\ plan' = plan
      BY <1>2, <3>1, <3>3, <3>4, RunsOn
    <3>6. QED BY <3>4, <3>5 DEF IdempotencyKey
  <2>3. QED BY <2>1, <2>2 DEF InvCalls
<1>3. QED BY <1>1, <1>2

\* What the theorems below are proved from.
Grounded == TypeOK /\ InvStep /\ InvRow /\ InvFresh /\ InvCalls

\* Types, row, freshness and calls hold together in every state.
THEOREM GroundedCorrect == Spec => []Grounded
<1>1. Init => InvFresh /\ InvCalls
  BY DEF Init, InvFresh, Fresh, InvCalls, UncertainCallIsAlone, NoOperation, Empty
<1>2. TypeOK /\ InvStep /\ InvRow /\ TypeOK' /\ InvRow' /\ InvFresh /\ [Next]_vars
        => InvFresh'
  BY FreshStep
<1>3. TypeOK /\ TypeOK' /\ InvRow /\ InvFresh /\ InvCalls /\ [Next]_vars => InvCalls'
  BY CallsStep
<1>4. QED BY <1>1, <1>2, <1>3, RowCorrect, PTL DEF Spec, Grounded

\* A call that a crash, a shutdown or a cancellation left without an outcome
\* never has a working operation beside it, unless that one runs the call.
THEOREM UncertainCorrect == Spec => []UncertainCallIsAlone
<1>1. Grounded => UncertainCallIsAlone
  BY DEF Grounded, InvCalls
<1>2. QED BY <1>1, GroundedCorrect, PTL

\* No tool is let loose twice under one idempotency key.
THEOREM OnceCorrect == Spec => ToolRunsOnce
<1>1. ASSUME Grounded, [Next]_vars, op.at # "running", op'.at = "running"
      PROVE  IdempotencyKey' \notin ran
  <2>1. op \in Operation /\ StartTool
    BY <1>1, Edges DEF Grounded, TypeOK
  <2>2. IdempotencyKey \notin DOMAIN calls
    BY <1>1, <2>1, StepSucceededMoves, OpMoves DEF StartTool
  <2>3. IdempotencyKey' = IdempotencyKey
    BY <1>1, <2>1, CallsMoves, RecordKeeps DEF Grounded, IdempotencyKey
  <2>4. QED BY <1>1, <2>2, <2>3 DEF Grounded, InvCalls
<1>2. Grounded /\ [Next]_vars =>
        [op.at # "running" /\ op'.at = "running" => IdempotencyKey' \notin ran]_vars
  BY <1>1
<1>3. QED BY <1>2, GroundedCorrect, PTL DEF Spec, ToolRunsOnce

-----------------------------------------------------------------------------
(* The budget and the accounts of a task that succeeded.                   *)

\* Verification starts from EXECUTING and its verdict from VERIFYING.
LEMMA VerifySources ==
  ASSUME TypeOK, InvRow, [Next]_vars, task'.state # task.state
  PROVE  /\ task'.state = "VERIFYING" =>
              EnterVerifying /\ op.at = "stepsDone" /\ task.state = "EXECUTING"
         /\ task'.state \in {"REPLANNING", "SUCCEEDED"} =>
              Judged /\ op.at = "verifying" /\ task.state = "VERIFYING"
<1>1. CASE task'.state = "VERIFYING"
  <2>1. EnterVerifying /\ task' # task
    BY <1>1, RowSources
  <2>2. "VERIFYING" \in Allowed(task.state)
    BY <2>1, OneMove DEF EnterVerifying, Refused, durable, TypeOK
  <2>3. task.state = "EXECUTING"
    BY <2>2 DEF Allowed, Abort
  <2>4. QED BY <1>1, <2>1, <2>3 DEF EnterVerifying
<1>2. CASE task'.state \in {"REPLANNING", "SUCCEEDED"}
  <2>1. Judged
    BY <1>2, RowSources
  <2>2. task.state = "VERIFYING"
    BY <1>2, <2>1, JudgedMoves DEF durable, InvRow, Allowed
  <2>3. QED BY <1>2, <2>1, <2>2, JudgedMoves
<1>3. QED BY <1>1, <1>2

\* Every answer that lets the task go on is weighed against the budget.
LEMMA BudgetStep ==
  ASSUME Grounded, WithinBudget, [Next]_vars
  PROVE  WithinBudget'
<1> USE DEF Grounded
<1>1. CASE Planned
  <2>1. CASE UNCHANGED durable
    BY <2>1 DEF durable, WithinBudget
  <2>2. CASE ~UNCHANGED durable /\ task'.state = "EXECUTING"
    <3>1. PICK cost \in Costs : cost <= Budget /\ usage' = usage + cost
      BY <1>1, <2>2, PlannedMoves
    <3>2. usage = 0 /\ cost \in Nat
      BY <1>1, Numbers DEF Planned, PlanAnswered, InvFresh, Fresh
    <3>3. QED BY <3>1, <3>2 DEF WithinBudget
  <2>3. QED BY <1>1, <2>1, <2>2, PlannedMoves DEF WithinBudget
<1>2. CASE Replanned
  BY <1>2, ReplannedMoves DEF durable, WithinBudget
<1>3. CASE Judged
  BY <1>3, JudgedMoves DEF durable, WithinBudget
<1>4. CASE ~(Planned \/ Replanned \/ Judged)
  <2>1. usage' = usage
    BY <1>4, Writers
  <2>2. CASE task'.state = task.state
    BY <2>1, <2>2 DEF WithinBudget
  <2>3. CASE task'.state # task.state
    BY <1>4, <2>1, <2>3, RowSources, VerifySources DEF WithinBudget
  <2>4. QED BY <2>2, <2>3
<1>5. QED BY <1>1, <1>2, <1>3, <1>4

\* A task that may still run tools or has succeeded is within its budget.
THEOREM BudgetCorrect == Spec => []WithinBudget
<1>1. Init => WithinBudget
  BY DEF Init, WithinBudget
<1>2. Grounded /\ WithinBudget /\ [Next]_vars => WithinBudget'
  BY BudgetStep
<1>3. QED BY <1>1, <1>2, GroundedCorrect, PTL DEF Spec

\* A success is recorded with the report on its plan and stays as it is.
LEMMA SuccessStep ==
  ASSUME Grounded, SuccessIsAccounted, [Next]_vars
  PROVE  SuccessIsAccounted'
<1> USE DEF Grounded
<1>1. SUFFICES ASSUME task'.state = "SUCCEEDED"
               PROVE  /\ plan'.version \in reports'
                      /\ \A k \in DOMAIN calls' : calls'[k] # "started"
  BY DEF SuccessIsAccounted
<1>2. CASE task.state = "SUCCEEDED"
  <2>1. ~Planned \/ UNCHANGED durable
    BY <1>2, PlannedMoves DEF InvRow
  <2>2. ~Replanned \/ UNCHANGED durable
    BY <1>2, ReplannedMoves DEF InvRow
  <2>3. ~(StartTool \/ ToolSucceeds \/ CheckFails \/ Raised)
    BY <1>2, StepMoves DEF InvRow, Executing, Raised
  <2>4. reports \subseteq reports'
    BY Writers, JudgedMoves DEF durable
  <2>5. QED BY <1>2, <2>1, <2>2, <2>3, <2>4, Writers DEF SuccessIsAccounted, durable
<1>3. CASE task.state # "SUCCEEDED"
  <2>1. Judged /\ op.at = "verifying"
    BY <1>1, <1>3, VerifySources
  <2>2. ~UNCHANGED durable
    BY <1>1, <1>3 DEF durable
  <2>3. \A k \in DOMAIN calls : calls[k] # "started"
    BY <2>1 DEF InvCalls, UncertainCallIsAlone, Resting
  <2>4. QED BY <2>1, <2>2, <2>3, JudgedMoves
<1>4. QED BY <1>2, <1>3

\* A task that succeeded has a report on its latest plan and no open call.
THEOREM SuccessCorrect == Spec => []SuccessIsAccounted
<1>1. Init => SuccessIsAccounted
  BY DEF Init, SuccessIsAccounted
<1>2. Grounded /\ SuccessIsAccounted /\ [Next]_vars => SuccessIsAccounted'
  BY SuccessStep
<1>3. QED BY <1>1, <1>2, GroundedCorrect, PTL DEF Spec

-----------------------------------------------------------------------------
(* What a cancellation rules out.                                          *)

\* A plan has a step, so an operation with nothing done has steps to run.
LEMMA PlanHasSteps ==
  ASSUME PlanTypeOK, plan # NoPlan
  PROVE  DOMAIN plan.deps # {}
BY PlansAssumption DEF PlanTypeOK, Wellfounded

\* The flag and the snapshot that run has taken of it.
LEMMA CancelStep ==
  ASSUME Grounded, TypeOK', InvRow', InvCancel, InvRevived, [Next]_vars
  PROVE  InvCancel'
<1> USE DEF Grounded
<1>1. task \in Row /\ op \in Operation
  BY DEF TypeOK
<1>2. task'.cancelRequested =>
        task'.state \in {"ANALYZING", "EXECUTING", "NEEDS_REVIEW"}
                           \cup TERMINAL_STATES
  <2>1. CASE task.cancelRequested
    <3>1. CASE task'.state = task.state
      BY <2>1, <3>1 DEF InvCancel
    <3>2. CASE task'.state # task.state
      <4>1. task'.state \notin {"PENDING", "VERIFYING", "REPLANNING"}
        BY <2>1, <3>2, RowSources, VerifySources DEF InvCancel, InvRevived,
           TERMINAL_STATES
      <4>2. QED BY <4>1 DEF InvRow, SeenStates
    <3>3. QED BY <3>1, <3>2
  <2>2. CASE ~task.cancelRequested /\ task'.cancelRequested
    <3>1. CancelTask
      BY <1>1, <2>2, FlagMoves
    <3>2. QED BY <1>1, <3>1 DEF CancelTask, TERMINAL_STATES, Row
  <2>3. QED BY <2>1, <2>2
<1>3. task'.state = "CANCELLED" /\ op'.at \in {"start", "snapshot"} =>
        task'.cancelRequested
  <2>1. SUFFICES ASSUME task'.state = "CANCELLED", op'.at \in {"start", "snapshot"}
                 PROVE  task'.cancelRequested
    OBVIOUS
  <2>2. CASE op'.at # op.at
    BY <2>1, <2>2, Edges, ReadStateMoves, ReadTaskMoves DEF InvCancel
  <2>3. CASE op'.at = op.at /\ task'.state = task.state
    BY <2>1, <2>3, FlagMoves DEF InvCancel
  <2>4. CASE op'.at = op.at /\ task'.state # task.state
    <3>1. CancelTask
      BY <2>1, <2>4, RowSources, StartMoves DEF StartAnalysis, Finish
    <3>2. QED BY <1>1, <3>1 DEF CancelTask, Row
  <2>5. QED BY <2>2, <2>3, <2>4
<1>4. op'.at = "snapshot" =>
        /\ op'.seen.state = "PENDING" => ~op'.seen.cancelRequested
        /\ op'.seen.state \in {"PENDING", "CANCELLED"}
  <2>1. CASE op'.at = "snapshot" /\ op.at # "snapshot"
    BY <2>1, Edges, ReadTaskMoves DEF InvCancel, InvRow, TERMINAL_STATES
  <2>2. CASE op'.at = "snapshot" /\ op.at = "snapshot"
    <3>1. op' = op
      BY <2>2, Stays DEF Crash, Recovery, Resume, Park, LeaveSettled, NoOperation
    <3>2. QED BY <2>2, <3>1 DEF InvCancel
  <2>3. QED BY <2>1, <2>2
<1>5. QED BY <1>2, <1>3, <1>4 DEF InvCancel

\* A cancelled task that executes after all is stopped by its first check.
LEMMA RevivedStep ==
  ASSUME Grounded, InvCancel, InvRevived, [Next]_vars
  PROVE  InvRevived'
<1> USE DEF Grounded
<1>1. SUFFICES ASSUME task'.cancelRequested, task'.state = "EXECUTING"
               PROVE  /\ op'.at \notin {"checked", "running", "stepsDone"}
                      /\ \A s \in DOMAIN plan'.status : plan'.status[s] = "pending"
  BY DEF InvRevived
<1>2. task \in Row /\ op \in Operation
  BY DEF TypeOK
<1>3. CASE task.state # "EXECUTING"
  BY <1>1, <1>3, RowSources, PlannedMoves, ReplannedMoves DEF durable
<1>4. CASE task.state = "EXECUTING"
  <2>1. task.cancelRequested
    <3>1. ~CancelTask
      BY <1>1, <1>4 DEF CancelTask, TERMINAL_STATES
    <3>2. QED BY <1>1, <3>1, FlagMoves
  <2>2. /\ op.at \notin {"checked", "running", "stepsDone"}
        /\ \A s \in DOMAIN plan.status : plan.status[s] = "pending"
    BY <1>4, <2>1 DEF InvRevived
  <2>3. plan' = plan
    BY <1>4, <2>2, Writers, PlannedMoves, ReplannedMoves, StepMoves
       DEF InvRow, Raised, durable
  <2>4. op'.at # "checked"
    BY <2>1, <2>2, Edges, CheckCancelledMoves DEF Checked
  <2>5. op'.at # "running"
    BY <2>2, Edges DEF StartTool
  <2>6. op'.at # "stepsDone"
    <3>1. SUFFICES ASSUME op'.at = "stepsDone"
                   PROVE  FALSE
      OBVIOUS
    <3>2. LoadExecution
      BY <2>2, <3>1, Edges DEF StartTool, ToolSucceeds, CheckFails
    <3>3. op' = NextWave(op, {s \in DOMAIN plan.status :
                                plan.status[s] = "succeeded"})
      BY <1>2, <3>1, <3>2 DEF LoadExecution, Raise, Operation
    <3>4. {s \in DOMAIN plan.status : plan.status[s] = "succeeded"} = {}
      BY <2>2
    <3>5. DOMAIN plan.deps # {}
      BY <1>4, PlanHasSteps DEF InvFresh, TypeOK
    <3>6. QED BY <1>2, <3>1, <3>3, <3>4, <3>5 DEF NextWave, Operation
  <2>7. QED BY <2>2, <2>3, <2>4, <2>5, <2>6
<1>5. QED BY <1>3, <1>4

\* What holds of a task and of its cancellation.
Guarded == Grounded /\ InvCancel /\ InvRevived

\* What a committed cancellation rules out holds in every state.
THEOREM GuardedCorrect == Spec => []Guarded
<1>1. Init => InvCancel /\ InvRevived
  BY DEF Init, InvCancel, InvRevived, NoOperation
<1>2. Grounded /\ Grounded' /\ InvCancel /\ InvRevived /\ [Next]_vars =>
        InvCancel' /\ InvRevived'
  BY CancelStep, RevivedStep DEF Grounded
<1>3. QED BY <1>1, <1>2, GroundedCorrect, PTL DEF Spec, Guarded

\* A task whose cancellation was acknowledged never gets to verification.
THEOREM CancelledCorrect == Spec => CancelledNeverVerifies
<1>1. ASSUME Guarded, [Next]_vars, task.cancelRequested, task'.state # task.state
      PROVE  task'.state \notin {"VERIFYING", "REPLANNING", "SUCCEEDED"}
  BY <1>1, VerifySources
     DEF Guarded, Grounded, InvCancel, InvRevived, TERMINAL_STATES
<1>2. Guarded /\ [Next]_vars =>
        [task.cancelRequested /\ task'.state # task.state =>
           task'.state \notin {"VERIFYING", "REPLANNING", "SUCCEEDED"}]_vars
  BY <1>1
<1>3. QED BY <1>2, GuardedCorrect, PTL DEF Spec, CancelledNeverVerifies

\* A terminal state is left only by run's unlocked read of a task that was
\* cancelled meanwhile.
THEOREM TerminalCorrect == Spec => TerminalIsLeftOnlyByStaleStart
<1>1. ASSUME Guarded, [Next]_vars, task.state \in TERMINAL_STATES,
             task'.state # task.state
      PROVE  /\ task.state = "CANCELLED" /\ task'.state = "ANALYZING"
             /\ op.at = "snapshot" /\ op.seen.version = task'.version - 1
  <2>1. task \in Row /\ op \in Operation
    BY <1>1 DEF Guarded, Grounded, TypeOK
  <2>2. Allowed(task.state) = {}
    BY <1>1 DEF Allowed, TERMINAL_STATES
  <2>3. StartAnalysis
    <3>1. ~(Planned \/ Judged \/ Replanned)
      BY <1>1, <2>2, PlannedMoves, JudgedMoves, ReplannedMoves
         DEF Guarded, Grounded, durable
    <3>2. ~(EnterVerifying \/ LoadReplan \/ Finish \/ Park)
      BY <1>1, <2>1, <2>2, OneMove
         DEF EnterVerifying, LoadReplan, Finish, Park, Refused, durable
    <3>3. ~CancelTask
      BY <1>1, <2>1 DEF CancelTask, Row
    <3>4. QED BY <1>1, <3>1, <3>2, <3>3, Writers
  <2>4. op.at = "snapshot" /\ task.state = "CANCELLED"
    BY <1>1, <2>3 DEF StartAnalysis, Guarded, Grounded, InvRow, TERMINAL_STATES
  <2>5. task'.state = "ANALYZING" /\ task'.version = op.seen.version + 1
    BY <1>1, <2>3, <2>4, StartMoves DEF Guarded, Grounded
  <2>6. op.seen.version \in Nat
    BY <2>1 DEF Operation, Row
  <2>7. QED BY <2>4, <2>5, <2>6
<1>2. Guarded /\ [Next]_vars =>
        [task.state \in TERMINAL_STATES /\ task'.state # task.state =>
           /\ task.state = "CANCELLED" /\ task'.state = "ANALYZING"
           /\ op.at = "snapshot" /\ op.seen.version = task'.version - 1]_vars
  BY <1>1
<1>3. QED BY <1>2, GuardedCorrect, PTL DEF Spec, TerminalIsLeftOnlyByStaleStart

=============================================================================
