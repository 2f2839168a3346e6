----------------------------- MODULE TaskProofs -----------------------------
(***************************************************************************)
(* Type correctness of TaskOrchestration, for every plan set, budget and   *)
(* bound on faults, and the lemmas about its operators that the safety     *)
(* proofs of TaskSafetyProofs cite as well.                                *)
(***************************************************************************)
EXTENDS TaskInductive, TLAPS

\* A step of any plan is a step.
LEMMA PlanSteps == \A p \in Plans : DOMAIN p \subseteq Steps
BY DEF Steps

\* The latest plan only has steps that some plan has.
LEMMA LatestSteps ==
  ASSUME PlanTypeOK
  PROVE  /\ DOMAIN plan.deps \subseteq Steps
         /\ DOMAIN plan.status = DOMAIN plan.deps
         /\ plan.version \in Nat
<1>1. CASE plan = NoPlan
  BY <1>1 DEF NoPlan, Empty
<1>2. CASE plan # NoPlan
  BY <1>2, PlanSteps DEF PlanTypeOK
<1>3. QED BY <1>1, <1>2

\* A path taken from any row leads to a row and to events of the timeline.
LEMMA MovesType ==
  ASSUME task \in Row, timeline \in Seq(Event),
         NEW from \in Row, NEW path \in Seq(TaskState), path # <<>>,
         Moves(from, path)
  PROVE  task' \in Row /\ timeline' \in Seq(Event)
<1>1. Len(path) \in 1 .. Len(path) /\ Len(path) \in Nat
  OBVIOUS
<1>2. path[Len(path)] \in TaskState
  BY <1>1
<1>3. task' \in Row
  <2>1. /\ task' = [task EXCEPT !.state = path[Len(path)],
                               !.version = from.version + Len(path)]
        /\ from.version + Len(path) \in Nat
    BY <1>1 DEF Moves, Row
  <2>2. QED BY <1>2, <2>1 DEF Row
<1>4. [i \in DOMAIN path |-> [to |-> path[i], version |-> from.version + i]]
        \in Seq(Event)
  <2> DEFINE moved == [i \in DOMAIN path |->
                         [to |-> path[i], version |-> from.version + i]]
  <2>1. DOMAIN path = 1 .. Len(path) /\ DOMAIN path \subseteq Nat
    OBVIOUS
  <2>2. \A i \in DOMAIN path :
           [to |-> path[i], version |-> from.version + i] \in Event
    BY <2>1 DEF Event, Row
  <2>3. moved \in [1 .. Len(path) -> Event]
    BY <2>1, <2>2
  <2>4. QED BY <1>1, <2>3
<1>5. QED BY <1>3, <1>4 DEF Moves

\* Publishing adds a message or leaves the store as it is.
LEMMA PublishType ==
  ASSUME messages \in Seq(Message), NEW m \in Message, Publish(m)
  PROVE  messages' \in Seq(Message)
BY DEF Publish

\* The next wave of a well-formed operation is well-formed.
LEMMA NextWaveType ==
  ASSUME PlanTypeOK, NEW o \in Operation, NEW done \in SUBSET Steps
  PROVE  NextWave(o, done) \in Operation
BY LatestSteps DEF NextWave, Operation, Working, Resting, ModelCalls

\* The values the constants give a row, an operation and a message.
LEMMA Vocabulary ==
  /\ "none" \notin TaskState
  /\ \A target \in {"FAILED", "NEEDS_REVIEW", "CANCELLED"} : target \in TaskState
  /\ \A s \in TaskState : Handler(s) \in Working \cup Resting
  /\ \A v \in Verdicts, n \in Nat : VerdictTarget(v, n) \in TaskState
BY DEF TaskState, Handler, Working, Resting, ModelCalls, Verdicts, VerdictTarget,
       VerdictState

\* An operation that raises, or that only moves on, stays well-formed.
LEMMA GotoType ==
  ASSUME op \in Operation
  PROVE  /\ \A target \in {"FAILED", "NEEDS_REVIEW", "CANCELLED"} :
              Raise(target) => op' \in Operation /\ op'.at = "failing"
         /\ \A at \in Working \cup Resting :
              Goto(at) => op' \in Operation /\ op'.at = at /\ op'.step = op.step
BY DEF Raise, Goto, Operation, Resting

\* A step that only moves the operation keeps the types of everything else.
LEMMA OperationOnlyType ==
  ASSUME TypeOK, OperationOnly, op' \in Operation
  PROVE  TypeOK'
BY DEF TypeOK, OperationOnly, durable, world, bounds, PlanTypeOK

\* The initial values have their types.
LEMMA TypeInit == Init => TypeOK /\ InvStep
<1> SUFFICES ASSUME Init PROVE TypeOK /\ InvStep
  OBVIOUS
<1>1. task \in Row
  BY DEF Init, Row, TaskState
<1>2. op \in Operation /\ op.at = "unscheduled"
  BY <1>1 DEF Init, NoOperation, Operation, Resting
<1>3. calls \in [DOMAIN calls -> CallStatus] /\ DOMAIN calls = {}
  BY DEF Init, Empty
<1>4. QED
  BY <1>1, <1>2, <1>3, NumbersAssumption
     DEF Init, TypeOK, InvStep, PlanTypeOK

\* A legal single transition of the row, with everything it may carry along.
LEMMA CommitsType ==
  ASSUME task \in Row, timeline \in Seq(Event), NEW s \in TaskState,
         Commits(<<s>>)
  PROVE  task' \in Row /\ timeline' \in Seq(Event)
<1>1. <<s>> \in Seq(TaskState) /\ <<s>> # <<>>
  OBVIOUS
<1>2. QED BY <1>1, MovesType DEF Commits

\* The outcome of a step is recorded under a key of the right kind.
LEMMA RecordType ==
  ASSUME TypeOK, op.step \in Steps, NEW c \in CallStatus, NEW s \in StepStatus,
         RecordStep(c, s)
  PROVE  /\ PlanTypeOK'
         /\ DOMAIN calls' \subseteq Nat \X Steps
         /\ calls' \in [DOMAIN calls' -> CallStatus]
         /\ IdempotencyKey \in Nat \X Steps
<1>1. IdempotencyKey \in Nat \X Steps
  BY LatestSteps DEF TypeOK, IdempotencyKey
<1>2. /\ DOMAIN calls' \subseteq Nat \X Steps
      /\ calls' \in [DOMAIN calls' -> CallStatus]
  BY <1>1 DEF RecordStep, Put, TypeOK
<1>3. PlanTypeOK'
  <2>1. CASE plan = NoPlan
    BY <2>1 DEF RecordStep, PlanTypeOK, NoPlan, Empty
  <2>2. CASE plan # NoPlan
    BY <2>2 DEF RecordStep, PlanTypeOK, TypeOK
  <2>3. QED BY <2>1, <2>2
<1>4. QED BY <1>1, <1>2, <1>3

\* After a step the operation is at the next one, or done with the steps.
LEMMA StepSucceededType ==
  ASSUME TypeOK, op.step \in Steps, StepSucceeded
  PROVE  op' \in Operation /\ op'.at \in {"step", "stepsDone", "failing"}
<1> DEFINE o == [op EXCEPT !.wave = @ \ {op.step}, !.done = @ \cup {op.step}]
<1>1. o \in Operation
  BY DEF TypeOK, Operation
<1>2. o.done \in SUBSET Steps
  BY <1>1 DEF Operation
<1>3. CASE o.wave # {}
  BY <1>1, <1>3 DEF StepSucceeded, Operation, Working
<1>4. CASE o.wave = {}
  <2>1. op' = NextWave(o, o.done)
    BY <1>4 DEF StepSucceeded
  <2>2. op' \in Operation
    BY <1>1, <1>2, <2>1, NextWaveType DEF TypeOK
  <2>3. op'.at \in {"step", "stepsDone", "failing"}
    BY <1>1, <2>1 DEF NextWave, Operation
  <2>4. QED BY <2>2, <2>3
<1>5. QED BY <1>3, <1>4

\* Every step of the scheduler, the loop, execute's reads and the interrupts
\* only moves the operation.
LEMMA OperationOnlySteps ==
  ASSUME TypeOK, InvStep, OperationOnly,
         Schedule \/ Begin \/ ReadState \/ ReadTask \/ ModelCallFails
           \/ LoadExecution \/ \E s \in Steps : CheckCancelled(s)
  PROVE  TypeOK' /\ InvStep'
<1> USE DEF TypeOK
<1>1. CASE Schedule \/ Begin
  BY <1>1, GotoType, OperationOnlyType DEF Schedule, Begin, InvStep, Working
<1>2. CASE ReadState
  <2>1. Turns \in Nat
    BY DEF Turns, Operation
  <2>2. task.state \in TaskState /\ Handler(task.state) \in Working \cup Resting
    BY Vocabulary DEF Row
  <2>3. op' \in Operation
    BY <1>2, <2>1, <2>2 DEF ReadState, Operation, Resting
  <2>4. op'.at \notin {"checked", "running"}
    BY <1>2 DEF ReadState, Handler, Operation
  <2>5. QED BY <2>3, <2>4, OperationOnlyType DEF InvStep
<1>3. CASE ReadTask
  BY <1>3, OperationOnlyType DEF ReadTask, Operation, Working, InvStep
<1>4. CASE ModelCallFails
  BY <1>4, GotoType, OperationOnlyType DEF ModelCallFails, InvStep
<1>5. CASE LoadExecution
  <2>1. CASE Raise("FAILED")
    BY <2>1, GotoType, OperationOnlyType DEF InvStep
  <2>2. CASE ~Raise("FAILED")
    <3> DEFINE done == {s \in DOMAIN plan.status : plan.status[s] = "succeeded"}
    <3>1. op' = NextWave(op, done) /\ done \in SUBSET Steps
      BY <1>5, <2>2, LatestSteps DEF LoadExecution
    <3>2. op' \in Operation
      BY <3>1, NextWaveType
    <3>3. op'.at \notin {"checked", "running"}
      BY <3>1 DEF NextWave, Operation
    <3>4. QED BY <3>2, <3>3, OperationOnlyType DEF InvStep
  <2>3. QED BY <2>1, <2>2
<1>6. CASE \E s \in Steps : CheckCancelled(s)
  <2>1. PICK s \in Steps : CheckCancelled(s)
    BY <1>6
  <2>2. CASE Raise("FAILED")
    BY <2>2, GotoType, OperationOnlyType DEF InvStep
  <2>3. CASE op' = [op EXCEPT !.at = "checked", !.step = s]
    BY <2>3, OperationOnlyType DEF Operation, Working, InvStep
  <2>4. QED BY <2>1, <2>2, <2>3 DEF CheckCancelled
<1>7. QED BY <1>1, <1>2, <1>3, <1>4, <1>5, <1>6

\* The constants of NumbersAssumption as they are used below.
LEMMA Numbers ==
  /\ \A v \in FirstVersions : v \in Nat /\ v # 0
  /\ \A cost \in Costs : cost \in Nat
  /\ MaxRevisions \in Nat /\ Budget \in Nat /\ MaxCrashes \in Nat
BY NumbersAssumption

\* A new plan has the type of a plan.
LEMMA NewPlanType ==
  ASSUME NEW p \in Plans, NEW version \in Nat, version # 0,
         plan' = NewPlan(version, p)
  PROVE  PlanTypeOK'
BY DEF NewPlan, PlanTypeOK, StepStatus

\* run's two transactions.
LEMMA RunType ==
  ASSUME TypeOK, InvStep,
         \/ StartAnalysis
         \/ \E p \in Plans, version \in FirstVersions, cost \in Costs :
              PlanAnswered(p, version, cost)
  PROVE  TypeOK' /\ InvStep'
<1> USE DEF TypeOK
<1>1. CASE StartAnalysis
  <2> DEFINE target == IF op.seen.cancelRequested THEN "CANCELLED" ELSE "ANALYZING"
  <2>1. <<target>> \in Seq(TaskState) /\ <<target>> # <<>> /\ op.seen \in Row
    BY DEF TaskState, Operation
  <2>2. CASE Moves(op.seen, <<target>>)
    <3>1. task' \in Row /\ timeline' \in Seq(Event)
      BY <2>1, <2>2, MovesType
    <3>2. op' \in Operation /\ op'.at \in {"planning", "loop", "failing"}
      BY <1>1, GotoType DEF StartAnalysis, Working, ModelCalls
    <3>3. QED
      BY <1>1, <3>1, <3>2
         DEF StartAnalysis, InvStep, PlanTypeOK, world, bounds
  <2>3. CASE Raise("FAILED") /\ UNCHANGED <<task, timeline>>
    BY <1>1, <2>3, GotoType DEF StartAnalysis, InvStep, PlanTypeOK, world, bounds
  <2>4. QED BY <1>1, <2>2, <2>3 DEF StartAnalysis
<1>2. CASE \E p \in Plans, version \in FirstVersions, cost \in Costs :
             PlanAnswered(p, version, cost)
  <2>1. PICK p \in Plans, version \in FirstVersions, cost \in Costs :
               PlanAnswered(p, version, cost)
    BY <1>2
  <2>2. /\ UNCHANGED <<messages, world, process, canceller, bounds>>
        /\ usage + cost \in Nat
    BY <2>1, Numbers DEF PlanAnswered
  <2>3. CASE Commits(PlanPath) /\ plan' = NewPlan(version, p)
                /\ usage' = usage + cost /\ Goto("loop")
                /\ UNCHANGED <<calls, reports>>
    <3>1. PlanPath \in Seq(TaskState) /\ PlanPath # <<>>
      BY DEF PlanPath, TaskState
    <3>2. task' \in Row /\ timeline' \in Seq(Event)
      BY <2>3, <3>1, MovesType DEF Commits
    <3>3. PlanTypeOK'
      BY <2>3, NewPlanType, Numbers
    <3>4. op' \in Operation /\ op'.at = "loop"
      BY <2>3, GotoType DEF Working
    <3>5. QED BY <2>2, <2>3, <3>2, <3>3, <3>4 DEF InvStep, world, bounds
  <2>4. CASE Commits(<<"BUDGET_EXCEEDED">>) /\ usage' = usage + cost
               /\ Goto("loop") /\ UNCHANGED <<plan, calls, reports>>
    <3>1. task' \in Row /\ timeline' \in Seq(Event)
      BY <2>4, CommitsType DEF TaskState
    <3>2. op' \in Operation /\ op'.at = "loop"
      BY <2>4, GotoType DEF Working
    <3>3. QED BY <2>2, <2>4, <3>1, <3>2 DEF InvStep, PlanTypeOK, world, bounds
  <2>5. CASE Raise("FAILED") /\ UNCHANGED durable
    BY <2>2, <2>5, GotoType DEF InvStep, PlanTypeOK, durable, world, bounds
  <2>6. QED BY <2>1, <2>3, <2>4, <2>5 DEF PlanAnswered, Refused
<1>3. QED BY <1>1, <1>2

\* execute's transactions on the step records.
LEMMA StepType ==
  ASSUME TypeOK, InvStep,
         \/ StartTool \/ ToolSucceeds \/ CheckFails
         \/ \E target \in {"FAILED", "NEEDS_REVIEW"} : ToolRaises(target)
  PROVE  TypeOK' /\ InvStep'
<1> USE DEF TypeOK
<1>1. op.step \in Steps
  BY DEF InvStep, StartTool, ToolSucceeds, CheckFails, ToolRaises
<1>2. CASE StartTool
  <2>1. CASE IdempotencyKey \notin DOMAIN calls
    <3>1. RecordStep("started", "running") /\ Goto("running")
          /\ ran' = ran \cup {IdempotencyKey}
          /\ late' = IF task.cancelRequested THEN late + 1 ELSE late
      BY <1>2, <2>1 DEF StartTool
    <3>2. op' \in Operation /\ op'.step = op.step
      BY <3>1, GotoType DEF Working
    <3>3. /\ PlanTypeOK'
          /\ DOMAIN calls' \subseteq Nat \X Steps
          /\ calls' \in [DOMAIN calls' -> CallStatus]
          /\ IdempotencyKey \in Nat \X Steps
      BY <1>1, <3>1, RecordType DEF CallStatus, StepStatus
    <3>4. QED
      BY <1>1, <1>2, <3>1, <3>2, <3>3 DEF StartTool, InvStep, bounds
  <2>2. CASE IdempotencyKey \in DOMAIN calls
    <3>1. op' \in Operation /\ op'.at \in {"step", "stepsDone", "failing"}
      BY <1>1, <1>2, <2>2, StepSucceededType, GotoType DEF StartTool
    <3>2. QED
      BY <1>2, <2>2, <3>1 DEF StartTool, InvStep, PlanTypeOK, world, bounds
  <2>3. QED BY <2>1, <2>2
<1>3. CASE ToolSucceeds
  <2>1. op' \in Operation /\ op'.at \in {"step", "stepsDone", "failing"}
    BY <1>1, <1>3, StepSucceededType DEF ToolSucceeds
  <2>2. PlanTypeOK' /\ DOMAIN calls' \subseteq Nat \X Steps
        /\ calls' \in [DOMAIN calls' -> CallStatus]
    BY <1>1, <1>3, RecordType DEF ToolSucceeds, CallStatus, StepStatus
  <2>3. QED BY <1>3, <2>1, <2>2 DEF ToolSucceeds, InvStep, world, bounds
<1>4. CASE CheckFails
  <2>1. op' \in Operation /\ op'.at = "stepsDone"
    BY <1>4, GotoType DEF CheckFails, Working
  <2>2. PlanTypeOK' /\ DOMAIN calls' \subseteq Nat \X Steps
        /\ calls' \in [DOMAIN calls' -> CallStatus]
    BY <1>1, <1>4, RecordType DEF CheckFails, CallStatus, StepStatus
  <2>3. QED BY <1>4, <2>1, <2>2 DEF CheckFails, InvStep, world, bounds
<1>5. CASE \E target \in {"FAILED", "NEEDS_REVIEW"} : ToolRaises(target)
  <2>1. PICK target \in {"FAILED", "NEEDS_REVIEW"} : ToolRaises(target)
    BY <1>5
  <2>2. op' \in Operation /\ op'.at = "failing"
    BY <2>1, GotoType DEF ToolRaises
  <2>3. PlanTypeOK' /\ DOMAIN calls' \subseteq Nat \X Steps
        /\ calls' \in [DOMAIN calls' -> CallStatus]
    BY <1>1, <2>1, RecordType DEF ToolRaises, CallStatus, StepStatus
  <2>4. QED BY <2>1, <2>2, <2>3 DEF ToolRaises, InvStep, world, bounds
<1>6. QED BY <1>2, <1>3, <1>4, <1>5

\* A final summary of a row is a message.
LEMMA SummaryType ==
  ASSUME task \in Row, NEW s \in TaskState
  PROVE  Summary(task.version + 1, s) \in Message
BY DEF Row, Summary, Message

\* Verification: its transition, its verdict, and the verdict whose commit fails.
LEMMA VerifyType ==
  ASSUME TypeOK, InvStep,
         \/ EnterVerifying
         \/ \E verdict \in Verdicts, cost \in Costs : VerdictAnswered(verdict, cost)
         \/ \E verdict \in Verdicts, cost \in Costs : VerdictLost(verdict, cost)
  PROVE  TypeOK' /\ InvStep'
<1> USE DEF TypeOK
<1>1. CASE EnterVerifying
  <2>1. task' \in Row /\ timeline' \in Seq(Event)
    BY <1>1, CommitsType DEF EnterVerifying, Refused, durable, TaskState
  <2>2. op' \in Operation /\ op'.at \in {"verifying", "failing"}
    BY <1>1, GotoType DEF EnterVerifying, Refused, Working, ModelCalls
  <2>3. UNCHANGED <<plan, calls, reports, usage>>
    BY <1>1 DEF EnterVerifying, Refused, durable
  <2>4. QED
    BY <1>1, <2>1, <2>2, <2>3
       DEF EnterVerifying, InvStep, PlanTypeOK, world, bounds
<1>2. CASE \E verdict \in Verdicts, cost \in Costs : VerdictAnswered(verdict, cost)
  <2>1. PICK verdict \in Verdicts, cost \in Costs : VerdictAnswered(verdict, cost)
    BY <1>2
  <2> DEFINE target == VerdictTarget(verdict, usage + cost)
  <2>2. usage + cost \in Nat /\ target \in TaskState
    BY Numbers, Vocabulary
  <2>3. CASE Refused(<<target>>) /\ UNCHANGED messages
    BY <2>1, <2>3, GotoType
       DEF VerdictAnswered, Refused, InvStep, PlanTypeOK, durable, world, bounds
  <2>4. CASE ~(Refused(<<target>>) /\ UNCHANGED messages)
    <3> HIDE DEF target
    <3>1. /\ Commits(<<target>>)
          /\ usage' = usage + cost
          /\ reports' = reports \cup {plan.version}
          /\ IF target = "REPLANNING" THEN UNCHANGED messages
             ELSE Publish(Summary(task.version + 1, target))
          /\ Goto("loop")
          /\ UNCHANGED <<plan, calls>>
      BY <2>1, <2>4 DEF VerdictAnswered, target
    <3>2. task' \in Row /\ timeline' \in Seq(Event)
      BY <2>2, <3>1, CommitsType
    <3>3. messages' \in Seq(Message)
      BY <2>2, <3>1, PublishType, SummaryType
    <3>4. op' \in Operation /\ op'.at = "loop"
      BY <3>1, GotoType DEF Working
    <3>5. reports' \subseteq Nat
      BY <3>1, LatestSteps
    <3>6. UNCHANGED <<world, process, canceller, bounds>>
      BY <2>1 DEF VerdictAnswered
    <3>7. QED
      BY <2>2, <3>1, <3>2, <3>3, <3>4, <3>5, <3>6
         DEF InvStep, PlanTypeOK, world, bounds
  <2>5. QED BY <2>3, <2>4
<1>3. CASE \E verdict \in Verdicts, cost \in Costs : VerdictLost(verdict, cost)
  <2>1. PICK verdict \in Verdicts, cost \in Costs : VerdictLost(verdict, cost)
    BY <1>3
  <2>2. \E s \in TaskState : LoseCommit(s)
    BY <2>1, Numbers, Vocabulary DEF VerdictLost
  <2>3. messages' \in Seq(Message) /\ lost' \subseteq Nat
    BY <2>2, PublishType, SummaryType DEF LoseCommit, Row
  <2>4. op' \in Operation /\ op'.at = "failing"
    BY <2>1, GotoType DEF VerdictLost
  <2>5. QED
    BY <2>2, <2>3, <2>4 DEF LoseCommit, InvStep, PlanTypeOK, durable, world
<1>4. QED BY <1>1, <1>2, <1>3

\* replan's two transactions.
LEMMA ReplanType ==
  ASSUME TypeOK, InvStep,
         \/ LoadReplan
         \/ \E p \in Plans, cost \in Costs : ReplanAnswered(p, cost)
  PROVE  TypeOK' /\ InvStep'
<1> USE DEF TypeOK
<1>1. CASE LoadReplan
  <2>1. task' \in Row /\ timeline' \in Seq(Event)
    BY <1>1, CommitsType DEF LoadReplan, TaskState
  <2>2. op' \in Operation /\ op'.at \in {"loop", "replanning", "failing"}
    BY <1>1, GotoType DEF LoadReplan, Working, ModelCalls
  <2>3. QED
    BY <1>1, <2>1, <2>2 DEF LoadReplan, InvStep, PlanTypeOK, world, bounds
<1>2. CASE \E p \in Plans, cost \in Costs : ReplanAnswered(p, cost)
  <2>1. PICK p \in Plans, cost \in Costs : ReplanAnswered(p, cost)
    BY <1>2
  <2>2. /\ UNCHANGED <<messages, world, process, canceller, bounds>>
        /\ usage + cost \in Nat
    BY <2>1, Numbers DEF ReplanAnswered
  <2>3. CASE Commits(ReplanPath) /\ plan' = NewPlan(plan.version + 1, p)
                /\ usage' = usage + cost /\ Goto("loop")
                /\ UNCHANGED <<calls, reports>>
    <3>1. ReplanPath \in Seq(TaskState) /\ ReplanPath # <<>>
      BY DEF ReplanPath, TaskState
    <3>2. task' \in Row /\ timeline' \in Seq(Event)
      BY <2>3, <3>1, MovesType DEF Commits
    <3>3. plan.version + 1 \in Nat /\ plan.version + 1 # 0
      BY LatestSteps
    <3>4. PlanTypeOK'
      BY <2>3, <3>3, NewPlanType
    <3>5. op' \in Operation /\ op'.at = "loop"
      BY <2>3, GotoType DEF Working
    <3>6. QED BY <2>2, <2>3, <3>2, <3>4, <3>5 DEF InvStep, world, bounds
  <2>4. CASE Commits(<<"BUDGET_EXCEEDED">>) /\ usage' = usage + cost
               /\ Goto("loop") /\ UNCHANGED <<plan, calls, reports>>
    <3>1. task' \in Row /\ timeline' \in Seq(Event)
      BY <2>4, CommitsType DEF TaskState
    <3>2. op' \in Operation /\ op'.at = "loop"
      BY <2>4, GotoType DEF Working
    <3>3. QED BY <2>2, <2>4, <3>1, <3>2 DEF InvStep, PlanTypeOK, world, bounds
  <2>5. CASE Raise("FAILED") /\ UNCHANGED durable
    BY <2>2, <2>5, GotoType DEF InvStep, PlanTypeOK, durable, world, bounds
  <2>6. QED BY <2>1, <2>3, <2>4, <2>5 DEF ReplanAnswered, Refused
<1>3. QED BY <1>1, <1>2

\* An interrupted operation is well-formed, and not at a tool unless it rests.
LEMMA InterruptedType ==
  ASSUME op \in Operation, Interrupted
  PROVE  op' \in Operation /\ op'.at \in {"unscheduled", "idle", "failing"}
BY GotoType DEF Interrupted, Resting

\* A fresh operation is well-formed wherever it starts.
LEMMA NoOperationType ==
  ASSUME task \in Row, NEW at \in Working \cup Resting
  PROVE  NoOperation(at, task) \in Operation /\ NoOperation(at, task).at = at
BY DEF NoOperation, Operation

\* _finish, with its message, and with the commit that fails.
LEMMA FinishType ==
  ASSUME TypeOK, InvStep, Finish \/ Announce \/ FinishLost
  PROVE  TypeOK' /\ InvStep'
<1> USE DEF TypeOK
<1>1. op.target \in {"FAILED", "NEEDS_REVIEW", "CANCELLED"} /\ op.target \in TaskState
  BY Vocabulary DEF Operation
<1>2. CASE Finish
  <2>1. task' \in Row /\ timeline' \in Seq(Event)
    BY <1>1, <1>2, CommitsType DEF Finish
  <2>2. messages' \in Seq(Message)
    BY <1>1, <1>2, PublishType, SummaryType DEF Finish
  <2>3. op' \in Operation /\ op'.at \in {"idle", "announcing"}
    BY <1>2, GotoType DEF Finish, Resting
  <2>4. QED
    BY <1>2, <2>1, <2>2, <2>3 DEF Finish, InvStep, PlanTypeOK, world, bounds
<1>3. CASE Announce
  <2>1. TerminalResult(op.target) \in Message
    BY <1>1 DEF TerminalResult, Message
  <2>2. messages' \in Seq(Message)
    BY <1>3, <2>1, PublishType DEF Announce
  <2>3. op' \in Operation /\ op'.at = "idle"
    BY <1>3, GotoType DEF Announce, Resting
  <2>4. QED
    BY <1>3, <2>2, <2>3 DEF Announce, InvStep, PlanTypeOK, durable, world, bounds
<1>4. CASE FinishLost
  <2>1. LoseCommit(op.target)
    BY <1>4 DEF FinishLost
  <2>2. messages' \in Seq(Message) /\ lost' \subseteq Nat
    BY <1>1, <2>1, PublishType, SummaryType DEF LoseCommit, Row
  <2>3. op' \in Operation /\ op'.at = "idle"
    BY <1>4, GotoType DEF FinishLost, Resting
  <2>4. QED
    BY <2>1, <2>2, <2>3 DEF LoseCommit, InvStep, PlanTypeOK, durable, world
<1>5. QED BY <1>2, <1>3, <1>4

\* The cancel endpoint, with the commit that fails.
LEMMA CancelType ==
  ASSUME TypeOK, InvStep, CancelTask \/ CancelOperation \/ CancelLost
  PROVE  TypeOK' /\ InvStep'
<1> USE DEF TypeOK
<1>1. "CANCELLED" \in TaskState /\ task.version + 1 \in Nat
  BY DEF TaskState, Row
<1>2. CASE CancelTask
  <2>1. task' \in Row /\ timeline' \in Seq(Event)
    <3>1. CASE task.state \notin TERMINAL_STATES
      <4>1. /\ task' = [state |-> "CANCELLED", version |-> task.version + 1,
                        cancelRequested |-> TRUE]
            /\ timeline' = Append(timeline, [to |-> "CANCELLED",
                                             version |-> task.version + 1])
        BY <1>2, <3>1 DEF CancelTask
      <4>2. [to |-> "CANCELLED", version |-> task.version + 1] \in Event
        BY <1>1 DEF Event
      <4>3. task' \in Row
        BY <1>1, <4>1 DEF Row
      <4>4. timeline' \in Seq(Event)
        BY <4>1, <4>2
      <4>5. QED BY <4>3, <4>4
    <3>2. CASE task.state \in TERMINAL_STATES
      <4>1. task' = [task EXCEPT !.cancelRequested = TRUE] /\ timeline' = timeline
        BY <1>2, <3>2 DEF CancelTask
      <4>2. task' \in Row
        BY <4>1 DEF Row
      <4>3. QED BY <4>1, <4>2
    <3>3. QED BY <3>1, <3>2
  <2>2. messages' \in Seq(Message)
    BY <1>1, <1>2, PublishType, SummaryType DEF CancelTask
  <2>3. QED
    BY <1>2, <2>1, <2>2 DEF CancelTask, InvStep, PlanTypeOK, world, bounds
<1>3. CASE CancelOperation
  <2>1. op' \in Operation /\ op'.at \in {"unscheduled", "idle", "failing"}
    BY <1>3, InterruptedType DEF CancelOperation
  <2>2. QED
    BY <1>3, <2>1
       DEF CancelOperation, InvStep, PlanTypeOK, durable, world, bounds
<1>4. CASE CancelLost
  <2>1. LoseCommit("CANCELLED") /\ op' = op
    BY <1>4 DEF CancelLost
  <2>2. messages' \in Seq(Message) /\ lost' \subseteq Nat
    BY <1>1, <2>1, PublishType, SummaryType DEF LoseCommit, Row
  <2>3. QED
    BY <2>1, <2>2 DEF LoseCommit, InvStep, PlanTypeOK, durable, world
<1>5. QED BY <1>2, <1>3, <1>4

\* Shutdown, crash and recovery.
LEMMA RestartType ==
  ASSUME TypeOK, InvStep,
         Stop \/ Exit \/ Crash \/ Resume \/ Park \/ LeaveSettled
  PROVE  TypeOK' /\ InvStep'
<1> USE DEF TypeOK
<1>1. CASE Stop
  <2>1. op' \in Operation /\ op'.at \in {"unscheduled", "idle", "failing"}
    BY <1>1, InterruptedType DEF Stop
  <2>2. crashes' \in 0 .. MaxCrashes
    BY <1>1, Numbers DEF Stop
  <2>3. QED
    BY <1>1, <2>1, <2>2 DEF Stop, InvStep, PlanTypeOK, durable, world
<1>2. CASE Exit
  BY <1>2 DEF Exit, InvStep, PlanTypeOK, durable, world, bounds
<1>3. CASE Crash
  <2>1. op' \in Operation /\ op'.at = "idle"
    BY <1>3, NoOperationType DEF Crash, Resting
  <2>2. crashes' \in 0 .. MaxCrashes
    BY <1>3, Numbers DEF Crash
  <2>3. messages' \in Seq(Message)
    BY <1>3 DEF Crash
  <2>4. QED
    BY <1>3, <2>1, <2>2, <2>3 DEF Crash, InvStep, PlanTypeOK, durable, world
<1>4. CASE Resume \/ LeaveSettled
  <2>1. op' \in Operation /\ op'.at \in {"scheduled", "idle"}
    BY <1>4, NoOperationType DEF Resume, LeaveSettled, Resting, Working
  <2>2. QED
    BY <1>4, <2>1
       DEF Resume, LeaveSettled, Restarted, InvStep, PlanTypeOK, durable, world,
           bounds
<1>5. CASE Park
  <2>1. task' \in Row /\ timeline' \in Seq(Event)
    BY <1>5, CommitsType DEF Park, TaskState
  <2>2. op' \in Operation /\ op'.at = "idle"
    BY <1>5, NoOperationType DEF Park, Resting
  <2>3. QED
    BY <1>5, <2>1, <2>2 DEF Park, Restarted, InvStep, PlanTypeOK, world, bounds
<1>6. QED BY <1>1, <1>2, <1>3, <1>4, <1>5

\* Every step keeps the types.
LEMMA TypeStep ==
  ASSUME TypeOK, InvStep, [Next]_vars
  PROVE  TypeOK' /\ InvStep'
<1>1. CASE UNCHANGED vars
  BY <1>1
     DEF vars, durable, world, bounds, TypeOK, PlanTypeOK, InvStep
<1>2. CASE Next
  <2>1. CASE Schedule \/ Begin \/ ReadState \/ ReadTask \/ ModelCallFails
               \/ LoadExecution \/ \E s \in Steps : CheckCancelled(s)
    BY <2>1, OperationOnlySteps
       DEF Schedule, Begin, ReadState, ReadTask, ModelCallFails, LoadExecution,
           CheckCancelled
  <2>2. QED
    BY <1>2, <2>1, RunType, StepType, VerifyType, ReplanType, FinishType,
       CancelType, RestartType
       DEF Next, OperationStep, Recovery, Environment
<1>3. QED BY <1>1, <1>2

\* Every variable keeps the kind of value its column or local holds, whatever
\* the plans, the budget and the faults.
THEOREM TypeCorrect == Spec => [](TypeOK /\ InvStep)
BY TypeInit, TypeStep, PTL DEF Spec

=============================================================================
