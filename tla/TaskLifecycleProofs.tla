------------------------ MODULE TaskLifecycleProofs -------------------------
(***************************************************************************)
(* What TaskSafetyProofs leaves to prove: the order of the steps, the      *)
(* bound on the loop, the summaries, and that the orchestration implements *)
(* the life cycle a client sees.                                           *)
(***************************************************************************)
EXTENDS TaskSafetyProofs

-----------------------------------------------------------------------------
(* The order of the steps.                                                 *)

\* A record changes the status of the operation's step and nothing else.
LEMMA StatusMoves ==
  ASSUME TypeOK, op.step \in DOMAIN plan.status,
         NEW c \in CallStatus, NEW st \in StepStatus, RecordStep(c, st)
  PROVE  /\ DOMAIN plan'.status = DOMAIN plan.status
         /\ plan'.version = plan.version /\ plan'.deps = plan.deps
         /\ \A s \in DOMAIN plan.status :
              plan'.status[s] = IF s = op.step THEN st ELSE plan.status[s]
         /\ DOMAIN calls' = DOMAIN calls \cup {<<plan.version, op.step>>}
         /\ \A k \in DOMAIN calls' :
              calls'[k] = IF k = <<plan.version, op.step>> THEN c ELSE calls[k]
<1>1. plan = [version |-> plan.version, deps |-> plan.deps, status |-> plan.status]
  BY DEF TypeOK, PlanTypeOK, NoPlan
<1>2. plan.status \in [DOMAIN plan.status -> StepStatus]
  BY DEF TypeOK, PlanTypeOK, NoPlan, Empty
<1>3. plan' = [plan EXCEPT !.status[op.step] = st]
  BY DEF RecordStep
<1>4. /\ plan'.version = plan.version /\ plan'.deps = plan.deps
      /\ plan'.status = [plan.status EXCEPT ![op.step] = st]
  BY <1>1, <1>3
<1>5. QED BY <1>2, <1>4 DEF RecordStep, Put, IdempotencyKey

\* Which statuses a step of execute records.
LEMMA RecordedAs ==
  ASSUME TypeOK, StartTool \/ ToolSucceeds \/ CheckFails \/ Raised
  PROVE  \/ RecordStep("started", "running") /\ StartTool /\ op'.at = "running"
            /\ IdempotencyKey \notin DOMAIN calls
         \/ RecordStep("succeeded", "succeeded") /\ ToolSucceeds
         \/ RecordStep("failed", "failed") /\ op.at = "running"
            /\ op'.at \in {"stepsDone", "failing"}
         \/ plan' = plan /\ calls' = calls /\ StartTool
            /\ IdempotencyKey \in DOMAIN calls
<1>1. op \in Operation
  BY DEF TypeOK
<1>2. QED
  BY <1>1, OpMoves DEF StartTool, ToolSucceeds, CheckFails, Raised, ToolRaises

\* The two tables move together.
LEMMA RecordsStep ==
  ASSUME Grounded, TypeOK', InvSteps, InvRecords, [Next]_vars
  PROVE  InvRecords'
<1> USE DEF Grounded
<1>1. DOMAIN calls \subseteq Nat \X Steps /\ plan.version \in Nat
  BY LatestSteps DEF TypeOK
<1>2. CASE Planned
  <2>1. CASE UNCHANGED durable
    BY <2>1 DEF durable, InvRecords, RecordsAgree
  <2>2. CASE ~UNCHANGED durable
    <3>1. calls' = Empty
      BY <1>2, PlannedMoves DEF InvFresh, Fresh
    <3>2. plan' = plan \/ \A s \in DOMAIN plan'.status : plan'.status[s] = "pending"
      BY <1>2, <2>2, PlannedMoves
    <3>3. CASE plan' = plan
      BY <1>2, <3>3, PlannedMoves DEF InvRecords, RecordsAgree
    <3>4. CASE \A s \in DOMAIN plan'.status : plan'.status[s] = "pending"
      BY <3>1, <3>4 DEF InvRecords, RecordsAgree, Empty
    <3>5. QED BY <3>2, <3>3, <3>4
  <2>3. QED BY <2>1, <2>2
<1>3. CASE Replanned
  <2>1. CASE plan' = plan
    BY <1>3, <2>1, ReplannedMoves DEF InvRecords, RecordsAgree
  <2>2. CASE /\ plan'.version = plan.version + 1 /\ calls' = calls
             /\ \A s \in DOMAIN plan'.status : plan'.status[s] = "pending"
    <3>1. \A k \in DOMAIN calls : k[1] \in Nat /\ k[1] <= plan.version
      BY <1>1 DEF InvRecords, RecordsAgree
    <3>2. \A s : <<plan.version + 1, s>> \notin DOMAIN calls
      <4>1. SUFFICES ASSUME NEW s, <<plan.version + 1, s>> \in DOMAIN calls
                     PROVE  FALSE
        OBVIOUS
      <4>2. <<plan.version + 1, s>>[1] <= plan.version
        BY <3>1, <4>1
      <4>3. QED BY <1>1, <4>2
    <3>3. \A k \in DOMAIN calls : k[1] <= plan.version + 1
      BY <1>1, <3>1
    <3>4. QED BY <2>2, <3>2, <3>3 DEF InvRecords, RecordsAgree
  <2>3. QED BY <1>3, <2>1, <2>2, ReplannedMoves DEF durable
<1>4. CASE StartTool \/ ToolSucceeds \/ CheckFails \/ Raised
  <2>1. CASE plan' = plan /\ calls' = calls
    BY <2>1 DEF InvRecords, RecordsAgree
  <2>2. CASE \E c \in CallStatus :
               RecordStep(c, IF c = "started" THEN "running" ELSE c)
    <3>1. PICK c \in CallStatus : RecordStep(c, IF c = "started" THEN "running" ELSE c)
      BY <2>2
    <3>2. (IF c = "started" THEN "running" ELSE c) \in StepStatus
      BY DEF CallStatus, StepStatus
    <3>3. op.step \in DOMAIN plan.status
      BY <1>4, StepMoves DEF InvSteps, Raised
    <3>4. /\ DOMAIN plan'.status = DOMAIN plan.status
          /\ plan'.version = plan.version
          /\ \A s \in DOMAIN plan.status :
               plan'.status[s] = IF s = op.step
                                 THEN (IF c = "started" THEN "running" ELSE c)
                                 ELSE plan.status[s]
          /\ DOMAIN calls' = DOMAIN calls \cup {<<plan.version, op.step>>}
          /\ \A k \in DOMAIN calls' :
               calls'[k] = IF k = <<plan.version, op.step>> THEN c ELSE calls[k]
      BY <3>1, <3>2, <3>3, StatusMoves
    <3>5. \A k \in DOMAIN calls' : k[1] <= plan'.version
      BY <1>1, <3>4 DEF InvRecords, RecordsAgree
    <3>6. ASSUME NEW s \in DOMAIN plan'.status
          PROVE  IF <<plan'.version, s>> \in DOMAIN calls'
                 THEN plan'.status[s] =
                        IF calls'[<<plan'.version, s>>] = "started"
                        THEN "running" ELSE calls'[<<plan'.version, s>>]
                 ELSE plan'.status[s] = "pending"
      <4>1. CASE s = op.step
        BY <3>4, <4>1
      <4>2. CASE s # op.step
        <5>1. <<plan.version, s>> # <<plan.version, op.step>>
          BY <4>2
        <5>2. QED BY <3>4, <3>6, <4>2, <5>1 DEF InvRecords, RecordsAgree
      <4>3. QED BY <4>1, <4>2
    <3>7. QED BY <3>5, <3>6 DEF InvRecords, RecordsAgree
  <2>3. QED
    BY <1>4, <2>1, <2>2, RecordedAs DEF CallStatus
<1>5. CASE ~(\/ Planned \/ Replanned \/ StartTool \/ ToolSucceeds
             \/ CheckFails \/ Raised)
  BY <1>5, Writers DEF InvRecords, RecordsAgree
<1>6. QED BY <1>2, <1>3, <1>4, <1>5

\* What execute knows of the step it works on.
LEMMA StepKnown ==
  ASSUME TypeOK, InvSteps, op.at \in {"checked", "running"}
  PROVE  /\ op.step \in DOMAIN plan.status /\ op.step \in op.wave
         /\ plan.status[op.step] # "succeeded"
         /\ op.done = {s \in DOMAIN plan.status : plan.status[s] = "succeeded"}
         /\ op.wave \subseteq DOMAIN plan.status \ op.done
         /\ plan.deps[op.step] \subseteq op.done
         /\ \A s \in op.wave : plan.deps[s] \subseteq op.done
BY DEF InvSteps

\* A call on record for the step that is about to start has not succeeded, so
\* execute never skips a step whose record it has not seen.
LEMMA NoReplay ==
  ASSUME Grounded, InvSteps, InvRecords, StartTool, IdempotencyKey \in DOMAIN calls
  PROVE  op'.at = "failing" /\ plan' = plan
<1>1. op.at = "checked" /\ op \in Operation
  BY DEF StartTool, Grounded, TypeOK
<1>2. calls[IdempotencyKey] # "succeeded"
  BY <1>1, StepKnown DEF InvRecords, RecordsAgree, IdempotencyKey, Grounded
<1>3. QED BY <1>1, <1>2, OpMoves DEF StartTool

\* The locals of execute follow the step records.
LEMMA StepsStep ==
  ASSUME Grounded, Grounded', InvSteps, InvRecords, [Next]_vars
  PROVE  InvSteps'
<1> USE DEF Grounded
<1>1. op \in Operation /\ DOMAIN plan.status = DOMAIN plan.deps
  BY LatestSteps DEF TypeOK
<1>2. SUFFICES ASSUME op'.at \in {"step", "checked", "running"}
               PROVE  /\ op'.done = {s \in DOMAIN plan'.status :
                                       plan'.status[s] = "succeeded"}
                      /\ op'.wave \subseteq DOMAIN plan'.status \ op'.done
                      /\ \A s \in op'.wave : plan'.deps[s] \subseteq op'.done
                      /\ op'.at # "step" => op'.step \in op'.wave
  BY DEF InvSteps
<1>3. CASE LoadExecution
  <2>1. op' = NextWave(op, {s \in DOMAIN plan.status : plan.status[s] = "succeeded"})
    BY <1>1, <1>2, <1>3, OpMoves DEF LoadExecution
  <2>2. plan' = plan /\ op'.at = "step"
    BY <1>2, <1>3, LoadExecutionMoves DEF LoadExecution, OperationOnly, durable
  <2>3. QED BY <1>1, <2>1, <2>2, NextWaveMoves
<1>4. CASE StartTool
  <2>1. /\ RecordStep("started", "running") /\ op'.at = "running" /\ op.at = "checked"
    BY <1>2, <1>4, NoReplay, RecordedAs DEF StartTool, ToolSucceeds
  <2>2. op'.done = op.done /\ op'.wave = op.wave /\ op'.step = op.step
    BY <1>1, <1>4, <2>1, NoReplay DEF StartTool, Goto, Operation
  <2>3. /\ DOMAIN plan'.status = DOMAIN plan.status /\ plan'.deps = plan.deps
        /\ \A s \in DOMAIN plan.status :
             plan'.status[s] = IF s = op.step THEN "running" ELSE plan.status[s]
    BY <2>1, StatusMoves, StepKnown DEF CallStatus, StepStatus
  <2>4. QED BY <2>1, <2>2, <2>3, StepKnown
<1>5. CASE ToolSucceeds
  <2>1. RecordStep("succeeded", "succeeded") /\ StepSucceeded /\ op.at = "running"
    BY <1>5 DEF ToolSucceeds
  <2>2. /\ DOMAIN plan'.status = DOMAIN plan.status /\ plan'.deps = plan.deps
        /\ \A s \in DOMAIN plan.status :
             plan'.status[s] = IF s = op.step THEN "succeeded" ELSE plan.status[s]
    BY <2>1, StatusMoves, StepKnown DEF CallStatus, StepStatus
  <2>3. /\ op'.at = "step" /\ op'.done = op.done \cup {op.step}
        /\ op'.wave =
             IF op.wave \ {op.step} # {} THEN op.wave \ {op.step}
             ELSE {s \in DOMAIN plan.deps \ (op.done \cup {op.step}) :
                     plan.deps[s] \subseteq op.done \cup {op.step}}
    BY <1>1, <1>2, <2>1, StepSucceededMoves
  <2>4. op'.done = {s \in DOMAIN plan'.status : plan'.status[s] = "succeeded"}
    BY <2>1, <2>2, <2>3, StepKnown
  <2>5. /\ op'.wave \subseteq DOMAIN plan'.status \ op'.done
        /\ \A s \in op'.wave : plan'.deps[s] \subseteq op'.done
    BY <1>1, <2>1, <2>2, <2>3, StepKnown
  <2>6. QED BY <2>3, <2>4, <2>5
<1>6. CASE Checked
  <2>1. PICK s \in Steps : CheckCancelled(s)
    BY <1>6 DEF Checked
  <2>2. plan' = plan
    BY <2>1 DEF CheckCancelled, OperationOnly, durable
  <2>3. /\ op.at = "step" /\ s \in op.wave /\ op'.step = s
        /\ op'.done = op.done /\ op'.wave = op.wave
    BY <1>2, <2>1, CheckCancelledMoves
  <2>4. QED BY <2>2, <2>3 DEF InvSteps
<1>7. CASE ~(LoadExecution \/ StartTool \/ ToolSucceeds \/ Checked)
  <2>1. op'.at = op.at
    BY <1>2, <1>7, Edges
  <2>2. op' = op
    BY <1>2, <2>1, Stays DEF Crash, Recovery, Resume, Park, LeaveSettled, NoOperation
  <2>3. plan' = plan
    BY <1>2, <1>7, <2>1, Writers, PlannedMoves, ReplannedMoves, RecordedAs
       DEF CheckFails, Raised, ToolRaises
  <2>4. QED BY <1>2, <2>2, <2>3 DEF InvSteps
<1>8. QED BY <1>3, <1>4, <1>5, <1>6, <1>7

\* A step is recorded only when what it depends on has succeeded.
LEMMA OrderStep ==
  ASSUME Grounded, InvSteps, InvRecords, DependenciesFirst, [Next]_vars
  PROVE  DependenciesFirst'
<1> USE DEF Grounded
<1>1. CASE Planned \/ Replanned
  <2>1. plan' = plan \/ \A s \in DOMAIN plan'.status : plan'.status[s] = "pending"
    BY <1>1, PlannedMoves, ReplannedMoves DEF durable
  <2>2. QED BY <2>1 DEF DependenciesFirst
<1>2. CASE StartTool \/ ToolSucceeds \/ CheckFails \/ Raised
  <2>1. op.at \in {"checked", "running"}
    BY <1>2, StepMoves DEF Raised
  <2>2. CASE plan' = plan
    BY <2>2 DEF DependenciesFirst
  <2>3. CASE \E c \in CallStatus, st \in StepStatus : RecordStep(c, st) /\ st # "pending"
    <3>1. PICK c \in CallStatus, st \in StepStatus : RecordStep(c, st) /\ st # "pending"
      BY <2>3
    <3>2. /\ DOMAIN plan'.status = DOMAIN plan.status /\ plan'.deps = plan.deps
          /\ \A s \in DOMAIN plan.status :
               plan'.status[s] = IF s = op.step THEN st ELSE plan.status[s]
      BY <2>1, <3>1, StatusMoves, StepKnown
    <3>3. SUFFICES ASSUME NEW s \in DOMAIN plan.status, plan'.status[s] # "pending",
                          NEW d \in plan.deps[s]
                   PROVE  plan'.status[d] = "succeeded"
      BY <3>2 DEF DependenciesFirst
    <3>4. d \in DOMAIN plan.status /\ plan.status[d] = "succeeded"
      <4>1. CASE s = op.step
        BY <2>1, <3>3, <4>1, StepKnown
      <4>2. CASE s # op.step
        <5>1. plan.status[d] = "succeeded"
          BY <3>2, <3>3, <4>2 DEF DependenciesFirst
        <5>2. d \in DOMAIN plan.status
          BY <3>3, PlansAssumption, LatestSteps
             DEF TypeOK, PlanTypeOK, Wellfounded, NoPlan, Empty
        <5>3. QED BY <5>1, <5>2
      <4>3. QED BY <4>1, <4>2
    <3>5. d # op.step
      BY <2>1, <3>4, StepKnown
    <3>6. QED BY <3>2, <3>4, <3>5
  <2>4. QED BY <1>2, <2>2, <2>3, RecordedAs DEF CallStatus, StepStatus
<1>3. CASE ~(\/ Planned \/ Replanned \/ StartTool \/ ToolSucceeds
             \/ CheckFails \/ Raised)
  BY <1>3, Writers DEF DependenciesFirst
<1>4. QED BY <1>1, <1>2, <1>3

\* What execute and its records know, in every state.
Ordered == InvSteps /\ InvRecords /\ DependenciesFirst

\* Execute's locals, the step records and the calls agree in every state.
THEOREM OrderedCorrect == Spec => []Ordered
<1>1. Init => Ordered
  BY DEF Init, Ordered, InvSteps, InvRecords, RecordsAgree, DependenciesFirst,
         NoOperation, NoPlan, Empty
<1>2. Grounded /\ Grounded' /\ Ordered /\ [Next]_vars => Ordered'
  BY StepsStep, RecordsStep, OrderStep DEF Grounded, Ordered
<1>3. QED BY <1>1, <1>2, GroundedCorrect, PTL DEF Spec

\* A step starts only after everything it depends on has succeeded, also when
\* execution is resumed after a restart.
THEOREM OrderCorrect == Spec => []DependenciesFirst
<1>1. Ordered => DependenciesFirst
  BY DEF Ordered
<1>2. QED BY <1>1, OrderedCorrect, PTL

\* The step records and the tool calls of the latest plan always agree.
THEOREM RecordsCorrect == Spec => []RecordsAgree
<1>1. Ordered => RecordsAgree
  BY DEF Ordered, InvRecords
<1>2. QED BY <1>1, OrderedCorrect, PTL

-----------------------------------------------------------------------------
(* The timeline and the summaries.                                         *)

\* A path puts its transitions at the end of the timeline.
LEMMA TimelineMoves ==
  ASSUME TypeOK, NEW from \in Row, NEW path \in Seq(TaskState), Moves(from, path)
  PROVE  /\ \A j \in DOMAIN timeline :
              j \in DOMAIN timeline' /\ timeline'[j] = timeline[j]
         /\ \A i \in DOMAIN path :
              \E j \in DOMAIN timeline' :
                timeline'[j] = [to |-> path[i], version |-> from.version + i]
<1> DEFINE tail == [i \in DOMAIN path |->
                      [to |-> path[i], version |-> from.version + i]]
<1>1. timeline' = timeline \o tail /\ timeline \in Seq(Event)
  BY DEF Moves, TypeOK
<1>2. tail \in Seq(Event)
  <2>1. DOMAIN path = 1 .. Len(path) /\ Len(path) \in Nat
    OBVIOUS
  <2>2. \A i \in DOMAIN path :
           [to |-> path[i], version |-> from.version + i] \in Event
    BY <2>1 DEF Event, Row
  <2>3. tail \in [1 .. Len(path) -> Event]
    BY <2>1, <2>2
  <2>4. QED BY <2>1, <2>3
<1>3. DOMAIN tail = DOMAIN path /\ DOMAIN tail = 1 .. Len(tail)
  BY <1>2
<1>4. \A j \in DOMAIN timeline : j \in DOMAIN timeline' /\ timeline'[j] = timeline[j]
  <2> HIDE DEF tail
  <2>1. QED BY <1>1, <1>2
<1>5. ASSUME NEW i \in DOMAIN path
      PROVE  \E j \in DOMAIN timeline' :
               timeline'[j] = [to |-> path[i], version |-> from.version + i]
  <2>1. tail[i] = [to |-> path[i], version |-> from.version + i]
    BY <1>5
  <2>2. i \in 1 .. Len(tail)
    BY <1>3, <1>5
  <2> HIDE DEF tail
  <2>3. /\ Len(timeline) + i \in DOMAIN timeline'
        /\ timeline'[Len(timeline) + i] = tail[i]
    BY <1>1, <1>2, <2>2
  <2>4. QED BY <2>1, <2>3
<1>6. QED BY <1>4, <1>5

\* A single transition is on the timeline under the next version.
LEMMA TimelineCommit ==
  ASSUME TypeOK, NEW s \in TaskState, Commits(<<s>>)
  PROVE  \E j \in DOMAIN timeline' :
           timeline'[j] = [to |-> s, version |-> task.version + 1]
<1>1. <<s>> \in Seq(TaskState) /\ DOMAIN <<s>> = {1} /\ <<s>>[1] = s
  OBVIOUS
<1>2. Moves(task, <<s>>) /\ task \in Row
  BY DEF Commits, TypeOK
<1>3. QED BY <1>1, <1>2, TimelineMoves

\* The timeline only grows.
LEMMA TimelineGrows ==
  ASSUME TypeOK, [Next]_vars
  PROVE  \A j \in DOMAIN timeline :
           j \in DOMAIN timeline' /\ timeline'[j] = timeline[j]
<1>1. task \in Row /\ op.seen \in Row /\ timeline \in Seq(Event)
  BY DEF TypeOK, Operation
<1>2. /\ PlanPath \in Seq(TaskState) /\ ReplanPath \in Seq(TaskState)
      /\ \A s \in TaskState : <<s>> \in Seq(TaskState)
  BY DEF PlanPath, ReplanPath, TaskState
<1>3. CASE StartAnalysis
  BY <1>1, <1>2, <1>3, TimelineMoves DEF StartAnalysis, TaskState
<1>4. CASE Planned
  BY <1>1, <1>2, <1>4, TimelineMoves
     DEF Planned, PlanAnswered, Commits, Refused, durable, TaskState
<1>5. CASE Judged
  <2>1. PICK verdict \in Verdicts, cost \in Costs : VerdictAnswered(verdict, cost)
    BY <1>5 DEF Judged
  <2>2. VerdictTarget(verdict, usage + cost) \in TaskState
    BY Vocabulary, Numbers DEF TypeOK
  <2>3. QED
    BY <1>1, <1>2, <2>1, <2>2, TimelineMoves
       DEF VerdictAnswered, Commits, Refused, durable
<1>6. CASE Replanned
  BY <1>1, <1>2, <1>6, TimelineMoves
     DEF Replanned, ReplanAnswered, Commits, Refused, durable, TaskState
<1>7. CASE EnterVerifying \/ LoadReplan \/ Park
  BY <1>1, <1>2, <1>7, TimelineMoves
     DEF EnterVerifying, LoadReplan, Park, Commits, Refused, durable, TaskState
<1>8. CASE Finish
  BY <1>1, <1>2, <1>8, TimelineMoves, Vocabulary
     DEF Finish, Commits, TypeOK, Operation
<1>9. CASE CancelTask
  BY <1>1, <1>9 DEF CancelTask
<1>10. QED
  BY <1>3, <1>4, <1>5, <1>6, <1>7, <1>8, <1>9
     DEF Next, OperationStep, Recovery, Environment, vars, durable, OperationOnly,
         Schedule, Begin, ReadState, ReadTask, Planned, ModelCallFails,
         LoadExecution, CheckCancelled, StartTool, ToolSucceeds, CheckFails,
         ToolRaises, Judged, Replanned, Announce, CancelOperation, Stop, Exit,
         Crash, VerdictLost, FinishLost, CancelLost, LoseCommit, Resume,
         LeaveSettled

\* A message in the store was there before or is the one that was published.
LEMMA PublishMoves ==
  ASSUME TypeOK, NEW m \in Message, Publish(m)
  PROVE  \A i \in DOMAIN messages' :
           \/ i \in DOMAIN messages /\ messages'[i] = messages[i]
           \/ messages'[i] = m
BY DEF TypeOK, Publish

\* What can be in the store after a step: a message that was there, a terminal
\* result, a summary of a transition just committed, or one of a lost commit.
LEMMA MessagesMove ==
  ASSUME TypeOK, [Next]_vars, NEW i \in DOMAIN messages',
         messages'[i].kind = "final_summary"
  PROVE  \/ \E k \in DOMAIN messages : messages'[i] = messages[k]
         \/ messages'[i].version \in lost'
         \/ \E j \in DOMAIN timeline' :
              timeline'[j] = [to |-> messages'[i].state,
                              version |-> messages'[i].version]
<1>1. task \in Row /\ op \in Operation /\ messages \in Seq(Message)
  BY DEF TypeOK
<1>2. \A s \in TaskState :
        /\ Summary(task.version + 1, s) \in Message
        /\ Summary(task.version + 1, s).state = s
        /\ Summary(task.version + 1, s).version = task.version + 1
  BY <1>1, SummaryType DEF Summary
<1>3. CASE Judged
  <2>1. PICK verdict \in Verdicts, cost \in Costs : VerdictAnswered(verdict, cost)
    BY <1>3 DEF Judged
  <2> DEFINE target == VerdictTarget(verdict, usage + cost)
  <2>2. target \in TaskState
    BY Vocabulary, Numbers DEF TypeOK
  <2>3. \/ messages' = messages
        \/ Publish(Summary(task.version + 1, target)) /\ Commits(<<target>>)
    BY <2>1 DEF VerdictAnswered
  <2> HIDE DEF target
  <2>4. QED BY <1>2, <2>2, <2>3, PublishMoves, TimelineCommit
<1>4. CASE Finish
  <2>1. op.target \in TaskState
    BY <1>1, Vocabulary DEF Operation
  <2>2. \/ messages' = messages
        \/ Publish(Summary(task.version + 1, op.target)) /\ Commits(<<op.target>>)
    BY <1>4 DEF Finish
  <2>3. QED BY <1>2, <2>1, <2>2, PublishMoves, TimelineCommit
<1>5. CASE CancelTask
  <2>1. CASE messages' = messages
    BY <2>1
  <2>2. CASE /\ Publish(Summary(task.version + 1, "CANCELLED"))
             /\ timeline' = Append(timeline, [to |-> "CANCELLED",
                                              version |-> task.version + 1])
    <3>1. "CANCELLED" \in TaskState
      BY DEF TaskState
    <3>2. \E j \in DOMAIN timeline' :
            timeline'[j] = [to |-> "CANCELLED", version |-> task.version + 1]
      <4>1. timeline \in Seq(Event)
        BY DEF TypeOK
      <4>2. /\ Len(timeline) + 1 \in DOMAIN timeline'
            /\ timeline'[Len(timeline) + 1] =
                 [to |-> "CANCELLED", version |-> task.version + 1]
        BY <2>2, <4>1
      <4>3. QED BY <4>2
    <3>3. QED BY <1>2, <2>2, <3>1, <3>2, PublishMoves
  <2>3. QED BY <1>5, <2>1, <2>2 DEF CancelTask
<1>6. CASE Announce
  <2>1. TerminalResult(op.target) \in Message
        /\ TerminalResult(op.target).kind = "terminal_result"
    BY <1>1, Vocabulary DEF TerminalResult, Message, Operation
  <2>2. QED BY <1>6, <2>1, PublishMoves DEF Announce
<1>7. CASE Crash
  BY <1>1, <1>7 DEF Crash
<1>8. CASE JudgedLost \/ FinishLost \/ CancelLost
  <2>1. PICK s \in TaskState : LoseCommit(s)
    <3>1. CASE JudgedLost
      BY <3>1, Vocabulary, Numbers DEF JudgedLost, VerdictLost, TypeOK
    <3>2. CASE FinishLost
      BY <1>1, <3>2, Vocabulary DEF FinishLost, Operation
    <3>3. CASE CancelLost
      BY <3>3 DEF CancelLost, TaskState
    <3>4. QED BY <1>8, <3>1, <3>2, <3>3
  <2>2. Publish(Summary(task.version + 1, s)) /\ task.version + 1 \in lost'
    BY <2>1 DEF LoseCommit
  <2>3. QED BY <1>2, <2>2, PublishMoves
<1>9. CASE messages' = messages
  BY <1>9
<1>10. QED
  BY <1>3, <1>4, <1>5, <1>6, <1>7, <1>8, <1>9
     DEF Next, OperationStep, Recovery, Environment, vars, OperationOnly,
         Schedule, Begin, ReadState, ReadTask, StartAnalysis, PlanAnswered,
         ModelCallFails, LoadExecution, CheckCancelled, StartTool, ToolSucceeds,
         CheckFails, ToolRaises, EnterVerifying, Judged, LoadReplan,
         ReplanAnswered, CancelOperation, Stop, Exit, JudgedLost, Resume, Park,
         LeaveSettled

\* Lost commits stay on record.
LEMMA LostStays == ASSUME [Next]_vars PROVE lost \subseteq lost'
BY DEF Next, OperationStep, Recovery, Environment, vars, bounds, OperationOnly,
       Schedule, Begin, ReadState, ReadTask, StartAnalysis, PlanAnswered,
       ModelCallFails, LoadExecution, CheckCancelled, StartTool, ToolSucceeds,
       CheckFails, ToolRaises, EnterVerifying, VerdictAnswered, LoadReplan,
       ReplanAnswered, Finish, Announce, CancelTask, CancelOperation, Stop, Exit,
       Crash, VerdictLost, FinishLost, CancelLost, LoseCommit, Resume, Park,
       LeaveSettled

\* A summary reports a transition on the timeline or a commit that was lost.
THEOREM SummaryCorrect == Spec => []SummaryIsOnTimeline
<1>1. Init => SummaryIsOnTimeline
  BY DEF Init, SummaryIsOnTimeline
<1>2. TypeOK /\ SummaryIsOnTimeline /\ [Next]_vars => SummaryIsOnTimeline'
  <2> SUFFICES ASSUME TypeOK, SummaryIsOnTimeline, [Next]_vars,
                      NEW i \in DOMAIN messages',
                      messages'[i].kind = "final_summary"
               PROVE  \/ messages'[i].version \in lost'
                      \/ \E j \in DOMAIN timeline' :
                           timeline'[j] = [to |-> messages'[i].state,
                                           version |-> messages'[i].version]
    BY DEF SummaryIsOnTimeline
  <2>1. CASE \E k \in DOMAIN messages : messages'[i] = messages[k]
    BY <2>1, LostStays, TimelineGrows DEF SummaryIsOnTimeline
  <2>2. CASE ~\E k \in DOMAIN messages : messages'[i] = messages[k]
    BY <2>2, MessagesMove
  <2>3. QED BY <2>1, <2>2
<1>3. QED BY <1>1, <1>2, TypeCorrect, PTL DEF Spec

-----------------------------------------------------------------------------
(* The bounded loop.                                                       *)

\* The loop's own variables change where the loop reads the state, and nowhere
\* else while the process runs.
LEMMA LoopVariables ==
  ASSUME TypeOK, [Next]_vars
  PROVE  \/ op'.previous = op.previous /\ op'.turns = op.turns
         \/ ReadState \/ Crash \/ Recovery
<1>1. op \in Operation
  BY DEF TypeOK
<1>2. /\ \A a : Goto(a) => op'.previous = op.previous /\ op'.turns = op.turns
      /\ \A t : Raise(t) => op'.previous = op.previous /\ op'.turns = op.turns
  BY <1>1 DEF Goto, Raise, Operation
<1>3. CASE \/ UNCHANGED vars \/ CancelTask \/ CancelLost \/ Exit
  BY <1>3 DEF vars, CancelTask, CancelLost, Exit
<1>4. CASE \/ Schedule \/ Begin \/ ModelCallFails \/ EnterVerifying \/ LoadReplan
           \/ Finish \/ Announce \/ StartAnalysis
  BY <1>2, <1>4
     DEF Schedule, Begin, ModelCallFails, EnterVerifying, LoadReplan, Finish,
         Announce, StartAnalysis, Refused
<1>5. CASE Planned
  BY <1>2, <1>5 DEF Planned, PlanAnswered, Refused
<1>6. CASE Judged
  BY <1>2, <1>6 DEF Judged, VerdictAnswered, Refused
<1>7. CASE Replanned
  BY <1>2, <1>7 DEF Replanned, ReplanAnswered, Refused
<1>8. CASE ReadTask \/ LoadExecution \/ Checked
  BY <1>8, ReadTaskMoves, LoadExecutionMoves, CheckCancelledMoves DEF Checked
<1>9. CASE StartTool \/ ToolSucceeds \/ CheckFails \/ Raised
  BY <1>9, StepMoves DEF Raised
<1>10. CASE CancelOperation \/ Stop
  BY <1>2, <1>10 DEF CancelOperation, Stop, Interrupted
<1>11. CASE JudgedLost
  BY <1>2, <1>11 DEF JudgedLost, VerdictLost
<1>12. CASE FinishLost
  BY <1>2, <1>12 DEF FinishLost
<1>13. QED
  BY <1>3, <1>4, <1>5, <1>6, <1>7, <1>8, <1>9, <1>10, <1>11, <1>12
     DEF Next, OperationStep, Environment, Planned, Judged, Replanned, Checked,
         Raised, JudgedLost

\* The arithmetic of the bound.
LEMMA AcceptedBounds ==
  ASSUME TypeOK
  PROVE  /\ Accepted \in Nat /\ Accepted <= 1 + MaxRevisions
         /\ plan.version # 0 => Accepted >= 1
         /\ plan.version < 1 + MaxRevisions => Accepted = plan.version
         /\ MaxTransitions = 3 + 2 * MaxRevisions /\ MaxRevisions \in Nat
         /\ plan.version \in Nat
BY LatestSteps, Numbers DEF TypeOK, Accepted, MaxTransitions

\* The plan's version changes with a new plan only.
LEMMA VersionMoves ==
  ASSUME TypeOK, [Next]_vars, plan'.version # plan.version
  PROVE  Planned \/ Replanned
BY Writers, RecordKeeps

LEMMA ReplanStep ==
  ASSUME TypeOK, InvReplan, [Next]_vars
  PROVE  InvReplan'
<1>1. CASE op.at # "replanning"
  <2>1. SUFFICES ASSUME op'.at = "replanning"
                 PROVE  plan'.version < 1 + MaxRevisions
    BY DEF InvReplan
  <2>2. LoadReplan
    BY <1>1, <2>1, Edges
  <2>3. plan' = plan /\ ~Exhausted
    BY <2>1, <2>2, OpMoves DEF LoadReplan, TypeOK
  <2>4. QED BY <2>3, LatestSteps, Numbers DEF Exhausted, TypeOK
<1>2. CASE op.at = "replanning"
  BY <1>2, VersionMoves, PlannedMoves, ReplannedMoves DEF InvReplan, durable
<1>3. QED BY <1>1, <1>2

\* What a turn of the loop costs, stage by stage.
LEMMA TurnsStep ==
  ASSUME Grounded, Grounded', InvReplan, InvTurns, [Next]_vars
  PROVE  InvTurns'
<1> USE DEF Grounded
<1>1. task \in Row /\ op \in Operation
  BY DEF TypeOK
<1>2. op'.at = op.at => op' = op \/ op'.at \in {"idle", "scheduled"}
  BY Stays DEF Crash, Recovery, Resume, Park, LeaveSettled, NoOperation
<1>3. \/ op'.previous = op.previous /\ op'.turns = op.turns
      \/ ReadState \/ op'.at \in {"idle", "scheduled"}
  BY LoopVariables DEF Crash, Recovery, Resume, Park, LeaveSettled, NoOperation
<1>4. op'.at \in {"unscheduled", "scheduled"} => op'.previous = "none"
  <2>1. CASE Resume
    BY <2>1 DEF Resume, NoOperation
  <2>2. CASE Park \/ LeaveSettled \/ Crash
    BY <2>2 DEF Park, LeaveSettled, Crash, NoOperation
  <2>3. CASE ~(Recovery \/ Crash) /\ op'.at = op.at
    BY <2>3, Stays DEF InvTurns
  <2>4. CASE ~(Recovery \/ Crash) /\ op'.at # op.at
    <3>1. SUFFICES ASSUME op'.at \in {"unscheduled", "scheduled"}
                   PROVE  op'.previous = "none"
      OBVIOUS
    <3>2. Schedule
      BY <2>4, <3>1, Edges DEF Recovery
    <3>3. op'.previous = op.previous
      BY <2>4, <3>2, LoopVariables DEF Schedule, ReadState
    <3>4. QED BY <3>2, <3>3 DEF Schedule, InvTurns
  <2>5. QED BY <2>1, <2>2, <2>3, <2>4 DEF Recovery
<1>5. op'.at \in {"start", "snapshot", "planning"} =>
        op'.previous = "PENDING" /\ op'.turns = 0
  <2>1. CASE ReadState
    BY <1>1, <2>1, ReadStateMoves DEF InvTurns
  <2>2. CASE ~ReadState /\ op'.at \in {"start", "snapshot", "planning"}
    <3>1. op.at \in {"start", "snapshot", "planning"}
      BY <2>2, Edges DEF ReadTask, StartAnalysis
    <3>2. QED BY <1>3, <2>2, <3>1 DEF InvTurns
  <2>3. QED BY <2>1, <2>2
<1>6. op'.at \in Executing \cup {"verifying"} =>
        op'.previous = "EXECUTING" /\ op'.turns <= 2 * Accepted' - 1
  <2>1. SUFFICES ASSUME op'.at \in Executing \cup {"verifying"}
                 PROVE  op'.previous = "EXECUTING" /\ op'.turns <= 2 * Accepted' - 1
    OBVIOUS
  <2>2. Accepted' = Accepted
    <3>1. plan'.version = plan.version
      BY <2>1, VersionMoves, PlannedMoves, ReplannedMoves DEF Executing, durable
    <3>2. QED BY <3>1 DEF Accepted
  <2>3. CASE ReadState
    <3>1. op'.at = "execute" /\ task.state = "EXECUTING"
      BY <2>1, <2>3, ReadStateMoves DEF Executing
    <3>2. QED BY <2>2, <2>3, <3>1, ReadStateMoves DEF InvTurns
  <2>4. CASE ~ReadState
    <3>1. op.at \in Executing \cup {"verifying"}
      BY <2>1, <2>4, Edges, CheckCancelledMoves
         DEF Executing, LoadExecution, StartTool, ToolSucceeds, CheckFails,
             EnterVerifying, Checked
    <3>2. QED BY <1>3, <2>1, <2>2, <2>4, <3>1 DEF InvTurns, Executing
  <2>5. QED BY <2>3, <2>4
<1>7. op'.at \in {"replan", "replanning"} =>
        op'.previous = "REPLANNING" /\ op'.turns <= 2 * Accepted'
  <2>1. SUFFICES ASSUME op'.at \in {"replan", "replanning"}
                 PROVE  op'.previous = "REPLANNING" /\ op'.turns <= 2 * Accepted'
    OBVIOUS
  <2>2. Accepted' = Accepted
    <3>1. plan'.version = plan.version
      BY <2>1, VersionMoves, PlannedMoves, ReplannedMoves DEF durable
    <3>2. QED BY <3>1 DEF Accepted
  <2>3. CASE ReadState
    <3>1. op'.at = "replan" /\ task.state = "REPLANNING"
      BY <2>1, <2>3, ReadStateMoves
    <3>2. QED BY <2>2, <2>3, <3>1, ReadStateMoves DEF InvTurns
  <2>4. CASE ~ReadState
    <3>1. op.at \in {"replan", "replanning"}
      BY <2>1, <2>4, Edges DEF LoadReplan
    <3>2. QED BY <1>3, <2>1, <2>2, <2>4, <3>1 DEF InvTurns
  <2>5. QED BY <2>3, <2>4
<1>8. op'.at = "loop" =>
        /\ op'.previous \in {"none", "PENDING", "EXECUTING", "REPLANNING"}
        /\ task'.state # op'.previous
        /\ Turns' <= MaxTransitions
        /\ task'.state = "PENDING" => Turns' = 0
        /\ task'.state = "EXECUTING" => Turns' <= 2 * Accepted' - 1
        /\ task'.state = "REPLANNING" => Turns' <= 2 * Accepted'
  <2> SUFFICES ASSUME op'.at = "loop"
               PROVE  /\ op'.previous \in {"none", "PENDING", "EXECUTING", "REPLANNING"}
                      /\ task'.state # op'.previous
                      /\ Turns' <= MaxTransitions
                      /\ task'.state = "PENDING" => Turns' = 0
                      /\ task'.state = "EXECUTING" => Turns' <= 2 * Accepted' - 1
                      /\ task'.state = "REPLANNING" => Turns' <= 2 * Accepted'
    OBVIOUS
  <2>1. op'.previous = op.previous /\ op'.turns = op.turns /\ Turns' = Turns
    BY <1>3, ReadStateMoves DEF Turns
  <2>2. /\ Accepted \in Nat /\ Accepted <= 1 + MaxRevisions
        /\ plan.version # 0 => Accepted >= 1
        /\ plan.version < 1 + MaxRevisions => Accepted = plan.version
        /\ MaxTransitions = 3 + 2 * MaxRevisions /\ MaxRevisions \in Nat
        /\ op.turns \in Nat /\ plan.version \in Nat
        /\ plan # NoPlan => plan.version # 0
    BY <1>1, AcceptedBounds, Versioned DEF Operation, TypeOK
  <2>3. plan'.version = plan.version => Accepted' = Accepted
    BY DEF Accepted
  <2>4. CASE op.at = "loop"
    <3>1. plan'.version = plan.version
      BY <2>4, VersionMoves, PlannedMoves, ReplannedMoves
    <3>2. task'.state = task.state \/ task'.state = "CANCELLED"
      <4>1. task' = task \/ CancelTask
        BY <2>4, Writers, PlannedMoves, ReplannedMoves, JudgedMoves
           DEF StartAnalysis, EnterVerifying, LoadReplan, Finish, Park, NoOperation
      <4>2. QED BY <1>1, <4>1 DEF CancelTask, Row
    <3>3. QED BY <2>1, <2>2, <2>3, <2>4, <3>1, <3>2 DEF InvTurns
  <2>5. CASE Begin
    <3>1. task' = task /\ plan' = plan /\ op.previous = "none"
      BY <2>5 DEF Begin, OperationOnly, durable, InvTurns
    <3>2. task.state \in {"PENDING", "EXECUTING", "CANCELLED"} /\ Turns = 0
      BY <2>5, <3>1 DEF Begin, InvRow, Turns
    <3>3. task.state = "EXECUTING" => plan # NoPlan
      BY DEF InvFresh
    <3>4. QED BY <2>1, <2>2, <2>3, <3>1, <3>2, <3>3
  <2>6. CASE StartAnalysis
    <3>1. task'.state = "CANCELLED" /\ op.previous = "PENDING" /\ op.turns = 0
      BY <2>6, StartMoves DEF StartAnalysis, InvTurns
    <3>2. QED BY <2>1, <2>2, <3>1 DEF Turns
  <2>7. CASE Planned
    <3>1. op.previous = "PENDING" /\ op.turns = 0 /\ Turns = 1
      BY <2>7, PlannedMoves DEF InvTurns, Turns
    <3>2. CASE task'.state = "EXECUTING" /\ plan'.version # 0
      <4>1. plan'.version \in Nat
        BY DEF TypeOK, PlanTypeOK, NoPlan
      <4>2. Accepted' >= 1 /\ Accepted' \in Nat
        BY <2>2, <3>2, <4>1 DEF Accepted
      <4>3. Turns' <= 2 * Accepted' - 1 /\ Turns' <= MaxTransitions
        <5>1. \A n \in Nat : n >= 1 => 1 <= 2 * n - 1
          OBVIOUS
        <5>2. Turns' = 1 /\ 1 <= MaxTransitions
          BY <2>1, <2>2, <3>1
        <5>3. QED BY <4>2, <5>1, <5>2
      <4>4. QED BY <2>1, <3>1, <3>2, <4>3
    <3>3. CASE task'.state = "BUDGET_EXCEEDED"
      BY <2>1, <2>2, <3>1, <3>3
    <3>4. QED BY <2>7, <3>2, <3>3, PlannedMoves
  <2>8. CASE Judged
    <3>1. op.previous = "EXECUTING" /\ op.turns <= 2 * Accepted - 1
      BY <2>8, JudgedMoves DEF InvTurns
    <3>2. Turns = op.turns + 1
      BY <3>1 DEF Turns
    <3>3. /\ task'.state \in {"SUCCEEDED", "FAILED", "NEEDS_REVIEW", "REPLANNING",
                             "BUDGET_EXCEEDED"}
          /\ plan' = plan
      BY <2>8, JudgedMoves
    <3>4. QED BY <2>1, <2>2, <2>3, <3>1, <3>2, <3>3
  <2>9. CASE LoadReplan
    <3>1. op.previous = "REPLANNING" /\ op.turns <= 2 * Accepted
      BY <2>9 DEF LoadReplan, InvTurns
    <3>2. Turns = op.turns + 1
      BY <3>1 DEF Turns
    <3>3. task'.state = "NEEDS_REVIEW"
      BY <1>1, <2>9, OneMove, OpMoves DEF LoadReplan
    <3>4. QED BY <2>1, <2>2, <3>1, <3>2, <3>3
  <2>10. CASE Replanned
    <3>1. /\ op.previous = "REPLANNING" /\ op.turns <= 2 * Accepted
          /\ plan.version < 1 + MaxRevisions
      BY <2>10, ReplannedMoves DEF InvTurns, InvReplan
    <3>2. Turns = op.turns + 1
      BY <3>1 DEF Turns
    <3>3. CASE task'.state = "EXECUTING" /\ plan'.version = plan.version + 1
      <4>1. Accepted' = plan.version + 1
        BY <2>2, <3>1, <3>3 DEF Accepted
      <4>2. QED BY <2>1, <2>2, <3>1, <3>2, <3>3, <4>1
    <3>4. CASE task'.state = "BUDGET_EXCEEDED"
      BY <2>1, <2>2, <3>1, <3>2, <3>4
    <3>5. QED BY <2>10, <3>3, <3>4, ReplannedMoves
  <2>11. QED BY <2>4, <2>5, <2>6, <2>7, <2>8, <2>9, <2>10, Edges
<1>9. QED BY <1>4, <1>5, <1>6, <1>7, <1>8 DEF InvTurns

\* The turns are counted right in every state.
THEOREM TurnsCorrect == Spec => [](InvReplan /\ InvTurns)
<1>1. Init => InvReplan /\ InvTurns
  BY DEF Init, InvReplan, InvTurns, NoOperation, Executing
<1>2. Grounded /\ InvReplan /\ [Next]_vars => InvReplan'
  BY ReplanStep DEF Grounded
<1>3. Grounded /\ Grounded' /\ InvReplan /\ InvTurns /\ [Next]_vars => InvTurns'
  BY TurnsStep
<1>4. QED BY <1>1, <1>2, <1>3, GroundedCorrect, PTL DEF Spec

\* Neither of the loop's two guards ever fires.
THEOREM LoopCorrect == Spec => []LoopIsBounded
<1>1. InvTurns /\ Grounded => LoopIsBounded
  <2>1. SUFFICES ASSUME InvTurns, Grounded, op.at = "loop"
                 PROVE  ~LoopFault
    BY DEF LoopIsBounded
  <2>2. Turns <= MaxTransitions /\ task.state # op.previous
    BY <2>1 DEF InvTurns
  <2>3. Turns \in Nat /\ MaxTransitions \in Nat
    <3>1. TypeOK /\ op \in Operation
      BY <2>1 DEF Grounded, TypeOK
    <3>2. Turns \in Nat
      BY <3>1 DEF Operation, Turns
    <3>3. MaxTransitions \in Nat
      BY <3>1, AcceptedBounds
    <3>4. QED BY <3>2, <3>3
  <2>4. QED BY <2>2, <2>3 DEF LoopFault
<1>2. QED BY <1>1, TurnsCorrect, GroundedCorrect, PTL

-----------------------------------------------------------------------------
(* The life cycle.                                                         *)

\* Where the exception handlers are entered from.
LEMMA FailingSources ==
  ASSUME TypeOK, [Next]_vars, op'.at = "failing", op.at # "failing"
  PROVE  /\ task' = task
         /\ \/ op'.target = "CANCELLED"
            \/ op.at \in Executing \cup ModelCalls \cup {"snapshot", "replan"}
            \/ op.at = "loop" /\ LoopFault
<1>1. op \in Operation
  BY DEF TypeOK
<1>2. CASE \/ UNCHANGED vars \/ CancelTask \/ CancelLost \/ Exit
  BY <1>2 DEF vars, CancelTask, CancelLost, Exit
<1>3. CASE Schedule \/ Begin \/ Announce \/ Finish
  BY <1>1, <1>3, OpMoves DEF Schedule, Begin, Announce, Finish
<1>4. CASE ModelCallFails
  BY <1>4 DEF ModelCallFails, OperationOnly, durable
<1>5. CASE EnterVerifying \/ LoadReplan
  BY <1>1, <1>5, OpMoves DEF EnterVerifying, LoadReplan, Refused, durable, Executing
<1>6. CASE StartAnalysis
  BY <1>6, StartMoves DEF StartAnalysis
<1>7. CASE Planned \/ Judged \/ Replanned
  BY <1>7, PlannedMoves, JudgedMoves, ReplannedMoves DEF durable, ModelCalls
<1>8. CASE ReadState \/ ReadTask \/ LoadExecution \/ Checked
  BY <1>8, ReadStateMoves, ReadTaskMoves, LoadExecutionMoves, CheckCancelledMoves
     DEF Checked, Executing
<1>9. CASE StartTool \/ ToolSucceeds \/ CheckFails \/ Raised
  BY <1>9, StepMoves DEF Raised, Executing
<1>10. CASE CancelOperation \/ Stop
  BY <1>1, <1>10, InterruptedMoves DEF CancelOperation, Stop, durable
<1>11. CASE JudgedLost \/ FinishLost
  BY <1>1, <1>11, LostMoves DEF JudgedLost, durable, ModelCalls
<1>12. CASE Resume \/ Park \/ LeaveSettled \/ Crash
  BY <1>12 DEF Resume, Park, LeaveSettled, Crash, NoOperation
<1>13. QED
  BY <1>2, <1>3, <1>4, <1>5, <1>6, <1>7, <1>8, <1>9, <1>10, <1>11, <1>12
     DEF Next, OperationStep, Recovery, Environment, Planned, Judged, Replanned,
         Checked, Raised, JudgedLost

\* A task under review is failed by nobody.
LEMMA FailingStep ==
  ASSUME Grounded, LoopIsBounded, InvFailing, [Next]_vars
  PROVE  InvFailing'
<1> USE DEF Grounded
<1>1. SUFFICES ASSUME op'.at = "failing", task'.state = "NEEDS_REVIEW"
               PROVE  op'.target = "CANCELLED"
  BY DEF InvFailing
<1>2. CASE op.at # "failing"
  BY <1>1, <1>2, FailingSources
     DEF InvRow, Executing, ModelCalls, LoopIsBounded
<1>3. CASE op.at = "failing"
  <2>1. op' = op
    BY <1>1, <1>3, Stays DEF Crash, Recovery, Resume, Park, LeaveSettled, NoOperation
  <2>2. task' = task \/ CancelTask
    <3>1. ~Finish /\ ~Park
      BY <1>1, OpMoves DEF Finish, Park, NoOperation, TypeOK
    <3>2. QED
      BY <1>3, <3>1, Writers, PlannedMoves, ReplannedMoves, JudgedMoves
         DEF StartAnalysis, EnterVerifying, LoadReplan
  <2>3. task'.state = task.state
    BY <1>1, <2>2 DEF CancelTask, TypeOK, Row
  <2>4. QED BY <1>1, <2>1, <2>3 DEF InvFailing
<1>4. QED BY <1>2, <1>3

\* The whole inductive invariant.
Complete == Guarded /\ InvReplan /\ InvTurns /\ InvFailing /\ LoopIsBounded

\* The loop, its failures and everything before them, from the first state on.
THEOREM CompleteCorrect == Spec => []Complete
<1>1. Init => InvFailing
  BY DEF Init, InvFailing, NoOperation
<1>2. Grounded /\ LoopIsBounded /\ InvFailing /\ [Next]_vars => InvFailing'
  BY FailingStep
<1>3. Guarded => Grounded
  BY DEF Guarded
<1>4. QED BY <1>1, <1>2, <1>3, TurnsCorrect, LoopCorrect, GuardedCorrect, PTL
          DEF Spec, Complete

\* Who fails, parks or cancels a task, and from which states.
LEMMA GiveUpSources ==
  ASSUME Complete, [Next]_vars, task'.state # task.state,
         task'.state \in {"FAILED", "NEEDS_REVIEW", "CANCELLED"}, ~CancelTask
  PROVE  /\ task.state \in {"PENDING", "ANALYZING", "EXECUTING", "VERIFYING",
                            "REPLANNING", "NEEDS_REVIEW"}
         /\ task'.state = "FAILED" => task.state # "NEEDS_REVIEW"
         /\ task'.state = "NEEDS_REVIEW" =>
              task.state \notin {"PENDING", "NEEDS_REVIEW"}
         /\ plan'.version = plan.version
<1> USE DEF Complete, Guarded, Grounded
<1>1. task \in Row /\ op \in Operation
  BY DEF TypeOK
<1>2. plan'.version = plan.version
  BY VersionMoves, PlannedMoves, ReplannedMoves DEF durable
<1>3. task'.state = "NEEDS_REVIEW" => task.state # "NEEDS_REVIEW"
  OBVIOUS
<1>4. CASE StartAnalysis
  <2>1. task'.state = "CANCELLED" /\ "CANCELLED" \in Allowed(op.seen.state)
    BY <1>4, StartMoves
  <2>2. op.at = "snapshot" /\ op.seen.state = "PENDING"
    BY <1>4, <2>1 DEF StartAnalysis, InvCancel, Allowed
  <2>3. task.state = "PENDING"
    BY <2>1, <2>2 DEF InvRow
  <2>4. QED BY <1>2, <2>1, <2>3
<1>5. CASE ~StartAnalysis
  <2>1. task'.state \in Allowed(task.state)
    <3>1. ~Planned /\ ~Replanned
      BY PlannedMoves, ReplannedMoves DEF durable
    <3>2. CASE Judged
      BY <3>2, JudgedMoves DEF durable
    <3>3. CASE EnterVerifying \/ LoadReplan \/ Finish \/ Park
      BY <1>1, <3>3, OneMove
         DEF EnterVerifying, LoadReplan, Finish, Park, Refused, durable
    <3>4. QED BY <1>5, <3>1, <3>2, <3>3, Writers
  <2>2. /\ task.state \in {"PENDING", "ANALYZING", "EXECUTING", "VERIFYING",
                           "REPLANNING", "NEEDS_REVIEW"}
        /\ task'.state = "NEEDS_REVIEW" => task.state # "PENDING"
    BY <2>1 DEF InvRow, SeenStates, Allowed, TERMINAL_STATES, Abort
  <2>3. ASSUME task'.state = "FAILED", task.state = "NEEDS_REVIEW"
        PROVE  FALSE
    <3>1. ~Judged
      BY <2>3, JudgedMoves DEF InvRow, durable
    <3>2. ~Finish
      BY <1>1, <2>3, OneMove DEF Finish, InvFailing
    <3>3. ~(EnterVerifying \/ LoadReplan \/ Park)
      BY <1>1, <2>3, OneMove DEF EnterVerifying, LoadReplan, Park, Refused, durable
    <3>4. ~Planned /\ ~Replanned
      BY PlannedMoves, ReplannedMoves DEF durable
    <3>5. QED BY <1>5, <3>1, <3>2, <3>3, <3>4, Writers
  <2>4. QED BY <1>2, <1>3, <2>2, <2>3
<1>6. QED BY <1>4, <1>5

\* Every step of the orchestration is a step of the life cycle or leaves its
\* three variables alone.
LEMMA LifecycleStep ==
  ASSUME Complete, Complete', [Next]_vars
  PROVE  [Lifecycle!Next]_<<task.state, plan.version, task.cancelRequested>>
<1> USE DEF Complete, Guarded, Grounded
<1>1. task \in Row /\ task' \in Row /\ op \in Operation
  BY DEF TypeOK
<1>2. CASE CancelTask
  <2>1. /\ task'.cancelRequested = TRUE
        /\ task'.state = IF task.state \in TERMINAL_STATES THEN task.state
                         ELSE "CANCELLED"
        /\ plan' = plan
    BY <1>1, <1>2 DEF CancelTask, Row
  <2>2. Lifecycle!Cancel
    BY <2>1 DEF Lifecycle!Cancel, Lifecycle!TERMINAL_STATES, TERMINAL_STATES
  <2>3. QED BY <2>2 DEF Lifecycle!Next
<1>3. CASE ~CancelTask
  <2>1. task'.cancelRequested = task.cancelRequested
    BY <1>3, FlagMoves
  <2>2. CASE task'.state = task.state
    <3>1. plan'.version = plan.version
      BY <2>2, VersionMoves, PlannedMoves, ReplannedMoves DEF durable, InvRow
    <3>2. QED BY <2>1, <2>2, <3>1
  <2>3. CASE task'.state = "ANALYZING" /\ task.state # "ANALYZING"
    <3>1. StartAnalysis /\ op.at = "snapshot"
      BY <2>3, RowSources DEF StartAnalysis
    <3>2. plan'.version = plan.version /\ plan.version = 0
      BY <3>1 DEF StartAnalysis, InvFresh, Fresh, NoPlan
    <3>3. task.state = "PENDING" \/ (task.state = "CANCELLED" /\ task.cancelRequested)
      <4>1. task.state \in {"PENDING", "CANCELLED"}
        BY <3>1 DEF InvRow
      <4>2. task.state = "CANCELLED" => task.cancelRequested
        BY <3>1 DEF InvCancel
      <4>3. QED BY <4>1, <4>2
    <3>4. Lifecycle!Begin \/ Lifecycle!Revive
      BY <2>1, <2>3, <3>2, <3>3 DEF Lifecycle!Begin, Lifecycle!Revive
    <3>5. QED BY <3>4 DEF Lifecycle!Next
  <2>4. CASE task'.state = "EXECUTING" /\ task.state # "EXECUTING"
    <3>1. CASE Planned
      <4>1. task.state = "ANALYZING" /\ plan'.version \in FirstVersions
        BY <2>4, <3>1, PlannedMoves DEF InvRow, durable, Allowed
      <4>2. plan.version = 0
        BY <4>1 DEF InvFresh, Fresh, NoPlan
      <4>3. Lifecycle!AcceptPlan
        BY <2>1, <2>4, <4>1, <4>2 DEF Lifecycle!AcceptPlan
      <4>4. QED BY <4>3 DEF Lifecycle!Next
    <3>2. CASE Replanned
      <4>1. /\ task.state = "REPLANNING" /\ op.at = "replanning"
            /\ plan'.version = plan.version + 1
        BY <2>4, <3>2, ReplannedMoves DEF InvRow, durable, Allowed
      <4>2. ~task.cancelRequested
        BY <4>1 DEF InvCancel, TERMINAL_STATES
      <4>3. plan.version <= MaxRevisions
        BY <4>1, AcceptedBounds DEF InvReplan
      <4>4. Lifecycle!AcceptRevision
        BY <2>1, <2>4, <4>1, <4>2, <4>3 DEF Lifecycle!AcceptRevision
      <4>5. QED BY <4>4 DEF Lifecycle!Next
    <3>3. QED BY <2>4, <3>1, <3>2, RowSources
  <2>5. CASE task'.state = "VERIFYING" /\ task.state # "VERIFYING"
    <3>1. EnterVerifying /\ op.at = "stepsDone" /\ task.state = "EXECUTING"
      BY <2>5, VerifySources
    <3>2. ~task.cancelRequested
      BY <3>1 DEF InvRevived
    <3>3. plan'.version = plan.version
      BY <3>1, VersionMoves, PlannedMoves, ReplannedMoves
    <3>4. Lifecycle!Verify
      BY <2>1, <2>5, <3>1, <3>2, <3>3 DEF Lifecycle!Verify
    <3>5. QED BY <3>4 DEF Lifecycle!Next
  <2>6. CASE task'.state \in {"REPLANNING", "SUCCEEDED"} /\ task.state # task'.state
    <3>1. Judged /\ op.at = "verifying" /\ task.state = "VERIFYING"
      BY <2>6, VerifySources
    <3>2. ~task.cancelRequested
      BY <3>1 DEF InvCancel, TERMINAL_STATES
    <3>3. plan'.version = plan.version
      BY <3>1, JudgedMoves
    <3>4. Lifecycle!Succeed \/ Lifecycle!Revise
      BY <2>1, <2>6, <3>1, <3>2, <3>3 DEF Lifecycle!Succeed, Lifecycle!Revise
    <3>5. QED BY <3>4 DEF Lifecycle!Next
  <2>7. CASE task'.state = "BUDGET_EXCEEDED" /\ task.state # "BUDGET_EXCEEDED"
    <3>1. /\ task.state \in {"ANALYZING", "VERIFYING", "REPLANNING"}
          /\ plan'.version = plan.version
      BY <2>7, RowSources, PlannedMoves, JudgedMoves, ReplannedMoves
         DEF InvRow, durable, Allowed
    <3>2. Lifecycle!Overspend
      BY <2>1, <2>7, <3>1 DEF Lifecycle!Overspend
    <3>3. QED BY <3>2 DEF Lifecycle!Next
  <2>8. CASE /\ task'.state \in {"FAILED", "NEEDS_REVIEW", "CANCELLED"}
             /\ task.state # task'.state
    <3>1. Lifecycle!GiveUp
      BY <1>3, <2>1, <2>8, GiveUpSources DEF Lifecycle!GiveUp
    <3>2. QED BY <3>1 DEF Lifecycle!Next
  <2>9. CASE task'.state \in {"PENDING", "REJECTED"} /\ task.state # task'.state
    <3>1. ~StartAnalysis
      BY <2>9, StartMoves
    <3>2. ~Planned /\ ~Replanned /\ ~Judged
      BY <2>9, PlannedMoves, ReplannedMoves, JudgedMoves DEF durable
    <3>3. ~(EnterVerifying \/ LoadReplan \/ Finish \/ Park)
      BY <1>1, <2>9, OneMove
         DEF EnterVerifying, LoadReplan, Finish, Park, Refused, durable, Operation
    <3>4. QED BY <1>3, <2>9, <3>1, <3>2, <3>3, Writers
  <2>10. QED
    BY <2>2, <2>3, <2>4, <2>5, <2>6, <2>7, <2>8, <2>9
       DEF InvRow, SeenStates, TERMINAL_STATES
<1>4. QED BY <1>2, <1>3

\* What a client sees of a task follows the abstract life cycle.
THEOREM Refinement == Spec => RefinesLifecycle
<1>1. Init => Lifecycle!Init
  BY DEF Init, Lifecycle!Init, NoPlan
<1>2. Complete /\ Complete' /\ [Next]_vars =>
        [Lifecycle!Next]_<<task.state, plan.version, task.cancelRequested>>
  BY LifecycleStep
<1>3. QED
  BY <1>1, <1>2, CompleteCorrect, PTL
     DEF Spec, RefinesLifecycle, Lifecycle!Spec, Lifecycle!view

=============================================================================
