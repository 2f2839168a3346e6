-------------------------- MODULE MemoryConsolidation --------------------------
(***************************************************************************)
(* What is remembered of tasks: after each verification                    *)
(* _consolidate_memory (orchestrator/execution.py) makes a job and         *)
(* processes it (memory/consolidation.py). The outcomes of verifications   *)
(* are TaskOrchestration's; here they only say which report comes next.    *)
(***************************************************************************)
EXTENDS Integers, Sequences, FiniteSets, SequencesExt

CONSTANTS
  Tasks,
  MaxReports,  \* bound: verifications of a task
  MaxFaults    \* bound: crashes and failing transactions

BoundsAssumption == MaxReports \in Nat \ {0} /\ MaxFaults \in Nat

VARIABLES
  state,     \* state of each task
  reports,   \* verdicts of its verifications
  at,        \* "idle", "enqueue", "process": where its _consolidate_memory is
  auto,      \* auto_activate of that call
  job,       \* its job
  memory,    \* memories made from it
  faults

vars == <<state, reports, at, auto, job, memory, faults>>

NoJob == [status |-> "none", attempt |-> 0, auto |-> FALSE]
Terminal == {"SUCCEEDED", "FAILED", "NEEDS_REVIEW", "BUDGET_EXCEEDED"}
-----------------------------------------------------------------------------
Init ==
  /\ state = [t \in Tasks |-> "VERIFYING"] /\ reports = [t \in Tasks |-> <<>>]
  /\ at = [t \in Tasks |-> "idle"] /\ auto = [t \in Tasks |-> FALSE]
  /\ job = [t \in Tasks |-> NoJob] /\ memory = [t \in Tasks |-> <<>>] /\ faults = 0

\* The states a verdict may lead to.
Targets(verdict) ==
  {"BUDGET_EXCEEDED"} \cup
    (CASE verdict = "passed" -> {"SUCCEEDED"}
       [] verdict = "failed" -> {"FAILED", "REPLANNING"}
       [] verdict = "needs_review" -> {"NEEDS_REVIEW"})

Verify(t, verdict, target) ==
  /\ state[t] = "VERIFYING" /\ Len(reports[t]) < MaxReports
  /\ target \in Targets(verdict)
  /\ state' = [state EXCEPT ![t] = target]
  /\ reports' = [reports EXCEPT ![t] = Append(@, verdict)]
  /\ at' = [at EXCEPT ![t] = "enqueue"]
  /\ auto' = [auto EXCEPT ![t] = (target = "SUCCEEDED")]
  /\ UNCHANGED <<job, memory, faults>>

\* The operation goes on only when _consolidate_memory has returned.
Replan(t) ==
  /\ state[t] = "REPLANNING" /\ at[t] = "idle"
  /\ state' = [state EXCEPT ![t] = "VERIFYING"]
  /\ UNCHANGED <<reports, at, auto, job, memory, faults>>

\* enqueue: a task has one job, made by the first call.
Enqueue(t) ==
  /\ at[t] = "enqueue"
  /\ job' = IF job[t].status # "none" THEN job
            ELSE [job EXCEPT ![t] = [status |-> "pending", attempt |-> 0, auto |-> auto[t]]]
  /\ at' = [at EXCEPT ![t] = "process"]
  /\ UNCHANGED <<state, reports, auto, memory, faults>>

\* Mutant of NewMemory: a memory of a passed report is active.
NewMemoryAccepted(t) ==
  [report |-> Len(reports[t]), validations |-> IF Last(reports[t]) = "passed" THEN 1 ELSE 0,
   status |-> IF Last(reports[t]) = "passed" THEN "active" ELSE "candidate", edited |-> FALSE]

\* The memory of the latest report.
NewMemory(t) ==
  [report |-> Len(reports[t]), validations |-> IF Last(reports[t]) = "passed" THEN 1 ELSE 0,
   status |-> IF Last(reports[t]) = "passed" /\ job[t].auto THEN "active" ELSE "candidate",
   edited |-> FALSE]

\* _consolidate: a memory of the same content is validated again.
Consolidate(t) ==
  LET same == {i \in DOMAIN memory[t] : memory[t][i].report = Len(reports[t])}
  IN  memory' = IF same = {} THEN [memory EXCEPT ![t] = Append(@, NewMemory(t))]
                ELSE [memory EXCEPT ![t] = [i \in DOMAIN @ |->
                       IF i \in same /\ Last(reports[t]) = "passed"
                         THEN [@[i] EXCEPT !.validations = @ + 1] ELSE @[i]]]

\* process in one transaction; a job that is completed is left alone.
Process(t) ==
  /\ at[t] = "process"
  /\ IF job[t].status = "completed" THEN UNCHANGED <<job, memory>>
     ELSE /\ Consolidate(t)
          /\ job' = [job EXCEPT ![t].status = "completed", ![t].attempt = @ + 1]
  /\ at' = [at EXCEPT ![t] = "idle"]
  /\ UNCHANGED <<state, reports, auto, faults>>

\* Mutant of ProcessFails: what was written before the error stays.
ProcessFailsHalfway(t) ==
  /\ at[t] = "process" /\ job[t].status # "completed" /\ faults < MaxFaults
  /\ Consolidate(t)
  /\ job' = [job EXCEPT ![t].status = "failed", ![t].attempt = @ + 1]
  /\ at' = [at EXCEPT ![t] = "idle"] /\ faults' = faults + 1
  /\ UNCHANGED <<state, reports, auto>>

\* An error that is none of the session's is committed with the job.
ProcessFails(t) ==
  /\ at[t] = "process" /\ job[t].status # "completed" /\ faults < MaxFaults
  /\ job' = [job EXCEPT ![t].status = "failed", ![t].attempt = @ + 1]
  /\ at' = [at EXCEPT ![t] = "idle"] /\ faults' = faults + 1
  /\ UNCHANGED <<state, reports, auto, memory>>

\* A transaction fails: it is rolled back, the error is logged and forgotten.
TransactionFails(t) ==
  /\ at[t] \in {"enqueue", "process"} /\ faults < MaxFaults
  /\ at' = [at EXCEPT ![t] = "idle"] /\ faults' = faults + 1
  /\ UNCHANGED <<state, reports, auto, job, memory>>

\* The process is lost; a task that was being planned again goes on later.
Crash ==
  /\ faults < MaxFaults /\ \E t \in Tasks : at[t] # "idle"
  /\ at' = [t \in Tasks |-> "idle"] /\ faults' = faults + 1
  /\ UNCHANGED <<state, reports, auto, job, memory>>

\* The endpoints that set the status of a memory or delete it.
SetStatus(t, i, status) ==
  /\ i \in DOMAIN memory[t] /\ memory[t][i].status # status
  /\ memory' = [memory EXCEPT ![t][i].status = status, ![t][i].edited = TRUE]
  /\ UNCHANGED <<state, reports, at, auto, job, faults>>

Next ==
  \/ \E t \in Tasks :
       \/ \E verdict \in {"passed", "failed", "needs_review"} :
            \E target \in Targets(verdict) : Verify(t, verdict, target)
       \/ Replan(t) \/ Enqueue(t) \/ Process(t) \/ ProcessFails(t) \/ TransactionFails(t)
       \/ \E i \in DOMAIN memory[t], status \in {"active", "rejected", "deleted"} : SetStatus(t, i, status)
  \/ Crash

Spec == Init /\ [][Next]_vars
-----------------------------------------------------------------------------
Statuses == {"candidate", "active", "rejected", "deleted"}

Job == [status : {"none", "pending", "completed", "failed"}, attempt : 0 .. MaxReports, auto : BOOLEAN]

Memory == [report : 1 .. MaxReports, validations : 0 .. MaxReports,
           status : Statuses, edited : BOOLEAN]

TypeOK ==
  /\ state \in [Tasks -> Terminal \cup {"VERIFYING", "REPLANNING"}]
  /\ reports \in [Tasks -> Seq({"passed", "failed", "needs_review"})]
  /\ at \in [Tasks -> {"idle", "enqueue", "process"}] /\ auto \in [Tasks -> BOOLEAN]
  /\ job \in [Tasks -> Job] /\ memory \in [Tasks -> Seq(Memory)]
  /\ \A t \in Tasks :
       /\ Len(reports[t]) <= MaxReports
       /\ at[t] # "idle" => reports[t] # <<>>
       /\ job[t].status = "pending" => job[t].attempt = 0
  /\ faults \in 0 .. MaxFaults

\* However often a task is verified and whatever fails in between, it has at
\* most one memory, and it has one exactly when its job is completed.
JobAndMemoryAgree ==
  \A t \in Tasks :
    /\ Len(memory[t]) <= 1
    /\ memory[t] # <<>> <=> job[t].status = "completed"

\* Only a user makes a memory active that is not of a task that succeeded, by
\* the report it succeeded with.
ActiveIsOfSuccess ==
  \A t \in Tasks : \A i \in DOMAIN memory[t] :
    LET m == memory[t][i] IN
    m.status = "active" /\ ~m.edited =>
      state[t] = "SUCCEEDED" /\ m.report = Len(reports[t]) /\ reports[t][m.report] = "passed"

MemoriesAreOfSuccess == TypeOK /\ JobAndMemoryAgree /\ ActiveIsOfSuccess
=============================================================================
