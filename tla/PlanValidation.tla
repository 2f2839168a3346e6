----------------------------- MODULE PlanValidation -----------------------------
(***************************************************************************)
(* A plan from the model's answer to its last step: validate_dag of        *)
(* contracts/execution.py, validate_plan of harness/validation.py, and the *)
(* waves in which orchestrator/execution.py runs its steps.  Validation    *)
(* walks the steps in the order in which they are listed and over the      *)
(* files that were there when the operation began; the waves follow the    *)
(* dependencies, over the files that are there.                            *)
(***************************************************************************)
EXTENDS Integers, Sequences, FiniteSets, SequencesExt, FiniteSetsExt

CONSTANTS
  Steps,     \* steps a model may write: [id, needs, tool, path, risk, verified]
  Paths,     \* files of the workspace
  Allowed,   \* tools the task allows and does not deny
  Risk,      \* the risk of each registered tool
  MaxSteps,  \* max_execution_steps of the task's budget
  MaxLength, \* bound: steps the model writes
  MaxChanges \* bound: files that others create or remove meanwhile

StepsAssumption ==
  /\ \A s \in Steps : s.path \in Paths /\ s.verified \in BOOLEAN
  /\ {MaxSteps, MaxLength, MaxChanges} \subseteq Nat

VARIABLES
  plan,     \* steps in the order of the answer
  snapshot, \* workspace_files
  files,    \* what is there
  phase,    \* of the operation
  done,     \* completed steps of execute
  wave,     \* the rest of its list ready: places in the plan
  changes   \* changes of others

vars == <<plan, snapshot, files, phase, done, wave, changes>>

Ids == {s.id : s \in Range(plan)}
StepOf(id) == CHOOSE s \in Range(plan) : s.id = id
-----------------------------------------------------------------------------
Searches == [ok : BOOLEAN, visiting : SUBSET Ids, visited : SUBSET Ids]

\* A loop over nodes; the search is not ok once a call has raised.
VisitAll(visit, nodes, search) ==
  LET after[i \in 0 .. Len(nodes)] == IF i = 0 THEN search ELSE visit[nodes[i]][after[i - 1]]
  IN  after[Len(nodes)]

\* Mutant of Visit: nodes are never left.
VisitForEver(deeper) ==
  [node \in Ids |-> [search \in Searches |->
    IF ~search.ok \/ node \in search.visiting THEN [search EXCEPT !.ok = FALSE]
    ELSE IF node \in search.visited THEN search
    ELSE LET entered == [search EXCEPT !.visiting = @ \cup {node}]
             after == VisitAll(deeper, SetToSeq(StepOf(node).needs), entered)
         IN  [after EXCEPT !.visited = @ \cup {node}]]]

\* visit, which calls itself for the dependencies: deeper.
Visit(deeper) ==
  [node \in Ids |-> [search \in Searches |->
    IF ~search.ok \/ node \in search.visiting THEN [search EXCEPT !.ok = FALSE]
    ELSE IF node \in search.visited THEN search
    ELSE LET entered == [search EXCEPT !.visiting = @ \cup {node}]
             after == VisitAll(deeper, SetToSeq(StepOf(node).needs), entered)
         IN  [after EXCEPT !.visiting = @ \ {node}, !.visited = @ \cup {node}]]]

\* visit with so many calls in each other. All but the innermost visit nodes that
\* differ, so Len(plan) + 1 is enough and Visits[0] is never called.
Visits[nested \in 0 .. Len(plan) + 1] ==
  IF nested = 0 THEN [node \in Ids |-> [search \in Searches |-> [search EXCEPT !.ok = FALSE]]]
                ELSE Visit(Visits[nested - 1])

\* Mutant of IsDag: a cycle passes.
IsClosed == Cardinality(Ids) = Len(plan) /\ \A s \in Range(plan) : s.needs \subseteq Ids

IsDag ==
  /\ Cardinality(Ids) = Len(plan)
  /\ \A s \in Range(plan) : s.needs \subseteq Ids
  /\ VisitAll(Visits[Len(plan) + 1], [i \in DOMAIN plan |-> plan[i].id],
              [ok |-> TRUE, visiting |-> {}, visited |-> {}]).ok

\* The file a step is about is there, or is not, as its tool wants.
FileFits(step, available) ==
  /\ step.tool \in {"read", "modify"} => step.path \in available
  /\ step.tool = "create" => step.path \notin available

After(step, available) == IF step.tool = "create" THEN available \cup {step.path} ELSE available

\* available_files when the loop has seen so many steps.
Available[i \in 0 .. Len(plan)] == IF i = 0 THEN snapshot ELSE After(plan[i], Available[i - 1])

\* The rest of the loop: the tool is allowed and registered, its risk is not
\* misstated, and a high risk is verified.
ToolFits(step) ==
  /\ step.tool \in Allowed \cap DOMAIN Risk
  /\ step.risk = Risk[step.tool]
  /\ step.risk = "high" => step.verified

\* Mutant of IsValid: the files of all steps are there for each of them.
IsValidUnordered ==
  /\ Len(plan) <= MaxSteps
  /\ \A i \in DOMAIN plan :
       /\ ToolFits(plan[i])
       /\ plan[i].tool # "create" => FileFits(plan[i], Available[Len(plan)])

IsValid ==
  /\ Len(plan) <= MaxSteps
  /\ \A i \in DOMAIN plan :
       /\ ToolFits(plan[i])
       /\ FileFits(plan[i], Available[i - 1])
-----------------------------------------------------------------------------
Init ==
  /\ files \in SUBSET Paths /\ snapshot = files
  /\ plan = <<>> /\ phase = "planning"
  /\ done = {} /\ wave = {} /\ changes = 0

WriteStep(step) ==
  /\ phase = "planning" /\ Len(plan) < MaxLength
  /\ plan' = Append(plan, step)
  /\ UNCHANGED <<snapshot, files, phase, done, wave, changes>>

\* The answer is parsed, which repairs or refuses one that is malformed, and
\* validated.
Submit ==
  /\ phase = "planning" /\ plan # <<>>
  /\ phase' = IF ~IsDag THEN "malformed" ELSE IF ~IsValid THEN "rejected" ELSE "executing"
  /\ UNCHANGED <<plan, snapshot, files, done, wave, changes>>

\* A user, a chat or a child agent works in the same directory.
Meddle(path) ==
  /\ phase \in {"planning", "executing"} /\ changes < MaxChanges
  /\ files' = (files \ {path}) \cup ({path} \ files)
  /\ changes' = changes + 1
  /\ UNCHANGED <<plan, snapshot, phase, done, wave>>

Remaining == {i \in DOMAIN plan : plan[i].id \notin done}

NextWave ==
  /\ phase = "executing" /\ wave = {} /\ Remaining # {}
  /\ LET ready == {i \in Remaining : plan[i].needs \subseteq done} IN
     IF ready = {} THEN phase' = "stuck" /\ UNCHANGED wave
                   ELSE wave' = ready /\ UNCHANGED phase
  /\ UNCHANGED <<plan, snapshot, files, done, changes>>

\* The tools look at the files again.
RunStep ==
  /\ phase = "executing" /\ wave # {}
  /\ LET step == plan[Min(wave)] IN
     IF FileFits(step, files)
       THEN /\ files' = After(step, files)
            /\ done' = done \cup {step.id} /\ wave' = wave \ {Min(wave)} /\ UNCHANGED phase
       ELSE phase' = "failed" /\ UNCHANGED <<files, done, wave>>
  /\ UNCHANGED <<plan, snapshot, changes>>

\* A check that fails ends the waves; the evidence is verified.
CheckFails ==
  /\ phase = "executing" /\ wave # {} /\ plan[Min(wave)].tool = "check"
  /\ phase' = "verifying"
  /\ UNCHANGED <<plan, snapshot, files, done, wave, changes>>

Verify ==
  /\ phase = "executing" /\ wave = {} /\ Remaining = {}
  /\ phase' = "verifying"
  /\ UNCHANGED <<plan, snapshot, files, done, wave, changes>>

Next ==
  \/ \E step \in Steps : WriteStep(step)
  \/ \E path \in Paths : Meddle(path)
  \/ Submit \/ NextWave \/ RunStep \/ CheckFails \/ Verify

Spec == Init /\ [][Next]_vars
-----------------------------------------------------------------------------
TypeOK ==
  /\ plan \in Seq(Steps) /\ Len(plan) <= MaxLength
  /\ snapshot \subseteq Paths /\ files \subseteq Paths
  /\ phase \in {"planning", "malformed", "rejected", "executing", "stuck", "failed", "verifying"}
  /\ done \subseteq Ids /\ wave \subseteq Remaining /\ changes \in 0 .. MaxChanges

\* validate_dag accepts what can be numbered so that every dependency has a
\* smaller number, and refuses nothing else.
DagIsExact ==
  phase = "planning" =>
    (IsDag <=> /\ Cardinality(Ids) = Len(plan)
               /\ \E rank \in [Ids -> 1 .. Len(plan)] :
                    \A s \in Range(plan) : \A d \in s.needs : d \in Ids /\ rank[d] < rank[s.id])

\* The error "execution plan has no runnable step" is never raised.
NeverStuck == phase # "stuck"

\* What a step needs in order to begin, and they in their turn.
Ancestors(step) ==
  {d \in Ids :
     \A closed \in SUBSET Ids :
       /\ step.needs \subseteq closed
       /\ \A s \in Range(plan) : s.id \in closed => s.needs \subseteq closed
       => d \in closed}

\* When nobody else touches the files, a step of an accepted plan fails for its
\* file only if the plan lists the creation of it earlier and does not make
\* the step depend on that.
FailsOnlyForOrder ==
  phase = "failed" /\ changes = 0 =>
    \E i, j \in DOMAIN plan :
      /\ i < j /\ j = Min(wave)
      /\ plan[i].tool = "create" /\ plan[i].path = plan[j].path
      /\ plan[i].id \notin Ancestors(plan[j])
=============================================================================
