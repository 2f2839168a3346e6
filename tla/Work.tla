------------------------------------ MODULE Work ------------------------------
(***************************************************************************)
(* What agents may use and what they leave behind: HardMemory,             *)
(* MemoryConsolidation, ToolAccess, WorkspaceFiles and PlanValidation side *)
(* by side, and what is to hold of them. MCWork gives the constants        *)
(* values, WorkProofs leaves them open.                                    *)
(***************************************************************************)
EXTENDS Integers, Sequences, FiniteSets

CONSTANTS
  Requests, Keys, Values, Nobody,                            \* HardMemory
  Tasks, MaxReports, MaxFaults,                              \* MemoryConsolidation
  Paths, Ignored, Calls, Sizes,                              \* WorkspaceFiles
  MaxFiles, MaxFile, MaxTotal, MaxRead,
  Steps, PlanPaths, Allowed, PlanRisk,                       \* PlanValidation
  MaxSteps, MaxLength, MaxChanges

VARIABLES
  profile, rows, want, at, holder, seen, counted, reply,     \* HardMemory
  state, reports, consolidating, auto, job, memory, faults,  \* MemoryConsolidation
  enabled, registry, run, offered, last,                     \* ToolAccess
  files, calls, met, peak,                                   \* WorkspaceFiles
  plan, snapshot, there, phase, done, wave, changes          \* PlanValidation

Hard == INSTANCE HardMemory

Jobs == INSTANCE MemoryConsolidation WITH at <- consolidating

Access == INSTANCE ToolAccess

Files == INSTANCE WorkspaceFiles

Plans == INSTANCE PlanValidation WITH Paths <- PlanPaths, Risk <- PlanRisk, files <- there
-----------------------------------------------------------------------------
\* For every setting, registry and manifest a skill only narrows, only workers
\* that are children write files, and children start no children.
AccessNarrows == Access!AccessNarrows

\* However upserts and deletes of one key meet, it has at most one active value,
\* the last one written, and the revision of the profile counts the changes.
OneActiveValue == Hard!TypeOK /\ Hard!OneActiveValue /\ Hard!ChangesAreCounted

\* What was deleted or replaced is never active again.
GoneStaysGone == Hard!GoneStaysGone

\* Calls of the file tools that overlap anywhere create only new files, exceed
\* the limits by their peers only, report true differences and whole texts.
FilesKept ==
  /\ Files!TypeOK
  /\ Files!CreatesOnlyNew /\ Files!LimitsGiveWayToPeersOnly
  /\ Files!DifferenceIsTrue /\ Files!TextsAreWhole

\* validate_dag accepts what has an order and nothing else, the waves of what it
\* accepts never get stuck, and a step of an accepted plan fails for its file
\* only when others touched the files or a dependency is missing.
PlansRun ==
  /\ Plans!TypeOK
  /\ Plans!DagIsExact /\ Plans!NeverStuck /\ Plans!FailsOnlyForOrder

\* A task has at most one memory, and one exactly when its job is completed; it
\* is active unasked only when the task succeeded by the report it is of.
MemoriesAreOfSuccess == Jobs!MemoriesAreOfSuccess
=============================================================================
