-------------------------------- MODULE MCWork --------------------------------
(***************************************************************************)
(* Instances of the components of Work for TLC: the plans, files, tools    *)
(* and memories that agents work with. They share no state: a behaviour is *)
(* one of one component, while the others rest in an initial state, so TLC *)
(* visits the sum of their states. The plans are of two kinds, every graph *)
(* and the uses of the tools, and no plan mixes them.                      *)
(***************************************************************************)
EXTENDS Work, TLC

VARIABLES
  part  \* the component that runs

planVars == <<plan, snapshot, there, phase, done, wave, changes>>
fileVars == <<files, calls, met, peak>>
toolVars == <<enabled, registry, run, offered, last>>
hardVars == <<profile, rows, want, at, holder, seen, counted, reply>>
jobVars == <<state, reports, consolidating, auto, job, memory, faults>>
vars == <<part, planVars, fileVars, toolVars, hardVars, jobVars>>
-----------------------------------------------------------------------------
Names == {"a", "b", "c"}
Risks == [read |-> "low", create |-> "medium", modify |-> "high", check |-> "low", shell |-> "high"]

Step(id, needs, tool) ==
  [id |-> id, needs |-> needs, tool |-> tool, path |-> "f", risk |-> Risks[tool], verified |-> TRUE]

\* Every graph of three names and one that is none.
GraphSteps == {Step(id, needs, "check") : id \in Names, needs \in SUBSET (Names \cup {"nobody"})}

\* The file tools, and steps that are wrong in other ways.
UseSteps ==
  {Step(id, needs, tool) : id \in Names, needs \in {{}, {"a"}, {"b"}},
                           tool \in {"read", "create", "modify"}}
  \cup {Step("a", {}, "shell"), [Step("a", {}, "read") EXCEPT !.risk = "high"],
        [Step("a", {}, "read") EXCEPT !.tool = "ghost"],
        [Step("a", {}, "modify") EXCEPT !.verified = FALSE]}

SomeSteps == GraphSteps \cup UseSteps

\* The steps of a graph are checks, which no change of the file concerns.
GraphNext == Plans!Next /\ Plans!Range(plan') \subseteq GraphSteps /\ changes' = 0

UseNext == Plans!Next /\ Plans!Range(plan') \subseteq UseSteps

ASSUME
  /\ Plans!StepsAssumption /\ Files!NumbersAssumption
  /\ Hard!RequestsAssumption /\ Jobs!BoundsAssumption
-----------------------------------------------------------------------------
Init ==
  /\ part \in {"graphs", "uses", "files", "access", "hard", "jobs"}
  /\ Plans!Init /\ Files!Init /\ Access!Init /\ Hard!Init /\ Jobs!Init
  /\ part # "uses" => there = {}
  /\ part # "files" => DOMAIN files = {}
  /\ part # "access" => enabled = {} /\ registry = Access!Tools
  /\ part # "hard" => want = [r \in Requests |-> [op |-> "list"]]

Next ==
  \/ /\ \/ part = "graphs" /\ GraphNext
        \/ part = "uses" /\ UseNext
     /\ UNCHANGED <<part, fileVars, toolVars, hardVars, jobVars>>
  \/ part = "files" /\ Files!Next /\ UNCHANGED <<part, planVars, toolVars, hardVars, jobVars>>
  \/ part = "access" /\ Access!Next /\ UNCHANGED <<part, planVars, fileVars, hardVars, jobVars>>
  \/ part = "hard" /\ Hard!Next /\ UNCHANGED <<part, planVars, fileVars, toolVars, jobVars>>
  \/ part = "jobs" /\ Jobs!Next /\ UNCHANGED <<part, planVars, fileVars, toolVars, hardVars>>

Spec == Init /\ [][Next]_vars
-----------------------------------------------------------------------------
\* No request writes a revision a second time: the unique key of the table
\* never has to refuse an upsert.
RevisionsAreNew == Hard!RevisionsAreNew

\* "A detached worktree is reserved for the durable task path": the children of
\* a task work in one.
TaskChildrenAreDetached == Access!TaskChildrenAreDetached
=============================================================================
