------------------------------- MODULE ToolAccess -------------------------------
(***************************************************************************)
(* Which tools a run of an agent is offered and may call: the tool sets of *)
(* agents/definitions.py, skills/registry.py, tools/agent_binding.py with  *)
(* tools/registry.py, and the checks of tools/runtime.py, for every        *)
(* setting, manifest and registry; and where a child works, in a workspace *)
(* that is a Git repository.                                               *)
(***************************************************************************)
EXTENDS Integers, Sequences, FiniteSets

\* The tools by risk; the file tools stand for those of tools/factory.py.
ReadTools      == {"read_workspace_file", "run_allowlisted_check"}
WorkspaceTools == ReadTools \cup {"create_workspace_file", "modify_workspace_file"}
DocsTools      == {"query-docs"}
InboxTools     == {"contact_supervisor", "subagent_supervisor"}
Tools          == WorkspaceTools \cup DocsTools \cup InboxTools \cup {"subagent"}
Risk == [t \in Tools |-> IF t = "modify_workspace_file" THEN 2 ELSE IF t = "create_workspace_file" THEN 1 ELSE 0]

Agents   == {"supervisor", "scout", "researcher", "worker", "reviewer", "oracle", "delegate"}
Executes == {"worker"}
NoSkill  == [agents |-> Agents, allowed |-> {}, denied |-> {}, required |-> {}]

VARIABLES
  enabled,  \* the setting mention_execution_tools
  registry, \* tools that are registered
  run,      \* the agent's run: what it is, under which skill, and where
  offered,  \* tools of its binding
  last      \* its last tool call

vars == <<enabled, registry, run, offered, last>>
-----------------------------------------------------------------------------
\* definition() of build_agent_registry.
AllowedOf(agent) ==
  InboxTools \cup
  CASE agent = "supervisor" -> enabled \cup DocsTools \cup {"subagent"}
    [] agent = "scout"      -> ReadTools \cap enabled
    [] agent = "worker"     -> enabled \cup DocsTools
    [] OTHER                -> DocsTools \cup (ReadTools \cap enabled)

\* validate_tool_policy accepts the manifest.
WellFormed(skill) == skill.allowed \cap skill.denied = {} /\ skill.required \subseteq skill.allowed

\* Mutant of EffectiveTools: what the manifest allows, the agent has.
EffectiveOfSkill(skill, agent) == (AllowedOf(agent) \cup skill.allowed) \ skill.denied

EffectiveTools(skill, agent) == (AllowedOf(agent) \cap skill.allowed) \ skill.denied

\* Mutant of ModelTools: a risk one above the limit passes.
ModelToolsAbove(allowed, limit) == {t \in allowed \cap registry : Risk[t] <= limit + 1}

ModelTools(allowed, limit) == {t \in allowed \cap registry : Risk[t] <= limit}

\* bind_agent_tools: an empty set is taken for none, and then the agent has
\* all its tools.
Bound(agent, allowed, limit) == ModelTools(IF allowed = {} THEN AllowedOf(agent) ELSE allowed, limit)

\* Mutant of ChildTools: a child keeps all the tools of its agent.
ChildToolsAll(agent) == AllowedOf(agent)

\* run_subagent leaves a child its own reports only.
ChildTools(agent) == AllowedOf(agent) \ {"subagent", "subagent_supervisor"}
-----------------------------------------------------------------------------
\* Discovery of MCP tools may have failed.
Init ==
  /\ enabled \in SUBSET WorkspaceTools
  /\ registry \in {Tools, Tools \ DocsTools}
  /\ run = [kind |-> "none", agent |-> "supervisor", skill |-> NoSkill, place |-> "project"]
  /\ offered = {} /\ last = [tool |-> "none", outcome |-> "none"]

Starts(kind, agent, skill, allowed, limit, place) ==
  /\ run.kind = "none"
  /\ run' = [kind |-> kind, agent |-> agent, skill |-> skill, place |-> place]
  /\ offered' = Bound(agent, allowed, limit)
  /\ UNCHANGED <<enabled, registry, last>>

\* A chat, or a phase of a task.
StartPlain(agent) == Starts("plain", agent, NoSkill, {}, 0, "project")

\* resolve refuses an agent that the skill does not allow, and an agent that
\* lacks what the skill requires.
StartSkilled(agent, skill) ==
  /\ WellFormed(skill) /\ agent \in skill.agents
  /\ skill.required \subseteq EffectiveTools(skill, agent)
  /\ Starts("skilled", agent, skill, EffectiveTools(skill, agent), 0, "project")

\* The run of a chat sets both context variables, the run of a task neither.
ContextOf(parent) == [workspace |-> parent = "chat", chat |-> parent = "chat"]

\* prepare_worktree is called where the workspace is known and no chat is.
PlaceOfChild(parent) ==
  IF ContextOf(parent).workspace /\ ~ContextOf(parent).chat THEN "worktree" ELSE "project"

StartChild(agent, parent) ==
  Starts(IF parent = "chat" THEN "chat child" ELSE "task child", agent, NoSkill, ChildTools(agent), IF agent \in Executes THEN 2 ELSE 0, PlaceOfChild(parent))

Child == {"chat child", "task child"}

\* invoke, of any name that the model writes.
Call(tool) ==
  /\ run.kind # "none" /\ offered # {}
  /\ last' = [tool |-> tool, outcome |-> IF tool \notin registry THEN "unknown"
                                         ELSE IF tool \notin offered THEN "not_allowed" ELSE "ran"]
  /\ UNCHANGED <<enabled, registry, run, offered>>

Manifests ==
  [agents : {{"worker", "reviewer", "delegate"}}, allowed : SUBSET WorkspaceTools,
   denied : SUBSET {"run_allowlisted_check"}, required : SUBSET {"read_workspace_file", "create_workspace_file"}]

Next ==
  \/ \E agent \in Agents : StartPlain(agent) \/ (\E parent \in {"chat", "task"} : StartChild(agent, parent))
  \/ \E agent \in Agents, skill \in Manifests : StartSkilled(agent, skill)
  \/ \E tool \in Tools \cup {"made-up"} : Call(tool)

Spec == Init /\ [][Next]_vars
-----------------------------------------------------------------------------
Ran == last.outcome = "ran"

TypeOK ==
  /\ enabled \subseteq WorkspaceTools /\ registry \subseteq Tools
  /\ run \in [kind : {"none", "plain", "skilled"} \cup Child, agent : Agents,
              skill : Manifests \cup {NoSkill}, place : {"project", "worktree"}]
  /\ offered \subseteq registry
  /\ Ran => last.tool \in offered

\* A run under a skill has no tool that its agent lacks, and none that the
\* manifest does not allow or denies, unless the two have no tool in common.
SkillNarrows ==
  run.kind = "skilled" /\ Ran =>
    /\ last.tool \in AllowedOf(run.agent)
    /\ (\E t \in run.skill.allowed : t \in AllowedOf(run.agent) \ run.skill.denied) =>
         last.tool \in run.skill.allowed \ run.skill.denied

\* Of all runs of agents only those of workers that are children write files.
OnlyWorkersWrite ==
  Ran /\ Risk[last.tool] > 0 => run.kind \in Child /\ run.agent = "worker"

\* "A child can report to its parent, but cannot create a second orchestration
\* tree": for no setting does a child start or steer runs.
ChildrenDoNotFanOut ==
  run.kind \in Child /\ Ran => last.tool \notin {"subagent", "subagent_supervisor"}

\* For every setting, registry and manifest a skill only narrows, only workers
\* that are children write files, and children start no children.
AccessNarrows == TypeOK /\ SkillNarrows /\ OnlyWorkersWrite /\ ChildrenDoNotFanOut

\* "A detached worktree is reserved for the durable task path": the children of
\* a task work in one.
TaskChildrenAreDetached == run.kind = "task child" => run.place = "worktree"
=============================================================================
