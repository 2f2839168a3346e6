----------------------------------- MODULE Agents -----------------------------
(***************************************************************************)
(* Child agents and the agent loop: SubagentProperties and                 *)
(* AgentLoopProperties side by side, and what is to hold of them. MCAgents *)
(* gives the constants values, AgentProofs leaves them open.               *)
(***************************************************************************)
EXTENDS Integers, Sequences, FiniteSets

CONSTANTS
  Runs, Calls, Limits, MaxContacts, MaxMail,      \* SubagentRuns
  Callers, MaxWorks, MaxMessages, MaxQueued       \* AgentLoop

VARIABLES
  chat, run, inbox, call, process, listed,        \* SubagentRuns
  messages, steering, followups, abort, idle, works, task, caller  \* AgentLoop

Children == INSTANCE SubagentProperties

Loop == INSTANCE AgentLoopProperties
-----------------------------------------------------------------------------
\* What the records, the inbox, the slots and the chat say of a child agrees
\* with its operation, wherever a stop, a cancellation or an error met it.
ChildrenAccounted == Children!ChildrenAccounted

\* A stopped child never reads completed later, and what has ended changes only
\* by a stop.
ChildrenSettle == Children!ChildrenSettle

\* No accepted prompt goes unanswered, no call goes without its results, a busy
\* loop has somebody to set it idle, and prompt keeps to one task.
PromptsAnswered == Loop!PromptsAnswered

\* The model is asked with all the steering there is, and not after an abort.
TurnsObey == Loop!TurnsObey
=============================================================================
