------------------------------- MODULE MCAgents -------------------------------
(***************************************************************************)
(* Instances of SubagentRuns and AgentLoop for TLC. The two share no       *)
(* state: a behaviour is one of one component, while the others rest in an *)
(* initial state, so TLC visits the sum of their states.                   *)
(***************************************************************************)
EXTENDS Agents, TLC

VARIABLE part   \* the component that runs

childVars == <<chat, run, inbox, call, process, listed>>
loopVars == <<messages, steering, followups, abort, idle, works, task, caller>>
vars == <<part, childVars, loopVars>>

ASSUME Children!BoundsAssumption /\ Loop!BoundsAssumption

Init ==
  /\ part \in {"children", "loop"}
  /\ Children!Init /\ Loop!Init

Next ==
  \/ part = "children" /\ Children!Next /\ UNCHANGED <<part, loopVars>>
  \/ part = "loop" /\ Loop!Next /\ UNCHANGED <<part, childVars>>

Spec == Init /\ [][Next]_vars

Symmetry == Permutations(Runs) \cup Permutations(Callers)
=============================================================================
