------------------------------- MODULE MCStreams -------------------------------
(***************************************************************************)
(* Instances of ConversationStore, ConversationStream and TaskStream for   *)
(* TLC. The three share no state: a behaviour is one of one component,     *)
(* while the others rest in their initial state, so TLC visits the sum of  *)
(* their states.                                                           *)
(*                                                                         *)
(* The conversation is a question, the two drafts of one answer and the    *)
(* answer, in pages of two messages.                                       *)
(***************************************************************************)
EXTENDS Streams, TLC

CONSTANTS question, draft1, draft2, answer

VARIABLE part   \* the component that runs

storeVars == <<file, cached, cache, flush, snapshot, process, acked, crashes, failures>>
viewVars == <<log, saved, phase, shown, fetch, viewRefresh, connected, after, lastId,
              viewCursor, served, viewWire, stale, viewDrops, loads, refreshes, cuts>>
taskVars == <<timeline, ended, posted, load, reads, source, from, generator,
              cursor, wire, activeTask, events, messages, refresh, drops>>
vars == <<part, storeVars, viewVars, taskVars>>

Answers == draft1 :> answer @@ draft2 :> answer

ASSUME Store!BoundsAssumption /\ View!BoundsAssumption /\ Task!BoundsAssumption

Init ==
  /\ part \in {"store", "view", "task"}
  /\ Store!Init /\ View!Init /\ Task!Init

Next ==
  \/ part = "store" /\ Store!Next /\ UNCHANGED <<part, viewVars, taskVars>>
  \/ part = "view" /\ View!Next /\ UNCHANGED <<part, storeVars, taskVars>>
  \/ part = "task" /\ Task!Next /\ UNCHANGED <<part, storeVars, viewVars>>

Spec == Init /\ [][Next]_vars
=============================================================================
