----------------------------------- MODULE Chats ------------------------------
(***************************************************************************)
(* The chats of one conversation, ConversationTurns, the drafts of their   *)
(* answers, ChatDrafts, the history their agents are given,                *)
(* ConversationHistory, and what is to hold of them. MCChats gives the     *)
(* constants values, ChatProofs leaves them open.                          *)
(***************************************************************************)
EXTENDS Integers, FiniteSets

CONSTANTS
  Turns, NeedsWorker, Executes, MaxAttempts, MaxCrashes, MaxCloses, MaxFaults,
  Tokens, HexValue, Escapes, MaxRaw, MaxRestarts,                    \* ChatDrafts
  Lengths, Window, MaxMessages, MaxText, MaxTotal, MaxLog            \* ConversationHistory

VARIABLES
  turn, handler, op, attempt, tools, messages, process,
  runs, effects, broken, crashes, closes, faults,
  raw, pending, current, said, phase, published, due, restarts,      \* ChatDrafts
  log, begun                                                         \* ConversationHistory

Chat == INSTANCE ConversationTurns

Drafts == INSTANCE ChatDrafts

History == INSTANCE ConversationHistory
-----------------------------------------------------------------------------
\* A turn is worked on once however often it is asked for, ends with one
\* outcome that its messages tell, completes only on its own worker's work, and
\* is left running only by a crash, a cancellation or a commit that failed. Its
\* agent, which may request execution, is not run again after it called tools.
TurnsAreTold == Chat!TurnsAreTold

\* The drafts of an answer only grow, also when its response starts again; those
\* of a response that did not break off say what it said, and in the end all.
DraftsAreSaid == []Drafts!TypeOK /\ []Drafts!DraftIsSaid /\ Drafts!DraftsGrow

\* The history an agent is given is an unbroken end of what was said before its
\* turn, cut only where a limit is reached.
HistoryIsWhole ==
  /\ History!TypeOK
  /\ History!HistoryFits /\ History!HistoryHasNoHoles /\ History!HistoryIsFull
=============================================================================
