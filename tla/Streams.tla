---------------------------------- MODULE Streams -----------------------------
(***************************************************************************)
(* Transcripts and what follows them: ConversationStore,                   *)
(* ConversationStream and TaskStream side by side, and what is to hold of  *)
(* them. ConversationStream reads the log that ConversationStore is shown  *)
(* to implement, so the three need not share state. MCStreams gives the    *)
(* constants values, StreamProofs leaves them open.                        *)
(***************************************************************************)
EXTENDS Integers, Sequences

CONSTANTS
  Sources, MaxCrashes, MaxFailures,   \* ConversationStore
  Posts, AnswerOf, GetLimit, PollLimit, MaxLoads, MaxRefreshes, MaxCuts, \* ConversationStream
  MaxEvents, MaxMessages, MaxDrops    \* TaskStream and, the last, ConversationStream

VARIABLES
  file, cached, cache, flush, snapshot, process, acked, crashes, failures, \* ConversationStore
  log, saved, phase, shown, fetch, viewRefresh, connected, after, lastId,  \* ConversationStream
  viewCursor, served, viewWire, stale, viewDrops, loads, refreshes, cuts,
  timeline, ended, posted, load, reads, source, from, generator, cursor,   \* TaskStream
  wire, activeTask, events, messages, refresh, drops

Store == INSTANCE ConversationStore

View == INSTANCE ConversationStream WITH
  Sources <- Posts, MaxCrashes <- MaxCuts, crashes <- cuts,
  cursor <- viewCursor, wire <- viewWire, refresh <- viewRefresh, drops <- viewDrops

Task == INSTANCE TaskStream
-----------------------------------------------------------------------------
\* Whatever crashed, failed or was retried, transcripts have the ids 1, 2, ...
\* and no source twice, a flush is on its way while the file is behind, and an
\* acknowledged message is lost by a crash or a failed write only.
TranscriptsSound == Store!TranscriptsSound

\* The store implements the transcript that readers rely on.
ImplementsLog == Store!ImplementsLog

\* Until a refresh overwrites what the stream brought, a view leaves out nothing
\* below its cursor and shows one draft of an answer; the server always goes on
\* where the browser is.
ViewsAreWhole ==
  /\ View!TypeOK
  /\ refreshes = 0 => View!NothingSkipped /\ View!OneDraft
  /\ View!CursorsMeet

\* A task's stream is complete only after its last event, the timeline shown has
\* no hole, and a task shown as ended stays so.
TasksAreFollowed == Task!TasksAreFollowed
=============================================================================
