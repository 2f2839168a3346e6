-------------------------- MODULE ConversationStore --------------------------
(***************************************************************************)
(* services/conversation.py: JsonConversationStore for one conversation,   *)
(* in a process that crashes, is shut down and is started again.           *)
(*                                                                         *)
(* The lock of the conversation is held across an await only by the flush  *)
(* task (the first read of the file is folded into the step that needs     *)
(* it: no other holder of the lock can see it half done). The temporary    *)
(* file and its replace are one atomic change of file.                     *)
(***************************************************************************)
EXTENDS Integers, Sequences, SequencesExt, FiniteSetsExt

CONSTANTS
  Sources,     \* source ids the program appends, each possibly again
  MaxCrashes,  \* bound: crashes of the process
  MaxFailures  \* bound: writes that fail

BoundsAssumption == MaxCrashes \in Nat /\ MaxFailures \in Nat

VARIABLES
  file,      \* the messages in the JSON file
  cached,    \* the conversation is in _cache
  cache,     \* _cache, <<>> while it is not
  flush,     \* _flush_tasks: "none", "scheduled", "writing", "failed"
  snapshot,  \* the list the flush task is writing, <<>> when it is not
  process,   \* "up", "closing" (lifespan shutdown), "down"
  acked,     \* sources whose append has returned to its caller
  crashes, failures

vars == <<file, cached, cache, flush, snapshot, process, acked, crashes, failures>>
-----------------------------------------------------------------------------
\* _messages: the cache, filled from the file on first use.
Known == IF cached THEN cache ELSE file

SourcesOf(messages) == {m.source : m \in ToSet(messages)}

NextId(messages) == Max({m.id : m \in ToSet(messages)} \cup {0}) + 1

Init ==
  /\ file = <<>> /\ cached = FALSE /\ cache = <<>>
  /\ flush = "none" /\ snapshot = <<>>
  /\ process = "up" /\ acked = {}
  /\ crashes = 0 /\ failures = 0

\* _lock: the flush task keeps it while its thread writes.
LockIsFree == flush # "writing"

\* _schedule_flush: a task that is not done is left to do it.
Schedule == flush' = IF flush \in {"none", "failed"} THEN "scheduled" ELSE flush
-----------------------------------------------------------------------------
\* Mutant of AppendNew: the source is not looked up.
AppendAnyway(s) ==
  /\ process = "up" /\ LockIsFree
  /\ Len(Known) < Cardinality(Sources)
  /\ cached' = TRUE
  /\ cache' = Append(Known, [id |-> NextId(Known), source |-> s])
  /\ acked' = acked \cup {s}
  /\ Schedule
  /\ UNCHANGED <<file, snapshot, process, crashes, failures>>

\* Mutant of AppendNew: the file is left to the next append.
AppendUnflushed(s) ==
  /\ process = "up" /\ LockIsFree
  /\ s \notin SourcesOf(Known)
  /\ cached' = TRUE
  /\ cache' = Append(Known, [id |-> NextId(Known), source |-> s])
  /\ acked' = acked \cup {s}
  /\ UNCHANGED <<file, flush, snapshot, process, crashes, failures>>

AppendNew(s) ==
  /\ process = "up" /\ LockIsFree
  /\ s \notin SourcesOf(Known)
  /\ cached' = TRUE
  /\ cache' = Append(Known, [id |-> NextId(Known), source |-> s])
  /\ acked' = acked \cup {s}
  /\ Schedule
  /\ UNCHANGED <<file, snapshot, process, crashes, failures>>

\* append of a source the store knows: its id is returned, nothing changes.
AppendKnown(s) ==
  /\ process = "up" /\ LockIsFree
  /\ s \in SourcesOf(Known)
  /\ cached' = TRUE /\ cache' = Known
  /\ acked' = acked \cup {s}
  /\ UNCHANGED <<file, flush, snapshot, process, crashes, failures>>

\* list_messages and everything that reads through it.
List ==
  /\ process = "up" /\ LockIsFree
  /\ cached' = TRUE /\ cache' = Known
  /\ UNCHANGED <<file, flush, snapshot, process, acked, crashes, failures>>
-----------------------------------------------------------------------------
FlushTakesSnapshot ==
  /\ process # "down" /\ flush = "scheduled"
  /\ flush' = "writing" /\ snapshot' = Known
  /\ cached' = TRUE /\ cache' = Known
  /\ UNCHANGED <<file, process, acked, crashes, failures>>

\* The thread has replaced the file; the task ends when nothing was appended
\* meanwhile and takes another snapshot otherwise.
FlushWrites ==
  /\ process # "down" /\ flush = "writing"
  /\ file' = snapshot /\ snapshot' = <<>>
  /\ flush' = IF snapshot = cache THEN "none" ELSE "scheduled"
  /\ UNCHANGED <<cached, cache, process, acked, crashes, failures>>

\* The exception ends the task, which stays in _flush_tasks.
FlushFails ==
  /\ process # "down" /\ flush = "writing" /\ failures < MaxFailures
  /\ flush' = "failed" /\ snapshot' = <<>>
  /\ failures' = failures + 1
  /\ UNCHANGED <<file, cached, cache, process, acked, crashes>>
-----------------------------------------------------------------------------
\* lifespan: the managers that append have been closed, store.flush begins.
Close ==
  /\ process = "up"
  /\ process' = "closing"
  /\ UNCHANGED <<file, cached, cache, flush, snapshot, acked, crashes, failures>>

\* Mutant of Exit: the flush tasks are not gathered.
ExitAtOnce ==
  /\ process = "closing"
  /\ process' = "down"
  /\ cached' = FALSE /\ cache' = <<>> /\ flush' = "none" /\ snapshot' = <<>>
  /\ UNCHANGED <<file, acked, crashes, failures>>

\* flush gathered the tasks it found, whatever they ended with.
Exit ==
  /\ process = "closing" /\ flush \in {"none", "failed"}
  /\ process' = "down"
  /\ cached' = FALSE /\ cache' = <<>> /\ flush' = "none" /\ snapshot' = <<>>
  /\ UNCHANGED <<file, acked, crashes, failures>>

\* Mutant of Crash: the file is written in place, a crash leaves half of it.
CrashTears ==
  /\ process # "down" /\ crashes < MaxCrashes
  /\ process' = "down" /\ crashes' = crashes + 1
  /\ file' = IF flush = "writing" THEN SubSeq(snapshot, 2, Len(snapshot)) ELSE file
  /\ cached' = FALSE /\ cache' = <<>> /\ flush' = "none" /\ snapshot' = <<>>
  /\ UNCHANGED <<acked, failures>>

Crash ==
  /\ process # "down" /\ crashes < MaxCrashes
  /\ process' = "down" /\ crashes' = crashes + 1
  /\ cached' = FALSE /\ cache' = <<>> /\ flush' = "none" /\ snapshot' = <<>>
  /\ UNCHANGED <<file, acked, failures>>

Start ==
  /\ process = "down"
  /\ process' = "up"
  /\ UNCHANGED <<file, cached, cache, flush, snapshot, acked, crashes, failures>>

Next ==
  \/ \E s \in Sources : AppendNew(s) \/ AppendKnown(s)
  \/ List \/ FlushTakesSnapshot \/ FlushWrites \/ FlushFails
  \/ Close \/ Exit \/ Crash \/ Start

\* A task that the event loop can run is run; the thread of a write returns.
Fairness == WF_vars(FlushTakesSnapshot) /\ WF_vars(FlushWrites \/ FlushFails)

Spec == Init /\ [][Next]_vars /\ Fairness
-----------------------------------------------------------------------------
TypeOK ==
  /\ file \in Seq([id : Nat, source : Sources]) /\ cache \in Seq([id : Nat, source : Sources])
  /\ snapshot \in Seq([id : Nat, source : Sources])
  /\ cached \in BOOLEAN /\ (~cached => cache = <<>>)
  /\ flush \in {"none", "scheduled", "writing", "failed"}
  /\ process \in {"up", "closing", "down"}
  /\ acked \subseteq Sources
  /\ crashes \in 0 .. MaxCrashes /\ failures \in 0 .. MaxFailures

\* Whatever crashed, failed or was retried, the ids of a transcript are
\* 1, 2, 3, ... and no source occurs twice in it.
Transcript(messages) ==
  /\ \A i \in DOMAIN messages : messages[i].id = i
  /\ \A i, j \in DOMAIN messages : messages[i].source = messages[j].source => i = j

\* While the cache is ahead of the file a flush is on its way, or one has
\* failed: no append is left that nothing will write.
BehindIsOwned == cached /\ file # cache => flush \in {"scheduled", "writing", "failed"}

\* An acknowledged message is lost by a crash or by a write that failed,
\* never by a shutdown.
LossNeedsFault ==
  crashes = 0 /\ failures = 0 => acked \subseteq SourcesOf(Known)

\* Whatever crashed, failed or was retried, transcripts have the ids 1, 2, ...
\* and no source twice, a flush is on its way while the file is behind, and an
\* acknowledged message is lost by a crash or a failed write only.
TranscriptsSound ==
  TypeOK /\ Transcript(file) /\ Transcript(cache) /\ BehindIsOwned /\ LossNeedsFault

\* Appended messages reach the file while the process runs, unless a write
\* fails.
CatchesUp ==
  (cached /\ file # cache) ~> (file = cache \/ flush = "failed" \/ process = "down")

\* The store implements the transcript readers rely on: it grows at its end
\* and is cut back only to what was in the file.
Log == INSTANCE ConversationLog WITH log <- Known, saved <- Len(file)
ImplementsLog == Log!LogSpec
=============================================================================
