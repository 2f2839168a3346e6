--------------------------- MODULE ConversationLog ---------------------------
(***************************************************************************)
(* What a conversation transcript promises its readers: a log that only    *)
(* grows while the process lives and that a crash cuts back to a prefix    *)
(* that had been saved. A message is its id and its source_id; the id is   *)
(* its place in the log, a source occurs once.                             *)
(***************************************************************************)
EXTENDS Integers, Sequences, SequencesExt

CONSTANT Sources   \* source ids of the messages that are ever appended

VARIABLES
  log,    \* the messages a reader can get
  saved   \* length of the prefix of log that survives a crash

LogInit == log = <<>> /\ saved = 0

SourcesOf(messages) == {m.source : m \in ToSet(messages)}

Appended(source) ==
  /\ source \notin SourcesOf(log)
  /\ log' = Append(log, [id |-> Len(log) + 1, source |-> source])
  /\ UNCHANGED saved

Saved ==
  /\ saved' \in saved + 1 .. Len(log)
  /\ UNCHANGED log

CutBack ==
  /\ log' = SubSeq(log, 1, saved)
  /\ UNCHANGED saved

LogNext == (\E s \in Sources : Appended(s)) \/ Saved \/ CutBack

LogSpec == LogInit /\ [][LogNext]_<<log, saved>>
=============================================================================
