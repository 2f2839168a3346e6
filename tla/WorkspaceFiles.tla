----------------------------- MODULE WorkspaceFiles -----------------------------
(***************************************************************************)
(* The file tools of tools/file_tools.py on one workspace                  *)
(* (workspace/paths.py).  Several agents work in it at once.  A tool looks *)
(* at the limits on the event loop and then reads or writes in a thread,   *)
(* so that other tools come in between; a thread that has started goes on  *)
(* when its caller is cancelled.                                           *)
(***************************************************************************)
EXTENDS Integers, FiniteSets, FiniteSetsExt, Functions

CONSTANTS
  Paths,     \* files that may be there
  Ignored,   \* those in directories that iter_workspace_files leaves out
  Calls,     \* bound: calls of the file tools, numbers from one
  Sizes,     \* sizes a text may have
  MaxFiles, MaxFile, MaxTotal, MaxRead \* the limits, in files and in bytes

NumbersAssumption ==
  /\ IsFiniteSet(Paths) /\ Paths # {} /\ Ignored \subseteq Paths
  /\ Calls \subseteq Nat \ {0} /\ Sizes \subseteq Nat
  /\ {MaxFiles, MaxFile, MaxTotal, MaxRead} \subseteq Nat

VARIABLES
  files, \* what the existing files hold
  calls, \* the calls that were made
  met,   \* those that overlapped another call for their file
  peak   \* the most writes that were under way at once

vars == <<files, calls, met, peak>>

\* A text is known by the call that wrote it: 0 for one that was there before,
\* Mixed for what two writers make of a file together.
Mixed == -1
Text(author, size) == [author |-> author, size |-> size]
Empty == Text(0, 0)
Unused == [op |-> "none", at |-> "unused", path |-> CHOOSE p \in Paths : TRUE, size |-> 0, old |-> Empty, replaced |-> Empty]

Visible == DOMAIN files \ Ignored
Bytes(paths) == MapThenSumSet(LAMBDA p : files[p].size, paths)
Active(c) == calls[c].at \notin {"unused", "done", "failed"}
\* Writes that have passed the limits and are not on disk.
Writing == {c \in Calls : Active(c) /\ calls[c].op # "read"}
-----------------------------------------------------------------------------
Init ==
  /\ \E there \in SUBSET Paths : files = [p \in there |-> Text(0, 1)]
  /\ Cardinality(Visible) <= MaxFiles /\ Bytes(Visible) <= MaxTotal
  /\ calls = [c \in Calls |-> Unused]
  /\ met = {} /\ peak = 0

\* Mutant of Fits: the new file is not counted.
FitsAsIs(path, size, replaces) ==
  LET replaced == replaces /\ path \in DOMAIN files IN
  /\ size <= MaxFile
  /\ Cardinality(Visible) <= MaxFiles
  /\ Bytes(Visible) - (IF replaced THEN files[path].size ELSE 0) + size <= MaxTotal

\* validate_capacity.  A replaced file in an ignored directory is subtracted
\* though it was not counted.
Fits(path, size, replaces) ==
  LET replaced == replaces /\ path \in DOMAIN files IN
  /\ size <= MaxFile
  /\ Cardinality(Visible) + (IF replaced THEN 0 ELSE 1) <= MaxFiles
  /\ Bytes(Visible) - (IF replaced THEN files[path].size ELSE 0) + size <= MaxTotal

\* The first part of a call, on the event loop, ends with the call in a thread
\* or with an error.
Begin(c, op, path, size, passes, at) ==
  LET others == {d \in Calls : Active(d) /\ calls[d].path = path} IN
  /\ calls[c].at = "unused"
  /\ \A d \in Calls : d < c => calls[d].at # "unused"
  /\ calls' = [calls EXCEPT ![c] = [Unused EXCEPT !.op = op, !.path = path, !.size = size,
                                                  !.at = IF passes THEN at ELSE "failed"]]
  /\ met' = IF passes /\ others # {} THEN met \cup others \cup {c} ELSE met
  /\ peak' = IF passes /\ op # "read" /\ Cardinality(Writing) >= peak THEN Cardinality(Writing) + 1 ELSE peak
  /\ UNCHANGED files

\* create_file does not ask whether the file is there.
Create(c, path, size) == Begin(c, "create", path, size, Fits(path, size, FALSE), "opening")

Modify(c, path, size) ==
  Begin(c, "modify", path, size, path \in DOMAIN files /\ Fits(path, size, TRUE), "looking")

\* The size that read_file reports is of this moment.
Read(c, path) ==
  LET passes == path \in DOMAIN files /\ files[path].size <= MaxRead
  IN  Begin(c, "read", path, IF passes THEN files[path].size ELSE 0, passes, "reading")

Moves(c, from, to) == calls[c].at = from /\ calls' = [calls EXCEPT ![c].at = to]

\* Mutant of Open: the file is opened for writing, and emptied.
OpenAnyway(c) ==
  LET path == calls[c].path IN
  /\ Moves(c, "opening", "writing")
  /\ files' = [p \in DOMAIN files \cup {path} |-> IF p = path THEN Empty ELSE files[p]]
  /\ UNCHANGED <<met, peak>>

\* _exclusive_write opens the file in mode x.
Open(c) ==
  LET path == calls[c].path IN
  /\ IF path \in DOMAIN files
       THEN Moves(c, "opening", "failed") /\ UNCHANGED files
       ELSE /\ Moves(c, "opening", "writing")
            /\ files' = [p \in DOMAIN files \cup {path} |-> IF p = path THEN Empty ELSE files[p]]
  /\ UNCHANGED <<met, peak>>

\* modify_file reads the text that its difference is made from.
Look(c) ==
  /\ calls[c].at = "looking"
  /\ calls' = [calls EXCEPT ![c].at = "replacing", ![c].old = files[calls[c].path]]
  /\ UNCHANGED <<files, met, peak>>

\* Mutant of Truncate: the text is read after the file is emptied.
TruncateFirst(c) ==
  LET path == calls[c].path IN
  /\ calls[c].at = "replacing"
  /\ calls' = [calls EXCEPT ![c].at = "writing", ![c].replaced = files[path], ![c].old = Empty]
  /\ files' = [files EXCEPT ![path] = Empty]
  /\ UNCHANGED <<met, peak>>

\* write_bytes empties the file and writes.
Truncate(c) ==
  LET path == calls[c].path IN
  /\ calls[c].at = "replacing"
  /\ calls' = [calls EXCEPT ![c].at = "writing", ![c].replaced = files[path]]
  /\ files' = [files EXCEPT ![path] = Empty]
  /\ UNCHANGED <<met, peak>>

\* A text that is shorter than what another writer put there leaves its end.
Write(c) ==
  LET path == calls[c].path
      size == calls[c].size
  IN  /\ Moves(c, "writing", "done")
      /\ files' = [files EXCEPT ![path] = IF @.size > size THEN Text(Mixed, @.size) ELSE Text(c, size)]
      /\ UNCHANGED <<met, peak>>

Take(c) ==
  /\ calls[c].at = "reading"
  /\ calls' = [calls EXCEPT ![c].at = "done", ![c].old = files[calls[c].path]]
  /\ UNCHANGED <<files, met, peak>>

\* Mutant of Cancel: the thread ends with its caller.
CancelThread(c) ==
  /\ calls[c].at \in {"opening", "looking", "replacing", "writing", "reading"}
  /\ calls' = [calls EXCEPT ![c].at = "failed"]
  /\ UNCHANGED <<files, met, peak>>

\* The caller is cancelled.  What no thread has started does not happen; a
\* write that has started goes on, as if nobody had cancelled.
Cancel(c) ==
  /\ calls[c].at \in {"opening", "looking", "replacing", "reading"}
  /\ calls' = [calls EXCEPT ![c].at = "failed"]
  /\ UNCHANGED <<files, met, peak>>

Next == \E c \in Calls :
  \/ \E path \in Paths, size \in Sizes : Create(c, path, size)
  \/ \E path \in Paths, size \in Sizes : Modify(c, path, size)
  \/ \E path \in Paths : Read(c, path)
  \/ Open(c) \/ Look(c) \/ Truncate(c) \/ Write(c) \/ Take(c) \/ Cancel(c)

Spec == Init /\ [][Next]_vars
-----------------------------------------------------------------------------
Texts == [author : Calls \cup {0, Mixed}, size : Nat]

TypeOK ==
  /\ DOMAIN files \subseteq Paths /\ \A p \in DOMAIN files : files[p] \in Texts
  /\ \A c \in Calls :
       /\ calls[c].at \in {"unused", "opening", "looking", "replacing", "writing", "reading", "done", "failed"}
       /\ calls[c].path \in Paths /\ calls[c].old \in Texts /\ calls[c].replaced \in Texts
       /\ calls[c].at \in {"looking", "replacing", "writing"} /\ calls[c].op = "modify" => calls[c].path \in DOMAIN files
  /\ met \subseteq Calls /\ peak \in Nat

\* "Create a new UTF-8 file without overwriting an existing file": no call
\* creates a file that was there, whoever put it there in the meantime.
CreatesOnlyNew ==
  \A c \in Calls : calls[c].op = "create" /\ calls[c].at \in {"writing", "done"} =>
    \A d \in Calls : d # c /\ calls[d].op = "create" /\ calls[d].path = calls[c].path =>
      calls[d].at \notin {"writing", "done"}

\* The limits are looked at before the write, and so other writes that are
\* under way may be too many, but not more than there were at once.
LimitsGiveWayToPeersOnly ==
  LET peers == IF peak = 0 THEN 0 ELSE peak - 1 IN
  /\ Cardinality(Visible) <= MaxFiles + peers
  /\ Bytes(Visible) <= MaxTotal + peers * MaxFile
  /\ \A p \in DOMAIN files : files[p].author # 0 => files[p].size <= MaxFile

\* The difference that a modification reports is to the text that it replaced,
\* unless another call for the file overlapped it.
DifferenceIsTrue ==
  \A c \in Calls \ met : calls[c].op = "modify" /\ calls[c].at = "done" => calls[c].old = calls[c].replaced

\* A file is half written only while it is being written, and mixed only by
\* writers that overlapped; a read that overlapped nothing is of a whole text,
\* and of the size that it reports.
TextsAreWhole ==
  /\ \A p \in DOMAIN files :
       /\ files[p] = Empty => \E c \in Calls : calls[c].path = p /\ calls[c].at = "writing"
       /\ files[p].author = Mixed => \E c, d \in met : c # d /\ calls[c].path = p /\ calls[d].path = p
  /\ \A c \in Calls \ met : calls[c].op = "read" /\ calls[c].at = "done" =>
       calls[c].old # Empty /\ calls[c].old.size = calls[c].size
=============================================================================
