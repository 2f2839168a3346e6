------------------------------ MODULE TaskStream ------------------------------
(***************************************************************************)
(* One browser following one task: stream_task_events of api/tasks.py,     *)
(* useTaskStream.ts and what App.tsx does with it.                         *)
(*                                                                         *)
(* The timeline is a number of events, the last of which, the end, is      *)
(* committed together with a terminal state; the messages of the task are  *)
(* a number too: a message may be appended after the end.                  *)
(***************************************************************************)
EXTENDS Integers, Sequences, FiniteSets, FiniteSetsExt

CONSTANTS
  MaxEvents,    \* bound: events of the task
  MaxMessages,  \* bound: messages of the task
  MaxDrops      \* bound: connections lost

BoundsAssumption == MaxEvents \in Nat \ {0} /\ MaxMessages \in Nat /\ MaxDrops \in Nat

VARIABLES
  timeline,   \* number of committed events
  ended,      \* the row's state is terminal, the last event is the end
  posted,     \* number of the task's messages in the store
  load,       \* loadSelected: "messages", "task", "done"
  reads,      \* what its GETs have been answered: a set of "task", "events"
  source,     \* the EventSource: "none", "open", "lost", "closed"
  from,       \* after and message_after of its URL
  generator,  \* where a poll of the server's generator is, and what it read
  cursor,     \* its cursor and message_cursor
  wire,       \* items on their way to the browser
  activeTask, \* state App shows: "unknown", "running", "terminal"
  events,     \* ids of the events App holds
  messages,   \* ids of the task's messages App holds
  refresh,    \* refreshSelected: "none", "messages", "task", "done"
  drops

server == <<timeline, ended, posted>>
vars == <<server, load, reads, source, from, generator, cursor, wire,
          activeTask, events, messages, refresh, drops>>
-----------------------------------------------------------------------------
Largest(ids) == Max(ids \cup {0})
EndsTask(id) == ended /\ id = timeline
RowState == IF ended THEN "terminal" ELSE "running"

Asleep == [at |-> "sleep", terminal |-> FALSE, news |-> {}]
Gone == [at |-> "gone", terminal |-> FALSE, news |-> {}]

Init ==
  /\ timeline = 1 /\ ended = FALSE /\ posted = 0
  /\ load = "messages" /\ reads = {}
  /\ source = "none" /\ from = [event |-> 0, message |-> 0]
  /\ generator = Gone /\ cursor = from /\ wire = <<>>
  /\ activeTask = "unknown" /\ events = {} /\ messages = {} /\ refresh = "none"
  /\ drops = 0
-----------------------------------------------------------------------------
Record(last) ==
  /\ ~ended /\ timeline < MaxEvents
  /\ timeline' = timeline + 1 /\ ended' = last
  /\ UNCHANGED <<posted, load, reads, source, from, generator, cursor, wire,
                 activeTask, events, messages, refresh, drops>>

Post ==
  /\ posted < MaxMessages
  /\ posted' = posted + 1
  /\ UNCHANGED <<timeline, ended, load, reads, source, from, generator, cursor, wire,
                 activeTask, events, messages, refresh, drops>>
-----------------------------------------------------------------------------
\* loadSelected: first the messages, then the task and its events, each read
\* at a moment of its own.
LoadMessages ==
  /\ load = "messages"
  /\ messages' = 1 .. posted
  /\ load' = "task"
  /\ UNCHANGED <<server, reads, source, from, generator, cursor, wire, activeTask, events, refresh, drops>>

LoadTask ==
  /\ load = "task" /\ "task" \notin reads
  /\ activeTask' = RowState
  /\ reads' = reads \cup {"task"}
  /\ UNCHANGED <<server, load, source, from, generator, cursor, wire, events, messages, refresh, drops>>

LoadEvents ==
  /\ load = "task" /\ "events" \notin reads
  /\ events' = 1 .. timeline
  /\ reads' = reads \cup {"events"}
  /\ UNCHANGED <<server, load, source, from, generator, cursor, wire, activeTask, messages, refresh, drops>>

\* Mutant of Loaded: no stream for a task whose events show its end.
LoadedUnlessEnded ==
  /\ load = "task" /\ reads = {"task", "events"}
  /\ load' = "done"
  /\ IF activeTask = "terminal" \/ \E e \in events : EndsTask(e)
       THEN UNCHANGED <<source, from, generator, cursor>>
       ELSE /\ source' = "open"
            /\ from' = [event |-> Largest(events), message |-> Largest(messages)]
            /\ cursor' = from' /\ generator' = Asleep
  /\ UNCHANGED <<server, reads, wire, activeTask, events, messages, refresh, drops>>

\* The effect: an active task gets a stream that starts after what is held.
Loaded ==
  /\ load = "task" /\ reads = {"task", "events"}
  /\ load' = "done"
  /\ IF activeTask = "terminal"
       THEN UNCHANGED <<source, from, generator, cursor>>
       ELSE /\ source' = "open"
            /\ from' = [event |-> Largest(events), message |-> Largest(messages)]
            /\ cursor' = from' /\ generator' = Asleep
  /\ UNCHANGED <<server, reads, wire, activeTask, events, messages, refresh, drops>>
-----------------------------------------------------------------------------
\* A poll reads the row, then the timeline, then the messages.
PollRow ==
  /\ generator.at = "sleep"
  /\ generator' = [at |-> "events", terminal |-> ended, news |-> {}]
  /\ UNCHANGED <<server, load, reads, source, from, cursor, wire, activeTask, events, messages, refresh, drops>>

EventItems == {[kind |-> "event", id |-> e, end |-> EndsTask(e)] : e \in cursor.event + 1 .. timeline}
MessageItems == {[kind |-> "message", id |-> n, end |-> FALSE] : n \in cursor.message + 1 .. posted}

PollEvents ==
  /\ generator.at = "events"
  /\ generator' = [generator EXCEPT !.at = "messages", !.news = EventItems]
  /\ UNCHANGED <<server, load, reads, source, from, cursor, wire, activeTask, events, messages, refresh, drops>>

\* Mutant of PollMessages: the row is read last.
PollMessagesThenRow ==
  /\ generator.at = "messages"
  /\ LET news == generator.news \cup MessageItems IN
       IF ended /\ news = {}
         THEN /\ generator' = Gone
              /\ wire' = Append(wire, [kind |-> "complete", id |-> 0, end |-> FALSE])
         ELSE /\ generator' = [Asleep EXCEPT !.at = IF news = {} THEN "sleep" ELSE "yield", !.news = news]
              /\ UNCHANGED wire
  /\ UNCHANGED <<server, load, reads, source, from, cursor, activeTask, events, messages, refresh, drops>>

\* Without news, a terminal row ends the stream.
PollMessages ==
  /\ generator.at = "messages"
  /\ LET news == generator.news \cup MessageItems IN
       IF generator.terminal /\ news = {}
         THEN /\ generator' = Gone
              /\ wire' = Append(wire, [kind |-> "complete", id |-> 0, end |-> FALSE])
         ELSE /\ generator' = [Asleep EXCEPT !.at = IF news = {} THEN "sleep" ELSE "yield", !.news = news]
              /\ UNCHANGED wire
  /\ UNCHANGED <<server, load, reads, source, from, cursor, activeTask, events, messages, refresh, drops>>

\* The news in the order of their times: events and messages each in their own.
Yield ==
  /\ generator.at = "yield"
  /\ \E item \in generator.news :
       /\ \A other \in generator.news : other.kind = item.kind => item.id <= other.id
       /\ wire' = Append(wire, item)
       /\ cursor' = [cursor EXCEPT ![item.kind] = item.id]
       /\ generator' = [generator EXCEPT !.news = @ \ {item},
                                         !.at = IF generator.news = {item} THEN "sleep" ELSE "yield"]
  /\ UNCHANGED <<server, load, reads, source, from, activeTask, events, messages, refresh, drops>>
-----------------------------------------------------------------------------
\* updateEvent: kept once, and the state it leads to is shown in any case.
OnEvent(item) ==
  /\ events' = events \cup {item.id}
  /\ activeTask' = IF item.end THEN "terminal" ELSE "running"

Receive ==
  /\ source = "open" /\ wire # <<>>
  /\ LET item == Head(wire) IN
       CASE item.kind = "event" ->
              OnEvent(item) /\ wire' = Tail(wire) /\ UNCHANGED <<messages, source, refresh, generator>>
         [] item.kind = "message" ->
              /\ messages' = messages \cup {item.id} /\ wire' = Tail(wire)
              /\ UNCHANGED <<events, activeTask, source, refresh, generator>>
         [] item.kind = "complete" ->
              /\ source' = "closed" /\ refresh' = "messages" /\ wire' = <<>> /\ generator' = Gone
              /\ UNCHANGED <<events, activeTask, messages>>
  /\ UNCHANGED <<server, load, reads, from, cursor, drops>>

\* Mutant of Deactivate: the stream stays open until it completes.
DeactivateNever ==
  /\ source = "lost" /\ activeTask = "terminal"
  /\ source' = "open" /\ generator' = Asleep /\ cursor' = from
  /\ UNCHANGED <<server, load, reads, from, wire, activeTask, events, messages, refresh, drops>>

\* The effect's cleanup, once the state shown is terminal.
Deactivate ==
  /\ source \in {"open", "lost"} /\ activeTask = "terminal"
  /\ source' = "closed" /\ wire' = <<>> /\ generator' = Gone
  /\ UNCHANGED <<server, load, reads, from, cursor, activeTask, events, messages, refresh, drops>>

Drop ==
  /\ source = "open" /\ drops < MaxDrops
  /\ drops' = drops + 1
  /\ source' = "lost" /\ wire' = <<>> /\ generator' = Gone
  /\ UNCHANGED <<server, load, reads, from, cursor, activeTask, events, messages, refresh>>

\* Mutant of Reconnect: the stream begins at what the task has by now.
ReconnectAtNow ==
  /\ source = "lost" /\ activeTask # "terminal"
  /\ source' = "open" /\ generator' = Asleep
  /\ cursor' = [event |-> timeline, message |-> posted]
  /\ UNCHANGED <<server, load, reads, from, wire, activeTask, events, messages, refresh, drops>>

\* The items carry no id: the EventSource asks for the same URL again, after
\* a delay in which React has long rendered: a task shown as ended has closed
\* the stream by then.
Reconnect ==
  /\ source = "lost" /\ activeTask # "terminal"
  /\ source' = "open" /\ generator' = Asleep /\ cursor' = from
  /\ UNCHANGED <<server, load, reads, from, wire, activeTask, events, messages, refresh, drops>>

\* refreshSelected: the messages, then the task, its events and its result.
RefreshMessages ==
  /\ refresh = "messages"
  /\ refresh' = "task" /\ messages' = 1 .. posted
  /\ UNCHANGED <<server, load, reads, source, from, generator, cursor, wire, activeTask, events, drops>>

RefreshTask ==
  /\ refresh = "task"
  /\ refresh' = "done" /\ activeTask' = RowState /\ events' = 1 .. timeline
  /\ UNCHANGED <<server, load, reads, source, from, generator, cursor, wire, messages, drops>>

Next ==
  \/ \E last \in BOOLEAN : Record(last)
  \/ Post
  \/ LoadMessages \/ LoadTask \/ LoadEvents \/ Loaded
  \/ PollRow \/ PollEvents \/ PollMessages \/ Yield
  \/ Receive \/ Deactivate \/ Drop \/ Reconnect
  \/ RefreshMessages \/ RefreshTask

\* Requests are answered, the generator goes on, the browser handles what
\* arrives and reconnects. The task itself may take for ever.
Fairness ==
  /\ WF_vars(LoadMessages) /\ WF_vars(LoadTask) /\ WF_vars(LoadEvents) /\ WF_vars(Loaded)
  /\ WF_vars(PollRow) /\ WF_vars(PollEvents) /\ WF_vars(PollMessages) /\ WF_vars(Yield)
  /\ WF_vars(Receive) /\ WF_vars(Deactivate) /\ WF_vars(Reconnect)
  /\ WF_vars(RefreshMessages) /\ WF_vars(RefreshTask)

Spec == Init /\ [][Next]_vars /\ Fairness
-----------------------------------------------------------------------------
Cursor == [event : 0 .. MaxEvents, message : 0 .. MaxMessages]
Item == [kind : {"event", "message", "complete"}, id : Nat, end : BOOLEAN]

TypeOK ==
  /\ timeline \in 1 .. MaxEvents /\ ended \in BOOLEAN /\ posted \in 0 .. MaxMessages
  /\ load \in {"messages", "task", "done"} /\ reads \subseteq {"task", "events"}
  /\ source \in {"none", "open", "lost", "closed"}
  /\ from \in Cursor /\ cursor \in Cursor
  /\ generator \in [at : {"gone", "sleep", "events", "messages", "yield"},
                    terminal : BOOLEAN, news : SUBSET Item]
  /\ wire \in Seq(Item)
  /\ activeTask \in {"unknown", "running", "terminal"}
  /\ events \subseteq 1 .. timeline /\ messages \subseteq 1 .. posted
  /\ refresh \in {"none", "messages", "task", "done"}
  /\ drops \in 0 .. MaxDrops

\* The stream says that it is complete only when every event of the task has
\* gone before, the end included: the row is read before its timeline.
CompleteIsComplete ==
  \A i \in DOMAIN wire : wire[i].kind = "complete" =>
    /\ ended
    /\ 1 .. timeline \subseteq events \cup {wire[j].id : j \in {k \in 1 .. i : wire[k].kind = "event"}}

\* The timeline App shows has no hole: a lost connection may repeat events, it
\* never leaves one out.
TimelineHasNoHole == load = "done" => events = 1 .. Largest(events)

\* A task shown as ended is not shown as running again, whatever the stream
\* repeats after a lost connection.
EndSticks == [][activeTask = "terminal" => activeTask' = "terminal"]_vars

\* A task's stream is complete only after its last event, the timeline shown has
\* no hole, and a task shown as ended stays so.
TasksAreFollowed == []TypeOK /\ []CompleteIsComplete /\ []TimelineHasNoHole /\ EndSticks

\* The browser learns that the task has ended, however the reads of
\* loadSelected interleave with the end.
BrowserLearnsEnd == ended ~> activeTask = "terminal"
=============================================================================
