------------------------- MODULE ConversationStream -------------------------
(***************************************************************************)
(* One browser on one conversation: App.tsx (loadSelected, refreshSelected,*)
(* updateMessage), useConversationStream.ts and the two endpoints they     *)
(* read (api/conversations.py: /messages and /stream), over the transcript *)
(* ConversationLog promises, which ConversationStore implements.           *)
(*                                                                         *)
(* A draft is an agent_delta message: it replaces the draft of its stream  *)
(* and is removed by the answer of its stream.                             *)
(***************************************************************************)
EXTENDS ConversationLog, FiniteSets, FiniteSetsExt

CONSTANTS
  AnswerOf,      \* [drafts -> the source of the answer that ends their stream]
  GetLimit,      \* limit of GET /messages (1000 in lib/api.ts)
  PollLimit,     \* limit of one poll of the stream (500)
  MaxDrops,      \* bound: connections lost
  MaxLoads,      \* bound: times the conversation is selected
  MaxRefreshes,  \* bound: refreshSelected
  MaxCrashes     \* bound: crashes of the server

BoundsAssumption ==
  /\ DOMAIN AnswerOf \subseteq Sources
  /\ AnswerOf \in [DOMAIN AnswerOf -> Sources \ DOMAIN AnswerOf]
  /\ GetLimit \in Nat \ {0} /\ PollLimit \in Nat \ {0}

VARIABLES
  phase,      \* "away", "loading", "open": loadSelected and what follows
  shown,      \* conversation: the messages App holds
  fetch,      \* GET of loadSelected: where it is and the rows it was answered
  refresh,    \* GET of refreshSelected, likewise
  connected,  \* the EventSource has a connection
  after,      \* the URL's after: cursor the stream was created with
  lastId,     \* the EventSource's last event id, 0 when none
  cursor,     \* the hook's cursor
  served,     \* the server generator's cursor
  wire,       \* rows on their way, which arrive in the order of their ids
  stale,      \* ghost: the log was cut since the rows of this view were read
  drops, loads, refreshes, crashes

client == <<phase, shown, fetch, refresh>>
stream == <<connected, after, lastId, cursor, served, wire>>
counts == <<drops, loads, refreshes, crashes>>
vars == <<log, saved, client, stream, stale, counts>>
-----------------------------------------------------------------------------
Drafts == DOMAIN AnswerOf
IsDraft(m) == m.source \in Drafts
LastIdOf(messages) == Max({m.id : m \in messages} \cup {0})

\* list_messages: the oldest messages after an id, at most limit of them.
Page(from, limit, exclude) ==
  LET rows == {m \in ToSet(log) : m.id > from /\ m.source \notin exclude}
  IN  {m \in rows : Cardinality({older \in rows : older.id < m.id}) < limit}

\* Mutant of WithMessage: the answer leaves the draft of its stream.
WithMessageOnly(items, m) ==
  {i \in items : ~(IsDraft(m) /\ IsDraft(i) /\ AnswerOf[i.source] = AnswerOf[m.source])} \cup {m}

\* updateMessage.
WithMessage(items, m) ==
  LET SameStream(i) ==
        IsDraft(i) /\ AnswerOf[i.source] = (IF IsDraft(m) THEN AnswerOf[m.source] ELSE m.source)
  IN  {i \in items : ~SameStream(i) /\ (IsDraft(m) \/ i.id # m.id)} \cup {m}

Quiet == [at |-> "none", rows |-> {}]

Init ==
  /\ LogInit
  /\ phase = "away" /\ shown = {} /\ fetch = Quiet /\ refresh = Quiet
  /\ connected = FALSE /\ after = 0 /\ lastId = 0 /\ cursor = 0 /\ served = 0 /\ wire = {}
  /\ stale = FALSE
  /\ drops = 0 /\ loads = 0 /\ refreshes = 0 /\ crashes = 0
-----------------------------------------------------------------------------
\* A message is appended; a stream has no draft after its answer.
Publish(s) ==
  /\ Appended(s)
  /\ s \in Drafts => AnswerOf[s] \notin SourcesOf(log)
  /\ UNCHANGED <<client, stream, stale, counts>>

Persist == Saved /\ UNCHANGED <<client, stream, stale, counts>>

\* The server dies: what was not saved is gone and so is every connection.
Crash ==
  /\ crashes < MaxCrashes
  /\ CutBack
  /\ crashes' = crashes + 1
  /\ stale' = (stale \/ saved < Len(log))
  /\ connected' = FALSE /\ wire' = {}
  /\ UNCHANGED <<client, after, lastId, cursor, served, drops, loads, refreshes>>
-----------------------------------------------------------------------------
Disconnected == connected' = FALSE /\ wire' = {}

\* loadSelected up to its first await; the effect closes the stream.
Select ==
  /\ loads < MaxLoads
  /\ loads' = loads + 1
  /\ phase' = "loading" /\ shown' = {} /\ fetch' = [at |-> "sent", rows |-> {}]
  /\ Disconnected
  /\ UNCHANGED <<log, saved, refresh, after, lastId, cursor, served, stale, drops, refreshes, crashes>>

FetchAnswered ==
  /\ fetch.at = "sent"
  /\ fetch' = [at |-> "answered", rows |-> Page(0, GetLimit, Drafts)]
  /\ stale' = FALSE
  /\ UNCHANGED <<log, saved, phase, shown, refresh, stream, counts>>

\* The effect creates the stream after the largest id it holds.
OpensAfter(rows) ==
  /\ phase' = "open" /\ shown' = rows /\ fetch' = Quiet
  /\ after' = LastIdOf(rows) /\ cursor' = LastIdOf(rows) /\ served' = LastIdOf(rows)
  /\ lastId' = 0 /\ connected' = TRUE /\ wire' = {}

\* Mutant of FetchLoaded: the stream starts at the server's newest message.
FetchLoadedFromNow ==
  /\ fetch.at = "answered"
  /\ phase' = "open" /\ shown' = fetch.rows /\ fetch' = Quiet
  /\ after' = Len(log) /\ cursor' = Len(log) /\ served' = Len(log)
  /\ lastId' = 0 /\ connected' = TRUE /\ wire' = {}
  /\ UNCHANGED <<log, saved, refresh, stale, counts>>

FetchLoaded ==
  /\ fetch.at = "answered"
  /\ OpensAfter(fetch.rows)
  /\ UNCHANGED <<log, saved, refresh, stale, counts>>

\* The request failed: the error is shown and the stream starts from nothing.
FetchFailed ==
  /\ fetch.at = "sent" /\ drops < MaxDrops
  /\ drops' = drops + 1
  /\ OpensAfter({})
  /\ stale' = FALSE
  /\ UNCHANGED <<log, saved, refresh, loads, refreshes, crashes>>
-----------------------------------------------------------------------------
\* One poll of stream_conversation: its rows are yielded in order.
Poll ==
  /\ connected /\ wire = {}
  /\ wire' = Page(served, PollLimit, {}) /\ wire' # {}
  /\ served' = LastIdOf(wire')
  /\ UNCHANGED <<log, saved, client, connected, after, lastId, cursor, stale, counts>>

Deliver ==
  /\ \E m \in wire :
       /\ \A other \in wire : m.id <= other.id
       /\ lastId' = m.id
       /\ cursor' = Max({cursor, m.id})
       /\ shown' = IF m.id > cursor THEN WithMessage(shown, m) ELSE shown
       /\ wire' = wire \ {m}
  /\ UNCHANGED <<log, saved, phase, fetch, refresh, connected, after, served, stale, counts>>

Drop ==
  /\ connected /\ drops < MaxDrops
  /\ drops' = drops + 1
  /\ Disconnected
  /\ UNCHANGED <<log, saved, client, after, lastId, cursor, served, stale, loads, refreshes, crashes>>

\* Mutant of Reconnect: the generator goes on where the last one stopped.
ReconnectWhereServed ==
  /\ phase = "open" /\ ~connected
  /\ connected' = TRUE
  /\ UNCHANGED <<log, saved, client, after, lastId, cursor, served, wire, stale, counts>>

\* Mutant of Reconnect: a server that is back has forgotten the browser.
ReconnectNever ==
  /\ phase = "open" /\ ~connected /\ lastId = 0
  /\ connected' = TRUE /\ served' = after
  /\ UNCHANGED <<log, saved, client, after, lastId, cursor, wire, stale, counts>>

\* The EventSource asks again with its Last-Event-ID.
Reconnect ==
  /\ phase = "open" /\ ~connected
  /\ connected' = TRUE /\ served' = Max({after, lastId})
  /\ UNCHANGED <<log, saved, client, after, lastId, cursor, wire, stale, counts>>
-----------------------------------------------------------------------------
\* refreshSelected, when the task stream reports that its task is complete.
Refresh ==
  /\ phase = "open" /\ refresh = Quiet /\ refreshes < MaxRefreshes
  /\ refreshes' = refreshes + 1
  /\ refresh' = [at |-> "sent", rows |-> {}]
  /\ UNCHANGED <<log, saved, phase, shown, fetch, stream, stale, drops, loads, crashes>>

RefreshAnswered ==
  /\ refresh.at = "sent"
  /\ refresh' = [at |-> "answered", rows |-> Page(0, GetLimit, Drafts)]
  /\ UNCHANGED <<log, saved, phase, shown, fetch, stream, stale, counts>>

\* setConversation: whatever the stream added meanwhile is overwritten.
RefreshApplied ==
  /\ refresh.at = "answered"
  /\ shown' = refresh.rows /\ refresh' = Quiet
  /\ UNCHANGED <<log, saved, phase, fetch, stream, stale, counts>>

Next ==
  \/ \E s \in Sources : Publish(s)
  \/ Persist \/ Crash
  \/ Select \/ FetchAnswered \/ FetchLoaded \/ FetchFailed
  \/ Poll \/ Deliver \/ Drop \/ Reconnect
  \/ Refresh \/ RefreshAnswered \/ RefreshApplied

\* The server answers and polls, the browser handles what arrives and
\* reconnects (retry: 1000).
Fairness ==
  /\ WF_vars(FetchAnswered) /\ WF_vars(FetchLoaded)
  /\ WF_vars(Poll) /\ WF_vars(Deliver) /\ WF_vars(Reconnect)

Spec == Init /\ [][Next]_vars /\ Fairness
-----------------------------------------------------------------------------
Message == [id : Nat, source : Sources]

TypeOK ==
  /\ log \in Seq(Message) /\ saved \in 0 .. Len(log)
  /\ phase \in {"away", "loading", "open"}
  /\ shown \subseteq Message
  /\ \A get \in {fetch, refresh} : get.at \in {"none", "sent", "answered"} /\ get.rows \subseteq Message
  /\ connected \in BOOLEAN /\ stale \in BOOLEAN
  /\ {after, lastId, cursor, served} \subseteq Nat
  /\ wire \subseteq Message /\ (wire # {} => connected)

\* The view has no gap: of the messages up to the cursor that are not drafts
\* it shows every one, across lost connections, pages and reloads, and across
\* a crash once it has been loaded again.
NothingSkipped ==
  phase = "open" /\ ~stale =>
    \A m \in ToSet(log) : m.id <= cursor /\ ~IsDraft(m) => m \in shown

\* A stream shows one draft, and none beside its answer.
OneDraft ==
  ~stale => \A m \in shown : IsDraft(m) =>
    \A other \in shown : other.source # AnswerOf[m.source]
                         /\ (IsDraft(other) /\ AnswerOf[other.source] = AnswerOf[m.source] => other = m)

\* What the browser has is never behind what the server will send next: no
\* message lies between the two cursors without being on the wire.
CursorsMeet ==
  connected /\ ~stale => served = Max({cursor} \cup {m.id : m \in wire})

\* An open view comes to show every message that stays in the log, unless it
\* is loaded again.
EventuallyShown ==
  \A s \in Sources \ Drafts :
    (phase = "open" /\ ~stale /\ s \in SourcesOf(log))
      ~> (stale \/ phase # "open" \/ s \in {m.source : m \in shown})
=============================================================================
