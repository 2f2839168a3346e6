------------------------------ MODULE McpManager ------------------------------
(***************************************************************************)
(* The MCP manager (mcp/manager.py): a lock, a session and a list of tools *)
(* per server, made on first use by the discovery at startup (mcp/         *)
(* registry.py, main.py) or by a call, and closed without the locks.       *)
(***************************************************************************)
EXTENDS Integers, Sequences, FiniteSets, SequencesExt

CONSTANTS
  Servers,    \* sequence of the enabled servers
  Tools,
  Allowed,    \* [server -> tools in its configuration]
  Published,  \* [server -> tools it lists]
  Calls,
  Untracked,  \* calls of a background run that began while the application stops
  Discovery,  \* the user that discovers at startup
  Nobody

Users == Calls \cup {Discovery}
ServerSet == ToSet(Servers)
None == {Nobody}  \* the list of a server that was not asked for it

UsersAssumption ==
  Nobody \notin Users \cup Tools /\ Discovery \notin Calls /\ Untracked \subseteq Calls
ServersAssumption ==
  /\ Servers \in Seq(ServerSet) /\ Servers # <<>> /\ IsInjective(Servers)
  /\ Allowed \in [ServerSet -> SUBSET Tools] /\ Published \in [ServerSet -> SUBSET Tools]

VARIABLES
  app,         \* "starting", "serving", "closing", "closed", "failed"
  at,          \* "new", "waiting", "connecting", "listing", "calling", "ended"
  server,      \* [user -> the server it uses]
  tool,        \* [call -> the tool it names]
  lock,        \* [server -> the user that holds its lock]
  session,     \* [server -> the user that opened its session, or Nobody]
  tools,       \* [server -> cached names, or None]
  open,        \* <<user, server>> of the sessions that are open, known by who opened them
  stray,       \* open sessions a timeout or a cancellation cut off, or that would not close
  closing,     \* sessions close has still to close, as in open
  registered,  \* tools in the registry
  asked        \* <<server, tool>> of the calls that reached a server

vars == <<app, at, server, tool, lock, session, tools, open, stray, closing, registered, asked>>

Ended(u) == at' = [at EXCEPT ![u] = "ended"]
Released(u) == lock' = [lock EXCEPT ![server[u]] = Nobody]
Holds(u) == at[u] \in {"connecting", "listing", "calling"}
-----------------------------------------------------------------------------
Init ==
  /\ app = "starting"
  /\ at = [u \in Users |-> "new"]
  /\ server = [u \in Users |-> Servers[1]]
  /\ tool \in [Calls -> Tools]
  /\ lock = [s \in ServerSet |-> Nobody] /\ session = [s \in ServerSet |-> Nobody]
  /\ tools = [s \in ServerSet |-> None]
  /\ open = {} /\ stray = {} /\ closing = {} /\ registered = {} /\ asked = {}

\* register_mcp_tools begins to discover the server.
Discover ==
  /\ app = "starting" /\ at[Discovery] = "new"
  /\ at' = [at EXCEPT ![Discovery] = "waiting"]
  /\ UNCHANGED <<app, server, tool, lock, session, tools, open, stray, closing, registered, asked>>

\* Mutant of Enter: the allow list is left to the registry of another server.
EnterAny(c, s) ==
  /\ (app = "serving" \/ (c \in Untracked /\ app \in {"closing", "closed"})) /\ at[c] = "new"
  /\ \E r \in ServerSet : <<r, tool[c]>> \in registered
  /\ server' = [server EXCEPT ![c] = s]
  /\ at' = [at EXCEPT ![c] = "waiting"]
  /\ UNCHANGED <<app, tool, lock, session, tools, open, stray, closing, registered, asked>>

\* A tool of the registry is called, and the policy is there.
Enter(c, s) ==
  /\ (app = "serving" \/ (c \in Untracked /\ app \in {"closing", "closed"})) /\ at[c] = "new"
  /\ <<s, tool[c]>> \in registered /\ tool[c] \in Allowed[s]
  /\ server' = [server EXCEPT ![c] = s]
  /\ at' = [at EXCEPT ![c] = "waiting"]
  /\ UNCHANGED <<app, tool, lock, session, tools, open, stray, closing, registered, asked>>

\* The discovery goes on to the next server, or the application serves.
NextServer(s) ==
  IF s = Last(Servers)
    THEN /\ app' = "serving" /\ Ended(Discovery) /\ UNCHANGED server
    ELSE /\ at' = [at EXCEPT ![Discovery] = "new"]
         /\ server' = [server EXCEPT ![Discovery] = Servers[CHOOSE i \in DOMAIN Servers : i > 1 /\ Servers[i - 1] = s]]
         /\ UNCHANGED app

\* discover has its list: what is allowed and listed is registered.
Register(list) ==
  LET s == server[Discovery]
  IN  /\ registered' = registered \cup {<<s, t>> : t \in Allowed[s] \cap list}
      /\ NextServer(s)
      /\ UNCHANGED asked

\* call has its list: a tool that is not in it, and a session that close has
\* taken away meanwhile, end the call.
Use(c, list) ==
  LET s == server[c]
  IN  /\ IF tool[c] \in list /\ session'[s] # Nobody
           THEN /\ asked' = asked \cup {<<s, tool[c]>>}
                /\ at' = [at EXCEPT ![c] = "calling"]
                /\ UNCHANGED lock
           ELSE Ended(c) /\ Released(c) /\ UNCHANGED asked
      /\ UNCHANGED <<app, server, registered>>

Proceed(u, list) ==
  IF u = Discovery THEN Register(list) /\ Released(u) ELSE Use(u, list)

\* Mutant of Lock: the lock is not taken.
LockNothing(u) ==
  /\ at[u] = "waiting"
  /\ session[server[u]] = Nobody
  /\ at' = [at EXCEPT ![u] = "connecting"]
  /\ open' = open \cup {<<u, server[u]>>}
  /\ lock' = [lock EXCEPT ![server[u]] = u]
  /\ UNCHANGED <<app, server, tool, session, tools, stray, closing, registered, asked>>

\* The lock is free, and the server has no session: connecting opens one.
Lock(u) ==
  /\ at[u] = "waiting" /\ lock[server[u]] = Nobody
  /\ session[server[u]] = Nobody
  /\ lock' = [lock EXCEPT ![server[u]] = u]
  /\ at' = [at EXCEPT ![u] = "connecting"]
  /\ open' = open \cup {<<u, server[u]>>}
  /\ UNCHANGED <<app, server, tool, session, tools, stray, closing, registered, asked>>

\* The lock is free, the server has a session but no list.
LockToList(u) ==
  /\ at[u] = "waiting" /\ lock[server[u]] = Nobody
  /\ session[server[u]] # Nobody /\ tools[server[u]] = None
  /\ lock' = [lock EXCEPT ![server[u]] = u]
  /\ at' = [at EXCEPT ![u] = "listing"]
  /\ UNCHANGED <<app, server, tool, session, tools, open, stray, closing, registered, asked>>

\* The lock is free and everything is there: the call is made.
LockToCall(c) ==
  /\ at[c] = "waiting" /\ lock[server[c]] = Nobody
  /\ session[server[c]] # Nobody /\ tools[server[c]] # None
  /\ IF tool[c] \in tools[server[c]]
       THEN /\ lock' = [lock EXCEPT ![server[c]] = c]
            /\ at' = [at EXCEPT ![c] = "calling"]
            /\ asked' = asked \cup {<<server[c], tool[c]>>}
       ELSE Ended(c) /\ UNCHANGED <<lock, asked>>
  /\ UNCHANGED <<app, server, tool, session, tools, open, stray, closing, registered>>

Connected(u) ==
  /\ at[u] = "connecting"
  /\ session' = [session EXCEPT ![server[u]] = u]
  /\ IF tools[server[u]] = None
       THEN at' = [at EXCEPT ![u] = "listing"] /\ UNCHANGED <<app, server, lock, registered, asked>>
       ELSE Proceed(u, tools[server[u]])
  /\ UNCHANGED <<tool, tools, open, stray, closing>>

\* The tools of the list that are kept: discover keeps the allowed ones, call
\* keeps all of them.
Kept(u) == IF u = Discovery THEN Published[server[u]] \cap Allowed[server[u]] ELSE Published[server[u]]

ToolsListed(u) ==
  /\ at[u] = "listing"
  /\ tools' = [tools EXCEPT ![server[u]] = Kept(u)]
  /\ UNCHANGED session
  /\ Proceed(u, Kept(u))
  /\ UNCHANGED <<tool, open, stray, closing>>

\* Mutant of Abort: the lock is not left.
AbortLocked(u) ==
  /\ Ended(u) /\ UNCHANGED lock
  /\ app' = IF u = Discovery THEN "failed" ELSE app
  /\ UNCHANGED <<server, tool, session, tools, closing, registered, asked>>

\* An error leaves the lock; an error of the discovery leaves the application.
Abort(u) ==
  /\ Ended(u)
  /\ IF Holds(u) THEN Released(u) ELSE UNCHANGED lock
  /\ app' = IF u = Discovery THEN "failed" ELSE app
  /\ UNCHANGED <<server, tool, session, tools, closing, registered, asked>>

\* connect fails with an Exception: it closes what it opened.
ConnectFails(u) == at[u] = "connecting" /\ Abort(u) /\ open' = open \ {<<u, server[u]>>} /\ UNCHANGED stray

\* A timeout or a cancellation is no Exception inside connect: what it opened
\* stays open.
ConnectIsCut(u) == at[u] = "connecting" /\ Abort(u) /\ stray' = stray \cup {<<u, server[u]>>} /\ UNCHANGED open

\* An error, a timeout or a cancellation of the request that runs.
Fails(u) == at[u] \in {"listing", "calling"} /\ Abort(u) /\ UNCHANGED <<open, stray>>

Cancel(c) == at[c] = "waiting" /\ Abort(c) /\ UNCHANGED <<open, stray>>

Returns(c) ==
  /\ at[c] = "calling"
  /\ Ended(c) /\ Released(c)
  /\ UNCHANGED <<app, server, tool, session, tools, open, stray, closing, registered, asked>>

Reset ==
  /\ app' = "closed"
  /\ session' = [s \in ServerSet |-> Nobody] /\ tools' = [s \in ServerSet |-> None]

\* The application stops: the calls that run are cancelled and awaited before,
\* by the close of the subagents and of the coordinator.
Close ==
  /\ app = "serving" /\ \A c \in Calls \ Untracked : at[c] \in {"new", "ended"}
  /\ closing' = {<<session[s], s>> : s \in {r \in ServerSet : session[r] # Nobody}}
  /\ IF closing' = {} THEN Reset ELSE app' = "closing" /\ UNCHANGED <<session, tools>>
  /\ UNCHANGED <<at, server, tool, lock, open, stray, registered, asked>>

\* The loop over the sessions has the order of the servers.
IsFirst(x) ==
  /\ x \in closing
  /\ \A i, j \in DOMAIN Servers :
       Servers[i] = x[2] /\ (\E y \in closing : y[2] = Servers[j]) => i <= j

\* Mutant of CloseNext: the first session that does not close ends the loop.
CloseNextOrStop(x, ok) ==
  /\ app = "closing" /\ IsFirst(x)
  /\ open' = IF ok THEN open \ {x} ELSE open
  /\ stray' = IF ok THEN stray ELSE stray \cup {x}
  /\ closing' = IF ok THEN closing \ {x} ELSE {}
  /\ IF closing' = {} THEN Reset ELSE UNCHANGED <<app, session, tools>>
  /\ UNCHANGED <<at, server, tool, lock, registered, asked>>

\* A session is closed, or its close fails or takes too long.
CloseNext(x, ok) ==
  /\ app = "closing" /\ IsFirst(x)
  /\ open' = IF ok THEN open \ {x} ELSE open
  /\ stray' = IF ok THEN stray ELSE stray \cup {x}
  /\ closing' = closing \ {x}
  /\ IF closing' = {} THEN Reset ELSE UNCHANGED <<app, session, tools>>
  /\ UNCHANGED <<at, server, tool, lock, registered, asked>>

Progress(u) ==
  \/ Lock(u) \/ LockToList(u) \/ Connected(u) \/ ConnectFails(u) \/ ConnectIsCut(u)
  \/ ToolsListed(u) \/ Fails(u)
  \/ (u # Discovery /\ (LockToCall(u) \/ Returns(u)))

Next ==
  \/ Discover \/ Close
  \/ \E x \in closing, ok \in BOOLEAN : CloseNext(x, ok)
  \/ \E c \in Calls : Cancel(c)
  \/ \E c \in Calls, s \in ServerSet : Enter(c, s)
  \/ \E u \in Users : Progress(u)

\* Every await has a timeout, so every user goes on.
Fairness == WF_vars(Discover) /\ \A u \in Users : WF_vars(Progress(u))

Spec == Init /\ [][Next]_vars /\ Fairness
-----------------------------------------------------------------------------
TypeOK ==
  /\ app \in {"starting", "serving", "closing", "closed", "failed"}
  /\ at \in [Users -> {"new", "waiting", "connecting", "listing", "calling", "ended"}]
  /\ server \in [Users -> ServerSet] /\ tool \in [Calls -> Tools]
  /\ lock \in [ServerSet -> Users \cup {Nobody}]
  /\ session \in [ServerSet -> Users \cup {Nobody}]
  /\ tools \in [ServerSet -> (SUBSET Tools) \cup {None}]
  /\ open \subseteq Users \X ServerSet /\ stray \subseteq open
  /\ closing \subseteq Users \X ServerSet
  /\ \A u \in Users : Holds(u) <=> lock[server[u]] = u
  /\ registered \subseteq ServerSet \X Tools /\ asked \subseteq ServerSet \X Tools

\* A tool a server reports but the configuration does not list stays
\* unavailable, although a call caches every tool the server reports.
NothingUnlistedIsAsked == \A pair \in asked : pair[2] \in Allowed[pair[1]]

\* Calls that find no session at the same time open one: what is open and was
\* not cut off is the session of its server, or the holder of the lock is
\* connecting it, also when close takes the sessions away without the locks.
SessionsAreHeld ==
  \A x \in open \ stray :
    session[x[2]] = x[1] \/ (at[x[1]] = "connecting" /\ lock[x[2]] = x[1])

\* After close, only sessions are open that were cut off or would not close,
\* and what a call that outlives close opens anew.
CloseReachesAll == app = "closed" => \A x \in open \ stray : x[1] \in Untracked

\* No tool is asked for that the configuration does not list, what is open is
\* held, and close reaches all that it can.
SessionsKept == TypeOK /\ NothingUnlistedIsAsked /\ SessionsAreHeld /\ CloseReachesAll

\* Whatever a server does, a call ends and the start of the application too.
UserEnds == \A u \in Users : at[u] = "waiting" ~> at[u] \in {"new", "ended"}
=============================================================================
