------------------------------ MODULE MCProgress ------------------------------
(***************************************************************************)
(* What must eventually happen in SubagentRuns, ConversationTurns,         *)
(* ModelGateway, McpManager, ConversationStore, ConversationStream and     *)
(* TaskStream. They share no state: a behaviour is one of one component,   *)
(* while the others rest in an initial state, and each property assumes    *)
(* the fairness its own component states. The instances are smaller than   *)
(* those the safety runs use.                                              *)
(***************************************************************************)
EXTENDS Integers, Sequences, TLC

CONSTANTS r1, r2, c1, c2, t1, t2, a, d, docs, web, query, shell, gone, start, nobody,
          s1, s2, question, draft, answer

VARIABLES
  part,                                                          \* the component that runs
  chat, run, inbox, call, process, listed,                       \* SubagentRuns
  turn, handler, op, attempt, toolsUsed, messages, chats, runs,  \* ConversationTurns
  effects, broken, crashes, closes, faults,
  phase, value, waiters, tries, age, left, late, outcome,        \* ModelGateway
  app, at, server, tool, lock, session, tools, open, stray,      \* McpManager
  closing, registered, asked,
  file, cached, cache, flush, snapshot, writer, acked, deaths, failures, \* ConversationStore
  log, saved, view, shown, fetch, refresh, connected, after, lastId,     \* ConversationStream
  cursor, served, wire, stale, drops, loads, refreshes, cuts,
  timeline, ended, posted, load, reads, source, from, generator, \* TaskStream
  taskCursor, taskWire, activeTask, events, taskMessages, taskRefresh, taskDrops

childVars == <<chat, run, inbox, call, process, listed>>
turnVars == <<turn, handler, op, attempt, toolsUsed, messages, chats, runs,
              effects, broken, crashes, closes, faults>>
gatewayVars == <<phase, value, waiters, tries, age, left, late, outcome>>
mcpVars == <<app, at, server, tool, lock, session, tools, open, stray,
             closing, registered, asked>>
storeVars == <<file, cached, cache, flush, snapshot, writer, acked, deaths, failures>>
viewVars == <<log, saved, view, shown, fetch, refresh, connected, after, lastId,
              cursor, served, wire, stale, drops, loads, refreshes, cuts>>
taskVars == <<timeline, ended, posted, load, reads, source, from, generator,
              taskCursor, taskWire, activeTask, events, taskMessages, taskRefresh, taskDrops>>
vars == <<part, childVars, turnVars, gatewayVars, mcpVars, storeVars, viewVars, taskVars>>

Children == INSTANCE SubagentProperties WITH
  Runs <- {r1, r2}, Calls <- {c1}, Limits <- {1}, MaxContacts <- 1, MaxMail <- 0

Turn == INSTANCE ConversationTurns WITH
  Turns <- {t1, t2}, NeedsWorker <- {t1}, Executes <- FALSE, MaxAttempts <- 2,
  MaxCrashes <- 0, MaxCloses <- 1, MaxFaults <- 0,
  tools <- toolsUsed, process <- chats

Gateway == INSTANCE ModelGateway WITH
  Calls <- {a, d}, KindOf <- a :> "anthropic_structured" @@ d :> "openai_turn",
  Concurrency <- 1, Timeout <- 3, MaxRetries <- 2, Pauses <- <<1, 2>>, attempt <- tries

\* The first server lists a tool that is not allowed and lacks one that is.
Mcp == INSTANCE McpManager WITH
  Servers <- <<docs, web>>, Tools <- {query, shell, gone},
  Allowed <- docs :> {query, gone} @@ web :> {query, shell},
  Published <- docs :> {query, shell} @@ web :> {query, shell},
  Calls <- {c1, c2}, Untracked <- {c1, c2}, Discovery <- start, Nobody <- nobody

Store == INSTANCE ConversationStore WITH
  Sources <- {s1, s2}, MaxCrashes <- 1, MaxFailures <- 1,
  process <- writer, crashes <- deaths

View == INSTANCE ConversationStream WITH
  Sources <- {question, draft, answer},
  AnswerOf <- draft :> answer, GetLimit <- 2, PollLimit <- 2,
  MaxDrops <- 1, MaxLoads <- 1, MaxRefreshes <- 0, MaxCrashes <- 1,
  phase <- view, crashes <- cuts

Task == INSTANCE TaskStream WITH
  MaxEvents <- 3, MaxMessages <- 2, MaxDrops <- 1, messages <- taskMessages,
  cursor <- taskCursor, wire <- taskWire, refresh <- taskRefresh, drops <- taskDrops

ASSUME
  /\ Children!BoundsAssumption /\ Turn!BoundsAssumption
  /\ Gateway!CallsAssumption /\ Gateway!NumbersAssumption
  /\ Mcp!UsersAssumption /\ Mcp!ServersAssumption
  /\ Store!BoundsAssumption /\ View!BoundsAssumption /\ Task!BoundsAssumption

Init ==
  /\ part \in {"children", "turns", "gateway", "mcp", "store", "view", "task"}
  /\ Children!Init /\ Turn!Init /\ Gateway!Init /\ Mcp!Init
  /\ Store!Init /\ View!Init /\ Task!Init
  /\ chat   \* children of a chat, which have more to do than those of a task
  /\ part # "mcp" => tool = [c \in {c1, c2} |-> query]

\* The component that runs takes a step, all the others stay as they are.
Rests(variables) == UNCHANGED <<part, variables>>

Next ==
  \/ /\ part = "children" /\ Children!Next
     /\ Rests(<<turnVars, gatewayVars, mcpVars, storeVars, viewVars, taskVars>>)
  \/ /\ part = "turns" /\ Turn!Next
     /\ Rests(<<childVars, gatewayVars, mcpVars, storeVars, viewVars, taskVars>>)
  \/ /\ part = "gateway" /\ Gateway!Next
     /\ Rests(<<childVars, turnVars, mcpVars, storeVars, viewVars, taskVars>>)
  \/ /\ part = "mcp" /\ Mcp!Next
     /\ Rests(<<childVars, turnVars, gatewayVars, storeVars, viewVars, taskVars>>)
  \/ /\ part = "store" /\ Store!Next
     /\ Rests(<<childVars, turnVars, gatewayVars, mcpVars, viewVars, taskVars>>)
  \/ /\ part = "view" /\ View!Next
     /\ Rests(<<childVars, turnVars, gatewayVars, mcpVars, storeVars, taskVars>>)
  \/ /\ part = "task" /\ Task!Next
     /\ Rests(<<childVars, turnVars, gatewayVars, mcpVars, storeVars, viewVars>>)

Spec == Init /\ [][Next]_vars
-----------------------------------------------------------------------------
\* A cancelled child ends, an answer sets a child free again, a call comes back
\* unless a child waits for an answer, and close does too.
ChildrenGoOn ==
  (part = "children" /\ Children!Fairness) =>
    /\ Children!CancelTakesEffect /\ Children!AnswerResumes
    /\ Children!CallsReturn /\ Children!CloseEnds

\* A turn gets its outcome unless a shutdown cancels it.
TurnsSettle == (part = "turns" /\ Turn!Fairness) => Turn!TurnSettles

\* Every call of a model ends, also when the provider never answers.
ModelCallsEnd == (part = "gateway" /\ Gateway!Fairness) => Gateway!CallEnds

\* Every user of an MCP server ends, whatever the server does.
ToolCallsEnd == (part = "mcp" /\ Mcp!Fairness) => Mcp!UserEnds

\* The file catches up with the cache while the process runs, an open view comes
\* to show every message of the log, and the browser learns that its task ended.
BrowsersCatchUp ==
  /\ (part = "store" /\ Store!Fairness) => Store!CatchesUp
  /\ (part = "view" /\ View!Fairness) => View!EventuallyShown
  /\ (part = "task" /\ Task!Fairness) => Task!BrowserLearnsEnd
=============================================================================
