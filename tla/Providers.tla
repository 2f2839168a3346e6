--------------------------------- MODULE Providers ----------------------------
(***************************************************************************)
(* The providers of models and tools: OpenAITurn, ModelGateway and         *)
(* McpManager side by side, and what is to hold of them. MCProviders gives *)
(* the constants values, ProviderProofs leaves them open.                  *)
(***************************************************************************)
EXTENDS Integers, Sequences, FiniteSets

CONSTANTS
  ToolLists, Alias, Strange, MaxCalls, Pieces,                  \* OpenAITurn
  Asked, KindOf, Concurrency, Timeout, MaxRetries, Pauses,      \* ModelGateway
  Servers, Tools, Allowed, Published, Calls, Untracked, Discovery, Nobody \* McpManager

VARIABLES
  stage, turnTools, offered, mapping, said, sent, merged, finish, calls, \* OpenAITurn
  phase, value, waiters, attempt, age, left, late, outcome,              \* ModelGateway
  app, at, server, tool, lock, session, tools, open, stray,              \* McpManager
  closing, registered, asked

Turn == INSTANCE OpenAITurn WITH tools <- turnTools

Gateway == INSTANCE ModelGateway WITH Calls <- Asked

Mcp == INSTANCE McpManager
-----------------------------------------------------------------------------
\* Every way out of a request gives its place back, a request ends within the
\* time of its call, which begins one late request at most, and a call gives up
\* on an error that may pass only when its retries or its time are used up.
PlacesAndTimesKept == Gateway!PlacesAndTimesKept

\* However its parts arrive, a turn has the calls the response made, none that
\* was cut off can run, and two tools never share a provider name.
TurnsAsSaid == Turn!TurnsAsSaid

\* No tool is asked for that the configuration does not list, what is open is
\* held, and close reaches all that it can.
SessionsKept == Mcp!SessionsKept
=============================================================================
