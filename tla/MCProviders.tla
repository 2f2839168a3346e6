------------------------------ MODULE MCProviders ------------------------------
(***************************************************************************)
(* Instances of ModelGateway, OpenAITurn and McpManager for TLC. The three *)
(* share no state: a behaviour is one of one component, while the others   *)
(* rest in an initial state, so TLC visits the sum of their states.        *)
(***************************************************************************)
EXTENDS Providers, TLC

CONSTANTS a, b, d, docs, web, query, shell, gone

VARIABLE part   \* the component that runs

gatewayVars == <<phase, value, waiters, attempt, age, left, late, outcome>>
turnVars == <<stage, turnTools, offered, mapping, said, sent, merged, finish, calls>>
mcpVars == <<app, at, server, tool, lock, session, tools, open, stray,
             closing, registered, asked>>
vars == <<part, gatewayVars, turnVars, mcpVars>>

\* A call of each kind, two at a time.
Kinds == a :> "anthropic_stream" @@ b :> "openai_turn" @@ d :> "openai_structured"
OneThenTwo == <<1, 2>>

\* Of the three names two have the same provider name, and one list gives a
\* name twice.
Aliases == "read" :> "p_read" @@ "write" :> "p_write" @@ "wri.te" :> "p_write"
Lists == {<<>>, <<"read">>, <<"read", "write">>, <<"write", "wri.te">>, <<"read", "read">>}

\* The first server lists a tool that is not allowed and lacks one that is; the
\* second publishes what its configuration allows.
DocsAndWeb == <<docs, web>>
Configured == docs :> {query, gone} @@ web :> {query, shell}
Listed == docs :> {query, shell} @@ web :> {query, shell}

ASSUME
  /\ Gateway!CallsAssumption /\ Gateway!NumbersAssumption /\ Turn!BoundsAssumption
  /\ Turn!NamesAssumption
  /\ Mcp!UsersAssumption /\ Mcp!ServersAssumption

Init ==
  /\ part \in {"gateway", "turn", "mcp"}
  /\ Gateway!Init /\ Turn!Init /\ Mcp!Init
  /\ part # "turn" => turnTools = <<>>
  /\ part # "mcp" => tool = [c \in Calls |-> query]

Next ==
  \/ part = "gateway" /\ Gateway!Next /\ UNCHANGED <<part, turnVars, mcpVars>>
  \/ part = "turn" /\ Turn!Next /\ UNCHANGED <<part, gatewayVars, mcpVars>>
  \/ part = "mcp" /\ Mcp!Next /\ UNCHANGED <<part, gatewayVars, turnVars>>

Spec == Init /\ [][Next]_vars
=============================================================================
