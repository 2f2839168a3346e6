------------------------------ MODULE OpenAITurn ------------------------------
(***************************************************************************)
(* One streamed turn of OpenAIModelProvider (harness/openai_gateway.py):   *)
(* the tools are offered under names the provider allows, the response     *)
(* comes in chunks that carry parts of several tool calls, and the turn is *)
(* put together from them.                                                 *)
(*                                                                         *)
(* A call says its name and then the pieces of its arguments; only all of  *)
(* them together are a JSON object.                                        *)
(***************************************************************************)
EXTENDS Integers, Sequences, FiniteSets, SequencesExt

CONSTANTS
  ToolLists,  \* sequences of tool names the loop may offer
  Alias,      \* [name -> provider name], _provider_tool_name
  Strange,    \* a provider name that was not offered
  MaxCalls,   \* bound: tool calls of the response
  Pieces      \* pieces the arguments of a call are sent in

BoundsAssumption == MaxCalls \in Nat /\ Pieces \in Nat \ {0}

VARIABLES
  stage,    \* "offering", "streaming", "done", "failed"
  tools,    \* the tools of the request
  offered,  \* tools looked at so far
  mapping,  \* [provider name -> name], of the tools looked at
  said,     \* provider name of each call the response makes
  sent,     \* parts of each call that were sent, its name is the first
  merged,   \* tool_calls: [index -> id, name, arguments]
  finish,   \* finish_reason
  calls     \* the ToolCalls of the turn

vars == <<stage, tools, offered, mapping, said, sent, merged, finish, calls>>

Names == UNION {ToSet(list) : list \in ToolLists}
ProviderNames == {Alias[n] : n \in Names} \cup {Strange}

\* A name is never empty: an empty one stands for none in a part of a call.
NamesAssumption == ToolLists \subseteq Seq(Names) /\ "" \notin ProviderNames
Parts == 1 + Pieces
Whole(i) == sent[i] = Parts
Cut == \E i \in DOMAIN said : ~Whole(i)
-----------------------------------------------------------------------------
Init ==
  /\ stage = "offering" /\ tools \in ToolLists /\ offered = 0 /\ mapping = <<>>
  /\ said = <<>> /\ sent = <<>> /\ merged = <<>> /\ finish = "none" /\ calls = <<>>

Refuse ==
  /\ stage' = "failed"
  /\ UNCHANGED <<tools, offered, mapping, said, sent, merged, finish, calls>>

\* Mutant of Offer: a provider name that is taken goes to the later tool.
OfferOver ==
  /\ stage = "offering" /\ offered < Len(tools)
  /\ LET name == tools[offered + 1]
     IN  IF name \in {mapping[p] : p \in DOMAIN mapping} THEN Refuse
         ELSE /\ offered' = offered + 1
              /\ mapping' = [p \in DOMAIN mapping \cup {Alias[name]} |->
                               IF p = Alias[name] THEN name ELSE mapping[p]]
              /\ UNCHANGED <<stage, tools, said, sent, merged, finish, calls>>

\* The loop over the tools: a name given twice and a provider name that is
\* taken are refused.
Offer ==
  /\ stage = "offering" /\ offered < Len(tools)
  /\ LET name == tools[offered + 1]
     IN  IF name \in {mapping[p] : p \in DOMAIN mapping} \/ Alias[name] \in DOMAIN mapping
           THEN Refuse
           ELSE /\ offered' = offered + 1
                /\ mapping' = [p \in DOMAIN mapping \cup {Alias[name]} |->
                                 IF p = Alias[name] THEN name ELSE mapping[p]]
                /\ UNCHANGED <<stage, tools, said, sent, merged, finish, calls>>

Request ==
  /\ stage = "offering" /\ offered = Len(tools)
  /\ stage' = "streaming"
  /\ UNCHANGED <<tools, offered, mapping, said, sent, merged, finish, calls>>

\* A part of call i arrives: the entry of its index takes the name and gets the
\* arguments appended.
Merge(i, name, arguments) ==
  LET entry == IF i \in DOMAIN merged THEN merged[i] ELSE [name |-> "", arguments |-> 0]
  IN  [j \in DOMAIN merged \cup {i} |->
         IF j = i THEN [name |-> IF name = "" THEN entry.name ELSE name,
                        arguments |-> entry.arguments + arguments]
         ELSE merged[j]]

BeginCall(p) ==
  /\ stage = "streaming" /\ finish = "none" /\ Len(said) < MaxCalls
  /\ said' = Append(said, p) /\ sent' = Append(sent, 1)
  /\ merged' = Merge(Len(said) + 1, p, 0)
  /\ UNCHANGED <<stage, tools, offered, mapping, finish, calls>>

SendPiece(i) ==
  /\ stage = "streaming" /\ finish = "none" /\ ~Whole(i)
  /\ sent' = [sent EXCEPT ![i] = @ + 1]
  /\ merged' = Merge(i, "", 1)
  /\ UNCHANGED <<stage, tools, offered, mapping, said, finish, calls>>

\* The chunk with the finish reason.
Finish(reason) ==
  /\ stage = "streaming" /\ finish = "none"
  /\ (reason \in {"stop", "tool_calls"} => ~Cut) /\ (reason = "stop" => said = <<>>)
  /\ finish' = reason
  /\ UNCHANGED <<stage, tools, offered, mapping, said, sent, merged, calls>>

\* Mutant of ToolCall: arguments that are no JSON are none at all.
ToolCallLoose(entry) ==
  [name |-> IF entry.name \in DOMAIN mapping THEN mapping[entry.name] ELSE entry.name,
   known |-> entry.name \in DOMAIN mapping,
   arguments |-> IF entry.arguments > 0 THEN "object" ELSE "none"]

\* Mutant of ToolCall: a name that was not offered is taken as it is.
ToolCallTrusting(entry) ==
  [name |-> IF entry.name \in DOMAIN mapping THEN mapping[entry.name] ELSE entry.name,
   known |-> TRUE,
   arguments |-> IF entry.arguments = Pieces THEN "object" ELSE "none"]

\* turn: one merged call becomes a ToolCall.
ToolCall(entry) ==
  [name |-> IF entry.name \in DOMAIN mapping THEN mapping[entry.name] ELSE entry.name,
   known |-> entry.name \in DOMAIN mapping,
   arguments |-> IF entry.arguments = Pieces THEN "object" ELSE "none"]

\* The stream is over, with a finish reason or without: then the reason is made
\* up from the calls. model_turn refuses some, turn builds the rest.
End ==
  /\ stage = "streaming"
  /\ LET reason == IF finish # "none" THEN finish ELSE IF merged # <<>> THEN "tool_calls" ELSE "stop"
     IN  IF reason \notin {"stop", "tool_calls"} \/ (reason = "tool_calls" /\ merged = <<>>)
           THEN Refuse
           ELSE /\ stage' = "done"
                /\ calls' = [i \in 1 .. Len(merged) |-> ToolCall(merged[i])]
                /\ UNCHANGED <<tools, offered, mapping, said, sent, merged, finish>>

\* The connection is lost with an error.
Lose == stage = "streaming" /\ Refuse

Next ==
  \/ Offer \/ Request
  \/ \E p \in ProviderNames : BeginCall(p)
  \/ \E i \in DOMAIN said : SendPiece(i)
  \/ \E reason \in {"stop", "tool_calls", "length"} : Finish(reason)
  \/ End \/ Lose

Spec == Init /\ [][Next]_vars
-----------------------------------------------------------------------------
TypeOK ==
  /\ stage \in {"offering", "streaming", "done", "failed"}
  /\ tools \in ToolLists /\ offered \in 0 .. Len(tools)
  /\ DOMAIN mapping \subseteq {Alias[n] : n \in Names}
  /\ \A p \in DOMAIN mapping : mapping[p] \in Names
  /\ said \in Seq(ProviderNames) /\ sent \in Seq(1 .. Parts) /\ Len(said) = Len(sent)
  /\ merged \in Seq([name : ProviderNames, arguments : 0 .. Pieces])
  /\ finish \in {"none", "stop", "tool_calls", "length"}
  /\ calls \in Seq([name : Names \cup ProviderNames, known : BOOLEAN, arguments : {"object", "none"}])

\* Whatever the order in which the parts of several calls arrive, a turn has
\* the calls the response made, in their order, under the names of the tools.
CallsAsSaid ==
  stage = "done" =>
    /\ Len(calls) = Len(said)
    /\ \A i \in DOMAIN calls :
         /\ calls[i].known <=> \E n \in ToSet(tools) : Alias[n] = said[i]
         /\ calls[i].known => calls[i].name \in ToSet(tools) /\ Alias[calls[i].name] = said[i]
         /\ Whole(i) => calls[i].arguments = "object"

\* A stream that stops early leaves no call that can be run on a part of its
\* arguments.
CutCallsDoNotRun ==
  stage = "done" => \A i \in DOMAIN calls : ~Whole(i) => calls[i].arguments = "none"

\* What the model calls is what one tool was offered as: two tools never share
\* a provider name.
OneToolPerName ==
  stage \in {"streaming", "done"} =>
    \A i, j \in DOMAIN tools : Alias[tools[i]] = Alias[tools[j]] => i = j

\* However its parts arrive, a turn has the calls the response made, none that
\* was cut off can run, and two tools never share a provider name.
TurnsAsSaid == TypeOK /\ CallsAsSaid /\ CutCallsDoNotRun /\ OneToolPerName
=============================================================================
