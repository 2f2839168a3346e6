-------------------------------- MODULE MCChats --------------------------------
(***************************************************************************)
(* Instances of ConversationTurns, ChatDrafts and ConversationHistory for  *)
(* TLC. The three share no state: a behaviour is one of one component,     *)
(* while the others rest in an initial state, so TLC visits the sum of     *)
(* their states.                                                           *)
(*                                                                         *)
(* What a draft says: letters as themselves or escaped, a line feed and a  *)
(* quote only escaped.                                                     *)
(***************************************************************************)
EXTENDS Chats, Sequences, TLC

VARIABLE part  \* the component that runs

turnVars == <<turn, handler, op, attempt, tools, messages, process,
              runs, effects, broken, crashes, closes, faults>>
draftVars == <<raw, pending, current, said, phase, published, due, restarts>>
historyVars == <<log, begun>>
vars == <<part, turnVars, draftVars, historyVars>>

Unicode(a, b, c, d) == <<"slash", "u", a, b, c, d>>

SomeTokens ==
  {[chars |-> <<"A">>, symbols |-> <<"A">>],
   [chars |-> <<"A">>, symbols |-> Unicode("0", "0", "4", "1")],
   [chars |-> <<"linefeed">>, symbols |-> <<"slash", "n">>],
   [chars |-> <<"doublequote">>, symbols |-> <<"slash", "quote">>]}

SomeHexValue == <<"0", "0", "4", "1">> :> "A"

SomeEscapes == "n" :> "linefeed" @@ "quote" :> "doublequote"

ASSUME
  /\ Chat!BoundsAssumption /\ History!NumbersAssumption
  /\ Drafts!BoundsAssumption /\ Drafts!EncodingAssumption

Init ==
  /\ part \in {"turns", "drafts", "history"}
  /\ Chat!Init /\ Drafts!Init /\ History!Init

Next ==
  \/ part = "turns" /\ Chat!Next /\ UNCHANGED <<part, draftVars, historyVars>>
  \/ part = "drafts" /\ Drafts!Next /\ UNCHANGED <<part, turnVars, historyVars>>
  \/ part = "history" /\ History!Next /\ UNCHANGED <<part, turnVars, draftVars>>

Spec == Init /\ [][Next]_vars
=============================================================================
