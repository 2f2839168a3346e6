------------------------------ MODULE ChatDrafts ------------------------------
(***************************************************************************)
(* The drafts of one chat answer: _streaming_json_text and                 *)
(* _ChatStreamPublisher of orchestrator/coordinator.py, fed by a gateway   *)
(* that may break off a response and start it again.                       *)
(*                                                                         *)
(* The model says characters; each reaches the stream as the symbols of    *)
(* one of its JSON encodings, broken anywhere into deltas. "key" stands    *)
(* for the six characters "text" with their quotes.                        *)
(***************************************************************************)
EXTENDS Integers, Sequences, SequencesExt, FiniteSetsExt

CONSTANTS
  Tokens,       \* [chars, symbols]: what is said and how it is encoded
  HexValue,     \* [four digits -> the character chr gives for them]
  Escapes,      \* [symbol after a backslash -> character], of escapes
  MaxRaw,       \* bound: symbols streamed
  MaxRestarts   \* bound: responses that break off

BoundsAssumption == MaxRaw \in Nat /\ MaxRestarts \in Nat

VARIABLES
  raw,        \* _raw: every symbol of every response
  pending,    \* symbols of the current token that are still to come
  current,    \* the characters the current token says
  said,       \* characters this response has said
  phase,      \* "saying", "closed" (the value's quote is written), "done"
  published,  \* _published
  due,        \* 0.08 s have passed since _last_publish
  restarts

vars == <<raw, pending, current, said, phase, published, due, restarts>>
-----------------------------------------------------------------------------
Header == <<"open", "key", "colon", "quote">>

\* str.find: the first place of a symbol from one on, 0 when there is none.
Find(text, symbol, from) ==
  LET places == {i \in from .. Len(text) : text[i] = symbol}
  IN  IF places = {} THEN 0 ELSE Min(places)

Unescaped(symbol) == IF symbol \in DOMAIN Escapes THEN Escapes[symbol] ELSE symbol

\* A character is written as itself, with its escape or with its four digits.
EncodingAssumption ==
  /\ Tokens \subseteq [chars : Seq(STRING), symbols : Seq(STRING)]
  /\ \A digits \in DOMAIN HexValue : HexValue[digits] \in STRING
  /\ \A symbol \in DOMAIN Escapes : Escapes[symbol] \in STRING
  /\ \A token \in Tokens :
       LET symbols == token.symbols
           digits == SubSeq(symbols, 3, 6)
       IN  \/ /\ Len(symbols) = 1 /\ symbols[1] \notin {"quote", "key", "slash"}
              /\ token.chars = symbols
           \/ /\ Len(symbols) = 2 /\ symbols[1] = "slash" /\ symbols[2] # "u"
              /\ token.chars = <<Unescaped(symbols[2])>>
           \/ /\ Len(symbols) = 6 /\ symbols[1] = "slash" /\ symbols[2] = "u"
              /\ digits \in DOMAIN HexValue /\ token.chars = <<HexValue[digits]>>

Stop == [char |-> "", width |-> 0]

\* A round of the loop of _streaming_json_text: the character it reads and from
\* how many symbols; none at the closing quote or an escape that is not complete.
Read(text, i) ==
  IF i > Len(text) \/ text[i] \in {"quote", "key"} THEN Stop
  ELSE IF text[i] # "slash" THEN [char |-> text[i], width |-> 1]
  ELSE IF i + 1 > Len(text) THEN Stop
  ELSE IF text[i + 1] # "u" THEN [char |-> Unescaped(text[i + 1]), width |-> 2]
  ELSE LET digits == SubSeq(text, i + 2, i + 5)
       IN  IF i + 5 <= Len(text) /\ digits \in DOMAIN HexValue
             THEN [char |-> HexValue[digits], width |-> 6] ELSE Stop

Unquoted(text, from) ==
  LET read[i \in Nat] ==
        LET round == Read(text, i)
        IN  IF round.width = 0 THEN <<>> ELSE <<round.char>> \o read[i + round.width]
  IN  read[from]

\* Mutant of Visible: the last key of the stream.
VisibleOfLast(text) ==
  LET key == Max({i \in DOMAIN text : text[i] = "key"} \cup {0})
      colon == IF key = 0 THEN 0 ELSE Find(text, "colon", key + 1)
      quote == IF colon = 0 THEN 0 ELSE Find(text, "quote", colon + 1)
  IN  IF quote = 0 THEN <<>> ELSE Unquoted(text, quote + 1)

\* _streaming_json_text.
Visible(text) ==
  LET key == Find(text, "key", 1)
      colon == IF key = 0 THEN 0 ELSE Find(text, "colon", key + 1)
      quote == IF colon = 0 THEN 0 ELSE Find(text, "quote", colon + 1)
  IN  IF quote = 0 THEN <<>> ELSE Unquoted(text, quote + 1)

\* flush: a draft is published when there is something new and, unless it is
\* forced, the last one is old enough.
Flush(text, force) ==
  LET visible == Visible(text)
  IN  IF visible \in {<<>>, published} \/ ~(force \/ due)
        THEN UNCHANGED <<published, due>>
        ELSE published' = visible /\ due' = FALSE
-----------------------------------------------------------------------------
Init ==
  /\ raw = <<>> /\ pending = Header /\ current = <<>> /\ said = <<>> /\ phase = "saying"
  /\ published = <<>> /\ due = TRUE /\ restarts = 0

Say(token) ==
  /\ phase = "saying" /\ pending = <<>>
  /\ Len(raw) + Len(token.symbols) <= MaxRaw
  /\ pending' = token.symbols /\ current' = token.chars
  /\ UNCHANGED <<raw, said, phase, published, due, restarts>>

Close ==
  /\ phase = "saying" /\ pending = <<>>
  /\ phase' = "closed" /\ pending' = <<"quote", "brace">>
  /\ UNCHANGED <<raw, current, said, published, due, restarts>>

\* handle: a text_delta with some of what is pending.
Delta(n) ==
  /\ phase # "done" /\ n <= Len(pending)
  /\ raw' = raw \o SubSeq(pending, 1, n)
  /\ pending' = SubSeq(pending, n + 1, Len(pending))
  /\ IF n = Len(pending) THEN said' = said \o current /\ current' = <<>>
                         ELSE UNCHANGED <<said, current>>
  /\ Flush(raw', FALSE)
  /\ UNCHANGED <<phase, restarts>>

TimePasses ==
  /\ ~due /\ phase # "done"
  /\ due' = TRUE
  /\ UNCHANGED <<raw, pending, current, said, phase, published, restarts>>

\* The gateway tries again: its new response goes to the same publisher.
Restart ==
  /\ phase # "done" /\ restarts < MaxRestarts
  /\ restarts' = restarts + 1
  /\ pending' = Header /\ current' = <<>> /\ said' = <<>> /\ phase' = "saying"
  /\ UNCHANGED <<raw, published, due>>

\* Mutant of Finish: the last draft is left to the throttle.
FinishUnforced ==
  /\ phase = "closed" /\ pending = <<>>
  /\ phase' = "done"
  /\ Flush(raw, FALSE)
  /\ UNCHANGED <<raw, pending, current, said, restarts>>

\* The prompt has returned.
Finish ==
  /\ phase = "closed" /\ pending = <<>>
  /\ phase' = "done"
  /\ Flush(raw, TRUE)
  /\ UNCHANGED <<raw, pending, current, said, restarts>>

Next ==
  \/ \E token \in Tokens : Say(token)
  \/ \E n \in 1 .. 6 : Delta(n)
  \/ Close \/ TimePasses \/ Restart \/ Finish

Spec == Init /\ [][Next]_vars
-----------------------------------------------------------------------------
Symbols == {"open", "key", "colon", "quote", "brace"} \cup UNION {ToSet(t.symbols) : t \in Tokens}

TypeOK ==
  /\ raw \in Seq(Symbols) /\ pending \in Seq(Symbols)
  /\ phase \in {"saying", "closed", "done"}
  /\ due \in BOOLEAN /\ restarts \in 0 .. MaxRestarts
  /\ (published = <<>> => due)

\* A draft only adds to the draft before it, wherever the deltas break and
\* even when the response starts again.
DraftsGrow == [][IsPrefix(published, published')]_vars

\* What is shown of a response that did not break off is what it said so far,
\* and all of it in the end.
DraftIsSaid ==
  restarts = 0 =>
    /\ IsPrefix(published, said)
    /\ (phase = "done" => published = said)
=============================================================================
