-------------------------- MODULE ConversationHistory --------------------------
(***************************************************************************)
(* The history an agent is given of its conversation:                      *)
(* relevant_history_before_turn, relevant_history and                      *)
(* build_relevant_history of services/conversation.py, of every            *)
(* conversation that chats may write.                                      *)
(***************************************************************************)
EXTENDS Integers, Sequences, FiniteSets, SequencesExt, FiniteSetsExt

CONSTANTS
  Lengths,     \* lengths a text may have; 0 is one of blanks
  Turns,       \* turns of the conversation
  Window,      \* messages looked at, 24 in the code
  MaxMessages, \* messages given, 12
  MaxText,     \* characters of one message, 8000
  MaxTotal,    \* characters of all of them, 24000
  MaxLog       \* bound: messages of the conversation

NumbersAssumption ==
  /\ Lengths \subseteq Nat
  /\ {Window, MaxMessages, MaxText, MaxTotal, MaxLog} \subseteq Nat \ {0}

VARIABLES
  log,   \* the messages; the id of one is its place
  begun  \* turns that have their user message

vars == <<log, begun>>

Spoken == {"user_message", "agent_message"}
Least(a, b) == IF a < b THEN a ELSE b
-----------------------------------------------------------------------------
Init == log = <<>> /\ begun = {}

Add(type, turn, length) ==
  /\ Len(log) < MaxLog
  /\ log' = Append(log, [type |-> type, turn |-> turn, length |-> length])

\* create_turn writes the message of the user.
Begin(turn, length) ==
  /\ turn \notin begun /\ length > 0
  /\ begun' = begun \cup {turn}
  /\ Add("user_message", turn, length)

\* A chat writes drafts and its message, of its own turn.
Speak(turn, type, length) ==
  /\ turn \in begun
  /\ Add(type, turn, length)
  /\ UNCHANGED begun

Next ==
  \/ \E turn \in Turns, length \in Lengths : Begin(turn, length)
  \/ \E turn \in Turns, length \in Lengths : Speak(turn, "agent_message", length)
  \/ \E turn \in Turns : Speak(turn, "agent_delta", 1)

Spec == Init /\ [][Next]_vars
-----------------------------------------------------------------------------
\* Mutant of Before: the messages of the turn itself are in.
BeforeNothing(turn) == {i \in DOMAIN log : log[i].type \in Spoken}

\* The messages before those the user wrote for the turn.
Before(turn) ==
  LET current == {i \in DOMAIN log : log[i].turn = turn /\ log[i].type = "user_message"}
  IN  IF current = {} THEN {} ELSE {i \in DOMAIN log : i < Min(current) /\ log[i].type \in Spoken}

\* The newest of them: sorted by id, newest first, and cut.
Newest(turn) ==
  {i \in Before(turn) : Cardinality({j \in Before(turn) : j >= i}) <= Window}

\* The characters selected.
Total(selected) ==
  LET sum[k \in 0 .. Len(selected)] == IF k = 0 THEN 0 ELSE sum[k - 1] + selected[k].length
  IN  sum[Len(selected)]

\* Mutant of Full: the last place is left free.
FullEarly(selected) == Len(selected) + 1 >= MaxMessages \/ Total(selected) >= MaxTotal

Full(selected) == Len(selected) >= MaxMessages \/ Total(selected) >= MaxTotal

\* Mutant of Take: a text that does not fit is skipped.
TakeFitting(selected, i) ==
  IF Full(selected) \/ log[i].length = 0 \/ Total(selected) + Least(log[i].length, MaxText) > MaxTotal
    THEN selected
    ELSE Append(selected, [id |-> i, length |-> Least(log[i].length, MaxText)])

\* One round of the loop: blank texts are skipped, a long one is cut twice.
Take(selected, i) ==
  IF Full(selected) \/ log[i].length = 0 THEN selected
  ELSE Append(selected, [id |-> i, length |-> Least(Least(log[i].length, MaxText), MaxTotal - Total(selected))])

\* What the loop has selected when it has been past the messages from place
\* Len(log) + 1 - n on, the newest of the log first.
Selected(turn) ==
  LET loop[n \in 0 .. Len(log)] ==
        IF n = 0 THEN <<>>
        ELSE LET i == Len(log) + 1 - n
             IN  IF i \in Newest(turn) THEN Take(loop[n - 1], i) ELSE loop[n - 1]
  IN  loop

History(turn) == Reverse(Selected(turn)[Len(log)])
-----------------------------------------------------------------------------
TypeOK ==
  /\ log \in Seq([type : Spoken \cup {"agent_delta"}, turn : Turns, length : Lengths \cup {1}])
  /\ Len(log) <= MaxLog /\ begun \subseteq Turns
  /\ \A turn \in Turns : History(turn) \in Seq([id : 1 .. MaxLog, length : 1 .. MaxText])

\* What an agent is given fits, and none of it is the turn's own or later.
HistoryFits ==
  \A turn \in begun :
    LET given == History(turn) IN
    /\ Len(given) <= MaxMessages /\ Total(given) <= MaxTotal
    /\ \A k \in DOMAIN given :
         \A i \in DOMAIN log : log[i].turn = turn /\ log[i].type = "user_message" => given[k].id < i

\* It is in the order of the conversation and has no holes: between its first
\* message and the turn, everything that was said is in it, and only the
\* first is cut for want of room.
HistoryHasNoHoles ==
  \A turn \in begun :
    LET given == History(turn)
        ids == {given[k].id : k \in DOMAIN given}
    IN  /\ \A k \in 2 .. Len(given) :
             /\ given[k - 1].id < given[k].id
             /\ given[k].length = Least(log[given[k].id].length, MaxText)
        /\ ids # {} => \A i \in Before(turn) : i > Min(ids) /\ log[i].length > 0 => i \in ids

\* It leaves out what was said only when one of the limits is reached.
HistoryIsFull ==
  \A turn \in begun :
    LET given == History(turn)
        lost == {i \in Before(turn) : log[i].length > 0 /\ \A k \in DOMAIN given : given[k].id # i}
    IN  lost # {} => \/ Len(given) = MaxMessages
                   \/ Total(given) = MaxTotal
                   \/ Cardinality(Before(turn)) > Window
=============================================================================
