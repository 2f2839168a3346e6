---------------------------- MODULE ProviderProofs ----------------------------
(***************************************************************************)
(* What holds of the providers whatever their number, limits and answers:  *)
(* OpenAITurn, ModelGateway and McpManager.                                *)
(***************************************************************************)
EXTENDS Providers, FiniteSetTheorems, SequenceTheorems, WellFoundedInduction, TLAPS
-----------------------------------------------------------------------------
(* A turn. The names offered so far are those of different tools, and what *)
(* has been merged of a call is what has been sent of it.                  *)

Entry == [name : Turn!ProviderNames, arguments : 0 .. Pieces]
Call == [name : Turn!Names \cup Turn!ProviderNames, known : BOOLEAN,
         arguments : {"object", "none"}]

\* The tools looked at, each under its provider name.
NamesAreOffered ==
  /\ DOMAIN mapping = {Alias[turnTools[k]] : k \in 1 .. offered}
  /\ \A k \in 1 .. offered : mapping[Alias[turnTools[k]]] = turnTools[k]
  /\ \A j, k \in 1 .. offered : Alias[turnTools[j]] = Alias[turnTools[k]] => j = k
  /\ stage \in {"streaming", "done"} => offered = Len(turnTools)

MergedIsSent ==
  /\ Len(merged) = Len(said)
  /\ \A i \in 1 .. Len(said) : merged[i].name = said[i] /\ merged[i].arguments = sent[i] - 1

Built ==
  stage = "done" =>
    Len(calls) = Len(merged) /\ \A i \in 1 .. Len(merged) : calls[i] = Turn!ToolCall(merged[i])

TurnInv == Turn!TypeOK /\ NamesAreOffered /\ MergedIsSent /\ Built

LEMMA TurnTypes ==
  ASSUME Turn!BoundsAssumption, Turn!NamesAssumption, TurnInv
  PROVE  /\ turnTools \in Seq(Turn!Names) /\ Len(turnTools) \in Nat /\ offered \in 0 .. Len(turnTools)
         /\ DOMAIN turnTools = 1 .. Len(turnTools)
         /\ said \in Seq(Turn!ProviderNames) /\ sent \in Seq(1 .. Pieces + 1) /\ merged \in Seq(Entry)
         /\ calls \in Seq(Call) /\ Pieces \in Nat \ {0}
         /\ Len(said) \in Nat /\ Len(sent) = Len(said) /\ Len(merged) = Len(said)
         /\ DOMAIN said = 1 .. Len(said) /\ DOMAIN sent = 1 .. Len(said) /\ DOMAIN merged = 1 .. Len(said)
<1>1. turnTools \in Seq(Turn!Names) /\ offered \in 0 .. Len(turnTools)
  BY DEF TurnInv, Turn!TypeOK, Turn!NamesAssumption
<1>2. Pieces \in Nat \ {0} /\ Turn!Parts = Pieces + 1
  BY DEF Turn!BoundsAssumption, Turn!Parts
<1>3. said \in Seq(Turn!ProviderNames) /\ sent \in Seq(1 .. Pieces + 1) /\ Len(sent) = Len(said)
  BY <1>2 DEF TurnInv, Turn!TypeOK
<1>4. merged \in Seq(Entry) /\ calls \in Seq(Call) /\ Len(merged) = Len(said)
  BY DEF TurnInv, Turn!TypeOK, Entry, Call, MergedIsSent
<1>5. QED BY <1>1, <1>2, <1>3, <1>4

LEMMA TurnInit ==
  ASSUME Turn!BoundsAssumption, Turn!NamesAssumption, Turn!Init
  PROVE  TurnInv
<1>1. /\ stage = "offering" /\ turnTools \in ToolLists /\ offered = 0 /\ mapping = <<>>
      /\ said = <<>> /\ sent = <<>> /\ merged = <<>> /\ finish = "none" /\ calls = <<>>
  BY DEF Turn!Init
<1>2. /\ turnTools \in Seq(Turn!Names) /\ Len(turnTools) \in Nat /\ DOMAIN mapping = {}
      /\ Len(said) = 0 /\ Len(sent) = 0 /\ Len(merged) = 0
  <2>1. turnTools \in Seq(Turn!Names)
    BY <1>1 DEF Turn!NamesAssumption
  <2>2. DOMAIN mapping = {} /\ Len(said) = 0 /\ Len(sent) = 0 /\ Len(merged) = 0
    BY <1>1
  <2>3. QED BY <2>1, <2>2
<1>3. /\ said \in Seq(Turn!ProviderNames) /\ sent \in Seq(1 .. Turn!Parts)
      /\ merged \in Seq([name : Turn!ProviderNames, arguments : 0 .. Pieces])
      /\ calls \in Seq([name : Turn!Names \cup Turn!ProviderNames, known : BOOLEAN,
                        arguments : {"object", "none"}])
  BY <1>1
<1>4. Turn!TypeOK
  BY <1>1, <1>2, <1>3 DEF Turn!TypeOK
<1>5. NamesAreOffered
  BY <1>1, <1>2 DEF NamesAreOffered
<1>6. MergedIsSent /\ Built
  BY <1>1, <1>2 DEF MergedIsSent, Built
<1>7. QED BY <1>4, <1>5, <1>6 DEF TurnInv

\* A turn that is refused keeps what it has.
LEMMA RefusesKeep ==
  ASSUME TurnInv, Turn!Refuse
  PROVE  TurnInv'
<1>1. /\ stage' = "failed"
      /\ UNCHANGED <<turnTools, offered, mapping, said, sent, merged, finish, calls>>
  BY DEF Turn!Refuse
<1>2. Turn!TypeOK'
  BY <1>1 DEF TurnInv, Turn!TypeOK
<1>3. NamesAreOffered' /\ MergedIsSent' /\ Built'
  BY <1>1 DEF TurnInv, NamesAreOffered, MergedIsSent, Built
<1>4. QED BY <1>2, <1>3 DEF TurnInv

LEMMA OfferKeeps ==
  ASSUME Turn!BoundsAssumption, Turn!NamesAssumption, TurnInv, Turn!Offer
  PROVE  TurnInv'
<1>1. stage = "offering" /\ offered < Len(turnTools)
  BY DEF Turn!Offer
<1>2. PICK name : name = turnTools[offered + 1]
  OBVIOUS
<1>3. CASE name \in {mapping[p] : p \in DOMAIN mapping} \/ Alias[name] \in DOMAIN mapping
  <2>1. Turn!Refuse
    BY <1>2, <1>3 DEF Turn!Offer
  <2>2. QED BY <2>1, RefusesKeep
<1>4. CASE ~(name \in {mapping[p] : p \in DOMAIN mapping} \/ Alias[name] \in DOMAIN mapping)
  <2>1. /\ offered' = offered + 1
        /\ mapping' = [p \in DOMAIN mapping \cup {Alias[name]} |->
                         IF p = Alias[name] THEN name ELSE mapping[p]]
        /\ UNCHANGED <<stage, turnTools, said, sent, merged, finish, calls>>
    BY <1>2, <1>4 DEF Turn!Offer
  <2>2. PICK n \in Nat : n = offered
    BY TurnTypes
  <2>3. n + 1 \in 1 .. Len(turnTools) /\ name = turnTools[n + 1] /\ name \in Turn!Names
        /\ \A k \in 1 .. n : turnTools[k] \in Turn!Names
    BY <1>1, <1>2, <2>2, TurnTypes
  <2>4. /\ DOMAIN mapping = {Alias[turnTools[k]] : k \in 1 .. n}
        /\ \A k \in 1 .. n : mapping[Alias[turnTools[k]]] = turnTools[k]
        /\ \A j, k \in 1 .. n : Alias[turnTools[j]] = Alias[turnTools[k]] => j = k
    BY <2>2 DEF TurnInv, NamesAreOffered
  <2>5. \A k \in 1 .. n + 1 : k \in 1 .. n \/ k = n + 1
    OBVIOUS
  <2>6. \A k \in 1 .. n : Alias[turnTools[k]] # Alias[name]
    BY <1>4, <2>4
  <2>7. DOMAIN mapping' = {Alias[turnTools[k]] : k \in 1 .. n + 1}
    <3>1. DOMAIN mapping' = DOMAIN mapping \cup {Alias[name]}
      BY <2>1
    <3>2. {Alias[turnTools[k]] : k \in 1 .. n + 1} = {Alias[turnTools[k]] : k \in 1 .. n} \cup {Alias[name]}
      BY <2>3, <2>5
    <3>3. QED BY <2>4, <3>1, <3>2
  <2>8. \A k \in 1 .. n + 1 : mapping'[Alias[turnTools[k]]] = turnTools[k]
    <3>1. mapping'[Alias[name]] = name
      BY <2>1
    <3>2. \A k \in 1 .. n : mapping'[Alias[turnTools[k]]] = turnTools[k]
      BY <2>1, <2>4, <2>6
    <3>3. QED BY <2>3, <2>5, <3>1, <3>2
  <2>9. \A j, k \in 1 .. n + 1 : Alias[turnTools[j]] = Alias[turnTools[k]] => j = k
    BY <2>3, <2>4, <2>5, <2>6
  <2>10. NamesAreOffered'
    <3>1. stage' = "offering" /\ turnTools' = turnTools /\ offered' = n + 1
      BY <1>1, <2>1, <2>2
    <3>2. QED BY <2>7, <2>8, <2>9, <3>1 DEF NamesAreOffered
  <2>11. /\ DOMAIN mapping' \subseteq {Alias[m] : m \in Turn!Names}
         /\ \A p \in DOMAIN mapping' : mapping'[p] \in Turn!Names
    <3>1. \A p \in DOMAIN mapping' : \E k \in 1 .. n + 1 :
             p = Alias[turnTools[k]] /\ turnTools[k] \in Turn!Names /\ mapping'[p] = turnTools[k]
      BY <2>3, <2>5, <2>7, <2>8
    <3>2. QED BY <3>1
  <2>12. offered' \in 0 .. Len(turnTools)
    BY <2>1, <2>2, <2>3, TurnTypes
  <2>13. Turn!TypeOK'
    BY <2>1, <2>11, <2>12 DEF TurnInv, Turn!TypeOK
  <2>14. MergedIsSent' /\ Built'
    <3>1. stage' = "offering" /\ UNCHANGED <<said, sent, merged>>
      BY <1>1, <2>1
    <3>2. QED BY <3>1 DEF TurnInv, MergedIsSent, Built
  <2>15. QED BY <2>10, <2>13, <2>14 DEF TurnInv
<1>5. QED BY <1>3, <1>4

\* Request, Finish and the parts of a call leave the names as they are.
LEMMA NamesStay ==
  ASSUME TurnInv, UNCHANGED <<turnTools, offered, mapping>>,
         stage' \in {"streaming", "done"} => stage = "streaming" \/ offered = Len(turnTools)
  PROVE  NamesAreOffered'
BY DEF TurnInv, NamesAreOffered

LEMMA RequestKeeps ==
  ASSUME TurnInv, Turn!Request
  PROVE  TurnInv'
<1>1. /\ offered = Len(turnTools) /\ stage' = "streaming"
      /\ UNCHANGED <<turnTools, offered, mapping, said, sent, merged, finish, calls>>
  BY DEF Turn!Request
<1>2. Turn!TypeOK'
  BY <1>1 DEF TurnInv, Turn!TypeOK
<1>3. NamesAreOffered'
  BY <1>1, NamesStay
<1>4. MergedIsSent' /\ Built'
  BY <1>1 DEF TurnInv, MergedIsSent, Built
<1>5. QED BY <1>2, <1>3, <1>4 DEF TurnInv

LEMMA FinishKeeps ==
  ASSUME TurnInv, NEW reason \in {"stop", "tool_calls", "length"}, Turn!Finish(reason)
  PROVE  TurnInv'
<1>1. /\ stage = "streaming" /\ finish' = reason
      /\ UNCHANGED <<stage, turnTools, offered, mapping, said, sent, merged, calls>>
  BY DEF Turn!Finish
<1>2. Turn!TypeOK'
  BY <1>1 DEF TurnInv, Turn!TypeOK
<1>3. NamesAreOffered'
  BY <1>1, NamesStay
<1>4. MergedIsSent' /\ Built'
  BY <1>1 DEF TurnInv, MergedIsSent, Built
<1>5. QED BY <1>2, <1>3, <1>4 DEF TurnInv

LEMMA BeginKeeps ==
  ASSUME Turn!BoundsAssumption, Turn!NamesAssumption, TurnInv,
         NEW p \in Turn!ProviderNames, Turn!BeginCall(p)
  PROVE  TurnInv'
<1>1. /\ stage = "streaming" /\ said' = Append(said, p) /\ sent' = Append(sent, 1)
      /\ merged' = Turn!Merge(Len(said) + 1, p, 0)
      /\ UNCHANGED <<stage, turnTools, offered, mapping, finish, calls>>
  BY DEF Turn!BeginCall
<1>2. PICK n \in Nat : n = Len(said) /\ n = Len(sent) /\ DOMAIN merged = 1 .. n
  BY TurnTypes
<1>3. p # ""
  BY DEF Turn!NamesAssumption
<1>4. merged' = [j \in 1 .. n + 1 |-> IF j = n + 1 THEN [name |-> p, arguments |-> 0] ELSE merged[j]]
  <2>1. (1 .. n) \cup {n + 1} = 1 .. n + 1 /\ n + 1 \notin 1 .. n
    OBVIOUS
  <2>2. merged' = [j \in DOMAIN merged \cup {n + 1} |->
                     IF j = n + 1 THEN [name |-> p, arguments |-> 0 + 0] ELSE merged[j]]
    BY <1>1, <1>2, <1>3, <2>1 DEF Turn!Merge
  <2>3. 0 + 0 = 0
    OBVIOUS
  <2>4. QED BY <1>2, <2>1, <2>2, <2>3
<1>5. \A i \in 1 .. n : merged[i] \in Entry
  BY <1>2, TurnTypes
<1>6. merged' \in Seq(Entry) /\ Len(merged') = n + 1
  <2>1. [name |-> p, arguments |-> 0] \in Entry
    BY TurnTypes DEF Entry
  <2>2. \A j \in 1 .. n + 1 : j = n + 1 \/ j \in 1 .. n
    OBVIOUS
  <2>3. merged' \in [1 .. n + 1 -> Entry]
    BY <1>4, <1>5, <2>1, <2>2
  <2>4. QED BY <2>3
<1>7. /\ said' \in Seq(Turn!ProviderNames) /\ Len(said') = n + 1 /\ said'[n + 1] = p
      /\ \A i \in 1 .. n : said'[i] = said[i]
  BY <1>1, <1>2, TurnTypes
<1>8. /\ sent' \in Seq(1 .. Pieces + 1) /\ Len(sent') = n + 1 /\ sent'[n + 1] = 1
      /\ \A i \in 1 .. n : sent'[i] = sent[i]
  <2>1. 1 \in 1 .. Pieces + 1
    BY TurnTypes
  <2>2. QED BY <1>1, <1>2, <2>1, TurnTypes
<1>9. Turn!TypeOK'
  <2>1. Turn!Parts = Pieces + 1
    BY TurnTypes DEF Turn!Parts
  <2>2. QED BY <1>1, <1>6, <1>7, <1>8, <2>1 DEF TurnInv, Turn!TypeOK, Entry
<1>10. MergedIsSent'
  <2> SUFFICES ASSUME NEW i \in 1 .. n + 1
               PROVE  merged'[i].name = said'[i] /\ merged'[i].arguments = sent'[i] - 1
    BY <1>6, <1>7 DEF MergedIsSent
  <2>1. CASE i = n + 1
    BY <1>4, <1>7, <1>8, <2>1
  <2>2. CASE i # n + 1
    <3>1. i \in 1 .. n
      BY <2>2
    <3>2. merged[i].name = said[i] /\ merged[i].arguments = sent[i] - 1
      BY <1>2, <3>1 DEF TurnInv, MergedIsSent
    <3>3. QED BY <1>4, <1>7, <1>8, <2>2, <3>1, <3>2
  <2>3. QED BY <2>1, <2>2
<1>11. NamesAreOffered'
  BY <1>1, NamesStay
<1>12. Built'
  BY <1>1 DEF Built
<1>13. QED BY <1>9, <1>10, <1>11, <1>12 DEF TurnInv

LEMMA PieceKeeps ==
  ASSUME Turn!BoundsAssumption, Turn!NamesAssumption, TurnInv,
         NEW k \in DOMAIN said, Turn!SendPiece(k)
  PROVE  TurnInv'
<1>1. /\ stage = "streaming" /\ sent[k] # Pieces + 1
      /\ sent' = [sent EXCEPT ![k] = @ + 1] /\ merged' = Turn!Merge(k, "", 1)
      /\ UNCHANGED <<stage, turnTools, offered, mapping, said, finish, calls>>
  <2>1. Turn!Parts = Pieces + 1
    BY TurnTypes DEF Turn!Parts
  <2>2. QED BY <2>1 DEF Turn!SendPiece, Turn!Whole
<1>2. PICK n \in Nat : n = Len(said) /\ n = Len(sent) /\ n = Len(merged) /\ DOMAIN merged = 1 .. n
                       /\ k \in 1 .. n
  BY TurnTypes
<1>3. \A i \in 1 .. n : merged[i] \in Entry /\ sent[i] \in 1 .. Pieces + 1
  BY <1>2, TurnTypes
<1>4. \A i \in 1 .. n : merged[i].name = said[i] /\ merged[i].arguments = sent[i] - 1
  BY <1>2 DEF TurnInv, MergedIsSent
<1>5. merged' = [j \in 1 .. n |-> IF j = k THEN [name |-> merged[k].name,
                                                 arguments |-> merged[k].arguments + 1]
                                  ELSE merged[j]]
  <2>1. (1 .. n) \cup {k} = 1 .. n
    BY <1>2
  <2>2. QED BY <1>1, <1>2, <2>1 DEF Turn!Merge
<1>6. PICK a \in 1 .. Pieces + 1 : a = sent[k]
  BY <1>2, <1>3
<1>7. a + 1 \in 1 .. Pieces + 1
  <2>1. Pieces \in Nat
    BY TurnTypes
  <2>2. a # Pieces + 1
    BY <1>1, <1>6
  <2>3. QED BY <2>1, <2>2
<1>8. sent' \in Seq(1 .. Pieces + 1) /\ Len(sent') = n /\ sent'[k] = a + 1
      /\ \A i \in 1 .. n : i # k => sent'[i] = sent[i]
  <2>1. sent' = [sent EXCEPT ![k] = a + 1]
    BY <1>1, <1>6
  <2>2. QED BY <1>2, <1>7, <2>1, ExceptSeq, TurnTypes
<1>9. merged' \in Seq(Entry) /\ Len(merged') = n
  <2>1. [name |-> merged[k].name, arguments |-> merged[k].arguments + 1] \in Entry
    <3>1. merged[k].name \in Turn!ProviderNames
      BY <1>2, <1>3 DEF Entry
    <3>2. merged[k].arguments = a - 1 /\ Pieces \in Nat
      BY <1>2, <1>4, <1>6, TurnTypes
    <3>3. merged[k].arguments + 1 \in 0 .. Pieces
      BY <1>6, <1>7, <3>2
    <3>4. QED BY <3>1, <3>3 DEF Entry
  <2>2. merged' \in [1 .. n -> Entry]
    BY <1>3, <1>5, <2>1
  <2>3. QED BY <2>2
<1>10. Turn!TypeOK'
  <2>1. Turn!Parts = Pieces + 1
    BY TurnTypes DEF Turn!Parts
  <2>2. Len(said') = Len(sent') /\ said' \in Seq(Turn!ProviderNames)
    BY <1>1, <1>2, <1>8, TurnTypes
  <2>3. QED BY <1>1, <1>8, <1>9, <2>1, <2>2 DEF TurnInv, Turn!TypeOK, Entry
<1>11. MergedIsSent'
  <2> SUFFICES ASSUME NEW i \in 1 .. n
               PROVE  merged'[i].name = said[i] /\ merged'[i].arguments = sent'[i] - 1
    BY <1>1, <1>2, <1>9 DEF MergedIsSent
  <2>1. CASE i = k
    BY <1>4, <1>5, <1>6, <1>8, <2>1
  <2>2. CASE i # k
    BY <1>4, <1>5, <1>8, <2>2
  <2>3. QED BY <2>1, <2>2
<1>12. NamesAreOffered'
  BY <1>1, NamesStay
<1>13. Built'
  BY <1>1 DEF Built
<1>14. QED BY <1>10, <1>11, <1>12, <1>13 DEF TurnInv

LEMMA CallOfEntry ==
  ASSUME TurnInv, NEW entry \in Entry
  PROVE  Turn!ToolCall(entry) \in Call
<1>1. entry.name \in DOMAIN mapping => mapping[entry.name] \in Turn!Names
  BY DEF TurnInv, Turn!TypeOK
<1>2. (IF entry.name \in DOMAIN mapping THEN mapping[entry.name] ELSE entry.name)
        \in Turn!Names \cup Turn!ProviderNames
  BY <1>1 DEF Entry
<1>3. (IF entry.arguments = Pieces THEN "object" ELSE "none") \in {"object", "none"}
  OBVIOUS
<1>4. (entry.name \in DOMAIN mapping) \in BOOLEAN
  OBVIOUS
<1>5. QED BY <1>2, <1>3, <1>4 DEF Turn!ToolCall, Call

LEMMA EndsTurn ==
  ASSUME Turn!BoundsAssumption, Turn!NamesAssumption, TurnInv, Turn!End
  PROVE  TurnInv'
<1>1. stage = "streaming" /\ (Turn!Refuse \/ stage' = "done")
  BY DEF Turn!End, Turn!Refuse
<1>2. CASE Turn!Refuse
  BY <1>2, RefusesKeep
<1>3. CASE ~Turn!Refuse
  <2>1. /\ stage' = "done" /\ calls' = [i \in 1 .. Len(merged) |-> Turn!ToolCall(merged[i])]
        /\ UNCHANGED <<turnTools, offered, mapping, said, sent, merged, finish>>
    BY <1>3 DEF Turn!End
  <2>2. PICK n \in Nat : n = Len(merged) /\ \A i \in 1 .. n : merged[i] \in Entry
    <3>1. PICK n \in Nat : n = Len(merged)
      BY TurnTypes
    <3>2. \A i \in 1 .. n : merged[i] \in Entry
      BY <3>1, TurnTypes
    <3>3. QED BY <3>1, <3>2
  <2>3. \A i \in 1 .. n : Turn!ToolCall(merged[i]) \in Call
    BY <2>2, CallOfEntry
  <2>4. calls' \in [1 .. n -> Call] /\ \A i \in 1 .. n : calls'[i] = Turn!ToolCall(merged[i])
    BY <2>1, <2>2, <2>3
  <2>5. calls' \in Seq(Call) /\ Len(calls') = n
    BY <2>4
  <2>6. Turn!TypeOK'
    BY <2>1, <2>5 DEF TurnInv, Turn!TypeOK, Call
  <2>7. \A e : Turn!ToolCall(e)' = Turn!ToolCall(e)
    BY <2>1 DEF Turn!ToolCall
  <2>8. Built'
    <3> SUFFICES ASSUME NEW i \in 1 .. n
                 PROVE  calls'[i] = Turn!ToolCall(merged[i])'
      BY <2>1, <2>2, <2>5 DEF Built
    <3>1. Turn!ToolCall(merged[i])' = Turn!ToolCall(merged[i])
      BY <2>1 DEF Turn!ToolCall
    <3>2. QED BY <2>4, <3>1
  <2>9. NamesAreOffered'
    BY <1>1, <2>1, NamesStay
  <2>10. MergedIsSent'
    BY <2>1 DEF TurnInv, MergedIsSent
  <2>11. QED BY <2>6, <2>8, <2>9, <2>10 DEF TurnInv
<1>4. QED BY <1>2, <1>3

LEMMA TurnNext ==
  ASSUME Turn!BoundsAssumption, Turn!NamesAssumption, TurnInv, [Turn!Next]_(Turn!vars)
  PROVE  TurnInv'
<1>1. CASE Turn!Offer
  BY <1>1, OfferKeeps
<1>2. CASE Turn!Request
  BY <1>2, RequestKeeps
<1>3. ASSUME NEW p \in Turn!ProviderNames, Turn!BeginCall(p)
      PROVE  TurnInv'
  BY <1>3, BeginKeeps
<1>4. ASSUME NEW k \in DOMAIN said, Turn!SendPiece(k)
      PROVE  TurnInv'
  BY <1>4, PieceKeeps
<1>5. ASSUME NEW reason \in {"stop", "tool_calls", "length"}, Turn!Finish(reason)
      PROVE  TurnInv'
  BY <1>5, FinishKeeps
<1>6. CASE Turn!End
  BY <1>6, EndsTurn
<1>7. CASE Turn!Lose
  BY <1>7, RefusesKeep DEF Turn!Lose
<1>8. CASE UNCHANGED Turn!vars
  <2>1. UNCHANGED <<stage, turnTools, offered, mapping, said, sent, merged, finish, calls>>
    BY <1>8 DEF Turn!vars
  <2>2. Turn!TypeOK'
    BY <2>1 DEF TurnInv, Turn!TypeOK
  <2>3. NamesAreOffered' /\ MergedIsSent' /\ Built'
    BY <2>1 DEF TurnInv, NamesAreOffered, MergedIsSent, Built, Turn!ToolCall
  <2>4. QED BY <2>2, <2>3 DEF TurnInv
<1>9. QED BY <1>1, <1>2, <1>3, <1>4, <1>5, <1>6, <1>7, <1>8 DEF Turn!Next

LEMMA KnownField ==
  ASSUME NEW call, NEW name, NEW x, NEW S, NEW arguments,
         call = [name |-> name, known |-> x \in S, arguments |-> arguments]
  PROVE  call.known <=> x \in S
  OBVIOUS

LEMMA TurnInvSound ==
  ASSUME Turn!BoundsAssumption, Turn!NamesAssumption, TurnInv
  PROVE  Turn!CallsAsSaid /\ Turn!CutCallsDoNotRun /\ Turn!OneToolPerName
<1>1. Turn!OneToolPerName
  BY TurnTypes DEF TurnInv, NamesAreOffered, Turn!OneToolPerName
<1>2. ASSUME stage = "done", NEW i \in 1 .. Len(said)
      PROVE  /\ calls[i].known <=> \E m \in Turn!ToSet(turnTools) : Alias[m] = said[i]
             /\ calls[i].known => calls[i].name \in Turn!ToSet(turnTools) /\ Alias[calls[i].name] = said[i]
             /\ Turn!Whole(i) <=> calls[i].arguments = "object"
             /\ calls[i].arguments \in {"object", "none"}
  <2>1. PICK n \in Nat : n = Len(turnTools) /\ offered = n
    BY <1>2, TurnTypes DEF TurnInv, NamesAreOffered
  <2>2. Turn!ToSet(turnTools) = {turnTools[k] : k \in 1 .. n}
    BY <2>1, TurnTypes DEF Turn!ToSet
  <2>3. DOMAIN mapping = {Alias[turnTools[k]] : k \in 1 .. n}
        /\ \A k \in 1 .. n : mapping[Alias[turnTools[k]]] = turnTools[k]
    BY <2>1 DEF TurnInv, NamesAreOffered
  <2>4. calls[i] = Turn!ToolCall(merged[i])
    BY <1>2, TurnTypes DEF TurnInv, Built
  <2>5. merged[i].name = said[i] /\ merged[i].arguments = sent[i] - 1 /\ sent[i] \in 1 .. Pieces + 1
    BY <1>2, TurnTypes DEF TurnInv, MergedIsSent
  <2>6. /\ calls[i].known <=> said[i] \in DOMAIN mapping
        /\ calls[i].known => calls[i].name = mapping[said[i]]
        /\ calls[i].arguments = IF sent[i] - 1 = Pieces THEN "object" ELSE "none"
    <3>1. calls[i] = [name |-> IF said[i] \in DOMAIN mapping THEN mapping[said[i]] ELSE said[i],
                      known |-> said[i] \in DOMAIN mapping,
                      arguments |-> IF sent[i] - 1 = Pieces THEN "object" ELSE "none"]
      BY <2>4, <2>5 DEF Turn!ToolCall
    <3>2. calls[i].known <=> said[i] \in DOMAIN mapping
      BY <3>1, KnownField
    <3>3. calls[i].name = IF said[i] \in DOMAIN mapping THEN mapping[said[i]] ELSE said[i]
      BY <3>1
    <3>4. calls[i].arguments = IF sent[i] - 1 = Pieces THEN "object" ELSE "none"
      BY <3>1
    <3>5. QED BY <3>2, <3>3, <3>4
  <2>7. Turn!Whole(i) <=> sent[i] - 1 = Pieces
    BY <2>5, TurnTypes DEF Turn!Whole, Turn!Parts
  <2>8. said[i] \in DOMAIN mapping <=> \E m \in Turn!ToSet(turnTools) : Alias[m] = said[i]
    BY <2>2, <2>3
  <2>9. said[i] \in DOMAIN mapping
          => mapping[said[i]] \in Turn!ToSet(turnTools) /\ Alias[mapping[said[i]]] = said[i]
    BY <2>2, <2>3
  <2>10. QED BY <2>6, <2>7, <2>8, <2>9
<1>3. ASSUME stage = "done"
      PROVE  Len(calls) = Len(said) /\ DOMAIN calls = 1 .. Len(said)
  BY <1>3, TurnTypes DEF TurnInv, Built
<1>4. Turn!CallsAsSaid
  BY <1>2, <1>3 DEF Turn!CallsAsSaid
<1>5. Turn!CutCallsDoNotRun
  BY <1>2, <1>3 DEF Turn!CutCallsDoNotRun
<1>6. QED BY <1>1, <1>4, <1>5

\* TurnsAsSaid of the run providers: however its parts arrive, a turn has the calls
\* the response made, none that was cut off can run, and two tools never share
\* a provider name (OpenAIModelProvider.turn, _stream_model_turn).
THEOREM TurnsAreAsSaid ==
  ASSUME Turn!BoundsAssumption, Turn!NamesAssumption
  PROVE  Turn!Spec => []TurnsAsSaid
<1>1. Turn!Init => TurnInv
  BY TurnInit
<1>2. TurnInv /\ [Turn!Next]_(Turn!vars) => TurnInv'
  BY TurnNext
<1>3. TurnInv => TurnsAsSaid
  BY TurnInvSound DEF TurnInv, TurnsAsSaid, Turn!TurnsAsSaid
<1>4. QED BY <1>1, <1>2, <1>3, PTL DEF Turn!Spec

-----------------------------------------------------------------------------
(* The gateway. The calls that wait are queued, each once; and a call that *)
(* began a request late has no time left for another.                      *)

LEMMA LeastElement ==
  ASSUME NEW T \in SUBSET Nat, T # {}
  PROVE  \E m \in T : \A k \in T : m <= k
<1>1. IsWellFoundedOn({ss \in Nat \X Nat : ss[1] < ss[2]}, Nat)
  BY NatLessThanWellFounded DEF OpToRel
<1>2. PICK m \in T : \A k \in T : <<k, m>> \notin {ss \in Nat \X Nat : ss[1] < ss[2]}
  BY <1>1, WFMin
<1>3. ASSUME NEW k \in T
      PROVE  m <= k
  <2>1. ~(k < m)
    BY <1>2
  <2>2. k \in Nat /\ m \in Nat
    OBVIOUS
  <2>3. QED BY <2>1, <2>2
<1>4. QED BY <1>3

\* RemoveFirst of SequencesExt: one element goes, if there is one, and the
\* others keep their order.
LEMMA RemoveFirstCuts ==
  ASSUME NEW S, NEW s \in Seq(S), NEW e, NEW r, r = Gateway!RemoveFirst(s, e)
  PROVE  \/ r = s /\ \A i \in 1 .. Len(s) : s[i] # e
         \/ \E k \in 1 .. Len(s) :
              /\ s[k] = e /\ r \in Seq(S) /\ Len(r) = Len(s) - 1
              /\ \A i \in 1 .. Len(r) : r[i] = IF i < k THEN s[i] ELSE s[i + 1]
<1>1. CASE ~\E i \in 1 .. Len(s) : s[i] = e
  BY <1>1 DEF Gateway!RemoveFirst
<1>2. CASE \E i \in 1 .. Len(s) : s[i] = e
  <2> DEFINE I == {i \in 1 .. Len(s) : s[i] = e}
  <2>1. I # {} /\ I \in SUBSET Nat
    BY <1>2
  <2>2. Gateway!SelectInSeq(s, LAMBDA v : v = e) = Gateway!Min(I)
    BY <2>1 DEF Gateway!SelectInSeq
  <2>3. \E m \in I : \A j \in I : m <= j
    BY <2>1, LeastElement
  <2>4. Gateway!Min(I) \in I
    BY <2>3 DEF Gateway!Min
  <2>5. PICK k \in 1 .. Len(s) : k = Gateway!Min(I) /\ s[k] = e
    BY <2>4
  <2>6. r = SubSeq(s, 1, k - 1) \o SubSeq(s, k + 1, Len(s))
    BY <1>2, <2>2, <2>5 DEF Gateway!RemoveFirst, Gateway!RemoveAt
  <2> HIDE DEF I
  <2>7. Len(s) \in Nat /\ s \in [1 .. Len(s) -> S]
    BY LenProperties
  <2>8. PICK n \in Nat : n = Len(s)
    BY <2>7
  <2>9. PICK a : a = SubSeq(s, 1, k - 1)
    OBVIOUS
  <2>10. PICK b : b = SubSeq(s, k + 1, n)
    OBVIOUS
  <2>11. a \in Seq(S) /\ Len(a) = k - 1 /\ \A i \in 1 .. k - 1 : a[i] = s[i]
    <3>1. \A i \in 1 .. k - 1 : s[i] \in S
      BY <2>7, <2>8
    <3>2. QED BY <2>8, <2>9, <3>1, SubSeqProperties
  <2>12. b \in Seq(S) /\ Len(b) = n - k /\ \A i \in 1 .. n - k : b[i] = s[k + i]
    <3>1. \A i \in k + 1 .. n : s[i] \in S
      BY <2>7, <2>8
    <3>2. k + 1 \in Int /\ n \in Int /\ k \in 1 .. n
      BY <2>8
    <3>3. /\ b \in Seq(S) /\ Len(b) = IF k + 1 <= n THEN n - (k + 1) + 1 ELSE 0
          /\ \A i \in 1 .. n - (k + 1) + 1 : b[i] = s[k + 1 + i - 1]
      BY <2>10, <3>1, <3>2, SubSeqProperties
    <3>4. QED BY <3>2, <3>3
  <2>13. r = a \o b
    BY <2>6, <2>8, <2>9, <2>10
  <2>14. /\ r \in Seq(S) /\ Len(r) = n - 1
         /\ \A i \in 1 .. n - 1 : r[i] = IF i <= k - 1 THEN a[i] ELSE b[i - (k - 1)]
    <3>1. /\ r \in Seq(S) /\ Len(r) = Len(a) + Len(b)
          /\ \A i \in 1 .. Len(a) + Len(b) : r[i] = IF i <= Len(a) THEN a[i] ELSE b[i - Len(a)]
      <4>1. a \in Seq(S) /\ b \in Seq(S)
        BY <2>11, <2>12
      <4>2. QED BY <4>1, <2>13, ConcatProperties
    <3>2. Len(a) + Len(b) = n - 1
      BY <2>8, <2>11, <2>12
    <3>3. QED BY <2>11, <3>1, <3>2
  <2>15. ASSUME NEW i \in 1 .. n - 1
         PROVE  r[i] = IF i < k THEN s[i] ELSE s[i + 1]
    <3>1. k \in 1 .. n
      BY <2>8
    <3>2. CASE i < k
      BY <2>11, <2>14, <3>1, <3>2
    <3>3. CASE i >= k
      <4>1. r[i] = b[i - (k - 1)] /\ i - (k - 1) \in 1 .. n - k
        BY <2>14, <3>1, <3>3
      <4>2. b[i - (k - 1)] = s[k + (i - (k - 1))] /\ k + (i - (k - 1)) = i + 1
        BY <2>12, <4>1, <3>1
      <4>3. QED BY <4>1, <4>2, <3>1, <3>3
    <3>4. QED BY <3>1, <3>2, <3>3
  <2>16. QED BY <2>5, <2>8, <2>14, <2>15
<1>3. QED BY <1>1, <1>2

Queued ==
  /\ \A i \in 1 .. Len(waiters) : phase[waiters[i]] = "queued"
  /\ \A i, j \in 1 .. Len(waiters) : waiters[i] = waiters[j] => i = j

PlacesAddUp == IsFiniteSet(Gateway!Asking) /\ value + Cardinality(Gateway!Asking) = Concurrency

CallInTime(c) ==
  /\ phase[c] = "asking" => age[c] + left[c] <= Timeout \/ left[c] <= 1
  /\ late[c] <= 1
  /\ late[c] >= 1 => age[c] >= Timeout /\ phase[c] \in {"asking", "ended"}
  /\ phase[c] = "pausing" => attempt[c] < MaxRetries
  /\ outcome[c] = "retryable" =>
       phase[c] = "ended" /\ (attempt[c] = MaxRetries \/ age[c] >= Timeout)

GatewayInv == Gateway!TypeOK /\ Queued /\ PlacesAddUp /\ \A c \in Asked : CallInTime(c)

LEMMA GatewayInit ==
  ASSUME Gateway!NumbersAssumption, Gateway!Init
  PROVE  GatewayInv
<1>1. /\ phase = [c \in Asked |-> "new"] /\ outcome = [c \in Asked |-> "none"]
      /\ value = Concurrency /\ waiters = <<>>
      /\ attempt = [c \in Asked |-> 0] /\ age = [c \in Asked |-> 0]
      /\ left = [c \in Asked |-> 0] /\ late = [c \in Asked |-> 0]
  BY DEF Gateway!Init
<1>2. Concurrency \in Nat \ {0} /\ Timeout \in Nat \ {0} /\ MaxRetries \in Nat
  BY DEF Gateway!NumbersAssumption
<1>3. Gateway!TypeOK
  BY <1>1, <1>2 DEF Gateway!TypeOK
<1>4. Queued
  BY <1>1 DEF Queued
<1>5. Gateway!Asking = {}
  BY <1>1 DEF Gateway!Asking
<1>6. PlacesAddUp
  BY <1>1, <1>2, <1>5, FS_EmptySet DEF PlacesAddUp
<1>7. \A c \in Asked : CallInTime(c)
  BY <1>1, <1>2 DEF CallInTime
<1>8. QED BY <1>3, <1>4, <1>6, <1>7 DEF GatewayInv

LEMMA GatewayTypes ==
  ASSUME Gateway!NumbersAssumption, GatewayInv
  PROVE  /\ phase \in [Asked -> {"new", "queued", "asking", "pausing", "ended"}]
         /\ outcome \in [Asked -> {"none", "result", "retryable", "permanent", "cancelled"}]
         /\ value \in 0 .. Concurrency
         /\ waiters \in Seq(Asked) /\ Len(waiters) \in Nat
         /\ attempt \in [Asked -> 0 .. MaxRetries] /\ age \in [Asked -> 0 .. Timeout + 1]
         /\ left \in [Asked -> Nat] /\ late \in [Asked -> 0 .. 2]
         /\ Concurrency \in Nat \ {0} /\ Timeout \in Nat \ {0} /\ MaxRetries \in Nat
BY LenProperties DEF GatewayInv, Gateway!TypeOK, Gateway!NumbersAssumption

\* A step of a call gives back the place it had and takes the one it gets.
LEMMA PlacesMove ==
  ASSUME Gateway!NumbersAssumption, GatewayInv, NEW c \in Asked,
         NEW p \in {"new", "queued", "asking", "pausing", "ended"},
         phase' = [phase EXCEPT ![c] = p],
         value' = value + (IF phase[c] = "asking" THEN 1 ELSE 0) - (IF p = "asking" THEN 1 ELSE 0),
         value' >= 0
  PROVE  PlacesAddUp' /\ value' \in 0 .. Concurrency
<1> DEFINE A == Gateway!Asking
<1>1. IsFiniteSet(A) /\ value + Cardinality(A) = Concurrency
  BY DEF GatewayInv, PlacesAddUp
<1>2. Cardinality(A) \in Nat
  BY <1>1, FS_CardinalityType
<1>3. value \in Nat /\ Concurrency \in Nat
  BY GatewayTypes
<1>4. A' = IF p = "asking" THEN A \cup {c} ELSE A \ {c}
  BY GatewayTypes DEF Gateway!Asking
<1>5. c \in A <=> phase[c] = "asking"
  BY DEF Gateway!Asking
<1> HIDE DEF A
<1>6. CASE p = "asking"
  <2>1. IsFiniteSet(A') /\ Cardinality(A') = IF c \in A THEN Cardinality(A) ELSE Cardinality(A) + 1
    BY <1>1, <1>4, <1>6, FS_AddElement
  <2>2. Cardinality(A') \in Nat
    BY <2>1, FS_CardinalityType
  <2>3. value' + Cardinality(A') = Concurrency
    BY <1>1, <1>2, <1>3, <1>5, <1>6, <2>1
  <2>4. value' \in 0 .. Concurrency
    BY <1>3, <1>6, <2>2, <2>3
  <2>5. QED BY <2>1, <2>3, <2>4 DEF PlacesAddUp, A
<1>7. CASE p # "asking"
  <2>1. IsFiniteSet(A') /\ Cardinality(A') = IF c \in A THEN Cardinality(A) - 1 ELSE Cardinality(A)
    BY <1>1, <1>4, <1>7, FS_RemoveElement
  <2>2. Cardinality(A') \in Nat
    BY <2>1, FS_CardinalityType
  <2>3. value' + Cardinality(A') = Concurrency
    BY <1>1, <1>2, <1>3, <1>5, <1>7, <2>1
  <2>4. value' \in 0 .. Concurrency
    BY <1>3, <1>7, <2>2, <2>3
  <2>5. QED BY <2>1, <2>3, <2>4 DEF PlacesAddUp, A
<1>8. QED BY <1>6, <1>7

\* The queue when a call that does not wait in it moves elsewhere.
LEMMA QueueStays ==
  ASSUME Gateway!NumbersAssumption, GatewayInv, NEW c \in Asked, phase[c] # "queued",
         NEW p, phase' = [phase EXCEPT ![c] = p], waiters' = waiters
  PROVE  Queued'
<1>1. PICK n \in Nat : n = Len(waiters)
  BY GatewayTypes
<1>2. \A i \in 1 .. n : waiters[i] \in Asked /\ waiters[i] # c
  BY <1>1, GatewayTypes, LenProperties DEF GatewayInv, Queued
<1>3. \A i \in 1 .. n : phase'[waiters[i]] = "queued"
  BY <1>1, <1>2, GatewayTypes DEF GatewayInv, Queued
<1>4. QED BY <1>1, <1>3 DEF GatewayInv, Queued

LEMMA QueueGrows ==
  ASSUME Gateway!NumbersAssumption, GatewayInv, NEW c \in Asked, phase[c] # "queued", Gateway!Queue(c)
  PROVE  Queued' /\ waiters' \in Seq(Asked)
<1>1. PICK n \in Nat : n = Len(waiters)
  BY GatewayTypes
<1>2. phase' = [phase EXCEPT ![c] = "queued"] /\ waiters' = Append(waiters, c)
  BY DEF Gateway!Queue
<1>3. /\ waiters' \in Seq(Asked) /\ Len(waiters') = n + 1 /\ waiters'[n + 1] = c
      /\ \A i \in 1 .. n : waiters'[i] = waiters[i]
  BY <1>1, <1>2, GatewayTypes, AppendProperties
<1>4. /\ \A i \in 1 .. n : waiters[i] \in Asked /\ waiters[i] # c /\ phase[waiters[i]] = "queued"
      /\ \A i, j \in 1 .. n : waiters[i] = waiters[j] => i = j
  BY <1>1, GatewayTypes, LenProperties DEF GatewayInv, Queued
<1>5. ASSUME NEW i \in 1 .. n + 1
      PROVE  phase'[waiters'[i]] = "queued"
  <2>1. i \in 1 .. n \/ i = n + 1
    OBVIOUS
  <2>2. QED BY <1>2, <1>3, <1>4, <2>1, GatewayTypes
<1>6. ASSUME NEW i \in 1 .. n + 1, NEW j \in 1 .. n + 1, waiters'[i] = waiters'[j]
      PROVE  i = j
  <2>1. (i \in 1 .. n \/ i = n + 1) /\ (j \in 1 .. n \/ j = n + 1)
    OBVIOUS
  <2>2. QED BY <1>3, <1>4, <1>6, <2>1
<1>7. QED BY <1>3, <1>5, <1>6 DEF Queued

LEMMA QueueShrinks ==
  ASSUME Gateway!NumbersAssumption, GatewayInv, NEW c \in Asked,
         waiters # <<>>, Head(waiters) = c, waiters' = Tail(waiters),
         phase' = [phase EXCEPT ![c] = "asking"]
  PROVE  Queued' /\ waiters' \in Seq(Asked) /\ phase[c] = "queued"
<1>1. PICK n \in Nat : n = Len(waiters) /\ n >= 1
  BY GatewayTypes, EmptySeq
<1>2. /\ waiters' \in Seq(Asked) /\ Len(waiters') = n - 1
      /\ \A i \in 1 .. n - 1 : waiters'[i] = waiters[i + 1]
  BY <1>1, GatewayTypes, HeadTailProperties
<1>3. /\ \A i \in 1 .. n : waiters[i] \in Asked /\ phase[waiters[i]] = "queued"
      /\ \A i, j \in 1 .. n : waiters[i] = waiters[j] => i = j
  BY <1>1, GatewayTypes, LenProperties DEF GatewayInv, Queued
<1>4. c = waiters[1]
  BY <1>1, GatewayTypes
<1>5. ASSUME NEW i \in 1 .. n - 1
      PROVE  phase'[waiters'[i]] = "queued"
  <2>1. i + 1 \in 1 .. n /\ i + 1 # 1 /\ 1 \in 1 .. n
    BY <1>1
  <2>2. waiters[i + 1] # c /\ waiters[i + 1] \in Asked /\ phase[waiters[i + 1]] = "queued"
    BY <1>3, <1>4, <2>1
  <2>3. QED BY <1>2, <2>2, GatewayTypes
<1>6. ASSUME NEW i \in 1 .. n - 1, NEW j \in 1 .. n - 1, waiters'[i] = waiters'[j]
      PROVE  i = j
  <2>1. i + 1 \in 1 .. n /\ j + 1 \in 1 .. n /\ waiters[i + 1] = waiters[j + 1]
    BY <1>1, <1>2, <1>6
  <2>2. i + 1 = j + 1
    BY <1>3, <2>1
  <2>3. QED BY <2>2
<1>7. Queued'
  BY <1>2, <1>5, <1>6 DEF Queued
<1>8. QED BY <1>1, <1>2, <1>3, <1>4, <1>7

LEMMA QueueForgets ==
  ASSUME Gateway!NumbersAssumption, GatewayInv, NEW c \in Asked,
         waiters' = Gateway!RemoveFirst(waiters, c), phase' = [phase EXCEPT ![c] = "ended"]
  PROVE  Queued' /\ waiters' \in Seq(Asked)
<1>1. PICK n \in Nat : n = Len(waiters)
  BY GatewayTypes
<1>2. /\ \A i \in 1 .. n : waiters[i] \in Asked /\ phase[waiters[i]] = "queued"
      /\ \A i, j \in 1 .. n : waiters[i] = waiters[j] => i = j
  BY <1>1, GatewayTypes, LenProperties DEF GatewayInv, Queued
<1>3. waiters \in Seq(Asked) /\ phase \in [Asked -> {"new", "queued", "asking", "pausing", "ended"}]
  BY GatewayTypes
<1>4. PICK r : r = Gateway!RemoveFirst(waiters, c)
  OBVIOUS
<1>5. \/ r = waiters /\ \A i \in 1 .. n : waiters[i] # c
      \/ \E k \in 1 .. n :
           /\ waiters[k] = c /\ r \in Seq(Asked) /\ Len(r) = n - 1
           /\ \A i \in 1 .. Len(r) : r[i] = IF i < k THEN waiters[i] ELSE waiters[i + 1]
  <2>1. waiters \in Seq(Asked)
    BY <1>3
  <2>2. \/ r = waiters /\ \A i \in 1 .. Len(waiters) : waiters[i] # c
        \/ \E k \in 1 .. Len(waiters) :
             /\ waiters[k] = c /\ r \in Seq(Asked) /\ Len(r) = Len(waiters) - 1
             /\ \A i \in 1 .. Len(r) : r[i] = IF i < k THEN waiters[i] ELSE waiters[i + 1]
    BY <1>4, <2>1, RemoveFirstCuts
  <2>3. QED BY <1>1, <2>2
<1>6. CASE r = waiters /\ \A i \in 1 .. n : waiters[i] # c
  <2>1. \A i \in 1 .. n : phase'[waiters[i]] = "queued"
    BY <1>2, <1>3, <1>6
  <2>2. QED BY <1>1, <1>2, <1>3, <1>4, <1>6, <2>1 DEF Queued
<1>7. ASSUME NEW k \in 1 .. n, waiters[k] = c, r \in Seq(Asked), Len(r) = n - 1,
             \A i \in 1 .. Len(r) : r[i] = IF i < k THEN waiters[i] ELSE waiters[i + 1]
      PROVE  Queued' /\ waiters' \in Seq(Asked)
  <2> DEFINE f == [i \in 1 .. n - 1 |-> IF i < k THEN i ELSE i + 1]
  <2>1. /\ \A i \in 1 .. n - 1 : f[i] \in 1 .. n /\ f[i] # k
        /\ \A i, j \in 1 .. n - 1 : f[i] = f[j] => i = j
    OBVIOUS
  <2>2. \A i \in 1 .. n - 1 : r[i] = waiters[f[i]]
    BY <1>7
  <2> HIDE DEF f
  <2>3. ASSUME NEW i \in 1 .. n - 1
        PROVE  phase'[r[i]] = "queued"
    <3>1. f[i] \in 1 .. n /\ f[i] # k /\ r[i] = waiters[f[i]]
      BY <2>1, <2>2
    <3>2. waiters[f[i]] \in Asked /\ phase[waiters[f[i]]] = "queued" /\ waiters[f[i]] # c
      BY <1>2, <1>7, <3>1
    <3>3. QED BY <1>3, <3>1, <3>2
  <2>4. \A i, j \in 1 .. n - 1 : r[i] = r[j] => i = j
    BY <1>2, <2>1, <2>2
  <2>5. QED BY <1>4, <1>7, <2>3, <2>4 DEF Queued
<1>8. QED BY <1>5, <1>6, <1>7


\* The other calls, when only the variables of one change.
LEMMA OthersInTime ==
  ASSUME NEW c \in Asked, NEW d \in Asked, d # c, CallInTime(d),
         phase'[d] = phase[d], age'[d] = age[d], left'[d] = left[d], late'[d] = late[d],
         attempt'[d] = attempt[d], outcome'[d] = outcome[d]
  PROVE  CallInTime(d)'
BY DEF CallInTime

LEMMA CallKeeps ==
  ASSUME Gateway!NumbersAssumption, GatewayInv, NEW c \in Asked, Gateway!Call(c)
  PROVE  GatewayInv'
<1>1. /\ phase[c] = "new" /\ phase' = [phase EXCEPT ![c] = "queued"]
      /\ UNCHANGED <<value, attempt, age, left, late, outcome>>
  BY DEF Gateway!Call, Gateway!Queue
<1>2. Queued' /\ waiters' \in Seq(Asked)
  BY <1>1, QueueGrows DEF Gateway!Call
<1>3. PlacesAddUp'
  <2>1. value \in Nat
    BY GatewayTypes
  <2>2. value' = value + 0 - 0 /\ value' >= 0
    BY <1>1, <2>1
  <2>3. QED BY <1>1, <2>1, <2>2, PlacesMove
<1>4. Gateway!TypeOK'
  BY <1>1, <1>2, GatewayTypes DEF Gateway!TypeOK
<1>5. ASSUME NEW d \in Asked
      PROVE  CallInTime(d)'
  BY <1>1, GatewayTypes DEF GatewayInv, CallInTime
<1>6. QED BY <1>2, <1>3, <1>4, <1>5 DEF GatewayInv

LEMMA AcquireKeeps ==
  ASSUME Gateway!NumbersAssumption, GatewayInv, NEW c \in Asked, Gateway!Acquire(c)
  PROVE  GatewayInv'
<1>1. /\ waiters # <<>> /\ Head(waiters) = c /\ value > 0
      /\ waiters' = Tail(waiters) /\ value' = value - 1
      /\ phase' = [phase EXCEPT ![c] = "asking"]
      /\ left' = [left EXCEPT ![c] = Gateway!Most(1, Timeout - age[c])]
      /\ late' = [late EXCEPT ![c] = Gateway!Least(2, late[c] + (IF age[c] >= Timeout THEN 1 ELSE 0))]
      /\ UNCHANGED <<attempt, age, outcome>>
  BY DEF Gateway!Acquire, Gateway!TimeFor
<1>2. Queued' /\ waiters' \in Seq(Asked) /\ phase[c] = "queued"
  BY <1>1, QueueShrinks
<1>3. PlacesAddUp' /\ value' \in 0 .. Concurrency
  <2>1. value \in Nat
    BY GatewayTypes
  <2>2. value' = value + 0 - 1 /\ value' >= 0
    BY <1>1, <2>1
  <2>3. QED BY <1>1, <1>2, <2>2, PlacesMove
<1>4. late[c] = 0
  <2>1. ~(late[c] >= 1)
    BY <1>2 DEF GatewayInv, CallInTime
  <2>2. late[c] \in 0 .. 2
    BY GatewayTypes
  <2>3. QED BY <2>1, <2>2
<1>5. PICK t \in Nat : t = Gateway!Most(1, Timeout - age[c])
  BY GatewayTypes DEF Gateway!Most
<1>6. t = 1 \/ age[c] + t = Timeout
  BY <1>5, GatewayTypes DEF Gateway!Most
<1>7. late' = [late EXCEPT ![c] = IF age[c] >= Timeout THEN 1 ELSE 0]
  BY <1>1, <1>4 DEF Gateway!Least
<1>8. left' = [left EXCEPT ![c] = t]
  BY <1>1, <1>5
<1>9. Gateway!TypeOK'
  <2>1. phase' \in [Asked -> {"new", "queued", "asking", "pausing", "ended"}]
    BY <1>1, GatewayTypes
  <2>2. left' \in [Asked -> Nat]
    BY <1>8, GatewayTypes
  <2>3. (IF age[c] >= Timeout THEN 1 ELSE 0) \in 0 .. 2
    OBVIOUS
  <2>4. late' \in [Asked -> 0 .. 2]
    BY <1>7, <2>3, GatewayTypes
  <2>5. QED BY <1>1, <1>2, <1>3, <2>1, <2>2, <2>4, GatewayTypes DEF Gateway!TypeOK
<1>10. ASSUME NEW d \in Asked
       PROVE  CallInTime(d)'
  <2>1. CASE d = c
    <3>1. /\ phase'[c] = "asking" /\ age'[c] = age[c] /\ left'[c] = t
          /\ late'[c] = IF age[c] >= Timeout THEN 1 ELSE 0
          /\ outcome'[c] = outcome[c]
      BY <1>1, <1>7, <1>8, GatewayTypes
    <3>2. outcome[c] # "retryable"
      BY <1>2 DEF GatewayInv, CallInTime
    <3>3. QED BY <1>6, <2>1, <3>1, <3>2, GatewayTypes DEF CallInTime
  <2>2. CASE d # c
    <3>1. CallInTime(d)
      BY DEF GatewayInv
    <3>2. QED BY <1>1, <1>7, <1>8, <2>2, <3>1, GatewayTypes, OthersInTime
  <2>3. QED BY <2>1, <2>2
<1>11. QED BY <1>2, <1>3, <1>9, <1>10 DEF GatewayInv

LEMMA RespondKeeps ==
  ASSUME Gateway!NumbersAssumption, GatewayInv, NEW c \in Asked,
         NEW r \in Gateway!Responses, Gateway!Respond(c, r)
  PROVE  GatewayInv'
<1>1. PICK how \in {"result", "permanent"} : outcome' = [outcome EXCEPT ![c] = how]
  BY DEF Gateway!Respond, Gateway!End
<1>2. /\ phase[c] = "asking" /\ phase' = [phase EXCEPT ![c] = "ended"] /\ value' = value + 1
      /\ UNCHANGED <<waiters, attempt, age, left, late>>
  BY DEF Gateway!Respond, Gateway!End
<1>3. Queued'
  BY <1>2, QueueStays
<1>4. PlacesAddUp' /\ value' \in 0 .. Concurrency
  <2>1. value \in Nat
    BY GatewayTypes
  <2>2. value' = value + 1 - 0 /\ value' >= 0
    BY <1>2, <2>1
  <2>3. QED BY <1>2, <2>2, PlacesMove
<1>5. Gateway!TypeOK'
  BY <1>1, <1>2, <1>4, GatewayTypes DEF Gateway!TypeOK
<1>6. ASSUME NEW d \in Asked
      PROVE  CallInTime(d)'
  BY <1>1, <1>2, GatewayTypes DEF GatewayInv, CallInTime
<1>7. QED BY <1>3, <1>4, <1>5, <1>6 DEF GatewayInv

LEMMA FailKeeps ==
  ASSUME Gateway!NumbersAssumption, GatewayInv, NEW c \in Asked, NEW error, Gateway!Fail(c, error)
  PROVE  GatewayInv'
<1>1. /\ phase[c] = "asking" /\ value' = value + 1
      /\ UNCHANGED <<waiters, attempt, age, late>>
  BY DEF Gateway!Fail
<1>2. CASE Gateway!MayRetry(c, error)
  <2>1. phase' = [phase EXCEPT ![c] = "pausing"] /\ UNCHANGED outcome
    BY <1>2 DEF Gateway!Fail, Gateway!Retry
  <2>2. PICK t : t = Pauses[Gateway!Least(attempt[c] + 1, Len(Pauses))]
    OBVIOUS
  <2>3. left' = [left EXCEPT ![c] = t]
    BY <1>2, <2>2 DEF Gateway!Fail, Gateway!Retry
  <2>4. attempt[c] < MaxRetries /\ age[c] < Timeout
    BY <1>2 DEF Gateway!MayRetry
  <2>5. t \in Nat
    <3>1. Pauses \in Seq(Nat \ {0}) /\ Len(Pauses) \in Nat \ {0}
      BY EmptySeq DEF Gateway!NumbersAssumption
    <3>2. attempt[c] \in Nat
      BY GatewayTypes
    <3>3. Gateway!Least(attempt[c] + 1, Len(Pauses)) \in 1 .. Len(Pauses)
      BY <3>1, <3>2 DEF Gateway!Least
    <3>4. t \in Nat \ {0}
      BY <2>2, <3>1, <3>3, ElementOfSeq
    <3>5. QED BY <3>4
  <2>6. Queued'
    BY <1>1, <2>1, QueueStays
  <2>7. PlacesAddUp' /\ value' \in 0 .. Concurrency
    <3>1. value \in Nat
      BY GatewayTypes
    <3>2. value' = value + 1 - 0 /\ value' >= 0
      BY <1>1, <3>1
    <3>3. QED BY <1>1, <2>1, <3>2, PlacesMove
  <2>8. Gateway!TypeOK'
    BY <1>1, <2>1, <2>3, <2>5, <2>7, GatewayTypes DEF Gateway!TypeOK
  <2>9. ASSUME NEW d \in Asked
        PROVE  CallInTime(d)'
    <3>1. CallInTime(d)
      BY DEF GatewayInv
    <3>2. CASE d = c
      <4>1. /\ phase'[c] = "pausing" /\ age'[c] = age[c] /\ late'[c] = late[c]
            /\ attempt'[c] = attempt[c] /\ outcome'[c] = outcome[c]
        BY <1>1, <2>1, GatewayTypes
      <4>2. ~(late[c] >= 1) /\ outcome[c] # "retryable"
        BY <1>1, <2>4, <3>1, <3>2, GatewayTypes DEF CallInTime
      <4>3. QED BY <2>4, <3>1, <3>2, <4>1, <4>2 DEF CallInTime
    <3>3. CASE d # c
      BY <1>1, <2>1, <2>3, <3>1, <3>3, GatewayTypes, OthersInTime
    <3>4. QED BY <3>2, <3>3
  <2>10. QED BY <1>1, <2>6, <2>7, <2>8, <2>9 DEF GatewayInv
<1>3. CASE ~Gateway!MayRetry(c, error)
  <2>1. PICK how \in {"retryable", "permanent"} :
          how = Gateway!Class(c, error) /\ outcome' = [outcome EXCEPT ![c] = how]
    BY <1>3 DEF Gateway!Fail, Gateway!End, Gateway!Class, Gateway!AnthropicClass, Gateway!OpenAIClass
  <2>2. phase' = [phase EXCEPT ![c] = "ended"] /\ UNCHANGED left
    BY <1>3 DEF Gateway!Fail, Gateway!End
  <2>3. how = "retryable" => attempt[c] = MaxRetries \/ age[c] >= Timeout
    BY <1>3, <2>1, GatewayTypes DEF Gateway!MayRetry
  <2>4. Queued'
    BY <1>1, <2>2, QueueStays
  <2>5. PlacesAddUp' /\ value' \in 0 .. Concurrency
    <3>1. value \in Nat
      BY GatewayTypes
    <3>2. value' = value + 1 - 0 /\ value' >= 0
      BY <1>1, <3>1
    <3>3. QED BY <1>1, <2>2, <3>2, PlacesMove
  <2>6. Gateway!TypeOK'
    BY <1>1, <2>1, <2>2, <2>5, GatewayTypes DEF Gateway!TypeOK
  <2>7. ASSUME NEW d \in Asked
        PROVE  CallInTime(d)'
    <3>1. CallInTime(d)
      BY DEF GatewayInv
    <3>2. CASE d = c
      <4>1. /\ phase'[c] = "ended" /\ age'[c] = age[c] /\ late'[c] = late[c]
            /\ attempt'[c] = attempt[c] /\ outcome'[c] = how
        BY <1>1, <2>1, <2>2, GatewayTypes
      <4>2. QED BY <2>3, <3>1, <3>2, <4>1 DEF CallInTime
    <3>3. CASE d # c
      BY <1>1, <2>1, <2>2, <3>1, <3>3, GatewayTypes, OthersInTime
    <3>4. QED BY <3>2, <3>3
  <2>8. QED BY <1>1, <2>4, <2>5, <2>6, <2>7 DEF GatewayInv
<1>4. QED BY <1>2, <1>3

LEMMA ResumeKeeps ==
  ASSUME Gateway!NumbersAssumption, GatewayInv, NEW c \in Asked, Gateway!Resume(c)
  PROVE  GatewayInv'
<1>1. /\ phase[c] = "pausing" /\ phase' = [phase EXCEPT ![c] = "queued"]
      /\ attempt' = [attempt EXCEPT ![c] = @ + 1]
      /\ UNCHANGED <<value, age, left, late, outcome>>
  BY DEF Gateway!Resume, Gateway!Queue
<1>2. Queued' /\ waiters' \in Seq(Asked)
  BY <1>1, QueueGrows DEF Gateway!Resume
<1>3. PlacesAddUp'
  <2>1. value \in Nat
    BY GatewayTypes
  <2>2. value' = value + 0 - 0 /\ value' >= 0
    BY <1>1, <2>1
  <2>3. QED BY <1>1, <2>1, <2>2, PlacesMove
<1>4. attempt[c] < MaxRetries
  BY <1>1 DEF GatewayInv, CallInTime
<1>5. attempt' \in [Asked -> 0 .. MaxRetries]
  BY <1>1, <1>4, GatewayTypes
<1>6. Gateway!TypeOK'
  BY <1>1, <1>2, <1>5, GatewayTypes DEF Gateway!TypeOK
<1>7. ASSUME NEW d \in Asked
      PROVE  CallInTime(d)'
  <2>1. CallInTime(d)
    BY DEF GatewayInv
  <2>2. CASE d = c
    <3>1. phase'[c] = "queued" /\ late'[c] = late[c] /\ outcome'[c] = outcome[c]
      BY <1>1, GatewayTypes
    <3>2. ~(late[c] >= 1) /\ outcome[c] # "retryable"
      BY <1>1, <2>1, <2>2 DEF CallInTime
    <3>3. QED BY <2>1, <2>2, <3>1, <3>2 DEF CallInTime
  <2>3. CASE d # c
    BY <1>1, <2>1, <2>3, GatewayTypes, OthersInTime
  <2>4. QED BY <2>2, <2>3
<1>8. QED BY <1>1, <1>2, <1>3, <1>6, <1>7 DEF GatewayInv

LEMMA CancelKeeps ==
  ASSUME Gateway!NumbersAssumption, GatewayInv, NEW c \in Asked, Gateway!Cancel(c)
  PROVE  GatewayInv'
<1>1. /\ phase' = [phase EXCEPT ![c] = "ended"] /\ outcome' = [outcome EXCEPT ![c] = "cancelled"]
      /\ waiters' = Gateway!RemoveFirst(waiters, c)
      /\ value' = value + (IF phase[c] = "asking" THEN 1 ELSE 0)
      /\ UNCHANGED <<attempt, age, left, late>>
  BY DEF Gateway!Cancel, Gateway!End
<1>2. Queued' /\ waiters' \in Seq(Asked)
  BY <1>1, QueueForgets
<1>3. PlacesAddUp' /\ value' \in 0 .. Concurrency
  <2>1. value \in Nat
    BY GatewayTypes
  <2>2. value' = value + (IF phase[c] = "asking" THEN 1 ELSE 0) - 0 /\ value' >= 0
    BY <1>1, <2>1
  <2>3. QED BY <1>1, <2>2, PlacesMove
<1>4. Gateway!TypeOK'
  BY <1>1, <1>2, <1>3, GatewayTypes DEF Gateway!TypeOK
<1>5. ASSUME NEW d \in Asked
      PROVE  CallInTime(d)'
  BY <1>1, GatewayTypes DEF GatewayInv, CallInTime
<1>6. QED BY <1>2, <1>3, <1>4, <1>5 DEF GatewayInv

LEMMA TickKeeps ==
  ASSUME Gateway!NumbersAssumption, GatewayInv, Gateway!Tick
  PROVE  GatewayInv'
<1>1. /\ \A c \in Asked : Gateway!Timed(c) => left[c] > 0
      /\ age' = [c \in Asked |-> IF Gateway!Open(c) THEN Gateway!Least(Timeout + 1, age[c] + 1) ELSE age[c]]
      /\ left' = [c \in Asked |-> IF Gateway!Timed(c) THEN left[c] - 1 ELSE left[c]]
      /\ UNCHANGED <<phase, value, waiters, attempt, late, outcome>>
  BY DEF Gateway!Tick
<1>2. ASSUME NEW c \in Asked
      PROVE  /\ age'[c] \in 0 .. Timeout + 1 /\ age'[c] >= age[c] /\ age'[c] <= age[c] + 1
             /\ left'[c] \in Nat
             /\ phase[c] = "asking" => left'[c] = left[c] - 1 /\ left[c] > 0
    <2>1. age[c] \in 0 .. Timeout + 1 /\ Timeout \in Nat /\ left[c] \in Nat
      BY GatewayTypes
    <2>2. age'[c] = IF Gateway!Open(c) THEN Gateway!Least(Timeout + 1, age[c] + 1) ELSE age[c]
      BY <1>1
    <2>3. left'[c] = IF Gateway!Timed(c) THEN left[c] - 1 ELSE left[c]
      BY <1>1
    <2>4. age'[c] \in 0 .. Timeout + 1 /\ age'[c] >= age[c] /\ age'[c] <= age[c] + 1
      BY <2>1, <2>2 DEF Gateway!Least
    <2>5. Gateway!Timed(c) => left[c] > 0
      BY <1>1
    <2>6. phase[c] = "asking" => Gateway!Timed(c)
      BY DEF Gateway!Timed
    <2>7. QED BY <2>1, <2>3, <2>4, <2>5, <2>6
<1>3. Gateway!TypeOK'
  <2>1. age' \in [Asked -> 0 .. Timeout + 1] /\ left' \in [Asked -> Nat]
    BY <1>1, <1>2
  <2>2. QED BY <1>1, <2>1, GatewayTypes DEF Gateway!TypeOK
<1>4. Queued'
  BY <1>1 DEF GatewayInv, Queued
<1>5. PlacesAddUp'
  BY <1>1 DEF GatewayInv, PlacesAddUp, Gateway!Asking
<1>6. ASSUME NEW c \in Asked
      PROVE  CallInTime(c)'
  <2>1. CallInTime(c)
    BY DEF GatewayInv
  <2>2. /\ age[c] \in Nat /\ left[c] \in Nat /\ age'[c] \in Nat /\ left'[c] \in Nat
        /\ Timeout \in Nat /\ late[c] \in Nat
    <3>1. /\ age[c] \in 0 .. Timeout + 1 /\ left[c] \in Nat
          /\ Timeout \in Nat /\ late[c] \in 0 .. 2
      BY GatewayTypes
    <3>2. age'[c] \in 0 .. Timeout + 1 /\ left'[c] \in Nat
      BY <1>2
    <3>3. QED BY <3>1, <3>2
  <2>3. phase[c] = "asking" => age'[c] + left'[c] <= Timeout \/ left'[c] <= 1
    BY <1>2, <2>1, <2>2 DEF CallInTime
  <2>4. age[c] >= Timeout => age'[c] >= Timeout
    BY <1>2, <2>2
  <2>5. QED BY <1>1, <2>1, <2>3, <2>4 DEF CallInTime
<1>7. QED BY <1>1, <1>3, <1>4, <1>5, <1>6 DEF GatewayInv

LEMMA GatewayNext ==
  ASSUME Gateway!NumbersAssumption, GatewayInv, [Gateway!Next]_(Gateway!vars)
  PROVE  GatewayInv'
<1>1. ASSUME NEW c \in Asked, Gateway!Call(c)
      PROVE  GatewayInv'
  BY <1>1, CallKeeps
<1>2. ASSUME NEW c \in Asked, Gateway!Acquire(c)
      PROVE  GatewayInv'
  BY <1>2, AcquireKeeps
<1>3. ASSUME NEW c \in Asked, Gateway!TimesOut(c)
      PROVE  GatewayInv'
  BY <1>3, FailKeeps DEF Gateway!TimesOut
<1>4. ASSUME NEW c \in Asked, Gateway!Resume(c)
      PROVE  GatewayInv'
  BY <1>4, ResumeKeeps
<1>5. ASSUME NEW c \in Asked, Gateway!Cancel(c)
      PROVE  GatewayInv'
  BY <1>5, CancelKeeps
<1>6. ASSUME NEW c \in Asked, NEW r \in Gateway!Responses, Gateway!Respond(c, r)
      PROVE  GatewayInv'
  BY <1>6, RespondKeeps
<1>7. ASSUME NEW c \in Asked, NEW error \in Gateway!Errors(c), Gateway!Fail(c, error)
      PROVE  GatewayInv'
  BY <1>7, FailKeeps
<1>8. CASE Gateway!Tick
  BY <1>8, TickKeeps
<1>9. CASE UNCHANGED Gateway!vars
  <2>1. UNCHANGED <<phase, value, waiters, attempt, age, left, late, outcome>>
    BY <1>9 DEF Gateway!vars
  <2>2. Gateway!TypeOK'
    BY <2>1 DEF GatewayInv, Gateway!TypeOK
  <2>3. Queued' /\ PlacesAddUp' /\ \A c \in Asked : CallInTime(c)'
    BY <2>1 DEF GatewayInv, Queued, PlacesAddUp, CallInTime, Gateway!Asking
  <2>4. QED BY <2>2, <2>3 DEF GatewayInv
<1>10. QED BY <1>1, <1>2, <1>3, <1>4, <1>5, <1>6, <1>7, <1>8, <1>9 DEF Gateway!Next

\* PlacesAndTimesKept of the run providers: whatever the calls, the limits and the
\* answers, every way out of a request gives its place back, no request outlives
\* its call by more than the least timeout, and a call gives up on an error that
\* may pass only when its retries or its time are used up
\* (ClaudeModelGateway.structured, OpenAIModelProvider.model_turn).
THEOREM PlacesAndTimesAreKept ==
  ASSUME Gateway!NumbersAssumption
  PROVE  Gateway!Spec => []PlacesAndTimesKept
<1>1. Gateway!Init => GatewayInv
  BY GatewayInit
<1>2. GatewayInv /\ [Gateway!Next]_(Gateway!vars) => GatewayInv'
  BY GatewayNext
<1>3. GatewayInv => PlacesAndTimesKept
  <2> SUFFICES ASSUME GatewayInv
               PROVE  PlacesAndTimesKept
    OBVIOUS
  <2>1. Gateway!NoPlaceLeaks
    BY DEF GatewayInv, PlacesAddUp, Gateway!NoPlaceLeaks, Gateway!Cardinality, Cardinality
  <2>2. Gateway!RequestInTime /\ Gateway!OneLateRequest /\ Gateway!GivesUpLast
    BY DEF GatewayInv, CallInTime, Gateway!RequestInTime, Gateway!OneLateRequest,
           Gateway!GivesUpLast, Gateway!Asking
  <2>3. QED BY <2>1, <2>2 DEF GatewayInv, PlacesAndTimesKept, Gateway!PlacesAndTimesKept
<1>4. QED BY <1>1, <1>2, <1>3, PTL DEF Gateway!Spec

-----------------------------------------------------------------------------
(* The MCP manager. A lock is held by a user of its server, a server has no *)
(* session while one is connected, and when the application serves every    *)
(* server has one, so that nothing is opened until close is through.        *)

Locks ==
  /\ \A u \in Mcp!Users : Mcp!Holds(u) <=> lock[server[u]] = u
  /\ \A s \in Mcp!ServerSet : lock[s] # Nobody => server[lock[s]] = s

ListedOnly ==
  /\ \A pair \in registered \cup asked : pair[2] \in Allowed[pair[1]]
  /\ \A c \in Calls : at[c] \notin {"new", "ended"} => tool[c] \in Allowed[server[c]]

Connecting ==
  \A u \in Mcp!Users :
    at[u] = "connecting" => session[server[u]] = Nobody /\ <<u, server[u]>> \in open

SessionsOpen ==
  app # "closing" =>
    \A s \in Mcp!ServerSet : session[s] # Nobody => <<session[s], s>> \in open \ stray

Discovering ==
  IF app = "starting"
    THEN /\ \A c \in Calls : at[c] = "new"
         /\ \A i, j \in DOMAIN Servers :
              Servers[j] = server[Discovery] /\ i < j => session[Servers[i]] # Nobody
         /\ at[Discovery] = "listing" => session[server[Discovery]] # Nobody
    ELSE at[Discovery] = "ended"

Closing ==
  /\ app \in {"serving", "closing"} => \A s \in Mcp!ServerSet : session[s] # Nobody
  /\ closing = IF app = "closing" THEN open \ stray ELSE {}
  /\ app \in {"closing", "closed"} => \A c \in Calls \ Untracked : at[c] \in {"new", "ended"}

\* Nobody connects to a server twice: what a user is about to open is not open.
Fresh ==
  /\ \A u \in Mcp!Users : at[u] = "connecting" => <<u, server[u]>> \notin stray
  /\ \A c \in Calls, s \in Mcp!ServerSet : at[c] \in {"new", "waiting"} => <<c, s>> \notin open
  /\ app = "starting" =>
       \A i, j \in DOMAIN Servers :
         /\ Servers[j] = server[Discovery]
         /\ j < i \/ (j = i /\ at[Discovery] \in {"new", "waiting"})
         => <<Discovery, Servers[i]>> \notin open

McpInv ==
  /\ Mcp!TypeOK /\ Locks /\ ListedOnly /\ Connecting /\ SessionsOpen /\ Discovering /\ Closing /\ Fresh
  /\ Mcp!SessionsAreHeld /\ Mcp!CloseReachesAll

LEMMA McpTypes ==
  ASSUME Mcp!UsersAssumption, Mcp!ServersAssumption, McpInv
  PROVE  /\ app \in {"starting", "serving", "closing", "closed", "failed"}
         /\ at \in [Mcp!Users -> {"new", "waiting", "connecting", "listing", "calling", "ended"}]
         /\ server \in [Mcp!Users -> Mcp!ServerSet] /\ tool \in [Calls -> Tools]
         /\ lock \in [Mcp!ServerSet -> Mcp!Users \cup {Nobody}]
         /\ session \in [Mcp!ServerSet -> Mcp!Users \cup {Nobody}]
         /\ tools \in [Mcp!ServerSet -> (SUBSET Tools) \cup {Mcp!None}]
         /\ open \subseteq Mcp!Users \X Mcp!ServerSet /\ stray \subseteq open
         /\ closing \subseteq Mcp!Users \X Mcp!ServerSet
         /\ registered \subseteq Mcp!ServerSet \X Tools /\ asked \subseteq Mcp!ServerSet \X Tools
BY DEF McpInv, Mcp!TypeOK

LEMMA McpNames ==
  ASSUME Mcp!UsersAssumption, Mcp!ServersAssumption
  PROVE  /\ Mcp!Users = Calls \cup {Discovery} /\ Nobody \notin Mcp!Users /\ Nobody \notin Tools
         /\ Discovery \notin Calls /\ Untracked \subseteq Calls
         /\ Allowed \in [Mcp!ServerSet -> SUBSET Tools] /\ Published \in [Mcp!ServerSet -> SUBSET Tools]
BY DEF Mcp!UsersAssumption, Mcp!ServersAssumption, Mcp!Users

LEMMA ServerList ==
  ASSUME Mcp!ServersAssumption
  PROVE  /\ Len(Servers) \in Nat \ {0} /\ DOMAIN Servers = 1 .. Len(Servers) /\ 1 \in DOMAIN Servers
         /\ \A i \in 1 .. Len(Servers) : Servers[i] \in Mcp!ServerSet
         /\ Servers[1] \in Mcp!ServerSet
         /\ \A i, j \in DOMAIN Servers : Servers[i] = Servers[j] => i = j
         /\ \A s \in Mcp!ServerSet : \E i \in 1 .. Len(Servers) : s = Servers[i]
<1>1. Servers \in Seq(Mcp!ServerSet) /\ Servers # <<>> /\ Mcp!IsInjective(Servers)
  BY DEF Mcp!ServersAssumption
<1>2. Len(Servers) \in Nat \ {0} /\ DOMAIN Servers = 1 .. Len(Servers)
  BY <1>1, EmptySeq, LenProperties
<1>3. 1 \in 1 .. Len(Servers)
  BY <1>2
<1>4. \A i \in 1 .. Len(Servers) : Servers[i] \in Mcp!ServerSet
  BY <1>1, ElementOfSeq
<1>5. \A i, j \in DOMAIN Servers : Servers[i] = Servers[j] => i = j
  BY <1>1 DEF Mcp!IsInjective
<1>6. \A s \in Mcp!ServerSet : \E i \in 1 .. Len(Servers) : s = Servers[i]
  BY <1>2 DEF Mcp!ServerSet, Mcp!ToSet
<1>7. QED BY <1>2, <1>3, <1>4, <1>5, <1>6

LEMMA TakesLock ==
  ASSUME Mcp!UsersAssumption, Mcp!ServersAssumption, McpInv, NEW u \in Mcp!Users,
         at[u] = "waiting", lock[server[u]] = Nobody,
         NEW p \in {"connecting", "listing", "calling"}, at' = [at EXCEPT ![u] = p],
         lock' = [lock EXCEPT ![server[u]] = u], server' = server
  PROVE  Locks'
<1>1. ASSUME NEW v \in Mcp!Users
      PROVE  Mcp!Holds(v)' <=> lock'[server'[v]] = v
  <2>1. CASE v = u
    BY <2>1, McpTypes DEF Mcp!Holds
  <2>2. CASE v # u
    <3>1. Mcp!Holds(v)' <=> Mcp!Holds(v)
      BY <2>2, McpTypes DEF Mcp!Holds
    <3>2. Mcp!Holds(v) <=> lock[server[v]] = v
      BY DEF McpInv, Locks
    <3>3. lock'[server[v]] = v <=> lock[server[v]] = v
      BY <2>2, McpTypes, McpNames
    <3>4. QED BY <3>1, <3>2, <3>3
  <2>3. QED BY <2>1, <2>2
<1>2. ASSUME NEW s \in Mcp!ServerSet, lock'[s] # Nobody
      PROVE  server'[lock'[s]] = s
  BY <1>2, McpTypes DEF McpInv, Locks
<1>3. QED BY <1>1, <1>2 DEF Locks

LEMMA KeepsLock ==
  ASSUME Mcp!UsersAssumption, Mcp!ServersAssumption, McpInv, NEW u \in Mcp!Users, Mcp!Holds(u),
         NEW p \in {"connecting", "listing", "calling"}, at' = [at EXCEPT ![u] = p],
         UNCHANGED <<lock, server>>
  PROVE  Locks'
<1>1. ASSUME NEW v \in Mcp!Users
      PROVE  Mcp!Holds(v)' <=> Mcp!Holds(v)
  BY McpTypes DEF Mcp!Holds
<1>2. QED BY <1>1 DEF McpInv, Locks

LEMMA LeavesLock ==
  ASSUME Mcp!UsersAssumption, Mcp!ServersAssumption, McpInv, NEW u \in Mcp!Users, Mcp!Holds(u),
         NEW p \in {"new", "waiting", "ended"}, at' = [at EXCEPT ![u] = p],
         lock' = [lock EXCEPT ![server[u]] = Nobody],
         NEW s \in Mcp!ServerSet, server' = [server EXCEPT ![u] = s]
  PROVE  Locks'
<1>1. lock[server[u]] = u
  BY DEF McpInv, Locks
<1>2. ASSUME NEW v \in Mcp!Users
      PROVE  Mcp!Holds(v)' <=> lock'[server'[v]] = v
  <2>1. CASE v = u
    <3>1. ~Mcp!Holds(u)' /\ server'[u] = s
      BY McpTypes DEF Mcp!Holds
    <3>2. lock'[s] # u
      <4>1. CASE s = server[u]
        BY <4>1, McpTypes, McpNames
      <4>2. CASE s # server[u]
        <5>1. lock[s] = u => server[u] = s
          BY McpNames DEF McpInv, Locks
        <5>2. QED BY <4>2, <5>1, McpTypes
      <4>3. QED BY <4>1, <4>2
    <3>3. QED BY <2>1, <3>1, <3>2
  <2>2. CASE v # u
    <3>1. (Mcp!Holds(v)' <=> Mcp!Holds(v)) /\ server'[v] = server[v]
      BY <2>2, McpTypes DEF Mcp!Holds
    <3>2. Mcp!Holds(v) <=> lock[server[v]] = v
      BY DEF McpInv, Locks
    <3>3. lock'[server[v]] = v <=> lock[server[v]] = v
      BY <1>1, <2>2, McpTypes, McpNames
    <3>4. QED BY <3>1, <3>2, <3>3
  <2>3. QED BY <2>1, <2>2
<1>3. ASSUME NEW r \in Mcp!ServerSet, lock'[r] # Nobody
      PROVE  server'[lock'[r]] = r
  <2>1. r # server[u] /\ lock'[r] = lock[r] /\ lock[r] \in Mcp!Users
    BY <1>3, McpTypes
  <2>2. server[lock[r]] = r
    BY <1>3, <2>1 DEF McpInv, Locks
  <2>3. lock[r] # u
    BY <2>1, <2>2
  <2>4. QED BY <2>1, <2>2, <2>3, McpTypes
<1>4. QED BY <1>2, <1>3 DEF Locks

LEMMA NeedsNoLock ==
  ASSUME Mcp!UsersAssumption, Mcp!ServersAssumption, McpInv, NEW u \in Mcp!Users, ~Mcp!Holds(u),
         NEW p \in {"new", "waiting", "ended"}, at' = [at EXCEPT ![u] = p], lock' = lock,
         NEW s \in Mcp!ServerSet, server' = [server EXCEPT ![u] = s]
  PROVE  Locks'
<1>1. \A r \in Mcp!ServerSet : lock[r] # u
  <2>1. ASSUME NEW r \in Mcp!ServerSet, lock[r] = u
        PROVE  FALSE
    <3>1. server[u] = r
      BY <2>1, McpNames DEF McpInv, Locks
    <3>2. lock[server[u]] = u
      BY <2>1, <3>1
    <3>3. QED BY <3>2 DEF McpInv, Locks
  <2>2. QED BY <2>1
<1>2. ASSUME NEW v \in Mcp!Users
      PROVE  Mcp!Holds(v)' <=> lock'[server'[v]] = v
  <2>1. CASE v = u
    BY <1>1, <2>1, McpTypes DEF Mcp!Holds
  <2>2. CASE v # u
    <3>1. (Mcp!Holds(v)' <=> Mcp!Holds(v)) /\ server'[v] = server[v]
      BY <2>2, McpTypes DEF Mcp!Holds
    <3>2. QED BY <3>1 DEF McpInv, Locks
  <2>3. QED BY <2>1, <2>2
<1>3. ASSUME NEW r \in Mcp!ServerSet, lock'[r] # Nobody
      PROVE  server'[lock'[r]] = r
  <2>1. lock[r] # u /\ lock[r] \in Mcp!Users /\ server[lock[r]] = r
    BY <1>1, <1>3, McpTypes DEF McpInv, Locks
  <2>2. QED BY <2>1, McpTypes
<1>4. QED BY <1>2, <1>3 DEF Locks

\* One user connects to a server at a time.
LEMMA OneConnects ==
  ASSUME Mcp!UsersAssumption, Mcp!ServersAssumption, McpInv,
         NEW u \in Mcp!Users, NEW v \in Mcp!Users, Mcp!Holds(u), Mcp!Holds(v), server[u] = server[v]
  PROVE  u = v
BY DEF McpInv, Locks

LEMMA McpInit ==
  ASSUME Mcp!UsersAssumption, Mcp!ServersAssumption, Mcp!Init
  PROVE  McpInv
<1>1. /\ app = "starting" /\ at = [u \in Mcp!Users |-> "new"]
      /\ server = [u \in Mcp!Users |-> Servers[1]] /\ tool \in [Calls -> Tools]
      /\ lock = [s \in Mcp!ServerSet |-> Nobody] /\ session = [s \in Mcp!ServerSet |-> Nobody]
      /\ tools = [s \in Mcp!ServerSet |-> Mcp!None]
      /\ open = {} /\ stray = {} /\ closing = {} /\ registered = {} /\ asked = {}
  BY DEF Mcp!Init
<1>2. /\ Discovery \in Mcp!Users /\ Calls \subseteq Mcp!Users /\ Nobody \notin Mcp!Users
  BY McpNames
<1>3. Servers[1] \in Mcp!ServerSet /\ 1 \in DOMAIN Servers
        /\ \A i, j \in DOMAIN Servers : Servers[i] = Servers[j] => i = j
  BY ServerList
<1>4. Mcp!TypeOK
  <2>1. \A u \in Mcp!Users : ~Mcp!Holds(u)
    BY <1>1 DEF Mcp!Holds
  <2>2. \A u \in Mcp!Users : lock[server[u]] # u
    BY <1>1, <1>2, <1>3
  <2>3. \A u \in Mcp!Users : Mcp!Holds(u) <=> lock[server[u]] = u
    BY <2>1, <2>2
  <2>4. QED BY <1>1, <1>3, <2>3 DEF Mcp!TypeOK
<1>5. Locks
  BY <1>1, <1>4 DEF Mcp!TypeOK, Locks
<1>6. ListedOnly /\ Connecting /\ SessionsOpen
  BY <1>1, <1>2 DEF ListedOnly, Connecting, SessionsOpen
<1>7. Discovering
  <2>1. ASSUME NEW i \in DOMAIN Servers, NEW j \in DOMAIN Servers, Servers[j] = server[Discovery], i < j
        PROVE  FALSE
    <3>1. j = 1
      BY <1>1, <1>2, <1>3, <2>1
    <3>2. i \in 1 .. Len(Servers)
      BY ServerList
    <3>3. QED BY <2>1, <3>1, <3>2
  <2>2. QED BY <1>1, <1>2, <2>1 DEF Discovering
<1>8. Closing
  BY <1>1 DEF Closing
<1>9. Mcp!SessionsAreHeld /\ Mcp!CloseReachesAll
  BY <1>1 DEF Mcp!SessionsAreHeld, Mcp!CloseReachesAll
<1>10. Fresh
  BY <1>1 DEF Fresh
<1>11. QED BY <1>4, <1>5, <1>6, <1>7, <1>8, <1>9, <1>10 DEF McpInv

\* A user that has the lock goes on or leaves it; a session is set by the one
\* that has connected.
LEMMA HolderMoves ==
  ASSUME Mcp!UsersAssumption, Mcp!ServersAssumption, McpInv, NEW u \in Mcp!Users,
         at[u] \in {"connecting", "listing"},
         NEW p \in {"listing", "calling", "new", "ended"}, at' = [at EXCEPT ![u] = p],
         session' = IF at[u] = "connecting" THEN [session EXCEPT ![server[u]] = u] ELSE session,
         lock' = IF p \in {"listing", "calling"} THEN lock ELSE [lock EXCEPT ![server[u]] = Nobody],
         NEW s \in Mcp!ServerSet, server' = [server EXCEPT ![u] = s],
         p \in {"listing", "calling"} => s = server[u],
         app' = app \/ app = "starting",
         UNCHANGED <<open, stray>>
  PROVE  /\ Locks' /\ Connecting' /\ SessionsOpen' /\ Mcp!SessionsAreHeld'
         /\ session' \in [Mcp!ServerSet -> Mcp!Users \cup {Nobody}]
         /\ lock' \in [Mcp!ServerSet -> Mcp!Users \cup {Nobody}]
         /\ \A r \in Mcp!ServerSet : session[r] # Nobody => session'[r] # Nobody
         /\ session'[server[u]] # Nobody \/ at[u] = "listing"
<1>1. Mcp!Holds(u) /\ lock[server[u]] = u
  BY DEF McpInv, Locks, Mcp!Holds
<1>2. Locks'
  <2>1. CASE p \in {"listing", "calling"}
    <3>1. lock' = lock /\ server' = server
      BY <2>1, McpTypes
    <3>2. QED BY <1>1, <2>1, <3>1, KeepsLock
  <2>2. CASE p \in {"new", "ended"}
    BY <1>1, <2>2, LeavesLock
  <2>3. QED BY <2>1, <2>2
<1>3. /\ session' \in [Mcp!ServerSet -> Mcp!Users \cup {Nobody}]
      /\ lock' \in [Mcp!ServerSet -> Mcp!Users \cup {Nobody}]
  BY McpTypes
<1>4. at[u] = "connecting" => session[server[u]] = Nobody /\ session'[server[u]] = u
  BY McpTypes DEF McpInv, Connecting
<1>5. \A r \in Mcp!ServerSet : session[r] # Nobody => session'[r] = session[r]
  BY <1>4, McpTypes
<1>6. Connecting'
  <2>1. ASSUME NEW v \in Mcp!Users, at'[v] = "connecting"
        PROVE  session'[server'[v]] = Nobody /\ <<v, server'[v]>> \in open'
    <3>1. v # u /\ at[v] = "connecting" /\ server'[v] = server[v]
      BY <2>1, McpTypes
    <3>2. session[server[v]] = Nobody /\ <<v, server[v]>> \in open
      BY <3>1 DEF McpInv, Connecting
    <3>3. server[v] # server[u]
      BY <1>1, <3>1, OneConnects DEF Mcp!Holds
    <3>4. QED BY <3>1, <3>2, <3>3, McpTypes
  <2>2. QED BY <2>1 DEF Connecting
<1>7. SessionsOpen'
  <2>1. ASSUME app' # "closing", NEW r \in Mcp!ServerSet, session'[r] # Nobody
        PROVE  <<session'[r], r>> \in open \ stray
    <3>1. app # "closing"
      BY <2>1
    <3>2. CASE at[u] = "connecting" /\ r = server[u]
      <4>1. <<u, server[u]>> \in open \ stray
        BY <3>2 DEF McpInv, Connecting, Fresh
      <4>2. QED BY <1>4, <3>2, <4>1
    <3>3. CASE ~(at[u] = "connecting" /\ r = server[u])
      <4>1. session'[r] = session[r]
        BY <3>3, McpTypes
      <4>2. QED BY <2>1, <3>1, <4>1 DEF McpInv, SessionsOpen
    <3>4. QED BY <3>2, <3>3
  <2>2. QED BY <2>1 DEF SessionsOpen
<1>8. Mcp!SessionsAreHeld'
  <2>1. ASSUME NEW x \in open \ stray
        PROVE  session'[x[2]] = x[1] \/ (at'[x[1]] = "connecting" /\ lock'[x[2]] = x[1])
    <3>1. x[1] \in Mcp!Users /\ x[2] \in Mcp!ServerSet
      BY McpTypes
    <3>2. CASE session[x[2]] = x[1]
      BY <1>5, <3>1, <3>2, McpNames
    <3>3. CASE at[x[1]] = "connecting" /\ lock[x[2]] = x[1]
      <4>1. server[x[1]] = x[2]
        BY <3>1, <3>3, McpNames DEF McpInv, Locks
      <4>2. CASE x[1] = u
        BY <1>4, <3>3, <4>1, <4>2
      <4>3. CASE x[1] # u
        <5>1. at'[x[1]] = "connecting"
          BY <3>1, <3>3, <4>3, McpTypes
        <5>2. x[2] # server[u]
          BY <1>1, <3>3, <4>3
        <5>3. lock'[x[2]] = lock[x[2]]
          BY <3>1, <5>2, McpTypes
        <5>4. QED BY <3>3, <5>1, <5>3
      <4>4. QED BY <4>2, <4>3
    <3>4. QED BY <3>2, <3>3 DEF McpInv, Mcp!SessionsAreHeld
  <2>2. QED BY <2>1 DEF Mcp!SessionsAreHeld
<1>9. \A r \in Mcp!ServerSet : session[r] # Nobody => session'[r] # Nobody
  BY <1>5
<1>10. session'[server[u]] # Nobody \/ at[u] = "listing"
  BY <1>4, McpNames
<1>11. QED BY <1>2, <1>3, <1>6, <1>7, <1>8, <1>9, <1>10

\* A call, when sessions are kept and nothing is opened while close runs.
LEMMA CallMoves ==
  ASSUME Mcp!UsersAssumption, Mcp!ServersAssumption, McpInv, NEW u \in Calls,
         at[u] \notin {"new", "ended"}, NEW p, at' = [at EXCEPT ![u] = p],
         UNCHANGED <<app, closing>>,
         \A r \in Mcp!ServerSet : session[r] # Nobody => session'[r] # Nobody,
         \/ UNCHANGED <<open, stray>>
         \/ app # "closing" /\ open' \ stray' \subseteq (open \ stray) \cup {<<u, server[u]>>}
  PROVE  Discovering' /\ Closing' /\ Mcp!CloseReachesAll'
<1>1. app # "starting" /\ u # Discovery /\ u \in Mcp!Users /\ Discovery \in Mcp!Users
  BY McpNames DEF McpInv, Discovering
<1>2. Discovering'
  BY <1>1, McpTypes DEF McpInv, Discovering
<1>3. app \in {"closing", "closed"} => u \in Untracked
  BY DEF McpInv, Closing
<1>4. Closing'
  <2>1. app \in {"serving", "closing"} => \A s \in Mcp!ServerSet : session'[s] # Nobody
    BY DEF McpInv, Closing
  <2>2. closing = IF app = "closing" THEN open' \ stray' ELSE {}
    BY DEF McpInv, Closing
  <2>3. ASSUME app \in {"closing", "closed"}, NEW c \in Calls \ Untracked
        PROVE  at'[c] \in {"new", "ended"}
    <3>1. c # u /\ c \in Mcp!Users
      BY <1>3, <2>3, McpNames
    <3>2. at'[c] = at[c]
      BY <3>1, McpTypes
    <3>3. QED BY <2>3, <3>2 DEF McpInv, Closing
  <2>4. QED BY <2>1, <2>2, <2>3 DEF Closing
<1>5. Mcp!CloseReachesAll'
  <2>1. ASSUME app = "closed", NEW x \in open' \ stray'
        PROVE  x[1] \in Untracked
    <3>1. x \in open \ stray \/ x = <<u, server[u]>>
      OBVIOUS
    <3>2. QED BY <1>3, <2>1, <3>1 DEF McpInv, Mcp!CloseReachesAll
  <2>2. QED BY <2>1 DEF Mcp!CloseReachesAll
<1>6. QED BY <1>2, <1>4, <1>5



\* The discovery, as long as it has not gone through all servers.
LEMMA DiscoveryMoves ==
  ASSUME Mcp!UsersAssumption, Mcp!ServersAssumption, McpInv, app = "starting",
         NEW p, at' = [at EXCEPT ![Discovery] = p], UNCHANGED <<app, server, closing>>,
         \A r \in Mcp!ServerSet : session[r] # Nobody => session'[r] # Nobody,
         p = "listing" => session'[server[Discovery]] # Nobody
  PROVE  Discovering' /\ Closing' /\ Mcp!CloseReachesAll'
<1>1. Closing' /\ Mcp!CloseReachesAll'
  BY DEF McpInv, Closing, Mcp!CloseReachesAll
<1>2. \A c \in Calls : at'[c] = "new"
  BY McpTypes, McpNames DEF McpInv, Discovering
<1>3. at'[Discovery] = p
  BY McpTypes, McpNames
<1>4. \A i, j \in DOMAIN Servers :
        Servers[j] = server'[Discovery] /\ i < j => session'[Servers[i]] # Nobody
  BY ServerList DEF McpInv, Discovering
<1>5. QED BY <1>1, <1>2, <1>3, <1>4 DEF Discovering

\* A user that neither was connecting nor begins to, when sessions stay as
\* they are and no lock of another user is touched.
LEMMA OtherMoves ==
  ASSUME Mcp!UsersAssumption, Mcp!ServersAssumption, McpInv, NEW u \in Mcp!Users,
         at[u] # "connecting", NEW p, p # "connecting", at' = [at EXCEPT ![u] = p],
         NEW s, server' = [server EXCEPT ![u] = s], UNCHANGED <<session, open, stray>>,
         \A r \in Mcp!ServerSet : lock[r] \notin {u, Nobody} => lock'[r] = lock[r],
         app' # "closing" => app # "closing"
  PROVE  Connecting' /\ SessionsOpen' /\ Mcp!SessionsAreHeld'
<1>1. Connecting'
  <2>1. ASSUME NEW v \in Mcp!Users, at'[v] = "connecting"
        PROVE  session[server'[v]] = Nobody /\ <<v, server'[v]>> \in open
    <3>1. at[v] = "connecting" /\ server'[v] = server[v]
      BY <2>1, McpTypes
    <3>2. QED BY <3>1 DEF McpInv, Connecting
  <2>2. QED BY <2>1 DEF Connecting
<1>2. SessionsOpen'
  BY DEF McpInv, SessionsOpen
<1>3. Mcp!SessionsAreHeld'
  <2>1. ASSUME NEW x \in open \ stray
        PROVE  session[x[2]] = x[1] \/ (at'[x[1]] = "connecting" /\ lock'[x[2]] = x[1])
    <3>1. x[1] \in Mcp!Users /\ x[2] \in Mcp!ServerSet
      BY McpTypes
    <3>2. CASE at[x[1]] = "connecting" /\ lock[x[2]] = x[1]
      <4>1. x[1] # u /\ at'[x[1]] = "connecting"
        BY <3>1, <3>2, McpTypes
      <4>2. lock'[x[2]] = lock[x[2]]
        BY <3>1, <3>2, <4>1, McpNames
      <4>3. QED BY <3>2, <4>1, <4>2
    <3>3. QED BY <3>2 DEF McpInv, Mcp!SessionsAreHeld
  <2>2. QED BY <2>1 DEF Mcp!SessionsAreHeld
<1>4. QED BY <1>1, <1>2, <1>3

LEMMA ListedMoves ==
  ASSUME Mcp!UsersAssumption, Mcp!ServersAssumption, McpInv, NEW u \in Mcp!Users,
         NEW p, at' = [at EXCEPT ![u] = p],
         u \in Calls => at[u] \notin {"new", "ended"} \/ p \in {"new", "ended"},
         \A c \in Calls : server'[c] = server[c], tool' = tool,
         \A pair \in registered' \cup asked' :
           pair \in registered \cup asked \/ pair[2] \in Allowed[pair[1]]
  PROVE  ListedOnly'
<1>1. ASSUME NEW c \in Calls, at'[c] \notin {"new", "ended"}
      PROVE  tool[c] \in Allowed[server'[c]]
  <2>1. at[c] \notin {"new", "ended"}
    BY <1>1, McpTypes, McpNames
  <2>2. QED BY <2>1 DEF McpInv, ListedOnly
<1>2. \A pair \in registered' \cup asked' : pair[2] \in Allowed[pair[1]]
  BY DEF McpInv, ListedOnly
<1>3. QED BY <1>1, <1>2 DEF ListedOnly

\* What is open of a user that does not begin to connect.
LEMMA FreshMoves ==
  ASSUME Mcp!UsersAssumption, Mcp!ServersAssumption, McpInv, NEW u \in Mcp!Users,
         NEW p, p # "connecting", at' = [at EXCEPT ![u] = p],
         p \in {"new", "waiting"} => at[u] \in {"new", "waiting"},
         open' \subseteq open, stray' \subseteq stray \cup {<<u, server[u]>>},
         \A v \in Mcp!Users : v # u => server'[v] = server[v],
         app' = "starting" => app = "starting" /\ server'[Discovery] = server[Discovery]
  PROVE  Fresh'
<1>1. ASSUME NEW v \in Mcp!Users, at'[v] = "connecting"
      PROVE  <<v, server'[v]>> \notin stray'
  <2>1. v # u /\ at[v] = "connecting" /\ server'[v] = server[v]
    BY <1>1, McpTypes
  <2>2. <<v, server[v]>> \notin stray
    BY <2>1 DEF McpInv, Fresh
  <2>3. QED BY <2>1, <2>2
<1>2. \A v \in Mcp!Users : at'[v] \in {"new", "waiting"} => at[v] \in {"new", "waiting"}
  BY McpTypes
<1>3. \A c \in Calls, s \in Mcp!ServerSet : at'[c] \in {"new", "waiting"} => <<c, s>> \notin open'
  BY <1>2, McpNames DEF McpInv, Fresh
<1>4. ASSUME app' = "starting", NEW i \in DOMAIN Servers, NEW j \in DOMAIN Servers,
             Servers[j] = server'[Discovery],
             j < i \/ (j = i /\ at'[Discovery] \in {"new", "waiting"})
      PROVE  <<Discovery, Servers[i]>> \notin open'
  <2>1. Servers[j] = server[Discovery] /\ app = "starting"
    BY <1>4
  <2>2. j < i \/ (j = i /\ at[Discovery] \in {"new", "waiting"})
    BY <1>2, <1>4, McpNames
  <2>3. <<Discovery, Servers[i]>> \notin open
    BY <2>1, <2>2 DEF McpInv, Fresh
  <2>4. QED BY <2>3
<1>5. QED BY <1>1, <1>3, <1>4 DEF Fresh

LEMMA DiscoverKeeps ==
  ASSUME Mcp!UsersAssumption, Mcp!ServersAssumption, McpInv, Mcp!Discover
  PROVE  McpInv'
<1>1. /\ app = "starting" /\ at[Discovery] = "new" /\ at' = [at EXCEPT ![Discovery] = "waiting"]
      /\ UNCHANGED <<app, server, tool, lock, session, tools, open, stray, closing, registered, asked>>
  BY DEF Mcp!Discover
<1>2. Discovery \in Mcp!Users /\ server' = [server EXCEPT ![Discovery] = server[Discovery]]
      /\ server[Discovery] \in Mcp!ServerSet
  BY <1>1, McpTypes, McpNames
<1>3. Locks'
  BY <1>1, <1>2, NeedsNoLock DEF Mcp!Holds
<1>4. Connecting' /\ SessionsOpen' /\ Mcp!SessionsAreHeld'
  BY <1>1, <1>2, OtherMoves
<1>5. Discovering' /\ Closing' /\ Mcp!CloseReachesAll'
  BY <1>1, DiscoveryMoves
<1>6. ListedOnly'
  BY <1>1, <1>2, McpNames, ListedMoves
<1>7. Mcp!TypeOK'
  BY <1>1, <1>3, McpTypes DEF Mcp!TypeOK, Locks
<1>8. Fresh'
  BY <1>1, <1>2, FreshMoves
<1>9. QED BY <1>3, <1>4, <1>5, <1>6, <1>7, <1>8 DEF McpInv

LEMMA EnterKeeps ==
  ASSUME Mcp!UsersAssumption, Mcp!ServersAssumption, McpInv,
         NEW c \in Calls, NEW s \in Mcp!ServerSet, Mcp!Enter(c, s)
  PROVE  McpInv'
<1>1. /\ app = "serving" \/ (c \in Untracked /\ app \in {"closing", "closed"})
      /\ at[c] = "new" /\ at' = [at EXCEPT ![c] = "waiting"] /\ tool[c] \in Allowed[s]
      /\ server' = [server EXCEPT ![c] = s]
      /\ UNCHANGED <<app, tool, lock, session, tools, open, stray, closing, registered, asked>>
  BY DEF Mcp!Enter
<1>2. c \in Mcp!Users /\ c # Discovery /\ Discovery \in Mcp!Users
  BY McpNames
<1>3. Locks'
  BY <1>1, <1>2, NeedsNoLock DEF Mcp!Holds
<1>4. Connecting' /\ SessionsOpen' /\ Mcp!SessionsAreHeld'
  BY <1>1, <1>2, OtherMoves
<1>5. Discovering'
  BY <1>1, <1>2, McpTypes DEF McpInv, Discovering
<1>6. Closing' /\ Mcp!CloseReachesAll'
  <2>1. ASSUME app \in {"closing", "closed"}, NEW d \in Calls \ Untracked
        PROVE  at'[d] \in {"new", "ended"}
    <3>1. d # c /\ d \in Mcp!Users
      BY <1>1, <2>1, McpNames
    <3>2. at'[d] = at[d]
      BY <1>1, <3>1, McpTypes
    <3>3. QED BY <2>1, <3>2 DEF McpInv, Closing
  <2>2. Closing'
    BY <1>1, <2>1 DEF McpInv, Closing
  <2>3. QED BY <1>1, <2>2 DEF McpInv, Mcp!CloseReachesAll
<1>7. ListedOnly'
  <2>1. ASSUME NEW d \in Calls, at'[d] \notin {"new", "ended"}
        PROVE  tool[d] \in Allowed[server'[d]]
    <3>1. CASE d = c
      BY <1>1, <1>2, <3>1, McpTypes
    <3>2. CASE d # c
      <4>1. at'[d] = at[d] /\ server'[d] = server[d]
        BY <1>1, <3>2, McpTypes, McpNames
      <4>2. QED BY <2>1, <4>1 DEF McpInv, ListedOnly
    <3>3. QED BY <3>1, <3>2
  <2>2. QED BY <1>1, <2>1 DEF McpInv, ListedOnly
<1>8. Mcp!TypeOK'
  <2>1. server' \in [Mcp!Users -> Mcp!ServerSet]
    BY <1>1, McpTypes
  <2>2. QED BY <1>1, <1>3, <2>1, McpTypes DEF Mcp!TypeOK, Locks
<1>9. Fresh'
  <2>1. \A v \in Mcp!Users : v # c => server'[v] = server[v]
    BY <1>1, McpTypes
  <2>2. QED BY <1>1, <1>2, <2>1, FreshMoves
<1>10. QED BY <1>3, <1>4, <1>5, <1>6, <1>7, <1>8, <1>9 DEF McpInv

\* A user that goes on without the discovery coming to an end.
LEMMA UserMoves ==
  ASSUME Mcp!UsersAssumption, Mcp!ServersAssumption, McpInv, NEW u \in Mcp!Users,
         at[u] \notin {"new", "ended"}, NEW p, at' = [at EXCEPT ![u] = p],
         u = Discovery => p # "ended", UNCHANGED <<app, server, closing>>,
         \A r \in Mcp!ServerSet : session[r] # Nobody => session'[r] # Nobody,
         p = "listing" => session'[server[u]] # Nobody,
         \/ UNCHANGED <<open, stray>>
         \/ app # "closing" /\ open' \ stray' \subseteq (open \ stray) \cup {<<u, server[u]>>}
  PROVE  Discovering' /\ Closing' /\ Mcp!CloseReachesAll'
<1>1. CASE u = Discovery
  <2>1. app = "starting"
    BY <1>1 DEF McpInv, Discovering
  <2>2. QED BY <1>1, <2>1, DiscoveryMoves
<1>2. CASE u # Discovery
  <2>1. u \in Calls
    BY <1>2, McpNames
  <2>2. QED BY <2>1, CallMoves
<1>3. QED BY <1>1, <1>2

LEMMA LockKeeps ==
  ASSUME Mcp!UsersAssumption, Mcp!ServersAssumption, McpInv, NEW u \in Mcp!Users, Mcp!Lock(u)
  PROVE  McpInv'
<1>1. /\ at[u] = "waiting" /\ lock[server[u]] = Nobody /\ session[server[u]] = Nobody
      /\ lock' = [lock EXCEPT ![server[u]] = u] /\ at' = [at EXCEPT ![u] = "connecting"]
      /\ open' = open \cup {<<u, server[u]>>}
      /\ UNCHANGED <<app, server, tool, session, tools, stray, closing, registered, asked>>
  BY DEF Mcp!Lock
<1>2. server[u] \in Mcp!ServerSet
  BY McpTypes
<1>3. Locks'
  BY <1>1, TakesLock
<1>4. Connecting'
  <2>1. ASSUME NEW v \in Mcp!Users, at'[v] = "connecting"
        PROVE  session[server[v]] = Nobody /\ <<v, server[v]>> \in open'
    <3>1. CASE v = u
      BY <1>1, <3>1
    <3>2. CASE v # u
      <4>1. at[v] = "connecting"
        BY <1>1, <2>1, <3>2, McpTypes
      <4>2. QED BY <1>1, <4>1 DEF McpInv, Connecting
    <3>3. QED BY <3>1, <3>2
  <2>2. QED BY <1>1, <2>1 DEF Connecting
<1>5. SessionsOpen'
  BY <1>1 DEF McpInv, SessionsOpen
<1>6. Mcp!SessionsAreHeld'
  <2>1. ASSUME NEW x \in open' \ stray
        PROVE  session[x[2]] = x[1] \/ (at'[x[1]] = "connecting" /\ lock'[x[2]] = x[1])
    <3>1. CASE x = <<u, server[u]>>
      BY <1>1, <1>2, <3>1, McpTypes
    <3>2. CASE x # <<u, server[u]>>
      <4>1. x \in open \ stray /\ x[1] \in Mcp!Users /\ x[2] \in Mcp!ServerSet
        BY <1>1, <3>2, McpTypes
      <4>2. CASE at[x[1]] = "connecting" /\ lock[x[2]] = x[1]
        <5>1. x[1] # u /\ x[2] # server[u]
          BY <1>1, <4>1, <4>2, McpNames
        <5>2. QED BY <1>1, <4>1, <4>2, <5>1, McpTypes
      <4>3. QED BY <4>1, <4>2 DEF McpInv, Mcp!SessionsAreHeld
    <3>3. QED BY <3>1, <3>2
  <2>2. QED BY <1>1, <2>1 DEF Mcp!SessionsAreHeld
<1>7. Discovering' /\ Closing' /\ Mcp!CloseReachesAll'
  <2>1. app # "closing"
    BY <1>1, <1>2 DEF McpInv, Closing
  <2>2. open' \ stray' \subseteq (open \ stray) \cup {<<u, server[u]>>}
    BY <1>1
  <2>3. QED BY <1>1, <2>1, <2>2, UserMoves
<1>8. ListedOnly'
  BY <1>1, ListedMoves
<1>9. Mcp!TypeOK'
  <2>1. /\ at' \in [Mcp!Users -> {"new", "waiting", "connecting", "listing", "calling", "ended"}]
        /\ lock' \in [Mcp!ServerSet -> Mcp!Users \cup {Nobody}]
        /\ open' \subseteq Mcp!Users \X Mcp!ServerSet /\ stray' \subseteq open'
    BY <1>1, <1>2, McpTypes
  <2>2. QED BY <1>1, <1>3, <2>1, McpTypes DEF Mcp!TypeOK, Locks
<1>10. Fresh'
  <2>1. <<u, server[u]>> \notin open
    <3>1. CASE u = Discovery
      <4>1. app = "starting"
        BY <1>1, <3>1 DEF McpInv, Discovering
      <4>2. PICK j \in DOMAIN Servers : Servers[j] = server[u]
        BY <1>2, ServerList
      <4>3. QED BY <1>1, <3>1, <4>1, <4>2 DEF McpInv, Fresh
    <3>2. CASE u # Discovery
      <4>1. u \in Calls
        BY <3>2, McpNames
      <4>2. QED BY <1>1, <1>2, <4>1 DEF McpInv, Fresh
    <3>3. QED BY <3>1, <3>2
  <2>2. ASSUME NEW v \in Mcp!Users, at'[v] = "connecting"
        PROVE  <<v, server[v]>> \notin stray
    <3>1. CASE v = u
      BY <2>1, <3>1, McpTypes
    <3>2. CASE v # u
      <4>1. at[v] = "connecting"
        BY <1>1, <2>2, <3>2, McpTypes
      <4>2. QED BY <4>1 DEF McpInv, Fresh
    <3>3. QED BY <3>1, <3>2
  <2>3. ASSUME NEW c \in Calls, NEW s \in Mcp!ServerSet, at'[c] \in {"new", "waiting"}
        PROVE  <<c, s>> \notin open'
    <3>1. c # u /\ at[c] \in {"new", "waiting"}
      BY <1>1, <2>3, McpTypes, McpNames
    <3>2. <<c, s>> \notin open
      BY <3>1 DEF McpInv, Fresh
    <3>3. QED BY <1>1, <3>1, <3>2
  <2>4. ASSUME app = "starting", NEW i \in DOMAIN Servers, NEW j \in DOMAIN Servers,
               Servers[j] = server[Discovery],
               j < i \/ (j = i /\ at'[Discovery] \in {"new", "waiting"})
        PROVE  <<Discovery, Servers[i]>> \notin open'
    <3>1. u = Discovery
      BY <1>1, <2>4, McpNames DEF McpInv, Discovering
    <3>2. at'[Discovery] = "connecting"
      BY <1>1, <3>1, McpTypes
    <3>3. j < i
      BY <2>4, <3>2
    <3>4. <<Discovery, Servers[i]>> \notin open
      BY <2>4, <3>3 DEF McpInv, Fresh
    <3>5. i # j
      <4>1. i \in Nat /\ j \in Nat
        BY ServerList
      <4>2. QED BY <3>3, <4>1
    <3>6. Servers[i] # server[u]
      BY <2>4, <3>1, <3>5, ServerList
    <3>7. QED BY <1>1, <3>4, <3>6
  <2>5. QED BY <1>1, <2>2, <2>3, <2>4 DEF Fresh
<1>11. QED BY <1>3, <1>4, <1>5, <1>6, <1>7, <1>8, <1>9, <1>10 DEF McpInv

LEMMA LockToListKeeps ==
  ASSUME Mcp!UsersAssumption, Mcp!ServersAssumption, McpInv, NEW u \in Mcp!Users, Mcp!LockToList(u)
  PROVE  McpInv'
<1>1. /\ at[u] = "waiting" /\ lock[server[u]] = Nobody /\ session[server[u]] # Nobody
      /\ lock' = [lock EXCEPT ![server[u]] = u] /\ at' = [at EXCEPT ![u] = "listing"]
      /\ UNCHANGED <<app, server, tool, session, tools, open, stray, closing, registered, asked>>
  BY DEF Mcp!LockToList
<1>2. server[u] \in Mcp!ServerSet /\ server' = [server EXCEPT ![u] = server[u]]
  BY <1>1, McpTypes
<1>3. Locks'
  BY <1>1, TakesLock
<1>4. Connecting' /\ SessionsOpen' /\ Mcp!SessionsAreHeld'
  <2>1. \A r \in Mcp!ServerSet : lock[r] \notin {u, Nobody} => lock'[r] = lock[r]
    BY <1>1, McpTypes
  <2>2. QED BY <1>1, <1>2, <2>1, OtherMoves
<1>5. Discovering' /\ Closing' /\ Mcp!CloseReachesAll'
  BY <1>1, UserMoves
<1>6. ListedOnly'
  BY <1>1, ListedMoves
<1>7. Mcp!TypeOK'
  <2>1. /\ at' \in [Mcp!Users -> {"new", "waiting", "connecting", "listing", "calling", "ended"}]
        /\ lock' \in [Mcp!ServerSet -> Mcp!Users \cup {Nobody}]
    BY <1>1, <1>2, McpTypes
  <2>2. QED BY <1>1, <1>3, <2>1, McpTypes DEF Mcp!TypeOK, Locks
<1>8. Fresh'
  BY <1>1, FreshMoves
<1>9. QED BY <1>3, <1>4, <1>5, <1>6, <1>7, <1>8 DEF McpInv


LEMMA UseKeeps ==
  ASSUME Mcp!UsersAssumption, Mcp!ServersAssumption, McpInv, NEW u \in Calls,
         at[u] \in {"connecting", "listing"},
         session' = IF at[u] = "connecting" THEN [session EXCEPT ![server[u]] = u] ELSE session,
         NEW list, Mcp!Use(u, list),
         tools' \in [Mcp!ServerSet -> (SUBSET Tools) \cup {Mcp!None}],
         UNCHANGED <<tool, open, stray, closing>>
  PROVE  McpInv'
<1>1. u \in Mcp!Users /\ u # Discovery
  BY McpNames
<1>2. UNCHANGED <<app, server, registered>> /\ server' = [server EXCEPT ![u] = server[u]]
      /\ server[u] \in Mcp!ServerSet
  BY <1>1, McpTypes DEF Mcp!Use
<1>3. PICK p \in {"calling", "ended"} :
        /\ at' = [at EXCEPT ![u] = p]
        /\ lock' = IF p \in {"listing", "calling"} THEN lock ELSE [lock EXCEPT ![server[u]] = Nobody]
        /\ asked' = asked \/ asked' = asked \cup {<<server[u], tool[u]>>}
  <2>1. CASE tool[u] \in list /\ session'[server[u]] # Nobody
    BY <2>1 DEF Mcp!Use
  <2>2. CASE ~(tool[u] \in list /\ session'[server[u]] # Nobody)
    BY <2>2 DEF Mcp!Use, Mcp!Ended, Mcp!Released
  <2>3. QED BY <2>1, <2>2
<1>4. /\ Locks' /\ Connecting' /\ SessionsOpen' /\ Mcp!SessionsAreHeld'
      /\ session' \in [Mcp!ServerSet -> Mcp!Users \cup {Nobody}]
      /\ lock' \in [Mcp!ServerSet -> Mcp!Users \cup {Nobody}]
      /\ \A r \in Mcp!ServerSet : session[r] # Nobody => session'[r] # Nobody
  BY <1>1, <1>2, <1>3, HolderMoves
<1>5. Discovering' /\ Closing' /\ Mcp!CloseReachesAll'
  BY <1>1, <1>2, <1>3, <1>4, UserMoves
<1>6. tool[u] \in Allowed[server[u]] /\ tool[u] \in Tools
  <2>1. tool[u] \in Tools
    BY McpTypes
  <2>2. tool[u] \in Allowed[server[u]]
    BY DEF McpInv, ListedOnly
  <2>3. QED BY <2>1, <2>2
<1>7. ListedOnly'
  <2>1. \A pair \in registered' \cup asked' :
          pair \in registered \cup asked \/ pair[2] \in Allowed[pair[1]]
    BY <1>2, <1>3, <1>6
  <2>2. QED BY <1>1, <1>2, <1>3, <2>1, ListedMoves
<1>8. Mcp!TypeOK'
  <2>1. /\ at' \in [Mcp!Users -> {"new", "waiting", "connecting", "listing", "calling", "ended"}]
        /\ asked' \subseteq Mcp!ServerSet \X Tools
    BY <1>2, <1>3, <1>6, McpTypes
  <2>2. QED BY <1>2, <1>4, <2>1, McpTypes DEF Mcp!TypeOK, Locks
<1>9. Fresh'
  BY <1>1, <1>2, <1>3, FreshMoves
<1>10. QED BY <1>4, <1>5, <1>7, <1>8, <1>9 DEF McpInv

LEMMA RegisterKeeps ==
  ASSUME Mcp!UsersAssumption, Mcp!ServersAssumption, McpInv, NEW u, u = Discovery,
         at[u] \in {"connecting", "listing"},
         session' = IF at[u] = "connecting" THEN [session EXCEPT ![server[u]] = u] ELSE session,
         NEW list, Mcp!Register(list), Mcp!Released(u),
         tools' \in [Mcp!ServerSet -> (SUBSET Tools) \cup {Mcp!None}],
         UNCHANGED <<tool, open, stray, closing>>
  PROVE  McpInv'
<1>1. u \in Mcp!Users /\ u \notin Calls
  BY McpNames
<1>2. PICK s \in Mcp!ServerSet : s = server[u]
  BY <1>1, McpTypes
<1>3. /\ registered' = registered \cup {<<s, t>> : t \in Allowed[s] \cap list}
      /\ Mcp!NextServer(s) /\ asked' = asked /\ lock' = [lock EXCEPT ![s] = Nobody]
  BY <1>2 DEF Mcp!Register, Mcp!Released
<1>4. app = "starting"
  BY DEF McpInv, Discovering
<1>5. PICK n \in Nat \ {0} : n = Len(Servers) /\ DOMAIN Servers = 1 .. n
  BY ServerList
<1>6. PICK i \in 1 .. n : s = Servers[i]
  BY <1>5, ServerList
<1>7. \A j, k \in 1 .. n : Servers[j] = Servers[k] => j = k
  BY <1>5, ServerList
<1>8. \A r \in Mcp!ServerSet : \E j \in 1 .. n : r = Servers[j]
  BY <1>5, ServerList
<1>9. \A j \in 1 .. n : Servers[j] \in Mcp!ServerSet
  BY <1>5, ServerList
<1>10. Mcp!Last(Servers) = Servers[n] /\ n \in 1 .. n
  BY <1>5 DEF Mcp!Last
<1>11. \A j \in 1 .. n : j < i => session[Servers[j]] # Nobody
  BY <1>2, <1>4, <1>5, <1>6 DEF McpInv, Discovering
<1>12. at[u] = "listing" => session[s] # Nobody
  BY <1>2, <1>4 DEF McpInv, Discovering
<1>13. registered' \subseteq Mcp!ServerSet \X Tools
       /\ \A pair \in registered' \cup asked' :
            pair \in registered \cup asked \/ pair[2] \in Allowed[pair[1]]
  BY <1>3, McpTypes, McpNames
<1>14. CASE s = Servers[n]
  <2>1. app' = "serving" /\ at' = [at EXCEPT ![u] = "ended"] /\ server' = server
    BY <1>3, <1>10, <1>14 DEF Mcp!NextServer, Mcp!Ended
  <2>2. server' = [server EXCEPT ![u] = s]
    BY <1>1, <1>2, <2>1, McpTypes
  <2>3. /\ Locks' /\ Connecting' /\ SessionsOpen' /\ Mcp!SessionsAreHeld'
        /\ session' \in [Mcp!ServerSet -> Mcp!Users \cup {Nobody}]
        /\ lock' \in [Mcp!ServerSet -> Mcp!Users \cup {Nobody}]
        /\ \A r \in Mcp!ServerSet : session[r] # Nobody => session'[r] # Nobody
        /\ session'[s] # Nobody \/ at[u] = "listing"
    BY <1>1, <1>2, <1>3, <1>4, <2>1, <2>2, HolderMoves
  <2>4. i = n
    BY <1>6, <1>7, <1>10, <1>14
  <2>5. \A r \in Mcp!ServerSet : session'[r] # Nobody
    <3>1. session'[s] # Nobody
      BY <1>12, <2>3
    <3>2. ASSUME NEW j \in 1 .. n
          PROVE  session'[Servers[j]] # Nobody
      <4>1. j < i \/ j = i
        BY <2>4
      <4>2. QED BY <1>6, <1>9, <1>11, <2>3, <3>1, <4>1
    <3>3. QED BY <1>8, <3>2
  <2>6. Discovering'
    BY <1>1, <2>1, McpTypes DEF Discovering
  <2>7. Closing'
    BY <1>4, <2>1, <2>5 DEF McpInv, Closing
  <2>8. Mcp!CloseReachesAll'
    BY <2>1 DEF Mcp!CloseReachesAll
  <2>9. ListedOnly'
    BY <1>1, <1>13, <2>1, ListedMoves
  <2>10. Mcp!TypeOK'
    <3>1. at' \in [Mcp!Users -> {"new", "waiting", "connecting", "listing", "calling", "ended"}]
      BY <2>1, McpTypes
    <3>2. asked' \subseteq Mcp!ServerSet \X Tools
      BY <1>3, McpTypes
    <3>3. QED BY <1>13, <2>1, <2>3, <3>1, <3>2, McpTypes DEF Mcp!TypeOK, Locks
  <2>11. Fresh'
    BY <1>1, <2>1, FreshMoves
  <2>12. QED BY <2>3, <2>6, <2>7, <2>8, <2>9, <2>10, <2>11 DEF McpInv
<1>15. CASE s # Servers[n]
  <2>1. i < n
    BY <1>6, <1>15
  <2>2. PICK k : k = CHOOSE j \in DOMAIN Servers : j > 1 /\ Servers[j - 1] = s
    OBVIOUS
  <2>3. \E j \in 1 .. n : j > 1 /\ Servers[j - 1] = s
    <3>1. i + 1 \in 1 .. n /\ i + 1 > 1 /\ i + 1 - 1 = i
      BY <2>1
    <3>2. QED BY <1>6, <3>1
  <2>4. k \in 1 .. n /\ k > 1 /\ Servers[k - 1] = s
    BY <1>5, <2>2, <2>3
  <2>5. app' = app /\ at' = [at EXCEPT ![u] = "new"] /\ server' = [server EXCEPT ![u] = Servers[k]]
    BY <1>3, <1>10, <1>15, <2>2 DEF Mcp!NextServer
  <2>6. Servers[k] \in Mcp!ServerSet
    BY <1>9, <2>4
  <2>7. /\ Locks' /\ Connecting' /\ SessionsOpen' /\ Mcp!SessionsAreHeld'
        /\ session' \in [Mcp!ServerSet -> Mcp!Users \cup {Nobody}]
        /\ lock' \in [Mcp!ServerSet -> Mcp!Users \cup {Nobody}]
        /\ \A r \in Mcp!ServerSet : session[r] # Nobody => session'[r] # Nobody
        /\ session'[s] # Nobody \/ at[u] = "listing"
    BY <1>1, <1>2, <1>3, <2>5, <2>6, HolderMoves
  <2>8. Discovering'
    <3>1. \A c \in Calls : at'[c] = "new"
      BY <1>1, <1>4, <2>5, McpTypes DEF McpInv, Discovering
    <3>2. at'[Discovery] = "new" /\ server'[Discovery] = Servers[k]
      BY <1>1, <2>5, McpTypes
    <3>3. session'[s] # Nobody
      BY <1>12, <2>7
    <3>4. ASSUME NEW j \in 1 .. n, NEW h \in 1 .. n, Servers[h] = server'[Discovery], j < h
          PROVE  session'[Servers[j]] # Nobody
      <4>1. h = k
        BY <1>7, <2>4, <3>2, <3>4
      <4>2. k - 1 \in 1 .. n
        BY <2>4
      <4>3. k - 1 = i
        BY <1>6, <1>7, <2>4, <4>2
      <4>4. j < i \/ j = i
        BY <3>4, <4>1, <4>3, <2>4
      <4>5. QED BY <1>6, <1>9, <1>11, <2>7, <3>3, <4>4
    <3>5. QED BY <1>4, <1>5, <2>5, <3>1, <3>2, <3>4 DEF Discovering
  <2>9. Closing' /\ Mcp!CloseReachesAll'
    BY <1>4, <2>5 DEF McpInv, Closing, Mcp!CloseReachesAll
  <2>10. ListedOnly'
    <3>1. \A c \in Calls : server'[c] = server[c]
      BY <1>1, <2>5, McpTypes, McpNames
    <3>2. QED BY <1>1, <1>13, <2>5, <3>1, ListedMoves
  <2>11. Mcp!TypeOK'
    <3>1. /\ at' \in [Mcp!Users -> {"new", "waiting", "connecting", "listing", "calling", "ended"}]
          /\ server' \in [Mcp!Users -> Mcp!ServerSet]
      BY <2>5, <2>6, McpTypes
    <3>2. asked' \subseteq Mcp!ServerSet \X Tools
      BY <1>3, McpTypes
    <3>3. QED BY <1>13, <2>5, <2>7, <3>1, <3>2, McpTypes DEF Mcp!TypeOK, Locks
  <2>12. Fresh'
    <3>1. ASSUME NEW v \in Mcp!Users, at'[v] = "connecting"
          PROVE  <<v, server'[v]>> \notin stray'
      <4>1. v # u /\ at[v] = "connecting" /\ server'[v] = server[v]
        BY <2>5, <3>1, McpTypes
      <4>2. QED BY <4>1 DEF McpInv, Fresh
    <3>2. ASSUME NEW c \in Calls, NEW r \in Mcp!ServerSet, at'[c] \in {"new", "waiting"}
          PROVE  <<c, r>> \notin open'
      <4>1. at[c] \in {"new", "waiting"}
        BY <1>1, <2>5, <3>2, McpTypes, McpNames
      <4>2. QED BY <4>1 DEF McpInv, Fresh
    <3>3. ASSUME NEW h \in 1 .. n, NEW j \in 1 .. n, Servers[j] = server'[Discovery], j <= h
          PROVE  <<Discovery, Servers[h]>> \notin open'
      <4>1. j = k
        BY <1>1, <1>7, <2>4, <2>5, <3>3, McpTypes
      <4>2. k - 1 \in 1 .. n
        BY <2>4
      <4>3. k - 1 = i
        BY <1>6, <1>7, <2>4, <4>2
      <4>4. i < h
        BY <2>4, <3>3, <4>1, <4>3
      <4>5. QED BY <1>2, <1>4, <1>5, <1>6, <4>4 DEF McpInv, Fresh
    <3>4. ASSUME NEW h \in 1 .. n, NEW j \in 1 .. n, j < h \/ j = h
          PROVE  j <= h
      BY <3>4
    <3>5. QED BY <1>5, <3>1, <3>2, <3>3, <3>4 DEF Fresh
  <2>13. QED BY <2>7, <2>8, <2>9, <2>10, <2>11, <2>12 DEF McpInv
<1>16. QED BY <1>14, <1>15

LEMMA ConnectedKeeps ==
  ASSUME Mcp!UsersAssumption, Mcp!ServersAssumption, McpInv, NEW u \in Mcp!Users, Mcp!Connected(u)
  PROVE  McpInv'
<1>1. /\ at[u] = "connecting" /\ session' = [session EXCEPT ![server[u]] = u]
      /\ UNCHANGED <<tool, tools, open, stray, closing>>
  BY DEF Mcp!Connected
<1>2. CASE tools[server[u]] = Mcp!None
  <2>1. at' = [at EXCEPT ![u] = "listing"] /\ UNCHANGED <<app, server, lock, registered, asked>>
    BY <1>2 DEF Mcp!Connected
  <2>2. server[u] \in Mcp!ServerSet /\ server' = [server EXCEPT ![u] = server[u]]
    BY <2>1, McpTypes
  <2>3. /\ Locks' /\ Connecting' /\ SessionsOpen' /\ Mcp!SessionsAreHeld'
        /\ session' \in [Mcp!ServerSet -> Mcp!Users \cup {Nobody}]
        /\ \A r \in Mcp!ServerSet : session[r] # Nobody => session'[r] # Nobody
        /\ session'[server[u]] # Nobody
    BY <1>1, <2>1, <2>2, HolderMoves
  <2>4. Discovering' /\ Closing' /\ Mcp!CloseReachesAll'
    BY <1>1, <2>1, <2>3, UserMoves
  <2>5. ListedOnly'
    BY <1>1, <2>1, ListedMoves
  <2>6. Mcp!TypeOK'
    <3>1. at' \in [Mcp!Users -> {"new", "waiting", "connecting", "listing", "calling", "ended"}]
      BY <2>1, McpTypes
    <3>2. QED BY <1>1, <2>1, <2>3, <3>1, McpTypes DEF Mcp!TypeOK, Locks
  <2>7. Fresh'
    BY <1>1, <2>1, FreshMoves
  <2>8. QED BY <2>3, <2>4, <2>5, <2>6, <2>7 DEF McpInv
<1>3. CASE tools[server[u]] # Mcp!None
  <2>1. tools' \in [Mcp!ServerSet -> (SUBSET Tools) \cup {Mcp!None}]
    BY <1>1, McpTypes
  <2>2. Mcp!Proceed(u, tools[server[u]])
    BY <1>3 DEF Mcp!Connected
  <2>3. CASE u = Discovery
    BY <1>1, <2>1, <2>2, <2>3, RegisterKeeps DEF Mcp!Proceed
  <2>4. CASE u # Discovery
    BY <1>1, <2>1, <2>2, <2>4, McpNames, UseKeeps DEF Mcp!Proceed
  <2>5. QED BY <2>3, <2>4
<1>4. QED BY <1>2, <1>3

LEMMA ToolsListedKeeps ==
  ASSUME Mcp!UsersAssumption, Mcp!ServersAssumption, McpInv, NEW u \in Mcp!Users, Mcp!ToolsListed(u)
  PROVE  McpInv'
<1>1. /\ at[u] = "listing" /\ session' = session /\ Mcp!Proceed(u, Mcp!Kept(u))
      /\ tools' = [tools EXCEPT ![server[u]] = Mcp!Kept(u)]
      /\ UNCHANGED <<tool, open, stray, closing>>
  BY DEF Mcp!ToolsListed
<1>2. server[u] \in Mcp!ServerSet
  BY McpTypes
<1>3. Mcp!Kept(u) \in SUBSET Tools
  BY <1>2, McpNames DEF Mcp!Kept
<1>4. tools' \in [Mcp!ServerSet -> (SUBSET Tools) \cup {Mcp!None}]
  BY <1>1, <1>3, McpTypes
<1>5. CASE u = Discovery
  BY <1>1, <1>4, <1>5, RegisterKeeps DEF Mcp!Proceed
<1>6. CASE u # Discovery
  BY <1>1, <1>4, <1>6, McpNames, UseKeeps DEF Mcp!Proceed
<1>7. QED BY <1>5, <1>6


LEMMA LockToCallKeeps ==
  ASSUME Mcp!UsersAssumption, Mcp!ServersAssumption, McpInv, NEW u \in Mcp!Users, u # Discovery,
         Mcp!LockToCall(u)
  PROVE  McpInv'
<1>1. /\ at[u] = "waiting" /\ lock[server[u]] = Nobody
      /\ UNCHANGED <<app, server, tool, session, tools, open, stray, closing, registered>>
  BY DEF Mcp!LockToCall
<1>2. u \in Calls /\ server[u] \in Mcp!ServerSet /\ server' = [server EXCEPT ![u] = server[u]]
  BY <1>1, McpTypes, McpNames
<1>3. PICK p \in {"calling", "ended"} :
        /\ at' = [at EXCEPT ![u] = p]
        /\ p = "calling" => lock' = [lock EXCEPT ![server[u]] = u]
        /\ p = "ended" => lock' = lock
        /\ asked' = asked \/ asked' = asked \cup {<<server[u], tool[u]>>}
  <2>1. CASE tool[u] \in tools[server[u]]
    BY <2>1 DEF Mcp!LockToCall
  <2>2. CASE tool[u] \notin tools[server[u]]
    BY <2>2 DEF Mcp!LockToCall, Mcp!Ended
  <2>3. QED BY <2>1, <2>2
<1>4. Locks'
  <2>1. CASE p = "calling"
    BY <1>1, <1>3, <2>1, TakesLock
  <2>2. CASE p = "ended"
    BY <1>1, <1>2, <1>3, <2>2, NeedsNoLock DEF Mcp!Holds
  <2>3. QED BY <2>1, <2>2
<1>5. /\ lock' \in [Mcp!ServerSet -> Mcp!Users \cup {Nobody}]
      /\ \A r \in Mcp!ServerSet : lock[r] \notin {u, Nobody} => lock'[r] = lock[r]
  BY <1>1, <1>3, McpTypes
<1>6. Connecting' /\ SessionsOpen' /\ Mcp!SessionsAreHeld'
  BY <1>1, <1>2, <1>3, <1>5, OtherMoves
<1>7. Discovering' /\ Closing' /\ Mcp!CloseReachesAll'
  BY <1>1, <1>2, <1>3, CallMoves
<1>8. tool[u] \in Allowed[server[u]] /\ tool[u] \in Tools
  <2>1. tool[u] \in Tools
    BY <1>2, McpTypes
  <2>2. tool[u] \in Allowed[server[u]]
    BY <1>1, <1>2 DEF McpInv, ListedOnly
  <2>3. QED BY <2>1, <2>2
<1>9. ListedOnly'
  <2>1. \A pair \in registered' \cup asked' :
          pair \in registered \cup asked \/ pair[2] \in Allowed[pair[1]]
    BY <1>1, <1>3, <1>8
  <2>2. QED BY <1>1, <1>2, <1>3, <2>1, ListedMoves
<1>10. Mcp!TypeOK'
  <2>1. /\ at' \in [Mcp!Users -> {"new", "waiting", "connecting", "listing", "calling", "ended"}]
        /\ asked' \subseteq Mcp!ServerSet \X Tools
    BY <1>2, <1>3, <1>8, McpTypes
  <2>2. QED BY <1>1, <1>4, <1>5, <2>1, McpTypes DEF Mcp!TypeOK, Locks
<1>11. Fresh'
  BY <1>1, <1>3, FreshMoves
<1>12. QED BY <1>4, <1>6, <1>7, <1>9, <1>10, <1>11 DEF McpInv

\* A user that ends, with or without its lock: an error, a timeout, a
\* cancellation, or the return of a call.
LEMMA UserEnds ==
  ASSUME Mcp!UsersAssumption, Mcp!ServersAssumption, McpInv, NEW u \in Mcp!Users,
         at[u] \notin {"new", "ended"}, at' = [at EXCEPT ![u] = "ended"],
         lock' = IF Mcp!Holds(u) THEN [lock EXCEPT ![server[u]] = Nobody] ELSE lock,
         app' = IF u = Discovery THEN "failed" ELSE app,
         UNCHANGED <<server, tool, session, tools, closing, registered, asked>>,
         \/ at[u] # "connecting" /\ UNCHANGED <<open, stray>>
         \/ /\ at[u] = "connecting"
            /\ \/ open' = open \ {<<u, server[u]>>} /\ stray' = stray
               \/ open' = open /\ stray' = stray \cup {<<u, server[u]>>}
  PROVE  McpInv'
<1>1. server[u] \in Mcp!ServerSet /\ server' = [server EXCEPT ![u] = server[u]]
  BY McpTypes
<1>2. Locks'
  <2>1. CASE Mcp!Holds(u)
    BY <1>1, <2>1, LeavesLock
  <2>2. CASE ~Mcp!Holds(u)
    BY <1>1, <2>2, NeedsNoLock
  <2>3. QED BY <2>1, <2>2
<1>3. Mcp!Holds(u) => lock[server[u]] = u
  BY DEF McpInv, Locks
<1>4. /\ lock' \in [Mcp!ServerSet -> Mcp!Users \cup {Nobody}]
      /\ \A r \in Mcp!ServerSet : lock[r] \notin {u, Nobody} => lock'[r] = lock[r]
  BY <1>3, McpTypes
<1>5. app' # "closing" => app # "closing"
  BY DEF McpInv, Discovering
<1>6. at[u] = "connecting" =>
        /\ session[server[u]] = Nobody /\ <<u, server[u]>> \in open
        /\ <<u, server[u]>> \notin stray
  BY DEF McpInv, Connecting, Fresh
<1>7. Connecting' /\ SessionsOpen' /\ Mcp!SessionsAreHeld'
  <2>1. CASE at[u] # "connecting"
    <3>1. UNCHANGED <<open, stray>>
      BY <2>1
    <3>2. QED BY <1>1, <1>4, <1>5, <2>1, <3>1, OtherMoves
  <2>2. CASE at[u] = "connecting"
    <3>1. \A x \in open : x # <<u, server[u]>> => x \in open' /\ (x \notin stray => x \notin stray')
      BY <2>2
    <3>2. open' \ stray' \subseteq open \ stray /\ <<u, server[u]>> \notin open' \ stray'
      BY <2>2
    <3>3. Connecting'
      <4>1. ASSUME NEW v \in Mcp!Users, at'[v] = "connecting"
            PROVE  session[server[v]] = Nobody /\ <<v, server[v]>> \in open'
        <5>1. v # u /\ at[v] = "connecting"
          BY <4>1, McpTypes
        <5>2. session[server[v]] = Nobody /\ <<v, server[v]>> \in open
          BY <5>1 DEF McpInv, Connecting
        <5>3. QED BY <3>1, <5>1, <5>2
      <4>2. QED BY <4>1 DEF Connecting
    <3>4. SessionsOpen'
      <4>1. ASSUME app' # "closing", NEW r \in Mcp!ServerSet, session[r] # Nobody
            PROVE  <<session[r], r>> \in open' \ stray'
        <5>1. <<session[r], r>> \in open \ stray
          BY <1>5, <4>1 DEF McpInv, SessionsOpen
        <5>2. r # server[u]
          BY <1>6, <2>2, <4>1
        <5>3. QED BY <3>1, <5>1, <5>2
      <4>2. QED BY <4>1 DEF SessionsOpen
    <3>5. Mcp!SessionsAreHeld'
      <4>1. ASSUME NEW x \in open' \ stray'
            PROVE  session[x[2]] = x[1] \/ (at'[x[1]] = "connecting" /\ lock'[x[2]] = x[1])
        <5>1. x \in open \ stray /\ x # <<u, server[u]>>
          BY <3>2
        <5>2. x = <<x[1], x[2]>> /\ x[1] \in Mcp!Users /\ x[2] \in Mcp!ServerSet
          BY <5>1, McpTypes
        <5>3. CASE at[x[1]] = "connecting" /\ lock[x[2]] = x[1]
          <6>1. server[x[1]] = x[2]
            BY <5>2, <5>3, McpNames DEF McpInv, Locks
          <6>2. x[1] # u
            BY <5>1, <5>2, <6>1
          <6>3. at'[x[1]] = "connecting" /\ lock'[x[2]] = lock[x[2]]
            BY <1>4, <5>2, <5>3, <6>2, McpTypes, McpNames
          <6>4. QED BY <5>3, <6>3
        <5>4. QED BY <5>1, <5>3 DEF McpInv, Mcp!SessionsAreHeld
      <4>2. QED BY <4>1 DEF Mcp!SessionsAreHeld
    <3>6. QED BY <3>3, <3>4, <3>5
  <2>3. QED BY <2>1, <2>2
<1>8. Discovering' /\ Closing' /\ Mcp!CloseReachesAll'
  <2>1. CASE u = Discovery
    <3>1. app = "starting" /\ app' = "failed" /\ at'[Discovery] = "ended" /\ closing' = {}
      BY <2>1, McpTypes DEF McpInv, Discovering, Closing
    <3>2. QED BY <3>1 DEF Discovering, Closing, Mcp!CloseReachesAll
  <2>2. CASE u # Discovery
    <3>1. u \in Calls /\ app' = app
      BY <2>2, McpNames
    <3>2. at[u] = "connecting" => app # "closing"
      BY <1>1, <1>6 DEF McpInv, Closing
    <3>3. \/ UNCHANGED <<open, stray>>
          \/ app # "closing" /\ open' \ stray' \subseteq (open \ stray) \cup {<<u, server[u]>>}
      BY <3>2
    <3>4. QED BY <3>1, <3>3, CallMoves
  <2>3. QED BY <2>1, <2>2
<1>9. ListedOnly'
  BY ListedMoves
<1>10. Mcp!TypeOK'
  <2>1. /\ at' \in [Mcp!Users -> {"new", "waiting", "connecting", "listing", "calling", "ended"}]
        /\ app' \in {"starting", "serving", "closing", "closed", "failed"}
    BY McpTypes
  <2>2. open' \subseteq Mcp!Users \X Mcp!ServerSet /\ stray' \subseteq open'
    BY <1>6, McpTypes
  <2>3. QED BY <1>2, <1>4, <2>1, <2>2, McpTypes DEF Mcp!TypeOK, Locks
<1>11. Fresh'
  <2>1. open' \subseteq open /\ stray' \subseteq stray \cup {<<u, server[u]>>}
    OBVIOUS
  <2>2. app' = "starting" => app = "starting"
    OBVIOUS
  <2>3. QED BY <2>1, <2>2, FreshMoves
<1>12. QED BY <1>2, <1>7, <1>8, <1>9, <1>10, <1>11 DEF McpInv


LEMMA AbortKeeps ==
  ASSUME Mcp!UsersAssumption, Mcp!ServersAssumption, McpInv, NEW u \in Mcp!Users,
         Mcp!ConnectFails(u) \/ Mcp!ConnectIsCut(u) \/ Mcp!Fails(u) \/ (u \in Calls /\ Mcp!Cancel(u))
  PROVE  McpInv'
<1>1. at[u] \notin {"new", "ended"} /\ Mcp!Abort(u)
  BY DEF Mcp!ConnectFails, Mcp!ConnectIsCut, Mcp!Fails, Mcp!Cancel
<1>2. /\ at' = [at EXCEPT ![u] = "ended"]
      /\ lock' = IF Mcp!Holds(u) THEN [lock EXCEPT ![server[u]] = Nobody] ELSE lock
      /\ app' = IF u = Discovery THEN "failed" ELSE app
      /\ UNCHANGED <<server, tool, session, tools, closing, registered, asked>>
  BY <1>1 DEF Mcp!Abort, Mcp!Ended, Mcp!Released
<1>3. \/ at[u] # "connecting" /\ UNCHANGED <<open, stray>>
      \/ /\ at[u] = "connecting"
         /\ \/ open' = open \ {<<u, server[u]>>} /\ stray' = stray
            \/ open' = open /\ stray' = stray \cup {<<u, server[u]>>}
  BY DEF Mcp!ConnectFails, Mcp!ConnectIsCut, Mcp!Fails, Mcp!Cancel
<1>4. QED BY <1>1, <1>2, <1>3, UserEnds

LEMMA ReturnsKeeps ==
  ASSUME Mcp!UsersAssumption, Mcp!ServersAssumption, McpInv, NEW u \in Mcp!Users, u # Discovery,
         Mcp!Returns(u)
  PROVE  McpInv'
<1>1. /\ at[u] = "calling" /\ at' = [at EXCEPT ![u] = "ended"]
      /\ lock' = [lock EXCEPT ![server[u]] = Nobody]
      /\ UNCHANGED <<app, server, tool, session, tools, open, stray, closing, registered, asked>>
  BY DEF Mcp!Returns, Mcp!Ended, Mcp!Released
<1>2. Mcp!Holds(u)
  BY <1>1 DEF Mcp!Holds
<1>3. QED BY <1>1, <1>2, UserEnds

LEMMA CloseKeeps ==
  ASSUME Mcp!UsersAssumption, Mcp!ServersAssumption, McpInv, Mcp!Close
  PROVE  McpInv'
<1>1. /\ app = "serving" /\ \A c \in Calls \ Untracked : at[c] \in {"new", "ended"}
      /\ closing' = {<<session[s], s>> : s \in {r \in Mcp!ServerSet : session[r] # Nobody}}
      /\ UNCHANGED <<at, server, tool, lock, open, stray, registered, asked>>
  BY DEF Mcp!Close
<1>2. \A s \in Mcp!ServerSet : session[s] # Nobody /\ <<session[s], s>> \in open \ stray
  BY <1>1 DEF McpInv, Closing, SessionsOpen
<1>3. closing' = {<<session[s], s>> : s \in Mcp!ServerSet}
  BY <1>1, <1>2
<1>4. closing' # {}
  <2>1. Servers[1] \in Mcp!ServerSet
    BY ServerList
  <2>2. <<session[Servers[1]], Servers[1]>> \in closing'
    BY <1>3, <2>1
  <2>3. QED BY <2>2
<1>5. app' = "closing" /\ UNCHANGED <<session, tools>>
  BY <1>4 DEF Mcp!Close
<1>6. closing' \subseteq open \ stray
  BY <1>2, <1>3
<1>7. open \ stray \subseteq closing'
  <2>1. ASSUME NEW x \in open \ stray
        PROVE  x \in closing'
    <3>1. x = <<x[1], x[2]>> /\ x[1] \in Mcp!Users /\ x[2] \in Mcp!ServerSet
      BY McpTypes
    <3>2. session[x[2]] = x[1]
      <4>1. ASSUME at[x[1]] = "connecting", lock[x[2]] = x[1]
            PROVE  FALSE
        <5>1. session[server[x[1]]] = Nobody /\ server[x[1]] \in Mcp!ServerSet
          BY <3>1, <4>1, McpTypes DEF McpInv, Connecting
        <5>2. QED BY <1>2, <5>1
      <4>2. QED BY <4>1 DEF McpInv, Mcp!SessionsAreHeld
    <3>3. QED BY <1>3, <3>1, <3>2
  <2>2. QED BY <2>1
<1>8. Locks' /\ ListedOnly' /\ Connecting'
  BY <1>1, <1>5 DEF McpInv, Locks, ListedOnly, Connecting, Mcp!Holds
<1>9. SessionsOpen' /\ Mcp!CloseReachesAll'
  BY <1>5 DEF SessionsOpen, Mcp!CloseReachesAll
<1>10. Discovering'
  BY <1>1, <1>5 DEF McpInv, Discovering
<1>11. Closing'
  BY <1>1, <1>2, <1>5, <1>6, <1>7 DEF Closing
<1>12. Fresh' /\ Mcp!SessionsAreHeld'
  BY <1>1, <1>5 DEF McpInv, Fresh, Mcp!SessionsAreHeld
<1>13. closing' \subseteq Mcp!Users \X Mcp!ServerSet
  BY <1>6, McpTypes
<1>14. Mcp!TypeOK'
  BY <1>1, <1>5, <1>8, <1>13, McpTypes DEF Mcp!TypeOK, Locks
<1>15. QED BY <1>8, <1>9, <1>10, <1>11, <1>12, <1>14 DEF McpInv

LEMMA CloseNextKeeps ==
  ASSUME Mcp!UsersAssumption, Mcp!ServersAssumption, McpInv,
         NEW x \in closing, NEW ok \in BOOLEAN, Mcp!CloseNext(x, ok)
  PROVE  McpInv'
<1>1. /\ app = "closing"
      /\ open' = IF ok THEN open \ {x} ELSE open
      /\ stray' = IF ok THEN stray ELSE stray \cup {x}
      /\ closing' = closing \ {x}
      /\ IF closing' = {} THEN Mcp!Reset ELSE UNCHANGED <<app, session, tools>>
      /\ UNCHANGED <<at, server, tool, lock, registered, asked>>
  BY DEF Mcp!CloseNext
<1>2. closing = open \ stray
  BY <1>1 DEF McpInv, Closing
<1>3. \A u \in Mcp!Users : at[u] # "connecting"
  <2>1. ASSUME NEW u \in Mcp!Users, at[u] = "connecting"
        PROVE  FALSE
    <3>1. session[server[u]] = Nobody /\ server[u] \in Mcp!ServerSet
      BY <2>1, McpTypes DEF McpInv, Connecting
    <3>2. QED BY <1>1, <3>1 DEF McpInv, Closing
  <2>2. QED BY <2>1
<1>4. \A y \in open \ stray : session[y[2]] = y[1]
  BY <1>3, McpTypes DEF McpInv, Mcp!SessionsAreHeld
<1>5. closing' = open' \ stray' /\ closing' \subseteq open \ stray
      /\ open' \subseteq open /\ stray' \subseteq open'
  <2>1. x \in open /\ x \notin stray
    BY <1>2
  <2>2. CASE ok
    BY <1>1, <1>2, <2>1, <2>2, McpTypes
  <2>3. CASE ~ok
    BY <1>1, <1>2, <2>1, <2>3, McpTypes
  <2>4. QED BY <2>2, <2>3
<1>6. open' \subseteq Mcp!Users \X Mcp!ServerSet /\ closing' \subseteq Mcp!Users \X Mcp!ServerSet
  BY <1>1, <1>5, McpTypes
<1>7. Locks' /\ ListedOnly'
  BY <1>1 DEF McpInv, Locks, ListedOnly, Mcp!Holds
<1>8. Connecting'
  BY <1>1, <1>3 DEF Connecting
<1>9. app' \in {"closing", "closed"}
  BY <1>1 DEF Mcp!Reset
<1>10. Discovering'
  BY <1>1, <1>9 DEF McpInv, Discovering
<1>11. Fresh'
  <2>1. \A u \in Mcp!Users : at'[u] # "connecting"
    BY <1>1, <1>3
  <2>2. \A c \in Calls, s \in Mcp!ServerSet : at'[c] \in {"new", "waiting"} => <<c, s>> \notin open'
    BY <1>1, <1>5 DEF McpInv, Fresh
  <2>3. app' # "starting"
    BY <1>9
  <2>4. QED BY <2>1, <2>2, <2>3 DEF Fresh
<1>12. \A c \in Calls \ Untracked : at'[c] \in {"new", "ended"}
  BY <1>1 DEF McpInv, Closing
<1>13. CASE closing' = {}
  <2>1. /\ app' = "closed" /\ session' = [s \in Mcp!ServerSet |-> Nobody]
        /\ tools' = [s \in Mcp!ServerSet |-> Mcp!None]
    BY <1>1, <1>13 DEF Mcp!Reset
  <2>2. open' \ stray' = {}
    BY <1>5, <1>13
  <2>3. SessionsOpen' /\ Mcp!SessionsAreHeld' /\ Mcp!CloseReachesAll'
    BY <2>1, <2>2 DEF SessionsOpen, Mcp!SessionsAreHeld, Mcp!CloseReachesAll
  <2>4. Closing'
    BY <1>12, <1>13, <2>1 DEF Closing
  <2>5. /\ session' \in [Mcp!ServerSet -> Mcp!Users \cup {Nobody}]
        /\ tools' \in [Mcp!ServerSet -> (SUBSET Tools) \cup {Mcp!None}]
    BY <2>1
  <2>6. Mcp!TypeOK'
    BY <1>1, <1>5, <1>6, <1>7, <2>1, <2>5, McpTypes DEF Mcp!TypeOK, Locks
  <2>7. QED BY <1>7, <1>8, <1>10, <1>11, <2>3, <2>4, <2>6 DEF McpInv
<1>14. CASE closing' # {}
  <2>1. UNCHANGED <<app, session, tools>>
    BY <1>1, <1>14
  <2>2. SessionsOpen' /\ Mcp!CloseReachesAll'
    BY <1>1, <2>1 DEF SessionsOpen, Mcp!CloseReachesAll
  <2>3. Mcp!SessionsAreHeld'
    BY <1>4, <1>5, <2>1 DEF Mcp!SessionsAreHeld
  <2>4. Closing'
    BY <1>1, <1>5, <1>12, <2>1 DEF McpInv, Closing
  <2>5. Mcp!TypeOK'
    BY <1>1, <1>5, <1>6, <1>7, <2>1, McpTypes DEF Mcp!TypeOK, Locks
  <2>6. QED BY <1>7, <1>8, <1>10, <1>11, <2>2, <2>3, <2>4, <2>5 DEF McpInv
<1>15. QED BY <1>13, <1>14

LEMMA McpNext ==
  ASSUME Mcp!UsersAssumption, Mcp!ServersAssumption, McpInv, [Mcp!Next]_(Mcp!vars)
  PROVE  McpInv'
<1>1. CASE Mcp!Discover
  BY <1>1, DiscoverKeeps
<1>2. CASE Mcp!Close
  BY <1>2, CloseKeeps
<1>3. ASSUME NEW x \in closing, NEW ok \in BOOLEAN, Mcp!CloseNext(x, ok)
      PROVE  McpInv'
  BY <1>3, CloseNextKeeps
<1>4. ASSUME NEW c \in Calls, Mcp!Cancel(c)
      PROVE  McpInv'
  BY <1>4, McpNames, AbortKeeps
<1>5. ASSUME NEW c \in Calls, NEW s \in Mcp!ServerSet, Mcp!Enter(c, s)
      PROVE  McpInv'
  BY <1>5, EnterKeeps
<1>6. ASSUME NEW u \in Mcp!Users, Mcp!Progress(u)
      PROVE  McpInv'
  <2>1. CASE Mcp!Lock(u)
    BY <2>1, LockKeeps
  <2>2. CASE Mcp!LockToList(u)
    BY <2>2, LockToListKeeps
  <2>3. CASE Mcp!Connected(u)
    BY <2>3, ConnectedKeeps
  <2>4. CASE Mcp!ConnectFails(u) \/ Mcp!ConnectIsCut(u) \/ Mcp!Fails(u)
    BY <2>4, AbortKeeps
  <2>5. CASE Mcp!ToolsListed(u)
    BY <2>5, ToolsListedKeeps
  <2>6. CASE u # Discovery /\ (Mcp!LockToCall(u) \/ Mcp!Returns(u))
    BY <2>6, LockToCallKeeps, ReturnsKeeps
  <2>7. QED BY <1>6, <2>1, <2>2, <2>3, <2>4, <2>5, <2>6 DEF Mcp!Progress
<1>7. CASE UNCHANGED Mcp!vars
  <2>1. UNCHANGED <<app, at, server, tool, lock, session, tools, open, stray, closing, registered, asked>>
    BY <1>7 DEF Mcp!vars
  <2>2. Mcp!TypeOK'
    BY <2>1 DEF McpInv, Mcp!TypeOK, Mcp!Holds
  <2>3. Locks' /\ ListedOnly' /\ Connecting' /\ SessionsOpen'
    BY <2>1 DEF McpInv, Locks, ListedOnly, Connecting, SessionsOpen, Mcp!Holds
  <2>4. Discovering' /\ Closing' /\ Fresh' /\ Mcp!SessionsAreHeld' /\ Mcp!CloseReachesAll'
    BY <2>1 DEF McpInv, Discovering, Closing, Fresh, Mcp!SessionsAreHeld, Mcp!CloseReachesAll
  <2>5. QED BY <2>2, <2>3, <2>4 DEF McpInv
<1>8. QED BY <1>1, <1>2, <1>3, <1>4, <1>5, <1>6, <1>7 DEF Mcp!Next

\* SessionsKept of the run providers: whatever the servers publish, configure and
\* fail to answer, no tool is asked for that the configuration does not list, an
\* open session is its server's or about to be, and close reaches all that are
\* not cut off (McpManager.connect, discover, call, close).
THEOREM SessionsAreKept ==
  ASSUME Mcp!UsersAssumption, Mcp!ServersAssumption
  PROVE  Mcp!Spec => []SessionsKept
<1>1. Mcp!Init => McpInv
  BY McpInit
<1>2. McpInv /\ [Mcp!Next]_(Mcp!vars) => McpInv'
  BY McpNext
<1>3. McpInv => SessionsKept
  BY DEF McpInv, ListedOnly, SessionsKept, Mcp!SessionsKept, Mcp!NothingUnlistedIsAsked
<1>4. QED BY <1>1, <1>2, <1>3, PTL DEF Mcp!Spec
=============================================================================
