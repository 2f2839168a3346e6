----------------------------- MODULE ChatProofs -----------------------------
(***************************************************************************)
(* The chats of one conversation, proved for every set of turns, however   *)
(* many crashes, shutdowns and faults: ConversationTurns. The history an   *)
(* agent is given, whatever the limits are: ConversationHistory. The       *)
(* drafts of an answer, whatever it says: ChatDrafts.                      *)
(***************************************************************************)
EXTENDS Chats, Sequences, FiniteSetTheorems, WellFoundedInduction, TLAPS
-----------------------------------------------------------------------------
(* A turn is sound by itself: what its row, its handler, its task and its  *)
(* messages say of it agrees, and broken only ever grows.                  *)

\* Where the outcome is not committed yet.
Undecided == {"begin", "setup", "attempt", "prompt", "backoff", "replied", "failing"}

\* The row of a turn, the task that works on it and what it told.
Told(t) ==
  /\ turn[t] = "none" <=> handler[t] = "none"
  /\ handler[t] # "done" => op[t] = "none"
  /\ op[t] = "none" =>
       turn[t] \in {"none", "running"} /\ runs[t] = 0 /\ (handler[t] = "done" => t \in broken)
  /\ op[t] # "none" => runs[t] = 1
  /\ op[t] \in Undecided => turn[t] = "running"
  /\ op[t] = "answering" => turn[t] = "completed"
  /\ op[t] = "reporting" => turn[t] = "failed"
  /\ "answer" \in messages[t] => op[t] = "over" /\ turn[t] = "completed"
  /\ "error" \in messages[t] => op[t] = "over" /\ turn[t] = "failed"
  /\ op[t] = "over" /\ t \notin broken =>
       \/ turn[t] = "completed" /\ "answer" \in messages[t]
       \/ turn[t] = "failed" /\ "error" \in messages[t]
  /\ turn[t] = "completed" /\ t \in NeedsWorker => "worker" \in messages[t]

\* The attempts of a turn, and which of them called tools.
Tried(t) ==
  /\ op[t] \in {"none", "begin", "setup"} => attempt[t] = 0
  /\ op[t] \in {"attempt", "backoff"} => attempt[t] < MaxAttempts
  /\ op[t] = "prompt" => attempt[t] >= 1
  /\ Executes =>
       /\ effects[t] \subseteq {attempt[t]}
       /\ \/ op[t] \in {"none", "begin", "setup", "attempt", "backoff"}
          \/ op[t] = "prompt" /\ ~tools[t]
          => effects[t] = {}

TurnInv == Chat!TypeOK /\ \A t \in Turns : Told(t) /\ Tried(t)

\* A step of one turn leaves the others alone.
Only(t) ==
  /\ broken \subseteq broken'
  /\ \A u \in Turns \ {t} :
       /\ turn'[u] = turn[u] /\ handler'[u] = handler[u] /\ op'[u] = op[u]
       /\ attempt'[u] = attempt[u] /\ tools'[u] = tools[u] /\ messages'[u] = messages[u]
       /\ runs'[u] = runs[u] /\ effects'[u] = effects[u]

LEMMA TurnsInit ==
  ASSUME Chat!BoundsAssumption, Chat!Init
  PROVE  TurnInv
<1>1. Chat!TypeOK
  BY DEF Chat!BoundsAssumption, Chat!Init, Chat!TypeOK
<1>2. ASSUME NEW t \in Turns
      PROVE  Told(t) /\ Tried(t)
  BY DEF Chat!Init, Told, Tried, Undecided
<1>3. QED BY <1>1, <1>2 DEF TurnInv

LEMMA TurnDomains ==
  ASSUME TurnInv
  PROVE  /\ DOMAIN turn = Turns /\ DOMAIN handler = Turns /\ DOMAIN op = Turns
         /\ DOMAIN attempt = Turns /\ DOMAIN tools = Turns /\ DOMAIN messages = Turns
         /\ DOMAIN runs = Turns /\ DOMAIN effects = Turns
BY DEF TurnInv, Chat!TypeOK

LEMMA OthersKeep ==
  ASSUME TurnInv, NEW t \in Turns, Only(t), Chat!TypeOK', Told(t)', Tried(t)'
  PROVE  TurnInv'
<1>1. ASSUME NEW u \in Turns \ {t}
      PROVE  Told(u)' /\ Tried(u)'
  BY DEF TurnInv, Only, Told, Tried, Undecided
<1>2. QED BY <1>1 DEF TurnInv

\* The handler of a request.
LEMMA HandlesKeep ==
  ASSUME TurnInv, Chat!BoundsAssumption, NEW t \in Turns, Chat!CreateTurn(t) \/ Chat!Handles(t)
  PROVE  TurnInv'
<1>1. Told(t) /\ Tried(t) /\ Chat!TypeOK
  BY DEF TurnInv
<1>2. CASE Chat!CreateTurn(t)
  <2>1. Only(t)
    BY <1>2, TurnDomains DEF Only, Chat!CreateTurn, Chat!Steps, Chat!quiet
  <2>2. Chat!TypeOK'
    BY <1>1, <1>2 DEF Chat!TypeOK, Chat!CreateTurn, Chat!Steps, Chat!quiet
  <2>3. Told(t)' /\ Tried(t)'
    BY <1>1, <1>2, TurnDomains DEF Told, Tried, Undecided, Chat!CreateTurn, Chat!Steps, Chat!quiet
  <2>4. QED BY <2>1, <2>2, <2>3, OthersKeep
<1>3. CASE Chat!Ask(t)
  <2>1. Only(t)
    BY <1>3, TurnDomains DEF Only, Chat!Ask, Chat!Steps, Chat!Says, Chat!quiet
  <2>2. Chat!TypeOK'
    BY <1>1, <1>3 DEF Chat!TypeOK, Chat!Ask, Chat!Steps, Chat!Says, Chat!quiet
  <2>3. Told(t)' /\ Tried(t)'
    BY <1>1, <1>3, TurnDomains
       DEF Told, Tried, Undecided, Chat!Ask, Chat!Steps, Chat!Says, Chat!quiet
  <2>4. QED BY <2>1, <2>2, <2>3, OthersKeep
<1>4. CASE Chat!Queue(t)
  <2>1. Only(t)
    BY <1>4, TurnDomains DEF Only, Chat!Queue, Chat!Steps, Chat!quiet
  <2>2. Chat!TypeOK'
    BY <1>1, <1>4 DEF Chat!TypeOK, Chat!Queue, Chat!Steps, Chat!quiet
  <2>3. Told(t)' /\ Tried(t)'
    BY <1>1, <1>4, TurnDomains DEF Told, Tried, Undecided, Chat!Queue, Chat!Steps, Chat!quiet
  <2>4. QED BY <2>1, <2>2, <2>3, OthersKeep
<1>5. CASE Chat!QueueFails(t)
  <2>1. Only(t)
    BY <1>5, TurnDomains DEF Only, Chat!QueueFails, Chat!Steps
  <2>2. Chat!TypeOK'
    BY <1>1, <1>5 DEF Chat!TypeOK, Chat!QueueFails, Chat!Steps, Chat!BoundsAssumption
  <2>3. Told(t)' /\ Tried(t)'
    BY <1>1, <1>5, TurnDomains DEF Told, Tried, Undecided, Chat!QueueFails, Chat!Steps
  <2>4. QED BY <2>1, <2>2, <2>3, OthersKeep
<1>6. CASE Chat!Schedule(t)
  <2>1. Only(t)
    BY <1>6, TurnDomains DEF Only, Chat!Schedule, Chat!Steps, Chat!quiet
  <2>2. Chat!TypeOK'
    BY <1>1, <1>6 DEF Chat!TypeOK, Chat!Schedule, Chat!Steps, Chat!quiet
  <2>3. Told(t)' /\ Tried(t)'
    BY <1>1, <1>6, TurnDomains DEF Told, Tried, Undecided, Chat!Schedule, Chat!Steps, Chat!quiet
  <2>4. QED BY <2>1, <2>2, <2>3, OthersKeep
<1>7. QED BY <1>2, <1>3, <1>4, <1>5, <1>6 DEF Chat!Handles

\* A step of the task that only moves on, without a word.
LEMMA MovesKeep ==
  ASSUME TurnInv, NEW t \in Turns, NEW from, NEW to, Chat!Goes(t, from, to),
         from \in Undecided, to \in Undecided \ {"begin", "prompt"},
         to = "setup" => from = "begin",
         to = "attempt" => from \in {"setup", "backoff"} /\ attempt[t] < MaxAttempts,
         to = "backoff" => /\ from = "prompt" /\ attempt[t] < MaxAttempts
                           /\ Executes => ~tools[t],
         UNCHANGED <<turn, handler, attempt, tools, messages, runs, effects>>,
         UNCHANGED <<process, broken, crashes, closes>>, faults' \in 0 .. MaxFaults
  PROVE  TurnInv'
<1>1. Told(t) /\ Tried(t) /\ Chat!TypeOK
  BY DEF TurnInv
<1>2. op[t] = from /\ op'[t] = to
  BY TurnDomains DEF Chat!Goes
<1>3. Only(t)
  BY TurnDomains DEF Only, Chat!Goes
<1>4. Chat!TypeOK'
  BY <1>1 DEF Chat!TypeOK, Chat!Goes, Undecided
<1>5. Told(t)' /\ Tried(t)'
  BY <1>1, <1>2 DEF Told, Tried, Undecided
<1>6. QED BY <1>3, <1>4, <1>5, OthersKeep

LEMMA QuietMovesKeep ==
  ASSUME TurnInv, Chat!BoundsAssumption, NEW t \in Turns,
         \/ Chat!Begin(t) \/ Chat!Setup(t) \/ Chat!PromptReturns(t) \/ Chat!PromptFails(t)
         \/ Chat!Backoff(t) \/ Chat!WorkerMissing(t)
  PROVE  TurnInv'
<1>1. Told(t) /\ Tried(t) /\ Chat!TypeOK
  BY DEF TurnInv
<1>2. faults \in 0 .. MaxFaults
  BY <1>1 DEF Chat!TypeOK
<1>3. CASE Chat!Begin(t)
  BY <1>2, <1>3, MovesKeep DEF Chat!Begin, Undecided, Chat!quiet
<1>4. CASE Chat!Setup(t)
  <2>1. PICK to \in {"attempt", "failing"} : Chat!Goes(t, "setup", to)
    BY <1>4 DEF Chat!Setup
  <2>2. attempt[t] < MaxAttempts
    BY <1>1, <2>1 DEF Tried, Chat!Goes, Chat!BoundsAssumption
  <2>3. QED BY <1>2, <1>4, <2>1, <2>2, MovesKeep DEF Chat!Setup, Undecided, Chat!quiet
<1>5. CASE Chat!PromptReturns(t)
  BY <1>2, <1>5, MovesKeep DEF Chat!PromptReturns, Undecided, Chat!quiet
<1>6. CASE Chat!PromptFails(t)
  <2>1. PICK retryable \in BOOLEAN :
          Chat!Goes(t, "prompt", IF Chat!MayRetry(t, retryable) THEN "backoff" ELSE "failing")
    BY <1>6 DEF Chat!PromptFails
  <2>2. CASE Chat!MayRetry(t, retryable)
    <3>1. Chat!Goes(t, "prompt", "backoff")
      BY <2>1, <2>2
    <3>2. QED BY <1>2, <1>6, <2>2, <3>1, MovesKeep
                 DEF Chat!PromptFails, Chat!MayRetry, Undecided, Chat!quiet
  <2>3. CASE ~Chat!MayRetry(t, retryable)
    <3>1. Chat!Goes(t, "prompt", "failing")
      BY <2>1, <2>3
    <3>2. QED BY <1>2, <1>6, <3>1, MovesKeep DEF Chat!PromptFails, Undecided, Chat!quiet
  <2>4. QED BY <2>2, <2>3
<1>7. CASE Chat!Backoff(t)
  <2>1. attempt[t] < MaxAttempts
    BY <1>1, <1>7 DEF Tried, Chat!Backoff, Chat!Goes
  <2>2. QED BY <1>2, <1>7, <2>1, MovesKeep DEF Chat!Backoff, Undecided, Chat!quiet
<1>8. CASE Chat!WorkerMissing(t)
  BY <1>2, <1>8, MovesKeep DEF Chat!WorkerMissing, Undecided, Chat!quiet
<1>9. QED BY <1>3, <1>4, <1>5, <1>6, <1>7, <1>8

\* What an attempt does.
LEMMA AttemptsKeep ==
  ASSUME TurnInv, Chat!BoundsAssumption, NEW t \in Turns,
         Chat!Attempt(t) \/ Chat!CallTool(t) \/ Chat!WorkerCompletes(t)
  PROVE  TurnInv'
<1>1. Told(t) /\ Tried(t) /\ Chat!TypeOK
  BY DEF TurnInv
<1>2. attempt[t] \in 0 .. MaxAttempts /\ MaxAttempts \in Nat \ {0} /\ effects[t] \subseteq 1 .. MaxAttempts
  BY <1>1 DEF Chat!TypeOK, Chat!BoundsAssumption
<1>3. CASE Chat!Attempt(t)
  <2>1. attempt[t] + 1 \in 1 .. MaxAttempts /\ op[t] = "attempt"
    BY <1>1, <1>2, <1>3 DEF Tried, Chat!Attempt, Chat!Goes
  <2>2. /\ op'[t] = "prompt" /\ attempt'[t] = attempt[t] + 1 /\ tools'[t] = FALSE
        /\ UNCHANGED <<turn, handler, messages, runs, effects, broken>>
    BY <1>3, TurnDomains DEF Chat!Attempt, Chat!Goes, Chat!quiet
  <2>3. Only(t)
    BY <1>3, TurnDomains DEF Only, Chat!Attempt, Chat!Goes, Chat!quiet
  <2>4. Chat!TypeOK'
    BY <1>1, <1>3, <2>1 DEF Chat!TypeOK, Chat!Attempt, Chat!Goes, Chat!quiet
  <2>5. Told(t)' /\ Tried(t)'
    BY <1>1, <2>1, <2>2 DEF Told, Tried, Undecided
  <2>6. QED BY <2>3, <2>4, <2>5, OthersKeep
<1>4. CASE Chat!CallTool(t)
  <2>1. op[t] = "prompt" /\ attempt[t] \in 1 .. MaxAttempts
    BY <1>1, <1>2, <1>4 DEF Tried, Chat!CallTool
  <2>2. /\ effects'[t] = effects[t] \cup {attempt[t]} /\ tools'[t] = TRUE
        /\ UNCHANGED <<turn, handler, op, attempt, messages, runs, broken>>
    BY <1>4, TurnDomains DEF Chat!CallTool, Chat!quiet
  <2>3. Only(t)
    BY <1>4, TurnDomains DEF Only, Chat!CallTool, Chat!quiet
  <2>4. Chat!TypeOK'
    BY <1>1, <1>2, <1>4, <2>1 DEF Chat!TypeOK, Chat!CallTool, Chat!quiet
  <2>5. Told(t)' /\ Tried(t)'
    BY <1>1, <2>1, <2>2 DEF Told, Tried, Undecided
  <2>6. QED BY <2>3, <2>4, <2>5, OthersKeep
<1>5. CASE Chat!WorkerCompletes(t)
  <2>1. /\ messages'[t] = messages[t] \cup {"worker"}
        /\ UNCHANGED <<turn, handler, op, attempt, tools, runs, effects, broken>>
    BY <1>5, TurnDomains DEF Chat!WorkerCompletes, Chat!Says, Chat!quiet
  <2>2. Only(t)
    BY <1>5, TurnDomains DEF Only, Chat!WorkerCompletes, Chat!Says, Chat!quiet
  <2>3. Chat!TypeOK'
    BY <1>1, <1>5 DEF Chat!TypeOK, Chat!WorkerCompletes, Chat!Says, Chat!quiet
  <2>4. Told(t)' /\ Tried(t)'
    BY <1>1, <2>1 DEF Told, Tried, Undecided
  <2>5. QED BY <2>2, <2>3, <2>4, OthersKeep
<1>6. QED BY <1>3, <1>4, <1>5

\* The outcome is committed, then told.
LEMMA OutcomesKeep ==
  ASSUME TurnInv, NEW t \in Turns,
         Chat!Complete(t) \/ Chat!Answer(t) \/ Chat!Fail(t) \/ Chat!Report(t)
  PROVE  TurnInv'
<1>1. Told(t) /\ Tried(t) /\ Chat!TypeOK
  BY DEF TurnInv
<1>2. CASE Chat!Complete(t)
  <2>1. /\ op[t] = "replied" /\ op'[t] = "answering" /\ turn'[t] = "completed"
        /\ t \in NeedsWorker => "worker" \in messages[t]
        /\ UNCHANGED <<handler, attempt, tools, messages, runs, effects, broken>>
    BY <1>2, TurnDomains DEF Chat!Complete, Chat!Goes, Chat!WorkerWorked, Chat!quiet
  <2>2. Only(t)
    BY <1>2, TurnDomains DEF Only, Chat!Complete, Chat!Goes, Chat!quiet
  <2>3. Chat!TypeOK'
    BY <1>1, <1>2 DEF Chat!TypeOK, Chat!Complete, Chat!Goes, Chat!quiet
  <2>4. Told(t)' /\ Tried(t)'
    BY <1>1, <2>1 DEF Told, Tried, Undecided
  <2>5. QED BY <2>2, <2>3, <2>4, OthersKeep
<1>3. CASE Chat!Answer(t)
  <2>1. /\ op[t] = "answering" /\ op'[t] = "over" /\ messages'[t] = messages[t] \cup {"answer"}
        /\ UNCHANGED <<turn, handler, attempt, tools, runs, effects, broken>>
    BY <1>3, TurnDomains DEF Chat!Answer, Chat!Goes, Chat!Says, Chat!quiet
  <2>2. Only(t)
    BY <1>3, TurnDomains DEF Only, Chat!Answer, Chat!Goes, Chat!Says, Chat!quiet
  <2>3. Chat!TypeOK'
    BY <1>1, <1>3 DEF Chat!TypeOK, Chat!Answer, Chat!Goes, Chat!Says, Chat!quiet
  <2>4. Told(t)' /\ Tried(t)'
    BY <1>1, <2>1 DEF Told, Tried, Undecided
  <2>5. QED BY <2>2, <2>3, <2>4, OthersKeep
<1>4. CASE Chat!Fail(t)
  <2>1. /\ op[t] = "failing" /\ op'[t] = "reporting" /\ turn'[t] = "failed"
        /\ UNCHANGED <<handler, attempt, tools, messages, runs, effects, broken>>
    BY <1>4, TurnDomains DEF Chat!Fail, Chat!Goes, Chat!quiet
  <2>2. Only(t)
    BY <1>4, TurnDomains DEF Only, Chat!Fail, Chat!Goes, Chat!quiet
  <2>3. Chat!TypeOK'
    BY <1>1, <1>4 DEF Chat!TypeOK, Chat!Fail, Chat!Goes, Chat!quiet
  <2>4. Told(t)' /\ Tried(t)'
    BY <1>1, <2>1 DEF Told, Tried, Undecided
  <2>5. QED BY <2>2, <2>3, <2>4, OthersKeep
<1>5. CASE Chat!Report(t)
  <2>1. /\ op[t] = "reporting" /\ op'[t] = "over" /\ messages'[t] = messages[t] \cup {"error"}
        /\ UNCHANGED <<turn, handler, attempt, tools, runs, effects, broken>>
    BY <1>5, TurnDomains DEF Chat!Report, Chat!Goes, Chat!Says, Chat!quiet
  <2>2. Only(t)
    BY <1>5, TurnDomains DEF Only, Chat!Report, Chat!Goes, Chat!Says, Chat!quiet
  <2>3. Chat!TypeOK'
    BY <1>1, <1>5 DEF Chat!TypeOK, Chat!Report, Chat!Goes, Chat!Says, Chat!quiet
  <2>4. Told(t)' /\ Tried(t)'
    BY <1>1, <2>1 DEF Told, Tried, Undecided
  <2>5. QED BY <2>2, <2>3, <2>4, OthersKeep
<1>6. QED BY <1>2, <1>3, <1>4, <1>5

LEMMA FaultsKeep ==
  ASSUME TurnInv, Chat!BoundsAssumption, NEW t \in Turns, Chat!DatabaseFails(t)
  PROVE  TurnInv'
<1>1. Told(t) /\ Tried(t) /\ Chat!TypeOK
  BY DEF TurnInv
<1>2. faults' \in 0 .. MaxFaults
  BY <1>1 DEF Chat!TypeOK, Chat!DatabaseFails, Chat!BoundsAssumption
<1>3. CASE op[t] \in {"begin", "failing"}
  <2>1. /\ op' = [op EXCEPT ![t] = "over"] /\ broken' = broken \cup {t}
        /\ UNCHANGED <<turn, handler, attempt, tools, messages, runs, effects, process, crashes, closes>>
    BY <1>3 DEF Chat!DatabaseFails
  <2>2. Only(t)
    BY <2>1, TurnDomains DEF Only
  <2>3. Chat!TypeOK'
    BY <1>1, <1>2, <2>1 DEF Chat!TypeOK
  <2>4. Told(t)' /\ Tried(t)'
    BY <1>1, <1>3, <2>1, TurnDomains DEF Told, Tried, Undecided
  <2>5. QED BY <2>2, <2>3, <2>4, OthersKeep
<1>4. CASE op[t] \in {"attempt", "replied"}
  <2>1. Chat!Goes(t, op[t], "failing") /\ UNCHANGED broken
    BY <1>4 DEF Chat!DatabaseFails, Chat!Goes
  <2>2. QED BY <1>2, <1>4, <2>1, MovesKeep DEF Chat!DatabaseFails, Undecided
<1>5. QED BY <1>3, <1>4 DEF Chat!DatabaseFails

\* The process stops or breaks off: what nobody finishes is broken.
LEMMA StopsKeep ==
  ASSUME TurnInv, Chat!BoundsAssumption, Chat!Close \/ Chat!Exit \/ Chat!Crash \/ Chat!Start
  PROVE  TurnInv'
<1>1. Chat!TypeOK
  BY DEF TurnInv
<1>2. CASE Chat!Close
  <2>1. Chat!TypeOK'
    BY <1>1, <1>2 DEF Chat!TypeOK, Chat!Close, Chat!Alive, Chat!BoundsAssumption
  <2>2. ASSUME NEW t \in Turns
        PROVE  Told(t)' /\ Tried(t)'
    <3>1. Told(t) /\ Tried(t)
      BY DEF TurnInv
    <3>2. /\ op'[t] = IF ~Chat!Alive(t) THEN op[t]
                      ELSE IF op[t] = "prompt" THEN "failing" ELSE "over"
          /\ Chat!Alive(t) /\ op[t] # "prompt" => t \in broken'
          /\ broken \subseteq broken'
          /\ UNCHANGED <<turn, handler, attempt, tools, messages, runs, effects>>
      BY <1>2 DEF Chat!Close
    <3>3. QED BY <3>1, <3>2 DEF Told, Tried, Undecided, Chat!Alive
  <2>3. QED BY <2>1, <2>2 DEF TurnInv
<1>3. CASE Chat!Crash
  <2>1. Chat!TypeOK'
    BY <1>1, <1>3 DEF Chat!TypeOK, Chat!Crash, Chat!BoundsAssumption
  <2>2. ASSUME NEW t \in Turns
        PROVE  Told(t)' /\ Tried(t)'
    <3>1. Told(t) /\ Tried(t) /\ handler[t] \in {"none", "routed", "asked", "queued", "done"}
      BY <1>1 DEF TurnInv, Chat!TypeOK
    <3>2. /\ op'[t] = IF Chat!Alive(t) THEN "over" ELSE op[t]
          /\ handler'[t] = IF handler[t] = "none" THEN "none" ELSE "done"
          /\ Chat!Alive(t) \/ handler[t] \in {"routed", "asked", "queued"} => t \in broken'
          /\ broken \subseteq broken'
          /\ UNCHANGED <<turn, attempt, tools, messages, runs, effects>>
      BY <1>3 DEF Chat!Crash
    <3>3. QED BY <3>1, <3>2 DEF Told, Tried, Undecided, Chat!Alive
  <2>3. QED BY <2>1, <2>2 DEF TurnInv
<1>4. CASE Chat!Exit \/ Chat!Start
  BY <1>1, <1>4 DEF TurnInv, Told, Tried, Chat!TypeOK, Chat!Exit, Chat!Start, Chat!turnVars
<1>5. QED BY <1>2, <1>3, <1>4

LEMMA TurnsNext ==
  ASSUME TurnInv, Chat!BoundsAssumption, [Chat!Next]_Chat!vars
  PROVE  TurnInv'
<1>1. CASE UNCHANGED Chat!vars
  BY <1>1 DEF TurnInv, Told, Tried, Chat!TypeOK, Chat!vars, Chat!turnVars
<1>2. ASSUME NEW t \in Turns,
             \/ Chat!CreateTurn(t) \/ Chat!CallTool(t) \/ Chat!WorkerCompletes(t)
             \/ Chat!Handles(t) \/ Chat!Works(t)
      PROVE  TurnInv'
  BY <1>2, HandlesKeep, QuietMovesKeep, AttemptsKeep, OutcomesKeep, FaultsKeep DEF Chat!Works
<1>3. CASE Chat!Close \/ Chat!Exit \/ Chat!Crash \/ Chat!Start
  BY <1>3, StopsKeep
<1>4. QED BY <1>1, <1>2, <1>3 DEF Chat!Next

LEMMA InvTells ==
  ASSUME TurnInv, Chat!BoundsAssumption
  PROVE  Chat!TurnsAreTold
<1>1. Chat!TypeOK /\ \A t \in Turns : Told(t) /\ Tried(t)
  BY DEF TurnInv
<1>2. Chat!StrandedOnlyByFault
  BY <1>1 DEF Told, Chat!StrandedOnlyByFault, Chat!Alive
<1>3. Chat!OutcomeIsTold
  BY <1>1 DEF Told, Chat!OutcomeIsTold
<1>4. Chat!OneRunPerTurn
  BY <1>1 DEF Told, Chat!OneRunPerTurn
<1>5. Chat!OwnWorkerWorked
  BY <1>1 DEF Told, Chat!OwnWorkerWorked, Chat!BoundsAssumption
<1>6. Chat!EffectsInOneAttempt
  <2> SUFFICES ASSUME Executes, NEW t \in Turns
               PROVE  Cardinality(effects[t]) <= 1
    BY DEF Chat!EffectsInOneAttempt, Chat!Cardinality, Cardinality
  <2>1. effects[t] \subseteq {attempt[t]}
    BY <1>1 DEF Tried
  <2>2. effects[t] = {} \/ effects[t] = {attempt[t]}
    BY <2>1
  <2>3. PICK S : S = effects[t]
    OBVIOUS
  <2>4. PICK a : a = attempt[t]
    OBVIOUS
  <2>5. Cardinality(S) = 0 \/ Cardinality(S) = 1
    BY <2>2, <2>3, <2>4, FS_EmptySet, FS_Singleton
  <2>6. Cardinality(S) <= 1
    BY <2>5
  <2>7. QED BY <2>3, <2>6
<1>7. QED BY <1>1, <1>2, <1>3, <1>4, <1>5, <1>6 DEF Chat!TurnsAreTold

\* A turn is worked on once however often it is asked for, ends with one outcome
\* that its messages tell, completes only on its own worker's work, is left
\* running only by a crash, a cancellation or a failed commit, and an agent that
\* may request execution is not run again after it called tools (TurnsAreTold
\* of the run chats, over api/conversations.py and the coordinator).
THEOREM TurnsTold ==
  ASSUME Chat!BoundsAssumption
  PROVE  Chat!Spec => []TurnsAreTold
BY TurnsInit, TurnsNext, InvTells, PTL DEF Chat!Spec, TurnsAreTold

-----------------------------------------------------------------------------
(* The history: what the characters of a selection come to.                *)

LEMMA NaturalsFrom ==
  ASSUME NEW I \in SUBSET Nat, 0 \in I, \A n \in I : n + 1 \in I
  PROVE  I = Nat
<1> DEFINE rest == Nat \ I
           less == {ss \in Nat \X Nat : ss[1] < ss[2]}
<1> SUFFICES ASSUME rest # {}
             PROVE  FALSE
  OBVIOUS
<1>1. IsWellFoundedOn(less, Nat)
  BY NatLessThanWellFounded DEF OpToRel
<1>2. PICK m \in rest : \A n \in rest : <<n, m>> \notin less
  BY <1>1, WFMin
<1>3. m \in Nat /\ m # 0 /\ m - 1 \in Nat /\ <<m - 1, m>> \in less
  OBVIOUS
<1>4. m - 1 \in I
  BY <1>2, <1>3
<1>5. m \in I
  BY <1>3, <1>4
<1>6. QED BY <1>5

LEMMA LeastNumber ==
  ASSUME NEW S \in SUBSET Nat, S # {}
  PROVE  History!Min(S) \in S /\ \A n \in S : History!Min(S) <= n
<1> DEFINE less == {ss \in Nat \X Nat : ss[1] < ss[2]}
<1>1. IsWellFoundedOn(less, Nat)
  BY NatLessThanWellFounded DEF OpToRel
<1>2. PICK m \in S : \A n \in S : <<n, m>> \notin less
  BY <1>1, WFMin
<1>3. \A n \in S : m <= n
  <2> SUFFICES ASSUME NEW n \in S, n < m
               PROVE  FALSE
    OBVIOUS
  <2>1. <<n, m>> \in less
    OBVIOUS
  <2>2. QED BY <1>2, <2>1
<1>4. QED BY <1>3 DEF History!Min

Items == Seq([id : Nat, length : Nat])

\* The sums of the lengths of the first items.
Sums(items, sum) ==
  sum = [k \in 0 .. Len(items) |-> IF k = 0 THEN 0 ELSE sum[k - 1] + items[k].length]

SumsOf(items) == CHOOSE sum : Sums(items, sum)

LEMMA SumsExist ==
  ASSUME NEW items \in Items
  PROVE  Sums(items, SumsOf(items))
<1> DEFINE To(n, f) == f = [k \in 0 .. n |-> IF k = 0 THEN 0 ELSE f[k - 1] + items[k].length]
           I == {n \in Nat : \E f : To(n, f)}
<1>1. 0 \in I
  <2>1. To(0, [k \in 0 .. 0 |-> 0])
    OBVIOUS
  <2>2. QED BY <2>1
<1>2. ASSUME NEW n \in I
      PROVE  n + 1 \in I
  <2>1. PICK f : To(n, f)
    OBVIOUS
  <2> DEFINE g == [k \in 0 .. n + 1 |-> IF k = n + 1 THEN f[n] + items[n + 1].length ELSE f[k]]
  <2>2. \A k \in 0 .. n + 1 : g[k] = IF k = 0 THEN 0 ELSE g[k - 1] + items[k].length
    BY <2>1
  <2>3. To(n + 1, g)
    <3>1. g = [k \in 0 .. n + 1 |-> g[k]]
      OBVIOUS
    <3> HIDE DEF g
    <3>2. QED BY <2>2, <3>1
  <2> HIDE DEF g
  <2>4. \E f2 : To(n + 1, f2)
    BY <2>3
  <2>5. QED BY <2>4
<1>3. I = Nat
  BY <1>1, <1>2, NaturalsFrom
<1>4. Len(items) \in Nat
  BY DEF Items
<1>5. \E f : To(Len(items), f)
  BY <1>3, <1>4
<1>6. QED BY <1>5 DEF Sums, SumsOf

LEMMA TotalIs ==
  ASSUME NEW items \in Items
  PROVE  /\ History!Total(items) = SumsOf(items)[Len(items)]
         /\ SumsOf(items)[0] = 0
         /\ \A k \in 1 .. Len(items) :
              SumsOf(items)[k] = SumsOf(items)[k - 1] + items[k].length
<1>1. Len(items) \in Nat
  BY DEF Items
<1>2. History!Total(items) = SumsOf(items)[Len(items)]
  BY DEF History!Total, SumsOf, Sums
<1>3. QED BY <1>1, <1>2, SumsExist DEF Sums

LEMMA Elements ==
  ASSUME NEW S, NEW s \in Seq(S)
  PROVE  /\ Len(s) \in Nat /\ DOMAIN s = 1 .. Len(s)
         /\ \A n \in 1 .. Len(s) : s[n] \in S
OBVIOUS

LEMMA Retyped ==
  ASSUME NEW S, NEW T, NEW s \in Seq(S), \A n \in 1 .. Len(s) : s[n] \in T
  PROVE  s \in Seq(T)
OBVIOUS

LEMMA ItemsHaveLengths ==
  ASSUME NEW items \in Items
  PROVE  Len(items) \in Nat /\ \A n \in 1 .. Len(items) : items[n].length \in Nat
<1>1. Len(items) \in Nat /\ \A n \in 1 .. Len(items) : items[n] \in [id : Nat, length : Nat]
  BY Elements DEF Items
<1>2. QED BY <1>1

LEMMA SumsAreNat ==
  ASSUME NEW items \in Items, NEW k \in 0 .. Len(items)
  PROVE  SumsOf(items)[k] \in Nat
<1> DEFINE I == {n \in Nat : n <= Len(items) => SumsOf(items)[n] \in Nat}
<1>1. Len(items) \in Nat /\ \A n \in 1 .. Len(items) : items[n].length \in Nat
  BY ItemsHaveLengths
<1>2. 0 \in I
  BY TotalIs
<1>3. ASSUME NEW n \in I
      PROVE  n + 1 \in I
  <2>1. n + 1 <= Len(items) =>
          SumsOf(items)[n + 1] = SumsOf(items)[n] + items[n + 1].length
    <3>1. n + 1 <= Len(items) => n + 1 \in 1 .. Len(items) /\ (n + 1) - 1 = n
      BY <1>1
    <3>2. QED BY <3>1, TotalIs
  <2>2. QED BY <1>1, <2>1
<1>4. I = Nat
  BY <1>2, <1>3, NaturalsFrom
<1>5. QED BY <1>1, <1>4

LEMMA TotalIsNat ==
  ASSUME NEW items \in Items
  PROVE  History!Total(items) \in Nat
<1>1. Len(items) \in 0 .. Len(items)
  BY DEF Items
<1>2. QED BY <1>1, SumsAreNat, TotalIs

LEMMA TotalOfNone == History!Total(<<>>) = 0
BY <<>> \in Items, TotalIs DEF Items

LEMMA TotalOfMore ==
  ASSUME NEW items \in Items, NEW item \in [id : Nat, length : Nat]
  PROVE  History!Total(Append(items, item)) = History!Total(items) + item.length
<1> DEFINE more == Append(items, item)
           I == {n \in Nat : n <= Len(items) => SumsOf(more)[n] = SumsOf(items)[n]}
<1>1. /\ more \in Items /\ Len(items) \in Nat /\ Len(more) = Len(items) + 1
      /\ more[Len(more)] = item /\ \A k \in 1 .. Len(items) : more[k] = items[k]
  BY DEF Items
<1> HIDE DEF more
<1>2. 0 \in I
  BY <1>1, TotalIs
<1>3. ASSUME NEW n \in I
      PROVE  n + 1 \in I
  <2>1. ASSUME n + 1 <= Len(items)
        PROVE  SumsOf(more)[n + 1] = SumsOf(items)[n + 1]
    <3>1. /\ n + 1 \in 1 .. Len(items) /\ n + 1 \in 1 .. Len(more) /\ (n + 1) - 1 = n
          /\ n <= Len(items)
      BY <1>1, <2>1
    <3>2. SumsOf(more)[n + 1] = SumsOf(more)[n] + more[n + 1].length
      BY <1>1, <3>1, TotalIs
    <3>3. SumsOf(items)[n + 1] = SumsOf(items)[n] + items[n + 1].length
      BY <3>1, TotalIs
    <3>4. more[n + 1] = items[n + 1]
      BY <1>1, <3>1
    <3>5. SumsOf(more)[n] = SumsOf(items)[n]
      BY <3>1
    <3>6. QED BY <3>2, <3>3, <3>4, <3>5
  <2>2. QED BY <2>1
<1>4. I = Nat
  BY <1>2, <1>3, NaturalsFrom
<1>5. SumsOf(more)[Len(items)] = SumsOf(items)[Len(items)]
  BY <1>1, <1>4
<1>6. Len(more) \in 1 .. Len(more) /\ Len(more) - 1 = Len(items)
  BY <1>1
<1>7. SumsOf(more)[Len(more)] = SumsOf(more)[Len(items)] + more[Len(more)].length
  BY <1>1, <1>6, TotalIs
<1>8. QED BY <1>1, <1>5, <1>7, TotalIs DEF more

LEMMA ReverseIs ==
  ASSUME NEW S, NEW s \in Seq(S)
  PROVE  /\ History!Reverse(s) \in Seq(S) /\ Len(History!Reverse(s)) = Len(s)
         /\ \A k \in 1 .. Len(s) :
              /\ History!Reverse(s)[k] = s[Len(s) + 1 - k]
              /\ Len(s) + 1 - k \in 1 .. Len(s)
<1>1. Len(s) \in Nat /\ \A k \in 1 .. Len(s) : s[k] \in S
  OBVIOUS
<1>2. \A k \in 1 .. Len(s) : Len(s) + 1 - k \in 1 .. Len(s) /\ (Len(s) - k) + 1 = Len(s) + 1 - k
  BY <1>1
<1>3. \A k \in 1 .. Len(s) : s[(Len(s) - k) + 1] \in S
  BY <1>1, <1>2
<1>4. QED BY <1>1, <1>2, <1>3 DEF History!Reverse

LEMMA TotalOfReverse ==
  ASSUME NEW items \in Items
  PROVE  History!Total(History!Reverse(items)) = History!Total(items)
<1> DEFINE back == History!Reverse(items)
           I == {n \in Nat : n <= Len(items) =>
                   SumsOf(back)[n] = History!Total(items) - SumsOf(items)[Len(items) - n]}
<1>1. /\ back \in Items /\ Len(back) = Len(items) /\ Len(items) \in Nat
      /\ \A k \in 1 .. Len(items) : back[k] = items[Len(items) + 1 - k]
      /\ \A k \in 1 .. Len(items) : items[k].length \in Nat
  BY ReverseIs, ItemsHaveLengths DEF Items
<1> HIDE DEF back
<1>2. \A k \in 0 .. Len(items) : SumsOf(items)[k] \in Nat
  BY SumsAreNat
<1>3. History!Total(items) \in Nat /\ History!Total(items) = SumsOf(items)[Len(items)]
  BY TotalIsNat, TotalIs
<1>4. 0 \in I
  <2>1. SumsOf(back)[0] = 0 /\ Len(items) - 0 = Len(items)
    BY <1>1, TotalIs
  <2>2. QED BY <1>3, <2>1
<1>5. ASSUME NEW n \in I
      PROVE  n + 1 \in I
  <2>1. ASSUME n + 1 <= Len(items)
        PROVE  SumsOf(back)[n + 1] = History!Total(items) - SumsOf(items)[Len(items) - (n + 1)]
    <3> DEFINE at == Len(items) - n
    <3>1. /\ n + 1 \in 1 .. Len(items) /\ (n + 1) - 1 = n /\ n <= Len(items)
          /\ at \in 1 .. Len(items) /\ Len(items) + 1 - (n + 1) = at
          /\ at - 1 = Len(items) - (n + 1) /\ at - 1 \in 0 .. Len(items)
      BY <1>1, <2>1
    <3> HIDE DEF at
    <3>2. SumsOf(back)[n + 1] = SumsOf(back)[n] + back[n + 1].length
      BY <1>1, <3>1, TotalIs
    <3>3. back[n + 1] = items[at]
      BY <1>1, <3>1
    <3>4. SumsOf(items)[at] = SumsOf(items)[at - 1] + items[at].length
      BY <3>1, TotalIs
    <3>5. SumsOf(back)[n] = History!Total(items) - SumsOf(items)[at]
      BY <3>1 DEF at
    <3>6. /\ SumsOf(items)[at] \in Nat /\ SumsOf(items)[at - 1] \in Nat
          /\ items[at].length \in Nat
      BY <1>1, <1>2, <3>1
    <3>7. SumsOf(back)[n + 1] = History!Total(items) - SumsOf(items)[at - 1]
      BY <1>3, <3>2, <3>3, <3>4, <3>5, <3>6
    <3>8. QED BY <3>1, <3>7
  <2>2. QED BY <2>1
<1>6. I = Nat
  BY <1>4, <1>5, NaturalsFrom
<1>7. SumsOf(back)[Len(items)] = History!Total(items) - SumsOf(items)[Len(items) - Len(items)]
  BY <1>1, <1>6
<1>8. Len(items) - Len(items) = 0 /\ SumsOf(items)[0] = 0
  BY <1>1, TotalIs
<1>9. QED BY <1>1, <1>3, <1>7, <1>8, TotalIs DEF back

-----------------------------------------------------------------------------
(* The history: the newest of what was said before a turn.                 *)

LogInv ==
  /\ log \in Seq([type : History!Spoken \cup {"agent_delta"}, turn : Turns, length : Lengths \cup {1}])
  /\ Len(log) <= MaxLog /\ begun \subseteq Turns

LEMMA LogInit ==
  ASSUME History!NumbersAssumption, History!Init
  PROVE  LogInv
BY DEF History!NumbersAssumption, History!Init, LogInv

LEMMA LogNext ==
  ASSUME History!NumbersAssumption, LogInv, [History!Next]_History!vars
  PROVE  LogInv'
<1> DEFINE Messages == [type : History!Spoken \cup {"agent_delta"}, turn : Turns, length : Lengths \cup {1}]
<1>1. ASSUME NEW type \in History!Spoken \cup {"agent_delta"}, NEW t \in Turns,
             NEW length \in Lengths \cup {1}, History!Add(type, t, length)
      PROVE  log' \in Seq(Messages) /\ Len(log') <= MaxLog
  <2>1. [type |-> type, turn |-> t, length |-> length] \in Messages
    OBVIOUS
  <2> HIDE DEF Messages
  <2>2. log \in Seq(Messages)
    BY DEF LogInv, Messages
  <2>3. log' \in Seq(Messages) /\ Len(log') = Len(log) + 1 /\ Len(log) \in Nat
    BY <1>1, <2>1, <2>2 DEF History!Add
  <2>4. QED BY <1>1, <2>3 DEF History!Add, History!NumbersAssumption
<1>2. ASSUME NEW t \in Turns, NEW length \in Lengths, History!Begin(t, length)
      PROVE  LogInv'
  <2>1. "user_message" \in History!Spoken \cup {"agent_delta"} /\ length \in Lengths \cup {1}
    BY DEF History!Spoken
  <2>2. log' \in Seq(Messages) /\ Len(log') <= MaxLog
    BY <1>1, <1>2, <2>1 DEF History!Begin
  <2>3. begun' \subseteq Turns
    BY <1>2 DEF History!Begin, LogInv
  <2>4. QED BY <2>2, <2>3 DEF LogInv, History!Spoken
<1>3. ASSUME NEW t \in Turns, NEW type \in History!Spoken \cup {"agent_delta"},
             NEW length \in Lengths \cup {1}, History!Speak(t, type, length)
      PROVE  LogInv'
  <2>1. log' \in Seq(Messages) /\ Len(log') <= MaxLog
    BY <1>1, <1>3 DEF History!Speak
  <2>2. begun' \subseteq Turns
    BY <1>3 DEF History!Speak, LogInv
  <2>3. QED BY <2>1, <2>2 DEF LogInv, History!Spoken
<1>4. CASE UNCHANGED History!vars
  BY <1>4 DEF LogInv, History!vars, History!Spoken
<1>5. \A length \in Lengths : length \in Lengths \cup {1}
  OBVIOUS
<1>6. "agent_message" \in History!Spoken \cup {"agent_delta"} /\ 1 \in Lengths \cup {1}
  BY DEF History!Spoken
<1>7. QED BY <1>2, <1>3, <1>4, <1>5, <1>6 DEF History!Next

LEMMA LogHas ==
  ASSUME History!NumbersAssumption, LogInv
  PROVE  /\ Len(log) \in Nat /\ DOMAIN log = 1 .. Len(log)
         /\ \A i \in 1 .. Len(log) : log[i].length \in Nat
<1>1. /\ Len(log) \in Nat /\ DOMAIN log = 1 .. Len(log)
      /\ \A i \in 1 .. Len(log) :
           log[i] \in [type : History!Spoken \cup {"agent_delta"}, turn : Turns, length : Lengths \cup {1}]
  BY Elements DEF LogInv
<1>2. Lengths \cup {1} \subseteq Nat
  BY DEF History!NumbersAssumption
<1>3. QED BY <1>1, <1>2

\* Nothing of the turn itself or after it counts as before it.
LEMMA BeforeIsBefore ==
  ASSUME History!NumbersAssumption, LogInv, NEW t,
         NEW b \in History!Before(t), NEW i \in DOMAIN log,
         log[i].turn = t, log[i].type = "user_message"
  PROVE  b < i
<1> DEFINE own == {k \in DOMAIN log : log[k].turn = t /\ log[k].type = "user_message"}
<1>1. own \in SUBSET Nat /\ own # {} /\ i \in own
  BY LogHas
<1> HIDE DEF own
<1>2. History!Min(own) \in Nat /\ History!Min(own) <= i /\ i \in Nat
  BY <1>1, LeastNumber
<1>3. b \in DOMAIN log /\ b < History!Min(own)
  BY <1>1 DEF History!Before, own
<1>4. b \in Nat
  BY <1>3, LogHas
<1>5. QED BY <1>2, <1>3, <1>4

LEMMA NewestAre ==
  ASSUME History!NumbersAssumption, LogInv, NEW t
  PROVE  /\ History!Before(t) \subseteq 1 .. Len(log)
         /\ History!Newest(t) \subseteq History!Before(t)
         /\ \A i \in History!Newest(t), j \in History!Before(t) : j > i => j \in History!Newest(t)
         /\ Cardinality(History!Before(t)) <= Window => History!Newest(t) = History!Before(t)
<1> DEFINE B == History!Before(t)
           From(i) == {j \in B : j >= i}
<1>1. Len(log) \in Nat /\ B \subseteq 1 .. Len(log)
  BY LogHas DEF History!Before
<1>2. \A i \in B : i \in Nat
  BY <1>1
<1> HIDE DEF B
<1>3. IsFiniteSet(1 .. Len(log))
  BY <1>1, FS_Interval
<1>4. IsFiniteSet(B) /\ Cardinality(B) \in Nat
  BY <1>1, <1>3, FS_Subset, FS_CardinalityType
<1>5. \A i \in B : i \in History!Newest(t) <=> Cardinality(From(i)) <= Window
  BY DEF History!Newest, History!Cardinality, Cardinality, B
<1>6. \A i \in B : IsFiniteSet(From(i)) /\ Cardinality(From(i)) \in Nat
  BY <1>4, FS_Subset, FS_CardinalityType
<1>7. Window \in Nat
  BY DEF History!NumbersAssumption
<1>8. History!Newest(t) \subseteq B
  BY DEF History!Newest, B
<1>9. ASSUME NEW i \in History!Newest(t), NEW j \in B, j > i
      PROVE  j \in History!Newest(t)
  <2>1. i \in B /\ i \in Nat /\ j \in Nat
    BY <1>2, <1>8
  <2>2. From(j) \subseteq From(i)
    <3> SUFFICES ASSUME NEW k \in B, k >= j
                 PROVE  k >= i
      OBVIOUS
    <3>1. k \in Nat
      BY <1>2
    <3>2. QED BY <1>9, <2>1, <3>1
  <2> HIDE DEF From
  <2>3. Cardinality(From(j)) <= Cardinality(From(i))
    BY <1>6, <2>1, <2>2, FS_Subset
  <2>4. Cardinality(From(i)) <= Window
    BY <1>5, <2>1
  <2>5. QED BY <1>5, <1>6, <1>7, <2>1, <2>3, <2>4
<1>10. ASSUME Cardinality(B) <= Window
       PROVE  B \subseteq History!Newest(t)
  <2> SUFFICES ASSUME NEW i \in B
               PROVE  i \in History!Newest(t)
    OBVIOUS
  <2>1. From(i) \subseteq B
    OBVIOUS
  <2> HIDE DEF From
  <2>2. Cardinality(From(i)) <= Cardinality(B)
    BY <1>4, <2>1, FS_Subset
  <2>3. QED BY <1>4, <1>5, <1>6, <1>7, <1>10, <2>2
<1>11. QED BY <1>1, <1>8, <1>9, <1>10 DEF B
-----------------------------------------------------------------------------
(* The history: what the loop has selected when it was past the place i.   *)

Round(t, i, selected) ==
  /\ selected \in Seq([id : History!Newest(t), length : 1 .. MaxText])
  /\ \A k \in 1 .. Len(selected) : selected[k].id >= i
  /\ \A k, l \in 1 .. Len(selected) : k < l => selected[l].id < selected[k].id
  /\ Len(selected) <= MaxMessages /\ History!Total(selected) <= MaxTotal
  \* Only its last message is cut, when there is no room left.
  /\ \A k \in 1 .. Len(selected) :
       \/ selected[k].length = History!Least(log[selected[k].id].length, MaxText)
       \/ k = Len(selected) /\ History!Total(selected) = MaxTotal
  \* What it left out is older than all it has, of which there is enough.
  /\ \A j \in History!Newest(t) : j >= i /\ log[j].length > 0 =>
       \/ \E k \in 1 .. Len(selected) : selected[k].id = j
       \/ History!Full(selected) /\ \A k \in 1 .. Len(selected) : j < selected[k].id

LEMMA RoundHasItems ==
  ASSUME History!NumbersAssumption, LogInv, NEW t, NEW i, NEW selected, Round(t, i, selected)
  PROVE  /\ selected \in Items /\ Len(selected) \in Nat
         /\ \A k \in 1 .. Len(selected) :
              /\ selected[k].id \in History!Newest(t) /\ selected[k].length \in 1 .. MaxText
              /\ selected[k].id \in Nat
<1>1. MaxText \in Nat /\ History!Newest(t) \subseteq Nat /\ 1 .. MaxText \subseteq Nat
  BY NewestAre DEF History!NumbersAssumption
<1>2. selected \in Seq([id : History!Newest(t), length : 1 .. MaxText])
  BY DEF Round
<1>3. /\ Len(selected) \in Nat
      /\ \A k \in 1 .. Len(selected) : selected[k] \in [id : History!Newest(t), length : 1 .. MaxText]
  BY <1>2, Elements
<1>4. \A k \in 1 .. Len(selected) : selected[k] \in [id : Nat, length : Nat]
  BY <1>1, <1>3
<1>5. selected \in Items
  <2> DEFINE S == [id : History!Newest(t), length : 1 .. MaxText]
             T == [id : Nat, length : Nat]
  <2>1. selected \in Seq(S) /\ \A k \in 1 .. Len(selected) : selected[k] \in T
    BY <1>2, <1>4
  <2> HIDE DEF S, T
  <2>2. selected \in Seq(T)
    BY <2>1, Retyped
  <2>3. QED BY <2>2 DEF Items, T
<1>6. QED BY <1>1, <1>3, <1>5

LEMMA RoundTakes ==
  ASSUME History!NumbersAssumption, LogInv, NEW t, NEW i \in 1 .. Len(log), NEW selected,
         Round(t, i + 1, selected), i \in History!Newest(t),
         ~ History!Full(selected), log[i].length # 0
  PROVE  Round(t, i, History!Take(selected, i))
<1> DEFINE cut == History!Least(History!Least(log[i].length, MaxText), MaxTotal - History!Total(selected))
           item == [id |-> i, length |-> cut]
           more == Append(selected, item)
           last == Len(selected) + 1
<1>1. History!Take(selected, i) = more
  BY DEF History!Take
<1>2. /\ selected \in Items /\ Len(selected) \in Nat
      /\ \A k \in 1 .. Len(selected) :
           /\ selected[k].id \in History!Newest(t) /\ selected[k].length \in 1 .. MaxText
           /\ selected[k].id \in Nat
  BY RoundHasItems
<1>3. /\ MaxText \in Nat /\ MaxText # 0 /\ MaxTotal \in Nat /\ MaxMessages \in Nat
      /\ i \in Nat /\ log[i].length \in Nat
  BY LogHas DEF History!NumbersAssumption
<1>4. History!Total(selected) \in Nat
  BY <1>2, TotalIsNat
<1>5. Len(selected) < MaxMessages /\ History!Total(selected) < MaxTotal
  BY <1>2, <1>3, <1>4 DEF History!Full
<1>6. /\ cut \in 1 .. MaxText /\ cut <= MaxTotal - History!Total(selected)
      /\ \/ cut = History!Least(log[i].length, MaxText)
         \/ cut = MaxTotal - History!Total(selected)
  BY <1>3, <1>4, <1>5 DEF History!Least
<1> HIDE DEF cut
<1>7. item \in [id : History!Newest(t), length : 1 .. MaxText] /\ item \in [id : Nat, length : Nat]
  BY <1>3, <1>6
<1>8. item.id = i /\ item.length = cut
  OBVIOUS
<1> HIDE DEF item
<1>9. /\ more \in Seq([id : History!Newest(t), length : 1 .. MaxText])
      /\ Len(more) = last /\ more[last] = item
      /\ \A k \in 1 .. Len(selected) : more[k] = selected[k]
  BY <1>2, <1>7 DEF Round
<1>10. History!Total(more) = History!Total(selected) + cut
  BY <1>2, <1>7, <1>8, TotalOfMore
<1> HIDE DEF more
<1>11. \A k \in 1 .. last : k \in 1 .. Len(selected) \/ k = last
  BY <1>2
<1>12. \A k \in 1 .. Len(selected) : selected[k].id >= i + 1 /\ selected[k].id > i
  BY <1>2, <1>3 DEF Round
<1>13. \A k \in 1 .. last : more[k].id >= i
  <2>1. more[last].id >= i
    BY <1>3, <1>8, <1>9
  <2>2. \A k \in 1 .. Len(selected) : more[k].id >= i
    <3> SUFFICES ASSUME NEW k \in 1 .. Len(selected)
                 PROVE  more[k].id >= i
      OBVIOUS
    <3>1. more[k] = selected[k] /\ selected[k].id > i
      BY <1>9, <1>12
    <3>2. selected[k].id \in Nat
      BY <1>2
    <3>3. QED BY <1>3, <3>1, <3>2
  <2>3. QED BY <1>11, <2>1, <2>2
<1>14. \A k, l \in 1 .. last : k < l => more[l].id < more[k].id
  <2> SUFFICES ASSUME NEW k \in 1 .. last, NEW l \in 1 .. last, k < l
               PROVE  more[l].id < more[k].id
    OBVIOUS
  <2>1. k \in 1 .. Len(selected)
    BY <1>2
  <2>2. CASE l = last
    BY <1>8, <1>9, <1>12, <2>1, <2>2
  <2>3. CASE l \in 1 .. Len(selected)
    BY <1>9, <2>1, <2>3 DEF Round
  <2>4. QED BY <1>11, <2>2, <2>3
<1>15. last <= MaxMessages /\ History!Total(more) <= MaxTotal
  BY <1>2, <1>3, <1>4, <1>5, <1>6, <1>10
<1>16. \A k \in 1 .. last :
         \/ more[k].length = History!Least(log[more[k].id].length, MaxText)
         \/ k = last /\ History!Total(more) = MaxTotal
  <2> SUFFICES ASSUME NEW k \in 1 .. last
               PROVE  \/ more[k].length = History!Least(log[more[k].id].length, MaxText)
                      \/ k = last /\ History!Total(more) = MaxTotal
    OBVIOUS
  <2>1. CASE k = last
    <3>1. cut = MaxTotal - History!Total(selected) => History!Total(more) = MaxTotal
      BY <1>3, <1>4, <1>10
    <3>2. QED BY <1>6, <1>8, <1>9, <2>1, <3>1
  <2>2. CASE k \in 1 .. Len(selected)
    <3>1. History!Total(selected) # MaxTotal
      BY <1>3, <1>4, <1>5
    <3>2. QED BY <1>9, <2>2, <3>1 DEF Round
  <2>3. QED BY <1>11, <2>1, <2>2
<1>17. \A j \in History!Newest(t) : j >= i /\ log[j].length > 0 => \E k \in 1 .. last : more[k].id = j
  <2> SUFFICES ASSUME NEW j \in History!Newest(t), j >= i, log[j].length > 0
               PROVE  \E k \in 1 .. last : more[k].id = j
    OBVIOUS
  <2>1. CASE j = i
    <3>1. last \in 1 .. last
      BY <1>2
    <3>2. QED BY <1>8, <1>9, <2>1, <3>1
  <2>2. CASE j # i
    <3>1. j \in Nat /\ j >= i + 1
      BY <1>3, <2>2, NewestAre
    <3>2. \E k \in 1 .. Len(selected) : selected[k].id = j
      BY <3>1 DEF Round
    <3>3. \A k \in 1 .. Len(selected) : k \in 1 .. last
      BY <1>2
    <3>4. QED BY <1>9, <3>2, <3>3
  <2>3. QED BY <2>1, <2>2
<1>18. Round(t, i, more)
  BY <1>9, <1>13, <1>14, <1>15, <1>16, <1>17 DEF Round
<1>19. QED BY <1>1, <1>18

LEMMA RoundPasses ==
  ASSUME History!NumbersAssumption, LogInv, NEW t, NEW i \in 1 .. Len(log), NEW selected,
         Round(t, i + 1, selected),
         i \in History!Newest(t) => History!Full(selected) \/ log[i].length = 0
  PROVE  Round(t, i, selected)
<1>1. /\ Len(selected) \in Nat /\ i \in Nat
      /\ \A k \in 1 .. Len(selected) : selected[k].id \in Nat
  BY RoundHasItems, LogHas
<1>2. \A k \in 1 .. Len(selected) : selected[k].id >= i /\ i < selected[k].id
  <2>1. \A k \in 1 .. Len(selected) : selected[k].id >= i + 1
    BY DEF Round
  <2>2. QED BY <1>1, <2>1
<1>3. ASSUME NEW j \in History!Newest(t), j >= i, log[j].length > 0
      PROVE  \/ \E k \in 1 .. Len(selected) : selected[k].id = j
             \/ History!Full(selected) /\ \A k \in 1 .. Len(selected) : j < selected[k].id
  <2>1. CASE j = i
    <3>1. log[i].length # 0
      BY <1>3, <2>1, LogHas
    <3>2. QED BY <1>2, <2>1, <3>1
  <2>2. CASE j # i
    <3>1. j \in Nat /\ j >= i + 1
      BY <1>1, <1>3, <2>2, NewestAre
    <3>2. QED BY <1>3, <3>1 DEF Round
  <2>3. QED BY <2>1, <2>2
<1>4. QED BY <1>2, <1>3 DEF Round

LEMMA RoundsExist ==
  ASSUME History!NumbersAssumption, LogInv, NEW t
  PROVE  /\ History!Selected(t)[0] = <<>>
         /\ \A n \in 1 .. Len(log) :
              History!Selected(t)[n] =
                IF Len(log) + 1 - n \in History!Newest(t)
                  THEN History!Take(History!Selected(t)[n - 1], Len(log) + 1 - n)
                  ELSE History!Selected(t)[n - 1]
<1> DEFINE Loop(n, f) ==
             f = [k \in 0 .. n |->
                    IF k = 0 THEN <<>>
                    ELSE LET i == Len(log) + 1 - k
                         IN  IF i \in History!Newest(t) THEN History!Take(f[k - 1], i) ELSE f[k - 1]]
           I == {n \in Nat : \E f : Loop(n, f)}
<1>1. 0 \in I
  <2>1. Loop(0, [k \in 0 .. 0 |-> <<>>])
    OBVIOUS
  <2>2. QED BY <2>1
<1>2. ASSUME NEW n \in I
      PROVE  n + 1 \in I
  <2>1. PICK f : Loop(n, f)
    OBVIOUS
  <2> DEFINE i == Len(log) + 1 - (n + 1)
             next == IF i \in History!Newest(t) THEN History!Take(f[n], i) ELSE f[n]
             g == [k \in 0 .. n + 1 |-> IF k = n + 1 THEN next ELSE f[k]]
  <2>2. \A k \in 0 .. n : f[k] =
           IF k = 0 THEN <<>>
           ELSE IF Len(log) + 1 - k \in History!Newest(t)
                  THEN History!Take(f[k - 1], Len(log) + 1 - k) ELSE f[k - 1]
    BY <2>1
  <2>3. \A k \in 0 .. n + 1 : g[k] =
           IF k = 0 THEN <<>>
           ELSE IF Len(log) + 1 - k \in History!Newest(t)
                  THEN History!Take(g[k - 1], Len(log) + 1 - k) ELSE g[k - 1]
    BY <2>2
  <2>4. g = [k \in 0 .. n + 1 |-> g[k]]
    OBVIOUS
  <2> HIDE DEF g
  <2>5. Loop(n + 1, g)
    BY <2>3, <2>4
  <2>6. \E h : Loop(n + 1, h)
    BY <2>5
  <2>7. QED BY <2>6
<1>3. I = Nat
  BY <1>1, <1>2, NaturalsFrom
<1>4. Len(log) \in Nat
  BY LogHas
<1>5. \E f : Loop(Len(log), f)
  BY <1>3, <1>4
<1>6. Loop(Len(log), History!Selected(t))
  BY <1>5 DEF History!Selected
<1>7. QED BY <1>4, <1>6

LEMMA Rounds ==
  ASSUME History!NumbersAssumption, LogInv, NEW t
  PROVE  Round(t, 1, History!Selected(t)[Len(log)])
<1> DEFINE I == {n \in Nat : n <= Len(log) => Round(t, Len(log) + 1 - n, History!Selected(t)[n])}
<1>1. Len(log) \in Nat
  BY LogHas
<1>2. 0 \in I
  <2>1. Round(t, Len(log) + 1, <<>>)
    <3>1. /\ History!Total(<<>>) = 0 /\ 0 <= MaxMessages /\ 0 <= MaxTotal
          /\ \A j \in History!Newest(t) : j \in Nat /\ ~ (j >= Len(log) + 1)
      BY <1>1, TotalOfNone, NewestAre DEF History!NumbersAssumption
    <3>2. QED BY <3>1 DEF Round
  <2>2. QED BY <1>1, <2>1, RoundsExist
<1>3. ASSUME NEW n \in I
      PROVE  n + 1 \in I
  <2>1. SUFFICES ASSUME n + 1 <= Len(log)
                 PROVE  Round(t, Len(log) + 1 - (n + 1), History!Selected(t)[n + 1])
    OBVIOUS
  <2> DEFINE i == Len(log) + 1 - (n + 1)
             before == History!Selected(t)[n]
  <2>2. /\ i \in 1 .. Len(log) /\ i + 1 = Len(log) + 1 - n
        /\ n + 1 \in 1 .. Len(log) /\ (n + 1) - 1 = n /\ n <= Len(log)
    BY <1>1, <2>1
  <2>3. History!Selected(t)[n + 1] = IF i \in History!Newest(t) THEN History!Take(before, i) ELSE before
    BY <2>2, RoundsExist
  <2>4. Round(t, i + 1, before)
    BY <2>2
  <2> HIDE DEF i, before
  <2>5. ASSUME i \in History!Newest(t), ~ History!Full(before), log[i].length # 0
        PROVE  Round(t, i, History!Selected(t)[n + 1])
    BY <2>2, <2>3, <2>4, <2>5, RoundTakes
  <2>6. ASSUME ~ (i \in History!Newest(t) /\ ~ History!Full(before) /\ log[i].length # 0)
        PROVE  Round(t, i, History!Selected(t)[n + 1])
    <3>1. History!Selected(t)[n + 1] = before
      BY <2>3, <2>6 DEF History!Take
    <3>2. i \in History!Newest(t) => History!Full(before) \/ log[i].length = 0
      BY <2>6
    <3>3. QED BY <2>2, <2>4, <3>1, <3>2, RoundPasses
  <2>7. Round(t, i, History!Selected(t)[n + 1])
    BY <2>5, <2>6
  <2>8. QED BY <2>7 DEF i
<1>4. I = Nat
  BY <1>2, <1>3, NaturalsFrom
<1>5. Round(t, Len(log) + 1 - Len(log), History!Selected(t)[Len(log)])
  BY <1>1, <1>4
<1>6. Len(log) + 1 - Len(log) = 1
  BY <1>1
<1>7. QED BY <1>5, <1>6

-----------------------------------------------------------------------------
(* The history: what the loop has selected, in the order of the            *)
(* conversation, is what an agent is given.                                *)

LEMMA HistoryGives ==
  ASSUME History!NumbersAssumption, LogInv, NEW t
  PROVE  \E selected :
           /\ Round(t, 1, selected)
           /\ History!History(t) \in Seq([id : History!Newest(t), length : 1 .. MaxText])
           /\ History!Total(History!History(t)) = History!Total(selected)
           /\ Len(History!History(t)) = Len(selected)
           /\ \A k \in 1 .. Len(selected) :
                /\ History!History(t)[k] = selected[Len(selected) + 1 - k]
                /\ Len(selected) + 1 - k \in 1 .. Len(selected)
<1> DEFINE selected == History!Selected(t)[Len(log)]
           S == [id : History!Newest(t), length : 1 .. MaxText]
<1>1. Round(t, 1, selected)
  BY Rounds
<1>2. History!History(t) = History!Reverse(selected)
  BY DEF History!History
<1> HIDE DEF selected
<1>3. selected \in Items /\ selected \in Seq(S)
  BY <1>1, RoundHasItems DEF Round
<1>4. History!Total(History!Reverse(selected)) = History!Total(selected)
  BY <1>3, TotalOfReverse
<1> HIDE DEF S
<1>5. /\ History!Reverse(selected) \in Seq(S) /\ Len(History!Reverse(selected)) = Len(selected)
      /\ \A k \in 1 .. Len(selected) :
           /\ History!Reverse(selected)[k] = selected[Len(selected) + 1 - k]
           /\ Len(selected) + 1 - k \in 1 .. Len(selected)
  BY <1>3, ReverseIs
<1>6. QED BY <1>1, <1>2, <1>4, <1>5 DEF S

LEMMA HistoryIsTyped ==
  ASSUME History!NumbersAssumption, LogInv
  PROVE  History!TypeOK
<1>1. ASSUME NEW t \in Turns
      PROVE  History!History(t) \in Seq([id : 1 .. MaxLog, length : 1 .. MaxText])
  <2> DEFINE S == [id : History!Newest(t), length : 1 .. MaxText]
             T == [id : 1 .. MaxLog, length : 1 .. MaxText]
  <2>1. Len(log) \in Nat /\ MaxLog \in Nat /\ Len(log) <= MaxLog
    BY LogHas DEF LogInv, History!NumbersAssumption
  <2>2. History!Newest(t) \subseteq 1 .. MaxLog
    BY <2>1, NewestAre
  <2>3. S \subseteq T
    BY <2>2
  <2>4. History!History(t) \in Seq(S)
    BY HistoryGives
  <2> HIDE DEF S, T
  <2>5. \A k \in 1 .. Len(History!History(t)) : History!History(t)[k] \in T
    BY <2>3, <2>4, Elements
  <2>6. History!History(t) \in Seq(T)
    BY <2>4, <2>5, Retyped
  <2>7. QED BY <2>6 DEF T
<1>2. QED BY <1>1 DEF LogInv, History!TypeOK

LEMMA HistoryIsFit ==
  ASSUME History!NumbersAssumption, LogInv
  PROVE  History!HistoryFits
<1> SUFFICES ASSUME NEW t \in begun
             PROVE  /\ Len(History!History(t)) <= MaxMessages
                    /\ History!Total(History!History(t)) <= MaxTotal
                    /\ \A k \in DOMAIN History!History(t) :
                         \A i \in DOMAIN log :
                           log[i].turn = t /\ log[i].type = "user_message" => History!History(t)[k].id < i
  BY DEF History!HistoryFits
<1> DEFINE S == [id : History!Newest(t), length : 1 .. MaxText]
<1>1. /\ Len(History!History(t)) <= MaxMessages
      /\ History!Total(History!History(t)) <= MaxTotal
  BY HistoryGives DEF Round
<1>2. History!History(t) \in Seq(S)
  BY HistoryGives
<1>3. \A k \in DOMAIN History!History(t) : History!History(t)[k] \in S
  <2> HIDE DEF S
  <2>1. QED BY <1>2, Elements
<1>4. \A k \in DOMAIN History!History(t) : History!History(t)[k].id \in History!Before(t)
  BY <1>3, NewestAre
<1>5. QED BY <1>1, <1>4, BeforeIsBefore

LEMMA HistoryIsUnbroken ==
  ASSUME History!NumbersAssumption, LogInv
  PROVE  History!HistoryHasNoHoles
<1> SUFFICES ASSUME NEW t \in begun
             PROVE  LET given == History!History(t)
                        ids == {given[k].id : k \in DOMAIN given}
                    IN  /\ \A k \in 2 .. Len(given) :
                             /\ given[k - 1].id < given[k].id
                             /\ given[k].length = History!Least(log[given[k].id].length, MaxText)
                        /\ ids # {} => \A i \in History!Before(t) :
                                         i > History!Min(ids) /\ log[i].length > 0 => i \in ids
  BY DEF History!HistoryHasNoHoles
<1> DEFINE given == History!History(t)
           ids == {given[k].id : k \in DOMAIN given}
           S == [id : History!Newest(t), length : 1 .. MaxText]
<1>1. PICK selected :
        /\ Round(t, 1, selected)
        /\ given \in Seq(S)
        /\ Len(given) = Len(selected)
        /\ \A k \in 1 .. Len(selected) :
             /\ given[k] = selected[Len(selected) + 1 - k]
             /\ Len(selected) + 1 - k \in 1 .. Len(selected)
  BY HistoryGives
<1>2. /\ Len(selected) \in Nat
      /\ \A k \in 1 .. Len(selected) : selected[k].id \in History!Newest(t) /\ selected[k].id \in Nat
  BY <1>1, RoundHasItems
<1> HIDE DEF given
<1>3. DOMAIN given = 1 .. Len(selected)
  <2> HIDE DEF S
  <2>1. QED BY <1>1, Elements
<1>4. ASSUME NEW k \in 2 .. Len(given)
      PROVE  /\ given[k - 1].id < given[k].id
             /\ given[k].length = History!Least(log[given[k].id].length, MaxText)
  <2> DEFINE at == Len(selected) + 1 - k
  <2>1. /\ at \in 1 .. Len(selected) /\ at + 1 \in 1 .. Len(selected) /\ at # Len(selected)
        /\ k \in 1 .. Len(selected) /\ k - 1 \in 1 .. Len(selected)
        /\ Len(selected) + 1 - (k - 1) = at + 1 /\ at < at + 1
    BY <1>1, <1>2
  <2>2. given[k] = selected[at] /\ given[k - 1] = selected[at + 1]
    BY <1>1, <2>1
  <2> HIDE DEF at
  <2>3. QED BY <1>1, <2>1, <2>2 DEF Round
<1>5. \A k \in 1 .. Len(selected) : selected[k].id \in ids
  <2> SUFFICES ASSUME NEW k \in 1 .. Len(selected)
               PROVE  selected[k].id \in ids
    OBVIOUS
  <2>1. Len(selected) + 1 - k \in 1 .. Len(selected) /\ Len(selected) + 1 - (Len(selected) + 1 - k) = k
    BY <1>2
  <2>2. given[Len(selected) + 1 - k] = selected[k]
    BY <1>1, <2>1
  <2>3. QED BY <1>3, <2>1, <2>2
<1>6. \A id \in ids : \E k \in 1 .. Len(selected) : selected[k].id = id
  <2> SUFFICES ASSUME NEW k \in 1 .. Len(selected)
               PROVE  \E l \in 1 .. Len(selected) : selected[l].id = given[k].id
    BY <1>3
  <2>1. /\ Len(selected) + 1 - k \in 1 .. Len(selected)
        /\ given[k] = selected[Len(selected) + 1 - k]
    BY <1>1
  <2>2. QED BY <2>1
<1>7. ids \in SUBSET Nat /\ ids \subseteq History!Newest(t)
  BY <1>2, <1>6
<1> HIDE DEF ids
<1>8. ASSUME ids # {}, NEW i \in History!Before(t), i > History!Min(ids), log[i].length > 0
      PROVE  i \in ids
  <2>1. History!Min(ids) \in ids
    BY <1>7, <1>8, LeastNumber
  <2>2. i \in History!Newest(t)
    BY <1>7, <1>8, <2>1, NewestAre
  <2>3. i \in Nat /\ i >= 1
    BY NewestAre, LogHas
  <2>4. CASE \E k \in 1 .. Len(selected) : selected[k].id = i
    BY <1>5, <2>4
  <2>5. CASE \A k \in 1 .. Len(selected) : i < selected[k].id
    <3>1. PICK k \in 1 .. Len(selected) : selected[k].id = History!Min(ids)
      BY <1>6, <2>1
    <3>2. i < History!Min(ids)
      BY <2>5, <3>1
    <3>3. History!Min(ids) \in Nat
      BY <1>7, <2>1
    <3>4. i > History!Min(ids)
      BY <1>8
    <3>5. QED BY <2>3, <3>2, <3>3, <3>4
  <2>6. QED BY <1>1, <1>8, <2>2, <2>3, <2>4, <2>5 DEF Round
<1>9. QED BY <1>4, <1>8 DEF given, ids

LEMMA HistoryIsEnough ==
  ASSUME History!NumbersAssumption, LogInv
  PROVE  History!HistoryIsFull
<1> SUFFICES ASSUME NEW t \in begun,
                    NEW lost \in History!Before(t), log[lost].length > 0,
                    \A k \in DOMAIN History!History(t) : History!History(t)[k].id # lost
             PROVE  \/ Len(History!History(t)) = MaxMessages
                    \/ History!Total(History!History(t)) = MaxTotal
                    \/ Cardinality(History!Before(t)) > Window
  BY DEF History!HistoryIsFull, History!Cardinality, Cardinality
<1> DEFINE given == History!History(t)
           S == [id : History!Newest(t), length : 1 .. MaxText]
<1>1. PICK selected :
        /\ Round(t, 1, selected)
        /\ given \in Seq(S)
        /\ History!Total(given) = History!Total(selected)
        /\ Len(given) = Len(selected)
        /\ \A k \in 1 .. Len(selected) :
             /\ given[k] = selected[Len(selected) + 1 - k]
             /\ Len(selected) + 1 - k \in 1 .. Len(selected)
  BY HistoryGives
<1>2. Len(selected) \in Nat /\ selected \in Items
  BY <1>1, RoundHasItems
<1>3. History!Total(selected) \in Nat
  BY <1>2, TotalIsNat
<1>4. \A k \in DOMAIN given : given[k].id # lost
  OBVIOUS
<1> HIDE DEF given
<1>5. DOMAIN given = 1 .. Len(selected)
  <2> HIDE DEF S
  <2>1. QED BY <1>1, Elements
<1>6. \A k \in 1 .. Len(selected) : selected[k].id # lost
  <2> SUFFICES ASSUME NEW k \in 1 .. Len(selected)
               PROVE  selected[k].id # lost
    OBVIOUS
  <2>1. Len(selected) + 1 - k \in 1 .. Len(selected) /\ Len(selected) + 1 - (Len(selected) + 1 - k) = k
    BY <1>2
  <2>2. given[Len(selected) + 1 - k] = selected[k]
    BY <1>1, <2>1
  <2>3. QED BY <1>4, <1>5, <2>1, <2>2
<1>7. CASE lost \in History!Newest(t)
  <2>1. lost >= 1
    BY NewestAre, LogHas
  <2>2. History!Full(selected)
    BY <1>1, <1>6, <1>7, <2>1 DEF Round
  <2>3. {MaxMessages, MaxTotal} \subseteq Nat
    BY DEF History!NumbersAssumption
  <2>4. Len(selected) <= MaxMessages /\ History!Total(selected) <= MaxTotal
    BY <1>1 DEF Round
  <2>5. Len(selected) = MaxMessages \/ History!Total(selected) = MaxTotal
    BY <1>2, <1>3, <2>2, <2>3, <2>4 DEF History!Full
  <2>6. QED BY <1>1, <2>5 DEF given
<1>8. CASE lost \notin History!Newest(t)
  <2>1. ~ (Cardinality(History!Before(t)) <= Window)
    BY <1>8, NewestAre
  <2>2. IsFiniteSet(1 .. Len(log))
    <3>1. Len(log) \in Nat
      BY LogHas
    <3>2. 1 \in Int /\ Len(log) \in Int
      BY <3>1
    <3> HIDE DEF S
    <3>3. QED BY <3>2, FS_Interval
  <2>3. Cardinality(History!Before(t)) \in Nat
    BY <2>2, NewestAre, FS_Subset, FS_CardinalityType
  <2>4. Window \in Nat
    BY DEF History!NumbersAssumption
  <2>5. Cardinality(History!Before(t)) > Window
    BY <2>1, <2>3, <2>4
  <2>6. QED BY <2>5
<1>9. QED BY <1>7, <1>8

\* The history an agent is given is an unbroken end of what was said before its
\* turn, cut only where a limit is reached: however long the conversation is and
\* whatever the limits are (HistoryIsWhole of the run chats, over
\* build_relevant_history of services/conversation.py).
THEOREM HistoryWhole ==
  ASSUME History!NumbersAssumption
  PROVE  History!Spec => []HistoryIsWhole
<1>1. History!Init => LogInv
  BY LogInit
<1>2. LogInv /\ [History!Next]_History!vars => LogInv'
  BY LogNext
<1>3. LogInv => HistoryIsWhole
  BY HistoryIsTyped, HistoryIsFit, HistoryIsUnbroken, HistoryIsEnough DEF HistoryIsWhole
<1>4. QED BY <1>1, <1>2, <1>3, PTL DEF History!Spec

-----------------------------------------------------------------------------
(* The drafts: what is read of a text that is still being written.         *)

\* What is streamed: a literal is a STRING, which the provers do not know.
Signs == STRING \cup {"open", "key", "colon", "quote", "brace"}

Texts == Seq(Signs)

LEMMA ShortTexts ==
  ASSUME NEW S, NEW a \in S, NEW b \in S, NEW c \in S, NEW d \in S
  PROVE  /\ <<a>> \in Seq(S) /\ <<a, b>> \in Seq(S) /\ <<a, b, c, d>> \in Seq(S)
         /\ Len(<<a, b, c, d>>) = 4
<1>1. /\ <<a, b>> = Append(Append(<<>>, a), b)
      /\ <<a, b, c, d>> = Append(Append(Append(Append(<<>>, a), b), c), d)
  OBVIOUS
<1>2. QED BY <1>1

LEMMA TokensAreTexts ==
  ASSUME Drafts!EncodingAssumption, NEW token \in Tokens
  PROVE  token.symbols \in Texts /\ token.chars \in Texts
<1>1. token.symbols \in Seq(STRING) /\ token.chars \in Seq(STRING)
  BY DEF Drafts!EncodingAssumption
<1>2. \A s \in Seq(STRING) : s \in Seq(Signs)
  <2>1. STRING \subseteq Signs
    BY DEF Signs
  <2>2. QED BY <2>1, Elements, Retyped
<1>3. QED BY <1>1, <1>2 DEF Texts

LEMMA Joined ==
  ASSUME NEW a \in Texts, NEW b \in Texts
  PROVE  /\ a \o b \in Texts /\ Len(a) \in Nat /\ Len(b) \in Nat /\ Len(a \o b) = Len(a) + Len(b)
         /\ \A i \in 1 .. Len(a) : (a \o b)[i] = a[i]
         /\ \A i \in 1 .. Len(b) : (a \o b)[Len(a) + i] = b[i]
BY DEF Texts

LEMMA JoinedAgain ==
  ASSUME NEW a \in Texts, NEW b \in Texts, NEW c \in Texts
  PROVE  (a \o b) \o c = a \o (b \o c)
BY DEF Texts

LEMMA JoinedToNone ==
  ASSUME NEW a \in Texts
  PROVE  <<>> \o a = a /\ a \o <<>> = a /\ <<>> \in Texts
BY DEF Texts

LEMMA Begins ==
  ASSUME NEW a \in Texts, NEW b \in Texts
  PROVE  Drafts!IsPrefix(a, a \o b)
<1>1. SubSeq(a, 1, Len(a)) = a /\ SubSeq(a \o b, 1, Len(a)) = a /\ Len(a) <= Len(a \o b)
  BY DEF Texts
<1>2. QED BY <1>1 DEF Drafts!IsPrefix

LEMMA ReadIs ==
  ASSUME Drafts!EncodingAssumption, NEW text \in Texts, NEW i \in Nat
  PROVE  /\ Drafts!Read(text, i).width \in {0, 1, 2, 6}
         /\ i > Len(text) => Drafts!Read(text, i).width = 0
         /\ i >= 1 /\ Drafts!Read(text, i).width # 0 =>
              /\ i + Drafts!Read(text, i).width <= Len(text) + 1
              /\ Drafts!Read(text, i).char \in Signs
<1>1. Len(text) \in Nat /\ \A k \in 1 .. Len(text) : text[k] \in Signs
  BY DEF Texts
<1>2. Drafts!Read(text, i).width \in {0, 1, 2, 6} /\ (i > Len(text) => Drafts!Read(text, i).width = 0)
  BY DEF Drafts!Read, Drafts!Stop
<1>3. ASSUME i >= 1, Drafts!Read(text, i).width # 0
      PROVE  /\ i + Drafts!Read(text, i).width <= Len(text) + 1
             /\ Drafts!Read(text, i).char \in Signs
  <2>1. i \in 1 .. Len(text)
    BY <1>1, <1>2, <1>3
  <2>2. \A symbol \in Signs : Drafts!Unescaped(symbol) \in Signs
    BY DEF Drafts!EncodingAssumption, Drafts!Unescaped, Signs
  <2>3. CASE text[i] # "slash"
    <3>1. Drafts!Read(text, i) = [char |-> text[i], width |-> 1]
      BY <1>3, <2>1, <2>3 DEF Drafts!Read, Drafts!Stop
    <3>2. QED BY <1>1, <2>1, <3>1
  <2>4. CASE text[i] = "slash" /\ i + 1 <= Len(text) /\ text[i + 1] # "u"
    <3>1. Drafts!Read(text, i) = [char |-> Drafts!Unescaped(text[i + 1]), width |-> 2]
      BY <1>1, <1>3, <2>1, <2>4 DEF Drafts!Read, Drafts!Stop
    <3>2. i + 1 \in 1 .. Len(text) /\ i + 2 <= Len(text) + 1
      BY <1>1, <2>4
    <3>3. Drafts!Unescaped(text[i + 1]) \in Signs
      BY <1>1, <2>2, <3>2
    <3>4. /\ Drafts!Read(text, i).width = 2
          /\ Drafts!Read(text, i).char = Drafts!Unescaped(text[i + 1])
      BY <3>1
    <3>5. QED BY <3>2, <3>3, <3>4
  <2>5. CASE text[i] = "slash" /\ ~ (i + 1 <= Len(text) /\ text[i + 1] # "u")
    <3> DEFINE digits == SubSeq(text, i + 2, i + 5)
    <3>1. i + 5 <= Len(text) /\ digits \in DOMAIN HexValue /\ text[i + 1] = "u"
      BY <1>1, <1>3, <2>1, <2>5 DEF Drafts!Read, Drafts!Stop
    <3>2. Drafts!Read(text, i) = [char |-> HexValue[digits], width |-> 6]
      <4>1. /\ ~ (i > Len(text)) /\ ~ (text[i] \in {"quote", "key"}) /\ ~ (text[i] # "slash")
            /\ ~ (i + 1 > Len(text)) /\ ~ (text[i + 1] # "u")
        BY <1>1, <2>1, <2>5, <3>1
      <4>2. SubSeq(text, i + 2, i + 5) = digits
        OBVIOUS
      <4> HIDE DEF digits
      <4>3. QED BY <3>1, <4>1, <4>2 DEF Drafts!Read
    <3>3. HexValue[digits] \in Signs
      BY <3>1 DEF Drafts!EncodingAssumption, Signs
    <3>4. QED BY <1>1, <2>1, <3>1, <3>2, <3>3
  <2>6. QED BY <2>3, <2>4, <2>5
<1>4. QED BY <1>2, <1>3

\* What was read stays read when more is written.
LEMMA ReadStays ==
  ASSUME NEW text \in Texts, NEW more \in Texts, NEW i \in Nat, i >= 1,
         Drafts!Read(text, i).width # 0
  PROVE  Drafts!Read(text \o more, i) = Drafts!Read(text, i)
<1> DEFINE all == text \o more
<1>1. /\ Len(text) \in Nat /\ Len(all) \in Nat /\ Len(text) <= Len(all)
      /\ \A k \in 1 .. Len(text) : all[k] = text[k]
  BY Joined
<1>2. i \in 1 .. Len(text) /\ text[i] \notin {"quote", "key"}
  BY <1>1 DEF Drafts!Read, Drafts!Stop
<1>3. i + 5 <= Len(text) => SubSeq(all, i + 2, i + 5) = SubSeq(text, i + 2, i + 5)
  BY DEF Texts
<1> HIDE DEF all
<1>4. ~ (i > Len(all)) /\ all[i] = text[i]
  BY <1>1, <1>2
<1>5. CASE text[i] # "slash"
  <2>1. Drafts!Read(text, i) = [char |-> text[i], width |-> 1]
    BY <1>1, <1>2, <1>5 DEF Drafts!Read
  <2>2. Drafts!Read(all, i) = [char |-> text[i], width |-> 1]
    BY <1>2, <1>4, <1>5 DEF Drafts!Read
  <2>3. QED BY <2>1, <2>2 DEF all
<1>6. CASE text[i] = "slash" /\ i + 1 <= Len(text) /\ text[i + 1] # "u"
  <2>1. i + 1 <= Len(all) /\ all[i + 1] = text[i + 1]
    BY <1>1, <1>2, <1>6
  <2>2. Drafts!Read(text, i) = [char |-> Drafts!Unescaped(text[i + 1]), width |-> 2]
    BY <1>1, <1>2, <1>6 DEF Drafts!Read
  <2>3. Drafts!Read(all, i) = [char |-> Drafts!Unescaped(text[i + 1]), width |-> 2]
    BY <1>1, <1>2, <1>4, <1>6, <2>1 DEF Drafts!Read
  <2>4. QED BY <2>2, <2>3 DEF all
<1>7. CASE text[i] = "slash" /\ ~ (i + 1 <= Len(text) /\ text[i + 1] # "u")
  <2> DEFINE digits == SubSeq(text, i + 2, i + 5)
  <2>1. i + 5 <= Len(text) /\ digits \in DOMAIN HexValue /\ text[i + 1] = "u"
    BY <1>1, <1>2, <1>7 DEF Drafts!Read, Drafts!Stop
  <2>2. i + 1 <= Len(all) /\ all[i + 1] = "u" /\ i + 5 <= Len(all)
    BY <1>1, <1>2, <2>1
  <2>3. SubSeq(all, i + 2, i + 5) = digits
    BY <1>3, <2>1
  <2>4. Drafts!Read(text, i) = [char |-> HexValue[digits], width |-> 6]
    BY <1>1, <1>2, <1>7, <2>1 DEF Drafts!Read
  <2>5. Drafts!Read(all, i) = [char |-> HexValue[digits], width |-> 6]
    <3> HIDE DEF digits
    <3>1. /\ ~ (all[i] \in {"quote", "key"}) /\ ~ (all[i] # "slash")
          /\ ~ (i + 1 > Len(all)) /\ ~ (all[i + 1] # "u")
      BY <1>1, <1>2, <1>4, <1>7, <2>2
    <3>2. QED BY <1>4, <2>1, <2>2, <2>3, <3>1 DEF Drafts!Read
  <2>6. QED BY <2>4, <2>5 DEF all
<1>8. QED BY <1>5, <1>6, <1>7

LEMMA UnquotedIs ==
  ASSUME Drafts!EncodingAssumption, NEW text \in Texts, NEW i \in Nat
  PROVE  Drafts!Unquoted(text, i) =
           IF Drafts!Read(text, i).width = 0 THEN <<>>
           ELSE <<Drafts!Read(text, i).char>> \o Drafts!Unquoted(text, i + Drafts!Read(text, i).width)
<1> DEFINE Next(f, k) ==
             IF Drafts!Read(text, k).width = 0 THEN <<>>
             ELSE <<Drafts!Read(text, k).char>> \o f[k + Drafts!Read(text, k).width]
           Within(n) == {k \in Nat : k + n > Len(text)}
           Loop(n, f) == f = [k \in Within(n) |-> Next(f, k)]
           I == {n \in Nat : \E f : Loop(n, f)}
<1>1. Len(text) \in Nat
  BY DEF Texts
<1>2. \A k \in Nat : /\ Drafts!Read(text, k).width \in {0, 1, 2, 6}
                     /\ k > Len(text) => Drafts!Read(text, k).width = 0
  BY ReadIs
<1>3. 0 \in I
  <2> DEFINE f == [k \in Within(0) |-> <<>>]
  <2>1. \A k \in Within(0) : Drafts!Read(text, k).width = 0
    BY <1>1, <1>2
  <2>2. Loop(0, f)
    BY <2>1
  <2>3. \E g : Loop(0, g)
    BY <2>2
  <2>4. QED BY <2>3
<1>4. ASSUME NEW n \in I
      PROVE  n + 1 \in I
  <2>1. PICK f : Loop(n, f)
    OBVIOUS
  <2> DEFINE g == [k \in Within(n + 1) |-> Next(f, k)]
  <2>2. n \in Nat /\ Within(n) \subseteq Within(n + 1)
    BY <1>1
  <2>3. \A k \in Within(n) : g[k] = f[k]
    <3>1. \A k \in Within(n) : f[k] = Next(f, k)
      BY <2>1
    <3>2. QED BY <2>2, <3>1
  <2>4. \A k \in Within(n + 1) : Drafts!Read(text, k).width # 0 =>
          k + Drafts!Read(text, k).width \in Within(n)
    BY <1>1, <1>2, <2>2
  <2>5. \A k \in Within(n + 1) : g[k] = Next(g, k)
    <3> SUFFICES ASSUME NEW k \in Within(n + 1)
                 PROVE  g[k] = Next(g, k)
      OBVIOUS
    <3>1. g[k] = Next(f, k)
      OBVIOUS
    <3> HIDE DEF g, Within
    <3>2. Drafts!Read(text, k).width # 0 =>
            g[k + Drafts!Read(text, k).width] = f[k + Drafts!Read(text, k).width]
      BY <2>3, <2>4
    <3>3. QED BY <3>1, <3>2
  <2>6. g = [k \in Within(n + 1) |-> g[k]]
    OBVIOUS
  <2> HIDE DEF g, Within
  <2>7. Loop(n + 1, g)
    BY <2>5, <2>6
  <2> HIDE DEF Loop
  <2>8. \E h : Loop(n + 1, h)
    BY <2>7
  <2>9. QED BY <2>2, <2>8
<1>5. I = Nat
  <2> HIDE DEF Loop
  <2>1. QED BY <1>3, <1>4, NaturalsFrom
<1>6. Len(text) + 1 \in I /\ Within(Len(text) + 1) = Nat
  <2>1. \A k \in Nat : k + (Len(text) + 1) > Len(text)
    BY <1>1
  <2>2. Within(Len(text) + 1) = Nat
    BY <2>1
  <2> HIDE DEF I, Within
  <2>3. QED BY <1>1, <1>5, <2>2
<1>7. \E f : f = [k \in Nat |-> Next(f, k)]
  BY <1>6
<1> DEFINE read == CHOOSE f : f = [k \in Nat |-> Next(f, k)]
<1>8. read = [k \in Nat |-> Next(read, k)]
  BY <1>7
<1>9. \A k \in Nat : Drafts!Unquoted(text, k) = read[k]
  BY DEF Drafts!Unquoted
<1> HIDE DEF read
<1>10. \A k \in Nat : read[k] = Next(read, k)
  BY <1>8
<1>11. Drafts!Read(text, i).width \in Nat
  BY <1>2
<1>12. read[i] = Next(read, i)
  BY <1>10
<1>13. i + Drafts!Read(text, i).width \in Nat
  BY <1>11
<1>14. /\ Drafts!Unquoted(text, i) = read[i]
       /\ Drafts!Unquoted(text, i + Drafts!Read(text, i).width) = read[i + Drafts!Read(text, i).width]
  BY <1>9, <1>13
<1>15. QED BY <1>12, <1>14


LEMMA ReadGoesOn ==
  ASSUME Drafts!EncodingAssumption, NEW text \in Texts, NEW i \in Nat, i >= 1, NEW n \in Nat,
         i + (n + 1) > Len(text), Drafts!Read(text, i).width # 0
  PROVE  /\ i + Drafts!Read(text, i).width \in Nat /\ i + Drafts!Read(text, i).width >= 1
         /\ (i + Drafts!Read(text, i).width) + n > Len(text)
         /\ Drafts!Read(text, i).char \in Signs
<1> DEFINE width == Drafts!Read(text, i).width
<1>1. width \in {0, 1, 2, 6} /\ width # 0 /\ Drafts!Read(text, i).char \in Signs
  BY ReadIs
<1>2. Len(text) \in Nat
  BY DEF Texts
<1> HIDE DEF width
<1>3. width \in Nat /\ width >= 1
  BY <1>1
<1>4. i + width \in Nat /\ i + width >= 1 /\ (i + width) + n > Len(text)
  BY <1>2, <1>3
<1>5. QED BY <1>1, <1>4 DEF width

LEMMA UnquotedIsText ==
  ASSUME Drafts!EncodingAssumption, NEW text \in Texts, NEW i \in Nat, i >= 1
  PROVE  Drafts!Unquoted(text, i) \in Texts
<1> DEFINE I == {n \in Nat : \A k \in Nat : k >= 1 /\ k + n > Len(text) => Drafts!Unquoted(text, k) \in Texts}
<1>1. Len(text) \in Nat
  BY DEF Texts
<1>2. ASSUME NEW k \in Nat, Drafts!Read(text, k).width = 0
      PROVE  Drafts!Unquoted(text, k) \in Texts
  BY <1>2, UnquotedIs, JoinedToNone
<1>3. 0 \in I
  BY <1>1, <1>2, ReadIs
<1>4. ASSUME NEW n \in I
      PROVE  n + 1 \in I
  <2> SUFFICES ASSUME NEW k \in Nat, k >= 1, k + (n + 1) > Len(text), Drafts!Read(text, k).width # 0
               PROVE  Drafts!Unquoted(text, k) \in Texts
    BY <1>2
  <2> DEFINE next == k + Drafts!Read(text, k).width
  <2>1. next \in Nat /\ next >= 1 /\ next + n > Len(text) /\ Drafts!Read(text, k).char \in Signs
    BY ReadGoesOn
  <2> HIDE DEF next
  <2>2. Drafts!Unquoted(text, next) \in Texts
    BY <2>1
  <2>3. Drafts!Unquoted(text, k) = <<Drafts!Read(text, k).char>> \o Drafts!Unquoted(text, next)
    BY UnquotedIs DEF next
  <2>4. <<Drafts!Read(text, k).char>> \in Texts
    BY <2>1, ShortTexts DEF Texts
  <2>5. QED BY <2>2, <2>3, <2>4, Joined
<1>5. I = Nat
  BY <1>3, <1>4, NaturalsFrom
<1>6. Len(text) \in I /\ i + Len(text) > Len(text)
  BY <1>1, <1>5
<1>7. QED BY <1>6

LEMMA UnquotedGrows ==
  ASSUME Drafts!EncodingAssumption, NEW text \in Texts, NEW more \in Texts, NEW i \in Nat, i >= 1
  PROVE  \E rest \in Texts :
           Drafts!Unquoted(text \o more, i) = Drafts!Unquoted(text, i) \o rest
<1> DEFINE Grows(k) == \E rest \in Texts :
                          Drafts!Unquoted(text \o more, k) = Drafts!Unquoted(text, k) \o rest
           I == {n \in Nat : \A k \in Nat : k >= 1 /\ k + n > Len(text) => Grows(k)}
<1>1. Len(text) \in Nat /\ text \o more \in Texts
  BY Joined
<1>2. ASSUME NEW k \in Nat, k >= 1, Drafts!Read(text, k).width = 0
      PROVE  Grows(k)
  <2>1. Drafts!Unquoted(text, k) = <<>>
    BY <1>2, UnquotedIs
  <2>2. Drafts!Unquoted(text \o more, k) \in Texts
    BY <1>1, <1>2, UnquotedIsText
  <2>3. QED BY <2>1, <2>2, JoinedToNone
<1>3. 0 \in I
  <2>1. \A k \in Nat : k >= 1 /\ k + 0 > Len(text) => Drafts!Read(text, k).width = 0
    BY <1>1, ReadIs
  <2> HIDE DEF Grows
  <2>2. QED BY <1>2, <2>1
<1>4. ASSUME NEW n \in I
      PROVE  n + 1 \in I
  <2> HIDE DEF Grows
  <2> SUFFICES ASSUME NEW k \in Nat, k >= 1, k + (n + 1) > Len(text), Drafts!Read(text, k).width # 0
               PROVE  Grows(k)
    BY <1>2
  <2> DEFINE next == k + Drafts!Read(text, k).width
             first == <<Drafts!Read(text, k).char>>
  <2>1. next \in Nat /\ next >= 1 /\ next + n > Len(text) /\ Drafts!Read(text, k).char \in Signs
    BY ReadGoesOn
  <2>2. Drafts!Unquoted(text, k) = first \o Drafts!Unquoted(text, next)
    BY UnquotedIs
  <2>3. Drafts!Unquoted(text \o more, k) = first \o Drafts!Unquoted(text \o more, next)
    <3>1. Drafts!Read(text \o more, k) = Drafts!Read(text, k)
      BY ReadStays
    <3>2. QED BY <1>1, <3>1, UnquotedIs
  <2> HIDE DEF next
  <2>4. Grows(next)
    BY <2>1
  <2>5. PICK rest \in Texts : Drafts!Unquoted(text \o more, next) = Drafts!Unquoted(text, next) \o rest
    BY <2>4 DEF Grows
  <2>6. first \in Texts /\ Drafts!Unquoted(text, next) \in Texts
    BY <2>1, UnquotedIsText, ShortTexts DEF Texts
  <2> HIDE DEF first
  <2>7. Drafts!Unquoted(text \o more, k) = (first \o Drafts!Unquoted(text, next)) \o rest
    <3> HIDE DEF I
    <3> DEFINE u == Drafts!Unquoted(text, next)
    <3> HIDE DEF u
    <3>1. first \in Texts /\ u \in Texts /\ rest \in Texts
      BY <2>6 DEF u
    <3>2. (first \o u) \o rest = first \o (u \o rest)
      BY <3>1, JoinedAgain, SMTT(60)
    <3>3. QED BY <2>3, <2>5, <3>2 DEF u
  <2>8. QED BY <2>2, <2>7 DEF Grows
<1>5. I = Nat
  <2> HIDE DEF Grows
  <2>1. QED BY <1>3, <1>4, NaturalsFrom
<1>6. Len(text) \in I /\ i + Len(text) > Len(text)
  <2> HIDE DEF I
  <2>1. QED BY <1>1, <1>5
<1> HIDE DEF Grows
<1>7. Grows(i)
  BY <1>6
<1>8. QED BY <1>7 DEF Grows

LEMMA LeastPlace ==
  ASSUME NEW S \in SUBSET Nat, S # {}
  PROVE  Drafts!Min(S) \in S /\ \A n \in S : Drafts!Min(S) <= n
<1>1. Drafts!Min(S) = History!Min(S)
  BY DEF Drafts!Min, History!Min
<1>2. QED BY <1>1, LeastNumber

LEMMA FindIs ==
  ASSUME NEW text \in Texts, NEW symbol, NEW from \in Nat, from >= 1
  PROVE  \/ /\ Drafts!Find(text, symbol, from) = 0
            /\ \A i \in from .. Len(text) : text[i] # symbol
         \/ /\ Drafts!Find(text, symbol, from) \in from .. Len(text)
            /\ text[Drafts!Find(text, symbol, from)] = symbol
            /\ \A i \in from .. Len(text) : text[i] = symbol => Drafts!Find(text, symbol, from) <= i
<1> DEFINE places == {i \in from .. Len(text) : text[i] = symbol}
<1>1. places \in SUBSET Nat
  BY DEF Texts
<1>2. CASE places = {}
  BY <1>2 DEF Drafts!Find
<1>3. CASE places # {}
  <2>1. Drafts!Find(text, symbol, from) = Drafts!Min(places)
    BY <1>3 DEF Drafts!Find
  <2> HIDE DEF places
  <2>2. Drafts!Min(places) \in places /\ \A i \in places : Drafts!Min(places) <= i
    BY <1>1, <1>3, LeastPlace
  <2>3. QED BY <2>1, <2>2 DEF places
<1>4. QED BY <1>2, <1>3

\* What was found stays where it is when more is written.
LEMMA FindStays ==
  ASSUME NEW text \in Texts, NEW more \in Texts, NEW symbol, NEW from \in Nat, from >= 1,
         Drafts!Find(text, symbol, from) # 0
  PROVE  /\ Drafts!Find(text \o more, symbol, from) = Drafts!Find(text, symbol, from)
         /\ Drafts!Find(text, symbol, from) \in 1 .. Len(text)
<1> DEFINE all == text \o more
           at == Drafts!Find(text, symbol, from)
           now == Drafts!Find(all, symbol, from)
<1>1. /\ Len(text) \in Nat /\ Len(all) \in Nat /\ Len(text) <= Len(all) /\ all \in Texts
      /\ \A k \in 1 .. Len(text) : all[k] = text[k]
  BY Joined
<1>2. /\ at \in from .. Len(text) /\ text[at] = symbol
      /\ \A i \in from .. Len(text) : text[i] = symbol => at <= i
  BY FindIs
<1> HIDE DEF all, at
<1>3. at \in from .. Len(all) /\ all[at] = symbol /\ at \in 1 .. Len(text) /\ at \in Nat
  BY <1>1, <1>2
<1>4. now \in from .. Len(all) /\ all[now] = symbol /\ now <= at
  <2>1. \/ now = 0 /\ \A i \in from .. Len(all) : all[i] # symbol
        \/ /\ now \in from .. Len(all) /\ all[now] = symbol
           /\ \A i \in from .. Len(all) : all[i] = symbol => now <= i
    BY <1>1, FindIs
  <2> HIDE DEF now
  <2>2. QED BY <1>3, <2>1
<1> HIDE DEF now
<1>5. now \in from .. Len(text) /\ text[now] = symbol
  BY <1>1, <1>3, <1>4
<1>6. now = at
  BY <1>2, <1>3, <1>4, <1>5
<1>7. QED BY <1>3, <1>6 DEF all, at, now


\* What is shown of a text is the beginning of what is shown of a longer one.
LEMMA VisibleGrows ==
  ASSUME Drafts!EncodingAssumption, NEW text \in Texts, NEW more \in Texts
  PROVE  /\ Drafts!Visible(text) \in Texts
         /\ \E rest \in Texts : Drafts!Visible(text \o more) = Drafts!Visible(text) \o rest
<1> DEFINE key(s) == Drafts!Find(s, "key", 1)
           colon(s) == IF key(s) = 0 THEN 0 ELSE Drafts!Find(s, "colon", key(s) + 1)
           quote(s) == IF colon(s) = 0 THEN 0 ELSE Drafts!Find(s, "quote", colon(s) + 1)
           all == text \o more
<1>1. \A s \in Texts : Drafts!Visible(s) = IF quote(s) = 0 THEN <<>> ELSE Drafts!Unquoted(s, quote(s) + 1)
  BY DEF Drafts!Visible
<1>2. \A s \in Texts : key(s) \in Nat /\ colon(s) \in Nat /\ quote(s) \in Nat
  <2> SUFFICES ASSUME NEW s \in Texts
               PROVE  key(s) \in Nat /\ colon(s) \in Nat /\ quote(s) \in Nat
    OBVIOUS
  <2>1. \A symbol : \A from \in Nat : from >= 1 => Drafts!Find(s, symbol, from) \in Nat
    BY FindIs
  <2>2. key(s) \in Nat
    BY <2>1
  <2> HIDE DEF key
  <2>3. colon(s) \in Nat
    BY <2>1, <2>2 DEF colon
  <2> HIDE DEF colon
  <2>4. quote(s) \in Nat
    BY <2>1, <2>3 DEF quote
  <2>5. QED BY <2>2, <2>3, <2>4
<1>3. all \in Texts
  BY Joined
<1>4. key(text) # 0 => key(all) = key(text)
  BY FindStays
<1>5. colon(text) # 0 => colon(all) = colon(text)
  <2> SUFFICES ASSUME colon(text) # 0
               PROVE  colon(all) = colon(text)
    OBVIOUS
  <2>1. key(text) # 0 /\ key(all) = key(text) /\ key(text) \in Nat
    BY <1>2, <1>4
  <2> HIDE DEF key, all
  <2>2. Drafts!Find(text, "colon", key(text) + 1) # 0
    BY <2>1
  <2>3. Drafts!Find(all, "colon", key(text) + 1) = Drafts!Find(text, "colon", key(text) + 1)
    <3>1. key(text) + 1 \in Nat /\ key(text) + 1 >= 1
      BY <2>1
    <3>2. QED BY <2>2, <3>1, FindStays DEF all
  <2>4. QED BY <2>1, <2>3
<1>6. quote(text) # 0 => quote(all) = quote(text)
  <2> SUFFICES ASSUME quote(text) # 0
               PROVE  quote(all) = quote(text)
    OBVIOUS
  <2>1. colon(text) # 0 /\ colon(all) = colon(text) /\ colon(text) \in Nat
    BY <1>2, <1>5
  <2> HIDE DEF colon, all
  <2>2. Drafts!Find(text, "quote", colon(text) + 1) # 0
    BY <2>1
  <2>3. Drafts!Find(all, "quote", colon(text) + 1) = Drafts!Find(text, "quote", colon(text) + 1)
    <3>1. colon(text) + 1 \in Nat /\ colon(text) + 1 >= 1
      BY <2>1
    <3>2. QED BY <2>2, <3>1, FindStays DEF all
  <2>4. QED BY <2>1, <2>3
<1> HIDE DEF key, colon, quote, all
<1>7. \A s \in Texts : Drafts!Visible(s) \in Texts
  <2> SUFFICES ASSUME NEW s \in Texts
               PROVE  Drafts!Visible(s) \in Texts
    OBVIOUS
  <2>1. quote(s) + 1 \in Nat /\ quote(s) + 1 >= 1
    BY <1>2
  <2>2. Drafts!Unquoted(s, quote(s) + 1) \in Texts
    BY <2>1, UnquotedIsText
  <2>3. <<>> \in Texts
    BY DEF Texts
  <2>4. QED BY <1>1, <2>2, <2>3
<1>8. CASE quote(text) = 0
  <2>1. Drafts!Visible(text) = <<>>
    BY <1>1, <1>8
  <2>2. Drafts!Visible(all) \in Texts /\ <<>> \o Drafts!Visible(all) = Drafts!Visible(all)
    BY <1>3, <1>7, JoinedToNone
  <2>3. QED BY <1>7, <2>1, <2>2 DEF all
<1>9. CASE quote(text) # 0
  <2>1. quote(text) + 1 \in Nat /\ quote(text) + 1 >= 1
    BY <1>2
  <2>2. /\ Drafts!Visible(text) = Drafts!Unquoted(text, quote(text) + 1)
        /\ Drafts!Visible(all) = Drafts!Unquoted(all, quote(text) + 1)
    BY <1>1, <1>3, <1>6, <1>9
  <2>3. \E rest \in Texts :
          Drafts!Unquoted(all, quote(text) + 1) = Drafts!Unquoted(text, quote(text) + 1) \o rest
    BY <2>1, UnquotedGrows DEF all
  <2>4. QED BY <1>7, <2>2, <2>3 DEF all
<1>10. QED BY <1>8, <1>9
-----------------------------------------------------------------------------
(* The drafts: what they show of a token.                                  *)

LEMMA NothingAtTheEnd ==
  ASSUME Drafts!EncodingAssumption, NEW text \in Texts
  PROVE  Drafts!Unquoted(text, Len(text) + 1) = <<>>
<1>1. Len(text) + 1 \in Nat /\ Len(text) + 1 > Len(text)
  BY DEF Texts
<1>2. QED BY <1>1, ReadIs, UnquotedIs

\* What stands after the beginning of a text.
LEMMA After ==
  ASSUME NEW start \in Texts, NEW part \in Texts, NEW more \in Texts
  PROVE  LET text == start \o (part \o more)
             at == Len(start)
         IN  /\ text \in Texts /\ Len(text) = at + Len(part) + Len(more) /\ at \in Nat
             /\ Len(part) \in Nat /\ Len(more) \in Nat
             /\ \A i \in 1 .. Len(part) : text[at + i] = part[i]
<1>1. /\ part \o more \in Texts /\ Len(part) \in Nat /\ Len(more) \in Nat
      /\ Len(part \o more) = Len(part) + Len(more)
      /\ \A i \in 1 .. Len(part) : (part \o more)[i] = part[i]
  BY Joined
<1> DEFINE tail == part \o more
<1> HIDE DEF tail
<1>2. /\ start \o tail \in Texts /\ Len(start) \in Nat /\ Len(start \o tail) = Len(start) + Len(tail)
      /\ \A i \in 1 .. Len(tail) : (start \o tail)[Len(start) + i] = tail[i]
  BY <1>1, Joined DEF tail
<1>3. \A i \in 1 .. Len(part) : i \in 1 .. Len(tail)
  BY <1>1 DEF tail
<1>4. \A i \in 1 .. Len(part) : (start \o tail)[Len(start) + i] = part[i]
  BY <1>1, <1>2, <1>3 DEF tail
<1>5. Len(start \o tail) = Len(start) + Len(part) + Len(more)
  BY <1>1, <1>2 DEF tail
<1>6. QED BY <1>1, <1>2, <1>4, <1>5 DEF tail

\* A whole token is read as what it says.
LEMMA TokenIsRead ==
  ASSUME Drafts!EncodingAssumption, NEW token \in Tokens, NEW start \in Texts, NEW more \in Texts
  PROVE  LET text == start \o (token.symbols \o more)
             at == Len(start) + 1
         IN  Drafts!Unquoted(text, at) = token.chars \o Drafts!Unquoted(text, at + Len(token.symbols))
<1> DEFINE symbols == token.symbols
           text == start \o (symbols \o more)
           at == Len(start) + 1
<1>1. symbols \in Texts /\ token.chars \in Texts
  BY TokensAreTexts
<1> HIDE DEF symbols
<1>2. /\ text \in Texts /\ Len(text) = Len(start) + Len(symbols) + Len(more) /\ Len(start) \in Nat
      /\ Len(symbols) \in Nat /\ Len(more) \in Nat
      /\ \A i \in 1 .. Len(symbols) : text[Len(start) + i] = symbols[i]
  BY <1>1, After
<1> HIDE DEF text
<1> SUFFICES Drafts!Unquoted(text, at) = token.chars \o Drafts!Unquoted(text, at + Len(symbols))
  BY DEF text, symbols
<1>3. ASSUME NEW char, NEW width \in Nat \ {0}, width = Len(symbols), token.chars = <<char>>,
             Drafts!Read(text, at) = [char |-> char, width |-> width]
      PROVE  Drafts!Unquoted(text, at) = token.chars \o Drafts!Unquoted(text, at + Len(symbols))
  <2>1. at \in Nat /\ Drafts!Read(text, at).width = width /\ Drafts!Read(text, at).char = char
    BY <1>2, <1>3
  <2> HIDE DEF at
  <2>2. QED BY <1>2, <1>3, <2>1, UnquotedIs
<1>4. CASE /\ Len(symbols) = 1 /\ symbols[1] \notin {"quote", "key", "slash"}
           /\ token.chars = symbols
  <2>1. text[at] = symbols[1] /\ ~ (at > Len(text))
    BY <1>2, <1>4
  <2>2. Drafts!Read(text, at) = [char |-> symbols[1], width |-> 1]
    BY <1>4, <2>1 DEF Drafts!Read
  <2>3. token.chars = <<symbols[1]>>
    BY <1>1, <1>4 DEF Texts
  <2>4. QED BY <1>3, <1>4, <2>2, <2>3
<1>5. CASE /\ Len(symbols) = 2 /\ symbols[1] = "slash" /\ symbols[2] # "u"
           /\ token.chars = <<Drafts!Unescaped(symbols[2])>>
  <2>1. /\ text[at] = "slash" /\ ~ (at > Len(text)) /\ text[at + 1] = symbols[2] /\ ~ (at + 1 > Len(text))
    <3>1. 1 \in 1 .. Len(symbols) /\ 2 \in 1 .. Len(symbols) /\ Len(start) + 2 = at + 1
      BY <1>2, <1>5
    <3>2. text[Len(start) + 1] = symbols[1] /\ text[Len(start) + 2] = symbols[2]
      BY <1>2, <3>1
    <3>3. QED BY <1>2, <1>5, <3>1, <3>2
  <2>2. Drafts!Read(text, at) = [char |-> Drafts!Unescaped(symbols[2]), width |-> 2]
    BY <1>5, <2>1 DEF Drafts!Read
  <2>3. QED BY <1>3, <1>5, <2>2
<1>6. CASE /\ Len(symbols) = 6 /\ symbols[1] = "slash" /\ symbols[2] = "u"
           /\ SubSeq(symbols, 3, 6) \in DOMAIN HexValue
           /\ token.chars = <<HexValue[SubSeq(symbols, 3, 6)]>>
  <2>1. /\ text[at] = "slash" /\ ~ (at > Len(text)) /\ text[at + 1] = "u" /\ ~ (at + 1 > Len(text))
        /\ at + 5 <= Len(text)
    <3>1. 1 \in 1 .. Len(symbols) /\ 2 \in 1 .. Len(symbols) /\ Len(start) + 2 = at + 1
      BY <1>2, <1>6
    <3>2. text[Len(start) + 1] = symbols[1] /\ text[Len(start) + 2] = symbols[2]
      BY <1>2, <3>1
    <3>3. QED BY <1>2, <1>6, <3>1, <3>2
  <2>2. SubSeq(text, at + 2, at + 5) = SubSeq(symbols, 3, 6)
    <3>1. \A i \in 1 .. 4 : text[at + 2 + i - 1] = symbols[3 + i - 1]
      <4> SUFFICES ASSUME NEW i \in 1 .. 4
                   PROVE  text[at + 2 + i - 1] = symbols[3 + i - 1]
        OBVIOUS
      <4>1. 2 + i \in 1 .. Len(symbols) /\ at + 2 + i - 1 = Len(start) + (2 + i) /\ 3 + i - 1 = 2 + i
        BY <1>2, <1>6
      <4>2. QED BY <1>2, <4>1
    <3>2. SubSeq(symbols, 3, 6) = [i \in 1 .. 4 |-> symbols[3 + i - 1]]
      BY <1>1, <1>6 DEF Texts
    <3>3. SubSeq(text, at + 2, at + 5) = [i \in 1 .. 4 |-> text[at + 2 + i - 1]]
      <4>1. at + 2 \in Nat /\ at + 5 \in Nat /\ at + 2 >= 1 /\ at + 5 <= Len(text)
            /\ (at + 5) - (at + 2) + 1 = 4
        BY <1>2, <2>1
      <4>2. \A m \in Nat, n \in Nat : m >= 1 /\ n <= Len(text) =>
              SubSeq(text, m, n) = [i \in 1 .. (n - m + 1) |-> text[m + i - 1]]
        BY <1>2 DEF Texts
      <4> HIDE DEF at
      <4>3. SubSeq(text, at + 2, at + 5) = [i \in 1 .. ((at + 5) - (at + 2) + 1) |-> text[(at + 2) + i - 1]]
        BY <4>1, <4>2
      <4>4. QED BY <4>1, <4>3
    <3>4. QED BY <3>1, <3>2, <3>3
  <2>3. Drafts!Read(text, at) = [char |-> HexValue[SubSeq(symbols, 3, 6)], width |-> 6]
    <3> DEFINE digits == SubSeq(symbols, 3, 6)
    <3> HIDE DEF at
    <3>1. digits \in DOMAIN HexValue /\ SubSeq(text, at + 2, at + 5) = digits
      BY <1>6, <2>2
    <3> HIDE DEF digits
    <3>2. /\ ~ (text[at] \in {"quote", "key"}) /\ ~ (text[at] # "slash") /\ ~ (text[at + 1] # "u")
      BY <2>1
    <3>3. Drafts!Read(text, at) = [char |-> HexValue[digits], width |-> 6]
      BY <2>1, <3>1, <3>2 DEF Drafts!Read
    <3>4. QED BY <3>3 DEF digits
  <2>4. QED BY <1>3, <1>6, <2>3
<1>7. QED BY <1>4, <1>5, <1>6 DEF Drafts!EncodingAssumption, symbols


\* A token of which symbols are missing, and a quote, show nothing.
LEMMA PartIsNotRead ==
  ASSUME Drafts!EncodingAssumption, NEW token \in Tokens, NEW start \in Texts,
         NEW part \in Texts, NEW rest \in Texts, rest # <<>>, part \o rest = token.symbols
  PROVE  Drafts!Unquoted(start \o part, Len(start) + 1) = <<>>
<1> DEFINE text == start \o part
           at == Len(start) + 1
           symbols == token.symbols
<1>1. /\ text \in Texts /\ Len(text) = Len(start) + Len(part) /\ Len(start) \in Nat /\ Len(part) \in Nat
      /\ \A i \in 1 .. Len(part) : text[Len(start) + i] = part[i]
  BY Joined
<1>2. /\ Len(symbols) = Len(part) + Len(rest) /\ Len(rest) \in Nat /\ Len(rest) # 0
      /\ \A i \in 1 .. Len(part) : symbols[i] = part[i]
  <2>1. Len(rest) \in Nat /\ Len(rest) # 0
    BY DEF Texts
  <2>2. /\ Len(part \o rest) = Len(part) + Len(rest)
        /\ \A i \in 1 .. Len(part) : (part \o rest)[i] = part[i]
    BY Joined
  <2>3. symbols = part \o rest
    OBVIOUS
  <2> HIDE DEF symbols
  <2>4. QED BY <2>1, <2>2, <2>3
<1> HIDE DEF text, symbols
<1>3. Len(symbols) \in Nat /\ at + Len(symbols) - 1 > Len(text) /\ Len(part) < Len(symbols)
  <2>1. Len(rest) >= 1 /\ Len(rest) \in Nat /\ Len(symbols) = Len(part) + Len(rest)
    BY <1>2
  <2>2. Len(text) = Len(start) + Len(part) /\ Len(start) \in Nat /\ Len(part) \in Nat
    BY <1>1
  <2>3. QED BY <2>1, <2>2
<1>4. Len(part) = 0 => at > Len(text)
  BY <1>1
<1>5. Len(part) # 0 => 1 \in 1 .. Len(part) /\ text[at] = part[1] /\ symbols[1] = part[1] /\ at \in Nat
  BY <1>1, <1>2
<1>6. Drafts!Read(text, at).width = 0
  <2>1. CASE Len(part) = 0
    BY <1>4, <2>1 DEF Drafts!Read, Drafts!Stop
  <2>2. CASE Len(part) # 0 /\ Len(symbols) = 1
    BY <1>1, <1>2, <2>2
  <2>3. CASE Len(part) # 0 /\ Len(symbols) = 2 /\ symbols[1] = "slash"
    <3>1. at + 1 > Len(text)
      BY <1>1, <1>3, <2>3
    <3>2. text[at] = "slash"
      BY <1>5, <2>3
    <3>3. QED BY <3>1, <3>2 DEF Drafts!Read, Drafts!Stop
  <2>4. CASE Len(part) # 0 /\ Len(symbols) = 6 /\ symbols[1] = "slash" /\ symbols[2] = "u"
    <3>1. text[at] = "slash" /\ ~ (at + 5 <= Len(text))
      <4>1. at + 5 > Len(text) /\ at \in Nat /\ Len(text) \in Nat
        BY <1>1, <1>3, <2>4
      <4>2. QED BY <1>5, <2>4, <4>1
    <3>2. at + 1 > Len(text) \/ text[at + 1] = "u"
      <4>1. CASE Len(part) = 1
        BY <1>1, <4>1
      <4>2. CASE Len(part) # 1
        <5>1. 2 \in 1 .. Len(part) /\ Len(start) + 2 = at + 1
          <6>1. Len(part) # 0 /\ Len(part) # 1 /\ Len(part) \in Nat /\ Len(start) \in Nat
            BY <1>1, <2>4, <4>2
          <6>2. \A n \in Nat : n # 0 /\ n # 1 => 2 \in 1 .. n
            OBVIOUS
          <6>3. 2 \in 1 .. Len(part)
            BY <6>1, <6>2
          <6>4. QED BY <6>1, <6>3
        <5>2. text[Len(start) + 2] = part[2] /\ symbols[2] = part[2]
          BY <1>1, <1>2, <5>1
        <5>3. QED BY <2>4, <5>1, <5>2
      <4>3. QED BY <4>1, <4>2
    <3> HIDE DEF at
    <3>3. QED BY <3>1, <3>2 DEF Drafts!Read, Drafts!Stop
  <2>5. \/ Len(symbols) = 1
        \/ Len(symbols) = 2 /\ symbols[1] = "slash"
        \/ Len(symbols) = 6 /\ symbols[1] = "slash" /\ symbols[2] = "u"
    BY DEF Drafts!EncodingAssumption, symbols
  <2>6. QED BY <2>1, <2>2, <2>3, <2>4, <2>5
<1>7. at \in Nat
  BY <1>1
<1> HIDE DEF at
<1>8. Drafts!Unquoted(text, at) = <<>>
  BY <1>1, <1>6, <1>7, UnquotedIs
<1>9. QED BY <1>8 DEF text, at

LEMMA QuoteIsNotRead ==
  ASSUME Drafts!EncodingAssumption, NEW start \in Texts,
         NEW part \in Texts, NEW rest \in Texts, part \o rest = <<"quote", "brace">>
  PROVE  Drafts!Unquoted(start \o part, Len(start) + 1) = <<>>
<1> DEFINE text == start \o part
           at == Len(start) + 1
<1>1. /\ text \in Texts /\ Len(text) = Len(start) + Len(part) /\ Len(start) \in Nat /\ Len(part) \in Nat
      /\ \A i \in 1 .. Len(part) : text[Len(start) + i] = part[i]
  BY Joined
<1>2. \A i \in 1 .. Len(part) : (part \o rest)[i] = part[i]
  BY Joined
<1> HIDE DEF text
<1>3. at > Len(text) \/ text[at] = "quote"
  <2>1. CASE Len(part) = 0
    BY <1>1, <2>1
  <2>2. CASE Len(part) # 0
    <3>1. 1 \in 1 .. Len(part)
      BY <1>1, <2>2
    <3>2. text[at] = part[1] /\ part[1] = "quote"
      BY <1>1, <1>2, <3>1
    <3>3. QED BY <3>2
  <2>3. QED BY <2>1, <2>2
<1>4. at \in Nat
  BY <1>1
<1> HIDE DEF at
<1>5. Drafts!Read(text, at).width = 0
  BY <1>3 DEF Drafts!Read, Drafts!Stop
<1>6. Drafts!Unquoted(text, at) = <<>>
  BY <1>1, <1>4, <1>5, UnquotedIs
<1>7. QED BY <1>6 DEF text, at

\* Before the quote of its value, nothing of a response is shown.
LEMMA NothingWithoutQuote ==
  ASSUME NEW text \in Texts, \A i \in 1 .. Len(text) : text[i] # "quote"
  PROVE  Drafts!Visible(text) = <<>>
<1> DEFINE key == Drafts!Find(text, "key", 1)
           colon == IF key = 0 THEN 0 ELSE Drafts!Find(text, "colon", key + 1)
<1>1. Len(text) \in Nat
  BY DEF Texts
<1>2. \A symbol : \A from \in Nat : from >= 1 => Drafts!Find(text, symbol, from) \in Nat
  BY <1>1, FindIs
<1>3. key \in Nat
  BY <1>2
<1> HIDE DEF key
<1>4. colon \in Nat
  BY <1>2, <1>3
<1> HIDE DEF colon
<1>5. Drafts!Find(text, "quote", colon + 1) = 0
  <2> DEFINE at == Drafts!Find(text, "quote", colon + 1)
  <2>1. \/ at = 0
        \/ at \in colon + 1 .. Len(text) /\ text[at] = "quote"
    <3>1. colon + 1 \in Nat /\ colon + 1 >= 1
      BY <1>4
    <3>2. QED BY <3>1, FindIs
  <2> HIDE DEF at
  <2>2. at \in colon + 1 .. Len(text) => at \in 1 .. Len(text)
    BY <1>1, <1>4
  <2>3. at = 0
    BY <2>1, <2>2
  <2>4. QED BY <2>3 DEF at
<1>6. QED BY <1>5 DEF Drafts!Visible, colon, key

LEMMA HeaderIs ==
  /\ Drafts!Header \in Texts /\ Len(Drafts!Header) = 4
  /\ Drafts!Header[1] = "open" /\ Drafts!Header[2] = "key"
  /\ Drafts!Header[3] = "colon" /\ Drafts!Header[4] = "quote"
<1>1. {"open", "key", "colon", "quote"} \subseteq Signs
  BY DEF Signs
<1>2. Drafts!Header \in Texts
  BY <1>1, ShortTexts DEF Texts, Drafts!Header
<1>3. Len(Drafts!Header) = 4
  BY DEF Drafts!Header
<1>4. QED BY <1>2, <1>3 DEF Drafts!Header

\* From it on, what is shown is what follows it.
LEMMA ShownAfterHeader ==
  ASSUME NEW more \in Texts
  PROVE  Drafts!Visible(Drafts!Header \o more) = Drafts!Unquoted(Drafts!Header \o more, 5)
<1> DEFINE text == Drafts!Header \o more
<1>1. /\ Drafts!Header \in Texts /\ Len(Drafts!Header) = 4
      /\ Drafts!Header[1] = "open" /\ Drafts!Header[2] = "key"
      /\ Drafts!Header[3] = "colon" /\ Drafts!Header[4] = "quote"
  BY HeaderIs
<1>2. /\ text \in Texts /\ Len(text) \in Nat /\ Len(text) >= 4
      /\ text[1] = "open" /\ text[2] = "key" /\ text[3] = "colon" /\ text[4] = "quote"
  <2>1. \A i \in 1 .. 4 : text[i] = Drafts!Header[i]
    BY <1>1, Joined
  <2>2. text \in Texts /\ Len(text) = 4 + Len(more) /\ Len(more) \in Nat
    BY <1>1, Joined
  <2> HIDE DEF text
  <2>3. QED BY <1>1, <2>1, <2>2
<1> HIDE DEF text
<1>3. ASSUME NEW symbol, NEW from \in {1, 2, 3, 4}, NEW at \in {2, 3, 4}, from <= at, text[at] = symbol,
             \A i \in from .. at - 1 : text[i] # symbol
      PROVE  Drafts!Find(text, symbol, from) = at
  <2> DEFINE found == Drafts!Find(text, symbol, from)
  <2>1. \/ /\ found = 0
           /\ \A i \in from .. Len(text) : text[i] # symbol
        \/ /\ found \in from .. Len(text) /\ text[found] = symbol
           /\ \A i \in from .. Len(text) : text[i] = symbol => found <= i
    BY <1>2, FindIs
  <2> HIDE DEF found
  <2>2. at \in from .. Len(text)
    BY <1>2, <1>3
  <2>3. found \in from .. Len(text) /\ text[found] = symbol /\ found <= at
    BY <1>3, <2>1, <2>2
  <2>4. found \notin from .. at - 1
    BY <1>3, <2>3
  <2>5. found = at
    BY <1>2, <2>2, <2>3, <2>4
  <2>6. QED BY <2>5 DEF found
<1>4. Drafts!Find(text, "key", 1) = 2
  BY <1>2, <1>3
<1>5. Drafts!Find(text, "colon", 3) = 3
  BY <1>2, <1>3
<1>6. Drafts!Find(text, "quote", 4) = 4
  BY <1>2, <1>3
<1>7. Drafts!Visible(text) = Drafts!Unquoted(text, 5)
  BY <1>4, <1>5, <1>6 DEF Drafts!Visible
<1>8. QED BY <1>7 DEF text

-----------------------------------------------------------------------------
(* The drafts: the invariant. A response that did not break off is in its  *)
(* header, or it was told up to the beginning of a token, of which only    *)
(* some symbols were streamed.                                             *)

\* Whatever follows start, what is shown begins with what.
ToldUpTo(start, what) ==
  \A more \in Texts :
    Drafts!Visible(start \o more) = what \o Drafts!Unquoted(start \o more, Len(start) + 1)

Opening ==
  /\ raw \o pending = Drafts!Header /\ pending # <<>>
  /\ current = <<>> /\ said = <<>> /\ phase = "saying"

Telling ==
  \E start \in Texts, part \in Texts :
    /\ raw = start \o part /\ ToldUpTo(start, said)
    /\ \/ part = <<>> /\ pending = <<>> /\ current = <<>> /\ phase = "saying"
       \/ /\ phase = "saying" /\ pending # <<>>
          /\ \E token \in Tokens : part \o pending = token.symbols /\ current = token.chars
       \/ /\ phase \in {"closed", "done"} /\ current = <<>>
          /\ part \o pending = <<"quote", "brace">>

DraftInv ==
  /\ Drafts!TypeOK
  /\ {raw, pending, current, said, published} \subseteq Texts
  /\ \E rest \in Texts : Drafts!Visible(raw) = published \o rest
  /\ restarts = 0 => Opening \/ Telling
  /\ restarts = 0 /\ phase = "done" => published = said

LEMMA HeaderIsTold ==
  ASSUME Drafts!EncodingAssumption
  PROVE  ToldUpTo(Drafts!Header, <<>>)
<1> SUFFICES ASSUME NEW more \in Texts
             PROVE  Drafts!Visible(Drafts!Header \o more) =
                      <<>> \o Drafts!Unquoted(Drafts!Header \o more, Len(Drafts!Header) + 1)
  BY DEF ToldUpTo
<1> DEFINE shown == Drafts!Unquoted(Drafts!Header \o more, 5)
<1>1. Drafts!Visible(Drafts!Header \o more) = shown /\ Len(Drafts!Header) + 1 = 5
  BY ShownAfterHeader, HeaderIs
<1>2. Drafts!Header \o more \in Texts
  BY HeaderIs, Joined
<1>3. shown \in Texts
  BY <1>2, UnquotedIsText
<1>4. QED BY <1>1, <1>3, JoinedToNone

LEMMA ToldMore ==
  ASSUME Drafts!EncodingAssumption, NEW start \in Texts, NEW what \in Texts, ToldUpTo(start, what),
         NEW token \in Tokens
  PROVE  ToldUpTo(start \o token.symbols, what \o token.chars)
<1> DEFINE symbols == token.symbols
           chars == token.chars
<1>1. symbols \in Texts /\ chars \in Texts
  BY TokensAreTexts
<1> SUFFICES ASSUME NEW more \in Texts
             PROVE  Drafts!Visible((start \o symbols) \o more) =
                      (what \o chars) \o Drafts!Unquoted((start \o symbols) \o more, Len(start \o symbols) + 1)
  BY DEF ToldUpTo
<1> DEFINE text == start \o (symbols \o more)
           at == Len(start) + 1
           after == Drafts!Unquoted(text, at + Len(symbols))
<1>2. Drafts!Unquoted(text, at) = chars \o after
  BY TokenIsRead
<1> HIDE DEF symbols, chars
<1>3. symbols \o more \in Texts /\ (start \o symbols) \o more = text
  <2>1. symbols \o more \in Texts
    BY <1>1, Joined
  <2>2. (start \o symbols) \o more = start \o (symbols \o more)
    BY <1>1, JoinedAgain
  <2>3. QED BY <2>1, <2>2
<1>4. Len(start \o symbols) + 1 = at + Len(symbols) /\ at + Len(symbols) \in Nat /\ at + Len(symbols) >= 1
  BY <1>1, Joined
<1>5. Drafts!Visible(text) = what \o Drafts!Unquoted(text, at)
  BY <1>3 DEF ToldUpTo
<1>6. text \in Texts
  BY <1>3, Joined
<1> HIDE DEF text, at
<1>7. after \in Texts
  BY <1>4, <1>6, UnquotedIsText
<1> HIDE DEF after
<1>8. what \o (chars \o after) = (what \o chars) \o after
  BY <1>1, <1>7, JoinedAgain
<1>9. Drafts!Visible(text) = (what \o chars) \o after
  BY <1>2, <1>5, <1>8
<1>10. Drafts!Unquoted((start \o symbols) \o more, Len(start \o symbols) + 1) = after
  BY <1>3, <1>4 DEF after
<1>11. QED BY <1>3, <1>9, <1>10

LEMMA SaidIsVisible ==
  ASSUME Drafts!EncodingAssumption, DraftInv, restarts = 0
  PROVE  Drafts!Visible(raw) = said
<1>1. {raw, pending, current, said, published} \subseteq Texts
  BY DEF DraftInv
<1>2. CASE Opening
  <2>1. raw \o pending = Drafts!Header /\ pending # <<>> /\ said = <<>>
    BY <1>2 DEF Opening
  <2>2. /\ Len(raw) \in Nat /\ Len(pending) \in Nat /\ Len(raw) + Len(pending) = 4
        /\ \A i \in 1 .. Len(raw) : raw[i] = Drafts!Header[i]
    <3>1. Len(Drafts!Header) = 4
      BY DEF Drafts!Header
    <3>2. /\ Len(raw) \in Nat /\ Len(pending) \in Nat /\ Len(raw \o pending) = Len(raw) + Len(pending)
          /\ \A i \in 1 .. Len(raw) : (raw \o pending)[i] = raw[i]
      BY <1>1, Joined
    <3>3. QED BY <2>1, <3>1, <3>2
  <2>3. Len(pending) # 0
    BY <1>1, <2>1 DEF Texts
  <2>4. \A i \in 1 .. Len(raw) : i \in {1, 2, 3}
    BY <2>2, <2>3
  <2>5. \A i \in {1, 2, 3} : Drafts!Header[i] # "quote"
    BY DEF Drafts!Header
  <2>6. \A i \in 1 .. Len(raw) : raw[i] # "quote"
    BY <2>2, <2>4, <2>5
  <2>7. QED BY <1>1, <2>1, <2>6, NothingWithoutQuote
<1>3. CASE Telling
  <2>1. PICK start \in Texts, part \in Texts :
          /\ raw = start \o part /\ ToldUpTo(start, said)
          /\ \/ part = <<>> /\ pending = <<>> /\ current = <<>> /\ phase = "saying"
             \/ /\ phase = "saying" /\ pending # <<>>
                /\ \E token \in Tokens : part \o pending = token.symbols /\ current = token.chars
             \/ /\ phase \in {"closed", "done"} /\ current = <<>>
                /\ part \o pending = <<"quote", "brace">>
    BY <1>3 DEF Telling
  <2>2. Drafts!Unquoted(raw, Len(start) + 1) = <<>>
    <3>1. CASE part = <<>>
      <4>1. raw = start
        BY <2>1, <3>1, JoinedToNone
      <4>2. QED BY <4>1, NothingAtTheEnd
    <3>2. CASE pending # <<>> /\ \E token \in Tokens : part \o pending = token.symbols
      BY <1>1, <2>1, <3>2, PartIsNotRead
    <3>3. CASE part \o pending = <<"quote", "brace">>
      BY <1>1, <2>1, <3>3, QuoteIsNotRead
    <3>4. QED BY <2>1, <3>1, <3>2, <3>3
  <2>3. Drafts!Visible(raw) = said \o <<>>
    BY <2>1, <2>2 DEF ToldUpTo
  <2>4. QED BY <1>1, <2>3, JoinedToNone
<1>4. QED BY <1>2, <1>3 DEF DraftInv

LEMMA DraftsInit ==
  ASSUME Drafts!EncodingAssumption, Drafts!BoundsAssumption, Drafts!Init
  PROVE  DraftInv
<1>1. /\ raw = <<>> /\ pending = Drafts!Header /\ current = <<>> /\ said = <<>> /\ phase = "saying"
      /\ published = <<>> /\ due = TRUE /\ restarts = 0
  BY DEF Drafts!Init
<1>2. <<>> \in Texts /\ Drafts!Header \in Texts /\ Len(Drafts!Header) = 4
  BY HeaderIs DEF Texts
<1>3. {raw, pending, current, said, published} \subseteq Texts
  BY <1>1, <1>2
<1>4. Drafts!TypeOK
  <2>1. Drafts!Header \in Seq(Drafts!Symbols)
    <3>1. {"open", "key", "colon", "quote"} \subseteq Drafts!Symbols
      BY DEF Drafts!Symbols
    <3>2. QED BY <3>1, ShortTexts DEF Drafts!Header
  <2>2. <<>> \in Seq(Drafts!Symbols) /\ restarts \in 0 .. MaxRestarts
    BY <1>1 DEF Drafts!BoundsAssumption
  <2>3. QED BY <1>1, <2>1, <2>2 DEF Drafts!TypeOK
<1>5. Opening
  <2>1. <<>> \o Drafts!Header = Drafts!Header
    BY <1>2, JoinedToNone
  <2>2. Drafts!Header # <<>>
    BY <1>2
  <2>3. QED BY <1>1, <2>1, <2>2 DEF Opening
<1>6. \E rest \in Texts : Drafts!Visible(raw) = published \o rest
  <2>1. Drafts!Visible(raw) = <<>>
    BY <1>1, <1>2, NothingWithoutQuote
  <2>2. published \o <<>> = <<>>
    BY <1>1, <1>2, JoinedToNone
  <2>3. QED BY <1>2, <2>1, <2>2
<1>7. phase # "done"
  BY <1>1
<1>8. QED BY <1>3, <1>4, <1>5, <1>6, <1>7 DEF DraftInv

LEMMA FlushKeeps ==
  ASSUME Drafts!EncodingAssumption, NEW text \in Texts, NEW force \in BOOLEAN, Drafts!Flush(text, force),
         published \in Texts, \E rest \in Texts : Drafts!Visible(text) = published \o rest,
         due \in BOOLEAN, published = <<>> => due
  PROVE  /\ published' \in Texts /\ \E rest \in Texts : Drafts!Visible(text) = published' \o rest
         /\ Drafts!IsPrefix(published, published')
         /\ due' \in BOOLEAN /\ (published' = <<>> => due')
         /\ force => published' = Drafts!Visible(text)
<1>1. Drafts!Visible(text) \in Texts /\ <<>> \in Texts
  BY JoinedToNone, VisibleGrows
<1>2. Drafts!Visible(text) = Drafts!Visible(text) \o <<>>
  BY <1>1, JoinedToNone
<1>3. PICK rest \in Texts : Drafts!Visible(text) = published \o rest
  OBVIOUS
<1>4. CASE UNCHANGED <<published, due>> /\ (force => Drafts!Visible(text) \in {<<>>, published})
  <2>1. Drafts!IsPrefix(published, published)
    BY JoinedToNone, Begins
  <2>2. Drafts!Visible(text) = <<>> => published = <<>>
    <3>1. /\ Len(published) \in Nat /\ Len(rest) \in Nat
          /\ Len(published \o rest) = Len(published) + Len(rest)
      BY Joined
    <3>2. published \o rest = <<>> => Len(published) = 0
      BY <3>1
    <3>3. QED BY <1>3, <3>2 DEF Texts
  <2>3. QED BY <1>4, <2>1, <2>2
<1>5. CASE published' = Drafts!Visible(text) /\ due' = FALSE /\ Drafts!Visible(text) # <<>>
  <2>1. Drafts!IsPrefix(published, published')
    BY <1>3, <1>5, Begins
  <2>2. QED BY <1>1, <1>2, <1>5, <2>1
<1>6. QED BY <1>4, <1>5 DEF Drafts!Flush


LEMMA SameSequence ==
  ASSUME NEW S, NEW s \in Seq(S), NEW t \in Seq(S), Len(s) = Len(t),
         \A i \in 1 .. Len(s) : s[i] = t[i]
  PROVE  s = t
<1>1. Len(s) \in Nat /\ DOMAIN s = 1 .. Len(s) /\ DOMAIN t = 1 .. Len(s)
  OBVIOUS
<1>2. s = [i \in 1 .. Len(s) |-> s[i]] /\ t = [i \in 1 .. Len(s) |-> t[i]]
  BY <1>1
<1>3. QED BY <1>2

LEMMA Cut ==
  ASSUME NEW S, NEW s \in Seq(S), NEW n \in 1 .. Len(s)
  PROVE  LET first == SubSeq(s, 1, n)
             second == SubSeq(s, n + 1, Len(s))
         IN  /\ first \in Seq(S) /\ second \in Seq(S) /\ first \o second = s
             /\ n = Len(s) => first = s /\ second = <<>>
             /\ n # Len(s) => second # <<>>
<1> DEFINE first == SubSeq(s, 1, n)
           second == SubSeq(s, n + 1, Len(s))
<1>1. first \in Seq(S) /\ second \in Seq(S) /\ Len(first) = n /\ Len(second) = Len(s) - n
  OBVIOUS
<1>2. \A i \in 1 .. n : first[i] = s[i]
  OBVIOUS
<1>3. \A i \in 1 .. Len(s) - n : second[i] = s[n + i]
  OBVIOUS
<1> HIDE DEF first, second
<1>4. \A i \in 1 .. Len(s) : (first \o second)[i] = s[i]
  <2> SUFFICES ASSUME NEW i \in 1 .. Len(s)
               PROVE  (first \o second)[i] = s[i]
    OBVIOUS
  <2>1. CASE i <= n
    BY <1>1, <1>2, <2>1
  <2>2. CASE i > n
    <3>1. i - n \in 1 .. Len(s) - n /\ n + (i - n) = i
      BY <2>2
    <3>2. second[i - n] = s[i]
      BY <1>3, <3>1
    <3>3. (first \o second)[i] = second[i - n]
      BY <1>1, <2>2
    <3>4. QED BY <3>2, <3>3
  <2>3. i \in Nat /\ n \in Nat
    OBVIOUS
  <2>4. i <= n \/ i > n
    BY <2>3
  <2>5. QED BY <2>1, <2>2, <2>4
<1>5. first \o second \in Seq(S) /\ Len(first \o second) = Len(s)
  BY <1>1
<1>6. first \o second = s
  BY <1>4, <1>5, SameSequence
<1>7. n = Len(s) => first = s /\ second = <<>>
  BY <1>1, <1>2
<1>8. n # Len(s) => second # <<>>
  BY <1>1
<1>9. QED BY <1>1, <1>6, <1>7, <1>8 DEF first, second

LEMMA TokenIsSymbols ==
  ASSUME Drafts!EncodingAssumption, NEW token \in Tokens
  PROVE  token.symbols \in Seq(Drafts!Symbols) /\ token.symbols # <<>>
<1>1. token.symbols \in Seq(STRING) /\ Len(token.symbols) \in {1, 2, 6}
  BY DEF Drafts!EncodingAssumption
<1>2. \A i \in 1 .. Len(token.symbols) : token.symbols[i] \in Drafts!Symbols
  <2>1. DOMAIN token.symbols = 1 .. Len(token.symbols)
    BY <1>1, Elements
  <2>2. Drafts!ToSet(token.symbols) \subseteq Drafts!Symbols
    BY DEF Drafts!Symbols
  <2>3. QED BY <2>1, <2>2 DEF Drafts!ToSet
<1>3. token.symbols \in Seq(Drafts!Symbols)
  BY <1>1, <1>2, Retyped
<1>4. token.symbols # <<>>
  <2> DEFINE symbols == token.symbols
  <2>1. Len(symbols) \in {1, 2, 6}
    BY <1>1
  <2> HIDE DEF symbols
  <2>2. symbols # <<>>
    BY <2>1
  <2>3. QED BY <2>2 DEF symbols
<1>5. QED BY <1>3, <1>4

LEMMA SayKeeps ==
  ASSUME Drafts!EncodingAssumption, DraftInv, NEW token \in Tokens, Drafts!Say(token)
  PROVE  DraftInv' /\ Drafts!IsPrefix(published, published')
<1>1. /\ pending = <<>> /\ phase = "saying"
      /\ pending' = token.symbols /\ current' = token.chars
      /\ UNCHANGED <<raw, said, phase, published, due, restarts>>
  BY DEF Drafts!Say
<1>2. token.symbols \in Texts /\ token.chars \in Texts
  BY TokensAreTexts
<1>3. token.symbols \in Seq(Drafts!Symbols) /\ token.symbols # <<>>
  BY TokenIsSymbols
<1>4. Drafts!TypeOK'
  BY <1>1, <1>3 DEF DraftInv, Drafts!TypeOK, Drafts!Symbols
<1>5. {raw, pending, current, said, published}' \subseteq Texts
  BY <1>1, <1>2 DEF DraftInv
<1>6. restarts = 0 => Telling'
  <2> SUFFICES ASSUME restarts = 0
               PROVE  Telling'
    OBVIOUS
  <2>1. Telling
    BY <1>1 DEF DraftInv, Opening
  <2>2. PICK start \in Texts : raw = start /\ ToldUpTo(start, said)
    <3>1. PICK start \in Texts, part \in Texts :
            /\ raw = start \o part /\ ToldUpTo(start, said)
            /\ \/ part = <<>>
               \/ phase # "saying"
               \/ pending # <<>>
      BY <2>1 DEF Telling
    <3>2. start \o <<>> = start
      BY JoinedToNone
    <3>3. QED BY <1>1, <3>1, <3>2
  <2>3. raw' = start \o <<>> /\ <<>> \in Texts /\ <<>> \o pending' = token.symbols
    BY <1>1, <1>2, <2>2, JoinedToNone
  <2>4. QED BY <1>1, <1>3, <2>2, <2>3 DEF Telling
<1>7. Drafts!IsPrefix(published, published')
  <2>1. published \in Texts /\ published' = published
    BY <1>1 DEF DraftInv
  <2>2. QED BY <2>1, JoinedToNone, Begins
<1>8. \E rest \in Texts : Drafts!Visible(raw') = published' \o rest
  BY <1>1 DEF DraftInv
<1>9. QED BY <1>1, <1>4, <1>5, <1>6, <1>7, <1>8 DEF DraftInv

LEMMA CloseKeeps ==
  ASSUME Drafts!EncodingAssumption, DraftInv, Drafts!Close
  PROVE  DraftInv' /\ Drafts!IsPrefix(published, published')
<1>1. /\ pending = <<>> /\ phase = "saying"
      /\ phase' = "closed" /\ pending' = <<"quote", "brace">>
      /\ UNCHANGED <<raw, current, said, published, due, restarts>>
  BY DEF Drafts!Close
<1>2. <<"quote", "brace">> \in Texts /\ <<"quote", "brace">> \in Seq(Drafts!Symbols)
  <2>1. {"quote", "brace"} \subseteq Signs /\ {"quote", "brace"} \subseteq Drafts!Symbols
    BY DEF Signs, Drafts!Symbols
  <2>2. QED BY <2>1, ShortTexts DEF Texts
<1>3. Drafts!TypeOK'
  BY <1>1, <1>2 DEF DraftInv, Drafts!TypeOK, Drafts!Symbols
<1>4. {raw, pending, current, said, published}' \subseteq Texts
  BY <1>1, <1>2 DEF DraftInv
<1>5. restarts = 0 => Telling'
  <2> SUFFICES ASSUME restarts = 0
               PROVE  Telling'
    OBVIOUS
  <2>1. Telling
    BY <1>1 DEF DraftInv, Opening
  <2>2. PICK start \in Texts : raw = start /\ ToldUpTo(start, said) /\ current = <<>>
    <3>1. PICK start \in Texts, part \in Texts :
            /\ raw = start \o part /\ ToldUpTo(start, said)
            /\ \/ part = <<>> /\ current = <<>>
               \/ phase # "saying"
               \/ pending # <<>>
      BY <2>1 DEF Telling
    <3>2. start \o <<>> = start
      BY JoinedToNone
    <3>3. QED BY <1>1, <3>1, <3>2
  <2>3. raw' = start \o <<>> /\ <<>> \in Texts /\ <<>> \o pending' = <<"quote", "brace">>
    BY <1>1, <1>2, <2>2, JoinedToNone
  <2>4. QED BY <1>1, <2>2, <2>3 DEF Telling
<1>6. Drafts!IsPrefix(published, published')
  <2>1. published \in Texts /\ published' = published
    BY <1>1 DEF DraftInv
  <2>2. QED BY <2>1, JoinedToNone, Begins
<1>7. \E rest \in Texts : Drafts!Visible(raw') = published' \o rest
  BY <1>1 DEF DraftInv
<1>8. QED BY <1>1, <1>3, <1>4, <1>5, <1>6, <1>7 DEF DraftInv


LEMMA DeltaKeeps ==
  ASSUME Drafts!EncodingAssumption, DraftInv, NEW n \in 1 .. 6, Drafts!Delta(n)
  PROVE  DraftInv' /\ Drafts!IsPrefix(published, published')
<1> DEFINE first == SubSeq(pending, 1, n)
           second == SubSeq(pending, n + 1, Len(pending))
<1>1. /\ phase # "done" /\ n <= Len(pending)
      /\ raw' = raw \o first /\ pending' = second
      /\ n = Len(pending) => said' = said \o current /\ current' = <<>>
      /\ n # Len(pending) => said' = said /\ current' = current
      /\ Drafts!Flush(raw', FALSE) /\ phase' = phase /\ restarts' = restarts
  BY DEF Drafts!Delta
<1>2. /\ {raw, pending, current, said, published} \subseteq Texts /\ Drafts!TypeOK
      /\ raw \in Seq(Drafts!Symbols) /\ pending \in Seq(Drafts!Symbols)
      /\ pending \in Seq(Signs)
  BY DEF DraftInv, Drafts!TypeOK, Texts
<1>3. n \in 1 .. Len(pending)
  BY <1>1, <1>2
<1>4. /\ first \in Texts /\ second \in Texts /\ first \o second = pending
      /\ n = Len(pending) => first = pending /\ second = <<>>
      /\ n # Len(pending) => second # <<>>
  BY <1>2, <1>3, Cut DEF Texts
<1>5. first \in Seq(Drafts!Symbols) /\ second \in Seq(Drafts!Symbols)
  BY <1>2, <1>3, Cut
<1> HIDE DEF first, second
<1>6. raw' \in Texts /\ raw' \in Seq(Drafts!Symbols) /\ said' \in Texts /\ current' \in Texts
  <2>1. raw \o first \in Texts /\ said \o current \in Texts /\ <<>> \in Texts
    BY <1>2, <1>4, Joined, JoinedToNone
  <2>2. raw \o first \in Seq(Drafts!Symbols)
    BY <1>2, <1>5
  <2>3. QED BY <1>1, <1>2, <2>1, <2>2
<1>7. \E rest \in Texts : Drafts!Visible(raw') = published \o rest
  <2>1. PICK rest \in Texts : Drafts!Visible(raw) = published \o rest
    BY DEF DraftInv
  <2>2. PICK more \in Texts : Drafts!Visible(raw \o first) = Drafts!Visible(raw) \o more
    BY <1>2, <1>4, VisibleGrows
  <2>3. published \in Texts /\ rest \in Texts /\ more \in Texts
    BY <1>2
  <2>4. (published \o rest) \o more = published \o (rest \o more)
    BY <2>3, JoinedAgain
  <2>5. rest \o more \in Texts
    BY Joined
  <2>6. QED BY <1>1, <2>1, <2>2, <2>4, <2>5
<1>8. /\ published' \in Texts /\ \E rest \in Texts : Drafts!Visible(raw') = published' \o rest
      /\ Drafts!IsPrefix(published, published')
      /\ due' \in BOOLEAN /\ (published' = <<>> => due')
  <2>1. published \in Texts /\ due \in BOOLEAN /\ (published = <<>> => due)
    BY <1>2 DEF Drafts!TypeOK
  <2> DEFINE text == raw'
  <2>2. text \in Texts /\ Drafts!Flush(text, FALSE)
        /\ \E rest \in Texts : Drafts!Visible(text) = published \o rest
    BY <1>1, <1>6, <1>7
  <2> HIDE DEF text
  <2>3. /\ published' \in Texts /\ \E rest \in Texts : Drafts!Visible(text) = published' \o rest
        /\ Drafts!IsPrefix(published, published')
        /\ due' \in BOOLEAN /\ (published' = <<>> => due')
    BY <2>1, <2>2, FlushKeeps
  <2>4. QED BY <2>3 DEF text
<1>9. Drafts!TypeOK'
  <2>1. Drafts!Symbols' = Drafts!Symbols
    BY DEF Drafts!Symbols
  <2>2. phase' \in {"saying", "closed", "done"} /\ restarts' \in 0 .. MaxRestarts
    BY <1>1, <1>2 DEF Drafts!TypeOK
  <2>3. QED BY <1>1, <1>5, <1>6, <1>8, <2>1, <2>2 DEF Drafts!TypeOK
<1>10. {raw, pending, current, said, published}' \subseteq Texts
  BY <1>1, <1>4, <1>6, <1>8
<1>11. ASSUME Opening
       PROVE  (Opening \/ Telling)'
  <2>1. /\ raw \o pending = Drafts!Header /\ current = <<>> /\ said = <<>> /\ phase = "saying"
    BY <1>11 DEF Opening
  <2>2. raw' \o pending' = Drafts!Header
    <3>1. (raw \o first) \o second = raw \o (first \o second)
      <4>1. raw \in Texts /\ first \in Texts /\ second \in Texts
        BY <1>2, <1>4
      <4>2. QED BY <4>1, JoinedAgain
    <3>2. QED BY <1>1, <1>4, <2>1, <3>1
  <2>3. current' = <<>> /\ said' = <<>> /\ phase' = "saying"
    BY <1>1, <1>2, <2>1, JoinedToNone
  <2>4. CASE n # Len(pending)
    <3>1. pending' # <<>>
      BY <1>1, <1>4, <2>4
    <3>2. QED BY <2>2, <2>3, <3>1 DEF Opening
  <2>5. CASE n = Len(pending)
    <3>1. pending' = <<>> /\ raw' = Drafts!Header
      BY <1>1, <1>4, <2>1, <2>5
    <3>2. ToldUpTo(Drafts!Header, <<>>) /\ Drafts!Header \in Texts /\ <<>> \in Texts
      BY HeaderIsTold, HeaderIs, JoinedToNone
    <3>3. raw' = Drafts!Header \o <<>> /\ ToldUpTo(Drafts!Header, said')
      BY <2>3, <3>1, <3>2, JoinedToNone
    <3>4. QED BY <2>3, <3>1, <3>2, <3>3 DEF Telling
  <2>6. QED BY <2>4, <2>5
<1>12. ASSUME Telling
       PROVE  Telling'
  <2>1. PICK start \in Texts, part \in Texts :
          /\ raw = start \o part /\ ToldUpTo(start, said)
          /\ \/ part = <<>> /\ pending = <<>> /\ current = <<>> /\ phase = "saying"
             \/ /\ phase = "saying" /\ pending # <<>>
                /\ \E token \in Tokens : part \o pending = token.symbols /\ current = token.chars
             \/ /\ phase \in {"closed", "done"} /\ current = <<>>
                /\ part \o pending = <<"quote", "brace">>
    BY <1>12 DEF Telling
  <2>2. pending # <<>>
    BY <1>3
  <2>3. /\ raw' = start \o (part \o first) /\ part \o first \in Texts
        /\ (part \o first) \o pending' = part \o pending
    <3>1. first \in Texts /\ second \in Texts
      BY <1>4
    <3>2. part \o first \in Texts
      BY <3>1, Joined
    <3>3. (start \o part) \o first = start \o (part \o first)
      BY <3>1, JoinedAgain
    <3>4. (part \o first) \o second = part \o (first \o second)
      BY <3>1, JoinedAgain
    <3>5. QED BY <1>1, <1>4, <2>1, <3>2, <3>3, <3>4
  <2>4. CASE phase = "saying" /\ \E token \in Tokens : part \o pending = token.symbols /\ current = token.chars
    <3>1. PICK token \in Tokens : part \o pending = token.symbols /\ current = token.chars
      BY <2>4
    <3>2. CASE n = Len(pending)
      <4>1. /\ raw' = start \o token.symbols /\ pending' = <<>> /\ current' = <<>>
            /\ said' = said \o token.chars /\ phase' = "saying"
        BY <1>1, <1>4, <2>3, <2>4, <3>1, <3>2
      <4>2. ToldUpTo(start \o token.symbols, said \o token.chars)
        BY <1>2, <2>1, ToldMore
      <4>3. start \o token.symbols \in Texts /\ <<>> \in Texts
        BY TokensAreTexts, Joined, JoinedToNone
      <4>4. raw' = (start \o token.symbols) \o <<>> /\ ToldUpTo(start \o token.symbols, said')
        BY <4>1, <4>2, <4>3, JoinedToNone
      <4>5. QED BY <4>1, <4>3, <4>4 DEF Telling
    <3>3. CASE n # Len(pending)
      <4>1. pending' # <<>> /\ said' = said /\ current' = token.chars /\ phase' = "saying"
        BY <1>1, <1>4, <2>4, <3>1, <3>3
      <4>2. ToldUpTo(start, said') /\ (part \o first) \o pending' = token.symbols
        BY <2>1, <2>3, <3>1, <4>1
      <4>3. QED BY <2>3, <4>1, <4>2 DEF Telling
    <3>4. QED BY <3>2, <3>3
  <2>5. CASE phase \in {"closed", "done"} /\ current = <<>> /\ part \o pending = <<"quote", "brace">>
    <3>1. said' = said /\ current' = <<>> /\ phase' = phase
      BY <1>1, <1>2, <2>5, JoinedToNone
    <3>2. ToldUpTo(start, said') /\ (part \o first) \o pending' = <<"quote", "brace">>
      BY <2>1, <2>3, <2>5, <3>1
    <3>3. QED BY <2>3, <2>5, <3>1, <3>2 DEF Telling
  <2>6. QED BY <2>1, <2>2, <2>4, <2>5
<1>13. restarts' = 0 => (Opening \/ Telling)'
  BY <1>1, <1>11, <1>12 DEF DraftInv
<1>14. phase' # "done"
  BY <1>1
<1>15. QED BY <1>8, <1>9, <1>10, <1>13, <1>14 DEF DraftInv

LEMMA TimePassesKeeps ==
  ASSUME DraftInv, Drafts!TimePasses
  PROVE  DraftInv' /\ Drafts!IsPrefix(published, published')
<1>1. /\ due' = TRUE
      /\ UNCHANGED <<raw, pending, current, said, phase, published, restarts>>
  BY DEF Drafts!TimePasses
<1>2. Drafts!TypeOK'
  BY <1>1 DEF DraftInv, Drafts!TypeOK, Drafts!Symbols
<1>3. (Opening \/ Telling) => (Opening \/ Telling)'
  BY <1>1 DEF Opening, Telling
<1>4. Drafts!IsPrefix(published, published')
  <2>1. published \in Texts /\ published' = published
    BY <1>1 DEF DraftInv
  <2>2. QED BY <2>1, JoinedToNone, Begins
<1>5. QED BY <1>1, <1>2, <1>3, <1>4 DEF DraftInv

LEMMA RestartKeeps ==
  ASSUME Drafts!BoundsAssumption, DraftInv, Drafts!Restart
  PROVE  DraftInv' /\ Drafts!IsPrefix(published, published')
<1>1. /\ restarts < MaxRestarts /\ restarts' = restarts + 1
      /\ pending' = Drafts!Header /\ current' = <<>> /\ said' = <<>> /\ phase' = "saying"
      /\ UNCHANGED <<raw, published, due>>
  BY DEF Drafts!Restart
<1>2. restarts' \in 0 .. MaxRestarts /\ restarts' # 0
  BY <1>1 DEF Drafts!BoundsAssumption, DraftInv, Drafts!TypeOK
<1>3. Drafts!Header \in Texts /\ <<>> \in Texts
  BY HeaderIs, JoinedToNone
<1>4. Drafts!Header \in Seq(Drafts!Symbols)
  <2>1. {"open", "key", "colon", "quote"} \subseteq Drafts!Symbols
    BY DEF Drafts!Symbols
  <2>2. QED BY <2>1, ShortTexts DEF Drafts!Header
<1>5. Drafts!TypeOK'
  BY <1>1, <1>2, <1>4 DEF DraftInv, Drafts!TypeOK, Drafts!Symbols
<1>6. {raw, pending, current, said, published}' \subseteq Texts
  BY <1>1, <1>3 DEF DraftInv
<1>7. \E rest \in Texts : Drafts!Visible(raw') = published' \o rest
  BY <1>1 DEF DraftInv
<1>8. Drafts!IsPrefix(published, published')
  <2>1. published \in Texts /\ published' = published
    BY <1>1 DEF DraftInv
  <2>2. QED BY <2>1, JoinedToNone, Begins
<1>9. QED BY <1>2, <1>5, <1>6, <1>7, <1>8 DEF DraftInv

LEMMA FinishKeeps ==
  ASSUME Drafts!EncodingAssumption, DraftInv, Drafts!Finish
  PROVE  DraftInv' /\ Drafts!IsPrefix(published, published')
<1>1. /\ phase = "closed" /\ phase' = "done" /\ Drafts!Flush(raw, TRUE)
      /\ UNCHANGED <<raw, pending, current, said, restarts>>
  BY DEF Drafts!Finish
<1>2. /\ {raw, pending, current, said, published} \subseteq Texts /\ Drafts!TypeOK
      /\ \E rest \in Texts : Drafts!Visible(raw) = published \o rest
  BY DEF DraftInv
<1>3. /\ published' \in Texts /\ \E rest \in Texts : Drafts!Visible(raw) = published' \o rest
      /\ Drafts!IsPrefix(published, published')
      /\ due' \in BOOLEAN /\ (published' = <<>> => due')
      /\ published' = Drafts!Visible(raw)
  BY <1>1, <1>2, FlushKeeps DEF Drafts!TypeOK
<1>4. Drafts!TypeOK'
  BY <1>1, <1>2, <1>3 DEF Drafts!TypeOK, Drafts!Symbols
<1>5. {raw, pending, current, said, published}' \subseteq Texts
  BY <1>1, <1>2, <1>3
<1>6. \E rest \in Texts : Drafts!Visible(raw') = published' \o rest
  BY <1>1, <1>3
<1>7. restarts' = 0 => Telling'
  <2>1. restarts = 0 => Telling
    BY <1>1 DEF DraftInv, Opening
  <2>2. Telling => Telling'
    BY <1>1 DEF Telling
  <2>3. QED BY <1>1, <2>1, <2>2
<1>8. restarts' = 0 => published' = said'
  <2>1. restarts = 0 => Drafts!Visible(raw) = said
    BY SaidIsVisible
  <2>2. QED BY <1>1, <1>3, <2>1
<1>9. QED BY <1>3, <1>4, <1>5, <1>6, <1>7, <1>8 DEF DraftInv

LEMMA DraftsNext ==
  ASSUME Drafts!EncodingAssumption, Drafts!BoundsAssumption, DraftInv, [Drafts!Next]_Drafts!vars
  PROVE  DraftInv' /\ (Drafts!IsPrefix(published, published') \/ UNCHANGED Drafts!vars)
<1>1. CASE Drafts!Next
  BY <1>1, SayKeeps, CloseKeeps, DeltaKeeps, TimePassesKeeps, RestartKeeps, FinishKeeps DEF Drafts!Next
<1>2. CASE UNCHANGED Drafts!vars
  <2>1. Drafts!TypeOK'
    BY <1>2 DEF DraftInv, Drafts!TypeOK, Drafts!Symbols, Drafts!vars
  <2>2. (Opening \/ Telling) => (Opening \/ Telling)'
    BY <1>2 DEF Opening, Telling, Drafts!vars
  <2>3. QED BY <1>2, <2>1, <2>2 DEF DraftInv, Drafts!vars
<1>3. QED BY <1>1, <1>2

LEMMA ShownIsSaid ==
  ASSUME Drafts!EncodingAssumption, DraftInv
  PROVE  Drafts!TypeOK /\ Drafts!DraftIsSaid
<1>1. ASSUME restarts = 0
      PROVE  Drafts!IsPrefix(published, said) /\ (phase = "done" => published = said)
  <2>1. PICK rest \in Texts : Drafts!Visible(raw) = published \o rest
    BY DEF DraftInv
  <2>2. Drafts!Visible(raw) = said
    BY <1>1, SaidIsVisible
  <2>3. published \in Texts
    BY DEF DraftInv
  <2>4. QED BY <1>1, <2>1, <2>2, <2>3, Begins DEF DraftInv
<1>2. QED BY <1>1 DEF DraftInv, Drafts!DraftIsSaid

\* The drafts of an answer only grow, wherever its deltas break and also when the
\* response starts again; those of a response that did not break off say what it
\* said, and in the end all of it: whatever is said and however it is encoded
\* (DraftsAreSaid of the run chats, over _streaming_json_text and
\* _ChatStreamPublisher of orchestrator/coordinator.py).
THEOREM DraftsSaid ==
  ASSUME Drafts!EncodingAssumption, Drafts!BoundsAssumption
  PROVE  Drafts!Spec => DraftsAreSaid
<1>1. Drafts!Init => DraftInv
  BY DraftsInit
<1>2. DraftInv /\ [Drafts!Next]_Drafts!vars => DraftInv'
  BY DraftsNext
<1>3. DraftInv /\ [Drafts!Next]_Drafts!vars => [Drafts!IsPrefix(published, published')]_Drafts!vars
  BY DraftsNext
<1>4. DraftInv => Drafts!TypeOK /\ Drafts!DraftIsSaid
  BY ShownIsSaid
<1>5. QED BY <1>1, <1>2, <1>3, <1>4, PTL DEF Drafts!Spec, DraftsAreSaid, Drafts!DraftsGrow
=============================================================================
