-------------------------- MODULE ConversationTurns --------------------------
(***************************************************************************)
(* The turns of one conversation: create_turn of api/conversations.py and  *)
(* schedule_chat and _run_chat_agent of the coordinator, in a process that *)
(* crashes or is shut down and is started again.                           *)
(*                                                                         *)
(* A turn is the ConversationTurn row with its one AgentRun (both get      *)
(* their outcome in one commit), the handler that creates them, the        *)
(* asyncio task that works on them and the kinds of messages it left.      *)
(* What a crash does to the transcript is ConversationStore's.             *)
(***************************************************************************)
EXTENDS Integers, FiniteSets

CONSTANTS
  Turns,        \* idempotency keys
  NeedsWorker,  \* turns routed to ("worker",): they have to change files
  Executes,     \* definition.can_request_execution of the root agent
  MaxAttempts,  \* definition.max_retries + 1
  MaxCrashes,   \* bound: crashes
  MaxCloses,    \* bound: shutdowns
  MaxFaults     \* bound: database operations that fail

BoundsAssumption ==
  /\ NeedsWorker \subseteq Turns /\ Executes \in BOOLEAN
  /\ MaxAttempts \in Nat \ {0} /\ {MaxCrashes, MaxCloses, MaxFaults} \subseteq Nat

VARIABLES
  turn,      \* status of the turn and its run: "none", "running", ...
  handler,   \* create_turn: "none", "routed", "asked", "queued", "done"
  op,        \* _run_chat_agent: the await it is at, "none", "over"
  attempt,   \* its attempt
  tools,     \* binding.executor.calls > 0 in this attempt
  messages,  \* kinds of messages of the turn in the store
  process,   \* "up", "closing", "down"
  runs,      \* ghost: tasks created for the turn
  effects,   \* ghost: attempts that called tools
  broken,    \* ghost: turns hit by a crash, a cancellation or a fault
  crashes, closes, faults

turnVars == <<turn, handler, op, attempt, tools, messages, runs, effects>>
vars == <<turnVars, process, broken, crashes, closes, faults>>
-----------------------------------------------------------------------------
Init ==
  /\ turn = [t \in Turns |-> "none"] /\ handler = [t \in Turns |-> "none"]
  /\ op = [t \in Turns |-> "none"] /\ attempt = [t \in Turns |-> 0]
  /\ tools = [t \in Turns |-> FALSE] /\ messages = [t \in Turns |-> {}]
  /\ process = "up" /\ runs = [t \in Turns |-> 0] /\ effects = [t \in Turns |-> {}]
  /\ broken = {} /\ crashes = 0 /\ closes = 0 /\ faults = 0

Alive(t) == op[t] \notin {"none", "over"}

Goes(t, from, to) == op[t] = from /\ op' = [op EXCEPT ![t] = to]
Steps(t, from, to) == handler[t] = from /\ handler' = [handler EXCEPT ![t] = to]
Says(t, kind) == messages' = [messages EXCEPT ![t] = @ \cup {kind}]

quiet == <<process, broken, crashes, closes, faults>>
-----------------------------------------------------------------------------
\* Mutant of CreateTurn: the key of a turn is not looked up.
CreateTurnAgain(t) ==
  /\ process = "up" /\ handler[t] \in {"none", "done"} /\ op[t] # "begin" /\ runs[t] < 2
  /\ handler' = [handler EXCEPT ![t] = "routed"]
  /\ turn' = [turn EXCEPT ![t] = "running"]
  /\ UNCHANGED <<op, attempt, tools, messages, runs, effects, quiet>>

\* Up to the first commit, under the row lock of the conversation. A request
\* whose key has a turn is answered with that turn and changes nothing.
CreateTurn(t) ==
  /\ process = "up" /\ turn[t] = "none"
  /\ Steps(t, "none", "routed")
  /\ turn' = [turn EXCEPT ![t] = "running"]
  /\ UNCHANGED <<op, attempt, tools, messages, runs, effects, quiet>>

Ask(t) ==
  /\ Steps(t, "routed", "asked")
  /\ Says(t, "user")
  /\ UNCHANGED <<turn, op, attempt, tools, runs, effects, quiet>>

\* The second commit, with the queued run.
Queue(t) ==
  /\ Steps(t, "asked", "queued")
  /\ UNCHANGED <<turn, op, attempt, tools, messages, runs, effects, quiet>>

Schedule(t) ==
  /\ Steps(t, "queued", "done")
  /\ op' = [op EXCEPT ![t] = "begin"]
  /\ runs' = [runs EXCEPT ![t] = @ + 1]
  /\ UNCHANGED <<turn, attempt, tools, messages, effects, quiet>>
-----------------------------------------------------------------------------
Begin(t) ==
  /\ Goes(t, "begin", "setup")
  /\ UNCHANGED <<turn, handler, attempt, tools, messages, runs, effects, quiet>>

\* Project, skill, history and context; any of them may raise.
Setup(t) ==
  /\ \E to \in {"attempt", "failing"} : Goes(t, "setup", to)
  /\ UNCHANGED <<turn, handler, attempt, tools, messages, runs, effects, quiet>>

\* Mutant of Attempt: the attempts are not counted.
AttemptUncounted(t) ==
  /\ Goes(t, "attempt", "prompt")
  /\ attempt' = [attempt EXCEPT ![t] = 1]
  /\ tools' = [tools EXCEPT ![t] = FALSE]
  /\ UNCHANGED <<turn, handler, messages, runs, effects, quiet>>

\* The attempt is committed and its loop, with a fresh binding, is prompted.
Attempt(t) ==
  /\ Goes(t, "attempt", "prompt")
  /\ attempt' = [attempt EXCEPT ![t] = @ + 1]
  /\ tools' = [tools EXCEPT ![t] = FALSE]
  /\ UNCHANGED <<turn, handler, messages, runs, effects, quiet>>

CallTool(t) ==
  /\ op[t] = "prompt"
  /\ tools' = [tools EXCEPT ![t] = TRUE]
  /\ effects' = [effects EXCEPT ![t] = @ \cup {attempt[t]}]
  /\ UNCHANGED <<turn, handler, op, attempt, messages, runs, quiet>>

\* A delegation to the worker ends well and says so.
WorkerCompletes(t) ==
  /\ op[t] = "prompt" /\ tools[t]
  /\ Says(t, "worker")
  /\ UNCHANGED <<turn, handler, op, attempt, tools, runs, effects, quiet>>

PromptReturns(t) ==
  /\ Goes(t, "prompt", "replied")
  /\ UNCHANGED <<turn, handler, attempt, tools, messages, runs, effects, quiet>>

\* Mutant of MayRetry: tool calls do not matter.
MayRetryAnyway(t, retryable) == retryable /\ attempt[t] < MaxAttempts

MayRetry(t, retryable) ==
  retryable /\ attempt[t] < MaxAttempts /\ (Executes => ~tools[t])

PromptFails(t) ==
  /\ \E retryable \in BOOLEAN :
       Goes(t, "prompt", IF MayRetry(t, retryable) THEN "backoff" ELSE "failing")
  /\ UNCHANGED <<turn, handler, attempt, tools, messages, runs, effects, quiet>>

Backoff(t) ==
  /\ Goes(t, "backoff", "attempt")
  /\ UNCHANGED <<turn, handler, attempt, tools, messages, runs, effects, quiet>>

\* Mutant of WorkerWorked: a worker of any turn of the conversation will do.
WorkerWorkedSomewhere(t) == t \in NeedsWorker => \E u \in Turns : "worker" \in messages[u]

WorkerWorked(t) == t \in NeedsWorker => "worker" \in messages[t]

WorkerMissing(t) ==
  /\ ~WorkerWorked(t)
  /\ Goes(t, "replied", "failing")
  /\ UNCHANGED <<turn, handler, attempt, tools, messages, runs, effects, quiet>>

\* Mutant of Complete: the turn is left to the caller of the task.
CompleteRunOnly(t) ==
  /\ WorkerWorked(t)
  /\ Goes(t, "replied", "answering")
  /\ UNCHANGED <<turn, handler, attempt, tools, messages, runs, effects, quiet>>

\* The outcome is committed before it is told.
Complete(t) ==
  /\ WorkerWorked(t)
  /\ Goes(t, "replied", "answering")
  /\ turn' = [turn EXCEPT ![t] = "completed"]
  /\ UNCHANGED <<handler, attempt, tools, messages, runs, effects, quiet>>

Answer(t) ==
  /\ Goes(t, "answering", "over")
  /\ Says(t, "answer")
  /\ UNCHANGED <<turn, handler, attempt, tools, runs, effects, quiet>>

\* Mutant of Fail: the run fails, its turn is forgotten.
FailRunOnly(t) ==
  /\ Goes(t, "failing", "reporting")
  /\ UNCHANGED <<turn, handler, attempt, tools, messages, runs, effects, quiet>>

Fail(t) ==
  /\ Goes(t, "failing", "reporting")
  /\ turn' = [turn EXCEPT ![t] = "failed"]
  /\ UNCHANGED <<handler, attempt, tools, messages, runs, effects, quiet>>

Report(t) ==
  /\ Goes(t, "reporting", "over")
  /\ Says(t, "error")
  /\ UNCHANGED <<turn, handler, attempt, tools, runs, effects, quiet>>
-----------------------------------------------------------------------------
\* A commit raises: before the try and in its handler the exception ends the
\* task, between them it leads to the handler.
DatabaseFails(t) ==
  /\ faults < MaxFaults
  /\ op[t] \in {"begin", "attempt", "replied", "failing"}
  /\ faults' = faults + 1
  /\ IF op[t] \in {"begin", "failing"}
       THEN /\ op' = [op EXCEPT ![t] = "over"]
            /\ broken' = broken \cup {t}
       ELSE /\ op' = [op EXCEPT ![t] = "failing"]
            /\ UNCHANGED broken
  /\ UNCHANGED <<turn, handler, attempt, tools, messages, runs, effects, process, crashes, closes>>

\* The handler's second commit raises: the answer is a 500, the turn stays.
QueueFails(t) ==
  /\ faults < MaxFaults
  /\ Steps(t, "asked", "done")
  /\ faults' = faults + 1
  /\ broken' = broken \cup {t}
  /\ UNCHANGED <<turn, op, attempt, tools, messages, runs, effects, process, crashes, closes>>

\* close cancels every task. Inside the prompt that is an AgentAbortedError,
\* an Exception; anywhere else a CancelledError, which nothing handles.
Close ==
  /\ process = "up" /\ closes < MaxCloses
  /\ \A t \in Turns : handler[t] \in {"none", "done"}
  /\ process' = "closing" /\ closes' = closes + 1
  /\ op' = [t \in Turns |-> IF ~Alive(t) THEN op[t]
                            ELSE IF op[t] = "prompt" THEN "failing" ELSE "over"]
  /\ broken' = broken \cup {t \in Turns : Alive(t) /\ op[t] # "prompt"}
  /\ UNCHANGED <<turn, handler, attempt, tools, messages, runs, effects, crashes, faults>>

Exit ==
  /\ process = "closing" /\ \A t \in Turns : ~Alive(t)
  /\ process' = "down"
  /\ UNCHANGED <<turnVars, broken, crashes, closes, faults>>

Crash ==
  /\ process # "down" /\ crashes < MaxCrashes
  /\ process' = "down" /\ crashes' = crashes + 1
  /\ broken' = broken \cup {t \in Turns : Alive(t) \/ handler[t] \in {"routed", "asked", "queued"}}
  /\ op' = [t \in Turns |-> IF Alive(t) THEN "over" ELSE op[t]]
  /\ handler' = [t \in Turns |-> IF handler[t] = "none" THEN "none" ELSE "done"]
  /\ UNCHANGED <<turn, attempt, tools, messages, runs, effects, closes, faults>>

\* Recovery looks at tasks, not at turns.
Start ==
  /\ process = "down"
  /\ process' = "up"
  /\ UNCHANGED <<turnVars, broken, crashes, closes, faults>>

Handles(t) == Ask(t) \/ Queue(t) \/ QueueFails(t) \/ Schedule(t)
Works(t) ==
  \/ Begin(t) \/ Setup(t) \/ Attempt(t) \/ PromptReturns(t) \/ PromptFails(t)
  \/ Backoff(t) \/ WorkerMissing(t) \/ Complete(t) \/ Answer(t) \/ Fail(t) \/ Report(t)
  \/ DatabaseFails(t)

Next ==
  \/ \E t \in Turns : CreateTurn(t) \/ CallTool(t) \/ WorkerCompletes(t) \/ Handles(t) \/ Works(t)
  \/ Close \/ Exit \/ Crash \/ Start

\* The event loop runs what it can run; a prompt ends, for its model turns
\* have timeouts and their number a limit.
Fairness == \A t \in Turns : WF_vars(Handles(t)) /\ WF_vars(Works(t))

Spec == Init /\ [][Next]_vars /\ Fairness
-----------------------------------------------------------------------------
TypeOK ==
  /\ turn \in [Turns -> {"none", "running", "completed", "failed"}]
  /\ handler \in [Turns -> {"none", "routed", "asked", "queued", "done"}]
  /\ op \in [Turns -> {"none", "begin", "setup", "attempt", "prompt", "backoff", "replied",
                       "answering", "failing", "reporting", "over"}]
  /\ attempt \in [Turns -> 0 .. MaxAttempts]
  /\ tools \in [Turns -> BOOLEAN]
  /\ messages \in [Turns -> SUBSET {"user", "worker", "answer", "error"}]
  /\ process \in {"up", "closing", "down"}
  /\ runs \in [Turns -> Nat] /\ effects \in [Turns -> SUBSET (1 .. MaxAttempts)]
  /\ broken \subseteq Turns
  /\ crashes \in 0 .. MaxCrashes /\ closes \in 0 .. MaxCloses /\ faults \in 0 .. MaxFaults

\* A turn that nobody works on any more is left running only by a crash, by a
\* cancellation outside its prompt or by a commit that failed.
StrandedOnlyByFault ==
  \A t \in Turns : turn[t] = "running" /\ handler[t] = "done" /\ ~Alive(t) => t \in broken

\* What a finished turn told the user is its outcome, and only that: an answer
\* when it completed, an error when it failed, though each is appended after
\* its commit and failures may come from anywhere in between.
OutcomeIsTold ==
  \A t \in Turns : op[t] = "over" /\ t \notin broken =>
    /\ turn[t] \in {"completed", "failed"}
    /\ "answer" \in messages[t] <=> turn[t] = "completed"
    /\ "error" \in messages[t] <=> turn[t] = "failed"

\* However often a request is repeated, before or after a crash, its turn is
\* worked on once.
OneRunPerTurn == \A t \in Turns : runs[t] <= 1

\* A turn that had to change files completes only if its own worker did.
OwnWorkerWorked ==
  \A t \in NeedsWorker : turn[t] = "completed" => "worker" \in messages[t]

\* Running an attempt of an agent that may request execution again is safe: no
\* two attempts of a turn called tools.
EffectsInOneAttempt == Executes => \A t \in Turns : Cardinality(effects[t]) <= 1

\* A turn is worked on once however often it is asked for, ends with one
\* outcome that its messages tell, completes only on its own worker's work, and
\* is left running only by a crash, a cancellation or a commit that failed. An
\* agent that may request execution is not run again after it called tools.
TurnsAreTold ==
  /\ TypeOK /\ StrandedOnlyByFault /\ OutcomeIsTold
  /\ OneRunPerTurn /\ OwnWorkerWorked /\ EffectsInOneAttempt

\* A turn gets its outcome unless a fault hits it.
TurnSettles == \A t \in Turns : turn[t] = "running" ~> turn[t] # "running" \/ t \in broken
=============================================================================
