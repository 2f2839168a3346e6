------------------------ MODULE AgentLoopProperties -------------------------
(* What callers of one AgentLoop may rely on.                              *)
EXTENDS AgentLoop

Kinds == {"user", "assistant", "calls", "results"}
Work ==
  [inline : BOOLEAN, at : {"created", "turn", "tools"} \cup Ends, cancelled : BOOLEAN]
CallerState ==
  [at : {"idle", "prompting", "joined", "awaiting", "continuing"},
   work : Nat, cancelled : BOOLEAN]

\* The types of the loop's fields, its runs and its callers.
TypeOK ==
  /\ messages \in Seq(Kinds)
  /\ steering \in Nat
  /\ followups \in Seq(Callers \cup {"nobody"})
  /\ abort \in BOOLEAN /\ idle \in BOOLEAN
  /\ works \in Seq(Work)
  /\ task \in 0..Len(works)
  /\ caller \in [Callers -> CallerState]
  /\ \A c \in Callers : caller[c].at # "idle" => caller[c].work \in DOMAIN works

\* prompt never has two runs under way, whoever prompts, aborts or is cancelled.
OneTask ==
  \A j, k \in DOMAIN works :
    ~works[j].inline /\ ~works[k].inline /\ ~Over(j) /\ ~Over(k) => j = k

\* A prompt that joined a run and gets its result has been answered by it: its
\* message is not left in the queue.
JoinedPromptIsAnswered ==
  \A c \in Callers :
    caller[c].at = "joined" /\ works[caller[c].work].at = "returned" =>
      c \notin ToSet(followups)

\* The loop is busy only while a coroutine will set it idle: wait_for_idle
\* cannot wait for ever beside a loop that nobody runs.
BusyIsOwned ==
  ~idle => \E c \in Callers : caller[c].at \in {"prompting", "continuing"}

\* Of a step: no run asks the model again after an abort it has not been restarted from.
AbortStopsTurns ==
  \A k \in DOMAIN works : abort /\ abort' /\ works'[k].at = "turn" => works[k].at = "turn"

\* Of a step: while nobody continues the loop, steering accepted before a model
\* turn is asked for is among its messages; only what arrives during the last
\* turn of a run stays unread.
SteeringIsReadEachTurn ==
  (\A j \in DOMAIN works' : ~works'[j].inline) => \A k \in DOMAIN works : works'[k].at = "turn" /\ messages' # messages => steering' = 0

\* Whenever the model is called, every tool call among the messages is followed
\* by its results, as long as nobody continued the loop and no run was cut off:
\* otherwise an abort during tools is the only way to leave calls without results
\* (prompting that loop again would send them).
ToolCallsAnswered ==
  \A k \in DOMAIN works :
    works[k].at = "turn" /\ (\A j \in DOMAIN works : ~works[j].inline /\ works[j].at # "aborted") =>
      \A i \in DOMAIN messages : messages[i] = "calls" =>
        i < Len(messages) /\ messages[i + 1] = "results"

\* No accepted prompt goes unanswered, no call goes without its results, a busy
\* loop has somebody to set it idle, and prompt keeps to one task.
PromptsAnswered ==
  /\ TypeOK /\ OneTask /\ JoinedPromptIsAnswered
  /\ BusyIsOwned /\ ToolCallsAnswered

\* The model is asked with all the steering there is, and not after an abort.
TurnsObey == [][AbortStopsTurns /\ SteeringIsReadEachTurn]_vars
=============================================================================
