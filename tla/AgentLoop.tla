------------------------------ MODULE AgentLoop ------------------------------
(***************************************************************************)
(* agent_loop/loop.py: one AgentLoop with its messages, its two queues and *)
(* the callers of prompt, continue_run and abort.                          *)
(*                                                                         *)
(* works is every _run of the loop, the tasks of prompt and the runs       *)
(* continue_run makes inline in its caller. A _run is suspended in a model *)
(* turn or in its tools; everything between two such awaits is one step.   *)
(* Messages are their kinds; the events sink and usage are left out.       *)
(***************************************************************************)
EXTENDS Integers, Sequences, SequencesExt

CONSTANTS
  Callers,       \* coroutines that prompt or continue the loop
  MaxWorks,      \* bound: runs of the loop
  MaxMessages,   \* bound: messages when the next model turn is asked for
  MaxQueued      \* bound: length of each queue

BoundsAssumption ==
  {MaxWorks, MaxMessages, MaxQueued} \subseteq Nat /\ "nobody" \notin Callers

VARIABLES
  messages,   \* _messages, by kind
  steering,   \* _steering: number of messages
  followups,  \* _followups: who queued each, "nobody" when nobody awaits it
  abort,      \* _abort
  idle,       \* _idle
  works,      \* every _run so far: inline, where it awaits, cancel requested
  task,       \* _task: index of the last run prompt started, 0 if none
  caller      \* what each caller awaits: prompt's own run, one it joined, ...

vars == <<messages, steering, followups, abort, idle, works, task, caller>>
-----------------------------------------------------------------------------
Free == [at |-> "idle", work |-> 0, cancelled |-> FALSE]

Init ==
  /\ messages = <<>>
  /\ steering = 0
  /\ followups = <<>>
  /\ abort = FALSE
  /\ idle = TRUE
  /\ works = <<>>
  /\ task = 0
  /\ caller = [c \in Callers |-> Free]

Ends == {"returned", "failed", "aborted"}
Over(k) == works[k].at \in Ends

\* Mutant of Running: a run that waits for its tools is not running.
RunningInTurn == task # 0 /\ works[task].at \in {"created", "turn"}

\* self._task is not None and not self._task.done()
Running == task # 0 /\ ~Over(task)

\* Mutant of TurnBegins: steering waits for the run to end.
TurnBeginsUnsteered(k, said) ==
  /\ works' = [works EXCEPT ![k].at = IF abort THEN "aborted" ELSE "turn"]
  /\ messages' = said
  /\ steering' = steering

\* Mutant of TurnBegins: the flag is not looked at.
TurnBeginsAnyway(k, said) ==
  /\ works' = [works EXCEPT ![k].at = "turn"]
  /\ messages' = said \o [i \in 1..steering |-> "user"]
  /\ steering' = 0

\* The top of the loop, up to the model call: an abort ends the run, otherwise
\* the steering queue is drained into the messages.
TurnBegins(k, said) ==
  /\ works' = [works EXCEPT ![k].at = IF abort THEN "aborted" ELSE "turn"]
  /\ messages' = IF abort THEN said ELSE said \o [i \in 1..steering |-> "user"]
  /\ steering' = IF abort THEN steering ELSE 0
-----------------------------------------------------------------------------
(* Callers.                                                                *)

\* prompt while a run is under way queues a follow-up and awaits that run.
JoinPrompt(c) ==
  /\ caller[c].at = "idle" /\ Running
  /\ Len(followups) < MaxQueued
  /\ followups' = Append(followups, c)
  /\ caller' = [caller EXCEPT ![c] = [Free EXCEPT !.at = "joined", !.work = task]]
  /\ UNCHANGED <<messages, steering, abort, idle, works, task>>

Prompt(c) ==
  /\ caller[c].at = "idle" /\ ~Running
  /\ Len(works) < MaxWorks
  /\ abort' = FALSE
  /\ idle' = FALSE
  /\ works' = Append(works, [inline |-> FALSE, at |-> "created", cancelled |-> FALSE])
  /\ task' = Len(works) + 1
  /\ caller' = [caller EXCEPT ![c] =
       [Free EXCEPT !.at = "prompting", !.work = Len(works) + 1]]
  /\ UNCHANGED <<messages, steering, followups>>

\* continue_run awaits a run of prompt; without one it runs inline, and _task
\* does not tell of it.
JoinContinue(c) ==
  /\ caller[c].at = "idle" /\ Running
  /\ caller' = [caller EXCEPT ![c] = [Free EXCEPT !.at = "awaiting", !.work = task]]
  /\ UNCHANGED <<messages, steering, followups, abort, idle, works, task>>

Continue(c) ==
  /\ caller[c].at = "idle" /\ ~Running
  /\ Len(works) < MaxWorks
  /\ abort' = FALSE
  /\ idle' = FALSE
  /\ works' = Append(works, [inline |-> TRUE, at |-> "turn", cancelled |-> FALSE])
  /\ messages' = messages \o [i \in 1..(1 + steering) |-> "user"]
  /\ steering' = 0
  /\ caller' = [caller EXCEPT ![c] =
       [Free EXCEPT !.at = "continuing", !.work = Len(works) + 1]]
  /\ UNCHANGED <<followups, task>>

\* Cancelling a caller cancels the run it awaits, also one it only joined.
CancelCaller(c) ==
  /\ caller[c].at # "idle"
  /\ caller' = [caller EXCEPT ![c].cancelled = TRUE]
  /\ works' = [works EXCEPT ![caller[c].work].cancelled = ~Over(caller[c].work)]
  /\ UNCHANGED <<messages, steering, followups, abort, idle, task>>

\* Mutant of CallerResumes: _idle is set only after a normal return.
CallerResumesIdleOnReturn(c) ==
  /\ caller[c].at # "idle"
  /\ Over(caller[c].work)
  /\ caller' = [caller EXCEPT ![c] = Free]
  /\ idle' = (idle \/ (caller[c].at = "prompting" /\ works[caller[c].work].at = "returned"))
  /\ UNCHANGED <<messages, steering, followups, abort, works, task>>

\* The await is over; the finally clauses of prompt and continue_run set _idle.
CallerResumes(c) ==
  /\ caller[c].at # "idle"
  /\ Over(caller[c].work)
  /\ caller' = [caller EXCEPT ![c] = Free]
  /\ idle' = (idle \/ caller[c].at \in {"prompting", "continuing"})
  /\ UNCHANGED <<messages, steering, followups, abort, works, task>>

Steer ==
  /\ steering < MaxQueued
  /\ steering' = steering + 1
  /\ UNCHANGED <<messages, followups, abort, idle, works, task, caller>>

FollowUp ==
  /\ Len(followups) < MaxQueued
  /\ followups' = Append(followups, "nobody")
  /\ UNCHANGED <<messages, steering, abort, idle, works, task, caller>>

\* abort cancels the task of prompt; an inline run sees the flag at its next turn.
Abort ==
  /\ ~abort
  /\ abort' = TRUE
  /\ works' = IF Running THEN [works EXCEPT ![task].cancelled = TRUE] ELSE works
  /\ UNCHANGED <<messages, steering, followups, idle, task, caller>>
-----------------------------------------------------------------------------
(* One run.                                                                *)

Live(k, where) == works[k].at = where /\ ~works[k].cancelled

Begin(k) ==
  /\ Live(k, "created")
  /\ TurnBegins(k, Append(messages, "user"))
  /\ UNCHANGED <<followups, abort, idle, task, caller>>

\* CancelledError at the await; the messages stay as they are.
Cancelled(k) ==
  /\ works[k].cancelled
  /\ works' = [works EXCEPT ![k].at = "aborted", ![k].cancelled = FALSE]
  /\ UNCHANGED <<messages, steering, followups, abort, idle, task, caller>>

\* Mutant of LastLook: the run returns without a look at the queue.
LastLookSkipped == TRUE

\* The look at the queue and the return are one step.
LastLook == followups = <<>>

FinalAnswer(k) ==
  /\ Live(k, "turn")
  /\ \/ /\ LastLook
        /\ works' = [works EXCEPT ![k].at = "returned"]
        /\ messages' = Append(messages, "assistant")
        /\ UNCHANGED <<steering, followups>>
     \/ /\ followups # <<>>
        /\ followups' = Tail(followups)
        /\ TurnBegins(k, messages \o <<"assistant", "user">>)
  /\ UNCHANGED <<abort, idle, task, caller>>

\* pause_turn
Pause(k) ==
  /\ Live(k, "turn")
  /\ TurnBegins(k, messages \o <<"assistant", "user">>)
  /\ UNCHANGED <<followups, abort, idle, task, caller>>

CallTools(k) ==
  /\ Live(k, "turn")
  /\ messages' = Append(messages, "calls")
  /\ works' = [works EXCEPT ![k].at = "tools"]
  /\ UNCHANGED <<steering, followups, abort, idle, task, caller>>

\* The provider raises, or answers with neither an end nor a tool call.
ModelFails(k) ==
  /\ Live(k, "turn")
  /\ works' = [works EXCEPT ![k].at = "failed"]
  /\ messages' \in {messages, Append(messages, "assistant")}
  /\ UNCHANGED <<steering, followups, abort, idle, task, caller>>

\* Mutant of ToolsAnswer: when a tool raises the results are dropped.
ToolsAnswerOrNot(k) ==
  /\ Live(k, "tools")
  /\ \/ TurnBegins(k, Append(messages, "results"))
     \/ TurnBegins(k, messages)
  /\ UNCHANGED <<followups, abort, idle, task, caller>>

\* gather: a tool that raises becomes an error result, none is left out.
ToolsAnswer(k) ==
  /\ Live(k, "tools")
  /\ TurnBegins(k, Append(messages, "results"))
  /\ UNCHANGED <<followups, abort, idle, task, caller>>

WorkStep(k) ==
  Begin(k) \/ Cancelled(k) \/ FinalAnswer(k) \/ Pause(k) \/ CallTools(k)
    \/ ModelFails(k) \/ ToolsAnswer(k)

Next ==
  \/ \E c \in Callers :
       \/ JoinPrompt(c) \/ Prompt(c) \/ JoinContinue(c) \/ Continue(c)
       \/ CancelCaller(c) \/ CallerResumes(c)
  \/ Steer \/ FollowUp \/ Abort
  \/ \E k \in DOMAIN works : Len(messages) < MaxMessages /\ WorkStep(k)

Spec == Init /\ [][Next]_vars
=============================================================================
