---------------------------- MODULE SubagentRuns ----------------------------
(***************************************************************************)
(* tools/subagent.py: the runs of child agents a SubagentRunManager keeps, *)
(* the calls of the subagent tool that start, await and stop them, and the *)
(* SupervisorInbox through which a child waits for an answer.              *)
(*                                                                         *)
(* A run is an asyncio task; run[r].at is where it awaits. Cancelling the  *)
(* task only marks it: CancelledError is delivered when it is next resumed *)
(* and until then nothing else happens in it. The semaphore of a group is  *)
(* the number of its runs past the await; which waiter it wakes is left    *)
(* open. status and _snapshot only read and have no action.                *)
(***************************************************************************)
EXTENDS Integers, Sequences, FiniteSets

CONSTANTS
  Runs,         \* run ids the manager may hand out
  Calls,        \* concurrent calls of the tool, by any parent
  Limits,       \* values of request.concurrency
  MaxContacts,  \* bound: requests put in the inbox
  MaxMail       \* bound: steering messages unread at a time

BoundsAssumption ==
  Limits \subseteq Nat \ {0} /\ MaxContacts \in Nat /\ MaxMail \in Nat

VARIABLES
  chat,     \* the children serve a chat turn: progress is published
  run,      \* _runs: one _RunRecord per started run
  inbox,    \* SupervisorInbox._requests in order, with their waiters
  call,     \* runs each call of the tool awaits, {} when it awaits none
  process,  \* "up", "closing" while close gathers, "closed"
  listed    \* the operations close collected

vars == <<chat, run, inbox, call, process, listed>>
-----------------------------------------------------------------------------
Unstarted ==
  [status |-> "queued", at |-> "none", cancelled |-> FALSE, loop |-> FALSE,
   peers |-> {}, limit |-> 1, mail |-> 0, outcome |-> "none", told |-> {}]

Init ==
  /\ chat \in BOOLEAN
  /\ run = [r \in Runs |-> Unstarted]
  /\ inbox = <<>>
  /\ call = [c \in Calls |-> {}]
  /\ process = "up"
  /\ listed = {}

\* Mutant of Started: the id of a finished run is given out again.
StartedUndone == {r \in Runs : run[r].at \notin {"none", "done"}}

Started == {r \in Runs : run[r].at # "none"}
Done(r) == run[r].at = "done"
Undone  == {r \in Started : ~Done(r)}

\* Past the semaphore: inside _runner.
Holding == {"announcing", "prompting", "reporting"}

\* Mutant of Free: one run too many gets in.
FreeForOneMore(r) ==
  Cardinality({p \in run[r].peers : run[p].at \in Holding}) <= run[r].limit

\* Mutant of Free: the last slot is never given.
FreeOneShort(r) ==
  Cardinality({p \in run[r].peers : run[p].at \in Holding}) + 1 < run[r].limit

Free(r) ==
  Cardinality({p \in run[r].peers : run[p].at \in Holding}) < run[r].limit

\* Runs a run id or a group id stands for.
Targets == {{r} : r \in Started} \cup {run[r].peers : r \in Started}

\* What a status or wait call on a group answers.
GroupStatus(on) ==
  LET statuses == {run[r].status : r \in on}
  IN IF statuses \subseteq {"completed"} THEN "completed"
     ELSE IF statuses \cap {"running", "queued"} # {} THEN "running"
     ELSE IF "failed" \in statuses THEN "failed"
     ELSE "stopped"
-----------------------------------------------------------------------------
(* What becomes of a record; a set where the environment decides.          *)

\* Mutant of Settle: the status is not written at the end.
SettleUnwritten(rec, outcome) ==
  {[rec EXCEPT !.at = "done", !.cancelled = FALSE]}

\* The operation ends: _capture_result may fail to write its files.
Settle(rec, outcome) ==
  {[rec EXCEPT !.at = "done", !.status = o, !.cancelled = FALSE] :
     o \in {outcome, "failed"}}

\* Mutant of Leave: a chat is not told the outcome.
LeaveSilently(rec, outcome) == Settle(rec, outcome)

\* Mutant of Leave: a child that fails, or is aborted, is prompted again.
LeaveRetrying(rec, outcome) ==
  IF outcome = "failed" THEN {[rec EXCEPT !.cancelled = FALSE]}
  ELSE Settle(rec, outcome)

\* run_subagent leaves _run_subagent: in a chat it tells the outcome first.
Leave(rec, outcome) ==
  IF chat
  THEN {[rec EXCEPT !.at = "reporting", !.outcome = outcome, !.cancelled = FALSE]}
  ELSE Settle(rec, outcome)

\* _run_subagent up to its await; an unknown agent fails before the loop exists.
SetUp(rec) ==
  {[rec EXCEPT !.at = "prompting", !.loop = TRUE]} \cup Leave(rec, "failed")

Admit(rec) ==
  IF chat THEN {[rec EXCEPT !.at = "announcing"]} ELSE SetUp(rec)

\* Mutant of Marked: operation.cancel() only when there is no loop to abort.
MarkedUnlessLooping(rec) == [rec EXCEPT !.cancelled = rec.at # "done" /\ ~rec.loop]

\* operation.cancel(), unless done.
Marked(rec) == [rec EXCEPT !.cancelled = rec.at # "done"]
-----------------------------------------------------------------------------
(* Calls of the subagent tool.                                             *)

\* _start for every task of the request; a foreground call awaits them.
Start(c, S, limit, background) ==
  /\ call[c] = {}
  /\ S \subseteq Runs \ Started
  /\ run' = [r \in Runs |->
       IF r \in S
       THEN [Unstarted EXCEPT !.at = "created", !.peers = S, !.limit = limit]
       ELSE run[r]]
  /\ call' = [call EXCEPT ![c] = IF background THEN {} ELSE S]
  /\ UNCHANGED <<chat, inbox, process, listed>>

RunOne(c) ==
  \E r \in Runs, background \in BOOLEAN : Start(c, {r}, 1, background)

RunAll(c) ==
  \E S \in SUBSET Runs, limit \in Limits, background \in BOOLEAN :
    IsFiniteSet(S) /\ Cardinality(S) > 1 /\ Start(c, S, limit, background)

Wait(c) ==
  /\ call[c] = {}
  /\ \E on \in Targets : call' = [call EXCEPT ![c] = on]
  /\ UNCHANGED <<chat, run, inbox, process, listed>>

\* The awaited operations are over, however they ended.
Return(c) ==
  /\ call[c] # {}
  /\ \A r \in call[c] : Done(r)
  /\ call' = [call EXCEPT ![c] = {}]
  /\ UNCHANGED <<chat, run, inbox, process, listed>>

\* The caller's own loop is cancelled. _wait awaits the operations themselves,
\* so they are cancelled with it, whoever else waits.
CancelCall(c) ==
  /\ call[c] # {}
  /\ run' = [r \in Runs |-> IF r \in call[c] THEN Marked(run[r]) ELSE run[r]]
  /\ UNCHANGED <<chat, inbox, call, process, listed>>

Stop ==
  /\ \E on \in Targets :
       run' = [r \in Runs |->
         IF r \in on THEN [Marked(run[r]) EXCEPT !.status = "stopped"] ELSE run[r]]
  /\ UNCHANGED <<chat, inbox, call, process, listed>>

\* A loop takes messages also when its run is over.
Steer ==
  /\ \E on \in Targets :
       /\ \E r \in on : run[r].loop
       /\ \A r \in on : run[r].mail < MaxMail
       /\ run' = [r \in Runs |->
            IF r \in on /\ run[r].loop THEN [run[r] EXCEPT !.mail = @ + 1]
            ELSE run[r]]
  /\ UNCHANGED <<chat, inbox, call, process, listed>>
-----------------------------------------------------------------------------
(* One run.                                                                *)

Live(r, where) == run[r].at = where /\ ~run[r].cancelled

Becomes(r, recs) == \E rec \in recs : run' = [run EXCEPT ![r] = rec]

\* status becomes "running" before the semaphore is asked for.
Begin(r) ==
  /\ Live(r, "created")
  /\ LET rec == [run[r] EXCEPT !.status = "running"]
     IN Becomes(r, IF Free(r) THEN Admit(rec) ELSE {[rec EXCEPT !.at = "slot"]})
  /\ UNCHANGED <<chat, inbox, call, process, listed>>

Enter(r) ==
  /\ Live(r, "slot")
  /\ Free(r)
  /\ Becomes(r, Admit(run[r]))
  /\ UNCHANGED <<chat, inbox, call, process, listed>>

\* _publish_chat_progress "running", then the set-up.
Announce(r) ==
  /\ Live(r, "announcing")
  /\ Becomes(r, SetUp([run[r] EXCEPT !.told = @ \cup {"running"}]))
  /\ UNCHANGED <<chat, inbox, call, process, listed>>

Waiting(r) == \E q \in DOMAIN inbox : inbox[q].run = r /\ inbox[q].waiting

\* The next turn of the child's loop drains the queues.
Turn(r) ==
  /\ Live(r, "prompting")
  /\ ~Waiting(r)
  /\ run[r].mail > 0
  /\ run' = [run EXCEPT ![r].mail = 0]
  /\ UNCHANGED <<chat, inbox, call, process, listed>>

Finish(r) ==
  /\ Live(r, "prompting")
  /\ ~Waiting(r)
  /\ \E outcome \in {"completed", "failed"} : Becomes(r, Leave(run[r], outcome))
  /\ UNCHANGED <<chat, inbox, call, process, listed>>

\* _publish_chat_progress with the outcome, then the rest of the operation.
Report(r) ==
  /\ Live(r, "reporting")
  /\ Becomes(r, Settle([run[r] EXCEPT !.told = @ \cup {run[r].outcome}],
                       run[r].outcome))
  /\ UNCHANGED <<chat, inbox, call, process, listed>>

\* CancelledError. A task that never began ends with its status as it was; one
\* inside prompt gets AgentAbortedError, an Exception; the others are stopped.
Deliver(r) ==
  /\ run[r].cancelled
  /\ \/ /\ run[r].at = "created"
        /\ Becomes(r, {[run[r] EXCEPT !.at = "done", !.cancelled = FALSE]})
     \/ /\ run[r].at \in {"slot", "announcing", "reporting"}
        /\ Becomes(r, {[run[r] EXCEPT !.at = "done", !.status = "stopped",
                                      !.cancelled = FALSE]})
     \/ /\ run[r].at = "prompting"
        /\ Becomes(r, Leave(run[r], "failed"))
  /\ inbox' = [q \in DOMAIN inbox |->
       IF inbox[q].run = r THEN [inbox[q] EXCEPT !.waiting = FALSE] ELSE inbox[q]]
  /\ UNCHANGED <<chat, call, process, listed>>
-----------------------------------------------------------------------------
(* The inbox.                                                              *)

\* Mutant of Posted: a progress update is left pending.
PostedPending(r, blocking) ==
  [run |-> r, status |-> "pending", waiting |-> blocking]

Posted(r, blocking) ==
  [run |-> r, status |-> IF blocking THEN "pending" ELSE "replied",
   waiting |-> blocking]

\* contact: a decision or an interview waits, a progress update does not.
Contact(r) ==
  /\ Live(r, "prompting")
  /\ Len(inbox) < MaxContacts
  /\ \E blocking \in BOOLEAN : inbox' = Append(inbox, Posted(r, blocking))
  /\ UNCHANGED <<chat, run, call, process, listed>>

\* reply, by the endpoint or by the subagent_supervisor tool of a parent; a
\* second one raises and changes nothing.
Reply(q) ==
  /\ inbox[q].status = "pending"
  /\ inbox' = [inbox EXCEPT ![q].status = "replied"]
  /\ UNCHANGED <<chat, run, call, process, listed>>

\* Mutant of Resume: reply does not set the event.
ResumeUnset(q) ==
  /\ inbox[q].waiting
  /\ inbox[q].status = "unset"
  /\ inbox' = [inbox EXCEPT ![q].waiting = FALSE]
  /\ UNCHANGED <<chat, run, call, process, listed>>

\* The event is set, the child goes on.
Resume(q) ==
  /\ inbox[q].waiting
  /\ inbox[q].status = "replied"
  /\ ~run[inbox[q].run].cancelled
  /\ inbox' = [inbox EXCEPT ![q].waiting = FALSE]
  /\ UNCHANGED <<chat, run, call, process, listed>>
-----------------------------------------------------------------------------
\* close lists what runs now; a parent still at work may start more.
Close ==
  /\ process = "up"
  /\ process' = "closing"
  /\ listed' = Undone
  /\ run' = [r \in Runs |-> IF r \in Undone THEN Marked(run[r]) ELSE run[r]]
  /\ UNCHANGED <<chat, inbox, call>>

CloseReturns ==
  /\ process = "closing"
  /\ \A r \in listed : Done(r)
  /\ process' = "closed"
  /\ UNCHANGED <<chat, run, inbox, call, listed>>

RunStep(r) ==
  Begin(r) \/ Enter(r) \/ Announce(r) \/ Turn(r) \/ Finish(r) \/ Report(r) \/ Deliver(r)

Next ==
  \/ \E c \in Calls : RunOne(c) \/ RunAll(c) \/ Wait(c) \/ Return(c) \/ CancelCall(c)
  \/ Stop \/ Steer
  \/ \E r \in Runs : RunStep(r) \/ Contact(r)
  \/ \E q \in DOMAIN inbox : Reply(q) \/ Resume(q)
  \/ Close \/ CloseReturns

\* The event loop resumes what can go on; the provider ends a child's turns
\* sooner or later. Nobody has to answer the inbox.
Fairness ==
  /\ \A r \in Runs :
       /\ WF_vars(Begin(r)) /\ WF_vars(Announce(r)) /\ WF_vars(Report(r))
       /\ WF_vars(Deliver(r)) /\ SF_vars(Enter(r)) /\ SF_vars(Finish(r))
  /\ \A q \in 1..MaxContacts : WF_vars(q \in DOMAIN inbox /\ Resume(q))
  /\ \A c \in Calls : WF_vars(Return(c))
  /\ WF_vars(CloseReturns)

Spec == Init /\ [][Next]_vars
FairSpec == Spec /\ Fairness
=============================================================================
