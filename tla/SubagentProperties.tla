------------------------- MODULE SubagentProperties -------------------------
(* What the runs of child agents and their inbox promise.                  *)
EXTENDS SubagentRuns

Where == {"none", "created", "slot", "done"} \cup Holding
Outcome == {"completed", "failed"}
Status == {"queued", "running", "stopped"} \cup Outcome

RunRecord ==
  [status : Status, at : Where, cancelled : BOOLEAN, loop : BOOLEAN,
   peers : SUBSET Runs, limit : Nat \ {0}, mail : Nat,
   outcome : Outcome \cup {"none"}, told : SUBSET (Outcome \cup {"running"})]

Request == [run : Runs, status : {"pending", "replied"}, waiting : BOOLEAN]

\* The types of the records, the inbox and the calls.
TypeOK ==
  /\ chat \in BOOLEAN
  /\ run \in [Runs -> RunRecord]
  /\ inbox \in Seq(Request)
  /\ call \in [Calls -> SUBSET Runs]
  /\ process \in {"up", "closing", "closed"}
  /\ listed \subseteq Runs

\* A status can be believed: an outcome means the operation is over, "stopped"
\* that it is over or about to end, and a finished run never reads "running".
\* Only a run cancelled before its first step keeps "queued" (_stop writes its
\* status beside an operation that still unwinds). A group reads settled only
\* when each of its runs is over or about to end.
StatusTellsOperation ==
  /\ \A on \in Targets : GroupStatus(on) # "running" =>
       \A r \in on : Done(r) \/ run[r].cancelled \/ run[r].at = "reporting"
  /\ \A r \in Started :
       /\ run[r].status \in Outcome => Done(r)
       /\ run[r].status = "running" => ~Done(r) /\ run[r].at # "created"
       /\ run[r].status = "stopped" =>
            Done(r) \/ run[r].cancelled
            \/ (run[r].at = "reporting" /\ run[r].outcome = "failed")
       /\ run[r].status = "queued" =>
            run[r].at \in {"created", "done"} /\ ~run[r].loop /\ run[r].told = {}

\* No more runs of a group are past its semaphore than request.concurrency.
SlotsRespected ==
  \A r \in Started :
    Cardinality({p \in run[r].peers : run[p].at \in Holding}) <= run[r].limit

\* The inbox and the children agree: a child waits for a request only inside its
\* prompt, and a request stays pending without a waiter only when the prompt it
\* was made in has been aborted.
RequestsAccounted ==
  \A q \in DOMAIN inbox :
    /\ inbox[q].waiting => run[inbox[q].run].at = "prompting"
    /\ inbox[q].status = "pending" /\ ~inbox[q].waiting =>
         run[inbox[q].run].at \in {"reporting", "done"}

\* The conversation is told one outcome of a child at most, "completed" of every
\* child that completed, and never "failed" of one that did.
ProgressAgrees ==
  \A r \in Runs :
    /\ ~Outcome \subseteq run[r].told
    /\ chat /\ run[r].status = "completed" =>
         run[r].told = {"running", "completed"}

\* What the records, the inbox, the slots and the chat say of a child agrees
\* with its operation, wherever a stop, a cancellation or an error met it.
ChildrenAccounted ==
  /\ TypeOK
  /\ StatusTellsOperation /\ SlotsRespected /\ RequestsAccounted /\ ProgressAgrees

\* A run that reads "stopped" never reads "completed" later, at whatever await
\* the stop met it.
StoppedNeverCompletes ==
  [][\A r \in Runs : run[r].status = "stopped" => run'[r].status # "completed"]_vars

\* After the end of its operation a record changes only by a stop.
SettledOnlyStops ==
  [][\A r \in Runs : Done(r) =>
       run'[r].at = "done" /\ run'[r].status \in {run[r].status, "stopped"}]_vars

\* A stopped child never reads completed later, and what has ended changes only
\* by a stop.
ChildrenSettle == StoppedNeverCompletes /\ SettledOnlyStops

\* A cancelled run ends, wherever it was.
CancelTakesEffect == \A r \in Runs : run[r].cancelled ~> Done(r)

\* An answer sets the child free again.
AnswerResumes ==
  \A q \in 1..MaxContacts :
    (q \in DOMAIN inbox /\ inbox[q].status = "replied")
      ~> (q \in DOMAIN inbox /\ ~inbox[q].waiting)

\* Nothing but a child waiting for an unanswered request can hold a caller for
\* ever: one of the runs it awaits (a foreground call and its child may wait for
\* each other) or one that keeps the slot of its group.
CallsReturn ==
  \A c \in Calls :
    call[c] # {} ~>
      (call[c] = {} \/ \E r \in call[c] : \E p \in run[r].peers : Waiting(p))

\* close ends.
CloseEnds == process = "closing" ~> process = "closed"
=============================================================================
