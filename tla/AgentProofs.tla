----------------------------- MODULE AgentProofs -----------------------------
(***************************************************************************)
(* Child agents and the agent loop, proved for every set of runs and       *)
(* callers, every limit and any number of messages: SubagentProperties and *)
(* AgentLoopProperties.                                                    *)
(***************************************************************************)
EXTENDS Agents, FiniteSetTheorems, SequenceTheorems, TLAPS
-----------------------------------------------------------------------------
(* Child agents. A record is sound by itself; the runs of a group agree on *)
(* who is in it, which is what its semaphore counts.                       *)

Outcome == {"completed", "failed"}

\* What a record of a child may look like, in a chat or in a task.
Sound(inChat, rec) ==
  /\ rec \in Children!RunRecord
  /\ rec.status \in Outcome => rec.at = "done"
  /\ rec.status = "running" => rec.at \notin {"none", "created", "done"}
  /\ rec.status = "stopped" =>
       rec.at = "done" \/ rec.cancelled \/ (rec.at = "reporting" /\ rec.outcome = "failed")
  /\ rec.status = "queued" =>
       rec.at \in {"none", "created", "done"} /\ ~rec.loop /\ rec.told = {}
  /\ rec.at \in {"none", "done"} => ~rec.cancelled
  /\ rec.at = "none" => rec.status = "queued"
  /\ rec.at \in {"announcing", "reporting"} => inChat
  /\ rec.at = "reporting" => rec.outcome \in Outcome
  /\ rec.at # "done" =>
       rec.told = IF inChat /\ rec.at \in {"prompting", "reporting"} THEN {"running"} ELSE {}
  /\ ~Outcome \subseteq rec.told
  /\ inChat /\ rec.status = "completed" => rec.told = {"running", "completed"}

\* What ends stays ended, and what was stopped is not completed after all.
Settles(before, after) ==
  /\ before.status = "stopped" => after.status # "completed"
  /\ before.at = "done" => after.at = "done" /\ after.status \in {before.status, "stopped"}

AllSound == \A r \in Runs : Sound(chat, run[r])

\* A group is the same for all its runs, and is finite.
GroupsAgree ==
  \A r \in Children!Started :
    /\ r \in run[r].peers /\ IsFiniteSet(run[r].peers)
    /\ \A p \in run[r].peers :
         p \in Children!Started /\ run[p].peers = run[r].peers /\ run[p].limit = run[r].limit

CallsStarted == \A c \in Calls : call[c] \subseteq Children!Started

ChildrenInv ==
  /\ Children!TypeOK /\ AllSound /\ GroupsAgree /\ CallsStarted
  /\ Children!SlotsRespected /\ Children!RequestsAccounted

Settle == \A r \in Runs : Settles(run[r], run'[r])

\* The runs of a set that hold a slot.
HoldingIn(S) == {p \in S : run[p].at \in Children!Holding}

SlotsHeld(r) == HoldingIn(run[r].peers)

LEMMA SlotsMeans ==
  /\ Children!SlotsRespected <=>
       \A r \in Children!Started : Cardinality(SlotsHeld(r)) <= run[r].limit
  /\ Children!SlotsRespected' <=>
       \A r \in Children!Started' : Cardinality(SlotsHeld(r)') <= run'[r].limit
  /\ \A r : Children!Free(r) <=> Cardinality(SlotsHeld(r)) < run[r].limit
BY DEF Children!SlotsRespected, Children!Free, SlotsHeld, HoldingIn, Children!Cardinality, Cardinality

LEMMA HoldingIsFinite ==
  ASSUME NEW S, IsFiniteSet(S)
  PROVE  /\ IsFiniteSet(HoldingIn(S)) /\ Cardinality(HoldingIn(S)) \in Nat
         /\ IsFiniteSet(HoldingIn(S)') /\ Cardinality(HoldingIn(S)') \in Nat
<1>1. HoldingIn(S) \subseteq S /\ HoldingIn(S)' \subseteq S
  BY DEF HoldingIn
<1>2. QED BY <1>1, FS_Subset, FS_CardinalityType

\* The semaphore: whoever enters only where there is room respects the limit.
LEMMA SlotsKept ==
  ASSUME NEW S, IsFiniteSet(S), NEW limit \in Nat, Cardinality(HoldingIn(S)) <= limit,
         NEW r, \/ HoldingIn(S)' \subseteq HoldingIn(S)
                \/ /\ Cardinality(HoldingIn(S)) < limit
                   /\ HoldingIn(S)' \subseteq HoldingIn(S) \cup {r}
  PROVE  Cardinality(HoldingIn(S)') <= limit
<1>1. /\ IsFiniteSet(HoldingIn(S)) /\ Cardinality(HoldingIn(S)) \in Nat
      /\ Cardinality(HoldingIn(S)') \in Nat
  BY HoldingIsFinite
<1>2. CASE HoldingIn(S)' \subseteq HoldingIn(S)
  <2>1. Cardinality(HoldingIn(S)') <= Cardinality(HoldingIn(S))
    BY <1>1, <1>2, FS_Subset
  <2>2. QED BY <1>1, <2>1
<1>3. CASE /\ Cardinality(HoldingIn(S)) < limit
           /\ HoldingIn(S)' \subseteq HoldingIn(S) \cup {r}
  <2> DEFINE more == HoldingIn(S) \cup {r}
  <2>1. /\ IsFiniteSet(more)
        /\ Cardinality(more) = Cardinality(HoldingIn(S)) \/ Cardinality(more) = Cardinality(HoldingIn(S)) + 1
    BY <1>1, FS_AddElement
  <2>2. Cardinality(HoldingIn(S)') <= Cardinality(more)
    BY <1>3, <2>1, FS_Subset
  <2>3. QED BY <1>1, <1>3, <2>1, <2>2
<1>4. QED BY <1>2, <1>3

LEMMA ChildrenInit ==
  ASSUME Children!BoundsAssumption, Children!Init
  PROVE  ChildrenInv
<1>1. Children!Unstarted \in Children!RunRecord
  BY DEF Children!Unstarted, Children!RunRecord, Children!Status, Children!Where, Children!Holding,
         Children!Outcome
<1>2. Sound(chat, Children!Unstarted)
  BY <1>1 DEF Sound, Children!Unstarted, Outcome
<1>3. Children!TypeOK
  BY <1>1 DEF Children!Init, Children!TypeOK
<1>4. AllSound
  BY <1>2 DEF Children!Init, AllSound
<1>5. Children!Started = {}
  BY DEF Children!Init, Children!Started, Children!Unstarted
<1>6. GroupsAgree /\ CallsStarted /\ Children!SlotsRespected /\ Children!RequestsAccounted
  BY <1>5 DEF Children!Init, GroupsAgree, CallsStarted, Children!SlotsRespected,
              Children!RequestsAccounted
<1>7. QED BY <1>3, <1>4, <1>6 DEF ChildrenInv

LEMMA RequestType ==
  ASSUME Children!TypeOK
  PROVE  \A q \in DOMAIN inbox :
           inbox[q] \in Children!Request /\ inbox[q].run \in Runs
<1>1. \A q \in DOMAIN inbox : inbox[q] \in Children!Request
  BY DEF Children!TypeOK
<1>2. QED BY <1>1 DEF Children!Request

\* A step that changes no place, group or limit of a run: a stop, a message, or
\* a call or the shutdown that marks runs.
LEMMA MarksKeep ==
  ASSUME ChildrenInv, run' \in [Runs -> Children!RunRecord],
         \A r \in Runs : /\ Sound(chat, run'[r]) /\ run'[r].at = run[r].at
                         /\ run'[r].peers = run[r].peers /\ run'[r].limit = run[r].limit
                         /\ run'[r].status \in {run[r].status, "stopped"},
         UNCHANGED <<chat, inbox>>, call' \in [Calls -> SUBSET Children!Started],
         process' \in {"up", "closing", "closed"}, listed' \subseteq Runs
  PROVE  ChildrenInv' /\ Settle
<1>1. Children!Started' = Children!Started
  BY DEF Children!Started
<1>2. Children!Started \subseteq Runs
  BY DEF Children!Started
<1>3. Children!TypeOK'
  BY <1>2 DEF ChildrenInv, Children!TypeOK
<1>4. AllSound'
  BY DEF AllSound
<1>5. GroupsAgree'
  BY <1>1, <1>2 DEF ChildrenInv, GroupsAgree
<1>6. CallsStarted'
  BY <1>1 DEF CallsStarted
<1>7. Children!SlotsRespected'
  <2>1. \A r \in Children!Started : run[r].peers \subseteq Runs
    BY <1>2 DEF ChildrenInv, GroupsAgree
  <2>2. \A r \in Children!Started : SlotsHeld(r)' = SlotsHeld(r) /\ run'[r].limit = run[r].limit
    BY <1>2, <2>1 DEF SlotsHeld, HoldingIn
  <2>3. QED BY <1>1, <2>2, SlotsMeans DEF ChildrenInv
<1>8. Children!RequestsAccounted'
  <2>1. \A q \in DOMAIN inbox : inbox[q].run \in Runs
    BY RequestType DEF ChildrenInv
  <2>2. QED BY <2>1 DEF ChildrenInv, Children!RequestsAccounted
<1>9. Settle
  BY DEF Settle, Settles
<1>10. QED BY <1>3, <1>4, <1>5, <1>6, <1>7, <1>8, <1>9 DEF ChildrenInv

\* A step of one run. Its requests follow it: they wait only in its prompt.
LEMMA RunMoves ==
  ASSUME ChildrenInv, NEW r \in Children!Started, NEW rec, Sound(chat, rec),
         rec.at # "none", rec.peers = run[r].peers, rec.limit = run[r].limit,
         rec.at \in Children!Holding => run[r].at \in Children!Holding \/ Children!Free(r),
         Settles(run[r], rec), run' = [run EXCEPT ![r] = rec],
         UNCHANGED <<chat, call, process, listed>>,
         inbox' \in Seq(Children!Request), Children!RequestsAccounted'
  PROVE  ChildrenInv' /\ Settle
<1>1. r \in Runs /\ Children!Started \subseteq Runs
  BY DEF Children!Started
<1>2. run'[r] = rec /\ \A q \in Runs \ {r} : run'[q] = run[q]
  BY <1>1 DEF ChildrenInv, Children!TypeOK
<1>3. Children!Started' = Children!Started
  BY <1>2 DEF Children!Started
<1>4. rec \in Children!RunRecord
  BY DEF Sound
<1>5. Children!TypeOK'
  BY <1>1, <1>4 DEF ChildrenInv, Children!TypeOK
<1>6. AllSound'
  BY <1>2 DEF ChildrenInv, AllSound
<1>7. \A q \in Runs : run'[q].peers = run[q].peers /\ run'[q].limit = run[q].limit
  BY <1>2
<1>8. GroupsAgree'
  BY <1>1, <1>3, <1>7 DEF ChildrenInv, GroupsAgree
<1>9. CallsStarted'
  BY <1>3 DEF ChildrenInv, CallsStarted
<1>10. Children!SlotsRespected'
  <2> SUFFICES ASSUME NEW q \in Children!Started
               PROVE  Cardinality(SlotsHeld(q)') <= run'[q].limit
    BY <1>3, SlotsMeans
  <2> PICK S : S = run[q].peers
    OBVIOUS
  <2>1. /\ q \in Runs /\ IsFiniteSet(S) /\ S \subseteq Runs /\ run[q].limit \in Nat
        /\ \A p \in S : run[p].peers = S /\ run[p].limit = run[q].limit
    BY <1>1 DEF ChildrenInv, GroupsAgree, Children!TypeOK, Children!RunRecord
  <2>2. SlotsHeld(q) = HoldingIn(S) /\ SlotsHeld(q)' = HoldingIn(S)'
    BY <1>7, <2>1 DEF SlotsHeld, HoldingIn
  <2>3. Cardinality(HoldingIn(S)) <= run[q].limit
    BY <2>2, SlotsMeans DEF ChildrenInv
  <2>4. \/ HoldingIn(S)' \subseteq HoldingIn(S)
        \/ /\ Cardinality(HoldingIn(S)) < run[q].limit
           /\ HoldingIn(S)' \subseteq HoldingIn(S) \cup {r}
    <3>1. HoldingIn(S)' \subseteq HoldingIn(S) \cup {r}
      BY <1>2, <2>1 DEF HoldingIn
    <3>2. CASE r \notin S \/ rec.at \notin Children!Holding \/ run[r].at \in Children!Holding
      BY <1>2, <2>1, <3>2 DEF HoldingIn
    <3>3. CASE r \in S /\ Children!Free(r)
      <4>1. run[r].peers = S /\ run[r].limit = run[q].limit
        BY <2>1, <3>3
      <4>2. Cardinality(HoldingIn(S)) < run[q].limit
        BY <3>3, <4>1, SlotsMeans DEF SlotsHeld
      <4>3. QED BY <3>1, <4>2
    <3>4. QED BY <3>2, <3>3
  <2>5. QED BY <1>7, <2>1, <2>2, <2>3, <2>4, SlotsKept
<1>11. Settle
  BY <1>2 DEF Settle, Settles
<1>12. QED BY <1>5, <1>6, <1>8, <1>9, <1>10, <1>11 DEF ChildrenInv

\* No request is made or answered, and a run leaves its prompt with none that waits.
LEMMA RequestsStay ==
  ASSUME ChildrenInv, NEW r \in Children!Started, NEW rec, run' = [run EXCEPT ![r] = rec],
         run[r].at # "done", UNCHANGED inbox,
         run[r].at = "prompting" =>
           rec.at = "prompting" \/ (~Children!Waiting(r) /\ rec.at \in {"reporting", "done"}),
         run[r].at = "reporting" => rec.at = "done"
  PROVE  inbox' \in Seq(Children!Request) /\ Children!RequestsAccounted'
<1>1. r \in Runs /\ inbox' \in Seq(Children!Request)
  BY DEF Children!Started, ChildrenInv, Children!TypeOK
<1>2. run'[r] = rec /\ \A p \in Runs \ {r} : run'[p] = run[p]
  BY <1>1 DEF ChildrenInv, Children!TypeOK
<1>3. QED
  BY <1>1, <1>2, RequestType DEF ChildrenInv, Children!RequestsAccounted, Children!Waiting


\* What a step makes of a record, kept together: the new one is sound and of the
\* same group, and nothing that had ended goes on.
Follows(before, after) ==
  /\ Sound(chat, after) /\ after.at # "none"
  /\ after.peers = before.peers /\ after.limit = before.limit
  /\ Settles(before, after)

LEMMA SettleFollows ==
  ASSUME NEW rec \in Children!RunRecord, NEW outcome \in Outcome, rec.at # "done",
         rec.status = "stopped" => outcome = "failed",
         ~Outcome \subseteq rec.told,
         chat /\ outcome = "completed" => rec.told = {"running", "completed"},
         NEW new \in Children!Settle(rec, outcome)
  PROVE  Follows(rec, new) /\ new.at = "done"
<1>1. PICK o \in {outcome, "failed"} :
        new = [rec EXCEPT !.at = "done", !.status = o, !.cancelled = FALSE]
  BY DEF Children!Settle
<1>2. /\ new \in Children!RunRecord /\ new.at = "done" /\ new.status = o /\ new.cancelled = FALSE
      /\ new.told = rec.told /\ new.peers = rec.peers /\ new.limit = rec.limit
  BY <1>1 DEF Children!RunRecord, Children!Where, Children!Status, Children!Outcome, Outcome
<1>3. o \in Outcome
  BY DEF Outcome
<1>4. QED BY <1>2, <1>3 DEF Follows, Sound, Settles, Outcome

LEMMA LeaveFollows ==
  ASSUME chat \in BOOLEAN, NEW rec \in Children!RunRecord, NEW outcome \in Outcome,
         rec.at # "done", rec.status \in {"running", "stopped"},
         rec.status = "stopped" => outcome = "failed",
         rec.told = IF chat THEN {"running"} ELSE {},
         NEW new \in Children!Leave(rec, outcome)
  PROVE  Follows(rec, new) /\ new.at \in {"reporting", "done"}
<1>1. CASE chat
  <2>1. new = [rec EXCEPT !.at = "reporting", !.outcome = outcome, !.cancelled = FALSE]
    BY <1>1 DEF Children!Leave
  <2>2. /\ new \in Children!RunRecord /\ new.at = "reporting" /\ new.outcome = outcome
        /\ new.cancelled = FALSE /\ new.status = rec.status /\ new.told = rec.told
        /\ new.peers = rec.peers /\ new.limit = rec.limit
    BY <2>1 DEF Children!RunRecord, Children!Where, Children!Holding, Children!Outcome, Outcome
  <2>3. QED BY <1>1, <2>2 DEF Follows, Sound, Settles, Outcome
<1>2. CASE ~chat
  <2>1. new \in Children!Settle(rec, outcome)
    BY <1>2 DEF Children!Leave
  <2>2. QED BY <1>2, <2>1, SettleFollows DEF Outcome
<1>3. QED BY <1>1, <1>2

LEMMA SetUpFollows ==
  ASSUME chat \in BOOLEAN, NEW rec \in Children!RunRecord, rec.status = "running",
         ~rec.cancelled, rec.at \notin {"none", "done"},
         rec.told = IF chat THEN {"running"} ELSE {},
         NEW new \in Children!SetUp(rec)
  PROVE  Follows(rec, new)
<1>1. CASE new = [rec EXCEPT !.at = "prompting", !.loop = TRUE]
  <2>1. /\ new \in Children!RunRecord /\ new.at = "prompting" /\ new.cancelled = rec.cancelled
        /\ new.status = rec.status /\ new.told = rec.told
        /\ new.peers = rec.peers /\ new.limit = rec.limit
    BY <1>1 DEF Children!RunRecord, Children!Where, Children!Holding
  <2>2. QED BY <2>1 DEF Follows, Sound, Settles, Outcome
<1>2. CASE new \in Children!Leave(rec, "failed")
  <2>1. "failed" \in Outcome
    BY DEF Outcome
  <2>2. QED BY <1>2, <2>1, LeaveFollows
<1>3. QED BY <1>1, <1>2 DEF Children!SetUp

LEMMA AdmitFollows ==
  ASSUME chat \in BOOLEAN, NEW rec \in Children!RunRecord, rec.status = "running",
         ~rec.cancelled, rec.at \notin {"none", "done"}, rec.told = {},
         NEW new \in Children!Admit(rec)
  PROVE  Follows(rec, new)
<1>1. CASE chat
  <2>1. new = [rec EXCEPT !.at = "announcing"]
    BY <1>1 DEF Children!Admit
  <2>2. /\ new \in Children!RunRecord /\ new.at = "announcing" /\ new.cancelled = rec.cancelled
        /\ new.status = rec.status /\ new.told = rec.told
        /\ new.peers = rec.peers /\ new.limit = rec.limit
    BY <2>1 DEF Children!RunRecord, Children!Where, Children!Holding
  <2>3. QED BY <1>1, <2>2 DEF Follows, Sound, Settles, Outcome
<1>2. CASE ~chat
  BY <1>2, SetUpFollows DEF Children!Admit
<1>3. QED BY <1>1, <1>2

\* How a run is cancelled, stopped or written to.
LEMMA MarkFollows ==
  ASSUME NEW rec, Sound(chat, rec), rec.at # "none"
  PROVE  /\ Follows(rec, Children!Marked(rec)) /\ Children!Marked(rec).at = rec.at
         /\ Children!Marked(rec).status = rec.status
         /\ LET new == [Children!Marked(rec) EXCEPT !.status = "stopped"]
            IN  Follows(rec, new) /\ new.at = rec.at /\ new.status = "stopped"
         /\ LET new == [rec EXCEPT !.mail = rec.mail + 1]
            IN  Follows(rec, new) /\ new.at = rec.at /\ new.status = rec.status
<1> DEFINE marked == [rec EXCEPT !.cancelled = rec.at # "done"]
           stopped == [marked EXCEPT !.status = "stopped"]
           mailed == [rec EXCEPT !.mail = rec.mail + 1]
<1>1. rec \in Children!RunRecord
  BY DEF Sound
<1>2. /\ marked \in Children!RunRecord /\ marked.cancelled = (rec.at # "done")
      /\ marked.at = rec.at /\ marked.status = rec.status /\ marked.told = rec.told
      /\ marked.peers = rec.peers /\ marked.limit = rec.limit
      /\ marked.outcome = rec.outcome /\ marked.loop = rec.loop
  BY <1>1 DEF Children!RunRecord
<1>3. /\ stopped \in Children!RunRecord /\ stopped.cancelled = (rec.at # "done")
      /\ stopped.at = rec.at /\ stopped.status = "stopped" /\ stopped.told = rec.told
      /\ stopped.peers = rec.peers /\ stopped.limit = rec.limit /\ stopped.outcome = rec.outcome
  BY <1>1 DEF Children!RunRecord, Children!Status
<1>4. /\ mailed \in Children!RunRecord /\ mailed.cancelled = rec.cancelled
      /\ mailed.at = rec.at /\ mailed.status = rec.status /\ mailed.told = rec.told
      /\ mailed.peers = rec.peers /\ mailed.limit = rec.limit
      /\ mailed.outcome = rec.outcome /\ mailed.loop = rec.loop
  BY <1>1 DEF Children!RunRecord
<1> HIDE DEF marked, stopped, mailed
<1>5. Follows(rec, marked) /\ Follows(rec, stopped) /\ Follows(rec, mailed)
  BY <1>2, <1>3, <1>4 DEF Follows, Sound, Settles, Outcome
<1>6. QED BY <1>2, <1>3, <1>4, <1>5 DEF marked, stopped, mailed, Children!Marked


\* A run that is not over, its record and its requests.
LEMMA LiveRun ==
  ASSUME ChildrenInv, NEW r \in Runs, run[r].at # "none"
  PROVE  /\ r \in Children!Started /\ run[r] \in Children!RunRecord /\ Sound(chat, run[r])
         /\ chat \in BOOLEAN /\ run[r].cancelled \in BOOLEAN
<1>1. r \in Children!Started /\ Sound(chat, run[r]) /\ chat \in BOOLEAN
  BY DEF Children!Started, ChildrenInv, AllSound, Children!TypeOK
<1>2. QED BY <1>1 DEF Sound, Children!RunRecord

\* RunMoves for a step that leaves the inbox alone.
LEMMA RunFollows ==
  ASSUME ChildrenInv, NEW r \in Runs, run[r].at \notin {"none", "done"}, NEW rec,
         Follows(run[r], rec), run' = [run EXCEPT ![r] = rec],
         rec.at \in Children!Holding => run[r].at \in Children!Holding \/ Children!Free(r),
         run[r].at = "prompting" =>
           rec.at = "prompting" \/ (~Children!Waiting(r) /\ rec.at \in {"reporting", "done"}),
         run[r].at = "reporting" => rec.at = "done",
         UNCHANGED <<chat, inbox, call, process, listed>>
  PROVE  ChildrenInv' /\ Settle
<1>1. r \in Children!Started
  BY LiveRun
<1>2. inbox' \in Seq(Children!Request) /\ Children!RequestsAccounted'
  BY <1>1, RequestsStay
<1>3. QED BY <1>1, <1>2, RunMoves DEF Follows

\* What a record that is not cancelled reads where its run awaits.
LEMMA LiveReads ==
  ASSUME ChildrenInv, NEW r \in Runs, NEW where, Children!Live(r, where), where # "none"
  PROVE  /\ run[r] \in Children!RunRecord /\ run[r].at = where /\ ~run[r].cancelled
         /\ where = "created" => run[r].status = "queued"
         /\ where \in {"slot", "announcing", "prompting"} => run[r].status = "running"
         /\ where = "reporting" =>
              run[r].status \in {"running", "stopped"} /\ run[r].outcome \in Outcome
              /\ (run[r].status = "stopped" => run[r].outcome = "failed")
         /\ where # "done" => run[r].told =
              IF chat /\ where \in {"prompting", "reporting"} THEN {"running"} ELSE {}
         /\ where = "announcing" => chat
<1>1. run[r].at = where /\ ~run[r].cancelled
  BY DEF Children!Live
<1>2. Sound(chat, run[r]) /\ run[r] \in Children!RunRecord /\ chat \in BOOLEAN
  BY <1>1, LiveRun
<1>3. run[r].status \in Outcome \cup {"queued", "running", "stopped"}
  BY <1>2 DEF Children!RunRecord, Children!Status, Children!Outcome, Outcome
<1>4. QED BY <1>1, <1>2, <1>3 DEF Sound

LEMMA BeginKeeps ==
  ASSUME ChildrenInv, NEW r \in Runs, Children!Begin(r)
  PROVE  ChildrenInv' /\ Settle
<1> DEFINE rec == [run[r] EXCEPT !.status = "running"]
           waits == [rec EXCEPT !.at = "slot"]
<1>1. /\ Children!Live(r, "created") /\ UNCHANGED <<chat, inbox, call, process, listed>>
      /\ \E new \in IF Children!Free(r) THEN Children!Admit(rec) ELSE {waits} :
           run' = [run EXCEPT ![r] = new]
  BY DEF Children!Begin, Children!Becomes
<1>2. /\ run[r] \in Children!RunRecord /\ run[r].at = "created" /\ ~run[r].cancelled
      /\ run[r].status = "queued" /\ run[r].told = {} /\ chat \in BOOLEAN
  BY <1>1, LiveReads DEF ChildrenInv, Children!TypeOK
<1>3. /\ rec \in Children!RunRecord /\ rec.at = "created" /\ ~rec.cancelled
      /\ rec.status = "running" /\ rec.told = {}
      /\ rec.peers = run[r].peers /\ rec.limit = run[r].limit
  BY <1>2 DEF Children!RunRecord, Children!Status
<1>4. Follows(run[r], waits) /\ waits.at = "slot"
  <2>1. /\ waits \in Children!RunRecord /\ waits.at = "slot" /\ waits.cancelled = run[r].cancelled
        /\ waits.status = "running" /\ waits.told = {}
        /\ waits.peers = run[r].peers /\ waits.limit = run[r].limit
    BY <1>2 DEF Children!RunRecord, Children!Status, Children!Where, Children!Holding
  <2>2. QED BY <1>2, <2>1 DEF Follows, Sound, Settles, Outcome
<1>5. \A new \in Children!Admit(rec) : Follows(run[r], new)
  <2> TAKE new \in Children!Admit(rec)
  <2> HIDE DEF rec
  <2>1. Follows(rec, new)
    BY <1>2, <1>3, AdmitFollows
  <2>2. QED BY <1>2, <1>3, <2>1 DEF Follows, Settles
<1> HIDE DEF rec, waits
<1>6. PICK new \in IF Children!Free(r) THEN Children!Admit(rec) ELSE {waits} :
        run' = [run EXCEPT ![r] = new]
  BY <1>1
<1>7. /\ Follows(run[r], new)
      /\ new.at \in Children!Holding => Children!Free(r)
  BY <1>4, <1>5 DEF Children!Holding
<1>8. QED BY <1>1, <1>2, <1>6, <1>7, RunFollows

LEMMA EnterKeeps ==
  ASSUME ChildrenInv, NEW r \in Runs, Children!Enter(r)
  PROVE  ChildrenInv' /\ Settle
<1>1. /\ Children!Live(r, "slot") /\ Children!Free(r)
      /\ UNCHANGED <<chat, inbox, call, process, listed>>
  BY DEF Children!Enter
<1>2. PICK new \in Children!Admit(run[r]) : run' = [run EXCEPT ![r] = new]
  BY DEF Children!Enter, Children!Becomes
<1>3. /\ run[r] \in Children!RunRecord /\ run[r].at = "slot" /\ ~run[r].cancelled
      /\ run[r].status = "running" /\ run[r].told = {} /\ chat \in BOOLEAN
  BY <1>1, LiveReads DEF ChildrenInv, Children!TypeOK
<1>4. Follows(run[r], new)
  BY <1>3, AdmitFollows
<1>5. QED BY <1>1, <1>2, <1>3, <1>4, RunFollows

LEMMA AnnounceKeeps ==
  ASSUME ChildrenInv, NEW r \in Runs, Children!Announce(r)
  PROVE  ChildrenInv' /\ Settle
<1> DEFINE rec == [run[r] EXCEPT !.told = run[r].told \cup {"running"}]
<1>1. /\ Children!Live(r, "announcing") /\ UNCHANGED <<chat, inbox, call, process, listed>>
  BY DEF Children!Announce
<1>2. PICK new \in Children!SetUp(rec) : run' = [run EXCEPT ![r] = new]
  BY DEF Children!Announce, Children!Becomes
<1>3. /\ run[r] \in Children!RunRecord /\ run[r].at = "announcing" /\ ~run[r].cancelled
      /\ run[r].status = "running" /\ run[r].told = {} /\ chat \in BOOLEAN
  BY <1>1, LiveReads DEF ChildrenInv, Children!TypeOK
<1>4. /\ rec \in Children!RunRecord /\ rec.at = "announcing" /\ ~rec.cancelled
      /\ rec.status = "running" /\ rec.told = {"running"}
      /\ rec.peers = run[r].peers /\ rec.limit = run[r].limit
  BY <1>3 DEF Children!RunRecord, Children!Outcome
<1> HIDE DEF rec
<1>5. chat
  BY <1>1, LiveReads
<1>6. Follows(rec, new)
  BY <1>3, <1>4, <1>5, SetUpFollows
<1>7. Follows(run[r], new)
  BY <1>3, <1>4, <1>6 DEF Follows, Settles
<1>8. run[r].at \in Children!Holding
  BY <1>3 DEF Children!Holding
<1>9. QED BY <1>1, <1>2, <1>3, <1>7, <1>8, RunFollows


LEMMA TurnKeeps ==
  ASSUME ChildrenInv, NEW r \in Runs, Children!Turn(r)
  PROVE  ChildrenInv' /\ Settle
<1> DEFINE rec == [run[r] EXCEPT !.mail = 0]
<1>1. /\ Children!Live(r, "prompting") /\ run' = [run EXCEPT ![r] = rec]
      /\ UNCHANGED <<chat, inbox, call, process, listed>>
  BY DEF Children!Turn
<1>2. run[r].at = "prompting" /\ Sound(chat, run[r]) /\ run[r] \in Children!RunRecord
  BY <1>1, LiveRun DEF Children!Live
<1>3. /\ rec \in Children!RunRecord /\ rec.at = run[r].at /\ rec.cancelled = run[r].cancelled
      /\ rec.status = run[r].status /\ rec.told = run[r].told /\ rec.outcome = run[r].outcome
      /\ rec.peers = run[r].peers /\ rec.limit = run[r].limit /\ rec.loop = run[r].loop
  BY <1>2 DEF Children!RunRecord
<1> HIDE DEF rec
<1>4. Follows(run[r], rec)
  BY <1>2, <1>3 DEF Follows, Sound, Settles
<1>5. QED BY <1>1, <1>2, <1>3, <1>4, RunFollows

LEMMA FinishKeeps ==
  ASSUME ChildrenInv, NEW r \in Runs, Children!Finish(r)
  PROVE  ChildrenInv' /\ Settle
<1>1. /\ Children!Live(r, "prompting") /\ ~Children!Waiting(r)
      /\ UNCHANGED <<chat, inbox, call, process, listed>>
  BY DEF Children!Finish
<1>2. PICK outcome \in {"completed", "failed"} : \E new \in Children!Leave(run[r], outcome) :
        run' = [run EXCEPT ![r] = new]
  BY DEF Children!Finish, Children!Becomes
<1>3. PICK new \in Children!Leave(run[r], outcome) : run' = [run EXCEPT ![r] = new]
  BY <1>2
<1>4. /\ run[r] \in Children!RunRecord /\ run[r].at = "prompting" /\ ~run[r].cancelled
      /\ run[r].status = "running" /\ run[r].told = (IF chat THEN {"running"} ELSE {})
      /\ chat \in BOOLEAN /\ outcome \in Outcome
  BY <1>1, LiveReads DEF ChildrenInv, Children!TypeOK, Outcome
<1>5. Follows(run[r], new) /\ new.at \in {"reporting", "done"}
  BY <1>4, LeaveFollows
<1>6. run[r].at \in Children!Holding
  BY <1>4 DEF Children!Holding
<1>7. QED BY <1>1, <1>3, <1>4, <1>5, <1>6, RunFollows

LEMMA ReportKeeps ==
  ASSUME ChildrenInv, NEW r \in Runs, Children!Report(r)
  PROVE  ChildrenInv' /\ Settle
<1> DEFINE rec == [run[r] EXCEPT !.told = run[r].told \cup {run[r].outcome}]
<1>1. /\ Children!Live(r, "reporting") /\ UNCHANGED <<chat, inbox, call, process, listed>>
  BY DEF Children!Report
<1>2. PICK new \in Children!Settle(rec, run[r].outcome) : run' = [run EXCEPT ![r] = new]
  BY DEF Children!Report, Children!Becomes
<1>3. /\ run[r] \in Children!RunRecord /\ run[r].at = "reporting"
      /\ run[r].outcome \in Outcome /\ chat \in BOOLEAN
      /\ run[r].status = "stopped" => run[r].outcome = "failed"
  BY <1>1, LiveReads DEF ChildrenInv, Children!TypeOK
<1>4. chat /\ run[r].told = {"running"}
  BY <1>3, LiveRun DEF Sound
<1>5. /\ rec \in Children!RunRecord /\ rec.at = "reporting" /\ rec.status = run[r].status
      /\ rec.told = {"running", run[r].outcome}
      /\ rec.peers = run[r].peers /\ rec.limit = run[r].limit
  BY <1>3, <1>4 DEF Children!RunRecord, Children!Outcome, Outcome
<1>6. ~Outcome \subseteq rec.told
  BY <1>5 DEF Outcome
<1> HIDE DEF rec
<1>7. Follows(rec, new) /\ new.at = "done"
  BY <1>3, <1>5, <1>6, SettleFollows
<1>8. Follows(run[r], new) /\ run[r].at \in Children!Holding
  BY <1>3, <1>5, <1>7 DEF Follows, Settles, Children!Holding
<1>9. QED BY <1>1, <1>2, <1>3, <1>7, <1>8, RunFollows

\* What the inbox holds of a run that is cancelled has no waiter any more.
Released(r) == [q \in DOMAIN inbox |->
  IF inbox[q].run = r THEN [inbox[q] EXCEPT !.waiting = FALSE] ELSE inbox[q]]

LEMMA ReleasedIs ==
  ASSUME Children!TypeOK, NEW r \in Runs
  PROVE  /\ Released(r) \in Seq(Children!Request) /\ DOMAIN Released(r) = DOMAIN inbox
         /\ \A q \in DOMAIN inbox :
              /\ Released(r)[q].run = inbox[q].run /\ Released(r)[q].status = inbox[q].status
              /\ Released(r)[q].waiting <=> inbox[q].waiting /\ inbox[q].run # r
<1>1. inbox \in Seq(Children!Request) /\ DOMAIN inbox = 1 .. Len(inbox) /\ Len(inbox) \in Nat
  BY DEF Children!TypeOK
<1>2. \A q \in DOMAIN inbox : inbox[q] \in Children!Request
  BY RequestType
<1>3. \A q \in DOMAIN inbox : /\ Released(r)[q] \in Children!Request
                              /\ Released(r)[q].run = inbox[q].run
                              /\ Released(r)[q].status = inbox[q].status
                              /\ Released(r)[q].waiting <=> inbox[q].waiting /\ inbox[q].run # r
  BY <1>2 DEF Released, Children!Request
<1>4. Released(r) \in [1 .. Len(inbox) -> Children!Request]
  BY <1>1, <1>3 DEF Released
<1>5. QED BY <1>1, <1>3, <1>4

LEMMA DeliverKeeps ==
  ASSUME ChildrenInv, NEW r \in Runs, Children!Deliver(r)
  PROVE  ChildrenInv' /\ Settle
<1>1. run[r].cancelled /\ inbox' = Released(r) /\ UNCHANGED <<chat, call, process, listed>>
  BY DEF Children!Deliver, Released
<1>2. run[r].at \in {"created", "slot", "announcing", "reporting", "prompting"}
  BY DEF Children!Deliver
<1>3. Sound(chat, run[r]) /\ run[r] \in Children!RunRecord /\ r \in Children!Started
      /\ chat \in BOOLEAN
  BY <1>2, LiveRun
<1>4. run[r].status \in Outcome \cup {"queued", "running", "stopped"}
  BY <1>3 DEF Children!RunRecord, Children!Status, Children!Outcome, Outcome
<1>5. \E rec : /\ run' = [run EXCEPT ![r] = rec] /\ Follows(run[r], rec)
               /\ rec.at \in {"reporting", "done"}
               /\ rec.at = "reporting" => run[r].at = "prompting"
  <2>1. CASE run[r].at = "created"
    <3> DEFINE rec == [run[r] EXCEPT !.at = "done", !.cancelled = FALSE]
    <3>1. run' = [run EXCEPT ![r] = rec]
      BY <2>1 DEF Children!Deliver, Children!Becomes
    <3>2. /\ rec \in Children!RunRecord /\ rec.at = "done" /\ rec.cancelled = FALSE
          /\ rec.status = run[r].status /\ rec.told = run[r].told /\ rec.loop = run[r].loop
          /\ rec.peers = run[r].peers /\ rec.limit = run[r].limit
      BY <1>3 DEF Children!RunRecord, Children!Where
    <3> HIDE DEF rec
    <3>3. Follows(run[r], rec)
      BY <1>3, <1>4, <2>1, <3>2 DEF Follows, Sound, Settles, Outcome
    <3>4. QED BY <3>1, <3>2, <3>3
  <2>2. CASE run[r].at \in {"slot", "announcing", "reporting"}
    <3> DEFINE rec == [run[r] EXCEPT !.at = "done", !.status = "stopped", !.cancelled = FALSE]
    <3>1. run' = [run EXCEPT ![r] = rec]
      BY <2>2 DEF Children!Deliver, Children!Becomes
    <3>2. /\ rec \in Children!RunRecord /\ rec.at = "done" /\ rec.cancelled = FALSE
          /\ rec.status = "stopped" /\ rec.told = run[r].told
          /\ rec.peers = run[r].peers /\ rec.limit = run[r].limit
      BY <1>3 DEF Children!RunRecord, Children!Where, Children!Status
    <3> HIDE DEF rec
    <3>3. Follows(run[r], rec)
      BY <1>3, <1>4, <2>2, <3>2 DEF Follows, Sound, Settles, Outcome
    <3>4. QED BY <3>1, <3>2, <3>3
  <2>3. CASE run[r].at = "prompting"
    <3>1. PICK rec \in Children!Leave(run[r], "failed") : run' = [run EXCEPT ![r] = rec]
      BY <2>3 DEF Children!Deliver, Children!Becomes
    <3>2. /\ run[r].status \in {"running", "stopped"} /\ "failed" \in Outcome
          /\ run[r].told = (IF chat THEN {"running"} ELSE {})
      BY <1>3, <1>4, <2>3 DEF Sound, Outcome
    <3>3. Follows(run[r], rec) /\ rec.at \in {"reporting", "done"}
      BY <1>3, <2>3, <3>2, LeaveFollows
    <3>4. QED BY <2>3, <3>1, <3>3
  <2>4. QED BY <1>2, <2>1, <2>2, <2>3
<1>6. PICK rec : /\ run' = [run EXCEPT ![r] = rec] /\ Follows(run[r], rec)
                 /\ rec.at \in {"reporting", "done"}
                 /\ rec.at = "reporting" => run[r].at = "prompting"
  BY <1>5
<1>7. run'[r] = rec /\ \A p \in Runs \ {r} : run'[p] = run[p]
  BY <1>6 DEF ChildrenInv, Children!TypeOK
<1>8. inbox' \in Seq(Children!Request) /\ Children!RequestsAccounted'
  <2>1. inbox' \in Seq(Children!Request) /\ DOMAIN inbox' = DOMAIN inbox
    BY <1>1, ReleasedIs DEF ChildrenInv
  <2>2. \A q \in DOMAIN inbox :
          /\ inbox'[q].run = inbox[q].run /\ inbox'[q].status = inbox[q].status
          /\ inbox'[q].waiting <=> inbox[q].waiting /\ inbox[q].run # r
          /\ inbox[q].run \in Runs
    BY <1>1, ReleasedIs, RequestType DEF ChildrenInv
  <2>3. \A q \in DOMAIN inbox : inbox[q].run = r \/ run'[inbox[q].run] = run[inbox[q].run]
    BY <1>7, <2>2
  <2>4. \A q \in DOMAIN inbox : inbox[q].run = r =>
          ~inbox'[q].waiting /\ run'[inbox'[q].run].at \in {"reporting", "done"}
    BY <1>6, <1>7, <2>2
  <2>5. \A q \in DOMAIN inbox : inbox[q].run # r =>
          /\ inbox'[q].waiting <=> inbox[q].waiting
          /\ run'[inbox'[q].run] = run[inbox[q].run]
    BY <2>2, <2>3
  <2>6. Children!RequestsAccounted'
    BY <2>1, <2>2, <2>4, <2>5 DEF ChildrenInv, Children!RequestsAccounted
  <2>7. QED BY <2>1, <2>6
<1>9. rec.at \in Children!Holding => run[r].at \in Children!Holding
  BY <1>6 DEF Children!Holding
<1>10. QED BY <1>1, <1>3, <1>6, <1>8, <1>9, RunMoves DEF Follows


\* Steps of the inbox. The runs stay where they are.
LEMMA InboxKeeps ==
  ASSUME ChildrenInv, UNCHANGED <<chat, run, call, process, listed>>,
         inbox' \in Seq(Children!Request), Children!RequestsAccounted'
  PROVE  ChildrenInv' /\ Settle
<1>1. Children!TypeOK' /\ AllSound'
  BY DEF ChildrenInv, Children!TypeOK, AllSound
<1>2. Children!Started' = Children!Started
  BY DEF Children!Started
<1>3. GroupsAgree' /\ CallsStarted'
  BY <1>2 DEF ChildrenInv, GroupsAgree, CallsStarted
<1>4. \A r : SlotsHeld(r)' = SlotsHeld(r)
  BY DEF SlotsHeld, HoldingIn
<1>5. Children!SlotsRespected'
  BY <1>2, <1>4, SlotsMeans DEF ChildrenInv
<1>6. Settle
  BY DEF Settle, Settles
<1>7. QED BY <1>1, <1>3, <1>5, <1>6 DEF ChildrenInv

LEMMA ContactKeeps ==
  ASSUME ChildrenInv, NEW r \in Runs, Children!Contact(r)
  PROVE  ChildrenInv' /\ Settle
<1>1. /\ run[r].at = "prompting" /\ UNCHANGED <<chat, run, call, process, listed>>
  BY DEF Children!Contact, Children!Live
<1>2. PICK blocking \in BOOLEAN : inbox' = Append(inbox, Children!Posted(r, blocking))
  BY DEF Children!Contact
<1>3. PICK new : new = Children!Posted(r, blocking)
  OBVIOUS
<1>4. /\ new \in Children!Request /\ new.run = r /\ new.waiting = blocking
      /\ new.status = "pending" => blocking
  BY <1>3 DEF Children!Posted, Children!Request
<1>5. inbox \in Seq(Children!Request) /\ inbox' = Append(inbox, new)
  BY <1>2, <1>3 DEF ChildrenInv, Children!TypeOK
<1>6. /\ inbox' \in Seq(Children!Request)
      /\ \A q \in DOMAIN inbox' : (q \in DOMAIN inbox /\ inbox'[q] = inbox[q]) \/ inbox'[q] = new
  BY <1>4, <1>5
<1>7. Children!RequestsAccounted'
  BY <1>1, <1>4, <1>6 DEF ChildrenInv, Children!RequestsAccounted
<1>8. QED BY <1>1, <1>6, <1>7, InboxKeeps

LEMMA ReplyKeeps ==
  ASSUME ChildrenInv, NEW q \in DOMAIN inbox, Children!Reply(q) \/ Children!Resume(q)
  PROVE  ChildrenInv' /\ Settle
<1> DEFINE new == IF Children!Reply(q) THEN [inbox[q] EXCEPT !.status = "replied"]
                  ELSE [inbox[q] EXCEPT !.waiting = FALSE]
<1>1. inbox' = [inbox EXCEPT ![q] = new] /\ UNCHANGED <<chat, run, call, process, listed>>
  BY DEF Children!Reply, Children!Resume
<1>2. inbox[q] \in Children!Request /\ inbox[q].run \in Runs
  BY RequestType DEF ChildrenInv
<1>3. inbox[q].status = "pending" \/ (inbox[q].waiting /\ inbox[q].status = "replied")
  BY DEF Children!Reply, Children!Resume
<1>4. /\ new \in Children!Request /\ new.run = inbox[q].run
      /\ new.status = "replied" /\ (new.waiting => inbox[q].waiting)
  BY <1>2, <1>3 DEF Children!Request, Children!Reply, Children!Resume
<1> HIDE DEF new
<1>5. inbox \in Seq(Children!Request)
  BY DEF ChildrenInv, Children!TypeOK
<1>6. inbox' \in Seq(Children!Request) /\ DOMAIN inbox' = DOMAIN inbox /\ inbox'[q] = new
      /\ \A p \in DOMAIN inbox \ {q} : inbox'[p] = inbox[p]
  BY <1>1, <1>4, <1>5, ExceptSeq
<1>7. Children!RequestsAccounted'
  BY <1>1, <1>4, <1>6 DEF ChildrenInv, Children!RequestsAccounted
<1>8. QED BY <1>1, <1>6, <1>7, InboxKeeps


\* Steps over several runs: calls of the tool, stops and the shutdown.
LEMMA BulkKeeps ==
  ASSUME ChildrenInv, run' = [r \in Runs |-> run'[r]],
         \A r \in Runs : \/ run'[r] = run[r]
                         \/ /\ r \in Children!Started /\ Follows(run[r], run'[r])
                            /\ run'[r].at = run[r].at /\ run'[r].status \in {run[r].status, "stopped"},
         UNCHANGED <<chat, inbox>>, call' \in [Calls -> SUBSET Children!Started],
         process' \in {"up", "closing", "closed"}, listed' \subseteq Runs
  PROVE  ChildrenInv' /\ Settle
<1>1. \A r \in Runs : Sound(chat, run[r]) /\ Sound(chat, run'[r])
  BY DEF ChildrenInv, AllSound, Follows
<1>2. \A r \in Runs : /\ run'[r].at = run[r].at /\ run'[r].status \in {run[r].status, "stopped"}
                      /\ run'[r].peers = run[r].peers /\ run'[r].limit = run[r].limit
  BY DEF Follows
<1>3. \A r \in Runs : run'[r] \in Children!RunRecord
  BY <1>1 DEF Sound
<1>4. run' \in [Runs -> Children!RunRecord]
  BY <1>3
<1>5. QED BY <1>1, <1>2, <1>4, MarksKeep

LEMMA FrameTypes ==
  ASSUME ChildrenInv
  PROVE  /\ run \in [Runs -> Children!RunRecord] /\ run = [r \in Runs |-> run[r]]
         /\ call \in [Calls -> SUBSET Children!Started]
         /\ process \in {"up", "closing", "closed"} /\ listed \subseteq Runs
         /\ Children!Started \subseteq Runs /\ Children!Undone \subseteq Children!Started
         /\ \A on \in Children!Targets : on \subseteq Children!Started
         /\ \A r \in Children!Started : /\ Sound(chat, run[r]) /\ run[r].at # "none"
BY DEF ChildrenInv, Children!TypeOK, AllSound, GroupsAgree, CallsStarted, Children!Started,
       Children!Undone, Children!Targets

LEMMA CallKeeps ==
  ASSUME ChildrenInv, NEW c \in Calls, Children!Wait(c) \/ Children!Return(c)
  PROVE  ChildrenInv' /\ Settle
<1>1. UNCHANGED <<chat, run, inbox, process, listed>>
  BY DEF Children!Wait, Children!Return
<1>2. call' \in [Calls -> SUBSET Children!Started]
  BY FrameTypes DEF Children!Wait, Children!Return
<1>3. QED BY <1>1, <1>2, FrameTypes, BulkKeeps

LEMMA StopsKeep ==
  ASSUME ChildrenInv, Children!Stop \/ Children!Steer \/ \E c \in Calls : Children!CancelCall(c)
  PROVE  ChildrenInv' /\ Settle
<1> DEFINE stopped(r) == [Children!Marked(run[r]) EXCEPT !.status = "stopped"]
           mailed(r) == [run[r] EXCEPT !.mail = run[r].mail + 1]
<1>1. UNCHANGED <<chat, inbox, call, process, listed>>
  BY DEF Children!Stop, Children!Steer, Children!CancelCall
<1>2. /\ run' = [r \in Runs |-> run'[r]]
      /\ \A r \in Runs : \/ run'[r] = run[r]
                         \/ /\ r \in Children!Started
                            /\ run'[r] \in {stopped(r), mailed(r), Children!Marked(run[r])}
  <2>1. CASE Children!Stop
    <3>1. PICK on \in Children!Targets :
            run' = [r \in Runs |-> IF r \in on THEN stopped(r) ELSE run[r]]
      BY <2>1 DEF Children!Stop
    <3> HIDE DEF stopped, mailed
    <3>2. QED BY <3>1, FrameTypes
  <2>2. CASE Children!Steer
    <3>1. PICK on \in Children!Targets :
            run' = [r \in Runs |-> IF r \in on /\ run[r].loop THEN mailed(r) ELSE run[r]]
      BY <2>2 DEF Children!Steer
    <3> HIDE DEF stopped, mailed
    <3>2. QED BY <3>1, FrameTypes
  <2>3. CASE \E c \in Calls : Children!CancelCall(c)
    <3>1. PICK c \in Calls :
            run' = [r \in Runs |-> IF r \in call[c] THEN Children!Marked(run[r]) ELSE run[r]]
      BY <2>3 DEF Children!CancelCall
    <3> HIDE DEF stopped, mailed
    <3>2. call[c] \subseteq Children!Started
      BY FrameTypes
    <3>3. QED BY <3>1, <3>2
  <2>4. QED BY <2>1, <2>2, <2>3
<1>3. \A r \in Children!Started :
        \A new \in {stopped(r), mailed(r), Children!Marked(run[r])} :
          /\ Follows(run[r], new) /\ new.at = run[r].at
          /\ new.status \in {run[r].status, "stopped"}
  <2> TAKE r \in Children!Started
  <2>1. Sound(chat, run[r]) /\ run[r].at # "none"
    BY FrameTypes
  <2>2. /\ Follows(run[r], Children!Marked(run[r])) /\ Children!Marked(run[r]).at = run[r].at
        /\ Children!Marked(run[r]).status = run[r].status
    BY <2>1, MarkFollows
  <2>3. Follows(run[r], stopped(r)) /\ stopped(r).at = run[r].at /\ stopped(r).status = "stopped"
    BY <2>1, MarkFollows
  <2>4. Follows(run[r], mailed(r)) /\ mailed(r).at = run[r].at /\ mailed(r).status = run[r].status
    BY <2>1, MarkFollows
  <2> HIDE DEF stopped, mailed
  <2>5. QED BY <2>2, <2>3, <2>4
<1> HIDE DEF stopped, mailed
<1>4. QED BY <1>1, <1>2, <1>3, FrameTypes, BulkKeeps

LEMMA CloseKeeps ==
  ASSUME ChildrenInv, Children!Close \/ Children!CloseReturns
  PROVE  ChildrenInv' /\ Settle
<1>1. CASE Children!Close
  <2>1. /\ run' = [r \in Runs |-> IF r \in Children!Undone THEN Children!Marked(run[r]) ELSE run[r]]
        /\ process' = "closing" /\ listed' = Children!Undone /\ UNCHANGED <<chat, inbox, call>>
    BY <1>1 DEF Children!Close
  <2>2. \A r \in Children!Started :
          LET new == Children!Marked(run[r])
          IN  Follows(run[r], new) /\ new.at = run[r].at /\ new.status = run[r].status
    BY FrameTypes, MarkFollows
  <2>3. \A r \in Runs : \/ run'[r] = run[r]
                        \/ r \in Children!Started /\ run'[r] = Children!Marked(run[r])
    BY <2>1, FrameTypes
  <2>4. QED BY <2>1, <2>2, <2>3, FrameTypes, BulkKeeps
<1>2. CASE Children!CloseReturns
  <2>1. process' = "closed" /\ UNCHANGED <<chat, run, inbox, call, listed>>
    BY <1>2 DEF Children!CloseReturns
  <2>2. QED BY <2>1, FrameTypes, BulkKeeps
<1>3. QED BY <1>1, <1>2

\* A request starts a group of its own.
LEMMA StartKeeps ==
  ASSUME ChildrenInv, NEW c \in Calls, NEW S \in SUBSET Runs, IsFiniteSet(S),
         NEW limit \in Nat \ {0}, NEW background \in BOOLEAN,
         Children!Start(c, S, limit, background)
  PROVE  ChildrenInv' /\ Settle
<1> DEFINE new == [Children!Unstarted EXCEPT !.at = "created", !.peers = S, !.limit = limit]
<1>1. /\ run' = [r \in Runs |-> IF r \in S THEN new ELSE run[r]]
      /\ call' = [call EXCEPT ![c] = IF background THEN {} ELSE S]
      /\ UNCHANGED <<chat, inbox, process, listed>> /\ S \subseteq Runs \ Children!Started
  BY DEF Children!Start
<1>2. /\ new \in Children!RunRecord /\ new.at = "created" /\ new.status = "queued"
      /\ ~new.cancelled /\ ~new.loop /\ new.told = {} /\ new.peers = S /\ new.limit = limit
  BY DEF Children!Unstarted, Children!RunRecord, Children!Where, Children!Status,
         Children!Holding, Children!Outcome
<1> HIDE DEF new
<1>3. Sound(chat, new)
  BY <1>2 DEF Sound, Outcome
<1>4. /\ \A r \in S : run'[r] = new /\ run[r].at = "none"
      /\ \A r \in Runs \ S : run'[r] = run[r]
      /\ Children!Started' = Children!Started \cup S
  BY <1>1, <1>2 DEF Children!Started
<1>5. Children!TypeOK'
  BY <1>1, <1>2 DEF ChildrenInv, Children!TypeOK
<1>6. AllSound'
  BY <1>1, <1>3, <1>4 DEF ChildrenInv, AllSound
<1>7. \A r \in Children!Started :
        r \in Runs \ S /\ run[r].peers \subseteq Runs \ S /\ run[r].peers \subseteq Children!Started
  BY <1>1, FrameTypes DEF ChildrenInv, GroupsAgree
<1>8. GroupsAgree'
  <2>1. \A r \in S : run'[r].peers = S /\ run'[r].limit = limit
    BY <1>2, <1>4
  <2>2. \A r \in Children!Started : run'[r] = run[r]
    BY <1>4, <1>7
  <2>3. QED BY <1>4, <1>7, <2>1, <2>2 DEF ChildrenInv, GroupsAgree
<1>9. CallsStarted'
  BY <1>1, <1>4, FrameTypes DEF ChildrenInv, CallsStarted
<1>10. Children!SlotsRespected'
  <2>1. \A r \in S : Cardinality(SlotsHeld(r)') <= run'[r].limit
    <3> TAKE r \in S
    <3>1. SlotsHeld(r)' = {}
      BY <1>2, <1>4 DEF SlotsHeld, HoldingIn, Children!Holding
    <3>2. run'[r].limit = limit
      BY <1>2, <1>4
    <3>3. QED BY <3>1, <3>2, FS_EmptySet
  <2>2. \A r \in Children!Started : SlotsHeld(r)' = SlotsHeld(r) /\ run'[r].limit = run[r].limit
    BY <1>4, <1>7 DEF SlotsHeld, HoldingIn
  <2>3. QED BY <1>4, <2>1, <2>2, SlotsMeans DEF ChildrenInv
<1>11. Children!RequestsAccounted'
  BY <1>1, <1>4, RequestType DEF ChildrenInv, Children!RequestsAccounted
<1>12. Settle
  <2>1. \A r \in S : Sound(chat, run[r])
    BY DEF ChildrenInv, AllSound
  <2>2. QED BY <1>2, <1>4, <2>1 DEF Settle, Settles, Sound
<1>13. QED BY <1>5, <1>6, <1>8, <1>9, <1>10, <1>11, <1>12 DEF ChildrenInv

LEMMA ChildrenNext ==
  ASSUME Children!BoundsAssumption, ChildrenInv, [Children!Next]_Children!vars
  PROVE  ChildrenInv' /\ Settle
<1>1. CASE UNCHANGED Children!vars
  BY <1>1, FrameTypes, BulkKeeps DEF Children!vars
<1>2. ASSUME NEW c \in Calls, Children!RunOne(c)
      PROVE  ChildrenInv' /\ Settle
  <2>1. PICK r \in Runs, background \in BOOLEAN : Children!Start(c, {r}, 1, background)
    BY <1>2 DEF Children!RunOne
  <2>2. IsFiniteSet({r})
    BY FS_Singleton
  <2>3. QED BY <2>1, <2>2, StartKeeps
<1>3. ASSUME NEW c \in Calls, Children!RunAll(c)
      PROVE  ChildrenInv' /\ Settle
  <2>1. PICK S \in SUBSET Runs, limit \in Limits, background \in BOOLEAN :
          IsFiniteSet(S) /\ Children!Start(c, S, limit, background)
    BY <1>3 DEF Children!RunAll, Children!IsFiniteSet, IsFiniteSet
  <2>2. limit \in Nat \ {0}
    BY DEF Children!BoundsAssumption
  <2>3. QED BY <2>1, <2>2, StartKeeps
<1>4. ASSUME NEW r \in Runs, Children!RunStep(r) \/ Children!Contact(r)
      PROVE  ChildrenInv' /\ Settle
  BY <1>4, BeginKeeps, EnterKeeps, AnnounceKeeps, TurnKeeps, FinishKeeps, ReportKeeps, DeliverKeeps,
     ContactKeeps DEF Children!RunStep
<1>5. QED
  BY <1>1, <1>2, <1>3, <1>4, CallKeeps, StopsKeep, CloseKeeps, ReplyKeeps DEF Children!Next

\* A sound record says of its run what the status promises, and a group whose
\* runs are sound reads settled only when each of them is.
LEMMA InvAccounts ==
  ASSUME ChildrenInv
  PROVE  Children!ChildrenAccounted
<1>1. \A r \in Children!Started :
        /\ Sound(chat, run[r]) /\ r \in Runs
        /\ run[r].status \in {"queued", "running", "stopped", "completed", "failed"}
  BY FrameTypes DEF Sound, Children!RunRecord, Children!Status, Children!Outcome
<1>2. \A r \in Children!Started :
        /\ run[r].status \in Children!Outcome => Children!Done(r)
        /\ run[r].status = "running" => ~Children!Done(r) /\ run[r].at # "created"
        /\ run[r].status = "stopped" =>
             Children!Done(r) \/ run[r].cancelled
             \/ (run[r].at = "reporting" /\ run[r].outcome = "failed")
        /\ run[r].status = "queued" =>
             run[r].at \in {"created", "done"} /\ ~run[r].loop /\ run[r].told = {}
  BY <1>1, FrameTypes DEF Sound, Children!Done, Children!Outcome, Outcome
<1>3. \A on \in Children!Targets : Children!GroupStatus(on) # "running" =>
        \A r \in on : Children!Done(r) \/ run[r].cancelled \/ run[r].at = "reporting"
  <2> TAKE on \in Children!Targets
  <2>1. on \subseteq Children!Started
    BY FrameTypes
  <2>2. ASSUME Children!GroupStatus(on) # "running", NEW r \in on
        PROVE  run[r].status \notin {"queued", "running"}
    BY <2>2 DEF Children!GroupStatus
  <2>3. QED BY <1>1, <1>2, <2>1, <2>2 DEF Children!Outcome
<1>4. Children!StatusTellsOperation
  BY <1>2, <1>3 DEF Children!StatusTellsOperation
<1>5. Children!ProgressAgrees
  BY DEF ChildrenInv, AllSound, Sound, Children!ProgressAgrees, Children!Outcome, Outcome
<1>6. QED BY <1>4, <1>5 DEF ChildrenInv, Children!ChildrenAccounted

\* Wherever a stop, a cancellation, an error or the shutdown meets a child, what
\* its record, the inbox, the slots of its group and the chat say of it agrees
\* with its operation, for groups of any size and any concurrency
\* (ChildrenAccounted of the run agents, over tools/subagent.py).
THEOREM ChildrenCorrect ==
  ASSUME Children!BoundsAssumption
  PROVE  Children!Spec => []ChildrenAccounted
BY ChildrenInit, ChildrenNext, InvAccounts, PTL DEF Children!Spec, ChildrenAccounted

\* What is over changes only by a stop, and what was stopped never completes
\* (ChildrenSettle).
THEOREM ChildrenSettled ==
  ASSUME Children!BoundsAssumption
  PROVE  Children!Spec => ChildrenSettle
<1>1. Settle =>
        /\ \A r \in Runs : run[r].status = "stopped" => run'[r].status # "completed"
        /\ \A r \in Runs : Children!Done(r) =>
             run'[r].at = "done" /\ run'[r].status \in {run[r].status, "stopped"}
  BY DEF Settle, Settles, Children!Done
<1>2. QED
  BY <1>1, ChildrenInit, ChildrenNext, PTL
     DEF Children!Spec, ChildrenSettle, Children!ChildrenSettle, Children!StoppedNeverCompletes,
         Children!SettledOnlyStops

-----------------------------------------------------------------------------
(* The agent loop. Of the runs that prompt started only the last can be    *)
(* under way, and while no run is made inline or cut off it is the only    *)
(* writer of the messages.                                                 *)

\* Only the task of prompt may be under way among its runs.
OnlyTaskIsUnderWay ==
  \A k \in DOMAIN works : ~works[k].inline /\ ~Loop!Over(k) => k = task

Clean == \A k \in DOMAIN works : ~works[k].inline /\ works[k].at # "aborted"
AtTools == \E k \in DOMAIN works : works[k].at = "tools"

\* Every call has its results behind it, the last message excepted while its
\* tools are running.
Answered(list, running) ==
  \A i \in DOMAIN list : list[i] = "calls" =>
    \/ running /\ i = Len(list)
    \/ i < Len(list) /\ list[i + 1] = "results"

CallsAnswered == Clean => Answered(messages, AtTools)

LoopInv ==
  /\ Loop!TypeOK /\ OnlyTaskIsUnderWay /\ CallsAnswered
  /\ Loop!JoinedPromptIsAnswered /\ Loop!BusyIsOwned

LEMMA LoopTypes ==
  ASSUME LoopInv
  PROVE  /\ messages \in Seq(Loop!Kinds) /\ Len(messages) \in Nat
         /\ DOMAIN messages = 1 .. Len(messages) /\ steering \in Nat
         /\ works \in Seq(Loop!Work) /\ Len(works) \in Nat /\ DOMAIN works = 1 .. Len(works)
         /\ task \in 0 .. Len(works)
         /\ \A k \in DOMAIN works : works[k] \in Loop!Work
         /\ \A c \in Callers : caller[c].at # "idle" => caller[c].work \in DOMAIN works
<1>1. messages \in Seq(Loop!Kinds) /\ works \in Seq(Loop!Work)
  BY DEF LoopInv, Loop!TypeOK
<1>2. QED BY <1>1 DEF LoopInv, Loop!TypeOK

\* Messages of n users.
LEMMA UsersType ==
  ASSUME NEW n \in Nat
  PROVE  LET users == [i \in 1 .. n |-> "user"]
         IN  /\ users \in Seq(Loop!Kinds) /\ Len(users) = n
             /\ \A i \in 1 .. n : users[i] = "user"
<1> DEFINE users == [i \in 1 .. n |-> "user"]
<1>1. users \in [1 .. n -> Loop!Kinds]
  BY DEF Loop!Kinds
<1>2. QED BY <1>1

\* What was answered stays so, and what was running is answered by the next message.
LEMMA AnsweredGrows ==
  ASSUME NEW m \in Nat, NEW n \in Nat, m <= n, NEW list, NEW longer,
         NEW before \in BOOLEAN, NEW after \in BOOLEAN,
         DOMAIN list = 1 .. m, Len(list) = m, DOMAIN longer = 1 .. n, Len(longer) = n,
         Answered(list, before), \A i \in 1 .. m : longer[i] = list[i],
         before => m < n /\ longer[m + 1] = "results",
         \A i \in m + 1 .. n : longer[i] = "calls" => after /\ i = n
  PROVE  Answered(longer, after)
<1> SUFFICES ASSUME NEW i \in 1 .. n, longer[i] = "calls"
             PROVE  \/ after /\ i = n
                    \/ i < n /\ longer[i + 1] = "results"
  BY DEF Answered
<1>1. CASE i \in 1 .. m
  <2>1. list[i] = "calls"
    BY <1>1
  <2>2. CASE before /\ i = m
    BY <2>2
  <2>3. CASE i < m /\ list[i + 1] = "results"
    BY <1>1, <2>3
  <2>4. QED BY <1>1, <2>1, <2>2, <2>3 DEF Answered
<1>2. CASE i \in m + 1 .. n
  BY <1>2
<1>3. QED BY <1>1, <1>2

LEMMA LoopInit ==
  ASSUME Loop!BoundsAssumption, Loop!Init
  PROVE  LoopInv
<1>1. messages = <<>> /\ works = <<>> /\ followups = <<>>
  BY DEF Loop!Init
<1>2. Loop!Free \in Loop!CallerState /\ Loop!Free.at = "idle"
  BY DEF Loop!Free, Loop!CallerState
<1>3. Loop!TypeOK
  <2>1. \A S : <<>> \in Seq(S) /\ Len(<<>>) = 0
    BY EmptySeq
  <2>2. task = 0 /\ 0 \in 0 .. Len(works)
    BY <1>1, <2>1 DEF Loop!Init
  <2>3. QED BY <1>1, <1>2, <2>1, <2>2 DEF Loop!Init, Loop!TypeOK
<1>4. QED
  BY <1>1, <1>3 DEF Loop!Init, LoopInv, OnlyTaskIsUnderWay, CallsAnswered, Answered,
     Loop!JoinedPromptIsAnswered, Loop!BusyIsOwned, Loop!Free

\* Steps of callers and of abort that say nothing: no message, no new run.
LEMMA QuietKeeps ==
  ASSUME LoopInv, UNCHANGED <<messages, task>>, steering' \in Nat,
         followups' \in Seq(Callers \cup {"nobody"}), abort' \in BOOLEAN, idle' \in BOOLEAN,
         works' \in Seq(Loop!Work), Len(works') = Len(works),
         \A k \in DOMAIN works : /\ works'[k].at = works[k].at
                                 /\ works'[k].inline = works[k].inline,
         caller' \in [Callers -> Loop!CallerState],
         \A c \in Callers : caller'[c].at # "idle" => caller'[c].work \in DOMAIN works,
         Loop!JoinedPromptIsAnswered', Loop!BusyIsOwned'
  PROVE  LoopInv'
<1>1. DOMAIN works' = DOMAIN works
  BY LoopTypes
<1>2. Loop!TypeOK'
  BY <1>1 DEF LoopInv, Loop!TypeOK
<1>3. OnlyTaskIsUnderWay'
  BY <1>1 DEF LoopInv, OnlyTaskIsUnderWay, Loop!Over
<1>4. (Clean <=> Clean') /\ (AtTools <=> AtTools')
  BY <1>1 DEF Clean, AtTools
<1>5. CallsAnswered'
  BY <1>4 DEF LoopInv, CallsAnswered, Answered
<1>6. QED BY <1>2, <1>3, <1>5 DEF LoopInv


\* A prompt or continue_run that starts a run of its own: no other run of prompt
\* is under way.
LEMMA NewRunKeeps ==
  ASSUME LoopInv, ~Loop!Running, NEW new \in Loop!Work,
         works' = Append(works, new), idle' = FALSE, abort' \in BOOLEAN, UNCHANGED followups,
         IF new.inline THEN task' = task /\ messages' \in Seq(Loop!Kinds)
         ELSE task' = Len(works) + 1 /\ messages' = messages /\ new.at # "tools",
         steering' \in Nat,
         NEW c \in Callers, caller[c].at = "idle",
         NEW how \in {"prompting", "continuing"},
         caller' = [caller EXCEPT ![c] = [Loop!Free EXCEPT !.at = how, !.work = Len(works) + 1]]
  PROVE  LoopInv'
<1>1. /\ works' \in Seq(Loop!Work) /\ Len(works') = Len(works) + 1
      /\ DOMAIN works' = DOMAIN works \cup {Len(works) + 1}
      /\ Len(works) + 1 \notin DOMAIN works /\ works'[Len(works) + 1] = new
      /\ \A k \in DOMAIN works : works'[k] = works[k]
  BY LoopTypes
<1>2. /\ caller' \in [Callers -> Loop!CallerState]
      /\ caller'[c].at = how /\ caller'[c].work = Len(works) + 1
      /\ \A d \in Callers \ {c} : caller'[d] = caller[d]
  <2>1. caller \in [Callers -> Loop!CallerState]
    BY DEF LoopInv, Loop!TypeOK
  <2>2. Len(works) + 1 \in Nat
    BY LoopTypes
  <2>3. QED BY <2>1, <2>2 DEF Loop!CallerState, Loop!Free
<1>3. Loop!TypeOK'
  <2>1. task' \in 0 .. Len(works')
    BY <1>1, LoopTypes
  <2>2. messages' \in Seq(Loop!Kinds)
    BY LoopTypes
  <2>3. QED BY <1>1, <1>2, <2>1, <2>2, LoopTypes DEF LoopInv, Loop!TypeOK
<1>4. \A k \in DOMAIN works : ~works[k].inline => Loop!Over(k)
  BY LoopTypes DEF LoopInv, OnlyTaskIsUnderWay, Loop!Running
<1>5. \A k \in DOMAIN works : Loop!Over(k)' <=> Loop!Over(k)
  BY <1>1 DEF Loop!Over
<1>6. OnlyTaskIsUnderWay'
  BY <1>1, <1>4, <1>5 DEF OnlyTaskIsUnderWay
<1>7. CallsAnswered'
  <2> SUFFICES ASSUME Clean'
               PROVE  Answered(messages, AtTools)'
    BY DEF CallsAnswered
  <2>1. Clean /\ ~new.inline
    BY <1>1 DEF Clean
  <2>2. ~AtTools /\ ~AtTools'
    BY <1>1, <1>4, <2>1 DEF Clean, AtTools, Loop!Over, Loop!Ends
  <2>3. Answered(messages, AtTools)
    BY <2>1 DEF LoopInv, CallsAnswered
  <2>4. QED BY <2>1, <2>2, <2>3 DEF Answered
<1>8. Loop!JoinedPromptIsAnswered'
  <2>1. \A d \in Callers \ {c} : caller[d].at = "joined" => works'[caller[d].work] = works[caller[d].work]
    BY <1>1, LoopTypes
  <2>2. QED BY <1>2, <2>1 DEF LoopInv, Loop!JoinedPromptIsAnswered
<1>9. Loop!BusyIsOwned'
  BY <1>2 DEF Loop!BusyIsOwned
<1>10. QED BY <1>3, <1>6, <1>7, <1>8, <1>9 DEF LoopInv


\* What a step does to the messages, and to the run that takes it.
MessagesGrow ==
  /\ messages' \in Seq(Loop!Kinds) /\ Len(messages) <= Len(messages')
  /\ \A i \in 1 .. Len(messages) : messages'[i] = messages[i]

OnlyMoves(k) ==
  /\ works' \in Seq(Loop!Work) /\ Len(works') = Len(works)
  /\ works'[k].inline = works[k].inline
  /\ \A j \in DOMAIN works \ {k} : works'[j] = works[j]

\* A step of the run k. Its messages answer its tools, and only its new calls
\* are open after it.
LEMMA WorkMoves ==
  ASSUME LoopInv, NEW k \in DOMAIN works, OnlyMoves(k),
         Loop!Over(k) => works'[k].at = "aborted",
         works'[k].at = "returned" => followups = <<>>,
         steering' \in Nat, followups' \in {followups, Tail(followups)},
         followups' # followups => followups # <<>>,
         UNCHANGED <<abort, idle, task, caller>>, MessagesGrow,
         works'[k].at # "aborted" /\ works[k].at = "tools" =>
           Len(messages) < Len(messages') /\ messages'[Len(messages) + 1] = "results",
         works'[k].at # "aborted" =>
           \A i \in Len(messages) + 1 .. Len(messages') :
             messages'[i] = "calls" => works'[k].at = "tools" /\ i = Len(messages')
  PROVE  LoopInv'
<1>1. /\ DOMAIN works' = DOMAIN works /\ works'[k] \in Loop!Work /\ works' \in Seq(Loop!Work)
      /\ \A j \in DOMAIN works \ {k} : works'[j] = works[j]
  BY LoopTypes DEF OnlyMoves
<1>2. followups' \in Seq(Callers \cup {"nobody"})
      /\ Loop!ToSet(followups') \subseteq Loop!ToSet(followups)
  <2>1. followups \in Seq(Callers \cup {"nobody"})
    BY DEF LoopInv, Loop!TypeOK
  <2>2. CASE followups' = followups
    BY <2>1, <2>2
  <2>3. CASE followups # <<>> /\ followups' = Tail(followups)
    BY <2>1, <2>3, HeadTailProperties DEF Loop!ToSet
  <2>4. QED BY <2>2, <2>3
<1>3. Loop!TypeOK'
  BY <1>1, <1>2 DEF LoopInv, Loop!TypeOK, OnlyMoves, MessagesGrow
<1>4. OnlyTaskIsUnderWay'
  <2>1. ~Loop!Over(k)' => ~Loop!Over(k)
    BY DEF Loop!Over, Loop!Ends
  <2>2. QED BY <1>1, <2>1 DEF LoopInv, OnlyTaskIsUnderWay, Loop!Over, OnlyMoves
<1>5. CallsAnswered'
  <2> SUFFICES ASSUME Clean'
               PROVE  Answered(messages, AtTools)'
    BY DEF CallsAnswered
  <2>1. Clean /\ works'[k].at # "aborted"
    <3>1. works'[k].at # "aborted" /\ ~works'[k].inline
      BY <1>1 DEF Clean
    <3>2. works[k].at # "aborted"
      BY <3>1 DEF Loop!Over, Loop!Ends
    <3>3. QED BY <1>1, <3>1, <3>2 DEF Clean, OnlyMoves
  <2>2. \A j \in DOMAIN works \ {k} : Loop!Over(j) /\ works[j].at # "tools"
    <3>1. ~Loop!Over(k)
      BY <2>1
    <3>2. QED BY <2>1, <3>1 DEF LoopInv, OnlyTaskIsUnderWay, Clean, Loop!Over, Loop!Ends
  <2>3. (AtTools <=> works[k].at = "tools") /\ (AtTools' <=> works'[k].at = "tools")
    BY <1>1, <2>2 DEF AtTools
  <2>4. Answered(messages, AtTools)
    BY <2>1 DEF LoopInv, CallsAnswered
  <2>5. /\ Len(messages) \in Nat /\ DOMAIN messages = 1 .. Len(messages)
        /\ Len(messages') \in Nat /\ DOMAIN messages' = 1 .. Len(messages')
    BY LoopTypes DEF MessagesGrow
  <2>6. PICK list : list = messages
    OBVIOUS
  <2>7. PICK longer : longer = messages'
    OBVIOUS
  <2>8. PICK before \in BOOLEAN : before <=> works[k].at = "tools"
    OBVIOUS
  <2>9. PICK after \in BOOLEAN : after <=> works'[k].at = "tools"
    OBVIOUS
  <2>10. Answered(list, before)
    BY <2>3, <2>4, <2>6, <2>8 DEF Answered
  <2>11. PICK m \in Nat : m = Len(messages)
    BY <2>5
  <2>12. PICK n \in Nat : n = Len(messages')
    BY <2>5
  <2>13. /\ m <= n /\ DOMAIN list = 1 .. m /\ Len(list) = m
         /\ DOMAIN longer = 1 .. n /\ Len(longer) = n
         /\ \A i \in 1 .. m : longer[i] = list[i]
         /\ before => m < n /\ longer[m + 1] = "results"
         /\ \A i \in m + 1 .. n : longer[i] = "calls" => after /\ i = n
    BY <2>1, <2>5, <2>6, <2>7, <2>8, <2>9, <2>11, <2>12 DEF MessagesGrow
  <2>14. Answered(longer, after)
    BY <2>10, <2>13, AnsweredGrows
  <2>15. QED BY <2>3, <2>7, <2>9, <2>14 DEF Answered
<1>6. Loop!JoinedPromptIsAnswered'
  <2>1. ASSUME NEW c \in Callers, caller[c].at = "joined", works'[caller[c].work].at = "returned"
        PROVE  c \notin Loop!ToSet(followups')
    <3>1. caller[c].work \in DOMAIN works
      BY <2>1, LoopTypes
    <3>2. CASE caller[c].work = k
      <4>1. followups = <<>>
        BY <2>1, <3>2
      <4>2. Loop!ToSet(followups) = {}
        BY <4>1 DEF Loop!ToSet
      <4>3. QED BY <1>2, <4>2
    <3>3. CASE caller[c].work # k
      BY <1>1, <1>2, <2>1, <3>1, <3>3 DEF LoopInv, Loop!JoinedPromptIsAnswered
    <3>4. QED BY <3>2, <3>3
  <2>2. QED BY <2>1 DEF Loop!JoinedPromptIsAnswered
<1>7. Loop!BusyIsOwned'
  BY DEF LoopInv, Loop!BusyIsOwned
<1>8. QED BY <1>3, <1>4, <1>5, <1>6, <1>7 DEF LoopInv


\* What TurnsObey says of a step.
Obeys == Loop!AbortStopsTurns /\ Loop!SteeringIsReadEachTurn

\* Beside a step of k nobody else is in a turn, unless a run was made inline.
LEMMA WorkObeys ==
  ASSUME LoopInv, NEW k \in DOMAIN works, OnlyMoves(k), ~Loop!Over(k) \/ messages' = messages,
         works'[k].at = "turn" /\ works[k].at # "turn" => ~abort,
         works'[k].at = "turn" /\ messages' # messages => steering' = 0
  PROVE  Obeys
<1>1. Loop!AbortStopsTurns
  BY DEF OnlyMoves, Loop!AbortStopsTurns
<1>2. ASSUME \A j \in DOMAIN works' : ~works'[j].inline, NEW j \in DOMAIN works,
             works'[j].at = "turn", messages' # messages
      PROVE  steering' = 0
  <2>1. CASE j = k
    BY <1>2, <2>1
  <2>2. CASE j # k
    <3>1. j \in DOMAIN works' /\ k \in DOMAIN works' /\ works'[j] = works[j]
      BY <2>2, LoopTypes DEF OnlyMoves
    <3>2. ~works[j].inline /\ ~works[k].inline /\ ~Loop!Over(j) /\ ~Loop!Over(k)
      BY <1>2, <3>1 DEF OnlyMoves, Loop!Over, Loop!Ends
    <3>3. QED BY <2>2, <3>2 DEF LoopInv, OnlyTaskIsUnderWay
  <2>3. QED BY <2>1, <2>2
<1>3. Loop!SteeringIsReadEachTurn
  BY <1>2 DEF Loop!SteeringIsReadEachTurn
<1>4. QED BY <1>1, <1>3 DEF Obeys

\* The top of the loop: what was said, then the steering there is.
LEMMA TopKeeps ==
  ASSUME LoopInv, NEW k \in DOMAIN works, ~Loop!Over(k),
         NEW said \in Seq(Loop!Kinds), Len(messages) <= Len(said),
         \A i \in 1 .. Len(messages) : said[i] = messages[i],
         \A i \in Len(messages) + 1 .. Len(said) : said[i] # "calls",
         works[k].at = "tools" => Len(messages) < Len(said) /\ said[Len(messages) + 1] = "results",
         Loop!TurnBegins(k, said), followups' \in {followups, Tail(followups)},
         followups' # followups => followups # <<>>,
         UNCHANGED <<abort, idle, task, caller>>
  PROVE  LoopInv' /\ Obeys
<1> DEFINE users == [i \in 1 .. steering |-> "user"]
           new == [works[k] EXCEPT !.at = IF abort THEN "aborted" ELSE "turn"]
<1>1. /\ works' = [works EXCEPT ![k] = new]
      /\ messages' = IF abort THEN said ELSE said \o users
      /\ steering' = IF abort THEN steering ELSE 0
  BY DEF Loop!TurnBegins
<1>2. /\ Len(messages) \in Nat /\ works \in Seq(Loop!Work) /\ works[k] \in Loop!Work
      /\ steering \in Nat /\ k \in 1 .. Len(works) /\ DOMAIN works = 1 .. Len(works)
  BY LoopTypes
<1>3. /\ new \in Loop!Work /\ new.inline = works[k].inline
      /\ new.at = IF abort THEN "aborted" ELSE "turn"
  BY <1>2 DEF Loop!Work, Loop!Ends
<1> HIDE DEF new
<1>4. OnlyMoves(k) /\ works'[k].at = IF abort THEN "aborted" ELSE "turn"
  BY <1>1, <1>2, <1>3, ExceptSeq DEF OnlyMoves
<1>5. users \in Seq(Loop!Kinds) /\ Len(users) = steering /\ \A i \in 1 .. steering : users[i] = "user"
  BY <1>2, UsersType
<1> HIDE DEF users
<1>6. PICK n \in Nat : n = Len(said)
  OBVIOUS
<1>7. /\ messages' \in Seq(Loop!Kinds) /\ Len(messages') \in Nat /\ n <= Len(messages')
      /\ \A i \in 1 .. n : messages'[i] = said[i]
      /\ \A i \in n + 1 .. Len(messages') : messages'[i] = "user"
  <2>1. CASE abort
    BY <1>1, <1>6, <2>1
  <2>2. CASE ~abort
    <3>1. /\ said \o users \in Seq(Loop!Kinds) /\ Len(said \o users) = n + steering
          /\ \A i \in 1 .. n + steering : (said \o users)[i] =
               IF i <= n THEN said[i] ELSE users[i - n]
      BY <1>5, <1>6, ConcatProperties
    <3>2. messages' = said \o users
      BY <1>1, <2>2
    <3>3. \A i \in n + 1 .. n + steering : i - n \in 1 .. steering /\ ~(i <= n) /\ i \in 1 .. n + steering
      BY <1>2
    <3>4. QED BY <1>2, <1>5, <3>1, <3>2, <3>3
  <2>3. QED BY <2>1, <2>2
<1>8. PICK m \in Nat : m = Len(messages)
  BY <1>2
<1>9. m <= n /\ (\A i \in 1 .. m : said[i] = messages[i]) /\ (\A i \in m + 1 .. n : said[i] # "calls")
      /\ (works[k].at = "tools" => m < n /\ said[m + 1] = "results")
  BY <1>6, <1>8
<1>10. MessagesGrow
  <2>1. \A i \in 1 .. m : messages'[i] = messages[i]
    BY <1>7, <1>9
  <2>2. QED BY <1>7, <1>8, <1>9, <2>1 DEF MessagesGrow
<1>11. \A i \in m + 1 .. Len(messages') : messages'[i] # "calls"
  <2>1. \A i \in m + 1 .. Len(messages') : i \in m + 1 .. n \/ i \in n + 1 .. Len(messages')
    BY <1>7
  <2>2. \A i \in m + 1 .. n : i \in 1 .. n
    OBVIOUS
  <2>3. QED BY <1>7, <1>9, <2>1, <2>2
<1>12. works[k].at = "tools" => m < Len(messages') /\ messages'[m + 1] = "results"
  BY <1>7, <1>9
<1>13. steering' \in Nat
  BY <1>1, <1>2
<1>14. LoopInv'
  BY <1>4, <1>8, <1>10, <1>11, <1>12, <1>13, WorkMoves
<1>15. Obeys
  BY <1>1, <1>4, WorkObeys
<1>16. QED BY <1>14, <1>15

\* A step that moves only the run k, to another await or to its end.
MovesTo(k, where) ==
  \/ works' = [works EXCEPT ![k].at = where]
  \/ works' = [works EXCEPT ![k].at = where, ![k].cancelled = FALSE]

LEMMA WorkFollows ==
  ASSUME LoopInv, NEW k \in DOMAIN works,
         NEW where \in {"created", "turn", "tools"} \cup Loop!Ends, MovesTo(k, where)
  PROVE  OnlyMoves(k) /\ works'[k].at = where
<1>1. works \in Seq(Loop!Work) /\ works[k] \in Loop!Work /\ k \in 1 .. Len(works)
  BY LoopTypes
<1>2. PICK new : /\ \/ new = [works[k] EXCEPT !.at = where]
                    \/ new = [works[k] EXCEPT !.at = where, !.cancelled = FALSE]
                 /\ works' = [works EXCEPT ![k] = new]
  BY DEF MovesTo
<1>3. new \in Loop!Work /\ new.inline = works[k].inline /\ new.at = where
  BY <1>1, <1>2 DEF Loop!Work
<1>4. QED BY <1>1, <1>2, <1>3, ExceptSeq, LoopTypes DEF OnlyMoves

\* One message more.
LEMMA SaysOne ==
  ASSUME LoopInv, NEW kind \in Loop!Kinds, messages' = Append(messages, kind)
  PROVE  /\ MessagesGrow /\ Len(messages') = Len(messages) + 1
         /\ messages'[Len(messages) + 1] = kind
BY LoopTypes DEF MessagesGrow

LEMMA BeginsKeep ==
  ASSUME LoopInv, NEW k \in DOMAIN works, Loop!Begin(k)
  PROVE  LoopInv' /\ Obeys
<1> DEFINE said == Append(messages, "user")
<1>1. /\ said \in Seq(Loop!Kinds) /\ Len(said) = Len(messages) + 1 /\ Len(messages) \in Nat
      /\ said[Len(messages) + 1] = "user" /\ \A i \in 1 .. Len(messages) : said[i] = messages[i]
  BY LoopTypes DEF Loop!Kinds
<1>2. ~Loop!Over(k) /\ works[k].at # "tools"
  BY DEF Loop!Begin, Loop!Live, Loop!Over, Loop!Ends
<1>3. Loop!TurnBegins(k, said) /\ UNCHANGED <<followups, abort, idle, task, caller>>
  BY DEF Loop!Begin
<1> HIDE DEF said
<1>4. \A i \in Len(messages) + 1 .. Len(said) : said[i] # "calls"
  BY <1>1
<1>5. QED BY <1>1, <1>2, <1>3, <1>4, TopKeeps

LEMMA AnswersKeep ==
  ASSUME LoopInv, NEW k \in DOMAIN works, Loop!ToolsAnswer(k)
  PROVE  LoopInv' /\ Obeys
<1> DEFINE said == Append(messages, "results")
<1>1. /\ said \in Seq(Loop!Kinds) /\ Len(said) = Len(messages) + 1 /\ Len(messages) \in Nat
      /\ said[Len(messages) + 1] = "results" /\ \A i \in 1 .. Len(messages) : said[i] = messages[i]
  BY LoopTypes DEF Loop!Kinds
<1>2. ~Loop!Over(k)
  BY DEF Loop!ToolsAnswer, Loop!Live, Loop!Over, Loop!Ends
<1>3. Loop!TurnBegins(k, said) /\ UNCHANGED <<followups, abort, idle, task, caller>>
  BY DEF Loop!ToolsAnswer
<1> HIDE DEF said
<1>4. \A i \in Len(messages) + 1 .. Len(said) : said[i] # "calls"
  BY <1>1
<1>5. QED BY <1>1, <1>2, <1>3, <1>4, TopKeeps

\* The turn goes on with another user's message.
LEMMA GoesOn ==
  ASSUME LoopInv, NEW k \in DOMAIN works, Loop!Live(k, "turn"),
         Loop!TurnBegins(k, messages \o <<"assistant", "user">>),
         followups' \in {followups, Tail(followups)}, followups' # followups => followups # <<>>,
         UNCHANGED <<abort, idle, task, caller>>
  PROVE  LoopInv' /\ Obeys
<1> DEFINE two == <<"assistant", "user">>
           said == messages \o two
<1>1. two \in Seq(Loop!Kinds) /\ Len(two) = 2 /\ two[1] = "assistant" /\ two[2] = "user"
  BY DEF Loop!Kinds
<1> HIDE DEF two
<1>2. messages \in Seq(Loop!Kinds) /\ Len(messages) \in Nat
  BY LoopTypes
<1>3. /\ said \in Seq(Loop!Kinds) /\ Len(said) = Len(messages) + 2
      /\ said[Len(messages) + 1] = "assistant" /\ said[Len(messages) + 2] = "user"
      /\ \A i \in 1 .. Len(messages) : said[i] = messages[i]
  <2>1. PICK n \in Nat : n = Len(messages)
    BY <1>2
  <2>2. /\ said \in Seq(Loop!Kinds) /\ Len(said) = n + 2
        /\ \A i \in 1 .. n + 2 : said[i] = IF i <= n THEN messages[i] ELSE two[i - n]
    <3>1. PICK list \in Seq(Loop!Kinds) : list = messages
      BY <1>2
    <3>2. /\ list \o two \in Seq(Loop!Kinds) /\ Len(list \o two) = Len(list) + Len(two)
          /\ \A i \in 1 .. Len(list) + Len(two) : (list \o two)[i] =
               IF i <= Len(list) THEN list[i] ELSE two[i - Len(list)]
      BY <1>1, ConcatProperties
    <3>3. said = list \o two
      BY <3>1
    <3> HIDE DEF said
    <3>4. QED BY <1>1, <2>1, <3>1, <3>2, <3>3
  <2>3. /\ n + 1 \in 1 .. n + 2 /\ n + 2 \in 1 .. n + 2 /\ ~(n + 1 <= n) /\ ~(n + 2 <= n)
        /\ n + 1 - n = 1 /\ n + 2 - n = 2 /\ \A i \in 1 .. n : i \in 1 .. n + 2 /\ i <= n
    OBVIOUS
  <2>4. /\ said[n + 1] = "assistant" /\ said[n + 2] = "user"
        /\ \A i \in 1 .. n : said[i] = messages[i]
    <3> HIDE DEF said
    <3>1. QED BY <1>1, <2>2, <2>3
  <2>5. QED BY <2>1, <2>2, <2>4
<1>4. ~Loop!Over(k) /\ works[k].at # "tools"
  BY DEF Loop!Live, Loop!Over, Loop!Ends
<1>5. Loop!TurnBegins(k, said)
  BY DEF two
<1> HIDE DEF said
<1>6. \A i \in Len(messages) + 1 .. Len(said) : said[i] # "calls"
  <2>1. \A i \in Len(messages) + 1 .. Len(said) : i = Len(messages) + 1 \/ i = Len(messages) + 2
    BY <1>2, <1>3
  <2>2. QED BY <1>3, <2>1
<1>7. Len(messages) <= Len(said)
  BY <1>2, <1>3
<1>8. QED BY <1>3, <1>4, <1>5, <1>6, <1>7, TopKeeps

\* The run takes its last answer, or none.
LEMMA TurnEnds ==
  ASSUME LoopInv, NEW k \in DOMAIN works, Loop!Live(k, "turn"),
         NEW where \in {"returned", "failed"}, MovesTo(k, where),
         where = "returned" => followups = <<>>,
         messages' \in {messages, Append(messages, "assistant")},
         UNCHANGED <<steering, followups, abort, idle, task, caller>>
  PROVE  LoopInv' /\ Obeys
<1>1. OnlyMoves(k) /\ works'[k].at = where
  BY WorkFollows DEF Loop!Ends
<1>2. ~Loop!Over(k) /\ works[k].at # "tools"
  BY DEF Loop!Live, Loop!Over, Loop!Ends
<1>3. MessagesGrow /\ \A i \in Len(messages) + 1 .. Len(messages') : messages'[i] # "calls"
  <2>1. CASE messages' = messages
    BY <2>1, LoopTypes DEF MessagesGrow
  <2>2. CASE messages' = Append(messages, "assistant")
    <3>1. /\ MessagesGrow /\ Len(messages') = Len(messages) + 1
          /\ messages'[Len(messages) + 1] = "assistant"
      BY <2>2, SaysOne DEF Loop!Kinds
    <3>2. \A i \in Len(messages) + 1 .. Len(messages') : i = Len(messages) + 1
      BY <3>1, LoopTypes
    <3>3. QED BY <3>1, <3>2
  <2>3. QED BY <2>1, <2>2
<1>4. LoopInv'
  BY <1>1, <1>2, <1>3, LoopTypes, WorkMoves
<1>5. QED BY <1>1, <1>2, <1>4, WorkObeys

LEMMA CallsKeep ==
  ASSUME LoopInv, NEW k \in DOMAIN works, Loop!CallTools(k)
  PROVE  LoopInv' /\ Obeys
<1>1. OnlyMoves(k) /\ works'[k].at = "tools"
  <2>1. MovesTo(k, "tools")
    BY DEF Loop!CallTools, MovesTo
  <2>2. QED BY <2>1, WorkFollows
<1>2. ~Loop!Over(k) /\ works[k].at # "tools"
  BY DEF Loop!CallTools, Loop!Live, Loop!Over, Loop!Ends
<1>3. MessagesGrow /\ Len(messages') = Len(messages) + 1
  BY SaysOne DEF Loop!CallTools, Loop!Kinds
<1>4. \A i \in Len(messages) + 1 .. Len(messages') : i = Len(messages')
  BY <1>3, LoopTypes
<1>5. LoopInv'
  BY <1>1, <1>2, <1>3, <1>4, LoopTypes, WorkMoves DEF Loop!CallTools
<1>6. QED BY <1>1, <1>2, <1>5, WorkObeys

LEMMA CancelledKeeps ==
  ASSUME LoopInv, NEW k \in DOMAIN works, Loop!Cancelled(k)
  PROVE  LoopInv' /\ Obeys
<1>1. OnlyMoves(k) /\ works'[k].at = "aborted"
  <2>1. MovesTo(k, "aborted")
    BY DEF Loop!Cancelled, MovesTo
  <2>2. QED BY <2>1, WorkFollows DEF Loop!Ends
<1>2. MessagesGrow /\ messages' = messages
  BY LoopTypes DEF Loop!Cancelled, MessagesGrow
<1>3. LoopInv'
  BY <1>1, <1>2, LoopTypes, WorkMoves DEF Loop!Cancelled
<1>4. QED BY <1>1, <1>2, <1>3, WorkObeys

LEMMA WorkKeeps ==
  ASSUME LoopInv, NEW k \in DOMAIN works, Loop!WorkStep(k)
  PROVE  LoopInv' /\ Obeys
<1>1. CASE Loop!FinalAnswer(k)
  <2>1. CASE /\ followups = <<>> /\ works' = [works EXCEPT ![k].at = "returned"]
             /\ messages' = Append(messages, "assistant") /\ UNCHANGED <<steering, followups>>
    <3>1. MovesTo(k, "returned")
      BY <2>1 DEF MovesTo
    <3>2. QED BY <1>1, <2>1, <3>1, TurnEnds DEF Loop!FinalAnswer
  <2>2. CASE /\ followups # <<>> /\ followups' = Tail(followups)
             /\ Loop!TurnBegins(k, messages \o <<"assistant", "user">>)
    BY <1>1, <2>2, GoesOn DEF Loop!FinalAnswer
  <2>3. QED BY <1>1, <2>1, <2>2 DEF Loop!FinalAnswer, Loop!LastLook
<1>2. CASE Loop!Pause(k)
  BY <1>2, GoesOn DEF Loop!Pause
<1>3. CASE Loop!ModelFails(k)
  <2>1. MovesTo(k, "failed")
    BY <1>3 DEF Loop!ModelFails, MovesTo
  <2>2. QED BY <1>3, <2>1, TurnEnds DEF Loop!ModelFails
<1>4. QED BY <1>1, <1>2, <1>3, BeginsKeep, AnswersKeep, CallsKeep, CancelledKeeps
             DEF Loop!WorkStep

\* A step that says nothing and starts nothing obeys.
LEMMA QuietObeys ==
  ASSUME LoopInv, messages' = messages, \A k \in DOMAIN works : works'[k].at = works[k].at
  PROVE  Obeys
BY DEF Obeys, Loop!AbortStopsTurns, Loop!SteeringIsReadEachTurn

LEMMA QueueGrows ==
  ASSUME LoopInv, NEW who \in Callers \cup {"nobody"}, followups' = Append(followups, who)
  PROVE  /\ followups' \in Seq(Callers \cup {"nobody"})
         /\ Loop!ToSet(followups') = Loop!ToSet(followups) \cup {who}
<1>1. followups \in Seq(Callers \cup {"nobody"})
  BY DEF LoopInv, Loop!TypeOK
<1>2. /\ DOMAIN followups' = DOMAIN followups \cup {Len(followups) + 1}
      /\ followups'[Len(followups) + 1] = who
      /\ \A i \in DOMAIN followups : followups'[i] = followups[i]
  BY <1>1
<1>3. QED BY <1>1, <1>2 DEF Loop!ToSet

\* One caller's entry changes.
LEMMA CallerMoves ==
  ASSUME LoopInv, NEW c \in Callers, NEW new \in Loop!CallerState,
         caller' = [caller EXCEPT ![c] = new], new.at # "idle" => new.work \in DOMAIN works
  PROVE  /\ caller' \in [Callers -> Loop!CallerState]
         /\ caller'[c] = new /\ \A d \in Callers \ {c} : caller'[d] = caller[d]
         /\ \A d \in Callers : caller'[d].at # "idle" => caller'[d].work \in DOMAIN works
BY DEF LoopInv, Loop!TypeOK

\* prompt and continue_run beside a run that is under way.
LEMMA JoinsKeep ==
  ASSUME Loop!BoundsAssumption, LoopInv, NEW c \in Callers,
         Loop!JoinPrompt(c) \/ Loop!JoinContinue(c)
  PROVE  LoopInv' /\ Obeys
<1> PICK how \in {"joined", "awaiting"} :
      /\ caller' = [caller EXCEPT ![c] = [Loop!Free EXCEPT !.at = how, !.work = task]]
      /\ \/ how = "joined" /\ followups' = Append(followups, c)
         \/ how = "awaiting" /\ followups' = followups
  BY DEF Loop!JoinPrompt, Loop!JoinContinue
<1> DEFINE new == [Loop!Free EXCEPT !.at = how, !.work = task]
<1>1. /\ caller[c].at = "idle" /\ Loop!Running
      /\ UNCHANGED <<messages, steering, abort, idle, works, task>>
  BY DEF Loop!JoinPrompt, Loop!JoinContinue
<1>2. task \in DOMAIN works /\ task \in Nat /\ ~Loop!Over(task)
  BY <1>1, LoopTypes DEF Loop!Running
<1>3. new \in Loop!CallerState /\ new.at = how /\ new.work = task
  BY <1>2 DEF Loop!CallerState, Loop!Free
<1>4. caller' = [caller EXCEPT ![c] = new]
  OBVIOUS
<1> HIDE DEF new
<1>5. /\ caller' \in [Callers -> Loop!CallerState]
      /\ caller'[c] = new /\ \A d \in Callers \ {c} : caller'[d] = caller[d]
      /\ \A d \in Callers : caller'[d].at # "idle" => caller'[d].work \in DOMAIN works
  BY <1>2, <1>3, <1>4, CallerMoves
<1>6. /\ followups' \in Seq(Callers \cup {"nobody"})
      /\ Loop!ToSet(followups') \subseteq Loop!ToSet(followups) \cup {c}
  <2>1. CASE followups' = followups
    BY <2>1 DEF LoopInv, Loop!TypeOK
  <2>2. CASE followups' = Append(followups, c)
    BY <2>2, QueueGrows
  <2>3. QED BY <2>1, <2>2
<1>7. Loop!JoinedPromptIsAnswered'
  <2>1. ASSUME NEW d \in Callers, caller'[d].at = "joined", works'[caller'[d].work].at = "returned"
        PROVE  d \notin Loop!ToSet(followups')
    <3>1. d # c
      BY <1>1, <1>2, <1>3, <1>5, <2>1 DEF Loop!Over, Loop!Ends
    <3>2. QED BY <1>1, <1>5, <1>6, <2>1, <3>1 DEF LoopInv, Loop!JoinedPromptIsAnswered
  <2>2. QED BY <2>1 DEF Loop!JoinedPromptIsAnswered
<1>8. Loop!BusyIsOwned'
  <2>1. ~idle' => \E d \in Callers \ {c} : caller[d].at \in {"prompting", "continuing"}
    BY <1>1 DEF LoopInv, Loop!BusyIsOwned
  <2>2. QED BY <1>5, <2>1 DEF Loop!BusyIsOwned
<1>9. steering' \in Nat /\ abort' \in BOOLEAN /\ idle' \in BOOLEAN /\ works' \in Seq(Loop!Work)
  BY <1>1 DEF LoopInv, Loop!TypeOK
<1>10. LoopInv'
  BY <1>1, <1>5, <1>6, <1>7, <1>8, <1>9, QuietKeeps
<1>11. QED BY <1>1, <1>10, QuietObeys

\* A run of prompt's own, and one that continue_run makes inline.
LEMMA StartsKeep ==
  ASSUME LoopInv, NEW c \in Callers, Loop!Prompt(c) \/ Loop!Continue(c)
  PROVE  LoopInv' /\ Obeys
<1>1. works \in Seq(Loop!Work) /\ Len(works) \in Nat /\ DOMAIN works = 1 .. Len(works)
      /\ steering \in Nat /\ messages \in Seq(Loop!Kinds)
  BY LoopTypes
<1>2. CASE Loop!Prompt(c)
  <2> DEFINE new == [inline |-> FALSE, at |-> "created", cancelled |-> FALSE]
  <2>1. new \in Loop!Work /\ ~new.inline /\ new.at = "created"
    BY DEF Loop!Work
  <2>2. works' = Append(works, new)
    BY <1>2 DEF Loop!Prompt
  <2> HIDE DEF new
  <2>3. /\ works'[Len(works) + 1] = new /\ \A k \in DOMAIN works : works'[k] = works[k]
    BY <1>1, <2>1, <2>2
  <2>4. LoopInv'
    BY <1>1, <1>2, <2>1, <2>2, NewRunKeeps DEF Loop!Prompt
  <2>5. QED BY <1>2, <2>3, <2>4, QuietObeys DEF Loop!Prompt
<1>3. CASE Loop!Continue(c)
  <2> DEFINE new == [inline |-> TRUE, at |-> "turn", cancelled |-> FALSE]
             users == [i \in 1 .. (1 + steering) |-> "user"]
  <2>1. new \in Loop!Work /\ new.inline /\ new.at = "turn"
    BY DEF Loop!Work
  <2>2. works' = Append(works, new) /\ messages' = messages \o users
    BY <1>3 DEF Loop!Continue
  <2> HIDE DEF new
  <2>3. /\ Len(works) + 1 \in DOMAIN works' /\ works'[Len(works) + 1] = new
    BY <1>1, <2>1, <2>2
  <2>4. messages' \in Seq(Loop!Kinds)
    <3>1. users \in Seq(Loop!Kinds)
      BY <1>1, UsersType
    <3> HIDE DEF users
    <3>2. QED BY <1>1, <2>2, <3>1
  <2>5. LoopInv'
    BY <1>1, <1>3, <2>1, <2>2, <2>4, NewRunKeeps DEF Loop!Continue
  <2>6. Obeys
    BY <1>3, <2>1, <2>3 DEF Loop!Continue, Obeys, Loop!AbortStopsTurns, Loop!SteeringIsReadEachTurn
  <2>7. QED BY <2>5, <2>6
<1>4. QED BY <1>2, <1>3

LEMMA CancelKeeps ==
  ASSUME LoopInv, NEW c \in Callers, Loop!CancelCaller(c)
  PROVE  LoopInv' /\ Obeys
<1> DEFINE new == [caller[c] EXCEPT !.cancelled = TRUE]
           k == caller[c].work
           run1 == [works[k] EXCEPT !.cancelled = ~Loop!Over(k)]
<1>1. /\ caller[c].at # "idle" /\ caller' = [caller EXCEPT ![c] = new]
      /\ works' = [works EXCEPT ![k] = run1]
      /\ UNCHANGED <<messages, steering, followups, abort, idle, task>>
  BY DEF Loop!CancelCaller
<1>2. k \in DOMAIN works /\ caller[c] \in Loop!CallerState
  BY <1>1, LoopTypes DEF LoopInv, Loop!TypeOK
<1>3. new \in Loop!CallerState /\ new.at = caller[c].at /\ new.work = k
  BY <1>2 DEF Loop!CallerState
<1>4. run1 \in Loop!Work /\ run1.at = works[k].at /\ run1.inline = works[k].inline
  <2>1. works[k] \in Loop!Work
    BY <1>2, LoopTypes
  <2>2. QED BY <2>1 DEF Loop!Work
<1> HIDE DEF new, run1, k
<1>5. /\ caller' \in [Callers -> Loop!CallerState]
      /\ caller'[c] = new /\ \A d \in Callers \ {c} : caller'[d] = caller[d]
      /\ \A d \in Callers : caller'[d].at # "idle" => caller'[d].work \in DOMAIN works
  BY <1>1, <1>2, <1>3, CallerMoves
<1>6. /\ works' \in Seq(Loop!Work) /\ Len(works') = Len(works)
      /\ \A j \in DOMAIN works : works'[j].at = works[j].at /\ works'[j].inline = works[j].inline
  BY <1>1, <1>2, <1>4, ExceptSeq, LoopTypes
<1>7. \A d \in Callers : caller'[d].at = caller[d].at /\ caller'[d].work = caller[d].work
  BY <1>3, <1>5 DEF k
<1>8. Loop!JoinedPromptIsAnswered' /\ Loop!BusyIsOwned'
  <2>1. \A d \in Callers : caller[d].at = "joined" => caller[d].work \in DOMAIN works
    BY LoopTypes
  <2>2. QED BY <1>1, <1>6, <1>7, <2>1 DEF LoopInv, Loop!JoinedPromptIsAnswered, Loop!BusyIsOwned
<1>9. /\ steering' \in Nat /\ abort' \in BOOLEAN /\ idle' \in BOOLEAN
      /\ followups' \in Seq(Callers \cup {"nobody"})
  BY <1>1 DEF LoopInv, Loop!TypeOK
<1>10. LoopInv'
  BY <1>1, <1>5, <1>6, <1>8, <1>9, QuietKeeps
<1>11. QED BY <1>1, <1>6, <1>10, QuietObeys

LEMMA ResumesKeep ==
  ASSUME LoopInv, NEW c \in Callers, Loop!CallerResumes(c)
  PROVE  LoopInv' /\ Obeys
<1>1. /\ caller' = [caller EXCEPT ![c] = Loop!Free]
      /\ idle' = (idle \/ caller[c].at \in {"prompting", "continuing"})
      /\ UNCHANGED <<messages, steering, followups, abort, works, task>>
  BY DEF Loop!CallerResumes
<1>2. Loop!Free \in Loop!CallerState /\ Loop!Free.at = "idle"
  BY DEF Loop!Free, Loop!CallerState
<1>3. /\ caller' \in [Callers -> Loop!CallerState]
      /\ caller'[c] = Loop!Free /\ \A d \in Callers \ {c} : caller'[d] = caller[d]
      /\ \A d \in Callers : caller'[d].at # "idle" => caller'[d].work \in DOMAIN works
  BY <1>1, <1>2, CallerMoves
<1>4. Loop!JoinedPromptIsAnswered'
  BY <1>1, <1>2, <1>3 DEF LoopInv, Loop!JoinedPromptIsAnswered
<1>5. Loop!BusyIsOwned'
  <2>1. ~idle' => \E d \in Callers \ {c} : caller[d].at \in {"prompting", "continuing"}
    BY <1>1 DEF LoopInv, Loop!BusyIsOwned
  <2>2. QED BY <1>3, <2>1 DEF Loop!BusyIsOwned
<1>6. /\ steering' \in Nat /\ abort' \in BOOLEAN /\ idle' \in BOOLEAN
      /\ followups' \in Seq(Callers \cup {"nobody"}) /\ works' \in Seq(Loop!Work)
  BY <1>1 DEF LoopInv, Loop!TypeOK
<1>7. LoopInv'
  BY <1>1, <1>3, <1>4, <1>5, <1>6, QuietKeeps
<1>8. QED BY <1>1, <1>7, QuietObeys

\* steer and follow_up queue a message, abort asks the run under way to stop.
LEMMA RequestsKeep ==
  ASSUME Loop!BoundsAssumption, LoopInv, Loop!Steer \/ Loop!FollowUp \/ Loop!Abort
  PROVE  LoopInv' /\ Obeys
<1>1. UNCHANGED <<messages, idle, task, caller>>
  BY DEF Loop!Steer, Loop!FollowUp, Loop!Abort
<1>2. caller' \in [Callers -> Loop!CallerState] /\ idle' \in BOOLEAN
      /\ \A c \in Callers : caller'[c].at # "idle" => caller'[c].work \in DOMAIN works
  BY <1>1 DEF LoopInv, Loop!TypeOK
<1>3. steering' \in Nat /\ abort' \in BOOLEAN
  <2>1. steering \in Nat /\ abort \in BOOLEAN
    BY DEF LoopInv, Loop!TypeOK
  <2>2. CASE Loop!Steer
    BY <2>1, <2>2 DEF Loop!Steer
  <2>3. CASE Loop!FollowUp
    BY <2>1, <2>3 DEF Loop!FollowUp
  <2>4. CASE Loop!Abort
    BY <2>1, <2>4 DEF Loop!Abort
  <2>5. QED BY <2>2, <2>3, <2>4
<1>4. /\ followups' \in Seq(Callers \cup {"nobody"})
      /\ Loop!ToSet(followups') \subseteq Loop!ToSet(followups) \cup {"nobody"}
  <2>1. CASE followups' = followups
    BY <2>1 DEF LoopInv, Loop!TypeOK
  <2>2. CASE followups' = Append(followups, "nobody")
    BY <2>2, QueueGrows
  <2>3. QED BY <2>1, <2>2 DEF Loop!Steer, Loop!FollowUp, Loop!Abort
<1>5. /\ works' \in Seq(Loop!Work) /\ Len(works') = Len(works)
      /\ \A k \in DOMAIN works : works'[k].at = works[k].at /\ works'[k].inline = works[k].inline
  <2>1. CASE works' = works
    BY <2>1, LoopTypes
  <2>2. CASE Loop!Abort /\ Loop!Running
    <3> DEFINE new == [works[task] EXCEPT !.cancelled = TRUE]
    <3>1. works' = [works EXCEPT ![task] = new]
      BY <2>2 DEF Loop!Abort
    <3>2. task \in DOMAIN works /\ works[task] \in Loop!Work
      BY <2>2, LoopTypes DEF Loop!Running
    <3>3. new \in Loop!Work /\ new.at = works[task].at /\ new.inline = works[task].inline
      BY <3>2 DEF Loop!Work
    <3> HIDE DEF new
    <3>4. QED BY <3>1, <3>2, <3>3, ExceptSeq, LoopTypes
  <2>3. QED BY <2>1, <2>2 DEF Loop!Steer, Loop!FollowUp, Loop!Abort
<1>6. Loop!JoinedPromptIsAnswered' /\ Loop!BusyIsOwned'
  <2>1. \A c \in Callers : c # "nobody"
    BY DEF Loop!BoundsAssumption
  <2>2. \A c \in Callers : caller[c].at = "joined" => caller[c].work \in DOMAIN works
    BY LoopTypes
  <2>3. QED BY <1>1, <1>4, <1>5, <2>1, <2>2
               DEF LoopInv, Loop!JoinedPromptIsAnswered, Loop!BusyIsOwned
<1>7. LoopInv'
  BY <1>1, <1>2, <1>3, <1>4, <1>5, <1>6, QuietKeeps
<1>8. QED BY <1>1, <1>5, <1>7, QuietObeys

LEMMA LoopNext ==
  ASSUME Loop!BoundsAssumption, LoopInv, [Loop!Next]_Loop!vars
  PROVE  LoopInv' /\ [Obeys]_Loop!vars
<1>1. CASE UNCHANGED Loop!vars
  <2>1. UNCHANGED <<messages, steering, followups, abort, idle, works, task, caller>>
    BY <1>1 DEF Loop!vars
  <2>2. LoopInv'
    BY <2>1 DEF LoopInv, Loop!TypeOK, OnlyTaskIsUnderWay, CallsAnswered, Clean, AtTools, Answered,
       Loop!Over, Loop!JoinedPromptIsAnswered, Loop!BusyIsOwned
  <2>3. QED BY <1>1, <2>2
<1>2. ASSUME NEW c \in Callers,
             \/ Loop!JoinPrompt(c) \/ Loop!Prompt(c) \/ Loop!JoinContinue(c) \/ Loop!Continue(c)
             \/ Loop!CancelCaller(c) \/ Loop!CallerResumes(c)
      PROVE  LoopInv' /\ Obeys
  BY <1>2, JoinsKeep, StartsKeep, CancelKeeps, ResumesKeep
<1>3. ASSUME NEW k \in DOMAIN works, Loop!WorkStep(k)
      PROVE  LoopInv' /\ Obeys
  BY <1>3, WorkKeeps
<1>4. CASE Loop!Steer \/ Loop!FollowUp \/ Loop!Abort
  BY <1>4, RequestsKeep
<1>5. QED BY <1>1, <1>2, <1>3, <1>4 DEF Loop!Next

LEMMA InvAnswers ==
  ASSUME LoopInv
  PROVE  Loop!PromptsAnswered
<1>1. Loop!OneTask
  BY DEF LoopInv, OnlyTaskIsUnderWay, Loop!OneTask
<1>2. Loop!ToolCallsAnswered
  <2> SUFFICES ASSUME NEW k \in DOMAIN works, works[k].at = "turn", Clean,
                      NEW i \in DOMAIN messages, messages[i] = "calls"
               PROVE  i < Len(messages) /\ messages[i + 1] = "results"
    BY DEF Loop!ToolCallsAnswered, Clean
  <2>1. ~AtTools
    <3> SUFFICES ASSUME NEW j \in DOMAIN works, works[j].at = "tools"
                 PROVE  FALSE
      BY DEF AtTools
    <3>1. ~Loop!Over(j) /\ ~Loop!Over(k) /\ ~works[j].inline /\ ~works[k].inline
      BY DEF Loop!Over, Loop!Ends, Clean
    <3>2. QED BY <3>1 DEF LoopInv, OnlyTaskIsUnderWay
  <2>2. QED BY <2>1 DEF LoopInv, CallsAnswered, Answered
<1>3. QED BY <1>1, <1>2 DEF LoopInv, Loop!PromptsAnswered

\* However prompts, continuations, aborts and cancellations meet, no accepted
\* prompt goes unanswered, no call without its results, a busy loop has somebody
\* to set it idle, and prompt keeps to one task (PromptsAnswered of the run
\* agents, over agent_loop/loop.py).
THEOREM LoopAnswers ==
  ASSUME Loop!BoundsAssumption
  PROVE  Loop!Spec => []PromptsAnswered
BY LoopInit, LoopNext, InvAnswers, PTL DEF Loop!Spec, PromptsAnswered

\* The model is asked with all the steering there is, and not after an abort
\* (TurnsObey).
THEOREM LoopObeys ==
  ASSUME Loop!BoundsAssumption
  PROVE  Loop!Spec => TurnsObey
<1>1. Obeys => Loop!AbortStopsTurns /\ Loop!SteeringIsReadEachTurn
  BY DEF Obeys
<1>2. QED BY <1>1, LoopInit, LoopNext, PTL DEF Loop!Spec, TurnsObey, Loop!TurnsObey
=============================================================================
