----------------------------- MODULE StreamProofs -----------------------------
(***************************************************************************)
(* Transcripts and what follows them, proved for every set of sources and  *)
(* any number of crashes and failures: ConversationStore, which implements *)
(* ConversationLog, TaskStream and ConversationStream.                     *)
(***************************************************************************)
EXTENDS Streams, FiniteSetTheorems, SequenceTheorems, WellFoundedInduction, TLAPS
-----------------------------------------------------------------------------
(* The store. The file, the list being written and the cache are each a    *)
(* beginning of the next.                                                  *)

Begins(short, long) ==
  Len(short) <= Len(long) /\ \A i \in 1 .. Len(short) : short[i] = long[i]

StoreInv ==
  /\ Store!TypeOK
  /\ ~cached => flush = "none"
  /\ flush = "failed" => failures > 0
  /\ cached => Begins(file, cache)
  /\ flush = "writing" => Begins(file, snapshot) /\ Begins(snapshot, cache)
  /\ Store!Transcript(Store!Known)
  /\ Store!BehindIsOwned /\ Store!LossNeedsFault

Message == [id : Nat, source : Sources]

LEMMA StoreTypes ==
  ASSUME StoreInv
  PROVE  /\ file \in Seq(Message) /\ cache \in Seq(Message) /\ snapshot \in Seq(Message)
         /\ Store!Known \in Seq(Message) /\ Begins(file, Store!Known)
         /\ Len(file) \in Nat /\ Len(snapshot) \in Nat /\ Len(Store!Known) \in Nat
         /\ DOMAIN file = 1 .. Len(file) /\ DOMAIN Store!Known = 1 .. Len(Store!Known)
<1>1. file \in Seq(Message) /\ cache \in Seq(Message) /\ snapshot \in Seq(Message)
  BY DEF StoreInv, Store!TypeOK, Message
<1>2. Store!Known \in Seq(Message)
  BY <1>1 DEF Store!Known
<1>3. Begins(file, file)
  BY <1>1 DEF Begins
<1>4. Begins(file, Store!Known)
  BY <1>3 DEF Store!Known, StoreInv
<1>5. QED BY <1>1, <1>2, <1>4

\* The next id of a transcript is its length and one.
LEMMA NextIdIs ==
  ASSUME NEW list \in Seq(Message), Store!Transcript(list)
  PROVE  Store!NextId(list) = Len(list) + 1
<1> DEFINE ids == {m.id : m \in Store!ToSet(list)} \cup {0}
<1>1. Len(list) \in Nat /\ DOMAIN list = 1 .. Len(list)
  OBVIOUS
<1>2. ids = 0 .. Len(list)
  <2>1. \A m \in Store!ToSet(list) : \E i \in 1 .. Len(list) : m = list[i] /\ m.id = i
    BY <1>1 DEF Store!ToSet, Store!Transcript
  <2>2. \A i \in 1 .. Len(list) : list[i] \in Store!ToSet(list) /\ list[i].id = i
    BY <1>1 DEF Store!ToSet, Store!Transcript
  <2>3. ids \subseteq 0 .. Len(list)
    BY <1>1, <2>1
  <2>4. 0 .. Len(list) \subseteq ids
    <3> SUFFICES ASSUME NEW i \in 0 .. Len(list)
                 PROVE  i \in ids
      OBVIOUS
    <3>1. i = 0 \/ i \in 1 .. Len(list)
      BY <1>1
    <3>2. QED BY <2>2, <3>1
  <2>5. QED BY <2>3, <2>4
<1> HIDE DEF ids
<1>3. PICK n \in Nat : n = Len(list)
  BY <1>1
<1>4. Store!Max(ids) = n
  <2>1. Store!Max(ids) = CHOOSE x \in ids : \A y \in ids : x >= y
    BY DEF Store!Max
  <2>2. ids = 0 .. n
    BY <1>2, <1>3
  <2>3. n \in ids /\ \A y \in ids : n >= y
    BY <2>2
  <2>4. \A x \in ids : (\A y \in ids : x >= y) => x = n
    BY <2>2
  <2>5. QED BY <2>1, <2>3, <2>4
<1>5. QED BY <1>3, <1>4 DEF Store!NextId, ids

\* What a step is for the readers of the log.
Reads == [Store!Log!LogNext]_<<Store!Known, Len(file)>>

LEMMA LogSteps ==
  /\ \A s \in Sources : Store!Log!Appended(s) <=>
       /\ s \notin Store!SourcesOf(Store!Known)
       /\ Store!Known' = Append(Store!Known, [id |-> Len(Store!Known) + 1, source |-> s])
       /\ Len(file)' = Len(file)
  /\ Store!Log!Saved <=>
       Len(file)' \in Len(file) + 1 .. Len(Store!Known) /\ Store!Known' = Store!Known
  /\ Store!Log!CutBack <=>
       Store!Known' = SubSeq(Store!Known, 1, Len(file)) /\ Len(file)' = Len(file)
BY DEF Store!Log!Appended, Store!Log!Saved, Store!Log!CutBack, Store!Log!SourcesOf, Store!SourcesOf,
   Store!Log!ToSet, Store!ToSet

LEMMA StoreInit ==
  ASSUME Store!BoundsAssumption, Store!Init
  PROVE  StoreInv /\ Store!Log!LogInit
<1>1. \A S : <<>> \in Seq(S) /\ Len(<<>>) = 0
  BY EmptySeq
<1>2. Store!Known = <<>>
  BY DEF Store!Init, Store!Known
<1>3. Store!TypeOK
  <2>1. <<>> \in Seq(Message) /\ 0 \in 0 .. MaxCrashes /\ 0 \in 0 .. MaxFailures
    BY <1>1 DEF Store!BoundsAssumption
  <2>2. file = <<>> /\ cache = <<>> /\ snapshot = <<>>
    BY DEF Store!Init
  <2>3. file \in Seq(Message) /\ cache \in Seq(Message) /\ snapshot \in Seq(Message)
    BY <2>1, <2>2
  <2>4. QED BY <2>1, <2>3 DEF Store!Init, Store!TypeOK, Message
<1>4. Store!Transcript(Store!Known) /\ Store!BehindIsOwned /\ Store!LossNeedsFault
  BY <1>2 DEF Store!Init, Store!Transcript, Store!BehindIsOwned, Store!LossNeedsFault
<1>5. StoreInv
  BY <1>3, <1>4 DEF Store!Init, StoreInv
<1>6. QED BY <1>1, <1>2, <1>5 DEF Store!Init, Store!Log!LogInit

\* What is known is read into the cache, or is there; the rest stays.
LEMMA LooksKeep ==
  ASSUME StoreInv, cached' = TRUE, cache' = Store!Known,
         UNCHANGED <<file, process, crashes, failures>>,
         acked' = acked \/ \E s \in Store!SourcesOf(Store!Known) : s \in Sources /\ acked' = acked \cup {s},
         \/ UNCHANGED <<flush, snapshot>>
         \/ flush = "scheduled" /\ flush' = "writing" /\ snapshot' = Store!Known
  PROVE  StoreInv' /\ Reads
<1>1. Store!Known' = Store!Known
  BY DEF Store!Known
<1>2. Begins(file', cache')
  BY StoreTypes DEF Begins
<1>3. Begins(Store!Known, Store!Known)
  BY StoreTypes DEF Begins
<1>4. Store!TypeOK'
  BY StoreTypes DEF StoreInv, Store!TypeOK, Message
<1>5. (flush = "none" => flush' = "none") /\ (flush' = "failed" => failures' > 0)
  BY DEF StoreInv
<1>6. flush' = "writing" => Begins(file, snapshot)' /\ Begins(snapshot, cache)'
  <2>1. CASE flush' = "writing" /\ snapshot' = Store!Known
    BY <1>2, <1>3, <2>1 DEF Begins
  <2>2. CASE flush = "writing" /\ UNCHANGED <<flush, snapshot>>
    <3>1. cached /\ Store!Known = cache
      BY <2>2 DEF StoreInv, Store!Known
    <3>2. QED BY <2>2, <3>1 DEF StoreInv, Begins
  <2>3. QED BY <2>1, <2>2
<1>7. Store!Transcript(Store!Known)'
  BY <1>1 DEF StoreInv, Store!Transcript
<1>8. Store!BehindIsOwned'
  <2>1. file' # cache' => cached /\ file # cache
    BY DEF Store!Known
  <2>2. QED BY <2>1 DEF StoreInv, Store!BehindIsOwned
<1>9. Store!LossNeedsFault'
  BY <1>1 DEF StoreInv, Store!LossNeedsFault, Store!SourcesOf, Store!ToSet
<1>10. QED BY <1>1, <1>2, <1>4, <1>5, <1>6, <1>7, <1>8, <1>9 DEF StoreInv, Reads, Begins

LEMMA AppendKeeps ==
  ASSUME StoreInv, NEW s \in Sources, Store!AppendNew(s)
  PROVE  StoreInv' /\ Reads
<1> DEFINE new == [id |-> Store!NextId(Store!Known), source |-> s]
<1>1. PICK known \in Seq(Message) : known = Store!Known
  BY StoreTypes
<1>2. /\ cached' = TRUE /\ cache' = Append(known, new) /\ acked' = acked \cup {s}
      /\ flush' \in {flush, "scheduled"} /\ flush' # "none" /\ flush' # "failed" /\ flush # "writing"
      /\ UNCHANGED <<file, snapshot, process, crashes, failures>>
      /\ s \notin Store!SourcesOf(known)
  BY <1>1 DEF Store!AppendNew, Store!Schedule, Store!LockIsFree, StoreInv, Store!TypeOK
<1>3. new \in Message /\ new.id = Len(known) + 1 /\ new.source = s
  <2>1. Store!NextId(known) = Len(known) + 1
    BY <1>1, NextIdIs DEF StoreInv
  <2>2. QED BY <1>1, <2>1 DEF Message
<1> HIDE DEF new
<1>4. Store!Known' = cache'
  BY <1>2 DEF Store!Known
<1>5. /\ cache' \in Seq(Message) /\ Len(cache') = Len(known) + 1 /\ Len(known) \in Nat
      /\ DOMAIN cache' = 1 .. Len(known) + 1 /\ DOMAIN known = 1 .. Len(known)
      /\ cache'[Len(known) + 1] = new /\ \A i \in 1 .. Len(known) : cache'[i] = known[i]
  BY <1>2, <1>3
<1>6. PICK n \in Nat : n = Len(known)
  BY <1>5
<1>7. Store!TypeOK'
  BY <1>2, <1>5 DEF StoreInv, Store!TypeOK, Message
<1>8. Begins(file', cache')
  <2>1. Begins(file, known) /\ Len(file) \in Nat
    BY <1>1, StoreTypes
  <2>2. QED BY <1>2, <1>5, <2>1 DEF Begins
<1>9. Store!Transcript(cache')
  <2>1. \A i \in 1 .. n : known[i].id = i /\ known[i].source # s
    BY <1>1, <1>2, <1>5, <1>6 DEF StoreInv, Store!Transcript, Store!SourcesOf, Store!ToSet
  <2>2. \A i, j \in 1 .. n : known[i].source = known[j].source => i = j
    BY <1>1, <1>5, <1>6 DEF StoreInv, Store!Transcript
  <2>3. \A i \in 1 .. n + 1 : i = n + 1 \/ i \in 1 .. n
    OBVIOUS
  <2>4. \A i \in 1 .. n + 1 : cache'[i].id = i
    BY <1>3, <1>5, <1>6, <2>1, <2>3
  <2>5. ASSUME NEW i \in 1 .. n + 1, NEW j \in 1 .. n + 1, cache'[i].source = cache'[j].source
        PROVE  i = j
    BY <1>3, <1>5, <1>6, <2>1, <2>2, <2>3, <2>5
  <2>6. QED BY <1>5, <1>6, <2>4, <2>5 DEF Store!Transcript
<1>10. Store!SourcesOf(cache') = Store!SourcesOf(known) \cup {s}
  <2>1. \A i \in DOMAIN cache' : i = n + 1 \/ i \in DOMAIN known
    BY <1>5, <1>6
  <2>2. Store!ToSet(cache') = Store!ToSet(known) \cup {new}
    BY <1>5, <1>6, <2>1 DEF Store!ToSet
  <2>3. QED BY <1>3, <2>2 DEF Store!SourcesOf
<1>11. Store!LossNeedsFault'
  <2>1. Store!SourcesOf(Store!Known)' = Store!SourcesOf(cache')
    BY <1>4 DEF Store!SourcesOf, Store!ToSet
  <2>2. QED BY <1>1, <1>2, <1>10, <2>1 DEF StoreInv, Store!LossNeedsFault
<1>12. StoreInv'
  <2>1. Store!Transcript(Store!Known)'
    BY <1>4, <1>9 DEF Store!Transcript
  <2>2. Store!BehindIsOwned'
    BY <1>2, <1>7 DEF Store!BehindIsOwned, Store!TypeOK
  <2>3. Begins(file, cache)'
    BY <1>8 DEF Begins
  <2>4. QED BY <1>2, <1>7, <1>11, <2>1, <2>2, <2>3 DEF StoreInv
<1>13. Store!Log!Appended(s)
  <2>1. new = [id |-> Len(known) + 1, source |-> s]
    BY <1>3 DEF new
  <2>2. Store!Known' = Append(known, [id |-> Len(known) + 1, source |-> s])
    BY <1>2, <1>4, <2>1
  <2>3. QED BY <1>1, <1>2, <2>2, LogSteps
<1>14. QED BY <1>12, <1>13 DEF Reads, Store!Log!LogNext

LEMMA WritesKeep ==
  ASSUME StoreInv, Store!FlushWrites
  PROVE  StoreInv' /\ Reads
<1>1. /\ cached /\ Store!Known = cache /\ Store!Known' = cache /\ file' = snapshot
      /\ flush' = IF snapshot = cache THEN "none" ELSE "scheduled"
      /\ UNCHANGED <<cached, cache, process, acked, crashes, failures>>
  BY DEF StoreInv, Store!FlushWrites, Store!Known
<1>2. Begins(file, snapshot) /\ Begins(snapshot, cache)
  BY DEF StoreInv, Store!FlushWrites
<1>3. Store!TypeOK'
  <2>1. snapshot' \in Seq(Message)
    BY EmptySeq DEF Store!FlushWrites
  <2>2. QED BY <1>1, <2>1, StoreTypes DEF StoreInv, Store!TypeOK, Message
<1>4. StoreInv'
  BY <1>1, <1>2, <1>3 DEF StoreInv, Begins, Store!Transcript, Store!BehindIsOwned,
     Store!LossNeedsFault, Store!SourcesOf, Store!ToSet
<1>5. CASE Len(snapshot) = Len(file)
  BY <1>1, <1>4, <1>5 DEF Reads
<1>6. CASE Len(snapshot) # Len(file)
  <2>1. Len(file)' \in Len(file) + 1 .. Len(Store!Known)
    BY <1>1, <1>2, <1>6, StoreTypes DEF Begins
  <2>2. Store!Log!Saved
    BY <1>1, <2>1, LogSteps
  <2>3. QED BY <1>4, <2>2 DEF Reads, Store!Log!LogNext
<1>7. QED BY <1>5, <1>6

LEMMA FailsKeep ==
  ASSUME StoreInv, Store!FlushFails, Store!BoundsAssumption
  PROVE  StoreInv' /\ Reads
<1>1. /\ cached /\ Store!Known' = Store!Known /\ flush' = "failed" /\ snapshot' = <<>>
      /\ failures' = failures + 1 /\ UNCHANGED <<file, cached, cache, process, acked, crashes>>
  BY DEF StoreInv, Store!FlushFails, Store!Known
<1>2. failures' \in 0 .. MaxFailures /\ failures' > 0
  BY DEF StoreInv, Store!TypeOK, Store!FlushFails, Store!BoundsAssumption
<1>3. Store!TypeOK'
  <2>1. snapshot' \in Seq(Message)
    BY <1>1, EmptySeq
  <2>2. QED BY <1>1, <1>2, <2>1, StoreTypes DEF StoreInv, Store!TypeOK, Message
<1>4. Store!LossNeedsFault'
  BY <1>2 DEF Store!LossNeedsFault
<1>5. QED BY <1>1, <1>2, <1>3, <1>4 DEF StoreInv, Reads, Begins, Store!Transcript, Store!BehindIsOwned

\* The process ends: what is left is the file.
LEMMA EndsKeep ==
  ASSUME StoreInv, Store!BoundsAssumption, Store!Exit \/ Store!Crash
  PROVE  StoreInv' /\ Reads
<1>1. /\ cached' = FALSE /\ cache' = <<>> /\ flush' = "none" /\ snapshot' = <<>>
      /\ process' = "down" /\ UNCHANGED <<file, acked, failures>> /\ Store!Known' = file
  BY DEF Store!Exit, Store!Crash, Store!Known
<1>2. crashes' \in 0 .. MaxCrashes
  BY DEF StoreInv, Store!TypeOK, Store!Exit, Store!Crash, Store!BoundsAssumption
<1>3. Store!TypeOK'
  <2>1. cache' \in Seq(Message) /\ snapshot' \in Seq(Message)
    BY <1>1, EmptySeq
  <2>2. QED BY <1>1, <1>2, <2>1 DEF StoreInv, Store!TypeOK, Message
<1>4. PICK known \in Seq(Message) : known = Store!Known
  BY StoreTypes
<1>5. Begins(file, known) /\ file \in Seq(Message) /\ Len(file) \in Nat
  BY <1>4, StoreTypes
<1>6. Store!Transcript(file)
  BY <1>4, <1>5 DEF Begins, StoreInv, Store!Transcript
<1>7. Store!LossNeedsFault'
  <2>1. CASE Store!Crash
    <3>1. crashes' # 0
      BY <2>1 DEF StoreInv, Store!TypeOK, Store!Crash
    <3>2. QED BY <3>1 DEF Store!LossNeedsFault
  <2>2. CASE Store!Exit
    <3>1. failures = 0 => flush = "none"
      BY <2>2 DEF StoreInv, Store!Exit
    <3>2. failures = 0 => Store!Known = file
      BY <3>1 DEF StoreInv, Store!BehindIsOwned, Store!Known
    <3>3. QED BY <1>1, <2>2, <3>2
             DEF StoreInv, Store!LossNeedsFault, Store!SourcesOf, Store!ToSet, Store!Exit
  <2>3. QED BY <2>1, <2>2
<1>8. StoreInv'
  BY <1>1, <1>3, <1>6, <1>7 DEF StoreInv, Store!Transcript, Store!BehindIsOwned
<1>9. file = SubSeq(known, 1, Len(file))
  <2>1. Len(file) <= Len(known) /\ Len(known) \in Nat
    BY <1>5 DEF Begins
  <2>2. PICK cut : cut = SubSeq(known, 1, Len(file))
    OBVIOUS
  <2>3. /\ cut \in Seq(Message) /\ Len(cut) = Len(file)
        /\ \A i \in 1 .. Len(file) : cut[i] = known[i]
    BY <1>5, <2>1, <2>2
  <2>4. cut = file
    BY <1>5, <2>3 DEF Begins
  <2>5. QED BY <2>2, <2>4
<1>10. Store!Log!CutBack
  BY <1>1, <1>4, <1>9, LogSteps
<1>11. QED BY <1>8, <1>10 DEF Reads, Store!Log!LogNext

LEMMA StoreNext ==
  ASSUME StoreInv, Store!BoundsAssumption, [Store!Next]_Store!vars
  PROVE  StoreInv' /\ Reads
<1>1. CASE UNCHANGED Store!vars
  BY <1>1 DEF Store!vars, StoreInv, Reads, Begins, Store!TypeOK, Store!Known, Store!Transcript,
     Store!BehindIsOwned, Store!LossNeedsFault, Store!SourcesOf, Store!ToSet
<1>2. ASSUME NEW s \in Sources, Store!AppendNew(s)
      PROVE  StoreInv' /\ Reads
  BY <1>2, AppendKeeps
<1>3. ASSUME NEW s \in Sources, Store!AppendKnown(s)
      PROVE  StoreInv' /\ Reads
  BY <1>3, LooksKeep DEF Store!AppendKnown
<1>4. CASE Store!List
  BY <1>4, LooksKeep DEF Store!List
<1>5. CASE Store!FlushTakesSnapshot
  BY <1>5, LooksKeep DEF Store!FlushTakesSnapshot
<1>6. CASE Store!Close \/ Store!Start
  <2>1. /\ process' \in {"up", "closing", "down"}
        /\ UNCHANGED <<file, cached, cache, flush, snapshot, acked, crashes, failures>>
    BY <1>6 DEF Store!Close, Store!Start
  <2>2. Store!TypeOK'
    BY <2>1 DEF StoreInv, Store!TypeOK
  <2>3. Store!Known' = Store!Known
    BY <2>1 DEF Store!Known
  <2>4. Store!Transcript(Store!Known)'
    BY <2>3 DEF StoreInv, Store!Transcript
  <2>5. Store!LossNeedsFault'
    BY <2>1, <2>3 DEF StoreInv, Store!LossNeedsFault, Store!SourcesOf, Store!ToSet
  <2>6. QED BY <2>1, <2>2, <2>3, <2>4, <2>5 DEF StoreInv, Reads, Begins, Store!BehindIsOwned
<1>7. QED BY <1>1, <1>2, <1>3, <1>4, <1>5, <1>6, WritesKeep, FailsKeep, EndsKeep DEF Store!Next

LEMMA InvSound ==
  ASSUME StoreInv
  PROVE  Store!TranscriptsSound
<1>1. PICK known \in Seq(Message) : known = Store!Known
  BY StoreTypes
<1>2. Begins(file, known) /\ DOMAIN file = 1 .. Len(file) /\ Len(file) \in Nat
  BY <1>1, StoreTypes
<1>3. Store!Transcript(file)
  BY <1>1, <1>2 DEF Begins, StoreInv, Store!Transcript
<1>4. Store!Transcript(cache)
  BY DEF StoreInv, Store!TypeOK, Store!Known, Store!Transcript
<1>5. QED BY <1>3, <1>4 DEF StoreInv, Store!TranscriptsSound

\* Whatever crashes, fails or is retried, transcripts have the ids 1, 2, ... and
\* no source twice, a flush is on its way while the file is behind, and an
\* acknowledged message is lost by a crash or a failed write only
\* (TranscriptsSound of the run streams, over services/conversation.py).
THEOREM TranscriptsAreSound ==
  ASSUME Store!BoundsAssumption
  PROVE  Store!Spec => []TranscriptsSound
BY StoreInit, StoreNext, InvSound, PTL DEF Store!Spec, TranscriptsSound

\* The store implements the transcript that readers rely on: every step of it
\* appends one message, saves a longer beginning, cuts back to what was saved,
\* or changes nothing they can see (ImplementsLog).
THEOREM StoreImplementsLog ==
  ASSUME Store!BoundsAssumption
  PROVE  Store!Spec => ImplementsLog
<1>1. Reads <=> [Store!Log!LogNext]_<<Store!Known, Len(file)>>
  BY DEF Reads
<1>2. QED BY <1>1, StoreInit, StoreNext, PTL DEF Store!Spec, ImplementsLog, Store!ImplementsLog, Store!Log!LogSpec

-----------------------------------------------------------------------------
(* The stream of a task. The ids of its events reach the browser one after *)
(* the other: what is held, on the wire and in the generator leaves none   *)
(* out, also when a connection begins again.                               *)

\* An item says what the task has.
Fits(item) ==
  CASE item.kind = "event"   ->
         item.id \in 1 .. timeline /\ (item.end <=> ended /\ item.id = timeline)
    [] item.kind = "message" -> item.id \in 1 .. posted
    [] OTHER                 -> TRUE

\* The event e comes among the first n items, or is held.
Comes(e, n) == e \in events \/ \E j \in 1 .. n : wire[j].kind = "event" /\ wire[j].id = e

\* The events on the wire are in order, none is left out below one of them.
WireInOrder ==
  \A i \in DOMAIN wire :
    /\ Fits(wire[i])
    /\ wire[i].kind = "event" =>
         /\ wire[i].id <= cursor.event
         /\ \A e \in 1 .. wire[i].id - 1 : Comes(e, i - 1)
         /\ \A j \in 1 .. i - 1 : wire[j].kind = "event" => wire[j].id < wire[i].id

\* The cursor says what has been sent.
CursorIsSent == source = "open" => \A e \in 1 .. cursor.event : Comes(e, Len(wire))

\* The news begin after the cursor and leave out none.
NewsInOrder ==
  \A x \in generator.news :
    /\ Fits(x) /\ x.kind # "complete"
    /\ x.kind = "event" =>
         /\ x.id > cursor.event
         /\ \A e \in cursor.event + 1 .. x.id - 1 :
              \E y \in generator.news : y.kind = "event" /\ y.id = e
         /\ \A y \in generator.news : y.kind = "event" /\ y.id = x.id => y = x

NoNewEvent == \A x \in generator.news : x.kind # "event"

\* A row that was terminal is so, and then a poll without events has none to come.
PollSaysEnd ==
  /\ generator.terminal => ended
  /\ generator.at = "messages" /\ generator.terminal /\ NoNewEvent => cursor.event >= timeline

\* There is a connection only between its effect and its cleanup.
Connections ==
  /\ source # "open" => wire = <<>> /\ generator = Task!Gone
  /\ load # "done" => source = "none" /\ refresh = "none"
  /\ refresh # "none" => source = "closed"

\* What App loaded, which the URL of its stream says.
LoadedWhole ==
  /\ load = "messages" => reads = {}
  /\ load = "done" => reads = {"task", "events"}
  /\ load = "task" => \E p \in Nat : messages = 1 .. p
  /\ "events" \in reads => \E n \in Nat : events = 1 .. n
  /\ source # "none" => 1 .. from.event \subseteq events

\* A state shown as terminal is, and no event is still to come.
EndIsLast ==
  /\ "task" \notin reads => activeTask = "unknown"
  /\ activeTask = "terminal" => ended
  /\ activeTask = "terminal" /\ source = "open" =>
       /\ cursor.event >= timeline /\ NoNewEvent
       /\ \A i \in DOMAIN wire : wire[i].kind # "event"

\* Before the word that the stream is complete, every event comes.
CompleteComesLast ==
  \A i \in DOMAIN wire : wire[i].kind = "complete" =>
    ended /\ \A e \in 1 .. timeline : Comes(e, i)

TaskInv ==
  /\ Task!TypeOK /\ WireInOrder /\ CursorIsSent /\ NewsInOrder /\ PollSaysEnd
  /\ Connections /\ LoadedWhole /\ EndIsLast /\ CompleteComesLast

Sticks == activeTask = "terminal" => activeTask' = "terminal"

LEMMA TaskTypes ==
  ASSUME TaskInv
  PROVE  /\ timeline \in Nat \ {0} /\ ended \in BOOLEAN /\ posted \in Nat
         /\ events \subseteq 1 .. timeline /\ messages \subseteq 1 .. posted
         /\ from.event \in Nat /\ from.message \in Nat
         /\ cursor.event \in Nat /\ cursor.message \in Nat
         /\ generator.terminal \in BOOLEAN /\ generator.news \in SUBSET Task!Item
         /\ generator.at \in {"gone", "sleep", "events", "messages", "yield"}
         /\ wire \in Seq(Task!Item) /\ Len(wire) \in Nat /\ DOMAIN wire = 1 .. Len(wire)
<1>1. Task!TypeOK
  BY DEF TaskInv
<1>2. cursor \in [event : Nat, message : Nat] /\ from \in [event : Nat, message : Nat]
  BY <1>1 DEF Task!TypeOK, Task!Cursor
<1>3. QED BY <1>1, <1>2 DEF Task!TypeOK

LEMMA TaskInit ==
  ASSUME Task!BoundsAssumption, Task!Init
  PROVE  TaskInv
<1>1. <<>> \in Seq(Task!Item) /\ DOMAIN wire = {} /\ Len(wire) = 0
  BY DEF Task!Init
<1>2. cursor = [event |-> 0, message |-> 0] /\ from = cursor
  BY DEF Task!Init
<1>3. Task!TypeOK
  <2>1. 0 \in 0 .. MaxEvents /\ 0 \in 0 .. MaxMessages
    BY DEF Task!BoundsAssumption
  <2>2. cursor \in Task!Cursor /\ from \in Task!Cursor
    BY <1>2, <2>1 DEF Task!Cursor
  <2>3. wire \in Seq(Task!Item)
    BY <1>1 DEF Task!Init
  <2>4. generator \in [at : {"gone", "sleep", "events", "messages", "yield"},
                       terminal : BOOLEAN, news : SUBSET Task!Item]
    <3>1. generator = Task!Gone
      BY DEF Task!Init
    <3>2. QED BY <3>1 DEF Task!Gone
  <2>5. /\ timeline \in 1 .. MaxEvents /\ posted \in 0 .. MaxMessages /\ drops \in 0 .. MaxDrops
        /\ events \subseteq 1 .. timeline /\ messages \subseteq 1 .. posted
    <3>1. timeline = 1 /\ posted = 0 /\ drops = 0 /\ events = {} /\ messages = {}
      BY DEF Task!Init
    <3>2. MaxEvents \in Nat \ {0} /\ MaxMessages \in Nat /\ MaxDrops \in Nat
      BY DEF Task!BoundsAssumption
    <3>3. QED BY <3>1, <3>2
  <2>6. /\ ended \in BOOLEAN /\ load \in {"messages", "task", "done"} /\ reads \subseteq {"task", "events"}
        /\ source \in {"none", "open", "lost", "closed"}
        /\ activeTask \in {"unknown", "running", "terminal"}
        /\ refresh \in {"none", "messages", "task", "done"}
    BY DEF Task!Init
  <2>7. QED BY <2>2, <2>3, <2>4, <2>5, <2>6 DEF Task!TypeOK
<1>4. WireInOrder /\ CompleteComesLast
  BY <1>1 DEF WireInOrder, CompleteComesLast
<1>5. CursorIsSent /\ NewsInOrder /\ PollSaysEnd /\ Connections /\ LoadedWhole /\ EndIsLast
  BY DEF Task!Init, CursorIsSent, NewsInOrder, PollSaysEnd, Connections, LoadedWhole, EndIsLast, Task!Gone
<1>6. QED BY <1>3, <1>4, <1>5 DEF TaskInv

LEMMA RecordKeeps ==
  ASSUME Task!BoundsAssumption, TaskInv, NEW last \in BOOLEAN, Task!Record(last)
  PROVE  TaskInv' /\ Sticks
<1>1. /\ ~ended /\ timeline < MaxEvents /\ timeline' = timeline + 1 /\ ended' = last
      /\ UNCHANGED <<posted, load, reads, source, from, generator, cursor, wire,
                     activeTask, events, messages, refresh, drops>>
  BY DEF Task!Record
<1>2. Task!TypeOK'
  BY <1>1 DEF TaskInv, Task!TypeOK, Task!Cursor, Task!Item, Task!BoundsAssumption
<1>3. \A item : Fits(item) => Fits(item)'
  BY <1>1, TaskTypes DEF Fits
<1>4. WireInOrder'
  BY <1>1, <1>3 DEF TaskInv, WireInOrder, Comes
<1>5. CursorIsSent'
  BY <1>1 DEF TaskInv, CursorIsSent, Comes
<1>6. NewsInOrder'
  BY <1>1, <1>3 DEF TaskInv, NewsInOrder
<1>7. PollSaysEnd' /\ CompleteComesLast'
  BY <1>1 DEF TaskInv, PollSaysEnd, CompleteComesLast
<1>8. Connections' /\ LoadedWhole'
  BY <1>1 DEF TaskInv, Connections, LoadedWhole, Task!Gone
<1>9. EndIsLast' /\ Sticks
  BY <1>1 DEF TaskInv, EndIsLast, Sticks
<1>10. QED BY <1>2, <1>4, <1>5, <1>6, <1>7, <1>8, <1>9 DEF TaskInv

LEMMA PostKeeps ==
  ASSUME Task!BoundsAssumption, TaskInv, Task!Post
  PROVE  TaskInv' /\ Sticks
<1>1. /\ posted < MaxMessages /\ posted' = posted + 1
      /\ UNCHANGED <<timeline, ended, load, reads, source, from, generator, cursor, wire,
                     activeTask, events, messages, refresh, drops>>
  BY DEF Task!Post
<1>2. Task!TypeOK'
  BY <1>1 DEF TaskInv, Task!TypeOK, Task!Cursor, Task!Item, Task!BoundsAssumption
<1>3. \A item : Fits(item) => Fits(item)'
  BY <1>1, TaskTypes DEF Fits
<1>4. WireInOrder'
  BY <1>1, <1>3 DEF TaskInv, WireInOrder, Comes
<1>5. CursorIsSent' /\ CompleteComesLast'
  BY <1>1 DEF TaskInv, CursorIsSent, CompleteComesLast, Comes
<1>6. NewsInOrder'
  BY <1>1, <1>3 DEF TaskInv, NewsInOrder
<1>7. PollSaysEnd'
  BY <1>1 DEF TaskInv, PollSaysEnd, NoNewEvent
<1>8. Connections' /\ LoadedWhole'
  BY <1>1 DEF TaskInv, Connections, LoadedWhole, Task!Gone
<1>9. EndIsLast' /\ Sticks
  BY <1>1 DEF TaskInv, EndIsLast, Sticks, NoNewEvent
<1>10. QED BY <1>2, <1>4, <1>5, <1>6, <1>7, <1>8, <1>9 DEF TaskInv

\* While the first load runs there is no stream, and nothing of one.
LEMMA NoStreamYet ==
  ASSUME TaskInv, load # "done"
  PROVE  /\ source = "none" /\ refresh = "none" /\ wire = <<>> /\ generator = Task!Gone
         /\ DOMAIN wire = {} /\ generator.news = {} /\ generator.terminal = FALSE
         /\ generator.at = "gone"
<1>1. source = "none" /\ refresh = "none" /\ wire = <<>> /\ generator = Task!Gone
  BY DEF TaskInv, Connections
<1>2. QED BY <1>1 DEF Task!Gone

\* Nor is there anything to keep in order where no stream is open.
LEMMA QuietStaysInOrder ==
  ASSUME (wire = <<>> /\ generator.news = {} /\ generator.terminal = FALSE /\ source # "open")'
  PROVE  (/\ WireInOrder /\ CursorIsSent /\ NewsInOrder /\ PollSaysEnd /\ CompleteComesLast
          /\ NoNewEvent)'
<1>1. (DOMAIN wire = {})'
  OBVIOUS
<1>2. QED BY <1>1 DEF WireInOrder, CursorIsSent, NewsInOrder, PollSaysEnd, CompleteComesLast, NoNewEvent

LEMMA LoadsKeep ==
  ASSUME Task!BoundsAssumption, TaskInv, Task!LoadMessages \/ Task!LoadTask \/ Task!LoadEvents
  PROVE  TaskInv' /\ Sticks
<1>1. UNCHANGED <<timeline, ended, posted, source, from, generator, cursor, wire, refresh, drops>>
  BY DEF Task!LoadMessages, Task!LoadTask, Task!LoadEvents, Task!server
<1>2. load \in {"messages", "task"} /\ load' = "task"
  BY DEF Task!LoadMessages, Task!LoadTask, Task!LoadEvents
<1>3. /\ source = "none" /\ refresh = "none" /\ wire = <<>> /\ generator = Task!Gone
      /\ generator.news = {} /\ generator.terminal = FALSE
  BY <1>2, NoStreamYet
<1>4. (WireInOrder /\ CursorIsSent /\ NewsInOrder /\ PollSaysEnd /\ CompleteComesLast)'
  BY <1>1, <1>3, QuietStaysInOrder
<1>5. Connections'
  BY <1>1, <1>2, <1>3 DEF TaskInv, Connections, Task!Gone
<1>6. CASE Task!LoadMessages
  <2>1. reads = {} /\ UNCHANGED <<reads, activeTask, events>> /\ messages' = 1 .. posted
    BY <1>6 DEF Task!LoadMessages, TaskInv, LoadedWhole
  <2>2. Task!TypeOK'
    BY <1>1, <1>2, <2>1 DEF TaskInv, Task!TypeOK, Task!Cursor, Task!Item
  <2>3. LoadedWhole'
    BY <1>1, <1>2, <1>3, <2>1, TaskTypes DEF LoadedWhole
  <2>4. EndIsLast' /\ Sticks
    BY <1>1, <1>3, <2>1 DEF TaskInv, EndIsLast, Sticks
  <2>5. QED BY <1>4, <1>5, <2>2, <2>3, <2>4 DEF TaskInv
<1>7. CASE Task!LoadTask
  <2>1. /\ "task" \notin reads /\ reads' = reads \cup {"task"} /\ UNCHANGED <<messages, events>>
        /\ activeTask' = Task!RowState /\ load = "task"
    BY <1>7 DEF Task!LoadTask
  <2>2. Task!TypeOK'
    BY <1>1, <1>2, <2>1 DEF TaskInv, Task!TypeOK, Task!Cursor, Task!Item, Task!RowState
  <2>3. LoadedWhole'
    BY <1>1, <1>2, <1>3, <2>1 DEF TaskInv, LoadedWhole
  <2>4. EndIsLast' /\ Sticks
    BY <1>1, <1>3, <2>1 DEF TaskInv, EndIsLast, Sticks, Task!RowState
  <2>5. QED BY <1>4, <1>5, <2>2, <2>3, <2>4 DEF TaskInv
<1>8. CASE Task!LoadEvents
  <2>1. /\ reads' = reads \cup {"events"} /\ UNCHANGED <<messages, activeTask>>
        /\ events' = 1 .. timeline /\ load = "task"
    BY <1>8 DEF Task!LoadEvents
  <2>2. Task!TypeOK'
    BY <1>1, <1>2, <2>1 DEF TaskInv, Task!TypeOK, Task!Cursor, Task!Item
  <2>3. LoadedWhole'
    BY <1>1, <1>2, <1>3, <2>1, TaskTypes DEF TaskInv, LoadedWhole
  <2>4. EndIsLast' /\ Sticks
    BY <1>1, <1>3, <2>1 DEF TaskInv, EndIsLast, Sticks
  <2>5. QED BY <1>4, <1>5, <2>2, <2>3, <2>4 DEF TaskInv
<1>9. QED BY <1>6, <1>7, <1>8

\* The largest of a whole beginning is its length.
LEMMA LargestOfWhole ==
  ASSUME NEW n \in Nat
  PROVE  Task!Largest(1 .. n) = n
<1> DEFINE ids == (1 .. n) \cup {0}
<1>1. n \in ids /\ \A y \in ids : n >= y
  OBVIOUS
<1>2. \A x \in ids : (\A y \in ids : x >= y) => x = n
  OBVIOUS
<1> HIDE DEF ids
<1>3. (CHOOSE x \in ids : \A y \in ids : x >= y) = n
  BY <1>1, <1>2
<1>4. Task!Max(ids) = n
  BY <1>3 DEF Task!Max
<1>5. QED BY <1>4 DEF Task!Largest, ids

\* What has been loaded is a beginning of what the task has.
LEMMA LoadedIs ==
  ASSUME TaskInv, load = "task", "events" \in reads
  PROVE  /\ Task!Largest(events) \in 0 .. timeline /\ events = 1 .. Task!Largest(events)
         /\ Task!Largest(messages) \in 0 .. posted
<1>1. PICK n \in Nat : events = 1 .. n
  BY DEF TaskInv, LoadedWhole
<1>2. PICK p \in Nat : messages = 1 .. p
  BY DEF TaskInv, LoadedWhole
<1>3. Task!Largest(events) = n /\ Task!Largest(messages) = p
  BY <1>1, <1>2, LargestOfWhole
<1>4. n = 0 \/ n \in events
  BY <1>1
<1>5. p = 0 \/ p \in messages
  BY <1>2
<1>6. n \in 0 .. timeline /\ p \in 0 .. posted
  BY <1>4, <1>5, TaskTypes
<1>7. QED BY <1>1, <1>3, <1>6

LEMMA LoadedKeeps ==
  ASSUME Task!BoundsAssumption, TaskInv, Task!Loaded
  PROVE  TaskInv' /\ Sticks
<1>1. /\ load = "task" /\ reads = {"task", "events"} /\ load' = "done"
      /\ UNCHANGED <<timeline, ended, posted, reads, wire, activeTask, events, messages, refresh, drops>>
  BY DEF Task!Loaded, Task!server
<1>2. /\ source = "none" /\ refresh = "none" /\ wire = <<>> /\ generator = Task!Gone
      /\ DOMAIN wire = {} /\ generator.news = {} /\ generator.terminal = FALSE
  BY <1>1, NoStreamYet
<1>3. CASE activeTask = "terminal"
  <2>1. UNCHANGED <<source, from, generator, cursor>>
    BY <1>3 DEF Task!Loaded
  <2>2. Task!TypeOK'
    BY <1>1, <2>1 DEF TaskInv, Task!TypeOK, Task!Cursor, Task!Item
  <2>3. (WireInOrder /\ CursorIsSent /\ NewsInOrder /\ PollSaysEnd /\ CompleteComesLast)'
    BY <1>1, <1>2, <2>1, QuietStaysInOrder
  <2>4. Connections' /\ LoadedWhole' /\ EndIsLast' /\ Sticks
    BY <1>1, <1>2, <2>1 DEF TaskInv, Connections, LoadedWhole, EndIsLast, Sticks, Task!Gone
  <2>5. QED BY <2>2, <2>3, <2>4 DEF TaskInv
<1>4. CASE activeTask # "terminal"
  <2> DEFINE e == Task!Largest(events)
             m == Task!Largest(messages)
  <2>1. /\ source' = "open" /\ from' = [event |-> e, message |-> m]
        /\ cursor' = from' /\ generator' = Task!Asleep
    BY <1>4 DEF Task!Loaded
  <2>2. e \in 0 .. timeline /\ events = 1 .. e /\ m \in 0 .. posted
    BY <1>1, LoadedIs
  <2> HIDE DEF e, m
  <2>3. /\ generator'.at = "sleep" /\ generator'.terminal = FALSE /\ generator'.news = {}
        /\ from'.event = e /\ cursor'.event = e
    BY <2>1 DEF Task!Asleep
  <2>4. from' \in Task!Cursor /\ cursor' \in Task!Cursor
    BY <2>1, <2>2 DEF Task!Cursor, TaskInv, Task!TypeOK, Task!BoundsAssumption
  <2>5. generator' \in [at : {"gone", "sleep", "events", "messages", "yield"},
                        terminal : BOOLEAN, news : SUBSET Task!Item]
    BY <2>1 DEF Task!Asleep
  <2>6. Task!TypeOK'
    BY <1>1, <2>1, <2>4, <2>5 DEF TaskInv, Task!TypeOK, Task!Item
  <2>7. DOMAIN wire' = {}
    BY <1>1, <1>2
  <2>8. WireInOrder' /\ CompleteComesLast'
    BY <2>7 DEF WireInOrder, CompleteComesLast
  <2>9. NewsInOrder' /\ PollSaysEnd'
    BY <2>3 DEF NewsInOrder, PollSaysEnd
  <2>10. CursorIsSent'
    BY <1>1, <2>2, <2>3 DEF CursorIsSent, Comes
  <2>11. Connections' /\ EndIsLast' /\ Sticks
    BY <1>1, <1>2, <1>4, <2>1 DEF TaskInv, Connections, EndIsLast, Sticks
  <2>12. LoadedWhole'
    BY <1>1, <2>2, <2>3, TaskTypes DEF LoadedWhole
  <2>13. QED BY <2>6, <2>8, <2>9, <2>10, <2>11, <2>12 DEF TaskInv
<1>5. QED BY <1>3, <1>4

\* A connection that is lost or closed.
LEMMA ClosingKeeps ==
  ASSUME Task!BoundsAssumption, TaskInv, Task!Deactivate \/ Task!Drop
  PROVE  TaskInv' /\ Sticks
<1>1. /\ source \in {"open", "lost"} /\ source' \in {"lost", "closed"} /\ wire' = <<>>
      /\ generator' = Task!Gone /\ drops' \in {drops, drops + 1}
      /\ drops' # drops => drops < MaxDrops
      /\ UNCHANGED <<timeline, ended, posted, load, reads, from, cursor, activeTask, events,
                     messages, refresh>>
  BY DEF Task!Deactivate, Task!Drop, Task!server
<1>2. generator'.news = {} /\ generator'.terminal = FALSE
  BY <1>1 DEF Task!Gone
<1>3. /\ generator' \in [at : {"gone", "sleep", "events", "messages", "yield"},
                        terminal : BOOLEAN, news : SUBSET Task!Item]
      /\ wire' \in Seq(Task!Item)
  BY <1>1 DEF Task!Gone
<1>4. drops' \in 0 .. MaxDrops
  BY <1>1 DEF TaskInv, Task!TypeOK, Task!BoundsAssumption
<1>5. Task!TypeOK'
  BY <1>1, <1>3, <1>4 DEF TaskInv, Task!TypeOK, Task!Item, Task!Cursor
<1>6. (WireInOrder /\ CursorIsSent /\ NewsInOrder /\ PollSaysEnd /\ CompleteComesLast)'
  BY <1>1, <1>2, QuietStaysInOrder
<1>7. Connections' /\ LoadedWhole' /\ EndIsLast' /\ Sticks
  BY <1>1 DEF TaskInv, Connections, LoadedWhole, EndIsLast, Sticks, Task!Gone
<1>8. QED BY <1>5, <1>6, <1>7 DEF TaskInv

LEMMA ReconnectKeeps ==
  ASSUME Task!BoundsAssumption, TaskInv, Task!Reconnect
  PROVE  TaskInv' /\ Sticks
<1>1. /\ source = "lost" /\ activeTask # "terminal" /\ source' = "open"
      /\ generator' = Task!Asleep /\ cursor' = from
      /\ UNCHANGED <<timeline, ended, posted, load, reads, from, wire, activeTask, events,
                     messages, refresh, drops>>
  BY DEF Task!Reconnect, Task!server
<1>2. wire = <<>> /\ load = "done" /\ refresh = "none"
  BY <1>1 DEF TaskInv, Connections, Task!TypeOK
<1>3. generator'.at = "sleep" /\ generator'.terminal = FALSE /\ generator'.news = {}
  BY <1>1 DEF Task!Asleep
<1>4. generator' \in [at : {"gone", "sleep", "events", "messages", "yield"},
                      terminal : BOOLEAN, news : SUBSET Task!Item]
  BY <1>1 DEF Task!Asleep
<1>5. Task!TypeOK'
  BY <1>1, <1>4 DEF TaskInv, Task!TypeOK, Task!Item, Task!Cursor
<1>6. DOMAIN wire' = {}
  BY <1>1, <1>2
<1>7. WireInOrder' /\ CompleteComesLast'
  BY <1>6 DEF WireInOrder, CompleteComesLast
<1>8. NewsInOrder' /\ PollSaysEnd'
  BY <1>3 DEF NewsInOrder, PollSaysEnd
<1>9. CursorIsSent'
  BY <1>1 DEF TaskInv, LoadedWhole, CursorIsSent, Comes
<1>10. Connections' /\ EndIsLast' /\ Sticks
  BY <1>1, <1>2 DEF TaskInv, Connections, EndIsLast, Sticks
<1>11. LoadedWhole'
  BY <1>1 DEF TaskInv, LoadedWhole
<1>12. QED BY <1>5, <1>7, <1>8, <1>9, <1>10, <1>11 DEF TaskInv

LEMMA RefreshKeeps ==
  ASSUME Task!BoundsAssumption, TaskInv, Task!RefreshMessages \/ Task!RefreshTask
  PROVE  TaskInv' /\ Sticks
<1>1. /\ refresh # "none" /\ refresh' \in {"task", "done"}
      /\ UNCHANGED <<timeline, ended, posted, load, reads, source, from, generator, cursor, wire, drops>>
      /\ messages' \in {messages, 1 .. posted}
      /\ \/ UNCHANGED <<activeTask, events>>
         \/ activeTask' = Task!RowState /\ events' = 1 .. timeline
  BY DEF Task!RefreshMessages, Task!RefreshTask, Task!server
<1>2. source = "closed" /\ wire = <<>> /\ generator = Task!Gone /\ load = "done"
  BY <1>1 DEF TaskInv, Connections
<1>3. Task!TypeOK'
  <2>1. /\ activeTask' \in {"unknown", "running", "terminal"}
        /\ events' \subseteq 1 .. timeline /\ messages' \subseteq 1 .. posted
    BY <1>1 DEF TaskInv, Task!TypeOK, Task!RowState
  <2>2. QED BY <1>1, <2>1 DEF TaskInv, Task!TypeOK, Task!Item, Task!Cursor
<1>4. generator.news = {} /\ generator.terminal = FALSE
  BY <1>2 DEF Task!Gone
<1>5. (WireInOrder /\ CursorIsSent /\ NewsInOrder /\ PollSaysEnd /\ CompleteComesLast)'
  BY <1>1, <1>2, <1>4, QuietStaysInOrder
<1>6. Connections'
  BY <1>1, <1>2 DEF TaskInv, Connections, Task!Gone
<1>7. LoadedWhole'
  <2>1. events \subseteq events' /\ (events' = events \/ events' = 1 .. timeline)
    BY <1>1, TaskTypes
  <2>2. 1 .. from.event \subseteq events
    BY <1>2 DEF TaskInv, LoadedWhole
  <2>3. QED BY <1>1, <1>2, <2>1, <2>2, TaskTypes DEF TaskInv, LoadedWhole
<1>8. EndIsLast' /\ Sticks
  BY <1>1, <1>2 DEF TaskInv, EndIsLast, Sticks, Task!RowState, LoadedWhole
<1>9. QED BY <1>3, <1>5, <1>6, <1>7, <1>8 DEF TaskInv

\* The generator runs only for an open connection.
LEMMA PollingIsOpen ==
  ASSUME TaskInv, generator.at # "gone"
  PROVE  source = "open" /\ load = "done" /\ refresh = "none"
<1>1. generator # Task!Gone
  BY DEF Task!Gone
<1>2. source = "open"
  BY <1>1 DEF TaskInv, Connections
<1>3. QED BY <1>2 DEF TaskInv, Connections

\* What a poll leaves alone, where the wire stays too.
LEMMA PollFrame ==
  ASSUME TaskInv,
         UNCHANGED <<timeline, ended, posted, load, reads, source, from, cursor, wire, activeTask,
                     events, messages, refresh, drops>>,
         source = "open",
         generator' \in [at : {"gone", "sleep", "events", "messages", "yield"},
                         terminal : BOOLEAN, news : SUBSET Task!Item]
  PROVE  /\ Task!TypeOK' /\ WireInOrder' /\ CursorIsSent' /\ CompleteComesLast' /\ Connections'
         /\ LoadedWhole' /\ Sticks
         /\ (activeTask = "terminal" => NoNewEvent') => EndIsLast'
<1>1. Task!TypeOK'
  BY DEF TaskInv, Task!TypeOK, Task!Item, Task!Cursor
<1>2. WireInOrder' /\ CursorIsSent' /\ CompleteComesLast'
  BY DEF TaskInv, WireInOrder, CursorIsSent, CompleteComesLast, Fits, Comes
<1>3. Connections' /\ LoadedWhole'
  BY DEF TaskInv, Connections, LoadedWhole
<1>4. Sticks /\ ((activeTask = "terminal" => NoNewEvent') => EndIsLast')
  BY DEF TaskInv, EndIsLast, Sticks
<1>5. QED BY <1>1, <1>2, <1>3, <1>4

LEMMA PollRowKeeps ==
  ASSUME Task!BoundsAssumption, TaskInv, Task!PollRow
  PROVE  TaskInv' /\ Sticks
<1>1. /\ generator.at = "sleep" /\ generator' = [at |-> "events", terminal |-> ended, news |-> {}]
      /\ UNCHANGED <<timeline, ended, posted, load, reads, source, from, cursor, wire, activeTask,
                     events, messages, refresh, drops>>
  BY DEF Task!PollRow, Task!server
<1>2. source = "open"
  BY <1>1, PollingIsOpen
<1>3. /\ generator' \in [at : {"gone", "sleep", "events", "messages", "yield"},
                         terminal : BOOLEAN, news : SUBSET Task!Item]
      /\ generator'.at = "events" /\ generator'.terminal = ended /\ generator'.news = {}
  BY <1>1, TaskTypes
<1>4. NewsInOrder' /\ PollSaysEnd' /\ NoNewEvent'
  BY <1>1, <1>3 DEF NewsInOrder, PollSaysEnd, NoNewEvent
<1>5. QED BY <1>1, <1>2, <1>3, <1>4, PollFrame DEF TaskInv

LEMMA ItemsAre ==
  ASSUME TaskInv
  PROVE  /\ Task!EventItems \in SUBSET Task!Item /\ Task!MessageItems \in SUBSET Task!Item
         /\ \A x \in Task!EventItems :
              x.kind = "event" /\ x.id \in cursor.event + 1 .. timeline /\ Fits(x)
         /\ \A x, y \in Task!EventItems : x.id = y.id => x = y
         /\ \A e \in cursor.event + 1 .. timeline : \E x \in Task!EventItems : x.id = e
         /\ \A x \in Task!MessageItems : x.kind = "message" /\ Fits(x)
<1>1. cursor.event \in Nat /\ cursor.message \in Nat /\ timeline \in Nat /\ posted \in Nat
      /\ ended \in BOOLEAN
  BY TaskTypes
<1>2. \A e \in cursor.event + 1 .. timeline : e \in 1 .. timeline /\ Task!EndsTask(e) \in BOOLEAN
  BY <1>1 DEF Task!EndsTask
<1>3. \A n \in cursor.message + 1 .. posted : n \in 1 .. posted
  BY <1>1
<1>4. Task!EventItems \in SUBSET Task!Item
  BY <1>2 DEF Task!EventItems, Task!Item
<1>5. Task!MessageItems \in SUBSET Task!Item
  <2> SUFFICES ASSUME NEW n \in cursor.message + 1 .. posted
               PROVE  [kind |-> "message", id |-> n, end |-> FALSE] \in Task!Item
    BY DEF Task!MessageItems
  <2>1. n \in Nat /\ FALSE \in BOOLEAN
    BY <1>3
  <2>2. QED BY <2>1 DEF Task!Item
<1>6. \A x \in Task!EventItems :
        x.kind = "event" /\ x.id \in cursor.event + 1 .. timeline /\ (x.end <=> Task!EndsTask(x.id))
  BY DEF Task!EventItems
<1>7. \A x \in Task!EventItems : Fits(x)
  BY <1>2, <1>6 DEF Fits, Task!EndsTask
<1>8. \A x \in Task!MessageItems : x.kind = "message" /\ x.id \in cursor.message + 1 .. posted
  BY DEF Task!MessageItems
<1>9. \A x \in Task!MessageItems : Fits(x)
  BY <1>3, <1>8 DEF Fits
<1>10. \A x, y \in Task!EventItems : x.id = y.id => x = y
  BY DEF Task!EventItems
<1>11. \A e \in cursor.event + 1 .. timeline : \E x \in Task!EventItems : x.id = e
  <2> SUFFICES ASSUME NEW e \in cursor.event + 1 .. timeline
               PROVE  \E x \in Task!EventItems : x.id = e
    OBVIOUS
  <2>1. [kind |-> "event", id |-> e, end |-> Task!EndsTask(e)] \in Task!EventItems
    BY DEF Task!EventItems
  <2>2. QED BY <2>1
<1>12. QED BY <1>4, <1>5, <1>6, <1>7, <1>8, <1>9, <1>10, <1>11

LEMMA PollEventsKeeps ==
  ASSUME Task!BoundsAssumption, TaskInv, Task!PollEvents
  PROVE  TaskInv' /\ Sticks
<1>1. /\ generator.at = "events"
      /\ generator' = [generator EXCEPT !.at = "messages", !.news = Task!EventItems]
      /\ UNCHANGED <<timeline, ended, posted, load, reads, source, from, cursor, wire, activeTask,
                     events, messages, refresh, drops>>
  BY DEF Task!PollEvents, Task!server
<1>2. source = "open"
  BY <1>1, PollingIsOpen
<1>3. generator \in [at : {"gone", "sleep", "events", "messages", "yield"},
                     terminal : BOOLEAN, news : SUBSET Task!Item]
  BY DEF TaskInv, Task!TypeOK
<1>4. /\ generator'.at = "messages" /\ generator'.terminal = generator.terminal
      /\ generator'.news = Task!EventItems
      /\ generator' \in [at : {"gone", "sleep", "events", "messages", "yield"},
                         terminal : BOOLEAN, news : SUBSET Task!Item]
  BY <1>1, <1>3, ItemsAre
<1>5. \A item : Fits(item) => Fits(item)'
  BY <1>1 DEF Fits
<1>6. NewsInOrder'
  <2> SUFFICES ASSUME NEW x \in Task!EventItems
               PROVE  /\ Fits(x)' /\ x.kind # "complete"
                      /\ x.kind = "event" =>
                           /\ x.id > cursor.event
                           /\ \A e \in cursor.event + 1 .. x.id - 1 :
                                \E y \in Task!EventItems : y.kind = "event" /\ y.id = e
                           /\ \A y \in Task!EventItems : y.kind = "event" /\ y.id = x.id => y = x
    BY <1>1, <1>4 DEF NewsInOrder
  <2>1. x.kind = "event" /\ x.id \in cursor.event + 1 .. timeline /\ Fits(x)
    BY ItemsAre
  <2>2. x.id > cursor.event /\ cursor.event + 1 .. x.id - 1 \subseteq cursor.event + 1 .. timeline
    BY <2>1, TaskTypes
  <2>3. QED BY <1>5, <2>1, <2>2, ItemsAre
<1>7. NoNewEvent' => cursor.event >= timeline
  <2> SUFFICES ASSUME cursor.event < timeline
               PROVE  ~NoNewEvent'
    BY TaskTypes
  <2>1. timeline \in cursor.event + 1 .. timeline
    BY TaskTypes
  <2>2. PICK x \in Task!EventItems : x.id = timeline
    BY <2>1, ItemsAre
  <2>3. QED BY <1>4, <2>2, ItemsAre DEF NoNewEvent
<1>8. cursor.event >= timeline => NoNewEvent'
  <2> SUFFICES ASSUME cursor.event >= timeline
               PROVE  NoNewEvent'
    OBVIOUS
  <2>1. cursor.event + 1 .. timeline = {}
    BY TaskTypes
  <2>2. Task!EventItems = {}
    BY <2>1, ItemsAre
  <2>3. QED BY <1>4, <2>2 DEF NoNewEvent
<1>9. PollSaysEnd'
  BY <1>1, <1>4, <1>7 DEF TaskInv, PollSaysEnd
<1>10. activeTask = "terminal" => NoNewEvent'
  BY <1>2, <1>8 DEF TaskInv, EndIsLast
<1>11. QED BY <1>1, <1>2, <1>4, <1>6, <1>9, <1>10, PollFrame DEF TaskInv

\* What stays when an item follows the others on the wire.
LEMMA Follows ==
  ASSUME TaskInv, NEW item \in Task!Item, wire' = Append(wire, item),
         UNCHANGED <<timeline, ended, posted, events>>, NEW n \in Nat, n = Len(wire)
  PROVE  /\ wire' \in Seq(Task!Item) /\ Len(wire') = n + 1
         /\ DOMAIN wire' = 1 .. n + 1 /\ wire'[n + 1] = item
         /\ \A i \in 1 .. n : wire'[i] = wire[i]
         /\ \A e : \A k \in 0 .. n : Comes(e, k) => Comes(e, k)' /\ Comes(e, n + 1)'
<1>1. n = Len(wire) /\ DOMAIN wire = 1 .. n
  BY TaskTypes
<1>2. wire \in Seq(Task!Item)
  BY TaskTypes
<1>3. /\ wire' \in Seq(Task!Item) /\ Len(wire') = n + 1 /\ wire'[n + 1] = item
      /\ \A i \in 1 .. n : wire'[i] = wire[i]
  BY <1>1, <1>2
<1>4. DOMAIN wire' = 1 .. n + 1
  BY <1>3
<1>5. \A e : \A k \in 0 .. n : Comes(e, k) => Comes(e, k)' /\ Comes(e, n + 1)'
  <2> SUFFICES ASSUME NEW e, NEW k \in 0 .. n, Comes(e, k)
               PROVE  Comes(e, k)' /\ Comes(e, n + 1)'
    OBVIOUS
  <2>1. CASE e \in events
    BY <2>1 DEF Comes
  <2>2. CASE \E j \in 1 .. k : wire[j].kind = "event" /\ wire[j].id = e
    <3>1. PICK j \in 1 .. k : wire[j].kind = "event" /\ wire[j].id = e
      BY <2>2
    <3>2. j \in 1 .. n /\ j \in 1 .. n + 1 /\ wire'[j] = wire[j]
      BY <1>3
    <3>3. QED BY <3>1, <3>2 DEF Comes
  <2>3. QED BY <2>1, <2>2 DEF Comes
<1>6. QED BY <1>3, <1>4, <1>5

LEMMA CompletesKeep ==
  ASSUME Task!BoundsAssumption, TaskInv, Task!PollMessages,
         generator.terminal /\ generator.news \cup Task!MessageItems = {}
  PROVE  TaskInv' /\ Sticks
<1> DEFINE item == [kind |-> "complete", id |-> 0, end |-> FALSE]
<1>1. /\ generator.at = "messages" /\ generator' = Task!Gone /\ wire' = Append(wire, item)
      /\ UNCHANGED <<timeline, ended, posted, load, reads, source, from, cursor, activeTask,
                     events, messages, refresh, drops>>
  BY DEF Task!PollMessages, Task!server
<1>2. source = "open" /\ load = "done" /\ refresh = "none"
  BY <1>1, PollingIsOpen
<1>3. item \in Task!Item /\ item.kind = "complete"
  <2>1. FALSE \in BOOLEAN /\ 0 \in Nat
    OBVIOUS
  <2>2. QED BY <2>1 DEF Task!Item
<1> HIDE DEF item
<1>5. PICK n \in Nat : n = Len(wire) /\ DOMAIN wire = 1 .. n
  BY TaskTypes
<1>4. /\ wire' \in Seq(Task!Item) /\ Len(wire') = n + 1
      /\ DOMAIN wire' = 1 .. n + 1 /\ wire'[n + 1] = item
      /\ \A i \in 1 .. n : wire'[i] = wire[i]
      /\ \A e : \A k \in 0 .. n : Comes(e, k) => Comes(e, k)' /\ Comes(e, n + 1)'
  BY <1>1, <1>3, <1>5, Follows
<1>6. /\ generator' \in [at : {"gone", "sleep", "events", "messages", "yield"},
                         terminal : BOOLEAN, news : SUBSET Task!Item]
      /\ generator'.news = {} /\ generator'.terminal = FALSE
  BY <1>1 DEF Task!Gone
<1>7. Task!TypeOK'
  BY <1>1, <1>4, <1>6 DEF TaskInv, Task!TypeOK, Task!Item, Task!Cursor
<1>8. cursor.event >= timeline /\ ended
  BY <1>1 DEF TaskInv, PollSaysEnd, NoNewEvent
<1>9. CursorIsSent'
  <2>1. \A e \in 1 .. cursor.event : Comes(e, n)
    BY <1>2, <1>5 DEF TaskInv, CursorIsSent
  <2>2. \A e \in 1 .. cursor.event : Comes(e, n + 1)'
    BY <1>4, <1>5, <2>1
  <2>3. QED BY <1>1, <1>4, <2>2 DEF CursorIsSent
<1>10. WireInOrder'
  <2> SUFFICES ASSUME NEW i \in 1 .. n + 1
               PROVE  /\ Fits(wire[i])'
                      /\ wire'[i].kind = "event" =>
                           /\ wire'[i].id <= cursor.event
                           /\ \A e \in 1 .. wire'[i].id - 1 : Comes(e, i - 1)'
                           /\ \A j \in 1 .. i - 1 : wire'[j].kind = "event" => wire'[j].id < wire'[i].id
    BY <1>1, <1>4 DEF WireInOrder
  <2>1. CASE i = n + 1
    BY <1>3, <1>4, <2>1 DEF Fits
  <2>2. CASE i # n + 1
    <3>1. i \in 1 .. n /\ i - 1 \in 0 .. n /\ wire'[i] = wire[i]
      BY <1>4, <1>5, <2>2
    <3>2. \A j \in 1 .. i - 1 : j \in 1 .. n /\ wire'[j] = wire[j]
      BY <1>4, <1>5, <3>1
    <3>3. /\ Fits(wire[i])
          /\ wire[i].kind = "event" =>
               /\ wire[i].id <= cursor.event
               /\ \A e \in 1 .. wire[i].id - 1 : Comes(e, i - 1)
               /\ \A j \in 1 .. i - 1 : wire[j].kind = "event" => wire[j].id < wire[i].id
      BY <1>5, <3>1 DEF TaskInv, WireInOrder
    <3>4. Fits(wire[i])'
      BY <1>1, <3>1, <3>3 DEF Fits
    <3>5. QED BY <1>4, <3>1, <3>2, <3>3, <3>4
  <2>3. QED BY <2>1, <2>2
<1>11. NewsInOrder' /\ PollSaysEnd' /\ NoNewEvent'
  BY <1>6 DEF NewsInOrder, PollSaysEnd, NoNewEvent
<1>12. CompleteComesLast'
  <2> SUFFICES ASSUME NEW i \in 1 .. n + 1, wire'[i].kind = "complete"
               PROVE  \A e \in 1 .. timeline : Comes(e, i)'
    BY <1>1, <1>4, <1>8 DEF CompleteComesLast
  <2>1. CASE i = n + 1
    <3>1. \A e \in 1 .. timeline : e \in 1 .. cursor.event
      BY <1>8, TaskTypes
    <3>2. \A e \in 1 .. timeline : Comes(e, n)
      BY <1>2, <1>5, <3>1 DEF TaskInv, CursorIsSent
    <3>3. QED BY <1>4, <1>5, <2>1, <3>2
  <2>2. CASE i # n + 1
    <3>1. i \in 1 .. n /\ i \in 0 .. n /\ wire'[i] = wire[i]
      BY <1>4, <1>5, <2>2
    <3>2. \A e \in 1 .. timeline : Comes(e, i)
      BY <1>5, <3>1 DEF TaskInv, CompleteComesLast
    <3>3. QED BY <1>4, <3>1, <3>2
  <2>3. QED BY <2>1, <2>2
<1>13. Connections' /\ LoadedWhole' /\ Sticks
  BY <1>1, <1>2 DEF TaskInv, Connections, LoadedWhole, Sticks
<1>14. EndIsLast'
  <2>1. activeTask = "terminal" => \A i \in DOMAIN wire' : wire'[i].kind # "event"
    <3> SUFFICES ASSUME activeTask = "terminal", NEW i \in 1 .. n + 1
                 PROVE  wire'[i].kind # "event"
      BY <1>4
    <3>1. i = n + 1 \/ i \in 1 .. n
      BY <1>5
    <3>2. QED BY <1>2, <1>3, <1>4, <1>5, <3>1 DEF TaskInv, EndIsLast
  <2>2. QED BY <1>1, <1>11, <2>1 DEF TaskInv, EndIsLast
<1>15. QED BY <1>7, <1>9, <1>10, <1>11, <1>12, <1>13, <1>14 DEF TaskInv

LEMMA PollMessagesKeeps ==
  ASSUME Task!BoundsAssumption, TaskInv, Task!PollMessages
  PROVE  TaskInv' /\ Sticks
<1> DEFINE news == generator.news \cup Task!MessageItems
<1>1. CASE generator.terminal /\ news = {}
  BY <1>1, CompletesKeep
<1>2. CASE ~(generator.terminal /\ news = {})
  <2>1. /\ generator.at = "messages"
        /\ generator' = [Task!Asleep EXCEPT !.at = IF news = {} THEN "sleep" ELSE "yield", !.news = news]
        /\ UNCHANGED <<timeline, ended, posted, load, reads, source, from, cursor, wire, activeTask,
                       events, messages, refresh, drops>>
    BY <1>2 DEF Task!PollMessages, Task!server
  <2>2. source = "open"
    BY <2>1, PollingIsOpen
  <2>3. news \in SUBSET Task!Item
    BY TaskTypes, ItemsAre
  <2>4. \A x \in news : x \in generator.news \/ x \in Task!MessageItems
    OBVIOUS
  <2>5. generator.news \subseteq news
    OBVIOUS
  <2> HIDE DEF news
  <2>6. /\ generator' \in [at : {"gone", "sleep", "events", "messages", "yield"},
                           terminal : BOOLEAN, news : SUBSET Task!Item]
        /\ generator'.at \in {"sleep", "yield"} /\ generator'.terminal = FALSE /\ generator'.news = news
    BY <2>1, <2>3 DEF Task!Asleep
  <2>7. \A item : Fits(item) => Fits(item)'
    BY <2>1 DEF Fits
  <2>8. NewsInOrder'
    <3> SUFFICES ASSUME NEW x \in news
                 PROVE  /\ Fits(x)' /\ x.kind # "complete"
                        /\ x.kind = "event" =>
                             /\ x.id > cursor.event
                             /\ \A e \in cursor.event + 1 .. x.id - 1 :
                                  \E y \in news : y.kind = "event" /\ y.id = e
                             /\ \A y \in news : y.kind = "event" /\ y.id = x.id => y = x
      <4>1. generator'.news = news /\ cursor' = cursor
        BY <2>1, <2>6
      <4>2. QED BY <4>1 DEF NewsInOrder
    <3>1. CASE x \in Task!MessageItems
      BY <2>7, <3>1, ItemsAre
    <3>2. CASE x \in generator.news
      <4>1. \A y \in news : y.kind = "event" => y \in generator.news
        BY <2>4, ItemsAre
      <4>2. QED BY <2>5, <2>7, <3>2, <4>1 DEF TaskInv, NewsInOrder
    <3>3. QED BY <2>4, <3>1, <3>2
  <2>9. PollSaysEnd'
    BY <2>6 DEF PollSaysEnd
  <2>10. activeTask = "terminal" => NoNewEvent'
    <3>1. activeTask = "terminal" => NoNewEvent
      BY <2>2 DEF TaskInv, EndIsLast
    <3>2. NoNewEvent => NoNewEvent'
      BY <2>4, <2>6, ItemsAre DEF NoNewEvent
    <3>3. QED BY <3>1, <3>2
  <2>11. QED BY <2>1, <2>2, <2>6, <2>8, <2>9, <2>10, PollFrame DEF TaskInv
<1>3. QED BY <1>1, <1>2

\* The first of the news is the event after the cursor, or a message.
LEMMA FirstNews ==
  ASSUME TaskInv, NEW item \in generator.news,
         \A other \in generator.news : other.kind = item.kind => item.id <= other.id
  PROVE  /\ item \in Task!Item /\ item.kind \in {"event", "message"} /\ Fits(item)
         /\ item.kind = "event" => item.id = cursor.event + 1 /\ item.id \in 1 .. timeline
         /\ item.kind = "message" => item.id \in 1 .. posted
<1>1. item \in Task!Item
  BY TaskTypes
<1>2. item.kind \in {"event", "message"} /\ Fits(item)
  BY <1>1 DEF TaskInv, NewsInOrder, Task!Item
<1>3. ASSUME item.kind = "event"
      PROVE  item.id = cursor.event + 1 /\ item.id \in 1 .. timeline
  <2>1. item.id \in 1 .. timeline /\ item.id > cursor.event
    BY <1>2, <1>3 DEF Fits, TaskInv, NewsInOrder
  <2>2. item.id \in Nat /\ cursor.event \in Nat
    BY <2>1, TaskTypes
  <2>3. item.id <= cursor.event + 1
    <3> SUFFICES ASSUME item.id > cursor.event + 1
                 PROVE  FALSE
      BY <2>2
    <3>1. cursor.event + 1 \in cursor.event + 1 .. item.id - 1
      BY <2>2
    <3>2. PICK y \in generator.news : y.kind = "event" /\ y.id = cursor.event + 1
      BY <1>3, <3>1 DEF TaskInv, NewsInOrder
    <3>3. QED BY <1>3, <2>2, <3>2
  <2>4. QED BY <2>1, <2>2, <2>3
<1>4. item.kind = "message" => item.id \in 1 .. posted
  BY <1>2 DEF Fits
<1>5. QED BY <1>1, <1>2, <1>3, <1>4

LEMMA WireItems ==
  ASSUME TaskInv
  PROVE  \A i \in DOMAIN wire :
           wire[i].kind \in {"event", "message", "complete"} /\ wire[i].id \in Nat
<1>1. \A i \in DOMAIN wire : wire[i] \in Task!Item
  BY TaskTypes
<1>2. QED BY <1>1 DEF Task!Item

LEMMA YieldKeeps ==
  ASSUME Task!BoundsAssumption, TaskInv, Task!Yield
  PROVE  TaskInv' /\ Sticks
<1>1. /\ generator.at = "yield"
      /\ UNCHANGED <<timeline, ended, posted, load, reads, source, from, activeTask,
                     events, messages, refresh, drops>>
  BY DEF Task!Yield, Task!server
<1>2. PICK item \in generator.news :
        /\ \A other \in generator.news : other.kind = item.kind => item.id <= other.id
        /\ wire' = Append(wire, item)
        /\ cursor' = [cursor EXCEPT ![item.kind] = item.id]
        /\ generator' = [generator EXCEPT !.news = @ \ {item},
                                          !.at = IF generator.news = {item} THEN "sleep" ELSE "yield"]
  BY DEF Task!Yield
<1>3. source = "open" /\ load = "done" /\ refresh = "none"
  BY <1>1, PollingIsOpen
<1>4. /\ item \in Task!Item /\ item.kind \in {"event", "message"} /\ Fits(item)
      /\ item.kind = "event" => item.id = cursor.event + 1 /\ item.id \in 1 .. timeline
      /\ item.kind = "message" => item.id \in 1 .. posted
  BY <1>2, FirstNews
<1>5. PICK n \in Nat : n = Len(wire) /\ DOMAIN wire = 1 .. n
  BY TaskTypes
<1>6. /\ wire' \in Seq(Task!Item) /\ Len(wire') = n + 1
      /\ DOMAIN wire' = 1 .. n + 1 /\ wire'[n + 1] = item
      /\ \A i \in 1 .. n : wire'[i] = wire[i]
      /\ \A e : \A k \in 0 .. n : Comes(e, k) => Comes(e, k)' /\ Comes(e, n + 1)'
  BY <1>1, <1>2, <1>4, <1>5, Follows
<1>7. cursor \in Task!Cursor
  BY DEF TaskInv, Task!TypeOK
<1>8. /\ cursor' \in Task!Cursor
      /\ cursor'.event = IF item.kind = "event" THEN cursor.event + 1 ELSE cursor.event
  <2>1. timeline \in 1 .. MaxEvents /\ posted \in 0 .. MaxMessages /\ cursor.event \in Nat
    BY TaskTypes DEF TaskInv, Task!TypeOK
  <2>2. CASE item.kind = "event"
    <3>1. item.id \in 0 .. MaxEvents /\ item.id = cursor.event + 1
      BY <1>4, <2>1, <2>2 DEF Task!BoundsAssumption
    <3>2. QED BY <1>2, <1>7, <2>2, <3>1 DEF Task!Cursor
  <2>3. CASE item.kind = "message"
    <3>1. item.id \in 0 .. MaxMessages
      BY <1>4, <2>1, <2>3 DEF Task!BoundsAssumption
    <3>2. QED BY <1>2, <1>7, <2>3, <3>1 DEF Task!Cursor
  <2>4. QED BY <1>4, <2>2, <2>3
<1>9. /\ generator' \in [at : {"gone", "sleep", "events", "messages", "yield"},
                         terminal : BOOLEAN, news : SUBSET Task!Item]
      /\ generator'.at \in {"sleep", "yield"} /\ generator'.terminal = generator.terminal
      /\ generator'.news = generator.news \ {item}
  <2>1. generator \in [at : {"gone", "sleep", "events", "messages", "yield"},
                       terminal : BOOLEAN, news : SUBSET Task!Item]
    BY DEF TaskInv, Task!TypeOK
  <2>2. QED BY <1>2, <2>1
<1>10. Task!TypeOK'
  BY <1>1, <1>6, <1>8, <1>9 DEF TaskInv, Task!TypeOK, Task!Item
<1>11. cursor.event \in Nat /\ cursor'.event \in Nat /\ cursor.event <= cursor'.event
  BY <1>8, TaskTypes
<1>12. \A e \in 1 .. cursor.event : Comes(e, n)
  BY <1>3, <1>5 DEF TaskInv, CursorIsSent
<1>13. CursorIsSent'
  <2>1. \A e \in 1 .. cursor.event : Comes(e, n + 1)'
    BY <1>5, <1>6, <1>12
  <2>2. ASSUME NEW e \in 1 .. cursor'.event
        PROVE  Comes(e, n + 1)'
    <3>1. CASE e \in 1 .. cursor.event
      BY <2>1, <3>1
    <3>2. CASE e \notin 1 .. cursor.event
      <4>1. item.kind = "event" /\ e = cursor.event + 1
        BY <1>8, <1>11, <3>2
      <4>2. wire'[n + 1].kind = "event" /\ wire'[n + 1].id = e /\ n + 1 \in 1 .. n + 1
        BY <1>4, <1>6, <4>1
      <4>3. QED BY <4>2 DEF Comes
    <3>3. QED BY <3>1, <3>2
  <2>3. QED BY <1>1, <1>6, <2>2 DEF CursorIsSent
<1>14. \A x : Fits(x) => Fits(x)'
  BY <1>1 DEF Fits
<1>15. WireInOrder'
  <2> SUFFICES ASSUME NEW i \in 1 .. n + 1
               PROVE  /\ Fits(wire[i])'
                      /\ wire'[i].kind = "event" =>
                           /\ wire'[i].id <= cursor'.event
                           /\ \A e \in 1 .. wire'[i].id - 1 : Comes(e, i - 1)'
                           /\ \A j \in 1 .. i - 1 : wire'[j].kind = "event" => wire'[j].id < wire'[i].id
    BY <1>6 DEF WireInOrder
  <2>1. CASE i = n + 1
    <3>1. i - 1 = n /\ n \in 0 .. n /\ wire'[i] = item
      BY <1>5, <1>6, <2>1
    <3>2. Fits(wire[i])'
      BY <1>4, <1>14, <3>1 DEF Fits
    <3>3. ASSUME item.kind = "event"
          PROVE  /\ item.id = cursor'.event /\ item.id = cursor.event + 1
                 /\ \A e \in 1 .. item.id - 1 : Comes(e, n)'
                 /\ \A j \in 1 .. n : wire'[j].kind = "event" => wire'[j].id < item.id
      <4>1. item.id = cursor.event + 1 /\ item.id = cursor'.event
        BY <1>4, <1>8, <3>3
      <4>2. \A e \in 1 .. item.id - 1 : Comes(e, n)'
        BY <1>6, <1>11, <1>12, <3>1, <4>1
      <4>3. \A j \in 1 .. n : wire[j].kind = "event" => wire[j].id <= cursor.event
        BY <1>5 DEF TaskInv, WireInOrder
      <4>4. \A j \in 1 .. n : wire[j].id \in Nat
        BY <1>5, WireItems
      <4>5. \A j \in 1 .. n : wire'[j].kind = "event" => wire'[j].id < item.id
        BY <1>6, <1>11, <4>1, <4>3, <4>4
      <4>6. QED BY <4>1, <4>2, <4>5
    <3>4. QED BY <1>11, <3>1, <3>2, <3>3
  <2>2. CASE i # n + 1
    <3>1. i \in 1 .. n /\ i - 1 \in 0 .. n /\ wire'[i] = wire[i]
      BY <1>5, <1>6, <2>2
    <3>2. \A j \in 1 .. i - 1 : j \in 1 .. n /\ wire'[j] = wire[j]
      BY <1>5, <1>6, <3>1
    <3>3. /\ Fits(wire[i])
          /\ wire[i].kind = "event" =>
               /\ wire[i].id <= cursor.event
               /\ \A e \in 1 .. wire[i].id - 1 : Comes(e, i - 1)
               /\ \A j \in 1 .. i - 1 : wire[j].kind = "event" => wire[j].id < wire[i].id
      BY <1>5, <3>1 DEF TaskInv, WireInOrder
    <3>4. Fits(wire[i])'
      BY <1>1, <3>1, <3>3 DEF Fits
    <3>5. wire[i].id \in Nat
      BY <1>5, <3>1, WireItems
    <3>6. wire[i].kind = "event" => wire[i].id <= cursor'.event
      BY <1>11, <3>3, <3>5
    <3>7. QED BY <1>6, <3>1, <3>2, <3>3, <3>4, <3>6
  <2>3. QED BY <2>1, <2>2
<1>16. NewsInOrder'
  <2> DEFINE news == generator.news \ {item}
  <2> SUFFICES ASSUME NEW x \in news
               PROVE  /\ Fits(x)' /\ x.kind # "complete"
                      /\ x.kind = "event" =>
                           /\ x.id > cursor'.event
                           /\ \A e \in cursor'.event + 1 .. x.id - 1 :
                                \E y \in news : y.kind = "event" /\ y.id = e
                           /\ \A y \in news : y.kind = "event" /\ y.id = x.id => y = x
    <3>1. generator'.news = news
      BY <1>9
    <3> HIDE DEF news
    <3>2. QED BY <3>1 DEF NewsInOrder
  <2>1. /\ x \in generator.news /\ Fits(x) /\ x.kind # "complete"
        /\ x.kind = "event" =>
             /\ x.id > cursor.event
             /\ \A e \in cursor.event + 1 .. x.id - 1 :
                  \E y \in generator.news : y.kind = "event" /\ y.id = e
             /\ \A y \in generator.news : y.kind = "event" /\ y.id = x.id => y = x
    BY DEF TaskInv, NewsInOrder
  <2>2. x.id \in Nat
    BY <2>1, TaskTypes DEF Task!Item
  <2>3. ASSUME x.kind = "event"
        PROVE  /\ x.id > cursor'.event
               /\ \A e \in cursor'.event + 1 .. x.id - 1 :
                    \E y \in news : y.kind = "event" /\ y.id = e
    <3>1. x.id > cursor'.event
      <4>1. CASE item.kind = "event"
        <5>1. item.id = cursor.event + 1 /\ cursor'.event = cursor.event + 1
          BY <1>4, <1>8, <4>1
        <5>2. x.id # item.id
          BY <2>1, <2>3, <4>1
        <5>3. QED BY <1>11, <2>1, <2>2, <2>3, <5>1, <5>2
      <4>2. CASE item.kind # "event"
        BY <1>8, <2>1, <2>3, <4>2
      <4>3. QED BY <4>1, <4>2
    <3>2. ASSUME NEW e \in cursor'.event + 1 .. x.id - 1
          PROVE  \E y \in news : y.kind = "event" /\ y.id = e
      <4>1. e \in cursor.event + 1 .. x.id - 1
        BY <1>11, <2>2
      <4>2. PICK y \in generator.news : y.kind = "event" /\ y.id = e
        BY <2>1, <2>3, <4>1
      <4>3. y # item
        <5>1. item.kind = "event" => item.id < e
          BY <1>4, <1>8, <1>11, <2>2
        <5>2. QED BY <1>11, <2>2, <4>2, <5>1
      <4>4. QED BY <4>2, <4>3
    <3>3. QED BY <3>1, <3>2
  <2>4. QED BY <1>14, <2>1, <2>3
<1>17. PollSaysEnd'
  BY <1>1, <1>9 DEF TaskInv, PollSaysEnd
<1>18. CompleteComesLast'
  <2> SUFFICES ASSUME NEW i \in 1 .. n + 1, wire'[i].kind = "complete"
               PROVE  ended /\ \A e \in 1 .. timeline : Comes(e, i)'
    BY <1>1, <1>6 DEF CompleteComesLast
  <2>1. i \in 1 .. n /\ i \in 0 .. n /\ wire'[i] = wire[i]
    BY <1>4, <1>5, <1>6
  <2>2. ended /\ \A e \in 1 .. timeline : Comes(e, i)
    BY <1>5, <2>1 DEF TaskInv, CompleteComesLast
  <2>3. QED BY <1>6, <2>1, <2>2
<1>19. Connections' /\ LoadedWhole' /\ Sticks
  BY <1>1, <1>3 DEF TaskInv, Connections, LoadedWhole, Sticks
<1>20. EndIsLast'
  <2>1. ASSUME activeTask = "terminal"
        PROVE  /\ cursor'.event >= timeline /\ NoNewEvent'
               /\ \A i \in DOMAIN wire' : wire'[i].kind # "event"
    <3>1. /\ cursor.event >= timeline /\ NoNewEvent
          /\ \A i \in DOMAIN wire : wire[i].kind # "event"
      BY <1>3, <2>1 DEF TaskInv, EndIsLast
    <3>2. cursor'.event >= timeline
      BY <1>11, <3>1, TaskTypes
    <3>3. NoNewEvent' /\ item.kind # "event"
      BY <1>9, <3>1 DEF NoNewEvent
    <3>4. \A i \in 1 .. n + 1 : i = n + 1 \/ i \in 1 .. n
      OBVIOUS
    <3>5. QED BY <1>5, <1>6, <3>1, <3>2, <3>3, <3>4
  <2>2. QED BY <1>1, <2>1 DEF TaskInv, EndIsLast
<1>21. QED BY <1>10, <1>13, <1>15, <1>16, <1>17, <1>18, <1>19, <1>20 DEF TaskInv

\* What stays when the browser has taken the first item.
LEMMA TakenFirst ==
  ASSUME TaskInv, wire # <<>>, wire' = Tail(wire),
         \/ wire[1].kind = "event" /\ events' = events \cup {wire[1].id}
         \/ wire[1].kind # "event" /\ events' = events,
         NEW n \in Nat, n + 1 = Len(wire)
  PROVE  /\ wire' \in Seq(Task!Item) /\ Len(wire') = n /\ DOMAIN wire' = 1 .. n
         /\ \A i \in 1 .. n : wire'[i] = wire[i + 1]
         /\ \A e : \A k \in 1 .. n + 1 : Comes(e, k) => Comes(e, k - 1)'
         /\ \A e : Comes(e, 0) => Comes(e, 0)'
<1>1. wire \in Seq(Task!Item) /\ Len(wire) = n + 1
  BY TaskTypes
<1>2. wire' \in Seq(Task!Item) /\ Len(wire') = n /\ \A i \in 1 .. n : wire'[i] = wire[i + 1]
  BY <1>1
<1>3. DOMAIN wire' = 1 .. n
  BY <1>2
<1>4. events \subseteq events'
  OBVIOUS
<1>5. \A e : \A k \in 1 .. n + 1 : Comes(e, k) => Comes(e, k - 1)'
  <2> SUFFICES ASSUME NEW e, NEW k \in 1 .. n + 1, Comes(e, k)
               PROVE  Comes(e, k - 1)'
    OBVIOUS
  <2>1. CASE e \in events
    BY <1>4, <2>1 DEF Comes
  <2>2. CASE \E j \in 1 .. k : wire[j].kind = "event" /\ wire[j].id = e
    <3>1. PICK j \in 1 .. k : wire[j].kind = "event" /\ wire[j].id = e
      BY <2>2
    <3>2. CASE j = 1
      <4>1. e \in events'
        BY <3>1, <3>2
      <4>2. QED BY <4>1 DEF Comes
    <3>3. CASE j # 1
      <4>1. j - 1 \in 1 .. k - 1 /\ j - 1 \in 1 .. n /\ wire'[j - 1] = wire[j]
        BY <1>2, <3>3
      <4>2. QED BY <3>1, <4>1 DEF Comes
    <3>4. QED BY <3>2, <3>3
  <2>3. QED BY <2>1, <2>2 DEF Comes
<1>6. \A e : Comes(e, 0) => Comes(e, 0)'
  BY <1>4 DEF Comes
<1>7. QED BY <1>2, <1>3, <1>5, <1>6

\* The first event on the wire is held, or follows those that are.
LEMMA FirstOfWire ==
  ASSUME TaskInv, wire # <<>>
  PROVE  /\ 1 \in DOMAIN wire /\ Fits(wire[1])
         /\ wire[1].kind = "event" =>
              /\ wire[1].id <= cursor.event
              /\ \A e \in 1 .. wire[1].id - 1 : e \in events
<1>1. PICK n \in Nat : n = Len(wire) /\ DOMAIN wire = 1 .. n
  BY TaskTypes
<1>2. wire \in Seq(Task!Item) /\ Len(wire) # 0
  BY TaskTypes
<1>3. 1 \in DOMAIN wire
  BY <1>1, <1>2
<1>4. /\ Fits(wire[1])
      /\ wire[1].kind = "event" =>
           /\ wire[1].id <= cursor.event
           /\ \A e \in 1 .. wire[1].id - 1 : Comes(e, 0)
  BY <1>3 DEF TaskInv, WireInOrder
<1>5. QED BY <1>3, <1>4 DEF Comes

LEMMA TakesKeep ==
  ASSUME Task!BoundsAssumption, TaskInv, source = "open", wire # <<>>, wire' = Tail(wire),
         UNCHANGED <<timeline, ended, posted, load, reads, source, from, generator, cursor,
                     refresh, drops>>,
         \/ /\ wire[1].kind = "event" /\ events' = events \cup {wire[1].id}
            /\ activeTask' = IF wire[1].end THEN "terminal" ELSE "running"
            /\ messages' = messages
         \/ /\ wire[1].kind = "message" /\ messages' = messages \cup {wire[1].id}
            /\ UNCHANGED <<events, activeTask>>
  PROVE  TaskInv' /\ Sticks
<1>1. PICK n \in Nat : n + 1 = Len(wire) /\ DOMAIN wire = 1 .. n + 1
  <2>1. wire \in Seq(Task!Item) /\ Len(wire) # 0
    BY TaskTypes
  <2>2. PICK m \in Nat : m = Len(wire) /\ DOMAIN wire = 1 .. m
    BY TaskTypes
  <2>3. m - 1 \in Nat /\ (m - 1) + 1 = m
    BY <2>1, <2>2
  <2>4. QED BY <2>2, <2>3
<1>2. /\ wire' \in Seq(Task!Item) /\ Len(wire') = n /\ DOMAIN wire' = 1 .. n
      /\ \A i \in 1 .. n : wire'[i] = wire[i + 1]
      /\ \A e : \A k \in 1 .. n + 1 : Comes(e, k) => Comes(e, k - 1)'
      /\ \A e : Comes(e, 0) => Comes(e, 0)'
  BY <1>1, TakenFirst
<1>3. load = "done" /\ refresh = "none" /\ reads = {"task", "events"}
  BY DEF TaskInv, Connections, LoadedWhole
<1>4. /\ Fits(wire[1]) /\ wire[1].id \in Nat
      /\ wire[1].kind = "event" =>
           /\ wire[1].id <= cursor.event /\ wire[1].id \in 1 .. timeline
           /\ \A e \in 1 .. wire[1].id - 1 : e \in events
           /\ (wire[1].end <=> ended /\ wire[1].id = timeline)
      /\ wire[1].kind = "message" => wire[1].id \in 1 .. posted
  BY FirstOfWire, WireItems DEF Fits
<1>5. Task!TypeOK'
  <2>1. /\ events' \subseteq 1 .. timeline /\ messages' \subseteq 1 .. posted
        /\ activeTask' \in {"unknown", "running", "terminal"}
    BY <1>4, TaskTypes DEF TaskInv, Task!TypeOK
  <2>2. QED BY <1>2, <2>1 DEF TaskInv, Task!TypeOK, Task!Cursor, Task!Item
<1>6. \A x : Fits(x) => Fits(x)'
  BY DEF Fits
<1>7. \A i \in 1 .. n : i + 1 \in 1 .. n + 1 /\ i + 1 \in DOMAIN wire /\ wire'[i] = wire[i + 1]
  BY <1>1, <1>2
<1>8. WireInOrder'
  <2> SUFFICES ASSUME NEW i \in 1 .. n
               PROVE  /\ Fits(wire[i])'
                      /\ wire'[i].kind = "event" =>
                           /\ wire'[i].id <= cursor.event
                           /\ \A e \in 1 .. wire'[i].id - 1 : Comes(e, i - 1)'
                           /\ \A j \in 1 .. i - 1 : wire'[j].kind = "event" => wire'[j].id < wire'[i].id
    BY <1>2 DEF WireInOrder
  <2>1. PICK x : x = wire[i + 1] /\ x = wire'[i]
    BY <1>7
  <2>2. /\ Fits(x)
        /\ x.kind = "event" =>
             /\ x.id <= cursor.event
             /\ \A e \in 1 .. x.id - 1 : Comes(e, i)
             /\ \A j \in 1 .. i : wire[j].kind = "event" => wire[j].id < x.id
    BY <1>7, <2>1 DEF TaskInv, WireInOrder
  <2>3. Fits(wire[i])'
    BY <2>1, <2>2 DEF Fits
  <2>4. \A e : Comes(e, i) => Comes(e, i - 1)'
    BY <1>2
  <2>5. \A j \in 1 .. i - 1 : j + 1 \in 1 .. i /\ wire'[j] = wire[j + 1]
    BY <1>7
  <2>6. QED BY <2>1, <2>2, <2>3, <2>4, <2>5
<1>9. CursorIsSent'
  <2>1. \A e \in 1 .. cursor.event : Comes(e, n + 1)
    BY <1>1 DEF TaskInv, CursorIsSent
  <2>2. \A e \in 1 .. cursor.event : Comes(e, n)'
    <3>1. n + 1 \in 1 .. n + 1 /\ (n + 1) - 1 = n
      OBVIOUS
    <3>2. \A e : Comes(e, n + 1) => Comes(e, n)'
      <4> SUFFICES ASSUME NEW e, Comes(e, n + 1)
                   PROVE  Comes(e, n)'
        OBVIOUS
      <4>1. PICK k \in 1 .. n + 1 : k = n + 1 /\ k - 1 = n
        BY <3>1
      <4>2. Comes(e, k - 1)'
        BY <1>2, <4>1
      <4>3. QED BY <4>1, <4>2
    <3>3. QED BY <2>1, <3>2
  <2>3. QED BY <1>2, <2>2 DEF CursorIsSent
<1>10. NewsInOrder'
  BY <1>6 DEF TaskInv, NewsInOrder
<1>11. PollSaysEnd' /\ Connections'
  BY DEF TaskInv, PollSaysEnd, NoNewEvent, Connections, Task!Gone
<1>12. CompleteComesLast'
  <2> SUFFICES ASSUME NEW i \in 1 .. n, wire'[i].kind = "complete"
               PROVE  ended /\ \A e \in 1 .. timeline : Comes(e, i)'
    BY <1>2 DEF CompleteComesLast
  <2>1. PICK k \in 1 .. n + 1 : k = i + 1 /\ k - 1 = i /\ wire[k].kind = "complete"
    BY <1>7
  <2>2. ended /\ \A e \in 1 .. timeline : Comes(e, k)
    BY <1>1, <2>1 DEF TaskInv, CompleteComesLast
  <2>3. \A e \in 1 .. timeline : Comes(e, k - 1)'
    BY <1>2, <2>2
  <2>4. QED BY <2>1, <2>2, <2>3
<1>13. LoadedWhole'
  <2>1. \E k \in Nat : events' = 1 .. k
    <3>1. PICK m \in Nat : events = 1 .. m
      BY <1>3 DEF TaskInv, LoadedWhole
    <3>2. CASE events' = events
      BY <3>1, <3>2
    <3>3. CASE wire[1].kind = "event" /\ events' = events \cup {wire[1].id}
      <4>1. PICK id \in Nat : id = wire[1].id
        BY <1>4
      <4>2. id \in 1 .. timeline /\ \A e \in 1 .. id - 1 : e \in 1 .. m
        BY <1>4, <3>1, <3>3, <4>1
      <4>3. id > 0 /\ id - 1 <= m
        <5>1. id > 0
          BY <4>2, TaskTypes
        <5>2. id - 1 = 0 \/ id - 1 \in 1 .. id - 1
          BY <5>1
        <5>3. QED BY <4>2, <5>1, <5>2
      <4>4. events' = 1 .. m \/ events' = 1 .. m + 1
        BY <3>1, <3>3, <4>1, <4>3
      <4>5. QED BY <4>4
    <3>4. QED BY <3>2, <3>3
  <2>2. events \subseteq events'
    OBVIOUS
  <2>3. QED BY <1>3, <2>1, <2>2 DEF TaskInv, LoadedWhole
<1>14. ASSUME activeTask' = "terminal"
       PROVE  /\ ended /\ cursor.event >= timeline /\ NoNewEvent
              /\ \A i \in 1 .. n : wire'[i].kind # "event"
  <2>1. CASE activeTask = "terminal"
    <3>1. /\ ended /\ cursor.event >= timeline /\ NoNewEvent
          /\ \A i \in DOMAIN wire : wire[i].kind # "event"
      BY <2>1 DEF TaskInv, EndIsLast
    <3>2. QED BY <1>7, <3>1
  <2>2. CASE activeTask # "terminal"
    <3>1. wire[1].kind = "event" /\ wire[1].end
      BY <1>14, <2>2
    <3>2. ended /\ wire[1].id = timeline /\ cursor.event >= timeline
      BY <1>4, <3>1, TaskTypes
    <3>3. NoNewEvent
      <4> SUFFICES ASSUME NEW x \in generator.news, x.kind = "event"
                   PROVE  FALSE
        BY DEF NoNewEvent
      <4>1. x.id > cursor.event /\ x.id \in 1 .. timeline
        BY DEF TaskInv, NewsInOrder, Fits
      <4>2. QED BY <3>2, <4>1, TaskTypes
    <3>4. ASSUME NEW i \in 1 .. n
          PROVE  wire'[i].kind # "event"
      <4> SUFFICES ASSUME wire[i + 1].kind = "event"
                   PROVE  FALSE
        BY <1>7
      <4>1. 1 \in 1 .. (i + 1) - 1
        OBVIOUS
      <4>2. wire[1].id < wire[i + 1].id /\ Fits(wire[i + 1])
        BY <1>7, <3>1, <4>1 DEF TaskInv, WireInOrder
      <4>3. wire[i + 1].id \in 1 .. timeline
        BY <4>2 DEF Fits
      <4>4. QED BY <3>2, <4>2, <4>3, TaskTypes
    <3>5. QED BY <3>2, <3>3, <3>4
  <2>3. QED BY <2>1, <2>2
<1>15. EndIsLast'
  <2>1. activeTask' = "terminal" => NoNewEvent'
    BY <1>14 DEF NoNewEvent
  <2>2. QED BY <1>2, <1>3, <1>14, <2>1 DEF EndIsLast
<1>16. Sticks
  <2> SUFFICES ASSUME activeTask = "terminal"
               PROVE  activeTask' = "terminal"
    BY DEF Sticks
  <2>1. wire[1].kind # "event"
    BY FirstOfWire DEF TaskInv, EndIsLast
  <2>2. QED BY <2>1
<1>17. QED BY <1>5, <1>8, <1>9, <1>10, <1>11, <1>12, <1>13, <1>15, <1>16 DEF TaskInv

LEMMA ReceiveKeeps ==
  ASSUME Task!BoundsAssumption, TaskInv, Task!Receive
  PROVE  TaskInv' /\ Sticks
<1>1. /\ source = "open" /\ wire # <<>>
      /\ UNCHANGED <<timeline, ended, posted, load, reads, from, cursor, drops>>
  BY DEF Task!Receive, Task!server
<1>2. wire[1] = Head(wire) /\ wire[1].kind \in {"event", "message", "complete"}
  BY <1>1, FirstOfWire, WireItems
<1>3. CASE wire[1].kind = "event"
  <2>1. /\ events' = events \cup {wire[1].id} /\ wire' = Tail(wire)
        /\ activeTask' = IF wire[1].end THEN "terminal" ELSE "running"
        /\ UNCHANGED <<messages, source, refresh, generator>>
    BY <1>2, <1>3 DEF Task!Receive, Task!OnEvent
  <2>2. QED BY <1>1, <1>3, <2>1, TakesKeep
<1>4. CASE wire[1].kind = "message"
  <2>1. /\ messages' = messages \cup {wire[1].id} /\ wire' = Tail(wire)
        /\ UNCHANGED <<events, activeTask, source, refresh, generator>>
    BY <1>2, <1>4 DEF Task!Receive
  <2>2. QED BY <1>1, <1>4, <2>1, TakesKeep
<1>5. CASE wire[1].kind = "complete"
  <2>1. /\ source' = "closed" /\ refresh' = "messages" /\ wire' = <<>> /\ generator' = Task!Gone
        /\ UNCHANGED <<events, activeTask, messages>>
    BY <1>2, <1>5 DEF Task!Receive
  <2>2. generator'.news = {} /\ generator'.terminal = FALSE
    BY <2>1 DEF Task!Gone
  <2>3. /\ generator' \in [at : {"gone", "sleep", "events", "messages", "yield"},
                           terminal : BOOLEAN, news : SUBSET Task!Item]
        /\ wire' \in Seq(Task!Item)
    BY <2>1 DEF Task!Gone
  <2>4. Task!TypeOK'
    BY <1>1, <2>1, <2>3 DEF TaskInv, Task!TypeOK, Task!Item, Task!Cursor
  <2>5. (WireInOrder /\ CursorIsSent /\ NewsInOrder /\ PollSaysEnd /\ CompleteComesLast)'
    BY <2>1, <2>2, QuietStaysInOrder
  <2>6. Connections' /\ LoadedWhole' /\ EndIsLast' /\ Sticks
    BY <1>1, <2>1 DEF TaskInv, Connections, LoadedWhole, EndIsLast, Sticks
  <2>7. QED BY <2>4, <2>5, <2>6 DEF TaskInv
<1>6. QED BY <1>2, <1>3, <1>4, <1>5

LEMMA TaskNext ==
  ASSUME Task!BoundsAssumption, TaskInv, [Task!Next]_(Task!vars)
  PROVE  TaskInv' /\ Sticks
<1>1. ASSUME NEW last \in BOOLEAN, Task!Record(last)
      PROVE  TaskInv' /\ Sticks
  BY <1>1, RecordKeeps
<1>2. CASE Task!Post
  BY <1>2, PostKeeps
<1>3. CASE Task!LoadMessages \/ Task!LoadTask \/ Task!LoadEvents
  BY <1>3, LoadsKeep
<1>4. CASE Task!Loaded
  BY <1>4, LoadedKeeps
<1>5. CASE Task!PollRow
  BY <1>5, PollRowKeeps
<1>6. CASE Task!PollEvents
  BY <1>6, PollEventsKeeps
<1>7. CASE Task!PollMessages
  BY <1>7, PollMessagesKeeps
<1>8. CASE Task!Yield
  BY <1>8, YieldKeeps
<1>9. CASE Task!Receive
  BY <1>9, ReceiveKeeps
<1>10. CASE Task!Deactivate \/ Task!Drop
  BY <1>10, ClosingKeeps
<1>11. CASE Task!Reconnect
  BY <1>11, ReconnectKeeps
<1>12. CASE Task!RefreshMessages \/ Task!RefreshTask
  BY <1>12, RefreshKeeps
<1>13. CASE UNCHANGED Task!vars
  <2>1. /\ UNCHANGED <<timeline, ended, posted, load, reads, source, from, cursor, wire, activeTask,
                      events, messages, refresh, drops>>
        /\ UNCHANGED generator
    BY <1>13 DEF Task!vars, Task!server
  <2>2. Task!TypeOK'
    BY <2>1 DEF TaskInv, Task!TypeOK, Task!Item, Task!Cursor
  <2>3. WireInOrder' /\ CursorIsSent' /\ CompleteComesLast'
    BY <2>1 DEF TaskInv, WireInOrder, CursorIsSent, CompleteComesLast, Fits, Comes
  <2>4. NewsInOrder' /\ PollSaysEnd' /\ Connections' /\ LoadedWhole' /\ EndIsLast' /\ Sticks
    BY <2>1 DEF TaskInv, NewsInOrder, PollSaysEnd, Connections, LoadedWhole, EndIsLast, NoNewEvent,
                Sticks, Fits, Task!Gone
  <2>5. QED BY <2>2, <2>3, <2>4 DEF TaskInv
<1>14. QED BY <1>1, <1>2, <1>3, <1>4, <1>5, <1>6, <1>7, <1>8, <1>9, <1>10, <1>11, <1>12, <1>13
           DEF Task!Next

LEMMA TaskInvSound ==
  ASSUME TaskInv
  PROVE  Task!CompleteIsComplete /\ Task!TimelineHasNoHole
<1>1. Task!CompleteIsComplete
  <2> SUFFICES ASSUME NEW i \in DOMAIN wire, wire[i].kind = "complete"
               PROVE  /\ ended
                      /\ 1 .. timeline \subseteq
                           events \cup {wire[j].id : j \in {k \in 1 .. i : wire[k].kind = "event"}}
    BY DEF Task!CompleteIsComplete
  <2>1. ended /\ \A e \in 1 .. timeline : Comes(e, i)
    BY DEF TaskInv, CompleteComesLast
  <2>2. QED BY <2>1 DEF Comes
<1>2. ASSUME load = "done"
      PROVE  events = 1 .. Task!Largest(events)
  <2>1. PICK n \in Nat : events = 1 .. n
    BY <1>2 DEF TaskInv, LoadedWhole
  <2>2. QED BY <2>1, LargestOfWhole
<1>3. QED BY <1>1, <1>2 DEF Task!TimelineHasNoHole

\* TasksAreFollowed of the run streams: the stream of a task is complete only after
\* its last event, the timeline shown has no hole and a task shown as ended
\* stays so, whatever is lost and read anew (stream_task_events of
\* api/tasks.py, useTaskStream.ts and App.tsx).
THEOREM TasksFollowed ==
  ASSUME Task!BoundsAssumption
  PROVE  Task!Spec => TasksAreFollowed
<1>1. Task!Init => TaskInv
  BY TaskInit
<1>2. TaskInv /\ [Task!Next]_(Task!vars) => TaskInv'
  BY TaskNext
<1>3. TaskInv => Task!TypeOK /\ Task!CompleteIsComplete /\ Task!TimelineHasNoHole
  BY TaskInvSound DEF TaskInv
<1>4. TaskInv /\ [Task!Next]_(Task!vars)
        => [activeTask = "terminal" => activeTask' = "terminal"]_(Task!vars)
  BY TaskNext DEF Sticks
<1>5. Task!Spec => []TaskInv
  BY <1>1, <1>2, PTL DEF Task!Spec
<1>6. Task!Spec => [][activeTask = "terminal" => activeTask' = "terminal"]_(Task!vars)
  BY <1>4, <1>5, PTL DEF Task!Spec
<1>7. QED BY <1>3, <1>5, <1>6, PTL DEF TasksAreFollowed, Task!TasksAreFollowed, Task!EndSticks

-----------------------------------------------------------------------------
(* A view. Unless the log was cut since its rows were read, it has all of  *)
(* the log up to its cursor but drafts, and what is on the wire is what    *)
(* lies between its cursor and the server's.                               *)

Post == [id : Nat, source : Posts]

\* Ids are places, and no draft comes after the answer of its stream.
LogSound ==
  /\ \A i \in 1 .. Len(log) : log[i].id = i
  /\ \A i, j \in 1 .. Len(log) :
       i < j /\ log[j].source \in DOMAIN AnswerOf => log[i].source # AnswerOf[log[j].source]

\* Rows that a GET was answered: all but drafts, up to the last of them.
Loaded(rows) ==
  /\ rows \subseteq View!ToSet(log)
  /\ \A m \in rows : ~View!IsDraft(m)
  /\ \A m \in View!ToSet(log) : ~View!IsDraft(m) /\ (\E last \in rows : m.id <= last.id) => m \in rows

\* What the stream has brought is of the log, up to the cursor.
Followed ==
  /\ shown \subseteq {m \in View!ToSet(log) : m.id <= viewCursor}
  /\ View!NothingSkipped /\ View!OneDraft

ViewInv ==
  /\ View!TypeOK /\ LogSound
  /\ phase = "loading" <=> fetch.at # "none"
  /\ connected => phase = "open"
  /\ \E most \in Nat : \A m \in fetch.rows : m.id <= most
  /\ refreshes \in Nat
  /\ refreshes = 0 => viewRefresh.at = "none" /\ (phase # "open" => shown = {})
  /\ ~stale /\ fetch.at = "answered" => Loaded(fetch.rows)
  /\ ~stale /\ phase = "open" =>
       /\ viewCursor \in {after, lastId} /\ viewCursor \in 0 .. Len(log)
       /\ after <= viewCursor /\ lastId <= viewCursor
       /\ refreshes = 0 => Followed
  /\ ~stale /\ connected =>
       /\ served \in viewCursor .. Len(log)
       /\ viewWire = {m \in View!ToSet(log) : viewCursor < m.id /\ m.id <= served}

\* A set of natural numbers that is bounded has a greatest element.
LEMMA GreatestElement ==
  ASSUME NEW T \in SUBSET Nat, T # {}, NEW most \in Nat, \A k \in T : k <= most
  PROVE  \E m \in T : \A k \in T : k <= m
<1> DEFINE bounds == {n \in Nat : \A k \in T : k <= n}
           less == {ss \in Nat \X Nat : ss[1] < ss[2]}
<1>1. IsWellFoundedOn(less, Nat)
  BY NatLessThanWellFounded DEF OpToRel
<1>2. bounds \subseteq Nat /\ bounds # {}
  OBVIOUS
<1>3. PICK m \in bounds : \A n \in bounds : <<n, m>> \notin less
  BY <1>1, <1>2, WFMin
<1>4. m \in T
  <2> SUFFICES ASSUME m \notin T
               PROVE  FALSE
    OBVIOUS
  <2>1. m \in Nat /\ \A k \in T : k \in Nat /\ k <= m /\ k # m
    OBVIOUS
  <2> HIDE DEF bounds
  <2>2. m - 1 \in Nat /\ \A k \in T : k <= m - 1
    <3>1. PICK k \in T : TRUE
      OBVIOUS
    <3>2. k < m
      BY <2>1
    <3>3. QED BY <2>1, <3>2
  <2> USE DEF bounds
  <2>3. m - 1 \in bounds /\ <<m - 1, m>> \in less
    BY <2>1, <2>2
  <2>4. QED BY <1>3, <2>3
<1>5. QED BY <1>4

LEMMA LastIdIs ==
  ASSUME NEW rows \in SUBSET Post, NEW most \in Nat, \A m \in rows : m.id <= most,
         NEW v, v = View!LastIdOf(rows)
  PROVE  /\ v \in Nat /\ \A m \in rows : m.id <= v
         /\ v = 0 \/ \E m \in rows : m.id = v
<1> DEFINE T == {m.id : m \in rows} \cup {0}
<1>1. T \in SUBSET Nat /\ T # {} /\ \A k \in T : k <= most
  BY DEF Post
<1>2. \E m \in T : \A k \in T : k <= m
  BY <1>1, GreatestElement
<1>3. v = View!Max(T)
  BY DEF View!LastIdOf
<1> HIDE DEF T
<1>4. v \in T /\ \A k \in T : v >= k
  BY <1>2, <1>3 DEF View!Max
<1>5. QED BY <1>1, <1>4 DEF T

LEMMA MaxOfTwo ==
  ASSUME NEW m \in Nat, NEW n \in Nat
  PROVE  View!Max({m, n}) = IF m < n THEN n ELSE m
<1>1. \E x \in {m, n} : \A y \in {m, n} : x >= y
  OBVIOUS
<1>2. View!Max({m, n}) \in {m, n} /\ \A y \in {m, n} : View!Max({m, n}) >= y
  BY <1>1 DEF View!Max
<1>3. QED BY <1>2

LEMMA LogTypes ==
  ASSUME View!TypeOK, LogSound
  PROVE  /\ log \in Seq(Post) /\ Len(log) \in Nat /\ saved \in 0 .. Len(log)
         /\ View!ToSet(log) = {log[i] : i \in 1 .. Len(log)} /\ View!ToSet(log) \subseteq Post
         /\ \A m \in View!ToSet(log) : m.id \in 1 .. Len(log) /\ m = log[m.id]
         /\ \A i \in 1 .. Len(log) : log[i] \in View!ToSet(log) /\ log[i].id = i
<1>1. log \in Seq(Post) /\ saved \in 0 .. Len(log)
  BY DEF View!TypeOK, View!Message, Post
<1>2. Len(log) \in Nat /\ DOMAIN log = 1 .. Len(log) /\ \A i \in 1 .. Len(log) : log[i] \in Post
  BY <1>1
<1>3. View!ToSet(log) = {log[i] : i \in 1 .. Len(log)}
  BY <1>2 DEF View!ToSet
<1>4. QED BY <1>1, <1>2, <1>3 DEF LogSound

\* A page has all that is asked for up to its last row.
LEMMA PageIs ==
  ASSUME View!TypeOK, LogSound, NEW first, NEW limit \in Nat, NEW exclude,
         NEW page, page = View!Page(first, limit, exclude)
  PROVE  /\ page \subseteq View!ToSet(log)
         /\ \A m \in page : m.id > first /\ m.source \notin exclude
         /\ \A m \in View!ToSet(log) :
              m.id > first /\ m.source \notin exclude /\ (\E n \in page : m.id <= n.id) => m \in page
<1> DEFINE rows == {m \in View!ToSet(log) : m.id > first /\ m.source \notin exclude}
           Older(m) == {older \in rows : older.id < m.id}
<1>1. page = {m \in rows : Cardinality(Older(m)) < limit}
  BY DEF View!Page, View!Cardinality, Cardinality
<1>2. IsFiniteSet(View!ToSet(log))
  <2>1. IsFiniteSet(1 .. Len(log))
    BY LogTypes, FS_Interval
  <2>2. IsFiniteSet({log[i] : i \in 1 .. Len(log)})
    <3>1. log \in Surjection(1 .. Len(log), {log[i] : i \in 1 .. Len(log)})
      BY LogTypes DEF Surjection
    <3>2. QED BY <2>1, <3>1, FS_Surjection
  <2>3. QED BY <2>2, LogTypes
<1>3. ASSUME NEW m \in rows, NEW n \in page, m.id <= n.id
      PROVE  m \in page
  <2>1. m.id \in Nat /\ n.id \in Nat /\ n \in rows
    BY <1>1, LogTypes
  <2>2. Older(m) \subseteq Older(n)
    <3>1. ASSUME NEW o \in Older(m)
          PROVE  o \in Older(n)
      <4>1. o.id \in Nat /\ o \in rows /\ o.id < m.id
        BY LogTypes
      <4>2. QED BY <1>3, <2>1, <4>1
    <3>2. QED BY <3>1
  <2>3. IsFiniteSet(Older(n)) /\ IsFiniteSet(Older(m))
    BY <1>2, FS_Subset
  <2> HIDE DEF Older, rows
  <2>4. Cardinality(Older(m)) <= Cardinality(Older(n))
    BY <2>2, <2>3, FS_Subset
  <2>5. Cardinality(Older(m)) \in Nat /\ Cardinality(Older(n)) \in Nat
    BY <2>3, FS_CardinalityType
  <2>6. QED BY <1>1, <1>3, <2>1, <2>4, <2>5
<1>4. QED BY <1>1, <1>3

-----------------------------------------------------------------------------
LEMMA ViewInit ==
  ASSUME View!BoundsAssumption, View!Init
  PROVE  ViewInv
<1>1. View!TypeOK
  <2>1. log = <<>> /\ log \in Seq(View!Message) /\ saved \in 0 .. Len(log)
    BY DEF View!Init, View!LogInit
  <2>2. fetch = View!Quiet /\ viewRefresh = View!Quiet /\ View!Quiet.at = "none" /\ View!Quiet.rows = {}
    BY DEF View!Init, View!Quiet
  <2>3. /\ phase \in {"away", "loading", "open"} /\ shown \subseteq View!Message
        /\ connected \in BOOLEAN /\ stale \in BOOLEAN
        /\ {after, lastId, viewCursor, served} \subseteq Nat
        /\ viewWire = {}
    <3>1. /\ phase = "away" /\ shown = {} /\ connected = FALSE /\ stale = FALSE
          /\ after = 0 /\ lastId = 0 /\ viewCursor = 0 /\ served = 0 /\ viewWire = {}
      BY DEF View!Init
    <3>2. connected \in BOOLEAN /\ stale \in BOOLEAN
      BY <3>1, Zenon
    <3>3. QED BY <3>1, <3>2
  <2>4. \A get \in {fetch, viewRefresh} :
          get.at \in {"none", "sent", "answered"} /\ get.rows \subseteq View!Message
    BY <2>2
  <2>5. QED BY <2>1, <2>3, <2>4 DEF View!TypeOK
<1>2. LogSound
  BY DEF View!Init, View!LogInit, LogSound
<1>3. QED BY <1>1, <1>2 DEF ViewInv, View!Init, View!Quiet

\* A step that leaves the log alone leaves it sound.
LEMMA LogRests ==
  ASSUME LogSound, log' = log
  PROVE  LogSound'
BY DEF LogSound

LEMMA PublishKeeps ==
  ASSUME ViewInv, NEW s \in Posts, View!Publish(s)
  PROVE  ViewInv'
<1> DEFINE new == [id |-> Len(log) + 1, source |-> s]
<1>1. View!TypeOK /\ LogSound
  BY DEF ViewInv
<1>2. log' = Append(log, new) /\ UNCHANGED <<saved, View!client, View!stream, stale, View!counts>>
  BY DEF View!Publish, View!Appended
<1>3. new \in Post /\ new.id = Len(log) + 1 /\ log \in Seq(Post) /\ Len(log) \in Nat
  BY <1>1, LogTypes DEF Post
<1>4. /\ log' \in Seq(Post) /\ Len(log') = Len(log) + 1 /\ log'[Len(log) + 1] = new
      /\ \A i \in 1 .. Len(log) : log'[i] = log[i]
  BY <1>2, <1>3
<1>5. View!ToSet(log)' = View!ToSet(log) \cup {new}
  <2>1. View!ToSet(log)' = {log'[i] : i \in 1 .. Len(log')}
    BY <1>4 DEF View!ToSet
  <2>2. 1 .. Len(log') = (1 .. Len(log)) \cup {Len(log) + 1}
    BY <1>3, <1>4
  <2>3. View!ToSet(log) = {log[i] : i \in 1 .. Len(log)}
    BY <1>1, LogTypes
  <2>4. QED BY <1>4, <2>1, <2>2, <2>3
<1>6. LogSound'
  <2>1. \A i \in 1 .. Len(log') : log'[i].id = i
    BY <1>1, <1>3, <1>4 DEF LogSound
  <2>2. ASSUME NEW i \in 1 .. Len(log'), NEW j \in 1 .. Len(log'), i < j,
               log'[j].source \in DOMAIN AnswerOf
        PROVE  log'[i].source # AnswerOf[log'[j].source]
    <3>1. i \in 1 .. Len(log)
      BY <1>3, <1>4, <2>2
    <3>2. CASE j \in 1 .. Len(log)
      BY <1>1, <1>4, <2>2, <3>1, <3>2 DEF LogSound
    <3>3. CASE j = Len(log) + 1
      <4>1. AnswerOf[s] \notin View!SourcesOf(log)
        BY <1>4, <2>2, <3>3 DEF View!Publish, View!Drafts
      <4>2. log[i].source \in View!SourcesOf(log)
        BY <1>1, <3>1, LogTypes DEF View!SourcesOf
      <4>3. QED BY <1>4, <3>1, <3>3, <4>1, <4>2
    <3>4. QED BY <1>3, <1>4, <3>2, <3>3
  <2>3. QED BY <2>1, <2>2 DEF LogSound
<1>7. View!TypeOK'
  BY <1>1, <1>2, <1>3, <1>4 DEF View!TypeOK, View!Message, Post, View!client, View!stream, View!counts
<1>8. UNCHANGED <<phase, shown, fetch, viewRefresh, connected, after, lastId, viewCursor, served,
                  viewWire, stale, refreshes>>
  BY <1>2 DEF View!client, View!stream, View!counts
<1>9. \A m \in View!ToSet(log) : m.id \in 1 .. Len(log)
  BY <1>1, LogTypes
<1> HIDE DEF new
<1>10. Loaded(fetch.rows) => Loaded(fetch.rows)'
  BY <1>3, <1>5, <1>8, <1>9 DEF Loaded, View!IsDraft, View!Drafts
<1>11. viewCursor \in 0 .. Len(log) /\ Followed => Followed'
  BY <1>3, <1>5, <1>8, <1>9 DEF Followed, View!NothingSkipped, View!OneDraft, View!IsDraft, View!Drafts
<1>12. ~stale /\ connected =>
         viewWire = {m \in View!ToSet(log)' : viewCursor < m.id /\ m.id <= served}
  <2>1. ~stale /\ connected => served \in Nat /\ served <= Len(log)
    BY <1>1, <1>3 DEF ViewInv, View!TypeOK
  <2>2. QED BY <1>3, <1>5, <1>9, <2>1 DEF ViewInv
<1>13. QED
  <2>1. viewCursor \in Nat /\ served \in Nat
    BY <1>1 DEF View!TypeOK
  <2>2. ~stale /\ phase = "open" =>
          viewCursor \in 0 .. Len(log') /\ (refreshes = 0 => Followed')
    BY <1>3, <1>4, <1>11 DEF ViewInv
  <2>3. ~stale /\ connected => served \in viewCursor .. Len(log')
    BY <1>3, <1>4, <2>1 DEF ViewInv
  <2>4. QED BY <1>6, <1>7, <1>8, <1>10, <1>12, <2>2, <2>3 DEF ViewInv

LEMMA PersistKeeps ==
  ASSUME ViewInv, View!Persist
  PROVE  ViewInv'
<1>1. /\ saved' \in 0 .. Len(log) /\ log' = log
      /\ UNCHANGED <<phase, shown, fetch, viewRefresh, connected, after, lastId, viewCursor, served,
                     viewWire, stale, viewDrops, loads, refreshes, cuts>>
  BY LogTypes DEF ViewInv, View!Persist, View!Saved, View!client, View!stream, View!counts
<1>2. View!TypeOK' /\ LogSound'
  BY <1>1, LogRests DEF ViewInv, View!TypeOK
<1>3. Loaded(fetch.rows)' = Loaded(fetch.rows) /\ Followed' = Followed
  BY <1>1 DEF Loaded, Followed, View!NothingSkipped, View!OneDraft, View!IsDraft, View!Drafts
<1>4. QED BY <1>1, <1>2, <1>3 DEF ViewInv

LEMMA CrashKeeps ==
  ASSUME ViewInv, View!Crash
  PROVE  ViewInv'
<1>1. View!TypeOK /\ LogSound /\ log \in Seq(Post) /\ Len(log) \in Nat /\ saved \in 0 .. Len(log)
  BY LogTypes DEF ViewInv
<1>2. /\ log' = SubSeq(log, 1, saved) /\ saved' = saved /\ stale' = (stale \/ saved < Len(log))
      /\ connected' = FALSE /\ viewWire' = {}
      /\ UNCHANGED <<phase, shown, fetch, viewRefresh, after, lastId, viewCursor, served, refreshes>>
  BY DEF View!Crash, View!CutBack, View!client
<1>3. /\ log' \in Seq(Post) /\ Len(log') = saved
      /\ \A i \in 1 .. saved : i \in 1 .. Len(log) /\ log'[i] = log[i]
  BY <1>1, <1>2
<1>4. LogSound'
  BY <1>1, <1>3 DEF LogSound
<1>5. View!TypeOK'
  <2>1. log' \in Seq(View!Message) /\ saved' \in 0 .. Len(log') /\ stale' \in BOOLEAN
    BY <1>1, <1>2, <1>3 DEF View!TypeOK, View!Message, Post
  <2>2. QED BY <1>1, <1>2, <2>1 DEF View!TypeOK
<1>6. CASE stale'
  BY <1>2, <1>4, <1>5, <1>6 DEF ViewInv
<1>7. CASE ~stale'
  <2>1. log' = log
    <3>1. stale \in BOOLEAN /\ ~(saved < Len(log))
      BY <1>1, <1>2, <1>7 DEF View!TypeOK
    <3>2. saved = Len(log)
      BY <1>1, <3>1
    <3>3. Len(log') = Len(log) /\ \A i \in 1 .. Len(log) : log'[i] = log[i]
      BY <1>3, <3>2
    <3>4. QED BY <1>1, <1>3, <3>3, SeqEqual
  <2>2. Loaded(fetch.rows)' = Loaded(fetch.rows)
    BY <1>2, <2>1 DEF Loaded, View!IsDraft, View!Drafts
  <2>3. ~stale /\ (Followed' = Followed)
    BY <1>2, <1>7, <2>1 DEF Followed, View!NothingSkipped, View!OneDraft, View!IsDraft, View!Drafts
  <2>4. QED BY <1>2, <1>4, <1>5, <1>7, <2>1, <2>2, <2>3 DEF ViewInv
<1>8. QED BY <1>5, <1>6, <1>7 DEF View!TypeOK
-----------------------------------------------------------------------------
LEMMA SelectKeeps ==
  ASSUME ViewInv, View!Select
  PROVE  ViewInv'
<1>1. /\ log' = log /\ saved' = saved
      /\ phase' = "loading" /\ shown' = {} /\ fetch' = [at |-> "sent", rows |-> {}]
      /\ connected' = FALSE /\ viewWire' = {}
      /\ UNCHANGED <<viewRefresh, after, lastId, viewCursor, served, stale, refreshes>>
  BY DEF View!Select, View!Disconnected
<1>2. View!TypeOK' /\ LogSound'
  <2>1. fetch'.at = "sent" /\ fetch'.rows = {}
    BY <1>1
  <2>2. View!TypeOK'
    BY <1>1, <2>1 DEF ViewInv, View!TypeOK
  <2>3. QED BY <1>1, <2>2, LogRests DEF ViewInv
<1>3. \E most \in Nat : \A m \in fetch'.rows : m.id <= most
  BY <1>1
<1>4. QED BY <1>1, <1>2, <1>3 DEF ViewInv

LEMMA FetchAnsweredKeeps ==
  ASSUME View!BoundsAssumption, ViewInv, View!FetchAnswered
  PROVE  ViewInv'
<1> DEFINE page == View!Page(0, GetLimit, View!Drafts)
<1>1. /\ log' = log /\ saved' = saved /\ fetch.at = "sent"
      /\ fetch' = [at |-> "answered", rows |-> page] /\ stale' = FALSE
      /\ UNCHANGED <<phase, shown, viewRefresh, connected, after, lastId, viewCursor, served,
                     viewWire, refreshes>>
  BY DEF View!FetchAnswered, View!stream, View!counts
<1>2. View!TypeOK /\ LogSound /\ GetLimit \in Nat
  BY DEF ViewInv, View!BoundsAssumption
<1>3. /\ page \subseteq View!ToSet(log)
      /\ \A m \in page : m.source \notin View!Drafts
      /\ \A m \in View!ToSet(log) :
           m.id > 0 /\ m.source \notin View!Drafts /\ (\E n \in page : m.id <= n.id) => m \in page
  BY <1>2, PageIs
<1> HIDE DEF page
<1>4. /\ \A m \in View!ToSet(log) : m.id \in 1 .. Len(log)
      /\ View!ToSet(log) \subseteq Post /\ Len(log) \in Nat
  BY <1>2, LogTypes
<1>5. Loaded(fetch.rows)'
  BY <1>1, <1>3, <1>4 DEF Loaded, View!IsDraft, View!Drafts
<1>6. \E most \in Nat : \A m \in fetch'.rows : m.id <= most
  BY <1>1, <1>3, <1>4
<1>7. View!TypeOK' /\ LogSound'
  <2>1. fetch'.at = "answered" /\ fetch'.rows \subseteq View!Message
    BY <1>1, <1>3, <1>4 DEF Post, View!Message
  <2>2. View!TypeOK'
    BY <1>1, <1>2, <2>1 DEF View!TypeOK
  <2>3. QED BY <1>1, <1>2, <2>2, LogRests
<1>8. QED BY <1>1, <1>5, <1>6, <1>7 DEF ViewInv

\* The stream begins behind what was loaded.
LEMMA OpensKeep ==
  ASSUME ViewInv, phase = "loading", NEW rows, rows \subseteq Post,
         NEW most \in Nat, \A m \in rows : m.id <= most,
         ~stale' => Loaded(rows), stale' \in BOOLEAN,
         View!OpensAfter(rows), UNCHANGED <<log, saved, viewRefresh, refreshes>>
  PROVE  ViewInv'
<1> DEFINE last == View!LastIdOf(rows)
<1>1. /\ phase' = "open" /\ shown' = rows /\ fetch' = View!Quiet
      /\ after' = last /\ viewCursor' = last /\ served' = last
      /\ lastId' = 0 /\ connected' = TRUE /\ viewWire' = {}
  BY DEF View!OpensAfter
<1>2. /\ last \in Nat /\ \A m \in rows : m.id <= last
      /\ last = 0 \/ \E m \in rows : m.id = last
  BY LastIdIs
<1> HIDE DEF last
<1>3. View!TypeOK /\ LogSound /\ LogSound' /\ Len(log) \in Nat
  BY LogTypes, LogRests DEF ViewInv
<1>4. View!TypeOK'
  BY <1>1, <1>2, <1>3 DEF View!TypeOK, View!Quiet, Post, View!Message
<1>5. /\ \A m \in View!ToSet(log) : m.id \in 1 .. Len(log)
      /\ View!ToSet(log) \subseteq Post
  BY <1>3, LogTypes
<1>6. ~stale' => last <= Len(log) /\ Followed'
  <2> SUFFICES ASSUME ~stale'
               PROVE  last <= Len(log) /\ Followed'
    OBVIOUS
  <2>1. last <= Len(log)
    BY <1>2, <1>3, <1>5 DEF Loaded
  <2>2. shown' \subseteq {m \in View!ToSet(log) : m.id <= last}
    BY <1>1, <1>2 DEF Loaded
  <2>3. View!NothingSkipped'
    <3> SUFFICES ASSUME NEW m \in View!ToSet(log), m.id <= last, ~View!IsDraft(m)
                 PROVE  m \in rows
      BY <1>1 DEF View!NothingSkipped, View!IsDraft, View!Drafts
    <3>1. m.id \in Nat /\ m.id > 0
      BY <1>3, <1>5
    <3>2. \E n \in rows : m.id <= n.id
      BY <1>2, <3>1
    <3>3. QED BY <3>2 DEF Loaded
  <2>4. View!OneDraft'
    BY <1>1 DEF Loaded, View!OneDraft, View!IsDraft, View!Drafts
  <2>5. QED BY <1>1, <2>1, <2>2, <2>3, <2>4 DEF Followed
<1>7. ~stale' => {m \in View!ToSet(log) : last < m.id /\ m.id <= last} = viewWire'
  BY <1>1, <1>2, <1>3, <1>5
<1>8. \E n \in Nat : \A m \in fetch'.rows : m.id <= n
  BY <1>1 DEF View!Quiet
<1>9. viewCursor' \in {after', lastId'} /\ after' <= viewCursor' /\ lastId' <= viewCursor'
  BY <1>1, <1>2
<1>10. ~stale' => viewCursor' \in 0 .. Len(log') /\ served' \in viewCursor' .. Len(log')
  BY <1>1, <1>2, <1>3, <1>6
<1>11. fetch'.at = "none"
  BY <1>1 DEF View!Quiet
<1>12. QED
  BY <1>1, <1>3, <1>4, <1>6, <1>7, <1>8, <1>9, <1>10, <1>11 DEF ViewInv

LEMMA FetchEndsKeep ==
  ASSUME ViewInv, View!FetchLoaded \/ View!FetchFailed
  PROVE  ViewInv'
<1>1. CASE View!FetchLoaded
  <2>1. /\ fetch.at = "answered" /\ View!OpensAfter(fetch.rows) /\ stale' = stale
        /\ UNCHANGED <<log, saved, viewRefresh, refreshes>>
    BY <1>1 DEF View!FetchLoaded, View!counts
  <2>2. PICK most \in Nat : \A m \in fetch.rows : m.id <= most
    BY DEF ViewInv
  <2>3. phase = "loading" /\ fetch.rows \subseteq Post /\ (~stale' => Loaded(fetch.rows)) /\ stale' \in BOOLEAN
    BY <2>1 DEF ViewInv, View!TypeOK, Post, View!Message
  <2>4. QED BY <2>1, <2>2, <2>3, OpensKeep
<1>2. CASE View!FetchFailed
  <2>1. /\ fetch.at = "sent" /\ View!OpensAfter({}) /\ stale' = FALSE
        /\ UNCHANGED <<log, saved, viewRefresh, refreshes>>
    BY <1>2 DEF View!FetchFailed
  <2>2. phase = "loading" /\ Loaded({})
    BY <2>1 DEF ViewInv, Loaded
  <2>3. QED BY <2>1, <2>2, OpensKeep
<1>3. QED BY <1>1, <1>2

-----------------------------------------------------------------------------
LEMMA PollViewKeeps ==
  ASSUME View!BoundsAssumption, ViewInv, View!Poll
  PROVE  ViewInv'
<1> DEFINE page == View!Page(served, PollLimit, {})
<1>1. /\ log' = log /\ saved' = saved /\ connected /\ viewWire = {}
      /\ viewWire' = page /\ page # {} /\ served' = View!LastIdOf(page)
      /\ UNCHANGED <<phase, shown, fetch, viewRefresh, connected, after, lastId, viewCursor,
                     stale, refreshes>>
  BY DEF View!Poll, View!client, View!counts
<1>2. View!TypeOK /\ LogSound /\ LogSound' /\ PollLimit \in Nat
  BY <1>1, LogRests DEF ViewInv, View!BoundsAssumption
<1>3. /\ page \subseteq View!ToSet(log) /\ \A m \in page : m.id > served
      /\ \A m \in View!ToSet(log) :
           m.id > served /\ (\E n \in page : m.id <= n.id) => m \in page
  BY <1>2, PageIs
<1> HIDE DEF page
<1>4. /\ \A m \in View!ToSet(log) : m.id \in 1 .. Len(log)
      /\ View!ToSet(log) \subseteq Post /\ Len(log) \in Nat
      /\ \A i \in 1 .. Len(log) : log[i] \in View!ToSet(log) /\ log[i].id = i
  BY <1>2, LogTypes
<1>5. page \subseteq Post /\ \A m \in page : m.id <= Len(log)
  BY <1>3, <1>4
<1>6. /\ served' \in Nat /\ \A m \in page : m.id <= served'
      /\ served' = 0 \/ \E m \in page : m.id = served'
  BY <1>1, <1>4, <1>5, LastIdIs
<1>7. \E m \in page : m.id = served'
  <2>1. PICK m \in page : m.id \in 1 .. Len(log) /\ m.id <= served'
    BY <1>1, <1>3, <1>4, <1>6
  <2>2. QED BY <1>4, <1>6, <2>1
<1>8. View!TypeOK'
  BY <1>1, <1>2, <1>5, <1>6 DEF View!TypeOK, Post, View!Message
<1>9. ~stale => /\ served' \in viewCursor .. Len(log)
                /\ page = {m \in View!ToSet(log) : viewCursor < m.id /\ m.id <= served'}
  <2> SUFFICES ASSUME ~stale
               PROVE  /\ served' \in viewCursor .. Len(log)
                      /\ page = {m \in View!ToSet(log) : viewCursor < m.id /\ m.id <= served'}
    OBVIOUS
  <2>1. /\ viewCursor \in Nat /\ served \in Nat /\ viewCursor <= served /\ served <= Len(log)
        /\ {m \in View!ToSet(log) : viewCursor < m.id /\ m.id <= served} = {}
    BY <1>1, <1>2, <1>4 DEF ViewInv, View!TypeOK
  <2>2. served = viewCursor
    <3> SUFFICES ASSUME served # viewCursor
                 PROVE  FALSE
      OBVIOUS
    <3>1. served \in 1 .. Len(log)
      BY <1>4, <2>1
    <3>2. log[served] \in View!ToSet(log) /\ log[served].id = served
      BY <1>4, <3>1
    <3>3. QED BY <2>1, <3>2
  <2>3. served' \in viewCursor .. Len(log)
    BY <1>3, <1>4, <1>5, <1>6, <1>7, <2>1, <2>2
  <2>4. page \subseteq {m \in View!ToSet(log) : viewCursor < m.id /\ m.id <= served'}
    BY <1>3, <1>4, <1>6, <2>1, <2>2
  <2>5. ASSUME NEW m \in View!ToSet(log), viewCursor < m.id, m.id <= served'
        PROVE  m \in page
    BY <1>3, <1>4, <1>7, <2>1, <2>2, <2>5
  <2>6. QED BY <2>3, <2>4, <2>5
<1>10. Loaded(fetch.rows)' = Loaded(fetch.rows) /\ Followed' = Followed
  BY <1>1 DEF Loaded, Followed, View!NothingSkipped, View!OneDraft, View!IsDraft, View!Drafts
<1>11. QED BY <1>1, <1>2, <1>8, <1>9, <1>10 DEF ViewInv

\* What is delivered is the next of the log, so that a draft finds no answer of
\* its stream, and an answer takes the draft away.
LEMMA ShownFollows ==
  ASSUME View!BoundsAssumption, View!TypeOK, LogSound, Followed, phase = "open",
         NEW m \in View!ToSet(log), m.id > viewCursor,
         \A n \in View!ToSet(log) : n.id > viewCursor => n.id >= m.id,
         NEW seen, seen = View!WithMessage(shown, m)
  PROVE  /\ seen \subseteq {n \in View!ToSet(log) : n.id <= m.id}
         /\ ~stale => \A n \in View!ToSet(log) : n.id <= m.id /\ ~View!IsDraft(n) => n \in seen
         /\ ~stale => \A n \in seen : View!IsDraft(n) =>
              \A other \in seen :
                /\ other.source # AnswerOf[n.source]
                /\ View!IsDraft(other) /\ AnswerOf[other.source] = AnswerOf[n.source] => other = n
<1> DEFINE Same(i) == View!IsDraft(i)
              /\ AnswerOf[i.source] = (IF View!IsDraft(m) THEN AnswerOf[m.source] ELSE m.source)
<1>1. seen = {i \in shown : ~Same(i) /\ (View!IsDraft(m) \/ i.id # m.id)} \cup {m}
  BY DEF View!WithMessage
<1>2. /\ \A n \in View!ToSet(log) : n.id \in 1 .. Len(log) /\ n = log[n.id]
      /\ Len(log) \in Nat /\ viewCursor \in Nat
  BY LogTypes DEF View!TypeOK
<1>3. shown \subseteq View!ToSet(log) /\ \A n \in shown : n.id <= viewCursor
  BY DEF Followed
<1>4. seen \subseteq {n \in View!ToSet(log) : n.id <= m.id}
  BY <1>1, <1>2, <1>3
<1>5. ASSUME ~stale, NEW n \in View!ToSet(log), n.id <= m.id, ~View!IsDraft(n)
      PROVE  n \in seen
  <2>1. CASE n.id <= viewCursor
    <3>1. n \in shown
      BY <1>5, <2>1 DEF Followed, View!NothingSkipped
    <3>2. n.id # m.id
      BY <1>2, <2>1
    <3>3. QED BY <1>1, <1>5, <3>1, <3>2
  <2>2. CASE n.id > viewCursor
    <3>1. n.id = m.id
      BY <1>2, <1>5, <2>2
    <3>2. n = m
      BY <1>2, <3>1
    <3>3. QED BY <1>1, <3>2
  <2>3. QED BY <1>2, <2>1, <2>2
<1>6. ASSUME NEW i \in shown, View!IsDraft(m)
      PROVE  i.source # AnswerOf[m.source]
  <2>1. i.id \in 1 .. Len(log) /\ m.id \in 1 .. Len(log) /\ i.id < m.id /\ i = log[i.id] /\ m = log[m.id]
    BY <1>2, <1>3
  <2>2. QED BY <1>6, <2>1 DEF LogSound, View!IsDraft, View!Drafts
<1>7. ASSUME NEW d, View!IsDraft(d)
      PROVE  AnswerOf[d.source] \notin DOMAIN AnswerOf
  BY <1>7 DEF View!BoundsAssumption, View!IsDraft, View!Drafts
<1>8. ASSUME ~stale, NEW n \in seen, View!IsDraft(n), NEW other \in seen
      PROVE  /\ other.source # AnswerOf[n.source]
             /\ View!IsDraft(other) /\ AnswerOf[other.source] = AnswerOf[n.source] => other = n
  <2> HIDE DEF Same
  <2>1. CASE n = m /\ other = m
    BY <1>7, <1>8, <2>1 DEF View!IsDraft, View!Drafts
  <2>2. CASE n = m /\ other # m
    <3>1. other \in shown /\ ~Same(other)
      BY <1>1, <2>2
    <3>2. QED BY <1>6, <1>8, <2>2, <3>1 DEF Same
  <2>3. CASE n # m /\ other = m
    <3>1. n \in shown /\ ~Same(n)
      BY <1>1, <2>3
    <3>2. QED BY <1>7, <1>8, <2>3, <3>1 DEF Same, View!IsDraft, View!Drafts
  <2>4. CASE n # m /\ other # m
    <3>1. n \in shown /\ other \in shown
      BY <1>1, <2>4
    <3>2. QED BY <1>8, <3>1 DEF Followed, View!OneDraft
  <2>5. QED BY <2>1, <2>2, <2>3, <2>4
<1>9. QED BY <1>4, <1>5, <1>8

LEMMA DeliverKeeps ==
  ASSUME View!BoundsAssumption, ViewInv, View!Deliver
  PROVE  ViewInv'
<1>1. PICK m \in viewWire :
        /\ \A other \in viewWire : m.id <= other.id
        /\ lastId' = m.id
        /\ viewCursor' = View!Max({viewCursor, m.id})
        /\ shown' = IF m.id > viewCursor THEN View!WithMessage(shown, m) ELSE shown
        /\ viewWire' = viewWire \ {m}
  BY DEF View!Deliver
<1>2. UNCHANGED <<log, saved, phase, fetch, viewRefresh, connected, after, served, stale, refreshes>>
  BY DEF View!Deliver, View!counts
<1>3. View!TypeOK /\ LogSound /\ LogSound' /\ connected /\ phase = "open"
  BY <1>2, LogRests DEF ViewInv, View!TypeOK
<1>4. viewCursor \in Nat /\ m \in Post /\ m.id \in Nat
  BY <1>3 DEF View!TypeOK, View!Message, Post
<1>5. viewCursor' \in Nat /\ viewCursor' = IF viewCursor < m.id THEN m.id ELSE viewCursor
  BY <1>1, <1>4, MaxOfTwo
<1>6. View!TypeOK'
  <2>1. shown' \subseteq View!Message
    <3>1. shown \subseteq View!Message /\ m \in View!Message
      BY <1>3 DEF View!TypeOK
    <3>2. View!WithMessage(shown, m) \subseteq shown \cup {m}
      BY DEF View!WithMessage
    <3>3. QED BY <1>1, <3>1, <3>2
  <2>2. viewWire' \subseteq View!Message
    BY <1>1, <1>3 DEF View!TypeOK
  <2>3. {after', lastId', viewCursor', served'} \subseteq Nat
    BY <1>1, <1>2, <1>3, <1>4, <1>5 DEF View!TypeOK
  <2>4. QED BY <1>2, <1>3, <2>1, <2>2, <2>3 DEF View!TypeOK
<1>7. Loaded(fetch.rows)' = Loaded(fetch.rows)
  BY <1>2 DEF Loaded, View!IsDraft, View!Drafts
<1>8. CASE stale
  BY <1>2, <1>3, <1>6, <1>8 DEF ViewInv
<1>9. CASE ~stale
  <2>1. /\ viewCursor <= served /\ served <= Len(log) /\ served \in Nat /\ Len(log) \in Nat
        /\ viewWire = {n \in View!ToSet(log) : viewCursor < n.id /\ n.id <= served}
    BY <1>3, <1>4, <1>9, LogTypes DEF ViewInv, View!TypeOK
  <2>2. m.id > viewCursor /\ m.id <= served /\ m \in View!ToSet(log) /\ viewCursor' = m.id
    BY <1>1, <1>4, <1>5, <2>1
  <2>3. \A n \in View!ToSet(log) : n.id \in Nat /\ (n.id = m.id => n = m)
    BY <1>3, <2>2, LogTypes
  <2>4. \A n \in View!ToSet(log) : n.id > viewCursor => n.id >= m.id
    BY <1>1, <1>4, <2>1, <2>2, <2>3
  <2>5. viewWire' = {n \in View!ToSet(log) : m.id < n.id /\ n.id <= served}
    BY <1>1, <1>4, <2>1, <2>2, <2>3, <2>4
  <2>6. refreshes = 0 => Followed'
    <3> SUFFICES ASSUME refreshes = 0
                 PROVE  Followed'
      OBVIOUS
    <3>1. Followed
      BY <1>3, <1>9 DEF ViewInv
    <3>2. shown' = View!WithMessage(shown, m)
      BY <1>1, <2>2
    <3>3. /\ shown' \subseteq {n \in View!ToSet(log) : n.id <= m.id}
          /\ \A n \in View!ToSet(log) : n.id <= m.id /\ ~View!IsDraft(n) => n \in shown'
          /\ \A n \in shown' : View!IsDraft(n) =>
               \A other \in shown' :
                 /\ other.source # AnswerOf[n.source]
                 /\ View!IsDraft(other) /\ AnswerOf[other.source] = AnswerOf[n.source] => other = n
      BY <1>3, <1>9, <2>2, <2>4, <3>1, <3>2, ShownFollows
    <3>4. QED
      BY <1>2, <2>2, <3>3 DEF Followed, View!NothingSkipped, View!OneDraft, View!IsDraft, View!Drafts
  <2>7. after <= viewCursor /\ after \in Nat
    BY <1>3, <1>9 DEF ViewInv, View!TypeOK
  <2>8. /\ viewCursor' \in {after', lastId'} /\ viewCursor' \in 0 .. Len(log')
        /\ after' <= viewCursor' /\ lastId' <= viewCursor' /\ served' \in viewCursor' .. Len(log')
    <3>1. viewCursor' = m.id /\ lastId' = m.id /\ after' = after /\ served' = served /\ log' = log
      BY <1>1, <1>2, <2>2
    <3>2. m.id \in Nat /\ viewCursor < m.id /\ m.id <= served
      BY <1>4, <2>2
    <3>3. QED BY <1>4, <2>1, <2>7, <3>1, <3>2
  <2>9. QED BY <1>2, <1>3, <1>6, <1>7, <1>9, <2>2, <2>5, <2>6, <2>8 DEF ViewInv
<1>10. QED BY <1>3, <1>8, <1>9 DEF View!TypeOK

LEMMA ConnectionKeeps ==
  ASSUME ViewInv, View!Drop \/ View!Reconnect
  PROVE  ViewInv'
<1>1. /\ log' = log /\ saved' = saved
      /\ UNCHANGED <<phase, shown, fetch, viewRefresh, after, lastId, viewCursor, stale, refreshes>>
  BY DEF View!Drop, View!Reconnect, View!client, View!counts
<1>2. View!TypeOK /\ LogSound /\ LogSound'
  BY <1>1, LogRests DEF ViewInv
<1>3. Loaded(fetch.rows)' = Loaded(fetch.rows) /\ Followed' = Followed
  BY <1>1 DEF Loaded, Followed, View!NothingSkipped, View!OneDraft, View!IsDraft, View!Drafts
<1>4. CASE View!Drop
  <2>1. connected' = FALSE /\ viewWire' = {} /\ served' = served
    BY <1>4 DEF View!Drop, View!Disconnected
  <2>2. View!TypeOK'
    BY <1>1, <1>2, <2>1 DEF View!TypeOK
  <2>3. QED BY <1>1, <1>2, <1>3, <2>1, <2>2 DEF ViewInv
<1>5. CASE View!Reconnect
  <2>1. /\ phase = "open" /\ ~connected /\ connected' = TRUE /\ viewWire' = viewWire
        /\ served' = View!Max({after, lastId})
    BY <1>5 DEF View!Reconnect
  <2>2. after \in Nat /\ lastId \in Nat /\ viewCursor \in Nat /\ viewWire = {}
    BY <1>2, <2>1 DEF View!TypeOK
  <2>3. served' \in Nat /\ served' = IF after < lastId THEN lastId ELSE after
    BY <2>1, <2>2, MaxOfTwo
  <2>4. View!TypeOK'
    BY <1>1, <1>2, <2>1, <2>2, <2>3 DEF View!TypeOK
  <2>5. ~stale => served' = viewCursor /\ viewCursor <= Len(log)
    BY <2>1, <2>2, <2>3 DEF ViewInv
  <2>6. \A m \in View!ToSet(log) : m.id \in Nat
    BY <1>2, LogTypes
  <2>7. ~stale => viewWire' = {m \in View!ToSet(log) : viewCursor < m.id /\ m.id <= served'}
    BY <2>1, <2>2, <2>5, <2>6
  <2>8. ~stale => served' \in viewCursor .. Len(log)
    BY <1>2, <2>2, <2>5, LogTypes
  <2>9. QED BY <1>1, <1>2, <1>3, <2>1, <2>4, <2>7, <2>8 DEF ViewInv
<1>6. QED BY <1>4, <1>5
-----------------------------------------------------------------------------
LEMMA RefreshViewKeeps ==
  ASSUME View!BoundsAssumption, ViewInv, View!Refresh \/ View!RefreshAnswered \/ View!RefreshApplied
  PROVE  ViewInv'
<1>1. /\ log' = log /\ saved' = saved
      /\ UNCHANGED <<phase, fetch, connected, after, lastId, viewCursor, served, viewWire, stale>>
  BY DEF View!Refresh, View!RefreshAnswered, View!RefreshApplied, View!stream, View!counts
<1>2. View!TypeOK /\ LogSound /\ LogSound' /\ refreshes \in Nat
  BY <1>1, LogRests DEF ViewInv
<1>3. Loaded(fetch.rows)' = Loaded(fetch.rows)
  BY <1>1 DEF Loaded, View!IsDraft, View!Drafts
<1>4. refreshes' \in Nat /\ refreshes' # 0
  <2>1. CASE View!Refresh
    BY <1>2, <2>1 DEF View!Refresh
  <2>2. CASE View!RefreshAnswered \/ View!RefreshApplied
    <3>1. viewRefresh.at # "none" /\ refreshes' = refreshes
      BY <2>2 DEF View!RefreshAnswered, View!RefreshApplied, View!counts
    <3>2. QED BY <1>2, <3>1 DEF ViewInv
  <2>3. QED BY <2>1, <2>2
<1>5. View!TypeOK'
  <2>1. viewRefresh.rows \subseteq View!Message
    BY <1>2 DEF View!TypeOK
  <2>2. View!Page(0, GetLimit, View!Drafts) \subseteq View!Message
    <3>1. View!Page(0, GetLimit, View!Drafts) \subseteq View!ToSet(log)
      BY DEF View!Page
    <3>2. QED BY <1>2, <3>1, LogTypes DEF Post, View!Message
  <2>3. viewRefresh'.at \in {"none", "sent", "answered"} /\ viewRefresh'.rows \subseteq View!Message
    BY <2>2 DEF View!Refresh, View!RefreshAnswered, View!RefreshApplied, View!Quiet
  <2>4. shown' \subseteq View!Message
    BY <1>2, <2>1 DEF View!Refresh, View!RefreshAnswered, View!RefreshApplied, View!TypeOK
  <2>5. QED BY <1>1, <1>2, <2>3, <2>4 DEF View!TypeOK
<1>6. QED BY <1>1, <1>2, <1>3, <1>4, <1>5 DEF ViewInv

LEMMA ViewNext ==
  ASSUME View!BoundsAssumption, ViewInv, [View!Next]_(View!vars)
  PROVE  ViewInv'
<1>1. CASE UNCHANGED View!vars
  <2>1. UNCHANGED <<log, saved, phase, shown, fetch, viewRefresh, connected, after, lastId,
                    viewCursor, served, viewWire, stale, viewDrops, loads, refreshes, cuts>>
    BY <1>1 DEF View!vars, View!client, View!stream, View!counts
  <2>2. View!TypeOK' /\ LogSound'
    BY <2>1, LogRests DEF ViewInv, View!TypeOK
  <2>3. Loaded(fetch.rows)' = Loaded(fetch.rows) /\ Followed' = Followed
    BY <2>1 DEF Loaded, Followed, View!NothingSkipped, View!OneDraft, View!IsDraft, View!Drafts
  <2>4. QED BY <2>1, <2>2, <2>3 DEF ViewInv
<1>2. CASE View!Next
  BY <1>2, PublishKeeps, PersistKeeps, CrashKeeps, SelectKeeps, FetchAnsweredKeeps, FetchEndsKeep,
     PollViewKeeps, DeliverKeeps, ConnectionKeeps, RefreshViewKeeps DEF View!Next
<1>3. QED BY <1>1, <1>2

LEMMA ViewInvSound ==
  ASSUME ViewInv
  PROVE  ViewsAreWhole
<1>1. refreshes = 0 => View!NothingSkipped /\ View!OneDraft
  <2>1. CASE phase = "open" /\ ~stale
    BY <2>1 DEF ViewInv, Followed
  <2>2. CASE phase # "open" /\ refreshes = 0
    BY <2>2 DEF ViewInv, View!NothingSkipped, View!OneDraft
  <2>3. CASE stale
    BY <2>3 DEF View!NothingSkipped, View!OneDraft
  <2>4. QED BY <2>1, <2>2, <2>3
<1>2. View!CursorsMeet
  <2> SUFFICES ASSUME connected, ~stale
               PROVE  served = View!Max({viewCursor} \cup {m.id : m \in viewWire})
    BY DEF View!CursorsMeet
  <2> DEFINE T == {viewCursor} \cup {m.id : m \in viewWire}
  <2>1. View!TypeOK /\ LogSound /\ served \in viewCursor .. Len(log)
        /\ viewWire = {m \in View!ToSet(log) : viewCursor < m.id /\ m.id <= served}
    BY DEF ViewInv
  <2>2. viewCursor \in Nat /\ served \in Nat /\ viewCursor <= served /\ served <= Len(log) /\ Len(log) \in Nat
    BY <2>1, LogTypes DEF View!TypeOK
  <2>3. served \in T
    <3>1. CASE served = viewCursor
      BY <3>1
    <3>2. CASE served # viewCursor
      <4>1. log[served] \in View!ToSet(log) /\ log[served].id = served
        BY <2>1, <2>2, <3>2, LogTypes
      <4>2. log[served] \in viewWire
        BY <2>1, <2>2, <3>2, <4>1
      <4>3. QED BY <4>1, <4>2
    <3>3. QED BY <3>1, <3>2
  <2>4. \A k \in T : k \in Nat /\ k <= served
    BY <2>1, <2>2, LogTypes
  <2> HIDE DEF T
  <2>5. View!Max(T) \in T /\ \A k \in T : View!Max(T) >= k
    <3>1. \A k \in T : served >= k
      BY <2>2, <2>4
    <3>2. QED BY <2>3, <3>1 DEF View!Max
  <2>6. served = View!Max(T)
    <3>1. View!Max(T) \in Nat /\ View!Max(T) <= served
      BY <2>4, <2>5
    <3>2. View!Max(T) >= served
      BY <2>3, <2>5
    <3>3. QED BY <2>2, <3>1, <3>2
  <2>7. QED BY <2>6 DEF T
<1>3. QED BY <1>1, <1>2 DEF ViewInv, ViewsAreWhole

\* ViewsAreWhole of the run streams: whatever pages, lost connections, reloads,
\* crashes and overlapping answers meet, a view that was loaded since the last
\* loss has every message up to its cursor and one draft of an answer at most,
\* until a refresh overwrites it, and the server goes on where the browser is
\* (App.tsx, useConversationStream.ts and api/conversations.py).
THEOREM ViewsWhole ==
  ASSUME View!BoundsAssumption
  PROVE  View!Spec => []ViewsAreWhole
<1>1. View!Init => ViewInv
  BY ViewInit
<1>2. ViewInv /\ [View!Next]_(View!vars) => ViewInv'
  BY ViewNext
<1>3. ViewInv => ViewsAreWhole
  BY ViewInvSound
<1>4. QED BY <1>1, <1>2, <1>3, PTL DEF View!Spec
=============================================================================
