----------------------------- MODULE ModelGateway -----------------------------
(***************************************************************************)
(* The calls that share a model gateway: structured and streaming of       *)
(* harness/model_gateway.py, structured and model_turn of                  *)
(* harness/openai_gateway.py. All four have the same loop: a place in the  *)
(* semaphore, a request under what is left of the call's time, and after a *)
(* retryable error a pause and another attempt.                            *)
(*                                                                         *)
(* Time is counted in ticks, and a timer that is due fires before the next *)
(* tick. The least timeout of a request, 1 ms in the code, is one tick.    *)
(***************************************************************************)
EXTENDS Integers, Sequences, FiniteSets, SequencesExt

CONSTANTS
  Calls,
  KindOf,       \* [Calls -> Kinds]
  Concurrency,  \* places in the semaphore
  Timeout,      \* ticks a call may take
  MaxRetries,
  Pauses        \* ticks of the pause after each attempt, the last one after all
                \* later ones: <<1, 2, 4, 8>> seconds in the code

Kinds == {"anthropic_structured", "anthropic_stream", "openai_structured", "openai_turn"}

CallsAssumption == KindOf \in [Calls -> Kinds]
NumbersAssumption ==
  /\ Concurrency \in Nat \ {0} /\ Timeout \in Nat \ {0}
  /\ MaxRetries \in Nat /\ Pauses \in Seq(Nat \ {0}) /\ Pauses # <<>>

VARIABLES
  phase,    \* "new", "queued", "asking", "pausing", "ended"
  value,    \* free places of the semaphore
  waiters,  \* calls queued for a place, first come first
  attempt,
  age,      \* ticks since the call started, up to Timeout + 1
  left,     \* ticks of the running timeout, or of the pause
  late,     \* requests the call began when its time was over, up to 2
  outcome   \* "none", "result", "retryable", "permanent", "cancelled"

vars == <<phase, value, waiters, attempt, age, left, late, outcome>>

Open(c) == phase[c] \notin {"new", "ended"}
Asking == {c \in Calls : phase[c] = "asking"}
Least(a, b) == IF a < b THEN a ELSE b
Most(a, b) == IF a < b THEN b ELSE a

\* _classify: what is worth another attempt. "Timeout" is the TimeoutError of
\* asyncio.timeout, "sink" an error of on_text_delta.
AnthropicClass(error) ==
  IF error \in {"APIConnectionError", "APITimeoutError", "RateLimitError", "status 5xx"}
    THEN "retryable" ELSE "permanent"

OpenAIClass(error) ==
  IF error \in {"APIConnectionError", "APITimeoutError", "RateLimitError", "status 5xx"}
    THEN "retryable" ELSE "permanent"

Anthropic(c) == KindOf[c] \in {"anthropic_structured", "anthropic_stream"}

Class(c, error) == IF Anthropic(c) THEN AnthropicClass(error) ELSE OpenAIClass(error)

Errors(c) ==
  {"APITimeoutError", "RateLimitError", "status 5xx", "status 4xx"}
    \cup (IF KindOf[c] \in {"anthropic_stream", "openai_turn"} THEN {"sink"} ELSE {})

\* What a gateway looks at of a response: why it stopped, and what is in it
\* ("none": no choices).
Responses ==
  [reason : {"end_turn", "tool_use", "refusal", "stop", "tool_calls", "length"},
   body : {"none", "empty", "text", "garbled", "calls"}]

\* _validate_stop_reason.
AnthropicAccepts(r) == r.reason \in {"end_turn", "tool_use", "pause_turn"}

\* The checks after the loop of structured, and parse_structured_output.
OpenAIAcceptsStructured(r) == r.reason \in {"stop", "tool_calls"} /\ r.body = "text"

\* The checks after the loop of model_turn.
OpenAIAcceptsTurn(r) ==
  /\ r.body # "none" /\ r.reason \in {"stop", "tool_calls"}
  /\ (r.reason = "tool_calls" => r.body = "calls")

Accepts(c, r) ==
  CASE Anthropic(c) -> AnthropicAccepts(r)
    [] KindOf[c] = "openai_structured" -> OpenAIAcceptsStructured(r)
    [] KindOf[c] = "openai_turn" -> OpenAIAcceptsTurn(r)
-----------------------------------------------------------------------------
Init ==
  /\ phase = [c \in Calls |-> "new"] /\ outcome = [c \in Calls |-> "none"]
  /\ value = Concurrency /\ waiters = <<>>
  /\ attempt = [c \in Calls |-> 0] /\ age = [c \in Calls |-> 0]
  /\ left = [c \in Calls |-> 0] /\ late = [c \in Calls |-> 0]

Queue(c) ==
  /\ phase' = [phase EXCEPT ![c] = "queued"]
  /\ waiters' = Append(waiters, c)

Call(c) ==
  /\ phase[c] = "new"
  /\ Queue(c)
  /\ UNCHANGED <<value, attempt, age, left, late, outcome>>

\* Mutant of TimeFor: every attempt has the whole time.
TimeForAttempt(c) == Timeout

\* The timeout of a request.
TimeFor(c) == Most(1, Timeout - age[c])

\* The semaphore lets the first waiter in; its timeout starts only now.
Acquire(c) ==
  /\ waiters # <<>> /\ Head(waiters) = c /\ value > 0
  /\ waiters' = Tail(waiters) /\ value' = value - 1
  /\ phase' = [phase EXCEPT ![c] = "asking"]
  /\ left' = [left EXCEPT ![c] = TimeFor(c)]
  /\ late' = [late EXCEPT ![c] = Least(2, late[c] + (IF age[c] >= Timeout THEN 1 ELSE 0))]
  /\ UNCHANGED <<attempt, age, outcome>>

End(c, how) ==
  /\ phase' = [phase EXCEPT ![c] = "ended"]
  /\ outcome' = [outcome EXCEPT ![c] = how]

\* The provider answers: the loop is left, and the answer may be refused.
Respond(c, r) ==
  /\ phase[c] = "asking"
  /\ value' = value + 1
  /\ End(c, IF Accepts(c, r) THEN "result" ELSE "permanent")
  /\ UNCHANGED <<waiters, attempt, age, left, late>>

\* Mutant of MayRetry: the time of the call is not looked at.
MayRetryLate(c, error) == Class(c, error) = "retryable" /\ attempt[c] < MaxRetries

\* Mutant of MayRetry: the first request counts as a retry.
MayRetryLess(c, error) ==
  Class(c, error) = "retryable" /\ attempt[c] + 1 < MaxRetries /\ age[c] < Timeout

MayRetry(c, error) ==
  Class(c, error) = "retryable" /\ attempt[c] < MaxRetries /\ age[c] < Timeout

\* The except branch: the place is already free.
Retry(c) ==
  /\ phase' = [phase EXCEPT ![c] = "pausing"]
  /\ left' = [left EXCEPT ![c] = Pauses[Least(attempt[c] + 1, Len(Pauses))]]
  /\ UNCHANGED outcome

Fail(c, error) ==
  /\ phase[c] = "asking"
  /\ value' = value + 1
  /\ IF MayRetry(c, error) THEN Retry(c)
     ELSE End(c, Class(c, error)) /\ UNCHANGED left
  /\ UNCHANGED <<waiters, attempt, age, late>>

TimesOut(c) == left[c] = 0 /\ Fail(c, "Timeout")

Resume(c) ==
  /\ phase[c] = "pausing" /\ left[c] = 0
  /\ attempt' = [attempt EXCEPT ![c] = @ + 1]
  /\ Queue(c)
  /\ UNCHANGED <<value, age, left, late, outcome>>

\* Mutant of Cancel: a request that is cancelled keeps its place.
CancelKeeps(c) ==
  /\ Open(c)
  /\ waiters' = RemoveFirst(waiters, c)
  /\ End(c, "cancelled")
  /\ UNCHANGED <<value, attempt, age, left, late>>

\* CancelledError is no Exception: nothing catches it, the semaphore is left.
Cancel(c) ==
  /\ Open(c)
  /\ waiters' = RemoveFirst(waiters, c)
  /\ value' = value + (IF phase[c] = "asking" THEN 1 ELSE 0)
  /\ End(c, "cancelled")
  /\ UNCHANGED <<attempt, age, left, late>>

Timed(c) == phase[c] \in {"asking", "pausing"}

Tick ==
  /\ \E c \in Calls : Open(c)
  /\ \A c \in Calls : Timed(c) => left[c] > 0
  /\ waiters = <<>> \/ value = 0
  /\ age' = [c \in Calls |-> IF Open(c) THEN Least(Timeout + 1, age[c] + 1) ELSE age[c]]
  /\ left' = [c \in Calls |-> IF Timed(c) THEN left[c] - 1 ELSE left[c]]
  /\ UNCHANGED <<phase, value, waiters, attempt, late, outcome>>

Next ==
  \/ \E c \in Calls :
       \/ Call(c) \/ Acquire(c) \/ TimesOut(c) \/ Resume(c) \/ Cancel(c)
       \/ \E r \in Responses : Respond(c, r)
       \/ \E error \in Errors(c) : Fail(c, error)
  \/ Tick

\* The event loop runs what is due, and the clock runs; nothing else must happen.
Fairness ==
  /\ WF_vars(Tick)
  /\ \A c \in Calls : WF_vars(Acquire(c)) /\ WF_vars(TimesOut(c)) /\ WF_vars(Resume(c))

Spec == Init /\ [][Next]_vars /\ Fairness
-----------------------------------------------------------------------------
TypeOK ==
  /\ phase \in [Calls -> {"new", "queued", "asking", "pausing", "ended"}]
  /\ outcome \in [Calls -> {"none", "result", "retryable", "permanent", "cancelled"}]
  /\ value \in 0 .. Concurrency
  /\ waiters \in Seq(Calls)
  /\ attempt \in [Calls -> 0 .. MaxRetries]
  /\ age \in [Calls -> 0 .. Timeout + 1]
  /\ left \in [Calls -> Nat]
  /\ late \in [Calls -> 0 .. 2]

\* Every way out of a request gives its place back, and a call that pauses
\* holds none.
NoPlaceLeaks == value + Cardinality(Asking) = Concurrency

\* A request ends within the time of its call; only one that got its place
\* when the time was over is given the least timeout.
RequestInTime == \A c \in Asking : age[c] + left[c] <= Timeout \/ left[c] <= 1

\* However long a call waits for places and pauses, it begins at most one
\* request after its time is over.
OneLateRequest == \A c \in Calls : late[c] <= 1

\* A call gives up on an error that may pass only when its retries or its time
\* are used up.
GivesUpLast ==
  \A c \in Calls : outcome[c] = "retryable" => attempt[c] = MaxRetries \/ age[c] >= Timeout

\* Every way out of a request gives its place back, a request ends within the
\* time of its call, which begins one late request at most, and a call gives up
\* on an error that may pass only when its retries or its time are used up.
PlacesAndTimesKept == TypeOK /\ NoPlaceLeaks /\ RequestInTime /\ OneLateRequest /\ GivesUpLast

\* Every call ends, also when the provider never answers and when it waits for
\* a place, which no timeout limits.
CallEnds == \A c \in Calls : Open(c) ~> phase[c] = "ended"
=============================================================================
