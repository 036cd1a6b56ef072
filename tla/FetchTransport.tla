--------------------------- MODULE FetchTransport ---------------------------
(***************************************************************************)
(* One call of FetchTransport.execute (src/internal/transport.ts): the     *)
(* attempts of a request, their deadlines, the caller's cancellation, the  *)
(* retries of a read and their backoff, the limited reading of the         *)
(* response body, and the events the observer reports.                     *)
(*                                                                         *)
(* Every action is one uninterrupted run of code: a handler up to its next *)
(* await, a timer, a listener, or something fetch or the body stream does. *)
(* Time is counted in ticks from the start of the call and passes only     *)
(* while nothing is left to run.  The caller may abort at any step: from   *)
(* another task, from another promise job, or from an observability hook.  *)
(***************************************************************************)
EXTENDS Integers, Sequences

CONSTANTS
  Operations,      \* descriptors: [read, problem : BOOLEAN] (READS, errorKind),
                   \* each with a fetch: [cooperative : BOOLEAN]
  ReadDeadline,    \* deadlineFor a read, in ticks
  ReadTotal,       \* totalDeadlineFor a read
  WriteDeadline,   \* both, for an operation that is not a read
  BackoffUnit,     \* the 100 ms the backoff doubles, in ticks
  MaxBytes,        \* MAX_RESPONSE_BYTES, in units of what a chunk holds
  Lateness,        \* how many ticks late a due timer may run at most
  Horizon          \* bound on the clock: TLC's only, no part of the code

ASSUME DeadlinesAssumption ==
  /\ Operations \subseteq
       [read : BOOLEAN, problem : BOOLEAN, cooperative : BOOLEAN]
  /\ ReadDeadline \in Nat \ {0} /\ ReadTotal \in Nat \ {0}
  /\ WriteDeadline \in Nat \ {0} /\ BackoffUnit \in Nat
  /\ MaxBytes \in Nat /\ Lateness \in Nat /\ Horizon \in Nat

VARIABLES
  op,              \* the operation's descriptor, and the fetch it goes through
  pc,              \* where the call is (below)
  now,             \* ticks since the call started
  attempt,         \* attempt
  dispatched,      \* calls of fetch so far
  callerAborted,   \* the caller's signal is aborted
  aborted,         \* controller.signal.aborted, of the current attempt
  listening,       \* onCallerAbort is registered on the caller's signal
  timerArmed,      \* the attempt's timer is neither fired nor cancelled
  timerDue,        \* when it is due
  delay,           \* the backoff drawn for the next attempt
  sleepDue,        \* when the sleep ends
  response,        \* the response fetch resolved with
  body,            \* what became of its body
  received,        \* units of body read so far
  verdict,         \* how disposition settled
  trace,           \* the events reported by the observer
  result           \* how execute settled

vars == <<op, pc, now, attempt, dispatched, callerAborted, aborted, listening,
          timerArmed, timerDue, delay, sleepDue, response, body, received,
          verdict, trace, result>>

clock == <<op, now>>
wires == <<listening, timerArmed, timerDue>>
answer == <<response, body, received, verdict>>

(***************************************************************************)
(* "attempted" is the point between observer.attempt and fetch,            *)
(* "scheduled" the one between observer.retry and sleep; at "rejected",    *)
(* "fetched", "disposed" and "interrupted" a promise is settled and        *)
(* execute has not resumed yet.                                            *)
(***************************************************************************)
Points == {"start", "loop", "attempted", "fetching", "rejected", "fetched",
           "reading", "disposed", "scheduled", "sleeping", "interrupted",
           "settled"}

Failures == {"abort", "timeout", "network", "malformed", "api", "invalid"}

\* A response as disposition tells them apart: by status, by the headers it
\* asks for, and by whether it has a body.
Responses == [kind : {"redirect", "unexpected", "error", "success"},
              typed : BOOLEAN, hasBody : BOOLEAN]
NoResponse == [kind |-> "none", typed |-> FALSE, hasBody |-> FALSE]

Events == [name : {"start", "attempt", "retry", "end"}, attempt : 0..3,
           outcome : {"none", "success", "cancelled", "error"}]

Start == [name |-> "start", attempt |-> 0, outcome |-> "none"]
AttemptEvent(n) == [name |-> "attempt", attempt |-> n, outcome |-> "none"]
RetryEvent(n) == [name |-> "retry", attempt |-> n, outcome |-> "none"]
EndEvent(n, res) ==
  [name |-> "end", attempt |-> n,
   outcome |-> CASE res = "ok" -> "success"
                 [] res \in {"abort", "timeout"} -> "cancelled"
                 [] OTHER -> "error"]

\* An aborted fetch rejects and never resolves.
Cooperative == op.cooperative

Smaller(a, b) == IF a <= b THEN a ELSE b

maximumAttempts == IF op.read THEN 3 ELSE 1
deadlineFor == IF op.read THEN ReadDeadline ELSE WriteDeadline
totalDeadline == IF op.read THEN ReadTotal ELSE WriteDeadline

\* Mutant: an attempt may outlast the call.
AttemptDeadlineUncapped == deadlineFor
AttemptDeadline == Smaller(deadlineFor, totalDeadline - now)

\* Math.min(100 * 2 ** (attempt - 1), 1000)
BackoffCap(n) == Smaller(BackoffUnit * 2^(n - 1), 10 * BackoffUnit)

TypeOK ==
  /\ op \in Operations
  /\ pc \in Points
  /\ now \in Nat /\ attempt \in 0..3 /\ dispatched \in 0..3
  /\ callerAborted \in BOOLEAN /\ aborted \in BOOLEAN
  /\ listening \in BOOLEAN /\ timerArmed \in BOOLEAN
  /\ timerDue \in Nat /\ delay \in Nat /\ sleepDue \in Nat
  /\ response \in Responses \cup {NoResponse}
  /\ body \in {"none", "open", "cancelled", "read"}
  /\ received \in 0..MaxBytes
  /\ verdict \in Failures \cup {"none", "ok"}
  /\ trace \in Seq(Events)
  /\ result \in Failures \cup {"none", "ok"}

Init ==
  /\ op \in Operations
  /\ pc = "start" /\ now = 0 /\ attempt = 0 /\ dispatched = 0
  /\ callerAborted \in BOOLEAN
  /\ aborted = FALSE /\ listening = FALSE
  /\ timerArmed = FALSE /\ timerDue = 0 /\ delay = 0 /\ sleepDue = 0
  /\ response = NoResponse /\ body = "none" /\ received = 0
  /\ verdict = "none" /\ trace = <<>> /\ result = "none"

----------------------------------------------------------------------------
(* Settling *)

\* The promise of execute settles; the observer hears how, and at which
\* attempt.
Settle(res, n) ==
  /\ pc' = "settled"
  /\ result' = res
  /\ trace' = Append(trace, EndEvent(n, res))

\* Mutant: the failed attempt's timer and listener stay.
UnwireForgotten == UNCHANGED wires

\* timer.cancel and removeEventListener
Unwire == timerArmed' = FALSE /\ listening' = FALSE /\ timerDue' = timerDue

----------------------------------------------------------------------------
(* Starting, and the top of the loop *)

\* prepare refuses the input: nothing was reported and nothing is sent.
BeginInvalid ==
  /\ pc = "start"
  /\ pc' = "settled"
  /\ result' = "invalid"
  /\ UNCHANGED <<clock, attempt, dispatched, callerAborted, aborted, wires,
                 delay, sleepDue, answer, trace>>

Begin ==
  /\ pc = "start"
  /\ pc' = "loop"
  /\ trace' = <<Start>>
  /\ UNCHANGED <<clock, attempt, dispatched, callerAborted, aborted, wires,
                 delay, sleepDue, answer, result>>

\* Mutant: the attempt has no timer.
StartAttemptUntimed ==
  /\ pc' = "attempted"
  /\ aborted' = FALSE
  /\ listening' = TRUE
  /\ trace' = Append(trace, AttemptEvent(attempt + 1))
  /\ UNCHANGED <<timerArmed, timerDue, result>>

StartAttempt ==
  /\ pc' = "attempted"
  /\ aborted' = FALSE
  /\ listening' = TRUE
  /\ timerArmed' = TRUE
  /\ timerDue' = now + AttemptDeadline
  /\ trace' = Append(trace, AttemptEvent(attempt + 1))
  /\ UNCHANGED result

\* Mutant: the attempt is counted before the caller's signal is looked at.
LoopCountingFirst ==
  /\ pc = "loop"
  /\ attempt' = attempt + 1
  /\ IF callerAborted
     THEN Settle("abort", attempt + 1) /\ UNCHANGED <<aborted, wires>>
     ELSE IF now >= totalDeadline
     THEN Settle("timeout", attempt + 1) /\ UNCHANGED <<aborted, wires>>
     ELSE StartAttempt
  /\ UNCHANGED <<clock, dispatched, callerAborted, delay, sleepDue, answer>>

Loop ==
  /\ pc = "loop"
  /\ \/ /\ callerAborted
        /\ Settle("abort", attempt)
        /\ UNCHANGED <<attempt, aborted, wires>>
     \/ /\ ~callerAborted
        /\ attempt' = attempt + 1
        /\ IF now >= totalDeadline
           THEN Settle("timeout", attempt + 1) /\ UNCHANGED <<aborted, wires>>
           ELSE StartAttempt
  /\ UNCHANGED <<clock, dispatched, callerAborted, delay, sleepDue, answer>>

Dispatch ==
  /\ pc = "attempted"
  /\ pc' = "fetching"
  /\ dispatched' = dispatched + 1
  /\ UNCHANGED <<clock, attempt, callerAborted, aborted, wires, delay,
                 sleepDue, answer, trace, result>>

----------------------------------------------------------------------------
(* What fetch does *)

FetchRejects ==
  /\ pc = "fetching"
  /\ pc' = "rejected"
  /\ UNCHANGED <<clock, attempt, dispatched, callerAborted, aborted, wires,
                 delay, sleepDue, answer, trace, result>>

FetchResolves(r) ==
  /\ pc = "fetching"
  /\ Cooperative => ~aborted
  /\ pc' = "fetched"
  /\ response' = r
  /\ body' = IF r.hasBody THEN "open" ELSE "none"
  /\ UNCHANGED <<clock, attempt, dispatched, callerAborted, aborted, wires,
                 delay, sleepDue, received, verdict, trace, result>>

----------------------------------------------------------------------------
(* The fetch was rejected: retry a read, or give up *)

\* Mutant: a write is repeated like a read.
RetryAnything == attempt < 3 /\ now < totalDeadline

CanRetry ==
  /\ op.read
  /\ attempt < maximumAttempts
  /\ now < totalDeadline

\* Mutant: the backoff is not held against the total deadline.
ScheduleUnbounded(d) ==
  /\ pc' = "scheduled"
  /\ delay' = d
  /\ trace' = Append(trace, RetryEvent(attempt + 1))
  /\ UNCHANGED result

\* Mutant: the retry is announced under the number of the failed attempt.
ScheduleMisnumbered(d) ==
  /\ delay' = d
  /\ IF now + d >= totalDeadline
     THEN Settle("timeout", attempt)
     ELSE /\ pc' = "scheduled"
          /\ trace' = Append(trace, RetryEvent(attempt))
          /\ UNCHANGED result

ScheduleRetry(d) ==
  /\ delay' = d
  /\ IF now + d >= totalDeadline
     THEN Settle("timeout", attempt)
     ELSE /\ pc' = "scheduled"
          /\ trace' = Append(trace, RetryEvent(attempt + 1))
          /\ UNCHANGED result

GiveUp == Settle(IF aborted THEN "timeout" ELSE "network", attempt)

AfterRejection ==
  /\ pc = "rejected"
  /\ Unwire
  /\ \/ callerAborted /\ Settle("abort", attempt) /\ UNCHANGED delay
     \/ ~callerAborted /\ ~CanRetry /\ GiveUp /\ UNCHANGED delay
     \/ /\ ~callerAborted /\ CanRetry
        /\ \E d \in 0..BackoffCap(attempt) : ScheduleRetry(d)
  /\ UNCHANGED <<clock, attempt, dispatched, callerAborted, aborted, sleepDue,
                 answer>>

\* runtime.sleep: an already cancelled caller makes it reject at once.
Sleep ==
  /\ pc = "scheduled"
  /\ IF callerAborted
     THEN pc' = "interrupted" /\ UNCHANGED sleepDue
     ELSE pc' = "sleeping" /\ sleepDue' = now + delay
  /\ UNCHANGED <<clock, attempt, dispatched, callerAborted, aborted, wires,
                 delay, answer, trace, result>>

SleepEnds ==
  /\ pc = "sleeping"
  /\ now >= sleepDue
  /\ pc' = "loop"
  /\ UNCHANGED <<clock, attempt, dispatched, callerAborted, aborted, wires,
                 delay, sleepDue, answer, trace, result>>

AfterInterruption ==
  /\ pc = "interrupted"
  /\ Settle("abort", attempt)
  /\ UNCHANGED <<clock, attempt, dispatched, callerAborted, aborted, wires,
                 delay, sleepDue, answer>>

----------------------------------------------------------------------------
(* The fetch was resolved: disposition of the response *)

\* Mutant: a response nobody reads keeps its connection.
CancelForgotten(b) == b

\* cancelResponseBody and cancelReader
Cancel(b) == IF b = "open" THEN "cancelled" ELSE b

Decided(v, b) ==
  /\ pc' = "disposed"
  /\ verdict' = v
  /\ body' = b

Problem == response.kind = "error" /\ op.problem /\ response.typed

\* Mutant: any 2xx status counts as success.
IsSuccessLoosely == response.kind \in {"success", "unexpected"}
IsSuccess == response.kind = "success"

AfterResponse ==
  /\ pc = "fetched"
  /\ \/ /\ callerAborted
        /\ Settle("abort", attempt)
        /\ Unwire
        /\ UNCHANGED <<body, verdict>>
     \/ /\ ~callerAborted
        /\ \/ /\ ~IsSuccess /\ response.kind # "error"
              /\ Decided("malformed", Cancel(body))
           \/ /\ response.kind = "error" /\ ~Problem
              /\ Decided("api", Cancel(body))
           \/ /\ IsSuccess /\ aborted
              /\ Decided("abort", body)
           \/ /\ IsSuccess /\ ~aborted /\ ~response.typed
              /\ Decided("malformed", Cancel(body))
           \/ /\ Problem \/ (IsSuccess /\ ~aborted /\ response.typed)
              /\ pc' = "reading"
              /\ UNCHANGED <<body, verdict>>
        /\ UNCHANGED <<wires, trace, result>>
  /\ UNCHANGED <<clock, attempt, dispatched, callerAborted, aborted, delay,
                 sleepDue, response, received>>

reading == <<clock, attempt, dispatched, callerAborted, aborted, wires, delay,
             sleepDue, response, trace, result>>

\* How a body that cannot be used counts: problemFailure keeps the status.
Unusable == IF Problem THEN "api" ELSE "malformed"

\* No body: readLimited returns no bytes at once.
ReadNothing ==
  /\ pc = "reading" /\ body = "none"
  /\ Decided(IF aborted THEN "abort" ELSE Unusable, body)
  /\ UNCHANGED <<reading, received>>

ReadAborted ==
  /\ pc = "reading" /\ body = "open" /\ aborted
  /\ Decided("abort", Cancel(body))
  /\ UNCHANGED <<reading, received>>

\* Mutant: the size limit is off by one.
ExceedsOffByOne(bytes) == bytes > MaxBytes + 1
Exceeds(bytes) == bytes > MaxBytes

\* Chunks that are buffered already win the race against the abort, which
\* then counts when the reading ends.
ReadChunk ==
  /\ pc = "reading" /\ body = "open"
  /\ IF Exceeds(received + 1)
     THEN /\ Decided(IF aborted THEN "abort" ELSE Unusable, Cancel(body))
          /\ UNCHANGED received
     ELSE received' = received + 1 /\ UNCHANGED <<pc, verdict, body>>
  /\ UNCHANGED reading

\* Mutant: nobody looks at the attempt's signal once the body has ended.
ReadEndsUnchecked ==
  /\ pc = "reading" /\ body = "open"
  /\ \E v \in {IF Problem THEN "api" ELSE "ok", Unusable} : Decided(v, "read")
  /\ UNCHANGED <<reading, received>>

\* The body ends and decodes, ends and does not, or breaks off.
ReadEnds ==
  /\ pc = "reading" /\ body = "open"
  /\ \E v \in {IF Problem THEN "api" ELSE "ok", Unusable} :
       Decided(IF aborted THEN "abort" ELSE v, "read")
  /\ UNCHANGED <<reading, received>>

\* Mutant: a result outranks the caller's cancellation.
FinalResultFirst ==
  IF verdict = "ok" THEN "ok"
  ELSE IF callerAborted THEN "abort" ELSE IF aborted THEN "timeout" ELSE verdict

\* Mutant: whether the attempt's timer ended it is not looked at.
FinalUntimed == IF callerAborted THEN "abort" ELSE verdict

Final ==
  IF callerAborted THEN "abort"
  ELSE IF aborted /\ verdict # "ok" THEN "timeout" ELSE verdict

\* Mutant: a read whose response is an error is sent again.
AfterDispositionRetrying ==
  /\ pc = "disposed"
  /\ Unwire
  /\ IF verdict = "api" /\ op.read /\ attempt < 3
     THEN pc' = "loop" /\ UNCHANGED <<trace, result>>
     ELSE Settle(Final, attempt)
  /\ UNCHANGED <<clock, attempt, dispatched, callerAborted, aborted, delay,
                 sleepDue, answer>>

AfterDisposition ==
  /\ pc = "disposed"
  /\ Unwire
  /\ Settle(Final, attempt)
  /\ UNCHANGED <<clock, attempt, dispatched, callerAborted, aborted, delay,
                 sleepDue, answer>>

----------------------------------------------------------------------------
(* Timers, the caller and the clock *)

TimerFires ==
  /\ pc \in {"fetching", "reading"}
  /\ timerArmed /\ now >= timerDue
  /\ timerArmed' = FALSE
  /\ aborted' = TRUE
  /\ UNCHANGED <<clock, pc, attempt, dispatched, callerAborted, listening,
                 timerDue, delay, sleepDue, answer, trace, result>>

\* The caller's signal: its listener on the attempt aborts the controller,
\* the one of a sleep clears the sleep's timer and rejects.
CallerAborts ==
  /\ ~callerAborted /\ pc # "settled"
  /\ callerAborted' = TRUE
  /\ aborted' = (aborted \/ listening)
  /\ listening' = FALSE
  /\ pc' = IF pc = "sleeping" THEN "interrupted" ELSE pc
  /\ UNCHANGED <<clock, attempt, dispatched, timerArmed, timerDue, delay,
                 sleepDue, answer, trace, result>>

\* Time passes while the call waits for something, and no timer is more than
\* Lateness ticks overdue; an abort is acted on before the clock moves.
Tick ==
  /\ now < Horizon
  /\ \/ /\ pc = "fetching"
        /\ timerArmed => now < timerDue + Lateness
        /\ Cooperative => ~aborted
     \/ /\ pc = "reading"
        /\ timerArmed => now < timerDue + Lateness
        /\ body = "open" /\ ~aborted
     \/ /\ pc = "sleeping"
        /\ now < sleepDue + Lateness
  /\ now' = now + 1
  /\ UNCHANGED <<op, pc, attempt, dispatched, callerAborted, aborted, wires,
                 delay, sleepDue, answer, trace, result>>

Terminated == pc = "settled" /\ UNCHANGED vars

----------------------------------------------------------------------------

\* What the SDK's own code does once it is its turn.
Resumes ==
  \/ BeginInvalid \/ Begin \/ Loop \/ Dispatch
  \/ AfterRejection \/ Sleep \/ AfterInterruption
  \/ AfterResponse \/ ReadNothing \/ ReadAborted \/ AfterDisposition

Next ==
  \/ Resumes
  \/ FetchRejects \/ \E r \in Responses : FetchResolves(r)
  \/ ReadChunk \/ ReadEnds
  \/ SleepEnds \/ TimerFires \/ CallerAborts \/ Tick
  \/ Terminated

Spec == Init /\ [][Next]_vars

(***************************************************************************)
(* The run time runs what is ready and every due timer, and time passes.   *)
(* A cooperative fetch rejects when it is aborted.  Nothing is assumed of  *)
(* the server: it may never answer and its body may never end.             *)
(***************************************************************************)
Fairness ==
  /\ WF_vars(Resumes) /\ WF_vars(SleepEnds) /\ WF_vars(TimerFires)
  /\ WF_vars(Tick)
  /\ WF_vars(Cooperative /\ aborted /\ FetchRejects)

FairSpec == Spec /\ Fairness

----------------------------------------------------------------------------
(* Properties *)

\* A write reaches the wire once at most, whatever fails (lines 527, 563).
WritesSentOnce == ~op.read => dispatched <= 1

\* Once a server has answered, the request is never sent again (582-600).
NeverResentAfterAnswer ==
  [][response # NoResponse => dispatched' = dispatched]_vars

\* A call that settles after its caller cancelled settles as cancelled: no
\* result, timeout or error outranks it (532, 562, 583, 591, 597).
CancellationWins ==
  [][pc # "start" /\ pc # "settled" /\ pc' = "settled" /\ callerAborted
       => result' = "abort"]_vars

\* Attempts, backoffs and the body together respect the total deadline, up to
\* the lateness of one timer (535-538, 566, 575), if fetch heeds its signal.
WithinTotalDeadline ==
  Cooperative => now <= totalDeadline + Lateness

\* Every call whose fetch heeds its signal settles, even if the server never
\* answers or its body never ends (231-258, 545).
Settles == Cooperative => <>(pc = "settled")

\* What the i-th event of a call is, unless it is the end.
EventAt(i) ==
  CASE i = 1 -> Start
    [] i > 1 /\ i % 2 = 0 -> AttemptEvent(i \div 2)
    [] OTHER -> RetryEvent((i + 1) \div 2)

\* The observer reports start, then attempts 1, 2, 3 with the retry that
\* schedules each one between them, then the end, once, last, with the
\* outcome of the call (525-604).
TraceWellFormed ==
  /\ \A i \in 1..Len(trace) :
       IF trace[i].name = "end"
       THEN i = Len(trace) /\ pc = "settled"
       ELSE trace[i] = EventAt(i)
  /\ pc = "settled" /\ result # "invalid" =>
       /\ trace # <<>>
       /\ trace[Len(trace)] = EndEvent(attempt, result)

\* The end event names the last attempt that was sent, but for a call whose
\* budget ran out while it slept: that one counts the attempt it never made
\* (533-535 and 604).
EndNamesLastAttempt ==
  pc = "settled" =>
    \/ attempt = dispatched
    \/ result = "timeout" /\ attempt = dispatched + 1 /\ now >= totalDeadline

\* No timer or listener of an attempt outlives it (560-561, 589-596).
NoTimerOrListenerLeft ==
  pc \in {"start", "loop", "scheduled", "sleeping", "interrupted", "settled"}
    => ~timerArmed /\ ~listening

\* A settled call left no body open: it was read to its end, cancelled, or
\* belongs to an aborted request, whose body a cooperative fetch releases
\* itself (235-246, 276-316, 323, 331).
NoBodyLeftOpen ==
  pc = "settled" /\ body = "open" => aborted

\* A result comes from a complete, declared, successful response within the
\* size limit, of an attempt its timer did not end (293-398).
ResultIsClean ==
  result = "ok" => /\ response.kind = "success" /\ response.typed
                   /\ body = "read" /\ received <= MaxBytes
                   /\ ~aborted

\* The error tells what happened: a cancellation only if the caller asked for
\* one, a timeout only if the attempt's timer ended it or the backoff no longer
\* fits the total deadline, a network failure only if nothing came and nobody
\* aborted, an API error only if the status was one, a malformed response only
\* if it was of no known form or its body was of no use; a body the timer cut
\* short is none of these two, however much of it was read (293-398, 566-600).
ErrorNamesItsCause ==
  /\ result = "abort" => callerAborted
  /\ result = "timeout" =>
       \/ aborted /\ now >= timerDue
       \/ /\ op.read /\ response = NoResponse
          /\ now + BackoffCap(attempt) >= totalDeadline
  /\ result = "network" => ~aborted /\ response = NoResponse
  /\ result = "api" => ~aborted /\ response.kind = "error"
  /\ result = "malformed" =>
       /\ ~aborted /\ response.kind \notin {"none", "error"}
       /\ IsSuccess /\ response.typed => body # "open"

\* The parts of the inductive invariant behind the properties of attempts,
\* wires, bodies and outcomes.  Only a call that may still try again is between
\* attempts; a wired attempt listens until its caller cancels and is aborted
\* otherwise only by its timer; an answer ends the attempts.
Wired == {"attempted", "fetching", "rejected", "fetched", "reading",
          "disposed"}
Answered == {"fetched", "reading", "disposed", "settled"}

AttemptsCounted ==
  /\ attempt <= maximumAttempts
  /\ pc \in {"start", "loop", "scheduled", "sleeping", "interrupted"} =>
       attempt < maximumAttempts
  /\ pc \notin {"attempted", "settled"} => attempt = dispatched
  /\ pc = "attempted" => attempt = dispatched + 1
  /\ dispatched <= attempt
  /\ attempt = 0 => pc \in {"start", "loop", "settled"} /\ now = 0

WiresFollowCaller ==
  /\ pc \in Wired =>
       /\ listening <=> ~callerAborted
       /\ callerAborted => aborted
       /\ aborted /\ ~callerAborted => now >= timerDue
  /\ pc \notin Wired => ~listening /\ ~timerArmed

DeadlinesKept ==
  /\ pc \in Wired => timerDue <= totalDeadline /\ (timerArmed \/ aborted)
  /\ pc = "scheduled" => now + delay < totalDeadline
  /\ pc = "sleeping" => sleepDue < totalDeadline

AnswerEndsAttempts ==
  /\ response # NoResponse \/ body = "open" => pc \in Answered
  /\ verdict # "none" => pc \in {"disposed", "settled"}
  /\ verdict \in {"none", "ok", "abort", "malformed", "api"}
  /\ body = "open" /\ pc \in {"disposed", "settled"} => aborted
  /\ pc = "reading" => Problem \/ (IsSuccess /\ response.typed)
  /\ verdict = "ok" => IsSuccess /\ response.typed /\ body = "read"
  /\ verdict = "ok" /\ pc = "disposed" /\ aborted => callerAborted
  /\ result # "none" => pc = "settled"

\* What disposition settles with, before execute looks at the signals.
VerdictsHaveCauses ==
  /\ pc = "interrupted" => callerAborted
  /\ pc \in {"fetched", "reading", "disposed"} => response # NoResponse
  /\ verdict = "abort" => aborted
  /\ verdict = "api" => response.kind = "error"
  /\ verdict = "malformed" =>
       /\ response.kind # "error"
       /\ IsSuccess /\ response.typed => body # "open"

\* Every attempt is reported once, and so is every retry once it is scheduled.
TraceCountsAttempts ==
  /\ pc = "start" => attempt = 0 /\ Len(trace) = 0
  /\ pc \in Wired => Len(trace) = 2 * attempt
  /\ pc \in {"loop", "scheduled", "sleeping", "interrupted"} =>
       Len(trace) = 2 * attempt + 1

IInv ==
  /\ TypeOK
  /\ AttemptsCounted
  /\ WiresFollowCaller
  /\ DeadlinesKept
  /\ AnswerEndsAttempts
  /\ VerdictsHaveCauses
  /\ EndNamesLastAttempt
  /\ ResultIsClean
  /\ ErrorNamesItsCause
  /\ WithinTotalDeadline
  /\ TraceWellFormed
  /\ TraceCountsAttempts

============================================================================
