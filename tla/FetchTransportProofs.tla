------------------------ MODULE FetchTransportProofs ------------------------
(***************************************************************************)
(* What one call of the transport promises, for every value of the         *)
(* deadlines, the backoff, the size limit and the lateness of timers, and  *)
(* for a fetch that heeds its signal or not: IInv of FetchTransport is     *)
(* inductive and implies the properties of attempts, cancellation, wires,  *)
(* bodies and outcomes; and every step uses up some of what a call has, so *)
(* that it ends.  At last, the sampling of the backoff, for any number of  *)
(* random words.                                                           *)
(***************************************************************************)
EXTENDS FetchTransport, Backoff, FiniteSetTheorems, FunctionTheorems, TLAPS

----------------------------------------------------------------------------
(* The operators the steps are made of *)

\* The backoff of every attempt that can be retried is a number of ticks.
LEMMA BackoffCapType == ASSUME NEW n \in 1..3 PROVE BackoffCap(n) \in Nat
<1>1. 2^0 = 1 /\ 2^1 = 2 /\ 2^2 = 4
  OBVIOUS
<1>2. (n = 1 /\ n - 1 = 0) \/ (n = 2 /\ n - 1 = 1) \/ (n = 3 /\ n - 1 = 2)
  OBVIOUS
<1>3. 2^(n - 1) \in {1, 2, 4}
  BY <1>1, <1>2
<1> DEFINE doubled == 2^(n - 1)
<1>4. BackoffCap(n) = Smaller(BackoffUnit * doubled, 10 * BackoffUnit)
  BY DEF BackoffCap
<1>5. BackoffUnit * doubled \in Nat /\ 10 * BackoffUnit \in Nat
  BY <1>3, DeadlinesAssumption
<1>6. QED
  BY <1>4, <1>5 DEF Smaller

LEMMA EventTypes ==
  ASSUME NEW n \in 0..3, NEW res
  PROVE  /\ Start \in Events /\ AttemptEvent(n) \in Events
         /\ RetryEvent(n) \in Events /\ EndEvent(n, res) \in Events
BY DEF Events, Start, AttemptEvent, RetryEvent, EndEvent

LEMMA DeadlineTypes ==
  ASSUME op \in Operations
  PROVE  /\ op.read \in BOOLEAN /\ op.problem \in BOOLEAN
         /\ deadlineFor \in Nat \ {0} /\ totalDeadline \in Nat \ {0}
         /\ maximumAttempts \in 1..3
BY DeadlinesAssumption DEF deadlineFor, totalDeadline, maximumAttempts

\* An attempt that starts within the total deadline has a deadline of its own.
LEMMA AttemptDeadlineType ==
  ASSUME op \in Operations, now \in Nat, ~(now >= totalDeadline)
  PROVE  AttemptDeadline \in Nat
BY DeadlineTypes DEF AttemptDeadline, Smaller

LEMMA FinalType ==
  ASSUME TypeOK PROVE Final \in Failures \cup {"none", "ok"}
BY DEF TypeOK, Final, Failures

----------------------------------------------------------------------------
(* Types *)

LEMMA InitialTypes == Init => TypeOK
<1>1. SUFFICES ASSUME Init PROVE TypeOK
  OBVIOUS
<1>2. trace \in Seq(Events)
  BY <1>1 DEF Init
<1>3. 0 \in 0..MaxBytes
  BY DeadlinesAssumption
<1>4. /\ op \in Operations /\ pc \in Points /\ now \in Nat
      /\ attempt \in 0..3 /\ dispatched \in 0..3
  BY <1>1 DEF Init, Points
<1>5. /\ callerAborted \in BOOLEAN /\ aborted \in BOOLEAN
      /\ listening \in BOOLEAN /\ timerArmed \in BOOLEAN
  BY <1>1, Zenon DEF Init
<1>6. QED
  BY <1>1, <1>2, <1>3, <1>4, <1>5 DEF Init, TypeOK

LEMMA SettleType ==
  ASSUME TypeOK, NEW n \in 0..3, NEW res \in Failures \cup {"ok"},
         Settle(res, n)
  PROVE  pc' = "settled" /\ result' = res /\ trace' \in Seq(Events)
BY EventTypes DEF Settle, TypeOK

LEMMA TypesKept == TypeOK /\ AttemptsCounted /\ [Next]_vars => TypeOK'
<1> SUFFICES ASSUME TypeOK, AttemptsCounted, [Next]_vars PROVE TypeOK'
  OBVIOUS
<1> USE DEF clock, wires, answer
<1>1. CASE BeginInvalid
  BY <1>1 DEF BeginInvalid, TypeOK, Points, Failures
<1>2. CASE Begin
  <2>1. trace' \in Seq(Events)
    BY <1>2, EventTypes DEF Begin
  <2>2. QED
    BY <1>2, <2>1 DEF Begin, TypeOK, Points
<1>3. CASE Loop
  <2>1. attempt + 1 \in 0..3 /\ attempt \in 0..3
    BY <1>3, DeadlineTypes DEF Loop, TypeOK, AttemptsCounted
  <2>2. /\ {"abort", "timeout"} \subseteq Failures
        /\ {"settled", "attempted"} \subseteq Points
    BY DEF Failures, Points
  <2>3. CASE Settle("abort", attempt) /\ UNCHANGED <<attempt, aborted, wires>>
    <3>1. pc' = "settled" /\ result' = "abort" /\ trace' \in Seq(Events)
      BY <2>1, <2>2, <2>3, SettleType
    <3>2. QED
      BY <1>3, <2>2, <2>3, <3>1 DEF Loop, TypeOK
  <2>4. CASE /\ attempt' = attempt + 1
             /\ Settle("timeout", attempt + 1) /\ UNCHANGED <<aborted, wires>>
    <3>1. pc' = "settled" /\ result' = "timeout" /\ trace' \in Seq(Events)
      BY <2>1, <2>2, <2>4, SettleType
    <3>2. QED
      BY <1>3, <2>1, <2>2, <2>4, <3>1 DEF Loop, TypeOK
  <2>5. CASE attempt' = attempt + 1 /\ ~(now >= totalDeadline) /\ StartAttempt
    <3>1. trace' \in Seq(Events)
      BY <2>1, <2>5, EventTypes DEF StartAttempt, TypeOK
    <3>2. now + AttemptDeadline \in Nat
      BY <2>5, AttemptDeadlineType DEF TypeOK
    <3>3. QED
      BY <1>3, <2>1, <2>2, <2>5, <3>1, <3>2 DEF Loop, StartAttempt, TypeOK
  <2>6. QED
    BY <1>3, <2>3, <2>4, <2>5 DEF Loop
<1>4. CASE Dispatch
  <2>1. dispatched + 1 \in 0..3
    BY <1>4, DeadlineTypes DEF Dispatch, TypeOK, AttemptsCounted
  <2>2. QED
    BY <1>4, <2>1 DEF Dispatch, TypeOK, Points
<1>5. CASE AfterRejection
  <2>1. attempt \in 0..3 /\ "abort" \in Failures /\ "timeout" \in Failures
        /\ "network" \in Failures
    BY DEF TypeOK, Failures
  <2>2. CASE Settle("abort", attempt) /\ UNCHANGED delay
    <3>1. pc' = "settled" /\ result' = "abort" /\ trace' \in Seq(Events)
      BY <2>1, <2>2, SettleType
    <3>2. QED
      BY <1>5, <2>1, <2>2, <3>1
      DEF AfterRejection, Unwire, TypeOK, Points
  <2>3. CASE GiveUp /\ UNCHANGED delay
    <3>1. PICK res \in {"timeout", "network"} : Settle(res, attempt)
      BY <2>3 DEF GiveUp
    <3>2. pc' = "settled" /\ result' = res /\ trace' \in Seq(Events)
      BY <2>1, <3>1, SettleType
    <3>3. QED
      BY <1>5, <2>1, <2>3, <3>2
      DEF AfterRejection, Unwire, TypeOK, Points
  <2>4. CASE CanRetry /\ \E d \in 0..BackoffCap(attempt) : ScheduleRetry(d)
    <3>1. attempt \in 1..3 /\ attempt + 1 \in 0..3
      BY <1>5, <2>4, DeadlineTypes
      DEF AfterRejection, CanRetry, TypeOK, AttemptsCounted
    <3>2. PICK d \in 0..BackoffCap(attempt) : ScheduleRetry(d)
      BY <2>4
    <3>3. d \in Nat
      BY <3>1, <3>2, BackoffCapType
    <3>4. CASE Settle("timeout", attempt)
      <4>1. pc' = "settled" /\ result' = "timeout" /\ trace' \in Seq(Events)
        BY <2>1, <3>4, SettleType
      <4>2. QED
        BY <1>5, <2>1, <3>2, <3>3, <4>1
        DEF AfterRejection, ScheduleRetry, Unwire, TypeOK, Points
    <3>5. CASE /\ pc' = "scheduled"
               /\ trace' = Append(trace, RetryEvent(attempt + 1))
               /\ UNCHANGED result
      <4>1. trace' \in Seq(Events)
        BY <3>1, <3>5, EventTypes DEF TypeOK
      <4>2. QED
        BY <1>5, <3>2, <3>3, <3>5, <4>1
        DEF AfterRejection, ScheduleRetry, Unwire, TypeOK, Points
    <3>6. QED
      BY <3>2, <3>4, <3>5 DEF ScheduleRetry
  <2>5. QED
    BY <1>5, <2>2, <2>3, <2>4 DEF AfterRejection
<1>6. CASE AfterInterruption
  <2>1. pc' = "settled" /\ result' = "abort" /\ trace' \in Seq(Events)
    BY <1>6, SettleType DEF AfterInterruption, TypeOK, Failures
  <2>2. QED
    BY <1>6, <2>1 DEF AfterInterruption, TypeOK, Points, Failures
<1>7. CASE AfterResponse
  <2>1. Cancel(body) \in {"none", "open", "cancelled", "read"}
    BY DEF Cancel, TypeOK
  <2>2. CASE Settle("abort", attempt) /\ Unwire /\ UNCHANGED <<body, verdict>>
    <3>1. pc' = "settled" /\ result' = "abort" /\ trace' \in Seq(Events)
      BY <2>2, SettleType DEF TypeOK, Failures
    <3>2. QED
      BY <1>7, <2>2, <3>1 DEF AfterResponse, Unwire, TypeOK, Points, Failures
  <2>3. CASE ~callerAborted
    BY <1>7, <2>1, <2>3
    DEF AfterResponse, Decided, TypeOK, Points, Failures
  <2>4. QED
    BY <1>7, <2>2, <2>3 DEF AfterResponse
<1>8. CASE AfterDisposition
  <2>1. Final \in Failures \cup {"none", "ok"} /\ attempt \in 0..3
    BY FinalType DEF TypeOK
  <2>2. trace' \in Seq(Events)
    BY <1>8, <2>1, EventTypes DEF AfterDisposition, Settle, TypeOK
  <2>3. QED
    BY <1>8, <2>1, <2>2 DEF AfterDisposition, Settle, Unwire, TypeOK, Points
<1>9. CASE ReadNothing \/ ReadAborted \/ ReadChunk \/ ReadEnds
  <2>1. Cancel(body) \in {"none", "open", "cancelled", "read"}
    BY DEF Cancel, TypeOK
  <2>2. Unusable \in Failures
    BY DEF Unusable, Failures
  <2>3. received' \in 0..MaxBytes
    BY <1>9, DeadlinesAssumption
    DEF ReadNothing, ReadAborted, ReadChunk, ReadEnds, Exceeds, TypeOK
  <2>4. CASE ReadNothing \/ ReadAborted
    BY <2>1, <2>2, <2>4
    DEF ReadNothing, ReadAborted, Decided, reading, TypeOK, Points, Failures
  <2>5. CASE ReadChunk
    BY <2>1, <2>2, <2>3, <2>5
    DEF ReadChunk, Decided, reading, TypeOK, Points, Failures
  <2>6. CASE ReadEnds
    BY <2>2, <2>6
    DEF ReadEnds, Decided, reading, TypeOK, Points, Failures
  <2>7. QED
    BY <1>9, <2>4, <2>5, <2>6
<1>10. CASE Sleep \/ SleepEnds \/ CallerAborts \/ TimerFires \/ FetchRejects
  <2>1. CASE Sleep
    BY <2>1 DEF Sleep, TypeOK, Points
  <2>2. CASE SleepEnds
    BY <2>2 DEF SleepEnds, TypeOK, Points
  <2>3. CASE CallerAborts
    <3>1. aborted' \in BOOLEAN /\ callerAborted' \in BOOLEAN
            /\ listening' \in BOOLEAN
      BY <2>3 DEF CallerAborts
    <3>2. pc' \in Points
      BY <2>3 DEF CallerAborts, TypeOK, Points
    <3>3. QED
      BY <2>3, <3>1, <3>2 DEF CallerAborts, TypeOK
  <2>4. CASE TimerFires
    BY <2>4 DEF TimerFires, TypeOK
  <2>5. CASE FetchRejects
    BY <2>5 DEF FetchRejects, TypeOK, Points
  <2>6. QED
    BY <1>10, <2>1, <2>2, <2>3, <2>4, <2>5
<1>11. CASE \E r \in Responses : FetchResolves(r)
  BY <1>11 DEF FetchResolves, TypeOK, Points
<1>12. CASE Tick
  BY <1>12 DEF Tick, TypeOK
<1>13. CASE Terminated \/ UNCHANGED vars
  BY <1>13 DEF Terminated, vars, TypeOK
<1>14. QED
  BY <1>1, <1>2, <1>3, <1>4, <1>5, <1>6, <1>7, <1>8, <1>9, <1>10, <1>11,
     <1>12, <1>13 DEF Next, Resumes

----------------------------------------------------------------------------
(* Attempts *)

LEMMA AttemptsKept ==
  TypeOK /\ AttemptsCounted /\ AnswerEndsAttempts /\ EndNamesLastAttempt
    /\ [Next]_vars => AttemptsCounted' /\ EndNamesLastAttempt'
<1> SUFFICES ASSUME TypeOK, AttemptsCounted, AnswerEndsAttempts,
                    EndNamesLastAttempt, [Next]_vars
             PROVE  AttemptsCounted' /\ EndNamesLastAttempt'
  OBVIOUS
<1> USE DEF clock, wires, answer, AttemptsCounted, EndNamesLastAttempt
<1>1. /\ maximumAttempts \in 1..3 /\ totalDeadline \in Nat \ {0}
      /\ attempt \in 0..3 /\ dispatched \in 0..3 /\ now \in Nat
  BY DeadlineTypes DEF TypeOK
<1>2. maximumAttempts' = maximumAttempts /\ totalDeadline' = totalDeadline
  <2>1. op' = op
    BY DEF Next, Resumes, BeginInvalid, Begin, Loop, Dispatch, AfterRejection,
           Sleep, AfterInterruption, AfterResponse, ReadNothing, ReadAborted,
           AfterDisposition, FetchRejects, FetchResolves, ReadChunk, ReadEnds,
           reading, SleepEnds, TimerFires, CallerAborts, Tick, Terminated, vars
  <2>2. QED
    BY <2>1 DEF maximumAttempts, totalDeadline
<1> HIDE DEF maximumAttempts, totalDeadline
<1>3. CASE BeginInvalid \/ Begin
  BY <1>1, <1>2, <1>3 DEF BeginInvalid, Begin
<1>4. CASE Loop
  BY <1>1, <1>2, <1>4 DEF Loop, Settle, StartAttempt
<1>5. CASE Dispatch \/ Sleep \/ SleepEnds \/ FetchRejects
  BY <1>1, <1>2, <1>5 DEF Dispatch, Sleep, SleepEnds, FetchRejects
<1>6. CASE AfterRejection
  BY <1>1, <1>2, <1>6
  DEF AfterRejection, Settle, GiveUp, CanRetry, ScheduleRetry
<1>7. CASE AfterInterruption \/ AfterDisposition
  BY <1>1, <1>2, <1>7 DEF AfterInterruption, AfterDisposition, Settle
<1>8. CASE AfterResponse
  BY <1>1, <1>2, <1>8 DEF AfterResponse, Settle, Decided
<1>9. CASE ReadNothing \/ ReadAborted \/ ReadChunk \/ ReadEnds
  BY <1>1, <1>2, <1>9
  DEF ReadNothing, ReadAborted, ReadChunk, ReadEnds, Decided, reading
<1>10. CASE \E r \in Responses : FetchResolves(r)
  BY <1>1, <1>2, <1>10 DEF FetchResolves
<1>11. CASE TimerFires \/ CallerAborts
  BY <1>1, <1>2, <1>11 DEF TimerFires, CallerAborts
<1>12. CASE Tick
  BY <1>1, <1>2, <1>12 DEF Tick
<1>13. CASE Terminated \/ UNCHANGED vars
  BY <1>1, <1>2, <1>13 DEF Terminated, vars
<1>14. QED
  BY <1>3, <1>4, <1>5, <1>6, <1>7, <1>8, <1>9, <1>10, <1>11, <1>12, <1>13
  DEF Next, Resumes


----------------------------------------------------------------------------
(* Timers and listeners *)

LEMMA WiresKept ==
  TypeOK /\ WiresFollowCaller /\ [Next]_vars => WiresFollowCaller'
<1> SUFFICES ASSUME TypeOK, WiresFollowCaller, [Next]_vars
             PROVE  WiresFollowCaller'
  OBVIOUS
<1> USE DEF clock, wires, answer, WiresFollowCaller, Wired
<1>1. now \in Nat /\ timerDue \in Nat
  BY DEF TypeOK
<1>2. CASE BeginInvalid \/ Begin
  BY <1>2 DEF BeginInvalid, Begin
<1>3. CASE Loop
  BY <1>3 DEF Loop, Settle, StartAttempt
<1>4. CASE Dispatch \/ Sleep \/ SleepEnds \/ FetchRejects
  BY <1>4 DEF Dispatch, Sleep, SleepEnds, FetchRejects
<1>5. CASE AfterRejection
  BY <1>5 DEF AfterRejection, Settle, GiveUp, ScheduleRetry, Unwire
<1>6. CASE AfterInterruption \/ AfterDisposition
  BY <1>6 DEF AfterInterruption, AfterDisposition, Settle, Unwire
<1>7. CASE AfterResponse
  BY <1>7 DEF AfterResponse, Settle, Decided, Unwire
<1>8. CASE ReadNothing \/ ReadAborted \/ ReadChunk \/ ReadEnds
  BY <1>8
  DEF ReadNothing, ReadAborted, ReadChunk, ReadEnds, Decided, reading
<1>9. CASE \E r \in Responses : FetchResolves(r)
  BY <1>9 DEF FetchResolves
<1>10. CASE TimerFires
  BY <1>10 DEF TimerFires
<1>11. CASE CallerAborts
  BY <1>11 DEF CallerAborts
<1>12. CASE Tick
  BY <1>1, <1>12 DEF Tick
<1>13. CASE Terminated \/ UNCHANGED vars
  BY <1>13 DEF Terminated, vars
<1>14. QED
  BY <1>2, <1>3, <1>4, <1>5, <1>6, <1>7, <1>8, <1>9, <1>10, <1>11, <1>12,
     <1>13
  DEF Next, Resumes

----------------------------------------------------------------------------
(* The total deadline *)

LEMMA DeadlinesHold ==
  TypeOK /\ DeadlinesKept /\ WithinTotalDeadline /\ [Next]_vars
    => DeadlinesKept' /\ WithinTotalDeadline'
<1> SUFFICES ASSUME TypeOK, DeadlinesKept, WithinTotalDeadline, [Next]_vars
             PROVE  DeadlinesKept' /\ WithinTotalDeadline'
  OBVIOUS
<1> USE DEF clock, wires, answer, DeadlinesKept, WithinTotalDeadline, Wired
<1>1. /\ now \in Nat /\ timerDue \in Nat /\ sleepDue \in Nat /\ delay \in Nat
      /\ Lateness \in Nat /\ totalDeadline \in Nat \ {0}
  BY DeadlineTypes, DeadlinesAssumption DEF TypeOK
<1>2. totalDeadline' = totalDeadline /\ Cooperative' = Cooperative
  <2>1. op' = op
    BY DEF Next, Resumes, BeginInvalid, Begin, Loop, Dispatch, AfterRejection,
           Sleep, AfterInterruption, AfterResponse, ReadNothing, ReadAborted,
           AfterDisposition, FetchRejects, FetchResolves, ReadChunk, ReadEnds,
           reading, SleepEnds, TimerFires, CallerAborts, Tick, Terminated, vars
  <2>2. QED
    BY <2>1 DEF totalDeadline, Cooperative
<1>3. CASE BeginInvalid \/ Begin
  BY <1>2, <1>3 DEF BeginInvalid, Begin
<1>4. CASE Loop
  <2>1. ~(now >= totalDeadline) =>
          AttemptDeadline \in Int /\ now + AttemptDeadline <= totalDeadline
    BY <1>1, DeadlineTypes DEF AttemptDeadline, Smaller, TypeOK
  <2> HIDE DEF totalDeadline
  <2>2. QED
    BY <1>1, <1>2, <1>4, <2>1 DEF Loop, Settle, StartAttempt
<1> HIDE DEF totalDeadline
<1>5. CASE Dispatch \/ FetchRejects
  BY <1>2, <1>5 DEF Dispatch, FetchRejects
<1>6. CASE Sleep \/ SleepEnds
  BY <1>1, <1>2, <1>6 DEF Sleep, SleepEnds
<1>7. CASE AfterRejection
  BY <1>1, <1>2, <1>7
  DEF AfterRejection, Settle, GiveUp, ScheduleRetry, Unwire
<1>8. CASE AfterInterruption \/ AfterDisposition
  BY <1>2, <1>8 DEF AfterInterruption, AfterDisposition, Settle, Unwire
<1>9. CASE AfterResponse
  BY <1>2, <1>9 DEF AfterResponse, Settle, Decided, Unwire
<1>10. CASE ReadNothing \/ ReadAborted \/ ReadChunk \/ ReadEnds
  BY <1>2, <1>10
  DEF ReadNothing, ReadAborted, ReadChunk, ReadEnds, Decided, reading
<1>11. CASE \E r \in Responses : FetchResolves(r)
  BY <1>2, <1>11 DEF FetchResolves
<1>12. CASE TimerFires \/ CallerAborts
  BY <1>2, <1>12 DEF TimerFires, CallerAborts
<1>13. CASE Tick
  BY <1>1, <1>2, <1>13 DEF Tick
<1>14. CASE Terminated \/ UNCHANGED vars
  BY <1>2, <1>14 DEF Terminated, vars
<1>15. QED
  BY <1>3, <1>4, <1>5, <1>6, <1>7, <1>8, <1>9, <1>10, <1>11, <1>12, <1>13,
     <1>14
  DEF Next, Resumes

----------------------------------------------------------------------------
(* The answer and its body *)

\* What the answer is does not change once there is one.
LEMMA OperationFixed ==
  [Next]_vars => op' = op /\ (response' = response \/ pc = "fetching")
BY DEF clock, wires, answer, Next, Resumes, BeginInvalid, Begin, Loop,
       Dispatch, AfterRejection, Sleep, AfterInterruption, AfterResponse,
       ReadNothing, ReadAborted, AfterDisposition, FetchRejects, FetchResolves,
       ReadChunk, ReadEnds, reading, SleepEnds, TimerFires, CallerAborts, Tick,
       Terminated, vars

LEMMA AnswersKept ==
  TypeOK /\ AttemptsCounted /\ WiresFollowCaller /\ AnswerEndsAttempts
    /\ ResultIsClean /\ [Next]_vars => AnswerEndsAttempts' /\ ResultIsClean'
<1> SUFFICES ASSUME TypeOK, AttemptsCounted, WiresFollowCaller,
                    AnswerEndsAttempts, ResultIsClean, [Next]_vars
             PROVE  AnswerEndsAttempts' /\ ResultIsClean'
  OBVIOUS
<1> USE DEF clock, wires, answer, AnswerEndsAttempts, ResultIsClean, Answered
<1>1. /\ received \in 0..MaxBytes /\ received' \in 0..MaxBytes
      /\ MaxBytes \in Nat
  BY TypesKept, DeadlinesAssumption DEF TypeOK
<1>2. CASE BeginInvalid \/ Begin
  BY <1>2 DEF BeginInvalid, Begin, Problem, IsSuccess
<1>3. CASE Loop
  BY <1>3 DEF Loop, Settle, StartAttempt, Problem, IsSuccess
<1>4. CASE Dispatch \/ Sleep \/ SleepEnds \/ FetchRejects
  BY <1>4 DEF Dispatch, Sleep, SleepEnds, FetchRejects, Problem, IsSuccess
<1>5. CASE AfterRejection
  BY <1>5
  DEF AfterRejection, Settle, GiveUp, ScheduleRetry, Unwire, Problem, IsSuccess
<1>6. CASE AfterInterruption \/ AfterDisposition
  BY <1>1, <1>6
  DEF AfterInterruption, AfterDisposition, Settle, Unwire, Final, Problem,
      IsSuccess
<1>7. CASE AfterResponse
  BY <1>7
  DEF AfterResponse, Settle, Decided, Unwire, Problem, IsSuccess, Cancel,
      WiresFollowCaller, Wired
<1>8. CASE ReadNothing \/ ReadAborted \/ ReadChunk \/ ReadEnds
  BY <1>1, <1>8
  DEF ReadNothing, ReadAborted, ReadChunk, ReadEnds, Decided, reading, Cancel,
      Unusable, Problem, IsSuccess
<1>9. CASE \E r \in Responses : FetchResolves(r)
  BY <1>9 DEF FetchResolves, Problem, IsSuccess
<1>10. CASE TimerFires
  BY <1>10 DEF TimerFires, Problem, IsSuccess
<1>11. CASE CallerAborts
  BY <1>11 DEF CallerAborts, Problem, IsSuccess
<1>12. CASE Tick
  BY <1>12 DEF Tick, Problem, IsSuccess
<1>13. CASE Terminated \/ UNCHANGED vars
  BY <1>13 DEF Terminated, vars, Problem, IsSuccess
<1>14. QED
  BY <1>2, <1>3, <1>4, <1>5, <1>6, <1>7, <1>8, <1>9, <1>10, <1>11, <1>12,
     <1>13
  DEF Next, Resumes


----------------------------------------------------------------------------
(* The causes errors name *)

LEMMA VerdictsKept ==
  IInv /\ [Next]_vars => VerdictsHaveCauses'
<1> SUFFICES ASSUME IInv, [Next]_vars PROVE VerdictsHaveCauses'
  OBVIOUS
<1> USE DEF clock, wires, answer, VerdictsHaveCauses, IsSuccess, IInv, AnswerEndsAttempts
<1>1. response # NoResponse => response \in Responses
  BY DEF TypeOK
<1>2. CASE BeginInvalid \/ Begin
  BY <1>2 DEF BeginInvalid, Begin
<1>3. CASE Loop
  BY <1>3 DEF Loop, Settle, StartAttempt
<1>4. CASE Dispatch \/ Sleep \/ SleepEnds \/ FetchRejects
  BY <1>4 DEF Dispatch, Sleep, SleepEnds, FetchRejects
<1>5. CASE AfterRejection
  BY <1>5 DEF AfterRejection, Settle, GiveUp, ScheduleRetry, Unwire
<1>6. CASE AfterInterruption \/ AfterDisposition
  BY <1>6 DEF AfterInterruption, AfterDisposition, Settle, Unwire
<1>7. CASE AfterResponse
  BY <1>7 DEF AfterResponse, Settle, Decided, Unwire, Problem, Cancel
<1>8. CASE ReadNothing \/ ReadAborted \/ ReadChunk \/ ReadEnds
  BY <1>1, <1>8
  DEF ReadNothing, ReadAborted, ReadChunk, ReadEnds, Decided, reading, Cancel,
      Unusable, Problem
<1>9. ASSUME NEW r \in Responses, FetchResolves(r) PROVE VerdictsHaveCauses'
  <2>1. r # NoResponse
    BY DEF Responses, NoResponse
  <2>. QED
    BY <1>9, <2>1 DEF FetchResolves
<1>10. CASE TimerFires \/ CallerAborts \/ Tick
  BY <1>10 DEF TimerFires, CallerAborts, Tick
<1>11. CASE Terminated \/ UNCHANGED vars
  BY <1>11 DEF Terminated, vars
<1>12. QED
  BY <1>2, <1>3, <1>4, <1>5, <1>6, <1>7, <1>8, <1>9, <1>10, <1>11
  DEF Next, Resumes

LEMMA CausesKept ==
  IInv /\ [Next]_vars => ErrorNamesItsCause'
<1> SUFFICES ASSUME IInv, [Next]_vars PROVE ErrorNamesItsCause'
  OBVIOUS
<1> USE DEF clock, wires, answer, ErrorNamesItsCause, IsSuccess
<1>1. /\ now \in Nat /\ attempt \in 0..3 /\ timerDue \in Nat
      /\ maximumAttempts \in 1..3 /\ totalDeadline \in Nat \ {0}
      /\ \A n \in 1..3 : BackoffCap(n) \in Nat
  BY DeadlineTypes, BackoffCapType DEF IInv, TypeOK
<1>2. totalDeadline' = totalDeadline /\ op' = op
  BY OperationFixed DEF totalDeadline
<1>3. pc # "settled" => result = "none"
  BY DEF IInv, AnswerEndsAttempts
<1> HIDE DEF totalDeadline, BackoffCap
<1>4. CASE BeginInvalid \/ Begin
  BY <1>3, <1>4 DEF BeginInvalid, Begin
<1>5. CASE Loop
  <2>1. CASE result' = "timeout"
    <3>1. now >= totalDeadline /\ attempt' = attempt + 1 /\ now' = now
      BY <1>3, <1>5, <2>1 DEF Loop, Settle, StartAttempt
    <3>2. attempt # 0 /\ attempt < maximumAttempts
      BY <1>1, <1>5, <3>1 DEF Loop, IInv, AttemptsCounted
    <3>3. op.read /\ attempt + 1 \in 1..3
      BY <1>1, <3>2 DEF maximumAttempts
    <3>4. BackoffCap(attempt + 1) \in Nat
      BY <1>1, <3>3
    <3>5. now' + BackoffCap(attempt') >= totalDeadline'
      BY <1>1, <1>2, <3>1, <3>4
    <3>6. response' = NoResponse
      BY <1>5 DEF Loop, IInv, AnswerEndsAttempts, Answered
    <3>7. QED
      BY <1>2, <2>1, <3>3, <3>5, <3>6
  <2>2. CASE result' # "timeout"
    BY <1>3, <1>5, <2>2 DEF Loop, Settle, StartAttempt
  <2>3. QED
    BY <2>1, <2>2
<1>6. CASE Dispatch \/ Sleep \/ SleepEnds \/ FetchRejects
  BY <1>3, <1>6 DEF Dispatch, Sleep, SleepEnds, FetchRejects
<1>7. CASE AfterRejection
  <2>1. /\ now' = now /\ aborted' = aborted /\ timerDue' = timerDue
        /\ attempt' = attempt /\ response' = response
        /\ response = NoResponse
    BY <1>7 DEF AfterRejection, Unwire, IInv, AnswerEndsAttempts, Answered
  <2>2. CASE callerAborted /\ Settle("abort", attempt)
    BY <1>7, <2>2 DEF Settle, AfterRejection
  <2>3. CASE ~callerAborted /\ GiveUp
    <3>1. aborted => now >= timerDue
      BY <1>7, <2>3 DEF AfterRejection, IInv, WiresFollowCaller, Wired
    <3>2. QED
      BY <2>1, <2>3, <3>1 DEF GiveUp, Settle
  <2>4. CASE CanRetry /\ \E d \in 0..BackoffCap(attempt) : ScheduleRetry(d)
    <3>1. attempt \in 1..3 /\ op.read
      BY <1>1, <1>7, <2>4 DEF AfterRejection, CanRetry, IInv, AttemptsCounted
    <3>2. BackoffCap(attempt) \in Nat
      BY <1>1, <3>1
    <3>3. PICK d \in 0..BackoffCap(attempt) : ScheduleRetry(d)
      BY <2>4
    <3>4. now + d >= totalDeadline => now + BackoffCap(attempt) >= totalDeadline
      BY <1>1, <3>2, <3>3
    <3>5. QED
      BY <1>2, <1>3, <1>7, <2>1, <3>1, <3>3, <3>4
      DEF ScheduleRetry, Settle, AfterRejection
  <2>5. QED
    BY <1>7, <2>2, <2>3, <2>4 DEF AfterRejection
<1>8. CASE AfterInterruption
  BY <1>8 DEF AfterInterruption, Settle, IInv, VerdictsHaveCauses
<1>9. CASE AfterDisposition
  <2>1. /\ verdict \notin {"timeout", "network"}
        /\ response.kind # "none"
        /\ verdict = "abort" => aborted
        /\ verdict = "api" => response.kind = "error"
        /\ verdict = "malformed" =>
             /\ response.kind # "error"
             /\ IsSuccess /\ response.typed => body # "open"
    BY <1>9
    DEF AfterDisposition, IInv, TypeOK, Responses, AnswerEndsAttempts, VerdictsHaveCauses
  <2>2. aborted /\ ~callerAborted => now >= timerDue
    BY <1>9 DEF AfterDisposition, IInv, WiresFollowCaller, Wired
  <2>3. QED
    BY <1>9, <2>1, <2>2 DEF AfterDisposition, Settle, Final, Unwire
<1>10. CASE AfterResponse
  BY <1>3, <1>10 DEF AfterResponse, Settle, Decided, Unwire
<1>11. CASE ReadNothing \/ ReadAborted \/ ReadChunk \/ ReadEnds
  BY <1>3, <1>11
  DEF ReadNothing, ReadAborted, ReadChunk, ReadEnds, Decided, reading
<1>12. CASE \E r \in Responses : FetchResolves(r)
  BY <1>3, <1>12 DEF FetchResolves
<1>13. CASE TimerFires \/ CallerAborts \/ Tick
  BY <1>3, <1>13 DEF TimerFires, CallerAborts, Tick
<1>14. CASE Terminated \/ UNCHANGED vars
  BY <1>2, <1>14 DEF Terminated, vars, IInv
<1>15. QED
  BY <1>4, <1>5, <1>6, <1>7, <1>8, <1>9, <1>10, <1>11, <1>12, <1>13, <1>14
  DEF Next, Resumes

----------------------------------------------------------------------------
(* The trace *)

\* An event in its place keeps the trace well formed while the call goes on.
LEMMA EventAppended ==
  ASSUME TypeOK, TraceWellFormed, pc # "settled", pc' # "settled",
         trace' = Append(trace, EventAt(Len(trace) + 1))
  PROVE  TraceWellFormed' /\ Len(trace') = Len(trace) + 1
<1>1. trace \in Seq(Events) /\ Len(trace) \in Nat
  BY DEF TypeOK
<1>2. \A i \in Nat : EventAt(i).name # "end"
  BY DEF EventAt, Start, AttemptEvent, RetryEvent
<1> DEFINE e == EventAt(Len(trace) + 1)
<1>3. e.name # "end"
  BY <1>1, <1>2
<1> HIDE DEF e
<1>4. /\ Len(trace') = Len(trace) + 1
      /\ trace'[Len(trace) + 1] = e
      /\ \A i \in 1..Len(trace) : trace'[i] = trace[i]
  BY <1>1 DEF e
<1>5. \A i \in 1..Len(trace) : trace[i].name # "end" /\ trace[i] = EventAt(i)
  BY DEF TraceWellFormed
<1>6. \A i \in 1..Len(trace') : trace'[i].name # "end" /\ trace'[i] = EventAt(i)
  <2>1. SUFFICES ASSUME NEW i \in 1..Len(trace')
                 PROVE  trace'[i].name # "end" /\ trace'[i] = EventAt(i)
    OBVIOUS
  <2>2. CASE i \in 1..Len(trace)
    BY <1>4, <1>5, <2>2
  <2>3. CASE i = Len(trace) + 1
    BY <1>3, <1>4, <2>3 DEF e
  <2>4. QED
    BY <1>1, <1>4, <2>1, <2>2, <2>3
<1>7. QED
  BY <1>4, <1>6 DEF TraceWellFormed

\* The end, of the last attempt there was, keeps it well formed as well.
LEMMA EndAppended ==
  ASSUME TypeOK, TraceWellFormed, pc # "settled", NEW res, Settle(res, attempt')
  PROVE  TraceWellFormed'
<1> DEFINE e == EndEvent(attempt', res)
<1>1. e.name = "end"
  BY DEF EndEvent
<1>2. /\ trace \in Seq(Events) /\ Len(trace) \in Nat
      /\ trace' = Append(trace, e) /\ pc' = "settled" /\ result' = res
  BY DEF TypeOK, Settle
<1>3. e = EndEvent(attempt', result')
  BY <1>2
<1> HIDE DEF e
<1>4. /\ Len(trace') = Len(trace) + 1 /\ trace' # <<>>
      /\ trace'[Len(trace')] = e
      /\ \A i \in 1..Len(trace) : trace'[i] = trace[i]
  BY <1>2
<1>5. \A i \in 1..Len(trace) : trace[i].name # "end" /\ trace[i] = EventAt(i)
  BY DEF TraceWellFormed
<1>6. \A i \in 1..Len(trace') :
         IF trace'[i].name = "end"
         THEN i = Len(trace') /\ pc' = "settled"
         ELSE trace'[i] = EventAt(i)
  BY <1>1, <1>2, <1>4, <1>5
<1>7. QED
  BY <1>2, <1>3, <1>4, <1>6 DEF TraceWellFormed

\* A step that reports nothing and does not settle the call.
LEMMA TraceUntouched ==
  ASSUME TraceWellFormed, pc # "settled", pc' # "settled", trace' = trace
  PROVE  TraceWellFormed' /\ Len(trace') = Len(trace)
BY DEF TraceWellFormed

LEMMA TraceKept ==
  TypeOK /\ AttemptsCounted /\ TraceWellFormed /\ TraceCountsAttempts
    /\ [Next]_vars => TraceWellFormed' /\ TraceCountsAttempts'
<1> SUFFICES ASSUME TypeOK, AttemptsCounted, TraceWellFormed,
                    TraceCountsAttempts, [Next]_vars
             PROVE  TraceWellFormed' /\ TraceCountsAttempts'
  OBVIOUS
<1> USE DEF clock, wires, answer, TraceCountsAttempts, Wired
<1>1. trace \in Seq(Events) /\ Len(trace) \in Nat /\ attempt \in 0..3
  BY DEF TypeOK
<1>2. attempt + 1 \in 1..3 =>
        /\ EventAt(2 * attempt + 2) = AttemptEvent(attempt + 1)
        /\ attempt # 0 =>
             EventAt(2 * attempt + 1) = RetryEvent(attempt + 1)
  BY <1>1 DEF EventAt
<1>3. CASE BeginInvalid
  BY <1>1, <1>3 DEF BeginInvalid, TraceWellFormed
<1>4. CASE Begin
  <2>1. trace' = <<Start>> /\ attempt = 0 /\ Len(trace') = 1
    BY <1>1, <1>4 DEF Begin
  <2>2. EventAt(1) = Start /\ Start.name = "start"
    BY DEF EventAt, Start
  <2>3. QED
    BY <1>4, <2>1, <2>2 DEF Begin, TraceWellFormed
<1>5. CASE Loop
  <2>1. attempt + 1 \in 1..3
    BY <1>1, <1>5, DeadlineTypes DEF Loop, TypeOK, AttemptsCounted
  <2>2. CASE Settle("abort", attempt) /\ UNCHANGED attempt
    BY <1>5, <2>2, EndAppended DEF Loop, Settle
  <2>3. CASE Settle("timeout", attempt + 1) /\ attempt' = attempt + 1
    BY <1>5, <2>3, EndAppended DEF Loop, Settle
  <2>4. CASE StartAttempt /\ attempt' = attempt + 1
    <3>1. trace' = Append(trace, EventAt(Len(trace) + 1))
      BY <1>1, <1>2, <1>5, <2>1, <2>4 DEF Loop, StartAttempt
    <3>2. QED
      BY <1>1, <1>5, <2>4, <3>1, EventAppended DEF Loop, StartAttempt
  <2>5. QED
    BY <1>5, <2>2, <2>3, <2>4 DEF Loop
<1>6. CASE AfterRejection
  <2>1. attempt' = attempt /\ pc = "rejected" /\ Len(trace) = 2 * attempt
    BY <1>6 DEF AfterRejection
  <2>2. CASE \E res \in Failures : Settle(res, attempt)
    BY <2>1, <2>2, EndAppended DEF Settle
  <2>3. CASE /\ CanRetry /\ pc' = "scheduled"
             /\ trace' = Append(trace, RetryEvent(attempt + 1))
    <3>1. attempt # 0 /\ attempt + 1 \in 1..3
      BY <1>1, <2>1, <2>3, DeadlineTypes DEF CanRetry, TypeOK, AttemptsCounted
    <3>2. trace' = Append(trace, EventAt(Len(trace) + 1))
      BY <1>2, <2>1, <2>3, <3>1
    <3>3. QED
      BY <1>1, <2>1, <2>3, <3>2, EventAppended
  <2>4. QED
    BY <1>6, <2>2, <2>3 DEF AfterRejection, GiveUp, ScheduleRetry, Failures
<1>7. CASE AfterInterruption \/ AfterDisposition
  BY <1>7, EndAppended DEF AfterInterruption, AfterDisposition, Settle
<1>8. CASE AfterResponse
  <2>1. CASE Settle("abort", attempt)
    BY <1>8, <2>1, EndAppended DEF AfterResponse, Settle
  <2>2. CASE trace' = trace /\ pc' \in {"disposed", "reading"}
    BY <1>8, <2>2, TraceUntouched DEF AfterResponse
  <2>3. QED
    BY <1>8, <2>1, <2>2 DEF AfterResponse, Decided
<1>9. CASE Dispatch \/ Sleep \/ SleepEnds \/ FetchRejects
  BY <1>9, TraceUntouched DEF Dispatch, Sleep, SleepEnds, FetchRejects
<1>10. CASE ReadNothing \/ ReadAborted \/ ReadChunk \/ ReadEnds
  BY <1>10, TraceUntouched
  DEF ReadNothing, ReadAborted, ReadChunk, ReadEnds, Decided, reading
<1>11. CASE \E r \in Responses : FetchResolves(r)
  BY <1>11, TraceUntouched DEF FetchResolves
<1>12. CASE TimerFires \/ CallerAborts \/ Tick
  BY <1>12, TraceUntouched DEF TimerFires, CallerAborts, Tick
<1>13. CASE Terminated \/ UNCHANGED vars
  BY <1>13 DEF Terminated, vars, TraceWellFormed
<1>14. QED
  BY <1>3, <1>4, <1>5, <1>6, <1>7, <1>8, <1>9, <1>10, <1>11, <1>12, <1>13
  DEF Next, Resumes

----------------------------------------------------------------------------
(* The theorems *)

\* A call counts and types its attempts right, wires each to its caller and
\* its timer, and settles with an outcome that says what happened.
THEOREM CallBookkeeping == Spec => []IInv
<1>1. Init => IInv
  <2>1. SUFFICES ASSUME Init PROVE IInv
    OBVIOUS
  <2>2. TypeOK
    BY <2>1, InitialTypes
  <2>3. /\ maximumAttempts \in 1..3 /\ totalDeadline \in Nat
        /\ Lateness \in Nat
    BY <2>2, DeadlineTypes, DeadlinesAssumption DEF TypeOK
  <2>4. QED
    BY <2>1, <2>2, <2>3
    DEF Init, IInv, AttemptsCounted, WiresFollowCaller, AnswerEndsAttempts,
        VerdictsHaveCauses, EndNamesLastAttempt, ResultIsClean, ErrorNamesItsCause, Wired,
        Answered, DeadlinesKept, WithinTotalDeadline, TraceWellFormed,
        TraceCountsAttempts
<1>2. IInv /\ [Next]_vars => IInv'
  BY TypesKept, AttemptsKept, WiresKept, DeadlinesHold, AnswersKept,
     VerdictsKept, CausesKept, TraceKept
  DEF IInv
<1>3. QED
  BY <1>1, <1>2, PTL DEF Spec

\* A write reaches the wire once at most.
THEOREM WriteOnce == Spec => []WritesSentOnce
<1>1. IInv => WritesSentOnce
  BY DEF IInv, TypeOK, AttemptsCounted, maximumAttempts, WritesSentOnce
<1>2. QED
  BY <1>1, CallBookkeeping, PTL

\* The request is never sent again once the server has answered.
THEOREM AnswerIsFinal == Spec => NeverResentAfterAnswer
<1>1. IInv /\ [Next]_vars =>
        [response # NoResponse => dispatched' = dispatched]_vars
  <2>1. SUFFICES ASSUME IInv, [Next]_vars, response # NoResponse
                 PROVE  dispatched' = dispatched
    OBVIOUS
  <2>2. pc \in Answered
    BY <2>1 DEF IInv, AnswerEndsAttempts
  <2>3. QED
    BY <2>1, <2>2
    DEF Answered, clock, wires, answer, Next, Resumes, BeginInvalid, Begin,
        Loop, Dispatch, AfterRejection, Sleep, AfterInterruption,
        AfterResponse, ReadNothing, ReadAborted, AfterDisposition,
        FetchRejects, FetchResolves, ReadChunk, ReadEnds, reading, SleepEnds,
        TimerFires, CallerAborts, Tick, Terminated, vars
<1>2. QED
  BY <1>1, CallBookkeeping, PTL DEF Spec, NeverResentAfterAnswer

\* A call that settles after its caller cancelled settles as cancelled.
THEOREM CancellationOutranks == Spec => CancellationWins
<1>1. [Next]_vars =>
        [pc # "start" /\ pc # "settled" /\ pc' = "settled" /\ callerAborted
           => result' = "abort"]_vars
  BY DEF clock, wires, answer, Next, Resumes, BeginInvalid, Begin, Loop,
         StartAttempt, Dispatch, AfterRejection, Sleep, AfterInterruption,
         AfterResponse, ReadNothing, ReadAborted, AfterDisposition, Settle,
         Final, Decided, FetchRejects, FetchResolves, ReadChunk, ReadEnds,
         reading, SleepEnds, TimerFires, CallerAborts, Tick, Terminated, vars
<1>2. QED
  BY <1>1, PTL DEF Spec, CancellationWins

\* No timer or listener of an attempt outlives it.
THEOREM WiresReleased == Spec => []NoTimerOrListenerLeft
<1>1. IInv => NoTimerOrListenerLeft
  BY DEF IInv, WiresFollowCaller, Wired, NoTimerOrListenerLeft
<1>2. QED
  BY <1>1, CallBookkeeping, PTL

\* A settled call left no body open but that of an aborted request.
THEOREM BodiesReleased == Spec => []NoBodyLeftOpen
<1>1. IInv => NoBodyLeftOpen
  BY DEF IInv, AnswerEndsAttempts, NoBodyLeftOpen
<1>2. QED
  BY <1>1, CallBookkeeping, PTL

\* A result comes from a complete, declared, successful response in time.
THEOREM CleanResults == Spec => []ResultIsClean
<1>1. IInv => ResultIsClean
  BY DEF IInv
<1>2. QED
  BY <1>1, CallBookkeeping, PTL

\* A cancellation, a timeout, a network failure, an API error and a malformed
\* response are each reported only where there was one.
THEOREM HonestErrors == Spec => []ErrorNamesItsCause
<1>1. IInv => ErrorNamesItsCause
  BY DEF IInv
<1>2. QED
  BY <1>1, CallBookkeeping, PTL

\* Attempts, backoffs and the body together respect the total deadline.
THEOREM DeadlineRespected == Spec => []WithinTotalDeadline
<1>1. IInv => WithinTotalDeadline
  BY DEF IInv
<1>2. QED
  BY <1>1, CallBookkeeping, PTL

\* The observer hears of a call's attempts, retries and end in order and once.
THEOREM EventsInOrder == Spec => []TraceWellFormed
<1>1. IInv => TraceWellFormed
  BY DEF IInv
<1>2. QED
  BY <1>1, CallBookkeeping, PTL

----------------------------------------------------------------------------
(* Calls end *)

(* How many steps an attempt takes at most from each point to the next     *)
(* round of the loop; a round takes 9 with the firing of its timer.        *)
Stage(p) ==
  CASE p = "attempted" -> 8 [] p = "fetching" -> 7 [] p \in {"rejected", "fetched"} -> 6
    [] p = "reading" -> 5 [] p \in {"disposed", "scheduled"} -> 4 [] p = "sleeping" -> 3
    [] p \in {"start", "interrupted"} -> 2 [] p = "loop" -> 1 [] p = "settled" -> 0

(* The timer and the caller, each of whom acts once at most.               *)
Pending == (IF timerArmed THEN 1 ELSE 0) + (IF callerAborted THEN 0 ELSE 1)

(* The steps a call whose fetch heeds its signal has left at most: of its  *)
(* attempts, its timer, its caller, the body and the clock.                *)
Fuel ==
  9 * (3 - attempt) + Stage(pc) + Pending + (MaxBytes - received)
    + (totalDeadline + Lateness - now)

MostSteps == 30 + MaxBytes + totalDeadline + Lateness

LEMMA Stages ==
  /\ \A p \in Points : Stage(p) \in 0..8
  /\ Stage("attempted") = 8 /\ Stage("fetching") = 7 /\ Stage("rejected") = 6
  /\ Stage("fetched") = 6 /\ Stage("reading") = 5 /\ Stage("disposed") = 4
  /\ Stage("scheduled") = 4 /\ Stage("sleeping") = 3 /\ Stage("start") = 2
  /\ Stage("interrupted") = 2 /\ Stage("loop") = 1 /\ Stage("settled") = 0
BY DEF Points, Stage

LEMMA FuelType ==
  ASSUME IInv, Cooperative
  PROVE  Fuel \in Nat
<1>1. /\ attempt \in 0..3 /\ pc \in Points /\ received \in 0..MaxBytes /\ now \in Nat
      /\ totalDeadline \in Nat /\ Lateness \in Nat /\ MaxBytes \in Nat
      /\ now <= totalDeadline + Lateness
  BY DeadlineTypes, DeadlinesAssumption DEF IInv, TypeOK, WithinTotalDeadline
<1>2. Stage(pc) \in Nat /\ Pending \in Nat
  BY <1>1, Stages DEF Pending
<1>. QED
  BY <1>1, <1>2 DEF Fuel

(* A step that goes on, one that begins an attempt, and those of the       *)
(* timer, the caller, the body and the clock.                              *)
LEMMA FuelBurns ==
  ASSUME IInv, IInv', [Next]_vars, ~UNCHANGED vars
  PROVE  Fuel' < Fuel
<1> DEFINE total == totalDeadline
<1>1. /\ attempt \in 0..3 /\ Stage(pc) \in 0..8 /\ received \in 0..MaxBytes /\ now \in Nat
      /\ Pending \in 0..2 /\ total \in Nat /\ Lateness \in Nat /\ MaxBytes \in Nat
  BY DeadlineTypes, DeadlinesAssumption, Stages DEF IInv, TypeOK, Pending
<1>2. /\ attempt' \in 0..3 /\ Stage(pc') \in 0..8 /\ received' \in 0..MaxBytes
      /\ now' \in Nat /\ Pending' \in 0..2
  BY Stages DEF IInv, TypeOK, Pending
<1>3. total' = total
  BY OperationFixed DEF totalDeadline
<1>4. /\ Fuel = 9 * (3 - attempt) + Stage(pc) + Pending + (MaxBytes - received)
                  + (total + Lateness - now)
      /\ Fuel' = 9 * (3 - attempt') + Stage(pc') + Pending' + (MaxBytes - received')
                   + (total' + Lateness - now')
  BY DEF Fuel
<1> HIDE DEF total
<1>5. ASSUME attempt' = attempt, Stage(pc') < Stage(pc), Pending' <= Pending,
             received' = received, now' = now
      PROVE  Fuel' < Fuel
  BY <1>1, <1>2, <1>3, <1>4, <1>5
<1>6. ASSUME pc' = pc \/ Stage(pc') < Stage(pc), attempt' = attempt,
             \/ Pending' < Pending /\ received' = received /\ now' = now
             \/ Pending' = Pending /\ received' = received + 1 /\ now' = now
             \/ Pending' = Pending /\ received' = received /\ now' = now + 1
      PROVE  Fuel' < Fuel
  BY <1>1, <1>2, <1>3, <1>4, <1>6
<1>7. CASE BeginInvalid \/ Begin \/ Dispatch
  BY <1>5, <1>7, Stages
     DEF BeginInvalid, Begin, Dispatch, clock, wires, answer, Pending
<1>8. CASE Sleep \/ AfterInterruption \/ SleepEnds \/ FetchRejects
  BY <1>5, <1>8, Stages
     DEF Sleep, AfterInterruption, SleepEnds, FetchRejects, Settle, clock, wires, answer,
         Pending
<1>9. CASE Loop
  <2>1. CASE pc' = "settled"
    <3>1. /\ pc = "loop" /\ received' = received /\ now' = now
          /\ attempt' = attempt \/ attempt' = attempt + 1
      BY <1>9 DEF Loop, clock, answer
    <3>2. Pending' = Pending
      BY <1>9, <2>1 DEF Loop, StartAttempt, wires, Pending
    <3>. QED
      BY <1>1, <1>2, <1>3, <1>4, <2>1, <3>1, <3>2, Stages
  <2>2. CASE pc' # "settled"
    <3>1. /\ pc = "loop" /\ pc' = "attempted" /\ attempt' = attempt + 1
          /\ received' = received /\ now' = now
      BY <1>9, <2>2 DEF Loop, StartAttempt, Settle, clock, answer
    <3>2. ~timerArmed /\ callerAborted' = callerAborted
      BY <1>9 DEF Loop, IInv, WiresFollowCaller, Wired
    <3>3. Pending' <= Pending + 1
      BY <3>2 DEF Pending
    <3>. QED
      BY <1>1, <1>2, <1>3, <1>4, <3>1, <3>3, Stages
  <2>. QED
    BY <2>1, <2>2
<1>10. CASE AfterRejection
  <2>1. /\ pc = "rejected" /\ pc' \in {"settled", "scheduled"} /\ attempt' = attempt
        /\ received' = received /\ now' = now
    BY <1>10 DEF AfterRejection, GiveUp, ScheduleRetry, Settle, clock, answer
  <2>2. Pending' <= Pending
    BY <1>10 DEF AfterRejection, Unwire, Pending
  <2>. QED
    BY <1>5, <2>1, <2>2, Stages
<1>11. CASE AfterResponse
  <2>1. /\ pc = "fetched" /\ pc' \in {"settled", "disposed", "reading"}
        /\ attempt' = attempt /\ received' = received /\ now' = now
    BY <1>11 DEF AfterResponse, Decided, Settle, clock
  <2>2. Pending' <= Pending
    BY <1>11 DEF AfterResponse, Unwire, wires, Pending
  <2>. QED
    BY <1>5, <2>1, <2>2, Stages
<1>12. CASE ReadNothing \/ ReadAborted \/ ReadEnds
  BY <1>5, <1>12, Stages
     DEF ReadNothing, ReadAborted, ReadEnds, Decided, reading, clock, wires, Pending
<1>13. CASE ReadChunk
  <2>1. /\ pc = "reading" /\ attempt' = attempt /\ now' = now
        /\ \/ pc' = "disposed" /\ received' = received
           \/ pc' = pc /\ received' = received + 1
    BY <1>13 DEF ReadChunk, Decided, reading, clock
  <2>2. Pending' = Pending
    BY <1>13 DEF ReadChunk, reading, wires, Pending
  <2>3. Pending' <= Pending
    BY <1>1, <2>2
  <2>. QED
    BY <1>5, <1>6, <2>1, <2>2, <2>3, Stages
<1>14. CASE AfterDisposition
  <2>1. /\ pc = "disposed" /\ pc' = "settled" /\ attempt' = attempt
        /\ received' = received /\ now' = now
    BY <1>14 DEF AfterDisposition, Settle, clock, answer
  <2>2. Pending' <= Pending
    BY <1>14 DEF AfterDisposition, Unwire, Pending
  <2>. QED
    BY <1>5, <2>1, <2>2, Stages
<1>15. CASE \E r \in Responses : FetchResolves(r)
  BY <1>5, <1>15, Stages DEF FetchResolves, clock, wires, Pending
<1>16. CASE TimerFires
  <2>1. Pending' < Pending
    BY <1>16 DEF TimerFires, Pending
  <2>. QED
    BY <1>6, <1>16, <2>1 DEF TimerFires, clock, answer
<1>17. CASE CallerAborts
  <2>1. Pending' < Pending
    BY <1>17 DEF CallerAborts, Pending
  <2>2. pc' = pc \/ Stage(pc') < Stage(pc)
    BY <1>17, Stages DEF CallerAborts
  <2>. QED
    BY <1>6, <1>17, <2>1, <2>2 DEF CallerAborts, clock, answer
<1>18. CASE Tick
  BY <1>6, <1>18 DEF Tick, wires, answer, Pending
<1>. QED
  BY <1>7, <1>8, <1>9, <1>10, <1>11, <1>12, <1>13, <1>14, <1>15, <1>16, <1>17, <1>18
     DEF Next, Resumes, Terminated

(* Every step of a call leaves it fewer, whatever the server sends and     *)
(* whatever its caller does; if its fetch heeds its signal, there are no   *)
(* more than MostSteps from the start, however often it retries            *)
(* (transport.ts 231-606).                                                 *)
EachStepCounts ==
  /\ [][Fuel' < Fuel]_vars
  /\ [](Cooperative => Fuel \in 0..MostSteps)

THEOREM CallsAreShort == Spec => EachStepCounts
<1> DEFINE Enough == Cooperative => Fuel \in 0..MostSteps
<1>1. Init => Enough
  <2> SUFFICES ASSUME Init, Cooperative PROVE Fuel \in 0..MostSteps
    OBVIOUS
  <2>1. totalDeadline \in Nat /\ Lateness \in Nat /\ MaxBytes \in Nat
    BY DeadlineTypes, DeadlinesAssumption DEF Init
  <2>. QED
    BY <2>1, Stages DEF Init, Fuel, MostSteps, Pending
<1>2. IInv /\ IInv' /\ [Next]_vars => [Fuel' < Fuel]_vars
  BY FuelBurns
<1>3. Enough /\ IInv /\ IInv' /\ [Next]_vars => Enough'
  <2> SUFFICES ASSUME Enough, IInv, IInv', [Next]_vars, Cooperative'
               PROVE  (Fuel \in 0..MostSteps)'
    OBVIOUS
  <2>1. op' = op /\ Cooperative
    BY OperationFixed DEF Cooperative
  <2>2. MostSteps' = MostSteps /\ MostSteps \in Nat
    BY <2>1, DeadlineTypes, DeadlinesAssumption DEF MostSteps, totalDeadline, IInv, TypeOK
  <2>3. Fuel \in Nat /\ Fuel' \in Nat /\ Fuel <= MostSteps
    <3>1. (IInv /\ Cooperative => Fuel \in Nat)'
      BY FuelType, PTL
    <3>. QED
      BY <2>1, <3>1, FuelType
  <2>4. Fuel' = Fuel \/ Fuel' < Fuel
    BY <2>1, FuelBurns DEF vars, Fuel, Pending, totalDeadline
  <2>. QED
    BY <2>2, <2>3, <2>4
<1> HIDE DEF Enough
<1>4. Spec => []Enough
  BY <1>1, <1>3, CallBookkeeping, PTL DEF Spec
<1>5. Spec => [][Fuel' < Fuel]_vars
  BY <1>2, CallBookkeeping, PTL DEF Spec
<1>. QED
  BY <1>4, <1>5, PTL DEF EachStepCounts, Enough

(* A call waits for nothing that may not come: what a server owes it is    *)
(* waited for only until a timer runs within the total deadline or until   *)
(* the attempt is aborted, and a sleep ends within it and is not slept     *)
(* when the caller has cancelled already (transport.ts 231-258, 540-547,   *)
(* 566-577).                                                               *)
WaitsAreTimed ==
  /\ pc \in {"fetching", "reading"} =>
       aborted \/ (timerArmed /\ timerDue <= totalDeadline)
  /\ pc = "sleeping" => ~callerAborted /\ sleepDue < totalDeadline

THEOREM NothingAwaitedForEver == Spec => []WaitsAreTimed
<1> DEFINE Asleep == pc = "sleeping" => ~callerAborted
<1>1. Init => Asleep
  BY DEF Init
<1>2. Asleep /\ [Next]_vars => Asleep'
  BY DEF clock, wires, answer, Next, Resumes, BeginInvalid, Begin, Loop, StartAttempt,
         Dispatch, AfterRejection, GiveUp, ScheduleRetry, Sleep, AfterInterruption,
         AfterResponse, ReadNothing, ReadAborted, AfterDisposition, Settle, Decided,
         FetchRejects, FetchResolves, ReadChunk, ReadEnds, reading, SleepEnds, TimerFires,
         CallerAborts, Tick, Terminated, vars
<1>3. IInv /\ Asleep => WaitsAreTimed
  BY DEF IInv, DeadlinesKept, Wired, WaitsAreTimed
<1>. QED
  BY <1>1, <1>2, <1>3, CallBookkeeping, PTL DEF Spec

----------------------------------------------------------------------------
(* Backoff: the rejection sampling *)

(* Division with remainder, in the products the sampling uses.             *)
LEMMA Division ==
  ASSUME NEW words \in Nat, NEW n \in Nat, 0 < n, n <= words
  PROVE  /\ (words \div n) * n <= words
         /\ words < (words \div n) * n + n
         /\ n <= (words \div n) * n
<1>1. words \div n >= 1  OBVIOUS
<1>2. words = (words \div n) * n + (words % n) /\ words % n \in 0..(n - 1)
  OBVIOUS
<1> QED  BY <1>1, <1>2

(* The loop ends: as long as the bound is less than the number of words,   *)
(* more than half of the words are accepted, and none outside their range. *)
THEOREM SamplingEnds ==
  ASSUME NEW words \in Nat, NEW cap \in Nat, cap < words
  PROVE  /\ 0 \in Accepted(words, cap)
         /\ Largest(words, cap) <= words
         /\ words < 2 * Largest(words, cap)
<1> DEFINE n == Outcomes(cap)
<1>1. n \in Nat /\ 0 < n /\ n <= words  BY DEF Outcomes
<1>2. /\ Largest(words, cap) \in Int
      /\ Largest(words, cap) <= words
      /\ words < Largest(words, cap) + n
      /\ n <= Largest(words, cap)
  <2> HIDE DEF n
  <2>1. (words \div n) * n \in Int  BY <1>1
  <2> QED  BY <1>1, <2>1, Division DEF Largest, n
<1> QED  BY <1>1, <1>2 DEF Accepted

(* A bound of as many values as a word has, which nextRandomInt lets pass, *)
(* leaves nothing to accept: the loop never ends.                          *)
THEOREM SamplingNeverEnds ==
  ASSUME NEW words \in Nat, NEW cap \in Nat, words <= cap
  PROVE  Accepted(words, cap) = {}
<1>1. words \div Outcomes(cap) = 0
  <2>1. \A n \in Nat : words < n => words \div n = 0  OBVIOUS
  <2> QED  BY <2>1 DEF Outcomes
<1>2. Largest(words, cap) = 0  BY <1>1 DEF Largest, Outcomes
<1> QED  BY <1>2 DEF Accepted

(* The draw is uniform: every outcome from 0 to the bound has the same     *)
(* number of accepted words, the quotient of all words by all outcomes     *)
(* (transport.ts uniformDelay, test-seams.ts nextRandomInt).               *)
THEOREM SamplingIsUniform ==
  ASSUME NEW words \in Nat, NEW cap \in Nat, cap < words,
         NEW outcome \in 0..cap
  PROVE  /\ IsFiniteSet(Draws(words, cap, outcome))
         /\ Cardinality(Draws(words, cap, outcome)) = words \div Outcomes(cap)
<1> DEFINE n == Outcomes(cap)
           q == words \div n
           Drawn == Draws(words, cap, outcome)
           raw == [k \in 0..(q - 1) |-> k * n + outcome]
<1>1. n \in Nat /\ 0 < n /\ n <= words /\ outcome \in 0..(n - 1)
  BY DEF Outcomes
<1>2. q \in Nat /\ 0 < q
  <2> HIDE DEF n
  <2> QED  BY <1>1
<1>3. q * n <= words
  <2> HIDE DEF n
  <2> QED  BY <1>1, Division
<1>4. Largest(words, cap) = q * n
  BY DEF Largest
<1> HIDE DEF n, q
<1>5. \A k \in 0..(q - 1) : /\ k * n + outcome \in 0..(words - 1)
                            /\ k * n + outcome < q * n
                            /\ (k * n + outcome) % n = outcome
  <2> TAKE k \in 0..(q - 1)
  <2>1. k * n \in Nat /\ (k + 1) * n = k * n + n /\ q * n \in Nat
    BY <1>1, <1>2
  <2>2. (k + 1) * n <= q * n
    BY <1>1, <1>2
  <2>3. (k * n + outcome) % n = outcome
    BY <1>1, <1>2
  <2>4. QED
    BY <1>1, <1>3, <2>1, <2>2, <2>3
<1>6. raw \in [0..(q - 1) -> Drawn]
  BY <1>4, <1>5 DEF Draws, Accepted, n
<1>7. \A i, j \in 0..(q - 1) : raw[i] = raw[j] => i = j
  BY <1>1, <1>2
<1>8. \A r \in Drawn : \E k \in 0..(q - 1) : raw[k] = r
  <2> TAKE r \in Drawn
  <2>1. r \in Nat /\ r < q * n /\ r % n = outcome
    BY <1>4 DEF Draws, Accepted, n
  <2>2. r = (r \div n) * n + outcome /\ r \div n \in Nat
    BY <1>1, <2>1
  <2>3. r \div n < q
    BY <1>1, <1>2, <2>1, <2>2
  <2>4. QED
    BY <1>2, <2>2, <2>3
<1> HIDE DEF raw
<1>9. ExistsBijection(0..(q - 1), Drawn)
  BY <1>6, <1>7, <1>8, Fun_IsBij DEF ExistsBijection
<1>10. IsFiniteSet(0..(q - 1)) /\ Cardinality(0..(q - 1)) = q
  BY <1>2, FS_Interval
<1> HIDE DEF Drawn
<1>11. IsFiniteSet(Drawn) /\ Cardinality(Drawn) = q
  BY <1>9, <1>10, FS_Bijection
<1>12. QED
  BY <1>11 DEF Drawn, q, n
============================================================================
