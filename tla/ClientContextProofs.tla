------------------------ MODULE ClientContextProofs ------------------------
(***************************************************************************)
(* The safety of a client's close, for any number of calls and closers:    *)
(* IInv of ClientContext is inductive, it implies the invariants the runs  *)
(* check, every step of the detailed client is a step of ClientLifecycle,  *)
(* and the awaiters of a close run after the last use of the transport and *)
(* before the awaiter of the last call.  And before there is a client:     *)
(* what resolveConfig does with the sources of its configuration, whatever *)
(* they say.                                                               *)
(***************************************************************************)
EXTENDS ClientContext, ConfigResolution, FiniteSetTheorems, SequenceTheorems, TLAPS

----------------------------------------------------------------------------
(* The job queue *)

\* A job taken from the front leaves the others in their order.
LEMMA TailOfJobs ==
  ASSUME NEW s \in Seq(Job), s # <<>>
  PROVE  /\ Head(s) = s[1]
         /\ 1 \in 1..Len(s)
         /\ Tail(s) \in Seq(Job)
         /\ Len(Tail(s)) = Len(s) - 1
         /\ \A i \in 1..Len(Tail(s)) : i + 1 \in 1..Len(s) /\ Tail(s)[i] = s[i + 1]
<1>1. Len(s) \in Nat \ {0}
  BY EmptySeq
<1>2. /\ Tail(s) \in Seq(Job)
      /\ Len(Tail(s)) = Len(s) - 1
  BY HeadTailProperties
<1>3. \A i \in 1..Len(Tail(s)) : i + 1 \in 1..Len(s) /\ Tail(s)[i] = s[i + 1]
  BY <1>1, <1>2, SMT
<1>4. Head(s) = s[1]
  OBVIOUS
<1>5. QED
  BY <1>1, <1>2, <1>3, <1>4

\* Appending jobs moves none of those in the queue.
LEMMA AppendedJobs ==
  ASSUME NEW s \in Seq(Job), NEW t \in Seq(Job)
  PROVE  /\ s \o t \in Seq(Job)
         /\ Len(s \o t) = Len(s) + Len(t)
         /\ \A i \in 1..Len(s) : i \in 1..Len(s \o t) /\ (s \o t)[i] = s[i]
         /\ \A i \in 1..Len(t) :
              /\ Len(s) + i \in 1..Len(s \o t)
              /\ (s \o t)[Len(s) + i] = t[i]
<1>1. Len(s) \in Nat /\ Len(t) \in Nat
  BY LenProperties
<1>2. /\ s \o t \in Seq(Job)
      /\ Len(s \o t) = Len(s) + Len(t)
      /\ \A i \in 1..Len(s) + Len(t) : (s \o t)[i] =
           IF i <= Len(s) THEN s[i] ELSE t[i - Len(s)]
  BY ConcatProperties
<1>3. \A i \in 1..Len(s) : i \in 1..Len(s \o t) /\ (s \o t)[i] = s[i]
  BY <1>1, <1>2
<1>4. ASSUME NEW i \in 1..Len(t)
      PROVE  /\ Len(s) + i \in 1..Len(s \o t)
             /\ (s \o t)[Len(s) + i] = t[i]
  <2>1. Len(s) + i \in 1..Len(s) + Len(t) /\ ~(Len(s) + i <= Len(s))
    BY <1>1
  <2>2. (Len(s) + i) - Len(s) = i
    BY <1>1
  <2>3. QED
    BY <2>1, <2>2, <1>2
<1>5. QED
  BY <1>2, <1>3, <1>4

\* What a finished invoke appends: the woken closers' jobs, then its own.
LEMMA AppendedByInvoke ==
  ASSUME TypeOK, NEW c \in Calls, NEW st, NEW n, NEW resolver
  PROVE  LET t == Append(Woken(st, n, resolver), CallerJob(c))
         IN  /\ t \in Seq(Job)
             /\ \A i \in 1..Len(t) :
                  t[i].kind = "closer" \/ (i = Len(t) /\ t[i] = CallerJob(c))
             /\ Len(t) \in Nat \ {0} /\ t[Len(t)] = CallerJob(c)
             /\ MayFinish(st, n, resolver) =>
                  \A i \in 1..Len(waiters) :
                    i \in 1..Len(t) /\ t[i] = CloserJob(waiters[i])
<1> DEFINE w == Woken(st, n, resolver)
           t == Append(w, CallerJob(c))
<1>1. waiters \in Seq(Closers) /\ Len(waiters) \in Nat
  BY LenProperties DEF TypeOK
<1>2. /\ w \in Seq(Job)
      /\ \A i \in 1..Len(w) : w[i].kind = "closer"
      /\ MayFinish(st, n, resolver) =>
           /\ Len(w) = Len(waiters)
           /\ \A i \in 1..Len(w) : w[i] = CloserJob(waiters[i])
  <2>1. CASE MayFinish(st, n, resolver)
    <3>1. w = [i \in 1..Len(waiters) |-> CloserJob(waiters[i])]
      BY <2>1 DEF Woken
    <3>2. \A i \in 1..Len(waiters) : CloserJob(waiters[i]) \in Job
      BY <1>1, ElementOfSeq DEF CloserJob, Job
    <3>3. w \in Seq(Job) /\ Len(w) = Len(waiters)
      BY <3>1, <3>2, <1>1
    <3>4. \A i \in 1..Len(w) : w[i] = CloserJob(waiters[i])
      BY <3>1, <3>3
    <3> HIDE DEF w
    <3>5. \A x : CloserJob(x).kind = "closer"
      BY DEF CloserJob
    <3>6. \A i \in 1..Len(w) : w[i].kind = "closer"
      BY <3>4, <3>5
    <3>7. QED
      BY <3>3, <3>4, <3>6
  <2>2. CASE ~MayFinish(st, n, resolver)
    <3>1. w = <<>>
      BY <2>2 DEF Woken
    <3>2. QED
      BY <3>1, <2>2, EmptySeq
  <2>3. QED
    BY <2>1, <2>2
<1>3. CallerJob(c) \in Job
  BY DEF CallerJob, Job
<1>4. /\ t \in Seq(Job)
      /\ Len(t) = Len(w) + 1
      /\ \A i \in 1..Len(w) : t[i] = w[i]
      /\ t[Len(w) + 1] = CallerJob(c)
  BY <1>2, <1>3, AppendProperties
<1>5. Len(w) \in Nat
  BY <1>2, LenProperties
<1>6. \A i \in 1..Len(t) : i \in 1..Len(w) \/ i = Len(w) + 1
  BY <1>4, <1>5
<1>7. \A i \in 1..Len(t) :
        t[i].kind = "closer" \/ (i = Len(t) /\ t[i] = CallerJob(c))
  BY <1>2, <1>4, <1>6
<1>8. \A i \in 1..Len(w) : i \in 1..Len(t)
  BY <1>4, <1>5
<1>9. QED
  BY <1>2, <1>4, <1>5, <1>7, <1>8

(***************************************************************************)
(* A step that takes k jobs from the front, keeps the m others, touches    *)
(* only the calls C, leaves no job of theirs behind, and appends closer    *)
(* jobs and at the end at most one job of a call in C.                     *)
(***************************************************************************)
QueueStep(k, m, C) ==
  /\ Len(jobs') \in Nat
  /\ \A i \in 1..m : i + k \in 1..Len(jobs) /\ jobs'[i] = jobs[i + k]
  /\ \A i \in 1..m : jobs[i + k].kind # "closer" => jobs[i + k].of \notin C
  /\ \A x : x \notin C => call'[x] = call[x]
  /\ \A i \in 1..Len(jobs') : i > m =>
       \/ jobs'[i].kind = "closer"
       \/ /\ i = Len(jobs')
          /\ jobs'[i].of \in C
          /\ call'[jobs'[i].of] = JobStatus(jobs'[i])

\* Such a step keeps the jobs and the calls in agreement.
LEMMA JobsStep ==
  ASSUME JobsMatchCalls, NEW k \in Nat, NEW m \in Nat, NEW C,
         QueueStep(k, m, C)
  PROVE  JobsMatchCalls'
<1> USE DEF QueueStep
<1>1. SUFFICES ASSUME NEW i \in 1..Len(jobs'), jobs'[i].kind # "closer"
               PROVE  /\ call'[jobs'[i].of] = JobStatus(jobs'[i])
                      /\ \A j \in 1..Len(jobs') : jobs'[j] = jobs'[i] => i = j
  BY DEF JobsMatchCalls, JobStatus
<1>2. CASE i \in 1..m
  <2>1. /\ i + k \in 1..Len(jobs)
        /\ jobs'[i] = jobs[i + k]
        /\ jobs'[i].of \notin C
    BY <1>1, <1>2
  <2>2. /\ call[jobs[i + k].of] = JobStatus(jobs[i + k])
        /\ \A j \in 1..Len(jobs) : jobs[j] = jobs[i + k] => i + k = j
    BY <1>1, <2>1 DEF JobsMatchCalls
  <2>3. ASSUME NEW j \in 1..Len(jobs'), jobs'[j] = jobs'[i]
        PROVE  i = j
    <3>1. CASE j \in 1..m
      <4>1. i + k = j + k
        BY <2>1, <2>2, <2>3, <3>1
      <4>2. i \in Int /\ j \in Int /\ k \in Int
        OBVIOUS
      <4>3. QED
        BY <4>1, <4>2
    <3>2. CASE ~(j \in 1..m)
      <4>1. j > m
        BY <3>2
      <4>2. QED
        BY <4>1, <1>1, <2>1, <2>3
    <3>3. QED
      BY <3>1, <3>2
  <2>4. call'[jobs'[i].of] = JobStatus(jobs'[i])
    BY <2>1, <2>2
  <2>5. QED
    BY <2>3, <2>4
<1>3. CASE ~(i \in 1..m)
  <2>1. i > m
    BY <1>3
  <2>2. /\ i = Len(jobs')
        /\ jobs'[i].of \in C
        /\ call'[jobs'[i].of] = JobStatus(jobs'[i])
    BY <1>1, <2>1
  <2>3. ASSUME NEW j \in 1..Len(jobs'), jobs'[j] = jobs'[i]
        PROVE  i = j
    <3>1. CASE j \in 1..m
      <4>1. jobs'[j] = jobs[j + k] /\ jobs[j + k].kind # "closer"
        BY <1>1, <2>3, <3>1
      <4>2. jobs[j + k].of \notin C
        BY <3>1, <4>1
      <4>3. QED
        BY <2>2, <2>3, <4>1, <4>2
    <3>2. CASE ~(j \in 1..m)
      <4>1. j > m
        BY <3>2
      <4>2. QED
        BY <4>1, <1>1, <2>2, <2>3
    <3>3. QED
      BY <3>1, <3>2
  <2>4. QED
    BY <2>2, <2>3
<1>4. QED
  BY <1>2, <1>3

----------------------------------------------------------------------------
(* The calls in flight *)

LEMMA InFlightFinite ==
  /\ IsFiniteSet(InFlight)
  /\ Cardinality(InFlight) \in Nat
  /\ Cardinality(InFlight) = 0 <=> InFlight = {}
<1>1. InFlight \subseteq Calls
  BY DEF InFlight
<1>2. IsFiniteSet(InFlight)
  BY <1>1, CallsAssumption, FS_Subset
<1>3. QED
  BY <1>2, FS_CardinalityType, FS_EmptySet

\* Admitting a call counts it once.
LEMMA InFlightGrows ==
  ASSUME TypeOK, NEW c \in Calls, call[c] = "idle",
         call' = [call EXCEPT ![c] = "executing"]
  PROVE  /\ InFlight' = InFlight \cup {c}
         /\ Cardinality(InFlight') = Cardinality(InFlight) + 1
         /\ InFlight' # {}
<1>1. InFlight' = InFlight \cup {c} /\ c \notin InFlight
  BY DEF InFlight, TypeOK
<1>2. Cardinality(InFlight \cup {c}) = Cardinality(InFlight) + 1
  BY <1>1, InFlightFinite, FS_AddElement
<1>3. QED
  BY <1>1, <1>2

\* A call that leaves invoke is counted out once.
LEMMA InFlightShrinks ==
  ASSUME TypeOK, NEW c \in Calls, call[c] = "settled",
         call' = [call EXCEPT ![c] = "returned"]
  PROVE  /\ InFlight' = InFlight \ {c}
         /\ Cardinality(InFlight') = Cardinality(InFlight) - 1
         /\ Cardinality(InFlight') \in Nat
         /\ Cardinality(InFlight') = 0 <=> InFlight' = {}
<1>1. InFlight' = InFlight \ {c} /\ c \in InFlight
  BY DEF InFlight, TypeOK
<1>2. /\ IsFiniteSet(InFlight \ {c})
      /\ Cardinality(InFlight \ {c}) = Cardinality(InFlight) - 1
  BY <1>1, InFlightFinite, FS_RemoveElement
<1>3. QED
  BY <1>1, <1>2, FS_CardinalityType, FS_EmptySet

\* Any other change of a call leaves the calls in flight as they were.
LEMMA InFlightStays ==
  ASSUME TypeOK, NEW c \in Calls, NEW new \in CallStates,
         call' = [call EXCEPT ![c] = new],
         call[c] \in {"executing", "settled"} <=> new \in {"executing", "settled"}
  PROVE  InFlight' = InFlight
BY DEF InFlight, TypeOK

----------------------------------------------------------------------------
(* Each action preserves the inductive invariant *)

LEMMA InitEstablishesIInv == Init => IInv /\ NoStrandedCloser
<1> SUFFICES ASSUME Init PROVE IInv /\ NoStrandedCloser
  OBVIOUS
<1>1. TypeOK
  BY EmptySeq DEF Init, TypeOK, CallStates
<1>2. InFlight = {}
  BY DEF Init, InFlight
<1>3. ActiveCountsInFlight
  BY <1>2, FS_EmptySet DEF Init, ActiveCountsInFlight
<1>4. JobsMatchCalls
  BY EmptySeq DEF Init, JobsMatchCalls
<1>5. CloseFieldsAgree /\ CloseNeverOverdue /\ TransportLifetime
  BY <1>2 DEF Init, CloseFieldsAgree, CloseNeverOverdue, TransportLifetime
<1>6. NoStrandedCloser
  BY DEF Init, NoStrandedCloser
<1>7. QED
  BY <1>1, <1>3, <1>4, <1>5, <1>6 DEF IInv

\* A call that starts has no job yet.
LEMMA NoJobBefore ==
  ASSUME TypeOK, JobsMatchCalls, NEW c \in Calls,
         call[c] \notin {"settled", "returned"}
  PROVE  /\ Len(jobs) \in Nat
         /\ \A i \in 1..Len(jobs) : jobs[i].kind # "closer" => jobs[i].of # c
<1>1. Len(jobs) \in Nat
  BY LenProperties DEF TypeOK
<1>2. QED
  BY <1>1 DEF JobsMatchCalls, JobStatus

\* A call that starts or is refused queues nothing.
LEMMA NoJobQueued ==
  ASSUME TypeOK, JobsMatchCalls, NEW c \in Calls, call[c] = "idle",
         NEW new, call' = [call EXCEPT ![c] = new], jobs' = jobs
  PROVE  JobsMatchCalls'
<1>1. QueueStep(0, Len(jobs), {c})
  <2>1. \A x : x # c => call'[x] = call[x]
    BY DEF TypeOK
  <2>2. QED
    BY <2>1, NoJobBefore DEF QueueStep
<1>2. QED
  BY <1>1, NoJobBefore, JobsStep

LEMMA RefusePreserves ==
  ASSUME IInv, NoStrandedCloser, NEW c \in Calls, Refuse(c)
  PROVE  IInv' /\ NoStrandedCloser'
<1> USE DEF Refuse
<1>1. TypeOK'
  BY DEF IInv, TypeOK, CallStates
<1>2. InFlight' = InFlight
  BY InFlightStays DEF IInv, CallStates
<1>3. JobsMatchCalls'
  BY NoJobQueued DEF IInv
<1>4. (ActiveCountsInFlight /\ CloseFieldsAgree /\ CloseNeverOverdue
         /\ TransportLifetime)'
  BY <1>2 DEF IInv, ActiveCountsInFlight, CloseFieldsAgree, CloseNeverOverdue,
              TransportLifetime
<1>5. NoStrandedCloser'
  BY DEF NoStrandedCloser, CloserJob
<1>6. QED
  BY <1>1, <1>3, <1>4, <1>5 DEF IInv

LEMMA InvokePreserves ==
  ASSUME IInv, NoStrandedCloser, NEW c \in Calls, Invoke(c)
  PROVE  IInv' /\ NoStrandedCloser'
<1> USE DEF Invoke, Admits, BuildTransport
<1>1. TypeOK'
  BY DEF IInv, TypeOK, CallStates
<1>2. /\ Cardinality(InFlight') = Cardinality(InFlight) + 1
      /\ InFlight' # {}
  BY InFlightGrows DEF IInv
<1>3. ActiveCountsInFlight'
  BY <1>2 DEF IInv, ActiveCountsInFlight
<1>4. JobsMatchCalls'
  BY NoJobQueued DEF IInv
<1>5. CloseFieldsAgree' /\ CloseNeverOverdue'
  BY DEF IInv, CloseFieldsAgree, CloseNeverOverdue
<1>6. TransportLifetime'
  BY <1>2 DEF IInv, TransportLifetime, TypeOK
<1>7. NoStrandedCloser'
  BY DEF NoStrandedCloser, CloserJob
<1>8. QED
  BY <1>1, <1>3, <1>4, <1>5, <1>6, <1>7 DEF IInv

LEMMA SettlePreserves ==
  ASSUME IInv, NoStrandedCloser, NEW c \in Calls, Settle(c)
  PROVE  IInv' /\ NoStrandedCloser'
<1> USE DEF Settle
<1>1. FinallyJob(c) \in Job
  BY DEF FinallyJob, Job
<1>2. /\ jobs' \in Seq(Job)
      /\ Len(jobs') = Len(jobs) + 1
      /\ Len(jobs) \in Nat
      /\ \A i \in 1..Len(jobs) : i \in 1..Len(jobs') /\ jobs'[i] = jobs[i]
      /\ jobs'[Len(jobs) + 1] = FinallyJob(c)
  BY <1>1, AppendProperties, LenProperties DEF IInv, TypeOK
<1>3. TypeOK'
  BY <1>2 DEF IInv, TypeOK, CallStates
<1>4. InFlight' = InFlight
  BY InFlightStays DEF IInv, CallStates
<1>5. JobsMatchCalls'
  <2>1. \A i \in 1..Len(jobs) : jobs[i].kind # "closer" => jobs[i].of # c
    BY DEF IInv, JobsMatchCalls, JobStatus
  <2>2. FinallyJob(c).of = c /\ JobStatus(FinallyJob(c)) = "settled"
    BY DEF FinallyJob, JobStatus
  <2>3. call'[c] = "settled" /\ \A x : x # c => call'[x] = call[x]
    BY DEF IInv, TypeOK
  <2>4. \A i \in 1..Len(jobs') : i > Len(jobs) => i = Len(jobs')
    BY <1>2
  <2>5. QueueStep(0, Len(jobs), {c})
    BY <1>2, <2>1, <2>2, <2>3, <2>4 DEF QueueStep
  <2>6. QED
    BY <1>2, <2>5, JobsStep DEF IInv
<1>6. (ActiveCountsInFlight /\ CloseFieldsAgree /\ CloseNeverOverdue
         /\ TransportLifetime)'
  BY <1>4 DEF IInv, ActiveCountsInFlight, CloseFieldsAgree, CloseNeverOverdue,
              TransportLifetime
<1>7. NoStrandedCloser'
  BY <1>2 DEF NoStrandedCloser, CloserJob
<1>8. QED
  BY <1>3, <1>5, <1>6, <1>7 DEF IInv

\* A step that keeps the queued closers and the pending promise strands none.
LEMMA CloserJobsKept ==
  ASSUME NoStrandedCloser, closePromise' = closePromise, waiters' = waiters,
         closer' = closer,
         \A i \in 1..Len(jobs) : jobs[i].kind = "closer" =>
           \E j \in 1..Len(jobs') : jobs'[j] = jobs[i]
  PROVE  NoStrandedCloser'
<1>1. SUFFICES ASSUME NEW w \in Closers, closer[w] = "waiting"
               PROVE  \/ /\ closePromise = "pending"
                         /\ \E i \in 1..Len(waiters) : waiters[i] = w
                      \/ \E i \in 1..Len(jobs') : jobs'[i] = CloserJob(w)
  BY DEF NoStrandedCloser, CloserJob
<1>2. CASE \E i \in 1..Len(jobs) : jobs[i] = CloserJob(w)
  <2>1. PICK i \in 1..Len(jobs) : jobs[i] = CloserJob(w)
    BY <1>2
  <2>2. jobs[i].kind = "closer"
    BY <2>1 DEF CloserJob
  <2>3. QED
    BY <2>1, <2>2
<1>3. QED
  BY <1>1, <1>2 DEF NoStrandedCloser

LEMMA InvokeUnbuildablePreserves ==
  ASSUME IInv, NoStrandedCloser, NEW c \in Calls, InvokeUnbuildable(c)
  PROVE  IInv' /\ NoStrandedCloser'
<1> DEFINE t == Append(Woken(state, active, closeResolver), CallerJob(c))
<1>1. /\ call[c] = "idle"
      /\ state = "open"
      /\ call' = [call EXCEPT ![c] = "returned"]
      /\ jobs' = jobs \o t
      /\ UNCHANGED <<active, made, waiters, closer>>
      /\ FinishClose(state, active, closePromise, closeResolver)
  BY DEF InvokeUnbuildable, Admits
<1>2. ~MayFinish(state, active, closeResolver)
  BY <1>1 DEF MayFinish
<1>3. UNCHANGED <<state, closePromise, closeResolver, transport, released>>
  BY <1>1, <1>2 DEF FinishClose
<1>4. t = <<CallerJob(c)>>
  BY <1>2 DEF Woken
<1> HIDE DEF t
<1>5. CallerJob(c) \in Job /\ t \in Seq(Job) /\ Len(t) = 1 /\ t[1] = CallerJob(c)
  <2>1. CallerJob(c) \in Job
    BY DEF CallerJob, Job
  <2>2. QED
    BY <1>4, <2>1
<1>6. /\ jobs' \in Seq(Job)
      /\ Len(jobs') = Len(jobs) + 1
      /\ Len(jobs) \in Nat
      /\ \A i \in 1..Len(jobs) : i \in 1..Len(jobs') /\ jobs'[i] = jobs[i]
      /\ jobs'[Len(jobs) + 1] = CallerJob(c)
  <2>1. jobs \in Seq(Job) /\ Len(jobs) \in Nat
    BY LenProperties DEF IInv, TypeOK
  <2>2. 1 \in 1..Len(t)
    BY <1>5
  <2>3. /\ jobs \o t \in Seq(Job)
        /\ Len(jobs \o t) = Len(jobs) + Len(t)
        /\ \A i \in 1..Len(jobs) :
             i \in 1..Len(jobs \o t) /\ (jobs \o t)[i] = jobs[i]
        /\ (jobs \o t)[Len(jobs) + 1] = t[1]
    BY <1>5, <2>1, <2>2, AppendedJobs
  <2>4. QED
    BY <1>1, <1>5, <2>1, <2>3
<1>7. TypeOK'
  BY <1>1, <1>3, <1>6 DEF IInv, TypeOK, CallStates
<1>8. InFlight' = InFlight
  BY <1>1, InFlightStays DEF IInv, CallStates
<1>9. JobsMatchCalls'
  <2>1. CallerJob(c).of = c /\ JobStatus(CallerJob(c)) = "returned"
    BY DEF CallerJob, JobStatus
  <2>2. call'[c] = "returned" /\ \A x : x # c => call'[x] = call[x]
    BY <1>1 DEF IInv, TypeOK
  <2>3. \A i \in 1..Len(jobs) : jobs[i].kind # "closer" => jobs[i].of # c
    BY <1>1, NoJobBefore DEF IInv
  <2>4. \A i \in 1..Len(jobs') : i > Len(jobs) => i = Len(jobs')
    BY <1>6
  <2>5. QueueStep(0, Len(jobs), {c})
    BY <1>6, <2>1, <2>2, <2>3, <2>4 DEF QueueStep
  <2>6. QED
    BY <1>6, <2>5, JobsStep DEF IInv
<1>10. (ActiveCountsInFlight /\ CloseFieldsAgree /\ CloseNeverOverdue
          /\ TransportLifetime)'
  BY <1>1, <1>3, <1>8 DEF IInv, ActiveCountsInFlight, CloseFieldsAgree,
                          CloseNeverOverdue, TransportLifetime
<1>11. NoStrandedCloser'
  BY <1>1, <1>3, <1>6, CloserJobsKept
<1>12. QED
  BY <1>7, <1>9, <1>10, <1>11 DEF IInv

\* What every job needs to know of the queue it is taken from.
LEMMA HeadJob ==
  ASSUME TypeOK, JobsMatchCalls, jobs # <<>>
  PROVE  /\ Head(jobs) \in Job
         /\ Len(jobs) \in Nat \ {0}
         /\ Tail(jobs) \in Seq(Job)
         /\ Len(Tail(jobs)) = Len(jobs) - 1
         /\ Len(Tail(jobs)) \in Nat
         /\ \A i \in 1..Len(Tail(jobs)) :
              i + 1 \in 1..Len(jobs) /\ Tail(jobs)[i] = jobs[i + 1]
         /\ \A i \in 1..Len(jobs) :
              i = 1 \/ (i - 1 \in 1..Len(Tail(jobs))
                          /\ Tail(jobs)[i - 1] = jobs[i])
         /\ jobs[1] = Head(jobs)
         /\ Head(jobs).kind # "closer" =>
              /\ Head(jobs).of \in Calls
              /\ call[Head(jobs).of] = JobStatus(Head(jobs))
              /\ \A i \in 1..Len(Tail(jobs)) :
                   Tail(jobs)[i].kind # "closer" =>
                     Tail(jobs)[i].of # Head(jobs).of
<1>1. /\ Head(jobs) = jobs[1]
      /\ 1 \in 1..Len(jobs)
      /\ Tail(jobs) \in Seq(Job)
      /\ Len(Tail(jobs)) = Len(jobs) - 1
      /\ \A i \in 1..Len(Tail(jobs)) :
           i + 1 \in 1..Len(jobs) /\ Tail(jobs)[i] = jobs[i + 1]
  BY TailOfJobs DEF TypeOK
<1>2. Len(jobs) \in Nat \ {0} /\ Len(Tail(jobs)) \in Nat
  BY <1>1, LenProperties DEF TypeOK
<1>3. \A i \in 1..Len(jobs) : jobs[i] \in Job
  BY ElementOfSeq DEF TypeOK
<1>4. \A i \in 1..Len(jobs) :
        i = 1 \/ (i - 1 \in 1..Len(Tail(jobs)) /\ Tail(jobs)[i - 1] = jobs[i])
  <2>1. SUFFICES ASSUME NEW i \in 1..Len(jobs), i # 1
                 PROVE  i - 1 \in 1..Len(Tail(jobs))
                          /\ Tail(jobs)[i - 1] = jobs[i]
    OBVIOUS
  <2>2. i - 1 \in 1..Len(Tail(jobs)) /\ (i - 1) + 1 = i
    BY <1>1, <1>2, <2>1
  <2>3. QED
    BY <2>2, <1>1
<1>5. ASSUME Head(jobs).kind # "closer"
      PROVE  /\ Head(jobs).of \in Calls
             /\ call[Head(jobs).of] = JobStatus(Head(jobs))
             /\ \A i \in 1..Len(Tail(jobs)) :
                  Tail(jobs)[i].kind # "closer" =>
                    Tail(jobs)[i].of # Head(jobs).of
  <2>1. Head(jobs).of \in Calls
    BY <1>1, <1>3, <1>5 DEF Job
  <2>2. /\ call[jobs[1].of] = JobStatus(jobs[1])
        /\ \A j \in 1..Len(jobs) : jobs[j] = jobs[1] => 1 = j
    BY <1>1, <1>5 DEF JobsMatchCalls
  <2>3. ASSUME NEW i \in 1..Len(Tail(jobs)), Tail(jobs)[i].kind # "closer",
               Tail(jobs)[i].of = Head(jobs).of
        PROVE  FALSE
    <3>1. /\ i + 1 \in 1..Len(jobs)
          /\ jobs[i + 1].kind # "closer"
          /\ jobs[i + 1].of = jobs[1].of
          /\ i + 1 # 1
      BY <1>1, <2>3
    <3>2. call[jobs[i + 1].of] = JobStatus(jobs[i + 1])
      BY <3>1 DEF JobsMatchCalls
    <3>3. JobStatus(jobs[i + 1]) = JobStatus(jobs[1])
      BY <2>2, <3>1, <3>2
    <3>4. jobs[i + 1] \in Job /\ jobs[1] \in Job
      BY <1>1, <1>3, <3>1
    <3>5. jobs[i + 1].kind = jobs[1].kind
      BY <3>1, <3>3, <3>4, <1>1, <1>5 DEF JobStatus, Job
    <3>6. jobs[i + 1] = jobs[1]
      BY <3>1, <3>4, <3>5, <1>1, <1>5 DEF Job
    <3>7. QED
      BY <2>2, <3>1, <3>6
  <2>4. QED
    BY <1>1, <2>1, <2>2, <2>3
<1>6. QED
  BY <1>1, <1>2, <1>3, <1>4, <1>5

LEMMA RunCallerPreserves ==
  ASSUME IInv, NoStrandedCloser, RunCaller
  PROVE  IInv' /\ NoStrandedCloser'
<1> DEFINE c == Head(jobs).of
           m == Len(Tail(jobs))
<1>1. /\ jobs # <<>>
      /\ Head(jobs).kind = "caller"
      /\ call' = [call EXCEPT ![c] = "done"]
      /\ jobs' = Tail(jobs)
      /\ UNCHANGED <<state, active, transport, made, released, closePromise,
                     closeResolver, waiters, closer>>
  BY DEF RunCaller, Runs
<1>2. /\ c \in Calls
      /\ call[c] = "returned"
      /\ m \in Nat
      /\ Tail(jobs) \in Seq(Job)
      /\ \A i \in 1..m : i + 1 \in 1..Len(jobs) /\ Tail(jobs)[i] = jobs[i + 1]
      /\ \A i \in 1..m : Tail(jobs)[i].kind # "closer" => Tail(jobs)[i].of # c
      /\ \A i \in 1..Len(jobs) :
           i = 1 \/ (i - 1 \in 1..m /\ Tail(jobs)[i - 1] = jobs[i])
      /\ jobs[1] = Head(jobs)
  BY <1>1, HeadJob DEF IInv, JobStatus
<1>3. TypeOK'
  BY <1>1, <1>2 DEF IInv, TypeOK, CallStates
<1>4. InFlight' = InFlight
  BY <1>1, <1>2, InFlightStays DEF IInv, CallStates
<1>5. JobsMatchCalls'
  <2>1. \A x : x # c => call'[x] = call[x]
    BY <1>1 DEF IInv, TypeOK
  <2> HIDE DEF c, m
  <2>2. QueueStep(1, m, {c})
    BY <1>1, <1>2, <2>1 DEF QueueStep, m
  <2>3. QED
    BY <1>2, <2>2, JobsStep DEF IInv
<1>6. (ActiveCountsInFlight /\ CloseFieldsAgree /\ CloseNeverOverdue
         /\ TransportLifetime)'
  BY <1>1, <1>4 DEF IInv, ActiveCountsInFlight, CloseFieldsAgree,
                    CloseNeverOverdue, TransportLifetime
<1>7. NoStrandedCloser'
  <2>1. \A i \in 1..Len(jobs) : jobs[i].kind = "closer" =>
          \E j \in 1..Len(jobs') : jobs'[j] = jobs[i]
    BY <1>1, <1>2
  <2>2. QED
    BY <1>1, <2>1, CloserJobsKept
<1>8. QED
  BY <1>3, <1>5, <1>6, <1>7 DEF IInv

LEMMA RunCloserPreserves ==
  ASSUME IInv, NoStrandedCloser, RunCloser
  PROVE  IInv' /\ NoStrandedCloser'
<1> DEFINE v == Head(jobs).of
           m == Len(Tail(jobs))
<1>1. /\ jobs # <<>>
      /\ Head(jobs).kind = "closer"
      /\ closer' = [closer EXCEPT ![v] = "resumed"]
      /\ jobs' = Tail(jobs)
      /\ UNCHANGED <<state, active, transport, made, released, closePromise,
                     closeResolver, waiters, call>>
  BY DEF RunCloser, Runs
<1>2. /\ Head(jobs) \in Job
      /\ m \in Nat
      /\ Tail(jobs) \in Seq(Job)
      /\ \A i \in 1..m : i + 1 \in 1..Len(jobs) /\ Tail(jobs)[i] = jobs[i + 1]
      /\ \A i \in 1..Len(jobs) :
           i = 1 \/ (i - 1 \in 1..m /\ Tail(jobs)[i - 1] = jobs[i])
      /\ jobs[1] = Head(jobs)
  BY <1>1, HeadJob DEF IInv
<1>3. v \in Closers
  BY <1>1, <1>2 DEF Job
<1>4. TypeOK'
  BY <1>1, <1>2, <1>3 DEF IInv, TypeOK
<1>5. InFlight' = InFlight
  BY <1>1 DEF InFlight
<1>6. JobsMatchCalls'
  <2> HIDE DEF m
  <2>1. QueueStep(1, m, {})
    BY <1>1, <1>2 DEF QueueStep, m
  <2>2. QED
    BY <1>2, <2>1, JobsStep DEF IInv
<1>7. (ActiveCountsInFlight /\ CloseFieldsAgree /\ CloseNeverOverdue
         /\ TransportLifetime)'
  BY <1>1, <1>5 DEF IInv, ActiveCountsInFlight, CloseFieldsAgree,
                    CloseNeverOverdue, TransportLifetime
<1>8. NoStrandedCloser'
  <2>1. SUFFICES ASSUME NEW w \in Closers, closer'[w] = "waiting"
                 PROVE  \/ /\ closePromise' = "pending"
                           /\ \E i \in 1..Len(waiters') : waiters'[i] = w
                        \/ \E i \in 1..Len(jobs') : jobs'[i] = CloserJob(w)
    BY DEF NoStrandedCloser, CloserJob
  <2>2. w # v /\ closer[w] = "waiting"
    BY <1>1, <1>3, <2>1 DEF IInv, TypeOK
  <2>3. CASE \E i \in 1..Len(jobs) : jobs[i] = CloserJob(w)
    <3>1. PICK i \in 1..Len(jobs) : jobs[i] = CloserJob(w)
      BY <2>3
    <3>2. i # 1
      BY <1>2, <2>2, <3>1 DEF CloserJob
    <3>3. i - 1 \in 1..m /\ Tail(jobs)[i - 1] = CloserJob(w)
      BY <1>2, <3>1, <3>2
    <3>4. QED
      BY <1>1, <3>3
  <2>4. QED
    BY <1>1, <2>2, <2>3 DEF NoStrandedCloser
<1>9. QED
  BY <1>4, <1>6, <1>7, <1>8 DEF IInv

LEMMA RunFinallyPreserves ==
  ASSUME IInv, NoStrandedCloser, RunFinally
  PROVE  IInv' /\ NoStrandedCloser'
<1> DEFINE c == Head(jobs).of
           n == active - 1
           ends == MayFinish(state, n, closeResolver)
           rest == Tail(jobs)
           t == Append(Woken(state, n, closeResolver), CallerJob(c))
<1>1. /\ jobs # <<>>
      /\ Head(jobs).kind = "finally"
      /\ active' = n
      /\ FinishClose(state, n, closePromise, closeResolver)
      /\ waiters' = IF ends THEN <<>> ELSE waiters
      /\ call' = [call EXCEPT ![c] = "returned"]
      /\ jobs' = rest \o t
      /\ UNCHANGED <<made, closer>>
  BY DEF RunFinally, Runs
<1>2. /\ c \in Calls
      /\ call[c] = "settled"
      /\ rest \in Seq(Job)
      /\ Len(rest) \in Nat
      /\ \A i \in 1..Len(rest) : i + 1 \in 1..Len(jobs) /\ rest[i] = jobs[i + 1]
      /\ \A i \in 1..Len(rest) : rest[i].kind # "closer" => rest[i].of # c
      /\ \A i \in 1..Len(jobs) :
           i = 1 \/ (i - 1 \in 1..Len(rest) /\ rest[i - 1] = jobs[i])
      /\ jobs[1] = Head(jobs)
  BY <1>1, HeadJob DEF IInv, JobStatus
<1>3. /\ t \in Seq(Job)
      /\ Len(t) \in Nat \ {0}
      /\ t[Len(t)] = CallerJob(c)
      /\ \A i \in 1..Len(t) :
           t[i].kind = "closer" \/ (i = Len(t) /\ t[i] = CallerJob(c))
      /\ ends => \A i \in 1..Len(waiters) :
                   i \in 1..Len(t) /\ t[i] = CloserJob(waiters[i])
  BY <1>2, AppendedByInvoke DEF IInv
<1> HIDE DEF c, rest, t
<1>4. /\ jobs' \in Seq(Job)
      /\ Len(jobs') = Len(rest) + Len(t)
      /\ \A i \in 1..Len(rest) : i \in 1..Len(jobs') /\ jobs'[i] = rest[i]
      /\ \A i \in 1..Len(t) :
           Len(rest) + i \in 1..Len(jobs') /\ jobs'[Len(rest) + i] = t[i]
  BY <1>1, <1>2, <1>3, AppendedJobs
<1>5. /\ InFlight' = InFlight \ {c}
      /\ Cardinality(InFlight') = Cardinality(InFlight) - 1
      /\ Cardinality(InFlight') \in Nat
      /\ Cardinality(InFlight') = 0 <=> InFlight' = {}
  BY <1>1, <1>2, InFlightShrinks DEF IInv
<1>6. ActiveCountsInFlight' /\ n \in Nat /\ (n = 0 <=> InFlight' = {})
  BY <1>1, <1>5 DEF IInv, ActiveCountsInFlight
<1>7. c \in InFlight
  BY <1>2 DEF InFlight
<1>8. /\ transport = "live" /\ state # "closed" /\ made = 1 /\ released = 0
      /\ closeResolver <=> state = "closing"
      /\ ends <=> state = "closing" /\ n = 0
  BY <1>7 DEF IInv, TypeOK, TransportLifetime, CloseNeverOverdue,
              CloseFieldsAgree, MayFinish
<1>9. /\ ends => /\ released' = 1 /\ transport' = "none" /\ state' = "closed"
                 /\ closePromise' = "resolved" /\ closeResolver' = FALSE
      /\ ~ends => UNCHANGED <<state, closePromise, closeResolver, transport,
                              released>>
  BY <1>1, <1>8 DEF FinishClose, Release
<1> HIDE DEF n, ends
<1>10. TypeOK'
  <2>1. waiters' \in Seq(Closers)
    BY <1>1, EmptySeq DEF IInv, TypeOK
  <2>2. call' \in [Calls -> CallStates]
    BY <1>1 DEF IInv, TypeOK, CallStates
  <2>3. /\ state' \in {"open", "closing", "closed"}
        /\ transport' \in {"none", "live"}
        /\ released' \in Nat
        /\ closePromise' \in {"none", "pending", "resolved"}
        /\ closeResolver' \in BOOLEAN
    <3>1. CASE ends
      <4>1. released' = 1 /\ transport' = "none" /\ state' = "closed"
              /\ closePromise' = "resolved" /\ closeResolver' = FALSE
        BY <1>9, <3>1
      <4>2. released' \in Nat
        BY <4>1
      <4>3. QED
        BY <4>1, <4>2, Zenon
    <3>2. CASE ~ends
      BY <1>9, <3>2 DEF IInv, TypeOK
    <3>3. QED
      BY <3>1, <3>2
  <2>4. active' \in Nat /\ made' \in Nat /\ jobs' \in Seq(Job)
          /\ closer' \in [Closers -> {"idle", "waiting", "resumed"}]
    BY <1>1, <1>4, <1>6 DEF IInv, TypeOK
  <2>5. QED
    BY <2>1, <2>2, <2>3, <2>4 DEF TypeOK
<1>11. JobsMatchCalls'
  <2>1. CallerJob(c).of = c /\ JobStatus(CallerJob(c)) = "returned"
    BY DEF CallerJob, JobStatus
  <2>2. call'[c] = "returned" /\ \A x : x # c => call'[x] = call[x]
    BY <1>1, <1>2 DEF IInv, TypeOK
  <2>3. ASSUME NEW i \in 1..Len(jobs'), i > Len(rest)
        PROVE  \/ jobs'[i].kind = "closer"
               \/ i = Len(jobs') /\ jobs'[i] = CallerJob(c)
    <3>1. i - Len(rest) \in 1..Len(t) /\ Len(rest) + (i - Len(rest)) = i
      BY <1>2, <1>3, <1>4, <2>3
    <3>2. jobs'[i] = t[i - Len(rest)]
      BY <1>4, <3>1
    <3>3. i - Len(rest) = Len(t) => i = Len(jobs')
      BY <1>2, <1>3, <1>4, <2>3
    <3>4. QED
      BY <1>3, <3>1, <3>2, <3>3
  <2>4. \A i \in 1..Len(rest) :
          /\ i + 1 \in 1..Len(jobs)
          /\ jobs'[i] = jobs[i + 1]
          /\ jobs[i + 1].kind # "closer" => jobs[i + 1].of # c
    BY <1>2, <1>4
  <2>5. Len(jobs') \in Nat
    BY <1>2, <1>3, <1>4
  <2>6. \A i \in 1..Len(jobs') : i > Len(rest) =>
          \/ jobs'[i].kind = "closer"
          \/ /\ i = Len(jobs')
             /\ jobs'[i].of \in {c}
             /\ call'[jobs'[i].of] = JobStatus(jobs'[i])
    BY <2>1, <2>2, <2>3
  <2>7. QueueStep(1, Len(rest), {c})
    BY <2>2, <2>4, <2>5, <2>6 DEF QueueStep
  <2>8. QED
    BY <1>2, <2>7, JobsStep DEF IInv
<1>12. CloseFieldsAgree' /\ CloseNeverOverdue' /\ TransportLifetime'
  <2>1. CASE ends
    BY <1>1, <1>6, <1>8, <1>9, <2>1
    DEF IInv, CloseFieldsAgree, CloseNeverOverdue, TransportLifetime
  <2>2. CASE ~ends
    BY <1>1, <1>6, <1>8, <1>9, <2>2
    DEF IInv, CloseFieldsAgree, CloseNeverOverdue, TransportLifetime
  <2>3. QED
    BY <2>1, <2>2
<1>13. NoStrandedCloser'
  <2>1. \A i \in 1..Len(jobs) : jobs[i].kind = "closer" =>
          \E j \in 1..Len(jobs') : jobs'[j] = jobs[i]
    <3>1. SUFFICES ASSUME NEW i \in 1..Len(jobs), jobs[i].kind = "closer"
                   PROVE  \E j \in 1..Len(jobs') : jobs'[j] = jobs[i]
      OBVIOUS
    <3>2. i - 1 \in 1..Len(rest) /\ rest[i - 1] = jobs[i]
      BY <1>1, <1>2, <3>1
    <3>3. QED
      BY <1>4, <3>2
  <2>2. CASE ~ends
    BY <1>1, <1>9, <2>1, <2>2, CloserJobsKept
  <2>3. CASE ends
    <3>1. SUFFICES ASSUME NEW w \in Closers, closer[w] = "waiting"
                   PROVE  \E i \in 1..Len(jobs') : jobs'[i] = CloserJob(w)
      BY <1>1 DEF NoStrandedCloser, CloserJob
    <3>2. CASE \E i \in 1..Len(waiters) : waiters[i] = w
      BY <1>3, <1>4, <2>3, <3>2
    <3>3. CASE \E i \in 1..Len(jobs) : jobs[i] = CloserJob(w)
      <4>1. CloserJob(w).kind = "closer"
        BY DEF CloserJob
      <4>2. QED
        BY <2>1, <3>3, <4>1
    <3>4. QED
      BY <3>1, <3>2, <3>3 DEF NoStrandedCloser
  <2>4. QED
    BY <2>2, <2>3
<1>14. QED
  BY <1>6, <1>10, <1>11, <1>12, <1>13 DEF IInv

LEMMA ClosePreserves ==
  ASSUME IInv, NoStrandedCloser, NEW w \in Closers, Close(w)
  PROVE  IInv' /\ NoStrandedCloser'
<1> USE DEF IsFirstClose, FirstClose
<1>1. /\ closer[w] = "idle"
      /\ closer' = [closer EXCEPT ![w] = "waiting"]
      /\ UNCHANGED <<active, made, call>>
  BY DEF Close
<1>2. InFlight' = InFlight /\ active \in Nat /\ (active = 0 <=> InFlight = {})
  BY <1>1, InFlightFinite DEF InFlight, IInv, ActiveCountsInFlight
<1>3. \/ /\ closePromise' = "resolved"
         /\ jobs' = Append(jobs, CloserJob(w)) /\ waiters' = waiters
      \/ /\ closePromise' # "resolved"
         /\ waiters' = Append(waiters, w) /\ jobs' = jobs
  BY DEF Close
<1>4. /\ TypeOK' /\ CloseFieldsAgree' /\ CloseNeverOverdue' /\ TransportLifetime'
      /\ closePromise = "resolved" => closePromise' = "resolved"
      /\ closePromise = "pending" => closePromise' = "pending"
      /\ closePromise' \in {"pending", "resolved"}
  <2>1. /\ jobs' \in Seq(Job) /\ waiters' \in Seq(Closers)
        /\ closer' \in [Closers -> {"idle", "waiting", "resumed"}]
    <3>1. CloserJob(w) \in Job
      BY DEF CloserJob, Job
    <3>2. /\ Append(jobs, CloserJob(w)) \in Seq(Job)
          /\ Append(waiters, w) \in Seq(Closers)
      BY <3>1, AppendProperties DEF IInv, TypeOK
    <3>3. jobs' \in Seq(Job) /\ waiters' \in Seq(Closers)
      BY <1>3, <3>2 DEF IInv, TypeOK
    <3>4. closer' \in [Closers -> {"idle", "waiting", "resumed"}]
      BY <1>1 DEF IInv, TypeOK
    <3>5. QED
      BY <3>3, <3>4
  <2>2. CASE closePromise = "none" /\ active = 0
    <3>1. /\ Release /\ transport' = "none" /\ state' = "closed"
          /\ closePromise' = "resolved" /\ closeResolver' = FALSE
      BY <2>2 DEF Close, FinishClose, MayFinish
    <3>2. state = "open"
      BY <2>2 DEF IInv, CloseFieldsAgree
    <3>3. released' = made /\ made <= 1 /\ made \in Nat
      BY <3>1, <3>2 DEF Release, IInv, TransportLifetime, TypeOK
    <3>4. QED
      BY <1>1, <1>2, <2>1, <2>2, <3>1, <3>2, <3>3
      DEF IInv, TypeOK, CloseFieldsAgree, CloseNeverOverdue, TransportLifetime
  <2>3. CASE closePromise = "none" /\ active # 0
    <3>1. /\ state' = "closing" /\ closePromise' = "pending"
          /\ closeResolver' = TRUE /\ UNCHANGED <<transport, released>>
      BY <2>3 DEF Close, FinishClose, MayFinish
    <3>2. state = "open"
      BY <2>3 DEF IInv, CloseFieldsAgree
    <3>3. QED
      BY <1>1, <1>2, <2>1, <2>3, <3>1, <3>2
      DEF IInv, TypeOK, CloseFieldsAgree, CloseNeverOverdue, TransportLifetime
  <2>4. CASE closePromise # "none"
    <3>1. UNCHANGED <<state, transport, released, closePromise, closeResolver>>
      BY <2>4 DEF Close
    <3>2. QED
      BY <1>1, <1>2, <2>1, <2>4, <3>1
      DEF IInv, TypeOK, CloseFieldsAgree, CloseNeverOverdue, TransportLifetime
  <2>5. QED
    BY <2>2, <2>3, <2>4
<1>5. /\ Len(jobs) \in Nat /\ Len(jobs') \in Nat
      /\ \A i \in 1..Len(jobs) : i \in 1..Len(jobs') /\ jobs'[i] = jobs[i]
      /\ \A i \in 1..Len(jobs') : i > Len(jobs) => jobs'[i].kind = "closer"
      /\ closePromise' = "resolved" =>
           Len(jobs') = Len(jobs) + 1 /\ jobs'[Len(jobs) + 1] = CloserJob(w)
  <2>1. Len(jobs) \in Nat /\ CloserJob(w) \in Job /\ CloserJob(w).kind = "closer"
    BY LenProperties DEF IInv, TypeOK, CloserJob, Job
  <2>2. CASE jobs' = jobs /\ closePromise' # "resolved"
    BY <2>1, <2>2
  <2>3. CASE jobs' = Append(jobs, CloserJob(w))
    <3>1. /\ Len(jobs') = Len(jobs) + 1
          /\ \A i \in 1..Len(jobs) : jobs'[i] = jobs[i]
          /\ jobs'[Len(jobs) + 1] = CloserJob(w)
      BY <2>1, <2>3, AppendProperties DEF IInv, TypeOK
    <3>2. \A i \in 1..Len(jobs') : i > Len(jobs) => i = Len(jobs) + 1
      BY <2>1, <3>1
    <3>3. QED
      BY <2>1, <3>1, <3>2
  <2>4. QED
    BY <1>3, <2>2, <2>3
<1>6. JobsMatchCalls'
  <2>1. QueueStep(0, Len(jobs), {})
    BY <1>1, <1>5 DEF QueueStep
  <2>2. QED
    BY <1>5, <2>1, JobsStep DEF IInv
<1>7. ActiveCountsInFlight'
  BY <1>1, <1>2 DEF IInv, ActiveCountsInFlight
<1>8. NoStrandedCloser'
  <2>1. SUFFICES ASSUME NEW v \in Closers, closer'[v] = "waiting"
                 PROVE  \/ /\ closePromise' = "pending"
                           /\ \E i \in 1..Len(waiters') : waiters'[i] = v
                        \/ \E i \in 1..Len(jobs') : jobs'[i] = CloserJob(v)
    BY DEF NoStrandedCloser, CloserJob
  <2>2. closePromise' = "pending" =>
          /\ \A i \in 1..Len(waiters) :
               i \in 1..Len(waiters') /\ waiters'[i] = waiters[i]
          /\ \E i \in 1..Len(waiters') : waiters'[i] = w
    BY <1>3, AppendProperties DEF IInv, TypeOK
  <2>3. CASE v = w
    <3>1. Len(jobs) + 1 \in 1..(Len(jobs) + 1)
      BY <1>5
    <3>2. QED
      BY <1>4, <1>5, <2>2, <2>3, <3>1
  <2>4. CASE v # w
    <3>1. closer[v] = "waiting"
      BY <1>1, <2>1, <2>4 DEF IInv, TypeOK
    <3>2. CASE closePromise = "pending"
      BY <1>4, <1>5, <2>2, <3>1, <3>2 DEF NoStrandedCloser
    <3>3. CASE closePromise # "pending"
      BY <1>5, <3>1, <3>3 DEF NoStrandedCloser
    <3>4. QED
      BY <3>2, <3>3
  <2>5. QED
    BY <2>3, <2>4
<1>9. QED
  BY <1>4, <1>6, <1>7, <1>8 DEF IInv

----------------------------------------------------------------------------
(* The theorems *)

LEMMA NextPreserves ==
  IInv /\ NoStrandedCloser /\ [Next]_vars => IInv' /\ NoStrandedCloser'
<1> SUFFICES ASSUME IInv, NoStrandedCloser, [Next]_vars
             PROVE  IInv' /\ NoStrandedCloser'
  OBVIOUS
<1>1. ASSUME NEW c \in Calls, Refuse(c)
      PROVE  IInv' /\ NoStrandedCloser'
  BY <1>1, RefusePreserves
<1>2. ASSUME NEW c \in Calls, Invoke(c)
      PROVE  IInv' /\ NoStrandedCloser'
  BY <1>2, InvokePreserves
<1>3. ASSUME NEW c \in Calls, InvokeUnbuildable(c)
      PROVE  IInv' /\ NoStrandedCloser'
  BY <1>3, InvokeUnbuildablePreserves
<1>4. ASSUME NEW c \in Calls, Settle(c)
      PROVE  IInv' /\ NoStrandedCloser'
  BY <1>4, SettlePreserves
<1>5. ASSUME NEW w \in Closers, Close(w)
      PROVE  IInv' /\ NoStrandedCloser'
  BY <1>5, ClosePreserves
<1>6. CASE RunFinally
  BY <1>6, RunFinallyPreserves
<1>7. CASE RunCaller
  BY <1>7, RunCallerPreserves
<1>8. CASE RunCloser
  BY <1>8, RunCloserPreserves
<1>9. CASE UNCHANGED vars
  <2>1. InFlight' = InFlight
    BY <1>9 DEF vars, InFlight
  <2>2. QED
    BY <1>9, <2>1
    DEF vars, IInv, TypeOK, ActiveCountsInFlight, JobsMatchCalls,
        CloseFieldsAgree, CloseNeverOverdue, TransportLifetime,
        NoStrandedCloser, JobStatus, CloserJob
<1>10. QED
  BY <1>1, <1>2, <1>3, <1>4, <1>5, <1>6, <1>7, <1>8, <1>9
  DEF Next, RunJob, Terminated

\* The bookkeeping of the client (its counter of active calls, the fields of
\* its close, the life of its transport) agrees with the calls in flight in
\* every reachable state, for any number of calls and closers.
THEOREM BookkeepingAgrees == Spec => []IInv
<1>1. Init => IInv /\ NoStrandedCloser
  BY InitEstablishesIInv
<1>2. IInv /\ NoStrandedCloser /\ [Next]_vars => IInv' /\ NoStrandedCloser'
  BY NextPreserves
<1>3. QED
  BY <1>1, <1>2, PTL DEF Spec

\* No caller of close() is ever left without a pending promise or a queued
\* continuation.
THEOREM NobodyStranded == Spec => []NoStrandedCloser
<1>1. Init => IInv /\ NoStrandedCloser
  BY InitEstablishesIInv
<1>2. IInv /\ NoStrandedCloser /\ [Next]_vars => IInv' /\ NoStrandedCloser'
  BY NextPreserves
<1>3. QED
  BY <1>1, <1>2, PTL DEF Spec

\* No call is ever in flight without a live transport under it.
THEOREM TransportOutlivesCalls == Spec => []NoUseAfterRelease
<1>1. IInv => NoUseAfterRelease
  BY DEF IInv, TypeOK, CloseNeverOverdue, TransportLifetime, NoUseAfterRelease
<1>2. QED
  BY <1>1, BookkeepingAgrees, PTL

\* A client builds at most one transport and closes it exactly once.
THEOREM OneTransport == Spec => []TransportReleasedOnce
<1>1. IInv => TransportReleasedOnce
  BY DEF IInv, TypeOK, TransportLifetime, TransportReleasedOnce
<1>2. QED
  BY <1>1, BookkeepingAgrees, PTL

\* The close promise is resolved exactly when a close was requested and no
\* admitted call is in flight.
THEOREM CloseIsExact == Spec => []CloseResolvedExactlyWhenIdle
<1>1. IInv => CloseResolvedExactlyWhenIdle
  BY DEF IInv, TypeOK, CloseFieldsAgree, CloseNeverOverdue,
         CloseResolvedExactlyWhenIdle
<1>2. QED
  BY <1>1, BookkeepingAgrees, PTL

\* One step, seen from the calls in flight: a call enters (only while open), a
\* call leaves, the client is asked to close, or nothing of this changes.
LEMMA StepSeenFromCalls ==
  ASSUME IInv, NoStrandedCloser, [Next]_vars
  PROVE  \/ \E c \in Calls :
              /\ state = "open" /\ state' = "open"
              /\ c \notin InFlight /\ InFlight' = InFlight \cup {c}
         \/ \E c \in Calls :
              /\ c \in InFlight /\ InFlight' = InFlight \ {c}
              /\ state' # "open" <=> state # "open"
              /\ active' <= active /\ made' = made
         \/ /\ state = "open" /\ state' # "open" /\ InFlight' = InFlight
            /\ active' = active /\ made' = made
         \/ /\ InFlight' = InFlight /\ (state' # "open" <=> state # "open")
            /\ active' = active /\ made' = made
<1>1. TypeOK /\ active \in Nat
  BY DEF IInv, TypeOK
<1>2. ASSUME NEW c \in Calls, Invoke(c)
      PROVE  /\ state = "open" /\ state' = "open"
             /\ c \notin InFlight /\ InFlight' = InFlight \cup {c}
  BY <1>1, <1>2, InFlightGrows DEF Invoke, Admits, InFlight
<1>3. ASSUME NEW c \in Calls, Refuse(c) \/ InvokeUnbuildable(c) \/ Settle(c)
      PROVE  /\ InFlight' = InFlight /\ (state' # "open" <=> state # "open")
             /\ active' = active /\ made' = made
  <2>1. CASE Refuse(c)
    BY <2>1, <1>1, InFlightStays DEF Refuse, CallStates
  <2>2. CASE Settle(c)
    BY <2>2, <1>1, InFlightStays DEF Settle, CallStates
  <2>3. CASE InvokeUnbuildable(c)
    <3>1. state = "open" /\ call[c] = "idle" /\ active' = active /\ made' = made
            /\ call' = [call EXCEPT ![c] = "returned"]
      BY <2>3 DEF InvokeUnbuildable, Admits
    <3>2. state' = state
      BY <2>3, <3>1 DEF InvokeUnbuildable, FinishClose, MayFinish
    <3>3. QED
      BY <3>1, <3>2, <1>1, InFlightStays DEF CallStates
  <2>4. QED
    BY <1>3, <2>1, <2>2, <2>3
<1>4. ASSUME NEW w \in Closers, Close(w)
      PROVE  /\ InFlight' = InFlight /\ active' = active /\ made' = made
             /\ state' # "open"
  <2>1. InFlight' = InFlight /\ active' = active /\ made' = made
    BY <1>4 DEF Close, InFlight
  <2>2. closePromise' # "none"
    BY <1>4 DEF Close, IsFirstClose, FirstClose, FinishClose
  <2>3. CloseFieldsAgree'
    BY <1>4, ClosePreserves DEF IInv
  <2>4. QED
    BY <2>1, <2>2, <2>3 DEF CloseFieldsAgree
<1>5. ASSUME RunFinally
      PROVE  \E c \in Calls :
               /\ c \in InFlight /\ InFlight' = InFlight \ {c}
               /\ state' # "open" <=> state # "open"
               /\ active' <= active /\ made' = made
  <2>1. /\ jobs # <<>> /\ Head(jobs).kind = "finally"
        /\ call' = [call EXCEPT ![Head(jobs).of] = "returned"]
        /\ active' = active - 1
        /\ made' = made
        /\ FinishClose(state, active - 1, closePromise, closeResolver)
    BY <1>5 DEF RunFinally, Runs
  <2>2. Head(jobs).of \in Calls /\ call[Head(jobs).of] = "settled"
    BY <2>1, HeadJob DEF IInv, JobStatus
  <2>3. InFlight' = InFlight \ {Head(jobs).of}
    BY <1>1, <2>1, <2>2, InFlightShrinks
  <2>4. Head(jobs).of \in InFlight
    BY <2>2 DEF InFlight
  <2>5. state' # "open" <=> state # "open"
    BY <2>1 DEF FinishClose, MayFinish
  <2>6. QED
    BY <1>1, <2>1, <2>2, <2>3, <2>4, <2>5
<1>6. ASSUME RunCaller
      PROVE  /\ InFlight' = InFlight /\ state' = state
             /\ active' = active /\ made' = made
  <2>1. /\ jobs # <<>> /\ Head(jobs).kind = "caller"
        /\ call' = [call EXCEPT ![Head(jobs).of] = "done"]
        /\ UNCHANGED <<state, active, made>>
    BY <1>6 DEF RunCaller, Runs
  <2>2. Head(jobs).of \in Calls /\ call[Head(jobs).of] = "returned"
    BY <2>1, HeadJob DEF IInv, JobStatus
  <2>3. QED
    BY <1>1, <2>1, <2>2, InFlightStays DEF CallStates
<1>7. ASSUME RunCloser \/ UNCHANGED vars
      PROVE  /\ InFlight' = InFlight /\ state' = state
             /\ active' = active /\ made' = made
  BY <1>7 DEF RunCloser, vars, InFlight
<1>8. QED
  BY <1>2, <1>3, <1>4, <1>5, <1>6, <1>7 DEF Next, RunJob, Terminated

\* Once a close was requested the work in flight only shrinks.
THEOREM ClosingDrains == Spec => ClosingOnlyDrains
<1>1. IInv /\ NoStrandedCloser /\ [Next]_vars =>
        [state # "open" => /\ InFlight' \subseteq InFlight
                           /\ active' <= active
                           /\ made' = made]_vars
  <2>1. SUFFICES ASSUME IInv, NoStrandedCloser, [Next]_vars, state # "open"
                 PROVE  /\ InFlight' \subseteq InFlight
                        /\ active' <= active
                        /\ made' = made
    OBVIOUS
  <2>2. active \in Nat
    BY <2>1 DEF IInv, TypeOK
  <2>3. QED
    BY <2>1, <2>2, StepSeenFromCalls
<1>2. QED
  BY <1>1, BookkeepingAgrees, NobodyStranded, PTL DEF Spec, ClosingOnlyDrains

\* Every step of the client is a step of ClientLifecycle or leaves its view of
\* the client unchanged (the safety part of ImplementsLifecycle).
THEOREM RefinesLifecycle ==
  Spec => Lifecycle!Init /\ [][Lifecycle!Next]_(Lifecycle!vars)
<1>1. Init => Lifecycle!Init
  BY DEF Init, Lifecycle!Init, InFlight
<1>2. IInv /\ NoStrandedCloser /\ IInv' /\ [Next]_vars =>
        [Lifecycle!Next]_(Lifecycle!vars)
  <2>1. SUFFICES ASSUME IInv, NoStrandedCloser, IInv', [Next]_vars
                 PROVE  Lifecycle!Next \/ UNCHANGED Lifecycle!vars
    OBVIOUS
  <2>2. /\ closePromise = "resolved" <=> state # "open" /\ InFlight = {}
        /\ closePromise' = "resolved" <=> state' # "open" /\ InFlight' = {}
    BY <2>1 DEF IInv, TypeOK, CloseFieldsAgree, CloseNeverOverdue
  <2>3. CASE \E c \in Calls : /\ state = "open" /\ state' = "open"
                              /\ c \notin InFlight
                              /\ InFlight' = InFlight \cup {c}
    BY <2>2, <2>3 DEF Lifecycle!Next, Lifecycle!Admit
  <2>4. CASE \E c \in Calls : /\ c \in InFlight
                              /\ InFlight' = InFlight \ {c}
                              /\ state' # "open" <=> state # "open"
    BY <2>2, <2>4 DEF Lifecycle!Next, Lifecycle!Complete
  <2>5. CASE state = "open" /\ state' # "open" /\ InFlight' = InFlight
    BY <2>2, <2>5 DEF Lifecycle!Next, Lifecycle!Shut
  <2>6. CASE InFlight' = InFlight /\ (state' # "open" <=> state # "open")
    BY <2>2, <2>6 DEF Lifecycle!vars
  <2>7. QED
    BY <2>1, <2>3, <2>4, <2>5, <2>6, StepSeenFromCalls
<1>3. QED
  BY <1>1, <1>2, BookkeepingAgrees, NobodyStranded, PTL DEF Spec

----------------------------------------------------------------------------
(* Who is told of the close, and when *)

Queued(job) == \E i \in 1..Len(jobs) : jobs[i] = job

\* A caller of close() has been told, or is about to be.
Told(w) == closer[w] = "resumed" \/ Queued(CloserJob(w))

ToldWhenResolved == \A w \in Closers : Told(w) => closePromise = "resolved"

\* No job of a caller of close() is new in this step.
NobodyNewTold ==
  \A i \in 1..Len(jobs') : jobs'[i].kind = "closer" => Queued(jobs'[i])

\* An invoke that ends no close appends its own job and no other.
LEMMA OnlyTheCallerAppended ==
  ASSUME NEW s \in Seq(Job), NEW c \in Calls, jobs' = s \o <<CallerJob(c)>>,
         \A i \in 1..Len(s) : Queued(s[i])
  PROVE  NobodyNewTold
<1>1. CallerJob(c) \in Job /\ CallerJob(c).kind # "closer"
  BY DEF CallerJob, Job
<1>2. jobs' = Append(s, CallerJob(c)) /\ Len(s) \in Nat
  BY <1>1, LenProperties
<1>3. Len(jobs') = Len(s) + 1 /\ jobs'[Len(s) + 1] = CallerJob(c)
        /\ \A i \in 1..Len(s) : jobs'[i] = s[i]
  BY <1>1, <1>2, AppendProperties
<1>4. \A i \in 1..Len(jobs') : i \in 1..Len(s) \/ i = Len(s) + 1
  BY <1>2, <1>3
<1>. QED
  BY <1>1, <1>3, <1>4 DEF NobodyNewTold

\* The close promise stays resolved, the step that resolves it is the only
\* one before which nobody is told, and only a queued job resumes a closer.
LEMMA TellingStep ==
  ASSUME IInv, NoStrandedCloser, [Next]_vars
  PROVE  /\ closePromise = "resolved" => closePromise' = "resolved"
         /\ closePromise' = "resolved" \/ NobodyNewTold
         /\ \A w \in Closers : closer'[w] = "resumed" =>
              closer[w] = "resumed" \/ Queued(CloserJob(w))
<1>1. /\ TypeOK /\ JobsMatchCalls
      /\ closePromise = "resolved" <=> state = "closed"
      /\ jobs \in Seq(Job)
  BY DEF IInv, TypeOK, CloseFieldsAgree
<1>2. ASSUME UNCHANGED <<closePromise, jobs, closer>>
      PROVE  /\ closePromise = "resolved" => closePromise' = "resolved"
             /\ NobodyNewTold
             /\ closer' = closer
  BY <1>2 DEF NobodyNewTold, Queued
<1>3. ASSUME NEW c \in Calls, Refuse(c) \/ Invoke(c)
      PROVE  UNCHANGED <<closePromise, jobs, closer>>
  BY <1>3 DEF Refuse, Invoke
<1>4. ASSUME NEW c \in Calls, Settle(c)
      PROVE  UNCHANGED <<closePromise, closer>> /\ NobodyNewTold
  <2>1. UNCHANGED <<closePromise, closer>> /\ jobs' = Append(jobs, FinallyJob(c))
    BY <1>4 DEF Settle
  <2>2. FinallyJob(c) \in Job /\ FinallyJob(c).kind # "closer"
    BY DEF FinallyJob, Job
  <2>3. /\ Len(jobs) \in Nat /\ Len(jobs') = Len(jobs) + 1
        /\ jobs'[Len(jobs) + 1] = FinallyJob(c)
        /\ \A i \in 1..Len(jobs) : jobs'[i] = jobs[i]
    BY <1>1, <2>1, <2>2, AppendProperties, LenProperties
  <2>4. \A i \in 1..Len(jobs') : i \in 1..Len(jobs) \/ i = Len(jobs) + 1
    BY <2>3
  <2>. QED
    BY <2>1, <2>2, <2>3, <2>4 DEF NobodyNewTold, Queued
<1>5. ASSUME NEW c \in Calls, InvokeUnbuildable(c)
      PROVE  UNCHANGED <<closePromise, closer>> /\ NobodyNewTold
  <2>1. ~MayFinish(state, active, closeResolver)
    BY <1>5 DEF InvokeUnbuildable, Admits, MayFinish
  <2>2. Woken(state, active, closeResolver) = <<>>
    BY <2>1 DEF Woken
  <2>3. /\ UNCHANGED <<closePromise, closer>>
        /\ jobs' = jobs \o Append(Woken(state, active, closeResolver), CallerJob(c))
    BY <1>5, <2>1 DEF InvokeUnbuildable, FinishClose
  <2>4. jobs' = jobs \o <<CallerJob(c)>>
    BY <2>2, <2>3
  <2>5. \A i \in 1..Len(jobs) : Queued(jobs[i])
    BY DEF Queued
  <2>. QED
    BY <1>1, <2>3, <2>4, <2>5, OnlyTheCallerAppended
<1>6. ASSUME jobs # <<>> PROVE
        \A i \in 1..Len(Tail(jobs)) : Queued(Tail(jobs)[i])
  BY <1>1, <1>6, HeadJob DEF Queued
<1>7. ASSUME RunFinally
      PROVE  /\ closePromise = "resolved" => closePromise' = "resolved"
             /\ closePromise' = "resolved" \/ NobodyNewTold
             /\ closer' = closer
  <2> DEFINE c == Head(jobs).of
             n == active - 1
  <2>1. /\ jobs # <<>> /\ Head(jobs).kind = "finally" /\ closer' = closer
        /\ FinishClose(state, n, closePromise, closeResolver)
        /\ jobs' = Tail(jobs) \o Append(Woken(state, n, closeResolver), CallerJob(c))
    BY <1>7 DEF RunFinally, Runs
  <2>2. c \in Calls /\ Tail(jobs) \in Seq(Job)
    BY <1>1, <2>1, HeadJob
  <2>3. CASE MayFinish(state, n, closeResolver)
    BY <2>1, <2>3 DEF FinishClose
  <2>4. CASE ~MayFinish(state, n, closeResolver)
    <3>1. closePromise' = closePromise /\ Woken(state, n, closeResolver) = <<>>
      BY <2>1, <2>4 DEF FinishClose, Woken
    <3>2. Append(Woken(state, n, closeResolver), CallerJob(c)) = <<CallerJob(c)>>
      <4>1. \A w, x : w = <<>> => Append(w, x) = <<x>>
        OBVIOUS
      <4>. QED
        BY <3>1, <4>1, Zenon
    <3>3. jobs' = Tail(jobs) \o <<CallerJob(c)>>
      BY <2>1, <3>2, Zenon
    <3>. QED
      BY <1>6, <2>1, <2>2, <3>1, <3>3, OnlyTheCallerAppended
  <2>. QED
    BY <2>3, <2>4
<1>8. ASSUME RunCaller PROVE UNCHANGED <<closePromise, closer>> /\ NobodyNewTold
  BY <1>6, <1>8 DEF RunCaller, Runs, NobodyNewTold
<1>9. ASSUME RunCloser
      PROVE  /\ closePromise' = closePromise /\ NobodyNewTold
             /\ \A w \in Closers : closer'[w] = "resumed" => Told(w)
  <2>1. /\ jobs # <<>> /\ Head(jobs).kind = "closer" /\ closePromise' = closePromise
        /\ jobs' = Tail(jobs)
        /\ closer' = [closer EXCEPT ![Head(jobs).of] = "resumed"]
    BY <1>9 DEF RunCloser, Runs
  <2>2. NobodyNewTold
    BY <1>6, <2>1 DEF NobodyNewTold
  <2>3. 1 \in 1..Len(jobs) /\ jobs[1] = Head(jobs) /\ Head(jobs) \in Job
    BY <1>1, <2>1, HeadJob
  <2>4. Head(jobs) = CloserJob(Head(jobs).of)
    BY <2>1, <2>3 DEF CloserJob, Job
  <2>. QED
    BY <1>1, <2>1, <2>2, <2>3, <2>4 DEF Told, Queued, TypeOK
<1>10. ASSUME NEW w \in Closers, Close(w)
       PROVE  /\ closePromise = "resolved" => closePromise' = "resolved"
              /\ closePromise' = "resolved" \/ NobodyNewTold
              /\ \A v \in Closers : closer'[v] = "resumed" => closer[v] = "resumed"
  <2>1. closePromise' # "resolved" => jobs' = jobs
    BY <1>10 DEF Close
  <2>2. closePromise = "resolved" => closePromise' = closePromise
    BY <1>10 DEF Close, IsFirstClose
  <2>3. closer' = [closer EXCEPT ![w] = "waiting"]
    BY <1>10 DEF Close
  <2>. QED
    BY <1>1, <2>1, <2>2, <2>3 DEF NobodyNewTold, Queued, TypeOK
<1>. QED
  BY <1>2, <1>3, <1>4, <1>5, <1>7, <1>8, <1>9, <1>10
  DEF Next, RunJob, Terminated, vars, Told

LEMMA ToldInTime == Spec => []ToldWhenResolved
<1>1. Init => ToldWhenResolved
  BY DEF Init, ToldWhenResolved, Told, Queued
<1>2. ToldWhenResolved /\ IInv /\ NoStrandedCloser /\ [Next]_vars => ToldWhenResolved'
  <2> SUFFICES ASSUME ToldWhenResolved, IInv, NoStrandedCloser, [Next]_vars,
                      NEW w \in Closers, Told(w)'
               PROVE  closePromise' = "resolved"
    BY DEF ToldWhenResolved
  <2>1. CASE closer'[w] = "resumed"
    BY <2>1, TellingStep DEF ToldWhenResolved, Told
  <2>2. CASE closer'[w] # "resumed"
    <3>1. PICK i \in 1..Len(jobs') : jobs'[i] = CloserJob(w)
      BY <2>2 DEF Told, Queued, CloserJob
    <3>2. jobs'[i].kind = "closer"
      BY <3>1 DEF CloserJob
    <3>3. NobodyNewTold => Queued(CloserJob(w))
      BY <3>1, <3>2 DEF NobodyNewTold
    <3>. QED
      BY <3>3, TellingStep DEF ToldWhenResolved, Told
  <2>. QED
    BY <2>1, <2>2
<1>. QED
  BY <1>1, <1>2, BookkeepingAgrees, NobodyStranded, PTL DEF Spec

\* A program whose close() has resumed (or whose resumption is queued) has a
\* client none of whose calls is in the hands of a transport any more: this
\* much of "after already admitted work completes" (client.ts 458) the order
\* of invoke and close guarantees.
THEOREM ToldOnlyWhenDrained ==
  Spec => [](\A w \in Closers : Told(w) => InFlight = {} /\ transport = "none")
<1>1. ToldWhenResolved /\ IInv =>
        \A w \in Closers : Told(w) => InFlight = {} /\ transport = "none"
  BY DEF ToldWhenResolved, IInv, TypeOK, CloseFieldsAgree, CloseNeverOverdue, TransportLifetime
<1>. QED
  BY <1>1, BookkeepingAgrees, ToldInTime, PTL

\* The step that resolves the close promise is the finally block of the last
\* admitted call, and it queues every closer that waits ahead of the code that
\* awaits that call (client.ts 149-153, 177).
ClosersFirst ==
  closePromise = "pending" /\ closePromise' = "resolved" =>
    \E c \in Calls :
      /\ call[c] = "settled" /\ call'[c] = "returned"
      /\ \E last \in 1..Len(jobs') :
           /\ jobs'[last] = CallerJob(c)
           /\ \A w \in Closers : closer[w] = "waiting" =>
                \E i \in 1..Len(jobs') : i < last /\ jobs'[i] = CloserJob(w)

\* Whoever awaits close() runs before whoever awaits the last admitted call.
THEOREM ClosersGoFirst == Spec => [][ClosersFirst]_vars
<1>1. IInv /\ NoStrandedCloser /\ ToldWhenResolved /\ [Next]_vars => [ClosersFirst]_vars
  <2> SUFFICES ASSUME IInv, NoStrandedCloser, ToldWhenResolved, [Next]_vars,
                      closePromise = "pending", closePromise' = "resolved"
               PROVE  ClosersFirst
    BY DEF ClosersFirst
  <2>1. RunFinally
    <3>1. ASSUME NEW c \in Calls, InvokeUnbuildable(c) PROVE FALSE
      BY <3>1 DEF InvokeUnbuildable, Admits, FinishClose, MayFinish
    <3>2. ASSUME NEW w \in Closers, Close(w) PROVE FALSE
      BY <3>2 DEF Close, IsFirstClose
    <3>3. ASSUME UNCHANGED closePromise PROVE FALSE
      BY <3>3
    <3>. QED
      BY <3>1, <3>2, <3>3 DEF Next, RunJob, Terminated, vars, Refuse, Invoke, Settle,
                              RunCaller, RunCloser
  <2> DEFINE c == Head(jobs).of
             n == active - 1
             rest == Tail(jobs)
             t == Append(Woken(state, n, closeResolver), CallerJob(c))
  <2>2. /\ jobs # <<>> /\ Head(jobs).kind = "finally"
        /\ FinishClose(state, n, closePromise, closeResolver)
        /\ call' = [call EXCEPT ![c] = "returned"]
        /\ jobs' = rest \o t
    BY <2>1 DEF RunFinally, Runs
  <2>3. c \in Calls /\ call[c] = "settled" /\ rest \in Seq(Job) /\ Len(rest) \in Nat
    BY <2>2, HeadJob DEF IInv, JobStatus
  <2>4. MayFinish(state, n, closeResolver)
    BY <2>2 DEF FinishClose
  <2>5. /\ t \in Seq(Job) /\ Len(t) \in Nat \ {0} /\ t[Len(t)] = CallerJob(c)
        /\ \A i \in 1..Len(waiters) : i \in 1..Len(t) /\ t[i] = CloserJob(waiters[i])
    BY <2>3, <2>4, AppendedByInvoke DEF IInv
  <2>6. call'[c] = "returned"
    BY <2>2, <2>3 DEF IInv, TypeOK
  <2> HIDE DEF c, n, rest, t
  <2>7. \A i \in 1..Len(t) :
          Len(rest) + i \in 1..Len(jobs') /\ jobs'[Len(rest) + i] = t[i]
    BY <2>2, <2>3, <2>5, AppendedJobs
  <2>8. Len(t) \in 1..Len(t)
    BY <2>5
  <2>9. ASSUME NEW w \in Closers, closer[w] = "waiting"
        PROVE  \E i \in 1..Len(jobs') : i < Len(rest) + Len(t) /\ jobs'[i] = CloserJob(w)
    <3>1. ~Queued(CloserJob(w))
      BY DEF ToldWhenResolved, Told
    <3>2. PICK i \in 1..Len(waiters) : waiters[i] = w
      BY <2>9, <3>1 DEF NoStrandedCloser, Queued
    <3>3. i \in 1..Len(t) /\ t[i] = CloserJob(w)
      BY <2>5, <3>2
    <3>4. t[i] # t[Len(t)]
      BY <2>5, <3>3 DEF CloserJob, CallerJob
    <3>5. i # Len(t)
      BY <3>4
    <3>6. Len(rest) + i < Len(rest) + Len(t)
      BY <2>3, <2>5, <3>3, <3>5
    <3>. QED
      BY <2>7, <3>3, <3>6
  <2>. QED
    BY <2>3, <2>5, <2>6, <2>7, <2>8, <2>9 DEF ClosersFirst
<1>. QED
  BY <1>1, BookkeepingAgrees, NobodyStranded, ToldInTime, PTL DEF Spec

----------------------------------------------------------------------------
(* The configuration of a client *)

(* What is said of a setting, the most authoritative first: the option,    *)
(* the variables in the order of their names, the file.                    *)
Voices(option, names, env, inFile) ==
  [i \in 1..Len(names) + 2 |-> IF i = 1 THEN option
                               ELSE IF i = Len(names) + 2 THEN inFile
                               ELSE env[names[i - 1]]]

(* The first that is there decides, whatever it says; the default does if  *)
(* there is none.                                                          *)
Decides(i, voices) ==
  i \in DOMAIN voices /\ voices[i] # Unset /\ \A j \in DOMAIN voices : j < i => voices[j] = Unset

IsSaid(value, voices, default) ==
  \/ \E i \in DOMAIN voices : Decides(i, voices) /\ value = voices[i]
  \/ (\A i \in DOMAIN voices : voices[i] = Unset) /\ value = default

\* A set of numbers has a least one.
LEMMA LeastNumber ==
  ASSUME NEW S, S \subseteq Nat, S # {}
  PROVE  \E i \in S : \A j \in S : i <= j
<1> DEFINE Less == {p \in Nat \X Nat : p[1] < p[2]}
<1>1. IsWellFoundedOn(Less, Nat)
  BY NatLessThanWellFounded, Zenon DEF OpToRel
<1>2. \A i, j \in Nat : i < j => <<i, j>> \in Less
  OBVIOUS
<1> HIDE DEF Less
<1>3. PICK i \in S : \A j \in S : <<j, i>> \notin Less
  BY <1>1, WFMin
<1>4. ASSUME NEW j \in S PROVE i <= j
  <2>1. i \in Nat /\ j \in Nat /\ <<j, i>> \notin Less
    BY <1>3
  <2>. QED
    BY <1>2, <2>1
<1>. QED
  BY <1>4

\* The variable that is read is the first that is set.
LEMMA FirstIsSelected ==
  ASSUME NEW S, NEW names \in Seq(S), NEW env
  PROVE  LET fromEnv == selectBrandedEnv(names, env)
         IN \/ fromEnv.value = Unset /\ \A i \in DOMAIN names : env[names[i]] = Unset
            \/ \E i \in DOMAIN names :
                 /\ env[names[i]] # Unset /\ fromEnv.value = env[names[i]]
                 /\ \A j \in DOMAIN names : j < i => env[names[j]] = Unset
<1> DEFINE set == SetNames(names, env)
           first == CHOOSE i \in set : \A j \in set : i <= j
           fromEnv == selectBrandedEnv(names, env)
<1>1. DOMAIN names \subseteq Nat /\ set = {i \in DOMAIN names : env[names[i]] # Unset}
  BY LenProperties DEF SetNames
<1>2. CASE set = {}
  <2>1. fromEnv.value = Unset
    BY <1>2 DEF selectBrandedEnv
  <2>. QED
    BY <1>1, <1>2, <2>1
<1>3. CASE set # {}
  <2>1. first \in set /\ \A j \in set : first <= j
    BY <1>1, <1>3, LeastNumber
  <2>2. fromEnv.value = env[names[first]]
    BY <1>3 DEF selectBrandedEnv
  <2> HIDE DEF first, set, fromEnv
  <2>3. \A j \in DOMAIN names : j < first => env[names[j]] = Unset
    BY <1>1, <2>1
  <2>. QED
    BY <1>1, <2>1, <2>2, <2>3 DEF fromEnv
<1>. QED
  BY <1>2, <1>3

\* What is selected is what the most authoritative says.
LEMMA SelectedIsSaid ==
  ASSUME NEW S, NEW names \in Seq(S), NEW option, NEW env, NEW inFile, NEW default
  PROVE  IsSaid(Selected(option, names, env, inFile, default).value,
                Voices(option, names, env, inFile), default)
<1> DEFINE fromEnv == selectBrandedEnv(names, env)
           voices == Voices(option, names, env, inFile)
           value == Selected(option, names, env, inFile, default).value
           n == Len(names)
<1>1. n \in Nat /\ DOMAIN names = 1..n
  BY LenProperties
<1>2. /\ option # Unset => value = option
      /\ option = Unset /\ fromEnv.value # Unset => value = fromEnv.value
      /\ option = Unset /\ fromEnv.value = Unset /\ inFile # Unset => value = inFile
      /\ option = Unset /\ fromEnv.value = Unset /\ inFile = Unset => value = default
  BY DEF Selected
<1>3. \/ fromEnv.value = Unset /\ \A i \in DOMAIN names : env[names[i]] = Unset
      \/ \E i \in DOMAIN names : /\ env[names[i]] # Unset /\ fromEnv.value = env[names[i]]
                                 /\ \A j \in DOMAIN names : j < i => env[names[j]] = Unset
  BY FirstIsSelected
<1>4. /\ DOMAIN voices = 1..n + 2 /\ voices[1] = option /\ voices[n + 2] = inFile
      /\ \A i \in 1..n : voices[i + 1] = env[names[i]]
  BY <1>1 DEF Voices
<1>5. \A i \in DOMAIN voices :
        i = 1 \/ i = n + 2 \/ (i - 1 \in 1..n /\ voices[i] = env[names[i - 1]])
  BY <1>1, <1>4
<1> HIDE DEF fromEnv, voices, value, n
<1>6. CASE option # Unset
  <2>1. Decides(1, voices)
    BY <1>1, <1>4, <1>6 DEF Decides
  <2>. QED
    BY <1>1, <1>2, <1>4, <1>6, <2>1 DEF IsSaid, voices, value
<1>7. CASE option = Unset /\ fromEnv.value # Unset
  <2>1. PICK i \in 1..n : /\ env[names[i]] # Unset /\ fromEnv.value = env[names[i]]
                          /\ \A j \in 1..n : j < i => env[names[j]] = Unset
    BY <1>1, <1>3, <1>7
  <2>2. i + 1 \in DOMAIN voices /\ voices[i + 1] = value /\ value # Unset
    BY <1>1, <1>2, <1>4, <1>7, <2>1
  <2>3. ASSUME NEW j \in DOMAIN voices, j < i + 1 PROVE voices[j] = Unset
    BY <1>1, <1>4, <1>5, <1>7, <2>1, <2>3
  <2>4. Decides(i + 1, voices)
    BY <2>2, <2>3 DEF Decides
  <2>. QED
    BY <2>2, <2>4 DEF IsSaid, voices, value
<1>8. CASE option = Unset /\ fromEnv.value = Unset
  <2>1. \A i \in 1..n : env[names[i]] = Unset
    BY <1>1, <1>3, <1>8
  <2>2. \A j \in DOMAIN voices : j # n + 2 => voices[j] = Unset
    BY <1>4, <1>5, <1>8, <2>1
  <2>3. CASE inFile # Unset
    <3>1. n + 2 \in DOMAIN voices /\ \A j \in DOMAIN voices : j < n + 2 => j # n + 2
      BY <1>1, <1>4
    <3>2. Decides(n + 2, voices)
      BY <1>4, <2>2, <2>3, <3>1 DEF Decides
    <3>. QED
      BY <1>2, <1>4, <1>8, <2>3, <3>1, <3>2 DEF IsSaid, voices, value
  <2>4. CASE inFile = Unset
    BY <1>2, <1>4, <1>8, <2>2, <2>4 DEF IsSaid, voices, value
  <2>. QED
    BY <2>3, <2>4
<1>. QED
  BY <1>6, <1>7, <1>8

\* Only one value is said.
LEMMA OneIsSaid ==
  ASSUME NEW n \in Nat, NEW voices, DOMAIN voices = 1..n, NEW default, NEW v, NEW w,
         IsSaid(v, voices, default), IsSaid(w, voices, default)
  PROVE  v = w
<1>1. \A i, j \in 1..n : i < j \/ j < i \/ i = j
  OBVIOUS
<1>2. \A i, j \in 1..n : Decides(i, voices) /\ Decides(j, voices) => i = j
  BY <1>1 DEF Decides
<1>. QED
  BY <1>2 DEF IsSaid, Decides

LEMMA BrandsAreNames == WIRE_BRANDS \in Seq({"cuna", "runa"})
BY DEF WIRE_BRANDS

(* A present value decides, valid or not: a client is configured exactly   *)
(* when the file can be read and the most authoritative value of either    *)
(* setting is a valid one, and then with these values; whatever the        *)
(* options, the environment and the file say further down                  *)
(* (config.ts 102-118, 277-317).                                           *)
THEOREM PresentDecides ==
  ASSUME NEW options, NEW keyEnv, NEW urlEnv, NEW file, NEW key, NEW url,
         IsSaid(key, Voices(options.apiKey, WIRE_BRANDS, keyEnv, file.api_key), Unset),
         IsSaid(url, Voices(options.baseUrl, WIRE_BRANDS, urlEnv, file.base_url),
                DEFAULT_BASE_URL)
  PROVE  LET outcome == resolveConfig(options, keyEnv, urlEnv, file)
         IN /\ outcome.failed = ~(Readable(file) /\ validApiKey(key) /\ acceptedBaseUrl(url))
            /\ ~outcome.failed => /\ outcome.apiKey = key
                                  /\ outcome.baseUrl = normalizeBaseUrl(url)
<1> DEFINE theKey == Selected(options.apiKey, WIRE_BRANDS, keyEnv, file.api_key, Unset)
           theUrl == Selected(options.baseUrl, WIRE_BRANDS, urlEnv, file.base_url,
                              DEFAULT_BASE_URL)
           outcome == resolveConfig(options, keyEnv, urlEnv, file)
<1>1. Len(WIRE_BRANDS) \in Nat
  BY BrandsAreNames
<1>2. theKey.value = key
  <2> DEFINE voices == Voices(options.apiKey, WIRE_BRANDS, keyEnv, file.api_key)
  <2>1. DOMAIN voices = 1..Len(WIRE_BRANDS) + 2 /\ Len(WIRE_BRANDS) + 2 \in Nat
    BY <1>1 DEF Voices
  <2>2. IsSaid(theKey.value, voices, Unset)
    BY BrandsAreNames, SelectedIsSaid
  <2> HIDE DEF voices, theKey
  <2>3. IsSaid(key, voices, Unset)
    BY DEF voices
  <2>. QED
    BY <2>1, <2>2, <2>3, OneIsSaid
<1>3. theUrl.value = url
  <2> DEFINE voices == Voices(options.baseUrl, WIRE_BRANDS, urlEnv, file.base_url)
  <2>1. DOMAIN voices = 1..Len(WIRE_BRANDS) + 2 /\ Len(WIRE_BRANDS) + 2 \in Nat
    BY <1>1 DEF Voices
  <2>2. IsSaid(theUrl.value, voices, DEFAULT_BASE_URL)
    BY BrandsAreNames, SelectedIsSaid
  <2> HIDE DEF voices, theUrl
  <2>3. IsSaid(url, voices, DEFAULT_BASE_URL)
    BY DEF voices
  <2>. QED
    BY <2>1, <2>2, <2>3, OneIsSaid
<1> HIDE DEF theKey, theUrl
<1>4. CASE ~(Readable(file) /\ validApiKey(key) /\ acceptedBaseUrl(url))
  BY <1>2, <1>3, <1>4 DEF resolveConfig, ConfigError, theKey, theUrl
<1>5. CASE Readable(file) /\ validApiKey(key) /\ acceptedBaseUrl(url)
  BY <1>2, <1>3, <1>5 DEF resolveConfig, theKey, theUrl
<1>. QED
  BY <1>4, <1>5
============================================================================
