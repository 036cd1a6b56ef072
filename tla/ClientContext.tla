--------------------------- MODULE ClientContext ---------------------------
(***************************************************************************)
(* One Cuna client: ClientContext of src/client.ts, with the part of the   *)
(* JavaScript run time its close depends on.                               *)
(*                                                                         *)
(* JavaScript runs one thing at a time.  A promise that settles does not   *)
(* run its reactions: it appends one job per reaction to a FIFO queue, and *)
(* jobs run one by one.  Every action below is one uninterrupted run of    *)
(* code: a user's call of an operation or of close, the settling of a      *)
(* transport request, or one job.  User code runs between jobs (from its   *)
(* own continuations and from observability hooks), so a call of an        *)
(* operation or of close may come at any point of the queue.               *)
(***************************************************************************)
EXTENDS Naturals, Sequences, FiniteSets

CONSTANTS
  Calls,        \* calls of client operations, each made at most once
  Closers,      \* callers of close() that await the promise they get
  FetchMissing  \* BOOLEAN: may building a transport throw (no fetch at hand)?

ASSUME CallsAssumption == IsFiniteSet(Calls)
ASSUME FetchMissingAssumption == FetchMissing \in BOOLEAN

VARIABLES
  state,          \* #state
  active,         \* #active
  transport,      \* #transport: "none" is undefined
  made,           \* transports built so far
  released,       \* calls of transport.close() so far
  closePromise,   \* #closePromise: undefined ("none"), "pending" or "resolved"
  closeResolver,  \* #closeResolver is defined
  waiters,        \* reactions registered on the pending #closePromise, in order
  jobs,           \* the run time's queue of promise jobs
  call,           \* how far each call has come
  closer          \* how far each caller of close() has come

vars == <<state, active, transport, made, released, closePromise,
          closeResolver, waiters, jobs, call, closer>>

FinallyJob(c) == [kind |-> "finally", of |-> c]   \* invoke resumes after execute
CallerJob(c)  == [kind |-> "caller", of |-> c]    \* the code that awaits invoke
CloserJob(w)  == [kind |-> "closer", of |-> w]    \* the code that awaits close()

Job == [kind : {"finally", "caller"}, of : Calls]
         \cup [kind : {"closer"}, of : Closers]

(***************************************************************************)
(* A call is "executing" while the transport works on it, "settled" when   *)
(* execute's promise is settled and invoke has yet to run its finally      *)
(* block, "returned" when invoke's own promise is settled and the manager  *)
(* or handle that awaits it has yet to run, "done" after that.             *)
(***************************************************************************)
CallStates == {"idle", "refused", "executing", "settled", "returned", "done"}

InFlight == {c \in Calls : call[c] \in {"executing", "settled"}}

TypeOK ==
  /\ state \in {"open", "closing", "closed"}
  /\ active \in Nat
  /\ transport \in {"none", "live"}
  /\ made \in Nat
  /\ released \in Nat
  /\ closePromise \in {"none", "pending", "resolved"}
  /\ closeResolver \in BOOLEAN
  /\ waiters \in Seq(Closers)
  /\ jobs \in Seq(Job)
  /\ call \in [Calls -> CallStates]
  /\ closer \in [Closers -> {"idle", "waiting", "resumed"}]

Init ==
  /\ state = "open"
  /\ active = 0
  /\ transport = "none"
  /\ made = 0
  /\ released = 0
  /\ closePromise = "none"
  /\ closeResolver = FALSE
  /\ waiters = <<>>
  /\ jobs = <<>>
  /\ call = [c \in Calls |-> "idle"]
  /\ closer = [w \in Closers |-> "idle"]

----------------------------------------------------------------------------
(* #finishClose, reached from close and from every invoke's finally block  *)

\* Mutants: finish without waiting for active work; miscount the active work.
MayFinishEager(st, n, resolver) == st = "closing" /\ resolver
MayFinishOffByOne(st, n, resolver) == st = "closing" /\ n <= 1 /\ resolver

MayFinish(st, n, resolver) ==
  /\ st = "closing"
  /\ n = 0
  /\ resolver

\* Mutant: the transport is dropped without being closed.
ReleaseForgotten == UNCHANGED released

Release == released' = IF transport = "live" THEN released + 1 ELSE released

FinishClose(st, n, promise, resolver) ==
  IF MayFinish(st, n, resolver)
  THEN /\ Release
       /\ transport' = "none"
       /\ state' = "closed"
       /\ closePromise' = "resolved"
       /\ closeResolver' = FALSE
  ELSE /\ state' = st
       /\ closePromise' = promise
       /\ closeResolver' = resolver
       /\ UNCHANGED <<transport, released>>

\* Mutant: the resolver is cleared before it is called, and wakes nobody.
WokenNever(st, n, resolver) == <<>>

\* The reaction jobs that resolving the close promise queues.
Woken(st, n, resolver) ==
  IF MayFinish(st, n, resolver)
  THEN [i \in 1..Len(waiters) |-> CloserJob(waiters[i])]
  ELSE <<>>

----------------------------------------------------------------------------
(* invoke, up to its await *)

\* Mutants of the admission guard and of the lazy transport.
AdmitsUntilClosed == state # "closed"
AdmitsAlways == TRUE
BuildTransportAgain == made' = made + 1 /\ transport' = "live"

Admits == state = "open"

BuildTransport ==
  /\ made' = IF transport = "none" THEN made + 1 ELSE made
  /\ transport' = "live"

\* The guard fails: invoke rejects with a TypeError and changes nothing.
Refuse(c) ==
  /\ call[c] = "idle"
  /\ ~Admits
  /\ call' = [call EXCEPT ![c] = "refused"]
  /\ UNCHANGED <<state, active, transport, made, released, closePromise,
                 closeResolver, waiters, jobs, closer>>

\* The call is admitted and handed to the transport, built on first use.
Invoke(c) ==
  /\ call[c] = "idle"
  /\ Admits
  /\ active' = active + 1
  /\ BuildTransport
  /\ call' = [call EXCEPT ![c] = "executing"]
  /\ UNCHANGED <<state, released, closePromise, closeResolver, waiters, jobs,
                 closer>>

\* Building the transport throws: the finally block runs at once, active is
\* back where it was, and invoke's promise is rejected.
InvokeUnbuildable(c) ==
  /\ call[c] = "idle"
  /\ Admits
  /\ FetchMissing
  /\ transport = "none"
  /\ FinishClose(state, active, closePromise, closeResolver)
  /\ call' = [call EXCEPT ![c] = "returned"]
  /\ jobs' = jobs \o Append(Woken(state, active, closeResolver), CallerJob(c))
  /\ UNCHANGED <<active, made, waiters, closer>>

\* The transport settles the promise of execute, either way.
Settle(c) ==
  /\ call[c] = "executing"
  /\ call' = [call EXCEPT ![c] = "settled"]
  /\ jobs' = Append(jobs, FinallyJob(c))
  /\ UNCHANGED <<state, active, transport, made, released, closePromise,
                 closeResolver, waiters, closer>>

----------------------------------------------------------------------------
(* The jobs *)

Runs(kind) == jobs # <<>> /\ Head(jobs).kind = kind

\* Mutant: the finally block does not look whether a close is waiting.
RunFinallyForgetful ==
  /\ Runs("finally")
  /\ LET c == Head(jobs).of
     IN  /\ active' = active - 1
         /\ call' = [call EXCEPT ![c] = "returned"]
         /\ jobs' = Append(Tail(jobs), CallerJob(c))
  /\ UNCHANGED <<state, transport, made, released, closePromise,
                 closeResolver, waiters, closer>>

\* invoke resumes: its finally block, then its own promise settles.  The
\* reactions of the close promise are queued before that of invoke's own.
RunFinally ==
  /\ Runs("finally")
  /\ LET c == Head(jobs).of
         n == active - 1
     IN  /\ active' = n
         /\ FinishClose(state, n, closePromise, closeResolver)
         /\ waiters' = IF MayFinish(state, n, closeResolver)
                       THEN <<>> ELSE waiters
         /\ call' = [call EXCEPT ![c] = "returned"]
         /\ jobs' = Tail(jobs) \o
                      Append(Woken(state, n, closeResolver), CallerJob(c))
  /\ UNCHANGED <<made, closer>>

\* The code that awaited invoke resumes: a manager checks the result and
\* hands it on, a session handle replaces its snapshot.
RunCaller ==
  /\ Runs("caller")
  /\ call' = [call EXCEPT ![Head(jobs).of] = "done"]
  /\ jobs' = Tail(jobs)
  /\ UNCHANGED <<state, active, transport, made, released, closePromise,
                 closeResolver, waiters, closer>>

\* The code that awaited close() resumes.
RunCloser ==
  /\ Runs("closer")
  /\ closer' = [closer EXCEPT ![Head(jobs).of] = "resumed"]
  /\ jobs' = Tail(jobs)
  /\ UNCHANGED <<state, active, transport, made, released, closePromise,
                 closeResolver, waiters, call>>

----------------------------------------------------------------------------
(* close *)

\* Mutant: an idle client's close leaves the finishing to invoke.
FirstCloseLazy ==
  /\ state' = "closing"
  /\ closePromise' = "pending"
  /\ closeResolver' = TRUE
  /\ UNCHANGED <<transport, released>>

FirstClose == FinishClose("closing", active, "pending", TRUE)

IsFirstClose == closePromise = "none"

\* close() and the await of the promise it returns.
Close(w) ==
  /\ closer[w] = "idle"
  /\ closer' = [closer EXCEPT ![w] = "waiting"]
  /\ IF IsFirstClose
     THEN FirstClose
     ELSE UNCHANGED <<state, transport, released, closePromise, closeResolver>>
  /\ IF closePromise' = "resolved"
     THEN jobs' = Append(jobs, CloserJob(w)) /\ UNCHANGED waiters
     ELSE waiters' = Append(waiters, w) /\ UNCHANGED jobs
  /\ UNCHANGED <<active, made, call>>

----------------------------------------------------------------------------

RunJob == RunFinally \/ RunCaller \/ RunCloser

\* Every program stops calling: nothing is left to happen.
Terminated ==
  /\ \A c \in Calls : call[c] \in {"refused", "done"}
  /\ \A w \in Closers : closer[w] = "resumed"
  /\ UNCHANGED vars

Next ==
  \/ \E c \in Calls :
       Refuse(c) \/ Invoke(c) \/ InvokeUnbuildable(c) \/ Settle(c)
  \/ \E w \in Closers : Close(w)
  \/ RunJob
  \/ Terminated

Spec == Init /\ [][Next]_vars

(***************************************************************************)
(* The run time runs every queued job, and the transport settles every     *)
(* request (FetchTransport, whose deadlines end even a silent server).     *)
(***************************************************************************)
Fairness == WF_vars(RunJob) /\ \A c \in Calls : WF_vars(Settle(c))

FairSpec == Spec /\ Fairness

----------------------------------------------------------------------------
(* Properties *)

\* No call is in the hands of a transport that was closed or never built:
\* client.ts closes the transport only when #active is back to zero.
NoUseAfterRelease == InFlight # {} => transport = "live"

\* One transport is built per client at most, however calls, failures and
\* closes interleave, it is closed exactly once, and a closed client holds
\* none (client.ts 142-146 and 172-174).
TransportReleasedOnce ==
  /\ made <= 1
  /\ released <= made
  /\ state = "closed" => transport = "none" /\ released = made

\* The close promise is resolved exactly when the client has been asked to
\* close and none of the calls it admitted is in flight (client.ts 154-178):
\* it is neither early nor lost.
CloseResolvedExactlyWhenIdle ==
  closePromise = "resolved" <=> state # "open" /\ InFlight = {}

\* A caller of close() whose await is pending is registered on an unresolved
\* promise or has its continuation in the queue: no wakeup is lost, whether
\* it called before, during or after the close (client.ts 155, 157-161).
NoStrandedCloser ==
  \A w \in Closers : closer[w] = "waiting" =>
    \/ /\ closePromise = "pending"
       /\ \E i \in 1..Len(waiters) : waiters[i] = w
    \/ \E i \in 1..Len(jobs) : jobs[i] = CloserJob(w)

\* Nothing is admitted, built or counted once a close was requested
\* (client.ts 137-139): the work in flight only shrinks.
ClosingOnlyDrains ==
  [][state # "open" => /\ InFlight' \subseteq InFlight
                       /\ active' <= active
                       /\ made' = made]_vars

\* Every caller of close() resumes.
EveryCloserResumes ==
  \A w \in Closers : closer[w] = "waiting" ~> closer[w] = "resumed"

\* The parts of the inductive invariant behind the four invariants above.
\* #active counts the calls in flight; a settled call has one finally job in
\* the queue and a returned one has one caller job, and no other call has any;
\* the three fields that record a close agree; a close that can finish has
\* finished; the only transport lives from the first admitted call to the end
\* of the close.
ActiveCountsInFlight == active = Cardinality(InFlight)

JobStatus(j) == IF j.kind = "finally" THEN "settled" ELSE "returned"

JobsMatchCalls ==
  \A i \in 1..Len(jobs) : jobs[i].kind # "closer" =>
    /\ call[jobs[i].of] = JobStatus(jobs[i])
    /\ \A j \in 1..Len(jobs) : jobs[j] = jobs[i] => i = j

CloseFieldsAgree ==
  /\ closePromise = "none" <=> state = "open"
  /\ closePromise = "pending" <=> state = "closing"
  /\ closeResolver <=> state = "closing"
  /\ state = "open" => waiters = <<>>

CloseNeverOverdue ==
  /\ state = "closing" => InFlight # {}
  /\ state = "closed" => InFlight = {}

TransportLifetime ==
  /\ state = "closed" => transport = "none" /\ released = made /\ made <= 1
  /\ state # "closed" => released = 0
  /\ state # "closed" /\ transport = "none" => made = 0 /\ InFlight = {}
  /\ state # "closed" /\ transport = "live" => made = 1

IInv ==
  /\ TypeOK
  /\ ActiveCountsInFlight
  /\ JobsMatchCalls
  /\ CloseFieldsAgree
  /\ CloseNeverOverdue
  /\ TransportLifetime

\* The detailed client implements the promise of ClientLifecycle.
Lifecycle == INSTANCE ClientLifecycle WITH
  admitting <- (state = "open"),
  inflight  <- InFlight,
  finished  <- (closePromise = "resolved")

ImplementsLifecycle == Lifecycle!Spec

============================================================================
