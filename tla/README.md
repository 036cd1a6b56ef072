# Formal models of the Cuna TypeScript SDK

This directory models the part of `@cuna_labs/sdk` that is hard to test: what
happens when calls, timers, cancellations, late answers and `close()` meet in an
order nobody wrote a test for, whether what two hands wrote of one wire contract
agrees, and what the release workflow leaves behind when its jobs stop and are
run again. Line numbers below are those of the files under
`src/` of the repository unless another directory is named.

Run a model with `tlc -config ClientSafety.cfg MCClientContext`, a proof with
`tlapm ClientContextProofs.tla`.

## The system

The SDK is a client library for one HTTP API; beside it, the repository holds the
workflow that releases it. The SDK has no threads and no storage.
Concurrency is that of the JavaScript run time: one piece of code runs at a
time, an `await` is a point where anything else may run, a settled promise
queues its reactions in a FIFO queue of jobs, and timers run between jobs.

| Component | State | Operations | Interacts with |
| --- | --- | --- | --- |
| `ClientContext` (`client.ts` 121-179) | `#state`, `#active`, `#transport`, `#closePromise`, `#closeResolver` | `invoke`, `close`, `#finishClose` | builds and closes the transport; every manager and handle calls `invoke` |
| `FetchTransport` (`internal/transport.ts`) | per call: attempt, deadlines, `AbortController`, timer, listener, body reader | `execute` (`prepare`, `disposition`, `readLimited`, sleep, retry) | `fetch`, the caller's `AbortSignal`, timers, the observer |
| `OperationObserver` (`internal/observer.ts`) | per call: the span | `start`, `attempt`, `retry`, `end` | caller-supplied diagnostics and tracing hooks, whose code may call back |
| `Session` (`session.ts`) | `#snapshot` | `refresh`, `start`, `pause`, `resume`, `stop` (through `#replace`); `delete`, `open`, `exec`, ... without state | `invoke` |
| Session manager (`client.ts` 188-321) | none; the server keys creations by `Idempotency-Key` | `create`, `list`, `get` | `invoke`, `Session` |
| Agent sessions, workspace bindings, machine creates, workspace sync | none of their own; the caller's options are live objects | validate, `invoke`, compare the answer with the request | `invoke` |
| Configuration (`config.ts`) | none | `resolveConfig` | environment, file |
| Generated contract (`internal/contract/`) | none | the schemas of the wire, the table of operations | the transport reads the table; nothing reads the schemas |
| Decoders, errors, sanitising, brand names | none | pure | the transport |
| Boundary policy (`internal/boundary-policy.ts`) | none | `containsProhibitedMarker` | sanitising |
| Test seams (`internal/test-seams.ts`) | the installed factory and observer | installers, default transport, random numbers | `ClientContext` |
| Release workflow (`.github/workflows/release.yml`, `scripts/`) | the workspaces stored between jobs; the tag, the GitHub release, the registry | six jobs: phase A, sign the tag, admit, stage, publish, promote | the authority's run, the registry, GitHub; jobs that stop and are run again |
| Release checks (readiness, authority import, post-publication, recovery) | none | gates of the jobs | files in the workspace, the services |

What is hard in each, and the properties that make it correct:

* **Client context.** `close()` may be called at any point, also from a
  continuation that runs while the last call is on its way out. The transport
  must outlive every admitted call, be released exactly once, and every caller
  of `close()` must resume.
* **Transport.** A timer, the caller's cancellation, the response and the end
  of its body race with each other; a failed attempt may have reached the
  server. Writes must not be repeated, a cancelled call must never return a
  result, deadlines must hold with retries in them, and nothing (timer,
  listener, body) may be left behind.
* **Session handle.** Two operations that overlap apply their answers in the
  order these arrive. The server may carry out a request whose call failed.
* **Creation.** A program repeats a call whose answer was lost.
* **Other managers.** What is read again after an `await` may have changed, so
  which request an accepted answer belongs to is not a matter of course.
* **Workspace synchronisation.** A sequence of calls, each with a key and an
  answer that names what it is about. A request may be served late or twice, its
  answer lost; an answer of another page, chunk or commit is as well formed as
  the right one; other machines commit meanwhile.
* **Wire contract.** The contract is generated, the decoders and the validators
  of arguments are handwritten, and nothing connects them. A limit that is one
  off in either direction shows only with a value at that limit.
* **Boundary policy.** Words are recognised by a rolling hash; some count
  anywhere and some only as tokens.
* **Configuration.** A present value must decide even if it is invalid.
* **Agent authentication.** Evidence about one process arrives late, is judged
  by another clock than the one that dated it, and the process may be gone.
* **Release workflow.** A job may stop between two steps and be run again; what
  it did outside stays. Meanwhile `main` moves on, the authority attempts its
  run again, evidence expires and others publish. What is public in the end must
  be what was admitted.

## Modules

| Module | Models | Role |
| --- | --- | --- |
| `ClientLifecycle` | what closing promises | abstract specification |
| `ClientContext` | `client.ts` 121-179 and the run time's job queue | component |
| `ClientContextProofs` | | inductive invariant, safety, refinement, who is told of a close; the precedence of `ConfigResolution` |
| `FetchTransport` | `internal/transport.ts` 144-606, `internal/observer.ts` 75-180 | component |
| `FetchTransportProofs` | | inductive invariant, safety, the length of a call, the sampling of `Backoff` |
| `SessionHandle` | `session.ts` 86-200 with the server and the network | component |
| `SessionHandleProofs` | | inductive invariant, action properties |
| `SessionCreate` | `client.ts` 188-299 with the server | component |
| `SessionCreateProofs` | | inductive invariant, safety |
| `GenerationLog` | what synchronising a workspace promises | abstract specification |
| `WorkspaceSync` | `workspace-sync.ts` 282-466 with the service and the network | component |
| `WorkspaceSyncProofs` | | inductive invariant, safety, refinement |
| `EchoChecks` | the answer checks of `client.ts`, `agent-sessions.ts`, `workspace-bindings.ts`, `workspace-sync.ts` | component |
| `AgentAuth` | `agent-sessions.ts` 308-335 and `domain.ts` 300-350 with a service, its processes and two clocks | component |
| `AgentAuthProofs` | | inductive invariant, action properties |
| `WireValues` | values of the wire, kinds of values | operators |
| `WireSchemas` | `internal/contract/generated/wire-types.ts` | operators |
| `WireDecoders` | `domain.ts` 236-1032 | operators |
| `WireRequests` | the validators and bodies of every manager | operators |
| `WireMatching` | what fits a kind, what is worth trying; `internal/sanitize.ts` | operators |
| `WireOperations` | `generated/operation-metadata.ts`, `contract/index.ts`, `prepare` | operators |
| `WireExchange` | one call with its answer: `prepare`, `disposition`, `problemFailure` | component |
| `WireProofs` | | what the decoders promise of every message and the managers of every body, what the scan of `BoundaryPolicy` finds, what the checks of `EchoChecks` decide |
| `BoundaryPolicy` | `internal/boundary-policy.ts` | operators |
| `ConfigResolution` | `config.ts` | operators |
| `Backoff` | `uniformDelay` (`internal/transport.ts` 449-456), `nextRandomInt` (`internal/test-seams.ts` 55-65) | operators |
| `ReleaseLedger` | what a release promises | abstract specification |
| `ReleaseWorkflow` | `release.yml` and the scripts its jobs run | component |
| `ReleaseWorkflowProofs` | | inductive invariant, safety, refinement |
| `MC*` | | the instances TLC checks |

### ClientContext

`state`, `active`, `transport`, `closePromise` and `closeResolver` are the
private fields of the class. `jobs` is the run time's queue; `waiters` the
reactions registered on the close promise. `Invoke`, `Refuse` and
`InvokeUnbuildable` are the three ways `invoke` runs up to its `await`;
`Settle` is the transport settling `execute`'s promise; `RunFinally` is the job
that runs the `finally` block of `invoke`, with `#finishClose` in it;
`RunCaller` and `RunCloser` are the continuations of user code. The order of the
jobs matters and is modelled: resolving the close promise queues its reactions
before `invoke`'s own promise settles. `InvokeUnbuildable` covers the
constructor of the transport throwing when there is no `fetch`.

`ClientLifecycle` says what this implements: admit until the first close,
complete what was admitted, finish exactly when both are over. The refinement
maps `inflight` to the calls between admission and their `finally` block.

### FetchTransport

One call of `execute`. `pc` names the point the call is at; each action is the
code from one `await` to the next. Inside the `SDK`'s own steps the caller may
abort (`CallerAborts` at any point: hooks and other jobs run there); a timer
runs only while the call waits for `fetch` or for the body, as timers do not
run between promise jobs. `Lateness` lets timers run late. `ReadChunk` and
`ReadEnds` are the body stream, which may still deliver what it had buffered
when the signal is aborted. A response is abstracted to what `disposition` asks
of it: redirect, unexpected 2xx, error or success status, acceptable headers
(`typed`), a body or none. The observer's events are kept in `trace`.

### SessionHandle

`snapshot` is abstracted to whose session it is and after how many changes of
the session it was taken; `floor` remembers what the handle showed when an
operation was called. `Redispatch` is the transport retrying a read, `GiveUp`
every way a call fails; a request given up may still be served.

### SessionCreate

Every option is missing, undefined, valid or invalid; `Acceptable` is the
validation, `Body` the fields of the request. A program repeats `create` with
the same options; requests reach the server at any time, or never. What the
server does with an idempotency key is external: one session per key.

### EchoChecks

Calls of one of the eighteen methods that hold their answer against what they were
asked. `Methods` lists, per method, the fields it compares: those passed as
arguments, those it copied before its `await`, and those it reads again from the
caller's object after it. Several calls share one object. `Write` is the program
writing to it at any time, so that the calls out at once differ in what they asked
(`asked`) and in what they hold for the comparison (`held`). `Serve` answers as to
any of the calls, or with one field changed. A compared range (the protocol, the
reader version) is a field that is met or not, and a page stands for each of its
items.

`AnsweredAsAsked` speaks of every method. Its only exceptions are named in the
property: `createAgent` and `agentAuth`, in the fields (`rewritten`) the program
wrote to while the call was out. A method that stopped copying would have to move
its fields from `copied` to `reread` in `Methods`, and would break it. The requests
of `agentAuth` carry the identifier only: there the other two fields of `asked` are
what the handle said when the call was made.

### WorkspaceSync

A program calls `begin`, `negotiate`, `uploadChunk`, `commit` and `reconcile` in
any order with any keys; one call is awaited at a time (`pending`), and its
request stays in `requests` for good, so that it may be served at any later time
or never. The service (external) serves each key of an operation once and repeats
that answer (`cache`) to whatever is asked with the same key, also to another
request. It makes a generation of `log` of every commit, be it onto the last
generation or not: what a report is worth follows from the comparisons of the
client alone. `Matches` is what each method of the manager compares before it hands
the answer on, and `reported` keeps what was handed on. `CommitElsewhere` is
another machine. `downloadChunk` and `changes` change nothing and are in
`EchoChecks` and the wire modules.

`GenerationLog` says what this implements: generations are only ever appended, one
at a time, by anybody, and a commit is reported to the program only if its manifest
is the generation right after the one it expected, so that the program has
overlooked none. The refinement maps the abstract reports to the commits among
`reported`.

### The wire modules

A value of the wire is a record whose field says its sort; a string is abstracted
to its form (what pattern it was written to), its length, its number (which of
the strings of that form it is: the digest of which content, the identifier of
what) and its brand. A kind is what a schema, a decoder or a validator accepts: a
set of constants, a range, a pattern, a list, an object with required and optional
members and at most one condition across them. Kinds and values nest at most eight deep, and what walks
over them is written once per depth (`Fits1` to `Fits7`, `Fits`), without recursive
operators, which the provers do not take. `WireSchemas` writes the contract
down this way, `WireDecoders` every function of `domain.ts`, `WireRequests` every
check of arguments and the body made from them.

`WireExchange` is one call. Its arguments start out typical and are altered
(`Alter`): a member is dropped, added, or replaced by a value `Tried` takes from
below, at and above each limit of either kind, from other forms, brands and
instants, and from lists of lengths around the bounds. `Call` is the method with
`prepare`; `Answer` brings a typical answer or problem, which is altered in turn,
with its headers (`AlterHeaders`); `Receive` is `disposition`. The clock and the
status of a problem are constants.

The properties compare what the client lets through with the contract. They allow
for the differences the code intends: both spellings of a brand are accepted where
the contract mints one (`AsMinted`), `usage` may have members the contract does not
name, an `unavailable` observation may name any agent version, and a value that is
not `Plain` (an integer beyond `Number.MAX_SAFE_INTEGER`, a leap second, a token
that vanishes when its URL is parsed, a text `sanitizeWire` refuses) may be refused
although the contract allows it.

### BoundaryPolicy, ConfigResolution, Backoff

Pure functions. `BoundaryPolicy` is about sequences of numbers: the modulus and the
base of the hash, the words and which of them are names are parameters. Its run has
an alphabet of seven code units, one of which becomes two in lower case, words of
two and three letters and hashes modulo 64. `ConfigResolution` has two values of
each setting that are accepted, one that is not and one that is no string.
`Backoff` has any number of raw values. What they promise is stated as assumptions,
which TLC evaluates with the runs that extend them (`ScanIsExact` in
`WireContract.cfg`; `NoFallThrough`, `EndpointIsAccepted` and
`ShadowingIsDisclosed` in `ClientSafety.cfg`; `Uniform` in `FetchCall.cfg`), as
theorems, and, for the boundary policy, as the property of a run.

### AgentAuth

`now` is the service's clock, `skew` what the program's is ahead. Processes of
the agent start and end (`epoch`, `running`, `ended`); the service observes the
one there is and grants a lease (`Observe`); the answer takes any time; the
program holds a handle it was given at any earlier moment (`Admit`). `Decodes` is
`decodeAgentSessionAuth` on the instants, `Accepts` the checks after it.

### ReleaseWorkflow

A run is identified with the commit it releases; `VersionOf` says which commits
carry the same version. `at` is the job and step the run has come to, `ws` the
job's workspace, `base` what the job started from, to which running it again
returns (`Restart`, which may also run everything again). `tag`, `release`,
`assets`, `registry` and `latest` are the services; a step changes them even if
the job stops right after it (`Crash`, and the lost answers of `Sign`, `Upload`
and `Publish`). `authority` counts the attempts of the authority's run, `lapsed`
the attempts whose evidence has expired, `approved` is the attempt phase A handed
to the other jobs. The envelope of the release manifest is the sequence `chain`;
a state in it is abstracted to the start of the run that wrote it, which tells
states apart that were written by different starts. Archive, manifest core, SBOM
and attestation are determined by the commit. `RefName` is what
`GITHUB_REF_NAME` says in the publish job: see Findings.

`ReleaseLedger` says what this implements: a version is signed once, for one
commit, then staged, published, verified and promoted in this order for that commit,
and nothing of it is ever taken back. The refinement reads the stage of a version
off the tag, the assets, the registry and the state of the GitHub release.

## Runs

| Run | Instance | Shows |
| --- | --- | --- |
| `ClientSafety.cfg` | 3 calls, 2 closers, transport may be unbuildable | all invariants, every closer resumes, `ClientLifecycle` is implemented |
| `FetchCall.cfg` | read and non-read, problem and plain errors, a `fetch` that honours its signal and one that does not | deadlines, retries, resources, events, outcome, termination |
| `SessionOverlap.cfg` | 3 operations, 3 changes, symmetric | no setback without overlap, failures change nothing |
| `CreateRetried.cfg` | all option classes, 3 calls | one session per stable key, one network policy |
| `EchoChecks.cfg` | 18 methods, 2 calls that share an object, 2 writes to it, 2 values of a field, answers to another call or wrong in a field | each call hands on the answer to its own request and rejects no other, but for the fields `createAgent` and `agentAuth` read again |
| `EchoCreateAgent.cfg` | the same | violation, see Findings |
| `AgentAuth.cfg` | 2 processes, leases up to and beyond the longest, clocks 2 ticks apart | what accepted evidence is worth; sound evidence is refused only for a stale handle |
| `ReleaseRestarts.cfg` | 2 commits of one version, 2 attempts of the authority, 1 restart each, all faults | admitted, published and promoted is only what was signed, as one chain of states; `ReleaseLedger` is implemented |
| `ReleaseMainRef.cfg` | 2 versions, nothing goes wrong | violation, see Findings |
| `WorkspaceSync.cfg` | 2 keys, 2 pages, 2 chunks, 3 calls, 1 commit elsewhere | what is reported was done; `GenerationLog` is implemented |
| `WireContract.cfg` | all 33 operations, one altered member per message, two for six operations | decoders and validators agree with the contract, answers with themselves, cursors can be sent back |
| `BoundaryTokens.cfg` | texts of up to 4 units, escaped or not | violation, see Findings |

**Bounds.** Three calls are needed for one to finish, one to be refused and one
to keep the client busy; two closers for a first and a later one. Deadlines are
2 ticks per read attempt and 6 in total, as 10 s and 30 s are: three attempts
fill the total exactly, so every backoff can push the last attempt over the
edge. The non-read deadline of 3 stands for 60 s, 31 min and the exec timeout,
which only differ in length. `BackoffUnit` of one tick is far longer, relative
to a deadline, than 100 ms are; it makes the check at line 575 bite. `MaxBytes`
of 1 puts a body below, at and above the limit. `Horizon` of 9 lies beyond
every deadline plus lateness: it bounds only the clock of a call that a
non-cooperative `fetch` keeps waiting. `MaxChanges` and `MaxCalls` bound what
the server and the program do. Three overlapping operations of a handle suffice
for an answer to be overtaken twice. Two calls that share an object are what can
differ in a field and get each other's answers, and two writes (`MaxWrites`) let a
field change between them and change back; the theorem needs neither bound. A lease (`Ttl`) of three ticks, a tolerated
skew of one and clocks up to two ticks off put every comparison of instants
below, at and above its limit; `Horizon` of 6 lets an answer outlive the longest
lease the service grants. Two commits of one version are what can contend for a
tag, a release and a registry entry; with a second attempt of the authority and
one restart of each run every job can run twice, on other evidence. The safety
run sets `RefName` to `"tag"`, as otherwise no run gets past the comparison in
`resolve-release-channel.mjs:8`; the theorems do not depend on it. In
`WireContract.cfg` one altered member suffices for a limit, as every member is tried
on both sides of each of its limits; conditions across members need two, which the six operations with the richest conditions get. A list is tried with no,
one and two elements of which one is altered, and with as many equal or distinct
elements as its limits say. All these
systems may stop (the program stops calling, the release is over), so their runs
do not check deadlock.

**Fairness.** `ClientContext`: the run time runs queued jobs, and the transport
settles every request, which is what `Settles` shows of `FetchTransport`.
`FetchTransport`: the run time resumes what is ready and runs due timers, time
passes, and a cooperative `fetch` rejects once it is aborted (as the Fetch
standard demands). Nothing is assumed of the server. Without cooperation a call
need not settle: `execute` awaits `fetch` without racing it against the signal
(552); `Settles` and `WithinTotalDeadline` are stated of cooperative calls.
`ReleaseWorkflow`: `FairSpec` lets the runners run what a dispatched run has to
do; it is used only where a version is said to be published in the end
(`SignedIsPublished`), without faults.

## Proofs

TLAPS proves, for every value of the constants that meets the named
assumptions:

* **Client context.** `BookkeepingAgrees` proves `IInv`: `#active` is the
  number of calls in flight, every settled call has exactly one `finally` job,
  the three fields of a close agree, and a close that can finish has finished.
  `NoUseAfterRelease`, `TransportReleasedOnce` and
  `CloseResolvedExactlyWhenIdle` follow from it; `NobodyStranded` adds that each
  waiting closer is registered or queued; `ClosingDrains` is an action property;
  `RefinesLifecycle` shows that every step is one of `ClientLifecycle` or a
  stutter. The counter needs the job queue: that a `finally` block finds
  `active > 0` is known only because no call has two jobs. The order of the queue
  gives what an awaiter of `close()` may rely on: `ToldOnlyWhenDrained`, that it runs
  after the last use of the transport, and `ClosersGoFirst`, that the code which
  awaits the last admitted call runs only after it (see Findings).
* **Transport.** `CallBookkeeping` proves `IInv`: attempts and dispatches
  agree with the point of the call, a wired attempt is aborted by its caller or
  by its due timer and by nothing else, timers never reach beyond the total
  deadline, an answer ends the attempts, and the number of reported events follows
  from the attempt and the point of the call (`TraceCountsAttempts`). From it:
  `WriteOnce`, `AnswerIsFinal`, `CancellationOutranks`, `WiresReleased`,
  `BodiesReleased`, `CleanResults`, `HonestErrors`, `DeadlineRespected`,
  `EventsInOrder`. What an error says of its cause follows from what disposition
  settled with (`VerdictsHaveCauses`): a body the timer cut short is settled as
  aborted and reported as a timeout, never as a cancellation, an API error or a
  malformed response. Of `Settles` it leaves only what fairness says:
  `CallsAreShort` counts down `Fuel` (the attempts left, the point of the call, the
  timer, the caller, the body and the clock) with every step, so that a cooperative
  call takes at most `MostSteps` steps, and `NothingAwaitedForEver` shows that what
  it waits for comes: a timer within the total deadline, if nothing else does.
* **Session handle.** `HandleBookkeeping`: nothing known of a session is newer
  than the session, and an answer still waited for is not older than what the
  caller saw. From it `NoSetbackWithoutOverlap` and `FailureChangesNothing`.
* **Creation.** `CreateBookkeeping`: sessions come from requests and differ in
  their keys. From it `OneSessionPerKey` and `NeverTwoPolicies`.
* **Workspace synchronisation.** `SyncBookkeeping` proves `IInv`: an answer is of
  a request that was sent and true of it. From it `ReportsAreTrue` and
  `RefinesLog`: a report is about what the service did because each method
  compares the answer with its own request, and it stays true because the log, the
  staged pages and the chunks only grow.
* **Wire contract.** `DecodersConform`: what the decoder of an operation accepts
  fits the schema of its answer once the names are minted, for every value the
  model can tell apart, not just for the altered messages TLC tries. From it, and
  from the invariant `Decoded` (what was handed on was taken by its decoder),
  `ResultsConform`, for results and problems; `ResultsCohere`, that a result
  agrees with itself; `CursorsAreTaken`, that paging goes on. The converse is
  `ConformingResultsTaken`: what fits the schema, is coherent (`Coherent`: what the
  contract cannot say) and plain (`Plain`: none of the values the code refuses by
  intention) is handed on, so that of plain messages, up to the spelling of names,
  the decoders take what the contract allows and nothing else. The argument goes up
  the depths: `Conforms_n` of a leaf is the inclusion of ranges, forms and brands
  (`Within`); of an object it is `Conforms` of its members one depth below and an
  implication between the two conditions across members; then each object of
  `domain.ts` is looked at once, and the table of operations last. Minting changes
  values, so each condition has to be shown of the minted object: that five names
  stay five (`FiveConform`), that what is compared is not minted (`FixedMinted`).
  That a page of changes is in order follows from the comparison of neighbours by
  induction (`NeighboursOrder`).
* **Requests.** `AcceptedArgumentsAreSent`: whatever the program passes, what a
  method accepts is sent as a body the schema of its operation allows, with the
  parts `prepare` demands; the one exception is `exec` with an argument vector whose
  first word is empty (see Findings). The invariant `Admitted` keeps what was accepted
  beside what is sent: the arguments fit the validator of the method. Then a body
  fits because the names it is sent under are different ones (`SentMembers`), because
  every required argument is of a kind that excludes `undefined`, so that none is
  dropped (`Carried`, `UndefinedDoesNotFit`), and because what each argument's kind
  takes is within the kind of the contract (`Sends_n`, `Held`; a length in UTF-16
  units is at least the one in characters, `UnitsAreMore`). What the methods put
  together by themselves is shown apart: the entries of a manifest and their chunks,
  depth by depth (`ManifestSent`), the words of a command (`WordsSent`), the protocol
  of a terminal (`TerminalSent`).
* **Boundary policy.** `RollingIsPolynomial`: rolling the hash along a text gives at
  each window what hashing the window gives, for every modulus, base, text and
  length. `ScanIsExact`: the scan finds exactly the windows that hash to a word and
  count. `MarkersAreDetected`: a name anywhere, and another word standing as a token
  with a length no name has, is found (see Findings for the lengths names do have).
* **Answers of the managers.** `EachAnswerToItsRequest`, for any number of calls and
  any values: each hands on the answer to its own request. The argument (`EchoInv`):
  while a call is out, what it holds is what it asked, and the object still says so
  wherever nobody has written since; and the table is the only place that knows which
  methods read the object again (`RereadingMethods`).
* **Configuration.** `PresentDecides`, for any options, environment and file: a
  client is configured exactly when the file can be read and the most authoritative
  value said of either setting is valid, and with these values; an invalid one never
  makes way for another. That exactly one value is said of a setting
  (`SelectedIsSaid`, `OneIsSaid`) is shown for any list of names of its variable. What
  is disclosed of shadowed variables stays with TLC.
* **Backoff.** `SamplingEnds` and `SamplingNeverEnds`, for every bound and number
  of raw values, and `SamplingIsUniform`: every outcome is drawn by equally many
  raw values (a bijection from the multiples below the largest one).
* **Agent authentication.** `EvidenceIsOfTheHandle` and `RefusalIsOfTheHandle`,
  for every lease, tolerated skew and pair of clocks: nothing is observed ahead
  of time, and a process that was observed was running then (`IInv`).
* **Release workflow.** `ReleaseBookkeeping` proves `IInv`: a run past its
  signature owns the tag of its version and carries the evidence it was approved
  with (`Owned`), its envelope has as many states as its job and step say
  (`Linked`), and what it left outside agrees with the states it carries
  (`Delivered`). From it `AdmissionFollowsSignature`, `PublicationIsBacked`,
  `PromotionIsCoherent`, and `RefinesLedger`: each step of a run, of a crash or of
  the services is a step of the ledger or a stutter. The argument: nothing outside is ever taken back or
  overwritten (the lemmas on `Kept`), so what a run knows of the services
  survives the steps of all others, and each action needs to be looked at only
  for the run that takes it. `base` is part of the invariant because a job that
  is run again goes back to it. `Owned` is the core of it: that two
  runs of a version cannot both stage is known only because the tag can be
  created once.

The `IInv` of `ClientContext`, `FetchTransport`, `SessionHandle`,
`SessionCreate`, `WorkspaceSync` and `ReleaseWorkflow` are also invariants of a
run; that of `AgentAuth`, which speaks of the service and its processes only, and
`EchoInv` are proved alone. Only model-checked: the liveness properties (`EveryCloserResumes`,
`Settles`, the fairness part of the refinement), which are out of the prover's reach.
Every safety invariant and action property of a passing run is stated by a theorem.

Recursive operators and induction over data are out of the prover's reach, so that
recursion is written as functions (`PrefixHash`, `power`) whose equations are lemmas
from a theorem about the existence of functions (`RecursionExists`), induction as
membership in a set of numbers (`Induction`), and nesting as depths.

## Findings

* `agentSessions.create` builds its request before the `await` and compares the
  answer with the caller's options read again after it (`agent-sessions.ts`
  305-308). A program that writes to its options object meanwhile may be handed
  an agent session on another directory, binding or generation than it asked
  for, or see the right answer rejected. `test/agent-sessions.test.mjs:464` says
  that substituted authority is rejected; it leaves the options alone. The
  bindings and workspace methods compare with a frozen copy. `agentAuth` reads its
  argument again in the same way (326-330); an `AgentSession` the SDK made is frozen,
  so only a handle the program put together itself can change under it.
* The publish job stops unless `GITHUB_REF_NAME` is the tag of the release
  (`scripts/resolve-release-channel.mjs:8`), but phase A lets only runs on
  `refs/heads/main` pass (`release.yml:54`), where it is `main`. Every run stops
  there, with its tag pushed and its draft staged. With `RefName` set to `"tag"`
  every version that is signed is published, if nothing goes wrong.
* A generic word that has as many letters as a vendor name is never detected
  (`internal/boundary-policy.ts` 105 and 121): `SUBSTRING_TARGETS.get(length)` is
  there, its `has` answers `false`, and `??` goes on to `hasTokenBoundaries` only
  for `undefined`. Of the lengths in `TARGETS` this concerns nine, with one generic
  word (hash 1161608401). The comment at line 15 says that generic vocabulary is
  token-aware. In the model the same happens to the word that has the length of
  the vendor name.

Observed, without a run's property of their own:

* The awaiter of `close()` resumes before the code that awaits the last admitted
  operation (`ClosersGoFirst`): the close promise is resolved inside `invoke`'s `finally` block
  (`client.ts` 177), before the promise of `invoke` itself. `client.ts:458` and
  `docs/guides/cleanup.md:4` say that closing waits for admitted operations.
  The transport is no longer in use then, so nothing breaks inside the SDK; a
  program that reads a handle right after `await client.close()` may see the
  snapshot of before the operation.
* The recovery verification demands that the dist-tag of the channel still names
  the version (`scripts/verify-release-recovery.mjs:129`), so it fails for every
  release but the last of its channel; `release-recovery.yml:7` speaks of an
  "Exact historical package version to verify".
* `reconcile` compares the policy digest and the protocol of its answer, but neither
  the manifest root nor the generation with what was observed; `begin` hands on a sync session
  in any state; `negotiate` and `commit` know nothing of the protocol that `begin`
  selected, and the policy digest of a commit is not in its answer.
* `changes` takes no empty cursor and counts UTF-16 units where the decoder of its
  answer counts characters (`workspace-sync.ts` 434), so an empty `next_cursor`, or
  a long one outside the basic plane, is handed on but cannot be sent back.
* `exec([""])` sends an empty command, which the contract does not allow.
* `sessions.agentAuth` is decoded as the authentication of an agent session
  (`contract/index.ts` 70) though the contract has a schema of its own for it; no
  public method calls it.
* The boundary policy takes positions in the text in lower case to look for token
  boundaries in the text as it was; a letter that becomes two units in lower case
  shifts them.
* A variable that is set but shadowed is disclosed as ignored even when the
  configuration is then refused.
* A `fetch` that ignores its signal can keep a call pending, and the body of a
  response it delivers after the abort is not cancelled (583). A call whose
  budget ran out while it slept ends with an attempt number that was never
  dispatched (533-535), which `IInv` allows for.
* Operations of one handle that overlap may set its snapshot back.
* `README.md:86-92` of the repository says that creating a Claude Code or Codex
  session sends `background: true` and that the option can be passed. The code
  never sends it and refuses it (`client.ts` 202-206); a transport test says so
  on purpose.
* The age of accepted evidence is bounded on the program's clock: the further
  it lags, the older the evidence (`EvidenceIsRecent` says by how much).
  Evidence `unavailable` has no freshness check at all.
* A lost answer of `npm publish`, or a registry that lags behind, strands a
  published version: running the job again stops at the check that the version is
  absent. A lost answer of the push strands the tag in the same way. The recovery
  plan is written only if the publish job fails, not if the promotion does.
* The publish job validates the stored evidence only, so a later attempt of the
  authority's run goes unnoticed once the tag is signed.
* Two versions released on one dist-tag at a time: the earlier fails its
  verification after it was published.

## Not modelled

In `FetchTransport`, decoding is reduced to success or failure and `prepare` to
whether it refuses its input; the wire modules have both. Patterns are reduced to
forms, so that a regular expression itself is right is not checked; nor is what a
decoded object's members are called, the classes and texts of `errors.ts`, the
redaction of diagnostics, URL building, headers that are only sent, event payloads
and spans, or what a hook that throws does (`safeCall` swallows it). The installers
of the test seams and the performance seam replace a module variable each. Of
`AgentAuth`, versions and adapters are left out (the wire modules have them); of
`ConfigResolution`, the types of the fetch and sink options. Of the release
workflow, signatures and digests are reduced to genuine or not, the candidate's
own CI run to what the commit determines; the documentation and dependency gates
of `release-readiness.mjs` read files that carry no trace of the candidate they
were made for, so there is no relation for a model to check; `gh release create` is
assumed to refuse a release that exists; a single job of a finished run is not run
again on its own. Documentation generation (`scripts/reference/`), linting, the
performance and compatibility reports and the other one-shot scripts turn files
into files and keep no state a model could be about.
`PROJECT.json` lists every component with its status.

## Plan

What could be added, the most useful first:

1. A composition of `ClientContext` with the promise of `FetchTransport` (every
   call settles, once) and with handles, to discharge the fairness of `Settle`.
2. Two programs that synchronise one workspace through `changes` and
   `downloadChunk`, up to the same manifest.
