--------------------------- MODULE WorkspaceSync ---------------------------
(***************************************************************************)
(* A program that synchronises a workspace (src/workspace-sync.ts): it     *)
(* begins a sync, negotiates manifest pages, uploads chunks, commits and   *)
(* reconciles, each call with an idempotency key of its choice, and each   *)
(* call may fail while its request is still under way.                     *)
(*                                                                         *)
(* The service is external and the least the code can expect of it: it     *)
(* answers truthfully, and answers a key it has seen with what it answered *)
(* then, whatever the request says now.  It may append a commit to a log   *)
(* that others have moved on.  What a call reports to the program is       *)
(* decided by the comparisons its method makes after the await.            *)
(*                                                                         *)
(* Exclusion policy, protocol versions and minimum readers are the same in *)
(* every request and left out; EchoChecks has the fields that are echoed.  *)
(***************************************************************************)
EXTENDS Naturals, Sequences

CONSTANTS
  Roots,          \* manifest roots
  Pages,          \* page indices of a manifest
  Chunks,         \* chunk digests
  Keys,           \* idempotency keys the program draws from
  MaxCalls,       \* bound on the program's calls: TLC's only
  MaxElsewhere    \* bound on the generations committed by others: TLC's only

ASSUME PagesAssumption == Pages \subseteq Nat
ASSUME MaxCallsAssumption == MaxCalls \in Nat
ASSUME MaxElsewhereAssumption == MaxElsewhere \in Nat

Authors == {"program", "others"}

VARIABLES
  log,          \* the service's generations
  syncs,        \* the base generation of every sync the service has begun
  staged,       \* <<sync, page>> the service has
  stored,       \* chunks the service has
  cache,        \* answers the service gave: [request, receipt]
  requests,     \* requests sent, each of which may still be served
  pending,      \* the request of the call that is awaited: {} or a singleton
  reported,     \* [request, receipt] handed to the program
  calls         \* calls made

vars == <<log, syncs, staged, stored, cache, requests, pending, reported,
          calls>>

\* The paths and bodies of the five calls that take a key.  A field that a
\* request or receipt does not have is left at a value no call gives it.
Request(op, key, sync, number, item) ==
  [op |-> op, key |-> key, sync |-> sync, number |-> number, item |-> item]
Receipt(sync, number, item) ==
  [sync |-> sync, number |-> number, item |-> item]
None == "none"

Begin(key, base) == Request("begin", key, 0, base, None)
Negotiate(key, sync, page) == Request("negotiate", key, sync, page, None)
UploadChunk(key, sync, chunk) == Request("chunk", key, sync, 0, chunk)
Commit(key, sync, expected, root) ==
  Request("commit", key, sync, expected, root)
Reconcile(key, observed, root) ==
  Request("reconcile", key, 0, observed, root)

\* What the program may ask for: a sync it calls is one it may have begun, a
\* generation one that it may have seen.
Calls ==
  {Begin(k, g) : k \in Keys, g \in 0..Len(log)}
    \cup {Negotiate(k, s, p) : k \in Keys, s \in 1..Len(syncs), p \in Pages}
    \cup {UploadChunk(k, s, c) :
            k \in Keys, s \in 1..Len(syncs), c \in Chunks}
    \cup {Commit(k, s, g, r) : k \in Keys, s \in 1..Len(syncs),
                               g \in 0..Len(log), r \in Roots}
    \cup {Reconcile(k, g, r) : k \in Keys, g \in 0..Len(log), r \in Roots}

Init ==
  /\ log = <<>> /\ syncs = <<>>
  /\ staged = {} /\ stored = {} /\ cache = {}
  /\ requests = {} /\ pending = {} /\ reported = {}
  /\ calls = 0

----------------------------------------------------------------------------
(* The program and its calls *)

Send ==
  /\ pending = {} /\ calls < MaxCalls
  /\ \E r \in Calls :
       /\ requests' = requests \cup {r}
       /\ pending' = {r}
  /\ calls' = calls + 1
  /\ UNCHANGED <<log, syncs, staged, stored, cache, reported>>

\* A timeout, a broken connection, a refusal: the request may have arrived.
Fail ==
  /\ pending # {}
  /\ pending' = {}
  /\ UNCHANGED <<log, syncs, staged, stored, cache, requests, reported,
                 calls>>

\* Mutant: any generation will do.
MatchesAnyGeneration(r, receipt) ==
  /\ r.op = "begin" => receipt.number = r.number
  /\ r.op = "negotiate" => receipt.sync = r.sync /\ receipt.number = r.number
  /\ r.op \in {"chunk", "commit"} => receipt.item = r.item

\* Mutant: a page's receipt is not held against the page.
MatchesAnyPage(r, receipt) ==
  /\ r.op = "begin" => receipt.number = r.number
  /\ r.op = "negotiate" => receipt.sync = r.sync
  /\ r.op \in {"chunk", "commit"} => receipt.item = r.item
  /\ r.op = "commit" => receipt.number = r.number + 1

\* The comparisons after the await.  The one of reconcile, with the exclusion
\* policy and the protocol, is met by every answer.
Matches(r, receipt) ==
  /\ r.op = "begin" => receipt.number = r.number
  /\ r.op = "negotiate" => receipt.sync = r.sync /\ receipt.number = r.number
  /\ r.op \in {"chunk", "commit"} => receipt.item = r.item
  /\ r.op = "commit" => receipt.number = r.number + 1

\* The service knows a request by its key within its operation.
Same(r, q) == r.op = q.op /\ r.key = q.key

\* The answer arrives and is handed on, or rejected as malformed.
Receive ==
  /\ \E r \in pending, a \in cache :
       /\ Same(a.request, r)
       /\ reported' = IF Matches(r, a.receipt)
                      THEN reported \cup {[request |-> r,
                                           receipt |-> a.receipt]}
                      ELSE reported
  /\ pending' = {}
  /\ UNCHANGED <<log, syncs, staged, stored, cache, requests, calls>>

----------------------------------------------------------------------------
(* The service *)

Fresh(r) == r \in requests /\ \A a \in cache : ~Same(a.request, r)

Answer(r, receipt) == cache' = cache \cup {[request |-> r,
                                            receipt |-> receipt]}

ServeBegin(r) ==
  /\ Fresh(r) /\ r.op = "begin"
  /\ syncs' = Append(syncs, r.number)
  /\ Answer(r, Receipt(Len(syncs) + 1, r.number, None))
  /\ UNCHANGED <<log, staged, stored, requests, pending, reported, calls>>

ServeNegotiate(r) ==
  /\ Fresh(r) /\ r.op = "negotiate"
  /\ staged' = staged \cup {<<r.sync, r.number>>}
  /\ Answer(r, Receipt(r.sync, r.number, None))
  /\ UNCHANGED <<log, syncs, stored, requests, pending, reported, calls>>

ServeChunk(r) ==
  /\ Fresh(r) /\ r.op = "chunk"
  /\ stored' = stored \cup {r.item}
  /\ Answer(r, Receipt(r.sync, 0, r.item))
  /\ UNCHANGED <<log, syncs, staged, requests, pending, reported, calls>>

\* The commit becomes the next generation, be it the one expected or not.
ServeCommit(r) ==
  /\ Fresh(r) /\ r.op = "commit"
  /\ log' = Append(log, [root |-> r.item, author |-> "program"])
  /\ Answer(r, Receipt(r.sync, Len(log) + 1, r.item))
  /\ UNCHANGED <<syncs, staged, stored, requests, pending, reported, calls>>

\* The active generation and its root.
ServeReconcile(r) ==
  /\ Fresh(r) /\ r.op = "reconcile"
  /\ Answer(r, Receipt(0, Len(log),
                       IF log = <<>> THEN None ELSE log[Len(log)].root))
  /\ UNCHANGED <<log, syncs, staged, stored, requests, pending, reported,
                 calls>>

Elsewhere(g) == g.author = "others"

CommitElsewhere ==
  /\ Len(SelectSeq(log, Elsewhere)) < MaxElsewhere
  /\ \E root \in Roots :
       log' = Append(log, [root |-> root, author |-> "others"])
  /\ UNCHANGED <<syncs, staged, stored, cache, requests, pending, reported,
                 calls>>

Serve(r) == ServeBegin(r) \/ ServeNegotiate(r) \/ ServeChunk(r)
              \/ ServeCommit(r) \/ ServeReconcile(r)

Next == \/ Send \/ Receive \/ Fail
        \/ \E r \in requests : Serve(r)
        \/ CommitElsewhere

Spec == Init /\ [][Next]_vars

----------------------------------------------------------------------------
(* Properties *)

\* What a receipt says of a request is so at the service.
Holds(r, receipt) ==
  /\ r.op = "begin" =>
       receipt.sync \in 1..Len(syncs) /\ syncs[receipt.sync] = r.number
  /\ r.op = "negotiate" => <<r.sync, r.number>> \in staged
  /\ r.op = "chunk" => r.item \in stored
  /\ r.op = "commit" =>
       /\ r.number < Len(log)
       /\ log[r.number + 1] = [root |-> r.item, author |-> "program"]

\* Whatever key the program uses a second time, and whatever others commit,
\* what a call reports was done for the request it reports it of: the sync has
\* the base that was asked for, the page and the chunk are there, and the
\* manifest is the generation directly after the expected one
\* (workspace-sync.ts 346-427).
ReportedIsDone == \A x \in reported : Holds(x.request, x.receipt)

\* The commits of this program are those GenerationLog reports.
Abstract == INSTANCE GenerationLog WITH
  reported <- {[expected |-> x.request.number, root |-> x.request.item] :
                 x \in {y \in reported : y.request.op = "commit"}}
ImplementsLog == Abstract!Spec

\* The inductive invariant: every answer is true of the request it was given
\* to, and everything asked or answered has its type.
IInv ==
  /\ log \in Seq([root : Roots, author : Authors])
  /\ syncs \in Seq(Nat)
  /\ pending \subseteq requests
  /\ \A r \in requests : r.number \in Nat /\ (r.op = "commit" => r.item \in Roots)
  /\ \A a \in cache :
       /\ a.request \in requests
       /\ a.request.op = "begin" =>
            /\ a.receipt.sync \in 1..Len(syncs)
            /\ syncs[a.receipt.sync] = a.receipt.number
       /\ a.request.op = "negotiate" =>
            <<a.receipt.sync, a.receipt.number>> \in staged
       /\ a.request.op = "chunk" => a.receipt.item \in stored
       /\ a.request.op = "commit" =>
            /\ a.receipt.number \in 1..Len(log)
            /\ log[a.receipt.number] =
                 [root |-> a.receipt.item, author |-> "program"]
  /\ \A x \in reported : x.request \in requests
  /\ ReportedIsDone

============================================================================
