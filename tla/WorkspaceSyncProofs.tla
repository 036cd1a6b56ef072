------------------------ MODULE WorkspaceSyncProofs ------------------------
(***************************************************************************)
(* Theorems about WorkspaceSync, for all roots, pages, chunks and keys and *)
(* any number of calls and of commits made elsewhere: what is reported was *)
(* done, and the commits are those of GenerationLog.                       *)
(***************************************************************************)
EXTENDS WorkspaceSync, TLAPS

\* The type of the service's logs.
Typed ==
  /\ log \in Seq([root : Roots, author : Authors])
  /\ syncs \in Seq(Nat)

RequestTyped(r) == r.number \in Nat /\ (r.op = "commit" => r.item \in Roots)

\* What an answer says of the request it was given to.
Truthful(a) ==
  /\ a.request \in requests
  /\ a.request.op = "begin" =>
       /\ a.receipt.sync \in 1..Len(syncs)
       /\ syncs[a.receipt.sync] = a.receipt.number
  /\ a.request.op = "negotiate" =>
       <<a.receipt.sync, a.receipt.number>> \in staged
  /\ a.request.op = "chunk" => a.receipt.item \in stored
  /\ a.request.op = "commit" =>
       /\ a.receipt.number \in 1..Len(log)
       /\ log[a.receipt.number] = [root |-> a.receipt.item,
                                   author |-> "program"]

----------------------------------------------------------------------------
(* Facts about the operators *)

\* Appending keeps every element there was, and adds one at the end.
LEMMA Appended ==
  ASSUME NEW S, NEW s \in Seq(S), NEW e \in S
  PROVE  /\ Append(s, e) \in Seq(S)
         /\ Len(Append(s, e)) = Len(s) + 1
         /\ Len(s) \in Nat
         /\ Append(s, e)[Len(s) + 1] = e
         /\ \A i \in 1..Len(s) : i \in 1..(Len(s) + 1)
                                   /\ Append(s, e)[i] = s[i]
  OBVIOUS

\* A call of the program has the types its method checks.
LEMMA CallsTyped ==
  ASSUME Typed, NEW r \in Calls
  PROVE  RequestTyped(r)
  <1>1. Len(log) \in Nat
    BY DEF Typed
  <1> QED
    BY <1>1, PagesAssumption DEF Calls, RequestTyped, Begin, Negotiate,
       UploadChunk, Commit, Reconcile, Request, None

\* An answer that passes the comparisons makes what it reports true of the
\* request it is held against, whichever request of that operation it was
\* given to.
LEMMA ComparisonsSuffice ==
  ASSUME Typed, NEW r, RequestTyped(r), NEW a, Truthful(a),
         Same(a.request, r), Matches(r, a.receipt)
  PROVE  Holds(r, a.receipt)
  <1>1. Len(log) \in Nat
    BY DEF Typed
  <1>2. CASE r.op = "begin"
    BY <1>2 DEF Truthful, Same, Matches, Holds
  <1>3. CASE r.op = "negotiate"
    BY <1>3 DEF Truthful, Same, Matches, Holds
  <1>4. CASE r.op = "chunk"
    BY <1>4 DEF Truthful, Same, Matches, Holds
  <1>5. CASE r.op = "commit"
    <2>1. /\ a.receipt.item = r.item
          /\ a.receipt.number = r.number + 1
      BY <1>5 DEF Matches
    <2>2. /\ a.receipt.number \in 1..Len(log)
          /\ log[a.receipt.number] = [root |-> a.receipt.item,
                                      author |-> "program"]
      BY <1>5 DEF Truthful, Same
    <2>3. r.number < Len(log)
      BY <1>1, <2>1, <2>2 DEF RequestTyped
    <2> QED
      BY <1>5, <2>1, <2>2, <2>3 DEF Holds
  <1>6. CASE r.op \notin {"begin", "negotiate", "chunk", "commit"}
    BY <1>6 DEF Holds
  <1> QED
    BY <1>2, <1>3, <1>4, <1>5, <1>6

\* The named parts are the invariant.
LEMMA IInvIs ==
  IInv <=> /\ Typed
           /\ pending \subseteq requests
           /\ \A r \in requests : RequestTyped(r)
           /\ \A a \in cache : Truthful(a)
           /\ \A x \in reported : x.request \in requests
           /\ ReportedIsDone
  BY DEF IInv, Typed, RequestTyped, Truthful

----------------------------------------------------------------------------
(* What the service does only adds *)

\* The service's state only grows, and what was true of it stays true.
Grows ==
  /\ Len(log) <= Len(log') /\ \A i \in 1..Len(log) : log'[i] = log[i]
  /\ Len(syncs) <= Len(syncs') /\ \A i \in 1..Len(syncs) : syncs'[i] = syncs[i]
  /\ staged \subseteq staged' /\ stored \subseteq stored'
  /\ requests \subseteq requests'

LEMMA GrowthKeeps ==
  ASSUME Typed, Typed', Grows
  PROVE  /\ \A a : Truthful(a) => Truthful(a)'
         /\ \A r, receipt : RequestTyped(r) /\ Holds(r, receipt)
                              => Holds(r, receipt)'
  <1>1. /\ Len(log) \in Nat /\ Len(log') \in Nat
        /\ Len(syncs) \in Nat /\ Len(syncs') \in Nat
    BY DEF Typed
  <1>2. ASSUME NEW a, Truthful(a)
        PROVE  Truthful(a)'
    BY <1>1, <1>2 DEF Truthful, Grows
  <1>3. ASSUME NEW r, NEW receipt, RequestTyped(r), Holds(r, receipt)
        PROVE  Holds(r, receipt)'
    <2>1. CASE r.op = "begin"
      BY <1>1, <1>3, <2>1 DEF Holds, Grows
    <2>2. CASE r.op = "negotiate"
      BY <1>3, <2>2 DEF Holds, Grows
    <2>3. CASE r.op = "chunk"
      BY <1>3, <2>3 DEF Holds, Grows
    <2>4. CASE r.op = "commit"
      <3>1. r.number + 1 \in 1..Len(log)
        BY <1>1, <1>3, <2>4 DEF Holds, RequestTyped
      <3> QED
        BY <1>1, <1>3, <2>4, <3>1 DEF Holds, Grows, RequestTyped
    <2>5. CASE r.op \notin {"begin", "negotiate", "chunk", "commit"}
      BY <2>5 DEF Holds
    <2> QED
      BY <2>1, <2>2, <2>3, <2>4, <2>5
  <1> QED
    BY <1>2, <1>3

\* A step that only adds to the service's state, leaves the program alone and
\* adds at most truthful answers preserves the invariant.
LEMMA ServiceStepKeeps ==
  ASSUME IInv, Typed', Grows, requests' = requests, pending' = pending,
         reported' = reported,
         \A a \in cache' : a \in cache \/ Truthful(a)'
  PROVE  IInv'
  <1>1. /\ Typed
        /\ pending \subseteq requests
        /\ \A r \in requests : RequestTyped(r)
        /\ \A a \in cache : Truthful(a)
        /\ \A x \in reported : x.request \in requests
        /\ ReportedIsDone
    BY IInvIs
  <1>2. \A a \in cache' : Truthful(a)'
    BY <1>1, GrowthKeeps
  <1>3. ReportedIsDone'
    BY <1>1, GrowthKeeps DEF ReportedIsDone
  <1>4. \A r \in requests' : RequestTyped(r)'
    BY <1>1 DEF RequestTyped
  <1> QED
    BY <1>1, <1>2, <1>3, <1>4, IInvIs DEF IInv, Typed, RequestTyped, Truthful

----------------------------------------------------------------------------
(* The invariant *)

LEMMA InitEstablishes ==
  ASSUME Init
  PROVE  IInv
  BY DEF Init, IInv, ReportedIsDone

LEMMA SendKeeps ==
  ASSUME IInv, Send
  PROVE  IInv'
  <1>1. PICK r \in Calls : /\ requests' = requests \cup {r}
                           /\ pending' = {r}
    BY DEF Send
  <1>2. /\ Typed /\ Typed'
        /\ \A x \in requests : RequestTyped(x)
        /\ \A a \in cache : Truthful(a)
        /\ \A x \in reported : x.request \in requests
        /\ ReportedIsDone
    BY IInvIs DEF Send, Typed
  <1>3. RequestTyped(r)
    BY <1>2, CallsTyped
  <1>4. \A x \in requests' : RequestTyped(x)'
    BY <1>1, <1>2, <1>3 DEF RequestTyped
  <1>5. \A a \in cache' : Truthful(a)'
    BY <1>1, <1>2 DEF Send, Truthful
  <1>6. ReportedIsDone'
    BY <1>2 DEF Send, ReportedIsDone, Holds
  <1> QED
    BY <1>1, <1>2, <1>4, <1>5, <1>6 DEF Send, IInv, Typed, RequestTyped,
       Truthful

LEMMA FailKeeps ==
  ASSUME IInv, Fail
  PROVE  IInv'
  BY DEF Fail, IInv, ReportedIsDone, Holds

LEMMA ReceiveKeeps ==
  ASSUME IInv, Receive
  PROVE  IInv'
  <1>1. PICK r \in pending, a \in cache :
          /\ Same(a.request, r)
          /\ reported' = IF Matches(r, a.receipt)
                         THEN reported \cup {[request |-> r,
                                              receipt |-> a.receipt]}
                         ELSE reported
    BY DEF Receive
  <1>2. /\ Typed
        /\ pending \subseteq requests
        /\ \A x \in requests : RequestTyped(x)
        /\ \A x \in cache : Truthful(x)
        /\ \A x \in reported : x.request \in requests
        /\ ReportedIsDone
    BY IInvIs
  <1>3. \A x \in reported' : /\ x.request \in requests
                             /\ Holds(x.request, x.receipt)
    <2>1. CASE Matches(r, a.receipt)
      <3>1. Holds(r, a.receipt)
        BY <1>1, <1>2, <2>1, ComparisonsSuffice
      <3> QED
        BY <1>1, <1>2, <2>1, <3>1 DEF ReportedIsDone
    <2>2. CASE ~Matches(r, a.receipt)
      BY <1>1, <1>2, <2>2 DEF ReportedIsDone
    <2> QED
      BY <2>1, <2>2
  <1>4. ReportedIsDone'
    BY <1>3 DEF Receive, ReportedIsDone, Holds
  <1> QED
    BY <1>2, <1>3, <1>4 DEF Receive, IInv, Typed, RequestTyped, Truthful

\* What each action of the service does to the service.
LEMMA ServeGrows ==
  ASSUME IInv, NEW r \in requests, Serve(r)
  PROVE  /\ Typed' /\ Grows
         /\ requests' = requests /\ pending' = pending /\ reported' = reported
         /\ \A a \in cache' : a \in cache \/ Truthful(a)'
  <1>1. /\ Typed /\ RequestTyped(r)
        /\ Len(log) \in Nat /\ Len(syncs) \in Nat
    BY IInvIs DEF Typed
  <1>2. CASE ServeBegin(r)
    <2>1. /\ syncs' \in Seq(Nat) /\ Len(syncs') = Len(syncs) + 1
          /\ syncs'[Len(syncs) + 1] = r.number
          /\ \A i \in 1..Len(syncs) : syncs'[i] = syncs[i]
      BY <1>1, <1>2, Appended DEF ServeBegin, Typed, RequestTyped
    <2> QED
      BY <1>1, <1>2, <2>1 DEF ServeBegin, Answer, Receipt, Grows, Typed,
         Truthful
  <1>3. CASE ServeNegotiate(r)
    BY <1>1, <1>3 DEF ServeNegotiate, Answer, Receipt, Grows, Typed, Truthful
  <1>4. CASE ServeChunk(r)
    BY <1>1, <1>4 DEF ServeChunk, Answer, Receipt, Grows, Typed, Truthful
  <1>5. CASE ServeCommit(r)
    <2> DEFINE g == [root |-> r.item, author |-> "program"]
    <2>1. /\ g \in [root : Roots, author : Authors]
          /\ log' = Append(log, g)
      BY <1>1, <1>5 DEF ServeCommit, RequestTyped, Authors
    <2>2. /\ log' \in Seq([root : Roots, author : Authors])
          /\ Len(log') = Len(log) + 1 /\ log'[Len(log) + 1] = g
          /\ \A i \in 1..Len(log) : log'[i] = log[i]
      BY <1>1, <2>1, Appended DEF Typed
    <2> QED
      BY <1>1, <1>5, <2>2 DEF ServeCommit, Answer, Receipt, Grows, Typed,
         Truthful
  <1>6. CASE ServeReconcile(r)
    BY <1>1, <1>6 DEF ServeReconcile, Answer, Grows, Typed, Truthful
  <1> QED
    BY <1>2, <1>3, <1>4, <1>5, <1>6 DEF Serve

LEMMA ElsewhereGrows ==
  ASSUME IInv, CommitElsewhere
  PROVE  Typed' /\ Grows
  <1>1. Typed /\ Len(log) \in Nat /\ Len(syncs) \in Nat
    BY IInvIs DEF Typed
  <1>2. PICK root \in Roots :
          log' = Append(log, [root |-> root, author |-> "others"])
    BY DEF CommitElsewhere
  <1>3. [root |-> root, author |-> "others"] \in
          [root : Roots, author : Authors]
    BY DEF Authors
  <1>4. /\ log' \in Seq([root : Roots, author : Authors])
        /\ Len(log') = Len(log) + 1
        /\ \A i \in 1..Len(log) : log'[i] = log[i]
    BY <1>1, <1>2, <1>3, Appended DEF Typed
  <1> QED
    BY <1>1, <1>4 DEF CommitElsewhere, Grows, Typed

LEMMA StepKeeps ==
  ASSUME IInv, [Next]_vars
  PROVE  IInv'
  <1>1. CASE Send
    BY <1>1, SendKeeps
  <1>2. CASE Receive
    BY <1>2, ReceiveKeeps
  <1>3. CASE Fail
    BY <1>3, FailKeeps
  <1>4. CASE \E r \in requests : Serve(r)
    BY <1>4, ServeGrows, ServiceStepKeeps
  <1>5. CASE CommitElsewhere
    BY <1>5, ElsewhereGrows, ServiceStepKeeps DEF CommitElsewhere
  <1>6. CASE UNCHANGED vars
    BY <1>6 DEF vars, IInv, ReportedIsDone, Holds
  <1> QED
    BY <1>1, <1>2, <1>3, <1>4, <1>5, <1>6 DEF Next

\* The service's answers are true of the requests they were given to, and what
\* was reported is true of the request it was reported of
\* (workspace-sync.ts 346-427).
THEOREM SyncBookkeeping == Spec => []IInv
  <1> QED
    BY InitEstablishes, StepKeeps, PTL DEF Spec

\* Whatever keys are used again and whatever others commit, what a call
\* reports was done for its own request (workspace-sync.ts 346-427).
THEOREM ReportsAreTrue == Spec => []ReportedIsDone
  <1>1. IInv => ReportedIsDone
    BY DEF IInv
  <1> QED
    BY <1>1, SyncBookkeeping, PTL

----------------------------------------------------------------------------
(* The refinement *)

Commits(R) == {x \in R : x.request.op = "commit"}

\* The commits reported to the program, as GenerationLog knows them.
Reports(R) == {[expected |-> x.request.number, root |-> x.request.item] :
                 x \in Commits(R)}

LEMMA StepRefines ==
  ASSUME IInv, IInv', [Next]_vars
  PROVE  [Abstract!Next]_(Abstract!vars)
  <1> DEFINE unchanged == log' = log /\ Reports(reported') = Reports(reported)
  <1>1. ASSUME unchanged
        PROVE  UNCHANGED Abstract!vars
    BY <1>1 DEF Abstract!vars, Reports, Commits
  <1>2. CASE Send \/ Fail \/ UNCHANGED vars
    BY <1>1, <1>2 DEF Send, Fail, vars
  <1>3. CASE Receive
    <2>1. PICK r \in pending, a \in cache :
            /\ Same(a.request, r)
            /\ reported' = IF Matches(r, a.receipt)
                           THEN reported \cup {[request |-> r,
                                                receipt |-> a.receipt]}
                           ELSE reported
      BY <1>3 DEF Receive
    <2>2. log' = log
      BY <1>3 DEF Receive
    <2>3. CASE Matches(r, a.receipt) /\ r.op = "commit"
      <3> DEFINE x == [request |-> r, receipt |-> a.receipt]
      <3>1. reported' = reported \cup {x}
        BY <2>1, <2>3
      <3>2. r \in requests /\ Typed /\ RequestTyped(r) /\ Truthful(a)
        BY IInvIs
      <3>3. Holds(r, a.receipt)
        BY <2>1, <2>3, <3>2, ComparisonsSuffice
      <3>4. /\ r.number \in 0..Len(log) /\ r.item \in Roots
            /\ r.number < Len(log)
            /\ log[r.number + 1] = [root |-> r.item, author |-> "program"]
        BY <2>3, <3>2, <3>3 DEF Holds, Typed, RequestTyped
      <3>5. Reports(reported') =
              Reports(reported) \cup {[expected |-> r.number,
                                       root |-> r.item]}
        <4>1. /\ x.request = r
              /\ x.request.op = "commit"
          BY <2>3
        <4>2. Commits(reported') = Commits(reported) \cup {x}
          BY <3>1, <4>1 DEF Commits
        <4> QED
          BY <4>1, <4>2 DEF Reports
      <3>6. Abstract!Report("program")
        BY <2>2, <3>4, <3>5 DEF Abstract!Report, Reports, Commits
      <3> QED
        BY <3>6 DEF Abstract!Next, Authors
    <2>4. CASE ~(Matches(r, a.receipt) /\ r.op = "commit")
      <3>1. Commits(reported') = Commits(reported)
        BY <2>1, <2>4 DEF Commits
      <3> QED
        BY <1>1, <2>2, <3>1 DEF Reports
    <2> QED
      BY <2>3, <2>4
  <1>4. CASE \E r \in requests : Serve(r)
    <2>1. PICK r \in requests : Serve(r)
      BY <1>4
    <2>2. reported' = reported
      BY <2>1, ServeGrows
    <2>3. CASE ServeCommit(r)
      <3>1. [root |-> r.item, author |-> "program"] \in Abstract!Generations
        BY <2>3, IInvIs DEF Abstract!Generations, Authors, RequestTyped,
           ServeCommit
      <3>2. Abstract!Commit
        BY <2>2, <2>3, <3>1 DEF ServeCommit, Abstract!Commit
      <3> QED
        BY <3>2 DEF Abstract!Next
    <2>4. CASE ~ServeCommit(r)
      <3>1. log' = log
        BY <2>1, <2>4 DEF Serve, ServeBegin, ServeNegotiate, ServeChunk,
           ServeReconcile
      <3> QED
        BY <1>1, <2>2, <3>1
    <2> QED
      BY <2>3, <2>4
  <1>5. CASE CommitElsewhere
    <2>1. PICK root \in Roots :
            log' = Append(log, [root |-> root, author |-> "others"])
      BY <1>5 DEF CommitElsewhere
    <2>2. [root |-> root, author |-> "others"] \in Abstract!Generations
      BY DEF Abstract!Generations, Authors
    <2>3. Abstract!Commit
      BY <1>5, <2>1, <2>2 DEF CommitElsewhere, Abstract!Commit
    <2> QED
      BY <2>3 DEF Abstract!Next
  <1> QED
    BY <1>2, <1>3, <1>4, <1>5 DEF Next

\* A reported commit is the generation directly after the one it was made on:
\* the calls implement GenerationLog (workspace-sync.ts 408-427).
THEOREM RefinesLog == Spec => ImplementsLog
  <1>1. Init => Abstract!Init
    BY DEF Init, Abstract!Init
  <1>2. IInv /\ IInv' /\ [Next]_vars => [Abstract!Next]_(Abstract!vars)
    BY StepRefines
  <1> QED
    BY <1>1, <1>2, SyncBookkeeping, PTL DEF Spec, ImplementsLog, Abstract!Spec

============================================================================
