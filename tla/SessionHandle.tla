--------------------------- MODULE SessionHandle ---------------------------
(***************************************************************************)
(* One Session handle (src/session.ts) shared by several operations in     *)
(* flight at once, the session it stands for on the server, and the        *)
(* network between them.                                                   *)
(*                                                                         *)
(* refresh, start, pause, resume and stop all run #replace: capture the    *)
(* id, invoke, check the id of the answer, replace the snapshot.  Nothing  *)
(* orders two of them, and what was captured before the await meets what   *)
(* other operations did meanwhile.  The transport dispatches a read three  *)
(* times at most and a write once (FetchTransport); a request it has given *)
(* up on may still reach the server.  The server's session is abstracted   *)
(* to the number of changes made to it.                                    *)
(***************************************************************************)
EXTENDS Naturals

CONSTANTS
  Calls,        \* operations run on the handle, each at most once
  MaxChanges    \* bound on the changes of the session: TLC's only

ASSUME MaxChangesAssumption == MaxChanges \in Nat

VARIABLES
  snapshot,     \* #snapshot: which session it is of, and as of which change
  phase,        \* how far each operation has come
  kind,         \* refresh is a "read", the four others are "write"s
  asked,        \* the id each operation captured
  tries,        \* dispatches of each operation's request
  wire,         \* where its latest request is
  answer,       \* what the server answered to it
  changes,      \* changes of the session so far, on the server
  floor         \* history: the snapshot's change when the operation was called

vars == <<snapshot, phase, kind, asked, tries, wire, answer, changes, floor>>

Own == "own"            \* the id of the handle's session
Foreign == "foreign"    \* any other id a wrong answer may carry
Snapshots == [id : {Own, Foreign}, as_of : Nat]

TypeOK ==
  /\ snapshot \in Snapshots
  /\ phase \in [Calls -> {"idle", "sent", "done", "failed"}]
  /\ kind \in [Calls -> {"read", "write"}]
  /\ asked \in [Calls -> {Own, Foreign}]
  /\ tries \in [Calls -> 0..3]
  /\ wire \in [Calls -> {"none", "request", "answer"}]
  /\ answer \in [Calls -> Snapshots]
  /\ changes \in Nat
  /\ floor \in [Calls -> Nat]

\* The handle is built by create, list or get from a decoded snapshot, which
\* may be out of date by then.
Init ==
  /\ changes \in 0..1
  /\ snapshot \in {[id |-> Own, as_of |-> n] : n \in 0..changes}
  /\ phase = [c \in Calls |-> "idle"]
  /\ kind \in [Calls -> {"read", "write"}]
  /\ asked = [c \in Calls |-> Own]
  /\ tries = [c \in Calls |-> 0]
  /\ wire = [c \in Calls |-> "none"]
  /\ answer = [c \in Calls |-> snapshot]
  /\ floor = [c \in Calls |-> 0]

----------------------------------------------------------------------------
(* #replace, up to its await; the transport's dispatches *)

\* Mutant: an operation shares the request of one that is in flight already,
\* whose answer may date from before the call.
CallCoalesced(c) ==
  /\ phase[c] = "idle"
  /\ phase' = [phase EXCEPT ![c] = "sent"]
  /\ asked' = [asked EXCEPT ![c] = snapshot.id]
  /\ tries' = [tries EXCEPT ![c] = 1]
  /\ floor' = [floor EXCEPT ![c] = snapshot.as_of]
  /\ \/ /\ wire' = [wire EXCEPT ![c] = "request"]
        /\ UNCHANGED answer
     \/ \E d \in Calls \ {c} :
          /\ phase[d] = "sent" /\ wire[d] = "answer"
          /\ wire' = [wire EXCEPT ![c] = "answer"]
          /\ answer' = [answer EXCEPT ![c] = answer[d]]
  /\ UNCHANGED <<snapshot, kind, changes>>

Call(c) ==
  /\ phase[c] = "idle"
  /\ phase' = [phase EXCEPT ![c] = "sent"]
  /\ asked' = [asked EXCEPT ![c] = snapshot.id]
  /\ tries' = [tries EXCEPT ![c] = 1]
  /\ wire' = [wire EXCEPT ![c] = "request"]
  /\ floor' = [floor EXCEPT ![c] = snapshot.as_of]
  /\ UNCHANGED <<snapshot, kind, answer, changes>>

\* An attempt failed on the network: a read is dispatched again.
Redispatch(c) ==
  /\ phase[c] = "sent" /\ kind[c] = "read" /\ tries[c] < 3
  /\ tries' = [tries EXCEPT ![c] = @ + 1]
  /\ wire' = [wire EXCEPT ![c] = "request"]
  /\ UNCHANGED <<snapshot, phase, kind, asked, answer, changes, floor>>

\* The transport gives up (an error, a timeout, the caller's cancellation):
\* invoke rejects, the snapshot stays, and the request stays under way.
GiveUp(c) ==
  /\ phase[c] = "sent"
  /\ phase' = [phase EXCEPT ![c] = "failed"]
  /\ UNCHANGED <<snapshot, kind, asked, tries, wire, answer, changes, floor>>

----------------------------------------------------------------------------
(* The server *)

\* The server carries out the request that reached it and answers with the
\* session as it is then, or, wrongly, with another one.
Serve(c) ==
  /\ wire[c] = "request"
  /\ \/ kind[c] = "read" /\ UNCHANGED changes
     \/ kind[c] = "write" /\ changes < MaxChanges /\ changes' = changes + 1
  /\ wire' = [wire EXCEPT ![c] = "answer"]
  /\ \E id \in {Own, Foreign} :
       answer' = [answer EXCEPT ![c] = [id |-> id, as_of |-> changes']]
  /\ UNCHANGED <<snapshot, phase, kind, asked, tries, floor>>

\* Somebody else, or the session's own life, changes it.
ChangeElsewhere ==
  /\ changes < MaxChanges
  /\ changes' = changes + 1
  /\ UNCHANGED <<snapshot, phase, kind, asked, tries, wire, answer, floor>>

----------------------------------------------------------------------------
(* #replace, from its await on *)

\* Mutants: the answer's id is not looked at; the snapshot is replaced before
\* the check that may throw.
AcceptsAnything(c) == TRUE
ReplaceFirst(c) == snapshot' = answer[c]

Accepts(c) == answer[c].id = asked[c]

Replace(c) == snapshot' = IF Accepts(c) THEN answer[c] ELSE snapshot

Receive(c) ==
  /\ phase[c] = "sent" /\ wire[c] = "answer"
  /\ Replace(c)
  /\ phase' = [phase EXCEPT ![c] = IF Accepts(c) THEN "done" ELSE "failed"]
  /\ UNCHANGED <<kind, asked, tries, wire, answer, changes, floor>>

Next ==
  \/ \E c \in Calls :
       Call(c) \/ Redispatch(c) \/ GiveUp(c) \/ Serve(c) \/ Receive(c)
  \/ ChangeElsewhere

Spec == Init /\ [][Next]_vars

----------------------------------------------------------------------------
(* Properties *)

\* However operations overlap, retry or fail, an operation that succeeds
\* leaves a snapshot at least as new as the one its caller saw when it called
\* (session.ts 118-129): only operations that overlap may set it back.  An
\* operation awaited before the next one never does.
NeverOlderThanAtCall ==
  [][\A c \in Calls : phase[c] = "sent" /\ phase'[c] = "done"
       => snapshot'.as_of >= floor[c]]_vars

\* A failed operation, and one whose answer comes after it was given up,
\* leaves the snapshot as it was; a successful one leaves its own answer
\* (session.ts 120-129).
OnlySuccessReplaces ==
  [][snapshot' # snapshot =>
       \E c \in Calls : /\ phase[c] = "sent" /\ phase'[c] = "done"
                        /\ snapshot' = answer[c]]_vars

\* Whatever the server answers, a handle stays the handle of its session, and
\* no operation of it is ever sent for another (session.ts 118, 122-128).
KeepsIdentity ==
  /\ snapshot.id = Own
  /\ \A c \in Calls : asked[c] = Own

\* The inductive invariant behind the three: nothing known of the session is
\* newer than the session, and no answer an operation still waits for is older
\* than what its caller saw.
IInv ==
  /\ TypeOK
  /\ KeepsIdentity
  /\ snapshot.as_of <= changes
  /\ \A c \in Calls :
       /\ answer[c].as_of <= changes
       /\ phase[c] = "sent" => floor[c] <= changes
       /\ phase[c] = "sent" /\ wire[c] = "answer" =>
            floor[c] <= answer[c].as_of
       /\ phase[c] = "idle" => wire[c] = "none"

============================================================================
