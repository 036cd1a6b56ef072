------------------------ MODULE SessionHandleProofs ------------------------
(***************************************************************************)
(* What a handle promises for any number of overlapping operations and any *)
(* history of its session: IInv of SessionHandle is inductive, and no      *)
(* operation leaves a snapshot older than its caller saw when it called.   *)
(***************************************************************************)
EXTENDS SessionHandle, TLAPS

LEMMA HandleInitially == Init => IInv
<1>1. SUFFICES ASSUME Init PROVE IInv
  OBVIOUS
<1>2. PICK n \in 0..changes : snapshot = [id |-> Own, as_of |-> n]
  BY <1>1 DEF Init
<1>3. changes \in Nat /\ n \in Nat /\ n <= changes
  BY <1>1, <1>2 DEF Init
<1>4. snapshot \in Snapshots /\ snapshot.id = Own /\ snapshot.as_of = n
  BY <1>2, <1>3 DEF Snapshots
<1>5. TypeOK
  BY <1>1, <1>3, <1>4 DEF Init, TypeOK
<1>6. \A c \in Calls : answer[c] = snapshot /\ phase[c] = "idle"
                         /\ wire[c] = "none" /\ asked[c] = Own
  BY <1>1 DEF Init
<1>7. QED
  BY <1>3, <1>4, <1>5, <1>6 DEF IInv, KeepsIdentity

LEMMA HandleStep == IInv /\ [Next]_vars => IInv'
<1> SUFFICES ASSUME IInv, [Next]_vars PROVE IInv'
  OBVIOUS
<1> USE DEF IInv, TypeOK, KeepsIdentity
<1>1. ASSUME NEW c \in Calls, Call(c) PROVE IInv'
  <2>1. snapshot.as_of \in Nat /\ snapshot.id = Own
    BY DEF Snapshots
  <2>2. QED
    BY <1>1, <2>1 DEF Call
<1>2. ASSUME NEW c \in Calls, Redispatch(c) PROVE IInv'
  <2>1. tries[c] + 1 \in 0..3
    BY <1>2 DEF Redispatch
  <2>2. QED
    BY <1>2, <2>1 DEF Redispatch
<1>3. ASSUME NEW c \in Calls, GiveUp(c) PROVE IInv'
  BY <1>3 DEF GiveUp
<1>4. ASSUME NEW c \in Calls, Serve(c) PROVE IInv'
  <2>1. changes' \in Nat /\ changes <= changes'
    BY <1>4 DEF Serve
  <2>2. PICK id \in {Own, Foreign} :
          answer' = [answer EXCEPT ![c] = [id |-> id, as_of |-> changes']]
    BY <1>4 DEF Serve
  <2> DEFINE reply == [id |-> id, as_of |-> changes']
  <2>3. reply \in Snapshots /\ reply.as_of = changes'
    BY <2>1 DEF Snapshots
  <2> HIDE DEF reply
  <2>4. /\ answer' \in [Calls -> Snapshots]
        /\ answer'[c].as_of = changes'
        /\ \A d \in Calls \ {c} : answer'[d] = answer[d]
    BY <2>2, <2>3 DEF reply
  <2>5. \A d \in Calls : answer[d].as_of \in Nat /\ floor[d] \in Nat
          /\ snapshot.as_of \in Nat
    BY DEF Snapshots
  <2>6. phase[c] # "idle"
    BY <1>4 DEF Serve
  <2>7. /\ TypeOK'
        /\ KeepsIdentity' /\ snapshot'.as_of <= changes'
    BY <1>4, <2>1, <2>4, <2>5 DEF Serve
  <2>8. ASSUME NEW d \in Calls
        PROVE  /\ answer'[d].as_of <= changes'
               /\ phase'[d] = "sent" => floor'[d] <= changes'
               /\ phase'[d] = "sent" /\ wire'[d] = "answer" =>
                    floor'[d] <= answer'[d].as_of
               /\ phase'[d] = "idle" => wire'[d] = "none"
    BY <1>4, <2>1, <2>4, <2>5, <2>6 DEF Serve
  <2>9. QED
    BY <2>7, <2>8
<1>5. ASSUME NEW c \in Calls, Receive(c) PROVE IInv'
  <2>1. snapshot' \in Snapshots /\ snapshot'.id = Own
          /\ snapshot'.as_of <= changes
    BY <1>5 DEF Receive, Replace, Accepts
  <2>2. /\ phase' \in [Calls -> {"idle", "sent", "done", "failed"}]
        /\ \A d \in Calls : phase'[d] \in {"idle", "sent"} =>
             phase'[d] = phase[d]
    BY <1>5 DEF Receive
  <2>3. QED
    BY <1>5, <2>1, <2>2 DEF Receive
<1>6. CASE ChangeElsewhere
  <2>1. \A d \in Calls : answer[d].as_of \in Nat /\ floor[d] \in Nat
          /\ snapshot.as_of \in Nat
    BY DEF Snapshots
  <2>2. changes \in Nat /\ changes' = changes + 1
    BY <1>6 DEF ChangeElsewhere
  <2>3. \A d \in Calls : /\ answer[d].as_of <= changes'
                         /\ phase[d] = "sent" => floor[d] <= changes'
    BY <2>1, <2>2
  <2>4. snapshot'.as_of <= changes'
    <3>1. snapshot' = snapshot
      BY <1>6 DEF ChangeElsewhere
    <3>2. snapshot.as_of \in Nat
      BY DEF Snapshots
    <3>3. snapshot.as_of <= changes + 1
      BY <2>2, <3>2
    <3>4. QED
      BY <2>2, <3>1, <3>3
  <2>5. TypeOK' /\ KeepsIdentity'
    BY <1>6, <2>2 DEF ChangeElsewhere
  <2>6. QED
    BY <1>6, <2>3, <2>4, <2>5 DEF ChangeElsewhere
<1>7. CASE UNCHANGED vars
  BY <1>7 DEF vars
<1>8. QED
  BY <1>1, <1>2, <1>3, <1>4, <1>5, <1>6, <1>7 DEF Next

\* A handle stays that of its session, and it knows nothing newer than it.
THEOREM HandleBookkeeping == Spec => []IInv
BY HandleInitially, HandleStep, PTL DEF Spec

\* An operation that succeeds leaves a snapshot at least as new as the one its
\* caller saw when it called.
THEOREM NoSetbackWithoutOverlap == Spec => NeverOlderThanAtCall
<1>1. IInv /\ [Next]_vars =>
        [\A c \in Calls : phase[c] = "sent" /\ phase'[c] = "done"
           => snapshot'.as_of >= floor[c]]_vars
  <2>1. SUFFICES ASSUME IInv, [Next]_vars, NEW c \in Calls,
                        phase[c] = "sent", phase'[c] = "done"
                 PROVE  snapshot'.as_of >= floor[c]
    OBVIOUS
  <2>2. phase \in [Calls -> {"idle", "sent", "done", "failed"}]
    BY <2>1 DEF IInv, TypeOK
  <2>3. Receive(c) /\ Accepts(c)
    BY <2>1, <2>2
    DEF Next, Call, Redispatch, GiveUp, Serve, Receive, ChangeElsewhere, vars
  <2>4. snapshot' = answer[c] /\ wire[c] = "answer"
    BY <2>3 DEF Receive, Replace
  <2>5. floor[c] <= answer[c].as_of /\ floor[c] \in Nat
          /\ answer[c].as_of \in Nat
    BY <2>1, <2>4 DEF IInv, TypeOK, Snapshots
  <2>6. QED
    BY <2>4, <2>5
<1>2. QED
  BY <1>1, HandleBookkeeping, PTL DEF Spec, NeverOlderThanAtCall

\* A failed operation leaves the snapshot as it was.
THEOREM FailureChangesNothing == Spec => OnlySuccessReplaces
<1>1. IInv /\ [Next]_vars =>
        [snapshot' # snapshot =>
           \E c \in Calls : /\ phase[c] = "sent" /\ phase'[c] = "done"
                            /\ snapshot' = answer[c]]_vars
  <2>1. SUFFICES ASSUME IInv, [Next]_vars, snapshot' # snapshot
                 PROVE  \E c \in Calls :
                          /\ phase[c] = "sent" /\ phase'[c] = "done"
                          /\ snapshot' = answer[c]
    OBVIOUS
  <2>2. PICK c \in Calls : Receive(c) /\ Accepts(c)
    BY <2>1
    DEF Next, Call, Redispatch, GiveUp, Serve, Receive, Replace,
        ChangeElsewhere, vars
  <2>3. phase \in [Calls -> {"idle", "sent", "done", "failed"}]
    BY <2>1 DEF IInv, TypeOK
  <2>4. QED
    BY <2>2, <2>3 DEF Receive, Replace
<1>2. QED
  BY <1>1, HandleBookkeeping, PTL DEF Spec, OnlySuccessReplaces

============================================================================
