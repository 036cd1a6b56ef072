------------------------ MODULE SessionCreateProofs ------------------------
(***************************************************************************)
(* What sessions.create promises for any options and any number of calls:  *)
(* IInv of SessionCreate is inductive, a stable key makes one session, and *)
(* no request carries two network policies.                                *)
(***************************************************************************)
EXTENDS SessionCreate, FiniteSetTheorems, TLAPS

\* The key of the next request is a key, and counts it.
LEMMA KeyOfNextCall ==
  ASSUME calls \in Nat
  PROVE  IdempotencyKey \in Keys /\ IdempotencyKey.nonce <= calls + 1
BY DEF IdempotencyKey, Keys

LEMMA CreateInitially == Init => IInv
<1> SUFFICES ASSUME Init PROVE IInv
  OBVIOUS
<1>1. sentKey \in Keys
  BY DEF Init, Keys
<1>2. QED
  BY <1>1 DEF Init, IInv, TypeOK

LEMMA CreateStep == IInv /\ [Next]_vars => IInv'
<1> SUFFICES ASSUME IInv, [Next]_vars PROVE IInv'
  OBVIOUS
<1>1. CASE Refuse
  BY <1>1 DEF IInv, TypeOK, Refuse, Acceptable, PoliciesAcceptable, IsSet, Body
<1>2. CASE Create
  <2> DEFINE r == [key |-> IdempotencyKey, body |-> Body]
  <2>1. requests' = requests \cup {r} /\ sentKey' = IdempotencyKey
    BY <1>2 DEF Create
  <2>2. /\ UNCHANGED <<options, key, sessions, handle>>
        /\ stage' = "sent" /\ calls' = calls + 1 /\ Acceptable
    BY <1>2 DEF Create
  <2>3. IdempotencyKey \in Keys /\ IdempotencyKey.nonce <= calls + 1
    BY KeyOfNextCall DEF IInv, TypeOK
  <2>4. Body \in SUBSET (Fields \cup {Unknown})
    BY DEF Body
  <2>5. r \in Requests /\ r.key = IdempotencyKey /\ r.body = Body
    BY <2>3, <2>4 DEF Requests
  <2>6. TypeOK'
    BY <2>1, <2>2, <2>3, <2>5 DEF IInv, TypeOK
  <2>7. Body' = Body /\ Acceptable'
    BY <2>2 DEF Body, Acceptable, PoliciesAcceptable, IsSet
  <2>8. \A q \in requests' : q.key.nonce <= calls' /\ q.body = Body'
    <3>1. \A q \in requests : q.key.nonce \in Nat
      BY DEF IInv, TypeOK, Requests, Keys
    <3>2. QED
      BY <2>1, <2>2, <2>3, <2>5, <2>7, <3>1 DEF IInv, TypeOK
  <2>9. key' = "stable" =>
          \A q \in requests' : q.key = [kind |-> "stable", nonce |-> 0]
    BY <2>1, <2>2, <2>5 DEF IInv, IdempotencyKey
  <2>10. QED
    BY <2>1, <2>2, <2>5, <2>6, <2>7, <2>8, <2>9 DEF IInv
<1>3. ASSUME NEW r \in requests, Serve(r) PROVE IInv'
  BY <1>3 DEF IInv, TypeOK, Serve, Acceptable, PoliciesAcceptable, IsSet, Body
<1>4. CASE Receive
  <2>1. PICK s \in sessions : s.key = sentKey /\ handle' = {s}
    BY <1>4 DEF Receive
  <2>2. QED
    BY <1>4, <2>1
       DEF IInv, TypeOK, Receive, Acceptable, PoliciesAcceptable, IsSet, Body
<1>5. CASE Fail
  BY <1>5 DEF IInv, TypeOK, Fail, Acceptable, PoliciesAcceptable, IsSet, Body
<1>6. CASE UNCHANGED vars
  BY <1>6
     DEF IInv, TypeOK, vars, Acceptable, PoliciesAcceptable, IsSet, Body
<1>7. QED
  BY <1>1, <1>2, <1>3, <1>4, <1>5, <1>6 DEF Next

\* The strengthened invariant holds in every reachable state, whatever the
\* options are and however many calls fail (client.ts 281-299).
THEOREM CreateBookkeeping == Spec => []IInv
BY CreateInitially, CreateStep, PTL DEF Spec

\* Retrying sessions.create with one idempotencyKey never makes a second
\* session (client.ts 293-298).
THEOREM OneSessionPerKey == Spec => []StableKeyMakesOneSession
<1>1. IInv => StableKeyMakesOneSession
  <2> SUFFICES ASSUME IInv, key = "stable"
               PROVE  /\ Cardinality(sessions) <= 1
                      /\ stage = "created" => sessions = handle
    BY DEF StableKeyMakesOneSession
  <2>1. \A s, t \in sessions : s = t
    BY DEF IInv
  <2>2. CASE sessions = {}
    BY <2>2, FS_EmptySet DEF IInv
  <2>3. ASSUME NEW s \in sessions
        PROVE  /\ Cardinality(sessions) <= 1
               /\ stage = "created" => sessions = handle
    <3>1. sessions = {s}
      BY <2>1, <2>3
    <3>2. Cardinality(sessions) = 1
      BY <3>1, FS_Singleton
    <3>3. stage = "created" => \E t \in sessions : handle = {t}
      BY DEF IInv
    <3>4. QED
      BY <3>1, <3>2, <3>3
  <2>4. QED
    BY <2>2, <2>3
<1>2. QED
  BY <1>1, CreateBookkeeping, PTL

\* Whatever options a program passes, no request carries both an allowlist of
\* hosts and an outbound policy (client.ts 239-241).
THEOREM NeverTwoPolicies == Spec => []OnePolicyPerRequest
<1>1. IInv => OnePolicyPerRequest
  BY DEF IInv, OnePolicyPerRequest, Acceptable, PoliciesAcceptable, IsSet, Body
<1>2. QED
  BY <1>1, CreateBookkeeping, PTL

============================================================================
