-------------------------- MODULE AgentAuthProofs --------------------------
(***************************************************************************)
(* What evidence about an agent's process is worth when it is handed on,   *)
(* for every length of a lease, every tolerated skew and every error of    *)
(* the program's clock (src/domain.ts, src/agent-sessions.ts).             *)
(***************************************************************************)
EXTENDS AgentAuth, TLAPS

USE LeaseAssumption

LEMMA InitInv == Init => IInv
<1>1. NoAnswer \in Observations /\ ~NoAnswer.positive
  BY DEF NoAnswer, Observations, Epochs
<1>2. ASSUME Init
      PROVE  IInv
  <2>1. 0 \in Epochs /\ [e \in Epochs |-> 0] \in [Epochs -> Nat]
    BY DEF Epochs
  <2>2. TypeOK
    BY <1>1, <1>2, <2>1 DEF Init, TypeOK
  <2>3. QED
    BY <1>1, <1>2, <2>2 DEF Init, IInv
<1>3. QED
  BY <1>2

\* The evidence on its way is of a process that ran when it was observed; a
\* process ends after that, or not at all.
LEMMA StepInv == IInv /\ [Next]_vars => IInv'
<1> SUFFICES ASSUME IInv, [Next]_vars
             PROVE  IInv'
  OBVIOUS
<1> USE DEF IInv, TypeOK, Epochs
<1>1. CASE Launch
  BY <1>1 DEF Launch, Observations
<1>2. CASE Exit
  BY <1>2 DEF Exit, Observations
<1>3. CASE Tick
  BY <1>3 DEF Tick, Observations
<1>4. CASE Observe
  <2>1. epoch' = epoch /\ running' = running /\ handle' = handle
        /\ now' = now /\ skew' = skew /\ ended' = ended /\ stage' = "answered"
    BY <1>4 DEF Observe
  <2>2. PICK own, cached \in BOOLEAN :
          \/ /\ running
             /\ \E ttl \in 0..Ttl + 1 :
                  answer' = [own |-> own, cached |-> cached, positive |-> TRUE,
                             epoch |-> epoch, observedAt |-> now,
                             validUntil |-> now + ttl]
          \/ \E e \in Named :
               answer' = [own |-> own, cached |-> cached, positive |-> FALSE,
                          epoch |-> e, observedAt |-> now, validUntil |-> now]
    BY <1>4 DEF Observe
  <2>3. answer' \in Observations
    <3>1. Named \subseteq Epochs
      BY DEF Named
    <3>2. \A e \in Epochs, t \in Nat, p \in BOOLEAN :
            [own |-> own, cached |-> cached, positive |-> p, epoch |-> e,
             observedAt |-> now, validUntil |-> t] \in Observations
      BY DEF Observations
    <3>3. \A ttl \in 0..Ttl + 1 : now + ttl \in Nat
      OBVIOUS
    <3>4. QED
      BY <2>2, <3>1, <3>2, <3>3
  <2>4. answer'.positive => running /\ answer'.epoch = epoch
                            /\ answer'.observedAt = now
    BY <2>2
  <2>5. QED
    BY <2>1, <2>3, <2>4
<1>5. CASE Admit
  <2>1. ~answer.positive
    BY <1>5 DEF Admit
  <2>2. QED
    BY <1>5, <2>1 DEF Admit, Named
<1>6. CASE Ask
  BY <1>6 DEF Ask
<1>7. CASE Fail \/ AskAgain
  <2>1. NoAnswer \in Observations /\ ~NoAnswer.positive
    BY DEF NoAnswer, Observations
  <2>2. QED
    BY <1>7, <2>1 DEF Fail, AskAgain
<1>8. CASE Receive
  BY <1>8 DEF Receive
<1>9. CASE UNCHANGED vars
  BY <1>9 DEF vars
<1>10. QED
  BY <1>1, <1>2, <1>3, <1>4, <1>5, <1>6, <1>7, <1>8, <1>9 DEF Next

\* In every reachable state the evidence on its way was observed in the past,
\* of a process that the handle does not come after and that was running then.
THEOREM EvidenceBookkeeping == Spec => []IInv
  BY InitInv, StepInv, PTL DEF Spec

----------------------------------------------------------------------------

\* Only Receive hands evidence on or refuses it.
LEMMA OnlyReceiveDecides ==
  ASSUME IInv, [Next]_vars, stage = "answered",
         stage' \in {"accepted", "rejected"}
  PROVE  /\ stage' = "accepted" <=> Accepts
         /\ stage' \in {"accepted", "rejected"}
  BY DEF Next, vars, Launch, Exit, Tick, Observe, Admit, Ask, Fail, Receive,
         AskAgain

\* Evidence that is handed on is within a lease of its observation, and the
\* process the handle names is running or ended after it.
THEOREM EvidenceIsOfTheHandle == Spec => EvidenceIsRecent
<1>1. IInv /\ [Next]_vars =>
        [stage = "answered" /\ stage' = "accepted" /\ answer.positive =>
           /\ now - answer.observedAt < Ttl - skew
           /\ \/ handle = epoch /\ running
              \/ handle \in 1..epoch /\ ended[handle] >= answer.observedAt]_vars
  <2> SUFFICES ASSUME IInv, [Next]_vars, stage = "answered",
                      stage' = "accepted", answer.positive
               PROVE  /\ now - answer.observedAt < Ttl - skew
                      /\ \/ handle = epoch /\ running
                         \/ /\ handle \in 1..epoch
                            /\ ended[handle] >= answer.observedAt
    OBVIOUS
  <2>1. Accepts
    BY OnlyReceiveDecides
  <2>2. /\ now \in Nat /\ skew \in Int /\ handle \in Nat /\ epoch \in Nat
        /\ answer.observedAt \in Nat /\ answer.validUntil \in Nat
    BY DEF IInv, TypeOK, Observations, Epochs
  <2>3. now - answer.observedAt < Ttl - skew
    BY <2>1, <2>2 DEF Accepts, Decodes, Lasts, local
  <2>4. answer.epoch = handle
    BY <2>1 DEF Accepts
  <2>5. QED
    BY <2>2, <2>3, <2>4 DEF IInv
<1>2. QED
  BY <1>1, EvidenceBookkeeping, PTL DEF Spec, EvidenceIsRecent

\* Sound evidence in time is refused only for a handle that is out of date,
\* whatever the difference between the clocks within what is tolerated.
THEOREM RefusalIsOfTheHandle == Spec => RefusalMeansStaleHandle
<1>1. IInv /\ [Next]_vars =>
        [stage = "answered" /\ stage' = "rejected" /\ answer.positive
         /\ answer.own /\ ~answer.cached
         /\ answer.validUntil - answer.observedAt \in 1..Ttl
         /\ now < answer.validUntil /\ skew \in -FutureSkew..0 =>
           handle < answer.epoch]_vars
  <2> SUFFICES ASSUME IInv, [Next]_vars, stage = "answered",
                      stage' = "rejected", answer.positive,
                      answer.own, ~answer.cached,
                      answer.validUntil - answer.observedAt \in 1..Ttl,
                      now < answer.validUntil, skew \in -FutureSkew..0
               PROVE  handle < answer.epoch
    OBVIOUS
  <2>1. ~Accepts
    BY OnlyReceiveDecides
  <2>2. /\ now \in Nat /\ skew \in Int /\ handle \in Nat
        /\ answer.epoch \in Nat
        /\ answer.observedAt \in Nat /\ answer.validUntil \in Nat
    BY DEF IInv, TypeOK, Observations, Epochs
  <2>3. Lasts /\ Started
    BY <2>2 DEF Lasts, Started, local, IInv
  <2>4. Decodes
    BY <2>2, <2>3 DEF Decodes, IInv
  <2>5. answer.epoch # handle
    BY <2>1, <2>4 DEF Accepts
  <2>6. QED
    BY <2>2, <2>5 DEF IInv
<1>2. QED
  BY <1>1, EvidenceBookkeeping, PTL DEF Spec, RefusalMeansStaleHandle

============================================================================
