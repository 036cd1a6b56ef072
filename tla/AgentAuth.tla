----------------------------- MODULE AgentAuth -----------------------------
(***************************************************************************)
(* agentSessions.agentAuth (src/agent-sessions.ts) with the decoding of    *)
(* its answer (src/domain.ts) and the no-store check of the transport: may *)
(* a program act on the evidence it is given about one process of an       *)
(* agent?                                                                  *)
(*                                                                         *)
(* Three clocks of events meet: the agent's process ends and another one   *)
(* takes its place; the service observes the process there is, grants the  *)
(* observation a lease, and its answer takes time to arrive; the program   *)
(* asks with a handle it got earlier, on a machine whose clock is off.     *)
(* Time is counted on the service's clock.                                 *)
(***************************************************************************)
EXTENDS Integers

CONSTANTS
  Ttl,          \* MAX_AGENT_AUTH_TTL_MS, in ticks
  FutureSkew,   \* MAX_AGENT_AUTH_FUTURE_SKEW_MS
  ClockErrors,  \* how far the program's clock may be ahead (or behind, < 0)
  Horizon,      \* bound on the time: TLC's only
  MaxEpoch      \* bound on the processes: TLC's only

ASSUME LeaseAssumption ==
  /\ Ttl \in Nat /\ FutureSkew \in Nat
  /\ ClockErrors \subseteq Int
  /\ Horizon \in Nat /\ MaxEpoch \in Nat

VARIABLES
  now,          \* the service's time
  skew,         \* the program's clock less the service's
  epoch,        \* which process the agent session runs: 0 before the first
  running,      \* whether it is running
  ended,        \* when each process that is over came to its end
  handle,       \* process epoch of the AgentSession the program holds
  answer,       \* the observation on its way to the program
  stage         \* how far the call has come

vars == <<now, skew, epoch, running, ended, handle, answer, stage>>

\* 0 stands for the epoch null of a session that has no process.
Epochs == 0..MaxEpoch

\* own: names the handle's session and its auth mode; cached: the answer does
\* not say no-store; positive: any evidence but "unavailable".
Observations ==
  [own : BOOLEAN, cached : BOOLEAN, positive : BOOLEAN, epoch : Epochs,
   observedAt : Nat, validUntil : Nat]
NoAnswer == [own |-> FALSE, cached |-> FALSE, positive |-> FALSE, epoch |-> 0,
             observedAt |-> 0, validUntil |-> 0]

TypeOK ==
  /\ now \in Nat /\ skew \in ClockErrors /\ epoch \in Epochs
  /\ running \in BOOLEAN
  /\ ended \in [Epochs -> Nat]
  /\ handle \in Epochs /\ answer \in Observations
  /\ stage \in {"idle", "asked", "answered", "accepted", "rejected"}

Init ==
  /\ now = 0 /\ skew \in ClockErrors
  /\ epoch = 0 /\ running = FALSE /\ ended = [e \in Epochs |-> 0]
  /\ handle = 0 /\ answer = NoAnswer /\ stage = "idle"

----------------------------------------------------------------------------
(* The agent's processes, and the service that observes them *)

Launch ==
  /\ ~running /\ epoch < MaxEpoch
  /\ epoch' = epoch + 1 /\ running' = TRUE
  /\ UNCHANGED <<now, skew, ended, handle, answer, stage>>

Exit ==
  /\ running
  /\ running' = FALSE /\ ended' = [ended EXCEPT ![epoch] = now]
  /\ UNCHANGED <<now, skew, epoch, handle, answer, stage>>

Tick ==
  /\ now < Horizon
  /\ now' = now + 1
  /\ UNCHANGED <<skew, epoch, running, ended, handle, answer, stage>>

\* What the service may say is the session's process.
Named == IF running THEN {epoch} ELSE {0, epoch}

\* The service looks at the process there is.  Its lease may be longer than
\* the program accepts, and the answer may be another session's or may come
\* without no-store.
Observe ==
  /\ stage = "asked" /\ stage' = "answered"
  /\ \E own, cached \in BOOLEAN :
       \/ /\ running
          /\ \E ttl \in 0..Ttl + 1 :
               answer' = [own |-> own, cached |-> cached, positive |-> TRUE,
                          epoch |-> epoch, observedAt |-> now,
                          validUntil |-> now + ttl]
       \/ \E e \in Named :
            answer' = [own |-> own, cached |-> cached, positive |-> FALSE,
                       epoch |-> e, observedAt |-> now, validUntil |-> now]
  /\ UNCHANGED <<now, skew, epoch, running, ended, handle>>

----------------------------------------------------------------------------
(* The program and the SDK *)

\* The program gets its AgentSession, by get, list or create.
Admit ==
  /\ stage = "idle"
  /\ handle' \in Named
  /\ UNCHANGED <<now, skew, epoch, running, ended, answer, stage>>

Ask ==
  /\ stage = "idle"
  /\ stage' = "asked"
  /\ UNCHANGED <<now, skew, epoch, running, ended, handle, answer>>

\* The request fails in the transport.
Fail ==
  /\ stage \in {"asked", "answered"}
  /\ stage' = "idle" /\ answer' = NoAnswer
  /\ UNCHANGED <<now, skew, epoch, running, ended, handle>>

local == now + skew

\* Mutants: an observation is good for as long as it likes, and one from the
\* future is never good, however small the difference between the clocks.
LastsForever == TRUE
StartedExactly == answer.observedAt <= local

Lasts == answer.validUntil > local
Started == answer.observedAt <= local + FutureSkew

\* decodeAgentSessionAuth, on the instants and the epoch
Decodes ==
  IF answer.positive
  THEN /\ answer.epoch # 0
       /\ answer.validUntil > answer.observedAt
       /\ answer.validUntil - answer.observedAt <= Ttl
       /\ Started /\ Lasts
  ELSE answer.validUntil = answer.observedAt

\* Mutant: any process of the session will do.
AcceptsAnyEpoch == ~answer.cached /\ Decodes /\ answer.own

Accepts == ~answer.cached /\ Decodes /\ answer.own /\ answer.epoch = handle

Receive ==
  /\ stage = "answered"
  /\ stage' = IF Accepts THEN "accepted" ELSE "rejected"
  /\ UNCHANGED <<now, skew, epoch, running, ended, handle, answer>>

AskAgain ==
  /\ stage \in {"accepted", "rejected"}
  /\ stage' = "idle" /\ answer' = NoAnswer
  /\ UNCHANGED <<now, skew, epoch, running, ended, handle>>

Next ==
  \/ Launch \/ Exit \/ Tick \/ Observe
  \/ Admit \/ Ask \/ Fail \/ Receive \/ AskAgain

Spec == Init /\ [][Next]_vars

----------------------------------------------------------------------------
(* Properties *)

\* Evidence that is handed on is younger than a lease, less what the program's
\* clock is ahead, and the process the program's handle names is running or
\* ended after the evidence was taken: a program never acts on evidence of a
\* process that was over when it was observed, nor on another process's
\* (domain.ts 326-346, agent-sessions.ts 326-333).
EvidenceIsRecent ==
  [][stage = "answered" /\ stage' = "accepted" /\ answer.positive =>
       /\ now - answer.observedAt < Ttl - skew
       /\ \/ handle = epoch /\ running
          \/ handle \in 1..epoch /\ ended[handle] >= answer.observedAt]_vars

\* Sound evidence of the session that arrives within its lease is refused only
\* because the handle is out of date, as long as the program's clock is not
\* ahead and not further behind than the skew the SDK tolerates.
RefusalMeansStaleHandle ==
  [][stage = "answered" /\ stage' = "rejected" /\ answer.positive
     /\ answer.own /\ ~answer.cached
     /\ answer.validUntil - answer.observedAt \in 1..Ttl
     /\ now < answer.validUntil /\ skew \in -FutureSkew..0 =>
       handle < answer.epoch]_vars

\* The inductive invariant behind both: nothing is observed ahead of time, and
\* a process that was observed was running then.
IInv ==
  /\ TypeOK
  /\ handle <= epoch
  /\ running => epoch # 0
  /\ stage \in {"idle", "asked"} => ~answer.positive
  /\ answer.positive =>
       /\ answer.epoch # 0 /\ handle <= answer.epoch /\ answer.epoch <= epoch
       /\ answer.observedAt <= now
       /\ \/ answer.epoch = epoch /\ running
          \/ ended[answer.epoch] >= answer.observedAt

============================================================================
