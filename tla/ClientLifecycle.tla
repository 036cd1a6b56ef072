-------------------------- MODULE ClientLifecycle --------------------------
(***************************************************************************)
(* What a Cuna client promises about closing, without saying how: work is  *)
(* admitted until the first close, admitted work completes on its own, and *)
(* the close is finished exactly when nothing is admitted any more and     *)
(* nothing that was admitted is still in flight.                           *)
(* ClientContext is shown to implement this.                               *)
(***************************************************************************)
EXTENDS Naturals

CONSTANT Calls          \* the operations a program may start on one client

VARIABLES
  admitting,            \* no close was requested yet
  inflight,             \* the admitted operations that have not completed
  finished              \* the close promise is resolved

vars == <<admitting, inflight, finished>>

Init ==
  /\ admitting = TRUE
  /\ inflight = {}
  /\ finished = FALSE

\* An operation is accepted; only before the first close.
Admit(c) ==
  /\ admitting
  /\ c \notin inflight
  /\ inflight' = inflight \cup {c}
  /\ UNCHANGED <<admitting, finished>>

\* An accepted operation completes; the last one finishes a requested close.
Complete(c) ==
  /\ c \in inflight
  /\ inflight' = inflight \ {c}
  /\ finished' = (~admitting /\ inflight' = {})
  /\ UNCHANGED admitting

\* The first close: an idle client finishes at once.
Shut ==
  /\ admitting
  /\ admitting' = FALSE
  /\ finished' = (inflight = {})
  /\ UNCHANGED inflight

Next ==
  \/ \E c \in Calls : Admit(c) \/ Complete(c)
  \/ Shut

Spec == Init /\ [][Next]_vars /\ \A c \in Calls : WF_vars(Complete(c))

\* A requested close finishes.
Finishes == ~admitting ~> finished

============================================================================
