--------------------------- MODULE ReleaseLedger ---------------------------
(***************************************************************************)
(* What the release workflow promises those who install a version: whoever *)
(* works on it and however often, it passes from its signature over the    *)
(* staged package, the registry and the receipt to the public release, one *)
(* commit behind all of them, and nothing of it is ever taken back or      *)
(* replaced.  Only the registry is open to others.                         *)
(***************************************************************************)
EXTENDS Naturals

CONSTANTS
  Commits,
  VersionOf,    \* which version a commit carries
  Versions,
  None,
  Foreign       \* stands for a package of somebody else

VARIABLES
  signer,       \* by version: the commit it was signed for
  package,      \* by version: the commit whose package is staged
  holder,       \* by version: whose package the registry has
  receipt,      \* by version: the commit whose publication is verified
  public        \* by version: the release can be seen

vars == <<signer, package, holder, receipt, public>>

Init ==
  /\ signer = [v \in Versions |-> None]
  /\ package = [v \in Versions |-> None]
  /\ holder = [v \in Versions |-> None]
  /\ receipt = [v \in Versions |-> None]
  /\ public = [v \in Versions |-> FALSE]

Sign(c) ==
  /\ signer[VersionOf[c]] = None
  /\ signer' = [signer EXCEPT ![VersionOf[c]] = c]
  /\ UNCHANGED <<package, holder, receipt, public>>

Stage(v) ==
  /\ signer[v] # None /\ package[v] = None
  /\ package' = [package EXCEPT ![v] = signer[v]]
  /\ UNCHANGED <<signer, holder, receipt, public>>

Publish(v) ==
  /\ package[v] # None /\ holder[v] = None
  /\ holder' = [holder EXCEPT ![v] = package[v]]
  /\ UNCHANGED <<signer, package, receipt, public>>

\* Somebody else's package is on the registry before the workflow's.
PublishElsewhere(v) ==
  /\ holder[v] = None
  /\ holder' = [holder EXCEPT ![v] = Foreign]
  /\ UNCHANGED <<signer, package, receipt, public>>

Verify(v) ==
  /\ holder[v] \notin {None, Foreign} /\ receipt[v] = None
  /\ receipt' = [receipt EXCEPT ![v] = holder[v]]
  /\ UNCHANGED <<signer, package, holder, public>>

Promote(v) ==
  /\ receipt[v] # None
  /\ public' = [public EXCEPT ![v] = TRUE]
  /\ UNCHANGED <<signer, package, holder, receipt>>

Next ==
  \/ \E c \in Commits : Sign(c)
  \/ \E v \in Versions :
       \/ Stage(v) \/ Publish(v) \/ PublishElsewhere(v) \/ Verify(v)
       \/ Promote(v)

Spec == Init /\ [][Next]_vars

============================================================================
