--------------------------- MODULE SessionCreate ---------------------------
(***************************************************************************)
(* sessions.create (src/client.ts): a program wants one session, and calls *)
(* create with the same options until a call succeeds.  The module has the *)
(* validation of the options, the body and the idempotency key that are    *)
(* sent, the calls that fail while their request is still under way, and   *)
(* what the server makes of the requests that reach it, early or late.     *)
(*                                                                         *)
(* What a field is given is abstracted to what the validation tells apart: *)
(* an own property that is missing, undefined, valid or not.               *)
(***************************************************************************)
EXTENDS Naturals, FiniteSets

CONSTANTS
  Sizes,        \* the independent options: vcpus, memoryMiB, runtimePort
  MaxCalls      \* bound on the program's calls of create: TLC's only

ASSUME SizesAssumption ==
  Sizes \cap {"agent", "allowedHosts", "outboundPolicy", "background"} = {}
ASSUME MaxCallsAssumption == MaxCalls \in Nat

Given == {"missing", "undefined", "valid", "invalid"}

\* The fields of SessionCreateOptions, and one that is not among them.
Fields == Sizes \cup {"agent", "allowedHosts", "outboundPolicy"}
Unknown == "background"

VARIABLES
  options,      \* what the program passes in each field
  key,          \* its idempotencyKey: "none", "stable" or "malformed"
  stage,        \* how far the latest call has come
  calls,        \* calls of create that passed the validation
  sentKey,      \* the Idempotency-Key of the latest call's request
  requests,     \* requests sent, which may reach the server at any time
  sessions,     \* the server's sessions: those requests that made one
  handle        \* the session the successful call returned: {} or its singleton

vars == <<options, key, stage, calls, sentKey, requests, sessions,
          handle>>

Keys == {[kind |-> "stable", nonce |-> 0]}
          \cup [kind : {"random"}, nonce : Nat]
Requests == [key : Keys, body : SUBSET (Fields \cup {Unknown})]

TypeOK ==
  /\ options \in [Fields \cup {Unknown} -> Given]
  /\ key \in {"none", "stable", "malformed"}
  /\ stage \in {"ready", "sent", "failed", "refused", "created"}
  /\ calls \in Nat
  /\ sentKey \in Keys
  /\ requests \subseteq Requests
  /\ sessions \subseteq Requests
  /\ handle \subseteq sessions

Init ==
  /\ options \in [Fields \cup {Unknown} -> Given]
  /\ key \in {"none", "stable", "malformed"}
  /\ stage = "ready" /\ calls = 0
  /\ sentKey = [kind |-> "random", nonce |-> 0]
  /\ requests = {} /\ sessions = {} /\ handle = {}

----------------------------------------------------------------------------
(* The options *)

IsSet(f) == options[f] \notin {"missing", "undefined"}

\* Mutant: the two network policies are not held against each other.
AcceptablePolicies ==
  options["allowedHosts"] # "invalid" /\ options["outboundPolicy"] # "invalid"

PoliciesAcceptable ==
  /\ options["allowedHosts"] # "invalid"
  /\ options["outboundPolicy"] # "invalid"
  /\ ~(IsSet("allowedHosts") /\ IsSet("outboundPolicy"))

\* An own agent property must be valid; the other fields may be undefined.
Acceptable ==
  /\ key # "malformed"
  /\ options[Unknown] = "missing"
  /\ options["agent"] \in {"missing", "valid"}
  /\ PoliciesAcceptable
  /\ \A f \in Sizes : options[f] # "invalid"

Body == {f \in Fields : options[f] = "valid"}

\* Mutant: the caller's key is forgotten and every call draws its own.
FreshKey == [kind |-> "random", nonce |-> calls + 1]

IdempotencyKey ==
  IF key = "stable" THEN [kind |-> "stable", nonce |-> 0]
  ELSE [kind |-> "random", nonce |-> calls + 1]

----------------------------------------------------------------------------
(* The calls *)

Refuse ==
  /\ stage = "ready"
  /\ ~Acceptable
  /\ stage' = "refused"
  /\ UNCHANGED <<options, key, calls, sentKey, requests, sessions,
                 handle>>

Create ==
  /\ stage \in {"ready", "failed"}
  /\ calls < MaxCalls
  /\ Acceptable
  /\ stage' = "sent"
  /\ calls' = calls + 1
  /\ sentKey' = IdempotencyKey
  /\ requests' = requests \cup {[key |-> IdempotencyKey, body |-> Body]}
  /\ UNCHANGED <<options, key, sessions, handle>>

\* The server makes a session of a request whose key it has not seen, and
\* knows that session again by the key.
Serve(r) ==
  /\ r \in requests
  /\ \A s \in sessions : s.key # r.key
  /\ sessions' = sessions \cup {r}
  /\ UNCHANGED <<options, key, stage, calls, sentKey, requests, handle>>

\* Its answer, the session of that key, resolves the latest call.
Receive ==
  /\ stage = "sent"
  /\ \E s \in sessions : s.key = sentKey /\ handle' = {s}
  /\ stage' = "created"
  /\ UNCHANGED <<options, key, calls, sentKey, requests, sessions>>

\* The call fails before that: a timeout, a broken connection, an error.
Fail ==
  /\ stage = "sent"
  /\ stage' = "failed"
  /\ UNCHANGED <<options, key, calls, sentKey, requests, sessions,
                 handle>>

Next == Refuse \/ Create \/ (\E r \in requests : Serve(r)) \/ Receive \/ Fail

Spec == Init /\ [][Next]_vars

----------------------------------------------------------------------------
(* Properties *)

\* A program that passes one stable idempotencyKey with every call gets one
\* session at most, and the one it gets a handle of, however many calls failed
\* while their request was under way (client.ts 293-298).
StableKeyMakesOneSession ==
  key = "stable" => /\ Cardinality(sessions) <= 1
                    /\ stage = "created" => sessions = handle

\* No request carries both network policies (client.ts 239-241).
OnePolicyPerRequest ==
  \A r \in requests : ~({"allowedHosts", "outboundPolicy"} \subseteq r.body)

\* The inductive invariant behind both: only requests make sessions,
\* no two sessions share a key, a random key is never drawn twice, and a stable
\* key is the key of every request.
IInv ==
  /\ TypeOK
  /\ sessions \subseteq requests
  /\ \A s, t \in sessions : s.key = t.key => s = t
  /\ \A r \in requests : r.key.nonce <= calls /\ r.body = Body
  /\ requests # {} => Acceptable
  /\ stage = "sent" => \E r \in requests : r.key = sentKey
  /\ stage = "created" => \E s \in sessions : handle = {s}
  /\ key = "stable" =>
       \A r \in requests : r.key = [kind |-> "stable", nonce |-> 0]

============================================================================
