----------------------------- MODULE EchoChecks -----------------------------
(***************************************************************************)
(* Calls of a manager method that holds its answer against what it was     *)
(* asked: sessions and capabilities (src/client.ts), agentSessions         *)
(* (src/agent-sessions.ts), workspaceBindings (src/workspace-bindings.ts)  *)
(* and workspaceSync (src/workspace-sync.ts).                              *)
(*                                                                         *)
(* A method builds its request before its await and compares the answer    *)
(* after it.  Meanwhile the program goes on: it writes to the object it    *)
(* passed, and passes the same object to another call, so that several     *)
(* calls with different requests are out at once.  What a field is         *)
(* compared with is an argument, or a copy the method made before the      *)
(* await, or the program's object read again.  The service answers in any  *)
(* order, also with the answer to another call, or with a field that       *)
(* belongs to nobody's.                                                    *)
(***************************************************************************)
EXTENDS Naturals

CONSTANTS
  EchoCalls,    \* calls the program makes of the method
  FieldValues,  \* what a field may say
  FirstValues,  \* what a field of the program's object may say at first
  MaxWrites     \* bound on the writes of the program: TLC's only

ASSUME EchoAssumption == FirstValues \subseteq FieldValues /\ MaxWrites \in Nat

VARIABLES
  method,       \* which method is called
  options,      \* the object the program passes to every call
  writes,       \* how often the program has written to it
  asked,        \* what each field said when each call was made
  held,         \* the arguments and copies each call keeps over its await
  rewritten,    \* the fields the program wrote to while the call was out
  answer,       \* what the service answered
  stage         \* how far each call has come

echoVars == <<method, options, writes, asked, held, rewritten, answer, stage>>

\* The fields a method compares, by what it compares them with: an argument,
\* a copy made before the await, the caller's object read after it.  Of a page
\* a field stands for that of each item; of a range (protocol, readerVersion)
\* for the range the answer's value has to be in.
Method(passed, copied, reread) ==
  [passed |-> passed, copied |-> copied, reread |-> reread]

Identity == {"workspaceId", "projectId", "localInstanceId", "machineId",
             "exclusionPolicyDigest"}

Methods ==
  [getSession |-> Method({"id"}, {}, {}),
   getCapabilities |-> Method({"scope", "resourceId"}, {}, {}),
   getAccountCapabilities |-> Method({"scope"}, {}, {}),
   listAgents |-> Method({"machineId"}, {}, {}),
   createAgent |->
     Method({"machineId"}, {},
            {"agent", "cwd", "workspaceBindingId", "workspaceGeneration"}),
   getAgent |-> Method({"id"}, {}, {}),
   agentAuth |-> Method({}, {}, {"id", "authMode", "processEpoch"}),
   renameAgent |-> Method({"id", "name"}, {}, {}),
   terminateAgent |-> Method({"id"}, {}, {}),
   createBinding |-> Method({}, Identity, {}),
   getBinding |-> Method({"bindingId"}, Identity, {}),
   begin |->
     Method({"workspaceId"},
            {"machineId", "baseGeneration", "exclusionPolicyDigest",
             "protocol"}, {}),
   negotiate |-> Method({"syncId"}, {"pageIndex"}, {}),
   uploadChunk |-> Method({"digest"}, {"byteLength"}, {}),
   downloadChunk |-> Method({"digest"}, {}, {}),
   commit |->
     Method({}, {"expectedGeneration", "manifestRoot", "minimumReader",
                 "minimumWriter"}, {}),
   changes |-> Method({}, {"readerVersion"}, {}),
   reconcile |-> Method({}, {"exclusionPolicyDigest", "protocol"}, {})]

Passed == Methods[method].passed
Copied == Methods[method].copied
Reread == Methods[method].reread
ObjectFields == Copied \cup Reread
Fields == Passed \cup ObjectFields

Unsaid == "unsaid"
Sayings == [Fields -> FieldValues \cup {Unsaid}]
Blank == [f \in Fields |-> Unsaid]

Out(c) == stage[c] \in {"sent", "answered"}

EchoInit ==
  /\ method \in DOMAIN Methods
  /\ options \in [ObjectFields -> FirstValues]
  /\ writes = 0
  /\ asked = [c \in EchoCalls |-> Blank]
  /\ held = [c \in EchoCalls |-> Blank]
  /\ rewritten = [c \in EchoCalls |-> {}]
  /\ answer = [c \in EchoCalls |-> Blank]
  /\ stage = [c \in EchoCalls |-> "idle"]

----------------------------------------------------------------------------
(* The method up to its await, and after it *)

\* The request is built of what the fields say now, and the method keeps its
\* arguments and its copies.
Send(c) ==
  /\ stage[c] = "idle"
  /\ \E arguments \in [Passed -> FieldValues] :
       LET said == [f \in Fields |-> IF f \in Passed THEN arguments[f]
                                     ELSE options[f]]
       IN  /\ asked' = [asked EXCEPT ![c] = said]
           /\ held' = [held EXCEPT ![c] =
                         [f \in Fields |-> IF f \in Reread THEN Unsaid
                                           ELSE said[f]]]
  /\ stage' = [stage EXCEPT ![c] = "sent"]
  /\ UNCHANGED <<method, options, writes, rewritten, answer>>

\* Mutant: no copy is made, and the object is read again after the await.
ExpectedLive(c, f) == IF f \in Passed THEN held[c][f] ELSE options[f]

\* What a field of the answer is held against.
Expected(c, f) == IF f \in Reread THEN options[f] ELSE held[c][f]

Matches(c) == \A f \in Fields : answer[c][f] = Expected(c, f)

\* Hand the answer on, or reject with malformed_response.
Judge(c) ==
  /\ stage[c] = "answered"
  /\ stage' = [stage EXCEPT ![c] = IF Matches(c) THEN "accepted" ELSE "rejected"]
  /\ UNCHANGED <<method, options, writes, asked, held, rewritten, answer>>

\* The transport rejects, and so does the method.
Fail(c) ==
  /\ stage[c] = "sent"
  /\ stage' = [stage EXCEPT ![c] = "failed"]
  /\ UNCHANGED <<method, options, writes, asked, held, rewritten, answer>>

----------------------------------------------------------------------------
(* The program and the service *)

\* The program writes to the object it passes.  (An AgentSession the SDK made
\* is frozen; one the program put together is not.)
Write(f, v) ==
  /\ writes < MaxWrites
  /\ options[f] # v
  /\ options' = [options EXCEPT ![f] = v]
  /\ writes' = writes + 1
  /\ rewritten' = [c \in EchoCalls |-> IF Out(c) THEN rewritten[c] \cup {f}
                                       ELSE rewritten[c]]
  /\ UNCHANGED <<method, asked, held, answer, stage>>

\* The service answers as to one of the calls it knows of, but for a field at
\* most.
Serve(c) ==
  /\ stage[c] = "sent"
  /\ \E d \in EchoCalls, f \in Fields, v \in FieldValues :
       /\ stage[d] # "idle"
       /\ \/ answer' = [answer EXCEPT ![c] = asked[d]]
          \/ answer' = [answer EXCEPT ![c] = [asked[d] EXCEPT ![f] = v]]
  /\ stage' = [stage EXCEPT ![c] = "answered"]
  /\ UNCHANGED <<method, options, writes, asked, held, rewritten>>

EchoNext ==
  \/ \E c \in EchoCalls : Send(c) \/ Serve(c) \/ Judge(c) \/ Fail(c)
  \/ \E f \in ObjectFields, v \in FieldValues : Write(f, v)

EchoSpec == EchoInit /\ [][EchoNext]_echoVars

----------------------------------------------------------------------------
(* Properties *)

\* The methods that read the caller's object again.
Rereading == {"createAgent", "agentAuth"}

\* What the program has put out of the method's hands: with a method that
\* reads its object again, the fields it wrote to while the call was out.
Exposed(c) == IF method \in Rereading THEN rewritten[c] ELSE {}

AsAsked(c, f) == answer[c][f] = asked[c][f]

\* However many calls share an object, whatever is written to it meanwhile
\* and whatever the service mixes up: each call hands on the answer to its own
\* request, and rejects no other answer.  Only createAgent and agentAuth may
\* be misled, and only in the fields the program itself wrote to while the
\* call was out (client.ts 311-316, 351-366; agent-sessions.ts 285-386;
\* workspace-bindings.ts 129-188; workspace-sync.ts 346-466).
AnsweredAsAsked ==
  \A c \in EchoCalls :
    /\ stage[c] = "accepted" => \A f \in Fields \ Exposed(c) : AsAsked(c, f)
    /\ stage[c] = "rejected" =>
         \E f \in Fields : ~AsAsked(c, f) \/ f \in Exposed(c)

\* Behind it: while a call is out it holds what it asked, and the object still
\* says so wherever the program has not written since.
EchoTypes ==
  /\ method \in DOMAIN Methods
  /\ options \in [ObjectFields -> FieldValues]
  /\ asked \in [EchoCalls -> Sayings]
  /\ held \in [EchoCalls -> Sayings]
  /\ answer \in [EchoCalls -> Sayings]
  /\ rewritten \in [EchoCalls -> SUBSET ObjectFields]
  /\ stage \in [EchoCalls -> {"idle", "sent", "answered", "accepted", "rejected",
                             "failed"}]

HoldsWhatItAsked(c) ==
  \A f \in Fields :
    /\ f \notin Reread => held[c][f] = asked[c][f]
    /\ f \in Reread \ rewritten[c] => options[f] = asked[c][f]

EchoInv ==
  /\ EchoTypes
  /\ \A c \in EchoCalls : Out(c) => HoldsWhatItAsked(c)
  /\ AnsweredAsAsked

\* What test/agent-sessions.test.mjs:464 says of agentSessions.create:
\* "AgentSession create rejects substituted workspace authority".
CreateRejectsSubstitutes ==
  \A c \in EchoCalls :
    method = "createAgent" /\ stage[c] = "accepted" =>
      \A f \in Fields : AsAsked(c, f)

============================================================================
