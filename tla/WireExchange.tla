----------------------------- MODULE WireExchange -----------------------------
(***************************************************************************)
(* One exchange of the client with the service: a method is called with    *)
(* arguments, its body is sent, an answer or a problem comes back and is   *)
(* decoded.  Arguments and answers start out typical and have up to        *)
(* MaxEdits members altered, so that every member lies on both sides of    *)
(* each limit the contract or the code gives it.                           *)
(***************************************************************************)
EXTENDS WireOperations

CONSTANTS
  Twice     \* the operations whose messages have two members altered, not one

VARIABLES
  op,       \* the operation
  phase,    \* "called", "sent", "answered", "done"
  about,    \* what message is: "arguments", "answer", "problem", "syncProblem", "error"
  message,  \* the arguments, then the body of the answer
  status,   \* of the answer: "success", "otherSuccess", "redirect", "error"
  media,    \* "json", "problem+json", "other"
  headers,  \* etag and cache-control are the right ones
  edits,    \* how many members were altered
  verdict   \* what the caller gets

vars == <<op, phase, about, message, status, media, headers, edits, verdict>>

MaxEdits == IF op \in Twice THEN 2 ELSE 1

ASSUME ReadsAreGets == \A r \in READS : Operations[r].method = "GET"

ProblemDecoder(what) ==
  IF what = "syncProblem" THEN decodeWorkspaceSyncProblem ELSE decodeProblem
ProblemContract(what) ==
  CASE what = "syncProblem" -> WorkspaceSyncProblemSchema
    [] what = "problem" -> ProblemSchema
    [] what = "error" -> Error

(* The kinds that say which values a message is tried with.                *)
Kinds ==
  CASE about = "arguments" -> {Validator[op]}
    [] about = "answer" -> {Schema[op], Decoder[op]}
    [] OTHER -> {ProblemContract(about), ProblemDecoder(about)}

Init ==
  /\ op \in DOMAIN Parts
  /\ phase = "called" /\ about = "arguments"
  /\ message \in IF op \in DOMAIN Validator
                 THEN {Typical(Validator[op]), Full(Validator[op])} ELSE {Obj(None)}
  /\ status = "success" /\ media = "json" /\ headers = TRUE
  /\ edits = 0 /\ verdict = "none"

(* One member replaced, dropped or added; a list as a whole.               *)
Alterations(kind) ==
  IF kind.k = "list" THEN Tried(kind)
  ELSE IF ~Is("object", message) THEN {}
  ELSE {Without(message, f) : f \in DOMAIN message.object}
         \cup {With(message, "unknown", Null)}
         \cup UNION {{With(message, f, x) : x \in Tried(MemberKind(kind, f))} :
                       f \in Members(kind)}

Alter ==
  /\ phase \in {"called", "answered"}
  /\ edits < MaxEdits
  /\ about = "arguments" => op \in DOMAIN Validator
  /\ \E kind \in Kinds : message' \in Alterations(kind)
  /\ edits' = edits + 1
  /\ UNCHANGED <<op, phase, about, status, media, headers, verdict>>

AlterHeaders ==
  /\ phase = "answered"
  /\ edits < MaxEdits
  /\ \/ headers' = FALSE /\ UNCHANGED <<status, media>>
     \/ media' \in {"json", "problem+json", "other"} /\ UNCHANGED <<status, headers>>
     \/ status' \in {"redirect", "otherSuccess"} /\ UNCHANGED <<media, headers>>
  /\ edits' = edits + 1
  /\ UNCHANGED <<op, phase, about, message, verdict>>

(* The method validates its arguments; prepare refuses what does not go    *)
(* with the operation.                                                     *)
Call ==
  /\ phase = "called"
  /\ LET valid == op \in DOMAIN Validator => Fits(Validator[op], message)
     IN /\ verdict' = IF ~valid THEN "refused"
                      ELSE IF ~Prepared(op, Parts[op]) THEN "unprepared" ELSE "none"
        /\ phase' = IF verdict' = "none" THEN "sent" ELSE "done"
  /\ UNCHANGED <<op, about, message, status, media, headers, edits>>

Answer ==
  /\ phase = "sent"
  /\ phase' = "answered"
  /\ edits' = 0
  /\ \/ /\ status' = "success" /\ media' = "json" /\ about' = "answer"
        /\ message' \in {Typical(Schema[op])}
                        \cup IF Schema[op].k = "object" THEN {Full(Schema[op])} ELSE {}
     \/ /\ status' = "error" /\ about' \in {"problem", "syncProblem", "error"}
        /\ media' = IF about' = "error" THEN "json" ELSE "problem+json"
        /\ message' \in {Typical(ProblemContract(about')), Full(ProblemContract(about'))}
  /\ UNCHANGED <<op, headers, verdict>>

(* problemFailure.                                                         *)
ProblemFailure ==
  LET decoder == IF IsSync(op) /\ media = "problem+json"
                 THEN decodeWorkspaceSyncProblem ELSE decodeProblem
  IN IF media # "other" /\ ~Marked(message) /\ Fits(decoder, message)
     THEN "api_problem" ELSE "api_error"

(* disposition.                                                            *)
Disposition ==
  CASE status \in {"redirect", "otherSuccess"} -> "malformed"
    [] status = "error" ->
         IF op \in PROBLEM_OPERATIONS THEN ProblemFailure ELSE "api_error"
    [] status = "success" ->
         IF /\ op \in {"agentSessions.agentAuth", "capabilities.get"} => headers
            /\ media = "json"
            /\ ~Marked(message)
            /\ Fits(Decoder[op], message)
         THEN "result" ELSE "malformed"

Receive ==
  /\ phase = "answered"
  /\ phase' = "done"
  /\ verdict' = Disposition
  /\ UNCHANGED <<op, about, message, status, media, headers, edits>>

Next == Call \/ Alter \/ AlterHeaders \/ Answer \/ Receive

Spec == Init /\ [][Next]_vars

-------------------------------------------------------------------------------
(***************************************************************************)
(* What the contract cannot say of one schema and the code promises.       *)
(***************************************************************************)
Ordered(items) ==
  Is("items", items) =>
    \A i, j \in DOMAIN items.items :
      i < j => items.items[i].object.generation.int <= items.items[j].object.generation.int

WellShaped(item) ==
  /\ (item.path = Null) = (item.operation = Word("revision"))
  /\ (item.entry = Null) = (item.operation # Word("upsert"))

CoherentData(data, protocol) ==
  /\ "selected_protocol" \in DOMAIN data => data.selected_protocol = protocol
  /\ "sync" \in DOMAIN data => data.sync.object.selected_protocol = protocol
  /\ "items" \in DOMAIN data =>
       Ordered(data.items) /\ \A e \in Elements(data.items) : WellShaped(e.object)
  /\ "content_base64" \in DOMAIN data =>
       /\ data.content_base64 = Str("base64", data.byte_length.int, data.digest.no, "plain")
       /\ data.minimum_reader.int <= protocol.int

(* The parts of an answer agree with one another.                          *)
Coherent(o) ==
  /\ op = "agentSessions.agentAuth" =>
       IF o.state = Word("unavailable") THEN o.valid_until = o.observed_at
       ELSE /\ o.observed_at.no < o.valid_until.no /\ Now < o.valid_until.no
            /\ o.valid_until.no <= o.observed_at.no + MaxTtl
            /\ o.observed_at.no <= Now + MaxSkew
  /\ op = "capabilities.get" => o.observed_at.no < o.expires_at.no
  /\ op \in {"workspaceBindings.create", "workspaceBindings.get"} =>
       o.remote_root = Str("root", 0, o.project_id.no, "plain")
  /\ op = "agentSessions.createTerminalConnection" =>
       o.connect_url.no = o.terminal_session_id.no
  /\ IsSync(op) =>
       /\ CoherentData(o.data.object, o.selected_protocol)
       /\ "capabilities" \in DOMAIN o.data.object => o.data.object.capabilities = o.capabilities

CoherentProblem(o) ==
  /\ o.status = Num(HttpStatus)
  /\ about = "syncProblem" => o.type.no = o.code.no

(* No integer the code's numbers cannot hold, no leap second, no URL whose *)
(* only parameter vanishes when it is parsed, nothing sanitizeWire refuses.*)
Unusual(v) ==
  Is("wide", v) \/ (Is("form", v) /\ v.form \in {"leap", "marked", "open_blank"})
Plain(v) == ~Holds(Unusual, v)

(***************************************************************************)
(* The spelling the contract gives a branded string: decoders accept both  *)
(* (wire-namespaces.ts).  Two more differences are the code's intention:   *)
(* usage may have further members, and an unavailable observation may name *)
(* any agent version.                                                      *)
(***************************************************************************)
MintedText(v) ==
  IF v.brand \notin Brands \/ v.form \in {"runtime", "open_runa"} THEN v
  ELSE IF v.form = "open_cuna" THEN [v EXCEPT !.form = "open_runa"]
  ELSE [v EXCEPT !.brand = IF v.form = "stream" THEN "cuna" ELSE "runa"]

UsageMembers == {"est_spend_usd", "est_remaining_usd", "note"}

MintedMembers(Inner(_), o) ==
  [f \in IF "est_spend_usd" \in DOMAIN o THEN DOMAIN o \cap UsageMembers ELSE DOMAIN o |->
     IF f = "agent_version" /\ o.state = Word("unavailable")
     THEN Word("unavailable") ELSE Inner(o[f])]

MintedBy(Inner(_), v) ==
  IF Is("form", v) THEN MintedText(v)
  ELSE IF Is("items", v) THEN Arr([i \in DOMAIN v.items |-> Inner(v.items[i])])
  ELSE IF Is("many", v) THEN Many(Inner(v.many), v.len, v.distinct)
  ELSE IF Is("object", v) THEN Obj(MintedMembers(Inner, v.object))
  ELSE v

Untouched(v) == v
Minted1(v) == MintedBy(Untouched, v)
Minted2(v) == MintedBy(Minted1, v)
Minted3(v) == MintedBy(Minted2, v)
Minted4(v) == MintedBy(Minted3, v)
Minted5(v) == MintedBy(Minted4, v)
Minted6(v) == MintedBy(Minted5, v)
Minted7(v) == MintedBy(Minted6, v)
AsMinted(v) == MintedBy(Minted7, v)

(***************************************************************************)
(* Properties.                                                             *)
(***************************************************************************)
(* Every result handed to the program has the form the wire contract gives *)
(* it, up to the brand spellings, and so has every problem: no handwritten *)
(* decoder (domain.ts) is laxer than the generated schema of its operation.*)
AcceptedConforms ==
  /\ verdict = "result" => Fits(Schema[op], AsMinted(message))
  /\ verdict = "api_problem" =>
       \E what \in {"problem", "syncProblem"} : Fits(ProblemContract(what), AsMinted(message))

(* Every result agrees with itself: an envelope with its data, a content   *)
(* with its digest and length, a URL with the session it opens, evidence   *)
(* with the clock, a page with the order of generations.                   *)
AcceptedCoheres ==
  /\ verdict = "result" => ~Marked(message)
  /\ verdict = "result" /\ Is("object", message) => Coherent(message.object)

(* Nothing the contract allows is refused: an answer that conforms, is     *)
(* coherent and plain is a result, a problem that does reaches the caller  *)
(* as a problem.                                                           *)
ConformingAccepted ==
  phase = "done" /\ about # "arguments" /\ Plain(message) /\ headers =>
    /\ status = "success" /\ media = "json" /\ Fits(Schema[op], message)
         /\ (Is("object", message) => Coherent(message.object)) => verdict = "result"
    /\ status = "error" /\ media = "problem+json" /\ op \in PROBLEM_OPERATIONS
         /\ about = (IF IsSync(op) THEN "syncProblem" ELSE "problem")
         /\ Fits(ProblemContract(about), message) /\ CoherentProblem(message.object)
         => verdict = "api_problem"

(* Arguments a method accepts make a request that prepare accepts and a    *)
(* body the contract allows, except for an argument vector whose first     *)
(* word is empty.                                                          *)
AcceptedIsSendable ==
  /\ verdict # "unprepared"
  /\ phase = "sent" /\ op \in DOMAIN RequestSchema =>
       LET body == Body(op, message.object)
       IN \/ Fits(RequestSchema[op], body)
          \/ op = "sessions.exec" /\ ~IsString(message.object.command)
             /\ Is("form", body.object.command) /\ body.object.command.len = 0

(* A cursor the client hands on is one it takes back in the next call      *)
(* (except an empty or astral cursor of workspace changes).                *)
CursorsReplay ==
  verdict = "result" =>
    /\ op = "agentSessions.list" /\ Given(message, "next_cursor") =>
         Fits(Validator[op], Obj([cursor |-> message.object.next_cursor]))
    /\ op = "workspaces.sync.changes" =>
         LET cursor == message.object.data.object.next_cursor
         IN \/ cursor = Null
            \/ Is("form", cursor) /\ (cursor.len = 0 \/ cursor.form = "astral")
            \/ Fits(Validator[op], Obj([readerVersion |-> Num(1), cursor |-> cursor]))
===============================================================================
