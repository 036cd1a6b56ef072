----------------------------- MODULE WireDecoders -----------------------------
(***************************************************************************)
(* The handwritten decoders of domain.ts: the kind of every member they    *)
(* read, what they compare across members, and nothing of the contract.    *)
(***************************************************************************)
EXTENDS WireValues

CONSTANTS
  Now,          \* Date.now() when the answer is decoded, in seconds
  HttpStatus    \* the status of an error response

(***************************************************************************)
(* Field readers.                                                          *)
(***************************************************************************)
string == AnyText
uuid(no) == Matching({"uuid"}, 0, 0, UuidOf(no))
dateTime(at) == Matching({"time"}, 0, 0, At(at))
integer(lo) == Whole(lo, Unbounded, IF lo < 0 THEN 0 ELSE lo)
safeInteger(lo) == SafeWhole(lo, Unbounded, lo)
(* A mutant: the upper limit is compared with the wrong sign of equality.   *)
OneMore(lo, hi) == Sized(lo, hi + 1)
boundedString(lo, hi) == Sized(lo, hi)
sha256(no) == Matching({"digest"}, 0, 0, DigestOf(no))

AGENTS == {"claude-code", "codex", "openclaw"}
STATUSES == {"creating", "running", "paused", "suspended", "stopped", "deleted", "error"}
AGENT_SESSION_AUTH_MODES == {"interactive_login", "credential_binding"}

decodeSession == Object(
  [id |-> uuid(1), user_id |-> uuid(2),
   slug |-> Matching({"slug"}, 1, 63, Str("slug", 9, 1, "plain")), name |-> string, vcpus |-> integer(0), memory_mib |-> integer(0),
   status |-> Enum(STATUSES, "running"), running_seconds |-> integer(0),
   created_at |-> dateTime(10), updated_at |-> dateTime(10),
   url |-> Branded({"runtime"}, 0, 0, Brands, Str("runtime", 0, 1, "cuna"))],
  [agent |-> Enum(AGENTS, "codex")], "none")

decodeSessions == ListOf(decodeSession, 0, Unbounded)

decodeAgentSessionAuth == Object(
  [observation_id |-> uuid(1), agent_session_id |-> uuid(1),
   process_epoch |-> Nullable(uuid(1)),
   auth_mode |-> Enum(AGENT_SESSION_AUTH_MODES, "interactive_login"), agent_version |-> string,
   adapter_version |-> Branded({"agent-auth.v1"}, 0, 0, Brands, Str("agent-auth.v1", 0, 1, "runa")),
   evidence_class |-> Enum({"provider_cli_login_status", "credential_binding_authority",
                            "insufficient"}, "provider_cli_login_status"),
   observed_at |-> dateTime(10), valid_until |-> dateTime(30), state |-> string],
  None, "decodeAgentSessionAuth")

(* MAX_AGENT_AUTH_TTL_MS and MAX_AGENT_AUTH_FUTURE_SKEW_MS, in seconds.    *)
MaxTtl == 30
MaxSkew == 5

AuthEvidence(o) ==
  LET is(f, w) == o[f] = Word(w)
      observed == o.observed_at.no
      validUntil == o.valid_until.no
  IN \/ /\ is("evidence_class", "insufficient") /\ is("state", "unavailable")
        /\ validUntil = observed
     \/ /\ \/ /\ is("auth_mode", "interactive_login")
              /\ is("evidence_class", "provider_cli_login_status")
              /\ is("state", "login_required") \/ is("state", "authenticated")
           \/ /\ is("auth_mode", "credential_binding")
              /\ is("evidence_class", "credential_binding_authority")
              /\ is("state", "configured")
        /\ o.process_epoch # Null
        /\ o.agent_version \in Strings({"semver"}, 0, 0, {"plain"})
        /\ validUntil > observed /\ validUntil - observed <= MaxTtl
        /\ observed <= Now + MaxSkew /\ validUntil > Now

decodeAgentSession == Object(
  [id |-> uuid(1), machine_id |-> uuid(2), name |-> boundedString(1, 80),
   agent |-> Enum(AGENTS, "codex"), cwd |-> Matching({"cwd"}, 10, 1024, Str("cwd", 10, 1, "plain")),
   auth_mode |-> Enum(AGENT_SESSION_AUTH_MODES, "interactive_login"),
   desired_state |-> Enum({"running", "terminated"}, "running"),
   request_state |-> Enum({"launch_pending", "runtime_claimed", "launched",
                           "termination_pending", "terminal", "failed"}, "launched"),
   process_state |-> Enum({"unknown", "starting", "ready", "running", "exited", "failed",
                           "terminating", "terminated"}, "running"),
   row_version |-> safeInteger(0), created_at |-> dateTime(10), updated_at |-> dateTime(10)],
  [process_epoch |-> uuid(1), workspace_binding_id |-> uuid(1),
   workspace_generation |-> safeInteger(1), runtime_observed_at |-> dateTime(10),
   runtime_expires_at |-> dateTime(10), termination_requested_at |-> dateTime(10)],
  "decodeAgentSession")

decodeAgentSessionPage == Object(
  [items |-> ListOf(decodeAgentSession, 0, 100)],
  [next_cursor |-> boundedString(1, 512)], "none")

(***************************************************************************)
(* Workspace synchronisation.                                              *)
(***************************************************************************)
syncProtocol == Exactly({Num(1), Num(2)}, Num(2))

WORKSPACE_SYNC_CAPABILITIES == Words(
  <<"atomic_generation_commit", "bounded_manifest_pages", "content_digest_verification",
    "explicit_reconciliation", "ordered_generation_changes", "policy_bound_admission">>)

syncCapabilities ==
  LET names == {WORKSPACE_SYNC_CAPABILITIES[i] : i \in 1..6}
  IN SetLike(Exactly(names, WORKSPACE_SYNC_CAPABILITIES[1]), 6, 6,
              WORKSPACE_SYNC_CAPABILITIES)

chunkOfEntry == Object(
  [digest |-> sha256(1), byte_length |-> SafeWhole(0, 8388608, 0)], None, "none")

syncManifestEntry == Object(
  [path |-> boundedString(1, 4096), kind |-> Enum({"directory", "file", "symlink"}, "file"),
   byte_length |-> safeInteger(0), executable |-> Boolean,
   chunks |-> ListOf(chunkOfEntry, 0, 4096), link_target |-> Nullable(boundedString(0, 4096))],
  None, "none")

syncSession == Object(
  [id |-> uuid(1), workspace_id |-> uuid(1), machine_id |-> uuid(1),
   base_generation |-> safeInteger(0), exclusion_policy_digest |-> sha256(1),
   selected_protocol |-> syncProtocol, capabilities |-> syncCapabilities,
   state |-> Enum({"staging", "committed", "conflicted", "expired"}, "staging"),
   manifest_entry_count |-> safeInteger(0), manifest_encoded_bytes |-> safeInteger(0),
   content_bytes |-> safeInteger(0), expires_at |-> dateTime(30), created_at |-> dateTime(10),
   updated_at |-> dateTime(10)],
  [last_page_index |-> safeInteger(0), committed_generation |-> safeInteger(1),
   committed_manifest_root |-> sha256(1)], "none")

syncManifestReceipt == Object(
  [sync |-> syncSession, page_index |-> safeInteger(0), page_digest |-> sha256(1),
   missing_digests |-> ListOf(sha256(1), 0, Unbounded)], None, "none")

syncChunkReceipt == Object(
  [selected_protocol |-> syncProtocol, digest |-> sha256(1),
   byte_length |-> SafeWhole(0, 8388608, 0), stored |-> Boolean], None, "none")

syncChunkContent == Object(
  [selected_protocol |-> syncProtocol, digest |-> sha256(1),
   byte_length |-> SafeWhole(0, 8388608, 9), minimum_reader |-> SafeWhole(1, 2, 1),
   content_base64 |->
     Matching({"base64", "base64_loose"}, 0, Unbounded, Str("base64", 9, 1, "plain"))],
  None, "syncChunkContent")

syncCommitReceipt == Object(
  [selected_protocol |-> syncProtocol, state |-> Enum({"committed"}, "committed"),
   generation |-> safeInteger(1), manifest_root |-> sha256(1), committed_at |-> dateTime(10),
   minimum_reader |-> safeInteger(1), minimum_writer |-> safeInteger(1)], None, "none")

syncChangeItem == Object(
  [generation |-> safeInteger(1), operation |-> Enum({"revision", "upsert", "delete"}, "upsert"),
   path |-> Nullable(boundedString(0, 4096)), entry |-> Nullable(syncManifestEntry),
   manifest_root |-> sha256(1), exclusion_policy_digest |-> sha256(1),
   committed_at |-> dateTime(10), minimum_reader |-> safeInteger(1),
   minimum_writer |-> safeInteger(1)], None, "syncChangeItem")

syncChangePage == Object(
  [selected_protocol |-> syncProtocol, items |-> ListOf(syncChangeItem, 0, 1000),
   next_cursor |-> Nullable(boundedString(0, 1024))], None, "syncChangePage")

syncReconcileReceipt == Object(
  [selected_protocol |-> syncProtocol,
   status |-> Enum({"converged", "reconciliation_required"}, "converged"),
   active_generation |-> safeInteger(0), active_manifest_root |-> sha256(1),
   exclusion_policy_digest |-> sha256(1)], None, "none")

decodeWorkspaceSyncEnvelope(data) == Object(
  [request_id |-> uuid(1), selected_protocol |-> syncProtocol,
   capabilities |-> syncCapabilities, data |-> data], None, "decodeWorkspaceSyncEnvelope")

decodeWorkspaceBinding == Object(
  [binding_id |-> uuid(1), workspace_id |-> uuid(1), project_id |-> uuid(1),
   local_instance_id |-> uuid(1), machine_id |-> uuid(1), remote_root |-> string,
   exclusion_policy_digest |-> sha256(1), active_generation |-> safeInteger(0),
   active_manifest_root |-> sha256(1), binding_epoch |-> safeInteger(1),
   minimum_reader |-> safeInteger(1), minimum_writer |-> safeInteger(1),
   created_at |-> dateTime(10), updated_at |-> dateTime(10)], None, "decodeWorkspaceBinding")

(***************************************************************************)
(* The other answers, and problems.                                        *)
(***************************************************************************)
decodeMachineCreateRequest == Object(
  [id |-> uuid(1), machine_id |-> uuid(2),
   state |-> Enum({"prepared", "in_progress", "unknown", "provider_succeeded", "settled",
                   "terminal_failed"}, "settled"),
   retryable |-> Boolean,
   action |-> Enum({"retry_create", "reconcile", "wait", "none"}, "none"),
   updated_at |-> dateTime(10)], None, "none")

TERMINAL_CAPABILITY_NAMES == {"acknowledgement", "heartbeat", "live_resize", "resume", "signals"}

terminalCapability == Object(
  [name |-> Enum(TERMINAL_CAPABILITY_NAMES, "resume"),
   availability |-> Enum({"supported", "unsupported", "unknown"}, "supported")], None, "none")

decodeTerminalConnectionGrant == Object(
  [terminal_session_id |-> uuid(1), resume_handle |-> uuid(2),
   connect_url |-> Branded({"stream"}, 0, 0, Brands, Str("stream", 0, 1, "cuna")),
   connect_token |-> Branded({"token"}, 43, 43, Brands, Str("token", 43, 1, "runa")),
   protocol |-> Branded({"terminal.v1"}, 0, 0, Brands, Str("terminal.v1", 0, 1, "runa")),
   capabilities |-> ListOf(terminalCapability, 5, 5), expires_at |-> dateTime(30)],
  None, "decodeTerminalConnectionGrant")

decodeProblem == Object(
  [type |-> Branded({"ptype", "syncptype"}, 0, 0, Brands, Str("ptype", 0, 1, "runa")),
   title |-> boundedString(1, 120), status |-> SafeWhole(400, 599, 409),
   code |-> Matching({"ident", "synccode"}, 3, 64, Str("ident", 3, 1, "plain")),
   request_id |-> uuid(1), retryable |-> Boolean],
  [detail |-> boundedString(0, 500),
   action |-> Enum({"retry", "sign_in", "open_web", "contact_support", "none"}, "none")],
  "expectedStatus")

decodeWorkspaceSyncProblem == Object(
  [type |-> string, title |-> boundedString(1, 120), status |-> SafeWhole(400, 599, 409),
   code |-> Matching({"synccode"}, 17, 63, Str("synccode", 17, 1, "plain")),
   request_id |-> uuid(1), retryable |-> Boolean, action |-> Enum({"retry", "none"}, "retry"),
   selected_protocol |-> Nullable(syncProtocol),
   capabilities |-> [syncCapabilities EXCEPT !.lo = 0], detail |-> boundedString(1, 500)],
  None, "decodeWorkspaceSyncProblem")

decodeExec == Object(
  [exit_code |-> integer(-Unbounded), stdout |-> string, stderr |-> string,
   duration_ms |-> integer(0), stdout_truncated |-> Boolean, stderr_truncated |-> Boolean],
  None, "none")

decodeAcknowledgement == Object([ok |-> Exactly({Bool(TRUE)}, Bool(TRUE))], None, "none")

(* open_blank: a t of characters the URL parser strips, caught by the      *)
(* second half of the check, after the parse.                              *)
decodeOpen == Object(
  [url |-> Branded({"open_cuna", "open_runa"}, 0, Unbounded, Brands,
                   Str("open_runa", 9, 1, "cuna"))], None, "none")

decodeCapability == Object(
  [id |-> Matching({"dotted"}, 0, Unbounded, Str("dotted", 9, 1, "plain")),
   availability |-> Enum({"supported", "unsupported", "temporarily_unavailable", "unknown"},
                         "supported"),
   surfaces |-> SetOf(Enum({"cli", "web", "sdk"}, "sdk"), 1, 3),
   interaction |-> Enum({"native", "read_only", "browser_handoff"}, "native"),
   mutation_class |-> Enum({"none", "reversible", "destructive", "secret_revealing",
                            "financial"}, "none"),
   required_permissions |->
     SetOf(Matching({"colons"}, 0, Unbounded, Str("colons", 9, 1, "plain")), 0, 16)],
  [reason_code |-> Matching({"ident"}, 3, 64, Str("ident", 3, 1, "plain"))], "none")

decodeCapabilitySnapshot == Object(
  [schema_version |-> Enum({"1.0"}, "1.0"),
   subject_scope |-> Enum({"account", "machine", "agent_session"}, "account"),
   observed_at |-> dateTime(10), expires_at |-> dateTime(30), etag |-> sha256(1),
   capabilities |-> ListOf(decodeCapability, 0, 128)],
  [subject_id |-> uuid(1)], "decodeCapabilitySnapshot")

decodeRecord == Object(
  [id |-> uuid(1), session_id |-> uuid(2), kind |-> string, summary |-> string,
   detail |-> Anything, created_at |-> dateTime(10)], None, "none")
decodeRecords == ListOf(decodeRecord, 0, Unbounded)

usage == OpenObject(
  [est_spend_usd |-> Number, est_remaining_usd |-> Number, note |-> string])
assigned == Object(
  [assigned |-> Exactly({Bool(TRUE)}, Bool(TRUE)), id |-> uuid(1), usage |-> usage],
  None, "none")
waitlisted == Object(
  [assigned |-> Exactly({Bool(FALSE)}, Bool(FALSE)), waitlist_position |-> integer(0)],
  None, "none")
decodeMe == Object(
  [id |-> uuid(1), email |-> string, workspace |-> Either(assigned, waitlisted)], None, "none")

(***************************************************************************)
(* What a decoder compares across the members it has read.                 *)
(***************************************************************************)
(* A mutant: no two changes of one generation.                             *)
StrictGenerations(items) ==
  Is("items", items) =>
    \A i \in 2..Len(items.items) :
      items.items[i].object.generation.int > items.items[i - 1].object.generation.int

OrderedGenerations(items) ==
  Is("items", items) =>
    \A i \in 2..Len(items.items) :
      items.items[i].object.generation.int >= items.items[i - 1].object.generation.int

(* What an operation carries and what it must leave out.                   *)
OperationShape(o) ==
  \/ o.operation = Word("revision") /\ o.path = Null /\ o.entry = Null
  \/ o.operation = Word("delete") /\ o.path # Null /\ o.entry = Null
  \/ o.operation = Word("upsert") /\ o.path # Null /\ o.entry # Null

ContentMatches(o) ==
  /\ o.minimum_reader.int <= o.selected_protocol.int
  /\ o.content_base64.form = "base64"
  /\ o.content_base64.len = o.byte_length.int
  /\ o.content_base64.no = o.digest.no

(* A mutant: the capabilities of the session inside are not compared.      *)
ProtocolsAgree(o) ==
  "selected_protocol" \in DOMAIN o.data.object =>
    o.data.object.selected_protocol = o.selected_protocol

NestedAgrees(o) ==
  LET data == o.data.object
      nested == IF "sync" \in DOMAIN data THEN data.sync.object ELSE data
  IN /\ "selected_protocol" \in DOMAIN nested =>
          nested.selected_protocol = o.selected_protocol
     /\ "capabilities" \in DOMAIN data => data.capabilities = o.capabilities

SyncProblemAgrees(o) ==
  /\ o.status.int = HttpStatus
  /\ o.type \in Strings({"syncptype"}, 0, 0, Brands)
  /\ o.type.no = o.code.no
  /\ Length(o.capabilities) = IF o.selected_protocol = Null THEN 0 ELSE 6

DecoderRule(rule, o) ==
  \/ rule = "decodeAgentSessionAuth" /\ AuthEvidence(o)
  \/ /\ rule = "decodeAgentSession"
     /\ ("workspace_binding_id" \in DOMAIN o) = ("workspace_generation" \in DOMAIN o)
  \/ rule = "syncChunkContent" /\ ContentMatches(o)
  \/ rule = "syncChangeItem" /\ OperationShape(o)
  \/ rule = "syncChangePage" /\ OrderedGenerations(o.items)
  \/ rule = "decodeWorkspaceSyncEnvelope" /\ NestedAgrees(o)
  \/ /\ rule = "decodeWorkspaceBinding"
     /\ o.remote_root \in Strings({"root"}, 0, 0, {"plain"})
     /\ o.remote_root.no = o.project_id.no
  \/ /\ rule = "decodeTerminalConnectionGrant"
     /\ o.connect_url.no = o.terminal_session_id.no
     /\ {e.object.name.word : e \in Elements(o.capabilities)} = TERMINAL_CAPABILITY_NAMES
  \/ rule = "expectedStatus" /\ o.status.int = HttpStatus
  \/ rule = "decodeWorkspaceSyncProblem" /\ SyncProblemAgrees(o)
  \/ rule = "decodeCapabilitySnapshot" /\ o.expires_at.no > o.observed_at.no
===============================================================================
