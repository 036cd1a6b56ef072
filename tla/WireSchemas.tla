----------------------------- MODULE WireSchemas ------------------------------
(***************************************************************************)
(* The generated wire contract: one kind per schema of                     *)
(* GENERATED_WIRE_SCHEMAS, with its required and optional members.  All    *)
(* are closed.  What a schema says across members (oneOf over members,     *)
(* dependentRequired, allOf) is the rule named last; ContractRule.         *)
(***************************************************************************)
EXTENDS WireValues

Uuid(no) == Matching({"uuid"}, 0, 0, UuidOf(no))
DateTime(at) == Matching({"time", "leap"}, 0, 0, At(at))
Sha256(no) == Matching({"digest"}, 0, 0, DigestOf(no))
AtLeast(lo) == Whole(lo, Unbounded, lo)
Between(lo, hi) == Whole(lo, hi, lo)
Agent == Enum({"claude-code", "codex", "openclaw"}, "codex")
AuthMode == Enum({"interactive_login", "credential_binding"}, "interactive_login")
Name80 == Sized(1, 80)
Cwd == Matching({"cwd"}, 10, 1024, Str("cwd", 10, 1, "plain"))

AgentAuth == Object(
  [agent |-> Either(Agent, Exactly({Null}, Null)),
   method |-> Enum({"none", "interactive_login", "api_key"}, "none"),
   state |-> Enum({"not_applicable", "installing", "login_required", "authenticated",
                   "configured", "unavailable"}, "not_applicable")],
  None, "AgentAuth")

AgentSession == Object(
  [id |-> Uuid(1), machine_id |-> Uuid(2), name |-> Name80, agent |-> Agent, cwd |-> Cwd,
   auth_mode |-> AuthMode, desired_state |-> Enum({"running", "terminated"}, "running"),
   request_state |-> Enum({"launch_pending", "runtime_claimed", "launched",
                           "termination_pending", "terminal", "failed"}, "launched"),
   process_state |-> Enum({"unknown", "starting", "ready", "running", "exited", "failed",
                           "terminating", "terminated"}, "running"),
   row_version |-> AtLeast(0), created_at |-> DateTime(10), updated_at |-> DateTime(10)],
  [process_epoch |-> Uuid(1), workspace_binding_id |-> Uuid(1),
   workspace_generation |-> AtLeast(1), runtime_observed_at |-> DateTime(10),
   runtime_expires_at |-> DateTime(10), termination_requested_at |-> DateTime(10)],
  "BindingWithGeneration")

AgentSessionAuth == Object(
  [observation_id |-> Uuid(1), agent_session_id |-> Uuid(1),
   process_epoch |-> Nullable(Uuid(1)), auth_mode |-> AuthMode,
   agent_version |-> Either(Matching({"semver"}, 0, 0, Str("semver", 0, 1, "plain")),
                            Exactly({Word("unavailable")}, Word("unavailable"))),
   adapter_version |-> Branded({"agent-auth.v1"}, 0, 0, {"runa"}, Str("agent-auth.v1", 0, 1, "runa")),
   evidence_class |-> Enum({"provider_cli_login_status", "credential_binding_authority",
                            "insufficient"}, "provider_cli_login_status"),
   observed_at |-> DateTime(10), valid_until |-> DateTime(30),
   state |-> Enum({"login_required", "authenticated", "configured", "unavailable"},
                  "authenticated")],
  None, "AgentSessionAuth")

AgentSessionCreate == Object(
  [agent |-> Agent, cwd |-> Cwd, workspace_binding_id |-> Uuid(1),
   workspace_generation |-> AtLeast(1)],
  [name |-> Name80, auth_mode |-> AuthMode, credential_binding_id |-> Uuid(1)], "none")

AgentSessionPage == Object(
  [items |-> ListOf(AgentSession, 0, 100)], [next_cursor |-> Sized(1, 512)], "none")

AgentSessionRename == Object([name |-> Name80], None, "none")

Capability == Object(
  [id |-> Matching({"dotted"}, 0, Unbounded, Str("dotted", 9, 1, "plain")),
   availability |-> Enum({"supported", "unsupported", "temporarily_unavailable", "unknown"},
                         "supported"),
   surfaces |-> SetOf(Enum({"cli", "web", "sdk"}, "sdk"), 1, 3),
   interaction |-> Enum({"native", "read_only", "browser_handoff"}, "native"),
   mutation_class |-> Enum({"none", "reversible", "destructive", "secret_revealing",
                            "financial"}, "none"),
   required_permissions |->
     SetOf(Matching({"colons"}, 0, Unbounded, Str("colons", 9, 1, "plain")), 0, 16)],
  [reason_code |-> Matching({"ident"}, 3, 64, Str("ident", 3, 1, "plain"))], "none")

CapabilitySnapshot == Object(
  [schema_version |-> Enum({"1.0"}, "1.0"),
   subject_scope |-> Enum({"account", "machine", "agent_session"}, "account"),
   observed_at |-> DateTime(10), expires_at |-> DateTime(30), etag |-> Sha256(1),
   capabilities |-> ListOf(Capability, 0, 128)],
  [subject_id |-> Uuid(1)], "none")

CheckpointRequest == Object([name |-> Name80], None, "none")

Error == Object([error |-> AnyText], None, "none")

ExecRequest == Object(
  [command |-> Sized(1, Unbounded)],
  [args |-> ListOf(AnyText, 0, Unbounded), cwd |-> AnyText,
   timeout_secs |-> Between(1, 600)], "none")

ExecResult == Object(
  [exit_code |-> Whole(-Unbounded, Unbounded, 0), stdout |-> AnyText,
   stderr |-> AnyText, duration_ms |-> AtLeast(0), stdout_truncated |-> Boolean,
   stderr_truncated |-> Boolean], None, "none")

MachineCreateRequest == Object(
  [id |-> Uuid(1), machine_id |-> Uuid(2),
   state |-> Enum({"prepared", "in_progress", "unknown", "provider_succeeded", "settled",
                   "terminal_failed"}, "settled"),
   retryable |-> Boolean,
   action |-> Enum({"retry_create", "reconcile", "wait", "none"}, "none"),
   updated_at |-> DateTime(10)], None, "none")

Usage == Object(
  [est_spend_usd |-> Number, est_remaining_usd |-> Number, note |-> AnyText], None, "none")
AssignedWorkspace == Object(
  [assigned |-> Exactly({Bool(TRUE)}, Bool(TRUE)), id |-> Uuid(1), usage |-> Usage], None, "none")
WaitlistedWorkspace == Object(
  [assigned |-> Exactly({Bool(FALSE)}, Bool(FALSE)), waitlist_position |-> AtLeast(0)],
  None, "none")
Me == Object(
  [id |-> Uuid(1), email |-> AnyText,
   workspace |-> Either(AssignedWorkspace, WaitlistedWorkspace)], None, "none")

Ok == Object([ok |-> Exactly({Bool(TRUE)}, Bool(TRUE))], None, "none")

OpenResult == Object(
  [url |-> Branded({"open_runa", "open_blank"}, 0, Unbounded, Brands,
                   Str("open_runa", 9, 1, "cuna"))], None, "none")

OutboundPolicy == Object(
  [mode |-> Enum({"allowlist", "denylist"}, "allowlist"),
   hosts |-> SetOf(Matching({"host"}, 3, 253, Str("host", 9, 1, "plain")), 0, 128)],
  None, "none")

ProblemSchema == Object(
  [type |-> Branded({"ptype", "syncptype"}, 0, 0, {"runa"}, Str("ptype", 0, 1, "runa")),
   title |-> Sized(1, 120), status |-> Whole(400, 599, 409),
   code |-> Matching({"ident", "synccode"}, 3, 64, Str("ident", 3, 1, "plain")),
   request_id |-> Uuid(1), retryable |-> Boolean],
  [detail |-> Sized(0, 500),
   action |-> Enum({"retry", "sign_in", "open_web", "contact_support", "none"}, "none")],
  "none")

RecordSchema == Object(
  [id |-> Uuid(1), session_id |-> Uuid(2), kind |-> AnyText, summary |-> AnyText,
   detail |-> Anything, created_at |-> DateTime(10)], None, "none")

RuntimeUrl == Branded({"runtime"}, 0, 0, Brands, Str("runtime", 0, 1, "cuna"))

SdkCreateSession == Object(
  [name |-> Name80],
  [agent |-> Agent, vcpus |-> Between(1, 8), memory_mib |-> Between(512, 16384),
   allowed_hosts |-> ListOf(Sized(1, Unbounded), 0, 128),
   outbound_policy |-> OutboundPolicy, background |-> Boolean,
   runtime_port |-> Between(1, 65535)], "none")

SessionSchema == Object(
  [id |-> Uuid(1), user_id |-> Uuid(2),
   slug |-> Matching({"slug"}, 1, 63, Str("slug", 9, 1, "plain")), name |-> AnyText,
   vcpus |-> AtLeast(0), memory_mib |-> AtLeast(0),
   status |-> Enum({"creating", "running", "paused", "suspended", "stopped", "deleted",
                    "error"}, "running"),
   running_seconds |-> AtLeast(0), created_at |-> DateTime(10), updated_at |-> DateTime(10),
   url |-> RuntimeUrl],
  [agent |-> Agent], "none")

TerminalCapabilityNames == {"acknowledgement", "heartbeat", "live_resize", "resume", "signals"}

(* The five capabilities as a grant lists them.                            *)
FiveCapabilities ==
  LET names == <<"acknowledgement", "heartbeat", "live_resize", "resume", "signals">>
  IN [i \in 1..5 |-> Obj([name |-> Word(names[i]), availability |-> Word("supported")])]

TerminalConnectionCapability == Object(
  [name |-> Enum(TerminalCapabilityNames, "resume"),
   availability |-> Enum({"supported", "unsupported", "unknown"}, "supported")], None, "none")

TerminalConnectionCreate == Object(
  [client_instance_id |-> Matching({"instance"}, 1, 256, Str("instance", 9, 1, "plain")),
   protocol |-> Branded({"terminal.v1"}, 0, 0, {"runa"}, Str("terminal.v1", 0, 1, "runa"))],
  [resume_handle |-> Uuid(1)], "none")

TerminalConnectionGrant == Object(
  [terminal_session_id |-> Uuid(1), resume_handle |-> Uuid(2),
   connect_url |-> Branded({"stream"}, 0, 0, {"cuna"}, Str("stream", 0, 1, "cuna")),
   connect_token |-> Branded({"token"}, 43, 43, {"runa"}, Str("token", 43, 1, "runa")),
   protocol |-> Branded({"terminal.v1"}, 0, 0, {"runa"}, Str("terminal.v1", 0, 1, "runa")),
   capabilities |-> SetLike(TerminalConnectionCapability, 5, 5, FiveCapabilities),
   expires_at |-> DateTime(30)], None, "EveryCapabilityOnce")

(***************************************************************************)
(* Workspace bindings and synchronisation.                                 *)
(***************************************************************************)
SyncCapabilities ==
  {"atomic_generation_commit", "bounded_manifest_pages", "content_digest_verification",
   "explicit_reconciliation", "ordered_generation_changes", "policy_bound_admission"}

SixCapabilities == Words(
  <<"atomic_generation_commit", "bounded_manifest_pages", "content_digest_verification",
    "explicit_reconciliation", "ordered_generation_changes", "policy_bound_admission">>)

SyncCapabilityList(lo) ==
  SetLike(Enum(SyncCapabilities, "policy_bound_admission"), lo, 6, SixCapabilities)

Protocol == Exactly({Num(1), Num(2)}, Num(2))

WorkspaceBindingSchema == Object(
  [binding_id |-> Uuid(1), workspace_id |-> Uuid(1), project_id |-> Uuid(1),
   local_instance_id |-> Uuid(1), machine_id |-> Uuid(1),
   remote_root |-> Matching({"root"}, 0, 0, Str("root", 0, 1, "plain")),
   exclusion_policy_digest |-> Sha256(1), active_generation |-> SafeWhole(0, Unbounded, 0),
   active_manifest_root |-> Sha256(1), binding_epoch |-> SafeWhole(1, Unbounded, 1),
   minimum_reader |-> AtLeast(1), minimum_writer |-> AtLeast(1),
   created_at |-> DateTime(10), updated_at |-> DateTime(10)], None, "none")

WorkspaceBindingCreate == Object(
  [workspace_id |-> Uuid(1), project_id |-> Uuid(1), local_instance_id |-> Uuid(1),
   machine_id |-> Uuid(1), exclusion_policy_digest |-> Sha256(1),
   excluded_prefixes |-> SetOf(Sized(1, 4096), 0, 10000)], None, "none")

WorkspaceSyncProtocolRange == Object(
  [minimum |-> AtLeast(1), maximum |-> AtLeast(1)], None, "none")

WorkspaceSyncBegin == Object(
  [workspace_binding_id |-> Uuid(1), machine_id |-> Uuid(1), base_generation |-> AtLeast(0),
   exclusion_policy_digest |-> Sha256(1), protocol |-> WorkspaceSyncProtocolRange,
   minimum_reader |-> AtLeast(1), minimum_writer |-> AtLeast(1)], None, "none")

WorkspaceSyncChunkRef == Object(
  [digest |-> Sha256(1), byte_length |-> Between(0, 8388608)], None, "none")

WorkspaceSyncManifestEntry == Object(
  [path |-> Sized(1, 4096), kind |-> Enum({"directory", "file", "symlink"}, "file"),
   byte_length |-> AtLeast(0), executable |-> Boolean,
   chunks |-> ListOf(WorkspaceSyncChunkRef, 0, 4096),
   link_target |-> Nullable(Sized(0, 4096))], None, "none")

WorkspaceSyncChangeItem == Object(
  [generation |-> AtLeast(1), operation |-> Enum({"revision", "upsert", "delete"}, "upsert"),
   path |-> Nullable(Sized(0, 4096)), entry |-> Nullable(WorkspaceSyncManifestEntry),
   manifest_root |-> Sha256(1), exclusion_policy_digest |-> Sha256(1),
   committed_at |-> DateTime(10), minimum_reader |-> AtLeast(1),
   minimum_writer |-> AtLeast(1)], None, "none")

WorkspaceSyncChangePage == Object(
  [selected_protocol |-> Protocol, items |-> ListOf(WorkspaceSyncChangeItem, 0, 1000),
   next_cursor |-> Nullable(Sized(0, 1024))], None, "none")

WorkspaceSyncChunkContent == Object(
  [selected_protocol |-> Protocol, digest |-> Sha256(1),
   byte_length |-> Whole(0, 8388608, 9), minimum_reader |-> Between(1, 2),
   content_base64 |->
     Matching({"base64", "base64_loose"}, 0, 8388608, Str("base64", 9, 1, "plain"))],
  None, "none")

WorkspaceSyncChunkReceipt == Object(
  [selected_protocol |-> Protocol, digest |-> Sha256(1), byte_length |-> Between(0, 8388608),
   stored |-> Boolean], None, "none")

WorkspaceSyncCommit == Object(
  [expected_generation |-> AtLeast(0), exclusion_policy_digest |-> Sha256(1),
   manifest_root |-> Sha256(1), minimum_reader |-> AtLeast(1), minimum_writer |-> AtLeast(1)],
  None, "none")

WorkspaceSyncCommitReceipt == Object(
  [selected_protocol |-> Protocol, state |-> Enum({"committed"}, "committed"),
   generation |-> AtLeast(1), manifest_root |-> Sha256(1), committed_at |-> DateTime(10),
   minimum_reader |-> AtLeast(1), minimum_writer |-> AtLeast(1)], None, "none")

WorkspaceSyncManifestPage == Object(
  [page_index |-> Between(0, 255), is_last |-> Boolean, minimum_reader |-> AtLeast(1),
   minimum_writer |-> AtLeast(1), entries |-> ListOf(WorkspaceSyncManifestEntry, 0, 4096)],
  None, "none")

WorkspaceSyncSession == Object(
  [id |-> Uuid(1), workspace_id |-> Uuid(1), machine_id |-> Uuid(1),
   base_generation |-> AtLeast(0), exclusion_policy_digest |-> Sha256(1),
   selected_protocol |-> Protocol, capabilities |-> SyncCapabilityList(6),
   state |-> Enum({"staging", "committed", "conflicted", "expired"}, "staging"),
   manifest_entry_count |-> AtLeast(0), manifest_encoded_bytes |-> AtLeast(0),
   content_bytes |-> AtLeast(0), expires_at |-> DateTime(30), created_at |-> DateTime(10),
   updated_at |-> DateTime(10)],
  [last_page_index |-> AtLeast(0), committed_generation |-> AtLeast(1),
   committed_manifest_root |-> Sha256(1)], "none")

WorkspaceSyncManifestReceipt == Object(
  [sync |-> WorkspaceSyncSession, page_index |-> AtLeast(0), page_digest |-> Sha256(1),
   missing_digests |-> ListOf(Sha256(1), 0, Unbounded)], None, "none")

WorkspaceSyncProblemSchema == Object(
  [type |-> Branded({"syncptype"}, 0, 0, {"runa"}, Str("syncptype", 0, 1, "runa")),
   title |-> Sized(1, 120), status |-> Whole(400, 599, 409),
   code |-> Matching({"synccode"}, 17, 63, Str("synccode", 17, 1, "plain")),
   request_id |-> Uuid(1), retryable |-> Boolean, action |-> Enum({"retry", "none"}, "retry"),
   selected_protocol |-> Nullable(Protocol), capabilities |-> SyncCapabilityList(0),
   detail |-> Sized(1, 500)], None, "CapabilitiesWithProtocol")

WorkspaceSyncReconcile == Object(
  [workspace_binding_id |-> Uuid(1), machine_id |-> Uuid(1), observed_generation |-> AtLeast(0),
   exclusion_policy_digest |-> Sha256(1), manifest_root |-> Sha256(1),
   protocol |-> WorkspaceSyncProtocolRange], None, "none")

WorkspaceSyncReconcileReceipt == Object(
  [selected_protocol |-> Protocol,
   status |-> Enum({"converged", "reconciliation_required"}, "converged"),
   active_generation |-> AtLeast(0), active_manifest_root |-> Sha256(1),
   exclusion_policy_digest |-> Sha256(1)], None, "none")

Envelope(data) == Object(
  [request_id |-> Uuid(1), selected_protocol |-> Protocol,
   capabilities |-> SyncCapabilityList(6), data |-> data], None, "none")

WorkspaceSyncSessionEnvelope == Envelope(WorkspaceSyncSession)
WorkspaceSyncManifestEnvelope == Envelope(WorkspaceSyncManifestReceipt)
WorkspaceSyncChunkEnvelope == Envelope(WorkspaceSyncChunkReceipt)
WorkspaceSyncChunkContentEnvelope == Envelope(WorkspaceSyncChunkContent)
WorkspaceSyncCommitEnvelope == Envelope(WorkspaceSyncCommitReceipt)
WorkspaceSyncChangeEnvelope == Envelope(WorkspaceSyncChangePage)
WorkspaceSyncReconcileEnvelope == Envelope(WorkspaceSyncReconcileReceipt)

(***************************************************************************)
(* What a schema says across members.                                      *)
(***************************************************************************)
MethodOfState == [none |-> {"not_applicable"},
                  interactive_login |-> {"installing", "login_required", "authenticated", "unavailable"},
                  api_key |-> {"installing", "configured", "unavailable"}]

(* The three alternatives of AgentSessionAuth's oneOf.                     *)
AuthAlternative(o) ==
  LET is(f, w) == o[f] = Word(w)
      live == Is("form", o.process_epoch) /\ Is("form", o.agent_version)
  IN \/ is("auth_mode", "interactive_login") /\ is("evidence_class", "provider_cli_login_status")
        /\ (is("state", "login_required") \/ is("state", "authenticated")) /\ live
     \/ is("auth_mode", "credential_binding") /\ is("evidence_class", "credential_binding_authority")
        /\ is("state", "configured") /\ live
     \/ is("evidence_class", "insufficient") /\ is("state", "unavailable")

ContractRule(rule, o) ==
  \/ rule = "AgentAuth" /\ o.state.word \in MethodOfState[o.method.word]
  \/ rule = "AgentSessionAuth" /\ AuthAlternative(o)
  \/ /\ rule = "BindingWithGeneration"
     /\ ("workspace_binding_id" \in DOMAIN o) = ("workspace_generation" \in DOMAIN o)
  \/ /\ rule = "EveryCapabilityOnce"
     /\ {e.object.name.word : e \in Elements(o.capabilities)} = TerminalCapabilityNames
  \/ /\ rule = "CapabilitiesWithProtocol"
     /\ Length(o.capabilities) = IF o.selected_protocol = Null THEN 0 ELSE 6
===============================================================================
