----------------------------- MODULE WireRequests -----------------------------
(***************************************************************************)
(* What the managers accept from the program, as one object of arguments   *)
(* per method, and the body they send for it.  Members hold Undefined when *)
(* the program passes undefined; lists have no holes.                      *)
(***************************************************************************)
EXTENDS WireValues

Key == Matching({"key"}, 8, 128, Str("key", 8, 1, "plain"))
Id(no) == Matching({"uuid"}, 0, 0, UuidOf(no))
Digest(no) == Matching({"digest"}, 0, 0, DigestOf(no))
Safe(lo) == SafeWhole(lo, Unbounded, lo)

(***************************************************************************)
(* Sessions.                                                               *)
(***************************************************************************)
createBody == Object(
  [name |-> Sized(1, 80)],
  [idempotencyKey |-> Maybe(Key),
   agent |-> Enum({"claude-code", "codex", "openclaw"}, "codex"),
   vcpus |-> Maybe(Whole(1, 8, 1)), memoryMiB |-> Maybe(Whole(512, 16384, 512)),
   allowedHosts |-> Maybe(ListOf(Sized(1, Unbounded), 0, 128)),
   outboundPolicy |-> Maybe(Object(
     [mode |-> Enum({"allowlist", "denylist"}, "allowlist"),
      hosts |-> SetOf(Matching({"host"}, 3, 253, Str("host", 9, 1, "plain")), 0, 128)],
     None, "none")),
   runtimePort |-> Maybe(Whole(1, 65535, 1))], "createBody")

prepareExec == Object(
  [command |-> Either(Sized(1, Unbounded), ListOf(AnyText, 1, Unbounded))],
  [cwd |-> Maybe(AnyText), timeoutSecs |-> Maybe(Whole(1, 600, 1))], "none")

checkpoint == Object([name |-> Sized(1, 80)], None, "none")

(***************************************************************************)
(* Agent sessions.                                                         *)
(***************************************************************************)
validateCreate == Object(
  [idempotencyKey |-> Key, agent |-> Enum({"claude-code", "codex", "openclaw"}, "codex"),
   cwd |-> Matching({"cwd"}, 10, 1024, Str("cwd", 10, 1, "plain")), workspaceBindingId |-> Id(1),
   workspaceGeneration |-> Safe(1)],
  [name |-> Maybe(Sized(1, 80)),
   authMode |-> Maybe(Enum({"interactive_login", "credential_binding"}, "credential_binding")),
   credentialBindingId |-> Maybe(Id(1))], "validateCreate")

rename == Object([name |-> Sized(1, 80)], None, "none")

listAgentSessions == Object(None,
  [limit |-> Maybe(SafeWhole(1, 100, 1)), cursor |-> Maybe(Sized(1, 512))], "none")

createTerminalConnection == Object(
  [idempotencyKey |-> Key,
   clientInstanceId |-> Matching({"instance"}, 1, 256, Str("instance", 9, 1, "plain"))],
  [protocol |-> Maybe(Branded({"terminal.v1"}, 0, 0, Brands, Str("terminal.v1", 0, 1, "cuna"))),
   resumeHandle |-> Maybe(Id(1))], "none")

(***************************************************************************)
(* Workspace bindings and synchronisation.                                 *)
(***************************************************************************)
createBinding == Object(
  [workspaceId |-> Id(1), projectId |-> Id(1), localInstanceId |-> Id(1), machineId |-> Id(1),
   exclusionPolicyDigest |-> Digest(1),
   excludedPrefixes |-> SetOf(Matching({"prefix"}, 1, 4096, Str("prefix", 9, 1, "plain")),
                               0, 10000)], None, "none")

protocolRange == Object([minimum |-> Safe(1), maximum |-> Safe(1)], None, "protocolRange")

manifestEntry == Object(
  [path |-> Units(1, 4096), kind |-> Enum({"directory", "file", "symlink"}, "file"),
   byteLength |-> Safe(0), executable |-> Boolean,
   chunks |-> ListOf(Object([digest |-> Digest(1), byteLength |-> SafeWhole(0, 8388608, 0)],
                            None, "none"), 0, 4096),
   linkTarget |-> Nullable(Units(0, 4096))], None, "none")

beginBody == Object(
  [workspaceBindingId |-> Id(1), machineId |-> Id(1), baseGeneration |-> Safe(0),
   exclusionPolicyDigest |-> Digest(1), protocol |-> protocolRange,
   minimumReader |-> Safe(1), minimumWriter |-> Safe(1)], None, "none")

manifestBody == Object(
  [pageIndex |-> SafeWhole(0, 255, 0), isLast |-> Boolean, minimumReader |-> Safe(1),
   minimumWriter |-> Safe(1), entries |-> ListOf(manifestEntry, 0, 4096)], None, "none")

commitBody == Object(
  [expectedGeneration |-> Safe(0), exclusionPolicyDigest |-> Digest(1),
   manifestRoot |-> Digest(1), minimumReader |-> Safe(1), minimumWriter |-> Safe(1)],
  None, "none")

(* A mutant: the limit of another cursor.                                  *)
ShortCursor == Object(
  [readerVersion |-> Safe(1)],
  [cursor |-> Maybe(Units(1, 512)), limit |-> Maybe(SafeWhole(1, 1000, 1))], "none")

changes == Object(
  [readerVersion |-> Safe(1)],
  [cursor |-> Maybe(Units(1, 1024)), limit |-> Maybe(SafeWhole(1, 1000, 1))], "none")

reconcileBody == Object(
  [workspaceBindingId |-> Id(1), machineId |-> Id(1), observedGeneration |-> Safe(0),
   exclusionPolicyDigest |-> Digest(1), manifestRoot |-> Digest(1),
   protocol |-> protocolRange], None, "none")

(***************************************************************************)
(* Conditions over several arguments.                                      *)
(***************************************************************************)
Present(o, f) == f \in DOMAIN o /\ o[f] # Undefined

(* An interactive login has no credential binding, a credential binding    *)
(* has one; openclaw has one unless it is told otherwise.                  *)
AuthenticationBinding(o) ==
  LET mode == IF Present(o, "authMode") THEN o.authMode.word
              ELSE IF o.agent = Word("openclaw") THEN "credential_binding"
              ELSE "interactive_login"
  IN (mode = "credential_binding") = Present(o, "credentialBindingId")

RequestRule(rule, o) ==
  \/ rule = "createBody" /\ ~(Present(o, "allowedHosts") /\ Present(o, "outboundPolicy"))
  \/ rule = "validateCreate" /\ AuthenticationBinding(o)
  \/ rule = "protocolRange" /\ o.minimum.int <= o.maximum.int

(***************************************************************************)
(* Bodies.                                                                 *)
(***************************************************************************)
Snake ==
  [memoryMiB |-> "memory_mib", allowedHosts |-> "allowed_hosts",
   outboundPolicy |-> "outbound_policy", runtimePort |-> "runtime_port",
   timeoutSecs |-> "timeout_secs", workspaceBindingId |-> "workspace_binding_id",
   workspaceGeneration |-> "workspace_generation", authMode |-> "auth_mode",
   credentialBindingId |-> "credential_binding_id", clientInstanceId |-> "client_instance_id",
   resumeHandle |-> "resume_handle", workspaceId |-> "workspace_id", projectId |-> "project_id",
   localInstanceId |-> "local_instance_id", machineId |-> "machine_id",
   exclusionPolicyDigest |-> "exclusion_policy_digest",
   excludedPrefixes |-> "excluded_prefixes", baseGeneration |-> "base_generation",
   minimumReader |-> "minimum_reader", minimumWriter |-> "minimum_writer",
   byteLength |-> "byte_length", linkTarget |-> "link_target", pageIndex |-> "page_index",
   isLast |-> "is_last", expectedGeneration |-> "expected_generation",
   manifestRoot |-> "manifest_root", observedGeneration |-> "observed_generation"]

Renamed(f) == IF f \in DOMAIN Snake THEN Snake[f] ELSE f

(* A mutant: the key is sent in the body as well.                          *)
SentWithKey(o) ==
  LET kept == {f \in DOMAIN o : o[f] # Undefined}
  IN [g \in {Renamed(f) : f \in kept} |-> o[CHOOSE f \in kept : Renamed(f) = g]]

(* The members a body has: the defined ones without the key, renamed.      *)
Sent(o) ==
  LET kept == {f \in DOMAIN o : o[f] # Undefined /\ f # "idempotencyKey"}
  IN [g \in {Renamed(f) : f \in kept} |-> o[CHOOSE f \in kept : Renamed(f) = g]]

EachElement(v, Change(_)) ==
  IF Is("many", v) THEN [v EXCEPT !.many = Change(@)]
  ELSE Arr([i \in DOMAIN v.items |-> Change(v.items[i])])

SentChunk(c) == Obj(Sent(c.object))

SentEntry(e) ==
  Obj([Sent(e.object) EXCEPT !.chunks = EachElement(@, SentChunk)])

(* { ...g, ...f }: where both have a member, it is that of f.              *)
Joined(f, g) ==
  [x \in DOMAIN f \cup DOMAIN g |-> IF x \in DOMAIN f THEN f[x] ELSE g[x]]

CommandWords(argv) ==
  IF IsString(argv) THEN [command |-> argv]
  ELSE IF Is("many", argv) THEN [command |-> argv.many, args |-> [argv EXCEPT !.len = @ - 1]]
  ELSE [command |-> Head(argv.items), args |-> Arr(Tail(argv.items))]

ExecBody(o) ==
  Joined(CommandWords(o.command), Sent([f \in DOMAIN o \ {"command"} |-> o[f]]))

EMITTED_TERMINAL_PROTOCOL == Str("terminal.v1", 0, 1, "runa")

TerminalBody(o) ==
  Joined([protocol |-> EMITTED_TERMINAL_PROTOCOL],
         Sent([f \in DOMAIN o \ {"protocol"} |-> o[f]]))
===============================================================================
