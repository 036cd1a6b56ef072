---------------------------- MODULE WireOperations ----------------------------
(***************************************************************************)
(* The operation table: what the generated metadata says of an operation,  *)
(* which handwritten decoder the client selects for it, which schema of    *)
(* the contract its messages have, what prepare demands of a call and what *)
(* the managers pass.                                                      *)
(***************************************************************************)
EXTENDS WireMatching

Op(method, path, body, status) ==
  [method |-> method, path |-> path, body |-> body, status |-> status]

AgentSessionOperations ==
  {"agentSessions.agentAuth", "agentSessions.create", "agentSessions.createTerminalConnection",
   "agentSessions.get", "agentSessions.list", "agentSessions.rename", "agentSessions.terminate"}

AccountOperations ==
  {"capabilities.get", "machineCreates.get", "machineCreates.reconcile", "me.get", "records.list"}

SessionOperations ==
  {"sessions.agentAuth", "sessions.checkpoint", "sessions.create", "sessions.delete",
   "sessions.exec", "sessions.get", "sessions.list", "sessions.open", "sessions.pause",
   "sessions.resume", "sessions.start", "sessions.stop"}

WorkspaceOperations ==
  {"workspaceBindings.create", "workspaceBindings.get", "workspaces.sync.begin",
   "workspaces.sync.changes", "workspaces.sync.chunk", "workspaces.sync.chunkDownload",
   "workspaces.sync.commit", "workspaces.sync.negotiate", "workspaces.sync.reconcile"}

OperationNames ==
  AgentSessionOperations \cup AccountOperations \cup SessionOperations \cup WorkspaceOperations

Operations ==
  [op \in OperationNames |->
     CASE op \in {"me.get", "records.list", "capabilities.get", "sessions.list"} ->
            Op("GET", {}, FALSE, 200)
       [] op \in {"agentSessions.agentAuth", "agentSessions.get", "agentSessions.list",
                  "machineCreates.get", "sessions.agentAuth", "sessions.get",
                  "workspaces.sync.changes"} -> Op("GET", {"id"}, FALSE, 200)
       [] op = "workspaceBindings.get" -> Op("GET", {"binding_id"}, FALSE, 200)
       [] op = "workspaces.sync.chunkDownload" -> Op("GET", {"id", "digest"}, FALSE, 200)
       [] op \in {"agentSessions.terminate", "machineCreates.reconcile", "sessions.open",
                  "sessions.pause", "sessions.resume", "sessions.start", "sessions.stop"} ->
            Op("POST", {"id"}, FALSE, 200)
       [] op \in {"agentSessions.create", "agentSessions.createTerminalConnection"} ->
            Op("POST", {"id"}, TRUE, 201)
       [] op \in {"sessions.checkpoint", "sessions.exec", "workspaces.sync.begin",
                  "workspaces.sync.commit", "workspaces.sync.negotiate",
                  "workspaces.sync.reconcile"} -> Op("POST", {"id"}, TRUE, 200)
       [] op = "sessions.create" -> Op("POST", {}, TRUE, 201)
       [] op = "workspaceBindings.create" -> Op("POST", {}, TRUE, 200)
       [] op = "agentSessions.rename" -> Op("PATCH", {"id"}, TRUE, 200)
       [] op = "sessions.delete" -> Op("DELETE", {"id"}, FALSE, 200)
       [] op = "workspaces.sync.chunk" -> Op("PUT", {"id", "digest"}, FALSE, 200)]

PROBLEM_OPERATIONS ==
  AgentSessionOperations \cup WorkspaceOperations
  \cup {"capabilities.get", "machineCreates.get", "machineCreates.reconcile",
        "sessions.agentAuth", "sessions.create"}

READS == {"agentSessions.list", "agentSessions.get", "agentSessions.agentAuth",
          "capabilities.get", "me.get", "sessions.list", "sessions.get", "records.list",
          "workspaces.sync.changes", "workspaces.sync.chunkDownload", "machineCreates.get",
          "workspaceBindings.get"}

IsSync(op) == op \in {"workspaces.sync.begin", "workspaces.sync.negotiate",
                      "workspaces.sync.chunk", "workspaces.sync.chunkDownload",
                      "workspaces.sync.commit", "workspaces.sync.changes",
                      "workspaces.sync.reconcile"}

(* RESPONSE_KINDS and the switch that applies it.                          *)
Decoder ==
  [op \in OperationNames |->
     CASE op \in {"agentSessions.agentAuth", "sessions.agentAuth"} -> decodeAgentSessionAuth
       [] op \in {"agentSessions.create", "agentSessions.get", "agentSessions.rename",
                  "agentSessions.terminate"} -> decodeAgentSession
       [] op = "agentSessions.list" -> decodeAgentSessionPage
       [] op = "agentSessions.createTerminalConnection" -> decodeTerminalConnectionGrant
       [] op = "capabilities.get" -> decodeCapabilitySnapshot
       [] op = "me.get" -> decodeMe
       [] op = "records.list" -> decodeRecords
       [] op \in {"sessions.checkpoint", "sessions.delete"} -> decodeAcknowledgement
       [] op = "sessions.exec" -> decodeExec
       [] op = "sessions.open" -> decodeOpen
       [] op = "sessions.list" -> decodeSessions
       [] op \in {"sessions.create", "sessions.get", "sessions.pause",
                  "sessions.resume", "sessions.start", "sessions.stop"} -> decodeSession
       [] op \in {"workspaceBindings.create", "workspaceBindings.get"} ->
              decodeWorkspaceBinding
       [] op \in {"machineCreates.get", "machineCreates.reconcile"} ->
              decodeMachineCreateRequest
       [] op = "workspaces.sync.begin" -> decodeWorkspaceSyncEnvelope(syncSession)
       [] op = "workspaces.sync.negotiate" ->
              decodeWorkspaceSyncEnvelope(syncManifestReceipt)
       [] op = "workspaces.sync.chunk" -> decodeWorkspaceSyncEnvelope(syncChunkReceipt)
       [] op = "workspaces.sync.chunkDownload" ->
              decodeWorkspaceSyncEnvelope(syncChunkContent)
       [] op = "workspaces.sync.commit" -> decodeWorkspaceSyncEnvelope(syncCommitReceipt)
       [] op = "workspaces.sync.changes" -> decodeWorkspaceSyncEnvelope(syncChangePage)
       [] op = "workspaces.sync.reconcile" ->
              decodeWorkspaceSyncEnvelope(syncReconcileReceipt)]

(* The schema of an operation's answer; the contract's own operation       *)
(* objects are not part of the repository, the schemas' names say it.      *)
RecordList == ListOf(RecordSchema, 0, Unbounded)
SessionList == ListOf(SessionSchema, 0, Unbounded)

Schema ==
  [op \in OperationNames |->
     CASE op = "agentSessions.agentAuth" -> AgentSessionAuth
       [] op = "sessions.agentAuth" -> AgentAuth
       [] op \in {"agentSessions.create", "agentSessions.get", "agentSessions.rename",
                  "agentSessions.terminate"} -> AgentSession
       [] op = "agentSessions.list" -> AgentSessionPage
       [] op = "agentSessions.createTerminalConnection" -> TerminalConnectionGrant
       [] op = "capabilities.get" -> CapabilitySnapshot
       [] op = "me.get" -> Me
       [] op = "records.list" -> RecordList
       [] op \in {"sessions.checkpoint", "sessions.delete"} -> Ok
       [] op = "sessions.exec" -> ExecResult
       [] op = "sessions.open" -> OpenResult
       [] op = "sessions.list" -> SessionList
       [] op \in {"sessions.create", "sessions.get", "sessions.pause",
                  "sessions.resume", "sessions.start", "sessions.stop"} -> SessionSchema
       [] op \in {"workspaceBindings.create", "workspaceBindings.get"} ->
              WorkspaceBindingSchema
       [] op \in {"machineCreates.get", "machineCreates.reconcile"} -> MachineCreateRequest
       [] op = "workspaces.sync.begin" -> WorkspaceSyncSessionEnvelope
       [] op = "workspaces.sync.negotiate" -> WorkspaceSyncManifestEnvelope
       [] op = "workspaces.sync.chunk" -> WorkspaceSyncChunkEnvelope
       [] op = "workspaces.sync.chunkDownload" -> WorkspaceSyncChunkContentEnvelope
       [] op = "workspaces.sync.commit" -> WorkspaceSyncCommitEnvelope
       [] op = "workspaces.sync.changes" -> WorkspaceSyncChangeEnvelope
       [] op = "workspaces.sync.reconcile" -> WorkspaceSyncReconcileEnvelope]

(***************************************************************************)
(* Requests: the validator of a method that takes more than identifiers,   *)
(* the body it sends, and the schema of that body.                         *)
(***************************************************************************)
WithBody == {o \in OperationNames : Operations[o].body}
WithArguments == WithBody \cup {"agentSessions.list", "workspaces.sync.changes"}

Validator ==
  [op \in WithArguments |->
     CASE op = "sessions.create" -> createBody
       [] op = "sessions.exec" -> prepareExec
       [] op = "sessions.checkpoint" -> checkpoint
       [] op = "agentSessions.create" -> validateCreate
       [] op = "agentSessions.rename" -> rename
       [] op = "agentSessions.list" -> listAgentSessions
       [] op = "agentSessions.createTerminalConnection" -> createTerminalConnection
       [] op = "workspaceBindings.create" -> createBinding
       [] op = "workspaces.sync.begin" -> beginBody
       [] op = "workspaces.sync.negotiate" -> manifestBody
       [] op = "workspaces.sync.commit" -> commitBody
       [] op = "workspaces.sync.changes" -> changes
       [] op = "workspaces.sync.reconcile" -> reconcileBody]

Body(op, o) ==
  CASE op = "sessions.exec" -> Obj(ExecBody(o))
    [] op = "agentSessions.createTerminalConnection" -> Obj(TerminalBody(o))
    [] op = "workspaces.sync.negotiate" ->
         Obj([Sent(o) EXCEPT !.entries = EachElement(@, SentEntry)])
    [] OTHER -> Obj(Sent(o))

RequestSchema ==
  [op \in WithBody |->
     CASE op = "sessions.create" -> SdkCreateSession
       [] op = "sessions.exec" -> ExecRequest
       [] op = "sessions.checkpoint" -> CheckpointRequest
       [] op = "agentSessions.create" -> AgentSessionCreate
       [] op = "agentSessions.rename" -> AgentSessionRename
       [] op = "agentSessions.createTerminalConnection" -> TerminalConnectionCreate
       [] op = "workspaceBindings.create" -> WorkspaceBindingCreate
       [] op = "workspaces.sync.begin" -> WorkspaceSyncBegin
       [] op = "workspaces.sync.negotiate" -> WorkspaceSyncManifestPage
       [] op = "workspaces.sync.commit" -> WorkspaceSyncCommit
       [] op = "workspaces.sync.reconcile" -> WorkspaceSyncReconcile]

(***************************************************************************)
(* prepare: the parts of a call must be exactly those the table demands.   *)
(***************************************************************************)
NeedsIdempotencyKey ==
  {"agentSessions.create", "agentSessions.createTerminalConnection", "sessions.create",
   "workspaceBindings.create", "workspaces.sync.begin", "workspaces.sync.negotiate",
   "workspaces.sync.chunk", "workspaces.sync.commit", "workspaces.sync.reconcile"}

Prepared(op, parts) ==
  parts = Operations[op].path
            \cup (IF op = "workspaces.sync.chunk" THEN {"bytes"}
                  ELSE IF Operations[op].body THEN {"body"} ELSE {})
            \cup (IF op \in NeedsIdempotencyKey THEN {"key"} ELSE {})

(***************************************************************************)
(* What each manager passes to invoke, which prepare looks at.             *)
(***************************************************************************)
AccountParts ==
  [op \in {"sessions.create", "sessions.list", "records.list", "me.get", "capabilities.get"} |->
     IF op = "sessions.create" THEN {"body", "key"} ELSE {}]

SessionParts ==
  [op \in {"sessions.checkpoint", "sessions.delete", "sessions.exec", "sessions.get",
           "sessions.open", "sessions.pause", "sessions.resume", "sessions.start",
           "sessions.stop"} |->
     IF op \in {"sessions.checkpoint", "sessions.exec"} THEN {"id", "body"} ELSE {"id"}]

AgentSessionParts ==
  [op \in AgentSessionOperations |->
     CASE op = "agentSessions.rename" -> {"id", "body"}
       [] op \in {"agentSessions.create", "agentSessions.createTerminalConnection"} ->
            {"id", "body", "key"}
       [] OTHER -> {"id"}]

MachineParts == [op \in {"machineCreates.get", "machineCreates.reconcile"} |-> {"id"}]

BindingParts ==
  [op \in {"workspaceBindings.create", "workspaceBindings.get"} |->
     IF op = "workspaceBindings.create" THEN {"body", "key"} ELSE {"binding_id"}]

SyncParts ==
  [op \in {"workspaces.sync.begin", "workspaces.sync.changes", "workspaces.sync.chunk",
           "workspaces.sync.chunkDownload", "workspaces.sync.commit",
           "workspaces.sync.negotiate", "workspaces.sync.reconcile"} |->
     CASE op = "workspaces.sync.changes" -> {"id"}
       [] op = "workspaces.sync.chunkDownload" -> {"id", "digest"}
       [] op = "workspaces.sync.chunk" -> {"id", "digest", "bytes", "key"}
       [] OTHER -> {"id", "body", "key"}]

\* No public method calls sessions.agentAuth.
Called == OperationNames \ {"sessions.agentAuth"}

Parts ==
  [op \in Called |->
     CASE op \in DOMAIN AccountParts -> AccountParts[op]
       [] op \in DOMAIN SessionParts -> SessionParts[op]
       [] op \in DOMAIN AgentSessionParts -> AgentSessionParts[op]
       [] op \in DOMAIN MachineParts -> MachineParts[op]
       [] op \in DOMAIN BindingParts -> BindingParts[op]
       [] op \in DOMAIN SyncParts -> SyncParts[op]]
===============================================================================
