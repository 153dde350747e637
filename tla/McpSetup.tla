------------------------------ MODULE McpSetup ------------------------------
(***************************************************************************)
(* The MCP servers of a project: the setup plan                            *)
(* (packages/mcp-client/src/index.ts), the routes under /mcp               *)
(* (apps/api/src/app.ts), the setup every execution start does             *)
(* (packages/mcp-client/src/service.ts) and the rows they write            *)
(* (packages/db/src/repositories/mcpRepository.ts).                        *)
(*                                                                         *)
(* A row is [status, auth, credential, config, tools], or Absent; a        *)
(* credential is [env, label], or NoCredential; tools maps a tool's name to*)
(* what is known of it.  A definition is a row with the environment        *)
(* variables it needs.  Transport, endpoint and trust level, which every   *)
(* operation writes alike, are left out.  A request is one function of the *)
(* row: POST /mcp/setup awaits its upserts one after the other, and the    *)
(* requests about a server are taken here to do so too.                    *)
(***************************************************************************)
EXTENDS Integers, Sequences, SequencesExt, FiniteSets, Functions

CONSTANTS
    Absent,        \* no such server
    NoCredential   \* a server without a credential

-----------------------------------------------------------------------------
(* inferCredentialEnv: the only variable of a definition that says no more. *)
CredentialEnv(definition) ==
    IF definition.credential # NoCredential THEN {definition.credential.env}
    ELSE IF definition.auth = "env_passthrough" /\ Len(definition.env) = 1
         THEN {definition.env[1]} ELSE {}

CredentialLabel(definition) ==
    IF definition.credential = NoCredential THEN "server env"
    ELSE definition.credential.label

(* toSetupPayload, after the route's activate.  needs is what a row must    *)
(* have: nothing, or one credential.                                        *)
Payload(definition, activate) ==
    [status |-> IF activate THEN "active" ELSE definition.status,
     auth |-> definition.auth, config |-> definition.config,
     tools |-> definition.tools,
     needs |-> {[env |-> e, label |-> CredentialLabel(definition)] :
                  e \in CredentialEnv(definition)}]

(* isCredentialEquivalent: a payload without one accepts any.               *)
CredentialEquivalent(row, payload) ==
    payload.needs = {} \/ row.credential \in payload.needs

(* isServerEquivalent                                                       *)
Equivalent(row, payload) ==
    /\ row.status = payload.status /\ row.auth = payload.auth
    /\ CredentialEquivalent(row, payload)
    /\ row.config = payload.config /\ row.tools = payload.tools

(* buildMcpServerSetupPlan, for one server                                  *)
Plan(row, payload) ==
    IF row = Absent THEN "create"
    ELSE IF Equivalent(row, payload) THEN "unchanged" ELSE "update"

-----------------------------------------------------------------------------
(* upsertMcpTool, for every tool of a payload.  No tool is ever removed.    *)
UpsertTools(row, tools) ==
    IF row = Absent THEN tools
    ELSE [name \in DOMAIN row.tools \cup DOMAIN tools |->
            IF name \in DOMAIN tools THEN tools[name] ELSE row.tools[name]]

(* upsertMcpServer: what the input leaves out becomes the default, the      *)
(* credential included.                                                     *)
Upsert(row, status, auth, credential, config, tools) ==
    [status |-> status, auth |-> auth, credential |-> credential,
     config |-> config, tools |-> UpsertTools(row, tools)]

(* resolveMcpCredentialRefId                                                *)
Resolve(needs) == IF needs = {} THEN NoCredential ELSE CHOOSE c \in needs : TRUE

(* Faulty: an update writes the server and leaves its tools.                *)
PersistServerOnly(row, payload) ==
    Upsert(row, payload.status, payload.auth, Resolve(payload.needs),
           payload.config, IF row = Absent THEN payload.tools ELSE row.tools)

(* persistMcpServerSetupPayload                                             *)
Persist(row, payload) ==
    Upsert(row, payload.status, payload.auth, Resolve(payload.needs),
           payload.config, payload.tools)

(* POST /mcp/setup                                                          *)
SetUp(row, definition, activate) ==
    LET payload == Payload(definition, activate) IN
    IF Plan(row, payload) = "unchanged" THEN row ELSE Persist(row, payload)

(* setMcpServerCredential                                                   *)
SetCredential(row, auth, credential) ==
    [row EXCEPT !.auth = auth, !.credential = credential]

(* normalizeMcpServerPayload drops the payload's credential ...             *)
NormalizePayload(payload) == [payload EXCEPT !.needs = {}]

(* ... and POST and PATCH /mcp/servers set it afterwards.  applyMcpServer-  *)
(* Setup sends them a whole payload.                                        *)
ApplySetup(row, definition) ==
    LET payload == Payload(definition, FALSE)
        server  == Persist(row, NormalizePayload(payload)) IN
    IF Plan(row, payload) = "unchanged" THEN row
    ELSE IF payload.needs = {} THEN server
    ELSE SetCredential(server, payload.auth, Resolve(payload.needs))

(* updateMcpServerStatus, by POST /mcp/servers/:id/enable and /disable      *)
SetStatus(row, status) == [row EXCEPT !.status = status]

(* ensureProjectMcpSetup, at every execution start: the built-in definition *)
(* of the same name, with tools of its own.                                 *)
EnsureProjectSetup(row, builtIn) ==
    Upsert(row, "active", "none", NoCredential, "none", builtIn)

(* getMcpPrerequisiteFailure, before an execution starts                    *)
Ready(rows) ==
    /\ \E k \in DOMAIN rows : rows[k] # Absent /\ rows[k].status = "active"
    /\ \A k \in DOMAIN rows :
        rows[k] # Absent => rows[k].status \in {"active", "disabled"}

-----------------------------------------------------------------------------
(* Requests about a server by its id, which is there.                       *)
OnServer(row, request) ==
    CASE request = "enable" -> SetStatus(row, "active")
      [] request = "disable" -> SetStatus(row, "disabled")
      [] request = "credential" ->
            SetCredential(row, "env_passthrough",
                          [env |-> "OTHER", label |-> "server env"])
      [] request = "clear" -> SetCredential(row, "none", NoCredential)

(* A history of requests about one server.                                  *)
Step(row, request, definition, builtIn) ==
    CASE request = "setup" -> SetUp(row, definition, FALSE)
      [] request = "activate" -> SetUp(row, definition, TRUE)
      [] request = "apply" -> ApplySetup(row, definition)
      [] request = "start" -> IF Ready(<<row>>)
                              THEN EnsureProjectSetup(row, builtIn) ELSE row
      [] OTHER -> IF row = Absent THEN row ELSE OnServer(row, request)

History(requests, definition, builtIn) ==
    FoldLeft(LAMBDA row, request : Step(row, request, definition, builtIn),
             Absent, requests)

(* Property: setting a server up again changes nothing, whatever was done   *)
(* to it before and whichever way it was set up, unless an execution start  *)
(* gave it a tool its definition does not name: such a server is planned as *)
(* an update for ever.  A setup never makes a project ready that only an    *)
(* operator could (POST /mcp/setup, apps/api/src/app.ts:1010).              *)
Settles(row, definition) ==
    LET again == Payload(definition, FALSE)
        known == row = Absent
                    \/ DOMAIN row.tools \subseteq DOMAIN definition.tools IN
    /\ \A after \in {SetUp(row, definition, FALSE),
                     ApplySetup(row, definition)} :
        /\ Plan(after, again) = IF known THEN "unchanged" ELSE "update"
        /\ definition.status = "pending" => ~Ready(<<after>>)
    /\ LET active == SetUp(row, definition, TRUE) IN
        /\ Ready(<<active>>)
        /\ known => SetUp(active, definition, TRUE) = active

SetupSettles(requests, definition, builtIn) ==
    Settles(History(requests, definition, builtIn), definition)
=============================================================================
