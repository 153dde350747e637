----------------------------- MODULE ToolCalls ------------------------------
(***************************************************************************)
(* The MCP tool calls of one task execution and the agent loop that makes  *)
(* them: createToolCall, approveToolCall and executeToolCall               *)
(* (packages/mcp-client/src/service.ts), the routes that reach them        *)
(* (apps/api/src/app.ts), the wrappers that act (wrappers.ts) and          *)
(* runAgentLoop (packages/agent/src/agentLoop.ts).  A request reads the    *)
(* call's row, awaits, decides by what it read, awaits and writes, so      *)
(* requests interleave at every await, and the server may stop at any.     *)
(*                                                                         *)
(* The row a tool has in the project's catalog was last written by one of  *)
(* two sets of definitions that disagree, STANDARD_MCP_SERVERS at every    *)
(* start of an execution and getStandardMcpServerDefinitions by POST       *)
(* /mcp/setup, or by an operator's POST or PATCH under /mcp/servers, which *)
(* stores whatever row it is given.                                        *)
(***************************************************************************)
EXTENDS Integers, FiniteSets, Sequences

CONSTANTS
    Calls,       \* ids of the McpToolCall rows there can be (bound)
    Handlers,    \* requests the API serves at the same time
    Agent,       \* the request that runs the agent loop
    Offered,     \* the tools that are asked for (bound)
    Given,       \* rows that operators give their tools (bound)
    MaxTurns     \* maxTurns of the loop (bound)

Tools == {"read_file", "apply_patch", "run_command", "navigate",
          "browser_navigate", "read.query"}
Mutabilities == {"read", "write", "execute"}

(* A schema is listed when it names the properties of its object, open when *)
(* it names none.                                                           *)
ToolRows == [mutability : Mutabilities, approval : BOOLEAN,
             schema : {"listed", "open"}, active : BOOLEAN]

ASSUME ToolAssumption ==
    /\ Calls \subseteq Nat /\ IsFiniteSet(Calls) /\ Calls # {}
    /\ Agent \notin Handlers
    /\ Offered \subseteq Tools
    /\ Given \subseteq ToolRows
    /\ MaxTurns \in Nat \ {0}

VARIABLES
    serial,      \* the API is given one request at a time
    catalog,     \* the tools' rows
    waived,      \* tools whose row an operator's request last wrote, asking
                 \* no approval
    call,        \* McpToolCall rows
    granted,     \* calls with an approval row
    exempt,      \* calls that were started while their tool was waived
    acted,       \* how often each call's wrapper changed the workspace
    job,         \* what each request is doing
    loop         \* runAgentLoop: its turn, its AgentStep rows and its events

vars == <<serial, catalog, waived, call, granted, exempt, acted, job, loop>>

Statuses == {"none", "requested", "approved", "running",
             "succeeded", "failed", "blocked"}
Finished == {"succeeded", "failed", "blocked"}

NoCall == [status |-> "none", tool |-> "read_file", mutability |-> "read",
           linked |-> FALSE]
Idle == [at |-> "idle", call |-> CHOOSE c \in Calls : TRUE,
         read |-> NoCall, approval |-> FALSE, outcome |-> "none"]
Waiting == [at |-> "idle", turn |-> 0, steps |-> <<>>, closed |-> <<>>,
            call |-> CHOOSE c \in Calls : TRUE, reason |-> "none"]

Points == {"idle", "approving", "checking", "cleared", "refused",
           "running", "ran", "answered"}
Ended == {"done", "rejected", "gone"}

TypeOK ==
    /\ serial \in BOOLEAN
    /\ catalog \in [Tools -> ToolRows]
    /\ waived \subseteq Tools
    /\ call \in [Calls -> [status : Statuses, tool : Tools,
                           mutability : Mutabilities, linked : BOOLEAN]]
    /\ granted \subseteq Calls /\ exempt \subseteq Calls
    /\ acted \in [Calls -> Nat]
    /\ job \in [Handlers \cup {Agent} ->
                  [at : Points, call : Calls,
                   read : [status : Statuses, tool : Tools,
                           mutability : Mutabilities, linked : BOOLEAN],
                   approval : BOOLEAN,
                   outcome : Finished \cup {"none"}]]
    /\ loop \in [at : {"idle", "turn", "asking", "calling", "waiting"} \cup Ended,
                turn : 0..MaxTurns,
                steps : Seq({"started", "completed", "failed"}), closed : Seq(Nat),
                call : Calls,
                reason : {"none", "tool_error", "finalize", "max_turns"}]

-----------------------------------------------------------------------------
(* The catalog *)

(* STANDARD_MCP_SERVERS.  It has no browser_navigate: a tool without a row  *)
(* refuses every call, as one with an open schema does.                     *)
ServiceRow(tool) ==
    LET acts == tool \in {"apply_patch", "run_command"} IN
    [mutability |-> IF acts THEN "write" ELSE "read", approval |-> acts,
     schema |-> IF tool = "browser_navigate" THEN "open" ELSE "listed", active |-> TRUE]

(* getStandardMcpServerDefinitions, for the tools it has.                   *)
InSetup == {"read_file", "apply_patch", "run_command", "browser_navigate"}

SetupRow(tool) ==
    [mutability |-> CASE tool = "read_file" -> "read" [] tool = "apply_patch" -> "write"
                      [] OTHER -> "execute",
     approval |-> tool # "read_file",
     schema |-> IF tool \in {"read_file", "run_command"} THEN "listed" ELSE "open",
     active |-> TRUE]

(* validateToolArguments, for the arguments the tool is made for: an object *)
(* schema that names no property refuses every one of them, whatever its    *)
(* additionalProperties says.                                               *)
Accepts(tool) == catalog[tool].schema = "listed"

(* What a wrapper may answer, and whether it changed the workspace: a check *)
(* of its arguments refuses (blocked), anything else that goes wrong fails. *)
Answer(status, acts) == [status |-> status, acts |-> acts]

ReadFileAnswers == {Answer(s, FALSE) : s \in Finished}

(* The patch is tried with --check before it is applied.                    *)
ApplyPatchAnswers ==
    {Answer("succeeded", TRUE), Answer("failed", FALSE), Answer("blocked", FALSE)}

(* A nonzero exit fails the call after the command has run.                 *)
RunCommandAnswers == ApplyPatchAnswers \cup {Answer("failed", TRUE)}

NavigateAnswers == {Answer("succeeded", FALSE), Answer("failed", FALSE)}

(* executeMcpWrapper: a tool with no wrapper (browser_navigate, read.query), *)
(* or with one of another mutability, is refused.                           *)
Wrapper(row) ==
    CASE row.tool = "read_file" /\ row.mutability = "read" -> ReadFileAnswers
      [] row.tool = "apply_patch" /\ row.mutability = "write" -> ApplyPatchAnswers
      [] row.tool = "run_command" /\ row.mutability = "write" -> RunCommandAnswers
      [] row.tool = "navigate" /\ row.mutability = "read" -> NavigateAnswers
      [] OTHER -> {Answer("blocked", FALSE)}

-----------------------------------------------------------------------------
(* Checks *)

(* Faulty: a call is started again once it is no longer running.            *)
CanStartAgain(row) ==
    /\ row.status # "running"
    /\ catalog[row.tool].active
    /\ catalog[row.tool].mutability = row.mutability
    /\ Accepts(row.tool)

(* assertCallCanStart, the tool's row and the persisted arguments           *)
CanStart(row) ==
    /\ row.status \in {"requested", "approved"}
    /\ catalog[row.tool].active
    /\ catalog[row.tool].mutability = row.mutability
    /\ Accepts(row.tool)

(* Faulty: the approval is looked for only when the call names one.         *)
MutationAllowedUnlinked(c, row, approval, ground) ==
    /\ row.linked => c \in granted
    /\ ground

(* assertMutatingToolCallAllowed, by the tool's row as read with the call:  *)
(* ground says that the plan is approved, the execution implementing, the   *)
(* task executing and its branch active and checked out.                    *)
MutationAllowed(c, row, approval, ground) ==
    /\ approval => row.status = "approved" /\ row.linked
    /\ row.linked => c \in granted
    /\ ground

(* Whether a request may start now.                                         *)
Free(h) ==
    /\ job[h].at = "idle"
    /\ serial => /\ \A g \in Handlers : job[g].at = "idle"
                 /\ loop.at \in {"idle"} \cup Ended

-----------------------------------------------------------------------------
(* Requests *)

Init ==
    /\ serial \in BOOLEAN
    /\ catalog = [t \in Tools |-> ServiceRow(t)]
    /\ waived = {}
    /\ call = [c \in Calls |-> NoCall]
    /\ granted = {}
    /\ exempt = {}
    /\ acted = [c \in Calls |-> 0]
    /\ job = [h \in Handlers \cup {Agent} |-> Idle]
    /\ loop = Waiting

(* createToolCall: the row copies the mutability of the tool it found; ids  *)
(* are given out in order.                                                  *)
Create(c, t) ==
    /\ call[c].status = "none"
    /\ \A d \in Calls : d < c => call[d].status # "none"
    /\ Accepts(t)
    /\ call' = [call EXCEPT ![c] = [status |-> "requested", tool |-> t,
                                    mutability |-> catalog[t].mutability,
                                    linked |-> FALSE]]

CreateCall(h, c, t) ==
    /\ Free(h)
    /\ Create(c, t)
    /\ UNCHANGED <<serial, catalog, waived, granted, exempt, acted, job, loop>>

(* What the approve route asks of the row, and approveToolCall again.       *)
Approvable(c) ==
    /\ call[c].status = "requested"
    /\ catalog[call[c].tool].approval

ApproveRead(h, c) ==
    /\ Free(h)
    /\ Approvable(c)
    /\ job' = [job EXCEPT ![h] = [Idle EXCEPT !.at = "approving", !.call = c]]
    /\ UNCHANGED <<serial, catalog, waived, call, granted, exempt, acted, loop>>

(* Its transaction, which looks at nothing again.                           *)
ApproveWrite(h) ==
    LET c == job[h].call IN
    /\ job[h].at = "approving"
    /\ granted' = granted \cup {c}
    /\ call' = [call EXCEPT ![c].status = "approved", ![c].linked = TRUE]
    /\ job' = [job EXCEPT ![h] = Idle]
    /\ UNCHANGED <<serial, catalog, waived, exempt, acted, loop>>

(* executeToolCall reads the row with its tool's and makes the checks that  *)
(* need nothing else.                                                       *)
ExecuteRead(h, c) ==
    /\ call[c].status # "none"
    /\ \/ /\ CanStart(call[c])
          /\ job' = [job EXCEPT ![h] = [Idle EXCEPT
                       !.at = "checking", !.call = c, !.read = call[c],
                       !.approval = catalog[call[c].tool].approval]]
          /\ exempt' = IF call[c].tool \in waived THEN exempt \cup {c} ELSE exempt
       \/ /\ ~CanStart(call[c])
          /\ job' = [job EXCEPT ![h] = [Idle EXCEPT !.at = "refused", !.call = c]]
          /\ exempt' = exempt

ExecuteCall(h, c) ==
    /\ Free(h)
    /\ ExecuteRead(h, c)
    /\ UNCHANGED <<serial, catalog, waived, call, granted, acted, loop>>

(* loadToolExecutionContext and, unless the call reads, the policy checks.  *)
(* Other requests (see ExecutionLifecycle) may move the ground at any time. *)
ExecuteCheck(h) ==
    LET c == job[h].call
        row == job[h].read
    IN
    /\ job[h].at = "checking"
    /\ \E ground \in BOOLEAN :
         job' = [job EXCEPT ![h] =
                   IF \/ row.mutability = "read"
                      \/ MutationAllowed(c, row, job[h].approval, ground)
                   THEN [@ EXCEPT !.at = "cleared"]
                   ELSE [Idle EXCEPT !.at = "refused", !.call = c]]
    /\ UNCHANGED <<serial, catalog, waived, call, granted, exempt, acted, loop>>

(* Faulty: the row is written only with the outcome.                        *)
ExecuteStartUnmarked(h) ==
    /\ job[h].at = "cleared"
    /\ job' = [job EXCEPT ![h].at = "running"]
    /\ UNCHANGED <<serial, catalog, waived, call, granted, exempt, acted, loop>>

(* The row says running, whatever it said.                                  *)
ExecuteStart(h) ==
    /\ job[h].at = "cleared"
    /\ call' = [call EXCEPT ![job[h].call].status = "running"]
    /\ job' = [job EXCEPT ![h].at = "running"]
    /\ UNCHANGED <<serial, catalog, waived, granted, exempt, acted, loop>>

ExecuteWrapper(h) ==
    /\ job[h].at = "running"
    /\ \E o \in Wrapper(job[h].read) :
         /\ job' = [job EXCEPT ![h] = [Idle EXCEPT !.at = "ran", !.outcome = o.status,
                                                   !.call = job[h].call]]
         /\ acted' = [acted EXCEPT ![job[h].call] = IF o.acts THEN @ + 1 ELSE @]
    /\ UNCHANGED <<serial, catalog, waived, call, granted, exempt, loop>>

(* What may be recorded of it: a success is failed when its own transaction *)
(* throws, though the tool has acted.                                       *)
Outcomes(j) ==
    IF j.at = "refused" THEN {"blocked"}
    ELSE {j.outcome} \cup (IF j.outcome = "succeeded" THEN {"failed"} ELSE {})

(* The transaction that records the outcome; persistBlockedToolCall records *)
(* a refusal, persistFailedToolCall a failure.  The agent's request goes    *)
(* back to its loop with the answer.                                        *)
ExecuteRecord(h) ==
    /\ job[h].at \in {"refused", "ran"}
    /\ \E outcome \in Outcomes(job[h]) :
         /\ call' = [call EXCEPT ![job[h].call].status = outcome]
         /\ job' = [job EXCEPT ![h] = IF h = Agent
                      THEN [Idle EXCEPT !.at = "answered", !.outcome = outcome]
                      ELSE Idle]
    /\ UNCHANGED <<serial, catalog, waived, granted, exempt, acted, loop>>

(* upsertMcpTool, of one tool: a call looks at the row of its own tool      *)
(* only, so the rows that a request writes one after the other are written  *)
(* as if by requests of their own.                                          *)
UpsertTool(t, row) ==
    /\ catalog' = [catalog EXCEPT ![t] = row]
    /\ UNCHANGED <<serial, call, granted, exempt, acted, job, loop>>

(* ensureProjectMcpSetup, at the start of an execution, and POST /mcp/setup *)
UpsertStandard(t) ==
    /\ \/ t # "browser_navigate" /\ UpsertTool(t, ServiceRow(t))
       \/ t \in InSetup /\ UpsertTool(t, SetupRow(t))
    /\ waived' = waived \ {t}

(* POST /mcp/servers and PATCH /mcp/servers/:id: normalizeMcpServerTools    *)
(* takes the row from the request, with no approval unless it asks for one. *)
UpsertGiven(t, row) ==
    /\ UpsertTool(t, row)
    /\ waived' = IF row.approval THEN waived \ {t} ELSE waived \cup {t}

(* The server stops: what its requests held is gone, the rows stay.         *)
Restart ==
    /\ job' = [h \in Handlers \cup {Agent} |-> Idle]
    /\ loop' = IF loop.at = "idle" \/ loop.at \in Ended THEN loop
               ELSE [loop EXCEPT !.at = "gone", !.call = Waiting.call]
    /\ UNCHANGED <<serial, catalog, waived, call, granted, exempt, acted>>

-----------------------------------------------------------------------------
(* The agent loop *)

StartLoop ==
    /\ loop.at = "idle"
    /\ serial => \A g \in Handlers : job[g].at = "idle"
    /\ loop' = [loop EXCEPT !.at = "turn"]
    /\ UNCHANGED <<serial, catalog, waived, call, granted, exempt, acted, job>>

(* createAgentStep and agent.step.started                                   *)
BeginTurn ==
    /\ loop.at = "turn"
    /\ loop' = [loop EXCEPT !.at = "asking", !.turn = @ + 1,
                            !.steps = Append(@, "started"),
                            !.closed = Append(@, 0), !.call = Waiting.call]
    /\ UNCHANGED <<serial, catalog, waived, call, granted, exempt, acted, job>>

(* updateAgentStep and agent.step.completed of the turn's step.             *)
Close(status) ==
    [loop EXCEPT !.steps[loop.turn] = status, !.closed[loop.turn] = @ + 1]

(* Faulty: a step that failed is left as it was.                            *)
StopOpen(status, reason) ==
    [(IF status = "completed" THEN Close(status) ELSE loop)
        EXCEPT !.at = "done", !.reason = reason, !.call = Waiting.call]

Stop(status, reason) == 
    [Close(status) EXCEPT !.at = "done", !.reason = reason, !.call = Waiting.call]

(* nextTurn throws.                                                         *)
GeneratorFails ==
    /\ loop.at = "asking"
    /\ loop' = Stop("failed", "tool_error")
    /\ UNCHANGED <<serial, catalog, waived, call, granted, exempt, acted, job>>

GeneratorFinalizes ==
    /\ loop.at = "asking"
    /\ loop' = Stop("completed", "finalize")
    /\ UNCHANGED <<serial, catalog, waived, call, granted, exempt, acted, job>>

(* nextTurn names something that is no <server>/<tool>: parseToolName       *)
(* throws outside any try, and the step stays started.                      *)
GeneratorMisnames ==
    /\ loop.at = "asking"
    /\ loop' = [loop EXCEPT !.at = "rejected"]
    /\ UNCHANGED <<serial, catalog, waived, call, granted, exempt, acted, job>>

(* nextTurn names a tool whose arguments the catalog accepts, and the call  *)
(* is created; or createToolCall throws.                                    *)
GeneratorCalls(c, t) ==
    /\ loop.at = "asking"
    /\ Create(c, t)
    /\ loop' = [loop EXCEPT !.at = "calling", !.call = c]
    /\ UNCHANGED <<serial, catalog, waived, granted, exempt, acted, job>>

GeneratorRefused ==
    /\ loop.at = "asking"
    /\ loop' = Stop("failed", "tool_error")
    /\ UNCHANGED <<serial, catalog, waived, call, granted, exempt, acted, job>>

LoopExecutes ==
    /\ loop.at = "calling"
    /\ ExecuteRead(Agent, loop.call)
    /\ loop' = [loop EXCEPT !.at = "waiting"]
    /\ UNCHANGED <<serial, catalog, waived, call, granted, acted>>

(* Faulty: the turn budget is compared with the turns already closed.       *)
AfterResultLate ==
    IF loop.turn <= MaxTurns THEN [Close("completed") EXCEPT !.at = "turn"]
    ELSE [Stop("completed", "max_turns") EXCEPT !.closed[loop.turn] = @ + 1]

(* A result: the step completes and the next turn begins; when the budget   *)
(* is spent the last step is closed a second time, as max_turns.            *)
AfterResult ==
    IF loop.turn < MaxTurns THEN [Close("completed") EXCEPT !.at = "turn"]
    ELSE [Stop("completed", "max_turns") EXCEPT !.closed[loop.turn] = @ + 1]

(* Faulty: a refused or failed call is not answered.                        *)
LoopObservesSuccess ==
    /\ loop.at = "waiting"
    /\ job[Agent].at = "answered"
    /\ job[Agent].outcome = "succeeded"
    /\ loop' = AfterResult
    /\ job' = [job EXCEPT ![Agent] = Idle]
    /\ UNCHANGED <<serial, catalog, waived, call, granted, exempt, acted>>

LoopObserves ==
    /\ loop.at = "waiting"
    /\ job[Agent].at = "answered"
    /\ loop' = IF job[Agent].outcome = "succeeded" THEN AfterResult
               ELSE Stop("failed", "tool_error")
    /\ job' = [job EXCEPT ![Agent] = Idle]
    /\ UNCHANGED <<serial, catalog, waived, call, granted, exempt, acted>>

-----------------------------------------------------------------------------

Advance(h) ==
    \/ ExecuteCheck(h)
    \/ ExecuteStart(h)
    \/ ExecuteWrapper(h)
    \/ ExecuteRecord(h)

LoopStep ==
    \/ BeginTurn
    \/ GeneratorFails
    \/ GeneratorFinalizes
    \/ GeneratorMisnames
    \/ \E c \in Calls, t \in Offered : GeneratorCalls(c, t)
    \/ GeneratorRefused
    \/ LoopExecutes
    \/ LoopObserves

Next ==
    \/ \E h \in Handlers, c \in Calls, t \in Offered : CreateCall(h, c, t)
    \/ \E h \in Handlers, c \in Calls : ApproveRead(h, c) \/ ExecuteCall(h, c)
    \/ \E h \in Handlers : ApproveWrite(h)
    \/ \E h \in Handlers \cup {Agent} : Advance(h)
    \/ \E t \in Offered : UpsertStandard(t) \/ \E row \in Given : UpsertGiven(t, row)
    \/ StartLoop
    \/ LoopStep
    \/ Restart

(* Every await of the loop's request comes back: the database, the wrappers *)
(* (which have a timeout) and the model answer or throw.                    *)
Spec == Init /\ [][Next]_vars /\ WF_vars(LoopStep) /\ WF_vars(Advance(Agent))

-----------------------------------------------------------------------------
(* Properties *)

(* A tool that mutates acted only for a call an operator had granted, or    *)
(* that was started while its tool stood as an operator's own request had   *)
(* left it, needing no approval: neither set of definitions lets one act    *)
(* without a grant, however requests, starts of executions, setups and the  *)
(* operators' changes of the catalog interleave.                            *)
ActsOnlyIfGranted == \A c \in Calls : acted[c] > 0 => c \in granted \cup exempt

(* While requests do not overlap a finished call stays finished: no late    *)
(* approval or start brings it back, though a repeated execution may record *)
(* it as blocked.                                                           *)
FinishedStaysFinished ==
    [][serial => \A c \in Calls :
         call[c].status \in Finished => call'[c].status \in Finished]_vars

(* A loop that has returned closed every step it opened, each once, but the *)
(* last one of a spent budget, which is closed twice.                       *)
LoopClosesItsSteps ==
    loop.at = "done" =>
        \A i \in 1..Len(loop.steps) :
          /\ loop.steps[i] # "started"
          /\ loop.closed[i] =
               IF loop.reason = "max_turns" /\ i = Len(loop.steps) THEN 2 ELSE 1

(* A loop that was started ends: it returns, it throws or it is lost.       *)
LoopEnds == loop.at = "turn" ~> loop.at \in Ended

(* The calls keep the promise of CallLedger: no act without its grant or an *)
(* operator's exemption, and one act at most while requests come one at a   *)
(* time, restarts included.                                                 *)
Ledger == INSTANCE CallLedger
    WITH asked <- {c \in Calls : call[c].status # "none"}

KeepsTheLedger == Ledger!Spec

(* docs/data/state-model.md: blocked means "Policy blocked the tool call."  *)
(* TLC refutes this: see README.                                            *)
BlockedNeverActed ==
    \A c \in Calls : call[c].status = "blocked" => acted[c] = 0
=============================================================================
