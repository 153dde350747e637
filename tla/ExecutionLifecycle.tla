------------------------- MODULE ExecutionLifecycle -------------------------
(***************************************************************************)
(* Task branches, executions, verification runs and patch reviews          *)
(* (packages/agent/src/execution.ts, packages/test-runner/src/index.ts and *)
(* the routes of apps/api/src/app.ts that call them).                      *)
(*                                                                         *)
(* One Node process serves every request.  A handler runs without          *)
(* interruption from one await to the next, so each action below is the    *)
(* stretch of a handler between two awaits (a transaction counts as one    *)
(* step), and a handler's local variables live in its job.  All tasks of a *)
(* project share one git working tree.                                     *)
(***************************************************************************)
EXTENDS ApprovalGate, Integers

CONSTANTS
    Executions,   \* TaskExecution rows there can be (the model's bound)
    Handlers,     \* requests the API serves at the same time
    NoExecution,  \* "no execution yet"
    Commanded,    \* items with a command; the others are visual or a11y checks
    Playwright,   \* validations with a generated spec file to run
    Base          \* the project's base branch; a task names its own branch

ASSUME LifecycleAssumption ==
    /\ Base \notin Tasks
    /\ NoExecution \notin Executions
    /\ Commanded \subseteq Items
    /\ Playwright \subseteq Validations

VARIABLES
    branch,       \* TaskBranch.state, "none" without a row
    git,          \* [head: the branch checked out, local: task branches that
                  \*  exist, dirty: tasks with uncommitted edits in the tree]
    exec,         \* TaskExecution: [status, task]
    patch,        \* PatchReview of each execution: [status, tree], where tree
                  \* is what its tests ran on and its diff was taken from
    job           \* what each handler is doing

rows == <<branch, git, exec, patch>>
vars == <<gateVars, rows, job>>

BranchState == {"none", "created", "active", "verified", "approved", "abandoned"}
ExecStatus ==
    {"absent", "queued", "implementing", "verifying", "patch_ready",
     "completed", "failed"}
PatchStatus == {"none", "ready", "approved", "rejected"}
Branches == Tasks \cup {Base}
Targets == Items \cup Validations

(* Where a handler waits.  "gate" and "regate" have read the task's row,    *)
(* "lookup" has passed the gate, "record" has switched the tree, "reread",  *)
(* "enqueue" and "launch" are startTaskExecution's own steps, "leave" is an *)
(* abandon, "select" to "publish" a verification run, "write" a mutating    *)
(* tool call whose checks passed.                                           *)
Points ==
    {"idle", "gate", "lookup", "record", "reread", "regate", "enqueue",
     "launch", "headless", "leave", "select", "begin", "next", "running",
     "publish", "write"}

Idle ==
    [at |-> "idle", goal |-> "branch", task |-> Base, exec |-> NoExecution,
     status |-> "planned", plan |-> "none", persisted |-> FALSE,
     items |-> {}, todo |-> {}, current |-> {}, failed |-> FALSE, tree |-> {}]

Job ==
    [at : Points, goal : {"branch", "execute", "headless"},
     task : Tasks \cup {Base}, exec : Executions \cup {NoExecution},
     status : TaskStatus, plan : PlanStatus, persisted : BOOLEAN,
     items : SUBSET Items, todo : SUBSET Targets, current : SUBSET Targets,
     failed : BOOLEAN, tree : SUBSET Branches]

TypeOK ==
    /\ GateTypeOK
    /\ branch \in [Tasks -> BranchState]
    /\ git \in [head : Branches, local : SUBSET Tasks, dirty : SUBSET Tasks]
    /\ exec \in [Executions -> [status : ExecStatus, task : Tasks \cup {Base}]]
    /\ patch \in [Executions -> [status : PatchStatus, tree : SUBSET Branches]]
    /\ job \in [Handlers -> Job]

Init ==
    /\ GateInit
    /\ branch = [t \in Tasks |-> "none"]
    /\ git = [head |-> Base, local |-> {}, dirty |-> {}]
    /\ exec = [e \in Executions |-> [status |-> "absent", task |-> Base]]
    /\ patch = [e \in Executions |-> [status |-> "none", tree |-> {}]]
    /\ job = [h \in Handlers |-> Idle]

-----------------------------------------------------------------------------
At(h, point) == job[h].at = point

Goto(h, point) == job' = [job EXCEPT ![h].at = point]

Return(h) == job' = [job EXCEPT ![h] = Idle]

SetExec(e, status) == exec' = [exec EXCEPT ![e].status = status]

SetTask(t, status) == task' = [task EXCEPT ![t] = status]

(* What a command or a diff sees: the branch checked out and the            *)
(* uncommitted edits lying in the tree.                                     *)
WorkingTree == {git.head} \cup git.dirty

-----------------------------------------------------------------------------
(* prepareTaskBranch                                                        *)

(* The model's bound on executions: one is left for every request that may  *)
(* come to need one.                                                        *)
ExecutionLeft ==
    Cardinality({h \in Handlers : job[h].goal # "branch"
                                  /\ job[h].exec = NoExecution})
      < Cardinality({e \in Executions : exec[e].status = "absent"})

(* POST /tasks/:id/branch, /execute and /execute/headless all start here:   *)
(* the first read of requireReadyTaskContext.                               *)
ReadContext(h, t, goal) ==
    /\ At(h, "idle")
    /\ goal # "branch" => ExecutionLeft
    /\ job' = [job EXCEPT ![h] = [Idle EXCEPT !.at = "gate", !.goal = goal,
                  !.task = t, !.status = task[t], !.plan = plan[t]]]
    /\ UNCHANGED <<gateVars, rows>>

(* Faulty: the status is taken for the approvals it once stood for.         *)
GatePassesWhenReady(h) == job[h].status = "ready"

(* The validations are read after the task's row, and the row's status and  *)
(* plan are the ones read before.                                           *)
GatePasses(h) ==
    /\ GateOpen(job[h].plan, validation[job[h].task])
    /\ job[h].status = "ready"

(* Faulty: assertCleanWorktree is not called.                               *)
CheckGateOnly(h) ==
    /\ At(h, "gate")
    /\ IF GatePasses(h) THEN Goto(h, "lookup") ELSE Return(h)
    /\ UNCHANGED <<gateVars, rows>>

CheckGate(h) ==
    /\ At(h, "gate")
    /\ IF GatePasses(h) /\ git.dirty = {} THEN Goto(h, "lookup") ELSE Return(h)
    /\ UNCHANGED <<gateVars, rows>>

(* Faulty: only the creation of a branch checks it out.                     *)
SwitchNewBranch(h) ==
    LET t == job[h].task IN
    /\ At(h, "lookup")
    /\ git' = [git EXCEPT !.head = IF t \in git.local THEN @ ELSE t,
                          !.local = @ \cup {t}]
    /\ job' = [job EXCEPT ![h].at = "record",
                          ![h].persisted = branch[t] # "none"]
    /\ UNCHANGED <<gateVars, branch, exec, patch>>

(* The branch row is read and the tree is switched.  The tree was clean at  *)
(* the gate and is not looked at again; git may refuse to switch a dirty    *)
(* one.                                                                     *)
SwitchBranch(h) ==
    LET t == job[h].task IN
    /\ At(h, "lookup")
    /\ \/ /\ git' = [git EXCEPT !.head = t, !.local = @ \cup {t}]
          /\ job' = [job EXCEPT ![h].at = "record",
                                ![h].persisted = branch[t] # "none"]
       \/ /\ git.dirty # {}
          /\ Return(h)
          /\ UNCHANGED git
    /\ UNCHANGED <<gateVars, branch, exec, patch>>

(* The row is created or moved back to created.  A concurrent preparation   *)
(* may have created it first, and TaskBranch.taskId is unique.              *)
RecordBranch(h) ==
    LET t == job[h].task IN
    /\ At(h, "record")
    /\ IF job[h].persisted \/ branch[t] = "none"
       THEN /\ branch' = [branch EXCEPT ![t] = "created"]
            /\ CASE job[h].goal = "branch"   -> Return(h)
                 [] job[h].goal = "execute"  -> Goto(h, "reread")
                 [] job[h].goal = "headless" -> Goto(h, "headless")
       ELSE Return(h) /\ UNCHANGED branch
    /\ UNCHANGED <<gateVars, git, exec, patch>>

(* abandonTaskBranch: the switch, then the row.                             *)
LeaveBranch(h, t) ==
    /\ At(h, "idle")
    /\ branch[t] # "none"
    /\ git.dirty = {}
    /\ git' = [git EXCEPT !.head = IF @ = t THEN Base ELSE @]
    /\ job' = [job EXCEPT ![h] = [Idle EXCEPT !.at = "leave", !.task = t]]
    /\ UNCHANGED <<gateVars, branch, exec, patch>>

(* Faulty: a state no other code knows (the column is a plain string).      *)
DeleteBranch(h) ==
    /\ At(h, "leave")
    /\ branch' = [branch EXCEPT ![job[h].task] = "deleted"]
    /\ Return(h)
    /\ UNCHANGED <<gateVars, git, exec, patch>>

AbandonBranch(h) ==
    /\ At(h, "leave")
    /\ branch' = [branch EXCEPT ![job[h].task] = "abandoned"]
    /\ Return(h)
    /\ UNCHANGED <<gateVars, git, exec, patch>>

-----------------------------------------------------------------------------
(* startTaskExecution, after prepareTaskBranch                              *)

ReReadContext(h) ==
    LET t == job[h].task IN
    /\ At(h, "reread")
    /\ job' = [job EXCEPT ![h].at = "regate", ![h].status = task[t],
                          ![h].plan = plan[t]]
    /\ UNCHANGED <<gateVars, rows>>

RecheckGate(h) ==
    /\ At(h, "regate")
    /\ IF GatePasses(h) THEN Goto(h, "enqueue") ELSE Return(h)
    /\ UNCHANGED <<gateVars, rows>>

EnqueueExecution(h, e) ==
    /\ At(h, "enqueue")
    /\ exec[e].status = "absent"
    /\ exec' = [exec EXCEPT ![e] = [status |-> "queued", task |-> job[h].task]]
    /\ job' = [job EXCEPT ![h].at = "launch", ![h].exec = e]
    /\ UNCHANGED <<gateVars, branch, git, patch>>

(* The model slot resolved.                                                 *)
LaunchExecution(h) ==
    LET t == job[h].task IN
    /\ At(h, "launch")
    /\ SetExec(job[h].exec, "implementing")
    /\ SetTask(t, "executing")
    /\ branch' = [branch EXCEPT ![t] = "active"]
    /\ Return(h)
    /\ UNCHANGED <<plan, item, validation, git, patch>>

(* The model slot did not resolve.                                          *)
FailLaunch(h) ==
    /\ At(h, "launch")
    /\ SetExec(job[h].exec, "failed")
    /\ SetTask(job[h].task, "failed")
    /\ Return(h)
    /\ UNCHANGED <<plan, item, validation, branch, git, patch>>

(* POST /tasks/:id/execute/headless: no second look at the gate.            *)
LaunchHeadless(h, e) ==
    LET t == job[h].task IN
    /\ At(h, "headless")
    /\ exec[e].status = "absent"
    /\ exec' = [exec EXCEPT ![e] = [status |-> "implementing", task |-> t]]
    /\ SetTask(t, "executing")
    /\ branch' = [branch EXCEPT ![t] = "active"]
    /\ Return(h)
    /\ UNCHANGED <<plan, item, validation, git, patch>>

-----------------------------------------------------------------------------
(* A mutating tool call of the agent: assertMutatingToolCallAllowed, then   *)
(* (after the call row is updated) the write into the working tree.         *)

CheckToolCall(h, e) ==
    LET t == exec[e].task IN
    /\ At(h, "idle")
    /\ exec[e].status = "implementing"
    /\ plan[t] = "approved"
    /\ task[t] = "executing"
    /\ branch[t] = "active"
    /\ git.head = t
    /\ job' = [job EXCEPT ![h] = [Idle EXCEPT !.at = "write", !.task = t,
                                              !.exec = e]]
    /\ UNCHANGED <<gateVars, rows>>

WriteToolCall(h) ==
    /\ At(h, "write")
    /\ git' = [git EXCEPT !.dirty = @ \cup {job[h].task}]
    /\ Return(h)
    /\ UNCHANGED <<gateVars, branch, exec, patch>>

(* Edits are committed outside the program.                                 *)
CommitEdits ==
    /\ git.dirty # {}
    /\ git' = [git EXCEPT !.dirty = {}]
    /\ UNCHANGED <<gateVars, branch, exec, patch, job>>

-----------------------------------------------------------------------------
(* runExecutionVerification                                                 *)

ApprovedItems(t) == {i \in Items : item[t][i] = "approved"}

ReadRunContext(h, e) ==
    LET t == exec[e].task IN
    /\ At(h, "idle")
    /\ exec[e].status \in {"implementing", "verifying"}
    /\ plan[t] = "approved"
    /\ task[t] \in {"executing", "testing"}
    /\ job' = [job EXCEPT ![h] = [Idle EXCEPT !.at = "select", !.task = t,
                                  !.exec = e, !.items = ApprovedItems(t)]]
    /\ UNCHANGED <<gateVars, rows>>

(* listApprovedPlaywrightValidationCommandTargets: approved validations     *)
(* with a spec file, unless they hang on an item that has a command.        *)
PlaywrightTargets(t, items) ==
    {v \in Playwright : validation[t][v] = "approved"
                        /\ ItemOf[v] \notin items \cap Commanded}

(* Such a validation is run in place of the item it hangs on; the items     *)
(* that are not targets stay in the job as those its validations cover.     *)
RunTargets(t, items) ==
    LET specs == PlaywrightTargets(t, items)
    IN  specs \cup (items \ {ItemOf[v] : v \in specs})

(* Faulty: assertCurrentBranch is not called.                               *)
SelectTargetsAnywhere(h) ==
    LET targets == RunTargets(job[h].task, job[h].items)
    IN  /\ At(h, "select")
        /\ IF targets # {}
           THEN job' = [job EXCEPT ![h].at = "begin", ![h].todo = targets,
                                   ![h].items = @ \ targets]
           ELSE Return(h)
        /\ UNCHANGED <<gateVars, rows>>

SelectTargets(h) ==
    LET t == job[h].task
        targets == RunTargets(t, job[h].items)
    IN  /\ At(h, "select")
        /\ IF targets # {} /\ git.head = t
           THEN job' = [job EXCEPT ![h].at = "begin", ![h].todo = targets,
                                   ![h].items = @ \ targets]
           ELSE Return(h)
        /\ UNCHANGED <<gateVars, rows>>

BeginVerification(h) ==
    /\ At(h, "begin")
    /\ SetTask(job[h].task, "testing")
    /\ SetExec(job[h].exec, "verifying")
    /\ Goto(h, "next")
    /\ UNCHANGED <<plan, item, validation, branch, git, patch>>

(* runSingleShotCommandTarget marks the target, and the item that it        *)
(* covers, running in one transaction, runs the command and records the     *)
(* result in another.                                                       *)
Marked(h, x) ==
    {x} \cup (IF x \in Validations THEN {ItemOf[x]} \cap job[h].items ELSE {})

SetTarget(h, x, itemStatus, validationStatus) ==
    LET t == job[h].task IN
    /\ item' = [item EXCEPT ![t] = [i \in Items |->
                  IF i \in Marked(h, x) THEN itemStatus ELSE item[t][i]]]
    /\ validation' = [validation EXCEPT ![t] = [v \in Validations |->
                  IF v = x THEN validationStatus ELSE validation[t][v]]]

StartTarget(h, x) ==
    /\ At(h, "next")
    /\ x \in job[h].todo
    /\ SetTarget(h, x, "running", "running")
    /\ job' = [job EXCEPT ![h].at = "running", ![h].current = {x},
                          ![h].todo = @ \ {x}]
    /\ UNCHANGED <<task, plan, rows>>

FinishTarget(h, x, passed) ==
    /\ At(h, "running")
    /\ x \in job[h].current
    /\ IF passed THEN SetTarget(h, x, "green", "passed")
                 ELSE SetTarget(h, x, "failed", "failed")
    /\ job' = [job EXCEPT ![h].at = "next", ![h].current = {},
                          ![h].failed = @ \/ ~passed,
                          ![h].tree = @ \cup WorkingTree]
    /\ UNCHANGED <<task, plan, rows>>

(* Faulty: the task is not told.                                            *)
FailExecutionOnly(h) ==
    /\ At(h, "next")
    /\ job[h].todo = {} /\ job[h].failed
    /\ SetExec(job[h].exec, "failed")
    /\ Return(h)
    /\ UNCHANGED <<gateVars, branch, git, patch>>

FailVerification(h) ==
    /\ At(h, "next")
    /\ job[h].todo = {} /\ job[h].failed
    /\ SetExec(job[h].exec, "failed")
    /\ SetTask(job[h].task, "failed")
    /\ Return(h)
    /\ UNCHANGED <<plan, item, validation, branch, git, patch>>

(* collectPatchMetadata takes the diff, then the patch is published.        *)
CollectPatch(h) ==
    /\ At(h, "next")
    /\ job[h].todo = {} /\ ~job[h].failed
    /\ job' = [job EXCEPT ![h].at = "publish", ![h].tree = @ \cup WorkingTree]
    /\ UNCHANGED <<gateVars, rows>>

(* Faulty: the upsert of an existing review leaves its status.              *)
PublishDiffOnly(h) ==
    LET t == job[h].task  e == job[h].exec IN
    /\ At(h, "publish")
    /\ branch' = [branch EXCEPT ![t] = "verified"]
    /\ SetExec(e, "patch_ready")
    /\ SetTask(t, "awaiting_patch_approval")
    /\ patch' = [patch EXCEPT ![e].tree = job[h].tree,
                    ![e].status = IF @ = "none" THEN "ready" ELSE @]
    /\ Return(h)
    /\ UNCHANGED <<plan, item, validation, git>>

PublishPatch(h) ==
    LET t == job[h].task  e == job[h].exec IN
    /\ At(h, "publish")
    /\ branch' = [branch EXCEPT ![t] = "verified"]
    /\ SetExec(e, "patch_ready")
    /\ SetTask(t, "awaiting_patch_approval")
    /\ patch' = [patch EXCEPT ![e] = [status |-> "ready", tree |-> job[h].tree]]
    /\ Return(h)
    /\ UNCHANGED <<plan, item, validation, git>>

-----------------------------------------------------------------------------
(* Requests whose reads can go stale without any effect: one step each.     *)

ApprovePatch(e) ==
    LET t == exec[e].task IN
    /\ patch[e].status # "none"
    /\ patch' = [patch EXCEPT ![e].status = "approved"]
    /\ branch' = [branch EXCEPT ![t] = "approved"]
    /\ SetExec(e, "completed")
    /\ SetTask(t, "completed")
    /\ UNCHANGED <<plan, item, validation, git>>

(* Faulty: the execution is not told.                                       *)
RejectReviewOnly(e) ==
    /\ patch[e].status # "none"
    /\ patch' = [patch EXCEPT ![e].status = "rejected"]
    /\ SetTask(exec[e].task, "failed")
    /\ UNCHANGED <<plan, item, validation, branch, git, exec>>

RejectPatch(e) ==
    /\ patch[e].status # "none"
    /\ patch' = [patch EXCEPT ![e].status = "rejected"]
    /\ SetExec(e, "failed")
    /\ SetTask(exec[e].task, "failed")
    /\ UNCHANGED <<plan, item, validation, branch, git>>

(* Faulty: a retry sends the execution back to the executor, whatever its   *)
(* status.                                                                  *)
RestartExecution(e) ==
    /\ exec[e].status # "absent"
    /\ SetExec(e, "implementing")
    /\ SetTask(exec[e].task, "executing")
    /\ UNCHANGED <<plan, item, validation, branch, git, patch>>

(* retryExecution with the attempts used up.  It looks at the model         *)
(* decisions only (module RetryLadder), never at the execution's status.    *)
ExhaustRetries(e) ==
    /\ exec[e].status # "absent"
    /\ SetExec(e, "failed")
    /\ SetTask(exec[e].task, "failed")
    /\ UNCHANGED <<plan, item, validation, branch, git, patch>>

(* Such a request still needs a handler to serve it.                        *)
ShortRequest ==
    /\ \E h \in Handlers : At(h, "idle")
    /\ \/ GateNext /\ UNCHANGED rows
       \/ \E e \in Executions :
            ApprovePatch(e) \/ RejectPatch(e) \/ ExhaustRetries(e)
    /\ UNCHANGED job

(* A database, git or file call throws and its request is over, or the      *)
(* process stops and all are; what they wrote stays.                        *)
Crash ==
    /\ \E lost \in SUBSET Handlers :
            job' = [h \in Handlers |-> IF h \in lost THEN Idle ELSE job[h]]
    /\ UNCHANGED <<gateVars, rows>>

(* A handler that has started goes on.                                      *)
Continue(h) ==
    \/ CheckGate(h) \/ SwitchBranch(h) \/ RecordBranch(h) \/ AbandonBranch(h)
    \/ ReReadContext(h) \/ RecheckGate(h)
    \/ \E e \in Executions : EnqueueExecution(h, e) \/ LaunchHeadless(h, e)
    \/ LaunchExecution(h) \/ FailLaunch(h)
    \/ WriteToolCall(h)
    \/ SelectTargets(h) \/ BeginVerification(h)
    \/ \E x \in Targets :
        StartTarget(h, x) \/ (\E passed \in BOOLEAN : FinishTarget(h, x, passed))
    \/ FailVerification(h) \/ CollectPatch(h) \/ PublishPatch(h)

Arrive(h) ==
    \/ \E t \in Tasks :
        \/ \E goal \in {"branch", "execute", "headless"} : ReadContext(h, t, goal)
        \/ LeaveBranch(h, t)
    \/ \E e \in Executions : CheckToolCall(h, e) \/ ReadRunContext(h, e)

Step ==
    \/ \E h \in Handlers : Arrive(h) \/ Continue(h)
    \/ ShortRequest
    \/ CommitEdits

Next == Step \/ Crash

Spec == Init /\ [][Next]_vars

(* The event loop resumes every handler whose await has settled, and none   *)
(* of the awaits in a handler waits for another request.                    *)
FairSpec == Init /\ [][Step]_vars /\ \A h \in Handlers : WF_vars(Continue(h))

-----------------------------------------------------------------------------
(* Properties                                                               *)

Owned(t) == {e \in Executions : exec[e].status # "absent" /\ exec[e].task = t}

Witness == [executing |-> "implementing", testing |-> "verifying",
            awaiting_patch_approval |-> "patch_ready",
            completed |-> "completed", failed |-> "failed"]

(* A task that has left the approval stage is in the state of one of its    *)
(* executions, although readiness refreshes, retries, verification runs and *)
(* patch reviews of several executions write Task.status with no look at    *)
(* each other.                                                              *)
StatusWitnessed ==
    \A t \in Tasks : task[t] \in DOMAIN Witness =>
        \E e \in Owned(t) : exec[e].status = Witness[task[t]]

(* An execution waits for review only while its review is ready, and is     *)
(* completed only while its patch is approved: the rows are written by      *)
(* several transactions in two packages.                                    *)
PatchMirrorsExecution ==
    \A e \in Executions :
        /\ exec[e].status = "patch_ready" => patch[e].status = "ready"
        /\ exec[e].status = "completed" => patch[e].status = "approved"

(* An execution that was once verified or reviewed never takes edits again: *)
(* it does not return to a state in which mutating tool calls are allowed,  *)
(* and its row stays with its task.                                         *)
NeverRewinds ==
    [][\A e \in Executions :
        exec[e].status \in {"verifying", "patch_ready", "completed"} =>
            /\ exec'[e].status \notin {"absent", "queued", "implementing"}
            /\ exec'[e].task = exec[e].task]_vars

(* A patch that awaits review or was approved was tested on, and taken      *)
(* from, its own task's branch and edits (one branch and one verification   *)
(* boundary per task), with requests served one at a time.                  *)
TestedOnOwnBranch ==
    \A e \in Executions :
        exec[e].status \in {"patch_ready", "completed"} =>
            patch[e].tree \subseteq {exec[e].task}

(* Uncommitted edits lie in the tree only while their task's branch is      *)
(* checked out: no tool call writes, and no switch carries, one task's      *)
(* edits to another branch, with requests served one at a time.             *)
EditsStayHome == git.dirty \subseteq {git.head}

(* The executor is let loose only on its own task's branch, never on the    *)
(* base branch, with requests served one at a time.                         *)
LaunchedOnOwnBranch ==
    [][\A e \in Executions :
        exec[e].status # "implementing" /\ exec'[e].status = "implementing" =>
            git.head = exec'[e].task]_vars

(* An execution comes into being only while its task is ready and every     *)
(* approval the gate asks for stands, with requests served one at a time.   *)
AdmittedThroughGate ==
    [][\A e \in Executions :
        exec[e].status = "absent" /\ exec'[e].status # "absent" =>
            LET t == exec'[e].task IN
            task[t] = "ready" /\ GateOpen(plan[t], validation[t])]_vars

(* Documentation: "No task execution without an approved verification plan."*)
(* (docs/product/prd.md:28)  TLC refutes this: see README.                  *)
ExecutionHasApprovedPlan ==
    [][\A e \in Executions :
        exec[e].status = "absent" /\ exec'[e].status # "absent" =>
            plan[exec'[e].task] = "approved"]_vars

(* A verification run ends: the task does not stay in testing, whatever     *)
(* other requests do to it, as long as the process lives and no call of the *)
(* run throws.                                                              *)
TestingEnds ==
    \A t \in Tasks : task[t] = "testing" ~> task[t] # "testing"
=============================================================================
