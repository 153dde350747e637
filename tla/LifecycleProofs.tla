--------------------------- MODULE LifecycleProofs ---------------------------
(***************************************************************************)
(* Proofs about ExecutionLifecycle, for any number of tasks, items,        *)
(* validations, executions and handlers.                                   *)
(***************************************************************************)
EXTENDS ExecutionLifecycle, TLAPS

(* A handler past its first read works for a task.                          *)
JobsPlaced == \A h \in Handlers : ~At(h, "idle") => job[h].task \in Tasks

(* A row that exists belongs to a task.                                     *)
RowsPlaced ==
    \A e \in Executions :
        /\ exec[e].status # "absent" => exec[e].task \in Tasks
        /\ patch[e].status # "none" => exec[e].status # "absent"

(* The points at which a handler works on an execution.                     *)
ExecPoints ==
    {"launch", "select", "begin", "next", "running", "publish", "write"}

(* It exists and is of the task the handler works for.                      *)
JobsLinked ==
    \A h \in Handlers : job[h].at \in ExecPoints =>
        /\ job[h].exec \in Executions
        /\ exec[job[h].exec].status # "absent"
        /\ exec[job[h].exec].task = job[h].task

TypeInv == TypeOK /\ JobsPlaced /\ RowsPlaced /\ JobsLinked

(* The job of a handler at rest.                                            *)
LEMMA IdleTyped == Idle \in Job /\ Idle.at = "idle"
  BY DEF Idle, Job, Points, TaskStatus, PlanStatus, Targets, Branches

(* At first there are no rows and no jobs.                                  *)
LEMMA InitTypeInv == Init => TypeInv
  <1> SUFFICES ASSUME Init PROVE TypeInv
    OBVIOUS
  <1>1. GateTypeOK
    BY DEF Init, GateInit, GateTypeOK, TaskStatus, PlanStatus, ItemStatus,
           ValidationStatus
  <1>2. TypeOK
    BY <1>1, IdleTyped DEF Init, TypeOK, BranchState, ExecStatus, PatchStatus,
           Branches
  <1>3. JobsPlaced /\ RowsPlaced /\ JobsLinked
    BY DEF Init, JobsPlaced, RowsPlaced, JobsLinked, At, Idle, ExecPoints
  <1> QED
    BY <1>2, <1>3 DEF TypeInv

(***************************************************************************)
(* The steps on approvals leave executions and jobs alone.                 *)
(***************************************************************************)
LEMMA GateTyped == GateTypeOK /\ GateNext => GateTypeOK'
  <1> SUFFICES ASSUME GateTypeOK, GateNext PROVE GateTypeOK'
    OBVIOUS
  <1> USE DEF GateTypeOK, TaskStatus, PlanStatus, ItemStatus, ValidationStatus
  <1>1. ASSUME NEW imported \in BOOLEAN, GrantPlannerRun(imported) PROVE GateTypeOK'
    BY <1>1 DEF GrantPlannerRun
  <1>2. ASSUME NEW t \in Tasks, GrantVerificationPlan(t) PROVE GateTypeOK'
    BY <1>2 DEF GrantVerificationPlan, ApproveItems, ApproveLinkedValidations,
                ReadyTaskStatus
  <1>3. ASSUME NEW t \in Tasks, RejectVerificationPlan(t) PROVE GateTypeOK'
    BY <1>3 DEF RejectVerificationPlan
  <1>4. ASSUME NEW t \in Tasks, GrantPlanReviewArtifact(t) PROVE GateTypeOK'
    BY <1>4 DEF GrantPlanReviewArtifact, ApproveItems
  <1>5. ASSUME NEW t \in Tasks, NEW v \in Validations,
               NEW d \in {"approved", "rejected"}, DecideValidation(t, v, d)
        PROVE  GateTypeOK'
    BY <1>5 DEF DecideValidation, ReadyTaskStatus
  <1>6. ASSUME NEW t \in Tasks, NEW v \in Validations, CreateValidation(t, v)
        PROVE  GateTypeOK'
    BY <1>6 DEF CreateValidation
  <1> QED
    BY <1>1, <1>2, <1>3, <1>4, <1>5, <1>6 DEF GateNext

(***************************************************************************)
(* What a step does to one job and to the execution rows.                  *)
(***************************************************************************)
JobInv == job \in [Handlers -> Job] /\ JobsPlaced /\ JobsLinked

(* Rows do not vanish and stay with their task.                             *)
RowsKept ==
    \A e \in Executions : exec[e].status # "absent" =>
        exec'[e].status # "absent" /\ exec'[e].task = exec[e].task

(* A step that leaves the executions alone keeps their rows.                *)
LEMMA UnchangedRowsKept == UNCHANGED exec => RowsKept
  BY DEF RowsKept

(* A handler takes up, goes on with or drops a job.                         *)
LEMMA JobStep ==
    ASSUME TypeInv, RowsKept, NEW h \in Handlers, NEW r \in Job,
           job' = [job EXCEPT ![h] = r],
           r.at # "idle" => r.task \in Tasks,
           r.at \in ExecPoints =>
               /\ r.exec \in Executions
               /\ exec'[r.exec].status # "absent"
               /\ exec'[r.exec].task = r.task
    PROVE  JobInv'
  <1>1. job \in [Handlers -> Job]
    BY DEF TypeInv, TypeOK
  <1>2. job'[h] = r /\ \A g \in Handlers \ {h} : job'[g] = job[g]
    BY <1>1
  <1>3. job' \in [Handlers -> Job]
    BY <1>1
  <1>4. JobsPlaced'
    BY <1>2 DEF JobsPlaced, At, TypeInv
  <1>5. JobsLinked'
    <2> SUFFICES ASSUME NEW g \in Handlers, job'[g].at \in ExecPoints
                 PROVE  /\ job'[g].exec \in Executions
                        /\ exec'[job'[g].exec].status # "absent"
                        /\ exec'[job'[g].exec].task = job'[g].task
      BY DEF JobsLinked
    <2>1. CASE g = h
      BY <1>2, <2>1
    <2>2. CASE g # h
      BY <1>2, <2>2 DEF TypeInv, JobsLinked, RowsKept
    <2> QED
      BY <2>1, <2>2
  <1> QED
    BY <1>3, <1>4, <1>5 DEF JobInv

(* A handler that returns works on nothing.                                 *)
LEMMA ReturnStep ==
    ASSUME TypeInv, RowsKept, NEW h \in Handlers, Return(h)
    PROVE  JobInv'
  <1>1. Idle.at \notin ExecPoints
    BY IdleTyped DEF ExecPoints
  <1> QED
    BY <1>1, IdleTyped, JobStep DEF Return

(* A handler that goes on keeps its task and execution.                     *)
LEMMA MoveStep ==
    ASSUME TypeInv, RowsKept, NEW h \in Handlers, NEW r \in Job,
           job' = [job EXCEPT ![h] = r], ~At(h, "idle"),
           r.task = job[h].task, r.exec = job[h].exec,
           r.at \in ExecPoints => job[h].at \in ExecPoints
    PROVE  JobInv'
  <1>1. r.task \in Tasks
    BY DEF TypeInv, JobsPlaced
  <1>2. r.at \in ExecPoints =>
            /\ r.exec \in Executions
            /\ exec'[r.exec].status # "absent"
            /\ exec'[r.exec].task = r.task
    BY DEF TypeInv, JobsLinked, RowsKept
  <1> QED
    BY <1>1, <1>2, JobStep

(* A handler goes to another point.                                         *)
LEMMA GotoStep ==
    ASSUME TypeInv, RowsKept, NEW h \in Handlers, NEW p \in Points, Goto(h, p),
           ~At(h, "idle"), p \in ExecPoints => job[h].at \in ExecPoints
    PROVE  JobInv'
  <1> DEFINE r == [job[h] EXCEPT !.at = p]
  <1>1. job[h] \in Job
    BY DEF TypeInv, TypeOK
  <1>2. r \in Job /\ r.at = p /\ r.task = job[h].task /\ r.exec = job[h].exec
    BY <1>1 DEF Job
  <1>3. job' = [job EXCEPT ![h] = r]
    BY DEF Goto
  <1> QED
    BY <1>2, <1>3, MoveStep

(* An execution's status is set.                                            *)
LEMMA SetExecStep ==
    ASSUME TypeInv, NEW e \in Executions, exec[e].status # "absent",
           NEW s \in ExecStatus \ {"absent"}, SetExec(e, s)
    PROVE  /\ RowsKept
           /\ exec' \in [Executions -> [status : ExecStatus, task : Tasks \cup {Base}]]
           /\ \A x \in Executions : exec'[x].task = exec[x].task
           /\ exec'[e].status = s
           /\ \A x \in Executions \ {e} : exec'[x] = exec[x]
  <1>1. exec \in [Executions -> [status : ExecStatus, task : Tasks \cup {Base}]]
    BY DEF TypeInv, TypeOK
  <1> QED
    BY <1>1 DEF SetExec, RowsKept

(* A step that leaves the approvals alone keeps their types.                *)
LEMMA GateKept == GateTypeOK /\ UNCHANGED gateVars => GateTypeOK'
  BY DEF GateTypeOK, gateVars

(* A task's status is set and the other approvals are left alone.           *)
LEMMA TaskSet ==
    ASSUME GateTypeOK, NEW t, NEW s \in TaskStatus, SetTask(t, s),
           UNCHANGED <<plan, item, validation>>
    PROVE  GateTypeOK'
  BY DEF GateTypeOK, SetTask

(***************************************************************************)
(* The type invariant, action by action.                                   *)
(***************************************************************************)
LEMMA ArriveTyped ==
    ASSUME TypeInv, NEW h \in Handlers, Arrive(h)
    PROVE  TypeInv'
  <1> USE DEF TypeInv, TypeOK, JobInv
  <1> SUFFICES JobInv' /\ GateTypeOK' /\ RowsPlaced' /\ UNCHANGED <<branch, exec, patch>>
               /\ git' \in [head : Branches, local : SUBSET Tasks, dirty : SUBSET Tasks]
    OBVIOUS
  <1>1. ASSUME NEW t \in Tasks, NEW goal \in {"branch", "execute", "headless"},
               ReadContext(h, t, goal)
        PROVE  JobInv'
    <2> DEFINE r == [Idle EXCEPT !.at = "gate", !.goal = goal, !.task = t,
                                 !.status = task[t], !.plan = plan[t]]
    <2>1. r \in Job /\ r.at = "gate" /\ r.task = t
      BY IdleTyped DEF Job, Points, GateTypeOK
    <2>2. job' = [job EXCEPT ![h] = r] /\ RowsKept
      BY <1>1, UnchangedRowsKept DEF ReadContext, rows
    <2> QED
      BY <2>1, <2>2, JobStep DEF ExecPoints
  <1>2. ASSUME NEW t \in Tasks, LeaveBranch(h, t)
        PROVE  /\ JobInv'
               /\ git' \in [head : Branches, local : SUBSET Tasks, dirty : SUBSET Tasks]
    <2> DEFINE r == [Idle EXCEPT !.at = "leave", !.task = t]
    <2>1. r \in Job /\ r.at = "leave" /\ r.task = t
      BY IdleTyped DEF Job, Points
    <2>2. job' = [job EXCEPT ![h] = r] /\ RowsKept
      BY <1>2, UnchangedRowsKept DEF LeaveBranch
    <2>3. JobInv'
      BY <2>1, <2>2, JobStep DEF ExecPoints
    <2> DEFINE b == IF git.head = t THEN Base ELSE git.head
    <2>4. b \in Branches
      BY DEF Branches
    <2>5. git' = [git EXCEPT !.head = b]
      BY <1>2 DEF LeaveBranch
    <2> HIDE DEF b
    <2> QED
      BY <2>3, <2>4, <2>5
  <1>3. ASSUME NEW e \in Executions, CheckToolCall(h, e) PROVE JobInv'
    <2> DEFINE r == [Idle EXCEPT !.at = "write", !.task = exec[e].task, !.exec = e]
    <2>1. exec[e].task \in Tasks /\ exec[e].status # "absent"
      BY <1>3 DEF CheckToolCall, RowsPlaced
    <2>2. r \in Job /\ r.at = "write" /\ r.task = exec[e].task /\ r.exec = e
      BY <2>1, IdleTyped DEF Job, Points
    <2>3. job' = [job EXCEPT ![h] = r] /\ exec' = exec /\ RowsKept
      BY <1>3, UnchangedRowsKept DEF CheckToolCall, rows
    <2> HIDE DEF r
    <2> QED
      BY <2>1, <2>2, <2>3, JobStep
  <1>4. ASSUME NEW e \in Executions, ReadRunContext(h, e) PROVE JobInv'
    <2> DEFINE r == [Idle EXCEPT !.at = "select", !.task = exec[e].task, !.exec = e,
                                 !.items = ApprovedItems(exec[e].task)]
    <2>1. exec[e].task \in Tasks /\ exec[e].status # "absent"
      BY <1>4 DEF ReadRunContext, RowsPlaced
    <2>2. r \in Job /\ r.at = "select" /\ r.task = exec[e].task /\ r.exec = e
      BY <2>1, IdleTyped DEF Job, Points, ApprovedItems
    <2>3. job' = [job EXCEPT ![h] = r] /\ exec' = exec /\ RowsKept
      BY <1>4, UnchangedRowsKept DEF ReadRunContext, rows
    <2> HIDE DEF r
    <2> QED
      BY <2>1, <2>2, <2>3, JobStep
  <1>5. UNCHANGED <<gateVars, branch, exec, patch>> /\ RowsPlaced'
    BY DEF Arrive, ReadContext, LeaveBranch, CheckToolCall, ReadRunContext, rows, RowsPlaced
  <1>6. (\A t \in Tasks : ~LeaveBranch(h, t)) => git' = git
    BY DEF Arrive, ReadContext, CheckToolCall, ReadRunContext, rows
  <1> QED
    BY <1>1, <1>2, <1>3, <1>4, <1>5, <1>6, GateKept DEF Arrive

(* prepareTaskBranch, abandonTaskBranch and the second gate.                *)
LEMMA PrepareTyped ==
    ASSUME TypeInv, NEW h \in Handlers,
           \/ CheckGate(h) \/ SwitchBranch(h) \/ RecordBranch(h)
           \/ AbandonBranch(h) \/ ReReadContext(h) \/ RecheckGate(h)
    PROVE  TypeInv'
  <1> USE DEF TypeInv, TypeOK, JobInv
  <1>1. UNCHANGED <<gateVars, exec, patch>> /\ RowsKept /\ RowsPlaced' /\ GateTypeOK'
    <2>1. UNCHANGED <<gateVars, exec, patch>>
      BY DEF CheckGate, SwitchBranch, RecordBranch, AbandonBranch, ReReadContext,
             RecheckGate, rows
    <2> QED
      BY <2>1, UnchangedRowsKept, GateKept DEF RowsPlaced
  <1>2. job[h] \in Job /\ job[h].task \in Tasks
    BY DEF JobsPlaced, At, CheckGate, SwitchBranch, RecordBranch, AbandonBranch,
           ReReadContext, RecheckGate
  <1>3. CASE CheckGate(h)
    <2>1. JobInv'
      BY <1>1, <1>3, GotoStep, ReturnStep DEF CheckGate, At, Points, ExecPoints
    <2> QED
      BY <1>1, <1>3, <2>1 DEF CheckGate, rows
  <1>4. CASE SwitchBranch(h)
    <2> DEFINE r == [job[h] EXCEPT !.at = "record",
                                   !.persisted = branch[job[h].task] # "none"]
    <2>1. r \in Job /\ r.at = "record" /\ r.task = job[h].task /\ r.exec = job[h].exec
      BY <1>2 DEF Job, Points
    <2>2. job' = [job EXCEPT ![h] = r] \/ Return(h)
      BY <1>4 DEF SwitchBranch
    <2>3. ~At(h, "idle") /\ r.at \notin ExecPoints
      BY <1>4, <2>1 DEF SwitchBranch, At, ExecPoints
    <2> HIDE DEF r
    <2>4. JobInv'
      BY <1>1, <2>1, <2>2, <2>3, MoveStep, ReturnStep
    <2> DEFINE t == job[h].task
    <2>5. t \in Branches /\ git.local \cup {t} \in SUBSET Tasks
      BY <1>2 DEF Branches
    <2>6. \/ git' = [git EXCEPT !.head = t, !.local = git.local \cup {t}]
          \/ git' = git
      BY <1>4 DEF SwitchBranch
    <2> HIDE DEF t
    <2>7. git' \in [head : Branches, local : SUBSET Tasks, dirty : SUBSET Tasks]
      BY <2>5, <2>6
    <2> QED
      BY <1>1, <1>4, <2>4, <2>7 DEF SwitchBranch
  <1>5. CASE RecordBranch(h)
    <2>1. job[h].goal \in {"branch", "execute", "headless"}
      BY <1>2 DEF Job
    <2>2. Return(h) \/ Goto(h, "reread") \/ Goto(h, "headless")
      BY <1>5, <2>1 DEF RecordBranch
    <2>3. JobInv'
      BY <1>1, <1>5, <2>2, GotoStep, ReturnStep DEF RecordBranch, At, Points, ExecPoints
    <2> QED
      BY <1>1, <1>5, <2>3 DEF RecordBranch, BranchState
  <1>6. CASE AbandonBranch(h)
    <2>1. JobInv'
      BY <1>1, <1>6, ReturnStep DEF AbandonBranch
    <2> QED
      BY <1>1, <1>6, <2>1 DEF AbandonBranch, BranchState
  <1>7. CASE ReReadContext(h)
    <2> DEFINE t == job[h].task
               r == [job[h] EXCEPT !.at = "regate", !.status = task[t], !.plan = plan[t]]
    <2>1. r \in Job /\ r.at = "regate" /\ r.task = job[h].task /\ r.exec = job[h].exec
      BY <1>2 DEF Job, Points, GateTypeOK
    <2>2. job' = [job EXCEPT ![h] = r]
      BY <1>7 DEF ReReadContext
    <2>3. JobInv'
      BY <1>1, <1>7, <2>1, <2>2, MoveStep DEF ReReadContext, At, ExecPoints
    <2> QED
      BY <1>1, <1>7, <2>3 DEF ReReadContext, rows
  <1>8. CASE RecheckGate(h)
    <2>1. JobInv'
      BY <1>1, <1>8, GotoStep, ReturnStep DEF RecheckGate, At, Points, ExecPoints
    <2> QED
      BY <1>1, <1>8, <2>1 DEF RecheckGate, rows
  <1> QED
    BY <1>3, <1>4, <1>5, <1>6, <1>7, <1>8

(* Executions come into being and are launched; a tool call writes.         *)
LEMMA LaunchTyped ==
    ASSUME TypeInv, NEW h \in Handlers,
           \/ \E e \in Executions : EnqueueExecution(h, e) \/ LaunchHeadless(h, e)
           \/ LaunchExecution(h) \/ FailLaunch(h) \/ WriteToolCall(h)
    PROVE  TypeInv'
  <1> USE DEF TypeInv, TypeOK, JobInv
  <1>1. job[h] \in Job /\ job[h].task \in Tasks
    BY DEF JobsPlaced, At, EnqueueExecution, LaunchHeadless, LaunchExecution,
           FailLaunch, WriteToolCall
  <1>2. ASSUME NEW e \in Executions, EnqueueExecution(h, e) PROVE TypeInv'
    <2> DEFINE r == [job[h] EXCEPT !.at = "launch", !.exec = e]
               row == [status |-> "queued", task |-> job[h].task]
    <2>1. r \in Job /\ r.at = "launch" /\ r.task = job[h].task /\ r.exec = e
      BY <1>1 DEF Job, Points
    <2>2. job' = [job EXCEPT ![h] = r]
      BY <1>2 DEF EnqueueExecution
    <2>3. row \in [status : ExecStatus, task : Tasks \cup {Base}]
      BY <1>1 DEF ExecStatus
    <2>4. exec' = [exec EXCEPT ![e] = row] /\ exec[e].status = "absent"
      BY <1>2 DEF EnqueueExecution
    <2>5. row.status = "queued" /\ row.task = job[h].task
      OBVIOUS
    <2> HIDE DEF r, row
    <2>6. RowsKept
      BY <2>4 DEF RowsKept
    <2>7. JobInv'
      BY <1>1, <2>1, <2>2, <2>4, <2>5, <2>6, JobStep
    <2>8. UNCHANGED <<gateVars, branch, git, patch>>
      BY <1>2 DEF EnqueueExecution
    <2>9. RowsPlaced'
      BY <1>1, <2>4, <2>5, <2>8 DEF RowsPlaced
    <2> QED
      BY <2>3, <2>4, <2>7, <2>8, <2>9, GateKept
  <1>3. ASSUME NEW e \in Executions, LaunchHeadless(h, e) PROVE TypeInv'
    <2> DEFINE row == [status |-> "implementing", task |-> job[h].task]
    <2>1. row \in [status : ExecStatus, task : Tasks \cup {Base}]
      BY <1>1 DEF ExecStatus
    <2>2. exec' = [exec EXCEPT ![e] = row] /\ exec[e].status = "absent"
      BY <1>3 DEF LaunchHeadless
    <2>3. row.status = "implementing" /\ row.task = job[h].task
      OBVIOUS
    <2> HIDE DEF row
    <2>4. RowsKept
      BY <2>2 DEF RowsKept
    <2>5. JobInv'
      BY <1>3, <2>4, ReturnStep DEF LaunchHeadless
    <2>6. GateTypeOK'
      BY <1>3, TaskSet DEF LaunchHeadless, TaskStatus
    <2>7. UNCHANGED <<git, patch>> /\ branch' \in [Tasks -> BranchState]
      BY <1>3 DEF LaunchHeadless, BranchState
    <2>8. RowsPlaced'
      BY <1>1, <2>2, <2>3, <2>7 DEF RowsPlaced
    <2> QED
      BY <2>1, <2>2, <2>5, <2>6, <2>7, <2>8
  <1>4. CASE LaunchExecution(h) \/ FailLaunch(h)
    <2> DEFINE e == job[h].exec
    <2>1. e \in Executions /\ exec[e].status # "absent"
      BY <1>4 DEF LaunchExecution, FailLaunch, At, JobsLinked, ExecPoints
    <2>2. SetExec(e, "implementing") \/ SetExec(e, "failed")
      BY <1>4 DEF LaunchExecution, FailLaunch
    <2>3. Return(h) /\ UNCHANGED <<plan, item, validation, git, patch>>
      BY <1>4 DEF LaunchExecution, FailLaunch
    <2>4. GateTypeOK'
      BY <1>4, TaskSet DEF LaunchExecution, FailLaunch, TaskStatus
    <2>5. branch' \in [Tasks -> BranchState]
      BY <1>4 DEF LaunchExecution, FailLaunch, BranchState
    <2> HIDE DEF e
    <2>6. /\ RowsKept
          /\ exec' \in [Executions -> [status : ExecStatus, task : Tasks \cup {Base}]]
          /\ \A x \in Executions : exec'[x].task = exec[x].task
          /\ \A x \in Executions \ {e} : exec'[x] = exec[x]
          /\ exec'[e].status # "absent"
      BY <2>1, <2>2, SetExecStep DEF ExecStatus
    <2>7. RowsPlaced'
      BY <2>1, <2>3, <2>6 DEF RowsPlaced
    <2>8. JobInv'
      BY <2>3, <2>6, ReturnStep
    <2> QED
      BY <2>3, <2>4, <2>5, <2>6, <2>7, <2>8
  <1>5. CASE WriteToolCall(h)
    <2>1. UNCHANGED <<gateVars, branch, exec, patch>> /\ Return(h)
      BY <1>5 DEF WriteToolCall
    <2>2. JobInv'
      BY <2>1, ReturnStep, UnchangedRowsKept
    <2> DEFINE d == git.dirty \cup {job[h].task}
    <2>3. d \in SUBSET Tasks /\ git' = [git EXCEPT !.dirty = d]
      BY <1>1, <1>5 DEF WriteToolCall
    <2> HIDE DEF d
    <2>4. git' \in [head : Branches, local : SUBSET Tasks, dirty : SUBSET Tasks]
      BY <2>3
    <2> QED
      BY <2>1, <2>2, <2>4, GateKept DEF RowsPlaced
  <1> QED
    BY <1>2, <1>3, <1>4, <1>5

(* A verification run sets a target's status.                               *)
LEMMA TargetTyped ==
    ASSUME GateTypeOK, NEW h, NEW x, NEW i \in ItemStatus,
           NEW v \in ValidationStatus, SetTarget(h, x, i, v),
           UNCHANGED <<task, plan>>
    PROVE  GateTypeOK'
  <1>1. item' \in [Tasks -> [Items -> ItemStatus]]
    BY DEF SetTarget, GateTypeOK
  <1>2. validation' \in [Tasks -> [Validations -> ValidationStatus]]
    BY DEF SetTarget, GateTypeOK
  <1> QED
    BY <1>1, <1>2 DEF GateTypeOK

(* A verification run up to its last transaction.                           *)
LEMMA RunTyped ==
    ASSUME TypeInv, NEW h \in Handlers,
           \/ SelectTargets(h) \/ BeginVerification(h)
           \/ \E x \in Targets :
                StartTarget(h, x) \/ (\E passed \in BOOLEAN : FinishTarget(h, x, passed))
           \/ CollectPatch(h)
    PROVE  TypeInv'
  <1> USE DEF TypeInv, TypeOK, JobInv
  <1>1. job[h] \in Job /\ ~At(h, "idle") /\ job[h].at \in ExecPoints
    BY DEF At, SelectTargets, BeginVerification, StartTarget, FinishTarget,
           CollectPatch, ExecPoints
  <1>2. WorkingTree \subseteq Branches
    BY DEF WorkingTree, Branches
  <1>3. CASE SelectTargets(h)
    <2> DEFINE targets == RunTargets(job[h].task, job[h].items)
               r == [job[h] EXCEPT !.at = "begin", !.todo = targets,
                                   !.items = job[h].items \ targets]
    <2>1. targets \subseteq Targets
      BY <1>1, LifecycleAssumption DEF RunTargets, PlaywrightTargets, Targets, Job
    <2>2. job' = [job EXCEPT ![h] = r] \/ Return(h)
      BY <1>3 DEF SelectTargets
    <2> HIDE DEF targets
    <2>3. r \in Job /\ r.at = "begin" /\ r.task = job[h].task /\ r.exec = job[h].exec
      BY <1>1, <2>1 DEF Job, Points
    <2>4. UNCHANGED <<gateVars, branch, git, exec, patch>>
      BY <1>3 DEF SelectTargets, rows
    <2> HIDE DEF r
    <2>5. JobInv'
      BY <1>1, <2>2, <2>3, <2>4, MoveStep, ReturnStep, UnchangedRowsKept
    <2> QED
      BY <2>4, <2>5, GateKept DEF RowsPlaced
  <1>4. CASE BeginVerification(h)
    <2> DEFINE e == job[h].exec
    <2>1. e \in Executions /\ exec[e].status # "absent"
      BY <1>1 DEF JobsLinked
    <2>2. SetExec(e, "verifying") /\ Goto(h, "next") /\ UNCHANGED <<branch, git, patch>>
      BY <1>4 DEF BeginVerification
    <2>3. GateTypeOK'
      BY <1>4, TaskSet DEF BeginVerification, TaskStatus
    <2> HIDE DEF e
    <2>4. /\ RowsKept
          /\ exec' \in [Executions -> [status : ExecStatus, task : Tasks \cup {Base}]]
          /\ \A x \in Executions : exec'[x].task = exec[x].task
          /\ \A x \in Executions \ {e} : exec'[x] = exec[x]
      BY <2>1, <2>2, SetExecStep DEF ExecStatus
    <2>5. JobInv'
      BY <1>1, <2>2, <2>4, GotoStep DEF Points
    <2>6. RowsPlaced'
      BY <2>1, <2>2, <2>4 DEF RowsPlaced, RowsKept
    <2> QED
      BY <2>2, <2>3, <2>4, <2>5, <2>6
  <1>5. ASSUME NEW x \in Targets, StartTarget(h, x) PROVE TypeInv'
    <2> DEFINE r == [job[h] EXCEPT !.at = "running", !.current = {x},
                                   !.todo = job[h].todo \ {x}]
    <2>1. r \in Job /\ r.at = "running" /\ r.task = job[h].task /\ r.exec = job[h].exec
      BY <1>1 DEF Job, Points
    <2>2. job' = [job EXCEPT ![h] = r] /\ UNCHANGED <<branch, git, exec, patch>>
      BY <1>5 DEF StartTarget, rows
    <2> HIDE DEF r
    <2>3. JobInv'
      BY <1>1, <2>1, <2>2, MoveStep, UnchangedRowsKept
    <2>4. GateTypeOK'
      BY <1>5, TargetTyped DEF StartTarget, ItemStatus, ValidationStatus
    <2> QED
      BY <2>2, <2>3, <2>4 DEF RowsPlaced
  <1>6. ASSUME NEW x \in Targets, NEW passed \in BOOLEAN, FinishTarget(h, x, passed)
        PROVE  TypeInv'
    <2> DEFINE f == job[h].failed \/ ~passed
               w == job[h].tree \cup WorkingTree
               r == [job[h] EXCEPT !.at = "next", !.current = {}, !.failed = f,
                                   !.tree = w]
    <2>1. f \in BOOLEAN /\ w \in SUBSET Branches
      BY <1>1, <1>2 DEF Job
    <2>2. job' = [job EXCEPT ![h] = r] /\ UNCHANGED <<branch, git, exec, patch>>
      BY <1>6 DEF FinishTarget, rows
    <2> HIDE DEF f, w
    <2>3. r \in Job /\ r.at = "next" /\ r.task = job[h].task /\ r.exec = job[h].exec
      BY <1>1, <2>1 DEF Job, Points
    <2> HIDE DEF r
    <2>4. JobInv'
      BY <1>1, <2>2, <2>3, MoveStep, UnchangedRowsKept
    <2>5. GateTypeOK'
      <3>1. SetTarget(h, x, "green", "passed") \/ SetTarget(h, x, "failed", "failed")
        BY <1>6 DEF FinishTarget
      <3>2. UNCHANGED <<task, plan>>
        BY <1>6 DEF FinishTarget
      <3> QED
        BY <3>1, <3>2, TargetTyped DEF ItemStatus, ValidationStatus
    <2> QED
      BY <2>2, <2>4, <2>5 DEF RowsPlaced
  <1>7. CASE CollectPatch(h)
    <2> DEFINE w == job[h].tree \cup WorkingTree
               r == [job[h] EXCEPT !.at = "publish", !.tree = w]
    <2>1. w \in SUBSET Branches
      BY <1>1, <1>2 DEF Job
    <2>2. job' = [job EXCEPT ![h] = r] /\ UNCHANGED <<gateVars, branch, git, exec, patch>>
      BY <1>7 DEF CollectPatch, rows
    <2> HIDE DEF w
    <2>3. r \in Job /\ r.at = "publish" /\ r.task = job[h].task /\ r.exec = job[h].exec
      BY <1>1, <2>1 DEF Job, Points
    <2> HIDE DEF r
    <2>4. JobInv'
      BY <1>1, <2>2, <2>3, MoveStep, UnchangedRowsKept
    <2> QED
      BY <2>2, <2>4, GateKept DEF RowsPlaced
  <1> QED
    BY <1>3, <1>4, <1>5, <1>6, <1>7

(* A verification run's last transaction.                                   *)
LEMMA EndRunTyped ==
    ASSUME TypeInv, NEW h \in Handlers, FailVerification(h) \/ PublishPatch(h)
    PROVE  TypeInv'
  <1> USE DEF TypeInv, TypeOK, JobInv
  <1> DEFINE e == job[h].exec
  <1>1. e \in Executions /\ exec[e].status # "absent" /\ job[h] \in Job
    BY DEF At, FailVerification, PublishPatch, ExecPoints, JobsLinked
  <1>2. SetExec(e, "failed") \/ SetExec(e, "patch_ready")
    BY DEF FailVerification, PublishPatch
  <1>3. Return(h) /\ git' = git
    BY DEF FailVerification, PublishPatch
  <1>4. branch' \in [Tasks -> BranchState]
    BY DEF FailVerification, PublishPatch, BranchState
  <1>5. GateTypeOK'
    BY TaskSet DEF FailVerification, PublishPatch, TaskStatus
  <1> DEFINE p == [status |-> "ready", tree |-> job[h].tree]
  <1>6. p \in [status : PatchStatus, tree : SUBSET Branches]
    BY <1>1 DEF Job, PatchStatus
  <1>7. patch' = patch \/ patch' = [patch EXCEPT ![e] = p]
    BY DEF FailVerification, PublishPatch
  <1> HIDE DEF e, p
  <1>8. /\ RowsKept
        /\ exec' \in [Executions -> [status : ExecStatus, task : Tasks \cup {Base}]]
        /\ \A x \in Executions : exec'[x].task = exec[x].task
        /\ \A x \in Executions \ {e} : exec'[x] = exec[x]
        /\ exec'[e].status # "absent"
    BY <1>1, <1>2, SetExecStep DEF ExecStatus
  <1>9. JobInv'
    BY <1>3, <1>8, ReturnStep
  <1>10. RowsPlaced'
    BY <1>1, <1>7, <1>8 DEF RowsPlaced
  <1> QED
    BY <1>3, <1>4, <1>5, <1>6, <1>7, <1>8, <1>9, <1>10

(* Approvals, patch reviews and exhausted retries.                          *)
LEMMA ShortTyped ==
    ASSUME TypeInv, ShortRequest
    PROVE  TypeInv'
  <1> USE DEF TypeInv, TypeOK, JobInv
  <1>1. job' = job
    BY DEF ShortRequest
  <1>2. RowsKept => JobInv'
    BY <1>1 DEF JobsPlaced, JobsLinked, At, RowsKept
  <1>3. CASE GateNext /\ UNCHANGED rows
    BY <1>2, <1>3, GateTyped, UnchangedRowsKept DEF rows, RowsPlaced
  <1>4. ASSUME NEW e \in Executions,
               ApprovePatch(e) \/ RejectPatch(e) \/ ExhaustRetries(e)
        PROVE  TypeInv'
    <2>1. exec[e].status # "absent"
      BY <1>4 DEF ApprovePatch, RejectPatch, ExhaustRetries, RowsPlaced
    <2>2. (SetExec(e, "completed") \/ SetExec(e, "failed")) /\ git' = git
      BY <1>4 DEF ApprovePatch, RejectPatch, ExhaustRetries
    <2>3. branch' \in [Tasks -> BranchState]
      BY <1>4 DEF ApprovePatch, RejectPatch, ExhaustRetries, BranchState
    <2>4. GateTypeOK'
      BY <1>4, TaskSet DEF ApprovePatch, RejectPatch, ExhaustRetries, TaskStatus
    <2>5. \/ patch' = patch
          \/ \E s \in PatchStatus : patch' = [patch EXCEPT ![e].status = s]
      BY <1>4 DEF ApprovePatch, RejectPatch, ExhaustRetries, PatchStatus
    <2>6. /\ RowsKept
          /\ exec' \in [Executions -> [status : ExecStatus, task : Tasks \cup {Base}]]
          /\ \A x \in Executions : exec'[x].task = exec[x].task
          /\ \A x \in Executions \ {e} : exec'[x] = exec[x]
          /\ exec'[e].status # "absent"
      BY <2>1, <2>2, SetExecStep DEF ExecStatus
    <2>7. RowsPlaced'
      BY <2>1, <2>5, <2>6 DEF RowsPlaced
    <2>8. patch' \in [Executions -> [status : PatchStatus, tree : SUBSET Branches]]
      BY <2>5
    <2> QED
      BY <1>2, <2>2, <2>3, <2>4, <2>6, <2>7, <2>8
  <1> QED
    BY <1>3, <1>4 DEF ShortRequest

(* Every step keeps the types.                                              *)
LEMMA StepTyped == TypeInv /\ [Next]_vars => TypeInv'
  <1> SUFFICES ASSUME TypeInv, [Next]_vars PROVE TypeInv'
    OBVIOUS
  <1>1. ASSUME NEW h \in Handlers, Arrive(h) PROVE TypeInv'
    BY <1>1, ArriveTyped
  <1>2. ASSUME NEW h \in Handlers, Continue(h) PROVE TypeInv'
    BY <1>2, PrepareTyped, LaunchTyped, RunTyped, EndRunTyped DEF Continue
  <1>3. CASE ShortRequest
    BY <1>3, ShortTyped
  <1> USE DEF TypeInv, TypeOK, JobInv
  <1>4. CASE CommitEdits
    <2>1. git' = [git EXCEPT !.dirty = {}] /\ UNCHANGED <<gateVars, branch, exec, patch, job>>
      BY <1>4 DEF CommitEdits
    <2>2. git' \in [head : Branches, local : SUBSET Tasks, dirty : SUBSET Tasks]
      BY <2>1
    <2> QED
      BY <2>1, <2>2, GateKept DEF RowsPlaced, JobsPlaced, JobsLinked, At
  <1>5. CASE Crash
    <2>1. UNCHANGED <<gateVars, branch, git, exec, patch>>
      BY <1>5 DEF Crash, rows
    <2>2. /\ job' \in [Handlers -> Job]
          /\ \A h \in Handlers : job'[h] = job[h] \/ job'[h].at = "idle"
      BY <1>5, IdleTyped DEF Crash
    <2>3. JobsPlaced'
      BY <2>2 DEF JobsPlaced, At
    <2>4. JobsLinked'
      BY <2>1, <2>2 DEF JobsLinked, ExecPoints
    <2> QED
      BY <2>1, <2>2, <2>3, <2>4, GateKept DEF RowsPlaced
  <1>6. CASE UNCHANGED vars
    BY <1>6, GateKept DEF vars, rows, RowsPlaced, JobsPlaced, JobsLinked, At
  <1> QED
    BY <1>1, <1>2, <1>3, <1>4, <1>5, <1>6 DEF Next, Step

(* The types, and the links between jobs and rows, are invariant.           *)
LEMMA TypeInvariance == Spec => []TypeInv
  BY InitTypeInv, StepTyped, PTL DEF Spec

(* Every variable keeps its type: statuses stay among those the code names, *)
(* whatever the interleaving of requests and wherever one is lost.          *)
THEOREM TypeCorrect == Spec => []TypeOK
  <1>1. TypeInv => TypeOK
    BY DEF TypeInv
  <1> QED
    BY <1>1, TypeInvariance, PTL

(***************************************************************************)
(* Task.status and the statuses of executions and reviews.  A step either  *)
(* moves no task into an execution's state, or moves one execution and its *)
(* task together.                                                          *)
(***************************************************************************)
Aside ==
    /\ \A t \in Tasks : task'[t] = task[t] \/ task'[t] \notin DOMAIN Witness
    /\ \A e \in Executions : exec[e].status # "absent" => exec'[e] = exec[e]

Together(e, u) ==
    /\ task' = [task EXCEPT ![exec'[e].task] = u]
    /\ exec'[e].status = Witness[u]
    /\ exec'[e].task \in Tasks
    /\ exec[e].status # "absent" => exec'[e].task = exec[e].task
    /\ \A x \in Executions \ {e} : exec'[x] = exec[x]

(* An execution moves into review with its patch.                           *)
PatchMoves ==
    \A e \in Executions :
        \/ exec'[e].status = exec[e].status /\ patch'[e].status = patch[e].status
        \/ exec'[e].status = "patch_ready" /\ patch'[e].status = "ready"
        \/ exec'[e].status = "completed" /\ patch'[e].status = "approved"
        \/ exec'[e].status \notin {"patch_ready", "completed"}

(* The five execution states a task can be in.                              *)
LEMMA WitnessValues ==
    /\ DOMAIN Witness = {"executing", "testing", "awaiting_patch_approval",
                         "completed", "failed"}
    /\ Witness["executing"] = "implementing"
    /\ Witness["testing"] = "verifying"
    /\ Witness["awaiting_patch_approval"] = "patch_ready"
    /\ Witness["completed"] = "completed"
    /\ Witness["failed"] = "failed"
    /\ \A u \in DOMAIN Witness : Witness[u] # "absent"
  BY DEF Witness

(* A status set on an execution and, in the same transaction, on its task.  *)
LEMMA SetBoth ==
    ASSUME TypeInv, NEW e \in Executions, exec[e].status # "absent",
           NEW u \in DOMAIN Witness, SetExec(e, Witness[u]),
           SetTask(exec[e].task, u)
    PROVE  Together(e, u)
  <1>1. Witness[u] \in ExecStatus \ {"absent"}
    BY WitnessValues DEF ExecStatus
  <1>2. exec[e].task \in Tasks
    BY DEF TypeInv, RowsPlaced
  <1> QED
    BY <1>1, <1>2, SetExecStep DEF Together, SetTask

(* Approvals move no task into an execution's state.                        *)
LEMMA GateAside == TypeInv /\ GateNext /\ UNCHANGED rows => Aside
  <1> SUFFICES ASSUME TypeInv, GateNext, UNCHANGED rows PROVE Aside
    OBVIOUS
  <1>1. exec' = exec /\ task \in [Tasks -> TaskStatus]
    BY DEF rows, TypeInv, TypeOK, GateTypeOK
  <1> SUFFICES \A t \in Tasks : task'[t] = task[t] \/ task'[t] \notin DOMAIN Witness
    BY <1>1 DEF Aside
  <1>2. {"ready", "awaiting_verification_approval"} \cap DOMAIN Witness = {}
    BY WitnessValues
  <1>3. ASSUME NEW imported \in BOOLEAN, GrantPlannerRun(imported)
        PROVE  \A t \in Tasks : task'[t] = task[t] \/ task'[t] \notin DOMAIN Witness
    BY <1>1, <1>2, <1>3 DEF GrantPlannerRun
  <1>4. ASSUME NEW t \in Tasks,
               \/ GrantVerificationPlan(t) \/ RejectVerificationPlan(t)
               \/ GrantPlanReviewArtifact(t)
               \/ \E v \in Validations :
                    \/ \E d \in {"approved", "rejected"} : DecideValidation(t, v, d)
                    \/ CreateValidation(t, v)
        PROVE  \/ task' = task
               \/ \E s \in {"ready", "awaiting_verification_approval"} :
                      task' = [task EXCEPT ![t] = s]
    BY <1>1, <1>4 DEF GrantVerificationPlan, RejectVerificationPlan,
       GrantPlanReviewArtifact, DecideValidation, CreateValidation, ReadyTaskStatus
  <1> QED
    BY <1>1, <1>2, <1>3, <1>4 DEF GateNext

(* Every step is of one of the two kinds.                                   *)
LEMMA StepKinds ==
    ASSUME TypeInv, Next
    PROVE  /\ Aside \/ \E e \in Executions, u \in DOMAIN Witness : Together(e, u)
           /\ PatchMoves
  <1> USE DEF TypeInv, TypeOK, PatchMoves
  <1>1. ASSUME NEW h \in Handlers, Arrive(h) PROVE Aside /\ PatchMoves
    BY <1>1 DEF Arrive, ReadContext, LeaveBranch, CheckToolCall, ReadRunContext,
       gateVars, rows, Aside
  <1>2. ASSUME NEW h \in Handlers,
               \/ CheckGate(h) \/ SwitchBranch(h) \/ RecordBranch(h)
               \/ AbandonBranch(h) \/ ReReadContext(h) \/ RecheckGate(h)
               \/ WriteToolCall(h) \/ SelectTargets(h) \/ CollectPatch(h)
        PROVE  Aside /\ PatchMoves
    <2>1. UNCHANGED <<task, exec, patch>>
      BY <1>2 DEF CheckGate, SwitchBranch, RecordBranch, AbandonBranch, ReReadContext,
         RecheckGate, WriteToolCall, SelectTargets, CollectPatch, gateVars, rows
    <2> QED
      BY <2>1 DEF Aside
  <1>3. ASSUME NEW h \in Handlers, NEW x \in Targets, NEW passed \in BOOLEAN,
               StartTarget(h, x) \/ FinishTarget(h, x, passed)
        PROVE  Aside /\ PatchMoves
    <2>1. UNCHANGED <<task, exec, patch>>
      BY <1>3 DEF StartTarget, FinishTarget, rows
    <2> QED
      BY <2>1 DEF Aside
  <1>4. ASSUME NEW h \in Handlers, NEW e \in Executions, EnqueueExecution(h, e)
        PROVE  Aside /\ PatchMoves
    <2>1. /\ exec[e].status = "absent" /\ UNCHANGED <<task, patch>>
          /\ exec' = [exec EXCEPT ![e] = [status |-> "queued", task |-> job[h].task]]
      BY <1>4 DEF EnqueueExecution, gateVars
    <2> QED
      BY <2>1 DEF Aside
  <1>5. ASSUME NEW h \in Handlers, NEW e \in Executions, LaunchHeadless(h, e)
        PROVE  Together(e, "executing") /\ PatchMoves
    <2>1. /\ exec[e].status = "absent" /\ patch' = patch
          /\ exec' = [exec EXCEPT ![e] =
                        [status |-> "implementing", task |-> job[h].task]]
          /\ task' = [task EXCEPT ![job[h].task] = "executing"]
          /\ job[h].task \in Tasks
      BY <1>5 DEF LaunchHeadless, SetTask, JobsPlaced, At
    <2> QED
      BY <2>1, WitnessValues DEF Together
  <1>6. ASSUME NEW h \in Handlers,
               \/ LaunchExecution(h) \/ FailLaunch(h) \/ BeginVerification(h)
               \/ FailVerification(h) \/ PublishPatch(h)
        PROVE  PatchMoves /\ \E e \in Executions, u \in DOMAIN Witness : Together(e, u)
    <2> DEFINE e == job[h].exec
    <2>1. e \in Executions /\ exec[e].status # "absent" /\ exec[e].task = job[h].task
      BY <1>6 DEF LaunchExecution, FailLaunch, BeginVerification, FailVerification,
         PublishPatch, At, ExecPoints, JobsLinked
    <2>2. \/ /\ SetExec(e, "implementing") /\ SetTask(job[h].task, "executing")
             /\ patch' = patch
          \/ /\ SetExec(e, "failed") /\ SetTask(job[h].task, "failed")
             /\ patch' = patch
          \/ /\ SetExec(e, "verifying") /\ SetTask(job[h].task, "testing")
             /\ patch' = patch
          \/ /\ SetExec(e, "patch_ready")
             /\ SetTask(job[h].task, "awaiting_patch_approval")
             /\ patch' = [patch EXCEPT ![e] = [status |-> "ready", tree |-> job[h].tree]]
      BY <1>6 DEF LaunchExecution, FailLaunch, BeginVerification, FailVerification,
         PublishPatch
    <2> HIDE DEF e
    <2>3. PatchMoves
      BY <2>1, <2>2 DEF SetExec
    <2>4. \E u \in DOMAIN Witness : Together(e, u)
      BY <2>1, <2>2, SetBoth, WitnessValues
    <2> QED
      BY <2>1, <2>3, <2>4
  <1>7. ASSUME NEW e \in Executions,
               ApprovePatch(e) \/ RejectPatch(e) \/ ExhaustRetries(e)
        PROVE  PatchMoves /\ \E u \in DOMAIN Witness : Together(e, u)
    <2>1. exec[e].status # "absent"
      BY <1>7 DEF ApprovePatch, RejectPatch, ExhaustRetries, RowsPlaced
    <2>2. \/ /\ SetExec(e, "completed") /\ SetTask(exec[e].task, "completed")
             /\ patch' = [patch EXCEPT ![e].status = "approved"]
          \/ /\ SetExec(e, "failed") /\ SetTask(exec[e].task, "failed")
             /\ \/ patch' = patch
                \/ patch' = [patch EXCEPT ![e].status = "rejected"]
      BY <1>7 DEF ApprovePatch, RejectPatch, ExhaustRetries
    <2>3. PatchMoves
      BY <2>1, <2>2 DEF SetExec
    <2> QED
      BY <2>1, <2>2, <2>3, SetBoth, WitnessValues
  <1>8. CASE ShortRequest
    <2>1. CASE GateNext /\ UNCHANGED rows
      BY <2>1, GateAside DEF rows
    <2> QED
      BY <1>7, <1>8, <2>1 DEF ShortRequest
  <1>9. CASE CommitEdits \/ Crash
    <2>1. UNCHANGED <<task, exec, patch>>
      BY <1>9 DEF CommitEdits, Crash, gateVars, rows
    <2> QED
      BY <2>1 DEF Aside
  <1>10. ASSUME NEW h \in Handlers, Continue(h)
         PROVE  /\ Aside \/ \E e \in Executions, u \in DOMAIN Witness : Together(e, u)
                /\ PatchMoves
    <2> DEFINE Good == /\ \/ Aside
                          \/ \E e \in Executions, u \in DOMAIN Witness : Together(e, u)
                       /\ PatchMoves
    <2> SUFFICES Good
      OBVIOUS
    <2>1. "executing" \in DOMAIN Witness
      BY WitnessValues
    <2>2. CASE \/ CheckGate(h) \/ SwitchBranch(h) \/ RecordBranch(h)
               \/ AbandonBranch(h) \/ ReReadContext(h) \/ RecheckGate(h)
               \/ WriteToolCall(h) \/ SelectTargets(h) \/ CollectPatch(h)
      BY <1>2, <2>2
    <2>3. CASE \E e \in Executions : EnqueueExecution(h, e) \/ LaunchHeadless(h, e)
      BY <1>4, <1>5, <2>1, <2>3
    <2>4. CASE \/ LaunchExecution(h) \/ FailLaunch(h) \/ BeginVerification(h)
               \/ FailVerification(h) \/ PublishPatch(h)
      BY <1>6, <2>4
    <2>5. CASE \E x \in Targets : StartTarget(h, x)
                                  \/ \E passed \in BOOLEAN : FinishTarget(h, x, passed)
      <3>1. PICK x \in Targets : StartTarget(h, x)
                                 \/ \E passed \in BOOLEAN : FinishTarget(h, x, passed)
        BY <2>5
      <3>2. TRUE \in BOOLEAN
        OBVIOUS
      <3> QED
        BY <1>3, <3>1, <3>2
    <2> HIDE DEF Good
    <2> QED
      BY <1>10, <2>2, <2>3, <2>4, <2>5 DEF Continue
  <1> QED
    BY <1>1, <1>8, <1>9, <1>10 DEF Next, Step

(* The task is in the state of one of its executions; see StatusWitnessed.  *)
THEOREM StatusIsWitnessed == Spec => []StatusWitnessed
  <1>1. Init => StatusWitnessed
    BY WitnessValues DEF Init, GateInit, StatusWitnessed
  <1>2. TypeInv /\ TypeInv' /\ StatusWitnessed /\ [Next]_vars => StatusWitnessed'
    <2> SUFFICES ASSUME TypeInv, TypeInv', StatusWitnessed, [Next]_vars,
                        NEW t \in Tasks, task'[t] \in DOMAIN Witness
                 PROVE  \E e \in Executions :
                            /\ exec'[e].status # "absent" /\ exec'[e].task = t
                            /\ exec'[e].status = Witness[task'[t]]
      BY DEF StatusWitnessed, Owned
    <2>1. CASE Aside
      <3>1. task'[t] = task[t]
        BY <2>1 DEF Aside
      <3>2. PICK e \in Executions : /\ exec[e].status # "absent" /\ exec[e].task = t
                                    /\ exec[e].status = Witness[task[t]]
        BY <3>1 DEF StatusWitnessed, Owned
      <3> QED
        BY <2>1, <3>1, <3>2 DEF Aside
    <2>2. ASSUME NEW e \in Executions, NEW u \in DOMAIN Witness, Together(e, u)
          PROVE  \E x \in Executions :
                    /\ exec'[x].status # "absent" /\ exec'[x].task = t
                    /\ exec'[x].status = Witness[task'[t]]
      <3>1. CASE exec'[e].task = t
        BY <2>2, <3>1, WitnessValues DEF Together, TypeInv, TypeOK, GateTypeOK
      <3>2. CASE exec'[e].task # t
        <4>1. task'[t] = task[t]
          BY <2>2, <3>2 DEF Together, TypeInv, TypeOK, GateTypeOK
        <4>2. PICK x \in Executions : /\ exec[x].status # "absent" /\ exec[x].task = t
                                      /\ exec[x].status = Witness[task[t]]
          BY <4>1 DEF StatusWitnessed, Owned
        <4>3. x # e
          BY <2>2, <3>2, <4>2 DEF Together
        <4> QED
          BY <2>2, <4>1, <4>2, <4>3 DEF Together
      <3> QED
        BY <3>1, <3>2
    <2>3. CASE UNCHANGED vars
      BY <2>3 DEF vars, gateVars, rows, StatusWitnessed, Owned
    <2> QED
      BY <2>1, <2>2, <2>3, StepKinds
  <1> QED
    BY <1>1, <1>2, TypeInvariance, PTL DEF Spec

(* An execution in review has a ready patch, and a completed one an         *)
(* approved patch; see PatchMirrorsExecution.                               *)
THEOREM PatchMirrors == Spec => []PatchMirrorsExecution
  <1>1. Init => PatchMirrorsExecution
    BY DEF Init, PatchMirrorsExecution
  <1>2. TypeInv /\ PatchMirrorsExecution /\ [Next]_vars => PatchMirrorsExecution'
    <2> SUFFICES ASSUME TypeInv, PatchMirrorsExecution, [Next]_vars
                 PROVE  PatchMirrorsExecution'
      OBVIOUS
    <2>1. CASE Next
      BY <2>1, StepKinds DEF PatchMirrorsExecution, PatchMoves
    <2>2. CASE UNCHANGED vars
      BY <2>2 DEF vars, rows, PatchMirrorsExecution
    <2> QED
      BY <2>1, <2>2
  <1> QED
    BY <1>1, <1>2, TypeInvariance, PTL DEF Spec

(***************************************************************************)
(* An execution that was verified or reviewed never takes edits again.     *)
(* The argument: the one step that lets the executor loose on an existing  *)
(* row is LaunchExecution, and while a handler waits to take it the row    *)
(* has not been verified, has no review and is worked on by nobody else.   *)
(***************************************************************************)

(* A handler about to launch has its execution to itself.                   *)
LaunchesAlone ==
    \A h \in Handlers : At(h, "launch") =>
        /\ exec[job[h].exec].status \in {"queued", "failed"}
        /\ patch[job[h].exec].status = "none"
        /\ \A g \in Handlers \ {h} :
              job[g].at \in ExecPoints => job[g].exec # job[h].exec

(* What a step may do to an execution's row.                                *)
RowMoves ==
    \A e \in Executions :
        \/ /\ exec'[e].status = exec[e].status
           /\ patch'[e].status = patch[e].status
        \/ exec'[e].status = "failed" /\ patch'[e].status = patch[e].status
        \/ /\ patch[e].status # "none"
           /\ exec'[e].status \in {"completed", "failed"}
        \/ exec[e].status = "absent"
        \/ \E h \in Handlers :
              /\ job[h].at \in ExecPoints /\ job[h].exec = e
              /\ job'[h].at # "launch"
              /\ \/ job[h].at = "launch"
                 \/ exec'[e].status \in {"verifying", "patch_ready", "failed"}

(* What a step that enqueues nothing may do to a job: handlers come to an   *)
(* execution while it is implemented or verified, and stay with it.         *)
JobMoves ==
    \A g \in Handlers :
        \/ job'[g] = job[g]
        \/ job'[g].at \notin ExecPoints
        \/ /\ job'[g].at \in ExecPoints \ {"launch"}
           /\ \/ job[g].at \in ExecPoints /\ job'[g].exec = job[g].exec
              \/ exec[job'[g].exec].status \in {"implementing", "verifying"}

Enqueue ==
    \E h \in Handlers, e \in Executions : EnqueueExecution(h, e)

(* A step that leaves executions and reviews alone moves no row.            *)
LEMMA NoRowMoves == UNCHANGED <<exec, patch>> => RowMoves
  BY DEF RowMoves

(* One handler's job changes.                                               *)
LEMMA OneJobMoves ==
    ASSUME TypeInv, NEW h \in Handlers, NEW r \in Job,
           job' = [job EXCEPT ![h] = r],
           \/ r.at \notin ExecPoints
           \/ /\ r.at \in ExecPoints \ {"launch"}
              /\ \/ job[h].at \in ExecPoints /\ r.exec = job[h].exec
                 \/ exec[r.exec].status \in {"implementing", "verifying"}
    PROVE  JobMoves
  <1>1. job'[h] = r /\ \A g \in Handlers \ {h} : job'[g] = job[g]
    BY DEF TypeInv, TypeOK
  <1> QED
    BY <1>1 DEF JobMoves

(* A handler that returns works on no execution.                            *)
LEMMA ReturnMoves ==
    ASSUME TypeInv, NEW h \in Handlers, Return(h)
    PROVE  JobMoves /\ job'[h].at \notin ExecPoints
  <1>1. Idle.at \notin ExecPoints
    BY IdleTyped DEF ExecPoints
  <1>2. job'[h] = Idle
    BY DEF Return, TypeInv, TypeOK
  <1> QED
    BY <1>1, <1>2, IdleTyped, OneJobMoves DEF Return

(* A handler that goes to another point keeps its execution.                *)
LEMMA GotoMoves ==
    ASSUME TypeInv, NEW h \in Handlers, NEW p \in Points \ {"launch"}, Goto(h, p),
           p \in ExecPoints => job[h].at \in ExecPoints
    PROVE  JobMoves /\ job'[h].at = p
  <1> DEFINE r == [job[h] EXCEPT !.at = p]
  <1>1. job[h] \in Job
    BY DEF TypeInv, TypeOK
  <1>2. r \in Job /\ r.at = p /\ r.exec = job[h].exec
    BY <1>1 DEF Job
  <1>3. job' = [job EXCEPT ![h] = r]
    BY DEF Goto
  <1>4. job'[h].at = p
    BY <1>2, <1>3 DEF TypeInv, TypeOK
  <1> HIDE DEF r
  <1> QED
    BY <1>2, <1>3, <1>4, OneJobMoves

(* A request arrives.                                                       *)
LEMMA ArriveMoves ==
    ASSUME TypeInv, NEW h \in Handlers, Arrive(h)
    PROVE  RowMoves /\ JobMoves
  <1>1. ASSUME NEW t \in Tasks, NEW goal \in {"branch", "execute", "headless"},
               ReadContext(h, t, goal)
        PROVE  JobMoves
    <2> DEFINE r == [Idle EXCEPT !.at = "gate", !.goal = goal, !.task = t,
                                 !.status = task[t], !.plan = plan[t]]
    <2>1. r \in Job /\ r.at = "gate"
      BY IdleTyped DEF Job, Points, TypeInv, TypeOK, GateTypeOK
    <2>2. job' = [job EXCEPT ![h] = r]
      BY <1>1 DEF ReadContext
    <2> HIDE DEF r
    <2> QED
      BY <2>1, <2>2, OneJobMoves DEF ExecPoints
  <1>2. ASSUME NEW t \in Tasks, LeaveBranch(h, t) PROVE JobMoves
    <2> DEFINE r == [Idle EXCEPT !.at = "leave", !.task = t]
    <2>1. r \in Job /\ r.at = "leave"
      BY IdleTyped DEF Job, Points
    <2>2. job' = [job EXCEPT ![h] = r]
      BY <1>2 DEF LeaveBranch
    <2> HIDE DEF r
    <2> QED
      BY <2>1, <2>2, OneJobMoves DEF ExecPoints
  <1>3. ASSUME NEW e \in Executions, CheckToolCall(h, e) PROVE JobMoves
    <2> DEFINE r == [Idle EXCEPT !.at = "write", !.task = exec[e].task, !.exec = e]
    <2>1. exec[e].task \in Tasks /\ exec[e].status = "implementing"
      BY <1>3 DEF CheckToolCall, TypeInv, RowsPlaced
    <2>2. r \in Job /\ r.at = "write" /\ r.exec = e
      BY <2>1, IdleTyped DEF Job, Points
    <2>3. job' = [job EXCEPT ![h] = r]
      BY <1>3 DEF CheckToolCall
    <2> HIDE DEF r
    <2> QED
      BY <2>1, <2>2, <2>3, OneJobMoves DEF ExecPoints
  <1>4. ASSUME NEW e \in Executions, ReadRunContext(h, e) PROVE JobMoves
    <2> DEFINE r == [Idle EXCEPT !.at = "select", !.task = exec[e].task, !.exec = e,
                                 !.items = ApprovedItems(exec[e].task)]
    <2>1. exec[e].task \in Tasks /\ exec[e].status \in {"implementing", "verifying"}
      BY <1>4 DEF ReadRunContext, TypeInv, RowsPlaced
    <2>2. r \in Job /\ r.at = "select" /\ r.exec = e
      BY <2>1, IdleTyped DEF Job, Points, ApprovedItems
    <2>3. job' = [job EXCEPT ![h] = r]
      BY <1>4 DEF ReadRunContext
    <2> HIDE DEF r
    <2> QED
      BY <2>1, <2>2, <2>3, OneJobMoves DEF ExecPoints
  <1>5. UNCHANGED <<exec, patch>>
    BY DEF Arrive, ReadContext, LeaveBranch, CheckToolCall, ReadRunContext, rows
  <1> QED
    BY <1>1, <1>2, <1>3, <1>4, <1>5, NoRowMoves DEF Arrive
(* A handler prepares a branch, checks the gate or writes.                  *)
LEMMA PrepareMoves ==
    ASSUME TypeInv, NEW h \in Handlers,
           \/ CheckGate(h) \/ SwitchBranch(h) \/ RecordBranch(h)
           \/ AbandonBranch(h) \/ ReReadContext(h) \/ RecheckGate(h)
           \/ WriteToolCall(h)
    PROVE  RowMoves /\ JobMoves
  <1>1. UNCHANGED <<exec, patch>>
    BY DEF CheckGate, SwitchBranch, RecordBranch, AbandonBranch, ReReadContext,
           RecheckGate, WriteToolCall, rows
  <1>2. job[h] \in Job
    BY DEF TypeInv, TypeOK
  <1>3. CASE \/ CheckGate(h) \/ RecordBranch(h) \/ AbandonBranch(h)
             \/ RecheckGate(h) \/ WriteToolCall(h)
    <2>1. job[h].goal \in {"branch", "execute", "headless"}
      BY <1>2 DEF Job
    <2>2. \/ Return(h)
          \/ \E p \in {"lookup", "reread", "headless", "enqueue"} : Goto(h, p)
      BY <1>3, <2>1 DEF CheckGate, RecordBranch, AbandonBranch, RecheckGate,
         WriteToolCall
    <2>3. {"lookup", "reread", "headless", "enqueue"} \subseteq Points \ ExecPoints
      BY DEF Points, ExecPoints
    <2>4. "launch" \notin {"lookup", "reread", "headless", "enqueue"}
      OBVIOUS
    <2> QED
      BY <1>1, <2>2, <2>3, <2>4, NoRowMoves, ReturnMoves, GotoMoves
  <1>4. CASE SwitchBranch(h)
    <2> DEFINE r == [job[h] EXCEPT !.at = "record",
                                   !.persisted = branch[job[h].task] # "none"]
    <2>1. r \in Job /\ r.at = "record"
      BY <1>2 DEF Job, Points
    <2>2. job' = [job EXCEPT ![h] = r] \/ Return(h)
      BY <1>4 DEF SwitchBranch
    <2> HIDE DEF r
    <2> QED
      BY <1>1, <2>1, <2>2, NoRowMoves, OneJobMoves, ReturnMoves DEF ExecPoints
  <1>5. CASE ReReadContext(h)
    <2> DEFINE t == job[h].task
               r == [job[h] EXCEPT !.at = "regate", !.status = task[t], !.plan = plan[t]]
    <2>1. t \in Tasks
      BY <1>5 DEF ReReadContext, TypeInv, JobsPlaced, At
    <2>2. r \in Job /\ r.at = "regate"
      BY <1>2, <2>1 DEF Job, Points, TypeInv, TypeOK, GateTypeOK
    <2>3. job' = [job EXCEPT ![h] = r]
      BY <1>5 DEF ReReadContext
    <2> HIDE DEF r
    <2> QED
      BY <1>1, <2>2, <2>3, NoRowMoves, OneJobMoves DEF ExecPoints
  <1> QED
    BY <1>3, <1>4, <1>5

(* A handler runs targets and collects the patch.                           *)
LEMMA RunMoves ==
    ASSUME TypeInv, NEW h \in Handlers,
           \/ SelectTargets(h) \/ CollectPatch(h)
           \/ \E x \in Targets :
                StartTarget(h, x) \/ (\E passed \in BOOLEAN : FinishTarget(h, x, passed))
    PROVE  RowMoves /\ JobMoves
  <1>1. UNCHANGED <<exec, patch>>
    BY DEF SelectTargets, CollectPatch, StartTarget, FinishTarget, rows
  <1>2. job[h] \in Job /\ job[h].at \in ExecPoints
    BY DEF TypeInv, TypeOK, SelectTargets, CollectPatch, StartTarget, FinishTarget,
       At, ExecPoints
  <1>3. TypeInv'
    BY RunTyped
  <1>4. \A g \in Handlers : job'[g] = job[g] \/ g = h
    BY DEF TypeInv, TypeOK, SelectTargets, CollectPatch, StartTarget, FinishTarget,
       Return
  <1>5. \/ Return(h)
        \/ /\ job'[h].at \in {"begin", "next", "running", "publish"}
           /\ job'[h].exec = job[h].exec
    <2>1. CASE SelectTargets(h)
      <3> DEFINE targets == RunTargets(job[h].task, job[h].items)
      <3>1. \/ Return(h)
            \/ job' = [job EXCEPT ![h].at = "begin", ![h].todo = targets,
                                   ![h].items = @ \ targets]
        BY <2>1 DEF SelectTargets
      <3> HIDE DEF targets
      <3> QED
        BY <1>2, <3>1 DEF TypeInv, TypeOK, Job
    <2>2. CASE CollectPatch(h)
      BY <1>2, <2>2 DEF CollectPatch, TypeInv, TypeOK, Job
    <2>3. ASSUME NEW x \in Targets, StartTarget(h, x)
          PROVE  job'[h].at = "running" /\ job'[h].exec = job[h].exec
      BY <1>2, <2>3 DEF StartTarget, TypeInv, TypeOK, Job
    <2>4. ASSUME NEW x \in Targets, NEW passed \in BOOLEAN, FinishTarget(h, x, passed)
          PROVE  job'[h].at = "next" /\ job'[h].exec = job[h].exec
      BY <1>2, <2>4 DEF FinishTarget, TypeInv, TypeOK, Job
    <2> QED
      BY <2>1, <2>2, <2>3, <2>4
  <1>6. JobMoves
    <2>1. CASE Return(h)
      BY <2>1, ReturnMoves
    <2>2. {"begin", "next", "running", "publish"} \subseteq ExecPoints \ {"launch"}
      BY DEF ExecPoints
    <2> QED
      BY <1>2, <1>4, <1>5, <2>1, <2>2 DEF JobMoves
  <1> QED
    BY <1>1, <1>6, NoRowMoves

(* A handler sets the status of its execution.                              *)
LEMMA StatusMoves ==
    ASSUME TypeInv, NEW h \in Handlers,
           \/ LaunchExecution(h) \/ FailLaunch(h) \/ BeginVerification(h)
           \/ FailVerification(h) \/ PublishPatch(h)
    PROVE  RowMoves /\ JobMoves
  <1> DEFINE e == job[h].exec
  <1>1. job[h].at \in ExecPoints /\ e \in Executions /\ exec[e].status # "absent"
    BY DEF LaunchExecution, FailLaunch, BeginVerification, FailVerification,
           PublishPatch, At, ExecPoints, TypeInv, JobsLinked
  <1>2. JobMoves /\ job'[h].at # "launch"
    <2>1. Return(h) \/ Goto(h, "next")
      BY DEF LaunchExecution, FailLaunch, BeginVerification, FailVerification,
             PublishPatch
    <2>2. "next" \in Points \ {"launch"} /\ "launch" \in ExecPoints
      BY DEF Points, ExecPoints
    <2> QED
      BY <1>1, <2>1, <2>2, ReturnMoves, GotoMoves
  <1>3. \/ job[h].at = "launch"
        \/ exec'[e].status \in {"verifying", "patch_ready", "failed"}
    <2>1. \/ At(h, "launch")
          \/ \E s \in {"verifying", "patch_ready", "failed"} : SetExec(e, s)
      BY DEF LaunchExecution, FailLaunch, BeginVerification, FailVerification,
             PublishPatch
    <2>2. {"verifying", "patch_ready", "failed"} \subseteq ExecStatus \ {"absent"}
      BY DEF ExecStatus
    <2> HIDE DEF e
    <2> QED
      BY <1>1, <2>1, <2>2, SetExecStep DEF At
  <1>4. \A x \in Executions \ {e} :
            exec'[x].status = exec[x].status /\ patch'[x].status = patch[x].status
    <2>1. \E s \in ExecStatus : SetExec(e, s)
      BY DEF LaunchExecution, FailLaunch, BeginVerification, FailVerification,
             PublishPatch, ExecStatus
    <2>2. patch' = patch \/ \E p : patch' = [patch EXCEPT ![e] = p]
      BY DEF LaunchExecution, FailLaunch, BeginVerification, FailVerification,
             PublishPatch
    <2> HIDE DEF e
    <2> QED
      BY <1>1, <2>1, <2>2 DEF SetExec, TypeInv, TypeOK
  <1>5. RowMoves
    <2> SUFFICES ASSUME NEW x \in Executions, x = e
                 PROVE  \E g \in Handlers :
                          /\ job[g].at \in ExecPoints /\ job[g].exec = x
                          /\ job'[g].at # "launch"
                          /\ \/ job[g].at = "launch"
                             \/ exec'[x].status \in {"verifying", "patch_ready", "failed"}
      BY <1>4 DEF RowMoves
    <2> QED
      BY <1>1, <1>2, <1>3
  <1> QED
    BY <1>2, <1>5

(* Requests of one step, commits and losses of handlers.                    *)
LEMMA OtherMoves ==
    ASSUME TypeInv,
           \/ ShortRequest \/ CommitEdits \/ Crash \/ UNCHANGED vars
           \/ \E h \in Handlers, e \in Executions : LaunchHeadless(h, e)
    PROVE  RowMoves /\ JobMoves
  <1>1. CASE GateNext /\ UNCHANGED rows /\ UNCHANGED job
    BY <1>1, NoRowMoves DEF rows, JobMoves
  <1>2. ASSUME NEW e \in Executions,
               ApprovePatch(e) \/ RejectPatch(e) \/ ExhaustRetries(e)
        PROVE  RowMoves
    <2>1. \A x \in Executions \ {e} :
              exec'[x].status = exec[x].status /\ patch'[x].status = patch[x].status
      BY <1>2 DEF ApprovePatch, RejectPatch, ExhaustRetries, SetExec, TypeInv, TypeOK
    <2>2. \/ exec'[e].status = "failed" /\ patch'[e].status = patch[e].status
          \/ /\ patch[e].status # "none"
             /\ exec'[e].status \in {"completed", "failed"}
      BY <1>2 DEF ApprovePatch, RejectPatch, ExhaustRetries, SetExec, TypeInv, TypeOK
    <2> QED
      BY <2>1, <2>2 DEF RowMoves
  <1>3. CASE ShortRequest
    <2>1. job' = job
      BY <1>3 DEF ShortRequest
    <2>2. JobMoves
      BY <2>1 DEF JobMoves
    <2> QED
      BY <1>1, <1>2, <1>3, <2>1, <2>2 DEF ShortRequest
  <1>4. CASE CommitEdits \/ UNCHANGED vars
    BY <1>4, NoRowMoves DEF CommitEdits, vars, rows, JobMoves
  <1>5. CASE Crash
    <2>1. \A h \in Handlers : job'[h] = job[h] \/ job'[h] = Idle
      BY <1>5 DEF Crash
    <2>2. JobMoves
      BY <2>1, IdleTyped DEF JobMoves, ExecPoints
    <2> QED
      BY <1>5, <2>2, NoRowMoves DEF Crash, rows
  <1>6. ASSUME NEW h \in Handlers, NEW e \in Executions, LaunchHeadless(h, e)
        PROVE  RowMoves /\ JobMoves
    <2>1. /\ exec[e].status = "absent" /\ Return(h) /\ patch' = patch
          /\ \A x \in Executions \ {e} : exec'[x] = exec[x]
      BY <1>6 DEF LaunchHeadless, TypeInv, TypeOK
    <2> QED
      BY <2>1, ReturnMoves DEF RowMoves
  <1> QED
    BY <1>3, <1>4, <1>5, <1>6

(* What any step does.                                                      *)
LEMMA StepMoves ==
    ASSUME TypeInv, [Next]_vars
    PROVE  (RowMoves /\ JobMoves) \/ Enqueue
  <1>1. ASSUME NEW h \in Handlers, Continue(h)
        PROVE  (RowMoves /\ JobMoves) \/ Enqueue
    <2>1. CASE \E e \in Executions : EnqueueExecution(h, e) \/ LaunchHeadless(h, e)
      BY <2>1, OtherMoves DEF Enqueue
    <2>2. CASE \/ CheckGate(h) \/ SwitchBranch(h) \/ RecordBranch(h)
               \/ AbandonBranch(h) \/ ReReadContext(h) \/ RecheckGate(h)
               \/ WriteToolCall(h)
      BY <2>2, PrepareMoves
    <2>3. CASE \/ LaunchExecution(h) \/ FailLaunch(h) \/ BeginVerification(h)
               \/ FailVerification(h) \/ PublishPatch(h)
      BY <2>3, StatusMoves
    <2>4. CASE \/ SelectTargets(h) \/ CollectPatch(h)
               \/ \E x \in Targets :
                    StartTarget(h, x)
                    \/ (\E passed \in BOOLEAN : FinishTarget(h, x, passed))
      BY <2>4, RunMoves
    <2> QED
      BY <1>1, <2>1, <2>2, <2>3, <2>4 DEF Continue
  <1>2. ASSUME NEW h \in Handlers, Arrive(h) PROVE RowMoves /\ JobMoves
    BY <1>2, ArriveMoves
  <1> QED
    BY <1>1, <1>2, OtherMoves DEF Next, Step

(* The execution of a handler about to launch stays its own.                *)
LEMMA LaunchesAloneKept ==
    ASSUME TypeInv, LaunchesAlone, [Next]_vars
    PROVE  LaunchesAlone'
  <1> SUFFICES ASSUME NEW h \in Handlers, job'[h].at = "launch"
               PROVE  /\ exec'[job'[h].exec].status \in {"queued", "failed"}
                      /\ patch'[job'[h].exec].status = "none"
                      /\ \A g \in Handlers \ {h} :
                            job'[g].at \in ExecPoints => job'[g].exec # job'[h].exec
    BY DEF LaunchesAlone, At
  <1>1. "launch" \in ExecPoints
    BY DEF ExecPoints
  <1>2. CASE RowMoves /\ JobMoves
    <2>1. job'[h] = job[h] /\ job[h].at = "launch"
      BY <1>1, <1>2 DEF JobMoves
    <2> DEFINE e == job[h].exec
    <2>2. /\ e \in Executions
          /\ exec[e].status \in {"queued", "failed"} /\ patch[e].status = "none"
          /\ \A g \in Handlers \ {h} : job[g].at \in ExecPoints => job[g].exec # e
      BY <1>1, <2>1 DEF LaunchesAlone, At, TypeInv, JobsLinked
    <2> HIDE DEF e
    <2>3. exec'[e].status \in {"queued", "failed"} /\ patch'[e].status = "none"
      BY <1>2, <2>1, <2>2 DEF RowMoves
    <2>4. ASSUME NEW g \in Handlers \ {h}, job'[g].at \in ExecPoints
          PROVE  job'[g].exec # e
      BY <1>2, <2>2, <2>4 DEF JobMoves
    <2> QED
      BY <2>1, <2>3, <2>4 DEF e
  <1>3. CASE Enqueue
    <2>1. PICK k \in Handlers, e \in Executions : EnqueueExecution(k, e)
      BY <1>3 DEF Enqueue
    <2>2. /\ job'[k].exec = e
          /\ \A g \in Handlers \ {k} : job'[g] = job[g]
      BY <2>1 DEF EnqueueExecution, TypeInv, TypeOK, Job
    <2>3. /\ exec[e].status = "absent" /\ exec'[e].status = "queued" /\ patch' = patch
          /\ \A x \in Executions \ {e} : exec'[x] = exec[x]
      BY <2>1 DEF EnqueueExecution, TypeInv, TypeOK
    <2>4. \A g \in Handlers : job[g].at \in ExecPoints =>
              job[g].exec # e /\ job[g].exec \in Executions
      BY <2>3 DEF TypeInv, JobsLinked
    <2>5. CASE h = k
      <3>1. patch[e].status = "none"
        BY <2>3 DEF TypeInv, RowsPlaced
      <3> QED
        BY <2>2, <2>3, <2>4, <2>5, <3>1
    <2>6. CASE h # k
      <3>1. job'[h] = job[h]
        BY <2>2, <2>6
      <3> QED
        BY <1>1, <2>2, <2>3, <2>4, <2>6, <3>1 DEF LaunchesAlone, At
    <2> QED
      BY <2>5, <2>6
  <1> QED
    BY <1>2, <1>3, StepMoves

(* A step that starts where launches are alone takes no verified or         *)
(* reviewed execution back; see NeverRewinds.                               *)
LEMMA NoStepRewinds ==
    ASSUME TypeInv, LaunchesAlone, [Next]_vars, NEW e \in Executions,
           exec[e].status \in {"verifying", "patch_ready", "completed"}
    PROVE  /\ exec'[e].status \notin {"absent", "queued", "implementing"}
           /\ exec'[e].task = exec[e].task
  <1>1. CASE RowMoves /\ JobMoves
    <2>1. exec'[e].status \notin {"absent", "queued", "implementing"}
      <3>1. ASSUME NEW h \in Handlers, job[h].exec = e
            PROVE  job[h].at # "launch"
        BY <3>1 DEF LaunchesAlone, At
      <3> QED
        BY <1>1, <3>1 DEF RowMoves
    <2>2. exec'[e].task = exec[e].task
      <3>1. CASE UNCHANGED vars
        BY <3>1 DEF vars, rows
      <3>2. CASE Next
        BY <3>2, StepKinds DEF Aside, Together
      <3> QED
        BY <3>1, <3>2
    <2> QED
      BY <2>1, <2>2
  <1>2. CASE Enqueue
    <2>1. exec'[e] = exec[e]
      BY <1>2 DEF Enqueue, EnqueueExecution, TypeInv, TypeOK
    <2> QED
      BY <2>1
  <1> QED
    BY <1>1, <1>2, StepMoves

(* Once verified or reviewed, an execution never returns to a state in      *)
(* which the executor may write, and stays with its task; see NeverRewinds. *)
THEOREM NothingRewinds == Spec => NeverRewinds
  <1>1. Init => LaunchesAlone
    BY IdleTyped DEF Init, LaunchesAlone, At
  <1>2. TypeInv /\ LaunchesAlone /\ [Next]_vars => LaunchesAlone'
    BY LaunchesAloneKept
  <1>3. TypeInv /\ LaunchesAlone /\ [Next]_vars =>
            [\A e \in Executions :
                exec[e].status \in {"verifying", "patch_ready", "completed"} =>
                    /\ exec'[e].status \notin {"absent", "queued", "implementing"}
                    /\ exec'[e].task = exec[e].task]_vars
    BY NoStepRewinds
  <1> QED
    BY <1>1, <1>2, <1>3, TypeInvariance, PTL DEF Spec, NeverRewinds

-----------------------------------------------------------------------------
(* What holds while requests are served one at a time: branches, edits,     *)
(* patches and the gate belong to the same task.  With two requests none of *)
(* it holds (run isolated_branch): a request acts on a branch, or on        *)
(* approvals, that another has changed since.                               *)

(* The points between the switch of the tree and the end of a request.      *)
OwnBranchPoints ==
    {"record", "reread", "regate", "enqueue", "launch", "headless", "write",
     "begin", "next", "running", "publish"}

(* The points of a verification run, and those past an open gate.           *)
RunPoints == {"select", "begin", "next", "running", "publish"}
AdmittedPoints == {"lookup", "record", "reread", "enqueue", "headless"}

(* A handler past the switch is on its task's branch, and one about to      *)
(* switch carries no edits along.                                           *)
OnOwnBranch(h) ==
    /\ job[h].at \in OwnBranchPoints => git.head = job[h].task
    /\ At(h, "lookup") => git.dirty = {}

(* A run has tested nothing but its task's branch and edits.                *)
RunsOnOwnTree(h) ==
    job[h].at \in RunPoints => job[h].tree \subseteq {job[h].task}

(* What a handler has read of its task still stands.                        *)
ReadsStand(h) ==
    /\ job[h].at \in {"gate", "regate"} =>
          job[h].status = task[job[h].task] /\ job[h].plan = plan[job[h].task]
    /\ job[h].at \in AdmittedPoints =>
          /\ task[job[h].task] = "ready"
          /\ GateOpen(plan[job[h].task], validation[job[h].task])

JobSerial(h) == OnOwnBranch(h) /\ RunsOnOwnTree(h) /\ ReadsStand(h)

(* A patch was taken from its task's branch.                                *)
ReviewsOwnTree ==
    \A e \in Executions : patch[e].status # "none" =>
        patch[e].tree \subseteq {exec[e].task}

(* Requests are served one at a time.                                       *)
OneAtATime == \A g, h \in Handlers : g = h

SerialInv == EditsStayHome /\ ReviewsOwnTree /\ \A h \in Handlers : JobSerial(h)

-----------------------------------------------------------------------------
(* A handler at rest has nothing to be wrong about.                         *)
LEMMA RestSerial ==
    ASSUME NEW h \in Handlers, job'[h].at = "idle"
    PROVE  JobSerial(h)'
  BY DEF JobSerial, OnOwnBranch, RunsOnOwnTree, ReadsStand, At, OwnBranchPoints,
     RunPoints, AdmittedPoints

(* A handler that returns is at rest.                                       *)
LEMMA ReturnSerial ==
    ASSUME TypeInv, NEW h \in Handlers, Return(h)
    PROVE  JobSerial(h)'
  BY IdleTyped, RestSerial DEF Return, TypeInv, TypeOK

(* A patch's tree stays that of its task while rows stay with their task.   *)
LEMMA ReviewsKept ==
    ASSUME TypeInv, ReviewsOwnTree, RowsKept,
           \A e \in Executions : patch'[e].status # "none" =>
               patch[e].status # "none" /\ patch'[e].tree = patch[e].tree
    PROVE  ReviewsOwnTree'
  BY DEF ReviewsOwnTree, RowsKept, TypeInv, RowsPlaced

(* A request arrives.                                                       *)
LEMMA ArriveSerial ==
    ASSUME TypeInv, SerialInv, NEW h \in Handlers, Arrive(h)
    PROVE  EditsStayHome' /\ ReviewsOwnTree' /\ JobSerial(h)'
  <1> USE DEF OwnBranchPoints, RunPoints, AdmittedPoints
  <1>1. ReviewsOwnTree'
    BY UnchangedRowsKept, ReviewsKept
       DEF SerialInv, Arrive, ReadContext, LeaveBranch, CheckToolCall,
           ReadRunContext, rows
  <1>2. ASSUME NEW t \in Tasks, NEW goal \in {"branch", "execute", "headless"},
               ReadContext(h, t, goal)
        PROVE  EditsStayHome' /\ JobSerial(h)'
    <2> DEFINE r == [Idle EXCEPT !.at = "gate", !.goal = goal, !.task = t,
                                 !.status = task[t], !.plan = plan[t]]
    <2>1. r.at = "gate" /\ r.task = t /\ r.status = task[t] /\ r.plan = plan[t]
      BY DEF Idle
    <2>2. job'[h] = r /\ UNCHANGED <<gateVars, git>>
      BY <1>2 DEF ReadContext, rows, TypeInv, TypeOK
    <2> HIDE DEF r
    <2>3. JobSerial(h)'
      BY <2>1, <2>2 DEF JobSerial, OnOwnBranch, RunsOnOwnTree, ReadsStand, At, gateVars
    <2> QED
      BY <2>2, <2>3 DEF EditsStayHome, SerialInv
  <1>3. ASSUME NEW t \in Tasks, LeaveBranch(h, t)
        PROVE  EditsStayHome' /\ JobSerial(h)'
    <2>1. job'[h].at = "leave"
      BY <1>3 DEF LeaveBranch, TypeInv, TypeOK, Idle
    <2>2. JobSerial(h)'
      BY <2>1 DEF JobSerial, OnOwnBranch, RunsOnOwnTree, ReadsStand, At
    <2>3. git'.dirty = {}
      BY <1>3 DEF LeaveBranch, TypeInv, TypeOK
    <2> QED
      BY <2>2, <2>3 DEF EditsStayHome
  <1>4. ASSUME NEW e \in Executions, CheckToolCall(h, e)
        PROVE  EditsStayHome' /\ JobSerial(h)'
    <2>1. job'[h].at = "write" /\ job'[h].task = exec[e].task
      BY <1>4 DEF CheckToolCall, TypeInv, TypeOK, Idle
    <2>2. git' = git /\ git.head = exec[e].task
      BY <1>4 DEF CheckToolCall, rows
    <2>3. JobSerial(h)'
      BY <2>1, <2>2 DEF JobSerial, OnOwnBranch, RunsOnOwnTree, ReadsStand, At
    <2> QED
      BY <2>2, <2>3 DEF EditsStayHome, SerialInv
  <1>5. ASSUME NEW e \in Executions, ReadRunContext(h, e)
        PROVE  EditsStayHome' /\ JobSerial(h)'
    <2>1. job'[h].at = "select" /\ job'[h].tree = {} /\ git' = git
      BY <1>5 DEF ReadRunContext, TypeInv, TypeOK, Idle, rows
    <2>2. JobSerial(h)'
      BY <2>1 DEF JobSerial, OnOwnBranch, RunsOnOwnTree, ReadsStand, At
    <2> QED
      BY <2>1, <2>2 DEF EditsStayHome, SerialInv
  <1> QED
    BY <1>1, <1>2, <1>3, <1>4, <1>5 DEF Arrive

(* A handler prepares a branch, checks the gate, or enqueues.               *)
LEMMA PrepareSerial ==
    ASSUME TypeInv, SerialInv, NEW h \in Handlers,
           \/ CheckGate(h) \/ SwitchBranch(h) \/ RecordBranch(h)
           \/ AbandonBranch(h) \/ ReReadContext(h) \/ RecheckGate(h)
    PROVE  EditsStayHome' /\ ReviewsOwnTree' /\ JobSerial(h)'
  <1> USE DEF OwnBranchPoints, RunPoints, AdmittedPoints
  <1>1. UNCHANGED <<gateVars, exec, patch>>
    BY DEF CheckGate, SwitchBranch, RecordBranch, AbandonBranch, ReReadContext,
           RecheckGate, rows
  <1>2. ReviewsOwnTree'
    BY <1>1, UnchangedRowsKept, ReviewsKept DEF SerialInv
  <1>3. UNCHANGED <<task, plan, validation>> /\ EditsStayHome /\ job[h] \in Job
    BY <1>1 DEF gateVars, SerialInv, TypeInv, TypeOK
  <1>4. CASE CheckGate(h)
    <2>1. git' = git
      BY <1>4 DEF CheckGate, rows
    <2>2. CASE GatePasses(h) /\ git.dirty = {}
      <3>1. job'[h] = [job[h] EXCEPT !.at = "lookup"]
        BY <1>4, <2>2 DEF CheckGate, Goto, TypeInv, TypeOK
      <3>2. job'[h].at = "lookup" /\ job'[h].task = job[h].task
        BY <1>3, <3>1 DEF Job
      <3>3. task[job[h].task] = "ready" /\ GateOpen(plan[job[h].task], validation[job[h].task])
        BY <1>4, <2>2 DEF CheckGate, GatePasses, SerialInv, JobSerial, ReadsStand, At
      <3>4. JobSerial(h)'
        BY <1>3, <2>1, <2>2, <3>2, <3>3
           DEF JobSerial, OnOwnBranch, RunsOnOwnTree, ReadsStand, At
      <3> QED
        BY <1>2, <1>3, <2>1, <3>4 DEF EditsStayHome
    <2>3. CASE ~(GatePasses(h) /\ git.dirty = {})
      BY <1>2, <1>3, <1>4, <2>1, <2>3, ReturnSerial DEF CheckGate, EditsStayHome
    <2> QED
      BY <2>2, <2>3
  <1>5. CASE SwitchBranch(h)
    <2>1. git.dirty = {} /\ task[job[h].task] = "ready"
          /\ GateOpen(plan[job[h].task], validation[job[h].task])
      BY <1>5 DEF SwitchBranch, SerialInv, JobSerial, OnOwnBranch, ReadsStand, At
    <2> DEFINE r == [job[h] EXCEPT !.at = "record",
                                   !.persisted = branch[job[h].task] # "none"]
               local == git.local \cup {job[h].task}
    <2>2. r.at = "record" /\ r.task = job[h].task
      BY <1>3 DEF Job
    <2>3. /\ job' = [job EXCEPT ![h] = r]
          /\ git' = [git EXCEPT !.head = job[h].task, !.local = local]
      BY <1>5, <2>1 DEF SwitchBranch
    <2> HIDE DEF r, local
    <2>4. job'[h] = r /\ git'.head = job[h].task /\ git'.dirty = {}
      BY <2>1, <2>3 DEF TypeInv, TypeOK
    <2>5. JobSerial(h)'
      BY <1>3, <2>1, <2>2, <2>4 DEF JobSerial, OnOwnBranch, RunsOnOwnTree, ReadsStand, At
    <2> QED
      BY <1>2, <2>4, <2>5 DEF EditsStayHome
  <1>6. CASE RecordBranch(h)
    <2>1. git' = git /\ git.head = job[h].task /\ task[job[h].task] = "ready"
          /\ GateOpen(plan[job[h].task], validation[job[h].task])
      BY <1>6 DEF RecordBranch, SerialInv, JobSerial, OnOwnBranch, ReadsStand, At
    <2>2. job[h].goal \in {"branch", "execute", "headless"}
      BY <1>3 DEF Job
    <2>3. Return(h) \/ \E p \in {"reread", "headless"} : Goto(h, p)
      BY <1>6, <2>2 DEF RecordBranch
    <2>4. ASSUME NEW p \in {"reread", "headless"}, Goto(h, p) PROVE JobSerial(h)'
      <3>1. job'[h].at = p /\ job'[h].task = job[h].task
        BY <1>3, <2>4 DEF Goto, Job, TypeInv, TypeOK
      <3> QED
        BY <1>3, <2>1, <3>1 DEF JobSerial, OnOwnBranch, RunsOnOwnTree, ReadsStand, At
    <2> QED
      BY <1>2, <1>3, <2>1, <2>3, <2>4, ReturnSerial DEF EditsStayHome
  <1>7. CASE AbandonBranch(h)
    BY <1>2, <1>3, <1>7, ReturnSerial DEF AbandonBranch, EditsStayHome
  <1>8. CASE ReReadContext(h)
    <2>1. git' = git /\ git.head = job[h].task
      BY <1>8 DEF ReReadContext, SerialInv, JobSerial, OnOwnBranch, At, rows
    <2> DEFINE t == job[h].task
               r == [job[h] EXCEPT !.at = "regate", !.status = task[t], !.plan = plan[t]]
    <2>2. r.at = "regate" /\ r.task = t /\ r.status = task[t] /\ r.plan = plan[t]
      BY <1>3 DEF Job
    <2>3. job' = [job EXCEPT ![h] = r]
      BY <1>8 DEF ReReadContext
    <2> HIDE DEF r
    <2>4. job'[h] = r
      BY <2>3 DEF TypeInv, TypeOK
    <2>5. JobSerial(h)'
      BY <1>3, <2>1, <2>2, <2>4 DEF JobSerial, OnOwnBranch, RunsOnOwnTree, ReadsStand, At
    <2> QED
      BY <1>2, <1>3, <2>1, <2>5 DEF EditsStayHome
  <1>9. CASE RecheckGate(h)
    <2>1. git' = git /\ git.head = job[h].task
      BY <1>9 DEF RecheckGate, SerialInv, JobSerial, OnOwnBranch, At, rows
    <2>2. CASE GatePasses(h)
      <3>1. job'[h].at = "enqueue" /\ job'[h].task = job[h].task
        BY <1>3, <1>9, <2>2 DEF RecheckGate, Goto, Job, TypeInv, TypeOK
      <3>2. task[job[h].task] = "ready" /\ GateOpen(plan[job[h].task], validation[job[h].task])
        BY <1>9, <2>2 DEF RecheckGate, GatePasses, SerialInv, JobSerial, ReadsStand, At
      <3>3. JobSerial(h)'
        BY <1>3, <2>1, <3>1, <3>2 DEF JobSerial, OnOwnBranch, RunsOnOwnTree, ReadsStand, At
      <3> QED
        BY <1>2, <1>3, <2>1, <3>3 DEF EditsStayHome
    <2>3. CASE ~GatePasses(h)
      BY <1>2, <1>3, <1>9, <2>1, <2>3, ReturnSerial DEF RecheckGate, EditsStayHome
    <2> QED
      BY <2>2, <2>3
  <1> QED
    BY <1>4, <1>5, <1>6, <1>7, <1>8, <1>9

(* A handler starts an execution, writes, or sets its execution's status.   *)
LEMMA StatusSerial ==
    ASSUME TypeInv, SerialInv, NEW h \in Handlers,
           \/ \E e \in Executions : EnqueueExecution(h, e) \/ LaunchHeadless(h, e)
           \/ LaunchExecution(h) \/ FailLaunch(h) \/ WriteToolCall(h)
           \/ BeginVerification(h) \/ FailVerification(h) \/ PublishPatch(h)
    PROVE  EditsStayHome' /\ ReviewsOwnTree' /\ JobSerial(h)'
  <1> USE DEF OwnBranchPoints, RunPoints, AdmittedPoints
  <1>1. job[h] \in Job /\ EditsStayHome /\ ReviewsOwnTree
    BY DEF SerialInv, TypeInv, TypeOK
  <1>2. ASSUME NEW e \in Executions, EnqueueExecution(h, e)
        PROVE  EditsStayHome' /\ ReviewsOwnTree' /\ JobSerial(h)'
    <2>1. git' = git /\ patch' = patch /\ git.head = job[h].task
      BY <1>2 DEF EnqueueExecution, SerialInv, JobSerial, OnOwnBranch, At
    <2>2. job'[h].at = "launch" /\ job'[h].task = job[h].task
      BY <1>1, <1>2 DEF EnqueueExecution, Job, TypeInv, TypeOK
    <2>3. RowsKept
      BY <1>2 DEF EnqueueExecution, RowsKept, TypeInv, TypeOK
    <2>4. JobSerial(h)'
      BY <2>1, <2>2 DEF JobSerial, OnOwnBranch, RunsOnOwnTree, ReadsStand, At
    <2> QED
      BY <1>1, <2>1, <2>3, <2>4, ReviewsKept DEF EditsStayHome
  <1>3. ASSUME NEW e \in Executions, LaunchHeadless(h, e)
        PROVE  EditsStayHome' /\ ReviewsOwnTree' /\ JobSerial(h)'
    <2>1. git' = git /\ patch' = patch /\ Return(h)
      BY <1>3 DEF LaunchHeadless
    <2>2. RowsKept
      BY <1>3 DEF LaunchHeadless, RowsKept, TypeInv, TypeOK
    <2> QED
      BY <1>1, <2>1, <2>2, ReviewsKept, ReturnSerial DEF EditsStayHome
  <1>4. CASE \/ LaunchExecution(h) \/ FailLaunch(h) \/ BeginVerification(h)
             \/ FailVerification(h) \/ PublishPatch(h)
    <2> DEFINE e == job[h].exec
    <2>1. /\ job[h].at \in ExecPoints /\ e \in Executions
          /\ exec[e].status # "absent" /\ exec[e].task = job[h].task
      BY <1>4 DEF LaunchExecution, FailLaunch, BeginVerification, FailVerification,
         PublishPatch, At, ExecPoints, TypeInv, JobsLinked
    <2>2. \E s \in ExecStatus \ {"absent"} : SetExec(e, s)
      BY <1>4 DEF LaunchExecution, FailLaunch, BeginVerification, FailVerification,
         PublishPatch, ExecStatus
    <2>3. RowsKept /\ \A x \in Executions : exec'[x].task = exec[x].task
      BY <2>1, <2>2, SetExecStep
    <2>4. git' = git
      BY <1>4 DEF LaunchExecution, FailLaunch, BeginVerification, FailVerification,
         PublishPatch
    <2>5. JobSerial(h)'
      <3>1. CASE Return(h)
        BY <3>1, ReturnSerial
      <3>2. CASE BeginVerification(h)
        <4>1. /\ job'[h].at = "next" /\ job'[h].task = job[h].task
              /\ job'[h].tree = job[h].tree
          BY <1>1, <3>2 DEF BeginVerification, Goto, Job, TypeInv, TypeOK
        <4>2. job[h].tree \subseteq {job[h].task} /\ git.head = job[h].task
          BY <3>2 DEF BeginVerification, At, SerialInv, JobSerial, OnOwnBranch,
             RunsOnOwnTree
        <4> QED
          BY <2>4, <4>1, <4>2 DEF JobSerial, OnOwnBranch, RunsOnOwnTree, ReadsStand, At
      <3> QED
        BY <1>4, <3>1, <3>2 DEF LaunchExecution, FailLaunch, FailVerification, PublishPatch
    <2>6. ReviewsOwnTree'
      <3>1. CASE patch' = patch
        BY <1>1, <2>3, <3>1, ReviewsKept
      <3>2. CASE PublishPatch(h)
        <4>1. job[h].tree \subseteq {job[h].task}
          BY <3>2 DEF PublishPatch, At, SerialInv, JobSerial, RunsOnOwnTree
        <4>2. /\ patch'[e].tree = job[h].tree
              /\ \A x \in Executions \ {e} : patch'[x] = patch[x]
          BY <2>1, <3>2 DEF PublishPatch, TypeInv, TypeOK
        <4> HIDE DEF e
        <4> QED
          BY <1>1, <2>1, <2>3, <4>1, <4>2 DEF ReviewsOwnTree
      <3> QED
        BY <1>4, <3>1, <3>2 DEF LaunchExecution, FailLaunch, BeginVerification,
           FailVerification
    <2> QED
      BY <1>1, <2>4, <2>5, <2>6 DEF EditsStayHome
  <1>5. CASE WriteToolCall(h)
    <2>1. git.head = job[h].task /\ UNCHANGED <<exec, patch>> /\ Return(h)
      BY <1>5 DEF WriteToolCall, SerialInv, JobSerial, OnOwnBranch, At
    <2>2. git'.head = git.head /\ git'.dirty = git.dirty \cup {job[h].task}
      BY <1>5 DEF WriteToolCall, TypeInv, TypeOK
    <2> QED
      BY <1>1, <2>1, <2>2, ReturnSerial, UnchangedRowsKept, ReviewsKept DEF EditsStayHome
  <1> QED
    BY <1>2, <1>3, <1>4, <1>5

(* A verification run runs its targets and collects the patch.              *)
LEMMA RunSerial ==
    ASSUME TypeInv, SerialInv, NEW h \in Handlers,
           \/ SelectTargets(h) \/ CollectPatch(h)
           \/ \E x \in Targets :
                StartTarget(h, x) \/ (\E passed \in BOOLEAN : FinishTarget(h, x, passed))
    PROVE  EditsStayHome' /\ ReviewsOwnTree' /\ JobSerial(h)'
  <1> USE DEF OwnBranchPoints, RunPoints, AdmittedPoints
  <1>1. UNCHANGED <<git, exec, patch>>
    BY DEF SelectTargets, CollectPatch, StartTarget, FinishTarget, rows
  <1>2. EditsStayHome' /\ ReviewsOwnTree'
    BY <1>1, UnchangedRowsKept, ReviewsKept DEF SerialInv, EditsStayHome
  <1>3. job[h] \in Job /\ job[h].tree \subseteq {job[h].task}
    BY DEF TypeInv, TypeOK, SelectTargets, CollectPatch, StartTarget, FinishTarget,
       At, SerialInv, JobSerial, RunsOnOwnTree
  <1>4. ASSUME job'[h].at \in {"begin", "next", "running", "publish"},
               job'[h].task = job[h].task, git.head = job[h].task,
               job'[h].tree \subseteq job[h].tree \cup WorkingTree
        PROVE  JobSerial(h)'
    <2>1. WorkingTree \subseteq {job[h].task}
      BY <1>4 DEF WorkingTree, SerialInv, EditsStayHome
    <2> QED
      BY <1>1, <1>3, <1>4, <2>1 DEF JobSerial, OnOwnBranch, RunsOnOwnTree, ReadsStand, At
  <1>5. CASE SelectTargets(h)
    <2> DEFINE targets == RunTargets(job[h].task, job[h].items)
    <2>1. \/ Return(h)
          \/ /\ git.head = job[h].task
             /\ job' = [job EXCEPT ![h].at = "begin", ![h].todo = targets,
                                   ![h].items = @ \ targets]
      BY <1>5 DEF SelectTargets
    <2> HIDE DEF targets
    <2>2. \/ Return(h)
          \/ /\ git.head = job[h].task /\ job'[h].at = "begin"
             /\ job'[h].task = job[h].task /\ job'[h].tree = job[h].tree
      BY <1>3, <2>1 DEF TypeInv, TypeOK, Job
    <2> QED
      BY <1>2, <1>4, <2>2, ReturnSerial
  <1>6. CASE CollectPatch(h)
    <2>1. /\ job'[h].at = "publish" /\ job'[h].task = job[h].task
          /\ job'[h].tree = job[h].tree \cup WorkingTree
      BY <1>3, <1>6 DEF CollectPatch, TypeInv, TypeOK, Job
    <2>2. git.head = job[h].task
      BY <1>6 DEF CollectPatch, At, SerialInv, JobSerial, OnOwnBranch
    <2> QED
      BY <1>2, <1>4, <2>1, <2>2
  <1>7. ASSUME NEW x \in Targets, StartTarget(h, x)
        PROVE  JobSerial(h)'
    <2>1. /\ job'[h].at = "running" /\ job'[h].task = job[h].task
          /\ job'[h].tree = job[h].tree
      BY <1>3, <1>7 DEF StartTarget, TypeInv, TypeOK, Job
    <2>2. git.head = job[h].task
      BY <1>7 DEF StartTarget, At, SerialInv, JobSerial, OnOwnBranch
    <2> QED
      BY <1>4, <2>1, <2>2
  <1>8. ASSUME NEW x \in Targets, NEW passed \in BOOLEAN, FinishTarget(h, x, passed)
        PROVE  JobSerial(h)'
    <2>1. /\ job'[h].at = "next" /\ job'[h].task = job[h].task
          /\ job'[h].tree = job[h].tree \cup WorkingTree
      BY <1>3, <1>8 DEF FinishTarget, TypeInv, TypeOK, Job
    <2>2. git.head = job[h].task
      BY <1>8 DEF FinishTarget, At, SerialInv, JobSerial, OnOwnBranch
    <2> QED
      BY <1>4, <2>1, <2>2
  <1> QED
    BY <1>2, <1>5, <1>6, <1>7, <1>8

(* With one handler, a short request finds nobody at work.                  *)
LEMMA OtherSerial ==
    ASSUME TypeInv, SerialInv, OneAtATime,
           ShortRequest \/ CommitEdits \/ Crash \/ UNCHANGED vars
    PROVE  SerialInv'
  <1>1. CASE ShortRequest
    <2>1. git' = git /\ job' = job
      BY <1>1 DEF ShortRequest, rows, ApprovePatch, RejectPatch, ExhaustRetries
    <2>2. \A h \in Handlers : job'[h].at = "idle"
      BY <1>1, <2>1 DEF ShortRequest, OneAtATime, At
    <2>3. ReviewsOwnTree'
      <3>1. CASE UNCHANGED rows
        BY <3>1, UnchangedRowsKept, ReviewsKept DEF rows, SerialInv
      <3>2. ASSUME NEW e \in Executions,
                   ApprovePatch(e) \/ RejectPatch(e) \/ ExhaustRetries(e)
            PROVE  ReviewsOwnTree'
        <4>1. exec[e].status # "absent"
          BY <3>2 DEF ApprovePatch, RejectPatch, ExhaustRetries, TypeInv, RowsPlaced
        <4>2. \E s \in ExecStatus \ {"absent"} : SetExec(e, s)
          BY <3>2 DEF ApprovePatch, RejectPatch, ExhaustRetries, ExecStatus
        <4>3. \A x \in Executions : patch'[x].status # "none" =>
                  patch[x].status # "none" /\ patch'[x].tree = patch[x].tree
          BY <3>2 DEF ApprovePatch, RejectPatch, ExhaustRetries, TypeInv, TypeOK
        <4> QED
          BY <4>1, <4>2, <4>3, SetExecStep, ReviewsKept DEF SerialInv
      <3> QED
        BY <1>1, <3>1, <3>2 DEF ShortRequest
    <2> QED
      BY <2>1, <2>2, <2>3, RestSerial DEF SerialInv, EditsStayHome
  <1>2. CASE CommitEdits \/ UNCHANGED vars
    <2>1. /\ UNCHANGED <<gateVars, exec, patch, job>> /\ git'.head = git.head
          /\ git'.dirty \subseteq git.dirty
      BY <1>2 DEF CommitEdits, vars, rows, TypeInv, TypeOK
    <2>2. ReviewsOwnTree' /\ EditsStayHome'
      BY <2>1, UnchangedRowsKept, ReviewsKept DEF SerialInv, EditsStayHome
    <2>3. ASSUME NEW h \in Handlers PROVE JobSerial(h)'
      <3>1. JobSerial(h)
        BY DEF SerialInv
      <3> QED
        BY <2>1, <3>1 DEF JobSerial, OnOwnBranch, RunsOnOwnTree, ReadsStand, At, gateVars
    <2> QED
      BY <2>2, <2>3 DEF SerialInv
  <1>3. CASE Crash
    <2>1. /\ UNCHANGED <<gateVars, git, exec, patch>>
          /\ \A h \in Handlers : job'[h] = Idle \/ job'[h] = job[h]
      BY <1>3 DEF Crash, rows
    <2>2. ReviewsOwnTree' /\ EditsStayHome'
      BY <2>1, UnchangedRowsKept, ReviewsKept DEF SerialInv, EditsStayHome
    <2>3. ASSUME NEW h \in Handlers PROVE JobSerial(h)'
      <3>1. CASE job'[h] = Idle
        BY <3>1, IdleTyped, RestSerial
      <3>2. CASE job'[h] = job[h]
        <4>1. JobSerial(h)
          BY DEF SerialInv
        <4> QED
          BY <2>1, <3>2, <4>1
             DEF JobSerial, OnOwnBranch, RunsOnOwnTree, ReadsStand, At, gateVars
      <3> QED
        BY <2>1, <3>1, <3>2
    <2> QED
      BY <2>2, <2>3 DEF SerialInv
  <1> QED
    BY <1>1, <1>2, <1>3

(* Every step of the one request under way keeps its task's things together.*)
LEMMA StepSerial ==
    ASSUME TypeInv, SerialInv, OneAtATime, [Next]_vars
    PROVE  SerialInv'
  <1>1. ASSUME NEW h \in Handlers, Arrive(h) \/ Continue(h) PROVE SerialInv'
    <2>1. EditsStayHome' /\ ReviewsOwnTree' /\ JobSerial(h)'
      <3>1. CASE \/ CheckGate(h) \/ SwitchBranch(h) \/ RecordBranch(h)
                 \/ AbandonBranch(h) \/ ReReadContext(h) \/ RecheckGate(h)
        BY <3>1, PrepareSerial
      <3>2. CASE \/ \E e \in Executions : EnqueueExecution(h, e) \/ LaunchHeadless(h, e)
                 \/ LaunchExecution(h) \/ FailLaunch(h) \/ WriteToolCall(h)
                 \/ BeginVerification(h) \/ FailVerification(h) \/ PublishPatch(h)
        BY <3>2, StatusSerial
      <3>3. CASE \/ SelectTargets(h) \/ CollectPatch(h)
                 \/ \E x \in Targets :
                      StartTarget(h, x)
                      \/ (\E passed \in BOOLEAN : FinishTarget(h, x, passed))
        BY <3>3, RunSerial
      <3>4. CASE Arrive(h)
        BY <3>4, ArriveSerial
      <3> QED
        BY <1>1, <3>1, <3>2, <3>3, <3>4 DEF Continue
    <2>2. \A g \in Handlers : g = h
      BY DEF OneAtATime
    <2> QED
      BY <2>1, <2>2 DEF SerialInv
  <1> QED
    BY <1>1, OtherSerial DEF Next, Step

LEMMA InitSerial == Init => SerialInv
  BY IdleTyped
     DEF Init, SerialInv, EditsStayHome, ReviewsOwnTree, JobSerial, OnOwnBranch,
         RunsOnOwnTree, ReadsStand, At, OwnBranchPoints, RunPoints, AdmittedPoints

(* The inductive invariant holds while requests are served one at a time.   *)
LEMMA SerialInvariance ==
    ASSUME OneAtATime
    PROVE  Spec => [](TypeInv /\ SerialInv)
  <1>1. TypeInv /\ SerialInv /\ [Next]_vars => SerialInv'
    BY StepSerial
  <1> QED
    BY <1>1, InitSerial, TypeInvariance, PTL DEF Spec

-----------------------------------------------------------------------------
(* Uncommitted edits lie in the tree only while their task's branch is      *)
(* checked out; see EditsStayHome.                                          *)
THEOREM SerialEdits ==
    ASSUME OneAtATime
    PROVE  Spec => []EditsStayHome
  <1>1. SerialInv => EditsStayHome
    BY DEF SerialInv
  <1> QED
    BY <1>1, SerialInvariance, PTL

(* A patch under review or approved was tested on its own task's branch and *)
(* edits; see TestedOnOwnBranch.                                            *)
THEOREM SerialPatches ==
    ASSUME OneAtATime
    PROVE  Spec => []TestedOnOwnBranch
  <1>1. SerialInv /\ PatchMirrorsExecution => TestedOnOwnBranch
    BY DEF SerialInv, ReviewsOwnTree, PatchMirrorsExecution, TestedOnOwnBranch
  <1> QED
    BY <1>1, SerialInvariance, PatchMirrors, PTL

(* The executor is let loose only while its task's branch is checked out;   *)
(* see LaunchedOnOwnBranch.                                                 *)
THEOREM SerialLaunches ==
    ASSUME OneAtATime
    PROVE  Spec => LaunchedOnOwnBranch
  <1>1. ASSUME TypeInv, SerialInv, [Next]_vars, NEW e \in Executions,
               exec[e].status # "implementing", exec'[e].status = "implementing"
        PROVE  git.head = exec'[e].task
    <2>1. PICK h \in Handlers :
              \/ /\ At(h, "launch") /\ job[h].exec = e /\ exec'[e].task = exec[e].task
              \/ /\ At(h, "headless") /\ exec'[e].task = job[h].task
      <3>1. CASE UNCHANGED vars \/ Crash \/ CommitEdits
        BY <1>1, <3>1 DEF vars, rows, Crash, CommitEdits
      <3>2. CASE ShortRequest
        BY <1>1, <3>2 DEF ShortRequest, rows, ApprovePatch, RejectPatch, ExhaustRetries,
           SetExec, TypeInv, TypeOK
      <3>3. ASSUME NEW h \in Handlers, Arrive(h) PROVE FALSE
        BY <1>1, <3>3 DEF Arrive, ReadContext, LeaveBranch, CheckToolCall,
           ReadRunContext, rows
      <3>4. ASSUME NEW h \in Handlers, Continue(h)
            PROVE  \/ LaunchExecution(h) \/ \E x \in Executions : LaunchHeadless(h, x)
        <4>1. CASE \/ CheckGate(h) \/ SwitchBranch(h) \/ RecordBranch(h)
                   \/ AbandonBranch(h) \/ ReReadContext(h) \/ RecheckGate(h)
                   \/ WriteToolCall(h) \/ SelectTargets(h) \/ CollectPatch(h)
                   \/ \E x \in Targets :
                        StartTarget(h, x)
                        \/ (\E passed \in BOOLEAN : FinishTarget(h, x, passed))
          BY <1>1, <4>1 DEF CheckGate, SwitchBranch, RecordBranch, AbandonBranch,
             ReReadContext, RecheckGate, WriteToolCall, SelectTargets, CollectPatch,
             StartTarget, FinishTarget, rows
        <4>2. CASE \/ FailLaunch(h) \/ BeginVerification(h) \/ FailVerification(h)
                   \/ PublishPatch(h)
          BY <1>1, <4>2 DEF FailLaunch, BeginVerification, FailVerification,
             PublishPatch, SetExec, TypeInv, TypeOK
        <4>3. ASSUME NEW x \in Executions, EnqueueExecution(h, x) PROVE FALSE
          BY <1>1, <4>3 DEF EnqueueExecution, TypeInv, TypeOK
        <4> QED
          BY <3>4, <4>1, <4>2, <4>3 DEF Continue
      <3>5. ASSUME NEW h \in Handlers, LaunchExecution(h)
            PROVE  At(h, "launch") /\ job[h].exec = e /\ exec'[e].task = exec[e].task
        BY <1>1, <3>5 DEF LaunchExecution, SetExec, TypeInv, TypeOK
      <3>6. ASSUME NEW h \in Handlers, NEW x \in Executions, LaunchHeadless(h, x)
            PROVE  At(h, "headless") /\ exec'[e].task = job[h].task
        BY <1>1, <3>6 DEF LaunchHeadless, TypeInv, TypeOK
      <3> QED
        BY <1>1, <3>1, <3>2, <3>3, <3>4, <3>5, <3>6 DEF Next, Step
    <2>2. job[h].at = "launch" => exec[job[h].exec].task = job[h].task
      BY <1>1 DEF TypeInv, JobsLinked, ExecPoints
    <2>3. job[h].at \in {"launch", "headless"} => git.head = job[h].task
      BY <1>1 DEF SerialInv, JobSerial, OnOwnBranch, OwnBranchPoints
    <2> QED
      BY <2>1, <2>2, <2>3 DEF At
  <1>2. TypeInv /\ SerialInv /\ [Next]_vars =>
            [\A e \in Executions :
                exec[e].status # "implementing" /\ exec'[e].status = "implementing" =>
                    git.head = exec'[e].task]_vars
    BY <1>1
  <1> QED
    BY <1>2, SerialInvariance, PTL DEF Spec, LaunchedOnOwnBranch

(* An execution comes into being only while its task is ready and its gate  *)
(* open; see AdmittedThroughGate.                                           *)
THEOREM SerialAdmissions ==
    ASSUME OneAtATime
    PROVE  Spec => AdmittedThroughGate
  <1>1. ASSUME TypeInv, SerialInv, [Next]_vars, NEW e \in Executions,
               exec[e].status = "absent", exec'[e].status # "absent"
        PROVE  LET t == exec'[e].task IN
               task[t] = "ready" /\ GateOpen(plan[t], validation[t])
    <2>1. PICK h \in Handlers :
              EnqueueExecution(h, e) \/ LaunchHeadless(h, e)
      <3>1. CASE UNCHANGED vars \/ Crash \/ CommitEdits
        BY <1>1, <3>1 DEF vars, rows, Crash, CommitEdits
      <3>2. CASE ShortRequest
        <4>1. ASSUME NEW x \in Executions,
                     ApprovePatch(x) \/ RejectPatch(x) \/ ExhaustRetries(x)
              PROVE  exec[x].status # "absent"
          BY <1>1, <4>1 DEF ApprovePatch, RejectPatch, ExhaustRetries, TypeInv, RowsPlaced
        <4> QED
          BY <1>1, <3>2, <4>1 DEF ShortRequest, rows, ApprovePatch, RejectPatch,
             ExhaustRetries, SetExec, TypeInv, TypeOK
      <3>3. ASSUME NEW h \in Handlers, Arrive(h) PROVE FALSE
        BY <1>1, <3>3 DEF Arrive, ReadContext, LeaveBranch, CheckToolCall,
           ReadRunContext, rows
      <3>4. ASSUME NEW h \in Handlers, Continue(h)
            PROVE  \E x \in Executions : EnqueueExecution(h, x) \/ LaunchHeadless(h, x)
        <4>1. CASE \/ CheckGate(h) \/ SwitchBranch(h) \/ RecordBranch(h)
                   \/ AbandonBranch(h) \/ ReReadContext(h) \/ RecheckGate(h)
                   \/ WriteToolCall(h) \/ SelectTargets(h) \/ CollectPatch(h)
                   \/ \E x \in Targets :
                        StartTarget(h, x)
                        \/ (\E passed \in BOOLEAN : FinishTarget(h, x, passed))
          BY <1>1, <4>1 DEF CheckGate, SwitchBranch, RecordBranch, AbandonBranch,
             ReReadContext, RecheckGate, WriteToolCall, SelectTargets, CollectPatch,
             StartTarget, FinishTarget, rows
        <4>2. CASE \/ LaunchExecution(h) \/ FailLaunch(h) \/ BeginVerification(h)
                   \/ FailVerification(h) \/ PublishPatch(h)
          <5>1. job[h].exec \in Executions /\ exec[job[h].exec].status # "absent"
            BY <1>1, <4>2 DEF LaunchExecution, FailLaunch, BeginVerification,
               FailVerification, PublishPatch, At, ExecPoints, TypeInv, JobsLinked
          <5> QED
            BY <1>1, <4>2, <5>1 DEF LaunchExecution, FailLaunch, BeginVerification,
               FailVerification, PublishPatch, SetExec, TypeInv, TypeOK
        <4> QED
          BY <3>4, <4>1, <4>2 DEF Continue
      <3>5. ASSUME NEW h \in Handlers, NEW x \in Executions,
                   EnqueueExecution(h, x) \/ LaunchHeadless(h, x)
            PROVE  x = e
        BY <1>1, <3>5 DEF EnqueueExecution, LaunchHeadless, TypeInv, TypeOK
      <3> QED
        BY <1>1, <3>1, <3>2, <3>3, <3>4, <3>5 DEF Next, Step
    <2>2. exec'[e].task = job[h].task /\ job[h].at \in {"enqueue", "headless"}
      BY <1>1, <2>1 DEF EnqueueExecution, LaunchHeadless, At, TypeInv, TypeOK
    <2>3. task[job[h].task] = "ready" /\ GateOpen(plan[job[h].task], validation[job[h].task])
      BY <1>1, <2>2 DEF SerialInv, JobSerial, ReadsStand, AdmittedPoints
    <2> QED
      BY <2>2, <2>3
  <1>2. TypeInv /\ SerialInv /\ [Next]_vars =>
            [\A e \in Executions :
                exec[e].status = "absent" /\ exec'[e].status # "absent" =>
                    LET t == exec'[e].task IN
                    task[t] = "ready" /\ GateOpen(plan[t], validation[t])]_vars
    BY <1>1
  <1> QED
    BY <1>2, SerialInvariance, PTL DEF Spec, AdmittedThroughGate
=============================================================================
