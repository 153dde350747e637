---------------------------- MODULE ApprovalGate ----------------------------
(***************************************************************************)
(* The verification contract of a task and the approvals that open the    *)
(* execution gate (packages/db/src/repositories: plannerRepository,        *)
(* approvalRepository, validationRepository, reviewArtifactRepository).    *)
(*                                                                         *)
(* A task owns at most one verification plan, the plan's items, and        *)
(* validations, some of which are linked to an item.  Each operation below *)
(* is one database transaction, so it is one step.                         *)
(***************************************************************************)
EXTENDS FiniteSets

CONSTANTS
    Tasks,        \* tasks of one project
    Items,        \* verification items of a task's plan
    Validations,  \* validation rows a task may own
    NoItem,       \* "not linked to an item"
    ItemOf        \* the item each validation is linked to, or NoItem

ASSUME GateAssumption ==
    /\ NoItem \notin Items
    /\ Items \cap Validations = {}
    /\ ItemOf \in [Validations -> Items \cup {NoItem}]

VARIABLES
    task,         \* Task.status
    plan,         \* VerificationPlan.status, "none" without a plan
    item,         \* VerificationItem.status per task and item
    validation    \* Validation.status per task and validation

gateVars == <<task, plan, item, validation>>

TaskStatus ==
    {"planned", "awaiting_verification_approval", "ready", "executing",
     "testing", "awaiting_patch_approval", "completed", "failed"}
PlanStatus == {"none", "proposed", "approved", "rejected"}
ItemStatus == {"absent", "proposed", "approved", "running", "green", "failed"}
ValidationStatus ==
    {"absent", "proposed", "approved", "rejected", "running", "passed", "failed"}

GateTypeOK ==
    /\ task \in [Tasks -> TaskStatus]
    /\ plan \in [Tasks -> PlanStatus]
    /\ item \in [Tasks -> [Items -> ItemStatus]]
    /\ validation \in [Tasks -> [Validations -> ValidationStatus]]

-----------------------------------------------------------------------------
(* A task comes from a planner proposal (a plan, its items and a validation *)
(* per item), from before validations existed (a plan and its items), or    *)
(* from a Jira import (validations only).                                   *)
GateInit ==
    \E origin \in [Tasks -> {"planner", "legacy", "jira"}] :
        /\ task = [t \in Tasks |-> "planned"]
        /\ plan = [t \in Tasks |->
                     IF origin[t] = "jira" THEN "none" ELSE "proposed"]
        /\ item = [t \in Tasks |-> [i \in Items |->
                     IF origin[t] = "jira" THEN "absent" ELSE "proposed"]]
        /\ validation = [t \in Tasks |-> [v \in Validations |->
                     IF (ItemOf[v] # NoItem /\ origin[t] = "planner")
                          \/ (ItemOf[v] = NoItem /\ origin[t] = "jira")
                     THEN "proposed" ELSE "absent"]]

-----------------------------------------------------------------------------
ValidationRows(vals) == {v \in Validations : vals[v] # "absent"}

AllApproved(vals) == \A v \in ValidationRows(vals) : vals[v] = "approved"

(* assertValidationAwareExecutionGate: validations decide when there are    *)
(* any, the plan otherwise.                                                 *)
GateOpen(planStatus, vals) ==
    IF ValidationRows(vals) # {} THEN AllApproved(vals)
                                 ELSE planStatus = "approved"

(* buildReadyTaskStatusUpdate, whose test is the gate's.  A task that       *)
(* qualifies becomes ready whatever it is doing now; one that does not is   *)
(* only moved when it is ready.                                             *)
ReadyTaskStatus(status, planStatus, vals) ==
    IF GateOpen(planStatus, vals) THEN "ready"
    ELSE IF status = "ready" THEN "awaiting_verification_approval" ELSE status

(* A granted planner run releases the planned tasks of its epics.  The      *)
(* tasks of a proposal belong to one run and those of a Jira import, which  *)
(* have no plan, to another.                                                *)
GrantPlannerRun(imported) ==
    /\ task' = [t \in Tasks |->
                  IF task[t] = "planned" /\ (plan[t] = "none" <=> imported)
                  THEN "awaiting_verification_approval" ELSE task[t]]
    /\ UNCHANGED <<plan, item, validation>>

ApproveItems(t) ==
    [i \in Items |-> IF item[t][i] = "proposed" THEN "approved" ELSE item[t][i]]

ApproveLinkedValidations(t) ==
    [v \in Validations |->
        IF validation[t][v] = "proposed" /\ ItemOf[v] # NoItem
        THEN "approved" ELSE validation[t][v]]

(* POST /tasks/:id/verification/approve, POST /approvals                    *)
GrantVerificationPlan(t) ==
    /\ plan[t] # "none"
    /\ plan' = [plan EXCEPT ![t] = "approved"]
    /\ item' = [item EXCEPT ![t] = ApproveItems(t)]
    /\ validation' = [validation EXCEPT ![t] = ApproveLinkedValidations(t)]
    /\ task' = [task EXCEPT ![t] =
                  ReadyTaskStatus(task[t], plan'[t], validation'[t])]

(* A rejected plan leaves the task's readiness alone.                       *)
RejectVerificationPlan(t) ==
    /\ plan[t] # "none"
    /\ plan' = [plan EXCEPT ![t] = "rejected"]
    /\ UNCHANGED <<task, item, validation>>

(* POST /review-artifacts/:id/approve on a verification plan: ready without *)
(* a look at the validations.  Its rejection is RejectVerificationPlan.     *)
GrantPlanReviewArtifact(t) ==
    /\ plan[t] # "none"
    /\ plan' = [plan EXCEPT ![t] = "approved"]
    /\ item' = [item EXCEPT ![t] = ApproveItems(t)]
    /\ task' = [task EXCEPT ![t] = "ready"]
    /\ UNCHANGED validation

(* decideValidation, and the review artifact of a validation                *)
DecideValidation(t, v, decision) ==
    /\ validation[t][v] # "absent"
    /\ validation' = [validation EXCEPT ![t][v] = decision]
    /\ task' = [task EXCEPT ![t] =
                  ReadyTaskStatus(task[t], plan[t], validation'[t])]
    /\ UNCHANGED <<plan, item>>

(* POST /tasks/:id/validations adds an unlinked row; readiness is not       *)
(* refreshed.                                                               *)
CreateValidation(t, v) ==
    /\ validation[t][v] = "absent"
    /\ ItemOf[v] = NoItem
    /\ validation' = [validation EXCEPT ![t][v] = "proposed"]
    /\ UNCHANGED <<task, plan, item>>

GateNext ==
    \/ \E imported \in BOOLEAN : GrantPlannerRun(imported)
    \/ \E t \in Tasks :
        \/ GrantVerificationPlan(t)
        \/ RejectVerificationPlan(t)
        \/ GrantPlanReviewArtifact(t)
        \/ \E v \in Validations :
            \/ \E decision \in {"approved", "rejected"} :
                    DecideValidation(t, v, decision)
            \/ CreateValidation(t, v)
=============================================================================
