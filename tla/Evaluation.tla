------------------------------ MODULE Evaluation ------------------------------
(***************************************************************************)
(* The scores of one evaluation of an execution and the decision taken on  *)
(* them (packages/evaluator/src: rule-based, hybrid, llm-judges, verdict   *)
(* and the middle of runEvaluation in service.ts).                         *)
(*                                                                         *)
(* A context is what runEvaluation reads of the execution: its runs, TRUE  *)
(* for an exit code of 0, the number of its failed agent steps, its tool   *)
(* calls, its retryCount, whether its latest plan is approved and whether  *)
(* its branch is the base branch.  What the judges answer is an input, a   *)
(* score for each of their dimensions; prompts and reasons are left out.   *)
(* The quotient in OutcomeRule is rounded as Math.round does it for fewer  *)
(* than 40 runs: above, a tie may come out one point lower.                *)
(***************************************************************************)
EXTENDS Integers, Sequences, FiniteSets

(* DIMENSION_THRESHOLDS                                                     *)
Threshold ==
    [outcome_correctness |-> 85, security_policy_compliance |-> 100,
     execution_quality |-> 75, tool_usage_quality |-> 70,
     verification_quality |-> 80, planner_quality |-> 75,
     task_decomposition |-> 75, regression_risk |-> 75]

EvalDimensions == DOMAIN Threshold

(* HARD_FAIL_DIMENSIONS, in the order of the results.                       *)
HardFail == <<"outcome_correctness", "security_policy_compliance",
              "verification_quality">>

(* The dimensions a judge scores, alone or with a rule.                     *)
Judged == {"outcome_correctness", "tool_usage_quality", "verification_quality",
           "planner_quality", "task_decomposition", "regression_risk"}

(* What judgeOutputSchema asks of a judge.                                  *)
JudgeScores == [Judged -> 0 .. 100]

(* EvalContext                                                              *)
McpCalls == [tool : STRING, arguments : Int, mutability : STRING,
             status : STRING, approved : BOOLEAN]
Contexts ==
    [runs : Seq(BOOLEAN), failedSteps : Nat, calls : Seq(McpCalls),
     retryCount : Nat, planApproved : BOOLEAN, onBase : BOOLEAN]

(* Math.round of n / d, and Math.max(0, n)                                  *)
HalfUp(n, d) == (2 * n + d) \div (2 * d)
NotNegative(n) == IF n < 0 THEN 0 ELSE n

(* 60% of a rule and 40% of a judge                                         *)
Hybrid(rule, judge) == HalfUp(6 * rule + 4 * judge, 10)

-----------------------------------------------------------------------------
(* evaluateOutcomeCorrectnessRule: the share of the runs that passed        *)
PassedRuns(runs) == {k \in DOMAIN runs : runs[k]}

OutcomeRule(runs) ==
    IF runs = <<>> THEN 0
    ELSE HalfUp(100 * Cardinality(PassedRuns(runs)), Len(runs))

(* evaluateOutcomeCorrectness                                               *)
OutcomeCorrectness(context, judges) ==
    Hybrid(OutcomeRule(context.runs), judges.outcome_correctness)

(* evaluateSecurityPolicyCompliance                                         *)
UnapprovedWrites(calls) ==
    {k \in DOMAIN calls : calls[k].mutability = "write" /\ ~calls[k].approved}

SecurityPolicyCompliance(context) ==
    IF UnapprovedWrites(context.calls) # {} THEN 0
    ELSE 100 - (IF context.planApproved THEN 0 ELSE 25)
             - (IF context.onBase THEN 25 ELSE 0)

(* The groups of alike among the chosen calls that hold more than limit.    *)
Repeated(chosen, KeyOf(_), limit) ==
    {KeyOf(j) : j \in {k \in chosen :
        Cardinality({i \in chosen : KeyOf(i) = KeyOf(k)}) > limit}}

FailedCalls(calls) == {k \in DOMAIN calls : calls[k].status = "failed"}

(* evaluateExecutionQuality                                                 *)
ExecutionQuality(context) ==
    LET SameCall(k) == <<context.calls[k].tool, context.calls[k].arguments>> IN
    NotNegative(100
        - 15 * context.failedSteps
        - 10 * Cardinality(Repeated(FailedCalls(context.calls), SameCall, 1))
        - 5 * context.retryCount)

(* evaluateToolUsageQualityRule                                             *)
ToolUsageRule(calls) ==
    LET SameCall(k) == <<calls[k].tool, calls[k].arguments>>
        SameTool(k) == calls[k].tool
        reads       == {k \in DOMAIN calls : calls[k].mutability = "read"} IN
    NotNegative(100
        - 25 * Cardinality({k \in UnapprovedWrites(calls) :
                              calls[k].status # "requested"})
        - 10 * Cardinality(Repeated(reads, SameCall, 3))
        - 15 * Cardinality(Repeated(FailedCalls(calls), SameTool, 2)))

(* evaluateToolUsageQuality: without a call the judge is not asked.         *)
ToolUsageQuality(context, judges) ==
    IF context.calls = <<>> THEN 0
    ELSE Hybrid(ToolUsageRule(context.calls), judges.tool_usage_quality)

(* evaluateVerificationQuality, evaluatePlannerQuality, evaluateTask-       *)
(* Decomposition and evaluateRegressionRisk: what the judge says.           *)
EvaluateVerificationQuality(judges) == judges.verification_quality
PlannerQuality(judges)      == judges.planner_quality
TaskDecomposition(judges)   == judges.task_decomposition
RegressionRisk(judges)      == judges.regression_risk

-----------------------------------------------------------------------------
(* dimensionVerdict                                                         *)
Verdict(score, threshold) ==
    CASE score >= threshold -> "pass"
      [] score < threshold /\ score >= 60 -> "warn"
      [] score < threshold /\ score < 60 -> "fail"

(* DIMENSION_WEIGHTS, twice each, as some are halves.                       *)
TotalWeight == 23
WeightedSum(score) ==
    4 * (score.outcome_correctness + score.security_policy_compliance
           + score.verification_quality)
    + 3 * score.regression_risk
    + 2 * (score.execution_quality + score.tool_usage_quality
             + score.planner_quality + score.task_decomposition)

(* computeAggregate                                                         *)
Failing(score) ==
    {k \in DOMAIN HardFail :
        Verdict(score[HardFail[k]], Threshold[HardFail[k]]) = "fail"}

Decision(aggregate, retryCount) ==
    CASE aggregate >= 80 -> "proceed"
      [] aggregate < 80 /\ aggregate >= 70 -> "warn"
      [] aggregate < 70 -> IF retryCount = 0 THEN "retry" ELSE "escalate"

ComputeAggregate(score, retryCount) ==
    LET aggregate == HalfUp(WeightedSum(score), TotalWeight) IN
    IF Failing(score) # {}
    THEN [score |-> score[HardFail[CHOOSE k \in Failing(score) :
                                     \A j \in Failing(score) : k <= j]],
          decision |-> "fail"]
    ELSE [score |-> aggregate, decision |-> Decision(aggregate, retryCount)]

(* runEvaluation, from the context to the decision                          *)
Scores(context, judges) ==
    [outcome_correctness        |-> OutcomeCorrectness(context, judges),
     security_policy_compliance |-> SecurityPolicyCompliance(context),
     execution_quality          |-> ExecutionQuality(context),
     verification_quality       |-> EvaluateVerificationQuality(judges),
     planner_quality            |-> PlannerQuality(judges),
     task_decomposition         |-> TaskDecomposition(judges),
     regression_risk            |-> RegressionRisk(judges),
     tool_usage_quality         |-> ToolUsageQuality(context, judges)]

RunEvaluation(context, judges) ==
    ComputeAggregate(Scores(context, judges), context.retryCount)

-----------------------------------------------------------------------------
(* How good a decision is.                                                  *)
Rank(decision) ==
    CASE decision = "fail" -> 0
      [] decision \in {"retry", "escalate"} -> 1
      [] decision = "warn" -> 2
      [] decision = "proceed" -> 3

(* Property: no answers of the judges make up for evidence that is not      *)
(* there.  Unless the decision is fail, the execution has runs and about a  *)
(* third of them passed, every write was approved, and its plan was         *)
(* approved or it stayed off the base branch (computeAggregate,             *)
(* packages/evaluator/src/verdict.ts:15, and the weights of outcome-        *)
(* correctness.ts).                                                         *)
EvidenceDecides(context, judges) ==
    RunEvaluation(context, judges).decision # "fail" =>
        /\ context.runs # <<>>
        /\ 40 * Cardinality(PassedRuns(context.runs)) >= 13 * Len(context.runs)
        /\ \A k \in DOMAIN context.calls :
              context.calls[k].mutability = "write" => context.calls[k].approved
        /\ context.planApproved \/ ~context.onBase

(* Property: a judge that thinks better of an execution never makes its     *)
(* decision worse, whichever dimension it scores and wherever the           *)
(* thresholds lie (packages/evaluator/src/verdict.ts:15).                   *)
BetterNeverWorse(context, low, high) ==
    (\A d \in Judged : low[d] <= high[d]) =>
        Rank(RunEvaluation(context, low).decision)
            <= Rank(RunEvaluation(context, high).decision)

(* Property: the thresholds and the weights fit together.  An execution     *)
(* that passes in every dimension proceeds                                  *)
(* (packages/evaluator/src/thresholds.ts:1, docs/data/state-model.md:70).   *)
PassingProceeds(context, judges) ==
    LET score == Scores(context, judges) IN
    (\A d \in EvalDimensions : Verdict(score[d], Threshold[d]) = "pass") =>
        RunEvaluation(context, judges).decision = "proceed"
=============================================================================
