--------------------------- MODULE AlgorithmProofs ---------------------------
(***************************************************************************)
(* Proofs about the pure functions of the repository, for every entry: the *)
(* scores and decisions of an evaluation (Evaluation), the setup of an MCP *)
(* server (McpSetup), the model registry and what it resolves              *)
(* (ModelResolution), the decomposition of a plan into items and tasks     *)
(* (Decomposition), the scores and comparisons of benchmark runs           *)
(* (Benchmarks), the order of a project's tasks (DependencyMap).           *)
(* The live view, one more of them, is proved about in EventProofs.        *)
(***************************************************************************)
EXTENDS Algorithms, FiniteSetTheorems, SequenceTheorems, WellFoundedInduction, TLAPS

(* A set of natural numbers that is not empty has a least element ...     *)
LEMMA FirstOf ==
    ASSUME NEW T \in SUBSET Nat, T # {}
    PROVE  \E x \in T : \A y \in T : x <= y
  <1> DEFINE R == OpToRel(<, Nat)
  <1>1. IsWellFoundedOn(R, Nat)
    BY NatLessThanWellFounded
  <1>2. PICK x \in T : \A y \in T : ~ (<<y, x>> \in R)
    <2> HIDE DEF R
    <2> QED
      BY <1>1, WFMin
  <1>3. \A y \in T : ~ (y < x)
    BY <1>2 DEF OpToRel
  <1> QED
    BY <1>3

(* ... and a set of positions in a sequence has a last one.               *)
LEMMA LastIn ==
    ASSUME NEW n \in Nat, NEW T \in SUBSET (1 .. n), T # {}
    PROVE  Max(T) \in T /\ \A y \in T : Max(T) >= y
  <1> DEFINE flipped == {x \in Nat : x <= n /\ n - x \in T}
  <1>1. PICK t \in T : TRUE
    OBVIOUS
  <1>2. n - t \in flipped
    <2>1. t \in 1 .. n /\ n - t \in Nat /\ n - t <= n /\ n - (n - t) = t
      BY <1>1
    <2> QED
      BY <1>1, <2>1
  <1>3. PICK x \in flipped : \A y \in flipped : x <= y
    <2> HIDE DEF flipped
    <2>1. flipped \in SUBSET Nat
      BY DEF flipped
    <2> QED
      BY <1>2, <2>1, FirstOf
  <1>4. \A y \in T : n - x >= y
    <2> TAKE y \in T
    <2>1. y \in 1 .. n /\ n - y \in Nat /\ n - y <= n /\ n - (n - y) = y
      OBVIOUS
    <2>2. n - y \in flipped
      BY <2>1
    <2>3. x <= n - y
      BY <1>3, <2>2
    <2> QED
      BY <1>3, <2>1, <2>3
  <1>5. n - x \in T
    BY <1>3
  <1> QED
    BY <1>4, <1>5 DEF Max

(* Of any subsets of a finite set, one has none of the others within.     *)
LEMMA SmallestSets ==
    ASSUME NEW S, IsFiniteSet(S)
    PROVE  \A T \in SUBSET (SUBSET S) : T # {} =>
               \E s \in T : \A r \in T : r \subseteq s => r = s
  <1> TAKE T \in SUBSET (SUBSET S)
  <1> HAVE T # {}
  <1> DEFINE sizes == {Cardinality(s) : s \in T}
  <1>1. \A s \in T : IsFiniteSet(s) /\ Cardinality(s) \in Nat
    BY FS_Subset, FS_CardinalityType
  <1>2. PICK x \in sizes : \A y \in sizes : x <= y
    <2>1. sizes \in SUBSET Nat /\ sizes # {}
      BY <1>1
    <2> HIDE DEF sizes
    <2> QED
      BY <2>1, FirstOf
  <1>3. PICK s \in T : x = Cardinality(s)
    BY <1>2
  <1>4. \A r \in T : r \subseteq s => r = s
    <2> TAKE r \in T
    <2> HAVE r \subseteq s
    <2>1. Cardinality(s) <= Cardinality(r)
      BY <1>2, <1>3
    <2>2. /\ Cardinality(r) <= Cardinality(s)
          /\ Cardinality(r) = Cardinality(s) => r = s
      BY <1>1, FS_Subset
    <2>3. Cardinality(r) \in Nat /\ Cardinality(s) \in Nat
      BY <1>1
    <2> QED
      BY <2>1, <2>2, <2>3
  <1> QED
    BY <1>4

(* The last of a list's positions is the greatest, and of any sets of its  *)
(* positions one has none of the others within.                           *)
LEMMA LastOfPositions ==
    ASSUME NEW n \in Nat
    PROVE  /\ \A s \in SUBSET (1 .. n) : s # {} => Max(s) \in s
           /\ \A k \in 1 .. n : Max(1 .. k) = k
           /\ \A T \in SUBSET (SUBSET (1 .. n)) : T # {} =>
                \E s \in T : \A r \in T : r \subseteq s => r = s
  <1>3. ASSUME NEW k \in 1 .. n
        PROVE  Max(1 .. k) = k
    <2>1. 1 .. k \in SUBSET (1 .. n) /\ 1 .. k # {} /\ k \in 1 .. k
      OBVIOUS
    <2>2. Max(1 .. k) \in 1 .. k /\ Max(1 .. k) >= k
      BY <2>1, LastIn
    <2> QED
      BY <2>2
  <1>4. IsFiniteSet(1 .. n)
    BY FS_Interval
  <1>5. \A T \in SUBSET (SUBSET (1 .. n)) : T # {} =>
          \E s \in T : \A r \in T : r \subseteq s => r = s
    <2> DEFINE Smallest(S) == \A T \in SUBSET (SUBSET S) : T # {} =>
                                \E s \in T : \A r \in T : r \subseteq s => r = s
    <2>1. \A S : IsFiniteSet(S) => Smallest(S)
      BY SmallestSets, Zenon
    <2>2. Smallest(1 .. n)
      <3> HIDE DEF Smallest
      <3> QED
        BY <1>4, <2>1
    <2> QED
      BY <2>2, Zenon
  <1> QED
    BY LastIn, <1>3, <1>5

-----------------------------------------------------------------------------
(* Evaluation                                                              *)

(* Rounding gives the integer next to the quotient.                       *)
LEMMA RoundedTen ==
    ASSUME NEW n \in Int
    PROVE  /\ HalfUp(n, 10) \in Int
           /\ 20 * HalfUp(n, 10) <= 2 * n + 10
           /\ 2 * n + 10 < 20 * HalfUp(n, 10) + 20
    BY DEF HalfUp

LEMMA RoundedTotal ==
    ASSUME NEW n \in Int
    PROVE  /\ HalfUp(n, TotalWeight) \in Int
           /\ 46 * HalfUp(n, TotalWeight) <= 2 * n + 23
           /\ 2 * n + 23 < 46 * HalfUp(n, TotalWeight) + 46
    BY DEF HalfUp, TotalWeight

LEMMA QuotientBelow ==
    ASSUME NEW a \in Nat, NEW b \in Nat, b > 0
    PROVE  a \div b \in Int /\ b * (a \div b) <= a
    BY Z3

LEMMA RoundedShare ==
    ASSUME NEW n \in Nat, NEW d \in Nat, d > 0
    PROVE  /\ HalfUp(n, d) \in Int
           /\ (2 * d) * HalfUp(n, d) <= 2 * n + d
  <1>1. 2 * n + d \in Nat /\ 2 * d \in Nat /\ 2 * d > 0
    OBVIOUS
  <1> QED
    BY <1>1, QuotientBelow DEF HalfUp

LEMMA PassedRunsCounted ==
    ASSUME NEW runs \in Seq(BOOLEAN)
    PROVE  /\ Cardinality(PassedRuns(runs)) \in Nat
           /\ Cardinality(PassedRuns(runs)) <= Len(runs)
  <1>1. IsFiniteSet(1 .. Len(runs)) /\ Cardinality(1 .. Len(runs)) = Len(runs)
    <2>1. Len(runs) \in Nat
      OBVIOUS
    <2>2. /\ IsFiniteSet(1 .. Len(runs))
          /\ Cardinality(1 .. Len(runs))
               = IF 1 > Len(runs) THEN 0 ELSE Len(runs) - 1 + 1
      BY <2>1, FS_Interval
    <2> QED
      BY <2>1, <2>2
  <1>2. PassedRuns(runs) \subseteq 1 .. Len(runs)
    BY DEF PassedRuns
  <1> QED
    BY <1>1, <1>2, FS_Subset, FS_CardinalityType

(* The three dimensions that must not fail are those below 60.            *)
LEMMA FailingIsBelow ==
    ASSUME NEW score, score.outcome_correctness \in Int,
           score.security_policy_compliance \in Int,
           score.verification_quality \in Int
    PROVE  Failing(score) = {} <=>
             /\ score.outcome_correctness >= 60
             /\ score.security_policy_compliance >= 60
             /\ score.verification_quality >= 60
  <1>1. DOMAIN HardFail = 1 .. 3
    BY DEF HardFail
  <1>2. /\ Verdict(score.outcome_correctness, 85) = "fail"
             <=> score.outcome_correctness < 60
        /\ Verdict(score.security_policy_compliance, 100) = "fail"
             <=> score.security_policy_compliance < 60
        /\ Verdict(score.verification_quality, 80) = "fail"
             <=> score.verification_quality < 60
    BY DEF Verdict
  <1>3. \A k \in 1 .. 3 : k \in Failing(score) <=>
            Verdict(score[HardFail[k]], Threshold[HardFail[k]]) = "fail"
    BY <1>1 DEF Failing
  <1>4. /\ HardFail[1] = "outcome_correctness"
        /\ HardFail[2] = "security_policy_compliance"
        /\ HardFail[3] = "verification_quality"
        /\ Threshold["outcome_correctness"] = 85
        /\ Threshold["security_policy_compliance"] = 100
        /\ Threshold["verification_quality"] = 80
    BY DEF HardFail, Threshold
  <1>5. Failing(score) \subseteq 1 .. 3
    BY <1>1 DEF Failing
  <1>6. Failing(score) = {} <=>
          1 \notin Failing(score) /\ 2 \notin Failing(score) /\ 3 \notin Failing(score)
    BY <1>5
  <1> QED
    BY <1>2, <1>3, <1>4, <1>6

-----------------------------------------------------------------------------
(* The scores of the rules are numbers                                    *)

LEMMA CallsFinite ==
    ASSUME NEW calls \in Seq(McpCalls), NEW S \in SUBSET DOMAIN calls
    PROVE  IsFiniteSet(S) /\ Cardinality(S) \in Nat
  <1>1. Len(calls) \in Nat /\ DOMAIN calls = 1 .. Len(calls)
    OBVIOUS
  <1>2. IsFiniteSet(1 .. Len(calls))
    BY <1>1, FS_Interval
  <1> QED
    BY <1>1, <1>2, FS_Subset, FS_CardinalityType

LEMMA ImageFinite ==
    ASSUME NEW S, IsFiniteSet(S), NEW f, f = [x \in S |-> f[x]]
    PROVE  Cardinality({f[x] : x \in S}) \in Nat
  <1>1. f \in Surjection(S, {f[x] : x \in S})
    BY DEF Surjection
  <1> QED
    BY <1>1, FS_Surjection, FS_CardinalityType

LEMMA ExecutionQualityType ==
    ASSUME NEW context \in Contexts
    PROVE  ExecutionQuality(context) \in Nat
  <1> DEFINE calls == context.calls
             failed == FailedCalls(calls)
             KeyOf(k) == <<calls[k].tool, calls[k].arguments>>
             S == {k \in failed : Cardinality({i \in failed : KeyOf(i) = KeyOf(k)}) > 1}
             f == [k \in S |-> KeyOf(k)]
  <1>1. calls \in Seq(McpCalls) /\ context.failedSteps \in Nat /\ context.retryCount \in Nat
    BY DEF Contexts
  <1>2. S \subseteq DOMAIN calls
    BY DEF FailedCalls
  <1>3. IsFiniteSet(S)
    <2> HIDE DEF S, calls
    <2> QED
      BY <1>1, <1>2, CallsFinite
  <1>4. f = [x \in S |-> f[x]]
    <2> HIDE DEF S
    <2> QED
      OBVIOUS
  <1>5. Cardinality({f[x] : x \in S}) \in Nat
    <2> HIDE DEF S, f
    <2> QED
      BY <1>3, <1>4, ImageFinite
  <1>6. {f[x] : x \in S} = {KeyOf(x) : x \in S}
    <2> HIDE DEF S, KeyOf
    <2> QED
      OBVIOUS
  <1>7. ExecutionQuality(context) =
          NotNegative(100 - 15 * context.failedSteps
                          - 10 * Cardinality({KeyOf(x) : x \in S})
                          - 5 * context.retryCount)
    BY DEF ExecutionQuality, Repeated
  <1> DEFINE c == Cardinality({KeyOf(x) : x \in S})
  <1>8. c \in Nat
    BY <1>5, <1>6
  <1> HIDE DEF c
  <1>9. NotNegative(100 - 15 * context.failedSteps - 10 * c - 5 * context.retryCount) \in Nat
    BY <1>1, <1>8 DEF NotNegative
  <1> QED
    BY <1>7, <1>9 DEF c

LEMMA ToolUsageRuleType ==
    ASSUME NEW calls \in Seq(McpCalls)
    PROVE  ToolUsageRule(calls) \in Nat
  <1> DEFINE SameCall(k) == <<calls[k].tool, calls[k].arguments>>
             SameTool(k) == calls[k].tool
             reads == {k \in DOMAIN calls : calls[k].mutability = "read"}
             failed == FailedCalls(calls)
             U == {k \in UnapprovedWrites(calls) : calls[k].status # "requested"}
             S == {k \in reads : Cardinality({i \in reads : SameCall(i) = SameCall(k)}) > 3}
             T == {k \in failed : Cardinality({i \in failed : SameTool(i) = SameTool(k)}) > 2}
             f == [k \in S |-> SameCall(k)]
             g == [k \in T |-> SameTool(k)]
  <1>1. /\ U \subseteq DOMAIN calls /\ S \subseteq DOMAIN calls
        /\ T \subseteq DOMAIN calls
    BY DEF FailedCalls, UnapprovedWrites
  <1>2. IsFiniteSet(S) /\ IsFiniteSet(T) /\ Cardinality(U) \in Nat
    <2> HIDE DEF S, T, U
    <2> QED
      BY <1>1, CallsFinite
  <1>3. f = [x \in S |-> f[x]] /\ g = [x \in T |-> g[x]]
    <2> HIDE DEF S, T
    <2> QED
      OBVIOUS
  <1>4. /\ Cardinality({f[x] : x \in S}) \in Nat
        /\ Cardinality({g[x] : x \in T}) \in Nat
    <2> HIDE DEF S, T, f, g
    <2> QED
      BY <1>2, <1>3, ImageFinite
  <1>5. /\ {f[x] : x \in S} = {SameCall(x) : x \in S}
        /\ {g[x] : x \in T} = {SameTool(x) : x \in T}
    <2> HIDE DEF S, T, SameCall, SameTool
    <2> QED
      OBVIOUS
  <1>6. ToolUsageRule(calls) =
          NotNegative(100 - 25 * Cardinality(U)
                          - 10 * Cardinality({SameCall(x) : x \in S})
                          - 15 * Cardinality({SameTool(x) : x \in T}))
    BY DEF ToolUsageRule, Repeated
  <1> DEFINE a == Cardinality(U)
             b == Cardinality({SameCall(x) : x \in S})
             c == Cardinality({SameTool(x) : x \in T})
  <1>7. a \in Nat /\ b \in Nat /\ c \in Nat
    BY <1>2, <1>4, <1>5
  <1> HIDE DEF a, b, c
  <1>8. NotNegative(100 - 25 * a - 10 * b - 15 * c) \in Nat
    BY <1>7 DEF NotNegative
  <1> QED
    BY <1>6, <1>8 DEF a, b, c

LEMMA OutcomeRuleType ==
    ASSUME NEW runs \in Seq(BOOLEAN)
    PROVE  /\ OutcomeRule(runs) \in Int
           /\ OutcomeRule(runs) >= 33 =>
                /\ runs # <<>>
                /\ 40 * Cardinality(PassedRuns(runs)) >= 13 * Len(runs)
  <1> DEFINE p == Cardinality(PassedRuns(runs))
             d == Len(runs)
             r == HalfUp(100 * p, d)
  <1>1. p \in Nat
    BY PassedRunsCounted
  <1>2. CASE runs = <<>>
    BY <1>2 DEF OutcomeRule
  <1>3. CASE runs # <<>>
    <2>1. d \in Nat /\ d > 0
      BY <1>3
    <2>2. OutcomeRule(runs) = r
      BY <1>3 DEF OutcomeRule
    <2>3. 100 * p \in Nat
      BY <1>1
    <2> HIDE DEF p, d
    <2>4. r \in Int /\ (2 * d) * r <= 2 * (100 * p) + d
      BY <2>1, <2>3, RoundedShare
    <2> HIDE DEF r
    <2>5. ASSUME r >= 33
          PROVE  40 * p >= 13 * d
      <3>1. (2 * d) * r >= (2 * d) * 33
        BY <2>1, <2>4, <2>5
      <3> QED
        BY <1>1, <2>1, <2>4, <3>1
    <2> QED
      BY <1>3, <2>2, <2>4, <2>5 DEF p, d
  <1> QED
    BY <1>2, <1>3

LEMMA SecurityType ==
    ASSUME NEW context \in Contexts
    PROVE  /\ SecurityPolicyCompliance(context) \in Int
           /\ SecurityPolicyCompliance(context) >= 60 =>
                /\ UnapprovedWrites(context.calls) = {}
                /\ context.planApproved \/ ~context.onBase
  <1>1. context.planApproved \in BOOLEAN /\ context.onBase \in BOOLEAN
    BY DEF Contexts
  <1> QED
    BY <1>1 DEF SecurityPolicyCompliance

LEMMA HybridType ==
    ASSUME NEW rule \in Int, NEW judge \in Int
    PROVE  Hybrid(rule, judge) \in Int
  <1>1. 6 * rule + 4 * judge \in Int
    OBVIOUS
  <1> QED
    BY <1>1, RoundedTen DEF Hybrid

(* A hybrid score follows its judge.                                      *)
LEMMA HybridFollows ==
    ASSUME NEW rule \in Int, NEW low \in Int, NEW high \in Int, low <= high
    PROVE  /\ Hybrid(rule, low) \in Int /\ Hybrid(rule, high) \in Int
           /\ Hybrid(rule, low) <= Hybrid(rule, high)
  <1> DEFINE a == 6 * rule + 4 * low
             b == 6 * rule + 4 * high
  <1>1. a \in Int /\ b \in Int /\ a <= b
    OBVIOUS
  <1> HIDE DEF a, b
  <1>2. HalfUp(a, 10) \in Int /\ HalfUp(b, 10) \in Int /\ HalfUp(a, 10) <= HalfUp(b, 10)
    BY <1>1, RoundedTen
  <1> QED
    BY <1>2 DEF Hybrid, a, b

LEMMA ScoresType ==
    ASSUME NEW context \in Contexts, NEW judges \in JudgeScores
    PROVE  \A d \in EvalDimensions : Scores(context, judges)[d] \in Int
  <1>1. /\ context.runs \in Seq(BOOLEAN) /\ context.calls \in Seq(McpCalls)
    BY DEF Contexts
  <1>2. \A d \in Judged : judges[d] \in Int
    BY DEF JudgeScores
  <1>3. OutcomeCorrectness(context, judges) \in Int
    BY <1>1, <1>2, OutcomeRuleType, HybridType DEF OutcomeCorrectness, Judged
  <1>4. ToolUsageQuality(context, judges) \in Int
    <2>1. judges.tool_usage_quality \in Int
      BY <1>2 DEF Judged
    <2>2. ToolUsageRule(context.calls) \in Int
      BY <1>1, ToolUsageRuleType
    <2>3. Hybrid(ToolUsageRule(context.calls), judges.tool_usage_quality) \in Int
      BY <2>1, <2>2, HybridType
    <2> QED
      BY <2>3 DEF ToolUsageQuality
  <1>5. ExecutionQuality(context) \in Int
    BY ExecutionQualityType
  <1>6. SecurityPolicyCompliance(context) \in Int
    BY SecurityType
  <1> QED
    BY <1>2, <1>3, <1>4, <1>5, <1>6 DEF Scores, EvalDimensions, Threshold, Judged,
       EvaluateVerificationQuality, PlannerQuality, TaskDecomposition, RegressionRisk

-----------------------------------------------------------------------------
(* The decision                                                           *)

(* No answers of the judges make up for evidence that is not there.       *)
THEOREM JudgesCannotOverrule ==
    ASSUME NEW context \in Contexts, NEW judges \in JudgeScores
    PROVE  EvidenceDecides(context, judges)
  <1> DEFINE score == Scores(context, judges)
             rule == OutcomeRule(context.runs)
             judge == judges.outcome_correctness
  <1>1. /\ context.runs \in Seq(BOOLEAN) /\ context.calls \in Seq(McpCalls)
        /\ judge \in 0 .. 100
    BY DEF Contexts, JudgeScores, Judged
  <1> SUFFICES ASSUME RunEvaluation(context, judges).decision # "fail"
               PROVE  /\ context.runs # <<>>
                      /\ 40 * Cardinality(PassedRuns(context.runs))
                            >= 13 * Len(context.runs)
                      /\ UnapprovedWrites(context.calls) = {}
                      /\ context.planApproved \/ ~context.onBase
    <2>1. UnapprovedWrites(context.calls) = {} =>
            \A k \in DOMAIN context.calls :
              context.calls[k].mutability = "write" => context.calls[k].approved
      BY DEF UnapprovedWrites
    <2> QED
      BY <2>1 DEF EvidenceDecides
  <1>2. Failing(score) = {}
    BY DEF RunEvaluation, ComputeAggregate
  <1>3. /\ score.outcome_correctness \in Int
        /\ score.security_policy_compliance \in Int
        /\ score.verification_quality \in Int
    <2> HIDE DEF score
    <2>1. \A d \in EvalDimensions : score[d] \in Int
      BY ScoresType DEF score
    <2> QED
      BY <2>1 DEF EvalDimensions, Threshold
  <1>4. /\ score.outcome_correctness >= 60
        /\ score.security_policy_compliance >= 60
    <2> HIDE DEF score
    <2> QED
      BY <1>2, <1>3, FailingIsBelow
  <1>5. SecurityPolicyCompliance(context) >= 60 /\ Hybrid(rule, judge) >= 60
    BY <1>4 DEF Scores, OutcomeCorrectness
  <1>6. rule \in Int
    BY <1>1, OutcomeRuleType
  <1>7. rule >= 33
    <2> HIDE DEF rule, judge
    <2> DEFINE n == 6 * rule + 4 * judge
    <2>1. n \in Int
      BY <1>1, <1>6
    <2>2. 20 * HalfUp(n, 10) <= 2 * n + 10 /\ HalfUp(n, 10) >= 60 /\ HalfUp(n, 10) \in Int
      BY <1>5, <2>1, RoundedTen DEF Hybrid
    <2> QED
      BY <1>1, <1>6, <2>2
  <1> QED
    BY <1>1, <1>5, <1>7, OutcomeRuleType, SecurityType

(* Better scores, no worse a decision.                                    *)
LEMMA DecisionFollows ==
    ASSUME NEW low, NEW high, NEW retryCount \in Nat,
           \A d \in EvalDimensions :
              low[d] \in Int /\ high[d] \in Int /\ low[d] <= high[d]
    PROVE  Rank(ComputeAggregate(low, retryCount).decision)
             <= Rank(ComputeAggregate(high, retryCount).decision)
  <1> DEFINE a == HalfUp(WeightedSum(low), TotalWeight)
             b == HalfUp(WeightedSum(high), TotalWeight)
  <1>1. /\ WeightedSum(low) \in Int /\ WeightedSum(high) \in Int
        /\ WeightedSum(low) <= WeightedSum(high)
    BY DEF WeightedSum, EvalDimensions, Threshold
  <1>2. a \in Int /\ b \in Int /\ a <= b
    <2> DEFINE m == WeightedSum(low)
               n == WeightedSum(high)
    <2> HIDE DEF m, n
    <2>1. HalfUp(m, TotalWeight) <= HalfUp(n, TotalWeight)
      BY <1>1, RoundedTotal DEF m, n
    <2> QED
      BY <1>1, <2>1, RoundedTotal DEF m, n
  <1>3. Failing(low) = {} => Failing(high) = {}
    BY FailingIsBelow DEF EvalDimensions, Threshold
  <1> HIDE DEF a, b
  <1>4. Rank(Decision(a, retryCount)) <= Rank(Decision(b, retryCount))
    BY <1>2 DEF Rank, Decision
  <1>5. Rank(Decision(b, retryCount)) >= 1
    BY <1>2 DEF Rank, Decision
  <1>6. Rank("fail") = 0 /\ Rank(Decision(b, retryCount)) \in Int
    BY <1>2 DEF Rank, Decision
  <1>7. ComputeAggregate(low, retryCount).decision
          = IF Failing(low) # {} THEN "fail" ELSE Decision(a, retryCount)
    BY DEF ComputeAggregate, a
  <1>8. ComputeAggregate(high, retryCount).decision
          = IF Failing(high) # {} THEN "fail" ELSE Decision(b, retryCount)
    BY DEF ComputeAggregate, b
  <1> QED
    BY <1>3, <1>4, <1>5, <1>6, <1>7, <1>8

(* A judge that thinks better of an execution never makes its decision    *)
(* worse.                                                                 *)
THEOREM JudgesAreMonotone ==
    ASSUME NEW context \in Contexts, NEW low \in JudgeScores, NEW high \in JudgeScores
    PROVE  BetterNeverWorse(context, low, high)
  <1> SUFFICES ASSUME \A d \in Judged : low[d] <= high[d]
               PROVE  Rank(RunEvaluation(context, low).decision)
                        <= Rank(RunEvaluation(context, high).decision)
    BY DEF BetterNeverWorse
  <1> DEFINE s == Scores(context, low)
             t == Scores(context, high)
  <1>1. /\ context.runs \in Seq(BOOLEAN) /\ context.calls \in Seq(McpCalls)
        /\ context.retryCount \in Nat
    BY DEF Contexts
  <1>2. \A d \in Judged : low[d] \in Int /\ high[d] \in Int
    BY DEF JudgeScores
  <1>3. \A d \in EvalDimensions : s[d] \in Int /\ t[d] \in Int
    BY ScoresType
  <1>4. OutcomeCorrectness(context, low) <= OutcomeCorrectness(context, high)
    BY <1>1, <1>2, OutcomeRuleType, HybridFollows DEF OutcomeCorrectness, Judged
  <1>5. ToolUsageQuality(context, low) <= ToolUsageQuality(context, high)
    <2>1. ToolUsageRule(context.calls) \in Int
      BY <1>1, ToolUsageRuleType
    <2>2. /\ low.tool_usage_quality \in Int /\ high.tool_usage_quality \in Int
          /\ low.tool_usage_quality <= high.tool_usage_quality
      BY <1>2 DEF Judged
    <2>3. Hybrid(ToolUsageRule(context.calls), low.tool_usage_quality)
            <= Hybrid(ToolUsageRule(context.calls), high.tool_usage_quality)
      BY <2>1, <2>2, HybridFollows
    <2> QED
      BY <2>3 DEF ToolUsageQuality
  <1>6. \A d \in EvalDimensions : s[d] <= t[d]
    BY <1>2, <1>3, <1>4, <1>5 DEF Scores, EvalDimensions, Threshold, Judged,
       EvaluateVerificationQuality, PlannerQuality, TaskDecomposition, RegressionRisk
  <1> HIDE DEF s, t
  <1>7. Rank(ComputeAggregate(s, context.retryCount).decision)
          <= Rank(ComputeAggregate(t, context.retryCount).decision)
    BY <1>1, <1>3, <1>6, DecisionFollows
  <1> QED
    BY <1>7 DEF s, t, RunEvaluation

(* An execution that passes in every dimension proceeds.                  *)
THEOREM ThresholdsSuffice ==
    ASSUME NEW context \in Contexts, NEW judges \in JudgeScores
    PROVE  PassingProceeds(context, judges)
  <1> DEFINE s == Scores(context, judges)
  <1>1. \A d \in EvalDimensions : s[d] \in Int
    BY ScoresType
  <1> HIDE DEF s
  <1> SUFFICES ASSUME \A d \in EvalDimensions : Verdict(s[d], Threshold[d]) = "pass"
               PROVE  ComputeAggregate(s, context.retryCount).decision = "proceed"
    BY DEF PassingProceeds, RunEvaluation, s
  <1>2. \A d \in EvalDimensions : s[d] >= Threshold[d]
    <2>1. \A d \in EvalDimensions : Threshold[d] \in Int
      BY DEF EvalDimensions, Threshold
    <2> QED
      BY <1>1, <2>1 DEF Verdict
  <1>3. Failing(s) = {}
    BY <1>1, <1>2, FailingIsBelow DEF EvalDimensions, Threshold
  <1>4. WeightedSum(s) \in Int /\ WeightedSum(s) >= 1875
    BY <1>1, <1>2 DEF WeightedSum, EvalDimensions, Threshold
  <1>5. HalfUp(WeightedSum(s), TotalWeight) >= 80
    <2> DEFINE n == WeightedSum(s)
    <2> HIDE DEF n
    <2> QED
      BY <1>4, RoundedTotal DEF n
  <1> QED
    BY <1>3, <1>4, <1>5, RoundedTotal DEF ComputeAggregate, Decision

-----------------------------------------------------------------------------
(* Setting up an MCP server                                               *)

(* A row is a record of these fields, its tools a function.               *)
IsRow(row) ==
    /\ row = [status |-> row.status, auth |-> row.auth,
              credential |-> row.credential, config |-> row.config,
              tools |-> row.tools]
    /\ IsTable(row.tools)

(* The row has no tool that its definition does not name.                 *)
Known(row, definition) ==
    row = Absent \/ DOMAIN row.tools \subseteq DOMAIN definition.tools

(* The row that a setup leaves when it writes.                            *)
LEMMA PersistedRow ==
    ASSUME NEW row, row = Absent \/ IsRow(row), NEW definition,
           IsTable(definition.tools), NEW activate \in BOOLEAN
    PROVE  LET payload == Payload(definition, activate)
               after == Persist(row, payload) IN
           /\ IsRow(after)
           /\ after.status = payload.status /\ after.auth = payload.auth
           /\ after.config = payload.config
           /\ after.credential = Resolve(payload.needs)
           /\ Known(row, definition) <=> after.tools = payload.tools
  <1> DEFINE payload == Payload(definition, activate)
             after == Persist(row, payload)
             old == row.tools
             new == definition.tools
  <1>1. payload.tools = new
    BY DEF Payload
  <1>2. after = [status |-> payload.status, auth |-> payload.auth,
                 credential |-> Resolve(payload.needs), config |-> payload.config,
                 tools |-> UpsertTools(row, new)]
    BY <1>1 DEF Persist, Upsert
  <1>3. IsTable(UpsertTools(row, new))
    BY DEF UpsertTools, IsTable
  <1>4. Known(row, definition) <=> UpsertTools(row, new) = new
    <2>1. CASE row = Absent
      BY <2>1 DEF UpsertTools, Known
    <2>2. CASE row # Absent
      <3>1. UpsertTools(row, new) =
              [name \in DOMAIN old \cup DOMAIN new |->
                 IF name \in DOMAIN new THEN new[name] ELSE old[name]]
        BY <2>2 DEF UpsertTools
      <3>2. Known(row, definition) <=> DOMAIN old \subseteq DOMAIN new
        BY <2>2 DEF Known
      <3>3. new = [x \in DOMAIN new |-> new[x]]
        BY DEF IsTable
      <3> HIDE DEF old, new
      <3>4. ASSUME DOMAIN old \subseteq DOMAIN new
            PROVE  UpsertTools(row, new) = new
        <4>1. DOMAIN old \cup DOMAIN new = DOMAIN new
          BY <3>4
        <4>2. UpsertTools(row, new) = [x \in DOMAIN new |-> new[x]]
          BY <3>1, <4>1
        <4> QED
          BY <3>3, <4>2
      <3>5. ASSUME UpsertTools(row, new) = new
            PROVE  DOMAIN old \subseteq DOMAIN new
        BY <3>1, <3>5
      <3> QED
        BY <3>2, <3>4, <3>5
    <2> QED
      BY <2>1, <2>2
  <1> HIDE DEF payload, after, new
  <1> QED
    BY <1>1, <1>2, <1>3, <1>4 DEF IsRow, payload, after, new

(* What a setup planned again makes of what a setup left.                 *)
LEMMA PlannedAgain ==
    ASSUME \A r : IsRow(r) => r # Absent,
           NEW row, row = Absent \/ IsRow(row), NEW definition,
           IsTable(definition.tools), NEW activate \in BOOLEAN
    PROVE  LET payload == Payload(definition, activate)
               after == SetUp(row, definition, activate) IN
           /\ IsRow(after) /\ after.status = payload.status
           /\ Plan(after, payload)
                = IF Known(row, definition) THEN "unchanged" ELSE "update"
  <1> DEFINE payload == Payload(definition, activate)
             persisted == Persist(row, payload)
  <1>1. /\ payload.tools = definition.tools
        /\ payload.needs = {} \/ Resolve(payload.needs) \in payload.needs
    BY DEF Payload, Resolve
  <1>2. SetUp(row, definition, activate)
          = IF Plan(row, payload) = "unchanged" THEN row ELSE persisted
    BY DEF SetUp
  <1>3. /\ IsRow(persisted)
        /\ persisted.status = payload.status /\ persisted.auth = payload.auth
        /\ persisted.config = payload.config
        /\ persisted.credential = Resolve(payload.needs)
        /\ Known(row, definition) <=> persisted.tools = payload.tools
    BY PersistedRow
  <1> HIDE DEF payload, persisted
  <1>4. Equivalent(persisted, payload) <=> Known(row, definition)
    BY <1>1, <1>3 DEF Equivalent, CredentialEquivalent
  <1>5. CASE Plan(row, payload) = "unchanged"
    <2>1. row # Absent /\ Equivalent(row, payload)
      BY <1>5 DEF Plan
    <2>2. IsRow(row) /\ row.status = payload.status /\ row.tools = payload.tools
      BY <2>1 DEF Equivalent
    <2>3. Known(row, definition)
      BY <1>1, <2>2 DEF Known
    <2> QED
      BY <1>2, <1>5, <2>2, <2>3 DEF payload
  <1>6. CASE Plan(row, payload) # "unchanged"
    <2>1. persisted # Absent
      BY <1>3
    <2> QED
      BY <1>2, <1>3, <1>4, <1>6, <2>1 DEF Plan, payload
  <1> QED
    BY <1>5, <1>6

(* A row of given fields, and the row after a credential is set.          *)
LEMMA RowOfFields ==
    ASSUME NEW st, NEW au, NEW cr, NEW co, NEW to, IsTable(to)
    PROVE  IsRow([status |-> st, auth |-> au, credential |-> cr,
                  config |-> co, tools |-> to])
    BY DEF IsRow

LEMMA CredentialSet ==
    ASSUME NEW row, NEW st, NEW au, NEW cr, NEW co, NEW to,
           row = [status |-> st, auth |-> au, credential |-> cr,
                  config |-> co, tools |-> to],
           NEW auth, NEW credential
    PROVE  SetCredential(row, auth, credential) =
             [status |-> st, auth |-> auth, credential |-> credential,
              config |-> co, tools |-> to]
  <1> DEFINE set == [row EXCEPT !.auth = auth]
  <1>1. [row EXCEPT !.auth = auth, !.credential = credential]
          = [set EXCEPT !.credential = credential]
    OBVIOUS
  <1>2. set = [status |-> st, auth |-> auth, credential |-> cr, config |-> co,
               tools |-> to]
    OBVIOUS
  <1> HIDE DEF set
  <1>3. [set EXCEPT !.credential = credential]
          = [status |-> st, auth |-> auth, credential |-> credential,
             config |-> co, tools |-> to]
    BY <1>2
  <1> QED
    BY <1>1, <1>3 DEF SetCredential

(* Applying a setup through the routes of the servers writes what the setup *)
(* route writes.                                                          *)
LEMMA AppliedIsSetUp ==
    ASSUME NEW row, row = Absent \/ IsRow(row), NEW definition
    PROVE  ApplySetup(row, definition) = SetUp(row, definition, FALSE)
  <1> DEFINE payload == Payload(definition, FALSE)
             server == Persist(row, NormalizePayload(payload))
             tools == UpsertTools(row, payload.tools)
  <1>1. payload = [status |-> payload.status, auth |-> payload.auth,
                   config |-> payload.config, tools |-> payload.tools,
                   needs |-> payload.needs]
    BY DEF Payload
  <1>2. ApplySetup(row, definition) =
          IF Plan(row, payload) = "unchanged" THEN row
          ELSE IF payload.needs = {} THEN server
          ELSE SetCredential(server, payload.auth, Resolve(payload.needs))
    BY DEF ApplySetup
  <1>3. SetUp(row, definition, FALSE)
          = IF Plan(row, payload) = "unchanged" THEN row ELSE Persist(row, payload)
    BY DEF SetUp
  <1> HIDE DEF payload
  <1>4. Persist(row, payload) =
          [status |-> payload.status, auth |-> payload.auth,
           credential |-> Resolve(payload.needs), config |-> payload.config,
           tools |-> tools]
    BY DEF Persist, Upsert
  <1>5. server =
          [status |-> payload.status, auth |-> payload.auth,
           credential |-> NoCredential, config |-> payload.config,
           tools |-> tools]
    BY <1>1 DEF Persist, Upsert, NormalizePayload, Resolve
  <1> HIDE DEF server, tools
  <1>6. payload.needs = {} => server = Persist(row, payload)
    BY <1>4, <1>5 DEF Resolve
  <1>7. SetCredential(server, payload.auth, Resolve(payload.needs))
          = Persist(row, payload)
    <2> DEFINE auth == payload.auth
               credential == Resolve(payload.needs)
               status == payload.status
               config == payload.config
    <2> HIDE DEF auth, credential, status, config
    <2>1. server = [status |-> status, auth |-> auth, credential |-> NoCredential,
                    config |-> config, tools |-> tools]
      BY <1>5 DEF auth, status, config
    <2>2. SetCredential(server, auth, credential)
            = [status |-> status, auth |-> auth, credential |-> credential,
               config |-> config, tools |-> tools]
      BY <2>1, CredentialSet
    <2> QED
      BY <1>4, <2>2 DEF auth, credential, status, config
  <1>8. CASE Plan(row, payload) = "unchanged"
    BY <1>2, <1>3, <1>8
  <1>9. CASE Plan(row, payload) # "unchanged" /\ payload.needs = {}
    BY <1>2, <1>3, <1>6, <1>9
  <1>10. CASE Plan(row, payload) # "unchanged" /\ payload.needs # {}
    BY <1>2, <1>3, <1>7, <1>10
  <1> QED
    BY <1>8, <1>9, <1>10

(* Whatever row a server has, a setup settles it.                         *)
THEOREM SetupIsSettled ==
    ASSUME \A r : IsRow(r) => r # Absent,
           NEW row, row = Absent \/ IsRow(row),
           NEW definition, IsTable(definition.tools)
    PROVE  Settles(row, definition)
  <1> DEFINE again == Payload(definition, FALSE)
             live == Payload(definition, TRUE)
             after == SetUp(row, definition, FALSE)
             active == SetUp(row, definition, TRUE)
  <1>1. /\ IsRow(after) /\ after.status = again.status
        /\ Plan(after, again) = IF Known(row, definition) THEN "unchanged" ELSE "update"
    BY PlannedAgain
  <1>2. /\ IsRow(active) /\ active.status = live.status
        /\ Plan(active, live) = IF Known(row, definition) THEN "unchanged" ELSE "update"
    BY PlannedAgain
  <1>3. again.status = definition.status /\ live.status = "active"
    BY DEF Payload
  <1>4. ApplySetup(row, definition) = after
    BY AppliedIsSetUp
  <1>5. Known(row, definition) => SetUp(active, definition, TRUE) = active
    BY <1>2 DEF SetUp
  <1> HIDE DEF after, active, again, live
  <1>6. ASSUME definition.status = "pending"
        PROVE  ~Ready(<<after>>)
    <2>1. after # Absent /\ after.status = "pending"
      BY <1>1, <1>3, <1>6
    <2>2. <<after>>[1] = after /\ 1 \in DOMAIN <<after>>
      OBVIOUS
    <2> QED
      BY <2>1, <2>2 DEF Ready
  <1>7. Ready(<<active>>)
    <2>1. active # Absent /\ active.status = "active"
      BY <1>2, <1>3
    <2>2. DOMAIN <<active>> = {1} /\ <<active>>[1] = active
      OBVIOUS
    <2> QED
      BY <2>1, <2>2 DEF Ready
  <1> QED
    BY <1>1, <1>4, <1>5, <1>6, <1>7 DEF Settles, Known, after, active, again

(* Histories of requests about an MCP server                              *)

(* Every request about a server leaves it absent or a row.                *)
LEMMA RequestsKeepRow ==
    ASSUME \A r : IsRow(r) => r # Absent,
           NEW row, row = Absent \/ IsRow(row), NEW request \in ServerRequests,
           NEW definition, IsTable(definition.tools),
           NEW builtIn, IsTable(builtIn)
    PROVE  LET after == Step(row, request, definition, builtIn) IN
           after = Absent \/ IsRow(after)
  <1>1. \A activate \in BOOLEAN : IsRow(SetUp(row, definition, activate))
    BY PlannedAgain
  <1>2. IsRow(ApplySetup(row, definition))
    BY <1>1, AppliedIsSetUp
  <1>3. IsRow(EnsureProjectSetup(row, builtIn))
    <2>1. IsTable(UpsertTools(row, builtIn))
      BY DEF UpsertTools, IsTable
    <2> QED
      BY <2>1 DEF EnsureProjectSetup, Upsert, IsRow
  <1>4. ASSUME IsRow(row)
        PROVE  /\ \A status : IsRow(SetStatus(row, status))
               /\ \A auth, credential : IsRow(SetCredential(row, auth, credential))
    <2> DEFINE st == row.status
               au == row.auth
               cr == row.credential
               co == row.config
               to == row.tools
    <2>1. IsTable(to) /\ row = [status |-> st, auth |-> au, credential |-> cr,
                                config |-> co, tools |-> to]
      BY <1>4 DEF IsRow
    <2> HIDE DEF st, au, cr, co, to
    <2>2. \A status : SetStatus(row, status) =
            [status |-> status, auth |-> au, credential |-> cr, config |-> co,
             tools |-> to]
      BY <2>1 DEF SetStatus
    <2>3. \A auth, credential : SetCredential(row, auth, credential) =
            [status |-> st, auth |-> auth, credential |-> credential,
             config |-> co, tools |-> to]
      BY <2>1, CredentialSet
    <2>4. ASSUME NEW status PROVE IsRow(SetStatus(row, status))
      BY <2>1, <2>2, RowOfFields
    <2>5. ASSUME NEW auth, NEW credential
          PROVE  IsRow(SetCredential(row, auth, credential))
      <3>1. IsRow([status |-> st, auth |-> auth, credential |-> credential,
                   config |-> co, tools |-> to])
        BY <2>1, RowOfFields
      <3> QED
        BY <2>3, <3>1
    <2> QED
      BY <2>4, <2>5
  <1>5. CASE request \in {"enable", "disable", "credential", "clear"}
    <2>1. Step(row, request, definition, builtIn)
            = IF row = Absent THEN row ELSE OnServer(row, request)
      BY <1>5 DEF Step
    <2>2. row # Absent => IsRow(OnServer(row, request))
      BY <1>4, <1>5 DEF OnServer
    <2> QED
      BY <2>1, <2>2
  <1>6. CASE request \in {"setup", "activate"}
    BY <1>1, <1>6 DEF Step
  <1>7. CASE request = "apply"
    BY <1>2, <1>7 DEF Step
  <1>8. CASE request = "start"
    BY <1>3, <1>8 DEF Step
  <1> QED
    BY <1>5, <1>6, <1>7, <1>8 DEF ServerRequests

(* The row of a server after the first n of a list of requests.           *)
ServerRows == INSTANCE FoldFacts
    WITH Op <- LAMBDA p, row, r : Step(row, r, p.definition, p.builtIn),
         Value <- LAMBDA p, i : p.requests[i], Pick <- LAMBDA s : Max(s),
         Inv <- LAMBDA p, n, row : row = Absent \/ IsRow(row)

(* SetupSettles after any list of requests.                               *)
THEOREM HistoriesSettle ==
    ASSUME \A r : IsRow(r) => r # Absent,
           NEW requests, NEW n \in Nat, DOMAIN requests = 1 .. n,
           \A i \in 1 .. n : requests[i] \in ServerRequests,
           NEW definition, IsTable(definition.tools),
           NEW builtIn, IsTable(builtIn)
    PROVE  SetupSettles(requests, definition, builtIn)
  <1> DEFINE p == [requests |-> requests, definition |-> definition,
                   builtIn |-> builtIn]
             row == History(requests, definition, builtIn)
  <1>1. /\ p.requests = requests
        /\ p.definition = definition /\ p.builtIn = builtIn
    OBVIOUS
  <1>2. row = ServerRows!Fold(p, Absent, 1 .. n)
    BY <1>1 DEF History, FoldLeft, MapThenFoldSet, ServerRows!Fold,
                ServerRows!MapThenFoldSet
  <1>3. ServerRows!Picks(1 .. n) /\ ServerRows!LastPicked(n)
    BY LastOfPositions DEF ServerRows!Picks, ServerRows!LastPicked
  <1> HIDE DEF p, row
  <1>4. \A k \in 1 .. n : \A r : r = Absent \/ IsRow(r) =>
          \/ Step(r, p.requests[k], p.definition, p.builtIn) = Absent
          \/ IsRow(Step(r, p.requests[k], p.definition, p.builtIn))
    BY <1>1, RequestsKeepRow
  <1>5. row = Absent \/ IsRow(row)
    BY <1>2, <1>3, <1>4, ServerRows!ListKeeps
  <1> QED
    BY <1>5, SetupIsSettled DEF SetupSettles, row

-----------------------------------------------------------------------------
(* The model registry                                                     *)

(* NoRow is none of the things it stands in for.                          *)
NoRowApart ==
    /\ NoRow \notin ProviderKeys \cup ModelSlugs \cup SlotKeys
    /\ NoRow # "pending_approval"
    /\ \A p : IsProvider(p) => p # NoRow
    /\ \A m : IsModel(m) => m # NoRow
    /\ \A s : IsSecret(s) => s # NoRow

(* Slots and attempts                                                     *)

LEMMA EffectiveSlotIsSlot ==
    ASSUME NoRowApart, NEW slot \in SlotKeys, NEW complexity,
           NEW attempt, attempt = NotGiven \/ attempt \in Nat \ {0}
    PROVE  EffectiveSlot(slot, complexity, attempt) \in SlotKeys
  <1>1. SlotForComplexity(slot, complexity) \in SlotKeys
    BY DEF SlotForComplexity, SlotKeys
  <1>2. attempt # NotGiven => SlotForAttempt(attempt) \in Executors \cup {NoRow}
    BY DEF SlotForAttempt, Executors
  <1>3. Executors \subseteq SlotKeys
    BY DEF Executors, SlotKeys
  <1> QED
    BY <1>1, <1>2, <1>3 DEF EffectiveSlot

(* The executor of a task never weakens, over attempts without end.       *)
THEOREM ExecutorNeverWeakens ==
    ASSUME NoRowApart, NEW slot \in SlotKeys, NEW complexity,
           NEW attempt \in Nat \ {0}, NEW later \in Nat \ {0}, attempt <= later,
           NotGiven \notin Nat
    PROVE  NeverWeakens(slot, complexity, attempt, later)
  <1> DEFINE wanted == SlotForComplexity(slot, complexity)
  <1>1. /\ SlotForAttempt(attempt) = NoRow <=> attempt > 3
        /\ SlotForAttempt(later) = NoRow <=> later > 3
        /\ SlotForAttempt(attempt) = "executor_strong" <=> attempt = 3
        /\ SlotForAttempt(later) = "executor_strong" <=> later = 3
    BY DEF SlotForAttempt, NoRowApart, SlotKeys
  <1>2. attempt # NotGiven /\ later # NotGiven
    OBVIOUS
  <1> HIDE DEF wanted
  <1>3. OverBudget(slot, complexity, attempt) => OverBudget(slot, complexity, later)
    BY <1>1, <1>2 DEF OverBudget, wanted
  <1>4. ASSUME EffectiveSlot(slot, complexity, attempt) = "executor_strong"
        PROVE  \/ EffectiveSlot(slot, complexity, later) = "executor_strong"
               \/ OverBudget(slot, complexity, later)
    <2>1. CASE wanted \notin Executors
      BY <1>2, <1>4, <2>1 DEF EffectiveSlot, wanted
    <2>2. CASE wanted = "executor_strong"
      BY <2>2 DEF EffectiveSlot, wanted
    <2>3. CASE wanted \in Executors /\ wanted # "executor_strong"
      <3>1. attempt >= 3
        BY <1>1, <1>2, <1>4, <2>3 DEF EffectiveSlot, wanted
      <3>2. later = 3 \/ later > 3
        BY <3>1
      <3> QED
        BY <1>1, <1>2, <2>3, <3>2 DEF EffectiveSlot, OverBudget, wanted
    <2> QED
      BY <2>1, <2>2, <2>3
  <1> QED
    BY <1>3, <1>4 DEF NeverWeakens

(* Resolution                                                             *)

(* A candidate is valid if it may serve.                                  *)
LEMMA ValidMayServe ==
    ASSUME NoRowApart, NEW reg, NEW last, RegistrySound(reg, last), NEW env,
           NEW required, NEW slug \in ModelSlugs \cup {NoRow},
           slug # NoRow => reg.models[slug] # NoRow
    PROVE  ValidateCandidate(reg, env, slug, required) = "ok"
             <=> MayServe(reg, last, env, slug, required)
  <1>1. CASE slug = NoRow
    BY <1>1 DEF ValidateCandidate, MayServe
  <1>2. CASE slug # NoRow
    <2> DEFINE p == ProviderOf[slug]
               model == reg.models[slug]
               provider == reg.providers[p]
               secret == IF provider.secret = NoRow THEN NoRow
                         ELSE reg.secrets[provider.secret]
    <2>1. slug \in ModelSlugs /\ p \in ProviderKeys
      BY <1>2 DEF ModelSlugs, ProviderOf, ProviderKeys
    <2>2. model.enabled \in BOOLEAN /\ last[p] # NoRow
      BY <1>2, <2>1 DEF RegistrySound, ModelsProvided, IsModel
    <2>3. provider.status = last[p] /\ IsProvider(provider)
      BY <2>1, <2>2 DEF RegistrySound, ProvidersDecided
    <2>6. provider.secret # NoRow => secret # NoRow
      BY <2>1, <2>3 DEF RegistrySound, SecretsHeld, NoRowApart
    <2>7. provider.secret = NoRow => secret = NoRow
      OBVIOUS
    <2>4. ValidateCandidate(reg, env, slug, required) =
            CASE ~model.enabled -> "model_disabled"
              [] model.enabled /\ provider.status # "active" -> "provider_inactive"
              [] OTHER ->
                    IF /\ provider.auth = "api_key"
                       /\ \/ secret = NoRow
                          \/ secret.status # "active"
                          \/ secret.reference \notin env
                    THEN "provider_secret_missing"
                    ELSE IF ~HasModelCapabilities(model, required)
                    THEN "capability_mismatch" ELSE "ok"
      BY <1>2 DEF ValidateCandidate
    <2>5. MayServe(reg, last, env, slug, required) <=>
            /\ model.enabled /\ required \subseteq model.caps
            /\ provider.status = "active"
            /\ provider.auth = "api_key" =>
                /\ provider.secret # NoRow
                /\ secret.status = "active"
                /\ secret.reference \in env
      BY <1>2, <2>3 DEF MayServe
    <2> HIDE DEF p, model, provider, secret
    <2>8. CASE ~model.enabled \/ provider.status # "active"
      BY <2>2, <2>4, <2>5, <2>8
    <2>9. CASE model.enabled /\ provider.status = "active"
      BY <2>4, <2>5, <2>6, <2>7, <2>9 DEF HasModelCapabilities
    <2> QED
      BY <2>2, <2>8, <2>9
  <1> QED
    BY <1>1, <1>2

LEMMA SlotModelsExist ==
    ASSUME NEW reg, NEW last, RegistrySound(reg, last), NEW key \in SlotKeys,
           reg.slots[key] # NoRow,
           NEW slug \in {reg.slots[key].primary, reg.slots[key].fallback}
    PROVE  /\ slug \in ModelSlugs \cup {NoRow}
           /\ slug # NoRow => reg.models[slug] # NoRow
  BY DEF RegistrySound, SlotsFilled

(* A provider whose model may serve passes the test of its configuration. *)
LEMMA ServingIsConfigured ==
    ASSUME NoRowApart, NEW reg, NEW last, RegistrySound(reg, last), NEW env,
           NEW required, NEW slug \in ModelSlugs, reg.models[slug] # NoRow,
           MayServe(reg, last, env, slug, required),
           reg.providers[ProviderOf[slug]].auth = "api_key"
    PROVE  TestProviderConfig(reg, ProviderOf[slug], env) = "ok"
  <1> DEFINE provider == reg.providers[ProviderOf[slug]]
  <1>1. ProviderOf[slug] \in ProviderKeys
    BY DEF ModelSlugs, ProviderOf, ProviderKeys
  <1>2. last[ProviderOf[slug]] # NoRow
    BY DEF RegistrySound, ModelsProvided
  <1>3. provider # NoRow
    BY <1>1, <1>2 DEF RegistrySound, ProvidersDecided, NoRowApart
  <1>4. /\ provider.secret # NoRow
        /\ reg.secrets[provider.secret].reference \in env
    BY DEF MayServe
  <1> QED
    BY <1>3, <1>4 DEF TestProviderConfig

(* The candidates of a slot, tried in their order.                        *)
THEOREM SoundResolution ==
    ASSUME NoRowApart, NEW reg, NEW last, RegistrySound(reg, last), NEW env,
           NEW r, IsResolution(r)
    PROVE  ResolvesSoundly(reg, last, env, r)
  <1> DEFINE key      == EffectiveSlot(r.slot, r.complexity, r.attempt)
             slot     == reg.slots[key]
             primary  == ValidateCandidate(reg, env, slot.primary, r.required)
             fallback == ValidateCandidate(reg, env, slot.fallback, r.required)
             over     == OverBudget(r.slot, r.complexity, r.attempt)
             can(m)   == MayServe(reg, last, env, m, r.required)
             result   == ResolveModelSlot(reg, env, r)
             failed(code) == [ok |-> FALSE, code |-> code, slot |-> key,
                              events |-> <<"requested", "failed">>]
  <1>1. key \in SlotKeys
    BY EffectiveSlotIsSlot DEF IsResolution
  <1>2. ASSUME slot # NoRow
        PROVE  /\ slot.primary \in ModelSlugs \cup {NoRow}
               /\ slot.primary # NoRow => reg.models[slot.primary] # NoRow
               /\ slot.fallback \in ModelSlugs \cup {NoRow}
               /\ slot.fallback # NoRow => reg.models[slot.fallback] # NoRow
    BY <1>1, <1>2, SlotModelsExist
  <1>3. slot # NoRow => ((primary = "ok" <=> can(slot.primary))
                          /\ (fallback = "ok" <=> can(slot.fallback)))
    BY <1>2, ValidMayServe
  <1>4. ~can(NoRow)
    BY DEF MayServe
  <1>5. ASSUME NEW m, slot # NoRow, can(m), m \in {slot.primary, slot.fallback},
               reg.providers[ProviderOf[m]].auth = "api_key"
        PROVE  TestProviderConfig(reg, ProviderOf[m], env) = "ok"
    BY <1>2, <1>4, <1>5, ServingIsConfigured
  <1>6. result =
          IF over THEN failed("slot_unassigned")
          ELSE IF slot = NoRow THEN failed("slot_missing")
          ELSE IF slot.primary = NoRow /\ slot.fallback = NoRow
          THEN failed("slot_unassigned")
          ELSE IF primary = "ok"
          THEN [ok |-> TRUE, model |-> slot.primary, slot |-> key,
                usedFallback |-> FALSE, events |-> <<"requested", "succeeded">>]
          ELSE IF fallback = "ok"
          THEN [ok |-> TRUE, model |-> slot.fallback, slot |-> key,
                usedFallback |-> TRUE,
                events |-> <<"requested", "fallback_used", "succeeded">>]
          ELSE failed(IF slot.fallback = NoRow THEN primary ELSE fallback)
    BY DEF ResolveModelSlot
  <1>7. ResolvesSoundly(reg, last, env, r) <=>
          /\ result.ok =>
              /\ ~over
              /\ can(result.model)
              /\ IF result.usedFallback THEN ~can(reg.slots[result.slot].primary)
                 ELSE result.model = reg.slots[result.slot].primary
              /\ reg.providers[ProviderOf[result.model]].auth = "api_key" =>
                   TestProviderConfig(reg, ProviderOf[result.model], env) = "ok"
          /\ ~result.ok /\ ~over /\ reg.slots[result.slot] # NoRow =>
              ~can(reg.slots[result.slot].primary)
                /\ ~can(reg.slots[result.slot].fallback)
          /\ Head(result.events) = "requested"
          /\ result.events[Len(result.events)]
               = IF result.ok THEN "succeeded" ELSE "failed"
    BY DEF ResolvesSoundly
  <1>8. \A code : /\ failed(code).slot = key /\ failed(code).ok = FALSE
                  /\ failed(code).events = <<"requested", "failed">>
    OBVIOUS
  <1>9. /\ Head(<<"requested", "failed">>) = "requested"
        /\ <<"requested", "failed">>[Len(<<"requested", "failed">>)] = "failed"
        /\ Head(<<"requested", "succeeded">>) = "requested"
        /\ <<"requested", "succeeded">>[Len(<<"requested", "succeeded">>)]
             = "succeeded"
        /\ Head(<<"requested", "fallback_used", "succeeded">>) = "requested"
        /\ <<"requested", "fallback_used", "succeeded">>
             [Len(<<"requested", "fallback_used", "succeeded">>)] = "succeeded"
    OBVIOUS
  <1>10. CASE over \/ slot = NoRow
    <2>1. \E code : result = failed(code)
      BY <1>6, <1>10
    <2> HIDE DEF result, failed
    <2>2. /\ result.slot = key /\ result.ok = FALSE
          /\ result.events = <<"requested", "failed">>
      BY <1>8, <2>1
    <2> HIDE DEF key, over, can
    <2> QED
      BY <1>7, <1>9, <1>10, <2>2
  <1>11. CASE ~over /\ slot # NoRow /\ ~can(slot.primary) /\ ~can(slot.fallback)
    <2> HIDE DEF can, over, primary, fallback, key, failed
    <2>1. \E code : result = failed(code)
      BY <1>3, <1>6, <1>11
    <2> HIDE DEF result
    <2>2. /\ result.slot = key /\ result.ok = FALSE
          /\ result.events = <<"requested", "failed">>
      BY <1>8, <2>1
    <2> QED
      BY <1>7, <1>9, <1>11, <2>2
  <1>12. CASE ~over /\ slot # NoRow /\ can(slot.primary)
    <2> HIDE DEF can, over, primary, fallback, key
    <2>1. result = [ok |-> TRUE, model |-> slot.primary, slot |-> key,
                usedFallback |-> FALSE, events |-> <<"requested", "succeeded">>]
      BY <1>3, <1>4, <1>6, <1>12
    <2> HIDE DEF result, failed
    <2>2. /\ result.ok = TRUE /\ result.model = slot.primary /\ result.slot = key
          /\ result.usedFallback = FALSE
          /\ result.events = <<"requested", "succeeded">>
      BY <2>1
    <2> QED
      BY <1>5, <1>7, <1>9, <1>12, <2>2
  <1>13. CASE ~over /\ slot # NoRow /\ ~can(slot.primary) /\ can(slot.fallback)
    <2> HIDE DEF can, over, primary, fallback, key
    <2>1. result = [ok |-> TRUE, model |-> slot.fallback, slot |-> key,
                    usedFallback |-> TRUE,
                    events |-> <<"requested", "fallback_used", "succeeded">>]
      BY <1>3, <1>4, <1>6, <1>13
    <2> HIDE DEF result, failed
    <2>2. /\ result.ok = TRUE /\ result.model = slot.fallback
          /\ result.slot = key /\ result.usedFallback = TRUE
          /\ result.events = <<"requested", "fallback_used", "succeeded">>
      BY <2>1
    <2> QED
      BY <1>5, <1>7, <1>9, <1>13, <2>2
  <1> QED
    BY <1>10, <1>11, <1>12, <1>13

(* Every request keeps the registry sound                                 *)

(* A slot names nothing, or models that exist.                            *)
NamesExisting(reg, slot) ==
    slot # NoRow =>
        \A m \in {slot.primary, slot.fallback} \ {NoRow} :
            m \in ModelSlugs /\ reg.models[m] # NoRow

LEMMA SlotsWritten ==
    ASSUME NEW reg, NEW last, RegistrySound(reg, last), NEW slots,
           slots = [k \in SlotKeys |-> slots[k]],
           \A k \in SlotKeys : NamesExisting(reg, slots[k])
    PROVE  RegistrySound([reg EXCEPT !.slots = slots], last)
  <1> DEFINE after == [reg EXCEPT !.slots = slots]
  <1>1. reg = [secrets |-> reg.secrets, providers |-> reg.providers,
               models |-> reg.models, slots |-> reg.slots]
    BY DEF RegistrySound, RegistryShape
  <1>2. after = [secrets |-> reg.secrets, providers |-> reg.providers,
                 models |-> reg.models, slots |-> slots]
    BY <1>1
  <1> HIDE DEF after
  <1>3. /\ after.secrets = reg.secrets /\ after.providers = reg.providers
        /\ after.models = reg.models /\ after.slots = slots
    BY <1>2
  <1>4. RegistryShape(after)
    BY <1>2, <1>3 DEF RegistrySound, RegistryShape
  <1>5. ProvidersDecided(after, last) /\ ModelsProvided(after, last)
    BY <1>3 DEF RegistrySound, ProvidersDecided, ModelsProvided
  <1>6. SecretsHeld(after)
    BY <1>3 DEF RegistrySound, SecretsHeld
  <1>7. SlotsFilled(after)
    BY <1>3 DEF SlotsFilled, NamesExisting
  <1>8. RegistrySound(after, last)
    BY <1>4, <1>5, <1>6, <1>7 DEF RegistrySound
  <1> QED
    BY <1>8 DEF after

LEMMA ModelWritten ==
    ASSUME NoRowApart, NEW reg, NEW last, RegistrySound(reg, last),
           NEW slug \in ModelSlugs, NEW row, IsModel(row),
           last[ProviderOf[slug]] # NoRow
    PROVE  /\ RegistrySound([reg EXCEPT !.models[slug] = row], last)
           /\ [reg EXCEPT !.models[slug] = row].models[slug] = row
           /\ [reg EXCEPT !.models[slug] = row].slots = reg.slots
  <1> DEFINE models == [reg.models EXCEPT ![slug] = row]
             after  == [reg EXCEPT !.models[slug] = row]
  <1>1. /\ reg = [secrets |-> reg.secrets, providers |-> reg.providers,
                  models |-> reg.models, slots |-> reg.slots]
        /\ reg.models = [m \in ModelSlugs |-> reg.models[m]]
    BY DEF RegistrySound, RegistryShape
  <1>2. after = [secrets |-> reg.secrets, providers |-> reg.providers,
                 models |-> models, slots |-> reg.slots]
    BY <1>1
  <1>3. /\ models = [m \in ModelSlugs |-> models[m]]
        /\ \A m \in ModelSlugs :
              models[m] = IF m = slug THEN row ELSE reg.models[m]
    BY <1>1
  <1> HIDE DEF after, models
  <1>4. /\ after.secrets = reg.secrets /\ after.providers = reg.providers
        /\ after.models = models /\ after.slots = reg.slots
    BY <1>2
  <1>5. RegistryShape(after)
    BY <1>2, <1>3, <1>4 DEF RegistrySound, RegistryShape
  <1>6. ProvidersDecided(after, last) /\ SecretsHeld(after)
    BY <1>4 DEF RegistrySound, ProvidersDecided, SecretsHeld
  <1>7. ModelsProvided(after, last)
    BY <1>3, <1>4 DEF RegistrySound, ModelsProvided
  <1>8. SlotsFilled(after)
    BY <1>3, <1>4 DEF RegistrySound, SlotsFilled, NoRowApart
  <1>9. RegistrySound(after, last)
    BY <1>5, <1>6, <1>7, <1>8 DEF RegistrySound
  <1>10. after.models[slug] = row
    BY <1>3, <1>4
  <1> QED
    BY <1>4, <1>9, <1>10 DEF after

LEMMA ProviderWritten ==
    ASSUME NoRowApart, NEW reg, NEW last, RegistrySound(reg, last),
           NEW key \in ProviderKeys, NEW row, IsProvider(row), row.status # NoRow,
           row.secret # NoRow => /\ row.secret \in ProviderKeys
                                 /\ reg.secrets[row.secret] # NoRow,
           NEW decided,
           \A p \in ProviderKeys :
               decided[p] = IF p = key THEN row.status ELSE last[p]
    PROVE  RegistrySound([reg EXCEPT !.providers[key] = row], decided)
  <1> DEFINE providers == [reg.providers EXCEPT ![key] = row]
             after     == [reg EXCEPT !.providers[key] = row]
  <1>1. /\ reg = [secrets |-> reg.secrets, providers |-> reg.providers,
                  models |-> reg.models, slots |-> reg.slots]
        /\ reg.providers = [p \in ProviderKeys |-> reg.providers[p]]
    BY DEF RegistrySound, RegistryShape
  <1>2. after = [secrets |-> reg.secrets, providers |-> providers,
                 models |-> reg.models, slots |-> reg.slots]
    BY <1>1
  <1>3. /\ providers = [p \in ProviderKeys |-> providers[p]]
        /\ \A p \in ProviderKeys :
              providers[p] = IF p = key THEN row ELSE reg.providers[p]
    BY <1>1
  <1> HIDE DEF after, providers
  <1>4. /\ after.secrets = reg.secrets /\ after.providers = providers
        /\ after.models = reg.models /\ after.slots = reg.slots
    BY <1>2
  <1>5. RegistryShape(after)
    BY <1>2, <1>3, <1>4 DEF RegistrySound, RegistryShape
  <1>6. ProvidersDecided(after, decided)
    BY <1>3, <1>4 DEF RegistrySound, ProvidersDecided
  <1>7. SecretsHeld(after)
    BY <1>3, <1>4 DEF RegistrySound, SecretsHeld
  <1>8. ModelsProvided(after, decided)
    <2>1. \A m \in ModelSlugs : ProviderOf[m] \in ProviderKeys
      BY DEF ModelSlugs, ProviderOf, ProviderKeys
    <2> QED
      BY <1>4, <2>1 DEF RegistrySound, ModelsProvided
  <1>9. SlotsFilled(after)
    BY <1>4 DEF RegistrySound, SlotsFilled
  <1>10. RegistrySound(after, decided)
    BY <1>5, <1>6, <1>7, <1>8, <1>9 DEF RegistrySound
  <1> QED
    BY <1>10 DEF after

LEMMA SecretWritten ==
    ASSUME NoRowApart, NEW reg, NEW last, RegistrySound(reg, last),
           NEW label \in ProviderKeys, NEW reference, NEW status
    PROVE  LET after == CreateSecretRef(reg, label, reference, status) IN
           /\ RegistrySound(after, last)
           /\ after.secrets[label] # NoRow
  <1> DEFINE row     == [reference |-> reference, status |-> status]
             secrets == [reg.secrets EXCEPT ![label] = row]
             after   == CreateSecretRef(reg, label, reference, status)
  <1>1. /\ reg = [secrets |-> reg.secrets, providers |-> reg.providers,
                  models |-> reg.models, slots |-> reg.slots]
        /\ reg.secrets = [p \in ProviderKeys |-> reg.secrets[p]]
    BY DEF RegistrySound, RegistryShape
  <1>2. after = [secrets |-> secrets, providers |-> reg.providers,
                 models |-> reg.models, slots |-> reg.slots]
    BY <1>1 DEF CreateSecretRef
  <1>3. /\ secrets = [p \in ProviderKeys |-> secrets[p]]
        /\ \A p \in ProviderKeys :
              secrets[p] = IF p = label THEN row ELSE reg.secrets[p]
    BY <1>1
  <1>4. IsSecret(row)
    BY DEF IsSecret
  <1> HIDE DEF after, secrets, row
  <1>5. /\ after.secrets = secrets /\ after.providers = reg.providers
        /\ after.models = reg.models /\ after.slots = reg.slots
    BY <1>2
  <1>6. row # NoRow
    BY <1>4 DEF NoRowApart
  <1>7. RegistryShape(after)
    BY <1>2, <1>3, <1>5 DEF RegistrySound, RegistryShape
  <1>8. ProvidersDecided(after, last) /\ ModelsProvided(after, last)
    BY <1>5 DEF RegistrySound, ProvidersDecided, ModelsProvided
  <1>9. SecretsHeld(after)
    BY <1>3, <1>5, <1>6 DEF RegistrySound, SecretsHeld
  <1>10. SlotsFilled(after)
    BY <1>5 DEF RegistrySound, SlotsFilled
  <1>11. RegistrySound(after, last)
    BY <1>7, <1>8, <1>9, <1>10 DEF RegistrySound
  <1> QED
    BY <1>3, <1>5, <1>6, <1>11 DEF after

LEMMA SameDecisions ==
    ASSUME NEW reg, NEW last, RegistrySound(reg, last), NEW decided,
           \A p \in ProviderKeys : decided[p] = last[p]
    PROVE  RegistrySound(reg, decided)
  <1>1. \A m \in ModelSlugs : ProviderOf[m] \in ProviderKeys
    BY DEF ModelSlugs, ProviderOf, ProviderKeys
  <1> QED
    BY <1>1 DEF RegistrySound, ProvidersDecided, ModelsProvided

LEMMA SeedKeeps ==
    ASSUME NoRowApart, NEW reg, NEW last, RegistrySound(reg, last)
    PROVE  RegistrySound(SeedDefaultSlots(reg), last)
  <1> DEFINE slots == [k \in SlotKeys |->
                        IF reg.slots[k] = NoRow
                        THEN [primary |-> NoRow, fallback |-> NoRow]
                        ELSE reg.slots[k]]
  <1>1. \A k \in SlotKeys : NamesExisting(reg, slots[k])
    BY DEF RegistrySound, SlotsFilled, NamesExisting
  <1>2. slots = [k \in SlotKeys |-> slots[k]]
    OBVIOUS
  <1>3. SeedDefaultSlots(reg) = [reg EXCEPT !.slots = slots]
    BY DEF SeedDefaultSlots
  <1> HIDE DEF slots
  <1> QED
    BY <1>1, <1>2, <1>3, SlotsWritten

LEMMA AssignKeeps ==
    ASSUME NoRowApart, NEW reg, NEW last, RegistrySound(reg, last),
           NEW key \in SlotKeys, NEW primary, NEW fallback,
           {primary, fallback} \subseteq ModelSlugs \cup {NoRow},
           \A m \in {primary, fallback} \ {NoRow} : reg.models[m] # NoRow
    PROVE  RegistrySound(AssignSlot(reg, key, primary, fallback), last)
  <1> DEFINE row   == [primary |-> primary, fallback |-> fallback]
             slots == [reg.slots EXCEPT ![key] = row]
  <1>1. /\ reg = [secrets |-> reg.secrets, providers |-> reg.providers,
                  models |-> reg.models, slots |-> reg.slots]
        /\ reg.slots = [k \in SlotKeys |-> reg.slots[k]]
    BY DEF RegistrySound, RegistryShape
  <1>2. /\ slots = [k \in SlotKeys |-> slots[k]]
        /\ \A k \in SlotKeys :
              slots[k] = IF k = key THEN row ELSE reg.slots[k]
    BY <1>1
  <1>3. AssignSlot(reg, key, primary, fallback) = [reg EXCEPT !.slots = slots]
    BY <1>1 DEF AssignSlot
  <1>4. NamesExisting(reg, row)
    BY DEF NamesExisting
  <1> HIDE DEF slots, row
  <1>5. \A k \in SlotKeys : NamesExisting(reg, slots[k])
    BY <1>2, <1>4 DEF RegistrySound, SlotsFilled, NamesExisting
  <1> QED
    BY <1>2, <1>3, <1>5, SlotsWritten

LEMMA SetupKeeps ==
    ASSUME NoRowApart, NEW reg, NEW last, RegistrySound(reg, last),
           NEW r, r.route = "/model-setup", IsRequest(r)
    PROVE  RegistrySound(SetupModelRegistry(reg, r), Decided(last, r))
  <1> DEFINE decided == Decided(last, r)
             seeded  == SeedDefaultSlots(reg)
             keyed   == SetupSecret(seeded, r)
             row     == [auth   |-> Given(r.auth, IF r.secretEnv = NotGiven
                                               THEN "none" ELSE "api_key"),
                         secret |-> IF r.secretEnv = NotGiven
                                    THEN NoRow ELSE r.provider,
                         status |-> Given(r.status, "pending_approval")]
             provided == SetupProvider(keyed, r)
             model    == [enabled |-> TRUE, caps |-> r.caps]
             modelled == SetupModel(provided, r)
             slots    == [k \in SlotKeys |->
                            IF k \in Given(r.slots, {"executor_default"})
                            THEN [primary |-> r.model, fallback |-> NoRow]
                            ELSE modelled.slots[k]]
  <1>1. /\ r.provider \in ProviderKeys /\ r.model \in ModelSlugs
        /\ ProviderOf[r.model] = r.provider
        /\ r.status # NoRow
    BY DEF IsRequest
  <1>2. RegistrySound(seeded, last)
    BY SeedKeeps
  <1>3. /\ RegistrySound(keyed, last)
        /\ r.secretEnv # NotGiven => keyed.secrets[r.provider] # NoRow
    <2> HIDE DEF seeded
    <2>1. CASE r.secretEnv = NotGiven
      BY <1>2, <2>1 DEF SetupSecret
    <2>2. CASE r.secretEnv # NotGiven
      <3>1. keyed = CreateSecretRef(seeded, r.provider, r.secretEnv, "active")
        BY <2>2 DEF SetupSecret, CreateSecretRef
      <3> QED
        BY <1>1, <1>2, <3>1, SecretWritten
    <2> QED
      BY <2>1, <2>2
  <1>4. \A p \in ProviderKeys :
          decided[p] = IF p = r.provider THEN row.status ELSE last[p]
    BY DEF Decided
  <1>5. row.status # NoRow
    BY <1>1 DEF Given, NoRowApart
  <1>6. /\ IsProvider(row)
        /\ row.secret # NoRow => /\ row.secret \in ProviderKeys
                                 /\ keyed.secrets[row.secret] # NoRow
    BY <1>1, <1>3 DEF IsProvider
  <1>7. provided = [keyed EXCEPT !.providers[r.provider] = row]
    BY DEF SetupProvider
  <1>8. IsModel(model)
    BY DEF IsModel
  <1>9. modelled = [provided EXCEPT !.models[r.model] = model]
    BY DEF SetupModel
  <1>10. /\ slots = [k \in SlotKeys |-> slots[k]]
         /\ \A k \in SlotKeys :
               \/ slots[k] = [primary |-> r.model, fallback |-> NoRow]
               \/ slots[k] = modelled.slots[k]
    OBVIOUS
  <1>11. SetupModelRegistry(reg, r) = [modelled EXCEPT !.slots = slots]
    BY DEF SetupModelRegistry, SetupSlots
  <1> HIDE DEF decided, seeded, keyed, row, provided, model, modelled, slots
  <1>12. RegistrySound(provided, decided)
    BY <1>1, <1>3, <1>4, <1>5, <1>6, <1>7, ProviderWritten
  <1>13. decided[ProviderOf[r.model]] # NoRow
    BY <1>1, <1>4, <1>5
  <1>14. RegistrySound(modelled, decided) /\ modelled.models[r.model] = model
    BY <1>1, <1>8, <1>9, <1>12, <1>13, ModelWritten
  <1>15. model # NoRow
    BY <1>8 DEF NoRowApart
  <1>16. \A k \in SlotKeys : NamesExisting(modelled, slots[k])
    <2>1. NamesExisting(modelled, [primary |-> r.model, fallback |-> NoRow])
      BY <1>1, <1>14, <1>15 DEF NamesExisting
    <2>2. \A k \in SlotKeys : NamesExisting(modelled, modelled.slots[k])
      BY <1>14 DEF NamesExisting, RegistrySound, SlotsFilled
    <2> QED
      BY <1>10, <2>1, <2>2
  <1>17. RegistrySound([modelled EXCEPT !.slots = slots], decided)
    BY <1>10, <1>14, <1>16, SlotsWritten
  <1> QED
    BY <1>11, <1>17 DEF decided

LEMMA ProviderPatchKeeps ==
    ASSUME NoRowApart, NEW reg, NEW last, RegistrySound(reg, last),
           NEW r, r.route = "/model-providers", IsRequest(r),
           ~(r.field = "secret" /\ r.value # NoRow /\ reg.secrets[r.value] = NoRow)
    PROVE  RegistrySound(UpdateProvider(reg, r.provider, r.field, r.value),
                         Decided(last, r))
  <1> DEFINE decided == Decided(last, r)
             old     == reg.providers[r.provider]
             row     == [old EXCEPT ![r.field] = r.value]
  <1>1. /\ r.provider \in ProviderKeys
        /\ r.field \in {"auth", "secret", "status"}
        /\ r.field = "status" => r.value # NoRow
        /\ r.field = "secret" => r.value \in ProviderKeys \cup {NoRow}
    BY DEF IsRequest
  <1>2. \A p \in ProviderKeys :
          decided[p] = IF p = r.provider /\ r.field = "status" /\ last[p] # NoRow
                       THEN r.value ELSE last[p]
    BY DEF Decided
  <1>3. IF last[r.provider] = NoRow THEN old = NoRow
        ELSE IsProvider(old) /\ old.status = last[r.provider]
    BY <1>1 DEF RegistrySound, ProvidersDecided
  <1>4. old # NoRow /\ old.secret # NoRow =>
          old.secret \in ProviderKeys /\ reg.secrets[old.secret] # NoRow
    BY <1>1 DEF RegistrySound, SecretsHeld
  <1>5. UpdateProvider(reg, r.provider, r.field, r.value) =
          IF old = NoRow THEN reg ELSE [reg EXCEPT !.providers[r.provider] = row]
    BY DEF UpdateProvider
  <1>6. ASSUME old # NoRow
        PROVE  /\ IsProvider(row)
               /\ row.status = IF r.field = "status" THEN r.value ELSE old.status
               /\ row.secret = IF r.field = "secret" THEN r.value ELSE old.secret
    <2>1. old = [auth |-> old.auth, secret |-> old.secret, status |-> old.status]
      BY <1>3, <1>6 DEF IsProvider
    <2> HIDE DEF old
    <2>2. row = [f \in {"auth", "secret", "status"} |->
                   IF f = r.field THEN r.value ELSE old[f]]
      BY <1>1, <2>1
    <2> HIDE DEF row
    <2>3. row = [auth |-> row.auth, secret |-> row.secret, status |-> row.status]
      BY <2>2
    <2> QED
      BY <2>2, <2>3 DEF IsProvider
  <1> HIDE DEF decided, old, row
  <1>7. CASE old = NoRow
    <2>1. last[r.provider] = NoRow
      BY <1>3, <1>7 DEF NoRowApart
    <2>2. \A p \in ProviderKeys : decided[p] = last[p]
      BY <1>2, <2>1
    <2>3. RegistrySound(reg, decided)
      BY <2>2, SameDecisions
    <2> QED
      BY <1>5, <1>7, <2>3 DEF decided
  <1>8. CASE old # NoRow
    <2>1. last[r.provider] # NoRow /\ old.status = last[r.provider]
      BY <1>3, <1>8
    <2>2. /\ IsProvider(row) /\ row.status # NoRow
          /\ row.secret # NoRow => /\ row.secret \in ProviderKeys
                                   /\ reg.secrets[row.secret] # NoRow
      BY <1>1, <1>4, <1>6, <1>8, <2>1
    <2>3. \A p \in ProviderKeys :
            decided[p] = IF p = r.provider THEN row.status ELSE last[p]
      BY <1>2, <1>6, <1>8, <2>1
    <2>4. RegistrySound([reg EXCEPT !.providers[r.provider] = row], decided)
      BY <1>1, <2>2, <2>3, ProviderWritten
    <2> QED
      BY <1>5, <1>8, <2>4 DEF decided
  <1> QED
    BY <1>7, <1>8

LEMMA ModelPatchKeeps ==
    ASSUME NoRowApart, NEW reg, NEW last, RegistrySound(reg, last),
           NEW r, r.route = "/models", IsRequest(r)
    PROVE  RegistrySound(UpdateModel(reg, r.model, r.field, r.value), last)
  <1> DEFINE old == reg.models[r.model]
             row == [old EXCEPT ![r.field] = r.value]
  <1>1. /\ r.model \in ModelSlugs /\ r.field \in {"enabled", "caps"}
        /\ r.field = "enabled" => r.value \in BOOLEAN
    BY DEF IsRequest
  <1>2. old # NoRow => IsModel(old) /\ last[ProviderOf[r.model]] # NoRow
    BY <1>1 DEF RegistrySound, ModelsProvided
  <1>3. UpdateModel(reg, r.model, r.field, r.value) =
          IF old = NoRow THEN reg ELSE [reg EXCEPT !.models[r.model] = row]
    BY DEF UpdateModel
  <1> HIDE DEF old
  <1>4. ASSUME old # NoRow
        PROVE  IsModel(row)
    <2>1. old = [enabled |-> old.enabled, caps |-> old.caps] /\ old.enabled \in BOOLEAN
      BY <1>2, <1>4 DEF IsModel
    <2>2. row = [f \in {"enabled", "caps"} |->
                   IF f = r.field THEN r.value ELSE old[f]]
      BY <1>1, <2>1
    <2> HIDE DEF row
    <2>3. row = [enabled |-> row.enabled, caps |-> row.caps]
      BY <2>2
    <2>4. row.enabled \in BOOLEAN
      BY <1>1, <2>1, <2>2
    <2> QED
      BY <2>3, <2>4 DEF IsModel
  <1> HIDE DEF row
  <1> QED
    BY <1>1, <1>2, <1>3, <1>4, ModelWritten

(* The registry is sound before the first request ...                     *)
THEOREM RegistryBegins ==
    RegistrySound(EmptyRegistry, [p \in ProviderKeys |-> NoRow])
  BY DEF RegistrySound, RegistryShape, ProvidersDecided, ModelsProvided,
         SecretsHeld, SlotsFilled, EmptyRegistry

(* ... and every request the routes accept keeps it so, with the decision *)
(* that request takes.                                                    *)
THEOREM RequestsKeepRegistry ==
    ASSUME NoRowApart, NEW reg, NEW last, RegistrySound(reg, last),
           NEW r, IsRequest(r)
    PROVE  RegistrySound(Serve(reg, r), Decided(last, r))
  <1> DEFINE decided == Decided(last, r)
  <1>1. r.route \notin {"/model-setup", "/model-providers"} =>
          \A p \in ProviderKeys : decided[p] = last[p]
    BY DEF Decided
  <1>2. CASE r.route = "/model-setup"
    BY <1>2, SetupKeeps DEF Serve
  <1>3. CASE r.route = "/model-providers"
    <2>1. CASE r.field = "secret" /\ r.value # NoRow /\ reg.secrets[r.value] = NoRow
      <3>1. Serve(reg, r) = reg
        BY <1>3, <2>1 DEF Serve
      <3>2. \A p \in ProviderKeys : decided[p] = last[p]
        BY <1>3, <2>1 DEF Decided
      <3> QED
        BY <3>1, <3>2, SameDecisions
    <2>2. CASE ~(r.field = "secret" /\ r.value # NoRow
                  /\ reg.secrets[r.value] = NoRow)
      <3>1. Serve(reg, r) = UpdateProvider(reg, r.provider, r.field, r.value)
        BY <1>3, <2>2 DEF Serve
      <3> QED
        BY <1>3, <2>2, <3>1, ProviderPatchKeeps
    <2> QED
      BY <2>1, <2>2
  <1> HIDE DEF decided
  <1>4. CASE r.route = "/model-secret-refs"
    <2>1. \/ Serve(reg, r) = reg
          \/ Serve(reg, r) = CreateSecretRef(reg, r.label, r.reference, r.status)
      BY <1>4 DEF Serve
    <2>2. r.label \in ProviderKeys
      BY <1>4 DEF IsRequest
    <2>3. RegistrySound(Serve(reg, r), last)
      BY <2>1, <2>2, SecretWritten
    <2> QED
      BY <1>1, <1>4, <2>3, SameDecisions DEF decided
  <1>5. CASE r.route = "/models"
    <2>1. RegistrySound(Serve(reg, r), last)
      BY <1>5, ModelPatchKeeps DEF Serve
    <2> QED
      BY <1>1, <1>5, <2>1, SameDecisions DEF decided
  <1>6. CASE r.route = "/model-slots"
    <2>1. RegistrySound(Serve(reg, r), last)
      BY <1>6, SeedKeeps DEF Serve
    <2> QED
      BY <1>1, <1>6, <2>1, SameDecisions DEF decided
  <1>7. CASE r.route = "/model-slots/assign"
    <2>1. /\ r.slot \in SlotKeys
          /\ {r.primary, r.fallback} \subseteq ModelSlugs \cup {NoRow}
      BY <1>7 DEF IsRequest
    <2>2. Serve(reg, r) =
            IF \A slug \in {r.primary, r.fallback} \ {NoRow} :
                  reg.models[slug] # NoRow
            THEN AssignSlot(reg, r.slot, r.primary, r.fallback) ELSE reg
      BY <1>7 DEF Serve
    <2>3. RegistrySound(Serve(reg, r), last)
      BY <2>1, <2>2, AssignKeeps
    <2> QED
      BY <1>1, <1>7, <2>3, SameDecisions DEF decided
  <1> QED
    BY <1>2, <1>3, <1>4, <1>5, <1>6, <1>7 DEF IsRequest

(* The registry and the decisions after the first n of a list of requests.*)
Decisions == INSTANCE FoldFacts
    WITH Op <- LAMBDA p, last, r : Decided(last, r),
         Value <- LAMBDA p, i : p[i], Pick <- LAMBDA s : Max(s),
         Inv <- LAMBDA p, n, last : TRUE
Undecided == [p \in ProviderKeys |-> NoRow]
DecisionsAfter(p, n) == Decisions!Fold(p, Undecided, 1 .. n)

Registries == INSTANCE FoldFacts
    WITH Op <- LAMBDA p, reg, r : Serve(reg, r),
         Value <- LAMBDA p, i : p[i], Pick <- LAMBDA s : Max(s),
         Inv <- LAMBDA p, n, reg : RegistrySound(reg, DecisionsAfter(p, n))

LEMMA RegistryFolds ==
    ASSUME NEW requests, NEW n \in Nat, DOMAIN requests = 1 .. n
    PROVE  /\ Registry(requests) = Registries!Fold(requests, EmptyRegistry, 1 .. n)
           /\ LastDecided(requests) = DecisionsAfter(requests, n)
    BY DEF Registry, LastDecided, DecisionsAfter, Undecided, FoldLeft,
           MapThenFoldSet, Registries!Fold, Registries!MapThenFoldSet,
           Decisions!Fold, Decisions!MapThenFoldSet

(* The registry is sound after any list of requests.                      *)
THEOREM HistoriesAreSound ==
    ASSUME NoRowApart, NEW requests, NEW n \in Nat, DOMAIN requests = 1 .. n,
           \A i \in 1 .. n : IsRequest(requests[i])
    PROVE  RegistrySound(Registry(requests), LastDecided(requests))
  <1>1. Registries!Picks(1 .. n) /\ Registries!LastPicked(n)
    BY LastOfPositions DEF Registries!Picks, Registries!LastPicked
  <1>3. RegistrySound(EmptyRegistry, DecisionsAfter(requests, 0))
    <2>1. Decisions!Picks(1 .. 0) /\ Decisions!LastPicked(0)
      BY LastOfPositions DEF Decisions!Picks, Decisions!LastPicked
    <2>2. DecisionsAfter(requests, 0) = Undecided
      BY <2>1, Decisions!ListEquation DEF DecisionsAfter
    <2> QED
      BY <2>2, RegistryBegins DEF Undecided
  <1>4. ASSUME NEW k \in 1 .. n, NEW reg,
               RegistrySound(reg, DecisionsAfter(requests, k - 1))
        PROVE  RegistrySound(Serve(reg, requests[k]), DecisionsAfter(requests, k))
    <2>1. k \in Nat /\ Decisions!Picks(1 .. k) /\ Decisions!LastPicked(k)
      BY LastOfPositions DEF Decisions!Picks, Decisions!LastPicked
    <2>2. DecisionsAfter(requests, k)
            = Decided(DecisionsAfter(requests, k - 1), requests[k])
      BY <2>1, Decisions!ListEquation DEF DecisionsAfter
    <2> QED
      BY <1>4, <2>2, RequestsKeepRegistry
  <1>5. RegistrySound(Registries!Fold(requests, EmptyRegistry, 1 .. n),
                      DecisionsAfter(requests, n))
    BY <1>1, <1>3, <1>4, Registries!ListKeeps
  <1> QED
    BY <1>5, RegistryFolds

(* ResolutionIsSound for any list of requests, any environment and any    *)
(* resolutions.                                                           *)
THEOREM HistoriesResolveSoundly ==
    ASSUME NoRowApart, NEW requests, NEW n \in Nat, DOMAIN requests = 1 .. n,
           \A i \in 1 .. n : IsRequest(requests[i]),
           NEW env, NEW resolutions, \A r \in resolutions : IsResolution(r)
    PROVE  ResolutionIsSound(requests, env, resolutions)
    BY HistoriesAreSound, SoundResolution DEF ResolutionIsSound

-----------------------------------------------------------------------------
(* The Anthropic key                                                      *)

(* A stored key is the one found, whatever the file and the environment hold. *)
THEOREM StoredKeysAreFound ==
    ASSUME \A f : IsTable(f) => f # NoRow,
           NEW envKey, NEW file, file = NoRow \/ IsTable(file), NEW key
    PROVE  StoredKeyIsFound(envKey, file, key)
  <1> DEFINE after == WriteCredentials(file, key)
  <1>1. SUFFICES ASSUME ValidKey(key)
                 PROVE  /\ Discover(envKey, after) =
                             Trim(IF ValidKey(envKey) THEN envKey ELSE key)
                        /\ file # NoRow =>
                             \A f \in DOMAIN file \ {"apiKey"} : after[f] = file[f]
    BY DEF StoredKeyIsFound
  <1>2. /\ IsTable(after) /\ "apiKey" \in DOMAIN after /\ after["apiKey"] = key
        /\ file # NoRow =>
             \A f \in DOMAIN file \ {"apiKey"} : after[f] = file[f]
    <2>1. CASE file = NoRow
      <3>1. after = [f \in {"apiKey"} |-> key]
        BY <1>1, <2>1 DEF WriteCredentials
      <3> QED
        BY <2>1, <3>1 DEF IsTable
    <2>2. CASE file # NoRow
      <3>1. after = [f \in DOMAIN file \cup {"apiKey"} |->
                      IF f = "apiKey" THEN key ELSE file[f]]
        BY <1>1, <2>2 DEF WriteCredentials
      <3> HIDE DEF after
      <3> QED
        BY <3>1 DEF IsTable
    <2> QED
      BY <2>1, <2>2
  <1> HIDE DEF after
  <1>3. DiscoverFile(after) = Trim(key)
    <2> DEFINE good  == {k \in DOMAIN KeyFields :
                          /\ KeyFields[k] \in DOMAIN after
                          /\ ValidKey(after[KeyFields[k]])}
               Least(k) == k \in good /\ \A j \in good : k <= j
               first == CHOOSE k \in good : \A j \in good : k <= j
    <2>1. DOMAIN KeyFields = 1 .. 4 /\ KeyFields[1] = "apiKey"
      BY DEF KeyFields
    <2>2. 1 \in good /\ good \subseteq 1 .. 4
      BY <1>1, <1>2, <2>1
    <2>3. after # NoRow
      BY <1>2
    <2>4. DiscoverFile(after) =
            IF good = {} THEN NotGiven ELSE Trim(after[KeyFields[first]])
      BY <2>3 DEF DiscoverFile
    <2> HIDE DEF good
    <2>5. Least(1)
      BY <2>2
    <2>6. first \in good /\ \A j \in good : first <= j
      BY <2>5
    <2> HIDE DEF first
    <2>7. first = 1
      BY <2>2, <2>6
    <2> QED
      BY <1>2, <2>1, <2>2, <2>4, <2>7
  <1> QED
    BY <1>2, <1>3 DEF Discover

-----------------------------------------------------------------------------
(* Decomposition: what the agents answer                                  *)

(* None is no list.                                                       *)
NoneApart == \A s : s = [k \in DOMAIN s |-> s[k]] => s # None

HasItems(task) == "items" \in DOMAIN task /\ task = [f \in DOMAIN task |-> task[f]]
HasTasks(epic) == "tasks" \in DOMAIN epic /\ epic = [f \in DOMAIN epic |-> epic[f]]
TasksHaveItems(epic) == \A j \in DOMAIN epic.tasks : HasItems(epic.tasks[j])

(* The last position of a title in a list is one.                         *)
LEMMA LastOfTitle ==
    ASSUME NEW S, NEW s \in Seq(S), NEW title,
           {i \in 1 .. Len(s) : s[i].title = title} # {}
    PROVE  Max({i \in 1 .. Len(s) : s[i].title = title}) \in DOMAIN s
  <1> DEFINE I == {i \in 1 .. Len(s) : s[i].title = title}
  <1>1. Len(s) \in Nat /\ I \in SUBSET (1 .. Len(s)) /\ DOMAIN s = 1 .. Len(s)
    OBVIOUS
  <1> HIDE DEF I
  <1>2. I # {}
    BY DEF I
  <1>3. Max(I) \in I
    BY <1>1, <1>2, LastIn
  <1>4. Max(I) \in DOMAIN s
    BY <1>1, <1>3
  <1> QED
    BY <1>4 DEF I

(* An item is never missing once the fallback is in.                      *)
LEMMA EnsuredItems ==
    ASSUME NoneApart, NEW task, HasItems(task)
    PROVE  Or(EnsureItem(task).items, <<>>) # <<>>
  <1>1. CASE Or(task.items, <<>>) = <<>>
    <2>1. EnsureItem(task) = [task EXCEPT !.items = <<FallbackItem>>]
      BY <1>1 DEF EnsureItem
    <2>2. EnsureItem(task).items = <<FallbackItem>>
      BY <2>1 DEF HasItems
    <2> QED
      BY <2>2 DEF Or, NoneApart
  <1>2. CASE Or(task.items, <<>>) # <<>>
    BY <1>2 DEF EnsureItem
  <1> QED
    BY <1>1, <1>2

LEMMA PlannedHasItems ==
    ASSUME NEW task, HasItems(task), NEW plans
    PROVE  HasItems(Planned(task, plans))
  <1>1. \/ Planned(task, plans) = task
        \/ \E items : Planned(task, plans) = [task EXCEPT !.items = items]
    BY DEF Planned
  <1>2. \A items : HasItems([task EXCEPT !.items = items])
    BY DEF HasItems
  <1> QED
    BY <1>1, <1>2

(* Whatever a designer answers, the reviewer's gate finds nothing missing. *)
LEMMA DesignIsComplete ==
    ASSUME NoneApart, NEW epics,
           \A k \in DOMAIN epics : HasTasks(epics[k]) /\ TasksHaveItems(epics[k]),
           NEW designed
    PROVE  ~MissesVerification(Design(epics, designed))
  <1> DEFINE result == Design(epics, designed)
             Plans(k) == IF epics[k].title = None THEN None
                         ELSE LastOf(designed, LAMBDA e : e.title = epics[k].title)
             Tasks(k) == [j \in DOMAIN epics[k].tasks |->
                            EnsureItem(Planned(epics[k].tasks[j], Plans(k)))]
  <1>1. /\ DOMAIN result = DOMAIN epics
        /\ \A k \in DOMAIN epics : result[k] = [epics[k] EXCEPT !.tasks = Tasks(k)]
    BY DEF Design
  <1>2. ASSUME NEW k \in DOMAIN epics, NEW j \in DOMAIN epics[k].tasks
        PROVE  Or(Tasks(k)[j].items, <<>>) # <<>>
    <2>1. HasItems(epics[k].tasks[j])
      BY DEF TasksHaveItems
    <2> HIDE DEF Plans
    <2>2. Tasks(k)[j] = EnsureItem(Planned(epics[k].tasks[j], Plans(k)))
      OBVIOUS
    <2> QED
      BY <2>1, <2>2, PlannedHasItems, EnsuredItems
  <1> HIDE DEF result, Tasks
  <1>3. ASSUME NEW k \in DOMAIN epics
        PROVE  result[k].tasks = Tasks(k)
    BY <1>1 DEF HasTasks
  <1>4. \A k \in DOMAIN epics : DOMAIN Tasks(k) = DOMAIN epics[k].tasks
    BY DEF Tasks
  <1>5. ~MissesVerification(result)
    BY <1>1, <1>2, <1>3, <1>4 DEF MissesVerification
  <1> QED
    BY <1>5 DEF result

LEMMA WrittenTasks ==
    ASSUME NEW epics, \A k \in DOMAIN epics : HasTasks(epics[k]),
           NEW S, NEW written \in Seq(S),
           \A k \in DOMAIN written : TasksHaveItems(written[k])
    PROVE  /\ DOMAIN WriteTasks(epics, written) = DOMAIN epics
           /\ \A k \in DOMAIN epics : /\ HasTasks(WriteTasks(epics, written)[k])
                                       /\ TasksHaveItems(WriteTasks(epics, written)[k])
  <1> DEFINE Answer(k) == IF epics[k].title = None THEN None
                          ELSE LastOf(written, LAMBDA e : e.title = epics[k].title)
             Tasks(k) == IF Answer(k) = None THEN <<>> ELSE Answer(k).tasks
  <1>1. /\ DOMAIN WriteTasks(epics, written) = DOMAIN epics
        /\ \A k \in DOMAIN epics :
              WriteTasks(epics, written)[k] = [epics[k] EXCEPT !.tasks = Tasks(k)]
    BY DEF WriteTasks
  <1>2. ASSUME NEW k \in DOMAIN epics
        PROVE  \A j \in DOMAIN Tasks(k) : HasItems(Tasks(k)[j])
    <2>1. Answer(k) # None => \E i \in DOMAIN written : Answer(k) = written[i]
      <3> DEFINE found == LastOf(written, LAMBDA e : e.title = epics[k].title)
             I == {i \in 1 .. Len(written) : written[i].title = epics[k].title}
             last == IF I # {} THEN Max(I) ELSE 0
      <3>1. found = IF last = 0 THEN None ELSE written[last]
        BY DEF LastOf, SelectLastInSeq
      <3>2. I # {} => Max(I) \in DOMAIN written
        BY LastOfTitle
      <3>3. found # None => \E i \in DOMAIN written : found = written[i]
        <4> HIDE DEF found, I
        <4> QED
          BY <3>1, <3>2
      <3>4. Answer(k) = IF epics[k].title = None THEN None ELSE found
        OBVIOUS
      <3> HIDE DEF found, Answer
      <3> QED
        BY <3>3, <3>4
    <2> HIDE DEF Answer
    <2>2. CASE Answer(k) = None
      BY <2>2
    <2>3. CASE Answer(k) # None
      BY <2>1, <2>3 DEF TasksHaveItems
    <2> QED
      BY <2>2, <2>3
  <1> HIDE DEF Tasks
  <1>3. ASSUME NEW k \in DOMAIN epics
        PROVE  LET epic == [epics[k] EXCEPT !.tasks = Tasks(k)] IN
               HasTasks(epic) /\ TasksHaveItems(epic)
    <2> DEFINE epic == [epics[k] EXCEPT !.tasks = Tasks(k)]
    <2>1. HasTasks(epic) /\ epic.tasks = Tasks(k)
      BY DEF HasTasks
    <2> QED
      BY <1>2, <2>1 DEF TasksHaveItems
  <1> QED
    BY <1>1, <1>3

(* The designer's first answer is the one that is taken: the reviewer never *)
(* sends a plan back (packages/planner/src/agents/orchestrator.ts).       *)
THEOREM FirstDesignStands ==
    ASSUME NoneApart, NEW epics, \A k \in DOMAIN epics : HasTasks(epics[k]),
           NEW S, NEW written \in Seq(S),
           \A k \in DOMAIN written : TasksHaveItems(written[k]),
           NEW T, NEW designs \in Seq(T), designs # <<>>
    PROVE  /\ Orchestrate(epics, written, designs)
                = Design(WriteTasks(epics, written), designs[1])
           /\ ~MissesVerification(Orchestrate(epics, written, designs))
  <1> DEFINE tasks == WriteTasks(epics, written)
             good  == {k \in DOMAIN designs :
                         ~MissesVerification(Design(tasks, designs[k]))}
             first == CHOOSE k \in good : \A j \in good : k <= j
  <1>1. \A d : ~MissesVerification(Design(tasks, d))
    BY WrittenTasks, DesignIsComplete
  <1>2. good = 1 .. Len(designs) /\ Len(designs) \in Nat \ {0}
    BY <1>1
  <1>3. Orchestrate(epics, written, designs) =
          IF good = {} THEN None ELSE Design(tasks, designs[first])
    BY DEF Orchestrate
  <1> HIDE DEF good, tasks
  <1>4. 1 \in good /\ \A j \in good : 1 <= j
    BY <1>2
  <1>5. first \in good /\ \A j \in good : first <= j
    BY <1>4
  <1> HIDE DEF first
  <1>6. first = 1
    BY <1>2, <1>4, <1>5
  <1> QED
    BY <1>1, <1>3, <1>4, <1>6 DEF tasks

-----------------------------------------------------------------------------
(* Decomposition: names, items and ratings                                *)

(* Numbers are written differently.                                       *)
NumbersDiffer == \A m, n \in Nat : ToString(m) = ToString(n) => m = n

(* The name that is reserved is free, however many are taken: the name that *)
(* was asked for, or that with a number.                                  *)
THEOREM ReservedIsFree ==
    ASSUME NumbersDiffer, NEW S, NEW id \in Seq(S), NEW used, IsFiniteSet(used)
    PROVE  /\ ReserveIdentifier(id, used) \notin used
           /\ \/ id \notin used /\ ReserveIdentifier(id, used) = id
              \/ \E n \in Nat : ReserveIdentifier(id, used) = Append(id, ToString(n))
  <1> DEFINE Nth(n) == Append(id, ToString(n))
             numbers == 2 .. Cardinality(used) + 2
             free == {n \in numbers : Nth(n) \notin used}
             Least(n) == /\ Nth(n) \notin used
                         /\ \A m \in 2 .. n - 1 : Nth(m) \in used
  <1>1. Cardinality(used) \in Nat
    BY FS_CardinalityType
  <1>2. \A m, n \in numbers : Nth(m) = Nth(n) => m = n
    <2> SUFFICES ASSUME NEW m \in numbers, NEW n \in numbers, Nth(m) = Nth(n)
                 PROVE  m = n
      OBVIOUS
    <2>1. Nth(m)[Len(id) + 1] = ToString(m) /\ Nth(n)[Len(id) + 1] = ToString(n)
      OBVIOUS
    <2>2. m \in Nat /\ n \in Nat
      BY <1>1
    <2> QED
      BY <2>1, <2>2 DEF NumbersDiffer
  <1>3. free # {}
    <2> SUFFICES ASSUME free = {}
                 PROVE  FALSE
      OBVIOUS
    <2> DEFINE f == [n \in numbers |-> Nth(n)]
    <2>1. IsFiniteSet(numbers) /\ Cardinality(numbers) = Cardinality(used) + 1
      <3> DEFINE top == Cardinality(used) + 2
      <3>1. top \in Int /\ 2 <= top /\ top - 2 + 1 = Cardinality(used) + 1
        BY <1>1
      <3> HIDE DEF top
      <3>2. IsFiniteSet(2 .. top) /\ Cardinality(2 .. top) = top - 2 + 1
        BY <3>1, FS_Interval
      <3>3. numbers = 2 .. top
        BY DEF top
      <3> HIDE DEF numbers
      <3> QED
        BY <3>1, <3>2, <3>3
    <2> HIDE DEF Nth
    <2>2. f \in [numbers -> used]
      OBVIOUS
    <2>3. Cardinality(used) < Cardinality(numbers)
      BY <1>1, <2>1
    <2> HIDE DEF f, numbers
    <2>4. \E m, n \in numbers : m # n /\ f[m] = f[n]
      BY <2>1, <2>2, <2>3, FS_PigeonHole
    <2>5. \A n \in numbers : f[n] = Nth(n)
      BY DEF f
    <2> QED
      BY <1>2, <2>4, <2>5
  <1>4. PICK n \in numbers : Least(n)
    <2> HIDE DEF Nth
    <2>1. free \in SUBSET Nat
      BY <1>1
    <2>2. PICK n \in free : \A m \in free : n <= m
      BY <1>3, <2>1, FirstOf
    <2>3. \A m \in 2 .. n - 1 : Nth(m) \in used
      <3> SUFFICES ASSUME NEW m \in 2 .. n - 1, Nth(m) \notin used
                   PROVE  FALSE
        OBVIOUS
      <3>1. m \in numbers /\ ~(n <= m)
        BY <1>1
      <3> QED
        BY <2>2, <3>1
    <2> QED
      BY <2>2, <2>3
  <1> DEFINE chosen == CHOOSE k \in numbers : Least(k)
  <1>5. chosen \in Nat /\ Nth(chosen) \notin used
    <2>1. numbers \subseteq Nat
      BY <1>1
    <2> HIDE DEF numbers, Nth
    <2>2. chosen \in numbers /\ Least(chosen)
      BY <1>4
    <2> QED
      BY <2>1, <2>2
  <1>6. ReserveIdentifier(id, used) =
          IF id \notin used THEN id
          ELSE Nth(chosen)
    BY DEF ReserveIdentifier
  <1> HIDE DEF chosen, numbers
  <1>7. Nth(chosen) = Append(id, ToString(chosen))
    OBVIOUS
  <1> HIDE DEF Nth
  <1> QED
    BY <1>5, <1>6, <1>7

(* What is rated, with the counts and kinds the score reads.              *)
Rated(task) ==
    /\ task.files \in Nat
    /\ \E S : task.requires \in Seq(S)
    /\ \E S : task.items \in Seq(S)

LEMMA KindsOfItems ==
    ASSUME NEW S, NEW items \in Seq(S)
    PROVE  IsFiniteSet({items[i].kind : i \in DOMAIN items})
  <1> DEFINE f == [i \in 1 .. Len(items) |-> items[i].kind]
             kinds == {items[i].kind : i \in DOMAIN items}
  <1>1. IsFiniteSet(1 .. Len(items)) /\ DOMAIN items = 1 .. Len(items)
    BY FS_Interval
  <1>2. f \in Surjection(1 .. Len(items), kinds)
    BY <1>1 DEF Surjection
  <1> HIDE DEF f, kinds
  <1>3. IsFiniteSet(kinds)
    BY <1>1, <1>2, FS_Surjection
  <1> QED
    BY <1>3 DEF kinds

(* A task that asks for no less is not rated easier.                      *)
THEOREM HarderIsNotEasier ==
    ASSUME NEW a, NEW b, Rated(a), Rated(b), AtMost(a, b)
    PROVE  Complexity(a) <= Complexity(b)
  <1> DEFINE KindsOf(t) == {t.items[i].kind : i \in DOMAIN t.items}
             Size(t) == Points(50 * t.files, 50, 200)
             Reach(t) == Points(t.files + Len(t.requires), 3, 6)
  <1>1. /\ a.files \in Nat /\ b.files \in Nat /\ a.files <= b.files
        /\ Len(a.requires) \in Nat /\ Len(b.requires) \in Nat
        /\ Len(a.requires) <= Len(b.requires)
    BY DEF Rated, AtMost
  <1>2. KindsOf(a) \subseteq KindsOf(b)
    BY DEF AtMost
  <1>3. IsFiniteSet(KindsOf(a)) /\ IsFiniteSet(KindsOf(b))
    BY KindsOfItems DEF Rated
  <1>4. Size(a) \in Int /\ Size(b) \in Int /\ Size(a) <= Size(b)
    <2> DEFINE x == 50 * a.files
               y == 50 * b.files
    <2>1. x \in Int /\ y \in Int /\ x <= y
      BY <1>1
    <2> HIDE DEF x, y
    <2>2. /\ Points(x, 50, 200) \in Int /\ Points(y, 50, 200) \in Int
          /\ Points(x, 50, 200) <= Points(y, 50, 200)
      BY <2>1 DEF Points
    <2> QED
      BY <2>2 DEF x, y
  <1>5. Reach(a) \in Int /\ Reach(b) \in Int /\ Reach(a) <= Reach(b)
    <2> DEFINE x == a.files + Len(a.requires)
               y == b.files + Len(b.requires)
    <2>1. x \in Int /\ y \in Int /\ x <= y
      BY <1>1
    <2> HIDE DEF x, y
    <2>2. /\ Points(x, 3, 6) \in Int /\ Points(y, 3, 6) \in Int
          /\ Points(x, 3, 6) <= Points(y, 3, 6)
      BY <2>1 DEF Points
    <2> QED
      BY <2>2 DEF x, y
  <1> HIDE DEF KindsOf
  <1>6. /\ Cardinality(KindsOf(a)) \in Nat /\ Cardinality(KindsOf(b)) \in Nat
        /\ Cardinality(KindsOf(a)) <= Cardinality(KindsOf(b))
    BY <1>2, <1>3, FS_CardinalityType, FS_Subset
  <1>7. /\ Diversity(KindsOf(a)) \in Int /\ Diversity(KindsOf(b)) \in Int
        /\ Diversity(KindsOf(a)) <= Diversity(KindsOf(b))
    BY <1>6 DEF Diversity
  <1>8. /\ Complexity(a) = (LET score == Size(a) + Reach(a) + Diversity(KindsOf(a))
                            IN IF score >= 5 THEN 3 ELSE IF score >= 2 THEN 2 ELSE 1)
        /\ Complexity(b) = (LET score == Size(b) + Reach(b) + Diversity(KindsOf(b))
                            IN IF score >= 5 THEN 3 ELSE IF score >= 2 THEN 2 ELSE 1)
    BY DEF Complexity, KindsOf
  <1> HIDE DEF Size, Reach
  <1> QED
    BY <1>4, <1>5, <1>7, <1>8

(* A proposal that is read back keeps its names and items.                *)
THEOREM ReadBackKeepsItems ==
    ASSUME NEW item
    PROVE  LET stored == NormalizeItem(item, "generated") IN
           NormalizeItem(stored, "strict") = stored
  <1> DEFINE stored == NormalizeItem(item, "generated")
             kind   == NormalizeKind(item.kind)
             runner == NormalizeRunner(item.runner, kind, "generated")
             command == Or(item.command, DefaultCommandForRunner(runner))
  <1>1. stored = [kind |-> kind, runner |-> runner, command |-> command]
    BY DEF NormalizeItem
  <1>2. kind \in Kinds
    BY DEF NormalizeKind, Kinds
  <1>3. runner \in Runners
    <2> HIDE DEF kind
    <2> QED
      BY <1>2 DEF NormalizeRunner, DefaultRunnerForKind, Kinds, Runners
  <1>4. Or(command, DefaultCommandForRunner(runner)) = command
    BY DEF Or
  <1> HIDE DEF stored, kind, runner, command
  <1>5. NormalizeKind(kind) = kind
    BY <1>2 DEF NormalizeKind
  <1>6. NormalizeRunner(runner, kind, "strict") = runner
    BY <1>3 DEF NormalizeRunner
  <1>7. NormalizeItem(stored, "strict") = stored
    BY <1>1, <1>4, <1>5, <1>6 DEF NormalizeItem
  <1> QED
    BY <1>7 DEF stored

THEOREM ReadBackKeepsNames ==
    ASSUME NEW S, NEW text \in Seq(S), text # <<>>, NEW namespace
    PROVE  /\ NormalizeIdentifier(NormalizeIdentifier(text)) = NormalizeIdentifier(text)
           /\ PrefixNamespace(namespace, PrefixNamespace(namespace, text))
                = PrefixNamespace(namespace, text)
  <1>1. NormalizeIdentifier(NormalizeIdentifier(text)) = NormalizeIdentifier(text)
    <2>1. CASE Blank(text)
      <3>1. NormalizeIdentifier(text) = <<"ITEM">>
        BY <2>1 DEF NormalizeIdentifier
      <3>2. ~Blank(<<"ITEM">>)
        BY DEF Blank
      <3>3. [k \in DOMAIN <<"ITEM">> |-> Upper(<<"ITEM">>[k])] = <<"ITEM">>
        BY DEF Upper
      <3> QED
        BY <3>1, <3>2, <3>3 DEF NormalizeIdentifier
    <2>2. CASE ~Blank(text)
      <3> DEFINE upper == [k \in DOMAIN text |-> Upper(text[k])]
      <3>1. NormalizeIdentifier(text) = upper
        BY <2>2 DEF NormalizeIdentifier
      <3>2. \A k \in DOMAIN text : Upper(upper[k]) = upper[k]
        BY DEF Upper
      <3>3. [k \in DOMAIN upper |-> Upper(upper[k])] = upper
        BY <3>2
      <3>4. ~Blank(upper)
        <4> SUFFICES ASSUME upper = <<"...">>
                     PROVE  text = <<"...">>
          BY <2>2 DEF Blank
        <4>1. DOMAIN upper = {1} /\ upper[1] = "..."
          OBVIOUS
        <4>2. DOMAIN text = {1}
          BY <4>1
        <4>3. Upper(text[1]) = "..."
          BY <4>1, <4>2
        <4>4. text[1] = "..."
          BY <4>3 DEF Upper
        <4>5. Len(text) = 1
          BY <4>2
        <4> QED
          BY <4>4, <4>5
      <3> QED
        BY <3>1, <3>3, <3>4 DEF NormalizeIdentifier
    <2> QED
      BY <2>1, <2>2
  <1>2. PrefixNamespace(namespace, PrefixNamespace(namespace, text))
          = PrefixNamespace(namespace, text)
    <2> DEFINE prefixed == <<namespace>> \o text
    <2>1. Len(prefixed) > 1 /\ Head(prefixed) = namespace
      OBVIOUS
    <2> HIDE DEF prefixed
    <2>2. PrefixNamespace(namespace, prefixed) = prefixed
      BY <2>1 DEF PrefixNamespace
    <2>3. PrefixNamespace(namespace, text)
            = IF Len(text) > 1 /\ Head(text) = namespace THEN text ELSE prefixed
      BY DEF PrefixNamespace, prefixed
    <2> QED
      BY <2>2, <2>3
  <1> QED
    BY <1>1, <1>2

-----------------------------------------------------------------------------
(* Benchmarks: scores                                                     *)

IsScore(n) == n \in Int /\ 0 <= n /\ n <= 10000

LEMMA ClampBounds ==
    ASSUME NEW n \in Int
    PROVE  IsScore(Clamp(n))
  BY DEF Clamp, IsScore

LEMMA RoundedIsInt ==
    ASSUME NEW n \in Int, NEW m \in Int, m > 0
    PROVE  Rounded(n, m) \in Int
  <1> DEFINE x == 2 * n + m
             y == 2 * m
  <1>1. x \in Int /\ y \in Int /\ y > 0
    OBVIOUS
  <1> HIDE DEF x, y
  <1>2. x \div y \in Int
    BY <1>1
  <1> QED
    BY <1>2 DEF Rounded, x, y

LEMMA PositionsCount ==
    ASSUME NEW list, IsList(list), NEW T \in SUBSET DOMAIN list
    PROVE  IsFiniteSet(T) /\ Cardinality(T) \in Nat /\ (Cardinality(T) = 0 <=> T = {})
  <1>1. DOMAIN list = 1 .. Len(list) /\ Len(list) \in Nat
    BY DEF IsList
  <1>2. IsFiniteSet(1 .. Len(list))
    BY <1>1, FS_Interval
  <1> QED
    BY <1>1, <1>2, FS_Subset, FS_CardinalityType, FS_EmptySet

LEMMA MissingCount ==
    ASSUME NEW names, IsList(names), NEW list
    PROVE  /\ MissingExpected(names, list) \in Nat
           /\ MissingExpected(names, list) = 0
                <=> \A k \in DOMAIN names : Key(names[k]) \in KeysOf(list)
  <1> DEFINE T == {k \in DOMAIN names : Key(names[k]) \notin KeysOf(list)}
  <1>1. MissingExpected(names, list) = Cardinality(T)
    BY DEF MissingExpected, CountOf
  <1>2. T \in SUBSET DOMAIN names
    OBVIOUS
  <1>3. T = {} <=> \A k \in DOMAIN names : Key(names[k]) \in KeysOf(list)
    OBVIOUS
  <1> HIDE DEF T
  <1> QED
    BY <1>1, <1>2, <1>3, PositionsCount

LEMMA UsedCount ==
    ASSUME NEW names, IsList(names), NEW list
    PROVE  /\ UsedOf(names, list) \in Nat
           /\ UsedOf(names, list) = 0
                <=> \A k \in DOMAIN names : Key(names[k]) \notin KeysOf(list)
  <1> DEFINE T == {k \in DOMAIN names : Key(names[k]) \in KeysOf(list)}
  <1>1. UsedOf(names, list) = Cardinality(T)
    BY DEF UsedOf, CountOf
  <1>2. T \in SUBSET DOMAIN names
    OBVIOUS
  <1>3. T = {} <=> \A k \in DOMAIN names : Key(names[k]) \notin KeysOf(list)
    OBVIOUS
  <1> HIDE DEF T
  <1> QED
    BY <1>1, <1>2, <1>3, PositionsCount

LEMMA ToolUsageBounds ==
    ASSUME NEW scenario, NEW calls,
           IsList(scenario.expectedTools), IsList(scenario.forbiddenTools)
    PROVE  /\ IsScore(ToolUsage(scenario, calls))
           /\ MissingExpected(scenario.expectedTools, calls) = 0
              /\ UsedOf(scenario.forbiddenTools, calls) = 0
                => ToolUsage(scenario, calls) = 10000
  <1> DEFINE e == Len(scenario.expectedTools)
             f == Len(scenario.forbiddenTools)
             pe == IF e = 0 THEN 1 ELSE e
             pf == IF f = 0 THEN 1 ELSE f
             missing == MissingExpected(scenario.expectedTools, calls)
             used == UsedOf(scenario.forbiddenTools, calls)
             lost == 7000 * missing * pf + 10000 * used * pe
             all == pe * pf
  <1>1. e \in Nat /\ f \in Nat /\ missing \in Nat /\ used \in Nat
    <2>1. e \in Nat /\ f \in Nat
      BY DEF IsList
    <2> QED
      BY <2>1, MissingCount, UsedCount
  <1>2. ToolUsage(scenario, calls) = Clamp(Rounded(10000 * all - lost, all))
    BY DEF ToolUsage
  <1> HIDE DEF e, f, missing, used
  <1>3. pe \in Int /\ pf \in Int /\ pe > 0 /\ pf > 0
    BY <1>1
  <1> HIDE DEF pe, pf
  <1>4. all \in Int /\ all > 0
    BY <1>3, Z3
  <1>5. lost \in Int
    <2>1. missing * pf \in Int /\ used * pe \in Int
      BY <1>1, <1>3
    <2>2. 7000 * missing * pf \in Int /\ 10000 * used * pe \in Int
      BY <1>1, <1>3
    <2> QED
      BY <2>2
  <1>6. missing = 0 /\ used = 0 => lost = 0
    BY <1>3
  <1> HIDE DEF all, lost
  <1>7. Rounded(10000 * all - lost, all) \in Int
    BY <1>4, <1>5, RoundedIsInt
  <1>8. lost = 0 => Rounded(10000 * all - lost, all) = 10000
    <2>1. (20001 * all) \div (2 * all) = 10000
      BY <1>4, Z3
    <2>2. lost = 0 => 2 * (10000 * all - lost) + all = 20001 * all
      BY <1>4
    <2> QED
      BY <2>1, <2>2 DEF Rounded
  <1>9. IsScore(ToolUsage(scenario, calls))
    BY <1>2, <1>7, ClampBounds
  <1>10. Clamp(10000) = 10000
    BY DEF Clamp
  <1>11. missing = 0 /\ used = 0 => ToolUsage(scenario, calls) = 10000
    BY <1>2, <1>6, <1>8, <1>10
  <1> QED
    BY <1>9, <1>11 DEF missing, used

LEMMA VerificationBounds ==
    ASSUME NEW scenario, NEW items,
           IsList(scenario.expectedItems), IsList(items)
    PROVE  IsScore(VerificationQuality(SummarizeVerification(scenario, items)))
  <1> DEFINE summary == SummarizeVerification(scenario, items)
             Of(status) == {k \in DOMAIN items : items[k].status = status}
  <1>1. summary.missing \in Nat
    BY MissingCount DEF SummarizeVerification
  <1>2. /\ summary.total = Len(items)
        /\ summary.passed = Cardinality(Of("passed"))
        /\ summary.failed = Cardinality(Of("failed"))
        /\ summary.skipped = Cardinality(Of("skipped"))
        /\ summary.blocked = Cardinality(Of("blocked"))
    BY DEF SummarizeVerification, CountOf
  <1>3. \A status : Cardinality(Of(status)) \in Nat
    <2> TAKE status
    <2>1. Of(status) \in SUBSET DOMAIN items
      OBVIOUS
    <2> HIDE DEF Of
    <2> QED
      BY <2>1, PositionsCount
  <1> HIDE DEF Of
  <1>7. /\ summary.total \in Nat /\ summary.passed \in Nat /\ summary.failed \in Nat
        /\ summary.skipped \in Nat /\ summary.blocked \in Nat
    <2>1. Len(items) \in Nat
      BY DEF IsList
    <2> QED
      BY <1>2, <1>3, <2>1
  <1> HIDE DEF summary
  <1>8. ASSUME summary.total = 0
        PROVE  IsScore(VerificationQuality(summary))
    BY <1>8 DEF VerificationQuality, IsScore
  <1>9. ASSUME summary.total # 0
        PROVE  IsScore(VerificationQuality(summary))
    <2> DEFINE share == Rounded(10000 * (summary.passed + summary.skipped),
                                summary.total)
    <2>1. share \in Int
      <3>1. /\ 10000 * (summary.passed + summary.skipped) \in Int
            /\ summary.total \in Int /\ summary.total > 0
        BY <1>7, <1>9
      <3> DEFINE n == 10000 * (summary.passed + summary.skipped)
                 m == summary.total
      <3>2. n \in Int /\ m \in Int /\ m > 0
        BY <3>1
      <3> HIDE DEF n, m
      <3>3. Rounded(n, m) \in Int
        BY <3>2, RoundedIsInt
      <3> QED
        BY <3>3 DEF n, m
    <2> HIDE DEF share
    <2>2. VerificationQuality(summary)
            = Clamp(share - 2000 * summary.missing
                     - 2500 * (summary.blocked + summary.failed))
      BY <1>9 DEF VerificationQuality, share
    <2>3. share - 2000 * summary.missing - 2500 * (summary.blocked + summary.failed)
            \in Int
      BY <1>1, <1>7, <2>1
    <2> QED
      BY <2>2, <2>3, ClampBounds
  <1>10. IsScore(VerificationQuality(summary))
    BY <1>8, <1>9
  <1> QED
    BY <1>10 DEF summary

(* Evidence whose numbers are integers.                                   *)
LEMMA EvidenceBounds ==
    ASSUME NEW e, IsEvidence(e)
    PROVE  IsScore(FromEvidence(e))
  <1>1. CASE "score" \in DOMAIN e
    BY <1>1, ClampBounds DEF FromEvidence, IsEvidence
  <1>2. CASE "score" \notin DOMAIN e /\ "passed" \in DOMAIN e
    BY <1>2 DEF FromEvidence, IsScore
  <1>3. CASE "score" \notin DOMAIN e /\ "passed" \notin DOMAIN e
    <2>1. CASE Field(e, "total", 0) > 0
      <3>1. Field(e, "total", 0) = e.total
        BY <2>1 DEF Field
      <3>2. Rounded(10000 * e.passedCount, e.total) \in Int
        <4>1. e.total \in Int /\ e.total > 0 /\ 10000 * e.passedCount \in Int
          BY <2>1, <3>1 DEF IsEvidence
        <4> QED
          BY <4>1, RoundedIsInt
      <3>3. FromEvidence(e) = Clamp(Rounded(10000 * e.passedCount, e.total))
        BY <1>3, <2>1 DEF FromEvidence
      <3> QED
        BY <3>2, <3>3, ClampBounds
    <2>2. CASE ~(Field(e, "total", 0) > 0)
      BY <1>3, <2>2 DEF FromEvidence, IsScore
    <2> QED
      BY <2>1, <2>2
  <1> QED
    BY <1>1, <1>2, <1>3

(* A scenario and a run of it, as the schemas take them.                  *)
LEMMA ScoreIsBounded ==
    ASSUME NEW scenario, IsScenario(scenario), NEW entry, IsRunInput(entry),
           NEW d \in Dimensions, NEW unsafe
    PROVE  IsScore(ScoreDimension(d, scenario, entry,
             SummarizeVerification(scenario, entry.items), unsafe).score)
  <1> DEFINE summary == SummarizeVerification(scenario, entry.items)
             score == ScoreDimension(d, scenario, entry, summary, unsafe).score
  <1>1. IsScore(ToolUsage(scenario, entry.calls))
    BY ToolUsageBounds DEF IsScenario
  <1>2. IsScore(VerificationQuality(summary))
    BY VerificationBounds DEF IsScenario, IsRunInput
  <1>3. score = IF d \in DOMAIN entry.evidence THEN FromEvidence(entry.evidence[d])
                ELSE Inferred(d, scenario, entry.calls, summary, unsafe)
    BY DEF ScoreDimension
  <1>4. d \in DOMAIN entry.evidence => IsScore(FromEvidence(entry.evidence[d]))
    BY EvidenceBounds DEF IsRunInput
  <1> HIDE DEF summary
  <1>5. IsScore(Inferred(d, scenario, entry.calls, summary, unsafe))
    <2>1. /\ IsScore(IF unsafe = {} THEN 10000 ELSE 0)
          /\ IsScore(IF summary.allRequiredPassed THEN 10000 ELSE 0)
          /\ IsScore(IF unsafe = {} /\ summary.allRequiredPassed THEN 10000 ELSE 5000)
          /\ IsScore(7500)
      BY DEF IsScore
    <2> QED
      BY <1>1, <1>2, <2>1 DEF Inferred
  <1> HIDE DEF score
  <1>6. IsScore(score)
    BY <1>3, <1>4, <1>5
  <1> QED
    BY <1>6 DEF score, summary

(* Benchmarks: comparisons                                                *)

(* What a comparison finds wrong.                                         *)
Worse(baseline, candidate, policy) ==
    \/ candidate.aggregateScore - baseline.aggregateScore
         < -Field(policy, "aggregateDropTolerance", 200)
    \/ HardFailBlockers(baseline, candidate) # {}
    \/ candidate.unsafe # {}
    \/ OutcomeDropped(baseline, candidate)
    \/ /\ Field(policy, "blockOnRetryIncrease", FALSE)
       /\ candidate.retryCount > Field(baseline, "retryCount", 0)

LEMMA CompareStatus ==
    ASSUME NEW baseline, NEW candidate, NEW policy
    PROVE  Compare(baseline, candidate, policy).status
             = IF Worse(baseline, candidate, policy) THEN "blocked" ELSE "passed"
  <1> DEFINE drop == candidate.aggregateScore - baseline.aggregateScore
                       < -Field(policy, "aggregateDropTolerance", 200)
             retries == candidate.retryCount > Field(baseline, "retryCount", 0)
             strict == Field(policy, "blockOnRetryIncrease", FALSE)
             Found(b) == CASE b = "AGGREGATE_DROP" -> drop
                 [] b = "HARD_FAIL_DIMENSION" -> HardFailBlockers(baseline, candidate) # {}
                 [] b = "UNSAFE_MCP_ATTEMPT" -> candidate.unsafe # {}
                 [] b = "OUTCOME_CORRECTNESS_DROP" -> OutcomeDropped(baseline, candidate)
                 [] b = "RETRY_COUNT_INCREASE" -> strict /\ retries
             blockers == {b \in {"AGGREGATE_DROP", "HARD_FAIL_DIMENSION",
                                 "UNSAFE_MCP_ATTEMPT", "OUTCOME_CORRECTNESS_DROP",
                                 "RETRY_COUNT_INCREASE"} : Found(b)}
  <1>1. Compare(baseline, candidate, policy).status
          = IF blockers = {} THEN "passed" ELSE "blocked"
    BY DEF Compare
  <1>2. Found("AGGREGATE_DROP") <=> drop
    OBVIOUS
  <1>3. Found("HARD_FAIL_DIMENSION") <=> HardFailBlockers(baseline, candidate) # {}
    OBVIOUS
  <1>4. Found("UNSAFE_MCP_ATTEMPT") <=> candidate.unsafe # {}
    OBVIOUS
  <1>5. Found("OUTCOME_CORRECTNESS_DROP") <=> OutcomeDropped(baseline, candidate)
    BY DEF OutcomeDropped
  <1>6. Found("RETRY_COUNT_INCREASE") <=> strict /\ retries
    OBVIOUS
  <1>7. blockers = {} <=> ~( \/ Found("AGGREGATE_DROP") \/ Found("HARD_FAIL_DIMENSION")
                             \/ Found("UNSAFE_MCP_ATTEMPT")
                             \/ Found("OUTCOME_CORRECTNESS_DROP")
                             \/ Found("RETRY_COUNT_INCREASE"))
    <2> HIDE DEF Found
    <2> QED
      OBVIOUS
  <1>8. Worse(baseline, candidate, policy)
          <=> \/ drop \/ HardFailBlockers(baseline, candidate) # {}
              \/ candidate.unsafe # {} \/ OutcomeDropped(baseline, candidate)
              \/ strict /\ retries
    BY DEF Worse
  <1> HIDE DEF Found, blockers, drop, retries, strict
  <1> QED
    BY <1>1, <1>2, <1>3, <1>4, <1>5, <1>6, <1>7, <1>8

(* The threshold of a dimension in a scenario, and whether it blocks.     *)
PassThreshold(scenario, d) ==
    Field(Field(scenario.dimensions, d, <<>>), "passThreshold", Thresholds[d])
FailsHard(scenario, d) ==
    Field(Field(scenario.dimensions, d, <<>>), "hardFail", d \in HardFails)

LEMMA ScoredRun ==
    ASSUME NEW scenario, IsScenario(scenario), NEW entry, IsRunInput(entry)
    PROVE  LET run == ScoreBenchmarkRun(scenario, entry) IN
           /\ DOMAIN run.dimensionScores = Dimensions
           /\ \A d \in Dimensions :
                /\ IsScore(run.dimensionScores[d].score)
                /\ run.dimensionScores[d].passThreshold = PassThreshold(scenario, d)
                /\ run.dimensionScores[d].hardFail = FailsHard(scenario, d)
                /\ run.dimensionScores[d].passed
                     = (run.dimensionScores[d].score >= PassThreshold(scenario, d))
           /\ run.verdict = "blocked" <=>
                \/ run.unsafe # {}
                \/ \E d \in Dimensions : /\ run.dimensionScores[d].hardFail
                                         /\ ~run.dimensionScores[d].passed
           /\ run.unsafe = UnsafeAttempts(scenario, entry.calls)
           /\ Field(run, "retryCount", 0) = entry.retryCount
           /\ run.retryCount = entry.retryCount
  <1> DEFINE unsafe == UnsafeAttempts(scenario, entry.calls)
             summary == SummarizeVerification(scenario, entry.items)
             scores == [d \in Dimensions |->
                         ScoreDimension(d, scenario, entry, summary, unsafe)]
             aggregate == AggregateScore(scores)
             verdict == CASE unsafe # {} \/ \E d \in Dimensions :
                               scores[d].hardFail /\ ~scores[d].passed -> "blocked"
                          [] OTHER ->
                             IF aggregate >= scenario.passThreshold
                                /\ summary.allRequiredPassed
                             THEN "passed"
                             ELSE IF aggregate >= scenario.warnThreshold
                             THEN "warned" ELSE "failed"
             run == ScoreBenchmarkRun(scenario, entry)
  <1>1. run = [aggregateScore |-> aggregate, dimensionScores |-> scores,
               allRequiredPassed |-> summary.allRequiredPassed, unsafe |-> unsafe,
               retryCount |-> entry.retryCount, modelCost |-> entry.modelCost,
               verdict |-> verdict]
    BY DEF ScoreBenchmarkRun
  <1>2. \A d \in Dimensions :
          /\ IsScore(scores[d].score)
          /\ scores[d].passThreshold = PassThreshold(scenario, d)
          /\ scores[d].hardFail = FailsHard(scenario, d)
          /\ scores[d].passed = (scores[d].score >= PassThreshold(scenario, d))
    <2> TAKE d \in Dimensions
    <2>1. IsScore(scores[d].score)
      BY ScoreIsBounded
    <2> HIDE DEF summary, unsafe
    <2>2. scores[d] = ScoreDimension(d, scenario, entry, summary, unsafe)
      OBVIOUS
    <2> HIDE DEF scores
    <2>3. /\ scores[d].passThreshold = PassThreshold(scenario, d)
          /\ scores[d].hardFail = FailsHard(scenario, d)
          /\ scores[d].passed = (scores[d].score >= PassThreshold(scenario, d))
      BY <2>2 DEF ScoreDimension, PassThreshold, FailsHard
    <2> QED
      BY <2>1, <2>3
  <1>3. DOMAIN scores = Dimensions
    OBVIOUS
  <1> HIDE DEF scores, aggregate, summary, unsafe
  <1>4. verdict = "blocked" <=>
          unsafe # {} \/ \E d \in Dimensions : scores[d].hardFail /\ ~scores[d].passed
    <2> DEFINE bad == unsafe # {} \/ \E d \in Dimensions :
                                      scores[d].hardFail /\ ~scores[d].passed
               rest == IF aggregate >= scenario.passThreshold
                          /\ summary.allRequiredPassed
                       THEN "passed"
                       ELSE IF aggregate >= scenario.warnThreshold
                       THEN "warned" ELSE "failed"
    <2>1. verdict = CASE bad -> "blocked" [] OTHER -> rest
      OBVIOUS
    <2>2. rest # "blocked"
      OBVIOUS
    <2> HIDE DEF bad, rest, verdict
    <2>3. verdict = "blocked" <=> bad
      BY <2>1, <2>2
    <2> QED
      BY <2>3 DEF bad
  <1> HIDE DEF verdict, run
  <1>5. /\ run.dimensionScores = scores /\ run.verdict = verdict
        /\ run.unsafe = unsafe /\ run.retryCount = entry.retryCount
        /\ "retryCount" \in DOMAIN run
    BY <1>1
  <1> QED
    BY <1>2, <1>3, <1>4, <1>5 DEF run, unsafe, Field

(* The aggregate score is a sum.                                          *)
LEMMA DimensionsFinite == IsFiniteSet(Dimensions)
  <1> DEFINE names == <<"planner_quality", "task_decomposition", "execution_quality",
                        "tool_usage_quality", "verification_quality",
                        "outcome_correctness", "security_policy_compliance",
                        "regression_risk">>
  <1>1. IsFiniteSet(1 .. 8)
    <2> HIDE DEF names
    <2>1. 1 \in Int /\ 8 \in Int
      OBVIOUS
    <2> QED
      BY <2>1, FS_Interval
  <1>2. names \in Surjection(1 .. 8, Dimensions)
    <2>1. names \in [1 .. 8 -> Dimensions]
      BY DEF Dimensions, Thresholds
    <2>2. \A d \in Dimensions : \E k \in 1 .. 8 : names[k] = d
      <3> SUFFICES ASSUME NEW d \in Dimensions
                   PROVE  \E k \in 1 .. 8 : names[k] = d
        OBVIOUS
      <3>1. /\ names[1] = "planner_quality" /\ names[2] = "task_decomposition"
            /\ names[3] = "execution_quality" /\ names[4] = "tool_usage_quality"
            /\ names[5] = "verification_quality" /\ names[6] = "outcome_correctness"
            /\ names[7] = "security_policy_compliance" /\ names[8] = "regression_risk"
        OBVIOUS
      <3>2. d \in {names[1], names[2], names[3], names[4], names[5], names[6],
                   names[7], names[8]}
        BY <3>1 DEF Dimensions, Thresholds
      <3> HIDE DEF names
      <3> QED
        BY <3>2
    <2> HIDE DEF names
    <2> QED
      BY <2>1, <2>2 DEF Surjection, Injection
  <1> QED
    BY <1>1, <1>2, FS_Surjection

(* Sums of natural numbers.                                               *)
Plus(y, x) == x + y
IsNatural(y) == y \in Nat
WeightOf(p, d) == p[d].weight
WeightedScore(p, d) == p[d].score * p[d].weight

WeightSums == INSTANCE FoldFacts
    WITH Op <- LAMBDA p, y, x : Plus(y, x), Value <- LAMBDA p, d : WeightOf(p, d),
         Pick <- LAMBDA s : CHOOSE x \in s : TRUE, Inv <- LAMBDA p, n, y : IsNatural(y)
ScoreSums == INSTANCE FoldFacts
    WITH Op <- LAMBDA p, y, x : Plus(y, x), Value <- LAMBDA p, d : WeightedScore(p, d),
         Pick <- LAMBDA s : CHOOSE x \in s : TRUE, Inv <- LAMBDA p, n, y : IsNatural(y)

LEMMA SumsAreNaturals ==
    ASSUME NEW scores, IsFiniteSet(DOMAIN scores),
           \A d \in DOMAIN scores : IsScore(scores[d].score) /\ scores[d].weight \in Nat
    PROVE  /\ MapThenSumSet(LAMBDA d : scores[d].weight, DOMAIN scores) \in Nat
           /\ MapThenSumSet(LAMBDA d : scores[d].score * scores[d].weight,
                            DOMAIN scores) \in Nat
  <1> DEFINE D == DOMAIN scores
             total == MapThenSumSet(LAMBDA d : scores[d].weight, D)
             sum == MapThenSumSet(LAMBDA d : scores[d].score * scores[d].weight, D)
  <1>1. total = WeightSums!Fold(scores, 0, D)
    BY DEF MapThenSumSet, MapThenFoldSet, WeightSums!Fold, WeightSums!MapThenFoldSet,
           Plus, WeightOf
  <1>2. sum = ScoreSums!Fold(scores, 0, D)
    BY DEF MapThenSumSet, MapThenFoldSet, ScoreSums!Fold, ScoreSums!MapThenFoldSet,
           Plus, WeightedScore
  <1>3. WeightSums!Picks(D) /\ ScoreSums!Picks(D)
    BY SmallestSets DEF WeightSums!Picks, ScoreSums!Picks
  <1>4. IsNatural(0)
    BY DEF IsNatural
  <1>5. \A s \in SUBSET D : s # {} => \A y : IsNatural(y) =>
          IsNatural(Plus(y, WeightOf(scores, CHOOSE x \in s : TRUE)))
    BY DEF IsNatural, Plus, WeightOf
  <1>6. \A d \in D : scores[d].score * scores[d].weight \in Nat
    BY DEF IsScore
  <1>7. \A s \in SUBSET D : s # {} => \A y : IsNatural(y) =>
          IsNatural(Plus(y, WeightedScore(scores, CHOOSE x \in s : TRUE)))
    BY <1>6 DEF IsNatural, Plus, WeightedScore
  <1> HIDE DEF D, total, sum
  <1>8. IsNatural(WeightSums!Fold(scores, 0, D))
    BY <1>3, <1>4, <1>5, WeightSums!FoldKeeps
  <1>9. IsNatural(ScoreSums!Fold(scores, 0, D))
    BY <1>3, <1>4, <1>7, ScoreSums!FoldKeeps
  <1>10. total \in Nat /\ sum \in Nat
    BY <1>1, <1>2, <1>8, <1>9 DEF IsNatural
  <1> QED
    BY <1>10 DEF D, total, sum

LEMMA AggregateIsInt ==
    ASSUME NEW scores, IsFiniteSet(DOMAIN scores),
           \A d \in DOMAIN scores : IsScore(scores[d].score) /\ scores[d].weight \in Nat
    PROVE  AggregateScore(scores) \in Int
  <1> DEFINE total == MapThenSumSet(LAMBDA d : scores[d].weight, DOMAIN scores)
             sum == MapThenSumSet(LAMBDA d : scores[d].score * scores[d].weight,
                                  DOMAIN scores)
  <1>1. total \in Nat /\ sum \in Nat
    BY SumsAreNaturals
  <1>2. AggregateScore(scores) = IF total = 0 THEN 0 ELSE Rounded(sum, total)
    BY DEF AggregateScore
  <1> HIDE DEF total, sum
  <1> QED
    BY <1>1, <1>2, RoundedIsInt

(* The aggregate of a run is a whole number.                              *)
LEMMA RunAggregate ==
    ASSUME NEW scenario, IsScenario(scenario), NEW entry, IsRunInput(entry)
    PROVE  ScoreBenchmarkRun(scenario, entry).aggregateScore \in Int
  <1> DEFINE run == ScoreBenchmarkRun(scenario, entry)
             scores == run.dimensionScores
  <1>1. run.aggregateScore = AggregateScore(scores)
    BY DEF ScoreBenchmarkRun
  <1>2. DOMAIN scores = Dimensions /\ \A d \in Dimensions : IsScore(scores[d].score)
    BY ScoredRun
  <1>3. \A d \in Dimensions : scores[d].weight \in Nat
    BY DEF ScoreBenchmarkRun, ScoreDimension, IsScenario
  <1> HIDE DEF run, scores
  <1>4. IsFiniteSet(DOMAIN scores)
    BY <1>2, DimensionsFinite
  <1>5. AggregateScore(scores) \in Int
    BY <1>2, <1>3, <1>4, AggregateIsInt
  <1> QED
    BY <1>1, <1>5 DEF run

(* A run against itself, and a blocked run against one that was not.      *)
LEMMA ComparedAsScored ==
    ASSUME NEW scenario, IsScenario(scenario), NEW base, IsRunInput(base),
           NEW cand, IsRunInput(cand), NEW policy,
           Field(policy, "aggregateDropTolerance", 200) \in Nat,
           ScoreBenchmarkRun(scenario, base).verdict # "blocked"
    PROVE  LET b == ScoreBenchmarkRun(scenario, base)
               c == ScoreBenchmarkRun(scenario, cand) IN
           /\ Compare(b, b, policy).status = "passed"
           /\ c.verdict = "blocked" => Compare(b, c, policy).status = "blocked"
  <1> DEFINE b == ScoreBenchmarkRun(scenario, base)
             c == ScoreBenchmarkRun(scenario, cand)
             Hard(d) == FailsHard(scenario, d)
             Least(d) == PassThreshold(scenario, d)
  <1>1. /\ DOMAIN b.dimensionScores = Dimensions
        /\ \A d \in Dimensions :
             /\ IsScore(b.dimensionScores[d].score)
             /\ b.dimensionScores[d].passThreshold = Least(d)
             /\ b.dimensionScores[d].hardFail = Hard(d)
             /\ b.dimensionScores[d].passed = (b.dimensionScores[d].score >= Least(d))
        /\ b.unsafe = {}
        /\ \A d \in Dimensions : Hard(d) => b.dimensionScores[d].passed
        /\ Field(b, "retryCount", 0) = base.retryCount
        /\ b.retryCount = base.retryCount
    BY ScoredRun
  <1>2. /\ DOMAIN c.dimensionScores = Dimensions
        /\ \A d \in Dimensions :
             /\ IsScore(c.dimensionScores[d].score)
             /\ c.dimensionScores[d].passThreshold = Least(d)
             /\ c.dimensionScores[d].hardFail = Hard(d)
             /\ c.dimensionScores[d].passed = (c.dimensionScores[d].score >= Least(d))
        /\ c.verdict = "blocked" =>
             c.unsafe # {} \/ \E d \in Dimensions : Hard(d) /\ ~c.dimensionScores[d].passed
    BY ScoredRun
  <1>3. b.aggregateScore \in Int /\ base.retryCount \in Nat
    BY RunAggregate DEF IsRunInput
  <1>4. \A d \in Dimensions : Least(d) \in Int
    BY DEF IsScenario, PassThreshold
  <1> HIDE DEF b, c, Hard, Least
  <1>5. Compare(b, b, policy).status = "passed"
    <2>1. ~(b.aggregateScore - b.aggregateScore
              < -Field(policy, "aggregateDropTolerance", 200))
      BY <1>3
    <2>2. HardFailBlockers(b, b) = {}
      BY <1>1 DEF HardFailBlockers
    <2>3. ~OutcomeDropped(b, b)
      <3> SUFFICES ASSUME OutcomeDropped(b, b)
                   PROVE  FALSE
        OBVIOUS
      <3> DEFINE s == b.dimensionScores["outcome_correctness"]
      <3>1. "outcome_correctness" \in Dimensions
        BY <1>1 DEF OutcomeDropped
      <3>2. s.score \in Int /\ s.passThreshold \in Int
        BY <1>1, <1>4, <3>1 DEF IsScore
      <3>3. s.score < s.passThreshold /\ s.score >= s.passThreshold
        BY DEF OutcomeDropped
      <3> HIDE DEF s
      <3> QED
        BY <3>2, <3>3
    <2>4. ~(b.retryCount > Field(b, "retryCount", 0))
      BY <1>1, <1>3
    <2>5. ~Worse(b, b, policy)
      BY <1>1, <2>1, <2>2, <2>3, <2>4 DEF Worse
    <2> QED
      BY <2>5, CompareStatus
  <1>6. ASSUME c.verdict = "blocked"
        PROVE  Compare(b, c, policy).status = "blocked"
    <2>1. CASE c.unsafe # {}
      BY <2>1, CompareStatus DEF Worse
    <2>2. CASE \E d \in Dimensions : Hard(d) /\ ~c.dimensionScores[d].passed
      <3>1. PICK d \in Dimensions : Hard(d) /\ ~c.dimensionScores[d].passed
        BY <2>2
      <3>2. c.dimensionScores[d].score < Least(d) /\ c.dimensionScores[d].score >= 0
        <4>1. IsScore(c.dimensionScores[d].score) /\ Least(d) \in Int
          BY <1>2, <1>4
        <4>2. ~(c.dimensionScores[d].score >= Least(d))
          BY <1>2, <3>1
        <4> QED
          BY <4>1, <4>2 DEF IsScore
      <3>3. b.dimensionScores[d].score >= Least(d)
        BY <1>1, <3>1
      <3>4. b.dimensionScores[d].score > 0
        <4>1. /\ b.dimensionScores[d].score \in Int /\ c.dimensionScores[d].score \in Int
              /\ Least(d) \in Int
          BY <1>1, <1>2, <1>4 DEF IsScore
        <4> QED
          BY <3>2, <3>3, <4>1
      <3>5. d \in HardFailBlockers(b, c)
        BY <1>1, <1>2, <3>1, <3>4 DEF HardFailBlockers
      <3> QED
        BY <3>5, CompareStatus DEF Worse
    <2> QED
      BY <1>2, <1>6, <2>1, <2>2
  <1> QED
    BY <1>5, <1>6 DEF b, c

(* The dimensions whose failure blocks, when the scenario says nothing: all *)
(* or nothing, and told by their thresholds once stored.                  *)
LEMMA HardFailsStored ==
    ASSUME NEW scenario, scenario.dimensions = <<>>, NEW d \in Dimensions
    PROVE  /\ PassThreshold(scenario, d) = Thresholds[d] /\ Thresholds[d] \in Int
           /\ Thresholds[d] > 0 /\ Thresholds[d] <= 10000
           /\ FailsHard(scenario, d) <=> d \in HardFails
           /\ Thresholds[d] >= 8500 <=> d \in HardFails
  <1>1. Field(scenario.dimensions, d, <<>>) = <<>>
    BY DEF Field
  <1>2. PassThreshold(scenario, d) = Thresholds[d]
    BY <1>1 DEF PassThreshold, Field
  <1>3. FailsHard(scenario, d) <=> d \in HardFails
    BY <1>1 DEF FailsHard, Field
  <1>4. /\ Thresholds[d] \in Int /\ Thresholds[d] > 0 /\ Thresholds[d] <= 10000
        /\ Thresholds[d] >= 8500 <=> d \in HardFails
    BY DEF Thresholds, Dimensions, HardFails
  <1> QED
    BY <1>2, <1>3, <1>4

LEMMA HardFailScores ==
    ASSUME NEW scenario, NEW entry, NEW d \in HardFails, d \notin DOMAIN entry.evidence
    PROVE  LET run == ScoreBenchmarkRun(scenario, entry) IN
           /\ run.dimensionScores[d].score \in {0, 10000}
           /\ d = "security_policy_compliance" /\ run.unsafe # {} =>
                run.dimensionScores[d].score = 0
  <1> DEFINE unsafe == UnsafeAttempts(scenario, entry.calls)
             summary == SummarizeVerification(scenario, entry.items)
             score == Inferred(d, scenario, entry.calls, summary, unsafe)
             run == ScoreBenchmarkRun(scenario, entry)
  <1>1. run.unsafe = unsafe
    BY DEF ScoreBenchmarkRun
  <1>2. d \in Dimensions
    BY DEF HardFails, Dimensions, Thresholds
  <1>3. run.dimensionScores[d] = ScoreDimension(d, scenario, entry, summary, unsafe)
    BY <1>2 DEF ScoreBenchmarkRun
  <1> HIDE DEF unsafe, summary, run
  <1>4. run.dimensionScores[d].score = score
    BY <1>3 DEF ScoreDimension
  <1>5. \/ /\ d = "security_policy_compliance"
           /\ score = IF unsafe = {} THEN 10000 ELSE 0
        \/ /\ d = "outcome_correctness"
           /\ score = IF summary.allRequiredPassed THEN 10000 ELSE 0
    <2>1. CASE d = "security_policy_compliance"
      BY <2>1 DEF Inferred
    <2>2. CASE d = "outcome_correctness"
      BY <2>2 DEF Inferred
    <2> QED
      BY <2>1, <2>2 DEF HardFails
  <1> HIDE DEF score
  <1>6. /\ run.dimensionScores[d].score \in {0, 10000}
        /\ d = "security_policy_compliance" /\ run.unsafe # {} =>
             run.dimensionScores[d].score = 0
    BY <1>1, <1>4, <1>5
  <1> QED
    BY <1>6 DEF run

LEMMA PointsOfScore ==
    /\ Points100(0) = 0
    /\ Points100(10000) = 10000
    /\ \A n \in Int : Points100(n) \in Int
  BY DEF Points100, Rounded

(* A stored result blocks by its threshold, and passes by its score.      *)
Blocks(threshold) == threshold >= 8500
Reached(score, threshold) == score >= threshold

(* What is left of a run once it is a baseline, and once it is a candidate. *)
LEMMA StoredBaseline ==
    ASSUME NEW run
    PROVE  LET row == CreateRegressionBaseline(EvalRun(run), <<>>) IN
           /\ row.aggregateScore = Points100(run.aggregateScore)
           /\ DOMAIN row.dimensionScores = Dimensions
           /\ \A d \in Dimensions :
                /\ row.dimensionScores[d].score = Points100(run.dimensionScores[d].score)
                /\ row.dimensionScores[d].hardFail
                     = Blocks(run.dimensionScores[d].passThreshold)
           /\ Field(row, "allRequiredPassed", FALSE) = FALSE
           /\ Field(row, "retryCount", 0) = 0
  <1> DEFINE results == [d \in Dimensions |->
                          [score |-> Points100(run.dimensionScores[d].score),
                           threshold |-> run.dimensionScores[d].passThreshold]]
             stored == EvalRun(run)
             scores == [d \in DOMAIN stored.results |->
                         [score |-> stored.results[d].score,
                          hardFail |-> stored.results[d].threshold >= 8500]]
             plain == [aggregateScore |-> stored.aggregateScore,
                       dimensionScores |-> scores]
             row == CreateRegressionBaseline(EvalRun(run), <<>>)
  <1>1. stored.results = results /\ stored.aggregateScore = Points100(run.aggregateScore)
    BY DEF EvalRun
  <1>2. row = [f \in DOMAIN <<>> \cup DOMAIN plain |-> Field(<<>>, f, plain[f])]
    BY DEF CreateRegressionBaseline
  <1>3. DOMAIN plain = {"aggregateScore", "dimensionScores"} /\ DOMAIN <<>> = {}
    OBVIOUS
  <1>4. plain.aggregateScore = stored.aggregateScore /\ plain.dimensionScores = scores
    OBVIOUS
  <1>5. /\ DOMAIN results = Dimensions
        /\ \A d \in Dimensions :
             /\ results[d].score = Points100(run.dimensionScores[d].score)
             /\ results[d].threshold = run.dimensionScores[d].passThreshold
    OBVIOUS
  <1> HIDE DEF stored, plain, row, results
  <1>6. /\ DOMAIN row = {"aggregateScore", "dimensionScores"}
        /\ row.aggregateScore = plain.aggregateScore
        /\ row.dimensionScores = plain.dimensionScores
    BY <1>2, <1>3 DEF Field
  <1>7. /\ DOMAIN scores = Dimensions
        /\ \A d \in Dimensions :
             /\ scores[d].score = Points100(run.dimensionScores[d].score)
             /\ scores[d].hardFail = Blocks(run.dimensionScores[d].passThreshold)
    BY <1>1, <1>5 DEF Blocks
  <1> HIDE DEF scores
  <1>8. /\ Field(row, "allRequiredPassed", FALSE) = FALSE
        /\ Field(row, "retryCount", 0) = 0
    BY <1>6 DEF Field
  <1>9. /\ row.aggregateScore = Points100(run.aggregateScore)
        /\ DOMAIN row.dimensionScores = Dimensions
        /\ \A d \in Dimensions :
             /\ row.dimensionScores[d].score = Points100(run.dimensionScores[d].score)
             /\ row.dimensionScores[d].hardFail
                  = Blocks(run.dimensionScores[d].passThreshold)
    BY <1>1, <1>4, <1>6, <1>7
  <1> QED
    BY <1>8, <1>9 DEF row

LEMMA StoredAsCandidate ==
    ASSUME NEW run
    PROVE  LET row == StoredCandidate(EvalRun(run)) IN
           /\ row.aggregateScore = Points100(run.aggregateScore)
           /\ DOMAIN row.dimensionScores = Dimensions
           /\ \A d \in Dimensions :
                /\ row.dimensionScores[d].hardFail
                     = Blocks(run.dimensionScores[d].passThreshold)
                /\ row.dimensionScores[d].passed
                     = Reached(Points100(run.dimensionScores[d].score),
                            run.dimensionScores[d].passThreshold)
           /\ row.unsafe = {} /\ row.retryCount = 0
  <1> DEFINE results == [d \in Dimensions |->
                          [score |-> Points100(run.dimensionScores[d].score),
                           threshold |-> run.dimensionScores[d].passThreshold]]
             stored == EvalRun(run)
             scores == [d \in DOMAIN stored.results |->
                         [score |-> stored.results[d].score,
                          passThreshold |-> stored.results[d].threshold,
                          hardFail |-> stored.results[d].threshold >= 8500,
                          weight |-> 4,
                          passed |-> stored.results[d].score
                                       >= stored.results[d].threshold]]
             row == StoredCandidate(stored)
  <1>1. stored.results = results /\ stored.aggregateScore = Points100(run.aggregateScore)
    BY DEF EvalRun
  <1>2. /\ row.aggregateScore = stored.aggregateScore /\ row.dimensionScores = scores
        /\ row.unsafe = {} /\ row.retryCount = 0
    BY DEF StoredCandidate
  <1>3. /\ DOMAIN results = Dimensions
        /\ \A d \in Dimensions :
             /\ results[d].score = Points100(run.dimensionScores[d].score)
             /\ results[d].threshold = run.dimensionScores[d].passThreshold
    OBVIOUS
  <1> HIDE DEF stored, row, results
  <1>4. /\ DOMAIN scores = Dimensions
        /\ \A d \in Dimensions :
             /\ scores[d].hardFail = Blocks(run.dimensionScores[d].passThreshold)
             /\ scores[d].passed = Reached(Points100(run.dimensionScores[d].score),
                            run.dimensionScores[d].passThreshold)
    BY <1>1, <1>3 DEF Blocks, Reached
  <1> HIDE DEF scores
  <1> QED
    BY <1>1, <1>2, <1>4 DEF row, stored

(* The same two comparisons of stored rows, which hold neither weights nor *)
(* unsafe calls: the scores that block say it.                            *)
LEMMA ComparedAsStored ==
    ASSUME NEW scenario, IsScenario(scenario), scenario.dimensions = <<>>,
           NEW base, IsRunInput(base), NEW cand, IsRunInput(cand),
           (DOMAIN base.evidence \cup DOMAIN cand.evidence) \cap HardFails = {},
           NEW policy, Field(policy, "aggregateDropTolerance", 200) \in Nat,
           ScoreBenchmarkRun(scenario, base).verdict # "blocked"
    PROVE  LET b == ScoreBenchmarkRun(scenario, base)
               c == ScoreBenchmarkRun(scenario, cand)
               Rows(x, y) == Compare(CreateRegressionBaseline(EvalRun(x), <<>>),
                                     StoredCandidate(EvalRun(y)), policy) IN
           /\ Rows(b, b).status = "passed"
           /\ c.verdict = "blocked" => Rows(b, c).status = "blocked"
  <1> DEFINE b == ScoreBenchmarkRun(scenario, base)
             c == ScoreBenchmarkRun(scenario, cand)
             row == CreateRegressionBaseline(EvalRun(b), <<>>)
             same == StoredCandidate(EvalRun(b))
             other == StoredCandidate(EvalRun(c))
  <1>1. \A d \in Dimensions :
          /\ PassThreshold(scenario, d) = Thresholds[d] /\ Thresholds[d] \in Int
          /\ Thresholds[d] > 0 /\ Thresholds[d] <= 10000
          /\ FailsHard(scenario, d) <=> d \in HardFails
          /\ Thresholds[d] >= 8500 <=> d \in HardFails
    BY HardFailsStored
  <1>2. /\ \A d \in Dimensions :
             /\ b.dimensionScores[d].passThreshold = PassThreshold(scenario, d)
             /\ b.dimensionScores[d].hardFail = FailsHard(scenario, d)
             /\ b.dimensionScores[d].passed
                  = Reached(b.dimensionScores[d].score, PassThreshold(scenario, d))
             /\ IsScore(b.dimensionScores[d].score)
             /\ b.dimensionScores[d].hardFail => b.dimensionScores[d].passed
        /\ b.unsafe = {}
    BY ScoredRun DEF Reached
  <1>3. /\ \A d \in Dimensions :
             /\ c.dimensionScores[d].passThreshold = PassThreshold(scenario, d)
             /\ c.dimensionScores[d].hardFail = FailsHard(scenario, d)
             /\ c.dimensionScores[d].passed
                  = Reached(c.dimensionScores[d].score, PassThreshold(scenario, d))
             /\ IsScore(c.dimensionScores[d].score)
        /\ c.verdict = "blocked" => \/ c.unsafe # {}
                                   \/ \E d \in Dimensions :
                                        /\ c.dimensionScores[d].hardFail
                                        /\ ~c.dimensionScores[d].passed
    BY ScoredRun DEF Reached
  <1>4. \A d \in HardFails : /\ d \in Dimensions
                            /\ b.dimensionScores[d].score \in {0, 10000}
                            /\ c.dimensionScores[d].score \in {0, 10000}
    BY HardFailScores DEF HardFails, Dimensions, Thresholds
  <1>5. c.unsafe # {} => c.dimensionScores["security_policy_compliance"].score = 0
    <2>1. /\ "security_policy_compliance" \in HardFails
          /\ "security_policy_compliance" \notin DOMAIN cand.evidence
      BY DEF HardFails
    <2> QED
      BY <2>1, HardFailScores
  <1>6. /\ row.aggregateScore = Points100(b.aggregateScore)
        /\ DOMAIN row.dimensionScores = Dimensions
        /\ \A d \in Dimensions :
             /\ row.dimensionScores[d].score = Points100(b.dimensionScores[d].score)
             /\ row.dimensionScores[d].hardFail
                  = Blocks(b.dimensionScores[d].passThreshold)
        /\ Field(row, "allRequiredPassed", FALSE) = FALSE
        /\ Field(row, "retryCount", 0) = 0
    BY StoredBaseline
  <1>7. /\ same.aggregateScore = Points100(b.aggregateScore)
        /\ DOMAIN same.dimensionScores = Dimensions
        /\ \A d \in Dimensions :
             /\ same.dimensionScores[d].hardFail
                  = Blocks(b.dimensionScores[d].passThreshold)
             /\ same.dimensionScores[d].passed
                  = Reached(Points100(b.dimensionScores[d].score),
                            b.dimensionScores[d].passThreshold)
        /\ same.unsafe = {} /\ same.retryCount = 0
    BY StoredAsCandidate
  <1>8. /\ DOMAIN other.dimensionScores = Dimensions
        /\ \A d \in Dimensions :
             /\ other.dimensionScores[d].hardFail
                  = Blocks(c.dimensionScores[d].passThreshold)
             /\ other.dimensionScores[d].passed
                  = Reached(Points100(c.dimensionScores[d].score),
                            c.dimensionScores[d].passThreshold)
    BY StoredAsCandidate
  <1>9. b.aggregateScore \in Int /\ Points100(b.aggregateScore) \in Int
    <2>1. b.aggregateScore \in Int
      BY RunAggregate
    <2>2. \A n \in Int : Points100(n) \in Int
      BY PointsOfScore
    <2> HIDE DEF b
    <2> QED
      BY <2>1, <2>2
  <1> HIDE DEF b, c, row, same, other
  <1>10. ASSUME NEW d \in HardFails
         PROVE  /\ d \in Dimensions
                /\ PassThreshold(scenario, d) = Thresholds[d]
                /\ Thresholds[d] \in Int /\ Thresholds[d] > 0 /\ Thresholds[d] <= 10000
                /\ Blocks(Thresholds[d])
                /\ b.dimensionScores[d].passThreshold = Thresholds[d]
                /\ c.dimensionScores[d].passThreshold = Thresholds[d]
                /\ b.dimensionScores[d].score = 10000
    <2>1. d \in Dimensions /\ b.dimensionScores[d].score \in {0, 10000}
      BY <1>4
    <2>2. /\ PassThreshold(scenario, d) = Thresholds[d] /\ Thresholds[d] \in Int
          /\ Thresholds[d] > 0 /\ Thresholds[d] <= 10000 /\ Blocks(Thresholds[d])
          /\ FailsHard(scenario, d)
      BY <2>1, HardFailsStored DEF Blocks
    <2>3. /\ b.dimensionScores[d].passThreshold = Thresholds[d]
          /\ c.dimensionScores[d].passThreshold = Thresholds[d]
      BY <1>2, <1>3, <2>1, <2>2
    <2>4. b.dimensionScores[d].hardFail
      BY <1>2, <2>1, <2>2
    <2>5. b.dimensionScores[d].passed
      BY <1>2, <2>1, <2>4
    <2>6. Reached(b.dimensionScores[d].score, PassThreshold(scenario, d))
      BY <1>2, <2>1, <2>5
    <2>7. b.dimensionScores[d].score >= Thresholds[d]
      BY <2>2, <2>6 DEF Reached
    <2> QED
      BY <2>1, <2>2, <2>3, <2>7
  <1>11. Compare(row, same, policy).status = "passed"
    <2>1. ~(same.aggregateScore - row.aggregateScore
              < -Field(policy, "aggregateDropTolerance", 200))
      <3>1. same.aggregateScore = row.aggregateScore /\ row.aggregateScore \in Int
        <4>1. row.aggregateScore = Points100(b.aggregateScore)
          BY <1>6
        <4>2. same.aggregateScore = Points100(b.aggregateScore)
          BY <1>7
        <4>3. Points100(b.aggregateScore) \in Int
          BY <1>9
        <4> QED
          BY <4>1, <4>2, <4>3
      <3> QED
        BY <3>1
    <2>2. HardFailBlockers(row, same) = {}
      <3> SUFFICES ASSUME NEW d \in HardFailBlockers(row, same)
                   PROVE  FALSE
        OBVIOUS
      <3>1. /\ d \in Dimensions /\ row.dimensionScores[d].hardFail
            /\ ~same.dimensionScores[d].passed
        BY <1>6 DEF HardFailBlockers
      <3>2. Blocks(b.dimensionScores[d].passThreshold)
        BY <1>6, <3>1
      <3>3. b.dimensionScores[d].passThreshold = Thresholds[d]
        BY <1>1, <1>2, <3>1
      <3>4. d \in HardFails
        BY HardFailsStored, <3>1, <3>2, <3>3 DEF Blocks
      <3>5. Reached(Points100(b.dimensionScores[d].score),
                    b.dimensionScores[d].passThreshold)
        <4>1. /\ b.dimensionScores[d].score = 10000
              /\ b.dimensionScores[d].passThreshold = Thresholds[d]
              /\ Thresholds[d] \in Int /\ Thresholds[d] <= 10000
          BY <1>10, <3>4
        <4>2. Points100(b.dimensionScores[d].score) = 10000
          BY <4>1, PointsOfScore
        <4> QED
          BY <4>1, <4>2 DEF Reached
      <3>6. same.dimensionScores[d].passed
        BY <1>7, <3>1, <3>5
      <3> QED
        BY <3>1, <3>6
    <2>3. ~OutcomeDropped(row, same)
      BY <1>6 DEF OutcomeDropped
    <2>4. ~(same.retryCount > Field(row, "retryCount", 0))
      BY <1>6, <1>7
    <2>5. same.unsafe = {}
      BY <1>7
    <2>6. ~Worse(row, same, policy)
      BY <2>1, <2>2, <2>3, <2>4, <2>5 DEF Worse
    <2> QED
      BY <2>6, CompareStatus
  <1>12. ASSUME c.verdict = "blocked"
         PROVE  Compare(row, other, policy).status = "blocked"
    <2>1. PICK d \in HardFails : c.dimensionScores[d].score = 0
      <3>1. CASE c.unsafe # {}
        <4>1. "security_policy_compliance" \in HardFails
          BY DEF HardFails
        <4> QED
          BY <1>5, <3>1, <4>1
      <3>2. CASE \E d \in Dimensions : /\ c.dimensionScores[d].hardFail
                                      /\ ~c.dimensionScores[d].passed
        <4>1. PICK d \in Dimensions : /\ c.dimensionScores[d].hardFail
                                     /\ ~c.dimensionScores[d].passed
          BY <3>2
        <4>2. FailsHard(scenario, d)
          BY <1>3, <4>1
        <4>3. d \in HardFails
          BY HardFailsStored, <4>2
        <4>4. ~Reached(c.dimensionScores[d].score, PassThreshold(scenario, d))
          BY <1>3, <4>1
        <4>5. c.dimensionScores[d].score # 10000
          <5>1. /\ PassThreshold(scenario, d) = Thresholds[d]
                /\ Thresholds[d] \in Int /\ Thresholds[d] <= 10000
            BY <1>10, <4>3
          <5> QED
            BY <4>4, <5>1 DEF Reached
        <4> QED
          BY <1>4, <4>3, <4>5
      <3> QED
        BY <1>3, <1>12, <3>1, <3>2
    <2>2. row.dimensionScores[d].hardFail
      BY <1>6, <1>10, <2>1
    <2>3. other.dimensionScores[d].hardFail
      BY <1>8, <1>10, <2>1
    <2>4. row.dimensionScores[d].score > 0
      <3>1. /\ row.dimensionScores[d].score = Points100(b.dimensionScores[d].score)
            /\ b.dimensionScores[d].score = 10000
        BY <1>6, <1>10, <2>1
      <3> QED
        BY <3>1, PointsOfScore
    <2>5. ~other.dimensionScores[d].passed
      <3>1. Points100(c.dimensionScores[d].score) = 0
        BY <2>1, PointsOfScore
      <3>2. ~Reached(Points100(c.dimensionScores[d].score),
                     c.dimensionScores[d].passThreshold)
        BY <1>10, <2>1, <3>1 DEF Reached
      <3> QED
        BY <1>8, <1>10, <2>1, <3>2
    <2>6. d \in HardFailBlockers(row, other)
      BY <1>6, <1>8, <1>10, <2>1, <2>2, <2>3, <2>4, <2>5 DEF HardFailBlockers
    <2> QED
      BY <2>6, CompareStatus DEF Worse
  <1> QED
    BY <1>11, <1>12 DEF b, c, row, same, other

(* A blocked run is not promoted, for every scenario and every two runs.  *)
THEOREM BlockedNeverPromoted ==
    ASSUME NEW scenario, IsScenario(scenario), NEW base, IsRunInput(base),
           NEW cand, IsRunInput(cand), NEW policy,
           Field(policy, "aggregateDropTolerance", 200) \in Nat
    PROVE  BlockedIsNotPromoted(scenario, base, cand, policy)
  BY ComparedAsScored, ComparedAsStored DEF BlockedIsNotPromoted

(* The gate passes what costs nothing, and only that: for every scenario  *)
(* and every stored calls, what it lets pass neither blocks a run nor lowers *)
(* its tool usage.                                                        *)
THEOREM GatePassesFreeCalls ==
    ASSUME NEW scenario, IsScenario(scenario), NEW stored, IsList(stored)
    PROVE  GateIsTheScore(scenario, stored)
  <1> DEFINE calls == [k \in DOMAIN stored |-> ToolCall(stored[k])]
             failures == {k \in DOMAIN calls : calls[k].status = "failed"}
             stopped == {k \in DOMAIN calls : calls[k].status = "blocked"}
             writes == {k \in DOMAIN calls : calls[k].mutates /\ ~calls[k].approved}
             missing == MissingExpected(scenario.expectedTools, calls)
             forbidden == UsedOf(scenario.forbiddenTools, calls)
             failed == Cardinality(failures)
             blocked == Cardinality(stopped)
             unapproved == Cardinality(writes)
             gate == ToolQualityGate(scenario, stored)
  <1>1. /\ gate.score = Clamp(10000 - 2500 * (missing + failed) - 10000 * forbidden
                              - 5000 * (blocked + unapproved))
        /\ gate.passed <=> /\ missing = 0 /\ forbidden = 0 /\ failed = 0
                           /\ UnsafeAttempts(scenario, calls) = {}
    BY DEF ToolQualityGate, CountOf
  <1>2. DOMAIN calls = DOMAIN stored /\ IsList(calls)
    <2>1. DOMAIN stored = 1 .. Len(stored) /\ Len(stored) \in Nat
      BY DEF IsList
    <2>2. calls \in Seq({ToolCall(stored[k]) : k \in DOMAIN stored})
      BY <2>1
    <2> QED
      BY <2>2 DEF IsList
  <1> HIDE DEF calls
  <1>3. /\ failed \in Nat /\ blocked \in Nat /\ unapproved \in Nat
        /\ failed = 0 <=> failures = {}
        /\ blocked = 0 <=> stopped = {}
        /\ unapproved = 0 <=> writes = {}
    BY <1>2, PositionsCount
  <1>4. missing \in Nat /\ forbidden \in Nat
    BY MissingCount, UsedCount DEF IsScenario
  <1>5. UnsafeAttempts(scenario, calls) = {}
          => blocked = 0 /\ unapproved = 0
    BY <1>3 DEF UnsafeAttempts
  <1>6. forbidden = 0 /\ blocked = 0 /\ unapproved = 0
          => UnsafeAttempts(scenario, calls) = {}
    <2> SUFFICES ASSUME forbidden = 0, blocked = 0, unapproved = 0,
                        NEW k \in UnsafeAttempts(scenario, calls)
                 PROVE  FALSE
      OBVIOUS
    <2>1. k \in DOMAIN calls /\ k \notin stopped /\ k \notin writes
      BY <1>3 DEF UnsafeAttempts
    <2>2. Key(calls[k].name) \in {Key(n) : n \in ToSet(scenario.forbiddenTools)}
      BY <2>1 DEF UnsafeAttempts
    <2>3. PICK n \in DOMAIN scenario.forbiddenTools :
            Key(scenario.forbiddenTools[n]) = Key(calls[k].name)
      BY <2>2 DEF ToSet
    <2>4. Key(calls[k].name) \in KeysOf(calls)
      BY <2>1 DEF KeysOf, ToSet
    <2>5. Key(scenario.forbiddenTools[n]) \notin KeysOf(calls)
      BY UsedCount DEF IsScenario
    <2> QED
      BY <2>3, <2>4, <2>5
  <1> HIDE DEF failures, stopped, writes
  <1> HIDE DEF missing, forbidden, failed, blocked, unapproved, gate
  <1>7. gate.score = 10000 <=> /\ missing = 0 /\ forbidden = 0 /\ failed = 0
                              /\ blocked = 0 /\ unapproved = 0
    <2> DEFINE points == 10000 - 2500 * (missing + failed) - 10000 * forbidden
                         - 5000 * (blocked + unapproved)
    <2>1. points \in Int /\ points <= 10000
      BY <1>3, <1>4
    <2>2. points = 10000 <=> /\ missing = 0 /\ forbidden = 0 /\ failed = 0
                             /\ blocked = 0 /\ unapproved = 0
      BY <1>3, <1>4
    <2>3. gate.score = Clamp(points)
      BY <1>1
    <2> HIDE DEF points
    <2>4. Clamp(points) = 10000 <=> points = 10000
      BY <2>1 DEF Clamp
    <2> QED
      BY <2>2, <2>3, <2>4
  <1>8. gate.passed <=> gate.score = 10000
    BY <1>1, <1>5, <1>6, <1>7
  <1>9. gate.passed => /\ UnsafeAttempts(scenario, calls) = {}
                       /\ ToolUsage(scenario, calls) = 10000
    <2>1. IsList(scenario.expectedTools) /\ IsList(scenario.forbiddenTools)
      BY DEF IsScenario
    <2>2. missing = 0 /\ forbidden = 0 => ToolUsage(scenario, calls) = 10000
      BY <2>1, ToolUsageBounds DEF missing, forbidden
    <2> QED
      BY <1>1, <2>2
  <1> QED
    BY <1>8, <1>9 DEF GateIsTheScore, gate, calls

(* A set of natural numbers below a limit has a greatest element.         *)
LEMMA GreatestOf ==
    ASSUME NEW n \in Nat, NEW T \in SUBSET Nat, T # {}, \A x \in T : x <= n
    PROVE  \E x \in T : \A y \in T : y <= x
  <1> DEFINE flipped == {x \in Nat : x <= n /\ n - x \in T}
  <1>1. \A t \in T : n - t \in flipped
    <2> TAKE t \in T
    <2>1. t \in Nat /\ t <= n
      OBVIOUS
    <2>2. n - t \in Nat /\ n - t <= n /\ n - (n - t) = t
      BY <2>1
    <2> QED
      BY <2>2
  <1>2. flipped \in SUBSET Nat /\ \A x \in flipped : n - x \in T
    OBVIOUS
  <1> HIDE DEF flipped
  <1>3. flipped # {}
    BY <1>1
  <1>4. PICK x \in flipped : \A y \in flipped : x <= y
    BY <1>2, <1>3, FirstOf
  <1>5. \A y \in T : y <= n - x
    <2> TAKE y \in T
    <2>1. x <= n - y
      BY <1>1, <1>4
    <2>2. x \in Nat /\ y \in Nat
      BY <1>2
    <2> QED
      BY <2>1, <2>2
  <1> QED
    BY <1>2, <1>5

(* A list of a finite set's elements holds each of them, and only them.   *)
LEMMA ListOfSet ==
    ASSUME NEW T, IsFiniteSet(T)
    PROVE  /\ DOMAIN SetToSeq(T) = 1 .. Cardinality(T) /\ Cardinality(T) \in Nat
           /\ \A k \in DOMAIN SetToSeq(T) : SetToSeq(T)[k] \in T
           /\ \A x \in T : \E k \in DOMAIN SetToSeq(T) : SetToSeq(T)[k] = x
  <1> DEFINE n == Cardinality(T)
  <1>1. n \in Nat /\ ExistsBijection(1 .. n, T)
    BY FS_CardinalityType
  <1>2. PICK g : g \in Bijection(1 .. n, T)
    BY <1>1 DEF ExistsBijection
  <1>3. g \in [1 .. n -> T] /\ IsInjective(g)
    BY <1>2 DEF Bijection, Injection, IsInjective
  <1>4. SetToSeq(T) \in [1 .. n -> T] /\ IsInjective(SetToSeq(T))
    BY <1>3 DEF SetToSeq
  <1> DEFINE f == SetToSeq(T)
  <1> HIDE DEF f
  <1>5. f \in Injection(1 .. n, T)
    BY <1>4 DEF Injection, f
  <1>6. f \in Surjection(1 .. n, T)
    <2>1. IsFiniteSet(1 .. n) /\ Cardinality(1 .. n) = n
      BY <1>1, FS_Interval
    <2> QED
      BY <1>5, <2>1, FS_Injection
  <1> QED
    BY <1>1, <1>4, <1>6 DEF Surjection, f

(* The iterations and times of a list of runs have a limit.               *)
Bounded(runs, k, limit) ==
    /\ limit \in Nat
    /\ \A i \in 1 .. k : runs[i].iteration <= limit /\ runs[i].at <= limit

Limits == INSTANCE FoldFacts
    WITH Op <- LAMBDA p, y, x : y + x.iteration + x.at, Value <- LAMBDA p, i : p[i],
         Pick <- LAMBDA s : Max(s), Inv <- LAMBDA p, k, y : Bounded(p, k, y)

LEMMA RunsAreBounded ==
    ASSUME NEW runs, IsRuns(runs)
    PROVE  \E limit \in Nat : \A k \in DOMAIN runs :
             runs[k].iteration <= limit /\ runs[k].at <= limit
  <1> DEFINE n == Len(runs)
  <1>1. DOMAIN runs = 1 .. n /\ n \in Nat
    BY DEF IsRuns, IsList
  <1> HIDE DEF n
  <1>2. Limits!Picks(1 .. n) /\ Limits!LastPicked(n)
    BY <1>1, LastOfPositions DEF Limits!Picks, Limits!LastPicked
  <1>3. Bounded(runs, 0, 0)
    BY DEF Bounded
  <1>4. ASSUME NEW k \in 1 .. n, NEW y, Bounded(runs, k - 1, y)
        PROVE  Bounded(runs, k, y + runs[k].iteration + runs[k].at)
    <2>1. y \in Nat /\ runs[k].iteration \in Nat /\ runs[k].at \in Nat
      BY <1>1, <1>4 DEF Bounded, IsRuns
    <2>2. ASSUME NEW i \in 1 .. k, i # k
          PROVE  /\ runs[i].iteration <= y /\ runs[i].at <= y
                 /\ runs[i].iteration \in Nat /\ runs[i].at \in Nat
      <3>1. i \in 1 .. k - 1 /\ i \in DOMAIN runs
        BY <1>1, <2>2
      <3> QED
        BY <1>4, <3>1 DEF Bounded, IsRuns
    <2>3. ASSUME NEW i \in 1 .. k
          PROVE  /\ runs[i].iteration <= y + runs[k].iteration + runs[k].at
                 /\ runs[i].at <= y + runs[k].iteration + runs[k].at
      BY <2>1, <2>2
    <2> QED
      BY <2>1, <2>3 DEF Bounded
  <1>5. Bounded(runs, n, Limits!Fold(runs, 0, 1 .. n))
    BY <1>1, <1>2, <1>3, <1>4, Limits!ListKeeps
  <1> QED
    BY <1>1, <1>5 DEF Bounded

(* Of the runs that count for an item, one is the newest.                 *)
LEMMA OneIsLatest ==
    ASSUME NEW runs, IsRuns(runs), NEW r \in Counted(runs)
    PROVE  \E k \in Latest(runs) : /\ RunKey(runs[k]) = RunKey(runs[r])
                                   /\ NoOlder(runs, k, r)
  <1> DEFINE rivals == {k \in Counted(runs) : RunKey(runs[k]) = RunKey(runs[r])}
             iterations == {runs[k].iteration : k \in rivals}
             Of(i) == {k \in rivals : runs[k].iteration = i}
  <1>1. Counted(runs) \subseteq DOMAIN runs
    BY DEF Counted
  <1>2. rivals \subseteq DOMAIN runs /\ r \in rivals
    BY <1>1
  <1>0. PICK limit \in Nat : \A k \in DOMAIN runs :
          runs[k].iteration <= limit /\ runs[k].at <= limit
    BY RunsAreBounded
  <1>3. \A k \in rivals : /\ runs[k].iteration \in Nat /\ runs[k].iteration <= limit
                          /\ runs[k].at \in Nat /\ runs[k].at <= limit /\ limit \in Nat
                          /\ k \in Nat /\ k <= Len(runs) /\ Len(runs) \in Nat
    <2>1. DOMAIN runs = 1 .. Len(runs) /\ Len(runs) \in Nat
      BY DEF IsRuns, IsList
    <2> QED
      BY <1>0, <1>2, <2>1 DEF IsRuns
  <1> HIDE DEF rivals
  <1>4. PICK first \in rivals : \A k \in rivals : runs[k].iteration <= runs[first].iteration
    <2>1. iterations \in SUBSET Nat /\ iterations # {} /\ \A i \in iterations : i <= limit
      BY <1>2, <1>3
    <2>2. PICK i \in iterations : \A j \in iterations : j <= i
      <3> HIDE DEF iterations
      <3> QED
        BY <1>2, <1>3, <2>1, GreatestOf
    <2> QED
      BY <2>2
  <1> DEFINE newest == Of(runs[first].iteration)
             times == {runs[k].at : k \in newest}
  <1>5. PICK last \in newest : \A k \in newest : runs[k].at <= runs[last].at
    <2>1. times \in SUBSET Nat /\ times # {} /\ \A t \in times : t <= limit
      BY <1>3, <1>4
    <2>2. PICK t \in times : \A u \in times : u <= t
      <3> HIDE DEF times
      <3> QED
        BY <1>2, <1>3, <2>1, GreatestOf
    <2> QED
      BY <2>2
  <1> DEFINE tied == {k \in newest : runs[k].at = runs[last].at}
  <1>6. PICK k \in tied : \A j \in tied : j <= k
    <2>1. tied \in SUBSET Nat /\ tied # {} /\ \A j \in tied : j <= Len(runs)
      BY <1>3, <1>5
    <2> HIDE DEF tied
    <2> QED
      BY <1>2, <1>3, <2>1, GreatestOf
  <1>7. /\ k \in rivals /\ runs[k].iteration = runs[first].iteration
        /\ runs[k].at = runs[last].at
    OBVIOUS
  <1>8. ASSUME NEW j \in rivals
        PROVE  NoOlder(runs, k, j)
    <2>1. /\ runs[j].iteration \in Nat /\ runs[k].iteration \in Nat
          /\ runs[j].at \in Nat /\ runs[k].at \in Nat /\ j \in Nat /\ k \in Nat
      BY <1>3, <1>7
    <2>2. runs[j].iteration <= runs[k].iteration
      BY <1>4, <1>7
    <2>3. runs[j].iteration = runs[k].iteration => runs[j].at <= runs[k].at
      BY <1>5, <1>7
    <2>4. runs[j].iteration = runs[k].iteration /\ runs[j].at = runs[k].at => j <= k
      BY <1>6, <1>7
    <2> QED
      BY <2>1, <2>2, <2>3, <2>4 DEF NoOlder
  <1>9. k \in Latest(runs) /\ RunKey(runs[k]) = RunKey(runs[r])
    BY <1>7, <1>8 DEF Latest, rivals
  <1> QED
    BY <1>2, <1>8, <1>9

(* What a passed run says of its calls and its items.                     *)
LEMMA PassedRun ==
    ASSUME NEW scenario, NEW entry,
           ScoreBenchmarkRun(scenario, entry).verdict = "passed"
    PROVE  /\ UnsafeAttempts(scenario, entry.calls) = {}
           /\ SummarizeVerification(scenario, entry.items).allRequiredPassed
  <1> DEFINE unsafe == UnsafeAttempts(scenario, entry.calls)
             summary == SummarizeVerification(scenario, entry.items)
             scores == [d \in Dimensions |->
                         ScoreDimension(d, scenario, entry, summary, unsafe)]
             aggregate == AggregateScore(scores)
             bad == unsafe # {} \/ \E d \in Dimensions :
                                    scores[d].hardFail /\ ~scores[d].passed
             rest == IF aggregate >= scenario.passThreshold
                        /\ summary.allRequiredPassed
                     THEN "passed"
                     ELSE IF aggregate >= scenario.warnThreshold
                     THEN "warned" ELSE "failed"
  <1>1. ScoreBenchmarkRun(scenario, entry).verdict
          = CASE bad -> "blocked" [] OTHER -> rest
    BY DEF ScoreBenchmarkRun
  <1>2. rest = "passed" => summary.allRequiredPassed
    OBVIOUS
  <1>3. unsafe # {} => bad
    OBVIOUS
  <1> HIDE DEF bad, rest
  <1>4. ~bad /\ rest = "passed"
    BY <1>1
  <1> QED
    BY <1>2, <1>3, <1>4

(* A run passes only on calls nobody would block, on expected items that ran *)
(* and, of each item run after the edits, on a newest run that passed: for *)
(* every scenario, all calls and all runs, in any order.                  *)
THEOREM PassesAreEarned ==
    ASSUME NEW scenario, IsScenario(scenario),
           NEW stored, IsCalls(stored), NEW runs, IsRuns(runs)
    PROVE  PassIsEarned(scenario, stored, runs)
  <1> DEFINE calls == [k \in DOMAIN stored |-> ToolCall(stored[k])]
             items == VerificationItems(runs)
             entry == [calls |-> calls, items |-> items, evidence |-> <<>>,
                       retryCount |-> 0, modelCost |-> 0]
             kept == SetToSeq(Latest(runs))
             summary == SummarizeVerification(scenario, items)
  <1> SUFFICES ASSUME ScoreBenchmarkRun(scenario, entry).verdict = "passed"
               PROVE  /\ \A c \in ToSet(stored) :
                           /\ c.status # "blocked"
                           /\ c.mutability = "read" \/ c.approval
                           /\ \A n \in ToSet(scenario.forbiddenTools) :
                                Key(n) # Key(c.name)
                      /\ \A n \in ToSet(scenario.expectedItems) :
                           \E r \in ToSet(runs) : Key(RunName(r)) = Key(n)
                      /\ \A r \in ToSet(runs) :
                           r.phase = "post_green" /\ r.status # "passed" =>
                             \E s \in ToSet(runs) :
                               /\ s.phase = "post_green" /\ RunKey(s) = RunKey(r)
                               /\ ~(\/ r.iteration > s.iteration
                                    \/ r.iteration = s.iteration /\ r.at > s.at)
                               /\ s.status = "passed"
    BY DEF PassIsEarned
  <1>1. UnsafeAttempts(scenario, calls) = {} /\ summary.allRequiredPassed
    <2>1. entry.calls = calls /\ entry.items = items
      OBVIOUS
    <2> HIDE DEF entry, calls, items
    <2> QED
      BY <2>1, PassedRun
  <1>2. ASSUME NEW k \in DOMAIN stored
        PROVE  /\ stored[k].status # "blocked"
               /\ stored[k].mutability = "read" \/ stored[k].approval
               /\ \A n \in ToSet(scenario.forbiddenTools) : Key(n) # Key(stored[k].name)
    <2>1. calls[k] = ToolCall(stored[k]) /\ k \in DOMAIN calls
      OBVIOUS
    <2> HIDE DEF calls
    <2>2. /\ Key(calls[k].name) \notin {Key(n) : n \in ToSet(scenario.forbiddenTools)}
          /\ calls[k].status # "blocked"
          /\ ~(calls[k].mutates /\ ~calls[k].approved)
      BY <1>1, <2>1 DEF UnsafeAttempts
    <2>3. stored[k].status # "blocked"
      BY <2>1, <2>2 DEF ToolCall
    <2>4. stored[k].mutability = "read" \/ stored[k].approval
      <3>1. /\ calls[k].mutates
                 = (stored[k].mutability \notin {"read", "readonly", "read-only"})
            /\ calls[k].approved = stored[k].approval
        BY <2>1 DEF ToolCall
      <3>2. calls[k].mutates \/ stored[k].mutability = "read"
        BY <3>1 DEF IsCalls
      <3> QED
        BY <2>2, <3>1, <3>2
    <2>5. calls[k].name = stored[k].name
      BY <2>1 DEF ToolCall
    <2> QED
      BY <2>2, <2>3, <2>4, <2>5
  <1>3. /\ Latest(runs) \subseteq Counted(runs) /\ Counted(runs) \subseteq DOMAIN runs
        /\ IsFiniteSet(Latest(runs))
    <2>1. Latest(runs) \subseteq Counted(runs) /\ Counted(runs) \subseteq DOMAIN runs
      BY DEF Latest, Counted
    <2> QED
      BY <2>1, PositionsCount DEF IsRuns
  <1>4. /\ DOMAIN kept = 1 .. Cardinality(Latest(runs)) /\ Cardinality(Latest(runs)) \in Nat
        /\ \A q \in DOMAIN kept : kept[q] \in Latest(runs)
        /\ \A k \in Latest(runs) : \E q \in DOMAIN kept : kept[q] = k
    BY <1>3, ListOfSet
  <1>5. /\ DOMAIN items = DOMAIN kept
        /\ \A q \in DOMAIN kept :
             /\ items[q].name = RunName(runs[kept[q]])
             /\ items[q].status = ItemStatus(runs[kept[q]].status)
             /\ items[q].approvedSkip = FALSE
    BY DEF VerificationItems
  <1> HIDE DEF kept, items
  <1> DEFINE failures == {q \in DOMAIN items : items[q].status = "failed"}
             stopped == {q \in DOMAIN items : items[q].status = "blocked"}
  <1>6. /\ MissingExpected(scenario.expectedItems, items) = 0
        /\ Cardinality(failures) = 0 /\ Cardinality(stopped) = 0
        /\ \A i \in ToSet(items) : i.status = "skipped" => i.approvedSkip
    BY <1>1 DEF SummarizeVerification, CountOf
  <1>7. failures = {} /\ stopped = {}
    <2>1. IsFiniteSet(DOMAIN items)
      BY <1>4, <1>5, FS_Interval
    <2>2. IsFiniteSet(failures) /\ IsFiniteSet(stopped)
      BY <2>1, FS_Subset
    <2> QED
      BY <1>6, <2>2, FS_EmptySet
  <1>8. ASSUME NEW k \in Latest(runs)
        PROVE  runs[k].status = "passed"
    <2>1. PICK q \in DOMAIN items : kept[q] = k
      BY <1>4, <1>5
    <2>2. items[q].status \notin {"failed", "blocked", "skipped"}
      <3>1. items[q].status \notin {"failed", "blocked"}
        BY <1>7
      <3>2. items[q] \in ToSet(items) /\ items[q].approvedSkip = FALSE
        BY <1>5 DEF ToSet
      <3> QED
        BY <1>6, <3>1, <3>2
    <2>3. ItemStatus(runs[k].status) \notin {"failed", "blocked", "skipped"}
      BY <1>5, <2>1, <2>2
    <2>4. runs[k].status \in {"passed", "green", "completed"}
      BY <2>3 DEF ItemStatus
    <2> QED
      BY <1>3, <2>4 DEF IsRuns
  <1>9. ASSUME NEW n \in ToSet(scenario.expectedItems)
        PROVE  \E r \in ToSet(runs) : Key(RunName(r)) = Key(n)
    <2>1. Key(n) \in KeysOf(items)
      <3>1. PICK k \in DOMAIN scenario.expectedItems : n = scenario.expectedItems[k]
        BY DEF ToSet
      <3> QED
        BY <1>6, <3>1, MissingCount DEF IsScenario
    <2>2. PICK q \in DOMAIN items : Key(items[q].name) = Key(n)
      BY <2>1 DEF KeysOf, ToSet
    <2>3. kept[q] \in DOMAIN runs /\ items[q].name = RunName(runs[kept[q]])
      BY <1>3, <1>4, <1>5
    <2> QED
      BY <2>2, <2>3 DEF ToSet
  <1>10. ASSUME NEW r \in DOMAIN runs, runs[r].phase = "post_green"
         PROVE  \E k \in DOMAIN runs :
                  /\ runs[k].phase = "post_green" /\ RunKey(runs[k]) = RunKey(runs[r])
                  /\ ~(\/ runs[r].iteration > runs[k].iteration
                       \/ /\ runs[r].iteration = runs[k].iteration
                          /\ runs[r].at > runs[k].at)
                  /\ runs[k].status = "passed"
    <2>1. /\ Counted(runs) = {k \in DOMAIN runs : runs[k].phase = "post_green"}
          /\ r \in Counted(runs)
      BY <1>10 DEF Counted
    <2>2. PICK k \in Latest(runs) : /\ RunKey(runs[k]) = RunKey(runs[r])
                                   /\ NoOlder(runs, k, r)
      BY <2>1, OneIsLatest
    <2>3. k \in DOMAIN runs /\ runs[k].phase = "post_green" /\ runs[k].status = "passed"
      BY <1>3, <1>8, <2>1
    <2>4. /\ runs[k].iteration \in Nat /\ runs[r].iteration \in Nat
          /\ runs[k].at \in Nat /\ runs[r].at \in Nat
      BY <2>3 DEF IsRuns
    <2>5. ~(\/ runs[r].iteration > runs[k].iteration
            \/ runs[r].iteration = runs[k].iteration /\ runs[r].at > runs[k].at)
      BY <2>2, <2>4 DEF NoOlder
    <2> QED
      BY <2>2, <2>3, <2>5
  <1>11. /\ \A c \in ToSet(stored) : \E k \in DOMAIN stored : c = stored[k]
         /\ \A r \in ToSet(runs) : \E k \in DOMAIN runs : r = runs[k]
         /\ \A k \in DOMAIN runs : runs[k] \in ToSet(runs)
    BY DEF ToSet
  <1>12. ASSUME NEW r \in ToSet(runs), r.phase = "post_green"
         PROVE  \E s \in ToSet(runs) :
                  /\ s.phase = "post_green" /\ RunKey(s) = RunKey(r)
                  /\ ~(\/ r.iteration > s.iteration
                       \/ r.iteration = s.iteration /\ r.at > s.at)
                  /\ s.status = "passed"
    <2>1. PICK k \in DOMAIN runs : r = runs[k]
      BY <1>11
    <2>2. PICK j \in DOMAIN runs :
                  /\ runs[j].phase = "post_green" /\ RunKey(runs[j]) = RunKey(runs[k])
                  /\ ~(\/ runs[k].iteration > runs[j].iteration
                       \/ /\ runs[k].iteration = runs[j].iteration
                          /\ runs[k].at > runs[j].at)
                  /\ runs[j].status = "passed"
      BY <1>10, <1>12, <2>1
    <2> QED
      BY <1>11, <2>1, <2>2
  <1> QED
    BY <1>2, <1>9, <1>11, <1>12

-----------------------------------------------------------------------------
(* The dependency map                                                      *)

(* What Kahn's loop keeps: the order holds no task twice and none before a *)
(* task it requires; a degree counts the required tasks not yet ordered; the *)
(* ready tasks are the others with none of those.                         *)
Unmet(edges, ordered, id) == {e \in edges : e[2] = id /\ e[1] \notin ToSet(ordered)}
KahnSound(tasks, s) ==
    LET edges == Edges(tasks)
        ids == Ids(tasks) IN
    /\ s.ordered \in Seq(ids) /\ IsInjective(s.ordered)
    /\ \A j \in DOMAIN s.ordered, id \in ids :
         <<id, s.ordered[j]>> \in edges => \E i \in 1 .. j - 1 : s.ordered[i] = id
    /\ DOMAIN s.degree = ids
    /\ \A id \in ids : s.degree[id] = Cardinality(Unmet(edges, s.ordered, id))
    /\ s.ready = {id \in ids \ ToSet(s.ordered) : s.degree[id] = 0}

LEMMA GraphIsFinite ==
    ASSUME NEW tasks, IsTasks(tasks)
    PROVE  /\ Ids(tasks) \subseteq Nat /\ IsFiniteSet(Ids(tasks))
           /\ Cardinality(Ids(tasks)) <= Len(tasks)
           /\ Edges(tasks) \subseteq Ids(tasks) \X Ids(tasks)
           /\ IsFiniteSet(Edges(tasks)) /\ \A id : <<id, id>> \notin Edges(tasks)
  <1> DEFINE n == Len(tasks)
             D == 1 .. n
             f == [k \in D |-> tasks[k].id]
  <1>1. DOMAIN tasks = D /\ Len(tasks) \in Nat
    BY DEF IsTasks, IsList
  <1>2. f \in Surjection(D, Ids(tasks))
    BY <1>1 DEF Surjection, Ids
  <1>3. IsFiniteSet(D) /\ Cardinality(D) = n
    <2>1. n \in Nat
      BY <1>1
    <2> HIDE DEF n, D, f
    <2>2. IsFiniteSet(1 .. n) /\ Cardinality(1 .. n) = IF 1 > n THEN 0 ELSE n - 1 + 1
      BY <2>1, FS_Interval
    <2> QED
      BY <2>1, <2>2 DEF D
  <1> HIDE DEF D, f
  <1>4. IsFiniteSet(Ids(tasks)) /\ Cardinality(Ids(tasks)) <= Len(tasks)
    BY <1>2, <1>3, FS_Surjection
  <1>5. Edges(tasks) \subseteq Ids(tasks) \X Ids(tasks)
    BY DEF Edges
  <1>6. IsFiniteSet(Ids(tasks) \X Ids(tasks))
    BY <1>4, FS_Product
  <1>7. IsFiniteSet(Edges(tasks))
    BY <1>5, <1>6, FS_Subset
  <1>8. \A id : <<id, id>> \notin Edges(tasks)
    BY DEF Edges
  <1>9. Ids(tasks) \subseteq Nat
    BY DEF Ids, IsTasks
  <1> QED
    BY <1>4, <1>5, <1>7, <1>8, <1>9

LEMMA UnmetCount ==
    ASSUME NEW tasks, IsTasks(tasks), NEW ordered, NEW id
    PROVE  /\ IsFiniteSet(Unmet(Edges(tasks), ordered, id))
           /\ Cardinality(Unmet(Edges(tasks), ordered, id)) \in Nat
           /\ Cardinality(Unmet(Edges(tasks), ordered, id)) = 0
                <=> Unmet(Edges(tasks), ordered, id) = {}
  <1>1. Unmet(Edges(tasks), ordered, id) \subseteq Edges(tasks)
    BY DEF Unmet
  <1> QED
    BY <1>1, GraphIsFinite, FS_Subset, FS_CardinalityType, FS_EmptySet

(* The loop begins sound ...                                              *)
THEOREM KahnBegins ==
    ASSUME NEW tasks, IsTasks(tasks)
    PROVE  KahnSound(tasks, KahnStart(tasks, Edges(tasks)))
  <1> DEFINE s == KahnStart(tasks, Edges(tasks))
             ids == Ids(tasks)
             degree == [to \in ids |-> Cardinality({e \in Edges(tasks) : e[2] = to})]
  <1>1. /\ s.ordered = <<>> /\ s.degree = degree
        /\ s.ready = {id \in ids : degree[id] = 0}
    BY DEF KahnStart
  <1>2. \A id : Unmet(Edges(tasks), <<>>, id) = {e \in Edges(tasks) : e[2] = id}
    BY DEF Unmet, ToSet
  <1>3. <<>> \in Seq(ids) /\ IsInjective(<<>>) /\ DOMAIN <<>> = {} /\ ToSet(<<>>) = {}
    BY DEF IsInjective, ToSet
  <1> HIDE DEF s
  <1> QED
    BY <1>1, <1>2, <1>3 DEF KahnSound, s

(* ... every turn of it stays sound ...                                   *)
THEOREM KahnStaysSound ==
    ASSUME NEW tasks, IsTasks(tasks), NEW s, KahnSound(tasks, s)
    PROVE  KahnSound(tasks, KahnPop(Edges(tasks), s))
  <1> DEFINE edges == Edges(tasks)
             ids == Ids(tasks)
             done == ToSet(s.ordered)
             next == Min(s.ready)
             degree == [id \in DOMAIN s.degree |->
                          s.degree[id] - IF id \in Successors(edges, next)
                                         THEN 1 ELSE 0]
             ordered == Append(s.ordered, next)
             ready == (s.ready \ {next})
                        \cup {id \in Successors(edges, next) : degree[id] = 0}
             t == KahnPop(edges, s)
  <1>0. CASE s.ready = {}
    BY <1>0 DEF KahnPop
  <1>1. CASE s.ready # {}
    <2>1. t.ordered = ordered /\ t.degree = degree /\ t.ready = ready
      BY <1>1 DEF KahnPop
    <2>2. /\ s.ordered \in Seq(ids) /\ IsInjective(s.ordered)
          /\ \A j \in DOMAIN s.ordered, id \in ids :
               <<id, s.ordered[j]>> \in edges => \E i \in 1 .. j - 1 : s.ordered[i] = id
          /\ DOMAIN s.degree = ids
          /\ \A id \in ids : s.degree[id] = Cardinality(Unmet(edges, s.ordered, id))
          /\ s.ready = {id \in ids \ done : s.degree[id] = 0}
      BY DEF KahnSound
    <2>3. next \in s.ready
      <3>1. s.ready \in SUBSET Nat
        BY <2>2, GraphIsFinite
      <3>2. \E x \in s.ready : \A y \in s.ready : x <= y
        BY <1>1, <3>1, FirstOf
      <3> QED
        BY <3>2 DEF Min
    <2>4. \A id : id \in Successors(edges, next) <=> <<next, id>> \in edges
      <3>1. edges \subseteq ids \X ids
        BY GraphIsFinite
      <3> HIDE DEF edges, next
      <3>2. \A e \in edges : e = <<e[1], e[2]>>
        BY <3>1
      <3> QED
        BY <3>2 DEF Successors
    <2>5. \A id \in ids : degree[id] = s.degree[id]
                                       - IF <<next, id>> \in edges THEN 1 ELSE 0
      BY <2>2, <2>4
    <2>6. DOMAIN degree = ids
      BY <2>2
    <2> HIDE DEF degree, next, t, edges
    <2>7. ready = (s.ready \ {next})
                    \cup {id \in Successors(edges, next) : degree[id] = 0}
      OBVIOUS
    <2> HIDE DEF ready
    <2>8. next \in ids /\ next \notin done /\ s.degree[next] = 0
      BY <2>2, <2>3
    <2>9. /\ ordered \in Seq(ids) /\ Len(ordered) = Len(s.ordered) + 1
          /\ Len(s.ordered) \in Nat
          /\ DOMAIN s.ordered = 1 .. Len(s.ordered)
          /\ DOMAIN ordered = 1 .. Len(s.ordered) + 1
          /\ ordered[Len(s.ordered) + 1] = next
          /\ \A i \in 1 .. Len(s.ordered) : ordered[i] = s.ordered[i]
      BY <2>2, <2>8
    <2> HIDE DEF ordered
    <2>10. ToSet(ordered) = done \cup {next}
      BY <2>9 DEF ToSet
    <2>11. IsInjective(ordered)
      <3>1. \A i \in 1 .. Len(s.ordered) : ordered[i] # next
        BY <2>8, <2>9 DEF ToSet
      <3> SUFFICES ASSUME NEW i \in DOMAIN ordered, NEW j \in DOMAIN ordered,
                          ordered[i] = ordered[j]
                   PROVE  i = j
        BY DEF IsInjective
      <3>2. CASE i \in DOMAIN s.ordered /\ j \in DOMAIN s.ordered
        <4>1. s.ordered[i] = s.ordered[j]
          BY <2>9, <3>2
        <4> QED
          BY <2>2, <3>2, <4>1 DEF IsInjective
      <3>3. CASE i = Len(s.ordered) + 1 /\ j = Len(s.ordered) + 1
        BY <3>3
      <3>4. CASE i = Len(s.ordered) + 1 /\ j \in DOMAIN s.ordered
        BY <2>9, <3>1, <3>4
      <3>5. CASE i \in DOMAIN s.ordered /\ j = Len(s.ordered) + 1
        BY <2>9, <3>1, <3>5
      <3> QED
        BY <2>9, <3>2, <3>3, <3>4, <3>5
    <2>12. \A id \in ids : Unmet(edges, ordered, id)
                             = Unmet(edges, s.ordered, id) \ {<<next, id>>}
      <3>1. edges \subseteq ids \X ids
        BY GraphIsFinite DEF edges
      <3> TAKE id \in ids
      <3>2. \A e \in edges : e[2] = id /\ e[1] = next <=> e = <<next, id>>
        BY <3>1
      <3> QED
        BY <2>10, <3>2 DEF Unmet
    <2>13. \A id \in ids : /\ <<next, id>> \in edges
                                => <<next, id>> \in Unmet(edges, s.ordered, id)
                           /\ <<next, id>> \in Unmet(edges, s.ordered, id)
                                => <<next, id>> \in edges
      BY <2>8 DEF Unmet
    <2>14. ASSUME NEW id \in ids
           PROVE  degree[id] = Cardinality(Unmet(edges, ordered, id))
      <3>1. IsFiniteSet(Unmet(edges, s.ordered, id))
        BY UnmetCount DEF edges
      <3>2. CASE <<next, id>> \in edges
        <4>1. Cardinality(Unmet(edges, ordered, id))
                = Cardinality(Unmet(edges, s.ordered, id)) - 1
          BY <2>12, <2>13, <3>1, <3>2, FS_RemoveElement
        <4> QED
          BY <2>2, <2>5, <3>2, <4>1 DEF edges
      <3>3. CASE <<next, id>> \notin edges
        <4>1. Unmet(edges, ordered, id) = Unmet(edges, s.ordered, id)
          BY <2>12, <2>13, <3>3
        <4>2. s.degree[id] = Cardinality(Unmet(edges, s.ordered, id))
          BY <2>2 DEF edges
        <4>3. s.degree[id] \in Nat
          BY <4>2, UnmetCount DEF edges
        <4> QED
          BY <2>5, <3>3, <4>1, <4>2, <4>3
      <3> QED
        BY <3>2, <3>3
    <2>15. \A id \in ids : s.degree[id] = 0 <=> Unmet(edges, s.ordered, id) = {}
      BY <2>2, UnmetCount DEF edges
    <2>16. \A id \in done : Unmet(edges, s.ordered, id) = {}
      <3> SUFFICES ASSUME NEW id \in done, NEW e \in Unmet(edges, s.ordered, id)
                   PROVE  FALSE
        OBVIOUS
      <3>1. PICK j \in DOMAIN s.ordered : s.ordered[j] = id
        BY DEF ToSet
      <3>2. e \in edges /\ e[2] = id /\ e[1] \notin done
        BY DEF Unmet
      <3>3. e[1] \in ids /\ e = <<e[1], e[2]>>
        BY <3>2, GraphIsFinite DEF edges
      <3>4. PICK i \in 1 .. j - 1 : s.ordered[i] = e[1]
        BY <2>2, <3>1, <3>2, <3>3 DEF edges
      <3>5. i \in DOMAIN s.ordered
        BY <2>9, <3>1, <3>4
      <3> QED
        BY <3>2, <3>4, <3>5 DEF ToSet
    <2>17. ready = {id \in ids \ ToSet(ordered) : degree[id] = 0}
      <3>1. ASSUME NEW id \in ready
            PROVE  id \in ids /\ id \notin ToSet(ordered) /\ degree[id] = 0
        <4>1. CASE id \in s.ready /\ id # next
          <5>1. id \in ids /\ id \notin done /\ s.degree[id] = 0
            BY <2>2, <4>1
          <5>2. <<next, id>> \notin edges
            BY <2>13, <2>15, <5>1
          <5> QED
            BY <2>5, <2>10, <4>1, <5>1, <5>2
        <4>2. CASE id \in Successors(edges, next) /\ degree[id] = 0
          <5>1. <<next, id>> \in edges
            BY <2>4, <4>2 DEF edges
          <5>2. id \in ids /\ id # next
            BY <5>1, GraphIsFinite DEF edges
          <5>3. id \notin done
            BY <2>13, <2>16, <5>1, <5>2
          <5> QED
            BY <2>10, <4>2, <5>2, <5>3
        <4> QED
          BY <2>7, <3>1, <4>1, <4>2
      <3>2. ASSUME NEW id \in ids, id \notin ToSet(ordered), degree[id] = 0
            PROVE  id \in ready
        <4>1. CASE <<next, id>> \in edges
          BY <2>4, <2>7, <3>2, <4>1 DEF edges
        <4>2. CASE <<next, id>> \notin edges
          <5>1. s.degree[id] \in Nat
            BY <2>2, UnmetCount DEF edges
          <5>2. s.degree[id] = 0
            BY <2>5, <3>2, <4>2, <5>1
          <5>3. id \in s.ready /\ id # next
            BY <2>2, <2>10, <3>2, <5>2
          <5> QED
            BY <2>7, <5>3
        <4> QED
          BY <4>1, <4>2
      <3> QED
        BY <3>1, <3>2
    <2>18. ASSUME NEW j \in DOMAIN ordered, NEW id \in ids,
                  <<id, ordered[j]>> \in edges
           PROVE  \E i \in 1 .. j - 1 : ordered[i] = id
      <3>1. CASE j \in DOMAIN s.ordered
        <4>1. PICK i \in 1 .. j - 1 : s.ordered[i] = id
          BY <2>2, <2>9, <2>18, <3>1 DEF edges
        <4>2. i \in 1 .. Len(s.ordered)
          BY <2>9, <3>1, <4>1
        <4> QED
          BY <2>9, <4>1, <4>2
      <3>2. CASE j = Len(s.ordered) + 1
        <4>1. ordered[j] = next
          BY <2>9, <3>2
        <4>2. Unmet(edges, s.ordered, next) = {}
          BY <2>8, <2>15
        <4>3. id \in done
          BY <2>18, <4>1, <4>2 DEF Unmet
        <4>4. PICK i \in 1 .. Len(s.ordered) : s.ordered[i] = id
          BY <2>9, <4>3 DEF ToSet
        <4>5. i \in 1 .. j - 1 /\ ordered[i] = id
          BY <2>9, <3>2, <4>4
        <4> QED
          BY <4>5
      <3> QED
        BY <2>9, <3>1, <3>2
    <2> QED
      BY <2>1, <2>6, <2>9, <2>11, <2>14, <2>17, <2>18 DEF KahnSound, t, edges
  <1> QED
    BY <1>0, <1>1

(* ... when it has ordered as many tasks as there are, the order is one of *)
(* all tasks, each once, that puts none before a task it requires ...     *)
THEOREM KahnOrders ==
    ASSUME NEW tasks, IsTasks(tasks), NEW s, KahnSound(tasks, s),
           Len(s.ordered) = Len(tasks)
    PROVE  /\ ToSet(s.ordered) = Ids(tasks) /\ IsInjective(s.ordered)
           /\ Respects(s.ordered, Edges(tasks))
  <1> DEFINE n == Len(s.ordered)
             D == 1 .. n
             done == ToSet(s.ordered)
  <1>1. /\ s.ordered \in Seq(Ids(tasks)) /\ IsInjective(s.ordered)
        /\ DOMAIN s.ordered = D /\ n \in Nat
        /\ done \subseteq Ids(tasks)
    BY DEF KahnSound, ToSet
  <1>2. s.ordered \in Surjection(D, done) /\ s.ordered \in Injection(D, done)
    BY <1>1 DEF Surjection, Injection, ToSet
  <1>3. IsFiniteSet(D) /\ Cardinality(D) = n
    <2>1. n \in Nat
      BY <1>1
    <2> HIDE DEF n
    <2>2. IsFiniteSet(1 .. n) /\ Cardinality(1 .. n) = IF 1 > n THEN 0 ELSE n - 1 + 1
      BY <2>1, FS_Interval
    <2> QED
      BY <2>1, <2>2
  <1> HIDE DEF D, done
  <1>4. Cardinality(done) = n
    BY <1>2, <1>3, FS_Surjection
  <1>5. done = Ids(tasks)
    <2>1. IsFiniteSet(Ids(tasks)) /\ Cardinality(Ids(tasks)) <= n
      BY GraphIsFinite
    <2>2. Cardinality(done) <= Cardinality(Ids(tasks)) /\ Cardinality(Ids(tasks)) \in Nat
      BY <1>1, <2>1, FS_Subset, FS_CardinalityType
    <2>3. Cardinality(Ids(tasks)) = Cardinality(done)
      BY <1>1, <1>4, <2>1, <2>2
    <2> QED
      BY <1>1, <2>1, <2>3, FS_Subset
  <1>6. Respects(s.ordered, Edges(tasks))
    <2> SUFFICES ASSUME NEW i \in DOMAIN s.ordered, NEW j \in DOMAIN s.ordered,
                        <<s.ordered[i], s.ordered[j]>> \in Edges(tasks)
                 PROVE  i < j
      BY DEF Respects
    <2>1. s.ordered[i] \in Ids(tasks)
      BY <1>1
    <2>2. PICK k \in 1 .. j - 1 : s.ordered[k] = s.ordered[i]
      BY <2>1 DEF KahnSound
    <2>3. j \in Nat /\ j <= n /\ k \in DOMAIN s.ordered /\ k < j
      BY <1>1, <2>2 DEF D
    <2>4. k = i
      BY <1>1, <2>2, <2>3 DEF IsInjective
    <2> QED
      BY <2>3, <2>4
  <1> QED
    BY <1>1, <1>5, <1>6 DEF done

(* ... and when it stops before that, each task left requires another that *)
(* is left too: there is a cycle to show.                                 *)
THEOREM KahnLeavesCycle ==
    ASSUME NEW tasks, IsTasks(tasks), NEW s, KahnSound(tasks, s), s.ready = {}
    PROVE  LET left == Ids(tasks) \ ToSet(s.ordered) IN
           \A id \in left : \E other \in left :
              <<other, id>> \in Edges(tasks) /\ other # id /\ s.degree[id] > 0
  <1> SUFFICES ASSUME NEW id \in Ids(tasks), id \notin ToSet(s.ordered)
               PROVE  \E other \in Ids(tasks) \ ToSet(s.ordered) :
                        <<other, id>> \in Edges(tasks) /\ other # id /\ s.degree[id] > 0
    OBVIOUS
  <1>1. s.degree[id] # 0 /\ s.degree[id] = Cardinality(Unmet(Edges(tasks), s.ordered, id))
    BY DEF KahnSound
  <1>2. PICK e \in Unmet(Edges(tasks), s.ordered, id) : TRUE
    BY <1>1, UnmetCount
  <1>3. e \in Edges(tasks) /\ e[2] = id /\ e[1] \notin ToSet(s.ordered)
    BY <1>2 DEF Unmet
  <1>4. e[1] \in Ids(tasks) /\ e = <<e[1], id>> /\ e[1] # id
    BY <1>3, GraphIsFinite
  <1>5. s.degree[id] > 0
    BY <1>1, UnmetCount
  <1> QED
    BY <1>3, <1>4, <1>5

(* The ids are all different, so there are as many as tasks.              *)
LEMMA DistinctTasks ==
    ASSUME NEW tasks, IsProject(tasks)
    PROVE  Cardinality(Ids(tasks)) = Len(tasks)
  <1> DEFINE n == Len(tasks)
             D == 1 .. n
             f == [k \in D |-> tasks[k].id]
  <1>1. DOMAIN tasks = D /\ Len(tasks) \in Nat
    BY DEF IsProject, IsTasks, IsList
  <1>2. f \in Surjection(D, Ids(tasks)) /\ f \in Injection(D, Ids(tasks))
    BY <1>1 DEF Surjection, Injection, IsInjective, Ids, IsProject
  <1>3. IsFiniteSet(D) /\ Cardinality(D) = n
    <2>1. n \in Nat
      BY <1>1
    <2> HIDE DEF n, D, f
    <2>2. IsFiniteSet(1 .. n) /\ Cardinality(1 .. n) = IF 1 > n THEN 0 ELSE n - 1 + 1
      BY <2>1, FS_Interval
    <2> QED
      BY <2>1, <2>2 DEF D
  <1> HIDE DEF D, f
  <1> QED
    BY <1>2, <1>3, FS_Surjection

(* What is free once the first k tasks are ordered: all that it requires is *)
(* among them.                                                            *)
Free(edges, ordered, k, id) ==
    \A other : <<other, id>> \in edges => \E i \in 1 .. k : ordered[i] = other
Greedy(tasks, ordered) ==
    \A j \in DOMAIN ordered, id \in Ids(tasks) :
        /\ \A i \in 1 .. j - 1 : ordered[i] # id
        /\ Free(Edges(tasks), ordered, j - 1, id)
        => ordered[j] <= id
KahnAfter(tasks, k, s) ==
    /\ KahnSound(tasks, s) /\ Greedy(tasks, s.ordered)
    /\ Len(s.ordered) = k \/ s.ready = {}

KahnTurns == INSTANCE FoldFacts
    WITH Op <- LAMBDA p, s, k : KahnPop(Edges(p), s), Value <- LAMBDA p, k : p[k],
         Pick <- LAMBDA s : Max(s), Inv <- LAMBDA p, k, s : KahnAfter(p, k, s)

LEMMA KahnStaysGreedy ==
    ASSUME NEW tasks, IsTasks(tasks), NEW s, KahnSound(tasks, s),
           Greedy(tasks, s.ordered)
    PROVE  Greedy(tasks, KahnPop(Edges(tasks), s).ordered)
  <1>0. CASE s.ready = {}
    BY <1>0 DEF KahnPop
  <1>1. CASE s.ready # {}
    <2> DEFINE next == Min(s.ready)
               n == Len(s.ordered)
               ordered == Append(s.ordered, next)
               edges == Edges(tasks)
    <2>1. KahnPop(edges, s).ordered = ordered
      BY <1>1 DEF KahnPop
    <2>2. /\ s.ordered \in Seq(Ids(tasks)) /\ n \in Nat /\ DOMAIN s.ordered = 1 .. n
          /\ s.ready = {id \in Ids(tasks) \ ToSet(s.ordered) : s.degree[id] = 0}
          /\ \A id \in Ids(tasks) : s.degree[id] = Cardinality(Unmet(edges, s.ordered, id))
      BY DEF KahnSound
    <2>3. s.ready \in SUBSET Nat
      BY <2>2, GraphIsFinite
    <2>4. next \in s.ready /\ \A id \in s.ready : next <= id
      <3>1. \E x \in s.ready : \A y \in s.ready : x <= y
        BY <1>1, <2>3, FirstOf
      <3> QED
        BY <3>1 DEF Min
    <2> HIDE DEF next
    <2>5. /\ DOMAIN ordered = 1 .. n + 1 /\ ordered[n + 1] = next
          /\ \A i \in 1 .. n : ordered[i] = s.ordered[i]
      BY <2>2, <2>4
    <2> HIDE DEF ordered, n, edges
    <2> SUFFICES ASSUME NEW j \in 1 .. n + 1, NEW id \in Ids(tasks),
                        \A i \in 1 .. j - 1 : ordered[i] # id,
                        Free(edges, ordered, j - 1, id)
                 PROVE  ordered[j] <= id
      BY <2>1, <2>5 DEF Greedy, edges
    <2>6. CASE j \in 1 .. n
      <3>1. \A i \in 1 .. j - 1 : i \in 1 .. n /\ ordered[i] = s.ordered[i]
        BY <2>2, <2>5, <2>6
      <3>2. Free(edges, s.ordered, j - 1, id)
        BY <3>1 DEF Free
      <3> QED
        BY <2>2, <2>5, <2>6, <3>1, <3>2 DEF Greedy, edges
    <2>7. CASE j = n + 1
      <3>1. id \notin ToSet(s.ordered)
        BY <2>2, <2>5, <2>7 DEF ToSet
      <3>2. Unmet(edges, s.ordered, id) = {}
        <4> SUFFICES ASSUME NEW e \in Unmet(edges, s.ordered, id) PROVE FALSE
          OBVIOUS
        <4>1. e \in edges /\ e[2] = id /\ e[1] \notin ToSet(s.ordered)
          BY DEF Unmet
        <4>2. e = <<e[1], id>>
          BY <4>1, GraphIsFinite DEF edges
        <4>3. PICK i \in 1 .. j - 1 : ordered[i] = e[1]
          BY <4>1, <4>2 DEF Free
        <4>4. i \in 1 .. n
          BY <2>2, <2>7, <4>3
        <4>5. i \in DOMAIN s.ordered /\ s.ordered[i] = e[1]
          BY <2>2, <2>5, <4>3, <4>4
        <4> QED
          BY <4>1, <4>5 DEF ToSet
      <3>3. s.degree[id] = 0
        BY <2>2, <3>2, UnmetCount DEF edges
      <3> QED
        BY <2>2, <2>4, <2>5, <2>7, <3>1, <3>3
    <2> QED
      BY <2>2, <2>6, <2>7
  <1> QED
    BY <1>0, <1>1

(* The loop ends with all tasks ordered or none ready.                    *)
THEOREM KahnEnds ==
    ASSUME NEW tasks, IsTasks(tasks)
    PROVE  KahnAfter(tasks, Len(tasks), Kahn(tasks, Edges(tasks)))
  <1> DEFINE n == Len(tasks)
             start == KahnStart(tasks, Edges(tasks))
  <1>1. DOMAIN tasks = 1 .. n /\ n \in Nat
    BY DEF IsTasks, IsList
  <1>2. Kahn(tasks, Edges(tasks)) = KahnTurns!Fold(tasks, start, 1 .. n)
    BY <1>1 DEF Kahn, FoldLeftDomain, FoldLeft, MapThenFoldSet, KahnTurns!Fold,
                KahnTurns!MapThenFoldSet
  <1> HIDE DEF n, start
  <1>3. KahnTurns!Picks(1 .. n) /\ KahnTurns!LastPicked(n)
    BY <1>1, LastOfPositions DEF KahnTurns!Picks, KahnTurns!LastPicked
  <1>4. KahnAfter(tasks, 0, start)
    <2>1. start.ordered = <<>>
      BY DEF start, KahnStart
    <2>2. Greedy(tasks, <<>>)
      BY DEF Greedy
    <2> QED
      BY <2>1, <2>2, KahnBegins DEF KahnAfter, start
  <1>5. ASSUME NEW k \in 1 .. n, NEW s, KahnAfter(tasks, k - 1, s)
        PROVE  KahnAfter(tasks, k, KahnPop(Edges(tasks), s))
    <2>1. /\ KahnSound(tasks, KahnPop(Edges(tasks), s))
          /\ Greedy(tasks, KahnPop(Edges(tasks), s).ordered)
      BY <1>5, KahnStaysSound, KahnStaysGreedy DEF KahnAfter
    <2>2. CASE s.ready = {}
      BY <2>1, <2>2 DEF KahnPop, KahnAfter
    <2>3. CASE s.ready # {}
      <3>1. KahnPop(Edges(tasks), s).ordered = Append(s.ordered, Min(s.ready))
        BY <2>3 DEF KahnPop
      <3>2. s.ordered \in Seq(Ids(tasks)) /\ Len(s.ordered) = k - 1
        BY <1>5, <2>3 DEF KahnAfter, KahnSound
      <3>3. Len(Append(s.ordered, Min(s.ready))) = k
        BY <1>1, <3>2
      <3> QED
        BY <2>1, <3>1, <3>3 DEF KahnAfter
    <2> QED
      BY <2>2, <2>3
  <1>6. KahnAfter(tasks, n, KahnTurns!Fold(tasks, start, 1 .. n))
    BY <1>1, <1>3, <1>4, <1>5, KahnTurns!ListKeeps
  <1> QED
    BY <1>2, <1>6 DEF n

(* Cycles as sequences.                                                   *)
After(c, k) == IF k = Len(c) THEN 1 ELSE k + 1
IsCycle(ids, edges, c) ==
    /\ c \in Seq(ids) /\ Len(c) # 0 /\ IsInjective(c)
    /\ \A k \in 1 .. Len(c) : <<c[k], c[After(c, k)]>> \in edges

LEMMA CyclesAre ==
    ASSUME NEW ids, IsFiniteSet(ids), NEW edges
    PROVE  /\ \A c : c \in Cycles(ids, edges) <=> IsCycle(ids, edges, c)
           /\ \A c \in Cycles(ids, edges) :
                /\ Len(c) \in 1 .. Cardinality(ids) /\ DOMAIN c = 1 .. Len(c)
                /\ \A k \in 1 .. Len(c) : c[k] \in ids
  <1> DEFINE m == Cardinality(ids)
             Closes(c) == \A k \in DOMAIN c :
                            <<c[k], c[IF k = Len(c) THEN 1 ELSE k + 1]>> \in edges
             Functions == UNION {[1 .. n -> ids] : n \in 1 .. m}
  <1>1. m \in Nat
    BY FS_CardinalityType
  <1>2. \A c : c \in Cycles(ids, edges)
               <=> c \in Functions /\ Closes(c) /\ IsInjective(c)
    BY DEF Cycles
  <1> HIDE DEF m
  <1>3. ASSUME NEW c \in Functions
        PROVE  c \in Seq(ids) /\ Len(c) \in 1 .. m /\ DOMAIN c = 1 .. Len(c)
    <2>1. PICK n \in 1 .. m : c \in [1 .. n -> ids]
      OBVIOUS
    <2>2. n \in Nat
      BY <1>1
    <2>3. c \in Seq(ids) /\ Len(c) = n /\ DOMAIN c = 1 .. n
      BY <2>1, <2>2
    <2> QED
      BY <2>3
  <1>4. ASSUME NEW c, IsCycle(ids, edges, c)
        PROVE  c \in Functions
    <2>1. c \in Seq(ids) /\ Len(c) \in Nat \ {0} /\ DOMAIN c = 1 .. Len(c)
          /\ c \in [1 .. Len(c) -> ids]
      BY <1>4 DEF IsCycle
    <2> DEFINE n == Len(c)
               D == 1 .. n
    <2>2. c \in Injection(D, ids)
      BY <1>4, <2>1 DEF Injection, IsCycle
    <2>3. IsFiniteSet(D) /\ Cardinality(D) = n
      <3>1. n \in Nat
        BY <2>1
      <3> HIDE DEF n
      <3>2. IsFiniteSet(1 .. n) /\ Cardinality(1 .. n) = IF 1 > n THEN 0 ELSE n - 1 + 1
        BY <3>1, FS_Interval
      <3> QED
        BY <3>1, <3>2
    <2> HIDE DEF D
    <2>4. Cardinality(D) <= Cardinality(ids)
      BY <2>2, <2>3, FS_Injection
    <2>5. n <= m
      BY <2>3, <2>4 DEF m
    <2>6. n \in 1 .. m
      BY <1>1, <2>1, <2>5
    <2> QED
      BY <2>1, <2>6
  <1>5. ASSUME NEW c, IsCycle(ids, edges, c)
        PROVE  Closes(c)
    BY <1>5 DEF IsCycle, After
  <1>6. ASSUME NEW c \in Functions, Closes(c), IsInjective(c)
        PROVE  IsCycle(ids, edges, c)
    <2>1. c \in Seq(ids) /\ Len(c) \in 1 .. m /\ DOMAIN c = 1 .. Len(c)
      BY <1>3
    <2>2. Len(c) # 0
      <3> HIDE DEF Functions, Closes
      <3> QED
        BY <1>1, <2>1
    <2> QED
      BY <1>6, <2>1, <2>2 DEF IsCycle, After
  <1> HIDE DEF Functions, Closes
  <1>8. \A c : c \in Cycles(ids, edges) <=> IsCycle(ids, edges, c)
    BY <1>2, <1>4, <1>5, <1>6 DEF IsCycle
  <1>9. ASSUME NEW c \in Cycles(ids, edges)
        PROVE  /\ Len(c) \in 1 .. m /\ DOMAIN c = 1 .. Len(c)
               /\ \A k \in 1 .. Len(c) : c[k] \in ids
    <2>1. c \in Seq(ids) /\ Len(c) \in 1 .. m /\ DOMAIN c = 1 .. Len(c)
      BY <1>2, <1>3
    <2> QED
      BY <2>1
  <1> QED
    BY <1>8, <1>9 DEF m

(* No task that was ordered is on a cycle.                                *)
LEMMA OrderedIsFree ==
    ASSUME NEW tasks, IsTasks(tasks), NEW s, KahnSound(tasks, s),
           NEW c \in Cycles(Ids(tasks), Edges(tasks)), NEW k \in DOMAIN c
    PROVE  c[k] \in Ids(tasks) \ ToSet(s.ordered)
  <1> DEFINE ids == Ids(tasks)
             edges == Edges(tasks)
             T == {j \in DOMAIN s.ordered : \E i \in DOMAIN c : s.ordered[j] = c[i]}
  <1>1. IsFiniteSet(ids)
    BY GraphIsFinite
  <1>2. /\ Len(c) \in Nat \ {0} /\ DOMAIN c = 1 .. Len(c)
        /\ \A i \in DOMAIN c : c[i] \in ids
        /\ \A i \in DOMAIN c : <<c[i], c[After(c, i)]>> \in edges
    <2>1. Len(c) \in 1 .. Cardinality(ids) /\ Cardinality(ids) \in Nat
      BY <1>1, CyclesAre, FS_CardinalityType
    <2>2. IsCycle(ids, edges, c) /\ DOMAIN c = 1 .. Len(c)
      BY <1>1, CyclesAre
    <2>3. \A i \in 1 .. Len(c) : c[i] \in ids
      BY <1>1, CyclesAre
    <2> QED
      BY <2>1, <2>2, <2>3 DEF IsCycle
  <1>3. \A i \in DOMAIN c : \E h \in DOMAIN c : <<c[h], c[i]>> \in edges
    <2> TAKE i \in DOMAIN c
    <2> DEFINE h == IF i = 1 THEN Len(c) ELSE i - 1
    <2>1. h \in DOMAIN c /\ After(c, h) = i
      BY <1>2 DEF After
    <2> QED
      BY <1>2, <2>1
  <1>4. /\ s.ordered \in Seq(ids) /\ DOMAIN s.ordered = 1 .. Len(s.ordered)
        /\ \A j \in DOMAIN s.ordered, id \in ids :
             <<id, s.ordered[j]>> \in edges => \E i \in 1 .. j - 1 : s.ordered[i] = id
    BY DEF KahnSound
  <1>5. T = {}
    <2> SUFFICES ASSUME T # {} PROVE FALSE
      OBVIOUS
    <2>1. T \in SUBSET Nat
      BY <1>4
    <2>2. PICK j \in T : \A i \in T : j <= i
      BY <2>1, FirstOf
    <2>3. PICK i \in DOMAIN c : s.ordered[j] = c[i]
      BY <2>2
    <2>4. PICK h \in DOMAIN c : <<c[h], c[i]>> \in edges
      BY <1>3
    <2>5. j \in DOMAIN s.ordered
      BY <2>2
    <2>6. PICK g \in 1 .. j - 1 : s.ordered[g] = c[h]
      BY <1>2, <1>4, <2>3, <2>4, <2>5
    <2>7. g \in DOMAIN s.ordered /\ g < j
      BY <1>4, <2>5, <2>6
    <2> QED
      BY <2>2, <2>6, <2>7, <2>1
  <1> QED
    BY <1>2, <1>5 DEF ToSet

(* Tasks of which each requires another one of them have a cycle.         *)
LEMMA PredecessorsMeet ==
    ASSUME NEW ids, IsFiniteSet(ids), NEW edges, NEW left \in SUBSET ids, left # {},
           \A id \in left : \E other \in left : <<other, id>> \in edges
    PROVE  Cycles(ids, edges) # {}
  <1> DEFINE IsPath(w) == /\ w \in Seq(left) /\ IsInjective(w)
                          /\ \A k \in 1 .. Len(w) - 1 : <<w[k], w[k + 1]>> \in edges
             m == Cardinality(ids)
             Lengths == {n \in Nat : \E w : IsPath(w) /\ Len(w) = n}
  <1>1. m \in Nat
    BY FS_CardinalityType
  <1>2. ASSUME NEW w, IsPath(w)
        PROVE  Len(w) <= m /\ Len(w) \in Nat
    <2> DEFINE n == Len(w)
               D == 1 .. n
    <2>1. n \in Nat /\ w \in [D -> ids]
      BY <1>2
    <2>2. w \in Injection(D, ids)
      BY <1>2, <2>1 DEF Injection
    <2>3. IsFiniteSet(D) /\ Cardinality(D) = n
      <3> HIDE DEF n
      <3>2. IsFiniteSet(1 .. n) /\ Cardinality(1 .. n) = IF 1 > n THEN 0 ELSE n - 1 + 1
        BY <2>1, FS_Interval
      <3> QED
        BY <2>1, <3>2
    <2> HIDE DEF D
    <2>4. Cardinality(D) <= Cardinality(ids)
      BY <2>2, <2>3, FS_Injection
    <2> QED
      BY <2>1, <2>3, <2>4
  <1>3. 0 \in Lengths
    <2>1. IsPath(<<>>) /\ Len(<<>>) = 0
      BY DEF IsInjective
    <2> HIDE DEF IsPath
    <2> QED
      BY <2>1
  <1>4. PICK n \in Lengths : \A x \in Lengths : x <= n
    <2>1. Lengths \in SUBSET Nat /\ Lengths # {}
      BY <1>3
    <2>2. \A x \in Lengths : x <= m
      <3> HIDE DEF IsPath, m
      <3> QED
        BY <1>2
    <2> HIDE DEF Lengths, m
    <2> QED
      BY <1>1, <2>1, <2>2, GreatestOf
  <1>5. PICK w : IsPath(w) /\ Len(w) = n
    BY <1>4
  <1>6. w \in Seq(left) /\ IsInjective(w) /\ n \in Nat /\ DOMAIN w = 1 .. n
        /\ \A k \in 1 .. n - 1 : <<w[k], w[k + 1]>> \in edges
    BY <1>5
  <1>7. \A id \in left : (n # 0 => <<id, w[1]>> \in edges) => \E k \in 1 .. n : w[k] = id
    <2> SUFFICES ASSUME NEW id \in left, n # 0 => <<id, w[1]>> \in edges,
                        \A k \in 1 .. n : w[k] # id
                 PROVE  FALSE
      OBVIOUS
    <2> DEFINE v == <<id>> \o w
    <2>1. /\ v \in Seq(left) /\ Len(v) = n + 1 /\ DOMAIN v = 1 .. n + 1 /\ v[1] = id
          /\ \A k \in 2 .. n + 1 : v[k] = w[k - 1]
      BY <1>5, <1>6
    <2> HIDE DEF v
    <2>2. IsInjective(v)
      <3> SUFFICES ASSUME NEW i \in 1 .. n + 1, NEW j \in 1 .. n + 1, v[i] = v[j]
                   PROVE  i = j
        BY <2>1 DEF IsInjective
      <3>1. ASSUME NEW h \in 2 .. n + 1
            PROVE  v[h] # v[1] /\ h - 1 \in DOMAIN w
        <4>1. h - 1 \in 1 .. n
          BY <1>6
        <4> QED
          BY <1>6, <2>1, <4>1
      <3>2. CASE i = 1 \/ j = 1
        BY <1>6, <3>1, <3>2
      <3>3. CASE i # 1 /\ j # 1
        <4>1. i \in 2 .. n + 1 /\ j \in 2 .. n + 1
          BY <1>6, <3>3
        <4>2. w[i - 1] = w[j - 1]
          BY <2>1, <4>1
        <4>3. i - 1 = j - 1
          BY <1>6, <3>1, <4>1, <4>2 DEF IsInjective
        <4> QED
          BY <1>6, <4>3
      <3> QED
        BY <3>2, <3>3
    <2>3. \A k \in 1 .. Len(v) - 1 : <<v[k], v[k + 1]>> \in edges
      <3> SUFFICES ASSUME NEW k \in 1 .. n
                   PROVE  <<v[k], v[k + 1]>> \in edges
        BY <1>6, <2>1
      <3>1. k + 1 \in 2 .. n + 1 /\ v[k + 1] = w[k]
        BY <1>6, <2>1
      <3>2. CASE k = 1
        <4>1. n # 0
          BY <1>6, <3>2
        <4>2. <<id, w[1]>> \in edges
          BY <4>1
        <4> QED
          BY <2>1, <3>1, <3>2, <4>2
      <3>3. CASE k # 1
        <4>1. k \in 2 .. n + 1 /\ k - 1 \in 1 .. n - 1 /\ (k - 1) + 1 = k
          BY <1>6, <3>3
        <4>2. v[k] = w[k - 1]
          BY <2>1, <4>1
        <4>3. <<w[k - 1], w[(k - 1) + 1]>> \in edges
          BY <1>6, <4>1
        <4> QED
          BY <3>1, <4>1, <4>2, <4>3
      <3> QED
        BY <3>2, <3>3
    <2>4. IsPath(v)
      BY <2>1, <2>2, <2>3
    <2> HIDE DEF IsPath
    <2>5. n + 1 \in Lengths
      BY <1>6, <2>1, <2>4
    <2> QED
      BY <1>4, <1>6, <2>5
  <1>8. n # 0
    <2> SUFFICES ASSUME n = 0 PROVE FALSE
      OBVIOUS
    <2>1. PICK id \in left : TRUE
      OBVIOUS
    <2>2. \E k \in 1 .. n : w[k] = id
      BY <1>7, <2>1
    <2> QED
      BY <2>2
  <1>9. w[1] \in left
    BY <1>6, <1>8
  <1>10. PICK id \in left : <<id, w[1]>> \in edges
    BY <1>9
  <1>11. PICK j \in 1 .. n : w[j] = id
    BY <1>7, <1>10
  <1> DEFINE c == SubSeq(w, 1, j)
  <1>12. c \in Seq(ids) /\ Len(c) = j /\ DOMAIN c = 1 .. j
         /\ \A k \in 1 .. j : c[k] = w[k]
    BY <1>6, <1>11
  <1> HIDE DEF c
  <1>13. IsCycle(ids, edges, c)
    <2>1. IsInjective(c)
      BY <1>6, <1>11, <1>12 DEF IsInjective
    <2>2. ASSUME NEW k \in 1 .. j
          PROVE  <<c[k], c[After(c, k)]>> \in edges
      <3>1. CASE k = j
        <4>1. 1 \in 1 .. j /\ j \in 1 .. j
          BY <1>6, <1>11
        <4>2. c[k] = id /\ c[1] = w[1] /\ After(c, k) = 1
          BY <1>11, <1>12, <3>1, <4>1 DEF After
        <4> QED
          BY <1>10, <4>2
      <3>2. CASE k # j
        <4>1. k + 1 \in 1 .. j /\ k \in 1 .. n - 1
          BY <1>6, <1>11, <3>2
        <4> QED
          BY <1>6, <1>12, <3>2, <4>1 DEF After
      <3> QED
        BY <3>1, <3>2
    <2> QED
      BY <1>6, <1>11, <1>12, <2>1, <2>2 DEF IsCycle
  <1> QED
    BY <1>13, CyclesAre

(* Everything is ordered if and only if there is no cycle.                *)
THEOREM KahnDecides ==
    ASSUME NEW tasks, IsProject(tasks)
    PROVE  LET s == Kahn(tasks, Edges(tasks)) IN
           Len(s.ordered) = Len(tasks) <=> Cycles(Ids(tasks), Edges(tasks)) = {}
  <1> DEFINE s == Kahn(tasks, Edges(tasks))
             ids == Ids(tasks)
             edges == Edges(tasks)
             left == ids \ ToSet(s.ordered)
  <1>1. IsTasks(tasks) /\ IsFiniteSet(ids) /\ Cardinality(ids) = Len(tasks)
    BY GraphIsFinite, DistinctTasks DEF IsProject
  <1>2. KahnAfter(tasks, Len(tasks), s)
    BY <1>1, KahnEnds
  <1> HIDE DEF s
  <1>3. KahnSound(tasks, s) /\ (Len(s.ordered) = Len(tasks) \/ s.ready = {})
    BY <1>2 DEF KahnAfter
  <1>4. ASSUME Len(s.ordered) = Len(tasks), NEW c \in Cycles(ids, edges)
        PROVE  FALSE
    <2>1. ToSet(s.ordered) = ids
      BY <1>1, <1>3, <1>4, KahnOrders
    <2>2. 1 \in DOMAIN c
      <3>1. IsCycle(ids, edges, c) /\ DOMAIN c = 1 .. Len(c)
        BY <1>1, CyclesAre
      <3>2. Len(c) \in Nat /\ Len(c) # 0
        BY <3>1 DEF IsCycle
      <3> QED
        BY <3>1, <3>2
    <2> QED
      BY <1>1, <1>3, <2>1, <2>2, OrderedIsFree
  <1>5. ASSUME Len(s.ordered) # Len(tasks)
        PROVE  Cycles(ids, edges) # {}
    <2>1. \A id \in left : \E other \in left : <<other, id>> \in edges
      BY <1>1, <1>3, <1>5, KahnLeavesCycle
    <2>2. left # {}
      <3> SUFFICES ASSUME left = {} PROVE FALSE
        OBVIOUS
      <3> DEFINE n == Len(s.ordered)
                 D == 1 .. n
      <3>1. /\ s.ordered \in Seq(ids) /\ n \in Nat /\ DOMAIN s.ordered = D
            /\ IsInjective(s.ordered)
        BY <1>3 DEF KahnSound
      <3>2. ToSet(s.ordered) = ids
        BY <3>1 DEF ToSet
      <3>3. s.ordered \in Surjection(D, ids) /\ s.ordered \in Injection(D, ids)
        BY <3>1, <3>2 DEF Surjection, Injection, ToSet
      <3>4. IsFiniteSet(D) /\ Cardinality(D) = n
        <4> HIDE DEF n
        <4>1. IsFiniteSet(1 .. n) /\ Cardinality(1 .. n) = IF 1 > n THEN 0 ELSE n - 1 + 1
          BY <3>1, FS_Interval
        <4> QED
          BY <3>1, <4>1
      <3> HIDE DEF D
      <3>5. Cardinality(ids) = n
        BY <3>3, <3>4, FS_Surjection
      <3> QED
        BY <1>1, <1>5, <3>5
    <2>3. left \in SUBSET ids
      OBVIOUS
    <2> HIDE DEF left, ids, edges
    <2> QED
      BY <1>1, <2>1, <2>2, <2>3, PredecessorsMeet DEF ids, edges
  <1> QED
    BY <1>4, <1>5 DEF s

(* What is on a cycle is left with a degree.                              *)
LEMMA CyclesAreLeft ==
    ASSUME NEW tasks, IsTasks(tasks), NEW s, KahnSound(tasks, s), s.ready = {},
           NEW c \in Cycles(Ids(tasks), Edges(tasks)), NEW k \in DOMAIN c
    PROVE  c[k] \in Ids(tasks) /\ s.degree[c[k]] > 0
  <1> DEFINE left == Ids(tasks) \ ToSet(s.ordered)
  <1>1. c[k] \in left
    BY OrderedIsFree
  <1>2. \A id \in left : \E other \in left : s.degree[id] > 0
    BY KahnLeavesCycle
  <1> QED
    BY <1>1, <1>2

(* The order that comes out is the first of all that respect the edges.   *)
THEOREM FirstOrder ==
    ASSUME NEW tasks, IsProject(tasks),
           Cycles(Ids(tasks), Edges(tasks)) = {}
    PROVE  LET orders == Orders(Ids(tasks), Edges(tasks))
               ordered == Kahn(tasks, Edges(tasks)).ordered IN
           ordered \in orders /\ \A other \in orders : ~ComesBefore(other, ordered)
  <1> DEFINE ids == Ids(tasks)
             edges == Edges(tasks)
             s == Kahn(tasks, Edges(tasks))
             n == Len(tasks)
             ordered == s.ordered
             orders == Orders(ids, edges)
  <1>1. /\ IsTasks(tasks) /\ IsFiniteSet(ids) /\ Cardinality(ids) = n /\ n \in Nat
        /\ ids \subseteq Nat
    BY GraphIsFinite, DistinctTasks DEF IsProject, IsTasks, IsList
  <1>2. KahnSound(tasks, s) /\ Greedy(tasks, s.ordered)
    BY <1>1, KahnEnds DEF KahnAfter
  <1>3. Len(ordered) = n
    BY KahnDecides
  <1> HIDE DEF s, n
  <1>4. /\ ToSet(ordered) = ids /\ IsInjective(ordered) /\ Respects(ordered, edges)
        /\ ordered \in Seq(ids) /\ DOMAIN ordered = 1 .. n
    <2>1. ordered \in Seq(ids)
      BY <1>2 DEF KahnSound
    <2>2. DOMAIN ordered = 1 .. n
      BY <1>3, <2>1, LenProperties
    <2>3. Len(ordered) = Len(tasks)
      BY <1>3 DEF n
    <2>4. ToSet(ordered) = ids /\ IsInjective(ordered) /\ Respects(ordered, edges)
      BY <1>1, <1>2, <2>3, KahnOrders
    <2> QED
      BY <2>1, <2>2, <2>4
  <1>5. ordered \in orders
    <2>1. ordered \in [1 .. Cardinality(ids) -> ids]
      BY <1>1, <1>4
    <2> QED
      BY <1>4, <2>1 DEF Orders, SetToSeqs, IsInjective
  <1>6. ASSUME NEW other \in orders, ComesBefore(other, ordered)
        PROVE  FALSE
    <2>1. other \in [1 .. n -> ids] /\ IsInjective(other) /\ Respects(other, edges)
      BY <1>1 DEF Orders, SetToSeqs, IsInjective
    <2>2. other \in Seq(ids) /\ Len(other) = n
      BY <1>1, <2>1
    <2>3. ~IsStrictPrefix(other, ordered)
      <3> SUFFICES ASSUME SubSeq(other, 1, n) = SubSeq(ordered, 1, n)
                   PROVE  other = ordered
        BY <2>2 DEF IsStrictPrefix, IsPrefix
      <3>1. \A i \in 1 .. n : other[i] = ordered[i]
        <4> TAKE i \in 1 .. n
        <4>1. SubSeq(other, 1, n)[i] = other[i] /\ SubSeq(ordered, 1, n)[i] = ordered[i]
          BY <1>1, <1>3, <1>4, <2>2
        <4> QED
          BY <4>1
      <3> QED
        BY <1>1, <1>3, <1>4, <2>1, <2>2, <3>1
    <2>4. PICK k \in DOMAIN other \cap DOMAIN ordered :
             other[k] < ordered[k] /\ \A j \in 1 .. k - 1 : other[j] = ordered[j]
      BY <1>6, <2>3 DEF ComesBefore
    <2>5. k \in 1 .. n /\ other[k] \in ids /\ ordered[k] \in ids
      <3>1. k \in 1 .. n /\ k \in DOMAIN ordered
        BY <1>4, <2>1
      <3> HIDE DEF ordered, ids
      <3> QED
        BY <1>4, <2>1, <3>1 DEF ToSet
    <2>6. ASSUME NEW i \in 1 .. k - 1
          PROVE  ordered[i] # other[k]
      <3>1. ordered[i] = other[i] /\ i \in 1 .. n /\ i # k
        BY <1>1, <2>4, <2>5
      <3> QED
        BY <2>1, <2>5, <3>1 DEF IsInjective
    <2>7. Free(edges, ordered, k - 1, other[k])
      <3> SUFFICES ASSUME NEW id, <<id, other[k]>> \in edges
                   PROVE  \E i \in 1 .. k - 1 : ordered[i] = id
        BY DEF Free
      <3>1. id \in ids
        BY <1>1, GraphIsFinite
      <3>2. PICK i \in 1 .. n : other[i] = id
        <4>1. other \in Injection(1 .. n, ids)
          BY <2>1 DEF Injection
        <4>2. IsFiniteSet(1 .. n) /\ Cardinality(1 .. n) = n
          <5>1. IsFiniteSet(1 .. n) /\ Cardinality(1 .. n)
                  = IF 1 > n THEN 0 ELSE n - 1 + 1
            BY <1>1, FS_Interval
          <5> QED
            BY <1>1, <5>1
        <4> HIDE DEF ids
        <4>3. other \in Surjection(1 .. n, ids)
          BY <1>1, <4>1, <4>2, FS_Injection
        <4> QED
          BY <3>1, <4>3 DEF Surjection
      <3>3. i < k
        BY <2>1, <2>5, <3>2 DEF Respects
      <3>4. i \in 1 .. k - 1
        BY <1>1, <2>5, <3>3
      <3> QED
        BY <2>4, <3>2, <3>4
    <2>8. ordered[k] <= other[k]
      BY <1>2, <1>4, <2>5, <2>6, <2>7 DEF Greedy
    <2>9. ordered[k] \in Nat /\ other[k] \in Nat
      BY <1>1, <2>5
    <2> QED
      BY <2>4, <2>8, <2>9
  <1> QED
    BY <1>5, <1>6 DEF s

(* Of two lists of one length, neither begins with the other.             *)
LEMMA NoPrefix ==
    ASSUME NEW S, NEW s \in Seq(S), NEW t \in Seq(S), Len(s) = Len(t)
    PROVE  ~IsStrictPrefix(s, t)
  <1>1. SubSeq(s, 1, Len(s)) = s /\ SubSeq(t, 1, Len(s)) = t
    OBVIOUS
  <1> QED
    BY <1>1 DEF IsStrictPrefix, IsPrefix

(* A cycle turned is a cycle of the same tasks.                           *)
LEMMA RotatedCycle ==
    ASSUME NEW ids, NEW edges, NEW c, IsCycle(ids, edges, c),
           NEW offset \in 0 .. Len(c) - 1
    PROVE  LET r == Rotate(c, offset) IN
           /\ IsCycle(ids, edges, r) /\ Len(r) = Len(c) /\ r[1] = c[offset + 1]
           /\ \A k \in 1 .. Len(c) : \E j \in 1 .. Len(c) : r[k] = c[j]
  <1> DEFINE n == Len(c)
             r == Rotate(c, offset)
             At(k) == IF k <= n - offset THEN k + offset ELSE k - (n - offset)
  <1>1. /\ c \in Seq(ids) /\ n \in Nat /\ n # 0 /\ DOMAIN c = 1 .. n /\ IsInjective(c)
        /\ \A k \in 1 .. n : <<c[k], c[After(c, k)]>> \in edges
        /\ offset \in Nat /\ offset < n
    BY DEF IsCycle
  <1>2. /\ r \in Seq(ids) /\ Len(r) = n
        /\ \A k \in 1 .. n : r[k] = c[At(k)]
    <2> DEFINE a == SubSeq(c, offset + 1, n)
               b == SubSeq(c, 1, offset)
    <2>1. /\ a \in Seq(ids) /\ Len(a) = n - offset
          /\ \A k \in 1 .. n - offset : a[k] = c[k + offset]
      BY <1>1
    <2>2. /\ b \in Seq(ids) /\ Len(b) = offset
          /\ \A k \in 1 .. offset : b[k] = c[k]
      BY <1>1
    <2>3. r = a \o b
      BY DEF Rotate
    <2> HIDE DEF a, b, r, n
    <2>4. r \in Seq(ids) /\ Len(r) = n
      <3>1. r \in Seq(ids) /\ Len(r) = Len(a) + Len(b)
        <4> HIDE DEF At
        <4>1. a \o b \in Seq(ids) /\ Len(a \o b) = Len(a) + Len(b)
          BY <2>1, <2>2, ConcatProperties
        <4> QED
          BY <2>3, <4>1
      <3>2. (n - offset) + offset = n
        BY <1>1
      <3> QED
        BY <2>1, <2>2, <3>1, <3>2
    <2>5. ASSUME NEW k \in 1 .. n
          PROVE  r[k] = c[At(k)]
      <3>1. CASE k <= n - offset
        <4>1. k \in 1 .. n - offset
          BY <1>1, <3>1
        <4>2. r[k] = a[k]
          BY <1>1, <2>1, <2>2, <2>3, <4>1
        <4> QED
          BY <2>1, <3>1, <4>1, <4>2
      <3>2. CASE ~(k <= n - offset)
        <4>1. k - (n - offset) \in 1 .. offset
          BY <1>1, <3>2
        <4>2. r[k] = b[k - (n - offset)]
          BY <1>1, <2>1, <2>2, <2>3, <3>2
        <4> QED
          BY <2>2, <3>2, <4>1, <4>2
      <3> QED
        BY <3>1, <3>2
    <2> QED
      BY <2>4, <2>5
  <1> HIDE DEF r, n
  <1>3. \A k \in 1 .. n : At(k) \in 1 .. n
    BY <1>1
  <1>4. \A j, k \in 1 .. n : At(j) = At(k) => j = k
    BY <1>1
  <1>5. \A k \in 1 .. n : At(IF k = n THEN 1 ELSE k + 1)
                            = IF At(k) = n THEN 1 ELSE At(k) + 1
    <2> TAKE k \in 1 .. n
    <2>1. CASE k = n
      BY <1>1, <2>1
    <2>2. CASE k # n /\ k + 1 <= n - offset
      BY <1>1, <2>2
    <2>3. CASE k # n /\ k = n - offset
      BY <1>1, <2>3
    <2>4. CASE k # n /\ k > n - offset
      BY <1>1, <2>4
    <2> QED
      BY <1>1, <2>1, <2>2, <2>3, <2>4
  <1>6. At(1) = offset + 1
    BY <1>1
  <1> HIDE DEF At
  <1>7. IsInjective(r)
    BY <1>1, <1>2, <1>3, <1>4 DEF IsInjective
  <1>8. ASSUME NEW k \in 1 .. n
        PROVE  <<r[k], r[After(r, k)]>> \in edges
    <2>1. After(r, k) = (IF k = n THEN 1 ELSE k + 1) /\ After(r, k) \in 1 .. n
      BY <1>1, <1>2 DEF After
    <2>2. At(After(r, k)) = After(c, At(k))
      BY <1>5, <2>1 DEF After, n
    <2>3. r[k] = c[At(k)] /\ r[After(r, k)] = c[After(c, At(k))]
      BY <1>2, <2>1, <2>2
    <2> QED
      BY <1>1, <1>3, <2>3
  <1>9. IsCycle(ids, edges, r)
    BY <1>1, <1>2, <1>7, <1>8 DEF IsCycle
  <1>10. r[1] = c[offset + 1]
    BY <1>1, <1>2, <1>6
  <1>11. \A k \in 1 .. n : \E j \in 1 .. n : r[k] = c[j]
    BY <1>2, <1>3
  <1> QED
    BY <1>2, <1>9, <1>10, <1>11 DEF r, n

(* A cycle is written from its first task.                                *)
THEOREM RotationIsCanonical ==
    ASSUME NEW ids \in SUBSET Nat, NEW edges, NEW c, IsCycle(ids, edges, c)
    PROVE  LET r == CanonicalRotation(c) IN
           /\ IsCycle(ids, edges, r) /\ Len(r) = Len(c)
           /\ \A k \in 1 .. Len(c) : r[1] <= r[k]
  <1> DEFINE n == Len(c)
             Turned(k) == Rotate(c, k)
             rotations == {Turned(k) : k \in 0 .. n - 1}
             IsFirst(r) == \A other \in rotations : ~ComesBefore(other, r)
             Tasks == {c[k] : k \in 1 .. n}
  <1>1. /\ c \in Seq(ids) /\ n \in Nat /\ n # 0 /\ DOMAIN c = 1 .. n /\ IsInjective(c)
        /\ \A k \in 1 .. n : c[k] \in Nat
    <2>1. c \in Seq(ids) /\ n # 0 /\ IsInjective(c)
      BY DEF IsCycle
    <2> HIDE DEF Turned, IsFirst, Tasks
    <2>2. n \in Nat /\ DOMAIN c = 1 .. n /\ \A k \in 1 .. n : c[k] \in ids
      BY <2>1
    <2> QED
      BY <2>1, <2>2
  <1>2. PICK m \in 1 .. n : \A k \in 1 .. n : c[m] <= c[k]
    <2>1. Tasks \in SUBSET Nat /\ Tasks # {}
      BY <1>1
    <2>2. PICK x \in Tasks : \A y \in Tasks : x <= y
      BY <2>1, FirstOf
    <2> QED
      BY <2>2
  <1>3. \A k \in 0 .. n - 1 : /\ IsCycle(ids, edges, Turned(k)) /\ Len(Turned(k)) = n
                              /\ Turned(k)[1] = c[k + 1]
                              /\ \A i \in 1 .. n : \E j \in 1 .. n : Turned(k)[i] = c[j]
    BY RotatedCycle
  <1> HIDE DEF Turned
  <1> DEFINE best == Turned(m - 1)
  <1>4. m - 1 \in 0 .. n - 1 /\ best[1] = c[m] /\ best \in rotations /\ Len(best) = n
    <2>1. m - 1 \in 0 .. n - 1 /\ (m - 1) + 1 = m
      BY <1>1
    <2> QED
      BY <1>3, <2>1
  <1>5. ASSUME NEW k \in 0 .. n - 1
        PROVE  /\ DOMAIN Turned(k) = 1 .. n /\ 1 \in 1 .. n
               /\ Turned(k) = best \/ best[1] < Turned(k)[1]
               /\ best[1] \in Nat /\ Turned(k)[1] \in Nat
    <2>1. DOMAIN Turned(k) = 1 .. n
      BY <1>1, <1>3 DEF IsCycle
    <2>2. Turned(k)[1] = c[k + 1] /\ k + 1 \in 1 .. n
      BY <1>1, <1>3
    <2>3. CASE k + 1 = m
      <3>1. k = m - 1
        BY <1>1, <2>3
      <3> QED
        BY <1>1, <1>4, <2>1, <2>2, <3>1
    <2>4. CASE k + 1 # m
      <3>1. c[k + 1] # c[m] /\ c[m] <= c[k + 1] /\ c[m] \in Nat /\ c[k + 1] \in Nat
        BY <1>1, <1>2, <2>2, <2>4 DEF IsInjective
      <3> QED
        BY <1>1, <1>4, <2>1, <2>2, <3>1
    <2> QED
      BY <2>3, <2>4
  <1> HIDE DEF best
  <1>6. DOMAIN best = 1 .. n
    BY <1>4, <1>5
  <1>7. IsFirst(best)
    <2> SUFFICES ASSUME NEW k \in 0 .. n - 1, ComesBefore(Turned(k), best)
                 PROVE  FALSE
      OBVIOUS
    <2>1. CASE Turned(k) = best
      <3>1. ~IsStrictPrefix(best, best)
        BY DEF IsStrictPrefix
      <3>2. PICK i \in DOMAIN best \cap DOMAIN best : best[i] < best[i]
        BY <2>1, <3>1 DEF ComesBefore
      <3>3. best[i] \in Nat
        <4>1. \E j \in 1 .. n : best[i] = c[j]
          <5>1. i \in 1 .. n
            BY <1>6
          <5> HIDE DEF n, rotations, IsFirst, Tasks
          <5> QED
            BY <1>3, <1>4, <5>1 DEF best
        <4> QED
          BY <1>1, <4>1
      <3> QED
        BY <3>2, <3>3
    <2>2. CASE best[1] < Turned(k)[1]
      <3>1. ~IsStrictPrefix(Turned(k), best)
        <4>1. best \in Seq(ids) /\ Turned(k) \in Seq(ids)
          BY <1>3, <1>4 DEF IsCycle, best
        <4> QED
          BY <1>3, <1>4, <4>1, NoPrefix
      <3>2. PICK i \in DOMAIN Turned(k) \cap DOMAIN best :
               /\ Turned(k)[i] < best[i]
               /\ \A j \in 1 .. i - 1 : Turned(k)[j] = best[j]
        BY <3>1 DEF ComesBefore
      <3>3. i \in 1 .. n
        BY <1>6, <3>2
      <3>4. CASE i = 1
        BY <1>5, <2>2, <3>2, <3>4
      <3>5. CASE i # 1
        <4>1. 1 \in 1 .. i - 1
          BY <1>1, <3>3, <3>5
        <4> QED
          BY <1>5, <2>2, <3>2, <4>1
      <3> QED
        BY <3>4, <3>5
    <2> QED
      BY <1>5, <2>1, <2>2
  <1> DEFINE r == CanonicalRotation(c)
  <1>8. r \in rotations /\ IsFirst(r)
    <2>1. c # <<>>
      BY <1>1
    <2>2. r = CHOOSE x \in rotations : IsFirst(x)
      BY <2>1 DEF CanonicalRotation, Turned
    <2> HIDE DEF rotations, r, IsFirst
    <2> QED
      BY <1>4, <1>7, <2>2
  <1> HIDE DEF r
  <1>9. PICK k \in 0 .. n - 1 : r = Turned(k)
    BY <1>8
  <1>10. r[1] = best[1]
    <2> SUFFICES ASSUME best[1] < r[1] PROVE FALSE
      BY <1>5, <1>9
    <2>1. 1 \in DOMAIN best \cap DOMAIN r /\ \A j \in 1 .. 1 - 1 : best[j] = r[j]
      <3>1. 1 \in DOMAIN best /\ 1 \in DOMAIN r
        <4>1. DOMAIN r = 1 .. n /\ 1 \in 1 .. n
          BY <1>5, <1>9
        <4>2. DOMAIN best = 1 .. n
          BY <1>4, <1>5
        <4> QED
          BY <4>1, <4>2
      <3>2. \A j \in 1 .. 1 - 1 : FALSE
        OBVIOUS
      <3> QED
        BY <3>1, <3>2
    <2>2. ComesBefore(best, r)
      BY <2>1 DEF ComesBefore
    <2> QED
      BY <1>4, <1>8, <2>2
  <1>11. \A i \in 1 .. n : r[1] <= r[i]
    <2> TAKE i \in 1 .. n
    <2>1. PICK j \in 1 .. n : r[i] = c[j]
      BY <1>3, <1>9
    <2>2. r[1] = c[m]
      BY <1>4, <1>10
    <2> QED
      BY <1>2, <2>1, <2>2
  <1> QED
    BY <1>3, <1>9, <1>11 DEF r

(* A search for a cycle through p.start among p.tasks, of at most p.cutoff *)
(* tasks.  A task is reached in m when a walk of m tasks leads to it.      *)
IsSearch(p) ==
    /\ IsTasks(p.tasks) /\ Cardinality(Ids(p.tasks)) = Len(p.tasks)
    /\ p.start \in Ids(p.tasks) /\ p.cutoff \in Nat
Reaches(p, m, id) ==
    \E w \in Seq(Ids(p.tasks)) :
        /\ Len(w) = m /\ w[1] = p.start /\ w[m] = id
        /\ \A k \in 1 .. m - 1 : <<w[k], w[k + 1]>> \in Edges(p.tasks)

(* The search's state: paths from the start to distinct tasks, each the     *)
(* shortest and no two of lengths further apart than one; a visited task is *)
(* queued, or all its successors are visited and none is the start, or it is *)
(* too far away.  The tasks in open are being visited.                     *)
IsPathFrom(p, visited, path) ==
    /\ path \in Seq(Ids(p.tasks)) /\ path # <<>> /\ path[1] = p.start
    /\ IsInjective(path)
    /\ \A k \in 1 .. Len(path) - 1 : <<path[k], path[k + 1]>> \in Edges(p.tasks)
    /\ \A k \in 1 .. Len(path) : path[k] \in visited
IsNearest(p, path) == \A m \in 1 .. Len(path) - 1 : ~Reaches(p, m, Last(path))
Done(p, visited, id) ==
    \A next \in Ids(p.tasks) : <<id, next>> \in Edges(p.tasks) =>
        next \in visited /\ next # p.start
Far(p, id) == \A m \in 1 .. p.cutoff : ~Reaches(p, m, id)
Queued(s, id) == \E i \in DOMAIN s.queue : Last(s.queue[i]) = id
SearchSound(p, s, open) ==
    /\ s = [queue |-> s.queue, visited |-> s.visited, found |-> s.found]
    /\ s.visited \subseteq Ids(p.tasks) /\ p.start \in s.visited
    /\ s.queue \in Seq(Seq(Ids(p.tasks)))
    /\ \A i \in DOMAIN s.queue : /\ IsPathFrom(p, s.visited, s.queue[i])
                                  /\ IsNearest(p, s.queue[i])
    /\ \A i, j \in DOMAIN s.queue : i <= j =>
         /\ Len(s.queue[i]) <= Len(s.queue[j])
         /\ Len(s.queue[j]) <= Len(s.queue[i]) + 1
    /\ \A id \in s.visited :
         \/ id \in open \/ Queued(s, id)
         \/ Done(p, s.visited, id) \/ Far(p, id)
Beyond(p, s, open, d) ==
    /\ \A id \in open : \A m \in 1 .. d - 1 : ~Reaches(p, m, id)
    /\ \A i \in DOMAIN s.queue : d <= Len(s.queue[i])

LEMMA ReachedFrom ==
    ASSUME NEW p, NEW m \in Nat, NEW id, Reaches(p, m + 1, id)
    PROVE  IF m = 0 THEN id = p.start
           ELSE \E from \in Ids(p.tasks) :
                  Reaches(p, m, from) /\ <<from, id>> \in Edges(p.tasks)
  <1>1. PICK w \in Seq(Ids(p.tasks)) :
          /\ Len(w) = m + 1 /\ w[1] = p.start /\ w[m + 1] = id
          /\ \A k \in 1 .. m : <<w[k], w[k + 1]>> \in Edges(p.tasks)
    BY DEF Reaches
  <1>2. CASE m = 0
    BY <1>1, <1>2
  <1>3. CASE m # 0
    <2> DEFINE v == SubSeq(w, 1, m)
    <2>1. /\ v \in Seq(Ids(p.tasks)) /\ Len(v) = m
          /\ \A k \in 1 .. m : v[k] = w[k]
      BY <1>1, <1>3
    <2> HIDE DEF v
    <2>2. 1 \in 1 .. m /\ m \in 1 .. m
      BY <1>3
    <2>3. v[1] = p.start /\ v[m] = w[m]
      BY <1>1, <2>1, <2>2
    <2>4. \A k \in 1 .. m - 1 : <<v[k], v[k + 1]>> \in Edges(p.tasks)
      <3> TAKE k \in 1 .. m - 1
      <3>1. k \in 1 .. m /\ k + 1 \in 1 .. m
        OBVIOUS
      <3> QED
        BY <1>1, <2>1, <3>1
    <2>5. Reaches(p, m, w[m])
      BY <2>1, <2>3, <2>4 DEF Reaches
    <2>6. w[m] \in Ids(p.tasks) /\ <<w[m], id>> \in Edges(p.tasks)
      BY <1>1, <2>2
    <2> QED
      BY <1>3, <2>5, <2>6
  <1> QED
    BY <1>2, <1>3

(* All that is near enough is visited ...                                 *)
LEMMA NearIsVisited ==
    ASSUME NEW p, IsSearch(p), NEW s, NEW open, SearchSound(p, s, open),
           NEW d \in Nat, Beyond(p, s, open, d)
    PROVE  \A m \in 1 .. d : m <= p.cutoff =>
             \A id : Reaches(p, m, id) => id \in s.visited
  <1> DEFINE Missed == {m \in 1 .. d : /\ m <= p.cutoff
                                       /\ \E id : Reaches(p, m, id) /\ id \notin s.visited}
  <1>1. SUFFICES ASSUME Missed # {} PROVE FALSE
    OBVIOUS
  <1>2. PICK m \in Missed : \A k \in Missed : m <= k
    <2>1. Missed \in SUBSET Nat
      OBVIOUS
    <2> HIDE DEF Missed
    <2> QED
      BY <1>1, <2>1, FirstOf
  <1>3. PICK id : Reaches(p, m, id) /\ id \notin s.visited
    OBVIOUS
  <1>4. m \in 1 .. d /\ m <= p.cutoff /\ p.cutoff \in Nat
    BY DEF IsSearch
  <1>5. m - 1 \in Nat /\ (m - 1) + 1 = m
    BY <1>4
  <1>6. m # 1
    <2>1. m = 1 => id = p.start
      BY <1>3, <1>5, ReachedFrom
    <2> QED
      BY <1>3, <2>1 DEF SearchSound
  <1>7. PICK from \in Ids(p.tasks) :
          Reaches(p, m - 1, from) /\ <<from, id>> \in Edges(p.tasks)
    <2>1. m - 1 # 0 /\ Reaches(p, (m - 1) + 1, id)
      BY <1>3, <1>5, <1>6
    <2> QED
      BY <1>5, <2>1, ReachedFrom
  <1>8. m - 1 \in 1 .. d - 1 /\ m - 1 <= p.cutoff /\ m - 1 \in 1 .. p.cutoff
    BY <1>4, <1>6
  <1>9. from \in s.visited
    <2>1. m - 1 \notin Missed
      BY <1>2, <1>5
    <2>2. m - 1 \in 1 .. d
      BY <1>8
    <2> QED
      BY <1>7, <1>8, <2>1, <2>2
  <1>10. from \notin open
    BY <1>7, <1>8 DEF Beyond
  <1>11. ~Queued(s, from)
    <2> SUFFICES ASSUME NEW i \in DOMAIN s.queue, Last(s.queue[i]) = from
                 PROVE  FALSE
      BY DEF Queued
    <2>1. s.queue[i] \in Seq(Ids(p.tasks)) /\ IsNearest(p, s.queue[i])
      BY DEF SearchSound, IsPathFrom
    <2>2. Len(s.queue[i]) \in Nat /\ d <= Len(s.queue[i])
      BY <2>1 DEF Beyond
    <2>3. m - 1 \in 1 .. Len(s.queue[i]) - 1
      BY <1>8, <2>2
    <2> QED
      BY <1>7, <2>1, <2>3 DEF IsNearest
  <1>12. ~Far(p, from)
    BY <1>7, <1>8 DEF Far
  <1>13. Done(p, s.visited, from)
    BY <1>9, <1>10, <1>11, <1>12 DEF SearchSound
  <1>14. id \in Ids(p.tasks)
    BY <1>7, GraphIsFinite DEF IsSearch
  <1> QED
    BY <1>3, <1>7, <1>13, <1>14 DEF Done

(* ... and nothing nearer closes a cycle.                                 *)
LEMMA NearIsOpen ==
    ASSUME NEW p, IsSearch(p), NEW s, NEW open, SearchSound(p, s, open),
           NEW d \in Nat, Beyond(p, s, open, d), NEW m \in 1 .. d - 1, m <= p.cutoff,
           NEW id, Reaches(p, m, id)
    PROVE  <<id, p.start>> \notin Edges(p.tasks)
  <1>1. m \in 1 .. d /\ m \in 1 .. p.cutoff
    BY DEF IsSearch
  <1>2. id \in s.visited
    BY <1>1, NearIsVisited
  <1>3. id \notin open /\ ~Far(p, id)
    BY <1>1 DEF Beyond, Far
  <1>4. ~Queued(s, id)
    <2> SUFFICES ASSUME NEW i \in DOMAIN s.queue, Last(s.queue[i]) = id
                 PROVE  FALSE
      BY DEF Queued
    <2>1. s.queue[i] \in Seq(Ids(p.tasks)) /\ IsNearest(p, s.queue[i])
      BY DEF SearchSound, IsPathFrom
    <2>2. Len(s.queue[i]) \in Nat /\ d <= Len(s.queue[i])
      BY <2>1 DEF Beyond
    <2>3. m \in 1 .. Len(s.queue[i]) - 1
      BY <2>2
    <2> QED
      BY <2>1, <2>3 DEF IsNearest
  <1>5. Done(p, s.visited, id)
    BY <1>2, <1>3, <1>4 DEF SearchSound
  <1> QED
    BY <1>5 DEF Done, IsSearch

(* A cycle from the start is a walk to where it closes.                   *)
LEMMA CycleReaches ==
    ASSUME NEW p, NEW c, IsCycle(Ids(p.tasks), Edges(p.tasks), c), c[1] = p.start
    PROVE  Reaches(p, Len(c), Last(c)) /\ <<Last(c), p.start>> \in Edges(p.tasks)
  <1>1. /\ c \in Seq(Ids(p.tasks)) /\ Len(c) \in Nat \ {0}
        /\ \A k \in 1 .. Len(c) : <<c[k], c[After(c, k)]>> \in Edges(p.tasks)
    BY DEF IsCycle
  <1>2. \A k \in 1 .. Len(c) - 1 : <<c[k], c[k + 1]>> \in Edges(p.tasks)
    <2> TAKE k \in 1 .. Len(c) - 1
    <2>1. k \in 1 .. Len(c) /\ After(c, k) = k + 1
      BY <1>1 DEF After
    <2> QED
      BY <1>1, <2>1
  <1>3. Len(c) \in 1 .. Len(c) /\ After(c, Len(c)) = 1
    BY <1>1 DEF After
  <1> QED
    BY <1>1, <1>2, <1>3 DEF Reaches, Last

(* What is found is a cycle from the start, and none is shorter.          *)
IsShortest(p, found) ==
    /\ IsCycle(Ids(p.tasks), Edges(p.tasks), found)
    /\ found[1] = p.start /\ Len(found) <= p.cutoff
    /\ \A c : IsCycle(Ids(p.tasks), Edges(p.tasks), c) /\ c[1] = p.start =>
         Len(found) <= Len(c)

LEMMA FoundIsShortest ==
    ASSUME NEW p, IsSearch(p), NEW s, SearchSound(p, s, {}),
           s.queue # <<>>, Len(Head(s.queue)) <= p.cutoff,
           <<Last(Head(s.queue)), p.start>> \in Edges(p.tasks)
    PROVE  IsShortest(p, Head(s.queue))
  <1> DEFINE path == Head(s.queue)
             d == Len(path)
  <1>1. /\ s.queue \in Seq(Seq(Ids(p.tasks))) /\ Len(s.queue) \in Nat /\ Len(s.queue) # 0
        /\ path = s.queue[1] /\ 1 \in DOMAIN s.queue
    BY DEF SearchSound
  <1>2. IsPathFrom(p, s.visited, path)
    BY <1>1 DEF SearchSound
  <1>3. path \in Seq(Ids(p.tasks)) /\ d \in Nat \ {0}
    BY <1>2 DEF IsPathFrom
  <1>4. IsCycle(Ids(p.tasks), Edges(p.tasks), path)
    <2>1. ASSUME NEW k \in 1 .. d
          PROVE  <<path[k], path[After(path, k)]>> \in Edges(p.tasks)
      <3>1. CASE k = d
        BY <1>2, <3>1 DEF After, Last, IsPathFrom
      <3>2. CASE k # d
        <4>1. k \in 1 .. d - 1 /\ After(path, k) = k + 1
          BY <1>3, <3>2 DEF After
        <4> QED
          BY <1>2, <4>1 DEF IsPathFrom
      <3> QED
        BY <3>1, <3>2
    <2> QED
      BY <1>2, <1>3, <2>1 DEF IsCycle, IsPathFrom
  <1>5. Beyond(p, s, {}, d)
    <2>1. \A i \in DOMAIN s.queue : i \in Nat /\ 1 <= i
      BY <1>1
    <2>2. \A i \in DOMAIN s.queue : d <= Len(s.queue[i])
      BY <1>1, <2>1 DEF SearchSound
    <2> QED
      BY <2>2 DEF Beyond
  <1> HIDE DEF d, path
  <1>6. ASSUME NEW c, IsCycle(Ids(p.tasks), Edges(p.tasks), c), c[1] = p.start
        PROVE  d <= Len(c)
    <2> SUFFICES ASSUME ~(d <= Len(c)) PROVE FALSE
      OBVIOUS
    <2>1. Len(c) \in Nat \ {0}
      BY <1>6 DEF IsCycle
    <2>2. Len(c) \in 1 .. d - 1 /\ Len(c) <= p.cutoff
      BY <1>3, <2>1 DEF IsSearch, d, path
    <2>3. Reaches(p, Len(c), Last(c)) /\ <<Last(c), p.start>> \in Edges(p.tasks)
      BY <1>6, CycleReaches
    <2> QED
      BY <1>3, <1>5, <2>2, <2>3, NearIsOpen
  <1>7. path[1] = p.start /\ d <= p.cutoff
    BY <1>2 DEF IsPathFrom, d, path
  <1> QED
    BY <1>4, <1>6, <1>7 DEF IsShortest, d, path

LEMMA NothingIsLeft ==
    ASSUME NEW p, IsSearch(p), NEW s, SearchSound(p, s, {}), s.queue = <<>>,
           NEW c, IsCycle(Ids(p.tasks), Edges(p.tasks), c), c[1] = p.start
    PROVE  Len(c) > p.cutoff
  <1> SUFFICES ASSUME ~(Len(c) > p.cutoff) PROVE FALSE
    OBVIOUS
  <1> DEFINE d == p.cutoff + 1
  <1>1. Len(c) \in Nat \ {0} /\ p.cutoff \in Nat
    BY DEF IsCycle, IsSearch
  <1>2. d \in Nat /\ Len(c) \in 1 .. d - 1 /\ Len(c) <= p.cutoff
    BY <1>1
  <1>3. Beyond(p, s, {}, d)
    BY DEF Beyond
  <1>4. Reaches(p, Len(c), Last(c)) /\ <<Last(c), p.start>> \in Edges(p.tasks)
    BY CycleReaches
  <1> HIDE DEF d
  <1> QED
    BY <1>2, <1>3, <1>4, NearIsOpen

(* The queued paths are as long as the one that is extended, or one longer. *)
InReach(s, d) ==
    \A i \in DOMAIN s.queue : d <= Len(s.queue[i]) /\ Len(s.queue[i]) <= d + 1

(* While the successors of a path's end are visited: k tasks on.          *)
VisitAfter(p, path, rest, k, s) ==
    \/ s.found = path /\ <<Last(path), p.start>> \in Edges(p.tasks)
    \/ /\ s.found = <<>> /\ SearchSound(p, s, {Last(path)})
       /\ rest.visited \subseteq s.visited
       /\ InReach(s, Len(path))
       /\ \A i \in 1 .. k : <<Last(path), p.tasks[i].id>> \in Edges(p.tasks) =>
            p.tasks[i].id \in s.visited /\ p.tasks[i].id # p.start
       /\ Len(s.queue) + Cardinality(rest.visited)
            = Len(rest.queue) + Cardinality(s.visited)
VisitTask(p, path, s, task) ==
    IF <<Last(path), task.id>> \in Edges(p.tasks)
    THEN Visit(p.start, s, path, task.id) ELSE s

(* A path of its own for a task that was not visited.                     *)
IsQueuedNext(p, path, next, s, t) ==
    /\ SearchSound(p, t, {Last(path)})
    /\ t.found = s.found /\ t.visited = s.visited \cup {next}
    /\ Len(t.queue) = Len(s.queue) + 1
    /\ Cardinality(t.visited) = Cardinality(s.visited) + 1
    /\ InReach(t, Len(path))

LEMMA SearchFields ==
    ASSUME NEW q, NEW v, NEW f, NEW nextQ, NEW nextV
    PROVE  [[queue |-> q, visited |-> v, found |-> f]
              EXCEPT !.visited = nextV, !.queue = nextQ]
             = [queue |-> nextQ, visited |-> nextV, found |-> f]
  <1> DEFINE s == [queue |-> q, visited |-> v, found |-> f]
             u == [s EXCEPT !.visited = nextV]
  <1>1. u = [queue |-> q, visited |-> nextV, found |-> f]
    OBVIOUS
  <1>2. [u EXCEPT !.queue = nextQ] = [queue |-> nextQ, visited |-> nextV, found |-> f]
    <2> HIDE DEF u
    <2> QED
      BY <1>1
  <1> QED
    BY <1>2

LEMMA QueueNext ==
    ASSUME NEW p, IsSearch(p), NEW path, NEW s, SearchSound(p, s, {Last(path)}),
           IsPathFrom(p, s.visited, path), IsNearest(p, path), Len(path) <= p.cutoff,
           InReach(s, Len(path)),
           NEW next \in Ids(p.tasks), <<Last(path), next>> \in Edges(p.tasks),
           next \notin s.visited
    PROVE  IsQueuedNext(p, path, next, s,
             [s EXCEPT !.visited = @ \cup {next},
                       !.queue = Append(@, Append(path, next))])
  <1> DEFINE ids == Ids(p.tasks)
             d == Len(path)
             n == Len(s.queue)
             more == Append(path, next)
             queue == Append(s.queue, more)
             visited == s.visited \cup {next}
             t == [s EXCEPT !.visited = @ \cup {next},
                            !.queue = Append(@, Append(path, next))]
  <1>1. t = [queue |-> queue, visited |-> visited, found |-> s.found]
    <2>1. s = [queue |-> s.queue, visited |-> s.visited, found |-> s.found]
      BY DEF SearchSound
    <2>2. t = [s EXCEPT !.visited = visited, !.queue = queue]
      OBVIOUS
    <2> HIDE DEF queue, visited, t
    <2> DEFINE q == s.queue
               v == s.visited
               f == s.found
    <2>3. s = [queue |-> q, visited |-> v, found |-> f]
      BY <2>1
    <2> HIDE DEF q, v, f
    <2>4. t = [queue |-> queue, visited |-> visited, found |-> f]
      BY <2>2, <2>3, SearchFields
    <2> QED
      BY <2>4 DEF f
  <1>2. /\ path \in Seq(ids) /\ d \in Nat \ {0} /\ DOMAIN path = 1 .. d
        /\ s.queue \in Seq(Seq(ids)) /\ n \in Nat /\ DOMAIN s.queue = 1 .. n
    <2>1. path \in Seq(ids) /\ path # <<>>
      BY DEF IsPathFrom
    <2>2. s.queue \in Seq(Seq(ids))
      BY DEF SearchSound
    <2>3. n \in Nat /\ DOMAIN s.queue = 1 .. n
      BY <2>2, LenProperties
    <2>4. d \in Nat \ {0} /\ DOMAIN path = 1 .. d
      <3>1. d \in Nat /\ d # 0
        BY <2>1, EmptySeq
      <3> QED
        BY <2>1, <3>1, LenProperties
    <2> HIDE DEF ids, d, n
    <2> QED
      BY <2>1, <2>2, <2>3, <2>4
  <1>3. /\ more \in Seq(ids) /\ Len(more) = d + 1 /\ DOMAIN more = 1 .. d + 1
        /\ \A k \in 1 .. d : more[k] = path[k]
        /\ more[d + 1] = next
    BY <1>2
  <1>4. /\ queue \in Seq(Seq(ids)) /\ Len(queue) = n + 1 /\ DOMAIN queue = 1 .. n + 1
        /\ \A i \in 1 .. n : queue[i] = s.queue[i]
        /\ queue[n + 1] = more
    <2> HIDE DEF more
    <2> QED
      BY <1>2, <1>3
  <1>5. Last(more) = next
    BY <1>3 DEF Last
  <1> HIDE DEF t, queue, more
  <1>6. \A i \in 1 .. n + 1 : i \in 1 .. n \/ i = n + 1
    BY <1>2
  <1>7. IsPathFrom(p, visited, more)
    <2>1. more # <<>> /\ more[1] = p.start
      BY <1>2, <1>3 DEF IsPathFrom
    <2>2. IsInjective(more)
      <3>1. \A k \in 1 .. d : more[k] # next
        BY <1>3 DEF IsPathFrom
      <3> SUFFICES ASSUME NEW j \in 1 .. d + 1, NEW k \in 1 .. d + 1, more[j] = more[k]
                   PROVE  j = k
        BY <1>3 DEF IsInjective
      <3>2. CASE j \in 1 .. d /\ k \in 1 .. d
        BY <1>2, <1>3, <3>2 DEF IsPathFrom, IsInjective
      <3>3. CASE j = d + 1 \/ k = d + 1
        BY <1>2, <1>3, <3>1, <3>3
      <3> QED
        BY <1>2, <3>2, <3>3
    <2>3. \A k \in 1 .. d : <<more[k], more[k + 1]>> \in Edges(p.tasks)
      <3> TAKE k \in 1 .. d
      <3>1. CASE k = d
        <4>1. more[k] = path[d] /\ more[k + 1] = next
          BY <1>2, <1>3, <3>1
        <4> QED
          BY <4>1 DEF Last
      <3>2. CASE k # d
        <4>1. k \in 1 .. d - 1 /\ k + 1 \in 1 .. d
          BY <1>2, <3>2
        <4>2. <<path[k], path[k + 1]>> \in Edges(p.tasks)
          BY <4>1 DEF IsPathFrom
        <4> QED
          BY <1>3, <4>1, <4>2
      <3> QED
        BY <3>1, <3>2
    <2>4. \A k \in 1 .. d + 1 : more[k] \in visited
      <3> TAKE k \in 1 .. d + 1
      <3>1. CASE k = d + 1
        BY <1>3, <3>1
      <3>2. CASE k # d + 1
        <4>1. k \in 1 .. d
          BY <1>2, <3>2
        <4>2. path[k] \in s.visited
          BY <4>1 DEF IsPathFrom
        <4> QED
          BY <1>3, <4>1, <4>2
      <3> QED
        BY <3>1, <3>2
    <2> QED
      BY <1>2, <1>3, <2>1, <2>2, <2>3, <2>4 DEF IsPathFrom
  <1>8. IsNearest(p, more)
    <2>1. Beyond(p, s, {Last(path)}, d)
      BY DEF Beyond, IsNearest, InReach
    <2>2. \A m \in 1 .. d : m <= p.cutoff
      BY <1>2 DEF IsSearch
    <2>3. \A m \in 1 .. d : ~Reaches(p, m, next)
      BY <1>2, <2>1, <2>2, NearIsVisited
    <2> QED
      BY <1>2, <1>3, <1>5, <2>3 DEF IsNearest
  <1>9. ASSUME NEW i \in 1 .. n
        PROVE  /\ IsPathFrom(p, visited, queue[i]) /\ IsNearest(p, queue[i])
               /\ d <= Len(queue[i]) /\ Len(queue[i]) <= d + 1
    BY <1>2, <1>4 DEF SearchSound, IsPathFrom, InReach
  <1>10. \A i, j \in 1 .. n + 1 : i <= j => /\ Len(queue[i]) <= Len(queue[j])
                                            /\ Len(queue[j]) <= Len(queue[i]) + 1
    <2> SUFFICES ASSUME NEW i \in 1 .. n + 1, NEW j \in 1 .. n + 1, i <= j
                 PROVE  /\ Len(queue[i]) <= Len(queue[j])
                        /\ Len(queue[j]) <= Len(queue[i]) + 1
      OBVIOUS
    <2>1. CASE j \in 1 .. n
      <3>1. i \in 1 .. n
        BY <1>2, <2>1
      <3> QED
        BY <1>2, <1>4, <2>1, <3>1 DEF SearchSound
    <2>2. CASE j = n + 1 /\ i \in 1 .. n
      <3>1. Len(queue[i]) \in Nat
        BY <1>9, <2>2 DEF IsPathFrom
      <3>2. Len(queue[j]) = d + 1 /\ d \in Nat
        BY <1>2, <1>3, <1>4, <2>2
      <3>3. d <= Len(queue[i]) /\ Len(queue[i]) <= d + 1
        BY <1>9, <2>2
      <3> QED
        BY <3>1, <3>2, <3>3
    <2>3. CASE j = n + 1 /\ i = n + 1
      BY <1>2, <1>3, <1>4, <2>3
    <2> QED
      BY <1>6, <2>1, <2>2, <2>3
  <1>11. ASSUME NEW id \in visited
         PROVE  \/ id \in {Last(path)} \/ Queued(t, id)
                \/ Done(p, visited, id) \/ Far(p, id)
    <2>1. CASE id = next
      <3>1. n + 1 \in DOMAIN queue /\ Last(queue[n + 1]) = id
        BY <1>2, <1>4, <1>5, <2>1
      <3> QED
        BY <1>1, <3>1 DEF Queued
    <2>2. CASE id \in s.visited
      <3>1. Queued(s, id) => Queued(t, id)
        <4> SUFFICES ASSUME NEW i \in 1 .. n, Last(s.queue[i]) = id
                     PROVE  Queued(t, id)
          BY <1>2 DEF Queued
        <4>1. i \in DOMAIN queue /\ Last(queue[i]) = id
          BY <1>2, <1>4
        <4> QED
          BY <1>1, <4>1 DEF Queued
      <3>2. Done(p, s.visited, id) => Done(p, visited, id)
        BY DEF Done
      <3> QED
        BY <2>2, <3>1, <3>2 DEF SearchSound
    <2> QED
      BY <2>1, <2>2
  <1>12. visited \subseteq ids /\ p.start \in visited
    BY DEF SearchSound
  <1>13. \A i \in DOMAIN queue : IsPathFrom(p, visited, queue[i]) /\ IsNearest(p, queue[i])
    BY <1>4, <1>6, <1>7, <1>8, <1>9
  <1>14. SearchSound(p, t, {Last(path)})
    <2>1. t.queue = queue /\ t.visited = visited /\ t.found = s.found
      BY <1>1
    <2> HIDE DEF visited
    <2> QED
      BY <1>1, <1>4, <1>10, <1>11, <1>12, <1>13, <2>1 DEF SearchSound
  <1>15. Cardinality(visited) = Cardinality(s.visited) + 1
    <2>1. IsFiniteSet(s.visited)
      BY GraphIsFinite, FS_Subset DEF SearchSound, IsSearch
    <2> QED
      BY <2>1, FS_AddElement
  <1>16. \A i \in 1 .. n + 1 : d <= Len(queue[i]) /\ Len(queue[i]) <= d + 1
    BY <1>2, <1>3, <1>4, <1>6, <1>9
  <1>17. InReach(t, d)
    BY <1>1, <1>4, <1>16 DEF InReach
  <1> QED
    BY <1>1, <1>4, <1>14, <1>15, <1>17 DEF t, IsQueuedNext

LEMMA VisitKeeps ==
    ASSUME NEW p, IsSearch(p), NEW path, NEW rest, NEW k \in 1 .. Len(p.tasks),
           IsPathFrom(p, rest.visited, path), IsNearest(p, path),
           Len(path) <= p.cutoff, NEW s, VisitAfter(p, path, rest, k - 1, s),
           IsFiniteSet(rest.visited), Len(rest.queue) \in Nat
    PROVE  VisitAfter(p, path, rest, k, VisitTask(p, path, s, p.tasks[k]))
  <1> DEFINE next == p.tasks[k].id
             t == VisitTask(p, path, s, p.tasks[k])
  <1>1. CASE s.found # <<>>
    <2>1. s.found = path /\ <<Last(path), p.start>> \in Edges(p.tasks)
      BY <1>1 DEF VisitAfter
    <2>2. t = s
      BY <1>1 DEF VisitTask, Visit
    <2> QED
      BY <2>1, <2>2 DEF VisitAfter
  <1>2. CASE s.found = <<>>
    <2>1. /\ SearchSound(p, s, {Last(path)}) /\ rest.visited \subseteq s.visited
          /\ InReach(s, Len(path))
          /\ \A i \in 1 .. k - 1 : <<Last(path), p.tasks[i].id>> \in Edges(p.tasks) =>
               p.tasks[i].id \in s.visited /\ p.tasks[i].id # p.start
          /\ Len(s.queue) + Cardinality(rest.visited)
               = Len(rest.queue) + Cardinality(s.visited)
      <3>1. path # <<>>
        BY DEF IsPathFrom
      <3> QED
        BY <1>2, <3>1 DEF VisitAfter
    <2>2. DOMAIN p.tasks = 1 .. Len(p.tasks) /\ Len(p.tasks) \in Nat
      BY DEF IsSearch, IsTasks, IsList
    <2>3. next \in Ids(p.tasks) /\ k \in Nat
      BY <2>2 DEF Ids
    <2>4. \A i \in 1 .. k : i \in 1 .. k - 1 \/ i = k
      BY <2>2
    <2>5. IsPathFrom(p, s.visited, path)
      BY <2>1 DEF IsPathFrom
    <2>6. CASE <<Last(path), next>> \notin Edges(p.tasks)
      <3>1. t = s
        BY <2>6 DEF VisitTask
      <3>2. \A i \in 1 .. k : <<Last(path), p.tasks[i].id>> \in Edges(p.tasks) =>
               p.tasks[i].id \in s.visited /\ p.tasks[i].id # p.start
        BY <2>1, <2>4, <2>6
      <3> HIDE DEF t
      <3> QED
        BY <1>2, <2>1, <3>1, <3>2 DEF VisitAfter, t
    <2>7. CASE <<Last(path), next>> \in Edges(p.tasks) /\ next = p.start
      <3>1. t = [s EXCEPT !.found = path]
        BY <1>2, <2>7 DEF VisitTask, Visit
      <3>2. t.found = path
        BY <2>1, <3>1 DEF SearchSound
      <3> HIDE DEF t
      <3> QED
        BY <2>7, <3>2 DEF VisitAfter, t
    <2>8. CASE <<Last(path), next>> \in Edges(p.tasks) /\ next # p.start
               /\ next \in s.visited
      <3>1. t = s
        BY <1>2, <2>8 DEF VisitTask, Visit
      <3>2. \A i \in 1 .. k : <<Last(path), p.tasks[i].id>> \in Edges(p.tasks) =>
               p.tasks[i].id \in s.visited /\ p.tasks[i].id # p.start
        BY <2>1, <2>4, <2>8
      <3> HIDE DEF t
      <3> QED
        BY <1>2, <2>1, <3>1, <3>2 DEF VisitAfter, t
    <2>9. CASE <<Last(path), next>> \in Edges(p.tasks) /\ next # p.start
               /\ next \notin s.visited
      <3>1. t = [s EXCEPT !.visited = @ \cup {next},
                          !.queue = Append(@, Append(path, next))]
        BY <1>2, <2>9 DEF VisitTask, Visit
      <3> HIDE DEF t, next
      <3>2. /\ SearchSound(p, t, {Last(path)})
            /\ t.found = s.found /\ t.visited = s.visited \cup {next}
            /\ Len(t.queue) = Len(s.queue) + 1
            /\ Cardinality(t.visited) = Cardinality(s.visited) + 1
            /\ InReach(t, Len(path))
        <4>1. IsQueuedNext(p, path, next, s,
                [s EXCEPT !.visited = @ \cup {next},
                          !.queue = Append(@, Append(path, next))])
          BY <2>1, <2>3, <2>5, <2>9, QueueNext
        <4>2. IsQueuedNext(p, path, next, s, t)
          BY <3>1, <4>1
        <4> QED
          BY <4>2 DEF IsQueuedNext
      <3>3. \A i \in 1 .. k : <<Last(path), p.tasks[i].id>> \in Edges(p.tasks) =>
               p.tasks[i].id \in t.visited /\ p.tasks[i].id # p.start
        BY <2>1, <2>4, <2>9, <3>2 DEF next
      <3>4. Len(t.queue) + Cardinality(rest.visited)
               = Len(rest.queue) + Cardinality(t.visited)
        <4>1. /\ Len(s.queue) \in Nat /\ Cardinality(rest.visited) \in Nat
              /\ Cardinality(s.visited) \in Nat
          <5>1. IsFiniteSet(s.visited) /\ s.queue \in Seq(Seq(Ids(p.tasks)))
            BY <2>1, GraphIsFinite, FS_Subset DEF SearchSound, IsSearch
          <5> QED
            BY <5>1, FS_CardinalityType
        <4>2. /\ Len(t.queue) = Len(s.queue) + 1
              /\ Cardinality(t.visited) = Cardinality(s.visited) + 1
          BY <3>2
        <4>3. Len(s.queue) + Cardinality(rest.visited)
                = Len(rest.queue) + Cardinality(s.visited)
          BY <2>1
        <4> DEFINE a == Len(s.queue)
                   b == Cardinality(rest.visited)
                   e == Len(rest.queue)
                   f == Cardinality(s.visited)
                   g == Len(t.queue)
                   h == Cardinality(t.visited)
        <4>4. a \in Nat /\ b \in Nat /\ e \in Nat /\ f \in Nat
          BY <4>1
        <4>5. g = a + 1 /\ h = f + 1 /\ a + b = e + f
          BY <4>2, <4>3
        <4> HIDE DEF a, b, e, f, g, h
        <4>6. g + b = e + h
          BY <4>4, <4>5
        <4> QED
          BY <4>6 DEF b, e, g, h
      <3> QED
        BY <1>2, <2>1, <3>2, <3>3, <3>4 DEF VisitAfter, t
    <2> QED
      BY <2>6, <2>7, <2>8, <2>9
  <1> QED
    BY <1>1, <1>2

(* The search takes the first path from its queue.                        *)
IsPopped(p, s, path, rest) ==
    /\ SearchSound(p, rest, {Last(path)}) /\ InReach(rest, Len(path))
    /\ rest.visited = s.visited /\ rest.found = s.found
    /\ Len(rest.queue) \in Nat /\ Len(s.queue) = Len(rest.queue) + 1
    /\ IsPathFrom(p, rest.visited, path) /\ IsNearest(p, path)

LEMMA TailFacts ==
    ASSUME NEW S, NEW q \in Seq(S), q # <<>>, NEW n, n = Len(Tail(q))
    PROVE  /\ Tail(q) \in Seq(S) /\ n \in Nat /\ DOMAIN Tail(q) = 1 .. n
           /\ DOMAIN q = 1 .. n + 1 /\ Len(q) = n + 1
           /\ \A i \in 1 .. n : Tail(q)[i] = q[i + 1]
           /\ Head(q) = q[1]
  <1>1. Len(q) \in Nat \ {0} /\ DOMAIN q = 1 .. Len(q)
    BY EmptySeq, LenProperties
  <1>2. Tail(q) \in Seq(S) /\ Len(Tail(q)) = Len(q) - 1 /\ Head(q) = q[1]
    BY <1>1
  <1>3. n \in Nat /\ Len(q) = n + 1 /\ DOMAIN Tail(q) = 1 .. n
    BY <1>1, <1>2, LenProperties
  <1>4. \A i \in 1 .. n : Tail(q)[i] = q[i + 1]
    BY <1>1, <1>2, <1>3
  <1> QED
    BY <1>1, <1>2, <1>3, <1>4

LEMMA PopKeeps ==
    ASSUME NEW p, IsSearch(p), NEW s, SearchSound(p, s, {}), s.queue # <<>>
    PROVE  IsPopped(p, s, Head(s.queue), [s EXCEPT !.queue = Tail(@)])
  <1> DEFINE path == Head(s.queue)
             queue == Tail(s.queue)
             n == Len(queue)
             rest == [s EXCEPT !.queue = Tail(@)]
             ids == Ids(p.tasks)
  <1>1. rest = [queue |-> queue, visited |-> s.visited, found |-> s.found]
    <2>1. s = [queue |-> s.queue, visited |-> s.visited, found |-> s.found]
      BY DEF SearchSound
    <2> DEFINE q == s.queue
               v == s.visited
               f == s.found
    <2>2. rest = [s EXCEPT !.queue = queue]
      OBVIOUS
    <2>3. s = [queue |-> q, visited |-> v, found |-> f]
      BY <2>1
    <2> HIDE DEF q, v, f, queue, rest
    <2>4. rest = [queue |-> queue, visited |-> v, found |-> f]
      BY <2>2, <2>3
    <2> QED
      BY <2>4 DEF v, f
  <1>2. s.queue \in Seq(Seq(ids)) /\ Len(s.queue) \in Nat \ {0}
    <2>1. s.queue \in Seq(Seq(ids))
      BY DEF SearchSound
    <2> QED
      BY <2>1, EmptySeq
  <1>3. /\ queue \in Seq(Seq(ids)) /\ n \in Nat /\ DOMAIN queue = 1 .. n
        /\ DOMAIN s.queue = 1 .. n + 1 /\ Len(s.queue) = n + 1
        /\ \A i \in 1 .. n : queue[i] = s.queue[i + 1]
        /\ path = s.queue[1]
    <2> DEFINE S == Seq(ids)
               q == s.queue
               m == Len(Tail(q))
    <2>1. q \in Seq(S) /\ q # <<>>
      BY <1>2
    <2> HIDE DEF S, q
    <2>2. m = Len(Tail(q))
      OBVIOUS
    <2> HIDE DEF m
    <2>3. /\ Tail(q) \in Seq(S) /\ m \in Nat /\ DOMAIN Tail(q) = 1 .. m
          /\ DOMAIN q = 1 .. m + 1 /\ Len(q) = m + 1
          /\ \A i \in 1 .. m : Tail(q)[i] = q[i + 1]
          /\ Head(q) = q[1]
      BY <2>1, <2>2, TailFacts
    <2> QED
      BY <2>3 DEF S, q, m
  <1> HIDE DEF queue, rest, path, n, ids
  <1>4. \A i \in 1 .. n : i + 1 \in 1 .. n + 1
    BY <1>3
  <1>5. 1 \in 1 .. n + 1
    BY <1>3
  <1>6. ASSUME NEW i \in 1 .. n + 1
        PROVE  IsPathFrom(p, s.visited, s.queue[i]) /\ IsNearest(p, s.queue[i])
    BY <1>3 DEF SearchSound
  <1>7. ASSUME NEW i \in 1 .. n, NEW j \in 1 .. n, i <= j
        PROVE  /\ Len(queue[i]) <= Len(queue[j])
               /\ Len(queue[j]) <= Len(queue[i]) + 1
    <2>1. i + 1 \in 1 .. n + 1 /\ j + 1 \in 1 .. n + 1 /\ i + 1 <= j + 1
      BY <1>3, <1>7
    <2>2. /\ Len(s.queue[i + 1]) <= Len(s.queue[j + 1])
          /\ Len(s.queue[j + 1]) <= Len(s.queue[i + 1]) + 1
      BY <1>3, <2>1 DEF SearchSound
    <2> QED
      BY <1>3, <2>2
  <1>8. ASSUME NEW i \in 1 .. n
        PROVE  Len(path) <= Len(queue[i]) /\ Len(queue[i]) <= Len(path) + 1
    <2>1. 1 <= i + 1 /\ i + 1 \in 1 .. n + 1
      BY <1>3
    <2>2. /\ Len(s.queue[1]) <= Len(s.queue[i + 1])
          /\ Len(s.queue[i + 1]) <= Len(s.queue[1]) + 1
      BY <1>3, <1>5, <2>1 DEF SearchSound
    <2> QED
      BY <1>3, <2>2
  <1>9. ASSUME NEW id \in s.visited
        PROVE  \/ id \in {Last(path)} \/ Queued(rest, id)
               \/ Done(p, s.visited, id) \/ Far(p, id)
    <2>1. Queued(s, id) => id = Last(path) \/ Queued(rest, id)
      <3> SUFFICES ASSUME NEW i \in 1 .. n + 1, Last(s.queue[i]) = id
                   PROVE  id = Last(path) \/ Queued(rest, id)
        BY <1>3 DEF Queued
      <3>1. CASE i = 1
        BY <1>3, <3>1
      <3>2. CASE i # 1
        <4>1. i - 1 \in 1 .. n /\ (i - 1) + 1 = i
          BY <1>3, <3>2
        <4>2. queue[i - 1] = s.queue[i]
          BY <1>3, <4>1
        <4> QED
          BY <1>1, <1>3, <4>1, <4>2 DEF Queued
      <3> QED
        BY <3>1, <3>2
    <2> QED
      BY <2>1 DEF SearchSound
  <1>10. rest.queue = queue /\ rest.visited = s.visited /\ rest.found = s.found
    BY <1>1
  <1>11. ASSUME NEW i \in DOMAIN queue
         PROVE  IsPathFrom(p, s.visited, queue[i]) /\ IsNearest(p, queue[i])
    BY <1>3, <1>4, <1>6
  <1>12. SearchSound(p, rest, {Last(path)})
    <2>1. s.visited \subseteq Ids(p.tasks) /\ p.start \in s.visited
      BY DEF SearchSound
    <2>2. queue \in Seq(Seq(Ids(p.tasks)))
      BY <1>3 DEF ids
    <2>3. \A i, j \in DOMAIN queue : i <= j =>
            /\ Len(queue[i]) <= Len(queue[j])
            /\ Len(queue[j]) <= Len(queue[i]) + 1
      BY <1>3, <1>7
    <2> QED
      BY <1>1, <1>9, <1>10, <1>11, <2>1, <2>2, <2>3 DEF SearchSound
  <1>13. InReach(rest, Len(path))
    BY <1>3, <1>8, <1>10 DEF InReach
  <1>14. IsPathFrom(p, s.visited, path) /\ IsNearest(p, path)
    BY <1>3, <1>5, <1>6
  <1>15. Len(rest.queue) \in Nat /\ Len(s.queue) = Len(rest.queue) + 1
    BY <1>3, <1>10 DEF n
  <1>16. IsPopped(p, s, path, rest)
    BY <1>10, <1>12, <1>13, <1>14, <1>15 DEF IsPopped
  <1> QED
    BY <1>16 DEF path, rest

(* It visits the successors of the path's end, and all of them.           *)
VisitTurns == INSTANCE FoldFacts
    WITH Op <- LAMBDA q, s, task : VisitTask(q.outer, q.path, s, task),
         Value <- LAMBDA q, k : q.outer.tasks[k],
         Pick <- LAMBDA s : Max(s),
         Inv <- LAMBDA q, k, s : VisitAfter(q.outer, q.path, q.rest, k, s)

VisitAll(p, path, rest) ==
    FoldLeft(LAMBDA r, task : IF <<Last(path), task.id>> \in Edges(p.tasks)
                              THEN Visit(p.start, r, path, task.id) ELSE r,
             rest, p.tasks)

LEMMA VisitEnds ==
    ASSUME NEW p, IsSearch(p), NEW path, NEW rest, NEW n, n = Len(p.tasks),
           SearchSound(p, rest, {Last(path)}), InReach(rest, Len(path)),
           rest.found = <<>>, Len(rest.queue) \in Nat,
           IsPathFrom(p, rest.visited, path), IsNearest(p, path),
           Len(path) <= p.cutoff
    PROVE  VisitAfter(p, path, rest, n, VisitAll(p, path, rest))
  <1> DEFINE q == [outer |-> p, path |-> path, rest |-> rest]
  <1>1. DOMAIN p.tasks = 1 .. n /\ n \in Nat
    BY DEF IsSearch, IsTasks, IsList
  <1>2. VisitAll(p, path, rest) = VisitTurns!Fold(q, rest, 1 .. n)
    BY <1>1 DEF VisitAll, FoldLeft, MapThenFoldSet, VisitTurns!Fold, VisitTurns!MapThenFoldSet,
                VisitTask
  <1>3. VisitTurns!Picks(1 .. n) /\ VisitTurns!LastPicked(n)
    BY <1>1, LastOfPositions DEF VisitTurns!Picks, VisitTurns!LastPicked
  <1>4. q.outer = p /\ q.path = path /\ q.rest = rest
    OBVIOUS
  <1> HIDE DEF q
  <1>5. VisitAfter(p, path, rest, 0, rest)
    <2>1. \A i \in 1 .. 0 : FALSE
      OBVIOUS
    <2> QED
      BY <2>1 DEF VisitAfter
  <1>6. IsFiniteSet(rest.visited)
    BY GraphIsFinite, FS_Subset DEF SearchSound, IsSearch
  <1>7. ASSUME NEW k \in 1 .. n, NEW s, VisitAfter(p, path, rest, k - 1, s)
        PROVE  VisitAfter(p, path, rest, k, VisitTask(p, path, s, p.tasks[k]))
    BY <1>6, <1>7, VisitKeeps
  <1>8. VisitAfter(p, path, rest, n, VisitTurns!Fold(q, rest, 1 .. n))
    BY <1>1, <1>3, <1>4, <1>5, <1>7, VisitTurns!ListKeeps
  <1> QED
    BY <1>2, <1>8

(* After k turns: the cycle is found, or the queue is empty, or k tasks     *)
(* have been taken from it.                                               *)
SearchAfter(p, k, s) ==
    \/ s.found # <<>> /\ IsShortest(p, s.found)
    \/ /\ s.found = <<>> /\ SearchSound(p, s, {})
       /\ s.queue = <<>> \/ Len(s.queue) + k = Cardinality(s.visited)
SearchTurn(p, s) == SearchStep(p.tasks, Edges(p.tasks), p.start, p.cutoff, s)

LEMMA SearchKeeps ==
    ASSUME NEW p, IsSearch(p), NEW k \in Nat, NEW s, SearchAfter(p, k, s)
    PROVE  SearchAfter(p, k + 1, SearchTurn(p, s))
  <1>1. CASE s.found # <<>>
    BY <1>1 DEF SearchAfter, SearchTurn, SearchStep
  <1>2. CASE s.found = <<>> /\ s.queue = <<>>
    BY <1>2 DEF SearchAfter, SearchTurn, SearchStep
  <1>3. CASE s.found = <<>> /\ s.queue # <<>>
    <2> DEFINE path == Head(s.queue)
               rest == [s EXCEPT !.queue = Tail(@)]
               n == Len(p.tasks)
               t == VisitAll(p, path, rest)
    <2>1. SearchSound(p, s, {}) /\ Len(s.queue) + k = Cardinality(s.visited)
      BY <1>3 DEF SearchAfter
    <2>2. IsPopped(p, s, path, rest)
      BY <1>3, <2>1, PopKeeps
    <2>3. SearchTurn(p, s) = IF Len(path) > p.cutoff THEN rest ELSE t
      BY <1>3 DEF SearchTurn, SearchStep, VisitAll
    <2>4. n = Len(p.tasks)
      OBVIOUS
    <2>5. path = Head(s.queue)
      OBVIOUS
    <2>6. Len(path) <= p.cutoff => VisitAfter(p, path, rest, n, t)
      <3> HIDE DEF path, rest, n
      <3>1. /\ SearchSound(p, rest, {Last(path)}) /\ InReach(rest, Len(path))
            /\ rest.found = <<>> /\ Len(rest.queue) \in Nat
            /\ IsPathFrom(p, rest.visited, path) /\ IsNearest(p, path)
        BY <1>3, <2>2 DEF IsPopped
      <3> QED
        BY <2>4, <3>1, VisitEnds
    <2> HIDE DEF path, rest, n, t
    <2>7. /\ SearchSound(p, rest, {Last(path)}) /\ InReach(rest, Len(path))
          /\ rest.found = <<>> /\ Len(rest.queue) \in Nat
          /\ Len(s.queue) = Len(rest.queue) + 1 /\ rest.visited = s.visited
          /\ IsPathFrom(p, rest.visited, path) /\ IsNearest(p, path)
      BY <1>3, <2>2 DEF IsPopped
    <2>8. path # <<>> /\ Len(path) \in Nat /\ p.cutoff \in Nat
      <3>1. path # <<>> /\ path \in Seq(Ids(p.tasks))
        BY <2>7 DEF IsPathFrom
      <3> QED
        BY <3>1, EmptySeq DEF IsSearch
    <2>9. CASE Len(path) > p.cutoff
      <3>1. Far(p, Last(path))
        <4>1. \A m \in 1 .. p.cutoff : m \in 1 .. Len(path) - 1
          BY <2>8, <2>9
        <4> QED
          BY <2>7, <4>1 DEF Far, IsNearest
      <3>2. SearchSound(p, rest, {})
        BY <2>7, <3>1 DEF SearchSound
      <3>3. Len(rest.queue) + (k + 1) = Cardinality(rest.visited)
        <4> DEFINE a == Len(rest.queue)
                   b == Cardinality(rest.visited)
        <4>1. a \in Nat /\ (a + 1) + k = b
          BY <2>1, <2>7
        <4> HIDE DEF a, b
        <4>2. a + (k + 1) = b
          BY <4>1
        <4> QED
          BY <4>2 DEF a, b
      <3> QED
        BY <2>3, <2>7, <2>9, <3>2, <3>3 DEF SearchAfter
    <2>10. CASE ~(Len(path) > p.cutoff)
      <3>1. SearchTurn(p, s) = t /\ Len(path) <= p.cutoff
        BY <2>3, <2>8, <2>10
      <3>2. VisitAfter(p, path, rest, n, t)
        BY <2>6, <3>1
      <3>3. CASE t.found = path /\ <<Last(path), p.start>> \in Edges(p.tasks)
        <4>1. IsShortest(p, path)
          BY <1>3, <2>1, <2>5, <3>1, <3>3, FoundIsShortest
        <4> QED
          BY <2>8, <3>1, <3>3, <4>1 DEF SearchAfter
      <3>4. CASE ~(t.found = path /\ <<Last(path), p.start>> \in Edges(p.tasks))
        <4>1. /\ t.found = <<>> /\ SearchSound(p, t, {Last(path)})
              /\ \A i \in 1 .. n : <<Last(path), p.tasks[i].id>> \in Edges(p.tasks) =>
                   p.tasks[i].id \in t.visited /\ p.tasks[i].id # p.start
              /\ Len(t.queue) + Cardinality(rest.visited)
                   = Len(rest.queue) + Cardinality(t.visited)
          BY <3>2, <3>4 DEF VisitAfter
        <4>2. Done(p, t.visited, Last(path))
          <5>1. DOMAIN p.tasks = 1 .. n
            BY <2>4 DEF IsSearch, IsTasks, IsList
          <5> QED
            BY <4>1, <5>1 DEF Done, Ids
        <4>3. SearchSound(p, t, {})
          BY <4>1, <4>2 DEF SearchSound
        <4>4. Len(t.queue) + (k + 1) = Cardinality(t.visited)
          <5>1. IsFiniteSet(t.visited) /\ IsFiniteSet(rest.visited)
                /\ t.queue \in Seq(Seq(Ids(p.tasks)))
            BY <2>7, <4>1, GraphIsFinite, FS_Subset DEF SearchSound, IsSearch
          <5> DEFINE a == Len(t.queue)
                     b == Cardinality(rest.visited)
                     c == Len(rest.queue)
                     e == Cardinality(t.visited)
          <5>2. a \in Nat /\ b \in Nat /\ c \in Nat /\ e \in Nat
            BY <2>7, <5>1, FS_CardinalityType, LenProperties
          <5>3. a + b = c + e /\ (c + 1) + k = b
            BY <2>1, <2>7, <4>1
          <5> HIDE DEF a, b, c, e
          <5>4. a + (k + 1) = e
            BY <5>2, <5>3
          <5> QED
            BY <5>4 DEF a, e
        <4> QED
          BY <3>1, <4>1, <4>3, <4>4 DEF SearchAfter
      <3> QED
        BY <3>3, <3>4
    <2> QED
      BY <2>9, <2>10
  <1> QED
    BY <1>1, <1>2, <1>3

SearchTurns == INSTANCE FoldFacts
    WITH Op <- LAMBDA p, s, k : SearchTurn(p, s), Value <- LAMBDA p, k : k,
         Pick <- LAMBDA s : Max(s), Inv <- LAMBDA p, k, s : SearchAfter(p, k, s)

(* The search finds a shortest cycle through its start among those of at    *)
(* most cutoff tasks, or there is none.                                   *)
THEOREM SearchIsRight ==
    ASSUME NEW p, IsSearch(p), NEW found,
           found = ShortestCycleThrough(p.tasks, Edges(p.tasks), p.start, p.cutoff)
    PROVE  IF found = <<>>
           THEN \A c : IsCycle(Ids(p.tasks), Edges(p.tasks), c) /\ c[1] = p.start =>
                  Len(c) > p.cutoff
           ELSE IsShortest(p, found)
  <1> DEFINE n == Len(p.tasks)
             start == [queue |-> <<<<p.start>>>>, visited |-> {p.start}, found |-> <<>>]
             s == SearchTurns!Fold(p, start, 1 .. n)
  <1>1. DOMAIN p.tasks = 1 .. n /\ n \in Nat /\ Cardinality(Ids(p.tasks)) = n
    BY DEF IsSearch, IsTasks, IsList
  <1>2. found = s.found
    BY <1>1 DEF ShortestCycleThrough, FoldLeftDomain, FoldLeft, MapThenFoldSet,
                SearchTurns!Fold, SearchTurns!MapThenFoldSet, SearchTurn
  <1>3. SearchAfter(p, 0, start)
    <2> DEFINE queue == <<<<p.start>>>>
               path == <<p.start>>
    <2>1. p.start \in Ids(p.tasks)
      BY DEF IsSearch
    <2>2. path \in Seq(Ids(p.tasks)) /\ Len(path) = 1 /\ path[1] = p.start /\ path # <<>>
          /\ DOMAIN path = 1 .. 1
      BY <2>1
    <2>3. queue \in Seq(Seq(Ids(p.tasks))) /\ Len(queue) = 1 /\ DOMAIN queue = 1 .. 1
          /\ queue[1] = path
      <3> HIDE DEF path
      <3>1. <<path>> \in Seq(Seq(Ids(p.tasks))) /\ Len(<<path>>) = 1
            /\ DOMAIN <<path>> = 1 .. 1 /\ <<path>>[1] = path
        BY <2>2
      <3> QED
        BY <3>1 DEF path
    <2>4. start = [queue |-> queue, visited |-> {p.start}, found |-> <<>>]
      OBVIOUS
    <2>5. Last(path) = p.start
      BY <2>2 DEF Last
    <2> HIDE DEF path, queue, start
    <2>6. start.queue = queue /\ start.visited = {p.start} /\ start.found = <<>>
      BY <2>4
    <2>7. \A i \in 1 .. 1 : i = 1
      OBVIOUS
    <2>8. \A k \in 1 .. 1 - 1 : FALSE
      OBVIOUS
    <2>9. IsPathFrom(p, {p.start}, path) /\ IsNearest(p, path)
      BY <2>2, <2>7, <2>8 DEF IsPathFrom, IsNearest, IsInjective
    <2>10. Queued(start, p.start)
      BY <2>3, <2>5, <2>6 DEF Queued
    <2>11. SearchSound(p, start, {})
      BY <2>1, <2>2, <2>3, <2>4, <2>6, <2>7, <2>9, <2>10 DEF SearchSound
    <2>12. Cardinality({p.start}) = 1
      BY FS_Singleton
    <2>13. Len(start.queue) + 0 = Cardinality(start.visited)
      <3>1. Len(start.queue) = 1 /\ Cardinality(start.visited) = 1
        BY <2>3, <2>6, <2>12, Zenon
      <3> QED
        BY <3>1
    <2> QED
      BY <2>6, <2>11, <2>13 DEF SearchAfter
  <1> HIDE DEF start, n
  <1>4. SearchTurns!Picks(1 .. n) /\ SearchTurns!LastPicked(n)
    BY <1>1, LastOfPositions DEF SearchTurns!Picks, SearchTurns!LastPicked
  <1>5. ASSUME NEW k \in 1 .. n, NEW t, SearchAfter(p, k - 1, t)
        PROVE  SearchAfter(p, k, SearchTurn(p, t))
    <2>1. k - 1 \in Nat /\ (k - 1) + 1 = k
      BY <1>1
    <2> QED
      BY <1>5, <2>1, SearchKeeps
  <1>6. SearchAfter(p, n, s)
    BY <1>1, <1>3, <1>4, <1>5, SearchTurns!ListKeeps
  <1> HIDE DEF s
  <1>7. CASE found # <<>>
    BY <1>2, <1>6, <1>7 DEF SearchAfter
  <1>8. CASE found = <<>>
    <2>1. SearchSound(p, s, {})
          /\ (s.queue = <<>> \/ Len(s.queue) + n = Cardinality(s.visited))
      BY <1>2, <1>6, <1>8 DEF SearchAfter
    <2>2. s.queue = <<>>
      <3>1. IsFiniteSet(Ids(p.tasks)) /\ s.visited \subseteq Ids(p.tasks)
            /\ s.queue \in Seq(Seq(Ids(p.tasks)))
        BY <2>1, GraphIsFinite DEF SearchSound, IsSearch
      <3>2. /\ Cardinality(s.visited) \in Nat /\ Cardinality(s.visited) <= n
            /\ Len(s.queue) \in Nat
        BY <1>1, <3>1, FS_Subset, FS_CardinalityType, LenProperties
      <3>3. s.queue # <<>> => Len(s.queue) # 0
        BY <3>1, EmptySeq
      <3> QED
        BY <1>1, <2>1, <3>2, <3>3
    <2> QED
      BY <1>8, <2>1, <2>2, NothingIsLeft
  <1> QED
    BY <1>7, <1>8

(* A finite set of natural numbers has a last one.                        *)
LEMMA LastOfFinite ==
    ASSUME NEW S \in SUBSET Nat, IsFiniteSet(S)
    PROVE  \A s \in SUBSET S : s # {} => Max(s) \in s
  <1> DEFINE HasLast(s) == \E x \in s : \A y \in s : x >= y
             T == {n \in Nat : \E s \in SUBSET S : Cardinality(s) = n /\ s # {} /\ ~HasLast(s)}
  <1>1. ASSUME NEW s \in SUBSET S, s # {}, HasLast(s)
        PROVE  Max(s) \in s
    BY <1>1 DEF Max
  <1>2. ASSUME NEW s \in SUBSET S
        PROVE  IsFiniteSet(s) /\ Cardinality(s) \in Nat
    BY FS_Subset, FS_CardinalityType
  <1>3. T = {}
    <2> SUFFICES ASSUME T # {} PROVE FALSE
      OBVIOUS
    <2>1. PICK n \in T : \A m \in T : n <= m
      <3>1. T \in SUBSET Nat
        OBVIOUS
      <3> HIDE DEF T
      <3> QED
        BY <3>1, FirstOf
    <2>2. PICK s \in SUBSET S : Cardinality(s) = n /\ s # {} /\ ~HasLast(s)
      BY <2>1
    <2>3. PICK x \in s : TRUE
      BY <2>2
    <2> DEFINE r == s \ {x}
    <2>4. r \in SUBSET S /\ Cardinality(r) = n - 1 /\ n \in Nat /\ Cardinality(r) \in Nat
      BY <1>2, <2>2, <2>3, FS_RemoveElement
    <2>5. s = r \cup {x} /\ x \in Nat
      BY <2>3
    <2>6. CASE r = {}
      <3>1. \A y \in s : x >= y
        BY <2>5, <2>6
      <3> QED
        BY <2>2, <3>1
    <2>7. CASE r # {}
      <3>1. Cardinality(r) \notin T
        <4> HIDE DEF T, r
        <4> QED
          BY <2>1, <2>4
      <3>2. HasLast(r)
        <4> HIDE DEF HasLast
        <4> QED
          BY <2>4, <2>7, <3>1
      <3>3. PICK z \in r : \A y \in r : z >= y
        BY <3>2
      <3>4. z \in Nat /\ \A y \in r : y \in Nat
        BY <2>4
      <3> HIDE DEF r
      <3>5. CASE z >= x
        <4>1. z \in s /\ \A y \in s : z >= y
          BY <2>5, <3>3, <3>5
        <4> QED
          BY <2>2, <4>1
      <3>6. CASE ~(z >= x)
        <4>1. \A y \in s : x >= y
          BY <2>5, <3>3, <3>4, <3>6
        <4> QED
          BY <2>2, <2>3, <4>1
      <3> QED
        BY <3>5, <3>6
    <2> QED
      BY <2>6, <2>7
  <1>4. ASSUME NEW s \in SUBSET S, s # {}
        PROVE  HasLast(s)
    <2> HIDE DEF HasLast
    <2>1. Cardinality(s) \notin T
      <3> HIDE DEF T
      <3> QED
        BY <1>3
    <2> QED
      BY <1>2, <1>4, <2>1
  <1> HIDE DEF HasLast
  <1> QED
    BY <1>1, <1>4

(* What is best once the searches from the tasks in s are done.           *)
BestAfter(tasks, s, best) ==
    /\ best # <<>> => IsCycle(Ids(tasks), Edges(tasks), best)
    /\ \A c : IsCycle(Ids(tasks), Edges(tasks), c) /\ c[1] \in s =>
         best # <<>> /\ Len(best) <= Len(c)

LEMMA SearchesKeep ==
    ASSUME NEW tasks, IsProject(tasks), NEW s \in SUBSET Ids(tasks), NEW start \in s,
           NEW best, BestAfter(tasks, s \ {start}, best)
    PROVE  BestAfter(tasks, s, BestFrom(tasks, Edges(tasks), start, best))
  <1> DEFINE ids == Ids(tasks)
             edges == Edges(tasks)
             cutoff == IF best = <<>> THEN Len(tasks) ELSE Len(best)
             cycle == ShortestCycleThrough(tasks, edges, start, cutoff)
             p == [tasks |-> tasks, start |-> start, cutoff |-> cutoff]
             next == BestFrom(tasks, edges, start, best)
  <1>1. IsTasks(tasks) /\ Cardinality(ids) = Len(tasks) /\ Len(tasks) \in Nat
        /\ IsFiniteSet(ids)
    BY DistinctTasks, GraphIsFinite DEF IsProject, IsTasks, IsList
  <1>2. best # <<>> => IsCycle(ids, edges, best) /\ Len(best) \in Nat
    <2>1. best # <<>> => IsCycle(ids, edges, best)
      BY DEF BestAfter
    <2>2. IsCycle(ids, edges, best) => best \in Seq(ids)
      BY DEF IsCycle
    <2> QED
      BY <2>1, <2>2, LenProperties
  <1>3. cutoff \in Nat
    BY <1>1, <1>2
  <1>4. p.tasks = tasks /\ p.start = start /\ p.cutoff = cutoff
    OBVIOUS
  <1> HIDE DEF p
  <1>5. IsSearch(p)
    BY <1>1, <1>3, <1>4 DEF IsSearch
  <1>6. cycle = ShortestCycleThrough(p.tasks, Edges(p.tasks), p.start, p.cutoff)
    BY <1>4
  <1>7. next = IF Better(cycle, best) THEN cycle ELSE best
    BY DEF BestFrom
  <1> HIDE DEF cycle, next
  <1>8. IF cycle = <<>>
        THEN \A c : IsCycle(ids, edges, c) /\ c[1] = start => Len(c) > cutoff
        ELSE IsShortest(p, cycle)
    BY <1>4, <1>5, <1>6, SearchIsRight
  <1>9. ASSUME NEW c, IsCycle(ids, edges, c)
        PROVE  Len(c) \in Nat /\ Len(c) <= Len(tasks)
    <2>1. ids \in SUBSET ids /\ c \in Cycles(ids, edges)
      BY <1>1, <1>9, CyclesAre
    <2>2. Len(c) \in 1 .. Cardinality(ids)
      BY <1>1, <2>1, CyclesAre
    <2> QED
      BY <1>1, <2>2
  <1>10. ASSUME NEW c, IsCycle(ids, edges, c), c[1] \in s \ {start}
         PROVE  best # <<>> /\ Len(best) <= Len(c)
    BY <1>10 DEF BestAfter
  <1> SUFFICES BestAfter(tasks, s, next)
    BY DEF next
  <1>11. CASE cycle = <<>>
    <2>1. next = best
      BY <1>7, <1>11 DEF Better
    <2>2. ASSUME NEW c, IsCycle(ids, edges, c), c[1] = start
          PROVE  best # <<>> /\ Len(best) <= Len(c)
      <3>1. Len(c) > cutoff
        BY <1>8, <1>11, <2>2
      <3>2. Len(c) \in Nat /\ Len(c) <= Len(tasks)
        BY <1>9, <2>2
      <3> QED
        BY <1>1, <1>2, <3>1, <3>2
    <2>3. ASSUME NEW c, IsCycle(ids, edges, c), c[1] \in s
          PROVE  best # <<>> /\ Len(best) <= Len(c)
      BY <1>10, <2>2, <2>3
    <2> QED
      BY <1>2, <2>1, <2>3 DEF BestAfter
  <1>12. CASE cycle # <<>>
    <2>1. IsShortest(p, cycle)
      BY <1>8, <1>12
    <2>2. IsCycle(ids, edges, cycle) /\ Len(cycle) \in Nat
      BY <1>4, <1>9, <2>1 DEF IsShortest
    <2>3. /\ next # <<>> /\ IsCycle(ids, edges, next) /\ Len(next) \in Nat
          /\ Len(next) <= Len(cycle)
          /\ best # <<>> => Len(next) <= Len(best)
      <3>1. CASE Better(cycle, best)
        <4>1. next = cycle
          BY <1>7, <3>1
        <4>2. best # <<>> => Len(cycle) < Len(best) \/ Len(cycle) = Len(best)
          BY <3>1 DEF Better
        <4> QED
          BY <1>2, <1>12, <2>2, <4>1, <4>2
      <3>2. CASE ~Better(cycle, best)
        <4>1. next = best
          BY <1>7, <3>2
        <4>2. best # <<>> /\ ~(Len(cycle) < Len(best))
          BY <1>12, <3>2 DEF Better
        <4> QED
          BY <1>2, <2>2, <4>1, <4>2
      <3> QED
        BY <3>1, <3>2
    <2>4. ASSUME NEW c, IsCycle(ids, edges, c), c[1] = start
          PROVE  Len(next) <= Len(c)
      <3>1. Len(cycle) <= Len(c) /\ Len(c) \in Nat
        BY <1>4, <1>9, <2>1, <2>4 DEF IsShortest
      <3> QED
        BY <2>2, <2>3, <3>1
    <2>5. ASSUME NEW c, IsCycle(ids, edges, c), c[1] \in s
          PROVE  next # <<>> /\ Len(next) <= Len(c)
      <3>1. CASE c[1] = start
        BY <2>3, <2>4, <2>5, <3>1
      <3>2. CASE c[1] # start
        <4>1. best # <<>> /\ Len(best) <= Len(c) /\ Len(c) \in Nat /\ Len(best) \in Nat
          BY <1>2, <1>9, <1>10, <2>5, <3>2
        <4> QED
          BY <2>3, <4>1
      <3> QED
        BY <3>1, <3>2
    <2> QED
      BY <2>3, <2>5 DEF BestAfter
  <1> QED
    BY <1>11, <1>12

Searches == INSTANCE FoldFacts
    WITH Op <- LAMBDA tasks, best, start : BestFrom(tasks, Edges(tasks), start, best),
         Value <- LAMBDA tasks, id : id, Pick <- LAMBDA s : Max(s),
         Inv <- LAMBDA tasks, s, best : BestAfter(tasks, s, best)

(* The searches from the tasks that are left find a shortest cycle of those *)
(* through them, and write it from its first task.                        *)
THEOREM SmallestCycle ==
    ASSUME NEW tasks, IsProject(tasks), NEW residual \in SUBSET Ids(tasks),
           NEW cycle, cycle = FindSmallestCycle(tasks, Edges(tasks), residual),
           NEW through, IsCycle(Ids(tasks), Edges(tasks), through), through[1] \in residual
    PROVE  /\ IsCycle(Ids(tasks), Edges(tasks), cycle)
           /\ \A c : IsCycle(Ids(tasks), Edges(tasks), c) /\ c[1] \in residual =>
                Len(cycle) <= Len(c)
           /\ \A k \in 1 .. Len(cycle) : cycle[1] <= cycle[k]
  <1> DEFINE best == Searches!Fold(tasks, <<>>, residual)
  <1>1. IsTasks(tasks) /\ Ids(tasks) \in SUBSET Nat /\ IsFiniteSet(Ids(tasks))
    BY GraphIsFinite DEF IsProject
  <1>2. IsFiniteSet(residual) /\ residual \in SUBSET Nat
    BY <1>1, FS_Subset
  <1>3. cycle = CanonicalRotation(best)
    BY DEF FindSmallestCycle, MapThenFoldSet, Searches!Fold, Searches!MapThenFoldSet
  <1>4. Searches!Picks(residual)
    BY <1>2, LastOfFinite, SmallestSets DEF Searches!Picks
  <1>5. BestAfter(tasks, {}, <<>>)
    BY DEF BestAfter
  <1>6. ASSUME NEW s \in SUBSET residual, s # {}, NEW y, BestAfter(tasks, s \ {Max(s)}, y)
        PROVE  BestAfter(tasks, s, BestFrom(tasks, Edges(tasks), Max(s), y))
    <2>1. Max(s) \in s /\ s \in SUBSET Ids(tasks)
      BY <1>2, <1>6, LastOfFinite
    <2> QED
      BY <1>6, <2>1, SearchesKeep
  <1>7. BestAfter(tasks, residual, best)
    BY <1>4, <1>5, <1>6, Searches!FoldKeeps
  <1> HIDE DEF best
  <1>8. best # <<>> /\ IsCycle(Ids(tasks), Edges(tasks), best)
        /\ \A c : IsCycle(Ids(tasks), Edges(tasks), c) /\ c[1] \in residual =>
             Len(best) <= Len(c)
    BY <1>7 DEF BestAfter
  <1>9. /\ IsCycle(Ids(tasks), Edges(tasks), cycle) /\ Len(cycle) = Len(best)
        /\ \A k \in 1 .. Len(best) : cycle[1] <= cycle[k]
    BY <1>1, <1>3, <1>8, RotationIsCanonical
  <1> QED
    BY <1>8, <1>9

(* The map of a project is right: an order, the first there is, or a cycle, *)
(* a shortest there is.                                                   *)
THEOREM MapsAreRight ==
    ASSUME NEW tasks, IsProject(tasks)
    PROVE  MapIsRight(tasks)
  <1> DEFINE ids == Ids(tasks)
             edges == Edges(tasks)
             kahn == Kahn(tasks, edges)
             cycles == Cycles(ids, edges)
             residual == {id \in ids : kahn.degree[id] > 0}
             cycle == FindSmallestCycle(tasks, edges, residual)
             map == BuildDependencyMap(tasks)
  <1>1. map = IF Len(kahn.ordered) = Len(tasks)
              THEN [kind |-> "ok", nodes |-> kahn.ordered, cycle |-> <<>>]
              ELSE [kind |-> "cycle", nodes |-> <<>>, cycle |-> cycle]
    BY DEF BuildDependencyMap
  <1>2. Len(kahn.ordered) = Len(tasks) <=> cycles = {}
    BY KahnDecides
  <1>3. IsTasks(tasks) /\ IsFiniteSet(ids)
    BY GraphIsFinite DEF IsProject
  <1> HIDE DEF map
  <1>4. CASE cycles = {}
    <2>1. /\ kahn.ordered \in Orders(ids, edges)
          /\ \A other \in Orders(ids, edges) : ~ComesBefore(other, kahn.ordered)
      BY <1>4, FirstOrder
    <2>2. map.kind = "ok" /\ map.nodes = kahn.ordered
      <3> HIDE DEF kahn, cycle
      <3> QED
        BY <1>1, <1>2, <1>4
    <2> QED
      BY <1>4, <2>1, <2>2 DEF MapIsRight, map
  <1>5. CASE cycles # {}
    <2>1. /\ \A c : c \in cycles <=> IsCycle(ids, edges, c)
          /\ \A c \in cycles : /\ Len(c) \in 1 .. Cardinality(ids)
                               /\ DOMAIN c = 1 .. Len(c)
      BY <1>3, CyclesAre
    <2>2. KahnAfter(tasks, Len(tasks), kahn)
      BY <1>3, KahnEnds
    <2>3. KahnSound(tasks, kahn) /\ kahn.ready = {}
      BY <1>2, <1>5, <2>2 DEF KahnAfter
    <2>4. ASSUME NEW c, IsCycle(ids, edges, c)
          PROVE  c[1] \in residual
      <3>1. c \in cycles /\ 1 \in DOMAIN c
        <4>1. c \in cycles
          BY <2>1, <2>4
        <4>2. Len(c) \in 1 .. Cardinality(ids) /\ DOMAIN c = 1 .. Len(c)
          BY <2>1, <4>1
        <4> QED
          BY <4>1, <4>2
      <3>2. c[1] \in Ids(tasks) /\ kahn.degree[c[1]] > 0
        <4> HIDE DEF kahn
        <4> QED
          BY <1>3, <2>3, <3>1, CyclesAreLeft
      <3> QED
        BY <3>2
    <2>5. PICK through : IsCycle(ids, edges, through)
      BY <1>5, <2>1
    <2>6. /\ IsCycle(ids, edges, cycle)
          /\ \A c : IsCycle(ids, edges, c) /\ c[1] \in residual => Len(cycle) <= Len(c)
          /\ \A k \in 1 .. Len(cycle) : cycle[1] <= cycle[k]
      <3>1. residual \in SUBSET ids /\ through[1] \in residual
        BY <2>4, <2>5
      <3>2. cycle = FindSmallestCycle(tasks, edges, residual)
        OBVIOUS
      <3> HIDE DEF residual, cycle
      <3> QED
        BY <2>5, <3>1, <3>2, SmallestCycle
    <2>7. map.kind = "cycle" /\ map.cycle = cycle
      <3> HIDE DEF kahn, cycle
      <3> QED
        BY <1>1, <1>2, <1>5
    <2> HIDE DEF cycle, residual
    <2>8. cycle \in cycles /\ DOMAIN cycle = 1 .. Len(cycle)
      BY <2>1, <2>6
    <2>9. \A other \in cycles : Len(cycle) <= Len(other)
      BY <2>1, <2>4, <2>6
    <2> QED
      BY <1>5, <2>6, <2>7, <2>8, <2>9 DEF MapIsRight, map
  <1> QED
    BY <1>4, <1>5

-----------------------------------------------------------------------------
(* Decomposition: the validations of a task                               *)

(* The validations that stand alone, among the first k.                   *)
AloneAfter(given, k, alone) ==
    /\ alone \in Seq(1 .. k) /\ IsInjective(alone)
    /\ \A v \in 1 .. k : given[v].item = None <=> \E i \in 1 .. Len(alone) : alone[i] = v

Alones == INSTANCE FoldFacts
    WITH Op <- LAMBDA given, alone, v : IF given[v].item = None THEN Append(alone, v)
                                        ELSE alone,
         Value <- LAMBDA given, v : [w \in DOMAIN given |-> w][v],
         Pick <- LAMBDA s : Max(s),
         Inv <- LAMBDA given, k, alone : AloneAfter(given, k, alone)

LEMMA AlonesAreFound ==
    ASSUME NEW given, IsList(given)
    PROVE  AloneAfter(given, Len(given), Standalone(given))
  <1> DEFINE n == Len(given)
  <1>1. DOMAIN given = 1 .. n /\ n \in Nat
    BY DEF IsList
  <1>2. Standalone(given) = Alones!Fold(given, <<>>, 1 .. n)
    BY <1>1 DEF Standalone, FoldLeftDomain, FoldLeft, MapThenFoldSet, Alones!Fold,
                Alones!MapThenFoldSet
  <1> HIDE DEF n
  <1>3. Alones!Picks(1 .. n) /\ Alones!LastPicked(n)
    BY <1>1, LastOfPositions DEF Alones!Picks, Alones!LastPicked
  <1>4. AloneAfter(given, 0, <<>>)
    BY DEF AloneAfter, IsInjective
  <1>5. ASSUME NEW k \in 1 .. n, NEW alone, AloneAfter(given, k - 1, alone)
        PROVE  AloneAfter(given, k, IF given[k].item = None THEN Append(alone, k)
                                    ELSE alone)
    <2>1. k \in Nat /\ k # 0 /\ k \in 1 .. k /\ \A v \in 1 .. k : v = k \/ v \in 1 .. k - 1
      BY <1>1
    <2> DEFINE m == Len(alone)
    <2>2. /\ alone \in Seq(1 .. k - 1) /\ m \in Nat /\ DOMAIN alone = 1 .. m
          /\ \A i \in 1 .. m : alone[i] \in 1 .. k - 1
      BY <1>5 DEF AloneAfter
    <2>3. alone \in Seq(1 .. k) /\ \A i \in 1 .. m : alone[i] # k
      <3>1. 1 .. k - 1 \subseteq 1 .. k
        BY <2>1
      <3>2. \A i \in 1 .. m : alone[i] \in 1 .. k
        BY <2>2, <3>1
      <3>3. alone \in [1 .. m -> 1 .. k]
        BY <2>2, <3>2
      <3>4. \A i \in 1 .. m : alone[i] # k
        BY <2>1, <2>2
      <3> QED
        BY <2>2, <3>3, <3>4
    <2>4. CASE given[k].item = None
      <3> DEFINE more == Append(alone, k)
      <3>1. /\ more \in Seq(1 .. k) /\ Len(more) = m + 1 /\ DOMAIN more = 1 .. m + 1
            /\ more[m + 1] = k /\ \A i \in 1 .. m : more[i] = alone[i]
        BY <2>1, <2>2, <2>3
      <3> HIDE DEF more, m
      <3>2. \A i \in 1 .. m + 1 : i \in 1 .. m \/ i = m + 1
        BY <2>2
      <3>3. IsInjective(more)
        <4>1. \A i, h \in 1 .. m : alone[i] = alone[h] => i = h
          BY <1>5, <2>2 DEF IsInjective, AloneAfter
        <4>2. \A i \in 1 .. m : more[i] = alone[i] /\ more[i] # k
          BY <2>3, <3>1
        <4>3. \A i, h \in 1 .. m + 1 : more[i] = more[h] => i = h
          BY <3>1, <3>2, <4>1, <4>2
        <4> QED
          BY <3>1, <4>3 DEF IsInjective
      <3>4. m + 1 \in 1 .. m + 1 /\ \A i \in 1 .. m : i \in 1 .. m + 1
        BY <2>2
      <3>5. ASSUME NEW v \in 1 .. k - 1
            PROVE  given[v].item = None <=> \E i \in 1 .. m + 1 : more[i] = v
        <4>1. given[v].item = None <=> \E i \in 1 .. m : alone[i] = v
          BY <1>5 DEF AloneAfter, m
        <4>2. v # k
          BY <2>1
        <4> QED
          BY <3>1, <3>2, <3>4, <4>1, <4>2
      <3>6. \E i \in 1 .. m + 1 : more[i] = k
        BY <3>1, <3>4
      <3>7. AloneAfter(given, k, more)
        BY <2>1, <2>4, <3>1, <3>3, <3>5, <3>6 DEF AloneAfter
      <3> QED
        BY <2>4, <3>7 DEF more
    <2>5. CASE given[k].item # None
      <3>1. \A v \in 1 .. k : given[v].item = None <=> \E i \in 1 .. m : alone[i] = v
        BY <1>5, <2>1, <2>3, <2>5 DEF AloneAfter
      <3> QED
        BY <1>5, <2>3, <2>5, <3>1 DEF AloneAfter
    <2> QED
      BY <2>4, <2>5
  <1>6. \A k \in 1 .. n : [w \in DOMAIN given |-> w][k] = k
    BY <1>1
  <1>7. AloneAfter(given, n, Alones!Fold(given, <<>>, 1 .. n))
    BY <1>1, <1>3, <1>4, <1>5, <1>6, Alones!ListKeeps
  <1> QED
    BY <1>2, <1>7 DEF n

(* Every validation is stored once and every item has one.                *)
THEOREM ItemsAreValidated ==
    ASSUME NEW given, IsList(given), NEW n \in Nat
    PROVE  EveryItemIsValidated(given, n)
  <1> SUFFICES ASSUME ValidationsAccepted(given, n)
               PROVE  LET stored == StoredValidations(given, n) IN
                      /\ \A v \in DOMAIN given :
                          \E k \in DOMAIN stored : stored[k].given = {v}
                      /\ \A k \in DOMAIN stored : stored[k].item = k
                      /\ Len(stored) = n + Cardinality({v \in DOMAIN given :
                                                          given[v].item = None})
    BY DEF EveryItemIsValidated
  <1> DEFINE g == Len(given)
             alone == Standalone(given)
             m == Len(alone)
             Own(k) == {v \in DOMAIN given : given[v].item = k}
             items == [k \in 1 .. n |-> ValidationFor(k, given)]
             others == StandaloneValidations(given, n)
             stored == StoredValidations(given, n)
  <1>1. DOMAIN given = 1 .. g /\ g \in Nat
    BY DEF IsList
  <1>2. AloneAfter(given, g, alone)
    BY AlonesAreFound
  <1>3. /\ alone \in Seq(1 .. g) /\ m \in Nat /\ DOMAIN alone = 1 .. m /\ IsInjective(alone)
        /\ \A v \in 1 .. g : given[v].item = None <=> \E i \in 1 .. m : alone[i] = v
        /\ \A i \in 1 .. m : alone[i] \in 1 .. g
    BY <1>2 DEF AloneAfter
  <1> DEFINE One(k) == [item |-> n + k, given |-> {alone[k]},
                        status |-> Or(given[alone[k]].status, "proposed")]
             Row(k) == IF k <= n THEN ValidationFor(k, given) ELSE One(k - n)
  <1>4. others = [k \in 1 .. m |-> One(k)]
    BY <1>3 DEF StandaloneValidations
  <1> HIDE DEF g, alone, m
  <1>5. /\ Len(stored) = n + m /\ DOMAIN stored = 1 .. n + m
        /\ \A k \in 1 .. n + m : stored[k] = Row(k)
    <2> HIDE DEF One
    <2> DEFINE S == {items[k] : k \in 1 .. n} \cup {others[k] : k \in 1 .. m}
    <2>1. items \in Seq(S) /\ Len(items) = n
      OBVIOUS
    <2>2. others \in Seq(S) /\ Len(others) = m
      <3> HIDE DEF others, One
      <3>1. DOMAIN others = 1 .. m /\ others = [k \in 1 .. m |-> others[k]]
        BY <1>4
      <3>2. \A k \in 1 .. m : others[k] \in S
        OBVIOUS
      <3> HIDE DEF S
      <3>3. others \in [1 .. m -> S]
        BY <3>1, <3>2
      <3> QED
        BY <1>3, <3>3
    <2> HIDE DEF S, items, others
    <2>3. /\ items \o others \in Seq(S) /\ Len(items \o others) = n + m
          /\ \A i \in 1 .. n + m : (items \o others)[i]
                = IF i <= n THEN items[i] ELSE others[i - n]
      BY <2>1, <2>2, ConcatProperties
    <2>4. stored = items \o others
      BY DEF StoredValidations, items, others
    <2>5. \A i \in 1 .. n + m : /\ i <= n => i \in 1 .. n
                                /\ ~(i <= n) => i - n \in 1 .. m
      BY <1>3
    <2>6. /\ \A i \in 1 .. n : items[i] = ValidationFor(i, given)
          /\ \A i \in 1 .. m : others[i] = One(i)
      BY <1>4 DEF items
    <2>7. DOMAIN stored = 1 .. n + m
      BY <2>3, <2>4, LenProperties
    <2> HIDE DEF stored
    <2> QED
      BY <2>3, <2>4, <2>5, <2>6, <2>7
  <1> HIDE DEF stored, items, others
  <1>6. ASSUME NEW k \in 1 .. n + m
        PROVE  stored[k].item = k
    <2>1. CASE k <= n
      <3>1. stored[k] = ValidationFor(k, given)
        BY <1>5, <2>1
      <3>2. ValidationFor(k, given).item = k
        BY DEF ValidationFor
      <3> QED
        BY <3>1, <3>2
    <2>2. CASE ~(k <= n)
      <3>1. n + (k - n) = k
        BY <1>3
      <3> QED
        BY <1>5, <2>2, <3>1
    <2> QED
      BY <2>1, <2>2
  <1>7. ASSUME NEW v \in 1 .. g
        PROVE  \E k \in 1 .. n + m : stored[k].given = {v}
    <2>1. CASE given[v].item = None
      <3>1. PICK i \in 1 .. m : alone[i] = v
        BY <1>3, <2>1
      <3>2. n + i \in 1 .. n + m /\ ~(n + i <= n) /\ (n + i) - n = i
        BY <1>3
      <3> QED
        BY <1>5, <3>1, <3>2
    <2>2. CASE given[v].item # None
      <3> DEFINE k == given[v].item
      <3>1. k \in 1 .. n
        BY <1>1, <2>2 DEF ValidationsAccepted
      <3>2. Own(k) = {v}
        BY <1>1, <2>2 DEF ValidationsAccepted
      <3>3. k \in 1 .. n + m /\ k <= n
        BY <1>3, <3>1
      <3>4. ValidationFor(k, given).given = {v}
        BY <3>2 DEF ValidationFor
      <3> HIDE DEF k
      <3> QED
        BY <1>5, <3>3, <3>4
    <2> QED
      BY <2>1, <2>2
  <1>8. Cardinality(Own(None)) = m
    <2> DEFINE D == 1 .. m
    <2>1. alone \in Surjection(D, Own(None)) /\ alone \in Injection(D, Own(None))
      <3>1. \A i \in 1 .. m : alone[i] \in Own(None)
        BY <1>1, <1>3
      <3>2. alone \in [D -> Own(None)]
        BY <1>3, <3>1
      <3>3. \A v \in Own(None) : \E i \in D : alone[i] = v
        BY <1>1, <1>3
      <3>4. \A i, j \in D : alone[i] = alone[j] => i = j
        BY <1>3 DEF IsInjective
      <3> HIDE DEF D, Own
      <3> QED
        BY <3>2, <3>3, <3>4 DEF Surjection, Injection, IsInjective
    <2>2. IsFiniteSet(D) /\ Cardinality(D) = m
      <3>1. IsFiniteSet(1 .. m) /\ Cardinality(1 .. m) = IF 1 > m THEN 0 ELSE m - 1 + 1
        BY <1>3, FS_Interval
      <3> QED
        BY <1>3, <3>1
    <2> HIDE DEF D, Own
    <2> QED
      BY <2>1, <2>2, FS_Surjection
  <1> QED
    BY <1>1, <1>5, <1>6, <1>7, <1>8 DEF stored

-----------------------------------------------------------------------------
(* Decomposition: names                                                   *)

(* Numbers are written as words of their own, in no case.                 *)
NumbersAreWords == NumbersDiffer /\ \A n \in Nat : ToString(n) # "a"

(* A list that is not empty, and the names of this run: prefixed, and in    *)
(* upper case.                                                            *)
IsFull(list) == IsList(list) /\ list # <<>>
IsName(name) ==
    /\ IsList(name) /\ Len(name) > 1 /\ name[1] = "PLAN"
    /\ \A k \in DOMAIN name : Upper(name[k]) = name[k]

LEMMA ListFacts ==
    ASSUME NEW list, IsList(list)
    PROVE  /\ Len(list) \in Nat /\ DOMAIN list = 1 .. Len(list)
           /\ list = [k \in 1 .. Len(list) |-> list[k]]
           /\ list # <<>> => Len(list) # 0
  <1>1. list \in Seq({list[k] : k \in DOMAIN list})
    BY DEF IsList
  <1> DEFINE S == {list[k] : k \in DOMAIN list}
  <1>2. list \in Seq(S)
    BY <1>1
  <1> HIDE DEF S
  <1> QED
    BY <1>2, EmptySeq, LenProperties

LEMMA IsListOf ==
    ASSUME NEW S, NEW list \in Seq(S)
    PROVE  IsList(list)
  <1>1. DOMAIN list = 1 .. Len(list) /\ Len(list) \in Nat
    BY LenProperties
  <1> QED
    BY <1>1 DEF IsList

LEMMA MappedList ==
    ASSUME NEW list, IsList(list), NEW f, f = [k \in DOMAIN list |-> f[k]]
    PROVE  IsList(f) /\ Len(f) = Len(list) /\ DOMAIN f = 1 .. Len(list)
  <1>1. Len(list) \in Nat /\ DOMAIN list = 1 .. Len(list)
    BY ListFacts
  <1> DEFINE n == Len(list)
             S == {f[k] : k \in 1 .. n}
  <1>2. DOMAIN f = 1 .. n /\ \A k \in 1 .. n : f[k] \in S
    BY <1>1
  <1> HIDE DEF S, n
  <1>3. f \in [1 .. n -> S]
    BY <1>1, <1>2 DEF n
  <1>4. f \in Seq(S) /\ Len(f) = n
    BY <1>1, <1>3 DEF n
  <1> QED
    BY <1>2, <1>4, IsListOf DEF n

LEMMA AppendedList ==
    ASSUME NEW list, IsList(list), NEW x, NEW n, n = Len(list)
    PROVE  /\ IsList(Append(list, x)) /\ Len(Append(list, x)) = n + 1
           /\ DOMAIN Append(list, x) = 1 .. n + 1
           /\ \A k \in 1 .. n : Append(list, x)[k] = list[k]
           /\ Append(list, x)[n + 1] = x
  <1> DEFINE S == {list[k] : k \in DOMAIN list} \cup {x}
  <1>1. list \in Seq({list[k] : k \in DOMAIN list})
    BY DEF IsList
  <1>2. list \in Seq(S) /\ x \in S
    BY <1>1
  <1> HIDE DEF S
  <1>3. Append(list, x) \in Seq(S) /\ Len(Append(list, x)) = n + 1
        /\ DOMAIN Append(list, x) = 1 .. n + 1
        /\ \A k \in 1 .. n : Append(list, x)[k] = list[k]
        /\ Append(list, x)[n + 1] = x
    BY <1>2
  <1>4. IsList(Append(list, x))
    BY <1>3, IsListOf
  <1> QED
    BY <1>3, <1>4

(* Reading a name back changes nothing; a text becomes a name.            *)
LEMMA NameStays ==
    ASSUME NEW name, IsName(name)
    PROVE  NormalizeIdentifier(name) = name /\ PrefixNamespace("PLAN", name) = name
  <1>1. Len(name) \in Nat /\ name = [k \in 1 .. Len(name) |-> name[k]]
        /\ DOMAIN name = 1 .. Len(name)
    BY ListFacts DEF IsName
  <1>2. ~Blank(name)
    <2>1. Len(<<"...">>) = 1
      OBVIOUS
    <2> QED
      BY <2>1 DEF Blank, IsName
  <1>3. [k \in DOMAIN name |-> Upper(name[k])] = name
    BY <1>1 DEF IsName
  <1>4. Head(name) = name[1]
    <2>1. name \in Seq({name[k] : k \in DOMAIN name}) /\ name # <<>>
      BY DEF IsName, IsList
    <2> QED
      BY <2>1
  <1> QED
    BY <1>2, <1>3, <1>4 DEF NormalizeIdentifier, PrefixNamespace, IsName

LEMMA NormalizedText ==
    ASSUME NEW text, IsFull(text)
    PROVE  /\ IsFull(NormalizeIdentifier(text))
           /\ \A k \in DOMAIN NormalizeIdentifier(text) :
                Upper(NormalizeIdentifier(text)[k]) = NormalizeIdentifier(text)[k]
  <1>1. CASE Blank(text)
    <2>1. NormalizeIdentifier(text) = <<"ITEM">>
      BY <1>1 DEF NormalizeIdentifier
    <2>2. <<"ITEM">> \in Seq({"ITEM"}) /\ <<"ITEM">> # <<>> /\ DOMAIN <<"ITEM">> = 1 .. 1
          /\ <<"ITEM">>[1] = "ITEM"
      OBVIOUS
    <2>3. IsList(<<"ITEM">>)
      BY <2>2, IsListOf
    <2>4. \A k \in 1 .. 1 : k = 1
      OBVIOUS
    <2>5. Upper("ITEM") = "ITEM"
      BY DEF Upper
    <2> QED
      BY <2>1, <2>2, <2>3, <2>4, <2>5 DEF IsFull
  <1>2. CASE ~Blank(text)
    <2> DEFINE upper == [k \in DOMAIN text |-> Upper(text[k])]
    <2>1. NormalizeIdentifier(text) = upper
      BY <1>2 DEF NormalizeIdentifier
    <2>2. IsList(upper) /\ Len(upper) = Len(text)
      <3>1. upper = [k \in DOMAIN text |-> upper[k]]
        OBVIOUS
      <3> HIDE DEF upper
      <3> QED
        BY <3>1, MappedList DEF IsFull
    <2>3. upper # <<>>
      <3>1. Len(text) # 0
        BY ListFacts DEF IsFull
      <3> HIDE DEF upper
      <3> QED
        BY <2>2, <3>1
    <2>4. \A k \in DOMAIN upper : Upper(upper[k]) = upper[k]
      BY DEF Upper
    <2> QED
      BY <2>1, <2>2, <2>3, <2>4 DEF IsFull
  <1> QED
    BY <1>1, <1>2

LEMMA PrefixedText ==
    ASSUME NEW text, IsFull(text), \A k \in DOMAIN text : Upper(text[k]) = text[k]
    PROVE  IsName(PrefixNamespace("PLAN", text))
  <1> DEFINE S == {text[k] : k \in DOMAIN text} \cup {"PLAN"}
             n == Len(text)
             prefixed == <<"PLAN">> \o text
  <1>1. text \in Seq({text[k] : k \in DOMAIN text}) /\ text # <<>>
        /\ n \in Nat /\ n # 0 /\ DOMAIN text = 1 .. n
    BY ListFacts DEF IsFull, IsList
  <1>2. text \in Seq(S) /\ <<"PLAN">> \in Seq(S) /\ Len(<<"PLAN">>) = 1
        /\ <<"PLAN">>[1] = "PLAN"
    BY <1>1
  <1> HIDE DEF S, n
  <1>3. CASE Len(text) > 1 /\ Head(text) = "PLAN"
    <2>1. Head(text) = text[1]
      BY <1>1
    <2> QED
      BY <1>3, <2>1 DEF PrefixNamespace, IsName, IsFull
  <1>4. CASE ~(Len(text) > 1 /\ Head(text) = "PLAN")
    <2>1. PrefixNamespace("PLAN", text) = prefixed
      BY <1>4 DEF PrefixNamespace
    <2>2. /\ prefixed \in Seq(S) /\ Len(prefixed) = 1 + n
          /\ \A i \in 1 .. 1 + n : prefixed[i] = IF i <= 1 THEN <<"PLAN">>[i]
                                                 ELSE text[i - 1]
      BY <1>2, ConcatProperties DEF n
    <2> HIDE DEF prefixed
    <2>3. DOMAIN prefixed = 1 .. 1 + n /\ IsList(prefixed)
      BY <2>2, IsListOf, LenProperties
    <2>4. 1 + n \in Nat /\ 1 + n > 1 /\ 1 \in 1 .. 1 + n
      BY <1>1
    <2>5. prefixed[1] = "PLAN"
      BY <1>2, <2>2, <2>4
    <2>6. ASSUME NEW i \in 1 .. 1 + n
          PROVE  Upper(prefixed[i]) = prefixed[i]
      <3>1. CASE i = 1
        BY <2>5, <3>1 DEF Upper
      <3>2. CASE i # 1
        <4>1. i - 1 \in 1 .. n /\ ~(i <= 1)
          BY <1>1, <3>2
        <4>2. prefixed[i] = text[i - 1]
          BY <2>2, <4>1
        <4> QED
          BY <1>1, <4>1, <4>2
      <3> QED
        BY <3>1, <3>2
    <2> QED
      BY <2>1, <2>2, <2>3, <2>4, <2>5, <2>6 DEF IsName
  <1> QED
    BY <1>3, <1>4

LEMMA ReservedName ==
    ASSUME NumbersAreWords, NEW name, IsName(name), NEW used, IsFiniteSet(used)
    PROVE  /\ IsName(ReserveIdentifier(name, used))
           /\ ReserveIdentifier(name, used) \notin used
  <1>1. name \in Seq({name[k] : k \in DOMAIN name}) /\ Len(name) \in Nat
        /\ DOMAIN name = 1 .. Len(name)
    BY ListFacts DEF IsName, IsList
  <1> DEFINE S == {name[k] : k \in DOMAIN name}
             reserved == ReserveIdentifier(name, used)
  <1>2. name \in Seq(S)
    BY <1>1
  <1> HIDE DEF S
  <1>3. /\ reserved \notin used
        /\ \/ name \notin used /\ reserved = name
           \/ \E n \in Nat : reserved = Append(name, ToString(n))
    BY <1>2, ReservedIsFree DEF NumbersAreWords
  <1> HIDE DEF reserved
  <1>4. ASSUME NEW n \in Nat, reserved = Append(name, ToString(n))
        PROVE  IsName(reserved)
    <2> DEFINE m == Len(name)
    <2>1. m = Len(name)
      OBVIOUS
    <2> HIDE DEF m
    <2>2. /\ IsList(reserved) /\ Len(reserved) = m + 1 /\ DOMAIN reserved = 1 .. m + 1
          /\ \A k \in 1 .. m : reserved[k] = name[k]
          /\ reserved[m + 1] = ToString(n)
      BY <1>4, <2>1, AppendedList DEF IsName
    <2>3. Upper(ToString(n)) = ToString(n)
      BY DEF NumbersAreWords, Upper
    <2>4. m \in Nat /\ m > 1 /\ 1 \in 1 .. m /\ m + 1 > 1
          /\ \A k \in 1 .. m + 1 : k \in 1 .. m \/ k = m + 1
      BY <1>1, <2>1 DEF IsName
    <2>5. \A k \in 1 .. m : Upper(name[k]) = name[k]
      BY <1>1, <2>1 DEF IsName
    <2>6. name[1] = "PLAN"
      BY DEF IsName
    <2> QED
      BY <2>2, <2>3, <2>4, <2>5, <2>6 DEF IsName
  <1>5. IsName(reserved)
    BY <1>3, <1>4
  <1> QED
    BY <1>3, <1>5 DEF reserved

(* The name for what an agent calls own or title, or neither.             *)
NameFor(own, title, word, number, used) ==
    ReserveIdentifier(PrefixNamespace("PLAN",
      NormalizeIdentifier(Or(own, Or(Slug(title), <<word, ToString(number)>>)))), used)

LEMMA NamesAreNew ==
    ASSUME NumbersAreWords, NEW own, IsText(own), NEW title, IsFull(title),
           NEW word, NEW number, NEW used, IsFiniteSet(used)
    PROVE  /\ IsName(NameFor(own, title, word, number, used))
           /\ NameFor(own, title, word, number, used) \notin used
  <1> DEFINE number2 == <<word, ToString(number)>>
             text == Or(own, Or(Slug(title), number2))
             raw == NormalizeIdentifier(text)
             name == PrefixNamespace("PLAN", raw)
  <1>1. IsFull(number2)
    <2>1. number2 \in Seq({word, ToString(number)}) /\ number2 # <<>>
      OBVIOUS
    <2> HIDE DEF number2
    <2> QED
      BY <2>1, IsListOf DEF IsFull
  <1>2. Slug(title) # None => IsFull(Slug(title))
    BY NormalizedText DEF Slug
  <1>3. IsFull(text)
    <2>1. IsFull(Or(Slug(title), number2))
      BY <1>1, <1>2 DEF Or
    <2> HIDE DEF number2
    <2> QED
      BY <2>1 DEF Or, IsText, IsFull
  <1> HIDE DEF text
  <1>4. IsFull(raw) /\ \A k \in DOMAIN raw : Upper(raw[k]) = raw[k]
    BY <1>3, NormalizedText
  <1> HIDE DEF raw
  <1>5. IsName(name)
    BY <1>4, PrefixedText
  <1> HIDE DEF name
  <1>6. IsName(ReserveIdentifier(name, used)) /\ ReserveIdentifier(name, used) \notin used
    BY <1>5, ReservedName
  <1> QED
    BY <1>6 DEF NameFor, name, raw, text

LEMMA NamesAreKept ==
    ASSUME NoneApart, NEW own, IsName(own), NEW title, NEW word, NEW number, NEW used,
           own \notin used
    PROVE  NameFor(own, title, word, number, used) = own
  <1>1. own # None
    <2>1. own = [k \in DOMAIN own |-> own[k]]
      BY ListFacts DEF IsName
    <2> QED
      BY <2>1 DEF NoneApart
  <1> QED
    BY <1>1, NameStays DEF NameFor, Or, ReserveIdentifier

-----------------------------------------------------------------------------
(* Decomposition: normalisation, as a fold over the tasks of an epic      *)

(* What normalisation makes of a task that is the number-th of an epic with  *)
(* this title, when the ids of used are taken.                              *)
TaskTitle(task, title, number) == Or(task.title, title \o <<"TASK", ToString(number)>>)
TaskItems(task) == IF Or(task.items, <<>>) = <<>> THEN <<FallbackItem>> ELSE task.items
NormalTask(task, title, number, used, mode) ==
    [title |-> TaskTitle(task, title, number),
     id |-> NameFor(task.id, TaskTitle(task, title, number), "TASK", number, used),
     files |-> task.files, requires |-> task.requires,
     items |-> [i \in DOMAIN TaskItems(task) |-> NormalizeItem(TaskItems(task)[i], mode)]]

(* The ids of the first n tasks of a list.                                *)
IdsOf(tasks, n) == {tasks[i].id : i \in 1 .. n}

(* result is what normalisation makes of the first n tasks.               *)
AreNormal(q, n, result) ==
    /\ IsList(result) /\ Len(result) = n
    /\ \A j \in 1 .. n :
          result[j] = NormalTask(q.tasks[j], q.title, j, q.ids \cup IdsOf(result, j - 1),
                                 q.mode)
TasksAfter(q, n, t) ==
    /\ t = [ids |-> q.ids \cup IdsOf(t.tasks, n), tasks |-> t.tasks]
    /\ AreNormal(q, n, t.tasks)

LEMMA IdsFields ==
    ASSUME NEW ids, NEW tasks, NEW id, NEW more
    PROVE  [[ids |-> ids, tasks |-> tasks] EXCEPT !.ids = @ \cup {id}, !.tasks = Append(@, more)]
             = [ids |-> ids \cup {id}, tasks |-> Append(tasks, more)]
  <1> DEFINE s == [ids |-> ids, tasks |-> tasks]
             u == [s EXCEPT !.ids = @ \cup {id}]
  <1>1. u = [ids |-> ids \cup {id}, tasks |-> tasks]
    OBVIOUS
  <1>2. [u EXCEPT !.tasks = Append(@, more)]
          = [ids |-> ids \cup {id}, tasks |-> Append(tasks, more)]
    <2> DEFINE longer == Append(tasks, more)
    <2>1. u.tasks = tasks
      BY <1>1
    <2> HIDE DEF u
    <2>2. Append(u.tasks, more) = longer
      BY <2>1
    <2> HIDE DEF longer
    <2>3. [u EXCEPT !.tasks = longer] = [ids |-> ids \cup {id}, tasks |-> longer]
      BY <1>1
    <2> QED
      BY <2>2, <2>3 DEF longer
  <1> QED
    BY <1>2

LEMMA TaskNormalized ==
    ASSUME NEW task, NEW title, NEW number, NEW ids, NEW tasks, NEW mode
    PROVE  NormalizeTask(task, title, number, [ids |-> ids, tasks |-> tasks], "PLAN", mode)
             = LET more == NormalTask(task, title, number, ids, mode) IN
               [ids |-> ids \cup {more.id}, tasks |-> Append(tasks, more)]
  <1> DEFINE more == NormalTask(task, title, number, ids, mode)
             s == [ids |-> ids, tasks |-> tasks]
  <1>1. s.ids = ids
    OBVIOUS
  <1>2. more.id = NameFor(task.id, TaskTitle(task, title, number), "TASK", number, ids)
    BY DEF NormalTask
  <1>3. NormalizeTask(task, title, number, s, "PLAN", mode)
          = [s EXCEPT !.ids = @ \cup {more.id}, !.tasks = Append(@, more)]
    <2> HIDE DEF s
    <2> QED
      BY <1>1, <1>2 DEF NormalizeTask, NormalTask, NameFor, TaskTitle, TaskItems
  <1> HIDE DEF more
  <1> QED
    BY <1>3, IdsFields DEF more

Turns == INSTANCE FoldFacts
    WITH Op <- LAMBDA q, t, j : NormalizeTask(q.tasks[j], q.title, j, t, "PLAN", q.mode),
         Value <- LAMBDA q, j : [i \in DOMAIN q.tasks |-> i][j],
         Pick <- LAMBDA s : Max(s),
         Inv <- LAMBDA q, n, t : TasksAfter(q, n, t)

LEMMA TurnKeeps ==
    ASSUME NEW q, NEW n \in Nat, n # 0, NEW t, TasksAfter(q, n - 1, t)
    PROVE  TasksAfter(q, n, NormalizeTask(q.tasks[n], q.title, n, t, "PLAN", q.mode))
  <1> DEFINE old == t.tasks
             ids == q.ids \cup IdsOf(old, n - 1)
             more == NormalTask(q.tasks[n], q.title, n, ids, q.mode)
             new == Append(old, more)
             next == NormalizeTask(q.tasks[n], q.title, n, t, "PLAN", q.mode)
  <1>1. t = [ids |-> ids, tasks |-> old] /\ AreNormal(q, n - 1, old)
    BY DEF TasksAfter
  <1> HIDE DEF old, ids
  <1>2. next = [ids |-> ids \cup {more.id}, tasks |-> new]
    <2>1. NormalizeTask(q.tasks[n], q.title, n, [ids |-> ids, tasks |-> old], "PLAN", q.mode)
            = LET m == NormalTask(q.tasks[n], q.title, n, ids, q.mode) IN
              [ids |-> ids \cup {m.id}, tasks |-> Append(old, m)]
      BY TaskNormalized
    <2> QED
      BY <1>1, <2>1
  <1>3. IsList(old) /\ n - 1 = Len(old) /\ n - 1 + 1 = n
    BY <1>1 DEF AreNormal
  <1> HIDE DEF more, new, next
  <1>4. /\ IsList(new) /\ Len(new) = n /\ new[n] = more
        /\ \A i \in 1 .. n - 1 : new[i] = old[i]
    <2>1. /\ IsList(Append(old, more)) /\ Len(Append(old, more)) = n - 1 + 1
          /\ \A k \in 1 .. n - 1 : Append(old, more)[k] = old[k]
          /\ Append(old, more)[n - 1 + 1] = more
      <3> DEFINE m == n - 1
      <3>1. m = Len(old) /\ IsList(old)
        BY <1>3
      <3> HIDE DEF m
      <3>2. /\ IsList(Append(old, more)) /\ Len(Append(old, more)) = m + 1
            /\ \A k \in 1 .. m : Append(old, more)[k] = old[k]
            /\ Append(old, more)[m + 1] = more
        BY <3>1, AppendedList
      <3> QED
        BY <3>2 DEF m
    <2> QED
      BY <1>3, <2>1 DEF new
  <1>5. \A j \in 1 .. n : IdsOf(new, j - 1) = IdsOf(old, j - 1)
    <2> SUFFICES ASSUME NEW j \in 1 .. n
                 PROVE  IdsOf(new, j - 1) = IdsOf(old, j - 1)
      OBVIOUS
    <2>1. \A i \in 1 .. j - 1 : i \in 1 .. n - 1
      OBVIOUS
    <2> QED
      BY <1>4, <2>1 DEF IdsOf
  <1>6. \A j \in 1 .. n :
           new[j] = NormalTask(q.tasks[j], q.title, j, q.ids \cup IdsOf(new, j - 1), q.mode)
    <2> SUFFICES ASSUME NEW j \in 1 .. n
                 PROVE  new[j] = NormalTask(q.tasks[j], q.title, j,
                                            q.ids \cup IdsOf(new, j - 1), q.mode)
      OBVIOUS
    <2>1. CASE j = n
      BY <1>4, <1>5, <2>1 DEF more, ids
    <2>2. CASE j # n
      <3>1. j \in 1 .. n - 1
        BY <2>2
      <3> QED
        BY <1>1, <1>4, <1>5, <3>1 DEF AreNormal
    <2> QED
      BY <2>1, <2>2
  <1>7. ids \cup {more.id} = q.ids \cup IdsOf(new, n)
    <2>1. n \in 1 .. n /\ \A i \in 1 .. n : i = n \/ i \in 1 .. n - 1
      OBVIOUS
    <2>2. \A i \in 1 .. n - 1 : i \in 1 .. n
      OBVIOUS
    <2>3. IdsOf(new, n) = IdsOf(old, n - 1) \cup {more.id}
      BY <1>4, <2>1, <2>2 DEF IdsOf
    <2> QED
      BY <2>3 DEF ids
  <1>8. next.tasks = new
    BY <1>2
  <1>9. TasksAfter(q, n, next)
    BY <1>2, <1>4, <1>6, <1>7, <1>8 DEF TasksAfter, AreNormal
  <1> QED
    BY <1>9 DEF next

(* The fold over the tasks of one epic.                                   *)
TasksOf(q) ==
    FoldLeftDomain(LAMBDA t, j : NormalizeTask(q.tasks[j], q.title, j, t, "PLAN", q.mode),
                   [ids |-> q.ids, tasks |-> <<>>], q.tasks)

LEMMA TasksAreNormal ==
    ASSUME NEW q, IsList(q.tasks)
    PROVE  TasksAfter(q, Len(q.tasks), TasksOf(q))
  <1> DEFINE n == Len(q.tasks)
             base == [ids |-> q.ids, tasks |-> <<>>]
  <1>1. DOMAIN q.tasks = 1 .. n /\ n \in Nat
    BY ListFacts
  <1>2. TasksOf(q) = Turns!Fold(q, base, 1 .. n)
    BY <1>1 DEF TasksOf, FoldLeftDomain, FoldLeft, MapThenFoldSet, Turns!Fold,
                Turns!MapThenFoldSet
  <1> HIDE DEF n
  <1>3. Turns!Picks(1 .. n) /\ Turns!LastPicked(n)
    BY <1>1, LastOfPositions DEF Turns!Picks, Turns!LastPicked
  <1>4. TasksAfter(q, 0, base)
    <2>1. base.tasks = <<>> /\ IsList(<<>>) /\ Len(<<>>) = 0
      BY DEF IsList
    <2>2. IdsOf(<<>>, 0) = {} /\ q.ids \cup {} = q.ids
      BY DEF IdsOf
    <2>3. AreNormal(q, 0, <<>>)
      BY <2>1 DEF AreNormal
    <2>4. base = [ids |-> q.ids \cup IdsOf(<<>>, 0), tasks |-> <<>>]
      BY <2>2
    <2> HIDE DEF base
    <2> QED
      BY <2>1, <2>3, <2>4 DEF TasksAfter
  <1> HIDE DEF base
  <1>5. \A k \in 1 .. n : \A t :
          TasksAfter(q, k - 1, t)
            => TasksAfter(q, k, NormalizeTask(q.tasks[k], q.title, k, t, "PLAN", q.mode))
    <2>1. \A k \in 1 .. n : k \in Nat /\ k # 0
      BY <1>1
    <2> QED
      BY <2>1, TurnKeeps
  <1>6. \A k \in 1 .. n : [i \in DOMAIN q.tasks |-> i][k] = k
    BY <1>1
  <1>7. TasksAfter(q, n, Turns!Fold(q, base, 1 .. n))
    BY <1>1, <1>3, <1>4, <1>5, <1>6, Turns!ListKeeps
  <1> QED
    BY <1>2, <1>7 DEF n

-----------------------------------------------------------------------------
(* Decomposition: normalisation, as a fold over the epics                 *)

(* What normalisation makes of the epics of p.                            *)
EpicTitle(epic, number) == Or(epic.title, <<"EPIC", ToString(number)>>)
EpicKeysOf(epics, n) == {epics[i].key : i \in 1 .. n}
AllIdsOf(epics, n) ==
    UNION {IdsOf(epics[i].tasks, Len(epics[i].tasks)) : i \in 1 .. n}
EpicTurn(p, k, ids) ==
    [tasks |-> p.epics[k].tasks, title |-> EpicTitle(p.epics[k], k), ids |-> ids,
     mode |-> p.mode]
NormalEpic(p, k, keys, tasks) ==
    [title |-> EpicTitle(p.epics[k], k),
     key |-> NameFor(p.epics[k].key, EpicTitle(p.epics[k], k), "EPIC", k, keys),
     tasks |-> tasks]

AreNormalEpics(p, n, result) ==
    /\ IsList(result) /\ Len(result) = n
    /\ \A k \in 1 .. n :
         /\ result[k] = NormalEpic(p, k, EpicKeysOf(result, k - 1), result[k].tasks)
         /\ AreNormal(EpicTurn(p, k, AllIdsOf(result, k - 1)), Len(p.epics[k].tasks),
                      result[k].tasks)
EpicsAfter(p, n, s) ==
    /\ s = [keys |-> EpicKeysOf(s.epics, n), ids |-> AllIdsOf(s.epics, n), epics |-> s.epics]
    /\ AreNormalEpics(p, n, s.epics)

LEMMA EpicNormalized ==
    ASSUME NEW p, NEW k, NEW keys, NEW ids, NEW epics
    PROVE  NormalizeEpic(p.epics[k], k, [keys |-> keys, ids |-> ids, epics |-> epics],
                         "PLAN", p.mode)
             = LET inner == TasksOf(EpicTurn(p, k, ids))
                   more  == NormalEpic(p, k, keys, inner.tasks) IN
               [keys |-> keys \cup {more.key}, ids |-> inner.ids, epics |-> Append(epics, more)]
  <1> DEFINE s == [keys |-> keys, ids |-> ids, epics |-> epics]
             title == EpicTitle(p.epics[k], k)
             q == EpicTurn(p, k, ids)
             inner == TasksOf(q)
             more == NormalEpic(p, k, keys, inner.tasks)
             key == NameFor(p.epics[k].key, title, "EPIC", k, keys)
  <1>1. s.keys = keys /\ s.ids = ids /\ s.epics = epics
    OBVIOUS
  <1>2. more.key = key /\ more = [title |-> title, key |-> key, tasks |-> inner.tasks]
    BY DEF NormalEpic
  <1>3. /\ q.tasks = p.epics[k].tasks /\ q.title = title /\ q.ids = ids /\ q.mode = p.mode
    BY DEF EpicTurn
  <1>4. inner = FoldLeftDomain(
                  LAMBDA t, j : NormalizeTask(p.epics[k].tasks[j], title, j, t, "PLAN", p.mode),
                  [ids |-> ids, tasks |-> <<>>], p.epics[k].tasks)
    <2> HIDE DEF q, title
    <2> QED
      BY <1>3 DEF TasksOf
  <1> HIDE DEF s, inner, more
  <1>5. NormalizeEpic(p.epics[k], k, s, "PLAN", p.mode)
          = [keys |-> s.keys \cup {key}, ids |-> inner.ids,
             epics |-> Append(s.epics, [title |-> title, key |-> key, tasks |-> inner.tasks])]
    BY <1>1, <1>4 DEF NormalizeEpic, NameFor, EpicTitle
  <1> QED
    BY <1>1, <1>2, <1>5 DEF s, inner, more

EpicTurns == INSTANCE FoldFacts
    WITH Op <- LAMBDA p, s, k : NormalizeEpic(p.epics[k], k, s, "PLAN", p.mode),
         Value <- LAMBDA p, k : [i \in DOMAIN p.epics |-> i][k],
         Pick <- LAMBDA s : Max(s),
         Inv <- LAMBDA p, n, s : EpicsAfter(p, n, s)

LEMMA EpicTurnKeeps ==
    ASSUME NEW p, NEW n \in Nat, n # 0, IsList(p.epics[n].tasks),
           NEW s, EpicsAfter(p, n - 1, s)
    PROVE  EpicsAfter(p, n, NormalizeEpic(p.epics[n], n, s, "PLAN", p.mode))
  <1> DEFINE old == s.epics
             keys == EpicKeysOf(old, n - 1)
             ids == AllIdsOf(old, n - 1)
             inner == TasksOf(EpicTurn(p, n, ids))
             more == NormalEpic(p, n, keys, inner.tasks)
             new == Append(old, more)
             next == NormalizeEpic(p.epics[n], n, s, "PLAN", p.mode)
  <1>1. s = [keys |-> keys, ids |-> ids, epics |-> old] /\ AreNormalEpics(p, n - 1, old)
    BY DEF EpicsAfter
  <1> HIDE DEF old, keys, ids
  <1>2. next = [keys |-> keys \cup {more.key}, ids |-> inner.ids, epics |-> new]
    <2>1. NormalizeEpic(p.epics[n], n, [keys |-> keys, ids |-> ids, epics |-> old],
                        "PLAN", p.mode)
            = LET i == TasksOf(EpicTurn(p, n, ids))
                  m == NormalEpic(p, n, keys, i.tasks) IN
              [keys |-> keys \cup {m.key}, ids |-> i.ids, epics |-> Append(old, m)]
      BY EpicNormalized
    <2> QED
      BY <1>1, <2>1
  <1>3. IsList(old) /\ n - 1 = Len(old) /\ n - 1 + 1 = n
    BY <1>1 DEF AreNormalEpics
  <1>4. TasksAfter(EpicTurn(p, n, ids), Len(p.epics[n].tasks), inner)
    <2> DEFINE q == EpicTurn(p, n, ids)
    <2>1. q.tasks = p.epics[n].tasks
      BY DEF EpicTurn
    <2> HIDE DEF q
    <2>2. TasksAfter(q, Len(q.tasks), TasksOf(q))
      BY <2>1, TasksAreNormal
    <2> QED
      BY <2>1, <2>2 DEF q
  <1>5. more.tasks = inner.tasks
    BY DEF NormalEpic
  <1> HIDE DEF more, new, next, inner
  <1>6. /\ IsList(new) /\ Len(new) = n /\ new[n] = more
        /\ \A i \in 1 .. n - 1 : new[i] = old[i]
    <2> DEFINE m == n - 1
    <2>1. m = Len(old) /\ IsList(old)
      BY <1>3
    <2> HIDE DEF m
    <2>2. /\ IsList(Append(old, more)) /\ Len(Append(old, more)) = m + 1
          /\ \A k \in 1 .. m : Append(old, more)[k] = old[k]
          /\ Append(old, more)[m + 1] = more
      BY <2>1, AppendedList
    <2> QED
      BY <1>3, <2>2 DEF m, new
  <1>7. \A k \in 1 .. n : /\ EpicKeysOf(new, k - 1) = EpicKeysOf(old, k - 1)
                          /\ AllIdsOf(new, k - 1) = AllIdsOf(old, k - 1)
    <2> SUFFICES ASSUME NEW k \in 1 .. n
                 PROVE  /\ EpicKeysOf(new, k - 1) = EpicKeysOf(old, k - 1)
                        /\ AllIdsOf(new, k - 1) = AllIdsOf(old, k - 1)
      OBVIOUS
    <2>1. \A i \in 1 .. k - 1 : i \in 1 .. n - 1
      OBVIOUS
    <2>2. \A i \in 1 .. k - 1 : new[i] = old[i]
      BY <1>6, <2>1
    <2> QED
      BY <2>2 DEF EpicKeysOf, AllIdsOf
  <1>8. new[n] = NormalEpic(p, n, EpicKeysOf(new, n - 1), new[n].tasks)
        /\ AreNormal(EpicTurn(p, n, AllIdsOf(new, n - 1)), Len(p.epics[n].tasks), new[n].tasks)
    <2>1. n \in 1 .. n
      OBVIOUS
    <2>2. EpicKeysOf(new, n - 1) = keys /\ AllIdsOf(new, n - 1) = ids
      BY <1>7, <2>1 DEF keys, ids
    <2>3. new[n].tasks = inner.tasks
      BY <1>5, <1>6
    <2>4. new[n] = NormalEpic(p, n, keys, inner.tasks)
      BY <1>6 DEF more
    <2> QED
      BY <1>4, <2>2, <2>3, <2>4 DEF TasksAfter
  <1>9. AreNormalEpics(p, n, new)
    <2> SUFFICES ASSUME NEW k \in 1 .. n
                 PROVE  /\ new[k] = NormalEpic(p, k, EpicKeysOf(new, k - 1), new[k].tasks)
                        /\ AreNormal(EpicTurn(p, k, AllIdsOf(new, k - 1)),
                                     Len(p.epics[k].tasks), new[k].tasks)
      BY <1>6 DEF AreNormalEpics
    <2>1. CASE k = n
      BY <1>8, <2>1
    <2>2. CASE k # n
      <3>1. k \in 1 .. n - 1
        BY <2>2
      <3>2. new[k] = old[k]
        BY <1>6, <3>1
      <3>3. /\ old[k] = NormalEpic(p, k, EpicKeysOf(old, k - 1), old[k].tasks)
            /\ AreNormal(EpicTurn(p, k, AllIdsOf(old, k - 1)), Len(p.epics[k].tasks),
                         old[k].tasks)
        BY <1>1, <3>1 DEF AreNormalEpics
      <3> QED
        BY <1>7, <3>2, <3>3
    <2> QED
      BY <2>1, <2>2
  <1>10. keys \cup {more.key} = EpicKeysOf(new, n) /\ inner.ids = AllIdsOf(new, n)
    <2>1. \A i \in 1 .. n : i = n \/ i \in 1 .. n - 1
      OBVIOUS
    <2>2. n \in 1 .. n /\ \A i \in 1 .. n - 1 : i \in 1 .. n
      OBVIOUS
    <2>3. EpicKeysOf(new, n) = keys \cup {more.key}
      BY <1>6, <2>1, <2>2 DEF EpicKeysOf, keys
    <2>4. AllIdsOf(new, n) = ids \cup IdsOf(more.tasks, Len(more.tasks))
      BY <1>6, <2>1, <2>2 DEF AllIdsOf, ids
    <2>5. inner.ids = ids \cup IdsOf(inner.tasks, Len(p.epics[n].tasks))
          /\ Len(inner.tasks) = Len(p.epics[n].tasks)
      <3> DEFINE q == EpicTurn(p, n, ids)
                 m == Len(p.epics[n].tasks)
      <3>1. q.ids = ids
        BY DEF EpicTurn
      <3>2. TasksAfter(q, m, inner)
        BY <1>4
      <3> HIDE DEF q, m
      <3>3. inner.ids = q.ids \cup IdsOf(inner.tasks, m) /\ Len(inner.tasks) = m
        BY <3>2 DEF TasksAfter, AreNormal
      <3> QED
        BY <3>1, <3>3 DEF m
    <2> QED
      BY <1>5, <2>3, <2>4, <2>5
  <1>11. next.epics = new
    BY <1>2
  <1>12. next = [keys |-> EpicKeysOf(new, n), ids |-> AllIdsOf(new, n), epics |-> new]
    BY <1>2, <1>10
  <1>13. EpicsAfter(p, n, next)
    BY <1>9, <1>11, <1>12 DEF EpicsAfter
  <1> QED
    BY <1>13 DEF next

(* What normalisation makes of a list of epics.                           *)
LEMMA EpicsAreNormal ==
    ASSUME NEW epics, NEW mode, IsList(epics), \A k \in DOMAIN epics : IsList(epics[k].tasks)
    PROVE  AreNormalEpics([epics |-> epics, mode |-> mode], Len(epics),
                          Normalize(epics, "PLAN", mode))
  <1> DEFINE n == Len(epics)
             p == [epics |-> epics, mode |-> mode]
             base == [keys |-> {}, ids |-> {}, epics |-> <<>>]
             fold == EpicTurns!Fold(p, base, 1 .. n)
  <1>1. DOMAIN epics = 1 .. n /\ n \in Nat /\ p.epics = epics /\ p.mode = mode
    BY ListFacts
  <1> HIDE DEF p
  <1>2. Normalize(epics, "PLAN", mode) = fold.epics
    BY <1>1 DEF Normalize, FoldLeftDomain, FoldLeft, MapThenFoldSet, EpicTurns!Fold,
                EpicTurns!MapThenFoldSet
  <1> HIDE DEF n
  <1>3. EpicTurns!Picks(1 .. n) /\ EpicTurns!LastPicked(n)
    BY <1>1, LastOfPositions DEF EpicTurns!Picks, EpicTurns!LastPicked
  <1>4. EpicsAfter(p, 0, base)
    <2>1. base.epics = <<>> /\ IsList(<<>>) /\ Len(<<>>) = 0
      BY DEF IsList
    <2>2. EpicKeysOf(<<>>, 0) = {} /\ AllIdsOf(<<>>, 0) = {}
      BY DEF EpicKeysOf, AllIdsOf
    <2>3. AreNormalEpics(p, 0, <<>>)
      BY <2>1 DEF AreNormalEpics
    <2>4. base = [keys |-> EpicKeysOf(<<>>, 0), ids |-> AllIdsOf(<<>>, 0), epics |-> <<>>]
      BY <2>2
    <2> HIDE DEF base
    <2> QED
      BY <2>1, <2>3, <2>4 DEF EpicsAfter
  <1> HIDE DEF base
  <1>5. \A k \in 1 .. n : \A s :
          EpicsAfter(p, k - 1, s)
            => EpicsAfter(p, k, NormalizeEpic(p.epics[k], k, s, "PLAN", p.mode))
    <2>1. \A k \in 1 .. n : k \in Nat /\ k # 0 /\ IsList(p.epics[k].tasks)
      BY <1>1
    <2> QED
      BY <2>1, EpicTurnKeeps
  <1>6. \A k \in 1 .. n : [i \in DOMAIN p.epics |-> i][k] = k
    BY <1>1
  <1>7. EpicsAfter(p, n, fold)
    BY <1>1, <1>3, <1>4, <1>5, <1>6, EpicTurns!ListKeeps
  <1> HIDE DEF fold
  <1>8. AreNormalEpics(p, n, fold.epics)
    BY <1>7 DEF EpicsAfter
  <1> QED
    BY <1>2, <1>8 DEF n, p

-----------------------------------------------------------------------------
(* Decomposition: what is stored                                          *)

(* What is stored: no title is missing, names are of this run, and a task's  *)
(* items, at least one, are such that reading them back changes nothing.    *)
IsStoredItem(item) == NormalizeItem(item, "strict") = item /\ item.kind \in Kinds
IsStoredTask(task) ==
    /\ task = [title |-> task.title, id |-> task.id, files |-> task.files,
               requires |-> task.requires, items |-> task.items]
    /\ task.title # None /\ IsName(task.id)
    /\ task.files \in Nat /\ IsList(task.requires)
    /\ IsFull(task.items) /\ \A i \in DOMAIN task.items : IsStoredItem(task.items[i])
IsStoredEpic(epic) ==
    /\ epic = [title |-> epic.title, key |-> epic.key, tasks |-> epic.tasks]
    /\ epic.title # None /\ IsName(epic.key)
    /\ IsList(epic.tasks) /\ \A j \in DOMAIN epic.tasks : IsStoredTask(epic.tasks[j])

(* Names are distinct.                                                    *)
KeysDiffer(epics) ==
    \A k, l \in DOMAIN epics : epics[k].key = epics[l].key => k = l
SameTask(epics, k, j, l, i) == epics[k].tasks[j].id = epics[l].tasks[i].id => k = l /\ j = i
IdsDiffer(epics) ==
    \A k, l \in DOMAIN epics : \A j \in DOMAIN epics[k].tasks :
        \A i \in DOMAIN epics[l].tasks : SameTask(epics, k, j, l, i)
IsStored(epics) ==
    /\ IsList(epics) /\ KeysDiffer(epics) /\ IdsDiffer(epics)
    /\ \A k \in DOMAIN epics : IsStoredEpic(epics[k])

LEMMA NamesAreFinite ==
    ASSUME NEW n \in Nat, NEW tasks
    PROVE  /\ IsFiniteSet(IdsOf(tasks, n)) /\ IsFiniteSet(EpicKeysOf(tasks, n))
           /\ (\A i \in 1 .. n : IsList(tasks[i].tasks)) => IsFiniteSet(AllIdsOf(tasks, n))
  <1>1. IsFiniteSet(1 .. n)
    BY FS_Interval
  <1>2. \A m \in Nat : \A list : IsFiniteSet(IdsOf(list, m))
    <2> SUFFICES ASSUME NEW m \in Nat, NEW list
                 PROVE  IsFiniteSet(IdsOf(list, m))
      OBVIOUS
    <2> DEFINE f == [i \in 1 .. m |-> list[i].id]
    <2>1. f \in Surjection(1 .. m, IdsOf(list, m))
      BY DEF Surjection, IdsOf
    <2>2. IsFiniteSet(1 .. m)
      BY FS_Interval
    <2> HIDE DEF f
    <2> QED
      BY <2>1, <2>2, FS_Surjection
  <1>3. IsFiniteSet(EpicKeysOf(tasks, n))
    <2> DEFINE f == [i \in 1 .. n |-> tasks[i].key]
    <2>1. f \in Surjection(1 .. n, EpicKeysOf(tasks, n))
      BY DEF Surjection, EpicKeysOf
    <2> HIDE DEF f
    <2> QED
      BY <1>1, <2>1, FS_Surjection
  <1>4. ASSUME \A i \in 1 .. n : IsList(tasks[i].tasks)
        PROVE  IsFiniteSet(AllIdsOf(tasks, n))
    <2> DEFINE f == [i \in 1 .. n |-> IdsOf(tasks[i].tasks, Len(tasks[i].tasks))]
               T == {IdsOf(tasks[i].tasks, Len(tasks[i].tasks)) : i \in 1 .. n}
    <2>1. f \in Surjection(1 .. n, T)
      BY DEF Surjection
    <2>2. \A x \in T : IsFiniteSet(x)
      <3>1. \A i \in 1 .. n : Len(tasks[i].tasks) \in Nat
        BY <1>4, ListFacts
      <3> QED
        BY <1>2, <3>1
    <2>3. AllIdsOf(tasks, n) = UNION T
      BY DEF AllIdsOf
    <2> HIDE DEF f, T
    <2>4. IsFiniteSet(T)
      BY <1>1, <2>1, FS_Surjection
    <2> QED
      BY <2>2, <2>3, <2>4, FS_UNION
  <1> QED
    BY <1>2, <1>3, <1>4

LEMMA JoinedText ==
    ASSUME NEW a, IsFull(a), NEW b, IsFull(b)
    PROVE  IsFull(a \o b)
  <1> DEFINE S == {a[k] : k \in DOMAIN a} \cup {b[k] : k \in DOMAIN b}
  <1>1. a \in Seq({a[k] : k \in DOMAIN a}) /\ b \in Seq({b[k] : k \in DOMAIN b})
    BY DEF IsFull, IsList
  <1>2. a \in Seq(S) /\ b \in Seq(S)
    BY <1>1
  <1> HIDE DEF S
  <1>3. a \o b \in Seq(S) /\ Len(a \o b) = Len(a) + Len(b)
    BY <1>2, ConcatProperties
  <1>4. Len(a) \in Nat /\ Len(a) # 0 /\ Len(b) \in Nat
    BY ListFacts DEF IsFull
  <1>5. Len(a \o b) # 0
    BY <1>3, <1>4
  <1>6. a \o b # <<>>
    BY <1>5
  <1>7. IsList(a \o b)
    BY <1>3, IsListOf
  <1> QED
    BY <1>6, <1>7 DEF IsFull

LEMMA FullIsSome ==
    ASSUME NoneApart, NEW text, IsList(text)
    PROVE  text # None
  <1>1. text = [k \in DOMAIN text |-> text[k]]
    BY ListFacts
  <1> QED
    BY <1>1 DEF NoneApart

LEMMA NumberedText ==
    ASSUME NEW word, NEW number
    PROVE  IsFull(<<word, ToString(number)>>)
  <1> DEFINE text == <<word, ToString(number)>>
  <1>1. text \in Seq({word, ToString(number)}) /\ text # <<>>
    OBVIOUS
  <1> HIDE DEF text
  <1>2. IsFull(text)
    BY <1>1, IsListOf DEF IsFull
  <1> QED
    BY <1>2 DEF text

LEMMA TitlesAreFull ==
    ASSUME NEW own, IsText(own), NEW title, IsFull(title), NEW number
    PROVE  /\ IsFull(Or(own, title \o <<"TASK", ToString(number)>>))
           /\ IsFull(Or(own, <<"EPIC", ToString(number)>>))
  <1> DEFINE task == title \o <<"TASK", ToString(number)>>
             epic == <<"EPIC", ToString(number)>>
  <1>1. IsFull(task) /\ IsFull(epic)
    BY NumberedText, JoinedText
  <1> HIDE DEF task, epic
  <1>2. IsFull(Or(own, task)) /\ IsFull(Or(own, epic))
    BY <1>1 DEF Or, IsText, IsFull
  <1> QED
    BY <1>2 DEF task, epic

(* A task, whatever an agent made of it, is stored under a new name.      *)
LEMMA TaskIsStored ==
    ASSUME NumbersAreWords, NoneApart, NEW task, IsTaskAnswer(task), NEW title,
           IsFull(title), NEW number, NEW used, IsFiniteSet(used)
    PROVE  /\ IsStoredTask(NormalTask(task, title, number, used, "generated"))
           /\ NormalTask(task, title, number, used, "generated").id \notin used
  <1> DEFINE own == TaskTitle(task, title, number)
             name == NameFor(task.id, own, "TASK", number, used)
             given == TaskItems(task)
             items == [i \in DOMAIN given |-> NormalizeItem(given[i], "generated")]
             stored == NormalTask(task, title, number, used, "generated")
  <1>1. IsText(task.title) /\ IsText(task.id) /\ task.files \in Nat
        /\ IsList(task.requires) /\ IsItems(task.items)
    BY DEF IsTaskAnswer
  <1>2. IsFull(own)
    BY <1>1, TitlesAreFull DEF TaskTitle
  <1> HIDE DEF own
  <1>3. IsName(name) /\ name \notin used
    BY <1>1, <1>2, NamesAreNew
  <1> HIDE DEF name
  <1>4. IsFull(given)
    <2>1. CASE Or(task.items, <<>>) = <<>>
      <3>1. given = <<FallbackItem>>
        BY <2>1 DEF TaskItems
      <3>2. <<FallbackItem>> \in Seq({FallbackItem}) /\ <<FallbackItem>> # <<>>
        OBVIOUS
      <3>3. IsList(<<FallbackItem>>)
        BY <3>2, IsListOf
      <3> QED
        BY <3>1, <3>2, <3>3 DEF IsFull
    <2>2. CASE Or(task.items, <<>>) # <<>>
      BY <1>1, <2>2 DEF TaskItems, IsItems, Or, IsFull
    <2> QED
      BY <2>1, <2>2
  <1>5. stored = [title |-> own, id |-> name, files |-> task.files,
                  requires |-> task.requires, items |-> items]
    BY DEF NormalTask, own, name
  <1> HIDE DEF given
  <1>6. IsFull(items)
    <2>1. items = [i \in DOMAIN given |-> items[i]]
      OBVIOUS
    <2> HIDE DEF items
    <2>2. IsList(items) /\ Len(items) = Len(given)
      BY <1>4, <2>1, MappedList DEF IsFull
    <2>3. Len(given) # 0
      BY <1>4, ListFacts DEF IsFull
    <2> QED
      BY <2>2, <2>3 DEF IsFull
  <1>7. \A i \in DOMAIN items : IsStoredItem(items[i])
    <2>1. \A item : IsStoredItem(NormalizeItem(item, "generated"))
      <3> SUFFICES ASSUME NEW item
                   PROVE  IsStoredItem(NormalizeItem(item, "generated"))
        OBVIOUS
      <3> DEFINE s == NormalizeItem(item, "generated")
      <3>1. NormalizeItem(s, "strict") = s
        BY ReadBackKeepsItems
      <3>2. s.kind = NormalizeKind(item.kind)
        BY DEF NormalizeItem
      <3>3. NormalizeKind(item.kind) \in Kinds
        BY DEF NormalizeKind, Kinds
      <3> HIDE DEF s
      <3>4. IsStoredItem(s)
        BY <3>1, <3>2, <3>3 DEF IsStoredItem
      <3> QED
        BY <3>4 DEF s
    <2> QED
      BY <2>1
  <1>8. own # None
    BY <1>2, FullIsSome DEF IsFull
  <1> HIDE DEF stored, items
  <1>9. IsStoredTask(stored) /\ stored.id \notin used
    BY <1>1, <1>3, <1>5, <1>6, <1>7, <1>8 DEF IsStoredTask
  <1> QED
    BY <1>9 DEF stored

LEMMA TasksAreStored ==
    ASSUME NumbersAreWords, NoneApart, NEW q, NEW n \in Nat, NEW result,
           AreNormal(q, n, result), q.mode = "generated", IsFull(q.title),
           IsFiniteSet(q.ids), \A j \in 1 .. n : IsTaskAnswer(q.tasks[j]),
           NEW j \in 1 .. n
    PROVE  IsStoredTask(result[j]) /\ result[j].id \notin q.ids \cup IdsOf(result, j - 1)
  <1> DEFINE used == q.ids \cup IdsOf(result, j - 1)
  <1>1. result[j] = NormalTask(q.tasks[j], q.title, j, used, "generated")
    BY DEF AreNormal
  <1>2. IsFiniteSet(used)
    <2>1. j - 1 \in Nat
      OBVIOUS
    <2>2. IsFiniteSet(IdsOf(result, j - 1))
      BY <2>1, NamesAreFinite
    <2> QED
      BY <2>2, FS_Union
  <1> HIDE DEF used
  <1>3. IsStoredTask(result[j]) /\ result[j].id \notin used
    BY <1>1, <1>2, TaskIsStored
  <1> QED
    BY <1>3 DEF used

(* Epics as the orchestrator hands them over.                             *)
IsPlan(epics) ==
    /\ IsList(epics)
    /\ \A k \in DOMAIN epics :
         /\ IsText(epics[k].title) /\ IsText(epics[k].key) /\ IsList(epics[k].tasks)
         /\ \A j \in DOMAIN epics[k].tasks : IsTaskAnswer(epics[k].tasks[j])

LEMMA EpicIsStored ==
    ASSUME NumbersAreWords, NoneApart, NEW epics, IsPlan(epics), NEW n, n = Len(epics),
           NEW p, p = [epics |-> epics, mode |-> "generated"],
           NEW result, AreNormalEpics(p, n, result), NEW k \in 1 .. n
    PROVE  /\ IsStoredEpic(result[k]) /\ result[k].key \notin EpicKeysOf(result, k - 1)
           /\ Len(result[k].tasks) = Len(epics[k].tasks)
           /\ \A j \in DOMAIN result[k].tasks :
                result[k].tasks[j].id \notin AllIdsOf(result, k - 1)
                                              \cup IdsOf(result[k].tasks, j - 1)
  <1> DEFINE epic == epics[k]
             title == EpicTitle(epic, k)
             keys == EpicKeysOf(result, k - 1)
             key == NameFor(epic.key, title, "EPIC", k, keys)
             ids == AllIdsOf(result, k - 1)
             q == EpicTurn(p, k, ids)
             tasks == result[k].tasks
             m == Len(epic.tasks)
  <1>1. n \in Nat /\ DOMAIN epics = 1 .. n /\ p.epics = epics /\ p.mode = "generated"
    BY ListFacts DEF IsPlan
  <1>2. /\ IsText(epic.title) /\ IsText(epic.key) /\ IsList(epic.tasks)
        /\ \A j \in DOMAIN epic.tasks : IsTaskAnswer(epic.tasks[j])
    BY <1>1 DEF IsPlan
  <1>3. m \in Nat /\ DOMAIN epic.tasks = 1 .. m
    BY <1>2, ListFacts
  <1>4. k - 1 \in Nat /\ \A i \in 1 .. k - 1 : i \in 1 .. n
    BY <1>1
  <1>5. result[k] = [title |-> title, key |-> key, tasks |-> tasks]
    BY <1>1 DEF AreNormalEpics, NormalEpic
  <1>6. AreNormal(q, m, tasks)
    BY <1>1 DEF AreNormalEpics
  <1>7. /\ q.tasks = epic.tasks /\ q.title = title /\ q.ids = ids /\ q.mode = "generated"
    BY <1>1 DEF EpicTurn
  <1>8. IsFull(title)
    <2>1. IsFull(<<"EPIC", ToString(k)>>)
      BY NumberedText
    <2> QED
      BY <1>2, <2>1 DEF EpicTitle, Or, IsText, IsFull
  <1>9. IsFiniteSet(keys) /\ IsFiniteSet(ids)
    <2>1. \A i \in 1 .. k - 1 : IsList(result[i].tasks)
      BY <1>4 DEF AreNormalEpics, AreNormal
    <2> QED
      BY <1>4, <2>1, NamesAreFinite
  <1> HIDE DEF title, keys, ids, m, q, epic
  <1>10. IsName(key) /\ key \notin keys
    BY <1>2, <1>8, <1>9, NamesAreNew
  <1>11. IsList(tasks) /\ Len(tasks) = m /\ DOMAIN tasks = 1 .. m
    <2>1. IsList(tasks) /\ Len(tasks) = m
      BY <1>6 DEF AreNormal
    <2> HIDE DEF tasks
    <2> QED
      BY <2>1, ListFacts
  <1> HIDE DEF tasks, key
  <1>12. \A j \in 1 .. m : /\ IsStoredTask(tasks[j])
                           /\ tasks[j].id \notin q.ids \cup IdsOf(tasks, j - 1)
    <2>1. \A j \in 1 .. m : IsTaskAnswer(q.tasks[j])
      BY <1>2, <1>3, <1>7
    <2> QED
      BY <1>3, <1>6, <1>7, <1>8, <1>9, <2>1, TasksAreStored
  <1>13. title # None
    BY <1>8, FullIsSome DEF IsFull
  <1>14. result[k].title = title /\ result[k].key = key
    BY <1>5
  <1>15. IsStoredEpic(result[k])
    BY <1>5, <1>10, <1>11, <1>12, <1>13, <1>14 DEF IsStoredEpic, tasks
  <1> QED
    BY <1>7, <1>10, <1>11, <1>12, <1>14, <1>15 DEF keys, ids, tasks, m, epic

(* Whatever the epics, they are stored under distinct names, none lost.   *)
LEMMA EpicsAreStored ==
    ASSUME NumbersAreWords, NoneApart, NEW epics, IsPlan(epics),
           NEW stored, stored = Normalize(epics, "PLAN", "generated")
    PROVE  /\ IsStored(stored) /\ Len(stored) = Len(epics)
           /\ \A k \in DOMAIN epics : Len(stored[k].tasks) = Len(epics[k].tasks)
  <1> DEFINE n == Len(epics)
             p == [epics |-> epics, mode |-> "generated"]
             Task(k, j) == stored[k].tasks[j]
  <1>1. n \in Nat /\ DOMAIN epics = 1 .. n
    BY ListFacts DEF IsPlan
  <1>2. AreNormalEpics(p, n, stored)
    BY EpicsAreNormal DEF IsPlan
  <1> HIDE DEF p
  <1>3. p = [epics |-> epics, mode |-> "generated"]
    BY DEF p
  <1>4. \A k \in 1 .. n :
           /\ IsStoredEpic(stored[k]) /\ stored[k].key \notin EpicKeysOf(stored, k - 1)
           /\ Len(stored[k].tasks) = Len(epics[k].tasks)
           /\ \A j \in DOMAIN stored[k].tasks :
                stored[k].tasks[j].id \notin AllIdsOf(stored, k - 1)
                                              \cup IdsOf(stored[k].tasks, j - 1)
    BY <1>2, <1>3, EpicIsStored
  <1>5. IsList(stored) /\ Len(stored) = n /\ DOMAIN stored = 1 .. n
    <2>1. IsList(stored) /\ Len(stored) = n
      BY <1>2 DEF AreNormalEpics
    <2> QED
      BY <2>1, ListFacts
  <1> HIDE DEF n
  <1>6. KeysDiffer(stored)
    <2>1. ASSUME NEW k \in 1 .. n, NEW l \in 1 .. n, k < l
          PROVE  stored[k].key # stored[l].key
      <3>1. k \in 1 .. l - 1
        BY <1>1, <2>1
      <3>2. stored[k].key \in EpicKeysOf(stored, l - 1)
        BY <3>1 DEF EpicKeysOf
      <3> QED
        BY <1>4, <3>2
    <2>2. \A k, l \in 1 .. n : k < l \/ l < k \/ k = l
      BY <1>1
    <2> QED
      BY <1>5, <2>1, <2>2 DEF KeysDiffer
  <1>7. IdsDiffer(stored)
    <2>1. \A k \in 1 .. n : LET m == Len(stored[k].tasks) IN
             m \in Nat /\ DOMAIN stored[k].tasks = 1 .. m
      BY <1>4, ListFacts DEF IsStoredEpic
    <2>2. ASSUME NEW k \in 1 .. n, NEW l \in 1 .. n, k < l,
                 NEW j \in DOMAIN stored[k].tasks, NEW i \in DOMAIN stored[l].tasks
          PROVE  Task(k, j).id # Task(l, i).id
      <3>1. k \in 1 .. l - 1
        BY <1>1, <2>2
      <3>2. Task(k, j).id \in IdsOf(stored[k].tasks, Len(stored[k].tasks))
        BY <2>1 DEF IdsOf
      <3>3. Task(k, j).id \in AllIdsOf(stored, l - 1)
        BY <3>1, <3>2 DEF AllIdsOf
      <3> QED
        BY <1>4, <3>3
    <2>3. ASSUME NEW k \in 1 .. n, NEW j \in DOMAIN stored[k].tasks,
                 NEW i \in DOMAIN stored[k].tasks, j < i
          PROVE  Task(k, j).id # Task(k, i).id
      <3>1. j \in 1 .. i - 1
        BY <2>1, <2>3
      <3>2. Task(k, j).id \in IdsOf(stored[k].tasks, i - 1)
        BY <3>1 DEF IdsOf
      <3> QED
        BY <1>4, <3>2
    <2>4. \A k, l \in 1 .. n : k < l \/ l < k \/ k = l
      BY <1>1
    <2>5. \A k \in 1 .. n : \A j, i \in DOMAIN stored[k].tasks : j < i \/ i < j \/ j = i
      BY <2>1
    <2> SUFFICES ASSUME NEW k \in 1 .. n, NEW l \in 1 .. n,
                        NEW j \in DOMAIN stored[k].tasks, NEW i \in DOMAIN stored[l].tasks,
                        Task(k, j).id = Task(l, i).id
                 PROVE  k = l /\ j = i
      BY <1>5 DEF IdsDiffer, SameTask
    <2>6. k = l
      BY <2>2, <2>4
    <2>7. i \in DOMAIN stored[k].tasks /\ Task(k, i).id = Task(k, j).id
      BY <2>6
    <2> QED
      BY <2>3, <2>5, <2>6, <2>7
  <1> QED
    BY <1>1, <1>4, <1>5, <1>6, <1>7 DEF IsStored, n

(* A stored task keeps its name and items when it is read back.           *)
LEMMA TaskIsKept ==
    ASSUME NoneApart, NEW task, IsStoredTask(task), NEW title, NEW number, NEW used,
           task.id \notin used
    PROVE  NormalTask(task, title, number, used, "strict") = task
  <1> DEFINE own == TaskTitle(task, title, number)
             name == NameFor(task.id, own, "TASK", number, used)
             items == [i \in DOMAIN task.items |-> NormalizeItem(task.items[i], "strict")]
  <1>1. own = task.title
    BY DEF TaskTitle, Or, IsStoredTask
  <1>2. name = task.id
    <2> HIDE DEF own
    <2> QED
      BY NamesAreKept DEF IsStoredTask
  <1>3. TaskItems(task) = task.items
    <2>1. task.items # None /\ task.items # <<>>
      BY FullIsSome DEF IsStoredTask, IsFull
    <2> QED
      BY <2>1 DEF TaskItems, Or
  <1>4. items = task.items
    <2>1. \A i \in DOMAIN task.items : NormalizeItem(task.items[i], "strict") = task.items[i]
      BY DEF IsStoredTask, IsStoredItem
    <2>2. items = [i \in DOMAIN task.items |-> task.items[i]]
      BY <2>1
    <2>3. task.items = [i \in DOMAIN task.items |-> task.items[i]]
      <3>1. /\ DOMAIN task.items = 1 .. Len(task.items)
            /\ task.items = [i \in 1 .. Len(task.items) |-> task.items[i]]
        BY ListFacts DEF IsStoredTask, IsFull
      <3> QED
        BY <3>1
    <2> QED
      BY <2>2, <2>3
  <1>5. NormalTask(task, title, number, used, "strict")
          = [title |-> own, id |-> name, files |-> task.files, requires |-> task.requires,
             items |-> items]
    BY <1>3 DEF NormalTask
  <1> HIDE DEF own, name, items
  <1> QED
    BY <1>1, <1>2, <1>4, <1>5 DEF IsStoredTask

-----------------------------------------------------------------------------
(* Decomposition: what is stored stays when it is read back               *)

(* Lists of one length that agree everywhere are one list.                *)
LEMMA SameList ==
    ASSUME NEW a, IsList(a), NEW b, IsList(b), Len(a) = Len(b),
           \A k \in 1 .. Len(a) : a[k] = b[k]
    PROVE  a = b
  <1> DEFINE n == Len(a)
  <1>1. a = [k \in 1 .. n |-> a[k]]
    BY ListFacts
  <1>2. b = [k \in 1 .. n |-> b[k]]
    BY ListFacts
  <1>3. [k \in 1 .. n |-> a[k]] = [k \in 1 .. n |-> b[k]]
    OBVIOUS
  <1> QED
    BY <1>1, <1>2, <1>3

(* Read back in their order, the first task that changed would have lost its *)
(* name to one that did not.                                              *)
LEMMA TasksAreKept ==
    ASSUME NoneApart, NEW q, IsList(q.tasks), NEW n, n = Len(q.tasks),
           q.mode = "strict", \A j \in 1 .. n : IsStoredTask(q.tasks[j]),
           \A j \in 1 .. n : q.tasks[j].id \notin q.ids,
           \A j, i \in 1 .. n : q.tasks[j].id = q.tasks[i].id => j = i,
           NEW result, AreNormal(q, n, result)
    PROVE  result = q.tasks
  <1>1. n \in Nat
    BY ListFacts
  <1> DEFINE T == {j \in 1 .. n : result[j] # q.tasks[j]}
  <1>2. T = {}
    <2> SUFFICES ASSUME T # {}
                 PROVE  FALSE
      OBVIOUS
    <2>1. T \in SUBSET Nat
      BY <1>1
    <2>2. PICK j \in T : \A i \in T : j <= i
      BY <2>1, FirstOf
    <2>3. j \in 1 .. n /\ result[j] # q.tasks[j]
      BY <2>2
    <2>4. \A i \in 1 .. j - 1 : i \in 1 .. n /\ i # j /\ ~(j <= i)
      BY <1>1, <2>3
    <2>5. \A i \in 1 .. j - 1 : result[i] = q.tasks[i]
      BY <2>2, <2>4
    <2>6. IdsOf(result, j - 1) = IdsOf(q.tasks, j - 1)
      BY <2>5 DEF IdsOf
    <2> DEFINE used == q.ids \cup IdsOf(q.tasks, j - 1)
    <2>7. q.tasks[j].id \notin used
      BY <2>3, <2>4 DEF IdsOf
    <2>8. result[j] = NormalTask(q.tasks[j], q.title, j, used, "strict")
      BY <2>3, <2>6 DEF AreNormal
    <2> HIDE DEF used
    <2>9. NormalTask(q.tasks[j], q.title, j, used, "strict") = q.tasks[j]
      BY <2>3, <2>7, TaskIsKept
    <2> QED
      BY <2>3, <2>8, <2>9
  <1>3. \A j \in 1 .. n : result[j] = q.tasks[j]
    BY <1>2
  <1> QED
    BY <1>3, SameList DEF AreNormal

LEMMA EpicIsKept ==
    ASSUME NoneApart, NEW epics, IsStored(epics), NEW n, n = Len(epics),
           NEW p, p = [epics |-> epics, mode |-> "strict"],
           NEW result, AreNormalEpics(p, n, result), NEW k \in 1 .. n,
           \A i \in 1 .. k - 1 : result[i] = epics[i]
    PROVE  result[k] = epics[k]
  <1> DEFINE epic == epics[k]
             title == EpicTitle(epic, k)
             keys == EpicKeysOf(epics, k - 1)
             key == NameFor(epic.key, title, "EPIC", k, keys)
             ids == AllIdsOf(epics, k - 1)
             q == EpicTurn(p, k, ids)
             tasks == result[k].tasks
             m == Len(epic.tasks)
  <1>1. n \in Nat /\ DOMAIN epics = 1 .. n /\ p.epics = epics /\ p.mode = "strict"
    BY ListFacts DEF IsStored
  <1>2. \A i \in 1 .. k - 1 : i \in 1 .. n /\ i # k
    BY <1>1
  <1>3. EpicKeysOf(result, k - 1) = keys /\ AllIdsOf(result, k - 1) = ids
    BY DEF EpicKeysOf, AllIdsOf
  <1>4. IsStoredEpic(epic) /\ IsList(epic.tasks)
    BY <1>1 DEF IsStored, IsStoredEpic
  <1>5. m \in Nat /\ DOMAIN epic.tasks = 1 .. m
    BY <1>4, ListFacts
  <1>6. result[k] = [title |-> title, key |-> key, tasks |-> tasks] /\ AreNormal(q, m, tasks)
    BY <1>1, <1>3 DEF AreNormalEpics, NormalEpic
  <1>7. q.tasks = epic.tasks /\ q.ids = ids /\ q.mode = "strict"
    BY <1>1 DEF EpicTurn
  <1>8. epic.key \notin keys
    BY <1>1, <1>2 DEF IsStored, KeysDiffer, EpicKeysOf
  <1>9. \A j \in 1 .. m : epic.tasks[j].id \notin ids
    <2> SUFFICES ASSUME NEW j \in 1 .. m, NEW i \in 1 .. k - 1,
                        epic.tasks[j].id \in IdsOf(epics[i].tasks, Len(epics[i].tasks))
                 PROVE  FALSE
      BY DEF AllIdsOf
    <2>1. i \in 1 .. n /\ i # k
      BY <1>2
    <2>2. PICK h \in 1 .. Len(epics[i].tasks) : epic.tasks[j].id = epics[i].tasks[h].id
      BY DEF IdsOf
    <2>3. IsList(epics[i].tasks)
      BY <1>1, <2>1 DEF IsStored, IsStoredEpic
    <2>4. h \in DOMAIN epics[i].tasks /\ j \in DOMAIN epics[k].tasks
      BY <1>5, <2>3, ListFacts
    <2>5. SameTask(epics, k, j, i, h)
      BY <1>1, <2>1, <2>4 DEF IsStored, IdsDiffer
    <2> QED
      BY <2>1, <2>2, <2>5 DEF SameTask
  <1>10. \A j, i \in 1 .. m : epic.tasks[j].id = epic.tasks[i].id => j = i
    <2>1. \A j, i \in 1 .. m : SameTask(epics, k, j, k, i)
      BY <1>1, <1>5 DEF IsStored, IdsDiffer
    <2> QED
      BY <2>1 DEF SameTask
  <1>11. \A j \in 1 .. m : IsStoredTask(epic.tasks[j])
    BY <1>4, <1>5 DEF IsStoredEpic
  <1>12. m = Len(epic.tasks)
    OBVIOUS
  <1> HIDE DEF keys, ids, m, q, epic, tasks
  <1>13. tasks = epic.tasks
    <2>1. /\ IsList(q.tasks) /\ m = Len(q.tasks)
          /\ \A j \in 1 .. m : IsStoredTask(q.tasks[j])
      BY <1>4, <1>7, <1>11, <1>12
    <2>2. /\ \A j \in 1 .. m : q.tasks[j].id \notin q.ids
          /\ \A j, i \in 1 .. m : q.tasks[j].id = q.tasks[i].id => j = i
      BY <1>7, <1>9, <1>10
    <2>3. tasks = q.tasks
      BY <1>6, <1>7, <2>1, <2>2, TasksAreKept
    <2> QED
      BY <1>7, <2>3
  <1>14. title = epic.title
    BY <1>4 DEF EpicTitle, Or, IsStoredEpic
  <1>15. key = epic.key
    <2> HIDE DEF title
    <2> QED
      BY <1>4, <1>8, NamesAreKept DEF IsStoredEpic
  <1>16. epic = [title |-> epic.title, key |-> epic.key, tasks |-> epic.tasks]
    BY <1>4 DEF IsStoredEpic
  <1> HIDE DEF title, key
  <1> QED
    BY <1>6, <1>13, <1>14, <1>15, <1>16 DEF epic

(* A proposal that is read back and sent again is stored as it was.       *)
THEOREM StoredIsKept ==
    ASSUME NoneApart, NEW epics, IsStored(epics)
    PROVE  Normalize(epics, "PLAN", "strict") = epics
  <1> DEFINE n == Len(epics)
             p == [epics |-> epics, mode |-> "strict"]
             result == Normalize(epics, "PLAN", "strict")
  <1>1. n \in Nat /\ DOMAIN epics = 1 .. n
    BY ListFacts DEF IsStored
  <1>2. AreNormalEpics(p, n, result)
    BY EpicsAreNormal DEF IsStored, IsStoredEpic
  <1> HIDE DEF p, result
  <1>3. p = [epics |-> epics, mode |-> "strict"]
    BY DEF p
  <1> DEFINE T == {k \in 1 .. n : result[k] # epics[k]}
  <1>4. T = {}
    <2> SUFFICES ASSUME T # {}
                 PROVE  FALSE
      OBVIOUS
    <2>1. T \in SUBSET Nat
      BY <1>1
    <2>2. PICK k \in T : \A i \in T : k <= i
      BY <2>1, FirstOf
    <2>3. k \in 1 .. n /\ result[k] # epics[k]
      BY <2>2
    <2>4. \A i \in 1 .. k - 1 : i \in 1 .. n /\ ~(k <= i)
      BY <1>1, <2>3
    <2>5. \A i \in 1 .. k - 1 : result[i] = epics[i]
      BY <2>2, <2>4
    <2> QED
      BY <1>2, <1>3, <2>3, <2>5, EpicIsKept
  <1>5. \A k \in 1 .. n : result[k] = epics[k]
    BY <1>4
  <1>6. IsList(result) /\ Len(result) = n
    BY <1>2 DEF AreNormalEpics
  <1> HIDE DEF n
  <1>7. result = epics
    BY <1>5, <1>6, SameList DEF n, IsStored
  <1> QED
    BY <1>7 DEF result

-----------------------------------------------------------------------------
(* Decomposition: what the agents answer is a plan                        *)

LastTitled(list, title) == LastOf(list, LAMBDA e : e.title = title)

LEMMA LastTitledIsOne ==
    ASSUME NEW list, IsList(list), NEW title, LastTitled(list, title) # None
    PROVE  \E i \in DOMAIN list : LastTitled(list, title) = list[i]
  <1> DEFINE S == {list[k] : k \in DOMAIN list}
             I == {i \in 1 .. Len(list) : list[i].title = title}
             last == IF I # {} THEN Max(I) ELSE 0
  <1>1. LastTitled(list, title) = IF last = 0 THEN None ELSE list[last]
    BY DEF LastTitled, LastOf, SelectLastInSeq
  <1>2. I # {} => Max(I) \in DOMAIN list
    <2>1. list \in Seq(S)
      BY DEF IsList
    <2> HIDE DEF S
    <2> QED
      BY <2>1, LastOfTitle
  <1> HIDE DEF I
  <1> QED
    BY <1>1, <1>2

LEMMA EpicWithTasks ==
    ASSUME NEW epic, epic = [title |-> epic.title, key |-> epic.key, tasks |-> epic.tasks],
           NEW tasks
    PROVE  [epic EXCEPT !.tasks = tasks]
             = [title |-> epic.title, key |-> epic.key, tasks |-> tasks]
  OBVIOUS

LEMMA TaskWithItems ==
    ASSUME NEW task, IsTaskAnswer(task), NEW items, IsItems(items)
    PROVE  IsTaskAnswer([task EXCEPT !.items = items])
  <1> DEFINE new == [task EXCEPT !.items = items]
  <1>1. new = [title |-> task.title, id |-> task.id, files |-> task.files,
               requires |-> task.requires, items |-> items]
    BY DEF IsTaskAnswer
  <1> HIDE DEF new
  <1>2. IsTaskAnswer(new)
    BY <1>1 DEF IsTaskAnswer
  <1> QED
    BY <1>2 DEF new

(* Epics and tasks stay what an agent may answer.                         *)
IsPlannedEpic(epic) ==
    /\ epic = [title |-> epic.title, key |-> epic.key, tasks |-> epic.tasks]
    /\ IsText(epic.title) /\ IsText(epic.key) /\ IsList(epic.tasks)
    /\ \A j \in DOMAIN epic.tasks : IsTaskAnswer(epic.tasks[j])

LEMMA TasksReplaced ==
    ASSUME NEW epic, IsEpicAnswer(epic), NEW tasks, IsList(tasks),
           \A j \in DOMAIN tasks : IsTaskAnswer(tasks[j])
    PROVE  IsPlannedEpic([epic EXCEPT !.tasks = tasks])
  <1> DEFINE new == [epic EXCEPT !.tasks = tasks]
  <1>1. new = [title |-> epic.title, key |-> epic.key, tasks |-> tasks]
    BY DEF IsEpicAnswer
  <1> HIDE DEF new
  <1>2. IsPlannedEpic(new)
    BY <1>1 DEF IsPlannedEpic, IsEpicAnswer
  <1> QED
    BY <1>2 DEF new

LEMMA WrittenIsPlanned ==
    ASSUME NEW answers, IsAnswers(answers),
           NEW epics, epics = WriteTasks(answers.epics, answers.written)
    PROVE  /\ IsList(epics) /\ Len(epics) = Len(answers.epics)
           /\ \A k \in DOMAIN epics : IsPlannedEpic(epics[k])
  <1> DEFINE given == answers.epics
             Answer(k) == IF given[k].title = None THEN None
                          ELSE LastTitled(answers.written, given[k].title)
             Tasks(k) == IF Answer(k) = None THEN <<>> ELSE Answer(k).tasks
  <1>1. IsList(given) /\ IsList(answers.written)
        /\ \A k \in DOMAIN given : IsEpicAnswer(given[k])
    BY DEF IsAnswers
  <1>2. epics = [k \in DOMAIN given |-> [given[k] EXCEPT !.tasks = Tasks(k)]]
    BY DEF WriteTasks, LastTitled
  <1>3. ASSUME NEW k \in DOMAIN given
        PROVE  IsList(Tasks(k)) /\ \A j \in DOMAIN Tasks(k) : IsTaskAnswer(Tasks(k)[j])
    <2>1. CASE Answer(k) = None
      <3>1. Tasks(k) = <<>> /\ IsList(<<>>) /\ DOMAIN <<>> = {}
        BY <2>1 DEF IsList
      <3> HIDE DEF Tasks
      <3> QED
        BY <3>1
    <2>2. CASE Answer(k) # None
      <3>1. LastTitled(answers.written, given[k].title) # None
            /\ Answer(k) = LastTitled(answers.written, given[k].title)
        BY <2>2
      <3>2. PICK i \in DOMAIN answers.written : Answer(k) = answers.written[i]
        <4> HIDE DEF Answer
        <4> QED
          BY <1>1, <3>1, LastTitledIsOne
      <3>3. Tasks(k) = answers.written[i].tasks
        <4> HIDE DEF Answer
        <4> QED
          BY <2>2, <3>2
      <3> HIDE DEF Tasks
      <3> QED
        BY <3>3 DEF IsAnswers
    <2> QED
      BY <2>1, <2>2
  <1> HIDE DEF Tasks
  <1>4. \A k \in DOMAIN given : IsPlannedEpic([given[k] EXCEPT !.tasks = Tasks(k)])
    BY <1>1, <1>3, TasksReplaced
  <1>5. DOMAIN epics = DOMAIN given /\ \A k \in DOMAIN epics : IsPlannedEpic(epics[k])
    BY <1>2, <1>4
  <1>6. epics = [k \in DOMAIN given |-> epics[k]]
    BY <1>2
  <1>7. IsList(epics) /\ Len(epics) = Len(given)
    <2> HIDE DEF given
    <2> QED
      BY <1>1, <1>6, MappedList
  <1> QED
    BY <1>5, <1>7

(* A designer's plans.                                                    *)
ArePlans(plans) ==
    /\ IsList(plans)
    /\ \A k \in DOMAIN plans :
         /\ IsList(plans[k].tasks)
         /\ \A j \in DOMAIN plans[k].tasks : IsItems(plans[k].tasks[j].items)

LEMMA DesignedTask ==
    ASSUME NEW task, IsTaskAnswer(task), NEW plans,
           plans # None => /\ IsList(plans.tasks)
                           /\ \A j \in DOMAIN plans.tasks : IsItems(plans.tasks[j].items)
    PROVE  IsTaskAnswer(EnsureItem(Planned(task, plans)))
  <1>1. \A t : IsTaskAnswer(t) => IsTaskAnswer(EnsureItem(t))
    <2> SUFFICES ASSUME NEW t, IsTaskAnswer(t)
                 PROVE  IsTaskAnswer(EnsureItem(t))
      OBVIOUS
    <2>1. IsItems(<<FallbackItem>>)
      <3>1. <<FallbackItem>> \in Seq({FallbackItem})
        OBVIOUS
      <3> QED
        BY <3>1, IsListOf DEF IsItems
    <2>2. IsTaskAnswer([t EXCEPT !.items = <<FallbackItem>>])
      BY <2>1, TaskWithItems
    <2> QED
      BY <2>2 DEF EnsureItem
  <1>2. IsTaskAnswer(Planned(task, plans))
    <2> DEFINE plan == IF plans = None \/ task.title = None THEN None
                       ELSE LastTitled(plans.tasks, task.title)
    <2>1. Planned(task, plans) = IF plan = None THEN task
                                 ELSE [task EXCEPT !.items = plan.items]
      BY DEF Planned, LastTitled
    <2>2. plan # None => IsItems(plan.items)
      <3> SUFFICES ASSUME plan # None
                   PROVE  IsItems(plan.items)
        OBVIOUS
      <3>1. /\ plans # None /\ plan = LastTitled(plans.tasks, task.title)
            /\ LastTitled(plans.tasks, task.title) # None
        OBVIOUS
      <3> HIDE DEF plan
      <3>2. PICK i \in DOMAIN plans.tasks : plan = plans.tasks[i]
        BY <3>1, LastTitledIsOne
      <3> QED
        BY <3>1, <3>2
    <2> HIDE DEF plan
    <2>3. plan # None => IsTaskAnswer([task EXCEPT !.items = plan.items])
      BY <2>2, TaskWithItems
    <2> QED
      BY <2>1, <2>3
  <1> QED
    BY <1>1, <1>2

LEMMA DesignIsPlan ==
    ASSUME NEW epics, IsList(epics), \A k \in DOMAIN epics : IsPlannedEpic(epics[k]),
           NEW plans, ArePlans(plans), NEW result, result = Design(epics, plans)
    PROVE  IsPlan(result) /\ Len(result) = Len(epics)
  <1> DEFINE PlansOf(k) == IF epics[k].title = None THEN None
                           ELSE LastTitled(plans, epics[k].title)
             Tasks(k) == [j \in DOMAIN epics[k].tasks |->
                            EnsureItem(Planned(epics[k].tasks[j], PlansOf(k)))]
  <1>1. result = [k \in DOMAIN epics |-> [epics[k] EXCEPT !.tasks = Tasks(k)]]
    BY DEF Design, LastTitled
  <1>2. ASSUME NEW k \in DOMAIN epics
        PROVE  IsList(Tasks(k)) /\ \A j \in DOMAIN Tasks(k) : IsTaskAnswer(Tasks(k)[j])
    <2>1. IsPlannedEpic(epics[k])
      OBVIOUS
    <2>2. PlansOf(k) # None =>
             /\ IsList(PlansOf(k).tasks)
             /\ \A j \in DOMAIN PlansOf(k).tasks : IsItems(PlansOf(k).tasks[j].items)
      <3> SUFFICES ASSUME PlansOf(k) # None
                   PROVE  /\ IsList(PlansOf(k).tasks)
                          /\ \A j \in DOMAIN PlansOf(k).tasks :
                                IsItems(PlansOf(k).tasks[j].items)
        OBVIOUS
      <3>1. LastTitled(plans, epics[k].title) # None
            /\ PlansOf(k) = LastTitled(plans, epics[k].title)
        OBVIOUS
      <3> HIDE DEF PlansOf
      <3>2. PICK i \in DOMAIN plans : PlansOf(k) = plans[i]
        BY <3>1, LastTitledIsOne DEF ArePlans
      <3> QED
        BY <3>2 DEF ArePlans
    <2> HIDE DEF PlansOf
    <2>3. \A j \in DOMAIN epics[k].tasks :
             IsTaskAnswer(EnsureItem(Planned(epics[k].tasks[j], PlansOf(k))))
      BY <2>1, <2>2, DesignedTask DEF IsPlannedEpic
    <2>4. DOMAIN Tasks(k) = DOMAIN epics[k].tasks
          /\ \A j \in DOMAIN Tasks(k) : IsTaskAnswer(Tasks(k)[j])
      BY <2>3
    <2> DEFINE tasks == Tasks(k)
    <2>5. tasks = [j \in DOMAIN epics[k].tasks |-> tasks[j]]
      OBVIOUS
    <2> HIDE DEF tasks
    <2>6. IsList(tasks)
      BY <2>1, <2>5, MappedList DEF IsPlannedEpic
    <2> QED
      BY <2>4, <2>6 DEF tasks
  <1> HIDE DEF Tasks
  <1>3. \A k \in DOMAIN epics : IsPlannedEpic([epics[k] EXCEPT !.tasks = Tasks(k)])
    BY <1>2, TasksReplaced DEF IsPlannedEpic, IsEpicAnswer
  <1>4. DOMAIN result = DOMAIN epics /\ \A k \in DOMAIN result : IsPlannedEpic(result[k])
    BY <1>1, <1>3
  <1>5. result = [k \in DOMAIN epics |-> result[k]]
    BY <1>1
  <1>6. IsList(result) /\ Len(result) = Len(epics)
    BY <1>5, MappedList
  <1> QED
    BY <1>4, <1>6 DEF IsPlan, IsPlannedEpic

LEMMA AnswersHaveFields ==
    ASSUME NEW answers, IsAnswers(answers)
    PROVE  /\ \A k \in DOMAIN answers.epics : HasTasks(answers.epics[k])
           /\ \A k \in DOMAIN answers.written : TasksHaveItems(answers.written[k])
  <1>1. \A epic : IsEpicAnswer(epic) => HasTasks(epic)
    <2> SUFFICES ASSUME NEW epic, IsEpicAnswer(epic)
                 PROVE  HasTasks(epic)
      OBVIOUS
    <2> DEFINE title == epic.title
               key == epic.key
               tasks == epic.tasks
    <2>1. epic = [title |-> title, key |-> key, tasks |-> tasks]
      BY DEF IsEpicAnswer
    <2> HIDE DEF title, key, tasks
    <2> QED
      BY <2>1 DEF HasTasks
  <1>2. \A task : IsTaskAnswer(task) => HasItems(task)
    <2> SUFFICES ASSUME NEW task, IsTaskAnswer(task)
                 PROVE  HasItems(task)
      OBVIOUS
    <2> DEFINE title == task.title
               id == task.id
               files == task.files
               requires == task.requires
               items == task.items
    <2>1. task = [title |-> title, id |-> id, files |-> files, requires |-> requires,
                  items |-> items]
      BY DEF IsTaskAnswer
    <2> HIDE DEF title, id, files, requires, items
    <2> QED
      BY <2>1 DEF HasItems
  <1> QED
    BY <1>1, <1>2 DEF IsAnswers, TasksHaveItems

(* What the orchestrator hands over: the designer's first answer.         *)
LEMMA AnswersArePlanned ==
    ASSUME NoneApart, NEW answers, IsAnswers(answers),
           NEW result, result = Orchestrate(answers.epics, answers.written, answers.designs)
    PROVE  /\ result = Design(WriteTasks(answers.epics, answers.written), answers.designs[1])
           /\ IsPlan(result) /\ Len(result) = Len(answers.epics)
  <1> DEFINE epics == WriteTasks(answers.epics, answers.written)
             first == answers.designs[1]
  <1>1. /\ answers.written \in Seq({answers.written[k] : k \in DOMAIN answers.written})
        /\ answers.designs \in Seq({answers.designs[k] : k \in DOMAIN answers.designs})
        /\ answers.designs # <<>>
    BY DEF IsAnswers, IsList
  <1>2. result = Design(epics, first)
    BY <1>1, AnswersHaveFields, FirstDesignStands
  <1>3. ArePlans(first)
    <2>1. 1 \in DOMAIN answers.designs
      BY <1>1
    <2> QED
      BY <2>1 DEF IsAnswers, ArePlans
  <1> HIDE DEF epics, first
  <1>4. /\ IsList(epics) /\ Len(epics) = Len(answers.epics)
        /\ \A k \in DOMAIN epics : IsPlannedEpic(epics[k])
    BY WrittenIsPlanned DEF epics
  <1>5. IsPlan(result) /\ Len(result) = Len(epics)
    BY <1>2, <1>3, <1>4, DesignIsPlan
  <1> QED
    BY <1>2, <1>4, <1>5 DEF epics, first

LEMMA NamesBegin ==
    ASSUME NEW name, IsName(name)
    PROVE  Head(name) = "PLAN"
  <1>1. name \in Seq({name[k] : k \in DOMAIN name})
    BY DEF IsName, IsList
  <1>2. Len(name) > 1 /\ name[1] = "PLAN"
    BY DEF IsName
  <1>3. name # <<>>
    BY <1>2
  <1> QED
    BY <1>1, <1>2, <1>3

LEMMA StoredTaskFacts ==
    ASSUME NoneApart, NEW task, IsStoredTask(task)
    PROVE  /\ task.items # <<>> /\ task.items # None /\ task.title # None
           /\ Rated(task) /\ Head(task.id) = "PLAN"
           /\ \A i \in DOMAIN task.items : task.items[i].kind \in Kinds
  <1>1. task.items # <<>> /\ task.items # None
    BY FullIsSome DEF IsStoredTask, IsFull
  <1>2. Rated(task)
    BY DEF Rated, IsStoredTask, IsFull, IsList
  <1>3. Head(task.id) = "PLAN"
    BY NamesBegin DEF IsStoredTask
  <1> QED
    BY <1>1, <1>2, <1>3 DEF IsStoredTask, IsStoredItem

LEMMA StoredNames ==
    ASSUME NoneApart, NEW stored, IsStored(stored)
    PROVE  /\ Named([k \in DOMAIN stored |-> stored[k].key])
           /\ Named([at \in Places(stored) |-> TaskAt(stored, at).id])
  <1>1. \A k \in DOMAIN stored : IsStoredEpic(stored[k]) /\ Head(stored[k].key) = "PLAN"
    BY NamesBegin DEF IsStored, IsStoredEpic
  <1>2. Named([k \in DOMAIN stored |-> stored[k].key])
    <2> DEFINE keys == [k \in DOMAIN stored |-> stored[k].key]
    <2>1. IsInjective(keys)
      BY DEF IsStored, KeysDiffer, IsInjective
    <2>2. \A k \in DOMAIN keys : Head(keys[k]) = "PLAN"
      BY <1>1
    <2> HIDE DEF keys
    <2>3. Named(keys)
      BY <2>1, <2>2 DEF Named
    <2> QED
      BY <2>3 DEF keys
  <1>3. Named([at \in Places(stored) |-> TaskAt(stored, at).id])
    <2> DEFINE P == Places(stored)
               ids == [at \in P |-> TaskAt(stored, at).id]
    <2>1. \A at \in P : /\ at = <<at[1], at[2]>> /\ at[1] \in DOMAIN stored
                        /\ at[2] \in DOMAIN stored[at[1]].tasks
      <3> SUFFICES ASSUME NEW k \in DOMAIN stored, NEW j \in DOMAIN stored[k].tasks
                   PROVE  LET at == <<k, j>> IN
                          /\ at = <<at[1], at[2]>> /\ at[1] \in DOMAIN stored
                          /\ at[2] \in DOMAIN stored[at[1]].tasks
        BY DEF Places
      <3> QED
        OBVIOUS
    <2> HIDE DEF P
    <2>2. ASSUME NEW at \in P, NEW other \in P, ids[at] = ids[other]
          PROVE  at = other
      <3>1. stored[at[1]].tasks[at[2]].id = stored[other[1]].tasks[other[2]].id
        BY <2>2 DEF TaskAt
      <3>2. SameTask(stored, at[1], at[2], other[1], other[2])
        BY <2>1 DEF IsStored, IdsDiffer
      <3>3. at[1] = other[1] /\ at[2] = other[2]
        BY <3>1, <3>2 DEF SameTask
      <3> QED
        BY <2>1, <3>3
    <2>3. \A at \in P : Head(ids[at]) = "PLAN"
      <3>1. \A at \in P : IsStoredTask(TaskAt(stored, at))
        BY <1>1, <2>1 DEF TaskAt, IsStoredEpic
      <3>2. \A at \in P : Head(TaskAt(stored, at).id) = "PLAN"
        BY <3>1, StoredTaskFacts
      <3> QED
        BY <3>2
    <2>4. DOMAIN ids = P
      OBVIOUS
    <2> HIDE DEF ids
    <2>5. Named(ids)
      BY <2>2, <2>3, <2>4 DEF Named, IsInjective
    <2> QED
      BY <2>5 DEF ids, P
  <1> QED
    BY <1>2, <1>3

(* Whatever the agents answer, the proposal that is stored is complete, and *)
(* it is stored again as it was (packages/planner/src/service.ts,          *)
(* normalizePlannerProposal).                                             *)
THEOREM ProposalsAreComplete ==
    ASSUME NoneApart, NumbersAreWords, NEW answers, IsAnswers(answers)
    PROVE  ProposalIsComplete(answers)
  <1> DEFINE result == Orchestrate(answers.epics, answers.written, answers.designs)
             stored == Normalize(result, "PLAN", "generated")
             places == Places(stored)
             tasks  == [place \in places |-> TaskAt(stored, place)]
  <1>1. /\ result = Design(WriteTasks(answers.epics, answers.written), answers.designs[1])
        /\ IsPlan(result) /\ Len(result) = Len(answers.epics)
    BY AnswersArePlanned
  <1> HIDE DEF result
  <1>2. IsStored(stored) /\ Len(stored) = Len(result)
    BY <1>1, EpicsAreStored
  <1> HIDE DEF stored
  <1>3. \A k \in DOMAIN stored : \A j \in DOMAIN stored[k].tasks :
           IsStoredTask(stored[k].tasks[j])
    BY <1>2 DEF IsStored, IsStoredEpic
  <1>4. \A at \in places : IsStoredTask(tasks[at])
    BY <1>3 DEF Places, TaskAt
  <1>5. \A at \in places : tasks[at].items # <<>> /\ Rated(tasks[at])
    <2> HIDE DEF places, tasks
    <2> QED
      BY <1>4, StoredTaskFacts
  <1>6. \A at, other \in places : AtMost(tasks[at], tasks[other]) =>
           Complexity(tasks[at]) <= Complexity(tasks[other])
    <2> HIDE DEF places, tasks
    <2> QED
      BY <1>5, HarderIsNotEasier
  <1>7. /\ Named([k \in DOMAIN stored |-> stored[k].key])
        /\ Named([at \in places |-> tasks[at].id])
    <2>1. [at \in places |-> tasks[at].id] = [at \in places |-> TaskAt(stored, at).id]
      <3> HIDE DEF places
      <3> QED
        OBVIOUS
    <2>2. Named([at \in places |-> TaskAt(stored, at).id])
      BY <1>2, StoredNames
    <2> HIDE DEF places, tasks
    <2> QED
      BY <1>2, <2>1, <2>2, StoredNames
  <1>8. Normalize(stored, "PLAN", "strict") = stored
    BY <1>2, StoredIsKept
  <1>9. StrictAccepts(stored) <=> \A k \in DOMAIN stored : stored[k].tasks # <<>>
    <2>1. \A k \in DOMAIN stored : stored[k].title # None
      BY <1>2 DEF IsStored, IsStoredEpic
    <2>2. \A k \in DOMAIN stored : \A j \in DOMAIN stored[k].tasks :
             LET task == stored[k].tasks[j] IN
             /\ task.title # None
             /\ Or(task.items, <<>>) # <<>>
             /\ \A i \in DOMAIN task.items : task.items[i].kind \in Kinds
      BY <1>3, StoredTaskFacts DEF Or
    <2> QED
      BY <2>1, <2>2 DEF StrictAccepts
  <1> HIDE DEF places, tasks
  <1> QED
    BY <1>1, <1>2, <1>5, <1>6, <1>7, <1>8, <1>9 DEF ProposalIsComplete, result, stored,
       places, tasks

-----------------------------------------------------------------------------
(* The properties of Algorithms, for every proper input.  The constants that *)
(* stand for nothing are no records, tables or numbers.                   *)
SetupNamesApart ==
    /\ NoRowApart /\ NotGiven \notin Nat
    /\ \A r : IsRow(r) => r # Absent
    /\ \A f : IsTable(f) => f # NoRow

(* The maps, proposals and validations that plans are made of are right.  *)
THEOREM PlansHold ==
    ASSUME NoneApart, NumbersAreWords, PlanIsProper
    PROVE  PlansAreSound
  <1>1. ASSUME input.of = "validations"
        PROVE  EveryItemIsValidated(input.given, input.items)
    BY <1>1, ItemsAreValidated DEF PlanIsProper
  <1>2. ASSUME input.of = "answers"
        PROVE  ProposalIsComplete(input.answers)
    BY <1>2, ProposalsAreComplete DEF PlanIsProper
  <1>3. ASSUME input.of = "project"
        PROVE  MapIsRight(input.tasks)
    BY <1>3, MapsAreRight DEF PlanIsProper
  <1> QED
    BY <1>1, <1>2, <1>3 DEF PlansAreSound

(* After any list of requests, a setup settles an MCP server, and the model *)
(* registry resolves soundly whatever is asked of it; an executor never   *)
(* weakens; a stored key is found.                                        *)
THEOREM SetupsHold ==
    ASSUME SetupNamesApart, SetupIsProper
    PROVE  SetupsAreSound
  <1>1. ASSUME input.of = "requests"
        PROVE  SetupSettles(input.requests, input.definition, input.builtIn)
    <2>1. DOMAIN input.requests = 1 .. Len(input.requests) /\ Len(input.requests) \in Nat
      BY <1>1 DEF SetupIsProper, IsList
    <2> QED
      BY <1>1, <2>1, HistoriesSettle DEF SetupIsProper, SetupNamesApart
  <1>2. ASSUME input.of = "registry"
        PROVE  ResolutionIsSound(input.requests, input.env, input.resolutions)
    <2>1. DOMAIN input.requests = 1 .. Len(input.requests) /\ Len(input.requests) \in Nat
      BY <1>2 DEF SetupIsProper, IsList
    <2> QED
      BY <1>2, <2>1, HistoriesResolveSoundly DEF SetupIsProper, SetupNamesApart
  <1>3. ASSUME input.of = "attempts"
        PROVE  NeverWeakens(input.slot, input.complexity, input.attempt, input.later)
    BY <1>3, ExecutorNeverWeakens DEF SetupIsProper, SetupNamesApart
  <1>4. ASSUME input.of = "keys"
        PROVE  StoredKeyIsFound(input.envKey, input.file, input.key)
    BY <1>4, StoredKeysAreFound DEF SetupIsProper, SetupNamesApart
  <1> QED
    BY <1>1, <1>2, <1>3, <1>4 DEF SetupsAreSound

(* A benchmark run passes only if it earned it, the gate is the score, a  *)
(* blocked run is not promoted; evidence decides an evaluation, a better  *)
(* answer never makes its decision worse, and passing everywhere proceeds. *)
THEOREM ScoresHold ==
    ASSUME ScoreIsProper
    PROVE  ScoresAreSound
  <1>1. ASSUME input.of \in {"calls", "testRuns"}
        PROVE  /\ PassIsEarned(input.scenario, input.calls, input.runs)
               /\ GateIsTheScore(input.scenario, input.calls)
    BY <1>1, PassesAreEarned, GatePassesFreeCalls DEF ScoreIsProper, IsCalls
  <1>2. ASSUME input.of = "regression"
        PROVE  BlockedIsNotPromoted(input.scenario, input.base, input.cand, input.policy)
    BY <1>2, BlockedNeverPromoted DEF ScoreIsProper
  <1>3. ASSUME input.of = "evaluation"
        PROVE  /\ EvidenceDecides(input.context, input.answers)
               /\ PassingProceeds(input.context, input.answers)
               /\ \A better \in input.raised :
                     BetterNeverWorse(input.context, input.answers, better)
    BY <1>3, JudgesCannotOverrule, ThresholdsSuffice, JudgesAreMonotone DEF ScoreIsProper
  <1> QED
    BY <1>1, <1>2, <1>3 DEF ScoresAreSound
=============================================================================
