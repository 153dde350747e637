---------------------------- MODULE RetryLadder ----------------------------
(***************************************************************************)
(* The attempts of one task execution: retryExecution                     *)
(* (packages/agent/src/execution.ts), which climbs the ladder of           *)
(* selectExecutorSlotForAttempt (packages/policy-engine/src/index.ts), and *)
(* the evaluation that closes an attempt (packages/evaluator/src/          *)
(* service.ts).  A retry reads the latest ModelDecision, awaits the model  *)
(* slot and then writes; an evaluation reads its inputs, awaits the judges *)
(* and then writes.  Requests interleave at those awaits.                  *)
(***************************************************************************)
EXTENDS Integers, FiniteSets

CONSTANTS
    Decisions,    \* ids of the ModelDecision rows there can be (bound)
    Handlers,     \* requests the API serves at the same time
    MaxTestRuns   \* verification runs there can be (bound)

ASSUME LadderAssumption ==
    /\ IsFiniteSet(Decisions)
    /\ MaxTestRuns \in Nat

VARIABLES
    serial,       \* requests are served one at a time
    decision,     \* ModelDecision rows: a set of [id, attempt, slot, state]
    retryCount,   \* TaskExecution.retryCount
    failed,       \* the execution and its task are failed
    testRuns,     \* verification runs recorded so far
    evaluated,    \* inputs that have a completed EvalRun
    job           \* what each handler is doing

vars == <<serial, decision, retryCount, failed, testRuns, evaluated, job>>

Slots == {"executor_default", "executor_strong"}
States == {"selected", "escalated", "stopped"}
Rows == [id : Decisions, attempt : Nat \ {0}, slot : Slots, state : States]

(* What hashEvalInputs tells apart here.  Its other inputs (agent steps,    *)
(* tool calls, the plan's items) change like the test runs: by requests     *)
(* that come whenever they like.                                            *)
Inputs == [retryCount : Nat, testRuns : Nat]

Idle == [at |-> "idle", attempt |-> 1, slot |-> "executor_strong",
         input |-> [retryCount |-> 0, testRuns |-> 0]]

TypeOK ==
    /\ serial \in BOOLEAN
    /\ decision \subseteq Rows
    /\ retryCount \in Nat
    /\ failed \in BOOLEAN
    /\ testRuns \in Nat
    /\ evaluated \subseteq Inputs
    /\ job \in [Handlers -> [at : {"idle", "resolve", "judge"},
                             attempt : Nat \ {0}, slot : Slots, input : Inputs]]

-----------------------------------------------------------------------------

(* Faulty: the strong attempt is never reached.                             *)
ExhaustedEarly(attempt) == attempt > 2

(* selectExecutorSlotForAttempt                                             *)
Exhausted(attempt) == attempt > 3
SlotFor(attempt) == IF attempt = 3 THEN "executor_strong" ELSE "executor_default"

(* retryExecution: the third attempt is recorded as escalated.              *)
StateFor(attempt) == IF SlotFor(attempt) = "executor_strong"
                     THEN "escalated" ELSE "selected"

Row(id, attempt, slot, state) ==
    [id |-> id, attempt |-> attempt, slot |-> slot, state |-> state]

FreshIds == Decisions \ {d.id : d \in decision}

(* startTaskExecution seeds attempt 1; the headless route seeds nothing.    *)
Init ==
    /\ serial \in BOOLEAN
    /\ \/ decision = {}
       \/ \E id \in Decisions :
            decision = {Row(id, 1, "executor_default", "selected")}
    /\ retryCount = 0
    /\ failed = FALSE
    /\ testRuns = 0
    /\ evaluated = {}
    /\ job = [h \in Handlers |-> Idle]

-----------------------------------------------------------------------------
(* getLatestModelDecision orders by attempt; rows of equal attempt come in  *)
(* any order.                                                               *)
Latest == {d \in decision : \A other \in decision : other.attempt <= d.attempt}

(* The model's bound on decisions: one is left for every retry under way.   *)
DecisionLeft ==
    Cardinality({h \in Handlers : job[h].at = "resolve"}) < Cardinality(FreshIds)

Resolving(attempt, slot) ==
    [Idle EXCEPT !.at = "resolve", !.attempt = attempt, !.slot = slot]

(* A handler takes a request.                                               *)
Free(h) ==
    /\ job[h].at = "idle"
    /\ serial => \A g \in Handlers : job[g].at = "idle"

(* retryExecution up to its first write.                                    *)
ReadLatest(h) ==
    /\ Free(h) /\ DecisionLeft
    /\ \/ /\ decision = {}
          /\ job' = [job EXCEPT ![h] = Resolving(2, "executor_strong")]
       \/ \E d \in Latest :
            /\ d.state # "selected"
            /\ job' = [job EXCEPT ![h] = Resolving(d.attempt + 1, d.slot)]
    /\ UNCHANGED <<serial, decision, retryCount, failed, testRuns, evaluated>>

(* Faulty: the execution's counter is not moved.                            *)
AllocateUncounted(h, id) ==
    LET n == job[h].attempt IN
    /\ job[h].at = "resolve" /\ ~Exhausted(n)
    /\ decision' = decision \cup {Row(id, n, SlotFor(n), StateFor(n))}
    /\ job' = [job EXCEPT ![h] = Idle]
    /\ UNCHANGED <<serial, retryCount, failed, testRuns, evaluated>>

(* The slot resolved: the attempt is recorded.                              *)
AllocateAttempt(h, id) ==
    LET n == job[h].attempt IN
    /\ job[h].at = "resolve" /\ ~Exhausted(n)
    /\ decision' = decision \cup {Row(id, n, SlotFor(n), StateFor(n))}
    /\ retryCount' = n - 1
    /\ job' = [job EXCEPT ![h] = Idle]
    /\ UNCHANGED <<serial, failed, testRuns, evaluated>>

(* MODEL_SLOT_UNAVAILABLE                                                   *)
SlotUnavailable(h) ==
    /\ job[h].at = "resolve" /\ ~Exhausted(job[h].attempt)
    /\ job' = [job EXCEPT ![h] = Idle]
    /\ UNCHANGED <<serial, decision, retryCount, failed, testRuns, evaluated>>

(* The budget is used up: a stopped decision on the last slot, and the      *)
(* execution and the task fail.                                             *)
ExhaustAttempts(h, id) ==
    LET n == job[h].attempt IN
    /\ job[h].at = "resolve" /\ Exhausted(n)
    /\ decision' = decision \cup {Row(id, n, job[h].slot, "stopped")}
    /\ retryCount' = n - 1
    /\ failed' = TRUE
    /\ job' = [job EXCEPT ![h] = Idle]
    /\ UNCHANGED <<serial, testRuns, evaluated>>

-----------------------------------------------------------------------------
CurrentInput == [retryCount |-> retryCount, testRuns |-> testRuns]

(* runEvaluation up to the judges.                                          *)
ReadInputs(h) ==
    /\ Free(h)
    /\ CurrentInput \notin evaluated
    /\ job' = [job EXCEPT ![h] =
                  [Idle EXCEPT !.at = "judge", !.input = CurrentInput]]
    /\ UNCHANGED <<serial, decision, retryCount, failed, testRuns, evaluated>>

(* Faulty: every decision is stopped, the escalated ones too.               *)
StopAll == {[d EXCEPT !.state = "stopped"] : d \in decision}

(* Faulty: a state no other code knows.                                     *)
CloseSelected ==
    {IF d.state = "selected" THEN [d EXCEPT !.state = "closed"] ELSE d :
        d \in decision}

(* markLatestModelDecisionStopped                                           *)
StopSelected ==
    {IF d.state = "selected" THEN [d EXCEPT !.state = "stopped"] ELSE d :
        d \in decision}

(* fail, retry and escalate close the attempt; proceed and warn do not.     *)
FinishEvaluation(h, passes) ==
    /\ job[h].at = "judge"
    /\ evaluated' = evaluated \cup {job[h].input}
    /\ decision' = IF passes THEN decision ELSE StopSelected
    /\ job' = [job EXCEPT ![h] = Idle]
    /\ UNCHANGED <<serial, retryCount, failed, testRuns>>

(* A judge throws, or the event that follows the verdict does: the EvalRun  *)
(* is failed, and what the verdict did to the decisions stays.              *)
FailEvaluation(h) ==
    /\ job[h].at = "judge"
    /\ decision' \in {decision, StopSelected}
    /\ job' = [job EXCEPT ![h] = Idle]
    /\ UNCHANGED <<serial, retryCount, failed, testRuns, evaluated>>

(* A retry while the latest attempt is selected, and an evaluation of       *)
(* inputs that were judged before, answer without any effect.               *)
AnswerFromRecord(h) ==
    /\ job[h].at = "idle"
    /\ (\E d \in Latest : d.state = "selected") \/ CurrentInput \in evaluated
    /\ UNCHANGED vars

(* A verification run adds test runs, which are inputs of the evaluation.   *)
RecordTestRuns ==
    /\ testRuns < MaxTestRuns
    /\ testRuns' = testRuns + 1
    /\ UNCHANGED <<serial, decision, retryCount, failed, evaluated, job>>

Next ==
    \/ \E h \in Handlers :
        \/ ReadLatest(h)
        \/ \E id \in FreshIds : AllocateAttempt(h, id) \/ ExhaustAttempts(h, id)
        \/ SlotUnavailable(h)
        \/ ReadInputs(h)
        \/ \E passes \in BOOLEAN : FinishEvaluation(h, passes)
        \/ FailEvaluation(h)
        \/ AnswerFromRecord(h)
    \/ RecordTestRuns

Spec == Init /\ [][Next]_vars

-----------------------------------------------------------------------------
(* Properties                                                               *)

(* The execution is given up only after an attempt on the strong slot, in   *)
(* whatever order retries and evaluations interleave.                       *)
EscalatesBeforeFailing ==
    failed => \E d \in decision : d.attempt = 3 /\ d.slot = "executor_strong"

(* "The runtime maintains the invariant that at most one ModelDecision per  *)
(* execution is in selected state at a time."                               *)
(* (packages/db/src/repositories/executionRepository.ts:287)                *)
AtMostOneSelected ==
    \A c, d \in decision : c.state = "selected" /\ d.state = "selected" => c = d

(* The retry counter and the decisions tell the same story, and no attempt  *)
(* is handed out twice.                                                     *)
LadderInStep ==
    /\ \A d \in decision : d.attempt <= retryCount + 1
    /\ \A c, d \in decision : c.attempt = d.attempt => c = d

(* Both hold with requests served one at a time: a retry that follows a     *)
(* verdict, a failed slot or a restart never leaves two attempts open.      *)
SerialLadderInStep == serial => LadderInStep /\ AtMostOneSelected

(* Once the execution has failed no attempt is handed out or reopened, and  *)
(* a verdict closes the attempt it judged and no later one, with requests   *)
(* served one at a time.                                                    *)
SerialAttemptsCloseInOrder ==
    [][serial =>
        /\ failed => \A d \in decision' \ decision : d.state = "stopped"
        /\ \A h \in Handlers : job[h].at = "judge" /\ job'[h].at = "idle" =>
             \A d \in decision \ decision' :
                 d.attempt = job[h].input.retryCount + 1]_vars

(* Idempotent within an attempt window: an execution is given up only once  *)
(* its strong attempt was evaluated.  TLC refutes this: see README.         *)
(* (packages/agent/src/execution.ts:139-144, apps/api/src/app.ts:1333)      *)
StrongAttemptEvaluated ==
    failed => \E input \in evaluated : input.retryCount = 2
=============================================================================
