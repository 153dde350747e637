---------------------------- MODULE RetryProofs ----------------------------
(***************************************************************************)
(* Proofs about RetryLadder, for any number of decisions, requests served  *)
(* at the same time and verification runs.                                 *)
(***************************************************************************)
EXTENDS RetryLadder, TLAPS

(* A decision on the strong slot was recorded.                              *)
StrongTried == \E d \in decision : d.attempt = 3 /\ d.slot = "executor_strong"

(* Past the third attempt, the strong slot has been tried: this holds of    *)
(* the rows, of the handlers that still await a slot, and of the verdict.   *)
Climbed ==
    /\ (\E d \in decision : d.attempt >= 3) => StrongTried
    /\ \A h \in Handlers :
          job[h].at = "resolve" /\ job[h].attempt > 3 => StrongTried
    /\ failed => StrongTried

(* Stopping decisions keeps their attempts and slots.                       *)
LEMMA StopKeeps ==
    ASSUME decision \subseteq Rows
    PROVE  /\ StopSelected \subseteq Rows
           /\ \A d \in decision : \E c \in StopSelected :
                 c.attempt = d.attempt /\ c.slot = d.slot
           /\ \A c \in StopSelected : \E d \in decision :
                 c.attempt = d.attempt /\ c.slot = d.slot
  <1> DEFINE Stopped(d) ==
                IF d.state = "selected" THEN [d EXCEPT !.state = "stopped"] ELSE d
  <1>1. ASSUME NEW d \in decision
        PROVE  /\ Stopped(d) \in Rows
               /\ Stopped(d).attempt = d.attempt /\ Stopped(d).slot = d.slot
    BY DEF Rows, States
  <1>2. StopSelected = {Stopped(d) : d \in decision}
    BY DEF StopSelected
  <1> HIDE DEF Stopped
  <1> QED
    BY <1>1, <1>2

(* The job of a handler at rest.                                            *)
LEMMA IdleTyped ==
    /\ Idle \in [at : {"idle", "resolve", "judge"}, attempt : Nat \ {0},
                 slot : Slots, input : Inputs]
    /\ Idle.at = "idle"
  BY DEF Idle, Slots, Inputs

(* The row of an attempt.                                                   *)
LEMMA RowTyped ==
    ASSUME NEW id \in Decisions, NEW n \in Nat \ {0}, NEW slot \in Slots,
           NEW state \in States
    PROVE  /\ Row(id, n, slot, state) \in Rows
           /\ Row(id, n, slot, state).attempt = n
           /\ Row(id, n, slot, state).slot = slot
  BY DEF Row, Rows

(* What a handler takes from the latest decision.                           *)
LEMMA ReadLatestJob ==
    ASSUME TypeOK, NEW h \in Handlers, ReadLatest(h)
    PROVE  /\ job' \in [Handlers -> [at : {"idle", "resolve", "judge"},
                                     attempt : Nat \ {0}, slot : Slots,
                                     input : Inputs]]
           /\ \A g \in Handlers \ {h} : job'[g] = job[g]
           /\ \/ job'[h].attempt = 2
              \/ \E d \in decision : job'[h].attempt = d.attempt + 1
  <1>1. ASSUME NEW n \in Nat \ {0}, NEW slot \in Slots
        PROVE  /\ Resolving(n, slot) \in [at : {"idle", "resolve", "judge"},
                     attempt : Nat \ {0}, slot : Slots, input : Inputs]
               /\ Resolving(n, slot).attempt = n
    BY IdleTyped DEF Resolving
  <1>2. PICK n \in Nat \ {0}, slot \in Slots :
            /\ job' = [job EXCEPT ![h] = Resolving(n, slot)]
            /\ n = 2 \/ \E d \in decision : n = d.attempt + 1
    <2>1. \A d \in Latest :
              d \in decision /\ d.attempt + 1 \in Nat \ {0} /\ d.slot \in Slots
      BY DEF Latest, TypeOK, Rows
    <2>2. 2 \in Nat \ {0} /\ "executor_strong" \in Slots
      BY DEF Slots
    <2> QED
      BY <2>1, <2>2 DEF ReadLatest
  <1> QED
    BY <1>1, <1>2 DEF TypeOK

(* A step keeps the types.                                                  *)
LEMMA StepTyped == TypeOK /\ [Next]_vars => TypeOK'
  <1> SUFFICES ASSUME TypeOK, [Next]_vars PROVE TypeOK'
    OBVIOUS
  <1> USE DEF TypeOK
  <1>1. ASSUME NEW h \in Handlers, ReadLatest(h) PROVE TypeOK'
    BY <1>1, ReadLatestJob DEF ReadLatest
  <1>2. ASSUME NEW h \in Handlers, NEW id \in FreshIds,
               AllocateAttempt(h, id) \/ ExhaustAttempts(h, id)
        PROVE  TypeOK'
    <2> DEFINE n == job[h].attempt
    <2>1. id \in Decisions /\ n \in Nat \ {0} /\ job[h].slot \in Slots
      BY DEF FreshIds
    <2>2. SlotFor(n) \in Slots /\ StateFor(n) \in States /\ "stopped" \in States
      BY DEF SlotFor, StateFor, Slots, States
    <2>3. \E slot \in Slots, state \in States :
              decision' = decision \cup {Row(id, n, slot, state)}
      BY <1>2, <2>1, <2>2 DEF AllocateAttempt, ExhaustAttempts
    <2>4. decision' \subseteq Rows
      BY <2>1, <2>3, RowTyped
    <2>5. /\ retryCount' = n - 1 /\ UNCHANGED <<serial, testRuns, evaluated>>
          /\ job' = [job EXCEPT ![h] = Idle] /\ failed' \in BOOLEAN
      BY <1>2 DEF AllocateAttempt, ExhaustAttempts
    <2> HIDE DEF n
    <2> QED
      BY <2>1, <2>4, <2>5, IdleTyped
  <1>3. ASSUME NEW h \in Handlers, SlotUnavailable(h) PROVE TypeOK'
    BY <1>3, IdleTyped DEF SlotUnavailable
  <1>4. ASSUME NEW h \in Handlers, ReadInputs(h) PROVE TypeOK'
    <2> DEFINE r == [Idle EXCEPT !.at = "judge", !.input = CurrentInput]
    <2>1. CurrentInput \in Inputs
      BY DEF CurrentInput, Inputs
    <2>2. r \in [at : {"idle", "resolve", "judge"}, attempt : Nat \ {0},
                 slot : Slots, input : Inputs]
      BY <2>1, IdleTyped
    <2>3. /\ job' = [job EXCEPT ![h] = r]
          /\ UNCHANGED <<serial, decision, retryCount, failed, testRuns, evaluated>>
      BY <1>4 DEF ReadInputs
    <2> HIDE DEF r
    <2> QED
      BY <2>2, <2>3
  <1>5. ASSUME NEW h \in Handlers, NEW passes \in BOOLEAN,
               FinishEvaluation(h, passes) \/ FailEvaluation(h)
        PROVE  TypeOK'
    <2>1. decision' = decision \/ decision' = StopSelected
      BY <1>5 DEF FinishEvaluation, FailEvaluation
    <2>2. decision' \subseteq Rows
      BY <2>1, StopKeeps
    <2>3. job[h].input \in Inputs
      OBVIOUS
    <2> QED
      BY <1>5, <2>2, <2>3, IdleTyped DEF FinishEvaluation, FailEvaluation
  <1>6. CASE RecordTestRuns
    BY <1>6 DEF RecordTestRuns
  <1>7. CASE UNCHANGED vars \/ \E h \in Handlers : AnswerFromRecord(h)
    BY <1>7 DEF AnswerFromRecord, vars
  <1> QED
    BY <1>1, <1>2, <1>3, <1>4, <1>5, <1>6, <1>7 DEF Next

(* The decisions, counters and jobs keep their types, in whatever order     *)
(* retries and evaluations interleave.                                      *)
THEOREM TypeCorrect == Spec => []TypeOK
  <1>1. Init => TypeOK
    <2> SUFFICES ASSUME Init PROVE TypeOK
      OBVIOUS
    <2>1. decision \subseteq Rows
      BY RowTyped DEF Init, Slots, States
    <2> QED
      BY <2>1, IdleTyped DEF Init, TypeOK
  <1> QED
    BY <1>1, StepTyped, PTL DEF Spec

(* A step keeps what has been climbed.                                      *)
LEMMA StepClimbed == TypeOK /\ Climbed /\ [Next]_vars => Climbed'
  <1> SUFFICES ASSUME TypeOK, Climbed, [Next]_vars PROVE Climbed'
    OBVIOUS
  <1> USE DEF Climbed, StrongTried
  <1>1. ASSUME NEW h \in Handlers, ReadLatest(h) PROVE Climbed'
    <2>1. UNCHANGED <<decision, failed>>
      BY <1>1 DEF ReadLatest
    <2>2. /\ \A g \in Handlers \ {h} : job'[g] = job[g]
          /\ \/ job'[h].attempt = 2
             \/ \E d \in decision : job'[h].attempt = d.attempt + 1
      BY <1>1, ReadLatestJob
    <2>3. \A d \in decision : d.attempt \in Nat
      BY DEF TypeOK, Rows
    <2>4. job'[h].attempt > 3 => StrongTried
      BY <2>2, <2>3
    <2> QED
      BY <2>1, <2>2, <2>4
  <1>2. ASSUME NEW h \in Handlers, NEW id \in FreshIds, AllocateAttempt(h, id)
        PROVE  Climbed'
    <2> DEFINE n == job[h].attempt
               row == Row(id, n, SlotFor(n), StateFor(n))
    <2>1. id \in Decisions /\ n \in Nat \ {0} /\ n <= 3
      BY <1>2 DEF FreshIds, TypeOK, AllocateAttempt, Exhausted
    <2>2. SlotFor(n) \in Slots /\ StateFor(n) \in States
      BY DEF SlotFor, StateFor, Slots, States
    <2>3. row.attempt = n /\ row.slot = SlotFor(n)
      BY <2>1, <2>2, RowTyped
    <2>4. n >= 3 => row.attempt = 3 /\ row.slot = "executor_strong"
      BY <2>1, <2>3 DEF SlotFor
    <2>5. /\ decision' = decision \cup {row} /\ failed' = failed
          /\ \A g \in Handlers : job'[g] = job[g] \/ job'[g].at = "idle"
      BY <1>2, IdleTyped DEF AllocateAttempt, TypeOK
    <2> HIDE DEF n, row
    <2> QED
      BY <2>1, <2>3, <2>4, <2>5
  <1>3. ASSUME NEW h \in Handlers, NEW id \in FreshIds, ExhaustAttempts(h, id)
        PROVE  Climbed'
    <2>1. StrongTried
      BY <1>3 DEF ExhaustAttempts, Exhausted
    <2>2. decision \subseteq decision'
      BY <1>3 DEF ExhaustAttempts
    <2>3. StrongTried'
      BY <2>1, <2>2
    <2> QED
      BY <2>3
  <1>4. ASSUME NEW h \in Handlers,
               SlotUnavailable(h) \/ ReadInputs(h)
        PROVE  Climbed'
    <2>1. \A g \in Handlers : job'[g] = job[g] \/ job'[g].at # "resolve"
      <3> DEFINE r == [Idle EXCEPT !.at = "judge", !.input = CurrentInput]
      <3>1. r.at # "resolve"
        BY IdleTyped
      <3>2. job' = [job EXCEPT ![h] = r] \/ job' = [job EXCEPT ![h] = Idle]
        BY <1>4 DEF SlotUnavailable, ReadInputs
      <3> HIDE DEF r
      <3> QED
        BY <3>1, <3>2, IdleTyped DEF TypeOK
    <2> QED
      BY <1>4, <2>1 DEF SlotUnavailable, ReadInputs
  <1>5. ASSUME NEW h \in Handlers, NEW passes \in BOOLEAN,
               FinishEvaluation(h, passes) \/ FailEvaluation(h)
        PROVE  Climbed'
    <2>1. /\ decision' = decision \/ decision' = StopSelected
          /\ failed' = failed
          /\ \A g \in Handlers : job'[g] = job[g] \/ job'[g].at = "idle"
      BY <1>5, IdleTyped DEF FinishEvaluation, FailEvaluation, TypeOK
    <2>2. CASE decision' = decision
      BY <2>1, <2>2
    <2>3. CASE decision' = StopSelected
      <3>1. StrongTried => StrongTried'
        BY <2>3, StopKeeps DEF TypeOK
      <3>2. \A c \in decision' : \E d \in decision : c.attempt = d.attempt
        BY <2>3, StopKeeps DEF TypeOK
      <3> QED
        BY <2>1, <3>1, <3>2
    <2> QED
      BY <2>1, <2>2, <2>3
  <1>6. CASE RecordTestRuns
    BY <1>6 DEF RecordTestRuns
  <1>7. CASE UNCHANGED vars \/ \E h \in Handlers : AnswerFromRecord(h)
    BY <1>7 DEF AnswerFromRecord, vars
  <1> QED
    BY <1>1, <1>2, <1>3, <1>4, <1>5, <1>6, <1>7 DEF Next

(* The execution fails for want of attempts only after one on the strong    *)
(* slot, however many retries and evaluations race; see                     *)
(* EscalatesBeforeFailing.                                                  *)
THEOREM FailsAfterStrong == Spec => []EscalatesBeforeFailing
  <1>1. Init => Climbed
    <2> SUFFICES ASSUME Init PROVE Climbed
      OBVIOUS
    <2>1. \A d \in decision : d.attempt = 1
      BY RowTyped DEF Init, Slots, States
    <2> QED
      BY <2>1, IdleTyped DEF Init, Climbed
  <1>2. Climbed => EscalatesBeforeFailing
    BY DEF Climbed, StrongTried, EscalatesBeforeFailing
  <1> QED
    BY <1>1, <1>2, StepClimbed, TypeCorrect, PTL DEF Spec

(***************************************************************************)
(* Requests served one at a time.  The latest attempt is the counter's and *)
(* the only one that can be open, and while a retry awaits its slot none   *)
(* is: so the attempt it records is the next one.                          *)
(***************************************************************************)
NothingSelected == \A d \in decision : d.state # "selected"

(* At most one handler is at work.                                          *)
OneBusy ==
    \A g, h \in Handlers : job[g].at # "idle" /\ job[h].at # "idle" => g = h

(* What the rows say.                                                       *)
RowsInStep ==
    /\ LadderInStep
    /\ \A d \in decision : d.state = "selected" => d.attempt = retryCount + 1
    /\ decision # {} => \E d \in decision : d.attempt = retryCount + 1
    /\ decision = {} => retryCount = 0
    /\ failed => retryCount >= 3 /\ NothingSelected

(* What the request under way has read.                                     *)
JobInStep(h) ==
    /\ job[h].at = "resolve" =>
          NothingSelected /\ job[h].attempt = retryCount + 2
    /\ job[h].at = "judge" => job[h].input.retryCount = retryCount

InStep == OneBusy /\ RowsInStep /\ \A h \in Handlers : JobInStep(h)

SerialInv == serial => InStep

(* Stopping decisions stops the selected ones and no other.                 *)
LEMMA StopsSelected ==
    ASSUME decision \subseteq Rows
    PROVE  /\ \A c \in StopSelected : c.state # "selected"
           /\ \A d \in decision : d.state # "selected" => d \in StopSelected
           /\ NothingSelected => StopSelected = decision
           /\ (\A c, d \in decision : c.attempt = d.attempt => c = d) =>
                 \A c, d \in StopSelected : c.attempt = d.attempt => c = d
  <1> DEFINE Stopped(d) ==
                IF d.state = "selected" THEN [d EXCEPT !.state = "stopped"] ELSE d
  <1>1. ASSUME NEW d \in decision
        PROVE  /\ Stopped(d).state # "selected" /\ Stopped(d).attempt = d.attempt
               /\ d.state # "selected" => Stopped(d) = d
    BY DEF Rows, States
  <1>2. StopSelected = {Stopped(d) : d \in decision}
    BY DEF StopSelected
  <1> HIDE DEF Stopped
  <1> QED
    BY <1>1, <1>2 DEF NothingSelected

(* A handler that is done leaves nobody at work.                            *)
LEMMA ComesToRest ==
    ASSUME TypeOK, OneBusy, NEW h \in Handlers, job[h].at # "idle",
           job' = [job EXCEPT ![h] = Idle]
    PROVE  \A g \in Handlers : job'[g].at = "idle"
  BY IdleTyped DEF TypeOK, OneBusy

(* Nobody at work: the requests are in step.                                *)
LEMMA RestInStep ==
    ASSUME \A g \in Handlers : job'[g].at = "idle"
    PROVE  OneBusy' /\ \A g \in Handlers : JobInStep(g)'
  BY DEF OneBusy, JobInStep

(* A handler takes a request while nobody is at work.                       *)
LEMMA TakesUp ==
    ASSUME TypeOK, serial, NEW h \in Handlers, Free(h), NEW r,
           job' = [job EXCEPT ![h] = r]
    PROVE  /\ OneBusy' /\ job'[h] = r
           /\ \A g \in Handlers \ {h} : job'[g].at = "idle"
  BY DEF TypeOK, Free, OneBusy

(* A retry begins: the latest attempt is closed, hence all are.             *)
LEMMA ReadLatestInStep ==
    ASSUME TypeOK, serial, InStep, NEW h \in Handlers, ReadLatest(h)
    PROVE  InStep'
  <1>1. \A d \in decision : d.attempt \in Nat \ {0} /\ d.slot \in Slots
    BY DEF TypeOK, Rows
  <1>2. ASSUME NEW d \in Latest, d.state # "selected"
        PROVE  NothingSelected /\ d.attempt + 1 = retryCount + 2
    <2>1. d \in decision /\ \A c \in decision : c.attempt <= d.attempt
      BY DEF Latest
    <2>2. PICK c \in decision : c.attempt = retryCount + 1
      BY <2>1 DEF InStep, RowsInStep
    <2>3. d.attempt = retryCount + 1
      BY <1>1, <2>1, <2>2 DEF TypeOK, InStep, RowsInStep, LadderInStep
    <2>4. NothingSelected
      BY <1>2, <2>1, <2>3 DEF NothingSelected, InStep, RowsInStep, LadderInStep
    <2> QED
      BY <1>1, <2>1, <2>3, <2>4 DEF TypeOK
  <1>3. PICK n \in Nat \ {0}, slot \in Slots :
            /\ job' = [job EXCEPT ![h] = Resolving(n, slot)]
            /\ NothingSelected /\ n = retryCount + 2
    <2>1. CASE decision = {}
      <3>1. /\ 2 \in Nat \ {0} /\ "executor_strong" \in Slots
            /\ NothingSelected /\ 2 = retryCount + 2
        BY <2>1 DEF Slots, NothingSelected, InStep, RowsInStep
      <3>2. job' = [job EXCEPT ![h] = Resolving(2, "executor_strong")]
        BY <2>1 DEF ReadLatest, Latest
      <3> QED
        BY <3>1, <3>2
    <2>2. CASE decision # {}
      <3>1. PICK d \in Latest : /\ d.state # "selected"
                                /\ job' = [job EXCEPT ![h] = Resolving(d.attempt + 1, d.slot)]
        BY <2>2 DEF ReadLatest
      <3>2. d \in decision
        BY DEF Latest
      <3>3. d.attempt + 1 \in Nat \ {0} /\ d.slot \in Slots
        BY <1>1, <3>2
      <3> QED
        BY <1>2, <3>1, <3>3
    <2> QED
      BY <2>1, <2>2
  <1> DEFINE r == Resolving(n, slot)
  <1>4. r.at = "resolve" /\ r.attempt = n
    BY DEF Resolving, Idle
  <1>5. Free(h) /\ UNCHANGED <<decision, retryCount, failed>>
    BY DEF ReadLatest
  <1> HIDE DEF r
  <1>6. /\ OneBusy' /\ job'[h] = r
        /\ \A g \in Handlers \ {h} : job'[g].at = "idle"
    BY <1>3, <1>5, TakesUp DEF r
  <1>7. \A g \in Handlers : JobInStep(g)'
    BY <1>3, <1>4, <1>5, <1>6 DEF JobInStep, NothingSelected
  <1>8. RowsInStep'
    BY <1>5 DEF InStep, RowsInStep, LadderInStep, NothingSelected
  <1> QED
    BY <1>6, <1>7, <1>8 DEF InStep

(* The next attempt is recorded, or the budget is used up.                  *)
LEMMA RecordInStep ==
    ASSUME TypeOK, serial, InStep, NEW h \in Handlers, NEW id \in FreshIds,
           AllocateAttempt(h, id) \/ ExhaustAttempts(h, id)
    PROVE  /\ InStep'
           /\ failed => \A d \in decision' \ decision : d.state = "stopped"
  <1> DEFINE n == job[h].attempt
  <1>1. job[h].at = "resolve" /\ job' = [job EXCEPT ![h] = Idle]
    BY DEF AllocateAttempt, ExhaustAttempts
  <1>2. NothingSelected /\ n = retryCount + 2 /\ retryCount \in Nat /\ id \in Decisions
    BY <1>1 DEF InStep, JobInStep, TypeOK, FreshIds
  <1>3. PICK slot \in Slots, state \in States :
            /\ decision' = decision \cup {Row(id, n, slot, state)}
            /\ \/ ~Exhausted(n) /\ failed' = failed
               \/ Exhausted(n) /\ failed' /\ state = "stopped"
    <2>1. SlotFor(n) \in Slots /\ StateFor(n) \in States /\ "stopped" \in States
      BY DEF SlotFor, StateFor, Slots, States
    <2>2. job[h].slot \in Slots
      BY DEF TypeOK
    <2> QED
      BY <2>1, <2>2 DEF AllocateAttempt, ExhaustAttempts
  <1> DEFINE row == Row(id, n, slot, state)
  <1>4. row.attempt = n /\ row.state = state
    BY DEF Row
  <1>5. decision' = decision \cup {row}
    BY <1>3
  <1>6. retryCount' = retryCount + 1
    <2>1. retryCount' = n - 1
      BY DEF AllocateAttempt, ExhaustAttempts
    <2> HIDE DEF n
    <2> QED
      BY <1>2, <2>1
  <1> HIDE DEF n, row
  <1>7. \A d \in decision : d.attempt \in Nat /\ d.attempt <= retryCount + 1
    BY DEF TypeOK, Rows, InStep, RowsInStep, LadderInStep
  <1>8. LadderInStep'
    <2>1. \A d \in decision' : d.attempt <= retryCount' + 1
      BY <1>2, <1>4, <1>5, <1>6, <1>7
    <2>2. ASSUME NEW c \in decision', NEW d \in decision', c.attempt = d.attempt
          PROVE  c = d
      <3>1. CASE c \in decision /\ d \in decision
        BY <2>2, <3>1 DEF InStep, RowsInStep, LadderInStep
      <3>2. CASE c \notin decision \/ d \notin decision
        BY <1>2, <1>4, <1>5, <1>7, <2>2, <3>2
      <3> QED
        BY <3>1, <3>2
    <2> QED
      BY <2>1, <2>2 DEF LadderInStep
  <1>9. failed => state = "stopped"
    <2>1. failed => Exhausted(n)
      BY <1>2 DEF InStep, RowsInStep, Exhausted
    <2> QED
      BY <1>3, <2>1
  <1>10. failed' => retryCount' >= 3 /\ state = "stopped"
    <2>1. CASE Exhausted(n)
      <3>1. n > 3
        BY <2>1 DEF Exhausted
      <3>2. retryCount' >= 3
        BY <1>2, <1>6, <3>1
      <3>3. state = "stopped"
        BY <1>3, <2>1
      <3> QED
        BY <3>2, <3>3
    <2>2. CASE ~Exhausted(n)
      <3>1. failed' = failed
        BY <1>3, <2>2
      <3>2. failed => retryCount >= 3
        BY DEF InStep, RowsInStep
      <3> QED
        BY <1>2, <1>6, <1>9, <3>1, <3>2
    <2> QED
      BY <2>1, <2>2
  <1>11. RowsInStep'
    <2>1. \A d \in decision' : d.state = "selected" => d.attempt = retryCount' + 1
      BY <1>2, <1>4, <1>5, <1>6 DEF NothingSelected
    <2>2. \E d \in decision' : d.attempt = retryCount' + 1
      BY <1>2, <1>4, <1>5, <1>6
    <2>3. state = "stopped" => NothingSelected'
      BY <1>2, <1>4, <1>5 DEF NothingSelected
    <2> QED
      BY <1>8, <1>10, <2>1, <2>2, <2>3 DEF RowsInStep
  <1>12. \A g \in Handlers : job'[g].at = "idle"
    BY <1>1, ComesToRest DEF InStep
  <1>13. InStep'
    BY <1>11, <1>12, RestInStep DEF InStep
  <1>14. failed => \A d \in decision' \ decision : d.state = "stopped"
    BY <1>4, <1>5, <1>9
  <1> QED
    BY <1>13, <1>14

(* A verdict closes the attempt its inputs belong to.                       *)
LEMMA VerdictInStep ==
    ASSUME TypeOK, serial, InStep, NEW h \in Handlers, NEW passes \in BOOLEAN,
           FinishEvaluation(h, passes) \/ FailEvaluation(h)
    PROVE  /\ InStep'
           /\ failed => decision' = decision
           /\ \A d \in decision \ decision' : d.attempt = job[h].input.retryCount + 1
  <1>1. /\ job[h].at = "judge" /\ job' = [job EXCEPT ![h] = Idle]
        /\ UNCHANGED <<retryCount, failed>>
        /\ decision' = decision \/ decision' = StopSelected
    BY DEF FinishEvaluation, FailEvaluation
  <1>2. decision \subseteq Rows /\ RowsInStep /\ job[h].input.retryCount = retryCount
    BY <1>1 DEF TypeOK, InStep, JobInStep
  <1>3. \A g \in Handlers : job'[g].at = "idle"
    BY <1>1, ComesToRest DEF InStep
  <1>4. CASE decision' = decision
    BY <1>1, <1>2, <1>3, <1>4, RestInStep DEF InStep, RowsInStep, LadderInStep, NothingSelected
  <1>5. CASE decision' = StopSelected
    <2>1. NothingSelected'
      BY <1>2, <1>5, StopsSelected DEF NothingSelected
    <2>2. LadderInStep'
      <3>1. \A d \in decision' : d.attempt <= retryCount' + 1
        BY <1>1, <1>2, <1>5, StopKeeps DEF RowsInStep, LadderInStep
      <3>2. \A c, d \in decision' : c.attempt = d.attempt => c = d
        BY <1>2, <1>5, StopsSelected DEF RowsInStep, LadderInStep
      <3> QED
        BY <3>1, <3>2 DEF LadderInStep
    <2>3. decision' # {} => \E d \in decision' : d.attempt = retryCount' + 1
      BY <1>1, <1>2, <1>5, StopKeeps DEF RowsInStep
    <2>4. decision' = {} => retryCount' = 0
      BY <1>1, <1>2, <1>5, StopKeeps DEF RowsInStep
    <2>5. RowsInStep'
      BY <1>1, <1>2, <2>1, <2>2, <2>3, <2>4 DEF RowsInStep, NothingSelected
    <2>6. InStep'
      BY <1>3, <2>5, RestInStep DEF InStep
    <2>7. failed => decision' = decision
      BY <1>2, <1>5, StopsSelected DEF RowsInStep
    <2>8. \A d \in decision \ decision' : d.attempt = job[h].input.retryCount + 1
      BY <1>2, <1>5, StopsSelected DEF RowsInStep
    <2> QED
      BY <2>6, <2>7, <2>8
  <1> QED
    BY <1>1, <1>4, <1>5

(* The other steps leave the decisions, the counter and the verdict alone.  *)
LEMMA OtherInStep ==
    ASSUME TypeOK, serial, InStep,
           \/ \E h \in Handlers :
                 SlotUnavailable(h) \/ ReadInputs(h) \/ AnswerFromRecord(h)
           \/ RecordTestRuns \/ UNCHANGED vars
    PROVE  InStep' /\ decision' = decision
  <1>1. UNCHANGED <<decision, retryCount, failed>>
    BY DEF SlotUnavailable, ReadInputs, AnswerFromRecord, RecordTestRuns, vars
  <1>2. RowsInStep'
    BY <1>1 DEF InStep, RowsInStep, LadderInStep, NothingSelected
  <1>3. ASSUME NEW h \in Handlers, SlotUnavailable(h)
        PROVE  InStep'
    <2>1. \A g \in Handlers : job'[g].at = "idle"
      BY <1>3, ComesToRest DEF SlotUnavailable, InStep
    <2> QED
      BY <1>2, <2>1, RestInStep DEF InStep
  <1>4. ASSUME NEW h \in Handlers, ReadInputs(h)
        PROVE  InStep'
    <2> DEFINE r == [Idle EXCEPT !.at = "judge", !.input = CurrentInput]
    <2>1. r.at = "judge" /\ r.input.retryCount = retryCount
      BY DEF Idle, CurrentInput
    <2>2. Free(h) /\ job' = [job EXCEPT ![h] = r]
      BY <1>4 DEF ReadInputs
    <2> HIDE DEF r
    <2>3. /\ OneBusy' /\ job'[h] = r
          /\ \A g \in Handlers \ {h} : job'[g].at = "idle"
      BY <2>2, TakesUp
    <2>4. \A g \in Handlers : JobInStep(g)'
      BY <1>1, <2>1, <2>3 DEF JobInStep
    <2> QED
      BY <1>2, <2>3, <2>4 DEF InStep
  <1>5. CASE \/ \E h \in Handlers : AnswerFromRecord(h)
             \/ RecordTestRuns \/ UNCHANGED vars
    <2>1. job' = job
      BY <1>5 DEF AnswerFromRecord, RecordTestRuns, vars
    <2> QED
      BY <1>1, <1>2, <2>1 DEF InStep, OneBusy, JobInStep, NothingSelected
  <1> QED
    BY <1>1, <1>3, <1>4, <1>5

(* What a step of requests in step does.                                    *)
LEMMA StepInStep ==
    ASSUME TypeOK, serial, InStep, [Next]_vars
    PROVE  /\ InStep'
           /\ failed => \A d \in decision' \ decision : d.state = "stopped"
           /\ \A h \in Handlers : job[h].at = "judge" /\ job'[h].at = "idle" =>
                \A d \in decision \ decision' :
                    d.attempt = job[h].input.retryCount + 1
  <1>1. ASSUME NEW h \in Handlers, ReadLatest(h)
        PROVE  InStep' /\ decision' = decision
    BY <1>1, ReadLatestInStep DEF ReadLatest
  <1>2. ASSUME NEW h \in Handlers, NEW id \in FreshIds,
               AllocateAttempt(h, id) \/ ExhaustAttempts(h, id)
        PROVE  /\ InStep' /\ decision \subseteq decision'
               /\ failed => \A d \in decision' \ decision : d.state = "stopped"
    BY <1>2, RecordInStep DEF AllocateAttempt, ExhaustAttempts
  <1>3. ASSUME NEW h \in Handlers, NEW passes \in BOOLEAN,
               FinishEvaluation(h, passes) \/ FailEvaluation(h)
        PROVE  /\ InStep'
               /\ failed => decision' = decision
               /\ \A g \in Handlers : job[g].at = "judge" /\ job'[g].at = "idle" =>
                    \A d \in decision \ decision' :
                        d.attempt = job[g].input.retryCount + 1
    <2>1. job[h].at = "judge"
      BY <1>3 DEF FinishEvaluation, FailEvaluation
    <2>2. \A g \in Handlers : job[g].at = "judge" => g = h
      BY <2>1 DEF InStep, OneBusy
    <2> QED
      BY <1>3, <2>2, VerdictInStep
  <1> QED
    BY <1>1, <1>2, <1>3, OtherInStep DEF Next

LEMMA SerialFixed == [Next]_vars => serial' = serial
  BY DEF Next, vars, ReadLatest, AllocateAttempt, ExhaustAttempts, SlotUnavailable,
     ReadInputs, FinishEvaluation, FailEvaluation, AnswerFromRecord, RecordTestRuns

LEMMA SerialInvariance == Spec => [](TypeOK /\ SerialInv)
  <1>1. Init => SerialInv
    <2> SUFFICES ASSUME Init, serial PROVE InStep
      BY DEF SerialInv
    <2>1. \A d \in decision : d.attempt = 1
      BY DEF Init, Row
    <2>2. \A c, d \in decision : c = d
      BY DEF Init
    <2>3. retryCount = 0 /\ ~failed /\ \A h \in Handlers : job[h].at = "idle"
      BY IdleTyped DEF Init
    <2> QED
      BY <2>1, <2>2, <2>3 DEF InStep, OneBusy, RowsInStep, JobInStep, LadderInStep
  <1>2. TypeOK /\ SerialInv /\ [Next]_vars => SerialInv'
    BY StepInStep, SerialFixed DEF SerialInv
  <1> QED
    BY <1>1, <1>2, TypeCorrect, PTL DEF Spec

(* Served one at a time, retries and evaluations keep counter and decisions *)
(* in step and at most one attempt open; see SerialLadderInStep.            *)
THEOREM SerialLadder == Spec => []SerialLadderInStep
  <1>1. TypeOK /\ SerialInv => SerialLadderInStep
    BY DEF SerialInv, InStep, RowsInStep, LadderInStep, SerialLadderInStep,
       AtMostOneSelected
  <1> QED
    BY <1>1, SerialInvariance, PTL

(* A failed execution gets no new attempt, and a verdict closes the attempt *)
(* it judged; see SerialAttemptsCloseInOrder.                               *)
THEOREM SerialAttempts == Spec => SerialAttemptsCloseInOrder
  <1>1. TypeOK /\ SerialInv /\ [Next]_vars =>
            [serial =>
                /\ failed => \A d \in decision' \ decision : d.state = "stopped"
                /\ \A h \in Handlers : job[h].at = "judge" /\ job'[h].at = "idle" =>
                     \A d \in decision \ decision' :
                         d.attempt = job[h].input.retryCount + 1]_vars
    BY StepInStep DEF SerialInv
  <1> QED
    BY <1>1, SerialInvariance, PTL DEF Spec, SerialAttemptsCloseInOrder
=============================================================================
