----------------------------- MODULE ToolProofs -----------------------------
(***************************************************************************)
(* Proofs about ToolCalls, for any number of calls, requests and turns, and *)
(* that it implements CallLedger.                                          *)
(***************************************************************************)
EXTENDS ToolCalls, TLAPS

Requests == Handlers \cup {Agent}
Row == [status : Statuses, tool : Tools, mutability : Mutabilities, linked : BOOLEAN]
Job == [at : Points, call : Calls, read : Row, approval : BOOLEAN,
        outcome : Finished \cup {"none"}]
Steps == Seq({"started", "completed", "failed"})
Loop == [at : {"idle", "turn", "asking", "calling", "waiting"} \cup Ended,
         turn : 0..MaxTurns, steps : Steps, closed : Seq(Nat), call : Calls,
         reason : {"none", "tool_error", "finalize", "max_turns"}]

(* The tools that act ask for an approval, unless an operator dropped it.   *)
Acting == {"apply_patch", "run_command"}

ApprovalsAsked == \A t \in Acting : catalog[t].approval \/ t \in waived

(* A request works on a call that exists, and has an answer when it ran.    *)
JobsAsked ==
    \A h \in Requests :
      /\ job[h].at \notin {"idle", "answered"} => call[job[h].call].status # "none"
      /\ job[h].at = "ran" => job[h].outcome \in Finished

(* A row some wrapper acts for.                                             *)
MayAct(row) == row.mutability = "write" /\ row.tool \in Acting

(* A call that a wrapper acts for is checked against the approval its tool  *)
(* asked for when it was read, or stands exempted; once past the check it   *)
(* has a grant or the exemption, whatever the catalog became in between.    *)
ClearedGranted ==
    \A h \in Requests :
      MayAct(job[h].read) =>
        /\ job[h].at = "checking" => job[h].approval \/ job[h].call \in exempt
        /\ job[h].at \in {"cleared", "running"} => job[h].call \in granted \cup exempt

(* Steps and their ends are numbered by turns.  Every step before the       *)
(* current one is closed once, and the current one is open while the turn   *)
(* lasts.                                                                   *)
ClosedOnce(i) == loop.steps[i] # "started" /\ loop.closed[i] = 1

StepsClosed ==
    /\ Len(loop.steps) = loop.turn /\ Len(loop.closed) = loop.turn
    /\ loop.at = "idle" => loop.turn = 0
    /\ loop.at = "turn" =>
         loop.turn < MaxTurns /\ \A i \in 1..loop.turn : ClosedOnce(i)
    /\ loop.at \in {"asking", "calling", "waiting"} =>
         /\ loop.turn > 0 /\ loop.steps[loop.turn] = "started"
         /\ loop.closed[loop.turn] = 0
         /\ \A i \in 1..(loop.turn - 1) : ClosedOnce(i)

(* The agent's request is made by a waiting loop only.                      *)
AgentWaits == job[Agent].at # "idle" => loop.at = "waiting"

(* Requests that come one at a time are alone.                              *)
Alone ==
    serial =>
      /\ \A g, h \in Handlers : job[g].at # "idle" /\ job[h].at # "idle" => g = h
      /\ loop.at \notin {"idle"} \cup Ended => \A h \in Handlers : job[h].at = "idle"

(* What a request that is alone read of its call still stands, and a call   *)
(* that has acted can no longer be approved or started.                     *)
StillStands ==
    serial => \A h \in Requests :
      /\ job[h].at = "approving" => call[job[h].call].status = "requested"
      /\ job[h].at \in {"checking", "cleared"} =>
           call[job[h].call].status \in {"requested", "approved"}
      /\ job[h].at = "running" =>
           call[job[h].call].status = "running" /\ acted[job[h].call] = 0

ActedIsSpent ==
    serial => \A c \in Calls :
      acted[c] > 0 => call[c].status \in Finished \cup {"running"}

ToolInv ==
    /\ TypeOK
    /\ ApprovalsAsked /\ JobsAsked /\ ClearedGranted
    /\ StepsClosed /\ AgentWaits
    /\ Alone /\ StillStands /\ ActedIsSpent
    /\ ActsOnlyIfGranted /\ LoopClosesItsSteps

-----------------------------------------------------------------------------
(* The catalog and the wrappers *)

(* Both sets of definitions ask for an approval of the tools that act.      *)
LEMMA StandardAsks ==
    ASSUME NEW t \in Tools
    PROVE  /\ ServiceRow(t) \in ToolRows /\ SetupRow(t) \in ToolRows
           /\ t \in Acting => ServiceRow(t).approval /\ SetupRow(t).approval
  <1>1. \E m \in Mutabilities, a \in BOOLEAN, s \in {"listed", "open"} :
          /\ ServiceRow(t) = [mutability |-> m, approval |-> a, schema |-> s, active |-> TRUE]
          /\ t \in Acting => a
    <2>1. (IF t \in Acting THEN "write" ELSE "read") \in Mutabilities
      BY DEF Mutabilities
    <2>2. (IF t = "browser_navigate" THEN "open" ELSE "listed") \in {"listed", "open"}
      OBVIOUS
    <2>3. (t \in Acting) \in BOOLEAN
      OBVIOUS
    <2> QED
      BY <2>1, <2>2, <2>3, Zenon DEF ServiceRow, Acting
  <1>2. \E m \in Mutabilities, a \in BOOLEAN, s \in {"listed", "open"} :
          /\ SetupRow(t) = [mutability |-> m, approval |-> a, schema |-> s, active |-> TRUE]
          /\ t \in Acting => a
    <2>1. CASE t = "read_file"
      BY <2>1 DEF SetupRow, Mutabilities, Acting
    <2>2. CASE t = "apply_patch"
      BY <2>2 DEF SetupRow, Mutabilities, Acting
    <2>3. CASE t \notin {"read_file", "apply_patch"}
      BY <2>3 DEF SetupRow, Mutabilities, Acting
    <2> QED
      BY <2>1, <2>2, <2>3
  <1> QED
    BY <1>1, <1>2 DEF ToolRows

(* A wrapper that acted was given a row that lets it.                       *)
LEMMA WrapperAnswers ==
    ASSUME NEW row \in Row, NEW o \in Wrapper(row)
    PROVE  /\ o.status \in Finished
           /\ o.acts => MayAct(row)
  <1>1. CASE MayAct(row)
    <2>1. \/ o = [status |-> "succeeded", acts |-> TRUE]
          \/ o = [status |-> "failed", acts |-> FALSE]
          \/ o = [status |-> "blocked", acts |-> FALSE]
          \/ o = [status |-> "failed", acts |-> TRUE]
      BY <1>1 DEF Wrapper, ApplyPatchAnswers, RunCommandAnswers, Answer, MayAct, Acting
    <2> QED
      BY <1>1, <2>1 DEF Finished
  <1>2. CASE ~MayAct(row)
    <2>1. \/ o = [status |-> "succeeded", acts |-> FALSE]
          \/ o = [status |-> "failed", acts |-> FALSE]
          \/ o = [status |-> "blocked", acts |-> FALSE]
      BY <1>2 DEF Wrapper, ReadFileAnswers, NavigateAnswers, Answer, MayAct, Acting, Finished
    <2> QED
      BY <2>1 DEF Finished
  <1> QED
    BY <1>1, <1>2

LEMMA Defaults ==
    /\ NoCall \in Row /\ ~MayAct(NoCall) /\ Idle \in Job
    /\ Idle.at = "idle" /\ Idle.read = NoCall /\ Idle.outcome = "none"
    /\ Waiting \in Loop /\ Waiting.at = "idle" /\ Waiting.turn = 0
    /\ Waiting.steps = <<>> /\ Waiting.closed = <<>>
  <1>1. (CHOOSE c \in Calls : TRUE) \in Calls
    BY ToolAssumption
  <1>2. MaxTurns \in Nat
    BY ToolAssumption
  <1> QED
    BY <1>1, <1>2 DEF NoCall, Row, MayAct, Idle, Job, Waiting, Loop, Statuses, Tools,
           Mutabilities, Points, Finished, Ended, Steps

LEMMA InitInv == Init => ToolInv
  <1> SUFFICES ASSUME Init PROVE ToolInv
    OBVIOUS
  <1>1. TypeOK
    BY Defaults, StandardAsks DEF Init, TypeOK, Row, Job, Loop, Steps, Requests
  <1>2. ApprovalsAsked
    BY StandardAsks DEF Init, ApprovalsAsked, Acting, Tools
  <1>4. JobsAsked /\ JobsAsked /\ ClearedGranted /\ AgentWaits /\ Alone /\ StillStands
        /\ ActedIsSpent /\ ActsOnlyIfGranted
    BY Defaults DEF Init, JobsAsked, ClearedGranted, AgentWaits, Alone,
         StillStands, ActedIsSpent, ActsOnlyIfGranted, Requests
  <1>3. StepsClosed /\ LoopClosesItsSteps
    BY Defaults, ToolAssumption DEF Init, StepsClosed, LoopClosesItsSteps
  <1> QED
    BY <1>1, <1>2, <1>3, <1>4 DEF ToolInv

-----------------------------------------------------------------------------
(* One step *)

(* What a step that creates a call does to its rows.                        *)
LEMMA CreateTyped ==
    ASSUME ToolInv, NEW c \in Calls, NEW t \in Offered, Create(c, t)
    PROVE  /\ call' \in [Calls -> Row]
           /\ call[c].status = "none" /\ call'[c].status = "requested"
           /\ \A d \in Calls \ {c} : call'[d] = call[d]
  <1>1. t \in Tools /\ catalog[t].mutability \in Mutabilities
    BY ToolAssumption DEF ToolInv, TypeOK, ToolRows
  <1> DEFINE r == [status |-> "requested", tool |-> t,
                   mutability |-> catalog[t].mutability, linked |-> FALSE]
  <1>2. r \in Row /\ r.status = "requested"
    BY <1>1 DEF Row, Statuses
  <1>3. call' = [call EXCEPT ![c] = r] /\ call[c].status = "none"
    BY DEF Create
  <1>4. call \in [Calls -> Row]
    BY DEF ToolInv, TypeOK, Row
  <1> HIDE DEF r
  <1> QED
    BY <1>2, <1>3, <1>4

(* The parts of the invariant that look at calls and requests only.         *)
Requested ==
    /\ JobsAsked /\ ClearedGranted /\ StillStands
    /\ ActedIsSpent /\ ActsOnlyIfGranted
    /\ call \in [Calls -> Row] /\ job \in [Requests -> Job]
    /\ granted \subseteq Calls /\ exempt \subseteq Calls /\ acted \in [Calls -> Nat]

CatalogInv == catalog \in [Tools -> ToolRows] /\ waived \subseteq Tools /\ ApprovalsAsked

LEMMA InvParts ==
    ToolInv <=> /\ serial \in BOOLEAN /\ CatalogInv
                /\ loop \in Loop /\ Requested /\ StepsClosed /\ AgentWaits /\ Alone
                /\ LoopClosesItsSteps
  BY DEF ToolInv, TypeOK, CatalogInv, Requested, Row, Job, Loop, Steps, Requests

(* Creating a call disturbs no request: none works on a call without a row. *)
LEMMA CreateRequested ==
    ASSUME ToolInv, NEW c \in Calls, NEW t \in Offered, Create(c, t),
           UNCHANGED <<serial, granted, exempt, acted, job>>
    PROVE  Requested'
  <1> USE CreateTyped, InvParts DEF Requested
  <1>2. \A h \in Requests : job[h].at \notin {"idle", "answered"} => job[h].call # c
    BY DEF JobsAsked
  <1>3. \A h \in Requests : job[h].call \in Calls
    BY DEF Job
  <1>4. JobsAsked' /\ ClearedGranted' /\ ActsOnlyIfGranted'
    BY <1>2, <1>3 DEF JobsAsked, ClearedGranted, ActsOnlyIfGranted
  <1>5. StillStands'
    BY <1>2, <1>3 DEF StillStands
  <1>6. ActedIsSpent'
    <2>1. ASSUME serial PROVE ~(acted[c] > 0)
      BY <2>1 DEF ActedIsSpent, Finished
    <2> QED
      BY <2>1 DEF ActedIsSpent
  <1> QED
    BY <1>4, <1>5, <1>6

(* A request goes on alone in the serial case.                              *)
LEMMA OthersIdle ==
    ASSUME ToolInv, serial, NEW h \in Requests, job[h].at # "idle",
           NEW g \in Requests, g # h
    PROVE  job[g].at = "idle"
  BY ToolAssumption DEF ToolInv, Alone, AgentWaits, Requests, Ended

(* A step of one request that writes its own place and its own call's row.  *)
LEMMA OwnStep ==
    ASSUME ToolInv, NEW h \in Requests, NEW j \in Job, NEW r \in Row, job[h].at # "idle",
           LET c == job[h].call IN
           /\ UNCHANGED <<serial, exempt>>
           /\ granted \subseteq granted' /\ granted' \subseteq Calls
           /\ job' = [job EXCEPT ![h] = j]
           /\ call' = [call EXCEPT ![c] = r]
           /\ acted' \in [Calls -> Nat] /\ \A d \in Calls \ {c} : acted'[d] = acted[d]
           /\ r.status # "none"
           /\ acted'[c] > 0 => c \in granted' \cup exempt
           /\ serial /\ acted'[c] > 0 => r.status \in Finished \cup {"running"}
           /\ j.at \notin {"idle", "answered"} => j.call = c
           /\ j.at = "ran" => j.outcome \in Finished
           /\ j.at \in {"cleared", "running"} /\ MayAct(j.read) => c \in granted' \cup exempt
           /\ j.at \notin {"approving", "checking"}
           /\ serial /\ j.at = "cleared" => r.status \in {"requested", "approved"}
           /\ serial /\ j.at = "running" => r.status = "running" /\ acted'[c] = 0
    PROVE  Requested'
  <1> DEFINE c == job[h].call
  <1>1. /\ call \in [Calls -> Row] /\ job \in [Requests -> Job] /\ c \in Calls
        /\ granted \subseteq Calls /\ exempt \subseteq Calls
    BY DEF ToolInv, TypeOK, Row, Job, Requests
  <1>2. /\ call' \in [Calls -> Row] /\ job' \in [Requests -> Job]
        /\ job'[h] = j /\ \A g \in Requests \ {h} : job'[g] = job[g] /\ job[g].call \in Calls
        /\ call'[c] = r /\ \A d \in Calls \ {c} : call'[d] = call[d]
    BY <1>1 DEF Job
  <1>3. ClearedGranted'
    BY <1>1, <1>2 DEF ToolInv, ClearedGranted
  <1>4. JobsAsked'
    BY <1>1, <1>2 DEF ToolInv, JobsAsked
  <1>5. StillStands'
    <2> SUFFICES ASSUME serial, NEW g \in Requests, job'[g].at # "idle"
                 PROVE  g = h
      BY <1>2 DEF StillStands
    <2> QED
      BY <1>2, OthersIdle
  <1>6. ActedIsSpent' /\ ActsOnlyIfGranted'
    BY <1>2 DEF ToolInv, ActedIsSpent, ActsOnlyIfGranted
  <1> QED
    BY <1>2, <1>3, <1>4, <1>5, <1>6, <1>1 DEF Requested

(* A request begins and reads its call.                                     *)
LEMMA StartStep ==
    ASSUME ToolInv, NEW h \in Requests, NEW j \in Job, job[h].at = "idle",
           UNCHANGED <<serial, granted, acted, call>>,
           exempt \subseteq exempt', exempt' \subseteq Calls,
           job' = [job EXCEPT ![h] = j],
           j.at \in {"approving", "checking", "refused"},
           call[j.call].status # "none",
           j.at = "approving" => call[j.call].status = "requested",
           j.at = "checking" => /\ call[j.call].status \in {"requested", "approved"}
                                /\ MayAct(j.read) => j.approval \/ j.call \in exempt'
    PROVE  Requested'
  <1>1. Requested /\ job' \in [Requests -> Job] /\ job'[h] = j
        /\ \A g \in Requests \ {h} : job'[g] = job[g]
    BY InvParts DEF Requested
  <1>2. JobsAsked' /\ ClearedGranted'
    BY <1>1 DEF Requested, JobsAsked, ClearedGranted
  <1>3. StillStands'
    BY <1>1 DEF Requested, StillStands
  <1> QED
    BY <1>1, <1>2, <1>3 DEF Requested, ActedIsSpent, ActsOnlyIfGranted

(* What executeToolCall reads of a call that a wrapper acts for either asks *)
(* for an approval or exempts it.                                           *)
LEMMA Reads ==
    ASSUME ToolInv, NEW h \in Requests, NEW c \in Calls, job[h].at = "idle",
           ExecuteRead(h, c), UNCHANGED <<serial, granted, acted, call>>
    PROVE  /\ Requested' /\ call[c].status # "none"
           /\ exempt' = exempt \/ exempt' = exempt \cup {c}
           /\ \E j \in Job : job' = [job EXCEPT ![h] = j]
  <1> DEFINE checking == [Idle EXCEPT !.at = "checking", !.call = c, !.read = call[c],
                                      !.approval = catalog[call[c].tool].approval]
             refused == [Idle EXCEPT !.at = "refused", !.call = c]
  <1>1. /\ call[c] \in Row /\ catalog \in [Tools -> ToolRows] /\ exempt \subseteq Calls
        /\ ApprovalsAsked
    BY InvParts DEF Requested, CatalogInv
  <1>2. catalog[call[c].tool].approval \in BOOLEAN
    BY <1>1 DEF Row, ToolRows
  <1>3. /\ checking \in Job /\ checking.at = "checking" /\ checking.call = c
        /\ checking.read = call[c]
        /\ checking.approval = catalog[call[c].tool].approval
        /\ refused \in Job /\ refused.at = "refused" /\ refused.call = c
    BY <1>1, <1>2, Defaults DEF Job, Points
  <1>4. /\ exempt' = exempt \/ exempt' = exempt \cup {c}
        /\ call[c].status # "none"
    BY DEF ExecuteRead
  <1>5. CASE CanStart(call[c])
    <2>1. /\ job' = [job EXCEPT ![h] = checking]
          /\ call[c].tool \in waived => c \in exempt'
          /\ call[c].status \in {"requested", "approved"}
      BY <1>5 DEF ExecuteRead, CanStart
    <2>2. MayAct(call[c]) => catalog[call[c].tool].approval \/ c \in exempt'
      BY <1>1, <2>1 DEF ApprovalsAsked, MayAct
    <2> HIDE DEF checking, refused
    <2> QED
      BY <1>1, <1>3, <1>4, <2>1, <2>2, StartStep
  <1>6. CASE ~CanStart(call[c])
    <2>1. job' = [job EXCEPT ![h] = refused]
      BY <1>6 DEF ExecuteRead
    <2> HIDE DEF checking, refused
    <2> QED
      BY <1>1, <1>3, <1>4, <2>1, StartStep
  <1> QED
    BY <1>5, <1>6

(* Requests are dropped, or nothing happens to them.                        *)
LEMMA DropStep ==
    ASSUME ToolInv, UNCHANGED <<serial, granted, exempt, acted, call>>,
           job' \in [Requests -> Job],
           \A g \in Requests : job'[g] = job[g] \/ job'[g] = Idle
    PROVE  Requested'
  <1>1. Requested
    BY InvParts
  <1>2. JobsAsked' /\ ClearedGranted'
    BY <1>1, Defaults DEF Requested, JobsAsked, ClearedGranted
  <1>3. StillStands'
    BY <1>1, Defaults DEF Requested, StillStands
  <1> QED
    BY <1>1, <1>2, <1>3 DEF Requested, ActedIsSpent, ActsOnlyIfGranted

(* A request of a handler that may start leaves every request alone.        *)
LEMMA FreeAlone ==
    ASSUME ToolInv, NEW h \in Handlers, Free(h), NEW j \in Job,
           UNCHANGED <<serial, loop>>, job' = [job EXCEPT ![h] = j]
    PROVE  Alone' /\ AgentWaits'
  <1>1. job \in [Requests -> Job] /\ Agent # h /\ Agent \in Requests
    BY ToolAssumption, InvParts DEF Requested, Requests
  <1> QED
    BY <1>1 DEF ToolInv, Alone, AgentWaits, Free, Requests

(* So does a step of a request that is under way.                           *)
LEMMA BusyAlone ==
    ASSUME ToolInv, NEW h \in Requests, job[h].at # "idle", NEW j \in Job,
           UNCHANGED <<serial, loop>>, job' = [job EXCEPT ![h] = j]
    PROVE  Alone' /\ AgentWaits'
  <1>1. job \in [Requests -> Job] /\ Agent \in Requests /\ Handlers \subseteq Requests
    BY InvParts DEF Requested, Requests
  <1> QED
    BY <1>1 DEF ToolInv, Alone, AgentWaits

(* And a step of the loop that stays a loop, its request being its own.     *)
LEMMA LoopAlone ==
    ASSUME ToolInv, loop.at \notin {"idle"} \cup Ended, UNCHANGED serial,
           \A h \in Handlers : job'[h] = job[h],
           job'[Agent].at = "idle" \/ loop'.at = "waiting"
    PROVE  Alone' /\ AgentWaits'
  BY DEF ToolInv, Alone, AgentWaits

-----------------------------------------------------------------------------
(* The steps of the loop *)

LoopInv == loop \in Loop /\ StepsClosed

LEMMA LoopMoves ==
    ASSUME LoopInv, NEW k \in Calls, NEW a,
           \/ loop.at = "asking" /\ a \in {"rejected", "calling"}
           \/ loop.at = "calling" /\ a = "waiting"
           \/ loop.at \in {"turn", "asking", "calling", "waiting"} /\ a = "gone",
           loop' = [loop EXCEPT !.at = a, !.call = k]
    PROVE  LoopInv'
  BY DEF LoopInv, Loop, StepsClosed, ClosedOnce, Ended

LEMMA BeginsTurn == ASSUME LoopInv, BeginTurn PROVE LoopInv' /\ loop'.at = "asking"
  <1> DEFINE n == loop.turn + 1
             s == Append(loop.steps, "started")
             d == Append(loop.closed, 0)
  <1>1. /\ loop.turn \in 0..MaxTurns /\ loop.turn < MaxTurns /\ MaxTurns \in Nat
        /\ Len(loop.steps) = loop.turn /\ Len(loop.closed) = loop.turn
        /\ loop.steps \in Steps /\ loop.closed \in Seq(Nat)
        /\ \A i \in 1..loop.turn : ClosedOnce(i)
    BY ToolAssumption DEF LoopInv, StepsClosed, BeginTurn, Loop
  <1>2. /\ s \in Steps /\ Len(s) = n /\ s[n] = "started"
        /\ \A i \in 1..loop.turn : s[i] = loop.steps[i]
    BY <1>1 DEF Steps
  <1>3. /\ d \in Seq(Nat) /\ Len(d) = n /\ d[n] = 0
        /\ \A i \in 1..loop.turn : d[i] = loop.closed[i]
    BY <1>1
  <1>4. Waiting.call \in Calls /\ n \in 0..MaxTurns /\ n \in Nat
    BY <1>1, Defaults DEF Loop
  <1>5. loop' = [loop EXCEPT !.at = "asking", !.turn = n, !.steps = s, !.closed = d,
                             !.call = Waiting.call]
    BY DEF BeginTurn
  <1> HIDE DEF n, s, d
  <1>6. /\ loop' \in Loop /\ loop'.turn = n /\ loop'.steps = s /\ loop'.closed = d
        /\ loop'.at = "asking"
    BY <1>1, <1>2, <1>3, <1>4, <1>5 DEF LoopInv, Loop
  <1>7. n > 0 /\ loop.turn = n - 1
    BY <1>1 DEF n
  <1> QED
    BY <1>1, <1>2, <1>3, <1>4, <1>6, <1>7 DEF LoopInv, StepsClosed, ClosedOnce

(* Closing the step of the turn.                                            *)
LEMMA CloseTurn ==
    ASSUME LoopInv, loop.at \in {"asking", "calling", "waiting"},
           NEW st \in {"completed", "failed"}
    PROVE  LET l == Close(st) IN
           /\ l \in Loop /\ l.at = loop.at /\ l.turn = loop.turn /\ l.reason = loop.reason
           /\ Len(l.steps) = l.turn /\ Len(l.closed) = l.turn
           /\ l.turn \in Nat \ {0}
           /\ \A i \in 1..l.turn : l.steps[i] # "started" /\ l.closed[i] = 1
  <1> DEFINE n == loop.turn
             s == [loop.steps EXCEPT ![n] = st]
             d == [loop.closed EXCEPT ![n] = loop.closed[n] + 1]
  <1>1. /\ n \in 0..MaxTurns /\ n > 0 /\ MaxTurns \in Nat
        /\ Len(loop.steps) = n /\ Len(loop.closed) = n /\ loop.closed[n] = 0
        /\ loop.steps \in Steps /\ loop.closed \in Seq(Nat)
        /\ \A i \in 1..(n - 1) : ClosedOnce(i)
    BY ToolAssumption DEF LoopInv, StepsClosed, Loop
  <1>2. /\ s \in Steps /\ Len(s) = n
        /\ \A i \in 1..n : s[i] = IF i = n THEN st ELSE loop.steps[i]
    BY <1>1 DEF Steps
  <1>3. /\ d \in Seq(Nat) /\ Len(d) = n
        /\ \A i \in 1..n : d[i] = IF i = n THEN 1 ELSE loop.closed[i]
    BY <1>1
  <1>4. Close(st) = [loop EXCEPT !.steps = s, !.closed = d]
    BY DEF Close, LoopInv, Loop
  <1> HIDE DEF s, d
  <1>5. /\ Close(st) \in Loop /\ Close(st).at = loop.at /\ Close(st).turn = n
        /\ Close(st).reason = loop.reason /\ Close(st).steps = s /\ Close(st).closed = d
    BY <1>1, <1>2, <1>3, <1>4 DEF LoopInv, Loop
  <1> QED
    BY <1>1, <1>2, <1>3, <1>5 DEF ClosedOnce

LEMMA Stops ==
    ASSUME LoopInv, loop.at \in {"asking", "calling", "waiting"},
           NEW st \in {"completed", "failed"}, NEW why \in {"tool_error", "finalize"},
           loop' = Stop(st, why)
    PROVE  LoopInv' /\ loop'.at = "done" /\ (LoopClosesItsSteps)'
  <1> DEFINE l == Close(st)
  <1>1. Waiting.call \in Calls
    BY Defaults DEF Loop
  <1>2. loop' = [l EXCEPT !.at = "done", !.reason = why, !.call = Waiting.call]
    BY DEF Stop
  <1>3. /\ l \in Loop /\ Len(l.steps) = l.turn /\ Len(l.closed) = l.turn
        /\ \A i \in 1..l.turn : l.steps[i] # "started" /\ l.closed[i] = 1
    BY CloseTurn
  <1> HIDE DEF l
  <1>4. /\ loop' \in Loop /\ loop'.at = "done" /\ loop'.turn = l.turn /\ loop'.reason = why
        /\ loop'.steps = l.steps /\ loop'.closed = l.closed
    BY <1>1, <1>2, <1>3 DEF Loop, Ended
  <1> QED
    BY <1>3, <1>4 DEF LoopInv, StepsClosed, LoopClosesItsSteps

LEMMA Answered ==
    ASSUME LoopInv, loop.at = "waiting", loop' = AfterResult
    PROVE  LoopInv' /\ loop'.at \in {"turn", "done"} /\ (LoopClosesItsSteps)'
  <1> DEFINE l == Close("completed")
  <1>1. Waiting.call \in Calls /\ MaxTurns \in Nat
    BY Defaults, ToolAssumption DEF Loop
  <1>2. /\ l \in Loop /\ Len(l.steps) = l.turn /\ Len(l.closed) = l.turn /\ l.turn = loop.turn
        /\ l.turn \in Nat \ {0}
        /\ \A i \in 1..l.turn : l.steps[i] # "started" /\ l.closed[i] = 1
    BY CloseTurn
  <1>3. CASE loop.turn < MaxTurns
    <2>1. loop' = [l EXCEPT !.at = "turn"]
      BY <1>3 DEF AfterResult
    <2> HIDE DEF l
    <2>2. /\ loop' \in Loop /\ loop'.at = "turn" /\ loop'.turn = l.turn
          /\ loop'.steps = l.steps /\ loop'.closed = l.closed
      BY <1>2, <2>1 DEF Loop
    <2> QED
      BY <1>2, <1>3, <2>2 DEF LoopInv, StepsClosed, ClosedOnce, LoopClosesItsSteps, Ended
  <1>4. CASE ~(loop.turn < MaxTurns)
    <2> DEFINE n == l.turn
               d == [l.closed EXCEPT ![n] = l.closed[n] + 1]
    <2>1. Stop("completed", "max_turns")
            = [l EXCEPT !.at = "done", !.reason = "max_turns", !.call = Waiting.call]
      BY DEF Stop
    <2>2. loop' = [Stop("completed", "max_turns") EXCEPT !.closed[loop.turn] = @ + 1]
      BY <1>4 DEF AfterResult
    <2> HIDE DEF l
    <2>3. loop' = [l EXCEPT !.at = "done", !.reason = "max_turns", !.call = Waiting.call,
                            !.closed = d]
      BY <1>2, <2>1, <2>2 DEF Loop
    <2>4. /\ d \in Seq(Nat) /\ Len(d) = n
          /\ \A i \in 1..n : d[i] = IF i = n THEN 2 ELSE 1
      BY <1>2 DEF Loop
    <2> HIDE DEF d
    <2>5. /\ loop' \in Loop /\ loop'.at = "done" /\ loop'.turn = n /\ loop'.steps = l.steps
          /\ loop'.closed = d /\ loop'.reason = "max_turns"
      BY <1>1, <1>2, <2>3, <2>4 DEF Loop, Ended
    <2> QED
      BY <1>2, <2>4, <2>5 DEF LoopInv, StepsClosed, LoopClosesItsSteps
  <1> QED
    BY <1>3, <1>4

-----------------------------------------------------------------------------
(* Every step *)

(* The parts make the invariant of the state after a step.                  *)
LEMMA PartsAfter ==
    ASSUME serial' \in BOOLEAN, CatalogInv',
           LoopInv', Requested', AgentWaits', Alone', (LoopClosesItsSteps)'
    PROVE  ToolInv'
  <1>1. TypeOK'
    BY DEF TypeOK, CatalogInv, LoopInv, Requested, Row, Job, Loop, Steps, Requests
  <1> QED
    BY <1>1 DEF ToolInv, CatalogInv, LoopInv, Requested

LEMMA SameCatalog == CatalogInv /\ UNCHANGED <<catalog, waived>> => CatalogInv'
  BY DEF CatalogInv, ApprovalsAsked

LEMMA SameLoop ==
    ASSUME ToolInv, UNCHANGED <<serial, catalog, waived, loop>>,
           Requested', AgentWaits', Alone'
    PROVE  ToolInv'
  <1>1. LoopInv' /\ (LoopClosesItsSteps)'
    BY InvParts DEF LoopInv, StepsClosed, ClosedOnce, LoopClosesItsSteps
  <1>2. CatalogInv'
    BY InvParts, SameCatalog
  <1> QED
    BY <1>1, <1>2, InvParts, PartsAfter

LEMMA HandlersStart ==
    ASSUME ToolInv, NEW h \in Handlers, NEW c \in Calls,
           ApproveRead(h, c) \/ ExecuteCall(h, c)
    PROVE  ToolInv'
  <1>1. /\ Free(h) /\ job[h].at = "idle" /\ h \in Requests
        /\ UNCHANGED <<serial, catalog, waived, call, granted, acted, loop>>
    BY DEF ApproveRead, ExecuteCall, Free, Requests
  <1>2. CASE ApproveRead(h, c)
    <2> DEFINE j == [Idle EXCEPT !.at = "approving", !.call = c]
    <2>1. j \in Job /\ j.at = "approving" /\ j.call = c
      BY Defaults DEF Job, Points
    <2>2. /\ job' = [job EXCEPT ![h] = j] /\ call[c].status = "requested"
          /\ exempt' = exempt /\ exempt \subseteq Calls
      BY <1>2, InvParts DEF ApproveRead, Approvable, Requested
    <2> HIDE DEF j
    <2>3. Requested'
      BY <1>1, <2>1, <2>2, StartStep
    <2>4. Alone' /\ AgentWaits'
      BY <1>1, <2>1, <2>2, FreeAlone
    <2> QED
      BY <1>1, <2>3, <2>4, SameLoop
  <1>3. CASE ExecuteCall(h, c)
    <2>1. Requested' /\ \E j \in Job : job' = [job EXCEPT ![h] = j]
      BY <1>1, <1>3, Reads DEF ExecuteCall
    <2>2. Alone' /\ AgentWaits'
      BY <1>1, <2>1, FreeAlone
    <2> QED
      BY <1>1, <2>1, <2>2, SameLoop
  <1> QED
    BY <1>2, <1>3

LEMMA HandlersCreate ==
    ASSUME ToolInv, NEW h \in Handlers, NEW c \in Calls, NEW t \in Offered,
           CreateCall(h, c, t)
    PROVE  ToolInv'
  <1>1. Requested'
    BY CreateRequested DEF CreateCall
  <1> QED
    BY <1>1, SameLoop DEF CreateCall, ToolInv, Alone, AgentWaits

(* A request under way goes on.                                             *)
LEMMA Approves ==
    ASSUME ToolInv, NEW h \in Handlers, ApproveWrite(h)
    PROVE  ToolInv'
  <1> DEFINE c == job[h].call
             r == [call[c] EXCEPT !.status = "approved", !.linked = TRUE]
  <1>1. /\ h \in Requests /\ c \in Calls /\ call[c] \in Row
        /\ granted \subseteq Calls /\ acted \in [Calls -> Nat] /\ call \in [Calls -> Row]
        /\ job[h].at = "approving"
    BY InvParts DEF Requested, Requests, Job, ApproveWrite
  <1>2. r \in Row /\ r.status = "approved"
    BY <1>1 DEF Row, Statuses
  <1>3. call' = [call EXCEPT ![c] = r]
    BY <1>1 DEF ApproveWrite, Row
  <1>4. serial => ~(acted[c] > 0)
    BY <1>1 DEF ToolInv, StillStands, ActedIsSpent, Finished
  <1> HIDE DEF r
  <1>5. Requested'
    BY <1>1, <1>2, <1>3, <1>4, Defaults, OwnStep DEF ApproveWrite
  <1>6. Alone' /\ AgentWaits'
    BY <1>1, Defaults, BusyAlone DEF ApproveWrite
  <1> QED
    BY <1>5, <1>6, SameLoop DEF ApproveWrite

(* What is recorded ends the call.                                          *)
LEMMA Recorded ==
    ASSUME ToolInv, NEW h \in Requests, ExecuteRecord(h), NEW outcome \in Outcomes(job[h])
    PROVE  outcome \in Finished
  BY DEF ExecuteRecord, Outcomes, ToolInv, JobsAsked, Finished

LEMMA Advances ==
    ASSUME ToolInv, NEW h \in Requests, Advance(h)
    PROVE  ToolInv'
  <1> DEFINE c == job[h].call
  <1>1. /\ c \in Calls /\ call[c] \in Row /\ job[h] \in Job /\ job[h].read \in Row /\ job \in [Requests -> Job]
        /\ granted \subseteq Calls /\ acted \in [Calls -> Nat] /\ call \in [Calls -> Row]
    BY InvParts DEF Requested, Job
  <1>2. /\ job[h].at \in {"checking", "cleared", "refused", "running", "ran"}
        /\ UNCHANGED <<serial, catalog, waived, granted, exempt, loop>>
    BY DEF Advance, ExecuteCheck, ExecuteStart, ExecuteWrapper, ExecuteRecord
  <1>3. /\ call[c].status # "none"
        /\ acted[c] > 0 => c \in granted \cup exempt
        /\ serial /\ acted[c] > 0 => call[c].status \in Finished \cup {"running"}
    BY <1>1, <1>2 DEF ToolInv, JobsAsked, ActsOnlyIfGranted, ActedIsSpent
  <1>4. ASSUME NEW j \in Job, job' = [job EXCEPT ![h] = j], Requested'
        PROVE  ToolInv'
    BY <1>2, <1>4, BusyAlone, SameLoop
  <1>5. CASE ExecuteCheck(h)
    <2>0. PICK ground \in BOOLEAN :
            job' = [job EXCEPT ![h] =
                      IF \/ job[h].read.mutability = "read"
                         \/ MutationAllowed(c, job[h].read, job[h].approval, ground)
                      THEN [job[h] EXCEPT !.at = "cleared"]
                      ELSE [Idle EXCEPT !.at = "refused", !.call = c]]
      BY <1>1, <1>5 DEF ExecuteCheck
    <2> DEFINE Passes == \/ job[h].read.mutability = "read"
                         \/ MutationAllowed(c, job[h].read, job[h].approval, ground)
               cleared == [job[h] EXCEPT !.at = "cleared"]
               refused == [Idle EXCEPT !.at = "refused", !.call = c]
    <2>1. /\ cleared \in Job /\ cleared.at = "cleared" /\ cleared.call = c
          /\ cleared.read = job[h].read
          /\ refused \in Job /\ refused.at = "refused" /\ refused.call = c
      BY <1>1, Defaults DEF Job, Points
    <2>2. MutationAllowed(c, job[h].read, job[h].approval, ground) /\ MayAct(job[h].read) =>
            c \in granted \cup exempt
      BY <1>1, <1>5 DEF MutationAllowed, ExecuteCheck, ToolInv, ClearedGranted
    <2>3. PICK j \in {cleared, refused} :
            /\ job' = [job EXCEPT ![h] = j]
            /\ j.at = "cleared" => Passes
      <3>1. CASE Passes
        BY <2>0, <3>1
      <3>2. CASE ~Passes
        BY <2>0, <2>1, <3>2
      <3> QED
        BY <3>1, <3>2
    <2>4. /\ UNCHANGED <<call, acted>> /\ call' = [call EXCEPT ![c] = call[c]]
          /\ job[h].at = "checking"
          /\ serial => call[c].status \in {"requested", "approved"}
      BY <1>1, <1>5 DEF ExecuteCheck, ToolInv, StillStands
    <2> HIDE DEF cleared, refused
    <2>5. /\ j \in Job /\ j.call = c
          /\ j.at \in {"cleared", "refused"}
          /\ j.at = "cleared" /\ MayAct(j.read) => c \in granted \cup exempt
      BY <1>1, <2>1, <2>2, <2>3 DEF MayAct
    <2>6. Requested'
      BY <1>1, <1>2, <1>3, <2>3, <2>4, <2>5, OwnStep
    <2> QED
      BY <1>4, <2>3, <2>5, <2>6
  <1>6. CASE ExecuteStart(h)
    <2> DEFINE j == [job[h] EXCEPT !.at = "running"]
               r == [call[c] EXCEPT !.status = "running"]
    <2>1. /\ j \in Job /\ j.at = "running" /\ j.call = c /\ j.read = job[h].read
          /\ r \in Row /\ r.status = "running"
      BY <1>1 DEF Job, Row, Points, Statuses
    <2>2. /\ job' = [job EXCEPT ![h] = j] /\ call' = [call EXCEPT ![c] = r]
          /\ acted' = acted /\ job[h].at = "cleared"
      BY <1>1, <1>6 DEF ExecuteStart, Job, Row
    <2>3. /\ MayAct(job[h].read) => c \in granted \cup exempt
          /\ serial => acted[c] = 0
      BY <1>1, <2>2 DEF ToolInv, ClearedGranted, StillStands, ActedIsSpent, Finished
    <2> HIDE DEF j, r
    <2>4. Requested'
      BY <1>1, <1>2, <1>3, <2>1, <2>2, <2>3, OwnStep
    <2> QED
      BY <1>4, <2>1, <2>2, <2>4
  <1>7. CASE ExecuteWrapper(h)
    <2>1. PICK o \in Wrapper(job[h].read) :
            /\ job' = [job EXCEPT ![h] = [Idle EXCEPT !.at = "ran", !.outcome = o.status,
                                                      !.call = c]]
            /\ acted' = [acted EXCEPT ![c] = IF o.acts THEN acted[c] + 1 ELSE acted[c]]
      BY <1>7 DEF ExecuteWrapper
    <2> DEFINE j == [Idle EXCEPT !.at = "ran", !.outcome = o.status, !.call = c]
    <2>2. o.status \in Finished /\ (o.acts => MayAct(job[h].read))
      BY <1>1, WrapperAnswers
    <2>3. /\ j \in Job /\ j.at = "ran" /\ j.call = c /\ j.outcome = o.status
      BY <1>1, <2>2, Defaults DEF Job, Points
    <2>4. /\ call' = call /\ call' = [call EXCEPT ![c] = call[c]] /\ job[h].at = "running"
          /\ serial => call[c].status = "running"
          /\ MayAct(job[h].read) => c \in granted \cup exempt
      BY <1>1, <1>7 DEF ExecuteWrapper, ToolInv, StillStands, ClearedGranted
    <2>5. /\ acted' \in [Calls -> Nat]
          /\ \A d \in Calls \ {c} : acted'[d] = acted[d]
          /\ o.acts \/ acted'[c] = acted[c]
      BY <1>1, <2>1
    <2>6. job' = [job EXCEPT ![h] = j]
      BY <2>1
    <2> HIDE DEF j
    <2>7. /\ serial /\ acted'[c] > 0 => call[c].status \in Finished \cup {"running"}
          /\ acted'[c] > 0 => c \in granted \cup exempt
      BY <1>1, <2>2, <2>4, <2>5 DEF ToolInv, ActsOnlyIfGranted
    <2>8. Requested'
      BY <1>1, <1>2, <1>3, <2>2, <2>3, <2>4, <2>5, <2>6, <2>7, OwnStep
    <2> QED
      BY <1>4, <2>3, <2>6, <2>8
  <1>8. CASE ExecuteRecord(h)
    <2>1. PICK outcome \in Outcomes(job[h]) :
            /\ call' = [call EXCEPT ![c].status = outcome]
            /\ job' = [job EXCEPT ![h] = IF h = Agent
                         THEN [Idle EXCEPT !.at = "answered", !.outcome = outcome]
                         ELSE Idle]
      BY <1>8 DEF ExecuteRecord
    <2> DEFINE j == IF h = Agent THEN [Idle EXCEPT !.at = "answered", !.outcome = outcome]
                    ELSE Idle
               r == [call[c] EXCEPT !.status = outcome]
    <2>2. outcome \in Finished
      BY <1>1, <1>8, Recorded
    <2>3. /\ j \in Job /\ j.at \in {"idle", "answered"}
          /\ r \in Row /\ r.status = outcome
      BY <1>1, <2>2, Defaults DEF Job, Row, Points, Statuses, Finished
    <2>4. /\ job' = [job EXCEPT ![h] = j] /\ call' = [call EXCEPT ![c] = r] /\ acted' = acted
      BY <1>1, <1>8, <2>1 DEF ExecuteRecord, Row
    <2> HIDE DEF j, r
    <2>5. r.status # "none" /\ r.status \in Finished
      BY <2>2, <2>3 DEF Finished
    <2>6. Requested'
      BY <1>1, <1>2, <1>3, <2>3, <2>4, <2>5, OwnStep
    <2> QED
      BY <1>4, <2>3, <2>4, <2>6
  <1> QED
    BY <1>5, <1>6, <1>7, <1>8 DEF Advance

(* A step of the loop by which no request is touched but its own, which is  *)
(* dropped or stays.                                                        *)
LEMMA LoopLeaves ==
    ASSUME ToolInv, UNCHANGED <<serial, catalog, waived, call, granted, exempt, acted>>,
           loop.at \notin {"idle"} \cup Ended,
           \/ job' = job /\ (job[Agent].at = "idle" \/ loop'.at = "waiting")
           \/ job' = [job EXCEPT ![Agent] = Idle],
           LoopInv', (LoopClosesItsSteps)'
    PROVE  ToolInv'
  <1>1. /\ job \in [Requests -> Job] /\ Idle \in Job /\ Agent \in Requests /\ Idle.at = "idle"
        /\ Handlers \subseteq Requests /\ Agent \notin Handlers
    BY InvParts, Defaults, ToolAssumption DEF Requested, Requests
  <1>2. /\ job' \in [Requests -> Job]
        /\ \A g \in Requests : job'[g] = job[g] \/ job'[g] = Idle
        /\ \A h \in Handlers : job'[h] = job[h]
        /\ job'[Agent].at = "idle" \/ loop'.at = "waiting"
    BY <1>1
  <1>3. Requested'
    BY <1>2, DropStep
  <1>4. Alone' /\ AgentWaits'
    BY <1>2, LoopAlone
  <1> QED
    BY <1>3, <1>4, InvParts, SameCatalog, PartsAfter

LEMMA LoopStarts == ASSUME ToolInv, StartLoop PROVE ToolInv'
  <1>1. /\ loop \in Loop /\ loop.at = "idle" /\ loop.turn = 0 /\ StepsClosed
        /\ loop' = [loop EXCEPT !.at = "turn"] /\ MaxTurns \in Nat \ {0}
    BY ToolAssumption, InvParts DEF StartLoop, StepsClosed
  <1>2. /\ loop' \in Loop /\ loop'.at = "turn" /\ loop'.turn = 0 /\ loop'.steps = loop.steps
        /\ loop'.closed = loop.closed
    BY <1>1 DEF Loop
  <1>3. LoopInv' /\ (LoopClosesItsSteps)'
    BY <1>1, <1>2 DEF LoopInv, StepsClosed, LoopClosesItsSteps, ClosedOnce
  <1>4. job' \in [Requests -> Job] /\ \A g \in Requests : job'[g] = job[g]
    BY InvParts DEF Requested, StartLoop
  <1>5. Requested'
    BY <1>4, DropStep DEF StartLoop
  <1>6. Alone' /\ AgentWaits'
    BY <1>1 DEF ToolInv, Alone, AgentWaits, StartLoop
  <1> QED
    BY <1>3, <1>5, <1>6, InvParts, SameCatalog, PartsAfter DEF StartLoop

LEMMA LoopSteps == ASSUME ToolInv, LoopStep PROVE ToolInv'
  <1>1. /\ LoopInv /\ loop.call \in Calls
        /\ UNCHANGED <<serial, catalog, waived, granted, acted>>
        /\ loop.at \in {"turn", "asking", "calling", "waiting"}
    BY InvParts DEF LoopInv, Loop, LoopStep, BeginTurn, GeneratorFails, GeneratorFinalizes,
         GeneratorMisnames, GeneratorCalls, GeneratorRefused, LoopExecutes, LoopObserves
  <1>2. loop.at # "waiting" => job[Agent].at = "idle"
    BY DEF ToolInv, AgentWaits
  <1>3. loop.at \notin {"idle"} \cup Ended
    BY <1>1 DEF Ended
  <1>4. ASSUME loop'.at \in {"asking", "calling", "waiting", "rejected"}
        PROVE  (LoopClosesItsSteps)'
    BY <1>4 DEF LoopClosesItsSteps
  <1>5. CASE BeginTurn
    BY <1>1, <1>2, <1>3, <1>4, <1>5, BeginsTurn, LoopLeaves DEF BeginTurn
  <1>6. CASE GeneratorFails \/ GeneratorFinalizes \/ GeneratorRefused
    <2>1. /\ loop.at = "asking" /\ UNCHANGED <<call, exempt, job>>
          /\ loop' = Stop("failed", "tool_error") \/ loop' = Stop("completed", "finalize")
      BY <1>6 DEF GeneratorFails, GeneratorFinalizes, GeneratorRefused
    <2>2. LoopInv' /\ (LoopClosesItsSteps)'
      BY <1>1, <2>1, Stops
    <2> QED
      BY <1>1, <1>2, <1>3, <2>1, <2>2, LoopLeaves
  <1>7. CASE GeneratorMisnames
    <2>1. /\ loop.at = "asking" /\ UNCHANGED <<call, exempt, job>>
          /\ loop' = [loop EXCEPT !.at = "rejected", !.call = loop.call]
          /\ loop'.at = "rejected"
      BY <1>1, <1>7 DEF GeneratorMisnames, LoopInv, Loop
    <2>2. LoopInv'
      BY <1>1, <2>1, LoopMoves
    <2> QED
      BY <1>1, <1>2, <1>3, <1>4, <2>1, <2>2, LoopLeaves
  <1>8. ASSUME NEW c \in Calls, NEW t \in Offered, GeneratorCalls(c, t)
        PROVE  ToolInv'
    <2>1. /\ loop.at = "asking" /\ UNCHANGED <<exempt, job>> /\ Create(c, t)
          /\ loop' = [loop EXCEPT !.at = "calling", !.call = c] /\ loop'.at = "calling"
      BY <1>1, <1>8 DEF GeneratorCalls, LoopInv, Loop
    <2>2. LoopInv'
      BY <1>1, <2>1, LoopMoves
    <2>3. Requested'
      BY <1>1, <2>1, CreateRequested
    <2>4. Alone' /\ AgentWaits'
      BY <1>1, <1>2, <1>3, <2>1, LoopAlone
    <2> QED
      BY <1>1, <1>4, <2>1, <2>2, <2>3, <2>4, InvParts, SameCatalog, PartsAfter
  <1>9. CASE LoopExecutes
    <2> DEFINE c == loop.call
    <2>1. /\ loop.at = "calling" /\ ExecuteRead(Agent, c) /\ UNCHANGED call
          /\ loop' = [loop EXCEPT !.at = "waiting", !.call = c] /\ loop'.at = "waiting"
      BY <1>1, <1>9 DEF LoopExecutes, LoopInv, Loop
    <2>2. Requested' /\ \E j \in Job : job' = [job EXCEPT ![Agent] = j]
      BY <1>1, <1>2, <2>1, Reads DEF Requests
    <2>3. LoopInv'
      BY <1>1, <2>1, LoopMoves
    <2>4. \A h \in Handlers : job'[h] = job[h]
      BY <2>2, ToolAssumption, InvParts DEF Requested, Requests
    <2>5. Alone' /\ AgentWaits'
      BY <1>1, <1>3, <2>1, <2>4, LoopAlone
    <2> QED
      BY <1>1, <1>4, <2>1, <2>2, <2>3, <2>5, InvParts, SameCatalog, PartsAfter
  <1>10. CASE LoopObserves
    <2>1. /\ loop.at = "waiting" /\ UNCHANGED <<call, exempt>> /\ job' = [job EXCEPT ![Agent] = Idle]
          /\ loop' = AfterResult \/ loop' = Stop("failed", "tool_error")
      BY <1>10 DEF LoopObserves
    <2>2. LoopInv' /\ (LoopClosesItsSteps)'
      BY <1>1, <2>1, Stops, Answered
    <2> QED
      BY <1>1, <1>3, <2>1, <2>2, LoopLeaves
  <1> QED
    BY <1>5, <1>6, <1>7, <1>8, <1>9, <1>10 DEF LoopStep

LEMMA Restarts == ASSUME ToolInv, Restart PROVE ToolInv'
  <1>1. /\ LoopInv /\ LoopClosesItsSteps /\ Waiting.call \in Calls /\ Idle \in Job
        /\ Idle.at = "idle"
    BY InvParts, Defaults DEF LoopInv, Loop
  <1>2. job' = [h \in Requests |-> Idle]
    BY DEF Restart, Requests
  <1>3. Requested'
    BY <1>1, <1>2, DropStep DEF Restart
  <1>4. LoopInv' /\ (LoopClosesItsSteps)'
    <2>1. CASE loop.at = "idle" \/ loop.at \in Ended
      BY <1>1, <2>1 DEF Restart, LoopInv, StepsClosed, ClosedOnce, LoopClosesItsSteps
    <2>2. CASE ~(loop.at = "idle" \/ loop.at \in Ended)
      <3>1. loop' = [loop EXCEPT !.at = "gone", !.call = Waiting.call]
        BY <2>2 DEF Restart
      <3>2. loop.at \in {"turn", "asking", "calling", "waiting"} /\ loop'.at = "gone"
        BY <1>1, <2>2, <3>1 DEF LoopInv, Loop
      <3>3. LoopInv'
        BY <1>1, <3>1, <3>2, LoopMoves
      <3> QED
        BY <3>2, <3>3 DEF LoopClosesItsSteps
    <2> QED
      BY <2>1, <2>2
  <1>5. Alone' /\ AgentWaits'
    BY <1>1, <1>2 DEF Alone, AgentWaits, Requests
  <1> QED
    BY <1>3, <1>4, <1>5, InvParts, SameCatalog, PartsAfter DEF Restart

(* The requests and the loop do not look at the catalog.                    *)
LEMMA OtherMoves ==
    ASSUME ToolInv, UNCHANGED <<serial, call, granted, exempt, acted, job, loop>>,
           CatalogInv'
    PROVE  ToolInv'
  <1>1. Requested' /\ Alone' /\ AgentWaits' /\ LoopInv' /\ (LoopClosesItsSteps)'
    BY InvParts DEF Alone, AgentWaits, Requested, JobsAsked, ClearedGranted,
         StillStands, ActedIsSpent, ActsOnlyIfGranted, LoopInv, StepsClosed, ClosedOnce,
         LoopClosesItsSteps
  <1> QED
    BY <1>1, InvParts, PartsAfter

(* A standard row asks for an approval if its tool acts, and one an         *)
(* operator gives that asks for none waives its tool.                       *)
LEMMA CatalogMoves ==
    ASSUME ToolInv, NEW t \in Offered,
           UpsertStandard(t) \/ \E row \in Given : UpsertGiven(t, row)
    PROVE  ToolInv'
  <1>1. t \in Tools /\ CatalogInv /\ Given \subseteq ToolRows
    BY ToolAssumption, InvParts
  <1>2. PICK row \in ToolRows :
          /\ UpsertTool(t, row)
          /\ \/ waived' = waived \ {t} /\ (t \in Acting => row.approval)
             \/ waived' = IF row.approval THEN waived \ {t} ELSE waived \cup {t}
    <2>1. CASE UpsertStandard(t)
      BY <1>1, <2>1, StandardAsks DEF UpsertStandard
    <2>2. CASE \E row \in Given : UpsertGiven(t, row)
      BY <1>1, <2>2 DEF UpsertGiven
    <2> QED
      BY <2>1, <2>2
  <1>3. catalog' = [catalog EXCEPT ![t] = row]
    BY <1>2 DEF UpsertTool
  <1>4. CatalogInv'
    BY <1>1, <1>2, <1>3 DEF CatalogInv, ApprovalsAsked
  <1> QED
    BY <1>1, <1>2, <1>4, OtherMoves DEF UpsertTool

LEMMA StepInv == ToolInv /\ [Next]_vars => ToolInv'
  <1> SUFFICES ASSUME ToolInv, [Next]_vars PROVE ToolInv'
    OBVIOUS
  <1>1. CASE UNCHANGED vars
    BY <1>1, SameCatalog, OtherMoves, InvParts DEF vars
  <1>2. ASSUME NEW t \in Offered, UpsertStandard(t) \/ \E row \in Given : UpsertGiven(t, row)
        PROVE  ToolInv'
    BY <1>2, CatalogMoves
  <1>3. ASSUME NEW h \in Handlers, NEW c \in Calls, NEW t \in Offered, CreateCall(h, c, t)
        PROVE  ToolInv'
    BY <1>3, HandlersCreate
  <1>4. ASSUME NEW h \in Handlers, NEW c \in Calls, ApproveRead(h, c) \/ ExecuteCall(h, c)
        PROVE  ToolInv'
    BY <1>4, HandlersStart
  <1>5. ASSUME NEW h \in Handlers, ApproveWrite(h) PROVE ToolInv'
    BY <1>5, Approves
  <1>6. ASSUME NEW h \in Handlers \cup {Agent}, Advance(h) PROVE ToolInv'
    BY <1>6, Advances DEF Requests
  <1> QED
    BY <1>1, <1>2, <1>3, <1>4, <1>5, <1>6, LoopStarts, LoopSteps, Restarts DEF Next

-----------------------------------------------------------------------------
(* What a step does to the calls *)

(* A step makes a call, writes down an approval, advances a request, starts *)
(* one, or leaves calls, grants, exemptions and acts alone.                 *)
LEMMA StepKinds ==
    ASSUME ToolInv, [Next]_vars
    PROVE  \/ /\ \E c \in Calls, t \in Offered : Create(c, t)
              /\ UNCHANGED <<serial, granted, exempt, acted, job>>
           \/ \E h \in Handlers : ApproveWrite(h)
           \/ \E h \in Requests : Advance(h)
           \/ \E h \in Requests, c \in Calls :
                ExecuteRead(h, c) /\ UNCHANGED <<serial, granted, acted, call>>
           \/ UNCHANGED <<serial, granted, exempt, acted, call>>
  <1>1. loop.call \in Calls
    BY InvParts DEF Loop
  <1> QED
    BY <1>1 DEF Next, vars, CreateCall, ApproveRead, ExecuteCall, UpsertStandard, UpsertGiven,
         UpsertTool, StartLoop, LoopStep, BeginTurn, GeneratorFails,
         GeneratorFinalizes, GeneratorMisnames, GeneratorCalls, GeneratorRefused,
         LoopExecutes, LoopObserves, Restart, Requests

(* What a request that advances does to its call, and only to it.           *)
LEMMA AdvanceCall ==
    ASSUME ToolInv, NEW h \in Requests, Advance(h)
    PROVE  LET c == job[h].call IN
           /\ c \in Calls /\ call[c].status # "none" /\ UNCHANGED <<serial, granted, exempt>>
           /\ \A d \in Calls \ {c} : call'[d] = call[d]
           /\ call'[c].status # "none"
           /\ serial /\ call[c].status \in Finished => call'[c].status \in Finished
           /\ \/ acted' = acted
              \/ /\ acted' = [acted EXCEPT ![c] = acted[c] + 1]
                 /\ c \in granted \cup exempt /\ (serial => acted[c] = 0)
  <1> DEFINE c == job[h].call
  <1>1. /\ c \in Calls /\ call[c] \in Row /\ job[h].read \in Row
        /\ acted \in [Calls -> Nat] /\ call \in [Calls -> Row]
    BY InvParts DEF Requested, Job
  <1>2. /\ job[h].at \in {"checking", "cleared", "refused", "running", "ran"}
        /\ UNCHANGED <<serial, granted, exempt>>
    BY DEF Advance, ExecuteCheck, ExecuteStart, ExecuteWrapper, ExecuteRecord
  <1>3. call[c].status # "none"
    BY <1>2 DEF ToolInv, JobsAsked
  <1>4. CASE ExecuteCheck(h)
    BY <1>1, <1>2, <1>3, <1>4 DEF ExecuteCheck
  <1>5. CASE ExecuteStart(h)
    <2>1. serial => call[c].status \notin Finished
      BY <1>5 DEF ExecuteStart, ToolInv, StillStands, Finished
    <2>2. /\ acted' = acted /\ call'[c].status = "running"
          /\ \A d \in Calls \ {c} : call'[d] = call[d]
      BY <1>1, <1>5 DEF ExecuteStart, Row
    <2> QED
      BY <1>1, <1>2, <1>3, <2>1, <2>2
  <1>6. CASE ExecuteWrapper(h)
    <2>1. PICK o \in Wrapper(job[h].read) :
            acted' = [acted EXCEPT ![c] = IF o.acts THEN acted[c] + 1 ELSE acted[c]]
      BY <1>6 DEF ExecuteWrapper
    <2>2. o.acts => c \in granted \cup exempt /\ (serial => acted[c] = 0)
      BY <1>1, <1>6, WrapperAnswers
         DEF ExecuteWrapper, ToolInv, ClearedGranted, StillStands
    <2>3. acted' = acted \/ (o.acts /\ acted' = [acted EXCEPT ![c] = acted[c] + 1])
      BY <1>1, <2>1
    <2> QED
      BY <1>1, <1>2, <1>3, <1>6, <2>2, <2>3 DEF ExecuteWrapper
  <1>7. CASE ExecuteRecord(h)
    <2>1. PICK outcome \in Outcomes(job[h]) :
            acted' = acted /\ call' = [call EXCEPT ![c].status = outcome]
      BY <1>7 DEF ExecuteRecord
    <2>2. outcome \in Finished
      BY <1>7, Recorded
    <2>3. call'[c].status = outcome /\ \A d \in Calls \ {c} : call'[d] = call[d]
      BY <1>1, <2>1 DEF Row
    <2>4. call'[c].status # "none"
      BY <2>2, <2>3 DEF Finished
    <2> QED
      BY <1>1, <1>2, <1>3, <2>1, <2>2, <2>3, <2>4
  <1> QED
    BY <1>4, <1>5, <1>6, <1>7 DEF Advance

(* And one that writes an approval down.                                    *)
LEMMA ApproveCall ==
    ASSUME ToolInv, NEW h \in Handlers, ApproveWrite(h)
    PROVE  LET c == job[h].call IN
           /\ c \in Calls /\ call[c].status # "none" /\ UNCHANGED <<serial, exempt, acted>>
           /\ \A d \in Calls \ {c} : call'[d] = call[d]
           /\ call'[c].status # "none" /\ granted' = granted \cup {c}
           /\ serial => call[c].status \notin Finished
  <1> DEFINE c == job[h].call
  <1>1. h \in Requests /\ c \in Calls /\ call \in [Calls -> Row]
    BY InvParts DEF Requested, Requests, Job
  <1>2. /\ call[c].status # "none" /\ (serial => call[c].status \notin Finished)
    BY <1>1 DEF ApproveWrite, ToolInv, JobsAsked, StillStands, Finished
  <1>3. call'[c].status = "approved" /\ \A d \in Calls \ {c} : call'[d] = call[d]
    BY <1>1 DEF ApproveWrite, Row
  <1> QED
    BY <1>1, <1>2, <1>3 DEF ApproveWrite

(* What CallLedger sees of a step is one of its own or nothing.             *)
LEMMA LedgerStep == ToolInv /\ [Next]_vars => [Ledger!Next]_(Ledger!ledger)
  <1> SUFFICES ASSUME ToolInv, [Next]_vars PROVE [Ledger!Next]_(Ledger!ledger)
    OBVIOUS
  <1> DEFINE asked == {c \in Calls : call[c].status # "none"}
  <1> USE DEF Ledger!Next, Ledger!ledger, Ledger!Ask, Ledger!Grant, Ledger!Exempt,
             Ledger!Act
  <1>1. ASSUME NEW c \in Calls, NEW t \in Offered, Create(c, t),
               UNCHANGED <<serial, granted, exempt, acted, job>>
        PROVE  [Ledger!Next]_(Ledger!ledger)
    <2>1. c \notin asked /\ asked' = asked \cup {c}
      BY <1>1, CreateTyped
    <2>2. Ledger!Ask(c)
      BY <1>1, <2>1
    <2> QED
      BY <2>2
  <1>2. ASSUME NEW h \in Handlers, ApproveWrite(h) PROVE [Ledger!Next]_(Ledger!ledger)
    <2> DEFINE c == job[h].call
    <2>1. c \in asked /\ asked' = asked
      BY <1>2, ApproveCall
    <2>2. Ledger!Grant(c) /\ c \in Calls
      BY <1>2, <2>1, ApproveCall
    <2> QED
      BY <2>2
  <1>3. ASSUME NEW h \in Requests, Advance(h) PROVE [Ledger!Next]_(Ledger!ledger)
    <2> DEFINE c == job[h].call
    <2>1. asked' = asked /\ UNCHANGED <<serial, granted, exempt>> /\ c \in Calls
      BY <1>3, AdvanceCall
    <2>2. CASE acted' = acted
      BY <2>1, <2>2
    <2>3. CASE acted' # acted
      <3>1. Ledger!Act(c)
        BY <1>3, <2>1, <2>3, AdvanceCall
      <3> QED
        BY <2>1, <3>1
    <2> QED
      BY <2>2, <2>3
  <1>4. ASSUME NEW h \in Requests, NEW c \in Calls, ExecuteRead(h, c),
               UNCHANGED <<serial, granted, acted, call>>
        PROVE  [Ledger!Next]_(Ledger!ledger)
    <2>1. c \in asked /\ asked' = asked
      BY <1>4 DEF ExecuteRead
    <2>2. exempt' = exempt \/ exempt' = exempt \cup {c}
      BY <1>4 DEF ExecuteRead
    <2> QED
      BY <1>4, <2>1, <2>2
  <1>5. CASE UNCHANGED <<serial, granted, exempt, acted, call>>
    BY <1>5
  <1> QED
    BY <1>1, <1>2, <1>3, <1>4, <1>5, StepKinds

-----------------------------------------------------------------------------
(* Theorems *)

LEMMA Invariance == Spec => []ToolInv
  BY InitInv, StepInv, PTL DEF Spec

(* Every variable keeps its type; see TypeOK.                               *)
THEOREM TypeCorrect == Spec => []TypeOK
  <1>1. ToolInv => TypeOK
    BY DEF ToolInv
  <1> QED
    BY <1>1, Invariance, PTL

(* However requests interleave, whatever the catalog becomes and whenever   *)
(* the server stops, a call acts only when it was granted, or was started   *)
(* while an operator's own row waived its tool's approval; see              *)
(* ActsOnlyIfGranted.                                                       *)
THEOREM ActsOnlyGranted == Spec => []ActsOnlyIfGranted
  <1>1. ToolInv => ActsOnlyIfGranted
    BY DEF ToolInv
  <1> QED
    BY <1>1, Invariance, PTL

(* Where no row that operators give drops the approval, no call acts        *)
(* without a grant: starts of executions and setups, which disagree on the  *)
(* tools' mutability, never make room for one.                              *)
THEOREM NothingWaivedNothingUngranted ==
    ASSUME \A row \in Given : row.approval
    PROVE  Spec => [](\A c \in Calls : acted[c] > 0 => c \in granted)
  <1> DEFINE None == waived = {} /\ exempt = {}
             Granted == \A c \in Calls : acted[c] > 0 => c \in granted
  <1>1. Init => None
    BY DEF Init
  <1>2. None /\ [Next]_vars => None'
    <2> SUFFICES ASSUME None, [Next]_vars PROVE None'
      OBVIOUS
    <2>1. ASSUME NEW t \in Offered, UpsertStandard(t) \/ \E row \in Given : UpsertGiven(t, row)
          PROVE  None'
      BY <2>1 DEF UpsertStandard, UpsertGiven, UpsertTool
    <2>2. ASSUME NEW h, NEW c, ExecuteRead(h, c), waived' = waived
          PROVE  None'
      BY <2>2 DEF ExecuteRead
    <2>3. CASE UNCHANGED <<waived, exempt>>
      BY <2>3
    <2> QED
      BY <2>1, <2>2, <2>3
         DEF Next, vars, CreateCall, ApproveRead, ApproveWrite, ExecuteCall, Advance,
             ExecuteCheck, ExecuteStart, ExecuteWrapper, ExecuteRecord, StartLoop,
             LoopStep, BeginTurn, GeneratorFails, GeneratorFinalizes, GeneratorMisnames,
             GeneratorCalls, GeneratorRefused, LoopExecutes, LoopObserves, Restart
  <1>3. None /\ ToolInv => Granted
    BY DEF ToolInv, ActsOnlyIfGranted
  <1> QED
    BY <1>1, <1>2, <1>3, Invariance, PTL DEF Spec

(* runAgentLoop returns with every step it opened closed, by whichever of   *)
(* its ways out; see LoopClosesItsSteps.                                    *)
THEOREM LoopClosesSteps == Spec => []LoopClosesItsSteps
  <1>1. ToolInv => LoopClosesItsSteps
    BY DEF ToolInv
  <1> QED
    BY <1>1, Invariance, PTL

(* Requests that come one at a time leave a finished call finished; see     *)
(* FinishedStaysFinished.                                                   *)
THEOREM FinishedIsFinal == Spec => FinishedStaysFinished
  <1>1. ToolInv /\ [Next]_vars =>
          [serial => \A c \in Calls :
             call[c].status \in Finished => call'[c].status \in Finished]_vars
    <2> SUFFICES ASSUME ToolInv, [Next]_vars, serial, NEW c \in Calls,
                        call[c].status \in Finished
                 PROVE  call'[c].status \in Finished
      OBVIOUS
    <2>1. ASSUME NEW d \in Calls, NEW t \in Offered, Create(d, t)
          PROVE  call'[c].status \in Finished
      BY <2>1, CreateTyped DEF Finished
    <2>2. ASSUME NEW h \in Handlers, ApproveWrite(h) PROVE call'[c].status \in Finished
      BY <2>2, ApproveCall
    <2>3. ASSUME NEW h \in Requests, Advance(h) PROVE call'[c].status \in Finished
      BY <2>3, AdvanceCall
    <2> QED
      BY <2>1, <2>2, <2>3, StepKinds
  <1> QED
    BY <1>1, Invariance, PTL DEF Spec, FinishedStaysFinished

(* The service implements CallLedger: no act without a grant or an          *)
(* operator's exemption, and at most one while requests come one at a time; *)
(* see KeepsTheLedger.                                                      *)
THEOREM ImplementsLedger == Spec => KeepsTheLedger
  <1>1. Init => Ledger!Init
    BY DEF Init, Ledger!Init, NoCall
  <1> QED
    BY <1>1, LedgerStep, Invariance, PTL DEF Spec, KeepsTheLedger, Ledger!Spec
=============================================================================
