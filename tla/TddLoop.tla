------------------------------ MODULE TddLoop -------------------------------
(***************************************************************************)
(* The red-green loop over one execution's approved verification items:     *)
(* driveTddLoop (packages/agent/src/execution.ts) around                    *)
(* runExecutionVerificationIteration (packages/test-runner/src/index.ts).   *)
(* An iteration takes the items that are approved, runs every command once  *)
(* before the edits (pre_red) and everything after them (post_green), and   *)
(* leaves rows, item statuses and files behind, each written in a step of   *)
(* its own.  The process may stop between any two of them, and the host may *)
(* then drive the loop again.                                               *)
(*                                                                         *)
(* The evaluator and retryExecution are called through what they return;   *)
(* RetryLadder models what they do.                                         *)
(***************************************************************************)
EXTENDS Integers, FiniteSets, Sequences

CONSTANTS
    N,              \* items of the approved plan, in order
    Shapes,         \* the items there can be (see Shape)
    MaxIterations,  \* maxIterations of driveTddLoop
    MaxDrives       \* times the host drives the loop (bound)

(* What the dispatch looks at: kind and runner, the mode configJson names,  *)
(* and whether there are a command, a page to open and an expectedAssetId.  *)
Shape == [kind : {"logic", "integration", "visual", "evidence", "pdf", "a11y"},
          runner : {"none", "playwright", "axe"},
          mode : {"none", "screenshot", "layout-check", "asset-presence", "axe", "other"},
          command : BOOLEAN, url : BOOLEAN, expects : BOOLEAN]

ASSUME TddAssumption ==
    /\ N \in Nat \ {0}
    /\ Shapes \subseteq Shape
    /\ MaxIterations \in Nat \ {0}
    /\ MaxDrives \in Nat

Items == 1..N

VARIABLES
    item,      \* VerificationItem rows: what does not change
    status,    \* their status
    runnable,  \* plan approved, execution and task in a state to verify
    assets,    \* SourceOfTruthAsset: the expected, the linked, the task's
    runs,      \* TestRun rows, in order
    results,   \* VisualVerificationResult rows of each item, in order
    logs,      \* run whose stdout.log and stderr.log the item's directory holds
    meta,      \* run whose meta.json it holds
    loop,      \* the loop in progress
    drives     \* times the loop was driven

vars == <<item, status, runnable, assets, runs, results, logs, meta, loop, drives>>

Phases == {"pre_red", "post_green"}
AssetStatus == {"absent", "proposed", "approved"}
Returned == {"passed", "tdd_invariant_violated", "retry_terminated",
             "max_iterations", "rejected"}

NotDriven == [at |-> "idle", iteration |-> 0, items |-> {}, todo |-> {},
              phase |-> "pre_red", logicPassed |-> FALSE, failed |-> FALSE,
              run |-> 0, answer |-> "none", outcome |-> "none"]

TypeOK ==
    /\ item \in [Items -> Shapes]
    /\ status \in [Items -> {"approved", "running", "green", "failed"}]
    /\ runnable \in BOOLEAN
    /\ assets \in [{"expected", "linked", "task"} -> AssetStatus]
    /\ runs \in Seq([item : Items, phase : Phases, iteration : 1..MaxIterations,
                     status : {"running", "passed", "failed"}])
    /\ results \in [Items -> Seq({"passed", "failed", "blocked"})]
    /\ logs \in [Items -> 0..Len(runs)]
    /\ meta \in [Items -> 0..Len(runs)]
    /\ loop \in
         [at : {"idle", "reading", "next", "started", "ran", "recorded", "axe",
                "resolved", "browsing", "returned", "evaluated", "done"},
          iteration : 0..MaxIterations, items : SUBSET Items, todo : SUBSET Items,
          phase : Phases, logicPassed : BOOLEAN, failed : BOOLEAN,
          run : 0..Len(runs), answer : {"none", "passed", "failed", "blocked"},
          outcome : Returned \cup {"none"}]
    /\ drives \in 0..MaxDrives

-----------------------------------------------------------------------------
(* Dispatch *)

(* resolveVisualVerificationMode: an item that names no mode has one by its *)
(* kind, and asset-presence when its kind has none.                         *)
VisualMode(i) ==
    CASE i.mode # "none" -> i.mode
      [] i.kind = "pdf" -> "pdf-render"
      [] i.kind = "evidence" -> "manual-evidence"
      [] i.kind = "visual" /\ i.runner = "playwright" -> "screenshot"
      [] OTHER -> "asset-presence"

IsVisual(i) ==
    \/ i.kind \in {"visual", "pdf", "evidence"}
    \/ VisualMode(i) \in {"screenshot", "layout-check", "pdf-render",
                          "manual-evidence", "asset-presence"}

IsA11y(i) == i.kind = "a11y" \/ i.runner = "axe" \/ i.mode = "axe"

Supported(i) == i.command \/ IsVisual(i) \/ IsA11y(i)

(* The logic check looks at the kind only; a logic item without a command   *)
(* never runs before the edits.                                             *)
IsLogic(i) == i.kind = "logic"

(* resolveVisualSourceAsset: the expected asset alone when the item names   *)
(* one, else the item's, else the task's.                                   *)
AssetUsable(i) ==
    IF i.expects THEN assets["expected"] = "approved"
    ELSE \E a \in {"linked", "task"} : assets[a] = "approved"

(* A screenshot is compared only when there is a page and a picture.        *)
Browses(i) == VisualMode(i) = "screenshot" /\ i.url /\ AssetUsable(i)

-----------------------------------------------------------------------------
(* An iteration *)

Init ==
    /\ item \in [Items -> Shapes]
    /\ status = [i \in Items |-> "approved"]
    /\ runnable = TRUE
    /\ assets \in [{"expected", "linked", "task"} -> {"absent", "proposed"}]
    /\ runs = <<>>
    /\ results = [i \in Items |-> <<>>]
    /\ logs = [i \in Items |-> 0]
    /\ meta = [i \in Items |-> 0]
    /\ loop = NotDriven
    /\ drives = 0

(* Faulty: items that ran and failed are taken again.                       *)
SnapshotFailedToo == {i \in Items : status[i] \in {"approved", "failed"}}

(* getExecutionVerificationRunContext: the plan's approved items;           *)
(* what ran before is green or failed, and what was running when the        *)
(* process stopped is running, and neither is taken again.                  *)
Snapshot == {i \in Items : status[i] = "approved"}

Reject == [loop EXCEPT !.at = "done", !.outcome = "rejected"]

Drive ==
    /\ loop.at \in {"idle", "done"}
    /\ drives < MaxDrives
    /\ drives' = drives + 1
    /\ loop' = [NotDriven EXCEPT !.at = "reading", !.iteration = 1]
    /\ UNCHANGED <<item, status, runnable, assets, runs, results, logs, meta>>

(* Faulty: items without a command take part in pre_red.                    *)
ReadContextAll ==
    /\ loop.at = "reading"
    /\ loop' = IF runnable /\ Snapshot # {}
               THEN [loop EXCEPT !.at = "next", !.phase = "pre_red", !.run = 0,
                                 !.items = Snapshot, !.todo = Snapshot,
                                 !.logicPassed = FALSE, !.failed = FALSE]
               ELSE Reject
    /\ UNCHANGED <<item, status, runnable, assets, runs, results, logs, meta, drives>>

(* runExecutionVerificationIteration reads the execution and refuses one    *)
(* that is not to be verified, has nothing left or holds an unsupported     *)
(* item; driveTddLoop does not catch it.                                    *)
ReadContext ==
    /\ loop.at = "reading"
    /\ loop' = IF /\ runnable
                  /\ Snapshot # {}
                  /\ \A i \in Snapshot : Supported(item[i])
               THEN [loop EXCEPT !.at = "next", !.phase = "pre_red", !.run = 0,
                                 !.items = Snapshot,
                                 !.todo = {i \in Snapshot : item[i].command},
                                 !.logicPassed = FALSE, !.failed = FALSE]
               ELSE Reject
    /\ UNCHANGED <<item, status, runnable, assets, runs, results, logs, meta, drives>>

(* Items are taken in the order of the plan.                                *)
Current == CHOOSE i \in loop.todo : \A k \in loop.todo : i <= k

(* createTestRun: a row without an iteration counts as one of the first.    *)
CreateRun(i, phase, iteration) ==
    /\ runs' = Append(runs, [item |-> i, phase |-> phase, iteration |-> iteration,
                             status |-> "running"])
    /\ status' = [status EXCEPT ![i] = "running"]

(* runCommandItem, up to the transaction that starts the run                *)
StartCommand ==
    /\ loop.at = "next" /\ loop.todo # {}
    /\ item[Current].command
    /\ CreateRun(Current, loop.phase, loop.iteration)
    /\ loop' = [loop EXCEPT !.at = "started", !.run = Len(runs')]
    /\ UNCHANGED <<item, runnable, assets, results, logs, meta, drives>>

(* runCapturedCommand runs to its end and writes both logs into the item's  *)
(* directory, whatever the phase.                                           *)
RunCommand ==
    /\ loop.at = "started"
    /\ \E answer \in {"passed", "failed"} :
         loop' = [loop EXCEPT !.at = "ran", !.answer = answer]
    /\ logs' = [logs EXCEPT ![Current] = loop.run]
    /\ UNCHANGED <<item, status, runnable, assets, runs, results, meta, drives>>

(* Faulty: the item takes the status of the run.                            *)
FinishRunUnmapped(answer) ==
    /\ runs' = [runs EXCEPT ![loop.run].status = answer]
    /\ status' = [status EXCEPT ![Current] = answer]

(* updateTestRun and the item's status, in one transaction                  *)
FinishRun(answer) ==
    /\ runs' = [runs EXCEPT ![loop.run].status = answer]
    /\ status' = [status EXCEPT ![Current] = IF answer = "passed" THEN "green" ELSE "failed"]

RecordCommand ==
    /\ loop.at = "ran"
    /\ FinishRun(loop.answer)
    /\ loop' = [loop EXCEPT !.at = "recorded"]
    /\ UNCHANGED <<item, runnable, assets, results, logs, meta, drives>>

(* What the iteration keeps of an item's outcome.                           *)
Noted(answer) ==
    IF loop.phase = "pre_red"
    THEN [loop EXCEPT !.logicPassed = @ \/ (answer = "passed" /\ IsLogic(item[Current])),
                      !.at = "next", !.todo = @ \ {Current}]
    ELSE [loop EXCEPT !.failed = @ \/ answer # "passed", !.at = "next", !.todo = @ \ {Current}]

(* Faulty: the file is written only when the command passed.                *)
WriteMetaOfPasses ==
    /\ loop.at = "recorded"
    /\ meta' = IF loop.answer = "passed" THEN [meta EXCEPT ![Current] = loop.run] ELSE meta
    /\ loop' = Noted(loop.answer)
    /\ UNCHANGED <<item, status, runnable, assets, runs, results, logs, drives>>

(* writeTestRunMetaFile                                                     *)
WriteMeta ==
    /\ loop.at = "recorded"
    /\ meta' = [meta EXCEPT ![Current] = loop.run]
    /\ loop' = Noted(loop.answer)
    /\ UNCHANGED <<item, status, runnable, assets, runs, results, logs, drives>>

(* pre_red is over.  A logic command that passed aborts the iteration with  *)
(* a task.failed event.                                                     *)
AbortOnGreen ==
    /\ loop.at = "next" /\ loop.phase = "pre_red" /\ loop.todo = {}
    /\ loop.logicPassed
    /\ loop' = [loop EXCEPT !.at = "done", !.outcome = "tdd_invariant_violated"]
    /\ UNCHANGED <<item, status, runnable, assets, runs, results, logs, meta, drives>>

TurnGreen ==
    /\ loop.at = "next" /\ loop.phase = "pre_red" /\ loop.todo = {}
    /\ ~loop.logicPassed
    /\ loop' = [loop EXCEPT !.phase = "post_green", !.todo = loop.items]
    /\ UNCHANGED <<item, status, runnable, assets, runs, results, logs, meta, drives>>

(* runA11yVerificationItem: a row that says neither phase nor iteration.    *)
StartAxe ==
    /\ loop.at = "next" /\ loop.todo # {}
    /\ ~item[Current].command /\ IsA11y(item[Current])
    /\ CreateRun(Current, "post_green", 1)
    /\ loop' = [loop EXCEPT !.at = "axe", !.run = Len(runs')]
    /\ UNCHANGED <<item, runnable, assets, results, logs, meta, drives>>

(* Without a page, or with a browser that throws, the check has failed.     *)
FinishAxe ==
    /\ loop.at = "axe"
    /\ \E answer \in IF item[Current].url THEN {"passed", "failed"} ELSE {"failed"} :
         /\ FinishRun(answer)
         /\ loop' = Noted(answer)
    /\ UNCHANGED <<item, runnable, assets, results, logs, meta, drives>>

(* runVisualVerificationItem reads the assets ...                           *)
ResolveAsset ==
    /\ loop.at = "next" /\ loop.todo # {}
    /\ ~item[Current].command /\ ~IsA11y(item[Current])
    /\ loop' = [loop EXCEPT
         !.at = IF Browses(item[Current]) THEN "browsing" ELSE "resolved",
         !.answer = IF AssetUsable(item[Current]) THEN "passed" ELSE "blocked"]
    /\ status' = IF Browses(item[Current])
                 THEN [status EXCEPT ![Current] = "running"] ELSE status
    /\ UNCHANGED <<item, runnable, assets, runs, results, logs, meta, drives>>

(* persistVisualVerificationResult and the item's status                    *)
RecordResult(answer) ==
    /\ results' = [results EXCEPT ![Current] = Append(@, answer)]
    /\ status' = [status EXCEPT ![Current] = IF answer = "passed" THEN "green" ELSE "failed"]
    /\ loop' = Noted(answer)

(* ... and either records, in one transaction, whether there is one ...     *)
RecordEvidence ==
    /\ loop.at = "resolved"
    /\ RecordResult(loop.answer)
    /\ UNCHANGED <<item, runnable, assets, runs, logs, meta, drives>>

(* ... or has the browser compare a screenshot with it, which may throw.    *)
RecordComparison ==
    /\ loop.at = "browsing"
    /\ \E answer \in {"passed", "failed"} : RecordResult(answer)
    /\ UNCHANGED <<item, runnable, assets, runs, logs, meta, drives>>

-----------------------------------------------------------------------------
(* The loop *)

(* Faulty: the outcome of pre_red is returned as the iteration's.           *)
ReturnEarly ==
    /\ loop.at = "next" /\ loop.todo = {}
    /\ loop.phase = "post_green" \/ ~loop.logicPassed
    /\ loop' = IF loop.failed THEN [loop EXCEPT !.at = "returned"]
               ELSE [loop EXCEPT !.at = "done", !.outcome = "passed"]
    /\ UNCHANGED <<item, status, runnable, assets, runs, results, logs, meta, drives>>

Return ==
    /\ loop.at = "next" /\ loop.todo = {}
    /\ loop.phase = "post_green"
    /\ loop' = IF loop.failed THEN [loop EXCEPT !.at = "returned"]
               ELSE [loop EXCEPT !.at = "done", !.outcome = "passed"]
    /\ UNCHANGED <<item, status, runnable, assets, runs, results, logs, meta, drives>>

(* The evaluator hook: it may say stop, say anything else, throw or be      *)
(* missing.                                                                 *)
Evaluate ==
    /\ loop.at = "returned"
    /\ loop' \in {[loop EXCEPT !.at = "evaluated"],
                  [loop EXCEPT !.at = "done", !.outcome = "retry_terminated"],
                  Reject}
    /\ UNCHANGED <<item, status, runnable, assets, runs, results, logs, meta, drives>>

(* Faulty: a thrown evaluation is swallowed and the loop stays where it is. *)
RetryStuck ==
    /\ loop.at = "evaluated"
    /\ loop' \in {[loop EXCEPT !.at = "reading"], [loop EXCEPT !.at = "returned"]}
    /\ UNCHANGED <<item, status, runnable, assets, runs, results, logs, meta, drives>>

(* retryExecution gives the next attempt, gives up or throws.               *)
Retry ==
    /\ loop.at = "evaluated"
    /\ \/ /\ loop' = IF loop.iteration < MaxIterations
                     THEN [loop EXCEPT !.at = "reading", !.iteration = @ + 1]
                     ELSE [loop EXCEPT !.at = "done", !.outcome = "max_iterations"]
          /\ UNCHANGED runnable
       \/ /\ loop' = [loop EXCEPT !.at = "done", !.outcome = "retry_terminated"]
          /\ runnable' = FALSE
       \/ /\ loop' = Reject
          /\ UNCHANGED runnable
    /\ UNCHANGED <<item, status, assets, runs, results, logs, meta, drives>>

-----------------------------------------------------------------------------
(* Around it *)

(* approveSourceAsset, and ingestProjectSourceAsset, which takes the        *)
(* approval of a file it reads again back                                   *)
ApproveAsset(a) ==
    /\ assets[a] = "proposed"
    /\ assets' = [assets EXCEPT ![a] = "approved"]
    /\ UNCHANGED <<item, status, runnable, runs, results, logs, meta, loop, drives>>

IngestAsset(a) ==
    /\ assets[a] # "proposed"
    /\ assets' = [assets EXCEPT ![a] = "proposed"]
    /\ UNCHANGED <<item, status, runnable, runs, results, logs, meta, loop, drives>>

(* Other requests finish the execution or take its plan's approval.         *)
Withdraw ==
    /\ runnable
    /\ runnable' = FALSE
    /\ UNCHANGED <<item, status, assets, runs, results, logs, meta, loop, drives>>

(* The process stops; rows and files stay.                                  *)
Restart ==
    /\ loop.at \notin {"idle", "done"}
    /\ loop' = NotDriven
    /\ UNCHANGED <<item, status, runnable, assets, runs, results, logs, meta, drives>>

LoopStep ==
    \/ ReadContext
    \/ StartCommand \/ RunCommand \/ RecordCommand \/ WriteMeta
    \/ AbortOnGreen \/ TurnGreen
    \/ StartAxe \/ FinishAxe
    \/ ResolveAsset \/ RecordEvidence \/ RecordComparison
    \/ Return \/ Evaluate \/ Retry

Next ==
    \/ Drive
    \/ LoopStep
    \/ \E a \in {"expected", "linked", "task"} : ApproveAsset(a) \/ IngestAsset(a)
    \/ Withdraw
    \/ Restart

(* What the loop awaits (database, commands, browser, model) comes back.    *)
Spec == Init /\ [][Next]_vars /\ WF_vars(LoopStep)

-----------------------------------------------------------------------------
(* Properties *)

Ran(i, phase) == {r \in 1..Len(runs) : runs[r].item = i /\ runs[r].phase = phase}

(* A loop that passed leaves every item it took green, and every command it *)
(* took ran before the edits and passed after them; a logic command failed  *)
(* before them.  The first loop over a plan leaves nothing of the plan out; *)
(* a later one may: it does not look at what failed or was running.         *)
PassedIsRedThenGreen ==
    loop.outcome = "passed" =>
        /\ drives = 1 => \A i \in Items : status[i] = "green"
        /\ \A i \in loop.items :
             /\ status[i] = "green"
             /\ item[i].command =>
                  \E red \in Ran(i, "pre_red"), green \in Ran(i, "post_green") :
                    /\ red < green
                    /\ runs[green].status = "passed"
                    /\ IsLogic(item[i]) => runs[red].status = "failed"

(* An iteration that aborted ran nothing after the edits.                   *)
AbortedBeforeGreen ==
    loop.outcome = "tdd_invariant_violated" =>
        \A i \in loop.items : Ran(i, "post_green") = {} /\ results[i] = <<>>

(* An item is verified once: whatever fails, restarts or is driven again,   *)
(* it has one row for each phase or one result at most, all of the first    *)
(* iteration, so that a retried iteration finds nothing to run.             *)
VerifiedOnce ==
    /\ \A i \in Items : /\ \A phase \in Phases : Cardinality(Ran(i, phase)) <= 1
                        /\ Len(results[i]) <= 1
    /\ \A r \in 1..Len(runs) : runs[r].iteration = 1

(* The files of a command's directory are of its newest run, meta.json once *)
(* the loop has gone on from it; they lag behind only for a run that was in *)
(* progress when the process stopped.                                       *)
FilesFollowRows ==
    \A i \in Items :
      LET mine == {r \in Ran(i, "pre_red") \cup Ran(i, "post_green") :
                     item[i].command /\ runs[r].status # "running"}
      IN /\ meta[i] <= logs[i]
         /\ \A r \in mine : r <= logs[i]
         /\ drives = 1 /\ loop.at = "next" => \A r \in mine : r <= meta[i]

(* A loop that is driven ends: it returns, it throws or the process stops.  *)
DriveEnds == loop.at = "reading" ~> loop.at \in {"done", "idle"}
=============================================================================
