------------------------------ MODULE Planning ------------------------------
(***************************************************************************)
(* A planner run from its interview to its approval, and the review         *)
(* artifacts on the way: the routes under /planner/runs, /review-artifacts, *)
(* /approvals and /validations (apps/api/src/app.ts), plannerRepository.ts  *)
(* and reviewArtifactRepository.ts (packages/db), the interview rules of    *)
(* packages/planner/src/service.ts, and generatePlaywrightSpec with its     *)
(* staging files (packages/agent).                                          *)
(*                                                                         *)
(* A proposal has one task with one Playwright validation; generating a     *)
(* proposal again replaces both, so they are named by the proposal's        *)
(* number.  What a file or an artifact says is the number of its code.      *)
(***************************************************************************)
EXTENDS Integers, FiniteSets, Sequences

CONSTANTS
    Handlers,      \* requests the API serves at the same time
    Rounds,        \* rounds of the interview, in order
    MaxRequests,   \* requests that are served (bound)
    MaxProposals,  \* proposals that are generated (bound)
    MaxCodes       \* specs that are generated (bound)

ASSUME PlanningAssumption ==
    /\ Rounds \in Nat \ {0}
    /\ {MaxRequests, MaxProposals, MaxCodes} \subseteq Nat

VARIABLES
    serial,      \* the API is given one request at a time
    served,      \* requests so far
    restarted,   \* the server has stopped at least once
    interview,   \* rounds in PlannerRun.interviewJson
    run,         \* PlannerRun: its status and the proposal it has
    task,        \* status of the proposal's task
    branched,    \* rows that refer to the task (TaskBranch, TaskExecution)
    validation,  \* Validation of the proposal: status, and whether
                 \* testFilePath names the generated spec
    artifacts,   \* ReviewArtifact rows, in order
    staging,     \* code in each validation's staging file, 0 if none
    published,   \* code in tests/generated of each validation, 0 if none
    codes,       \* specs generated so far
    torn,        \* validations whose spec was removed for a new one that was
                 \* not renamed: the server stopped or the rename failed
    undecided,   \* validations whose spec was moved by a decision that was not
                 \* recorded: the server stopped or the transaction failed
    job          \* what each request is doing

files == <<staging, published, codes, torn, undecided>>
rows == <<run, task, branched, validation>>
vars == <<serial, served, restarted, interview, rows, artifacts, files, job>>

Proposals == 1..MaxProposals
Idle == [at |-> "idle", todo |-> {}, read |-> {}, artifact |-> 0,
         decision |-> "none", subject |-> 0, code |-> 0]

TypeOK ==
    /\ serial \in BOOLEAN /\ restarted \in BOOLEAN
    /\ served \in 0..MaxRequests
    /\ interview \subseteq 1..Rounds
    /\ run \in [status : {"interviewing", "generated", "approved", "rejected"},
                proposal : 0..MaxProposals]
    /\ task \in {"none", "planned", "awaiting_verification_approval"}
    /\ branched \in BOOLEAN
    /\ validation \in [status : {"none", "proposed", "approved", "rejected"},
                       path : BOOLEAN]
    /\ artifacts \in Seq([subject : {"planner_run", "validation"},
                          of : Proposals, code : 0..MaxCodes,
                          status : {"pending", "approved", "rejected"}])
    /\ staging \in [Proposals -> 0..codes]
    /\ published \in [Proposals -> 0..codes]
    /\ codes \in 0..MaxCodes
    /\ torn \subseteq Proposals /\ undecided \subseteq Proposals
    /\ job \in [Handlers ->
         [at : {"idle", "answering", "merging", "generating", "generated", "showing",
                "deciding", "removed", "filed", "specifying", "staged"},
          todo : SUBSET (1..Rounds), read : SUBSET (1..Rounds), artifact : Nat,
          decision : {"none", "approved", "rejected"},
          subject : 0..MaxProposals, code : 0..MaxCodes]]

-----------------------------------------------------------------------------
(* The interview *)

(* getExpectedNextInterviewRound; 0 when every round is answered.           *)
NextRound(answered) ==
    IF answered = 1..Rounds THEN 0
    ELSE CHOOSE r \in (1..Rounds) \ answered :
           \A q \in (1..Rounds) \ answered : r <= q

(* evaluateInterviewSubmission, for the rounds of a submission in their     *)
(* order: each must be the one expected once those before it are merged.    *)
Accepted(answered, rounds) ==
    /\ rounds # {}
    /\ \A r \in rounds : r = NextRound(answered \cup {q \in rounds : q < r})

Free(h) ==
    /\ job[h].at = "idle"
    /\ served < MaxRequests
    /\ serial => \A g \in Handlers : job[g].at = "idle"

Serve(h, work) ==
    /\ Free(h)
    /\ served' = served + 1
    /\ job' = [job EXCEPT ![h] = work]

Init ==
    /\ serial \in BOOLEAN
    /\ served = 0
    /\ restarted = FALSE
    /\ interview = {}
    /\ run = [status |-> "interviewing", proposal |-> 0]
    /\ task = "none"
    /\ branched = FALSE
    /\ validation = [status |-> "none", path |-> FALSE]
    /\ artifacts = <<>>
    /\ staging = [p \in Proposals |-> 0]
    /\ published = [p \in Proposals |-> 0]
    /\ codes = 0
    /\ torn = {}
    /\ undecided = {}
    /\ job = [h \in Handlers |-> Idle]

(* POST /planner/runs/:id/answers reads the interview once, judges the      *)
(* whole submission by it and then applies it round by round.               *)
Answer(h, rounds) ==
    /\ Accepted(interview, rounds)
    /\ Serve(h, [Idle EXCEPT !.at = "answering", !.todo = rounds])
    /\ UNCHANGED <<serial, restarted, interview, rows, artifacts, files>>

(* updatePlannerInterview reads the row again ...                           *)
MergeRead(h) ==
    /\ job[h].at = "answering"
    /\ job' = [job EXCEPT ![h].at = "merging", ![h].read = interview]
    /\ UNCHANGED <<serial, served, restarted, interview, rows, artifacts, files>>

(* Faulty: the last round of a submission is applied first.                 *)
MergeWriteBackwards(h) ==
    LET r == CHOOSE q \in job[h].todo : \A p \in job[h].todo : p <= q IN
    /\ job[h].at = "merging"
    /\ interview' = job[h].read \cup {r}
    /\ job' = [job EXCEPT ![h] = IF job[h].todo = {r} THEN Idle
                                 ELSE [job[h] EXCEPT !.at = "answering",
                                                   !.todo = job[h].todo \ {r}]]
    /\ UNCHANGED <<serial, served, restarted, rows, artifacts, files>>

(* ... and writes what it read with the round's answer added.               *)
MergeWrite(h) ==
    LET r == CHOOSE q \in job[h].todo : \A p \in job[h].todo : q <= p IN
    /\ job[h].at = "merging"
    /\ interview' = job[h].read \cup {r}
    /\ job' = [job EXCEPT ![h] = IF job[h].todo = {r} THEN Idle
                                 ELSE [job[h] EXCEPT !.at = "answering",
                                                   !.todo = job[h].todo \ {r}]]
    /\ UNCHANGED <<serial, served, restarted, rows, artifacts, files>>

-----------------------------------------------------------------------------
(* Proposals *)

(* POST /planner/runs/:id/generate, with a proposal or for the planner's    *)
(* models to write one; it asks neither for an interview nor for a status.  *)
Generate(h) ==
    /\ Serve(h, [Idle EXCEPT !.at = "generating"])
    /\ UNCHANGED <<serial, restarted, interview, rows, artifacts, files>>

(* Faulty: the run keeps its status.                                        *)
PersistKeepingStatus(h) ==
    /\ job[h].at = "generating"
    /\ ~branched
    /\ run.proposal < MaxProposals
    /\ run' = [run EXCEPT !.proposal = @ + 1]
    /\ task' = "planned"
    /\ validation' = [status |-> "proposed", path |-> FALSE]
    /\ job' = [job EXCEPT ![h].at = "generated"]
    /\ UNCHANGED <<serial, served, restarted, interview, branched, artifacts, files>>

(* persistPlannerProposal: one transaction that deletes what the run had    *)
(* and creates the new proposal.                                            *)
PersistProposal(h) ==
    /\ job[h].at = "generating"
    /\ ~branched
    /\ run.proposal < MaxProposals
    /\ run' = [status |-> "generated", proposal |-> run.proposal + 1]
    /\ task' = "planned"
    /\ validation' = [status |-> "proposed", path |-> FALSE]
    /\ job' = [job EXCEPT ![h].at = "generated"]
    /\ UNCHANGED <<serial, served, restarted, interview, branched, artifacts, files>>

(* A model or the normalization throws, or the transaction does: a task     *)
(* that has a branch cannot be deleted.                                     *)
GenerateFails(h) ==
    /\ job[h].at = "generating"
    /\ job' = [job EXCEPT ![h] = Idle]
    /\ UNCHANGED <<serial, served, restarted, interview, rows, artifacts, files>>

(* getPlannerRunDetail for the artifact's page ...                          *)
ShowProposal(h) ==
    /\ job[h].at = "generated"
    /\ job' = [job EXCEPT ![h].at = "showing", ![h].subject = run.proposal]
    /\ UNCHANGED <<serial, served, restarted, interview, rows, artifacts, files>>

(* createReviewArtifact                                                     *)
CreateArtifact(subject, of, code) ==
    artifacts' = Append(artifacts, [subject |-> subject, of |-> of, code |-> code,
                                    status |-> "pending"])

(* ... and createPlannerReviewArtifact.                                     *)
ReviewProposal(h) ==
    /\ job[h].at = "showing"
    /\ CreateArtifact("planner_run", job[h].subject, 0)
    /\ job' = [job EXCEPT ![h] = Idle]
    /\ UNCHANGED <<serial, served, restarted, interview, rows, files>>

(* applyPlannerRunApproval, and the same in decideReviewArtifact: whatever  *)
(* the run's status, and whatever proposal it has by now.                   *)
DecideRun(granted) ==
    /\ run' = [run EXCEPT !.status = IF granted THEN "approved" ELSE "rejected"]
    /\ task' = IF granted /\ task = "planned"
               THEN "awaiting_verification_approval" ELSE task
    /\ UNCHANGED <<branched, validation>>

(* POST /approvals for the run                                              *)
ApproveRun(h, granted) ==
    /\ Serve(h, Idle)
    /\ DecideRun(granted)
    /\ UNCHANGED <<serial, restarted, interview, artifacts, files>>

(* POST /validations/:id/approve and /reject                                *)
DecideValidation(h, granted) ==
    /\ validation.status # "none"
    /\ Serve(h, Idle)
    /\ validation' = [validation EXCEPT !.status = IF granted THEN "approved" ELSE "rejected"]
    /\ UNCHANGED <<serial, restarted, interview, run, task, branched, artifacts, files>>

(* The task is prepared for execution.                                      *)
PrepareBranch ==
    /\ task = "awaiting_verification_approval"
    /\ branched' = TRUE
    /\ UNCHANGED <<serial, served, restarted, interview, run, task, validation,
                   artifacts, files, job>>

-----------------------------------------------------------------------------
(* Playwright specs *)

(* POST /validations/:id/generate-spec reads the validation, has a model    *)
(* write the spec ...                                                       *)
GenerateSpec(h) ==
    /\ validation.status # "none"
    /\ Serve(h, [Idle EXCEPT !.at = "specifying", !.subject = run.proposal])
    /\ UNCHANGED <<serial, restarted, interview, rows, artifacts, files>>

(* ... writes it to the validation's one staging file ...                   *)
StageSpec(h) ==
    /\ job[h].at = "specifying"
    /\ \/ /\ codes < MaxCodes
          /\ codes' = codes + 1
          /\ staging' = [staging EXCEPT ![job[h].subject] = codes + 1]
          /\ job' = [job EXCEPT ![h].at = "staged", ![h].code = codes + 1]
       \/ /\ job' = [job EXCEPT ![h] = Idle]
          /\ UNCHANGED <<codes, staging>>
    /\ UNCHANGED <<serial, served, restarted, interview, rows, artifacts,
                   published, torn, undecided>>

(* ... and asks for its review.                                             *)
ReviewSpec(h) ==
    /\ job[h].at = "staged"
    /\ CreateArtifact("validation", job[h].subject, job[h].code)
    /\ job' = [job EXCEPT ![h] = Idle]
    /\ UNCHANGED <<serial, served, restarted, interview, rows, files>>

(* POST /review-artifacts for a validation, with no spec                    *)
RequestReview(h) ==
    /\ validation.status # "none"
    /\ Serve(h, Idle)
    /\ CreateArtifact("validation", run.proposal, 0)
    /\ UNCHANGED <<serial, restarted, interview, rows, files>>

(* POST /review-artifacts/:id/approve and /reject: decideReviewArtifact     *)
(* reads the artifact, whatever its status ...                              *)
Decide(h, a, decision) ==
    /\ Serve(h, [Idle EXCEPT !.at = IF artifacts[a].code # 0 THEN "deciding" ELSE "filed",
                             !.artifact = a, !.decision = decision,
                             !.subject = artifacts[a].of])
    /\ UNCHANGED <<serial, restarted, interview, rows, artifacts, files>>

(* ... a spec's validation, which may be gone, and its staging file, which  *)
(* a rejection removes ...                                                  *)
DropStaged(h) ==
    /\ job[h].at = "deciding"
    /\ job[h].decision = "rejected"
    /\ run.proposal = job[h].subject
    /\ staging' = [staging EXCEPT ![job[h].subject] = 0]
    /\ job' = [job EXCEPT ![h].at = "filed"]
    /\ UNCHANGED <<serial, served, restarted, interview, rows, artifacts,
                   published, codes, torn, undecided>>

(* ... and an approval moves to where the tests are: what is there is       *)
(* removed first ...                                                        *)
RemovePublished(h) ==
    /\ job[h].at = "deciding"
    /\ job[h].decision = "approved"
    /\ run.proposal = job[h].subject
    /\ staging[job[h].subject] # 0
    /\ published' = [published EXCEPT ![job[h].subject] = 0]
    /\ torn' = torn \ {job[h].subject}
    /\ job' = [job EXCEPT ![h].at = "removed"]
    /\ UNCHANGED <<serial, served, restarted, interview, rows, artifacts,
                   staging, codes, undecided>>

(* ... and the staged file renamed, in the same turn of the event loop ...  *)
Publish(h) ==
    /\ job[h].at = "removed"
    /\ published' = [published EXCEPT ![job[h].subject] = staging[job[h].subject]]
    /\ staging' = [staging EXCEPT ![job[h].subject] = 0]
    /\ job' = [job EXCEPT ![h].at = "filed"]
    /\ UNCHANGED <<serial, served, restarted, interview, rows, artifacts,
                   codes, torn, undecided>>

(* ... or renameSync throws: the old spec is gone and the new one stays     *)
(* where it was staged.                                                     *)
RenameThrows(h) ==
    /\ job[h].at = "removed"
    /\ torn' = torn \cup {job[h].subject}
    /\ job' = [job EXCEPT ![h] = Idle]
    /\ UNCHANGED <<serial, served, restarted, interview, rows, artifacts,
                   staging, published, codes, undecided>>

(* A validation or a staging file that is not there is an error, and every  *)
(* query and file operation up to then may fail.                            *)
DecideThrows(h) ==
    /\ job[h].at = "deciding"
    /\ job' = [job EXCEPT ![h] = Idle]
    /\ UNCHANGED <<serial, served, restarted, interview, rows, artifacts, files>>

(* Faulty: the validation takes the path of its spec whatever was decided.  *)
SetDecidedEither(h) ==
    /\ validation' = [validation EXCEPT !.status = job[h].decision, !.path = TRUE]
    /\ UNCHANGED <<run, task, branched>>

(* The decided validation                                                   *)
SetDecided(h) ==
    /\ validation' = [validation EXCEPT
         !.status = job[h].decision,
         !.path = @ \/ (job[h].decision = "approved" /\ artifacts[job[h].artifact].code # 0)]
    /\ UNCHANGED <<run, task, branched>>

(* Faulty: the artifact stays pending.                                      *)
CommitUndecided(h) ==
    LET a == job[h].artifact IN
    /\ job[h].at = "filed"
    /\ artifacts[a].subject = "validation" => run.proposal = artifacts[a].of
    /\ IF artifacts[a].subject = "planner_run"
       THEN DecideRun(job[h].decision = "approved")
       ELSE SetDecided(h)
    /\ job' = [job EXCEPT ![h] = Idle]
    /\ UNCHANGED <<serial, served, restarted, interview, artifacts, files>>

(* Faulty: the artifact takes the status of the approval row.               *)
CommitGranted(h) ==
    LET a == job[h].artifact IN
    /\ job[h].at = "filed"
    /\ artifacts[a].subject = "validation" => run.proposal = artifacts[a].of
    /\ IF artifacts[a].subject = "planner_run"
       THEN DecideRun(job[h].decision = "approved")
       ELSE SetDecided(h)
    /\ artifacts' = [artifacts EXCEPT ![a].status =
                       IF job[h].decision = "approved" THEN "granted" ELSE "rejected"]
    /\ job' = [job EXCEPT ![h] = Idle]
    /\ UNCHANGED <<serial, served, restarted, interview, files>>

(* The transaction: approval, subject, artifact and event.                  *)
Commit(h) ==
    LET a == job[h].artifact IN
    /\ job[h].at = "filed"
    /\ artifacts[a].subject = "validation" => run.proposal = artifacts[a].of
    /\ IF artifacts[a].subject = "planner_run"
       THEN DecideRun(job[h].decision = "approved")
       ELSE SetDecided(h)
    /\ artifacts' = [artifacts EXCEPT ![a].status = job[h].decision]
    /\ job' = [job EXCEPT ![h] = Idle]
    /\ UNCHANGED <<serial, served, restarted, interview, files>>

(* What the requests of H have moved and not recorded yet.                  *)
MovedBy(H) ==
    {job[h].subject : h \in
       {g \in H : /\ job[g].at = "filed" /\ job[g].decision = "approved"
                  /\ artifacts[job[g].artifact].code # 0}}

(* It may fail, and does when the validation was deleted in the meantime;   *)
(* the files stay as they are by now.                                       *)
CommitThrows(h) ==
    /\ job[h].at = "filed"
    /\ undecided' = undecided \cup MovedBy({h})
    /\ job' = [job EXCEPT ![h] = Idle]
    /\ UNCHANGED <<serial, served, restarted, interview, rows, artifacts,
                   staging, published, codes, torn>>

(* The server stops: rows and files stay.                                   *)
Restart ==
    /\ ~restarted
    /\ restarted' = TRUE
    /\ torn' = torn \cup {job[h].subject : h \in {g \in Handlers : job[g].at = "removed"}}
    /\ undecided' = undecided \cup MovedBy(Handlers)
    /\ job' = [h \in Handlers |-> Idle]
    /\ UNCHANGED <<serial, served, interview, rows, artifacts, staging, published, codes>>

-----------------------------------------------------------------------------

(* A request that is between the two file operations gives way to no other. *)
Running == {h \in Handlers : job[h].at = "removed"}

Request(h) ==
    \/ \E rounds \in SUBSET (1..Rounds) : Answer(h, rounds)
    \/ Generate(h)
    \/ \E granted \in BOOLEAN : ApproveRun(h, granted) \/ DecideValidation(h, granted)
    \/ GenerateSpec(h) \/ RequestReview(h)
    \/ \E a \in 1..Len(artifacts), d \in {"approved", "rejected"} : Decide(h, a, d)

Continue(h) ==
    \/ MergeRead(h) \/ MergeWrite(h)
    \/ PersistProposal(h) \/ GenerateFails(h) \/ ShowProposal(h) \/ ReviewProposal(h)
    \/ StageSpec(h) \/ ReviewSpec(h)
    \/ DropStaged(h) \/ RemovePublished(h) \/ DecideThrows(h)
    \/ Commit(h) \/ CommitThrows(h)

Next ==
    \/ \E h \in Handlers : Publish(h) \/ RenameThrows(h)
    \/ /\ Running = {}
       /\ \/ \E h \in Handlers : Request(h) \/ Continue(h)
          \/ PrepareBranch
    \/ Restart

Spec == Init /\ [][Next]_vars

-----------------------------------------------------------------------------
(* Properties *)

(* While requests do not overlap an interview only grows, by the round it   *)
(* was waiting for, in whatever batches the rounds come and wherever the    *)
(* server stops.  Overlapping submissions lose rounds and leave gaps.       *)
InterviewAdvances ==
    [][serial /\ interview' # interview =>
         interview' = interview \cup {NextRound(interview)}]_vars

(* A run that stands approved has no task that is still to be approved:     *)
(* a new proposal takes the approval back, in the transaction that brings   *)
(* its tasks, and every approval moves all of them on.                      *)
TasksFollowTheRun == run.status = "approved" => task # "planned"

(* A validation that names its generated spec has one, unless the last move *)
(* that was to replace it broke off between removing the old file and       *)
(* renaming the new one, because the server stopped or the rename failed:   *)
(* no other failure, order of decisions or new proposal loses it.           *)
SpecNotLost ==
    validation.path =>
        \/ published[run.proposal] # 0
        \/ run.proposal \in torn
        \/ \E h \in Running : job[h].subject = run.proposal

(* While requests do not overlap, a spec is where the tests are only once a *)
(* spec of its validation is decided, whatever fails and whenever the       *)
(* server stops; but a decision may have moved it and then not been         *)
(* recorded.                                                                *)
PublishedWasDecided ==
    serial /\ (\A h \in Handlers : job[h].at = "idle") =>
        \A p \in Proposals \ undecided : published[p] # 0 =>
            \E a \in 1..Len(artifacts) :
              /\ artifacts[a].subject = "validation" /\ artifacts[a].of = p
              /\ artifacts[a].code # 0 /\ artifacts[a].status # "pending"

(* playwrightGenerator.ts: "Approval moves this spec into the project's     *)
(* generated Playwright test directory." - the spec the artifact shows.     *)
(* Stated for requests that do not overlap and a server that does not stop; *)
(* TLC refutes even this: see README.                                       *)
ApprovalMovesThisSpec ==
    serial /\ ~restarted => \A p \in Proposals : published[p] # 0 =>
        \E a \in 1..Len(artifacts) :
          /\ artifacts[a].subject = "validation" /\ artifacts[a].of = p
          /\ artifacts[a].code = published[p]
          /\ \/ artifacts[a].status # "pending"
             \/ \E h \in Handlers : job[h].artifact = a
=============================================================================
