--------------------------- MODULE PlanningProofs ---------------------------
(***************************************************************************)
(* Proofs about Planning, for any number of requests, rounds, proposals and *)
(* specs.                                                                  *)
(***************************************************************************)
EXTENDS Planning, WellFoundedInduction, TLAPS

(* A set of natural numbers that is not empty has a least element.          *)
LEMMA FirstOf ==
    ASSUME NEW T \in SUBSET Nat, T # {}
    PROVE  \E x \in T : \A y \in T : x <= y
  <1> DEFINE R == OpToRel(<, Nat)
  <1>1. IsWellFoundedOn(R, Nat)
    BY NatLessThanWellFounded
  <1>2. PICK x \in T : \A y \in T : ~ (<<y, x>> \in R)
    <2> HIDE DEF R
    <2> QED
      BY <1>1, WFMin
  <1>3. \A y \in T : ~ (y < x)
    BY <1>2 DEF OpToRel
  <1> QED
    BY <1>3

Job == [at : {"idle", "answering", "merging", "generating", "generated", "showing",
              "deciding", "removed", "filed", "specifying", "staged"},
        todo : SUBSET (1..Rounds), read : SUBSET (1..Rounds), artifact : Nat,
        decision : {"none", "approved", "rejected"},
        subject : 0..MaxProposals, code : 0..MaxCodes]

Artifact == [subject : {"planner_run", "validation"}, of : Proposals,
             code : 0..MaxCodes, status : {"pending", "approved", "rejected"}]

(* What a request at work names: rounds still to be merged, a proposal that *)
(* was there, and an artifact of that proposal, one with a spec while its   *)
(* files are moved.                                                         *)
PlacedIn(j, shown, p) ==
    /\ j.at \in {"answering", "merging"} => j.todo # {}
    /\ j.at = "generated" => p > 0
    /\ j.at \in {"showing", "specifying", "staged"} => j.subject > 0
    /\ j.at \in {"deciding", "removed", "filed"} =>
         /\ j.artifact \in 1..Len(shown) /\ j.subject = shown[j.artifact].of
         /\ j.decision \in {"approved", "rejected"}
    /\ j.at \in {"deciding", "removed"} => shown[j.artifact].code # 0

Placed == \A h \in Handlers : PlacedIn(job[h], artifacts, run.proposal)

(* Only validations have specs, and there is one once there is a proposal.  *)
SpecsAreOfValidations ==
    \A a \in 1..Len(artifacts) :
      artifacts[a].code # 0 => artifacts[a].subject = "validation"

ValidationHasRun == validation.status # "none" \/ validation.path => run.proposal > 0

Core ==
    /\ TypeOK /\ Placed /\ SpecsAreOfValidations /\ ValidationHasRun

(* A validation's spec is where the tests are, torn, or about to be         *)
(* renamed.                                                                 *)
Kept(p) ==
    \/ published[p] # 0
    \/ p \in torn
    \/ \E h \in Running : job[h].subject = p

(* One request at most is between the two file operations, and the file it  *)
(* is to rename is there.                                                   *)
OneRemoves ==
    \A g, h \in Handlers : job[g].at = "removed" /\ job[h].at = "removed" => g = h

RemovedIsStaged ==
    \A h \in Running : job[h].decision = "approved" /\ staging[job[h].subject] # 0

(* What an approval is about to commit has been moved.                      *)
Moved(j, shown) == j.at = "filed" /\ j.decision = "approved" /\ shown[j.artifact].code # 0

FiledIsKept == \A h \in Handlers : Moved(job[h], artifacts) => Kept(job[h].subject)

Files == OneRemoves /\ RemovedIsStaged /\ FiledIsKept /\ SpecNotLost

-----------------------------------------------------------------------------
(* Requests that come one at a time *)

Alone ==
    serial => \A g, h \in Handlers : job[g].at # "idle" /\ job[h].at # "idle" => g = h

(* The rest of a submission is what the interview, as read, is waiting for. *)
InOrder ==
    serial => \A h \in Handlers :
      /\ job[h].at \in {"answering", "merging"} => Accepted(interview, job[h].todo)
      /\ job[h].at = "merging" => job[h].read = interview

(* A validation whose files were moved is still that of the run.            *)
StillThere ==
    serial => \A h \in Handlers :
      \/ job[h].at = "removed"
      \/ job[h].at = "filed" /\ artifacts[job[h].artifact].code # 0
      => run.proposal = job[h].subject

(* A spec that was moved was decided, or will be by the request that did,   *)
(* or was to be by one that broke off.                                      *)
Decided(p) ==
    \E a \in 1..Len(artifacts) :
      /\ artifacts[a].subject = "validation" /\ artifacts[a].of = p
      /\ artifacts[a].code # 0 /\ artifacts[a].status # "pending"

MovedIsDecided ==
    serial => \A p \in Proposals \ undecided : published[p] # 0 =>
      Decided(p) \/ \E h \in Handlers : Moved(job[h], artifacts) /\ job[h].subject = p

PlanInv ==
    /\ Core /\ TasksFollowTheRun /\ Files
    /\ Alone /\ InOrder /\ StillThere /\ MovedIsDecided

-----------------------------------------------------------------------------
(* The beginning *)

LEMMA Constants == Rounds \in Nat \ {0} /\ MaxRequests \in Nat /\ MaxProposals \in Nat
                   /\ MaxCodes \in Nat /\ Proposals = 1..MaxProposals
  BY PlanningAssumption DEF Proposals

LEMMA IdleJob ==
    /\ Idle \in Job /\ Idle.at = "idle"
    /\ Idle.todo = {} /\ Idle.read = {} /\ Idle.artifact = 0 /\ Idle.decision = "none"
    /\ Idle.subject = 0 /\ Idle.code = 0
  BY Constants DEF Idle, Job

LEMMA InitInv == Init => PlanInv
  <1> SUFFICES ASSUME Init PROVE PlanInv
    OBVIOUS
  <1> USE Constants, IdleJob DEF Init
  <1>1. TypeOK
    <2>1. job \in [Handlers -> Job]
      OBVIOUS
    <2>2. artifacts = <<>> /\ artifacts \in Seq(Artifact)
      OBVIOUS
    <2>3. /\ staging \in [Proposals -> 0..codes] /\ published \in [Proposals -> 0..codes]
          /\ codes \in 0..MaxCodes
      OBVIOUS
    <2>4. /\ served \in 0..MaxRequests
          /\ run \in [status : {"interviewing", "generated", "approved", "rejected"},
                      proposal : 0..MaxProposals]
      OBVIOUS
    <2> QED
      BY <2>1, <2>2, <2>3, <2>4 DEF TypeOK, Job, Artifact
  <1>2. Placed /\ SpecsAreOfValidations /\ ValidationHasRun
    BY DEF Placed, PlacedIn, SpecsAreOfValidations, ValidationHasRun
  <1>3. TasksFollowTheRun /\ Files
    BY DEF TasksFollowTheRun, Files, OneRemoves, RemovedIsStaged, FiledIsKept, Moved,
           SpecNotLost, Running
  <1>4. Alone /\ InOrder /\ StillThere /\ MovedIsDecided
    BY DEF Alone, InOrder, StillThere, MovedIsDecided
  <1> QED
    BY <1>1, <1>2, <1>3, <1>4 DEF PlanInv, Core

-----------------------------------------------------------------------------
(* Steps of one request *)

(* Artifacts are added and decided, never changed, and proposals go up.     *)
Grows ==
    /\ Len(artifacts) <= Len(artifacts')
    /\ \A a \in 1..Len(artifacts) :
         /\ artifacts'[a].subject = artifacts[a].subject
         /\ artifacts'[a].of = artifacts[a].of /\ artifacts'[a].code = artifacts[a].code
         /\ artifacts[a].status # "pending" => artifacts'[a].status # "pending"
    /\ run.proposal <= run'.proposal

(* A request takes its turn and goes on with j.                             *)
Turn(h, j) ==
    /\ job' = [job EXCEPT ![h] = j]
    /\ serial' = serial
    /\ job[h].at # "idle" \/ Free(h)

Typed ==
    /\ serial \in BOOLEAN /\ restarted \in BOOLEAN
    /\ served \in 0..MaxRequests
    /\ interview \subseteq 1..Rounds
    /\ run \in [status : {"interviewing", "generated", "approved", "rejected"},
                proposal : 0..MaxProposals]
    /\ task \in {"none", "planned", "awaiting_verification_approval"}
    /\ branched \in BOOLEAN
    /\ validation \in [status : {"none", "proposed", "approved", "rejected"},
                       path : BOOLEAN]
    /\ artifacts \in Seq(Artifact)
    /\ staging \in [Proposals -> 0..codes]
    /\ published \in [Proposals -> 0..codes]
    /\ codes \in 0..MaxCodes
    /\ torn \subseteq Proposals /\ undecided \subseteq Proposals

(* Nothing shrinks while the artifacts and the run stay as they are.        *)
LEMMA SameGrows ==
    ASSUME Typed, UNCHANGED <<run, artifacts>>
    PROVE  Grows
  <1>1. Len(artifacts) \in Nat /\ run.proposal \in Nat
    BY Constants DEF Typed
  <1> QED
    BY <1>1 DEF Grows

LEMMA CoreParts ==
    Core <=> /\ Typed /\ job \in [Handlers -> Job] /\ Placed
             /\ SpecsAreOfValidations /\ ValidationHasRun
  BY DEF Core, TypeOK, Typed, Job, Artifact

LEMMA TurnCore ==
    ASSUME Core, NEW h \in Handlers, NEW j \in Job, job' = [job EXCEPT ![h] = j],
           Typed', Grows, PlacedIn(j, artifacts', run'.proposal),
           SpecsAreOfValidations', ValidationHasRun'
    PROVE  Core'
  <1>1. /\ job \in [Handlers -> Job] /\ artifacts \in Seq(Artifact)
        /\ artifacts' \in Seq(Artifact)
        /\ run.proposal \in Nat /\ run'.proposal \in Nat
    BY Constants, CoreParts DEF Typed
  <1>2. /\ job' \in [Handlers -> Job] /\ job'[h] = j
        /\ \A g \in Handlers \ {h} : job'[g] = job[g]
    BY <1>1
  <1>3. ASSUME NEW g \in Handlers, g # h PROVE PlacedIn(job[g], artifacts', run'.proposal)
    BY <1>1, CoreParts DEF Placed, PlacedIn, Grows
  <1>4. Placed'
    BY <1>2, <1>3 DEF Placed
  <1>5. TypeOK'
    BY <1>2 DEF TypeOK, Typed, Job, Artifact
  <1> QED
    BY <1>4, <1>5 DEF Core

LEMMA TurnAlone ==
    ASSUME PlanInv, NEW h \in Handlers, NEW j \in Job, Turn(h, j)
    PROVE  Alone'
  <1>1. job \in [Handlers -> Job]
    BY CoreParts DEF PlanInv
  <1> QED
    BY <1>1 DEF PlanInv, Alone, Turn, Free

(* A turn that leaves the interview alone.                                  *)
LEMMA TurnInOrder ==
    ASSUME PlanInv, NEW h \in Handlers, NEW j \in Job, Turn(h, j),
           UNCHANGED interview, j.at \notin {"answering", "merging"}
    PROVE  InOrder'
  <1>1. /\ job \in [Handlers -> Job] /\ job'[h] = j
        /\ \A g \in Handlers \ {h} : job'[g] = job[g]
    BY CoreParts DEF PlanInv, Turn
  <1> QED
    BY <1>1 DEF PlanInv, InOrder, Turn

(* A turn that moves no file, while no other request does.                  *)
LEMMA TurnFiles ==
    ASSUME PlanInv, Core', NEW h \in Handlers, NEW j \in Job, Turn(h, j), Running = {}, Grows,
           UNCHANGED <<published, torn>>, j.at # "removed", ~Moved(j, artifacts'),
           validation'.path => (validation.path /\ run'.proposal = run.proposal)
                               \/ Kept(run'.proposal)
    PROVE  Files'
  <1>1. /\ job \in [Handlers -> Job] /\ job'[h] = j
        /\ \A g \in Handlers \ {h} : job'[g] = job[g]
    BY CoreParts DEF PlanInv, Turn
  <1>2. Running' = {}
    BY <1>1 DEF Running
  <1>3. \A p : Kept(p) => published'[p] # 0 \/ p \in torn'
    BY DEF Kept
  <1>4. OneRemoves' /\ RemovedIsStaged'
    BY <1>2 DEF OneRemoves, RemovedIsStaged, Running
  <1>5. FiledIsKept'
    <2> SUFFICES ASSUME NEW g \in Handlers, Moved(job'[g], artifacts')
                 PROVE  published'[job'[g].subject] # 0 \/ job'[g].subject \in torn'
      BY DEF FiledIsKept, Kept
    <2>1. g # h /\ job'[g] = job[g]
      BY <1>1
    <2>2. job[g].artifact \in 1..Len(artifacts)
      BY <2>1 DEF PlanInv, Core, Placed, PlacedIn, Moved
    <2>3. Moved(job[g], artifacts)
      BY <2>1, <2>2 DEF Moved, Grows
    <2> QED
      BY <1>3, <2>1, <2>3 DEF PlanInv, Files, FiledIsKept
  <1>6. SpecNotLost'
    <2>1. validation.path => Kept(run.proposal)
      BY DEF PlanInv, Files, SpecNotLost, Kept
    <2> QED
      BY <1>3, <2>1 DEF SpecNotLost
  <1> QED
    BY <1>4, <1>5, <1>6 DEF Files

(* A turn that neither ends a move nor leads to one nor replaces a          *)
(* proposal that is being worked on.                                        *)
LEMMA TurnDecided ==
    ASSUME PlanInv, NEW h \in Handlers, NEW j \in Job, Turn(h, j), Grows,
           UNCHANGED published, undecided \subseteq undecided',
           serial => ~Moved(job[h], artifacts) \/ job[h].subject \in undecided',
           j.at # "removed",
           j.at = "filed" /\ artifacts'[j.artifact].code # 0 => run'.proposal = j.subject
    PROVE  StillThere' /\ MovedIsDecided'
  <1>1. /\ job \in [Handlers -> Job] /\ job'[h] = j
        /\ \A g \in Handlers \ {h} : job'[g] = job[g]
    BY CoreParts DEF PlanInv, Turn
  <1>2. \A g \in Handlers : job[g].at = "filed" => job[g].artifact \in 1..Len(artifacts)
    BY DEF PlanInv, Core, Placed, PlacedIn
  <1>3. StillThere'
    <2> SUFFICES ASSUME serial, NEW g \in Handlers,
                        \/ job'[g].at = "removed"
                        \/ job'[g].at = "filed" /\ artifacts'[job'[g].artifact].code # 0
                 PROVE  run'.proposal = job'[g].subject
      BY DEF StillThere, Turn
    <2>1. CASE g = h
      BY <1>1, <2>1
    <2>2. CASE g # h
      <3>1. job[g].at = "idle" /\ job'[g] = job[g]
        BY <1>1, <2>2 DEF PlanInv, Alone, Turn, Free
      <3> QED
        BY <3>1
    <2> QED
      BY <2>1, <2>2
  <1>4. MovedIsDecided'
    <2> SUFFICES ASSUME serial, NEW p \in Proposals \ undecided', published[p] # 0
                 PROVE  Decided(p)' \/ \E g \in Handlers :
                            Moved(job'[g], artifacts') /\ job'[g].subject = p
      BY DEF MovedIsDecided, Turn
    <2>1. CASE Decided(p)
      <3>1. PICK a \in 1..Len(artifacts) :
              /\ artifacts[a].subject = "validation" /\ artifacts[a].of = p
              /\ artifacts[a].code # 0 /\ artifacts[a].status # "pending"
        BY <2>1 DEF Decided
      <3>2. /\ a \in 1..Len(artifacts') /\ artifacts'[a].subject = "validation"
            /\ artifacts'[a].of = p /\ artifacts'[a].code # 0
            /\ artifacts'[a].status # "pending"
        BY <3>1, CoreParts DEF Grows, PlanInv, Typed
      <3> QED
        BY <3>2 DEF Decided
    <2>2. CASE ~Decided(p)
      <3>1. PICK g \in Handlers : Moved(job[g], artifacts) /\ job[g].subject = p
        BY <2>2 DEF PlanInv, MovedIsDecided
      <3>2. g # h /\ job'[g] = job[g]
        BY <1>1, <3>1
      <3>3. Moved(job'[g], artifacts')
        BY <1>2, <3>1, <3>2 DEF Moved, Grows
      <3> QED
        BY <3>1, <3>2, <3>3
    <2> QED
      BY <2>1, <2>2
  <1> QED
    BY <1>3, <1>4

(* All of that together: a turn that moves no file and leaves the interview *)
(* alone.                                                                   *)
LEMMA TurnInv ==
    ASSUME PlanInv, NEW h \in Handlers, NEW j \in Job, Turn(h, j), Running = {},
           Typed', Grows, PlacedIn(j, artifacts', run'.proposal),
           SpecsAreOfValidations', ValidationHasRun', TasksFollowTheRun',
           UNCHANGED <<interview, published, torn>>, undecided \subseteq undecided',
           j.at \notin {"removed", "answering", "merging"}, ~Moved(j, artifacts'),
           j.at = "filed" /\ artifacts'[j.artifact].code # 0 => run'.proposal = j.subject,
           serial => ~Moved(job[h], artifacts) \/ job[h].subject \in undecided',
           validation'.path => (validation.path /\ run'.proposal = run.proposal)
                               \/ Kept(run'.proposal)
    PROVE  PlanInv'
  <1>1. Core'
    BY TurnCore DEF PlanInv, Turn
  <1>2. Alone' /\ InOrder'
    BY TurnAlone, TurnInOrder
  <1>3. Files'
    BY <1>1, TurnFiles
  <1>4. StillThere' /\ MovedIsDecided'
    BY TurnDecided
  <1> QED
    BY <1>1, <1>2, <1>3, <1>4 DEF PlanInv

(* And one that moves nothing but the request itself.                       *)
LEMMA QuietTurn ==
    ASSUME PlanInv, NEW h \in Handlers, NEW j \in Job, Turn(h, j), Running = {},
           served' \in 0..MaxRequests,
           UNCHANGED <<restarted, interview, rows, artifacts, files>>,
           PlacedIn(j, artifacts, run.proposal),
           j.at \notin {"removed", "answering", "merging"},
           j.at = "filed" => artifacts[j.artifact].code = 0,
           serial => ~Moved(job[h], artifacts)
    PROVE  PlanInv'
  <1>1. UNCHANGED <<serial, run, task, branched, validation, staging, published, codes, torn,
                  undecided>>
    BY DEF rows, files, Turn
  <1>2. Typed
    BY CoreParts DEF PlanInv
  <1>3. Typed' /\ Grows /\ run.proposal \in Nat
    BY <1>1, <1>2, Constants DEF Typed, Grows
  <1>4. SpecsAreOfValidations' /\ ValidationHasRun' /\ TasksFollowTheRun'
    BY <1>1 DEF PlanInv, Core, SpecsAreOfValidations, ValidationHasRun, TasksFollowTheRun
  <1>5. ~Moved(j, artifacts')
    BY DEF Moved
  <1> QED
    BY <1>1, <1>3, <1>4, <1>5, TurnInv

-----------------------------------------------------------------------------
(* Every step *)

(* A request that is served takes a turn.                                   *)
LEMMA Served ==
    ASSUME PlanInv, NEW h \in Handlers, NEW j \in Job, Serve(h, j), UNCHANGED serial
    PROVE  Turn(h, j) /\ served' \in 0..MaxRequests /\ job[h].at = "idle"
  <1>1. served \in 0..MaxRequests /\ served < MaxRequests
    BY DEF PlanInv, Core, TypeOK, Serve, Free
  <1> QED
    BY <1>1, Constants DEF Serve, Turn, Free

LEMMA Quiet ==
    ASSUME PlanInv, Running = {}, NEW h \in Handlers,
           \/ Generate(h) \/ GenerateSpec(h) \/ GenerateFails(h) \/ ShowProposal(h)
           \/ DecideThrows(h)
    PROVE  PlanInv'
  <1>1. /\ job[h] \in Job /\ job \in [Handlers -> Job] /\ run.proposal \in 0..MaxProposals
        /\ served \in 0..MaxRequests
        /\ PlacedIn(job[h], artifacts, run.proposal)
    BY CoreParts DEF PlanInv, Placed, Typed
  <1>2. CASE Generate(h)
    <2> DEFINE j == [Idle EXCEPT !.at = "generating"]
    <2>1. j \in Job /\ j.at = "generating"
      BY IdleJob DEF Job
    <2>2. Serve(h, j) /\ UNCHANGED <<serial, restarted, interview, rows, artifacts, files>>
      BY <1>2 DEF Generate
    <2> HIDE DEF j
    <2>3. Turn(h, j) /\ served' \in 0..MaxRequests /\ job[h].at = "idle"
      BY <2>1, <2>2, Served
    <2> QED
      BY <2>1, <2>2, <2>3, QuietTurn DEF PlacedIn, Moved
  <1>3. CASE GenerateSpec(h)
    <2> DEFINE j == [Idle EXCEPT !.at = "specifying", !.subject = run.proposal]
    <2>1. j \in Job /\ j.at = "specifying" /\ j.subject = run.proposal
      BY <1>1, IdleJob DEF Job
    <2>2. Serve(h, j) /\ UNCHANGED <<serial, restarted, interview, rows, artifacts, files>>
      BY <1>3 DEF GenerateSpec
    <2>3. run.proposal > 0
      BY <1>3 DEF GenerateSpec, PlanInv, Core, ValidationHasRun
    <2> HIDE DEF j
    <2>4. Turn(h, j) /\ served' \in 0..MaxRequests /\ job[h].at = "idle"
      BY <2>1, <2>2, Served
    <2> QED
      BY <2>1, <2>2, <2>3, <2>4, QuietTurn DEF PlacedIn, Moved
  <1>4. CASE ShowProposal(h)
    <2> DEFINE j == [job[h] EXCEPT !.at = "showing", !.subject = run.proposal]
    <2>1. j \in Job /\ j.at = "showing" /\ j.subject = run.proposal
      BY <1>1 DEF Job
    <2>2. /\ job' = [job EXCEPT ![h] = j] /\ job[h].at = "generated"
          /\ UNCHANGED <<serial, served, restarted, interview, rows, artifacts, files>>
      BY <1>1, <1>4 DEF ShowProposal, Job
    <2>3. run.proposal > 0
      BY <1>1, <2>2 DEF PlacedIn
    <2> HIDE DEF j
    <2> QED
      BY <1>1, <2>1, <2>2, <2>3, QuietTurn DEF PlacedIn, Moved, Turn
  <1>5. CASE GenerateFails(h) \/ DecideThrows(h)
    <2>1. /\ job' = [job EXCEPT ![h] = Idle]
          /\ job[h].at \in {"generating", "deciding"}
          /\ UNCHANGED <<serial, served, restarted, interview, rows, artifacts, files>>
      BY <1>5 DEF GenerateFails, DecideThrows
    <2>2. ~Moved(job[h], artifacts)
      BY <2>1 DEF Moved
    <2> QED
      BY <1>1, <2>1, <2>2, IdleJob, QuietTurn DEF PlacedIn, Turn
  <1> QED
    BY <1>2, <1>3, <1>4, <1>5

(* The subject of a decision is a proposal that was there.                  *)
LEMMA SubjectIsThere ==
    ASSUME PlanInv, NEW h \in Handlers, job[h].at \in {"deciding", "removed", "filed"}
    PROVE  job[h].subject \in Proposals
  <1>1. /\ job[h].artifact \in 1..Len(artifacts)
        /\ job[h].subject = artifacts[job[h].artifact].of
    BY DEF PlanInv, Core, Placed, PlacedIn
  <1>2. artifacts[job[h].artifact] \in Artifact
    BY <1>1, CoreParts DEF PlanInv, Typed
  <1> QED
    BY <1>1, <1>2 DEF Artifact

(* A transaction that fails leaves what was moved undecided.                *)
LEMMA CommitFails ==
    ASSUME PlanInv, Running = {}, NEW h \in Handlers, CommitThrows(h)
    PROVE  PlanInv'
  <1>1. /\ job[h].at = "filed" /\ job' = [job EXCEPT ![h] = Idle] /\ Turn(h, Idle)
        /\ undecided' = undecided \cup MovedBy({h})
        /\ UNCHANGED <<serial, served, restarted, interview, run, task, branched, validation,
                       artifacts, staging, published, codes, torn>>
    BY DEF CommitThrows, Turn, rows
  <1>2. Typed /\ job[h].subject \in Proposals
    BY <1>1, CoreParts, SubjectIsThere DEF PlanInv
  <1>3. /\ MovedBy({h}) \subseteq Proposals
        /\ Moved(job[h], artifacts) => job[h].subject \in MovedBy({h})
    BY <1>2 DEF MovedBy, Moved
  <1>4. Typed' /\ Grows
    <2>1. Typed'
      BY <1>1, <1>2, <1>3 DEF Typed
    <2> QED
      BY <1>1, <1>2, <2>1, SameGrows
  <1>5. SpecsAreOfValidations' /\ ValidationHasRun' /\ TasksFollowTheRun'
    BY <1>1 DEF PlanInv, Core, SpecsAreOfValidations, ValidationHasRun, TasksFollowTheRun
  <1>6. PlacedIn(Idle, artifacts', run'.proposal) /\ ~Moved(Idle, artifacts')
    BY IdleJob DEF PlacedIn, Moved
  <1> QED
    BY <1>1, <1>3, <1>4, <1>5, <1>6, IdleJob, TurnInv

LEMMA Decides ==
    ASSUME PlanInv, Running = {}, NEW h \in Handlers, NEW a \in 1..Len(artifacts),
           NEW d \in {"approved", "rejected"}, Decide(h, a, d)
    PROVE  PlanInv'
  <1> DEFINE p == IF artifacts[a].code # 0 THEN "deciding" ELSE "filed"
             j == [Idle EXCEPT !.at = p, !.artifact = a, !.decision = d,
                               !.subject = artifacts[a].of]
  <1> HIDE DEF p, j
  <1>0. artifacts \in Seq(Artifact)
    BY CoreParts DEF PlanInv, Typed
  <1>1. /\ artifacts \in Seq(Artifact) /\ artifacts[a] \in Artifact /\ a \in Nat
        /\ artifacts[a].of \in 0..MaxProposals
    <2>1. artifacts[a] \in Artifact
      BY <1>0
    <2>2. artifacts[a].of \in Proposals
      BY <2>1 DEF Artifact
    <2> QED
      BY <1>0, <2>1, <2>2, Constants
  <1>2. p \in {"deciding", "filed"} /\ (p = "filed" => artifacts[a].code = 0)
        /\ (p = "deciding" => artifacts[a].code # 0)
    BY DEF p
  <1>3. Serve(h, j) /\ UNCHANGED <<serial, restarted, interview, rows, artifacts, files>>
    BY DEF Decide, j, p
  <1>4. /\ j \in Job /\ j.artifact = a /\ j.decision = d /\ j.subject = artifacts[a].of
        /\ j.at = p
    BY <1>1, <1>2, IdleJob DEF Job, j
  <1>5. Turn(h, j) /\ served' \in 0..MaxRequests /\ job[h].at = "idle"
    BY <1>3, <1>4, Served
  <1> QED
    BY <1>1, <1>2, <1>3, <1>4, <1>5, QuietTurn DEF PlacedIn, Moved

(* A new artifact leaves the others as they were.                           *)
LEMMA NewArtifact ==
    ASSUME PlanInv, NEW what \in {"planner_run", "validation"}, NEW p \in Proposals,
           NEW code \in 0..MaxCodes, CreateArtifact(what, p, code), UNCHANGED run,
           code # 0 => what = "validation"
    PROVE  artifacts' \in Seq(Artifact) /\ Grows /\ SpecsAreOfValidations'
  <1> DEFINE r == [subject |-> what, of |-> p, code |-> code, status |-> "pending"]
             n == Len(artifacts)
  <1>1. /\ artifacts \in Seq(Artifact) /\ r \in Artifact /\ n \in Nat
        /\ r.code = code /\ r.subject = what /\ run.proposal \in Nat
    BY Constants, CoreParts DEF PlanInv, Typed, Artifact
  <1>2. artifacts' = Append(artifacts, r)
    BY DEF CreateArtifact
  <1> HIDE DEF r
  <1>3. /\ artifacts' \in Seq(Artifact) /\ Len(artifacts') = n + 1
        /\ artifacts'[n + 1] = r /\ \A a \in 1..n : artifacts'[a] = artifacts[a]
    BY <1>1, <1>2
  <1>4. Grows
    BY <1>1, <1>3 DEF Grows
  <1>5. SpecsAreOfValidations'
    <2> SUFFICES ASSUME NEW a \in 1..(n + 1), artifacts'[a].code # 0
                 PROVE  artifacts'[a].subject = "validation"
      BY <1>3 DEF SpecsAreOfValidations
    <2>1. CASE a = n + 1
      BY <1>1, <1>3, <2>1
    <2>2. CASE a # n + 1
      BY <1>1, <1>3, <2>2 DEF PlanInv, Core, SpecsAreOfValidations
    <2> QED
      BY <2>1, <2>2
  <1> QED
    BY <1>3, <1>4, <1>5

LEMMA Persists ==
    ASSUME PlanInv, Running = {}, NEW h \in Handlers, PersistProposal(h)
    PROVE  PlanInv'
  <1> DEFINE j == [job[h] EXCEPT !.at = "generated"]
  <1>1. /\ job[h] \in Job /\ job \in [Handlers -> Job] /\ run.proposal \in 0..MaxProposals
        /\ run.proposal < MaxProposals /\ job[h].at = "generating" /\ Typed
    BY CoreParts DEF PlanInv, Typed, PersistProposal
  <1>2. j \in Job /\ j.at = "generated" /\ job' = [job EXCEPT ![h] = j]
    BY <1>1 DEF Job, PersistProposal
  <1> HIDE DEF j
  <1>3. /\ run'.proposal = run.proposal + 1 /\ run'.status = "generated" /\ task' = "planned"
        /\ run' \in [status : {"interviewing", "generated", "approved", "rejected"},
                     proposal : 0..MaxProposals]
        /\ validation' = [status |-> "proposed", path |-> FALSE]
        /\ UNCHANGED <<serial, served, restarted, interview, branched, artifacts, staging,
                       published, codes, torn, undecided>>
    BY <1>1, Constants DEF PersistProposal, files
  <1>4. Typed' /\ Grows
    BY <1>1, <1>3, Constants DEF Typed, Grows
  <1>5. SpecsAreOfValidations' /\ ValidationHasRun' /\ TasksFollowTheRun' /\ ~validation'.path
    BY <1>1, <1>3 DEF PlanInv, Core, SpecsAreOfValidations, ValidationHasRun, TasksFollowTheRun
  <1>6. Turn(h, j)
    BY <1>1, <1>2, <1>3 DEF Turn
  <1> QED
    BY <1>1, <1>2, <1>3, <1>4, <1>5, <1>6, TurnInv DEF PlacedIn, Moved

(* Asking for a review, at the end of a request or as all of it.            *)
LEMMA Reviews ==
    ASSUME PlanInv, Running = {}, NEW h \in Handlers,
           ReviewProposal(h) \/ ReviewSpec(h) \/ RequestReview(h)
    PROVE  PlanInv'
  <1>1. /\ job[h] \in Job /\ job \in [Handlers -> Job] /\ Typed
        /\ PlacedIn(job[h], artifacts, run.proposal)
    BY CoreParts DEF PlanInv, Placed
  <1>2. /\ job' = [job EXCEPT ![h] = Idle] /\ Turn(h, Idle) /\ served' \in 0..MaxRequests
        /\ job[h].at \in {"idle", "showing", "staged"}
        /\ UNCHANGED <<serial, restarted, interview, rows, files>>
    <2>1. CASE RequestReview(h)
      BY <2>1, IdleJob, Served DEF RequestReview, Serve
    <2>2. CASE ReviewProposal(h) \/ ReviewSpec(h)
      BY <1>1, <2>2 DEF ReviewProposal, ReviewSpec, Turn, Typed
    <2> QED
      BY <2>1, <2>2
  <1>3. UNCHANGED <<run, task, branched, validation, staging, published, codes, torn, undecided>>
    BY <1>2 DEF rows, files
  <1>4. artifacts' \in Seq(Artifact) /\ Grows /\ SpecsAreOfValidations'
    <2>1. CASE ReviewProposal(h)
      <3>1. job[h].subject \in Proposals /\ 0 \in 0..MaxCodes
        BY <1>1, <2>1, Constants DEF ReviewProposal, PlacedIn, Job
      <3> QED
        BY <1>3, <2>1, <3>1, NewArtifact DEF ReviewProposal
    <2>2. CASE ReviewSpec(h)
      <3>1. job[h].subject \in Proposals /\ job[h].code \in 0..MaxCodes
        BY <1>1, <2>2, Constants DEF ReviewSpec, PlacedIn, Job
      <3> QED
        BY <1>3, <2>2, <3>1, NewArtifact DEF ReviewSpec
    <2>3. CASE RequestReview(h)
      <3>1. run.proposal \in Proposals /\ 0 \in 0..MaxCodes
        BY <1>1, <2>3, Constants DEF RequestReview, PlanInv, Core, ValidationHasRun, Typed
      <3> QED
        BY <1>3, <2>3, <3>1, NewArtifact DEF RequestReview
    <2> QED
      BY <2>1, <2>2, <2>3
  <1>5. Typed' /\ ValidationHasRun' /\ TasksFollowTheRun'
    BY <1>1, <1>2, <1>3, <1>4 DEF Typed, PlanInv, Core, ValidationHasRun, TasksFollowTheRun
  <1> QED
    BY <1>1, <1>2, <1>3, <1>4, <1>5, IdleJob, TurnInv DEF PlacedIn, Moved

(* Decisions on the run and on the validation that need no artifact.        *)
LEMMA Approvals ==
    ASSUME PlanInv, Running = {}, NEW h \in Handlers, NEW granted \in BOOLEAN,
           ApproveRun(h, granted) \/ DecideValidation(h, granted)
    PROVE  PlanInv'
  <1>1. Typed /\ job \in [Handlers -> Job]
    BY CoreParts DEF PlanInv
  <1>2. /\ Turn(h, Idle) /\ served' \in 0..MaxRequests /\ job[h].at = "idle"
        /\ UNCHANGED <<serial, restarted, interview, artifacts, branched, files>>
    BY IdleJob, Served DEF ApproveRun, DecideValidation, DecideRun
  <1>3. UNCHANGED <<staging, published, codes, torn, undecided>>
    BY <1>2 DEF files
  <1>4. /\ run'.proposal = run.proposal /\ validation'.path = validation.path
        /\ run' \in [status : {"interviewing", "generated", "approved", "rejected"},
                     proposal : 0..MaxProposals]
        /\ validation' \in [status : {"none", "proposed", "approved", "rejected"},
                            path : BOOLEAN]
        /\ task' \in {"none", "planned", "awaiting_verification_approval"}
        /\ TasksFollowTheRun' /\ ValidationHasRun'
    <2>1. CASE ApproveRun(h, granted)
      BY <1>1, <2>1 DEF ApproveRun, DecideRun, Typed, TasksFollowTheRun, ValidationHasRun,
           PlanInv, Core
    <2>2. CASE DecideValidation(h, granted)
      BY <1>1, <2>2 DEF DecideValidation, Typed, TasksFollowTheRun, ValidationHasRun,
           PlanInv, Core
    <2> QED
      BY <2>1, <2>2
  <1>5. Typed' /\ Grows /\ SpecsAreOfValidations'
    BY <1>1, <1>2, <1>3, <1>4, Constants DEF Typed, Grows, SpecsAreOfValidations, PlanInv, Core
  <1> QED
    BY <1>1, <1>2, <1>3, <1>4, <1>5, IdleJob, TurnInv DEF PlacedIn, Moved

(* What the files hold stays a spec that was generated.                     *)
LEMMA Widen ==
    ASSUME NEW n \in Nat, NEW m \in Nat, n <= m, NEW f \in [Proposals -> 0..n]
    PROVE  f \in [Proposals -> 0..m]
  <1>1. ASSUME NEW p \in Proposals PROVE f[p] \in 0..m
    <2>1. f[p] \in 0..n
      OBVIOUS
    <2> QED
      BY <2>1
  <1> QED
    BY <1>1

LEMMA Stages ==
    ASSUME PlanInv, Running = {}, NEW h \in Handlers, StageSpec(h)
    PROVE  PlanInv'
  <1>1. /\ job[h] \in Job /\ job \in [Handlers -> Job] /\ Typed
        /\ job[h].at = "specifying" /\ job[h].subject \in Proposals
    BY Constants, CoreParts DEF PlanInv, Placed, PlacedIn, Job, StageSpec
  <1>2. /\ UNCHANGED <<serial, served, restarted, interview, run, task, branched, validation,
                       artifacts, published, torn, undecided>>
    BY DEF StageSpec, rows
  <1>3. /\ staging' \in [Proposals -> 0..codes'] /\ published' \in [Proposals -> 0..codes']
        /\ codes' \in 0..MaxCodes
    <2>1. CASE codes' = codes /\ staging' = staging
      BY <1>1, <1>2, <2>1 DEF Typed
    <2>2. CASE /\ codes < MaxCodes /\ codes' = codes + 1
               /\ staging' = [staging EXCEPT ![job[h].subject] = codes + 1]
      <3>1. codes \in Nat /\ codes + 1 \in 0..MaxCodes
        BY <1>1, <2>2, Constants DEF Typed
      <3>2. /\ staging \in [Proposals -> 0..codes + 1]
            /\ published \in [Proposals -> 0..codes + 1]
        BY <1>1, <3>1, Widen DEF Typed
      <3>3. codes + 1 \in 0..codes + 1
        BY <3>1
      <3> QED
        BY <1>1, <1>2, <2>2, <3>1, <3>2, <3>3
    <2> QED
      BY <2>1, <2>2 DEF StageSpec
  <1>4. Typed' /\ Grows /\ SpecsAreOfValidations' /\ ValidationHasRun' /\ TasksFollowTheRun'
    <2>1. Typed'
      BY <1>1, <1>2, <1>3 DEF Typed
    <2>2. Grows
      BY <1>1, <1>2, Constants DEF Typed, Grows
    <2> QED
      BY <1>2, <2>1, <2>2 DEF PlanInv, Core, SpecsAreOfValidations, ValidationHasRun,
           TasksFollowTheRun
  <1>5. PICK j \in Job : /\ job' = [job EXCEPT ![h] = j]
                         /\ \/ j.at = "idle"
                            \/ j.at = "staged" /\ j.subject = job[h].subject
    <2>1. CASE job' = [job EXCEPT ![h] = Idle]
      BY <2>1, IdleJob
    <2>2. CASE codes < MaxCodes /\ job' = [job EXCEPT ![h].at = "staged", ![h].code = codes + 1]
      <3> DEFINE i == [job[h] EXCEPT !.at = "staged", !.code = codes + 1]
      <3>1. codes + 1 \in 0..MaxCodes
        BY <1>1, <2>2, Constants DEF Typed
      <3>2. i \in Job /\ i.at = "staged" /\ i.subject = job[h].subject
        BY <1>1, <3>1 DEF Job
      <3>3. job' = [job EXCEPT ![h] = i]
        BY <1>1, <2>2 DEF Job
      <3> HIDE DEF i
      <3> QED
        BY <3>2, <3>3
    <2> QED
      BY <2>1, <2>2 DEF StageSpec
  <1>6. Turn(h, j) /\ ~Moved(job[h], artifacts)
    BY <1>1, <1>2, <1>5 DEF Turn, Moved
  <1>7. PlacedIn(j, artifacts', run'.proposal) /\ ~Moved(j, artifacts')
    BY <1>1, <1>5, Constants DEF PlacedIn, Moved
  <1> QED
    BY <1>2, <1>4, <1>5, <1>6, <1>7, TurnInv

LEMMA Drops ==
    ASSUME PlanInv, Running = {}, NEW h \in Handlers, DropStaged(h)
    PROVE  PlanInv'
  <1> DEFINE j == [job[h] EXCEPT !.at = "filed"]
  <1>1. /\ job[h] \in Job /\ job \in [Handlers -> Job] /\ Typed
        /\ job[h].at = "deciding" /\ job[h].decision = "rejected"
        /\ run.proposal = job[h].subject /\ PlacedIn(job[h], artifacts, run.proposal)
    BY CoreParts DEF PlanInv, Placed, DropStaged
  <1>2. /\ j \in Job /\ j.at = "filed" /\ j.decision = "rejected"
        /\ j.subject = job[h].subject /\ j.artifact = job[h].artifact
        /\ job' = [job EXCEPT ![h] = j]
    BY <1>1 DEF Job, DropStaged
  <1> HIDE DEF j
  <1>3. /\ UNCHANGED <<serial, served, restarted, interview, run, task, branched, validation,
                       artifacts, published, codes, torn, undecided>>
        /\ staging' = [staging EXCEPT ![job[h].subject] = 0]
    BY DEF DropStaged, rows
  <1>4. staging' \in [Proposals -> 0..codes]
    <2>1. staging \in [Proposals -> 0..codes] /\ 0 \in 0..codes
      BY <1>1, Constants DEF Typed
    <2> QED
      BY <1>3, <2>1
  <1>5. Typed' /\ Grows /\ SpecsAreOfValidations' /\ ValidationHasRun' /\ TasksFollowTheRun'
    BY <1>1, <1>3, <1>4, Constants DEF Typed, Grows, PlanInv, Core, SpecsAreOfValidations,
         ValidationHasRun, TasksFollowTheRun
  <1>6. Turn(h, j) /\ ~Moved(job[h], artifacts) /\ ~Moved(j, artifacts')
    BY <1>1, <1>2, <1>3 DEF Turn, Moved
  <1>7. PlacedIn(j, artifacts', run'.proposal)
    BY <1>1, <1>2, <1>3 DEF PlacedIn
  <1> QED
    BY <1>1, <1>2, <1>3, <1>5, <1>6, <1>7, TurnInv

(* The transaction of a decision.                                           *)
LEMMA Commits ==
    ASSUME PlanInv, Running = {}, NEW h \in Handlers, Commit(h)
    PROVE  PlanInv'
  <1> DEFINE a == job[h].artifact
             s == job[h].decision
  <1>1. /\ job[h] \in Job /\ job \in [Handlers -> Job] /\ Typed /\ job[h].at = "filed"
        /\ a \in 1..Len(artifacts) /\ job[h].subject = artifacts[a].of
        /\ s \in {"approved", "rejected"} /\ artifacts \in Seq(Artifact)
        /\ artifacts[a].subject = "validation" => run.proposal = job[h].subject
        /\ job' = [job EXCEPT ![h] = Idle]
    BY CoreParts DEF PlanInv, Placed, PlacedIn, Commit, Typed
  <1>2. /\ UNCHANGED <<serial, served, restarted, interview, branched, staging, published,
                       codes, torn, undecided>>
        /\ artifacts' = [artifacts EXCEPT ![a].status = s]
    BY DEF Commit, DecideRun, SetDecided, files
  <1>3. /\ artifacts' \in Seq(Artifact) /\ Len(artifacts') = Len(artifacts)
        /\ \A b \in 1..Len(artifacts) :
             /\ artifacts'[b].subject = artifacts[b].subject
             /\ artifacts'[b].of = artifacts[b].of /\ artifacts'[b].code = artifacts[b].code
             /\ artifacts'[b].status = IF b = a THEN s ELSE artifacts[b].status
    <2>1. artifacts[a] \in Artifact
      BY <1>1
    <2> DEFINE t == [artifacts[a] EXCEPT !.status = s]
    <2>2. /\ t \in Artifact /\ t.subject = artifacts[a].subject /\ t.of = artifacts[a].of
          /\ t.code = artifacts[a].code /\ t.status = s
      BY <1>1, <2>1 DEF Artifact
    <2>3. artifacts' = [artifacts EXCEPT ![a] = t]
      BY <1>1, <1>2
    <2> HIDE DEF t
    <2>4. /\ artifacts' \in Seq(Artifact) /\ Len(artifacts') = Len(artifacts)
          /\ \A b \in 1..Len(artifacts) :
               artifacts'[b] = IF b = a THEN t ELSE artifacts[b]
      BY <1>1, <2>2, <2>3
    <2> QED
      BY <2>2, <2>4
  <1>4. /\ run' \in [status : {"interviewing", "generated", "approved", "rejected"},
                     proposal : 0..MaxProposals]
        /\ run'.proposal = run.proposal
        /\ validation' \in [status : {"none", "proposed", "approved", "rejected"},
                            path : BOOLEAN]
        /\ task' \in {"none", "planned", "awaiting_verification_approval"}
        /\ TasksFollowTheRun' /\ ValidationHasRun'
        /\ validation'.path =>
             validation.path \/ (Moved(job[h], artifacts) /\ run.proposal = job[h].subject)
    <2>1. CASE artifacts[a].subject = "planner_run"
      <3>1. DecideRun(s = "approved")
        BY <2>1 DEF Commit
      <3> QED
        BY <1>1, <3>1 DEF DecideRun, Typed, TasksFollowTheRun, ValidationHasRun, PlanInv, Core
    <2>2. CASE artifacts[a].subject # "planner_run"
      <3>0. artifacts[a] \in Artifact
        BY <1>1
      <3>1. SetDecided(h) /\ artifacts[a].subject = "validation"
        BY <2>2, <3>0 DEF Commit, Artifact
      <3>2. run.proposal > 0
        <4>1. artifacts[a].of \in 1..MaxProposals
          BY <3>0, Constants DEF Artifact
        <4> QED
          BY <1>1, <3>1, <4>1
      <3>3. /\ validation'.path =
                 (validation.path \/ (s = "approved" /\ artifacts[a].code # 0))
            /\ validation'.status = s /\ UNCHANGED <<run, task>>
            /\ validation' \in [status : {"none", "proposed", "approved", "rejected"},
                                path : BOOLEAN]
        BY <1>1, <3>1 DEF SetDecided, Typed
      <3> QED
        BY <1>1, <3>1, <3>2, <3>3 DEF Typed, TasksFollowTheRun, ValidationHasRun, PlanInv,
             Core, Moved
    <2> QED
      BY <2>1, <2>2
  <1>5. Typed' /\ Grows /\ SpecsAreOfValidations'
    BY <1>1, <1>2, <1>3, <1>4, Constants DEF Typed, Grows, SpecsAreOfValidations, PlanInv, Core
  <1>6. Turn(h, Idle) /\ PlacedIn(Idle, artifacts', run'.proposal) /\ ~Moved(Idle, artifacts')
    BY <1>1, <1>2, IdleJob DEF Turn, PlacedIn, Moved
  <1>7. Core' /\ Alone' /\ InOrder'
    BY <1>1, <1>2, <1>4, <1>5, <1>6, IdleJob, TurnCore, TurnAlone, TurnInOrder DEF PlanInv
  <1>8. Files'
    <2>1. Moved(job[h], artifacts) => Kept(job[h].subject)
      BY DEF PlanInv, Files, FiledIsKept
    <2>2. validation'.path => (validation.path /\ run'.proposal = run.proposal)
                              \/ Kept(run'.proposal)
      BY <1>4, <2>1
    <2> QED
      BY <1>2, <1>5, <1>6, <1>7, <2>2, IdleJob, TurnFiles
  <1>9. StillThere' /\ MovedIsDecided'
    <2>1. ASSUME serial PROVE \A g \in Handlers : job'[g].at = "idle"
      BY <1>1, <2>1, IdleJob DEF PlanInv, Alone
    <2>2. StillThere'
      BY <1>2, <2>1 DEF StillThere
    <2>3. MovedIsDecided'
      <3> SUFFICES ASSUME serial, NEW p \in Proposals \ undecided, published[p] # 0
                   PROVE  Decided(p)'
        BY <1>2 DEF MovedIsDecided
      <3>1. CASE Decided(p)
        <4>1. PICK b \in 1..Len(artifacts) :
                /\ artifacts[b].subject = "validation" /\ artifacts[b].of = p
                /\ artifacts[b].code # 0 /\ artifacts[b].status # "pending"
          BY <3>1 DEF Decided
        <4>2. /\ b \in 1..Len(artifacts') /\ artifacts'[b].subject = "validation"
              /\ artifacts'[b].of = p /\ artifacts'[b].code # 0
              /\ artifacts'[b].status # "pending"
          BY <1>1, <1>3, <4>1
        <4> QED
          BY <4>2 DEF Decided
      <3>2. CASE ~Decided(p)
        <4>1. PICK g \in Handlers : Moved(job[g], artifacts) /\ job[g].subject = p
          BY <3>2 DEF PlanInv, MovedIsDecided
        <4>2. g = h
          BY <1>1, <4>1 DEF PlanInv, Alone, Moved
        <4>3. /\ a \in 1..Len(artifacts') /\ artifacts'[a].subject = "validation"
              /\ artifacts'[a].of = p /\ artifacts'[a].code # 0
              /\ artifacts'[a].status # "pending"
          BY <1>1, <1>3, <4>1, <4>2 DEF Moved, PlanInv, Core, SpecsAreOfValidations
        <4> QED
          BY <4>3 DEF Decided
      <3> QED
        BY <3>1, <3>2
    <2> QED
      BY <2>2, <2>3
  <1>10. TasksFollowTheRun'
    BY <1>4
  <1> QED
    BY <1>7, <1>8, <1>9, <1>10 DEF PlanInv

-----------------------------------------------------------------------------
(* The interview *)

LEMMA NextIsFirst ==
    ASSUME NEW S \in SUBSET (1..Rounds), S # 1..Rounds
    PROVE  /\ NextRound(S) \in (1..Rounds) \ S
           /\ \A q \in (1..Rounds) \ S : NextRound(S) <= q
  <1>1. (1..Rounds) \ S \in SUBSET Nat /\ (1..Rounds) \ S # {}
    <2>1. 1..Rounds \subseteq Nat
      BY Constants
    <2>2. \E q \in 1..Rounds : q \notin S
      OBVIOUS
    <2> QED
      BY <2>1, <2>2
  <1>2. \E x \in (1..Rounds) \ S : \A y \in (1..Rounds) \ S : x <= y
    BY <1>1, FirstOf
  <1> QED
    BY <1>2 DEF NextRound

(* A submission in order starts with the round that is expected, and the    *)
(* rest is in order once that is merged.                                    *)
LEMMA RestInOrder ==
    ASSUME NEW S \in SUBSET (1..Rounds), NEW T \in SUBSET (1..Rounds), Accepted(S, T),
           NEW r \in T, \A q \in T : r <= q
    PROVE  r = NextRound(S) /\ (T # {r} => Accepted(S \cup {r}, T \ {r}))
  <1>1. \A q \in T : q \in Nat
    BY Constants
  <1>2. r = NextRound(S)
    <2>1. {q \in T : q < r} = {}
      <3> SUFFICES ASSUME NEW q \in T PROVE ~(q < r)
        OBVIOUS
      <3>1. q \in Nat /\ r \in Nat /\ r <= q
        BY <1>1
      <3> QED
        BY <3>1
    <2>2. S \cup {q \in T : q < r} = S
      BY <2>1
    <2>3. r = NextRound(S \cup {q \in T : q < r})
      BY DEF Accepted
    <2> QED
      BY <2>2, <2>3
  <1>3. ASSUME NEW q \in T \ {r}
        PROVE  q = NextRound((S \cup {r}) \cup {p \in T \ {r} : p < q})
    <2>1. r < q
      BY <1>1
    <2>2. (S \cup {r}) \cup {p \in T \ {r} : p < q} = S \cup {p \in T : p < q}
      BY <2>1
    <2>3. q = NextRound(S \cup {p \in T : p < q})
      BY DEF Accepted
    <2> QED
      BY <2>2, <2>3
  <1>4. T # {r} => T \ {r} # {}
    OBVIOUS
  <1> QED
    BY <1>2, <1>3, <1>4 DEF Accepted

(* A turn that is about the interview only.                                 *)
LEMMA InterviewTurn ==
    ASSUME PlanInv, Running = {}, NEW h \in Handlers, NEW j \in Job, Turn(h, j),
           served' \in 0..MaxRequests, interview' \subseteq 1..Rounds,
           UNCHANGED <<restarted, rows, artifacts, files>>,
           job[h].at \in {"idle", "answering", "merging"},
           j.at \in {"idle", "answering", "merging"},
           j.at \in {"answering", "merging"} => j.todo # {},
           serial => /\ j.at \in {"answering", "merging"} => Accepted(interview', j.todo)
                     /\ j.at = "merging" => j.read = interview'
    PROVE  PlanInv'
  <1>1. UNCHANGED <<serial, run, task, branched, validation, staging, published, codes, torn,
                  undecided>>
    BY DEF rows, files, Turn
  <1>2. Typed /\ job \in [Handlers -> Job]
    BY CoreParts DEF PlanInv
  <1>3. Typed' /\ Grows
    BY <1>1, <1>2, Constants DEF Typed, Grows
  <1>4. SpecsAreOfValidations' /\ ValidationHasRun' /\ TasksFollowTheRun'
    BY <1>1 DEF PlanInv, Core, SpecsAreOfValidations, ValidationHasRun, TasksFollowTheRun
  <1>5. /\ ~Moved(job[h], artifacts) /\ ~Moved(j, artifacts')
        /\ PlacedIn(j, artifacts', run'.proposal)
    BY DEF Moved, PlacedIn
  <1>6. Core' /\ Alone'
    BY <1>3, <1>4, <1>5, TurnCore, TurnAlone DEF PlanInv, Turn
  <1>7. Files' /\ StillThere' /\ MovedIsDecided'
    BY <1>1, <1>3, <1>5, <1>6, TurnFiles, TurnDecided
  <1>8. InOrder'
    <2>1. job'[h] = j /\ \A g \in Handlers \ {h} : job'[g] = job[g]
      BY <1>2 DEF Turn
    <2>2. serial => \A g \in Handlers \ {h} : job[g].at = "idle"
      BY DEF PlanInv, Alone, Turn, Free
    <2> QED
      BY <1>1, <2>1, <2>2 DEF InOrder
  <1> QED
    BY <1>4, <1>6, <1>7, <1>8 DEF PlanInv

LEMMA Answers ==
    ASSUME PlanInv, Running = {}, NEW h \in Handlers, NEW rounds \in SUBSET (1..Rounds),
           Answer(h, rounds)
    PROVE  PlanInv'
  <1> DEFINE j == [Idle EXCEPT !.at = "answering", !.todo = rounds]
  <1>1. j \in Job /\ j.at = "answering" /\ j.todo = rounds
    BY IdleJob DEF Job
  <1>2. /\ Serve(h, j) /\ UNCHANGED <<serial, restarted, interview, rows, artifacts, files>>
        /\ Accepted(interview, rounds) /\ rounds # {}
    BY DEF Answer, Accepted
  <1> HIDE DEF j
  <1>3. Turn(h, j) /\ served' \in 0..MaxRequests /\ job[h].at = "idle"
    BY <1>1, <1>2, Served
  <1>4. interview \subseteq 1..Rounds
    BY CoreParts DEF PlanInv, Typed
  <1> QED
    BY <1>1, <1>2, <1>3, <1>4, InterviewTurn

LEMMA MergeReads ==
    ASSUME PlanInv, Running = {}, NEW h \in Handlers, MergeRead(h)
    PROVE  PlanInv'
  <1> DEFINE j == [job[h] EXCEPT !.at = "merging", !.read = interview]
  <1>1. /\ job[h] \in Job /\ job \in [Handlers -> Job] /\ interview \subseteq 1..Rounds
        /\ served \in 0..MaxRequests /\ job[h].at = "answering"
        /\ PlacedIn(job[h], artifacts, run.proposal)
    BY CoreParts DEF PlanInv, Placed, Typed, MergeRead
  <1>2. j \in Job /\ j.at = "merging" /\ j.read = interview /\ j.todo = job[h].todo
    BY <1>1 DEF Job
  <1>3. /\ job' = [job EXCEPT ![h] = j]
        /\ UNCHANGED <<serial, served, restarted, interview, rows, artifacts, files>>
    BY <1>1 DEF MergeRead, Job
  <1> HIDE DEF j
  <1>4. Turn(h, j) /\ j.todo # {} /\ (serial => Accepted(interview, j.todo))
    BY <1>1, <1>2, <1>3 DEF Turn, PlacedIn, PlanInv, InOrder
  <1> QED
    BY <1>1, <1>2, <1>3, <1>4, InterviewTurn

(* The one step that writes the interview.                                  *)
LEMMA MergeWrites ==
    ASSUME PlanInv, Running = {}, NEW h \in Handlers, MergeWrite(h)
    PROVE  PlanInv' /\ (serial => interview' = interview \cup {NextRound(interview)})
  <1> DEFINE r == CHOOSE q \in job[h].todo : \A p \in job[h].todo : q <= p
             j == IF job[h].todo = {r} THEN Idle
                  ELSE [job[h] EXCEPT !.at = "answering", !.todo = job[h].todo \ {r}]
  <1>1. /\ job[h] \in Job /\ job \in [Handlers -> Job] /\ interview \subseteq 1..Rounds
        /\ served \in 0..MaxRequests /\ job[h].at = "merging" /\ job[h].todo # {}
        /\ job[h].todo \subseteq 1..Rounds /\ job[h].read \subseteq 1..Rounds
    BY CoreParts DEF PlanInv, Placed, PlacedIn, Typed, Job, MergeWrite
  <1>2. r \in job[h].todo /\ \A q \in job[h].todo : r <= q
    <2>1. job[h].todo \in SUBSET Nat
      BY <1>1, Constants
    <2>2. \E q \in job[h].todo : \A p \in job[h].todo : q <= p
      BY <1>1, <2>1, FirstOf
    <2> QED
      BY <2>2
  <1>3. /\ interview' = job[h].read \cup {r} /\ job' = [job EXCEPT ![h] = j]
        /\ UNCHANGED <<serial, served, restarted, rows, artifacts, files>>
    BY DEF MergeWrite
  <1> HIDE DEF r
  <1>4. /\ j \in Job /\ j.at \in {"idle", "answering"}
        /\ j.at = "answering" => j.todo = job[h].todo \ {r} /\ job[h].todo # {r}
    <2>1. CASE job[h].todo = {r}
      BY <2>1, IdleJob
    <2>2. CASE job[h].todo # {r}
      BY <1>1, <2>2 DEF Job
    <2> QED
      BY <2>1, <2>2
  <1> HIDE DEF j
  <1>5. ASSUME serial
        PROVE  /\ interview' = interview \cup {NextRound(interview)}
               /\ j.at = "answering" => Accepted(interview', j.todo)
    <2>1. Accepted(interview, job[h].todo) /\ job[h].read = interview
      BY <1>1, <1>5 DEF PlanInv, InOrder
    <2>2. /\ r = NextRound(interview)
          /\ job[h].todo # {r} => Accepted(interview \cup {r}, job[h].todo \ {r})
      BY <1>1, <1>2, <2>1, RestInOrder
    <2> QED
      BY <1>3, <1>4, <2>1, <2>2
  <1>6. Turn(h, j) /\ interview' \subseteq 1..Rounds /\ (j.at = "answering" => j.todo # {})
    BY <1>1, <1>2, <1>3, <1>4 DEF Turn
  <1> QED
    BY <1>1, <1>3, <1>4, <1>5, <1>6, InterviewTurn

-----------------------------------------------------------------------------
(* The files of an approval *)

LEMMA Removes ==
    ASSUME PlanInv, Running = {}, NEW h \in Handlers, RemovePublished(h)
    PROVE  PlanInv'
  <1> DEFINE p == job[h].subject
             j == [job[h] EXCEPT !.at = "removed"]
  <1>1. /\ job[h] \in Job /\ job \in [Handlers -> Job] /\ Typed
        /\ job[h].at = "deciding" /\ job[h].decision = "approved"
        /\ run.proposal = p /\ staging[p] # 0 /\ PlacedIn(job[h], artifacts, run.proposal)
    BY CoreParts DEF PlanInv, Placed, RemovePublished
  <1>2. /\ j \in Job /\ j.at = "removed" /\ j.decision = "approved"
        /\ j.subject = p /\ j.artifact = job[h].artifact /\ job' = [job EXCEPT ![h] = j]
    BY <1>1 DEF Job, RemovePublished
  <1> HIDE DEF j
  <1>3. /\ UNCHANGED <<serial, served, restarted, interview, run, task, branched, validation,
                       artifacts, staging, codes, undecided>>
        /\ published' = [published EXCEPT ![p] = 0] /\ torn' = torn \ {p}
    BY DEF RemovePublished, rows
  <1>4. p \in Proposals
    <2>1. job[h].artifact \in 1..Len(artifacts) /\ p = artifacts[job[h].artifact].of
      BY <1>1 DEF PlacedIn
    <2>2. artifacts[job[h].artifact] \in Artifact
      BY <1>1, <2>1 DEF Typed
    <2> QED
      BY <2>1, <2>2 DEF Artifact
  <1>5. published' \in [Proposals -> 0..codes] /\ published'[p] = 0
        /\ \A q \in Proposals \ {p} : published'[q] = published[q]
    <2>1. published \in [Proposals -> 0..codes] /\ 0 \in 0..codes
      BY <1>1, Constants DEF Typed
    <2> QED
      BY <1>3, <1>4, <2>1
  <1>6. Typed' /\ Grows /\ SpecsAreOfValidations' /\ ValidationHasRun' /\ TasksFollowTheRun'
    <2>1. Typed'
      BY <1>1, <1>3, <1>5 DEF Typed
    <2>2. Grows
      BY <1>1, <1>3, Constants DEF Typed, Grows
    <2> QED
      BY <1>3, <2>1, <2>2 DEF PlanInv, Core, SpecsAreOfValidations, ValidationHasRun,
           TasksFollowTheRun
  <1>7. Turn(h, j) /\ PlacedIn(j, artifacts', run'.proposal)
    BY <1>1, <1>2, <1>3 DEF Turn, PlacedIn
  <1>8. Core' /\ Alone' /\ InOrder'
    BY <1>2, <1>3, <1>6, <1>7, TurnCore, TurnAlone, TurnInOrder DEF PlanInv
  <1>9. job'[h] = j /\ \A g \in Handlers \ {h} : job'[g] = job[g] /\ job[g].at # "removed"
    BY <1>1, <1>2 DEF Running
  <1>10. Files'
    <2>1. OneRemoves' /\ RemovedIsStaged' /\ h \in Running'
      BY <1>1, <1>2, <1>3, <1>9 DEF OneRemoves, RemovedIsStaged, Running
    <2>2. \A q \in Proposals : Kept(q) => Kept(q)'
      BY <1>2, <1>3, <1>5, <1>9, <2>1 DEF Kept
    <2>3. FiledIsKept'
      <3> SUFFICES ASSUME NEW g \in Handlers, Moved(job'[g], artifacts')
                   PROVE  \/ published'[job'[g].subject] # 0
                          \/ job'[g].subject \in torn'
                          \/ \E k \in Running' : job'[k].subject = job'[g].subject
        BY DEF FiledIsKept, Kept
      <3>1. g # h /\ job'[g] = job[g] /\ Moved(job[g], artifacts)
        BY <1>2, <1>3, <1>9 DEF Moved
      <3>2. Kept(job[g].subject)
        BY <3>1 DEF PlanInv, Files, FiledIsKept
      <3>3. job[g].subject \in Proposals
        <4>1. /\ job[g].artifact \in 1..Len(artifacts)
              /\ job[g].subject = artifacts[job[g].artifact].of
          BY <3>1 DEF Moved, PlanInv, Core, Placed, PlacedIn
        <4>2. artifacts[job[g].artifact] \in Artifact
          BY <1>1, <4>1 DEF Typed
        <4> QED
          BY <4>1, <4>2 DEF Artifact
      <3>4. PICK q \in Proposals : q = job[g].subject
        BY <3>3
      <3>5. Kept(q)'
        BY <2>2, <3>2, <3>4
      <3> QED
        BY <3>1, <3>4, <3>5 DEF Kept
    <2>4. SpecNotLost'
      BY <1>1, <1>2, <1>3, <1>9, <2>1 DEF SpecNotLost
    <2> QED
      BY <2>1, <2>3, <2>4 DEF Files
  <1>11. StillThere'
    <2>1. serial => \A g \in Handlers \ {h} : job[g].at = "idle"
      BY <1>1 DEF PlanInv, Alone
    <2> QED
      BY <1>1, <1>2, <1>3, <1>9, <2>1 DEF StillThere
  <1>12. MovedIsDecided'
    <2> SUFFICES ASSUME serial, NEW q \in Proposals \ undecided, published'[q] # 0
                 PROVE  Decided(q)' \/ \E g \in Handlers :
                            Moved(job'[g], artifacts') /\ job'[g].subject = q
      BY <1>3 DEF MovedIsDecided
    <2>1. published[q] # 0
      BY <1>5
    <2>2. Decided(q) \/ \E g \in Handlers : Moved(job[g], artifacts) /\ job[g].subject = q
      BY <2>1 DEF PlanInv, MovedIsDecided
    <2>3. ASSUME NEW g \in Handlers, Moved(job[g], artifacts)
          PROVE  job'[g] = job[g] /\ Moved(job'[g], artifacts')
      BY <1>1, <1>3, <1>9, <2>3 DEF Moved
    <2>4. Decided(q) => Decided(q)'
      BY <1>3 DEF Decided
    <2> QED
      BY <2>2, <2>3, <2>4
  <1> QED
    BY <1>6, <1>8, <1>10, <1>11, <1>12 DEF PlanInv

(* The steps of a request that is between the two file operations.          *)
LEMMA Publishes ==
    ASSUME PlanInv, NEW h \in Handlers, Publish(h)
    PROVE  PlanInv'
  <1> DEFINE p == job[h].subject
             j == [job[h] EXCEPT !.at = "filed"]
  <1>1. /\ job[h] \in Job /\ job \in [Handlers -> Job] /\ Typed
        /\ job[h].at = "removed" /\ PlacedIn(job[h], artifacts, run.proposal)
        /\ job[h].decision = "approved" /\ staging[p] # 0
        /\ \A g \in Handlers \ {h} : job[g].at # "removed"
    BY CoreParts DEF PlanInv, Placed, Publish, Files, OneRemoves, RemovedIsStaged, Running
  <1>2. /\ j \in Job /\ j.at = "filed" /\ j.decision = "approved"
        /\ j.subject = p /\ j.artifact = job[h].artifact /\ job' = [job EXCEPT ![h] = j]
    BY <1>1 DEF Job, Publish
  <1> HIDE DEF j
  <1>3. /\ UNCHANGED <<serial, served, restarted, interview, run, task, branched, validation,
                       artifacts, codes, torn, undecided>>
        /\ published' = [published EXCEPT ![p] = staging[p]]
        /\ staging' = [staging EXCEPT ![p] = 0]
    BY DEF Publish, rows
  <1>4. p \in Proposals
    <2>1. job[h].artifact \in 1..Len(artifacts) /\ p = artifacts[job[h].artifact].of
      BY <1>1 DEF PlacedIn
    <2>2. artifacts[job[h].artifact] \in Artifact
      BY <1>1, <2>1 DEF Typed
    <2> QED
      BY <2>1, <2>2 DEF Artifact
  <1>5. /\ published' \in [Proposals -> 0..codes] /\ published'[p] # 0
        /\ staging' \in [Proposals -> 0..codes]
        /\ \A q \in Proposals \ {p} : published'[q] = published[q]
    <2>1. /\ published \in [Proposals -> 0..codes] /\ staging \in [Proposals -> 0..codes]
          /\ 0 \in 0..codes
      BY <1>1, Constants DEF Typed
    <2> QED
      BY <1>1, <1>3, <1>4, <2>1
  <1>6. Typed' /\ Grows /\ SpecsAreOfValidations' /\ ValidationHasRun' /\ TasksFollowTheRun'
    <2>1. Typed'
      BY <1>1, <1>3, <1>5 DEF Typed
    <2>2. Grows
      BY <1>1, <1>3, Constants DEF Typed, Grows
    <2> QED
      BY <1>3, <2>1, <2>2 DEF PlanInv, Core, SpecsAreOfValidations, ValidationHasRun,
           TasksFollowTheRun
  <1>7. Turn(h, j) /\ PlacedIn(j, artifacts', run'.proposal) /\ Moved(j, artifacts')
    BY <1>1, <1>2, <1>3 DEF Turn, PlacedIn, Moved
  <1>8. Core' /\ Alone' /\ InOrder'
    BY <1>2, <1>3, <1>6, <1>7, TurnCore, TurnAlone, TurnInOrder DEF PlanInv
  <1>9. job'[h] = j /\ \A g \in Handlers \ {h} : job'[g] = job[g] /\ job[g].at # "removed"
    BY <1>1, <1>2
  <1>10. Running' = {}
    BY <1>2, <1>9 DEF Running
  <1>11. \A q \in Proposals : Kept(q) => published'[q] # 0 \/ q \in torn'
    BY <1>1, <1>3, <1>5 DEF Kept, Running
  <1>12. Files'
    <2>1. OneRemoves' /\ RemovedIsStaged'
      BY <1>10 DEF OneRemoves, RemovedIsStaged, Running
    <2>2. FiledIsKept'
      <3> SUFFICES ASSUME NEW g \in Handlers, Moved(job'[g], artifacts')
                   PROVE  published'[job'[g].subject] # 0 \/ job'[g].subject \in torn'
        BY DEF FiledIsKept, Kept
      <3>1. CASE g = h
        BY <1>2, <1>5, <1>9, <3>1
      <3>2. CASE g # h
        <4>1. job'[g] = job[g] /\ Moved(job[g], artifacts)
          BY <1>3, <1>9, <3>2 DEF Moved
        <4>2. Kept(job[g].subject)
          BY <4>1 DEF PlanInv, Files, FiledIsKept
        <4>3. /\ job[g].artifact \in 1..Len(artifacts)
              /\ job[g].subject = artifacts[job[g].artifact].of
          BY <4>1 DEF Moved, PlanInv, Core, Placed, PlacedIn
        <4>4. artifacts[job[g].artifact] \in Artifact
          BY <1>1, <4>3 DEF Typed
        <4>5. job[g].subject \in Proposals
          BY <4>3, <4>4 DEF Artifact
        <4> QED
          BY <1>11, <4>1, <4>2, <4>5
      <3> QED
        BY <3>1, <3>2
    <2>3. SpecNotLost'
      <3>1. validation.path => Kept(run.proposal)
        BY DEF PlanInv, Files, SpecNotLost, Kept
      <3>2. validation.path => run.proposal \in Proposals
        BY <1>1, Constants DEF PlanInv, Core, ValidationHasRun, Typed
      <3> QED
        BY <1>3, <1>11, <3>1, <3>2 DEF SpecNotLost
    <2> QED
      BY <2>1, <2>2, <2>3 DEF Files
  <1>13. StillThere'
    <2>1. serial => \A g \in Handlers \ {h} : job[g].at = "idle"
      BY <1>1 DEF PlanInv, Alone
    <2>2. serial => run.proposal = p
      BY <1>1 DEF PlanInv, StillThere
    <2> QED
      BY <1>2, <1>3, <1>9, <2>1, <2>2 DEF StillThere
  <1>14. MovedIsDecided'
    <2> SUFFICES ASSUME serial, NEW q \in Proposals \ undecided, published'[q] # 0
                 PROVE  Decided(q)' \/ \E g \in Handlers :
                            Moved(job'[g], artifacts') /\ job'[g].subject = q
      BY <1>3 DEF MovedIsDecided
    <2>1. CASE q = p
      BY <1>2, <1>7, <1>9, <2>1
    <2>2. CASE q # p
      <3>1. Decided(q) \/ \E g \in Handlers : Moved(job[g], artifacts) /\ job[g].subject = q
        BY <1>5, <2>2 DEF PlanInv, MovedIsDecided
      <3>2. ASSUME NEW g \in Handlers, Moved(job[g], artifacts)
            PROVE  job'[g] = job[g] /\ Moved(job'[g], artifacts')
        BY <1>1, <1>3, <1>9, <3>2 DEF Moved
      <3>3. Decided(q) => Decided(q)'
        BY <1>3 DEF Decided
      <3> QED
        BY <3>1, <3>2, <3>3
    <2> QED
      BY <2>1, <2>2
  <1> QED
    BY <1>6, <1>8, <1>12, <1>13, <1>14 DEF PlanInv

(* A rename that fails leaves the validation torn.                          *)
LEMMA RenameFails ==
    ASSUME PlanInv, NEW h \in Handlers, RenameThrows(h)
    PROVE  PlanInv'
  <1> DEFINE p == job[h].subject
  <1>1. /\ Typed /\ job \in [Handlers -> Job] /\ job[h].at = "removed" /\ p \in Proposals
        /\ \A g \in Handlers \ {h} : job[g].at # "removed"
    BY CoreParts, SubjectIsThere DEF PlanInv, RenameThrows, Files, OneRemoves
  <1>2. /\ job' = [job EXCEPT ![h] = Idle] /\ Turn(h, Idle)
        /\ torn' = torn \cup {p}
        /\ UNCHANGED <<serial, served, restarted, interview, run, task, branched, validation,
                       artifacts, staging, published, codes, undecided>>
    BY <1>1 DEF RenameThrows, Turn, rows
  <1>3. Typed' /\ Grows
    <2>1. Typed'
      BY <1>1, <1>2 DEF Typed
    <2> QED
      BY <1>1, <1>2, <2>1, SameGrows
  <1>4. SpecsAreOfValidations' /\ ValidationHasRun' /\ TasksFollowTheRun'
    BY <1>2 DEF PlanInv, Core, SpecsAreOfValidations, ValidationHasRun, TasksFollowTheRun
  <1>5. PlacedIn(Idle, artifacts', run'.proposal) /\ ~Moved(Idle, artifacts')
    BY IdleJob DEF PlacedIn, Moved
  <1>6. Core' /\ Alone' /\ InOrder'
    BY <1>2, <1>3, <1>4, <1>5, IdleJob, TurnCore, TurnAlone, TurnInOrder DEF PlanInv
  <1>7. StillThere' /\ MovedIsDecided'
    BY <1>1, <1>2, <1>3, <1>5, IdleJob, TurnDecided DEF Moved
  <1>8. job'[h] = Idle /\ \A g \in Handlers \ {h} : job'[g] = job[g]
    BY <1>1, <1>2
  <1>9. Running' = {}
    BY <1>1, <1>8, IdleJob DEF Running
  <1>10. \A q : Kept(q) => published'[q] # 0 \/ q \in torn'
    BY <1>1, <1>2 DEF Kept, Running
  <1>11. Files'
    <2>1. OneRemoves' /\ RemovedIsStaged'
      BY <1>9 DEF OneRemoves, RemovedIsStaged, Running
    <2>2. FiledIsKept'
      BY <1>2, <1>5, <1>8, <1>10 DEF FiledIsKept, Kept, PlanInv, Files
    <2>3. SpecNotLost'
      <3>1. validation.path => Kept(run.proposal)
        BY DEF PlanInv, Files, SpecNotLost, Kept
      <3> QED
        BY <1>2, <1>10, <3>1 DEF SpecNotLost
    <2> QED
      BY <2>1, <2>2, <2>3 DEF Files
  <1> QED
    BY <1>4, <1>6, <1>7, <1>11 DEF PlanInv

(* A stop between the two file operations tears what was being replaced,    *)
(* and one after them leaves what was moved undecided.                      *)
LEMMA Restarts ==
    ASSUME PlanInv, Restart
    PROVE  PlanInv'
  <1>1. Typed /\ job \in [Handlers -> Job] /\ Placed
    BY CoreParts DEF PlanInv
  <1>2. /\ restarted' = TRUE /\ job' = [h \in Handlers |-> Idle]
        /\ UNCHANGED <<serial, served, interview, run, task, branched, validation, artifacts,
                       staging, published, codes>>
        /\ torn' = torn \cup {job[h].subject : h \in Running}
        /\ undecided' = undecided \cup MovedBy(Handlers)
    BY DEF Restart, rows, Running
  <1>3. /\ \A h \in Running : job[h].subject \in Proposals
        /\ MovedBy(Handlers) \subseteq Proposals
        /\ \A h \in Handlers : Moved(job[h], artifacts) => job[h].subject \in MovedBy(Handlers)
    BY SubjectIsThere DEF Running, MovedBy, Moved
  <1>4. Typed' /\ job' \in [Handlers -> Job] /\ \A h \in Handlers : job'[h].at = "idle"
    <2>1. torn' \subseteq Proposals /\ undecided' \subseteq Proposals
      BY <1>1, <1>2, <1>3 DEF Typed
    <2> QED
      BY <1>1, <1>2, <2>1, IdleJob DEF Typed
  <1>5. Core'
    <2>1. TypeOK'
      BY <1>4 DEF TypeOK, Typed, Job, Artifact
    <2>2. Placed'
      BY <1>4 DEF Placed, PlacedIn
    <2> QED
      BY <1>2, <2>1, <2>2 DEF Core, PlanInv, SpecsAreOfValidations, ValidationHasRun
  <1>6. TasksFollowTheRun' /\ Alone' /\ InOrder' /\ StillThere'
    BY <1>2, <1>4 DEF PlanInv, TasksFollowTheRun, Alone, InOrder, StillThere
  <1>8. MovedIsDecided'
    <2> SUFFICES ASSUME serial, NEW p \in Proposals \ undecided', published[p] # 0
                 PROVE  Decided(p)'
      BY <1>2 DEF MovedIsDecided
    <2>1. Decided(p)
      BY <1>2, <1>3 DEF PlanInv, MovedIsDecided
    <2> QED
      BY <1>2, <2>1 DEF Decided
  <1>7. Files'
    <2>1. OneRemoves' /\ RemovedIsStaged' /\ FiledIsKept'
      BY <1>4 DEF OneRemoves, RemovedIsStaged, FiledIsKept, Moved, Running
    <2>2. SpecNotLost'
      BY <1>2 DEF PlanInv, Files, SpecNotLost
    <2> QED
      BY <2>1, <2>2 DEF Files
  <1> QED
    BY <1>5, <1>6, <1>7, <1>8 DEF PlanInv

(* A step of nobody's: a task is prepared, or nothing happens.              *)
LEMMA Rests ==
    ASSUME PlanInv, PrepareBranch \/ UNCHANGED vars
    PROVE  PlanInv'
  <1>1. /\ UNCHANGED <<serial, served, restarted, interview, run, task, validation, artifacts,
                       staging, published, codes, torn, undecided, job>>
        /\ branched' \in BOOLEAN
    BY DEF PrepareBranch, vars, rows, files, PlanInv, Core, TypeOK
  <1>2. Core'
    BY <1>1 DEF PlanInv, Core, TypeOK, Placed, SpecsAreOfValidations, ValidationHasRun
  <1>3. TasksFollowTheRun' /\ Files'
    BY <1>1 DEF PlanInv, TasksFollowTheRun, Files, OneRemoves, RemovedIsStaged, FiledIsKept,
       Moved, Kept, SpecNotLost, Running
  <1>4. Alone' /\ InOrder' /\ StillThere' /\ MovedIsDecided'
    BY <1>1 DEF PlanInv, Alone, InOrder, StillThere, MovedIsDecided, Moved, Decided
  <1> QED
    BY <1>2, <1>3, <1>4 DEF PlanInv

-----------------------------------------------------------------------------
(* Theorems *)

LEMMA StepInv == PlanInv /\ [Next]_vars => PlanInv'
  <1> SUFFICES ASSUME PlanInv, [Next]_vars PROVE PlanInv'
    OBVIOUS
  <1>1. ASSUME NEW h \in Handlers, Publish(h) \/ RenameThrows(h) PROVE PlanInv'
    BY <1>1, Publishes, RenameFails
  <1>2. ASSUME Running = {}, NEW h \in Handlers, Request(h) PROVE PlanInv'
    <2>1. ASSUME NEW rounds \in SUBSET (1..Rounds), Answer(h, rounds) PROVE PlanInv'
      BY <1>2, <2>1, Answers
    <2>2. CASE Generate(h) \/ GenerateSpec(h)
      BY <1>2, <2>2, Quiet
    <2>3. ASSUME NEW granted \in BOOLEAN,
                 ApproveRun(h, granted) \/ DecideValidation(h, granted)
          PROVE  PlanInv'
      BY <1>2, <2>3, Approvals
    <2>4. CASE RequestReview(h)
      BY <1>2, <2>4, Reviews
    <2>5. ASSUME NEW a \in 1..Len(artifacts), NEW d \in {"approved", "rejected"},
                 Decide(h, a, d)
          PROVE  PlanInv'
      BY <1>2, <2>5, Decides
    <2> QED
      BY <1>2, <2>1, <2>2, <2>3, <2>4, <2>5 DEF Request
  <1>3. ASSUME Running = {}, NEW h \in Handlers, Continue(h) PROVE PlanInv'
    <2>1. CASE MergeRead(h)
      BY <1>3, <2>1, MergeReads
    <2>2. CASE MergeWrite(h)
      BY <1>3, <2>2, MergeWrites
    <2>3. CASE PersistProposal(h)
      BY <1>3, <2>3, Persists
    <2>4. CASE GenerateFails(h) \/ ShowProposal(h) \/ DecideThrows(h)
      BY <1>3, <2>4, Quiet
    <2>10. CASE CommitThrows(h)
      BY <1>3, <2>10, CommitFails
    <2>5. CASE ReviewProposal(h) \/ ReviewSpec(h)
      BY <1>3, <2>5, Reviews
    <2>6. CASE StageSpec(h)
      BY <1>3, <2>6, Stages
    <2>7. CASE DropStaged(h)
      BY <1>3, <2>7, Drops
    <2>8. CASE RemovePublished(h)
      BY <1>3, <2>8, Removes
    <2>9. CASE Commit(h)
      BY <1>3, <2>9, Commits
    <2> QED
      BY <1>3, <2>1, <2>2, <2>3, <2>4, <2>5, <2>6, <2>7, <2>8, <2>9, <2>10
         DEF Continue
  <1>4. CASE Restart
    BY <1>4, Restarts
  <1>5. CASE PrepareBranch \/ UNCHANGED vars
    BY <1>5, Rests
  <1> QED
    BY <1>1, <1>2, <1>3, <1>4, <1>5 DEF Next

LEMMA PlanInvariant == Spec => []PlanInv
  <1>1. Init => PlanInv
    BY InitInv
  <1>2. PlanInv /\ [Next]_vars => PlanInv'
    BY StepInv
  <1> QED
    BY <1>1, <1>2, PTL DEF Spec

(* The variables of a planner run stay in their types.                      *)
THEOREM TypeCorrect == Spec => []TypeOK
  <1>1. PlanInv => TypeOK
    BY DEF PlanInv, Core
  <1> QED
    BY <1>1, PlanInvariant, PTL

(* No order of generating, approving and rejecting, by the run or by its    *)
(* review artifacts, leaves a run approved whose task is still to be.       *)
THEOREM ApprovedRunHasNoPlannedTask == Spec => []TasksFollowTheRun
  <1>1. PlanInv => TasksFollowTheRun
    BY DEF PlanInv
  <1> QED
    BY <1>1, PlanInvariant, PTL

(* Whatever requests overlap, fail or are cut off, a validation that names  *)
(* its generated spec has one, unless the last move that was to replace it  *)
(* stopped or failed between removing the old file and renaming the new     *)
(* one.                                                                     *)
THEOREM SpecsAreNotLost == Spec => []SpecNotLost
  <1>1. PlanInv => SpecNotLost
    BY DEF PlanInv, Files
  <1> QED
    BY <1>1, PlanInvariant, PTL

(* While requests come one at a time a spec is where the tests are only     *)
(* once a spec of its validation is decided, or a decision that moved it    *)
(* was not recorded: its transaction failed, or the server stopped.         *)
THEOREM PublishedIsDecided == Spec => []PublishedWasDecided
  <1>1. PlanInv => PublishedWasDecided
    BY DEF PlanInv, MovedIsDecided, PublishedWasDecided, Moved, Decided
  <1> QED
    BY <1>1, PlanInvariant, PTL

(* While requests come one at a time an interview only grows, by the round  *)
(* it was waiting for.                                                      *)
THEOREM InterviewGrowsInOrder == Spec => InterviewAdvances
  <1>1. PlanInv /\ [Next]_vars =>
          [serial /\ interview' # interview =>
             interview' = interview \cup {NextRound(interview)}]_vars
    <2> SUFFICES ASSUME PlanInv, Next, serial, interview' # interview
                 PROVE  interview' = interview \cup {NextRound(interview)}
      OBVIOUS
    <2>1. Running = {} /\ \E h \in Handlers : MergeWrite(h)
      BY DEF Next, Request, Continue, Publish, RenameThrows, PrepareBranch, Restart, Answer, Generate,
         ApproveRun, DecideValidation, GenerateSpec, RequestReview, Decide, MergeRead,
         PersistProposal, GenerateFails, ShowProposal, ReviewProposal, StageSpec, ReviewSpec,
         DropStaged, RemovePublished, DecideThrows, Commit, CommitThrows
    <2> QED
      BY <2>1, MergeWrites
  <1> QED
    BY <1>1, PlanInvariant, PTL DEF Spec, InterviewAdvances
=============================================================================
