----------------------------- MODULE Algorithms ------------------------------
(***************************************************************************)
(* The pure functions of the repository, on one input: what they may be     *)
(* given, and what they should then return.  The properties are checked on  *)
(* the inputs of small families (MCAlgorithms) and proved for every proper  *)
(* input (AlgorithmProofs).  What is proper is what the routes and the      *)
(* database let through; names are the keys of the models.  Streams are in  *)
(* StreamViews.                                                             *)
(***************************************************************************)
EXTENDS DependencyMap, Decomposition, McpSetup, ModelResolution, Benchmarks,
        Evaluation, StreamViews

IsTable(f) == f = [x \in DOMAIN f |-> f[x]]

-----------------------------------------------------------------------------
(* Plans *)

(* The tasks of a project: a list, with numbers for ids.                    *)
IsTasks(tasks) == IsList(tasks) /\ \A k \in DOMAIN tasks : tasks[k].id \in Nat
IsProject(tasks) ==
    /\ IsTasks(tasks)
    /\ \A j, k \in DOMAIN tasks : tasks[j].id = tasks[k].id => j = k

(* The answers of the planner's agents: texts that are not empty, or missing,*)
(* and lists.  An item's fields are what the agent wrote.                   *)
IsText(text) == text # None => IsList(text) /\ text # <<>>
IsEpicAnswer(epic) ==
    /\ epic = [title |-> epic.title, key |-> epic.key, tasks |-> epic.tasks]
    /\ IsText(epic.title) /\ IsText(epic.key)
IsItems(items) == items = None \/ IsList(items)
IsTaskAnswer(task) ==
    /\ task = [title |-> task.title, id |-> task.id, files |-> task.files,
               requires |-> task.requires, items |-> task.items]
    /\ IsText(task.title) /\ IsText(task.id)
    /\ task.files \in Nat /\ IsList(task.requires) /\ IsItems(task.items)
IsAnswers(answers) ==
    /\ IsList(answers.epics)
    /\ \A k \in DOMAIN answers.epics : IsEpicAnswer(answers.epics[k])
    /\ IsList(answers.written)
    /\ \A k \in DOMAIN answers.written :
         LET tasks == answers.written[k].tasks IN
         IsList(tasks) /\ \A j \in DOMAIN tasks : IsTaskAnswer(tasks[j])
    /\ IsList(answers.designs) /\ answers.designs # <<>>
    /\ \A d \in DOMAIN answers.designs :
         LET plans == answers.designs[d] IN
         /\ IsList(plans)
         /\ \A k \in DOMAIN plans :
              /\ IsList(plans[k].tasks)
              /\ \A j \in DOMAIN plans[k].tasks : IsItems(plans[k].tasks[j].items)

PlanIsProper ==
    /\ input.of = "project" => IsProject(input.tasks)
    /\ input.of = "answers" => IsAnswers(input.answers)
    /\ input.of = "validations" => IsList(input.given) /\ input.items \in Nat

(* See MapIsRight in DependencyMap, ProposalIsComplete and                  *)
(* EveryItemIsValidated in Decomposition.                                   *)
PlansAreSound ==
    /\ input.of = "project" => MapIsRight(input.tasks)
    /\ input.of = "answers" => ProposalIsComplete(input.answers)
    /\ input.of = "validations" =>
        EveryItemIsValidated(input.given, input.items)

-----------------------------------------------------------------------------
(* Setups *)

ServerRequests == {"setup", "activate", "apply", "start", "enable", "disable",
                   "credential", "clear"}

(* A request the routes of the model registry accept, with the project's    *)
(* own keys.                                                                *)
IsRequest(r) ==
    \/ /\ r.route = "/model-setup"
       /\ r.provider \in ProviderKeys /\ r.model \in ModelSlugs
       /\ ProviderOf[r.model] = r.provider
       /\ r.status # NoRow
    \/ r.route = "/model-secret-refs" /\ r.label \in ProviderKeys
    \/ /\ r.route = "/model-providers"
       /\ r.provider \in ProviderKeys
       /\ r.field \in {"auth", "secret", "status"}
       /\ r.field = "status" => r.value # NoRow
       /\ r.field = "secret" => r.value \in ProviderKeys \cup {NoRow}
    \/ /\ r.route = "/models"
       /\ r.model \in ModelSlugs /\ r.field \in {"enabled", "caps"}
       /\ r.field = "enabled" => r.value \in BOOLEAN
    \/ r.route = "/model-slots"
    \/ /\ r.route = "/model-slots/assign"
       /\ r.slot \in SlotKeys
       /\ {r.primary, r.fallback} \subseteq ModelSlugs \cup {NoRow}

(* What a resolution may ask for.                                           *)
IsResolution(r) ==
    r.slot \in SlotKeys /\ (r.attempt = NotGiven \/ r.attempt \in Nat \ {0})

SetupIsProper ==
    /\ input.of = "requests" =>
        /\ IsList(input.requests)
        /\ \A k \in DOMAIN input.requests : input.requests[k] \in ServerRequests
        /\ IsTable(input.definition.tools) /\ IsTable(input.builtIn)
    /\ input.of = "registry" =>
        /\ IsList(input.requests)
        /\ \A k \in DOMAIN input.requests : IsRequest(input.requests[k])
        /\ \A r \in input.resolutions : IsResolution(r)
    /\ input.of = "attempts" =>
        /\ input.slot \in SlotKeys
        /\ input.attempt \in Nat \ {0} /\ input.later \in Nat \ {0}
        /\ input.attempt <= input.later
    /\ input.of = "keys" => input.file = NoRow \/ IsTable(input.file)

(* See SetupSettles in McpSetup, ResolutionIsSound, NeverWeakens and        *)
(* StoredKeyIsFound in ModelResolution.                                     *)
SetupsAreSound ==
    /\ input.of = "requests" =>
        SetupSettles(input.requests, input.definition, input.builtIn)
    /\ input.of = "registry" =>
        ResolutionIsSound(input.requests, input.env, input.resolutions)
    /\ input.of = "attempts" =>
        NeverWeakens(input.slot, input.complexity, input.attempt, input.later)
    /\ input.of = "keys" =>
        StoredKeyIsFound(input.envKey, input.file, input.key)

-----------------------------------------------------------------------------
(* Scores *)

IsEvidence(e) ==
    /\ "score" \in DOMAIN e => e.score \in Int
    /\ Field(e, "total", 0) \in Int
    /\ Field(e, "total", 0) > 0 => e.passedCount \in Int

IsScenario(scenario) ==
    /\ IsList(scenario.expectedTools) /\ IsList(scenario.forbiddenTools)
    /\ IsList(scenario.expectedItems)
    /\ \A d \in Dimensions :
         LET config == Field(scenario.dimensions, d, <<>>) IN
         /\ Field(config, "passThreshold", Thresholds[d]) \in Int
         /\ Field(config, "hardFail", d \in HardFails) \in BOOLEAN
         /\ Field(config, "weight", Weights[d]) \in Nat

IsRunInput(run) ==
    /\ IsList(run.items) /\ run.retryCount \in Nat
    /\ \A d \in Dimensions \cap DOMAIN run.evidence : IsEvidence(run.evidence[d])

(* A list of stored calls or runs; what is read, and a run that passed, are *)
(* told by no other word.                                                   *)
IsCalls(calls) ==
    /\ IsList(calls)
    /\ \A k \in DOMAIN calls : calls[k].mutability \notin {"readonly", "read-only"}
IsRuns(runs) ==
    /\ IsList(runs)
    /\ \A k \in DOMAIN runs : /\ runs[k].iteration \in Nat /\ runs[k].at \in Nat
                              /\ runs[k].status \notin {"green", "completed"}

ScoreIsProper ==
    /\ input.of \in {"calls", "testRuns", "regression"} => IsScenario(input.scenario)
    /\ input.of \in {"calls", "testRuns"} => IsCalls(input.calls) /\ IsRuns(input.runs)
    /\ input.of = "regression" =>
        /\ IsRunInput(input.base) /\ IsRunInput(input.cand)
        /\ Field(input.policy, "aggregateDropTolerance", 200) \in Nat
    /\ input.of = "evaluation" =>
        /\ input.context \in Contexts /\ input.answers \in JudgeScores
        /\ input.raised \in SUBSET JudgeScores

(* See PassIsEarned, GateIsTheScore and BlockedIsNotPromoted in Benchmarks, *)
(* EvidenceDecides, BetterNeverWorse and PassingProceeds in Evaluation.     *)
ScoresAreSound ==
    /\ input.of \in {"calls", "testRuns"} =>
        /\ PassIsEarned(input.scenario, input.calls, input.runs)
        /\ GateIsTheScore(input.scenario, input.calls)
    /\ input.of = "regression" =>
        BlockedIsNotPromoted(input.scenario, input.base, input.cand, input.policy)
    /\ input.of = "evaluation" =>
        /\ EvidenceDecides(input.context, input.answers)
        /\ PassingProceeds(input.context, input.answers)
        /\ \A better \in input.raised :
              BetterNeverWorse(input.context, input.answers, better)
=============================================================================
