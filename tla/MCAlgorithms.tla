---------------------------- MODULE MCAlgorithms ----------------------------
(***************************************************************************)
(* The pure functions of the repository on every input of small families:   *)
(* a behaviour picks one input, and the properties of Algorithms, and       *)
(* ImportSettles below, compare what the function returns for it with what  *)
(* it should.                                                               *)
(***************************************************************************)
EXTENDS Algorithms, JiraImport

vars == input

(* Up to three requests to the model registry, one more at a time, to an    *)
(* empty one or to one that knows two models.                               *)
Setup(model, secretEnv, status, caps) ==
    [route |-> "/model-setup", provider |-> ProviderOf[model], model |-> model,
     secretEnv |-> secretEnv, auth |-> NotGiven, status |-> status,
     caps |-> caps, slots |-> NotGiven]
Patch(route, key, row, field, value) ==
    (key :> row) @@ [route |-> route, field |-> field, value |-> value]
TwoSetups == <<Setup("m1", "KEY", NotGiven, {}),
               [Setup("m3", NotGiven, "active", {"json"}) EXCEPT
                  !.slots = {"executor_strong"}]>>

Resolutions ==
    [slot : Executors, complexity : {"low", "high"},
     attempt : {NotGiven, 3, 4}, required : {{}, {"json"}}]

(* One beginning for each family.                                           *)
Families == {"project", "answers", "validations", "requests", "attempts", "keys",
             "search", "criteria", "calls", "testRuns", "regression",
             "evaluation", "stream", "tape"}

Init == \/ \E family \in Families : input = [of |-> "nothing", next |-> family]
        \/ \E first \in {<<>>, TwoSetups} :
             input = [of |-> "registry", requests |-> first, left |-> 3,
                      env |-> {"KEY"}, resolutions |-> Resolutions]
        \/ input = [of |-> "jira", db |-> EmptyDb, left |-> 2]

Nothing(family) == input.of = "nothing" /\ input.next = family

-----------------------------------------------------------------------------
(* Projects of three or four tasks, returned in several orders, with up to *)
(* four dependencies.  Every requires list also names its own task, a label *)
(* that is no task and one of its tasks twice.                              *)
TaskOrders == {<<1, 2, 3>>, <<3, 1, 2>>, <<3, 4, 1, 2>>}

Project(order, needs) ==
    [k \in DOMAIN order |->
       LET list == SetToSeq({n[2] : n \in {m \in needs : m[1] = order[k]}}) IN
       [id |-> order[k], requires |-> list \o <<order[k], 0>> \o list]]

Pairs(order) == {p \in ToSet(order) \X ToSet(order) : p[1] # p[2]}

PickProject ==
    \E order \in TaskOrders, n \in 0 .. 4 :
        \E needs \in kSubset(n, Pairs(order)) :
            /\ Nothing("project")
            /\ input' = [of |-> "project", tasks |-> Project(order, needs)]

-----------------------------------------------------------------------------
(* Answers of the planner's agents.                                         *)
Epic(title, key, tasks) == [title |-> title, key |-> key, tasks |-> tasks]
Item(kind, runner, command) ==
    [kind |-> kind, runner |-> runner, command |-> command]

FirstEpics == {Epic(<<"A">>, None, <<>>), Epic(None, None, <<>>)}
OtherEpics == {Epic(<<"A">>, None, <<>>), Epic(<<"a">>, <<"A", "2">>, <<>>),
               Epic(<<"...">>, None, <<>>), Epic(<<"B">>, <<"PLAN">>, <<>>)}
EpicAnswers == {<<e>> : e \in FirstEpics}
                \cup {<<e, f>> : e \in FirstEpics, f \in OtherEpics}
                \cup {<<e, f, f>> : e \in FirstEpics, f \in OtherEpics}

WrittenTasks ==
    [title : {<<"A">>, <<"a">>, <<"...">>, None},
     id : {None, <<"A", "2">>, <<"PLAN", "A">>}, files : {1},
     requires : {<<>>}, items : {None}]
        \cup {[title |-> <<"B">>, id |-> None, files |-> 4,
               requires |-> <<<<"A">>>>, items |-> None]}
TroubleTasks == {t \in WrittenTasks : t.id = None}
TaskLists == {<<>>} \cup {<<t>> : t \in WrittenTasks}
              \cup {<<t, u>> : t \in WrittenTasks, u \in TroubleTasks}

PlanFor(items) == [title |-> <<"A">>, items |-> items]
Designs ==
    {<<>>,
     <<Epic(<<"A">>, None, <<PlanFor(<<>>)>>)>>,
     <<Epic(<<"A">>, None,
         <<PlanFor(<<Item("lint", None, None), Item("nonsense", "jest", None)>>),
           [title |-> <<"B">>, items |->
              <<Item("logic", None, None), Item("typecheck", None, None),
                Item("a11y", None, None), Item("evidence", None, None)>>]>>)>>}

PickAnswers ==
    \E epics \in EpicAnswers, list \in TaskLists, design \in Designs :
        /\ Nothing("answers")
        /\ input' = [of |-> "answers", answers |->
             [epics |-> epics, designs |-> <<design, design, design>>,
              written |-> <<Epic(<<"A">>, None, list),
                            Epic(<<"B">>, None, <<>>)>>]]

-----------------------------------------------------------------------------
(* Validations given with a task of up to two items.                        *)
GivenValidations ==
    [item : {None, 0, 1, 2, 3}, title : {None, <<"A">>},
     status : {None, "approved"}]

PickValidations ==
    \E n \in 0 .. 2, list \in SeqOf(GivenValidations, 2) :
        /\ Nothing("validations")
        /\ input' = [of |-> "validations", given |-> list, items |-> n]

-----------------------------------------------------------------------------
(* Up to three requests about a server.                                      *)
ToolsOf(names, schema) == [name \in names |-> schema]

ServerDefinitions ==
    [status : {"pending"}, auth : {"none"}, credential : {NoCredential},
     env : {<<>>}, config : {"config"}, tools : {ToolsOf({"a", "b"}, "setup")}]
    \cup [status : {"pending"}, auth : {"env_passthrough"},
          credential : {NoCredential, [env |-> "URL", label |-> "label"]},
          env : {<<"URL">>}, config : {"config"},
          tools : {ToolsOf({"a"}, "setup")}]

PickRequests ==
    \E length \in 0 .. 3 :
        \E requests \in [1 .. length -> ServerRequests],
           definition \in ServerDefinitions, names \in {{"a"}, {"b", "c"}} :
            /\ Nothing("requests")
            /\ input' = [of |-> "requests", requests |-> requests,
                         definition |-> definition,
                         builtIn |-> ToolsOf(names, "start")]

-----------------------------------------------------------------------------
ModelRequests ==
    {Setup("m1", "KEY", NotGiven, {}), Setup("m1", "OTHER", "active", {}),
     [Setup("m1", NotGiven, "active", {"json"}) EXCEPT
        !.slots = {"executor_default", "executor_strong"}],
     [Setup("m3", NotGiven, "active", {"json"}) EXCEPT
        !.slots = {"executor_strong"}, !.auth = "api_key"],
     Setup("m3", "KEY", "active", {"json"}),
     Patch("/model-providers", "provider", "p1", "status", "active"),
     Patch("/model-providers", "provider", "p1", "status", "disabled"),
     Patch("/model-providers", "provider", "p2", "secret", "p1"),
     Patch("/model-providers", "provider", "p1", "secret", NoRow),
     Patch("/models", "model", "m1", "enabled", FALSE),
     Patch("/models", "model", "m3", "caps", {}),
     [route |-> "/model-secret-refs", label |-> "p1", reference |-> "KEY",
      status |-> "revoked"],
     [route |-> "/model-slots"]}
        \cup {[route |-> "/model-slots/assign", slot |-> key,
               primary |-> "m1", fallback |-> "m3"] : key \in Executors}

ModelRequest ==
    \E r \in ModelRequests :
        /\ input.of = "registry"
        /\ input.left > 0
        /\ input' = [input EXCEPT !.requests = Append(@, r), !.left = @ - 1]

PickAttempts ==
    \E slot \in Executors, complexity \in {"low", "high"}, a, b \in 1 .. 5 :
        /\ Nothing("attempts")
        /\ a <= b
        /\ input' = [of |-> "attempts", slot |-> slot, complexity |-> complexity,
                     attempt |-> a, later |-> b]

(* Keys in the environment, in the file and to be stored.                    *)
Keys == {[text |-> t, padded |-> p] : t \in {"short", "long"}, p \in BOOLEAN}
        \cup {[text |-> "other", padded |-> FALSE]}
Files == {NoRow} \cup UNION {[fields -> Keys] :
            fields \in {{"apiKey"}, {"token", "other"}, {"key", "apiKey"}}}

PickKeys ==
    \E envKey, key \in Keys \cup {NotGiven}, file \in Files :
        /\ Nothing("keys")
        /\ input' = [of |-> "keys", envKey |-> envKey, file |-> file,
                     key |-> key]

-----------------------------------------------------------------------------
(* Searches of up to five issues, on pages of one to three, that may grow.  *)
PickSearch ==
    \E n \in 0 .. 5, size, limit \in 1 .. 3, grown \in BOOLEAN :
        LET issues == [k \in 1 .. n |-> k] IN
        /\ Nothing("search")
        /\ input' = [of |-> "search", limit |-> limit,
              server |-> [size |-> size, issues |-> issues,
                          later |-> IF grown THEN <<0>> \o issues ELSE issues]]

(* Up to three fields with acceptance criteria.                              *)
Lines == {<<>>, <<"">>, <<"-">>, <<"a", "", "a">>, <<"b", "-">>}
Texts == {[is |-> "text", lines |-> l] : l \in Lines}
Values == {[is |-> "absent"]} \cup Texts
    \cup {[is |-> "record", label |-> l, content |-> m] : l, m \in Lines}
    \cup {[is |-> "list", of |-> s] : s \in SeqOf(Texts, 2)}
    \cup {[is |-> "list", of |-> <<t, [is |-> "list", of |-> <<t>>]>>] : t \in Texts}

PickCriteria ==
    \E fields \in {<<v>> : v \in Values}
                  \cup {<<v, w>> : v \in Values, w \in Texts} :
        /\ Nothing("criteria")
        /\ input' = [of |-> "criteria", fields |-> fields]

(* A Jira site in which a task and a subtask may have moved, imported by    *)
(* epic, by a search that finds an issue twice, or by one without an epic.  *)
Issue(key, kind, parent) == [key |-> key, kind |-> kind, parent |-> parent]
Sites == {<<Issue("E1", "epic", NoKey), Issue("T1", "task", epic),
            Issue("S1", "subtask", task), Issue("E2", "epic", NoKey),
            Issue("T2", "task", "E1"), Issue("S2", "subtask", "T2"),
            Issue("T3", "task", NoKey)>> : epic \in {"E1", "E2"}, task \in {"T1", "T2"}}
Imports ==
    {[issues |-> FetchEpicWithChildren(site, key), key |-> key] :
        site \in Sites, key \in {"E1", "E2", "T2"}}
    \cup {[issues |-> list, key |-> NoKey] :
        list \in {site \o SubSeq(site, 2, 3) : site \in Sites}
                 \cup {SubSeq(site, 5, 6) : site \in Sites}}

(* Elsewhere, everything that is there is approved.                         *)
Approved(rows) ==
    [k \in DOMAIN rows |->
       IF rows[k].status = "deleted" THEN rows[k]
       ELSE [rows[k] EXCEPT !.status = "approved"]]

DecideAll(db) ==
    [db EXCEPT !.runs = Approved(@), !.tasks = Approved(@),
               !.validations = Approved(@), !.artifacts = Approved(@)]

Import ==
    /\ input.of = "jira"
    /\ input.left > 0
    /\ \E db \in {ImportJiraIssues(input.db, project, i.issues, i.key) :
                    project \in {1, 2}, i \in Imports}
               \cup {DecideAll(input.db), ClearPlannerRunProposal(input.db, 1)} :
         input' = [input EXCEPT !.db = db, !.left = @ - 1]

-----------------------------------------------------------------------------
(* Scenarios that forbid a tool only, for two tools and two items, one of them *)
(* written twice, and for dimensions of their own.                          *)
PlainScenario == [expectedTools |-> <<>>, forbiddenTools |-> <<<<"push", 2>>>>,
                  expectedItems |-> <<>>, dimensions |-> <<>>,
                  passThreshold |-> 7500, warnThreshold |-> 6000]
Scenarios ==
    {PlainScenario,
     [PlainScenario EXCEPT
        !.expectedTools = <<<<"read", 1>>, <<"read", 2>>, <<"write", 1>>>>,
        !.forbiddenTools = <<<<"push", 1>>>>,
        !.expectedItems = <<<<"lint", 1>>, <<"test", 2>>>>],
     [PlainScenario EXCEPT
        !.passThreshold = 9000, !.expectedItems = <<<<"lint", 1>>>>,
        !.dimensions = [outcome_correctness |-> [hardFail |-> FALSE, weight |-> 0],
                        planner_quality |-> [passThreshold |-> 9000],
                        execution_quality |-> [hardFail |-> TRUE]]]}

Call(name, status, mutability, approval) ==
    [name |-> <<name, 1>>, status |-> status, mutability |-> mutability,
     approval |-> approval]
StoredCalls ==
    {Call("read", "succeeded", "read", FALSE), Call("read", "failed", "read", FALSE),
     Call("write", "succeeded", "write", TRUE), Call("write", "running", "write", FALSE),
     Call("write", "blocked", "write", FALSE), Call("push", "requested", "execute", TRUE),
     Call("push", "unheard of", "read", FALSE)}

PickCalls ==
    \E scenario \in Scenarios, calls \in SeqOf(StoredCalls, 2) :
        /\ Nothing("calls")
        /\ input' = [of |-> "calls", scenario |-> scenario, calls |-> calls,
                     runs |-> <<>>]

(* Up to three rows of two items, or of a command whose item is gone, in    *)
(* any order, two of them perhaps of one moment.                            *)
RunItem(id, title) == [id |-> id, title |-> <<title, 1>>]
TestRuns ==
    [item : {RunItem("i1", "lint")}, command : {"x"},
     phase : {"pre_red", "post_green"}, iteration : {1}, at : {1, 2},
     status : {"passed", "failed"}]
    \cup [item : {RunItem("i1", "lint")}, command : {"x"}, phase : {"post_green"},
          iteration : {2}, at : {1}, status : {"passed", "running"}]
    \cup [item : {RunItem("i2", "test")}, command : {"x"},
          phase : {"pre_red", "post_green"}, iteration : {1}, at : {1},
          status : {"passed"}]
    \cup [item : {RunItem("none", "none")}, command : {"test"},
          phase : {"post_green"}, iteration : {1}, at : {1}, status : {"passed"}]

PickTestRuns ==
    \E scenario \in {s \in Scenarios : s.dimensions = <<>>}, runs \in SeqOf(TestRuns, 3) :
        /\ Nothing("testRuns")
        /\ input' = [of |-> "testRuns", scenario |-> scenario, runs |-> runs,
                     calls |-> <<Call("read", "succeeded", "read", FALSE),
                                 Call("write", "succeeded", "write", TRUE)>>]

(* Two runs to compare, the candidate perhaps with an unsafe call.           *)
ScoredItem(status, approved) ==
    [name |-> <<"lint", 1>>, status |-> status, approvedSkip |-> approved]
RunInputs ==
    [calls : {<<>>, <<ToolCall(Call("write", "running", "write", FALSE))>>},
     items : {<<>>, <<ScoredItem("passed", FALSE)>>, <<ScoredItem("skipped", TRUE)>>,
              <<ScoredItem("passed", FALSE), ScoredItem("failed", FALSE)>>},
     evidence : {<<>>, [planner_quality |-> [score |-> 9940]],
                 [planner_quality |-> [passed |-> FALSE],
                  task_decomposition |-> [passedCount |-> 1, total |-> 3]],
                 [outcome_correctness |-> [score |-> 8450]],
                 [security_policy_compliance |-> [passed |-> TRUE]]},
     retryCount : {0}, modelCost : {0}]

PickRegression ==
    \E scenario \in Scenarios, base \in {r \in RunInputs : r.calls = <<>>},
       cand \in RunInputs :
        /\ Nothing("regression")
        /\ input' = [of |-> "regression", scenario |-> scenario, base |-> base,
                     cand |-> cand,
                     policy |-> IF scenario.dimensions = <<>> THEN <<>>
                                ELSE [aggregateDropTolerance |-> 0]]

(* Executions of up to four runs, with tool calls that repeat, fail or write *)
(* unapproved, and judges that answer at the edges of the verdicts.         *)
ToolUse(tool, mutability, status, approved) ==
    [tool |-> tool, arguments |-> 1, mutability |-> mutability,
     status |-> status, approved |-> approved]
EvalContexts ==
    [runs : {<<>>, <<TRUE>>, <<TRUE, FALSE, FALSE>>, <<TRUE, FALSE, FALSE, FALSE>>},
     failedSteps : {2},
     calls : {<<>>,
              [k \in 1 .. 4 |-> ToolUse("read", "read", "failed", FALSE)],
              <<ToolUse("write", "write", "succeeded", TRUE)>>,
              <<ToolUse("write", "write", "requested", FALSE)>>},
     retryCount : {1}, planApproved : BOOLEAN, onBase : BOOLEAN]
Answers ==
    {[d \in Judged |->
        CASE d = "outcome_correctness" -> outcome
          [] d \in {"verification_quality", "regression_risk"} -> quality
          [] OTHER -> work] :
        outcome, quality, work \in {55, 80, 100}}
Raised(answers) ==
    {[answers EXCEPT ![d] = n] :
        d \in Judged, n \in {60, 100}}

PickEvaluation ==
    \E context \in EvalContexts, answers \in Answers :
        /\ Nothing("evaluation")
        /\ input' = [of |-> "evaluation", context |-> context,
                     answers |-> answers, raised |-> Raised(answers)]

-----------------------------------------------------------------------------
(* Events of a stream, one of them twice, and heartbeats, in chunks.         *)
Event(id, type, payload) == [id |-> id, type |-> type, payload |-> payload]
EpicView(key, task, status) ==
    [key |-> key, title |-> key,
     tasks |-> <<[stableId |-> task, title |-> task, status |-> status],
                 [id |-> "t9", title |-> "t9"], [id |-> "t8"]>>]
Events ==
    {Event("e1", "planner.proposed", [epics |-> <<EpicView("E1", "t1", "ready")>>]),
     Event("e2", "planner.proposed",
           [epics |-> <<EpicView("E1", "t2", "ready"), [key |-> "E3"],
                        EpicView("E2", "t1", "ready")>>]),
     Event("e3", "planner.proposed", [epicCount |-> 1]),
     Event("e4", "task.completed", [taskId |-> "t1"]),
     Event("e5", "task.failed", [taskId |-> "t1", code |-> "TURNS"]),
     Event("e6", "task.failed", [reason |-> "lost"]),
     Event("e7", "evaluation.finished", [verdict |-> "passed"]),
     [taskExecutionId |-> "x1"] @@ Event("e8", "operator.notification",
           [severity |-> "warn", subjectType |-> "task", subjectId |-> "t1"]),
     Event("e9", "operator.notification", [severity |-> "loud"])}
Frames == {NotAnEvent} \cup {e \in Events : e.id \in {"e1", "e4", "e8"}}

Beginnings(tape, crlf) ==
    LET text == Wire(tape, crlf) IN {SubSeq(text, 1, n) : n \in 0 .. Len(text)}
Cuttings(text) ==
    {<<SubSeq(text, 1, n), SubSeq(text, n + 1, Len(text))>> : n \in 0 .. Len(text)}
        \cup {[k \in DOMAIN text |-> <<text[k]>>]}

PickStream ==
    \E tape \in SeqOf(Frames, 2), crlf \in BOOLEAN :
        \E text \in Beginnings(tape, crlf) : \E chunks \in Cuttings(text) :
            /\ Nothing("stream")
            /\ input' = [of |-> "stream", tape |-> tape, crlf |-> crlf,
                         chunks |-> chunks]

PickTape ==
    \/ \E events \in SeqOf(Events, 3) :
        /\ Nothing("tape")
        /\ input' = [of |-> "tape", events |-> events]
    \/ \E n \in {19, 20, 21, 22} :
        /\ Nothing("tape")
        /\ input' = [of |-> "tape", events |-> [k \in 1 .. n |->
               Event(ToString(k), "evaluation.finished", [verdict |-> "passed"])]]

-----------------------------------------------------------------------------
Next == PickRequests \/ PickProject \/ PickAnswers \/ PickValidations
        \/ ModelRequest \/ PickAttempts \/ PickKeys \/ PickSearch \/ PickCriteria \/ Import
        \/ PickCalls \/ PickTestRuns \/ PickRegression \/ PickEvaluation
        \/ PickStream \/ PickTape

Spec == Init /\ [][Next]_vars

(* See SearchIsComplete, AcceptanceIsUsable and ImportIsSettled in          *)
(* JiraImport.                                                              *)
ImportSettles ==
    /\ input.of = "search" => SearchIsComplete(input.server, input.limit)
    /\ input.of = "criteria" => AcceptanceIsUsable(input.fields)
    /\ input.of = "jira" => \A project \in {1, 2}, i \in Imports :
         ImportIsSettled(input.db, project, i.issues, i.key)

(* The families hold what is proper.                                        *)
ASSUME FamiliesAreProper ==
    /\ \A order \in TaskOrders : IsProject(Project(order, Pairs(order)))
    /\ \A list \in TaskLists : \A k \in DOMAIN list : IsTaskAnswer(list[k])
    /\ \A epics \in EpicAnswers : \A k \in DOMAIN epics : IsEpicAnswer(epics[k])
    /\ \A r \in ModelRequests \cup ToSet(TwoSetups) : IsRequest(r)
    /\ \A r \in Resolutions : IsResolution(r)
    /\ \A d \in ServerDefinitions : IsTable(d.tools)
    /\ \A s \in Scenarios : IsScenario(s)
    /\ \A r \in RunInputs : IsRunInput(r)
    /\ \A calls \in SeqOf(StoredCalls, 2) : IsCalls(calls)
    /\ \A runs \in SeqOf(TestRuns, 2) : IsRuns(runs)
    /\ \A tape \in SeqOf(Frames, 2) : IsTape(tape)
    /\ \A events \in SeqOf(Events, 3) : IsTape(events)
    /\ EvalContexts \subseteq Contexts /\ Answers \subseteq JudgeScores
=============================================================================
