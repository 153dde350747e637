--------------------------- MODULE Decomposition ---------------------------
(***************************************************************************)
(* From the planner agents' answers to the proposal that is stored: the    *)
(* orchestrator and its agents (packages/planner/src/agents), the          *)
(* normalisation of a proposal (packages/planner/src/service.ts), the task *)
(* score (packages/task-intel/src/score.ts) and the validations made with  *)
(* each task (packages/db/src/repositories/plannerRepository.ts).          *)
(*                                                                         *)
(* A text is a sequence of words; "a" and "A" are one word in two cases,   *)
(* and <<"...">> is a text without a letter or digit.  None is a field that*)
(* is missing.  Fields that are only copied (goal, acceptance, risks, order *)
(* and the like) are left out.                                             *)
(***************************************************************************)
EXTENDS Integers, Sequences, FiniteSets, SequencesExt

CONSTANT None

Or(value, fallback) == IF value = None THEN fallback ELSE value

(* The last element that passes, or None: a Map filled in order.            *)
LastOf(s, Test(_)) ==
    LET k == SelectLastInSeq(s, Test) IN IF k = 0 THEN None ELSE s[k]

-----------------------------------------------------------------------------
(* Agents.  An answer is a sequence of [title, key, tasks], a task is       *)
(* [title, id, files, requires, items], an item is [kind, runner, command]. *)

(* runTaskWriter: the epic planner's epics stay, each with the tasks the    *)
(* writer gave the last epic of its title.                                  *)
WriteTasks(epics, written) ==
    [k \in DOMAIN epics |->
       LET answer == IF epics[k].title = None THEN None
                     ELSE LastOf(written, LAMBDA e : e.title = epics[k].title)
       IN [epics[k] EXCEPT !.tasks =
             IF answer = None THEN <<>> ELSE answer.tasks]]

FallbackItem == [kind |-> "logic", runner |-> "vitest", command |-> "vitest"]

(* runVerificationDesigner: plans are matched by epic and task title.       *)
Planned(task, plans) ==
    LET plan == IF plans = None \/ task.title = None THEN None
                ELSE LastOf(plans.tasks, LAMBDA t : t.title = task.title) IN
    IF plan = None THEN task ELSE [task EXCEPT !.items = plan.items]

(* Faulty: only tasks the designer left out get the fallback, not those it  *)
(* gave an empty plan.                                                      *)
EnsureItemIfAbsent(task) ==
    IF task.items = None THEN [task EXCEPT !.items = <<FallbackItem>>]
    ELSE task

(* ensureVerificationItems                                                  *)
EnsureItem(task) ==
    IF Or(task.items, <<>>) = <<>>
    THEN [task EXCEPT !.items = <<FallbackItem>>] ELSE task

Design(epics, designed) ==
    [k \in DOMAIN epics |->
       LET plans == IF epics[k].title = None THEN None
                    ELSE LastOf(designed, LAMBDA e : e.title = epics[k].title)
       IN [epics[k] EXCEPT !.tasks =
             [j \in DOMAIN @ |-> EnsureItem(Planned(@[j], plans))]]]

(* collectTasksMissingVerification: the reviewer's gate.                    *)
MissesVerification(epics) ==
    \E k \in DOMAIN epics : \E j \in DOMAIN epics[k].tasks :
        Or(epics[k].tasks[j].items, <<>>) = <<>>

(* runReviewer and runOrchestrator: one answer of the designer for the first*)
(* try and one for each re-route, at most REVIEWER_MAX_REROUTES; None when  *)
(* the gate refuses them all.                                               *)
Orchestrate(epics, written, designs) ==
    LET tasks == WriteTasks(epics, written)
        good  == {k \in DOMAIN designs :
                    ~MissesVerification(Design(tasks, designs[k]))} IN
    IF good = {} THEN None
    ELSE Design(tasks, designs[CHOOSE k \in good : \A j \in good : k <= j])

-----------------------------------------------------------------------------
(* Identifiers                                                              *)
Upper(word) == IF word = "a" THEN "A" ELSE word
Blank(text) == text = <<"...">>

NormalizeIdentifier(text) ==
    IF Blank(text) THEN <<"ITEM">> ELSE [k \in DOMAIN text |-> Upper(text[k])]

(* slugToIdentifier, for titles of at most six words.                       *)
Slug(title) == IF Blank(title) THEN None ELSE NormalizeIdentifier(title)

(* getPlannerNamespace and prefixNamespace: the last six characters of the  *)
(* run's id.                                                                *)
PrefixNamespace(namespace, id) ==
    IF Len(id) > 1 /\ Head(id) = namespace THEN id ELSE <<namespace>> \o id

(* reserveIdentifier: the first of id, id-2, id-3... that is free.          *)
ReserveIdentifier(id, used) ==
    IF id \notin used THEN id
    ELSE Append(id, ToString(CHOOSE n \in 2 .. Cardinality(used) + 2 :
           /\ Append(id, ToString(n)) \notin used
           /\ \A m \in 2 .. n - 1 : Append(id, ToString(m)) \in used))

-----------------------------------------------------------------------------
(* normalizePlannerProposal                                                 *)
Kinds == {"logic", "integration", "visual", "a11y", "typecheck", "lint",
          "evidence"}
Runners == {"vitest", "playwright", "tsc", "eslint", "jest", "custom"}

NormalizeKind(kind) == IF kind \in Kinds THEN kind ELSE "logic"

DefaultRunnerForKind(kind) ==
    CASE kind = "logic" -> "vitest"
      [] kind \in {"integration", "visual", "a11y"} -> "playwright"
      [] kind = "typecheck" -> "tsc"
      [] kind = "lint" -> "eslint"
      [] kind = "evidence" -> "custom"

NormalizeRunner(runner, kind, mode) ==
    IF runner \in Runners THEN runner
    ELSE IF mode = "generated" THEN DefaultRunnerForKind(kind) ELSE None

DefaultCommandForRunner(runner) ==
    IF runner \in {"vitest", "tsc"} THEN runner ELSE None

NormalizeItem(item, mode) ==
    LET kind   == NormalizeKind(item.kind)
        runner == NormalizeRunner(item.runner, kind, mode) IN
    [kind |-> kind, runner |-> runner,
     command |-> Or(item.command, DefaultCommandForRunner(runner))]

(* A proposal from outside is refused where a generated one is completed.   *)
StrictAccepts(epics) ==
    \A k \in DOMAIN epics :
        /\ epics[k].title # None /\ epics[k].tasks # <<>>
        /\ \A j \in DOMAIN epics[k].tasks :
            LET task == epics[k].tasks[j] IN
            /\ task.title # None
            /\ Or(task.items, <<>>) # <<>>
            /\ \A i \in DOMAIN task.items : task.items[i].kind \in Kinds

NormalizeTask(task, fallbackTitle, number, s, namespace, mode) ==
    LET title == Or(task.title, fallbackTitle \o <<"TASK", ToString(number)>>)
        raw   == NormalizeIdentifier(Or(task.id,
                   Or(Slug(title), <<"TASK", ToString(number)>>)))
        id    == ReserveIdentifier(PrefixNamespace(namespace, raw), s.ids)
        items == IF Or(task.items, <<>>) = <<>> THEN <<FallbackItem>>
                 ELSE task.items IN
    [s EXCEPT !.ids = @ \cup {id},
              !.tasks = Append(@,
                [title |-> title, id |-> id, files |-> task.files,
                 requires |-> task.requires,
                 items |-> [i \in DOMAIN items |->
                              NormalizeItem(items[i], mode)]])]

NormalizeEpic(epic, number, s, namespace, mode) ==
    LET title == Or(epic.title, <<"EPIC", ToString(number)>>)
        raw   == NormalizeIdentifier(Or(epic.key,
                   Or(Slug(title), <<"EPIC", ToString(number)>>)))
        key   == ReserveIdentifier(PrefixNamespace(namespace, raw), s.keys)
        inner == FoldLeftDomain(
                   LAMBDA t, j : NormalizeTask(epic.tasks[j], title, j, t,
                                               namespace, mode),
                   [ids |-> s.ids, tasks |-> <<>>], epic.tasks) IN
    [keys |-> s.keys \cup {key}, ids |-> inner.ids,
     epics |-> Append(s.epics, [title |-> title, key |-> key,
                                tasks |-> inner.tasks])]

Normalize(epics, namespace, mode) ==
    FoldLeftDomain(
      LAMBDA s, k : NormalizeEpic(epics[k], k, s, namespace, mode),
      [keys |-> {}, ids |-> {}, epics |-> <<>>], epics).epics

-----------------------------------------------------------------------------
(* scoreTaskComplexity, on what annotateProposalComplexity passes it: 50    *)
(* lines a file.  The labels are numbered: low, medium, high.               *)
Points(value, medium, high) ==
    IF value >= high THEN 2 ELSE IF value >= medium THEN 1 ELSE 0

Diversity(kinds) ==
    IF Cardinality(kinds) >= 4 THEN 5
    ELSE IF Cardinality(kinds) >= 2 THEN 1 ELSE 0

Complexity(task) ==
    LET score == Points(50 * task.files, 50, 200)
                   + Points(task.files + Len(task.requires), 3, 6)
                   + Diversity({task.items[i].kind : i \in DOMAIN task.items})
    IN IF score >= 5 THEN 3 ELSE IF score >= 2 THEN 2 ELSE 1

-----------------------------------------------------------------------------
(* The validations persistPlannerProposal stores with a task of n items.  A *)
(* validation given with the task is [item, title, status]: item is the     *)
(* index of one of its items, or None for one of its own.                   *)

(* splitExplicitValidationsByLegacyItem                                     *)
ValidationsAccepted(given, n) ==
    /\ \A v \in DOMAIN given :
        IF given[v].item = None THEN given[v].title # None
        ELSE given[v].item \in 1 .. n
    /\ \A v, w \in DOMAIN given :
        given[v].item # None /\ given[v].item = given[w].item => v = w

(* createValidationForVerificationItem: what was given for the item, or a   *)
(* proposed validation made from it.                                        *)
ValidationFor(k, given) ==
    LET own == {v \in DOMAIN given : given[v].item = k} IN
    [item |-> k, given |-> own,
     status |-> IF own = {} THEN "proposed"
                ELSE Or(given[CHOOSE v \in own : TRUE].status, "proposed")]

(* createVerificationItemForStandaloneValidation: an item of its own, after *)
(* the task's.                                                              *)
Standalone(given) ==
    FoldLeftDomain(LAMBDA alone, v : IF given[v].item = None THEN Append(alone, v)
                                     ELSE alone, <<>>, given)
StandaloneValidations(given, n) ==
    LET alone == Standalone(given) IN
    [k \in DOMAIN alone |->
       [item |-> n + k, given |-> {alone[k]},
        status |-> Or(given[alone[k]].status, "proposed")]]

StoredValidations(given, n) ==
    [k \in 1 .. n |-> ValidationFor(k, given)] \o StandaloneValidations(given, n)

-----------------------------------------------------------------------------
(* Properties                                                               *)

(* Where the tasks of all epics are.                                        *)
Places(epics) ==
    UNION {{<<k, j>> : j \in DOMAIN epics[k].tasks} : k \in DOMAIN epics}
TaskAt(epics, place) == epics[place[1]].tasks[place[2]]

AtMost(a, b) ==
    /\ a.files <= b.files /\ Len(a.requires) <= Len(b.requires)
    /\ \A i \in DOMAIN a.items : \E j \in DOMAIN b.items :
        a.items[i].kind = b.items[j].kind

Named(names) ==
    IsInjective(names) /\ \A x \in DOMAIN names : Head(names[x]) = "PLAN"

(* Whatever the agents answer, with titles missing, repeated or differing   *)
(* only in case, epics without tasks and tasks without plans, the gate      *)
(* accepts the designer's first answer, no epic is lost, every task has an  *)
(* item it can be verified by, and epic keys and task ids are distinct names*)
(* of this run.  A task that asks for no less is not rated easier.  A       *)
(* proposal that was read back and sent again keeps its names and items:    *)
(* from outside it is refused only for an epic without tasks.               *)
ProposalIsComplete(answers) ==
    LET result == Orchestrate(answers.epics, answers.written, answers.designs)
        stored == Normalize(result, "PLAN", "generated")
        places == Places(stored)
        tasks  == [place \in places |-> TaskAt(stored, place)] IN
    /\ result = Design(WriteTasks(answers.epics, answers.written),
                       answers.designs[1])
    /\ Len(stored) = Len(answers.epics)
    /\ \A at \in places : tasks[at].items # <<>>
    /\ \A at, other \in places : AtMost(tasks[at], tasks[other]) =>
        Complexity(tasks[at]) <= Complexity(tasks[other])
    /\ Named([k \in DOMAIN stored |-> stored[k].key])
    /\ Named([at \in places |-> tasks[at].id])
    /\ Normalize(stored, "PLAN", "strict") = stored
    /\ StrictAccepts(stored)
         <=> \A k \in DOMAIN stored : stored[k].tasks # <<>>

(* Every validation given with a task is stored once, every item of the task*)
(* has one validation, and no two share an item.                            *)
EveryItemIsValidated(given, n) ==
    ValidationsAccepted(given, n) =>
        LET stored == StoredValidations(given, n) IN
        /\ \A v \in DOMAIN given :
            \E k \in DOMAIN stored : stored[k].given = {v}
        /\ \A k \in DOMAIN stored : stored[k].item = k
        /\ Len(stored) = n + Cardinality({v \in DOMAIN given :
                                            given[v].item = None})
=============================================================================
