----------------------------- MODULE JiraImport -----------------------------
(***************************************************************************)
(* From Jira issues to planner rows: the paged search                      *)
(* (packages/jira-adapter/src/client.ts), what an issue becomes            *)
(* (mapping.ts) and the transaction that writes it (importService.ts).     *)
(*                                                                         *)
(* An issue is [key, kind, parent].  A task's stable id, an epic's key and *)
(* their Jira keys are all the key of the issue, which finds their rows;   *)
(* a validation is found only by the id that the project's mapping holds   *)
(* for its issue.  Titles, descriptions and orders are left out.           *)
(***************************************************************************)
EXTENDS Naturals, Sequences, SequencesExt, FiniteSets, Functions

CONSTANT NoKey      \* an issue without a parent, or an import without a key

-----------------------------------------------------------------------------
(* fetchIssuesByJql: pages of a search by offset or by token, each as long  *)
(* as the server lets it be.  The issues of a later page may be those of a  *)
(* search that has grown at its beginning.                                  *)
Page(server, start) ==
    LET found == IF start = 0 THEN server.issues ELSE server.later
        next  == start + server.size
    IN [issues |-> [k \in 1 .. Cardinality((start + 1 .. next) \cap DOMAIN found)
                      |-> found[start + k]],
        next |-> next, more |-> next < Len(found)]

(* The search from a page on; it throws when it runs out of pages.          *)
RECURSIVE SearchFrom(_, _, _)
SearchFrom(server, start, pages) ==
    LET page == Page(server, start) IN
    IF pages = 0 THEN <<NoKey>>
    ELSE IF page.more
         THEN page.issues \o SearchFrom(server, page.next, pages - 1)
         ELSE page.issues

FetchIssuesByJql(server, pageLimit) == SearchFrom(server, 0, pageLimit)

(* fetchEpicWithChildren: the epic, its children and the children of those. *)
FetchEpicWithChildren(jira, epicKey) ==
    LET epic     == SelectSeq(jira, LAMBDA i : i.key = epicKey)
        children == SelectSeq(jira, LAMBDA i : i.parent = epicKey)
        keys     == {children[k].key : k \in DOMAIN children}
    IN epic \o children \o SelectSeq(jira, LAMBDA i : i.parent \in keys)

-----------------------------------------------------------------------------
(* Acceptance criteria.  A field holds nothing, a text of lines, a list of  *)
(* values or a record with a label or with content; a line is blank, is a   *)
(* bare bullet or says something.                                           *)
Said(lines) == SelectSeq(lines, LAMBDA l : l \notin {"", "-"})

RECURSIVE AcceptanceLabels(_)
AcceptanceLabels(value) ==
    CASE value.is = "list" ->
           FlattenSeq([k \in DOMAIN value.of |-> AcceptanceLabels(value.of[k])])
      [] value.is = "record" ->
           Said(IF \E k \in DOMAIN value.label : value.label[k] # ""
                THEN value.label ELSE value.content)
      [] value.is = "text" -> Said(value.lines)
      [] OTHER -> <<>>

HasMeaningfulValue(value) ==
    CASE value.is = "absent" -> FALSE
      [] value.is = "text"   -> \E k \in DOMAIN value.lines : value.lines[k] # ""
      [] value.is = "list"   -> value.of # <<>>
      [] OTHER               -> TRUE

UniqueLabels(labels) ==
    FoldLeft(LAMBDA seen, l : IF l \in ToSet(seen) THEN seen ELSE Append(seen, l),
             <<>>, labels)

(* readAcceptanceField and normalizeAcceptanceCriteria: the first field     *)
(* that holds something decides, even if no criterion is in it.             *)
NormalizeAcceptanceCriteria(fields, fallback) ==
    LET k      == SelectInSeq(fields, HasMeaningfulValue)
        labels == IF k = 0 THEN <<>> ELSE AcceptanceLabels(fields[k])
    IN UniqueLabels(IF labels = <<>> THEN <<fallback>> ELSE labels)

-----------------------------------------------------------------------------
(* mapJiraIssuesToDrafts: of issues, one epic, its tasks and, for each task,*)
(* the subtasks of it.  The key of an import is trusted: the issue it names *)
(* is the epic, whatever its type.                                          *)
EpicIssues(issues, epicKey) ==
    SelectSeq(issues, LAMBDA i : IF epicKey = NoKey THEN i.kind = "epic"
                                 ELSE i.key = epicKey)

TaskIssues(issues, epic) ==
    SelectSeq(issues, LAMBDA i : i.kind = "task" /\ i.parent \in {epic, NoKey})

SubtasksOf(issues, task) ==
    SelectSeq(issues, LAMBDA i : i.kind = "subtask" /\ i.parent = task.key)

-----------------------------------------------------------------------------
(* The rows.  A deleted validation keeps its place, so that its id is never *)
(* given again.                                                             *)
EmptyDb == [runs |-> <<>>, epics |-> <<>>, tasks |-> <<>>,
            validations |-> <<>>, artifacts |-> <<>>, imports |-> <<>>]

Known(rows, key) == key \in DOMAIN rows

(* Writes a row of its own over the others.                                 *)
Put(rows, key, row) == (key :> row) @@ rows

(* upsertPlannerRun: the run of the last import, or the epic's, which may   *)
(* be another project's.                                                    *)
RunOf(db, project, epic) ==
    IF Known(db.imports, <<project, epic>>) THEN db.imports[<<project, epic>>].run
    ELSE IF Known(db.epics, epic) THEN db.epics[epic].run
    ELSE Len(db.runs) + 1

UpsertPlannerRun(db, project, run) ==
    IF run \in DOMAIN db.runs THEN db
    ELSE [db EXCEPT !.runs = Append(@, [project |-> project, status |-> "generated"])]

(* A row that is there keeps its status.                                    *)
RowStatus(rows, key, first) ==
    IF Known(rows, key) THEN rows[key].status ELSE first

UpsertEpic(db, project, run, epic) ==
    [db EXCEPT !.epics = Put(@, epic,
        [project |-> project, run |-> run,
         status |-> RowStatus(@, epic, "planned")])]

UpsertTask(db, epic, task) ==
    [db EXCEPT !.tasks = Put(@, task,
        [epic |-> epic, status |-> RowStatus(@, task, "planned")])]

(* Faulty: a validation is created whenever its issue is imported.          *)
UpsertValidationAnew(acc, task, issue) ==
    [db |-> [acc.db EXCEPT !.validations =
               Append(@, [issue |-> issue.key, task |-> task, status |-> "proposed"])],
     ids |-> Put(acc.ids, issue.key, Len(acc.db.validations) + 1)]

UpsertValidation(acc, task, issue) ==
    LET rows == acc.db.validations
        kept == Known(acc.ids, issue.key) /\ rows[acc.ids[issue.key]].status # "deleted"
        id   == IF kept THEN acc.ids[issue.key] ELSE Len(rows) + 1
    IN [db |-> [acc.db EXCEPT !.validations =
                  IF kept THEN [rows EXCEPT ![id].task = task]
                  ELSE Append(rows, [issue |-> issue.key, task |-> task,
                                     status |-> "proposed"])],
        ids |-> Put(acc.ids, issue.key, id)]

UpsertTaskAndValidations(acc, epic, issues, task) ==
    FoldLeft(LAMBDA a, issue : UpsertValidation(a, task.key, issue),
             [acc EXCEPT !.db = UpsertTask(@, epic, task.key)],
             SubtasksOf(issues, task))

(* upsertReviewArtifact: the artifact of the last import, or the run's.     *)
ArtifactOf(db, project, run, epic) ==
    LET ofRun == SelectInSeq(db.artifacts,
                    LAMBDA a : a.project = project /\ a.run = run)
    IN IF Known(db.imports, <<project, epic>>)
       THEN db.imports[<<project, epic>>].artifact
       ELSE IF ofRun # 0 THEN ofRun ELSE Len(db.artifacts) + 1

UpsertReviewArtifact(db, project, run, epic, id) ==
    [db EXCEPT !.artifacts =
        IF id \in DOMAIN @
        THEN [@ EXCEPT ![id].project = project, ![id].run = run, ![id].epic = epic]
        ELSE Append(@, [project |-> project, run |-> run, epic |-> epic,
                        status |-> "pending"])]

(* importJiraIssues, one transaction; without an epic it throws.            *)
ImportJiraIssues(db, project, issues, epicKey) ==
    IF EpicIssues(issues, epicKey) = <<>> THEN db
    ELSE LET epic     == EpicIssues(issues, epicKey)[1].key
             run      == RunOf(db, project, epic)
             artifact == ArtifactOf(db, project, run, epic)
             ids      == IF Known(db.imports, <<project, epic>>)
                         THEN db.imports[<<project, epic>>].validations ELSE <<>>
             upserted == FoldLeft(
                 LAMBDA a, task : UpsertTaskAndValidations(a, epic, issues, task),
                 [db |-> UpsertEpic(UpsertPlannerRun(db, project, run),
                                    project, run, epic),
                  ids |-> ids],
                 TaskIssues(issues, epic))
             final    == UpsertReviewArtifact(upserted.db, project, run, epic, artifact)
         IN [final EXCEPT !.imports = Put(@, <<project, epic>>,
                [run |-> run, artifact |-> artifact, validations |-> upserted.ids])]

(* A new proposal clears what belongs to a planner run.                     *)
ClearPlannerRunProposal(db, run) ==
    LET epics == {e \in DOMAIN db.epics : db.epics[e].run = run}
        tasks == {t \in DOMAIN db.tasks : db.tasks[t].epic \in epics}
    IN [db EXCEPT !.epics = Restrict(@, DOMAIN @ \ epics),
                  !.tasks = Restrict(@, DOMAIN @ \ tasks),
                  !.validations =
                     [k \in DOMAIN @ |-> IF @[k].task \in tasks
                        THEN [@[k] EXCEPT !.status = "deleted"] ELSE @[k]]]

-----------------------------------------------------------------------------
(* Properties                                                               *)

(* A search that ends found every issue it was about, each once unless the  *)
(* search grew meanwhile; it throws only if the pages do not suffice.       *)
SearchIsComplete(server, pageLimit) ==
    LET found == FetchIssuesByJql(server, pageLimit)
        pages == IF Len(server.issues) <= server.size THEN 1
                 ELSE (Len(server.later) + server.size - 1) \div server.size
    IN IF pages > pageLimit THEN NoKey \in ToSet(found)
       ELSE /\ ToSet(server.issues) \subseteq ToSet(found)
            /\ server.later = server.issues => found = server.issues

(* A draft is never without a criterion, none is blank or said twice, and   *)
(* all the criteria of the field that was read are there.                   *)
AcceptanceIsUsable(fields) ==
    LET criteria == NormalizeAcceptanceCriteria(fields, "Complete it") IN
    /\ criteria # <<>>
    /\ IsInjective(criteria)
    /\ ToSet(criteria) \cap {"", "-"} = {}
    /\ \E k \in DOMAIN fields :
         /\ HasMeaningfulValue(fields[k])
         /\ \A j \in 1 .. k - 1 : ~HasMeaningfulValue(fields[j])
         /\ AcceptanceLabels(fields[k]) # <<>>
       => "Complete it" \notin ToSet(criteria)

Live(db) == {v \in DOMAIN db.validations : db.validations[v].status # "deleted"}

(* An import takes no decision back, writes every task and every subtask of *)
(* the epic it is about, changes nothing when it is repeated, and as long   *)
(* as the project imports one epic no subtask has two validations.          *)
ImportIsSettled(before, project, issues, epicKey) ==
    LET db == ImportJiraIssues(before, project, issues, epicKey) IN
    /\ \A k \in DOMAIN before.runs : db.runs[k] = before.runs[k]
    /\ \A k \in DOMAIN before.artifacts :
         db.artifacts[k].status = before.artifacts[k].status
    /\ \A k \in DOMAIN before.validations :
         db.validations[k].status = before.validations[k].status
    /\ \A t \in DOMAIN before.tasks :
         Known(db.tasks, t) /\ db.tasks[t].status = before.tasks[t].status
    /\ EpicIssues(issues, epicKey) # <<>> =>
         LET epic == EpicIssues(issues, epicKey)[1].key IN
         \A t \in ToSet(TaskIssues(issues, epic)) :
           /\ db.tasks[t.key].epic = epic
           /\ \A s \in ToSet(SubtasksOf(issues, t)) :
                \E v \in Live(db) : /\ db.validations[v].issue = s.key
                                    /\ db.validations[v].task = t.key
    /\ ImportJiraIssues(db, project, issues, epicKey) = db
    /\ Cardinality(DOMAIN db.imports) = 1 =>
         \A v, w \in Live(db) :
           db.validations[v].issue = db.validations[w].issue => v = w
=============================================================================
