------------------------------ MODULE LiveView -------------------------------
(***************************************************************************)
(* The operator's live view (apps/cli/src/live.ts): frames cut out of the   *)
(* chunks of an event stream, and the panes they add up to.                 *)
(*                                                                         *)
(* Text is a sequence of lines and line ends.  A line has a field and a     *)
(* value, and the value of a data line is the event it encodes, NotAnEvent  *)
(* when it encodes none.  Titles and times are left out of the panes.       *)
(***************************************************************************)
EXTENDS Integers, Sequences, SequencesExt, FiniteSets

NotAnEvent == [id |-> "none"]
LF == [is |-> "LF"]
CR == [is |-> "CR"]
TextLine(field, value) == [is |-> "line", field |-> field, value |-> value]

Has(record, name) == name \in DOMAIN record

-----------------------------------------------------------------------------
(* Frames                                                                   *)

(* A carriage return goes when a line feed follows it in the buffer.        *)
WithoutCR(text) ==
    FoldLeft(LAMBDA s, x : IF x = LF /\ s # <<>> /\ Last(s) = CR
                           THEN Append(Front(s), LF) ELSE Append(s, x), <<>>, text)

(* The text up to each blank line, and what is left.                        *)
Parts(text) ==
    FoldLeft(LAMBDA s, x :
                IF x = LF /\ s.rest # <<>> /\ Last(s.rest) = LF
                THEN [parts |-> Append(s.parts, Front(s.rest)), rest |-> <<>>]
                ELSE [s EXCEPT !.rest = Append(@, x)],
             [parts |-> <<>>, rest |-> <<>>], text)

(* A part that begins with a comment, or has no data, is no frame; one of   *)
(* its lines of data is the event.                                          *)
IsLine(x, field) == x.is = "line" /\ x.field = field
BeginsWithComment(part) ==
    \E k \in DOMAIN part : /\ IsLine(part[k], "comment")
                           /\ \A j \in 1 .. k - 1 : part[j].is # "line"
EventOf(part) ==
    LET data == {k \in DOMAIN part : IsLine(part[k], "data")}
    IN IF BeginsWithComment(part) \/ Cardinality(data) # 1 THEN NotAnEvent
       ELSE part[CHOOSE k \in data : TRUE].value

(* What is no event is skipped.                                             *)
OnlyEvents(list) ==
    FoldLeft(LAMBDA s, e : IF e = NotAnEvent THEN s ELSE Append(s, e), <<>>, list)

(* parseSseFrames and frameToLoopEvent *)
ParseSse(buffer) ==
    LET split == Parts(WithoutCR(buffer)) IN
    [events |-> OnlyEvents([k \in DOMAIN split.parts |-> EventOf(split.parts[k])]),
     remainder |-> split.rest]

-----------------------------------------------------------------------------
(* Panes                                                                    *)

MaxEvaluatorLines == 20
EmptyView ==
    [epics |-> <<>>, seen |-> {}, evaluator |-> <<>>, notifications |-> <<>>,
     execution |-> "none", lastEvent |-> "none", lastFailure |-> <<>>, count |-> 0]

(* Map.set: what has the same key gives up its place, the rest is added.    *)
SetIn(list, key, x) ==
    IF \E k \in DOMAIN list : list[k][key] = x[key]
    THEN [k \in DOMAIN list |-> IF list[k][key] = x[key] THEN x ELSE list[k]]
    ELSE Append(list, x)

(* extractEpics: what has no key or no title is skipped.                    *)
ExtractTasks(tasks) ==
    FoldLeft(LAMBDA list, t :
        IF (Has(t, "stableId") \/ Has(t, "id")) /\ Has(t, "title")
        THEN Append(list,
               [stableId |-> IF Has(t, "stableId") THEN t.stableId ELSE t.id,
                status |-> IF Has(t, "status") THEN t.status ELSE "planned"])
        ELSE list, <<>>, tasks)
ExtractEpics(epics) ==
    FoldLeft(LAMBDA list, e :
        IF Has(e, "key") /\ Has(e, "title")
        THEN Append(list,
               [key |-> e.key,
                tasks |-> IF Has(e, "tasks") THEN ExtractTasks(e.tasks) ELSE <<>>])
        ELSE list, <<>>, epics)

(* mergeEpics: an epic known by its key gains the tasks it did not have.    *)
SetTasks(tasks) ==
    FoldLeft(LAMBDA list, t : SetIn(list, "stableId", t), <<>>, tasks)
MergeEpic(epics, epic) ==
    IF \E k \in DOMAIN epics : epics[k].key = epic.key
    THEN LET prior == epics[CHOOSE k \in DOMAIN epics : epics[k].key = epic.key]
         IN SetIn(epics, "key",
                  [key |-> epic.key, tasks |-> SetTasks(prior.tasks \o epic.tasks)])
    ELSE Append(epics, epic)
MergeEpics(existing, incoming) == FoldLeft(MergeEpic, existing, incoming)

(* applyTaskStatus *)
ApplyTaskStatus(epics, task, status) ==
    [k \in DOMAIN epics |-> [epics[k] EXCEPT !.tasks =
        [j \in DOMAIN @ |-> IF @[j].stableId = task
                            THEN [@[j] EXCEPT !.status = status] ELSE @[j]]]]

(* pushEvaluator keeps the last lines.                                      *)
PushEvaluator(lines, line) ==
    LET all == Append(lines, line) IN
    IF Len(all) > MaxEvaluatorLines
    THEN SubSeq(all, Len(all) - MaxEvaluatorLines + 1, Len(all)) ELSE all

(* parseNotificationPayload *)
IsNotification(payload) ==
    /\ Has(payload, "severity") /\ payload.severity \in {"info", "warn", "error"}
    /\ Has(payload, "subjectType") /\ Has(payload, "subjectId")

(* routeEvent *)
RouteEvent(view, event) ==
    LET payload == event.payload
        task == IF Has(payload, "taskId") THEN payload.taskId ELSE "task"
        settled == IF Has(payload, "taskId")
                   THEN [view EXCEPT !.epics = ApplyTaskStatus(@, task,
                           IF event.type = "task.completed" THEN "completed" ELSE "failed")]
                   ELSE view
    IN CASE event.type = "planner.proposed" ->
              IF Has(payload, "epics")
              THEN [view EXCEPT !.epics = MergeEpics(@, ExtractEpics(payload.epics))]
              ELSE view
         [] event.type = "task.completed" -> settled
         [] event.type = "task.failed" -> [settled EXCEPT !.lastFailure =
              <<task, IF Has(payload, "reason") THEN payload.reason ELSE "unknown">>]
         [] event.type \in {"evaluation.result", "evaluation.finished",
                            "evaluation.started", "benchmark.started",
                            "benchmark.finished", "regression.compared",
                            "regression.blocked"} ->
              [view EXCEPT !.evaluator = PushEvaluator(@, event.type)]
         [] event.type = "operator.notification" ->
              IF IsNotification(payload)
              THEN [view EXCEPT !.notifications = Append(@, event.id)] ELSE view
         [] OTHER -> view

(* One event of applyLiveViewEvents: an id that was seen is not new.        *)
ApplyEvent(view, event) ==
    IF event.id \in view.seen THEN view
    ELSE RouteEvent([view EXCEPT !.seen = @ \cup {event.id}, !.count = @ + 1,
                                 !.lastEvent = event.type,
                                 !.execution = IF Has(event, "taskExecutionId")
                                               THEN event.taskExecutionId ELSE @],
                    event)
ApplyEvents(view, events) == FoldLeft(ApplyEvent, view, events)

(* handleLiveViewKey, acknowledgeNotifications                              *)
HandleKey(view, key) ==
    IF key \in {"n", "N"} THEN [view EXCEPT !.notifications = <<>>] ELSE view

-----------------------------------------------------------------------------
(* The stream                                                               *)

(* Faulty: every chunk is parsed by itself.                                 *)
ReadChunkAlone(reader, chunk) ==
    LET parsed == ParseSse(chunk) IN
    [buffer |-> parsed.remainder, view |-> ApplyEvents(reader.view, parsed.events)]

(* One turn of runLiveViewWithStream                                        *)
ReadChunk(reader, chunk) ==
    LET parsed == ParseSse(reader.buffer \o chunk) IN
    [buffer |-> parsed.remainder, view |-> ApplyEvents(reader.view, parsed.events)]

RunLiveView(chunks) ==
    FoldLeft(ReadChunk, [buffer |-> <<>>, view |-> EmptyView], chunks).view

(* What the API writes: an event as a frame of its own, a heartbeat as a    *)
(* comment.                                                                 *)
Ends(crlf) == IF crlf THEN <<CR, LF>> ELSE <<LF>>
WireOf(frame, crlf) ==
    IF frame = NotAnEvent
    THEN <<TextLine("comment", NotAnEvent)>> \o Ends(crlf) \o Ends(crlf)
    ELSE <<TextLine("event", NotAnEvent)>> \o Ends(crlf)
         \o <<TextLine("data", frame)>> \o Ends(crlf)
         \o <<TextLine("id", NotAnEvent)>> \o Ends(crlf) \o Ends(crlf)
Wire(tape, crlf) == FoldLeft(LAMBDA s, f : s \o WireOf(f, crlf), <<>>, tape)

-----------------------------------------------------------------------------
(* Properties                                                               *)

(* However the stream is cut into chunks, wherever it breaks off and        *)
(* whatever it repeats, the view is that of the events whose frames came    *)
(* whole, each counted once.                                                *)
Joined(chunks) == FoldLeft(LAMBDA s, chunk : s \o chunk, <<>>, chunks)
ViewIsOfWholeFrames(tape, crlf, chunks) ==
    LET end == Len(Joined(chunks))
        whole == CHOOSE n \in 0 .. Len(tape) :
                   /\ Len(Wire(SubSeq(tape, 1, n), crlf)) <= end
                   /\ n < Len(tape) => Len(Wire(SubSeq(tape, 1, n + 1), crlf)) > end
        events == OnlyEvents(SubSeq(tape, 1, whole))
        view == RunLiveView(chunks)
    IN /\ view = ApplyEvents(EmptyView, events)
       /\ view.count = Cardinality({e.id : e \in ToSet(events)})

(* A pane tells the newest of what was said: a task has the status of the   *)
(* newest event that proposed or settled it, a notification stays until it  *)
(* is acknowledged, and the transcript ends with the newest evaluation.     *)
PanesTellTheNewest(events) ==
    LET view == ApplyEvents(EmptyView, events)
        new == {k \in DOMAIN events : \A j \in 1 .. k - 1 : events[j].id # events[k].id}
        Proposes(k, task) ==
            /\ events[k].type = "planner.proposed" /\ Has(events[k].payload, "epics")
            /\ \E e \in ToSet(ExtractEpics(events[k].payload.epics)) :
                 \E t \in ToSet(e.tasks) : t.stableId = task
        Settles(k, task) ==
            /\ events[k].type \in {"task.completed", "task.failed"}
            /\ Has(events[k].payload, "taskId") /\ events[k].payload.taskId = task
        evaluations == {k \in new : events[k].type = "evaluation.finished"}
    IN /\ \A e \in ToSet(view.epics) : \A t \in ToSet(e.tasks) :
            LET last == CHOOSE k \in new :
                          /\ Proposes(k, t.stableId) \/ Settles(k, t.stableId)
                          /\ \A j \in new : j > k => ~Proposes(j, t.stableId)
                                                     /\ ~Settles(j, t.stableId)
            IN Settles(last, t.stableId) =>
                 t.status = IF events[last].type = "task.failed" THEN "failed"
                            ELSE "completed"
       /\ ToSet(view.notifications) =
            {events[k].id : k \in {j \in new : events[j].type = "operator.notification"
                                               /\ IsNotification(events[j].payload)}}
       /\ HandleKey(view, "n").notifications = <<>>
       /\ Len(view.evaluator) <= MaxEvaluatorLines
       /\ evaluations = new /\ new # {} =>
            Len(view.evaluator) = IF Cardinality(new) < MaxEvaluatorLines
                                  THEN Cardinality(new) ELSE MaxEvaluatorLines
=============================================================================
