--------------------------- MODULE DependencyMap ---------------------------
(***************************************************************************)
(* GET /projects/:id/dependency-map (apps/api/src/app.ts): the project's   *)
(* tasks in an order that respects their requires lists, or a cycle that   *)
(* says why there is none.                                                 *)
(*                                                                         *)
(* A task is [id, requires]: its stable id, a number (ids are compared as  *)
(* the code compares strings), and its requires list.  The tasks come as a *)
(* sequence, in the order the database returns them.                       *)
(***************************************************************************)
EXTENDS Integers, Sequences, SequencesExt, FiniteSetsExt

Ids(tasks) == {tasks[k].id : k \in DOMAIN tasks}

(* parseRequiresList, and the edges buildDependencyMap keeps: entries that  *)
(* are no task of the project and self loops are dropped, duplicates merge. *)
Edges(tasks) ==
    {edge \in Ids(tasks) \X Ids(tasks) :
        /\ edge[1] # edge[2]
        /\ \E k \in DOMAIN tasks :
            tasks[k].id = edge[2] /\ Contains(tasks[k].requires, edge[1])}

Successors(edges, id) == {e[2] : e \in {f \in edges : f[1] = id}}

-----------------------------------------------------------------------------
(* Kahn's algorithm: the ready set and what is left of the in-degrees.      *)
KahnStart(tasks, edges) ==
    LET degree == [to \in Ids(tasks) |->
                     Cardinality({e \in edges : e[2] = to})] IN
    [ordered |-> <<>>, degree |-> degree,
     ready |-> {id \in Ids(tasks) : degree[id] = 0}]

(* The loop's body: the first ready task, and those it was the last to hold *)
(* back.                                                                    *)
KahnPop(edges, s) ==
    IF s.ready = {} THEN s ELSE
    LET next   == Min(s.ready)
        degree == [id \in DOMAIN s.degree |->
                     s.degree[id] - IF id \in Successors(edges, next)
                                    THEN 1 ELSE 0] IN
    [ordered |-> Append(s.ordered, next), degree |-> degree,
     ready |-> (s.ready \ {next})
                 \cup {id \in Successors(edges, next) : degree[id] = 0}]

Kahn(tasks, edges) ==
    FoldLeftDomain(LAMBDA s, k : KahnPop(edges, s), KahnStart(tasks, edges),
                   tasks)

-----------------------------------------------------------------------------
(* compareCycleRotations                                                    *)
ComesBefore(a, b) ==
    \/ \E k \in DOMAIN a \cap DOMAIN b :
        a[k] < b[k] /\ \A j \in 1 .. k - 1 : a[j] = b[j]
    \/ IsStrictPrefix(a, b)

Rotate(cycle, offset) ==
    SubSeq(cycle, offset + 1, Len(cycle)) \o SubSeq(cycle, 1, offset)

CanonicalRotation(cycle) ==
    IF cycle = <<>> THEN cycle
    ELSE LET rotations == {Rotate(cycle, k) : k \in 0 .. Len(cycle) - 1} IN
         CHOOSE r \in rotations :
            \A other \in rotations : ~ComesBefore(other, r)

(* shortestCycleThrough: a breadth-first search that stops at the first edge*)
(* back to start.  The queue holds paths; the code keeps parents.  Each set *)
(* of successors was filled in the order of the tasks.                      *)
Visit(start, s, path, next) ==
    IF s.found # <<>> THEN s
    ELSE IF next = start THEN [s EXCEPT !.found = path]
    ELSE IF next \in s.visited THEN s
    ELSE [s EXCEPT !.visited = @ \cup {next},
                   !.queue = Append(@, Append(path, next))]

SearchStep(tasks, edges, start, cutoff, s) ==
    IF s.found # <<>> \/ s.queue = <<>> THEN s
    ELSE LET path == Head(s.queue)
             rest == [s EXCEPT !.queue = Tail(@)] IN
         IF Len(path) > cutoff THEN rest
         ELSE FoldLeft(LAMBDA r, task : IF <<Last(path), task.id>> \in edges
                                        THEN Visit(start, r, path, task.id) ELSE r,
                       rest, tasks)

ShortestCycleThrough(tasks, edges, start, cutoff) ==
    FoldLeftDomain(
      LAMBDA s, k : SearchStep(tasks, edges, start, cutoff, s),
      [queue |-> <<<<start>>>>, visited |-> {start}, found |-> <<>>],
      tasks).found

(* findSmallestCycle: a search from each task that is left, in the order of *)
(* their ids.                                                               *)
Better(cycle, best) ==
    /\ cycle # <<>>
    /\ \/ best = <<>>
       \/ Len(cycle) < Len(best)
       \/ Len(cycle) = Len(best) /\ ComesBefore(cycle, best)

BestFrom(tasks, edges, start, best) ==
    LET cutoff == IF best = <<>> THEN Len(tasks) ELSE Len(best)
        cycle  == ShortestCycleThrough(tasks, edges, start, cutoff) IN
    IF Better(cycle, best) THEN cycle ELSE best

FindSmallestCycle(tasks, edges, residual) ==
    CanonicalRotation(
      MapThenFoldSet(LAMBDA start, best : BestFrom(tasks, edges, start, best),
                     <<>>, LAMBDA id : id, LAMBDA ids : Max(ids), residual))

BuildDependencyMap(tasks) ==
    LET edges == Edges(tasks)
        kahn  == Kahn(tasks, edges) IN
    IF Len(kahn.ordered) = Len(tasks)
    THEN [kind |-> "ok", nodes |-> kahn.ordered, cycle |-> <<>>]
    ELSE [kind |-> "cycle", nodes |-> <<>>,
          cycle |-> FindSmallestCycle(tasks, edges,
                      {id \in Ids(tasks) : kahn.degree[id] > 0})]

-----------------------------------------------------------------------------
(* Properties                                                               *)

Respects(order, edges) ==
    \A i, j \in DOMAIN order : <<order[i], order[j]>> \in edges => i < j

(* The orders of all tasks that respect the edges.                          *)
Orders(ids, edges) == {order \in SetToSeqs(ids) : Respects(order, edges)}

(* The cycles of the graph: paths of distinct tasks that close.             *)
Cycles(ids, edges) ==
    {c \in UNION {[1 .. n -> ids] : n \in 1 .. Cardinality(ids)} :
        /\ \A k \in DOMAIN c :
            <<c[k], c[IF k = Len(c) THEN 1 ELSE k + 1]>> \in edges
        /\ IsInjective(c)}

(* A project whose requires lists can be ordered gets the first of the      *)
(* orders, whatever order the database returned its tasks in; any other gets*)
(* a cycle of the graph that no cycle is shorter than, written from its     *)
(* first task (buildDependencyMap's comment, apps/api/src/app.ts:3316).     *)
MapIsRight(tasks) ==
    LET map    == BuildDependencyMap(tasks)
        edges  == Edges(tasks)
        cycles == Cycles(Ids(tasks), edges)
        orders == Orders(Ids(tasks), edges) IN
    IF cycles = {}
    THEN /\ map.kind = "ok" /\ map.nodes \in orders
         /\ \A other \in orders : ~ComesBefore(other, map.nodes)
    ELSE /\ map.kind = "cycle" /\ map.cycle \in cycles
         /\ \A other \in cycles : Len(map.cycle) <= Len(other)
         /\ \A k \in DOMAIN map.cycle : map.cycle[1] <= map.cycle[k]
=============================================================================
