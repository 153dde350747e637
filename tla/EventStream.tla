---------------------------- MODULE EventStream ----------------------------
(***************************************************************************)
(* Loop events: appendLoopEvent (packages/db/src/repositories/             *)
(* eventRepository.ts) inserts a row and publishes it on a bus; GET        *)
(* /events?stream=sse (apps/api/src/app.ts) subscribes, replays the rows it *)
(* finds and then drains what the bus queued.  Most rows are inserted by a *)
(* handler inside a transaction that goes on after the publication.        *)
(*                                                                         *)
(* The database and the bus are chosen when the API starts (apps/api/src/  *)
(* loopEventBus.ts): SQLite or Postgres (packages/db/src/client.ts), and   *)
(* the bus of the process (packages/db/src/eventBus.ts) or Postgres LISTEN *)
(* and NOTIFY (packages/db/src/eventBus.postgres.ts).                      *)
(*                                                                         *)
(* Events are numbered in the order of their createdAt; all belong to one  *)
(* project and pass the connections' filters.                              *)
(***************************************************************************)
EXTENDS Integers, Sequences, FiniteSets, Functions

CONSTANTS
    Writers,      \* handlers that append events
    Connections,  \* SSE connections
    MaxEvents,    \* events there can be (the model's bound)
    Bound,        \* of them on each kind of bus
    Limit         \* rows a connection replays, the oldest first

Kinds == {"sqlite", "postgres", "notify"}

ASSUME StreamAssumption ==
    /\ MaxEvents \in Nat
    /\ Bound \in [Kinds -> 0 .. MaxEvents]
    /\ Limit \in Nat

VARIABLES
    row,          \* LoopEvent rows: a sequence of their states
    writer,       \* [open: rows of its transaction, pending: its row that is
                  \*  inserted and not yet published, as a set]
    conn,         \* [at, seen, queue: to be written, backlog: to be replayed,
                  \*  sent: the frames written so far, blind: rows that
                  \*  nothing told it of (history, see Miss)]
    bus           \* [kind, link: of the connection that listens,
                  \*  sending: publications on their way to the database,
                  \*  inbox: notifications on their way from it]

vars == <<row, writer, conn, bus>>

Events == 1 .. MaxEvents
RowState == {"open", "committed", "rolled back"}
Links == {"up", "dead", "wiring"}
Points == {"closed", "subscribed", "replay", "drain", "waiting", "broken"}
Closed == [at |-> "closed", seen |-> {}, queue |-> <<>>, backlog |-> {},
           sent |-> <<>>, blind |-> {}]
Quiet == [open |-> {}, pending |-> {}]

TypeOK ==
    /\ row \in Seq(RowState) /\ Len(row) <= MaxEvents
    /\ writer \in [Writers -> [open : SUBSET Events, pending : SUBSET Events]]
    /\ conn \in [Connections ->
                   [at : Points, seen : SUBSET Events, queue : Seq(Events),
                    backlog : SUBSET Events, sent : Seq(Events),
                    blind : SUBSET Events]]
    /\ bus \in [kind : Kinds, link : Links, sending : SUBSET Events,
                inbox : Seq(Events)]

(* getLoopBusMode and getDatabaseProvider; LISTEN and NOTIFY are those of   *)
(* the project's own database.                                              *)
StartBus(kind) ==
    [kind |-> kind, link |-> IF kind = "notify" THEN "wiring" ELSE "up",
     sending |-> {}, inbox |-> <<>>]

Init ==
    /\ row = <<>>
    /\ writer = [w \in Writers |-> Quiet]
    /\ conn = [c \in Connections |-> Closed]
    /\ \E kind \in Kinds : bus = StartBus(kind)

-----------------------------------------------------------------------------
Committed == {n \in DOMAIN row : row[n] = "committed"}

(* An open transaction keeps everyone else off a SQLite database; on        *)
(* Postgres others run beside it.                                           *)
Exclusive == bus.kind = "sqlite"

(* w may use the database.                                                  *)
Free(w) == Exclusive => \A other \in Writers \ {w} : writer[other].open = {}

(* Faulty: the published id is the previous row's.                          *)
InsertOffByOne(w, inTransaction) ==
    LET n == Len(row) IN
    /\ writer[w].pending = {} /\ Free(w) /\ n < Bound[bus.kind]
    /\ inTransaction \/ writer[w].open = {}
    /\ row' = Append(row, IF inTransaction THEN "open" ELSE "committed")
    /\ writer' = [writer EXCEPT ![w].pending = {n},
                     ![w].open = IF inTransaction THEN @ \cup {n} ELSE @]
    /\ UNCHANGED <<conn, bus>>

(* loopEvent.create, awaited by the caller: on its own, or in the caller's  *)
(* transaction.                                                             *)
Insert(w, inTransaction) ==
    LET n == Len(row) + 1 IN
    /\ writer[w].pending = {} /\ Free(w) /\ n <= Bound[bus.kind]
    /\ inTransaction \/ writer[w].open = {}
    /\ row' = Append(row, IF inTransaction THEN "open" ELSE "committed")
    /\ writer' = [writer EXCEPT ![w].pending = {n},
                     ![w].open = IF inTransaction THEN @ \cup {n} ELSE @]
    /\ UNCHANGED <<conn, bus>>

(* Faulty: the listener is registered only once the replay is over.         *)
ListenLate(c, n) ==
    IF c.at \notin {"drain", "waiting"} \/ n \in c.seen THEN c
    ELSE [c EXCEPT !.seen = @ \cup {n}, !.queue = Append(@, n), !.at = "drain"]

(* Faulty: the drain loop is not woken.                                     *)
ListenSilently(c, n) ==
    IF c.at = "closed" \/ n \in c.seen THEN c
    ELSE [c EXCEPT !.seen = @ \cup {n}, !.queue = Append(@, n)]

(* The listener of a connection drops what it has seen, queues the rest and *)
(* wakes the drain loop.                                                    *)
Listen(c, n) ==
    IF c.at = "closed" \/ n \in c.seen THEN c
    ELSE [c EXCEPT !.seen = @ \cup {n}, !.queue = Append(@, n),
                   !.at = IF @ = "waiting" THEN "drain" ELSE @]

Dispatch(n) == conn' = [c \in Connections |-> Listen(conn[c], n)]

(* publish: the bus of the process calls every listener at once;            *)
(* publishViaNotify opens a connection and is not waited for.               *)
Publish(w) ==
    \E n \in writer[w].pending :
        /\ writer' = [writer EXCEPT ![w].pending = {}]
        /\ IF bus.kind = "notify"
           THEN bus' = [bus EXCEPT !.sending = @ \cup {n}] /\ UNCHANGED conn
           ELSE Dispatch(n) /\ UNCHANGED bus
        /\ UNCHANGED row

(* History: these events are dispatched to nobody.  A connection that has   *)
(* not read its backlog yet will find those that are committed by then.     *)
Miss(events) ==
    conn' = [c \in Connections |->
               IF conn[c].at \in {"closed", "subscribed"} THEN conn[c]
               ELSE [conn[c] EXCEPT !.blind = @ \cup events]]

(* emitModelEvent (packages/policy-engine/src/index.ts) inserts a row of    *)
(* its own and publishes nothing.                                           *)
EmitModelEvent(w) ==
    LET n == Len(row) + 1 IN
    /\ writer[w].pending = {} /\ Free(w) /\ n <= Bound[bus.kind]
    /\ writer[w].open = {}
    /\ row' = Append(row, "committed")
    /\ Miss({n})
    /\ UNCHANGED <<writer, bus>>

(* The transaction ends one way or the other.                               *)
EndTransaction(w, state) ==
    /\ writer[w].open # {} /\ writer[w].pending = {}
    /\ row' = [n \in DOMAIN row |->
                 IF n \in writer[w].open THEN state ELSE row[n]]
    /\ writer' = [writer EXCEPT ![w].open = {}]
    /\ UNCHANGED <<conn, bus>>

-----------------------------------------------------------------------------
(* The bus over LISTEN and NOTIFY.                                          *)

(* pg_notify: whoever listens at that moment will hear of it.               *)
Notify(n) ==
    /\ n \in bus.sending
    /\ IF bus.link = "up"
       THEN /\ bus' = [bus EXCEPT !.sending = @ \ {n}, !.inbox = Append(@, n)]
            /\ UNCHANGED conn
       ELSE bus' = [bus EXCEPT !.sending = @ \ {n}] /\ Miss({n})
    /\ UNCHANGED <<row, writer>>

(* The payload is over the limit, or no connection is to be had.            *)
DropPublication(n) ==
    /\ n \in bus.sending
    /\ bus' = [bus EXCEPT !.sending = @ \ {n}]
    /\ Miss({n})
    /\ UNCHANGED <<row, writer>>

(* onNotification                                                           *)
Receive ==
    /\ bus.link = "up" /\ bus.inbox # <<>>
    /\ Dispatch(Head(bus.inbox))
    /\ bus' = [bus EXCEPT !.inbox = Tail(@)]
    /\ UNCHANGED <<row, writer>>

(* Faulty: a connect that fails schedules nothing.                          *)
DropLinkForGood ==
    /\ bus.kind = "notify" /\ bus.link \in {"up", "wiring"}
    /\ bus' = [bus EXCEPT !.link = IF @ = "up" THEN "dead" ELSE "gone",
                          !.inbox = <<>>]
    /\ Miss(Range(bus.inbox))
    /\ UNCHANGED <<row, writer>>

(* onClientError, onClientEnd, and wireListener's catch: the next attempt   *)
(* is scheduled, and what the connection had not delivered is lost.         *)
DropLink ==
    /\ bus.kind = "notify" /\ bus.link \in {"up", "wiring"}
    /\ bus' = [bus EXCEPT !.link = "dead", !.inbox = <<>>]
    /\ Miss(Range(bus.inbox))
    /\ UNCHANGED <<row, writer>>

(* scheduleReconnect's timer: the dead client goes, wireListener starts.    *)
Rewire ==
    /\ bus.link = "dead"
    /\ bus' = [bus EXCEPT !.link = "wiring"]
    /\ UNCHANGED <<row, writer, conn>>

(* wireListener: connect and LISTEN succeed.                                *)
WireListener ==
    /\ bus.link = "wiring"
    /\ bus' = [bus EXCEPT !.link = "up"]
    /\ UNCHANGED <<row, writer, conn>>

Carry ==
    \/ Receive \/ Rewire
    \/ \E n \in Events : Notify(n)

-----------------------------------------------------------------------------
(* GET /events?stream=sse                                                   *)
Subscribe(c) ==
    /\ conn[c].at = "closed"
    /\ conn' = [conn EXCEPT ![c] = [Closed EXCEPT !.at = "subscribed"]]
    /\ UNCHANGED <<row, writer, bus>>

(* listLoopEvents                                                           *)
Oldest == {n \in Committed : Cardinality({m \in Committed : m < n}) < Limit}

ReadBacklog(c) ==
    /\ conn[c].at = "subscribed"
    /\ Exclusive => \A w \in Writers : writer[w].open = {}
    /\ conn' = [conn EXCEPT ![c].at = "replay", ![c].backlog = Oldest,
                  ![c].blind = UNION {writer[w].open : w \in Writers}]
    /\ UNCHANGED <<row, writer, bus>>

(* The read fails: the handler is gone before its try block, and its        *)
(* listener stays on the bus.                                               *)
FailBacklog(c) ==
    /\ conn[c].at = "subscribed"
    /\ conn' = [conn EXCEPT ![c].at = "broken"]
    /\ UNCHANGED <<row, writer, bus>>

(* Faulty: the replay writes rows the bus has queued.                       *)
ReplayAll(c, n) ==
    /\ conn[c].at = "replay"
    /\ n \in conn[c].backlog
    /\ \A m \in conn[c].backlog : n <= m
    /\ conn' = [conn EXCEPT ![c].backlog = @ \ {n},
                  ![c].seen = @ \cup {n}, ![c].sent = Append(@, n)]
    /\ UNCHANGED <<row, writer, bus>>

Replay(c, n) ==
    /\ conn[c].at = "replay"
    /\ n \in conn[c].backlog
    /\ \A m \in conn[c].backlog : n <= m
    /\ conn' = [conn EXCEPT ![c].backlog = @ \ {n},
                  ![c].seen = @ \cup {n},
                  ![c].sent = IF n \in conn[c].seen THEN @ ELSE Append(@, n)]
    /\ UNCHANGED <<row, writer, bus>>

EndReplay(c) ==
    /\ conn[c].at = "replay" /\ conn[c].backlog = {}
    /\ conn' = [conn EXCEPT ![c].at = "drain"]
    /\ UNCHANGED <<row, writer, bus>>

Drain(c) ==
    /\ conn[c].at = "drain" /\ conn[c].queue # <<>>
    /\ conn' = [conn EXCEPT ![c].queue = Tail(@),
                            ![c].sent = Append(@, Head(conn[c].queue))]
    /\ UNCHANGED <<row, writer, bus>>

Wait(c) ==
    /\ conn[c].at = "drain" /\ conn[c].queue = <<>>
    /\ conn' = [conn EXCEPT ![c].at = "waiting"]
    /\ UNCHANGED <<row, writer, bus>>

(* The client leaves; the loop notices and unsubscribes.                    *)
Close(c) ==
    /\ conn[c].at \in {"drain", "waiting"}
    /\ conn' = [conn EXCEPT ![c] = Closed]
    /\ UNCHANGED <<row, writer, bus>>

(* The process stops: open transactions are rolled back, publications,      *)
(* notifications and connections are lost.                                  *)
Crash ==
    /\ row' = [n \in DOMAIN row |->
                 IF row[n] = "open" THEN "rolled back" ELSE row[n]]
    /\ writer' = [w \in Writers |-> Quiet]
    /\ conn' = [c \in Connections |-> Closed]
    /\ bus' = StartBus(bus.kind)

Serve(c) ==
    \/ ReadBacklog(c) \/ EndReplay(c) \/ Drain(c) \/ Wait(c)
    \/ \E n \in Events : Replay(c, n)

(* The caller goes on, and its transaction ends.                            *)
Settle(w) ==
    \/ Publish(w)
    \/ \E state \in {"committed", "rolled back"} : EndTransaction(w, state)

Next ==
    \/ \E w \in Writers :
        \/ Settle(w) \/ EmitModelEvent(w)
        \/ \E inTransaction \in BOOLEAN : Insert(w, inTransaction)
    \/ \E c \in Connections :
        Subscribe(c) \/ Serve(c) \/ FailBacklog(c) \/ Close(c)
    \/ Carry \/ WireListener \/ DropLink
    \/ \E n \in Events : DropPublication(n)
    \/ Crash

(* The event loop resumes a handler whose await has settled, Prisma ends a  *)
(* transaction that does not end by itself, and a database that can be      *)
(* connected to again and again is connected to.                            *)
Spec ==
    /\ Init /\ [][Next]_vars
    /\ \A c \in Connections : WF_vars(Serve(c))
    /\ \A w \in Writers : WF_vars(Settle(w))
    /\ WF_vars(Carry) /\ SF_vars(WireListener)

-----------------------------------------------------------------------------
(* Properties                                                               *)

(* No connection writes a frame twice, although an event can reach it from  *)
(* the bus before, during and after the replay of its row, and from another *)
(* listening connection than it was published under.                        *)
NoDuplicateFrames == \A c \in Connections : IsInjective(conn[c].sent)

(* On its way to the connections.                                           *)
Underway ==
    (UNION {writer[w].pending : w \in Writers})
        \cup bus.sending \cup Range(bus.inbox)

(* A connection that has replayed the backlog misses only what nothing told *)
(* it of: every committed event is written, queued or on its way, unless its*)
(* row was still open when the backlog was read, its notification was lost  *)
(* after that, or the policy engine wrote it (rows fitting the replay).      *)
CaughtUp ==
    \A c \in Connections : conn[c].at \in {"drain", "waiting"} =>
        Committed \ (Underway \cup conn[c].blind)
            \subseteq Range(conn[c].sent) \cup Range(conn[c].queue)

(* What the bus queued for a connection is written, or the connection ends. *)
QueuedIsWritten ==
    \A c \in Connections, n \in Events :
        n \in Range(conn[c].queue) /\ conn[c].at # "broken"
          ~> n \in Range(conn[c].sent) \/ conn[c].at \in {"closed", "broken"}

(* However often the listening connection drops and however often it cannot *)
(* be opened again, the process listens again (scheduleReconnect).          *)
ListenerComesBack == []<>(bus.link = "up")
=============================================================================
