---------------------------- MODULE EventProofs ----------------------------
(***************************************************************************)
(* Proofs about the stream of events and the view at its other end.        *)
(* EventStream: for any number of writers, connections and events, and for  *)
(* every kind of database and bus.  StreamViews: for every stream, cut      *)
(* anywhere.                                                               *)
(***************************************************************************)
EXTENDS EventStream, StreamViews, FiniteSetTheorems, SequenceTheorems, WellFoundedInduction,
        TLAPS

Connection ==
    [at : Points, seen : SUBSET Events, queue : Seq(Events),
     backlog : SUBSET Events, sent : Seq(Events), blind : SUBSET Events]

(* Each event is in at most one place of the queue and of the frames, and   *)
(* both hold only events the connection has noted as seen.                  *)
Once(c) ==
    /\ c \in Connection
    /\ IsInjective(c.sent) /\ IsInjective(c.queue)
    /\ Range(c.sent) \cap Range(c.queue) = {}
    /\ Range(c.sent) \cup Range(c.queue) \subseteq c.seen

(* Appending something new to a sequence without repetitions.               *)
LEMMA AppendNew ==
    ASSUME NEW S, NEW s \in Seq(S), NEW n \in S, IsInjective(s), n \notin Range(s)
    PROVE  /\ Append(s, n) \in Seq(S) /\ IsInjective(Append(s, n))
           /\ Range(Append(s, n)) = Range(s) \cup {n}
  <1> DEFINE a == Append(s, n)
  <1>1. /\ a \in Seq(S) /\ Len(a) = Len(s) + 1 /\ a[Len(a)] = n
        /\ \A i \in 1 .. Len(s) : a[i] = s[i]
        /\ DOMAIN a = 1 .. Len(a) /\ DOMAIN s = 1 .. Len(s) /\ Len(s) \in Nat
    OBVIOUS
  <1> HIDE DEF a
  <1>2. IsInjective(a)
    <2> SUFFICES ASSUME NEW i \in 1 .. Len(a), NEW j \in 1 .. Len(a), a[i] = a[j]
                 PROVE  i = j
      BY <1>1 DEF IsInjective
    <2> QED
      BY <1>1 DEF IsInjective, Range
  <1>3. Range(a) = Range(s) \cup {n}
    <2>1. ASSUME NEW i \in 1 .. Len(a) PROVE a[i] \in Range(s) \cup {n}
      BY <1>1 DEF Range
    <2>2. ASSUME NEW i \in 1 .. Len(s) PROVE \E j \in 1 .. Len(a) : a[j] = s[i]
      BY <1>1
    <2>3. \E j \in 1 .. Len(a) : a[j] = n
      BY <1>1
    <2>4. /\ Range(a) = {a[i] : i \in 1 .. Len(a)}
          /\ Range(s) = {s[i] : i \in 1 .. Len(s)}
      BY <1>1 DEF Range
    <2> QED
      BY <2>1, <2>2, <2>3, <2>4
  <1> QED
    BY <1>1, <1>2, <1>3 DEF a

(* Taking the head off a sequence without repetitions.                      *)
LEMMA TakeHead ==
    ASSUME NEW S, NEW s \in Seq(S), s # <<>>, IsInjective(s)
    PROVE  /\ Tail(s) \in Seq(S) /\ Head(s) \in S /\ IsInjective(Tail(s))
           /\ Range(Tail(s)) \subseteq Range(s)
           /\ Head(s) \in Range(s) \ Range(Tail(s))
  <1> DEFINE u == Tail(s)
  <1>1. /\ u \in Seq(S) /\ Len(u) = Len(s) - 1 /\ Len(s) \in Nat \ {0}
        /\ \A i \in 1 .. Len(u) : u[i] = s[i + 1]
        /\ DOMAIN u = 1 .. Len(u) /\ DOMAIN s = 1 .. Len(s)
        /\ Head(s) = s[1]
    OBVIOUS
  <1> HIDE DEF u
  <1>2. IsInjective(u)
    <2> SUFFICES ASSUME NEW i \in 1 .. Len(u), NEW j \in 1 .. Len(u), u[i] = u[j]
                 PROVE  i = j
      BY <1>1 DEF IsInjective
    <2>1. i + 1 \in 1 .. Len(s) /\ j + 1 \in 1 .. Len(s) /\ s[i + 1] = s[j + 1]
      BY <1>1
    <2>2. i + 1 = j + 1
      BY <1>1, <2>1 DEF IsInjective
    <2> QED
      BY <2>2
  <1>3. ASSUME NEW i \in 1 .. Len(u) PROVE u[i] \in Range(s) /\ u[i] # Head(s)
    <2>1. i + 1 \in 1 .. Len(s) /\ 1 \in 1 .. Len(s) /\ i + 1 # 1 /\ u[i] = s[i + 1]
      BY <1>1
    <2> QED
      BY <1>1, <2>1 DEF IsInjective, Range
  <1>4. Head(s) \in S /\ Head(s) \in Range(s)
    BY <1>1 DEF Range
  <1> QED
    BY <1>1, <1>2, <1>3, <1>4 DEF Range, u

(* A connection that begins has seen nothing.                               *)
LEMMA ClosedOnce == Once(Closed) /\ Once([Closed EXCEPT !.at = "subscribed"])
  <1> DEFINE z == <<>>
  <1>1. IsInjective(z) /\ Range(z) = {} /\ z \in Seq(Events)
    BY DEF IsInjective, Range
  <1>2. Closed = [at |-> "closed", seen |-> {}, queue |-> z, backlog |-> {},
                  sent |-> z, blind |-> {}]
    BY DEF Closed
  <1> HIDE DEF z
  <1>3. ASSUME NEW p \in Points PROVE Once([Closed EXCEPT !.at = p])
    BY <1>1, <1>2 DEF Once, Connection
  <1>4. Closed = [Closed EXCEPT !.at = "closed"]
    BY <1>2
  <1> QED
    BY <1>3, <1>4 DEF Points

(* The bus hands an event to a connection.                                  *)
LEMMA ListenOnce ==
    ASSUME NEW c, Once(c), NEW n \in Events
    PROVE  Once(Listen(c, n))
  <1>1. CASE c.at = "closed" \/ n \in c.seen
    BY <1>1 DEF Listen
  <1>2. CASE ~(c.at = "closed" \/ n \in c.seen)
    <2> DEFINE q == Append(c.queue, n)
               a == IF c.at = "waiting" THEN "drain" ELSE c.at
               s == c.seen \cup {n}
               r == [c EXCEPT !.seen = s, !.queue = q, !.at = a]
    <2>1. Listen(c, n) = r
      BY <1>2 DEF Listen
    <2>2. q \in Seq(Events) /\ IsInjective(q) /\ Range(q) = Range(c.queue) \cup {n}
      BY <1>2, AppendNew DEF Once, Connection
    <2>3. a \in Points /\ s \in SUBSET Events
      BY DEF Once, Connection, Points
    <2> HIDE DEF q, a
    <2>4. /\ r \in Connection /\ r.queue = q /\ r.sent = c.sent /\ r.seen = s
      BY <2>2, <2>3 DEF Once, Connection
    <2> HIDE DEF r
    <2> QED
      BY <1>2, <2>1, <2>2, <2>4 DEF Once
  <1> QED
    BY <1>1, <1>2

(* A row of the backlog is replayed.                                        *)
LEMMA ReplayOnce ==
    ASSUME NEW c, Once(c), NEW n \in Events
    PROVE  Once([c EXCEPT !.backlog = @ \ {n}, !.seen = @ \cup {n},
                          !.sent = IF n \in c.seen THEN @ ELSE Append(@, n)])
  <1> DEFINE f == IF n \in c.seen THEN c.sent ELSE Append(c.sent, n)
             s == c.seen \cup {n}
             b == c.backlog \ {n}
             r == [c EXCEPT !.backlog = b, !.seen = s, !.sent = f]
  <1>1. /\ f \in Seq(Events) /\ IsInjective(f)
        /\ Range(f) \subseteq Range(c.sent) \cup {n}
        /\ Range(f) \cap Range(c.queue) = {}
    <2>1. CASE n \in c.seen
      BY <2>1 DEF Once, Connection
    <2>2. CASE n \notin c.seen
      <3>1. /\ f \in Seq(Events) /\ IsInjective(f)
            /\ Range(f) = Range(c.sent) \cup {n}
        BY <2>2, AppendNew DEF Once, Connection
      <3> HIDE DEF f
      <3> QED
        BY <2>2, <3>1 DEF Once
    <2> QED
      BY <2>1, <2>2
  <1>2. s \in SUBSET Events /\ b \in SUBSET Events
    BY DEF Once, Connection
  <1> HIDE DEF f, b
  <1>3. r \in Connection /\ r.queue = c.queue /\ r.sent = f /\ r.seen = s
    BY <1>1, <1>2 DEF Once, Connection
  <1> HIDE DEF r
  <1>4. Once(r)
    BY <1>1, <1>3 DEF Once
  <1> QED
    BY <1>4 DEF r, f, b

(* A queued event is written.                                               *)
LEMMA DrainOnce ==
    ASSUME NEW c, Once(c), c.queue # <<>>
    PROVE  Once([c EXCEPT !.queue = Tail(@), !.sent = Append(@, Head(c.queue))])
  <1> DEFINE q == Tail(c.queue)
             n == Head(c.queue)
             f == Append(c.sent, n)
             r == [c EXCEPT !.queue = q, !.sent = f]
  <1>1. /\ q \in Seq(Events) /\ n \in Events /\ IsInjective(q)
        /\ Range(q) \subseteq Range(c.queue) /\ n \in Range(c.queue) \ Range(q)
    BY TakeHead DEF Once, Connection
  <1>2. /\ f \in Seq(Events) /\ IsInjective(f) /\ Range(f) = Range(c.sent) \cup {n}
    <2> HIDE DEF n
    <2> QED
      BY <1>1, AppendNew DEF Once, Connection
  <1> HIDE DEF q, n, f
  <1>3. r \in Connection /\ r.queue = q /\ r.sent = f /\ r.seen = c.seen
    BY <1>1, <1>2 DEF Once, Connection
  <1> HIDE DEF r
  <1>4. Once(r)
    BY <1>1, <1>2, <1>3 DEF Once
  <1> QED
    BY <1>4 DEF r, f, q, n

(* Missing events leaves a connection's frames alone.                       *)
LEMMA MissOnce ==
    ASSUME NEW c, Once(c), NEW b \in SUBSET Events
    PROVE  Once([c EXCEPT !.blind = @ \cup b])
  <1> DEFINE d == c.blind \cup b
             r == [c EXCEPT !.blind = d]
  <1>1. d \in SUBSET Events
    BY DEF Once, Connection
  <1> HIDE DEF d
  <1>2. /\ r \in Connection /\ r.queue = c.queue /\ r.sent = c.sent
        /\ r.seen = c.seen
    BY <1>1 DEF Once, Connection
  <1> HIDE DEF r
  <1>3. Once(r)
    BY <1>2 DEF Once
  <1> QED
    BY <1>3 DEF r, d

(* The bus as TypeOK has it.                                                *)
Bus == [kind : Kinds, link : Links, sending : SUBSET Events,
        inbox : Seq(Events)]

(* The writers publish events only; see Insert.                             *)
WritersTyped ==
    /\ row \in Seq(RowState) /\ Len(row) <= MaxEvents
    /\ writer \in [Writers -> [open : SUBSET Events, pending : SUBSET Events]]
    /\ bus \in Bus

OnceInv ==
    /\ WritersTyped
    /\ conn \in [Connections -> Connection]
    /\ \A c \in Connections : Once(conn[c])

(* A step of one connection.                                                *)
LEMMA OneConnection ==
    ASSUME OnceInv, NEW c \in Connections, NEW r, Once(r),
           conn' = [conn EXCEPT ![c] = r]
    PROVE  conn' \in [Connections -> Connection] /\ \A d \in Connections : Once(conn'[d])
  <1>1. r \in Connection
    BY DEF Once
  <1> QED
    BY <1>1 DEF OnceInv

(* No kind of bus has more events than there are.                           *)
LEMMA BoundTyped ==
    ASSUME bus \in Bus
    PROVE  Bound[bus.kind] \in Nat /\ Bound[bus.kind] <= MaxEvents
  <1>1. bus.kind \in Kinds
    BY DEF Bus
  <1>2. Bound[bus.kind] \in 0 .. MaxEvents /\ MaxEvents \in Nat
    BY <1>1, StreamAssumption
  <1> QED
    BY <1>2

(* A bus starts with nothing on its way.                                    *)
LEMMA StartTyped == \A kind \in Kinds : StartBus(kind) \in Bus
  <1> DEFINE z == <<>>
  <1>1. z \in Seq(Events)
    OBVIOUS
  <1>2. \A kind : StartBus(kind) =
            [kind |-> kind, link |-> IF kind = "notify" THEN "wiring" ELSE "up",
             sending |-> {}, inbox |-> z]
    BY DEF StartBus
  <1> HIDE DEF z
  <1> QED
    BY <1>1, <1>2 DEF Bus, Links

(* A step of the bus over LISTEN and NOTIFY keeps its type.                 *)
LEMMA BusTyped ==
    ASSUME bus \in Bus,
           \/ Receive \/ Rewire \/ WireListener \/ DropLink
           \/ \E n \in Events : Notify(n) \/ DropPublication(n)
    PROVE  bus' \in Bus
  <1>1. CASE Rewire \/ WireListener
    BY <1>1 DEF Rewire, WireListener, Bus, Links
  <1>2. CASE DropLink
    <2> DEFINE z == <<>>
    <2>1. z \in Seq(Events) /\ bus' = [bus EXCEPT !.link = "dead", !.inbox = z]
      BY <1>2 DEF DropLink
    <2> HIDE DEF z
    <2> QED
      BY <2>1 DEF Bus, Links
  <1>3. CASE Receive
    <2> DEFINE q == Tail(bus.inbox)
    <2>1. q \in Seq(Events) /\ bus' = [bus EXCEPT !.inbox = q]
      BY <1>3 DEF Receive, Bus
    <2> HIDE DEF q
    <2> QED
      BY <2>1 DEF Bus
  <1>4. ASSUME NEW n \in Events, Notify(n) \/ DropPublication(n)
        PROVE  bus' \in Bus
    <2> DEFINE q == Append(bus.inbox, n)
               s == bus.sending \ {n}
    <2>1. q \in Seq(Events) /\ s \in SUBSET Events
      BY DEF Bus
    <2>2. \/ bus' = [bus EXCEPT !.sending = s]
          \/ bus' = [bus EXCEPT !.sending = s, !.inbox = q]
      BY <1>4 DEF Notify, DropPublication
    <2> HIDE DEF q, s
    <2> QED
      BY <2>1, <2>2 DEF Bus
  <1> QED
    BY <1>1, <1>2, <1>3, <1>4

(* A step keeps the types of rows, writers and bus.                         *)
LEMMA StepTyped == WritersTyped /\ [Next]_vars => WritersTyped'
  <1> SUFFICES ASSUME WritersTyped, [Next]_vars PROVE WritersTyped'
    OBVIOUS
  <1> USE DEF WritersTyped
  <1>10. \A n \in DOMAIN row : row[n] \in RowState
    OBVIOUS
  <1>1. ASSUME NEW w \in Writers, NEW inTransaction \in BOOLEAN, Insert(w, inTransaction)
        PROVE  WritersTyped'
    <2> DEFINE n == Len(row) + 1
               s == IF inTransaction THEN "open" ELSE "committed"
               o == IF inTransaction THEN writer[w].open \cup {n} ELSE writer[w].open
    <2>1. n \in Events /\ n <= MaxEvents
      <3>1. n <= Bound[bus.kind] /\ n \in Nat \ {0}
        BY <1>1 DEF Insert
      <3>2. Bound[bus.kind] \in Nat /\ Bound[bus.kind] <= MaxEvents
        BY BoundTyped
      <3> QED
        BY <3>1, <3>2, StreamAssumption DEF Events
    <2>2. s \in RowState /\ row' = Append(row, s) /\ bus' = bus
      BY <1>1 DEF Insert, RowState
    <2>3. o \in SUBSET Events /\ {n} \in SUBSET Events
      BY <2>1
    <2>4. writer' = [writer EXCEPT ![w].pending = {n}, ![w].open = o]
      BY <1>1 DEF Insert
    <2> HIDE DEF s, o
    <2>5. row' \in Seq(RowState) /\ Len(row') <= MaxEvents
      BY <2>1, <2>2
    <2> HIDE DEF n
    <2>6. writer' \in [Writers -> [open : SUBSET Events, pending : SUBSET Events]]
      BY <2>3, <2>4
    <2> QED
      BY <2>2, <2>5, <2>6
  <1>2. ASSUME NEW f, row' = [n \in DOMAIN row |-> f[n]], \A n \in DOMAIN row : f[n] \in RowState
        PROVE  row' \in Seq(RowState) /\ Len(row') <= MaxEvents
    <2>1. DOMAIN row = 1 .. Len(row) /\ Len(row) \in Nat
      OBVIOUS
    <2>2. row' \in [1 .. Len(row) -> RowState]
      BY <1>2, <2>1
    <2> QED
      BY <2>1, <2>2
  <1>3. ASSUME NEW w \in Writers, NEW state \in {"committed", "rolled back"},
               EndTransaction(w, state)
        PROVE  WritersTyped'
    <2> DEFINE f == [n \in DOMAIN row |-> IF n \in writer[w].open THEN state ELSE row[n]]
    <2>1. \A n \in DOMAIN row : f[n] \in RowState
      <3>2. state \in RowState
        BY DEF RowState
      <3> QED
        BY <1>10, <3>2
    <2>2. row' = [n \in DOMAIN row |-> f[n]]
      BY <1>3 DEF EndTransaction
    <2> HIDE DEF f
    <2>3. row' \in Seq(RowState) /\ Len(row') <= MaxEvents
      BY <1>2, <2>1, <2>2
    <2> QED
      BY <1>3, <2>3 DEF EndTransaction
  <1>4. ASSUME NEW w \in Writers, Publish(w) PROVE WritersTyped'
    <2>1. PICK n \in writer[w].pending :
            /\ writer' = [writer EXCEPT ![w].pending = {}] /\ row' = row
            /\ bus' = bus \/ bus' = [bus EXCEPT !.sending = @ \cup {n}]
      BY <1>4 DEF Publish
    <2>2. n \in Events
      OBVIOUS
    <2>3. bus' \in Bus
      BY <2>1, <2>2 DEF Bus
    <2>4. writer' \in [Writers -> [open : SUBSET Events, pending : SUBSET Events]]
      BY <2>1
    <2> QED
      BY <2>1, <2>3, <2>4
  <1>8. ASSUME NEW w \in Writers, EmitModelEvent(w) PROVE WritersTyped'
    <2>1. /\ row' = Append(row, "committed") /\ writer' = writer /\ bus' = bus
          /\ Len(row) + 1 <= Bound[bus.kind]
      BY <1>8 DEF EmitModelEvent
    <2>2. row' \in Seq(RowState) /\ Len(row') = Len(row) + 1 /\ Len(row) \in Nat
      <3>1. "committed" \in RowState
        BY DEF RowState
      <3> QED
        BY <2>1, <3>1
    <2>3. Len(row') <= MaxEvents
      BY <2>1, <2>2, BoundTyped, StreamAssumption
    <2> QED
      BY <2>1, <2>2, <2>3
  <1>9. CASE \/ Receive \/ Rewire \/ WireListener \/ DropLink
             \/ \E n \in Events : Notify(n) \/ DropPublication(n)
    <2>1. bus' \in Bus
      BY <1>9, BusTyped
    <2>2. row' = row /\ writer' = writer
      BY <1>9 DEF Receive, Rewire, WireListener, DropLink, Notify,
         DropPublication
    <2> QED
      BY <2>1, <2>2
  <1>5. ASSUME NEW c \in Connections,
               \/ Subscribe(c) \/ Serve(c) \/ FailBacklog(c) \/ Close(c)
        PROVE  WritersTyped'
    BY <1>5 DEF Subscribe, Serve, FailBacklog, Close, ReadBacklog, EndReplay, Drain,
       Wait, Replay
  <1>6. CASE Crash
    <2> DEFINE f == [n \in DOMAIN row |-> IF row[n] = "open" THEN "rolled back" ELSE row[n]]
    <2>1. \A n \in DOMAIN row : f[n] \in RowState
      <3>2. "rolled back" \in RowState
        BY DEF RowState
      <3> QED
        BY <1>10, <3>2
    <2>2. row' = [n \in DOMAIN row |-> f[n]]
      BY <1>6 DEF Crash
    <2> HIDE DEF f
    <2>3. row' \in Seq(RowState) /\ Len(row') <= MaxEvents
      BY <1>2, <2>1, <2>2
    <2>4. bus' \in Bus
      BY <1>6, StartTyped DEF Crash, Bus
    <2>5. writer' \in [Writers -> [open : SUBSET Events, pending : SUBSET Events]]
      BY <1>6 DEF Crash, Quiet
    <2> QED
      BY <2>3, <2>4, <2>5
  <1>7. CASE UNCHANGED vars
    BY <1>7 DEF vars
  <1> QED
    BY <1>1, <1>3, <1>4, <1>5, <1>6, <1>7, <1>8, <1>9 DEF Next, Settle, Carry

(* A step keeps every connection free of repetitions.                       *)
LEMMA StepOnce == OnceInv /\ [Next]_vars => OnceInv'
  <1> SUFFICES ASSUME OnceInv, [Next]_vars
               PROVE  /\ conn' \in [Connections -> Connection]
                      /\ \A c \in Connections : Once(conn'[c])
    BY StepTyped DEF OnceInv
  <1>1. CASE conn' = conn
    BY <1>1 DEF OnceInv
  <1>2. ASSUME NEW n \in Events, Dispatch(n)
        PROVE  /\ conn' \in [Connections -> Connection]
               /\ \A c \in Connections : Once(conn'[c])
    <2>1. conn' = [c \in Connections |-> Listen(conn[c], n)]
      BY <1>2 DEF Dispatch
    <2>3. ASSUME NEW c \in Connections
          PROVE  Once(Listen(conn[c], n)) /\ Listen(conn[c], n) \in Connection
      <3>1. Once(Listen(conn[c], n))
        BY ListenOnce DEF OnceInv
      <3> QED
        BY <3>1 DEF Once
    <2> QED
      BY <2>1, <2>3
  <1>8. ASSUME NEW b \in SUBSET Events, Miss(b)
        PROVE  /\ conn' \in [Connections -> Connection]
               /\ \A c \in Connections : Once(conn'[c])
    <2> DEFINE r(c) == [conn[c] EXCEPT !.blind = @ \cup b]
    <2>1. \A c \in Connections : Once(conn[c]) /\ Once(r(c))
      BY MissOnce DEF OnceInv
    <2>2. \A c \in Connections : conn[c] \in Connection /\ r(c) \in Connection
      BY <2>1 DEF Once
    <2>3. conn' = [c \in Connections |->
                     IF conn[c].at \in {"closed", "subscribed"}
                     THEN conn[c] ELSE r(c)]
      BY <1>8 DEF Miss
    <2> HIDE DEF r
    <2> QED
      BY <2>1, <2>2, <2>3
  <1>9. ASSUME NEW w \in Writers, Publish(w)
        PROVE  conn' = conn \/ \E n \in Events : Dispatch(n)
    <2>1. PICK n \in writer[w].pending : Dispatch(n) \/ conn' = conn
      BY <1>9 DEF Publish
    <2> QED
      BY <2>1 DEF OnceInv, WritersTyped
  <1>10. ASSUME NEW w \in Writers, EmitModelEvent(w)
         PROVE  \E b \in SUBSET Events : Miss(b)
    <2>1. Len(row) + 1 <= Bound[bus.kind] /\ Len(row) \in Nat /\ Miss({Len(row) + 1})
      BY <1>10 DEF EmitModelEvent, OnceInv, WritersTyped
    <2>2. Len(row) + 1 \in Events
      BY <2>1, BoundTyped, StreamAssumption DEF OnceInv, WritersTyped, Events
    <2> QED
      BY <2>1, <2>2
  <1>11. CASE \/ Receive \/ DropLink
              \/ \E n \in Events : Notify(n) \/ DropPublication(n)
    <2>1. bus.inbox \in Seq(Events) /\ Range(bus.inbox) \in SUBSET Events
      BY DEF OnceInv, WritersTyped, Bus, Range
    <2>2. bus.inbox # <<>> => Head(bus.inbox) \in Events
      BY <2>1
    <2>3. CASE Receive
      BY <1>2, <2>2, <2>3 DEF Receive
    <2>4. CASE DropLink
      BY <1>8, <2>1, <2>4 DEF DropLink
    <2>5. ASSUME NEW n \in Events, Notify(n) \/ DropPublication(n)
          PROVE  Miss({n}) \/ conn' = conn
      BY <2>5 DEF Notify, DropPublication
    <2> QED
      BY <1>1, <1>8, <1>11, <2>3, <2>4, <2>5
  <1>3. ASSUME NEW c \in Connections,
               \/ Subscribe(c) \/ Close(c) \/ FailBacklog(c) \/ ReadBacklog(c)
               \/ EndReplay(c) \/ Wait(c)
        PROVE  \E r : Once(r) /\ conn' = [conn EXCEPT ![c] = r]
    <2>1. Once(conn[c])
      BY DEF OnceInv
    <2>2. ASSUME NEW p \in Points
          PROVE  Once([conn[c] EXCEPT !.at = p])
      BY <2>1 DEF Once, Connection
    <2>3. ASSUME NEW p \in Points, NEW b \in SUBSET Events,
                 NEW d \in SUBSET Events
          PROVE  Once([conn[c] EXCEPT !.at = p, !.backlog = b, !.blind = d])
      BY <2>1 DEF Once, Connection
    <2>4. Oldest \in SUBSET Events
      <3>1. DOMAIN row = 1 .. Len(row) /\ Len(row) \in Nat /\ Len(row) <= MaxEvents
        BY DEF OnceInv, WritersTyped
      <3>2. DOMAIN row \subseteq Events
        BY <3>1, StreamAssumption DEF Events
      <3> QED
        BY <3>2 DEF Oldest, Committed
    <2>5. CASE Subscribe(c) \/ Close(c)
      BY <2>5, ClosedOnce DEF Subscribe, Close
    <2>6. CASE ReadBacklog(c)
      <3> DEFINE d == UNION {writer[w].open : w \in Writers}
                 r == [conn[c] EXCEPT !.at = "replay", !.backlog = Oldest,
                                      !.blind = d]
      <3>3. d \in SUBSET Events
        BY DEF OnceInv, WritersTyped
      <3>1. conn' = [conn EXCEPT ![c] = r]
        <4>1. conn \in [Connections -> Connection]
          BY DEF OnceInv
        <4>2. conn' = [conn EXCEPT ![c].at = "replay", ![c].backlog = Oldest,
                                   ![c].blind = d]
          BY <2>6 DEF ReadBacklog
        <4> HIDE DEF d
        <4> QED
          BY <4>1, <4>2
      <3> HIDE DEF d
      <3>2. Once(r)
        BY <2>3, <2>4, <3>3 DEF Points
      <3> HIDE DEF r
      <3> QED
        BY <3>1, <3>2
    <2>7. CASE FailBacklog(c) \/ EndReplay(c) \/ Wait(c)
      BY <2>2, <2>7 DEF FailBacklog, EndReplay, Wait, Points
    <2> QED
      BY <1>3, <2>5, <2>6, <2>7
  <1>4. ASSUME NEW c \in Connections, NEW n \in Events, Replay(c, n)
        PROVE  \E r : Once(r) /\ conn' = [conn EXCEPT ![c] = r]
    <2>1. Once(conn[c])
      BY DEF OnceInv
    <2> QED
      BY <1>4, <2>1, ReplayOnce DEF Replay
  <1>5. ASSUME NEW c \in Connections, Drain(c)
        PROVE  \E r : Once(r) /\ conn' = [conn EXCEPT ![c] = r]
    <2>1. Once(conn[c]) /\ conn[c].queue # <<>>
      BY <1>5 DEF OnceInv, Drain
    <2> QED
      BY <1>5, <2>1, DrainOnce DEF Drain
  <1>6. CASE Crash
    <2>1. conn' = [c \in Connections |-> Closed]
      BY <1>6 DEF Crash
    <2> QED
      BY <2>1, ClosedOnce DEF Once
  <1>7. ASSUME NEW w \in Writers,
               \/ \E state \in {"committed", "rolled back"} :
                    EndTransaction(w, state)
               \/ \E inTransaction \in BOOLEAN : Insert(w, inTransaction)
        PROVE  conn' = conn
    BY <1>7 DEF EndTransaction, Insert
  <1>12. CASE Rewire \/ WireListener
    BY <1>1, <1>12 DEF Rewire, WireListener
  <1>13. CASE \E w \in Writers :
            \/ Settle(w) \/ EmitModelEvent(w)
            \/ \E inTransaction \in BOOLEAN : Insert(w, inTransaction)
    BY <1>1, <1>2, <1>7, <1>8, <1>9, <1>10, <1>13 DEF Settle
  <1>14. CASE \E c \in Connections :
            Subscribe(c) \/ Serve(c) \/ FailBacklog(c) \/ Close(c)
    BY <1>3, <1>4, <1>5, <1>14, OneConnection DEF Serve
  <1> QED
    BY <1>1, <1>6, <1>11, <1>12, <1>13, <1>14 DEF Next, Carry, vars

(* Nothing is sent at first.                                                *)
LEMMA InitOnce == Init => OnceInv
  <1> SUFFICES ASSUME Init PROVE OnceInv
    OBVIOUS
  <1>1. row \in Seq(RowState) /\ Len(row) = 0
    BY DEF Init
  <1>2. Quiet \in [open : SUBSET Events, pending : SUBSET Events]
    BY DEF Quiet
  <1>3. WritersTyped
    <2>1. bus \in Bus
      BY StartTyped DEF Init
    <2> QED
      BY <1>1, <1>2, <2>1, StreamAssumption DEF Init, WritersTyped
  <1>4. Closed \in Connection
    BY ClosedOnce DEF Once
  <1> QED
    BY <1>3, <1>4, ClosedOnce DEF Init, OnceInv

(* The rows, writers and connections keep their types.                      *)
THEOREM TypeCorrect == Spec => []TypeOK
  <1>1. OnceInv => TypeOK
    BY DEF OnceInv, WritersTyped, TypeOK, Connection, Bus
  <1> QED
    BY <1>1, InitOnce, StepOnce, PTL DEF Spec

(* No connection is sent an event twice, on every kind of database and bus  *)
(* and however publications, notifications, replays and crashes interleave; *)
(* see NoDuplicateFrames.                                                   *)
THEOREM FramesAreUnique == Spec => []NoDuplicateFrames
  <1>1. OnceInv => NoDuplicateFrames
    BY DEF OnceInv, Once, NoDuplicateFrames
  <1> QED
    BY <1>1, InitOnce, StepOnce, PTL DEF Spec

(***************************************************************************)
(* A connection that follows the stream misses nothing.  An event is due   *)
(* once its row is inserted and nothing is left to tell of it; whoever has *)
(* read the backlog knows every event that is due.                         *)
(***************************************************************************)
Open == UNION {writer[w].open : w \in Writers}

Due == (Committed \cup Open) \ Underway

(* What a connection has written or will write from its queue.              *)
Told(c) == Range(c.sent) \cup Range(c.queue)

Follows(c, due) ==
    /\ c.seen \subseteq Told(c)
    /\ c.at \in {"drain", "waiting"} => c.backlog = {}
    /\ c.at \in {"replay", "drain", "waiting"} =>
          due \subseteq Told(c) \cup c.backlog \cup c.blind

FollowInv ==
    /\ \A w \in Writers : \A m, n \in writer[w].pending : m = n
    /\ \A c \in Connections : Follows(conn[c], Due)

(* The elements of a sequence with one more, and of one with its head taken.*)
LEMMA AppendRange ==
    ASSUME NEW S, NEW s \in Seq(S), NEW n \in S
    PROVE  Range(Append(s, n)) = Range(s) \cup {n}
  <1> DEFINE a == Append(s, n)
  <1>1. /\ Len(a) = Len(s) + 1 /\ a[Len(a)] = n
        /\ \A i \in 1 .. Len(s) : a[i] = s[i]
        /\ DOMAIN a = 1 .. Len(a) /\ DOMAIN s = 1 .. Len(s) /\ Len(s) \in Nat
    OBVIOUS
  <1> HIDE DEF a
  <1>2. ASSUME NEW i \in 1 .. Len(a) PROVE a[i] \in Range(s) \cup {n}
    BY <1>1 DEF Range
  <1>3. ASSUME NEW i \in 1 .. Len(s) PROVE \E j \in 1 .. Len(a) : a[j] = s[i]
    BY <1>1
  <1>4. \E j \in 1 .. Len(a) : a[j] = n
    BY <1>1
  <1>5. /\ Range(a) = {a[i] : i \in 1 .. Len(a)}
        /\ Range(s) = {s[i] : i \in 1 .. Len(s)}
    BY <1>1 DEF Range
  <1> QED
    BY <1>2, <1>3, <1>4, <1>5 DEF a

LEMMA HeadRange ==
    ASSUME NEW S, NEW s \in Seq(S), s # <<>>
    PROVE  Range(s) = {Head(s)} \cup Range(Tail(s))
  <1> DEFINE u == Tail(s)
  <1>1. /\ Len(u) = Len(s) - 1 /\ Len(s) \in Nat \ {0}
        /\ \A i \in 1 .. Len(u) : u[i] = s[i + 1]
        /\ DOMAIN u = 1 .. Len(u) /\ DOMAIN s = 1 .. Len(s)
        /\ Head(s) = s[1]
    OBVIOUS
  <1> HIDE DEF u
  <1>2. ASSUME NEW i \in 1 .. Len(s) PROVE s[i] \in {Head(s)} \cup Range(u)
    <2>1. CASE i = 1
      BY <1>1, <2>1
    <2>2. CASE i # 1
      <3>1. i - 1 \in 1 .. Len(u) /\ u[i - 1] = s[i]
        BY <1>1, <2>2
      <3> QED
        BY <1>1, <3>1 DEF Range
    <2> QED
      BY <2>1, <2>2
  <1>3. ASSUME NEW i \in 1 .. Len(u) PROVE u[i] \in Range(s)
    BY <1>1 DEF Range
  <1>4. Head(s) \in Range(s)
    BY <1>1 DEF Range
  <1>5. /\ Range(s) = {s[i] : i \in 1 .. Len(s)}
        /\ Range(u) = {u[i] : i \in 1 .. Len(u)}
    BY <1>1 DEF Range
  <1> QED
    BY <1>2, <1>3, <1>4, <1>5 DEF u

(* Where nothing more is due, a connection follows as before.               *)
LEMMA LessDue ==
    ASSUME NEW c, NEW due, Follows(c, due), NEW less, less \subseteq due
    PROVE  Follows(c, less)
  BY DEF Follows

(* The bus tells a connection of an event.                                  *)
LEMMA ListenFollows ==
    ASSUME NEW c \in Connection, NEW due, Follows(c, due), NEW n \in Events
    PROVE  Follows(Listen(c, n), due \cup {n})
  <1>1. CASE c.at = "closed" \/ n \in c.seen
    BY <1>1 DEF Listen, Follows
  <1>2. CASE ~(c.at = "closed" \/ n \in c.seen)
    <2> DEFINE q == Append(c.queue, n)
               a == IF c.at = "waiting" THEN "drain" ELSE c.at
               s == c.seen \cup {n}
               r == [c EXCEPT !.seen = s, !.queue = q, !.at = a]
    <2>1. Listen(c, n) = r
      BY <1>2 DEF Listen
    <2>2. Range(q) = Range(c.queue) \cup {n}
      BY AppendRange DEF Connection
    <2>3. /\ a \in {"drain", "waiting"} => c.at \in {"drain", "waiting"}
          /\ a = "replay" => c.at = "replay"
      OBVIOUS
    <2> HIDE DEF q, a
    <2>4. /\ r.queue = q /\ r.sent = c.sent /\ r.seen = s /\ r.at = a
          /\ r.backlog = c.backlog /\ r.blind = c.blind
      BY DEF Connection
    <2> HIDE DEF r
    <2>5. Told(r) = Told(c) \cup {n}
      BY <2>2, <2>4 DEF Told
    <2>6. Follows(r, due \cup {n})
      BY <2>3, <2>4, <2>5 DEF Follows
    <2> QED
      BY <2>1, <2>6
  <1> QED
    BY <1>1, <1>2

(* Nothing tells a connection of some events, and the history notes it.     *)
LEMMA MissFollows ==
    ASSUME NEW c \in Connection, NEW due, Follows(c, due), NEW b
    PROVE  Follows(IF c.at \in {"closed", "subscribed"} THEN c
                   ELSE [c EXCEPT !.blind = @ \cup b], due \cup b)
  <1>1. CASE c.at \in {"closed", "subscribed"}
    BY <1>1 DEF Follows
  <1>2. CASE c.at \notin {"closed", "subscribed"}
    <2> DEFINE d == c.blind \cup b
               r == [c EXCEPT !.blind = d]
    <2>1. /\ r.queue = c.queue /\ r.sent = c.sent /\ r.seen = c.seen
          /\ r.at = c.at /\ r.backlog = c.backlog /\ r.blind = d
      BY DEF Connection
    <2> HIDE DEF r
    <2>2. Follows(r, due \cup b)
      BY <2>1 DEF Follows, Told
    <2> QED
      BY <1>2, <2>2 DEF r
  <1> QED
    BY <1>1, <1>2

(* What the step of one connection does to it; the rest is left alone.      *)
LEMMA OwnFollows ==
    ASSUME OnceInv, FollowInv, NEW c \in Connections,
           \/ Subscribe(c) \/ Close(c) \/ FailBacklog(c) \/ EndReplay(c)
           \/ Drain(c) \/ Wait(c) \/ \E n \in Events : Replay(c, n)
    PROVE  FollowInv'
  <1>1. UNCHANGED <<row, writer, bus>>
    BY DEF Subscribe, Close, FailBacklog, EndReplay, Drain, Wait, Replay
  <1>2. Due' = Due
    BY <1>1 DEF Due, Committed, Open, Underway
  <1>3. conn[c] \in Connection /\ Follows(conn[c], Due)
    BY DEF OnceInv, FollowInv
  <1>4. SUFFICES \E r : Follows(r, Due) /\ conn' = [conn EXCEPT ![c] = r]
    BY <1>1, <1>2 DEF FollowInv, OnceInv
  <1>5. CASE Subscribe(c) \/ Close(c)
    <2> DEFINE z == <<>>
    <2>1. Range(z) = {}
      BY DEF Range
    <2>2. ASSUME NEW p \in {"closed", "subscribed"}
          PROVE  Follows([Closed EXCEPT !.at = p], Due)
      BY <2>1 DEF Closed, Follows, Told
    <2>3. Closed = [Closed EXCEPT !.at = "closed"]
      BY DEF Closed
    <2> QED
      BY <1>5, <2>2, <2>3 DEF Subscribe, Close
  <1>6. CASE FailBacklog(c) \/ EndReplay(c) \/ Wait(c)
    <2>1. PICK p \in {"broken", "drain", "waiting"} :
              /\ conn' = [conn EXCEPT ![c].at = p]
              /\ p = "drain" => conn[c].at = "replay" /\ conn[c].backlog = {}
              /\ p = "waiting" => conn[c].at = "drain"
      BY <1>6 DEF FailBacklog, EndReplay, Wait
    <2> DEFINE r == [conn[c] EXCEPT !.at = p]
    <2>2. /\ r.queue = conn[c].queue /\ r.sent = conn[c].sent /\ r.seen = conn[c].seen
          /\ r.at = p /\ r.backlog = conn[c].backlog /\ r.blind = conn[c].blind
      BY <1>3 DEF Connection
    <2>3. conn' = [conn EXCEPT ![c] = r]
      BY <2>1
    <2> HIDE DEF r
    <2>4. Follows(r, Due)
      BY <1>3, <2>1, <2>2 DEF Follows, Told
    <2> QED
      BY <2>3, <2>4
  <1>7. CASE Drain(c)
    <2> DEFINE q == Tail(conn[c].queue)
               n == Head(conn[c].queue)
               f == Append(conn[c].sent, n)
               r == [conn[c] EXCEPT !.queue = q, !.sent = f]
    <2>1. conn[c].queue # <<>> /\ conn' = [conn EXCEPT ![c] = r]
      BY <1>7 DEF Drain
    <2>2. /\ Range(conn[c].queue) = {n} \cup Range(q) /\ n \in Events
      BY <1>3, <2>1, HeadRange DEF Connection
    <2>3. Range(f) = Range(conn[c].sent) \cup {n}
      <3> HIDE DEF n
      <3> QED
        BY <1>3, <2>2, AppendRange DEF Connection
    <2> HIDE DEF q, n, f
    <2>4. /\ r.queue = q /\ r.sent = f /\ r.seen = conn[c].seen /\ r.at = conn[c].at
          /\ r.backlog = conn[c].backlog /\ r.blind = conn[c].blind
      BY <1>3 DEF Connection
    <2> HIDE DEF r
    <2>5. Follows(r, Due)
      BY <1>3, <2>2, <2>3, <2>4 DEF Follows, Told
    <2> QED
      BY <2>1, <2>5
  <1>8. ASSUME NEW n \in Events, Replay(c, n)
        PROVE  \E r : Follows(r, Due) /\ conn' = [conn EXCEPT ![c] = r]
    <2> DEFINE f == IF n \in conn[c].seen THEN conn[c].sent ELSE Append(conn[c].sent, n)
               s == conn[c].seen \cup {n}
               b == conn[c].backlog \ {n}
               r == [conn[c] EXCEPT !.backlog = b, !.seen = s, !.sent = f]
    <2>1. conn[c].at = "replay" /\ conn' = [conn EXCEPT ![c] = r]
      BY <1>8 DEF Replay
    <2>2. Range(f) \cup Range(conn[c].queue) = Told(conn[c]) \cup {n}
      <3>1. CASE n \in conn[c].seen
        BY <1>3, <3>1 DEF Follows, Told
      <3>2. CASE n \notin conn[c].seen
        BY <1>3, <3>2, AppendRange DEF Connection, Told
      <3> QED
        BY <3>1, <3>2
    <2> HIDE DEF f, b
    <2>3. /\ r.queue = conn[c].queue /\ r.sent = f /\ r.seen = s /\ r.at = conn[c].at
          /\ r.backlog = b /\ r.blind = conn[c].blind
      BY <1>3 DEF Connection
    <2> HIDE DEF r
    <2>4. Told(r) = Told(conn[c]) \cup {n}
      BY <2>2, <2>3 DEF Told
    <2>5. Follows(r, Due)
      BY <1>3, <2>1, <2>3, <2>4 DEF Follows, b
    <2> QED
      BY <2>1, <2>5
  <1> QED
    BY <1>5, <1>6, <1>7, <1>8

(* The replay reads every committed row while they fit its limit.           *)
LEMMA OldestIsAll ==
    ASSUME OnceInv, Limit >= MaxEvents
    PROVE  Oldest = Committed
  <1> SUFFICES ASSUME NEW n \in Committed
               PROVE  Cardinality({m \in Committed : m < n}) < Limit
    BY DEF Oldest
  <1>1. DOMAIN row = 1 .. Len(row) /\ Len(row) \in Nat /\ Len(row) <= MaxEvents
    BY DEF OnceInv, WritersTyped
  <1>2. n \in Nat \ {0} /\ n <= Limit
    BY <1>1, StreamAssumption DEF Committed
  <1> DEFINE before == {m \in Committed : m < n}
  <1>3. before \in SUBSET (1 .. n - 1)
    BY <1>1, <1>2 DEF Committed
  <1>4. IsFiniteSet(1 .. n - 1) /\ Cardinality(1 .. n - 1) = n - 1
    <2>1. 1 \in Int /\ n - 1 \in Int /\ (1 > n - 1 => n - 1 = 0)
      BY <1>2
    <2>2. /\ IsFiniteSet(1 .. n - 1)
          /\ Cardinality(1 .. n - 1) = IF 1 > n - 1 THEN 0 ELSE (n - 1) - 1 + 1
      BY <2>1, FS_Interval
    <2> QED
      BY <1>2, <2>1, <2>2
  <1> HIDE DEF before
  <1>5. Cardinality(before) <= n - 1 /\ IsFiniteSet(before)
    BY <1>3, <1>4, FS_Subset
  <1>6. Cardinality(before) \in Nat
    BY <1>5, FS_CardinalityType
  <1>7. Cardinality(before) < Limit
    BY <1>2, <1>5, <1>6, StreamAssumption
  <1> QED
    BY <1>7 DEF before

(* The backlog is read.                                                     *)
LEMMA ReadFollows ==
    ASSUME OnceInv, FollowInv, Limit >= MaxEvents, NEW c \in Connections,
           ReadBacklog(c)
    PROVE  FollowInv'
  <1>1. UNCHANGED <<row, writer, bus>> /\ conn \in [Connections -> Connection]
    BY DEF ReadBacklog, OnceInv
  <1>2. Due' = Due
    BY <1>1 DEF Due, Committed, Open, Underway
  <1> DEFINE b == Oldest
             d == Open
             r == [conn[c] EXCEPT !.at = "replay", !.backlog = b, !.blind = d]
  <1>3. b = Committed
    BY OldestIsAll
  <1>4. conn' = [conn EXCEPT ![c].at = "replay", ![c].backlog = b, ![c].blind = d]
    BY DEF ReadBacklog, Open
  <1> HIDE DEF b, d
  <1>5. conn' = [conn EXCEPT ![c] = r]
    BY <1>1, <1>4
  <1>6. /\ r.queue = conn[c].queue /\ r.sent = conn[c].sent /\ r.seen = conn[c].seen
        /\ r.at = "replay" /\ r.backlog = b /\ r.blind = d
    BY <1>1 DEF Connection
  <1> HIDE DEF r
  <1>7. Follows(conn[c], Due)
    BY DEF FollowInv
  <1>8. Follows(r, Due)
    BY <1>3, <1>6, <1>7 DEF Follows, Told, Due, d
  <1> QED
    BY <1>1, <1>2, <1>5, <1>8 DEF FollowInv

(* Everybody is told of an event, or nobody is.                             *)
LEMMA DispatchFollows ==
    ASSUME OnceInv, FollowInv, NEW n \in Events, Dispatch(n),
           NEW less, less \subseteq Due \cup {n}
    PROVE  \A c \in Connections : Follows(conn'[c], less)
  <1> SUFFICES ASSUME NEW c \in Connections PROVE Follows(conn'[c], less)
    OBVIOUS
  <1>1. conn[c] \in Connection /\ Follows(conn[c], Due)
    BY DEF OnceInv, FollowInv
  <1>2. conn'[c] = Listen(conn[c], n)
    BY DEF Dispatch
  <1>3. Follows(Listen(conn[c], n), Due \cup {n})
    BY <1>1, ListenFollows
  <1> QED
    BY <1>2, <1>3, LessDue

LEMMA MissedFollows ==
    ASSUME OnceInv, FollowInv, NEW b, Miss(b), NEW less, less \subseteq Due \cup b
    PROVE  \A c \in Connections : Follows(conn'[c], less)
  <1> SUFFICES ASSUME NEW c \in Connections PROVE Follows(conn'[c], less)
    OBVIOUS
  <1>1. conn[c] \in Connection /\ Follows(conn[c], Due)
    BY DEF OnceInv, FollowInv
  <1>2. conn'[c] = IF conn[c].at \in {"closed", "subscribed"} THEN conn[c]
                   ELSE [conn[c] EXCEPT !.blind = @ \cup b]
    BY DEF Miss
  <1>3. Follows(conn'[c], Due \cup b)
    BY <1>1, <1>2, MissFollows
  <1> QED
    BY <1>3, LessDue

LEMMA UntoldFollows ==
    ASSUME OnceInv, FollowInv, conn' = conn, NEW less, less \subseteq Due
    PROVE  \A c \in Connections : Follows(conn'[c], less)
  BY LessDue DEF FollowInv

(* A writer's step.                                                         *)
LEMMA WriterFollows ==
    ASSUME OnceInv, FollowInv, NEW w \in Writers,
           \/ Settle(w) \/ EmitModelEvent(w)
           \/ \E inTransaction \in BOOLEAN : Insert(w, inTransaction)
    PROVE  FollowInv'
  <1> USE DEF Due, Committed, Open, Underway
  <1>1. /\ DOMAIN row = 1 .. Len(row) /\ Len(row) \in Nat
        /\ row \in Seq(RowState)
        /\ writer \in [Writers -> [open : SUBSET Events, pending : SUBSET Events]]
    BY DEF OnceInv, WritersTyped
  <1>2. ASSUME NEW s, row' = Append(row, s)
        PROVE  Committed' \subseteq Committed \cup {Len(row) + 1}
    <2>1. /\ DOMAIN row' = 1 .. (Len(row) + 1)
          /\ \A m \in 1 .. Len(row) : row'[m] = row[m]
      BY <1>1, <1>2
    <2> QED
      BY <1>1, <2>1
  <1>3. ASSUME NEW inTransaction \in BOOLEAN, Insert(w, inTransaction) PROVE FollowInv'
    <2> DEFINE n == Len(row) + 1
               s == IF inTransaction THEN "open" ELSE "committed"
               o == IF inTransaction THEN writer[w].open \cup {n} ELSE writer[w].open
    <2>1. row' = Append(row, s) /\ UNCHANGED <<conn, bus>>
      BY <1>3 DEF Insert
    <2>2. writer' = [writer EXCEPT ![w].pending = {n}, ![w].open = o]
      BY <1>3 DEF Insert
    <2>3. o \subseteq writer[w].open \cup {n}
      OBVIOUS
    <2>4. writer[w].pending = {}
      BY <1>3 DEF Insert
    <2>5. Committed' \subseteq Committed \cup {n}
      BY <1>2, <2>1
    <2> HIDE DEF n, s, o
    <2>6. /\ writer'[w].pending = {n} /\ writer'[w].open = o
          /\ \A v \in Writers \ {w} : writer'[v] = writer[v]
      BY <1>1, <2>2
    <2>7. Due' \subseteq Due
      <3>1. Underway \cup {n} \subseteq Underway'
        BY <2>1, <2>4, <2>6
      <3>2. Open' \subseteq Open \cup {n}
        BY <2>3, <2>6
      <3> QED
        BY <2>5, <3>1, <3>2 DEF Due
    <2>8. \A v \in Writers : \A m, k \in writer'[v].pending : m = k
      BY <2>6 DEF FollowInv
    <2> HIDE DEF Due, Committed, Open, Underway
    <2> QED
      BY <2>1, <2>7, <2>8, UntoldFollows DEF FollowInv
  <1>4. CASE EmitModelEvent(w)
    <2> DEFINE n == Len(row) + 1
    <2>1. row' = Append(row, "committed") /\ Miss({n}) /\ UNCHANGED <<writer, bus>>
      BY <1>4 DEF EmitModelEvent
    <2>2. Committed' \subseteq Committed \cup {n}
      BY <1>2, <2>1
    <2> HIDE DEF n
    <2>3. Due' \subseteq Due \cup {n}
      BY <2>1, <2>2
    <2> HIDE DEF Due, Committed, Open, Underway
    <2> QED
      BY <2>1, <2>3, MissedFollows DEF FollowInv
  <1>5. ASSUME NEW state \in {"committed", "rolled back"}, EndTransaction(w, state)
        PROVE  FollowInv'
    <2>1. /\ UNCHANGED <<conn, bus>>
          /\ writer' = [writer EXCEPT ![w].open = {}]
          /\ row' = [n \in DOMAIN row |->
                       IF n \in writer[w].open THEN state ELSE row[n]]
      BY <1>5 DEF EndTransaction
    <2>2. /\ writer'[w].pending = writer[w].pending /\ writer'[w].open = {}
          /\ \A v \in Writers \ {w} : writer'[v] = writer[v]
      BY <1>1, <2>1
    <2>3. Due' \subseteq Due
      <3>1. Underway \subseteq Underway'
        <4>1. \A v \in Writers : writer'[v].pending = writer[v].pending
          BY <2>2
        <4> QED
          BY <2>1, <4>1
      <3>2. Open' \subseteq Open
        BY <2>2
      <3>3. Committed' \subseteq Committed \cup Open
        BY <2>1
      <3> QED
        BY <3>1, <3>2, <3>3 DEF Due
    <2>4. \A v \in Writers : \A m, k \in writer'[v].pending : m = k
      BY <2>2 DEF FollowInv
    <2> HIDE DEF Due, Committed, Open, Underway
    <2> QED
      BY <2>1, <2>3, <2>4, UntoldFollows DEF FollowInv
  <1>6. CASE Publish(w)
    <2>1. PICK n \in writer[w].pending :
              /\ writer' = [writer EXCEPT ![w].pending = {}] /\ row' = row
              /\ \/ bus' = [bus EXCEPT !.sending = @ \cup {n}] /\ conn' = conn
                 \/ Dispatch(n) /\ bus' = bus
      BY <1>6 DEF Publish
    <2>2. n \in Events /\ writer[w].pending = {n}
      BY <1>1 DEF FollowInv
    <2>3. /\ writer'[w].pending = {} /\ writer'[w].open = writer[w].open
          /\ \A v \in Writers \ {w} : writer'[v] = writer[v]
      BY <1>1, <2>1
    <2>4. Committed' = Committed /\ Open' = Open
      BY <2>1, <2>3
    <2>5. \A v \in Writers : \A m, k \in writer'[v].pending : m = k
      BY <2>3 DEF FollowInv
    <2>6. CASE bus' = [bus EXCEPT !.sending = @ \cup {n}] /\ conn' = conn
      <3>1. bus'.sending = bus.sending \cup {n} /\ bus'.inbox = bus.inbox
        BY <2>6 DEF OnceInv, WritersTyped, Bus
      <3>2. Underway \subseteq Underway'
        BY <2>2, <2>3, <3>1
      <3>3. Due' \subseteq Due
        BY <2>4, <3>2 DEF Due
      <3> HIDE DEF Due, Committed, Open, Underway
      <3> QED
        BY <2>5, <2>6, <3>3, UntoldFollows DEF FollowInv
    <2>7. CASE Dispatch(n) /\ bus' = bus
      <3>1. Underway \subseteq Underway' \cup {n}
        BY <2>2, <2>3, <2>7
      <3>2. Due' \subseteq Due \cup {n}
        BY <2>4, <3>1 DEF Due
      <3> HIDE DEF Due, Committed, Open, Underway
      <3> QED
        BY <2>2, <2>5, <2>7, <3>2, DispatchFollows DEF FollowInv
    <2> QED
      BY <2>1, <2>6, <2>7
  <1> QED
    BY <1>3, <1>4, <1>5, <1>6 DEF Settle

(* A step of the bus.                                                       *)
LEMMA BusFollows ==
    ASSUME OnceInv, FollowInv,
           \/ Carry \/ WireListener \/ DropLink
           \/ \E n \in Events : DropPublication(n)
    PROVE  FollowInv'
  <1>1. UNCHANGED <<row, writer>> /\ bus \in Bus
    BY DEF Carry, Receive, Rewire, Notify, WireListener, DropLink, DropPublication,
       OnceInv, WritersTyped
  <1>2. ASSUME NEW b,
               bus.sending \cup Range(bus.inbox) \subseteq
                   bus'.sending \cup Range(bus'.inbox) \cup b
        PROVE  Due' \subseteq Due \cup b
    BY <1>1, <1>2 DEF Due, Committed, Open, Underway
  <1>3. ASSUME \A c \in Connections : Follows(conn'[c], Due')
        PROVE  FollowInv'
    BY <1>1, <1>3 DEF FollowInv
  <1>4. CASE Rewire \/ WireListener
    <2>1. bus'.sending = bus.sending /\ bus'.inbox = bus.inbox /\ conn' = conn
      BY <1>1, <1>4 DEF Rewire, WireListener, Bus
    <2>2. Due' \subseteq Due \cup {}
      BY <1>2, <2>1
    <2> QED
      BY <1>3, <2>1, <2>2, UntoldFollows
  <1>5. CASE DropLink
    <2> DEFINE z == <<>>
    <2>1. bus' = [bus EXCEPT !.link = "dead", !.inbox = z] /\ Miss(Range(bus.inbox))
      BY <1>5 DEF DropLink
    <2> HIDE DEF z
    <2>2. bus'.sending = bus.sending
      BY <1>1, <2>1 DEF Bus
    <2>3. Due' \subseteq Due \cup Range(bus.inbox)
      BY <1>2, <2>2
    <2> QED
      BY <1>3, <2>1, <2>3, MissedFollows
  <1>6. CASE Receive
    <2> DEFINE n == Head(bus.inbox)
               q == Tail(bus.inbox)
    <2>1. /\ bus.inbox # <<>> /\ bus.inbox \in Seq(Events)
          /\ bus' = [bus EXCEPT !.inbox = q] /\ Dispatch(n)
      BY <1>1, <1>6 DEF Receive, Bus
    <2>2. n \in Events /\ Range(bus.inbox) = {n} \cup Range(q)
      BY <2>1, HeadRange
    <2> HIDE DEF n, q
    <2>3. bus'.inbox = q /\ bus'.sending = bus.sending
      BY <1>1, <2>1 DEF Bus
    <2>4. Due' \subseteq Due \cup {n}
      BY <1>2, <2>2, <2>3
    <2> QED
      BY <1>3, <2>1, <2>2, <2>4, DispatchFollows
  <1>7. ASSUME NEW n \in Events, Notify(n) PROVE FollowInv'
    <2>1. CASE bus.link = "up"
      <3> DEFINE q == Append(bus.inbox, n)
      <3>1. bus' = [bus EXCEPT !.sending = @ \ {n}, !.inbox = q] /\ conn' = conn
        BY <1>7, <2>1 DEF Notify
      <3>2. Range(q) = Range(bus.inbox) \cup {n}
        BY <1>1, AppendRange DEF Bus
      <3> HIDE DEF q
      <3>3. bus'.inbox = q /\ bus'.sending = bus.sending \ {n}
        BY <1>1, <3>1 DEF Bus
      <3>4. Due' \subseteq Due \cup {}
        BY <1>2, <3>2, <3>3
      <3> QED
        BY <1>3, <3>1, <3>4, UntoldFollows
    <2>2. CASE bus.link # "up"
      <3>1. bus' = [bus EXCEPT !.sending = @ \ {n}] /\ Miss({n})
        BY <1>7, <2>2 DEF Notify
      <3>2. bus'.inbox = bus.inbox /\ bus'.sending = bus.sending \ {n}
        BY <1>1, <3>1 DEF Bus
      <3>3. Due' \subseteq Due \cup {n}
        BY <1>2, <3>2
      <3> QED
        BY <1>3, <3>1, <3>3, MissedFollows
    <2> QED
      BY <2>1, <2>2
  <1>8. ASSUME NEW n \in Events, DropPublication(n) PROVE FollowInv'
    <2>1. bus' = [bus EXCEPT !.sending = @ \ {n}] /\ Miss({n})
      BY <1>8 DEF DropPublication
    <2>2. bus'.inbox = bus.inbox /\ bus'.sending = bus.sending \ {n}
      BY <1>1, <2>1 DEF Bus
    <2>3. Due' \subseteq Due \cup {n}
      BY <1>2, <2>2
    <2> QED
      BY <1>3, <2>1, <2>3, MissedFollows
  <1> QED
    BY <1>4, <1>5, <1>6, <1>7, <1>8 DEF Carry

(* Nobody is told of anything before connections begin.                     *)
LEMMA ClosedFollows == \A due : Follows(Closed, due)
  <1> DEFINE z == <<>>
  <1>1. Range(z) = {}
    BY DEF Range
  <1> QED
    BY <1>1 DEF Closed, Follows, Told

LEMMA StepFollows ==
    ASSUME OnceInv, FollowInv, Limit >= MaxEvents, [Next]_vars
    PROVE  FollowInv'
  <1>1. CASE Crash
    <2>1. /\ conn' = [c \in Connections |-> Closed]
          /\ writer' = [w \in Writers |-> Quiet]
      BY <1>1 DEF Crash
    <2>2. \A w \in Writers : writer'[w].pending = {}
      BY <2>1 DEF Quiet
    <2> QED
      BY <2>1, <2>2, ClosedFollows DEF FollowInv
  <1>2. CASE UNCHANGED vars
    BY <1>2 DEF vars, FollowInv, Due, Committed, Open, Underway
  <1>3. ASSUME NEW c \in Connections,
               Subscribe(c) \/ Serve(c) \/ FailBacklog(c) \/ Close(c)
        PROVE  FollowInv'
    BY <1>3, OwnFollows, ReadFollows DEF Serve
  <1> QED
    BY <1>1, <1>2, <1>3, WriterFollows, BusFollows DEF Next

(* While the rows fit the replay, a connection that has read the backlog    *)
(* misses no committed event but those that nothing told it of, on every    *)
(* kind of database and bus; see CaughtUp.                                  *)
THEOREM FollowersCatchUp ==
    ASSUME Limit >= MaxEvents
    PROVE  Spec => []CaughtUp
  <1>1. Init => FollowInv
    <2> SUFFICES ASSUME Init PROVE FollowInv
      OBVIOUS
    <2>1. \A w \in Writers : writer[w].pending = {}
      BY DEF Init, Quiet
    <2>2. \A c \in Connections : conn[c] = Closed
      BY DEF Init
    <2> QED
      BY <2>1, <2>2, ClosedFollows DEF FollowInv
  <1>2. OnceInv /\ FollowInv /\ [Next]_vars => FollowInv'
    BY StepFollows
  <1>3. FollowInv => CaughtUp
    <2> SUFFICES ASSUME FollowInv, NEW c \in Connections,
                        conn[c].at \in {"drain", "waiting"}
                 PROVE  Committed \ (Underway \cup conn[c].blind)
                            \subseteq Range(conn[c].sent) \cup Range(conn[c].queue)
      BY DEF CaughtUp
    <2>1. Follows(conn[c], Due)
      BY DEF FollowInv
    <2> QED
      BY <2>1 DEF Follows, Told, Due
  <1> QED
    BY <1>1, <1>2, <1>3, InitOnce, StepOnce, PTL DEF Spec

-----------------------------------------------------------------------------
(* Live view: positions and lists                                          *)

(* A set of natural numbers that is not empty has a least element ...     *)
LEMMA FirstOf ==
    ASSUME NEW T \in SUBSET Nat, T # {}
    PROVE  \E x \in T : \A y \in T : x <= y
  <1> DEFINE R == OpToRel(<, Nat)
  <1>1. IsWellFoundedOn(R, Nat)
    BY NatLessThanWellFounded
  <1>2. PICK x \in T : \A y \in T : ~ (<<y, x>> \in R)
    <2> HIDE DEF R
    <2> QED
      BY <1>1, WFMin
  <1>3. \A y \in T : ~ (y < x)
    BY <1>2 DEF OpToRel
  <1> QED
    BY <1>3

(* ... and a set of positions in a sequence has a last one.               *)
LEMMA LastIn ==
    ASSUME NEW n \in Nat, NEW T \in SUBSET (1 .. n), T # {}
    PROVE  Max(T) \in T /\ \A y \in T : Max(T) >= y
  <1> DEFINE flipped == {x \in Nat : x <= n /\ n - x \in T}
  <1>1. PICK t \in T : TRUE
    OBVIOUS
  <1>2. n - t \in flipped
    <2>1. t \in 1 .. n /\ n - t \in Nat /\ n - t <= n /\ n - (n - t) = t
      BY <1>1
    <2> QED
      BY <1>1, <2>1
  <1>3. PICK x \in flipped : \A y \in flipped : x <= y
    <2> HIDE DEF flipped
    <2>1. flipped \in SUBSET Nat
      BY DEF flipped
    <2> QED
      BY <1>2, <2>1, FirstOf
  <1>4. \A y \in T : n - x >= y
    <2> TAKE y \in T
    <2>1. y \in 1 .. n /\ n - y \in Nat /\ n - y <= n /\ n - (n - y) = y
      OBVIOUS
    <2>2. n - y \in flipped
      BY <2>1
    <2>3. x <= n - y
      BY <1>3, <2>2
    <2> QED
      BY <1>3, <2>1, <2>3
  <1>5. n - x \in T
    BY <1>3
  <1> QED
    BY <1>4, <1>5 DEF Max

(* Of any subsets of a finite set, one has none of the others within.     *)
LEMMA SmallestSets ==
    ASSUME NEW S, IsFiniteSet(S)
    PROVE  \A T \in SUBSET (SUBSET S) : T # {} =>
               \E s \in T : \A r \in T : r \subseteq s => r = s
  <1> TAKE T \in SUBSET (SUBSET S)
  <1> HAVE T # {}
  <1> DEFINE sizes == {Cardinality(s) : s \in T}
  <1>1. \A s \in T : IsFiniteSet(s) /\ Cardinality(s) \in Nat
    BY FS_Subset, FS_CardinalityType
  <1>2. PICK x \in sizes : \A y \in sizes : x <= y
    <2>1. sizes \in SUBSET Nat /\ sizes # {}
      BY <1>1
    <2> HIDE DEF sizes
    <2> QED
      BY <2>1, FirstOf
  <1>3. PICK s \in T : x = Cardinality(s)
    BY <1>2
  <1>4. \A r \in T : r \subseteq s => r = s
    <2> TAKE r \in T
    <2> HAVE r \subseteq s
    <2>1. Cardinality(s) <= Cardinality(r)
      BY <1>2, <1>3
    <2>2. /\ Cardinality(r) <= Cardinality(s)
          /\ Cardinality(r) = Cardinality(s) => r = s
      BY <1>1, FS_Subset
    <2>3. Cardinality(r) \in Nat /\ Cardinality(s) \in Nat
      BY <1>1
    <2> QED
      BY <2>1, <2>2, <2>3
  <1> QED
    BY <1>4

(* The last of a list's positions is the greatest, and of any sets of its  *)
(* positions one has none of the others within.                           *)
LEMMA LastOfPositions ==
    ASSUME NEW n \in Nat
    PROVE  /\ \A s \in SUBSET (1 .. n) : s # {} => Max(s) \in s
           /\ \A k \in 1 .. n : Max(1 .. k) = k
           /\ \A T \in SUBSET (SUBSET (1 .. n)) : T # {} =>
                \E s \in T : \A r \in T : r \subseteq s => r = s
  <1>3. ASSUME NEW k \in 1 .. n
        PROVE  Max(1 .. k) = k
    <2>1. 1 .. k \in SUBSET (1 .. n) /\ 1 .. k # {} /\ k \in 1 .. k
      OBVIOUS
    <2>2. Max(1 .. k) \in 1 .. k /\ Max(1 .. k) >= k
      BY <2>1, LastIn
    <2> QED
      BY <2>2
  <1>4. IsFiniteSet(1 .. n)
    BY FS_Interval
  <1>5. \A T \in SUBSET (SUBSET (1 .. n)) : T # {} =>
          \E s \in T : \A r \in T : r \subseteq s => r = s
    <2> DEFINE Smallest(S) == \A T \in SUBSET (SUBSET S) : T # {} =>
                                \E s \in T : \A r \in T : r \subseteq s => r = s
    <2>1. \A S : IsFiniteSet(S) => Smallest(S)
      BY SmallestSets, Zenon
    <2>2. Smallest(1 .. n)
      <3> HIDE DEF Smallest
      <3> QED
        BY <1>4, <2>1
    <2> QED
      BY <2>2, Zenon
  <1> QED
    BY LastIn, <1>3, <1>5

LEMMA ListFacts ==
    ASSUME NEW list, IsList(list)
    PROVE  /\ Len(list) \in Nat /\ DOMAIN list = 1 .. Len(list)
           /\ list = [k \in 1 .. Len(list) |-> list[k]]
           /\ list # <<>> => Len(list) # 0
  <1>1. list \in Seq({list[k] : k \in DOMAIN list})
    BY DEF IsList
  <1> DEFINE S == {list[k] : k \in DOMAIN list}
  <1>2. list \in Seq(S)
    BY <1>1
  <1> HIDE DEF S
  <1> QED
    BY <1>2, EmptySeq, LenProperties

LEMMA IsListOf ==
    ASSUME NEW S, NEW list \in Seq(S)
    PROVE  IsList(list)
  <1>1. DOMAIN list = 1 .. Len(list) /\ Len(list) \in Nat
    BY LenProperties
  <1> QED
    BY <1>1 DEF IsList

LEMMA MappedList ==
    ASSUME NEW list, IsList(list), NEW f, f = [k \in DOMAIN list |-> f[k]]
    PROVE  IsList(f) /\ Len(f) = Len(list) /\ DOMAIN f = 1 .. Len(list)
  <1>1. Len(list) \in Nat /\ DOMAIN list = 1 .. Len(list)
    BY ListFacts
  <1> DEFINE n == Len(list)
             S == {f[k] : k \in 1 .. n}
  <1>2. DOMAIN f = 1 .. n /\ \A k \in 1 .. n : f[k] \in S
    BY <1>1
  <1> HIDE DEF S, n
  <1>3. f \in [1 .. n -> S]
    BY <1>1, <1>2 DEF n
  <1>4. f \in Seq(S) /\ Len(f) = n
    BY <1>1, <1>3 DEF n
  <1> QED
    BY <1>2, <1>4, IsListOf DEF n

LEMMA AppendedList ==
    ASSUME NEW list, IsList(list), NEW x, NEW n, n = Len(list)
    PROVE  /\ IsList(Append(list, x)) /\ Len(Append(list, x)) = n + 1
           /\ DOMAIN Append(list, x) = 1 .. n + 1
           /\ \A k \in 1 .. n : Append(list, x)[k] = list[k]
           /\ Append(list, x)[n + 1] = x
  <1> DEFINE S == {list[k] : k \in DOMAIN list} \cup {x}
  <1>1. list \in Seq({list[k] : k \in DOMAIN list})
    BY DEF IsList
  <1>2. list \in Seq(S) /\ x \in S
    BY <1>1
  <1> HIDE DEF S
  <1>3. Append(list, x) \in Seq(S) /\ Len(Append(list, x)) = n + 1
        /\ DOMAIN Append(list, x) = 1 .. n + 1
        /\ \A k \in 1 .. n : Append(list, x)[k] = list[k]
        /\ Append(list, x)[n + 1] = x
    BY <1>2
  <1>4. IsList(Append(list, x))
    BY <1>3, IsListOf
  <1> QED
    BY <1>3, <1>4

(* Lists of one length that agree everywhere are one list.                *)
LEMMA SameList ==
    ASSUME NEW a, IsList(a), NEW b, IsList(b), Len(a) = Len(b),
           \A k \in 1 .. Len(a) : a[k] = b[k]
    PROVE  a = b
  <1> DEFINE n == Len(a)
  <1>1. a = [k \in 1 .. n |-> a[k]]
    BY ListFacts
  <1>2. b = [k \in 1 .. n |-> b[k]]
    BY ListFacts
  <1>3. [k \in 1 .. n |-> a[k]] = [k \in 1 .. n |-> b[k]]
    OBVIOUS
  <1> QED
    BY <1>1, <1>2, <1>3

LEMMA JoinedList ==
    ASSUME NEW a, IsList(a), NEW b, IsList(b)
    PROVE  /\ IsList(a \o b) /\ Len(a \o b) = Len(a) + Len(b)
           /\ \A k \in 1 .. Len(a) : (a \o b)[k] = a[k]
           /\ \A k \in 1 .. Len(b) : (a \o b)[Len(a) + k] = b[k]
  <1> DEFINE S == {a[k] : k \in DOMAIN a} \cup {b[k] : k \in DOMAIN b}
             m == Len(a)
             n == Len(b)
  <1>1. a \in Seq({a[k] : k \in DOMAIN a}) /\ b \in Seq({b[k] : k \in DOMAIN b})
    BY DEF IsList
  <1>2. a \in Seq(S) /\ b \in Seq(S) /\ m \in Nat /\ n \in Nat
    BY <1>1, ListFacts
  <1> HIDE DEF S
  <1>3. a \o b \in Seq(S) /\ Len(a \o b) = m + n
        /\ \A i \in 1 .. m + n : (a \o b)[i] = IF i <= m THEN a[i] ELSE b[i - m]
    BY <1>2, ConcatProperties
  <1> HIDE DEF m, n
  <1>4. IsList(a \o b)
    BY <1>3, IsListOf
  <1>5. \A k \in 1 .. m : (a \o b)[k] = a[k]
    BY <1>2, <1>3
  <1>6. ASSUME NEW k \in 1 .. n PROVE (a \o b)[m + k] = b[k]
    <2>1. m + k \in 1 .. m + n /\ ~(m + k <= m) /\ (m + k) - m = k
      BY <1>2
    <2> QED
      BY <1>3, <2>1
  <1> QED
    BY <1>3, <1>4, <1>5, <1>6 DEF m, n

LEMMA Beginning ==
    ASSUME NEW list, IsList(list), NEW n \in 0 .. Len(list)
    PROVE  /\ IsList(SubSeq(list, 1, n)) /\ Len(SubSeq(list, 1, n)) = n
           /\ \A k \in 1 .. n : SubSeq(list, 1, n)[k] = list[k]
  <1> DEFINE S == {list[k] : k \in DOMAIN list}
  <1>1. n \in Nat /\ Len(list) \in Nat /\ n <= Len(list)
        /\ DOMAIN list = 1 .. Len(list)
    BY ListFacts
  <1>2. \A i \in 1 .. n : list[i] \in S
    BY <1>1
  <1> HIDE DEF S
  <1>3. /\ SubSeq(list, 1, n) \in Seq(S)
        /\ Len(SubSeq(list, 1, n)) = IF 1 <= n THEN n - 1 + 1 ELSE 0
        /\ \A i \in 1 .. n - 1 + 1 : SubSeq(list, 1, n)[i] = list[1 + i - 1]
    BY <1>1, <1>2, SubSeqProperties
  <1>4. \A i \in 1 .. n : i \in 1 .. n - 1 + 1 /\ 1 + i - 1 = i
    BY <1>1
  <1>5. Len(SubSeq(list, 1, n)) = n
    BY <1>1, <1>3
  <1> QED
    BY <1>3, <1>4, <1>5, IsListOf

LEMMA WholeList ==
    ASSUME NEW list, IsList(list), NEW n, n = Len(list)
    PROVE  SubSeq(list, 1, n) = list
  <1> DEFINE a == SubSeq(list, 1, n)
  <1>1. n \in Nat /\ n \in 0 .. Len(list)
    BY ListFacts
  <1>2. IsList(a) /\ Len(a) = n /\ \A k \in 1 .. n : a[k] = list[k]
    BY <1>1, Beginning
  <1> HIDE DEF a
  <1>3. a = list
    BY <1>2, SameList
  <1> QED
    BY <1>3 DEF a

(* A beginning is the one before it and one element more.                 *)
LEMMA NextBeginning ==
    ASSUME NEW list, IsList(list), NEW n \in Nat, n < Len(list)
    PROVE  SubSeq(list, 1, n + 1) = Append(SubSeq(list, 1, n), list[n + 1])
  <1> DEFINE a == SubSeq(list, 1, n)
             b == SubSeq(list, 1, n + 1)
             x == list[n + 1]
  <1>1. Len(list) \in Nat /\ n \in 0 .. Len(list) /\ n + 1 \in 0 .. Len(list)
    BY ListFacts
  <1>2. IsList(a) /\ Len(a) = n /\ \A k \in 1 .. n : a[k] = list[k]
    BY <1>1, Beginning
  <1>3. IsList(b) /\ Len(b) = n + 1 /\ \A k \in 1 .. n + 1 : b[k] = list[k]
    BY <1>1, Beginning
  <1> HIDE DEF a, b
  <1>4. /\ IsList(Append(a, x)) /\ Len(Append(a, x)) = n + 1
        /\ \A k \in 1 .. n : Append(a, x)[k] = a[k]
        /\ Append(a, x)[n + 1] = x
    BY <1>2, AppendedList
  <1>5. \A k \in 1 .. n + 1 : b[k] = Append(a, x)[k]
    BY <1>2, <1>3, <1>4
  <1>6. b = Append(a, x)
    BY <1>3, <1>4, <1>5, SameList
  <1> QED
    BY <1>6 DEF a, b

LEMMA LastAppended ==
    ASSUME NEW r, IsList(r), NEW x
    PROVE  /\ IsList(Append(r, x)) /\ Append(r, x) # <<>>
           /\ Last(Append(r, x)) = x /\ Front(Append(r, x)) = r
  <1> DEFINE n == Len(r)
             s == Append(r, x)
  <1>1. n \in Nat
    BY ListFacts
  <1>2. /\ IsList(s) /\ Len(s) = n + 1
        /\ \A k \in 1 .. n : s[k] = r[k]
        /\ s[n + 1] = x
    <2> HIDE DEF n
    <2>1. n = Len(r)
      BY DEF n
    <2> QED
      BY <2>1, AppendedList
  <1> HIDE DEF s
  <1>3. n \in 0 .. Len(s) /\ Len(s) - 1 = n
    BY <1>1, <1>2
  <1>4. /\ IsList(SubSeq(s, 1, n)) /\ Len(SubSeq(s, 1, n)) = n
        /\ \A k \in 1 .. n : SubSeq(s, 1, n)[k] = s[k]
    BY <1>2, <1>3, Beginning
  <1>5. SubSeq(s, 1, n) = r
    <2>1. \A k \in 1 .. n : SubSeq(s, 1, n)[k] = r[k]
      BY <1>2, <1>4
    <2> QED
      BY <1>4, <2>1, SameList
  <1>6. s # <<>>
    BY <1>1, <1>2
  <1>7. Front(s) = r /\ Last(s) = x
    BY <1>2, <1>3, <1>5 DEF Front, Last
  <1> QED
    BY <1>2, <1>6, <1>7 DEF s

LEMMA FrontAndLast ==
    ASSUME NEW r, IsList(r), r # <<>>
    PROVE  /\ IsList(Front(r)) /\ Append(Front(r), Last(r)) = r
           /\ Len(Front(r)) + 1 = Len(r)
           /\ \A k \in 1 .. Len(Front(r)) : Front(r)[k] = r[k]
  <1> DEFINE n == Len(r) - 1
  <1>1. Len(r) \in Nat /\ n \in Nat /\ n < Len(r) /\ n + 1 = Len(r)
        /\ n \in 0 .. Len(r)
    BY ListFacts
  <1>2. Front(r) = SubSeq(r, 1, n) /\ Last(r) = r[n + 1]
    BY <1>1 DEF Front, Last
  <1> HIDE DEF n
  <1>3. SubSeq(r, 1, n + 1) = r
    BY <1>1, WholeList
  <1>4. SubSeq(r, 1, n + 1) = Append(SubSeq(r, 1, n), r[n + 1])
    BY <1>1, NextBeginning
  <1> QED
    BY <1>1, <1>2, <1>3, <1>4, Beginning

LEMMA EmptyList == IsList(<<>>) /\ Len(<<>>) = 0
  <1>1. <<>> \in Seq({})
    BY EmptySeq
  <1> QED
    BY <1>1, IsListOf, EmptySeq

LEMMA JoinedWithNothing ==
    ASSUME NEW a, IsList(a)
    PROVE  a \o <<>> = a /\ <<>> \o a = a
  <1> DEFINE S == {a[k] : k \in DOMAIN a}
  <1>1. a \in Seq(S)
    BY DEF IsList
  <1> HIDE DEF S
  <1> QED
    BY <1>1, ConcatEmptySeq

LEMMA JoinedTwice ==
    ASSUME NEW a, IsList(a), NEW b, IsList(b), NEW c, IsList(c)
    PROVE  (a \o b) \o c = a \o (b \o c)
  <1> DEFINE S == {a[k] : k \in DOMAIN a} \cup {b[k] : k \in DOMAIN b}
                  \cup {c[k] : k \in DOMAIN c}
  <1>1. a \in Seq({a[k] : k \in DOMAIN a}) /\ b \in Seq({b[k] : k \in DOMAIN b})
        /\ c \in Seq({c[k] : k \in DOMAIN c})
    BY DEF IsList
  <1>2. a \in Seq(S) /\ b \in Seq(S) /\ c \in Seq(S)
    BY <1>1
  <1> HIDE DEF S
  <1> QED
    BY <1>2, ConcatAssociative

LEMMA AppendedToJoined ==
    ASSUME NEW a, IsList(a), NEW b, IsList(b), NEW x
    PROVE  a \o Append(b, x) = Append(a \o b, x)
  <1> DEFINE S == {a[k] : k \in DOMAIN a} \cup {b[k] : k \in DOMAIN b} \cup {x}
  <1>1. a \in Seq({a[k] : k \in DOMAIN a}) /\ b \in Seq({b[k] : k \in DOMAIN b})
    BY DEF IsList
  <1>2. a \in Seq(S) /\ b \in Seq(S) /\ x \in S
    BY <1>1
  <1> HIDE DEF S
  <1>3. Append(b, x) = b \o <<x>> /\ Append(a \o b, x) = (a \o b) \o <<x>>
        /\ <<x>> \in Seq(S)
    BY <1>2, ConcatProperties
  <1> QED
    BY <1>2, <1>3, ConcatAssociative

-----------------------------------------------------------------------------
(* Live view: the parser                                                   *)

(* A turn of WithoutCR, of Parts, and of both at once.                     *)
ReturnTurn(s, x) ==
    IF x = LF /\ s # <<>> /\ Last(s) = CR
    THEN Append(Front(s), LF) ELSE Append(s, x)
PartTurn(s, x) ==
    IF x = LF /\ s.rest # <<>> /\ Last(s.rest) = LF
    THEN [parts |-> Append(s.parts, Front(s.rest)), rest |-> <<>>]
    ELSE [s EXCEPT !.rest = Append(@, x)]

NoReturn(rest) == IF rest # <<>> /\ Last(rest) = CR THEN Front(rest) ELSE rest
Broken(parts, rest) ==
    IF rest # <<>> /\ Last(rest) = LF
    THEN [parts |-> Append(parts, Front(rest)), rest |-> <<>>]
    ELSE [parts |-> parts, rest |-> Append(rest, LF)]
Fed(s, x) ==
    IF x = LF THEN Broken(s.parts, NoReturn(s.rest))
    ELSE [parts |-> s.parts, rest |-> Append(s.rest, x)]

AtFirst == [parts |-> <<>>, rest |-> <<>>]
IsSplit(s) == s = [parts |-> s.parts, rest |-> s.rest]
              /\ IsList(s.parts) /\ IsList(s.rest)

LEMMA PartTurnIs ==
    ASSUME NEW ps, NEW r, NEW x, NEW s, s = [parts |-> ps, rest |-> r]
    PROVE  PartTurn(s, x) = IF x = LF /\ r # <<>> /\ Last(r) = LF
                            THEN [parts |-> Append(ps, Front(r)), rest |-> <<>>]
                            ELSE [parts |-> ps, rest |-> Append(r, x)]
  <1>1. s.parts = ps /\ s.rest = r
    OBVIOUS
  <1>2. [s EXCEPT !.rest = Append(@, x)] = [parts |-> ps, rest |-> Append(r, x)]
    <2> DEFINE a == Append(r, x)
    <2>1. [s EXCEPT !.rest = Append(@, x)] = [s EXCEPT !.rest = a]
      BY <1>1
    <2>2. \A b : [s EXCEPT !.rest = b] = [parts |-> ps, rest |-> b]
      OBVIOUS
    <2> QED
      BY <2>1, <2>2
  <1> QED
    BY <1>1, <1>2 DEF PartTurn

LEMMA SplitOf ==
    ASSUME NEW ps, IsList(ps), NEW r, IsList(r), NEW s, s = [parts |-> ps, rest |-> r]
    PROVE  IsSplit(s) /\ s.parts = ps /\ s.rest = r
    BY DEF IsSplit

(* What is left ends with the text.                                        *)
EndsAs(t, n, s) ==
    IsSplit(s) /\ (s.rest # <<>> => n # 0 /\ Last(s.rest) = t[n])

Splits == INSTANCE FoldFacts
    WITH Op <- LAMBDA p, s, x : PartTurn(s, x),
         Value <- LAMBDA p, i : p[i], Pick <- LAMBDA s : Max(s),
         Inv <- LAMBDA p, n, s : EndsAs(p, n, s)

LEMMA PartsFold ==
    ASSUME NEW t, IsList(t), NEW n, n = Len(t)
    PROVE  Parts(t) = Splits!Fold(t, AtFirst, 1 .. n)
  <1>1. DOMAIN t = 1 .. n
    BY ListFacts
  <1> QED
    BY <1>1 DEF Parts, AtFirst, PartTurn, FoldLeft, MapThenFoldSet, Splits!Fold,
                Splits!MapThenFoldSet

LEMMA PartsAre ==
    ASSUME NEW t, IsList(t)
    PROVE  /\ IsSplit(Parts(t))
           /\ Parts(t).rest # <<>> => t # <<>> /\ Last(Parts(t).rest) = Last(t)
  <1> DEFINE n == Len(t)
  <1>1. n \in Nat /\ n = Len(t)
    BY ListFacts
  <1> HIDE DEF n
  <1>2. Splits!Picks(1 .. n) /\ Splits!LastPicked(n)
    BY <1>1, LastOfPositions DEF Splits!Picks, Splits!LastPicked
  <1>3. EndsAs(t, 0, AtFirst)
    BY EmptyList DEF IsSplit, AtFirst, EndsAs
  <1>4. ASSUME NEW k \in 1 .. n, NEW s, EndsAs(t, k - 1, s)
        PROVE  EndsAs(t, k, PartTurn(s, t[k]))
    <2> DEFINE x == t[k]
               ps == s.parts
               r == s.rest
               u == PartTurn(s, x)
    <2>1. IsList(ps) /\ IsList(r) /\ s = [parts |-> ps, rest |-> r] /\ k # 0
      BY <1>1, <1>4 DEF IsSplit, EndsAs
    <2>2. u = IF x = LF /\ r # <<>> /\ Last(r) = LF
              THEN [parts |-> Append(ps, Front(r)), rest |-> <<>>]
              ELSE [parts |-> ps, rest |-> Append(r, x)]
      <3> HIDE DEF x, ps, r
      <3> QED
        BY <2>1, PartTurnIs
    <2>3. IsList(Append(ps, Front(r))) /\ IsList(<<>>)
          /\ IsList(Append(r, x)) /\ Last(Append(r, x)) = x
      BY <2>1, AppendedList, EmptyList, LastAppended
    <2>4. IsSplit(u) /\ (u.rest # <<>> => Last(u.rest) = x)
      <3> HIDE DEF x, ps, r, u
      <3> QED
        BY <2>1, <2>2, <2>3, SplitOf
    <2> QED
      BY <2>1, <2>4 DEF EndsAs
  <1>5. EndsAs(t, n, Splits!Fold(t, AtFirst, 1 .. n))
    BY <1>1, <1>2, <1>3, <1>4, Splits!ListKeeps
  <1>6. n # 0 => t # <<>>
    BY <1>1, EmptyList
  <1>7. Parts(t) = Splits!Fold(t, AtFirst, 1 .. n)
    BY <1>1, PartsFold
  <1> QED
    BY <1>1, <1>5, <1>6, <1>7 DEF Last, EndsAs

LEMMA PartsOfMore ==
    ASSUME NEW t, IsList(t), NEW x
    PROVE  Parts(Append(t, x)) = PartTurn(Parts(t), x)
  <1> DEFINE n == Len(t)
             u == Append(t, x)
             m == n + 1
  <1>1. n \in Nat /\ m \in Nat /\ m # 0 /\ m - 1 = n /\ n = Len(t)
    BY ListFacts
  <1>2. /\ IsList(u) /\ Len(u) = m
        /\ \A k \in 1 .. n : u[k] = t[k]
        /\ u[m] = x
    <2> HIDE DEF n
    <2> QED
      BY <1>1, AppendedList
  <1> HIDE DEF n, u, m
  <1>3. /\ Splits!Picks(1 .. n) /\ Splits!LastPicked(n)
        /\ Splits!Picks(1 .. m) /\ Splits!LastPicked(m)
    BY <1>1, LastOfPositions DEF Splits!Picks, Splits!LastPicked
  <1>4. Splits!Fold(u, AtFirst, 1 .. m)
          = PartTurn(Splits!Fold(u, AtFirst, 1 .. n), u[m])
    BY <1>1, <1>3, Splits!ListEquation
  <1>5. Splits!Fold(u, AtFirst, 1 .. n) = Splits!Fold(t, AtFirst, 1 .. n)
    <2>1. \A k \in 1 .. n : \A y : PartTurn(y, u[k]) = PartTurn(y, t[k])
      BY <1>2
    <2> QED
      BY <1>1, <1>3, <2>1, Splits!ListSame
  <1>6. Parts(u) = Splits!Fold(u, AtFirst, 1 .. m)
    BY <1>2, PartsFold
  <1>7. Parts(t) = Splits!Fold(t, AtFirst, 1 .. n)
    BY <1>1, PartsFold
  <1> QED
    BY <1>2, <1>4, <1>5, <1>6, <1>7 DEF u

(* One pass over the text does what the two do.                            *)
Nth(list, k) == list[k]
Feeds == INSTANCE FoldFacts
    WITH Op <- LAMBDA p, s, x : Fed(s, x),
         Value <- LAMBDA p, i : Nth(p, i), Pick <- LAMBDA s : Max(s),
         Inv <- LAMBDA p, n, s : IsSplit(s)
FedAfter(t, s, n) == Feeds!Fold(t, s, 1 .. n)

LEMMA FedNext ==
    ASSUME NEW t, NEW s, NEW n \in Nat
    PROVE  FedAfter(t, s, n) = IF n = 0 THEN s ELSE Fed(FedAfter(t, s, n - 1), t[n])
  <1>1. Feeds!Picks(1 .. n) /\ Feeds!LastPicked(n)
    BY LastOfPositions DEF Feeds!Picks, Feeds!LastPicked
  <1> QED
    BY <1>1, Feeds!ListEquation DEF FedAfter, Nth

LEMMA BrokenIsSplit ==
    ASSUME NEW parts, IsList(parts), NEW rest, IsList(rest)
    PROVE  IsSplit(Broken(parts, rest))
  <1>1. IsList(Append(parts, Front(rest))) /\ IsList(<<>>) /\ IsList(Append(rest, LF))
    BY AppendedList, EmptyList
  <1> QED
    BY <1>1 DEF IsSplit, Broken

LEMMA NoReturnIsList ==
    ASSUME NEW rest, IsList(rest)
    PROVE  IsList(NoReturn(rest))
    BY FrontAndLast DEF NoReturn

LEMMA FedIsSplit ==
    ASSUME NEW s, IsSplit(s), NEW x
    PROVE  IsSplit(Fed(s, x))
  <1>1. IsList(s.parts) /\ IsList(s.rest) /\ IsList(NoReturn(s.rest))
    BY NoReturnIsList DEF IsSplit
  <1>2. CASE x = LF
    <2>1. IsSplit(Broken(s.parts, NoReturn(s.rest)))
      BY <1>1, BrokenIsSplit
    <2> QED
      BY <1>2, <2>1 DEF Fed
  <1>3. CASE x # LF
    <2>1. IsList(Append(s.rest, x))
      BY <1>1, AppendedList
    <2> QED
      BY <1>1, <1>3, <2>1 DEF Fed, IsSplit
  <1> QED
    BY <1>2, <1>3

LEMMA FedAfterIsSplit ==
    ASSUME NEW t, NEW s, IsSplit(s), NEW n \in Nat
    PROVE  IsSplit(FedAfter(t, s, n))
  <1>1. Feeds!Picks(1 .. n) /\ Feeds!LastPicked(n)
    BY LastOfPositions DEF Feeds!Picks, Feeds!LastPicked
  <1>2. \A k \in 1 .. n : \A y : IsSplit(y) => IsSplit(Fed(y, Nth(t, k)))
    BY FedIsSplit
  <1>3. IsSplit(Feeds!Fold(t, s, 1 .. n))
    BY <1>1, <1>2, Feeds!ListKeeps
  <1> QED
    BY <1>3 DEF FedAfter

Returns == INSTANCE FoldFacts
    WITH Op <- LAMBDA p, w, x : ReturnTurn(w, x),
         Value <- LAMBDA p, i : p[i], Pick <- LAMBDA s : Max(s),
         Inv <- LAMBDA p, n, w : IsList(w) /\ Parts(w) = FedAfter(p, AtFirst, n)

LEMMA ReturnsFold ==
    ASSUME NEW t, IsList(t), NEW n, n = Len(t)
    PROVE  WithoutCR(t) = Returns!Fold(t, <<>>, 1 .. n)
  <1>1. DOMAIN t = 1 .. n
    BY ListFacts
  <1> QED
    BY <1>1 DEF WithoutCR, ReturnTurn, FoldLeft, MapThenFoldSet, Returns!Fold,
                Returns!MapThenFoldSet

LEMMA ReturnTurnFeeds ==
    ASSUME NEW w, IsList(w), NEW x
    PROVE  /\ IsList(ReturnTurn(w, x))
           /\ Parts(ReturnTurn(w, x)) = Fed(Parts(w), x)
  <1> DEFINE ps == Parts(w).parts
             r == Parts(w).rest
  <1>1. /\ IsList(ps) /\ IsList(r) /\ Parts(w) = [parts |-> ps, rest |-> r]
        /\ r # <<>> => w # <<>> /\ Last(r) = Last(w)
    BY PartsAre DEF IsSplit
  <1> HIDE DEF ps, r
  <1>2. CASE x # LF
    <2>1. ReturnTurn(w, x) = Append(w, x)
      BY <1>2 DEF ReturnTurn
    <2>2. PartTurn(Parts(w), x) = [parts |-> ps, rest |-> Append(r, x)]
      BY <1>1, <1>2, PartTurnIs
    <2>3. Fed(Parts(w), x) = [parts |-> ps, rest |-> Append(r, x)]
      BY <1>1, <1>2 DEF Fed
    <2>4. Parts(Append(w, x)) = PartTurn(Parts(w), x) /\ IsList(Append(w, x))
      BY PartsOfMore, AppendedList
    <2> QED
      BY <2>1, <2>2, <2>3, <2>4
  <1>3. CASE x = LF /\ w # <<>> /\ Last(w) = CR
    <2> DEFINE v == Front(w)
               qs == Parts(v).parts
               q == Parts(v).rest
    <2>1. IsList(v) /\ w = Append(v, CR)
      BY <1>3, FrontAndLast
    <2>2. IsList(q) /\ Parts(v) = [parts |-> qs, rest |-> q]
      BY <2>1, PartsAre DEF IsSplit
    <2>3. ReturnTurn(w, x) = Append(v, LF)
      BY <1>3 DEF ReturnTurn
    <2> HIDE DEF v, qs, q
    <2>4. CR # LF
      BY DEF CR, LF
    <2>5. Parts(w) = [parts |-> qs, rest |-> Append(q, CR)]
      <3>1. Parts(w) = PartTurn(Parts(v), CR)
        BY <2>1, PartsOfMore
      <3> QED
        BY <2>2, <2>4, <3>1, PartTurnIs
    <2>6. NoReturn(Append(q, CR)) = q
      BY <2>2, LastAppended DEF NoReturn
    <2>7. Fed(Parts(w), x) = Broken(qs, q)
      BY <1>3, <2>5, <2>6 DEF Fed
    <2>8. Parts(Append(v, LF)) = PartTurn(Parts(v), LF)
      BY <2>1, PartsOfMore
    <2>9. PartTurn(Parts(v), LF) = Broken(qs, q)
      BY <2>2, PartTurnIs DEF Broken
    <2>10. IsList(Append(v, LF))
      BY <2>1, AppendedList
    <2> QED
      BY <2>3, <2>7, <2>8, <2>9, <2>10
  <1>4. CASE x = LF /\ ~(w # <<>> /\ Last(w) = CR)
    <2>1. ReturnTurn(w, x) = Append(w, LF)
      BY <1>4 DEF ReturnTurn
    <2>2. NoReturn(r) = r
      BY <1>1, <1>4 DEF NoReturn
    <2>3. Fed(Parts(w), x) = Broken(ps, r)
      BY <1>1, <1>4, <2>2 DEF Fed
    <2>4. PartTurn(Parts(w), LF) = Broken(ps, r)
      BY <1>1, PartTurnIs DEF Broken
    <2>5. Parts(Append(w, LF)) = PartTurn(Parts(w), LF) /\ IsList(Append(w, LF))
      BY PartsOfMore, AppendedList
    <2> QED
      BY <2>1, <2>3, <2>4, <2>5
  <1> QED
    BY <1>2, <1>3, <1>4

LEMMA PartsAreFed ==
    ASSUME NEW t, IsList(t), NEW n, n = Len(t)
    PROVE  Parts(WithoutCR(t)) = FedAfter(t, AtFirst, n)
  <1>1. n \in Nat
    BY ListFacts
  <1>2. Returns!Picks(1 .. n) /\ Returns!LastPicked(n)
    BY <1>1, LastOfPositions DEF Returns!Picks, Returns!LastPicked
  <1>3. IsList(<<>>) /\ Parts(<<>>) = FedAfter(t, AtFirst, 0)
    <2>1. Splits!Picks(1 .. 0) /\ Splits!LastPicked(0)
      BY LastOfPositions DEF Splits!Picks, Splits!LastPicked
    <2>2. Splits!Fold(<<>>, AtFirst, 1 .. 0) = AtFirst
      BY <2>1, Splits!ListEquation
    <2>3. Parts(<<>>) = AtFirst
      BY <2>2, EmptyList, PartsFold
    <2> QED
      BY <2>3, EmptyList, FedNext
  <1>4. ASSUME NEW k \in 1 .. n, NEW w, IsList(w), Parts(w) = FedAfter(t, AtFirst, k - 1)
        PROVE  /\ IsList(ReturnTurn(w, t[k]))
               /\ Parts(ReturnTurn(w, t[k])) = FedAfter(t, AtFirst, k)
    <2>1. FedAfter(t, AtFirst, k) = Fed(FedAfter(t, AtFirst, k - 1), t[k])
      BY <1>1, FedNext
    <2> QED
      BY <1>4, <2>1, ReturnTurnFeeds
  <1>5. Parts(Returns!Fold(t, <<>>, 1 .. n)) = FedAfter(t, AtFirst, n)
    BY <1>1, <1>2, <1>3, <1>4, Returns!ListKeeps
  <1> QED
    BY <1>5, ReturnsFold

-----------------------------------------------------------------------------
(* A text without two returns in a row; what is left of one: no line feed   *)
(* in it ends a line that a return or another line feed ended.              *)
OneReturn(t) == \A k \in 2 .. Len(t) : t[k] = CR => t[k - 1] # CR
Settled(r) == \A k \in 2 .. Len(r) : r[k] = LF => r[k - 1] # CR /\ r[k - 1] # LF

LEMMA EndsDiffer == CR # LF
    BY DEF CR, LF

LEMMA SettledMore ==
    ASSUME NEW r, IsList(r), Settled(r), OneReturn(r), NEW x,
           x = LF => r = <<>> \/ (Last(r) # CR /\ Last(r) # LF),
           x = CR => r = <<>> \/ Last(r) # CR
    PROVE  Settled(Append(r, x)) /\ OneReturn(Append(r, x))
  <1> DEFINE n == Len(r)
             s == Append(r, x)
  <1>1. n \in Nat /\ n = Len(r) /\ (r # <<>> => n # 0)
    BY ListFacts
  <1>2. r = <<>> => n = 0
    BY EmptyList
  <1>3. Last(r) = r[n]
    BY DEF Last
  <1> HIDE DEF n
  <1>4. /\ Len(s) = n + 1
        /\ \A k \in 1 .. n : s[k] = r[k]
        /\ s[n + 1] = x
    BY <1>1, AppendedList
  <1> HIDE DEF s
  <1>5. ASSUME NEW k \in 2 .. Len(s)
        PROVE  /\ s[k] = LF => s[k - 1] # CR /\ s[k - 1] # LF
               /\ s[k] = CR => s[k - 1] # CR
    <2>1. k \in 2 .. n + 1 /\ k - 1 \in 1 .. n /\ s[k - 1] = r[k - 1]
      BY <1>1, <1>4, <1>5
    <2>2. CASE k \in 2 .. n
      <3>1. s[k] = r[k]
        BY <1>1, <1>4, <2>2
      <3> QED
        BY <1>1, <2>1, <2>2, <3>1 DEF Settled, OneReturn
    <2>3. CASE k = n + 1
      <3>1. s[k] = x /\ k - 1 = n /\ r # <<>>
        BY <1>1, <1>2, <1>4, <2>1, <2>3
      <3> QED
        BY <1>3, <2>1, <3>1
    <2> QED
      BY <1>1, <2>1, <2>2, <2>3
  <1> QED
    BY <1>5 DEF Settled, OneReturn, s

LEMMA SettledLess ==
    ASSUME NEW r, IsList(r), Settled(r), OneReturn(r)
    PROVE  /\ IsList(NoReturn(r)) /\ Settled(NoReturn(r)) /\ OneReturn(NoReturn(r))
           /\ NoReturn(r) = <<>> \/ Last(NoReturn(r)) # CR
  <1>1. CASE r # <<>> /\ Last(r) = CR
    <2> DEFINE n == Len(r) - 1
               v == Front(r)
    <2>1. Len(r) \in Nat /\ n \in Nat /\ n + 1 = Len(r)
      BY <1>1, ListFacts
    <2>2. IsList(v) /\ Len(v) + 1 = n + 1 /\ \A k \in 1 .. Len(v) : v[k] = r[k]
      BY <1>1, <2>1, FrontAndLast
    <2>3. Len(v) = n /\ (v # <<>> => n # 0) /\ Last(v) = v[n] /\ r[n + 1] = CR
      <3>1. r[n + 1] = CR
        BY <1>1, <2>1 DEF Last
      <3> HIDE DEF n, v
      <3>2. Len(v) \in Nat /\ (v # <<>> => Len(v) # 0)
        BY <2>2, ListFacts
      <3> QED
        BY <2>1, <2>2, <3>1, <3>2 DEF Last
    <2>4. NoReturn(r) = v
      BY <1>1 DEF NoReturn
    <2> HIDE DEF n, v
    <2>5. Settled(v) /\ OneReturn(v)
      <3>1. \A k \in 2 .. n : k \in 2 .. n + 1 /\ v[k] = r[k] /\ v[k - 1] = r[k - 1]
        BY <2>1, <2>2, <2>3
      <3> QED
        BY <2>1, <2>3, <3>1 DEF Settled, OneReturn
    <2>6. v # <<>> => Last(v) # CR
      <3>1. n # 0 => n + 1 \in 2 .. n + 1 /\ n \in 1 .. n /\ (n + 1) - 1 = n
        BY <2>1
      <3> QED
        BY <2>1, <2>2, <2>3, <3>1 DEF OneReturn
    <2> QED
      BY <2>2, <2>4, <2>5, <2>6
  <1>2. CASE ~(r # <<>> /\ Last(r) = CR)
    BY <1>2 DEF NoReturn
  <1> QED
    BY <1>1, <1>2

(* What is left after the first n of a text.                               *)
Rests(t, n, s) ==
    /\ IsSplit(s) /\ Settled(s.rest) /\ OneReturn(s.rest)
    /\ s.rest # <<>> => n # 0 /\ Last(s.rest) = t[n]

LEMMA NothingRests == Settled(<<>>) /\ OneReturn(<<>>)
    BY EmptyList DEF Settled, OneReturn

LEMMA FedRests ==
    ASSUME NEW t, IsList(t), OneReturn(t), NEW k \in 1 .. Len(t), NEW s,
           Rests(t, k - 1, s)
    PROVE  Rests(t, k, Fed(s, t[k]))
  <1> DEFINE x == t[k]
             ps == s.parts
             r == s.rest
             w == NoReturn(r)
             u == Fed(s, x)
  <1>1. /\ IsSplit(s) /\ IsList(ps) /\ IsList(r) /\ Settled(r) /\ OneReturn(r)
        /\ r # <<>> => k - 1 # 0 /\ Last(r) = t[k - 1]
    BY DEF Rests, IsSplit
  <1>2. Len(t) \in Nat /\ k \in Nat /\ k # 0
    BY ListFacts
  <1>3. IsSplit(u)
    BY <1>1, FedIsSplit
  <1>4. IsList(w) /\ Settled(w) /\ OneReturn(w) /\ (w = <<>> \/ Last(w) # CR)
    BY <1>1, SettledLess
  <1>5. CASE x = LF
    <2>1. u = Broken(ps, w)
      BY <1>5 DEF Fed
    <2> HIDE DEF u, w, ps, r, x
    <2>2. CASE w # <<>> /\ Last(w) = LF
      <3>1. u.rest = <<>>
        BY <2>1, <2>2 DEF Broken
      <3>2. Rests(t, k, u)
        BY <1>3, <3>1, NothingRests DEF Rests
      <3> QED
        BY <3>2 DEF u, x
    <2>3. CASE w = <<>> \/ Last(w) # LF
      <3>1. u.rest = Append(w, LF)
        BY <2>1, <2>3 DEF Broken
      <3>2. Settled(Append(w, LF)) /\ OneReturn(Append(w, LF))
        BY <1>4, <2>3, EndsDiffer, SettledMore
      <3>3. Last(Append(w, LF)) = LF
        BY <1>4, LastAppended
      <3>4. Rests(t, k, u)
        BY <1>2, <1>3, <1>5, <3>1, <3>2, <3>3 DEF Rests, x
      <3> QED
        BY <3>4 DEF u, x
    <2> QED
      BY <2>2, <2>3
  <1>6. CASE x # LF
    <2>1. u.rest = Append(r, x)
      BY <1>6 DEF Fed
    <2>2. x = CR => r = <<>> \/ Last(r) # CR
      <3>1. SUFFICES ASSUME x = CR, r # <<>> PROVE Last(r) # CR
        OBVIOUS
      <3>2. k \in 2 .. Len(t)
        BY <1>1, <1>2, <3>1
      <3> QED
        BY <1>1, <3>1, <3>2 DEF OneReturn
    <2> HIDE DEF u, w, ps, r, x
    <2>3. Settled(Append(r, x)) /\ OneReturn(Append(r, x))
      BY <1>1, <1>6, <2>2, SettledMore
    <2>4. Last(Append(r, x)) = x
      BY <1>1, LastAppended
    <2>5. Rests(t, k, u)
      BY <1>2, <1>3, <2>1, <2>3, <2>4 DEF Rests, x
    <2> QED
      BY <2>5 DEF u, x
  <1> QED
    BY <1>5, <1>6

Leftovers == INSTANCE FoldFacts
    WITH Op <- LAMBDA p, s, x : Fed(s, x),
         Value <- LAMBDA p, i : p[i], Pick <- LAMBDA s : Max(s),
         Inv <- LAMBDA p, n, s : Rests(p, n, s)

LEMMA FedAfterRests ==
    ASSUME NEW t, IsList(t), OneReturn(t), NEW n, n = Len(t)
    PROVE  Rests(t, n, FedAfter(t, AtFirst, n))
  <1>1. n \in Nat
    BY ListFacts
  <1>2. Leftovers!Picks(1 .. n) /\ Leftovers!LastPicked(n)
    BY <1>1, LastOfPositions DEF Leftovers!Picks, Leftovers!LastPicked
  <1>3. Rests(t, 0, AtFirst)
    BY EmptyList, NothingRests DEF Rests, AtFirst, IsSplit
  <1>4. \A k \in 1 .. n : \A s : Rests(t, k - 1, s) => Rests(t, k, Fed(s, t[k]))
    BY FedRests
  <1>5. Rests(t, n, Leftovers!Fold(t, AtFirst, 1 .. n))
    BY <1>1, <1>2, <1>3, <1>4, Leftovers!ListKeeps
  <1>6. FedAfter(t, AtFirst, n) = Leftovers!Fold(t, AtFirst, 1 .. n)
    BY DEF FedAfter, Feeds!Fold, Leftovers!Fold, Feeds!MapThenFoldSet,
           Leftovers!MapThenFoldSet, Nth
  <1> QED
    BY <1>5, <1>6

(* What is left, fed again, is left.                                       *)
LEMMA SettledStays ==
    ASSUME NEW r, IsList(r), Settled(r), NEW m, m = Len(r)
    PROVE  FedAfter(r, AtFirst, m) = [parts |-> <<>>, rest |-> r]
  <1> DEFINE Left(n) == [parts |-> <<>>, rest |-> SubSeq(r, 1, n)]
             T == {n \in Nat : n <= m /\ FedAfter(r, AtFirst, n) # Left(n)}
  <1>1. m \in Nat
    BY ListFacts
  <1>2. ASSUME NEW n \in T, \A j \in T : n <= j PROVE FALSE
    <2>1. n \in Nat /\ n <= m /\ FedAfter(r, AtFirst, n) # Left(n)
      OBVIOUS
    <2>2. CASE n = 0
      <3>1. SubSeq(r, 1, 0) = <<>>
        <4>1. 1 \in Int /\ 0 \in Int /\ 0 < 1
          OBVIOUS
        <4> QED
          BY <4>1, SubSeqEmpty
      <3>2. FedAfter(r, AtFirst, 0) = AtFirst
        BY FedNext
      <3> QED
        BY <2>1, <2>2, <3>1, <3>2 DEF AtFirst
    <2>3. CASE n # 0
      <3> DEFINE j == n - 1
                 q == SubSeq(r, 1, j)
                 x == r[n]
      <3>1. j \in Nat /\ j <= m /\ ~(n <= j) /\ j + 1 = n /\ j < Len(r)
            /\ j \in 0 .. Len(r)
        BY <1>1, <2>1, <2>3
      <3>2. FedAfter(r, AtFirst, j) = [parts |-> <<>>, rest |-> q]
        <4> HIDE DEF j
        <4>1. j \notin T
          BY <1>2, <3>1
        <4> HIDE DEF Left
        <4>2. FedAfter(r, AtFirst, j) = Left(j)
          BY <3>1, <4>1
        <4> QED
          BY <4>2 DEF Left
      <3>3. FedAfter(r, AtFirst, n) = Fed([parts |-> <<>>, rest |-> q], x)
        BY <2>1, <2>3, <3>2, FedNext
      <3>4. SubSeq(r, 1, n) = Append(q, x)
        <4> HIDE DEF j
        <4>1. SubSeq(r, 1, j + 1) = Append(SubSeq(r, 1, j), r[j + 1])
          BY <3>1, NextBeginning
        <4> QED
          BY <3>1, <4>1
      <3>5. IsList(q) /\ Len(q) = j /\ \A k \in 1 .. j : q[k] = r[k]
        <4> HIDE DEF j
        <4> QED
          BY <3>1, Beginning
      <3>6. x = LF => q = <<>> \/ (Last(q) # CR /\ Last(q) # LF)
        <4>1. SUFFICES ASSUME x = LF, q # <<>> PROVE Last(q) # CR /\ Last(q) # LF
          OBVIOUS
        <4>2. j # 0
          BY <3>5, <4>1, ListFacts
        <4>3. n \in 2 .. Len(r) /\ j \in 1 .. j /\ Last(q) = r[n - 1]
          BY <1>1, <2>1, <3>1, <3>5, <4>2 DEF Last
        <4> QED
          BY <4>1, <4>3 DEF Settled
      <3> HIDE DEF q, x
      <3>7. Fed([parts |-> <<>>, rest |-> q], x) = [parts |-> <<>>, rest |-> Append(q, x)]
        <4>1. CASE x = LF
          <5>1. NoReturn(q) = q
            BY <3>6, <4>1 DEF NoReturn
          <5>2. Broken(<<>>, q) = [parts |-> <<>>, rest |-> Append(q, x)]
            BY <3>6, <4>1 DEF Broken
          <5> QED
            BY <4>1, <5>1, <5>2 DEF Fed
        <4>2. CASE x # LF
          BY <4>2 DEF Fed
        <4> QED
          BY <4>1, <4>2
      <3> QED
        BY <2>1, <3>3, <3>4, <3>7
    <2> QED
      BY <2>2, <2>3
  <1>3. T = {}
    <2> HIDE DEF T
    <2>1. T \in SUBSET Nat
      BY DEF T
    <2> QED
      BY <1>2, <2>1, FirstOf
  <1>4. FedAfter(r, AtFirst, m) = Left(m)
    BY <1>1, <1>3
  <1> QED
    BY <1>4, WholeList

-----------------------------------------------------------------------------
(* A text is fed as its beginning and then the rest.                       *)
LEMMA FedOnwards ==
    ASSUME NEW t, IsList(t), NEW c, IsList(c), NEW s,
           NEW n, n = Len(t), NEW m, m = Len(c)
    PROVE  FedAfter(t \o c, s, n + m) = FedAfter(c, FedAfter(t, s, n), m)
  <1> DEFINE u == t \o c
             i == n + m
  <1>1. n \in Nat /\ m \in Nat /\ i \in Nat /\ i = n + m /\ n <= i
    BY ListFacts
  <1>2. /\ \A k \in 1 .. n : u[k] = t[k]
        /\ \A k \in 1 .. m : u[n + k] = c[k]
    BY JoinedList
  <1> HIDE DEF u
  <1> HIDE DEF i
  <1>3. Feeds!Picks(1 .. i) /\ Feeds!LastPicked(i) /\ Feeds!Picks(1 .. n)
    BY <1>1, LastOfPositions DEF Feeds!Picks, Feeds!LastPicked
  <1>4. \A k \in 1 .. m : \A y : Fed(y, Nth(c, k)) = Fed(y, Nth(u, n + k))
    BY <1>2 DEF Nth
  <1>5. Feeds!Fold(u, s, 1 .. i) = Feeds!Fold(c, Feeds!Fold(u, s, 1 .. n), 1 .. m)
    <2>1. Feeds!Adds(n, m, i) /\ n \in Nat /\ m \in Nat
      BY <1>1 DEF Feeds!Adds
    <2> QED
      BY <2>1, <1>3, <1>4, Feeds!ListContinues
  <1>6. \A k \in 1 .. n : \A y : Fed(y, Nth(u, k)) = Fed(y, Nth(t, k))
    BY <1>2 DEF Nth
  <1>7. Feeds!Fold(u, s, 1 .. n) = Feeds!Fold(t, s, 1 .. n)
    BY <1>1, <1>3, <1>6, Feeds!ListSame
  <1> QED
    BY <1>5, <1>7 DEF u, i, FedAfter

(* The parts there were stand in front of the new ones.                    *)
Behind(parts, s) == [parts |-> parts \o s.parts, rest |-> s.rest]

LEMMA FedBehind ==
    ASSUME NEW ps, IsList(ps), NEW s, IsSplit(s), NEW x
    PROVE  Fed(Behind(ps, s), x) = Behind(ps, Fed(s, x))
  <1> DEFINE q == s.parts
             w == NoReturn(s.rest)
  <1>1. IsList(q) /\ Behind(ps, s).parts = ps \o q /\ Behind(ps, s).rest = s.rest
    BY DEF IsSplit, Behind
  <1>2. CASE x # LF
    BY <1>1, <1>2 DEF Fed, Behind
  <1>3. CASE x = LF
    <2>1. Fed(s, x) = Broken(q, w) /\ Fed(Behind(ps, s), x) = Broken(ps \o q, w)
      BY <1>1, <1>3 DEF Fed
    <2> HIDE DEF q, w
    <2> DEFINE f == Front(w)
    <2>2. Append(ps \o q, f) = ps \o Append(q, f)
      <3> HIDE DEF f
      <3>1. ps \o Append(q, f) = Append(ps \o q, f)
        BY <1>1, AppendedToJoined
      <3> QED
        BY <3>1
    <2>3. Broken(ps \o q, w) = Behind(ps, Broken(q, w))
      BY <2>2 DEF Broken, Behind
    <2> QED
      BY <2>1, <2>3
  <1> QED
    BY <1>2, <1>3

LEMMA FedAfterBehind ==
    ASSUME NEW ps, IsList(ps), NEW s, IsSplit(s), NEW c, NEW m \in Nat
    PROVE  FedAfter(c, Behind(ps, s), m) = Behind(ps, FedAfter(c, s, m))
  <1> DEFINE T == {n \in Nat : FedAfter(c, Behind(ps, s), n) # Behind(ps, FedAfter(c, s, n))}
  <1>2. ASSUME NEW n \in T, \A j \in T : n <= j PROVE FALSE
    <2>1. n \in Nat /\ FedAfter(c, Behind(ps, s), n) # Behind(ps, FedAfter(c, s, n))
      OBVIOUS
    <2>2. CASE n = 0
      BY <2>1, <2>2, FedNext
    <2>3. CASE n # 0
      <3> DEFINE j == n - 1
      <3>1. j \in Nat /\ ~(n <= j)
        BY <2>1, <2>3
      <3>2. /\ FedAfter(c, Behind(ps, s), n) = Fed(FedAfter(c, Behind(ps, s), j), c[n])
            /\ FedAfter(c, s, n) = Fed(FedAfter(c, s, j), c[n])
        BY <2>1, <2>3, FedNext
      <3> HIDE DEF j
      <3>3. FedAfter(c, Behind(ps, s), j) = Behind(ps, FedAfter(c, s, j))
        BY <1>2, <3>1
      <3>4. IsSplit(FedAfter(c, s, j))
        BY <3>1, FedAfterIsSplit
      <3> QED
        BY <2>1, <3>2, <3>3, <3>4, FedBehind
    <2> QED
      BY <2>2, <2>3
  <1>3. T = {}
    <2> HIDE DEF T
    <2>1. T \in SUBSET Nat
      BY DEF T
    <2> QED
      BY <1>2, <2>1, FirstOf
  <1> QED
    BY <1>3

(* A text cut in two: what is left of the first piece is enough to go on.  *)
Machine(t) == FedAfter(t, AtFirst, Len(t))

LEMMA CutAnywhere ==
    ASSUME NEW t, IsList(t), OneReturn(t), NEW c, IsList(c)
    PROVE  /\ IsSplit(Machine(t)) /\ IsList(Machine(t).rest \o c)
           /\ IsSplit(Machine(Machine(t).rest \o c))
           /\ Machine(t \o c) = Behind(Machine(t).parts, Machine(Machine(t).rest \o c))
  <1> DEFINE n == Len(t)
             m == Len(c)
             s == FedAfter(t, AtFirst, n)
             ps == s.parts
             r == s.rest
             i == Len(r)
             left == [parts |-> <<>>, rest |-> r]
             u == FedAfter(c, left, m)
  <1>1. n \in Nat /\ m \in Nat /\ n = Len(t) /\ m = Len(c)
    BY ListFacts
  <1>2. Rests(t, n, s)
    <2> HIDE DEF n
    <2> QED
      BY <1>1, FedAfterRests
  <1>3. IsSplit(s) /\ IsList(ps) /\ IsList(r) /\ Settled(r)
        /\ s = [parts |-> ps, rest |-> r]
    BY <1>2 DEF Rests, IsSplit
  <1>4. i \in Nat /\ i = Len(r)
    BY <1>3, ListFacts
  <1>5. Machine(t) = s
    BY DEF Machine
  <1> HIDE DEF n, m, s, ps, r, i
  <1>6. Len(t \o c) = n + m /\ Len(r \o c) = i + m /\ IsList(r \o c)
    BY <1>1, <1>3, <1>4, JoinedList
  <1>7. FedAfter(r, AtFirst, i) = left
    BY <1>3, <1>4, SettledStays
  <1>8. Machine(r \o c) = u
    <2>1. FedAfter(r \o c, AtFirst, i + m) = FedAfter(c, FedAfter(r, AtFirst, i), m)
      <3>1. /\ IsList(r) /\ IsList(c) /\ i = Len(r) /\ m = Len(c)
        BY <1>1, <1>3, <1>4
      <3> HIDE DEF u, left
      <3>2. \A q : FedAfter(r \o c, q, i + m) = FedAfter(c, FedAfter(r, q, i), m)
        BY <3>1, FedOnwards
      <3> QED
        BY <3>2, Zenon
    <2> QED
      BY <1>6, <1>7, <2>1 DEF Machine
  <1>9. Machine(t \o c) = FedAfter(c, s, m)
    <2>1. FedAfter(t \o c, AtFirst, n + m) = FedAfter(c, FedAfter(t, AtFirst, n), m)
      BY <1>1, FedOnwards
    <2> QED
      BY <1>6, <2>1 DEF Machine, s
  <1>10. IsSplit(left) /\ s = Behind(ps, left)
    <2>1. ps \o <<>> = ps /\ IsList(<<>>)
      BY <1>3, JoinedWithNothing, EmptyList
    <2> QED
      BY <1>3, <2>1 DEF Behind, IsSplit
  <1> HIDE DEF left
  <1>11. FedAfter(c, s, m) = Behind(ps, u)
    BY <1>1, <1>3, <1>10, FedAfterBehind
  <1>12. IsSplit(u)
    BY <1>1, <1>10, FedAfterIsSplit
  <1> HIDE DEF u
  <1>13. Machine(t).rest = r /\ Machine(t).parts = ps
    BY <1>5 DEF r, ps
  <1> QED
    BY <1>3, <1>5, <1>6, <1>8, <1>9, <1>11, <1>12, <1>13

-----------------------------------------------------------------------------
(* The events of a list, and those of two lists joined.                    *)
EventTurn(s, e) == IF e = NotAnEvent THEN s ELSE Append(s, e)
EventsTold == INSTANCE FoldFacts
    WITH Op <- LAMBDA p, s, e : EventTurn(s, e),
         Value <- LAMBDA p, i : Nth(p, i), Pick <- LAMBDA s : Max(s),
         Inv <- LAMBDA p, n, s : IsList(s)
ToldAfter(list, first, n) == EventsTold!Fold(list, first, 1 .. n)

LEMMA OnlyEventsFold ==
    ASSUME NEW list, IsList(list), NEW n, n = Len(list)
    PROVE  OnlyEvents(list) = ToldAfter(list, <<>>, n)
  <1>1. DOMAIN list = 1 .. n
    BY ListFacts
  <1> QED
    BY <1>1 DEF OnlyEvents, EventTurn, ToldAfter, FoldLeft, MapThenFoldSet, EventsTold!Fold,
                EventsTold!MapThenFoldSet, Nth

LEMMA ToldNext ==
    ASSUME NEW list, NEW first, NEW n \in Nat
    PROVE  ToldAfter(list, first, n)
             = IF n = 0 THEN first ELSE EventTurn(ToldAfter(list, first, n - 1), list[n])
  <1>1. EventsTold!Picks(1 .. n) /\ EventsTold!LastPicked(n)
    BY LastOfPositions DEF EventsTold!Picks, EventsTold!LastPicked
  <1> QED
    BY <1>1, EventsTold!ListEquation DEF ToldAfter, Nth

LEMMA ToldIsList ==
    ASSUME NEW list, NEW first, IsList(first), NEW n \in Nat
    PROVE  IsList(ToldAfter(list, first, n))
  <1>1. EventsTold!Picks(1 .. n) /\ EventsTold!LastPicked(n)
    BY LastOfPositions DEF EventsTold!Picks, EventsTold!LastPicked
  <1>2. \A k \in 1 .. n : \A y : IsList(y) => IsList(EventTurn(y, Nth(list, k)))
    BY AppendedList DEF EventTurn
  <1>3. IsList(EventsTold!Fold(list, first, 1 .. n))
    BY <1>1, <1>2, EventsTold!ListKeeps
  <1> QED
    BY <1>3 DEF ToldAfter

LEMMA ToldBehind ==
    ASSUME NEW list, NEW first, IsList(first), NEW m \in Nat
    PROVE  ToldAfter(list, first, m) = first \o ToldAfter(list, <<>>, m)
  <1> DEFINE T == {n \in Nat : ToldAfter(list, first, n)
                                 # first \o ToldAfter(list, <<>>, n)}
  <1>2. ASSUME NEW n \in T, \A j \in T : n <= j PROVE FALSE
    <2>1. n \in Nat /\ ToldAfter(list, first, n) # first \o ToldAfter(list, <<>>, n)
      OBVIOUS
    <2>2. CASE n = 0
      <3>1. ToldAfter(list, first, n) = first /\ ToldAfter(list, <<>>, n) = <<>>
        BY <2>1, <2>2, ToldNext
      <3> QED
        BY <2>1, <3>1, JoinedWithNothing
    <2>3. CASE n # 0
      <3> DEFINE j == n - 1
                 a == ToldAfter(list, first, j)
                 b == ToldAfter(list, <<>>, j)
                 x == list[n]
      <3>1. j \in Nat /\ ~(n <= j)
        BY <2>1, <2>3
      <3>2. ToldAfter(list, first, n) = EventTurn(a, x)
            /\ ToldAfter(list, <<>>, n) = EventTurn(b, x)
        BY <2>1, <2>3, ToldNext
      <3>3. a = first \o b
        <4> HIDE DEF j
        <4> QED
          BY <1>2, <3>1
      <3>4. IsList(b)
        <4> HIDE DEF j
        <4> QED
          BY <3>1, EmptyList, ToldIsList
      <3> HIDE DEF a, b, x
      <3>5. EventTurn(a, x) = first \o EventTurn(b, x)
        <4>1. first \o Append(b, x) = Append(first \o b, x)
          BY <3>4, AppendedToJoined
        <4> QED
          BY <3>3, <4>1 DEF EventTurn
      <3> QED
        BY <2>1, <3>2, <3>5
    <2> QED
      BY <2>2, <2>3
  <1>3. T = {}
    <2> HIDE DEF T
    <2>1. T \in SUBSET Nat
      BY DEF T
    <2> QED
      BY <1>2, <2>1, FirstOf
  <1> QED
    BY <1>3

LEMMA OnlyEventsJoined ==
    ASSUME NEW a, IsList(a), NEW b, IsList(b)
    PROVE  /\ IsList(OnlyEvents(a)) /\ IsList(OnlyEvents(b))
           /\ OnlyEvents(a \o b) = OnlyEvents(a) \o OnlyEvents(b)
  <1> DEFINE n == Len(a)
             m == Len(b)
             i == n + m
             both == a \o b
             first == ToldAfter(a, <<>>, n)
  <1>1. n \in Nat /\ m \in Nat /\ i \in Nat /\ i = n + m /\ n = Len(a) /\ m = Len(b)
    BY ListFacts
  <1>2. /\ IsList(both) /\ Len(both) = i
        /\ \A k \in 1 .. n : both[k] = a[k]
        /\ \A k \in 1 .. m : both[n + k] = b[k]
    BY JoinedList
  <1> HIDE DEF n, m, i, both
  <1>3. EventsTold!Picks(1 .. i) /\ EventsTold!LastPicked(i) /\ EventsTold!Picks(1 .. n)
    BY <1>1, LastOfPositions DEF EventsTold!Picks, EventsTold!LastPicked
  <1>4. EventsTold!Adds(n, m, i)
    BY <1>1 DEF EventsTold!Adds
  <1>5. \A k \in 1 .. m : \A y :
          EventTurn(y, Nth(b, k)) = EventTurn(y, Nth(both, n + k))
    BY <1>2 DEF Nth
  <1>6. \A k \in 1 .. n : \A y : EventTurn(y, Nth(both, k)) = EventTurn(y, Nth(a, k))
    BY <1>2 DEF Nth
  <1>7. EventsTold!Fold(both, <<>>, 1 .. i)
          = EventsTold!Fold(b, EventsTold!Fold(both, <<>>, 1 .. n), 1 .. m)
    <2> DEFINE base == <<>>
    <2> HIDE DEF base
    <2>1. EventsTold!Fold(both, base, 1 .. i)
            = EventsTold!Fold(b, EventsTold!Fold(both, base, 1 .. n), 1 .. m)
      BY <1>1, <1>3, <1>4, <1>5, EventsTold!ListContinues
    <2> QED
      BY <2>1 DEF base
  <1>8. EventsTold!Fold(both, <<>>, 1 .. n) = first
    <2> DEFINE base == <<>>
    <2> HIDE DEF base
    <2>1. EventsTold!Fold(both, base, 1 .. n) = EventsTold!Fold(a, base, 1 .. n)
      BY <1>1, <1>3, <1>6, EventsTold!ListSame
    <2> QED
      BY <2>1 DEF base, ToldAfter
  <1>9. ToldAfter(both, <<>>, i) = ToldAfter(b, first, m)
    BY <1>7, <1>8 DEF ToldAfter
  <1>10. IsList(first)
    BY <1>1, EmptyList, ToldIsList
  <1> HIDE DEF first
  <1>11. ToldAfter(b, first, m) = first \o ToldAfter(b, <<>>, m)
    BY <1>1, <1>10, ToldBehind
  <1>12. IsList(ToldAfter(b, <<>>, m))
    BY <1>1, EmptyList, ToldIsList
  <1>13. OnlyEvents(a) = first
    BY <1>1, OnlyEventsFold DEF first
  <1>14. OnlyEvents(b) = ToldAfter(b, <<>>, m)
    BY <1>1, OnlyEventsFold
  <1>15. OnlyEvents(both) = ToldAfter(both, <<>>, i)
    BY <1>1, <1>2, OnlyEventsFold
  <1> QED
    BY <1>9, <1>10, <1>11, <1>12, <1>13, <1>14, <1>15 DEF both

(* What a view is told in two lists it is told in one.                     *)
Applied == INSTANCE FoldFacts
    WITH Op <- LAMBDA p, view, e : ApplyEvent(view, e),
         Value <- LAMBDA p, i : Nth(p, i), Pick <- LAMBDA s : Max(s),
         Inv <- LAMBDA p, n, s : TRUE

LEMMA ApplyEventsFold ==
    ASSUME NEW view, NEW list, IsList(list), NEW n, n = Len(list)
    PROVE  ApplyEvents(view, list) = Applied!Fold(list, view, 1 .. n)
  <1>1. DOMAIN list = 1 .. n
    BY ListFacts
  <1> QED
    BY <1>1 DEF ApplyEvents, FoldLeft, MapThenFoldSet, Applied!Fold,
                Applied!MapThenFoldSet, Nth

LEMMA AppliedJoined ==
    ASSUME NEW a, IsList(a), NEW b, IsList(b), NEW view
    PROVE  ApplyEvents(view, a \o b) = ApplyEvents(ApplyEvents(view, a), b)
  <1> DEFINE n == Len(a)
             m == Len(b)
             i == n + m
             both == a \o b
  <1>1. n \in Nat /\ m \in Nat /\ i \in Nat /\ i = n + m /\ n = Len(a) /\ m = Len(b)
    BY ListFacts
  <1>2. /\ IsList(both) /\ Len(both) = i
        /\ \A k \in 1 .. n : both[k] = a[k]
        /\ \A k \in 1 .. m : both[n + k] = b[k]
    BY JoinedList
  <1> HIDE DEF n, m, i, both
  <1>3. Applied!Picks(1 .. i) /\ Applied!LastPicked(i) /\ Applied!Picks(1 .. n)
    BY <1>1, LastOfPositions DEF Applied!Picks, Applied!LastPicked
  <1>4. Applied!Adds(n, m, i)
    BY <1>1 DEF Applied!Adds
  <1>5. \A k \in 1 .. m : \A y :
          ApplyEvent(y, Nth(b, k)) = ApplyEvent(y, Nth(both, n + k))
    BY <1>2 DEF Nth
  <1>6. \A k \in 1 .. n : \A y : ApplyEvent(y, Nth(both, k)) = ApplyEvent(y, Nth(a, k))
    BY <1>2 DEF Nth
  <1>7. Applied!Fold(both, view, 1 .. i)
          = Applied!Fold(b, Applied!Fold(both, view, 1 .. n), 1 .. m)
    BY <1>1, <1>3, <1>4, <1>5, Applied!ListContinues
  <1>8. Applied!Fold(both, view, 1 .. n) = Applied!Fold(a, view, 1 .. n)
    BY <1>1, <1>3, <1>6, Applied!ListSame
  <1>9. ApplyEvents(view, a) = Applied!Fold(a, view, 1 .. n)
    BY <1>1, ApplyEventsFold
  <1>10. ApplyEvents(view, both) = Applied!Fold(both, view, 1 .. i)
    BY <1>1, <1>2, ApplyEventsFold
  <1>11. \A v : ApplyEvents(v, b) = Applied!Fold(b, v, 1 .. m)
    BY <1>1, ApplyEventsFold
  <1> QED
    BY <1>7, <1>8, <1>9, <1>10, <1>11 DEF both

(* The events of a text.                                                   *)
EventsOf(parts) == [k \in DOMAIN parts |-> EventOf(parts[k])]
EventsRead(t) == OnlyEvents(EventsOf(Machine(t).parts))

IsJoined(a, b, c) ==
    /\ Len(c) = Len(a) + Len(b)
    /\ \A k \in 1 .. Len(a) : c[k] = a[k]
    /\ \A k \in 1 .. Len(b) : c[Len(a) + k] = b[k]

LEMMA JoinedIs ==
    ASSUME NEW a, IsList(a), NEW b, IsList(b), NEW c, IsList(c), IsJoined(a, b, c)
    PROVE  c = a \o b
  <1> DEFINE both == a \o b
             n == Len(a)
             m == Len(b)
             all == n + m
  <1>1. n \in Nat /\ m \in Nat /\ Len(c) = all
        /\ (\A k \in 1 .. n : c[k] = a[k])
        /\ (\A k \in 1 .. m : c[n + k] = b[k])
    BY ListFacts DEF IsJoined
  <1>2. /\ IsList(both) /\ Len(both) = all
        /\ \A k \in 1 .. n : both[k] = a[k]
        /\ \A k \in 1 .. m : both[n + k] = b[k]
    BY JoinedList
  <1> HIDE DEF both, n, m
  <1>3. ASSUME NEW k \in 1 .. all PROVE c[k] = both[k]
    <2>1. CASE k \in 1 .. n
      BY <1>1, <1>2, <2>1
    <2>2. CASE k \notin 1 .. n
      <3> DEFINE j == k - n
      <3>1. j \in 1 .. m /\ k = n + j
        BY <1>1, <2>2
      <3> HIDE DEF j
      <3> QED
        BY <1>1, <1>2, <3>1
    <2> QED
      BY <2>1, <2>2
  <1>4. Len(c) = all
    BY <1>1
  <1> HIDE DEF all
  <1>5. c = both
    BY <1>2, <1>3, <1>4, SameList
  <1> QED
    BY <1>5 DEF both

LEMMA EventsOfJoined ==
    ASSUME NEW a, IsList(a), NEW b, IsList(b)
    PROVE  /\ IsList(EventsOf(a)) /\ IsList(EventsOf(b))
           /\ EventsOf(a \o b) = EventsOf(a) \o EventsOf(b)
  <1> DEFINE n == Len(a)
             m == Len(b)
             both == a \o b
             ea == EventsOf(a)
             eb == EventsOf(b)
             eboth == EventsOf(both)
  <1>1. n \in Nat /\ m \in Nat /\ DOMAIN a = 1 .. n /\ DOMAIN b = 1 .. m
    BY ListFacts
  <1>2. /\ IsList(both) /\ Len(both) = n + m
        /\ \A k \in 1 .. n : both[k] = a[k]
        /\ \A k \in 1 .. m : both[n + k] = b[k]
    BY JoinedList
  <1> HIDE DEF both
  <1>3. DOMAIN both = 1 .. n + m
    BY <1>2, ListFacts
  <1>4. /\ ea = [k \in DOMAIN a |-> ea[k]] /\ eb = [k \in DOMAIN b |-> eb[k]]
        /\ eboth = [k \in DOMAIN both |-> eboth[k]]
        /\ \A k \in 1 .. n : ea[k] = EventOf(a[k])
        /\ \A k \in 1 .. m : eb[k] = EventOf(b[k])
        /\ \A k \in 1 .. n + m : eboth[k] = EventOf(both[k])
    BY <1>1, <1>3 DEF EventsOf
  <1> HIDE DEF ea, eb, eboth
  <1>5. IsList(ea) /\ Len(ea) = n /\ IsList(eb) /\ Len(eb) = m
    BY <1>4, MappedList
  <1>6. IsList(eboth) /\ Len(eboth) = n + m
    BY <1>2, <1>4, MappedList
  <1> HIDE DEF n, m
  <1>7. /\ \A k \in 1 .. n : eboth[k] = ea[k]
        /\ \A k \in 1 .. m : eboth[n + k] = eb[k]
    <2>1. \A k \in 1 .. n : k \in 1 .. n + m
      BY <1>1
    <2>2. \A k \in 1 .. m : n + k \in 1 .. n + m
      BY <1>1
    <2> QED
      BY <1>2, <1>4, <2>1, <2>2
  <1>8. IsJoined(ea, eb, eboth)
    BY <1>5, <1>6, <1>7 DEF IsJoined
  <1>9. eboth = ea \o eb
    BY <1>5, <1>6, <1>8, JoinedIs
  <1> QED
    BY <1>5, <1>9 DEF ea, eb, eboth, both

LEMMA ParsedText ==
    ASSUME NEW t, IsList(t)
    PROVE  ParseSse(t) = [events |-> EventsRead(t), remainder |-> Machine(t).rest]
  <1>1. Parts(WithoutCR(t)) = Machine(t)
    BY PartsAreFed DEF Machine
  <1> QED
    BY <1>1 DEF ParseSse, EventsRead, EventsOf

(* The text of the first n chunks.                                         *)
Joins == INSTANCE FoldFacts
    WITH Op <- LAMBDA p, s, chunk : s \o chunk,
         Value <- LAMBDA p, i : Nth(p, i), Pick <- LAMBDA s : Max(s),
         Inv <- LAMBDA p, n, s : IsList(s)
JoinedTo(chunks, n) == Joins!Fold(chunks, <<>>, 1 .. n)

LEMMA JoinsNext ==
    ASSUME NEW chunks, NEW n \in Nat
    PROVE  JoinedTo(chunks, n)
             = IF n = 0 THEN <<>> ELSE JoinedTo(chunks, n - 1) \o chunks[n]
  <1>1. Joins!Picks(1 .. n) /\ Joins!LastPicked(n)
    BY LastOfPositions DEF Joins!Picks, Joins!LastPicked
  <1> QED
    BY <1>1, Joins!ListEquation DEF JoinedTo, Nth

LEMMA JoinedIsList ==
    ASSUME NEW chunks, NEW n \in Nat, \A k \in 1 .. n : IsList(chunks[k])
    PROVE  IsList(JoinedTo(chunks, n))
  <1>1. Joins!Picks(1 .. n) /\ Joins!LastPicked(n)
    BY LastOfPositions DEF Joins!Picks, Joins!LastPicked
  <1>2. \A k \in 1 .. n : \A y : IsList(y) => IsList(y \o Nth(chunks, k))
    BY JoinedList DEF Nth
  <1>3. IsList(Joins!Fold(chunks, <<>>, 1 .. n))
    BY <1>1, <1>2, EmptyList, Joins!ListKeeps
  <1> QED
    BY <1>3 DEF JoinedTo

LEMMA JoinedFold ==
    ASSUME NEW chunks, IsList(chunks), NEW n, n = Len(chunks)
    PROVE  Joined(chunks) = JoinedTo(chunks, n)
  <1>1. DOMAIN chunks = 1 .. n
    BY ListFacts
  <1> QED
    BY <1>1 DEF Joined, JoinedTo, FoldLeft, MapThenFoldSet, Joins!Fold,
                Joins!MapThenFoldSet, Nth

(* The reader after a chunk depends on the text so far, not on its cuts.   *)
ReaderOf(t) == [buffer |-> Machine(t).rest,
                view |-> ApplyEvents(EmptyView, EventsRead(t))]
Readers == INSTANCE FoldFacts
    WITH Op <- LAMBDA p, reader, chunk : ReadChunk(reader, chunk),
         Value <- LAMBDA p, i : Nth(p, i), Pick <- LAMBDA s : Max(s),
         Inv <- LAMBDA p, n, reader :
                  OneReturn(JoinedTo(p, n)) => reader = ReaderOf(JoinedTo(p, n))

LEMMA OneReturnBefore ==
    ASSUME NEW t, IsList(t), NEW c, IsList(c), OneReturn(t \o c)
    PROVE  OneReturn(t)
  <1>1. Len(t) \in Nat /\ Len(c) \in Nat
    BY ListFacts
  <1>2. /\ Len(t \o c) = Len(t) + Len(c)
        /\ \A k \in 1 .. Len(t) : (t \o c)[k] = t[k]
    BY JoinedList
  <1>3. \A k \in 2 .. Len(t) : k \in 2 .. Len(t \o c) /\ k \in 1 .. Len(t)
                               /\ k - 1 \in 1 .. Len(t)
    BY <1>1, <1>2
  <1> QED
    BY <1>2, <1>3 DEF OneReturn

LEMMA ChunkIsRead ==
    ASSUME NEW t, IsList(t), OneReturn(t), NEW c, IsList(c)
    PROVE  ReadChunk(ReaderOf(t), c) = ReaderOf(t \o c)
  <1> DEFINE ps == Machine(t).parts
             r == Machine(t).rest
             u == r \o c
             qs == Machine(u).parts
             q == Machine(u).rest
             view == ApplyEvents(EmptyView, EventsRead(t))
  <1>1. /\ IsList(ps) /\ IsList(qs) /\ IsList(u)
        /\ Machine(t \o c) = Behind(ps, Machine(u))
    BY CutAnywhere DEF IsSplit
  <1>2. Machine(t \o c).parts = ps \o qs /\ Machine(t \o c).rest = q
    <2> DEFINE v == Machine(u)
               w == Machine(t \o c)
    <2>1. w = [parts |-> ps \o v.parts, rest |-> v.rest]
      <3> HIDE DEF ps, u
      <3> QED
        BY <1>1 DEF Behind
    <2> HIDE DEF ps, u, v, w
    <2>2. w.parts = ps \o v.parts /\ w.rest = v.rest
      BY <2>1
    <2> QED
      BY <2>2 DEF v, w
  <1>3. ParseSse(u) = [events |-> EventsRead(u), remainder |-> q]
    <2> HIDE DEF u
    <2> QED
      BY <1>1, ParsedText DEF q
  <1>4. ReadChunk(ReaderOf(t), c) = [buffer |-> q, view |-> ApplyEvents(view, EventsRead(u))]
    <2>1. ReaderOf(t).buffer = r /\ ReaderOf(t).view = view
      BY DEF ReaderOf
    <2> HIDE DEF q, view, r
    <2> QED
      BY <1>3, <2>1 DEF ReadChunk
  <1>5. /\ IsList(EventsOf(ps)) /\ IsList(EventsOf(qs))
        /\ EventsOf(ps \o qs) = EventsOf(ps) \o EventsOf(qs)
    <2> HIDE DEF ps, qs
    <2> QED
      BY <1>1, EventsOfJoined
  <1>6. /\ IsList(EventsRead(t)) /\ IsList(EventsRead(u))
        /\ EventsRead(t \o c) = EventsRead(t) \o EventsRead(u)
    <2> DEFINE ea == EventsOf(ps)
               eb == EventsOf(qs)
    <2>1. EventsRead(t) = OnlyEvents(ea) /\ EventsRead(u) = OnlyEvents(eb)
      BY DEF EventsRead
    <2>2. EventsRead(t \o c) = OnlyEvents(EventsOf(ps \o qs))
      <3> HIDE DEF ps, qs
      <3> QED
        BY <1>2 DEF EventsRead
    <2> HIDE DEF ps, qs, u
    <2>3. IsList(ea) /\ IsList(eb) /\ EventsOf(ps \o qs) = ea \o eb
      BY <1>5
    <2> HIDE DEF ea, eb
    <2> QED
      <3>1. /\ IsList(OnlyEvents(ea)) /\ IsList(OnlyEvents(eb))
            /\ OnlyEvents(ea \o eb) = OnlyEvents(ea) \o OnlyEvents(eb)
        BY <2>3, OnlyEventsJoined
      <3> QED
        BY <2>1, <2>2, <2>3, <3>1
  <1>7. ApplyEvents(EmptyView, EventsRead(t \o c)) = ApplyEvents(view, EventsRead(u))
    <2> HIDE DEF u
    <2> QED
      BY <1>6, AppliedJoined
  <1> QED
    BY <1>2, <1>4, <1>7 DEF ReaderOf

(* However a stream is cut into chunks, and however many there are, the     *)
(* view is that of the whole text read at once, unless a return follows a   *)
(* return in it.                                                            *)
THEOREM CutsDoNotMatter ==
    ASSUME NEW chunks, IsList(chunks), \A k \in DOMAIN chunks : IsList(chunks[k]),
           OneReturn(Joined(chunks))
    PROVE  RunLiveView(chunks) = ApplyEvents(EmptyView, ParseSse(Joined(chunks)).events)
  <1> DEFINE n == Len(chunks)
             first == [buffer |-> <<>>, view |-> EmptyView]
  <1>1. n \in Nat /\ n = Len(chunks) /\ DOMAIN chunks = 1 .. n
    BY ListFacts
  <1> HIDE DEF n
  <1>2. \A k \in 1 .. n : IsList(chunks[k])
    BY <1>1
  <1>3. \A k \in 0 .. n : IsList(JoinedTo(chunks, k))
    <2>1. ASSUME NEW k \in 0 .. n PROVE IsList(JoinedTo(chunks, k))
      <3>1. k \in Nat /\ \A i \in 1 .. k : IsList(chunks[i])
        BY <1>1, <1>2
      <3> QED
        BY <3>1, JoinedIsList
    <2> QED
      BY <2>1
  <1>4. Joined(chunks) = JoinedTo(chunks, n)
    BY <1>1, JoinedFold
  <1>5. Readers!Picks(1 .. n) /\ Readers!LastPicked(n)
    BY <1>1, LastOfPositions DEF Readers!Picks, Readers!LastPicked
  <1>6. first = ReaderOf(JoinedTo(chunks, 0))
    <2>1. JoinedTo(chunks, 0) = <<>>
      BY JoinsNext
    <2>2. Machine(<<>>) = AtFirst
      BY EmptyList, FedNext DEF Machine
    <2>3. EventsRead(<<>>) = <<>>
      <3>1. EventsOf(<<>>) = <<>>
        BY DEF EventsOf
      <3>2. OnlyEvents(<<>>) = <<>>
        <4> DEFINE none == <<>>
        <4>1. IsList(none) /\ 0 = Len(none)
          BY EmptyList
        <4> HIDE DEF none
        <4>2. OnlyEvents(none) = ToldAfter(none, <<>>, 0)
          BY <4>1, OnlyEventsFold
        <4>3. ToldAfter(none, <<>>, 0) = <<>>
          BY ToldNext
        <4> QED
          BY <4>2, <4>3 DEF none
      <3> QED
        BY <2>2, <3>1, <3>2 DEF EventsRead, AtFirst
    <2>4. ApplyEvents(EmptyView, <<>>) = EmptyView
      <3>1. Applied!Picks(1 .. 0) /\ Applied!LastPicked(0)
        BY LastOfPositions DEF Applied!Picks, Applied!LastPicked
      <3>2. Applied!Fold(<<>>, EmptyView, 1 .. 0) = EmptyView
        BY <3>1, Applied!ListEquation
      <3> QED
        BY <3>2, EmptyList, ApplyEventsFold
    <2> QED
      BY <2>1, <2>2, <2>3, <2>4 DEF ReaderOf, AtFirst
  <1>7. ASSUME NEW k \in 1 .. n, NEW reader,
               OneReturn(JoinedTo(chunks, k - 1)) => reader = ReaderOf(JoinedTo(chunks, k - 1)),
               OneReturn(JoinedTo(chunks, k))
        PROVE  ReadChunk(reader, Nth(chunks, k)) = ReaderOf(JoinedTo(chunks, k))
    <2> DEFINE t == JoinedTo(chunks, k - 1)
               c == chunks[k]
    <2>1. IsList(t) /\ IsList(c)
      BY <1>1, <1>2, <1>3
    <2>2. JoinedTo(chunks, k) = t \o c
      <3>1. k \in Nat /\ k # 0
        BY <1>1
      <3> QED
        BY <3>1, JoinsNext
    <2> HIDE DEF t, c
    <2>3. OneReturn(t)
      BY <1>7, <2>1, <2>2, OneReturnBefore
    <2>4. reader = ReaderOf(t)
      BY <1>7, <2>3 DEF t
    <2> QED
      BY <2>1, <2>2, <2>3, <2>4, ChunkIsRead DEF c, Nth
  <1>8. OneReturn(JoinedTo(chunks, n)) =>
          Readers!Fold(chunks, first, 1 .. n) = ReaderOf(JoinedTo(chunks, n))
    <2> HIDE DEF first
    <2> QED
      BY <1>1, <1>5, <1>6, <1>7, Readers!ListKeeps
  <1>9. RunLiveView(chunks) = Readers!Fold(chunks, first, 1 .. n).view
    BY <1>1 DEF RunLiveView, FoldLeft, MapThenFoldSet, Readers!Fold,
                Readers!MapThenFoldSet, Nth
  <1>10. RunLiveView(chunks) = ApplyEvents(EmptyView, EventsRead(JoinedTo(chunks, n)))
    BY <1>4, <1>8, <1>9 DEF ReaderOf
  <1>11. n \in 0 .. n
    BY <1>1
  <1> QED
    BY <1>3, <1>4, <1>10, <1>11, ParsedText

-----------------------------------------------------------------------------
(* One frame.                                                              *)
Run(t, s) == FedAfter(t, s, Len(t))

(* Two lists joined, by a name the steps below can carry.                  *)
Join(a, b) == a \o b

LEMMA JoinIs ==
    ASSUME NEW a, IsList(a), NEW b, IsList(b)
    PROVE  /\ IsList(Join(a, b)) /\ Len(Join(a, b)) = Len(a) + Len(b)
           /\ \A c : IsList(c) => Join(Join(a, b), c) = Join(a, Join(b, c))
  <1>1. IsList(Join(a, b)) /\ Len(Join(a, b)) = Len(a) + Len(b)
    BY JoinedList DEF Join
  <1>2. ASSUME NEW c, IsList(c) PROVE Join(Join(a, b), c) = Join(a, Join(b, c))
    <2> DEFINE S == {a[k] : k \in DOMAIN a} \cup {b[k] : k \in DOMAIN b}
                    \cup {c[k] : k \in DOMAIN c}
    <2>1. a \in Seq({a[k] : k \in DOMAIN a}) /\ b \in Seq({b[k] : k \in DOMAIN b})
          /\ c \in Seq({c[k] : k \in DOMAIN c})
      BY <1>2 DEF IsList
    <2>2. a \in Seq(S) /\ b \in Seq(S) /\ c \in Seq(S)
      BY <2>1
    <2> HIDE DEF S
    <2> QED
      BY <2>2, ConcatAssociative DEF Join
  <1> QED
    BY <1>1, <1>2

LEMMA RunJoined ==
    ASSUME NEW a, IsList(a), NEW b, IsList(b), NEW s
    PROVE  Run(Join(a, b), s) = Run(b, Run(a, s))
  <1> DEFINE n == Len(a)
             m == Len(b)
  <1>1. n = Len(a) /\ m = Len(b)
    OBVIOUS
  <1>2. Len(Join(a, b)) = n + m
    BY JoinIs
  <1> HIDE DEF n, m
  <1>3. FedAfter(Join(a, b), s, n + m) = FedAfter(b, FedAfter(a, s, n), m)
    BY <1>1, FedOnwards DEF Join
  <1> QED
    BY <1>1, <1>2, <1>3 DEF Run

LEMMA RunOne ==
    ASSUME NEW x, NEW s
    PROVE  IsList(<<x>>) /\ Run(<<x>>, s) = Fed(s, x)
  <1> DEFINE t == <<x>>
  <1>1. t \in Seq({x}) /\ Len(t) = 1 /\ t[1] = x
    OBVIOUS
  <1>2. IsList(t)
    BY <1>1, IsListOf
  <1> HIDE DEF t
  <1>3. FedAfter(t, s, 1) = Fed(FedAfter(t, s, 0), t[1])
    BY FedNext
  <1>4. FedAfter(t, s, 0) = s
    BY FedNext
  <1>5. Run(t, s) = Fed(s, x)
    BY <1>1, <1>3, <1>4 DEF Run
  <1> QED
    BY <1>2, <1>5 DEF t

Left(parts, rest) == [parts |-> parts, rest |-> rest]
Ended(rest) == Append(rest, LF)

LEMMA LeftIs ==
    ASSUME NEW ps, NEW r
    PROVE  /\ Left(ps, r).parts = ps /\ Left(ps, r).rest = r
           /\ \A x : x # LF => Fed(Left(ps, r), x) = Left(ps, Append(r, x))
           /\ Fed(Left(ps, r), LF) = Broken(ps, NoReturn(r))
  <1>1. Left(ps, r).parts = ps /\ Left(ps, r).rest = r
    BY DEF Left
  <1> QED
    BY <1>1 DEF Fed, Left

LEMMA RunEnds ==
    ASSUME NEW ps, NEW r, IsList(r), r = <<>> \/ Last(r) # CR, NEW crlf \in BOOLEAN
    PROVE  IsList(Ends(crlf)) /\ Run(Ends(crlf), Left(ps, r)) = Broken(ps, r)
  <1>1. NoReturn(r) = r
    BY DEF NoReturn
  <1>2. CASE crlf = FALSE
    <2>1. Ends(crlf) = <<LF>>
      BY <1>2 DEF Ends
    <2>2. Fed(Left(ps, r), LF) = Broken(ps, r)
      BY <1>1, LeftIs
    <2> QED
      BY <2>1, <2>2, RunOne
  <1>3. CASE crlf = TRUE
    <2> DEFINE q == Append(r, CR)
    <2>1. Ends(crlf) = Join(<<CR>>, <<LF>>)
      BY <1>3 DEF Ends, Join
    <2>2. q # <<>> /\ Last(q) = CR /\ Front(q) = r
      BY LastAppended
    <2>3. Run(<<CR>>, Left(ps, r)) = Left(ps, q) /\ IsList(<<CR>>)
      BY RunOne, LeftIs, EndsDiffer
    <2>4. Run(<<LF>>, Left(ps, q)) = Broken(ps, NoReturn(q)) /\ IsList(<<LF>>)
      BY RunOne, LeftIs
    <2>5. NoReturn(q) = r
      BY <2>2 DEF NoReturn
    <2> HIDE DEF q
    <2>6. IsList(Join(<<CR>>, <<LF>>))
      BY <2>3, <2>4, JoinIs
    <2>7. Run(Join(<<CR>>, <<LF>>), Left(ps, r)) = Run(<<LF>>, Run(<<CR>>, Left(ps, r)))
      BY <2>3, <2>4, RunJoined
    <2> QED
      BY <2>1, <2>3, <2>4, <2>5, <2>6, <2>7
  <1> QED
    BY <1>2, <1>3

(* A line and its end, between frames or within one; and the blank line    *)
(* that ends the frame.                                                    *)
LineOf(x, crlf) == <<x>> \o Ends(crlf)

LEMMA RunLine ==
    ASSUME NEW ps, NEW r, IsList(r), NEW x, x.is = "line", NEW crlf \in BOOLEAN
    PROVE  /\ IsList(LineOf(x, crlf)) /\ IsList(Append(r, x))
           /\ IsList(Ended(Append(r, x)))
           /\ Run(LineOf(x, crlf), Left(ps, r)) = Left(ps, Ended(Append(r, x)))
  <1> DEFINE v == Append(r, x)
             a == <<x>>
             b == Ends(crlf)
  <1>1. x # LF /\ x # CR
    BY DEF LF, CR
  <1>2. IsList(v) /\ v # <<>> /\ Last(v) = x
    BY LastAppended
  <1>3. Run(a, Left(ps, r)) = Left(ps, v) /\ IsList(a)
    BY <1>1, RunOne, LeftIs
  <1> HIDE DEF v
  <1>4. IsList(b) /\ Run(b, Left(ps, v)) = Broken(ps, v)
    BY <1>1, <1>2, RunEnds
  <1>5. Broken(ps, v) = Left(ps, Ended(v))
    BY <1>1, <1>2 DEF Broken, Left, Ended
  <1>6. IsList(Ended(v))
    BY <1>2, LastAppended DEF Ended
  <1> HIDE DEF a, b
  <1>7. IsList(Join(a, b)) /\ Run(Join(a, b), Left(ps, r)) = Run(b, Run(a, Left(ps, r)))
    BY <1>3, <1>4, RunJoined, JoinIs
  <1>8. LineOf(x, crlf) = Join(a, b)
    BY DEF LineOf, Join, a, b
  <1> QED
    BY <1>2, <1>3, <1>4, <1>5, <1>6, <1>7, <1>8 DEF v

LEMMA RunBlank ==
    ASSUME NEW ps, NEW v, IsList(v), NEW crlf \in BOOLEAN
    PROVE  Run(Ends(crlf), Left(ps, Ended(v))) = Left(Append(ps, v), <<>>)
  <1> DEFINE q == Ended(v)
  <1>1. IsList(q) /\ q # <<>> /\ Last(q) = LF /\ Front(q) = v
    BY LastAppended DEF Ended
  <1> HIDE DEF q
  <1>2. Run(Ends(crlf), Left(ps, q)) = Broken(ps, q)
    BY <1>1, EndsDiffer, RunEnds
  <1> QED
    BY <1>1, <1>2 DEF Broken, Left, q

(* What the parts of frames are.                                           *)
CommentPart == Append(<<>>, TextLine("comment", NotAnEvent))
EventPart(f) ==
    Append(Ended(Append(Ended(Append(<<>>, TextLine("event", NotAnEvent))),
                        TextLine("data", f))), TextLine("id", NotAnEvent))
PartOf(f) == IF f = NotAnEvent THEN CommentPart ELSE EventPart(f)

IsListTo(list, n) == IsList(list) /\ Len(list) = n

Add(list, x) == Append(list, x)

LEMMA AppendedNext ==
    ASSUME NEW n \in Nat, NEW list, IsListTo(list, n), NEW x, NEW m, m = n + 1
    PROVE  /\ IsListTo(Add(list, x), m) /\ Add(list, x)[m] = x
           /\ \A k \in 1 .. n : Add(list, x)[k] = list[k]
  <1>1. IsList(list) /\ n = Len(list)
    BY DEF IsListTo
  <1>2. /\ IsList(Append(list, x)) /\ Len(Append(list, x)) = n + 1
        /\ \A k \in 1 .. n : Append(list, x)[k] = list[k]
        /\ Append(list, x)[n + 1] = x
    BY <1>1, AppendedList
  <1> QED
    BY <1>2 DEF IsListTo, Add

LEMMA FiveAppended ==
    ASSUME NEW x, NEW y, NEW z, NEW p,
           p = Append(Ended(Append(Ended(Append(<<>>, x)), y)), z)
    PROVE  /\ DOMAIN p = 1 .. 5
           /\ p[1] = x /\ p[2] = LF /\ p[3] = y /\ p[4] = LF /\ p[5] = z
  <1> DEFINE p0 == <<>>
             p1 == Add(p0, x)
             p2 == Add(p1, LF)
             p3 == Add(p2, y)
             p4 == Add(p3, LF)
             p5 == Add(p4, z)
  <1>1. p = p5
    BY Zenon DEF Ended, Add
  <1>2. IsListTo(p0, 0)
    BY EmptyList DEF IsListTo
  <1> HIDE DEF p0
  <1>3. IsListTo(p1, 1) /\ p1[1] = x
    BY <1>2, AppendedNext
  <1> HIDE DEF p1
  <1>4. IsListTo(p2, 2) /\ p2[1] = x /\ p2[2] = LF
    BY <1>3, AppendedNext
  <1> HIDE DEF p2
  <1>5. IsListTo(p3, 3) /\ p3[1] = x /\ p3[2] = LF /\ p3[3] = y
    BY <1>4, AppendedNext
  <1> HIDE DEF p3
  <1>6. IsListTo(p4, 4) /\ p4[1] = x /\ p4[2] = LF /\ p4[3] = y /\ p4[4] = LF
    BY <1>5, AppendedNext
  <1> HIDE DEF p4
  <1>7. IsListTo(p5, 5) /\ p5[1] = x /\ p5[2] = LF /\ p5[3] = y /\ p5[4] = LF
        /\ p5[5] = z
    BY <1>6, AppendedNext
  <1> HIDE DEF p5
  <1>8. DOMAIN p5 = 1 .. 5
    BY <1>7, ListFacts DEF IsListTo
  <1> QED
    BY <1>1, <1>7, <1>8

LEMMA PartIsEvent ==
    ASSUME NEW f
    PROVE  EventOf(PartOf(f)) = f
  <1>1. CASE f = NotAnEvent
    <2> DEFINE part == PartOf(f)
    <2>1. part = <<TextLine("comment", NotAnEvent)>>
      BY <1>1 DEF PartOf, CommentPart
    <2>2. DOMAIN part = {1} /\ IsLine(part[1], "comment")
      BY <2>1 DEF IsLine, TextLine
    <2> HIDE DEF part
    <2>3. BeginsWithComment(part)
      BY <2>2 DEF BeginsWithComment
    <2>4. EventOf(part) = NotAnEvent
      BY <2>3 DEF EventOf
    <2> QED
      BY <1>1, <2>4 DEF part
  <1>2. CASE f # NotAnEvent
    <2> DEFINE part == PartOf(f)
               data == {k \in DOMAIN part : IsLine(part[k], "data")}
    <2>1. part = EventPart(f)
      BY <1>2 DEF PartOf
    <2>2. /\ DOMAIN part = 1 .. 5
          /\ part[1] = TextLine("event", NotAnEvent) /\ part[2] = LF
          /\ part[3] = TextLine("data", f) /\ part[4] = LF
          /\ part[5] = TextLine("id", NotAnEvent)
      <3> HIDE DEF part
      <3> QED
        BY <2>1, FiveAppended DEF EventPart
    <2> HIDE DEF part
    <2>3. ASSUME NEW k \in DOMAIN part PROVE k = 1 \/ k = 2 \/ k = 3 \/ k = 4 \/ k = 5
      BY <2>2
    <2>4. \A k \in DOMAIN part : ~IsLine(part[k], "comment")
      BY <2>2, <2>3 DEF IsLine, TextLine, LF
    <2>5. data = {3}
      <3>1. \A k \in DOMAIN part : IsLine(part[k], "data") <=> k = 3
        BY <2>2, <2>3 DEF IsLine, TextLine, LF
      <3>2. 3 \in DOMAIN part
        BY <2>2
      <3> QED
        BY <3>1, <3>2
    <2> HIDE DEF data
    <2>6. Cardinality(data) = 1 /\ (CHOOSE k \in data : TRUE) = 3
      BY <2>5, FS_Singleton
    <2>7. ~BeginsWithComment(part)
      BY <2>4 DEF BeginsWithComment
    <2>8. part[3].value = f
      BY <2>2 DEF TextLine
    <2>9. EventOf(part) = f
      BY <2>6, <2>7, <2>8 DEF EventOf, data
    <2> QED
      BY <2>9 DEF part
  <1> QED
    BY <1>1, <1>2

LEMMA JoinedInTurn ==
    ASSUME NEW x, IsList(x), NEW y, IsList(y), NEW z, IsList(z), NEW e, IsList(e)
    PROVE  Join(Join(Join(Join(Join(Join(x, e), y), e), z), e), e)
             = Join(Join(x, e), Join(Join(y, e), Join(Join(z, e), e)))
  <1> DEFINE a == Join(x, e)
             b == Join(y, e)
             c == Join(z, e)
             ab == Join(a, b)
  <1>1. IsList(a) /\ IsList(b) /\ IsList(c)
    BY JoinIs
  <1>2. Join(Join(a, y), e) = ab
    BY <1>1, JoinIs
  <1> HIDE DEF a, b
  <1>3. IsList(ab)
    BY <1>1, JoinIs
  <1>4. Join(Join(ab, z), e) = Join(ab, c)
    BY <1>3, JoinIs
  <1> HIDE DEF c
  <1>5. Join(Join(ab, c), e) = Join(ab, Join(c, e))
    BY <1>1, <1>3, JoinIs
  <1>6. Join(ab, Join(c, e)) = Join(a, Join(b, Join(c, e)))
    <2>1. IsList(Join(c, e))
      BY <1>1, JoinIs
    <2> QED
      BY <1>1, <2>1, JoinIs
  <1>7. Join(Join(Join(Join(Join(a, y), e), z), e), e) = Join(a, Join(b, Join(c, e)))
    BY <1>2, <1>4, <1>5, <1>6
  <1> QED
    BY <1>7 DEF a, b, c

LEMMA RunThree ==
    ASSUME NEW a, IsList(a), NEW b, IsList(b), NEW c, IsList(c), NEW e, IsList(e), NEW s
    PROVE  /\ IsList(Join(a, Join(b, Join(c, e))))
           /\ Run(Join(a, Join(b, Join(c, e))), s) = Run(e, Run(c, Run(b, Run(a, s))))
  <1>1. IsList(Join(c, e)) /\ \A u : Run(Join(c, e), u) = Run(e, Run(c, u))
    BY JoinIs, RunJoined
  <1>2. IsList(Join(b, Join(c, e)))
        /\ \A u : Run(Join(b, Join(c, e)), u) = Run(Join(c, e), Run(b, u))
    BY <1>1, JoinIs, RunJoined
  <1>3. PICK d : d = Join(b, Join(c, e))
    OBVIOUS
  <1>4. IsList(d)
    BY <1>2, <1>3
  <1>5. IsList(Join(a, d)) /\ Run(Join(a, d), s) = Run(d, Run(a, s))
    BY <1>4, JoinIs, RunJoined
  <1> QED
    BY <1>1, <1>2, <1>3, <1>5

LEMMA WireIs ==
    ASSUME NEW f, NEW crlf \in BOOLEAN
    PROVE  WireOf(f, crlf) =
             IF f = NotAnEvent
             THEN Join(LineOf(TextLine("comment", NotAnEvent), crlf), Ends(crlf))
             ELSE Join(LineOf(TextLine("event", NotAnEvent), crlf),
                       Join(LineOf(TextLine("data", f), crlf),
                            Join(LineOf(TextLine("id", NotAnEvent), crlf), Ends(crlf))))
  <1>1. CASE f = NotAnEvent
    BY <1>1 DEF WireOf, LineOf, Join
  <1>2. CASE f # NotAnEvent
    <2> DEFINE x == TextLine("event", NotAnEvent)
               y == TextLine("data", f)
               z == TextLine("id", NotAnEvent)
               xs == <<x>>
               ys == <<y>>
               zs == <<z>>
               a == LineOf(x, crlf)
               b == LineOf(y, crlf)
               c == LineOf(z, crlf)
               e == Ends(crlf)
    <2>1. WireOf(f, crlf)
            = Join(Join(Join(Join(Join(Join(xs, e), ys), e), zs), e), e)
      BY <1>2, Zenon DEF WireOf, Join
    <2>2. a = Join(xs, e) /\ b = Join(ys, e) /\ c = Join(zs, e)
      BY Zenon DEF LineOf, Join
    <2>3. IsList(xs) /\ IsList(ys) /\ IsList(zs) /\ IsList(e)
      BY RunOne, RunEnds, EmptyList
    <2> HIDE DEF x, y, z, xs, ys, zs, e, a, b, c
    <2>4. WireOf(f, crlf) = Join(a, Join(b, Join(c, e)))
      BY <2>1, <2>2, <2>3, JoinedInTurn
    <2> QED
      BY <1>2, <2>4 DEF a, b, c, e, x, y, z
  <1> QED
    BY <1>1, <1>2

LEMMA FrameIsPart ==
    ASSUME NEW f, NEW ps, NEW crlf \in BOOLEAN
    PROVE  /\ IsList(WireOf(f, crlf))
           /\ Run(WireOf(f, crlf), Left(ps, <<>>)) = Left(Append(ps, PartOf(f)), <<>>)
  <1>1. IsList(Ends(crlf))
    <2>1. IsList(<<>>)
      BY EmptyList
    <2> QED
      BY <2>1, RunEnds
  <1>2. CASE f = NotAnEvent
    <2> DEFINE x == TextLine("comment", NotAnEvent)
               none == <<>>
               v == Append(none, x)
               a == LineOf(x, crlf)
               e == Ends(crlf)
    <2>1. x.is = "line" /\ IsList(none)
      BY EmptyList DEF TextLine
    <2>2. WireOf(f, crlf) = Join(a, e)
      BY <1>2, WireIs
    <2>3. PartOf(f) = v
      BY <1>2 DEF PartOf, CommentPart
    <2> HIDE DEF x, none
    <2>4. /\ IsList(a) /\ IsList(v)
          /\ Run(a, Left(ps, none)) = Left(ps, Ended(v))
      BY <2>1, RunLine
    <2> HIDE DEF v, a
    <2>5. Run(e, Left(ps, Ended(v))) = Left(Append(ps, v), <<>>)
      BY <2>4, RunBlank
    <2> HIDE DEF e
    <2>6. IsList(Join(a, e)) /\ Run(Join(a, e), Left(ps, none)) = Run(e, Run(a, Left(ps, none)))
      <3>1. IsList(e)
        BY <1>1 DEF e
      <3> QED
        BY <2>4, <3>1, RunJoined, JoinIs
    <2> QED
      BY <2>2, <2>3, <2>4, <2>5, <2>6 DEF none
  <1>3. CASE f # NotAnEvent
    <2> DEFINE x == TextLine("event", NotAnEvent)
               y == TextLine("data", f)
               z == TextLine("id", NotAnEvent)
               none == <<>>
               p == Ended(Append(none, x))
               q == Ended(Append(p, y))
               v == Append(q, z)
               a == LineOf(x, crlf)
               b == LineOf(y, crlf)
               c == LineOf(z, crlf)
               e == Ends(crlf)
    <2>1. x.is = "line" /\ y.is = "line" /\ z.is = "line" /\ IsList(none)
      BY EmptyList DEF TextLine
    <2>2. PartOf(f) = v
      BY <1>3 DEF PartOf, EventPart
    <2>4. WireOf(f, crlf) = Join(a, Join(b, Join(c, e)))
      BY <1>3, WireIs
    <2> HIDE DEF x, y, z, none
    <2>5. IsList(a) /\ IsList(p) /\ Run(a, Left(ps, none)) = Left(ps, p)
      BY <2>1, RunLine
    <2> HIDE DEF a, p
    <2>6. IsList(b) /\ IsList(q) /\ Run(b, Left(ps, p)) = Left(ps, q)
      BY <2>1, <2>5, RunLine
    <2> HIDE DEF b, q
    <2>7. IsList(c) /\ IsList(v) /\ Run(c, Left(ps, q)) = Left(ps, Ended(v))
      BY <2>1, <2>6, RunLine
    <2> HIDE DEF c, v
    <2>8. Run(e, Left(ps, Ended(v))) = Left(Append(ps, v), <<>>)
      BY <2>7, RunBlank
    <2>9. IsList(e)
      BY <1>1
    <2> HIDE DEF e
    <2>10. /\ IsList(Join(a, Join(b, Join(c, e))))
           /\ Run(Join(a, Join(b, Join(c, e))), Left(ps, none))
                = Run(e, Run(c, Run(b, Run(a, Left(ps, none)))))
      BY <2>5, <2>6, <2>7, <2>9, RunThree
    <2> QED
      BY <2>2, <2>4, <2>5, <2>6, <2>7, <2>8, <2>10 DEF none
  <1> QED
    BY <1>2, <1>3

-----------------------------------------------------------------------------
(* What the API writes: a return is followed by a line feed.               *)
WholeEnds(w) == \A k \in 1 .. Len(w) : w[k] = CR => k < Len(w) /\ w[k + 1] = LF

LEMMA WholeJoined ==
    ASSUME NEW a, IsList(a), WholeEnds(a), NEW b, IsList(b), WholeEnds(b)
    PROVE  WholeEnds(Join(a, b))
  <1> DEFINE w == Join(a, b)
             n == Len(a)
             m == Len(b)
  <1>1. n \in Nat /\ m \in Nat
    BY ListFacts
  <1>2. /\ Len(w) = n + m
        /\ \A k \in 1 .. n : w[k] = a[k]
        /\ \A k \in 1 .. m : w[n + k] = b[k]
    BY JoinedList DEF Join
  <1>3. /\ \A k \in 1 .. n : a[k] = CR => k < n /\ a[k + 1] = LF
        /\ \A k \in 1 .. m : b[k] = CR => k < m /\ b[k + 1] = LF
    BY DEF WholeEnds
  <1> HIDE DEF w, n, m
  <1>4. ASSUME NEW k \in 1 .. n + m, w[k] = CR
        PROVE  k < n + m /\ w[k + 1] = LF
    <2>1. CASE k \in 1 .. n
      <3>1. k < n /\ a[k + 1] = LF
        BY <1>2, <1>3, <1>4, <2>1
      <3>2. k + 1 \in 1 .. n
        BY <1>1, <2>1, <3>1
      <3> QED
        BY <1>1, <1>2, <3>1, <3>2
    <2>2. CASE k \notin 1 .. n
      <3> DEFINE j == k - n
      <3>1. j \in 1 .. m /\ k = n + j /\ k + 1 = n + (j + 1)
        BY <1>1, <2>2
      <3> HIDE DEF j
      <3>2. b[j] = CR
        BY <1>2, <1>4, <3>1
      <3>3. j < m /\ b[j + 1] = LF /\ j + 1 \in 1 .. m
        BY <1>1, <1>3, <3>1, <3>2
      <3>4. w[n + (j + 1)] = LF
        BY <1>2, <3>3
      <3> QED
        BY <1>1, <3>1, <3>3, <3>4
    <2> QED
      BY <2>1, <2>2
  <1> QED
    BY <1>2, <1>4 DEF WholeEnds, w

LEMMA WholeOne ==
    ASSUME NEW x, x # CR
    PROVE  IsList(<<x>>) /\ Len(<<x>>) = 1 /\ WholeEnds(<<x>>)
  <1> DEFINE t == <<x>>
  <1>1. Len(t) = 1 /\ t[1] = x
    OBVIOUS
  <1>2. IsList(t)
    BY RunOne
  <1> HIDE DEF t
  <1>3. WholeEnds(t)
    BY <1>1 DEF WholeEnds
  <1> QED
    BY <1>1, <1>2, <1>3 DEF t

LEMMA WholeReturn ==
    ASSUME NEW crlf \in BOOLEAN
    PROVE  IsList(Ends(crlf)) /\ WholeEnds(Ends(crlf))
  <1>1. CASE crlf = FALSE
    BY <1>1, EndsDiffer, WholeOne DEF Ends
  <1>2. CASE crlf = TRUE
    <2> DEFINE e == Ends(crlf)
    <2>1. Len(e) = 2 /\ e[1] = CR /\ e[2] = LF
      BY <1>2 DEF Ends
    <2>2. IsList(e)
      BY EmptyList, RunEnds
    <2> HIDE DEF e
    <2>3. ASSUME NEW k \in 1 .. Len(e), e[k] = CR PROVE k < Len(e) /\ e[k + 1] = LF
      <3>1. k = 1 \/ k = 2
        BY <2>1
      <3>2. k = 1
        BY <2>1, <2>3, <3>1, EndsDiffer
      <3> QED
        BY <2>1, <3>2
    <2> QED
      BY <2>2, <2>3 DEF WholeEnds, e
  <1> QED
    BY <1>1, <1>2

LEMMA WholeLine ==
    ASSUME NEW x, x.is = "line", NEW crlf \in BOOLEAN
    PROVE  /\ IsList(LineOf(x, crlf)) /\ WholeEnds(LineOf(x, crlf))
           /\ Len(LineOf(x, crlf)) # 0
  <1> DEFINE a == <<x>>
             e == Ends(crlf)
  <1>1. LineOf(x, crlf) = Join(a, e)
    BY DEF LineOf, Join
  <1>2. IsList(a) /\ Len(a) = 1 /\ WholeEnds(a)
    <2>1. x # CR
      BY DEF CR
    <2> QED
      BY <2>1, WholeOne
  <1>3. IsList(e) /\ WholeEnds(e) /\ Len(e) \in Nat
    BY WholeReturn, ListFacts
  <1> HIDE DEF a, e
  <1>4. IsList(Join(a, e)) /\ Len(Join(a, e)) = Len(a) + Len(e) /\ WholeEnds(Join(a, e))
    BY <1>2, <1>3, JoinIs, WholeJoined
  <1> QED
    BY <1>1, <1>2, <1>3, <1>4

LEMMA WholeFrame ==
    ASSUME NEW f, NEW crlf \in BOOLEAN
    PROVE  /\ IsList(WireOf(f, crlf)) /\ WholeEnds(WireOf(f, crlf))
           /\ Len(WireOf(f, crlf)) \in Nat \ {0}
  <1> DEFINE e == Ends(crlf)
             c == LineOf(TextLine("comment", NotAnEvent), crlf)
             x == LineOf(TextLine("event", NotAnEvent), crlf)
             y == LineOf(TextLine("data", f), crlf)
             z == LineOf(TextLine("id", NotAnEvent), crlf)
  <1>1. \A name, value : TextLine(name, value).is = "line"
    BY DEF TextLine
  <1>2. IsList(e) /\ WholeEnds(e)
    BY WholeReturn
  <1>3. /\ IsList(c) /\ WholeEnds(c) /\ Len(c) # 0
        /\ IsList(x) /\ WholeEnds(x) /\ Len(x) # 0
        /\ IsList(y) /\ WholeEnds(y) /\ IsList(z) /\ WholeEnds(z)
    BY <1>1, WholeLine
  <1>4. WireOf(f, crlf) = IF f = NotAnEvent THEN Join(c, e) ELSE Join(x, Join(y, Join(z, e)))
    BY WireIs
  <1> HIDE DEF e, c, x, y, z
  <1>5. IsList(Join(c, e)) /\ WholeEnds(Join(c, e)) /\ Len(Join(c, e)) # 0
    <2>1. Len(Join(c, e)) = Len(c) + Len(e) /\ Len(c) \in Nat /\ Len(e) \in Nat
      BY <1>2, <1>3, JoinIs, ListFacts
    <2> QED
      BY <1>2, <1>3, <2>1, JoinIs, WholeJoined
  <1>6. IsList(Join(z, e)) /\ WholeEnds(Join(z, e))
    BY <1>2, <1>3, JoinIs, WholeJoined
  <1>7. IsList(Join(y, Join(z, e))) /\ WholeEnds(Join(y, Join(z, e)))
    BY <1>3, <1>6, JoinIs, WholeJoined
  <1>8. /\ IsList(Join(x, Join(y, Join(z, e)))) /\ WholeEnds(Join(x, Join(y, Join(z, e))))
        /\ Len(Join(x, Join(y, Join(z, e)))) # 0
    <2> DEFINE u == Join(y, Join(z, e))
    <2>1. IsList(u) /\ WholeEnds(u)
      BY <1>7
    <2> HIDE DEF u
    <2>2. Len(Join(x, u)) = Len(x) + Len(u) /\ Len(x) \in Nat /\ Len(u) \in Nat
      BY <1>3, <2>1, JoinIs, ListFacts
    <2>3. IsList(Join(x, u)) /\ WholeEnds(Join(x, u)) /\ Len(Join(x, u)) # 0
      BY <1>3, <2>1, <2>2, JoinIs, WholeJoined
    <2> QED
      BY <2>3 DEF u
  <1> QED
    BY <1>4, <1>5, <1>8, ListFacts

(* A text that begins another.                                             *)
Begins(a, b) == Len(a) <= Len(b) /\ \A k \in 1 .. Len(a) : a[k] = b[k]

LEMMA BeginsJoined ==
    ASSUME NEW a, IsList(a), NEW b, IsList(b)
    PROVE  Begins(a, Join(a, b))
  <1>1. Len(a) \in Nat /\ Len(b) \in Nat
    BY ListFacts
  <1>2. /\ Len(Join(a, b)) = Len(a) + Len(b)
        /\ \A k \in 1 .. Len(a) : Join(a, b)[k] = a[k]
    BY JoinedList DEF Join
  <1> QED
    BY <1>1, <1>2 DEF Begins

LEMMA BeginsTwice ==
    ASSUME NEW a, IsList(a), NEW b, IsList(b), NEW c, IsList(c), Begins(a, b), Begins(b, c)
    PROVE  Begins(a, c)
  <1>1. Len(a) \in Nat /\ Len(b) \in Nat /\ Len(c) \in Nat
    BY ListFacts
  <1>2. \A k \in 1 .. Len(a) : k \in 1 .. Len(b)
    BY <1>1 DEF Begins
  <1> QED
    BY <1>1, <1>2 DEF Begins

LEMMA BeginsOneReturn ==
    ASSUME NEW a, IsList(a), NEW b, IsList(b), Begins(a, b), WholeEnds(b)
    PROVE  OneReturn(a)
  <1>1. Len(a) \in Nat /\ Len(b) \in Nat /\ Len(a) <= Len(b)
    BY ListFacts DEF Begins
  <1>2. ASSUME NEW k \in 2 .. Len(a), a[k] = CR, a[k - 1] = CR PROVE FALSE
    <2> DEFINE j == k - 1
    <2>1. j \in 1 .. Len(a) /\ k \in 1 .. Len(a) /\ j \in 1 .. Len(b) /\ j + 1 = k
      BY <1>1
    <2> HIDE DEF j
    <2>2. b[j] = CR /\ b[k] = CR
      BY <1>2, <2>1 DEF Begins, j
    <2>3. b[j + 1] = LF
      BY <2>1, <2>2 DEF WholeEnds
    <2> QED
      BY <2>1, <2>2, <2>3, EndsDiffer
  <1> QED
    BY <1>2 DEF OneReturn

LEMMA FedSame ==
    ASSUME NEW a, IsList(a), NEW b, Begins(a, b), NEW s, NEW n \in 0 .. Len(a)
    PROVE  FedAfter(a, s, n) = FedAfter(b, s, n)
  <1>1. n \in Nat /\ \A k \in 1 .. n : k \in 1 .. Len(a)
    BY ListFacts
  <1>2. Feeds!Picks(1 .. n)
    BY <1>1, LastOfPositions DEF Feeds!Picks
  <1>3. \A k \in 1 .. n : \A y : Fed(y, Nth(a, k)) = Fed(y, Nth(b, k))
    BY <1>1 DEF Nth, Begins
  <1>4. Feeds!Fold(a, s, 1 .. n) = Feeds!Fold(b, s, 1 .. n)
    BY <1>1, <1>2, <1>3, Feeds!ListSame
  <1> QED
    BY <1>4 DEF FedAfter

(* Parts are added one at a time, and only when nothing is left.           *)
LEMMA FedGrows ==
    ASSUME NEW s, IsSplit(s), NEW x
    PROVE  /\ Fed(s, x).parts = s.parts
              \/ Len(Fed(s, x).parts) = Len(s.parts) + 1
           /\ Fed(s, x).rest = <<>> => Len(Fed(s, x).parts) = Len(s.parts) + 1
  <1> DEFINE ps == s.parts
             r == s.rest
             v == NoReturn(r)
  <1>1. IsList(ps) /\ IsList(r) /\ IsList(v)
    BY NoReturnIsList DEF IsSplit
  <1>2. CASE x # LF
    <2>1. Fed(s, x).parts = ps /\ Fed(s, x).rest = Append(r, x)
      BY <1>2 DEF Fed
    <2>2. Append(r, x) # <<>>
      BY <1>1, LastAppended
    <2> QED
      BY <2>1, <2>2
  <1>3. CASE x = LF
    <2>1. Fed(s, x) = Broken(ps, v)
      BY <1>3 DEF Fed
    <2> HIDE DEF v
    <2>2. CASE v # <<>> /\ Last(v) = LF
      <3> DEFINE f == Front(v)
      <3>1. Fed(s, x).parts = Append(ps, f)
        BY <2>1, <2>2 DEF Broken
      <3> HIDE DEF f, ps
      <3>2. Len(Append(ps, f)) = Len(ps) + 1
        BY <1>1, AppendedList
      <3> QED
        BY <3>1, <3>2 DEF ps
    <2>3. CASE ~(v # <<>> /\ Last(v) = LF)
      <3>1. Fed(s, x).parts = ps /\ Fed(s, x).rest = Append(v, LF)
        BY <2>1, <2>3 DEF Broken
      <3>2. Append(v, LF) # <<>>
        BY <1>1, LastAppended
      <3> QED
        BY <3>1, <3>2
    <2> QED
      BY <2>2, <2>3
  <1> QED
    BY <1>2, <1>3

PartsGrow(t, i, j) ==
    /\ Len(FedAfter(t, AtFirst, i).parts) <= Len(FedAfter(t, AtFirst, j).parts)
    /\ Len(FedAfter(t, AtFirst, i).parts) = Len(FedAfter(t, AtFirst, j).parts) =>
         FedAfter(t, AtFirst, i).parts = FedAfter(t, AtFirst, j).parts

LEMMA FedAtFirst ==
    ASSUME NEW t, NEW n \in Nat
    PROVE  /\ IsSplit(FedAfter(t, AtFirst, n))
           /\ Len(FedAfter(t, AtFirst, n).parts) \in Nat
  <1>1. IsSplit(AtFirst)
    BY EmptyList DEF IsSplit, AtFirst
  <1>2. IsSplit(FedAfter(t, AtFirst, n))
    BY <1>1, FedAfterIsSplit
  <1> QED
    BY <1>2, ListFacts DEF IsSplit

LEMMA PartsOnlyGrow ==
    ASSUME NEW t, NEW i \in Nat, NEW j \in Nat, i <= j
    PROVE  PartsGrow(t, i, j)
  <1> DEFINE T == {n \in Nat : i <= n /\ ~PartsGrow(t, i, n)}
  <1>1. ASSUME NEW n \in T, \A k \in T : n <= k PROVE FALSE
    <2>1. n \in Nat /\ i <= n /\ ~PartsGrow(t, i, n)
      OBVIOUS
    <2>2. CASE n = i
      <3>1. Len(FedAfter(t, AtFirst, i).parts) \in Nat
        BY FedAtFirst
      <3> QED
        BY <2>1, <2>2, <3>1 DEF PartsGrow
    <2>3. CASE n # i
      <3> DEFINE k == n - 1
                 a == FedAfter(t, AtFirst, i)
                 b == FedAfter(t, AtFirst, k)
                 c == FedAfter(t, AtFirst, n)
      <3>1. k \in Nat /\ i <= k /\ ~(n <= k) /\ n # 0
        BY <2>1, <2>3
      <3>2. c = Fed(b, t[n])
        BY <2>1, <3>1, FedNext
      <3> HIDE DEF k
      <3>3. PartsGrow(t, i, k)
        BY <1>1, <3>1
      <3>4. IsSplit(b) /\ Len(a.parts) \in Nat /\ Len(b.parts) \in Nat
        BY <3>1, FedAtFirst
      <3>5. Len(a.parts) <= Len(b.parts)
            /\ (Len(a.parts) = Len(b.parts) => a.parts = b.parts)
        BY <3>3 DEF PartsGrow
      <3> HIDE DEF a, b, c
      <3>6. c.parts = b.parts \/ Len(c.parts) = Len(b.parts) + 1
        BY <3>2, <3>4, FedGrows
      <3>7. Len(a.parts) <= Len(c.parts)
            /\ (Len(a.parts) = Len(c.parts) => a.parts = c.parts)
        BY <3>4, <3>5, <3>6
      <3> QED
        BY <2>1, <3>7 DEF PartsGrow, a, c
    <2> QED
      BY <2>2, <2>3
  <1>2. T = {}
    <2> HIDE DEF T
    <2>1. T \in SUBSET Nat
      BY DEF T
    <2> QED
      BY <1>1, <2>1, FirstOf
  <1> QED
    BY <1>2

-----------------------------------------------------------------------------
(* The wire of the first n frames.                                         *)
Tapes == INSTANCE FoldFacts
    WITH Op <- LAMBDA p, w, f : w \o WireOf(f, p.crlf),
         Value <- LAMBDA p, i : Nth(p.tape, i), Pick <- LAMBDA s : Max(s),
         Inv <- LAMBDA p, n, w : TRUE
Taped(tape, crlf) == [tape |-> tape, crlf |-> crlf]
TapeTo(tape, crlf, n) == Tapes!Fold(Taped(tape, crlf), <<>>, 1 .. n)

LEMMA TapeNext ==
    ASSUME NEW tape, NEW crlf, NEW n \in Nat
    PROVE  TapeTo(tape, crlf, n)
             = IF n = 0 THEN <<>> ELSE Join(TapeTo(tape, crlf, n - 1), WireOf(tape[n], crlf))
  <1> DEFINE p == Taped(tape, crlf)
             base == <<>>
  <1>1. Tapes!Picks(1 .. n) /\ Tapes!LastPicked(n)
    BY LastOfPositions DEF Tapes!Picks, Tapes!LastPicked
  <1>2. p.tape = tape /\ p.crlf = crlf
    BY DEF Taped
  <1> HIDE DEF p, base
  <1>3. Tapes!Fold(p, base, 1 .. n)
          = IF n = 0 THEN base
            ELSE Join(Tapes!Fold(p, base, 1 .. (n - 1)), WireOf(Nth(p.tape, n), p.crlf))
    BY <1>1, Tapes!ListEquation DEF Join
  <1> QED
    BY <1>2, <1>3 DEF TapeTo, Nth, p, base

LEMMA WireFold ==
    ASSUME NEW tape, IsList(tape), NEW crlf, NEW n, n = Len(tape)
    PROVE  Wire(tape, crlf) = TapeTo(tape, crlf, n)
  <1>1. DOMAIN tape = 1 .. n
    BY ListFacts
  <1>2. Taped(tape, crlf).tape = tape /\ Taped(tape, crlf).crlf = crlf
    BY DEF Taped
  <1> QED
    BY <1>1, <1>2 DEF Wire, FoldLeft, MapThenFoldSet, TapeTo, Tapes!Fold,
                      Tapes!MapThenFoldSet, Nth

LEMMA WireOfBeginning ==
    ASSUME NEW tape, IsList(tape), NEW crlf, NEW n \in 0 .. Len(tape)
    PROVE  Wire(SubSeq(tape, 1, n), crlf) = TapeTo(tape, crlf, n)
  <1> DEFINE a == SubSeq(tape, 1, n)
             p == Taped(a, crlf)
             q == Taped(tape, crlf)
             base == <<>>
  <1>1. n \in Nat
    BY ListFacts
  <1>2. IsList(a) /\ n = Len(a) /\ \A k \in 1 .. n : a[k] = tape[k]
    BY Beginning
  <1> HIDE DEF a
  <1>3. Wire(a, crlf) = TapeTo(a, crlf, n)
    BY <1>2, WireFold
  <1>4. p.tape = a /\ p.crlf = crlf /\ q.tape = tape /\ q.crlf = crlf
    BY DEF Taped
  <1> HIDE DEF p, q, base
  <1>5. Tapes!Picks(1 .. n)
    BY <1>1, LastOfPositions DEF Tapes!Picks
  <1>6. \A k \in 1 .. n : \A y :
          y \o WireOf(Nth(p.tape, k), p.crlf) = y \o WireOf(Nth(q.tape, k), q.crlf)
    <2>1. \A k \in 1 .. n : Nth(p.tape, k) = Nth(q.tape, k)
      BY <1>2, <1>4 DEF Nth
    <2> QED
      BY <1>4, <2>1
  <1>7. Tapes!Fold(p, base, 1 .. n) = Tapes!Fold(q, base, 1 .. n)
    BY <1>1, <1>5, <1>6, Tapes!ListSame
  <1> QED
    BY <1>3, <1>7 DEF TapeTo, a, p, q, base

(* The frames of a tape come out of its wire as parts, one by one.         *)
PartsAreOf(tape, n, ps) ==
    IsListTo(ps, n) /\ \A k \in 1 .. n : ps[k] = PartOf(tape[k])
TapeIs(tape, crlf, n) ==
    /\ IsList(TapeTo(tape, crlf, n)) /\ WholeEnds(TapeTo(tape, crlf, n))
    /\ \E ps : PartsAreOf(tape, n, ps)
               /\ Run(TapeTo(tape, crlf, n), AtFirst) = Left(ps, <<>>)

LEMMA NoTape ==
    ASSUME NEW tape, NEW crlf
    PROVE  TapeTo(tape, crlf, 0) = <<>> /\ TapeIs(tape, crlf, 0)
  <1> DEFINE none == <<>>
  <1>1. IsList(none) /\ Len(none) = 0
    BY EmptyList
  <1>2. TapeTo(tape, crlf, 0) = none
    BY TapeNext
  <1>3. AtFirst = Left(none, none)
    BY DEF AtFirst, Left
  <1> HIDE DEF none
  <1>4. WholeEnds(none)
    BY <1>1 DEF WholeEnds
  <1>5. Run(none, AtFirst) = Left(none, none)
    BY <1>1, <1>3, FedNext DEF Run
  <1>6. PartsAreOf(tape, 0, none)
    BY <1>1 DEF PartsAreOf, IsListTo
  <1>7. TapeIs(tape, crlf, 0)
    <2>1. Run(TapeTo(tape, crlf, 0), AtFirst) = Left(none, <<>>)
      BY <1>2, <1>5 DEF none
    <2> QED
      BY <1>1, <1>2, <1>4, <1>6, <2>1 DEF TapeIs
  <1> QED
    BY <1>2, <1>7 DEF none

LEMMA PartsOfNext ==
    ASSUME NEW tape, NEW n \in Nat, NEW ps, PartsAreOf(tape, n, ps), NEW m, m = n + 1
    PROVE  PartsAreOf(tape, m, Append(ps, PartOf(tape[m])))
  <1> DEFINE x == PartOf(tape[m])
  <1>1. IsListTo(ps, n) /\ \A k \in 1 .. n : ps[k] = PartOf(tape[k])
    BY DEF PartsAreOf
  <1> HIDE DEF x
  <1>2. /\ IsListTo(Add(ps, x), m) /\ Add(ps, x)[m] = x
        /\ \A k \in 1 .. n : Add(ps, x)[k] = ps[k]
    BY <1>1, AppendedNext
  <1>3. \A k \in 1 .. m : k = m \/ k \in 1 .. n
    OBVIOUS
  <1>4. PartsAreOf(tape, m, Add(ps, x))
    BY <1>1, <1>2, <1>3 DEF PartsAreOf, x
  <1> QED
    BY <1>4 DEF Add, x

LEMMA NextTape ==
    ASSUME NEW tape, NEW crlf \in BOOLEAN, NEW n \in Nat, TapeIs(tape, crlf, n),
           NEW m, m = n + 1
    PROVE  /\ TapeIs(tape, crlf, m)
           /\ Begins(TapeTo(tape, crlf, n), TapeTo(tape, crlf, m))
           /\ Len(TapeTo(tape, crlf, n)) < Len(TapeTo(tape, crlf, m))
  <1> DEFINE w == TapeTo(tape, crlf, n)
             f == tape[m]
             a == WireOf(f, crlf)
  <1>1. IsList(w) /\ WholeEnds(w)
    BY DEF TapeIs
  <1>2. PICK ps : PartsAreOf(tape, n, ps) /\ Run(w, AtFirst) = Left(ps, <<>>)
    BY DEF TapeIs
  <1>3. m \in Nat /\ m # 0 /\ m - 1 = n
    OBVIOUS
  <1>4. TapeTo(tape, crlf, m) = Join(w, a)
    BY <1>3, TapeNext
  <1>5. IsList(a) /\ WholeEnds(a) /\ Len(a) \in Nat \ {0}
    BY WholeFrame
  <1>6. Run(a, Left(ps, <<>>)) = Left(Append(ps, PartOf(f)), <<>>)
    BY FrameIsPart
  <1>7. PartsAreOf(tape, m, Append(ps, PartOf(f)))
    BY <1>2, PartsOfNext
  <1> HIDE DEF w, a
  <1>8. IsList(Join(w, a)) /\ WholeEnds(Join(w, a)) /\ Begins(w, Join(w, a))
        /\ Len(Join(w, a)) = Len(w) + Len(a) /\ Len(w) \in Nat
    BY <1>1, <1>5, JoinIs, WholeJoined, BeginsJoined, ListFacts
  <1>9. Run(Join(w, a), AtFirst) = Run(a, Run(w, AtFirst))
    BY <1>1, <1>5, RunJoined
  <1>10. Len(w) < Len(Join(w, a))
    BY <1>5, <1>8
  <1>11. Run(Join(w, a), AtFirst) = Left(Append(ps, PartOf(f)), <<>>)
    BY <1>2, <1>6, <1>9
  <1> HIDE DEF f
  <1>12. TapeIs(tape, crlf, m)
    BY <1>4, <1>7, <1>8, <1>11 DEF TapeIs, f
  <1> QED
    BY <1>4, <1>8, <1>10, <1>12 DEF w

LEMMA TapesAre ==
    ASSUME NEW tape, NEW crlf \in BOOLEAN, NEW n \in Nat
    PROVE  TapeIs(tape, crlf, n)
  <1> DEFINE T == {k \in Nat : ~TapeIs(tape, crlf, k)}
  <1>1. ASSUME NEW m \in T, \A k \in T : m <= k PROVE FALSE
    <2>1. m \in Nat /\ ~TapeIs(tape, crlf, m)
      OBVIOUS
    <2>2. m # 0
      BY <2>1, NoTape
    <2> DEFINE k == m - 1
    <2>3. k \in Nat /\ m = k + 1 /\ ~(m <= k)
      BY <2>1, <2>2
    <2> HIDE DEF k
    <2>4. TapeIs(tape, crlf, k)
      BY <1>1, <2>3
    <2> QED
      BY <2>1, <2>3, <2>4, NextTape
  <1>2. T = {}
    <2> HIDE DEF T
    <2>1. T \in SUBSET Nat
      BY DEF T
    <2> QED
      BY <1>1, <2>1, FirstOf
  <1> QED
    BY <1>2

LEMMA TapesBegin ==
    ASSUME NEW tape, NEW crlf \in BOOLEAN, NEW n \in Nat, NEW m \in Nat, n <= m
    PROVE  Begins(TapeTo(tape, crlf, n), TapeTo(tape, crlf, m))
  <1> DEFINE w == TapeTo(tape, crlf, n)
             T == {k \in Nat : n <= k /\ ~Begins(w, TapeTo(tape, crlf, k))}
  <1>0. IsList(w) /\ Len(w) \in Nat
    BY TapesAre, ListFacts DEF TapeIs
  <1>1. ASSUME NEW j \in T, \A k \in T : j <= k PROVE FALSE
    <2>1. j \in Nat /\ n <= j /\ ~Begins(w, TapeTo(tape, crlf, j))
      OBVIOUS
    <2>2. n # j
      <3>1. Begins(w, w)
        BY <1>0 DEF Begins
      <3> QED
        BY <2>1, <3>1
    <2> DEFINE k == j - 1
    <2>3. k \in Nat /\ j = k + 1 /\ ~(j <= k) /\ n <= k
      BY <2>1, <2>2
    <2> HIDE DEF k, w
    <2>4. Begins(w, TapeTo(tape, crlf, k))
      BY <1>1, <2>3
    <2>5. TapeIs(tape, crlf, k) /\ TapeIs(tape, crlf, j)
      BY <2>1, <2>3, TapesAre
    <2>6. Begins(TapeTo(tape, crlf, k), TapeTo(tape, crlf, j))
      BY <2>3, <2>5, NextTape
    <2>7. IsList(TapeTo(tape, crlf, k)) /\ IsList(TapeTo(tape, crlf, j))
      BY <2>5 DEF TapeIs
    <2> QED
      BY <1>0, <2>1, <2>4, <2>6, <2>7, BeginsTwice
  <1>2. T = {}
    <2> HIDE DEF T
    <2>1. T \in SUBSET Nat
      BY DEF T
    <2> QED
      BY <1>1, <2>1, FirstOf
  <1> QED
    BY <1>2

(* A text that begins the wire of a tape has the parts of the frames that  *)
(* came whole.                                                             *)
LEMMA PartsCameWhole ==
    ASSUME NEW tape, NEW crlf \in BOOLEAN, NEW all \in Nat, NEW n \in 0 .. all,
           NEW t, IsList(t), Begins(t, TapeTo(tape, crlf, all)),
           Len(TapeTo(tape, crlf, n)) <= Len(t),
           n < all => Len(TapeTo(tape, crlf, n + 1)) > Len(t)
    PROVE  PartsAreOf(tape, n, Machine(t).parts)
  <1> DEFINE wall == TapeTo(tape, crlf, all)
             w == TapeTo(tape, crlf, n)
             e == Len(t)
             i == Len(w)
  <1>1. /\ IsList(wall) /\ IsList(w) /\ n \in Nat /\ n <= all
        /\ e \in Nat /\ i \in Nat /\ i <= e /\ Begins(w, wall) /\ Begins(t, wall)
        /\ e = Len(t) /\ i = Len(w)
    BY TapesAre, TapesBegin, ListFacts DEF TapeIs
  <1>2. PICK ps : PartsAreOf(tape, n, ps) /\ Run(w, AtFirst) = Left(ps, <<>>)
    BY <1>1, TapesAre DEF TapeIs
  <1>3. Len(ps) = n
    BY <1>2 DEF PartsAreOf, IsListTo
  <1>4. FedAfter(wall, AtFirst, i).parts = ps
    <2> HIDE DEF wall, w, i
    <2>1. i \in 0 .. Len(w)
      BY <1>1
    <2>2. FedAfter(w, AtFirst, i) = FedAfter(wall, AtFirst, i)
      BY <1>1, <2>1, FedSame
    <2> QED
      BY <1>1, <1>2, <2>2 DEF Run, Left
  <1>5. Machine(t) = FedAfter(wall, AtFirst, e)
    <2> HIDE DEF wall, e
    <2>1. e \in 0 .. Len(t)
      BY <1>1
    <2>2. FedAfter(t, AtFirst, e) = FedAfter(wall, AtFirst, e)
      BY <1>1, <2>1, FedSame
    <2> QED
      BY <1>1, <2>2 DEF Machine
  <1>6. FedAfter(wall, AtFirst, e).parts = ps
    <2>1. CASE n = all
      <3>1. e = i
        BY <1>1, <2>1 DEF Begins
      <3> QED
        BY <1>4, <3>1
    <2>2. CASE n # all
      <3> DEFINE next == n + 1
                 v == TapeTo(tape, crlf, next)
                 j == Len(v)
                 l == j - 1
      <3>1. next \in Nat /\ next <= all /\ next = n + 1
        BY <1>1, <2>2
      <3> HIDE DEF next
      <3>2. IsList(v) /\ j \in Nat /\ j = Len(v) /\ Begins(v, wall)
        BY <3>1, TapesAre, TapesBegin, ListFacts DEF TapeIs
      <3>3. e < j
        BY <1>1, <2>2 DEF next
      <3>4. PICK qs : PartsAreOf(tape, next, qs) /\ Run(v, AtFirst) = Left(qs, <<>>)
        BY <3>1, TapesAre DEF TapeIs
      <3>5. l \in Nat /\ e <= l /\ j # 0 /\ i <= l
        BY <1>1, <3>2, <3>3
      <3> HIDE DEF wall, w, v, i, j, e
      <3>6. FedAfter(wall, AtFirst, j) = Left(qs, <<>>)
        <4>1. j \in 0 .. Len(v)
          BY <3>2
        <4>2. FedAfter(v, AtFirst, j) = FedAfter(wall, AtFirst, j)
          BY <1>1, <3>2, <4>1, FedSame
        <4> QED
          BY <3>2, <3>4, <4>2 DEF Run
      <3>7. Left(qs, <<>>).parts = qs /\ Left(qs, <<>>).rest = <<>> /\ Len(qs) = n + 1
        BY <3>1, <3>4 DEF Left, PartsAreOf, IsListTo
      <3>8. FedAfter(wall, AtFirst, j) = Fed(FedAfter(wall, AtFirst, l), wall[j])
        BY <3>2, <3>5, FedNext
      <3> HIDE DEF l
      <3>9. IsSplit(FedAfter(wall, AtFirst, l))
            /\ Len(FedAfter(wall, AtFirst, l).parts) \in Nat
        BY <3>5, FedAtFirst
      <3>10. Len(qs) = Len(FedAfter(wall, AtFirst, l).parts) + 1
        BY <3>6, <3>7, <3>8, <3>9, FedGrows
      <3>11. Len(FedAfter(wall, AtFirst, l).parts) = n
        BY <1>1, <3>7, <3>9, <3>10
      <3>12. PartsGrow(wall, i, e) /\ PartsGrow(wall, e, l)
        BY <1>1, <3>5, PartsOnlyGrow
      <3>13. Len(FedAfter(wall, AtFirst, e).parts) \in Nat
        BY <1>1, FedAtFirst
      <3>14. Len(FedAfter(wall, AtFirst, e).parts) = n
        BY <1>1, <1>3, <1>4, <3>11, <3>12, <3>13 DEF PartsGrow
      <3> QED
        BY <1>3, <1>4, <3>12, <3>14 DEF PartsGrow
    <2> QED
      BY <2>1, <2>2
  <1> QED
    BY <1>2, <1>5, <1>6

LEMMA EventsCameWhole ==
    ASSUME NEW tape, IsList(tape), NEW n \in 0 .. Len(tape),
           NEW ps, PartsAreOf(tape, n, ps)
    PROVE  EventsOf(ps) = SubSeq(tape, 1, n)
  <1> DEFINE a == SubSeq(tape, 1, n)
             b == EventsOf(ps)
  <1>1. IsList(a) /\ Len(a) = n /\ \A k \in 1 .. n : a[k] = tape[k]
    BY Beginning
  <1>2. IsList(ps) /\ Len(ps) = n /\ \A k \in 1 .. n : ps[k] = PartOf(tape[k])
    BY DEF PartsAreOf, IsListTo
  <1>3. DOMAIN ps = 1 .. n
    BY <1>2, ListFacts
  <1>4. b = [k \in DOMAIN ps |-> b[k]] /\ \A k \in 1 .. n : b[k] = EventOf(ps[k])
    BY <1>3 DEF EventsOf
  <1> HIDE DEF a, b
  <1>5. IsList(b) /\ Len(b) = n
    BY <1>2, <1>4, MappedList
  <1>6. \A k \in 1 .. n : b[k] = a[k]
    BY <1>1, <1>2, <1>4, PartIsEvent
  <1>7. b = a
    BY <1>1, <1>5, <1>6, SameList
  <1> QED
    BY <1>7 DEF a, b

(* Some number of frames came whole.                                       *)
CameWhole(tape, crlf, end, n) ==
    /\ Len(Wire(SubSeq(tape, 1, n), crlf)) <= end
    /\ n < Len(tape) => Len(Wire(SubSeq(tape, 1, n + 1), crlf)) > end

LEMMA SomeCameWhole ==
    ASSUME NEW tape, IsList(tape), NEW crlf \in BOOLEAN, NEW end \in Nat
    PROVE  \E n \in 0 .. Len(tape) : CameWhole(tape, crlf, end, n)
  <1> DEFINE all == Len(tape)
             w(k) == Wire(SubSeq(tape, 1, k), crlf)
             T == {n \in Nat : n <= all /\ (n = all \/ Len(w(n + 1)) > end)}
  <1>1. all \in Nat
    BY ListFacts
  <1>2. \A k \in 0 .. all : Len(w(k)) \in Nat
    <2>1. \A k \in 0 .. all : w(k) = TapeTo(tape, crlf, k) /\ k \in Nat
      BY <1>1, WireOfBeginning
    <2> QED
      BY <2>1, TapesAre, ListFacts DEF TapeIs
  <1>3. w(0) = <<>>
    <2>1. 0 \in 0 .. all
      BY <1>1
    <2> QED
      BY <2>1, WireOfBeginning, NoTape
  <1>4. PICK n \in T : \A k \in T : n <= k
    <2>1. all \in T /\ T \in SUBSET Nat
      BY <1>1
    <2> HIDE DEF T
    <2> QED
      BY <2>1, FirstOf
  <1>5. n \in Nat /\ n <= all /\ (n = all \/ Len(w(n + 1)) > end)
    BY <1>4
  <1>6. Len(w(n)) <= end
    <2>1. CASE n = 0
      BY <1>3, <2>1, EmptyList
    <2>2. CASE n # 0
      <3> DEFINE k == n - 1
      <3>1. k \in Nat /\ k < all /\ k + 1 = n /\ ~(n <= k)
        BY <1>1, <1>5, <2>2
      <3>2. k \notin T
        <4> HIDE DEF T, k
        <4> QED
          BY <1>4, <3>1
      <3>3. ~(Len(w(k + 1)) > end)
        BY <3>1, <3>2
      <3>4. ~(Len(w(n)) > end)
        BY <3>1, <3>3
      <3>5. Len(w(n)) \in Nat
        BY <1>2, <1>5
      <3> HIDE DEF w
      <3> QED
        BY <3>4, <3>5
    <2> QED
      BY <2>1, <2>2
  <1>7. n \in 0 .. all
    BY <1>1, <1>5
  <1> QED
    BY <1>1, <1>5, <1>6, <1>7 DEF CameWhole

(* What is read of a stream is what came whole of it.                      *)
LEMMA ViewOfWholeFrames ==
    ASSUME NEW tape, IsList(tape), NEW crlf \in BOOLEAN,
           NEW chunks, IsList(chunks), \A k \in DOMAIN chunks : IsList(chunks[k]),
           IsPrefix(Joined(chunks), Wire(tape, crlf)),
           NEW n \in 0 .. Len(tape), CameWhole(tape, crlf, Len(Joined(chunks)), n)
    PROVE  RunLiveView(chunks) = ApplyEvents(EmptyView, OnlyEvents(SubSeq(tape, 1, n)))
  <1> DEFINE t == Joined(chunks)
             all == Len(tape)
             wall == TapeTo(tape, crlf, all)
  <1>1. all \in Nat /\ n \in Nat /\ n <= all /\ all = Len(tape)
    BY ListFacts
  <1> HIDE DEF all
  <1>2. IsList(t)
    <2> DEFINE m == Len(chunks)
    <2>1. m \in Nat /\ m = Len(chunks) /\ DOMAIN chunks = 1 .. m
      BY ListFacts
    <2> HIDE DEF m
    <2>2. \A k \in 1 .. m : IsList(chunks[k])
      BY <2>1
    <2> QED
      BY <2>1, <2>2, JoinedFold, JoinedIsList
  <1>3. Wire(tape, crlf) = wall
    BY <1>1, WireFold
  <1>4. IsList(wall) /\ WholeEnds(wall)
    BY <1>1, TapesAre DEF TapeIs
  <1>5. IsPrefix(t, wall)
    BY <1>3
  <1> HIDE DEF t, wall
  <1>6. Begins(t, wall)
    <2> DEFINE e == Len(t)
               a == SubSeq(t, 1, e)
               b == SubSeq(wall, 1, e)
    <2>1. e \in Nat /\ e = Len(t) /\ Len(wall) \in Nat
      BY <1>2, <1>4, ListFacts
    <2>2. e <= Len(wall) /\ a = b
      BY <1>5 DEF IsPrefix
    <2> HIDE DEF e
    <2>3. a = t
      BY <1>2, <2>1, WholeList
    <2>4. \A k \in 1 .. e : b[k] = wall[k]
      BY <1>4, <2>1, <2>2, Beginning
    <2> HIDE DEF a, b
    <2> QED
      BY <2>1, <2>2, <2>3, <2>4 DEF Begins
  <1>7. OneReturn(t)
    BY <1>2, <1>4, <1>6, BeginsOneReturn
  <1>8. RunLiveView(chunks) = ApplyEvents(EmptyView, ParseSse(t).events)
    BY <1>7, CutsDoNotMatter DEF t
  <1>9. ParseSse(t).events = OnlyEvents(EventsOf(Machine(t).parts))
    BY <1>2, ParsedText DEF EventsRead
  <1>10. Len(TapeTo(tape, crlf, n)) <= Len(t)
         /\ (n < all => Len(TapeTo(tape, crlf, n + 1)) > Len(t))
    <2>1. Wire(SubSeq(tape, 1, n), crlf) = TapeTo(tape, crlf, n)
      BY WireOfBeginning
    <2>2. n < all => Wire(SubSeq(tape, 1, n + 1), crlf) = TapeTo(tape, crlf, n + 1)
      <3> DEFINE m == n + 1
      <3>1. n < all => m \in 0 .. Len(tape)
        BY <1>1
      <3> HIDE DEF m
      <3>2. n < all => Wire(SubSeq(tape, 1, m), crlf) = TapeTo(tape, crlf, m)
        BY <3>1, WireOfBeginning
      <3> QED
        BY <3>2 DEF m
    <2> QED
      BY <1>1, <2>1, <2>2 DEF CameWhole, t
  <1>11. PartsAreOf(tape, n, Machine(t).parts)
    <2>1. n \in 0 .. all /\ Begins(t, TapeTo(tape, crlf, all))
      BY <1>1, <1>6 DEF wall
    <2> QED
      BY <1>1, <1>2, <1>10, <2>1, PartsCameWhole
  <1>12. EventsOf(Machine(t).parts) = SubSeq(tape, 1, n)
    <2> DEFINE ps == Machine(t).parts
    <2>1. PartsAreOf(tape, n, ps)
      BY <1>11
    <2> HIDE DEF ps
    <2>2. EventsOf(ps) = SubSeq(tape, 1, n)
      BY <2>1, EventsCameWhole
    <2> QED
      BY <2>2 DEF ps
  <1> QED
    BY <1>8, <1>9, <1>12

-----------------------------------------------------------------------------
(* Live view: epics and their tasks                                        *)

Among(list, S) == IsList(list) /\ \A k \in DOMAIN list : list[k] \in S
IsTask(t) == t = [stableId |-> t.stableId, status |-> t.status]
IsEpic(e, S) == e = [key |-> e.key, tasks |-> e.tasks] /\ Among(e.tasks, S)
IsBoard(epics, S) == IsList(epics) /\ \A k \in DOMAIN epics : IsEpic(epics[k], S)
BoardTasks(epics) == UNION {ToSet(e.tasks) : e \in ToSet(epics)}
AllTasks(S) == \A t \in S : IsTask(t)

LEMMA AddedElements ==
    ASSUME NEW list, IsList(list), NEW x
    PROVE  /\ IsList(Append(list, x))
           /\ \A k \in DOMAIN Append(list, x) :
                Append(list, x)[k] = x
                \/ (k \in DOMAIN list /\ Append(list, x)[k] = list[k])
  <1> DEFINE n == Len(list)
  <1>1. n \in Nat /\ n = Len(list) /\ DOMAIN list = 1 .. n
    BY ListFacts
  <1> HIDE DEF n
  <1>2. /\ IsList(Append(list, x)) /\ DOMAIN Append(list, x) = 1 .. n + 1
        /\ \A k \in 1 .. n : Append(list, x)[k] = list[k]
        /\ Append(list, x)[n + 1] = x
    BY <1>1, AppendedList
  <1>3. \A k \in 1 .. n + 1 : k = n + 1 \/ k \in 1 .. n
    BY <1>1
  <1> QED
    BY <1>1, <1>2, <1>3

LEMMA JoinedElements ==
    ASSUME NEW S, NEW a, Among(a, S), NEW b, Among(b, S)
    PROVE  Among(a \o b, S)
  <1> DEFINE n == Len(a)
             m == Len(b)
             c == a \o b
  <1>1. n \in Nat /\ m \in Nat /\ DOMAIN a = 1 .. n /\ DOMAIN b = 1 .. m
    BY ListFacts DEF Among
  <1>2. /\ IsList(c) /\ Len(c) = n + m
        /\ \A k \in 1 .. n : c[k] = a[k]
        /\ \A k \in 1 .. m : c[n + k] = b[k]
    BY JoinedList DEF Among
  <1> HIDE DEF n, m, c
  <1>3. DOMAIN c = 1 .. n + m
    BY <1>2, ListFacts
  <1>4. ASSUME NEW k \in 1 .. n + m PROVE c[k] \in S
    <2>1. CASE k \in 1 .. n
      BY <1>1, <1>2, <2>1 DEF Among
    <2>2. CASE k \notin 1 .. n
      <3> DEFINE j == k - n
      <3>1. j \in 1 .. m /\ k = n + j
        BY <1>1, <2>2
      <3> HIDE DEF j
      <3> QED
        BY <1>1, <1>2, <3>1 DEF Among
    <2> QED
      BY <2>1, <2>2
  <1> QED
    BY <1>2, <1>3, <1>4 DEF Among, c

LEMMA SetInElements ==
    ASSUME NEW list, IsList(list), NEW key, NEW x, NEW new, new = SetIn(list, key, x)
    PROVE  /\ IsList(new)
           /\ \A k \in DOMAIN new :
                new[k] = x \/ (k \in DOMAIN list /\ new[k] = list[k])
  <1> DEFINE there == \E k \in DOMAIN list : list[k][key] = x[key]
             mapped == [k \in DOMAIN list |-> IF list[k][key] = x[key] THEN x ELSE list[k]]
  <1>1. CASE there
    <2>1. new = mapped
      BY <1>1 DEF SetIn
    <2>2. mapped = [k \in DOMAIN list |-> mapped[k]]
          /\ \A k \in DOMAIN list : mapped[k] = x \/ mapped[k] = list[k]
      OBVIOUS
    <2> HIDE DEF mapped
    <2>3. IsList(mapped) /\ DOMAIN mapped = DOMAIN list
      BY <2>2, MappedList, ListFacts
    <2> QED
      BY <2>1, <2>2, <2>3
  <1>2. CASE ~there
    <2>1. new = Append(list, x)
      BY <1>2 DEF SetIn
    <2> HIDE DEF there
    <2> QED
      BY <2>1, AddedElements
  <1> QED
    BY <1>1, <1>2

LEMMA SetInAmong ==
    ASSUME NEW S, NEW list, Among(list, S), NEW key, NEW x \in S
    PROVE  Among(SetIn(list, key, x), S)
  <1> DEFINE new == SetIn(list, key, x)
  <1>1. /\ IsList(new)
        /\ \A k \in DOMAIN new :
             new[k] = x \/ (k \in DOMAIN list /\ new[k] = list[k])
    BY SetInElements DEF Among
  <1> HIDE DEF new
  <1>2. Among(new, S)
    BY <1>1 DEF Among
  <1> QED
    BY <1>2 DEF new

(* The tasks of a list, each under its id.                                 *)
Tasked == INSTANCE FoldFacts
    WITH Op <- LAMBDA p, list, t : SetIn(list, "stableId", t),
         Value <- LAMBDA p, i : Nth(p.tasks, i), Pick <- LAMBDA s : Max(s),
         Inv <- LAMBDA p, n, list : Among(list, p.of)

LEMMA EmptyAmong ==
    ASSUME NEW S
    PROVE  Among(<<>>, S)
  <1>1. IsList(<<>>) /\ DOMAIN <<>> = {}
    BY EmptyList
  <1> QED
    BY <1>1 DEF Among

LEMMA SetTasksAmong ==
    ASSUME NEW S, NEW tasks, Among(tasks, S)
    PROVE  Among(SetTasks(tasks), S)
  <1> DEFINE n == Len(tasks)
             p == [tasks |-> tasks, of |-> S]
             base == <<>>
  <1>1. n \in Nat /\ DOMAIN tasks = 1 .. n
    BY ListFacts DEF Among
  <1>2. p.tasks = tasks /\ p.of = S
    OBVIOUS
  <1>3. SetTasks(tasks) = Tasked!Fold(p, base, 1 .. n)
    BY <1>1, <1>2 DEF SetTasks, FoldLeft, MapThenFoldSet, Tasked!Fold,
                      Tasked!MapThenFoldSet, Nth
  <1>4. Among(base, p.of)
    BY <1>2, EmptyAmong
  <1> HIDE DEF n, p, base
  <1>5. Tasked!Picks(1 .. n) /\ Tasked!LastPicked(n)
    BY <1>1, LastOfPositions DEF Tasked!Picks, Tasked!LastPicked
  <1>6. ASSUME NEW k \in 1 .. n, NEW list, Among(list, p.of)
        PROVE  Among(SetIn(list, "stableId", Nth(p.tasks, k)), p.of)
    <2> DEFINE x == Nth(p.tasks, k)
    <2>1. x \in S
      BY <1>1, <1>2 DEF Among, Nth
    <2> HIDE DEF x
    <2> QED
      BY <1>2, <1>6, <2>1, SetInAmong DEF x
  <1>7. Among(Tasked!Fold(p, base, 1 .. n), p.of)
    BY <1>1, <1>4, <1>5, <1>6, Tasked!ListKeeps
  <1> QED
    BY <1>2, <1>3, <1>7

(* Merging epics brings no task but theirs.                                *)
LEMMA AddedToBoard ==
    ASSUME NEW S, NEW epics, IsBoard(epics, S), NEW e, IsEpic(e, S)
    PROVE  IsBoard(Append(epics, e), S)
  <1> DEFINE new == Append(epics, e)
  <1>1. /\ IsList(new)
        /\ \A k \in DOMAIN new :
             new[k] = e \/ (k \in DOMAIN epics /\ new[k] = epics[k])
    BY AddedElements DEF IsBoard
  <1> HIDE DEF new
  <1>2. IsBoard(new, S)
    BY <1>1 DEF IsBoard
  <1> QED
    BY <1>2 DEF new

LEMMA SetInBoard ==
    ASSUME NEW S, NEW epics, IsBoard(epics, S), NEW e, IsEpic(e, S), NEW key
    PROVE  IsBoard(SetIn(epics, key, e), S)
  <1> DEFINE new == SetIn(epics, key, e)
  <1>1. /\ IsList(new)
        /\ \A k \in DOMAIN new :
             new[k] = e \/ (k \in DOMAIN epics /\ new[k] = epics[k])
    BY SetInElements DEF IsBoard
  <1> HIDE DEF new
  <1>2. IsBoard(new, S)
    BY <1>1 DEF IsBoard
  <1> QED
    BY <1>2 DEF new

LEMMA MergeOne ==
    ASSUME NEW S, NEW epics, IsBoard(epics, S), NEW e, IsEpic(e, S)
    PROVE  IsBoard(MergeEpic(epics, e), S)
  <1>1. CASE \E k \in DOMAIN epics : epics[k].key = e.key
    <2> DEFINE i == CHOOSE k \in DOMAIN epics : epics[k].key = e.key
               prior == epics[i]
               tasks == SetTasks(prior.tasks \o e.tasks)
               x == [key |-> e.key, tasks |-> tasks]
    <2>1. i \in DOMAIN epics
      BY <1>1
    <2>2. Among(prior.tasks, S) /\ Among(e.tasks, S)
      <3> HIDE DEF i
      <3> QED
        BY <2>1 DEF IsBoard, IsEpic
    <2>3. Among(tasks, S)
      <3> DEFINE a == prior.tasks
                 b == e.tasks
                 c == a \o b
      <3>1. Among(a, S) /\ Among(b, S)
        BY <2>2
      <3> HIDE DEF a, b
      <3>2. Among(c, S)
        BY <3>1, JoinedElements
      <3> HIDE DEF c
      <3>3. Among(SetTasks(c), S)
        BY <3>2, SetTasksAmong
      <3> QED
        BY <3>3 DEF a, b, c
    <2>4. MergeEpic(epics, e) = SetIn(epics, "key", x)
      BY <1>1 DEF MergeEpic
    <2> HIDE DEF tasks
    <2>5. IsEpic(x, S)
      BY <2>3 DEF IsEpic
    <2> HIDE DEF x
    <2>6. IsBoard(SetIn(epics, "key", x), S)
      BY <2>5, SetInBoard
    <2> QED
      BY <2>4, <2>6
  <1>2. CASE ~(\E k \in DOMAIN epics : epics[k].key = e.key)
    <2>1. MergeEpic(epics, e) = Append(epics, e)
      BY <1>2 DEF MergeEpic
    <2>2. IsBoard(Append(epics, e), S)
      BY AddedToBoard
    <2> QED
      BY <2>1, <2>2
  <1> QED
    BY <1>1, <1>2

Merged == INSTANCE FoldFacts
    WITH Op <- LAMBDA p, epics, e : MergeEpic(epics, e),
         Value <- LAMBDA p, i : Nth(p.incoming, i), Pick <- LAMBDA s : Max(s),
         Inv <- LAMBDA p, n, epics : IsBoard(epics, p.of)

LEMMA MergeIsBoard ==
    ASSUME NEW S, NEW existing, IsBoard(existing, S), NEW incoming, IsBoard(incoming, S)
    PROVE  IsBoard(MergeEpics(existing, incoming), S)
  <1> DEFINE n == Len(incoming)
             p == [incoming |-> incoming, of |-> S]
  <1>1. n \in Nat /\ DOMAIN incoming = 1 .. n
    BY ListFacts DEF IsBoard
  <1>2. p.incoming = incoming /\ p.of = S
    OBVIOUS
  <1>3. MergeEpics(existing, incoming) = Merged!Fold(p, existing, 1 .. n)
    BY <1>1, <1>2 DEF MergeEpics, FoldLeft, MapThenFoldSet, Merged!Fold,
                      Merged!MapThenFoldSet, Nth
  <1> HIDE DEF n, p
  <1>4. IsBoard(existing, p.of)
    BY <1>2
  <1>5. Merged!Picks(1 .. n) /\ Merged!LastPicked(n)
    BY <1>1, LastOfPositions DEF Merged!Picks, Merged!LastPicked
  <1>6. ASSUME NEW k \in 1 .. n, NEW epics, IsBoard(epics, p.of)
        PROVE  IsBoard(MergeEpic(epics, Nth(p.incoming, k)), p.of)
    <2> DEFINE e == Nth(p.incoming, k)
    <2>1. IsEpic(e, S)
      BY <1>1, <1>2 DEF IsBoard, Nth
    <2> HIDE DEF e
    <2> QED
      BY <1>2, <1>6, <2>1, MergeOne DEF e
  <1>7. IsBoard(Merged!Fold(p, existing, 1 .. n), p.of)
    BY <1>1, <1>4, <1>5, <1>6, Merged!ListKeeps
  <1> QED
    BY <1>2, <1>3, <1>7

(* What is extracted from a proposal are epics of tasks.                   *)
IsTaskList(list) == IsList(list) /\ \A k \in DOMAIN list : IsTask(list[k])
IsEpicList(list) ==
    /\ IsList(list)
    /\ \A k \in DOMAIN list :
         list[k] = [key |-> list[k].key, tasks |-> list[k].tasks] /\ IsTaskList(list[k].tasks)

TaskTurn(list, t) ==
    IF (Has(t, "stableId") \/ Has(t, "id")) /\ Has(t, "title")
    THEN Append(list,
           [stableId |-> IF Has(t, "stableId") THEN t.stableId ELSE t.id,
            status |-> IF Has(t, "status") THEN t.status ELSE "planned"])
    ELSE list
ExtractTurn(list, e) ==
    IF Has(e, "key") /\ Has(e, "title")
    THEN Append(list, [key |-> e.key,
                       tasks |-> IF Has(e, "tasks") THEN ExtractTasks(e.tasks) ELSE <<>>])
    ELSE list
Extracts == INSTANCE FoldFacts
    WITH Op <- LAMBDA p, list, t : TaskTurn(list, t),
         Value <- LAMBDA p, i : Nth(p, i), Pick <- LAMBDA s : Max(s),
         Inv <- LAMBDA p, n, list : IsTaskList(list)
ExtractsEpics == INSTANCE FoldFacts
    WITH Op <- LAMBDA p, list, e : ExtractTurn(list, e),
         Value <- LAMBDA p, i : Nth(p, i), Pick <- LAMBDA s : Max(s),
         Inv <- LAMBDA p, n, list : IsEpicList(list)

LEMMA TaskTurnIs ==
    ASSUME NEW list, IsTaskList(list), NEW t
    PROVE  IsTaskList(TaskTurn(list, t))
  <1> DEFINE x == [stableId |-> IF Has(t, "stableId") THEN t.stableId ELSE t.id,
                   status |-> IF Has(t, "status") THEN t.status ELSE "planned"]
             new == Append(list, x)
  <1>1. IsTask(x)
    BY DEF IsTask
  <1> HIDE DEF x
  <1>2. /\ IsList(new)
        /\ \A k \in DOMAIN new :
             new[k] = x \/ (k \in DOMAIN list /\ new[k] = list[k])
    BY AddedElements DEF IsTaskList
  <1>3. TaskTurn(list, t) = new \/ TaskTurn(list, t) = list
    BY DEF TaskTurn, x
  <1> HIDE DEF new
  <1>4. IsTaskList(new)
    BY <1>1, <1>2 DEF IsTaskList
  <1> QED
    BY <1>3, <1>4

LEMMA EmptyLists == IsTaskList(<<>>) /\ IsEpicList(<<>>)
  <1>1. IsList(<<>>) /\ DOMAIN <<>> = {}
    BY EmptyList
  <1> QED
    BY <1>1 DEF IsTaskList, IsEpicList

LEMMA ExtractedTasks ==
    ASSUME NEW tasks, IsList(tasks)
    PROVE  IsTaskList(ExtractTasks(tasks))
  <1> DEFINE n == Len(tasks)
             base == <<>>
  <1>1. n \in Nat /\ DOMAIN tasks = 1 .. n
    BY ListFacts
  <1>2. ExtractTasks(tasks) = Extracts!Fold(tasks, base, 1 .. n)
    BY <1>1 DEF ExtractTasks, TaskTurn, FoldLeft, MapThenFoldSet, Extracts!Fold,
                Extracts!MapThenFoldSet, Nth
  <1>3. IsTaskList(base)
    BY EmptyLists
  <1> HIDE DEF n, base
  <1>4. Extracts!Picks(1 .. n) /\ Extracts!LastPicked(n)
    BY <1>1, LastOfPositions DEF Extracts!Picks, Extracts!LastPicked
  <1>5. \A k \in 1 .. n : \A list :
          IsTaskList(list) => IsTaskList(TaskTurn(list, Nth(tasks, k)))
    BY TaskTurnIs
  <1>6. IsTaskList(Extracts!Fold(tasks, base, 1 .. n))
    BY <1>1, <1>3, <1>4, <1>5, Extracts!ListKeeps
  <1> QED
    BY <1>2, <1>6

LEMMA ExtractTurnIs ==
    ASSUME NEW list, IsEpicList(list), NEW e, Has(e, "tasks") => IsList(e.tasks)
    PROVE  IsEpicList(ExtractTurn(list, e))
  <1> DEFINE tasks == IF Has(e, "tasks") THEN ExtractTasks(e.tasks) ELSE <<>>
             x == [key |-> e.key, tasks |-> tasks]
             new == Append(list, x)
  <1>1. IsTaskList(tasks)
    BY ExtractedTasks, EmptyLists
  <1>2. ExtractTurn(list, e) = new \/ ExtractTurn(list, e) = list
    BY DEF ExtractTurn
  <1> HIDE DEF tasks
  <1>3. x = [key |-> x.key, tasks |-> x.tasks] /\ IsTaskList(x.tasks)
    BY <1>1
  <1> HIDE DEF x
  <1>4. /\ IsList(new)
        /\ \A k \in DOMAIN new :
             new[k] = x \/ (k \in DOMAIN list /\ new[k] = list[k])
    BY AddedElements DEF IsEpicList
  <1> HIDE DEF new
  <1>5. IsEpicList(new)
    BY <1>3, <1>4 DEF IsEpicList
  <1> QED
    BY <1>2, <1>5

LEMMA ExtractedEpics ==
    ASSUME NEW epics, IsEpics(epics)
    PROVE  IsEpicList(ExtractEpics(epics))
  <1> DEFINE n == Len(epics)
             base == <<>>
  <1>1. n \in Nat /\ DOMAIN epics = 1 .. n
        /\ \A k \in 1 .. n : Has(epics[k], "tasks") => IsList(epics[k].tasks)
    BY ListFacts DEF IsEpics
  <1>2. ExtractEpics(epics) = ExtractsEpics!Fold(epics, base, 1 .. n)
    BY <1>1 DEF ExtractEpics, ExtractTurn, FoldLeft, MapThenFoldSet, ExtractsEpics!Fold,
                ExtractsEpics!MapThenFoldSet, Nth
  <1>3. IsEpicList(base)
    BY EmptyLists
  <1> HIDE DEF n, base
  <1>4. ExtractsEpics!Picks(1 .. n) /\ ExtractsEpics!LastPicked(n)
    BY <1>1, LastOfPositions DEF ExtractsEpics!Picks, ExtractsEpics!LastPicked
  <1>5. \A k \in 1 .. n : \A list :
          IsEpicList(list) => IsEpicList(ExtractTurn(list, Nth(epics, k)))
    BY <1>1, ExtractTurnIs DEF Nth
  <1>6. IsEpicList(ExtractsEpics!Fold(epics, base, 1 .. n))
    BY <1>1, <1>3, <1>4, <1>5, ExtractsEpics!ListKeeps
  <1> QED
    BY <1>2, <1>6

LEMMA BoardOfTasks ==
    ASSUME NEW epics, IsEpicList(epics)
    PROVE  IsBoard(epics, BoardTasks(epics)) /\ AllTasks(BoardTasks(epics))
  <1>1. ASSUME NEW k \in DOMAIN epics, NEW j \in DOMAIN epics[k].tasks
        PROVE  epics[k].tasks[j] \in BoardTasks(epics)
    BY DEF BoardTasks, ToSet
  <1>2. ASSUME NEW t \in BoardTasks(epics)
        PROVE  IsTask(t)
    <2>1. PICK k \in DOMAIN epics : t \in ToSet(epics[k].tasks)
      BY DEF BoardTasks, ToSet
    <2>2. PICK j \in DOMAIN epics[k].tasks : t = epics[k].tasks[j]
      BY <2>1 DEF ToSet
    <2> QED
      BY <2>2 DEF IsEpicList, IsTaskList
  <1>3. IsBoard(epics, BoardTasks(epics))
    BY <1>1 DEF IsBoard, IsEpic, Among, IsEpicList, IsTaskList
  <1> QED
    BY <1>2, <1>3 DEF AllTasks

LEMMA TasksOnBoard ==
    ASSUME NEW S, NEW epics, IsBoard(epics, S)
    PROVE  BoardTasks(epics) \subseteq S
  <1> SUFFICES ASSUME NEW t \in BoardTasks(epics) PROVE t \in S
    OBVIOUS
  <1>1. PICK k \in DOMAIN epics : t \in ToSet(epics[k].tasks)
    BY DEF BoardTasks, ToSet
  <1>2. PICK j \in DOMAIN epics[k].tasks : t = epics[k].tasks[j]
    BY <1>1 DEF ToSet
  <1> QED
    BY <1>2 DEF IsBoard, IsEpic, Among

LEMMA BoardIsEpicList ==
    ASSUME NEW S, AllTasks(S), NEW epics, IsBoard(epics, S)
    PROVE  IsEpicList(epics)
    BY DEF IsBoard, IsEpic, Among, AllTasks, IsEpicList, IsTaskList

LEMMA BoardAmongMore ==
    ASSUME NEW S, NEW R, S \subseteq R, NEW epics, IsBoard(epics, S)
    PROVE  IsBoard(epics, R)
    BY DEF IsBoard, IsEpic, Among

LEMMA MergedTasks ==
    ASSUME NEW a, IsEpicList(a), NEW b, IsEpicList(b)
    PROVE  /\ IsEpicList(MergeEpics(a, b))
           /\ BoardTasks(MergeEpics(a, b)) \subseteq BoardTasks(a) \cup BoardTasks(b)
  <1> DEFINE S == BoardTasks(a) \cup BoardTasks(b)
  <1>1. AllTasks(S)
    BY BoardOfTasks DEF AllTasks
  <1>2. BoardTasks(a) \subseteq S /\ BoardTasks(b) \subseteq S
    OBVIOUS
  <1> HIDE DEF S
  <1>3. IsBoard(a, S) /\ IsBoard(b, S)
    BY <1>2, BoardOfTasks, BoardAmongMore
  <1>4. IsBoard(MergeEpics(a, b), S)
    BY <1>3, MergeIsBoard
  <1> QED
    BY <1>1, <1>4, BoardIsEpicList, TasksOnBoard DEF S

(* A task that is settled changes its status and nothing else.             *)
SettledTask(t, task, status) ==
    IF t.stableId = task THEN [stableId |-> t.stableId, status |-> status] ELSE t

LEMMA StatusTasks ==
    ASSUME NEW epics, IsEpicList(epics), NEW task, NEW status,
           NEW new, new = ApplyTaskStatus(epics, task, status)
    PROVE  /\ IsEpicList(new)
           /\ \A t \in BoardTasks(new) :
                \E u \in BoardTasks(epics) : t = SettledTask(u, task, status)
  <1>1. IsList(epics) /\ DOMAIN new = DOMAIN epics
    BY DEF IsEpicList, ApplyTaskStatus
  <1>2. IsList(new)
    <2>1. new = [k \in DOMAIN epics |-> new[k]]
      BY DEF ApplyTaskStatus
    <2> QED
      BY <1>1, <2>1, MappedList
  <1>3. ASSUME NEW k \in DOMAIN epics
        PROVE  /\ new[k] = [key |-> new[k].key, tasks |-> new[k].tasks]
               /\ IsTaskList(new[k].tasks)
               /\ DOMAIN new[k].tasks = DOMAIN epics[k].tasks
               /\ \A j \in DOMAIN epics[k].tasks :
                    new[k].tasks[j] = SettledTask(epics[k].tasks[j], task, status)
    <2> DEFINE e == epics[k]
               list == e.tasks
               changed == [j \in DOMAIN list |->
                             IF list[j].stableId = task
                             THEN [list[j] EXCEPT !.status = status] ELSE list[j]]
    <2>1. e = [key |-> e.key, tasks |-> list] /\ IsTaskList(list)
      BY DEF IsEpicList
    <2>2. new[k] = [e EXCEPT !.tasks = changed]
      BY DEF ApplyTaskStatus
    <2>3. ASSUME NEW j \in DOMAIN list
          PROVE  changed[j] = SettledTask(list[j], task, status) /\ IsTask(changed[j])
      <3> DEFINE t == list[j]
      <3>1. t = [stableId |-> t.stableId, status |-> t.status]
        BY <2>1 DEF IsTaskList, IsTask
      <3>2. changed[j] = IF t.stableId = task THEN [t EXCEPT !.status = status] ELSE t
        OBVIOUS
      <3> HIDE DEF t
      <3>3. \A s : [t EXCEPT !.status = s] = [stableId |-> t.stableId, status |-> s]
        BY <3>1
      <3>4. changed[j] = SettledTask(t, task, status)
        BY <3>2, <3>3 DEF SettledTask
      <3>5. IsTask(SettledTask(t, task, status))
        BY <3>1 DEF SettledTask, IsTask
      <3> QED
        BY <3>4, <3>5 DEF t
    <2>4. changed = [j \in DOMAIN list |-> changed[j]]
      OBVIOUS
    <2> HIDE DEF changed
    <2>5. IsList(changed) /\ DOMAIN changed = DOMAIN list
      BY <2>1, <2>4, MappedList, ListFacts DEF IsTaskList
    <2>6. [e EXCEPT !.tasks = changed] = [key |-> e.key, tasks |-> changed]
      <3> HIDE DEF e
      <3> DEFINE key == e.key
                 old == list
      <3>1. e = [key |-> key, tasks |-> old]
        BY <2>1
      <3> HIDE DEF key, old
      <3> QED
        BY <3>1
    <2>7. new[k].tasks = changed /\ new[k] = [key |-> new[k].key, tasks |-> new[k].tasks]
      <3> DEFINE x == new[k]
                 key == e.key
      <3>1. x = [key |-> key, tasks |-> changed]
        BY <2>2, <2>6
      <3> HIDE DEF x, key
      <3>2. x.tasks = changed /\ x = [key |-> x.key, tasks |-> x.tasks]
        BY <3>1
      <3> QED
        BY <3>2 DEF x
    <2> QED
      BY <2>3, <2>5, <2>7 DEF IsTaskList
  <1>4. ASSUME NEW t \in BoardTasks(new)
        PROVE  \E u \in BoardTasks(epics) : t = SettledTask(u, task, status)
    <2>1. PICK k \in DOMAIN epics : t \in ToSet(new[k].tasks)
      BY <1>1 DEF BoardTasks, ToSet
    <2>2. PICK j \in DOMAIN epics[k].tasks : t = new[k].tasks[j]
      BY <1>3, <2>1 DEF ToSet
    <2>3. epics[k].tasks[j] \in BoardTasks(epics)
      BY DEF BoardTasks, ToSet
    <2> QED
      BY <1>3, <2>2, <2>3
  <1> QED
    BY <1>1, <1>2, <1>3, <1>4 DEF IsEpicList

-----------------------------------------------------------------------------
(* Live view: panes                                                        *)

ViewOf(epics, seen, evaluator, notifications, execution, lastEvent, lastFailure, count) ==
    [epics |-> epics, seen |-> seen, evaluator |-> evaluator,
     notifications |-> notifications, execution |-> execution,
     lastEvent |-> lastEvent, lastFailure |-> lastFailure, count |-> count]
IsView(v) ==
    v = ViewOf(v.epics, v.seen, v.evaluator, v.notifications, v.execution, v.lastEvent,
               v.lastFailure, v.count)

LEMMA ViewFields ==
    ASSUME NEW a, NEW b, NEW c, NEW d, NEW e, NEW f, NEW g, NEW h, NEW v,
           v = ViewOf(a, b, c, d, e, f, g, h)
    PROVE  /\ v.epics = a /\ v.seen = b /\ v.evaluator = c /\ v.notifications = d
           /\ v.execution = e /\ v.lastEvent = f /\ v.lastFailure = g /\ v.count = h
           /\ IsView(v)
    BY DEF ViewOf, IsView

WithEpics(v, x) == [v EXCEPT !.epics = x]
WithEvaluator(v, x) == [v EXCEPT !.evaluator = x]
WithNotifications(v, x) == [v EXCEPT !.notifications = x]
WithFailure(v, x) == [v EXCEPT !.lastFailure = x]
WithCount(v, seen, count, lastEvent, execution) ==
    [v EXCEPT !.seen = seen, !.count = count, !.lastEvent = lastEvent, !.execution = execution]

LEMMA ViewChanged ==
    ASSUME NEW a, NEW b, NEW c, NEW d, NEW e, NEW f, NEW g, NEW h, NEW x
    PROVE  LET v == ViewOf(a, b, c, d, e, f, g, h) IN
           /\ WithEpics(v, x) = ViewOf(x, b, c, d, e, f, g, h)
           /\ WithEvaluator(v, x) = ViewOf(a, b, x, d, e, f, g, h)
           /\ WithNotifications(v, x) = ViewOf(a, b, c, x, e, f, g, h)
           /\ WithFailure(v, x) = ViewOf(a, b, c, d, e, f, x, h)
  <1> DEFINE v == ViewOf(a, b, c, d, e, f, g, h)
  <1>1. WithEpics(v, x) = ViewOf(x, b, c, d, e, f, g, h)
    BY DEF ViewOf, WithEpics
  <1>2. WithEvaluator(v, x) = ViewOf(a, b, x, d, e, f, g, h)
    BY DEF ViewOf, WithEvaluator
  <1>3. WithNotifications(v, x) = ViewOf(a, b, c, x, e, f, g, h)
    BY DEF ViewOf, WithNotifications
  <1>4. WithFailure(v, x) = ViewOf(a, b, c, d, e, f, x, h)
    BY DEF ViewOf, WithFailure
  <1> QED
    BY <1>1, <1>2, <1>3, <1>4

LEMMA ViewCounted ==
    ASSUME NEW a, NEW b, NEW c, NEW d, NEW e, NEW f, NEW g, NEW h, NEW x, NEW y, NEW z, NEW w
    PROVE  WithCount(ViewOf(a, b, c, d, e, f, g, h), x, y, z, w) = ViewOf(a, x, c, d, w, z, g, y)
  <1> DEFINE v == ViewOf(a, b, c, d, e, f, g, h)
  <1> DEFINE one == [v EXCEPT !.seen = x]
             two == [one EXCEPT !.count = y]
             three == [two EXCEPT !.lastEvent = z]
             four == [three EXCEPT !.execution = w]
  <1>1. one = ViewOf(a, x, c, d, e, f, g, h)
    BY DEF ViewOf
  <1>2. two = ViewOf(a, x, c, d, e, f, g, y)
    <2> HIDE DEF one
    <2> QED
      BY <1>1 DEF ViewOf
  <1>3. three = ViewOf(a, x, c, d, e, z, g, y)
    <2> HIDE DEF two
    <2> QED
      BY <1>2 DEF ViewOf
  <1>4. four = ViewOf(a, x, c, d, w, z, g, y)
    <2> HIDE DEF three
    <2> QED
      BY <1>3 DEF ViewOf
  <1>5. WithCount(v, x, y, z, w) = four
    BY DEF WithCount
  <1> QED
    BY <1>4, <1>5

(* Every change of a view leaves a view.                                   *)
SamePanes(u, v, epics, evaluator, notifications) ==
    /\ IsView(u) /\ u.seen = v.seen /\ u.count = v.count
    /\ u.epics = epics /\ u.evaluator = evaluator /\ u.notifications = notifications

LEMMA ViewKeeps ==
    ASSUME NEW v, IsView(v), NEW x
    PROVE  /\ SamePanes(WithEpics(v, x), v, x, v.evaluator, v.notifications)
           /\ SamePanes(WithEvaluator(v, x), v, v.epics, x, v.notifications)
           /\ SamePanes(WithNotifications(v, x), v, v.epics, v.evaluator, x)
           /\ SamePanes(WithFailure(v, x), v, v.epics, v.evaluator, v.notifications)
  <1>1. PICK a, b, c, d, e, f, g, h : v = ViewOf(a, b, c, d, e, f, g, h)
    BY DEF IsView
  <1>2. /\ v.epics = a /\ v.seen = b /\ v.evaluator = c /\ v.notifications = d /\ v.count = h
    BY <1>1, ViewFields
  <1>3. /\ WithEpics(v, x) = ViewOf(x, b, c, d, e, f, g, h)
        /\ WithEvaluator(v, x) = ViewOf(a, b, x, d, e, f, g, h)
        /\ WithNotifications(v, x) = ViewOf(a, b, c, x, e, f, g, h)
        /\ WithFailure(v, x) = ViewOf(a, b, c, d, e, f, x, h)
    BY <1>1, ViewChanged
  <1>4. SamePanes(WithEpics(v, x), v, x, v.evaluator, v.notifications)
    BY <1>2, <1>3, ViewFields DEF SamePanes
  <1>5. SamePanes(WithEvaluator(v, x), v, v.epics, x, v.notifications)
    BY <1>2, <1>3, ViewFields DEF SamePanes
  <1>6. SamePanes(WithNotifications(v, x), v, v.epics, v.evaluator, x)
    BY <1>2, <1>3, ViewFields DEF SamePanes
  <1>7. SamePanes(WithFailure(v, x), v, v.epics, v.evaluator, v.notifications)
    BY <1>2, <1>3, ViewFields DEF SamePanes
  <1> QED
    BY <1>4, <1>5, <1>6, <1>7

(* What an event does to each pane.                                        *)
EvaluatorTypes ==
    {"evaluation.result", "evaluation.finished", "evaluation.started",
     "benchmark.started", "benchmark.finished", "regression.compared",
     "regression.blocked"}
SettledTypes == {"task.completed", "task.failed"}
StatusSaid(event) == IF event.type = "task.completed" THEN "completed" ELSE "failed"
RoutedEpics(epics, event) ==
    IF event.type = "planner.proposed" /\ Has(event.payload, "epics")
    THEN MergeEpics(epics, ExtractEpics(event.payload.epics))
    ELSE IF event.type \in SettledTypes /\ Has(event.payload, "taskId")
    THEN ApplyTaskStatus(epics, event.payload.taskId, StatusSaid(event))
    ELSE epics
RoutedLines(lines, event) ==
    IF event.type \in EvaluatorTypes THEN PushEvaluator(lines, event.type) ELSE lines
IsNotice(event) == event.type = "operator.notification" /\ IsNotification(event.payload)
RoutedNotices(notices, event) ==
    IF IsNotice(event) THEN Append(notices, event.id) ELSE notices

Routed(v, event, u) ==
    /\ IsView(u) /\ u.seen = v.seen /\ u.count = v.count
    /\ u.epics = RoutedEpics(v.epics, event)
    /\ u.evaluator = RoutedLines(v.evaluator, event)
    /\ u.notifications = RoutedNotices(v.notifications, event)

LEMMA RouteIs ==
    ASSUME NEW v, IsView(v), NEW event
    PROVE  Routed(v, event, RouteEvent(v, event))
  <1> DEFINE payload == event.payload
             task == IF Has(payload, "taskId") THEN payload.taskId ELSE "task"
             settled == IF Has(payload, "taskId")
                        THEN WithEpics(v, ApplyTaskStatus(v.epics, payload.taskId,
                                                          StatusSaid(event)))
                        ELSE v
             u == RouteEvent(v, event)
  <1>1. CASE event.type = "planner.proposed"
    <2>1. /\ RoutedLines(v.evaluator, event) = v.evaluator
          /\ RoutedNotices(v.notifications, event) = v.notifications
      BY <1>1 DEF RoutedLines, EvaluatorTypes, RoutedNotices, IsNotice
    <2>2. CASE Has(payload, "epics")
      <3> DEFINE x == MergeEpics(v.epics, ExtractEpics(payload.epics))
      <3>1. u = WithEpics(v, x)
        BY <1>1, <2>2 DEF RouteEvent, WithEpics
      <3>2. RoutedEpics(v.epics, event) = x
        BY <1>1, <2>2 DEF RoutedEpics
      <3> HIDE DEF x, u
      <3>3. Routed(v, event, u)
        BY <2>1, <3>1, <3>2, ViewKeeps DEF Routed, SamePanes
      <3> QED
        BY <3>3 DEF u
    <2>3. CASE ~Has(payload, "epics")
      <3>1. u = v
        BY <1>1, <2>3 DEF RouteEvent
      <3>2. RoutedEpics(v.epics, event) = v.epics
        BY <1>1, <2>3 DEF RoutedEpics, SettledTypes
      <3> HIDE DEF u
      <3>3. Routed(v, event, u)
        BY <2>1, <3>1, <3>2 DEF Routed
      <3> QED
        BY <3>3 DEF u
    <2> QED
      BY <2>2, <2>3
  <1>2. CASE event.type \in SettledTypes
    <2>1. /\ RoutedLines(v.evaluator, event) = v.evaluator
          /\ RoutedNotices(v.notifications, event) = v.notifications
      BY <1>2 DEF RoutedLines, EvaluatorTypes, RoutedNotices, IsNotice, SettledTypes
    <2>2. Routed(v, event, settled)
      <3>1. CASE Has(payload, "taskId")
        <4> DEFINE x == ApplyTaskStatus(v.epics, payload.taskId, StatusSaid(event))
        <4>1. settled = WithEpics(v, x)
          BY <3>1
        <4>2. RoutedEpics(v.epics, event) = x
          BY <1>2, <3>1 DEF RoutedEpics, SettledTypes
        <4> HIDE DEF x, settled
        <4> QED
          BY <2>1, <4>1, <4>2, ViewKeeps DEF Routed, SamePanes
      <3>2. CASE ~Has(payload, "taskId")
        <4>1. settled = v
          BY <3>2
        <4>2. RoutedEpics(v.epics, event) = v.epics
          BY <1>2, <3>2 DEF RoutedEpics, SettledTypes
        <4> HIDE DEF settled
        <4> QED
          BY <2>1, <4>1, <4>2 DEF Routed
      <3> QED
        BY <3>1, <3>2
    <2>3. CASE event.type = "task.completed"
      <3>1. u = settled
        BY <2>3 DEF RouteEvent, StatusSaid, WithEpics
      <3> HIDE DEF u, settled
      <3>2. Routed(v, event, u)
        BY <2>2, <3>1
      <3> QED
        BY <3>2 DEF u
    <2>4. CASE event.type = "task.failed"
      <3> DEFINE x == <<task, IF Has(payload, "reason") THEN payload.reason ELSE "unknown">>
      <3>1. u = WithFailure(settled, x)
        BY <2>4 DEF RouteEvent, StatusSaid, WithEpics, WithFailure
      <3> HIDE DEF x, u, settled
      <3>2. Routed(v, event, u)
        BY <2>2, <3>1, ViewKeeps DEF Routed, SamePanes
      <3> QED
        BY <3>2 DEF u
    <2> QED
      BY <1>2, <2>3, <2>4 DEF SettledTypes
  <1>3. CASE event.type \in EvaluatorTypes
    <2> DEFINE x == PushEvaluator(v.evaluator, event.type)
    <2>1. /\ RoutedEpics(v.epics, event) = v.epics
          /\ RoutedNotices(v.notifications, event) = v.notifications
          /\ RoutedLines(v.evaluator, event) = x
      BY <1>3 DEF RoutedLines, EvaluatorTypes, RoutedNotices, IsNotice, RoutedEpics,
                  SettledTypes
    <2>2. u = WithEvaluator(v, x)
      BY <1>3 DEF RouteEvent, EvaluatorTypes, WithEvaluator
    <2> HIDE DEF x, u
    <2>3. Routed(v, event, u)
      BY <2>1, <2>2, ViewKeeps DEF Routed, SamePanes
    <2> QED
      BY <2>3 DEF u
  <1>4. CASE event.type = "operator.notification"
    <2>1. /\ RoutedEpics(v.epics, event) = v.epics
          /\ RoutedLines(v.evaluator, event) = v.evaluator
      BY <1>4 DEF RoutedLines, EvaluatorTypes, RoutedEpics, SettledTypes
    <2>2. CASE IsNotification(payload)
      <3> DEFINE x == Append(v.notifications, event.id)
      <3>1. u = WithNotifications(v, x)
        BY <1>4, <2>2 DEF RouteEvent, WithNotifications
      <3>2. RoutedNotices(v.notifications, event) = x
        BY <1>4, <2>2 DEF RoutedNotices, IsNotice
      <3> HIDE DEF x, u
      <3>3. Routed(v, event, u)
        BY <2>1, <3>1, <3>2, ViewKeeps DEF Routed, SamePanes
      <3> QED
        BY <3>3 DEF u
    <2>3. CASE ~IsNotification(payload)
      <3>1. u = v
        BY <1>4, <2>3 DEF RouteEvent
      <3>2. RoutedNotices(v.notifications, event) = v.notifications
        BY <1>4, <2>3 DEF RoutedNotices, IsNotice
      <3> HIDE DEF u
      <3>3. Routed(v, event, u)
        BY <2>1, <3>1, <3>2 DEF Routed
      <3> QED
        BY <3>3 DEF u
    <2> QED
      BY <2>2, <2>3
  <1>5. CASE /\ event.type # "planner.proposed" /\ event.type \notin SettledTypes
             /\ event.type \notin EvaluatorTypes /\ event.type # "operator.notification"
    <2>1. u = v
      BY <1>5 DEF RouteEvent, EvaluatorTypes, SettledTypes
    <2>2. /\ RoutedEpics(v.epics, event) = v.epics
          /\ RoutedLines(v.evaluator, event) = v.evaluator
          /\ RoutedNotices(v.notifications, event) = v.notifications
      BY <1>5 DEF RoutedLines, RoutedEpics, RoutedNotices, IsNotice
    <2> HIDE DEF u
    <2>3. Routed(v, event, u)
      BY <2>1, <2>2 DEF Routed
    <2> QED
      BY <2>3 DEF u
  <1> QED
    BY <1>1, <1>2, <1>3, <1>4, <1>5

(* A new event is seen and counted, and then routed.                       *)
LEMMA ApplyIs ==
    ASSUME NEW v, IsView(v), NEW event, NEW u, u = ApplyEvent(v, event)
    PROVE  /\ event.id \in v.seen => u = v
           /\ event.id \notin v.seen =>
                /\ IsView(u) /\ u.seen = v.seen \cup {event.id} /\ u.count = v.count + 1
                /\ u.epics = RoutedEpics(v.epics, event)
                /\ u.evaluator = RoutedLines(v.evaluator, event)
                /\ u.notifications = RoutedNotices(v.notifications, event)
  <1>1. CASE event.id \in v.seen
    BY <1>1 DEF ApplyEvent
  <1>2. CASE event.id \notin v.seen
    <2> DEFINE seen == v.seen \cup {event.id}
               count == v.count + 1
               type == event.type
               execution == IF Has(event, "taskExecutionId") THEN event.taskExecutionId
                            ELSE v.execution
               w == WithCount(v, seen, count, type, execution)
    <2>1. u = RouteEvent(w, event)
      BY <1>2 DEF ApplyEvent, WithCount
    <2>2. PICK a, b, c, d, e, f, g, h : v = ViewOf(a, b, c, d, e, f, g, h)
      BY DEF IsView
    <2>3. /\ v.epics = a /\ v.evaluator = c /\ v.notifications = d
      BY <2>2, ViewFields
    <2>4. /\ IsView(w) /\ w.epics = v.epics /\ w.seen = seen /\ w.evaluator = v.evaluator
          /\ w.notifications = v.notifications /\ w.count = count
      <3> HIDE DEF seen, count, type, execution
      <3>1. w = ViewOf(a, seen, c, d, execution, type, g, count)
        BY <2>2, ViewCounted
      <3> HIDE DEF w
      <3> QED
        BY <2>3, <3>1, ViewFields
    <2> HIDE DEF w
    <2>5. Routed(w, event, u)
      BY <2>1, <2>4, RouteIs
    <2> QED
      BY <1>2, <2>4, <2>5 DEF Routed
  <1> QED
    BY <1>1, <1>2

-----------------------------------------------------------------------------
(* Live view: the transcript keeps the last lines.                         *)
LEMMA PushedLine ==
    ASSUME NEW lines, IsList(lines), Len(lines) <= MaxEvaluatorLines, NEW x,
           NEW new, new = PushEvaluator(lines, x)
    PROVE  /\ IsList(new)
           /\ Len(new) = IF Len(lines) < MaxEvaluatorLines THEN Len(lines) + 1
                         ELSE MaxEvaluatorLines
  <1> DEFINE all == Append(lines, x)
             n == Len(lines)
             last == SubSeq(all, Len(all) - MaxEvaluatorLines + 1, Len(all))
  <1>1. n \in Nat /\ n <= 20
    BY ListFacts DEF MaxEvaluatorLines
  <1>2. IsList(all) /\ Len(all) = n + 1 /\ DOMAIN all = 1 .. n + 1
    BY AppendedList
  <1>5. new = IF Len(all) > MaxEvaluatorLines THEN last ELSE all
    BY Zenon DEF PushEvaluator
  <1>3. CASE n < 20
    <2> HIDE DEF all, last, n
    <2>1. new = all
      BY <1>1, <1>2, <1>3, <1>5 DEF MaxEvaluatorLines
    <2> QED
      BY <1>2, <1>3, <2>1 DEF MaxEvaluatorLines, n
  <1>4. CASE n >= 20
    <2>1. Len(all) = 21 /\ new = last /\ n = 20
      <3> HIDE DEF all, last, n
      <3> QED
        BY <1>1, <1>2, <1>4, <1>5 DEF MaxEvaluatorLines
    <2> DEFINE S == {all[k] : k \in DOMAIN all}
    <2>2. \A k \in 2 .. 21 : all[k] \in S
      BY <1>1, <1>2, <1>4
    <2> HIDE DEF S, all
    <2>3. SubSeq(all, 2, 21) \in Seq(S) /\ Len(SubSeq(all, 2, 21)) = 20
      BY <2>2, SubSeqProperties
    <2>4. new = SubSeq(all, 2, 21)
      BY <2>1 DEF MaxEvaluatorLines
    <2> HIDE DEF n
    <2>5. IsList(new) /\ Len(new) = 20
      BY <2>3, <2>4, IsListOf
    <2> QED
      BY <2>1, <2>5 DEF MaxEvaluatorLines, n
  <1> QED
    BY <1>1, <1>3, <1>4

-----------------------------------------------------------------------------
(* Live view: what is new among the first n events                         *)
New(events, n) == {k \in 1 .. n : \A j \in 1 .. k - 1 : events[j].id # events[k].id}
SeenIds(events, n) == {events[k].id : k \in 1 .. n}

LEMMA NewNext ==
    ASSUME NEW events, NEW n \in Nat, NEW m, m = n + 1
    PROVE  /\ SeenIds(events, m) = SeenIds(events, n) \cup {events[m].id}
           /\ events[m].id \in SeenIds(events, n) => New(events, m) = New(events, n)
           /\ events[m].id \notin SeenIds(events, n) =>
                New(events, m) = New(events, n) \cup {m}
           /\ New(events, n) \subseteq 1 .. n /\ m \notin New(events, n)
  <1>1. 1 .. m = (1 .. n) \cup {m} /\ m \notin 1 .. n /\ m - 1 = n
    OBVIOUS
  <1>2. SeenIds(events, m) = SeenIds(events, n) \cup {events[m].id}
    BY <1>1 DEF SeenIds
  <1>3. ASSUME events[m].id \in SeenIds(events, n)
        PROVE  New(events, m) = New(events, n)
    BY <1>1, <1>3 DEF SeenIds, New
  <1>4. ASSUME events[m].id \notin SeenIds(events, n)
        PROVE  New(events, m) = New(events, n) \cup {m}
    BY <1>1, <1>4 DEF SeenIds, New
  <1> QED
    BY <1>1, <1>2, <1>3, <1>4 DEF New

(* What an event says of a task.                                           *)
ProposesTask(e, task) ==
    /\ e.type = "planner.proposed" /\ Has(e.payload, "epics")
    /\ \E t \in BoardTasks(ExtractEpics(e.payload.epics)) : t.stableId = task
SettlesTask(e, task) ==
    e.type \in SettledTypes /\ Has(e.payload, "taskId") /\ e.payload.taskId = task
Concerns(e, task) == ProposesTask(e, task) \/ SettlesTask(e, task)

(* A task on the board was heard of, and has the status it was last given. *)
IsNewest(events, n, k, task) ==
    /\ k \in New(events, n) /\ Concerns(events[k], task)
    /\ \A j \in New(events, n) : j > k => ~Concerns(events[j], task)
TaskTold(events, n, t) ==
    /\ \E k \in New(events, n) : Concerns(events[k], t.stableId)
    /\ \A k \in New(events, n) :
         IsNewest(events, n, k, t.stableId) /\ SettlesTask(events[k], t.stableId)
           => t.status = StatusSaid(events[k])
TasksTold(events, n, epics) ==
    IsEpicList(epics) /\ \A t \in BoardTasks(epics) : TaskTold(events, n, t)

LEMMA TaskToldAgain ==
    ASSUME NEW events, NEW n \in Nat, NEW m, m = n + 1,
           events[m].id \notin SeenIds(events, n), NEW t, TaskTold(events, n, t),
           ~SettlesTask(events[m], t.stableId)
    PROVE  TaskTold(events, m, t)
  <1>1. /\ New(events, m) = New(events, n) \cup {m}
        /\ New(events, n) \subseteq 1 .. n /\ m \notin New(events, n)
    BY NewNext
  <1>2. \A k \in New(events, n) :
          IsNewest(events, m, k, t.stableId) => IsNewest(events, n, k, t.stableId)
    BY <1>1 DEF IsNewest
  <1> QED
    BY <1>1, <1>2 DEF TaskTold

LEMMA TaskToldNow ==
    ASSUME NEW events, NEW n \in Nat, NEW m, m = n + 1,
           events[m].id \notin SeenIds(events, n), NEW t, Concerns(events[m], t.stableId),
           SettlesTask(events[m], t.stableId) => t.status = StatusSaid(events[m])
    PROVE  TaskTold(events, m, t)
  <1>1. /\ New(events, m) = New(events, n) \cup {m}
        /\ New(events, n) \subseteq 1 .. n
    BY NewNext
  <1>2. \A k \in New(events, n) : ~IsNewest(events, m, k, t.stableId)
    <2>1. \A k \in 1 .. n : m > k
      OBVIOUS
    <2> QED
      BY <1>1, <2>1 DEF IsNewest
  <1> QED
    BY <1>1, <1>2 DEF TaskTold

LEMMA TasksToldNext ==
    ASSUME NEW events, NEW n \in Nat, NEW m, m = n + 1,
           events[m].id \notin SeenIds(events, n), IsEvent(events[m]),
           NEW epics, TasksTold(events, n, epics)
    PROVE  TasksTold(events, m, RoutedEpics(epics, events[m]))
  <1> DEFINE e == events[m]
             new == RoutedEpics(epics, e)
  <1>1. IsEpicList(epics) /\ \A t \in BoardTasks(epics) : TaskTold(events, n, t)
    BY DEF TasksTold
  <1>2. CASE e.type = "planner.proposed" /\ Has(e.payload, "epics")
    <2> DEFINE said == ExtractEpics(e.payload.epics)
    <2>1. IsEpicList(said)
      BY <1>2, ExtractedEpics DEF IsEvent
    <2>2. new = MergeEpics(epics, said)
      BY <1>2 DEF RoutedEpics
    <2>3. \A task : ~SettlesTask(e, task)
      BY <1>2 DEF SettlesTask, SettledTypes
    <2>4. \A t \in BoardTasks(said) : Concerns(e, t.stableId)
      BY <1>2 DEF Concerns, ProposesTask
    <2> HIDE DEF said, new
    <2>5. IsEpicList(new) /\ BoardTasks(new) \subseteq BoardTasks(epics) \cup BoardTasks(said)
      BY <1>1, <2>1, <2>2, MergedTasks
    <2>6. ASSUME NEW t \in BoardTasks(new)
          PROVE  TaskTold(events, m, t)
      <3>1. CASE t \in BoardTasks(epics)
        BY <1>1, <2>3, <3>1, TaskToldAgain
      <3>2. CASE t \in BoardTasks(said)
        BY <2>3, <2>4, <3>2, TaskToldNow
      <3> QED
        BY <2>5, <3>1, <3>2
    <2>7. TasksTold(events, m, new)
      BY <2>5, <2>6 DEF TasksTold
    <2> QED
      BY <2>7 DEF new
  <1>3. CASE e.type \in SettledTypes /\ Has(e.payload, "taskId")
    <2> DEFINE task == e.payload.taskId
               status == StatusSaid(e)
    <2>1. new = ApplyTaskStatus(epics, task, status)
      BY <1>3 DEF RoutedEpics, SettledTypes
    <2>2. SettlesTask(e, task) /\ \A other : SettlesTask(e, other) => other = task
      BY <1>3 DEF SettlesTask
    <2> HIDE DEF new, task, status
    <2>3. /\ IsEpicList(new)
          /\ \A t \in BoardTasks(new) :
               \E u \in BoardTasks(epics) : t = SettledTask(u, task, status)
      BY <1>1, <2>1, StatusTasks
    <2>4. ASSUME NEW t \in BoardTasks(new)
          PROVE  TaskTold(events, m, t)
      <3>1. PICK u \in BoardTasks(epics) : t = SettledTask(u, task, status)
        BY <2>3
      <3>2. CASE u.stableId = task
        <4>1. t.stableId = task /\ t.status = status
          BY <3>1, <3>2 DEF SettledTask
        <4> QED
          BY <2>2, <4>1, TaskToldNow DEF Concerns, status
      <3>3. CASE u.stableId # task
        <4>1. t = u
          BY <3>1, <3>3 DEF SettledTask
        <4> QED
          BY <1>1, <2>2, <3>3, <4>1, TaskToldAgain
      <3> QED
        BY <3>2, <3>3
    <2>5. TasksTold(events, m, new)
      BY <2>3, <2>4 DEF TasksTold
    <2> QED
      BY <2>5 DEF new
  <1>4. CASE /\ ~(e.type = "planner.proposed" /\ Has(e.payload, "epics"))
             /\ ~(e.type \in SettledTypes /\ Has(e.payload, "taskId"))
    <2>1. new = epics
      BY <1>4 DEF RoutedEpics
    <2>2. \A task : ~SettlesTask(e, task)
      BY <1>4 DEF SettlesTask
    <2> HIDE DEF new
    <2>3. TasksTold(events, m, new)
      BY <1>1, <2>1, <2>2, TaskToldAgain DEF TasksTold
    <2> QED
      BY <2>3 DEF new
  <1> QED
    BY <1>2, <1>3, <1>4

-----------------------------------------------------------------------------
(* Live view: what the panes show after the first n events                 *)
CountAt(events, n, seen, count) ==
    /\ seen = SeenIds(events, n) /\ IsFiniteSet(seen) /\ IsFiniteSet(New(events, n))
    /\ count = Cardinality(seen) /\ count = Cardinality(New(events, n))
NoticeIds(events, S) == {events[k].id : k \in {j \in S : IsNotice(events[j])}}
NoticesAt(events, n, notices) ==
    IsList(notices) /\ ToSet(notices) = NoticeIds(events, New(events, n))
IsEvaluation(e) == e.type = "evaluation.finished"
LinesAt(events, n, lines, count) ==
    /\ IsList(lines) /\ Len(lines) <= MaxEvaluatorLines
    /\ (\A k \in New(events, n) : IsEvaluation(events[k])) =>
         Len(lines) = IF count < MaxEvaluatorLines THEN count ELSE MaxEvaluatorLines
PanesAt(events, n, view) ==
    /\ IsView(view)
    /\ CountAt(events, n, view.seen, view.count)
    /\ NoticesAt(events, n, view.notifications)
    /\ LinesAt(events, n, view.evaluator, view.count)
    /\ TasksTold(events, n, view.epics)

LEMMA CountNext ==
    ASSUME NEW events, NEW n \in Nat, NEW m, m = n + 1,
           NEW seen, NEW count, CountAt(events, n, seen, count)
    PROVE  LET id == events[m].id IN
           /\ id \in seen => CountAt(events, m, seen, count)
           /\ id \notin seen => CountAt(events, m, seen \cup {id}, count + 1)
  <1> DEFINE id == events[m].id
  <1>1. /\ SeenIds(events, m) = SeenIds(events, n) \cup {id}
        /\ id \in SeenIds(events, n) => New(events, m) = New(events, n)
        /\ id \notin SeenIds(events, n) => New(events, m) = New(events, n) \cup {m}
        /\ m \notin New(events, n)
    BY NewNext
  <1>2. CASE id \in seen
    BY <1>1, <1>2 DEF CountAt
  <1>3. CASE id \notin seen
    <2> DEFINE ids == seen \cup {id}
               new == New(events, m)
    <2>1. IsFiniteSet(ids) /\ Cardinality(ids) = Cardinality(seen) + 1
      BY <1>3, FS_AddElement DEF CountAt
    <2>2. new = New(events, n) \cup {m}
      BY <1>1, <1>3 DEF CountAt
    <2>3. IsFiniteSet(new) /\ Cardinality(new) = Cardinality(New(events, n)) + 1
      BY <1>1, <2>2, FS_AddElement DEF CountAt
    <2>4. SeenIds(events, m) = ids
      BY <1>1 DEF CountAt
    <2> HIDE DEF ids, new
    <2>5. CountAt(events, m, ids, count + 1)
      BY <2>1, <2>3, <2>4 DEF CountAt, new
    <2> QED
      BY <1>3, <2>5 DEF ids
  <1> QED
    BY <1>2, <1>3

LEMMA NoticesNext ==
    ASSUME NEW events, NEW n \in Nat, NEW m, m = n + 1,
           events[m].id \notin SeenIds(events, n),
           NEW notices, NoticesAt(events, n, notices)
    PROVE  NoticesAt(events, m, RoutedNotices(notices, events[m]))
  <1> DEFINE e == events[m]
             new == New(events, n)
  <1>1. New(events, m) = new \cup {m} /\ m \notin new
    BY NewNext
  <1> HIDE DEF new
  <1>2. CASE IsNotice(e)
    <2>2. NoticeIds(events, new \cup {m}) = NoticeIds(events, new) \cup {e.id}
      <3>1. {j \in new \cup {m} : IsNotice(events[j])}
              = {j \in new : IsNotice(events[j])} \cup {m}
        BY <1>2
      <3> QED
        BY <3>1 DEF NoticeIds
    <2>3. IsList(notices) /\ ToSet(notices) = NoticeIds(events, new)
      BY DEF NoticesAt, new
    <2> DEFINE k == Len(notices)
               id == e.id
    <2>1. RoutedNotices(notices, e) = Append(notices, id)
      BY <1>2 DEF RoutedNotices
    <2>4. k \in Nat /\ k = Len(notices) /\ DOMAIN notices = 1 .. k
      BY <2>3, ListFacts
    <2> HIDE DEF k, id
    <2>5. /\ IsList(Append(notices, id)) /\ DOMAIN Append(notices, id) = 1 .. k + 1
          /\ \A j \in 1 .. k : Append(notices, id)[j] = notices[j]
          /\ Append(notices, id)[k + 1] = id
      BY <2>3, <2>4, AppendedList
    <2>6. ToSet(Append(notices, id)) = ToSet(notices) \cup {id}
      <3> DEFINE a == Append(notices, id)
      <3> HIDE DEF a
      <3>1. 1 .. k + 1 = (1 .. k) \cup {k + 1}
        BY <2>4
      <3>2. /\ DOMAIN a = 1 .. k + 1 /\ \A j \in 1 .. k : a[j] = notices[j]
            /\ a[k + 1] = id
        BY <2>5 DEF a
      <3>3. ToSet(a) = ToSet(notices) \cup {id}
        BY <2>4, <3>1, <3>2 DEF ToSet
      <3> QED
        BY <3>3 DEF a
    <2>7. NoticesAt(events, m, Append(notices, id))
      BY <1>1, <2>2, <2>3, <2>5, <2>6 DEF NoticesAt, id
    <2> QED
      BY <2>1, <2>7
  <1>3. CASE ~IsNotice(e)
    <2>1. RoutedNotices(notices, e) = notices
      BY <1>3 DEF RoutedNotices
    <2>2. {j \in new \cup {m} : IsNotice(events[j])} = {j \in new : IsNotice(events[j])}
      BY <1>3
    <2>3. NoticeIds(events, new \cup {m}) = NoticeIds(events, new)
      BY <2>2 DEF NoticeIds
    <2> QED
      BY <1>1, <2>1, <2>3 DEF NoticesAt, new
  <1> QED
    BY <1>2, <1>3

LEMMA LinesNext ==
    ASSUME NEW events, NEW n \in Nat, NEW m, m = n + 1,
           events[m].id \notin SeenIds(events, n), NEW count \in Nat,
           NEW lines, LinesAt(events, n, lines, count)
    PROVE  LinesAt(events, m, RoutedLines(lines, events[m]), count + 1)
  <1> DEFINE e == events[m]
             new == PushEvaluator(lines, e.type)
  <1>1. New(events, m) = New(events, n) \cup {m}
    BY NewNext
  <1>2. Len(lines) \in Nat
    BY ListFacts DEF LinesAt
  <1>3. CASE e.type \in EvaluatorTypes
    <2>1. RoutedLines(lines, e) = new
      BY <1>3 DEF RoutedLines
    <2>2. /\ IsList(new)
          /\ Len(new) = IF Len(lines) < MaxEvaluatorLines THEN Len(lines) + 1
                        ELSE MaxEvaluatorLines
      BY PushedLine DEF LinesAt
    <2> HIDE DEF new
    <2> DEFINE x == Len(lines)
               y == Len(new)
    <2>3. x \in Nat /\ x <= 20 /\ y = IF x < 20 THEN x + 1 ELSE 20
      BY <1>2, <2>2 DEF LinesAt, MaxEvaluatorLines
    <2>4. ASSUME \A k \in New(events, m) : IsEvaluation(events[k])
          PROVE  x = IF count < 20 THEN count ELSE 20
      BY <1>1, <2>4 DEF LinesAt, MaxEvaluatorLines
    <2> HIDE DEF x, y
    <2>5. y <= 20
      BY <2>3
    <2>6. ASSUME \A k \in New(events, m) : IsEvaluation(events[k])
          PROVE  y = IF count + 1 < 20 THEN count + 1 ELSE 20
      BY <2>3, <2>4, <2>6
    <2>7. LinesAt(events, m, new, count + 1)
      BY <2>2, <2>5, <2>6 DEF LinesAt, MaxEvaluatorLines, y
    <2> QED
      BY <2>1, <2>7
  <1>4. CASE e.type \notin EvaluatorTypes
    <2>1. RoutedLines(lines, e) = lines
      BY <1>4 DEF RoutedLines
    <2>2. ~IsEvaluation(events[m])
      BY <1>4 DEF EvaluatorTypes, IsEvaluation
    <2>3. LinesAt(events, m, lines, count + 1)
      BY <1>1, <2>2 DEF LinesAt
    <2> QED
      BY <2>1, <2>3
  <1> QED
    BY <1>3, <1>4

LEMMA PanesNext ==
    ASSUME NEW events, NEW n \in Nat, NEW m, m = n + 1, IsEvent(events[m]),
           NEW view, PanesAt(events, n, view)
    PROVE  PanesAt(events, m, ApplyEvent(view, events[m]))
  <1> DEFINE e == events[m]
             u == ApplyEvent(view, e)
  <1>1. /\ e.id \in view.seen => u = view
        /\ e.id \notin view.seen =>
             /\ IsView(u) /\ u.seen = view.seen \cup {e.id} /\ u.count = view.count + 1
             /\ u.epics = RoutedEpics(view.epics, e)
             /\ u.evaluator = RoutedLines(view.evaluator, e)
             /\ u.notifications = RoutedNotices(view.notifications, e)
    BY ApplyIs DEF PanesAt
  <1> HIDE DEF u
  <1>2. view.seen = SeenIds(events, n) /\ view.count \in Nat
    BY FS_CardinalityType DEF PanesAt, CountAt
  <1>3. CASE e.id \in view.seen
    <2>1. CountAt(events, m, view.seen, view.count)
      BY <1>3, CountNext DEF PanesAt
    <2>2. New(events, m) = New(events, n)
      BY <1>2, <1>3, NewNext
    <2>3. NoticesAt(events, m, view.notifications)
      BY <2>2 DEF PanesAt, NoticesAt
    <2>4. LinesAt(events, m, view.evaluator, view.count)
      BY <2>2 DEF PanesAt, LinesAt
    <2>5. TasksTold(events, m, view.epics)
      BY <2>2 DEF PanesAt, TasksTold, TaskTold, IsNewest
    <2>6. PanesAt(events, m, view)
      BY <2>1, <2>3, <2>4, <2>5 DEF PanesAt
    <2> QED
      BY <1>1, <1>3, <2>6 DEF u
  <1>4. CASE e.id \notin view.seen
    <2>1. CountAt(events, m, view.seen \cup {e.id}, view.count + 1)
      BY <1>4, CountNext DEF PanesAt
    <2>2. NoticesAt(events, m, RoutedNotices(view.notifications, e))
      BY <1>2, <1>4, NoticesNext DEF PanesAt
    <2>3. LinesAt(events, m, RoutedLines(view.evaluator, e), view.count + 1)
      BY <1>2, <1>4, LinesNext DEF PanesAt
    <2>4. TasksTold(events, m, RoutedEpics(view.epics, e))
      BY <1>2, <1>4, TasksToldNext DEF PanesAt
    <2>5. PanesAt(events, m, u)
      BY <1>1, <1>4, <2>1, <2>2, <2>3, <2>4 DEF PanesAt
    <2> QED
      BY <2>5 DEF u
  <1> QED
    BY <1>3, <1>4

LEMMA PanesEmpty ==
    ASSUME NEW events
    PROVE  PanesAt(events, 0, EmptyView)
  <1>1. New(events, 0) = {} /\ SeenIds(events, 0) = {}
    BY DEF New, SeenIds
  <1>2. IsFiniteSet({}) /\ Cardinality({}) = 0
    BY FS_EmptySet
  <1>3. IsList(<<>>) /\ Len(<<>>) = 0 /\ DOMAIN <<>> = {}
    BY EmptyList
  <1>4. /\ IsView(EmptyView) /\ EmptyView.seen = {} /\ EmptyView.count = 0
        /\ EmptyView.notifications = <<>> /\ EmptyView.evaluator = <<>>
        /\ EmptyView.epics = <<>>
    BY DEF EmptyView, IsView, ViewOf
  <1>5. CountAt(events, 0, {}, 0)
    BY <1>1, <1>2 DEF CountAt
  <1>6. NoticesAt(events, 0, <<>>)
    BY <1>1, <1>3 DEF NoticesAt, NoticeIds, ToSet
  <1>7. LinesAt(events, 0, <<>>, 0)
    BY <1>3 DEF LinesAt, MaxEvaluatorLines
  <1>8. TasksTold(events, 0, <<>>)
    <2>1. BoardTasks(<<>>) = {}
      BY <1>3 DEF BoardTasks, ToSet
    <2> QED
      BY <1>3, <2>1 DEF TasksTold, IsEpicList
  <1> QED
    BY <1>4, <1>5, <1>6, <1>7, <1>8 DEF PanesAt

Paned == INSTANCE FoldFacts
    WITH Op <- LAMBDA p, view, e : ApplyEvent(view, e),
         Value <- LAMBDA p, i : Nth(p, i), Pick <- LAMBDA s : Max(s),
         Inv <- LAMBDA p, n, view : PanesAt(p, n, view)

LEMMA PanesOfEvents ==
    ASSUME NEW events, IsList(events), \A k \in DOMAIN events : IsEvent(events[k])
    PROVE  PanesAt(events, Len(events), ApplyEvents(EmptyView, events))
  <1> DEFINE n == Len(events)
             base == EmptyView
  <1>1. n \in Nat /\ DOMAIN events = 1 .. n
    BY ListFacts
  <1>2. ApplyEvents(base, events) = Paned!Fold(events, base, 1 .. n)
    BY <1>1 DEF ApplyEvents, FoldLeft, MapThenFoldSet, Paned!Fold, Paned!MapThenFoldSet,
                Nth
  <1>3. PanesAt(events, 0, base)
    BY PanesEmpty
  <1> HIDE DEF n, base
  <1>4. Paned!Picks(1 .. n) /\ Paned!LastPicked(n)
    BY <1>1, LastOfPositions DEF Paned!Picks, Paned!LastPicked
  <1>5. ASSUME NEW k \in 1 .. n, NEW view, PanesAt(events, k - 1, view)
        PROVE  PanesAt(events, k, ApplyEvent(view, Nth(events, k)))
    <2> DEFINE j == k - 1
    <2>1. j \in Nat /\ k = j + 1 /\ PanesAt(events, j, view)
      BY <1>1, <1>5
    <2> HIDE DEF j
    <2>2. IsEvent(events[k])
      BY <1>1
    <2> QED
      BY <2>1, <2>2, PanesNext DEF Nth
  <1>6. PanesAt(events, n, Paned!Fold(events, base, 1 .. n))
    BY <1>1, <1>3, <1>4, <1>5, Paned!ListKeeps
  <1> QED
    BY <1>2, <1>6 DEF n, base

-----------------------------------------------------------------------------
(* Live view: what holds of the panes, and of the view of a stream         *)

(* What is told of a tape are its events.                                  *)
IsEventList(list) == IsList(list) /\ \A k \in DOMAIN list : IsEvent(list[k])
ToldEvents == INSTANCE FoldFacts
    WITH Op <- LAMBDA p, s, e : EventTurn(s, e),
         Value <- LAMBDA p, i : Nth(p, i), Pick <- LAMBDA s : Max(s),
         Inv <- LAMBDA p, n, s : IsEventList(s)

LEMMA EventTurnKeeps ==
    ASSUME NEW s, IsEventList(s), NEW e, e = NotAnEvent \/ IsEvent(e)
    PROVE  IsEventList(EventTurn(s, e))
  <1> DEFINE new == Append(s, e)
  <1>1. CASE e = NotAnEvent
    BY <1>1 DEF EventTurn
  <1>2. CASE e # NotAnEvent
    <2>1. EventTurn(s, e) = new
      BY <1>2 DEF EventTurn
    <2>2. /\ IsList(new)
          /\ \A k \in DOMAIN new : new[k] = e \/ (k \in DOMAIN s /\ new[k] = s[k])
      BY AddedElements DEF IsEventList
    <2> HIDE DEF new
    <2>3. IsEventList(new)
      BY <1>2, <2>2 DEF IsEventList
    <2> QED
      BY <2>1, <2>3
  <1> QED
    BY <1>1, <1>2

LEMMA EventsOfTape ==
    ASSUME NEW tape, IsTape(tape)
    PROVE  IsEventList(OnlyEvents(tape))
  <1> DEFINE n == Len(tape)
             base == <<>>
  <1>1. n \in Nat /\ DOMAIN tape = 1 .. n
    BY ListFacts DEF IsTape
  <1>2. OnlyEvents(tape) = ToldEvents!Fold(tape, base, 1 .. n)
    BY <1>1 DEF OnlyEvents, EventTurn, FoldLeft, MapThenFoldSet, ToldEvents!Fold,
                ToldEvents!MapThenFoldSet, Nth
  <1>3. IsEventList(base)
    BY EmptyList DEF IsEventList
  <1> HIDE DEF n, base
  <1>4. ToldEvents!Picks(1 .. n) /\ ToldEvents!LastPicked(n)
    BY <1>1, LastOfPositions DEF ToldEvents!Picks, ToldEvents!LastPicked
  <1>5. \A k \in 1 .. n : \A s :
          IsEventList(s) => IsEventList(EventTurn(s, Nth(tape, k)))
    BY <1>1, EventTurnKeeps DEF Nth, IsTape
  <1>6. IsEventList(ToldEvents!Fold(tape, base, 1 .. n))
    BY <1>1, <1>3, <1>4, <1>5, ToldEvents!ListKeeps
  <1> QED
    BY <1>2, <1>6

LEMMA BeginningOfTape ==
    ASSUME NEW tape, IsTape(tape), NEW n \in 0 .. Len(tape)
    PROVE  IsTape(SubSeq(tape, 1, n))
  <1> DEFINE a == SubSeq(tape, 1, n)
             all == Len(tape)
  <1>1. all \in Nat /\ DOMAIN tape = 1 .. all
    BY ListFacts DEF IsTape
  <1>2. IsList(a) /\ n = Len(a) /\ \A k \in 1 .. n : a[k] = tape[k]
    BY Beginning DEF IsTape
  <1> HIDE DEF a
  <1>3. DOMAIN a = 1 .. n
    BY <1>2, ListFacts
  <1>4. \A k \in 1 .. n : k \in 1 .. all
    BY <1>1
  <1>5. IsTape(a)
    BY <1>1, <1>2, <1>3, <1>4 DEF IsTape
  <1> QED
    BY <1>5 DEF a

(* The view counts each id once.                                           *)
LEMMA ViewCounts ==
    ASSUME NEW events, IsEventList(events)
    PROVE  ApplyEvents(EmptyView, events).count = Cardinality({e.id : e \in ToSet(events)})
  <1> DEFINE n == Len(events)
             view == ApplyEvents(EmptyView, events)
  <1>1. DOMAIN events = 1 .. n
    BY ListFacts DEF IsEventList
  <1>2. PanesAt(events, n, view)
    BY PanesOfEvents DEF IsEventList
  <1> HIDE DEF n, view
  <1>3. SeenIds(events, n) = {e.id : e \in ToSet(events)}
    BY <1>1 DEF SeenIds, ToSet
  <1>4. view.count = Cardinality({e.id : e \in ToSet(events)})
    BY <1>2, <1>3 DEF PanesAt, CountAt
  <1> QED
    BY <1>4 DEF view

(* The newest event to concern a task is the last of those that do.        *)
LEMMA SomeNewest ==
    ASSUME NEW events, NEW n \in Nat, NEW task,
           NEW i \in New(events, n), Concerns(events[i], task)
    PROVE  \E k \in New(events, n) : IsNewest(events, n, k, task)
  <1> DEFINE T == {k \in New(events, n) : Concerns(events[k], task)}
             k == Max(T)
  <1>1. T \in SUBSET (1 .. n) /\ T # {}
    BY DEF New
  <1>2. k \in T /\ \A j \in T : k >= j
    <2> HIDE DEF T
    <2> QED
      BY <1>1, LastIn
  <1>3. \A j \in T : ~(j > k)
    <2> HIDE DEF T, k
    <2>1. \A j \in T : j \in Nat
      BY <1>1
    <2> QED
      BY <1>2, <2>1
  <1> HIDE DEF k
  <1> QED
    BY <1>2, <1>3 DEF IsNewest

(* The panes tell the newest of what was said.                             *)
LEMMA PanesTold ==
    ASSUME NEW events, IsEventList(events)
    PROVE  PanesTellTheNewest(events)
  <1> DEFINE n == Len(events)
             view == ApplyEvents(EmptyView, events)
             new == {k \in DOMAIN events :
                       \A j \in 1 .. k - 1 : events[j].id # events[k].id}
             Brings(k, task) ==
                 /\ events[k].type = "planner.proposed" /\ Has(events[k].payload, "epics")
                 /\ \E e \in ToSet(ExtractEpics(events[k].payload.epics)) :
                      \E t \in ToSet(e.tasks) : t.stableId = task
             Closes(k, task) ==
                 /\ events[k].type \in {"task.completed", "task.failed"}
                 /\ Has(events[k].payload, "taskId") /\ events[k].payload.taskId = task
             NewestOf(task) ==
                 CHOOSE k \in new :
                     /\ Brings(k, task) \/ Closes(k, task)
                     /\ \A j \in new : j > k => ~Brings(j, task) /\ ~Closes(j, task)
             evaluations == {k \in new : events[k].type = "evaluation.finished"}
  <1>1. n \in Nat /\ DOMAIN events = 1 .. n
    BY ListFacts DEF IsEventList
  <1>2. PanesAt(events, n, view)
    BY PanesOfEvents DEF IsEventList
  <1>3. new = New(events, n)
    BY <1>1 DEF New
  <1>4. \A k, task : Closes(k, task) <=> SettlesTask(events[k], task)
    BY DEF SettlesTask, SettledTypes
  <1>5. \A k, task : Brings(k, task) <=> ProposesTask(events[k], task)
    BY DEF ProposesTask, BoardTasks
  <1> HIDE DEF n, view, new, Brings, Closes
  <1>6. ASSUME NEW e \in ToSet(view.epics), NEW t \in ToSet(e.tasks),
               Closes(NewestOf(t.stableId), t.stableId)
        PROVE  t.status = IF events[NewestOf(t.stableId)].type = "task.failed" THEN "failed"
                          ELSE "completed"
    <2> DEFINE task == t.stableId
               k == NewestOf(task)
    <2>1. TaskTold(events, n, t)
      <3>1. t \in BoardTasks(view.epics)
        BY DEF BoardTasks
      <3> QED
        BY <1>2, <3>1 DEF PanesAt, TasksTold
    <2>2. \E i \in New(events, n) : IsNewest(events, n, i, task)
      <3>1. PICK i \in New(events, n) : Concerns(events[i], task)
        BY <2>1 DEF TaskTold
      <3> QED
        BY <1>1, <3>1, SomeNewest
    <2>3. \E i \in new :
            /\ Brings(i, task) \/ Closes(i, task)
            /\ \A j \in new : j > i => ~Brings(j, task) /\ ~Closes(j, task)
      BY <1>3, <1>4, <1>5, <2>2 DEF IsNewest, Concerns
    <2>4. /\ k \in new
          /\ Brings(k, task) \/ Closes(k, task)
          /\ \A j \in new : j > k => ~Brings(j, task) /\ ~Closes(j, task)
      <3> HIDE DEF task
      <3> QED
        BY <2>3
    <2> HIDE DEF k
    <2>5. IsNewest(events, n, k, task)
      BY <1>3, <1>4, <1>5, <2>4 DEF IsNewest, Concerns
    <2>6. SettlesTask(events[k], task)
      BY <1>4, <1>6 DEF k
    <2>7. t.status = StatusSaid(events[k])
      BY <2>1, <2>5, <2>6 DEF TaskTold, IsNewest
    <2>8. events[k].type \in SettledTypes
      BY <2>6 DEF SettlesTask
    <2>9. t.status = IF events[k].type = "task.failed" THEN "failed" ELSE "completed"
      BY <2>7, <2>8 DEF StatusSaid, SettledTypes
    <2> QED
      BY <2>9 DEF k
  <1>7. ToSet(view.notifications) =
          {events[k].id : k \in {j \in new : events[j].type = "operator.notification"
                                             /\ IsNotification(events[j].payload)}}
    BY <1>2, <1>3 DEF PanesAt, NoticesAt, NoticeIds, IsNotice
  <1>8. HandleKey(view, "n").notifications = <<>>
    <2>1. HandleKey(view, "n") = WithNotifications(view, <<>>)
      BY DEF HandleKey, WithNotifications
    <2>2. IsView(view)
      BY <1>2 DEF PanesAt
    <2> DEFINE none == <<>>
    <2> HIDE DEF none
    <2>3. WithNotifications(view, none).notifications = none
      BY <2>2, ViewKeeps DEF SamePanes
    <2> QED
      BY <2>1, <2>3 DEF none
  <1>9. Len(view.evaluator) <= MaxEvaluatorLines
    BY <1>2 DEF PanesAt, LinesAt
  <1>10. ASSUME evaluations = new
         PROVE  Len(view.evaluator) = IF Cardinality(new) < MaxEvaluatorLines
                                      THEN Cardinality(new) ELSE MaxEvaluatorLines
    <2>1. \A k \in New(events, n) : IsEvaluation(events[k])
      BY <1>3, <1>10 DEF IsEvaluation
    <2>2. view.count = Cardinality(new)
      BY <1>2, <1>3 DEF PanesAt, CountAt
    <2> QED
      BY <1>2, <2>1, <2>2 DEF PanesAt, LinesAt
  <1> HIDE DEF NewestOf, evaluations
  <1>11. /\ \A e \in ToSet(view.epics) : \A t \in ToSet(e.tasks) :
              Closes(NewestOf(t.stableId), t.stableId) =>
                t.status = IF events[NewestOf(t.stableId)].type = "task.failed" THEN "failed"
                           ELSE "completed"
         /\ ToSet(view.notifications) =
              {events[k].id : k \in {j \in new : events[j].type = "operator.notification"
                                                 /\ IsNotification(events[j].payload)}}
         /\ HandleKey(view, "n").notifications = <<>>
         /\ Len(view.evaluator) <= MaxEvaluatorLines
         /\ evaluations = new /\ new # {} =>
              Len(view.evaluator) = IF Cardinality(new) < MaxEvaluatorLines
                                    THEN Cardinality(new) ELSE MaxEvaluatorLines
    BY <1>6, <1>7, <1>8, <1>9, <1>10
  <1> QED
    BY <1>11, Zenon DEF PanesTellTheNewest, view, new, Brings, Closes, NewestOf, evaluations

(* However the stream is cut into chunks, wherever it breaks off and        *)
(* whatever it repeats, the view is that of the events whose frames came    *)
(* whole, each counted once, and its panes tell the newest of them.         *)
THEOREM ViewsHold ==
    ASSUME StreamIsProper
    PROVE  ViewFollowsStream
  <1>1. CASE input.of = "stream"
    <2> DEFINE tape == input.tape
               crlf == input.crlf
               chunks == input.chunks
               end == Len(Joined(chunks))
               whole == CHOOSE n \in 0 .. Len(tape) :
                          /\ Len(Wire(SubSeq(tape, 1, n), crlf)) <= end
                          /\ n < Len(tape) => Len(Wire(SubSeq(tape, 1, n + 1), crlf)) > end
               events == OnlyEvents(SubSeq(tape, 1, whole))
               view == RunLiveView(chunks)
    <2>1. /\ IsTape(tape) /\ IsList(tape) /\ crlf \in BOOLEAN
          /\ IsList(chunks) /\ \A k \in DOMAIN chunks : IsList(chunks[k])
          /\ IsPrefix(Joined(chunks), Wire(tape, crlf))
      BY <1>1 DEF StreamIsProper, IsTape
    <2> HIDE DEF tape, crlf, chunks
    <2>2. end \in Nat
      <3> DEFINE m == Len(chunks)
      <3>1. m \in Nat /\ m = Len(chunks) /\ DOMAIN chunks = 1 .. m
        BY <2>1, ListFacts
      <3> HIDE DEF m
      <3>2. \A k \in 1 .. m : IsList(chunks[k])
        BY <2>1, <3>1
      <3>3. IsList(Joined(chunks))
        BY <2>1, <3>1, <3>2, JoinedFold, JoinedIsList
      <3> QED
        BY <3>3, ListFacts
    <2> HIDE DEF end
    <2>3. \E n \in 0 .. Len(tape) : CameWhole(tape, crlf, end, n)
      BY <2>1, <2>2, SomeCameWhole
    <2>4. whole \in 0 .. Len(tape) /\ CameWhole(tape, crlf, end, whole)
      BY <2>3 DEF CameWhole
    <2> HIDE DEF whole
    <2>5. view = ApplyEvents(EmptyView, events)
      BY <2>1, <2>4, ViewOfWholeFrames DEF end
    <2>6. IsEventList(events)
      BY <2>1, <2>4, BeginningOfTape, EventsOfTape
    <2> HIDE DEF events, view
    <2>7. view.count = Cardinality({e.id : e \in ToSet(events)})
      BY <2>5, <2>6, ViewCounts
    <2>8. ViewIsOfWholeFrames(tape, crlf, chunks)
      BY <2>5, <2>7, Zenon DEF ViewIsOfWholeFrames, view, events, whole, end
    <2> QED
      BY <1>1, <2>8 DEF ViewFollowsStream, tape, crlf, chunks
  <1>2. CASE input.of = "tape"
    <2>1. IsTape(input.events) /\ NotAnEvent \notin ToSet(input.events)
      BY <1>2 DEF StreamIsProper
    <2>2. IsEventList(input.events)
      BY <2>1 DEF IsTape, IsEventList, ToSet
    <2>3. PanesTellTheNewest(input.events)
      BY <2>2, PanesTold
    <2> QED
      BY <1>2, <2>3 DEF ViewFollowsStream
  <1> QED
    BY <1>1, <1>2 DEF ViewFollowsStream
=============================================================================
