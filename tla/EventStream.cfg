SPECIFICATION Spec
CONSTANTS
    Writers = {w1, w2}
    Connections = {c1}
    MaxEvents = 4
    Bound <- EventsOf
    Limit <- EveryRow
INVARIANTS
    TypeOK
    NoDuplicateFrames
    CaughtUp
PROPERTIES
    QueuedIsWritten
    ListenerComesBack
