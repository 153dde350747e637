------------------------------ MODULE MCEvents ------------------------------
(* Instances of EventStream for TLC.                                        *)
EXTENDS EventStream

(* The replay's limit (200 rows in the code) covers every row there is.     *)
EveryRow == MaxEvents

EventsOf == [sqlite |-> 4, postgres |-> 3, notify |-> 2]
=============================================================================
