---------------------------- MODULE StreamViews ----------------------------
(***************************************************************************)
(* The live view of one stream: what a stream may be, and what the view    *)
(* should then show.  Checked on the inputs of a small family (as a part of *)
(* Algorithms) and proved for every proper stream (EventProofs).           *)
(***************************************************************************)
EXTENDS LiveView

VARIABLE input      \* a record; input.of says what for

IsList(list) == list \in Seq({list[k] : k \in DOMAIN list})

(* An event has a record for its payload, with lists for lists; what is     *)
(* read of a stream is the beginning of what was written.                   *)
IsEpics(epics) ==
    /\ IsList(epics)
    /\ \A k \in DOMAIN epics : Has(epics[k], "tasks") => IsList(epics[k].tasks)
IsEvent(e) == Has(e.payload, "epics") => IsEpics(e.payload.epics)
IsTape(tape) == IsList(tape) /\ \A k \in DOMAIN tape : tape[k] = NotAnEvent \/ IsEvent(tape[k])

StreamIsProper ==
    /\ input.of = "stream" =>
        /\ IsTape(input.tape) /\ input.crlf \in BOOLEAN
        /\ IsList(input.chunks)
        /\ \A k \in DOMAIN input.chunks : IsList(input.chunks[k])
        /\ IsPrefix(Joined(input.chunks), Wire(input.tape, input.crlf))
    /\ input.of = "tape" => IsTape(input.events) /\ NotAnEvent \notin ToSet(input.events)

(* See ViewIsOfWholeFrames and PanesTellTheNewest in LiveView.              *)
ViewFollowsStream ==
    /\ input.of = "stream" => ViewIsOfWholeFrames(input.tape, input.crlf, input.chunks)
    /\ input.of = "tape" => PanesTellTheNewest(input.events)
=============================================================================
