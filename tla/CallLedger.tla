----------------------------- MODULE CallLedger -----------------------------
(***************************************************************************)
(* What the service of packages/mcp-client promises its operator about one *)
(* project's tool calls, without saying how: a call acts on the workspace  *)
(* only when an operator has granted it, or has exempted it by asking no   *)
(* approval for its tool.  While requests come one at a time a call acts   *)
(* at most once, whatever is retried and whenever the server is restarted. *)
(* ToolCalls implements it.                                                *)
(***************************************************************************)
EXTENDS Naturals

CONSTANT Calls          \* ids of the calls there can be

VARIABLES
    serial,             \* requests come one at a time
    granted,            \* calls an operator has granted
    exempt,             \* calls an operator has exempted
    acted,              \* how often each call has mutated the workspace
    asked               \* calls that were made

ledger == <<serial, granted, exempt, acted, asked>>

Init ==
    /\ serial \in BOOLEAN
    /\ granted = {}
    /\ exempt = {}
    /\ acted = [c \in Calls |-> 0]
    /\ asked = {}

Ask(c) ==
    /\ c \notin asked
    /\ asked' = asked \cup {c}
    /\ UNCHANGED <<serial, granted, exempt, acted>>

Grant(c) ==
    /\ c \in asked
    /\ granted' = granted \cup {c}
    /\ UNCHANGED <<serial, exempt, acted, asked>>

Exempt(c) ==
    /\ c \in asked
    /\ exempt' = exempt \cup {c}
    /\ UNCHANGED <<serial, granted, acted, asked>>

Act(c) ==
    /\ c \in granted \cup exempt
    /\ serial => acted[c] = 0
    /\ acted' = [acted EXCEPT ![c] = @ + 1]
    /\ UNCHANGED <<serial, granted, exempt, asked>>

Next == \E c \in Calls : Ask(c) \/ Grant(c) \/ Exempt(c) \/ Act(c)

Spec == Init /\ [][Next]_ledger
=============================================================================
