---------------------------- MODULE MCLifecycle ----------------------------
(* Instances of ExecutionLifecycle for TLC.                                 *)
EXTENDS ExecutionLifecycle, TLC

CONSTANTS i1, i2, v1, v2, v3

(* v1 and v2 hang on the plan's items, v3 on none.                          *)
Linked == (v1 :> i1) @@ (v2 :> i2) @@ (v3 :> NoItem)

LinkedOne == (v1 :> i1) @@ (v3 :> NoItem)

(* No validations.                                                          *)
NoLinks == [v \in {} |-> i1]

(* Executions and handlers are interchangeable (safety only).               *)
RowSymmetry == Permutations(Executions) \cup Permutations(Handlers)
=============================================================================
