---------------------------- MODULE MCToolCalls -----------------------------
(* Instances of ToolCalls for TLC.                                          *)
EXTENDS ToolCalls, TLC

(* An operator drops the approval of a tool that acts.                      *)
Waived == [mutability |-> "write", approval |-> FALSE, schema |-> "listed", active |-> TRUE]
GivenRows == {Waived}
=============================================================================
