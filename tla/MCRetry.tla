------------------------------ MODULE MCRetry ------------------------------
(* Instances of RetryLadder for TLC.                                        *)
EXTENDS RetryLadder, TLC

(* Decision ids and handlers are interchangeable (safety only).             *)
RowSymmetry == Permutations(Decisions) \cup Permutations(Handlers)
=============================================================================
