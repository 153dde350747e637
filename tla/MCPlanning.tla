---------------------------- MODULE MCPlanning ----------------------------
EXTENDS Planning, TLC

CONSTANTS h1, h2

HandlersSymmetry == Permutations(Handlers)
=============================================================================
