SPECIFICATION Spec
CONSTANTS
    Decisions = {d1, d2, d3, d4, d5}
    Handlers = {h1, h2}
    MaxTestRuns = 2
SYMMETRY RowSymmetry
INVARIANTS
    AtMostOneSelected
