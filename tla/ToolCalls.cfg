SPECIFICATION Spec
CONSTANTS
    Calls = {1, 2}
    Handlers = {h1}
    Agent = agent
    Offered = {"run_command"}
    Given <- GivenRows
    MaxTurns = 2
INVARIANTS
    TypeOK
    ActsOnlyIfGranted
    LoopClosesItsSteps
PROPERTIES
    FinishedStaysFinished
    KeepsTheLedger
    LoopEnds
CHECK_DEADLOCK FALSE
