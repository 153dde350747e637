SPECIFICATION Spec
CONSTANTS
    None = None
    Absent = Absent
    NoCredential = NoCredential
    NoRow = NoRow
    NotGiven = NotGiven
    NoKey = NoKey
INVARIANTS
    PlansAreSound
    SetupsAreSound
    ImportSettles
    ScoresAreSound
    ViewFollowsStream
CHECK_DEADLOCK FALSE
