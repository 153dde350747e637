CONSTANTS
    N = 2
    Shapes <- MCShapes
    MaxIterations = 2
    MaxDrives = 2
SPECIFICATION Spec
INVARIANTS
    TypeOK
    PassedIsRedThenGreen
    AbortedBeforeGreen
    VerifiedOnce
    FilesFollowRows
PROPERTIES
    DriveEnds
CHECK_DEADLOCK FALSE
