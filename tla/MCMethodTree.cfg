CONSTANTS
    Size = 4
    MaxMethods = 4
    MaxReads = 4
SPECIFICATION Spec
INVARIANTS DeepestOrBoundary Spells NothingComparedIsLost FailsAtTheEnds LeavesAreMaximal OverlapsTakeThree
CHECK_DEADLOCK FALSE
