SPECIFICATION FairSpec
CONSTANTS
    NFrames = 3
    Passes = 2
    UntracedEffects = FALSE
INVARIANTS TypeOK Honest CleanupSound ParentConsumesFirst CompleteIsWhole
PROPERTIES StopWinsTheGate KeepsContract BothSidesEnd
