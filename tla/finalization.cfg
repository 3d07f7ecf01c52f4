SPECIFICATION Spec
CONSTANTS
    MaxCrashes = 1
    MaxFaults = 2
    MaxTampers = 1
    Basenames = 2
    MaxPromotions = 1
INVARIANTS
    TypeOK
    TripletRecoverable
    SealsAreTrue
PROPERTIES
    RawOutlivesTheArchive
    FolderIsAppendOnly
    GoodCaptureSettles

