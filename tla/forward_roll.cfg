SPECIFICATION Spec
CONSTANTS
    NFrames = 3
    ChunkSize = 2
    MaxInterrupts = 2
    MaxTampers = 1
    None = None
    Altered = Altered
INVARIANTS TypeOK ManifestIsReconstruction
PROPERTIES NothingCapturedTwice EjectedMeansArchived
