SPECIFICATION Spec
CONSTANTS
    Threads = {t1, t2}
    CallbackThread = cb
    Batches = {b1, b2}
    NFrames = 1
    NoThread = NoThread
    NoBatch = NoBatch
    Free = Free
    PreviewOp = PreviewOp
    DeviceOp = DeviceOp
    RetryAfterBusy = FALSE
    CallbackCloses = FALSE
SYMMETRY Symmetric
INVARIANTS TypeOK LaneIsExclusive NothingOrphaned
