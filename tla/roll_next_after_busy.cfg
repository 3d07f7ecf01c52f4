SPECIFICATION Spec
CONSTANTS
    Threads = {t1}
    CallbackThread = cb
    Batches = {b1}
    NFrames = 1
    NoThread = NoThread
    NoBatch = NoBatch
    Free = Free
    PreviewOp = PreviewOp
    DeviceOp = DeviceOp
    RetryAfterBusy = TRUE
    CallbackCloses = FALSE
PROPERTY UncertainRetained
