SPECIFICATION Spec
CONSTANTS
    Threads = {t1}
    CallbackThread = cb
    Batches = {b1}
    NFrames = 2
    NoThread = NoThread
    NoBatch = NoBatch
    Free = Free
    PreviewOp = PreviewOp
    DeviceOp = DeviceOp
    RetryAfterBusy = FALSE
    CallbackCloses = FALSE
INVARIANT NoFrameAfterStop
