SPECIFICATION FairSpec
CONSTANTS
    Threads = {t1, t2}
    CallbackThread = cb
    Batches = {b1}
    NFrames = 2
    NoThread = NoThread
    NoBatch = NoBatch
    Free = Free
    PreviewOp = PreviewOp
    DeviceOp = DeviceOp
    RetryAfterBusy = FALSE
    CallbackCloses = FALSE
INVARIANT OneLateFrame
PROPERTY CallsReturn
