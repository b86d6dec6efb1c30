SPECIFICATION OutputFairSpec
CONSTANTS
    Callers = {t1, t2}
    Sizes = {1, 2, 3}
    BufferSize = 3
    QueueLimit = 3
    KernelSize = 2
    MaxBytes = 9
INVARIANTS InOrder BacklogBounded
PROPERTIES Delivered
