SPECIFICATION Spec
CONSTANTS
    PAGE_SIZE = 4
    VA_PAGES = 16
    Areas <- MCAreas
    KernelFrames <- MCKernelFrames
    InitialRam <- MCInitialRam
    SYSCALL_MAX = 315
    Syscalls <- MCSyscalls
    KernelCalls <- MCKernelCalls
    STAT_SIZE = 3
    VM_STAT_SIZE = 2
    EINVAL = 22
    EFAULT = 14
    MaxCalls = 2
INVARIANTS CallsReachHandlers OutputIsCallers InputArrives NamesAreCallers GsKept
PROPERTIES BufferOnly CallAnswered
CHECK_DEADLOCK FALSE
