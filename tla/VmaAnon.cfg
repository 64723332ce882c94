SPECIFICATION Spec
CONSTANTS
    PAGE_SIZE = 4
    WORD = 64
    ENOMEM = 1
    EINVAL = 2
    kernel_min_address = 48
    user_stack_start = 48
    user_stack_page_limit = 3
    user_heap_start = 12
    MaxFd = 4
    MmapCalls <- AnonCalls
    MunmapCalls <- AnonMunmaps
    BrkCalls <- AnonBrks
    Touched <- AnonTouched
    FileOf <- MCFileOf
    BootAreas <- MCBootAreas
    BootFds <- MCBootFds
    BootHost = 0
    KernelMapVma <- MCKernelMapVma
    KernelUnmapVma <- MCKernelUnmapVma
    Present <- MCPresent
    HostBound <- MCHostBound
INVARIANTS AreasWhole Disjoint HeapEndsAtBreak HighestIsTop
PROPERTY ImplementsAddrSpace
CHECK_DEADLOCK FALSE
