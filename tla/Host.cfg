SPECIFICATION Spec
CONSTANTS
    PAGE_SIZE = 4
    WORD = 64
    ENOMEM = 1
    EINVAL = 2
    kernel_min_address = 48
    user_stack_start = 48
    user_stack_page_limit = 3
    user_heap_start = 12
    MaxFd = 6
    MaxFrames = 13
    MmapCalls <- HostCalls
    MunmapCalls <- HostMunmaps
    BrkCalls <- HostBrks
    Touched <- HostTouched
    FileOf <- HostFileOf
    BootAreas <- HostBootAreas
    BootFds <- HostBootFds
    BootHost <- HostBoot
    KernelMapVma <- HostMapVma
    KernelUnmapVma <- HostUnmapVma
    Present <- HostPresent
    HostBound <- FramesBound
INVARIANTS PageTableSound FramesPrivate HostKnowsBounds
PROPERTY NoWrongData
CHECK_DEADLOCK FALSE
