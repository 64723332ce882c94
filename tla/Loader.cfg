SPECIFICATION LoaderSpec
CONSTANTS
    PAGE_SIZE = 4
    WORD = 112
    ENOMEM = 1
    EINVAL = 2
    kernel_min_address = 96
    user_stack_start = 96
    user_stack_page_limit = 3
    user_heap_start = 12
    MaxFd = 9
    MmapCalls <- FileCalls
    MunmapCalls <- FileMunmaps
    BrkCalls <- FileBrks
    Touched <- FileTouched
    FileOf <- LoaderFileOf
    BootAreas <- LoaderBootAreas
    BootFds <- LoaderBootFds
    BootHost = 0
    KernelMapVma <- LoaderMapVma
    KernelUnmapVma <- LoaderUnmapVma
    Present <- LoaderPresent
    HostBound <- LoaderHostBound
    Images <- MCImages
    NoInterp = NoInterp
    ArgBytes <- MCArgBytes
INVARIANTS ImageInPlace LoadsSucceed OwnDescriptor
PROPERTY ProgramKeepsPages
CHECK_DEADLOCK FALSE
