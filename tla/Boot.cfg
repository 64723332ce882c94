SPECIFICATION Spec
CONSTANTS
    PAGE_SIZE = 8
    VA_PAGES = 64
    WORD = 2
    SIZE_MAX = 65535
    BOOT_FRAMES = 2
    Segments <- BootSegments
    BSS_END = 493
    KERNEL_FRAMES = 6
    KSTACK_PAGES = 3
    TSS_PAGES = 3
    max_entries = 3
    NODE_SIZE = 3
    user_stack_page_limit = 8
    MAX_ENTRIES = 10
    Arguments <- BootArguments
    Environments <- BootEnvironments
INVARIANTS ImageLoaded GdtMapped LayoutSound ProgramGetsArguments
PROPERTY ProgramEntered
CHECK_DEADLOCK FALSE
