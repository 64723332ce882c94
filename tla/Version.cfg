SPECIFICATION Spec
CONSTANTS
    PAGE_SIZE = 3
    PAGES = 4
    VERSIONS = 4
    CHECKED = 3
    Shapes <- MCShapes
    Stacks = {s1, s2}
    TrapFlags = {TRUE, FALSE}
    UserPages = {2, 3}
    Growable = {2}
    BootPresent = {0, 1, 3}
    Mappable = {1}
    SetCalls <- MCSetCalls
    SYSCALL_MAX = 4
    CallNumbers = {2, 3, 4}
    s1 = s1
    s2 = s2
INVARIANTS TypeOK ContextRestored AlarmExplained
PROPERTIES OnlyMatchingAccesses AccessResolves
CHECK_DEADLOCK FALSE
