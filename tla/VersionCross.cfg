SPECIFICATION Spec
CONSTANTS
    PAGE_SIZE = 3
    PAGES = 4
    VERSIONS = 4
    CHECKED = 3
    Shapes <- Ordinary
    Stacks = {s1}
    TrapFlags = {TRUE, FALSE}
    UserPages = {2, 3}
    Growable = {2}
    BootPresent = {0, 1, 3}
    Mappable = {}
    SetCalls <- MCSetCalls
    SYSCALL_MAX = 4
    CallNumbers = {2, 3, 4}
    s1 = s1
    s2 = s2
INVARIANT AlarmsWouldHaveFailed
CHECK_DEADLOCK FALSE
