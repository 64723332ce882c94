SPECIFICATION Spec
CONSTANTS
    PAGE_SIZE = 8
    NODE_SIZE = 3
    max_entries = 2
    kernel_min_address = 32
    MaxNodes = 5
    MaxUses = 2
INVARIANT OwnedNodeNotOnList
CHECK_DEADLOCK FALSE
