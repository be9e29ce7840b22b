CONSTANTS
    PAGE_SIZE = 2
    PMM_STACK_SIZE = 4
    BootStack <- MCBootStack
    Reservations <- MCReservations
    Clients = {c1, c2}
    ADDR_SPACE = 128
    BOOT_PAGE_SIZE = 4
    BOOT_STACK_SIZE = 5
    PMM_MAX_ADDR = 48
    PMM_TOP_GUARD = 8
    KernelStart = 12
    KernelEnd = 18
    Maps <- AllMaps
    NFree = 5
    Identity <- MCIdentity
    Images <- MCImages
    MaxSpaces = 3
    MaxAPs = 3
    PROC_MAX_TASKS = 2
    Creators = {1}
    Waited = {2, 3}
    Values = {"a", "b"}
SPECIFICATION MCSpec
INVARIANT WithinRangeEdges
