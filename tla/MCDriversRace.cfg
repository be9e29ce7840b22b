CONSTANTS
    USB_DMA_PAGE_SIZE = 4
    USB_DMA_MAX_PAGES = 3
    Frames = {1, 2, 5, 6}
    Requests <- MCRequests
    PAGE_SZ = 4
    U32 = 256
    HeapStack <- MCHeapStack
    HeapSizes = {1, 3, 4, 6, 18}
    MaxBlocks = 5
    AHCI_PAGE_SIZE = 8
    AhciFrames = {3, 5}
    DefaultAlign = 1
    AhciRequests <- MCAhciRequests
    MaxBuffers = 5
    BootStack <- MCBootStack
    PMM_STACK_SIZE = 7
    BackPages = {2, 3}
    DmaPages = {1}
    DmaSlots = {1, 2}
    DoomPages = 1
    RX_DESC_COUNT = 3
    MaxFrames = 7
    TX_DESC_COUNT = 3
    MaxSends = 7
    Services = {1, 2, 3, 4}
    Name <- MCName
    IO_SERVICE_MAX = 3
    XHCI_RING_ITEMS = 4
    UserSets = {{"thread", "tick"}}
    TrbCounts = {1, 2}
    MaxUnanswered = 2
    MaxRequests = 3
    MaxReports = 3
    BlockLen = 2
    Window = 8
    MSC_MAX_CHUNK = 4
    DiskReads <- MCDiskReads
    MaxFails = 2
    Size = 2
    Calls <- MCCalls
    Ports <- MCPorts
    USB_MAXADDR = 5
    USBDEV_MAX = 3
    MaxPipes = 3
SPECIFICATION MCSpec
CHECK_DEADLOCK FALSE
INVARIANT ReportsInOrder
