CONSTANTS
    KBD_BUF_SIZE = 3
    MainPolls = FALSE
    MaxTyped = 6
    Height = 5
    GlyphH = 2
    Cols = 2
    Chars = {"a", "b"}
    CON_KEEP = 4
    MaxChars = 5
    IrqChars = 4
    DEVFS_MAX_NODES = 7
    DEVFS_MAX_CHILDREN = 3
    MaxHids = 4
    MAX_OPEN_FILES = 2
    EXT3_DIRECT_BLOCKS = 2
    BlockSize = 2
    IndirectCap = 2
    Word = 32
    Inodes <- MCInodes
    Indirect <- MCIndirect
    InodeBlock <- MCInodeBlock
    TableBlock = 10
    Paths <- MCPaths
    Lens = {1, 3, 30}
    Offsets <- MCOffsets
    Bad = {{}, {10}, {11}, {12}, {33}, {32}, {41}}
    NFrames = 4
SPECIFICATION MCSpec
CHECK_DEADLOCK FALSE
INVARIANTS
    PolledInOrder
    
    EveryNodeFound
    
PROPERTIES
    ImplementsFifo
    KeysDelivered
    
    LogTailShown
