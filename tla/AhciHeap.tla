------------------------------ MODULE AhciHeap ------------------------------
(***************************************************************************)
(* The AHCI driver's DMA heap (ahci/dynamic_util.cpp): a carve page, cut   *)
(* up from its start, and a fresh frame when a request does not fit.       *)
(* Frame f covers the addresses f * AHCI_PAGE_SIZE and up.  The driver's   *)
(* requests are at most a page long.                                       *)
(***************************************************************************)
EXTENDS Integers, FiniteSets

CONSTANTS
    AHCI_PAGE_SIZE,
    AhciFrames,  \* frames the allocator has at the start
    AhciRequests,\* <<size, align>> pairs; align a power of two
    DefaultAlign,\* the alignment of plain dma_alloc
    MaxBuffers   \* bound on the number of buffers handed out

VARIABLES
    g_carve,      \* 0 is the null pointer
    g_carve_end,
    ahci_frames,  \* what the frame allocator still has
    buffers       \* history: the buffers handed out since dma_heap_init

carveVars == <<g_carve, g_carve_end, ahci_frames, buffers>>

CarveInit ==
    /\ g_carve = 0 /\ g_carve_end = 0
    /\ ahci_frames = AhciFrames
    /\ buffers = {}

AlignUp(x, a) == x + ((a - (x % a)) % a)
Carved(start, size, align) ==
    [start |-> start, size |-> size, align |-> align, id |-> Cardinality(buffers)]

\* Fault: room is tested before the position is aligned.
Fits_BeforeAligning(size, align) == g_carve # 0 /\ g_carve + size <= g_carve_end

\* Both tests of dma_alloc_aligned: there is a carve page, and the aligned
\* buffer ends inside it.
FitsInPage(size, align) ==
    /\ g_carve # 0
    /\ AlignUp(g_carve, align) + size <= g_carve_end

dma_alloc_aligned(size, align) ==
    /\ FitsInPage(size, align)
    /\ g_carve' = AlignUp(g_carve, align) + size
    /\ buffers' = buffers \cup {Carved(AlignUp(g_carve, align), size, align)}
    /\ UNCHANGED <<g_carve_end, ahci_frames>>

\* carve_new_page: the rest of the old page is given up.
dma_alloc_aligned_new_page(size, align) ==
    /\ ~FitsInPage(size, align)
    /\ \E f \in ahci_frames :
         /\ ahci_frames' = ahci_frames \ {f}
         /\ g_carve' = f * AHCI_PAGE_SIZE + size
         /\ g_carve_end' = f * AHCI_PAGE_SIZE + AHCI_PAGE_SIZE
         /\ buffers' = buffers \cup {Carved(f * AHCI_PAGE_SIZE, size, align)}

dma_alloc_aligned_fails(size, align) ==
    /\ ~FitsInPage(size, align)
    /\ ahci_frames = {}
    /\ UNCHANGED carveVars

CarveNext ==
    /\ Cardinality(buffers) < MaxBuffers
    /\ \E r \in AhciRequests \cup {<<r[1], DefaultAlign>> : r \in AhciRequests} :
         \/ dma_alloc_aligned(r[1], r[2])
         \/ dma_alloc_aligned_new_page(r[1], r[2])
         \/ dma_alloc_aligned_fails(r[1], r[2])

CarveSpec == CarveInit /\ [][CarveNext]_carveVars

-----------------------------------------------------------------------------
Bytes(b) == b.start .. (b.start + b.size - 1)
TakenBytes ==
    {f * AHCI_PAGE_SIZE + k : f \in AhciFrames \ ahci_frames, k \in 0..(AHCI_PAGE_SIZE - 1)}

\* Everything handed to the controller lies in frames the heap has taken, and
\* command list, received FIS and command tables are apart however often a new
\* carve page was needed.
StructuresOwned ==
    /\ \A b \in buffers : Bytes(b) \subseteq TakenBytes
    /\ \A b, c \in buffers : b # c => Bytes(b) \cap Bytes(c) = {}
=============================================================================
