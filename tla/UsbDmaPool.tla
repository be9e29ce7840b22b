----------------------------- MODULE UsbDmaPool -----------------------------
(***************************************************************************)
(* The DMA pool of iokit/IOUSBFamily/core/usb.c.  Controller rings,        *)
(* descriptors and data buffers are carved one after the other out of      *)
(* frames taken from the frame allocator; usb_free does nothing, so a      *)
(* carved buffer stays its owner's until the whole pool is rewound.        *)
(*                                                                         *)
(* The frame allocator is what module Pmm proves of it: a call returns     *)
(* some frame that nobody owns, or fails when there is none.  Frame f      *)
(* covers the addresses f * USB_DMA_PAGE_SIZE and up.                      *)
(***************************************************************************)
EXTENDS Integers, FiniteSets

CONSTANTS
    USB_DMA_PAGE_SIZE,
    USB_DMA_MAX_PAGES,
    Frames,            \* frames the allocator has at the start
    Requests           \* <<size, align>> pairs the drivers ask for

ASSUME PoolAssumption ==
    /\ USB_DMA_PAGE_SIZE \in Nat \ {0}
    /\ USB_DMA_MAX_PAGES \in Nat \ {0}
    /\ Frames \subseteq Nat
    /\ IsFiniteSet(Frames)
    /\ Requests \subseteq (Nat \ {0}) \X (Nat \ {0})

VARIABLES
    g_dma_npages,
    phys,          \* g_dma_pages[i].phys, as a frame
    used,          \* g_dma_pages[i].used
    g_dma_cur,     \* counted from 1
    frames,        \* what the frame allocator still has
    live           \* history: the buffers handed out since the last rewind

poolVars == <<g_dma_npages, phys, used, g_dma_cur, frames, live>>

\* The next multiple of a.
ALIGN(x, a) == x + ((a - (x % a)) % a)

Fits(i, size, align) == ALIGN(used[i], align) + size <= USB_DMA_PAGE_SIZE
Pages == 1..g_dma_npages
Candidates == g_dma_cur..g_dma_npages
Buffer(i, start, size, align) ==
    [page |-> i, start |-> start, size |-> size, align |-> align,
     id |-> Cardinality(live)]

PoolInit ==
    /\ g_dma_npages = 0
    /\ phys = [i \in {} |-> 0]
    /\ used = [i \in {} |-> 0]
    /\ g_dma_cur = 1
    /\ frames = Frames
    /\ live = {}

\* Fault: the offset is aligned for the caller but not recorded.
usb_dma_carve_Unaligned(size, align) ==
    \E i \in Candidates :
        /\ Fits(i, size, align)
        /\ \A j \in g_dma_cur..(i - 1) : ~Fits(j, size, align)
        /\ used' = [used EXCEPT ![i] = @ + size]
        /\ g_dma_cur' = i
        /\ live' = live \cup {Buffer(i, ALIGN(used[i], align), size, align)}
        /\ UNCHANGED <<g_dma_npages, phys, frames>>

\* The loop stops at the first page from g_dma_cur on that has room.
usb_dma_carve(size, align) ==
    \E i \in Candidates :
        LET start == ALIGN(used[i], align)
        IN  /\ Fits(i, size, align)
            /\ \A j \in g_dma_cur..(i - 1) : ~Fits(j, size, align)
            /\ used' = [used EXCEPT ![i] = start + size]
            /\ g_dma_cur' = i
            /\ live' = live \cup {Buffer(i, start, size, align)}
            /\ UNCHANGED <<g_dma_npages, phys, frames>>

NoRoom(size, align) == \A j \in Candidates : ~Fits(j, size, align)

\* No page has room: usb_dma_grow_page adds one and the buffer is its start.
usb_dma_carve_grow(size, align) ==
    /\ NoRoom(size, align)
    /\ size <= USB_DMA_PAGE_SIZE
    /\ g_dma_npages < USB_DMA_MAX_PAGES
    /\ \E f \in frames :
         /\ phys' = [i \in 1..(g_dma_npages + 1) |-> IF i \in Pages THEN phys[i] ELSE f]
         /\ frames' = frames \ {f}
    /\ used' = [i \in 1..(g_dma_npages + 1) |-> IF i \in Pages THEN used[i] ELSE size]
    /\ g_dma_npages' = g_dma_npages + 1
    /\ g_dma_cur' = g_dma_npages + 1
    /\ live' = live \cup {Buffer(g_dma_npages + 1, 0, size, align)}

\* No page has room and none can be added: the caller gets 0.
usb_dma_carve_fails(size, align) ==
    /\ NoRoom(size, align)
    /\ size <= USB_DMA_PAGE_SIZE
    /\ g_dma_npages = USB_DMA_MAX_PAGES \/ frames = {}
    /\ g_dma_cur' = IF g_dma_npages = 0 THEN g_dma_cur ELSE g_dma_npages
    /\ UNCHANGED <<g_dma_npages, phys, used, frames, live>>

\* A buffer larger than a page never fits: the loop adds a page and tries
\* again until the pool or the frame allocator is exhausted, then returns 0.
usb_dma_carve_oversize(size, align) ==
    /\ size > USB_DMA_PAGE_SIZE
    /\ \E n \in g_dma_npages..USB_DMA_MAX_PAGES :
         /\ n = USB_DMA_MAX_PAGES \/ n - g_dma_npages = Cardinality(frames)
         /\ n - g_dma_npages <= Cardinality(frames)
         /\ \E f \in [(g_dma_npages + 1)..n -> frames] :
              /\ \A i, j \in DOMAIN f : f[i] = f[j] => i = j
              /\ phys' = [i \in 1..n |-> IF i \in Pages THEN phys[i] ELSE f[i]]
              /\ frames' = frames \ {f[i] : i \in DOMAIN f}
         /\ used' = [i \in 1..n |-> IF i \in Pages THEN used[i] ELSE 0]
         /\ g_dma_npages' = n
         /\ g_dma_cur' = IF n = 0 THEN g_dma_cur ELSE n
    /\ UNCHANGED live

\* usb_dma_alloc and usb_dma_alloc_aligned round the size up to the alignment.
usb_dma_alloc_aligned(size, align) ==
    LET sz == ALIGN(size, align)
    IN  \/ usb_dma_carve(sz, align)
        \/ usb_dma_carve_grow(sz, align)
        \/ usb_dma_carve_fails(sz, align)
        \/ usb_dma_carve_oversize(sz, align)

usb_dma_pool_init ==
    /\ g_dma_npages = 0
    /\ \E f \in frames :
         /\ phys' = [i \in 1..1 |-> f]
         /\ frames' = frames \ {f}
    /\ used' = [i \in 1..1 |-> 0]
    /\ g_dma_npages' = 1
    /\ g_dma_cur' = 1
    /\ UNCHANGED live

\* The rewind takes every buffer back at once.
usb_dma_reset ==
    /\ used' = [i \in Pages |-> 0]
    /\ g_dma_cur' = 1
    /\ live' = {}
    /\ UNCHANGED <<g_dma_npages, phys, frames>>

PoolNext ==
    \/ usb_dma_pool_init
    \/ usb_dma_reset
    \/ \E r \in Requests : usb_dma_alloc_aligned(r[1], r[2])

PoolSpec == PoolInit /\ [][PoolNext]_poolVars

-----------------------------------------------------------------------------
PoolTypeOK ==
    /\ g_dma_npages \in 0..USB_DMA_MAX_PAGES
    /\ phys \in [Pages -> Frames]
    /\ used \in [Pages -> 0..USB_DMA_PAGE_SIZE]
    /\ g_dma_cur \in Nat \ {0}
    /\ frames \in SUBSET Frames
    /\ live \in SUBSET [page : Pages, start : Nat, size : Nat \ {0},
                        align : Nat \ {0}, id : Nat]

\* The pool's pages are distinct frames, all of them taken from the frame
\* allocator: two buffers on different pages cannot be the same memory.
PagesDistinct ==
    /\ \A i, j \in Pages : phys[i] = phys[j] => i = j
    /\ \A i \in Pages : phys[i] \notin frames

\* A buffer lies within its page, below the bump offset.
BuffersInPage == \A b \in live : b.start + b.size <= used[b.page]

\* No two buffers handed out since the last rewind overlap, through growth of
\* the pool, requests that fail, and requests no page can hold.
BuffersDisjoint ==
    \A b, c \in live :
        b # c /\ b.page = c.page =>
            b.start + b.size <= c.start \/ c.start + c.size <= b.start
=============================================================================
