----------------------------- MODULE FrameUsers -----------------------------
(***************************************************************************)
(* Three users of the frame stack that build a buffer of several frames:   *)
(*   - the console back buffer (iokit/IOGraphicsFamily/buffer.c), which    *)
(*     pops frames until they form one descending run;                     *)
(*   - DMA buffers (osfmk/dma/dma.cpp), which take one frame;              *)
(*   - the game's frame buffer (game/doom.c), which pops its frames and    *)
(*     uses them upwards from the first.                                   *)
(* All three address memory through the identity map, so a buffer is the   *)
(* set of pages its user reads and writes.  Addresses are page numbers.    *)
(***************************************************************************)
EXTENDS Integers, Sequences, FiniteSets

CONSTANTS
    BootStack,       \* the frame stack after pmm_init
    PMM_STACK_SIZE,
    BackPages,       \* pages of the back buffer, for each mode it may have
    DmaPages,        \* pages a DMA buffer may be asked for
    DmaSlots,        \* DMA buffers alive at a time
    DoomPages        \* pages of the game's buffer

VARIABLES
    pmm_stack,
    back,      \* back_buffer and back_size, in pages; pages = 0: not back_ready
    dma,       \* dma[s]: a struct dma_buffer; pages = 0: virt is null
    doom,      \* g_buf; 0 when not allocated
    got        \* history: the frames each user popped and did not push back

userVars == <<pmm_stack, back, dma, doom, got>>

Users == {"back", "dma", "doom"}
NoBuffer == [base |-> 0, pages |-> 0]
PagesOf(b) == b.base .. (b.base + b.pages - 1)

Region(u) ==
    CASE u = "back" -> PagesOf(back)
      [] u = "dma"  -> UNION {PagesOf(dma[s]) : s \in DmaSlots}
      [] u = "doom" -> IF doom = 0 THEN {} ELSE doom .. (doom + DoomPages - 1)

Top == Len(pmm_stack)
\* The frame the k-th pmm_alloc from now returns, k counting from 0.
Nth(k) == pmm_stack[Top - k]
Taken(n) == {Nth(k) : k \in 0..(n - 1)}
Without(n) == SubSeq(pmm_stack, 1, Top - n)
\* n calls of pmm_free, in the order of the sequence fs.
Push(fs) ==
    LET s == pmm_stack \o fs
    IN  IF Len(s) > PMM_STACK_SIZE THEN SubSeq(s, 1, PMM_STACK_SIZE) ELSE s

UsersInit ==
    /\ pmm_stack = BootStack
    /\ back = NoBuffer
    /\ dma = [s \in DmaSlots |-> NoBuffer]
    /\ doom = 0
    /\ got = [u \in Users |-> {}]

\* The next n frames come in descending order without a gap.
DescendingRun(stack, n) ==
    /\ Len(stack) >= n
    /\ \A k \in 1..(n - 1) : stack[Len(stack) - k] = stack[Len(stack) - k + 1] - 1

\* Fault: the run is not looked at, only that there are frames enough.
framebuffer_buffer_init_NoRunTest(n) ==
    /\ back.pages = 0
    /\ Top >= n
    /\ Nth(0) >= n
    /\ back' = [base |-> Nth(0) - (n - 1), pages |-> n]
    /\ pmm_stack' = Without(n)
    /\ got' = [got EXCEPT !["back"] = @ \cup Taken(n)]
    /\ UNCHANGED <<dma, doom>>

framebuffer_buffer_init(n) ==
    /\ back.pages = 0
    /\ DescendingRun(pmm_stack, n)
    /\ back' = [base |-> Nth(0) - (n - 1), pages |-> n]
    /\ pmm_stack' = Without(n)
    /\ got' = [got EXCEPT !["back"] = @ \cup Taken(n)]
    /\ UNCHANGED <<dma, doom>>

\* The first frame that breaks the run ends the call; every frame popped by
\* then, that one included, stays with a caller that has no record of it.
framebuffer_buffer_init_fails(n) ==
    /\ back.pages = 0
    /\ ~DescendingRun(pmm_stack, n)
    /\ \E k \in 0..Top :
         /\ DescendingRun(pmm_stack, k)
         /\ ~DescendingRun(pmm_stack, k + 1)
         /\ LET popped == IF k < Top THEN k + 1 ELSE k
            IN  /\ pmm_stack' = Without(popped)
                /\ got' = [got EXCEPT !["back"] = @ \cup Taken(popped)]
    /\ UNCHANGED <<back, dma, doom>>

\* Fault: the frames go back from the highest to the lowest.
framebuffer_buffer_free_Descending ==
    /\ back.pages # 0
    /\ pmm_stack' = Push([k \in 1..back.pages |-> back.base + back.pages - k])
    /\ got' = [got EXCEPT !["back"] = @ \ PagesOf(back)]
    /\ back' = NoBuffer
    /\ UNCHANGED <<dma, doom>>

framebuffer_buffer_free ==
    /\ back.pages # 0
    /\ pmm_stack' = Push([k \in 1..back.pages |-> back.base + k - 1])
    /\ got' = [got EXCEPT !["back"] = @ \ PagesOf(back)]
    /\ back' = NoBuffer
    /\ UNCHANGED <<dma, doom>>

\* One frame, whatever the size.  For an alignment above a page the loop pops
\* the top frame and, when it is not aligned, pushes it back, eight times over;
\* the frame taken in the end is the same one.
dma_alloc(s, n) ==
    /\ dma[s].pages = 0
    /\ Top # 0
    /\ dma' = [dma EXCEPT ![s] = [base |-> Nth(0), pages |-> n]]
    /\ pmm_stack' = Without(1)
    /\ got' = [got EXCEPT !["dma"] = @ \cup Taken(1)]
    /\ UNCHANGED <<back, doom>>

\* Every page of the buffer is freed.
dma_free(s) ==
    /\ dma[s].pages # 0
    /\ pmm_stack' = Push([k \in 1..dma[s].pages |-> dma[s].base + k - 1])
    /\ got' = [got EXCEPT !["dma"] = @ \ PagesOf(dma[s])]
    /\ dma' = [dma EXCEPT ![s] = NoBuffer]
    /\ UNCHANGED <<back, doom>>

\* Frames are popped while there are any; the first is the buffer's base.
doom_init ==
    /\ doom = 0
    /\ Top # 0
    /\ doom' = Nth(0)
    /\ LET n == IF DoomPages < Top THEN DoomPages ELSE Top
       IN  /\ pmm_stack' = Without(n)
           /\ got' = [got EXCEPT !["doom"] = @ \cup Taken(n)]
    /\ UNCHANGED <<back, dma>>

UsersNext ==
    \/ \E n \in BackPages : framebuffer_buffer_init(n) \/ framebuffer_buffer_init_fails(n)
    \/ framebuffer_buffer_free
    \/ \E s \in DmaSlots : \E n \in DmaPages : dma_alloc(s, n)
    \/ \E s \in DmaSlots : dma_free(s)
    \/ doom_init

UsersSpec == UsersInit /\ [][UsersNext]_userVars

-----------------------------------------------------------------------------
\* A buffer lies in frames its user took from the stack: what the back buffer's
\* computed base and the DMA buffer's recorded size span was really allocated.
\* No two users' buffers share a page, and no page of a buffer is on the stack
\* for somebody else to be given.
BuffersOwned ==
    /\ \A u \in Users : Region(u) \subseteq got[u]
    /\ \A u, v \in Users : u # v => Region(u) \cap Region(v) = {}
    /\ \A u \in Users : \A k \in 1..Top : pmm_stack[k] \notin Region(u)

\* framebuffer_buffer_free pushes the frames in the order that lets the very
\* next framebuffer_buffer_init of that size succeed.
FreedBackBufferReturns ==
    [][back.pages # 0 /\ back'.pages = 0 => DescendingRun(pmm_stack', back.pages)]_userVars
=============================================================================
