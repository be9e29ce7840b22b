----------------------------- MODULE LibcppHeap -----------------------------
(***************************************************************************)
(* The heap behind operator new (libkern/libcpp/runtime.cpp): one bump     *)
(* pointer into pages popped from the frame stack.  operator delete does   *)
(* nothing.  Memory is counted in units of HEAP_ALIGN bytes; frame f is    *)
(* the units f * PAGE_SZ and up, and differences are u32.                  *)
(***************************************************************************)
EXTENDS Integers, Sequences, FiniteSets

CONSTANTS
    PAGE_SZ,     \* units per page
    U32,         \* 2^32
    HeapStack,   \* the frame stack, top last
    HeapSizes,   \* sizes asked for, already rounded up to the alignment
    MaxBlocks    \* bound on the number of blocks

VARIABLES
    heap_stack,
    heap_ptr,    \* 0 is nullptr
    heap_end,
    halted,      \* operator new found no memory and stopped the machine
    pages,       \* history: the frames the heap was given
    blocks       \* history: the blocks returned

heapVars == <<heap_stack, heap_ptr, heap_end, halted, pages, blocks>>

HeapInit ==
    /\ heap_stack = HeapStack
    /\ heap_ptr = 0 /\ heap_end = 0
    /\ halted = FALSE
    /\ pages = {} /\ blocks = <<>>

HeapTop == Len(heap_stack)
PagesFor(size) == (size + PAGE_SZ - 1) \div PAGE_SZ
MustGrow(size) == heap_ptr = 0 \/ (heap_end - heap_ptr) % U32 < size

\* heap_grow: every page popped moves heap_end to its end; only the first page
\* ever popped sets heap_ptr.
Grown(n) ==
    [ptr |-> IF heap_ptr = 0 /\ n > 0 THEN heap_stack[HeapTop] * PAGE_SZ ELSE heap_ptr,
     end |-> IF n > 0 THEN heap_stack[HeapTop - n + 1] * PAGE_SZ + PAGE_SZ ELSE heap_end]

Pop(n) ==
    /\ heap_stack' = SubSeq(heap_stack, 1, HeapTop - n)
    /\ pages' = pages \cup {heap_stack[k] : k \in (HeapTop - n + 1)..HeapTop}

Return(ptr, size) ==
    /\ blocks' = Append(blocks, [start |-> ptr, size |-> size])
    /\ heap_ptr' = ptr + size

heap_alloc(size) ==
    /\ ~halted /\ Len(blocks) < MaxBlocks
    /\ ~MustGrow(size)
    /\ Return(heap_ptr, size)
    /\ UNCHANGED <<heap_stack, heap_end, halted, pages>>

heap_alloc_grow(size) ==
    /\ ~halted /\ Len(blocks) < MaxBlocks
    /\ MustGrow(size)
    /\ PagesFor(size) <= HeapTop
    /\ Return(Grown(PagesFor(size)).ptr, size)
    /\ heap_end' = Grown(PagesFor(size)).end
    /\ Pop(PagesFor(size))
    /\ UNCHANGED halted

\* The stack runs empty inside heap_grow: the pages popped by then are kept,
\* heap_alloc returns nullptr and operator new stops the machine.
operator_new_fails(size) ==
    /\ ~halted /\ Len(blocks) < MaxBlocks
    /\ MustGrow(size)
    /\ PagesFor(size) > HeapTop
    /\ heap_ptr' = Grown(HeapTop).ptr
    /\ heap_end' = Grown(HeapTop).end
    /\ Pop(HeapTop)
    /\ halted' = TRUE
    /\ UNCHANGED blocks

HeapNext == \E size \in HeapSizes : heap_alloc(size) \/ heap_alloc_grow(size) \/ operator_new_fails(size)

HeapSpec == HeapInit /\ [][HeapNext]_heapVars

-----------------------------------------------------------------------------
Units(b) == b.start .. (b.start + b.size - 1)
Owned == {f * PAGE_SZ + k : f \in pages, k \in 0..(PAGE_SZ - 1)}

\* runtime.cpp:12: "Grows by 4 KiB pages from the physical-memory manager": a
\* block lies in pages the heap was given.
BlocksInHeap == \A i \in 1..Len(blocks) : Units(blocks[i]) \subseteq Owned
=============================================================================
