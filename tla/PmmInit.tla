------------------------------ MODULE PmmInit ------------------------------
(***************************************************************************)
(* pmm_init of osfmk/vm/pmm.c: which frames the boot memory map yields.    *)
(* The arithmetic is that of u64, modulo ADDR_SPACE.  One step handles one *)
(* entry of the map, as one turn of the outer loop does.                   *)
(***************************************************************************)
EXTENDS Integers, Sequences, FiniteSets

CONSTANTS
    ADDR_SPACE,      \* 2^64
    BOOT_PAGE_SIZE,
    BOOT_STACK_SIZE,
    PMM_MAX_ADDR,    \* 3 GiB
    PMM_TOP_GUARD,   \* 16 MiB
    KernelStart,     \* _kernel_start, page aligned by linker.ld
    KernelEnd,       \* _kernel_end
    Maps             \* memory maps: sequences of [base, length, available]

VARIABLES map, i, boot_stack, pmm_total_memory

bootVars == <<map, i, boot_stack, pmm_total_memory>>

U64(n) == n % ADDR_SPACE
RoundDown(a) == a - (a % BOOT_PAGE_SIZE)
RoundUp(a) == RoundDown(U64(a + BOOT_PAGE_SIZE - 1))

pmm_is_kernel_region(addr) == addr >= KernelStart /\ addr < KernelEnd

\* length after clipping the entry at PMM_MAX_ADDR.
Clipped(e) ==
    IF U64(e.base + e.length) > PMM_MAX_ADDR THEN PMM_MAX_ADDR - e.base ELSE e.length

\* `stop': the end of the range moved down by the guard if it is long enough.
Stop(start, end) ==
    LET stop == RoundDown(end)
    IN  IF U64(stop - start) > 2 * PMM_TOP_GUARD
          THEN U64(stop - PMM_TOP_GUARD) ELSE stop

\* The addresses the inner loop passes to pmm_free and pmm_free keeps.
PagesOf(e) ==
    LET start == RoundUp(e.base)
        stop  == Stop(start, U64(e.base + Clipped(e)))
        n     == IF start < stop THEN (stop - start) \div BOOT_PAGE_SIZE ELSE 0
        Serve(addr) == ~pmm_is_kernel_region(addr) /\ addr # 0
    IN  SelectSeq([k \in 1..n |-> start + (k - 1) * BOOT_PAGE_SIZE], Serve)

BootInit ==
    /\ map \in Maps
    /\ i = 1
    /\ boot_stack = <<>>
    /\ pmm_total_memory = 0

pmm_init_skip ==
    /\ i <= Len(map)
    /\ map[i].base >= PMM_MAX_ADDR \/ ~map[i].available
    /\ i' = i + 1
    /\ UNCHANGED <<map, boot_stack, pmm_total_memory>>

\* Fault: a second entry starts the stack over.
pmm_init_entry_Restart ==
    /\ i <= Len(map)
    /\ map[i].base < PMM_MAX_ADDR
    /\ map[i].available
    /\ boot_stack' = PagesOf(map[i])
    /\ pmm_total_memory' = U64(pmm_total_memory + Clipped(map[i]))
    /\ i' = i + 1
    /\ UNCHANGED map

\* pmm_free stops storing when the stack is full.
pmm_init_entry ==
    /\ i <= Len(map)
    /\ map[i].base < PMM_MAX_ADDR
    /\ map[i].available
    /\ LET pushed == boot_stack \o PagesOf(map[i])
       IN  boot_stack' = IF Len(pushed) > BOOT_STACK_SIZE
                          THEN SubSeq(pushed, 1, BOOT_STACK_SIZE) ELSE pushed
    /\ pmm_total_memory' = U64(pmm_total_memory + Clipped(map[i]))
    /\ i' = i + 1
    /\ UNCHANGED map

BootNext == pmm_init_skip \/ pmm_init_entry

BootSpec == BootInit /\ [][BootNext]_bootVars

-----------------------------------------------------------------------------
Done == i > Len(map)
Served == {boot_stack[k] : k \in 1..Len(boot_stack)}
PageOf(addr) == addr .. (addr + BOOT_PAGE_SIZE - 1)
RangeOf(e) == e.base .. (e.base + e.length - 1)

\* A page of entry e that pmm_init is to serve: it lies in the entry below the
\* guard, holds no byte of the kernel, and is not page 0.
Usable(addr, e, guard) ==
    /\ e.available
    /\ addr # 0 /\ addr % BOOT_PAGE_SIZE = 0
    /\ PageOf(addr) \subseteq RangeOf(e)
    /\ addr + BOOT_PAGE_SIZE + guard <= e.base + Clipped(e)
    /\ PageOf(addr) \cap (KernelStart .. (KernelEnd - 1)) = {}

\* pmm_init collects the usable pages: only those, each once, and all of them
\* unless the array is full.  A range longer than two guards loses its top
\* PMM_TOP_GUARD bytes.
UsablePages ==
    /\ Len(boot_stack) <= BOOT_STACK_SIZE
    /\ \A j, k \in 1..Len(boot_stack) : boot_stack[j] = boot_stack[k] => j = k
    /\ \A addr \in Served : \E k \in 1..(i - 1) :
          LET size == RoundDown(map[k].base + Clipped(map[k])) - RoundUp(map[k].base)
          IN  Usable(addr, map[k], IF size > 2 * PMM_TOP_GUARD THEN PMM_TOP_GUARD ELSE 0)
    /\ (Done /\ Len(boot_stack) < BOOT_STACK_SIZE) =>
          \A k \in 1..Len(map) : \A addr \in 1..(PMM_MAX_ADDR - 1) :
              Usable(addr, map[k], PMM_TOP_GUARD) => addr \in Served

-----------------------------------------------------------------------------
\* pmm.c:90: "shrink the range away from its top edge": a page served lies
\* between the two edges of an available range, whatever the adjustment of its
\* top edge did.
WithinRangeEdges ==
    \A addr \in Served : \E k \in 1..(i - 1) :
        map[k].available /\ addr \in RangeOf(map[k])
=============================================================================
