-------------------------------- MODULE Pmm --------------------------------
(***************************************************************************)
(* The physical memory manager of osfmk/vm/pmm.c: a stack of free 4 KiB    *)
(* frames.  pmm_alloc pops it, pmm_free pushes it, pmm_reserve takes the   *)
(* pages of a byte range out of it.  Nothing records who owns a frame, so  *)
(* the module keeps that as history: held[c] is what client c was given    *)
(* and has not freed, pinned what a reservation took out for good.         *)
(*                                                                         *)
(* The stack starts as the sequence pmm_init leaves (module PmmInit says   *)
(* which sequences those are).  Clients free only frames they hold; what   *)
(* happens to a client that does not is the subject of module FrameUsers.  *)
(***************************************************************************)
EXTENDS Integers, FiniteSets

CONSTANTS
    PAGE_SIZE,       \* bytes per frame
    PMM_STACK_SIZE,  \* entries of pmm_stack
    BootStack,       \* what pmm_init pushed, in order
    Clients,         \* the drivers that call pmm_alloc and pmm_free
    Reservations     \* the <<addr, size>> pairs pmm_reserve is called with

ASSUME PageAssumption == PAGE_SIZE \in Nat \ {0}

ASSUME StackAssumption ==
    /\ PMM_STACK_SIZE \in Nat
    /\ \E n \in 0..PMM_STACK_SIZE : BootStack \in [1..n -> Nat \ {0}]
    /\ \A i, j \in DOMAIN BootStack : BootStack[i] = BootStack[j] => i = j

ASSUME ReservationAssumption == Reservations \subseteq (Nat \X Nat)

Collected == {BootStack[i] : i \in DOMAIN BootStack}

-----------------------------------------------------------------------------
VARIABLES
    pmm_stack,      \* pmm_stack[1..pmm_stack_top]; the last entry is the top
    pmm_stack_top,
    resv_next,      \* the page `a' of a pmm_reserve in progress,
    resv_end,       \* and its `end'; resv_next >= resv_end when there is none
    held,           \* history: frames each client owns
    pinned,         \* history: pages a reservation found unowned
    dropped         \* history: frames pmm_free had no room for

framesVars == <<pmm_stack, pmm_stack_top, resv_next, resv_end, held, pinned, dropped>>

Free == {pmm_stack[i] : i \in 1..pmm_stack_top}
Held == UNION {held[c] : c \in Clients}

FramesInit ==
    /\ pmm_stack = BootStack
    /\ pmm_stack_top \in 0..PMM_STACK_SIZE
    /\ DOMAIN BootStack = 1..pmm_stack_top
    /\ resv_next = 0 /\ resv_end = 0
    /\ held = [c \in Clients |-> {}]
    /\ pinned = {}
    /\ dropped = {}

\* pmm_reserve runs with interrupts off, so no other call comes in between.
Idle == resv_next >= resv_end

\* The stack without its top entry.
Popped == [i \in 1..(pmm_stack_top - 1) |-> pmm_stack[i]]

\* Fault: the index is read but the stack does not shrink.
pmm_alloc_NoPop(c) ==
    /\ Idle
    /\ pmm_stack_top # 0
    /\ held' = [held EXCEPT ![c] = @ \cup {pmm_stack[pmm_stack_top]}]
    /\ UNCHANGED <<pmm_stack, pmm_stack_top, resv_next, resv_end, pinned, dropped>>

pmm_alloc(c) ==
    /\ Idle
    /\ pmm_stack_top # 0
    /\ held' = [held EXCEPT ![c] = @ \cup {pmm_stack[pmm_stack_top]}]
    /\ pmm_stack' = Popped
    /\ pmm_stack_top' = pmm_stack_top - 1
    /\ UNCHANGED <<resv_next, resv_end, pinned, dropped>>

\* An empty stack: the client is told 0 and owns nothing more.
pmm_alloc_fails(c) ==
    /\ Idle
    /\ pmm_stack_top = 0
    /\ UNCHANGED framesVars

pmm_free(c, addr) ==
    /\ Idle
    /\ addr \in held[c]
    /\ held' = [held EXCEPT ![c] = @ \ {addr}]
    /\ IF pmm_stack_top < PMM_STACK_SIZE
         THEN /\ pmm_stack' = [i \in 1..(pmm_stack_top + 1) |->
                                 IF i <= pmm_stack_top THEN pmm_stack[i] ELSE addr]
              /\ pmm_stack_top' = pmm_stack_top + 1
              /\ UNCHANGED dropped
         ELSE /\ dropped' = dropped \cup {addr}
              /\ UNCHANGED <<pmm_stack, pmm_stack_top>>
    /\ UNCHANGED <<resv_next, resv_end, pinned>>

pmm_reserve(addr, size) ==
    /\ Idle
    /\ resv_next' = addr - (addr % PAGE_SIZE)
    /\ resv_end' = addr + size
    /\ UNCHANGED <<pmm_stack, pmm_stack_top, held, pinned, dropped>>

\* The loop body with what it does to the stack on a hit at i as a parameter,
\* for the faulty variants: entries 1..last are searched, and the new stack
\* has len entries, the one at i replaced by the top when move holds.
ReservePage(last, len, move) ==
    /\ ~Idle
    /\ LET hits == {i \in 1..last : pmm_stack[i] = resv_next}
       IN  \/ /\ hits = {}
              /\ UNCHANGED <<pmm_stack, pmm_stack_top>>
           \/ \E i \in hits :
                /\ pmm_stack' = [k \in 1..len |-> IF k = i /\ move
                                                  THEN pmm_stack[pmm_stack_top]
                                                  ELSE pmm_stack[k]]
                /\ pmm_stack_top' = len
    /\ pinned' = IF resv_next \in Held THEN pinned ELSE pinned \cup {resv_next}
    /\ resv_next' = resv_next + PAGE_SIZE
    /\ UNCHANGED <<resv_end, held, dropped>>

\* Fault: the search stops before the top entry.
pmm_reserve_page_MissTop == ReservePage(pmm_stack_top - 1, pmm_stack_top - 1, TRUE)
\* Fault: the stack shrinks but the hit is not overwritten.
pmm_reserve_page_NoMove == ReservePage(pmm_stack_top, pmm_stack_top - 1, FALSE)

\* The loop body: the first entry equal to page a is overwritten by the top.
pmm_reserve_page ==
    /\ ~Idle
    /\ LET hits == {i \in 1..pmm_stack_top : pmm_stack[i] = resv_next}
       IN  \/ /\ hits = {}
              /\ UNCHANGED <<pmm_stack, pmm_stack_top>>
           \/ \E i \in hits :
                /\ \A j \in hits : i <= j
                /\ pmm_stack' = [k \in 1..(pmm_stack_top - 1) |->
                                   IF k = i THEN pmm_stack[pmm_stack_top]
                                            ELSE pmm_stack[k]]
                /\ pmm_stack_top' = pmm_stack_top - 1
    /\ pinned' = IF resv_next \in Held THEN pinned ELSE pinned \cup {resv_next}
    /\ resv_next' = resv_next + PAGE_SIZE
    /\ UNCHANGED <<resv_end, held, dropped>>

FramesNext ==
    \/ \E c \in Clients : pmm_alloc(c) \/ pmm_alloc_fails(c)
    \/ \E c \in Clients : \E addr \in held[c] : pmm_free(c, addr)
    \/ \E r \in Reservations : pmm_reserve(r[1], r[2])
    \/ pmm_reserve_page

FramesSpec == FramesInit /\ [][FramesNext]_framesVars

-----------------------------------------------------------------------------
FramesTypeOK ==
    /\ pmm_stack_top \in 0..PMM_STACK_SIZE
    /\ pmm_stack \in [1..pmm_stack_top -> Collected]
    /\ resv_next \in Nat
    /\ resv_end \in Nat
    /\ held \in [Clients -> SUBSET Collected]
    /\ pinned \in SUBSET Nat
    /\ dropped \in SUBSET Collected

\* No frame is on the stack twice, so it is never given out twice.
StackDistinct ==
    \A i, j \in 1..pmm_stack_top : pmm_stack[i] = pmm_stack[j] => i = j

\* A frame on the stack belongs to nobody, and no frame has two owners: what
\* pmm_alloc returns is no other client's memory.
Exclusive ==
    /\ Free \cap Held = {}
    /\ \A c, d \in Clients : c # d => held[c] \cap held[d] = {}

\* A page reserved while unowned is never served again.  Pages a client
\* already held when the reservation came are not covered: pmm_reserve looks
\* at the stack only.
PinnedNeverServed == pinned \cap (Free \cup Held) = {}

\* pmm_free has no way to report that the stack is full; with honest clients
\* the test in it never fails and no frame is lost.
NothingDropped == dropped = {}

\* Every frame pmm_init collected is free, owned, or reserved: none leaks.
Conserved == Collected \subseteq (Free \cup Held \cup pinned \cup dropped)

=============================================================================
