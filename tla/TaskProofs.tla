----------------------------- MODULE TaskProofs -----------------------------
(***************************************************************************)
(* Proofs about the frames and the processors and tasks that use them: the *)
(* frame allocator, for every stack size, boot stack, set of clients and   *)
(* set of reservations; the start of the processors, for every number of   *)
(* them; the task table, for every size of it, resting on there being one  *)
(* task that spawns and vforks; and the registers a program gets back.     *)
(***************************************************************************)
EXTENDS Pmm, Smp, Proc, Trampolines, Lemmas, SequenceTheorems, FiniteSetTheorems

\* A leaf that names no prover is tried with SMT, then with Zenon, for at most 20 seconds each.
USE SMTT(20), ZenonT(20)

-----------------------------------------------------------------------------
(* The frame allocator, Pmm                                                *)

\* FramesTypeOK, StackDistinct, Exclusive, PinnedNeverServed and NothingDropped
\* support one another; Conserved follows them.
FramesInv ==
    /\ FramesTypeOK
    /\ StackDistinct
    /\ Exclusive
    /\ PinnedNeverServed
    /\ NothingDropped
    /\ Conserved

\* The frames pmm_init collected are finite in number, at most one for each
\* entry of the stack array.
LEMMA CollectedFinite ==
    /\ IsFiniteSet(Collected)
    /\ Cardinality(Collected) <= PMM_STACK_SIZE
<1>1. PICK len \in 0..PMM_STACK_SIZE : BootStack \in [1..len -> Nat \ {0}]
  BY StackAssumption, Zenon
<1>2. DOMAIN BootStack = 1..len /\ len \in Nat
  BY <1>1, StackAssumption
<1>3. IsFiniteSet(1..len) /\ Cardinality(1..len) = len
  BY <1>2, FS_Interval
<1>4. BootStack \in Surjection(1..len, Collected)
  BY <1>1, <1>2, Zenon DEF Surjection, Collected
<1>5. IsFiniteSet(Collected) /\ Cardinality(Collected) <= len
  BY <1>3, <1>4, FS_Surjection
<1>6. Cardinality(Collected) \in Nat
  BY <1>5, FS_CardinalityType, Zenon
<1> QED
  BY <1>1, <1>2, <1>5, <1>6, StackAssumption

\* Pigeonhole: when a collected frame is not on the stack there is room for it,
\* because the entries of the stack are distinct collected frames.
LEMMA RoomToFree ==
    ASSUME FramesTypeOK, StackDistinct, NEW f \in Collected, f \notin Free
    PROVE  pmm_stack_top < PMM_STACK_SIZE
<1> DEFINE T == Collected \ {f}
<1>1. pmm_stack_top \in Nat /\ PMM_STACK_SIZE \in Nat
  BY StackAssumption DEF FramesTypeOK
<1>2. pmm_stack \in [1..pmm_stack_top -> T]
  BY Zenon DEF FramesTypeOK, Free
<1>3. pmm_stack \in Injection(1..pmm_stack_top, T)
  BY <1>2, Zenon DEF Injection, IsInjective, StackDistinct
<1>4. IsFiniteSet(T) /\ Cardinality(T) = Cardinality(Collected) - 1
  BY CollectedFinite, FS_RemoveElement, Zenon
<1>5. Cardinality(1..pmm_stack_top) <= Cardinality(T)
  BY <1>3, <1>4, FS_Injection, Zenon
<1>6. Cardinality(1..pmm_stack_top) = pmm_stack_top
  BY <1>1, FS_Interval
<1>7. Cardinality(Collected) \in Nat
  BY CollectedFinite, FS_CardinalityType, Zenon
<1> QED
  BY <1>1, <1>4, <1>5, <1>6, <1>7, CollectedFinite

LEMMA FramesInitInv == FramesInit => FramesInv
<1> SUFFICES ASSUME FramesInit PROVE FramesInv
  BY Zenon
<1>1. pmm_stack \in [1..pmm_stack_top -> Collected]
  <2>1. PICK len \in 0..PMM_STACK_SIZE : BootStack \in [1..len -> Nat \ {0}]
    BY StackAssumption, Zenon
  <2> QED
    BY <2>1, Zenon DEF FramesInit, Collected
<1>2. Held = {}
  BY Zenon DEF FramesInit, Held
<1>3. Free = Collected
  BY Zenon DEF FramesInit, Free, Collected
<1>4. FramesTypeOK
  BY <1>1, Zenon DEF FramesInit, FramesTypeOK
<1>5. StackDistinct
  BY StackAssumption, Zenon DEF FramesInit, StackDistinct
<1>6. Exclusive
  BY <1>2, Zenon DEF Exclusive, FramesInit
<1> QED
  BY <1>2, <1>3, <1>4, <1>5, <1>6
     DEF FramesInv, PinnedNeverServed, NothingDropped, Conserved, FramesInit

\* pmm_alloc moves the top frame from the stack to one client.
LEMMA AllocInv ==
    ASSUME FramesInv, NEW cl \in Clients, pmm_alloc(cl)
    PROVE  FramesInv'
<1> DEFINE f == pmm_stack[pmm_stack_top]
<1>1. /\ pmm_stack_top \in Nat \ {0}
      /\ pmm_stack_top' = pmm_stack_top - 1
      /\ pmm_stack' = Popped
      /\ held' = [held EXCEPT ![cl] = @ \cup {f}]
      /\ UNCHANGED <<resv_next, resv_end, pinned, dropped>>
  BY StackAssumption DEF pmm_alloc, FramesInv, FramesTypeOK
<1>2. f \in Collected /\ f \in Free
  BY <1>1 DEF FramesInv, FramesTypeOK, Free
<1>3. FramesTypeOK'
  BY <1>1, <1>2, StackAssumption DEF FramesInv, FramesTypeOK, Popped
<1>4. StackDistinct'
  BY <1>1 DEF FramesInv, FramesTypeOK, StackDistinct, Popped
<1>5. Free' = Free \ {f}
  BY <1>1 DEF FramesInv, FramesTypeOK, StackDistinct, Popped, Free
<1>6. Held' = Held \cup {f}
  BY <1>1 DEF Held, FramesInv, FramesTypeOK
<1>7. Exclusive'
  <2>1. Free' \cap Held' = {}
    BY <1>5, <1>6, Zenon DEF FramesInv, Exclusive
  <2>2. ASSUME NEW d \in Clients, NEW e \in Clients, d # e
        PROVE  held'[d] \cap held'[e] = {}
    <3>1. f \notin held[d] /\ f \notin held[e] /\ held[d] \cap held[e] = {}
      BY <1>2, <2>2, Zenon DEF FramesInv, Exclusive, Held
    <3> QED
      BY <1>1, <2>2, <3>1, Zenon DEF FramesInv, FramesTypeOK
  <2> QED
    BY <2>1, <2>2, Zenon DEF Exclusive
<1>8. PinnedNeverServed'
  BY <1>1, <1>2, <1>5, <1>6, Zenon DEF FramesInv, PinnedNeverServed
<1>9. NothingDropped' /\ Conserved'
  BY <1>1, <1>5, <1>6, Zenon DEF FramesInv, NothingDropped, Conserved
<1> QED
  BY <1>3, <1>4, <1>7, <1>8, <1>9, Zenon DEF FramesInv

\* pmm_free moves a frame from its owner to the stack: RoomToFree rules the
\* silent drop out.
LEMMA FreeInv ==
    ASSUME FramesInv, NEW cl \in Clients, NEW f \in held[cl], pmm_free(cl, f)
    PROVE  FramesInv'
<1>1. f \in Collected /\ f \in Held /\ f \notin Free
  BY Zenon DEF FramesInv, FramesTypeOK, Exclusive, Held
<1>2. pmm_stack_top < PMM_STACK_SIZE
  BY <1>1, RoomToFree, Zenon DEF FramesInv
<1>3. /\ pmm_stack_top \in Nat
      /\ pmm_stack_top' = pmm_stack_top + 1
      /\ pmm_stack' = [i \in 1..(pmm_stack_top + 1) |->
                         IF i <= pmm_stack_top THEN pmm_stack[i] ELSE f]
      /\ held' = [held EXCEPT ![cl] = @ \ {f}]
      /\ UNCHANGED <<resv_next, resv_end, pinned, dropped>>
  BY <1>2, StackAssumption DEF pmm_free, FramesInv, FramesTypeOK
<1>4. FramesTypeOK'
  BY <1>1, <1>2, <1>3, StackAssumption DEF FramesInv, FramesTypeOK
<1>5. StackDistinct'
  BY <1>1, <1>3 DEF FramesInv, FramesTypeOK, StackDistinct, Free
<1>6. Free' = Free \cup {f}
  <2>1. ASSUME NEW i \in 1..(pmm_stack_top + 1)
        PROVE  pmm_stack'[i] \in Free \cup {f}
    BY <1>3 DEF Free
  <2>2. pmm_stack'[pmm_stack_top + 1] = f
    BY <1>3
  <2>3. ASSUME NEW i \in 1..pmm_stack_top PROVE pmm_stack'[i] = pmm_stack[i]
    BY <1>3
  <2> QED
    BY <1>3, <2>1, <2>2, <2>3 DEF Free
<1>7. Held' = Held \ {f}
  <2>1. \A d \in Clients : d # cl => f \notin held[d]
    BY <1>1, Zenon DEF FramesInv, Exclusive
  <2> QED
    BY <1>3, <2>1 DEF Held, FramesInv, FramesTypeOK
<1>8. Exclusive'
  <2>1. \A d \in Clients : held'[d] \subseteq held[d]
    BY <1>3, Zenon DEF FramesInv, FramesTypeOK
  <2> QED
    BY <1>6, <1>7, <2>1, Zenon DEF FramesInv, Exclusive
<1>9. PinnedNeverServed'
  BY <1>1, <1>3, <1>6, <1>7, Zenon DEF FramesInv, PinnedNeverServed
<1>10. NothingDropped' /\ Conserved'
  BY <1>3, <1>6, <1>7, Zenon DEF FramesInv, NothingDropped, Conserved
<1> QED
  BY <1>4, <1>5, <1>8, <1>9, <1>10, Zenon DEF FramesInv

LEMMA RemainderFits ==
    ASSUME NEW a \in Nat, NEW b \in Nat \ {0} PROVE a % b \in 0..(b - 1) /\ a % b <= a
OBVIOUS

\* pmm_reserve only notes the range.
LEMMA ReserveInv ==
    ASSUME FramesInv, NEW r \in Reservations, pmm_reserve(r[1], r[2])
    PROVE  FramesInv'
<1>1. r[1] \in Nat /\ r[2] \in Nat
  BY ReservationAssumption, Zenon
<1>2. r[1] % PAGE_SIZE \in 0..(PAGE_SIZE - 1) /\ r[1] % PAGE_SIZE <= r[1]
  BY <1>1, PageAssumption, RemainderFits, Zenon
<1>3. resv_next' \in Nat /\ resv_end' \in Nat
  BY <1>1, <1>2, PageAssumption DEF pmm_reserve
<1>4. UNCHANGED <<pmm_stack, pmm_stack_top, held, pinned, dropped>>
  BY Zenon DEF pmm_reserve
<1>5. Free' = Free /\ Held' = Held
  BY <1>4, Zenon DEF Free, Held
<1>6. FramesTypeOK' /\ StackDistinct' /\ NothingDropped'
  BY <1>3, <1>4, Zenon DEF FramesInv, FramesTypeOK, StackDistinct, NothingDropped
<1>7. Exclusive' /\ PinnedNeverServed' /\ Conserved'
  BY <1>4, <1>5, Zenon DEF FramesInv, Exclusive, PinnedNeverServed, Conserved
<1> QED
  BY <1>6, <1>7, Zenon DEF FramesInv

\* The loop body of pmm_reserve takes page resv_next off the stack if it is
\* there, and nothing else.
LEMMA ReservePageStack ==
    ASSUME FramesInv, pmm_reserve_page
    PROVE  /\ pmm_stack_top' \in 0..PMM_STACK_SIZE
           /\ pmm_stack' \in [1..pmm_stack_top' -> Collected]
           /\ StackDistinct'
           /\ Free' = Free \ {resv_next}
<1> DEFINE hits == {i \in 1..pmm_stack_top : pmm_stack[i] = resv_next}
<1>1. /\ pmm_stack_top \in 0..PMM_STACK_SIZE
      /\ pmm_stack \in [1..pmm_stack_top -> Collected]
      /\ PMM_STACK_SIZE \in Nat
  BY StackAssumption, Zenon DEF FramesInv, FramesTypeOK
<1>2. CASE hits = {} /\ UNCHANGED <<pmm_stack, pmm_stack_top>>
  <2>1. resv_next \notin Free
    BY <1>2, Zenon DEF Free
  <2> QED
    BY <1>1, <1>2, <2>1, Zenon DEF FramesInv, StackDistinct, Free
<1>3. ASSUME NEW i \in hits,
             pmm_stack' = [k \in 1..(pmm_stack_top - 1) |->
                             IF k = i THEN pmm_stack[pmm_stack_top]
                                      ELSE pmm_stack[k]],
             pmm_stack_top' = pmm_stack_top - 1
      PROVE  /\ pmm_stack_top' \in 0..PMM_STACK_SIZE
             /\ pmm_stack' \in [1..pmm_stack_top' -> Collected]
             /\ StackDistinct'
             /\ Free' = Free \ {resv_next}
  <2>1. i \in 1..pmm_stack_top /\ pmm_stack[i] = resv_next
    BY Zenon
  <2>2. StackDistinct'
    BY <1>1, <1>3, <2>1 DEF FramesInv, StackDistinct
  <2>3. ASSUME NEW k \in 1..(pmm_stack_top - 1)
        PROVE  pmm_stack'[k] \in Free \ {resv_next}
    BY <1>1, <1>3, <2>1 DEF FramesInv, StackDistinct, Free
  <2>4. ASSUME NEW j \in 1..pmm_stack_top, pmm_stack[j] # resv_next
        PROVE  \E k \in 1..(pmm_stack_top - 1) : pmm_stack'[k] = pmm_stack[j]
    <3>1. CASE j = pmm_stack_top
      <4>1. i \in 1..(pmm_stack_top - 1) /\ pmm_stack'[i] = pmm_stack[j]
        BY <1>1, <1>3, <2>1, <2>4, <3>1
      <4> QED
        BY <4>1, Zenon
    <3>2. CASE j # pmm_stack_top
      <4>1. j \in 1..(pmm_stack_top - 1) /\ pmm_stack'[j] = pmm_stack[j]
        BY <1>1, <1>3, <2>1, <2>4, <3>2
      <4> QED
        BY <4>1, Zenon
    <3> QED
      BY <3>1, <3>2, Zenon
  <2>5. Free' = Free \ {resv_next}
    <3>1. Free' = {pmm_stack'[k] : k \in 1..(pmm_stack_top - 1)}
      BY <1>3, Zenon DEF Free
    <3>2. Free' \subseteq Free \ {resv_next}
      BY <2>3, <3>1, Zenon
    <3>3. ASSUME NEW x \in Free, x # resv_next PROVE x \in Free'
      <4>1. PICK j \in 1..pmm_stack_top : pmm_stack[j] = x
        BY Zenon DEF Free
      <4> QED
        BY <2>4, <3>1, <3>3, <4>1, Zenon
    <3> QED
      BY <3>2, <3>3, Zenon
  <2> QED
    BY <1>1, <1>3, <2>1, <2>2, <2>5
<1> QED
  BY <1>2, <1>3, Zenon DEF pmm_reserve_page

LEMMA ReservePageInv ==
    ASSUME FramesInv, pmm_reserve_page
    PROVE  FramesInv'
<1>1. /\ pmm_stack_top' \in 0..PMM_STACK_SIZE
      /\ pmm_stack' \in [1..pmm_stack_top' -> Collected]
      /\ StackDistinct'
      /\ Free' = Free \ {resv_next}
  BY ReservePageStack, Zenon
<1>2. /\ pinned' = IF resv_next \in Held THEN pinned ELSE pinned \cup {resv_next}
      /\ resv_next' = resv_next + PAGE_SIZE
      /\ UNCHANGED <<resv_end, held, dropped>>
  BY Zenon DEF pmm_reserve_page
<1>3. Held' = Held
  BY <1>2, Zenon DEF Held
<1>4. FramesTypeOK'
  <2>1. resv_next \in Nat /\ pinned \in SUBSET Nat
    BY Zenon DEF FramesInv, FramesTypeOK
  <2>2. resv_next' \in Nat
    BY <1>2, <2>1, PageAssumption
  <2>3. pinned' \in SUBSET Nat
    BY <1>2, <2>1, Zenon
  <2> QED
    BY <1>1, <1>2, <2>2, <2>3, Zenon DEF FramesInv, FramesTypeOK
<1>5. Exclusive'
  BY <1>1, <1>2, <1>3, Zenon DEF FramesInv, Exclusive
<1>6. PinnedNeverServed'
  BY <1>1, <1>2, <1>3, Zenon DEF FramesInv, PinnedNeverServed
<1>7. NothingDropped' /\ Conserved'
  BY <1>1, <1>2, <1>3, Zenon DEF FramesInv, NothingDropped, Conserved, Exclusive
<1> QED
  BY <1>1, <1>4, <1>5, <1>6, <1>7, Zenon DEF FramesInv

LEMMA FramesStep == FramesInv /\ [FramesNext]_framesVars => FramesInv'
<1> SUFFICES ASSUME FramesInv, [FramesNext]_framesVars PROVE FramesInv'
  BY Zenon
<1>1. ASSUME NEW cl \in Clients, pmm_alloc(cl) PROVE FramesInv'
  BY <1>1, AllocInv, Zenon
<1>2. CASE UNCHANGED framesVars
  <2>1. Free' = Free /\ Held' = Held
    BY <1>2, Zenon DEF framesVars, Free, Held
  <2>2. FramesTypeOK' /\ StackDistinct' /\ NothingDropped'
    BY <1>2, Zenon DEF framesVars, FramesInv, FramesTypeOK, StackDistinct, NothingDropped
  <2>3. Exclusive' /\ PinnedNeverServed' /\ Conserved'
    BY <1>2, <2>1, Zenon DEF framesVars, FramesInv, Exclusive, PinnedNeverServed, Conserved
  <2> QED
    BY <2>2, <2>3, Zenon DEF FramesInv
<1>3. ASSUME NEW cl \in Clients, pmm_alloc_fails(cl) PROVE FramesInv'
  BY <1>2, <1>3, Zenon DEF pmm_alloc_fails
<1>4. ASSUME NEW cl \in Clients, NEW f \in held[cl], pmm_free(cl, f) PROVE FramesInv'
  BY <1>4, FreeInv, Zenon
<1>5. ASSUME NEW r \in Reservations, pmm_reserve(r[1], r[2]) PROVE FramesInv'
  BY <1>5, ReserveInv, Zenon
<1>6. CASE pmm_reserve_page
  BY <1>6, ReservePageInv, Zenon
<1> QED
  BY <1>1, <1>2, <1>3, <1>4, <1>5, <1>6, Zenon DEF FramesNext

LEMMA FramesAlways == FramesSpec => []FramesInv
  BY FramesInitInv, FramesStep, PTL DEF FramesSpec

\* The state of the frame allocator is always well formed: the stack holds at
\* most PMM_STACK_SIZE collected frames.
THEOREM FramesTyped == FramesSpec => []FramesTypeOK
  BY FramesAlways, PTL DEF FramesInv

\* No two owners: a frame pmm_alloc returns is neither on the stack any more
\* nor in the hands of another client, whatever the order of alloc, free and
\* reserve calls.
THEOREM FramesExclusive == FramesSpec => [](StackDistinct /\ Exclusive)
  BY FramesAlways, PTL DEF FramesInv

\* pmm_free's silent drop when the stack is full is unreachable for clients
\* that free what they were given, and so no frame is ever lost.
THEOREM FramesConserved == FramesSpec => [](NothingDropped /\ Conserved)
  BY FramesAlways, PTL DEF FramesInv

\* A page that pmm_reserve found unowned is never served afterwards.
THEOREM ReservationsHold == FramesSpec => []PinnedNeverServed
  BY FramesAlways, PTL DEF FramesInv

-----------------------------------------------------------------------------
(* The processors, Smp                                                     *)

CpuPlaces  == {"off", "wait", "tramp", "entry", "signal", "hlt"}
Started == {"tramp", "entry", "signal", "hlt"}
InC     == {"signal", "hlt"}

CpusTypeOK ==
    /\ n \in Nat \ {0} /\ c \in 1..(n + 1)
    /\ bsp \in {"fill", "init", "sipi", "sipi2", "poll"}
    /\ tramp \in [stack : Nat, cpu_id : Nat, ready : BOOLEAN]
    /\ ap \in [APs -> [pc : CpuPlaces, stack : Nat, id : Nat]]

\* The record holds the data of the CPU being started, or of the last one.
Record ==
    /\ tramp.stack = tramp.cpu_id
    /\ tramp.stack = IF bsp = "fill" THEN c - 1 ELSE c
    /\ bsp # "fill" => c \in APs

\* Nobody runs before the first start-up interrupt, and between a Fill and the
\* INIT after it the processors still running were started with the record
\* before: the stack one of them loaded is at most one behind.
Behind ==
    \A a \in APs :
       /\ ap[a].pc \in Started =>
             tramp.stack >= 1 /\ (bsp = "init" => tramp.stack >= 2)
       /\ ap[a].pc = "entry" =>
             /\ ap[a].stack >= 1
             /\ ap[a].stack = tramp.stack
                \/ (bsp = "init" /\ ap[a].stack = tramp.stack - 1)

\* A sole processor is not taken for ready or online before it is in C code.
Sole == n = 1 => ((1 \in online \/ tramp.ready) => ap[1].pc \in InC)

CpusInv == CpusTypeOK /\ Record /\ Behind /\ Sole /\ StackBeforeNumber

LEMMA CpusStartInv == ASSUME MaxAPs \in Nat, CpusInit PROVE CpusInv
<1>1. n \in Nat \ {0} /\ APs = 1..n
  BY DEF CpusInit, APs
<1>2. CpusTypeOK
  BY <1>1 DEF CpusInit, CpusTypeOK, CpuPlaces
<1> QED
  BY <1>1, <1>2 DEF CpusInit, CpusInv, Record, Behind, Sole, StackBeforeNumber, Started, InC

\* Start_ap writes the record for the next CPU.
LEMMA FillInv == ASSUME CpusInv, Fill PROVE CpusInv'
<1> USE DEF CpusInv, CpusTypeOK, APs
<1>1. CpusTypeOK' /\ Record'
  BY DEF Fill, Record
<1>2. Behind'
  BY DEF Fill, Record, Behind, Started, CpuPlaces
<1>3. Sole' /\ StackBeforeNumber'
  BY Zenon DEF Fill, Record, Behind, Sole, StackBeforeNumber, Started, InC
<1> QED
  BY <1>1, <1>2, <1>3, Zenon

\* INIT stops whoever runs.  A sole processor has not run yet: it would have
\* been started with the record before this one.
LEMMA SendInitInv == ASSUME CpusInv, SendInit PROVE CpusInv'
<1> USE DEF CpusInv, CpusTypeOK, APs
<1>1. CpusTypeOK' /\ Record'
  BY Zenon DEF SendInit, Record, CpuPlaces
<1>2. Behind' /\ StackBeforeNumber'
  <2>1. \A a \in 1..n : ap'[a].pc = "wait"
    BY Zenon DEF SendInit
  <2>2. n = 1 => 1 \notin online
    BY DEF SendInit, Record, Behind, Sole, Started, InC
  <2> QED
    BY <2>1, <2>2 DEF SendInit, Behind, StackBeforeNumber, Started
<1>3. Sole'
  BY DEF SendInit, Record, Behind, Sole, Started, InC
<1> QED
  BY <1>1, <1>2, <1>3, Zenon

\* A processor that waits takes a start-up interrupt or does not.
LEMMA SendSipiInv == ASSUME CpusInv, SendSipi PROVE CpusInv'
<1> USE DEF CpusInv, CpusTypeOK, APs
<1>1. PICK taken \in SUBSET {a \in APs : ap[a].pc = "wait"} :
          ap' = [a \in APs |-> IF a \in taken THEN [ap[a] EXCEPT !.pc = "tramp"] ELSE ap[a]]
  BY Zenon DEF SendSipi
<1>2. CpusTypeOK' /\ Record'
  <2>1. ASSUME NEW a \in 1..n
        PROVE  (IF a \in taken THEN [ap[a] EXCEPT !.pc = "tramp"] ELSE ap[a])
                  \in [pc : CpuPlaces, stack : Nat, id : Nat]
    BY DEF CpuPlaces
  <2>2. ap' \in [1..n -> [pc : CpuPlaces, stack : Nat, id : Nat]] /\ n' = n
    BY <1>1, <2>1, Zenon DEF SendSipi
  <2> QED
    BY <2>2, Zenon DEF SendSipi, Record
<1>3. \A a \in APs : ap'[a] = ap[a] \/ (ap[a].pc = "wait" /\ ap'[a].pc = "tramp")
  BY <1>1, Zenon
<1>4. tramp' = tramp /\ bsp # "fill" /\ bsp' # "init" /\ bsp # "init" /\ n' = n
      /\ online' = online
  BY Zenon DEF SendSipi
<1>5. tramp.stack >= 1
  BY <1>4 DEF Record
<1>6. Behind'
  BY <1>3, <1>4, <1>5, Zenon DEF Behind, Started
<1>7. \A a \in 1..n : ap'[a].pc \in InC <=> (ap[a].pc \in InC /\ ap'[a] = ap[a])
  BY <1>3, Zenon DEF InC
<1>8. Sole' /\ StackBeforeNumber'
  <2>1. n = 1 => 1 \in 1..n
    OBVIOUS
  <2>2. Sole'
    BY <1>3, <1>4, <1>7, <2>1, Zenon DEF Sole, InC
  <2>3. StackBeforeNumber'
    BY <1>3, <1>4, <1>7, <2>1 DEF StackBeforeNumber, InC
  <2> QED
    BY <2>2, <2>3, Zenon
<1> QED
  BY <1>2, <1>6, <1>8, Zenon

LEMMA PollInv == ASSUME CpusInv, Poll PROVE CpusInv'
<1> USE DEF CpusInv, CpusTypeOK, APs
<1>1. CpusTypeOK' /\ Record'
  <2>1. c \in 1..n /\ c' = c + 1 /\ bsp' = "fill" /\ UNCHANGED <<n, tramp, ap>>
    BY Zenon DEF Poll, Record
  <2>2. c' \in 1..(n' + 1) /\ tramp.stack = c
    BY <2>1 DEF Poll, Record
  <2>3. CpusTypeOK'
    BY <2>1, <2>2, Zenon
  <2>4. Record'
    <3>1. c \in Int /\ tramp.stack = tramp.cpu_id
      BY DEF Record
    <3> HIDE DEF CpusInv, CpusTypeOK
    <3> QED
      BY <2>1, <2>2, <3>1 DEF Record
  <2> QED
    BY <2>3, <2>4, Zenon
<1>2. Behind'
  BY Zenon DEF Poll, Record, Behind
<1>3. n = 1 => 1 \in 1..n /\ c = 1
  BY DEF Poll, Record
<1>4. Sole'
  BY <1>3, Zenon DEF Poll, Sole
<1>5. StackBeforeNumber'
  BY <1>3, Zenon DEF Poll, Sole, StackBeforeNumber, InC
<1> QED
  BY <1>1, <1>2, <1>4, <1>5, Zenon

\* A processor is somewhere else.
LEMMA PlaceSet ==
    ASSUME CpusTypeOK, NEW a \in APs, NEW q \in CpuPlaces
    PROVE  [ap EXCEPT ![a].pc = q] \in [APs -> [pc : CpuPlaces, stack : Nat, id : Nat]]
BY DEF CpusTypeOK

\* The processor loads its stack from the record.
LEMMA TrampolineInv == ASSUME CpusInv, NEW a \in APs, Trampoline(a) PROVE CpusInv'
<1> USE DEF CpusInv, CpusTypeOK, APs
<1>1. /\ ap[a].pc = "tramp"
      /\ ap'[a].pc = "entry" /\ ap'[a].stack = tramp.stack
      /\ \A b \in 1..n \ {a} : ap'[b] = ap[b]
      /\ UNCHANGED <<n, bsp, c, tramp, online>>
  BY Zenon DEF Trampoline
<1>2. CpusTypeOK' /\ Record'
  <2>1. ap' \in [1..n -> [pc : CpuPlaces, stack : Nat, id : Nat]]
    <3> DEFINE f == [ap EXCEPT ![a].pc = "entry"]
    <3>1. f \in [1..n -> [pc : CpuPlaces, stack : Nat, id : Nat]]
      <4>1. CpusTypeOK /\ "entry" \in CpuPlaces
        BY Zenon DEF CpuPlaces
      <4> HIDE DEF CpusInv, CpusTypeOK
      <4> QED
        BY <4>1, PlaceSet, Zenon
    <3> HIDE DEF f
    <3>2. ap' = [f EXCEPT ![a].stack = tramp.stack] /\ tramp.stack \in Nat
      BY Zenon DEF Trampoline, f
    <3> HIDE DEF CpusInv, CpusTypeOK
    <3> QED
      BY <3>1, <3>2, Zenon
  <2> QED
    BY <1>1, <2>1, Zenon DEF Record
<1>3. Behind'
  <2> SUFFICES ASSUME NEW b \in 1..n
               PROVE  /\ ap'[b].pc \in Started =>
                            tramp.stack >= 1 /\ (bsp = "init" => tramp.stack >= 2)
                      /\ ap'[b].pc = "entry" =>
                            /\ ap'[b].stack >= 1
                            /\ ap'[b].stack = tramp.stack
                               \/ (bsp = "init" /\ ap'[b].stack = tramp.stack - 1)
    BY <1>1, Zenon DEF Behind
  <2>1. CASE b = a
    <3>1. tramp.stack >= 1 /\ (bsp = "init" => tramp.stack >= 2)
      BY <1>1, Zenon DEF Behind, Started
    <3>2. ap'[b].stack = tramp.stack /\ tramp.stack \in Nat
      BY <1>1, <2>1, Zenon
    <3> HIDE DEF CpusInv, CpusTypeOK
    <3> QED
      BY <3>1, <3>2, Zenon
  <2>2. CASE b # a
    BY <1>1, <2>2, Zenon DEF Behind
  <2> QED
    BY <2>1, <2>2, Zenon
<1>4. Sole'
  BY <1>1 DEF Sole, InC
<1>5. StackBeforeNumber'
  <2>1. n = 1 => a = 1
    OBVIOUS
  <2>2. 1 \in online /\ n = 1 => ap[1].pc \in {"signal", "hlt"}
    BY Zenon DEF StackBeforeNumber
  <2> QED
    BY <1>1, <2>1, <2>2, Zenon DEF StackBeforeNumber
<1> QED
  BY <1>2, <1>3, <1>4, <1>5, Zenon

\* The number is read after the stack; one Fill at most lies in between.
LEMMA EntryInv == ASSUME CpusInv, NEW a \in APs, ap_entry(a) PROVE CpusInv'
<1> USE DEF CpusInv, CpusTypeOK, APs
<1>1. CASE ap[a].pc = "entry"
  <2>1. /\ ap'[a].pc = "signal" /\ ap'[a].stack = ap[a].stack
        /\ ap'[a].id = tramp.cpu_id
        /\ \A b \in 1..n \ {a} : ap'[b] = ap[b]
        /\ online' = online \cup {tramp.cpu_id}
        /\ UNCHANGED <<n, bsp, c, tramp>>
    BY <1>1 DEF ap_entry
  <2>2. CpusTypeOK' /\ Record'
    <3>1. ap' \in [1..n -> [pc : CpuPlaces, stack : Nat, id : Nat]]
      <4> DEFINE f == [ap EXCEPT ![a].pc = "signal"]
      <4>1. f \in [1..n -> [pc : CpuPlaces, stack : Nat, id : Nat]]
        <5>1. CpusTypeOK /\ "signal" \in CpuPlaces
          BY Zenon DEF CpuPlaces
        <5> HIDE DEF CpusInv, CpusTypeOK
        <5> QED
          BY <5>1, PlaceSet, Zenon
      <4> HIDE DEF f
      <4>2. ap' = [f EXCEPT ![a].id = tramp.cpu_id] /\ tramp.cpu_id \in Nat
        BY <1>1, Zenon DEF ap_entry, f
      <4> HIDE DEF CpusInv, CpusTypeOK
      <4> QED
        BY <4>1, <4>2, Zenon
    <3> QED
      BY <2>1, <3>1, Zenon DEF Record
  <2>3. Behind'
    <3>1. ap[a].pc \in Started
      BY <1>1, Zenon DEF Started
    <3> QED
      BY <2>1, <3>1, Zenon DEF Behind
  <2>4. n = 1 => a = 1 /\ tramp.cpu_id = 1 /\ ap[a].stack = 1
    BY <1>1 DEF Behind, Record, Started
  <2>5. Sole'
    BY <2>1, <2>4, Zenon DEF Sole, InC
  <2>6. /\ 1 <= ap[a].stack /\ ap[a].stack <= tramp.cpu_id
        /\ tramp.cpu_id <= ap[a].stack + 1
    <3>1. /\ ap[a].stack >= 1
          /\ ap[a].stack = tramp.stack \/ ap[a].stack = tramp.stack - 1
      BY <1>1, Zenon DEF Behind
    <3>2. /\ ap[a].stack \in Nat /\ tramp.stack \in Nat
          /\ tramp.cpu_id = tramp.stack
      BY Zenon DEF Record
    <3> HIDE DEF CpusInv, CpusTypeOK
    <3> QED
      BY <3>1, <3>2
  <2>7. StackBeforeNumber'
    BY <2>1, <2>4, <2>6, Zenon DEF StackBeforeNumber
  <2> QED
    BY <2>2, <2>3, <2>5, <2>7, Zenon
<1>2. CASE ap[a].pc = "signal"
  <2>1. /\ ap'[a].pc = "hlt" /\ ap'[a].stack = ap[a].stack /\ ap'[a].id = ap[a].id
        /\ \A b \in 1..n \ {a} : ap'[b] = ap[b]
        /\ tramp' = [tramp EXCEPT !.ready = TRUE]
        /\ UNCHANGED <<n, bsp, c, online>>
    BY <1>2 DEF ap_entry
  <2>2. CpusTypeOK' /\ Record'
    <3>1. ap' \in [1..n -> [pc : CpuPlaces, stack : Nat, id : Nat]]
      <4>1. ap' = [ap EXCEPT ![a].pc = "hlt"]
        BY <1>2, Zenon DEF ap_entry
      <4>2. CpusTypeOK /\ "hlt" \in CpuPlaces
        BY Zenon DEF CpuPlaces
      <4> HIDE DEF CpusInv, CpusTypeOK
      <4> QED
        BY <4>1, <4>2, PlaceSet, Zenon
    <3> QED
      BY <2>1, <3>1, Zenon DEF Record
  <2>3. Behind'
    <3>1. ap[a].pc \in Started /\ tramp'.stack = tramp.stack
      BY <1>2, <2>1, Zenon DEF Started
    <3> QED
      BY <2>1, <3>1, Zenon DEF Behind
  <2>4. Sole'
    BY <2>1 DEF Sole, InC
  <2>5. StackBeforeNumber'
    <3>1. n = 1 => a = 1
      OBVIOUS
    <3> QED
      BY <1>2, <2>1, <3>1, Zenon DEF StackBeforeNumber
  <2> QED
    BY <2>2, <2>3, <2>4, <2>5, Zenon
<1> QED
  BY <1>1, <1>2, Zenon DEF ap_entry

\* However the boot processor's start-up interrupts and the processors'
\* steps fall, and for every number of processors: C code runs on a stack of
\* ap_stacks handed out for it or for the CPU before, and a sole application
\* processor is on its own stack, under its own number, before it is online.
THEOREM OwnStacks == MaxAPs \in Nat /\ CpusSpec => []StackBeforeNumber
<1>1. MaxAPs \in Nat /\ CpusInit => CpusInv
  BY CpusStartInv, Zenon
<1>2. CpusInv /\ [CpusNext]_cpuVars => CpusInv'
  <2> SUFFICES ASSUME CpusInv, [CpusNext]_cpuVars PROVE CpusInv'
    BY Zenon
  <2>1. CASE Fill
    BY <2>1, FillInv, Zenon
  <2>2. CASE SendInit
    BY <2>2, SendInitInv, Zenon
  <2>3. CASE SendSipi
    BY <2>3, SendSipiInv, Zenon
  <2>4. CASE Poll
    BY <2>4, PollInv, Zenon
  <2>5. ASSUME NEW a \in APs, Trampoline(a) PROVE CpusInv'
    BY <2>5, TrampolineInv, Zenon
  <2>6. ASSUME NEW a \in APs, ap_entry(a) PROVE CpusInv'
    BY <2>6, EntryInv, Zenon
  <2>7. CASE UNCHANGED cpuVars
    BY <2>7, Zenon DEF cpuVars, CpusInv, CpusTypeOK, Record, Behind, Sole, StackBeforeNumber, APs
  <2> QED
    BY <2>1, <2>2, <2>3, <2>4, <2>5, <2>6, <2>7 DEF CpusNext, smp_init
<1>3. CpusInv => StackBeforeNumber
  BY Zenon DEF CpusInv
<1> QED
  BY <1>1, <1>2, <1>3, PTL DEF CpusSpec

-----------------------------------------------------------------------------
(* The task table, Proc                                                    *)

\* Room for idle and init, waits for slots of the table, and one creator.
OneCreator ==
    /\ PROC_MAX_TASKS \in Nat /\ PROC_MAX_TASKS >= 2
    /\ Waited \subseteq Slots
    /\ \A s, t \in Creators : s = t

States == {"RUNNING", "NEW", "WAITING", "ZOMBIE"}
Frames == {"entry", "left", "execd", "exec_enter"}
Exited == {"exiting", "halted"}
Picked == {"spawn", "vfork"}       \* a slot is chosen, and not counted yet
Filled == {"spawned", "vforked"}   \* it is counted, and not runnable yet

\* The points a step of the current task leads to, other than these.
Points == {"user", "left", "execd", "exec_enter", "exiting", "halted",
           "wait_check", "wait_set", "wait_switch"}
Places == Points \cup Picked \cup Filled \cup {"vfork_wait", "wait_woken"}

TasksTypeOK ==
    /\ g_task_count \in 2..PROC_MAX_TASKS /\ g_cur_task \in Tasks
    /\ state \in [Slots -> States] /\ frame \in [Slots -> Frames]
    /\ pc \in [Slots -> Places] /\ arg \in [Slots -> Int]
    /\ vfork_parent \in [Slots -> Slots]

\* A creator's local names the first slot that is not counted, then a task
\* that is NEW.
Creating ==
    \A s \in Slots :
       /\ pc[s] \in Picked \cup Filled => s \in Creators
       /\ pc[s] \in Picked => arg[s] = g_task_count /\ g_task_count < PROC_MAX_TASKS
       /\ pc[s] \in Filled => arg[s] \in Tasks /\ state[arg[s]] = "NEW"

\* Nothing of a task has run while it is not counted, or NEW.
Unborn ==
    \A s \in Slots : s \notin Tasks \/ state[s] = "NEW" =>
        pc[s] = "user" /\ s # g_cur_task

\* WAITING is there because a wake-up makes it RUNNING.
HasFrame ==
    /\ g_cur_task \in framed
    /\ \A s \in Tasks : state[s] \in {"RUNNING", "WAITING"} => s \in framed

Dead == \A s \in Slots : pc[s] \in Exited => state[s] = "ZOMBIE"

TasksInv == OneCreator /\ TasksTypeOK /\ Creating /\ Unborn /\ HasFrame /\ Dead

-----------------------------------------------------------------------------
(* The scheduler                                                           *)

\* sched_tick chooses a running task or keeps the current one.
LEMMA NextTaskRuns ==
    ASSUME g_task_count \in Nat \ {0}, g_cur_task \in Tasks
    PROVE  /\ NextTask(g_cur_task) \in Tasks
           /\ \/ NextTask(g_cur_task) = g_cur_task
              \/ state[NextTask(g_cur_task)] = "RUNNING"
<1> DEFINE found == {i \in 1..(g_task_count - 1) :
                        state[(g_cur_task + i) % g_task_count] = "RUNNING"}
<1>1. CASE found = {}
  BY <1>1, Zenon DEF NextTask
<1>2. CASE found # {}
  <2>1. found \subseteq Nat
    OBVIOUS
  <2>2. Min(found) \in found
    BY <1>2, <2>1, MinIsLeast, Zenon
  <2>3. NextTask(g_cur_task) = (g_cur_task + Min(found)) % g_task_count
    BY <1>2, Zenon DEF NextTask
  <2>4. g_cur_task + Min(found) \in Nat
    BY <2>2 DEF Tasks
  <2> HIDE DEF found
  <2>5. (g_cur_task + Min(found)) % g_task_count \in Tasks
    BY <2>4 DEF Tasks
  <2> QED
    BY <2>2, <2>3, <2>5, Zenon DEF found
<1> QED
  BY <1>1, <1>2, Zenon

\* A switch, from the timer or from task_wait.
LEMMA SwitchStep ==
    ASSUME TasksInv, sched_switch, UNCHANGED <<table, state, arg>>,
           pc' = pc \/ (pc' = [pc EXCEPT ![g_cur_task] = "wait_woken"])
    PROVE  TasksInv'
<1>1. /\ g_cur_task \in Tasks /\ Tasks \subseteq Slots /\ Tasks' = Tasks
      /\ g_task_count \in Nat \ {0}
  BY DEF TasksInv, OneCreator, TasksTypeOK, Tasks, Slots, table
<1>2. /\ g_cur_task' \in Tasks
      /\ g_cur_task' = g_cur_task \/ state[g_cur_task'] = "RUNNING"
  BY <1>1, NextTaskRuns, Zenon DEF sched_switch
<1>3. \A s \in Slots : pc'[s] = pc[s] \/ (s = g_cur_task /\ pc'[s] = "wait_woken")
  BY Zenon DEF TasksInv, TasksTypeOK
<1>4. TasksTypeOK'
  <2>1. pc' \in [Slots -> Places]
    BY Zenon DEF TasksInv, TasksTypeOK, Places
  <2>2. PICK f \in Frames : frame' = [frame EXCEPT ![g_cur_task] = f]
    BY Zenon DEF sched_switch, Frames
  <2>3. frame' \in [Slots -> Frames]
    BY <2>2, Zenon DEF TasksInv, TasksTypeOK
  <2> QED
    BY <1>1, <1>2, <2>1, <2>3, Zenon DEF TasksInv, TasksTypeOK, table
<1>5. Creating'
  BY <1>1, <1>3, Zenon DEF TasksInv, Creating, Picked, Filled, table
<1>6. Unborn'
  BY <1>1, <1>2, <1>3, Zenon DEF TasksInv, Unborn
<1>7. HasFrame'
  BY <1>1, <1>2, Zenon DEF TasksInv, HasFrame, table
<1>8. Dead'
  BY <1>3, Zenon DEF TasksInv, Dead, Exited
<1> QED
  BY <1>4, <1>5, <1>6, <1>7, <1>8, Zenon DEF TasksInv, OneCreator

-----------------------------------------------------------------------------
(* Steps of the current task that concern no slot in the making            *)

\* What such a step leaves alone: it sets the task's own state, or wakes one
\* that waits.
Own(to) ==
    /\ state' \in [Slots -> States] /\ frame' \in [Slots -> Frames]
    /\ arg' \in [Slots -> Int]
    /\ UNCHANGED <<g_task_count, vfork_parent, framed>>
    /\ \A s \in Slots \ {g_cur_task} :
          /\ arg'[s] = arg[s]
          /\ \/ state'[s] = state[s]
             \/ state[s] = "WAITING" /\ state'[s] = "RUNNING"
    /\ state'[g_cur_task] # "NEW"
    /\ to \in Exited => state'[g_cur_task] = "ZOMBIE"

LEMMA OwnStep ==
    ASSUME TasksInv, NEW from, NEW to \in Points, Goes(from, to), Own(to)
    PROVE  TasksInv'
<1>0. to \in Places /\ to \notin Picked \cup Filled
  <2>1. to \in Places
    BY Zenon DEF Places
  <2>2. to \notin Picked \cup Filled
    BY Zenon DEF Points, Picked, Filled
  <2> QED
    BY <2>1, <2>2, Zenon
<1> USE DEF Own
<1>1. g_cur_task \in Tasks /\ Tasks \subseteq Slots /\ Tasks' = Tasks
  BY DEF TasksInv, OneCreator, TasksTypeOK, Tasks, Slots
<1>2. /\ pc'[g_cur_task] = to /\ g_cur_task' = g_cur_task
      /\ \A s \in Slots \ {g_cur_task} : pc'[s] = pc[s]
      /\ pc' \in [Slots -> Places]
  BY <1>0, <1>1, Zenon DEF TasksInv, TasksTypeOK, Goes
<1>3. TasksTypeOK'
  BY <1>1, <1>2, Zenon DEF TasksInv, TasksTypeOK
<1>4. Creating'
  <2> SUFFICES ASSUME NEW s \in Slots, pc'[s] \in Picked \cup Filled
               PROVE  /\ s \in Creators
                      /\ pc'[s] \in Picked =>
                            arg'[s] = g_task_count /\ g_task_count < PROC_MAX_TASKS
                      /\ pc'[s] \in Filled => arg'[s] \in Tasks /\ state'[arg'[s]] = "NEW"
    BY <1>1, Zenon DEF Creating
  <2>1. s # g_cur_task /\ pc'[s] = pc[s] /\ arg'[s] = arg[s]
    BY <1>0, <1>2, Zenon
  <2>2. pc[s] \in Filled => arg[s] \in Slots \ {g_cur_task} /\ state[arg[s]] = "NEW"
    BY <1>1, Zenon DEF TasksInv, Creating, Unborn
  <2> QED
    BY <2>1, <2>2 DEF TasksInv, Creating
<1>5. Unborn'
  <2> SUFFICES ASSUME NEW s \in Slots, s \notin Tasks \/ state'[s] = "NEW"
               PROVE  pc'[s] = "user" /\ s # g_cur_task
    BY <1>1, <1>2, Zenon DEF Unborn
  <2>1. s # g_cur_task
    BY <1>1, Zenon
  <2> QED
    BY <1>2, <2>1, Zenon DEF TasksInv, Unborn
<1>6. HasFrame'
  BY <1>1, <1>2, Zenon DEF TasksInv, HasFrame
<1>7. Dead'
  BY <1>1, <1>2, Zenon DEF TasksInv, Dead
<1> QED
  BY <1>3, <1>4, <1>5, <1>6, <1>7, Zenon DEF TasksInv, OneCreator

\* A wake-up changes at most a task that waits.
LEMMA WokenStates ==
    ASSUME TasksInv, NEW p
    PROVE  /\ Woken(state, p) \in [Slots -> States]
           /\ \A s \in Slots : \/ Woken(state, p)[s] = state[s]
                               \/ state[s] = "WAITING" /\ Woken(state, p)[s] = "RUNNING"
BY Zenon DEF TasksInv, TasksTypeOK, Woken, States

\* What every step may use about the current task.
LEMMA Current ==
    ASSUME TasksInv
    PROVE  /\ g_cur_task \in Slots /\ g_cur_task \in Tasks
           /\ state[g_cur_task] \in States \ {"NEW"}
BY DEF TasksInv, OneCreator, TasksTypeOK, Tasks, Slots, Unborn

LEMMA VforkWaitIInv == ASSUME TasksInv, task_vfork_wait PROVE TasksInv'
<1>1. Own("user")
  BY Current, Zenon DEF Own, task_vfork_wait, table, TasksInv, TasksTypeOK, States, Exited
<1>2. Goes("vfork_wait", "user")
  BY Zenon DEF task_vfork_wait
<1>3. "user" \in Points
  BY Zenon DEF Points
<1> QED
  BY <1>1, <1>2, <1>3, OwnStep, Zenon

LEMMA ExecEntryIInv == ASSUME TasksInv, task_exec_entry PROVE TasksInv'
<1>1. Own("execd")
  BY Current, Zenon DEF Own, task_exec_entry, TasksInv, TasksTypeOK, States, Frames, Exited
<1>2. Goes("user", "execd")
  BY Zenon DEF task_exec_entry, Calls
<1>3. "execd" \in Points
  BY Zenon DEF Points
<1> QED
  BY <1>1, <1>2, <1>3, OwnStep, Zenon

LEMMA ExecWakeIInv == ASSUME TasksInv, task_exec_wake PROVE TasksInv'
<1>1. Own("exec_enter")
  BY Current, WokenStates, Zenon DEF Own, task_exec_wake, table, TasksInv, TasksTypeOK, Exited
<1>2. Goes("execd", "exec_enter")
  BY Zenon DEF task_exec_wake
<1>3. "exec_enter" \in Points
  BY Zenon DEF Points
<1> QED
  BY <1>1, <1>2, <1>3, OwnStep, Zenon

LEMMA ExecEnterIInv == ASSUME TasksInv, exec_enter PROVE TasksInv'
<1> DEFINE f == frame[g_cur_task]
           to == IF f = "entry" THEN "user" ELSE f
<1>1. to \in {"user", "left", "execd", "exec_enter"}
  BY Current, Zenon DEF TasksInv, TasksTypeOK, Frames
<1>2. Goes("exec_enter", to)
  BY Zenon DEF exec_enter
<1> HIDE DEF to
<1>3. Own(to)
  BY <1>1, Current, Zenon DEF Own, exec_enter, table, TasksInv, TasksTypeOK, Exited
<1>4. to \in Points
  BY <1>1, Zenon DEF Points
<1> QED
  BY <1>2, <1>3, <1>4, OwnStep, Zenon

LEMMA ExitIInv == ASSUME TasksInv, task_exit PROVE TasksInv'
<1>1. Own("exiting")
  BY Current, Zenon DEF Own, task_exit, table, TasksInv, TasksTypeOK, States
<1>2. Goes("user", "exiting")
  BY Zenon DEF task_exit, Calls
<1>3. "exiting" \in Points
  BY Zenon DEF Points
<1> QED
  BY <1>1, <1>2, <1>3, OwnStep, Zenon

\* The task itself is a zombie, so the wake-up does not touch it.
LEMMA ExitWakeIInv == ASSUME TasksInv, task_exit_wake PROVE TasksInv'
<1>1. state[g_cur_task] = "ZOMBIE"
  BY Current, Zenon DEF task_exit_wake, Goes, TasksInv, Dead, Exited
<1>2. Own("halted")
  BY <1>1, Current, WokenStates, Zenon DEF Own, task_exit_wake, table, TasksInv, TasksTypeOK
<1>3. Goes("exiting", "halted")
  BY Zenon DEF task_exit_wake
<1>4. "halted" \in Points
  BY Zenon DEF Points
<1> QED
  BY <1>2, <1>3, <1>4, OwnStep, Zenon

LEMMA WaitIInv == ASSUME TasksInv, NEW pid \in Waited, task_wait(pid) PROVE TasksInv'
<1>1. pid \in Int
  BY DEF TasksInv, OneCreator, Slots
<1>2. Own("wait_check")
  BY <1>1, Current, Zenon DEF Own, task_wait, table, TasksInv, TasksTypeOK, Exited
<1>3. Goes("user", "wait_check")
  BY Zenon DEF task_wait, Calls
<1>4. "wait_check" \in Points
  BY Zenon DEF Points
<1> QED
  BY <1>2, <1>3, <1>4, OwnStep, Zenon

LEMMA WaitCheckIInv == ASSUME TasksInv, task_wait_check PROVE TasksInv'
<1> DEFINE to == IF state[arg[g_cur_task]] = "ZOMBIE" THEN "user" ELSE "wait_set"
<1>1. to \in {"user", "wait_set"}
  BY Zenon
<1>2. Goes("wait_check", to)
  BY Zenon DEF task_wait_check
<1> HIDE DEF to
<1>3. Own(to)
  BY <1>1, Current DEF Own, task_wait_check, table, TasksInv, TasksTypeOK, Exited
<1>4. to \in Points
  BY <1>1, Zenon DEF Points
<1> QED
  BY <1>2, <1>3, <1>4, OwnStep, Zenon

LEMMA WaitSetIInv == ASSUME TasksInv, task_wait_set PROVE TasksInv'
<1>1. Own("wait_switch")
  BY Current, Zenon DEF Own, task_wait_set, table, TasksInv, TasksTypeOK, States, Exited
<1>2. Goes("wait_set", "wait_switch")
  BY Zenon DEF task_wait_set
<1>3. "wait_switch" \in Points
  BY Zenon DEF Points
<1> QED
  BY <1>1, <1>2, <1>3, OwnStep, Zenon

LEMMA WaitWokenIInv == ASSUME TasksInv, task_wait_woken PROVE TasksInv'
<1>1. Own("wait_check")
  BY Current, Zenon DEF Own, task_wait_woken, table, TasksInv, TasksTypeOK, States, Exited
<1>2. Goes("wait_woken", "wait_check")
  BY Zenon DEF task_wait_woken
<1>3. "wait_check" \in Points
  BY Zenon DEF Points
<1> QED
  BY <1>1, <1>2, <1>3, OwnStep, Zenon

-----------------------------------------------------------------------------
(* Making a task                                                           *)

\* The slot is chosen: the first one that is not counted.
LEMMA PickIInv ==
    ASSUME TasksInv, NEW to \in Picked, pick_slot(to)
    PROVE  TasksInv'
<1>1. g_cur_task \in Tasks /\ Tasks \subseteq Slots /\ Tasks' = Tasks
  BY DEF TasksInv, OneCreator, TasksTypeOK, Tasks, Slots, pick_slot, table
<1>2. /\ g_cur_task \in Creators /\ g_task_count < PROC_MAX_TASKS
      /\ pc'[g_cur_task] = to /\ arg'[g_cur_task] = g_task_count
      /\ \A s \in Slots \ {g_cur_task} : pc'[s] = pc[s] /\ arg'[s] = arg[s]
      /\ UNCHANGED <<g_cur_task, g_task_count, vfork_parent, framed, state, frame>>
  BY <1>1, Zenon DEF pick_slot, Calls, Goes, table, TasksInv, TasksTypeOK
<1>3. TasksTypeOK'
  <2>1. to \in Places
    BY Zenon DEF Places
  <2>2. pc' \in [Slots -> Places]
    BY <2>1, Zenon DEF pick_slot, Calls, Goes, TasksInv, TasksTypeOK
  <2>3. arg' \in [Slots -> Int]
    <3>1. g_task_count \in Int /\ arg \in [Slots -> Int]
      BY DEF TasksInv, TasksTypeOK, OneCreator
    <3>2. arg' = [arg EXCEPT ![g_cur_task] = g_task_count]
      BY Zenon DEF pick_slot
    <3> QED
      BY <3>1, <3>2, Zenon
  <2> QED
    BY <1>1, <1>2, <2>2, <2>3, Zenon DEF TasksInv, TasksTypeOK
<1>4. Creating'
  BY <1>1, <1>2, Zenon DEF TasksInv, Creating, Picked, Filled
<1>5. Unborn'
  BY <1>1, <1>2, Zenon DEF TasksInv, Unborn
<1>6. HasFrame'
  BY <1>1, <1>2, Zenon DEF TasksInv, HasFrame
<1>7. Dead'
  BY <1>2, Zenon DEF TasksInv, Dead, Picked, Exited
<1> QED
  BY <1>3, <1>4, <1>5, <1>6, <1>7, Zenon DEF TasksInv, OneCreator

\* The slot is counted and NEW.  With one creator nobody else has chosen it.
LEMMA FillStep ==
    ASSUME TasksInv, NEW from \in Picked, NEW to \in Filled, Goes(from, to),
           state' = [state EXCEPT ![arg[g_cur_task]] = "NEW"],
           g_task_count' = g_task_count + 1,
           vfork_parent' \in [Slots -> Slots],
           UNCHANGED <<framed, frame, arg>>
    PROVE  TasksInv'
<1> DEFINE t == arg[g_cur_task]
<1>1. /\ g_cur_task \in Tasks /\ Tasks \subseteq Slots
      /\ g_cur_task \in Creators /\ t = g_task_count /\ g_task_count < PROC_MAX_TASKS
  <2>1. g_cur_task \in Tasks /\ Tasks \subseteq Slots
    BY DEF TasksInv, OneCreator, TasksTypeOK, Tasks, Slots
  <2>2. pc[g_cur_task] \in Picked
    BY Zenon DEF Goes
  <2> QED
    BY <2>1, <2>2, Zenon DEF TasksInv, Creating
<1>2. t \in Slots /\ t \notin Tasks /\ Tasks' = Tasks \cup {t}
  <2>1. /\ g_task_count \in Nat /\ PROC_MAX_TASKS \in Nat
        /\ g_task_count < PROC_MAX_TASKS
    BY <1>1 DEF TasksInv, OneCreator, TasksTypeOK
  <2>2. 0..(g_task_count' - 1) = 0..(g_task_count - 1) \cup {g_task_count}
    BY <2>1
  <2> QED
    BY <1>1, <2>1, <2>2 DEF Tasks, Slots
<1>3. pc[t] = "user" /\ t # g_cur_task
  BY <1>2, Zenon DEF TasksInv, Unborn
<1>4. /\ pc'[g_cur_task] = to /\ g_cur_task' = g_cur_task
      /\ \A s \in Slots \ {g_cur_task} : pc'[s] = pc[s]
      /\ state'[t] = "NEW" /\ \A s \in Slots \ {t} : state'[s] = state[s]
  BY <1>1, <1>2, Zenon DEF TasksInv, TasksTypeOK, Goes
<1>5. TasksTypeOK'
  <2>1. to \in Places
    BY Zenon DEF Places
  <2>2. pc' \in [Slots -> Places]
    BY <2>1, Zenon DEF Goes, TasksInv, TasksTypeOK
  <2>3. state' \in [Slots -> States]
    BY Zenon DEF TasksInv, TasksTypeOK, States
  <2>4. g_task_count' \in 2..PROC_MAX_TASKS
    BY <1>1 DEF TasksInv, OneCreator, TasksTypeOK
  <2> QED
    BY <1>1, <1>2, <1>4, <2>2, <2>3, <2>4, Zenon DEF TasksInv, TasksTypeOK
<1>6. Creating'
  <2>1. \A s \in Slots \ {g_cur_task} : pc'[s] \notin Picked \cup Filled
    BY <1>1, <1>4, Zenon DEF TasksInv, Creating, OneCreator
  <2>2. to \notin Picked
    BY Zenon DEF Picked, Filled
  <2> QED
    BY <1>1, <1>2, <1>4, <2>1, <2>2, Zenon DEF Creating
<1>7. Unborn'
  BY <1>1, <1>2, <1>3, <1>4, Zenon DEF TasksInv, Unborn
<1>8. HasFrame'
  BY <1>1, <1>2, <1>4, Zenon DEF TasksInv, HasFrame
<1>9. Dead'
  <2>1. to \notin Exited /\ pc'[t] \notin Exited
    BY <1>2, <1>3, <1>4, Zenon DEF Filled, Exited
  <2> QED
    BY <1>4, <2>1, Zenon DEF TasksInv, Dead
<1> QED
  BY <1>5, <1>6, <1>7, <1>8, <1>9, Zenon DEF TasksInv, OneCreator

\* The NEW task gets a frame and runs, or is dead before it ran.
LEMMA FinishStep ==
    ASSUME TasksInv, NEW from \in Filled, NEW to \in {"user", "vfork_wait"}, Goes(from, to),
           NEW st \in {"RUNNING", "ZOMBIE"},
           state' = [state EXCEPT ![arg[g_cur_task]] = st],
           st = "RUNNING" => arg[g_cur_task] \in framed',
           framed \subseteq framed',
           frame' \in [Slots -> Frames],
           arg' = [arg EXCEPT ![g_cur_task] = 0],
           UNCHANGED <<g_task_count, vfork_parent>>
    PROVE  TasksInv'
<1> DEFINE t == arg[g_cur_task]
<1>1. /\ g_cur_task \in Tasks /\ Tasks \subseteq Slots /\ Tasks' = Tasks
      /\ g_cur_task \in Creators /\ t \in Tasks /\ state[t] = "NEW"
  BY DEF TasksInv, OneCreator, TasksTypeOK, Tasks, Slots, Creating, Goes
<1>2. pc[t] = "user" /\ t # g_cur_task
  BY <1>1, Zenon DEF TasksInv, Unborn
<1>3. /\ pc'[g_cur_task] = to /\ g_cur_task' = g_cur_task
      /\ \A s \in Slots \ {g_cur_task} : pc'[s] = pc[s]
      /\ state'[t] = st /\ \A s \in Slots \ {t} : state'[s] = state[s]
  BY <1>1, Zenon DEF TasksInv, TasksTypeOK, Goes
<1>4. TasksTypeOK'
  <2>1. pc' \in [Slots -> Places]
    BY Zenon DEF Goes, TasksInv, TasksTypeOK, Places, Points
  <2>2. state' \in [Slots -> States]
    BY Zenon DEF TasksInv, TasksTypeOK, States
  <2>3. /\ arg' \in [Slots -> Int] /\ vfork_parent' \in [Slots -> Slots]
        /\ g_task_count' \in 2..PROC_MAX_TASKS
    <3>1. /\ arg \in [Slots -> Int] /\ vfork_parent \in [Slots -> Slots]
          /\ g_task_count \in 2..PROC_MAX_TASKS
      BY Zenon DEF TasksInv, TasksTypeOK
    <3>2. g_cur_task \in Slots
      BY <1>1, Zenon
    <3>3. arg' \in [Slots -> Int]
      BY <3>1, <3>2
    <3> QED
      BY <3>1, <3>3, Zenon
  <2>4. g_cur_task' \in Tasks'
    BY <1>1, <1>3, Zenon
  <2> QED
    BY <2>1, <2>2, <2>3, <2>4, Zenon DEF TasksTypeOK
<1>5. Creating'
  <2>1. \A s \in Slots \ {g_cur_task} : pc'[s] \notin Picked \cup Filled
    BY <1>1, <1>3, Zenon DEF TasksInv, Creating, OneCreator
  <2>2. to \notin Picked \cup Filled
    BY Zenon DEF Picked, Filled
  <2> QED
    BY <1>1, <1>3, <2>1, <2>2, Zenon DEF Creating
<1>6. Unborn'
  BY <1>1, <1>2, <1>3, Zenon DEF TasksInv, Unborn
<1>7. HasFrame'
  BY <1>1, <1>3, Zenon DEF TasksInv, HasFrame
<1>8. Dead'
  <2>1. to \notin Exited /\ pc'[t] \notin Exited
    BY <1>1, <1>2, <1>3, Zenon DEF Exited
  <2> QED
    BY <1>3, <2>1, Zenon DEF TasksInv, Dead
<1> QED
  BY <1>4, <1>5, <1>6, <1>7, <1>8, Zenon DEF TasksInv, OneCreator

LEMMA AllocIInv == ASSUME TasksInv, task_alloc PROVE TasksInv'
<1>1. Goes("spawn", "spawned") /\ "spawn" \in Picked /\ "spawned" \in Filled
  BY Zenon DEF task_alloc, Picked, Filled
<1>2. vfork_parent' \in [Slots -> Slots]
  BY Zenon DEF task_alloc, TasksInv, TasksTypeOK
<1>3. /\ state' = [state EXCEPT ![arg[g_cur_task]] = "NEW"]
      /\ g_task_count' = g_task_count + 1
      /\ UNCHANGED <<framed, frame, arg>>
  BY Zenon DEF task_alloc
<1> QED
  BY <1>1, <1>2, <1>3, FillStep, Zenon

LEMMA VforkFillIInv == ASSUME TasksInv, task_vfork_fill PROVE TasksInv'
<1>1. Goes("vfork", "vforked") /\ "vfork" \in Picked /\ "vforked" \in Filled
  BY Zenon DEF task_vfork_fill, Picked, Filled
<1>2. vfork_parent' \in [Slots -> Slots]
  BY Current, Zenon DEF task_vfork_fill, TasksInv, TasksTypeOK
<1>3. /\ state' = [state EXCEPT ![arg[g_cur_task]] = "NEW"]
      /\ g_task_count' = g_task_count + 1
      /\ UNCHANGED <<framed, frame, arg>>
  BY Zenon DEF task_vfork_fill
<1> QED
  BY <1>1, <1>2, <1>3, FillStep, Zenon

LEMMA SpawnIInv ==
    ASSUME TasksInv, NEW loaded \in BOOLEAN, spawn_task(loaded)
    PROVE  TasksInv'
<1>1. /\ Goes("spawned", "user")
      /\ "spawned" \in Filled /\ "user" \in {"user", "vfork_wait"}
  BY Zenon DEF spawn_task, Filled
<1>2. PICK st \in {"RUNNING", "ZOMBIE"} :
          /\ state' = [state EXCEPT ![arg[g_cur_task]] = st]
          /\ st = "RUNNING" => arg[g_cur_task] \in framed'
  BY Zenon DEF spawn_task
<1>3. framed \subseteq framed' /\ frame' \in [Slots -> Frames]
  BY Zenon DEF spawn_task, TasksInv, TasksTypeOK, Frames
<1>4. /\ arg' = [arg EXCEPT ![g_cur_task] = 0]
      /\ UNCHANGED <<g_task_count, vfork_parent>>
  BY Zenon DEF spawn_task
<1> QED
  BY <1>1, <1>2, <1>3, <1>4, FinishStep, Zenon

LEMMA VforkRunIInv == ASSUME TasksInv, task_vfork_run PROVE TasksInv'
<1>1. /\ Goes("vforked", "vfork_wait")
      /\ "vforked" \in Filled /\ "vfork_wait" \in {"user", "vfork_wait"}
      /\ "RUNNING" \in {"RUNNING", "ZOMBIE"}
  BY Zenon DEF task_vfork_run, Filled
<1>2. /\ state' = [state EXCEPT ![arg[g_cur_task]] = "RUNNING"]
      /\ "RUNNING" = "RUNNING" => arg[g_cur_task] \in framed'
  BY Zenon DEF task_vfork_run
<1>3. framed \subseteq framed' /\ frame' \in [Slots -> Frames]
  BY Zenon DEF task_vfork_run, TasksInv, TasksTypeOK, Frames
<1>4. /\ arg' = [arg EXCEPT ![g_cur_task] = 0]
      /\ UNCHANGED <<g_task_count, vfork_parent>>
  BY Zenon DEF task_vfork_run
<1> QED
  BY <1>1, <1>2, <1>3, <1>4, FinishStep, Zenon

-----------------------------------------------------------------------------
(* The theorems                                                            *)

LEMMA TasksStartInv == ASSUME OneCreator, TasksInit PROVE TasksInv
<1>1. TasksTypeOK
  BY DEF OneCreator, TasksInit, TasksTypeOK, Tasks, Slots, States, Frames, Places, Points
<1>2. Creating
  BY Zenon DEF TasksInit, Creating, Picked, Filled
<1>3. Unborn
  BY DEF TasksInit, Unborn, Tasks, Slots
<1>4. HasFrame
  BY DEF TasksInit, HasFrame, Tasks
<1>5. Dead
  BY Zenon DEF TasksInit, Dead, Exited
<1> QED
  BY <1>1, <1>2, <1>3, <1>4, <1>5, Zenon DEF TasksInv

LEMMA TasksStep == TasksInv /\ [TasksNext]_taskVars => TasksInv'
<1> SUFFICES ASSUME TasksInv, [TasksNext]_taskVars PROVE TasksInv'
  BY Zenon
<1>1. CASE tick
  BY <1>1, SwitchStep, Zenon DEF tick
<1>2. CASE task_wait_switch
  BY <1>2, SwitchStep, Zenon DEF task_wait_switch
<1>3. CASE pick_slot("spawn") \/ pick_slot("vfork")
  <2>1. "spawn" \in Picked /\ "vfork" \in Picked
    BY Zenon DEF Picked
  <2> QED
    BY <1>3, <2>1, PickIInv, Zenon
<1>4. CASE task_alloc
  BY <1>4, AllocIInv, Zenon
<1>5. ASSUME NEW loaded \in BOOLEAN, spawn_task(loaded) PROVE TasksInv'
  BY <1>5, SpawnIInv, Zenon
<1>6. CASE task_vfork_fill \/ task_vfork_run \/ task_vfork_wait
  BY <1>6, VforkFillIInv, VforkRunIInv, VforkWaitIInv
<1>7. CASE task_exec_entry \/ task_exec_wake \/ exec_enter
  BY <1>7, ExecEntryIInv, ExecWakeIInv, ExecEnterIInv, Zenon
<1>8. CASE task_exit \/ task_exit_wake
  BY <1>8, ExitIInv, ExitWakeIInv
<1>9. ASSUME NEW pid \in Waited, task_wait(pid) PROVE TasksInv'
  BY <1>9, WaitIInv, Zenon
<1>10. CASE task_wait_check \/ task_wait_set \/ task_wait_woken
  BY <1>10, WaitCheckIInv, WaitSetIInv, WaitWokenIInv, Zenon
<1>11. CASE UNCHANGED taskVars
  BY <1>11, ZenonT(30)
  DEF taskVars, TasksInv, OneCreator, TasksTypeOK, Tasks, Creating, Unborn, HasFrame, Dead
<1> QED
  BY <1>1, <1>2, <1>3, <1>4, <1>5, <1>6, <1>7, <1>8, <1>9, <1>10, <1>11, Zenon DEF TasksNext

\* With one creating task, for every table size: whatever sched_tick may
\* choose has been given a stack frame, although an unfilled slot reads as
\* TASK_RUNNING.
THEOREM OnlyFramedRun == OneCreator /\ TasksSpec => []RunnableIsFramed
<1>1. OneCreator /\ TasksInit => TasksInv
  BY TasksStartInv, Zenon
<1>2. TasksInv => RunnableIsFramed
  BY Zenon DEF TasksInv, HasFrame, RunnableIsFramed
<1> QED
  BY <1>1, <1>2, TasksStep, PTL DEF TasksSpec

\* With one creating task, for every table size: no waking of a vfork parent
\* and no filling of a slot brings a task back that left through task_exit.
THEOREM ExitedStayDead == OneCreator /\ TasksSpec => ZombieStays
<1>1. OneCreator /\ TasksInit => TasksInv
  BY TasksStartInv, Zenon
<1>2. ASSUME TasksInv, TasksInv', [TasksNext]_taskVars
      PROVE  [\A s \in Slots : pc[s] \in {"exiting", "halted"} =>
                 state'[s] = "ZOMBIE" /\ pc'[s] \in {"exiting", "halted"}]_taskVars
  <2> SUFFICES ASSUME TasksNext, NEW s \in Slots, pc[s] \in Exited
               PROVE  state'[s] = "ZOMBIE" /\ pc'[s] \in Exited
    BY <1>2, Zenon DEF Exited
  <2>1. pc'[s] \in Exited
    <3>1. CASE s # g_cur_task
      <4>1. pc' = pc \/ \E to : pc' = [pc EXCEPT ![g_cur_task] = to]
        BY Zenon DEF TasksNext, tick, pick_slot, task_alloc, spawn_task, task_vfork_fill,
               task_vfork_run, task_vfork_wait, task_exec_entry, task_exec_wake,
               exec_enter, task_exit, task_exit_wake, task_wait, task_wait_check,
               task_wait_set, task_wait_switch, task_wait_woken, Calls, Goes
      <4> QED
        BY <1>2, <3>1, <4>1 DEF TasksInv, TasksTypeOK
    <3>2. CASE s = g_cur_task
      <4>1. tick \/ task_exit_wake
        BY <3>2, Zenon DEF TasksNext, tick, pick_slot, task_alloc, spawn_task, task_vfork_fill,
               task_vfork_run, task_vfork_wait, task_exec_entry, task_exec_wake,
               exec_enter, task_exit, task_exit_wake, task_wait, task_wait_check,
               task_wait_set, task_wait_switch, task_wait_woken, Calls, Goes, Exited
      <4> QED
        BY <1>2, <3>2, <4>1, Zenon DEF tick, task_exit_wake, Goes, TasksInv, TasksTypeOK, Exited
    <3> QED
      BY <3>1, <3>2, Zenon
  <2> QED
    BY <1>2, <2>1, Zenon DEF TasksInv, Dead
<1> QED
  BY <1>1, <1>2, TasksStep, PTL DEF TasksSpec, ZombieStays

-----------------------------------------------------------------------------
(* The registers, Trampolines                                              *)

\* What an interrupt or a call of the program has on the stack.
Saved(b) == [k \in 1..15 |-> b[Pushed[k]]]
ProgramFrame(b) == <<Zero, Zero, Zero, Zero, "program">> \o Saved(b)
EntryFrame ==
    <<Zero, Zero, Zero, Zero, "entry">> \o [k \in 1..15 |-> Zero] \o <<"irq0_resume">>

RegInv ==
    /\ DOMAIN regs = Regs
    /\ at \in {"program", "sched_boot", "resume", "irq0_resume", "syscall_ret", Zero}
    /\ at \in {"program", "sched_boot"} => stack = <<>>
    /\ at \in {"irq0_resume", "syscall_ret"} => stack = ProgramFrame(before)
    /\ at = "resume" => stack = EntryFrame

LEMMA Fifteen ==
    /\ Len(Pushed) = 15 /\ DOMAIN Pushed = 1..15 /\ Pushed[1] = "rax"
    /\ Len(CpuFrame) = 5 /\ Len(CalleeSaved) = 6
BY DEF Pushed, CpuFrame, CalleeSaved

LEMMA RegsArePushed ==
    /\ \A k \in 1..15 : Pushed[k] \in Regs
    /\ \A r \in Regs : \E k \in 1..15 : Pushed[k] = r
BY Fifteen, Zenon DEF Regs, Range

\* Five words and fifteen: the fifth is where to go on.
Framed(st, five, w) ==
    /\ Len(st) = 20 /\ st[5] = five[5]
    /\ SubSeq(st, 1, 0) = <<>>
    /\ DOMAIN SubSeq(st, 6, 20) = 1..15
    /\ \A k \in 1..15 : st[5 + k] = w[k] /\ SubSeq(st, 6, 20)[k] = w[k]

LEMMA FrameIs ==
    ASSUME NEW S, NEW five \in Seq(S), Len(five) = 5, NEW w \in Seq(S), Len(w) = 15
    PROVE  five \o w \in Seq(S) /\ Framed(five \o w, five, w)
<1> DEFINE st == five \o w
<1>1. /\ st \in Seq(S) /\ Len(st) = Len(five) + Len(w)
      /\ \A k \in 1..(Len(five) + Len(w)) :
            st[k] = IF k <= Len(five) THEN five[k] ELSE w[k - Len(five)]
  BY ConcatProperties, Zenon
<1> HIDE DEF st
<1>2. Len(st) = 20 /\ \A k \in 1..20 : st[k] = IF k <= 5 THEN five[k] ELSE w[k - 5]
  BY <1>1
<1>3. st[5] = five[5]
  BY <1>2
<1>4. ASSUME NEW k \in 1..15 PROVE st[5 + k] = w[k]
  <2>1. 5 + k \in 1..20 /\ ~(5 + k <= 5) /\ (5 + k) - 5 = k
    OBVIOUS
  <2> QED
    BY <1>2, <2>1, Zenon
<1>5. /\ SubSeq(st, 1, 0) = <<>> /\ DOMAIN SubSeq(st, 6, 20) = 1..15
      /\ \A k \in 1..15 : SubSeq(st, 6, 20)[k] = st[5 + k]
  BY <1>1, <1>2
<1> QED
  BY <1>1, <1>2, <1>3, <1>4, <1>5, Zenon DEF Framed, st

LEMMA FiveIs ==
    ASSUME NEW S, NEW a \in S, NEW b \in S
    PROVE  /\ <<a, a, a, a, b>> \in Seq(S) /\ Len(<<a, a, a, a, b>>) = 5
           /\ <<a, a, a, a, b>>[5] = b
OBVIOUS

LEMMA WordsAre ==
    ASSUME NEW S, NEW w, w = [k \in 1..15 |-> w[k]], \A k \in 1..15 : w[k] \in S
    PROVE  w \in Seq(S) /\ Len(w) = 15
OBVIOUS

LEMMA ProgramFrameIs ==
    ASSUME NEW b
    PROVE  Framed(ProgramFrame(b), <<Zero, Zero, Zero, Zero, "program">>, Saved(b))
<1> DEFINE five == <<Zero, Zero, Zero, Zero, "program">>
           S == {Zero, "program"} \cup {b[Pushed[k]] : k \in 1..15}
<1>1. Zero \in S /\ "program" \in S /\ \A k \in 1..15 : b[Pushed[k]] \in S
  BY Zenon
<1> HIDE DEF S
<1>2. five \in Seq(S) /\ Len(five) = 5
  BY <1>1, FiveIs, Zenon
<1> HIDE DEF five
<1>3. Saved(b) = [k \in 1..15 |-> Saved(b)[k]] /\ \A k \in 1..15 : Saved(b)[k] \in S
  BY <1>1, Zenon DEF Saved
<1>4. Saved(b) \in Seq(S) /\ Len(Saved(b)) = 15
  BY <1>3, WordsAre, Zenon
<1>5. Framed(five \o Saved(b), five, Saved(b))
  BY <1>2, <1>4, FrameIs, Zenon
<1> QED
  BY <1>5, Zenon DEF ProgramFrame, five

\* After six pops sched_switch.resume returns to the fifteenth word, one of
\* the task's register words.
LEMMA EntryFrameIs == Len(EntryFrame) = 21 /\ EntryFrame[15] = Zero
<1> DEFINE S == {Zero, "entry", "irq0_resume"}
           five == <<Zero, Zero, Zero, Zero, "entry">>
           w == [k \in 1..15 |-> Zero]
           st == five \o w
           last == <<"irq0_resume">>
<1>1. Zero \in S /\ "entry" \in S /\ "irq0_resume" \in S
  BY Zenon
<1> HIDE DEF S
<1>2. five \in Seq(S) /\ Len(five) = 5
  BY <1>1, FiveIs, Zenon
<1>3. w = [k \in 1..15 |-> w[k]] /\ \A k \in 1..15 : w[k] \in S /\ w[k] = Zero
  BY <1>1, Zenon
<1> HIDE DEF five, w
<1>4. w \in Seq(S) /\ Len(w) = 15
  BY <1>3, WordsAre, Zenon
<1>5. st \in Seq(S) /\ Framed(st, five, w)
  BY <1>2, <1>4, FrameIs, Zenon
<1>6. last \in Seq(S) /\ Len(last) = 1
  BY <1>1
<1>7. EntryFrame = st \o last
  BY Zenon DEF EntryFrame, five, w
<1> HIDE DEF st, last
<1>8. Len(st) = 20 /\ st[5 + 10] = Zero
  BY <1>3, <1>5 DEF Framed
<1>9. /\ Len(st \o last) = Len(st) + Len(last)
      /\ \A k \in 1..(Len(st) + Len(last)) :
            (st \o last)[k] = IF k <= Len(st) THEN st[k] ELSE last[k - Len(st)]
  BY <1>5, <1>6, ConcatProperties, Zenon
<1>10. Len(st \o last) = 21 /\ (st \o last)[15] = st[15]
  BY <1>6, <1>8, <1>9
<1>11. st[15] = Zero
  BY <1>8
<1> QED
  BY <1>7, <1>10, <1>11, Zenon

-----------------------------------------------------------------------------
LEMMA RegistersStart == RegistersInit => RegInv
BY Zenon DEF RegistersInit, RegInv

\* PUSHALL above the frame of the CPU, on an empty stack.
LEMMA PushesFrame ==
    ASSUME stack = <<>>
    PROVE  PUSHALL(PushCpu("program")) = ProgramFrame(regs)
<1> DEFINE five == <<Zero, Zero, Zero, Zero, "program">>
           S == {Zero, "program"}
<1>1. Zero \in S /\ "program" \in S
  BY Zenon
<1> HIDE DEF S
<1>2. five \in Seq(S)
  BY <1>1, FiveIs, Zenon
<1>3. PushCpu("program") = <<>> \o five
  BY Zenon DEF PushCpu
<1> HIDE DEF five
<1>4. PushCpu("program") = five
  BY <1>2, <1>3, ConcatEmptySeq, Zenon
<1>5. [k \in DOMAIN Pushed |-> regs[Pushed[k]]] = Saved(regs)
  BY Fifteen, Zenon DEF Saved
<1>6. PUSHALL(five) = five \o Saved(regs)
  BY <1>5, Zenon DEF PUSHALL
<1> QED
  BY <1>4, <1>6, Zenon DEF ProgramFrame, five

\* The words w are those on the stack but for the registers of X.
SavedBut(w, X) == \A k \in 1..15 : Pushed[k] \notin X => w[k] = SubSeq(stack, 6, 20)[k]

\* POPALL and iretq undo it, whatever the word for rax is by then.
LEMMA PopsFrame ==
    ASSUME NEW b, stack = ProgramFrame(b), NEW w, POPALL_iretq(w), NEW X, SavedBut(w, X)
    PROVE  /\ DOMAIN regs' = Regs /\ at' = "program" /\ stack' = <<>>
           /\ \A r \in Regs \ X : regs'[r] = b[r]
<1> DEFINE five == <<Zero, Zero, Zero, Zero, "program">>
<1>1. five[5] = "program"
  BY Zenon
<1>2. Framed(stack, five, Saved(b))
  BY ProgramFrameIs, Zenon
<1> HIDE DEF five
<1>3. /\ Len(stack) = 20 /\ stack[5] = "program" /\ SubSeq(stack, 1, 0) = <<>>
      /\ \A k \in 1..15 : SubSeq(stack, 6, 20)[k] = Saved(b)[k]
  BY <1>1, <1>2, Zenon DEF Framed
<1>4. \A k \in 1..15 : Saved(b)[k] = b[Pushed[k]]
  BY Zenon DEF Saved
<1>5. /\ regs' = [r \in Regs |-> w[CHOOSE k \in 1..15 : Pushed[k] = r]]
      /\ at' = stack[Len(stack) - 15] /\ stack' = SubSeq(stack, 1, Len(stack) - (15 + 5))
  BY Fifteen DEF POPALL_iretq, Dropped
<1>6. at' = "program" /\ stack' = <<>>
  BY <1>3, <1>5
<1>7. ASSUME NEW r \in Regs \ X PROVE regs'[r] = b[r]
  <2> DEFINE k == CHOOSE k \in 1..15 : Pushed[k] = r
  <2>1. k \in 1..15 /\ Pushed[k] = r
    BY RegsArePushed, Zenon
  <2>2. regs'[r] = w[k]
    BY <1>5, Zenon
  <2> HIDE DEF k
  <2> QED
    BY <1>3, <1>4, <2>1, <2>2, Zenon DEF SavedBut
<1> QED
  BY <1>5, <1>6, <1>7, Zenon

\* What a step of RegistersNext does when it goes back to the program.
BackInProgram ==
    at # "program" /\ at' = "program" =>
        /\ stack' = <<>>
        /\ \A r \in Regs \ (IF at = "syscall_ret" THEN {"rax"} ELSE {}) : regs'[r] = before[r]

LEMMA RegistersStep ==
    ASSUME RegInv, RegistersNext
    PROVE  RegInv' /\ BackInProgram
<1>1. ASSUME at = "program", before' = regs, stack' = PUSHALL(PushCpu("program")),
             DOMAIN regs' = Regs, at' \in {"irq0_resume", "syscall_ret"}
      PROVE  RegInv' /\ BackInProgram
  <2>1. stack' = ProgramFrame(before')
    BY <1>1, PushesFrame, Zenon DEF RegInv
  <2> QED
    BY <1>1, <2>1, Zenon DEF RegInv, BackInProgram
<1>2. CASE irq0_handler
  <2>1. at = "program" /\ before' = regs /\ stack' = PUSHALL(PushCpu("program"))
        /\ at' = "irq0_resume"
    BY <1>2, Zenon DEF irq0_handler
  <2>2. DOMAIN regs' = Regs
    BY <1>2, Zenon DEF irq0_handler
  <2> QED
    BY <1>1, <2>1, <2>2, Zenon
<1>3. CASE syscall_handler
  <2>1. at = "program" /\ before' = regs /\ stack' = PUSHALL(PushCpu("program"))
        /\ at' = "syscall_ret"
    BY <1>3, Zenon DEF syscall_handler
  <2>2. DOMAIN regs' = Regs
    BY <1>3, Zenon DEF syscall_handler, RegInv
  <2> QED
    BY <1>1, <2>1, <2>2, Zenon
<1>4. ASSUME at \in {"irq0_resume", "syscall_ret"} PROVE Top(15) = SubSeq(stack, 6, 20)
  <2>1. Len(stack) = 20
    BY <1>4, ProgramFrameIs DEF RegInv, Framed
  <2> QED
    BY <2>1 DEF Top
<1>5. CASE irq0_resume
  <2>1. at = "irq0_resume" /\ POPALL_iretq(Top(15)) /\ before' = before
    BY <1>5, Fifteen, Zenon DEF irq0_resume
  <2>2. stack = ProgramFrame(before)
    BY <2>1, Zenon DEF RegInv
  <2>3. Top(15) = SubSeq(stack, 6, 20)
    BY <1>4, <2>1, Zenon
  <2>4. POPALL_iretq(SubSeq(stack, 6, 20))
    BY <2>1, <2>3, Zenon
  <2>5. /\ DOMAIN regs' = Regs /\ at' = "program" /\ stack' = <<>>
        /\ \A r \in Regs \ {} : regs'[r] = before[r]
    <3>1. SavedBut(SubSeq(stack, 6, 20), {})
      BY Zenon DEF SavedBut
    <3> QED
      BY <2>2, <2>4, <3>1, PopsFrame, Zenon
  <2> QED
    BY <2>1, <2>5, Zenon DEF RegInv, BackInProgram
<1>6. CASE syscall_ret
  <2>1. PICK v \in Values : POPALL_iretq([Top(15) EXCEPT ![1] = v])
    BY <1>6, Fifteen, Zenon DEF syscall_ret
  <2>2. at = "syscall_ret" /\ before' = before
    BY <1>6, Zenon DEF syscall_ret
  <2>3. stack = ProgramFrame(before)
    BY <2>2, Zenon DEF RegInv
  <2>4. Top(15) = SubSeq(stack, 6, 20)
    BY <1>4, <2>2, Zenon
  <2> DEFINE w == [SubSeq(stack, 6, 20) EXCEPT ![1] = v]
  <2>5. POPALL_iretq(w)
    BY <2>1, <2>4, Zenon
  <2> DEFINE X == {"rax"}
  <2>6. SavedBut(w, X)
    <3>1. DOMAIN SubSeq(stack, 6, 20) = 1..15
      BY <2>3, ProgramFrameIs, Zenon DEF Framed
    <3>2. \A k \in 1..15 : k # 1 => w[k] = SubSeq(stack, 6, 20)[k]
      BY <3>1, Zenon
    <3> QED
      BY <3>2, Fifteen, Zenon DEF SavedBut
  <2> HIDE DEF w, X
  <2>7. /\ DOMAIN regs' = Regs /\ at' = "program" /\ stack' = <<>>
        /\ \A r \in Regs \ X : regs'[r] = before[r]
    BY <2>3, <2>5, <2>6, PopsFrame, Zenon
  <2> QED
    BY <2>2, <2>7, Zenon DEF RegInv, BackInProgram, X
<1>7. CASE task_set_entry
  <2>1. stack' = EntryFrame
    BY <1>7, Fifteen, Zenon DEF task_set_entry, EntryFrame
  <2> QED
    BY <1>7, <2>1, Zenon DEF task_set_entry, RegInv, BackInProgram
<1>8. CASE resume
  <2>1. at = "resume" /\ stack = EntryFrame
    BY <1>8, Zenon DEF resume, RegInv
  <2>2. at' = EntryFrame[Len(EntryFrame) - 6] /\ DOMAIN regs' = Regs
    BY <1>8, <2>1, Fifteen, Zenon DEF resume
  <2>3. at' = Zero
    BY <2>2, EntryFrameIs
  <2> QED
    BY <2>2, <2>3, Zenon DEF RegInv, BackInProgram, Zero
<1> QED
  BY <1>2, <1>3, <1>5, <1>6, <1>7, <1>8 DEF RegistersNext

\* An interrupt or a system call gives the program back its registers, all of
\* them or all but rax: isr.asm, PUSHALL and POPALL, for any register values.
THEOREM RegistersGivenBack == RegistersSpec => RegistersKept
<1>1. RegInv /\ [RegistersNext]_registerVars => RegInv'
  <2>1. ASSUME RegInv, UNCHANGED registerVars PROVE RegInv'
    BY <2>1, Zenon DEF registerVars, RegInv
  <2> QED
    BY <2>1, RegistersStep, Zenon
<1>2. RegInv /\ [RegistersNext]_registerVars => [BackInProgram]_registerVars
  BY RegistersStep, Zenon
<1>3. RegistersSpec => [][BackInProgram]_registerVars
  BY <1>1, <1>2, RegistersStart, PTL DEF RegistersSpec
<1> QED
  BY <1>3, Zenon DEF RegistersKept, BackInProgram
=============================================================================
